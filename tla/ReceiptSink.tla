------------------------------ MODULE ReceiptSink ------------------------------
(****************************************************************************)
(* The file named by --receipt-file:                                         *)
(*                                                                           *)
(*   cleanjson.PrepareReceiptSink   checks and binds it before any mutation  *)
(*   cleanjson.ReceiptSink.Write    stores the document after the cleanup    *)
(*                                                                           *)
(* The directory is held open from the first to the second, so only the leaf *)
(* can change in between.                                                    *)
(****************************************************************************)
EXTENDS Naturals

CONSTANTS Targets,    \* the physical targets of the plan
          MaxSwaps    \* bound on what others do to the leaf

Outside == "outside every target"

ASSUME SinkAssumption == MaxSwaps \in Nat /\ Outside \notin Targets

VARIABLES
  leaf,     \* what the name refers to: "absent", "file", "alias" (a symbolic
            \* link, a pipe, a directory), or "new": a regular file that was
            \* not there when the sink was bound
  place,    \* the target the file is in, or Outside
  swaps,    \* changes made to the leaf by others
  bound,    \* "none", or what the leaf was when it was checked
  document  \* the file the receipt is in, "created" if the run created it

sink == << leaf, place, swaps, bound, document >>

SinkInit ==
  /\ leaf \in {"absent", "file", "alias"}
  /\ place \in Targets \cup {Outside}
  /\ swaps = 0 /\ bound = "none" /\ document = "none"

(* What others do before the sink is bound is in the initial leaf.           *)
SwapLeaf ==
  /\ bound # "none" /\ document = "none" /\ swaps < MaxSwaps
  /\ \E other \in {"absent", "new", "alias"} \ {leaf} : leaf' = other
  /\ swaps' = swaps + 1
  /\ UNCHANGED << place, bound, document >>

-----------------------------------------------------------------------------
(* A file in a target would be removed with it, or bring its path back.      *)
InsideTarget(selected) == place \in selected

Bindable(selected) ==
  /\ leaf # "alias"
  /\ ~InsideTarget(selected)

Bind ==
  /\ bound' = leaf
  /\ UNCHANGED << leaf, place, swaps, document >>

(* An existing leaf must still be the file that was checked; a new one must  *)
(* not be there yet (O_EXCL).  The file written to becomes the document.     *)
SameName == TRUE  \* mutant: whatever has the name now

SameFile == leaf = bound

Writable == IF bound = "absent" THEN leaf = "absent" ELSE leaf # "absent" /\ SameFile

Store ==
  /\ Writable
  /\ document' = IF leaf = "absent" THEN "created" ELSE leaf
  /\ leaf' = document'
  /\ UNCHANGED << place, swaps, bound >>
=============================================================================
