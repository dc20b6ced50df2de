----------------------------- MODULE ScanPromise -----------------------------
(****************************************************************************)
(* What a scan promises to whoever asks for it (ScanWithOptions): it decides *)
(* the fate of every provider, or of none, before it reports; it reports     *)
(* once; an inventory holds no provider whose scan was cut short, and is     *)
(* complete exactly when no provider failed.                                 *)
(****************************************************************************)
CONSTANT Providers

VARIABLES
  fate,     \* of each provider: open, listed, failed, or aborted
  outcome   \* none, rejected, cancelled, partial, or complete

Init ==
  /\ fate = [p \in Providers |-> "open"]
  /\ outcome = "none"

Settle(p) ==
  /\ outcome = "none" /\ fate[p] = "open"
  /\ \E f \in {"listed", "failed", "aborted"} : fate' = [fate EXCEPT ![p] = f]
  /\ UNCHANGED outcome

(* The roots are refused, or the caller has gone before anything began.      *)
Refuse ==
  /\ outcome = "none" /\ \A p \in Providers : fate[p] = "open"
  /\ outcome' \in {"rejected", "cancelled"}
  /\ UNCHANGED fate

Inventory ==
  /\ \A p \in Providers : fate[p] # "aborted"
  /\ outcome' = IF \E p \in Providers : fate[p] = "failed" THEN "partial" ELSE "complete"

Report ==
  /\ outcome = "none" /\ \A p \in Providers : fate[p] # "open"
  /\ Inventory \/ outcome' = "cancelled"
  /\ UNCHANGED fate

Next == (\E p \in Providers : Settle(p)) \/ Refuse \/ Report

Spec == Init /\ [][Next]_<< fate, outcome >>
=============================================================================
