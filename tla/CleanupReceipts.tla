---------------------------- MODULE CleanupReceipts ----------------------------
(****************************************************************************)
(* What every executor of a cleanup promises the user about its receipts.    *)
(* Targets are settled one at a time and in order.  A target that is         *)
(* reported removed or partially removed was acted on; one that is reported  *)
(* cancelled was not; and once a target has been cancelled no other target   *)
(* is acted on any more.                                                     *)
(****************************************************************************)
EXTENDS Naturals

CONSTANT N      \* number of prepared targets

Targets == 1 .. N

VARIABLES
  receipt,      \* state in each target's receipt
  attempted     \* targets on which a mutation has been started

vars == << receipt, attempted >>

States == {"removed", "partial", "failed", "cancelled"}

Init ==
  /\ receipt = [k \in Targets |-> "pending"]
  /\ attempted = {}

(* The executor works on the first target that has no receipt.               *)
Current(k) ==
  /\ receipt[k] = "pending"
  /\ \A j \in Targets : j < k => receipt[j] # "pending"

Attempt(k) ==
  /\ Current(k)
  /\ attempted' = attempted \cup {k}
  /\ UNCHANGED receipt

(* What may be written of a target.                                          *)
Truthful(k, state) ==
  /\ state \in {"removed", "partial"} => k \in attempted
  /\ state = "cancelled" => k \notin attempted

Settle(k, state) ==
  /\ Current(k)
  /\ state \in States \ {"cancelled"} /\ Truthful(k, state)
  /\ receipt' = [receipt EXCEPT ![k] = state]
  /\ UNCHANGED attempted

(* A cancellation settles the target at hand and every later one.            *)
Stop(k, state) ==
  /\ Current(k)
  /\ state \in States /\ Truthful(k, state)
  /\ receipt' = [j \in Targets |-> IF j < k THEN receipt[j]
                                   ELSE IF j = k THEN state ELSE "cancelled"]
  /\ UNCHANGED attempted

Next == \E k \in Targets :
  \/ Attempt(k)
  \/ \E state \in States : Settle(k, state) \/ Stop(k, state)

Spec == Init /\ [][Next]_vars
=============================================================================
