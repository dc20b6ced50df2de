--------------------------- MODULE MCBatchExecution ---------------------------
(* Plans of two targets for TLC: a target of each kind before a plain path,   *)
(* one that could not be prepared, and two that have the same key.            *)
EXTENDS BatchExecution

Two(first, ready, second) ==
  [k \in 1 .. 2 |-> IF k = 1 THEN [kind |-> first, prepared |-> ready, key |-> 1]
                             ELSE [kind |-> "path", prepared |-> TRUE, key |-> second]]

PairsOfKinds ==
  {Two(first, TRUE, 2) : first \in AllKinds}
    \cup {Two("path", FALSE, 2), Two("command", TRUE, 1)}
=============================================================================
