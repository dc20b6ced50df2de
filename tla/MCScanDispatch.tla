---------------------------- MODULE MCScanDispatch ----------------------------
(* Three providers for two slots, and two retention stores that share a       *)
(* bucket, or do not.                                                         *)
EXTENDS ScanDispatch

Row(t, temp, owned, excluded) ==
  [tool |-> t, temp |-> temp, owned |-> owned, excluded |-> excluded]

FoundByTool ==
  [p \in 1 .. 3 |->
     CASE p = 1 -> {Row(1, FALSE, FALSE, FALSE), Row(1, TRUE, TRUE, FALSE)}
       [] p = 2 -> {Row(2, TRUE, FALSE, FALSE)}
       [] p = 3 -> {Row(3, FALSE, FALSE, TRUE), Row(3, TRUE, TRUE, FALSE)}]

CONSTANTS b, c

AllKeys == {b, c}

SharedOrNot == { << {b}, {b, c} >>, << {b}, {c} >> }
=============================================================================
