----------------------------- MODULE MCActiveUnit -----------------------------
(* An instance of ActiveUnit for TLC: a container with two members, one on a  *)
(* branch and one detached, the second inside a leaf directory.               *)
EXTENDS ActiveUnit

OneAttached == {1}
SecondInLeaf == {2}
=============================================================================
