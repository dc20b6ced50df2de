--------------------------- MODULE MCOverlapBarrier ---------------------------
(* Instances of OverlapBarrier for TLC: an agent-state target, a directory    *)
(* that can hold an entry, and a target that a cleanup command reclaims.      *)
EXTENDS OverlapBarrier, TLC

(* The first target is the entry "own"; "inner" lies inside the others, one   *)
(* of which lies inside the other.                                            *)
ExactThenOuter ==
  [e \in Entries |->
     [k \in Targets |-> CASE e = "own" /\ k = 1 -> "exact"
                          [] e = "inner" /\ k > 1 -> "descendant"
                          [] OTHER -> "none"]]

(* All targets are plain directories; "inner" lies inside the second.         *)
OnlyOuter ==
  [e \in Entries |->
     [k \in Targets |-> IF e = "inner" /\ k = 2 THEN "descendant" ELSE "none"]]

(* p is a project below the home directory h, in a directory x of its own; q  *)
(* one on a volume that is mounted at v/d.                                    *)
MCPathOf == [c \in Cwds |-> IF c = "p" THEN << "h", "x", "p" >> ELSE << "v", "d", "q" >>]
MCContainers == {<< "h" >>}

Node(kind, volume) == [kind |-> kind, volume |-> volume, to |-> << >>]
Around == (<< >> :> Node("dir", 1)) @@ (<< "h" >> :> Node("dir", 1)) @@ (<< "v" >> :> Node("dir", 1))
X(kind) == << "h", "x" >> :> Node(kind, 1)

(* p deleted, p there, x a link to a volume that is gone, v/d mounted.        *)
MCDisks ==
  { [nodes |-> X("dir") @@ Around, away |-> {"q"}],
    [nodes |-> X("dir") @@ (MCPathOf["p"] :> Node("dir", 1)) @@ Around, away |-> {"q"}],
    [nodes |-> X("dangling") @@ Around, away |-> {"p", "q"}],
    [nodes |-> X("dir") @@ (<< "v", "d" >> :> Node("dir", 2)) @@ Around, away |-> {}] }

MCContents == [e \in Entries |-> {{"p"}, IF e = "own" THEN {"p", "bad"} ELSE {"p", "q"}}]
MCEncoded == [e \in {"own"} |-> "p"]

NoCommand == {}
ThirdByCommand == {3}
=============================================================================
