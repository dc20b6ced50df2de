------------------------------- MODULE MCStrip -------------------------------
(***************************************************************************)
(* A home h with two worktrees below the protected container h/w: u, with  *)
(* a checkout in each of two leaves, each with a regenerable subtree, and  *)
(* v, a checkout with one. h/k is protected, and so is a relocated home    *)
(* h/r, which may be a link into a subtree. h/l is a link to a subtree of  *)
(* u, which the user pins. The file system finds k under K too.            *)
(***************************************************************************)
EXTENDS Strip

H == <<"h">>
K == H \o <<"k">>
W == H \o <<"w">>
R == H \o <<"r">>
O == H \o <<"o">>
U == W \o <<"u">>
V == W \o <<"v">>
N == U \o <<"1", "n">>
A == U \o <<"2", "a">>
B == A \o <<"n">>

MCProtected == {<<"k">>, <<"w">>}
MCRelocated == {R}
MCTemp == <<"t">>
MCContainer == <<"o">>
MCStored(name) == IF name = "K" THEN "k" ELSE name

Paths == <<<<>>, H, K, W, R, O, U, V, N, N \o <<"m">>, A, B, U \o <<"1">>, U \o <<"2">>,
           O \o <<"c">>,
           U \o <<"1", "g">>, U \o <<"2", "g">>, U \o <<"1", "p">>,
           V \o <<"g">>, V \o <<"p">>, V \o <<"n">>>>

MCNames == UNION {Range(Paths[i]) : i \in DOMAIN Paths} \cup
           {"K", "U", "l", "r2", "t", "x", "y", "z", "*", ".."}

Kind(p) == IF p # <<>> /\ Last(p) \in {"g", "p"} THEN "file" ELSE "dir"

Bare == [p \in Range(Paths) |->
            [kind |-> Kind(p), to |-> <<>>, id |-> CHOOSE i \in DOMAIN Paths : Paths[i] = p]]

Linked == [Bare EXCEPT ![R].kind = "link", ![R].to = N]
Plain == [Bare EXCEPT ![V \o <<"g">>].kind = "dir"]
L == H \o <<"l">>
Alias == (L :> [kind |-> "link", to |-> N, id |-> Len(Paths) + 1]) @@ Plain

MCRows == <<[path |-> U, id |-> Bare[U].id, status |-> "active", verdict |-> "active_worktree",
             subtrees |-> <<N>>],
            [path |-> V, id |-> Bare[V].id, status |-> "active", verdict |-> "age",
             subtrees |-> <<V \o <<"n">>>>],
            [path |-> U, id |-> Bare[U].id, status |-> "active", verdict |-> "age",
             subtrees |-> <<N, B>>],
            [path |-> K, id |-> Bare[K].id, status |-> "active", verdict |-> "eligible",
             subtrees |-> <<K>>]>>

MCPositions == {[marker |-> <<"p">>, kind |-> "file", at |-> <<"n">>],
                [marker |-> <<"a">>, kind |-> "dir", at |-> <<"a", "n">>]}

MCPlaces == {U, N, A}
MCLeads == {K, U \o <<"1">>, <<"x">>}
Asked(roots, excludes, pins) == [roots |-> roots, excludes |-> excludes, pins |-> pins]
Pattern(form, segments) == [form |-> form, segments |-> segments]

Unasked == Asked({}, {}, {})
Pinning == Asked({}, {Pattern("absolute", N)},
                 {Pattern("absolute", L), Pattern("relative", <<"..", "h">>),
                  Pattern("absolute", <<"x">>)})

\* A link into U is pinned in one of the file systems.
MCInitial ==
  {[fs |-> system, request |-> Unasked] : system \in {Linked, Plain}} \cup
  {[fs |-> Alias, request |-> Pinning]} \cup
  {[fs |-> Plain, request |-> request] : request \in
     { Asked({W, U}, {Pattern("home", <<"w", "u">>)}, {}),
       Asked({}, {}, {Pattern("absolute", U \o <<"*">>)}),
       Asked({V}, {}, {Pattern("relative", <<"n">>)}),
       Asked({<<"x">>}, {}, {}) }}

\* The same with a pin spelled as the user likes, where case makes no difference.
MCFolded(name) == IF name = "U" THEN "u" ELSE MCStored(name)
MCSpelled == {[fs |-> Plain, request |-> Asked({}, {}, {Pattern("absolute", W \o <<"U">>)})]}

MCAttics == <<<<"y">>, <<"z">>>>
MCCwds == {B}
MCAsk == {p \in Range(Paths) : Kind(p) = "dir"} \cup
         {H \o <<"K">>, H \o <<"K", "n">>, W \o <<"u", "..", "v">>, U \o <<"1", "n", "x">>,
          H \o <<"r2">>, R \o <<"n">>, U \o <<"n">>}
=============================================================================
