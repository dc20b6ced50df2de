----------------------------- MODULE MCCodexTmp -----------------------------
(***************************************************************************)
(* Version "1" leaves a directory with a file and a link to it. The unit   *)
(* may also hold a link out of it, or be a link itself; and of the two     *)
(* classes of writers, one may not know of the fence.                      *)
(***************************************************************************)
EXTENDS CodexTmp, TLC

Dir == [kind |-> "dir", to |-> <<>>]
File == [kind |-> "file", to |-> <<>>]
Link(to) == [kind |-> "symlink", to |-> to]

F == <<"f">>
L == <<"l">>

Known == (<<>> :> Dir) @@ (F :> File) @@ (L :> Link(F))

MCLayouts == "1" :> Known
MCContents == {Known, (<<>> :> Dir) @@ (F :> File) @@ (L :> Link(<<"..">>)), <<>> :> Link(<<"..">>)}
MCCooperating == {{"cli", "gui"}, {"cli"}}
MCOutside == <<"..">>
=============================================================================
