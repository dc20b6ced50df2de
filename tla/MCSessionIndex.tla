--------------------------- MODULE MCSessionIndex ---------------------------
(***************************************************************************)
(* Two homes: "d", the default one, and "x", Orca's. Sessions run in a     *)
(* worktree of the default home and in an Orca workspace.                  *)
(***************************************************************************)
EXTENDS SessionIndex, TLC

Native == [root |-> "d", id |-> "1", project |-> "p"]
Workspace == [root |-> "orca", id |-> "w", project |-> "w"]

MCCwds == {Native, Workspace}

Both == [archived |-> "dir", sessions |-> "dir"]
Live == [archived |-> "none", sessions |-> "dir"]
Neither == [archived |-> "none", sessions |-> "none"]
Leading == [archived |-> "astray", sessions |-> "dir"]

MCStores == {[d |-> d, x |-> Live] : d \in {Both, Neither, Leading}}

Old(cwd) == [cwd |-> cwd, whole |-> TRUE, log |-> {0}, since |-> -2]

MCFiles == {<<>>, <<"d", "sessions", "a">> :> Old(Native)}

\* A cache that was written before the clock was set back and the session began.
Ahead == [created |-> MaxTime + 1, torn |-> FALSE, roots |-> {"d", "x"} \X Range(Stores),
          sources |-> [h \in {"d", "x"} |-> [roots |-> Range(Stores), available |-> TRUE,
                                             active |-> TRUE, absent |-> FALSE]],
          records |-> <<>>]

MCCaches == {NoCache, Ahead}
=============================================================================
