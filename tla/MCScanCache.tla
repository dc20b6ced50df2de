------------------------------ MODULE MCScanCache ------------------------------
(* A scan, a strip and a clean that deletes, over one cache and one worktree; *)
(* the scan may leave rows out, or have roots of its own.                     *)
EXTENDS ScanCache

CONSTANTS scan, strip, delete, cache, tree

Ask(selector, key, excludes) == [selector |-> selector, key |-> key, excludes |-> excludes]

Together(first) ==
  [p \in {scan, strip, delete} |->
     CASE p = scan -> first
       [] p = strip -> Ask("strip", "ours", FALSE)
       [] p = delete -> Ask("delete", "ours", FALSE)]

AllRequests == {Together(Ask("scan", "ours", FALSE)), Together(Ask("scan", "ours", TRUE)),
                Together(Ask("scan", "other", FALSE))}

AllProcs == {scan, strip, delete}
AllTargets == {cache, tree}
TreeOnly == {tree}
=============================================================================
