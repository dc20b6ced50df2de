\* Three processes at once over a cache and a worktree; one change.
CONSTANTS
  scan = scan
  strip = strip
  delete = delete
  cache = cache
  tree = tree
  Procs <- AllProcs
  Requests <- AllRequests
  Targets <- AllTargets
  Worktrees <- TreeOnly
  MaxAge = 0
  MaxClock = 1
  MaxObjects = 2
  MaxEvents = 1

SPECIFICATION Spec

INVARIANTS
  DocumentsGenuine
  ReuseRevalidated
  RemovesWhatWasScanned
