SPECIFICATION Spec
CONSTANTS
  Never = 9
  Outage = Outage
  NoRepository = NoRepository
  NoTool = NoTool
  RecentWindow = 2
  KeepPerRepo = 1
  MinSize = 1
  Paths <- MCPaths
  Within <- MCWithin
  SafeCategories = {"worktree", "node_modules", "cache", "agent_state"}
  Worlds <- MCWorlds
  AgePresets = {3, 5}
  TypedAges = {0, 1}
CHECK_DEADLOCK FALSE
INVARIANTS
  LocksHold
  MostRecentKept
  ProposalJustified
  ChoiceSurvives
  PlanSound
  ActiveNeedsConsent
