SPECIFICATION Spec
CONSTANTS
  Sessions <- TheSessions
  Worlds <- TheWorlds
CHECK_DEADLOCK FALSE
INVARIANTS
  MapsHold
  DefaultsGivenOnce
  QuickIsRight
  NamesSurvive
  MatchIsExact
  LookupsLeaveNothing
