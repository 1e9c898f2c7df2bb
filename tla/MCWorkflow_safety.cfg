SPECIFICATION Spec
CONSTANTS
  Absent = Absent
  Null = Null
  Junk = Junk
  NoAnswer = NoAnswer
  ChannelBaseStock <- MCStock
  ConfiguredPriority <- MCPriority
  ConfiguredAmount = 500000
  ConfiguredVolume = 100
  Runs = {r1, r2}
  Requests <- PairRequests
  Decisions = {"approved", "rejected"}
  Refusable = {"route_select", "post_process"}
  MaxRetry = 1
  MaxCrashes = 1
SYMMETRY RunSymmetry
INVARIANTS TypeOK ReviewedBeforeShipping ShipsOnlyIfEvaluated DispatchedOnceAndFresh StatusTellsTheOutcome
