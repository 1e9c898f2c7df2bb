SPECIFICATION FairSpec
CONSTANTS
  Absent = Absent
  Null = Null
  Junk = Junk
  NoAnswer = NoAnswer
  ChannelBaseStock <- MCStock
  ConfiguredPriority <- MCPriority
  ConfiguredAmount = 500000
  ConfiguredVolume = 100
  Runs = {r1, r2}
  Requests <- ProgressRequests
  Decisions = {"approved"}
  Refusable = {"post_process"}
  MaxRetry = 1
  MaxCrashes = 1
INVARIANT ShownIsWhatShips
PROPERTIES ImplementsLifecycle EveryRunSettles EveryStepIsProgress
