SPECIFICATION Spec
CONSTANTS
  Absent = Absent
  Null = Null
  Junk = Junk
  NoAnswer = NoAnswer
  ChannelBaseStock <- MCStock
  ConfiguredPriority <- MCPriority
  ConfiguredAmount = 500000
  ConfiguredVolume = 100
  Runs = {r1}
  Requests <- EveryRequest
  Decisions = {"approved", "rejected"}
  Refusable = {}
  MaxRetry = 1
  MaxCrashes = 0
INVARIANT EveryUnitCounts
