SPECIFICATION ReplySpec
CONSTANTS
  Absent = Absent
  Null = Null
  Junk = Junk
  NoAnswer = NoAnswer
  ChannelBaseStock <- MCStock
  ConfiguredPriority <- MCPriority
  ConfiguredAmount = 500000
  ConfiguredVolume = 100
  Runs = {r1}
  Requests <- ReplyRequests
  Decisions = {"approved", "rejected"}
  Refusable = {"pre_process", "post_process"}
  MaxRetry = 1
  MaxCrashes = 0
INVARIANT BlockedOutputStaysError
