SPECIFICATION LinesSpec
CONSTANTS
  Absent = Absent
  Null = Null
  Junk = Junk
  ChannelBaseStock <- MCStock
  ConfiguredPriority <- MCPriority
  ConfiguredAmount = 500000
  ConfiguredVolume = 100
  PolicyFile <- ShippedPolicy
  Lines <- MCLines
  Quantities = {1, 200}
  MaxLines = 3
CHECK_DEADLOCK FALSE
INVARIANTS RouteIsFirstThatServes SnapshotKeepsTheLastNeed BothDoorsDecideAlike
PROPERTY MoreLinesNoLessReview
