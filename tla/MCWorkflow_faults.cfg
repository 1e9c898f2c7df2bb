SPECIFICATION Spec
CONSTANTS
  Absent = Absent
  Null = Null
  Junk = Junk
  NoAnswer = NoAnswer
  ChannelBaseStock <- MCStock
  ConfiguredPriority <- MCPriority
  ConfiguredAmount = 500000
  ConfiguredVolume = 100
  Runs = {r1}
  Requests <- EveryRequest
  Decisions = {"approved", "rejected", "timeout"}
  Refusable = {"pre_process", "inventory_check", "fulfillment_policy", "route_select", "hitl_gate", "fulfillment_instruct", "post_process"}
  MaxRetry = 2
  MaxCrashes = 1
INVARIANTS ShipsOnlyIfEvaluated DispatchedOnceAndFresh RunsInv
