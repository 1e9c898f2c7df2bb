SPECIFICATION IntakeSpec
CONSTANTS
  Absent = Absent
  Null = Null
  Junk = Junk
  Padded = Padded
  ChannelBaseStock <- MCStock
  ConfiguredPriority <- MCPriority
  ConfiguredAmount = 500000
  ConfiguredVolume = 100
  Sendings <- MCSendings
  Outcomes <- MCOutcomes
  Wanted <- MCWanted
  MaxRounds = 3
CHECK_DEADLOCK FALSE
INVARIANTS ModelOnlyCompletes DegradedMeansPatternsAlone ModelCostsNothing NoDefaultLanguage MaskCostsOneField GuidanceSuffices
