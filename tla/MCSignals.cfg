SPECIFICATION SignalsSpec
CONSTANTS
  Signals = {s1, s2}
  Plans <- BothPlans
  Bars <- MCBars
  Lengths = {1, 2}
  TriggerLengths = {2}
  HoldMinutes = 2
  LastMinute = 4
  MaxPending = 1
  N = 3
  Tradable = {1, 2}
  MaxTrades = 2
  MaxHold = 3
  RowHold = 3
  Cooldown = 3
  PositionR = 4
  MaxPositionR = 4
  MaxClusterR = 4
  MaxLag = 0
  MaxGap = 0
  MaxCrashes = 1
  Horizon = 1
INVARIANTS
  LifecycleTypeOK
  OutcomeAgreesWithCandles
  ExposureWithinCap
PROPERTY ImplementsLedger
CHECK_DEADLOCK FALSE
