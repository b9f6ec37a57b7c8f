SPECIFICATION LifecycleSpec
CONSTANTS
  Signals = {s1}
  Plans <- BothPlans
  Bars <- MoreBars
  Lengths = {1, 2}
  TriggerLengths = {2}
  HoldMinutes = 2
  LastMinute = 4
  MaxPending = 2
INVARIANT BreakevenOnlyAfterReturn
CHECK_DEADLOCK FALSE
