SPECIFICATION Spec
CONSTANTS
  N = 1
  Tradable = {1}
  MaxTrades = 3
  MaxHold = 2
  RowHold = 2
  Cooldown = 2
  PositionR = 1
  MaxPositionR = 1
  MaxClusterR = 3
  MaxLag = 1
  MaxGap = 1
  MaxCrashes = 1
  Horizon = 7
INVARIANT NotInAClosedTrade
