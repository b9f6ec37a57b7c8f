SPECIFICATION Spec
CONSTANTS
  Hold = 2
  Cooldown = 1
  Horizon = 4
  Cm2Prices = {60, 79, 88, 99, 104, 106, 108, 118, 121, 130}
  Cm2References = {83, 105}
  Cm2Atr = 20
  Zone1Low = 83
  Zone1High = 105
  Zone2Low = 110
  Zone2High = 120
  StopPrice = 105
  FirstInvalid = 105
  Cm2Target1 = 50
  Cm2Buffers = {0, 2}
  Cm3Prices = {80, 84, 88, 92, 110}
  PriorLows = {86, 90}
  Cm3Atr = 10
  FixedSweep = 86
  FixedReclaim = 90
  Cm3Target1 = 115
  Cm3Buffers = {0, 2}
  StandPrices = {80, 92, 110}
  StandLevel = 100
  Support = 95
  FailBack = 85
  Window = 3
  PivotLeft = 1
  PivotRight = 1
  Lookback = 6
  StructureLookback = 12
  AtrPeriod = 3
  FlowLookback = 2
  ProfileLookback = 4
  ProfileMinBars = 2
  ProfileBins = 2
  SearchBars = 3
  OiLookback = 4
  OiMinHistory = 2
  CrowdedRate = 5
  Gates = {"CVD", "OI", "FUNDING"}
  MaxTrades = 6
  MaxDays = 2
  WinR = {1}
  PositionR = 8
  MaxPositionR = 4
  MaxClusterR = 6
  MaxDailyLossR = 8
  ThrottleStart = 5
  Stop = 6
  LossThrottle = 4
  Unit = 40
  LastBar = 6
  BusSize = 2
  CacheLimit = 4
  MaxLosses = 2
  MaxRestarts = 1
INVARIANTS
  TradeKeepsPlan
  StopBelowDips
  BreaksAreFirst
  
  DailyLossBounded
  DrawdownBounded
  ClosedReadsAreNewest
PROPERTY AnswersAllowed
CHECK_DEADLOCK FALSE
