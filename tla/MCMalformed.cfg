SPECIFICATION Spec
CONSTANTS
  RRNum = 3
  RRDen = 2
  MaxPosition = 2
  NSymbols = 3
  Prices = {10, 12}
  Payloads <- MCPayloads
  Repairs = 1
  Sessions <- MCSessions
  Weekdays = {1, 2, 3, 4, 5}
  Slots = {630, 690, 750, 810, 870, 930}
  Grace = 10
  Candidates = {14, 15, 16, 17, 18, 19, 20}
  Delays = {0, 10, 11, 45}
  Symbols <- MCCrypto
  Hour = 2
  Served = 6
  Start = {16, 17, 21, 23}
  Waits = {0, 1}
  Bars <- MCBars
  Intents <- MCIntents
  Forever = 5
  MaxBars = 4
  MinRRNum = 1
  MinRRDen = 2
  SlipDen = 10
  StopFirst = TRUE
  CloseAfter = 1
  Shapes <- MCShapes
  PreviousClose <- MCPreviousClose
  Sector <- MCSector
  UtcMidnight = 1140
  RangeBars = 2
  Cutoff = 720
  GapPct = 1
  PreNum = 3
  PreDen = 2
  ConfNum = 6
  ConfDen = 5
  BufferDen = 1000
  RewardR = 2
  RequireRvol = FALSE
  Clients = {c1, c2}
  MaxVersions = 2
  MaxCrashes = 1
  MonthLen = 3
  Months = 2
  Payments = {1, 2, 3, 5, 6}
  PageLimit = 2
  Ranges <- MCRanges
  MonthSpans <- MCMonthSpans
  SlotsPerDay = 2
  BucketSlots = 2
  Price <- MCPrice
INVARIANT MalformedOmitted
CHECK_DEADLOCK FALSE
