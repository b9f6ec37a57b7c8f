SPECIFICATION FairSpec
CONSTANTS
  Process = {cron}
  NSymbols = 2
  NChannels = 2
  Plans = {p1}
  MaxFaults = 3
INVARIANTS
  TypeOK
  DuplicatesBounded
  SentWasShown
  ErrorsReported
  NoSilentChannel
PROPERTY FoundIsShown
