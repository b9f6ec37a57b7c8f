SPECIFICATION Spec
CONSTANTS
  Process = {cron, manual}
  NSymbols = 1
  NChannels = 1
  Plans = {p1}
  MaxFaults = 0
INVARIANT NotSentTwice
