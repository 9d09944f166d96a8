CONSTANTS
  Symbols <- MCSymbols
  HighKeep = 1
  MinSamples = 2
  MaxLen = 3
  Slack = 1
  SaveEvery = 2
  S <- MCStrategies
  MinBet = 10
  MaxBet = 30
  KellyBet = 20
  Results <- MCResults
  LastHour = 1
  MaxRounds = 5
  MaxEvents = 2
SPECIFICATION Spec
INVARIANTS TypeOK MirrorAgrees TrailingExact LittleLost StatsAgree ReplaysAgree
