CONSTANTS
  Symbols <- MCSymbols
  HighKeep = 1
  MinSamples = 2
  MaxLen = 2
  Slack = 1
  SaveEvery = 2
  S <- MCStrategies
  MinBet = 10
  MaxBet = 30
  KellyBet = 20
  Results <- MCResults
  LastHour = 1
  MaxRounds = 4
  MaxEvents = 2
SPECIFICATION Spec
INVARIANT TrailingSees
