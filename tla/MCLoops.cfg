CONSTANTS
  PauseAt = 2
  MaShort = 2
  MaLong = 3
  Momentum = 3
  TakeProfit = 15
  StopLoss = 10
  Window = 3
  Percent = 5
  MinSpan = 2
  Symbols <- MCSymbols
  Tracked = {"a"}
  Threshold = 75
  CooldownChunks = 3
  Interval = 2
  Recovery = 2
  ListAnswers <- MCLists
  Portfolios <- MCPortfolios
  ShortAnswers <- MCShorts
  Details = {100}
  Earlier <- MCEarlier
  Opening = 7
  Items <- MCItems
  View = 2
  PendingMax = 3
  MaxPerFlush = 2
  MinLevel = 40
  MaxPolls = 3
  PollsBeside = 1
  MaxFaults = 1
  MaxCycles = 2
  MaxMishaps = 1
  MaxNekoEvents = 6
  MaxLogs = 4
  PageSymbols = {"a", "b"}
  PageView = 4
  MaxTrades = 1
  MaxQueries = 2
SPECIFICATION Spec
INVARIANTS
  TypeOK
  PricesBelievable
  HoldingsAgree
  NewsOnce
  CatTold
  ReadingsCurrent
PROPERTIES
  ForceStartsPoll
  QueueDrains
