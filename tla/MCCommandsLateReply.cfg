CONSTANTS
  gambling = gambling
  stock = stock
  hourly = hourly
  main = main
  market = market
  Elsewhere = Elsewhere
  None = None
  Tasks <- MCTasks
  Channels <- MCChannels
  Main = main
  Target <- MCTarget
  Jobs <- MCJobs
  Naps <- MCNaps
  MaxCmds = 2
  MaxStale = 1
  RecoverFails = 2
SPECIFICATION Safety
INVARIANT OwnReply
