CONSTANTS
  gambling = gambling
  hourly = hourly
  None = None
  Gambler = gambling
  Claimers <- MCClaimers
  MaxBalance = 4
  Bonus = 1
  MinBet = 1
  MaxBet = 2
  Halves = {2, 4}
  Thresholds = {3}
  Goals = {3}
  Floors = {2}
  Plans <- MCLowering
  GoalStep = 1
  LossStep = 1
  Buffer = 2
  PauseAfter = 2
  DeadAfter = 2
  RecoverAfter = 3
SPECIFICATION Safety
INVARIANT LimitsValid
