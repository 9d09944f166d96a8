CONSTANTS
  gambling = gambling
  hourly = hourly
  None = None
  Gambler = gambling
  Claimers <- MCClaimers
  MaxBalance = 4
  Bonus = 1
  MinBet = 1
  MaxBet = 2
  Halves = {2, 4}
  Thresholds = {2}
  Goals = {3}
  Floors = {1}
  Plans <- MCPlans
  GoalStep = 1
  LossStep = 1
  Buffer = 2
  PauseAfter = 2
  DeadAfter = 3
  RecoverAfter = 3
SPECIFICATION Spec
INVARIANTS
  TypeOK
  FloorKept
  PauseBinds
  GoalOnce
  AlarmTimely
  CoolsDown
PROPERTIES
  GoalEnds
