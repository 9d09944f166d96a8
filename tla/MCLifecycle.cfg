CONSTANTS
  NavLimit = 3
  RecoverFails = 2
  Days = 2
  MaxCommit = 2
  MaxClaims = 2
SPECIFICATION Spec
INVARIANTS
  TypeOK
  NoEndlessRestarts
  DailyOnce
PROPERTIES
  RestartsAsAsked
  UpdateBringsCode
  QuitEnds
