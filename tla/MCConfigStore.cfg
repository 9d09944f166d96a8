CONSTANTS
  goal = goal
  menu = menu
  post1 = post1
  post2 = post2
  Handlers <- MCHandlers
  Menu = menu
  Requests <- MCRequests
  Order <- MCOrder
  Limits <- MCLimits
  MaxEdits = 2
  MaxRestarts = 1
SPECIFICATION Spec
INVARIANTS
  TypeOK
  SharedSavesAgree
  DashboardEditsStored
  FailureLeavesMemory
PROPERTIES
  SavesEnd
