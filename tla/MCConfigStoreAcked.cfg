CONSTANTS
  goal = goal
  menu = menu
  post1 = post1
  post2 = post2
  Handlers <- MCHandlers
  Menu = menu
  Requests <- MCRequests
  Order <- MCOrder
  Limits <- MCLimits
  MaxEdits = 3
  MaxRestarts = 1
SPECIFICATION Safety
INVARIANT AckedStays
