SPECIFICATION Spec
CONSTANTS
  Page = 8
  Align = 2
  Total = 24
  LowMarks <- MCLowMarks
  HighMarks <- MCHighMarks
  Sizes <- MCSizes
  UserSize = 16
  UserHeader = 1
  UserSizes <- MCUserSizes
  UserAligns <- MCUserAligns
  MaxReserved = 2
CHECK_DEADLOCK FALSE
INVARIANT UserAddressCommitted
PROPERTIES LiveStaysCommitted PagesReturned OutOfMemoryIsExactFit
