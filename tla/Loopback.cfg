SPECIFICATION Spec
CONSTANTS
  N_SLOTS = 2
  Data = {a, long}
  TooLong = {long}
  Nothing = Nothing
  MaxPackets = 5
CHECK_DEADLOCK FALSE
PROPERTY ImplementsFifo
