SPECIFICATION TimerSpec
CONSTANTS
  Clocks = {c1, c2}
  XBC = XBC
  NoUser = NoUser
  MaxThreads = 2
PROPERTY StopStops
CHECK_DEADLOCK FALSE
