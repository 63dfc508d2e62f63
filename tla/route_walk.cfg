CONSTANTS
  ip1 = ip1
  ip2 = ip2
  s1 = s1
  s2 = s2
  d1 = d1
  NULL = NULL
  FREED = FREED
  NoOsc = NoOsc
  Ip <- MCIp
  Osc <- MCOsc
  SubPath <- MCSubPath
  Sends <- MCSends
  Target <- MCTarget
  MAX_ANUM = 3
  MaxRequests = 3
SPECIFICATION Spec
INVARIANTS
  SlotsAccountedFor
  CleanPassIsTheTable
PROPERTY EditsOnlyWhatWasAsked
