SPECIFICATION PartsSpec
CONSTANTS
  ip1 = ip1  ip2 = ip2
  s1 = s1  s2 = s2  d1 = d1
  NULL = NULL  FREED = FREED  NoOsc = NoOsc
  Ip <- MCIp
  Osc <- MCOsc
  SubPath <- MCSubPath
  Sends <- MCSends
  Target <- MCTarget
  MAX_ANUM = 3
  MaxRequests = 4
  TOP = 5
  Levels = {0, 2, 5}
  FirstDecay = 2  FirstLevel = 2  FirstRelease = 2
  MaxCount = 11
  PARTS = 4
  SoundLengths = {3, 6, 9, 11}
  EXACT = 8
  Spacings = {1, 2}
  Rates = {2, 4, 7}
  SoundPackets = {1, 4}
  radio1 = radio1  radio2 = radio2
  Radios = {radio1, radio2}
  Tiles = {1, 2, 3}
  Claims <- MCClaims
  TH = 2
  MaxSwitches = 3
  Clocks = {c1, c2}
  XBC = XBC
  NoUser = NoUser
  MaxThreads = 4
  SerialDevices = {dev1, dev2}
  Readers = {r1, r2, r3}
  MaxLines = 2
  Bundles <- MCBundles
  Immediate = 0
  EARLY = 1
  EndOfTime = 4
  MaxBundles = 3
  MaxStops = 1
  RingSize = 23
  FrameLen = 9
  MaxChunk = 9
  MaxBytes = 420
INVARIANTS EveryFrameOnce OneTimer OneReader DispatchedInOrder IndicesInBounds
PROPERTIES RoutesSettle SilentTilesGo StopStops SoundsEnd SetDeviceReturns
  EveryElementDispatched StopEnds
CHECK_DEADLOCK FALSE
