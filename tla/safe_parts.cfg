SPECIFICATION PartsSpec
CONSTANTS
  MAXBS = 5
  EchoLengths = {0, 1, 2, 4}
  FirstLength = 2
  EchoPackets = {1, 3}
  MaxSamples = 9
  ADCs = {adc1}
  DACs = {dac1, dac2}
  FULL = 2
  Amplitudes <- MCAmplitudes
  Careful = TRUE
  MaxFrames = 2
  Shapes <- MCShapes
  WriteModes <- MCModes
  mc = mc  xbc = xbc  dac1 = dac1  dac2 = dac2
  pathA = pathA  pathB = pathB  pathC = pathC
  Objects = {mc, xbc, dac1}
  Path <- MCPath
  Adds <- MCAdds
  Deletes <- MCDeletes
  MainObjects = {mc, xbc}
  Controller = mc
  Types = {"is", "b", "bb", "ff"}
  Numeric = {"ii", "ff"}
  PassesOn = {}
  NoMethod = NoMethod
  Words = {"i"}
  Longs = {"d"}
  Strings = {"s"}
  Flags = {"T"}
  BLOB = "b"
  Lengths = {0, 3, 4}
  PathLengths = {3, 4}
  LO_DEF_TYPE_SIZE = 3
  LO_DEF_DATA_SIZE = 8
  MaxArgs = 3
  MaxMessages = 2
  Letters = {97, 98, 99}
  Sets <- MCSets
  Lists <- MCLists
  MaxTokens = 3
  MaxName = 4
  Descriptors = {0, 1, 2, 3, 4}
  Ports = {p1, p2}
  Servers = {s1, s2}
  Addresses = {a1, a2}
  MAX_TRIES = 2
  Events <- MCEvents
  msg_size = 3
  num_msgs = 2
  OVERFLOW = OVERFLOW
  NoEvent = NoEvent
  WORD = 2
  QueueCapacity = 1
  RealTimeApart = FALSE
  Truncated = FALSE
  MaxPacket = 4
  MaxSysex = 6
  EVENT_BYTES = 2
  BUFLEN = 2
  SYSEX_BUFFER_SIZE = 3
  PACKET_BUFFER_SIZE = 5
  MaxData = 5
  MaxCalls = 3
INVARIANTS EchoesInTime LivingDevicesRun SoundsComeBack RescaledIsInRange
  ListIsOfTheLiving CallsReachTheLiving MessagesSurvive OnlyWholeMessages PatternsMatch
  SentFromItsOwn SysexArrivesWhole SentAsWritten
PROPERTY ImplementsEventQueue
CHECK_DEADLOCK FALSE
