SPECIFICATION SystemSpec
CONSTANTS
  host1 = host1  host2 = host2
  dac1 = dac1  sine2 = sine2
  d1 = d1
  Hosts = {host1, host2}
  Lists = {dac1, sine2}
  DACLists = {}
  HostOf <- MCHostOf
  Tiles = {1}
  NoList = NoList
  MaxRequests = 2
  MaxLosses = 1
  MaxLostCommands = 0
  Radios = {d1}
  Claims <- MCClaims
  TH = 1
  MaxSwitches = 1
PROPERTIES ImplementsRegistry DeadTilesLoseTheirModules
CHECK_DEADLOCK FALSE
