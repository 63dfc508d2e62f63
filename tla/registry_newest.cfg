SPECIFICATION PlacingSpec
CONSTANTS
  host1 = host1  host2 = host2
  dac1 = dac1  sine1 = sine1  sine2 = sine2
  Hosts = {host1, host2}
  Lists = {dac1, sine2}
  DACLists = {dac1}
  HostOf <- MCHostOf
  Tiles = {1}
  NoList = NoList
  MaxRequests = 2
  MaxLosses = 0
  MaxLostCommands = 0
INVARIANT NewestStays
CHECK_DEADLOCK FALSE
