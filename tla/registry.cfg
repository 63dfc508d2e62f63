SPECIFICATION Spec
CONSTANTS
  host1 = host1  host2 = host2
  dac1 = dac1  sine1 = sine1  sine2 = sine2
  Hosts = {host1, host2}
  Lists = {dac1, sine1, sine2}
  DACLists = {dac1}
  HostOf <- MCHostOf
  Tiles = {1}
  NoList = NoList
  MaxRequests = 4
  MaxLosses = 2
  MaxLostCommands = 1
INVARIANTS TokensNameModules ModulesAreRegistered
CHECK_DEADLOCK FALSE
