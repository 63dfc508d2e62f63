SPECIFICATION Spec
CONSTANTS
  host1 = host1  host2 = host2
  sine1 = sine1  dac2 = dac2  dac3 = dac3
  Tiles = {1, 2, 3}
  Sources = {1}
  Types = {"Data", "Stream"}

  Hosts = {host1, host2}
  ModulesFor <- MCModulesFor
  NoModule = NoModule
  MAX_ANUM = 3
  MaxInFlight = 2
  MaxLosses = 1
  MaxChanges = 2
  MaxCalls = 1
INVARIANT NoInventedRoutes
CHECK_DEADLOCK FALSE
PROPERTIES ConnectedIsRouted AloneIsSilent
