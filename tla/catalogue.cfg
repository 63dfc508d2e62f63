SPECIFICATION Spec
CONSTANTS
  host1 = host1  host2 = host2
  Controllers = {host1}
  Managers = {host2}
  Kinds <- MCKinds
  Starting <- MCStarting
  Colours = {1}
  Unset = 255
  TileIDs = {107}
  Commands = {"create"}
  MaxSockets = 3
  MaxRequests = 1
  MaxLosses = 2
  MaxOrders = 1
INVARIANT ListNamesOffers
PROPERTY RequestsAreAnswered
CHECK_DEADLOCK FALSE
