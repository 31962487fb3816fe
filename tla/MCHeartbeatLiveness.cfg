SPECIFICATION FairSpec
CONSTANTS
  c1 = c1
  c2 = c2
  Clients <- MCClients
  Unroutable = {}
  MaxFd = 3
  MaxOthers = 1
PROPERTIES
  SilentRemovedWhileHeard

CONSTRAINT Untainted
