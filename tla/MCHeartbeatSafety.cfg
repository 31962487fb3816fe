SPECIFICATION Spec
CONSTANTS
  c1 = c1
  c2 = c2
  Clients <- MCClients
  Unroutable <- MCClients
  MaxFd = 3
  MaxOthers = 1
SYMMETRY ClientSymmetry
INVARIANTS
  TypeOK
  SocketsReturned
PROPERTIES
  VerdictTruthful
  ClosesItsOwn
CONSTRAINT FewLeaks
