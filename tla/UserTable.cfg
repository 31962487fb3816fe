\* Two machines that share a bucket, three users in all.
SPECIFICATION FairSpec
CONSTANTS
  IPs = {1, 3}
  Ports = {1, 2}
  MAXN = 2
  MaxNode = 3
  MaxFd = 3
INVARIANTS
  TableSound
  WalkSound
PROPERTIES
  RemovesProbed
  GoneRemoved
