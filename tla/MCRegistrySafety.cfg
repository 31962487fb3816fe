SPECIFICATION Spec
CONSTANTS
  INS = 2
  From = 1
  To = 3
  Addrs = {1, 3}
  c1 = c1
  c2 = c2
  c3 = c3
  c4 = c4
  Cells <- MCCells4
  NULL = NULL
  NoAddr = NoAddr
  Heartbeat = Heartbeat
  Nobody = Nobody
  Working = {1}
  MaxLogins = 2
SYMMETRY CellSymmetry
INVARIANTS
  TypeOK
  SweepSoundUntilDrop
  ListsSound
  NodesAccounted
  LockedCursorsLive
PROPERTIES
  VerdictOnVisited
  RefusedIsRegistered
  ScanMissesOnlyBehindDropped
  ImplementsMembership
