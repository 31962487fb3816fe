SPECIFICATION FairSpec
CONSTANTS
  INS = 2
  From = 1
  To = 2
  Addrs = {1, 3}
  c1 = c1
  c2 = c2
  c3 = c3
  c4 = c4
  Cells <- MCCells3
  NULL = NULL
  NoAddr = NoAddr
  Heartbeat = Heartbeat
  Nobody = Nobody
  Working = {}
  MaxLogins = 2
PROPERTIES
  AcceptorSettles
  ScansAndRoundsEnd
