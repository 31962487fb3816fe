\* Two workers, two works: the first one ends the process.
SPECIFICATION FairSpec
CONSTANTS
  Workers = {w1, w2}
  MAXN = 2
  Works = {x1, x2}
  NULL = NULL
CHECK_DEADLOCK FALSE
PROPERTIES
  EveryWorkRuns
