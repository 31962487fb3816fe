\* Four logins, and the log of one more thread than has a descriptor: two
\* logins leave enough, the third may fail or be the master's end, the fourth
\* leaves too few for the others. Batches of up to two events.
SPECIFICATION FairSpec
CONSTANTS
  Logins = {a, b, c, d}
  MaxFd = 5
  Others = 2
  MaxEvents = 2
INVARIANT
  EventsCurrent
PROPERTY
  LoginAnswered
CHECK_DEADLOCK FALSE
