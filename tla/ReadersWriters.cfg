\* Three threads that read and two that write, one of them doing both, as
\* clock_get does.
SPECIFICATION FairSpec
CONSTANTS
  Readers = {"clock", "reader1", "reader2"}
  Writers = {"main", "clock"}
INVARIANT
  IndInv
PROPERTIES
  ImplementsRWLock
  CallersServed
