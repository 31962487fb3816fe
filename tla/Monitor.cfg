SPECIFICATION FairSpec
CONSTANTS
  Limit = 3
  Tries = 2
  MaxTime = 4
INVARIANTS
  TypeOK
  AlarmNeverSlept
PROPERTIES
  CallsAnswerAlarms
  AlarmsSoundButForRace
  QuietMasterIsCalled
  ChecksResume
