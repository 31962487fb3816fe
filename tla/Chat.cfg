\* The file collection with processes that end at any time.
SPECIFICATION FairSpec
CONSTANTS
  LogCount = 4
  MaxBlocks = 2
  CharSigned = TRUE
INVARIANTS
  TypeOK
  InStep
  NeverBothWait
  SavedInOrder
  SavedWhole
PROPERTIES
  ConversationsEnd
