\* A client that ends in a conversation, and the master's next two sends.
SPECIFICATION Spec
CONSTANTS
  LogCount = 3
  MaxBlocks = 1
  CharSigned = TRUE
INVARIANT MasterSurvives
