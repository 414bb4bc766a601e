SPECIFICATION FairSpec
CONSTANTS
  SecureReads = TRUE
  Faults <- AllFaults
CHECK_DEADLOCK FALSE
INVARIANTS TypeOK NothingForgotten
PROPERTIES Layered Settles
