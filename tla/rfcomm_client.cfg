SPECIFICATION FairSpec
CONSTANTS
  MaxRequests = 5
  MaxLinks = 3
CHECK_DEADLOCK FALSE
INVARIANTS TypeOK
PROPERTIES StatusesInOrder LagWithinFailures ReadsSettle
