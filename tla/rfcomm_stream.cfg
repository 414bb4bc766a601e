SPECIFICATION FairSpec
CONSTANTS
  MaxRequest = 2
  Chunk = 3
  MaxInput = 7
  Newline = Newline
  Blank = Blank
  Request = Request
CHECK_DEADLOCK FALSE
INVARIANTS TypeOK BufferBounded
PROPERTIES Framing EveryLineAnswered
