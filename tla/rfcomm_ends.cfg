SPECIFICATION FairSpec
CONSTANTS
  Conn = {c1, c2}
  Device = {d1, d2}
  Fd = {f1, f2}
  None = None
  UseAgent = FALSE
  Faults <- AllFaults
CHECK_DEADLOCK FALSE
PROPERTIES CancelledEnds ReleaseEnds
