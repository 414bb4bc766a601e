SPECIFICATION Spec
CONSTANTS
  Conn = {c1, c2, c3}
  Device = {d1, d2}
  Fd = {f1, f2, f3}
  None = None
  UseAgent = TRUE
  Faults <- StopSucceeds
SYMMETRY Perms
CHECK_DEADLOCK FALSE
INVARIANTS TypeOK EntriesAreLive NoOrphans Attended ConnectableOnlyWithAgent StoppedUnregistered
PROPERTIES EntryLeavesWithItsConnection
