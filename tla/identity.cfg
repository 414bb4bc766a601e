SPECIFICATION Spec
CONSTANTS
  Process = {p1, p2, p3}
  Id = {u1, u2}
  Absent = Absent
  Blank = Blank
  Unavailable = Unavailable
  Faults <- FaultKinds
SYMMETRY Perms
INVARIANTS TypeOK Agreement
PROPERTIES WriteOnce
