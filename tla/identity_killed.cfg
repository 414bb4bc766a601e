SPECIFICATION FairSpec
CONSTANTS
  Process = {p1, p2}
  Id = {u1, u2}
  Absent = Absent
  Blank = Blank
  Unavailable = Unavailable
  Faults <- KillOnly
PROPERTIES EventuallyAvailable
