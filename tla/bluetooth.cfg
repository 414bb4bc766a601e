SPECIFICATION PageSpec
CONSTANTS
  Device = {d1, d2, d3}
  Action = {a1, a2, a3}
  None = None
  Stale = Stale
SYMMETRY Perms
INVARIANTS PageTypeOK SettledBanner NoHalfConnection
