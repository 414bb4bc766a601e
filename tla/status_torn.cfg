SPECIFICATION MCSpec
CONSTANTS
  eth = eth
  wlan = wlan
  aux = aux
  Device = {eth}
  Type <- MCWired
  Managed = {eth}
  AccessPoint = {ap1}
  None = None
  MaxChanges = 1
  MaxFailures = 0
  MaxBytes = 4
  Part = 1
INVARIANTS OneDocument
