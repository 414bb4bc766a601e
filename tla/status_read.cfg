SPECIFICATION MCSpec
CONSTANTS
  eth = eth
  wlan = wlan
  aux = aux
  Device = {eth, wlan, aux}
  Type <- MCType
  Managed = {eth, wlan}
  AccessPoint = {ap1}
  None = None
  MaxChanges = 1
  MaxFailures = 1
  MaxBytes = 3
  Part = 2
INVARIANTS TypeOK QuietReadIsSnapshot ClaimsHeld MissingIsReported LongReadBounded
