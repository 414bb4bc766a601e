SPECIFICATION Spec
CONSTANTS
  Adapter <- MCAdapter
  Place <- MCPlace
  DefaultAdapter = "hci2"
  Controller <- MCController
  Tool <- MCTool
  None = None
  MaxUpsets = 1
CHECK_DEADLOCK FALSE
INVARIANTS TypeOK QuietVerdict PassMeansAdvertisable StoppedIsSilent
