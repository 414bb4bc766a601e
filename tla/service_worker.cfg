SPECIFICATION Spec
CONSTANTS
  Page = {a, b}
  MaxVersion = 4
SYMMETRY Perms
INVARIANTS TypeOK OfflineWorks ScriptsOfItsWorker MixedOnlyInTransit
