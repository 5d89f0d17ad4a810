SPECIFICATION Spec
CONSTANTS
  Folders = {f1}
  MaxUid = 3
  Crawls = {k1}
  BatchSize = 3
  Limit = 1
  Options = {}
  Ops = {"clear"}
  Faults = {}
  MaxUpsets = 1
INVARIANTS
  ClearedIsReingested
