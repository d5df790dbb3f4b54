\* What the README says of a saved hash: found violated.
CONSTANTS
  t1 = t1  t2 = t2  h1 = h1  h2 = h2  f1 = f1
  Tab = {t1, t2}
  Hash = {h1}
  Foreign = {f1}
  NoTab = NoTab
  NoRecord = NoRecord
  Marker = Marker
  NoHash = NoHash
  NoSnapshot = NoSnapshot
  MaxVersion = 0
  MaxPolls = 1
SPECIFICATION Spec
PROPERTY SavedHashKept
CHECK_DEADLOCK FALSE
