\* Two tabs of one browser, two transfers it may ask for, and a foreign hash.
CONSTANTS
  t1 = t1  t2 = t2  h1 = h1  h2 = h2  f1 = f1
  Tab = {t1, t2}
  Hash = {h1, h2}
  Foreign = {f1}
  NoTab = NoTab
  NoRecord = NoRecord
  Marker = Marker
  NoHash = NoHash
  NoSnapshot = NoSnapshot
  MaxVersion = 2
  MaxPolls = 1
SPECIFICATION Spec
SYMMETRY Symmetry
INVARIANTS
  ClientTypeOK
  OneTransfer
PROPERTY ShownAdvances
CHECK_DEADLOCK FALSE
