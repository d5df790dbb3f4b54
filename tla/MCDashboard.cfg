\* Two payments in the list, the details of one of them, and a cache of one version.
CONSTANTS
  p1 = p1  p2 = p2
  Payment = {p1, p2}
  Openable = {p1}
  Existing = {p2}
  List = List
  NoData = NoData
  Idle = Idle
  Asked = Asked
  Order <- ListOrder
  Final = 1
  Cap = 1
  PollBudget = 1
  MaxFaults = 1
SPECIFICATION Spec
INVARIANT DashboardTypeOK
PROPERTIES
  NothingOlder
  NeverSilentlyStale
CHECK_DEADLOCK FALSE
