\* Dashboards of two merchants, with fair deliveries and heartbeats.
CONSTANTS
  c1 = c1  c2 = c2  m1 = m1  m2 = m2
  Client = {c1, c2}
  Merchant = {m1, m2}
  OwnerOf <- OneEach
  MaxEvents = 1
SPECIFICATION FairSpec
INVARIANTS
  ETypeOK
  SentIsScoped
  GapOnlyWhileOpening
PROPERTIES
  DeadStreamsClose
CHECK_DEADLOCK FALSE
