\* What the README says of a Redis disconnection: found violated.
CONSTANTS
  c1 = c1  c2 = c2  m1 = m1  m2 = m2
  Client = {c1}
  Merchant = {m1}
  OwnerOf <- Alone
  MaxEvents = 2
SPECIFICATION Spec
INVARIANT
  OpenMissesNothing
CHECK_DEADLOCK FALSE
