\* A form is repeated, and another client creates payments with the same or other
\* keys, while the list is walked page by page.
CONSTANTS
  k1 = k1  k2 = k2  f1 = f1  f2 = f2  f3 = f3  q1 = q1  q2 = q2
  Key = {k1, k2}
  Fingerprint = {f1, f2, f3}
  Request = {q1, q2}
  Id = {1, 2}
  Limit = 1
  Filters = {"PROCESSING"}
  Idle = Idle
  NoForm = NoForm
  NoRequest = NoRequest
  Malformed = {f3}
  MaxForms = 1
  MaxTime = 1
SPECIFICATION FSpec
SYMMETRY Symmetry
INVARIANTS
  FTypeOK
  OnePaymentPerKey
  OnePaymentPerForm
  WalkIsComplete
CHECK_DEADLOCK FALSE
