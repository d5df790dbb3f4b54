\* One transaction submitted for two payments of the same terms: it settles one of
\* them, and both together do nothing the ledger forbids.
CONSTANTS
  p1 = p1  p2 = p2  h1 = h1  h2 = h2  b1 = b1  b2 = b2  c1 = c1
  Payment = {p1, p2}
  Hash = {h1}
  Chain = {c1}
  ChainOf <- OneChain
  Block = {b1}
  NoBlock = NoBlock
  NoHash = NoHash
  RetryBudget = 2
  MaxVersion = 5
SPECIFICATION Spec
SYMMETRY Symmetry
INVARIANTS
  SettledOnce
  AllocatedUntilPaid
  FeedExact
  ReviewHasReason
  WaitingHasWakeup
PROPERTY ImplementsLedger
CHECK_DEADLOCK FALSE
