\* One dispatcher, batches of one row, and failures.
CONSTANTS
  p1 = p1  p2 = p2  h1 = h1  h2 = h2  b1 = b1  c1 = c1  d1 = d1  d2 = d2
  Payment = {p1}
  Hash = {h1}
  Chain = {c1}
  ChainOf <- OneChain
  Block = {b1}
  NoBlock = NoBlock
  NoHash = NoHash
  RetryBudget = 1
  MaxVersion = 2
  Dispatcher = {d1}
  NoDispatcher = NoDispatcher
  NoRow = NoRow
  BatchLimit = 1
  MaxFaults = 1
SPECIFICATION DFairSpec
INVARIANT DTypeOK
PROPERTIES
  EveryUpdatePublished
  ImplementsVerification
CHECK_DEADLOCK FALSE
