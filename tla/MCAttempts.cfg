\* One payment for which one transaction and then another is submitted, with
\* failures, reviews, retries by the merchant, reorganisations, late workers and
\* crashes; fairness forbids symmetry.
CONSTANTS
  p1 = p1  p2 = p2  h1 = h1  h2 = h2  b1 = b1  b2 = b2  c1 = c1
  Payment = {p1}
  Hash = {h1, h2}
  Chain = {c1}
  ChainOf <- OneChain
  Block = {b1, b2}
  NoBlock = NoBlock
  NoHash = NoHash
  RetryBudget = 1
  MaxVersion = 4
SPECIFICATION FairSpec
INVARIANTS
  TypeOK
  RowsAgree
  OneWriter
PROPERTIES
  OutcomesAreFinal
  NeverStuck
  InclusionNeverSwitches
CHECK_DEADLOCK FALSE
