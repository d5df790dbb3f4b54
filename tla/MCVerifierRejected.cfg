\* A transaction that is rejected without effect in one block and mined with effect in another.
CONSTANTS
  payer = payer  receiver = receiver  s1 = s1  s2 = s2
  Confirmations = 2
  StartBlock = 1
  Account = {payer}
  Salt = {s1, s2}
  Finality = 2
  MaxHeight = 3
  MaxFaults = 1
SPECIFICATION FairSpec
PROPERTY MovedIsRechecked
CHECK_DEADLOCK FALSE
