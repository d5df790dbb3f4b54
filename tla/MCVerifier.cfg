\* Checks go on for ever, with two reorganisations, failures or crashes among them.
CONSTANTS
  payer = payer  receiver = receiver  s1 = s1  s2 = s2
  Confirmations = 2
  StartBlock = 1
  Account = {payer}
  Salt = {s1, s2}
  Finality = 2
  MaxHeight = 3
  MaxFaults = 2
SPECIFICATION FairSpec
INVARIANTS
  VTypeOK
  VerifiedIsFinal
  VerifiedIsPaid
PROPERTIES
  EvidenceMatchesRecord
  PaidIsDecided
CHECK_DEADLOCK FALSE
