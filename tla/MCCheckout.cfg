\* Two payments of the same terms and two payers, a rotation, a chain that grows.
CONSTANTS
  p1 = p1  p2 = p2  a1 = a1  a2 = a2  t1 = t1  r1 = r1  r2 = r2
  Payment = {p1, p2}
  Payer = {a1, a2}
  Terms = {t1}
  TermsOf <- SameTerms
  Request = {r1, r2}
  NoPayer = NoPayer
  Idle = Idle
  MaxToken = 1
  MaxChallenges = 2
  MaxHead = 1
SPECIFICATION Spec
SYMMETRY Symmetry
INVARIANTS
  CTypeOK
  OldTokensAreDead
  SessionsOfThePayer
  ClaimsAreExclusive
PROPERTIES
  ChallengeUsedOnce
  StartBlockIsFresh
CHECK_DEADLOCK FALSE
