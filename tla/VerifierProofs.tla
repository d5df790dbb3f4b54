--------------------------- MODULE VerifierProofs ---------------------------
(***************************************************************************)
(* What a VERIFIED attempt says of the chain, for every number of          *)
(* confirmations, every finality within them, any accounts, and any        *)
(* number of reorganisations, failing reads and dying workers.             *)
(***************************************************************************)
EXTENDS Verifier, TLAPS, SequenceTheorems

USE DEF check, attempt

-----------------------------------------------------------------------------
(* The invariant. *)

\* The steps after the transaction was inspected, after its confirmations were
\* counted, and after a read of the second round of codes.
Trusted == {"code", "head", "receipt again", "hash again", "transaction again",
            "code again", "last hash"}
Counted == Trusted \ {"code", "head"}
Recoded == {"code again", "last hash"}
Step    == {"idle", "hash", "transaction"} \union Trusted

ChainInv ==
  /\ chain \in Seq(Content) /\ Len(chain) <= MaxHeight
  /\ final \in 0..Len(chain)
  /\ final >= Len(chain) + 1 - Finality
  /\ meets \in BOOLEAN
  /\ faults \in 0..MaxFaults

\* What a check has established: the confirmations it counted are those of the height
\* of its receipt, which is final from then on; so are the codes it reads afterwards.
CheckInv ==
  /\ step \in Step
  /\ seen \in Seq(Content) /\ unread \subseteq Account
  /\ step # "idle" => /\ seen # NoBlock /\ seen[Len(seen)].tx # "none"
                      /\ recorded \in {NoBlock, seen}
                      /\ status \in {"pending", "confirming"}
  /\ step \in Trusted => /\ meets /\ seen[Len(seen)].tx = "effective"
                         /\ Len(seen) > StartBlock
  /\ step \in Counted => Len(seen) <= final
  /\ step \in Recoded => \A a \in Account \ unread : a \notin chain[Len(seen)].code
  /\ step = "last hash" => unread = {}

\* What is recorded, and what VERIFIED says.
RecordInv ==
  /\ recorded \in Seq(Content)
  /\ status \in {"pending", "confirming", "rejected", "verified"}
  /\ recorded # NoBlock <=> status \in {"confirming", "verified"}
  /\ status = "verified" => /\ Len(recorded) <= final
                            /\ Canonical(recorded) /\ Pays(recorded)

VInv == ChainInv /\ CheckInv /\ RecordInv

-----------------------------------------------------------------------------
(* Chains and the blocks they end in. *)

LEMMA Prefix ==
  ASSUME NEW c \in Seq(Content), NEW n \in 0..Len(c)
  PROVE  /\ SubSeq(c, 1, n) \in Seq(Content)
         /\ Len(SubSeq(c, 1, n)) = n
         /\ \A i \in 1..n : SubSeq(c, 1, n)[i] = c[i]
<1>1. \A i \in 1..n : c[i] \in Content
  BY ElementOfSeq
<1> QED
  BY <1>1, SubSeqProperties

\* Chains that agree up to n end there in the same block.
LEMMA SameBlock ==
  ASSUME NEW c \in Seq(Content), NEW d \in Seq(Content), NEW n \in Nat,
         n <= Len(c), n <= Len(d), \A i \in 1..n : c[i] = d[i]
  PROVE  SubSeq(c, 1, n) = SubSeq(d, 1, n)
<1>1. n \in 0..Len(c) /\ n \in 0..Len(d)
  BY LenProperties
<1>2. \A i \in 1..n : SubSeq(c, 1, n)[i] = SubSeq(d, 1, n)[i]
  BY <1>1, Prefix
<1> QED
  BY <1>1, <1>2, Prefix, SeqEqual

LEMMA NotEmpty ==
  ASSUME NEW b \in Seq(Content)
  PROVE  b # NoBlock <=> Len(b) \in Nat /\ Len(b) >= 1
BY EmptySeq, LenProperties DEF NoBlock

\* The block of the receipt ends with the transaction.
LEMMA InclusionType ==
  ASSUME chain \in Seq(Content), Included
  PROVE  /\ Inclusion \in Seq(Content) /\ Inclusion # NoBlock
         /\ Inclusion[Len(Inclusion)].tx # "none"
<1> DEFINE n == CHOOSE k \in Holding(chain) : TRUE
<1>1. n \in Holding(chain)
  BY DEF Included
<1>2. n \in 1..Len(chain) /\ chain[n].tx # "none"
  BY <1>1, LenProperties DEF Holding
<1>3. Inclusion = SubSeq(chain, 1, n)
  BY DEF Inclusion, BlockAt
<1> HIDE DEF n
<1>4. n \in 0..Len(chain) /\ n \in 1..n
  BY <1>2, LenProperties
<1>5. /\ Inclusion \in Seq(Content) /\ Len(Inclusion) = n
      /\ Inclusion[n] = chain[n]
  BY <1>3, <1>4, Prefix
<1> QED
  BY <1>2, <1>5, NotEmpty

\* A block that is canonical ends with what the chain holds at its height.
LEMMA CanonicalEnd ==
  ASSUME chain \in Seq(Content), NEW b \in Seq(Content), b # NoBlock, Canonical(b)
  PROVE  b[Len(b)] = chain[Len(b)]
<1>1. Len(b) \in 0..Len(chain) /\ Len(b) \in 1..Len(b)
  BY NotEmpty, LenProperties DEF Canonical
<1> QED
  BY <1>1, Prefix DEF Canonical, BlockAt

-----------------------------------------------------------------------------
(* Init, and steps by kind. *)

LEMMA VInit == Init => VInv
<1> SUFFICES ASSUME Init PROVE VInv
  OBVIOUS
<1>1. chain \in Seq(Content) /\ Len(chain) = StartBlock
  <2>1. chain \in [1..StartBlock -> Content]
    BY DEF Init
  <2> QED
    BY <2>1, StartBlockAssumption
<1>2. ChainInv
  BY <1>1, StartBlockAssumption, FinalityAssumption, ConfirmationsAssumption, BoundsAssumption
  DEF Init, ChainInv
<1>3. NoBlock \in Seq(Content)
  BY EmptySeq DEF NoBlock
<1>4. CheckInv /\ RecordInv
  BY <1>3 DEF Init, CheckInv, RecordInv, Step, Trusted, Counted, Recoded
<1> QED
  BY <1>2, <1>4 DEF VInv

\* The chain grows or is replaced above its final height: what was final is still there.
LEMMA ChainStep ==
  ASSUME VInv, ChainInv', UNCHANGED <<meets, attempt, check>>,
         final <= final', \A i \in 1..final : chain'[i] = chain[i]
  PROVE  VInv'
<1>1. CheckInv'
  <2>1. ASSUME step \in Counted PROVE Len(seen) \in 1..final /\ Len(seen) <= final'
    <3>1. seen # NoBlock /\ seen \in Seq(Content) /\ Len(seen) <= final
      BY <2>1 DEF VInv, CheckInv, Counted, Trusted
    <3> QED
      BY <3>1, NotEmpty, LenProperties DEF VInv, ChainInv
  <2>2. step \in Counted => chain'[Len(seen)] = chain[Len(seen)]
    BY <2>1
  <2>3. Recoded \subseteq Counted
    BY DEF Recoded, Counted, Trusted
  <2> QED
    BY <2>1, <2>2, <2>3 DEF VInv, CheckInv
<1>2. RecordInv'
  <2>1. ASSUME status = "verified"
        PROVE  Len(recorded) <= final' /\ Canonical(recorded)'
    <3>1. /\ recorded \in Seq(Content) /\ Len(recorded) <= final
          /\ BlockAt(Len(recorded)) = recorded
      BY <2>1 DEF VInv, RecordInv, Canonical
    <3>2. /\ Len(recorded) \in Nat /\ final \in Nat /\ final' \in Nat
          /\ final <= Len(chain) /\ final' <= Len(chain')
          /\ Len(chain) \in Nat /\ Len(chain') \in Nat
      BY <3>1, LenProperties DEF VInv, ChainInv
    <3>3. SubSeq(chain, 1, Len(recorded)) = SubSeq(chain', 1, Len(recorded))
      BY <3>1, <3>2, SameBlock DEF VInv, ChainInv
    <3> QED
      BY <3>1, <3>2, <3>3 DEF Canonical, BlockAt
  <2> QED
    BY <2>1 DEF VInv, RecordInv, Pays
<1> QED
  BY <1>1, <1>2 DEF VInv

\* A check ends without VERIFIED: what it records, if anything, is the receipt's block.
LEMMA EndStep ==
  ASSUME VInv, ChainInv', UNCHANGED <<chain, final, meets, seen, unread>>, step' = "idle",
         \/ status' \in {"pending", "rejected"} /\ recorded' = NoBlock
         \/ status' = "confirming" /\ recorded' = seen /\ step # "idle"
         \/ UNCHANGED attempt
  PROVE  VInv'
<1>1. NoBlock \in Seq(Content)
  BY EmptySeq DEF NoBlock
<1>2. CheckInv'
  BY DEF VInv, CheckInv, Step, Trusted, Counted, Recoded
<1>3. RecordInv'
  BY <1>1 DEF VInv, CheckInv, RecordInv, Canonical, BlockAt, Pays
<1> QED
  BY <1>2, <1>3 DEF VInv

\* A check goes on.
LEMMA GoOn ==
  ASSUME VInv, UNCHANGED <<chain, final, meets, attempt, faults>>, CheckInv'
  PROVE  VInv'
BY DEF VInv, ChainInv, RecordInv, Canonical, BlockAt, Pays

-----------------------------------------------------------------------------
(* The chain's steps. *)

LEMMA GrowStep == VInv /\ Grow => VInv'
<1> SUFFICES ASSUME VInv, Grow PROVE VInv'
  OBVIOUS
<1>1. PICK c \in Content : chain' = Append(chain, c)
  BY DEF Grow
<1>2. /\ chain' \in Seq(Content) /\ Len(chain') = Len(chain) + 1
      /\ \A i \in 1..Len(chain) : chain'[i] = chain[i]
  BY <1>1, AppendProperties DEF VInv, ChainInv
<1>3. Len(chain) \in Nat /\ final \in 0..Len(chain) /\ Finality \in Nat /\ Finality >= 1
  BY LenProperties, FinalityAssumption, ConfirmationsAssumption DEF VInv, ChainInv
<1>4. final' \in 0..Len(chain') /\ final <= final' /\ final' >= Len(chain') + 1 - Finality
  BY <1>2, <1>3 DEF Grow
<1>5. ChainInv'
  BY <1>2, <1>3, <1>4, BoundsAssumption DEF Grow, VInv, ChainInv
<1> QED
  BY <1>2, <1>3, <1>4, <1>5, ChainStep DEF Grow

LEMMA RewindStep == VInv /\ Rewind => VInv'
<1> SUFFICES ASSUME VInv, Rewind PROVE VInv'
  OBVIOUS
<1>1. PICK k \in final..Len(chain)-1 : chain' = SubSeq(chain, 1, k)
  BY DEF Rewind, BlockAt
<1>2. /\ Len(chain) \in Nat /\ final \in 0..Len(chain) /\ k \in 0..Len(chain)
      /\ final <= k /\ k <= Len(chain)
  BY <1>1, LenProperties DEF VInv, ChainInv
<1>3. /\ chain' \in Seq(Content) /\ Len(chain') = k
      /\ \A i \in 1..k : chain'[i] = chain[i]
  BY <1>1, <1>2, Prefix DEF VInv, ChainInv
<1>4. ChainInv'
  BY <1>2, <1>3, FinalityAssumption, ConfirmationsAssumption, BoundsAssumption
  DEF Rewind, VInv, ChainInv
<1> QED
  BY <1>2, <1>3, <1>4, ChainStep DEF Rewind

-----------------------------------------------------------------------------
(* The reads of a check. *)

LEMMA PostponeStep ==
  ASSUME VInv, ChainInv', Postpone, UNCHANGED <<chain, final, meets>>
  PROVE  VInv'
BY EndStep DEF Postpone, Forget

LEMMA RejectStep ==
  ASSUME VInv, ChainInv', Reject, UNCHANGED <<chain, final, meets>>
  PROVE  VInv'
BY EndStep DEF Reject, Forget

LEMMA ReadReceiptStep ==
  ASSUME VInv, ReadReceipt, UNCHANGED <<chain, final, meets, faults>>
  PROVE  VInv'
<1>0. ChainInv'
  BY DEF VInv, ChainInv
<1>1. CASE Postpone
  BY <1>0, <1>1, PostponeStep
<1>2. CASE /\ Included /\ ~Moved(Inclusion)
           /\ seen' = Inclusion /\ step' = "hash" /\ UNCHANGED <<attempt, unread>>
  <2>1. /\ Inclusion \in Seq(Content) /\ Inclusion # NoBlock
        /\ Inclusion[Len(Inclusion)].tx # "none"
    BY <1>2, InclusionType DEF VInv, ChainInv
  <2>2. CheckInv'
    BY <1>2, <2>1 DEF ReadReceipt, Moved, VInv, CheckInv, Step, Trusted, Counted, Recoded
  <2> QED
    BY <1>2, <2>2, GoOn
<1> QED
  BY <1>1, <1>2 DEF ReadReceipt

LEMMA ReadHashStep ==
  ASSUME VInv, UNCHANGED <<chain, final, meets, faults>>,
         ReadHash("hash", "transaction") \/ ReadHash("hash again", "transaction again")
  PROVE  VInv'
<1>0. ChainInv'
  BY DEF VInv, ChainInv
<1>1. CASE Postpone
  BY <1>0, <1>1, PostponeStep
<1>2. CASE \/ step = "hash" /\ Goto("transaction")
           \/ step = "hash again" /\ Goto("transaction again")
  <2>1. CheckInv'
    BY <1>2 DEF Goto, VInv, CheckInv, Step, Trusted, Counted, Recoded
  <2> QED
    BY <1>2, <2>1, GoOn DEF Goto
<1> QED
  BY <1>1, <1>2 DEF ReadHash

LEMMA ReadTransactionStep ==
  ASSUME VInv, UNCHANGED <<chain, final, meets, faults>>,
         \/ ReadTransaction("transaction", "code")
         \/ ReadTransaction("transaction again", "code again")
  PROVE  VInv'
<1>0. ChainInv'
  BY DEF VInv, ChainInv
<1>1. CASE Postpone
  BY <1>0, <1>1, PostponeStep
<1>2. CASE Reject
  BY <1>0, <1>2, RejectStep
<1>3. CASE /\ Inspected /\ unread' = Account /\ UNCHANGED <<attempt, seen>>
           /\ \/ step = "transaction" /\ step' = "code"
              \/ step = "transaction again" /\ step' = "code again"
  <2>1. CheckInv'
    BY <1>3 DEF Inspected, VInv, CheckInv, Step, Trusted, Counted, Recoded
  <2> QED
    BY <1>3, <2>1, GoOn
<1> QED
  BY <1>1, <1>2, <1>3 DEF ReadTransaction

LEMMA ReadCodeStep ==
  ASSUME VInv, UNCHANGED <<chain, final, meets, faults>>,
         ReadCode("code", "head") \/ ReadCode("code again", "last hash")
  PROVE  VInv'
<1>0. ChainInv'
  BY DEF VInv, ChainInv
<1>1. CASE Postpone
  BY <1>0, <1>1, PostponeStep
<1>2. CASE Reject
  BY <1>0, <1>2, RejectStep
<1>3. ASSUME NEW a \in unread, ~HasCode(Len(seen), a),
             unread' = unread \ {a}, UNCHANGED <<attempt, seen>>,
             \/ step = "code" /\ step' = IF unread = {a} THEN "head" ELSE "code"
             \/ /\ step = "code again"
                /\ step' = IF unread = {a} THEN "last hash" ELSE "code again"
      PROVE  VInv'
  <2>1. a \notin chain[Len(seen)].code
    BY <1>3 DEF HasCode
  <2>2. CheckInv'
    <3>1. CASE step = "code"
      BY <1>3, <3>1 DEF VInv, CheckInv, Step, Trusted, Counted, Recoded
    <3>2. CASE step = "code again"
      BY <1>3, <2>1, <3>2 DEF VInv, CheckInv, Step, Trusted, Counted, Recoded
    <3> QED
      BY <1>3, <3>1, <3>2
  <2> QED
    BY <1>3, <2>2, GoOn
<1> QED
  BY <1>1, <1>2, <1>3 DEF ReadCode

\* The confirmations are counted: the height of the receipt is final, as the network
\* keeps blocks with that many.
LEMMA ReadHeadStep ==
  ASSUME VInv, ReadHead, UNCHANGED <<chain, final, meets, faults>>
  PROVE  VInv'
<1>0. ChainInv'
  BY DEF VInv, ChainInv
<1>1. CASE Attest("confirming")
  BY <1>0, <1>1, EndStep DEF Attest, ReadHead
<1>2. CASE Deep(Len(seen)) /\ Goto("receipt again")
  <2>1. /\ seen \in Seq(Content) /\ chain \in Seq(Content)
        /\ final \in 0..Len(chain) /\ final >= Len(chain) + 1 - Finality
    BY DEF VInv, ChainInv, CheckInv
  <2>2. Len(seen) <= final
    <3>1. Len(seen) \in Nat /\ Len(chain) \in Nat
      BY <2>1, LenProperties
    <3>2. Finality \in Nat /\ Confirmations \in Nat /\ Finality <= Confirmations
      BY FinalityAssumption, ConfirmationsAssumption
    <3>3. Len(chain) - Len(seen) + 1 >= Confirmations
      BY <1>2 DEF Deep
    <3> QED
      BY <2>1, <3>1, <3>2, <3>3
  <2>3. CheckInv'
    BY <1>2, <2>2 DEF ReadHead, Goto, VInv, CheckInv, Step, Trusted, Counted, Recoded
  <2> QED
    BY <1>2, <2>3, GoOn DEF Goto
<1> QED
  BY <1>1, <1>2 DEF ReadHead

LEMMA RereadReceiptStep ==
  ASSUME VInv, RereadReceipt, UNCHANGED <<chain, final, meets, faults>>
  PROVE  VInv'
<1>0. ChainInv'
  BY DEF VInv, ChainInv
<1>1. CASE Postpone
  BY <1>0, <1>1, PostponeStep
<1>2. CASE Goto("hash again")
  <2>1. CheckInv'
    BY <1>2 DEF RereadReceipt, Goto, VInv, CheckInv, Step, Trusted, Counted, Recoded
  <2> QED
    BY <1>2, <2>1, GoOn DEF Goto
<1> QED
  BY <1>1, <1>2 DEF RereadReceipt

\* VERIFIED: the block at the receipt's height is the receipt's, and was since its
\* confirmations were counted; so the codes read by that height are its own.
LEMMA ConcludeStep ==
  ASSUME VInv, Conclude, UNCHANGED <<chain, final, meets, faults>>
  PROVE  VInv'
<1>0. ChainInv'
  BY DEF VInv, ChainInv
<1>1. CASE Postpone
  BY <1>0, <1>1, PostponeStep
<1>2. CASE Canonical(seen) /\ Attest("verified")
  <2>1. step = "last hash"
    BY DEF Conclude
  <2>2. /\ seen \in Seq(Content) /\ seen # NoBlock /\ Len(seen) <= final
        /\ meets /\ seen[Len(seen)].tx = "effective" /\ Len(seen) > StartBlock
        /\ \A a \in Account : a \notin chain[Len(seen)].code
    BY <2>1 DEF VInv, CheckInv, Trusted, Counted, Recoded
  <2>3. seen[Len(seen)] = chain[Len(seen)]
    BY <1>2, <2>2, CanonicalEnd DEF VInv, ChainInv
  <2>4. seen[Len(seen)] \in Content
    BY <2>2, NotEmpty, LenProperties, ElementOfSeq
  <2>5. Pays(seen)
    <3>1. seen[Len(seen)].code \subseteq Account
      BY <2>4 DEF Content
    <3> QED
      BY <2>2, <2>3, <3>1 DEF Pays
  <2>6. /\ status' = "verified" /\ recorded' = seen /\ step' = "idle"
        /\ UNCHANGED <<seen, unread>>
    BY <1>2 DEF Attest
  <2>7. RecordInv'
    BY <1>2, <2>2, <2>5, <2>6 DEF RecordInv, Canonical, BlockAt, Pays
  <2>8. CheckInv'
    BY <2>6 DEF VInv, CheckInv, Step, Trusted, Counted, Recoded
  <2> QED
    BY <1>0, <2>7, <2>8 DEF VInv
<1> QED
  BY <1>1, <1>2 DEF Conclude

LEMMA VStep == VInv /\ [Next]_vars => VInv'
<1> SUFFICES ASSUME VInv, [Next]_vars PROVE VInv'
  OBVIOUS
<1>1. CASE UNCHANGED vars
  BY <1>1 DEF vars, VInv, ChainInv, CheckInv, RecordInv, Canonical, BlockAt, Pays
<1>2. CASE Work
  BY <1>2, ReadReceiptStep, ReadHashStep, ReadTransactionStep, ReadCodeStep, ReadHeadStep,
     RereadReceiptStep, ConcludeStep
  DEF Work, Check
<1>3. CASE Fail
  BY <1>3, PostponeStep, BoundsAssumption DEF Fail, VInv, ChainInv
<1>4. CASE Drop
  BY <1>4, EndStep, BoundsAssumption DEF Drop, Goto, VInv, ChainInv
<1> QED
  BY <1>1, <1>2, <1>3, <1>4, GrowStep, RewindStep DEF Next

LEMMA VInvAlways == Spec => []VInv
BY VInit, VStep, PTL DEF Spec

-----------------------------------------------------------------------------
\* Statuses, recorded blocks and what a check has seen keep their types: a block is
\* recorded exactly while the attempt is CONFIRMING or VERIFIED.
THEOREM VerifierTypeCorrect == Spec => []VTypeOK
<1>1. VInv => VTypeOK
  BY DEF VInv, ChainInv, CheckInv, RecordInv, VTypeOK
<1> QED
  BY <1>1, VInvAlways, PTL

\* The evidence of a VERIFIED attempt names a block that stays canonical, on every
\* network that keeps blocks with the required confirmations.
THEOREM VerifiedIsFinalAlways == Spec => []VerifiedIsFinal
<1>1. VInv => VerifiedIsFinal
  BY DEF VInv, RecordInv, VerifiedIsFinal
<1> QED
  BY <1>1, VInvAlways, PTL

\* That block itself holds the effective transfer, later than the binding, and no code
\* of the accounts, however the chain moved between the reads.
THEOREM VerifiedIsPaidAlways == Spec => []VerifiedIsPaid
<1>1. VInv => VerifiedIsPaid
  BY DEF VInv, RecordInv, VerifiedIsPaid
<1> QED
  BY <1>1, VInvAlways, PTL

\* No check replaces the block of an earlier one by another: it confirms that block, or
\* forgets it.
THEOREM EvidenceMatchesRecordAlways == Spec => EvidenceMatchesRecord
<1>1. VInv /\ [Next]_vars => [recorded # NoBlock => recorded' \in {recorded, NoBlock}]_vars
  <2> SUFFICES ASSUME VInv, Next, recorded # NoBlock
               PROVE  recorded' \in {recorded, NoBlock}
    BY DEF vars
  <2>1. CASE Grow \/ Rewind \/ Drop
    BY <2>1 DEF Grow, Rewind, Drop, Goto
  <2>2. CASE Work \/ Fail
    BY <2>2 DEF Work, Check, Fail, ReadReceipt, ReadHash, ReadTransaction, ReadCode, ReadHead,
                RereadReceipt, Conclude, Postpone, Reject, Forget, Attest, Goto, VInv, CheckInv
  <2> QED
    BY <2>1, <2>2 DEF Next
<1> QED
  BY <1>1, VInvAlways, PTL DEF Spec, EvidenceMatchesRecord
=============================================================================
