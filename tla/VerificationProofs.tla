------------------------- MODULE VerificationProofs -------------------------
(* What holds of Verification for every set of payments, hashes and blocks, *)
(* every retry budget and every version bound: its types, the agreement of  *)
(* payments, attempts and settlements, and what the rest of the system sees *)
(* of it.  It implements PaymentLedger, so workers, leases, queues and      *)
(* retries do nothing that the ledger of claims does not allow, and the     *)
(* events it writes tell every status of a payment once.                    *)
EXTENDS Verification, TLAPS

USE DEF Attempt

-----------------------------------------------------------------------------
(* Types. *)

LEMMA SetPaymentType ==
  ASSUME TypeOK, NEW p \in Payment, NEW s \in PaymentStatus, SetPayment(p, s)
  PROVE  payment' \in [Payment -> PaymentRow] /\ updates' \subseteq Update
BY DEF TypeOK, SetPayment, PaymentRow, Update

LEMMA WakeType ==
  ASSUME TypeOK, NEW t \in Attempt, NEW v \in Nat, Wake(t, v)
  PROVE  wakeups' \subseteq Wakeup
BY DEF TypeOK, Wake, Wakeup

\* What a verdict leaves in the row has the types of its columns.
LEMMA VerdictType ==
  ASSUME TypeOK, NEW j \in running, NEW v \in Verdicts(j)
  PROVE  /\ v.status \in {"PENDING_CHAIN", "REJECTED", "RETRY", "CONFIRMING"}
         /\ v.block \in Block \union {NoBlock}
         /\ v.status # "CONFIRMING" => v.block = NoBlock
         /\ Retries(j, v) \in Nat
         /\ NextStatus(j, v) \in {"PENDING_CHAIN", "REJECTED", "CONFIRMING", "NEEDS_REVIEW"}
         /\ NextStatus(j, v) = "NEEDS_REVIEW" =>
              v.status = "RETRY" /\ Retries(j, v) >= RetryBudget
         /\ NextStatus(j, v) \in Recheckable /\ v.status = "RETRY" =>
              Retries(j, v) < RetryBudget
         /\ v.status # "RETRY" => Retries(j, v) = j.retries
<1>1. /\ v.status \in {"PENDING_CHAIN", "REJECTED", "RETRY", "CONFIRMING"}
      /\ v.block \in Block \union {NoBlock}
      /\ v.status # "CONFIRMING" => v.block = NoBlock
  BY DEF TypeOK, Job, Verdicts, Evidence
<1>2. j.retries \in Nat
  BY DEF TypeOK, Job
<1>3. Retries(j, v) \in Nat
  BY <1>1, <1>2 DEF Retries
<1> QED
  BY <1>1, <1>2, <1>3, RetryBudgetAssumption DEF NextStatus, Retries, Recheckable

\* The rows the handlers leave are rows.
LEMMA RowTypes ==
  ASSUME NEW row \in AttemptRow
  PROVE  /\ Resumed(row) \in AttemptRow
         /\ Claimed(row) \in AttemptRow
         /\ Conflicted(row) \in AttemptRow
         /\ \A b \in Block \union {NoBlock} : Verified(row, b) \in AttemptRow
         /\ [row EXCEPT !.lease = "expired"] \in AttemptRow
         /\ [row EXCEPT !.check = "due"] \in AttemptRow
<1> USE DEF AttemptRow
<1>1. row.version + 1 \in Nat
  OBVIOUS
<1>2. Resumed(row) \in AttemptRow
  BY <1>1 DEF Resumed, AttemptStatus
<1>3. Claimed(row) \in AttemptRow
  BY <1>1 DEF Claimed, AttemptStatus
<1>4. Conflicted(row) \in AttemptRow
  BY <1>1 DEF Conflicted, AttemptStatus
<1>5. \A b \in Block \union {NoBlock} : Verified(row, b) \in AttemptRow
  BY <1>1 DEF Verified, AttemptStatus
<1>6. [row EXCEPT !.lease = "expired"] \in AttemptRow
  OBVIOUS
<1>7. [row EXCEPT !.check = "due"] \in AttemptRow
  OBVIOUS
<1> QED
  BY <1>2, <1>3, <1>4, <1>5, <1>6, <1>7

LEMMA TypeInit == Init => TypeOK
BY NoHashAssumption DEF Init, TypeOK, PaymentRow, PaymentStatus, AttemptRow,
   AttemptStatus, NoAttempt, Update

LEMMA TypeStep == TypeOK /\ [Next]_vars => TypeOK'
<1> SUFFICES ASSUME TypeOK, [Next]_vars PROVE TypeOK'
  OBVIOUS
<1> USE DEF TypeOK
<1>1. ASSUME NEW p \in Payment, NEW h \in Hash, Submit(p, h) PROVE TypeOK'
  <2>1. <<p, h>> \in Attempt
    OBVIOUS
  <2>2. attempt' \in [Attempt -> AttemptRow]
    BY <1>1, <2>1 DEF Submit, NewAttempt, NoAttempt, AttemptRow, AttemptStatus
  <2>3. payment' \in [Payment -> PaymentRow] /\ updates' \subseteq Update
    BY <1>1, SetPaymentType DEF Submit, PaymentStatus
  <2>4. wakeups' \subseteq Wakeup
    BY <1>1, <2>1, WakeType DEF Submit
  <2> QED
    BY <1>1, <2>2, <2>3, <2>4 DEF Submit
<1>2. ASSUME NEW t \in Attempt, Retry(t) PROVE TypeOK'
  <2>1. attempt[t] \in AttemptRow /\ t[1] \in Payment
    OBVIOUS
  <2>2. attempt' \in [Attempt -> AttemptRow]
    BY <1>2, <2>1, RowTypes DEF Retry
  <2>3. payment' \in [Payment -> PaymentRow] /\ updates' \subseteq Update
    BY <1>2, <2>1, SetPaymentType DEF Retry, PaymentRow
  <2>4. wakeups' \subseteq Wakeup
    BY <1>2, <2>1, WakeType DEF Retry, AttemptRow
  <2> QED
    BY <1>2, <2>2, <2>3, <2>4 DEF Retry
<1>3. ASSUME NEW t \in Attempt, Claim(t) PROVE TypeOK'
  <2>1. attempt[t] \in AttemptRow
    OBVIOUS
  <2>2. attempt' \in [Attempt -> AttemptRow]
    BY <1>3, <2>1, RowTypes DEF Claim
  <2>3. running' \subseteq Job
    BY <1>3, <2>1 DEF Claim, AttemptRow, Job
  <2> QED
    BY <1>3, <2>2, <2>3 DEF Claim
<1>4. ASSUME NEW t \in Attempt, ExpireLease(t) PROVE TypeOK'
  BY <1>4, RowTypes DEF ExpireLease
<1>5. ASSUME NEW t \in Attempt, NextCheckDue(t) PROVE TypeOK'
  BY <1>5, RowTypes DEF NextCheckDue
<1>6. ASSUME NEW j \in running, NEW v \in Verdicts(j), Reschedule(j, v) PROVE TypeOK'
  <2>1. /\ j \in Job
        /\ j.attempt \in Attempt
        /\ j.attempt[1] \in Payment
        /\ j.version \in Nat
    BY DEF Job
  <2>2. attempt' \in [Attempt -> AttemptRow]
    BY <1>6, <2>1, VerdictType DEF Reschedule, Verdicted, AttemptRow, AttemptStatus
  <2>3. payment' \in [Payment -> PaymentRow] /\ updates' \subseteq Update
    <3>1. PaymentAfter(NextStatus(j, v)) \in PaymentStatus
      BY DEF PaymentAfter, PaymentStatus
    <3> QED
      BY <1>6, <2>1, <3>1, SetPaymentType DEF Reschedule
  <2>4. wakeups' \subseteq Wakeup
    BY <1>6, <2>1, WakeType DEF Reschedule
  <2> QED
    BY <1>6, <2>2, <2>3, <2>4 DEF Reschedule
<1>7. ASSUME NEW j \in running, NEW b \in Evidence(j), SettleWin(j, b) PROVE TypeOK'
  <2>1. /\ j.attempt \in Attempt
        /\ j.attempt[1] \in Payment /\ j.attempt[2] \in Hash
        /\ b \in Block \union {NoBlock}
    BY DEF Job, Evidence
  <2>2. attempt' \in [Attempt -> AttemptRow]
    BY <1>7, <2>1, RowTypes DEF SettleWin
  <2>3. payment' \in [Payment -> PaymentRow] /\ updates' \subseteq Update
    BY <1>7, <2>1, SetPaymentType DEF SettleWin, PaymentStatus
  <2>4. settlement' \in [Payment -> Hash \union {NoHash}] /\ allocated' \subseteq Payment
    BY <1>7, <2>1 DEF SettleWin, Release
  <2> QED
    BY <1>7, <2>2, <2>3, <2>4 DEF SettleWin
<1>8. ASSUME NEW j \in running, SettleConflict(j) PROVE TypeOK'
  <2>1. j.attempt \in Attempt /\ j.attempt[1] \in Payment
    BY DEF Job
  <2>2. attempt' \in [Attempt -> AttemptRow]
    BY <1>8, <2>1, RowTypes DEF SettleConflict
  <2>3. payment' \in [Payment -> PaymentRow] /\ updates' \subseteq Update
    BY <1>8, <2>1, SetPaymentType DEF SettleConflict, PaymentRow
  <2> QED
    BY <1>8, <2>2, <2>3 DEF SettleConflict
<1>9. ASSUME NEW j \in running, Discard(j) \/ Crash(j) PROVE TypeOK'
  BY <1>9 DEF Discard, Crash
<1>10. CASE UNCHANGED vars
  BY <1>10 DEF vars
<1> QED
  BY <1>1, <1>2, <1>3, <1>4, <1>5, <1>6, <1>7, <1>8, <1>9, <1>10 DEF Next, Record

\* Every column keeps its type in every behaviour: versions and retry counts are
\* naturals, statuses are among those the CHECK constraints of the migrations allow.
THEOREM TypeCorrect == Spec => []TypeOK
BY TypeInit, TypeStep, PTL DEF Spec

-----------------------------------------------------------------------------
(* Payments, attempts and settlements agree. *)

\* The inductive invariant behind them: no job needs to be mentioned, for what
\* the fence lets through finds its attempt VERIFYING, hence active.
Agreement ==
  /\ TypeOK
  /\ StatusAgrees
  /\ OneActive
  /\ SettledOnce
  /\ AllocatedUntilPaid

\* How a step that rewrites one attempt and one payment reads afterwards.
LEMMA RowWrite ==
  ASSUME TypeOK, NEW p \in Payment, NEW h \in Hash, NEW row \in AttemptRow,
         attempt' = [attempt EXCEPT ![<<p, h>>] = row]
  PROVE  \A q \in Payment, g \in Hash :
           attempt'[<<q, g>>] = IF q = p /\ g = h THEN row ELSE attempt[<<q, g>>]
BY DEF TypeOK

LEMMA AttemptPair ==
  ASSUME NEW t \in Attempt
  PROVE  t[1] \in Payment /\ t[2] \in Hash /\ t = <<t[1], t[2]>>
OBVIOUS

LEMMA PaymentWrite ==
  ASSUME TypeOK, NEW p \in Payment, NEW s \in PaymentStatus, SetPayment(p, s)
  PROVE  /\ payment'[p].status = s
         /\ payment'[p].version = payment[p].version + 1
         /\ \A q \in Payment : q # p => payment'[q] = payment[q]
BY DEF TypeOK, SetPayment

LEMMA AgreementInit == Init => Agreement
<1> SUFFICES ASSUME Init PROVE Agreement
  OBVIOUS
<1>1. TypeOK
  BY TypeInit
<1>2. StatusAgrees
  BY NoHashAssumption DEF Init, StatusAgrees, PaymentAgrees, NoAttempt, Active, Recheckable
<1>3. OneActive
  BY DEF Init, OneActive, NoAttempt, Active, Recheckable
<1>4. SettledOnce /\ AllocatedUntilPaid
  BY DEF Init, SettledOnce, AllocatedUntilPaid
<1> QED
  BY <1>1, <1>2, <1>3, <1>4 DEF Agreement

\* A step of one payment p leaves the others as they agree.
LEMMA LocalStep ==
  ASSUME Agreement, TypeOK', SettledOnce',
         NEW p \in Payment,
         \A q \in Payment : q # p =>
            /\ payment'[q] = payment[q]
            /\ settlement'[q] = settlement[q]
            /\ q \in allocated' <=> q \in allocated
            /\ \A h \in Hash : attempt'[<<q, h>>] = attempt[<<q, h>>],
         PaymentAgrees(p)',
         \A g, h \in Hash :
            attempt'[<<p, g>>].status \in Active /\ attempt'[<<p, h>>].status \in Active
              => g = h,
         p \in allocated' <=> payment'[p].status # "CONFIRMED"
  PROVE  Agreement'
<1>1. ASSUME NEW q \in Payment, q # p PROVE PaymentAgrees(q)'
  <2>1. PaymentAgrees(q)
    BY DEF Agreement, StatusAgrees
  <2> QED
    BY <1>1, <2>1 DEF PaymentAgrees
<1>2. StatusAgrees'
  BY <1>1 DEF StatusAgrees
<1>3. OneActive'
  BY DEF Agreement, OneActive
<1>4. AllocatedUntilPaid'
  BY DEF Agreement, AllocatedUntilPaid
<1> QED
  BY <1>2, <1>3, <1>4 DEF Agreement

\* A step that keeps active attempts active, verified ones verified, and neither
\* payment statuses nor settlements moves keeps the agreement.
LEMMA QuietStep ==
  ASSUME Agreement, TypeOK',
         \A p \in Payment, h \in Hash :
           /\ attempt'[<<p, h>>].status \in Active <=> attempt[<<p, h>>].status \in Active
           /\ attempt'[<<p, h>>].status = "VERIFIED" <=> attempt[<<p, h>>].status = "VERIFIED",
         \A p \in Payment : payment'[p].status = payment[p].status,
         UNCHANGED <<settlement, allocated>>
  PROVE  Agreement'
<1>1. ASSUME NEW p \in Payment PROVE PaymentAgrees(p)'
  <2>1. PaymentAgrees(p)
    BY DEF Agreement, StatusAgrees
  <2> QED
    BY <2>1 DEF PaymentAgrees
<1>2. OneActive'
  BY DEF Agreement, OneActive
<1>3. SettledOnce' /\ AllocatedUntilPaid'
  BY DEF Agreement, SettledOnce, AllocatedUntilPaid
<1> QED
  BY <1>1, <1>2, <1>3 DEF Agreement, StatusAgrees

LEMMA SubmitAgreement ==
  ASSUME Agreement, TypeOK', NEW p \in Payment, NEW h \in Hash, Submit(p, h)
  PROVE  Agreement'
<1>1. <<p, h>> \in Attempt /\ NewAttempt \in AttemptRow /\ NewAttempt.status = "SUBMITTED"
  BY DEF NewAttempt, NoAttempt, AttemptRow, AttemptStatus
<1>2. \A q \in Payment, g \in Hash :
        attempt'[<<q, g>>] = IF q = p /\ g = h THEN NewAttempt ELSE attempt[<<q, g>>]
  BY <1>1, RowWrite DEF Submit, Agreement
<1>3. /\ payment'[p].status = "PROCESSING"
      /\ \A q \in Payment : q # p => payment'[q] = payment[q]
  BY PaymentWrite DEF Submit, Agreement, PaymentStatus
<1>4. /\ payment[p].status # "CONFIRMED"
      /\ \A g \in Hash : attempt[<<p, g>>].status \notin Active
      /\ attempt[<<p, h>>].status = "NONE"
      /\ UNCHANGED <<settlement, allocated>>
  BY DEF Submit, SlotFree
<1>5. PaymentAgrees(p) /\ settlement[p] = NoHash
  BY <1>4 DEF Agreement, StatusAgrees, PaymentAgrees
<1>6. PaymentAgrees(p)'
  <2>1. attempt'[<<p, h>>].status \in Active
    BY <1>1, <1>2 DEF Active, Recheckable
  <2>2. \A g \in Hash : attempt'[<<p, g>>].status # "VERIFIED"
    BY <1>1, <1>2, <1>5, NoHashAssumption DEF PaymentAgrees
  <2> QED
    BY <2>1, <2>2, <1>3, <1>4, <1>5, NoHashAssumption DEF PaymentAgrees
<1>7. \A f, g \in Hash :
        attempt'[<<p, f>>].status \in Active /\ attempt'[<<p, g>>].status \in Active => f = g
  BY <1>2, <1>4
<1>8. SettledOnce'
  BY <1>4 DEF Agreement, SettledOnce
<1>9. p \in allocated' <=> payment'[p].status # "CONFIRMED"
  BY <1>3, <1>4 DEF Agreement, AllocatedUntilPaid
<1> QED
  BY <1>2, <1>3, <1>4, <1>6, <1>7, <1>8, <1>9, LocalStep

\* What the fence tells of the attempt and the payment behind it.
LEMMA FencedIsActive ==
  ASSUME Agreement, NEW j \in running, Fenced(j)
  PROVE  /\ j.attempt \in Attempt
         /\ j.attempt[1] \in Payment /\ j.attempt[2] \in Hash
         /\ j.attempt = <<j.attempt[1], j.attempt[2]>>
         /\ attempt[j.attempt] \in AttemptRow
         /\ attempt[j.attempt].status = "VERIFYING"
         /\ payment[j.attempt[1]].status = "PROCESSING"
         /\ settlement[j.attempt[1]] = NoHash
         /\ \A h \in Hash : attempt[<<j.attempt[1], h>>].status \in Active
                              => h = j.attempt[2]
<1>1. /\ j.attempt \in Attempt
      /\ j.attempt[1] \in Payment /\ j.attempt[2] \in Hash
      /\ j.attempt = <<j.attempt[1], j.attempt[2]>>
      /\ attempt[j.attempt] \in AttemptRow
  BY DEF Agreement, TypeOK, Job
<1>2. attempt[j.attempt].status = "VERIFYING"
  BY DEF Fenced
<1>3. payment[j.attempt[1]].status = "PROCESSING"
  BY <1>1, <1>2 DEF Agreement, StatusAgrees, PaymentAgrees, Active, Recheckable
<1>4. settlement[j.attempt[1]] = NoHash
  BY <1>1, <1>3 DEF Agreement, StatusAgrees, PaymentAgrees
<1>5. \A h \in Hash : attempt[<<j.attempt[1], h>>].status \in Active => h = j.attempt[2]
  BY <1>1, <1>2 DEF Agreement, OneActive, Active, Recheckable
<1> QED
  BY <1>1, <1>2, <1>3, <1>4, <1>5

LEMMA RetryAgreement ==
  ASSUME Agreement, TypeOK', NEW t \in Attempt, Retry(t)
  PROVE  Agreement'
<1>1. t[1] \in Payment /\ t[2] \in Hash /\ t = <<t[1], t[2]>>
  BY AttemptPair
<1>2. attempt[t] \in AttemptRow /\ attempt[t].status = "NEEDS_REVIEW"
  BY DEF Retry, Resumable, Agreement, TypeOK
<1>3. Resumed(attempt[t]) \in AttemptRow /\ Resumed(attempt[t]).status = "SUBMITTED"
  BY <1>2, RowTypes DEF Resumed, AttemptRow
<1>4. attempt' = [attempt EXCEPT ![<<t[1], t[2]>>] = Resumed(attempt[t])]
  BY <1>1 DEF Retry
<1>5. \A q \in Payment, g \in Hash :
        attempt'[<<q, g>>] = IF q = t[1] /\ g = t[2] THEN Resumed(attempt[t])
                                                     ELSE attempt[<<q, g>>]
  BY <1>1, <1>3, <1>4, RowWrite DEF Agreement
<1>6. \A q \in Payment : payment'[q].status = payment[q].status
  <2>1. payment[t[1]].status \in PaymentStatus /\ SetPayment(t[1], payment[t[1]].status)
    BY <1>1 DEF Agreement, TypeOK, PaymentRow, Retry
  <2> QED
    BY <1>1, <2>1, PaymentWrite DEF Agreement
<1>7. UNCHANGED <<settlement, allocated>>
  BY DEF Retry
<1>8. \A q \in Payment, g \in Hash :
        /\ attempt'[<<q, g>>].status \in Active <=> attempt[<<q, g>>].status \in Active
        /\ attempt'[<<q, g>>].status = "VERIFIED" <=> attempt[<<q, g>>].status = "VERIFIED"
  BY <1>1, <1>2, <1>3, <1>5 DEF Active, Recheckable
<1> QED
  BY <1>6, <1>7, <1>8, QuietStep

LEMMA ClaimAgreement ==
  ASSUME Agreement, TypeOK', NEW t \in Attempt, Claim(t)
  PROVE  Agreement'
<1>1. t[1] \in Payment /\ t[2] \in Hash /\ t = <<t[1], t[2]>>
  BY AttemptPair
<1>2. attempt[t] \in AttemptRow /\ attempt[t].status \in Recheckable
  BY DEF Claim, Due, Agreement, TypeOK
<1>3. Claimed(attempt[t]) \in AttemptRow /\ Claimed(attempt[t]).status = "VERIFYING"
  BY <1>2, RowTypes DEF Claimed, AttemptRow
<1>4. attempt' = [attempt EXCEPT ![<<t[1], t[2]>>] = Claimed(attempt[t])]
  BY <1>1 DEF Claim
<1>5. \A q \in Payment, g \in Hash :
        attempt'[<<q, g>>] = IF q = t[1] /\ g = t[2] THEN Claimed(attempt[t])
                                                     ELSE attempt[<<q, g>>]
  BY <1>1, <1>3, <1>4, RowWrite DEF Agreement
<1>6. UNCHANGED <<payment, settlement, allocated>>
  BY DEF Claim
<1>7. \A q \in Payment, g \in Hash :
        /\ attempt'[<<q, g>>].status \in Active <=> attempt[<<q, g>>].status \in Active
        /\ attempt'[<<q, g>>].status = "VERIFIED" <=> attempt[<<q, g>>].status = "VERIFIED"
  BY <1>1, <1>2, <1>3, <1>5 DEF Active, Recheckable
<1> QED
  BY <1>6, <1>7, QuietStep

\* The clock changes no status.
LEMMA ClockAgreement ==
  ASSUME Agreement, TypeOK', NEW t \in Attempt, ExpireLease(t) \/ NextCheckDue(t)
  PROVE  Agreement'
<1>1. ASSUME NEW u \in Attempt PROVE attempt'[u].status = attempt[u].status
  BY DEF ExpireLease, NextCheckDue, Agreement, TypeOK, AttemptRow
<1>2. UNCHANGED <<payment, settlement, allocated>>
  BY DEF ExpireLease, NextCheckDue
<1>3. \A p \in Payment, h \in Hash : attempt'[<<p, h>>].status = attempt[<<p, h>>].status
  BY <1>1
<1> QED
  BY <1>2, <1>3, QuietStep

LEMMA RescheduleAgreement ==
  ASSUME Agreement, TypeOK', NEW j \in running, NEW v \in Verdicts(j), Reschedule(j, v)
  PROVE  Agreement'
<1> DEFINE t == j.attempt
           p == t[1]
           s == NextStatus(j, v)
<1>1. Fenced(j)
  BY DEF Reschedule
<1>2. /\ t \in Attempt /\ p \in Payment /\ t[2] \in Hash /\ t = <<p, t[2]>>
      /\ attempt[t] \in AttemptRow
      /\ attempt[t].status = "VERIFYING"
      /\ payment[p].status = "PROCESSING"
      /\ settlement[p] = NoHash
      /\ \A h \in Hash : attempt[<<p, h>>].status \in Active => h = t[2]
  BY <1>1, FencedIsActive
<1>3. s \in {"PENDING_CHAIN", "REJECTED", "CONFIRMING", "NEEDS_REVIEW"}
  BY VerdictType DEF Agreement
<1>4. /\ Verdicted(j, v) = attempt'[t]
      /\ Verdicted(j, v) \in AttemptRow
      /\ attempt' = [attempt EXCEPT ![<<p, t[2]>>] = Verdicted(j, v)]
  BY <1>2 DEF Reschedule, Agreement, TypeOK
<1>5. Verdicted(j, v).status = s
  BY DEF Verdicted
<1>6. \A q \in Payment, g \in Hash :
        attempt'[<<q, g>>] = IF q = p /\ g = t[2] THEN Verdicted(j, v)
                                                  ELSE attempt[<<q, g>>]
  BY <1>2, <1>4, RowWrite DEF Agreement
<1>7. /\ payment'[p].status = PaymentAfter(s)
      /\ \A q \in Payment : q # p => payment'[q] = payment[q]
  <2>1. SetPayment(p, PaymentAfter(s))
    BY <1>2 DEF Reschedule
  <2>2. PaymentAfter(s) \in PaymentStatus
    BY DEF PaymentAfter, PaymentStatus
  <2> QED
    BY <1>2, <2>1, <2>2, PaymentWrite DEF Agreement
<1>8. UNCHANGED <<settlement, allocated>>
  BY DEF Reschedule
<1>9. PaymentAgrees(p)'
  <2>1. s = "REJECTED" <=> s \notin Active
    BY <1>3 DEF Active, Recheckable
  <2>2. payment'[p].status = "PROCESSING" <=> s \in Active
    BY <1>7, <2>1 DEF PaymentAfter
  <2>3. s \in Active <=> \E h \in Hash : attempt'[<<p, h>>].status \in Active
    BY <1>2, <1>5, <1>6
  <2>4. payment'[p].status # "CONFIRMED" /\ settlement'[p] = NoHash
    BY <1>2, <1>7, <1>8 DEF PaymentAfter
  <2>5. \A h \in Hash : attempt'[<<p, h>>].status # "VERIFIED"
    <3>1. \A h \in Hash : attempt[<<p, h>>].status # "VERIFIED"
      BY <1>2, NoHashAssumption DEF Agreement, StatusAgrees, PaymentAgrees
    <3>2. Verdicted(j, v).status # "VERIFIED"
      BY <1>3, <1>5
    <3> HIDE DEF p, t, s
    <3> QED
      BY <1>2, <1>6, <3>1, <3>2
  <2> QED
    BY <2>2, <2>3, <2>4, <2>5, NoHashAssumption DEF PaymentAgrees
<1>10. \A f, g \in Hash :
        attempt'[<<p, f>>].status \in Active /\ attempt'[<<p, g>>].status \in Active => f = g
  BY <1>2, <1>6
<1>11. SettledOnce'
  BY <1>8 DEF Agreement, SettledOnce
<1>12. p \in allocated' <=> payment'[p].status # "CONFIRMED"
  BY <1>2, <1>7, <1>8 DEF Agreement, AllocatedUntilPaid, PaymentAfter
<1> HIDE DEF t, p, s
<1> QED
  BY <1>2, <1>6, <1>7, <1>8, <1>9, <1>10, <1>11, <1>12, LocalStep

\* The only step that settles: the transaction pays no other payment of the chain.
LEMMA SettleWinAgreement ==
  ASSUME Agreement, TypeOK', NEW j \in running, NEW b \in Evidence(j), SettleWin(j, b)
  PROVE  Agreement'
<1> DEFINE t == j.attempt
           p == t[1]
           row == Verified(attempt[t], b)
<1>1. Fenced(j)
  BY DEF SettleWin
<1>2. /\ t \in Attempt /\ p \in Payment /\ t[2] \in Hash /\ t = <<p, t[2]>>
      /\ attempt[t] \in AttemptRow
      /\ attempt[t].status = "VERIFYING"
      /\ payment[p].status = "PROCESSING"
      /\ settlement[p] = NoHash
      /\ \A h \in Hash : attempt[<<p, h>>].status \in Active => h = t[2]
  BY <1>1, FencedIsActive
<1>3. b \in Block \union {NoBlock}
  BY DEF Evidence, Agreement, TypeOK, Job
<1>4. row \in AttemptRow /\ row.status = "VERIFIED"
  <2>1. row \in AttemptRow
    BY <1>2, <1>3, RowTypes
  <2>2. row.status = "VERIFIED"
    BY <1>2 DEF Verified, AttemptRow
  <2> QED
    BY <2>1, <2>2
<1>5. attempt' = [attempt EXCEPT ![<<p, t[2]>>] = row]
  BY <1>2 DEF SettleWin
<1>6. \A q \in Payment, g \in Hash :
        attempt'[<<q, g>>] = IF q = p /\ g = t[2] THEN row ELSE attempt[<<q, g>>]
  BY <1>2, <1>4, <1>5, RowWrite DEF Agreement
<1>7. /\ payment'[p].status = "CONFIRMED"
      /\ \A q \in Payment : q # p => payment'[q] = payment[q]
  BY <1>2, PaymentWrite DEF SettleWin, Agreement, PaymentStatus
<1>8. /\ \A q \in Payment : settlement'[q] = IF q = p THEN t[2] ELSE settlement[q]
      /\ allocated' = allocated \ {p}
  BY <1>2 DEF SettleWin, Release, Agreement, TypeOK
<1>9. PaymentAgrees(p)'
  <2>1. \A h \in Hash : attempt'[<<p, h>>].status \notin Active
    BY <1>2, <1>4, <1>6 DEF Active, Recheckable
  <2>2. \A h \in Hash : attempt'[<<p, h>>].status = "VERIFIED" <=> h = t[2]
    <3>1. \A h \in Hash : attempt[<<p, h>>].status # "VERIFIED"
      BY <1>2, NoHashAssumption DEF Agreement, StatusAgrees, PaymentAgrees
    <3> HIDE DEF p, t, row
    <3> QED
      BY <1>2, <1>4, <1>6, <3>1
  <2> QED
    BY <1>2, <1>7, <1>8, <2>1, <2>2, NoHashAssumption DEF PaymentAgrees
<1>10. \A f, g \in Hash :
        attempt'[<<p, f>>].status \in Active /\ attempt'[<<p, g>>].status \in Active => f = g
  BY <1>2, <1>4, <1>6 DEF Active, Recheckable
<1>11. SettledOnce'
  <2>1. \A q \in Payment : ChainOf[q] = ChainOf[p] => settlement[q] # t[2]
    BY DEF SettleWin, Conflicts
  <2> QED
    BY <1>2, <1>8, <2>1 DEF Agreement, SettledOnce
<1>12. /\ p \in allocated' <=> payment'[p].status # "CONFIRMED"
       /\ \A q \in Payment : q # p => (q \in allocated' <=> q \in allocated)
  BY <1>7, <1>8
<1> HIDE DEF t, p, row
<1> QED
  BY <1>2, <1>6, <1>7, <1>8, <1>9, <1>10, <1>11, <1>12, LocalStep

LEMMA SettleConflictAgreement ==
  ASSUME Agreement, TypeOK', NEW j \in running, SettleConflict(j)
  PROVE  Agreement'
<1> DEFINE t == j.attempt
           row == Conflicted(attempt[t])
<1>1. Fenced(j)
  BY DEF SettleConflict
<1>2. /\ t \in Attempt /\ t[1] \in Payment /\ t[2] \in Hash /\ t = <<t[1], t[2]>>
      /\ attempt[t] \in AttemptRow
      /\ attempt[t].status = "VERIFYING"
  BY <1>1, FencedIsActive
<1>3. row \in AttemptRow /\ row.status = "NEEDS_REVIEW"
  BY <1>2, RowTypes DEF Conflicted, AttemptRow
<1>4. attempt' = [attempt EXCEPT ![<<t[1], t[2]>>] = row]
  BY <1>2 DEF SettleConflict
<1>5. \A q \in Payment, g \in Hash :
        attempt'[<<q, g>>] = IF q = t[1] /\ g = t[2] THEN row ELSE attempt[<<q, g>>]
  BY <1>2, <1>3, <1>4, RowWrite DEF Agreement
<1>6. \A q \in Payment : payment'[q].status = payment[q].status
  <2>1. payment[t[1]].status \in PaymentStatus /\ SetPayment(t[1], payment[t[1]].status)
    BY <1>2 DEF Agreement, TypeOK, PaymentRow, SettleConflict
  <2> QED
    BY <1>2, <2>1, PaymentWrite DEF Agreement
<1>7. UNCHANGED <<settlement, allocated>>
  BY DEF SettleConflict
<1>8. \A q \in Payment, g \in Hash :
        /\ attempt'[<<q, g>>].status \in Active <=> attempt[<<q, g>>].status \in Active
        /\ attempt'[<<q, g>>].status = "VERIFIED" <=> attempt[<<q, g>>].status = "VERIFIED"
  BY <1>2, <1>3, <1>5 DEF Active, Recheckable
<1> QED
  BY <1>6, <1>7, <1>8, QuietStep

LEMMA AgreementStep == Agreement /\ [Next]_vars => Agreement'
<1> SUFFICES ASSUME Agreement, [Next]_vars PROVE Agreement'
  OBVIOUS
<1>1. TypeOK'
  BY TypeStep DEF Agreement
<1>2. ASSUME NEW j \in running, Discard(j) \/ Crash(j) PROVE Agreement'
  BY <1>1, <1>2, QuietStep DEF Discard, Crash
<1>3. CASE UNCHANGED vars
  BY <1>1, <1>3, QuietStep DEF vars
<1> QED
  BY <1>1, <1>2, <1>3, SubmitAgreement, RetryAgreement, ClaimAgreement, ClockAgreement,
     RescheduleAgreement, SettleWinAgreement, SettleConflictAgreement DEF Next, Record

LEMMA AgreementAlways == Spec => []Agreement
BY AgreementInit, AgreementStep, PTL DEF Spec

\* Whatever workers, submissions, retries and crashes interleave, a payment's
\* status, its attempts and its settlement tell the same story.
THEOREM RowsAgreeAlways == Spec => []RowsAgree
<1>1. Agreement => RowsAgree
  BY DEF Agreement, RowsAgree
<1> QED
  BY <1>1, AgreementAlways, PTL

\* A transaction of a chain settles at most one payment, in every behaviour.
THEOREM SettledOnceAlways == Spec => []SettledOnce
<1>1. Agreement => SettledOnce
  BY DEF Agreement
<1> QED
  BY <1>1, AgreementAlways, PTL

\* The allocation claim of a payment is held exactly until it is confirmed.
THEOREM AllocatedUntilPaidAlways == Spec => []AllocatedUntilPaid
<1>1. Agreement => AllocatedUntilPaid
  BY DEF Agreement
<1> QED
  BY <1>1, AgreementAlways, PTL

-----------------------------------------------------------------------------
(* The refinement mapping of Verification!Ledger. *)

Pending == {t \in Attempt : attempt[t].status \in Active}
Refused == {t \in Attempt : attempt[t].status = "REJECTED"}

\* A step after which every attempt is as active and as rejected as before, and no
\* payment more settled, is a stutter of the ledger.
LEMMA LedgerStutter ==
  ASSUME \A t \in Attempt :
           /\ attempt'[t].status \in Active <=> attempt[t].status \in Active
           /\ attempt'[t].status = "REJECTED" <=> attempt[t].status = "REJECTED",
         settlement' = settlement
  PROVE  UNCHANGED Ledger!vars
BY DEF Ledger!vars

\* How a write of one attempt's row reads in the ledger.
LEMMA LedgerWrite ==
  ASSUME TypeOK, NEW t \in Attempt, NEW row \in AttemptRow,
         attempt' = [attempt EXCEPT ![t] = row]
  PROVE  /\ row.status \in Active => Pending' = Pending \union {t}
         /\ row.status \notin Active => Pending' = Pending \ {t}
         /\ row.status = "REJECTED" => Refused' = Refused \union {t}
         /\ row.status # "REJECTED" => Refused' = Refused \ {t}
<1>1. \A u \in Attempt : attempt'[u] = IF u = t THEN row ELSE attempt[u]
  BY DEF TypeOK
<1> QED
  BY <1>1 DEF Pending, Refused

LEMMA SubmitRefines ==
  ASSUME Agreement, NEW p \in Payment, NEW h \in Hash, Submit(p, h)
  PROVE  Ledger!Next
<1> DEFINE t == <<p, h>>
<1>1. t \in Attempt /\ NewAttempt \in AttemptRow /\ NewAttempt.status = "SUBMITTED"
  BY DEF NewAttempt, NoAttempt, AttemptRow, AttemptStatus
<1>2. /\ Pending' = Pending \union {t}
      /\ Refused' = Refused \ {t}
  <2>1. PICK row : row = NewAttempt
    OBVIOUS
  <2>2. TypeOK /\ attempt' = [attempt EXCEPT ![t] = row]
    BY <2>1 DEF Submit, Agreement
  <2>3. row \in AttemptRow /\ row.status \in Active /\ row.status # "REJECTED"
    BY <1>1, <2>1 DEF Active, Recheckable
  <2> QED
    BY <1>1, <2>2, <2>3, LedgerWrite
<1>3. /\ attempt[t].status = "NONE"
      /\ t \notin Refused
      /\ \A g \in Hash : <<p, g>> \notin Pending
      /\ settlement' = settlement
  BY <1>1 DEF Submit, SlotFree, Pending, Refused
<1>4. settlement[p] = NoHash
  BY DEF Submit, Agreement, StatusAgrees, PaymentAgrees
<1>5. Refused' = Refused
  BY <1>2, <1>3
<1>6. Ledger!Propose(p, h)
  BY <1>2, <1>3, <1>4, <1>5 DEF Ledger!Propose, Pending, Refused
<1> QED
  BY <1>6 DEF Ledger!Next

LEMMA RetryRefines ==
  ASSUME Agreement, NEW t \in Attempt, Retry(t)
  PROVE  UNCHANGED Ledger!vars
<1>1. attempt[t] \in AttemptRow /\ attempt[t].status = "NEEDS_REVIEW"
  BY DEF Retry, Resumable, Agreement, TypeOK
<1>2. Resumed(attempt[t]).status = "SUBMITTED"
  BY <1>1 DEF Resumed, AttemptRow
<1>3. \A u \in Attempt :
        attempt'[u].status = IF u = t THEN "SUBMITTED" ELSE attempt[u].status
  BY <1>2 DEF Retry, Agreement, TypeOK
<1> QED
  BY <1>1, <1>3, LedgerStutter DEF Retry, Active, Recheckable

LEMMA ClaimRefines ==
  ASSUME Agreement, NEW t \in Attempt, Claim(t)
  PROVE  UNCHANGED Ledger!vars
<1>1. attempt[t] \in AttemptRow /\ attempt[t].status \in Recheckable
  BY DEF Claim, Due, Agreement, TypeOK
<1>2. Claimed(attempt[t]).status = "VERIFYING"
  BY <1>1 DEF Claimed, AttemptRow
<1>3. \A u \in Attempt :
        attempt'[u].status = IF u = t THEN "VERIFYING" ELSE attempt[u].status
  BY <1>2 DEF Claim, Agreement, TypeOK
<1> QED
  BY <1>1, <1>3, LedgerStutter DEF Claim, Active, Recheckable

LEMMA ClockRefines ==
  ASSUME Agreement, NEW t \in Attempt, ExpireLease(t) \/ NextCheckDue(t)
  PROVE  UNCHANGED Ledger!vars
<1>1. \A u \in Attempt : attempt'[u].status = attempt[u].status
  BY DEF ExpireLease, NextCheckDue, Agreement, TypeOK, AttemptRow
<1> QED
  BY <1>1, LedgerStutter DEF ExpireLease, NextCheckDue

\* A rejection refuses the claim; the other verdicts leave it under examination.
LEMMA RescheduleRefines ==
  ASSUME Agreement, NEW j \in running, NEW v \in Verdicts(j), Reschedule(j, v)
  PROVE  Ledger!Next \/ UNCHANGED Ledger!vars
<1> DEFINE t == j.attempt
<1>1. /\ t \in Attempt /\ t[1] \in Payment /\ t[2] \in Hash /\ t = <<t[1], t[2]>>
      /\ attempt[t].status = "VERIFYING"
  BY FencedIsActive DEF Reschedule
<1>2. /\ NextStatus(j, v) \in {"PENDING_CHAIN", "REJECTED", "CONFIRMING", "NEEDS_REVIEW"}
      /\ Verdicted(j, v).status = NextStatus(j, v)
  BY VerdictType DEF Agreement, Verdicted
<1>3. \A u \in Attempt :
        attempt'[u].status = IF u = t THEN NextStatus(j, v) ELSE attempt[u].status
  BY <1>1, <1>2 DEF Reschedule, Agreement, TypeOK
<1>4. settlement' = settlement
  BY DEF Reschedule
<1> HIDE DEF t
<1>5. CASE NextStatus(j, v) = "REJECTED"
  <2>1. /\ t \in Pending
        /\ Pending' = Pending \ {t}
        /\ Refused' = Refused \union {t}
    BY <1>1, <1>3, <1>5 DEF Pending, Refused, Active, Recheckable
  <2>2. Ledger!Refuse(t[1], t[2])
    BY <1>1, <1>4, <2>1 DEF Ledger!Refuse, Pending, Refused
  <2> QED
    BY <1>1, <2>2 DEF Ledger!Next
<1>6. CASE NextStatus(j, v) # "REJECTED"
  BY <1>1, <1>2, <1>3, <1>4, <1>6, LedgerStutter DEF Active, Recheckable
<1> QED
  BY <1>5, <1>6

LEMMA SettleWinRefines ==
  ASSUME Agreement, NEW j \in running, NEW b \in Evidence(j), SettleWin(j, b)
  PROVE  Ledger!Next
<1> DEFINE t == j.attempt
<1>1. /\ t \in Attempt /\ t[1] \in Payment /\ t[2] \in Hash /\ t = <<t[1], t[2]>>
      /\ attempt[t] \in AttemptRow
      /\ attempt[t].status = "VERIFYING"
      /\ settlement[t[1]] = NoHash
  BY FencedIsActive DEF SettleWin
<1>2. Verified(attempt[t], b).status = "VERIFIED"
  BY <1>1 DEF Verified, AttemptRow
<1>3. \A u \in Attempt :
        attempt'[u].status = IF u = t THEN "VERIFIED" ELSE attempt[u].status
  BY <1>1, <1>2 DEF SettleWin, Agreement, TypeOK
<1>4. /\ settlement' = [settlement EXCEPT ![t[1]] = t[2]]
      /\ \A q \in Payment : ChainOf[q] = ChainOf[t[1]] => settlement[q] # t[2]
  BY DEF SettleWin, Conflicts
<1> HIDE DEF t
<1>5. /\ t \in Pending
      /\ Pending' = Pending \ {t}
      /\ Refused' = Refused
  BY <1>1, <1>3 DEF Pending, Refused, Active, Recheckable
<1>6. Ledger!Pay(t[1], t[2])
  BY <1>1, <1>4, <1>5 DEF Ledger!Pay, Pending, Refused
<1> QED
  BY <1>1, <1>6 DEF Ledger!Next

LEMMA SettleConflictRefines ==
  ASSUME Agreement, NEW j \in running, SettleConflict(j)
  PROVE  UNCHANGED Ledger!vars
<1> DEFINE t == j.attempt
<1>1. /\ t \in Attempt /\ attempt[t] \in AttemptRow
      /\ attempt[t].status = "VERIFYING"
  BY FencedIsActive DEF SettleConflict
<1>2. Conflicted(attempt[t]).status = "NEEDS_REVIEW"
  BY <1>1 DEF Conflicted, AttemptRow
<1>3. \A u \in Attempt :
        attempt'[u].status = IF u = t THEN "NEEDS_REVIEW" ELSE attempt[u].status
  BY <1>1, <1>2 DEF SettleConflict, Agreement, TypeOK
<1> QED
  BY <1>1, <1>3, LedgerStutter DEF SettleConflict, Active, Recheckable

LEMMA LedgerInit == Init => Ledger!Init
BY DEF Init, Ledger!Init, NoAttempt, Active, Recheckable

LEMMA LedgerStep == Agreement /\ [Next]_vars => [Ledger!Next]_(Ledger!vars)
<1> SUFFICES ASSUME Agreement, [Next]_vars PROVE Ledger!Next \/ UNCHANGED Ledger!vars
  OBVIOUS
<1>1. ASSUME NEW j \in running, Discard(j) \/ Crash(j) PROVE UNCHANGED Ledger!vars
  BY <1>1, LedgerStutter DEF Discard, Crash
<1>2. CASE UNCHANGED vars
  BY <1>2, LedgerStutter DEF vars
<1> QED
  BY <1>1, <1>2, SubmitRefines, RetryRefines, ClaimRefines, ClockRefines,
     RescheduleRefines, SettleWinRefines, SettleConflictRefines DEF Next, Record

\* Submissions, verdicts and settlements, with all the retries, crashes and late
\* workers in between, are claims proposed, refused and paid, in that order.
THEOREM Refinement == Spec => ImplementsLedger
<1>1. Init => Ledger!Init
  BY LedgerInit
<1>2. Agreement /\ [Next]_vars => [Ledger!Next]_(Ledger!vars)
  BY LedgerStep
<1> QED
  BY <1>1, <1>2, AgreementAlways, PTL DEF Spec, ImplementsLedger, Ledger!Spec

-----------------------------------------------------------------------------
(* The events of a payment. *)

\* FeedExact, of one payment.
FeedOf(p) ==
  /\ {u.version : u \in {w \in updates : w.payment = p}} = 0..payment[p].version
  /\ \A u, w \in updates :
       u.payment = p /\ w.payment = p /\ u.version = w.version => u = w
  /\ [payment |-> p, status |-> payment[p].status,
      version |-> payment[p].version] \in updates
  /\ \A u \in updates :
       u.payment = p /\ u.status = "CONFIRMED" => u.version = payment[p].version

\* As long as a payment is not confirmed, none of its events says so.
LEMMA UnconfirmedFeed ==
  ASSUME NEW p \in Payment, FeedOf(p), payment[p].status # "CONFIRMED",
         NEW u \in updates, u.payment = p
  PROVE  u.status # "CONFIRMED"
<1>1. PICK now \in updates :
        now = [payment |-> p, status |-> payment[p].status, version |-> payment[p].version]
  BY DEF FeedOf
<1>2. now.payment = p /\ now.status # "CONFIRMED" /\ now.version = payment[p].version
  BY <1>1
<1> QED
  BY <1>2 DEF FeedOf

\* The one write of payments extends the feed of its payment and no other.
LEMMA SetPaymentFeed ==
  ASSUME TypeOK, FeedExact, NEW p \in Payment, NEW s \in PaymentStatus,
         payment[p].status # "CONFIRMED", SetPayment(p, s)
  PROVE  FeedExact'
<1>1. \A q \in Payment : FeedOf(q)
  BY DEF FeedExact, FeedOf
<1>2. PICK new : new = [payment |-> p, status |-> s, version |-> payment[p].version + 1]
  OBVIOUS
<1>3. /\ new.payment = p /\ new.status = s /\ new.version = payment[p].version + 1
      /\ updates' = updates \union {new}
      /\ payment[p].version \in Nat
  BY <1>2 DEF SetPayment, TypeOK, PaymentRow
<1>4. /\ payment'[p] = [status |-> s, version |-> payment[p].version + 1]
      /\ \A q \in Payment : q # p => payment'[q] = payment[q]
  BY DEF SetPayment, TypeOK
<1>5. ASSUME NEW q \in Payment, q # p PROVE FeedOf(q)'
  <2>1. \A u : u \in updates' /\ u.payment = q <=> u \in updates /\ u.payment = q
    BY <1>3, <1>5
  <2>2. {u.version : u \in {w \in updates' : w.payment = q}}
          = {u.version : u \in {w \in updates : w.payment = q}}
    BY <2>1
  <2> QED
    BY <1>1, <1>3, <1>4, <1>5, <2>1, <2>2 DEF FeedOf
<1>6. FeedOf(p)'
  <2>1. /\ payment'[p].version = payment[p].version + 1
        /\ payment'[p].status = s
    BY <1>4
  <2>2. {u.version : u \in {w \in updates' : w.payment = p}} = 0..payment'[p].version
    <3>1. {u.version : u \in {w \in updates' : w.payment = p}}
            = {u.version : u \in {w \in updates : w.payment = p}} \union {new.version}
      BY <1>3
    <3>2. {u.version : u \in {w \in updates : w.payment = p}} = 0..payment[p].version
      BY <1>1 DEF FeedOf
    <3>3. 0..(payment[p].version + 1) = 0..payment[p].version \union {payment[p].version + 1}
      BY <1>3
    <3> QED
      BY <1>3, <2>1, <3>1, <3>2, <3>3
  <2>3. \A u \in updates : u.payment = p => u.version \in 0..payment[p].version
    BY <1>1 DEF FeedOf
  <2>4. \A u, w \in updates' :
          u.payment = p /\ w.payment = p /\ u.version = w.version => u = w
    <3>1. \A u \in updates : u.payment = p => u.version # new.version
      BY <1>3, <2>3
    <3>2. \A u, w \in updates :
            u.payment = p /\ w.payment = p /\ u.version = w.version => u = w
      BY <1>1 DEF FeedOf
    <3> QED
      BY <1>3, <3>1, <3>2
  <2>5. [payment |-> p, status |-> payment'[p].status, version |-> payment'[p].version] \in updates'
    BY <1>2, <1>3, <2>1
  <2>6. \A u \in updates' :
          u.payment = p /\ u.status = "CONFIRMED" => u.version = payment'[p].version
    BY <1>1, <1>3, <2>1, UnconfirmedFeed
  <2> QED
    BY <2>2, <2>4, <2>5, <2>6 DEF FeedOf
<1> QED
  BY <1>5, <1>6 DEF FeedExact, FeedOf

LEMMA FeedInit == Init => FeedExact
<1> SUFFICES ASSUME Init, NEW p \in Payment PROVE FeedOf(p)
  BY DEF FeedExact, FeedOf
<1>1. PICK first : first = [payment |-> p, status |-> "AWAITING_PAYMENT", version |-> 0]
  OBVIOUS
<1>2. \A u : u \in updates /\ u.payment = p <=> u = first
  BY <1>1 DEF Init
<1>3. first.version = 0 /\ first.status = "AWAITING_PAYMENT" /\ first.payment = p
  BY <1>1
<1>4. payment[p].version = 0 /\ payment[p].status = "AWAITING_PAYMENT"
  BY DEF Init
<1>5. {u.version : u \in {w \in updates : w.payment = p}} = {0}
  BY <1>2, <1>3
<1>6. 0..0 = {0}
  OBVIOUS
<1> QED
  BY <1>1, <1>2, <1>3, <1>4, <1>5, <1>6 DEF FeedOf

LEMMA FeedStep == Agreement /\ FeedExact /\ [Next]_vars => FeedExact'
<1> SUFFICES ASSUME Agreement, FeedExact, [Next]_vars PROVE FeedExact'
  OBVIOUS
<1>0. TypeOK
  BY DEF Agreement
<1>1. ASSUME UNCHANGED <<payment, updates>> PROVE FeedExact'
  BY <1>1 DEF FeedExact
<1>2. ASSUME NEW p \in Payment, NEW h \in Hash, Submit(p, h) PROVE FeedExact'
  BY <1>0, <1>2, SetPaymentFeed DEF Submit, PaymentStatus
<1>3. ASSUME NEW t \in Attempt, Retry(t) PROVE FeedExact'
  <2>1. payment[t[1]].status = "PROCESSING"
    BY <1>3, AttemptPair DEF Retry, Resumable, Agreement, StatusAgrees, PaymentAgrees, Active
  <2>2. SetPayment(t[1], "PROCESSING")
    BY <1>3, <2>1 DEF Retry
  <2> QED
    BY <1>0, <2>1, <2>2, AttemptPair, SetPaymentFeed DEF PaymentStatus
<1>4. ASSUME NEW j \in running, NEW v \in Verdicts(j), Reschedule(j, v) PROVE FeedExact'
  <2>1. j.attempt[1] \in Payment /\ payment[j.attempt[1]].status = "PROCESSING"
    BY <1>4, FencedIsActive DEF Reschedule
  <2>2. PaymentAfter(NextStatus(j, v)) \in PaymentStatus
    BY DEF PaymentAfter, PaymentStatus
  <2>3. SetPayment(j.attempt[1], PaymentAfter(NextStatus(j, v)))
    BY <1>4, <2>1 DEF Reschedule
  <2> QED
    BY <1>0, <2>1, <2>2, <2>3, SetPaymentFeed
<1>5. ASSUME NEW j \in running, NEW b \in Evidence(j), SettleWin(j, b) PROVE FeedExact'
  <2>1. j.attempt[1] \in Payment /\ payment[j.attempt[1]].status = "PROCESSING"
    BY <1>5, FencedIsActive DEF SettleWin
  <2>2. SetPayment(j.attempt[1], "CONFIRMED")
    BY <1>5 DEF SettleWin
  <2> QED
    BY <1>0, <2>1, <2>2, SetPaymentFeed DEF PaymentStatus
<1>6. ASSUME NEW j \in running, SettleConflict(j) PROVE FeedExact'
  <2>1. j.attempt[1] \in Payment /\ payment[j.attempt[1]].status = "PROCESSING"
    BY <1>6, FencedIsActive DEF SettleConflict
  <2>2. SetPayment(j.attempt[1], "PROCESSING")
    BY <1>6, <2>1 DEF SettleConflict
  <2> QED
    BY <1>0, <2>1, <2>2, SetPaymentFeed DEF PaymentStatus
<1> QED
  BY <1>1, <1>2, <1>3, <1>4, <1>5, <1>6 DEF Next, Record, Claim, ExpireLease,
     NextCheckDue, Discard, Crash, vars

\* One event per version of a payment, from creation to now, the newest with its
\* current status and CONFIRMED only as the last, in every behaviour.
THEOREM FeedExactAlways == Spec => []FeedExact
<1>1. Agreement /\ FeedExact /\ [Next]_vars => FeedExact'
  BY FeedStep
<1> QED
  BY <1>1, FeedInit, AgreementAlways, PTL DEF Spec
=============================================================================
