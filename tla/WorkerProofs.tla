----------------------------- MODULE WorkerProofs -----------------------------
(* What the workers of Verification remember and what becomes of attempts,  *)
(* for every set of payments, hashes and blocks: however many jobs hold an  *)
(* attempt, one can write it, and what it knows of the row is true;         *)
(* outcomes are final, a review has a reason, versions count writes, and    *)
(* what waits for a worker has a row that wakes one.  Then Delivery, for    *)
(* any number of dispatchers, rows and faults: it implements Verification,  *)
(* and nothing is acknowledged unsent.                                      *)
EXTENDS Delivery, VerificationProofs

-----------------------------------------------------------------------------
\* What is always true of a job and its row: versions tell the claims of an
\* attempt apart, and the row has not changed since the claim as long as it has the
\* version the claim gave it.  OneWriter speaks only of jobs that pass the fence;
\* a job that does not, because its lease ran out, is as right about the row.
JobKnows(j) ==
  LET own == attempt[j.attempt] IN
  /\ own.status # "NONE"
  /\ j.version <= own.version
  /\ j.version = own.version => j.retries = own.retries /\ j.block = own.block

JobsKnow ==
  /\ \A i, j \in running : i.attempt = j.attempt /\ i.version = j.version => i = j
  /\ \A j \in running : JobKnows(j)

LEMMA JobsKnowOneWriter == JobsKnow => OneWriter
BY DEF JobsKnow, JobKnows, OneWriter, Fenced

\* A write of an attempt's row that raises its version makes the jobs that hold it stale.
LEMMA RaisedVersion ==
  ASSUME TypeOK, JobsKnow, NEW t \in Attempt, NEW own,
         attempt' = [attempt EXCEPT ![t] = own],
         own.status # "NONE", own.version \in Nat, own.version > attempt[t].version,
         running' \subseteq running
  PROVE  JobsKnow'
<1>1. \A i, j \in running' : i.attempt = j.attempt /\ i.version = j.version => i = j
  BY DEF JobsKnow
<1>2. ASSUME NEW j \in running' PROVE JobKnows(j)'
  <2>1. j \in running /\ JobKnows(j)
    BY DEF JobsKnow
  <2>2. j.attempt \in Attempt /\ j.version \in Nat
    BY <2>1 DEF TypeOK, Job
  <2>3. CASE j.attempt = t
    <3>1. attempt'[t] = own /\ attempt[t].version \in Nat
      BY DEF TypeOK, AttemptRow
    <3>2. j.version <= attempt[t].version
      BY <2>1, <2>3 DEF JobKnows
    <3> QED
      BY <2>2, <2>3, <3>1, <3>2 DEF JobKnows
  <2>4. CASE j.attempt # t
    <3>1. attempt'[j.attempt] = attempt[j.attempt]
      BY <2>2, <2>4 DEF TypeOK
    <3> QED
      BY <2>1, <3>1 DEF JobKnows
  <2> QED
    BY <2>3, <2>4
<1> QED
  BY <1>1, <1>2 DEF JobsKnow

\* A step that touches no more of the rows than their clocks.
LEMMA SameColumns ==
  ASSUME JobsKnow,
         \A j \in running' :
           /\ j \in running
           /\ attempt'[j.attempt].status = attempt[j.attempt].status
           /\ attempt'[j.attempt].version = attempt[j.attempt].version
           /\ attempt'[j.attempt].retries = attempt[j.attempt].retries
           /\ attempt'[j.attempt].block = attempt[j.attempt].block
  PROVE  JobsKnow'
BY DEF JobsKnow, JobKnows

LEMMA JobsKnowInit == Init => JobsKnow
BY DEF Init, JobsKnow

LEMMA JobsKnowStep == TypeOK /\ JobsKnow /\ [Next]_vars => JobsKnow'
<1> SUFFICES ASSUME TypeOK, JobsKnow, [Next]_vars PROVE JobsKnow'
  OBVIOUS
<1>1. ASSUME NEW p \in Payment, NEW h \in Hash, Submit(p, h) PROVE JobsKnow'
  <2>1. \A j \in running : j.attempt \in Attempt /\ j.attempt # <<p, h>>
    BY <1>1 DEF Submit, JobsKnow, JobKnows, TypeOK, Job
  <2>2. \A j \in running : attempt'[j.attempt] = attempt[j.attempt]
    BY <1>1, <2>1 DEF Submit, TypeOK
  <2>3. running' = running
    BY <1>1 DEF Submit
  <2> QED
    BY <2>2, <2>3, SameColumns
<1>2. ASSUME NEW t \in Attempt, Retry(t) PROVE JobsKnow'
  <2>1. attempt[t] \in AttemptRow
    BY DEF TypeOK
  <2>2. PICK own : own = Resumed(attempt[t])
    OBVIOUS
  <2>3. own.status # "NONE" /\ own.version \in Nat /\ own.version > attempt[t].version
    BY <2>1, <2>2 DEF Resumed, AttemptRow
  <2>4. attempt' = [attempt EXCEPT ![t] = own] /\ running' \subseteq running
    BY <1>2, <2>2 DEF Retry
  <2> QED
    BY <2>3, <2>4, RaisedVersion
<1>3. ASSUME NEW t \in Attempt, Claim(t) PROVE JobsKnow'
  <2>0. PICK k : k = [attempt |-> t, version |-> attempt[t].version + 1,
                      retries |-> attempt[t].retries, block |-> attempt[t].block]
    OBVIOUS
  <2>1. attempt[t] \in AttemptRow /\ attempt[t].version \in Nat
    BY DEF TypeOK, AttemptRow
  <2>2. running' = running \union {k} /\ attempt' = [attempt EXCEPT ![t] = Claimed(attempt[t])]
    BY <1>3, <2>0 DEF Claim
  <2>3. /\ attempt'[t] = Claimed(attempt[t])
        /\ Claimed(attempt[t]).status = "VERIFYING"
        /\ Claimed(attempt[t]).version = attempt[t].version + 1
        /\ Claimed(attempt[t]).retries = attempt[t].retries
        /\ Claimed(attempt[t]).block = attempt[t].block
    BY <2>1, <2>2 DEF TypeOK, Claimed, AttemptRow
  <2>4. JobKnows(k)'
    BY <2>0, <2>1, <2>3 DEF JobKnows
  <2>5. \A j \in running : j.attempt \in Attempt /\ j.version \in Nat
    BY DEF TypeOK, Job
  <2>6. ASSUME NEW j \in running PROVE JobKnows(j)' /\ (j.attempt = t => j.version # k.version)
    <3>1. JobKnows(j)
      BY DEF JobsKnow
    <3>2. CASE j.attempt = t
      BY <2>0, <2>1, <2>3, <2>5, <3>1, <3>2 DEF JobKnows
    <3>3. CASE j.attempt # t
      <4>1. attempt'[j.attempt] = attempt[j.attempt]
        BY <2>2, <2>5, <3>3 DEF TypeOK
      <4> QED
        BY <3>1, <3>3, <4>1 DEF JobKnows
    <3> QED
      BY <3>2, <3>3
  <2>7. ASSUME NEW i \in running', NEW j \in running',
               i.attempt = j.attempt, i.version = j.version
        PROVE  i = j
    <3>1. k.attempt = t
      BY <2>0
    <3>2. CASE i \in running /\ j \in running
      BY <2>7, <3>2 DEF JobsKnow
    <3>3. CASE i = k \/ j = k
      BY <2>2, <2>6, <2>7, <3>1, <3>3
    <3> QED
      BY <2>2, <3>2, <3>3
  <2>8. \A j \in running' : JobKnows(j)'
    BY <2>2, <2>4, <2>6
  <2> QED
    BY <2>7, <2>8 DEF JobsKnow
<1>4. ASSUME NEW t \in Attempt, ExpireLease(t) \/ NextCheckDue(t) PROVE JobsKnow'
  <2>1. running' = running
    BY <1>4 DEF ExpireLease, NextCheckDue
  <2>2. ASSUME NEW u \in Attempt
        PROVE  /\ attempt'[u].status = attempt[u].status
               /\ attempt'[u].version = attempt[u].version
               /\ attempt'[u].retries = attempt[u].retries
               /\ attempt'[u].block = attempt[u].block
    BY <1>4 DEF ExpireLease, NextCheckDue, TypeOK, AttemptRow
  <2>3. \A j \in running : j.attempt \in Attempt
    BY DEF TypeOK, Job
  <2> QED
    BY <2>1, <2>2, <2>3, SameColumns
<1>5. ASSUME NEW j \in running, NEW v \in Verdicts(j), Reschedule(j, v) PROVE JobsKnow'
  <2>1. j.attempt \in Attempt /\ j.version \in Nat /\ attempt[j.attempt].version = j.version
    BY <1>5 DEF TypeOK, Job, Reschedule, Fenced
  <2>2. PICK own : own = Verdicted(j, v)
    OBVIOUS
  <2>3. /\ own.status # "NONE" /\ own.version \in Nat
        /\ own.version > attempt[j.attempt].version
    BY <2>1, <2>2, VerdictType DEF Verdicted
  <2>4. attempt' = [attempt EXCEPT ![j.attempt] = own] /\ running' \subseteq running
    BY <1>5, <2>2 DEF Reschedule
  <2> QED
    BY <2>1, <2>3, <2>4, RaisedVersion
<1>6. ASSUME NEW j \in running, NEW b \in Evidence(j), SettleWin(j, b) PROVE JobsKnow'
  <2>1. j.attempt \in Attempt /\ attempt[j.attempt] \in AttemptRow
    BY DEF TypeOK, Job
  <2>2. PICK own : own = Verified(attempt[j.attempt], b)
    OBVIOUS
  <2>3. /\ own.status # "NONE" /\ own.version \in Nat
        /\ own.version > attempt[j.attempt].version
    BY <2>1, <2>2 DEF Verified, AttemptRow
  <2>4. attempt' = [attempt EXCEPT ![j.attempt] = own] /\ running' \subseteq running
    BY <1>6, <2>2 DEF SettleWin
  <2> QED
    BY <2>1, <2>3, <2>4, RaisedVersion
<1>7. ASSUME NEW j \in running, SettleConflict(j) PROVE JobsKnow'
  <2>1. j.attempt \in Attempt /\ attempt[j.attempt] \in AttemptRow
    BY DEF TypeOK, Job
  <2>2. PICK own : own = Conflicted(attempt[j.attempt])
    OBVIOUS
  <2>3. /\ own.status # "NONE" /\ own.version \in Nat
        /\ own.version > attempt[j.attempt].version
    BY <2>1, <2>2 DEF Conflicted, AttemptRow
  <2>4. attempt' = [attempt EXCEPT ![j.attempt] = own] /\ running' \subseteq running
    BY <1>7, <2>2 DEF SettleConflict
  <2> QED
    BY <2>1, <2>3, <2>4, RaisedVersion
<1>8. ASSUME NEW j \in running, Discard(j) \/ Crash(j) PROVE JobsKnow'
  BY <1>8, SameColumns DEF Discard, Crash
<1>9. CASE UNCHANGED vars
  BY <1>9, SameColumns DEF vars
<1> QED
  BY <1>1, <1>2, <1>3, <1>4, <1>5, <1>6, <1>7, <1>8, <1>9 DEF Next, Record

LEMMA JobsKnowAlways == Spec => [](TypeOK /\ JobsKnow)
<1>1. Init => TypeOK /\ JobsKnow
  BY TypeInit, JobsKnowInit
<1>2. TypeOK /\ JobsKnow /\ [Next]_vars => (TypeOK /\ JobsKnow)'
  BY TypeStep, JobsKnowStep
<1> QED
  BY <1>1, <1>2, PTL DEF Spec

\* However many workers hold an outcome for an attempt, at most one can write it,
\* and the retry count and block it computed it from are those of the row.
THEOREM OneWriterAlways == Spec => []OneWriter
BY JobsKnowAlways, JobsKnowOneWriter, PTL

-----------------------------------------------------------------------------
\* The evidence a job may record agrees with the block of the row it may write.
LEMMA EvidenceOfRow ==
  ASSUME TypeOK, JobsKnow, NEW j \in running, Fenced(j),
         attempt[j.attempt].block # NoBlock
  PROVE  Evidence(j) = {attempt[j.attempt].block}
BY DEF JobsKnow, JobKnows, Fenced, Evidence

LEMMA InclusionStep ==
  ASSUME TypeOK, JobsKnow, [Next]_vars, NEW t \in Attempt, attempt[t].block # NoBlock
  PROVE  attempt'[t].block \in {attempt[t].block, NoBlock}
<1> USE DEF TypeOK
<1>0. attempt[t] \in AttemptRow
  OBVIOUS
<1>1. ASSUME NEW p \in Payment, NEW h \in Hash, Submit(p, h)
      PROVE  attempt'[t].block \in {attempt[t].block, NoBlock}
  BY <1>1 DEF Submit, NewAttempt, NoAttempt
<1>2. ASSUME NEW u \in Attempt, Retry(u) \/ Claim(u) \/ ExpireLease(u) \/ NextCheckDue(u)
      PROVE  attempt'[t].block = attempt[t].block
  <2>1. attempt[u] \in AttemptRow
    OBVIOUS
  <2>2. /\ Resumed(attempt[u]).block = attempt[u].block
        /\ Claimed(attempt[u]).block = attempt[u].block
        /\ [attempt[u] EXCEPT !.lease = "expired"].block = attempt[u].block
        /\ [attempt[u] EXCEPT !.check = "due"].block = attempt[u].block
    BY <2>1 DEF Resumed, Claimed, AttemptRow
  <2>3. PICK own : /\ attempt' = [attempt EXCEPT ![u] = own]
                   /\ own.block = attempt[u].block
    <3>1. CASE Retry(u)
      BY <3>1, <2>2 DEF Retry
    <3>2. CASE Claim(u)
      BY <3>2, <2>2 DEF Claim
    <3>3. CASE ExpireLease(u)
      <4>1. attempt' = [attempt EXCEPT ![u] = [attempt[u] EXCEPT !.lease = "expired"]]
        BY <3>3 DEF ExpireLease
      <4> QED
        BY <4>1, <2>2
    <3>4. CASE NextCheckDue(u)
      <4>1. attempt' = [attempt EXCEPT ![u] = [attempt[u] EXCEPT !.check = "due"]]
        BY <3>4 DEF NextCheckDue
      <4> QED
        BY <4>1, <2>2
    <3> QED
      BY <1>2, <3>1, <3>2, <3>3, <3>4
  <2> QED
    BY <2>3
<1>3. ASSUME NEW j \in running, NEW v \in Verdicts(j), Reschedule(j, v)
      PROVE  attempt'[t].block \in {attempt[t].block, NoBlock}
  <2>1. j.attempt = t => v.block \in {attempt[t].block, NoBlock}
    BY <1>3, EvidenceOfRow DEF Reschedule, Verdicts
  <2>2. attempt'[t].block = IF j.attempt = t THEN v.block ELSE attempt[t].block
    BY <1>3 DEF Reschedule, Verdicted
  <2> QED
    BY <2>1, <2>2
<1>4. ASSUME NEW j \in running, NEW b \in Evidence(j), SettleWin(j, b)
      PROVE  attempt'[t].block \in {attempt[t].block, NoBlock}
  <2>1. j.attempt = t => b = attempt[t].block
    BY <1>4, EvidenceOfRow DEF SettleWin
  <2>2. attempt'[t].block = IF j.attempt = t THEN b ELSE attempt[t].block
    BY <1>0, <1>4 DEF SettleWin, Verified, AttemptRow
  <2> QED
    BY <2>1, <2>2
<1>5. ASSUME NEW j \in running, SettleConflict(j)
      PROVE  attempt'[t].block = attempt[t].block
  BY <1>0, <1>5 DEF SettleConflict, Conflicted, AttemptRow
<1>6. ASSUME NEW j \in running, Discard(j) \/ Crash(j)
      PROVE  attempt'[t].block = attempt[t].block
  BY <1>6 DEF Discard, Crash
<1>7. CASE UNCHANGED vars
  BY <1>7 DEF vars
<1> QED
  BY <1>1, <1>2, <1>3, <1>4, <1>5, <1>6, <1>7 DEF Next, Record

\* Whatever workers record, however late, an attempt's block is never replaced by
\* another: a transaction that moved is verified from the start.
THEOREM InclusionNeverSwitchesAlways == Spec => InclusionNeverSwitches
<1>1. TypeOK /\ JobsKnow /\ [Next]_vars =>
        [\A t \in Attempt :
           attempt[t].block # NoBlock =>
             attempt'[t].block \in {attempt[t].block, NoBlock}]_vars
  BY InclusionStep
<1> QED
  BY <1>1, JobsKnowAlways, PTL DEF Spec, InclusionNeverSwitches

-----------------------------------------------------------------------------
(* Outcomes. *)

USE DEF Attempt

-----------------------------------------------------------------------------
(* How the actions read attempt by attempt. *)

\* Only the row of the attempt in hand is rewritten.
LEMMA OneRowWritten ==
  ASSUME TypeOK, NEW t \in Attempt,
         \/ Retry(t) \/ Claim(t) \/ ExpireLease(t) \/ NextCheckDue(t)
  PROVE  \E own :
           /\ attempt' = [attempt EXCEPT ![t] = own]
           /\ \/ Retry(t) /\ own = Resumed(attempt[t])
              \/ Claim(t) /\ own = Claimed(attempt[t])
              \/ ExpireLease(t) /\ own = [attempt[t] EXCEPT !.lease = "expired"]
              \/ NextCheckDue(t) /\ own = [attempt[t] EXCEPT !.check = "due"]
BY DEF Retry, Claim, ExpireLease, NextCheckDue

\* The columns of the rows the handlers leave.
LEMMA RowColumns ==
  ASSUME NEW own \in AttemptRow
  PROVE  /\ /\ Resumed(own).status = "SUBMITTED"
            /\ Resumed(own).version = own.version + 1
            /\ Resumed(own).retries = 0
            /\ Resumed(own).lease = "NULL"
         /\ /\ Claimed(own).status = "VERIFYING"
            /\ Claimed(own).version = own.version + 1
            /\ Claimed(own).retries = own.retries
            /\ Claimed(own).error = own.error
            /\ Claimed(own).lease = "live"
         /\ /\ Conflicted(own).status = "NEEDS_REVIEW"
            /\ Conflicted(own).version = own.version + 1
            /\ Conflicted(own).retries = own.retries
            /\ Conflicted(own).error = "TRANSACTION_ALREADY_SETTLED"
            /\ Conflicted(own).lease = "NULL"
         /\ \A b \in Block \union {NoBlock} :
            /\ Verified(own, b).status = "VERIFIED"
            /\ Verified(own, b).version = own.version + 1
            /\ Verified(own, b).lease = "NULL"
<1> USE DEF AttemptRow
<1>1. /\ Resumed(own).status = "SUBMITTED"
      /\ Resumed(own).version = own.version + 1
      /\ Resumed(own).retries = 0
      /\ Resumed(own).lease = "NULL"
  BY DEF Resumed
<1>2. /\ Claimed(own).status = "VERIFYING"
      /\ Claimed(own).version = own.version + 1
      /\ Claimed(own).retries = own.retries
      /\ Claimed(own).error = own.error
      /\ Claimed(own).lease = "live"
  BY DEF Claimed
<1>3. /\ Conflicted(own).status = "NEEDS_REVIEW"
      /\ Conflicted(own).version = own.version + 1
      /\ Conflicted(own).retries = own.retries
      /\ Conflicted(own).error = "TRANSACTION_ALREADY_SETTLED"
      /\ Conflicted(own).lease = "NULL"
  BY DEF Conflicted
<1>4. \A b \in Block \union {NoBlock} :
        /\ Verified(own, b).status = "VERIFIED"
        /\ Verified(own, b).version = own.version + 1
        /\ Verified(own, b).lease = "NULL"
  BY DEF Verified
<1> QED
  BY <1>1, <1>2, <1>3, <1>4

\* What a recorded job rewrites: its attempt's row.
LEMMA RecordedRow ==
  ASSUME TypeOK, NEW j \in running
  PROVE  /\ j.attempt \in Attempt /\ attempt[j.attempt] \in AttemptRow
         /\ \A v \in Verdicts(j) : Reschedule(j, v) =>
              attempt' = [attempt EXCEPT ![j.attempt] = Verdicted(j, v)]
         /\ \A b \in Evidence(j) :
              /\ b \in Block \union {NoBlock}
              /\ SettleWin(j, b) =>
                   attempt' = [attempt EXCEPT ![j.attempt] = Verified(attempt[j.attempt], b)]
         /\ SettleConflict(j) =>
              attempt' = [attempt EXCEPT ![j.attempt] = Conflicted(attempt[j.attempt])]
BY DEF TypeOK, Job, Reschedule, SettleWin, SettleConflict, Evidence

-----------------------------------------------------------------------------
(* Leases belong to claims. *)

LeaseOfClaim ==
  \A t \in Attempt : attempt[t].lease # "NULL" => attempt[t].status = "VERIFYING"

\* A write of one row that gives no lease without the claim.
LEMMA LeaseWrite ==
  ASSUME TypeOK, LeaseOfClaim, NEW t \in Attempt, NEW own,
         attempt' = [attempt EXCEPT ![t] = own],
         own.lease # "NULL" => own.status = "VERIFYING"
  PROVE  LeaseOfClaim'
BY DEF TypeOK, LeaseOfClaim

LEMMA LeaseOfClaimStep == TypeOK /\ LeaseOfClaim /\ [Next]_vars => LeaseOfClaim'
<1> SUFFICES ASSUME TypeOK, LeaseOfClaim, [Next]_vars PROVE LeaseOfClaim'
  OBVIOUS
<1>1. ASSUME NEW p \in Payment, NEW h \in Hash, Submit(p, h) PROVE LeaseOfClaim'
  <2>1. PICK own : own = NewAttempt
    OBVIOUS
  <2>2. <<p, h>> \in Attempt /\ own.lease = "NULL" /\ attempt' = [attempt EXCEPT ![<<p, h>>] = own]
    BY <1>1, <2>1 DEF Submit, NewAttempt, NoAttempt
  <2> QED
    BY <2>2, LeaseWrite
<1>2. ASSUME NEW t \in Attempt, Retry(t) \/ Claim(t) \/ ExpireLease(t) \/ NextCheckDue(t)
      PROVE LeaseOfClaim'
  <2>1. attempt[t] \in AttemptRow
    BY DEF TypeOK
  <2>2. PICK own :
          /\ attempt' = [attempt EXCEPT ![t] = own]
          /\ \/ Retry(t) /\ own = Resumed(attempt[t])
             \/ Claim(t) /\ own = Claimed(attempt[t])
             \/ ExpireLease(t) /\ own = [attempt[t] EXCEPT !.lease = "expired"]
             \/ NextCheckDue(t) /\ own = [attempt[t] EXCEPT !.check = "due"]
    BY <1>2, OneRowWritten
  <2>3. CASE own = Resumed(attempt[t]) \/ own = Claimed(attempt[t])
    BY <2>1, <2>2, <2>3, RowColumns, LeaseWrite
  <2>4. CASE ExpireLease(t) /\ own = [attempt[t] EXCEPT !.lease = "expired"]
    <3>1. own.status = "VERIFYING"
      BY <2>1, <2>4 DEF ExpireLease, LeaseOfClaim, AttemptRow
    <3> QED
      BY <2>2, <3>1, LeaseWrite
  <2>5. CASE own = [attempt[t] EXCEPT !.check = "due"]
    <3>1. own.lease = attempt[t].lease /\ own.status = attempt[t].status
      BY <2>1, <2>5 DEF AttemptRow
    <3> QED
      BY <2>2, <3>1, LeaseWrite DEF LeaseOfClaim
  <2> QED
    BY <2>2, <2>3, <2>4, <2>5
<1>3. ASSUME NEW j \in running, NEW v \in Verdicts(j), Reschedule(j, v) PROVE LeaseOfClaim'
  <2>1. PICK own : own = Verdicted(j, v)
    OBVIOUS
  <2>2. own.lease = "NULL"
    BY <2>1 DEF Verdicted
  <2> QED
    BY <1>3, <2>1, <2>2, RecordedRow, LeaseWrite
<1>4. ASSUME NEW j \in running, NEW b \in Evidence(j), SettleWin(j, b) PROVE LeaseOfClaim'
  <2>1. PICK own : own = Verified(attempt[j.attempt], b)
    OBVIOUS
  <2>2. own.lease = "NULL"
    BY <2>1, RecordedRow, RowColumns
  <2> QED
    BY <1>4, <2>1, <2>2, RecordedRow, LeaseWrite
<1>5. ASSUME NEW j \in running, SettleConflict(j) PROVE LeaseOfClaim'
  <2>1. PICK own : own = Conflicted(attempt[j.attempt])
    OBVIOUS
  <2>2. own.lease = "NULL"
    BY <2>1, RecordedRow, RowColumns
  <2> QED
    BY <1>5, <2>1, <2>2, RecordedRow, LeaseWrite
<1>6. ASSUME NEW j \in running, Discard(j) \/ Crash(j) PROVE LeaseOfClaim'
  BY <1>6 DEF Discard, Crash, LeaseOfClaim
<1>7. CASE UNCHANGED vars
  BY <1>7 DEF vars, LeaseOfClaim
<1> QED
  BY <1>1, <1>2, <1>3, <1>4, <1>5, <1>6, <1>7 DEF Next, Record

LEMMA LeaseOfClaimInit == Init => LeaseOfClaim
BY DEF Init, LeaseOfClaim, NoAttempt

-----------------------------------------------------------------------------
(* Outcomes are final. *)

\* A step that rewrites the row of an attempt with no outcome, and of no payment but
\* its own, unconfirmed.
LEMMA OpenRow ==
  ASSUME NEW t \in Attempt, attempt[t].status \notin {"REJECTED", "VERIFIED"},
         payment[t[1]].status # "CONFIRMED",
         \A u \in Attempt : u # t => attempt'[u] = attempt[u],
         \A p \in Payment : p # t[1] =>
            payment'[p] = payment[p] /\ settlement'[p] = settlement[p],
         TypeOK
  PROVE  /\ \A u \in Attempt :
              attempt[u].status \in {"REJECTED", "VERIFIED"} =>
                [attempt'[u] EXCEPT !.check = attempt[u].check] = attempt[u]
         /\ \A p \in Payment :
              payment[p].status = "CONFIRMED" =>
                payment'[p] = payment[p] /\ settlement'[p] = settlement[p]
<1>1. \A u \in Attempt : [attempt[u] EXCEPT !.check = attempt[u].check] = attempt[u]
  BY DEF TypeOK, AttemptRow
<1> QED
  BY <1>1

LEMMA ActiveIsProcessing ==
  ASSUME Agreement, NEW t \in Attempt, attempt[t].status \in Active
  PROVE  payment[t[1]].status = "PROCESSING"
BY AttemptPair DEF Agreement, StatusAgrees, PaymentAgrees

LEMMA OutcomeStep ==
  ASSUME Agreement, LeaseOfClaim, [Next]_vars
  PROVE  /\ \A t \in Attempt :
              attempt[t].status \in {"REJECTED", "VERIFIED"} =>
                [attempt'[t] EXCEPT !.check = attempt[t].check] = attempt[t]
         /\ \A p \in Payment :
              payment[p].status = "CONFIRMED" =>
                payment'[p] = payment[p] /\ settlement'[p] = settlement[p]
<1> DEFINE Kept ==
      /\ \A t \in Attempt :
           attempt[t].status \in {"REJECTED", "VERIFIED"} =>
             [attempt'[t] EXCEPT !.check = attempt[t].check] = attempt[t]
      /\ \A p \in Payment :
           payment[p].status = "CONFIRMED" =>
             payment'[p] = payment[p] /\ settlement'[p] = settlement[p]
<1>0. TypeOK /\ \A t \in Attempt : attempt[t] \in AttemptRow
  BY DEF Agreement, TypeOK
<1>1. ASSUME NEW p \in Payment, NEW h \in Hash, Submit(p, h) PROVE Kept
  <2> DEFINE t == <<p, h>>
  <2>1. /\ t \in Attempt /\ t[1] = p
        /\ attempt[t].status = "NONE"
        /\ payment[p].status # "CONFIRMED"
        /\ \A u \in Attempt : u # t => attempt'[u] = attempt[u]
        /\ \A q \in Payment : q # p => payment'[q] = payment[q] /\ settlement'[q] = settlement[q]
    BY <1>0, <1>1 DEF Submit, SetPayment, TypeOK
  <2> HIDE DEF t
  <2> QED
    BY <1>0, <2>1, OpenRow
<1>2. ASSUME NEW t \in Attempt, Retry(t) PROVE Kept
  <2>1. /\ attempt[t].status = "NEEDS_REVIEW"
        /\ \A u \in Attempt : u # t => attempt'[u] = attempt[u]
        /\ \A q \in Payment : q # t[1] =>
             payment'[q] = payment[q] /\ settlement'[q] = settlement[q]
    BY <1>0, <1>2 DEF Retry, Resumable, SetPayment, TypeOK
  <2>2. payment[t[1]].status = "PROCESSING"
    BY <2>1, ActiveIsProcessing DEF Active
  <2> QED
    BY <1>0, <2>1, <2>2, OpenRow
<1>3. ASSUME NEW t \in Attempt, Claim(t) \/ ExpireLease(t) PROVE Kept
  <2>1. attempt[t].status \in Recheckable
    BY <1>3 DEF Claim, Due, ExpireLease, LeaseOfClaim, Recheckable
  <2>2. /\ \A u \in Attempt : u # t => attempt'[u] = attempt[u]
        /\ UNCHANGED <<payment, settlement>>
    BY <1>0, <1>3 DEF Claim, ExpireLease, TypeOK
  <2>3. payment[t[1]].status = "PROCESSING"
    BY <2>1, ActiveIsProcessing DEF Active
  <2> QED
    BY <1>0, <2>1, <2>2, <2>3, OpenRow DEF Recheckable
<1>4. ASSUME NEW t \in Attempt, NextCheckDue(t) PROVE Kept
  <2>1. PICK own : own = [attempt[t] EXCEPT !.check = "due"]
    OBVIOUS
  <2>2. [own EXCEPT !.check = attempt[t].check] = attempt[t]
    BY <1>0, <2>1 DEF AttemptRow
  <2>3. \A u \in Attempt : attempt'[u] = IF u = t THEN own ELSE attempt[u]
    BY <1>0, <1>4, <2>1 DEF NextCheckDue, TypeOK
  <2>4. \A u \in Attempt : [attempt[u] EXCEPT !.check = attempt[u].check] = attempt[u]
    BY <1>0 DEF AttemptRow
  <2>5. UNCHANGED <<payment, settlement>>
    BY <1>4 DEF NextCheckDue
  <2> QED
    BY <2>2, <2>3, <2>4, <2>5
<1>5. ASSUME NEW j \in running, Record(j) \/ Crash(j) PROVE Kept
  <2>1. CASE Discard(j) \/ Crash(j)
    <3>1. \A u \in Attempt : [attempt[u] EXCEPT !.check = attempt[u].check] = attempt[u]
      BY <1>0 DEF AttemptRow
    <3> QED
      BY <2>1, <3>1 DEF Discard, Crash
  <2>2. CASE \/ \E v \in Verdicts(j) : Reschedule(j, v)
             \/ \E b \in Evidence(j) : SettleWin(j, b)
             \/ SettleConflict(j)
    <3>1. Fenced(j)
      BY <2>2 DEF Reschedule, SettleWin, SettleConflict
    <3>2. /\ j.attempt \in Attempt
          /\ attempt[j.attempt].status = "VERIFYING"
          /\ payment[j.attempt[1]].status = "PROCESSING"
      BY <3>1, FencedIsActive
    <3>3. \A u \in Attempt : u # j.attempt => attempt'[u] = attempt[u]
      BY <1>0, <2>2 DEF Reschedule, SettleWin, SettleConflict, TypeOK
    <3>4. \A q \in Payment : q # j.attempt[1] =>
            payment'[q] = payment[q] /\ settlement'[q] = settlement[q]
      BY <1>0, <2>2, <3>2 DEF Reschedule, SettleWin, SettleConflict, SetPayment, TypeOK
    <3>5. PICK t \in Attempt : t = j.attempt
      BY <3>2
    <3> QED
      BY <1>0, <3>2, <3>3, <3>4, <3>5, OpenRow
  <2> QED
    BY <1>5, <2>1, <2>2 DEF Record
<1>6. CASE UNCHANGED vars
  <2>1. \A u \in Attempt : [attempt[u] EXCEPT !.check = attempt[u].check] = attempt[u]
    BY <1>0 DEF AttemptRow
  <2> QED
    BY <1>6, <2>1 DEF vars
<1> QED
  BY <1>1, <1>2, <1>3, <1>4, <1>5, <1>6 DEF Next

\* Rejected and verified attempts keep their rows, confirmed payments their rows
\* and settlements, whatever workers, payers and merchants do later.
THEOREM OutcomesAreFinalAlways == Spec => OutcomesAreFinal
<1>1. Init => LeaseOfClaim
  BY LeaseOfClaimInit
<1>2. Agreement /\ LeaseOfClaim /\ [Next]_vars => LeaseOfClaim'
  BY LeaseOfClaimStep DEF Agreement
<1>3. Agreement /\ LeaseOfClaim /\ [Next]_vars =>
        [/\ \A t \in Attempt :
              attempt[t].status \in {"REJECTED", "VERIFIED"} =>
                [attempt'[t] EXCEPT !.check = attempt[t].check] = attempt[t]
         /\ \A p \in Payment :
              payment[p].status = "CONFIRMED" =>
                payment'[p] = payment[p] /\ settlement'[p] = settlement[p]]_vars
  BY OutcomeStep
<1> QED
  BY <1>1, <1>2, <1>3, AgreementAlways, PTL DEF Spec, OutcomesAreFinal

-----------------------------------------------------------------------------
(* Reviews have a reason. *)

\* Another payment of the chain was settled with the attempt's transaction.
PaidElsewhere(t) ==
  \E q \in Payment \ {t[1]} : ChainOf[q] = ChainOf[t[1]] /\ settlement[q] = t[2]

\* ReviewHasReason, of one attempt.
Reasoned(t) ==
  /\ attempt[t].status = "NEEDS_REVIEW" =>
       \/ attempt[t].retries = RetryBudget
       \/ attempt[t].error = "TRANSACTION_ALREADY_SETTLED" /\ PaidElsewhere(t)
  /\ attempt[t].status \in Recheckable => attempt[t].retries < RetryBudget

LEMMA ReasonedEach == ReviewHasReason <=> \A t \in Attempt : Reasoned(t)
BY DEF ReviewHasReason, Reasoned, PaidElsewhere

\* Settlements are never withdrawn.
LEMMA SettlementsStay ==
  ASSUME Agreement, [Next]_vars, NEW t \in Attempt, PaidElsewhere(t)
  PROVE  PaidElsewhere(t)'
<1>1. PICK q \in Payment \ {t[1]} : ChainOf[q] = ChainOf[t[1]] /\ settlement[q] = t[2]
  BY DEF PaidElsewhere
<1>2. settlement[q] # NoHash
  BY <1>1, AttemptPair, NoHashAssumption
<1>3. settlement'[q] = settlement[q]
  <2>1. CASE settlement' = settlement
    BY <2>1
  <2>2. ASSUME NEW j \in running, NEW b \in Evidence(j), SettleWin(j, b)
        PROVE  settlement'[q] = settlement[q]
    <3>1. j.attempt[1] \in Payment /\ settlement[j.attempt[1]] = NoHash
      BY <2>2, FencedIsActive DEF SettleWin
    <3> QED
      BY <1>2, <2>2, <3>1 DEF SettleWin, Agreement, TypeOK
  <2> QED
    BY <2>1, <2>2 DEF Next, Record, Submit, Retry, Claim, ExpireLease, NextCheckDue,
       Reschedule, SettleConflict, Discard, Crash, vars
<1> QED
  BY <1>1, <1>3 DEF PaidElsewhere

\* An attempt that keeps its retries and error keeps its reason, a claim included.
LEMMA ReasonStays ==
  ASSUME Agreement, [Next]_vars, NEW t \in Attempt, Reasoned(t),
         \/ attempt'[t].status = attempt[t].status
         \/ attempt[t].status \in Recheckable /\ attempt'[t].status = "VERIFYING",
         attempt'[t].retries = attempt[t].retries,
         attempt'[t].error = attempt[t].error
  PROVE  Reasoned(t)'
<1>1. PaidElsewhere(t) => PaidElsewhere(t)'
  BY SettlementsStay
<1> QED
  BY <1>1 DEF Reasoned, Recheckable

LEMMA ReviewStep ==
  ASSUME Agreement, JobsKnow, ReviewHasReason, [Next]_vars
  PROVE  ReviewHasReason'
<1>0. /\ TypeOK
      /\ \A t \in Attempt : attempt[t] \in AttemptRow /\ Reasoned(t)
  BY ReasonedEach DEF Agreement, TypeOK
<1>1. ASSUME NEW u \in Attempt, attempt'[u] = attempt[u] PROVE Reasoned(u)'
  <2>1. PaidElsewhere(u) => PaidElsewhere(u)'
    BY SettlementsStay
  <2>2. Reasoned(u)
    BY <1>0
  <2> QED
    BY <1>1, <2>1, <2>2 DEF Reasoned
<1> SUFFICES ASSUME NEW t \in Attempt PROVE Reasoned(t)'
  BY DEF ReviewHasReason, Reasoned, PaidElsewhere
<1>2. ASSUME NEW p \in Payment, NEW h \in Hash, Submit(p, h) PROVE Reasoned(t)'
  <2>1. PICK own : own = NewAttempt
    OBVIOUS
  <2>2. own.status = "SUBMITTED" /\ own.retries = 0
    BY <2>1 DEF NewAttempt, NoAttempt
  <2>3. attempt'[t] = IF t = <<p, h>> THEN own ELSE attempt[t]
    BY <1>0, <1>2, <2>1 DEF Submit, TypeOK
  <2> QED
    BY <1>1, <2>2, <2>3, RetryBudgetAssumption DEF Reasoned
<1>3. ASSUME NEW u \in Attempt, Retry(u) \/ Claim(u) \/ ExpireLease(u) \/ NextCheckDue(u)
      PROVE Reasoned(t)'
  <2>1. PICK own :
          /\ attempt' = [attempt EXCEPT ![u] = own]
          /\ \/ Retry(u) /\ own = Resumed(attempt[u])
             \/ Claim(u) /\ own = Claimed(attempt[u])
             \/ ExpireLease(u) /\ own = [attempt[u] EXCEPT !.lease = "expired"]
             \/ NextCheckDue(u) /\ own = [attempt[u] EXCEPT !.check = "due"]
    BY <1>0, <1>3, OneRowWritten
  <2>2. attempt'[t] = IF t = u THEN own ELSE attempt[t]
    BY <1>0, <2>1 DEF TypeOK
  <2>3. CASE own = Resumed(attempt[u])
    <3>1. own.status = "SUBMITTED" /\ own.retries = 0
      BY <1>0, <2>3, RowColumns
    <3> QED
      BY <1>1, <2>2, <3>1, RetryBudgetAssumption DEF Reasoned
  <2>4. CASE Claim(u) /\ own = Claimed(attempt[u])
    <3>1. /\ attempt[u].status \in Recheckable /\ own.status = "VERIFYING"
          /\ own.retries = attempt[u].retries /\ own.error = attempt[u].error
      BY <1>0, <2>4, RowColumns DEF Claim, Due
    <3> QED
      BY <1>0, <1>1, <2>2, <3>1, ReasonStays
  <2>5. CASE own = [attempt[u] EXCEPT !.lease = "expired"] \/ own = [attempt[u] EXCEPT !.check = "due"]
    <3>1. /\ own.status = attempt[u].status
          /\ own.retries = attempt[u].retries /\ own.error = attempt[u].error
      BY <1>0, <2>5 DEF AttemptRow
    <3>2. /\ attempt'[t].status = attempt[t].status
          /\ attempt'[t].retries = attempt[t].retries
          /\ attempt'[t].error = attempt[t].error
      BY <2>2, <3>1
    <3>3. Reasoned(t)
      BY <1>0
    <3>4. PaidElsewhere(t) => PaidElsewhere(t)'
      BY SettlementsStay
    <3> QED
      BY <3>2, <3>3, <3>4 DEF Reasoned
  <2> QED
    BY <2>1, <2>3, <2>4, <2>5
<1>4. ASSUME NEW j \in running, NEW v \in Verdicts(j), Reschedule(j, v) PROVE Reasoned(t)'
  <2>1. Fenced(j) /\ attempt[j.attempt].status = "VERIFYING"
    BY <1>4 DEF Reschedule, Fenced
  <2>2. /\ j.attempt \in Attempt
        /\ j.retries = attempt[j.attempt].retries
        /\ j.retries < RetryBudget
        /\ j.retries \in Nat
    BY <1>0, <2>1, JobsKnowOneWriter DEF OneWriter, Reasoned, Recheckable, TypeOK, Job
  <2>3. PICK own : own = Verdicted(j, v)
    OBVIOUS
  <2>4. /\ own.status = NextStatus(j, v) /\ own.retries = Retries(j, v)
        /\ attempt'[t] = IF t = j.attempt THEN own ELSE attempt[t]
    BY <1>0, <1>4, <2>3, RecordedRow DEF Verdicted, TypeOK
  <2>5. own.status = "NEEDS_REVIEW" => own.retries = RetryBudget
    <3>1. own.status = "NEEDS_REVIEW" => v.status = "RETRY" /\ Retries(j, v) >= RetryBudget
      BY <1>0, <2>4, VerdictType
    <3>2. v.status = "RETRY" => Retries(j, v) = j.retries + 1
      BY DEF Retries
    <3> QED
      BY <2>2, <2>4, <3>1, <3>2, RetryBudgetAssumption
  <2>6. own.status \in Recheckable => own.retries < RetryBudget
    BY <1>0, <2>2, <2>4, VerdictType
  <2> QED
    BY <1>1, <2>4, <2>5, <2>6 DEF Reasoned
<1>5. ASSUME NEW j \in running, NEW b \in Evidence(j), SettleWin(j, b) PROVE Reasoned(t)'
  <2>1. PICK own : own = Verified(attempt[j.attempt], b)
    OBVIOUS
  <2>2. own.status = "VERIFIED"
    BY <1>0, <2>1, RecordedRow, RowColumns
  <2>3. attempt'[t] = IF t = j.attempt THEN own ELSE attempt[t]
    BY <1>0, <1>5, <2>1, RecordedRow DEF TypeOK
  <2> QED
    BY <1>1, <2>2, <2>3 DEF Reasoned, Recheckable
<1>6. ASSUME NEW j \in running, SettleConflict(j) PROVE Reasoned(t)'
  <2>1. PICK own : own = Conflicted(attempt[j.attempt])
    OBVIOUS
  <2>2. own.status = "NEEDS_REVIEW" /\ own.error = "TRANSACTION_ALREADY_SETTLED"
    BY <1>0, <2>1, RecordedRow, RowColumns
  <2>3. attempt'[t] = IF t = j.attempt THEN own ELSE attempt[t]
    BY <1>0, <1>6, <2>1, RecordedRow DEF TypeOK
  <2>4. PaidElsewhere(j.attempt)
    <3>1. settlement[j.attempt[1]] = NoHash /\ j.attempt \in Attempt
      BY <1>6, FencedIsActive DEF SettleConflict
    <3>2. j.attempt[2] # NoHash
      BY <3>1, AttemptPair, NoHashAssumption
    <3> QED
      BY <1>6, <3>1, <3>2 DEF SettleConflict, Conflicts, PaidElsewhere
  <2>5. t = j.attempt => PaidElsewhere(t)'
    BY <2>4, SettlementsStay
  <2> QED
    BY <1>1, <2>2, <2>3, <2>5 DEF Reasoned, Recheckable
<1>7. ASSUME NEW j \in running, Discard(j) \/ Crash(j) PROVE Reasoned(t)'
  BY <1>1, <1>7 DEF Discard, Crash
<1>8. CASE UNCHANGED vars
  BY <1>1, <1>8 DEF vars
<1> QED
  BY <1>2, <1>3, <1>4, <1>5, <1>6, <1>7, <1>8 DEF Next, Record

\* An attempt is handed to the merchant after exactly RetryBudget technical failures
\* or because its transaction paid another payment, however late its workers are.
THEOREM ReviewHasReasonAlways == Spec => []ReviewHasReason
<1>1. Init => ReviewHasReason
  BY DEF Init, ReviewHasReason, NoAttempt, Recheckable
<1>2. Agreement /\ JobsKnow /\ ReviewHasReason /\ [Next]_vars => ReviewHasReason'
  BY ReviewStep
<1> QED
  BY <1>1, <1>2, AgreementAlways, JobsKnowAlways, PTL DEF Spec

-----------------------------------------------------------------------------
(* What waits has a wake-up. *)

\* WaitingHasWakeup, of one attempt.
Awaited(t) ==
  attempt[t].status \in Recheckable \ {"VERIFYING"} =>
    [attempt |-> t, version |-> attempt[t].version] \in wakeups

LEMMA WakeupStep ==
  ASSUME TypeOK, WaitingHasWakeup, [Next]_vars
  PROVE  WaitingHasWakeup'
<1>0. \A t \in Attempt : attempt[t] \in AttemptRow /\ Awaited(t)
  BY DEF TypeOK, WaitingHasWakeup, Awaited
<1>1. wakeups \subseteq wakeups'
  BY DEF Next, Record, Submit, Retry, Claim, ExpireLease, NextCheckDue, Reschedule,
     SettleWin, SettleConflict, Discard, Crash, vars, Wake
<1>2. \A t \in Attempt :
        attempt'[t].status = attempt[t].status /\ attempt'[t].version = attempt[t].version
          => Awaited(t)'
  BY <1>0, <1>1 DEF Awaited
<1> SUFFICES ASSUME NEW t \in Attempt PROVE Awaited(t)'
  BY DEF WaitingHasWakeup, Awaited
<1>3. ASSUME NEW p \in Payment, NEW h \in Hash, Submit(p, h) PROVE Awaited(t)'
  <2>1. PICK own : own = NewAttempt
    OBVIOUS
  <2>2. own.version = 0
    BY <2>1 DEF NewAttempt, NoAttempt
  <2>3. attempt'[t] = IF t = <<p, h>> THEN own ELSE attempt[t]
    BY <1>3, <2>1 DEF Submit, TypeOK
  <2>4. [attempt |-> <<p, h>>, version |-> 0] \in wakeups'
    BY <1>3 DEF Submit, Wake
  <2> QED
    BY <1>2, <2>2, <2>3, <2>4 DEF Awaited
<1>4. ASSUME NEW u \in Attempt, Retry(u) \/ Claim(u) \/ ExpireLease(u) \/ NextCheckDue(u)
      PROVE Awaited(t)'
  <2>1. PICK own :
          /\ attempt' = [attempt EXCEPT ![u] = own]
          /\ \/ Retry(u) /\ own = Resumed(attempt[u])
             \/ Claim(u) /\ own = Claimed(attempt[u])
             \/ ExpireLease(u) /\ own = [attempt[u] EXCEPT !.lease = "expired"]
             \/ NextCheckDue(u) /\ own = [attempt[u] EXCEPT !.check = "due"]
    BY <1>4, OneRowWritten
  <2>2. attempt'[t] = IF t = u THEN own ELSE attempt[t]
    BY <2>1 DEF TypeOK
  <2>3. CASE Retry(u) /\ own = Resumed(attempt[u])
    <3>1. own.version = attempt[u].version + 1
      BY <1>0, <2>3, RowColumns
    <3>2. [attempt |-> u, version |-> attempt[u].version + 1] \in wakeups'
      BY <2>3 DEF Retry, Wake
    <3> QED
      BY <1>2, <2>2, <3>1, <3>2 DEF Awaited
  <2>4. CASE own = Claimed(attempt[u])
    <3>1. own.status = "VERIFYING"
      BY <1>0, <2>4, RowColumns
    <3> QED
      BY <1>2, <2>2, <3>1 DEF Awaited
  <2>5. CASE own = [attempt[u] EXCEPT !.lease = "expired"] \/ own = [attempt[u] EXCEPT !.check = "due"]
    <3>1. own.status = attempt[u].status /\ own.version = attempt[u].version
      BY <1>0, <2>5 DEF AttemptRow
    <3> QED
      BY <1>2, <2>2, <3>1
  <2> QED
    BY <2>1, <2>3, <2>4, <2>5
<1>5. ASSUME NEW j \in running, NEW v \in Verdicts(j), Reschedule(j, v) PROVE Awaited(t)'
  <2>1. PICK own : own = Verdicted(j, v)
    OBVIOUS
  <2>2. /\ own.status = NextStatus(j, v) /\ own.version = j.version + 1
        /\ attempt'[t] = IF t = j.attempt THEN own ELSE attempt[t]
    BY <1>5, <2>1, RecordedRow DEF Verdicted, TypeOK
  <2>3. own.status \in Recheckable => Waits(own.status)
    BY <2>2, VerdictType DEF Waits, Recheckable
  <2>4. Waits(own.status) => [attempt |-> j.attempt, version |-> j.version + 1] \in wakeups'
    BY <1>5, <2>2 DEF Reschedule, Wake
  <2> QED
    BY <1>2, <2>2, <2>3, <2>4 DEF Awaited
<1>6. ASSUME NEW j \in running, NEW b \in Evidence(j), SettleWin(j, b) PROVE Awaited(t)'
  <2>1. PICK own : own = Verified(attempt[j.attempt], b)
    OBVIOUS
  <2>2. own.status = "VERIFIED"
    BY <2>1, RecordedRow, RowColumns
  <2>3. attempt'[t] = IF t = j.attempt THEN own ELSE attempt[t]
    BY <1>6, <2>1, RecordedRow DEF TypeOK
  <2> QED
    BY <1>2, <2>2, <2>3 DEF Awaited, Recheckable
<1>7. ASSUME NEW j \in running, SettleConflict(j) PROVE Awaited(t)'
  <2>1. PICK own : own = Conflicted(attempt[j.attempt])
    OBVIOUS
  <2>2. own.status = "NEEDS_REVIEW"
    BY <2>1, RecordedRow, RowColumns
  <2>3. attempt'[t] = IF t = j.attempt THEN own ELSE attempt[t]
    BY <1>7, <2>1, RecordedRow DEF TypeOK
  <2> QED
    BY <1>2, <2>2, <2>3 DEF Awaited, Recheckable
<1>8. ASSUME NEW j \in running, Discard(j) \/ Crash(j) PROVE Awaited(t)'
  BY <1>2, <1>8 DEF Discard, Crash
<1>9. CASE UNCHANGED vars
  BY <1>2, <1>9 DEF vars
<1> QED
  BY <1>3, <1>4, <1>5, <1>6, <1>7, <1>8, <1>9 DEF Next, Record

\* The transaction that makes an attempt wait for a worker writes the row that
\* wakes one, in every behaviour.
THEOREM WaitingHasWakeupAlways == Spec => []WaitingHasWakeup
<1>1. Init => WaitingHasWakeup
  BY DEF Init, WaitingHasWakeup, NoAttempt, Recheckable
<1>2. TypeOK /\ WaitingHasWakeup /\ [Next]_vars => WaitingHasWakeup'
  BY WakeupStep
<1> QED
  BY <1>1, <1>2, TypeCorrect, PTL DEF Spec

-----------------------------------------------------------------------------
(* Versions count writes. *)

\* What a step may do to the row of an attempt.
Counted(t) ==
  \/ attempt'[t].version = attempt[t].version + 1
  \/ attempt[t].status = "NONE" /\ attempt'[t] = NewAttempt
  \/ [attempt'[t] EXCEPT !.lease = attempt[t].lease,
                         !.check = attempt[t].check] = attempt[t]

LEMMA CountStep ==
  ASSUME TypeOK, [Next]_vars, NEW t \in Attempt
  PROVE  Counted(t)
<1>0. attempt[t] \in AttemptRow
  BY DEF TypeOK
<1>1. attempt'[t] = attempt[t] => Counted(t)
  BY <1>0 DEF Counted, AttemptRow
<1>2. ASSUME NEW p \in Payment, NEW h \in Hash, Submit(p, h) PROVE Counted(t)
  <2>1. PICK own : own = NewAttempt
    OBVIOUS
  <2>2. /\ attempt'[t] = IF t = <<p, h>> THEN own ELSE attempt[t]
        /\ attempt[<<p, h>>].status = "NONE"
    BY <1>2, <2>1 DEF Submit, TypeOK
  <2> QED
    BY <1>1, <2>1, <2>2 DEF Counted
<1>3. ASSUME NEW u \in Attempt, Retry(u) \/ Claim(u) \/ ExpireLease(u) \/ NextCheckDue(u)
      PROVE Counted(t)
  <2>1. PICK own :
          /\ attempt' = [attempt EXCEPT ![u] = own]
          /\ \/ Retry(u) /\ own = Resumed(attempt[u])
             \/ Claim(u) /\ own = Claimed(attempt[u])
             \/ ExpireLease(u) /\ own = [attempt[u] EXCEPT !.lease = "expired"]
             \/ NextCheckDue(u) /\ own = [attempt[u] EXCEPT !.check = "due"]
    BY <1>3, OneRowWritten
  <2>2. /\ attempt'[t] = IF t = u THEN own ELSE attempt[t]
        /\ attempt[u] \in AttemptRow
    BY <2>1 DEF TypeOK
  <2>3. CASE own = Resumed(attempt[u]) \/ own = Claimed(attempt[u])
    <3>1. own.version = attempt[u].version + 1
      BY <2>2, <2>3, RowColumns
    <3> QED
      BY <1>1, <2>2, <3>1 DEF Counted
  <2>4. CASE own = [attempt[u] EXCEPT !.lease = "expired"] \/ own = [attempt[u] EXCEPT !.check = "due"]
    <3>1. [own EXCEPT !.lease = attempt[u].lease, !.check = attempt[u].check] = attempt[u]
      BY <2>2, <2>4 DEF AttemptRow
    <3> QED
      BY <1>1, <2>2, <3>1 DEF Counted
  <2> QED
    BY <2>1, <2>3, <2>4
<1>4. ASSUME NEW j \in running, NEW v \in Verdicts(j), Reschedule(j, v) PROVE Counted(t)
  <2>1. PICK own : own = Verdicted(j, v)
    OBVIOUS
  <2>2. own.version = attempt[j.attempt].version + 1
    BY <1>4, <2>1 DEF Verdicted, Reschedule, Fenced
  <2>3. attempt'[t] = IF t = j.attempt THEN own ELSE attempt[t]
    BY <1>4, <2>1, RecordedRow DEF TypeOK
  <2> QED
    BY <1>1, <2>2, <2>3 DEF Counted
<1>5. ASSUME NEW j \in running, NEW b \in Evidence(j), SettleWin(j, b) PROVE Counted(t)
  <2>1. PICK own : own = Verified(attempt[j.attempt], b)
    OBVIOUS
  <2>2. own.version = attempt[j.attempt].version + 1
    BY <2>1, RecordedRow, RowColumns
  <2>3. attempt'[t] = IF t = j.attempt THEN own ELSE attempt[t]
    BY <1>5, <2>1, RecordedRow DEF TypeOK
  <2> QED
    BY <1>1, <2>2, <2>3 DEF Counted
<1>6. ASSUME NEW j \in running, SettleConflict(j) PROVE Counted(t)
  <2>1. PICK own : own = Conflicted(attempt[j.attempt])
    OBVIOUS
  <2>2. own.version = attempt[j.attempt].version + 1
    BY <2>1, RecordedRow, RowColumns
  <2>3. attempt'[t] = IF t = j.attempt THEN own ELSE attempt[t]
    BY <1>6, <2>1, RecordedRow DEF TypeOK
  <2> QED
    BY <1>1, <2>2, <2>3 DEF Counted
<1>7. ASSUME NEW j \in running, Discard(j) \/ Crash(j) PROVE Counted(t)
  BY <1>1, <1>7 DEF Discard, Crash
<1>8. CASE UNCHANGED vars
  BY <1>1, <1>8 DEF vars
<1> QED
  BY <1>2, <1>3, <1>4, <1>5, <1>6, <1>7, <1>8 DEF Next, Record

LEMMA PaymentCountStep ==
  ASSUME TypeOK, [Next]_vars, NEW p \in Payment
  PROVE  payment'[p].version = payment[p].version + 1 \/ payment'[p] = payment[p]
<1>1. \A q, s : SetPayment(q, s) =>
        payment'[p].version = payment[p].version + 1 \/ payment'[p] = payment[p]
  BY DEF SetPayment, TypeOK
<1> QED
  BY <1>1 DEF Next, Record, Submit, Retry, Claim, ExpireLease, NextCheckDue, Reschedule,
     SettleWin, SettleConflict, Discard, Crash, vars

\* A write of an attempt or a payment raises its version by exactly one: the fence,
\* which compares versions, sees every write there was.
THEOREM VersionsCountWritesAlways == Spec => VersionsCountWrites
<1>1. TypeOK /\ [Next]_vars =>
        [/\ \A t \in Attempt :
              \/ attempt'[t].version = attempt[t].version + 1
              \/ attempt[t].status = "NONE" /\ attempt'[t] = NewAttempt
              \/ [attempt'[t] EXCEPT !.lease = attempt[t].lease,
                                     !.check = attempt[t].check] = attempt[t]
         /\ \A p \in Payment :
              \/ payment'[p].version = payment[p].version + 1
              \/ payment'[p] = payment[p]]_vars
  BY CountStep, PaymentCountStep DEF Counted
<1> QED
  BY <1>1, TypeCorrect, PTL DEF Spec, VersionsCountWrites

HIDE DEF Attempt

-----------------------------------------------------------------------------
(* Dispatchers, the queue and their failures do to attempts and payments   *)
(* only what Verification does.                                            *)

\* What waits in the queue, or for the recovery scan, names attempts.
NamesAttempts ==
  /\ queue \subseteq QueueJob
  /\ scan \in [Dispatcher -> SUBSET Wakeup]

LEMMA VerifyImplements ==
  ASSUME Verify
  PROVE  Next /\ UNCHANGED <<dispatching, queue>>
<1>1. ASSUME NEW p \in Payment, NEW h \in Hash, Along(Submit(p, h))
      PROVE  Next /\ UNCHANGED <<dispatching, queue>>
  BY <1>1 DEF Along, Next
<1>2. ASSUME NEW t \in Attempt, Along(Retry(t) \/ ExpireLease(t) \/ NextCheckDue(t))
      PROVE  Next /\ UNCHANGED <<dispatching, queue>>
  BY <1>2 DEF Along, Next
<1>3. ASSUME NEW j \in running, Along(Record(j) \/ Crash(j))
      PROVE  Next /\ UNCHANGED <<dispatching, queue>>
  BY <1>3 DEF Along, Next
<1> QED
  BY <1>1, <1>2, <1>3 DEF Verify

LEMMA WorkImplements ==
  ASSUME NamesAttempts, NEW q \in queue, Work(q)
  PROVE  [Next]_vars
<1>1. q.attempt \in Attempt
  BY DEF NamesAttempts, QueueJob
<1>2. CASE Claim(q.attempt)
  BY <1>1, <1>2 DEF Next
<1>3. CASE UNCHANGED vars
  BY <1>3
<1> QED
  BY <1>2, <1>3 DEF Work

\* What is not a step of Verification leaves its variables alone.
LEMMA StepImplements ==
  ASSUME NamesAttempts, DNext
  PROVE  [Next]_vars
<1>1. ASSUME NEW d \in Dispatcher, Dispatch(d) \/ Abort(d) PROVE UNCHANGED vars
  BY <1>1 DEF Dispatch, ClaimBatch, Send, Ack, Scan, Recover, Abort
<1>2. ASSUME NEW r \in DOMAIN row, ExpireRow(r) PROVE UNCHANGED vars
  BY <1>2 DEF ExpireRow
<1>3. ASSUME LoseQueue PROVE UNCHANGED vars
  BY <1>3 DEF LoseQueue
<1> QED
  BY <1>1, <1>2, <1>3, VerifyImplements, WorkImplements DEF DNext

-----------------------------------------------------------------------------
\* A statement returns rows that it selects from.
LEMMA BatchFrom ==
  ASSUME NEW S, NEW B \in Batches(S)
  PROVE  B \subseteq S
BY DEF Batches

LEMMA NamesKept ==
  ASSUME TypeOK, NamesAttempts, DNext
  PROVE  NamesAttempts'
<1>1. ASSUME UNCHANGED <<queue, scan>> PROVE NamesAttempts'
  BY <1>1 DEF NamesAttempts
<1>2. CASE Verify
  BY <1>1, <1>2, VerifyImplements DEF dispatching
<1>3. ASSUME NEW d \in Dispatcher, NEW r \in batch[d], Send(d, r)
      PROVE  NamesAttempts'
  <2>1. CASE r \in wakeups
    <3>1. [by |-> "outbox", attempt |-> r.attempt, version |-> r.version] \in QueueJob
      BY <2>1 DEF TypeOK, Wakeup, QueueJob
    <3> QED
      BY <1>3, <2>1, <3>1 DEF Send, NamesAttempts
  <2>2. CASE r \notin wakeups
    BY <1>1, <1>3, <2>2 DEF Send
  <2> QED
    BY <2>1, <2>2
<1>4. ASSUME NEW d \in Dispatcher, ClaimBatch(d) \/ Ack(d) PROVE NamesAttempts'
  BY <1>1, <1>4 DEF ClaimBatch, Ack
<1>5. ASSUME NEW d \in Dispatcher, Scan(d) PROVE NamesAttempts'
  <2>1. PICK D \in Batches({t \in Attempt : Recoverable(t)}) :
          scan' = [scan EXCEPT ![d] = {[attempt |-> t, version |-> attempt[t].version] : t \in D}]
    BY <1>5 DEF Scan
  <2>2. \A t \in D : attempt[t].version \in Nat /\ t \in Attempt
    BY BatchFrom DEF TypeOK, AttemptRow
  <2>3. {[attempt |-> t, version |-> attempt[t].version] : t \in D} \subseteq Wakeup
    BY <2>2 DEF Wakeup
  <2> QED
    BY <1>5, <2>1, <2>3 DEF Scan, NamesAttempts
<1>6. ASSUME NEW d \in Dispatcher, NEW a \in scan[d], Recover(d, a) PROVE NamesAttempts'
  <2>1. [by |-> "recovery", attempt |-> a.attempt, version |-> a.version] \in QueueJob
    BY DEF NamesAttempts, Wakeup, QueueJob
  <2> QED
    BY <1>6, <2>1 DEF Recover, NamesAttempts
<1>7. ASSUME NEW d \in Dispatcher, Abort(d) PROVE NamesAttempts'
  BY <1>7 DEF Abort, NamesAttempts
<1>8. ASSUME NEW q \in queue, Work(q) PROVE NamesAttempts'
  BY <1>8 DEF Work, NamesAttempts, dispatching
<1>9. CASE LoseQueue
  BY <1>9 DEF LoseQueue, NamesAttempts, dispatching
<1>10. ASSUME NEW r \in DOMAIN row, ExpireRow(r) PROVE NamesAttempts'
  BY <1>1, <1>10 DEF ExpireRow, dispatching
<1> QED
  BY <1>2, <1>3, <1>4, <1>5, <1>6, <1>7, <1>8, <1>9, <1>10 DEF DNext, Dispatch

\* Dispatchers, queues and their failures add nothing to what attempts and payments
\* go through: all that is proved of Verification holds of the system that delivers.
THEOREM DeliveryImplements == DSpec => Spec
<1>1. DInit => Init /\ TypeOK /\ NamesAttempts
  BY TypeInit DEF DInit, NamesAttempts
<1>2. TypeOK /\ NamesAttempts /\ [DNext]_dvars => TypeOK' /\ NamesAttempts' /\ [Next]_vars
  <2>1. ASSUME TypeOK, NamesAttempts, DNext PROVE TypeOK' /\ NamesAttempts' /\ [Next]_vars
    BY <2>1, StepImplements, TypeStep, NamesKept
  <2>2. ASSUME TypeOK, NamesAttempts, UNCHANGED dvars
        PROVE  TypeOK' /\ NamesAttempts' /\ [Next]_vars
    <3>1. UNCHANGED vars
      BY <2>2 DEF dvars
    <3> QED
      BY <2>2, <3>1, TypeStep DEF NamesAttempts, dvars, dispatching
  <2> QED
    BY <2>1, <2>2
<1> QED
  BY <1>1, <1>2, PTL DEF DSpec, Spec

-----------------------------------------------------------------------------
(* Acknowledgements. *)

\* A dispatcher acknowledges what it has on its way, and that it has handed over.
OnlyHanded ==
  /\ sent \in [Dispatcher -> handed \union {NoRow}]
  /\ row \in [DOMAIN row -> RowState]
  /\ AckMeansHanded

LEMMA HandedStep ==
  ASSUME OnlyHanded, DNext
  PROVE  OnlyHanded'
<1>1. ASSUME UNCHANGED <<sent, handed>>, row' \in [DOMAIN row' -> RowState],
             \A r \in DOMAIN row' : row'[r].delivered => r \in DOMAIN row /\ row[r].delivered
      PROVE  OnlyHanded'
  BY <1>1 DEF OnlyHanded, AckMeansHanded
<1>2. ASSUME InsertRows, UNCHANGED <<sent, handed>> PROVE OnlyHanded'
  BY <1>1, <1>2 DEF InsertRows, NewRow, OnlyHanded, RowState
<1>3. CASE Verify
  BY <1>2, <1>3 DEF Verify, Along, dispatching
<1>4. ASSUME NEW d \in Dispatcher, ClaimBatch(d) PROVE OnlyHanded'
  <2>1. PICK B \in Batches(Claimable) :
          row' = [r \in DOMAIN row |->
                    IF r \in B THEN [row[r] EXCEPT !.lease = "live", !.holder = d] ELSE row[r]]
    BY <1>4 DEF ClaimBatch
  <2>2. /\ row' \in [DOMAIN row' -> RowState]
        /\ \A r \in DOMAIN row' : row'[r].delivered => r \in DOMAIN row /\ row[r].delivered
    BY <2>1 DEF OnlyHanded, RowState
  <2> QED
    BY <1>1, <1>4, <2>2 DEF ClaimBatch
<1>5. ASSUME NEW d \in Dispatcher, NEW r \in batch[d], Send(d, r) PROVE OnlyHanded'
  BY <1>5 DEF Send, OnlyHanded, AckMeansHanded
<1>6. ASSUME NEW d \in Dispatcher, Ack(d) PROVE OnlyHanded'
  BY <1>6 DEF Ack, Acked, OnlyHanded, AckMeansHanded, RowState
<1>7. ASSUME NEW d \in Dispatcher, Scan(d) \/ (\E a \in scan[d] : Recover(d, a))
      PROVE  OnlyHanded'
  BY <1>1, <1>7 DEF Scan, Recover, OnlyHanded
<1>8. ASSUME NEW d \in Dispatcher, Abort(d) PROVE OnlyHanded'
  BY <1>8 DEF Abort, OnlyHanded, AckMeansHanded
<1>9. ASSUME NEW r \in DOMAIN row, ExpireRow(r) PROVE OnlyHanded'
  BY <1>1, <1>9 DEF ExpireRow, dispatching, OnlyHanded, RowState
<1>10. ASSUME NEW q \in queue, Work(q) PROVE OnlyHanded'
  BY <1>1, <1>10 DEF Work, dispatching, OnlyHanded
<1>11. CASE LoseQueue
  BY <1>1, <1>11 DEF LoseQueue, dispatching, OnlyHanded
<1> QED
  BY <1>3, <1>4, <1>5, <1>6, <1>7, <1>8, <1>9, <1>10, <1>11 DEF DNext, Dispatch

\* However many dispatchers claim a row, late or one after another, it is marked
\* delivered only if it was enqueued or published.
THEOREM AckMeansHandedAlways == DSpec => []AckMeansHanded
<1>1. DInit => OnlyHanded
  BY DEF DInit, Init, OnlyHanded, AckMeansHanded, NewRow, RowState
<1>2. OnlyHanded /\ [DNext]_dvars => OnlyHanded'
  <2>1. ASSUME OnlyHanded, UNCHANGED dvars PROVE OnlyHanded'
    BY <2>1 DEF OnlyHanded, AckMeansHanded, dvars, dispatching
  <2> QED
    BY <2>1, HandedStep
<1>3. OnlyHanded => AckMeansHanded
  BY DEF OnlyHanded
<1> QED
  BY <1>1, <1>2, <1>3, PTL DEF DSpec

-----------------------------------------------------------------------------
(* Types. *)

\* Batches are of rows, and what is on its way is of the batch, and of a tick that
\* dispatches.
Dispatching ==
  /\ \A d \in Dispatcher : /\ tick[d] # "dispatch" => sent[d] = NoRow
                           /\ scan[d] # {} => tick[d] = "recover"
  /\ batch \in [Dispatcher -> SUBSET DOMAIN row]
  /\ \A d \in Dispatcher : sent[d] \in batch[d] \union {NoRow}
  /\ sent \in [Dispatcher -> handed \union {NoRow}]

DTypeInv == TypeOK /\ NamesAttempts /\ Dispatching /\ DTypeOK

\* Transactions only add rows to the outbox.
LEMMA OutboxGrows ==
  ASSUME Verify
  PROVE  wakeups \union updates \subseteq wakeups' \union updates'
<1>1. ASSUME NEW p \in Payment, NEW h \in Hash, Submit(p, h)
      PROVE  wakeups \union updates \subseteq wakeups' \union updates'
  BY <1>1 DEF Submit, SetPayment, Wake
<1>2. ASSUME NEW t \in Attempt, Retry(t) \/ ExpireLease(t) \/ NextCheckDue(t)
      PROVE  wakeups \union updates \subseteq wakeups' \union updates'
  BY <1>2 DEF Retry, SetPayment, Wake, ExpireLease, NextCheckDue
<1>3. ASSUME NEW j, NEW v, Reschedule(j, v)
      PROVE  wakeups \union updates \subseteq wakeups' \union updates'
  BY <1>3 DEF Reschedule, SetPayment, Wake
<1>4. ASSUME NEW j, NEW b, SettleWin(j, b) \/ SettleConflict(j) \/ Discard(j) \/ Crash(j)
      PROVE  wakeups \union updates \subseteq wakeups' \union updates'
  BY <1>4 DEF SettleWin, SettleConflict, Discard, Crash, SetPayment
<1> QED
  BY <1>1, <1>2, <1>3, <1>4 DEF Verify, Along, Record

\* Rows are inserted, or none is.
LEMMA RowsType ==
  ASSUME DTypeInv, Verify
  PROVE  DTypeOK' /\ Dispatching'
<1>1. /\ DOMAIN row' = wakeups' \union updates'
      /\ \A r \in DOMAIN row' : row'[r] \in RowState
      /\ DOMAIN row \subseteq DOMAIN row'
  <2>1. row' = [r \in wakeups' \union updates' |-> IF r \in DOMAIN row THEN row[r] ELSE NewRow]
    BY DEF Verify, Along, InsertRows
  <2>2. NewRow \in RowState
    BY DEF NewRow, RowState
  <2>3. DOMAIN row = wakeups \union updates /\ \A r \in DOMAIN row : row[r] \in RowState
    BY DEF DTypeInv, DTypeOK
  <2> QED
    BY <2>1, <2>2, <2>3, OutboxGrows
<1>2. UNCHANGED <<dispatching, queue, handed, faults>>
  BY DEF Verify, Along
<1> QED
  BY <1>1, <1>2 DEF DTypeInv, DTypeOK, Dispatching, dispatching

\* Dispatchers that stop, and outbox rows that stay.
LEMMA SamePlaces ==
  ASSUME Dispatching, UNCHANGED <<row, handed>>,
         \A d \in Dispatcher : tick'[d] # "dispatch" => sent'[d] = NoRow,
         \A d \in Dispatcher : scan'[d] # {} => tick'[d] = "recover",
         batch' \in [Dispatcher -> SUBSET DOMAIN row],
         \A d \in Dispatcher : sent'[d] \in batch'[d] \union {NoRow},
         sent' \in [Dispatcher -> handed \union {NoRow}]
  PROVE  Dispatching'
BY DEF Dispatching

LEMMA TickType ==
  ASSUME DTypeInv, NEW d \in Dispatcher, Dispatch(d) \/ Abort(d)
  PROVE  DTypeOK' /\ Dispatching'
<1> USE DEF DTypeInv, DTypeOK, Dispatching
<1>1. UNCHANGED <<wakeups, updates>>
  BY DEF Dispatch, ClaimBatch, Send, Ack, Scan, Recover, Abort, vars
<1>2. CASE ClaimBatch(d)
  <2>1. PICK B \in Batches(Claimable) :
          /\ batch' = [batch EXCEPT ![d] = B]
          /\ row' = [r \in DOMAIN row |->
                     IF r \in B THEN [row[r] EXCEPT !.lease = "live", !.holder = d] ELSE row[r]]
    BY <1>2 DEF ClaimBatch
  <2>2. B \subseteq DOMAIN row
    BY BatchFrom DEF Claimable
  <2>3. DOMAIN row' = DOMAIN row /\ \A r \in DOMAIN row' : row'[r] \in RowState
    BY <2>1 DEF RowState
  <2> QED
    BY <1>1, <1>2, <2>1, <2>2, <2>3 DEF ClaimBatch
<1>3. ASSUME NEW r \in batch[d], Send(d, r) PROVE DTypeOK' /\ Dispatching'
  <2>1. queue' \subseteq QueueJob
    BY <1>3, NamesKept, <1>1 DEF Send, QueueJob, NamesAttempts, TypeOK, Wakeup
  <2> QED
    BY <1>1, <1>3, <2>1 DEF Send
<1>4. CASE Ack(d)
  <2>1. DOMAIN row' = DOMAIN row /\ \A r \in DOMAIN row' : row'[r] \in RowState
    BY <1>4 DEF Ack, RowState
  <2> QED
    BY <1>1, <1>4, <2>1 DEF Ack
<1>5. CASE Scan(d)
  <2>1. NamesAttempts'
    BY <1>5, NamesKept DEF DNext, Dispatch
  <2> QED
    BY <1>1, <1>5, <2>1 DEF Scan, NamesAttempts
<1>6. ASSUME NEW a \in scan[d], Recover(d, a) PROVE DTypeOK' /\ Dispatching'
  <2>1. NamesAttempts'
    BY <1>6, NamesKept DEF DNext, Dispatch
  <2> QED
    BY <1>1, <1>6, <2>1 DEF Recover, NamesAttempts
<1>7. CASE Abort(d)
  <2>1. faults' \in 0..MaxFaults
    BY <1>7, MaxFaultsAssumption DEF Abort
  <2>2. DTypeOK'
    BY <1>1, <1>7, <2>1 DEF Abort
  <2>3. UNCHANGED <<row, handed>> /\ batch' = [batch EXCEPT ![d] = {}]
        /\ sent' = [sent EXCEPT ![d] = NoRow]
    BY <1>7 DEF Abort
  <2>4. \A e \in Dispatcher : tick'[e] # "dispatch" => sent'[e] = NoRow
    BY <1>7 DEF Abort
  <2>5. \A e \in Dispatcher : scan'[e] # {} => tick'[e] = "recover"
    BY <1>7 DEF Abort, NamesAttempts
  <2>6. batch' \in [Dispatcher -> SUBSET DOMAIN row]
    BY <2>3
  <2>7. \A e \in Dispatcher : sent'[e] \in batch'[e] \union {NoRow}
    BY <2>3
  <2>8. Dispatching'
    BY <2>3, <2>4, <2>5, <2>6, <2>7, SamePlaces
  <2> QED
    BY <2>2, <2>8
<1> QED
  BY <1>2, <1>3, <1>4, <1>5, <1>6, <1>7 DEF Dispatch

\* Leases, the queue and its worker.
LEMMA QueueType ==
  ASSUME DTypeInv,
         LoseQueue \/ (\E r \in DOMAIN row : ExpireRow(r)) \/ \E q \in queue : Work(q)
  PROVE  DTypeOK' /\ Dispatching'
<1> USE DEF DTypeInv, DTypeOK, Dispatching, dispatching
<1>1. CASE LoseQueue
  BY <1>1, MaxFaultsAssumption DEF LoseQueue, vars
<1>2. ASSUME NEW r \in DOMAIN row, ExpireRow(r) PROVE DTypeOK' /\ Dispatching'
  <2>1. DOMAIN row' = DOMAIN row /\ \A s \in DOMAIN row' : row'[s] \in RowState
    BY <1>2 DEF ExpireRow, RowState
  <2> QED
    BY <1>2, <2>1, MaxFaultsAssumption DEF ExpireRow, vars
<1>3. ASSUME NEW q \in queue, Work(q) PROVE DTypeOK' /\ Dispatching'
  BY <1>3 DEF Work, Claim, vars
<1> QED
  BY <1>1, <1>2, <1>3

\* The outbox's columns, ticks, batches and jobs keep their types, and a dispatcher
\* has nothing on its way that it did not claim.
THEOREM DeliveryTypeCorrect == DSpec => []DTypeOK
<1>1. DInit => DTypeInv
  BY TypeInit, MaxFaultsAssumption
  DEF DInit, DTypeInv, NamesAttempts, Dispatching, DTypeOK, NewRow, RowState
<1>2. DTypeInv /\ [DNext]_dvars => DTypeInv'
  <2>1. ASSUME DTypeInv, DNext PROVE DTypeInv'
    <3>1. TypeOK' /\ NamesAttempts'
      BY <2>1, StepImplements, TypeStep, NamesKept DEF DTypeInv
    <3>2. DTypeOK' /\ Dispatching'
      BY <2>1, RowsType, TickType, QueueType DEF DNext
    <3> QED
      BY <3>1, <3>2 DEF DTypeInv
  <2>2. ASSUME DTypeInv, UNCHANGED dvars PROVE DTypeInv'
    <3>1. TypeOK'
      BY <2>2, TypeStep DEF DTypeInv, dvars
    <3> QED
      BY <2>2, <3>1 DEF DTypeInv, NamesAttempts, Dispatching, DTypeOK, dvars, vars, dispatching
  <2> QED
    BY <2>1, <2>2
<1>3. DTypeInv => DTypeOK
  BY DEF DTypeInv
<1> QED
  BY <1>1, <1>2, <1>3, PTL DEF DSpec
=============================================================================
