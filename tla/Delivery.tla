------------------------------ MODULE Delivery ------------------------------
(***************************************************************************)
(* How due attempts reach a worker and events reach Redis: the outbox rows *)
(* that Verification writes, the dispatchers that claim them in batches    *)
(* under a lease, enqueue or publish each, and acknowledge it, the         *)
(* recovery scan that ends every tick, and the job queue, which may lose   *)
(* what it holds.                                                          *)
(*                                                                         *)
(* Verification assumes that a due attempt is eventually claimed.  Here    *)
(* nothing is claimed unless a job is taken from the queue, and the        *)
(* assumption is checked.                                                  *)
(***************************************************************************)
EXTENDS Verification

CONSTANTS
  Dispatcher,   \* worker processes; each runs one tick at a time
  NoDispatcher, \* the row is held by none
  NoRow,        \* a dispatcher with no row on its way
  BatchLimit,   \* LIMIT of the claiming UPDATE and of the recovery scan
  MaxFaults     \* bound: how often Redis fails, or a process fails or is late

ASSUME NoDispatcherAssumption == NoDispatcher \notin Dispatcher
ASSUME BatchLimitAssumption   == BatchLimit \in Nat \ {0}
ASSUME MaxFaultsAssumption    == MaxFaults \in Nat

VARIABLES
  row,        \* the outbox rows' lease, holder and acknowledgement
  tick,       \* where each dispatcher is: idle, dispatch or recover
  batch,      \* rows each dispatcher claimed and has not acknowledged yet
  sent,       \* the row it has enqueued or published and not acknowledged
  scan,       \* attempts its recovery scan returned and it has not enqueued
  queue,      \* jobs waiting in BullMQ
  handed,     \* history: rows enqueued or published at least once
  faults      \* failures so far

dispatching == <<tick, batch, sent, scan>>
dvars == <<vars, row, dispatching, queue, handed, faults>>

-----------------------------------------------------------------------------
\* `holder' stands for the row's `attempts' counter: the counter a dispatcher
\* got from its claim is the row's exactly while nobody claimed the row after it.
RowState == [lease : {"NULL", "live", "expired"},
             holder : Dispatcher \union {NoDispatcher},
             delivered : BOOLEAN]

NewRow == [lease |-> "NULL", holder |-> NoDispatcher, delivered |-> FALSE]

\* Jobs are told apart by their deterministic ids: outbox-<row> and
\* recovery-<attempt>-<version>; adding a job that is there changes nothing.
QueueJob == [by : {"outbox", "recovery"}, attempt : Attempt, version : Nat]

DTypeOK ==
  /\ DOMAIN row = wakeups \union updates
  /\ \A r \in DOMAIN row : row[r] \in RowState
  /\ tick \in [Dispatcher -> {"idle", "dispatch", "recover"}]
  /\ \A d \in Dispatcher : batch[d] \subseteq DOMAIN row
                           /\ sent[d] \in batch[d] \union {NoRow}
                           /\ scan[d] \subseteq Wakeup
  /\ queue \subseteq QueueJob
  /\ handed \subseteq DOMAIN row
  /\ faults \in 0..MaxFaults

DInit ==
  /\ Init
  /\ row = [r \in wakeups \union updates |-> NewRow]
  /\ tick = [d \in Dispatcher |-> "idle"]
  /\ batch = [d \in Dispatcher |-> {}]
  /\ sent = [d \in Dispatcher |-> NoRow]
  /\ scan = [d \in Dispatcher |-> {}]
  /\ queue = {}
  /\ handed = {}
  /\ faults = 0

\* Fault: rows are inserted without their delivery columns.
InsertRowsBare == UNCHANGED row

\* The rows a transaction of Verification inserts are undelivered and unleased.
InsertRows ==
  row' = [r \in wakeups' \union updates' |->
            IF r \in DOMAIN row THEN row[r] ELSE NewRow]

\* A VERIFY_ATTEMPT row becomes available with the next check it announces.
Available(r) ==
  r \in wakeups =>
    \/ attempt[r.attempt].version # r.version
    \/ attempt[r.attempt].check = "due"

\* Fault: a row whose lease ran out is not claimed again.
RowUnleasedOnly(r) == row[r].lease = "NULL"

RowUnleased(r) == row[r].lease # "live"

\* The rows the claiming UPDATE selects from.
Claimable == {r \in DOMAIN row : ~row[r].delivered /\ Available(r) /\ RowUnleased(r)}

\* Fault: the scan forgets attempts that a dead worker left under a lease.
RecoverableUnleased(t) == Due(t) /\ attempt[t].lease = "NULL"

\* The WHERE clause of the recovery scan, the same as the claim's.
Recoverable(t) == Due(t)

\* As many of the rows of S as one statement returns, in no particular order.
Batches(S) == IF Cardinality(S) <= BatchLimit THEN {S}
              ELSE {B \in SUBSET S : Cardinality(B) = BatchLimit}

-----------------------------------------------------------------------------
(* A tick of dispatcher d: dispatch(), then recover(). *)

\* The claiming UPDATE.
ClaimBatch(d) ==
  /\ tick[d] = "idle"
  /\ \E B \in Batches(Claimable) :
       /\ batch' = [batch EXCEPT ![d] = B]
       /\ row' = [r \in DOMAIN row |->
                    IF r \in B THEN [row[r] EXCEPT !.lease = "live", !.holder = d]
                               ELSE row[r]]
  /\ tick' = [tick EXCEPT ![d] = "dispatch"]
  /\ UNCHANGED <<vars, sent, scan, queue, handed, faults>>

\* A row of the batch is enqueued or published; nobody looks at its lease.
Send(d, r) ==
  /\ tick[d] = "dispatch"
  /\ sent[d] = NoRow
  /\ r \in batch[d]
  /\ IF r \in wakeups
       THEN queue' = queue \union
              {[by |-> "outbox", attempt |-> r.attempt, version |-> r.version]}
       ELSE UNCHANGED queue
  /\ handed' = handed \union {r}
  /\ sent' = [sent EXCEPT ![d] = r]
  /\ UNCHANGED <<vars, row, tick, batch, scan, faults>>

\* The rows an acknowledgement names.
Acked(d) == {sent[d]}

\* The acknowledgement, without effect once the lease ran out or another
\* dispatcher claimed the row.
Ack(d) ==
  /\ sent[d] # NoRow
  /\ row' = [r \in DOMAIN row |->
       IF r \in Acked(d) /\ row[r].holder = d /\ row[r].lease = "live" /\ ~row[r].delivered
         THEN [lease |-> "NULL", holder |-> d, delivered |-> TRUE]
         ELSE row[r]]
  /\ batch' = [batch EXCEPT ![d] = @ \ {sent[d]}]
  /\ sent' = [sent EXCEPT ![d] = NoRow]
  /\ UNCHANGED <<vars, tick, scan, queue, handed, faults>>

\* The batch is done; the recovery scan reads the due attempts.
Scan(d) ==
  /\ tick[d] = "dispatch"
  /\ batch[d] = {}
  /\ \E D \in Batches({t \in Attempt : Recoverable(t)}) :
       /\ scan' = [scan EXCEPT ![d] = {[attempt |-> t, version |-> attempt[t].version] : t \in D}]
       /\ tick' = [tick EXCEPT ![d] = IF D = {} THEN "idle" ELSE "recover"]
  /\ UNCHANGED <<vars, row, batch, sent, queue, handed, faults>>

\* One of them is enqueued; the last ends the tick.
Recover(d, a) ==
  /\ a \in scan[d]
  /\ queue' = queue \union
       {[by |-> "recovery", attempt |-> a.attempt, version |-> a.version]}
  /\ scan' = [scan EXCEPT ![d] = @ \ {a}]
  /\ tick' = [tick EXCEPT ![d] = IF scan[d] = {a} THEN "idle" ELSE "recover"]
  /\ UNCHANGED <<vars, row, batch, sent, handed, faults>>

\* Redis or the database refuses a call, which ends the tick at once, before the
\* recovery scan too, or the process dies: what was claimed stays leased.
Abort(d) ==
  /\ tick[d] # "idle"
  /\ faults < MaxFaults
  /\ faults' = faults + 1
  /\ tick' = [tick EXCEPT ![d] = "idle"]
  /\ batch' = [batch EXCEPT ![d] = {}]
  /\ sent' = [sent EXCEPT ![d] = NoRow]
  /\ scan' = [scan EXCEPT ![d] = {}]
  /\ UNCHANGED <<vars, row, queue, handed>>

\* The 30 seconds of a row's lease are over: a failure, if the dispatcher that
\* claimed it still has it in its batch.
ExpireRow(r) ==
  /\ row[r].lease = "live"
  /\ IF \E d \in Dispatcher : d = row[r].holder /\ r \in batch[d]
       THEN faults < MaxFaults /\ faults' = faults + 1
       ELSE UNCHANGED faults
  /\ row' = [row EXCEPT ![r].lease = "expired"]
  /\ UNCHANGED <<vars, dispatching, queue, handed>>

-----------------------------------------------------------------------------
(* The queue and its worker. *)

\* A job is taken and processed: the attempt is claimed if it is due, and
\* otherwise the job returns without effect.
Work(q) ==
  /\ q \in queue
  /\ queue' = queue \ {q}
  /\ \/ Claim(q.attempt)
     \/ ~Due(q.attempt) /\ UNCHANGED vars
  /\ UNCHANGED <<row, dispatching, handed, faults>>

\* Redis loses the jobs it holds.
LoseQueue ==
  /\ queue # {}
  /\ faults < MaxFaults
  /\ faults' = faults + 1
  /\ queue' = {}
  /\ UNCHANGED <<vars, row, dispatching, handed>>

-----------------------------------------------------------------------------
\* A step of Verification, with the rows it inserts.
Along(A) == A /\ InsertRows /\ UNCHANGED <<dispatching, queue, handed, faults>>

\* Every step of Verification but the claim.
Verify ==
  \/ \E p \in Payment, h \in Hash : Along(Submit(p, h))
  \/ \E t \in Attempt : Along(Retry(t) \/ ExpireLease(t) \/ NextCheckDue(t))
  \/ \E j \in running : Along(Record(j) \/ Crash(j))

Dispatch(d) ==
  \/ ClaimBatch(d)
  \/ \E r \in batch[d] : Send(d, r)
  \/ Ack(d)
  \/ Scan(d)
  \/ \E a \in scan[d] : Recover(d, a)

DNext ==
  \/ Verify
  \/ \E d \in Dispatcher : Dispatch(d) \/ Abort(d)
  \/ \E r \in DOMAIN row : ExpireRow(r)
  \/ \E q \in queue : Work(q)
  \/ LoseQueue

DSpec == DInit /\ [][DNext]_dvars

\* Timers tick, dispatchers and the queue's worker go on, leases run out and next
\* checks come due.  Verdicts, payers and merchants are free.
DFairness ==
  /\ \A d \in Dispatcher : WF_dvars(Dispatch(d))
  /\ WF_dvars(\E q \in queue : Work(q))
  /\ WF_dvars(\E r \in DOMAIN row : ExpireRow(r))
  /\ \A t \in Attempt : WF_dvars(Along(ExpireLease(t)))
  /\ \A t \in Attempt : WF_dvars(Along(NextCheckDue(t)))

DFairSpec == DSpec /\ DFairness

-----------------------------------------------------------------------------
\* A row is acknowledged only after it was enqueued or published, also when
\* another dispatcher claimed it meanwhile.
AckMeansHanded == \A r \in DOMAIN row : row[r].delivered => r \in handed

\* Every event of every payment is published at least once, although ticks are
\* aborted, processes die and leases run out in the middle of a batch.  (That it
\* is acknowledged is not promised: each send may outlast the lease.)
EveryUpdatePublished == []<>(updates \subseteq handed)

\* The fairness Verification assumes: a due attempt is claimed in the end, although
\* the queue may lose jobs that are acknowledged already.
ImplementsVerification == FairSpec
=============================================================================
