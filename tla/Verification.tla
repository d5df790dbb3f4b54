---------------------------- MODULE Verification ----------------------------
(***************************************************************************)
(* The durable state machine at the centre of chainpay: payments, the      *)
(* transaction hashes payers submit for them (payment_attempts), and the   *)
(* settlements that confirm them, as the API (TransactionService) and any  *)
(* number of workers (VerificationProcessor, settle) change them.          *)
(*                                                                         *)
(* Every action is one committed database transaction, or one autocommit   *)
(* statement.  What a worker remembers between its claim of an attempt and *)
(* the transaction that records the outcome is in `running': it may be     *)
(* stale when it is used, and the lease/version fence is what protects the *)
(* rows from it.                                                           *)
(*                                                                         *)
(* Time is abstracted to two facts of a row: whether its lease has run     *)
(* out, and whether its next_check_at has come.                            *)
(***************************************************************************)
EXTENDS Integers, FiniteSets

CONSTANTS
  Payment,      \* payments, created and bound to a payer
  Hash,         \* transaction hashes payers may submit
  Chain,        \* chain ids of the asset allowlist
  ChainOf,      \* the chain of each payment
  Block,        \* block hashes a transaction may be included in
  NoBlock,      \* block_hash IS NULL
  NoHash,       \* the payment has no settlement
  RetryBudget,  \* technical failures before an attempt needs review
  MaxVersion    \* bound: attempts reaching this version are left alone

ASSUME ChainOfAssumption     == ChainOf \in [Payment -> Chain]
ASSUME NoBlockAssumption     == NoBlock \notin Block
ASSUME NoHashAssumption      == NoHash \notin Hash
ASSUME RetryBudgetAssumption == RetryBudget \in Nat \ {0}
ASSUME MaxVersionAssumption  == MaxVersion \in Nat

VARIABLES
  payment,     \* payments: status and version of each
  attempt,     \* payment_attempts, keyed by UNIQUE(payment_id, tx_hash)
  settlement,  \* settlements: the transaction that paid each payment, if any
  allocated,   \* payer_bindings whose allocation_key is not NULL
  updates,     \* outbox rows PAYMENT_UPDATED
  wakeups,     \* outbox rows VERIFY_ATTEMPT; `version' is the attempt's version
               \* at the insertion, and only tells the rows apart
  running      \* jobs between the claim and the recording transaction, with
               \* the columns RETURNING * gave them

vars == <<payment, attempt, settlement, allocated, updates, wakeups, running>>

-----------------------------------------------------------------------------
(* Rows. *)

\* The attempts there can be; an attempt t is of payment t[1] for hash t[2].
Attempt == Payment \X Hash

PaymentStatus == {"AWAITING_PAYMENT", "PROCESSING", "CONFIRMED"}

\* "NONE" stands for the absence of the row.
AttemptStatus == {"NONE", "SUBMITTED", "VERIFYING", "PENDING_CHAIN",
                  "CONFIRMING", "REJECTED", "NEEDS_REVIEW", "VERIFIED"}

\* The statuses workers and the recovery scan look for.
Recheckable == {"SUBMITTED", "VERIFYING", "PENDING_CHAIN", "CONFIRMING"}

\* The statuses that occupy the payment's only slot (index one_active_attempt).
Active == Recheckable \union {"NEEDS_REVIEW"}

PaymentRow == [status : PaymentStatus, version : Nat]

AttemptRow ==
  [status  : AttemptStatus,
   version : Nat,
   retries : Nat,                          \* retry_count
   block   : Block \union {NoBlock},       \* block_hash
   error   : {"NULL", "VERDICT", "TRANSACTION_ALREADY_SETTLED"}, \* error_code
   lease   : {"NULL", "live", "expired"},  \* lease_until against the clock
   check   : {"due", "later"}]             \* next_check_at against the clock

Update == [payment : Payment, status : PaymentStatus, version : Nat]
Wakeup == [attempt : Attempt, version : Nat]
Job    == [attempt : Attempt, version : Nat, retries : Nat,
           block : Block \union {NoBlock}]

NoAttempt == [status |-> "NONE", version |-> 0, retries |-> 0,
              block |-> NoBlock, error |-> "NULL",
              lease |-> "NULL", check |-> "due"]

\* A fresh row has the defaults of migration 0002.
NewAttempt == [NoAttempt EXCEPT !.status = "SUBMITTED"]

TypeOK ==
  /\ payment \in [Payment -> PaymentRow]
  /\ attempt \in [Attempt -> AttemptRow]
  /\ settlement \in [Payment -> Hash \union {NoHash}]
  /\ allocated \subseteq Payment
  /\ updates \subseteq Update
  /\ wakeups \subseteq Wakeup
  /\ running \subseteq Job

\* Payments as create left them, with the event it wrote, each bound to a payer.
Init ==
  /\ payment = [p \in Payment |-> [status |-> "AWAITING_PAYMENT", version |-> 0]]
  /\ attempt = [t \in Attempt |-> NoAttempt]
  /\ settlement = [p \in Payment |-> NoHash]
  /\ allocated = Payment
  /\ updates = [payment : Payment, status : {"AWAITING_PAYMENT"}, version : {0}]
  /\ wakeups = {}
  /\ running = {}

-----------------------------------------------------------------------------
(* Helpers of the transactions. *)

\* Fault: the event is built from the row as it was read, before the UPDATE.
SetPaymentOldEvent(p, status) ==
  /\ payment' = [payment EXCEPT ![p] = [status  |-> status,
                                        version |-> payment[p].version + 1]]
  /\ updates' = updates \union {[payment |-> p, status |-> status,
                                 version |-> payment[p].version]}

\* UPDATE payments SET status, version=version+1, and the PAYMENT_UPDATED row
\* written from the row it leaves.
SetPayment(p, status) ==
  /\ payment' = [payment EXCEPT ![p] = [status  |-> status,
                                        version |-> payment[p].version + 1]]
  /\ updates' = updates \union {[payment |-> p, status |-> status,
                                 version |-> payment[p].version + 1]}

\* The VERIFY_ATTEMPT row of an attempt that is about to reach version v.
Wake(t, v) == wakeups' = wakeups \union {[attempt |-> t, version |-> v]}

\* Fault: the fence trusts a live lease, whoever holds it.
FencedByLease(j) ==
  /\ attempt[j.attempt].status = "VERIFYING"
  /\ attempt[j.attempt].lease = "live"

\* The fence: the row is still the one this job claimed, and its lease runs.
Fenced(j) ==
  /\ attempt[j.attempt].version = j.version
  /\ attempt[j.attempt].status = "VERIFYING"
  /\ attempt[j.attempt].lease = "live"

-----------------------------------------------------------------------------
(* The API: TransactionService. *)

\* No attempt of the payment is active.
SlotFree(p) == \A g \in Hash : attempt[<<p, g>>].status \notin Active

\* A payer submits hash h for payment p.  A confirmed payment and a hash the
\* payment already has are answered from the database, without a change.
Submit(p, h) ==
  /\ payment[p].status # "CONFIRMED"
  /\ attempt[<<p, h>>].status = "NONE"
  /\ SlotFree(p)
  /\ attempt' = [attempt EXCEPT ![<<p, h>>] = NewAttempt]
  /\ SetPayment(p, "PROCESSING")
  /\ Wake(<<p, h>>, 0)
  /\ UNCHANGED <<settlement, allocated, running>>

\* Fault: rejected attempts can be resumed as well.
ResumableIfRejected(t) == attempt[t].status \in {"NEEDS_REVIEW", "REJECTED"}

Resumable(t) == attempt[t].status = "NEEDS_REVIEW"

\* The resumed row; the recorded block is kept.
Resumed(row) ==
  [row EXCEPT !.status = "SUBMITTED", !.version = @ + 1, !.retries = 0,
              !.error = "NULL", !.lease = "NULL", !.check = "due"]

\* The merchant resumes an attempt that needs review.  The payment's status is
\* not touched.
Retry(t) ==
  /\ Resumable(t)
  /\ attempt[t].version < MaxVersion
  /\ attempt' = [attempt EXCEPT ![t] = Resumed(@)]
  /\ SetPayment(t[1], payment[t[1]].status)
  /\ Wake(t, attempt[t].version + 1)
  /\ UNCHANGED <<settlement, allocated, running>>

-----------------------------------------------------------------------------
(* The workers: VerificationProcessor.process and settle. *)

\* Fault: the claim forgets attempts whose lease ran out.
UnleasedOnly(row) == row.lease = "NULL"

\* lease_until IS NULL OR lease_until<now()
Unleased(row) == row.lease \in {"NULL", "expired"}

\* The WHERE clause of the claim.
Due(t) ==
  /\ attempt[t].status \in Recheckable
  /\ attempt[t].check = "due"
  /\ Unleased(attempt[t])
  /\ attempt[t].version < MaxVersion

\* The row a claim leaves.
Claimed(row) ==
  [row EXCEPT !.status = "VERIFYING", !.version = @ + 1, !.lease = "live"]

\* The claiming UPDATE ... RETURNING *.
Claim(t) ==
  /\ Due(t)
  /\ attempt' = [attempt EXCEPT ![t] = Claimed(@)]
  /\ running' = running \union
       {[attempt |-> t, version |-> attempt[t].version + 1,
         retries |-> attempt[t].retries, block |-> attempt[t].block]}
  /\ UNCHANGED <<payment, settlement, allocated, updates, wakeups>>

\* Fault: the evidence is not compared with the block recorded before.
EvidenceAnywhere(j) == Block

\* Blocks the verifier's evidence may name: it answers REORG_DETECTED when the
\* receipt is in another block than the one recorded before.
Evidence(j) == IF j.block = NoBlock THEN Block ELSE {j.block}

\* The verdicts that do not settle, with the block of their evidence.
Verdicts(j) ==
  [status : {"PENDING_CHAIN", "REJECTED", "RETRY"}, block : {NoBlock}]
    \union [status : {"CONFIRMING"}, block : Evidence(j)]

\* retry_count after a verdict: only technical failures count.
Retries(j, v) == j.retries + (IF v.status = "RETRY" THEN 1 ELSE 0)

\* Fault: one failure more than the budget.
NextStatusOneMore(j, v) ==
  IF v.status # "RETRY" THEN v.status
  ELSE IF Retries(j, v) > RetryBudget THEN "NEEDS_REVIEW" ELSE "PENDING_CHAIN"

\* Fault: the verdict is written as it is.
NextStatusRaw(j, v) == v.status

\* The attempt's next status after a verdict.
NextStatus(j, v) ==
  IF v.status # "RETRY" THEN v.status
  ELSE IF Retries(j, v) >= RetryBudget THEN "NEEDS_REVIEW" ELSE "PENDING_CHAIN"

\* Fault: a rejection does not reopen the payment.
PaymentAfterNever(s) == "PROCESSING"

\* The payment's status after a verdict left its attempt in status s.
PaymentAfter(s) == IF s = "REJECTED" THEN "AWAITING_PAYMENT" ELSE "PROCESSING"

\* Fault: technical failures are left to the recovery scan.
WaitsConfirming(s) == s = "CONFIRMING"

\* The statuses a VERIFY_ATTEMPT row is written for.
Waits(s) == s \in {"PENDING_CHAIN", "CONFIRMING"}

\* The row a verdict leaves.
Verdicted(j, v) ==
  [status  |-> NextStatus(j, v),
   version |-> j.version + 1,
   retries |-> Retries(j, v),
   block   |-> v.block,
   error   |-> IF v.status = "CONFIRMING" THEN "NULL" ELSE "VERDICT",
   lease   |-> "NULL",
   check   |-> "later"]

\* The transaction that records a verdict other than VERIFIED.
Reschedule(j, v) ==
  LET t == j.attempt
      p == t[1]
      s == NextStatus(j, v)
  IN
  /\ Fenced(j)
  /\ attempt' = [attempt EXCEPT ![t] = Verdicted(j, v)]
  /\ IF payment[p].status = "CONFIRMED"
       THEN UNCHANGED <<payment, updates>>
       ELSE SetPayment(p, PaymentAfter(s))
  /\ IF Waits(s) THEN Wake(t, j.version + 1) ELSE UNCHANGED wakeups
  /\ running' = running \ {j}
  /\ UNCHANGED <<settlement, allocated>>

\* Fault: only the payment's own settlement counts.
ConflictsWithItself(t) == settlement[t[1]] # NoHash

\* UNIQUE(payment_id) or UNIQUE(chain_id, tx_hash) of settlements refuses the row.
Conflicts(t) ==
  \/ settlement[t[1]] # NoHash
  \/ \E q \in Payment : ChainOf[q] = ChainOf[t[1]] /\ settlement[q] = t[2]

\* Fault: the claim outlives the settlement.
ReleaseNever(p) == UNCHANGED allocated

\* UPDATE payer_bindings SET allocation_key=NULL
Release(p) == allocated' = allocated \ {p}

\* The rows settle leaves.
Verified(row, b) ==
  [row EXCEPT !.status = "VERIFIED", !.version = @ + 1, !.block = b,
              !.error = "NULL", !.lease = "NULL"]
Conflicted(row) ==
  [row EXCEPT !.status = "NEEDS_REVIEW", !.version = @ + 1,
              !.error = "TRANSACTION_ALREADY_SETTLED", !.lease = "NULL"]

\* settle, when its INSERT INTO settlements wins.
SettleWin(j, b) ==
  LET t == j.attempt IN
  /\ Fenced(j)
  /\ payment[t[1]].status # "CONFIRMED"
  /\ ~Conflicts(t)
  /\ settlement' = [settlement EXCEPT ![t[1]] = t[2]]
  /\ attempt' = [attempt EXCEPT ![t] = Verified(@, b)]
  /\ SetPayment(t[1], "CONFIRMED")
  /\ Release(t[1])
  /\ running' = running \ {j}
  /\ UNCHANGED wakeups

\* settle, when the transaction is already the settlement of another payment.
SettleConflict(j) ==
  LET t == j.attempt IN
  /\ Fenced(j)
  /\ payment[t[1]].status # "CONFIRMED"
  /\ Conflicts(t)
  /\ attempt' = [attempt EXCEPT ![t] = Conflicted(@)]
  /\ SetPayment(t[1], payment[t[1]].status)
  /\ running' = running \ {j}
  /\ UNCHANGED <<settlement, allocated, wakeups>>

\* The fenced statement finds no row: ROLLBACK, the outcome is dropped.
Discard(j) ==
  /\ ~Fenced(j)
  /\ running' = running \ {j}
  /\ UNCHANGED <<payment, attempt, settlement, allocated, updates, wakeups>>

\* The worker dies, or its recording transaction fails and rolls back.
Crash(j) ==
  /\ running' = running \ {j}
  /\ UNCHANGED <<payment, attempt, settlement, allocated, updates, wakeups>>

-----------------------------------------------------------------------------
(* The clock. *)

ExpireLease(t) ==
  /\ attempt[t].lease = "live"
  /\ attempt' = [attempt EXCEPT ![t] = [@ EXCEPT !.lease = "expired"]]
  /\ UNCHANGED <<payment, settlement, allocated, updates, wakeups, running>>

NextCheckDue(t) ==
  /\ attempt[t].check = "later"
  /\ attempt' = [attempt EXCEPT ![t] = [@ EXCEPT !.check = "due"]]
  /\ UNCHANGED <<payment, settlement, allocated, updates, wakeups, running>>

-----------------------------------------------------------------------------
Record(j) ==
  \/ \E v \in Verdicts(j) : Reschedule(j, v)
  \/ \E b \in Evidence(j) : SettleWin(j, b)
  \/ SettleConflict(j)
  \/ Discard(j)

Next ==
  \/ \E p \in Payment, h \in Hash : Submit(p, h)
  \/ \E t \in Attempt : Retry(t) \/ Claim(t) \/ ExpireLease(t) \/ NextCheckDue(t)
  \/ \E j \in running : Record(j) \/ Crash(j)

Spec == Init /\ [][Next]_vars

-----------------------------------------------------------------------------
(* Safety. *)

PaymentAgrees(p) ==
  /\ payment[p].status = "PROCESSING" <=>
       \E h \in Hash : attempt[<<p, h>>].status \in Active
  /\ payment[p].status = "CONFIRMED" <=> settlement[p] # NoHash
  /\ \A h \in Hash : attempt[<<p, h>>].status = "VERIFIED" <=> settlement[p] = h

\* The payment's status and its attempts never disagree, although each handler
\* writes them with separate statements: PROCESSING exactly while an attempt is
\* active, CONFIRMED exactly when an attempt is VERIFIED, never with an active
\* one left, and that attempt's hash is the payment's settlement.
StatusAgrees == \A p \in Payment : PaymentAgrees(p)

\* At most one attempt of a payment is active (index one_active_attempt would
\* otherwise turn a submission into an unexpected error), NEEDS_REVIEW included,
\* however resubmissions, retries and late workers interleave.
OneActive ==
  \A p \in Payment, g, h \in Hash :
    attempt[<<p, g>>].status \in Active /\ attempt[<<p, h>>].status \in Active
      => g = h

\* A payment's rows tell one story, however resubmissions, retries and late workers
\* interleave.
RowsAgree == StatusAgrees /\ OneActive

\* A transaction of a chain pays at most one payment, even when two payments of
\* the same terms verified it at the same time.
SettledOnce ==
  \A p, q \in Payment :
    /\ settlement[p] # NoHash
    /\ settlement[p] = settlement[q]
    /\ ChainOf[p] = ChainOf[q]
    => p = q

\* However many jobs hold an outcome for an attempt, stale ones among them, at
\* most one can still write it, and what it remembers of the row is the row.
OneWriter ==
  /\ \A i, j \in running :
       i.attempt = j.attempt /\ Fenced(i) /\ Fenced(j) => i = j
  /\ \A j \in running :
       Fenced(j) => /\ j.retries = attempt[j.attempt].retries
                    /\ j.block = attempt[j.attempt].block

\* The events of a payment are gap-free and exact: one status per version, for
\* every version from creation to now, the newest telling the current status, and
\* CONFIRMED only as the last.  Clients drop older versions, so an event
\* missing, repeated with another status or written after CONFIRMED would leave
\* a dashboard wrong for good.
FeedExact ==
  \A p \in Payment :
    /\ {u.version : u \in {w \in updates : w.payment = p}} = 0..payment[p].version
    /\ \A u, w \in updates :
         u.payment = p /\ w.payment = p /\ u.version = w.version => u = w
    /\ [payment |-> p, status |-> payment[p].status,
        version |-> payment[p].version] \in updates
    /\ \A u \in updates :
         u.payment = p /\ u.status = "CONFIRMED" => u.version = payment[p].version

\* Review is asked for after RetryBudget technical failures or because another
\* payment of the chain was settled with the transaction, and for no other
\* reason; an attempt that workers still pick up has budget left.
ReviewHasReason ==
  \A t \in Attempt :
    /\ attempt[t].status = "NEEDS_REVIEW" =>
         \/ attempt[t].retries = RetryBudget
         \/ /\ attempt[t].error = "TRANSACTION_ALREADY_SETTLED"
            /\ \E q \in Payment \ {t[1]} :
                 ChainOf[q] = ChainOf[t[1]] /\ settlement[q] = t[2]
    /\ attempt[t].status \in Recheckable => attempt[t].retries < RetryBudget

\* An attempt that waits for a worker has a VERIFY_ATTEMPT row written by the
\* transaction that made it wait; only an attempt a dead worker left VERIFYING
\* depends on the recovery scan.
WaitingHasWakeup ==
  \A t \in Attempt :
    attempt[t].status \in Recheckable \ {"VERIFYING"} =>
      [attempt |-> t, version |-> attempt[t].version] \in wakeups

\* The allocation claim of a payment is held until its settlement and released
\* by it, whatever rejected, conflicting or late attempts it has.
AllocatedUntilPaid ==
  \A p \in Payment : p \in allocated <=> payment[p].status # "CONFIRMED"

-----------------------------------------------------------------------------
(* What a step may never do. *)

\* Outcomes are final: a rejected or verified attempt keeps its row, a confirmed
\* payment its row and its settlement, whatever late workers and retries do.
OutcomesAreFinal ==
  [][/\ \A t \in Attempt :
          attempt[t].status \in {"REJECTED", "VERIFIED"} =>
            [attempt'[t] EXCEPT !.check = attempt[t].check] = attempt[t]
     /\ \A p \in Payment :
          payment[p].status = "CONFIRMED" =>
            payment'[p] = payment[p] /\ settlement'[p] = settlement[p]]_vars

\* The block an attempt was last seen in is never replaced by another: it is
\* first forgotten, so that the new inclusion is verified from the start.
InclusionNeverSwitches ==
  [][\A t \in Attempt :
       attempt[t].block # NoBlock =>
         attempt'[t].block \in {attempt[t].block, NoBlock}]_vars

\* Row versions count the writes of a row: a step that changes an attempt or a
\* payment raises its version by exactly one.  Every fence rests on this.
VersionsCountWrites ==
  [][/\ \A t \in Attempt :
          \/ attempt'[t].version = attempt[t].version + 1
          \/ attempt[t].status = "NONE" /\ attempt'[t] = NewAttempt
          \/ [attempt'[t] EXCEPT !.lease = attempt[t].lease,
                                 !.check = attempt[t].check] = attempt[t]
     /\ \A p \in Payment :
          \/ payment'[p].version = payment[p].version + 1
          \/ payment'[p] = payment[p]]_vars

-----------------------------------------------------------------------------
(* The abstract specification. *)

Ledger == INSTANCE PaymentLedger WITH
  pending <- {t \in Attempt : attempt[t].status \in Active},
  refused <- {t \in Attempt : attempt[t].status = "REJECTED"},
  paidBy  <- settlement

\* Submissions, verdicts and settlements, with all the retries, crashes and late
\* workers in between, do nothing that the ledger does not allow.
ImplementsLedger == Ledger!Spec

-----------------------------------------------------------------------------
(* Liveness. *)

\* Leases run out, next checks come due, and a due attempt is eventually claimed
\* by some worker.  Nothing is assumed of payers, merchants, verdicts or crashes: a
\* claimed job may never record anything.
Fairness ==
  \A t \in Attempt :
    /\ WF_vars(ExpireLease(t))
    /\ WF_vars(NextCheckDue(t))
    /\ WF_vars(Claim(t))

FairSpec == Spec /\ Fairness

\* No attempt is ever stuck: as long as its status says that workers are to check
\* it, its row moves on, whichever workers died with it in hand.
NeverStuck ==
  \A t \in Attempt, v \in 0..MaxVersion-1 :
    (attempt[t].status \in Recheckable /\ attempt[t].version = v)
      ~> attempt[t].version > v
=============================================================================
