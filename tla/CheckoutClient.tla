--------------------------- MODULE CheckoutClient ---------------------------
(***************************************************************************)
(* One payment in the tabs of one browser: the send flow of every tab      *)
(* under the browser's Web Lock, the wallet with its prompts, the recovery *)
(* record in localStorage, and the panel that submits a hash from it or    *)
(* from the wallet's history.  Tabs are reloaded or die at any step; a     *)
(* prompt they opened stays, and may be approved later.                    *)
(*                                                                         *)
(* The server is seen through its snapshots.  Assumed of the browser: the  *)
(* storage is not cleared, and a lock dies with its tab.                   *)
(***************************************************************************)
EXTENDS Integers, FiniteSets

CONSTANTS
  Tab,
  Hash,        \* transfers the wallet is asked for, by the hash each would have
  Foreign,     \* hashes that the payer finds elsewhere, or mistypes
  NoTab, NoRecord, Marker, NoHash, NoSnapshot,
  MaxVersion,  \* bound: changes of the payment's status
  MaxPolls     \* bound: polls under way at a time, in all tabs

ASSUME RecordAssumption ==
  /\ NoRecord \notin Hash \union Foreign /\ Marker \notin Hash \union Foreign
  /\ NoRecord # Marker
  /\ NoHash \notin Hash \union Foreign
ASSUME TabAssumption == NoTab \notin Tab
ASSUME BoundAssumption == MaxVersion \in Nat /\ MaxPolls \in Nat

VARIABLES
  storage,  \* the recovery record: none, uncertainty (Marker), or a hash
  lock,     \* the tab that holds chainpay:send:<id>
  prompt,   \* what the wallet did with each transfer it was asked for
  step,     \* where each tab is; "idle" is running.current = false
  hand,     \* the transfer a tab waits for, or the hash it submits
  view,     \* the record as the page shows it (React state)
  notify,   \* tabs with a storage event to handle
  shown,    \* the snapshot each tab shows
  answer,   \* the answer of a tab's poll on its way
  reply,    \* the answer of a tab's refresh on its way
  server    \* the payment at the server

page == <<hand, view, notify, shown, answer, reply>>
vars == <<storage, lock, prompt, step, page, server>>

-----------------------------------------------------------------------------
Record == {NoRecord, Marker} \union Hash \union Foreign

PaymentStatus == {"AWAITING_PAYMENT", "PROCESSING", "CONFIRMED"}

Snapshot == [version : 0..MaxVersion, status : PaymentStatus]

ASSUME SnapshotAssumption == NoSnapshot \notin Snapshot

\* The awaits of send (authenticate stands for the balance check that follows, too),
\* and of submit; "last" is the refresh at its end, and that of "Refresh status".
Sending    == {"refresh", "authenticate", "recheck", "approve", "asked"}
Submitting == {"submit", "post", "renew", "repost"}
Busy       == Sending \union Submitting \union {"last"}
Step       == {"closed", "idle"} \union Busy

\* Those among them that await refresh().
Refreshing == {"refresh", "recheck", "submit", "last"}

ClientTypeOK ==
  /\ storage \in Record
  /\ lock \in Tab \union {NoTab}
  /\ lock # NoTab => step[lock] \in Busy
  /\ prompt \in [Hash -> {"none", "open", "sent", "declined"}]
  /\ step \in [Tab -> Step]
  /\ hand \in [Tab -> Hash \union Foreign \union {NoHash}]
  /\ \A t \in Tab : step[t] = "asked" => hand[t] \in Hash /\ lock = t
  /\ view \in [Tab -> Record]
  /\ notify \subseteq Tab
  /\ shown \in [Tab -> Snapshot \union {NoSnapshot}]
  /\ {answer, reply} \subseteq [Tab -> Snapshot \union {NoSnapshot}]
  /\ server \in Snapshot

Init ==
  /\ storage = NoRecord
  /\ lock = NoTab
  /\ prompt = [h \in Hash |-> "none"]
  /\ step = [t \in Tab |-> "closed"]
  /\ hand = [t \in Tab |-> NoHash]
  /\ view = [t \in Tab |-> NoRecord]
  /\ notify = {}
  /\ shown = [t \in Tab |-> NoSnapshot]
  /\ answer = [t \in Tab |-> NoSnapshot]
  /\ reply = [t \in Tab |-> NoSnapshot]
  /\ server = [version |-> 0, status |-> "AWAITING_PAYMENT"]

-----------------------------------------------------------------------------
(* The query. *)

\* Fault: the newest answer is shown, whatever its version.
NewerLatest(old, new) == new

\* structuralSharing: an older answer is dropped, CONFIRMED is kept.
Newer(old, new) ==
  IF old # NoSnapshot /\ (old.version > new.version \/ old.status = "CONFIRMED")
    THEN old ELSE new

\* What t shows once the answer s is merged.
Show(t, s) == shown' = [shown EXCEPT ![t] = Newer(shown[t], s)]

\* The page is loaded: the first answer, and the record as load() reads it.
Open(t) ==
  /\ step[t] = "closed"
  /\ step' = [step EXCEPT ![t] = "idle"]
  /\ view' = [view EXCEPT ![t] = storage]
  /\ Show(t, server)
  /\ UNCHANGED <<storage, lock, prompt, hand, notify, answer, reply, server>>

\* A poll reaches the server: by the interval, or by focus and reconnection.  How many
\* there may be (60 until the next refresh) is left out: any number.
Poll(t) ==
  /\ step[t] # "closed"
  /\ answer[t] = NoSnapshot
  /\ Cardinality({u \in Tab : answer[u] # NoSnapshot}) < MaxPolls
  /\ answer' = [answer EXCEPT ![t] = server]
  /\ UNCHANGED <<storage, lock, prompt, step, hand, view, notify, shown, reply, server>>

\* Its answer arrives, perhaps after that of a refresh that was sent later, or fails.
Polled(t) ==
  /\ answer[t] # NoSnapshot
  /\ Show(t, answer[t]) \/ UNCHANGED shown
  /\ answer' = [answer EXCEPT ![t] = NoSnapshot]
  /\ UNCHANGED <<storage, lock, prompt, step, hand, view, notify, reply, server>>

\* "Refresh status", while no poll is under way.
RefreshStatus(t) ==
  /\ step[t] = "idle" /\ answer[t] = NoSnapshot
  /\ step' = [step EXCEPT ![t] = "last"]
  /\ UNCHANGED <<storage, lock, prompt, page, server>>

\* The request of a refresh reaches the server.
RefreshRead(t) ==
  /\ step[t] \in Refreshing /\ reply[t] = NoSnapshot
  /\ reply' = [reply EXCEPT ![t] = server]
  /\ UNCHANGED <<storage, lock, prompt, step, hand, view, notify, shown, answer, server>>

-----------------------------------------------------------------------------
(* The record and the lock. *)

\* saveRecovery and clearRejectedRecovery of tab t; the other tabs are told.
Store(t, r) ==
  /\ storage' = r
  /\ notify' = IF r = storage THEN notify
               ELSE notify \union {u \in Tab \ {t} : step[u] # "closed"}

View(t, r) == view' = [view EXCEPT ![t] = r]

\* onStorage: load().
StorageEvent(t) ==
  /\ t \in notify
  /\ View(t, storage)
  /\ notify' = notify \ {t}
  /\ UNCHANGED <<storage, lock, prompt, step, hand, shown, answer, reply, server>>

\* Fault: a failed action leaves the lock behind.
GoHolding(t, s) == step' = [step EXCEPT ![t] = s] /\ UNCHANGED lock

\* t goes to step s; run() ends, and with it the lock, in "idle".
Go(t, s) ==
  /\ step' = [step EXCEPT ![t] = s]
  /\ lock' = IF s = "idle" /\ lock = t THEN NoTab ELSE lock

\* t ends what it is doing.
End(t) ==
  /\ Go(t, "idle")
  /\ hand' = [hand EXCEPT ![t] = NoHash]

\* Any await throws: the wallet declines a signature, an account or a chain is not
\* the payment's, a balance is too low, a request or a save fails.  After a prompt
\* was opened this is every error that is not an explicit rejection.
Fail(t) ==
  /\ step[t] \in Busy
  /\ End(t)
  /\ reply' = [reply EXCEPT ![t] = NoSnapshot]
  /\ UNCHANGED <<storage, prompt, view, notify, shown, answer, server>>

\* The tab is reloaded, closed or dies.
Crash(t) ==
  /\ step[t] # "closed"
  /\ step' = [step EXCEPT ![t] = "closed"]
  /\ lock' = IF lock = t THEN NoTab ELSE lock
  /\ hand' = [hand EXCEPT ![t] = NoHash]
  /\ View(t, NoRecord)
  /\ notify' = notify \ {t}
  /\ shown' = [shown EXCEPT ![t] = NoSnapshot]
  /\ answer' = [answer EXCEPT ![t] = NoSnapshot]
  /\ reply' = [reply EXCEPT ![t] = NoSnapshot]
  /\ UNCHANGED <<storage, prompt, server>>

-----------------------------------------------------------------------------
(* send. *)

\* Fault: the tabs are not coordinated.
LockAnyway == TRUE

\* navigator.locks.request with ifAvailable.
LockFree == lock = NoTab

\* The button "Pay", shown to a tab that knows of no record.  A record found under
\* the lock is shown instead; without the lock the tab is told of the other one.
Send(t) ==
  /\ step[t] = "idle"
  /\ shown[t].status = "AWAITING_PAYMENT" /\ view[t] = NoRecord
  /\ LockFree
  /\ \/ storage # NoRecord /\ View(t, storage) /\ UNCHANGED <<lock, step>>
     \/ /\ storage = NoRecord
        /\ lock' = t
        /\ step' = [step EXCEPT ![t] = "refresh"]
        /\ UNCHANGED view
  /\ UNCHANGED <<storage, prompt, hand, notify, shown, answer, reply, server>>

\* Where a refresh leads if its status allows to go on.
AfterRefresh == [refresh |-> "authenticate", recheck |-> "approve", submit |-> "post"]

GoesOn(s, status) == \/ s \in {"refresh", "recheck"} /\ status = "AWAITING_PAYMENT"
                     \/ s = "submit" /\ status # "CONFIRMED"

\* The answer of a refresh arrives: its snapshot is merged, and decides.
Refresh(t) ==
  /\ step[t] \in Refreshing /\ reply[t] # NoSnapshot
  /\ Show(t, reply[t])
  /\ reply' = [reply EXCEPT ![t] = NoSnapshot]
  /\ IF GoesOn(step[t], shown'[t].status)
       THEN Go(t, AfterRefresh[step[t]]) /\ UNCHANGED hand
       ELSE End(t)
  /\ UNCHANGED <<storage, prompt, view, notify, answer, server>>

\* authenticate: the challenge is signed and verified; and checkBalance.
Prepare(t) ==
  /\ \/ step[t] = "authenticate" /\ Go(t, "recheck")
     \/ step[t] = "renew" /\ Go(t, "repost")
  /\ UNCHANGED <<storage, prompt, page, server>>

\* Fault: uncertainty is recorded when the wallet has answered.
RemembersLater(t) == UNCHANGED <<storage, notify>>

\* beforeBroadcast: the marker is saved before the wallet is asked.
Remembers(t) == Store(t, Marker)

\* Fault: what the library sends is passed on to the wallet.
SendRequestedNever(t) == FALSE

\* sendRequested: the wallet has been asked.
SendRequested(t) == step[t] = "asked"

\* wallet.send, once its checks have passed: the prompt opens.  What the wallet library
\* sends once more after an error is refused, which fails.
Ask(t, h) ==
  /\ step[t] \in {"approve", "asked"} /\ ~SendRequested(t)
  /\ prompt[h] = "none"
  /\ Remembers(t)
  /\ View(t, Marker)
  /\ prompt' = [prompt EXCEPT ![h] = "open"]
  /\ hand' = [hand EXCEPT ![t] = h]
  /\ Go(t, "asked")
  /\ UNCHANGED <<shown, answer, reply, server>>

\* The payer answers the prompt, whether its tab is still there or not.
Decide(h, how) ==
  /\ prompt[h] = "open"
  /\ prompt' = [prompt EXCEPT ![h] = how]
  /\ UNCHANGED <<storage, lock, step, page, server>>

\* The wallet answers with the hash: it is saved, and submitted; if it cannot be
\* saved, the page shows it.
Sent(t) ==
  /\ step[t] = "asked" /\ prompt[hand[t]] = "sent"
  /\ View(t, hand[t])
  /\ \/ Store(t, hand[t]) /\ Go(t, "submit") /\ UNCHANGED hand
     \/ End(t) /\ UNCHANGED <<storage, notify>>
  /\ UNCHANGED <<prompt, shown, answer, reply, server>>

\* Fault: every error of the wallet counts as a rejection.
RejectionAny(t) == TRUE

\* isWalletRejection: code 4001.
Rejection(t) == prompt[hand[t]] = "declined"

\* The wallet answers with an explicit rejection: the marker is cleared.
Declined(t) ==
  /\ step[t] = "asked" /\ Rejection(t)
  /\ Store(t, NoRecord)
  /\ View(t, NoRecord)
  /\ End(t)
  /\ UNCHANGED <<prompt, shown, answer, reply, server>>

-----------------------------------------------------------------------------
(* submit, and the recovery panel, which takes no lock. *)

\* Hashes in the wallet's history.
History == Foreign \union {h \in Hash : prompt[h] = "sent"}

\* "Save and submit recovered hash".
RecoverHash(t, h) ==
  /\ step[t] = "idle"
  /\ shown[t].status # "CONFIRMED" /\ view[t] \in {NoRecord, Marker}
  /\ Store(t, h)
  /\ View(t, h)
  /\ hand' = [hand EXCEPT ![t] = h]
  /\ Go(t, "submit")
  /\ UNCHANGED <<prompt, shown, answer, reply, server>>

\* "Submit saved transaction".
SubmitSaved(t) ==
  /\ step[t] = "idle"
  /\ shown[t].status # "CONFIRMED" /\ view[t] \notin {NoRecord, Marker}
  /\ hand' = [hand EXCEPT ![t] = view[t]]
  /\ Go(t, "submit")
  /\ UNCHANGED <<storage, prompt, view, notify, shown, answer, reply, server>>

\* The payment after a change of its status to s.
Moved(s) == [version |-> server.version + 1, status |-> s]

Accepted == {server} \union
  (IF server.status = "AWAITING_PAYMENT" /\ server.version < MaxVersion
     THEN {Moved("PROCESSING")} ELSE {})

\* submitTransaction: accepted and saved as submitted; accepted, but the answer or
\* the save is lost; or the session has expired and is renewed once.
Post(t) ==
  /\ step[t] \in {"post", "repost"}
  /\ \/ /\ server' \in Accepted
        /\ Store(t, hand[t]) /\ View(t, hand[t])
        /\ Go(t, "last")
        /\ hand' = [hand EXCEPT ![t] = NoHash]
     \/ /\ server' \in Accepted
        /\ End(t)
        /\ UNCHANGED <<storage, notify, view>>
     \/ /\ step[t] = "post" /\ Go(t, "renew")
        /\ UNCHANGED <<server, storage, notify, view, hand>>
  /\ UNCHANGED <<prompt, shown, answer, reply>>

\* The payment at the server: a transaction from elsewhere, and the verdicts.
ServerMoves ==
  /\ server.version < MaxVersion
  /\ \/ server.status = "AWAITING_PAYMENT" /\ server' = Moved("PROCESSING")
     \/ /\ server.status = "PROCESSING"
        /\ server' \in {Moved("AWAITING_PAYMENT"), Moved("CONFIRMED")}
  /\ UNCHANGED <<storage, lock, prompt, step, page>>

Next ==
  \/ \E t \in Tab :
       \/ Open(t) \/ Crash(t) \/ Fail(t) \/ StorageEvent(t)
       \/ Poll(t) \/ Polled(t) \/ RefreshStatus(t) \/ RefreshRead(t)
       \/ Send(t) \/ Refresh(t) \/ Prepare(t) \/ Sent(t) \/ Declined(t)
       \/ SubmitSaved(t) \/ Post(t)
       \/ \E h \in Hash : Ask(t, h)
       \/ \E h \in History : RecoverHash(t, h)
  \/ \E h \in Hash : Decide(h, "sent") \/ Decide(h, "declined")
  \/ ServerMoves

Spec == Init /\ [][Next]_vars

-----------------------------------------------------------------------------
\* Transfers that the payer may still approve, or has approved.
Transfers == {h \in Hash : prompt[h] \in {"open", "sent"}}

\* This browser never asks for a second transfer while a first one may go through or
\* has gone through, in whatever tab, after whatever reload, failed save or lost
\* answer, and whatever the payer recovers by hand meanwhile.
OneTransfer == \A g, h \in Transfers : g = h

\* What a tab shows never goes back to an older version, nor from CONFIRMED, although
\* a poll's answer may arrive after that of a refresh sent later.
ShownAdvances ==
  [][\A t \in Tab : shown[t] # NoSnapshot /\ shown'[t] # NoSnapshot =>
       /\ shown'[t].version >= shown[t].version
       /\ shown[t].status = "CONFIRMED" => shown'[t] = shown[t]]_vars

\* README.md: "A known saved hash is never silently discarded, even if the attempt is
\* rejected".
SavedHashKept ==
  [][(storage \in Hash \union Foreign) => (storage' = storage)]_vars
=============================================================================
