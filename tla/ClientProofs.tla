---------------------------- MODULE ClientProofs ----------------------------
(***************************************************************************)
(* The tabs of a browser ask for one transfer, however many they are.      *)
(***************************************************************************)
EXTENDS CheckoutClient, TLAPS

USE DEF page

\* What a tab is doing, seen from the transfers: from the lock to the prompt there is
\* none; then there is at most the one it asked for.
TabInv(t) ==
  /\ step[t] \in Sending => lock = t
  /\ step[t] \in Sending \ {"asked"} => Transfers = {}
  /\ step[t] = "asked" => Transfers \subseteq {hand[t]}
  /\ step[t] \in Submitting => hand[t] \in Hash \union Foreign

\* A transfer always leaves its trace in the storage, which no tab that is about to
\* ask overlooks: it reads the storage under the lock.
ClientInv ==
  /\ ClientTypeOK
  /\ OneTransfer
  /\ storage = NoRecord => Transfers = {}
  /\ \A t \in Tab : TabInv(t)

USE DEF Sending, Submitting, Busy, Step

LEMMA ClientInit == Init => ClientInv
<1> SUFFICES ASSUME Init PROVE ClientInv
  OBVIOUS
<1>1. Transfers = {}
  BY DEF Init, Transfers
<1>2. ClientTypeOK
  BY TabAssumption, BoundAssumption
  DEF Init, ClientTypeOK, Record, Snapshot, PaymentStatus
<1>3. \A t \in Tab : TabInv(t)
  BY <1>1 DEF Init, TabInv
<1> QED
  BY <1>1, <1>2, <1>3 DEF ClientInv, OneTransfer

\* What an answer leaves is a snapshot of its type.
LEMMA ShownType ==
  ASSUME ClientTypeOK, NEW t \in Tab, NEW s \in Snapshot, Show(t, s)
  PROVE  shown' \in [Tab -> Snapshot \union {NoSnapshot}]
BY DEF ClientTypeOK, Show, Newer

-----------------------------------------------------------------------------
(* Steps by kind. *)

\* Nothing that matters for transfers moves.
LEMMA QuietStep ==
  ASSUME ClientInv, ClientTypeOK', UNCHANGED <<prompt, lock, step, hand>>,
         storage' = NoRecord => storage = NoRecord
  PROVE  ClientInv'
BY DEF ClientInv, OneTransfer, Transfers, TabInv

\* A tab goes on, or ends and gives the lock back, without opening a prompt.
LEMMA TabStep ==
  ASSUME ClientInv, ClientTypeOK', UNCHANGED prompt,
         storage' = NoRecord => storage = NoRecord,
         NEW t \in Tab,
         \A u \in Tab : u # t => step'[u] = step[u] /\ hand'[u] = hand[u],
         lock' = lock \/ (lock = t /\ lock' = NoTab /\ step'[t] \notin Sending),
         TabInv(t)'
  PROVE  ClientInv'
<1>1. Transfers' = Transfers
  BY DEF Transfers
<1>2. ASSUME NEW u \in Tab, u # t PROVE TabInv(u)'
  <2>1. TabInv(u)
    BY DEF ClientInv
  <2> QED
    BY <1>1, <1>2, <2>1, TabAssumption DEF TabInv
<1> QED
  BY <1>1, <1>2 DEF ClientInv, OneTransfer
-----------------------------------------------------------------------------
(* Types. *)

LEMMA StoreType ==
  ASSUME ClientTypeOK, NEW t \in Tab, NEW r \in Record, Store(t, r)
  PROVE  storage' \in Record /\ notify' \subseteq Tab
BY DEF ClientTypeOK, Store

LEMMA ViewType ==
  ASSUME ClientTypeOK, NEW t \in Tab, NEW r \in Record, View(t, r)
  PROVE  view' \in [Tab -> Record]
BY DEF ClientTypeOK, View

\* Steps and locks stay in step.
LockType ==
  /\ lock \in Tab \union {NoTab}
  /\ lock # NoTab => step[lock] \in Busy
  /\ step \in [Tab -> Step]

LEMMA GoType ==
  ASSUME ClientTypeOK, NEW t \in Tab, Go(t, "idle") \/ \E s \in Busy : Go(t, s)
  PROVE  LockType'
<1>1. CASE Go(t, "idle")
  BY <1>1 DEF ClientTypeOK, Go, LockType
<1>2. ASSUME NEW s \in Busy, Go(t, s) PROVE LockType'
  BY <1>2 DEF ClientTypeOK, Go, LockType
<1> QED
  BY <1>1, <1>2

\* The queries.
LEMMA QueryType ==
  ASSUME ClientInv, NEW t \in Tab,
         Open(t) \/ Poll(t) \/ Polled(t) \/ RefreshRead(t) \/ StorageEvent(t)
  PROVE  ClientTypeOK'
<1> USE DEF ClientInv
<1>1. CASE Open(t)
  <2>1. shown' \in [Tab -> Snapshot \union {NoSnapshot}]
    BY <1>1, ShownType DEF Open, ClientTypeOK
  <2> QED
    BY <1>1, <2>1 DEF Open, ClientTypeOK
<1>2. CASE Poll(t)
  BY <1>2 DEF Poll, ClientTypeOK
<1>3. CASE Polled(t)
  <2>1. shown' \in [Tab -> Snapshot \union {NoSnapshot}]
    BY <1>3, ShownType DEF Polled, ClientTypeOK
  <2> QED
    BY <1>3, <2>1 DEF Polled, ClientTypeOK
<1>4. CASE RefreshRead(t)
  BY <1>4 DEF RefreshRead, ClientTypeOK
<1>5. CASE StorageEvent(t)
  BY <1>5 DEF StorageEvent, View, ClientTypeOK
<1> QED
  BY <1>1, <1>2, <1>3, <1>4, <1>5

\* What the steps of a tab leave of the other variables.
RestType ==
  /\ storage \in Record
  /\ prompt \in [Hash -> {"none", "open", "sent", "declined"}]
  /\ hand \in [Tab -> Hash \union Foreign \union {NoHash}]
  /\ \A t \in Tab : step[t] = "asked" => hand[t] \in Hash /\ lock = t
  /\ view \in [Tab -> Record]
  /\ notify \subseteq Tab
  /\ shown \in [Tab -> Snapshot \union {NoSnapshot}]
  /\ {answer, reply} \subseteq [Tab -> Snapshot \union {NoSnapshot}]
  /\ server \in Snapshot

LEMMA TypeParts == ClientTypeOK <=> LockType /\ RestType
BY DEF ClientTypeOK, LockType, RestType

LEMMA EndType ==
  ASSUME ClientTypeOK, NEW t \in Tab, Fail(t) \/ Crash(t)
  PROVE  ClientTypeOK'
<1>1. CASE Fail(t)
  BY <1>1 DEF Fail, End, Go, ClientTypeOK
<1>2. CASE Crash(t)
  BY <1>2 DEF Crash, View, ClientTypeOK, Record
<1> QED
  BY <1>1, <1>2

LEMMA SendType ==
  ASSUME ClientTypeOK, NEW t \in Tab, Send(t)
  PROVE  ClientTypeOK'
BY TabAssumption DEF Send, View, LockFree, ClientTypeOK

LEMMA RefreshTypes ==
  ASSUME ClientTypeOK, NEW t \in Tab, Refresh(t)
  PROVE  ClientTypeOK'
<1>1. shown' \in [Tab -> Snapshot \union {NoSnapshot}]
  BY ShownType DEF Refresh, ClientTypeOK
<1>2. \/ Go(t, "idle") /\ hand' = [hand EXCEPT ![t] = NoHash]
      \/ \E s \in {"authenticate", "approve", "post"} : Go(t, s) /\ UNCHANGED hand
  BY DEF Refresh, End, GoesOn, AfterRefresh
<1>3. LockType'
  BY <1>2, GoType
<1>4. RestType'
  BY <1>1, <1>2 DEF Refresh, Go, ClientTypeOK, RestType
<1> QED
  BY <1>3, <1>4, TypeParts DEF ClientTypeOK, LockType, RestType

LEMMA PrepareType ==
  ASSUME ClientTypeOK, NEW t \in Tab, Prepare(t) \/ RefreshStatus(t)
  PROVE  ClientTypeOK'
BY TabAssumption DEF Prepare, RefreshStatus, Go, ClientTypeOK

\* A tab that saves what it shows, or saves nothing.
LEMMA SaveType ==
  ASSUME ClientTypeOK, NEW t \in Tab, NEW r \in Record,
         (Store(t, r) /\ View(t, r)) \/ UNCHANGED <<storage, notify, view>>
  PROVE  storage' \in Record /\ notify' \subseteq Tab /\ view' \in [Tab -> Record]
BY StoreType, ViewType DEF ClientTypeOK

LEMMA AskType ==
  ASSUME ClientInv, NEW t \in Tab, NEW h \in Hash, Ask(t, h)
  PROVE  ClientTypeOK'
<1> USE DEF ClientInv
<1>1. lock = t
  BY DEF Ask, SendRequested, TabInv
<1>2. storage' \in Record /\ notify' \subseteq Tab /\ view' \in [Tab -> Record]
  BY StoreType, ViewType DEF Ask, Remembers, Record
<1> QED
  BY <1>1, <1>2 DEF Ask, Go, ClientTypeOK

LEMMA WalletType ==
  ASSUME ClientTypeOK, NEW t \in Tab, Sent(t) \/ Declined(t)
  PROVE  ClientTypeOK'
<1>1. CASE Sent(t)
  <2>1. hand[t] \in Hash
    BY <1>1 DEF Sent, ClientTypeOK
  <2>2. storage' \in Record /\ notify' \subseteq Tab /\ view' \in [Tab -> Record]
    BY <1>1, <2>1, StoreType, ViewType DEF Sent, ClientTypeOK, Record
  <2> QED
    BY <1>1, <2>1, <2>2 DEF Sent, End, Go, ClientTypeOK
<1>2. CASE Declined(t)
  <2>1. storage' \in Record /\ notify' \subseteq Tab /\ view' \in [Tab -> Record]
    BY <1>2, StoreType, ViewType DEF Declined, Record
  <2> QED
    BY <1>2, <2>1 DEF Declined, End, Go, ClientTypeOK
<1> QED
  BY <1>1, <1>2

LEMMA RecoverType ==
  ASSUME ClientTypeOK, NEW t \in Tab, SubmitSaved(t) \/ \E h \in History : RecoverHash(t, h)
  PROVE  ClientTypeOK'
<1>1. CASE SubmitSaved(t)
  BY <1>1 DEF SubmitSaved, Go, ClientTypeOK, Record
<1>2. ASSUME NEW h \in History, RecoverHash(t, h) PROVE ClientTypeOK'
  <2>1. h \in Hash \union Foreign
    BY DEF History
  <2>2. storage' \in Record /\ notify' \subseteq Tab /\ view' \in [Tab -> Record]
    BY <1>2, <2>1, StoreType, ViewType DEF RecoverHash, Record
  <2> QED
    BY <1>2, <2>1, <2>2 DEF RecoverHash, Go, ClientTypeOK
<1> QED
  BY <1>1, <1>2

LEMMA MovedType ==
  ASSUME server \in Snapshot, server.version < MaxVersion, NEW s \in PaymentStatus
  PROVE  Moved(s) \in Snapshot
BY BoundAssumption DEF Moved, Snapshot

LEMMA PostType ==
  ASSUME ClientInv, NEW t \in Tab, Post(t)
  PROVE  ClientTypeOK'
<1> USE DEF ClientInv
<1>1. hand[t] \in Hash \union Foreign
  BY DEF Post, TabInv
<1>2. server' \in Snapshot
  BY MovedType DEF Post, Accepted, ClientTypeOK, PaymentStatus
<1>3. storage' \in Record /\ notify' \subseteq Tab /\ view' \in [Tab -> Record]
  BY <1>1, SaveType DEF Post, Record
<1> QED
  BY <1>1, <1>2, <1>3 DEF Post, End, Go, ClientTypeOK

LEMMA OtherType ==
  ASSUME ClientTypeOK, ServerMoves \/ \E h \in Hash : Decide(h, "sent") \/ Decide(h, "declined")
  PROVE  ClientTypeOK'
<1>1. CASE ServerMoves
  <2>1. server' \in Snapshot
    BY <1>1, MovedType DEF ServerMoves, ClientTypeOK, PaymentStatus
  <2> QED
    BY <1>1, <2>1 DEF ServerMoves, ClientTypeOK
<1>2. ASSUME NEW h \in Hash, Decide(h, "sent") \/ Decide(h, "declined") PROVE ClientTypeOK'
  BY <1>2 DEF Decide, ClientTypeOK
<1> QED
  BY <1>1, <1>2

-----------------------------------------------------------------------------
(* Transfers, action by action. *)

\* The lock is free: no tab is between it and its end, so that none is about to ask.
LEMMA SendStep ==
  ASSUME ClientInv, NEW t \in Tab, Send(t)
  PROVE  ClientInv'
<1>1. ClientTypeOK'
  BY SendType DEF ClientInv
<1>2. CASE storage # NoRecord
  BY <1>1, <1>2, QuietStep DEF Send
<1>3. CASE storage = NoRecord
  <2>1. Transfers = {} /\ Transfers' = {}
    BY <1>3 DEF ClientInv, Send, Transfers
  <2>2. ASSUME NEW u \in Tab PROVE TabInv(u)'
    <3>1. TabInv(u) /\ step[u] \notin Sending
      BY TabAssumption DEF ClientInv, TabInv, Send, LockFree
    <3> QED
      BY <1>3, <2>1, <3>1 DEF Send, TabInv, ClientInv, ClientTypeOK
  <2> QED
    BY <1>1, <2>1, <2>2 DEF ClientInv, OneTransfer
<1> QED
  BY <1>2, <1>3

\* The prompt opens under the lock, when there is no transfer.
LEMMA AskStep ==
  ASSUME ClientInv, NEW t \in Tab, NEW h \in Hash, Ask(t, h)
  PROVE  ClientInv'
<1>1. ClientTypeOK'
  BY AskType
<1>2. lock = t /\ lock' = t /\ Transfers = {}
  BY DEF ClientInv, TabInv, Ask, SendRequested, Go
<1>3. Transfers' = {h}
  BY <1>2 DEF ClientInv, ClientTypeOK, Ask, Transfers
<1>4. storage' # NoRecord
  BY RecordAssumption DEF Ask, Remembers, Store
<1>5. ASSUME NEW u \in Tab PROVE TabInv(u)'
  <2>1. TabInv(u)
    BY DEF ClientInv
  <2>2. CASE u = t
    BY <1>2, <1>3, <2>2 DEF TabInv, Ask, Go, ClientInv, ClientTypeOK
  <2>3. CASE u # t
    BY <1>2, <2>1, <2>3 DEF TabInv, Ask, Go, ClientInv, ClientTypeOK
  <2> QED
    BY <2>2, <2>3
<1> QED
  BY <1>1, <1>3, <1>4, <1>5 DEF ClientInv, OneTransfer

\* A prompt that is answered was open: no new transfer appears.
LEMMA DecideStep ==
  ASSUME ClientInv, NEW h \in Hash, Decide(h, "sent") \/ Decide(h, "declined")
  PROVE  ClientInv'
<1>1. ClientTypeOK'
  BY OtherType DEF ClientInv
<1>2. Transfers' \subseteq Transfers
  BY DEF Decide, Transfers, ClientInv, ClientTypeOK
<1>3. UNCHANGED <<storage, lock, step, hand>>
  BY DEF Decide
<1>4. ASSUME NEW u \in Tab PROVE TabInv(u)'
  BY <1>2, <1>3 DEF ClientInv, TabInv
<1> QED
  BY <1>1, <1>2, <1>3, <1>4 DEF ClientInv, OneTransfer

\* An explicit rejection: the transfer is gone, so the record may be cleared.
LEMMA DeclinedStep ==
  ASSUME ClientInv, NEW t \in Tab, Declined(t)
  PROVE  ClientInv'
<1>1. ClientTypeOK'
  BY WalletType DEF ClientInv
<1>2. Transfers = {} /\ Transfers' = {}
  BY DEF ClientInv, TabInv, Declined, Rejection, Transfers
<1>3. lock = t /\ lock' = NoTab
  BY DEF ClientInv, TabInv, Declined, End, Go
<1>4. ASSUME NEW u \in Tab PROVE TabInv(u)'
  <2>1. TabInv(u)
    BY DEF ClientInv
  <2> QED
    BY <1>2, <1>3, <2>1 DEF TabInv, Declined, End, Go, ClientInv, ClientTypeOK
<1> QED
  BY <1>1, <1>2, <1>4 DEF ClientInv, OneTransfer

\* A tab goes to a step outside the send flow, or to its end, and keeps a record.
LEMMA LeaveStep ==
  ASSUME ClientInv, ClientTypeOK', UNCHANGED prompt,
         storage' = NoRecord => storage = NoRecord,
         NEW t \in Tab, NEW s \in {"idle", "last"} \union Submitting, Go(t, s),
         \A u \in Tab : u # t => hand'[u] = hand[u],
         s \in Submitting => hand'[t] \in Hash \union Foreign
  PROVE  ClientInv'
<1>1. TabInv(t)'
  BY DEF TabInv, Go, ClientInv, ClientTypeOK
<1>2. lock' = lock \/ (lock = t /\ lock' = NoTab /\ step'[t] \notin Sending)
  BY DEF Go, ClientInv, ClientTypeOK
<1>3. \A u \in Tab : u # t => step'[u] = step[u] /\ hand'[u] = hand[u]
  BY DEF Go, ClientInv, ClientTypeOK
<1> QED
  BY <1>1, <1>2, <1>3, TabStep

\* What a page reads, and what it loses when it goes.
LEMMA PageStep ==
  ASSUME ClientInv, NEW t \in Tab,
         \/ Open(t) \/ Crash(t) \/ StorageEvent(t)
         \/ Poll(t) \/ Polled(t) \/ RefreshRead(t)
  PROVE  ClientInv'
<1>1. CASE Poll(t) \/ Polled(t) \/ RefreshRead(t) \/ StorageEvent(t)
  <2>1. ClientTypeOK'
    BY <1>1, QueryType
  <2>2. UNCHANGED <<prompt, lock, step, hand, storage>>
    BY <1>1 DEF Poll, Polled, RefreshRead, StorageEvent
  <2> QED
    BY <2>1, <2>2, QuietStep
<1>2. CASE Open(t)
  <2>1. ClientTypeOK'
    BY <1>2, QueryType
  <2>2. TabInv(t)'
    BY <1>2 DEF Open, TabInv, ClientInv, ClientTypeOK
  <2>3. \A u \in Tab : u # t => step'[u] = step[u] /\ hand'[u] = hand[u]
    BY <1>2 DEF Open, ClientInv, ClientTypeOK
  <2>4. UNCHANGED <<prompt, lock, storage>>
    BY <1>2 DEF Open
  <2> QED
    BY <2>1, <2>2, <2>3, <2>4, TabStep
<1>3. CASE Crash(t)
  <2>1. ClientTypeOK'
    BY <1>3, EndType DEF ClientInv
  <2>2. TabInv(t)' /\ step'[t] \notin Sending
    BY <1>3 DEF Crash, TabInv, ClientInv, ClientTypeOK
  <2>3. \A u \in Tab : u # t => step'[u] = step[u] /\ hand'[u] = hand[u]
    BY <1>3 DEF Crash, ClientInv, ClientTypeOK
  <2>4. UNCHANGED <<prompt, storage>> /\ (lock' = lock \/ (lock = t /\ lock' = NoTab))
    BY <1>3 DEF Crash
  <2> QED
    BY <2>1, <2>2, <2>3, <2>4, TabStep
<1> QED
  BY <1>1, <1>2, <1>3

\* The awaits of send and submit that open no prompt.
LEMMA AwaitStep ==
  ASSUME ClientInv, NEW t \in Tab, Fail(t) \/ Refresh(t) \/ Prepare(t) \/ RefreshStatus(t)
  PROVE  ClientInv'
<1>1. ClientTypeOK' /\ UNCHANGED <<prompt, storage>>
  BY EndType, RefreshTypes, PrepareType DEF ClientInv, Fail, Refresh, Prepare,
     RefreshStatus
<1>2. TabInv(t)
  BY DEF ClientInv
<1>3. CASE Go(t, "idle") /\ hand' = [hand EXCEPT ![t] = NoHash]
  <2>1. \A u \in Tab : u # t => hand'[u] = hand[u]
    BY <1>3 DEF ClientInv, ClientTypeOK
  <2> QED
    BY <1>1, <1>3, <2>1, LeaveStep
<1>4. CASE \E s \in {"authenticate", "recheck", "approve"} :
             step[t] \in Sending \ {"asked"} /\ Go(t, s) /\ UNCHANGED hand
  <2>1. Transfers' = Transfers
    BY <1>1 DEF Transfers
  <2>2. TabInv(t)' /\ lock' = lock
    BY <1>2, <1>4, <2>1 DEF TabInv, Go, ClientInv, ClientTypeOK
  <2>3. \A u \in Tab : u # t => step'[u] = step[u] /\ hand'[u] = hand[u]
    BY <1>4 DEF Go, ClientInv, ClientTypeOK
  <2> QED
    BY <1>1, <2>2, <2>3, TabStep
<1>5. CASE \E s \in {"post", "repost"} :
             step[t] \in Submitting /\ Go(t, s) /\ UNCHANGED hand
  BY <1>1, <1>2, <1>5, LeaveStep DEF TabInv
<1>6. CASE RefreshStatus(t)
  <2>1. TabInv(t)'
    BY <1>6 DEF RefreshStatus, TabInv, ClientInv, ClientTypeOK
  <2>2. \A u \in Tab : u # t => step'[u] = step[u] /\ hand'[u] = hand[u]
    BY <1>6 DEF RefreshStatus, ClientInv, ClientTypeOK
  <2>3. UNCHANGED lock
    BY <1>6 DEF RefreshStatus
  <2> QED
    BY <1>1, <2>1, <2>2, <2>3, TabStep
<1> QED
  BY <1>3, <1>4, <1>5, <1>6 DEF Fail, Refresh, End, Prepare, GoesOn, AfterRefresh

\* A hash is saved and submitted: the record is never cleared.
LEMMA SubmitStep ==
  ASSUME ClientInv, NEW t \in Tab,
         Sent(t) \/ SubmitSaved(t) \/ Post(t) \/ \E h \in History : RecoverHash(t, h)
  PROVE  ClientInv'
<1>1. ClientTypeOK' /\ UNCHANGED prompt
  BY WalletType, RecoverType, PostType DEF ClientInv, Sent, SubmitSaved, Post, RecoverHash
<1>2. TabInv(t) /\ step[t] \in Step /\ hand \in [Tab -> Hash \union Foreign \union {NoHash}]
      /\ view[t] \in Record
  BY DEF ClientInv, ClientTypeOK
<1>3. \A h \in History : h \in Hash \union Foreign
  BY DEF History
<1>4. storage' = NoRecord => storage = NoRecord
  BY <1>2, <1>3, RecordAssumption
  DEF Sent, SubmitSaved, Post, RecoverHash, Store, TabInv, ClientInv, ClientTypeOK
<1>5. \A u \in Tab : u # t => hand'[u] = hand[u]
  BY <1>2 DEF Sent, SubmitSaved, Post, RecoverHash, End
<1>6. \E s \in {"idle", "last"} \union Submitting :
        Go(t, s) /\ (s \in Submitting => hand'[t] \in Hash \union Foreign)
  <2>1. CASE Sent(t)
    BY <2>1 DEF Sent, End, ClientInv, ClientTypeOK
  <2>2. CASE SubmitSaved(t)
    BY <1>2, <2>2 DEF SubmitSaved, Record
  <2>3. CASE Post(t)
    BY <1>2, <2>3 DEF Post, End, TabInv
  <2>4. CASE \E h \in History : RecoverHash(t, h)
    BY <1>2, <1>3, <2>4 DEF RecoverHash
  <2> QED
    BY <2>1, <2>2, <2>3, <2>4
<1> QED
  BY <1>1, <1>4, <1>5, <1>6, LeaveStep

LEMMA ClientStep == ClientInv /\ [Next]_vars => ClientInv'
<1> SUFFICES ASSUME ClientInv, [Next]_vars PROVE ClientInv'
  OBVIOUS
<1>1. CASE UNCHANGED vars
  BY <1>1 DEF vars, ClientInv, ClientTypeOK, OneTransfer, Transfers, TabInv
<1>2. CASE ServerMoves
  <2>1. ClientTypeOK' /\ UNCHANGED <<prompt, lock, step, hand, storage>>
    BY <1>2, OtherType DEF ClientInv, ServerMoves
  <2> QED
    BY <2>1, QuietStep
<1> QED
  BY <1>1, <1>2, PageStep, AwaitStep, SendStep, AskStep, SubmitStep, DeclinedStep,
     DecideStep DEF Next

-----------------------------------------------------------------------------
(* The theorems. *)

LEMMA ClientInvAlways == Spec => []ClientInv
BY ClientInit, ClientStep, PTL DEF Spec

\* The state of every number of tabs, transfers and recovered hashes keeps its type,
\* and the lock is held by a tab that is at an await.
THEOREM ClientTypeCorrect == Spec => []ClientTypeOK
<1>1. ClientInv => ClientTypeOK
  BY DEF ClientInv
<1> QED
  BY <1>1, ClientInvAlways, PTL

\* However many tabs, reloads and transfers there are: no second transfer is asked for
\* while one may go through or has gone through.
THEOREM OneTransferAlways == Spec => []OneTransfer
<1>1. ClientInv => OneTransfer
  BY DEF ClientInv
<1> QED
  BY <1>1, ClientInvAlways, PTL

\* A merged answer is not older, and leaves a confirmed payment as it is.
LEMMA NewerAdvances ==
  ASSUME ClientTypeOK, NEW t \in Tab, NEW s \in Snapshot, Show(t, s),
         NEW u \in Tab, shown[u] # NoSnapshot
  PROVE  /\ shown'[u].version >= shown[u].version
         /\ shown[u].status = "CONFIRMED" => shown'[u] = shown[u]
<1>1. shown[u] \in Snapshot
  BY DEF ClientTypeOK
<1>2. shown[u].version \in Int /\ s.version \in Int
  BY <1>1, BoundAssumption DEF Snapshot
<1>3. shown'[u] = shown[u] \/ (u = t /\ shown'[u] = Newer(shown[t], s))
  BY DEF Show, ClientTypeOK
<1> QED
  BY <1>2, <1>3 DEF Newer

\* Answers of polls and refreshes may overtake each other in every tab: what is shown
\* never goes back, nor leaves CONFIRMED.
THEOREM ShownAdvancesAlways == Spec => ShownAdvances
<1> DEFINE Advances ==
      \A t \in Tab : shown[t] # NoSnapshot /\ shown'[t] # NoSnapshot =>
        /\ shown'[t].version >= shown[t].version
        /\ shown[t].status = "CONFIRMED" => shown'[t] = shown[t]
<1>1. ASSUME ClientInv, [Next]_vars PROVE Advances
  <2>1. SUFFICES ASSUME NEW u \in Tab, shown[u] # NoSnapshot, shown'[u] # NoSnapshot
        PROVE  /\ shown'[u].version >= shown[u].version
               /\ shown[u].status = "CONFIRMED" => shown'[u] = shown[u]
    OBVIOUS
  <2>2. ClientTypeOK /\ shown[u].version \in Int
    BY <1>1, <2>1, BoundAssumption DEF ClientInv, ClientTypeOK, Snapshot
  <2>3. CASE \E t \in Tab, s \in Snapshot : Show(t, s)
    BY <2>1, <2>2, <2>3, NewerAdvances
  <2>4. CASE UNCHANGED shown
    BY <2>2, <2>4
  <2>5. CASE \E t \in Tab : Crash(t)
    BY <2>1, <2>2, <2>5 DEF Crash, ClientTypeOK
  <2>6. ASSUME NEW t \in Tab, Open(t) \/ Polled(t) \/ Refresh(t)
        PROVE  (\E s \in Snapshot : Show(t, s)) \/ UNCHANGED shown
    BY <2>2, <2>6 DEF Open, Polled, Refresh, ClientTypeOK
  <2>7. (\E t \in Tab, s \in Snapshot : Show(t, s)) \/ UNCHANGED shown \/ \E t \in Tab : Crash(t)
    BY <1>1, <2>6 DEF Next, vars, Fail, StorageEvent, Poll, RefreshStatus, RefreshRead, Send, Prepare,
       Sent, Declined, SubmitSaved, Post, Ask, RecoverHash, Decide, ServerMoves
  <2> QED
    BY <2>3, <2>4, <2>5, <2>7
<1>2. ClientInv /\ [Next]_vars => [Advances]_vars
  BY <1>1
<1> QED
  BY <1>2, ClientInvAlways, PTL DEF Spec, ShownAdvances
=============================================================================
