------------------------------ MODULE Payments ------------------------------
(***************************************************************************)
(* The merchant's side of payments (PaymentsService): creation with an     *)
(* idempotency key, by transactions that overlap, and the walk through the *)
(* list of payments with a cursor, while payments are created and change   *)
(* their status.                                                           *)
(*                                                                         *)
(* created_at is the time at which the creating transaction began, which   *)
(* is not the order in which payments appear; times tie, and ids are       *)
(* random.                                                                 *)
(***************************************************************************)
EXTENDS Integers, Sequences, FiniteSets, SequencesExt

CONSTANTS
  Key,         \* idempotency keys of one merchant
  Fingerprint, \* normalized requests
  Request,     \* creations that can be under way at the same time
  Id,          \* ids; their order is random
  Limit,       \* payments on a page
  Filters,     \* status filters walked with: statuses, or "ANY"
  Idle,
  MaxTime      \* bound: clock readings

ASSUME IdAssumption    == Id \subseteq Nat
ASSUME LimitAssumption == Limit \in Nat \ {0} /\ MaxTime \in Nat

VARIABLES
  payments,  \* committed rows
  events,    \* ids with a PAYMENT_UPDATED row of their creation
  request,   \* creations under way, up to their answer
  now,       \* the clock, in milliseconds
  walk       \* the walk under way: filter, cursor, pages so far, and as history
             \* the payments that match since it started

vars == <<payments, events, request, now, walk>>

-----------------------------------------------------------------------------
PaymentStatus == {"AWAITING_PAYMENT", "PROCESSING", "CONFIRMED"}

\* No id.
None == -1

Row == [id : Id, key : Key, fingerprint : Fingerprint, at : 0..MaxTime, status : PaymentStatus]

Creation == [step : {"begun", "inserted", "lost"}, key : Key, fingerprint : Fingerprint,
             at : 0..MaxTime, id : Id \union {None}]

Answer == [step : {"201", "200", "409", "503"}, key : Key, fingerprint : Fingerprint,
           id : Id \union {None}]

ASSUME IdleAssumption == Idle \notin Creation \union Answer

\* The key the rows are ordered by, newest first.
Position(r) == <<r.at, r.id>>

NoCursor == <<MaxTime + 1, None>>
End      == <<-1, None>>

PTypeOK ==
  /\ payments \subseteq Row
  /\ \A r, s \in payments : r.id = s.id => r = s
  /\ events = {r.id : r \in payments}
  /\ request \in [Request -> Creation \union Answer \union {Idle}]
  /\ now \in 0..MaxTime
  /\ walk = Idle \/ /\ walk.filter \in Filters
                    /\ walk.cursor \in (-1..MaxTime+1) \X (Id \union {None})
                    /\ ToSet(walk.listed) \subseteq {Position(r) : r \in payments}
                    /\ walk.constant \subseteq Id

Init ==
  /\ payments = {}
  /\ events = {}
  /\ request = [q \in Request |-> Idle]
  /\ now = 0
  /\ walk = Idle

-----------------------------------------------------------------------------
(* create. *)

At(q, step) == request[q] # Idle /\ request[q].step = step

Respond(q, code, id) ==
  request' = [request EXCEPT ![q] =
    [step |-> code, key |-> @.key, fingerprint |-> @.fingerprint, id |-> id]]

\* BEGIN: now() is this moment until the transaction ends.
Begin(q, k, f) ==
  /\ request[q] = Idle
  /\ request' = [request EXCEPT ![q] =
       [step |-> "begun", key |-> k, fingerprint |-> f, at |-> now, id |-> None]]
  /\ UNCHANGED <<payments, events, now, walk>>

\* The uncommitted rows with key k.
Inserting(k) == {q \in Request : At(q, "inserted") /\ request[q].key = k}

\* ON CONFLICT DO NOTHING: a committed row has the key.
Loses(k) == \E r \in payments : r.key = k

\* The INSERT: without effect when it loses; otherwise it waits until no other
\* transaction holds the key.
Insert(q) ==
  /\ At(q, "begun")
  /\ \/ /\ Loses(request[q].key)
        /\ request' = [request EXCEPT ![q].step = "lost"]
     \/ /\ ~Loses(request[q].key)
        /\ Inserting(request[q].key) = {}
        /\ \E i \in Id \ ({r.id : r \in payments} \union
                          {request[s].id : s \in {t \in Request : request[t] # Idle}}) :
             request' = [request EXCEPT ![q].step = "inserted", ![q].id = i]
  /\ UNCHANGED <<payments, events, now, walk>>

\* Fault: the event is left to the dispatcher.
Announced(i) == {}

\* The PAYMENT_UPDATED row of the same transaction.
Announce(i) == {i}

\* COMMIT of the payment and of its event; 201.
Commit(q) ==
  LET c == request[q] IN
  /\ At(q, "inserted")
  /\ payments' = payments \union
       {[id |-> c.id, key |-> c.key, fingerprint |-> c.fingerprint, at |-> c.at,
         status |-> "AWAITING_PAYMENT"]}
  /\ events' = events \union Announce(c.id)
  /\ Respond(q, "201", c.id)
  /\ UNCHANGED <<now, walk>>

\* The transaction fails; the client sees an error.
Abort(q) ==
  /\ At(q, "begun") \/ At(q, "inserted")
  /\ request' = [request EXCEPT ![q] = Idle]
  /\ UNCHANGED <<payments, events, now, walk>>

\* Fault: any payment with the key is the answer.
SameAlways(r, f) == TRUE

\* The winner was created from the same request.
Same(r, f) == r.fingerprint = f

\* The second statement reads the winner.
ReadWinner(q) ==
  LET c == request[q]
      Winners == {r \in payments : r.key = c.key}
  IN
  /\ At(q, "lost")
  /\ \/ Winners = {} /\ Respond(q, "503", None)
     \/ \E r \in Winners : IF Same(r, c.fingerprint)
                             THEN Respond(q, "200", r.id)
                             ELSE Respond(q, "409", None)
  /\ UNCHANGED <<payments, events, now, walk>>

\* The client has its answer.
Receive(q) ==
  /\ \E code \in {"201", "200", "409", "503"} : At(q, code)
  /\ request' = [request EXCEPT ![q] = Idle]
  /\ UNCHANGED <<payments, events, now, walk>>

-----------------------------------------------------------------------------
(* list. *)

\* Fault: the cursor compares times alone.
BelowByTime(p, c) == p[1] < c[1]

\* (created_at, id) < (cursor)
Below(p, c) == p[1] < c[1] \/ (p[1] = c[1] /\ p[2] < c[2])

\* Newest first.
Newer(p, c) == p[1] > c[1] \/ (p[1] = c[1] /\ p[2] > c[2])

Matches(r, filter) == filter = "ANY" \/ r.status = filter

StartWalk(filter) ==
  /\ walk = Idle
  /\ walk' = [filter |-> filter, cursor |-> NoCursor, listed |-> <<>>,
              constant |-> {r.id : r \in {s \in payments : Matches(s, filter)}}]
  /\ UNCHANGED <<payments, events, request, now>>

\* The positions of S, newest first.
InOrder(S) == CHOOSE s \in [1..Cardinality(S) -> S] :
                \A i, j \in DOMAIN s : i < j => Newer(s[i], s[j])

\* One page: the rows below the cursor, as many as Limit, and the cursor of the
\* next page when there is one more row.
NextPage ==
  LET rows == InOrder({Position(r) : r \in {s \in payments :
                         Matches(s, walk.filter) /\ Below(Position(s), walk.cursor)}})
      page == SubSeq(rows, 1, IF Len(rows) < Limit THEN Len(rows) ELSE Limit)
  IN
  /\ walk # Idle /\ walk.cursor # End
  /\ walk' = [walk EXCEPT !.listed = @ \o page,
                          !.cursor = IF Len(rows) > Limit THEN Last(page) ELSE End]
  /\ UNCHANGED <<payments, events, request, now>>

-----------------------------------------------------------------------------
(* The clock, and the workers. *)

Tick == now < MaxTime /\ now' = now + 1 /\ UNCHANGED <<payments, events, request, walk>>

\* A payment's status changes; a walk that filters by it does not promise it any more.
ChangeStatus(r, s) ==
  /\ r.status # "CONFIRMED" /\ s # r.status
  /\ s = "CONFIRMED" => r.status = "PROCESSING"
  /\ payments' = (payments \ {r}) \union {[r EXCEPT !.status = s]}
  /\ walk' = IF walk = Idle \/ walk.filter = "ANY" THEN walk
             ELSE [walk EXCEPT !.constant = @ \ {r.id}]
  /\ UNCHANGED <<events, request, now>>

-----------------------------------------------------------------------------
\* The list, the clock and the workers.
Rest ==
  \/ \E filter \in Filters : StartWalk(filter)
  \/ NextPage
  \/ Tick
  \/ \E r \in payments, s \in PaymentStatus : ChangeStatus(r, s)

Next ==
  \/ \E q \in Request :
       \/ \E k \in Key, f \in Fingerprint : Begin(q, k, f)
       \/ Insert(q) \/ Commit(q) \/ Abort(q) \/ ReadWinner(q) \/ Receive(q)
  \/ Rest

Spec == Init /\ [][Next]_vars

-----------------------------------------------------------------------------
\* However many creations with one key overlap, abort and are repeated, there is one
\* payment with the key; every answer that names a payment names that one, to a client
\* whose request was the one it was created from; and a creation that lost the race
\* finds the winner, since it waited until the winner committed and reads in a
\* statement of its own: 503 is never answered, 409 only to another request.
OnePaymentPerKey ==
  /\ \A r, s \in payments : r.key = s.key => r = s
  /\ \A q \in Request :
       /\ ~At(q, "503")
       /\ At(q, "201") \/ At(q, "200") =>
            \E r \in payments : /\ r.id = request[q].id
                                /\ r.key = request[q].key
                                /\ r.fingerprint = request[q].fingerprint
       /\ At(q, "409") =>
            \E r \in payments : r.key = request[q].key /\ r.fingerprint # request[q].fingerprint

\* A walk lists a payment at most once and newest first, although payments appear
\* anywhere in the order while it goes on, and at its end it has listed every
\* payment that has matched since it started.
WalkIsComplete ==
  walk # Idle =>
    /\ \A i, j \in DOMAIN walk.listed : i < j => Newer(walk.listed[i], walk.listed[j])
    /\ walk.cursor = End =>
         \A i \in walk.constant : \E n \in DOMAIN walk.listed : walk.listed[n][2] = i
=============================================================================
