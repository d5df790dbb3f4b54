----------------------------- MODULE Dashboard ------------------------------
(***************************************************************************)
(* The merchant's dashboard: the visible list, the details of payments     *)
(* that are open, the newest versions the page knows of, the event stream  *)
(* that makes queries refetch, and polling with a budget.                  *)
(*                                                                         *)
(* Events are hints: they carry a version, arrive in any order, perhaps    *)
(* twice, and are lost while the stream is down.  A stream that is up is   *)
(* taken to deliver (MerchantEvents shows when it does not).  The list     *)
(* stands for one filter and page that all payments belong to.             *)
(***************************************************************************)
EXTENDS Integers, FiniteSets, Sequences

CONSTANTS
  Payment,
  Openable,    \* bound: payments whose details are opened, or that the page creates
  Existing,    \* bound: payments that exist when the page is opened
  List,        \* the list query; a detail query is named by its payment
  NoData,      \* a query that has not succeeded yet
  Idle, Asked, \* a query that is not under way; one the server has not read yet
  Order,       \* the payments in the order of the list
  Final,       \* bound: the version at which a payment is CONFIRMED
  Cap,         \* entries in the cache of versions: 2000 in the code
  PollBudget,  \* requests before polling pauses: 60 in the code
  MaxFaults    \* bound: failures, disconnections, and refreshes by the user

ASSUME QueryAssumption ==
  Openable \subseteq Payment /\ Existing \subseteq Payment /\ List \notin Payment
ASSUME FetchAssumption == Idle # Asked
ASSUME BoundAssumption ==
  /\ Order \in Seq(Payment) /\ Payment = {Order[i] : i \in DOMAIN Order}
  /\ \A i, j \in DOMAIN Order : Order[i] = Order[j] => i = j
  /\ Final \in Nat /\ Cap \in Nat \ {0} /\ PollBudget \in Nat /\ MaxFaults \in Nat

Query == {List} \union Openable

VARIABLES
  server,   \* the newest version of each payment; -1 before it is created
  outbox,   \* events written with a change, and not published for good yet
  live,     \* the stream is open
  marks,    \* the cache: for each remembered payment its version, and the payments
            \* that were remembered after it
  open,     \* the payment whose details are open, if any
  creation, \* how far the page's creation of each payment is
  data,     \* what each query shows
  error,    \* whether it shows that its last fetch failed
  fetch,    \* its request: Idle, Asked, or the rows the server has read
  budget,   \* requests that polling may still make
  faults

vars == <<server, outbox, live, marks, open, creation, data, error, fetch, budget, faults>>

-----------------------------------------------------------------------------
Event == Payment \X (0..Final)

\* The rows of an answer: versions by payment.
Rows == UNION {[S -> 0..Final] : S \in SUBSET Payment}

DashboardTypeOK ==
  /\ server \in [Payment -> -1..Final]
  /\ outbox \subseteq Event
  /\ live \in BOOLEAN
  /\ DOMAIN marks \subseteq Payment /\ Cardinality(DOMAIN marks) <= Cap
  /\ marks \in [DOMAIN marks -> [version : 0..Final, after : SUBSET DOMAIN marks]]
  /\ open \subseteq Openable /\ Cardinality(open) <= 1
  /\ creation \in [Openable -> {"none", "posted", "linking", "overlooked"}]
  /\ data \in [Query -> Rows \union {NoData}]
  /\ error \in [Query -> BOOLEAN]
  /\ \A q \in Query : fetch[q] \in {Idle, Asked} \/ fetch[q] \in Rows
  /\ budget \in 0..PollBudget
  /\ faults \in 0..MaxFaults

\* The workspace is mounted: the list is asked for, the stream is opened.
Init ==
  /\ server = [p \in Payment |-> IF p \in Existing THEN 0 ELSE -1]
  /\ outbox = {}
  /\ live = FALSE
  /\ marks = <<>>
  /\ open = {}
  /\ creation = [p \in Openable |-> "none"]
  /\ data = [q \in Query |-> NoData]
  /\ error = [q \in Query |-> FALSE]
  /\ fetch = [q \in Query |-> IF q = List THEN Asked ELSE Idle]
  /\ budget = PollBudget
  /\ faults = 0

-----------------------------------------------------------------------------
(* The cache of versions. *)

Mark(p) == IF p \in DOMAIN marks THEN marks[p].version ELSE -1

\* The rows that come after p in their order.
Later(p, rows) == {r \in DOMAIN rows : \E i, j \in DOMAIN Order :
                     i < j /\ Order[i] = p /\ Order[j] = r}

\* The entries of m that fit: what was not remembered for longest is dropped.
WithinCap(m) == {p \in DOMAIN m : Cardinality(m[p].after) < Cap}

\* rememberVersion for each of the rows, in their order: the newest version moves to
\* the end.
Remember(rows) ==
  LET all == [p \in DOMAIN marks \union DOMAIN rows |->
                IF p \in DOMAIN rows
                  THEN [version |-> IF Mark(p) > rows[p] THEN Mark(p) ELSE rows[p],
                        after   |-> Later(p, rows)]
                  ELSE [marks[p] EXCEPT !.after = @ \union DOMAIN rows]]
  IN  [p \in WithinCap(all) |-> all[p]]

-----------------------------------------------------------------------------
(* Queries. *)

Active == {List} \union open

\* invalidateQueries alone: a first request that is under way is left alone.
RestartLater(S) ==
  fetch' = [q \in Query |->
              IF q \in S \intersect Active /\ (data[q] # NoData \/ fetch[q] = Idle)
                THEN Asked ELSE fetch[q]]

\* refreshQuery for the queries of S: what is under way is cancelled, also a first
\* request, and the active ones are asked again.
Restart(S) ==
  fetch' = [q \in Query |-> IF q \in S \intersect Active THEN Asked ELSE fetch[q]]

\* What the API answers to q at this moment.
Answer(q) ==
  [p \in {r \in Payment : server[r] >= 0 /\ q \in {List, r}} |-> server[p]]

\* The server reads the rows.
Read(q) ==
  /\ fetch[q] = Asked
  /\ fetch' = [fetch EXCEPT ![q] = Answer(q)]
  /\ UNCHANGED <<server, outbox, live, marks, open, creation, data, error, budget, faults>>

\* Fault: an answer is shown although the page knows of newer versions.
OutdatedNever(rows) == FALSE

\* A row of the answer is older than the version the page knows of.
Outdated(rows) == \E p \in DOMAIN rows : rows[p] < Mark(p)

\* The answer arrives: it is shown and remembered, or refused; the details keep a
\* newer version that they show (structuralSharing).
Answered(q) ==
  LET rows == fetch[q] IN
  /\ rows \notin {Idle, Asked}
  /\ fetch' = [fetch EXCEPT ![q] = Idle]
  /\ IF Outdated(rows)
       THEN error' = [error EXCEPT ![q] = TRUE] /\ UNCHANGED <<data, marks>>
       ELSE /\ error' = [error EXCEPT ![q] = FALSE]
            /\ marks' = Remember(rows)
            /\ data' = [data EXCEPT ![q] =
                 IF q # List /\ @ # NoData /\ @[q] > rows[q] THEN @ ELSE rows]
  /\ UNCHANGED <<server, outbox, live, open, creation, budget, faults>>

\* The request fails or times out; it is not retried.
FetchFails(q) ==
  /\ fetch[q] # Idle /\ faults < MaxFaults
  /\ fetch' = [fetch EXCEPT ![q] = Idle]
  /\ error' = [error EXCEPT ![q] = TRUE]
  /\ faults' = faults + 1
  /\ UNCHANGED <<server, outbox, live, marks, open, creation, data, budget>>

\* The details of p are opened in place of those that are open: what is cached is
\* shown, and asked for again.
ShowDetails(p) ==
  /\ open' = {p}
  /\ fetch' = [q \in Query |-> IF q \in {p} \ open THEN Asked
                               ELSE IF q \in open \ {p} THEN Idle ELSE fetch[q]]

\* The merchant opens the details of a listed payment.
OpenDetail(p) ==
  /\ p \in Openable \ open
  /\ data[List] # NoData /\ p \in DOMAIN data[List]
  /\ ShowDetails(p)
  /\ UNCHANGED <<server, outbox, live, marks, creation, data, error, budget, faults>>

\* They are closed, and their request is cancelled.
CloseDetail(p) ==
  /\ p \in open
  /\ open' = open \ {p}
  /\ fetch' = [fetch EXCEPT ![p] = Idle]
  /\ UNCHANGED <<server, outbox, live, marks, creation, data, error, budget, faults>>

-----------------------------------------------------------------------------
(* Creating a payment, with the form. *)

\* The API commits it, with its event, for the only creation under way.
CreatePayment(p) ==
  /\ p \in Openable /\ server[p] = -1
  /\ \A r \in Openable : creation[r] \notin {"posted", "linking"}
  /\ server' = [server EXCEPT ![p] = 0]
  /\ outbox' = outbox \union {<<p, 0>>}
  /\ creation' = [creation EXCEPT ![p] = "posted"]
  /\ UNCHANGED <<live, marks, open, data, error, fetch, budget, faults>>

\* The answer arrives, perhaps only that of a repeated request (onCreated): the details
\* are opened, though the list need not have the payment yet.
Created(p) ==
  /\ creation[p] = "posted"
  /\ creation' = [creation EXCEPT ![p] = "linking"]
  /\ ShowDetails(p)
  /\ UNCHANGED <<server, outbox, live, marks, data, error, budget, faults>>

\* The answer to the list's first request is on its way, without p.
Overlooks(p) == data[List] = NoData /\ fetch[List] \notin {Idle, Asked} /\ p \notin DOMAIN fetch[List]

\* The link is issued, or not: everything is invalidated, which leaves a first request
\* alone.  It remains known whether that one overlooks p.
Linked(p) ==
  /\ creation[p] = "linking"
  /\ RestartLater(Query)
  /\ creation' = [creation EXCEPT ![p] = IF Overlooks(p) THEN "overlooked" ELSE "none"]
  /\ UNCHANGED <<server, outbox, live, marks, open, data, error, budget, faults>>

-----------------------------------------------------------------------------
(* The stream. *)

\* `ready': everything is asked for again, since events may have been missed.
Ready ==
  /\ ~live
  /\ live' = TRUE
  /\ Restart(Query)
  /\ UNCHANGED <<server, outbox, marks, open, creation, data, error, budget, faults>>

\* onerror: the stream is closed, and connects again after a while.
Disconnect ==
  /\ live /\ faults < MaxFaults
  /\ live' = FALSE
  /\ faults' = faults + 1
  /\ UNCHANGED <<server, outbox, marks, open, creation, data, error, fetch, budget>>

\* acceptPaymentEvent, and the refetches of an event that is newer than what the page
\* knows; published again if the dispatcher failed to acknowledge it.
Deliver(e, again) ==
  /\ live /\ e \in outbox
  /\ outbox' = IF again THEN outbox ELSE outbox \ {e}
  /\ IF e[2] <= Mark(e[1])
       THEN UNCHANGED <<marks, fetch>>
       ELSE marks' = Remember([p \in {e[1]} |-> e[2]]) /\ Restart({List, e[1]})
  /\ UNCHANGED <<server, live, open, creation, data, error, budget, faults>>

\* An event that is published while the stream is down is lost.
Lose(e) ==
  /\ ~live /\ e \in outbox
  /\ outbox' = outbox \ {e}
  /\ UNCHANGED <<server, live, marks, open, creation, data, error, fetch, budget, faults>>

-----------------------------------------------------------------------------
(* Polling. *)

\* A payment that is shown may still change.
Pending == \E q \in Active : data[q] # NoData /\ \E p \in DOMAIN data[q] : data[q][p] < Final

\* Fault: the budget is looked at once per tick of the interval.
AffordableTick(S, idle) == S = idle

\* The queries of a tick that are asked again: all that are idle, or as many of them as
\* the budget allows.
Affordable(S, idle) ==
  /\ Cardinality(S) <= budget
  /\ S = idle \/ Cardinality(S) = budget

\* The interval, while a payment is pending.
Poll ==
  LET idle == {q \in Active : fetch[q] = Idle} IN
  /\ Pending /\ budget > 0 /\ idle # {}
  /\ \E S \in SUBSET idle :
       /\ Affordable(S, idle)
       /\ budget' = budget - Cardinality(S)
       /\ fetch' = [q \in Query |-> IF q \in S THEN Asked ELSE fetch[q]]
  /\ UNCHANGED <<server, outbox, live, marks, open, creation, data, error, faults>>

\* Focus, or the network is back.
Focus ==
  /\ faults < MaxFaults
  /\ Restart(Query)
  /\ faults' = faults + 1
  /\ UNCHANGED <<server, outbox, live, marks, open, creation, data, error, budget>>

\* "Refresh payments": a first request under way is not repeated.
RefreshPayments ==
  /\ faults < MaxFaults
  /\ budget' = PollBudget
  /\ RestartLater(Query)
  /\ faults' = faults + 1
  /\ UNCHANGED <<server, outbox, live, marks, open, creation, data, error>>

-----------------------------------------------------------------------------
\* A payment changes its status, or is created by another client, with its event.
Change(p) ==
  /\ server[p] < Final
  /\ server' = [server EXCEPT ![p] = @ + 1]
  /\ outbox' = outbox \union {<<p, server'[p]>>}
  /\ UNCHANGED <<live, marks, open, creation, data, error, fetch, budget, faults>>

Next ==
  \/ \E q \in Query : Read(q) \/ Answered(q) \/ FetchFails(q)
  \/ \E p \in Openable : \/ OpenDetail(p) \/ CloseDetail(p)
                         \/ CreatePayment(p) \/ Created(p) \/ Linked(p)
  \/ Ready \/ Disconnect \/ Poll \/ Focus \/ RefreshPayments
  \/ \E e \in outbox : Deliver(e, TRUE) \/ Deliver(e, FALSE) \/ Lose(e)
  \/ \E p \in Payment : Change(p)

\* Requests are answered or time out, the stream is opened again, events are published,
\* and the interval runs while the page is in the foreground.
Fairness ==
  /\ \A q \in Query : WF_vars(Read(q) \/ Answered(q))
  /\ \A p \in Openable : WF_vars(Linked(p))
  /\ WF_vars(Ready)
  /\ WF_vars(\E e \in outbox : Deliver(e, FALSE) \/ Lose(e))
  /\ WF_vars(Poll)

Spec == Init /\ [][Next]_vars /\ Fairness

-----------------------------------------------------------------------------
\* What q shows is what the API would answer.  The list may lack a payment of the page
\* whose creation met its first request: the event is dropped, since the details have
\* brought its version already, and the invalidation spares a first request.
Current(q) ==
  /\ data[q] # NoData
  /\ \A p \in DOMAIN Answer(q) :
       IF p \in DOMAIN data[q] THEN data[q][p] = server[p]
       ELSE q = List /\ p \in Openable /\ creation[p] = "overlooked"

\* The versions of p that active queries show.
Shown(p) == {data[q][p] : q \in {r \in Active : data[r] # NoData /\ p \in DOMAIN data[r]}}

\* An answer that was read before another query's newer one arrived does not replace
\* what is shown by older rows, unless the cache has dropped the payment.
NothingOlder ==
  [][\A q \in Query : data'[q] # data[q] =>
       \A p \in DOMAIN data'[q] :
         \/ \A v \in Shown(p) : v <= data'[q][p]
         \/ Mark(p) = -1]_vars

\* The page does not stay behind silently: again and again every visible query is
\* current, or shows an error, or polling has announced that it is paused; although
\* events are lost, repeated, reordered, and overtaken by first requests.  Only a
\* payment that the page created during the list's first request may be missing there.
NeverSilentlyStale ==
  []<>(budget = 0 \/ \A q \in Active : Current(q) \/ error[q])
=============================================================================
