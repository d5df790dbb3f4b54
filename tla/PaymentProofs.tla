--------------------------- MODULE PaymentProofs ---------------------------
(***************************************************************************)
(* Creation is idempotent, for every number of keys, requests and forms;   *)
(* the walk through the list is complete, for every number of payments and *)
(* every page size; and the dashboard's form is one client of that API.    *)
(***************************************************************************)
EXTENDS CreationForm, TLAPS, FiniteSetTheorems, SequenceTheorems

-----------------------------------------------------------------------------
(* The invariant of creations. *)

\* The types that creations need.
CreateTypes ==
  /\ payments \subseteq Row
  /\ request \in [Request -> Creation \union Answer \union {Idle}]
  /\ now \in 0..MaxTime

\* A transaction that holds a key holds it alone, and the key has no row; one that lost
\* can see the row it lost to.
HoldsKey ==
  /\ \A q, s \in Request : At(q, "inserted") /\ At(s, "inserted")
       /\ request[q].key = request[s].key => q = s
  /\ \A q \in Request : At(q, "inserted") =>
       request[q].id \in Id /\ \A r \in payments : r.key # request[q].key
  /\ \A q \in Request : At(q, "lost") => \E r \in payments : r.key = request[q].key

KeyInv == CreateTypes /\ HoldsKey /\ OnePaymentPerKey

LEMMA KeyInit == Init => KeyInv
BY LimitAssumption DEF Init, KeyInv, CreateTypes, HoldsKey, OnePaymentPerKey, At

-----------------------------------------------------------------------------
(* Steps by kind. *)

\* What holds of one request: its share of HoldsKey and OnePaymentPerKey.
Placed(q) ==
  /\ At(q, "inserted") => request[q].id \in Id /\ \A r \in payments : r.key # request[q].key
  /\ At(q, "lost") => \E r \in payments : r.key = request[q].key
  /\ ~At(q, "503")
  /\ At(q, "201") \/ At(q, "200") =>
       \E r \in payments : /\ r.id = request[q].id
                           /\ r.key = request[q].key
                           /\ r.fingerprint = request[q].fingerprint
  /\ At(q, "409") =>
       \E r \in payments : r.key = request[q].key /\ r.fingerprint # request[q].fingerprint

Alone(q) ==
  \A s \in Request : At(q, "inserted") /\ At(s, "inserted") /\ request[q].key = request[s].key => q = s

LEMMA KeyParts ==
  HoldsKey /\ OnePaymentPerKey <=>
    /\ \A r, s \in payments : r.key = s.key => r = s
    /\ \A q \in Request : Placed(q) /\ Alone(q)
BY DEF HoldsKey, OnePaymentPerKey, Placed, Alone

\* One request goes on, and no row appears.
LEMMA RequestStep ==
  ASSUME KeyInv, NEW q \in Request, UNCHANGED <<payments, now>>,
         NEW c \in Creation \union Answer \union {Idle},
         request' = [request EXCEPT ![q] = c],
         Placed(q)', Alone(q)'
  PROVE  KeyInv'
<1>1. CreateTypes'
  BY DEF KeyInv, CreateTypes
<1>2. \A s \in Request : s # q => request'[s] = request[s]
  BY DEF KeyInv, CreateTypes
<1>3. ASSUME NEW s \in Request, s # q PROVE Placed(s)' /\ Alone(s)'
  <2>1. Placed(s) /\ Alone(s)
    BY KeyParts DEF KeyInv
  <2>2. Placed(s)'
    BY <1>2, <1>3, <2>1 DEF Placed, At
  <2>3. Alone(s)'
    BY <1>2, <1>3, <2>1 DEF Alone, At
  <2> QED
    BY <2>2, <2>3
<1>4. \A r, s \in payments : r.key = s.key => r = s
  BY KeyParts DEF KeyInv
<1>5. HoldsKey' /\ OnePaymentPerKey'
  <2>1. \A s \in Request : Placed(s)' /\ Alone(s)'
    BY <1>3
  <2> QED
    BY <1>4, <2>1 DEF HoldsKey, OnePaymentPerKey, Placed, Alone
<1> QED
  BY <1>1, <1>5 DEF KeyInv

\* Where a request may be.
LEMMA RequestType ==
  ASSUME KeyInv, NEW q \in Request
  PROVE  /\ At(q, "begun") \/ At(q, "inserted") \/ At(q, "lost") => request[q] \in Creation
         /\ request[q] # Idle => request[q].key \in Key /\ request[q].fingerprint \in Fingerprint
BY DEF KeyInv, CreateTypes, At, Creation, Answer

LEMMA BeginStep ==
  ASSUME KeyInv, NEW q \in Request, NEW k \in Key, NEW f \in Fingerprint, Begin(q, k, f)
  PROVE  KeyInv'
<1> DEFINE c == [step |-> "begun", key |-> k, fingerprint |-> f, at |-> now, id |-> None]
<1>1. c \in Creation /\ c.step = "begun"
  BY DEF KeyInv, CreateTypes, Creation
<1>2. request' = [request EXCEPT ![q] = c] /\ UNCHANGED <<payments, now>>
  BY DEF Begin
<1> HIDE DEF c
<1>3. request'[q] = c
  BY <1>2 DEF KeyInv, CreateTypes
<1>4. Placed(q)' /\ Alone(q)'
  BY <1>1, <1>3 DEF Placed, Alone, At
<1> QED
  BY <1>1, <1>2, <1>4, RequestStep

LEMMA InsertStep ==
  ASSUME KeyInv, NEW q \in Request, Insert(q)
  PROVE  KeyInv'
<1>1. request[q] \in Creation /\ request \in [Request -> Creation \union Answer \union {Idle}]
  BY RequestType DEF Insert, KeyInv, CreateTypes
<1>2. CASE Loses(request[q].key)
  <2> DEFINE c == [request[q] EXCEPT !.step = "lost"]
  <2>1. c \in Creation /\ c.step = "lost" /\ c.key = request[q].key
    BY <1>1 DEF Creation
  <2>2. request' = [request EXCEPT ![q] = c] /\ UNCHANGED <<payments, now>>
    BY <1>1, <1>2 DEF Insert
  <2> HIDE DEF c
  <2>3. request'[q] = c
    BY <1>1, <2>2
  <2>4. Placed(q)' /\ Alone(q)'
    BY <1>2, <2>1, <2>2, <2>3 DEF Placed, Alone, At, Loses
  <2> QED
    BY <2>1, <2>2, <2>4, RequestStep
<1>3. CASE ~Loses(request[q].key)
  <2>1. PICK i \in Id : request' = [request EXCEPT ![q].step = "inserted", ![q].id = i]
    BY <1>3 DEF Insert
  <2> DEFINE c == [request[q] EXCEPT !.step = "inserted", !.id = i]
  <2>2. c \in Creation /\ c.step = "inserted" /\ c.key = request[q].key /\ c.id \in Id
    BY <1>1 DEF Creation
  <2>3. request' = [request EXCEPT ![q] = c] /\ UNCHANGED <<payments, now>>
    BY <1>1, <2>1 DEF Insert
  <2> HIDE DEF c
  <2>4. request'[q] = c /\ \A s \in Request : s # q => request'[s] = request[s]
    BY <1>1, <2>3
  <2>5. Placed(q)'
    BY <1>3, <2>2, <2>3, <2>4 DEF Placed, At, Loses
  <2>6. \A s \in Request : At(s, "inserted") => request[s].key # request[q].key
    BY <1>3 DEF Insert, Inserting
  <2>7. Alone(q)'
    BY <2>2, <2>4, <2>6 DEF Alone, At
  <2> QED
    BY <2>2, <2>3, <2>5, <2>7, RequestStep
<1> QED
  BY <1>2, <1>3

\* A transaction that fails, or an answer that is received.
LEMMA IdleStep ==
  ASSUME KeyInv, NEW q \in Request, Abort(q) \/ Receive(q)
  PROVE  KeyInv'
<1>1. request' = [request EXCEPT ![q] = Idle] /\ UNCHANGED <<payments, now>>
  BY DEF Abort, Receive
<1>2. request'[q] = Idle
  BY <1>1 DEF KeyInv, CreateTypes
<1>3. Placed(q)' /\ Alone(q)'
  BY <1>2 DEF Placed, Alone, At
<1> QED
  BY <1>1, <1>3, RequestStep

\* The answer of a request.
LEMMA ResponseOf ==
  ASSUME KeyInv, NEW q \in Request, NEW code \in {"201", "200", "409", "503"},
         NEW i \in Id \union {None}, request[q] \in Creation, Respond(q, code, i)
  PROVE  \E c \in Answer :
           /\ request' = [request EXCEPT ![q] = c]
           /\ request'[q] = c
           /\ c.step = code /\ c.id = i
           /\ c.key = request[q].key /\ c.fingerprint = request[q].fingerprint
<1> DEFINE c == [step |-> code, key |-> request[q].key,
                 fingerprint |-> request[q].fingerprint, id |-> i]
<1>1. c \in Answer
  BY DEF Answer, Creation
<1>2. request' = [request EXCEPT ![q] = c]
  BY DEF Respond
<1>3. request'[q] = c
  BY <1>2 DEF KeyInv, CreateTypes
<1> QED
  BY <1>1, <1>2, <1>3

LEMMA ReadStep ==
  ASSUME KeyInv, NEW q \in Request, ReadWinner(q)
  PROVE  KeyInv'
<1>1. request[q] \in Creation /\ UNCHANGED <<payments, now>>
  BY RequestType DEF ReadWinner
<1>2. PICK w \in payments : w.key = request[q].key
  BY DEF KeyInv, HoldsKey, ReadWinner
<1>3. PICK r \in payments :
        /\ r.key = request[q].key
        /\ \/ Same(r, request[q].fingerprint) /\ Respond(q, "200", r.id)
           \/ ~Same(r, request[q].fingerprint) /\ Respond(q, "409", None)
  BY <1>2 DEF ReadWinner
<1>4. CASE Same(r, request[q].fingerprint)
  <2>1. r.id \in Id
    BY DEF KeyInv, CreateTypes, Row
  <2>2. PICK c \in Answer :
           /\ request' = [request EXCEPT ![q] = c]
           /\ request'[q] = c
           /\ c.step = "200" /\ c.id = r.id
           /\ c.key = request[q].key /\ c.fingerprint = request[q].fingerprint
    BY <1>1, <1>3, <1>4, <2>1, ResponseOf
  <2>3. Placed(q)' /\ Alone(q)'
    BY <1>1, <1>3, <1>4, <2>2 DEF Placed, Alone, At, Same
  <2> QED
    BY <1>1, <2>2, <2>3, RequestStep
<1>5. CASE ~Same(r, request[q].fingerprint)
  <2>2. PICK c \in Answer :
           /\ request' = [request EXCEPT ![q] = c]
           /\ request'[q] = c
           /\ c.step = "409"
           /\ c.key = request[q].key /\ c.fingerprint = request[q].fingerprint
    BY <1>1, <1>3, <1>5, ResponseOf
  <2>3. Placed(q)' /\ Alone(q)'
    BY <1>1, <1>3, <1>5, <2>2 DEF Placed, Alone, At, Same
  <2> QED
    BY <1>1, <2>2, <2>3, RequestStep
<1> QED
  BY <1>4, <1>5

\* The row of a new payment.
LEMMA CommitStep ==
  ASSUME KeyInv, NEW q \in Request, Commit(q)
  PROVE  KeyInv'
<1> DEFINE n == [id |-> request[q].id, key |-> request[q].key,
                 fingerprint |-> request[q].fingerprint, at |-> request[q].at,
                 status |-> "AWAITING_PAYMENT"]
<1>1. /\ At(q, "inserted") /\ request[q] \in Creation /\ request[q].id \in Id
      /\ \A r \in payments : r.key # request[q].key
  BY RequestType DEF Commit, KeyInv, HoldsKey
<1>2. /\ n \in Row /\ payments' = payments \union {n}
      /\ n.key = request[q].key /\ n.id = request[q].id
      /\ n.fingerprint = request[q].fingerprint
  BY <1>1 DEF Commit, Row, Creation, PaymentStatus
<1> HIDE DEF n
<1>3. PICK c \in Answer :
         /\ request' = [request EXCEPT ![q] = c]
         /\ request'[q] = c
         /\ c.step = "201" /\ c.id = request[q].id
         /\ c.key = request[q].key /\ c.fingerprint = request[q].fingerprint
  BY <1>1, ResponseOf DEF Commit
<1>4. CreateTypes'
  BY <1>2, <1>3 DEF KeyInv, CreateTypes, Commit
<1>5. \A r, s \in payments' : r.key = s.key => r = s
  BY <1>1, <1>2 DEF KeyInv, OnePaymentPerKey
<1>6. Placed(q)' /\ Alone(q)'
  BY <1>1, <1>2, <1>3 DEF Placed, Alone, At
<1>7. ASSUME NEW s \in Request, s # q PROVE Placed(s)' /\ Alone(s)'
  <2>1. Placed(s) /\ Alone(s) /\ Alone(q)
    BY KeyParts DEF KeyInv
  <2>2. \A t \in Request : t # q => request'[t] = request[t]
    BY <1>3 DEF KeyInv, CreateTypes
  <2>3. At(s, "inserted") => request[s].key # n.key
    BY <1>1, <1>2, <1>7, <2>1 DEF Alone
  <2>4. Placed(s)'
    BY <1>2, <1>7, <2>1, <2>2, <2>3 DEF Placed, At
  <2>5. Alone(s)'
    BY <1>3, <1>7, <2>1, <2>2 DEF Alone, At
  <2> QED
    BY <2>4, <2>5
<1>8. HoldsKey' /\ OnePaymentPerKey'
  <2>1. \A s \in Request : Placed(s)' /\ Alone(s)'
    BY <1>6, <1>7
  <2> QED
    BY <1>5, <2>1 DEF HoldsKey, OnePaymentPerKey, Placed, Alone
<1> QED
  BY <1>4, <1>8 DEF KeyInv

\* A row keeps its id, key and fingerprint when its status changes.
LEMMA StatusStep ==
  ASSUME KeyInv, NEW r \in payments, NEW x \in PaymentStatus, ChangeStatus(r, x)
  PROVE  KeyInv'
<1> DEFINE n == [r EXCEPT !.status = x]
<1>1. n \in Row /\ n.id = r.id /\ n.key = r.key /\ n.fingerprint = r.fingerprint
  BY DEF KeyInv, CreateTypes, Row
<1>2. payments' = (payments \ {r}) \union {n} /\ UNCHANGED <<request, now>>
  BY DEF ChangeStatus
<1> HIDE DEF n
<1>3. CreateTypes'
  BY <1>1, <1>2 DEF KeyInv, CreateTypes
<1>4. \A p, s \in payments' : p.key = s.key => p = s
  BY <1>1, <1>2 DEF KeyInv, OnePaymentPerKey
<1>5. /\ \A p \in payments : \E s \in payments' :
           s.id = p.id /\ s.key = p.key /\ s.fingerprint = p.fingerprint
      /\ \A s \in payments' : \E p \in payments : s.key = p.key
  BY <1>1, <1>2
<1>6. ASSUME NEW s \in Request PROVE Placed(s)' /\ Alone(s)'
  <2>1. Placed(s) /\ Alone(s)
    BY KeyParts DEF KeyInv
  <2>2. Placed(s)'
    BY <1>2, <1>5, <2>1 DEF Placed, At
  <2>3. Alone(s)'
    BY <1>2, <2>1 DEF Alone, At
  <2> QED
    BY <2>2, <2>3
<1>7. HoldsKey' /\ OnePaymentPerKey'
  BY <1>4, <1>6 DEF HoldsKey, OnePaymentPerKey, Placed, Alone
<1> QED
  BY <1>3, <1>7 DEF KeyInv

LEMMA KeyStep == KeyInv /\ [Next]_vars => KeyInv'
<1> SUFFICES ASSUME KeyInv, [Next]_vars PROVE KeyInv'
  OBVIOUS
<1>1. ASSUME UNCHANGED <<payments, request>>, now' \in 0..MaxTime PROVE KeyInv'
  BY <1>1 DEF KeyInv, CreateTypes, HoldsKey, OnePaymentPerKey, At
<1>2. CASE UNCHANGED vars
  BY <1>1, <1>2 DEF vars, KeyInv, CreateTypes
<1>3. CASE NextPage \/ Tick \/ \E filter \in Filters : StartWalk(filter)
  BY <1>1, <1>3, LimitAssumption DEF NextPage, Tick, StartWalk, KeyInv, CreateTypes
<1> QED
  BY <1>2, <1>3, BeginStep, InsertStep, CommitStep, IdleStep, ReadStep, StatusStep DEF Next, Rest

LEMMA KeyInvAlways == Spec => []KeyInv
BY KeyInit, KeyStep, PTL DEF Spec

\* However many requests carry a key, one payment comes of it, and every answer is of
\* that payment.
THEOREM OnePaymentPerKeyAlways == Spec => []OnePaymentPerKey
<1>1. KeyInv => OnePaymentPerKey
  BY DEF KeyInv
<1> QED
  BY <1>1, KeyInvAlways, PTL

-----------------------------------------------------------------------------
(* The order of a page. *)

Places == Int \X Int

\* Newer is a strict total order, and Below its converse.
LEMMA NewerOrder ==
  /\ \A p \in Places : ~Newer(p, p)
  /\ \A p, q \in Places : Newer(p, q) <=> Below(q, p)
  /\ \A p, q \in Places : p = q \/ Newer(p, q) \/ Newer(q, p)
  /\ \A p, q, r \in Places : Newer(p, q) /\ Newer(q, r) => Newer(p, r)
BY SMT DEF Places, Newer, Below

NewestFirst(s) == \A i, j \in DOMAIN s : i < j => Newer(s[i], s[j])

\* The orders of S that a query may return.
Sortings(S) == {s \in [1..Cardinality(S) -> S] : NewestFirst(s)}

\* A sorting of S leaves out no element.
LEMMA SortingIsOnto ==
  ASSUME NEW S \in SUBSET Places, IsFiniteSet(S), NEW s \in Sortings(S)
  PROVE  /\ Cardinality(S) \in Nat
         /\ \A p \in S : \E i \in 1..Cardinality(S) : s[i] = p
<1> DEFINE n == Cardinality(S)
<1>1. n \in Nat
  BY FS_CardinalityType
<1>2. s \in [1..n -> S] /\ NewestFirst(s)
  BY DEF Sortings
<1>3. IsFiniteSet(1..n) /\ Cardinality(1..n) = n
  BY <1>1, FS_Interval
<1>4. \A i, j \in 1..n : s[i] = s[j] => i = j
  <2> SUFFICES ASSUME NEW i \in 1..n, NEW j \in 1..n, s[i] = s[j], i < j PROVE FALSE
    BY <1>1
  <2>1. s[i] \in Places /\ Newer(s[i], s[j])
    BY <1>2 DEF NewestFirst
  <2> QED
    BY <2>1, NewerOrder
<1>5. s \in Injection(1..n, S)
  BY <1>2, <1>4 DEF Injection, IsInjective
<1>6. s \in Surjection(1..n, S)
  BY <1>3, <1>5, FS_Injection
<1> QED
  BY <1>1, <1>6 DEF Surjection

\* A set of one element less with a sorting, and an oldest element, have a sorting.
LEMMA AppendOldest ==
  ASSUME NEW S \in SUBSET Places, IsFiniteSet(S), NEW m \in S,
         \A p \in S \ {m} : Newer(p, m), NEW t \in Sortings(S \ {m})
  PROVE  Sortings(S) # {}
<1> DEFINE n == Cardinality(S \ {m})
           s == [i \in 1..n+1 |-> IF i <= n THEN t[i] ELSE m]
<1>1. n \in Nat /\ Cardinality(S) = n + 1
  <2>1. IsFiniteSet(S \ {m}) /\ Cardinality(S \ {m}) = Cardinality(S) - 1
    BY FS_RemoveElement
  <2> QED
    BY <2>1, FS_CardinalityType
<1>2. t \in [1..n -> S \ {m}] /\ NewestFirst(t)
  BY DEF Sortings
<1> HIDE DEF n
<1>3. s \in [1..n+1 -> S]
  BY <1>1, <1>2
<1>4. NewestFirst(s)
  <2> SUFFICES ASSUME NEW i \in 1..n+1, NEW j \in 1..n+1, i < j PROVE Newer(s[i], s[j])
    BY DEF NewestFirst
  <2>1. i \in 1..n /\ s[i] = t[i]
    BY <1>1
  <2>2. CASE j \in 1..n
    BY <1>2, <2>1, <2>2 DEF NewestFirst
  <2>3. CASE j = n + 1
    BY <1>1, <1>2, <2>1, <2>3
  <2> QED
    BY <1>1, <2>2, <2>3
<1> QED
  BY <1>1, <1>3, <1>4 DEF Sortings

\* Every finite set of places has a sorting: a smallest one without would have an oldest
\* element, and a sorting of the others.
LEMMA SortingExists ==
  ASSUME NEW S \in SUBSET Places, IsFiniteSet(S)
  PROVE  Sortings(S) # {}
<1> DEFINE Unsorted == {U \in FiniteSubsetsOf(Places) : Sortings(U) = {}}
<1> SUFFICES ASSUME Unsorted # {} PROVE FALSE
  BY DEF FiniteSubsetsOf
<1>1. PICK U \in Unsorted : \A V \in Unsorted : <<V, U>> \notin StrictSubsetOrdering(Places)
  <2>1. Unsorted \subseteq FiniteSubsetsOf(Places)
    OBVIOUS
  <2>2. IsWellFoundedOn(StrictSubsetOrdering(Places), FiniteSubsetsOf(Places))
    BY FS_StrictSubsetOrderingWellFounded
  <2> HIDE DEF Unsorted
  <2> QED
    BY <2>1, <2>2, WFMin
<1>2. U \in SUBSET Places /\ IsFiniteSet(U) /\ Sortings(U) = {}
  BY DEF FiniteSubsetsOf
<1>3. ASSUME NEW x \in U PROVE Sortings(U \ {x}) # {}
  <2>1. IsFiniteSet(U \ {x})
    BY <1>2, FS_RemoveElement
  <2>2. <<U \ {x}, U>> \in StrictSubsetOrdering(Places)
    BY <1>2, <1>3 DEF StrictSubsetOrdering
  <2> QED
    BY <1>1, <1>2, <2>1, <2>2 DEF FiniteSubsetsOf
<1>4. U # {}
  <2> SUFFICES ASSUME U = {} PROVE FALSE
    OBVIOUS
  <2>1. Cardinality(U) = 0
    BY FS_EmptySet
  <2>2. [i \in 1..0 |-> 0] \in [1..0 -> U] /\ NewestFirst([i \in 1..0 |-> 0])
    BY DEF NewestFirst
  <2> QED
    BY <1>2, <2>1, <2>2 DEF Sortings
<1>5. PICK x \in U : TRUE
  BY <1>4
<1>6. PICK s \in Sortings(U \ {x}) : TRUE
  BY <1>3
<1> DEFINE V == U \ {x}
           n == Cardinality(V)
<1>7. IsFiniteSet(V) /\ V \in SUBSET Places
  BY <1>2, FS_RemoveElement
<1>8. /\ n \in Nat /\ s \in [1..n -> V] /\ NewestFirst(s)
      /\ \A p \in V : \E i \in 1..n : s[i] = p
  BY <1>6, <1>7, SortingIsOnto DEF Sortings
<1> HIDE DEF n
<1>9. \E m \in U : \A p \in U \ {m} : Newer(p, m)
  <2>1. CASE V = {}
    BY <1>5, <2>1
  <2>2. CASE V # {}
    <3>1. n \in 1..n /\ s[n] \in V
      BY <1>8, <2>2
    <3>2. \A p \in V : p = s[n] \/ Newer(p, s[n])
      BY <1>8, <3>1 DEF NewestFirst
    <3>3. CASE Newer(x, s[n])
      BY <3>1, <3>2, <3>3
    <3>4. CASE Newer(s[n], x)
      <4>1. \A p \in V : Newer(p, x)
        BY <1>2, <1>5, <3>1, <3>2, <3>4, NewerOrder
      <4> QED
        BY <4>1, <1>5
    <3> QED
      BY <1>2, <1>5, <3>1, <3>3, <3>4, NewerOrder
  <2> QED
    BY <2>1, <2>2
<1> QED
  BY <1>2, <1>3, <1>9, AppendOldest

\* The rows of a page are all that the query selects, newest first.
LEMMA InOrderOf ==
  ASSUME NEW S \in SUBSET Places, IsFiniteSet(S)
  PROVE  /\ InOrder(S) \in Seq(S)
         /\ NewestFirst(InOrder(S))
         /\ \A p \in S : \E i \in 1..Len(InOrder(S)) : InOrder(S)[i] = p
<1>1. \E s \in [1..Cardinality(S) -> S] : \A i, j \in DOMAIN s : i < j => Newer(s[i], s[j])
  BY SortingExists DEF Sortings, NewestFirst
<1>2. InOrder(S) \in [1..Cardinality(S) -> S] /\ NewestFirst(InOrder(S))
  BY <1>1 DEF InOrder, NewestFirst
<1>3. InOrder(S) \in Sortings(S)
  BY <1>2 DEF Sortings
<1>4. Cardinality(S) \in Nat /\ \A p \in S : \E i \in 1..Cardinality(S) : InOrder(S)[i] = p
  BY <1>3, SortingIsOnto
<1>5. InOrder(S) \in Seq(S) /\ Len(InOrder(S)) = Cardinality(S)
  <2> HIDE DEF InOrder
  <2>1. InOrder(S) \in Seq(S)
    BY <1>2, <1>4, SeqDef
  <2>2. InOrder(S) \in [1..Len(InOrder(S)) -> S] /\ Len(InOrder(S)) \in Nat
    BY <2>1, LenProperties
  <2> QED
    BY <1>2, <1>4, <2>1, <2>2
<1> QED
  BY <1>2, <1>4, <1>5

-----------------------------------------------------------------------------
(* The walk. *)

Walk == [filter : Filters, cursor : (-1..MaxTime+1) \X (Id \union {None}),
         listed : Seq(Places), constant : SUBSET Id]

\* The walk has listed the place p, or will come to it.
Covered(p) ==
  \/ \E n \in DOMAIN walk.listed : walk.listed[n] = p
  \/ walk.cursor # End /\ Below(p, walk.cursor)

\* What the walk has listed lies above its cursor, newest first; and each payment that
\* it promises is a row that still matches, listed or below the cursor.
WalkInv ==
  /\ IsFiniteSet(payments)
  /\ walk # Idle =>
       /\ walk \in Walk
       /\ NewestFirst(walk.listed)
       /\ walk.cursor # End => \A n \in DOMAIN walk.listed : ~Below(walk.listed[n], walk.cursor)
       /\ \A n \in DOMAIN walk.listed : \E r \in payments : walk.listed[n] = Position(r)
       /\ \A i \in walk.constant : \E r \in payments :
            r.id = i /\ Matches(r, walk.filter) /\ Covered(Position(r))

LEMMA WalkInit == Init => WalkInv
BY FS_EmptySet DEF Init, WalkInv

LEMMA PlaceOfRow ==
  ASSUME KeyInv, NEW r \in payments
  PROVE  /\ Position(r) \in Places /\ Position(r)[1] \in 0..MaxTime
         /\ Position(r)[2] = r.id /\ Position(r) # End
         /\ Position(r) \in (-1..MaxTime+1) \X (Id \union {None})
<1>1. r.at \in 0..MaxTime /\ r.id \in Id
  BY DEF KeyInv, CreateTypes, Row
<1>2. MaxTime \in Nat /\ Id \subseteq Nat
  BY IdAssumption, LimitAssumption
<1>3. Position(r) = <<r.at, r.id>> /\ End = <<-1, None>>
  BY DEF Position, End
<1>4. r.at \in Int /\ r.at \in -1..MaxTime+1 /\ r.at # -1
  BY <1>1, <1>2
<1>5. r.id \in Nat
  BY <1>1, <1>2, Zenon
<1> QED
  BY <1>1, <1>3, <1>4, <1>5 DEF Places

LEMMA CursorIsPlace ==
  ASSUME WalkInv, walk # Idle
  PROVE  walk.cursor \in Places
<1>1. walk.cursor \in (-1..MaxTime+1) \X (Id \union {None})
  BY DEF WalkInv, Walk
<1>2. -1..MaxTime+1 \subseteq Int /\ Id \union {None} \subseteq Int
  BY IdAssumption, LimitAssumption DEF None
<1> QED
  BY <1>1, <1>2 DEF Places

\* The rows of a query are finitely many places.
LEMMA PlacesOfRows ==
  ASSUME KeyInv, IsFiniteSet(payments), NEW R \in SUBSET payments
  PROVE  /\ {Position(r) : r \in R} \in SUBSET Places
         /\ IsFiniteSet({Position(r) : r \in R})
<1> DEFINE f == [r \in R |-> Position(r)]
           S == {Position(r) : r \in R}
<1>1. IsFiniteSet(R)
  BY FS_Subset
<1>2. f \in [R -> S] /\ \A p \in S : \E r \in R : f[r] = p
  OBVIOUS
<1> HIDE DEF f
<1>3. f \in Surjection(R, S)
  BY <1>2 DEF Surjection
<1>4. IsFiniteSet(S)
  BY <1>1, <1>3, FS_Surjection
<1>5. S \in SUBSET Places
  BY PlaceOfRow
<1> QED
  BY <1>4, <1>5

\* Rows that appear are no concern of the walk's.
LEMMA RowsAppear ==
  ASSUME WalkInv, UNCHANGED walk, payments \subseteq payments', IsFiniteSet(payments')
  PROVE  WalkInv'
BY DEF WalkInv, Covered

LEMMA CreationWalk ==
  ASSUME KeyInv, WalkInv, NEW q \in Request,
         \/ \E k \in Key, f \in Fingerprint : Begin(q, k, f)
         \/ Insert(q) \/ Commit(q) \/ Abort(q) \/ ReadWinner(q) \/ Receive(q)
  PROVE  WalkInv'
<1>1. CASE Commit(q)
  <2>1. UNCHANGED walk /\ payments \subseteq payments' /\ IsFiniteSet(payments')
    BY <1>1, FS_AddElement DEF Commit, WalkInv
  <2> QED
    BY <2>1, RowsAppear
<1>2. CASE UNCHANGED <<payments, walk>>
  BY <1>2, RowsAppear DEF WalkInv
<1> QED
  BY <1>1, <1>2 DEF Begin, Insert, Abort, ReadWinner, Receive

LEMMA StartStep ==
  ASSUME KeyInv, WalkInv, NEW filter \in Filters, StartWalk(filter)
  PROVE  WalkInv'
<1> DEFINE c == {r.id : r \in {s \in payments : Matches(s, filter)}}
           w == [filter |-> filter, cursor |-> NoCursor, listed |-> <<>>, constant |-> c]
<1>1. walk' = w /\ UNCHANGED payments
  BY DEF StartWalk
<1>2. c \in SUBSET Id
  BY DEF KeyInv, CreateTypes, Row
<1>3. NoCursor \in (-1..MaxTime+1) \X (Id \union {None}) /\ NoCursor # End
  BY LimitAssumption DEF NoCursor, End
<1>4. w \in Walk /\ DOMAIN w.listed = {}
  BY <1>2, <1>3 DEF Walk
<1>5. ASSUME NEW i \in c
      PROVE  \E r \in payments : r.id = i /\ Matches(r, filter) /\ Below(Position(r), NoCursor)
  <2>1. PICK r \in payments : r.id = i /\ Matches(r, filter)
    OBVIOUS
  <2>2. Below(Position(r), NoCursor)
    BY LimitAssumption, PlaceOfRow DEF Below, NoCursor
  <2> QED
    BY <2>1, <2>2
<1>6. w.filter = filter /\ w.cursor = NoCursor /\ w.constant = c
  OBVIOUS
<1> HIDE DEF w, c
<1> QED
  BY <1>1, <1>3, <1>4, <1>5, <1>6 DEF WalkInv, NewestFirst, Covered

\* What one page adds.
LEMMA PageStepOfWalk ==
  ASSUME KeyInv, WalkInv, NextPage
  PROVE  WalkInv'
<1> DEFINE R    == {r \in payments : Matches(r, walk.filter) /\ Below(Position(r), walk.cursor)}
           S    == {Position(r) : r \in R}
           rows == InOrder(S)
           n    == Len(rows)
           m    == IF n < Limit THEN n ELSE Limit
           page == SubSeq(rows, 1, m)
           old  == walk.listed
           end  == IF n > Limit THEN Last(page) ELSE End
<1>0. Limit \in Nat /\ Limit >= 1
  BY LimitAssumption
<1>1. /\ walk # Idle /\ walk.cursor # End /\ walk \in Walk
      /\ walk' = [walk EXCEPT !.listed = old \o page, !.cursor = end]
      /\ UNCHANGED payments
  BY DEF NextPage, WalkInv
<1>2. S \in SUBSET Places /\ IsFiniteSet(S)
  BY PlacesOfRows DEF WalkInv
<1>3. \A p \in S : \E r \in R : p = Position(r)
  OBVIOUS
<1>4. \A r \in R : Position(r) \in S /\ r \in payments
                   /\ Matches(r, walk.filter) /\ Below(Position(r), walk.cursor)
  OBVIOUS
<1>5. \A r \in payments : Matches(r, walk.filter) /\ Below(Position(r), walk.cursor) => r \in R
  OBVIOUS
<1> HIDE DEF R, S
<1>6. /\ rows \in Seq(S) /\ NewestFirst(rows)
      /\ \A p \in S : \E i \in 1..Len(rows) : rows[i] = p
  BY <1>2, InOrderOf
<1> HIDE DEF rows
<1>7. n \in Nat /\ rows \in [1..n -> S] /\ DOMAIN rows = 1..n
  BY <1>6, LenProperties
<1>8. m \in Nat /\ m <= n /\ m <= Limit /\ (n > Limit => m = Limit) /\ (n <= Limit => m = n)
  <2> HIDE DEF n
  <2>1. CASE n < Limit
    BY <1>0, <1>7, <2>1
  <2>2. CASE ~(n < Limit)
    BY <1>0, <1>7, <2>2
  <2> QED
    BY <2>1, <2>2
<1> HIDE DEF n, m
<1>9. page \in Seq(S) /\ Len(page) = m /\ \A i \in 1..m : page[i] = rows[i]
  <2>1. /\ SubSeq(rows, 1, m) \in Seq(S)
        /\ Len(SubSeq(rows, 1, m)) = IF 1 <= m THEN m - 1 + 1 ELSE 0
        /\ \A i \in 1 .. m - 1 + 1 : SubSeq(rows, 1, m)[i] = rows[1 + i - 1]
    <3>1. \A i \in 1..m : rows[i] \in S
      BY <1>7, <1>8
    <3> QED
      BY <1>8, <3>1, SubSeqProperties
  <2> QED
    BY <1>8, <2>1
<1> HIDE DEF page
<1>10. page \in Seq(Places) /\ old \in Seq(Places)
  BY <1>1, <1>2, <1>9, SeqMonotonic DEF Walk
<1> DEFINE o   == Len(old)
           new == old \o page
<1>11. o \in Nat /\ DOMAIN old = 1..o /\ \A i \in 1..o : old[i] \in Places
  BY <1>10, LenProperties
<1>12. /\ new \in Seq(Places) /\ DOMAIN new = 1..o+m
       /\ \A i \in 1..o : new[i] = old[i]
       /\ \A i \in 1..m : o + i \in 1..o+m /\ new[o+i] = rows[i]
  <2>1. /\ new \in Seq(Places) /\ Len(new) = o + m
        /\ \A i \in 1..o+m : new[i] = IF i <= o THEN old[i] ELSE page[i - o]
    BY <1>9, <1>10, ConcatProperties
  <2>2. DOMAIN new = 1..o+m
    BY <2>1, LenProperties
  <2>3. \A i \in 1..m : o + i \in 1..o+m /\ new[o+i] = rows[i]
    BY <1>8, <1>9, <1>11, <2>1
  <2> QED
    BY <1>8, <1>11, <2>1, <2>2, <2>3
<1>13. \A i \in 1..o+m : i \in 1..o \/ \E j \in 1..m : i = o + j
  <2> HIDE DEF o
  <2> SUFFICES ASSUME NEW i \in 1..o+m, i \notin 1..o PROVE \E j \in 1..m : i = o + j
    OBVIOUS
  <2>1. i - o \in 1..m /\ i = o + (i - o)
    BY <1>8, <1>11
  <2> QED
    BY <2>1
<1> HIDE DEF new, o
<1>14. \A i \in 1..o, j \in 1..n : Newer(old[i], rows[j])
  <2> SUFFICES ASSUME NEW i \in 1..o, NEW j \in 1..n PROVE Newer(old[i], rows[j])
    OBVIOUS
  <2>1. ~Below(old[i], walk.cursor) /\ Below(rows[j], walk.cursor)
    BY <1>1, <1>3, <1>4, <1>7, <1>11 DEF WalkInv
  <2>2. old[i] \in Places /\ rows[j] \in Places /\ walk.cursor \in Places
    BY <1>1, <1>2, <1>7, <1>11, CursorIsPlace
  <2> HIDE DEF old
  <2> QED
    BY <2>1, <2>2, NewerOrder
<1>15. NewestFirst(new)
  <2> SUFFICES ASSUME NEW i \in 1..o+m, NEW j \in 1..o+m, i < j PROVE Newer(new[i], new[j])
    BY <1>12 DEF NewestFirst
  <2>1. CASE j \in 1..o
    BY <1>1, <1>11, <1>12, <2>1 DEF NewestFirst, WalkInv
  <2>2. ASSUME NEW l \in 1..m, j = o + l PROVE Newer(new[i], new[j])
    <3>1. CASE i \in 1..o
      BY <1>7, <1>8, <1>12, <1>14, <2>2, <3>1
    <3>2. ASSUME NEW k \in 1..m, i = o + k PROVE Newer(new[i], new[j])
      <4>1. k < l /\ k \in 1..n /\ l \in 1..n
        BY <1>7, <1>8, <1>11, <2>2, <3>2
      <4>2. Newer(rows[k], rows[l])
        BY <1>6, <1>7, <4>1 DEF NewestFirst
      <4> QED
        BY <1>12, <2>2, <3>2, <4>2
    <3> QED
      BY <1>13, <3>1, <3>2
  <2> QED
    BY <1>13, <2>1, <2>2
<1>16. n > Limit => Limit \in 1..m /\ end = rows[Limit]
  BY <1>0, <1>7, <1>8, <1>9 DEF Last
<1>17. /\ n > Limit => Limit \in 1..n /\ end \in S
       /\ ~(n > Limit) => end = End
  BY <1>0, <1>7, <1>8, <1>16
<1>18. end \in (-1..MaxTime+1) \X (Id \union {None}) /\ (n > Limit => end # End)
  <2>1. End \in (-1..MaxTime+1) \X (Id \union {None})
    BY LimitAssumption DEF End
  <2> QED
    BY <1>3, <1>4, <1>17, <2>1, PlaceOfRow
<1> HIDE DEF end
<1>19. walk' \in Walk /\ walk'.listed = new /\ walk'.cursor = end
       /\ walk'.filter = walk.filter /\ walk'.constant = walk.constant
  BY <1>1, <1>12, <1>18 DEF Walk, new
<1>20. end # End => \A i \in DOMAIN new : ~Below(new[i], end)
  <2> SUFFICES ASSUME end # End, NEW i \in 1..o+m PROVE ~Below(new[i], end)
    BY <1>12
  <2>1. n > Limit /\ Limit \in 1..m /\ end = rows[Limit] /\ Limit \in 1..n
    BY <1>16, <1>17
  <2>2. rows[Limit] \in Places /\ new[i] \in Places
    BY <1>2, <1>7, <1>12, <2>1, ElementOfSeq, LenProperties
  <2>3. new[i] = end \/ Newer(new[i], end)
    <3>1. CASE i \in 1..o
      BY <1>12, <1>14, <2>1, <3>1
    <3>2. ASSUME NEW k \in 1..m, i = o + k PROVE new[i] = end \/ Newer(new[i], end)
      <4>1. k \in 1..n /\ k <= Limit
        BY <1>0, <1>7, <1>8, <3>2
      <4>2. k = Limit \/ Newer(rows[k], rows[Limit])
        BY <1>0, <1>6, <1>7, <2>1, <4>1 DEF NewestFirst
      <4> QED
        BY <1>12, <2>1, <3>2, <4>2
    <3> QED
      BY <1>13, <3>1, <3>2
  <2> QED
    BY <2>1, <2>2, <2>3, NewerOrder
<1>21. \A i \in DOMAIN new : \E r \in payments : new[i] = Position(r)
  <2> SUFFICES ASSUME NEW i \in 1..o+m PROVE \E r \in payments : new[i] = Position(r)
    BY <1>12
  <2>1. CASE i \in 1..o
    BY <1>1, <1>11, <1>12, <2>1 DEF WalkInv
  <2>2. ASSUME NEW k \in 1..m, i = o + k PROVE \E r \in payments : new[i] = Position(r)
    <3>1. new[i] = rows[k] /\ rows[k] \in S
      BY <1>7, <1>8, <1>12, <2>2
    <3> QED
      BY <1>3, <1>4, <3>1
  <2> QED
    BY <1>13, <2>1, <2>2
<1>22. ASSUME NEW i \in walk.constant
       PROVE  \E r \in payments : /\ r.id = i /\ Matches(r, walk.filter)
                                  /\ \/ \E k \in DOMAIN new : new[k] = Position(r)
                                     \/ end # End /\ Below(Position(r), end)
  <2>1. PICK r \in payments : r.id = i /\ Matches(r, walk.filter) /\ Covered(Position(r))
    BY <1>1 DEF WalkInv
  <2>2. CASE \E k \in DOMAIN old : old[k] = Position(r)
    BY <1>8, <1>11, <1>12, <2>1, <2>2
  <2>3. CASE Below(Position(r), walk.cursor)
    <3>1. PICK k \in 1..n : rows[k] = Position(r)
      BY <1>4, <1>5, <1>6, <1>7, <2>1, <2>3 DEF n
    <3>2. CASE k <= m
      <4>1. o + k \in DOMAIN new /\ new[o+k] = Position(r)
        BY <1>7, <1>8, <1>11, <1>12, <3>1, <3>2
      <4> QED
        BY <2>1, <4>1
    <3>3. CASE k > m
      <4>1. n > Limit /\ Limit \in 1..n /\ Limit < k /\ end = rows[Limit]
        BY <1>0, <1>7, <1>8, <1>16, <3>3
      <4>2. Newer(rows[Limit], rows[k]) /\ rows[k] \in Places /\ rows[Limit] \in Places
        BY <1>2, <1>6, <1>7, <4>1 DEF NewestFirst
      <4> QED
        BY <1>18, <2>1, <3>1, <4>1, <4>2, NewerOrder
    <3> QED
      BY <1>7, <1>8, <3>2, <3>3
  <2> QED
    BY <2>1, <2>2, <2>3 DEF Covered
<1>23. /\ walk' \in Walk /\ NewestFirst(walk'.listed)
       /\ walk'.cursor # End => \A i \in DOMAIN walk'.listed : ~Below(walk'.listed[i], walk'.cursor)
       /\ \A i \in DOMAIN walk'.listed : \E r \in payments : walk'.listed[i] = Position(r)
  BY <1>15, <1>19, <1>20, <1>21
<1>24. \A i \in walk'.constant : \E r \in payments :
         r.id = i /\ Matches(r, walk'.filter) /\ Covered(Position(r))'
  BY <1>19, <1>22 DEF Covered
<1>25. IsFiniteSet(payments') /\ UNCHANGED payments
  BY <1>1 DEF WalkInv
<1> QED
  BY <1>23, <1>24, <1>25 DEF WalkInv

\* A row keeps its place when its status changes, and the walk gives up the promise.
LEMMA StatusWalk ==
  ASSUME KeyInv, WalkInv, NEW r \in payments, NEW x \in PaymentStatus, ChangeStatus(r, x)
  PROVE  WalkInv'
<1> DEFINE n == [r EXCEPT !.status = x]
<1>1. n.id = r.id /\ Position(n) = Position(r)
  BY DEF KeyInv, CreateTypes, Row, Position
<1>2. /\ payments' = (payments \ {r}) \union {n}
      /\ walk' = IF walk = Idle \/ walk.filter = "ANY" THEN walk
                 ELSE [walk EXCEPT !.constant = @ \ {r.id}]
  BY DEF ChangeStatus
<1> HIDE DEF n
<1>3. IsFiniteSet(payments')
  BY <1>2, FS_RemoveElement, FS_AddElement DEF WalkInv
<1>4. \A s \in payments : \E t \in payments' : t.id = s.id /\ Position(t) = Position(s)
  BY <1>1, <1>2
<1>5. \A s \in payments : s.id # r.id => s \in payments'
  BY <1>2
<1>6. CASE walk = Idle
  BY <1>2, <1>3, <1>6 DEF WalkInv
<1>7. CASE walk # Idle /\ walk.filter = "ANY"
  <2>1. UNCHANGED walk /\ \A s \in payments' : Matches(s, walk.filter)
    BY <1>2, <1>7 DEF Matches
  <2>2. \A i \in walk.constant : \E s \in payments' :
          s.id = i /\ Matches(s, walk.filter) /\ Covered(Position(s))
    BY <1>4, <1>7, <2>1 DEF WalkInv
  <2> QED
    BY <1>3, <1>4, <1>7, <2>1, <2>2 DEF WalkInv, Covered
<1>8. CASE walk # Idle /\ walk.filter # "ANY"
  <2>1. /\ walk' \in Walk /\ walk'.listed = walk.listed /\ walk'.cursor = walk.cursor
        /\ walk'.filter = walk.filter /\ walk'.constant = walk.constant \ {r.id}
    BY <1>2, <1>8 DEF WalkInv, Walk
  <2>2. \A i \in walk.constant \ {r.id} : \E s \in payments' :
          s.id = i /\ Matches(s, walk.filter) /\ Covered(Position(s))
    BY <1>5, <1>8 DEF WalkInv
  <2> QED
    BY <1>3, <1>4, <1>8, <2>1, <2>2 DEF WalkInv, Covered
<1> QED
  BY <1>6, <1>7, <1>8

LEMMA WalkStep == KeyInv /\ WalkInv /\ [Next]_vars => WalkInv'
<1> SUFFICES ASSUME KeyInv, WalkInv, [Next]_vars PROVE WalkInv'
  OBVIOUS
<1>1. CASE UNCHANGED vars \/ Tick
  BY <1>1, RowsAppear DEF vars, Tick, WalkInv
<1> QED
  BY <1>1, CreationWalk, StartStep, PageStepOfWalk, StatusWalk DEF Next, Rest

\* For any number of payments, any page size and any filter, the walk lists each payment
\* once, and leaves out none that it could have listed.
THEOREM WalkIsCompleteAlways == Spec => []WalkIsComplete
<1>1. WalkInv => WalkIsComplete
  <2> SUFFICES ASSUME WalkInv, walk # Idle PROVE WalkIsComplete
    BY DEF WalkIsComplete
  <2>1. ASSUME walk.cursor = End, NEW i \in walk.constant
        PROVE  \E n \in DOMAIN walk.listed : walk.listed[n][2] = i
    <3>1. PICK r \in payments : r.id = i /\ Covered(Position(r))
      BY <2>1 DEF WalkInv
    <3> QED
      BY <2>1, <3>1 DEF Covered, Position
  <2> QED
    BY <2>1 DEF WalkInv, WalkIsComplete, NewestFirst
<1> QED
  BY <1>1, KeyInvAlways, WalkInit, WalkStep, PTL DEF Spec

-----------------------------------------------------------------------------
(* Ids. *)

\* Ids are not shared, by rows or by the transactions that are to commit one.
IdInv ==
  /\ \A r, s \in payments : r.id = s.id => r = s
  /\ \A q \in Request : At(q, "inserted") => \A r \in payments : r.id # request[q].id
  /\ \A q, s \in Request :
       At(q, "inserted") /\ At(s, "inserted") /\ request[q].id = request[s].id => q = s
  /\ events = {r.id : r \in payments}

LEMMA IdInit == Init => IdInv
BY DEF Init, IdInv, At

\* A request that is not about to commit goes on.
LEMMA IdKept ==
  ASSUME KeyInv, IdInv, UNCHANGED <<payments, events>>, NEW q \in Request,
         \A s \in Request : s # q => request'[s] = request[s], ~At(q, "inserted")'
  PROVE  IdInv'
BY DEF IdInv, At

LEMMA IdStep == KeyInv /\ IdInv /\ [Next]_vars => IdInv'
<1> SUFFICES ASSUME KeyInv, IdInv, [Next]_vars PROVE IdInv'
  OBVIOUS
<1>1. request \in [Request -> Creation \union Answer \union {Idle}]
  BY DEF KeyInv, CreateTypes
<1>2. CASE UNCHANGED <<payments, events, request>>
  BY <1>2 DEF IdInv, At
<1>3. ASSUME NEW q \in Request, NEW k \in Key, NEW f \in Fingerprint, Begin(q, k, f) PROVE IdInv'
  <2> DEFINE c == [step |-> "begun", key |-> k, fingerprint |-> f, at |-> now, id |-> None]
  <2>1. c.step = "begun" /\ request' = [request EXCEPT ![q] = c] /\ UNCHANGED <<payments, events>>
    BY <1>3 DEF Begin
  <2> HIDE DEF c
  <2> QED
    BY <1>1, <2>1, IdKept DEF At
<1>4. ASSUME NEW q \in Request, Insert(q) PROVE IdInv'
  <2>1. request[q] \in Creation /\ request[q] # Idle
    BY <1>4, RequestType DEF Insert, At
  <2>2. CASE Loses(request[q].key)
    <3> DEFINE c == [request[q] EXCEPT !.step = "lost"]
    <3>1. c.step = "lost"
      BY <2>1 DEF Creation
    <3>2. request' = [request EXCEPT ![q] = c] /\ UNCHANGED <<payments, events>>
      BY <1>1, <1>4, <2>2 DEF Insert
    <3> HIDE DEF c
    <3> QED
      BY <1>1, <3>1, <3>2, IdKept DEF At
  <2>3. CASE ~Loses(request[q].key)
    <3>1. PICK i \in Id \ ({r.id : r \in payments} \union
                          {request[s].id : s \in {t \in Request : request[t] # Idle}}) :
            request' = [request EXCEPT ![q].step = "inserted", ![q].id = i]
      BY <1>4, <2>3 DEF Insert
    <3> DEFINE c == [request[q] EXCEPT !.step = "inserted", !.id = i]
    <3>2. c.id = i
      BY <2>1 DEF Creation
    <3>3. request' = [request EXCEPT ![q] = c] /\ UNCHANGED <<payments, events>>
      BY <1>1, <1>4, <3>1 DEF Insert
    <3> HIDE DEF c
    <3>4. \A r \in payments : r.id # i
      BY <3>1
    <3>5. \A s \in Request : At(s, "inserted") => request[s].id # i
      BY <3>1 DEF At
    <3>6. request'[q] = c /\ \A s \in Request : s # q => request'[s] = request[s]
      BY <1>1, <3>3
    <3> QED
      BY <3>2, <3>3, <3>4, <3>5, <3>6 DEF IdInv, At
  <2> QED
    BY <2>2, <2>3
<1>5. ASSUME NEW q \in Request, Commit(q) PROVE IdInv'
  <2> DEFINE n == [id |-> request[q].id, key |-> request[q].key,
                   fingerprint |-> request[q].fingerprint, at |-> request[q].at,
                   status |-> "AWAITING_PAYMENT"]
  <2>1. At(q, "inserted") /\ request[q] \in Creation /\ request[q].id \in Id
    BY <1>5, RequestType DEF Commit, KeyInv, HoldsKey
  <2>2. /\ n.id = request[q].id /\ payments' = payments \union {n}
        /\ events' = events \union {request[q].id}
    BY <1>5 DEF Commit, Announce
  <2> HIDE DEF n
  <2>3. PICK c \in Answer : request' = [request EXCEPT ![q] = c] /\ c.step = "201"
    BY <1>5, <2>1, ResponseOf DEF Commit
  <2>4. ~At(q, "inserted")' /\ \A s \in Request : s # q => request'[s] = request[s]
    BY <1>1, <2>3 DEF At
  <2>5. /\ \A r \in payments : r.id # n.id
        /\ \A s \in Request : s # q /\ At(s, "inserted") => request[s].id # n.id
    BY <2>1, <2>2 DEF IdInv
  <2>6. \A r, s \in payments' : r.id = s.id => r = s
    BY <2>2, <2>5 DEF IdInv
  <2>7. events' = {r.id : r \in payments'}
    BY <2>2 DEF IdInv
  <2>8. \A s \in Request : At(s, "inserted")' => s # q /\ At(s, "inserted") /\ request'[s] = request[s]
    BY <2>4 DEF At
  <2>9. \A s \in Request : At(s, "inserted")' => \A r \in payments' : r.id # request'[s].id
    BY <2>2, <2>5, <2>8 DEF IdInv
  <2>10. \A s, t \in Request : At(s, "inserted")' /\ At(t, "inserted")'
                                /\ request'[s].id = request'[t].id => s = t
    BY <2>8 DEF IdInv
  <2> QED
    BY <2>6, <2>7, <2>9, <2>10 DEF IdInv
<1>6. ASSUME NEW q \in Request, Abort(q) \/ Receive(q) PROVE IdInv'
  <2>1. request' = [request EXCEPT ![q] = Idle] /\ UNCHANGED <<payments, events>>
    BY <1>6 DEF Abort, Receive
  <2> QED
    BY <1>1, <2>1, IdKept DEF At
<1>7. ASSUME NEW q \in Request, ReadWinner(q) PROVE IdInv'
  <2>1. request[q] \in Creation /\ UNCHANGED <<payments, events>>
    BY <1>7, RequestType DEF ReadWinner
  <2>2. \A r \in payments : r.id \in Id
    BY DEF KeyInv, CreateTypes, Row
  <2>3. PICK code \in {"200", "409", "503"}, i \in Id \union {None} : Respond(q, code, i)
    BY <1>7, <2>2 DEF ReadWinner
  <2>4. PICK c \in Answer : request' = [request EXCEPT ![q] = c] /\ c.step = code
    BY <2>1, <2>3, ResponseOf
  <2> QED
    BY <1>1, <2>1, <2>3, <2>4, IdKept DEF At
<1>8. ASSUME NEW r \in payments, NEW x \in PaymentStatus, ChangeStatus(r, x) PROVE IdInv'
  <2> DEFINE n == [r EXCEPT !.status = x]
  <2>1. n.id = r.id
    BY DEF KeyInv, CreateTypes, Row
  <2>2. payments' = (payments \ {r}) \union {n} /\ UNCHANGED <<events, request>>
    BY <1>8 DEF ChangeStatus
  <2> HIDE DEF n
  <2>3. {p.id : p \in payments'} = {p.id : p \in payments}
    BY <2>1, <2>2
  <2>4. \A p, s \in payments' : p.id = s.id => p = s
    BY <2>1, <2>2 DEF IdInv
  <2>5. \A q \in Request : At(q, "inserted") => \A p \in payments' : p.id # request[q].id
    BY <2>1, <2>2 DEF IdInv
  <2> QED
    BY <2>2, <2>3, <2>4, <2>5 DEF IdInv, At
<1> QED
  BY <1>2, <1>3, <1>4, <1>5, <1>6, <1>7, <1>8
     DEF Next, Rest, vars, StartWalk, NextPage, Tick

LEMMA PaymentTypes == KeyInv /\ WalkInv /\ IdInv => PTypeOK
<1> SUFFICES ASSUME KeyInv, WalkInv, IdInv PROVE PTypeOK
  OBVIOUS
<1>1. ASSUME walk # Idle
      PROVE  /\ walk.filter \in Filters
             /\ walk.cursor \in (-1..MaxTime+1) \X (Id \union {None})
             /\ walk.constant \subseteq Id
             /\ ToSet(walk.listed) \subseteq {Position(r) : r \in payments}
  <2>1. \A n \in DOMAIN walk.listed : \E r \in payments : walk.listed[n] = Position(r)
    BY <1>1 DEF WalkInv
  <2>2. ToSet(walk.listed) \subseteq {Position(r) : r \in payments}
    BY <2>1 DEF ToSet
  <2> QED
    BY <1>1, <2>2 DEF WalkInv, Walk
<1> QED
  BY <1>1 DEF PTypeOK, KeyInv, CreateTypes, IdInv

\* Rows have ids of their own, an event was written for each, and the rest has its type.
THEOREM PaymentsTypeCorrect == Spec => []PTypeOK
BY KeyInvAlways, WalkInit, WalkStep, IdInit, IdStep, PaymentTypes, PTL DEF Spec

-----------------------------------------------------------------------------
(* The form. *)

\* The requests that keys were used for: in rows, in creations under way or answered,
\* and in the form.
Uses ==
  {<<r.key, r.fingerprint>> : r \in payments}
    \union {<<request[q].key, request[q].fingerprint>> : q \in {s \in Request : request[s] # Idle}}
    \union {<<x.key, x.fingerprint>> : x \in {form} \ {NoForm}}

\* A form has one key, which nobody else uses, for one request.
FormInv ==
  /\ form \in Form \union {NoForm}
  /\ forms \in Nat
  /\ formOf \in [Key -> 0..forms]
  /\ form # NoForm => formOf[form.key] = forms /\ forms # 0
  /\ \A k, l \in Key : formOf[k] # 0 /\ formOf[k] = formOf[l] => k = l
  /\ \A u, v \in Uses : u[1] = v[1] /\ formOf[u[1]] # 0 => u[2] = v[2]

\* The page's request is the form's, and what it takes for created is a row.
PageInv ==
  /\ \A q \in Request : Awaits(q) =>
       /\ request[q] # Idle
       /\ request[q].key = form.key /\ request[q].fingerprint = form.fingerprint
  /\ form # NoForm /\ form.phase = "created" =>
       \E r \in payments : /\ r.id = form.id /\ r.key = form.key
                           /\ r.fingerprint = form.fingerprint

IForm == KeyInv /\ FormInv /\ PageInv

LEMMA FormInit == FInit => IForm
<1> SUFFICES ASSUME FInit PROVE IForm
  OBVIOUS
<1>1. KeyInv
  BY KeyInit DEF FInit
<1>2. Uses = {}
  BY DEF FInit, Init, Uses
<1>3. FormInv /\ PageInv
  BY <1>2 DEF FInit, FormInv, PageInv, Awaits
<1> QED
  BY <1>1, <1>3 DEF IForm

LEMMA KeysUsed ==
  ASSUME IForm, NEW u \in Uses
  PROVE  u[1] \in Key
BY RequestType DEF IForm, FormInv, Uses, KeyInv, CreateTypes, Row, Form

\* Steps that begin no creation use no key for another request.
LEMMA UsesFewer ==
  ASSUME IForm, UNCHANGED <<forms, formOf>>, Uses' \subseteq Uses,
         form' \in Form \union {NoForm},
         form' # NoForm => form # NoForm /\ form'.key = form.key
  PROVE  FormInv'
BY DEF IForm, FormInv

\* A creation that goes on keeps its key and its request.
LEMMA GoesOnStep ==
  ASSUME KeyInv, NEW q \in Request, request[q] \in Creation,
         Insert(q) \/ Commit(q) \/ ReadWinner(q)
  PROVE  /\ request'[q].key = request[q].key
         /\ request'[q].fingerprint = request[q].fingerprint
         /\ request'[q] # Idle
<1>1. CASE Insert(q)
  <2>1. \A i \in Id : /\ [request[q] EXCEPT !.step = "inserted", !.id = i] \in Creation
                     /\ [request[q] EXCEPT !.step = "inserted", !.id = i].key = request[q].key
                     /\ [request[q] EXCEPT !.step = "inserted", !.id = i].fingerprint
                          = request[q].fingerprint
    BY DEF Creation
  <2>2. /\ [request[q] EXCEPT !.step = "lost"] \in Creation
        /\ [request[q] EXCEPT !.step = "lost"].key = request[q].key
        /\ [request[q] EXCEPT !.step = "lost"].fingerprint = request[q].fingerprint
    BY DEF Creation
  <2>3. \/ request'[q] = [request[q] EXCEPT !.step = "lost"]
        \/ \E i \in Id : request'[q] = [request[q] EXCEPT !.step = "inserted", !.id = i]
    BY <1>1 DEF Insert, KeyInv, CreateTypes
  <2> QED
    BY <2>1, <2>2, <2>3, IdleAssumption
<1>2. ASSUME NEW code \in {"201", "200", "409", "503"}, NEW i \in Id \union {None},
             Respond(q, code, i)
      PROVE  /\ request'[q].key = request[q].key
             /\ request'[q].fingerprint = request[q].fingerprint
             /\ request'[q] # Idle
  BY <1>2, ResponseOf, IdleAssumption
<1>3. CASE Commit(q)
  <2>1. request[q].id \in Id \union {None}
    BY DEF Creation
  <2> QED
    BY <1>2, <1>3, <2>1 DEF Commit
<1>4. CASE ReadWinner(q)
  <2>1. \A r \in payments : r.id \in Id
    BY DEF KeyInv, CreateTypes, Row
  <2> QED
    BY <1>2, <1>4, <2>1 DEF ReadWinner
<1> QED
  BY <1>1, <1>3, <1>4

\* So does one that ends, if it is remembered at all: no key is used anew.
LEMMA ServeUses ==
  ASSUME KeyInv, NEW q \in Request,
         Insert(q) \/ Commit(q) \/ ReadWinner(q) \/ Abort(q) \/ Receive(q),
         UNCHANGED form
  PROVE  Uses' \subseteq Uses
<1>1. request \in [Request -> Creation \union Answer \union {Idle}]
  BY DEF KeyInv, CreateTypes
<1>2. \A s \in Request : s # q => request'[s] = request[s]
  BY <1>1 DEF Insert, Commit, ReadWinner, Abort, Receive, Respond
<1>3. request'[q] # Idle => /\ request[q] # Idle
                           /\ request'[q].key = request[q].key
                           /\ request'[q].fingerprint = request[q].fingerprint
  <2>1. CASE Insert(q) \/ Commit(q) \/ ReadWinner(q)
    <3>1. request[q] \in Creation /\ request[q] # Idle
      BY <2>1, RequestType DEF Insert, Commit, ReadWinner, At
    <3> QED
      BY <2>1, <3>1, GoesOnStep
  <2>2. CASE Abort(q) \/ Receive(q)
    BY <1>1, <2>2 DEF Abort, Receive
  <2> QED
    BY <2>1, <2>2
<1>4. ASSUME NEW r \in payments', r \notin payments
      PROVE  request[q] # Idle /\ r.key = request[q].key /\ r.fingerprint = request[q].fingerprint
  <2>1. CASE Commit(q)
    <3> DEFINE n == [id |-> request[q].id, key |-> request[q].key,
                     fingerprint |-> request[q].fingerprint, at |-> request[q].at,
                     status |-> "AWAITING_PAYMENT"]
    <3>1. n.key = request[q].key /\ n.fingerprint = request[q].fingerprint
      OBVIOUS
    <3>2. payments' = payments \union {n} /\ request[q] # Idle
      BY <2>1 DEF Commit, At
    <3> HIDE DEF n
    <3> QED
      BY <1>4, <3>1, <3>2
  <2>2. CASE Insert(q) \/ ReadWinner(q) \/ Abort(q) \/ Receive(q)
    BY <1>4, <2>2 DEF Insert, ReadWinner, Abort, Receive
  <2> QED
    BY <2>1, <2>2
<1> QED
  BY <1>2, <1>3, <1>4 DEF Uses

\* Rows only gain, up to their status.
LEMMA RowsStay ==
  ASSUME KeyInv, [Next]_vars, NEW r \in payments
  PROVE  \E s \in payments' : s.id = r.id /\ s.key = r.key /\ s.fingerprint = r.fingerprint
<1>1. CASE payments \subseteq payments'
  BY <1>1
<1>2. ASSUME NEW x \in payments, NEW y \in PaymentStatus, ChangeStatus(x, y)
      PROVE  \E s \in payments' : s.id = r.id /\ s.key = r.key /\ s.fingerprint = r.fingerprint
  <2> DEFINE n == [x EXCEPT !.status = y]
  <2>1. n.id = x.id /\ n.key = x.key /\ n.fingerprint = x.fingerprint
    BY DEF KeyInv, CreateTypes, Row
  <2>2. payments' = (payments \ {x}) \union {n}
    BY <1>2 DEF ChangeStatus
  <2> HIDE DEF n
  <2> QED
    BY <2>1, <2>2
<1> QED
  BY <1>1, <1>2 DEF Next, Rest, vars, Begin, Insert, Commit, Abort, ReadWinner, Receive,
     StartWalk, NextPage, Tick

\* The form's row stays.
LEMMA CreatedStays ==
  ASSUME IForm, [Next]_vars, form # NoForm, form.phase = "created"
  PROVE  \E r \in payments' : /\ r.id = form.id /\ r.key = form.key
                             /\ r.fingerprint = form.fingerprint
<1>1. PICK r \in payments : /\ r.id = form.id /\ r.key = form.key
                            /\ r.fingerprint = form.fingerprint
  BY DEF IForm, PageInv
<1> QED
  BY <1>1, RowsStay DEF IForm

-----------------------------------------------------------------------------
(* Action by action. *)

\* The form after its request's end.
LEMMA EndedForm ==
  ASSUME NEW f \in Form, NEW i \in Id \union {None}
  PROVE  /\ [f EXCEPT !.phase = "created", !.id = i] \in Form
         /\ [f EXCEPT !.phase = "created", !.id = i].key = f.key
         /\ [f EXCEPT !.phase = "created", !.id = i].fingerprint = f.fingerprint
         /\ [f EXCEPT !.phase = "created", !.id = i].phase # "asking"
         /\ [f EXCEPT !.phase = "uncertain"] \in Form
         /\ [f EXCEPT !.phase = "uncertain"].key = f.key
         /\ [f EXCEPT !.phase = "uncertain"].fingerprint = f.fingerprint
         /\ [f EXCEPT !.phase = "uncertain"].phase # "asking"
BY DEF Form

LEMMA ServeStep ==
  ASSUME IForm, NEW q \in Request, Serve(q)
  PROVE  IForm'
<1> USE DEF IForm
<1>1. Insert(q) \/ Commit(q) \/ ReadWinner(q) \/ Abort(q) \/ Receive(q)
  BY DEF Serve
<1>2. Next
  BY <1>1 DEF Next
<1>3. KeyInv'
  BY <1>2, KeyStep
<1>4. UNCHANGED <<forms, formOf>>
  BY DEF Serve
<1>5. request \in [Request -> Creation \union Answer \union {Idle}]
      /\ \A s \in Request : s # q => request'[s] = request[s]
  BY <1>1 DEF KeyInv, CreateTypes, Insert, Commit, ReadWinner, Abort, Receive, Respond
<1>6. CASE UNCHANGED form /\ (Insert(q) \/ Commit(q) \/ ReadWinner(q))
  <2>1. FormInv'
    BY <1>1, <1>4, <1>6, ServeUses, UsesFewer DEF FormInv
  <2>2. request[q] \in Creation /\ request[q] # Idle
    BY <1>6, RequestType DEF Insert, Commit, ReadWinner, At
  <2>3. /\ request'[q].key = request[q].key /\ request'[q].fingerprint = request[q].fingerprint
        /\ request'[q] # Idle
    BY <1>5, <1>6, <2>2, GoesOnStep
  <2>4. PageInv'
    BY <1>2, <1>5, <1>6, <2>2, <2>3, CreatedStays, IdleAssumption DEF PageInv, Awaits
  <2> QED
    BY <1>3, <2>1, <2>4
<1>7. CASE Abort(q) \/ Receive(q)
  <2>1. request'[q] = Idle /\ UNCHANGED payments /\ Outcome(q)
    <3>1. request'[q] = Idle /\ UNCHANGED payments
      BY <1>5, <1>7 DEF Abort, Receive
    <3>2. ~(Insert(q) \/ Commit(q) \/ ReadWinner(q))
      <4>1. Insert(q) \/ Commit(q) \/ ReadWinner(q) => request[q] \in Creation
        BY RequestType DEF Insert, Commit, ReadWinner
      <4> QED
        BY <3>1, <4>1, GoesOnStep
    <3> QED
      BY <3>1, <3>2 DEF Serve
  <2>2. CASE ~Awaits(q)
    <3>1. UNCHANGED form
      BY <2>1, <2>2 DEF Outcome
    <3>2. FormInv'
      BY <1>1, <1>4, <3>1, ServeUses, UsesFewer DEF FormInv
    <3>3. PageInv'
      BY <1>5, <2>1, <2>2, <3>1 DEF PageInv, Awaits
    <3> QED
      BY <1>3, <3>2, <3>3
  <2>3. CASE Awaits(q)
    <3>1. form \in Form /\ form # NoForm
      BY <2>3 DEF Awaits, FormInv
    <3>2. form' \in Form /\ form'.key = form.key /\ form'.fingerprint = form.fingerprint
          /\ form'.phase # "asking" /\ form' # NoForm
      <4>1. At(q, "201") \/ At(q, "200") => request[q].id \in Id \union {None}
        BY <1>5 DEF At, Creation, Answer
      <4>2. \/ /\ At(q, "201") \/ At(q, "200")
               /\ form' = [form EXCEPT !.phase = "created", !.id = request[q].id]
            \/ form' = [form EXCEPT !.phase = "uncertain"]
        BY <2>1, <2>3 DEF Outcome
      <4>3. CASE form' = [form EXCEPT !.phase = "uncertain"]
        <5>1. None \in Id \union {None}
          OBVIOUS
        <5> QED
          BY <3>1, <4>3, <5>1, EndedForm, NoFormAssumption
      <4>4. CASE form' # [form EXCEPT !.phase = "uncertain"]
        <5>1. /\ request[q].id \in Id \union {None}
              /\ form' = [form EXCEPT !.phase = "created", !.id = request[q].id]
          BY <4>1, <4>2, <4>4
        <5>2. form' \in Form /\ form'.key = form.key /\ form'.fingerprint = form.fingerprint
              /\ form'.phase # "asking"
          BY <3>1, <5>1, EndedForm, Zenon
        <5> QED
          BY <5>2, NoFormAssumption
      <4> QED
        BY <4>3, <4>4
    <3>3. form'.phase = "created" => (At(q, "201") \/ At(q, "200")) /\ form'.id = request[q].id
      BY <2>1, <2>3, <3>1 DEF Outcome, Form
    <3>4. PageInv'
      <4>1. \A s \in Request : ~Awaits(s)'
        BY <3>2 DEF Awaits
      <4>2. ASSUME form'.phase = "created"
            PROVE  \E r \in payments' : /\ r.id = form'.id /\ r.key = form'.key
                                       /\ r.fingerprint = form'.fingerprint
        BY <2>1, <2>3, <3>2, <3>3, <4>2 DEF KeyInv, OnePaymentPerKey, PageInv
      <4> QED
        BY <4>1, <4>2 DEF PageInv
    <3>5. Uses' \subseteq Uses
      BY <1>5, <2>1, <3>1, <3>2 DEF Uses
    <3> QED
      BY <1>3, <1>4, <3>1, <3>2, <3>4, <3>5, UsesFewer
  <2> QED
    BY <2>2, <2>3
<1> QED
  BY <1>1, <1>6, <1>7 DEF Serve

\* The page's own steps, and those of the list and of the workers.
LEMMA PageStep ==
  ASSUME IForm, LoseAnswer \/ Refused \/ Finish \/ Leave
  PROVE  IForm'
<1>1. UNCHANGED <<payments, request, now>> /\ UNCHANGED <<forms, formOf>>
  BY DEF LoseAnswer, Refused, Finish, Leave, vars
<1>2. KeyInv'
  BY <1>1 DEF IForm, KeyInv, CreateTypes, HoldsKey, OnePaymentPerKey, At
<1>3. form # NoForm /\ form \in Form
  BY DEF LoseAnswer, Refused, Finish, Leave, IForm, FormInv
<1>4. \/ form' = NoForm
      \/ /\ form' \in Form /\ form'.phase = "uncertain"
         /\ form'.key = form.key /\ form'.fingerprint = form.fingerprint
  BY <1>3 DEF LoseAnswer, Refused, Finish, Leave, Form
<1>5. Uses' \subseteq Uses
  BY <1>1, <1>3, <1>4 DEF Uses
<1>6. FormInv'
  BY <1>1, <1>3, <1>4, <1>5, UsesFewer
<1>7. PageInv'
  BY <1>4 DEF PageInv, Awaits
<1> QED
  BY <1>2, <1>6, <1>7 DEF IForm

LEMMA RestStep ==
  ASSUME IForm, Rest, UNCHANGED <<form, forms, formOf>>
  PROVE  IForm'
<1>1. KeyInv' /\ UNCHANGED request
  BY KeyStep DEF Next, IForm, Rest, StartWalk, NextPage, Tick, ChangeStatus
<1>2. \A r \in payments' : \E s \in payments : r.key = s.key /\ r.fingerprint = s.fingerprint
  <2>1. ASSUME NEW x \in payments, NEW y \in PaymentStatus, ChangeStatus(x, y)
        PROVE  \A r \in payments' : \E s \in payments :
                 r.key = s.key /\ r.fingerprint = s.fingerprint
    <3> DEFINE n == [x EXCEPT !.status = y]
    <3>1. n.key = x.key /\ n.fingerprint = x.fingerprint
      BY DEF IForm, KeyInv, CreateTypes, Row
    <3>2. payments' = (payments \ {x}) \union {n}
      BY <2>1 DEF ChangeStatus
    <3> HIDE DEF n
    <3> QED
      BY <3>1, <3>2
  <2> QED
    BY <2>1 DEF Rest, StartWalk, NextPage, Tick
<1>3. Uses' \subseteq Uses
  BY <1>1, <1>2 DEF Uses
<1>4. FormInv'
  BY <1>3, UsesFewer DEF IForm, FormInv
<1>5. PageInv'
  BY <1>1, CreatedStays DEF IForm, PageInv, Awaits, Next
<1> QED
  BY <1>1, <1>4, <1>5 DEF IForm

\* A creation that begins uses its key.
LEMMA BeginUses ==
  ASSUME KeyInv, NEW q \in Request, NEW k \in Key, NEW f \in Fingerprint, Begin(q, k, f)
  PROVE  /\ request'[q] # Idle /\ request'[q].key = k /\ request'[q].fingerprint = f
         /\ request[q] = Idle
         /\ \A s \in Request : s # q => request'[s] = request[s]
         /\ UNCHANGED payments
<1> DEFINE c == [step |-> "begun", key |-> k, fingerprint |-> f, at |-> now, id |-> None]
<1>1. c \in Creation /\ c.key = k /\ c.fingerprint = f
  BY DEF KeyInv, CreateTypes, Creation
<1>2. request' = [request EXCEPT ![q] = c] /\ UNCHANGED payments /\ request[q] = Idle
  BY DEF Begin
<1> HIDE DEF c
<1> QED
  BY <1>1, <1>2, IdleAssumption DEF KeyInv, CreateTypes

LEMMA OtherStep ==
  ASSUME IForm, NEW q \in Request, OtherClient(q)
  PROVE  IForm'
<1> USE DEF IForm
<1>1. PICK k \in {x \in Key : formOf[x] = 0}, f \in Fingerprint \ Malformed : Begin(q, k, f)
  BY DEF OtherClient
<1>2. KeyInv' /\ UNCHANGED <<form, forms, formOf>>
  BY <1>1, BeginStep DEF OtherClient
<1>3. \A u \in Uses' : u \in Uses \/ u = <<k, f>>
  BY <1>1, <1>2, BeginUses DEF Uses
<1>4. FormInv'
  BY <1>1, <1>2, <1>3 DEF FormInv
<1>5. PageInv'
  BY <1>1, <1>2, BeginUses DEF PageInv, Awaits
<1> QED
  BY <1>2, <1>4, <1>5

LEMMA SubmitStep ==
  ASSUME IForm, Submit
  PROVE  IForm'
<1> USE DEF IForm
<1>1. PICK k \in KeyToSend, f \in IF form = NoForm THEN Fingerprint ELSE {form.fingerprint},
           q \in Request \union {NoRequest} :
        /\ IF q = NoRequest THEN UNCHANGED vars ELSE f \notin Malformed /\ Begin(q, k, f)
        /\ form' = [phase |-> "asking", key |-> k, fingerprint |-> f, request |-> q, id |-> None]
        /\ forms' = IF form = NoForm THEN forms + 1 ELSE forms
        /\ formOf' = [formOf EXCEPT ![k] = forms']
  BY DEF Submit
<1>2. k \in Key /\ f \in Fingerprint
  BY <1>1 DEF KeyToSend, Fresh, FormInv, Form
<1>3. /\ form' \in Form /\ form' # NoForm /\ form'.key = k /\ form'.fingerprint = f
      /\ form'.request = q /\ form'.phase = "asking"
  BY <1>1, <1>2, NoFormAssumption DEF Form
<1>4. KeyInv' /\ UNCHANGED payments
  <2>1. CASE q = NoRequest
    BY <1>1, <2>1, KeyStep DEF vars
  <2>2. CASE q # NoRequest
    BY <1>1, <1>2, <2>2, BeginStep, BeginUses
  <2> QED
    BY <2>1, <2>2
<1>5. \A s \in Request : request'[s] # Idle =>
        request'[s] = request[s] \/ (request'[s].key = k /\ request'[s].fingerprint = f)
  <2>1. CASE q = NoRequest
    BY <1>1, <2>1 DEF vars
  <2>2. CASE q # NoRequest
    BY <1>1, <1>2, <2>2, BeginUses
  <2> QED
    BY <2>1, <2>2
<1>6. \A u \in Uses' : u = <<k, f>> \/ u \in Uses
  BY <1>3, <1>4, <1>5 DEF Uses
<1>7. FormInv'
  <2>1. CASE form = NoForm
    <3>1. formOf[k] = 0 /\ \A u \in Uses : u[1] # k
      BY <1>1, <2>1 DEF KeyToSend, Fresh, Uses
    <3>2. forms' = forms + 1 /\ forms \in Nat /\ formOf \in [Key -> 0..forms]
      BY <1>1, <2>1 DEF FormInv
    <3>3. formOf' \in [Key -> 0..forms'] /\ formOf'[k] = forms'
          /\ \A l \in Key : l # k => formOf'[l] = formOf[l]
      BY <1>1, <1>2, <3>2
    <3>4. \A x, y \in Key : formOf'[x] # 0 /\ formOf'[x] = formOf'[y] => x = y
      BY <3>2, <3>3 DEF FormInv
    <3>5. \A u, v \in Uses' : u[1] = v[1] /\ formOf'[u[1]] # 0 => u[2] = v[2]
      <4>1. \A u \in Uses : u[1] \in Key
        BY KeysUsed
      <4> QED
        BY <1>6, <3>1, <3>3, <4>1 DEF FormInv
    <3> QED
      BY <1>3, <3>2, <3>3, <3>4, <3>5 DEF FormInv
  <2>2. CASE form # NoForm
    <3>1. k = form.key /\ f = form.fingerprint
      BY <1>1, <2>2 DEF KeyToSend
    <3>2. UNCHANGED <<forms, formOf>>
      BY <1>1, <1>2, <2>2, <3>1 DEF FormInv
    <3>3. <<k, f>> \in Uses
      BY <2>2, <3>1 DEF Uses
    <3> QED
      BY <1>3, <1>6, <2>2, <3>1, <3>2, <3>3, UsesFewer
  <2> QED
    BY <2>1, <2>2
<1>8. PageInv'
  <2>1. ASSUME NEW s \in Request, Awaits(s)'
        PROVE  request'[s] # Idle /\ request'[s].key = k /\ request'[s].fingerprint = f
    <3>1. s = q /\ q # NoRequest
      BY <1>3, <2>1, NoRequestAssumption DEF Awaits
    <3> QED
      BY <1>1, <1>2, <3>1, BeginUses
  <2> QED
    BY <1>3, <2>1 DEF PageInv
<1> QED
  BY <1>4, <1>7, <1>8

LEMMA FormStep == IForm /\ [FNext]_fvars => IForm'
<1> SUFFICES ASSUME IForm, [FNext]_fvars PROVE IForm'
  OBVIOUS
<1>1. CASE UNCHANGED fvars
  <2>1. KeyInv'
    BY <1>1, KeyStep DEF IForm, fvars
  <2> QED
    BY <1>1, <2>1 DEF fvars, vars, IForm, FormInv, PageInv, Awaits, Uses
<1> QED
  BY <1>1, SubmitStep, PageStep, ServeStep, OtherStep, RestStep DEF FNext

\* A form that is repeated after answers were lost creates one payment, its own.
THEOREM OnePaymentPerFormAlways == FSpec => []OnePaymentPerForm
<1>1. IForm => OnePaymentPerForm
  <2> SUFFICES ASSUME IForm PROVE OnePaymentPerForm
    OBVIOUS
  <2> USE DEF IForm
  <2>1. ASSUME NEW r \in payments, NEW s \in payments,
               formOf[r.key] # 0, formOf[r.key] = formOf[s.key]
        PROVE  r = s
    <3>1. r.key \in Key /\ s.key \in Key
      BY DEF KeyInv, CreateTypes, Row
    <3> QED
      BY <2>1, <3>1 DEF FormInv, KeyInv, OnePaymentPerKey
  <2>2. ASSUME NEW q \in Request, At(q, "409") PROVE formOf[request[q].key] = 0
    <3>1. PICK r \in payments : /\ r.key = request[q].key
                                /\ r.fingerprint # request[q].fingerprint
      BY <2>2 DEF KeyInv, OnePaymentPerKey
    <3>2. <<r.key, r.fingerprint>> \in Uses /\ <<request[q].key, request[q].fingerprint>> \in Uses
      BY <2>2 DEF Uses, At
    <3> QED
      BY <3>1, <3>2 DEF FormInv
  <2> QED
    BY <2>1, <2>2 DEF OnePaymentPerForm, PageInv
<1> QED
  BY <1>1, FormInit, FormStep, PTL DEF FSpec

-----------------------------------------------------------------------------
(* The form in front of the API. *)

\* Whatever the dashboard does is a step of the API, or none.
LEMMA FormStepIsStep == IForm /\ [FNext]_fvars => [Next]_vars
<1> SUFFICES ASSUME IForm, [FNext]_fvars PROVE [Next]_vars
  OBVIOUS
<1>1. ASSUME Submit PROVE [Next]_vars
  <2>1. PICK k \in KeyToSend, f \in IF form = NoForm THEN Fingerprint ELSE {form.fingerprint},
             q \in Request \union {NoRequest} :
          IF q = NoRequest THEN UNCHANGED vars ELSE f \notin Malformed /\ Begin(q, k, f)
    BY <1>1 DEF Submit
  <2>2. k \in Key /\ f \in Fingerprint
    BY <2>1 DEF KeyToSend, Fresh, IForm, FormInv, Form
  <2> QED
    BY <2>1, <2>2 DEF Next
<1> QED
  BY <1>1 DEF FNext, fvars, Next, LoseAnswer, Refused, Finish, Leave, Serve, OtherClient

\* The API keeps its promises to the dashboard: with the form in front of it, it behaves
\* as it does with any clients.
THEOREM FormImplementsApi == FSpec => Spec
<1>1. FInit => Init
  BY DEF FInit
<1> QED
  BY <1>1, FormInit, FormStep, FormStepIsStep, PTL DEF Spec, FSpec

FormsInv == forms \in 0..MaxForms

LEMMA FormsBounded == FormsInv /\ IForm /\ [FNext]_fvars => FormsInv'
<1> SUFFICES ASSUME FormsInv, IForm, [FNext]_fvars PROVE FormsInv'
  OBVIOUS
<1> USE DEF FormsInv
<1>1. CASE Submit
  <2>1. forms' = IF form = NoForm THEN forms + 1 ELSE forms
    BY <1>1 DEF Submit
  <2>2. form = NoForm => forms < MaxForms
    BY <1>1 DEF Submit
  <2> QED
    BY <2>1, <2>2, MaxFormsAssumption
<1> QED
  BY <1>1 DEF FNext, fvars, LoseAnswer, Refused, Finish, Leave, Serve, OtherClient

\* The page's form and its key have their types, in front of an API that has its own.
THEOREM FormTypeCorrect == FSpec => []FTypeOK
<1>1. FInit => FormsInv
  BY MaxFormsAssumption DEF FInit, FormsInv
<1>2. PTypeOK /\ IForm /\ FormsInv => FTypeOK
  BY DEF FTypeOK, IForm, FormInv, FormsInv
<1> QED
  BY <1>1, <1>2, FormImplementsApi, PaymentsTypeCorrect, FormInit, FormStep, FormsBounded, PTL
     DEF FSpec

\* So the dashboard's merchant has one payment per key, and a list that is complete.
THEOREM ApiKeepsItsPromises == FSpec => [](OnePaymentPerKey /\ WalkIsComplete)
BY FormImplementsApi, OnePaymentPerKeyAlways, WalkIsCompleteAlways, PTL
=============================================================================
