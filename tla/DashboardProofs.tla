-------------------------- MODULE DashboardProofs ---------------------------
(***************************************************************************)
(* What the dashboard shows never goes back, for any number of payments    *)
(* and open details, any size of the cache and any polling budget.         *)
(***************************************************************************)
EXTENDS Dashboard, TLAPS, FiniteSetTheorems, SequenceTheorems

-----------------------------------------------------------------------------
(* The invariant. *)

\* The queries whose rows the server has read.
Arriving(q) == fetch[q] \notin {Idle, Asked}

\* Everything but the cache.
PageTypes ==
  /\ server \in [Payment -> -1..Final]
  /\ outbox \subseteq Event
  /\ live \in BOOLEAN
  /\ open = {} \/ \E p \in Openable : open = {p}
  /\ creation \in [Openable -> {"none", "posted", "linking", "overlooked"}]
  /\ data \in [Query -> Rows \union {NoData}]
  /\ error \in [Query -> BOOLEAN]
  /\ fetch \in [Query -> Rows \union {Idle, Asked}]
  /\ budget \in 0..PollBudget
  /\ faults \in 0..MaxFaults

\* The cache is in the order in which it was filled, and within its limit.
CacheInv ==
  /\ DOMAIN marks \subseteq Payment
  /\ marks \in [DOMAIN marks -> [version : 0..Final, after : SUBSET DOMAIN marks]]
  /\ \A p \in DOMAIN marks :
       p \notin marks[p].after /\ Cardinality(marks[p].after) < Cap
  /\ \A p, r \in DOMAIN marks :
       /\ p = r \/ r \in marks[p].after \/ p \in marks[r].after
       /\ r \in marks[p].after => marks[r].after \subseteq marks[p].after

\* Queries show and carry rows of their own that the server has had; requests are for
\* what is open, and no older than what their query shows.
QueryInv ==
  /\ \A q \in Query : q \notin Active => fetch[q] = Idle
  /\ \A q \in Query : data[q] # NoData =>
       \A p \in DOMAIN data[q] : q \in {List, p} /\ data[q][p] <= server[p]
  /\ \A q \in Query : Arriving(q) =>
       \A p \in DOMAIN fetch[q] : q \in {List, p} /\ fetch[q][p] <= server[p]
  /\ \A q \in Query : Arriving(q) /\ data[q] # NoData =>
       \A p \in DOMAIN fetch[q] \intersect DOMAIN data[q] : data[q][p] <= fetch[q][p]

\* An answer on its way that the cache will let pass is no older than what any query
\* shows, unless the cache has dropped the payment.
CrossInv ==
  \A q, s \in Query : Arriving(q) /\ data[s] # NoData =>
    \A p \in DOMAIN fetch[q] \intersect DOMAIN data[s] :
      Mark(p) # -1 /\ Mark(p) <= fetch[q][p] => data[s][p] <= fetch[q][p]

DInv == PageTypes /\ CacheInv /\ QueryInv /\ CrossInv

-----------------------------------------------------------------------------
(* Payments and rows. *)

LEMMA PaymentsAreFinite == IsFiniteSet(Payment)
<1>1. Order \in Seq(Payment) /\ Payment = {Order[i] : i \in DOMAIN Order}
  BY BoundAssumption
<1>2. Len(Order) \in Nat /\ DOMAIN Order = 1..Len(Order) /\ Order \in [1..Len(Order) -> Payment]
  BY <1>1, LenProperties
<1>3. IsFiniteSet(1..Len(Order))
  BY <1>2, FS_Interval
<1>4. Order \in Surjection(1..Len(Order), Payment)
  BY <1>1, <1>2 DEF Surjection
<1> QED
  BY <1>3, <1>4, FS_Surjection

LEMMA RowsAre ==
  \A rows : rows \in Rows <=> DOMAIN rows \subseteq Payment /\ rows \in [DOMAIN rows -> 0..Final]
BY DEF Rows

\* Later orders the rows of an answer.
LEMMA LaterOrders ==
  ASSUME NEW rows, DOMAIN rows \subseteq Payment
  PROVE  /\ \A p \in DOMAIN rows : Later(p, rows) \subseteq DOMAIN rows /\ p \notin Later(p, rows)
         /\ \A p, r \in DOMAIN rows :
              /\ p = r \/ r \in Later(p, rows) \/ p \in Later(r, rows)
              /\ r \in Later(p, rows) => Later(r, rows) \subseteq Later(p, rows)
<1>1. /\ Payment = {Order[i] : i \in DOMAIN Order}
      /\ \A i, j \in DOMAIN Order : Order[i] = Order[j] => i = j
      /\ DOMAIN Order \subseteq Int
  <2>1. Order \in Seq(Payment)
    BY BoundAssumption
  <2>2. DOMAIN Order = 1..Len(Order)
    BY <2>1, LenProperties
  <2> QED
    BY <2>2, BoundAssumption
<1>2. \A p \in DOMAIN rows : Later(p, rows) \subseteq DOMAIN rows /\ p \notin Later(p, rows)
  BY <1>1 DEF Later
<1>3. ASSUME NEW p \in DOMAIN rows, NEW r \in DOMAIN rows
      PROVE  p = r \/ r \in Later(p, rows) \/ p \in Later(r, rows)
  <2>1. PICK i \in DOMAIN Order, j \in DOMAIN Order : Order[i] = p /\ Order[j] = r
    BY <1>1
  <2>2. i = j \/ i < j \/ j < i
    BY <1>1
  <2> QED
    BY <2>1, <2>2 DEF Later
<1>4. ASSUME NEW p \in DOMAIN rows, NEW r \in Later(p, rows), NEW x \in Later(r, rows)
      PROVE  x \in Later(p, rows)
  <2>1. PICK i \in DOMAIN Order, j \in DOMAIN Order : i < j /\ Order[i] = p /\ Order[j] = r
    BY DEF Later
  <2>2. PICK k \in DOMAIN Order, l \in DOMAIN Order : k < l /\ Order[k] = r /\ Order[l] = x
    BY DEF Later
  <2>3. j = k /\ i < l
    BY <1>1, <2>1, <2>2
  <2> QED
    BY <2>1, <2>2, <2>3 DEF Later
<1> QED
  BY <1>2, <1>3, <1>4

-----------------------------------------------------------------------------
(* The cache. *)

LEMMA MarkType ==
  ASSUME CacheInv, NEW p
  PROVE  Mark(p) \in -1..Final /\ (Mark(p) = -1 <=> p \notin DOMAIN marks)
<1>1. Final \in Nat
  BY BoundAssumption
<1>2. p \in DOMAIN marks => marks[p].version \in 0..Final
  BY DEF CacheInv
<1> QED
  BY <1>1, <1>2 DEF Mark

\* The entries after rows are remembered, before the oldest ones are dropped.
All(rows) ==
  [p \in DOMAIN marks \union DOMAIN rows |->
     IF p \in DOMAIN rows
       THEN [version |-> IF Mark(p) > rows[p] THEN Mark(p) ELSE rows[p],
             after   |-> Later(p, rows)]
       ELSE [marks[p] EXCEPT !.after = @ \union DOMAIN rows]]

\* They are a cache, but for its size.
LEMMA AllIsCache ==
  ASSUME CacheInv, NEW rows \in Rows
  PROVE  LET all == All(rows)  D == DOMAIN marks \union DOMAIN rows IN
         /\ DOMAIN all = D /\ D \subseteq Payment
         /\ all \in [D -> [version : 0..Final, after : SUBSET D]]
         /\ \A p \in D : p \notin all[p].after
         /\ \A p, r \in D :
              /\ p = r \/ r \in all[p].after \/ p \in all[r].after
              /\ r \in all[p].after => all[r].after \subseteq all[p].after
<1> DEFINE all == All(rows)
           R   == DOMAIN rows
           M   == DOMAIN marks
           D   == M \union R
<1>1. DOMAIN all = D /\ D \subseteq Payment /\ rows \in [R -> 0..Final]
  BY RowsAre DEF CacheInv, All
<1>2. /\ \A p \in R : Later(p, rows) \subseteq R /\ p \notin Later(p, rows)
      /\ \A p, r \in R : /\ p = r \/ r \in Later(p, rows) \/ p \in Later(r, rows)
                         /\ r \in Later(p, rows) => Later(r, rows) \subseteq Later(p, rows)
  BY LaterOrders, RowsAre
<1>3. /\ \A p \in M : marks[p] \in [version : 0..Final, after : SUBSET M] /\ p \notin marks[p].after
      /\ \A p, r \in M : /\ p = r \/ r \in marks[p].after \/ p \in marks[r].after
                         /\ r \in marks[p].after => marks[r].after \subseteq marks[p].after
  BY DEF CacheInv
<1>4. ASSUME NEW p \in R
      PROVE  all[p] \in [version : 0..Final, after : SUBSET D] /\ all[p].after = Later(p, rows)
  <2> DEFINE v == IF Mark(p) > rows[p] THEN Mark(p) ELSE rows[p]
  <2>1. v \in 0..Final
    BY <1>1, MarkType, BoundAssumption
  <2>2. all[p] = [version |-> v, after |-> Later(p, rows)]
    BY DEF All
  <2> HIDE DEF v, all
  <2> QED
    BY <1>2, <2>1, <2>2
<1>5. ASSUME NEW p \in M \ R
      PROVE  all[p] \in [version : 0..Final, after : SUBSET D] /\ all[p].after = marks[p].after \union R
  <2>1. all[p] = [marks[p] EXCEPT !.after = @ \union R]
    BY DEF All
  <2> HIDE DEF all
  <2> QED
    BY <1>3, <2>1
<1>6. all \in [D -> [version : 0..Final, after : SUBSET D]]
  <2>1. \A p \in D : all[p] \in [version : 0..Final, after : SUBSET D]
    BY <1>4, <1>5
  <2> QED
    BY <2>1 DEF All
<1> HIDE DEF all
<1>7. \A p \in D : p \notin all[p].after
  BY <1>2, <1>3, <1>4, <1>5
<1>8. ASSUME NEW p \in D, NEW r \in D
      PROVE  p = r \/ r \in all[p].after \/ p \in all[r].after
  BY <1>2, <1>3, <1>4, <1>5
<1>9. ASSUME NEW p \in D, NEW r \in D, r \in all[p].after
      PROVE  all[r].after \subseteq all[p].after
  <2>1. CASE p \in R
    BY <1>2, <1>4, <1>9, <2>1
  <2>2. CASE p \notin R /\ r \in R
    BY <1>2, <1>4, <1>5, <2>2
  <2>3. CASE p \notin R /\ r \notin R
    BY <1>3, <1>5, <1>9, <2>3
  <2> QED
    BY <2>1, <2>2, <2>3
<1> QED
  BY <1>1, <1>6, <1>7, <1>8, <1>9, Zenon DEF all

LEMMA RememberCache ==
  ASSUME CacheInv, NEW rows \in Rows, marks' = Remember(rows)
  PROVE  CacheInv'
<1> DEFINE all == All(rows)
           D   == DOMAIN marks \union DOMAIN rows
           K   == WithinCap(all)
<1>1. /\ DOMAIN all = D /\ D \subseteq Payment
      /\ all \in [D -> [version : 0..Final, after : SUBSET D]]
      /\ \A p \in D : p \notin all[p].after
      /\ \A p, r \in D :
           /\ p = r \/ r \in all[p].after \/ p \in all[r].after
           /\ r \in all[p].after => all[r].after \subseteq all[p].after
  BY AllIsCache
<1>2. marks' = [p \in K |-> all[p]]
  BY DEF Remember, All
<1> HIDE DEF all
<1>3. K \subseteq D /\ \A p \in K : Cardinality(all[p].after) < Cap
  BY <1>1 DEF WithinCap
<1>4. ASSUME NEW p \in K, NEW r \in all[p].after
      PROVE  r \in K
  <2>1. p \in D /\ r \in D /\ all[r].after \subseteq all[p].after /\ all[p].after \subseteq Payment
    BY <1>1, <1>3
  <2>2. IsFiniteSet(all[p].after)
    BY <2>1, PaymentsAreFinite, FS_Subset
  <2>3. IsFiniteSet(all[r].after) /\ Cardinality(all[r].after) <= Cardinality(all[p].after)
    BY <2>1, <2>2, FS_Subset
  <2>4. Cardinality(all[r].after) \in Nat /\ Cardinality(all[p].after) \in Nat /\ Cap \in Nat
    BY <2>2, <2>3, FS_CardinalityType, BoundAssumption
  <2>5. Cardinality(all[r].after) < Cap
    BY <1>3, <2>3, <2>4
  <2> QED
    BY <1>1, <2>1, <2>5 DEF WithinCap
<1> HIDE DEF K
<1>5. DOMAIN marks' = K /\ \A p \in K : marks'[p] = all[p]
  BY <1>2
<1>6. \A p \in K : marks'[p] \in [version : 0..Final, after : SUBSET K]
  BY <1>1, <1>3, <1>4, <1>5
<1>7. marks' \in [K -> [version : 0..Final, after : SUBSET K]]
  BY <1>2, <1>5, <1>6
<1>8. \A p \in K : p \notin marks'[p].after /\ Cardinality(marks'[p].after) < Cap
  BY <1>1, <1>3, <1>5
<1>9. \A p, r \in K :
        /\ p = r \/ r \in marks'[p].after \/ p \in marks'[r].after
        /\ r \in marks'[p].after => marks'[r].after \subseteq marks'[p].after
  BY <1>1, <1>3, <1>5
<1> QED
  BY <1>1, <1>3, <1>5, <1>7, <1>8, <1>9 DEF CacheInv

\* What the cache knows of a payment after rows are remembered.
LEMMA RememberMark ==
  ASSUME CacheInv, NEW rows \in Rows, marks' = Remember(rows), NEW p
  PROVE  \/ Mark(p)' = -1
         \/ p \notin DOMAIN rows /\ Mark(p)' = Mark(p)
         \/ p \in DOMAIN rows /\ Mark(p)' = IF Mark(p) > rows[p] THEN Mark(p) ELSE rows[p]
<1> DEFINE K == WithinCap(All(rows))
<1>1. marks' = [r \in K |-> All(rows)[r]]
  BY DEF Remember, All
<1>2. K \subseteq DOMAIN marks \union DOMAIN rows
  BY DEF WithinCap, All
<1> HIDE DEF K
<1>3. CASE p \notin K
  BY <1>1, <1>3 DEF Mark
<1>4. CASE p \in K /\ p \in DOMAIN rows
  <2>1. All(rows)[p] = [version |-> IF Mark(p) > rows[p] THEN Mark(p) ELSE rows[p],
                        after   |-> Later(p, rows)]
    BY <1>4 DEF All
  <2>2. Mark(p)' = All(rows)[p].version
    BY <1>1, <1>4 DEF Mark
  <2> QED
    BY <1>4, <2>1, <2>2
<1>5. CASE p \in K /\ p \notin DOMAIN rows
  <2>1. p \in DOMAIN marks /\ All(rows)[p] = [marks[p] EXCEPT !.after = @ \union DOMAIN rows]
    BY <1>2, <1>5 DEF All
  <2>2. Mark(p)' = All(rows)[p].version
    BY <1>1, <1>5 DEF Mark
  <2>3. marks[p] \in [version : 0..Final, after : SUBSET DOMAIN marks]
    BY <2>1 DEF CacheInv
  <2> QED
    BY <1>5, <2>1, <2>2, <2>3 DEF Mark
<1> QED
  BY <1>3, <1>4, <1>5

\* The cache is within its limit, since everything else comes after its oldest entry.
LEMMA CacheSize ==
  ASSUME CacheInv
  PROVE  Cardinality(DOMAIN marks) <= Cap
<1> DEFINE M == DOMAIN marks
           Before(p) == {r \in M : p \in marks[r].after}
           T == {Before(p) : p \in M}
<1>1. IsFiniteSet(M) /\ M \subseteq Payment
  BY PaymentsAreFinite, FS_Subset DEF CacheInv
<1>2. Cap \in Nat \ {0}
  BY BoundAssumption
<1>3. CASE M = {}
  BY <1>2, <1>3, FS_EmptySet
<1>4. CASE M # {}
  <2>1. T \subseteq FiniteSubsetsOf(M) /\ T # {}
    <3>1. \A p \in M : Before(p) \subseteq M /\ IsFiniteSet(Before(p))
      BY <1>1, FS_Subset
    <3> QED
      BY <1>4, <3>1 DEF FiniteSubsetsOf
  <2>2. IsWellFoundedOn(StrictSubsetOrdering(M), FiniteSubsetsOf(M))
    BY FS_StrictSubsetOrderingWellFounded
  <2>3. PICK x \in T : \A y \in T : <<y, x>> \notin StrictSubsetOrdering(M)
    <3> HIDE DEF T
    <3> QED
      BY <2>1, <2>2, WFMin
  <2>4. PICK p \in M : x = Before(p)
    OBVIOUS
  <2>5. Before(p) = {}
    <3> SUFFICES ASSUME NEW r \in Before(p) PROVE FALSE
      OBVIOUS
    <3>1. r \in M /\ p \in marks[r].after /\ r \notin marks[r].after
      BY DEF CacheInv
    <3>2. Before(r) \subseteq Before(p)
      BY <3>1 DEF CacheInv
    <3>3. r \notin Before(r)
      BY <3>1
    <3>4. <<Before(r), Before(p)>> \in StrictSubsetOrdering(M)
      BY <3>2, <3>3 DEF StrictSubsetOrdering
    <3>5. Before(r) \in T
      BY <3>1
    <3> HIDE DEF Before, T
    <3> QED
      BY <2>3, <2>4, <3>4, <3>5
  <2>6. M \ {p} \subseteq marks[p].after
    BY <2>5 DEF CacheInv
  <2>7. marks[p].after \subseteq M /\ Cardinality(marks[p].after) < Cap
    BY DEF CacheInv
  <2>8. IsFiniteSet(marks[p].after)
    BY <1>1, <2>7, FS_Subset
  <2>9. Cardinality(M \ {p}) <= Cardinality(marks[p].after) /\ IsFiniteSet(M \ {p})
    BY <2>6, <2>8, FS_Subset
  <2>10. Cardinality(M) = Cardinality(M \ {p}) + 1
    <3>1. Cardinality(M \ {p}) = Cardinality(M) - 1 /\ Cardinality(M) \in Nat
      BY <1>1, <2>4, FS_RemoveElement, FS_CardinalityType
    <3> QED
      BY <3>1
  <2>11. Cardinality(M \ {p}) \in Nat /\ Cardinality(marks[p].after) \in Nat
    BY <2>8, <2>9, FS_CardinalityType
  <2> QED
    BY <1>2, <2>7, <2>9, <2>10, <2>11
<1> QED
  BY <1>3, <1>4

-----------------------------------------------------------------------------
(* The types of everything else. *)

LEMMA InitHolds == Init => DInv
<1> SUFFICES ASSUME Init PROVE DInv
  OBVIOUS
<1>1. marks = <<>> /\ DOMAIN marks = {}
  BY DEF Init
<1>2. CacheInv
  BY <1>1 DEF CacheInv
<1>3. \A q \in Query : fetch[q] \in {Idle, Asked} /\ data[q] = NoData
  BY DEF Init
<1>4. QueryInv /\ CrossInv
  BY <1>3 DEF QueryInv, CrossInv, Arriving, Active, Init
<1>5. PageTypes
  <2>1. Final \in Nat /\ PollBudget \in Nat /\ MaxFaults \in Nat
    BY BoundAssumption
  <2>2. fetch \in [Query -> Rows \union {Idle, Asked}]
    BY DEF Init
  <2>3. server \in [Payment -> -1..Final]
    BY <2>1 DEF Init
  <2>7. creation \in [Openable -> {"none", "posted", "linking", "overlooked"}]
    BY DEF Init
  <2>4. /\ outbox = {} /\ open = {} /\ live = FALSE /\ budget = PollBudget /\ faults = 0
        /\ data = [q \in Query |-> NoData] /\ error = [q \in Query |-> FALSE]
    BY DEF Init
  <2>5. data \in [Query -> Rows \union {NoData}] /\ error \in [Query -> BOOLEAN]
    BY <2>4
  <2>6. budget \in 0..PollBudget /\ faults \in 0..MaxFaults
    BY <2>1, <2>4
  <2> QED
    BY <2>2, <2>3, <2>4, <2>5, <2>6, <2>7 DEF PageTypes
<1> QED
  BY <1>2, <1>4, <1>5 DEF DInv

\* Rows that the server reads.
LEMMA AnswerType ==
  ASSUME PageTypes, NEW q
  PROVE  /\ Answer(q) \in Rows
         /\ \A p \in DOMAIN Answer(q) : q \in {List, p} /\ Answer(q)[p] = server[p]
<1> DEFINE S == {r \in Payment : server[r] >= 0 /\ q \in {List, r}}
<1>1. Answer(q) = [p \in S |-> server[p]]
  BY DEF Answer
<1>2. \A p \in S : server[p] \in 0..Final
  BY BoundAssumption DEF PageTypes
<1>3. S \subseteq Payment /\ \A p \in S : q \in {List, p}
  OBVIOUS
<1> HIDE DEF S
<1>4. DOMAIN Answer(q) = S /\ Answer(q) \in [S -> 0..Final]
  BY <1>1, <1>2
<1> QED
  BY <1>1, <1>3, <1>4, RowsAre

\* The visible queries are few.
LEMMA ActiveIsFinite ==
  ASSUME PageTypes
  PROVE  Active \subseteq Query /\ IsFiniteSet(Active)
<1>1. open = {} \/ \E p \in Openable : open = {p}
  BY DEF PageTypes
<1>2. IsFiniteSet(open) /\ open \subseteq Openable
  BY <1>1, FS_EmptySet, FS_Singleton
<1>3. Active = open \union {List}
  BY DEF Active
<1> QED
  BY <1>2, <1>3, FS_AddElement DEF Query

LEMMA PageTypesStep ==
  ASSUME PageTypes, CacheInv, [Next]_vars
  PROVE  PageTypes'
<1> USE DEF PageTypes
<1>1. Final \in Nat /\ PollBudget \in Nat /\ MaxFaults \in Nat
  BY BoundAssumption
<1>2. CASE UNCHANGED vars
  BY <1>2 DEF vars
<1>3. ASSUME NEW q \in Query, Read(q) PROVE PageTypes'
  <2>1. fetch' = [fetch EXCEPT ![q] = Answer(q)] /\ Answer(q) \in Rows
    BY <1>3, AnswerType DEF Read
  <2>2. fetch' \in [Query -> Rows \union {Idle, Asked}]
    BY <2>1
  <2> QED
    BY <1>3, <2>2 DEF Read
<1>4. ASSUME NEW q \in Query, Answered(q) PROVE PageTypes'
  <2>1. fetch[q] \in Rows /\ fetch' = [fetch EXCEPT ![q] = Idle]
    BY <1>4 DEF Answered
  <2>2. fetch' \in [Query -> Rows \union {Idle, Asked}]
    BY <2>1
  <2>3. data' \in [Query -> Rows \union {NoData}]
    BY <1>4, <2>1 DEF Answered
  <2>4. error' \in [Query -> BOOLEAN]
    BY <1>4 DEF Answered
  <2> QED
    BY <1>4, <2>2, <2>3, <2>4 DEF Answered
<1>5. ASSUME NEW q \in Query, FetchFails(q) PROVE PageTypes'
  <2>1. fetch' \in [Query -> Rows \union {Idle, Asked}] /\ error' \in [Query -> BOOLEAN]
    BY <1>5 DEF FetchFails
  <2>2. faults' \in 0..MaxFaults
    BY <1>1, <1>5 DEF FetchFails
  <2> QED
    BY <1>5, <2>1, <2>2 DEF FetchFails
<1>6. ASSUME NEW p \in Openable, OpenDetail(p) \/ Created(p) \/ CloseDetail(p) PROVE PageTypes'
  <2>1. fetch' \in [Query -> Rows \union {Idle, Asked}]
    <3>1. CASE ShowDetails(p)
      BY <3>1 DEF ShowDetails
    <3>2. CASE CloseDetail(p)
      BY <3>2 DEF CloseDetail
    <3> QED
      BY <1>6, <3>1, <3>2 DEF OpenDetail, Created
  <2>2. open' = {} \/ \E r \in Openable : open' = {r}
    BY <1>6 DEF OpenDetail, Created, ShowDetails, CloseDetail
  <2>3. creation' \in [Openable -> {"none", "posted", "linking", "overlooked"}]
    BY <1>6 DEF OpenDetail, Created, CloseDetail
  <2>4. UNCHANGED <<server, outbox, live, data, error, budget, faults>>
    BY <1>6 DEF OpenDetail, Created, CloseDetail
  <2> QED
    BY <2>1, <2>2, <2>3, <2>4
<1>7. ASSUME NEW S, Restart(S) \/ RestartLater(S)
      PROVE  fetch' \in [Query -> Rows \union {Idle, Asked}]
  <2>1. CASE Restart(S)
    BY <2>1 DEF Restart
  <2>2. CASE RestartLater(S)
    BY <2>2 DEF RestartLater
  <2> QED
    BY <1>7, <2>1, <2>2
<1>8. CASE Ready \/ Focus
  <2>1. fetch' \in [Query -> Rows \union {Idle, Asked}]
    BY <1>7, <1>8 DEF Ready, Focus
  <2>2. faults' \in 0..MaxFaults
    BY <1>1, <1>8 DEF Ready, Focus
  <2>3. live' \in BOOLEAN
    BY <1>8 DEF Ready, Focus
  <2>4. UNCHANGED <<server, outbox, open, creation, data, error, budget>>
    BY <1>8 DEF Ready, Focus
  <2> QED
    BY <2>1, <2>2, <2>3, <2>4
<1>9. CASE RefreshPayments
  <2>1. fetch' \in [Query -> Rows \union {Idle, Asked}]
    BY <1>7, <1>9 DEF RefreshPayments
  <2> QED
    BY <1>1, <1>9, <2>1 DEF RefreshPayments
<1>10. CASE Disconnect
  <2>1. faults' \in 0..MaxFaults
    BY <1>1, <1>10 DEF Disconnect
  <2>2. live' = FALSE /\ UNCHANGED <<server, outbox, open, creation, data, error, fetch, budget>>
    BY <1>10 DEF Disconnect
  <2> QED
    BY <2>1, <2>2
<1>11. ASSUME NEW e \in outbox, Deliver(e, TRUE) \/ Deliver(e, FALSE) PROVE PageTypes'
  <2>1. fetch' \in [Query -> Rows \union {Idle, Asked}]
    BY <1>7, <1>11 DEF Deliver
  <2>2. outbox' \subseteq outbox
    BY <1>11 DEF Deliver
  <2> QED
    BY <1>11, <2>1, <2>2 DEF Deliver
<1>12. ASSUME NEW e \in outbox, Lose(e) PROVE PageTypes'
  BY <1>12 DEF Lose
<1>13. CASE Poll
  <2>1. PICK S \in SUBSET {q \in Active : fetch[q] = Idle} :
          /\ Cardinality(S) <= budget
          /\ budget' = budget - Cardinality(S)
          /\ fetch' = [q \in Query |-> IF q \in S THEN Asked ELSE fetch[q]]
    BY <1>13 DEF Poll, Affordable
  <2>2. IsFiniteSet(S)
    BY ActiveIsFinite, FS_Subset
  <2>3. Cardinality(S) \in Nat
    BY <2>2, FS_CardinalityType
  <2>4. budget' \in 0..PollBudget
    BY <1>1, <2>1, <2>3
  <2>5. fetch' \in [Query -> Rows \union {Idle, Asked}]
    BY <2>1
  <2>6. UNCHANGED <<server, outbox, live, open, creation, data, error, faults>>
    BY <1>13 DEF Poll
  <2> QED
    BY <2>4, <2>5, <2>6
<1>14. ASSUME NEW p \in Payment, Change(p) PROVE PageTypes'
  <2>1. server[p] \in -1..Final /\ server[p] < Final /\ server' = [server EXCEPT ![p] = server[p] + 1]
    BY <1>14 DEF Change
  <2>2. server[p] + 1 \in 0..Final
    BY <1>1, <2>1
  <2>3. server' \in [Payment -> -1..Final] /\ server'[p] \in 0..Final
    BY <1>1, <2>1, <2>2
  <2>4. outbox' \subseteq Event
    BY <1>14, <2>3 DEF Change, Event
  <2>5. UNCHANGED <<live, open, creation, data, error, fetch, budget, faults>>
    BY <1>14 DEF Change
  <2> QED
    BY <2>3, <2>4, <2>5
<1>15. ASSUME NEW p \in Openable, CreatePayment(p) PROVE PageTypes'
  <2>1. p \in Payment /\ 0 \in 0..Final
    BY <1>1, QueryAssumption
  <2>2. server' = [server EXCEPT ![p] = 0] /\ server' \in [Payment -> -1..Final]
    BY <1>1, <1>15, <2>1 DEF CreatePayment
  <2>3. outbox' \subseteq Event
    BY <1>15, <2>1 DEF CreatePayment, Event
  <2>4. creation' \in [Openable -> {"none", "posted", "linking", "overlooked"}]
    BY <1>15 DEF CreatePayment
  <2>5. UNCHANGED <<live, open, data, error, fetch, budget, faults>>
    BY <1>15 DEF CreatePayment
  <2> QED
    BY <2>2, <2>3, <2>4, <2>5
<1>16. ASSUME NEW p \in Openable, Linked(p) PROVE PageTypes'
  <2>1. fetch' \in [Query -> Rows \union {Idle, Asked}]
    BY <1>7, <1>16 DEF Linked
  <2>2. creation' \in [Openable -> {"none", "posted", "linking", "overlooked"}]
    BY <1>16 DEF Linked
  <2>3. UNCHANGED <<server, outbox, live, open, data, error, budget, faults>>
    BY <1>16 DEF Linked
  <2> QED
    BY <2>1, <2>2, <2>3
<1> HIDE DEF PageTypes
<1> QED
  BY <1>2, <1>3, <1>4, <1>5, <1>6, <1>8, <1>9, <1>10, <1>11, <1>12, <1>13, <1>14, <1>15, <1>16
     DEF Next

-----------------------------------------------------------------------------
(* Requests and answers. *)

\* Requests that end or start, for what is open.
LEMMA AskStep ==
  ASSUME DInv, UNCHANGED <<server, marks, data>>,
         \A q \in Query : fetch'[q] \in {Idle, Asked, fetch[q]},
         \A q \in Query : q \notin Active' => fetch'[q] = Idle
  PROVE  QueryInv' /\ CrossInv'
<1>1. \A q \in Query : Arriving(q)' => Arriving(q) /\ fetch'[q] = fetch[q]
  BY DEF Arriving
<1>2. QueryInv'
  BY <1>1 DEF DInv, QueryInv
<1>3. \A p : Mark(p)' = Mark(p)
  BY DEF Mark
<1>4. CrossInv'
  BY <1>1, <1>3 DEF DInv, CrossInv
<1> QED
  BY <1>2, <1>4

LEMMA RestartAsks ==
  ASSUME DInv, NEW S, Restart(S) \/ RestartLater(S), UNCHANGED open
  PROVE  /\ \A q \in Query : fetch'[q] \in {Idle, Asked, fetch[q]}
         /\ \A q \in Query : q \notin Active' => fetch'[q] = Idle
BY DEF DInv, QueryInv, Restart, RestartLater, Active

LEMMA ReadStep ==
  ASSUME DInv, NEW q \in Query, Read(q)
  PROVE  QueryInv' /\ CrossInv'
<1>1. /\ fetch \in [Query -> Rows \union {Idle, Asked}]
      /\ fetch' = [fetch EXCEPT ![q] = Answer(q)] /\ fetch[q] = Asked
      /\ UNCHANGED <<server, marks, data, open>>
  BY DEF Read, DInv, PageTypes
<1>2. \A p \in DOMAIN Answer(q) : q \in {List, p} /\ Answer(q)[p] = server[p] /\ server[p] \in Int
  BY AnswerType, RowsAre, BoundAssumption DEF DInv, PageTypes
<1>3. fetch'[q] = Answer(q) /\ \A s \in Query : s # q => fetch'[s] = fetch[s]
  BY <1>1
<1>4. \A s \in Query : data[s] # NoData => \A p \in DOMAIN data[s] :
        s \in {List, p} /\ data[s][p] <= server[p]
  BY DEF DInv, QueryInv
<1>5. \A s \in Query : s # q /\ Arriving(s)' => Arriving(s)
  BY <1>3 DEF Arriving
<1>6. q \in Active /\ Active' = Active
  BY <1>1, FetchAssumption DEF DInv, QueryInv, Active
<1>7. Arriving(q)' => \A s \in Query : data[s] # NoData =>
        \A p \in DOMAIN fetch'[q] \intersect DOMAIN data[s] : data[s][p] <= fetch'[q][p]
  BY <1>2, <1>3, <1>4
<1>8. \A s \in Query : s \notin Active' => fetch'[s] = Idle
  BY <1>3, <1>6 DEF DInv, QueryInv
<1>9. \A s \in Query : Arriving(s)' =>
        \A p \in DOMAIN fetch'[s] : s \in {List, p} /\ fetch'[s][p] <= server[p]
  BY <1>2, <1>3, <1>5 DEF DInv, QueryInv
<1>10. \A s \in Query : Arriving(s)' /\ data[s] # NoData =>
         \A p \in DOMAIN fetch'[s] \intersect DOMAIN data[s] : data[s][p] <= fetch'[s][p]
  BY <1>3, <1>5, <1>7 DEF DInv, QueryInv
<1>11. QueryInv'
  BY <1>1, <1>4, <1>8, <1>9, <1>10 DEF QueryInv
<1>12. \A p : Mark(p)' = Mark(p)
  BY <1>1 DEF Mark
<1>13. CrossInv'
  BY <1>1, <1>3, <1>5, <1>7, <1>12 DEF DInv, CrossInv
<1> QED
  BY <1>11, <1>13

\* Requests that are under way may only get older than the server.
LEMMA ChangeStep ==
  ASSUME DInv, NEW p \in Payment, Change(p) \/ CreatePayment(p)
  PROVE  QueryInv' /\ CrossInv'
<1>1. server \in [Payment -> -1..Final] /\ Final \in Nat
  BY BoundAssumption DEF DInv, PageTypes
<1>2. /\ server' = [server EXCEPT ![p] = server[p] + 1]
      /\ UNCHANGED <<marks, open, data, fetch>>
  BY <1>1 DEF Change, CreatePayment
<1>3. \A r \in Payment : server[r] \in Int /\ server'[r] \in Int /\ server[r] <= server'[r]
  BY <1>1, <1>2
<1>4. ASSUME NEW rows \in Rows, NEW r \in DOMAIN rows, rows[r] <= server[r]
      PROVE  rows[r] <= server'[r]
  <2>1. r \in Payment /\ rows[r] \in Int
    BY <1>1, RowsAre
  <2> QED
    BY <1>3, <1>4, <2>1
<1>5. \A q \in Query : /\ data[q] # NoData => data[q] \in Rows
                       /\ Arriving(q) => fetch[q] \in Rows
  BY DEF DInv, PageTypes, Arriving
<1>6. QueryInv'
  <2>1. \A q \in Query : data[q] # NoData =>
          \A r \in DOMAIN data[q] : q \in {List, r} /\ data[q][r] <= server'[r]
    BY <1>4, <1>5 DEF DInv, QueryInv
  <2>2. \A q \in Query : Arriving(q) =>
          \A r \in DOMAIN fetch[q] : q \in {List, r} /\ fetch[q][r] <= server'[r]
    BY <1>4, <1>5 DEF DInv, QueryInv
  <2> QED
    BY <1>2, <2>1, <2>2 DEF DInv, QueryInv, Arriving, Active
<1>7. CrossInv'
  BY <1>2 DEF DInv, CrossInv, Arriving, Mark
<1> QED
  BY <1>6, <1>7

\* An event that is newer than the cache cancels every request that could bring older rows.
LEMMA DeliverStep ==
  ASSUME DInv, NEW e \in outbox, NEW again \in BOOLEAN, Deliver(e, again)
  PROVE  CacheInv' /\ QueryInv' /\ CrossInv'
<1>1. UNCHANGED <<server, open, data>>
  BY DEF Deliver
<1>2. CASE UNCHANGED <<marks, fetch>>
  <2>1. QueryInv' /\ CrossInv'
    BY <1>1, <1>2, AskStep DEF DInv, QueryInv, Active
  <2> QED
    BY <1>2, <2>1 DEF DInv, CacheInv
<1>3. CASE ~(UNCHANGED <<marks, fetch>>)
  <2> DEFINE rows == [p \in {e[1]} |-> e[2]]
  <2>1. marks' = Remember(rows) /\ Restart({List, e[1]})
    BY <1>3 DEF Deliver
  <2>2. e[1] \in Payment /\ e[2] \in 0..Final
    BY DEF DInv, PageTypes, Event
  <2>3. rows \in Rows /\ DOMAIN rows = {e[1]}
    BY <2>2, RowsAre
  <2> HIDE DEF rows
  <2>4. CacheInv'
    BY <2>1, <2>3, RememberCache DEF DInv
  <2>5. \A q \in Query : fetch'[q] \in {Idle, Asked, fetch[q]}
    BY <1>1, <2>1, RestartAsks
  <2>6. \A q \in Query : q \notin Active' => fetch'[q] = Idle
    BY <1>1, <2>1, RestartAsks
  <2>7. \A q \in Query : Arriving(q)' => Arriving(q) /\ fetch'[q] = fetch[q] /\ q \notin {List, e[1]}
    <3>1. \A q \in Query : q \in {List, e[1]} => fetch'[q] \in {Idle, Asked}
      BY <2>1 DEF Restart, DInv, QueryInv
    <3> QED
      BY <2>5, <3>1 DEF Arriving
  <2>8. QueryInv'
    BY <1>1, <2>6, <2>7 DEF DInv, QueryInv
  <2>9. \A p : p # e[1] => Mark(p)' = -1 \/ Mark(p)' = Mark(p)
    BY <2>1, <2>3, RememberMark DEF DInv
  <2>10. \A q \in Query : Arriving(q) => \A p \in DOMAIN fetch[q] : q \in {List, p}
    BY DEF DInv, QueryInv
  <2>11. CrossInv'
    BY <1>1, <2>7, <2>9, <2>10 DEF DInv, CrossInv
  <2> QED
    BY <2>4, <2>8, <2>11
<1> QED
  BY <1>2, <1>3

\* The rows of an answer that is not outdated are what the cache knows from then on.
LEMMA AnsweredStep ==
  ASSUME DInv, NEW q \in Query, Answered(q)
  PROVE  CacheInv' /\ QueryInv' /\ CrossInv'
<1> DEFINE rows == fetch[q]
<1>1. /\ fetch \in [Query -> Rows \union {Idle, Asked}] /\ data \in [Query -> Rows \union {NoData}]
      /\ rows \in Rows /\ fetch' = [fetch EXCEPT ![q] = Idle] /\ Arriving(q)
      /\ UNCHANGED <<server, open>>
  BY DEF Answered, Arriving, DInv, PageTypes
<1>2. /\ ~Arriving(q)' /\ fetch'[q] = Idle
      /\ \A s \in Query : s # q => fetch'[s] = fetch[s] /\ (Arriving(s)' <=> Arriving(s))
  BY <1>1 DEF Arriving
<1>3. CASE Outdated(rows)
  <2>1. UNCHANGED <<data, marks>>
    BY <1>3 DEF Answered
  <2>2. \A s \in Query : s \notin Active' => fetch'[s] = Idle
    BY <1>1, <1>2 DEF DInv, QueryInv, Active
  <2>3. QueryInv' /\ CrossInv'
    BY <1>1, <1>2, <2>1, <2>2, AskStep
  <2> QED
    BY <2>1, <2>3 DEF DInv, CacheInv
<1>4. CASE ~Outdated(rows)
  <2>1. /\ marks' = Remember(rows)
        /\ data' = [data EXCEPT ![q] =
             IF q # List /\ data[q] # NoData /\ data[q][q] > rows[q] THEN data[q] ELSE rows]
    BY <1>4 DEF Answered
  <2>2. CacheInv'
    BY <1>1, <2>1, RememberCache DEF DInv
  <2>3. /\ \A s \in Query : s # q => data'[s] = data[s]
        /\ data'[q] \in {data[q], rows}
    BY <1>1, <2>1
  <2>4. \A p \in DOMAIN rows : q \in {List, p} /\ rows[p] <= server[p] /\ rows[p] \in 0..Final
    BY <1>1, RowsAre DEF DInv, QueryInv
  <2>5. \A p \in DOMAIN rows : data[q] # NoData /\ p \in DOMAIN data[q] => data[q][p] <= rows[p]
    BY <1>1 DEF DInv, QueryInv
  <2>6. \A p \in DOMAIN rows : Mark(p) \in -1..Final /\ Mark(p) <= rows[p]
    <3>1. \A p \in DOMAIN rows : Mark(p) \in -1..Final /\ ~(rows[p] < Mark(p))
      BY <1>4, MarkType DEF Outdated, DInv
    <3> QED
      BY <2>4, <3>1, BoundAssumption
  <2>7. \A p \in DOMAIN rows : Mark(p)' \in {-1, rows[p]}
    <3>1. \A p \in DOMAIN rows : (IF Mark(p) > rows[p] THEN Mark(p) ELSE rows[p]) = rows[p]
      BY <2>4, <2>6, BoundAssumption
    <3> QED
      BY <1>1, <2>1, <3>1, RememberMark DEF DInv
  <2>8. \A p : p \notin DOMAIN rows => Mark(p)' \in {-1, Mark(p)}
    BY <1>1, <2>1, RememberMark DEF DInv
  <2>9. QueryInv'
    <3>1. \A s \in Query : s \notin Active' => fetch'[s] = Idle
      BY <1>1, <1>2 DEF DInv, QueryInv, Active
    <3>2. \A s \in Query : data'[s] # NoData =>
            \A p \in DOMAIN data'[s] : s \in {List, p} /\ data'[s][p] <= server[p]
      BY <2>3, <2>4 DEF DInv, QueryInv
    <3>3. \A s \in Query : Arriving(s)' => s # q /\ Arriving(s) /\ fetch'[s] = fetch[s]
      BY <1>2
    <3> QED
      BY <1>1, <2>3, <3>1, <3>2, <3>3 DEF DInv, QueryInv
  <2>10. ASSUME NEW s \in Query, Arriving(s)', NEW t \in Query, data'[t] # NoData,
                NEW p \in DOMAIN fetch'[s] \intersect DOMAIN data'[t],
                Mark(p)' # -1, Mark(p)' <= fetch'[s][p]
         PROVE  data'[t][p] <= fetch'[s][p]
    <3>1. s # q /\ Arriving(s) /\ fetch'[s] = fetch[s]
      BY <1>2, <2>10
    <3>2. CASE p \notin DOMAIN rows
      <4>1. data'[t] = data[t] /\ Mark(p)' = Mark(p)
        BY <2>3, <2>8, <2>10, <3>2
      <4> QED
        BY <2>10, <3>1, <4>1 DEF DInv, CrossInv
    <3>3. CASE p \in DOMAIN rows
      <4>1. Mark(p)' = rows[p]
        BY <2>7, <2>10, <3>3
      <4>2. CASE t = q
        <5>1. data'[t][p] <= rows[p]
          <6>1. CASE data'[t] = rows
            BY <2>4, <3>3, <6>1, BoundAssumption
          <6>2. CASE data'[t] = data[q]
            BY <2>5, <2>10, <3>3, <6>2
          <6> QED
            BY <2>3, <4>2, <6>1, <6>2
        <5>2. data'[t][p] \in Int /\ rows[p] \in Int /\ fetch'[s][p] \in Int
          <6>1. data'[t] \in Rows /\ fetch'[s] \in Rows
            BY <1>1, <2>3, <2>10, <3>1, <4>2 DEF Arriving
          <6> QED
            BY <2>4, <2>10, <3>3, <6>1, RowsAre, BoundAssumption
        <5> QED
          BY <2>10, <4>1, <5>1, <5>2
      <4>3. CASE t # q
        <5>1. data'[t] = data[t]
          BY <2>3, <4>3
        <5>2. t \in {List, p} /\ s \in {List, p} /\ q \in {List, p}
          BY <2>4, <2>10, <3>1, <3>3, <5>1 DEF DInv, QueryInv
        <5>3. t = s
          BY <3>1, <4>3, <5>2
        <5> QED
          BY <2>10, <3>1, <5>1, <5>3 DEF DInv, QueryInv
      <4> QED
        BY <4>2, <4>3
    <3> QED
      BY <3>2, <3>3
  <2>11. CrossInv'
    BY <2>10 DEF CrossInv
  <2> QED
    BY <2>2, <2>9, <2>11
<1> QED
  BY <1>3, <1>4

LEMMA DStep == DInv /\ [Next]_vars => DInv'
<1> SUFFICES ASSUME DInv, [Next]_vars PROVE DInv'
  OBVIOUS
<1>1. PageTypes'
  BY PageTypesStep DEF DInv
<1>2. CacheInv' /\ QueryInv' /\ CrossInv'
  <2>1. ASSUME UNCHANGED marks, QueryInv' /\ CrossInv' PROVE CacheInv' /\ QueryInv' /\ CrossInv'
    BY <2>1 DEF DInv, CacheInv
  <2>2. CASE UNCHANGED vars \/ Disconnect \/ \E e \in outbox : Lose(e)
    <3>1. UNCHANGED <<server, marks, data, fetch, open>>
      BY <2>2 DEF vars, Disconnect, Lose
    <3>2. \A q \in Query : q \notin Active' => fetch'[q] = Idle
      BY <3>1 DEF DInv, QueryInv, Active
    <3> QED
      BY <2>1, <3>1, <3>2, AskStep
  <2>3. ASSUME NEW q \in Query, FetchFails(q) PROVE CacheInv' /\ QueryInv' /\ CrossInv'
    <3>1. fetch' = [fetch EXCEPT ![q] = Idle] /\ UNCHANGED <<server, marks, data, open>>
      BY <2>3 DEF FetchFails
    <3>2. \A s \in Query : fetch'[s] \in {Idle, Asked, fetch[s]}
      BY <3>1 DEF DInv, PageTypes
    <3>3. \A s \in Query : s \notin Active' => fetch'[s] = Idle
      BY <3>1 DEF DInv, QueryInv, Active, PageTypes
    <3> QED
      BY <2>1, <3>1, <3>2, <3>3, AskStep
  <2>4. ASSUME NEW p \in Openable, OpenDetail(p) \/ Created(p)
        PROVE  CacheInv' /\ QueryInv' /\ CrossInv'
    <3>1. /\ fetch' = [q \in Query |-> IF q \in {p} \ open THEN Asked
                                       ELSE IF q \in open \ {p} THEN Idle ELSE fetch[q]]
          /\ open' = {p} /\ UNCHANGED <<server, marks, data>>
      BY <2>4 DEF OpenDetail, Created, ShowDetails
    <3>2. \A q \in Query : fetch'[q] \in {Idle, Asked, fetch[q]}
      BY <3>1
    <3>3. \A q \in Query : q \notin Active' => fetch'[q] = Idle
      BY <3>1 DEF DInv, QueryInv, Active
    <3> QED
      BY <2>1, <3>1, <3>2, <3>3, AskStep
  <2>5. ASSUME NEW p \in Openable, CloseDetail(p) PROVE CacheInv' /\ QueryInv' /\ CrossInv'
    <3>1. /\ fetch' = [fetch EXCEPT ![p] = Idle]
          /\ open' = open \ {p} /\ UNCHANGED <<server, marks, data>>
      BY <2>5 DEF CloseDetail
    <3>2. \A q \in Query : fetch'[q] \in {Idle, Asked, fetch[q]}
      BY <3>1 DEF DInv, PageTypes
    <3>3. \A q \in Query : q \notin Active' => fetch'[q] = Idle
      BY <3>1 DEF DInv, QueryInv, Active, PageTypes
    <3> QED
      BY <2>1, <3>1, <3>2, <3>3, AskStep
  <2>6. CASE Ready \/ Focus \/ RefreshPayments \/ \E p \in Openable : Linked(p)
    <3>1. Restart(Query) \/ RestartLater(Query)
      BY <2>6 DEF Ready, Focus, RefreshPayments, Linked
    <3>2. UNCHANGED <<server, marks, data, open>>
      BY <2>6 DEF Ready, Focus, RefreshPayments, Linked
    <3> QED
      BY <2>1, <3>1, <3>2, RestartAsks, AskStep
  <2>7. CASE Poll
    <3>1. PICK S \in SUBSET {q \in Active : fetch[q] = Idle} :
            fetch' = [q \in Query |-> IF q \in S THEN Asked ELSE fetch[q]]
      BY <2>7 DEF Poll
    <3>2. UNCHANGED <<server, marks, data, open>>
      BY <2>7 DEF Poll
    <3>3. \A q \in Query : fetch'[q] \in {Idle, Asked, fetch[q]}
      BY <3>1
    <3>4. \A q \in Query : q \notin Active' => fetch'[q] = Idle
      BY <3>1, <3>2 DEF DInv, QueryInv, Active
    <3> QED
      BY <2>1, <3>2, <3>3, <3>4, AskStep
  <2>8. ASSUME NEW q \in Query, Read(q) PROVE CacheInv' /\ QueryInv' /\ CrossInv'
    BY <2>1, <2>8, ReadStep DEF Read
  <2>9. ASSUME NEW p \in Payment, Change(p) \/ CreatePayment(p)
        PROVE  CacheInv' /\ QueryInv' /\ CrossInv'
    BY <2>1, <2>9, ChangeStep DEF Change, CreatePayment
  <2> QED
    BY <2>2, <2>3, <2>4, <2>5, <2>6, <2>7, <2>8, <2>9, QueryAssumption, AnsweredStep, DeliverStep
       DEF Next
<1> QED
  BY <1>1, <1>2 DEF DInv

LEMMA DInvAlways == Spec => []DInv
BY InitHolds, DStep, PTL DEF Spec

-----------------------------------------------------------------------------
(* Theorems. *)

\* The page's state keeps its type; polling never spends more than its budget, and the
\* cache never exceeds its limit.
THEOREM DashboardTypeCorrect == Spec => []DashboardTypeOK
<1>1. DInv => DashboardTypeOK
  <2> SUFFICES ASSUME DInv PROVE DashboardTypeOK
    OBVIOUS
  <2>1. open \subseteq Openable /\ Cardinality(open) <= 1
    <3>1. open = {} \/ \E p \in Openable : open = {p}
      BY DEF DInv, PageTypes
    <3> QED
      BY <3>1, FS_EmptySet, FS_Singleton
  <2>2. Cardinality(DOMAIN marks) <= Cap
    BY CacheSize DEF DInv
  <2>3. \A q \in Query : fetch[q] \in {Idle, Asked} \/ fetch[q] \in Rows
    BY DEF DInv, PageTypes
  <2> QED
    BY <2>1, <2>2, <2>3 DEF DInv, DashboardTypeOK, PageTypes, CacheInv
<1> QED
  BY <1>1, DInvAlways, PTL

\* However fetches, cancellations and events overtake each other, what a query shows is
\* replaced by nothing that is older than what any visible query shows, unless the cache
\* has dropped the payment.
THEOREM NothingOlderAlways == Spec => NothingOlder
<1> DEFINE Kept == \A q \in Query : data'[q] # data[q] =>
                     \A p \in DOMAIN data'[q] :
                       \/ \A v \in Shown(p) : v <= data'[q][p]
                       \/ Mark(p) = -1
<1>1. DInv /\ [Next]_vars => [Kept]_vars
  <2> SUFFICES ASSUME DInv, [Next]_vars, NEW q \in Query, data'[q] # data[q],
                      NEW p \in DOMAIN data'[q], Mark(p) # -1,
                      NEW s \in Active, data[s] # NoData, p \in DOMAIN data[s]
               PROVE  data[s][p] <= data'[q][p]
    BY DEF Shown
  <2>1. Answered(q)
    <3>1. PICK r \in Query : Answered(r)
      BY DEF Next, vars, Read, FetchFails, OpenDetail, CloseDetail, CreatePayment, Created, Linked,
             Ready, Disconnect, Poll, Focus, RefreshPayments, Deliver, Lose, Change
    <3>2. r = q
      BY <3>1 DEF Answered, DInv, PageTypes
    <3> QED
      BY <3>1, <3>2
  <2>2. Arriving(q) /\ ~Outdated(fetch[q]) /\ data'[q] = fetch[q]
    BY <2>1 DEF Answered, Arriving, DInv, PageTypes
  <2>3. Mark(p) <= fetch[q][p]
    <3>1. fetch[q] \in Rows /\ ~(fetch[q][p] < Mark(p))
      BY <2>2 DEF Outdated, Arriving, DInv, PageTypes
    <3>2. Mark(p) \in Int /\ fetch[q][p] \in Int
      BY <2>2, <3>1, MarkType, RowsAre, BoundAssumption DEF DInv
    <3> QED
      BY <3>1, <3>2
  <2>4. s \in Query
    BY ActiveIsFinite DEF DInv
  <2> QED
    BY <2>2, <2>3, <2>4 DEF DInv, CrossInv
<1> QED
  BY <1>1, DInvAlways, PTL DEF Spec, NothingOlder
=============================================================================
