--------------------------- MODULE CheckoutProofs ---------------------------
(***************************************************************************)
(* Tokens, sessions, claims and start blocks, for every number of          *)
(* payments, payers, requests, rotations and challenges.                   *)
(***************************************************************************)
EXTENDS Checkout, TLAPS, FiniteSetTheorems

USE DEF payers

-----------------------------------------------------------------------------
(* The invariant. *)

\* Ids are handed out in order.
NumberedInv ==
  /\ IsFiniteSet(challenges)
  /\ \A c \in challenges : c.id <= Cardinality(challenges)

\* What a verification under way remembers: a challenge that exists, and a head read
\* after the challenge was issued.
RequestInv ==
  /\ \A c \in challenges : c.issued <= head
  /\ \A r \in Request : request[r] # Idle /\ request[r].op \in {"head", "bind"} =>
       request[r].challenge \in challenges
  /\ \A r \in Request : request[r] # Idle /\ request[r].op = "bind" =>
       request[r].challenge.issued <= request[r].start /\ request[r].start <= head

\* A binding keeps its claim until the payment is confirmed, and claims are unique.
ClaimInv ==
  /\ \A p \in Payment : Bound(p) /\ status[p] # "CONFIRMED" => p \in claim
  /\ \A p, q \in claim : Key(p, binding[p].payer) = Key(q, binding[q].payer) => p = q

CInv ==
  /\ CTypeOK /\ NumberedInv /\ RequestInv
  /\ OldTokensAreDead /\ SessionsOfThePayer /\ ClaimInv

LEMMA CInit == Init => CInv
<1> SUFFICES ASSUME Init PROVE CInv
  OBVIOUS
<1>1. CTypeOK
  BY MaxAssumption DEF Init, CTypeOK, Binding, Unbound
<1>2. NumberedInv
  BY FS_EmptySet DEF Init, NumberedInv
<1>3. RequestInv /\ OldTokensAreDead /\ SessionsOfThePayer
  BY DEF Init, RequestInv, OldTokensAreDead, SessionsOfThePayer
<1>4. ClaimInv
  BY DEF Init, ClaimInv, Bound, Unbound
<1> QED
  BY <1>1, <1>2, <1>3, <1>4 DEF CInv

-----------------------------------------------------------------------------
(* Requests and their answers. *)

\* The kinds of requests.
LEMMA RequestKinds ==
  ASSUME CTypeOK, NEW r \in Request, request[r] # Idle
  PROVE  /\ request[r].op = "challenge" => request[r] \in ChallengeRequest
         /\ request[r].op = "head" => request[r] \in VerifyRequest
         /\ request[r].op = "bind" => request[r] \in BindRequest
BY DEF CTypeOK, ChallengeRequest, VerifyRequest, BindRequest

\* A request that does not write.
LEMMA QuietRequest ==
  ASSUME CInv, NEW r \in Request,
         UNCHANGED <<token, payers, binding, claim, status, head>>,
         NEW q \in {Idle} \union ChallengeRequest \union VerifyRequest \union BindRequest,
         request' = [request EXCEPT ![r] = q],
         q # Idle /\ q.op \in {"head", "bind"} => q.challenge \in challenges,
         q # Idle /\ q.op = "bind" => q.challenge.issued <= q.start /\ q.start <= head
  PROVE  CInv'
<1>1. CTypeOK'
  BY DEF CInv, CTypeOK
<1>2. RequestInv'
  BY DEF CInv, CTypeOK, RequestInv
<1>3. NumberedInv' /\ OldTokensAreDead' /\ SessionsOfThePayer' /\ ClaimInv'
  BY DEF CInv, NumberedInv, OldTokensAreDead, SessionsOfThePayer, ClaimInv, Bound, Key
<1> QED
  BY <1>1, <1>2, <1>3 DEF CInv

LEMMA AskStep ==
  ASSUME CInv, NEW r \in Request,
         \/ \E p \in Payment, a \in Payer : AskChallenge(r, p, a)
         \/ \E c \in challenges : AskVerify(r, c)
         \/ ReadHead(r) \/ Refuse(r)
  PROVE  CInv'
<1>1. CTypeOK
  BY DEF CInv
<1>2. ASSUME NEW p \in Payment, NEW a \in Payer, AskChallenge(r, p, a) PROVE CInv'
  <2> DEFINE q == [op |-> "challenge", payment |-> p, token |-> token[p], payer |-> a]
  <2>1. q \in ChallengeRequest /\ q.op = "challenge"
    BY <1>1 DEF CTypeOK, ChallengeRequest
  <2>2. request' = [request EXCEPT ![r] = q]
        /\ UNCHANGED <<token, payers, binding, claim, status, head>>
    BY <1>2 DEF AskChallenge
  <2> HIDE DEF q
  <2> QED
    BY <2>1, <2>2, QuietRequest
<1>3. ASSUME NEW c \in challenges, AskVerify(r, c) PROVE CInv'
  <2> DEFINE q == [op |-> "head", challenge |-> c, token |-> token[c.payment]]
  <2>1. q \in VerifyRequest /\ q.op = "head" /\ q.challenge = c
    BY <1>1 DEF CTypeOK, VerifyRequest, Challenge
  <2>2. request' = [request EXCEPT ![r] = q]
        /\ UNCHANGED <<token, payers, binding, claim, status, head>>
    BY <1>3 DEF AskVerify
  <2> HIDE DEF q
  <2> QED
    BY <2>1, <2>2, QuietRequest
<1>4. CASE request' = [request EXCEPT ![r] = Idle]
           /\ UNCHANGED <<token, payers, binding, claim, status, head>>
  BY <1>4, QuietRequest
<1>5. ASSUME ReadHead(r), request' # [request EXCEPT ![r] = Idle] PROVE CInv'
  <2> DEFINE q == [op |-> "bind", challenge |-> request[r].challenge,
                   token |-> request[r].token, start |-> head]
  <2>1. request[r] \in VerifyRequest /\ request[r].challenge \in challenges
    BY <1>1, <1>5, RequestKinds DEF CInv, RequestInv, ReadHead
  <2>2. q \in BindRequest /\ q.op = "bind" /\ q.challenge = request[r].challenge /\ q.start = head
    BY <1>1, <2>1 DEF CTypeOK, VerifyRequest, BindRequest
  <2>3. request[r].challenge.issued <= head /\ head <= head
    BY <1>1, <2>1, MaxAssumption DEF CInv, RequestInv, CTypeOK
  <2>4. request' = [request EXCEPT ![r] = q]
        /\ UNCHANGED <<token, payers, binding, claim, status, head>>
    BY <1>5 DEF ReadHead, StartBlock, Done
  <2> HIDE DEF q
  <2> QED
    BY <2>1, <2>2, <2>3, <2>4, QuietRequest
<1> QED
  BY <1>2, <1>3, <1>4, <1>5 DEF ReadHead, Refuse, Done

-----------------------------------------------------------------------------
(* Tokens and challenges. *)

LEMMA IssueStep ==
  ASSUME CInv, NEW p \in Payment, Issue(p)
  PROVE  CInv'
<1>1. CTypeOK /\ CTypeOK'
  BY MaxAssumption DEF CInv, CTypeOK, Issue, Outdated
<1>2. OldTokensAreDead'
  BY <1>1 DEF CInv, OldTokensAreDead, Issue, Outdated, CTypeOK, Challenge
<1>3. NumberedInv' /\ RequestInv' /\ SessionsOfThePayer' /\ ClaimInv'
  BY DEF CInv, Issue, NumberedInv, RequestInv, SessionsOfThePayer, ClaimInv, Bound, Key
<1> QED
  BY <1>1, <1>2, <1>3 DEF CInv

LEMMA InsertStep ==
  ASSUME CInv, NEW r \in Request, InsertChallenge(r)
  PROVE  CInv'
<1>1. CTypeOK
  BY DEF CInv
<1>2. CASE UNCHANGED challenges
  BY <1>2, QuietRequest DEF InsertChallenge, Done
<1>3. CASE ~ UNCHANGED challenges
  <2> DEFINE q == request[r]
             c == [id |-> Cardinality(challenges) + 1, payment |-> q.payment,
                   payer |-> q.payer, token |-> q.token, issued |-> head]
  <2>1. q \in ChallengeRequest
    BY <1>1, RequestKinds DEF InsertChallenge
  <2>2. /\ token[q.payment] = q.token
        /\ Cardinality(challenges) < MaxChallenges
        /\ challenges' = challenges \union {c}
        /\ request' = [request EXCEPT ![r] = Idle]
        /\ UNCHANGED <<token, consumed, expired, sessions, binding, claim, status, head>>
    BY <1>3 DEF InsertChallenge, TokenHolds, Done
  <2>3. Cardinality(challenges) \in Nat /\ IsFiniteSet(challenges)
    BY FS_CardinalityType DEF CInv, NumberedInv
  <2>4. c \in Challenge
    BY <1>1, <2>1, <2>2, <2>3, MaxAssumption DEF Challenge, ChallengeRequest, CTypeOK
  <2>5. c.id = Cardinality(challenges) + 1 /\ c.payment = q.payment /\ c.token = q.token
        /\ c.issued = head
    OBVIOUS
  <2> HIDE DEF c, q
  <2>6. \A d \in challenges : d.id \in Nat /\ d.id < c.id
    BY <1>1, <2>3, <2>5 DEF CInv, NumberedInv, CTypeOK, Challenge
  <2>7. c \notin challenges /\ Cardinality(challenges') = Cardinality(challenges) + 1
        /\ IsFiniteSet(challenges')
    BY <2>2, <2>3, <2>6, FS_AddElement
  <2>8. NumberedInv'
    <3>1. ASSUME NEW d \in challenges' PROVE d.id <= Cardinality(challenges')
      <4>1. CASE d = c
        BY <2>3, <2>5, <2>7, <4>1
      <4>2. CASE d \in challenges
        BY <2>3, <2>5, <2>6, <2>7, <4>2
      <4> QED
        BY <2>2, <4>1, <4>2
    <3> QED
      BY <2>7, <3>1 DEF NumberedInv
  <2>9. CTypeOK'
    <3>1. challenges' \subseteq Challenge /\ \A d, e \in challenges' : d.id = e.id => d = e
      BY <1>1, <2>2, <2>4, <2>6 DEF CTypeOK
    <3>2. /\ consumed' \subseteq {d.id : d \in challenges'}
          /\ expired' \subseteq {d.id : d \in challenges'}
      BY <1>1, <2>2 DEF CTypeOK
    <3> QED
      BY <1>1, <2>2, <3>1, <3>2 DEF CTypeOK
  <2>10. RequestInv'
    BY <1>1, <2>2, <2>5, MaxAssumption DEF CInv, RequestInv, CTypeOK
  <2>11. OldTokensAreDead'
    BY <2>2, <2>5 DEF CInv, OldTokensAreDead
  <2>12. SessionsOfThePayer' /\ ClaimInv'
    BY <2>2 DEF CInv, SessionsOfThePayer, ClaimInv, Bound, Key
  <2> QED
    BY <2>8, <2>9, <2>10, <2>11, <2>12 DEF CInv
<1> QED
  BY <1>2, <1>3

\* Clocks, the chain, and what becomes of a bound payment.
LEMMA WorldStep ==
  ASSUME CInv,
         \/ \E c \in challenges : ExpireChallenge(c)
         \/ \E s \in sessions : ExpireSession(s) \/ Submit(s)
         \/ \E p \in Payment : Reject(p) \/ Settle(p)
         \/ Mine
  PROVE  CInv'
<1> USE DEF CInv, NumberedInv, RequestInv, OldTokensAreDead, SessionsOfThePayer, ClaimInv,
            Bound, Key
<1>1. ASSUME NEW c \in challenges, ExpireChallenge(c) PROVE CInv'
  BY <1>1 DEF ExpireChallenge, CTypeOK
<1>2. ASSUME NEW s \in sessions, ExpireSession(s) PROVE CInv'
  BY <1>2 DEF ExpireSession, CTypeOK
<1>3. ASSUME NEW s \in sessions, Submit(s) PROVE CInv'
  BY <1>3 DEF Submit, CTypeOK
<1>4. ASSUME NEW p \in Payment, Reject(p) PROVE CInv'
  BY <1>4 DEF Reject, CTypeOK
<1>5. ASSUME NEW p \in Payment, Settle(p) PROVE CInv'
  BY <1>5 DEF Settle, CTypeOK
<1>6. CASE Mine
  <2>1. CTypeOK'
    BY <1>6, MaxAssumption DEF Mine, CTypeOK
  <2>2. head \in Int /\ head' = head + 1
    BY <1>6, MaxAssumption DEF Mine, CTypeOK
  <2>3. \A c \in challenges : c.issued \in Int
    BY MaxAssumption DEF CTypeOK, Challenge
  <2>4. RequestInv'
    <3>1. \A r \in Request : request[r] # Idle /\ request[r].op = "bind" => request[r].start \in Int
      BY RequestKinds, MaxAssumption DEF BindRequest
    <3> QED
      BY <1>6, <2>2, <2>3, <3>1 DEF Mine
  <2> QED
    BY <1>6, <2>1, <2>4 DEF Mine
<1> QED
  BY <1>1, <1>2, <1>3, <1>4, <1>5, <1>6

-----------------------------------------------------------------------------
(* The transaction that ends a verification. *)

\* What it knows of its challenge.
LEMMA AcceptKnows ==
  ASSUME CInv, NEW r \in Request, Accept(r)
  PROVE  /\ request[r] \in BindRequest
         /\ request[r].challenge \in challenges
         /\ request[r].challenge \in Challenge
         /\ request[r].challenge.payer # NoPayer
         /\ request[r].challenge.issued <= request[r].start
         /\ request[r].start <= head
BY RequestKinds, NoPayerAssumption DEF CInv, RequestInv, Accept, CTypeOK, Challenge

LEMMA AcceptType ==
  ASSUME CInv, NEW r \in Request, Accept(r)
  PROVE  CTypeOK'
<1> DEFINE q == request[r]  c == q.challenge
<1>1. CTypeOK /\ q \in BindRequest /\ c \in challenges /\ c \in Challenge
  BY AcceptKnows DEF CInv
<1>2. BindingAfter(q) \in Binding /\ BindingAfter(q).payer # NoPayer
  BY <1>1, AcceptKnows DEF BindingAfter, Bound, Binding, BindRequest, Challenge, CTypeOK
<1>3. binding' \in [Payment -> Binding]
      /\ \A p \in Payment : Bound(p) \/ p = c.payment => binding'[p].payer # NoPayer
  BY <1>1, <1>2 DEF Accept, CTypeOK, Bound, Challenge
<1>4. claim' \subseteq {p \in Payment : binding'[p].payer # NoPayer}
  BY <1>1, <1>3 DEF Accept, CTypeOK, Bound, Challenge
<1>5. sessions' \subseteq Session
  BY <1>1 DEF Accept, CTypeOK, Session, Challenge
<1>6. request' \in [Request -> {Idle} \union ChallengeRequest \union VerifyRequest \union BindRequest]
  BY <1>1 DEF Accept, Done, CTypeOK
<1> QED
  BY <1>1, <1>3, <1>4, <1>5, <1>6 DEF Accept, CTypeOK

\* The payer of the payment is the challenge's, and only that payment's binding moves.
LEMMA AcceptBinds ==
  ASSUME CInv, NEW r \in Request, Accept(r)
  PROVE  /\ binding'[request[r].challenge.payment].payer = request[r].challenge.payer
         /\ \A p \in Payment : p # request[r].challenge.payment \/ Bound(p) =>
              binding'[p] = binding[p]
<1> DEFINE q == request[r]  c == q.challenge
<1>1. c.payment \in Payment /\ c.payer # NoPayer
  BY AcceptKnows DEF Challenge
<1>2. binding' = [binding EXCEPT ![c.payment] = BindingAfter(q)]
      /\ (binding[c.payment].payer = c.payer \/ ~Bound(c.payment))
  BY DEF Accept, Accepted, Renews, Binds
<1>3. binding \in [Payment -> Binding]
  BY DEF CInv, CTypeOK
<1> QED
  BY <1>1, <1>2, <1>3 DEF BindingAfter

LEMMA AcceptClaims ==
  ASSUME CInv, NEW r \in Request, Accept(r)
  PROVE  ClaimInv'
<1> DEFINE c == request[r].challenge
<1>1. c.payment \in Payment /\ claim \subseteq Payment
      /\ \A p \in claim : Bound(p)
  BY AcceptKnows DEF Challenge, CInv, CTypeOK, Bound
<1>2. UNCHANGED status /\ \A p \in claim : binding'[p] = binding[p]
  BY <1>1, AcceptBinds DEF Accept
<1>3. CASE Bound(c.payment)
  <2>1. claim' = claim /\ \A p \in Payment : binding'[p] = binding[p]
    BY <1>3, AcceptBinds DEF Accept
  <2> QED
    BY <1>2, <2>1 DEF CInv, ClaimInv, Bound, Key, CTypeOK
<1>4. CASE ~Bound(c.payment)
  <2>1. claim' = claim \union {c.payment} /\ binding'[c.payment].payer = c.payer
    BY <1>4, AcceptBinds DEF Accept
  <2>2. ~Taken(c.payment, c.payer)
    BY <1>1, <1>4, AcceptKnows DEF Accept, Accepted, Renews, Binds, Bound
  <2>3. \A p \in claim : Key(p, binding'[p].payer) # Key(c.payment, c.payer)
    BY <1>2, <2>2 DEF Taken
  <2>4. \A p \in Payment : p # c.payment => binding'[p] = binding[p]
    BY AcceptBinds
  <2>5. \A p \in Payment : Bound(p)' /\ status'[p] # "CONFIRMED" => p \in claim'
    BY <1>2, <2>1, <2>4 DEF CInv, ClaimInv, Bound
  <2>6. \A p, s \in claim' : Key(p, binding'[p].payer) = Key(s, binding'[s].payer) => p = s
    <3>1. \A p, s \in claim : Key(p, binding'[p].payer) = Key(s, binding'[s].payer) => p = s
      BY <1>2 DEF CInv, ClaimInv
    <3> QED
      BY <2>1, <2>3, <3>1
  <2> QED
    BY <2>5, <2>6 DEF ClaimInv, Key
<1> QED
  BY <1>3, <1>4

LEMMA AcceptStep ==
  ASSUME CInv, NEW r \in Request, Accept(r)
  PROVE  CInv'
<1> DEFINE c == request[r].challenge
<1>1. UNCHANGED <<token, challenges, head>> /\ consumed \subseteq consumed'
      /\ request' = [request EXCEPT ![r] = Idle]
  BY DEF Accept, Done
<1>2. NumberedInv' /\ RequestInv' /\ OldTokensAreDead'
  BY <1>1 DEF CInv, NumberedInv, RequestInv, OldTokensAreDead, CTypeOK
<1>3. SessionsOfThePayer'
  <2>1. ASSUME NEW s \in sessions PROVE binding'[s.payment].payer = s.payer
    <3>1. s \in Session /\ binding[s.payment].payer = s.payer
      BY DEF CInv, CTypeOK, SessionsOfThePayer
    <3>2. s.payment \in Payment /\ Bound(s.payment)
      BY <3>1, NoPayerAssumption DEF Session, Bound
    <3> QED
      BY <3>1, <3>2, AcceptBinds
  <2>2. sessions' = sessions \union {[payment |-> c.payment, payer |-> c.payer, by |-> c.id]}
    BY DEF Accept
  <2> QED
    BY <2>1, <2>2, AcceptBinds DEF SessionsOfThePayer
<1> QED
  BY <1>2, <1>3, AcceptType, AcceptClaims DEF CInv

-----------------------------------------------------------------------------
(* The theorems. *)

LEMMA CStep == CInv /\ [Next]_vars => CInv'
<1> SUFFICES ASSUME CInv, [Next]_vars PROVE CInv'
  OBVIOUS
<1>1. CASE UNCHANGED vars
  BY <1>1 DEF vars, CInv, CTypeOK, NumberedInv, RequestInv, OldTokensAreDead,
     SessionsOfThePayer, ClaimInv, Bound, Key
<1> QED
  BY <1>1, IssueStep, AskStep, InsertStep, AcceptStep, WorldStep DEF Next

LEMMA CInvAlways == Spec => []CInv
BY CInit, CStep, PTL DEF Spec

\* Payments, challenges, bindings, sessions and requests keep their types; ids of
\* challenges are unique, and only bound payments hold a claim.
THEOREM CheckoutTypeCorrect == Spec => []CTypeOK
<1>1. CInv => CTypeOK
  BY DEF CInv
<1> QED
  BY <1>1, CInvAlways, PTL

\* A challenge of an old token is consumed, whatever request was under way.
THEOREM OldTokensAreDeadAlways == Spec => []OldTokensAreDead
<1>1. CInv => OldTokensAreDead
  BY DEF CInv
<1> QED
  BY <1>1, CInvAlways, PTL

\* A session belongs to the bound payer, however many authenticate at once.
THEOREM SessionsOfThePayerAlways == Spec => []SessionsOfThePayer
<1>1. CInv => SessionsOfThePayer
  BY DEF CInv
<1> QED
  BY <1>1, CInvAlways, PTL

\* No payer has two open payments of the same terms.
THEOREM ClaimsAreExclusiveAlways == Spec => []ClaimsAreExclusive
<1>1. CInv => ClaimsAreExclusive
  BY DEF CInv, ClaimInv, ClaimsAreExclusive, Key
<1> QED
  BY <1>1, CInvAlways, PTL

\* A challenge opens one session at most.
THEOREM ChallengeUsedOnceAlways == Spec => ChallengeUsedOnce
<1> DEFINE UsedOnce == \A s \in sessions' \ sessions : s.by \notin consumed
<1>1. ASSUME NEW r \in Request, Accept(r) PROVE UsedOnce
  BY <1>1 DEF Accept, Accepted, Usable
<1>2. ASSUME [Next]_vars, \A r \in Request : ~Accept(r) PROVE sessions' \subseteq sessions
  BY <1>2 DEF Next, vars, Issue, Reject, Settle, AskChallenge, InsertChallenge, AskVerify,
     ReadHead, Refuse, ExpireChallenge, ExpireSession, Submit, Mine
<1>3. [Next]_vars => [UsedOnce]_vars
  BY <1>1, <1>2
<1> QED
  BY <1>3, PTL DEF Spec, ChallengeUsedOnce

\* A payment is bound with a start block between its payer's challenge and the head.
THEOREM StartBlockIsFreshAlways == Spec => StartBlockIsFresh
<1> DEFINE Fresh ==
      \A p \in Payment : ~Bound(p) /\ binding'[p].payer # NoPayer =>
        /\ binding'[p].start <= head
        /\ \E c \in challenges : /\ c.payment = p
                                 /\ c.id \in consumed' \ consumed
                                 /\ c.issued <= binding'[p].start
<1>1. ASSUME CInv, NEW r \in Request, Accept(r) PROVE Fresh
  <2> DEFINE q == request[r]  c == q.challenge
  <2>1. SUFFICES ASSUME NEW p \in Payment, ~Bound(p), binding'[p].payer # NoPayer
        PROVE  /\ binding'[p].start <= head
               /\ c.payment = p /\ c.id \in consumed' \ consumed
               /\ c.issued <= binding'[p].start
    BY <1>1, AcceptKnows
  <2>2. p = c.payment
    BY <1>1, <2>1, AcceptBinds DEF Bound
  <2>3. binding'[p] = [payer |-> c.payer, start |-> q.start]
    BY <1>1, <2>1, <2>2 DEF Accept, BindingAfter, CInv, CTypeOK
  <2>4. c.id \in consumed' \ consumed
    BY <1>1 DEF Accept, Accepted, Usable
  <2> QED
    BY <1>1, <2>2, <2>3, <2>4, AcceptKnows
<1>2. ASSUME [Next]_vars, \A r \in Request : ~Accept(r) PROVE UNCHANGED binding
  BY <1>2 DEF Next, vars, Issue, Reject, Settle, AskChallenge, InsertChallenge, AskVerify,
     ReadHead, Refuse, ExpireChallenge, ExpireSession, Submit, Mine
<1>3. CInv /\ [Next]_vars => [Fresh]_vars
  BY <1>1, <1>2 DEF Bound
<1> QED
  BY <1>3, CInvAlways, PTL DEF Spec, StartBlockIsFresh
=============================================================================
