------------------------------ MODULE Checkout ------------------------------
(***************************************************************************)
(* How a payer is bound to a payment: checkout tokens the merchant may     *)
(* rotate, challenges a wallet signs, the binding with its start block and *)
(* its allocation claim, and the sessions that may submit transactions     *)
(* (CheckoutAuthService).                                                  *)
(*                                                                         *)
(* challenge and verify read the payment by its token long before they     *)
(* write, and verify asks the chain in between, so every request under way *)
(* remembers what it has read.  What the transactions and the workers do   *)
(* with a bound payment (Verification) is reduced to its status and to the *)
(* release of the allocation claim.                                        *)
(***************************************************************************)
EXTENDS Integers, FiniteSets

CONSTANTS
  Payment, Payer,
  Terms,         \* merchant, chain, token, receiver and amount
  TermsOf,       \* the terms of each payment
  Request,       \* HTTP requests that can be under way at the same time
  NoPayer,       \* no payer is bound
  Idle,          \* no request is under way
  MaxToken,      \* bound: token rotations of a payment
  MaxChallenges, \* bound: challenges issued
  MaxHead        \* bound: height of the chain

ASSUME TermsOfAssumption == TermsOf \in [Payment -> Terms]
ASSUME NoPayerAssumption == NoPayer \notin Payer
ASSUME MaxAssumption     == MaxToken \in Nat /\ MaxChallenges \in Nat /\ MaxHead \in Nat

VARIABLES
  token,      \* the checkout token of each payment, counted by rotations
  challenges, \* payer_challenges
  consumed,   \* ids of those with consumed_at
  expired,    \* ids of those past expires_at
  binding,    \* payer_bindings: payer and start_block of each payment
  claim,      \* payments whose binding has an allocation_key
  sessions,   \* checkout_sessions that have not expired
  status,     \* payments.status
  head,       \* the chain's height
  request     \* what each request has read

payers == <<challenges, consumed, expired, sessions>>
vars == <<token, payers, binding, claim, status, head, request>>

-----------------------------------------------------------------------------
\* `token' and `issued', the head when the challenge was inserted, are history.
Challenge == [id : 1..MaxChallenges, payment : Payment, payer : Payer,
              token : 0..MaxToken, issued : 0..MaxHead]

\* `by', the challenge a session was opened with, is history.
Session == [payment : Payment, payer : Payer, by : 1..MaxChallenges]

Binding == [payer : Payer \union {NoPayer}, start : 0..MaxHead]

Unbound == [payer |-> NoPayer, start |-> 0]

ChallengeRequest == [op : {"challenge"}, payment : Payment, token : 0..MaxToken, payer : Payer]
VerifyRequest    == [op : {"head"}, challenge : Challenge, token : 0..MaxToken]
BindRequest      == [op : {"bind"}, challenge : Challenge, token : 0..MaxToken, start : 0..MaxHead]

CTypeOK ==
  /\ token \in [Payment -> 0..MaxToken]
  /\ challenges \subseteq Challenge
  /\ \A c, d \in challenges : c.id = d.id => c = d
  /\ consumed \subseteq {c.id : c \in challenges}
  /\ expired \subseteq {c.id : c \in challenges}
  /\ binding \in [Payment -> Binding]
  /\ claim \subseteq {p \in Payment : binding[p].payer # NoPayer}
  /\ sessions \subseteq Session
  /\ status \in [Payment -> {"AWAITING_PAYMENT", "PROCESSING", "CONFIRMED"}]
  /\ head \in 0..MaxHead
  /\ request \in [Request -> {Idle} \union ChallengeRequest \union VerifyRequest
                               \union BindRequest]

Init ==
  /\ token = [p \in Payment |-> 0]
  /\ challenges = {}
  /\ consumed = {}
  /\ expired = {}
  /\ binding = [p \in Payment |-> Unbound]
  /\ claim = {}
  /\ sessions = {}
  /\ status = [p \in Payment |-> "AWAITING_PAYMENT"]
  /\ head = 0
  /\ request = [r \in Request |-> Idle]

Bound(p) == binding[p].payer # NoPayer

Done(r) == request' = [request EXCEPT ![r] = Idle]

-----------------------------------------------------------------------------
(* issue: the merchant rotates the token. *)

\* The challenges a rotation consumes.
Outdated(p) == {c.id : c \in {d \in challenges : d.payment = p}}

Issue(p) ==
  /\ status[p] = "AWAITING_PAYMENT"
  /\ ~Bound(p)
  /\ token[p] < MaxToken
  /\ token' = [token EXCEPT ![p] = @ + 1]
  /\ consumed' = consumed \union Outdated(p)
  /\ UNCHANGED <<challenges, expired, sessions, binding, claim, status, head, request>>

-----------------------------------------------------------------------------
(* challenge. *)

\* The payment is found by its current token.
AskChallenge(r, p, a) ==
  /\ request[r] = Idle
  /\ request' = [request EXCEPT ![r] =
       [op |-> "challenge", payment |-> p, token |-> token[p], payer |-> a]]
  /\ UNCHANGED <<token, payers, binding, claim, status, head>>

\* Fault: the INSERT trusts what was read.
TokenHoldsAlways(p, k) == TRUE

\* The token is still the payment's, read under the payment's lock.
TokenHolds(p, k) == token[p] = k

\* The INSERT ... SELECT ... FOR UPDATE, which finds no row after a rotation.
InsertChallenge(r) ==
  LET q == request[r] IN
  /\ q # Idle /\ q.op = "challenge"
  /\ IF TokenHolds(q.payment, q.token)
       THEN /\ Cardinality(challenges) < MaxChallenges
            /\ challenges' = challenges \union
                 {[id |-> Cardinality(challenges) + 1, payment |-> q.payment,
                   payer |-> q.payer, token |-> q.token, issued |-> head]}
       ELSE UNCHANGED challenges
  /\ Done(r)
  /\ UNCHANGED <<token, consumed, expired, sessions, binding, claim, status, head>>

-----------------------------------------------------------------------------
(* verify. *)

\* The payment is found by its current token, its challenge is neither consumed nor
\* expired, and the wallet of the challenge's payer signed it.
AskVerify(r, c) ==
  /\ request[r] = Idle
  /\ c.id \notin consumed \union expired
  /\ request' = [request EXCEPT ![r] =
       [op |-> "head", challenge |-> c, token |-> token[c.payment]]]
  /\ UNCHANGED <<token, payers, binding, claim, status, head>>

\* Fault: the start block comes from a cache as old as the process.
StartBlockCached == 0

\* Fault: the head is read one block behind.
StartBlockBehind == head - 1

\* getStartBlock.
StartBlock == head

\* The chain's head is read, or the chain does not answer.
ReadHead(r) ==
  LET q == request[r] IN
  /\ q # Idle /\ q.op = "head"
  /\ \/ request' = [request EXCEPT ![r] =
          [op |-> "bind", challenge |-> q.challenge, token |-> q.token,
           start |-> StartBlock]]
     \/ Done(r)
  /\ UNCHANGED <<token, payers, binding, claim, status, head>>

\* Fault: the transaction relies on the check at the beginning.
UsableAlways(c) == TRUE

\* The UPDATE that consumes the challenge finds it.
Usable(c) == c.id \notin consumed \union expired

\* Fault: the payment's id is digested as well.
KeyOfPayment(p, a) == <<p, a, TermsOf[p]>>

\* allocation_key
Key(p, a) == <<a, TermsOf[p]>>

\* UNIQUE(allocation_key) refuses the binding.
Taken(p, a) == \E q \in claim : Key(q, binding[q].payer) = Key(p, a)

\* Fault: a bound payment is open to any payer.
RenewsAlways(p, a) == Bound(p)

\* The payer already bound opens another session.
Renews(p, a) == binding[p].payer = a

\* The first payer is bound.
Binds(p, a) == ~Bound(p) /\ status[p] = "AWAITING_PAYMENT" /\ ~Taken(p, a)

\* The binding the transaction leaves.
BindingAfter(q) ==
  IF Bound(q.challenge.payment) THEN binding[q.challenge.payment]
  ELSE [payer |-> q.challenge.payer, start |-> q.start]

\* The transaction that ends verify commits.
Accepted(q) ==
  LET c == q.challenge IN
  /\ TokenHolds(c.payment, q.token)
  /\ Usable(c)
  /\ Renews(c.payment, c.payer) \/ Binds(c.payment, c.payer)

Accept(r) ==
  LET q == request[r]
      c == q.challenge
  IN
  /\ q # Idle /\ q.op = "bind"
  /\ Accepted(q)
  /\ consumed' = consumed \union {c.id}
  /\ binding' = [binding EXCEPT ![c.payment] = BindingAfter(q)]
  /\ claim' = IF Bound(c.payment) THEN claim ELSE claim \union {c.payment}
  /\ sessions' = sessions \union {[payment |-> c.payment, payer |-> c.payer, by |-> c.id]}
  /\ Done(r)
  /\ UNCHANGED <<token, challenges, expired, status, head>>

\* It fails and rolls back, which gives the challenge back.
Refuse(r) ==
  /\ request[r] # Idle /\ request[r].op = "bind"
  /\ ~Accepted(request[r])
  /\ Done(r)
  /\ UNCHANGED <<token, payers, binding, claim, status, head>>

-----------------------------------------------------------------------------
(* Time, the chain, and what becomes of a bound payment. *)

ExpireChallenge(c) ==
  /\ expired' = expired \union {c.id}
  /\ UNCHANGED <<token, challenges, consumed, sessions, binding, claim, status, head, request>>

ExpireSession(s) ==
  /\ sessions' = sessions \ {s}
  /\ UNCHANGED <<token, challenges, consumed, expired, binding, claim, status, head, request>>

Mine ==
  /\ head < MaxHead
  /\ head' = head + 1
  /\ UNCHANGED <<token, payers, binding, claim, status, request>>

\* authorize and submit.
Submit(s) ==
  /\ status[s.payment] = "AWAITING_PAYMENT"
  /\ status' = [status EXCEPT ![s.payment] = "PROCESSING"]
  /\ UNCHANGED <<token, payers, binding, claim, head, request>>

\* A verdict REJECTED.
Reject(p) ==
  /\ status[p] = "PROCESSING"
  /\ status' = [status EXCEPT ![p] = "AWAITING_PAYMENT"]
  /\ UNCHANGED <<token, payers, binding, claim, head, request>>

Settle(p) ==
  /\ status[p] = "PROCESSING"
  /\ status' = [status EXCEPT ![p] = "CONFIRMED"]
  /\ claim' = claim \ {p}
  /\ UNCHANGED <<token, payers, binding, head, request>>

-----------------------------------------------------------------------------
Next ==
  \/ \E p \in Payment : Issue(p) \/ Reject(p) \/ Settle(p)
  \/ \E r \in Request :
       \/ \E p \in Payment, a \in Payer : AskChallenge(r, p, a)
       \/ InsertChallenge(r)
       \/ \E c \in challenges : AskVerify(r, c)
       \/ ReadHead(r)
       \/ Accept(r)
       \/ Refuse(r)
  \/ \E c \in challenges : ExpireChallenge(c)
  \/ \E s \in sessions : ExpireSession(s) \/ Submit(s)
  \/ Mine

Spec == Init /\ [][Next]_vars

-----------------------------------------------------------------------------
\* A rotation kills the old token: no challenge minted with it can be used, neither
\* one that exists at the rotation nor one whose request was under way.
OldTokensAreDead ==
  \A c \in challenges : c.id \in consumed \/ c.token = token[c.payment]

\* A challenge opens at most one session, although verifications of it that passed
\* the first check may be under way at the same time.
ChallengeUsedOnce ==
  [][\A s \in sessions' \ sessions : s.by \notin consumed]_vars

\* Every session belongs to the payer the payment is bound to, also when two
\* payers authenticate at the same time.
SessionsOfThePayer ==
  \A s \in sessions : binding[s.payment].payer = s.payer

\* Two payments of the same terms are never open to the same payer at the same time:
\* a direct transfer could not be attributed to one of them.
ClaimsAreExclusive ==
  \A p, q \in Payment :
    /\ Bound(p) /\ status[p] # "CONFIRMED"
    /\ Bound(q) /\ status[q] # "CONFIRMED"
    /\ binding[p].payer = binding[q].payer
    /\ TermsOf[p] = TermsOf[q]
    => p = q

\* The start block is not older than the payer's challenge and not newer than the
\* binding: a transfer from before the challenge is never eligible, one from after
\* the binding always is.
StartBlockIsFresh ==
  [][\A p \in Payment : ~Bound(p) /\ binding'[p].payer # NoPayer =>
       /\ binding'[p].start <= head
       /\ \E c \in challenges : /\ c.payment = p
                                /\ c.id \in consumed' \ consumed
                                /\ c.issued <= binding'[p].start]_vars
=============================================================================
