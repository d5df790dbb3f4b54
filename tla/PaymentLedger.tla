--------------------------- MODULE PaymentLedger ---------------------------
(***************************************************************************)
(* What chainpay promises about payments and on-chain transactions,        *)
(* independently of workers, leases, queues and retries.                   *)
(*                                                                         *)
(* A payer claims that a transaction pays a payment.  The claim is either  *)
(* refused or accepted, once and for all.  A payment has at most one       *)
(* claim under examination, a payment is paid by at most one transaction,  *)
(* and a transaction of a chain pays at most one payment.                  *)
(*                                                                         *)
(* Verification implements this specification.                             *)
(***************************************************************************)
CONSTANTS Payment,   \* payments
          Hash,      \* transaction hashes
          ChainOf,   \* the chain a payment is to be paid on
          NoHash     \* the payment is unpaid

VARIABLES pending,   \* claims <<payment, hash>> under examination
          refused,   \* claims refused for good
          paidBy     \* the transaction that paid each payment

vars == <<pending, refused, paidBy>>

Claims == Payment \X Hash

Init ==
  /\ pending = {}
  /\ refused = {}
  /\ paidBy  = [p \in Payment |-> NoHash]

\* A new claim: the payment is unpaid, nothing else claims it at present, and
\* this transaction was not refused for it before.
Propose(p, h) ==
  /\ paidBy[p] = NoHash
  /\ \A g \in Hash : <<p, g>> \notin pending
  /\ <<p, h>> \notin refused
  /\ pending' = pending \union {<<p, h>>}
  /\ UNCHANGED <<refused, paidBy>>

Refuse(p, h) ==
  /\ <<p, h>> \in pending
  /\ pending' = pending \ {<<p, h>>}
  /\ refused' = refused \union {<<p, h>>}
  /\ UNCHANGED paidBy

\* The claim is accepted: no payment of the same chain was paid by h.
Pay(p, h) ==
  /\ <<p, h>> \in pending
  /\ paidBy[p] = NoHash
  /\ \A q \in Payment : ChainOf[q] = ChainOf[p] => paidBy[q] # h
  /\ pending' = pending \ {<<p, h>>}
  /\ paidBy'  = [paidBy EXCEPT ![p] = h]
  /\ UNCHANGED refused

Next == \E p \in Payment, h \in Hash : Propose(p, h) \/ Refuse(p, h) \/ Pay(p, h)

Spec == Init /\ [][Next]_vars
=============================================================================
