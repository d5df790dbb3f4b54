------------------------------ MODULE Verifier ------------------------------
(***************************************************************************)
(* RpcVerifier.verify, read by read, on a chain that grows and reorganises *)
(* between any two of its reads, and the part of the worker that calls it  *)
(* again and again for one attempt, with the block the last check left in  *)
(* the attempt's row.                                                      *)
(*                                                                         *)
(* Verification takes the verdicts of a check as given.  Here they are     *)
(* computed, and related to what the chain really holds.  One check runs   *)
(* at a time: of concurrent ones only one is ever recorded (OneWriter).    *)
(***************************************************************************)
EXTENDS Integers, Sequences, FiniteSets

CONSTANTS
  Confirmations, \* VERIFY_CONFIRMATIONS
  StartBlock,    \* height of the head when the payer was bound
  Account,       \* accounts that must be EOAs: the payer, and the receiver of
                 \* a native payment
  Salt,          \* tells blocks of equal contents apart
  Finality,      \* the network never replaces a block with so many confirmations
  MaxHeight,     \* bound: height of the chain
  MaxFaults      \* bound: reorganisations, failing reads and dying workers

ASSUME ConfirmationsAssumption == Confirmations \in Nat \ {0, 1}
ASSUME StartBlockAssumption    == StartBlock \in Nat
ASSUME FinalityAssumption      == Finality \in 1..Confirmations
ASSUME BoundsAssumption        == MaxHeight \in Nat /\ StartBlock <= MaxHeight /\ MaxFaults \in Nat

VARIABLES
  chain,     \* the canonical chain, as the RPC endpoint sees it
  final,     \* height up to which it will not be replaced any more
  meets,     \* whether sender, receiver and call of the transaction are right
  status,    \* the attempt: pending, confirming, rejected or verified
  recorded,  \* the attempt's block_hash
  step,      \* the next read of the check under way, or "idle"
  seen,      \* the block of the receipt the check has read
  unread,    \* accounts whose code the current round has yet to read
  faults     \* faults so far

attempt == <<status, recorded>>
check   == <<step, seen, unread>>
vars    == <<chain, final, meets, attempt, check, faults>>

-----------------------------------------------------------------------------
(* The chain. *)

\* What a block may hold: the transaction with the effect the payment asks for,
\* or without (reverted, or not exactly one matching log), and contract code.
Content == [tx : {"none", "effective", "void"}, code : SUBSET Account, salt : Salt]

\* A block hash stands for the block and its ancestors, so it is represented by
\* the chain that ends in the block.
NoBlock == <<>>

BlockAt(n) == SubSeq(chain, 1, n)
Canonical(b) == Len(b) <= Len(chain) /\ BlockAt(Len(b)) = b

Holding(c) == {n \in DOMAIN c : c[n].tx # "none"}
Included == Holding(chain) # {}

\* The block of the transaction's receipt.
Inclusion == BlockAt(CHOOSE n \in Holding(chain) : TRUE)

\* A fixed property of the bound: the transaction is in one block of a chain.
Mineable(c) == c.tx # "none" => ~Included

Grow ==
  /\ Len(chain) < MaxHeight
  /\ \E c \in Content : Mineable(c) /\ chain' = Append(chain, c)
  /\ final' = IF Len(chain) + 2 - Finality > final
                THEN Len(chain) + 2 - Finality ELSE final
  /\ UNCHANGED <<meets, attempt, check, faults>>

\* A reorganisation, or another node answering: the newest blocks are gone, and
\* others may take their place.
Rewind ==
  /\ faults < MaxFaults
  /\ \E k \in final..Len(chain)-1 : chain' = BlockAt(k)
  /\ faults' = faults + 1
  /\ UNCHANGED <<final, meets, attempt, check>>

-----------------------------------------------------------------------------
(* The verdicts, as the worker records them. *)

\* Fault: the block of an earlier check is kept.
ForgetNever(s) == /\ status' = s
                  /\ UNCHANGED recorded
                  /\ step' = "idle"

\* A verdict without evidence clears the recorded block.
Forget(s) == /\ status' = s
             /\ recorded' = NoBlock
             /\ step' = "idle"

\* No receipt, no transaction, REORG_DETECTED; and a technical failure, of which
\* there are fewer here than the retry budget.
Postpone == Forget("pending") /\ UNCHANGED <<seen, unread>>
Reject   == Forget("rejected") /\ UNCHANGED <<seen, unread>>

\* CONFIRMING and VERIFIED carry the receipt's block as evidence.
Attest(s) == /\ status' = s
             /\ recorded' = seen
             /\ step' = "idle"
             /\ UNCHANGED <<seen, unread>>

Goto(s) == step' = s /\ UNCHANGED <<attempt, seen, unread>>

-----------------------------------------------------------------------------
(* The reads of a check. *)

\* Fault: a receipt in any block is as good as one in the recorded block.
MovedNever(b) == FALSE

\* The transaction has left the block an earlier check recorded.
Moved(b) == recorded # NoBlock /\ b # recorded

\* getReceipt, of an attempt that is not decided yet.
ReadReceipt ==
  /\ step = "idle"
  /\ status \in {"pending", "confirming"}
  /\ IF ~Included \/ Moved(Inclusion)
       THEN Postpone
       ELSE /\ seen' = Inclusion
            /\ step' = "hash"
            /\ UNCHANGED <<attempt, unread>>

\* getBlockHash of the receipt's height: another block, or none, is canonical there.
ReadHash(at, next) ==
  /\ step = at
  /\ IF Canonical(seen) THEN Goto(next) ELSE Postpone

\* What inspect looks for in the transaction and its receipt.
Inspected == /\ meets
             /\ seen[Len(seen)].tx = "effective"
             /\ Len(seen) > StartBlock

\* getTransaction and inspect.  A transaction that is in no block may have been
\* dropped by the node as well.
ReadTransaction(at, next) ==
  /\ step = at
  /\ \/ ~Included /\ Postpone
     \/ IF ~Inspected THEN Reject
        ELSE /\ step' = next
             /\ unread' = Account
             /\ UNCHANGED <<attempt, seen>>

\* Fault: the second round takes the accounts for EOAs.
FinalCodeSkipped(n, a) == a \in chain[n].code /\ step = "code"

\* getCode at a height: the state after whichever block is there now.
HasCode(n, a) == a \in chain[n].code

ReadCode(at, next) ==
  /\ step = at
  /\ \E a \in unread :
       IF Len(seen) > Len(chain) THEN Postpone
       ELSE IF HasCode(Len(seen), a) THEN Reject
       ELSE /\ unread' = unread \ {a}
            /\ step' = IF unread = {a} THEN next ELSE at
            /\ UNCHANGED <<attempt, seen>>

\* Fault: the block itself is counted twice.
DeepByOneLess(n) == Len(chain) - n + 2 >= Confirmations

\* The block at height n has its confirmations.
Deep(n) == Len(chain) - n + 1 >= Confirmations

\* getBlockNumber: too few confirmations end the check.
ReadHead ==
  /\ step = "head"
  /\ IF Deep(Len(seen)) THEN Goto("receipt again") ELSE Attest("confirming")

\* The receipt again: it must name the same block.
RereadReceipt ==
  /\ step = "receipt again"
  /\ IF Included /\ Inclusion = seen THEN Goto("hash again") ELSE Postpone

\* The last read: the canonical hash once more.
Conclude ==
  /\ step = "last hash"
  /\ IF Canonical(seen) THEN Attest("verified") ELSE Postpone

Check ==
  \/ ReadReceipt
  \/ ReadHash("hash", "transaction")
  \/ ReadTransaction("transaction", "code")
  \/ ReadCode("code", "head")
  \/ ReadHead
  \/ RereadReceipt
  \/ ReadHash("hash again", "transaction again")
  \/ ReadTransaction("transaction again", "code again")
  \/ ReadCode("code again", "last hash")
  \/ Conclude

Work == Check /\ UNCHANGED <<chain, final, meets, faults>>

\* A read fails or times out: RETRY.
Fail ==
  /\ step # "idle"
  /\ faults < MaxFaults
  /\ faults' = faults + 1
  /\ Postpone
  /\ UNCHANGED <<chain, final, meets>>

\* The worker dies, or the fence discards its outcome: the row stays as it is.
Drop ==
  /\ step # "idle"
  /\ faults < MaxFaults
  /\ faults' = faults + 1
  /\ Goto("idle")
  /\ UNCHANGED <<chain, final, meets>>

-----------------------------------------------------------------------------
\* The payer is bound when the head is at StartBlock; the transaction may be older.
Init ==
  /\ chain \in [1..StartBlock -> Content]
  /\ Cardinality(Holding(chain)) <= 1
  /\ final = IF Finality > StartBlock THEN 0 ELSE StartBlock + 1 - Finality
  /\ meets \in BOOLEAN
  /\ status = "pending"
  /\ recorded = NoBlock
  /\ step = "idle"
  /\ seen = NoBlock
  /\ unread = {}
  /\ faults = 0

Next == Grow \/ Rewind \/ Work \/ Fail \/ Drop

Spec == Init /\ [][Next]_vars

\* Workers keep checking.  The chain need not grow.
FairSpec == Spec /\ WF_vars(Work)

-----------------------------------------------------------------------------
VTypeOK ==
  /\ chain \in Seq(Content) /\ Len(chain) <= MaxHeight
  /\ final \in 0..Len(chain)
  /\ meets \in BOOLEAN
  /\ status \in {"pending", "confirming", "rejected", "verified"}
  /\ recorded # NoBlock <=> status \in {"confirming", "verified"}
  /\ step # "idle" => seen # NoBlock /\ seen[Len(seen)].tx # "none"
  /\ unread \subseteq Account
  /\ faults \in 0..MaxFaults

\* What a block must hold to pay the payment.
Pays(b) == /\ meets
           /\ b[Len(b)].tx = "effective"
           /\ b[Len(b)].code = {}
           /\ Len(b) > StartBlock

\* A VERIFIED attempt's evidence names a block that is canonical from then on, if
\* the network keeps blocks with that many confirmations: although receipt, hash,
\* head and the rereads saw the chain at different moments, the confirmations
\* counted are those of the evidence's block.
VerifiedIsFinal == status = "verified" => Canonical(recorded)

\* The block of the evidence itself holds the effective transfer after the binding
\* and no code of the accounts, although the code is read by height, and the
\* chain may leave the block and come back to it between two reads.
VerifiedIsPaid == status = "verified" => Pays(recorded)

\* The evidence of a check is in the block the check before it recorded, or that one
\* recorded none: what Verification assumes of verdicts (Evidence).
EvidenceMatchesRecord ==
  [][recorded # NoBlock => recorded' \in {recorded, NoBlock}]_vars

\* A payment that is on chain to stay is decided in the end: a block recorded before
\* a reorganisation cannot make every later check answer REORG_DETECTED.
PaidIsDecided ==
  <>[](Included /\ Pays(Inclusion) /\ Deep(Len(Inclusion)))
    => <>(status \in {"verified", "rejected"})

\* The receipt of the last check showed the transaction after the binding, but without
\* effect.
SeenWithoutEffect == seen # NoBlock /\ seen[Len(seen)].tx = "void" /\ Len(seen) > StartBlock

\* docs/spec.md: "Receipt disappearance or changed block hash returns the attempt to
\* PENDING_CHAIN for full re-verification" - here, a transaction that had no effect in
\* its first block (it reverted, say), and was rejected for that, has moved to another
\* block, in which it pays and has its confirmations.
MovedIsRechecked ==
  (/\ status = "rejected" /\ SeenWithoutEffect
   /\ Included /\ Pays(Inclusion) /\ Deep(Len(Inclusion)))
    ~> status = "pending"
=============================================================================
