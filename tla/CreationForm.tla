---------------------------- MODULE CreationForm ----------------------------
(***************************************************************************)
(* The dashboard's form that creates a payment (usePaymentActions), in     *)
(* front of the API of Payments: a form keeps one idempotency key until    *)
(* its payment is known, through answers that are lost while their request *)
(* goes on.  Other clients of the merchant create payments meanwhile.      *)
(***************************************************************************)
EXTENDS Payments

CONSTANTS
  NoForm,
  NoRequest,   \* the request did not get as far as a transaction
  Malformed,   \* normalized requests that are answered 400
  MaxForms     \* bound: forms that are submitted

ASSUME MalformedAssumption == Malformed \subseteq Fingerprint
ASSUME NoRequestAssumption == NoRequest \notin Request
ASSUME MaxFormsAssumption  == MaxForms \in Nat

VARIABLES
  form,     \* creation.current and what the page waits for
  forms,    \* how many forms were submitted so far
  formOf    \* history: the form that each key was generated for, 0 for none

fvars == <<vars, form, forms, formOf>>

-----------------------------------------------------------------------------
Form == [phase : {"asking", "uncertain", "created"}, key : Key, fingerprint : Fingerprint,
         request : Request \union {NoRequest}, id : Id \union {None}]

ASSUME NoFormAssumption == NoForm \notin Form

FTypeOK ==
  /\ PTypeOK
  /\ form \in Form \union {NoForm}
  /\ forms \in 0..MaxForms
  /\ formOf \in [Key -> 0..forms]

FInit == Init /\ form = NoForm /\ forms = 0 /\ formOf = [k \in Key |-> 0]

Awaits(q) == form # NoForm /\ form.phase = "asking" /\ form.request = q

-----------------------------------------------------------------------------
\* crypto.randomUUID: a key that nobody has used.
Fresh == {k \in Key : /\ formOf[k] = 0
                      /\ \A r \in payments : r.key # k
                      /\ \A q \in Request : request[q] # Idle => request[q].key # k}

\* Fault: each submission has a key of its own.
KeyToSendFresh == Fresh

\* The key of a submission: the one the form has kept, if any.
KeyToSend == IF form = NoForm THEN Fresh ELSE {form.key}

\* The merchant submits a new form, or repeats one whose outcome is unknown; the request
\* may fail, or be refused, before it comes to a transaction.
Submit ==
  /\ form = NoForm => forms < MaxForms
  /\ form # NoForm => form.phase = "uncertain"
  /\ \E k \in KeyToSend, f \in IF form = NoForm THEN Fingerprint ELSE {form.fingerprint},
        q \in Request \union {NoRequest} :
       /\ IF q = NoRequest THEN UNCHANGED vars
                           ELSE f \notin Malformed /\ Begin(q, k, f)
       /\ form' = [phase |-> "asking", key |-> k, fingerprint |-> f, request |-> q, id |-> None]
       /\ forms' = IF form = NoForm THEN forms + 1 ELSE forms
       /\ formOf' = [formOf EXCEPT ![k] = forms']

\* What the page makes of the end of request q.
Outcome(q) ==
  IF ~Awaits(q) THEN UNCHANGED form
  ELSE form' = IF At(q, "201") \/ At(q, "200")
                 THEN [form EXCEPT !.phase = "created", !.id = request[q].id]
                 ELSE [form EXCEPT !.phase = "uncertain"]

\* A creation goes on, whoever waits for it; its end is seen by who still does.
Serve(q) ==
  \/ (Insert(q) \/ Commit(q) \/ ReadWinner(q)) /\ UNCHANGED <<form, forms, formOf>>
  \/ (Abort(q) \/ Receive(q)) /\ Outcome(q) /\ UNCHANGED <<forms, formOf>>

\* Twenty seconds pass, or the network fails: the request, if there is one, goes on.
LoseAnswer ==
  /\ form # NoForm /\ form.phase = "asking"
  /\ form' = [form EXCEPT !.phase = "uncertain"]
  /\ UNCHANGED <<vars, forms, formOf>>

\* 400: the form may be corrected, and its key is dropped.
Refused ==
  /\ form # NoForm /\ form.phase = "asking" /\ form.fingerprint \in Malformed
  /\ form' = NoForm
  /\ UNCHANGED <<vars, forms, formOf>>

\* The checkout link is issued, or that fails: either way the payment exists, and the
\* form is done.
Finish ==
  /\ form # NoForm /\ form.phase = "created"
  /\ form' = NoForm
  /\ UNCHANGED <<vars, forms, formOf>>

\* The page is left or reloaded, or the session ends: the key is forgotten.
Leave ==
  /\ form # NoForm
  /\ form' = NoForm
  /\ UNCHANGED <<vars, forms, formOf>>

\* Another client of the merchant.
OtherClient(q) ==
  /\ \E k \in {x \in Key : formOf[x] = 0}, f \in Fingerprint \ Malformed : Begin(q, k, f)
  /\ UNCHANGED <<form, forms, formOf>>

FNext ==
  \/ Submit \/ LoseAnswer \/ Refused \/ Finish \/ Leave
  \/ \E q \in Request : Serve(q) \/ OtherClient(q)
  \/ Rest /\ UNCHANGED <<form, forms, formOf>>

FSpec == FInit /\ [][FNext]_fvars

-----------------------------------------------------------------------------
\* A form creates one payment at most, however often its answer is lost and it is
\* repeated while earlier requests go on; what the page takes for created is that
\* payment; and no request of a form is told that its key was used for another one.
OnePaymentPerForm ==
  /\ \A r, s \in payments : formOf[r.key] # 0 /\ formOf[r.key] = formOf[s.key] => r = s
  /\ form # NoForm /\ form.phase = "created" =>
       \E r \in payments : /\ r.id = form.id /\ r.key = form.key
                           /\ r.fingerprint = form.fingerprint
  /\ \A q \in Request : At(q, "409") => formOf[request[q].key] = 0
=============================================================================
