---------------------------- MODULE EventProofs ----------------------------
(***************************************************************************)
(* Whom a merchant event reaches, for every number of dashboards,          *)
(* merchants and updates.                                                  *)
(***************************************************************************)
EXTENDS MerchantEvents, TLAPS

USE DEF redisVars, history

-----------------------------------------------------------------------------
(* The invariant. *)

\* A delivery that passed the check of its session is of an update from before that
\* session's end, which is still to come if the session is valid.
SessionInv ==
  /\ \A c \in session : before[c] = MaxEvents
  /\ \A d \in deliveries : d.step = "owner" => d.event <= before[d.client]

\* Without a subscription only the streams are open, or about to open, that Redis
\* overtook while they were opening.
GapInv ==
  \A c \in Client : stream[c] \in {"rechecking", "open"} /\ ~channel => c \in raced

EInv == ETypeOK /\ SessionInv /\ SentIsScoped /\ GapInv /\ GapOnlyWhileOpening

LEMMA EventsAre == ETypeOK => Events = 1..Len(published)
BY DEF ETypeOK, Events

LEMMA EInit == Init => EInv
<1> SUFFICES ASSUME Init PROVE EInv
  OBVIOUS
<1>1. Events = {}
  BY DEF Init, Events
<1>2. published \in Seq(Merchant) /\ Len(published) = 0
  BY DEF Init
<1>3. ETypeOK
  <2>1. {sent, missed} \subseteq [Client -> SUBSET Events]
    BY DEF Init
  <2>2. published \in Seq(Merchant) /\ Len(published) <= MaxEvents
    BY <1>2, EventsAssumption
  <2>3. before \in [Client -> 0..MaxEvents]
    BY EventsAssumption DEF Init
  <2> QED
    BY <2>1, <2>2, <2>3 DEF Init, ETypeOK
<1> QED
  BY <1>1, <1>3 DEF Init, EInv, SessionInv, SentIsScoped, GapInv, GapOnlyWhileOpening, Open

-----------------------------------------------------------------------------
(* Types. *)

\* Ending streams keeps the rest typed.
LEMMA CloseType ==
  ASSUME ETypeOK, NEW C \in SUBSET Client, CloseStreams(C)
  PROVE  /\ stream' \in [Client -> {"idle", "connecting", "rechecking", "open", "closed"}]
         /\ deliveries' \subseteq deliveries
         /\ \A d \in deliveries' : d.client \in Open'
         /\ Open' = Open \ C
BY DEF ETypeOK, CloseStreams, Open, Delivery

\* Requests that open streams.
LEMMA OpeningType ==
  ASSUME ETypeOK,
         \/ \E c \in Client : OpenStream(c) \/ Recheck(c) \/ Return(c)
         \/ Connect \/ Subscribed
  PROVE  ETypeOK'
<1>1. Events' = Events
  BY DEF OpenStream, Recheck, Return, Connect, Subscribed, Events
<1>2. ASSUME NEW c \in Client, OpenStream(c) PROVE ETypeOK'
  BY <1>1, <1>2 DEF OpenStream, ETypeOK, Open
<1>3. ASSUME NEW c \in Client, Recheck(c) PROVE ETypeOK'
  BY <1>1, <1>3 DEF Recheck, ETypeOK, Open
<1>4. ASSUME NEW c \in Client, Return(c) PROVE ETypeOK'
  BY <1>1, <1>4 DEF Return, ETypeOK, Open
<1>5. CASE Connect
  BY <1>1, <1>5 DEF Connect, ETypeOK, Open
<1>6. CASE Subscribed
  BY <1>1, <1>6 DEF Subscribed, ETypeOK, Open, Waiting
<1> QED
  BY <1>2, <1>3, <1>4, <1>5, <1>6

\* Redis fails and returns.
LEMMA RedisType ==
  ASSUME ETypeOK, SubscribeFails \/ RedisCloses \/ Reconnect
  PROVE  ETypeOK'
<1>1. Events' = Events
  BY DEF SubscribeFails, RedisCloses, Reconnect, Events
<1>2. CASE SubscribeFails
  <2>1. Waiting \in SUBSET Client
    BY DEF Waiting
  <2> QED
    BY <1>1, <1>2, <2>1, CloseType DEF SubscribeFails, ETypeOK
<1>3. CASE RedisCloses
  <2>1. Open \in SUBSET Client
    BY DEF Open
  <2> QED
    BY <1>1, <1>3, <2>1, CloseType DEF RedisCloses, PromiseAfterClose, ETypeOK
<1>4. CASE Reconnect
  BY <1>1, <1>4 DEF Reconnect, ETypeOK, Open
<1> QED
  BY <1>2, <1>3, <1>4

LEMMA PublishType ==
  ASSUME ETypeOK, NEW m \in Merchant, Publish(m)
  PROVE  ETypeOK' /\ Events' = Events \union {Len(published) + 1}
<1>1. /\ published' \in Seq(Merchant) /\ Len(published') = Len(published) + 1
      /\ Len(published') <= MaxEvents
  BY DEF Publish, ETypeOK
<1>2. Events' = Events \union {Len(published) + 1}
  BY <1>1, EventsAre DEF Events, ETypeOK
<1>3. deliveries' \subseteq Delivery
  BY <1>1, EventsAssumption DEF Publish, ETypeOK, Delivery, Event, Open
<1>4. \A d \in deliveries' : d.client \in Open' /\ d.event \in Events'
  BY <1>2 DEF Publish, ETypeOK, Open
<1>5. {sent', missed'} \subseteq [Client -> SUBSET Events']
  BY <1>2 DEF Publish, ETypeOK
<1> QED
  BY <1>1, <1>2, <1>3, <1>4, <1>5 DEF Publish, ETypeOK

LEMMA DeliverType ==
  ASSUME ETypeOK, NEW d \in deliveries, CheckSession(d) \/ Write(d) \/ DeliveryFails(d)
  PROVE  ETypeOK'
<1>1. Events' = Events
  BY DEF CheckSession, Write, DeliveryFails, Events
<1>2. d \in Delivery /\ d.client \in Open /\ d.event \in Events /\ {d.client} \in SUBSET Client
  BY DEF ETypeOK, Delivery
<1>3. sent' \in [Client -> SUBSET Events']
  BY <1>1, <1>2 DEF CheckSession, Write, DeliveryFails, ETypeOK
<1>4. CASE CloseStreams({d.client})
  <2>1. UNCHANGED <<redisVars, session, gone, published, missed, raced, before>>
    BY DEF CheckSession, Write, DeliveryFails
  <2> QED
    BY <1>1, <1>2, <1>3, <1>4, <2>1, CloseType DEF ETypeOK
<1>5. CASE deliveries' = (deliveries \ {d}) \union {[d EXCEPT !.step = "owner"]}
           /\ UNCHANGED <<stream, sent>>
  <2>1. /\ [d EXCEPT !.step = "owner"] \in Delivery
        /\ [d EXCEPT !.step = "owner"].client = d.client
        /\ [d EXCEPT !.step = "owner"].event = d.event
    BY <1>2 DEF Delivery
  <2>2. deliveries' \subseteq Delivery
    BY <1>5, <2>1 DEF ETypeOK
  <2>3. \A e \in deliveries' : e.client \in Open' /\ e.event \in Events'
    BY <1>1, <1>2, <1>5, <2>1 DEF ETypeOK, Open
  <2>4. UNCHANGED <<redisVars, session, gone, published, missed, raced, sent, before>>
    BY <1>5 DEF CheckSession, Write, DeliveryFails
  <2> QED
    BY <1>1, <1>5, <2>2, <2>3, <2>4 DEF ETypeOK
<1>6. CASE deliveries' = deliveries \ {d} /\ UNCHANGED stream
  <2>1. UNCHANGED <<redisVars, session, gone, published, missed, raced, before>>
    BY DEF CheckSession, Write, DeliveryFails
  <2> QED
    BY <1>1, <1>3, <1>6, <2>1 DEF ETypeOK, Open
<1> QED
  BY <1>4, <1>5, <1>6 DEF CheckSession, Write, DeliveryFails

LEMMA ClientType ==
  ASSUME ETypeOK, NEW c \in Client, Heartbeat(c) \/ EndSession(c) \/ Leave(c)
  PROVE  ETypeOK'
<1>1. Events' = Events /\ {c} \in SUBSET Client
  BY DEF Heartbeat, EndSession, Leave, Events
<1>2. CASE Heartbeat(c)
  BY <1>1, <1>2, CloseType DEF Heartbeat, ETypeOK
<1>3. CASE EndSession(c)
  BY <1>1, <1>3 DEF EndSession, ETypeOK, Open
<1>4. CASE Leave(c)
  BY <1>1, <1>4, CloseType DEF Leave, ETypeOK, Open
<1> QED
  BY <1>2, <1>3, <1>4

LEMMA EventTypes == ETypeOK /\ [Next]_vars => ETypeOK'
<1> SUFFICES ASSUME ETypeOK, [Next]_vars PROVE ETypeOK'
  OBVIOUS
<1>1. CASE UNCHANGED vars
  BY <1>1 DEF vars, ETypeOK, Open, Events
<1> QED
  BY <1>1, OpeningType, RedisType, PublishType, DeliverType, ClientType DEF Next

-----------------------------------------------------------------------------
(* What an open stream may have missed. *)

Gap == GapInv /\ GapOnlyWhileOpening

\* Streams that end, and nothing else that matters here.
LEMMA CloseGap ==
  ASSUME ETypeOK, Gap, NEW C \in SUBSET Client, CloseStreams(C),
         UNCHANGED <<channel, missed, raced>>
  PROVE  Gap'
BY DEF Gap, GapInv, GapOnlyWhileOpening, CloseStreams, Open, ETypeOK

LEMMA GapStep == ETypeOK /\ Gap /\ [Next]_vars => Gap'
<1> SUFFICES ASSUME ETypeOK, Gap, [Next]_vars PROVE Gap'
  OBVIOUS
<1> USE DEF Gap, GapInv, GapOnlyWhileOpening, Open
<1>1. CASE UNCHANGED vars
  BY <1>1 DEF vars
<1>2. ASSUME NEW c \in Client, OpenStream(c) PROVE Gap'
  BY <1>2 DEF OpenStream, ETypeOK
<1>3. ASSUME NEW c \in Client, Recheck(c) PROVE Gap'
  BY <1>3 DEF Recheck, ETypeOK
<1>4. ASSUME NEW c \in Client, Return(c) PROVE Gap'
  BY <1>4 DEF Return, ETypeOK
<1>5. ASSUME NEW c \in Client, Heartbeat(c) \/ EndSession(c) \/ Leave(c) PROVE Gap'
  <2>1. {c} \in SUBSET Client /\ UNCHANGED <<channel, missed, raced>>
    BY <1>5 DEF Heartbeat, EndSession, Leave
  <2> QED
    BY <1>5, <2>1, CloseGap DEF Heartbeat, EndSession, Leave
<1>6. CASE Connect \/ Subscribed
  BY <1>6 DEF Connect, Subscribed, Waiting, ETypeOK
<1>7. CASE SubscribeFails
  BY <1>7, CloseGap DEF SubscribeFails, Waiting
<1>8. CASE RedisCloses
  BY <1>8 DEF RedisCloses, CloseStreams, ETypeOK
<1>9. CASE Reconnect
  BY <1>9 DEF Reconnect, ETypeOK
<1>10. ASSUME NEW m \in Merchant, Publish(m) PROVE Gap'
  BY <1>10 DEF Publish, ETypeOK
<1>11. ASSUME NEW d \in deliveries, CheckSession(d) \/ Write(d) \/ DeliveryFails(d)
       PROVE  Gap'
  <2>1. {d.client} \in SUBSET Client /\ UNCHANGED <<channel, missed, raced>>
    BY <1>11 DEF ETypeOK, Delivery, CheckSession, Write, DeliveryFails
  <2> QED
    BY <1>11, <2>1, CloseGap DEF CheckSession, Write, DeliveryFails
<1> QED
  BY <1>1, <1>2, <1>3, <1>4, <1>5, <1>6, <1>7, <1>8, <1>9, <1>10, <1>11 DEF Next

-----------------------------------------------------------------------------
(* Whom an update reaches. *)

Scope == SessionInv /\ SentIsScoped

\* Deliveries disappear, and nothing else that matters here.
LEMMA FewerScope ==
  ASSUME Scope, deliveries' \subseteq deliveries,
         UNCHANGED <<session, published, before, sent>>
  PROVE  Scope'
BY DEF Scope, SessionInv, SentIsScoped, Own, Events

LEMMA EndScope ==
  ASSUME ETypeOK, Scope, NEW c \in Client, EndSession(c)
  PROVE  Scope'
<1>1. Events = 1..Len(published)
  BY EventsAre
<1>2. SessionInv'
  BY <1>1 DEF Scope, SessionInv, EndSession, ETypeOK, Delivery
<1>3. \A u \in Client : sent[u] \subseteq Events
  BY DEF ETypeOK
<1>4. SentIsScoped'
  BY <1>1, <1>3 DEF Scope, SentIsScoped, EndSession, ETypeOK, Own, Events
<1> QED
  BY <1>2, <1>4 DEF Scope

LEMMA PublishScope ==
  ASSUME ETypeOK, Scope, NEW m \in Merchant, Publish(m)
  PROVE  Scope'
<1>1. SessionInv'
  BY DEF Scope, SessionInv, Publish
<1>2. ASSUME NEW c \in Client, NEW e \in sent[c]
      PROVE  e \in Own(c)' /\ e <= before[c]
  <2>1. e \in Events /\ published[e] = OwnerOf[c] /\ e <= before[c]
    BY <1>2 DEF Scope, SentIsScoped, Own
  <2>2. e \in Events' /\ published'[e] = published[e]
    BY <2>1, EventsAre, PublishType DEF Publish, ETypeOK
  <2> QED
    BY <2>1, <2>2 DEF Own
<1>3. SentIsScoped'
  BY <1>2 DEF SentIsScoped, Publish
<1> QED
  BY <1>1, <1>3 DEF Scope

LEMMA DeliverScope ==
  ASSUME ETypeOK, Scope, NEW d \in deliveries,
         CheckSession(d) \/ Write(d) \/ DeliveryFails(d)
  PROVE  Scope'
<1>1. d \in Delivery /\ d.event \in Events /\ d.event <= MaxEvents
  BY EventsAre, EventsAssumption DEF ETypeOK, Delivery, Event
<1>2. CASE CheckSession(d)
  <2>1. CASE HasSession(d.client)
    <3>1. d.event <= before[d.client]
      BY <1>1, <2>1 DEF Scope, SessionInv, HasSession
    <3>2. /\ [d EXCEPT !.step = "owner"].client = d.client
          /\ [d EXCEPT !.step = "owner"].event = d.event
      BY <1>1 DEF Delivery
    <3> QED
      BY <1>2, <2>1, <3>1, <3>2 DEF CheckSession, Scope, SessionInv, SentIsScoped, Own, Events
  <2>2. CASE ~HasSession(d.client)
    BY <1>2, <2>2, FewerScope DEF CheckSession, CloseStreams
  <2> QED
    BY <2>1, <2>2
<1>3. CASE Write(d)
  <2>1. SessionInv'
    BY <1>3 DEF Write, CloseStreams, Scope, SessionInv
  <2>2. d.event <= before[d.client]
    BY <1>3 DEF Write, Scope, SessionInv
  <2>3. SentIsScoped'
    BY <1>1, <1>3, <2>2 DEF Write, Owned, Scope, SentIsScoped, Own, Events, ETypeOK
  <2> QED
    BY <2>1, <2>3 DEF Scope
<1>4. CASE DeliveryFails(d)
  BY <1>4, FewerScope DEF DeliveryFails, CloseStreams
<1> QED
  BY <1>2, <1>3, <1>4

LEMMA ScopeStep == ETypeOK /\ Scope /\ [Next]_vars => Scope'
<1> SUFFICES ASSUME ETypeOK, Scope, [Next]_vars PROVE Scope'
  OBVIOUS
<1>1. CASE UNCHANGED vars
  BY <1>1, FewerScope DEF vars
<1>2. ASSUME NEW c \in Client,
             OpenStream(c) \/ Recheck(c) \/ Return(c) \/ Heartbeat(c) \/ Leave(c)
      PROVE  Scope'
  BY <1>2, FewerScope DEF OpenStream, Recheck, Return, Heartbeat, Leave, CloseStreams
<1>3. CASE Connect \/ Subscribed \/ SubscribeFails \/ RedisCloses \/ Reconnect
  BY <1>3, FewerScope
  DEF Connect, Subscribed, SubscribeFails, RedisCloses, Reconnect, CloseStreams
<1> QED
  BY <1>1, <1>2, <1>3, EndScope, PublishScope, DeliverScope DEF Next

-----------------------------------------------------------------------------
(* The theorems. *)

LEMMA EInvAlways == Spec => []EInv
<1>1. EInv /\ [Next]_vars => EInv'
  BY EventTypes, GapStep, ScopeStep DEF EInv, Gap, Scope
<1> QED
  BY <1>1, EInit, PTL DEF Spec

\* The state of the stream keeps its type; in particular the service believes itself
\* subscribed only while its connection is.
THEOREM EventTypeCorrect == Spec => []ETypeOK
<1>1. EInv => ETypeOK
  BY DEF EInv
<1> QED
  BY <1>1, EInvAlways, PTL

\* No client is sent another merchant's update, nor one from after its session's end,
\* however many deliveries overlap that end.
THEOREM SentIsScopedAlways == Spec => []SentIsScoped
<1>1. EInv => SentIsScoped
  BY DEF EInv
<1> QED
  BY <1>1, EInvAlways, PTL

\* A stream that was not being opened when Redis closed, and that stays open, has
\* missed nothing.
THEOREM GapOnlyWhileOpeningAlways == Spec => []GapOnlyWhileOpening
<1>1. EInv => GapOnlyWhileOpening
  BY DEF EInv
<1> QED
  BY <1>1, EInvAlways, PTL
=============================================================================
