--------------------------- MODULE MerchantEvents ---------------------------
(***************************************************************************)
(* The merchant event stream (MerchantEventsService): one Redis connection *)
(* shared by the streams of all dashboards, a subscription made for the    *)
(* first of them, and the delivery of every message to every stream after  *)
(* a check of its session and of the payment's owner.                      *)
(*                                                                         *)
(* Redis and its client library reconnect on their own and then restore    *)
(* the subscriptions they remember; what is published in between is lost.  *)
(* A dashboard reads everything over HTTP when its stream becomes ready.   *)
(***************************************************************************)
EXTENDS Integers, Sequences, FiniteSets

CONSTANTS
  Client,    \* dashboards, each with a merchant session of its own
  Merchant,
  OwnerOf,   \* the merchant of a client's session
  MaxEvents  \* bound: payment updates published

ASSUME OwnerAssumption  == OwnerOf \in [Client -> Merchant]
ASSUME EventsAssumption == MaxEvents \in Nat

VARIABLES
  redis,       \* the API's connection
  remembered,  \* the library restores the subscription when it reconnects
  channel,     \* the connection is subscribed
  subscribed,  \* the service's promise of the subscription
  stream,      \* what a client's request has come to
  session,     \* sessions that are valid
  gone,        \* clients whose connection is closed though their request is not
  deliveries,  \* messages on their way to streams
  published,   \* history: the merchants of the updates published, in order
  sent,        \* history: updates written to a client
  missed,      \* history: updates a client does not know since its last refetch
  before,      \* history: updates published before a client's session ended
  raced        \* history: clients that were opening when Redis closed

redisVars == <<redis, remembered, channel, subscribed>>
history   == <<sent, before>>
vars == <<redisVars, stream, session, gone, deliveries, published, missed, raced, history>>

-----------------------------------------------------------------------------
Event    == 1..MaxEvents
Delivery == [client : Client, event : Event, step : {"session", "owner"}]

Events == DOMAIN published
Open   == {c \in Client : stream[c] = "open"}
Own(c) == {e \in Events : published[e] = OwnerOf[c]}

ETypeOK ==
  /\ redis \in {"wait", "up", "down"}
  /\ remembered \in BOOLEAN /\ channel \in BOOLEAN
  /\ channel => redis = "up" /\ remembered
  /\ subscribed \in {"none", "pending", "done"}
  /\ subscribed = "done" => channel
  /\ stream \in [Client -> {"idle", "connecting", "rechecking", "open", "closed"}]
  /\ session \subseteq Client /\ gone \subseteq Client /\ raced \subseteq Client
  /\ deliveries \subseteq Delivery
  /\ \A d \in deliveries : d.client \in Open /\ d.event \in Events
  /\ published \in Seq(Merchant) /\ Len(published) <= MaxEvents
  /\ {sent, missed} \subseteq [Client -> SUBSET Events]
  /\ before \in [Client -> 0..MaxEvents]

Init ==
  /\ redis = "wait"
  /\ remembered = FALSE /\ channel = FALSE
  /\ subscribed = "none"
  /\ stream = [c \in Client |-> "idle"]
  /\ session = Client
  /\ gone = {}
  /\ deliveries = {}
  /\ published = <<>>
  /\ sent = [c \in Client |-> {}]
  /\ missed = [c \in Client |-> {}]
  /\ before = [c \in Client |-> MaxEvents]
  /\ raced = {}

-----------------------------------------------------------------------------
(* Streams that end. *)

\* client.close(); what is on its way to an ended stream is written to nobody.
CloseStreams(C) ==
  /\ stream' = [c \in Client |-> IF c \in C THEN "closed" ELSE stream[c]]
  /\ deliveries' = {d \in deliveries : d.client \notin C}

-----------------------------------------------------------------------------
(* connect and open. *)

\* The clients whose open waits for the subscription.
Waiting == {c \in Client : stream[c] = "connecting"}

\* connect: share the promise, or start one, unless the connection is not ready.
OpenStream(c) ==
  /\ stream[c] = "idle"
  /\ \/ /\ c \notin session \/ (subscribed = "none" /\ redis = "down")
        /\ stream' = [stream EXCEPT ![c] = "closed"]
        /\ UNCHANGED subscribed
     \/ /\ c \in session /\ subscribed = "done"
        /\ stream' = [stream EXCEPT ![c] = "rechecking"]
        /\ UNCHANGED subscribed
     \/ /\ c \in session /\ (subscribed = "pending" \/ (subscribed = "none" /\ redis # "down"))
        /\ stream' = [stream EXCEPT ![c] = "connecting"]
        /\ subscribed' = "pending"
  /\ UNCHANGED <<redis, remembered, channel, session, gone, deliveries, published, missed,
                 raced, history>>

\* redis.connect() of the first subscription.
Connect ==
  /\ redis = "wait" /\ subscribed = "pending"
  /\ redis' = "up"
  /\ UNCHANGED <<remembered, channel, subscribed, stream, session, gone, deliveries,
                 published, missed, raced, history>>

\* redis.subscribe() answers; one sent before a disconnection is sent again.
Subscribed ==
  /\ redis = "up" /\ Waiting # {}
  /\ channel' = TRUE /\ remembered' = TRUE
  /\ subscribed' = IF subscribed = "pending" THEN "done" ELSE subscribed
  /\ stream' = [c \in Client |-> IF c \in Waiting THEN "rechecking" ELSE stream[c]]
  /\ UNCHANGED <<redis, session, gone, deliveries, published, missed, raced, history>>

\* connect() or subscribe() throws: 503, and the promise is dropped.
SubscribeFails ==
  /\ Waiting # {}
  /\ subscribed' = "none"
  /\ redis' = IF redis = "wait" THEN "down" ELSE redis
  /\ CloseStreams(Waiting)
  /\ UNCHANGED <<remembered, channel, session, gone, published, missed, raced, history>>

\* The second session check, and the registration of the stream; on ready the
\* dashboard refetches.
Recheck(c) ==
  /\ stream[c] = "rechecking"
  /\ IF c \in session
       THEN /\ stream' = [stream EXCEPT ![c] = "open"]
            /\ missed' = [missed EXCEPT ![c] = {}]
       ELSE /\ stream' = [stream EXCEPT ![c] = "closed"]
            /\ UNCHANGED missed
  /\ UNCHANGED <<redisVars, session, gone, deliveries, published, raced, history>>

-----------------------------------------------------------------------------
(* Redis. *)

\* Fault: the promise survives the connection.
PromiseKept == subscribed

\* The promise after the connection closed.
PromiseAfterClose == "none"

\* 'close', of the connection or of an attempt to reconnect: every registered stream
\* is closed.
RedisCloses ==
  /\ redis # "wait"
  /\ redis' = "down" /\ channel' = FALSE
  /\ subscribed' = PromiseAfterClose
  /\ CloseStreams(Open)
  /\ raced' = raced \union {c \in Client : stream[c] = "rechecking"}
  /\ UNCHANGED <<remembered, session, gone, published, missed, history>>

Reconnect ==
  /\ redis = "down"
  /\ redis' = "up" /\ channel' = remembered
  /\ UNCHANGED <<remembered, subscribed, stream, session, gone, deliveries, published,
                 missed, raced, history>>

\* An update of a payment of merchant m reaches every registered stream, or nobody.
Publish(m) ==
  LET e == Len(published) + 1
      Receivers == IF channel THEN Open ELSE {}
  IN
  /\ e <= MaxEvents
  /\ published' = Append(published, m)
  /\ deliveries' = deliveries \union
       {[client |-> c, event |-> e, step |-> "session"] : c \in Receivers}
  /\ missed' = [c \in Client |->
       IF OwnerOf[c] = m /\ c \notin Receivers THEN missed[c] \union {e} ELSE missed[c]]
  /\ UNCHANGED <<redisVars, stream, session, gone, raced, history>>

-----------------------------------------------------------------------------
(* deliver. *)

\* Fault: the session was checked when the stream opened.
AnySession(c) == TRUE

\* access.merchant: the session is in the database.
HasSession(c) == c \in session

CheckSession(d) ==
  /\ d.step = "session"
  /\ IF HasSession(d.client)
       THEN /\ deliveries' = (deliveries \ {d}) \union {[d EXCEPT !.step = "owner"]}
            /\ UNCHANGED stream
       ELSE CloseStreams({d.client})
  /\ UNCHANGED <<redisVars, session, gone, published, missed, raced, history>>

\* The payment is the merchant's.
Owned(d) == published[d.event] = OwnerOf[d.client]

\* The write reaches a client that is there; if the socket is full, the data is kept
\* for it, but the stream is closed.
Write(d) ==
  /\ d.step = "owner"
  /\ sent' = IF Owned(d) /\ d.client \notin gone
               THEN [sent EXCEPT ![d.client] = @ \union {d.event}] ELSE sent
  /\ \/ /\ Owned(d) => d.client \notin gone
        /\ deliveries' = deliveries \ {d}
        /\ UNCHANGED stream
     \/ Owned(d) /\ CloseStreams({d.client})
  /\ UNCHANGED <<redisVars, session, gone, published, missed, raced, before>>

\* A query of the delivery fails.
DeliveryFails(d) ==
  /\ CloseStreams({d.client})
  /\ UNCHANGED <<redisVars, session, gone, published, missed, raced, history>>

-----------------------------------------------------------------------------
(* Sessions and clients. *)

\* Fault: the heartbeat only writes.
GoneOnly(c) == c \in gone

\* The session ended, or the write finds nobody.
Dead(c) == ~HasSession(c) \/ c \in gone

\* Every 15 seconds.
Heartbeat(c) ==
  /\ c \in Open /\ Dead(c)
  /\ CloseStreams({c})
  /\ UNCHANGED <<redisVars, session, gone, published, missed, raced, history>>

\* Logout or expiry.
EndSession(c) ==
  /\ c \in session
  /\ session' = session \ {c}
  /\ before' = [before EXCEPT ![c] = Len(published)]
  /\ UNCHANGED <<redisVars, stream, gone, deliveries, published, missed, raced, sent>>

\* A client leaves. The service hears of it only once the stream is registered.
Leave(c) ==
  /\ c \notin gone
  /\ \/ /\ c \in Open
        /\ CloseStreams({c})
        /\ UNCHANGED gone
     \/ /\ stream[c] \in {"connecting", "rechecking"}
        /\ gone' = gone \union {c}
        /\ UNCHANGED <<stream, deliveries>>
  /\ UNCHANGED <<redisVars, session, published, missed, raced, history>>

\* The dashboard's backoff is over.
Return(c) ==
  /\ stream[c] = "closed"
  /\ stream' = [stream EXCEPT ![c] = "idle"]
  /\ gone' = gone \ {c}
  /\ raced' = raced \ {c}
  /\ UNCHANGED <<redisVars, session, deliveries, published, missed, history>>

-----------------------------------------------------------------------------
Next ==
  \/ \E c \in Client : \/ OpenStream(c) \/ Recheck(c) \/ Heartbeat(c)
                       \/ EndSession(c) \/ Leave(c) \/ Return(c)
  \/ Connect \/ Subscribed \/ SubscribeFails
  \/ RedisCloses \/ Reconnect
  \/ \E m \in Merchant : Publish(m)
  \/ \E d \in deliveries : CheckSession(d) \/ Write(d) \/ DeliveryFails(d)

Spec == Init /\ [][Next]_vars

\* Queries are answered and the interval fires; nobody has to publish, to return
\* or to leave.
Fairness ==
  /\ \A c \in Client : WF_vars(Heartbeat(c)) /\ WF_vars(Recheck(c))
  /\ \A c \in Client, e \in Event, s \in {"session", "owner"} :
       LET d == [client |-> c, event |-> e, step |-> s] IN
       WF_vars(d \in deliveries /\ (CheckSession(d) \/ Write(d)))

FairSpec == Spec /\ Fairness

-----------------------------------------------------------------------------
\* What is written to a client is an update of its own merchant's payment, published
\* while its session was valid: an ended session gets nothing that happened later,
\* however the deliveries overlap its end.
SentIsScoped ==
  \A c \in Client : sent[c] \subseteq {e \in Own(c) : e <= before[c]}

\* A stream that stays open has missed an update only if Redis closed while it was
\* being opened: any other stream is closed with the connection.
GapOnlyWhileOpening == \A c \in Open : missed[c] # {} => c \in raced

\* "Redis disconnection closes streams so reconnect triggers HTTP recovery": a
\* client whose stream stays open has missed nothing.
OpenMissesNothing == \A c \in Open : missed[c] = {}

\* A stream whose session has ended, or whose client left before it was registered,
\* does not stay open.
DeadStreamsClose ==
  \A c \in Client : c \in Open /\ (c \notin session \/ c \in gone) ~> c \notin Open
=============================================================================
