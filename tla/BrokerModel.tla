----------------------------- MODULE BrokerModel -----------------------------
(***************************************************************************)
(* mqttbroker without a mapping: MqttModel, the Mqtt objects that report   *)
(* to it, the requests of the Web Interface under /api/mqtt, and the pages *)
(* that follow its event stream.                                           *)
(*                                                                         *)
(* The framework's broker is external: it keeps subscriptions and retained *)
(* messages, and calls onConnect and onDisconnected of a connection.  It   *)
(* may refuse a connection, whose Mqtt object then has a client id and     *)
(* ends without onConnect.  For the client ids in Overlapping it may let a *)
(* second connection use an id before the first one has ended.             *)
(***************************************************************************)
EXTENDS Dashboard, FiniteSets

CONSTANTS
  Clients,       \* client ids
  Overlapping,   \* those that two connections may use at a time
  Connections,   \* accepted connections, each with its Mqtt object
  Topics,
  Pages,         \* browsers
  MaxPending,    \* bound: removals whose timer runs, in one page
  NoClient, NoConnection

ASSUME BrokerAssumption ==
  /\ Overlapping \subseteq Clients
  /\ NoClient \notin Clients
  /\ NoConnection \notin Connections
  /\ MaxPending \in Nat \ {0}

VARIABLES
  clientId,           \* the client id of each connection's Mqtt
  sessions,           \* connections the broker has not refused
  clean,              \* connections with a clean session
  closing,            \* connections the Web Interface closed
  subscriptions,      \* the broker's subscription tree
  retained,           \* topics in the broker's retain tree
  modelMap,           \* MqttModel: the Mqtt object of a client id
  eventReceiverList,  \* MqttModel: pages on the event stream
  page,               \* what each page shows
  evicted             \* history: clients whose entry a connection that the
                      \* broker refused took along, since they connected

broker == <<clientId, sessions, clean, subscriptions, retained>>
vars == <<broker, closing, modelMap, eventReceiverList, page, evicted>>

Subscription == Clients \X Topics
Of(c) == {s \in Subscription : s[1] = c}
Nameless == {k \in Connections : clientId[k] = NoClient}

-----------------------------------------------------------------------------
(* MqttModel                                                               *)

\* Every page on the stream handles the event.
SendEvent(event, thing) ==
  page' = [d \in Pages |-> IF d \in eventReceiverList
                           THEN Handle(page[d], event, thing) ELSE page[d]]

\* bound
RoomForRemoval == \A d \in eventReceiverList : Len(page[d].pending) < MaxPending

\* emplace keeps the entry there is.
ConnectClient(k, c) ==
  /\ modelMap' = [modelMap EXCEPT ![c] = IF @ = NoConnection THEN k ELSE @]
  /\ SendEvent("client-connected", ClientEntry(c))

Erased_Mutant1(c) == modelMap
Erased_Mutant2(c) == [x \in Clients |-> NoConnection]
Erased(c) == [modelMap EXCEPT ![c] = NoConnection]

DisconnectClient_Mutant1(c) == modelMap' = Erased(c) /\ UNCHANGED page
DisconnectClient(c) ==
  IF modelMap[c] # NoConnection
  THEN SendEvent("client-disconnected", ClientEntry(c)) /\ modelMap' = Erased(c)
  ELSE UNCHANGED <<page, modelMap>>

-----------------------------------------------------------------------------
(* The callbacks of Mqtt.                                                  *)

\* A clean session starts without the subscriptions the broker kept.
OnConnect(k, c, isClean) ==
  /\ k \in Nameless
  /\ c \in Overlapping \/ \A other \in sessions : clientId[other] # c
  /\ clientId' = [clientId EXCEPT ![k] = c]
  /\ sessions' = sessions \cup {k}
  /\ clean' = IF isClean THEN clean \cup {k} ELSE clean
  /\ subscriptions' = IF isClean THEN subscriptions \ Of(c) ELSE subscriptions
  /\ ConnectClient(k, c)
  /\ evicted' = evicted \ {c}
  /\ UNCHANGED <<retained, closing, eventReceiverList>>

\* The CONNECT of a connection gives its Mqtt a client id, used or not, and
\* the broker refuses it: no callback, until the connection has ended.
Refuse(k, c) ==
  /\ k \in Nameless
  /\ clientId' = [clientId EXCEPT ![k] = c]
  /\ UNCHANGED <<sessions, clean, subscriptions, retained>>
  /\ UNCHANGED <<closing, modelMap, eventReceiverList, page, evicted>>

\* Of every connection, a refused one included.  The broker drops the
\* subscriptions of a clean session, without a callback.
OnDisconnected(k) ==
  /\ k \notin Nameless
  /\ RoomForRemoval
  /\ subscriptions' = IF k \in clean THEN subscriptions \ Of(clientId[k]) ELSE subscriptions
  /\ DisconnectClient(clientId[k])
  /\ evicted' = IF k \in sessions \/ modelMap[clientId[k]] = NoConnection
                THEN evicted ELSE evicted \cup {clientId[k]}
  /\ clientId' = [clientId EXCEPT ![k] = NoClient]
  /\ sessions' = sessions \ {k}
  /\ clean' = clean \ {k}
  /\ closing' = closing \ {k}
  /\ UNCHANGED <<retained, eventReceiverList>>

OnSubscribe(k, t) ==
  /\ subscriptions' = subscriptions \cup {<<clientId[k], t>>}
  /\ SendEvent("client-subscribed", SubscriptionEntry(clientId[k], t))
  /\ UNCHANGED <<clientId, sessions, clean, retained>>
  /\ UNCHANGED <<closing, modelMap, eventReceiverList, evicted>>

OnUnsubscribe(k, t) ==
  /\ RoomForRemoval
  /\ subscriptions' = subscriptions \ {<<clientId[k], t>>}
  /\ SendEvent("client-unsubscribed", SubscriptionEntry(clientId[k], t))
  /\ UNCHANGED <<clientId, sessions, clean, retained>>
  /\ UNCHANGED <<closing, modelMap, eventReceiverList, evicted>>

\* onPublish of a retained message with and without content, and
\* /api/mqtt/release.  Other messages are not reported.
Retain(t) ==
  /\ retained' = retained \cup {t}
  /\ SendEvent("retained-message-set", RetainedEntry(t))
  /\ UNCHANGED <<clientId, sessions, clean, subscriptions>>
  /\ UNCHANGED <<closing, modelMap, eventReceiverList, evicted>>

Release(t) ==
  /\ RoomForRemoval
  /\ retained' = retained \ {t}
  /\ SendEvent("retained-message-deleted", RetainedEntry(t))
  /\ UNCHANGED <<clientId, sessions, clean, subscriptions>>
  /\ UNCHANGED <<closing, modelMap, eventReceiverList, evicted>>

-----------------------------------------------------------------------------
(* Requests of the Web Interface about a client: 404 when getMqtt finds    *)
(* none.                                                                   *)

AdminSubscribe(c, t) == modelMap[c] # NoConnection /\ OnSubscribe(modelMap[c], t)
AdminUnsubscribe(c, t) == modelMap[c] # NoConnection /\ OnUnsubscribe(modelMap[c], t)

AdminDisconnect(c) ==
  /\ modelMap[c] # NoConnection
  /\ closing' = closing \cup {modelMap[c]}
  /\ UNCHANGED <<broker, modelMap, eventReceiverList, page, evicted>>

-----------------------------------------------------------------------------
(* Pages.                                                                  *)

\* addEventReceiver replays clients, subscriptions and retained messages to a
\* page that starts empty.
Replayed ==
  {ClientEntry(c) : c \in {x \in Clients : modelMap[x] # NoConnection}}
    \cup (UNION {WithOwner(SubscriptionEntry(s[1], s[2])) : s \in subscriptions})
    \cup {RetainedEntry(t) : t \in retained}

AddEventReceiver(d) ==
  /\ d \notin eventReceiverList
  /\ eventReceiverList' = eventReceiverList \cup {d}
  /\ page' = [page EXCEPT ![d] = [shown |-> Replayed, pending |-> <<>>]]
  /\ UNCHANGED <<broker, closing, modelMap, evicted>>

\* The stream's onDisconnected.  The page clears itself; it reconnects after a
\* second at the earliest, when its timers have expired.
RemoveEventReceiver(d) ==
  /\ d \in eventReceiverList
  /\ eventReceiverList' = eventReceiverList \ {d}
  /\ page' = [page EXCEPT ![d] = EmptyPage]
  /\ UNCHANGED <<broker, closing, modelMap, evicted>>

RemovalExpires(d) ==
  /\ page[d].pending # <<>>
  /\ page' = [page EXCEPT ![d] = RemovalExpired(@)]
  /\ UNCHANGED <<broker, closing, modelMap, eventReceiverList, evicted>>

-----------------------------------------------------------------------------
\* The session store may hold subscriptions of an earlier run.
Init ==
  /\ clientId = [k \in Connections |-> NoClient]
  /\ sessions = {}
  /\ clean = {}
  /\ closing = {}
  /\ subscriptions \in SUBSET Subscription
  /\ retained = {}
  /\ modelMap = [c \in Clients |-> NoConnection]
  /\ eventReceiverList = {}
  /\ page = [d \in Pages |-> EmptyPage]
  /\ evicted = {}

Next ==
  \/ \E k \in Connections, c \in Clients, isClean \in BOOLEAN : OnConnect(k, c, isClean)
  \/ \E k \in Connections, c \in Clients : Refuse(k, c)
  \/ \E k \in Connections : OnDisconnected(k)
  \/ \E k \in sessions, t \in Topics : OnSubscribe(k, t) \/ OnUnsubscribe(k, t)
  \/ \E t \in Topics : Retain(t) \/ Release(t)
  \/ \E c \in Clients, t \in Topics : AdminSubscribe(c, t) \/ AdminUnsubscribe(c, t)
  \/ \E c \in Clients : AdminDisconnect(c)
  \/ \E d \in Pages : \/ AddEventReceiver(d)
                      \/ RemoveEventReceiver(d)
                      \/ RemovalExpires(d)

Spec == Init /\ [][Next]_vars

-----------------------------------------------------------------------------
(* Properties.                                                             *)

TypeOK ==
  /\ clientId \in [Connections -> Clients \cup {NoClient}]
  /\ sessions \subseteq Connections \ Nameless
  /\ clean \subseteq sessions
  /\ closing \subseteq sessions
  /\ subscriptions \subseteq Subscription
  /\ retained \subseteq Topics
  /\ modelMap \in [Clients -> Connections \cup {NoConnection}]
  /\ eventReceiverList \subseteq Pages
  /\ evicted \subseteq Clients

\* The requests of the Web Interface and addEventReceiver call through the raw
\* Mqtt pointers of modelMap: each is a connection of that client id that has
\* not ended and was not refused, whether or not connections overlap.
ModelIsLive ==
  \A c \in Clients : modelMap[c] # NoConnection =>
    modelMap[c] \in sessions /\ clientId[modelMap[c]] = c

\* Where the framework ends the old connection of a client id first, a
\* connected client has its entry, and no request about it is answered with
\* 404 - except from the end of a connection that the broker refused, and that
\* had named the client's id, until the client connects anew: onDisconnected
\* does not ask whose entry it erases.
ActiveIsListed ==
  \A k \in sessions :
    clientId[k] \notin Overlapping \cup evicted => modelMap[clientId[k]] = k

AtRest(d) == d \in eventReceiverList /\ page[d].pending = <<>>

\* A page whose timers have expired shows no client that is neither connected
\* nor has a session with subscriptions, but one whose entry a refused
\* connection took along: nothing reports the end of that one.
NoGhostClient ==
  \A d \in Pages : AtRest(d) =>
    \A c \in Clients \ (Overlapping \cup evicted) :
      ClientEntry(c) \in page[d].shown =>
        (\E k \in sessions : clientId[k] = c) \/ subscriptions \cap Of(c) # {}
=============================================================================
