-------------------------- MODULE MqttBrokerProofs ---------------------------
(***************************************************************************)
(* Theorems about mqttbroker, for all values of the constants: its         *)
(* MqttModel and the pages that show it (BrokerModel), the queue of        *)
(* delayed publishes (DelayedQueue), which mqttintegrator has, too, and    *)
(* the mapper that translates what is published (SelfMapping).             *)
(*                                                                         *)
(* Type correctness, the liveness of MqttModel's pointers and the          *)
(* completeness of its entries are inductive together: an entry that is    *)
(* there when a client connects must be the connection of an overlapping   *)
(* client id, and a connection that ends finds its own entry or none,      *)
(* unless the broker had refused it.  That a page at rest shows no ghost   *)
(* follows from GhostPends: a client that is shown and gone has its        *)
(* removal pending, or no entry that could have been reported.             *)
(*                                                                         *)
(* The mapper computes with loops.  Each loop is a recursive function; its *)
(* equations are proved to have a solution (Recursion), and what they      *)
(* yield by induction over its index: that the search for a topic level    *)
(* gives the first one that fits (FindsTheFirst), and that the rules of a  *)
(* level do not disturb each other (EachAppliesAlone).  That consequences  *)
(* come depth first follows from AgendaLeft: what the active calls have    *)
(* still to publish, the topmost first, is what the agenda has left.       *)
(***************************************************************************)
EXTENDS BrokerModel, DelayedQueue, SelfMapping, SequenceTheorems, WellFoundedInduction, TLAPS

Inv == TypeOK /\ ModelIsLive /\ ActiveIsListed

-----------------------------------------------------------------------------
\* The three hold initially, whatever subscriptions the session store held.
LEMMA InitInv == Init => Inv
  BY BrokerAssumption DEF Init, Inv, TypeOK, ModelIsLive, ActiveIsListed, Nameless, Subscription

\* onConnect: the entry is new unless the client id overlaps.
LEMMA ConnectInv ==
  ASSUME Inv, NEW k \in Connections, NEW c \in Clients, NEW isClean \in BOOLEAN,
         OnConnect(k, c, isClean)
  PROVE  Inv'
<1>. USE BrokerAssumption DEF Inv, OnConnect, ConnectClient
<1>1. TypeOK'
  BY DEF TypeOK, Nameless, Subscription
<1>2. ModelIsLive'
  BY DEF TypeOK, Nameless, ModelIsLive
<1>3. ActiveIsListed'
  <2>1. c \notin Overlapping => modelMap[c] = NoConnection
    BY DEF TypeOK, Nameless, ModelIsLive
  <2>. QED BY <2>1 DEF TypeOK, Nameless, ModelIsLive, ActiveIsListed
<1>. QED BY <1>1, <1>2, <1>3

\* A refused connection is of no client before its end.
LEMMA RefuseInv ==
  ASSUME Inv, NEW k \in Connections, NEW c \in Clients, Refuse(k, c)
  PROVE  Inv'
<1>. USE BrokerAssumption DEF Inv, Refuse
<1>1. TypeOK' /\ k \notin sessions
  BY DEF TypeOK, Nameless
<1>2. \A j \in sessions : clientId'[j] = clientId[j] /\ j \in Connections
  BY <1>1 DEF TypeOK
<1>3. ModelIsLive'
  BY <1>2 DEF TypeOK, ModelIsLive
<1>4. ActiveIsListed'
  BY <1>2 DEF TypeOK, ActiveIsListed
<1>. QED BY <1>1, <1>3, <1>4

\* onDisconnected: the entry goes with the connection it points at, or with a
\* refused one of its client id.
LEMMA DisconnectInv ==
  ASSUME Inv, NEW k \in Connections, OnDisconnected(k)
  PROVE  Inv'
<1>. USE BrokerAssumption DEF Inv, OnDisconnected
<1>. DEFINE c == clientId[k]
<1>1. c \in Clients
  BY DEF TypeOK, Nameless
<1>2. modelMap' = [modelMap EXCEPT ![c] = NoConnection]
  <2>1. CASE modelMap[c] # NoConnection
    BY <2>1 DEF DisconnectClient, Erased
  <2>2. CASE modelMap[c] = NoConnection
    BY <1>1, <2>2 DEF DisconnectClient, TypeOK
  <2>. QED BY <2>1, <2>2
<1>3. TypeOK'
  BY <1>1, <1>2 DEF TypeOK, Nameless, Subscription
<1>4. ModelIsLive'
  BY <1>1, <1>2 DEF TypeOK, ModelIsLive
<1>5. ActiveIsListed'
  <2>. SUFFICES ASSUME NEW j \in sessions', clientId'[j] \notin Overlapping \cup evicted'
                PROVE  modelMap'[clientId'[j]] = j
    BY DEF ActiveIsListed
  <2>1. /\ j \in sessions /\ j # k /\ j \in Connections /\ clientId'[j] = clientId[j]
        /\ clientId[j] \in Clients /\ clientId[j] \notin Overlapping \cup evicted
    BY DEF TypeOK, Nameless
  <2>2. modelMap[clientId[j]] = j
    BY <2>1 DEF ActiveIsListed
  <2>3. CASE clientId[j] # c
    BY <1>2, <2>1, <2>2, <2>3 DEF TypeOK
  <2>4. CASE clientId[j] = c
    <3>1. k \notin sessions
      BY <2>1, <2>2, <2>4 DEF ActiveIsListed
    <3>2. modelMap[c] # NoConnection
      BY <2>1, <2>2, <2>4
    <3>. QED BY <2>1, <2>4, <3>1, <3>2
  <2>. QED BY <2>3, <2>4
<1>. QED BY <1>3, <1>4, <1>5

\* subscribe and unsubscribe, by the client or by the Web Interface, which
\* reach an open connection.
LEMMA SubscriptionsInv ==
  ASSUME Inv, NEW k \in sessions, NEW t \in Topics, OnSubscribe(k, t) \/ OnUnsubscribe(k, t)
  PROVE  Inv'
<1>1. subscriptions' \subseteq Subscription
  BY DEF Inv, TypeOK, Nameless, Subscription, OnSubscribe, OnUnsubscribe
<1>. QED
  BY <1>1 DEF Inv, TypeOK, ModelIsLive, ActiveIsListed, Nameless, OnSubscribe, OnUnsubscribe

\* Every entry of the client map is a connection that was not refused.
LEMMA EntryIsOpen ==
  ASSUME Inv, NEW c \in Clients, modelMap[c] # NoConnection
  PROVE  modelMap[c] \in sessions
  BY BrokerAssumption DEF Inv, TypeOK, ModelIsLive, Nameless

\* Every step keeps it.
LEMMA NextInv == Inv /\ [Next]_vars => Inv'
<1>. SUFFICES ASSUME Inv, [Next]_vars PROVE Inv'
  OBVIOUS
<1>1. ASSUME NEW k \in Connections, NEW c \in Clients, NEW isClean \in BOOLEAN,
             OnConnect(k, c, isClean)
      PROVE  Inv'
  BY <1>1, ConnectInv
<1>2. ASSUME NEW k \in Connections, OnDisconnected(k)
      PROVE  Inv'
  BY <1>2, DisconnectInv
<1>3. ASSUME NEW k \in sessions, NEW t \in Topics, OnSubscribe(k, t) \/ OnUnsubscribe(k, t)
      PROVE  Inv'
  BY <1>3, SubscriptionsInv
<1>4. ASSUME NEW t \in Topics, Retain(t) \/ Release(t)
      PROVE  Inv'
  BY <1>4 DEF Inv, TypeOK, ModelIsLive, ActiveIsListed, Nameless, Retain, Release
<1>5. ASSUME NEW c \in Clients, NEW t \in Topics, AdminSubscribe(c, t) \/ AdminUnsubscribe(c, t)
      PROVE  Inv'
  BY <1>5, EntryIsOpen, SubscriptionsInv DEF AdminSubscribe, AdminUnsubscribe
<1>6. ASSUME NEW c \in Clients, AdminDisconnect(c)
      PROVE  Inv'
  BY <1>6, EntryIsOpen
  DEF AdminDisconnect, Inv, TypeOK, ModelIsLive, ActiveIsListed, Nameless, broker
<1>7. ASSUME NEW d \in Pages, AddEventReceiver(d) \/ RemoveEventReceiver(d) \/ RemovalExpires(d)
      PROVE  Inv'
  BY <1>7 DEF AddEventReceiver, RemoveEventReceiver, RemovalExpires, broker,
              Inv, TypeOK, ModelIsLive, ActiveIsListed, Nameless
<1>8. CASE UNCHANGED vars
  BY <1>8 DEF vars, broker, Inv, TypeOK, ModelIsLive, ActiveIsListed, Nameless
<1>9. ASSUME NEW k \in Connections, NEW c \in Clients, Refuse(k, c)
      PROVE  Inv'
  BY <1>9, RefuseInv
<1>. QED BY <1>1, <1>2, <1>3, <1>4, <1>5, <1>6, <1>7, <1>8, <1>9 DEF Next

\* Type correctness of MqttModel and of the state it mirrors.
THEOREM TypeCorrect == Spec => []TypeOK
  BY InitInv, NextInv, PTL DEF Spec, Inv

\* No request of the Web Interface calls through a pointer to an Mqtt object
\* whose connection has ended, even where connections of one id overlap.
THEOREM EntriesAreLive == Spec => []ModelIsLive
  BY InitInv, NextInv, PTL DEF Spec, Inv

\* A connected client whose id is not used twice is found by every request,
\* unless the end of a refused connection erased its entry since it connected.
THEOREM ConnectedIsListed == Spec => []ActiveIsListed
  BY InitInv, NextInv, PTL DEF Spec, Inv

-----------------------------------------------------------------------------
(* No ghost clients on a page at rest.                                     *)

Thing == ({"client"} \X Clients) \cup ({"subscription"} \X Clients \X Topics)
           \cup ({"retained"} \X Topics)

PagesType == page \in [Pages -> [shown : SUBSET Thing, pending : Seq(Thing)]]

Known(c) == (\E k \in sessions : clientId[k] = c) \/ subscriptions \cap Of(c) # {}

Excepted == Overlapping \cup evicted

Pends(d, c) == \E i \in DOMAIN page[d].pending : page[d].pending[i] = ClientEntry(c)

GhostPends ==
  \A d \in eventReceiverList : \A c \in Clients \ Excepted :
    ClientEntry(c) \in page[d].shown => Known(c) \/ Pends(d, c)

\* What a page shows and waits for after an event.
LEMMA Handled ==
  ASSUME PagesType, NEW event, NEW thing \in Thing, NEW d \in eventReceiverList,
         eventReceiverList \subseteq Pages, SendEvent(event, thing)
  PROVE  /\ event \in Adding =>
              page'[d] = [page[d] EXCEPT !.shown = @ \cup WithOwner(thing)]
         /\ event \notin Adding =>
              page'[d] = [page[d] EXCEPT !.pending = Append(@, thing)]
  BY DEF SendEvent, Handle

\* What stands for an owner is something a page can show.
LEMMA OwnerType == ASSUME NEW thing \in Thing PROVE WithOwner(thing) \subseteq Thing
  BY DEF Thing, WithOwner, ClientEntry

\* What is sent to pages is of their type.
LEMMA SentType ==
  ASSUME PagesType, NEW event, NEW thing \in Thing, SendEvent(event, thing)
  PROVE  PagesType'
<1>. DEFINE PageType == [shown : SUBSET Thing, pending : Seq(Thing)]
<1>1. ASSUME NEW p \in PageType
      PROVE  Handle(p, event, thing) \in PageType
  <2>1. WithOwner(thing) \subseteq Thing
    BY OwnerType
  <2>2. CASE event \in Adding
    <3>1. Handle(p, event, thing) = [p EXCEPT !.shown = p.shown \cup WithOwner(thing)]
      BY <2>2 DEF Handle
    <3>. QED BY <2>1, <3>1
  <2>3. CASE event \notin Adding
    <3>1. Handle(p, event, thing) = [p EXCEPT !.pending = Append(p.pending, thing)]
      BY <2>3 DEF Handle
    <3>2. Append(p.pending, thing) \in Seq(Thing)
      OBVIOUS
    <3>. QED BY <3>1, <3>2
  <2>. QED BY <2>2, <2>3
<1>2. \A d \in Pages : page'[d] = IF d \in eventReceiverList
                                  THEN Handle(page[d], event, thing) ELSE page[d]
  BY DEF SendEvent
<1>3. page' = [d \in Pages |-> page'[d]]
  BY <1>2 DEF SendEvent
<1>4. \A d \in Pages : page'[d] \in PageType
  BY <1>1, <1>2 DEF PagesType
<1>. HIDE DEF PageType
<1>5. page' \in [Pages -> PageType]
  BY <1>3, <1>4
<1>. QED BY <1>5 DEF PagesType, PageType

\* An event only adds what it is about, and keeps what is pending.
LEMMA SentPends ==
  ASSUME PagesType, eventReceiverList \subseteq Pages,
         NEW event, NEW thing \in Thing, SendEvent(event, thing),
         NEW d \in eventReceiverList, NEW c \in Clients
  PROVE  /\ Pends(d, c) => Pends(d, c)'
         /\ ClientEntry(c) \in page'[d].shown =>
              \/ ClientEntry(c) \in page[d].shown
              \/ event \in Adding /\ ClientEntry(c) \in WithOwner(thing)
         /\ event \notin Adding /\ thing = ClientEntry(c) => Pends(d, c)'
<1>1. page[d] \in [shown : SUBSET Thing, pending : Seq(Thing)]
  BY DEF PagesType
<1>2. CASE event \in Adding
  <2>1. page'[d] = [page[d] EXCEPT !.shown = @ \cup WithOwner(thing)]
    BY <1>2, Handled
  <2>2. /\ page'[d].pending = page[d].pending
        /\ page'[d].shown = page[d].shown \cup WithOwner(thing)
    BY <1>1, <2>1
  <2>. QED BY <1>2, <2>2 DEF Pends
<1>3. CASE event \notin Adding
  <2>1. page'[d] = [page[d] EXCEPT !.pending = Append(@, thing)]
    BY <1>3, Handled
  <2>2. /\ page'[d].pending = Append(page[d].pending, thing)
        /\ page'[d].shown = page[d].shown
    BY <1>1, <2>1
  <2>. DEFINE s == page[d].pending
  <2>3. s \in Seq(Thing)
    BY <1>1
  <2>4. /\ DOMAIN Append(s, thing) = 1 .. (Len(s) + 1)
        /\ \A i \in 1 .. Len(s) : Append(s, thing)[i] = s[i]
        /\ Append(s, thing)[Len(s) + 1] = thing
        /\ DOMAIN s = 1 .. Len(s)
        /\ Len(s) \in Nat
    BY <2>3
  <2>5. page'[d].pending = Append(s, thing)
    BY <2>2
  <2>6. Pends(d, c) => Pends(d, c)'
    <3>1. ASSUME NEW i \in DOMAIN s, s[i] = ClientEntry(c)
          PROVE  i \in DOMAIN Append(s, thing) /\ Append(s, thing)[i] = ClientEntry(c)
      BY <2>4, <3>1
    <3>. HIDE DEF s
    <3>2. (\E i \in DOMAIN s : s[i] = ClientEntry(c))
            => \E i \in DOMAIN page'[d].pending : page'[d].pending[i] = ClientEntry(c)
      BY <2>5, <3>1
    <3>. QED BY <3>2 DEF Pends, s, ClientEntry
  <2>7. thing = ClientEntry(c) => Pends(d, c)'
    <3>1. Len(s) + 1 \in DOMAIN Append(s, thing)
      BY <2>4
    <3>. QED BY <2>4, <2>5, <3>1 DEF Pends, ClientEntry
  <2>. QED BY <1>3, <2>2, <2>6, <2>7
<1>. QED BY <1>2, <1>3

GInv == Inv /\ PagesType /\ GhostPends

\* An event of a known client, and one that is not an addition, add no ghost,
\* if the step leaves everybody known who was.
LEMMA SentKeeps ==
  ASSUME GInv, eventReceiverList' = eventReceiverList,
         NEW event, NEW thing \in Thing, SendEvent(event, thing),
         \A c \in Clients \ Excepted : Known(c) => Known(c)' \/ thing = ClientEntry(c),
         \A c \in evicted \ evicted' : Known(c)',
         event \in Adding =>
           \A c \in Clients : Known(c) \/ ClientEntry(c) \in WithOwner(thing) => Known(c)'
  PROVE  GhostPends'
<1>. SUFFICES ASSUME NEW d \in eventReceiverList, NEW c \in Clients \ Excepted',
                     ClientEntry(c)' \in page'[d].shown, c \notin Excepted
              PROVE  Known(c)' \/ Pends(d, c)'
  <2>1. \A c \in Clients \ Excepted' : c \in Excepted => Known(c)'
    BY DEF Excepted
  <2>. QED BY <2>1 DEF GhostPends
<1>1. eventReceiverList \subseteq Pages
  BY DEF GInv, Inv, TypeOK
<1>2. /\ Pends(d, c) => Pends(d, c)'
      /\ \/ ClientEntry(c) \in page[d].shown
         \/ event \in Adding /\ ClientEntry(c) \in WithOwner(thing)
      /\ event \notin Adding /\ thing = ClientEntry(c) => Pends(d, c)'
  <2>1. ClientEntry(c)' = ClientEntry(c)
    BY DEF ClientEntry
  <2>. QED BY <1>1, <2>1, SentPends DEF GInv
<1>3. ClientEntry(c) \in page[d].shown => Known(c) \/ Pends(d, c)
  BY DEF GInv, GhostPends
<1>. QED BY <1>2, <1>3

\* A client or a subscription is something a page can show.
LEMMA ThingTypes ==
  ASSUME NEW c \in Clients, NEW t \in Topics
  PROVE  /\ ClientEntry(c) \in Thing
         /\ SubscriptionEntry(c, t) \in Thing
         /\ RetainedEntry(t) \in Thing
  BY DEF Thing, ClientEntry, SubscriptionEntry, RetainedEntry

\* Whom an event of a kind adds, besides the thing itself.
LEMMA Owners ==
  ASSUME NEW c \in Clients, NEW other \in Clients, NEW t \in Topics
  PROVE  /\ ClientEntry(c) \in WithOwner(ClientEntry(other)) => c = other
         /\ ClientEntry(c) \in WithOwner(SubscriptionEntry(other, t)) => c = other
         /\ ClientEntry(c) \notin WithOwner(RetainedEntry(t))
  BY DEF WithOwner, ClientEntry, SubscriptionEntry, RetainedEntry

\* A client that connects is known: no ghost.
LEMMA ConnectGhosts ==
  ASSUME GInv, NEW k \in Connections, NEW c \in Clients, NEW isClean \in BOOLEAN,
         OnConnect(k, c, isClean)
  PROVE  PagesType' /\ GhostPends'
<1>1. SendEvent("client-connected", ClientEntry(c)) /\ eventReceiverList' = eventReceiverList
  BY DEF OnConnect, ConnectClient
<1>2. \E q \in Connections : q \in sessions' /\ clientId'[q] = c
  BY BrokerAssumption DEF GInv, Inv, TypeOK, Nameless, OnConnect
<1>3. \A x \in Clients : Known(x) \/ x = c => Known(x)'
  BY <1>2 DEF GInv, Inv, TypeOK, Known, Nameless, Of, Subscription, OnConnect
<1>4. PagesType'
  BY <1>1, SentType, ThingTypes DEF GInv, Thing, ClientEntry
<1>5. GhostPends'
  <2>1. \A x \in evicted \ evicted' : Known(x)'
    BY <1>3 DEF OnConnect
  <2>. QED BY <1>1, <1>3, <2>1, SentKeeps, Owners DEF GInv, Thing, ClientEntry, WithOwner
<1>. QED BY <1>4, <1>5

\* A client that goes has its removal sent to every page.
LEMMA DisconnectGhosts ==
  ASSUME GInv, NEW k \in Connections, OnDisconnected(k)
  PROVE  PagesType' /\ GhostPends'
<1>. DEFINE c == clientId[k]
<1>1. c \in Clients /\ k \in Connections /\ clientId[k] # NoClient /\ eventReceiverList' = eventReceiverList
  BY DEF OnDisconnected, GInv, Inv, TypeOK, Nameless
<1>2. \A x \in Clients : x # c /\ Known(x) => Known(x)'
  BY DEF GInv, Inv, TypeOK, Known, Nameless, Of, Subscription, OnDisconnected
<1>3. CASE modelMap[c] # NoConnection
  <2>1. SendEvent("client-disconnected", ClientEntry(c))
    BY <1>3 DEF OnDisconnected, DisconnectClient
  <2>2. "client-disconnected" \notin Adding
    BY DEF Adding
  <2>3. ClientEntry(c) \in Thing
    BY <1>1 DEF Thing, ClientEntry
  <2>. HIDE DEF c
  <2>4. PagesType'
    BY <2>1, <2>3, SentType DEF GInv
  <2>5. \A x \in Clients \ Excepted : Known(x) => Known(x)' \/ ClientEntry(c) = ClientEntry(x)
    BY <1>2
  <2>6. GhostPends'
    <3>1. \A x \in evicted \ evicted' : Known(x)'
      BY DEF OnDisconnected
    <3>. QED BY <1>1, <2>1, <2>2, <2>3, <2>5, <3>1, SentKeeps
  <2>. QED BY <2>4, <2>6
<1>4. CASE modelMap[c] = NoConnection
  <2>1. k \in sessions => c \in Excepted
    BY <1>1, <1>4, BrokerAssumption DEF GInv, Inv, ActiveIsListed, Excepted
  <2>2. k \notin sessions => \A x \in Clients : Known(x) => Known(x)'
    BY DEF GInv, Inv, TypeOK, Known, Nameless, Of, Subscription, OnDisconnected
  <2>3. UNCHANGED page /\ Excepted' = Excepted
    BY <1>4 DEF OnDisconnected, DisconnectClient, Excepted
  <2>4. \A x \in Clients \ Excepted : Known(x) => Known(x)'
    BY <1>2, <2>1, <2>2
  <2>. QED BY <1>1, <2>3, <2>4 DEF GInv, PagesType, GhostPends, Pends, ClientEntry
<1>. QED BY <1>3, <1>4

\* A subscription and its end show a client that is known.
LEMMA SubscriptionGhosts ==
  ASSUME GInv, NEW k \in sessions, NEW t \in Topics, OnSubscribe(k, t) \/ OnUnsubscribe(k, t)
  PROVE  PagesType' /\ GhostPends'
<1>. DEFINE c == clientId[k]
            thing == SubscriptionEntry(c, t)
<1>1. c \in Clients
  BY DEF GInv, Inv, TypeOK, Nameless
<1>2. thing \in Thing
  BY <1>1 DEF Thing, SubscriptionEntry
<1>3. eventReceiverList' = eventReceiverList /\ evicted' = evicted
  BY DEF OnSubscribe, OnUnsubscribe
<1>4. \A x \in Clients : Known(x) \/ x = c => Known(x)'
  BY <1>1 DEF GInv, Inv, TypeOK, Known, Nameless, Of, Subscription, OnSubscribe, OnUnsubscribe
<1>5. \A x \in Clients : ClientEntry(x) \in WithOwner(thing) => x = c
  BY <1>1, Owners
<1>6. PICK event : SendEvent(event, thing)
  BY DEF OnSubscribe, OnUnsubscribe
<1>. HIDE DEF thing
<1>. QED BY <1>2, <1>3, <1>4, <1>5, <1>6, SentType, SentKeeps DEF GInv

\* Retained messages belong to no client.
LEMMA RetainGhosts ==
  ASSUME GInv, NEW t \in Topics, Retain(t) \/ Release(t)
  PROVE  PagesType' /\ GhostPends'
<1>. DEFINE thing == RetainedEntry(t)
<1>1. thing \in Thing
  BY DEF Thing, RetainedEntry
<1>2. eventReceiverList' = eventReceiverList /\ evicted' = evicted
  BY DEF Retain, Release
<1>3. \A x \in Clients : Known(x) => Known(x)'
  BY DEF Known, Nameless, Of, Subscription, Retain, Release
<1>4. \A x \in Clients : ClientEntry(x) \notin WithOwner(thing)
  BY Owners
<1>5. PICK event : SendEvent(event, thing)
  BY DEF Retain, Release
<1>. HIDE DEF thing
<1>. QED BY <1>1, <1>2, <1>3, <1>4, <1>5, SentType, SentKeeps DEF GInv

\* The replay of a new page is of the type of the page.
LEMMA ReplayedType == ASSUME TypeOK PROVE Replayed \subseteq Thing
  BY DEF Replayed, TypeOK, Subscription, Thing, WithOwner,
         ClientEntry, SubscriptionEntry, RetainedEntry

\* The replay shows known clients only.
LEMMA ReplayedKnown ==
  ASSUME Inv, NEW c \in Clients, ClientEntry(c) \in Replayed
  PROVE  Known(c)
<1>1. CASE modelMap[c] # NoConnection
  BY <1>1, EntryIsOpen DEF Inv, ModelIsLive, Known
<1>2. CASE \E s \in subscriptions : s[1] = c
  BY <1>2 DEF Inv, TypeOK, Known, Of
<1>. QED BY <1>1, <1>2
  DEF Replayed, Inv, TypeOK, Subscription, WithOwner, ClientEntry, SubscriptionEntry, RetainedEntry

\* A page opens, is closed or handles what was sent to it.
LEMMA PageGhosts ==
  ASSUME GInv, NEW d \in Pages, AddEventReceiver(d) \/ RemoveEventReceiver(d)
  PROVE  PagesType' /\ GhostPends'
<1>0. Excepted' = Excepted
  BY DEF AddEventReceiver, RemoveEventReceiver, Excepted
<1>1. \A c \in Clients : Known(c)' = Known(c)
  BY DEF AddEventReceiver, RemoveEventReceiver, broker, Known, Nameless, Of, Subscription
<1>2. ASSUME NEW shown \in SUBSET Thing, page' = [page EXCEPT ![d] = [shown |-> shown, pending |-> <<>>]]
      PROVE  PagesType'
  BY <1>2 DEF GInv, PagesType
<1>3. CASE AddEventReceiver(d)
  <2>1. page' = [page EXCEPT ![d] = [shown |-> Replayed, pending |-> <<>>]]
    BY <1>3 DEF AddEventReceiver
  <2>2. PagesType'
    BY <1>2, <2>1, ReplayedType DEF GInv, Inv
  <2>3. page'[d].shown = Replayed /\ \A x \in Pages \ {d} : page'[x] = page[x]
    BY <2>1 DEF GInv, PagesType
  <2>4. ASSUME NEW x \in eventReceiverList', NEW c \in Clients \ Excepted,
               ClientEntry(c)' \in page'[x].shown
        PROVE  Known(c)' \/ Pends(x, c)'
    <3>1. CASE x = d
      BY <1>1, <2>3, <2>4, <3>1, ReplayedKnown DEF GInv, ClientEntry
    <3>2. CASE x # d
      <4>1. x \in eventReceiverList /\ x \in Pages
        BY <1>3, <3>2 DEF AddEventReceiver, GInv, Inv, TypeOK
      <4>. QED BY <1>1, <2>3, <2>4, <3>2, <4>1 DEF GInv, GhostPends, Pends, ClientEntry
    <3>. QED BY <3>1, <3>2
  <2>. QED BY <1>0, <2>2, <2>4 DEF GhostPends
<1>4. CASE RemoveEventReceiver(d)
  <2>1. page' = [page EXCEPT ![d] = [shown |-> {}, pending |-> <<>>]]
    BY <1>4 DEF RemoveEventReceiver, EmptyPage
  <2>2. PagesType'
    <3>1. {} \in SUBSET Thing
      OBVIOUS
    <3>. QED BY <1>2, <2>1, <3>1
  <2>3. \A x \in eventReceiverList' : x \in eventReceiverList /\ page'[x] = page[x]
    BY <1>4, <2>1 DEF RemoveEventReceiver, GInv, Inv, TypeOK, PagesType
  <2>. QED BY <1>0, <1>1, <2>2, <2>3 DEF GInv, GhostPends, Pends, ClientEntry
<1>. QED BY <1>3, <1>4

\* The timer removes the client whose removal was pending first.
LEMMA ExpiryGhosts ==
  ASSUME GInv, NEW d \in Pages, RemovalExpires(d)
  PROVE  PagesType' /\ GhostPends'
<1>. DEFINE s == page[d].pending
            shown == Without(page[d].shown, Head(s))
<1>1. page[d] \in [shown : SUBSET Thing, pending : Seq(Thing)]
  BY DEF GInv, PagesType
<1>2. /\ s \in Seq(Thing) /\ s # <<>>
      /\ page' = [page EXCEPT ![d] = [shown |-> shown, pending |-> Tail(s)]]
      /\ UNCHANGED <<clientId, sessions, subscriptions, eventReceiverList, evicted>>
  BY <1>1 DEF RemovalExpires, RemovalExpired, broker
<1>3. shown \in SUBSET Thing
  BY <1>1 DEF Without
<1>4. /\ page'[d].shown = shown /\ page'[d].pending = Tail(s)
      /\ \A x \in Pages \ {d} : page'[x] = page[x]
  BY <1>2 DEF GInv, PagesType
<1>5. PagesType'
  <2>. HIDE DEF shown
  <2>. QED BY <1>2, <1>3 DEF GInv, PagesType
<1>6. /\ Len(s) \in Nat \ {0} /\ DOMAIN s = 1 .. Len(s) /\ Head(s) = s[1]
      /\ DOMAIN Tail(s) = 1 .. (Len(s) - 1)
      /\ \A i \in 1 .. (Len(s) - 1) : Tail(s)[i] = s[i + 1]
  BY <1>2
<1>7. ASSUME NEW x \in eventReceiverList, NEW c \in Clients \ Excepted,
             ClientEntry(c)' \in page'[x].shown
      PROVE  Known(c)' \/ Pends(x, c)'
  <2>1. Known(c)' = Known(c) /\ ClientEntry(c)' = ClientEntry(c) /\ x \in Pages
    BY <1>2 DEF Known, Nameless, Of, Subscription, ClientEntry, GInv, Inv, TypeOK
  <2>2. CASE x = d
    <3>1. ClientEntry(c) \in page[d].shown /\ ClientEntry(c) # s[1]
      BY <1>4, <1>6, <1>7, <2>1, <2>2 DEF Without
    <3>2. CASE ~ Known(c)
      <4>1. PICK i \in DOMAIN s : s[i] = ClientEntry(c)
        BY <2>2, <3>1, <3>2 DEF GInv, GhostPends, Pends
      <4>2. i # 1 /\ i \in 1 .. Len(s)
        BY <1>6, <3>1, <4>1
      <4>3. i - 1 \in DOMAIN Tail(s) /\ Tail(s)[i - 1] = ClientEntry(c)
        <5>1. i - 1 \in 1 .. (Len(s) - 1) /\ (i - 1) + 1 = i
          BY <1>6, <4>2
        <5>. QED BY <1>6, <4>1, <5>1
      <4>. HIDE DEF s
      <4>. QED BY <1>4, <2>1, <2>2, <4>3 DEF Pends
    <3>. QED BY <2>1, <3>2
  <2>3. CASE x # d
    BY <1>4, <1>7, <2>1, <2>3 DEF GInv, GhostPends, Pends
  <2>. QED BY <2>2, <2>3
<1>8. GhostPends'
  <2>. HIDE DEF s, shown
  <2>. QED BY <1>2, <1>7 DEF GhostPends, Excepted
<1>. QED BY <1>5, <1>8

\* Every step keeps it.
LEMMA NextGhosts == GInv /\ [Next]_vars => GInv'
<1>. SUFFICES ASSUME GInv, [Next]_vars PROVE PagesType' /\ GhostPends'
  BY NextInv DEF GInv
<1>1. ASSUME NEW k \in Connections, NEW c \in Clients, NEW isClean \in BOOLEAN,
             OnConnect(k, c, isClean)
      PROVE  PagesType' /\ GhostPends'
  BY <1>1, ConnectGhosts
<1>2. ASSUME NEW k \in Connections, OnDisconnected(k)
      PROVE  PagesType' /\ GhostPends'
  BY <1>2, DisconnectGhosts
<1>3. ASSUME NEW k \in sessions, NEW t \in Topics, OnSubscribe(k, t) \/ OnUnsubscribe(k, t)
      PROVE  PagesType' /\ GhostPends'
  BY <1>3, SubscriptionGhosts
<1>4. ASSUME NEW t \in Topics, Retain(t) \/ Release(t)
      PROVE  PagesType' /\ GhostPends'
  BY <1>4, RetainGhosts
<1>5. ASSUME NEW c \in Clients, NEW t \in Topics, AdminSubscribe(c, t) \/ AdminUnsubscribe(c, t)
      PROVE  PagesType' /\ GhostPends'
  BY <1>5, EntryIsOpen, SubscriptionGhosts DEF AdminSubscribe, AdminUnsubscribe, GInv
<1>6. ASSUME NEW d \in Pages, AddEventReceiver(d) \/ RemoveEventReceiver(d)
      PROVE  PagesType' /\ GhostPends'
  BY <1>6, PageGhosts
<1>7. ASSUME NEW d \in Pages, RemovalExpires(d)
      PROVE  PagesType' /\ GhostPends'
  BY <1>7, ExpiryGhosts
<1>8. CASE UNCHANGED vars \/ \E c \in Clients : AdminDisconnect(c)
  <2>1. UNCHANGED <<clientId, sessions, subscriptions, eventReceiverList, page, evicted>>
    BY <1>8 DEF AdminDisconnect, vars, broker
  <2>2. \A c \in Clients : Known(c)' = Known(c)
    BY <2>1 DEF Known, Nameless, Of, Subscription
  <2>. QED BY <2>1, <2>2 DEF GInv, PagesType, GhostPends, Pends, ClientEntry, Excepted
<1>9. ASSUME NEW k \in Connections, NEW c \in Clients, Refuse(k, c)
      PROVE  PagesType' /\ GhostPends'
  <2>1. \A x \in Clients : Known(x) => Known(x)'
    <3>1. \A j \in sessions : clientId'[j] = clientId[j]
      BY <1>9 DEF Refuse, GInv, Inv, TypeOK, Nameless
    <3>. QED BY <1>9, <3>1 DEF Refuse, Known, Of, Subscription
  <2>. QED BY <1>9, <2>1 DEF Refuse, GInv, PagesType, GhostPends, Pends, ClientEntry, Excepted
<1>. QED BY <1>1, <1>2, <1>3, <1>4, <1>5, <1>6, <1>7, <1>8, <1>9 DEF Next

\* No page is open initially.
LEMMA InitGhosts == Init => GInv
  BY InitInv DEF Init, GInv, PagesType, GhostPends, EmptyPage

\* A page whose timers have expired shows no client that is gone, however the
\* events of its sessions interleaved with the timers, unless the end of a
\* refused connection erased the client's entry.
THEOREM NoGhosts == Spec => []NoGhostClient
<1>1. GInv => NoGhostClient
  <2>. SUFFICES ASSUME GInv, NEW d \in Pages, AtRest(d), NEW c \in Clients \ Excepted,
                       ClientEntry(c) \in page[d].shown
                PROVE  Known(c)
    BY DEF NoGhostClient, Known, Excepted
  <2>1. ~ Pends(d, c)
    BY DEF AtRest, Pends
  <2>. QED BY <2>1 DEF GInv, GhostPends, AtRest
<1>. QED BY <1>1, InitGhosts, NextGhosts, PTL DEF Spec

-----------------------------------------------------------------------------
(* The queue of delayed publishes, for any delays, early timers and bounds. *)
(* QueueInv adds to the checked invariants what makes them inductive:      *)
(* sequence numbers are unique and below nextSeq, a callback runs with a   *)
(* clock reading that is not in the future, and nothing that was sent      *)
(* comes after anything that waits.                                        *)


Earlier(a, b) == a.when < b.when \/ (a.when = b.when /\ a.seq < b.seq)

Numbered ==
  /\ \A e \in minHeap : e.seq < nextSeq
  /\ \A e, f \in minHeap : e.seq = f.seq => e = f
  /\ \A i \in DOMAIN sent : sent[i].seq < nextSeq

Clocked ==
  /\ loop # Idle => loop <= now
  /\ \A i \in DOMAIN sent : sent[i].when <= sent[i].at /\ sent[i].at <= now

SentFirst == \A i \in DOMAIN sent : \A e \in minHeap : Earlier(sent[i], e)

EndIsIdle == ended => loop = Idle /\ minHeap = {}

QueueInv ==
  /\ QueueTypeOK
  /\ Numbered
  /\ Clocked
  /\ SentFirst
  /\ SentInOrder
  /\ TimerGuards
  /\ EndIsIdle

-----------------------------------------------------------------------------
\* The values the invariant compares are numbers.
LEMMA Numbers ==
  ASSUME QueueTypeOK
  PROVE  /\ now \in Nat /\ nextSeq \in Nat /\ loop \in Nat /\ timer \in Nat
         /\ MaxTime \in Nat /\ MaxCount \in Nat
         /\ \A e \in minHeap : e.when \in Nat /\ e.seq \in Nat
         /\ \A i \in DOMAIN sent :
              sent[i].when \in Nat /\ sent[i].seq \in Nat /\ sent[i].at \in Nat
<1>1. \A i \in DOMAIN sent :
        sent[i] \in [when : 0 .. MaxTime, seq : 0 .. MaxCount, at : 0 .. MaxTime]
  <2>. DEFINE R == [when : 0 .. MaxTime, seq : 0 .. MaxCount, at : 0 .. MaxTime]
  <2>1. sent \in Seq(R)
    BY DEF QueueTypeOK
  <2>. HIDE DEF R
  <2>2. \A i \in DOMAIN sent : sent[i] \in R
    BY <2>1
  <2>. QED BY <2>2 DEF R
<1>. QED BY <1>1, QueueAssumption DEF QueueTypeOK, Scheduled, Idle, None

\* The queue starts empty.
LEMMA InvInit == QueueInit => QueueInv
<1>. SUFFICES ASSUME QueueInit PROVE QueueInv
  OBVIOUS
<1>. USE DEF QueueInit
<1>1. DOMAIN sent = {} /\ sent \in Seq([when : 0 .. MaxTime, seq : 0 .. MaxCount, at : 0 .. MaxTime])
  OBVIOUS
<1>2. QueueTypeOK
  <2>1. /\ now \in 0 .. MaxTime /\ nextSeq \in 0 .. MaxCount
        /\ timer \in 0 .. None /\ loop \in 0 .. Idle
    BY QueueAssumption DEF Idle, None
  <2>2. minHeap \in SUBSET Scheduled /\ popped \in BOOLEAN /\ ended \in BOOLEAN
    OBVIOUS
  <2>. QED BY <1>1, <2>1, <2>2 DEF QueueTypeOK
<1>3. Numbered /\ Clocked /\ SentFirst /\ SentInOrder
  BY <1>1 DEF Numbered, Clocked, SentFirst, SentInOrder
<1>4. TimerGuards /\ EndIsIdle
  BY DEF TimerGuards, EndIsIdle
<1>. QED BY <1>2, <1>3, <1>4 DEF QueueInv

\* Arming the timer with a non-empty heap of due times sets it for the
\* earliest publish or, when that is overdue, for now.
LEMMA Armed ==
  ASSUME NEW heap \in SUBSET Scheduled, now \in 0 .. MaxTime, ArmDelayTimer(heap)
  PROVE  /\ timer' \in 0 .. None /\ timer' # None
         /\ timer' <= now \/ \E e \in heap : IsTop(e, heap) /\ timer' = e.when
  BY QueueAssumption DEF ArmDelayTimer, None, Scheduled

\* delayPublish: the new entry is the last one of its time.
LEMMA InvDelayPublish ==
  ASSUME NEW delay \in Delays PROVE QueueInv /\ DelayPublish(delay) => QueueInv'
<1>. SUFFICES ASSUME QueueInv, DelayPublish(delay) PROVE QueueInv'
  OBVIOUS
<1>. DEFINE new == [when |-> now + delay, seq |-> nextSeq]
<1>1. /\ ~ended /\ nextSeq < MaxCount /\ now + delay <= MaxTime
      /\ minHeap' = minHeap \cup {new} /\ nextSeq' = nextSeq + 1
      /\ ArmDelayTimer(minHeap')
      /\ UNCHANGED <<now, loop, popped, sent, ended>>
  BY DEF DelayPublish, Rearm
<1>2. now \in Nat /\ delay \in Nat /\ nextSeq \in Nat /\ MaxTime \in Nat /\ MaxCount \in Nat
  BY QueueAssumption DEF QueueInv, QueueTypeOK
<1>3. new \in Scheduled /\ minHeap' \in SUBSET Scheduled
  BY <1>1, <1>2 DEF QueueInv, QueueTypeOK, Scheduled
<1>4. /\ timer' \in 0 .. None /\ timer' # None
      /\ timer' <= now \/ \E e \in minHeap' : IsTop(e, minHeap') /\ timer' = e.when
  BY <1>1, <1>3, Armed DEF QueueInv, QueueTypeOK
<1>5. QueueTypeOK'
  BY <1>1, <1>2, <1>3, <1>4 DEF QueueInv, QueueTypeOK
<1>6. Numbered'
  <2>1. \A e \in minHeap' : e.seq < nextSeq'
    BY <1>1, <1>2, Numbers DEF QueueInv, Numbered
  <2>2. \A e, f \in minHeap' : e.seq = f.seq => e = f
    BY <1>1, <1>2, Numbers DEF QueueInv, Numbered
  <2>3. \A i \in DOMAIN sent' : sent'[i].seq < nextSeq'
    BY <1>1, <1>2, Numbers DEF QueueInv, Numbered
  <2>. QED BY <2>1, <2>2, <2>3 DEF Numbered
<1>7. Clocked' /\ SentInOrder' /\ EndIsIdle'
  BY <1>1 DEF QueueInv, Clocked, SentInOrder, EndIsIdle
<1>8. \A i \in DOMAIN sent : Earlier(sent[i], new)
  BY <1>2, Numbers DEF QueueInv, Numbered, Clocked, Earlier
<1>9. SentFirst'
  BY <1>1, <1>8 DEF QueueInv, SentFirst
<1>10. TimerGuards'
  BY <1>1, <1>4 DEF TimerGuards
<1>. QED BY <1>5, <1>6, <1>7, <1>9, <1>10 DEF QueueInv

\* The timer fires: the loop begins at the time of its message.
LEMMA InvTimerFires == QueueInv /\ TimerFires => QueueInv'
<1>. SUFFICES ASSUME QueueInv, TimerFires PROVE QueueInv'
  OBVIOUS
<1>1. now # Idle /\ now <= now
  BY QueueAssumption DEF QueueInv, QueueTypeOK, Idle
<1>2. QueueTypeOK'
  <2>1. loop' \in 0 .. Idle /\ timer' \in 0 .. None
    BY QueueAssumption DEF QueueInv, QueueTypeOK, TimerFires, None, Idle
  <2>. QED BY <2>1 DEF QueueInv, QueueTypeOK, TimerFires
<1>3. ~ended
  BY DEF QueueInv, TimerFires, TimerGuards
<1>. QED
  BY <1>1, <1>2, <1>3 DEF QueueInv, TimerFires, Numbered, Clocked, SentFirst, SentInOrder,
                          TimerGuards, EndIsIdle

\* processDue takes the earliest entry.
LEMMA InvPopDue == QueueInv /\ PopDue => QueueInv'
<1>. SUFFICES ASSUME QueueInv, PopDue PROVE QueueInv'
  OBVIOUS
<1>1. PICK top \in minHeap :
        /\ IsTop(top, minHeap) /\ IsDue(top) /\ minHeap' = minHeap \ {top}
        /\ sent' = Append(sent, [when |-> top.when, seq |-> top.seq, at |-> now])
  BY DEF PopDue
<1>. DEFINE last == [when |-> top.when, seq |-> top.seq, at |-> now]
<1>2. /\ loop # Idle /\ popped' = TRUE /\ UNCHANGED <<now, nextSeq, timer, loop, ended>>
  BY DEF PopDue
<1>3. /\ sent \in Seq([when : 0 .. MaxTime, seq : 0 .. MaxCount, at : 0 .. MaxTime])
      /\ last \in [when : 0 .. MaxTime, seq : 0 .. MaxCount, at : 0 .. MaxTime]
      /\ top \in Scheduled
  BY <1>1 DEF QueueInv, QueueTypeOK, Scheduled
<1>4. /\ DOMAIN sent' = 1 .. Len(sent) + 1 /\ DOMAIN sent = 1 .. Len(sent)
      /\ sent'[Len(sent) + 1] = last
      /\ \A i \in DOMAIN sent : sent'[i] = sent[i]
      /\ Len(sent) \in Nat
  BY <1>1, <1>3
<1>5. QueueTypeOK'
  BY <1>1, <1>2, <1>3 DEF QueueInv, QueueTypeOK
<1>6. Numbered'
  BY <1>1, <1>2, <1>4 DEF QueueInv, Numbered
<1>7. top.when <= now
  BY <1>1, <1>2, <1>3, QueueAssumption DEF QueueInv, QueueTypeOK, Clocked, IsDue, Scheduled, Idle
<1>8. Clocked'
  <2>1. \A i \in DOMAIN sent' : sent'[i].when <= sent'[i].at /\ sent'[i].at <= now
    BY <1>4, <1>7, Numbers DEF QueueInv, Clocked
  <2>. QED BY <1>2, <2>1 DEF QueueInv, Clocked
<1>9. \A e \in minHeap' : Earlier(last, e)
  BY <1>1 DEF IsTop, EarlierFirst, Earlier
<1>10. SentFirst'
  BY <1>1, <1>4, <1>9 DEF QueueInv, SentFirst
<1>11. \A i \in DOMAIN sent : Earlier(sent[i], last)
  BY <1>1 DEF QueueInv, SentFirst, Earlier
<1>12. SentInOrder'
  BY <1>4, <1>11 DEF QueueInv, SentInOrder, Earlier
<1>13. TimerGuards' /\ EndIsIdle'
  BY <1>2 DEF QueueInv, TimerGuards, EndIsIdle
<1>. QED BY <1>5, <1>6, <1>8, <1>10, <1>12, <1>13 DEF QueueInv

\* The loop is over: the timer is set for the earliest entry.
LEMMA InvLoopEnds == QueueInv /\ LoopEnds => QueueInv'
<1>. SUFFICES ASSUME QueueInv, LoopEnds PROVE QueueInv'
  OBVIOUS
<1>1. /\ loop # Idle /\ loop' = Idle /\ popped' = FALSE
      /\ UNCHANGED <<now, minHeap, nextSeq, sent, ended>>
      /\ IF minHeap = {} THEN UNCHANGED timer ELSE ArmDelayTimer(minHeap)
  BY DEF LoopEnds, KeepArmed
<1>2. /\ timer' \in 0 .. None
      /\ minHeap # {} =>
           /\ timer' # None
           /\ timer' <= now \/ \E e \in minHeap : IsTop(e, minHeap) /\ timer' = e.when
  BY <1>1, Armed DEF QueueInv, QueueTypeOK
<1>3. QueueTypeOK'
  <2>1. loop' \in 0 .. Idle
    BY <1>1, QueueAssumption DEF Idle
  <2>. QED BY <1>1, <1>2, <2>1 DEF QueueInv, QueueTypeOK
<1>4. Numbered' /\ SentFirst' /\ SentInOrder' /\ Clocked' /\ EndIsIdle'
  BY <1>1 DEF QueueInv, Numbered, SentFirst, SentInOrder, Clocked, EndIsIdle
<1>5. TimerGuards'
  BY <1>1, <1>2 DEF QueueInv, TimerGuards, EndIsIdle
<1>. QED BY <1>3, <1>4, <1>5 DEF QueueInv

\* The session ends with its queue.
LEMMA InvSessionEnds == QueueInv /\ SessionEnds => QueueInv'
<1>. SUFFICES ASSUME QueueInv, SessionEnds PROVE QueueInv'
  OBVIOUS
<1>1. QueueTypeOK'
  BY QueueAssumption DEF QueueInv, QueueTypeOK, SessionEnds, CancelTimer, None
<1>. QED
  BY <1>1 DEF QueueInv, SessionEnds, CancelTimer, Numbered, Clocked, SentFirst,
              SentInOrder, TimerGuards, EndIsIdle

\* Time passes.
LEMMA InvTick == QueueInv /\ Tick => QueueInv'
<1>. SUFFICES ASSUME QueueInv, Tick PROVE QueueInv'
  OBVIOUS
<1>1. now' = now + 1 /\ UNCHANGED <<minHeap, nextSeq, timer, loop, popped, sent, ended>>
  BY DEF Tick
<1>2. QueueTypeOK'
  BY QueueAssumption DEF QueueInv, QueueTypeOK, Tick
<1>3. Clocked'
  <2>1. loop' # Idle => loop' <= now'
    BY <1>1, Numbers DEF QueueInv, Clocked
  <2>2. \A i \in DOMAIN sent' : sent'[i].when <= sent'[i].at /\ sent'[i].at <= now'
    BY <1>1, Numbers DEF QueueInv, Clocked
  <2>. QED BY <2>1, <2>2 DEF Clocked
<1>4. TimerGuards'
  BY <1>1, QueueAssumption DEF QueueInv, QueueTypeOK, TimerGuards, None
<1>. QED
  BY <1>1, <1>2, <1>3, <1>4 DEF QueueInv, Numbered, SentFirst, SentInOrder, EndIsIdle

\* Every step keeps it.
LEMMA InvNext == QueueInv /\ [QueueNext]_queueVars => QueueInv'
<1>1. QueueInv /\ UNCHANGED queueVars => QueueInv'
  BY DEF queueVars, QueueInv, QueueTypeOK, Numbered, Clocked, SentFirst, SentInOrder,
         TimerGuards, EndIsIdle, IsTop
<1>. QED BY <1>1, InvDelayPublish, InvTimerFires, InvPopDue, InvLoopEnds,
            InvSessionEnds, InvTick DEF QueueNext

\* The inductive invariant of the delayed queue holds: entries are numbered and
\* due in the future or at hand, what was sent comes before what waits.
THEOREM InvHolds == QueueSpec => []QueueInv
  BY InvInit, InvNext, PTL DEF QueueSpec

\* Type correctness for any delays, early timers and bounds.
THEOREM QueueTypeCorrect == QueueSpec => []QueueTypeOK
<1>1. QueueInv => QueueTypeOK
  BY DEF QueueInv
<1>. QED BY <1>1, InvHolds, PTL

-----------------------------------------------------------------------------
\* No publish is sent before it is due.
THEOREM SentNotEarly == QueueSpec => []NeverEarly
<1>1. QueueInv => NeverEarly
  BY DEF QueueInv, Clocked, NeverEarly
<1>. QED BY <1>1, InvHolds, PTL

\* Publishes are sent in the order of due time and arrival.
THEOREM SentSorted == QueueSpec => []SentInOrder
<1>1. QueueInv => SentInOrder
  BY DEF QueueInv
<1>. QED BY <1>1, InvHolds, PTL

\* Waiting publishes have a timer, and a session that is over has none.
THEOREM TimerIsSet == QueueSpec => []TimerGuards
<1>1. QueueInv => TimerGuards
  BY DEF QueueInv
<1>. QED BY <1>1, InvHolds, PTL

-----------------------------------------------------------------------------
Published(s) == [i \in DOMAIN s |-> [when |-> s[i].when, seq |-> s[i].seq]]

\* A function on 1 .. n with values in a set is a sequence over that set.
LEMMA FunctionIsSeq ==
  ASSUME NEW P, NEW n \in Nat, NEW f \in [1 .. n -> P]
  PROVE  f \in Seq(P) /\ Len(f) = n
  OBVIOUS

\* A sequence is a function on 1 .. Len.
LEMMA SeqIsFunction ==
  ASSUME NEW P, NEW q \in Seq(P)
  PROVE  q \in [1 .. Len(q) -> P]
  OBVIOUS

\* What Append gives, element by element.
LEMMA AppendIs ==
  ASSUME NEW P, NEW q \in Seq(P), NEW x \in P
  PROVE  /\ Append(q, x) \in [1 .. Len(q) + 1 -> P]
         /\ \A i \in 1 .. Len(q) : Append(q, x)[i] = q[i]
         /\ Append(q, x)[Len(q) + 1] = x
<1>1. Append(q, x) \in Seq(P) /\ Len(Append(q, x)) = Len(q) + 1 /\ Len(q) \in Nat
  OBVIOUS
<1>2. Append(q, x) \in [1 .. Len(Append(q, x)) -> P]
  BY <1>1, SeqIsFunction, Zenon
<1>3. \A i \in 1 .. Len(q) : Append(q, x)[i] = q[i]
  OBVIOUS
<1>4. Append(q, x)[Len(q) + 1] = x
  OBVIOUS
<1>. QED BY <1>1, <1>2, <1>3, <1>4

\* Sending one more publish appends it to what the delay line has sent.
LEMMA PublishedAppend ==
  ASSUME NEW R, NEW s \in Seq(R), NEW e \in R
  PROVE  Published(Append(s, e)) = Append(Published(s), [when |-> e.when, seq |-> e.seq])
<1>. DEFINE P == {[when |-> r.when, seq |-> r.seq] : r \in R}
            x == [when |-> e.when, seq |-> e.seq]
<1>1. DOMAIN s = 1 .. Len(s) /\ Len(s) \in Nat /\ \A i \in 1 .. Len(s) : s[i] \in R
  OBVIOUS
<1>2. Published(s) \in [1 .. Len(s) -> P] /\ x \in P
  BY <1>1 DEF Published
<1>. HIDE DEF P
<1>3. Published(s) \in Seq(P) /\ Len(Published(s)) = Len(s)
  BY <1>1, <1>2, FunctionIsSeq
<1>4. /\ DOMAIN Append(s, e) = 1 .. Len(s) + 1
      /\ \A i \in 1 .. Len(s) : Append(s, e)[i] = s[i]
      /\ Append(s, e)[Len(s) + 1] = e
  BY <1>1
<1>. HIDE DEF x
<1>5. /\ Append(Published(s), x) \in [1 .. Len(s) + 1 -> P]
      /\ \A i \in 1 .. Len(s) : Append(Published(s), x)[i] = Published(s)[i]
      /\ Append(Published(s), x)[Len(s) + 1] = x
  BY <1>2, <1>3, AppendIs
<1>6. Published(Append(s, e)) = [i \in 1 .. Len(s) + 1 |->
        [when |-> Append(s, e)[i].when, seq |-> Append(s, e)[i].seq]]
  BY <1>4 DEF Published
<1>7. \A i \in 1 .. Len(s) + 1 :
        [when |-> Append(s, e)[i].when, seq |-> Append(s, e)[i].seq]
          = Append(Published(s), x)[i]
  <2>. TAKE i \in 1 .. Len(s) + 1
  <2>1. CASE i \in 1 .. Len(s)
    BY <1>1, <1>4, <1>5, <2>1 DEF Published
  <2>2. CASE i = Len(s) + 1
    BY <1>4, <1>5, <2>2 DEF x
  <2>3. i \in 1 .. Len(s) \/ i = Len(s) + 1
    BY <1>1
  <2>. QED BY <2>1, <2>2, <2>3
<1>8. Append(Published(s), x) = [i \in 1 .. Len(s) + 1 |-> Append(Published(s), x)[i]]
  BY <1>5
<1>9. Published(Append(s, e)) = Append(Published(s), x)
  BY <1>6, <1>7, <1>8
<1>. QED BY <1>9 DEF x

\* A step of the queue is a step of DelayLine or none.
LEMMA LineStep == QueueInv /\ QueueInv' /\ [QueueNext]_queueVars => [Line!Next]_(Line!vars)
<1>. SUFFICES ASSUME QueueInv, QueueInv', [QueueNext]_queueVars PROVE [Line!Next]_(Line!vars)
  OBVIOUS
<1>. USE DEF Line!Next, Line!vars
<1>1. ASSUME NEW delay \in Delays, DelayPublish(delay) PROVE Line!Next
  <2>1. Line!Schedule(now + delay)
    BY <1>1, QueueAssumption DEF DelayPublish, Line!Schedule, QueueInv, QueueTypeOK
  <2>2. now + delay \in 0 .. MaxTime
    BY <1>1, QueueAssumption DEF DelayPublish, QueueInv, QueueTypeOK
  <2>. QED BY <2>1, <2>2
<1>2. CASE TimerFires
  BY <1>2 DEF TimerFires
<1>3. CASE PopDue
  <2>1. PICK top \in minHeap :
          /\ IsTop(top, minHeap) /\ IsDue(top) /\ minHeap' = minHeap \ {top}
          /\ sent' = Append(sent, [when |-> top.when, seq |-> top.seq, at |-> now])
    BY <1>3 DEF PopDue
  <2>2. /\ top \in Scheduled /\ top = [when |-> top.when, seq |-> top.seq]
        /\ [when |-> top.when, seq |-> top.seq, at |-> now]
             \in [when : 0 .. MaxTime, seq : 0 .. MaxCount, at : 0 .. MaxTime]
    BY <2>1 DEF QueueInv, QueueTypeOK, Scheduled
  <2>3. Published(sent') = Append(Published(sent), top)
    <3>. DEFINE R == [when : 0 .. MaxTime, seq : 0 .. MaxCount, at : 0 .. MaxTime]
                e == [when |-> top.when, seq |-> top.seq, at |-> now]
    <3>1. sent \in Seq(R) /\ e \in R
      BY <2>2 DEF QueueInv, QueueTypeOK
    <3>. HIDE DEF R
    <3>2. Published(Append(sent, e)) = Append(Published(sent), [when |-> e.when, seq |-> e.seq])
      BY <3>1, PublishedAppend
    <3>. QED BY <2>1, <2>2, <3>2
  <2>4. ~ended /\ top.when <= now /\ UNCHANGED <<now, nextSeq, ended>>
    BY <1>3, <2>1, Numbers DEF PopDue, QueueInv, EndIsIdle, Clocked, IsDue
  <2>5. Line!Send(top)
    BY <2>1, <2>3, <2>4 DEF Line!Send, Line!Before, IsTop, EarlierFirst, Published
  <2>. QED BY <2>5
<1>4. CASE LoopEnds
  BY <1>4 DEF LoopEnds
<1>5. CASE SessionEnds
  BY <1>5 DEF SessionEnds, Line!End
<1>6. CASE Tick
  BY <1>6 DEF Tick, Line!Tick
<1>7. CASE UNCHANGED queueVars
  BY <1>7 DEF queueVars
<1>. QED BY <1>1, <1>2, <1>3, <1>4, <1>5, <1>6, <1>7 DEF QueueNext

\* The queue and its timer implement the delay line.
THEOREM ImplementsDelayLine == QueueSpec => IsDelayLine
<1>1. QueueInit => Line!Init
  BY DEF QueueInit, Line!Init
<1>. QED BY <1>1, LineStep, InvHolds, PTL DEF QueueSpec, IsDelayLine, Line!Spec

-----------------------------------------------------------------------------
(* Numbers: minima, induction, recursion.                                  *)

\* A set of numbers has a least one.
LEMMA HasLeast ==
  ASSUME NEW S \in SUBSET Nat, S # {}
  PROVE  \E x \in S : \A y \in S : x <= y
<1>. DEFINE R == OpToRel(<, Nat)
<1>1. IsWellFoundedOn(R, Nat)
  BY Zenon, NatLessThanWellFounded
<1>2. \A x, y \in Nat : <<y, x>> \in R <=> y < x
  BY DEF OpToRel
<1>. HIDE DEF R
<1>3. PICK x \in S : \A y \in S : <<y, x>> \notin R
  BY <1>1, WFMin
<1>4. ASSUME NEW y \in S PROVE x <= y
  <2>1. x \in Nat /\ y \in Nat
    OBVIOUS
  <2>2. ~(y < x)
    BY <1>2, <1>3, <2>1
  <2>. QED BY <2>1, <2>2
<1>. QED BY <1>4

\* Min gives the least one.
LEMMA MinIs ==
  ASSUME NEW S \in SUBSET Nat, S # {}
  PROVE  Min(S) \in S /\ \A y \in S : Min(S) <= y
BY HasLeast DEF Min

\* Induction, for a set of numbers.
LEMMA Induction ==
  ASSUME NEW S, 0 \in S, \A n \in Nat : n \in S => n + 1 \in S
  PROVE  \A n \in Nat : n \in S
<1>. DEFINE missing == {n \in Nat : n \notin S}
<1>. SUFFICES ASSUME missing # {} PROVE FALSE
  OBVIOUS
<1>1. PICK n \in missing : \A k \in missing : n <= k
  <2>. HIDE DEF missing
  <2>1. missing \in SUBSET Nat
    BY DEF missing
  <2>. QED BY <2>1, HasLeast
<1>2. n # 0 /\ n - 1 \in Nat /\ n - 1 \in S
  BY <1>1
<1>. QED BY <1>1, <1>2

\* A recursive function that descends to smaller numbers exists.
Descends(f, n, start, back, step) ==
  f[0] = start /\ \A k \in 1 .. n : f[k] = step[k][f[back[k]]]

\* It exists, with values in the set of its steps.
LEMMA Recursion ==
  ASSUME NEW S, NEW start \in S, NEW n \in Nat,
         NEW back \in [1 .. n -> Nat], \A k \in 1 .. n : back[k] < k,
         NEW step \in [1 .. n -> [S -> S]]
  PROVE  \E f \in [0 .. n -> S] : Descends(f, n, start, back, step)
<1>. DEFINE reached == {m \in Nat : m <= n => \E f \in [0 .. m -> S] : Descends(f, m, start, back, step)}
<1>1. 0 \in reached
  <2>. DEFINE f == [k \in 0 .. 0 |-> start]
  <2>1. f \in [0 .. 0 -> S] /\ Descends(f, 0, start, back, step)
    BY DEF Descends
  <2>. QED BY <2>1
<1>2. ASSUME NEW m \in Nat, m \in reached PROVE m + 1 \in reached
  <2>. SUFFICES ASSUME m + 1 <= n
                PROVE \E f \in [0 .. m + 1 -> S] : Descends(f, m + 1, start, back, step)
    OBVIOUS
  <2>1. PICK f \in [0 .. m -> S] : Descends(f, m, start, back, step)
    BY <1>2
  <2>. DEFINE g == [k \in 0 .. m + 1 |-> IF k <= m THEN f[k] ELSE step[m + 1][f[back[m + 1]]]]
  <2>2. back[m + 1] \in 0 .. m /\ step[m + 1] \in [S -> S]
    OBVIOUS
  <2>3. step[m + 1][f[back[m + 1]]] \in S
    BY <2>2
  <2>4. g \in [0 .. m + 1 -> S]
    BY <2>3
  <2>5. g[0] = start
    BY <2>1 DEF Descends
  <2>6. ASSUME NEW k \in 1 .. m + 1 PROVE g[k] = step[k][g[back[k]]]
    <3>1. back[k] \in 0 .. m /\ g[back[k]] = f[back[k]]
      OBVIOUS
    <3>2. CASE k \in 1 .. m
      <4>1. g[k] = f[k]
        BY <3>2
      <4>. QED BY <2>1, <3>1, <3>2, <4>1 DEF Descends
    <3>3. CASE k = m + 1
      BY <3>1, <3>3
    <3>. QED BY <3>2, <3>3
  <2>. HIDE DEF g
  <2>. QED BY <2>4, <2>5, <2>6 DEF Descends
<1>. HIDE DEF reached
<1>3. n \in reached
  BY <1>1, <1>2, Induction
<1>. QED BY <1>3 DEF reached

-----------------------------------------------------------------------------
(* What a loop over rules makes.                                           *)

Pair == [immediate : Seq(Immediate), scheduled : Seq(Delayed)]

\* Nothing is a pair.
LEMMA NothingIs == Nothing \in Pair
BY DEF Nothing, Pair

\* Both gives a pair, and Nothing adds nothing to it.
LEMMA BothIs ==
  ASSUME NEW a \in Pair, NEW b \in Pair
  PROVE  Both(a, b) \in Pair /\ Both(Nothing, b) = b /\ Both(b, Nothing) = b
<1>1. a.immediate \in Seq(Immediate) /\ b.immediate \in Seq(Immediate)
      /\ a.scheduled \in Seq(Delayed) /\ b.scheduled \in Seq(Delayed)
  BY DEF Pair
<1>2. a.immediate \o b.immediate \in Seq(Immediate) /\ a.scheduled \o b.scheduled \in Seq(Delayed)
  BY <1>1, ConcatProperties
<1>3. /\ <<>> \o b.immediate = b.immediate /\ b.immediate \o <<>> = b.immediate
      /\ <<>> \o b.scheduled = b.scheduled /\ b.scheduled \o <<>> = b.scheduled
  BY <1>1, ConcatEmptySeq
<1>4. b = [immediate |-> b.immediate, scheduled |-> b.scheduled]
  BY DEF Pair
<1>5. Both(Nothing, b) = b /\ Both(b, Nothing) = b
  BY <1>3, <1>4 DEF Both, Nothing
<1>. QED BY <1>2, <1>5 DEF Both, Pair

\* Of three, which two are taken together first makes no difference.
LEMMA BothInTurn ==
  ASSUME NEW a \in Pair, NEW b \in Pair, NEW c \in Pair
  PROVE  Both(Both(a, b), c) = Both(a, Both(b, c))
<1>1. /\ a.immediate \in Seq(Immediate) /\ b.immediate \in Seq(Immediate) /\ c.immediate \in Seq(Immediate)
      /\ a.scheduled \in Seq(Delayed) /\ b.scheduled \in Seq(Delayed) /\ c.scheduled \in Seq(Delayed)
  BY DEF Pair
<1>2. \A s, t, u \in Seq(Immediate) : (s \o t) \o u = s \o (t \o u)
  BY ConcatAssociative
<1>3. \A s, t, u \in Seq(Delayed) : (s \o t) \o u = s \o (t \o u)
  BY ConcatAssociative
<1>4. (a.immediate \o b.immediate) \o c.immediate = a.immediate \o (b.immediate \o c.immediate)
  BY <1>1, <1>2, Zenon
<1>5. (a.scheduled \o b.scheduled) \o c.scheduled = a.scheduled \o (b.scheduled \o c.scheduled)
  BY <1>1, <1>3, Zenon
<1>. QED BY <1>4, <1>5 DEF Both

\* One publish, with a delay or without.
LEMMA EmplacedIs == ASSUME NEW p \in PublishRecord PROVE Emplaced(p) \in Pair
<1>1. p.delay \in Int
  BY DEF PublishRecord
<1>2. CASE p.delay < 0
  <2>1. <<p>> \in Seq(Immediate)
    BY <1>2 DEF Immediate
  <2>2. Emplaced(p) = [immediate |-> <<p>>, scheduled |-> <<>>]
    BY <1>2 DEF Emplaced, Nothing
  <2>. QED BY <2>1, <2>2 DEF Pair
<1>3. CASE ~(p.delay < 0)
  <2>1. <<p>> \in Seq(Delayed)
    BY <1>1, <1>3 DEF Delayed
  <2>2. Emplaced(p) = [immediate |-> <<>>, scheduled |-> <<p>>]
    BY <1>3 DEF Emplaced, Nothing
  <2>. QED BY <2>1, <2>2 DEF Pair
<1>. QED BY <1>2, <1>3

\* The loop of Collected.
IsSum(sum, parts) ==
  sum = [k \in 0 .. Len(parts) |-> IF k = 0 THEN Nothing ELSE Both(sum[k - 1], parts[k])]

SumsUp(sum, parts) ==
  /\ sum[0] = Nothing
  /\ \A k \in 1 .. Len(parts) : sum[k] = Both(sum[k - 1], parts[k])

\* What a sequence of pairs comes to, by its equations.
LEMMA CollectedIs ==
  ASSUME NEW parts \in Seq(Pair)
  PROVE  \E sum \in [0 .. Len(parts) -> Pair] :
           SumsUp(sum, parts) /\ Collected(parts) = sum[Len(parts)]
<1>. PICK n \in Nat : n = Len(parts)
  OBVIOUS
<1>0. \A k \in 1 .. n : parts[k] \in Pair
  OBVIOUS
<1>1. \E sum : IsSum(sum, parts)
  <2>. DEFINE back == [k \in 1 .. n |-> k - 1]
              step == [k \in 1 .. n |-> [x \in Pair |-> Both(x, parts[k])]]
  <2>1. back \in [1 .. n -> Nat] /\ \A k \in 1 .. n : back[k] < k
    OBVIOUS
  <2>2. step \in [1 .. n -> [Pair -> Pair]]
    BY <1>0, BothIs
  <2>3. \E f \in [0 .. n -> Pair] : Descends(f, n, Nothing, back, step)
    <3>. HIDE DEF back, step
    <3>. QED BY <2>1, <2>2, NothingIs, Recursion
  <2>4. PICK f \in [0 .. n -> Pair] : Descends(f, n, Nothing, back, step)
    BY <2>3
  <2>5. ASSUME NEW k \in 0 .. n
        PROVE  f[k] = IF k = 0 THEN Nothing ELSE Both(f[k - 1], parts[k])
    <3>1. CASE k = 0
      BY <2>4, <3>1 DEF Descends
    <3>2. CASE k # 0
      <4>1. k \in 1 .. n /\ back[k] = k - 1 /\ f[k - 1] \in Pair
        BY <3>2
      <4>2. f[k] = step[k][f[k - 1]]
        BY <2>4, <4>1 DEF Descends
      <4>. QED BY <3>2, <4>1, <4>2
    <3>. QED BY <3>1, <3>2
  <2>6. f = [k \in 0 .. n |-> IF k = 0 THEN Nothing ELSE Both(f[k - 1], parts[k])]
    BY <2>5
  <2>. QED BY <2>6 DEF IsSum
<1>2. PICK sum : /\ IsSum(sum, parts)
                 /\ sum = CHOOSE s : s = [k \in 0 .. Len(parts) |->
                                            IF k = 0 THEN Nothing ELSE Both(s[k - 1], parts[k])]
  BY <1>1 DEF IsSum
<1>3. Collected(parts) = sum[Len(parts)]
  BY <1>2 DEF Collected
<1>4. /\ DOMAIN sum = 0 .. n
      /\ sum[0] = Nothing
      /\ \A k \in 1 .. n : sum[k] = Both(sum[k - 1], parts[k])
  <2>1. sum = [k \in 0 .. n |-> IF k = 0 THEN Nothing ELSE Both(sum[k - 1], parts[k])]
    BY <1>2 DEF IsSum
  <2>2. DOMAIN sum = 0 .. n
    BY <2>1, Zenon
  <2>3. \A k \in 0 .. n : sum[k] = IF k = 0 THEN Nothing ELSE Both(sum[k - 1], parts[k])
    BY <2>1, Zenon
  <2>. QED BY <2>2, <2>3
<1>5. \A k \in Nat : k \in {i \in Nat : i <= n => sum[i] \in Pair}
  <2>. DEFINE typed == {i \in Nat : i <= n => sum[i] \in Pair}
  <2>1. 0 \in typed
    BY <1>4, NothingIs
  <2>2. ASSUME NEW i \in Nat, i \in typed PROVE i + 1 \in typed
    <3>. SUFFICES ASSUME i + 1 <= n PROVE sum[i + 1] \in Pair
      OBVIOUS
    <3>1. sum[i + 1] = Both(sum[i], parts[i + 1]) /\ sum[i] \in Pair /\ parts[i + 1] \in Pair
      BY <1>0, <1>4, <2>2
    <3>. QED BY <3>1, BothIs
  <2>. HIDE DEF typed
  <2>3. \A k \in Nat : k \in typed
    BY <2>1, <2>2, Induction
  <2>. QED BY <2>3 DEF typed
<1>6. sum = [k \in 0 .. n |-> sum[k]]
  BY <1>2, <1>4 DEF IsSum
<1>7. sum \in [0 .. n -> Pair]
  BY <1>5, <1>6
<1>. QED BY <1>3, <1>4, <1>7 DEF SumsUp

\* It is a pair.
LEMMA CollectedAre ==
  ASSUME NEW parts \in Seq(Pair)
  PROVE  Collected(parts) \in Pair
BY CollectedIs

\* None of them: nothing.
LEMMA NoneCollected == Collected(<<>>) = Nothing
<1>1. <<>> \in Seq(Pair) /\ Len(<<>>) = 0
  OBVIOUS
<1>. QED BY <1>1, CollectedIs DEF SumsUp

\* One of them: itself.
LEMMA OneCollected == ASSUME NEW p \in Pair PROVE Collected(<<p>>) = p
<1>1. <<p>> \in Seq(Pair) /\ Len(<<p>>) = 1 /\ <<p>>[1] = p
  OBVIOUS
<1>2. PICK sum : SumsUp(sum, <<p>>) /\ Collected(<<p>>) = sum[Len(<<p>>)]
  BY <1>1, CollectedIs
<1>3. Collected(<<p>>) = Both(Nothing, p)
  BY <1>1, <1>2 DEF SumsUp
<1>. QED BY <1>3, BothIs

\* Passes that add nothing.
LEMMA NothingCollected ==
  ASSUME NEW parts \in Seq(Pair), \A k \in DOMAIN parts : parts[k] = Nothing
  PROVE  Collected(parts) = Nothing
<1>1. PICK sum \in [0 .. Len(parts) -> Pair] :
        SumsUp(sum, parts) /\ Collected(parts) = sum[Len(parts)]
  BY CollectedIs
<1>. DEFINE none == {k \in Nat : k <= Len(parts) => sum[k] = Nothing}
<1>2. 0 \in none
  BY <1>1 DEF SumsUp
<1>3. ASSUME NEW k \in Nat, k \in none PROVE k + 1 \in none
  <2>. SUFFICES ASSUME k + 1 <= Len(parts) PROVE sum[k + 1] = Nothing
    OBVIOUS
  <2>1. sum[k + 1] = Both(Nothing, Nothing)
    BY <1>1, <1>3 DEF SumsUp
  <2>. QED BY <2>1, NothingIs, BothIs
<1>. HIDE DEF none
<1>4. Len(parts) \in none
  BY <1>2, <1>3, Induction
<1>. QED BY <1>1, <1>4 DEF none

-----------------------------------------------------------------------------
(* What a rule makes.                                                      *)

\* The type of a publish.
LEMMA PublishIs ==
  ASSUME NEW rule, IsRule(rule), NEW topic \in Topic, NEW text \in Texts
  PROVE  Publish(rule, topic, text) \in PublishRecord
BY DEF Publish, PublishRecord, IsRule

\* The entries of a sequence are of its type.
LEMMA Entries == ASSUME NEW S, NEW s \in Seq(S) PROVE \A k \in DOMAIN s : s[k] \in S
OBVIOUS

\* What a static rule makes of a message is a pair.
LEMMA MappedMessageIs ==
  ASSUME NEW rule, IsStatic(rule), NEW p
  PROVE  MappedMessage(rule, p) \in Pair
<1>. DEFINE matching == {k \in DOMAIN rule.cases : rule.cases[k].message = p}
<1>1. CASE matching = {}
  BY <1>1, NothingIs DEF MappedMessage
<1>2. CASE matching # {}
  <2>1. rule.cases \in Seq([message : Texts, mapped : Texts]) /\ rule.topic \in Topic /\ IsRule(rule)
    BY DEF IsStatic
  <2>2. matching \in SUBSET Nat /\ matching \subseteq DOMAIN rule.cases
    BY <2>1
  <2>3. Min(matching) \in matching
    <3>. HIDE DEF matching
    <3>. QED BY <1>2, <2>2, MinIs
  <2>4. Min(matching) \in DOMAIN rule.cases
    BY <2>2, <2>3, Zenon
  <2>5. PICK text \in Texts : text = rule.cases[Min(matching)].mapped
    <3>1. PICK k \in DOMAIN rule.cases : k = Min(matching)
      BY <2>4, Zenon
    <3>2. rule.cases[k] \in [message : Texts, mapped : Texts]
      <4>1. PICK cases \in Seq([message : Texts, mapped : Texts]) : cases = rule.cases
        BY <2>1
      <4>2. \A i \in DOMAIN cases : cases[i] \in [message : Texts, mapped : Texts]
        BY Entries
      <4>. QED BY <4>1, <4>2, Zenon
    <3>3. rule.cases[k].mapped \in Texts
      BY <3>2
    <3>. QED BY <3>1, <3>3, Zenon
  <2>6. MappedMessage(rule, p) = Emplaced(Publish(rule, rule.topic, text))
    BY <1>2, <2>5 DEF MappedMessage
  <2>. QED BY <2>1, <2>6, PublishIs, EmplacedIs
<1>. QED BY <1>1, <1>2

\* The render data of a list of templates.
IsData(data) ==
  \E mappedTopic \in Topic \cup {InjaError}, rest \in {"todo", "skipped"}, made \in Pair :
    data = [mappedTopic |-> mappedTopic, rest |-> rest, publishes |-> made]

\* The render data before the first rule.
LEMMA UnrenderedIs == IsData(Unrendered)
BY NothingIs DEF IsData, Unrendered

\* The outcomes of a template.
Outcome(data, rule, topic, text) ==
  IF data.rest = "skipped" \/ topic = InjaError THEN data
  ELSE IF topic = JsonException
  THEN [mappedTopic |-> data.mappedTopic, rest |-> "skipped", publishes |-> data.publishes]
  ELSE IF text = JsonException
  THEN [mappedTopic |-> topic, rest |-> "skipped", publishes |-> data.publishes]
  ELSE IF text = InjaError \/ Suppressed(rule, text)
  THEN [mappedTopic |-> topic, rest |-> data.rest, publishes |-> data.publishes]
  ELSE [mappedTopic |-> topic, rest |-> data.rest,
        publishes |-> Both(data.publishes, Emplaced(Publish(rule, topic, text)))]

\* What one template rule does to the render data, by case.
LEMMA Outcomes ==
  ASSUME NEW data, IsData(data), NEW rule, NEW p,
         NEW topic, topic = IF rule.topic = LastTopic THEN data.mappedTopic ELSE rule.topic,
         NEW text, text = rule.text[p]
  PROVE  MappedTemplate(data, rule, p) = Outcome(data, rule, topic, text)
<1>. PICK mt, re, pu : data = [mappedTopic |-> mt, rest |-> re, publishes |-> pu]
  BY DEF IsData
<1>. PICK more : more = Both(pu, Emplaced(Publish(rule, topic, text)))
  OBVIOUS
<1>1. /\ [data EXCEPT !.rest = "skipped"] = [mappedTopic |-> mt, rest |-> "skipped", publishes |-> pu]
      /\ [data EXCEPT !.mappedTopic = topic] = [mappedTopic |-> topic, rest |-> re, publishes |-> pu]
      /\ data.mappedTopic = mt /\ data.rest = re /\ data.publishes = pu
  OBVIOUS
<1>. DEFINE rendered == [data EXCEPT !.mappedTopic = topic]
<1>r. rendered = [mappedTopic |-> topic, rest |-> re, publishes |-> pu]
  BY <1>1
<1>. HIDE DEF rendered
<1>2. /\ [rendered EXCEPT !.rest = "skipped"] = [mappedTopic |-> topic, rest |-> "skipped", publishes |-> pu]
      /\ [rendered EXCEPT !.publishes = more] = [mappedTopic |-> topic, rest |-> re, publishes |-> more]
      /\ rendered.publishes = pu
  BY <1>r
<1>3. MappedTemplate(data, rule, p) =
        IF data.rest = "skipped" \/ topic = InjaError THEN data
        ELSE IF topic = JsonException THEN [data EXCEPT !.rest = "skipped"]
        ELSE IF text = JsonException THEN [rendered EXCEPT !.rest = "skipped"]
        ELSE IF text = InjaError \/ Suppressed(rule, text) THEN rendered
        ELSE [rendered EXCEPT !.publishes = Both(rendered.publishes, Emplaced(Publish(rule, topic, text)))]
  BY Zenon DEF MappedTemplate, rendered
<1>. QED BY <1>1, <1>r, <1>2, <1>3 DEF Outcome

\* It is one of these.
LEMMA MappedTemplateIs ==
  ASSUME NEW data, IsData(data), NEW rule, IsTemplate(rule), NEW p \in Texts
  PROVE  IsData(MappedTemplate(data, rule, p))
<1>. PICK topic : topic = IF rule.topic = LastTopic THEN data.mappedTopic ELSE rule.topic
  OBVIOUS
<1>. PICK text : text = rule.text[p]
  OBVIOUS
<1>. PICK outcome : outcome = MappedTemplate(data, rule, p)
  OBVIOUS
<1>0. outcome = Outcome(data, rule, topic, text)
  BY Outcomes
<1>1. PICK mt \in Topic \cup {InjaError}, re \in {"todo", "skipped"}, pu \in Pair :
        data = [mappedTopic |-> mt, rest |-> re, publishes |-> pu]
  BY DEF IsData
<1>2. topic \in Topic \cup {InjaError, JsonException}
  BY <1>1 DEF IsTemplate
<1>3. text \in Texts \cup {InjaError, JsonException}
  BY DEF IsTemplate
<1>. PICK more : more = Both(pu, Emplaced(Publish(rule, topic, text)))
  OBVIOUS
<1>4. \/ outcome = data
      \/ outcome = [mappedTopic |-> mt, rest |-> "skipped", publishes |-> pu]
      \/ topic \in Topic /\ outcome = [mappedTopic |-> topic, rest |-> "skipped", publishes |-> pu]
      \/ topic \in Topic /\ outcome = [mappedTopic |-> topic, rest |-> re, publishes |-> pu]
      \/ topic \in Topic /\ text \in Texts
         /\ outcome = [mappedTopic |-> topic, rest |-> re, publishes |-> more]
  BY <1>0, <1>1, <1>2, <1>3 DEF Outcome
<1>5. (topic \in Topic /\ text \in Texts) => more \in Pair
  <2>. SUFFICES ASSUME topic \in Topic, text \in Texts PROVE more \in Pair
    OBVIOUS
  <2>1. IsRule(rule)
    BY DEF IsTemplate
  <2>2. Publish(rule, topic, text) \in PublishRecord
    BY <2>1, PublishIs
  <2>. QED BY <2>2, EmplacedIs, BothIs
<1>6. IsData(outcome)
  BY <1>1, <1>4, <1>5 DEF IsData
<1>. QED BY <1>6

-----------------------------------------------------------------------------
(* The loop over a list of templates.                                      *)

\* The loop of TemplateMappings.
IsLoop(data, rules, p) ==
  data = [k \in 0 .. Len(rules) |-> IF k = 0 THEN Unrendered
                                     ELSE MappedTemplate(data[k - 1], rules[k], p)]

Renders(data, rules, p) ==
  /\ data[0] = Unrendered
  /\ \A k \in 0 .. Len(rules) : IsData(data[k])
  /\ \A k \in 1 .. Len(rules) : data[k] = MappedTemplate(data[k - 1], rules[k], p)

AreTemplates(rules) ==
  /\ rules \in Seq(ToSet(rules))
  /\ \A k \in DOMAIN rules : IsTemplate(rules[k])

\* The loop over template rules exists and is of its type.
LEMMA TemplatesAre ==
  ASSUME NEW rules, AreTemplates(rules), NEW p \in Texts
  PROVE  \E data : Renders(data, rules, p) /\ TemplateMappings(rules, p) = data[Len(rules)].publishes
<1>. PICK n \in Nat : n = Len(rules) /\ DOMAIN rules = 1 .. n
  BY DEF AreTemplates
<1>0. \A k \in 1 .. n : IsTemplate(rules[k])
  BY DEF AreTemplates
<1>. DEFINE Data == {d \in [mappedTopic : Topic \cup {InjaError}, rest : {"todo", "skipped"}, publishes : Pair] : TRUE}
<1>1. \A d : d \in Data <=> IsData(d)
  BY DEF IsData
<1>. HIDE DEF Data
<1>2. \E data : IsLoop(data, rules, p)
  <2>. DEFINE back == [k \in 1 .. n |-> k - 1]
              step == [k \in 1 .. n |-> [x \in Data |-> MappedTemplate(x, rules[k], p)]]
  <2>1. back \in [1 .. n -> Nat] /\ \A k \in 1 .. n : back[k] < k
    OBVIOUS
  <2>2. step \in [1 .. n -> [Data -> Data]]
    BY <1>0, <1>1, MappedTemplateIs
  <2>3. PICK f \in [0 .. n -> Data] : Descends(f, n, Unrendered, back, step)
    <3>. HIDE DEF back, step
    <3>. QED BY <1>1, <2>1, <2>2, UnrenderedIs, Recursion
  <2>5. ASSUME NEW k \in 0 .. n
        PROVE  f[k] = IF k = 0 THEN Unrendered ELSE MappedTemplate(f[k - 1], rules[k], p)
    <3>1. CASE k = 0
      BY <2>3, <3>1 DEF Descends
    <3>2. CASE k # 0
      <4>1. k \in 1 .. n /\ back[k] = k - 1 /\ f[k - 1] \in Data
        BY <3>2
      <4>2. f[k] = step[k][f[k - 1]]
        BY <2>3, <4>1 DEF Descends
      <4>. QED BY <3>2, <4>1, <4>2
    <3>. QED BY <3>1, <3>2
  <2>6. f = [k \in 0 .. n |-> IF k = 0 THEN Unrendered ELSE MappedTemplate(f[k - 1], rules[k], p)]
    BY <2>5
  <2>. QED BY <2>6 DEF IsLoop
<1>3. PICK data : /\ IsLoop(data, rules, p)
                  /\ data = CHOOSE d : d = [k \in 0 .. Len(rules) |->
                               IF k = 0 THEN Unrendered ELSE MappedTemplate(d[k - 1], rules[k], p)]
  BY <1>2 DEF IsLoop
<1>4. TemplateMappings(rules, p) = data[Len(rules)].publishes
  BY <1>3 DEF TemplateMappings
<1>5. data[0] = Unrendered /\ \A k \in 1 .. n : data[k] = MappedTemplate(data[k - 1], rules[k], p)
  <2>1. \A k \in 0 .. n : data[k] = IF k = 0 THEN Unrendered ELSE MappedTemplate(data[k - 1], rules[k], p)
    BY <1>3 DEF IsLoop
  <2>. QED BY <2>1
<1>. DEFINE typed == {k \in Nat : k <= n => IsData(data[k])}
<1>6. 0 \in typed
  BY <1>5, UnrenderedIs
<1>7. ASSUME NEW k \in Nat, k \in typed PROVE k + 1 \in typed
  <2>. SUFFICES ASSUME k + 1 <= n PROVE IsData(data[k + 1])
    OBVIOUS
  <2>1. data[k + 1] = MappedTemplate(data[k], rules[k + 1], p) /\ IsData(data[k]) /\ IsTemplate(rules[k + 1])
    BY <1>0, <1>5, <1>7
  <2>. QED BY <2>1, MappedTemplateIs
<1>. HIDE DEF typed
<1>8. \A k \in Nat : k \in typed
  BY <1>6, <1>7, Induction
<1>9. \A k \in 0 .. n : IsData(data[k])
  BY <1>8 DEF typed
<1>. QED BY <1>4, <1>5, <1>9 DEF Renders

\* What the loop makes is a pair.
LEMMA TemplateMappingsAre ==
  ASSUME NEW rules, AreTemplates(rules), NEW p \in Texts
  PROVE  TemplateMappings(rules, p) \in Pair
<1>1. PICK data : Renders(data, rules, p) /\ TemplateMappings(rules, p) = data[Len(rules)].publishes
  BY TemplatesAre
<1>2. Len(rules) \in 0 .. Len(rules)
  BY DEF AreTemplates
<1>3. IsData(data[Len(rules)])
  BY <1>1, <1>2 DEF Renders
<1>. QED BY <1>1, <1>3 DEF IsData

\* What a template makes by itself.
Makes(rule, p) == MappedTemplate(Unrendered, rule, p).publishes

\* What a template rule makes alone is a pair.
LEMMA MakesIs == ASSUME NEW rule, IsTemplate(rule), NEW p \in Texts PROVE Makes(rule, p) \in Pair
<1>1. IsData(MappedTemplate(Unrendered, rule, p))
  BY UnrenderedIs, MappedTemplateIs
<1>. QED BY <1>1 DEF IsData, Makes

\* Without template rules the loop makes nothing.
LEMMA NoTemplate == ASSUME NEW p \in Texts PROVE TemplateMappings(<<>>, p) = Nothing
<1>1. AreTemplates(<<>>) /\ Len(<<>>) = 0
  BY DEF AreTemplates
<1>2. PICK data : Renders(data, <<>>, p) /\ TemplateMappings(<<>>, p) = data[Len(<<>>)].publishes
  BY <1>1, TemplatesAre
<1>. QED BY <1>1, <1>2 DEF Renders, Unrendered

\* With one, what that makes alone.
LEMMA OneTemplate ==
  ASSUME NEW rule, IsTemplate(rule), NEW p \in Texts
  PROVE  TemplateMappings(<<rule>>, p) = Makes(rule, p)
<1>1. Len(<<rule>>) = 1 /\ <<rule>>[1] = rule /\ DOMAIN <<rule>> = 1 .. 1
  OBVIOUS
<1>2. AreTemplates(<<rule>>)
  BY <1>1 DEF AreTemplates, ToSet
<1>3. PICK data : Renders(data, <<rule>>, p) /\ TemplateMappings(<<rule>>, p) = data[Len(<<rule>>)].publishes
  BY <1>2, TemplatesAre
<1>. QED BY <1>1, <1>3 DEF Renders, Makes

\* A template that keeps to itself adds what it makes by itself.
KeepsToItself(rule, p) ==
  /\ IsTemplate(rule)
  /\ rule.topic \notin {LastTopic, JsonException}
  /\ rule.text[p] # JsonException

\* A rule that keeps to itself adds to the publishes what it makes alone.
LEMMA AddsItsOwn ==
  ASSUME NEW data, IsData(data), data.rest = "todo", NEW p \in Texts, NEW rule, KeepsToItself(rule, p)
  PROVE  /\ MappedTemplate(data, rule, p).publishes = Both(data.publishes, Makes(rule, p))
         /\ MappedTemplate(data, rule, p).rest = "todo"
<1>. PICK topic, text : topic = rule.topic /\ text = rule.text[p]
  OBVIOUS
<1>1. /\ topic = IF rule.topic = LastTopic THEN data.mappedTopic ELSE rule.topic
      /\ topic = IF rule.topic = LastTopic THEN Unrendered.mappedTopic ELSE rule.topic
  BY DEF KeepsToItself
<1>2. PICK outcome, own : /\ outcome = MappedTemplate(data, rule, p) /\ outcome = Outcome(data, rule, topic, text)
                          /\ own = MappedTemplate(Unrendered, rule, p) /\ own = Outcome(Unrendered, rule, topic, text)
  BY <1>1, Outcomes, UnrenderedIs
<1>3. PICK mt \in Topic \cup {InjaError}, pu \in Pair :
        data = [mappedTopic |-> mt, rest |-> "todo", publishes |-> pu]
  BY DEF IsData
<1>4. topic # JsonException /\ text # JsonException /\ "todo" # "skipped"
  BY DEF KeepsToItself
<1>5. Both(pu, Nothing) = pu
  BY BothIs
<1>6. CASE topic = InjaError \/ text = InjaError \/ Suppressed(rule, text)
  <2>1. outcome.publishes = pu /\ outcome.rest = "todo" /\ own.publishes = Nothing
    BY <1>2, <1>3, <1>4, <1>6 DEF Outcome, Unrendered
  <2>. QED BY <1>2, <1>3, <1>5, <2>1 DEF Makes
<1>7. CASE ~(topic = InjaError \/ text = InjaError \/ Suppressed(rule, text))
  <2>. PICK one : one = Emplaced(Publish(rule, topic, text))
    OBVIOUS
  <2>1. outcome.publishes = Both(pu, one) /\ outcome.rest = "todo" /\ own.publishes = Both(Nothing, one)
    BY <1>2, <1>3, <1>4, <1>7 DEF Outcome, Unrendered
  <2>2. IsRule(rule) /\ topic \in Topic /\ text \in Texts
    BY <1>4, <1>7 DEF KeepsToItself, IsTemplate
  <2>3. Publish(rule, topic, text) \in PublishRecord
    BY <2>2, PublishIs
  <2>4. one \in Pair
    BY <2>3, EmplacedIs
  <2>5. Both(Nothing, one) = one
    BY <2>4, BothIs
  <2>. QED BY <1>2, <1>3, <2>1, <2>5 DEF Makes
<1>. QED BY <1>6, <1>7

\* A list of templates that keep to themselves makes what each of them makes.
LEMMA TemplatesApplyAlone ==
  ASSUME NEW rules, AreTemplates(rules), NEW p \in Texts,
         \A k \in DOMAIN rules : KeepsToItself(rules[k], p)
  PROVE  TemplateMappings(rules, p) = Collected([k \in DOMAIN rules |-> Makes(rules[k], p)])
<1>. PICK n \in Nat : n = Len(rules) /\ DOMAIN rules = 1 .. n
  BY DEF AreTemplates
<1>. DEFINE parts == [k \in 1 .. n |-> Makes(rules[k], p)]
<1>1. parts \in Seq(Pair) /\ Len(parts) = n /\ \A k \in 1 .. n : parts[k] = Makes(rules[k], p)
  BY MakesIs DEF KeepsToItself
<1>. HIDE DEF parts
<1>2. PICK sum \in [0 .. n -> Pair] : SumsUp(sum, parts) /\ Collected(parts) = sum[n]
  BY <1>1, CollectedIs
<1>3. PICK data : Renders(data, rules, p) /\ TemplateMappings(rules, p) = data[n].publishes
  BY TemplatesAre
<1>. DEFINE same == {k \in Nat : k <= n => data[k].publishes = sum[k] /\ data[k].rest = "todo"}
<1>4. 0 \in same
  BY <1>2, <1>3 DEF Renders, SumsUp, Unrendered
<1>5. ASSUME NEW k \in Nat, k \in same PROVE k + 1 \in same
  <2>. SUFFICES ASSUME k + 1 <= n
                PROVE  data[k + 1].publishes = sum[k + 1] /\ data[k + 1].rest = "todo"
    OBVIOUS
  <2>1. IsData(data[k]) /\ data[k].rest = "todo" /\ data[k].publishes = sum[k]
        /\ data[k + 1] = MappedTemplate(data[k], rules[k + 1], p) /\ KeepsToItself(rules[k + 1], p)
    BY <1>3, <1>5 DEF Renders
  <2>2. data[k + 1].publishes = Both(sum[k], Makes(rules[k + 1], p)) /\ data[k + 1].rest = "todo"
    BY <2>1, AddsItsOwn
  <2>3. sum[k + 1] = Both(sum[k], Makes(rules[k + 1], p))
    BY <1>1, <1>2 DEF SumsUp
  <2>. QED BY <2>2, <2>3
<1>. HIDE DEF same
<1>6. n \in same
  BY <1>4, <1>5, Induction
<1>7. data[n].publishes = sum[n]
  BY <1>6 DEF same
<1>. QED BY <1>2, <1>3, <1>7 DEF parts

-----------------------------------------------------------------------------
(* All the rules of a level.                                               *)

\* The rules of a level, kind by kind.
LEMMA RulesAre ==
  ASSUME NEW rules, AreRules(rules)
  PROVE  /\ AreTemplates(rules.value) /\ AreTemplates(rules.json)
         /\ rules.static \in Seq(ToSet(rules.static))
         /\ \A k \in DOMAIN rules.static : IsStatic(rules.static[k])
<1>1. /\ rules["static"] \in Seq(ToSet(rules["static"]))
      /\ rules["value"] \in Seq(ToSet(rules["value"]))
      /\ rules["json"] \in Seq(ToSet(rules["json"]))
  BY DEF AreRules
<1>2. \A s : \A k \in DOMAIN s : s[k] \in ToSet(s)
  BY DEF ToSet
<1>3. \A k \in DOMAIN rules.static : IsStatic(rules.static[k])
  BY <1>2, Zenon DEF AreRules
<1>4. \A k \in DOMAIN rules.value : IsTemplate(rules.value[k])
  BY <1>2 DEF AreRules
<1>5. \A k \in DOMAIN rules.json : IsTemplate(rules.json[k])
  BY <1>2 DEF AreRules
<1>. QED BY <1>1, <1>3, <1>4, <1>5 DEF AreTemplates

\* No rules are rules.
LEMMA NoRulesAre == AreRules(NoRules)
<1>1. NoRules.static = <<>> /\ NoRules.value = <<>> /\ NoRules.json = <<>>
      /\ NoRules["static"] = <<>> /\ NoRules["value"] = <<>> /\ NoRules["json"] = <<>>
      /\ DOMAIN NoRules = {"static", "value", "json"}
  BY DEF NoRules
<1>2. ToSet(<<>>) = {} /\ <<>> \in Seq({})
  BY DEF ToSet
<1>. QED BY <1>1, <1>2 DEF AreRules

\* What the static rules make is a pair.
LEMMA StaticsAre ==
  ASSUME NEW s, s \in Seq(ToSet(s)), \A k \in DOMAIN s : IsStatic(s[k]), NEW p
  PROVE  /\ [k \in DOMAIN s |-> MappedMessage(s[k], p)] \in Seq(Pair)
         /\ StaticMappings(s, p) \in Pair
<1>1. PICK n \in Nat : DOMAIN s = 1 .. n
  OBVIOUS
<1>2. \A k \in 1 .. n : MappedMessage(s[k], p) \in Pair
  BY <1>1, MappedMessageIs
<1>3. [k \in 1 .. n |-> MappedMessage(s[k], p)] \in Seq(Pair)
  BY <1>2
<1>4. [k \in DOMAIN s |-> MappedMessage(s[k], p)] \in Seq(Pair)
  BY <1>1, <1>3
<1>. QED BY <1>4, CollectedAre DEF StaticMappings

\* What getMappings makes is a pair.
LEMMA GetMappingsAre ==
  ASSUME NEW rules, AreRules(rules), NEW p \in Texts
  PROVE  GetMappings(rules, p) \in Pair
<1>. DEFINE value == TemplateMappings(rules.value, p)
            json == IF p \in JsonPayloads THEN TemplateMappings(rules.json, p) ELSE Nothing
<1>1. value \in Pair /\ json \in Pair
  BY RulesAre, TemplateMappingsAre, NothingIs
<1>2. StaticMappings(rules.static, p) \in Pair
  BY RulesAre, StaticsAre
<1>3. Both(value, json) \in Pair
  BY <1>1, BothIs
<1>. QED BY <1>2, <1>3, BothIs DEF GetMappings

\* Without static rules there is nothing.
LEMMA NoStatic == ASSUME NEW p PROVE StaticMappings(<<>>, p) = Nothing
<1>1. [k \in DOMAIN <<>> |-> MappedMessage(<<>>[k], p)] = <<>>
  OBVIOUS
<1>. QED BY <1>1, NoneCollected DEF StaticMappings

\* With one static rule, its publish if a message matches.
LEMMA OneStatic ==
  ASSUME NEW rule, IsStatic(rule), NEW p
  PROVE  StaticMappings(<<rule>>, p) = MappedMessage(rule, p)
<1>1. [k \in DOMAIN <<rule>> |-> MappedMessage(<<rule>>[k], p)] = <<MappedMessage(rule, p)>>
  OBVIOUS
<1>. QED BY <1>1, MappedMessageIs, OneCollected DEF StaticMappings

\* What a level makes that has one rule.
LEMMA StaticAlone ==
  ASSUME NEW rule, IsStatic(rule), NEW p \in Texts
  PROVE  GetMappings(Alone("static", rule), p) = MappedMessage(rule, p)
<1>. PICK rules : rules = Alone("static", rule)
  OBVIOUS
<1>1. rules.static = <<rule>> /\ rules.value = <<>> /\ rules.json = <<>>
  BY DEF Alone, NoRules
<1>2. GetMappings(rules, p) = Both(MappedMessage(rule, p), Both(Nothing, Nothing))
  BY <1>1, OneStatic, NoTemplate DEF GetMappings
<1>. QED BY <1>2, MappedMessageIs, NothingIs, BothIs

\* A value rule alone.
LEMMA ValueAlone ==
  ASSUME NEW rule, IsTemplate(rule), NEW p \in Texts
  PROVE  GetMappings(Alone("value", rule), p) = Makes(rule, p)
<1>. PICK rules : rules = Alone("value", rule)
  OBVIOUS
<1>1. rules.static = <<>> /\ rules.value = <<rule>> /\ rules.json = <<>>
  BY DEF Alone, NoRules
<1>2. GetMappings(rules, p) = Both(Nothing, Both(Makes(rule, p), Nothing))
  BY <1>1, OneTemplate, NoTemplate, NoStatic DEF GetMappings
<1>. QED BY <1>2, MakesIs, NothingIs, BothIs

\* A json rule alone.
LEMMA JsonAlone ==
  ASSUME NEW rule, IsTemplate(rule), NEW p \in Texts
  PROVE  GetMappings(Alone("json", rule), p) = IF p \in JsonPayloads THEN Makes(rule, p) ELSE Nothing
<1>. PICK rules : rules = Alone("json", rule)
  OBVIOUS
<1>1. rules.static = <<>> /\ rules.value = <<>> /\ rules.json = <<rule>>
  BY DEF Alone, NoRules
<1>2. GetMappings(rules, p)
        = Both(Nothing, Both(Nothing, IF p \in JsonPayloads THEN Makes(rule, p) ELSE Nothing))
  BY <1>1, OneTemplate, NoTemplate, NoStatic DEF GetMappings
<1>. QED BY <1>2, MakesIs, NothingIs, BothIs

\* Rules that keep to themselves make what each of them makes alone.
LEMMA EachAppliesAlone ==
  ASSUME NEW rules, AreRules(rules), NEW p \in Texts, SelfContained(rules, p)
  PROVE  GetMappings(rules, p) = EachAlone(rules, p)
<1>. DEFINE of(kind) == Collected([k \in DOMAIN rules[kind] |->
                                     GetMappings(Alone(kind, rules[kind][k]), p)])
<1>1. of("static") = StaticMappings(rules.static, p)
  <2>1. \A k \in DOMAIN rules.static :
          GetMappings(Alone("static", rules.static[k]), p) = MappedMessage(rules.static[k], p)
    BY RulesAre, StaticAlone
  <2>. QED BY <2>1 DEF StaticMappings
<1>2. /\ \A k \in DOMAIN rules.value : KeepsToItself(rules.value[k], p)
      /\ \A k \in DOMAIN rules.json : KeepsToItself(rules.json[k], p)
  BY RulesAre DEF SelfContained, KeepsToItself, AreTemplates
<1>3. of("value") = TemplateMappings(rules.value, p)
  <2>1. \A k \in DOMAIN rules.value :
          GetMappings(Alone("value", rules.value[k]), p) = Makes(rules.value[k], p)
    BY RulesAre, ValueAlone DEF AreTemplates
  <2>2. of("value") = Collected([k \in DOMAIN rules.value |-> Makes(rules.value[k], p)])
    BY <2>1
  <2>. QED BY <1>2, <2>2, RulesAre, TemplatesApplyAlone
<1>4. of("json") = IF p \in JsonPayloads THEN TemplateMappings(rules.json, p) ELSE Nothing
  <2>1. \A k \in DOMAIN rules.json :
          GetMappings(Alone("json", rules.json[k]), p)
            = IF p \in JsonPayloads THEN Makes(rules.json[k], p) ELSE Nothing
    BY RulesAre, JsonAlone DEF AreTemplates
  <2>2. CASE p \in JsonPayloads
    <3>1. of("json") = Collected([k \in DOMAIN rules.json |-> Makes(rules.json[k], p)])
      BY <2>1, <2>2
    <3>. QED BY <1>2, <2>2, <3>1, RulesAre, TemplatesApplyAlone
  <2>3. CASE p \notin JsonPayloads
    <3>. DEFINE parts == [k \in DOMAIN rules.json |-> Nothing]
    <3>1. of("json") = Collected(parts)
      BY <2>1, <2>3
    <3>2. PICK n \in Nat : DOMAIN rules.json = 1 .. n
      BY RulesAre DEF AreTemplates
    <3>3. parts \in Seq(Pair) /\ \A k \in DOMAIN parts : parts[k] = Nothing
      BY <3>2, NothingIs
    <3>. HIDE DEF parts
    <3>4. Collected(parts) = Nothing
      BY <3>3, NothingCollected
    <3>. QED BY <2>3, <3>1, <3>4
  <2>. QED BY <2>2, <2>3
<1>5. EachAlone(rules, p) = Both(of("static"), Both(of("value"), of("json")))
  BY DEF EachAlone
<1>. QED BY <1>1, <1>3, <1>4, <1>5 DEF GetMappings

-----------------------------------------------------------------------------
(* The tree of topic levels.                                               *)

\* What IsTree says of the number and the parent of a level.
LEMMA TreeIs ==
  ASSUME NEW levels, IsTree(levels)
  PROVE  /\ Len(levels) \in Nat /\ DOMAIN levels = 1 .. Len(levels)
         /\ \A n \in 1 .. Len(levels) : levels[n].parent \in 0 .. n - 1 /\ levels[n].name \in STRING
BY DEF IsTree

\* The levels below the level n; they are what follows it, up to the first that is not.
Below(levels, n) ==
  {m \in DOMAIN levels : m > n /\ \A k \in n + 1 .. m : levels[k].parent >= n}

EntriesOf(levels, n) == {m \in DOMAIN levels : levels[m].parent = n}

\* What an entry leads to: itself and what is below it.
Branch(levels, n) == {n} \cup Below(levels, n)

\* Below a level is what its entries lead to, and nothing else.
LEMMA BelowIs ==
  ASSUME NEW levels, IsTree(levels), NEW n \in 0 .. Len(levels)
  PROVE  /\ \A c \in EntriesOf(levels, n) : c > n /\ Branch(levels, c) \subseteq Below(levels, n)
         /\ \A m \in Below(levels, n) : \E c \in EntriesOf(levels, n) : m \in Branch(levels, c)
<1>. PICK N \in Nat : N = Len(levels) /\ DOMAIN levels = 1 .. N
  BY TreeIs
<1>0. \A m \in 1 .. N : levels[m].parent \in 0 .. m - 1
  BY TreeIs
<1>n. n \in 0 .. N
  OBVIOUS
<1>t. \A m \in 1 .. N : \A k \in levels[m].parent + 1 .. m - 1 : levels[k].parent >= levels[m].parent
  BY DEF IsTree
<1>1. ASSUME NEW c \in EntriesOf(levels, n) PROVE c > n /\ Branch(levels, c) \subseteq Below(levels, n)
  <2>1. c \in 1 .. N /\ levels[c].parent = n
    BY DEF EntriesOf
  <2>2. c > n /\ \A k \in n + 1 .. c : levels[k].parent >= n
    <3>1. c > n
      BY <1>0, <1>n, <2>1
    <3>2. \A k \in n + 1 .. c - 1 : levels[k].parent >= n
      BY <1>t, <2>1
    <3>3. ASSUME NEW k \in n + 1 .. c PROVE levels[k].parent >= n
      <4>1. k \in n + 1 .. c - 1 \/ k = c
        BY <1>n, <2>1
      <4>2. CASE k = c
        BY <1>n, <2>1, <4>2
      <4>. QED BY <3>2, <4>1, <4>2
    <3>. QED BY <3>1, <3>3
  <2>3. ASSUME NEW m \in Below(levels, c) PROVE m \in Below(levels, n)
    <3>1. m \in 1 .. N /\ m > c /\ \A k \in c + 1 .. m : levels[k].parent >= c
      BY DEF Below
    <3>2. ASSUME NEW k \in n + 1 .. m PROVE levels[k].parent >= n
      <4>1. k \in 1 .. N
        BY <1>n, <3>1
      <4>2. CASE k \in n + 1 .. c
        BY <2>2, <4>2
      <4>3. CASE k \in c + 1 .. m
        BY <1>0, <1>n, <2>1, <2>2, <3>1, <4>1, <4>3
      <4>. QED BY <1>n, <2>1, <3>1, <4>2, <4>3
    <3>. QED BY <1>n, <2>1, <2>2, <3>1, <3>2 DEF Below
  <2>4. c \in Below(levels, n)
    BY <2>1, <2>2 DEF Below
  <2>. QED BY <2>2, <2>3, <2>4 DEF Branch
<1>2. \A m \in Below(levels, n) : \E c \in EntriesOf(levels, n) : m \in Branch(levels, c)
  <2>. DEFINE bad == {m \in Below(levels, n) : ~\E c \in EntriesOf(levels, n) : m \in Branch(levels, c)}
  <2>. SUFFICES ASSUME bad # {} PROVE FALSE
    OBVIOUS
  <2>1. PICK m \in bad : \A k \in bad : m <= k
    <3>1. bad \in SUBSET Nat
      BY DEF Below
    <3>. HIDE DEF bad
    <3>. QED BY <3>1, HasLeast
  <2>2. m \in 1 .. N /\ m > n /\ \A k \in n + 1 .. m : levels[k].parent >= n
    BY DEF Below
  <2>. PICK p : p = levels[m].parent
    OBVIOUS
  <2>3. p \in n .. m - 1
    BY <1>0, <1>n, <2>2
  <2>4. CASE p = n
    BY <2>2, <2>4 DEF EntriesOf, Branch
  <2>5. CASE p > n
    <3>1. p \in Below(levels, n)
      BY <1>n, <2>2, <2>3, <2>5 DEF Below
    <3>2. p \notin bad
      BY <2>1, <2>2, <2>3
    <3>3. PICK c \in EntriesOf(levels, n) : p \in Branch(levels, c)
      BY <3>1, <3>2
    <3>4. c \in 1 .. N /\ c <= p /\ \A k \in c + 1 .. p : levels[k].parent >= c
      BY <3>3 DEF EntriesOf, Branch, Below
    <3>5. ASSUME NEW k \in c + 1 .. m PROVE levels[k].parent >= c
      <4>1. k \in 1 .. N
        BY <2>2, <3>4
      <4>2. CASE k \in c + 1 .. p
        BY <3>4, <4>2
      <4>3. CASE k \in p + 1 .. m - 1
        <5>1. levels[k].parent >= p
          BY <1>t, <2>2, <4>3
        <5>. QED BY <1>0, <2>3, <3>4, <4>1, <5>1
      <4>4. CASE k = m
        BY <2>3, <3>4, <4>4
      <4>. QED BY <2>2, <2>3, <3>4, <4>2, <4>3, <4>4
    <3>6. m \in Below(levels, c)
      BY <2>2, <2>3, <3>4, <3>5 DEF Below
    <3>. QED BY <3>6 DEF Branch
  <2>. QED BY <1>n, <2>3, <2>4, <2>5
<1>. QED BY <1>1, <1>2

\* What an entry leads to comes before the next entries.
LEMMA BranchesInOrder ==
  ASSUME NEW levels, IsTree(levels), NEW n \in 0 .. Len(levels),
         NEW b \in EntriesOf(levels, n), NEW c \in EntriesOf(levels, n), b < c,
         NEW m \in Branch(levels, b)
  PROVE  m < c
<1>. PICK N \in Nat : N = Len(levels) /\ DOMAIN levels = 1 .. N
  BY TreeIs
<1>1. b \in 1 .. N /\ c \in 1 .. N /\ levels[b].parent = n /\ levels[c].parent = n /\ n < b
  BY TreeIs DEF EntriesOf
<1>2. m = b \/ (m \in 1 .. N /\ \A k \in b + 1 .. m : levels[k].parent >= b)
  BY DEF Branch, Below
<1>3. CASE m = b
  BY <1>1, <1>3
<1>4. CASE m \in 1 .. N /\ \A k \in b + 1 .. m : levels[k].parent >= b
  <2>. SUFFICES ASSUME c <= m PROVE FALSE
    BY <1>1, <1>4
  <2>1. c \in b + 1 .. m
    BY <1>1, <1>4
  <2>2. levels[c].parent >= b
    BY <1>4, <2>1
  <2>. QED BY <1>1, <2>2
<1>. QED BY <1>2, <1>3, <1>4

-----------------------------------------------------------------------------
(* The filters of the levels.                                              *)

IsFilter(filter, levels) ==
  filter = [n \in 0 .. Len(levels) |->
              IF n = 0 THEN <<>> ELSE Append(filter[levels[n].parent], levels[n].name)]

Leads(filter, levels) ==
  /\ filter[0] = <<>>
  /\ \A n \in 1 .. Len(levels) : filter[n] = Append(filter[levels[n].parent], levels[n].name)
  /\ \A n \in 0 .. Len(levels) : filter[n] \in Seq(STRING)

\* Path satisfies its equations, and every path leads to its level.
LEMMA FilterIs ==
  ASSUME NEW levels, IsTree(levels)
  PROVE  Leads(Path(levels), levels)
<1>. PICK N \in Nat : N = Len(levels) /\ DOMAIN levels = 1 .. N
  BY TreeIs
<1>0. \A m \in 1 .. N : levels[m].parent \in 0 .. m - 1 /\ levels[m].name \in STRING
  BY TreeIs
<1>1. \E filter : IsFilter(filter, levels)
  <2>. DEFINE back == [k \in 1 .. N |-> levels[k].parent]
              step == [k \in 1 .. N |-> [x \in Seq(STRING) |-> Append(x, levels[k].name)]]
  <2>1. back \in [1 .. N -> Nat] /\ \A k \in 1 .. N : back[k] < k
    BY <1>0
  <2>2. step \in [1 .. N -> [Seq(STRING) -> Seq(STRING)]]
    BY <1>0
  <2>3. PICK f \in [0 .. N -> Seq(STRING)] : Descends(f, N, <<>>, back, step)
    <3>1. <<>> \in Seq(STRING)
      OBVIOUS
    <3>. HIDE DEF back, step
    <3>. QED BY <2>1, <2>2, <3>1, Recursion
  <2>4. ASSUME NEW k \in 0 .. N
        PROVE  f[k] = IF k = 0 THEN <<>> ELSE Append(f[levels[k].parent], levels[k].name)
    <3>1. CASE k = 0
      BY <2>3, <3>1 DEF Descends
    <3>2. CASE k # 0
      <4>1. k \in 1 .. N /\ back[k] = levels[k].parent /\ f[levels[k].parent] \in Seq(STRING)
        BY <1>0, <3>2
      <4>2. f[k] = step[k][f[levels[k].parent]]
        BY <2>3, <4>1 DEF Descends
      <4>. QED BY <3>2, <4>1, <4>2
    <3>. QED BY <3>1, <3>2
  <2>5. f = [k \in 0 .. N |-> IF k = 0 THEN <<>> ELSE Append(f[levels[k].parent], levels[k].name)]
    BY <2>4
  <2>. QED BY <2>5 DEF IsFilter
<1>2. PICK filter : /\ IsFilter(filter, levels)
                    /\ filter = CHOOSE f : f = [n \in 0 .. Len(levels) |->
                         IF n = 0 THEN <<>> ELSE Append(f[levels[n].parent], levels[n].name)]
  BY <1>1 DEF IsFilter
<1>3. Path(levels) = filter
  BY <1>2 DEF Path
<1>4. filter[0] = <<>> /\ \A n \in 1 .. N : filter[n] = Append(filter[levels[n].parent], levels[n].name)
  <2>1. \A n \in 0 .. N :
          filter[n] = IF n = 0 THEN <<>> ELSE Append(filter[levels[n].parent], levels[n].name)
    BY <1>2 DEF IsFilter
  <2>2. filter[0] = <<>>
    <3>1. 0 \in 0 .. N
      OBVIOUS
    <3>. QED BY <2>1, <3>1, Zenon
  <2>3. ASSUME NEW n \in 1 .. N
        PROVE  filter[n] = Append(filter[levels[n].parent], levels[n].name)
    <3>1. n \in 0 .. N /\ n # 0
      OBVIOUS
    <3>. QED BY <2>1, <3>1, Zenon
  <2>. QED BY <2>2, <2>3
<1>5. \A n \in 0 .. N : filter[n] \in Seq(STRING)
  <2>. DEFINE bad == {n \in 0 .. N : filter[n] \notin Seq(STRING)}
  <2>. SUFFICES ASSUME bad # {} PROVE FALSE
    OBVIOUS
  <2>1. \A k : k \in bad <=> (k \in 0 .. N /\ filter[k] \notin Seq(STRING))
    OBVIOUS
  <2>. HIDE DEF bad
  <2>2. PICK n \in bad : \A k \in bad : n <= k
    <3>1. bad \in SUBSET Nat
      BY <2>1
    <3>. QED BY <3>1, HasLeast
  <2>3. n \in 0 .. N /\ filter[n] \notin Seq(STRING)
    BY <2>1
  <2>4. n # 0
    <3>1. <<>> \in Seq(STRING)
      OBVIOUS
    <3>. QED BY <1>4, <2>3, <3>1, Zenon
  <2>. PICK p : p = levels[n].parent
    OBVIOUS
  <2>5. n \in 1 .. N /\ p \in 0 .. N /\ ~(n <= p)
    BY <1>0, <2>3, <2>4
  <2>6. filter[p] \in Seq(STRING)
    BY <2>1, <2>2, <2>5
  <2>7. levels[n].name \in STRING /\ filter[n] = Append(filter[p], levels[n].name)
    BY <1>0, <1>4, <2>5
  <2>8. Append(filter[p], levels[n].name) \in Seq(STRING)
    BY <2>6, <2>7, AppendProperties
  <2>. QED BY <2>3, <2>7, <2>8
<1>. QED BY <1>3, <1>4, <1>5 DEF Leads

\* The filter of a level goes on in those below it.
LEMMA GoesOn ==
  ASSUME NEW levels, IsTree(levels), NEW filter, Leads(filter, levels),
         NEW n \in 0 .. Len(levels), NEW m \in Below(levels, n)
  PROVE  Len(filter[n]) < Len(filter[m]) /\ \A i \in 1 .. Len(filter[n]) : filter[m][i] = filter[n][i]
<1>. PICK N \in Nat : N = Len(levels) /\ DOMAIN levels = 1 .. N
  BY TreeIs
<1>0. \A k \in 1 .. N : levels[k].parent \in 0 .. k - 1 /\ levels[k].name \in STRING
  BY TreeIs
<1>1. n \in 0 .. N /\ filter[n] \in Seq(STRING)
  BY DEF Leads
<1>. DEFINE good(x) == /\ Len(filter[n]) < Len(filter[x])
                       /\ \A i \in 1 .. Len(filter[n]) : filter[x][i] = filter[n][i]
            bad == {x \in Below(levels, n) : ~good(x)}
<1>. SUFFICES ASSUME bad # {} PROVE FALSE
  OBVIOUS
<1>b. \A x : x \in bad <=> (x \in Below(levels, n) /\ ~good(x))
  OBVIOUS
<1>. HIDE DEF bad
<1>2. PICK x \in bad : \A k \in bad : x <= k
  <2>1. bad \in SUBSET Nat
    BY <1>b DEF Below
  <2>. QED BY <2>1, HasLeast
<1>3. x \in 1 .. N /\ x > n /\ \A k \in n + 1 .. x : levels[k].parent >= n
  BY <1>b DEF Below
<1>. PICK p : p = levels[x].parent
  OBVIOUS
<1>4. p \in n .. x - 1 /\ p \in 0 .. N
  BY <1>0, <1>1, <1>3
<1>5. filter[p] \in Seq(STRING) /\ filter[x] = Append(filter[p], levels[x].name)
  BY <1>3, <1>4 DEF Leads
<1>6. Len(filter[x]) = Len(filter[p]) + 1 /\ \A i \in 1 .. Len(filter[p]) : filter[x][i] = filter[p][i]
  BY <1>0, <1>3, <1>5
<1>7. p = n \/ good(p)
  <2>. SUFFICES ASSUME p # n PROVE good(p)
    OBVIOUS
  <2>1. p \in Below(levels, n)
    BY <1>1, <1>3, <1>4 DEF Below
  <2>2. p \notin bad
    <3>1. ~(x <= p)
      BY <1>3, <1>4
    <3>. QED BY <1>2, <3>1, Zenon
  <2>. QED BY <1>b, <2>1, <2>2
<1>8. good(x)
  BY <1>1, <1>5, <1>6, <1>7
<1>. QED BY <1>b, <1>8

-----------------------------------------------------------------------------
(* The search.                                                             *)

\* What FirstFound gives, by its definition.
LEMMA FirstFoundIs ==
  ASSUME NEW found, DOMAIN found \subseteq Nat
  PROVE  \/ FirstFound(found) = 0 /\ \A m \in DOMAIN found : found[m] = 0
         \/ \E c \in DOMAIN found :
              /\ FirstFound(found) = found[c] /\ found[c] # 0
              /\ \A m \in DOMAIN found : found[m] # 0 => c <= m
<1>. DEFINE hits == {m \in DOMAIN found : found[m] # 0}
<1>1. CASE hits = {}
  BY <1>1 DEF FirstFound
<1>2. CASE hits # {}
  <2>1. Min(hits) \in hits /\ \A m \in hits : Min(hits) <= m
    <3>1. hits \in SUBSET Nat
      OBVIOUS
    <3>. HIDE DEF hits
    <3>. QED BY <1>2, <3>1, MinIs
  <2>2. FirstFound(found) = found[Min(hits)]
    BY <1>2 DEF FirstFound
  <2>. QED BY <2>1, <2>2
<1>. QED BY <1>1, <1>2

\* What an entry finds, if rest is found below it.
Finds(levels, topic, m, k, rest) ==
  IF ~NameMatches(levels[m].name, topic[k]) THEN 0
  ELSE IF k = Len(topic) THEN m ELSE rest

IsSearch(search, levels, topic) ==
  search = [k \in DOMAIN topic |-> [n \in 0 .. Len(levels) |->
              FirstFound([m \in EntriesOf(levels, n) |->
                Finds(levels, topic, m, k, search[k + 1][m])])]]

Searches(search, levels, topic) ==
  \A k \in 1 .. Len(topic), n \in 0 .. Len(levels) :
    search[k][n] = FirstFound([m \in EntriesOf(levels, n) |->
                     Finds(levels, topic, m, k, search[k + 1][m])])

\* The search is defined.
LEMMA SearchExists ==
  ASSUME NEW levels, IsTree(levels), NEW topic \in Topic
  PROVE  \E search : IsSearch(search, levels, topic)
<1>. PICK N \in Nat : N = Len(levels) /\ DOMAIN levels = 1 .. N
  BY TreeIs
<1>. PICK L \in Nat : L = Len(topic) /\ DOMAIN topic = 1 .. L /\ L > 0
  BY DEF Topic
<1>. DEFINE row(k, rest) == [n \in 0 .. N |-> FirstFound([m \in EntriesOf(levels, n) |->
                                                Finds(levels, topic, m, k, rest[m])])]
            none == [n \in 0 .. N |-> 0]
            back == [d \in 1 .. L |-> d - 1]
            step == [d \in 1 .. L |-> [rest \in [0 .. N -> 0 .. N] |-> row(L + 1 - d, rest)]]
<1>1. ASSUME NEW k, NEW rest \in [0 .. N -> 0 .. N] PROVE row(k, rest) \in [0 .. N -> 0 .. N]
  <2>1. ASSUME NEW n \in 0 .. N
        PROVE  FirstFound([m \in EntriesOf(levels, n) |-> Finds(levels, topic, m, k, rest[m])]) \in 0 .. N
    <3>. DEFINE found == [m \in EntriesOf(levels, n) |-> Finds(levels, topic, m, k, rest[m])]
    <3>1. EntriesOf(levels, n) \subseteq 1 .. N
      BY DEF EntriesOf
    <3>2. DOMAIN found = EntriesOf(levels, n) /\ \A m \in EntriesOf(levels, n) : found[m] \in 0 .. N
      BY <3>1 DEF Finds
    <3>3. DOMAIN found \subseteq Nat
      BY <3>1, <3>2
    <3>. HIDE DEF found
    <3>4. FirstFound(found) = 0 \/ \E c \in DOMAIN found : FirstFound(found) = found[c]
      BY <3>3, FirstFoundIs
    <3>5. FirstFound(found) \in 0 .. N
      BY <3>2, <3>4
    <3>. QED BY <3>5 DEF found
  <2>. QED BY <2>1
<1>2. PICK f \in [0 .. L -> [0 .. N -> 0 .. N]] : Descends(f, L, none, back, step)
  <2>1. back \in [1 .. L -> Nat] /\ \A d \in 1 .. L : back[d] < d
    OBVIOUS
  <2>2. step \in [1 .. L -> [[0 .. N -> 0 .. N] -> [0 .. N -> 0 .. N]]]
    <3>. HIDE DEF row
    <3>. QED BY <1>1
  <2>3. none \in [0 .. N -> 0 .. N]
    OBVIOUS
  <2>. HIDE DEF back, step, none
  <2>. QED BY <2>1, <2>2, <2>3, Recursion
<1>. HIDE DEF row
<1>3. ASSUME NEW k \in 1 .. L PROVE f[L + 1 - k] = row(k, f[L - k])
  <2>1. L + 1 - k \in 1 .. L
    OBVIOUS
  <2>. PICK d \in 1 .. L : d = L + 1 - k
    BY <2>1
  <2>2. back[d] = L - k /\ L + 1 - d = k /\ L - k \in 0 .. L
    OBVIOUS
  <2>3. f[d] = step[d][f[back[d]]]
    BY <1>2 DEF Descends
  <2>4. f[L - k] \in [0 .. N -> 0 .. N]
    BY <2>2
  <2>5. f[d] = row(L + 1 - d, f[L - k])
    BY <2>2, <2>3, <2>4
  <2>. QED BY <2>2, <2>5
<1>. DEFINE search == [k \in 1 .. L |-> f[L + 1 - k]]
<1>4. ASSUME NEW k \in 1 .. L, NEW n \in 0 .. N, NEW m \in EntriesOf(levels, n)
      PROVE  Finds(levels, topic, m, k, f[L - k][m]) = Finds(levels, topic, m, k, search[k + 1][m])
  <2>1. CASE k = L
    BY <2>1 DEF Finds
  <2>2. CASE k # L
    <3>1. k + 1 \in 1 .. L /\ L + 1 - (k + 1) = L - k
      BY <2>2
    <3>2. search[k + 1] = f[L - k]
      BY <3>1
    <3>. HIDE DEF search
    <3>. QED BY <3>2
  <2>. QED BY <2>1, <2>2
<1>5. ASSUME NEW k \in 1 .. L
      PROVE  f[L + 1 - k] = [n \in 0 .. N |-> FirstFound([m \in EntriesOf(levels, n) |->
                                                Finds(levels, topic, m, k, search[k + 1][m])])]
  <2>. HIDE DEF search
  <2>1. ASSUME NEW n \in 0 .. N
        PROVE  [m \in EntriesOf(levels, n) |-> Finds(levels, topic, m, k, f[L - k][m])]
                 = [m \in EntriesOf(levels, n) |-> Finds(levels, topic, m, k, search[k + 1][m])]
    BY <1>4
  <2>2. row(k, f[L - k]) = [n \in 0 .. N |-> FirstFound([m \in EntriesOf(levels, n) |->
                                               Finds(levels, topic, m, k, search[k + 1][m])])]
    BY <2>1 DEF row
  <2>. QED BY <1>3, <2>2
<1>6. \A k \in 1 .. L : search[k] = f[L + 1 - k]
  OBVIOUS
<1>7. search = [k \in 1 .. L |-> search[k]]
  OBVIOUS
<1>. HIDE DEF search
<1>. DEFINE line(k) == [n \in 0 .. N |-> FirstFound([m \in EntriesOf(levels, n) |->
                                           Finds(levels, topic, m, k, search[k + 1][m])])]
<1>8. search = [k \in 1 .. L |-> line(k)]
  <2>1. \A k \in 1 .. L : search[k] = line(k)
    BY <1>5, <1>6
  <2>. HIDE DEF line
  <2>2. [k \in 1 .. L |-> search[k]] = [k \in 1 .. L |-> line(k)]
    BY <2>1
  <2>. QED BY <1>7, <2>2
<1>9. IsSearch(search, levels, topic)
  BY <1>8 DEF IsSearch
<1>. QED BY <1>9

\* FindMatchingTopicLevel gives what that search finds from the top.
LEMMA SearchIs ==
  ASSUME NEW levels, IsTree(levels), NEW topic \in Topic
  PROVE  \E search : Searches(search, levels, topic) /\ FindMatchingTopicLevel(levels, topic) = search[1][0]
<1>1. \E s : s = [k \in DOMAIN topic |-> [n \in 0 .. Len(levels) |->
             FirstFound([m \in {m \in DOMAIN levels : levels[m].parent = n} |->
               IF ~NameMatches(levels[m].name, topic[k]) THEN 0
               ELSE IF k = Len(topic) THEN m ELSE s[k + 1][m]])]]
  BY SearchExists DEF IsSearch, EntriesOf, Finds
<1>2. PICK search :
        /\ search = [k \in DOMAIN topic |-> [n \in 0 .. Len(levels) |->
             FirstFound([m \in {m \in DOMAIN levels : levels[m].parent = n} |->
               IF ~NameMatches(levels[m].name, topic[k]) THEN 0
               ELSE IF k = Len(topic) THEN m ELSE search[k + 1][m]])]]
        /\ search = CHOOSE s : s = [k \in DOMAIN topic |-> [n \in 0 .. Len(levels) |->
             FirstFound([m \in {m \in DOMAIN levels : levels[m].parent = n} |->
               IF ~NameMatches(levels[m].name, topic[k]) THEN 0
               ELSE IF k = Len(topic) THEN m ELSE s[k + 1][m]])]]
  BY <1>1
<1>3. FindMatchingTopicLevel(levels, topic) = search[1][0]
  BY <1>2 DEF FindMatchingTopicLevel
<1>4. DOMAIN topic = 1 .. Len(topic)
  BY DEF Topic
<1>5. IsSearch(search, levels, topic)
  BY <1>2 DEF IsSearch, EntriesOf, Finds
<1>6. Searches(search, levels, topic)
  <2>. DEFINE at(k, n) == FirstFound([m \in EntriesOf(levels, n) |->
                            Finds(levels, topic, m, k, search[k + 1][m])])
  <2>1. search = [k \in 1 .. Len(topic) |-> [n \in 0 .. Len(levels) |-> at(k, n)]]
    BY <1>4, <1>5 DEF IsSearch
  <2>. HIDE DEF at
  <2>2. \A k \in 1 .. Len(topic), n \in 0 .. Len(levels) : search[k][n] = at(k, n)
    <3>. PICK s : s = [k \in 1 .. Len(topic) |-> [n \in 0 .. Len(levels) |-> at(k, n)]]
      OBVIOUS
    <3>1. search = s
      BY <2>1
    <3>2. \A k \in 1 .. Len(topic), n \in 0 .. Len(levels) : s[k][n] = at(k, n)
      OBVIOUS
    <3>. QED BY <3>1, <3>2
  <2>. QED BY <2>2 DEF at, Searches
<1>. QED BY <1>3, <1>6

\* The least number of a set of them, or 0.
IsLeast(x, S) == (S = {} /\ x = 0) \/ (x \in S /\ \A y \in S : x <= y)

Fitting(levels, filter, topic) == {m \in DOMAIN levels : Fits(filter[m], topic)}

\* The filter of a level matches the first levels of a topic.
Begins(filter, n, topic) ==
  \A i \in 1 .. Len(filter[n]) : NameMatches(filter[n][i], topic[i])

\* An entry finds the first level that fits where it leads to.
LEMMA EntryFinds ==
  ASSUME NEW levels, IsTree(levels), NEW filter, Leads(filter, levels), NEW topic \in Topic,
         NEW n \in 0 .. Len(levels), NEW m \in EntriesOf(levels, n),
         NEW k, k = Len(filter[n]) + 1, k <= Len(topic), Begins(filter, n, topic), NEW rest,
         (k < Len(topic) /\ Begins(filter, m, topic))
           => IsLeast(rest, Fitting(levels, filter, topic) \cap Below(levels, m))
  PROVE  IsLeast(Finds(levels, topic, m, k, rest),
                 Fitting(levels, filter, topic) \cap Branch(levels, m))
<1>. PICK N \in Nat : N = Len(levels) /\ DOMAIN levels = 1 .. N
  BY TreeIs
<1>. PICK L \in Nat : L = Len(topic) /\ DOMAIN topic = 1 .. L
  BY DEF Topic
<1>. PICK name : name = levels[m].name
  OBVIOUS
<1>1. m \in 1 .. N /\ levels[m].parent = n /\ name \in STRING
  BY TreeIs DEF EntriesOf
<1>2. filter[n] \in Seq(STRING) /\ filter[m] = Append(filter[n], name)
  BY <1>1 DEF Leads
<1>3. /\ k \in Nat /\ Len(filter[m]) = k /\ filter[m][k] = name
      /\ \A i \in 1 .. k - 1 : filter[m][i] = filter[n][i]
  BY <1>1, <1>2
<1>4. \A x \in Below(levels, m) : /\ x \in 1 .. N /\ x > m
                                  /\ Len(filter[x]) > k
                                  /\ filter[x][k] = name
  <2>1. \A x \in Below(levels, m) : x \in 1 .. N /\ x > m
    BY DEF Below
  <2>2. ASSUME NEW x \in Below(levels, m) PROVE Len(filter[x]) > k /\ filter[x][k] = name
    <3>1. m \in 0 .. Len(levels)
      BY <1>1
    <3>2. /\ Len(filter[m]) < Len(filter[x])
          /\ \A i \in 1 .. Len(filter[m]) : filter[x][i] = filter[m][i]
      BY <3>1, GoesOn
    <3>3. x \in 0 .. Len(levels)
      BY <2>1
    <3>4. filter[x] \in Seq(STRING)
      BY <3>3 DEF Leads
    <3>5. Len(filter[x]) \in Nat
      BY <3>4
    <3>. QED BY <1>3, <3>2, <3>5
  <2>. QED BY <2>1, <2>2
<1>. DEFINE fitting == Fitting(levels, filter, topic)
<1>f. \A x : x \in fitting <=> (x \in 1 .. N /\ Fits(filter[x], topic))
  BY DEF Fitting
<1>. HIDE DEF fitting
<1>5. CASE ~NameMatches(name, topic[k])
  <2>1. Finds(levels, topic, m, k, rest) = 0
    BY <1>5 DEF Finds
  <2>2. ASSUME NEW x \in Branch(levels, m), x \in fitting PROVE FALSE
    <3>1. filter[x][k] = name
      BY <1>3, <1>4 DEF Branch
    <3>2. k \in DOMAIN topic
      BY <1>3
    <3>3. NameMatches(filter[x][k], topic[k])
      BY <1>f, <2>2, <3>2 DEF Fits
    <3>. QED BY <1>5, <3>1, <3>3
  <2>3. fitting \cap Branch(levels, m) = {}
    BY <2>2
  <2>4. IsLeast(Finds(levels, topic, m, k, rest), fitting \cap Branch(levels, m))
    BY <2>1, <2>3 DEF IsLeast
  <2>. QED BY <2>4 DEF fitting
<1>6. CASE NameMatches(name, topic[k])
  <2>1. Begins(filter, m, topic)
    <3>1. ASSUME NEW i \in 1 .. k PROVE NameMatches(filter[m][i], topic[i])
      <4>1. CASE i = k
        BY <1>3, <1>6, <4>1
      <4>2. CASE i \in 1 .. k - 1
        <5>1. i \in 1 .. Len(filter[n]) /\ filter[m][i] = filter[n][i]
          BY <1>2, <1>3, <4>2
        <5>. QED BY <5>1 DEF Begins
      <4>. QED BY <1>3, <4>1, <4>2
    <3>. QED BY <1>3, <3>1 DEF Begins
  <2>2. CASE k = L
    <3>1. Finds(levels, topic, m, k, rest) = m
      BY <1>6, <2>2 DEF Finds
    <3>2. m \in fitting
      BY <1>1, <1>3, <1>f, <2>1, <2>2 DEF Begins, Fits
    <3>3. \A x \in Branch(levels, m) : m <= x
      BY <1>1, <1>4 DEF Branch
    <3>4. IsLeast(m, fitting \cap Branch(levels, m))
      BY <3>2, <3>3 DEF IsLeast, Branch
    <3>. QED BY <3>1, <3>4 DEF fitting
  <2>3. CASE k # L
    <3>1. Finds(levels, topic, m, k, rest) = rest
      BY <1>6, <2>3 DEF Finds
    <3>2. k < L
      BY <1>3, <2>3
    <3>3. IsLeast(rest, fitting \cap Below(levels, m))
      BY <2>1, <3>2 DEF fitting
    <3>4. m \notin fitting
      BY <1>3, <1>f, <2>3 DEF Fits
    <3>5. fitting \cap Branch(levels, m) = fitting \cap Below(levels, m)
      BY <3>4 DEF Branch
    <3>. QED BY <3>1, <3>3, <3>5 DEF fitting
  <2>. QED BY <2>2, <2>3
<1>. QED BY <1>5, <1>6

\* What the first entry has found is the first level that fits.
LEMMA EntriesFind ==
  ASSUME NEW levels, IsTree(levels), NEW n \in 0 .. Len(levels), NEW fitting,
         NEW found, DOMAIN found = EntriesOf(levels, n),
         \A m \in EntriesOf(levels, n) : IsLeast(found[m], fitting \cap Branch(levels, m))
  PROVE  IsLeast(FirstFound(found), fitting \cap Below(levels, n))
<1>. PICK N \in Nat : N = Len(levels) /\ DOMAIN levels = 1 .. N
  BY TreeIs
<1>0. EntriesOf(levels, n) \subseteq 1 .. N /\ \A m : Branch(levels, m) \subseteq {m} \cup 1 .. N
  BY DEF EntriesOf, Branch, Below
<1>1. \A m \in EntriesOf(levels, n) : Branch(levels, m) \subseteq Below(levels, n)
  BY BelowIs
<1>2. \A x \in Below(levels, n) : \E m \in EntriesOf(levels, n) : x \in Branch(levels, m)
  BY BelowIs
<1>3. ASSUME NEW m \in EntriesOf(levels, n), NEW x \in Branch(levels, m), x \in fitting
      PROVE  found[m] # 0 /\ found[m] <= x
  BY <1>0, <1>3 DEF IsLeast
<1>4. DOMAIN found \subseteq Nat
  BY <1>0
<1>5. CASE FirstFound(found) = 0 /\ \A m \in DOMAIN found : found[m] = 0
  <2>1. fitting \cap Below(levels, n) = {}
    BY <1>2, <1>3, <1>5
  <2>. QED BY <1>5, <2>1 DEF IsLeast
<1>6. ASSUME NEW c \in DOMAIN found, FirstFound(found) = found[c], found[c] # 0,
             \A m \in DOMAIN found : found[m] # 0 => c <= m
      PROVE  IsLeast(FirstFound(found), fitting \cap Below(levels, n))
  <2>1. found[c] \in fitting \cap Branch(levels, c)
    BY <1>6 DEF IsLeast
  <2>2. ASSUME NEW x \in fitting \cap Below(levels, n) PROVE found[c] <= x
    <3>1. PICK m \in EntriesOf(levels, n) : x \in Branch(levels, m)
      BY <1>2
    <3>2. found[m] # 0 /\ found[m] <= x
      BY <1>3, <3>1
    <3>3. c <= m /\ c \in 1 .. N /\ m \in 1 .. N /\ x \in 1 .. N /\ found[c] \in 1 .. N
      BY <1>0, <1>6, <2>1, <3>1, <3>2
    <3>4. CASE m = c
      BY <3>2, <3>4
    <3>5. CASE c < m
      <4>1. found[c] < m
        BY <2>1, <3>5, BranchesInOrder
      <4>2. m <= x
        BY <3>1, <3>3 DEF Branch, Below
      <4>. QED BY <3>3, <4>1, <4>2
    <3>. QED BY <3>3, <3>4, <3>5
  <2>3. found[c] \in fitting \cap Below(levels, n)
    BY <1>1, <2>1
  <2>. QED BY <1>6, <2>2, <2>3 DEF IsLeast
<1>. QED BY <1>4, <1>5, <1>6, FirstFoundIs

\* The search finds the first level of the document that fits.
LEMMA FindsTheFirst ==
  ASSUME NEW levels, IsTree(levels), NEW topic \in Topic
  PROVE  IsLeast(FindMatchingTopicLevel(levels, topic), Fitting(levels, Path(levels), topic))
<1>. PICK N \in Nat : N = Len(levels) /\ DOMAIN levels = 1 .. N
  BY TreeIs
<1>. PICK L \in Nat : L = Len(topic) /\ DOMAIN topic = 1 .. L /\ L > 0
  BY DEF Topic
<1>. PICK filter : filter = Path(levels) /\ Leads(filter, levels)
  BY FilterIs
<1>1. PICK search : Searches(search, levels, topic) /\ FindMatchingTopicLevel(levels, topic) = search[1][0]
  BY SearchIs
<1>. DEFINE fitting == Fitting(levels, filter, topic)
            right(k) == \A n \in 0 .. N : (Len(filter[n]) + 1 = k /\ Begins(filter, n, topic))
                          => IsLeast(search[k][n], fitting \cap Below(levels, n))
            done == {d \in Nat : d < L => right(L - d)}
<1>2. ASSUME NEW k \in 1 .. L, k < L => right(k + 1) PROVE right(k)
  <2>. SUFFICES ASSUME NEW n \in 0 .. N, Len(filter[n]) + 1 = k, Begins(filter, n, topic)
                PROVE  IsLeast(search[k][n], fitting \cap Below(levels, n))
    OBVIOUS
  <2>. DEFINE found == [m \in EntriesOf(levels, n) |-> Finds(levels, topic, m, k, search[k + 1][m])]
  <2>1. ASSUME NEW m \in EntriesOf(levels, n) PROVE IsLeast(found[m], fitting \cap Branch(levels, m))
    <3>1. m \in 1 .. N /\ levels[m].parent = n /\ levels[m].name \in STRING
      BY TreeIs DEF EntriesOf
    <3>2. filter[n] \in Seq(STRING) /\ filter[m] = Append(filter[n], levels[m].name)
      BY <3>1 DEF Leads
    <3>3. Len(filter[m]) = k
      BY <3>1, <3>2
    <3>. PICK rest : rest = search[k + 1][m]
      OBVIOUS
    <3>. HIDE DEF fitting
    <3>4. ASSUME k < L, Begins(filter, m, topic) PROVE IsLeast(rest, fitting \cap Below(levels, m))
      <4>1. m \in 0 .. N /\ Len(filter[m]) + 1 = k + 1
        BY <3>1, <3>3
      <4>2. right(k + 1)
        BY <1>2, <3>4
      <4>. QED BY <3>4, <4>1, <4>2, Zenon
    <3>5. n \in 0 .. Len(levels) /\ k = Len(filter[n]) + 1 /\ k <= Len(topic)
      OBVIOUS
    <3>6. (k < Len(topic) /\ Begins(filter, m, topic))
            => IsLeast(rest, Fitting(levels, filter, topic) \cap Below(levels, m))
      BY <3>4 DEF fitting
    <3>7. IsLeast(Finds(levels, topic, m, k, rest), Fitting(levels, filter, topic) \cap Branch(levels, m))
      <4>. HIDE DEF right
      <4>. QED BY <3>5, <3>6, EntryFinds
    <3>8. found[m] = Finds(levels, topic, m, k, rest)
      OBVIOUS
    <3>. QED BY <3>7, <3>8 DEF fitting
  <2>2. search[k][n] = FirstFound(found)
    BY <1>1 DEF Searches
  <2>3. DOMAIN found = EntriesOf(levels, n)
    OBVIOUS
  <2>. HIDE DEF found, fitting
  <2>4. IsLeast(FirstFound(found), fitting \cap Below(levels, n))
    BY <2>1, <2>3, EntriesFind
  <2>. QED BY <2>2, <2>4
<1>. HIDE DEF right
<1>3. 0 \in done
  <2>1. right(L)
    BY <1>2
  <2>. QED BY <2>1
<1>4. ASSUME NEW d \in Nat, d \in done PROVE d + 1 \in done
  <2>. SUFFICES ASSUME d + 1 < L PROVE right(L - (d + 1))
    OBVIOUS
  <2>1. L - (d + 1) \in 1 .. L /\ (L - (d + 1)) + 1 = L - d /\ right(L - d)
    BY <1>4
  <2>. QED BY <1>2, <2>1
<1>. HIDE DEF done
<1>5. L - 1 \in done
  BY <1>3, <1>4, Induction
<1>6. right(1)
  BY <1>5 DEF done
<1>7. IsLeast(search[1][0], fitting \cap Below(levels, 0))
  <2>1. filter[0] = <<>> /\ 0 \in 0 .. N
    BY DEF Leads
  <2>2. Begins(filter, 0, topic) /\ Len(filter[0]) + 1 = 1
    BY <2>1 DEF Begins
  <2>. QED BY <1>6, <2>1, <2>2 DEF right
<1>8. fitting \cap Below(levels, 0) = fitting
  <2>1. \A m \in 1 .. N : levels[m].parent >= 0
    BY TreeIs
  <2>2. 1 .. N \subseteq Below(levels, 0)
    BY <2>1 DEF Below
  <2>. QED BY <2>2 DEF Fitting
<1>. QED BY <1>1, <1>7, <1>8

-----------------------------------------------------------------------------
(* A translation.                                                          *)

\* The rules found are rules.
LEMMA RulesAtAre ==
  ASSUME NEW levels \in Mappings, NEW n \in DOMAIN levels \cup {0}
  PROVE  AreRules(RulesAt(levels, n))
<1>1. CASE n = 0 \/ ~levels[n].subscription
  BY <1>1, NoRulesAre DEF RulesAt
<1>2. CASE ~(n = 0 \/ ~levels[n].subscription)
  BY <1>2, MappingsAssumption DEF RulesAt
<1>. QED BY <1>1, <1>2

\* What is found is a level or 0: the first that fits.
LEMMA FoundIs ==
  ASSUME NEW levels \in Mappings, NEW topic \in Topic
  PROVE  LET found == FindMatchingTopicLevel(levels, topic)
             fitting == Fitting(levels, Path(levels), topic)
         IN /\ found \in DOMAIN levels \cup {0}
            /\ found = IF fitting = {} THEN 0 ELSE Min(fitting)
<1>. PICK found, fitting : /\ found = FindMatchingTopicLevel(levels, topic)
                           /\ fitting = Fitting(levels, Path(levels), topic)
  OBVIOUS
<1>1. IsTree(levels)
  BY MappingsAssumption
<1>2. IsLeast(found, fitting)
  BY <1>1, FindsTheFirst
<1>3. fitting \subseteq DOMAIN levels /\ DOMAIN levels \subseteq Nat
  BY <1>1, TreeIs DEF Fitting
<1>4. CASE fitting = {}
  BY <1>2, <1>4 DEF IsLeast
<1>5. CASE fitting # {}
  <2>1. found \in fitting /\ \A m \in fitting : found <= m
    BY <1>2, <1>5 DEF IsLeast
  <2>2. Min(fitting) \in fitting /\ \A m \in fitting : Min(fitting) <= m
    <3>1. fitting \in SUBSET Nat
      BY <1>3
    <3>. QED BY <1>5, <3>1, MinIs
  <2>3. found <= Min(fitting) /\ Min(fitting) <= found /\ found \in Nat /\ Min(fitting) \in Nat
    BY <1>3, <2>1, <2>2
  <2>4. found = Min(fitting)
    BY <2>3
  <2>. QED BY <1>3, <1>5, <2>1, <2>4
<1>. QED BY <1>4, <1>5

\* What a level makes of a message.
LEMMA TranslationIs ==
  ASSUME NEW levels \in Mappings, NEW topic \in Topic, NEW message \in Texts
  PROVE  GetMappings(RulesAt(levels, FindMatchingTopicLevel(levels, topic)), message) \in Pair
<1>1. FindMatchingTopicLevel(levels, topic) \in DOMAIN levels \cup {0}
  BY FoundIs
<1>. QED BY <1>1, RulesAtAre, GetMappingsAre

\* The inductive invariant of the mapper: what a translation leaves.
MapperInv == MapperTypeOK /\ FirstInDocument /\ RulesApplyAlone

\* Nothing is translated yet.
LEMMA MapperInitInv == MapperInit => MapperInv
<1>. SUFFICES ASSUME MapperInit PROVE MapperInv
  OBVIOUS
<1>1. payload \in Texts
  BY MessagesAssumption DEF MapperInit
<1>2. MapperTypeOK
  BY <1>1, NothingIs DEF MapperInit, MapperTypeOK, Pair
<1>. QED BY <1>2 DEF MapperInit, MapperInv, FirstInDocument, RulesApplyAlone

\* getMappings keeps it, whatever the message.
LEMMA TranslateInv ==
  ASSUME MapperTypeOK, NEW topic \in Topic, NEW message \in Texts, Translate(topic, message)
  PROVE  MapperInv' /\ publishes' \in Pair /\ mapping' = mapping
<1>1. /\ received' = topic /\ payload' = message /\ mapping' = mapping /\ mapping \in Mappings
      /\ dispatched' = FindMatchingTopicLevel(mapping, topic)
      /\ publishes' = GetMappings(RulesAt(mapping, dispatched'), message)
  BY DEF Translate, MapperTypeOK
<1>2. publishes' \in Pair
  BY <1>1, TranslationIs
<1>3. dispatched' \in DOMAIN mapping \cup {0}
  BY <1>1, FoundIs
<1>4. MapperTypeOK'
  BY <1>1, <1>2, <1>3 DEF MapperTypeOK, Pair
<1>5. FirstInDocument'
  <2>. DEFINE fitting == {n \in DOMAIN mapping : Fits(Path(mapping)[n], topic)}
  <2>1. dispatched' = IF fitting = {} THEN 0 ELSE Min(fitting)
    BY <1>1, FoundIs DEF Fitting
  <2>. QED BY <1>1, <2>1 DEF FirstInDocument
<1>6. RulesApplyAlone'
  <2>. PICK rules : rules = RulesAt(mapping, dispatched')
    OBVIOUS
  <2>1. AreRules(rules)
    BY <1>1, <1>3, RulesAtAre
  <2>2. SelfContained(rules, message) => publishes' = EachAlone(rules, message)
    BY <1>1, <2>1, EachAppliesAlone
  <2>. QED BY <1>1, <2>2 DEF RulesApplyAlone
<1>. QED BY <1>1, <1>2, <1>4, <1>5, <1>6 DEF MapperInv

\* It says nothing of other variables.
LEMMA MapperStutters ==
  ASSUME MapperInv, UNCHANGED mapperVars
  PROVE  MapperInv'
BY DEF MapperInv, MapperTypeOK, FirstInDocument, RulesApplyAlone, mapperVars

\* Every value of the mapper (mapping, dispatched, publishes) is of its type.
THEOREM MapperTypesCorrect == MapperSpec => []MapperTypeOK
<1>1. MapperInit => MapperInv
  BY MapperInitInv
<1>2. MapperInv /\ [MapperNext]_mapperVars => MapperInv'
  <2>. SUFFICES ASSUME MapperInv, [MapperNext]_mapperVars PROVE MapperInv'
    OBVIOUS
  <2>1. ASSUME NEW topic \in MessageTopics, NEW message \in Payloads, OnPublish(topic, message)
        PROVE  MapperInv'
    <3>1. topic \in Topic /\ message \in Texts
      BY MessagesAssumption
    <3>. QED BY <2>1, <3>1, TranslateInv DEF OnPublish, MapperInv
  <2>2. CASE UNCHANGED mapperVars
    BY <2>2, MapperStutters
  <2>. QED BY <2>1, <2>2 DEF MapperNext
<1>3. MapperInv => MapperTypeOK
  BY DEF MapperInv
<1>. QED BY <1>1, <1>2, <1>3, PTL DEF MapperSpec

-----------------------------------------------------------------------------
(* Sequences: heads, and one entry taken out.                              *)

\* The head is the first entry.
LEMMA HeadIsFirst == ASSUME NEW S, NEW s \in Seq(S), s # <<>> PROVE Head(s) = s[1]
<1>1. Len(s) \in Nat \ {0}
  BY EmptySeq
<1>2. Head(SubSeq(s, 1, Len(s))) = s[1]
  BY <1>1, HeadTailOfSubSeq
<1>. QED BY <1>2, SubSeqFull

\* Two sequences: the head is that of the first one.
LEMMA HeadOfConcat ==
  ASSUME NEW S, NEW s \in Seq(S), NEW t \in Seq(S), s # <<>>
  PROVE  /\ s \o t # <<>>
         /\ Head(s \o t) = Head(s)
         /\ Tail(s \o t) = Tail(s) \o t
<1>. PICK n \in Nat, m \in Nat : n = Len(s) /\ m = Len(t) /\ n > 0
  BY EmptySeq, LenProperties
<1>. PICK u : u = s \o t
  OBVIOUS
<1>1. u \in Seq(S) /\ Len(u) = n + m
      /\ \A i \in 1 .. n + m : u[i] = IF i <= n THEN s[i] ELSE t[i - n]
  BY ConcatProperties
<1>2. u # <<>>
  BY <1>1, EmptySeq
<1>3. Head(u) = u[1] /\ Head(s) = s[1] /\ u[1] = s[1]
  BY <1>1, <1>2, HeadIsFirst
<1>4. /\ Tail(u) \in Seq(S) /\ Len(Tail(u)) = n + m - 1
      /\ \A i \in 1 .. n + m - 1 : Tail(u)[i] = u[i + 1]
  BY <1>1, <1>2, HeadTailProperties
<1>5. /\ Tail(s) \in Seq(S) /\ Len(Tail(s)) = n - 1
      /\ \A i \in 1 .. n - 1 : Tail(s)[i] = s[i + 1]
  BY HeadTailProperties
<1>. PICK a, b : a = Tail(s) /\ b = Tail(u)
  OBVIOUS
<1>6. /\ a \o t \in Seq(S) /\ Len(a \o t) = n - 1 + m
      /\ \A i \in 1 .. n - 1 + m : (a \o t)[i] = IF i <= n - 1 THEN a[i] ELSE t[i - (n - 1)]
  BY <1>5, ConcatProperties
<1>7. ASSUME NEW i \in 1 .. n + m - 1 PROVE b[i] = (a \o t)[i]
  <2>1. b[i] = u[i + 1] /\ i + 1 \in 1 .. n + m /\ i \in 1 .. n - 1 + m
    BY <1>4
  <2>2. CASE i <= n - 1
    BY <1>1, <1>5, <1>6, <2>1, <2>2
  <2>3. CASE i > n - 1
    <3>1. (i + 1) - n = i - (n - 1)
      OBVIOUS
    <3>. QED BY <1>1, <1>6, <2>1, <2>3, <3>1
  <2>. QED BY <2>2, <2>3
<1>8. b = a \o t
  <2>1. b \in Seq(S) /\ Len(b) = Len(a \o t) /\ Len(b) = n + m - 1 /\ a \o t \in Seq(S)
    BY <1>4, <1>6
  <2>2. \A i \in 1 .. Len(b) : b[i] = (a \o t)[i]
    BY <1>7, <2>1
  <2>. QED BY <2>1, <2>2, SeqEqual
<1>. QED BY <1>2, <1>3, <1>8

\* Without one entry, still a sequence.
LEMMA RemoveAtIs ==
  ASSUME NEW S, NEW s \in Seq(S), NEW k \in DOMAIN s
  PROVE  RemoveAt(s, k) \in Seq(S)
<1>1. SubSeq(s, 1, k - 1) \in Seq(S) /\ SubSeq(s, k + 1, Len(s)) \in Seq(S)
  <2>1. k \in 1 .. Len(s) /\ Len(s) \in Nat /\ \A i \in 1 .. Len(s) : s[i] \in S
    OBVIOUS
  <2>2. k - 1 \in Int /\ k + 1 \in Int /\ Len(s) \in Int
    BY <2>1
  <2>3. (\A i \in 1 .. k - 1 : s[i] \in S) /\ (\A i \in k + 1 .. Len(s) : s[i] \in S)
    BY <2>1
  <2>4. SubSeq(s, 1, k - 1) \in Seq(S)
    BY <2>2, <2>3, SubSeqProperties
  <2>5. SubSeq(s, k + 1, Len(s)) \in Seq(S)
    BY <2>2, <2>3, SubSeqProperties
  <2>. QED BY <2>4, <2>5
<1>. QED BY <1>1, ConcatProperties DEF RemoveAt

-----------------------------------------------------------------------------
(* The mapper inside the broker: its types.                                *)

SelfInv == SelfTypeOK /\ FirstInDocument /\ RulesApplyAlone

\* A call of onPublish leaves to itself what is immediate, to the queue what is not.
LEMMA CallInv ==
  ASSUME SelfInv, NEW topic \in Topic, NEW message \in Texts,
         NEW others \in Seq(Seq(Immediate)), NEW stillWaiting \in Seq(Delayed),
         Call(topic, message, others, stillWaiting)
  PROVE  /\ MapperInv' /\ mapping' = mapping
         /\ calls' \in Seq(Seq(Immediate)) /\ waiting' \in Seq(Delayed)
         /\ calls' = Append(others, publishes'.immediate)
         /\ publishes'.immediate = AtOnce(mapping, [topic |-> topic, text |-> message])
         /\ publishes'.immediate \in Seq(Immediate)
<1>1. MapperTypeOK /\ Translate(topic, message)
  BY DEF SelfInv, SelfTypeOK, Call
<1>2. MapperInv' /\ publishes' \in Pair /\ mapping' = mapping
  BY <1>1, TranslateInv
<1>3. publishes'.immediate \in Seq(Immediate) /\ publishes'.scheduled \in Seq(Delayed)
  BY <1>2 DEF Pair
<1>4. calls' = Append(others, publishes'.immediate) /\ waiting' = stillWaiting \o publishes'.scheduled
  BY DEF Call
<1>5. calls' \in Seq(Seq(Immediate)) /\ waiting' \in Seq(Delayed)
  BY <1>3, <1>4, AppendProperties, ConcatProperties
<1>6. publishes'.immediate = AtOnce(mapping, [topic |-> topic, text |-> message])
  BY <1>1 DEF Translate, AtOnce
<1>. QED BY <1>2, <1>3, <1>4, <1>5, <1>6

-----------------------------------------------------------------------------
(* The mapper inside the broker: what an event has still to publish.       *)

\* The first n active calls, one on top of the other: rest[n] is what they
\* have still to publish, the topmost first.
Stacked(rest, stack, n) ==
  /\ rest[0] = <<>>
  /\ \A k \in 1 .. n : rest[k] = stack[k] \o rest[k - 1]
  /\ \A k \in 0 .. n : rest[k] \in Seq(Immediate)

\* The equations of Agenda.
NextAgenda(levels, agenda) ==
  IF agenda = <<>> THEN <<>> ELSE AtOnce(levels, Head(agenda)) \o Tail(agenda)

Follows(agenda, levels, first, n) ==
  agenda[0] = <<first>> /\ \A k \in 1 .. n : agenda[k] = NextAgenda(levels, agenda[k - 1])

\* The messages that an event has translated are those at the front of the agenda.
IsFront(message, agenda) ==
  agenda # <<>> /\ message.topic = Head(agenda).topic /\ message.text = Head(agenda).text

Keeps(agenda, messages, n) ==
  \A k \in 1 .. n : agenda[k] \in Seq(Immediate) /\ IsFront(messages[k], agenda[k - 1])

\* The inductive invariant of ConsequencesFirst: what the active calls have
\* still to publish is what the agenda has left.
AgendaLeft(levels, messages, stack) ==
  /\ messages = <<>> => stack = <<>>
  /\ messages # <<>> =>
       \E agenda, rest :
         /\ Follows(agenda, levels, messages[1], Len(messages))
         /\ Keeps(agenda, messages, Len(messages))
         /\ Stacked(rest, stack, Len(stack))
         /\ agenda[Len(messages)] = rest[Len(stack)]

\* g has the entries of f up to n, and then x.
Extends(g, f, from, n, x) == (\A k \in from .. n : g[k] = f[k]) /\ g[n + 1] = x

\* There is such a g.
LEMMA Extended == ASSUME NEW f, NEW n \in Nat, NEW x PROVE \E g : Extends(g, f, 0, n, x)
<1>. DEFINE g == [k \in 0 .. n + 1 |-> IF k <= n THEN f[k] ELSE x]
<1>1. (\A k \in 0 .. n : g[k] = f[k]) /\ g[n + 1] = x
  OBVIOUS
<1>. QED BY <1>1 DEF Extends

\* An agenda with one more translation follows its equations.
LEMMA FollowsOn ==
  ASSUME NEW levels, NEW first, NEW n \in Nat, NEW agenda, Follows(agenda, levels, first, n),
         NEW agenda2, Extends(agenda2, agenda, 0, n, NextAgenda(levels, agenda[n]))
  PROVE  Follows(agenda2, levels, first, n + 1)
<1>. USE DEF Extends
<1>1. agenda2[0] = <<first>>
  BY DEF Follows
<1>2. ASSUME NEW k \in 1 .. n + 1 PROVE agenda2[k] = NextAgenda(levels, agenda2[k - 1])
  <2>1. k - 1 \in 0 .. n /\ agenda2[k - 1] = agenda[k - 1]
    OBVIOUS
  <2>2. CASE k \in 1 .. n
    <3>1. k \in 0 .. n
      BY <2>2
    <3>. QED BY <2>1, <2>2, <3>1 DEF Follows
  <2>3. CASE k = n + 1
    BY <2>1, <2>3
  <2>. QED BY <2>2, <2>3
<1>. QED BY <1>1, <1>2 DEF Follows

\* The message translated was at the front.
LEMMA KeepsOn ==
  ASSUME NEW n \in Nat, NEW agenda, NEW messages, Keeps(agenda, messages, n),
         NEW agenda2, NEW next \in Seq(Immediate), Extends(agenda2, agenda, 0, n, next),
         NEW messages2, NEW message, Extends(messages2, messages, 1, n, message), IsFront(message, agenda[n])
  PROVE  Keeps(agenda2, messages2, n + 1)
<1>. USE DEF Extends
<1>1. ASSUME NEW k \in 1 .. n + 1
      PROVE  agenda2[k] \in Seq(Immediate) /\ IsFront(messages2[k], agenda2[k - 1])
  <2>1. k - 1 \in 0 .. n /\ agenda2[k - 1] = agenda[k - 1]
    OBVIOUS
  <2>2. CASE k \in 1 .. n
    <3>1. k \in 0 .. n /\ messages2[k] = messages[k]
      BY <2>2
    <3>. QED BY <2>1, <2>2, <3>1 DEF Keeps
  <2>3. CASE k = n + 1
    BY <2>1, <2>3
  <2>. QED BY <2>2, <2>3
<1>. QED BY <1>1 DEF Keeps

\* One more call on the stack.
LEMMA StackedOn ==
  ASSUME NEW n \in Nat, NEW stack, NEW rest, Stacked(rest, stack, n),
         NEW top \in Seq(Immediate), NEW stack2, Extends(stack2, stack, 1, n, top),
         NEW below \in Seq(Immediate), below = rest[n], NEW rest2, Extends(rest2, rest, 0, n, top \o below)
  PROVE  Stacked(rest2, stack2, n + 1)
<1>. USE DEF Extends
<1>. DEFINE over(a, b) == a \o b
<1>1. \A k \in 1 .. n : rest[k] = over(stack[k], rest[k - 1])
  BY DEF Stacked
<1>2. rest2[n + 1] = over(stack2[n + 1], rest[n])
  OBVIOUS
<1>4. rest2[n + 1] \in Seq(Immediate)
  BY ConcatProperties
<1>5. rest2[0] = <<>>
  <2>1. 0 \in 0 .. n
    OBVIOUS
  <2>. QED BY <2>1, Zenon DEF Stacked
<1>6. ASSUME NEW k \in 0 .. n + 1 PROVE rest2[k] \in Seq(Immediate)
  <2>1. k \in 0 .. n \/ k = n + 1
    OBVIOUS
  <2>2. \A i \in 0 .. n : rest[i] \in Seq(Immediate)
    BY Zenon DEF Stacked
  <2>. QED BY <1>4, <2>1, <2>2, Zenon
<1>. HIDE DEF over
<1>7. ASSUME NEW k \in 1 .. n + 1 PROVE rest2[k] = over(stack2[k], rest2[k - 1])
  <2>1. k - 1 \in 0 .. n
    OBVIOUS
  <2>2. rest2[k - 1] = rest[k - 1]
    BY <2>1, Zenon
  <2>3. CASE k \in 1 .. n
    <3>1. k \in 0 .. n
      BY <2>3
    <3>2. rest2[k] = rest[k] /\ stack2[k] = stack[k]
      BY <2>3, <3>1, Zenon
    <3>. QED BY <1>1, <2>2, <2>3, <3>2, Zenon
  <2>4. CASE k = n + 1
    <3>1. k - 1 = n
      BY <2>4
    <3>. QED BY <1>2, <2>2, <2>4, <3>1, Zenon
  <2>5. k \in 1 .. n \/ k = n + 1
    OBVIOUS
  <2>. QED BY <2>3, <2>4, <2>5
<1>8. \A k \in 1 .. n + 1 : rest2[k] = stack2[k] \o rest2[k - 1]
  BY <1>7 DEF over
<1>. QED BY <1>4, <1>5, <1>6, <1>8, Zenon DEF Stacked

\* The stack below the topmost call.
LEMMA StackedBelow ==
  ASSUME NEW n \in Nat, NEW stack, NEW rest, Stacked(rest, stack, n + 1)
  PROVE  /\ Stacked(rest, stack, n)
         /\ rest[n + 1] = stack[n + 1] \o rest[n]
         /\ rest[n] \in Seq(Immediate)
<1>1. n + 1 \in 1 .. n + 1 /\ n \in 0 .. n + 1 /\ (n + 1) - 1 = n
      /\ (\A k \in 1 .. n : k \in 1 .. n + 1) /\ (\A k \in 0 .. n : k \in 0 .. n + 1)
  OBVIOUS
<1>2. rest[n + 1] = stack[n + 1] \o rest[(n + 1) - 1]
  BY <1>1, Zenon DEF Stacked
<1>3. Stacked(rest, stack, n) /\ rest[n] \in Seq(Immediate)
  BY <1>1, Zenon DEF Stacked
<1>. QED BY <1>1, <1>2, <1>3, Zenon

\* A sequence that is not empty has a last entry.
LEMMA LenIs ==
  ASSUME NEW S, NEW s \in Seq(S), s # <<>>
  PROVE  \E m \in Nat : Len(s) = m + 1
<1>1. Len(s) \in Nat \ {0}
  BY EmptySeq
<1>. PICK n \in Nat \ {0} : n = Len(s)
  BY <1>1
<1>2. n - 1 \in Nat /\ n = (n - 1) + 1
  OBVIOUS
<1>. QED BY <1>2

\* Append adds one entry.
LEMMA AppendedIs ==
  ASSUME NEW S, NEW s \in Seq(S), NEW x \in S, NEW n \in Nat, n = Len(s)
  PROVE  /\ Append(s, x) \in Seq(S) /\ Append(s, x) # <<>>
         /\ Len(Append(s, x)) = n + 1
         /\ Extends(Append(s, x), s, 1, n, x)
<1>1. /\ Append(s, x) \in Seq(S)
      /\ Len(Append(s, x)) = n + 1
      /\ \A k \in 1 .. n + 1 : Append(s, x)[k] = IF k <= n THEN s[k] ELSE x
  BY AppendProperties
<1>2. Append(s, x) # <<>>
  BY AppendProperties
<1>3. n + 1 \in 1 .. n + 1 /\ ~(n + 1 <= n) /\ \A k \in 1 .. n : k \in 1 .. n + 1 /\ k <= n
  OBVIOUS
<1>4. Extends(Append(s, x), s, 1, n, x)
  BY <1>1, <1>3, Zenon DEF Extends
<1>. QED BY <1>1, <1>2, <1>4, Zenon

\* The last entry replaced.
LEMMA ReplacedIs ==
  ASSUME NEW S, NEW s \in Seq(S), NEW x \in S, NEW n \in Nat, Len(s) = n + 1
  PROVE  /\ [s EXCEPT ![Len(s)] = x] \in Seq(S)
         /\ Len([s EXCEPT ![Len(s)] = x]) = n + 1
         /\ Extends([s EXCEPT ![Len(s)] = x], s, 1, n, x)
<1>1. n + 1 \in 1 .. Len(s) /\ \A k \in 1 .. n : k \in 1 .. Len(s) /\ k # n + 1
  OBVIOUS
<1>2. /\ [s EXCEPT ![n + 1] = x] \in Seq(S)
      /\ Len([s EXCEPT ![n + 1] = x]) = Len(s)
      /\ \A j \in 1 .. Len(s) : [s EXCEPT ![n + 1] = x][j] = IF j = n + 1 THEN x ELSE s[j]
  BY <1>1, ExceptSeq
<1>3. Extends([s EXCEPT ![n + 1] = x], s, 1, n, x)
  BY <1>1, <1>2, Zenon DEF Extends
<1>. QED BY <1>2, <1>3, Zenon

\* A new event.
AreLeft(agenda, rest, levels, first, messages, n, stack, m) ==
  /\ Follows(agenda, levels, first, n)
  /\ Keeps(agenda, messages, n)
  /\ Stacked(rest, stack, m)
  /\ agenda[n] = rest[m]

\* The invariant from its parts.
LEMMA LeftIs ==
  ASSUME NEW levels, NEW messages, messages # <<>>, NEW stack,
         NEW first, first = messages[1], NEW n, n = Len(messages), NEW m, m = Len(stack),
         \E agenda, rest : AreLeft(agenda, rest, levels, first, messages, n, stack, m)
  PROVE  AgendaLeft(levels, messages, stack)
BY Zenon DEF AgendaLeft, AreLeft

\* The agenda of an event that has begun.
LEMMA BeginsLeft ==
  ASSUME NEW levels, NEW message, NEW made \in Seq(Immediate), NEW first, NEW stack,
         NextAgenda(levels, first) = made, first = <<message>>, IsFront(message, first),
         first[1] = message, stack[1] = made
  PROVE  \E agenda, rest : AreLeft(agenda, rest, levels, message, first, 1, stack, 1)
<1>. DEFINE agenda == [k \in 0 .. 1 |-> IF k = 0 THEN first ELSE made]
            rest == [k \in 0 .. 1 |-> IF k = 0 THEN <<>> ELSE made]
<1>1. agenda[0] = first /\ agenda[1] = made /\ rest[0] = <<>> /\ rest[1] = made
  OBVIOUS
<1>. HIDE DEF agenda, rest
<1>2. (\A k \in 1 .. 1 : k = 1 /\ k - 1 = 0) /\ (\A k \in 0 .. 1 : k = 0 \/ k = 1)
  OBVIOUS
<1>3. Follows(agenda, levels, message, 1)
  BY <1>1, <1>2, Zenon DEF Follows
<1>4. Keeps(agenda, first, 1)
  BY <1>1, <1>2, Zenon DEF Keeps
<1>5. made \o <<>> = made /\ <<>> \in Seq(Immediate)
  BY ConcatEmptySeq, EmptySeq
<1>6. Stacked(rest, stack, 1)
  BY <1>1, <1>2, <1>5, Zenon DEF Stacked
<1>7. AreLeft(agenda, rest, levels, message, first, 1, stack, 1)
  BY <1>1, <1>3, <1>4, <1>6, Zenon DEF AreLeft
<1>. QED BY <1>7, Zenon

\* onPublish was called for a client's message or a delayed one.
LEMMA AgendaBegins ==
  ASSUME NEW levels, NEW message \in Message, NEW made \in Seq(Immediate), made = AtOnce(levels, message)
  PROVE  AgendaLeft(levels, <<message>>, <<made>>)
<1>. DEFINE first == <<message>>
            stack == <<made>>
<1>1. first \in Seq(Message) /\ first # <<>> /\ Len(first) = 1 /\ first[1] = message
  OBVIOUS
<1>2. Len(stack) = 1 /\ stack[1] = made
  OBVIOUS
<1>3. Head(first) = message
  BY <1>1, HeadIsFirst
<1>4. Tail(first) = <<>>
  <2>1. Tail(first) \in Seq(Message) /\ Len(Tail(first)) = 0
    BY <1>1, HeadTailProperties
  <2>. QED BY <2>1, EmptySeq
<1>5. made \o <<>> = made
  BY ConcatEmptySeq
<1>. HIDE DEF stack
<1>6. first = <<message>>
  OBVIOUS
<1>. HIDE DEF first
<1>7. NextAgenda(levels, first) = made
  BY <1>1, <1>3, <1>4, <1>5, Zenon DEF NextAgenda
<1>8. IsFront(message, first)
  BY <1>1, <1>3, Zenon DEF IsFront
<1>9. \E agenda, rest : AreLeft(agenda, rest, levels, message, first, 1, stack, 1)
  BY <1>1, <1>2, <1>6, <1>7, <1>8, BeginsLeft
<1>10. AgendaLeft(levels, first, stack)
  BY <1>1, <1>2, <1>9, LeftIs
<1>. QED BY <1>10 DEF first, stack

\* The publish that comes next is translated.
LEMMA Advances ==
  ASSUME NEW levels, NEW first, NEW n \in Nat, NEW m \in Nat, NEW agenda, NEW messages, NEW rest, NEW stack,
         AreLeft(agenda, rest, levels, first, messages, n, stack, m + 1),
         NEW last \in Seq(Immediate), last = stack[m + 1], last # <<>>,
         NEW made \in Seq(Immediate), made = AtOnce(levels, Head(last)),
         NEW message, IsFront(message, last),
         NEW messages2, Extends(messages2, messages, 1, n, message),
         NEW stack1, Extends(stack1, stack, 1, m, Tail(last)),
         NEW stack2, Extends(stack2, stack1, 1, m + 1, made)
  PROVE  \E agenda2, rest2 : AreLeft(agenda2, rest2, levels, first, messages2, n + 1, stack2, (m + 1) + 1)
<1>1. /\ Follows(agenda, levels, first, n) /\ Keeps(agenda, messages, n)
      /\ Stacked(rest, stack, m + 1) /\ agenda[n] = rest[m + 1]
  BY Zenon DEF AreLeft
<1>2. Stacked(rest, stack, m) /\ rest[m + 1] = last \o rest[m] /\ rest[m] \in Seq(Immediate)
  BY <1>1, StackedBelow
<1>3. PICK below \in Seq(Immediate) : below = rest[m]
  BY <1>2, Zenon
<1>4. /\ last \o below # <<>>
      /\ Head(last \o below) = Head(last)
      /\ Tail(last \o below) = Tail(last) \o below
  BY HeadOfConcat
<1>5. agenda[n] = last \o below
  BY <1>1, <1>2, <1>3, Zenon
<1>6. PICK tail \in Seq(Immediate) : tail = Tail(last)
  BY HeadTailProperties
<1>7. PICK new \in Seq(Immediate) : new = tail \o below
  BY ConcatProperties
<1>8. PICK next \in Seq(Immediate) : next = made \o new
  BY ConcatProperties
<1>9. NextAgenda(levels, agenda[n]) = next
  BY <1>4, <1>5, <1>6, <1>7, <1>8, Zenon DEF NextAgenda
<1>10. IsFront(message, agenda[n])
  BY <1>4, <1>5, Zenon DEF IsFront
<1>11. PICK agenda2 : Extends(agenda2, agenda, 0, n, next)
  BY Extended
<1>12. PICK rest1 : Extends(rest1, rest, 0, m, new)
  BY Extended
<1>13. m + 1 \in Nat
  OBVIOUS
<1>14. PICK rest2 : Extends(rest2, rest1, 0, m + 1, next)
  BY <1>13, Extended
<1>15. Follows(agenda2, levels, first, n + 1)
  BY <1>1, <1>9, <1>11, FollowsOn
<1>16. Keeps(agenda2, messages2, n + 1)
  BY <1>1, <1>10, <1>11, KeepsOn
<1>17. Stacked(rest1, stack1, m + 1)
  <2>1. Extends(stack1, stack, 1, m, tail) /\ Extends(rest1, rest, 0, m, tail \o below)
    BY <1>6, <1>7, <1>12, Zenon
  <2>. QED BY <1>2, <1>3, <2>1, StackedOn
<1>18. Stacked(rest2, stack2, (m + 1) + 1)
  <2>1. Extends(rest2, rest1, 0, m + 1, made \o new) /\ new = rest1[m + 1]
    BY <1>8, <1>12, <1>14, Zenon DEF Extends
  <2>. QED BY <1>13, <1>17, <2>1, StackedOn
<1>19. agenda2[n + 1] = rest2[(m + 1) + 1]
  BY <1>11, <1>14, Zenon DEF Extends
<1>. QED BY <1>15, <1>16, <1>18, <1>19, Zenon DEF AreLeft

\* onPublish was called for the next publish of the topmost call.
LEMMA AgendaAdvances ==
  ASSUME NEW levels, NEW messages \in Seq(Message), NEW stack \in Seq(Seq(Immediate)),
         AgendaLeft(levels, messages, stack), stack # <<>>, NEW last, last = stack[Len(stack)], last # <<>>,
         NEW message \in Message, IsFront(message, last),
         NEW made \in Seq(Immediate), made = AtOnce(levels, Head(last))
  PROVE  AgendaLeft(levels, Append(messages, message),
                    Append([stack EXCEPT ![Len(stack)] = Tail(last)], made))
<1>1. PICK m \in Nat : Len(stack) = m + 1
  BY LenIs
<1>2. messages # <<>>
  BY Zenon DEF AgendaLeft
<1>3. PICK n \in Nat : n = Len(messages)
  BY LenProperties
<1>4. PICK agenda, rest : AreLeft(agenda, rest, levels, messages[1], messages, Len(messages), stack, Len(stack))
  BY <1>2, Zenon DEF AgendaLeft, AreLeft
<1>5. last \in Seq(Immediate) /\ Tail(last) \in Seq(Immediate)
  <2>1. Len(stack) \in DOMAIN stack
    BY <1>1
  <2>2. last \in Seq(Immediate)
    BY <2>1, Entries
  <2>. QED BY <2>2, HeadTailProperties
<1>6. PICK messages2 : messages2 = Append(messages, message)
  OBVIOUS
<1>7. messages2 # <<>> /\ Len(messages2) = n + 1 /\ Extends(messages2, messages, 1, n, message)
  <2>1. /\ Append(messages, message) # <<>> /\ Len(Append(messages, message)) = n + 1
        /\ Extends(Append(messages, message), messages, 1, n, message)
    BY <1>3, AppendedIs
  <2>. QED BY <1>6, <2>1, Zenon
<1>8. messages2[1] = messages[1]
  <2>1. 1 \in 1 .. n
    BY <1>2, <1>3, EmptySeq
  <2>. QED BY <1>7, <2>1, Zenon DEF Extends
<1>9. PICK stack1 : stack1 = [stack EXCEPT ![Len(stack)] = Tail(last)]
  OBVIOUS
<1>10. stack1 \in Seq(Seq(Immediate)) /\ Len(stack1) = m + 1 /\ Extends(stack1, stack, 1, m, Tail(last))
  <2>1. PICK tail \in Seq(Immediate) : tail = Tail(last)
    BY <1>5
  <2>2. /\ [stack EXCEPT ![Len(stack)] = tail] \in Seq(Seq(Immediate))
        /\ Len([stack EXCEPT ![Len(stack)] = tail]) = m + 1
        /\ Extends([stack EXCEPT ![Len(stack)] = tail], stack, 1, m, tail)
    BY <1>1, ReplacedIs
  <2>. QED BY <1>9, <2>1, <2>2, Zenon
<1>11. PICK stack2 : stack2 = Append(stack1, made)
  OBVIOUS
<1>12. Len(stack2) = (m + 1) + 1 /\ Extends(stack2, stack1, 1, m + 1, made)
  <2>1. m + 1 \in Nat
    OBVIOUS
  <2>2. Len(Append(stack1, made)) = (m + 1) + 1 /\ Extends(Append(stack1, made), stack1, 1, m + 1, made)
    BY <1>10, <2>1, AppendedIs
  <2>. QED BY <1>11, <2>2, Zenon
<1>13. PICK first : first = messages[1]
  OBVIOUS
<1>14. \E agenda2, rest2 : AreLeft(agenda2, rest2, levels, first, messages2, n + 1, stack2, (m + 1) + 1)
  <2>1. AreLeft(agenda, rest, levels, first, messages, n, stack, m + 1)
    BY <1>1, <1>3, <1>4, <1>13, Zenon
  <2>2. last = stack[m + 1]
    BY <1>1, Zenon
  <2>. QED BY <1>5, <1>7, <1>10, <1>12, <2>1, <2>2, Advances
<1>15. AgendaLeft(levels, messages2, stack2)
  <2>1. first = messages2[1]
    BY <1>8, <1>13, Zenon
  <2>. QED BY <1>7, <1>12, <1>14, <2>1, LeftIs
<1>. QED BY <1>6, <1>9, <1>11, <1>15, Zenon

\* A call that has published everything returns.
LEMMA FrontIs ==
  ASSUME NEW S, NEW s \in Seq(S), NEW m \in Nat, Len(s) = m + 1
  PROVE  Front(s) \in Seq(S) /\ Len(Front(s)) = m /\ \A k \in 1 .. m : Front(s)[k] = s[k]
<1>1. \A k \in 1 .. m : s[k] \in S
  OBVIOUS
<1>2. m \in Int /\ 1 \in Int
  OBVIOUS
<1>3. /\ SubSeq(s, 1, m) \in Seq(S)
      /\ Len(SubSeq(s, 1, m)) = IF 1 <= m THEN m - 1 + 1 ELSE 0
      /\ \A i \in 1 .. m - 1 + 1 : SubSeq(s, 1, m)[i] = s[1 + i - 1]
  BY <1>1, <1>2, SubSeqProperties
<1>4. Front(s) = SubSeq(s, 1, m)
  BY DEF Front
<1>5. (IF 1 <= m THEN m - 1 + 1 ELSE 0) = m /\ m - 1 + 1 = m /\ \A i \in 1 .. m : 1 + i - 1 = i
  OBVIOUS
<1>. QED BY <1>3, <1>4, <1>5, Zenon

\* The topmost call returned.
LEMMA AgendaStays ==
  ASSUME NEW levels, NEW messages, NEW stack \in Seq(Seq(Immediate)),
         AgendaLeft(levels, messages, stack), stack # <<>>, stack[Len(stack)] = <<>>
  PROVE  AgendaLeft(levels, messages, Front(stack)) /\ Front(stack) \in Seq(Seq(Immediate))
<1>1. PICK m \in Nat : Len(stack) = m + 1
  BY LenIs
<1>2. messages # <<>>
  BY Zenon DEF AgendaLeft
<1>3. PICK agenda, rest : /\ Follows(agenda, levels, messages[1], Len(messages))
                          /\ Keeps(agenda, messages, Len(messages))
                          /\ Stacked(rest, stack, Len(stack))
                          /\ agenda[Len(messages)] = rest[Len(stack)]
  BY <1>2, Zenon DEF AgendaLeft
<1>4. PICK front : front = Front(stack)
  OBVIOUS
<1>5. /\ front \in Seq(Seq(Immediate)) /\ Len(front) = m
      /\ \A k \in 1 .. m : front[k] = stack[k]
  BY <1>1, <1>4, FrontIs, Zenon
<1>6. Stacked(rest, stack, m) /\ rest[m + 1] = stack[m + 1] \o rest[m] /\ rest[m] \in Seq(Immediate)
  <2>1. Stacked(rest, stack, m + 1)
    BY <1>1, <1>3, Zenon
  <2>. QED BY <2>1, StackedBelow, Zenon
<1>7. rest[m + 1] = rest[m]
  <2>1. PICK below \in Seq(Immediate) : below = rest[m]
    BY <1>6, Zenon
  <2>2. <<>> \o below = below
    BY ConcatEmptySeq
  <2>3. stack[m + 1] = <<>>
    BY <1>1, Zenon
  <2>. QED BY <1>6, <2>1, <2>2, <2>3, Zenon
<1>8. Stacked(rest, front, m)
  BY <1>5, <1>6, Zenon DEF Stacked
<1>9. agenda[Len(messages)] = rest[Len(front)] /\ Stacked(rest, front, Len(front))
  BY <1>1, <1>3, <1>5, <1>7, <1>8, Zenon
<1>10. AgendaLeft(levels, messages, front)
  BY <1>2, <1>3, <1>9, Zenon DEF AgendaLeft
<1>. QED BY <1>4, <1>5, <1>10, Zenon

\* The reference of ConsequencesFirst is the agenda of the invariant.
LEMMA AgendaIs ==
  ASSUME NEW levels, NEW first, NEW n \in Nat, NEW agenda, Follows(agenda, levels, first, n)
  PROVE  \A k \in 0 .. n : Agenda(levels, first, n)[k] = agenda[k]
<1>. DEFINE next(s) == NextAgenda(levels, s)
            gives(f) == [k \in 0 .. n |-> IF k = 0 THEN <<first>> ELSE next(f[k - 1])]
            own == [k \in 0 .. n |-> agenda[k]]
<1>1. agenda[0] = <<first>> /\ \A k \in 1 .. n : agenda[k] = next(agenda[k - 1])
  BY DEF Follows
<1>2. own = gives(own)
  <2>. HIDE DEF next
  <2>1. \A k \in 0 .. n : own[k] = agenda[k]
    OBVIOUS
  <2>2. ASSUME NEW k \in 0 .. n
        PROVE  own[k] = IF k = 0 THEN <<first>> ELSE next(own[k - 1])
    <3>1. CASE k = 0
      BY <1>1, <2>1, <3>1
    <3>2. CASE k # 0
      <4>1. k \in 1 .. n /\ k - 1 \in 0 .. n
        BY <3>2
      <4>. QED BY <1>1, <2>1, <3>2, <4>1
    <3>. QED BY <3>1, <3>2
  <2>. QED BY <2>2
<1>3. PICK f : f = gives(f) /\ f = Agenda(levels, first, n)
  <2>1. Agenda(levels, first, n) = CHOOSE f : f = gives(f)
    BY DEF Agenda, NextAgenda
  <2>. QED BY <1>2, <2>1
<1>. HIDE DEF next
<1>4. f[0] = <<first>> /\ \A k \in 1 .. n : f[k] = next(f[k - 1])
  <2>1. \A k \in 0 .. n : f[k] = IF k = 0 THEN <<first>> ELSE next(f[k - 1])
    BY <1>3
  <2>2. 0 \in 0 .. n /\ \A k \in 1 .. n : k \in 0 .. n /\ k # 0
    OBVIOUS
  <2>. QED BY <2>1, <2>2, Zenon
<1>. DEFINE same == {k \in Nat : k <= n => f[k] = agenda[k]}
<1>5. 0 \in same
  BY <1>1, <1>4
<1>6. ASSUME NEW k \in Nat, k \in same PROVE k + 1 \in same
  <2>1. CASE k + 1 <= n
    <3>1. k + 1 \in 1 .. n /\ (k + 1) - 1 = k /\ f[k] = agenda[k]
      BY <1>6, <2>1
    <3>2. f[k + 1] = next(f[(k + 1) - 1]) /\ agenda[k + 1] = next(agenda[(k + 1) - 1])
      BY <1>1, <1>4, <3>1, Zenon
    <3>3. f[k + 1] = agenda[k + 1]
      BY <3>1, <3>2, Zenon
    <3>. QED BY <3>3
  <2>2. CASE ~(k + 1 <= n)
    BY <2>2
  <2>. QED BY <2>1, <2>2
<1>7. \A k \in Nat : k \in same
  <2>. HIDE DEF same
  <2>. QED BY <1>5, <1>6, Induction
<1>8. \A k \in 0 .. n : f[k] = agenda[k]
  BY <1>7
<1>. QED BY <1>3, <1>8, Zenon

\* The invariant implies ConsequencesFirst.
LEMMA LeftInOrder ==
  ASSUME SelfTypeOK, AgendaLeft(mapping, handled, calls)
  PROVE  ConsequencesFirst
<1>. SUFFICES ASSUME handled # <<>> PROVE ConsequencesFirst
  BY DEF ConsequencesFirst
<1>1. PICK n \in Nat : n = Len(handled) /\ DOMAIN handled = 1 .. n
  BY LenProperties DEF SelfTypeOK
<1>2. PICK agenda, rest : AreLeft(agenda, rest, mapping, handled[1], handled, n, calls, Len(calls))
  BY <1>1, Zenon DEF AgendaLeft, AreLeft
<1>3. PICK ref : ref = Agenda(mapping, handled[1], n)
  OBVIOUS
<1>4. \A k \in 0 .. n : ref[k] = agenda[k]
  <2>1. Follows(agenda, mapping, handled[1], n)
    BY <1>2, Zenon DEF AreLeft
  <2>. QED BY <1>3, <2>1, AgendaIs
<1>5. ASSUME NEW k \in 1 .. n
      PROVE  /\ ref[k - 1] # <<>>
             /\ handled[k].topic = Head(ref[k - 1]).topic
             /\ handled[k].text = Head(ref[k - 1]).text
             /\ k > 1 => Head(ref[k - 1]).delay < 0
  <2>1. k - 1 \in 0 .. n
    OBVIOUS
  <2>2. ref[k - 1] = agenda[k - 1]
    BY <1>4, <2>1, Zenon
  <2>3. IsFront(handled[k], ref[k - 1])
    BY <1>2, <2>2, Zenon DEF AreLeft, Keeps
  <2>4. k > 1 => Head(ref[k - 1]).delay < 0
    <3>1. SUFFICES ASSUME k > 1 PROVE Head(ref[k - 1]).delay < 0
      OBVIOUS
    <3>2. k - 1 \in 1 .. n
      BY <3>1
    <3>3. ref[k - 1] \in Seq(Immediate) /\ ref[k - 1] # <<>>
      BY <1>2, <2>2, <2>3, <3>2, Zenon DEF AreLeft, Keeps, IsFront
    <3>4. PICK s \in Seq(Immediate) : s = ref[k - 1] /\ s # <<>>
      BY <3>3
    <3>5. Head(s) \in Immediate
      BY <3>4, HeadTailProperties
    <3>. QED BY <3>4, <3>5 DEF Immediate
  <2>. QED BY <2>3, <2>4, Zenon DEF IsFront
<1>6. calls = <<>> => ref[n] = <<>>
  <2>1. SUFFICES ASSUME calls = <<>> PROVE ref[n] = <<>>
    OBVIOUS
  <2>2. Len(calls) = 0
    BY <2>1, EmptySeq
  <2>3. n \in 0 .. n
    OBVIOUS
  <2>4. agenda[n] = rest[0] /\ rest[0] = <<>>
    BY <1>2, <2>2, Zenon DEF AreLeft, Stacked
  <2>. QED BY <1>4, <2>3, <2>4, Zenon
<1>. QED BY <1>1, <1>3, <1>5, <1>6, Zenon DEF ConsequencesFirst

-----------------------------------------------------------------------------
(* The mapper inside the broker: the invariant is kept.                    *)

OrderInv == SelfInv /\ AgendaLeft(mapping, handled, calls)

\* No event yet.
LEMMA OrderInit == SelfInit => OrderInv
<1>. SUFFICES ASSUME SelfInit PROVE OrderInv
  OBVIOUS
<1>1. MapperInv
  BY MapperInitInv DEF SelfInit
<1>2. \A S : <<>> \in Seq(S)
  BY EmptySeq
<1>3. SelfTypeOK
  <2>1. events \in 0 .. MaxReceived
    BY BoundsAssumption DEF SelfInit
  <2>. QED BY <1>1, <1>2, <2>1, Zenon DEF SelfInit, MapperInv, SelfTypeOK
<1>4. AgendaLeft(mapping, handled, calls)
  BY Zenon DEF SelfInit, AgendaLeft
<1>. QED BY <1>1, <1>3, <1>4, Zenon DEF OrderInv, SelfInv, MapperInv

\* Receive and Due.
LEMMA BeginsInv ==
  ASSUME OrderInv, NEW topic \in Topic, NEW message \in Texts, NEW stillWaiting \in Seq(Delayed),
         handled' = <<[topic |-> topic, text |-> message]>>, events' \in 0 .. MaxReceived,
         Call(topic, message, <<>>, stillWaiting)
  PROVE  OrderInv'
<1>1. <<>> \in Seq(Seq(Immediate))
  BY EmptySeq
<1>2. /\ MapperInv' /\ mapping' = mapping
      /\ calls' \in Seq(Seq(Immediate)) /\ waiting' \in Seq(Delayed)
      /\ calls' = Append(<<>>, publishes'.immediate)
      /\ publishes'.immediate = AtOnce(mapping, [topic |-> topic, text |-> message])
      /\ publishes'.immediate \in Seq(Immediate)
  BY <1>1, CallInv DEF OrderInv
<1>3. PICK made \in Seq(Immediate), new \in Message :
        made = publishes'.immediate /\ new = [topic |-> topic, text |-> message]
  BY <1>2 DEF Message
<1>4. AgendaLeft(mapping, <<new>>, <<made>>)
  <2>1. made = AtOnce(mapping, new)
    BY <1>2, <1>3, Zenon
  <2>. QED BY <2>1, AgendaBegins
<1>5. calls' = <<made>> /\ handled' = <<new>> /\ <<new>> \in Seq(Message)
  <2>1. Append(<<>>, made) = <<made>>
    OBVIOUS
  <2>. QED BY <1>2, <1>3, <2>1
<1>6. AgendaLeft(mapping', handled', calls')
  BY <1>2, <1>4, <1>5, Zenon
<1>7. SelfTypeOK'
  BY <1>2, <1>5, Zenon DEF SelfTypeOK, MapperInv
<1>. QED BY <1>2, <1>6, <1>7, Zenon DEF OrderInv, SelfInv, MapperInv

\* The second loop of onPublish.
LEMMA MapAgainInv == OrderInv /\ MapAgain => OrderInv'
<1>. SUFFICES ASSUME OrderInv, MapAgain PROVE OrderInv'
  OBVIOUS
<1>1. /\ calls \in Seq(Seq(Immediate)) /\ handled \in Seq(Message) /\ waiting \in Seq(Delayed)
      /\ events \in 0 .. MaxReceived /\ AgendaLeft(mapping, handled, calls)
  BY Zenon DEF OrderInv, SelfInv, SelfTypeOK
<1>2. PICK m \in Nat : Len(calls) = m + 1
  BY <1>1, LenIs DEF MapAgain
<1>3. PICK last \in Seq(Immediate) : last = calls[Len(calls)] /\ last = Last(calls) /\ last # <<>>
  <2>1. Len(calls) \in DOMAIN calls
    BY <1>1, <1>2
  <2>2. calls[Len(calls)] \in Seq(Immediate)
    BY <1>1, <2>1, Entries
  <2>. QED BY <2>2 DEF MapAgain, Last
<1>4. PICK publish \in Immediate : publish = Head(last)
  BY <1>3, HeadTailProperties
<1>5. PICK tail \in Seq(Immediate) : tail = Tail(last)
  BY <1>3, HeadTailProperties
<1>6. PICK others : others = [calls EXCEPT ![Len(calls)] = Tail(last)]
  OBVIOUS
<1>7. others \in Seq(Seq(Immediate))
  <2>1. [calls EXCEPT ![Len(calls)] = tail] \in Seq(Seq(Immediate))
    BY <1>1, <1>2, ReplacedIs
  <2>. QED BY <1>5, <1>6, <2>1, Zenon
<1>8. publish.topic \in Topic /\ publish.text \in Texts
  BY DEF Immediate, PublishRecord
<1>9. PICK new \in Message : new = [topic |-> publish.topic, text |-> publish.text]
  BY <1>8 DEF Message
<1>10. handled' = Append(handled, new) /\ Call(publish.topic, publish.text, others, waiting) /\ events' = events
  <2>1. [calls EXCEPT ![Len(calls)] = Tail(@)] = others
    BY <1>3, <1>6
  <2>. QED BY <1>3, <1>4, <1>9, <2>1, Zenon DEF MapAgain
<1>11. /\ MapperInv' /\ mapping' = mapping
       /\ calls' \in Seq(Seq(Immediate)) /\ waiting' \in Seq(Delayed)
       /\ calls' = Append(others, publishes'.immediate)
       /\ publishes'.immediate = AtOnce(mapping, new)
       /\ publishes'.immediate \in Seq(Immediate)
  <2>1. SelfInv
    BY Zenon DEF OrderInv
  <2>. QED BY <1>1, <1>7, <1>8, <1>9, <1>10, <2>1, CallInv
<1>12. PICK made \in Seq(Immediate) : made = publishes'.immediate
  BY <1>11
<1>13. AtOnce(mapping, new) = AtOnce(mapping, publish)
  BY <1>9 DEF AtOnce
<1>14. IsFront(new, last)
  BY <1>3, <1>4, <1>9 DEF IsFront
<1>15. AgendaLeft(mapping, Append(handled, new), Append(others, made))
  <2>1. made = AtOnce(mapping, Head(last))
    BY <1>4, <1>11, <1>12, <1>13, Zenon
  <2>2. calls # <<>>
    BY Zenon DEF MapAgain
  <2>3. AgendaLeft(mapping, Append(handled, new), Append([calls EXCEPT ![Len(calls)] = Tail(last)], made))
    BY <1>1, <1>3, <1>14, <2>1, <2>2, AgendaAdvances
  <2>. QED BY <1>6, <2>3, Zenon
<1>16. AgendaLeft(mapping', handled', calls')
  BY <1>10, <1>11, <1>12, <1>15, Zenon
<1>17. handled' \in Seq(Message)
  BY <1>1, <1>10, AppendProperties
<1>18. SelfTypeOK'
  BY <1>1, <1>10, <1>11, <1>17, Zenon DEF SelfTypeOK, MapperInv
<1>. QED BY <1>11, <1>16, <1>18, Zenon DEF OrderInv, SelfInv, MapperInv

\* The end of a call.
LEMMA ReturnInv == OrderInv /\ Return => OrderInv'
<1>. SUFFICES ASSUME OrderInv, Return PROVE OrderInv'
  OBVIOUS
<1>1. /\ calls \in Seq(Seq(Immediate)) /\ calls # <<>> /\ calls[Len(calls)] = <<>>
      /\ AgendaLeft(mapping, handled, calls)
  BY Zenon DEF OrderInv, SelfInv, SelfTypeOK, Return, Last
<1>2. AgendaLeft(mapping, handled, Front(calls)) /\ Front(calls) \in Seq(Seq(Immediate))
  BY <1>1, AgendaStays
<1>3. calls' = Front(calls) /\ UNCHANGED <<mapperVars, events, handled, waiting>>
  BY DEF Return
<1>4. MapperInv' /\ mapping' = mapping
  <2>1. MapperInv
    BY Zenon DEF OrderInv, SelfInv, SelfTypeOK, MapperInv
  <2>. QED BY <1>3, <2>1, MapperStutters DEF mapperVars
<1>5. AgendaLeft(mapping', handled', calls')
  BY <1>2, <1>3, <1>4, Zenon
<1>6. SelfTypeOK'
  BY <1>2, <1>3, <1>4, Zenon DEF OrderInv, SelfInv, SelfTypeOK, MapperInv
<1>. QED BY <1>4, <1>5, <1>6, Zenon DEF OrderInv, SelfInv, MapperInv

\* Every step keeps it.
LEMMA OrderStep == OrderInv /\ [SelfNext]_selfVars => OrderInv'
<1>. SUFFICES ASSUME OrderInv, [SelfNext]_selfVars PROVE OrderInv'
  OBVIOUS
<1>1. waiting \in Seq(Delayed) /\ events \in 0 .. MaxReceived /\ MaxReceived \in Nat
  BY BoundsAssumption DEF OrderInv, SelfInv, SelfTypeOK
<1>2. ASSUME NEW topic \in MessageTopics, NEW message \in Payloads, Receive(topic, message)
      PROVE  OrderInv'
  <2>1. topic \in Topic /\ message \in Texts
    BY MessagesAssumption
  <2>2. events' \in 0 .. MaxReceived
    BY <1>1, <1>2 DEF Receive
  <2>. QED BY <1>1, <1>2, <2>1, <2>2, BeginsInv DEF Receive
<1>3. ASSUME NEW k \in DOMAIN waiting, Due(k) PROVE OrderInv'
  <2>1. waiting[k] \in Delayed /\ RemoveAt(waiting, k) \in Seq(Delayed)
    BY <1>1, Entries, RemoveAtIs
  <2>2. waiting[k].topic \in Topic /\ waiting[k].text \in Texts
    BY <2>1 DEF Delayed, PublishRecord
  <2>3. events' \in 0 .. MaxReceived
    BY <1>1, <1>3 DEF Due
  <2>. QED BY <1>3, <2>1, <2>2, <2>3, BeginsInv DEF Due
<1>4. CASE MapAgain
  BY <1>4, MapAgainInv
<1>5. CASE Return
  BY <1>5, ReturnInv
<1>6. CASE UNCHANGED selfVars
  <2>1. UNCHANGED mapperVars /\ UNCHANGED <<events, calls, handled, waiting>>
    BY <1>6 DEF selfVars
  <2>2. MapperInv' /\ mapping' = mapping
    <3>1. MapperInv
      BY Zenon DEF OrderInv, SelfInv, SelfTypeOK, MapperInv
    <3>. QED BY <2>1, <3>1, MapperStutters DEF mapperVars
  <2>3. SelfTypeOK'
    BY <2>1, <2>2 DEF OrderInv, SelfInv, SelfTypeOK, MapperInv
  <2>. QED BY <2>1, <2>2, <2>3 DEF OrderInv, SelfInv, MapperInv
<1>. QED BY <1>2, <1>3, <1>4, <1>5, <1>6 DEF SelfNext

\* The inductive invariant of the embedded mapper holds.
LEMMA OrderHolds == SelfSpec => []OrderInv
<1>. QED BY OrderInit, OrderStep, PTL DEF SelfSpec

\* What a call, an event and the queue of onPublish hold is of its type: only
\* immediate publishes are left to a call, only delayed ones are queued.
THEOREM SelfTypesCorrect == SelfSpec => []SelfTypeOK
<1>1. OrderInv => SelfTypeOK
  BY DEF OrderInv, SelfInv
<1>. QED BY <1>1, OrderHolds, PTL

\* findMatchingTopicLevel gives, of every tree and for every topic, the first
\* level in the order of the document that matches name by name.
THEOREM FindsFirstInDocument == SelfSpec => []FirstInDocument
<1>1. OrderInv => FirstInDocument
  BY DEF OrderInv, SelfInv
<1>. QED BY <1>1, OrderHolds, PTL

\* getMappings publishes, for every level, what each of its rules publishes
\* alone, in the order of the document, also when some fail to render.
THEOREM RulesKeepApart == SelfSpec => []RulesApplyAlone
<1>1. OrderInv => RulesApplyAlone
  BY DEF OrderInv, SelfInv
<1>. QED BY <1>1, OrderHolds, PTL

\* Mqtt::onPublish publishes the immediate consequences of a message depth
\* first, nothing delayed among them, and leaves none out.
THEOREM ConsequencesInOrder == SelfSpec => []ConsequencesFirst
<1>1. OrderInv => ConsequencesFirst
  BY LeftInOrder DEF OrderInv, SelfInv
<1>. QED BY <1>1, OrderHolds, PTL
=============================================================================
