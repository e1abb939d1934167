-------------------------- MODULE BridgeForwarding --------------------------
(***************************************************************************)
(* How mqttbridge carries messages between MQTT servers.  A session        *)
(* receives what its server delivers for its subscription, and             *)
(* Bridge::publish sends it on to every other session in the mqttList of   *)
(* the same bridge.  The servers, and the delivery of a publish to their   *)
(* subscribers, are outside the program.                                   *)
(***************************************************************************)
EXTENDS Naturals, Sequences, FiniteSets, Bags

CONSTANTS
  Servers,       \* MQTT servers
  Sessions,      \* the broker entries of the definition, one session each
  Topics,        \* topics of the messages that other clients publish
  MaxPublishes,  \* bound: messages that other clients publish
  MaxCopies      \* bound: copies of a forwarded message that are told apart

\* A session.  A prefix is a sequence of topic parts, as is a topic; filter is
\* the set of first parts that its subscription accepts.
ASSUME SessionsAssumption ==
  \A s \in Sessions : /\ s.server \in Servers /\ s.loopPrevention \in BOOLEAN
                      /\ s.bridgePrefix \in Seq(STRING) /\ s.prefix \in Seq(STRING)

ASSUME TopicsAssumption == Topics \subseteq Seq(STRING)

ASSUME BoundsAssumption == MaxPublishes \in Nat /\ MaxCopies \in Nat \ {0, 1}

VARIABLES
  mqttList,    \* sessions in the lists of their bridges
  publishes,   \* the messages published so far, by number: server and topic
  inflight,    \* bag of messages on their way to a session
  arrived,     \* bag of messages a bridge has published to a server
  disturbed    \* history: bridges that had a session come or go after a message

vars == <<mqttList, publishes, inflight, arrived, disturbed>>

\* What a server delivers, when a message with this topic is published to it
\* by a session in publishers or by some other client: a copy to each
\* subscribed session, except to a publisher that connected with loop prevention.
Delivered(server, publishers, id, topic) ==
  {[to |-> s, id |-> id, topic |-> topic] :
     s \in {s \in mqttList : /\ s.server = server
                             /\ Head(topic) \in s.filter
                             /\ ~(s \in publishers /\ s.loopPrevention)}}

\* Some other client publishes a message.
ClientPublish(server, topic) ==
  /\ Len(publishes) < MaxPublishes
  /\ publishes' = Append(publishes, [server |-> server, topic |-> topic])
  /\ inflight' = inflight (+) SetToBag(
       Delivered(server, {}, Len(publishes) + 1, topic))
  /\ UNCHANGED <<mqttList, arrived, disturbed>>

Destinations_Mutant1(origin) == {s \in mqttList : s.bridge = origin.bridge}
Destinations_Mutant2(origin) ==
  LET others == {s \in mqttList : s.bridge = origin.bridge /\ s # origin}
  IN IF others = {} THEN {} ELSE {CHOOSE s \in others : TRUE}
Destinations(origin) ==
  {s \in mqttList : s.bridge = origin.bridge /\ s # origin}

ForwardedTopic_Mutant1(origin, destination, topic) == origin.prefix \o topic
ForwardedTopic(origin, destination, topic) ==
  origin.bridgePrefix \o origin.prefix \o destination.prefix \o topic

Counted(bag) == [a \in DOMAIN bag |-> IF bag[a] > MaxCopies THEN MaxCopies ELSE bag[a]]

\* Mqtt::onPublish of the session m.to: Bridge::publish.  Each sendPublish is
\* delivered by the destination's server.
OnPublish(m) ==
  LET topicFor(d) == ForwardedTopic(m.to, d, m.topic)
  IN /\ BagIn(m, inflight)
     /\ arrived' = Counted(arrived (+) SetToBag(
          {[by |-> d, id |-> m.id, topic |-> topicFor(d)] : d \in Destinations(m.to)}))
     /\ inflight' = (inflight (-) SetToBag({m})) (+) SetToBag(
          UNION {Delivered(d.server, {d}, m.id, topicFor(d)) : d \in Destinations(m.to)})
     /\ UNCHANGED <<mqttList, publishes, disturbed>>

\* addMqtt and removeMqtt.  What was on its way to the session is lost.
Undelivered(s) == [m \in {n \in DOMAIN inflight : n.to # s} |-> inflight[m]]

Disturbs(s) ==
  disturbed' = IF publishes = <<>> THEN disturbed ELSE disturbed \cup {s.bridge}

Connected(s) ==
  /\ s \notin mqttList
  /\ mqttList' = mqttList \cup {s}
  /\ Disturbs(s)
  /\ UNCHANGED <<publishes, inflight, arrived>>

Disconnected(s) ==
  /\ s \in mqttList
  /\ mqttList' = mqttList \ {s}
  /\ inflight' = Undelivered(s)
  /\ Disturbs(s)
  /\ UNCHANGED <<publishes, arrived>>

Init ==
  /\ mqttList = {}
  /\ publishes = <<>>
  /\ inflight = EmptyBag
  /\ arrived = EmptyBag
  /\ disturbed = {}

Next ==
  \/ \E server \in Servers, topic \in Topics : ClientPublish(server, topic)
  \/ \E m \in DOMAIN inflight : OnPublish(m)
  \/ \E s \in Sessions : Connected(s) \/ Disconnected(s)

Spec == Init /\ [][Next]_vars

\* The event loop handles what is received.
FairSpec == Spec /\ WF_vars(\E m \in DOMAIN inflight : OnPublish(m))

-----------------------------------------------------------------------------
(* Properties.                                                             *)

TypeOK ==
  /\ mqttList \subseteq Sessions
  /\ Len(publishes) <= MaxPublishes
  /\ IsABag(inflight)
  /\ IsABag(arrived)
  /\ \A m \in DOMAIN inflight : m.to \in mqttList /\ m.id \in DOMAIN publishes
  /\ \A a \in DOMAIN arrived : a.by \in Sessions /\ a.id \in DOMAIN publishes
  /\ disturbed \subseteq {s.bridge : s \in Sessions}

\* No server hands a message back to the session that published it: because of
\* loop prevention, or because its topic then begins with the prefix of the
\* bridge, which the session does not subscribe to.
NoEcho ==
  \A origin, s \in Sessions :
    (origin.bridge = s.bridge /\ origin # s)
      => \/ s.loopPrevention
         \/ origin.bridgePrefix # <<>> /\ Head(origin.bridgePrefix) \notin s.filter

\* The bridges of some sessions form no cycle: seen from any server, a message can
\* come to each other server over one of them only, its entry.  Inward are the
\* sessions over which it leaves a server for the next bridge.
Inward(root, entry, s) == s.server = root \/ entry[s.server].bridge # s.bridge

IsEntry(root, entry, sessions) ==
  \A o, s \in sessions :
    (o.bridge = s.bridge /\ o # s /\ Inward(root, entry, o))
      => s.server # root /\ entry[s.server] = s

NoCycleOf(sessions) ==
  \A root \in Servers : \E entry \in [Servers -> sessions] : IsEntry(root, entry, sessions)

NoCycle == NoCycleOf(Sessions)

\* A message is published at most once to each server, and never to the one it comes
\* from: it neither loops, nor returns, nor reaches a server on two ways.
AtMostOnce ==
  \A a, b \in DOMAIN arrived :
    /\ arrived[a] = 1
    /\ a.id = b.id /\ a.by.server = b.by.server => a = b
    /\ a.by.server # publishes[a.id].server

\* A message that some session of a bridge accepts from its server has reached
\* the server of every session that was up, when nothing is on its way any more:
\* as long as no session of the bridge came or went since the first message.
AllServed ==
  DOMAIN inflight = {} =>
    \A id \in DOMAIN publishes : \A origin, s \in mqttList :
      (/\ origin.bridge = s.bridge /\ origin # s
       /\ origin.bridge \notin disturbed
       /\ origin.server = publishes[id].server
       /\ Head(publishes[id].topic) \in origin.filter)
        => \E a \in DOMAIN arrived : a.by = s /\ a.id = id

\* Sooner or later nothing is on its way any more: with prefixes that the
\* subscriptions do not accept, forwarding ends, also where bridges form a cycle and
\* loop prevention is off.
ForwardingEnds == []<>(DOMAIN inflight = {})
=============================================================================
