----------------------------- MODULE Integrator -----------------------------
(***************************************************************************)
(* The subscriptions of mqttintegrator: each client instance has an MQTT   *)
(* session with its server, opened again and again, that subscribes to the *)
(* topics of the mapping; a deployed mapping changes the subscriptions of  *)
(* the open sessions, or disconnects them when its connection section is   *)
(* another one.  Servers and connections are outside the program: packets  *)
(* arrive in order, those in flight are lost with the connection.          *)
(***************************************************************************)
EXTENDS Naturals, FiniteSets, SequencesExt

CONSTANTS
  Instances,    \* client instances, each with a server of its own
  Mappings,     \* mappings that are deployed
  MaxDeploys,   \* bound: deployed mappings
  MaxDrops      \* bound: connections that fail

\* A mapping: its connection section, clean_session of that section, and the
\* topics with their QoS that it subscribes to, in the order of the document.
ASSUME MappingAssumption ==
  \A m \in Mappings : /\ m.clean \in BOOLEAN
                      /\ m.subscriptions \in Seq([topic : STRING, qos : 0 .. 2])

ASSUME BoundsAssumption == MaxDeploys \in Nat /\ MaxDrops \in Nat

VARIABLES
  mapping,    \* the mapping in force
  failed,     \* the last deploy failed after it replaced the mapping
  deploys, drops,
  link,       \* state of each instance's connection
  session,    \* the mapping whose connection section the CONNECT had
  current,    \* currentSubscriptions of its Mqtt object
  toServer,   \* packets on their way to the server
  connack,    \* the CONNACK on its way from the server
  server,     \* the server's session: whether it is kept, and subscriptions
  kept,       \* history: what all mappings since the CONNACK subscribe to
  tainted,    \* history: a deploy failed while the connection was open
  doubled,    \* history: topics a mapping since the CONNACK had more than once
  stale       \* history: SUBSCRIBE or UNSUBSCRIBE did not reach a kept session

vars == <<mapping, failed, deploys, drops, link, session, current, toServer,
          connack, server, kept, tainted, doubled, stale>>

Open == {i \in Instances : link[i] # "down"}   \* mqttInstances

Topics(subscriptions) == {s.topic : s \in ToSet(subscriptions)}

Doubled(subscriptions) ==
  {subscriptions[k].topic : k \in {n \in DOMAIN subscriptions :
     \E j \in 1 .. n - 1 : subscriptions[j].topic = subscriptions[n].topic}}

-----------------------------------------------------------------------------
(* The connection of an instance.                                          *)

\* A new Mqtt object, whose onConnected sends CONNECT.
Connect(i) ==
  /\ link[i] = "down"
  /\ link' = [link EXCEPT ![i] = "connected"]
  /\ session' = [session EXCEPT ![i] = mapping]
  /\ current' = [current EXCEPT ![i] = mapping.subscriptions]
  /\ toServer' = [toServer EXCEPT ![i] = <<[type |-> "connect", clean |-> mapping.clean]>>]
  /\ kept' = [kept EXCEPT ![i] = {}]
  /\ tainted' = [tainted EXCEPT ![i] = FALSE]
  /\ stale' = [stale EXCEPT ![i] = @ \/ current[i] # mapping.subscriptions]
  /\ UNCHANGED <<mapping, failed, deploys, drops, connack, server, doubled>>

SubscribeOnConnack_Mutant1(i, sessionPresent) == <<>>
SubscribeOnConnack(i, sessionPresent) ==
  IF sessionPresent THEN <<>>
  ELSE <<[type |-> "subscribe", subscriptions |-> current[i]]>>

\* onConnack with return code 0.
OnConnack(i) ==
  /\ link[i] = "connected"
  /\ connack[i] # "none"
  /\ link' = [link EXCEPT ![i] = "acked"]
  /\ connack' = [connack EXCEPT ![i] = "none"]
  /\ toServer' = [toServer EXCEPT ![i] =
                    @ \o SubscribeOnConnack(i, connack[i] = "present")]
  /\ IF connack[i] = "present"
     THEN /\ kept' = [kept EXCEPT ![i] = {}]
          /\ UNCHANGED <<doubled, stale>>
     ELSE /\ kept' = [kept EXCEPT ![i] = ToSet(current[i])]
          /\ doubled' = [doubled EXCEPT ![i] = Doubled(current[i])]
          /\ stale' = [stale EXCEPT ![i] = FALSE]
  /\ UNCHANGED <<mapping, failed, deploys, drops, session, current, server, tainted>>

\* Packets that change what the server has subscribed were lost, or a CONNACK
\* after which the topics would have been subscribed.
Lost(i) ==
  \/ connack[i] = "absent"
  \/ \E packet \in ToSet(toServer[i]) : packet.type \in {"subscribe", "unsubscribe"}

\* The connection is gone, with the Mqtt object.
Disconnected(i) ==
  /\ link[i] # "down"
  /\ link' = [link EXCEPT ![i] = "down"]
  /\ toServer' = [toServer EXCEPT ![i] = <<>>]
  /\ connack' = [connack EXCEPT ![i] = "none"]
  /\ server' = IF server[i].stays THEN server
               ELSE [server EXCEPT ![i].subscriptions = {}]
  /\ stale' = [stale EXCEPT ![i] = @ \/ Lost(i)]
  /\ UNCHANGED <<mapping, failed, deploys, session, current, kept, tainted, doubled>>

Closed(i) == link[i] = "closing" /\ Disconnected(i) /\ UNCHANGED drops

Dropped(i) ==
  /\ drops < MaxDrops
  /\ drops' = drops + 1
  /\ Disconnected(i)

-----------------------------------------------------------------------------
(* Mqtt::updateSubscriptions, after setMapping.                            *)

\* The subscriptions of one list that another has not, with this QoS.  They keep
\* their places in the list, which say what comes before what.
Without(subscriptions, others) ==
  Restrict(subscriptions, {k \in DOMAIN subscriptions : subscriptions[k] \notin ToSet(others)})

Subscribe(subscriptions) ==
  IF DOMAIN subscriptions = {} THEN <<>>
  ELSE <<[type |-> "subscribe", subscriptions |-> subscriptions]>>

\* By name: the QoS is not in the packet.
Unsubscribe(subscriptions) ==
  IF DOMAIN subscriptions = {} THEN <<>>
  ELSE <<[type |-> "unsubscribe", topics |-> Topics(subscriptions)]>>

\* resubscribe: first the topics that the new mapping has no more, or with
\* another QoS, then those that are new to it.
Resubscribe_Mutant1(old, new) ==
  Subscribe(Without(new, old)) \o Unsubscribe(Without(old, new))
Resubscribe_Mutant2(old, new) ==
  Unsubscribe(old) \o Subscribe(Without(new, old))
Resubscribe(old, new) ==
  Unsubscribe(Without(old, new)) \o Subscribe(Without(new, old))

\* What is sent after DISCONNECT does not count.
Sent(i, packets) == IF link[i] = "closing" THEN toServer[i] ELSE toServer[i] \o packets

MustReconnect_Mutant1(m) == FALSE
MustReconnect(m) == m.connection # mapping.connection

Reconnect ==
  /\ toServer' = [i \in Instances |->
                    IF i \in Open THEN Sent(i, <<[type |-> "disconnect"]>>) ELSE toServer[i]]
  /\ link' = [i \in Instances |-> IF i \in Open THEN "closing" ELSE link[i]]
  /\ UNCHANGED <<current, kept, doubled, stale>>

HotReload(m) ==
  /\ toServer' = [i \in Instances |->
                    IF i \in Open THEN Sent(i, Resubscribe(current[i], m.subscriptions))
                    ELSE toServer[i]]
  /\ current' = [i \in Instances |-> IF i \in Open THEN m.subscriptions ELSE current[i]]
  /\ kept' = [i \in Instances |-> kept[i] \cap ToSet(m.subscriptions)]
  /\ doubled' = [i \in Instances |-> doubled[i] \cup Doubled(m.subscriptions)]
  /\ stale' = [i \in Instances |->
                 stale[i] \/ (link[i] = "closing" /\ current[i] # m.subscriptions)]
  /\ UNCHANGED link

Deploy(m) ==
  /\ deploys < MaxDeploys
  /\ deploys' = deploys + 1
  /\ mapping' = m
  /\ failed' = FALSE
  /\ IF MustReconnect(m) THEN Reconnect ELSE HotReload(m)
  /\ UNCHANGED <<drops, session, connack, server, tainted>>

\* setMapping throws when it loads a plugin: the mapping is replaced, and the
\* sessions are not told.
DeployFails(m) ==
  /\ deploys < MaxDeploys
  /\ deploys' = deploys + 1
  /\ mapping' = m
  /\ failed' = TRUE
  /\ tainted' = [i \in Instances |-> tainted[i] \/ i \in Open]
  /\ UNCHANGED <<drops, link, session, current, toServer, connack, server, kept,
                 doubled, stale>>

-----------------------------------------------------------------------------
(* The server.                                                             *)

OnConnect(i, clean) ==
  /\ server' = [server EXCEPT ![i] =
       [stays |-> ~clean,
        subscriptions |-> IF clean \/ ~@.stays THEN {} ELSE @.subscriptions]]
  /\ connack' = [connack EXCEPT ![i] =
       IF ~clean /\ server[i].stays THEN "present" ELSE "absent"]

\* One topic after the other; a subscription to the same topic is replaced, so
\* the last one of a topic stays.
Lasting(subscriptions) ==
  {subscriptions[k] : k \in {n \in DOMAIN subscriptions :
     \A j \in DOMAIN subscriptions : subscriptions[j].topic = subscriptions[n].topic => j <= n}}

Subscribed(subscriptions, new) ==
  {s \in subscriptions : s.topic \notin Topics(new)} \cup Lasting(new)

\* SUBSCRIBE without a topic violates the protocol [MQTT-3.8.3-3].
NoTopics(packet) == packet.type = "subscribe" /\ DOMAIN packet.subscriptions = {}

ServerReceives(i) ==
  /\ toServer[i] # <<>>
  /\ ~NoTopics(Head(toServer[i]))
  /\ toServer' = [toServer EXCEPT ![i] = Tail(@)]
  /\ LET packet == Head(toServer[i])
     IN CASE packet.type = "connect" -> OnConnect(i, packet.clean)
          [] packet.type = "subscribe" ->
               /\ server' = [server EXCEPT ![i].subscriptions =
                               Subscribed(@, packet.subscriptions)]
               /\ UNCHANGED connack
          [] packet.type = "unsubscribe" ->
               /\ server' = [server EXCEPT ![i].subscriptions =
                               {s \in @ : s.topic \notin packet.topics}]
               /\ UNCHANGED connack
          [] packet.type = "disconnect" -> UNCHANGED <<server, connack>>
  /\ UNCHANGED <<mapping, failed, deploys, drops, link, session, current, kept,
                 tainted, doubled, stale>>

\* It closes the connection.
ServerRefuses(i) ==
  /\ toServer[i] # <<>>
  /\ NoTopics(Head(toServer[i]))
  /\ Disconnected(i)
  /\ UNCHANGED drops

-----------------------------------------------------------------------------
Init ==
  /\ mapping \in Mappings
  /\ failed = FALSE
  /\ deploys = 0
  /\ drops = 0
  /\ link = [i \in Instances |-> "down"]
  /\ session = [i \in Instances |-> mapping]
  /\ current = [i \in Instances |-> <<>>]
  /\ toServer = [i \in Instances |-> <<>>]
  /\ connack = [i \in Instances |-> "none"]
  /\ server = [i \in Instances |-> [stays |-> FALSE, subscriptions |-> {}]]
  /\ kept = [i \in Instances |-> {}]
  /\ tainted = [i \in Instances |-> FALSE]
  /\ doubled = [i \in Instances |-> {}]
  /\ stale = [i \in Instances |-> FALSE]

Next ==
  \/ \E i \in Instances : \/ Connect(i)
                          \/ OnConnack(i)
                          \/ Closed(i)
                          \/ Dropped(i)
                          \/ ServerReceives(i)
                          \/ ServerRefuses(i)
  \/ \E m \in Mappings : Deploy(m) \/ DeployFails(m)

Spec == Init /\ [][Next]_vars

\* The framework reconnects (setReconnect) and closes a connection after
\* DISCONNECT, and the server answers.
FairSpec ==
  /\ Spec
  /\ \A i \in Instances : /\ WF_vars(Connect(i))
                          /\ WF_vars(OnConnack(i))
                          /\ WF_vars(Closed(i))
                          /\ WF_vars(ServerReceives(i))
                          /\ WF_vars(ServerRefuses(i))

-----------------------------------------------------------------------------
(* Properties.                                                             *)

AllSubscriptions == UNION {ToSet(m.subscriptions) : m \in Mappings}

\* Lists of subscriptions with some left out.
Lists == UNION {{Restrict(m.subscriptions, D) : D \in SUBSET DOMAIN m.subscriptions} : m \in Mappings}

Packets ==
  [type : {"connect"}, clean : BOOLEAN]
    \cup [type : {"subscribe"}, subscriptions : Lists]
    \cup [type : {"unsubscribe"}, topics : SUBSET {s.topic : s \in AllSubscriptions}]
    \cup [type : {"disconnect"}]

TypeOK ==
  /\ mapping \in Mappings
  /\ failed \in BOOLEAN
  /\ deploys \in 0 .. MaxDeploys
  /\ drops \in 0 .. MaxDrops
  /\ link \in [Instances -> {"down", "connected", "acked", "closing"}]
  /\ session \in [Instances -> Mappings]
  /\ current \in [Instances -> {<<>>} \cup {m.subscriptions : m \in Mappings}]
  /\ toServer \in [Instances -> Seq(Packets)]
  /\ connack \in [Instances -> {"none", "absent", "present"}]
  /\ server \in [Instances -> [stays : BOOLEAN, subscriptions : SUBSET AllSubscriptions]]
  /\ kept \in [Instances -> SUBSET AllSubscriptions]
  /\ \A i \in Instances : kept[i] \subseteq ToSet(current[i])
  /\ tainted \in [Instances -> BOOLEAN]
  /\ doubled \in [Instances -> SUBSET {s.topic : s \in AllSubscriptions}]
  /\ stale \in [Instances -> BOOLEAN]

Settled(i) == link[i] = "acked" /\ toServer[i] = <<>>

\* The server has the subscriptions of the mapping in force, those apart whose
\* topic some mapping of this session had more than once.
AsMapped(i) ==
  {s \in server[i].subscriptions : s.topic \notin doubled[i]}
    = {s \in ToSet(mapping.subscriptions) : s.topic \notin doubled[i]}

\* When nothing is on its way, the server has the subscriptions of the mapping
\* in force, whatever was deployed while the session was being opened or after
\* it: in every clean session; and in one that the server kept if no change of
\* them was missed, because it was lost with a connection or because the
\* mapping changed between two connections.  A topic that two levels give
\* disturbs no other one.
SubscribedAsMapped ==
  ~failed => \A i \in Instances :
    (Settled(i) /\ (session[i].clean \/ ~stale[i])) => AsMapped(i)

\* A topic that all mappings have in common since the session was accepted
\* stays subscribed with its QoS: a hot reload does not interrupt it.
Uninterrupted ==
  \A i \in Instances : link[i] = "acked" =>
    \A s \in {k \in kept[i] : k.topic \notin doubled[i]} :
      \/ s \in server[i].subscriptions
      \/ \E packet \in ToSet(toServer[i]) : /\ packet.type = "subscribe"
                                           /\ s \in ToSet(packet.subscriptions)

\* A session that stays open was opened with the connection section in force,
\* unless a deploy failed meanwhile.
ConnectedAsMapped ==
  \A i \in Instances : (link[i] \in {"connected", "acked"} /\ ~tainted[i]) =>
    session[i].connection = mapping.connection

\* onConnack subscribes also to an empty list, which the server does not accept:
\* such a clean session is opened and refused again and again.
NeverSettles(m) == m.clean /\ m.subscriptions = <<>>

\* After the last deploy and the last failure every session is opened and
\* accepted, and subscribed as the mapping in force says, with the exceptions
\* of SubscribedAsMapped; unless that mapping has clean sessions and subscribes
\* to nothing.
Converges ==
  <>[](failed \/ NeverSettles(mapping) \/
         \A i \in Instances : Settled(i) /\ (AsMapped(i) \/ (~session[i].clean /\ stale[i])))
=============================================================================
