--------------------------- MODULE OneShotClient ---------------------------
(***************************************************************************)
(* mqttcli: a session that subscribes, publishes one message, and leaves   *)
(* by itself when nothing is left to do.  The two directions of its        *)
(* connection are queues; a connection that is closed loses what the       *)
(* client has not received yet, one that fails loses both.                 *)
(***************************************************************************)
EXTENDS Naturals, Sequences

CONSTANTS
  Malformed,       \* a composite topic whose "##" is followed by no QoS
  NoTopic,         \* no topic to publish to
  MaxConnections   \* bound: how often the client connects

QoS == 0 .. 2

ASSUME TopicAssumption == Malformed \notin QoS /\ NoTopic \notin QoS \cup {Malformed}

VARIABLES
  subTopics,     \* the QoS of each topic to subscribe, or Malformed
  pubTopic,      \* the QoS of the topic to publish to, Malformed, or NoTopic
  conn,          \* the client's end of the connection
  toServer, toClient,
  subscribed,    \* the server has the connection's subscriptions
  handedOn,      \* the server has handed the connection's message on
  connections,   \* how often the client connected
  reason         \* why the client sent DISCONNECT; "none" if it has not

commandLine == <<subTopics, pubTopic>>
queues == <<toServer, toClient>>
server == <<subscribed, handedOn>>
vars == <<commandLine, conn, queues, server, connections, reason>>

-----------------------------------------------------------------------------
(* The client.                                                             *)

Composite(topics) == \A k \in DOMAIN topics : topics[k] # Malformed

\* A malformed topic abandons the whole SUBSCRIBE.
SubscribePacket ==
  IF subTopics # <<>> /\ Composite(subTopics) THEN <<"SUBSCRIBE">> ELSE <<>>

PublishPacket == IF pubTopic \in QoS THEN <<"PUBLISH">> ELSE <<>>

SessionPackets_Mutant1 == PublishPacket \o SubscribePacket
SessionPackets == SubscribePacket \o PublishPacket

\* sendDisconnectFlag
NothingToAwait_Mutant1 == SubscribePacket = <<>>
NothingToAwait == SubscribePacket = <<>> /\ pubTopic \notin {1, 2}

\* onConnected: a new Mqtt sends CONNECT; a signal ends the program.
OnConnected ==
  /\ conn = "closed"
  /\ reason # "signal"
  /\ connections < MaxConnections
  /\ conn' = "opening"
  /\ connections' = connections + 1
  /\ reason' = "none"
  /\ UNCHANGED <<commandLine, queues, server>>

SendDisconnect(packets, why) ==
  /\ toServer' = toServer \o packets \o <<"DISCONNECT">>
  /\ conn' = "closing"
  /\ reason' = why

OnConnack ==
  /\ conn = "opening"
  /\ IF NothingToAwait
     THEN SendDisconnect(SessionPackets, "done")
     ELSE /\ toServer' = toServer \o SessionPackets
          /\ conn' = "open"
          /\ UNCHANGED reason
  /\ UNCHANGED <<commandLine, toClient, server, connections>>

\* onConnack with another return code.
OnConnackRefused ==
  /\ conn = "opening"
  /\ SendDisconnect(<<>>, "refused")
  /\ UNCHANGED <<commandLine, toClient, server, connections>>

Acknowledgements_Mutant1 == {"PUBACK"}
Acknowledgements == {"PUBACK", "PUBCOMP"}

\* onPuback, onPubcomp; SUBACK is only reported, and PUBREC is answered by
\* SNode.C.
ClientReceives ==
  /\ conn = "open"
  /\ toClient # <<>>
  /\ toClient' = Tail(toClient)
  /\ LET packet == Head(toClient)
     IN IF packet \in Acknowledgements /\ subTopics = <<>>
        THEN SendDisconnect(<<>>, "done")
        ELSE /\ toServer' = IF packet = "PUBREC" THEN Append(toServer, "PUBREL") ELSE toServer
             /\ UNCHANGED <<conn, reason>>
  /\ UNCHANGED <<commandLine, server, connections>>

\* onSignal
OnSignal ==
  /\ conn \in {"opening", "open"}
  /\ SendDisconnect(<<>>, "signal")
  /\ UNCHANGED <<commandLine, toClient, server, connections>>

-----------------------------------------------------------------------------
(* The server and the connection.                                          *)

\* A message of QoS 2 is handed on when it is released.
HandsOn(packet) == packet = IF pubTopic = 2 THEN "PUBREL" ELSE "PUBLISH"

Answer(packet) ==
  CASE packet = "SUBSCRIBE" -> <<"SUBACK">>
    [] packet = "PUBLISH" /\ pubTopic = 1 -> <<"PUBACK">>
    [] packet = "PUBLISH" /\ pubTopic = 2 -> <<"PUBREC">>
    [] packet = "PUBREL" -> <<"PUBCOMP">>
    [] OTHER -> <<>>

ServerReceives ==
  /\ toServer # <<>>
  /\ LET packet == Head(toServer)
     IN /\ subscribed' = (subscribed \/ packet = "SUBSCRIBE")
        /\ handedOn' = (handedOn \/ HandsOn(packet))
        /\ toClient' = toClient \o Answer(packet)
  /\ toServer' = Tail(toServer)
  /\ UNCHANGED <<commandLine, conn, connections, reason>>

Forgotten ==
  /\ conn' = "closed"
  /\ toServer' = <<>>
  /\ toClient' = <<>>
  /\ subscribed' = FALSE
  /\ handedOn' = FALSE

\* The server has DISCONNECT and closes.
Closed ==
  /\ conn = "closing"
  /\ toServer = <<>>
  /\ Forgotten
  /\ UNCHANGED <<commandLine, connections, reason>>

Dropped ==
  /\ conn # "closed"
  /\ Forgotten
  /\ UNCHANGED <<commandLine, connections, reason>>

-----------------------------------------------------------------------------
\* The command line has at least one of "sub" and "pub".
Init ==
  /\ subTopics \in UNION {[1 .. n -> QoS \cup {Malformed}] : n \in 0 .. 2}
  /\ pubTopic \in QoS \cup {Malformed, NoTopic}
  /\ ~(subTopics = <<>> /\ pubTopic = NoTopic)
  /\ conn = "closed"
  /\ toServer = <<>>
  /\ toClient = <<>>
  /\ subscribed = FALSE
  /\ handedOn = FALSE
  /\ connections = 0
  /\ reason = "none"

Next ==
  \/ OnConnected
  \/ OnConnack
  \/ OnConnackRefused
  \/ ClientReceives
  \/ OnSignal
  \/ ServerReceives
  \/ Closed
  \/ Dropped

Spec == Init /\ [][Next]_vars

\* Both ends process what they receive while the connection lasts.
FairSpec == Spec /\ WF_vars(ServerReceives) /\ WF_vars(ClientReceives)

-----------------------------------------------------------------------------
(* Properties.                                                             *)

\* When the client has left an accepted session by itself and the server knows
\* it, the server has handed its message on, whatever the QoS, and the client
\* gave up no subscription.
LeavesWhenDone ==
  (reason = "done" /\ conn = "closing" /\ toServer = <<>>) =>
    /\ pubTopic \in QoS => handedOn
    /\ ~subscribed

\* A client that subscribes and publishes in one call ("Live-tail everything,
\* then publish") is subscribed when the server hands its message on.
SeesOwnMessage ==
  (handedOn /\ subTopics # <<>> /\ Composite(subTopics)) => subscribed

\* A session that only publishes does not stay open.
PublisherLeaves == (conn = "open" /\ subTopics = <<>>) ~> conn # "open"
=============================================================================
