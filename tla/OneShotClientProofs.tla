------------------------- MODULE OneShotClientProofs -------------------------
(***************************************************************************)
(* Theorems about OneShotClient for every command line, order of packets   *)
(* and number of connections.  The invariants say what each packet in the  *)
(* queues stands for: which of them the server has already seen.           *)
(***************************************************************************)
EXTENDS OneShotClient, SequenceTheorems, TLAPS

Packets == {"SUBSCRIBE", "PUBLISH", "PUBREL", "DISCONNECT", "SUBACK", "PUBACK", "PUBREC", "PUBCOMP"}

Types ==
  /\ toServer \in Seq(Packets)
  /\ toClient \in Seq(Packets)
  /\ subscribed \in BOOLEAN
  /\ handedOn \in BOOLEAN

On(queue, packet) == \E k \in DOMAIN queue : queue[k] = packet

\* A connection begins with nothing under way.
Fresh ==
  conn \in {"closed", "opening"} =>
    toServer = <<>> /\ toClient = <<>> /\ ~subscribed /\ ~handedOn

\* Nobody subscribes whose command line has no topics, or a malformed one.
Unsubscribed == SubscribePacket = <<>> => ~subscribed /\ ~On(toServer, "SUBSCRIBE")

\* The exchange of QoS 2, and what an acknowledgement says.
Acknowledged ==
  /\ On(toServer, "PUBREL") \/ On(toClient, "PUBREC") => pubTopic = 2
  /\ On(toClient, "PUBACK") \/ On(toClient, "PUBCOMP") => handedOn

\* What is left behind by a client that was done.
Done ==
  reason = "done" =>
    /\ SubscribePacket = <<>>
    /\ conn = "closing" /\ pubTopic \in QoS
         => handedOn \/ (pubTopic = 0 /\ On(toServer, "PUBLISH"))

\* A client that subscribes and publishes has its SUBSCRIBE before its message.
Subscribes == subTopics # <<>> /\ Composite(subTopics)
SubscribesFirst ==
  Subscribes =>
    /\ handedOn \/ On(toClient, "PUBREC") => subscribed
    /\ \A k \in DOMAIN toServer :
         toServer[k] \in {"PUBLISH", "PUBREL"} =>
           subscribed \/ \E j \in DOMAIN toServer : j < k /\ toServer[j] = "SUBSCRIBE"

Inv == Types /\ Fresh /\ Unsubscribed /\ Acknowledged /\ Done /\ SubscribesFirst

-----------------------------------------------------------------------------
(* Queues.                                                                 *)

LEMMA OnTail ==
  ASSUME NEW q \in Seq(Packets), q # <<>>
  PROVE  /\ Head(q) \in Packets /\ Tail(q) \in Seq(Packets)
         /\ 1 \in DOMAIN q /\ q[1] = Head(q)
         /\ \A k \in DOMAIN Tail(q) : k \in Nat \ {0} /\ k + 1 \in DOMAIN q /\ Tail(q)[k] = q[k + 1]
         /\ \A k \in DOMAIN q \ {1} : k \in Nat \ {0, 1} /\ k - 1 \in DOMAIN Tail(q) /\ Tail(q)[k - 1] = q[k]
         /\ \A packet : On(q, packet) <=> (Head(q) = packet \/ On(Tail(q), packet))
<1>1. /\ Head(q) \in Packets /\ Tail(q) \in Seq(Packets)
      /\ 1 \in DOMAIN q /\ q[1] = Head(q)
      /\ \A k \in DOMAIN Tail(q) : k \in Nat \ {0} /\ k + 1 \in DOMAIN q /\ Tail(q)[k] = q[k + 1]
      /\ \A k \in DOMAIN q \ {1} : k \in Nat \ {0, 1} /\ k - 1 \in DOMAIN Tail(q) /\ Tail(q)[k - 1] = q[k]
  OBVIOUS
<1>. QED BY <1>1 DEF On

LEMMA OnConcat ==
  ASSUME NEW q \in Seq(Packets), NEW r \in Seq(Packets)
  PROVE  /\ q \o r \in Seq(Packets)
         /\ \A packet : On(q \o r, packet) <=> (On(q, packet) \/ On(r, packet))
         /\ \A k \in DOMAIN q : k \in DOMAIN (q \o r) /\ (q \o r)[k] = q[k]
         /\ \A k \in DOMAIN (q \o r) \ DOMAIN q :
              /\ k - Len(q) \in DOMAIN r /\ (q \o r)[k] = r[k - Len(q)]
              /\ \A j \in DOMAIN q : j < k
         /\ \A k \in DOMAIN r : k + Len(q) \in DOMAIN (q \o r) /\ (q \o r)[k + Len(q)] = r[k]
         /\ Len(q) \in Nat
<1>1. /\ q \o r \in Seq(Packets) /\ Len(q \o r) = Len(q) + Len(r)
      /\ \A k \in 1 .. Len(q) : (q \o r)[k] = q[k]
      /\ \A k \in 1 .. Len(r) : (q \o r)[k + Len(q)] = r[k]
  BY ConcatProperties
<1>2. DOMAIN q = 1 .. Len(q) /\ DOMAIN r = 1 .. Len(r) /\ Len(q) \in Nat /\ Len(r) \in Nat
      /\ DOMAIN (q \o r) = 1 .. (Len(q) + Len(r))
  BY <1>1, LenProperties
<1>3. \A k \in DOMAIN (q \o r) \ DOMAIN q :
        /\ k - Len(q) \in DOMAIN r /\ (q \o r)[k] = r[k - Len(q)]
        /\ \A j \in DOMAIN q : j < k
  BY <1>1, <1>2
<1>4. \A k \in DOMAIN q : k \in DOMAIN (q \o r) /\ (q \o r)[k] = q[k]
  BY <1>1, <1>2
<1>5. \A k \in DOMAIN r : k + Len(q) \in DOMAIN (q \o r) /\ (q \o r)[k + Len(q)] = r[k]
  BY <1>1, <1>2
<1>. QED BY <1>1, <1>2, <1>3, <1>4, <1>5 DEF On

\* The packets sent at once are few.
LEMMA Single ==
  ASSUME NEW x \in Packets
  PROVE  /\ <<x>> \in Seq(Packets) /\ DOMAIN <<x>> = {1} /\ <<x>>[1] = x
         /\ \A packet : On(<<x>>, packet) <=> packet = x
<1>1. <<x>> \in Seq(Packets) /\ DOMAIN <<x>> = {1} /\ <<x>>[1] = x
  OBVIOUS
<1>. QED BY <1>1 DEF On

LEMMA None ==
  /\ <<>> \in Seq(Packets) /\ DOMAIN <<>> = {}
  /\ \A packet : ~On(<<>>, packet)
<1>1. <<>> \in Seq(Packets) /\ DOMAIN <<>> = {}
  OBVIOUS
<1>. QED BY <1>1 DEF On

LEMMA SessionPacketTypes ==
  /\ SubscribePacket = IF Subscribes THEN <<"SUBSCRIBE">> ELSE <<>>
  /\ PublishPacket = IF pubTopic \in QoS THEN <<"PUBLISH">> ELSE <<>>
  /\ SubscribePacket \in Seq(Packets) /\ PublishPacket \in Seq(Packets)
  /\ \A packet : On(SubscribePacket, packet) <=> (Subscribes /\ packet = "SUBSCRIBE")
  /\ \A packet : On(PublishPacket, packet) <=> (pubTopic \in QoS /\ packet = "PUBLISH")
<1>1. {"SUBSCRIBE", "PUBLISH"} \subseteq Packets
  BY DEF Packets
<1>2. /\ SubscribePacket = IF Subscribes THEN <<"SUBSCRIBE">> ELSE <<>>
      /\ PublishPacket = IF pubTopic \in QoS THEN <<"PUBLISH">> ELSE <<>>
  BY DEF SubscribePacket, PublishPacket, Subscribes
<1>3. SubscribePacket \in Seq(Packets) /\ PublishPacket \in Seq(Packets)
  BY <1>1, <1>2, Single, None
<1>4. \A packet : On(SubscribePacket, packet) <=> (Subscribes /\ packet = "SUBSCRIBE")
  <2>1. CASE Subscribes
    BY <1>1, <1>2, <2>1, Single
  <2>2. CASE ~Subscribes
    BY <1>2, <2>2, None
  <2>. QED BY <2>1, <2>2
<1>5. \A packet : On(PublishPacket, packet) <=> (pubTopic \in QoS /\ packet = "PUBLISH")
  <2>1. CASE pubTopic \in QoS
    BY <1>1, <1>2, <2>1, Single
  <2>2. CASE pubTopic \notin QoS
    BY <1>2, <2>2, None
  <2>. QED BY <2>1, <2>2
<1>. QED BY <1>2, <1>3, <1>4, <1>5

\* What onConnack sends: SUBSCRIBE before PUBLISH.
LEMMA SessionPacketsFirst ==
  /\ SessionPackets \in Seq(Packets)
  /\ \A packet : On(SessionPackets, packet) <=>
       \/ Subscribes /\ packet = "SUBSCRIBE"
       \/ pubTopic \in QoS /\ packet = "PUBLISH"
  /\ Subscribes => \A k \in DOMAIN SessionPackets :
       SessionPackets[k] = "PUBLISH" =>
         \E j \in DOMAIN SessionPackets : j < k /\ SessionPackets[j] = "SUBSCRIBE"
<1>. DEFINE first == SubscribePacket
            next == PublishPacket
<1>1. first \in Seq(Packets) /\ next \in Seq(Packets)
  BY SessionPacketTypes
<1>2. SessionPackets = first \o next
  BY DEF SessionPackets
<1>3. /\ first \o next \in Seq(Packets)
      /\ \A packet : On(first \o next, packet) <=> (On(first, packet) \/ On(next, packet))
      /\ \A k \in DOMAIN first : k \in DOMAIN (first \o next) /\ (first \o next)[k] = first[k]
      /\ \A k \in DOMAIN (first \o next) \ DOMAIN first : \A j \in DOMAIN first : j < k
  BY <1>1, OnConcat
<1>4. ASSUME Subscribes, NEW k \in DOMAIN SessionPackets, SessionPackets[k] = "PUBLISH"
      PROVE  \E j \in DOMAIN SessionPackets : j < k /\ SessionPackets[j] = "SUBSCRIBE"
  <2>1. first = <<"SUBSCRIBE">> /\ DOMAIN first = {1} /\ first[1] = "SUBSCRIBE"
    BY <1>4, SessionPacketTypes
  <2>2. k \notin DOMAIN first
    BY <1>2, <1>3, <1>4, <2>1
  <2>. QED BY <1>2, <1>3, <1>4, <2>1, <2>2
<1>5. \A packet : On(SessionPackets, packet) <=>
        \/ Subscribes /\ packet = "SUBSCRIBE"
        \/ pubTopic \in QoS /\ packet = "PUBLISH"
  BY <1>2, <1>3, SessionPacketTypes
<1>. QED BY <1>2, <1>3, <1>4, <1>5

-----------------------------------------------------------------------------
(* The client.                                                             *)

\* Sending more than what is on its way already.
LEMMA SendMore ==
  ASSUME Types, NEW more \in Seq(Packets), toServer' = toServer \o more
  PROVE  /\ toServer' \in Seq(Packets)
         /\ \A packet : On(toServer', packet) <=> (On(toServer, packet) \/ On(more, packet))
  BY OnConcat DEF Types

\* What is sent with a DISCONNECT.
LEMMA Leave ==
  ASSUME Types, NEW packets \in Seq(Packets), NEW why, SendDisconnect(packets, why)
  PROVE  /\ toServer' = toServer \o (packets \o <<"DISCONNECT">>)
         /\ packets \o <<"DISCONNECT">> \in Seq(Packets)
         /\ \A packet : On(packets \o <<"DISCONNECT">>, packet)
                          <=> (On(packets, packet) \/ packet = "DISCONNECT")
<1>1. "DISCONNECT" \in Packets
  BY DEF Packets
<1>2. <<"DISCONNECT">> \in Seq(Packets) /\ \A packet : On(<<"DISCONNECT">>, packet) <=> packet = "DISCONNECT"
  BY <1>1, Single
<1>3. toServer' = (toServer \o packets) \o <<"DISCONNECT">>
  BY DEF SendDisconnect
<1>4. toServer' = toServer \o (packets \o <<"DISCONNECT">>)
  BY <1>2, <1>3, ConcatAssociative DEF Types
<1>. QED BY <1>2, <1>4, OnConcat

\* A message is only sent after the SUBSCRIBE it has to follow.
LEMMA StillFirst ==
  ASSUME Types, SubscribesFirst, NEW more \in Seq(Packets),
         toServer' = toServer \o more, UNCHANGED <<commandLine, server>>,
         Subscribes => \A k \in DOMAIN more :
           more[k] \in {"PUBLISH", "PUBREL"} =>
             subscribed \/ \E j \in DOMAIN more : j < k /\ more[j] = "SUBSCRIBE",
         Subscribes => (On(toClient', "PUBREC") => On(toClient, "PUBREC"))
  PROVE  SubscribesFirst'
<1>. DEFINE Before(q, k) == \E j \in DOMAIN q : j < k /\ q[j] = "SUBSCRIBE"
<1>1. /\ \A k \in DOMAIN toServer : k \in DOMAIN toServer' /\ toServer'[k] = toServer[k]
      /\ \A k \in DOMAIN toServer' \ DOMAIN toServer :
           k - Len(toServer) \in DOMAIN more /\ toServer'[k] = more[k - Len(toServer)]
      /\ \A k \in DOMAIN more :
           k + Len(toServer) \in DOMAIN toServer' /\ toServer'[k + Len(toServer)] = more[k]
      /\ Len(toServer) \in Nat /\ DOMAIN toServer' \subseteq Nat /\ DOMAIN more \subseteq Nat
  <2>1. toServer' \in Seq(Packets)
    BY OnConcat DEF Types
  <2>2. DOMAIN toServer' \subseteq Nat /\ DOMAIN more \subseteq Nat
    BY <2>1, LenProperties
  <2>. QED BY <2>2, OnConcat DEF Types
<1>2. (subscribed' = subscribed) /\ (handedOn' = handedOn) /\ (Subscribes' <=> Subscribes)
  BY DEF commandLine, server, Subscribes, Composite
<1>3. ASSUME Subscribes, NEW k \in DOMAIN toServer', toServer'[k] \in {"PUBLISH", "PUBREL"}
      PROVE  subscribed \/ Before(toServer', k)
  <2>1. CASE k \in DOMAIN toServer
    <3>1. subscribed \/ Before(toServer, k)
      BY <1>1, <1>3, <2>1 DEF SubscribesFirst
    <3>. QED BY <1>1, <3>1
  <2>2. CASE k \notin DOMAIN toServer
    <3>1. subscribed \/ Before(more, k - Len(toServer))
      BY <1>1, <1>3, <2>2
    <3>2. ASSUME NEW j \in DOMAIN more, j < k - Len(toServer), more[j] = "SUBSCRIBE"
          PROVE  Before(toServer', k)
      <4>1. j + Len(toServer) \in DOMAIN toServer' /\ toServer'[j + Len(toServer)] = "SUBSCRIBE"
        BY <1>1, <3>2
      <4>2. j + Len(toServer) < k
        BY <1>1, <3>2
      <4>. QED BY <4>1, <4>2
    <3>. QED BY <3>1, <3>2
  <2>. QED BY <2>1, <2>2
<1>. QED BY <1>2, <1>3 DEF SubscribesFirst

\* Definitions that are about the command line only.
LEMMA SameCommandLine ==
  ASSUME UNCHANGED commandLine
  PROVE  /\ subTopics' = subTopics /\ pubTopic' = pubTopic
         /\ Subscribes' <=> Subscribes
         /\ SubscribePacket' = SubscribePacket
  BY DEF commandLine, Subscribes, Composite, SubscribePacket

\* A connection begins as the one before ended: with nothing under way.
LEMMA ConnectedInv ==
  ASSUME Inv, OnConnected
  PROVE  Inv'
<1>1. /\ UNCHANGED <<commandLine, queues, server>>
      /\ conn = "closed" /\ conn' = "opening" /\ reason' = "none"
  BY DEF OnConnected
<1>2. /\ toServer' = toServer /\ toClient' = toClient
      /\ subscribed' = subscribed /\ handedOn' = handedOn
  BY <1>1 DEF queues, server
<1>3. Types'
  BY <1>2 DEF Inv, Types
<1>4. Fresh'
  BY <1>1, <1>2 DEF Inv, Fresh
<1>5. Unsubscribed' /\ Acknowledged'
  BY <1>1, <1>2, SameCommandLine DEF Inv, Unsubscribed, Acknowledged, On
<1>6. Done'
  BY <1>1 DEF Done
<1>7. SubscribesFirst'
  BY <1>1, <1>2, SameCommandLine DEF Inv, SubscribesFirst, On
<1>. QED BY <1>3, <1>4, <1>5, <1>6, <1>7 DEF Inv

\* An accepted session sends what the command line asks for, and DISCONNECT with
\* it when there is nothing to wait for.
LEMMA ConnackInv ==
  ASSUME Inv, OnConnack
  PROVE  Inv'
<1>. DEFINE more == IF NothingToAwait THEN SessionPackets \o <<"DISCONNECT">> ELSE SessionPackets
<1>1. /\ conn = "opening" /\ UNCHANGED <<commandLine, toClient, server>>
      /\ toClient' = toClient /\ subscribed' = subscribed /\ handedOn' = handedOn
  BY DEF OnConnack, server
<1>2. toServer = <<>> /\ toClient = <<>> /\ ~subscribed /\ ~handedOn
  BY <1>1 DEF Inv, Fresh
<1>3. /\ NothingToAwait => SendDisconnect(SessionPackets, "done")
      /\ ~NothingToAwait => toServer' = toServer \o SessionPackets /\ conn' = "open" /\ reason' = reason
  BY DEF OnConnack
<1>4. /\ more \in Seq(Packets)
      /\ toServer' = toServer \o more
      /\ \A packet : On(more, packet) <=>
           (On(SessionPackets, packet) \/ (NothingToAwait /\ packet = "DISCONNECT"))
  <2>1. CASE NothingToAwait
    BY <1>3, <2>1, Leave, SessionPacketsFirst DEF Inv
  <2>2. CASE ~NothingToAwait
    BY <1>3, <2>2, SessionPacketsFirst
  <2>. QED BY <2>1, <2>2
<1>5. \A packet : On(toServer', packet) <=>
           \/ Subscribes /\ packet = "SUBSCRIBE"
           \/ pubTopic \in QoS /\ packet = "PUBLISH"
           \/ NothingToAwait /\ packet = "DISCONNECT"
  <2>1. \A packet : On(toServer', packet) <=> (On(toServer, packet) \/ On(more, packet))
    BY <1>4, SendMore DEF Inv
  <2>. QED BY <1>2, <1>4, <2>1, None, SessionPacketsFirst
<1>6. Types'
  BY <1>1, <1>4, SendMore DEF Inv, Types
<1>7. conn' \in {"open", "closing"}
  BY <1>3 DEF SendDisconnect
<1>8. Fresh'
  BY <1>7 DEF Fresh
<1>9. SubscribePacket = <<>> <=> ~Subscribes
  BY SessionPacketTypes, Single, None
<1>10. Unsubscribed'
  BY <1>1, <1>2, <1>5, <1>9, SameCommandLine DEF Unsubscribed
<1>11. Acknowledged'
  BY <1>1, <1>2, <1>5, None DEF Acknowledged
<1>12. Done'
  <2>1. CASE NothingToAwait
    <3>1. pubTopic \in QoS => pubTopic = 0
      BY <2>1 DEF NothingToAwait, QoS
    <3>2. SubscribePacket = <<>>
      BY <2>1 DEF NothingToAwait
    <3>. QED BY <1>1, <1>5, <3>1, <3>2, SameCommandLine DEF Done
  <2>2. CASE ~NothingToAwait
    BY <1>1, <1>3, <2>2, SameCommandLine DEF Inv, Done
  <2>. QED BY <2>1, <2>2
<1>13. SubscribesFirst'
  <2>1. ASSUME Subscribes, NEW k \in DOMAIN more, more[k] \in {"PUBLISH", "PUBREL"}
        PROVE  subscribed \/ \E j \in DOMAIN more : j < k /\ more[j] = "SUBSCRIBE"
    <3>1. ~NothingToAwait
      BY <1>9, <2>1 DEF NothingToAwait
    <3>2. more = SessionPackets /\ ~On(SessionPackets, "PUBREL")
      BY <3>1, SessionPacketsFirst
    <3>3. more[k] = "PUBLISH"
      BY <2>1, <3>2 DEF On
    <3>. QED BY <2>1, <3>2, <3>3, SessionPacketsFirst
  <2>2. UNCHANGED <<commandLine, server>>
    BY <1>1 DEF server
  <2>. HIDE DEF more
  <2>. QED BY <1>1, <1>4, <2>1, <2>2, StillFirst DEF Inv
<1>. QED BY <1>6, <1>8, <1>10, <1>11, <1>12, <1>13 DEF Inv

\* DISCONNECT alone leaves the rest as it is, unless the client was done.
LEMMA Leaves ==
  ASSUME Inv, NEW why \in {"refused", "signal"}, SendDisconnect(<<>>, why),
         UNCHANGED <<commandLine, toClient, server>>
  PROVE  Inv'
<1>. DEFINE more == <<>> \o <<"DISCONNECT">>
<1>1. toClient' = toClient /\ subscribed' = subscribed /\ handedOn' = handedOn
  BY DEF server
<1>2. /\ toServer' = toServer \o more /\ more \in Seq(Packets)
      /\ \A packet : On(more, packet) <=> packet = "DISCONNECT"
  BY Leave, None DEF Inv
<1>3. conn' = "closing" /\ reason' = why
  BY DEF SendDisconnect
<1>. HIDE DEF more
<1>4. \A packet : On(toServer', packet) <=> (On(toServer, packet) \/ packet = "DISCONNECT")
  BY <1>2, SendMore DEF Inv
<1>5. Types'
  BY <1>1, <1>2, SendMore DEF Inv, Types
<1>6. Fresh' /\ Done'
  BY <1>3 DEF Fresh, Done
<1>7. Unsubscribed' /\ Acknowledged'
  BY <1>1, <1>4, SameCommandLine DEF Inv, Unsubscribed, Acknowledged
<1>8. SubscribesFirst'
  BY <1>1, <1>2, StillFirst DEF Inv, On
<1>. QED BY <1>5, <1>6, <1>7, <1>8 DEF Inv

\* A refused session, or a signal, sends DISCONNECT and nothing else.
LEMMA RefusedInv ==
  ASSUME Inv, OnConnackRefused
  PROVE  Inv'
  BY Leaves DEF OnConnackRefused

LEMMA SignalInv ==
  ASSUME Inv, OnSignal
  PROVE  Inv'
  BY Leaves DEF OnSignal

\* An acknowledgement ends a session without subscriptions; PUBREC is answered.
LEMMA ClientReceivesInv ==
  ASSUME Inv, ClientReceives
  PROVE  Inv'
<1>. DEFINE packet == Head(toClient)
            leaves == packet \in Acknowledgements /\ subTopics = <<>>
            more == IF leaves THEN <<>> \o <<"DISCONNECT">>
                    ELSE IF packet = "PUBREC" THEN <<"PUBREL">> ELSE <<>>
<1>1. /\ conn = "open" /\ toClient # <<>> /\ toClient' = Tail(toClient)
      /\ leaves => SendDisconnect(<<>>, "done")
      /\ ~leaves =>
           /\ toServer' = IF packet = "PUBREC" THEN Append(toServer, "PUBREL") ELSE toServer
           /\ conn' = conn /\ reason' = reason
      /\ UNCHANGED <<commandLine, server>>
      /\ subscribed' = subscribed /\ handedOn' = handedOn
  BY DEF ClientReceives, server
<1>2. /\ toClient' \in Seq(Packets)
      /\ On(toClient, packet)
      /\ \A p : On(toClient', p) => On(toClient, p)
  BY <1>1, OnTail DEF Inv, Types
<1>3. /\ more \in Seq(Packets) /\ toServer' = toServer \o more
      /\ \A p : On(more, p) => (p = "DISCONNECT" \/ (p = "PUBREL" /\ packet = "PUBREC" /\ ~leaves))
  <2>1. CASE leaves
    BY <1>1, <2>1, Leave, None DEF Inv
  <2>2. CASE ~leaves /\ packet = "PUBREC"
    <3>1. "PUBREL" \in Packets
      BY DEF Packets
    <3>2. <<"PUBREL">> \in Seq(Packets) /\ \A p : On(<<"PUBREL">>, p) <=> p = "PUBREL"
      BY <3>1, Single
    <3>3. toServer' = toServer \o <<"PUBREL">>
      BY <1>1, <2>2, <3>1, AppendIsConcat DEF Inv, Types
    <3>. QED BY <2>2, <3>2, <3>3
  <2>3. CASE ~leaves /\ packet # "PUBREC"
    <3>1. toServer' = toServer \o <<>>
      BY <1>1, <2>3, ConcatEmptySeq DEF Inv, Types
    <3>. QED BY <2>3, <3>1, None
  <2>. QED BY <2>1, <2>2, <2>3
<1>. HIDE DEF more
<1>4. \A p : On(toServer', p) <=> (On(toServer, p) \/ On(more, p))
  BY <1>3, SendMore DEF Inv
<1>5. Types'
  BY <1>1, <1>2, <1>3, SendMore DEF Inv, Types
<1>6. conn' \in {"open", "closing"}
  BY <1>1 DEF SendDisconnect
<1>7. Fresh'
  BY <1>6 DEF Fresh
<1>8. Unsubscribed'
  BY <1>1, <1>3, <1>4, SameCommandLine DEF Inv, Unsubscribed
<1>9. Acknowledged'
  BY <1>1, <1>2, <1>3, <1>4, SameCommandLine DEF Inv, Acknowledged
<1>10. Done'
  <2>1. CASE leaves
    <3>1. SubscribePacket = <<>>
      BY <2>1 DEF SubscribePacket
    <3>2. handedOn
      BY <1>2, <2>1 DEF Inv, Acknowledged, Acknowledgements
    <3>. QED BY <1>1, <3>1, <3>2, SameCommandLine DEF Done
  <2>2. CASE ~leaves
    BY <1>1, <2>2, SameCommandLine DEF Inv, Done
  <2>. QED BY <2>1, <2>2
<1>11. SubscribesFirst'
  <2>1. ASSUME Subscribes, NEW k \in DOMAIN more, more[k] \in {"PUBLISH", "PUBREL"}
        PROVE  subscribed
    <3>1. On(more, more[k])
      BY <2>1 DEF On
    <3>2. packet = "PUBREC"
      BY <1>3, <2>1, <3>1
    <3>. QED BY <1>2, <2>1, <3>2 DEF Inv, SubscribesFirst
  <2>. QED BY <1>1, <1>2, <1>3, <2>1, StillFirst DEF Inv
<1>. QED BY <1>5, <1>7, <1>8, <1>9, <1>10, <1>11 DEF Inv

-----------------------------------------------------------------------------
(* The server and the connection.                                          *)

\* What the server answers.
LEMMA Answers ==
  ASSUME NEW packet \in Packets
  PROVE  /\ Answer(packet) \in Seq(Packets)
         /\ On(Answer(packet), "PUBACK") => packet = "PUBLISH" /\ pubTopic = 1
         /\ On(Answer(packet), "PUBREC") => packet = "PUBLISH" /\ pubTopic = 2
         /\ On(Answer(packet), "PUBCOMP") => packet = "PUBREL"
<1>1. {"SUBACK", "PUBACK", "PUBREC", "PUBCOMP"} \subseteq Packets
  BY DEF Packets
<1>2. \A answer \in Packets : <<answer>> \in Seq(Packets) /\ \A p : On(<<answer>>, p) <=> p = answer
  BY Single
<1>3. CASE packet = "SUBSCRIBE"
  BY <1>1, <1>2, <1>3 DEF Answer
<1>4. CASE packet = "PUBLISH" /\ pubTopic = 1
  BY <1>1, <1>2, <1>4 DEF Answer
<1>5. CASE packet = "PUBLISH" /\ pubTopic = 2
  BY <1>1, <1>2, <1>5 DEF Answer
<1>6. CASE packet = "PUBREL"
  BY <1>1, <1>2, <1>6 DEF Answer
<1>7. CASE ~(packet \in {"SUBSCRIBE", "PUBREL"} \/ (packet = "PUBLISH" /\ pubTopic \in {1, 2}))
  <2>1. Answer(packet) = <<>>
    BY <1>7 DEF Answer
  <2>. QED BY <2>1, None
<1>. QED BY <1>3, <1>4, <1>5, <1>6, <1>7

\* What the server has seen moves from the queue into its own state, and its
\* answer into the other queue.
LEMMA ServerReceivesInv ==
  ASSUME Inv, ServerReceives
  PROVE  Inv'
<1>. DEFINE packet == Head(toServer)
<1>1. /\ toServer # <<>> /\ toServer' = Tail(toServer)
      /\ subscribed' = (subscribed \/ packet = "SUBSCRIBE")
      /\ handedOn' = (handedOn \/ HandsOn(packet))
      /\ toClient' = toClient \o Answer(packet)
      /\ UNCHANGED commandLine /\ conn' = conn /\ reason' = reason
  BY DEF ServerReceives
<1>2. /\ packet \in Packets /\ Tail(toServer) \in Seq(Packets)
      /\ \A p : On(toServer, p) <=> (packet = p \/ On(toServer', p))
  BY <1>1, OnTail DEF Inv, Types
<1>3. /\ toClient' \in Seq(Packets)
      /\ \A p : On(toClient', p) <=> (On(toClient, p) \/ On(Answer(packet), p))
  BY <1>1, <1>2, Answers, OnConcat DEF Inv, Types
<1>4. Types'
  BY <1>1, <1>2, <1>3 DEF Inv, Types
<1>5. Fresh'
  BY <1>1 DEF Inv, Fresh
<1>6. Unsubscribed'
  BY <1>1, <1>2, SameCommandLine DEF Inv, Unsubscribed
<1>7. Acknowledged'
  <2>1. On(toServer', "PUBREL") \/ On(toClient', "PUBREC") => pubTopic = 2
    BY <1>2, <1>3, Answers DEF Inv, Acknowledged
  <2>2. On(toClient', "PUBACK") \/ On(toClient', "PUBCOMP") => handedOn'
    <3>1. On(Answer(packet), "PUBACK") => HandsOn(packet)
      BY <1>2, Answers DEF HandsOn
    <3>2. On(Answer(packet), "PUBCOMP") => HandsOn(packet)
      BY <1>2, Answers DEF HandsOn, Inv, Acknowledged
    <3>. QED BY <1>1, <1>3, <3>1, <3>2 DEF Inv, Acknowledged
  <2>. QED BY <1>1, <2>1, <2>2, SameCommandLine DEF Acknowledged
<1>8. Done'
  <2>1. packet = "PUBLISH" /\ pubTopic = 0 => HandsOn(packet)
    BY DEF HandsOn
  <2>. QED BY <1>1, <1>2, <2>1, SameCommandLine DEF Inv, Done
<1>9. SubscribesFirst'
  <2>1. ASSUME Subscribes, packet \in {"PUBLISH", "PUBREL"}
        PROVE  subscribed
    <3>1. /\ 1 \in DOMAIN toServer /\ toServer[1] = packet
          /\ \A j \in DOMAIN toServer \ {1} : j \in Nat \ {0, 1}
      BY <1>1, OnTail DEF Inv, Types
    <3>2. ~ \E j \in DOMAIN toServer : j < 1
      BY <3>1
    <3>. QED BY <2>1, <3>1, <3>2 DEF Inv, SubscribesFirst
  <2>2. Subscribes /\ (handedOn' \/ On(toClient', "PUBREC")) => subscribed'
    <3>1. HandsOn(packet) => packet \in {"PUBLISH", "PUBREL"}
      BY DEF HandsOn
    <3>2. On(Answer(packet), "PUBREC") => packet \in {"PUBLISH", "PUBREL"}
      BY <1>2, Answers
    <3>. QED BY <1>1, <1>3, <2>1, <3>1, <3>2 DEF Inv, SubscribesFirst
  <2>3. ASSUME Subscribes, NEW k \in DOMAIN toServer', toServer'[k] \in {"PUBLISH", "PUBREL"}
        PROVE  subscribed' \/ \E j \in DOMAIN toServer' : j < k /\ toServer'[j] = "SUBSCRIBE"
    <3>1. k \in Nat /\ k + 1 \in DOMAIN toServer /\ toServer[k + 1] = toServer'[k]
      BY <1>1, <2>3, OnTail DEF Inv, Types
    <3>2. subscribed \/ \E j \in DOMAIN toServer : j < k + 1 /\ toServer[j] = "SUBSCRIBE"
      BY <2>3, <3>1 DEF Inv, SubscribesFirst
    <3>3. ASSUME NEW j \in DOMAIN toServer, j < k + 1, toServer[j] = "SUBSCRIBE"
          PROVE  subscribed' \/ \E i \in DOMAIN toServer' : i < k /\ toServer'[i] = "SUBSCRIBE"
      <4>1. CASE j = 1
        <5>1. packet = "SUBSCRIBE"
          BY <1>1, <3>3, <4>1, OnTail DEF Inv, Types
        <5>. QED BY <1>1, <5>1
      <4>2. CASE j # 1
        <5>1. j \in Nat /\ j - 1 \in DOMAIN toServer' /\ toServer'[j - 1] = toServer[j]
          BY <1>1, <4>2, OnTail DEF Inv, Types
        <5>2. j - 1 < k
          BY <3>1, <3>3, <5>1
        <5>. QED BY <3>3, <5>1, <5>2
      <4>. QED BY <4>1, <4>2
    <3>. QED BY <1>1, <3>2, <3>3
  <2>. QED BY <1>1, <2>2, <2>3, SameCommandLine DEF SubscribesFirst
<1>. QED BY <1>4, <1>5, <1>6, <1>7, <1>8, <1>9 DEF Inv

\* A connection that ends leaves nothing behind.
LEMMA ForgottenInv ==
  ASSUME Inv, Forgotten, UNCHANGED <<commandLine, reason>>
  PROVE  Inv'
<1>1. /\ conn' = "closed" /\ toServer' = <<>> /\ toClient' = <<>>
      /\ subscribed' = FALSE /\ handedOn' = FALSE
  BY DEF Forgotten
<1>2. Types' /\ Fresh'
  BY <1>1, None DEF Types, Fresh
<1>3. Unsubscribed' /\ Acknowledged'
  BY <1>1, None DEF Unsubscribed, Acknowledged
<1>4. Done'
  BY <1>1, SameCommandLine DEF Inv, Done
<1>5. SubscribesFirst'
  BY <1>1, None DEF SubscribesFirst
<1>. QED BY <1>2, <1>3, <1>4, <1>5 DEF Inv

-----------------------------------------------------------------------------
(* The theorems.                                                           *)

LEMMA InitInv == Init => Inv
<1>1. ASSUME Init PROVE Types /\ Fresh /\ Unsubscribed /\ Acknowledged /\ SubscribesFirst
  BY <1>1, None DEF Init, Types, Fresh, Unsubscribed, Acknowledged, SubscribesFirst
<1>2. ASSUME Init PROVE Done
  BY <1>2 DEF Init, Done
<1>. QED BY <1>1, <1>2 DEF Inv

LEMMA NextInv == Inv /\ [Next]_vars => Inv'
<1>. SUFFICES ASSUME Inv, [Next]_vars PROVE Inv'
  OBVIOUS
<1>1. CASE OnConnected
  BY <1>1, ConnectedInv
<1>2. CASE OnConnack
  BY <1>2, ConnackInv
<1>3. CASE OnConnackRefused
  BY <1>3, RefusedInv
<1>4. CASE ClientReceives
  BY <1>4, ClientReceivesInv
<1>5. CASE OnSignal
  BY <1>5, SignalInv
<1>6. CASE ServerReceives
  BY <1>6, ServerReceivesInv
<1>7. CASE Closed
  BY <1>7, ForgottenInv DEF Closed
<1>8. CASE Dropped
  BY <1>8, ForgottenInv DEF Dropped
<1>9. CASE UNCHANGED vars
  BY <1>9 DEF vars, commandLine, queues, server, Inv, Types, Fresh, Unsubscribed, Acknowledged,
     Done, SubscribesFirst, Subscribes, Composite, SubscribePacket, On
<1>. QED BY <1>1, <1>2, <1>3, <1>4, <1>5, <1>6, <1>7, <1>8, <1>9 DEF Next

\* What each packet under way stands for, in every state of every session.
THEOREM PacketsMeanWhatTheySay == Spec => []Inv
<1>. QED BY InitInv, NextInv, PTL DEF Spec

\* mqttcli: a client that left an accepted session by itself has had its message
\* handed on by the server, whatever its QoS, and gave up no subscription.
THEOREM LeavesOnlyWhenDone == Spec => []LeavesWhenDone
<1>1. Inv => LeavesWhenDone
  BY None DEF Inv, Done, Unsubscribed, LeavesWhenDone
<1>. QED BY <1>1, PacketsMeanWhatTheySay, PTL

\* mqttcli: a client that subscribes and publishes in one call is subscribed
\* when the server hands its message on.
THEOREM SubscribedInTime == Spec => []SeesOwnMessage
<1>1. Inv => SeesOwnMessage
  BY DEF Inv, SubscribesFirst, Subscribes, SeesOwnMessage
<1>. QED BY <1>1, PacketsMeanWhatTheySay, PTL
=============================================================================
