------------------------ MODULE BridgeForwardingProofs ------------------------
(***************************************************************************)
(* Theorems about BridgeForwarding, for any servers, sessions, topics and  *)
(* bounds: an undisturbed bridge serves all its servers, whatever the      *)
(* topology; and where bridges form no cycle and no server hands a message *)
(* back, a message is published at most once to each server.               *)
(***************************************************************************)
EXTENDS BridgeForwarding, SequenceTheorems, TLAPS

Message == [to : Sessions, id : Nat, topic : Seq(STRING)]
Arrival == [by : Sessions, id : Nat, topic : Seq(STRING)]

Types ==
  /\ mqttList \subseteq Sessions
  /\ publishes \in Seq([server : Servers, topic : Topics])
  /\ DOMAIN inflight \subseteq Message
  /\ IsABag(inflight)
  /\ DOMAIN arrived \subseteq Arrival
  /\ IsABag(arrived)
  /\ \A m \in DOMAIN inflight : m.to \in mqttList /\ m.id \in DOMAIN publishes
  /\ \A a \in DOMAIN arrived : a.id \in DOMAIN publishes

-----------------------------------------------------------------------------
(* Bags.                                                                   *)

LEMMA EmptyBagIs == IsABag(EmptyBag) /\ DOMAIN EmptyBag = {}
  BY DEF EmptyBag, SetToBag, IsABag

\* One more of each element of a set.
IsSum(sum, bag, S) ==
  /\ IsABag(sum)
  /\ DOMAIN sum = DOMAIN bag \cup S
  /\ \A e \in DOMAIN bag \ S : sum[e] = bag[e]
  /\ \A e \in S \ DOMAIN bag : sum[e] = 1

LEMMA Added ==
  ASSUME NEW bag, IsABag(bag), NEW S
  PROVE  IsSum(bag (+) SetToBag(S), bag, S)
<1>. PICK sum : sum = bag (+) SetToBag(S)
  OBVIOUS
<1>. DEFINE n(e) == IF e \in DOMAIN bag THEN bag[e] ELSE 0
            k(e) == IF e \in S THEN 1 ELSE 0
<1>1. sum = [e \in DOMAIN bag \cup S |-> n(e) + k(e)]
  BY DEF (+), SetToBag
<1>2. \A e \in DOMAIN bag : bag[e] \in Nat /\ bag[e] > 0
  BY DEF IsABag
<1>3. \A e : n(e) \in Nat /\ k(e) \in Nat
  BY <1>2
<1>4. \A e \in DOMAIN bag \cup S : n(e) + k(e) \in Nat /\ n(e) + k(e) > 0
  BY <1>2, <1>3
<1>5. DOMAIN sum = DOMAIN bag \cup S
  BY <1>1
<1>6. IsABag(sum)
  BY <1>1, <1>4 DEF IsABag
<1>7. \A e \in DOMAIN bag \ S : sum[e] = bag[e]
  BY <1>1, <1>2
<1>8. \A e \in S \ DOMAIN bag : sum[e] = 1
  BY <1>1
<1>. QED BY <1>5, <1>6, <1>7, <1>8 DEF IsSum

\* One less of an element: the others are untouched, and it is gone if it was
\* there once.
IsRest(rest, bag, m) ==
  /\ IsABag(rest)
  /\ DOMAIN rest \subseteq DOMAIN bag
  /\ \A e \in DOMAIN bag \ {m} : e \in DOMAIN rest /\ rest[e] = bag[e]
  /\ bag[m] = 1 => m \notin DOMAIN rest

LEMMA Removed ==
  ASSUME NEW bag, IsABag(bag), NEW m \in DOMAIN bag
  PROVE  IsRest(bag (-) SetToBag({m}), bag, m)
<1>. PICK rest : rest = bag (-) SetToBag({m})
  OBVIOUS
<1>. DEFINE B == [e \in DOMAIN bag |-> IF e \in {m} THEN bag[e] - 1 ELSE bag[e]]
<1>1. rest = [e \in {d \in DOMAIN B : B[d] > 0} |-> B[e]]
  BY DEF (-), SetToBag
<1>2. \A e \in DOMAIN bag : bag[e] \in Nat /\ bag[e] > 0
  BY DEF IsABag
<1>3. \A e \in DOMAIN bag : B[e] \in Nat
  BY <1>2
<1>4. DOMAIN rest = {d \in DOMAIN bag : B[d] > 0}
  BY <1>1
<1>5. IsABag(rest)
  BY <1>1, <1>3 DEF IsABag
<1>6. \A e \in DOMAIN bag \ {m} : e \in DOMAIN rest /\ rest[e] = bag[e]
  BY <1>1, <1>2
<1>7. bag[m] = 1 => ~(B[m] > 0)
  OBVIOUS
<1>. HIDE DEF B
<1>8. bag[m] = 1 => m \notin DOMAIN rest
  BY <1>4, <1>7
<1>. QED BY <1>4, <1>5, <1>6, <1>8 DEF IsRest

LEMMA CountedIs ==
  ASSUME NEW bag, IsABag(bag)
  PROVE  /\ IsABag(Counted(bag))
         /\ DOMAIN Counted(bag) = DOMAIN bag
         /\ \A e \in DOMAIN bag : bag[e] = 1 => Counted(bag)[e] = 1
  BY BoundsAssumption DEF IsABag, Counted

-----------------------------------------------------------------------------
(* The messages of the actions.                                            *)

LEMMA DeliveredIs ==
  ASSUME Types, NEW server, NEW publishers, NEW id \in Nat, NEW topic \in Seq(STRING)
  PROVE  /\ Delivered(server, publishers, id, topic) \subseteq Message
         /\ \A m \in Delivered(server, publishers, id, topic) :
              /\ m.to \in mqttList /\ m.to.server = server
              /\ m.id = id /\ m.topic = topic
              /\ ~(m.to \in publishers /\ m.to.loopPrevention)
              /\ Head(topic) \in m.to.filter
<1>1. Delivered(server, publishers, id, topic) \subseteq Message
  BY DEF Delivered, Types, Message
<1>2. \A m \in Delivered(server, publishers, id, topic) :
              /\ m.to \in mqttList /\ m.to.server = server
              /\ m.id = id /\ m.topic = topic
              /\ ~(m.to \in publishers /\ m.to.loopPrevention)
              /\ Head(topic) \in m.to.filter
  BY DEF Delivered
<1>. QED BY <1>1, <1>2

LEMMA DeliveredTo ==
  ASSUME NEW s \in mqttList, NEW id, NEW topic, Head(topic) \in s.filter
  PROVE  [to |-> s, id |-> id, topic |-> topic] \in Delivered(s.server, {}, id, topic)
  BY DEF Delivered

\* What OnPublish(m) publishes to the servers of d, and what they deliver.
Forwarded(m, d) == ForwardedTopic(m.to, d, m.topic)
Arriving(m) == {[by |-> d, id |-> m.id, topic |-> Forwarded(m, d)] : d \in Destinations(m.to)}
Leaving(m) == UNION {Delivered(d.server, {d}, m.id, Forwarded(m, d)) : d \in Destinations(m.to)}

LEMMA Prefixed ==
  ASSUME NEW s \in Seq(STRING), NEW t \in Seq(STRING)
  PROVE  s \o t \in Seq(STRING) /\ (s # <<>> => s \o t # <<>> /\ Head(s \o t) = Head(s))
<1>1. s \o t \in Seq(STRING) /\ Len(s \o t) = Len(s) + Len(t)
  BY ConcatProperties
<1>2. s # <<>> => Len(s) > 0 /\ (s \o t)[1] = s[1]
  BY ConcatProperties, EmptySeq, LenProperties
<1>3. s # <<>> => Head(s) = s[1] /\ Head(s \o t) = (s \o t)[1]
  BY <1>1, <1>2
<1>4. Len(s) > 0 => s \o t # <<>>
  BY <1>1, EmptySeq, LenProperties
<1>. QED BY <1>1, <1>2, <1>3, <1>4

LEMMA ForwardedIs ==
  ASSUME NEW o \in Sessions, NEW d \in Sessions, NEW topic \in Seq(STRING)
  PROVE  /\ ForwardedTopic(o, d, topic) \in Seq(STRING)
         /\ o.bridgePrefix # <<>> => Head(ForwardedTopic(o, d, topic)) = Head(o.bridgePrefix)
<1>1. /\ o.bridgePrefix \in Seq(STRING) /\ o.prefix \in Seq(STRING)
      /\ d.prefix \in Seq(STRING)
  BY SessionsAssumption
<1>. DEFINE one == o.bridgePrefix \o o.prefix
            two == one \o d.prefix
            all == two \o topic
<1>2. one \in Seq(STRING) /\ (o.bridgePrefix # <<>> => one # <<>> /\ Head(one) = Head(o.bridgePrefix))
  BY <1>1, Prefixed
<1>. HIDE DEF one
<1>3. two \in Seq(STRING) /\ (o.bridgePrefix # <<>> => two # <<>> /\ Head(two) = Head(o.bridgePrefix))
  BY <1>1, <1>2, Prefixed
<1>. HIDE DEF two
<1>4. all \in Seq(STRING) /\ (o.bridgePrefix # <<>> => all # <<>> /\ Head(all) = Head(o.bridgePrefix))
  BY <1>3, Prefixed
<1>. QED BY <1>4 DEF ForwardedTopic, one, two

LEMMA OnPublishIs ==
  ASSUME Types, NEW m \in DOMAIN inflight, OnPublish(m)
  PROVE  /\ m \in Message /\ Destinations(m.to) \subseteq Sessions
         /\ Arriving(m) \subseteq Arrival
         /\ Leaving(m) \subseteq Message
         /\ arrived' = Counted(arrived (+) SetToBag(Arriving(m)))
         /\ inflight' = (inflight (-) SetToBag({m})) (+) SetToBag(Leaving(m))
         /\ UNCHANGED <<mqttList, publishes, disturbed>>
<1>1. m \in Message /\ m.to \in Sessions /\ m.id \in Nat /\ m.topic \in Seq(STRING)
  BY DEF Types, Message
<1>2. Destinations(m.to) \subseteq Sessions
  BY DEF Destinations, Types
<1>3. \A d \in Destinations(m.to) : Forwarded(m, d) \in Seq(STRING)
  BY <1>1, <1>2, ForwardedIs DEF Forwarded
<1>4. Arriving(m) \subseteq Arrival
  BY <1>1, <1>2, <1>3 DEF Arriving, Arrival
<1>5. \A d \in Destinations(m.to) : Delivered(d.server, {d}, m.id, Forwarded(m, d)) \subseteq Message
  BY <1>1, <1>3, DeliveredIs
<1>6. Leaving(m) \subseteq Message
  BY <1>5 DEF Leaving
<1>7. /\ arrived' = Counted(arrived (+) SetToBag(Arriving(m)))
      /\ inflight' = (inflight (-) SetToBag({m})) (+) SetToBag(Leaving(m))
      /\ UNCHANGED <<mqttList, publishes, disturbed>>
  BY DEF OnPublish, Arriving, Leaving, Forwarded
<1>. QED BY <1>1, <1>2, <1>4, <1>6, <1>7

\* The bags after OnPublish.
LEMMA OnPublishBags ==
  ASSUME Types, NEW m \in DOMAIN inflight, OnPublish(m)
  PROVE  /\ IsABag(inflight') /\ IsABag(arrived')
         /\ DOMAIN arrived' = DOMAIN arrived \cup Arriving(m)
         /\ DOMAIN inflight' \subseteq DOMAIN inflight \cup Leaving(m)
         /\ Leaving(m) \subseteq DOMAIN inflight'
         /\ \A n \in DOMAIN inflight \ {m} : n \in DOMAIN inflight'
         /\ inflight[m] = 1 => DOMAIN inflight' \subseteq (DOMAIN inflight \ {m}) \cup Leaving(m)
         /\ \A n \in DOMAIN inflight \ ({m} \cup Leaving(m)) : inflight'[n] = inflight[n]
         /\ \A n \in Leaving(m) \ DOMAIN inflight : inflight'[n] = 1
         /\ \A a \in DOMAIN arrived \ Arriving(m) : arrived[a] = 1 => arrived'[a] = 1
         /\ \A a \in Arriving(m) \ DOMAIN arrived : arrived'[a] = 1
<1>. PICK rest, more : /\ rest = inflight (-) SetToBag({m})
                       /\ more = arrived (+) SetToBag(Arriving(m))
  OBVIOUS
<1>1. IsABag(inflight) /\ IsABag(arrived)
  BY DEF Types
<1>2. IsRest(rest, inflight, m)
  BY <1>1, Removed
<1>3. IsSum(more, arrived, Arriving(m))
  BY <1>1, Added
<1>4. inflight' = rest (+) SetToBag(Leaving(m)) /\ arrived' = Counted(more)
  BY OnPublishIs
<1>5. IsSum(inflight', rest, Leaving(m))
  BY <1>2, <1>4, Added DEF IsRest
<1>6. /\ IsABag(arrived') /\ DOMAIN arrived' = DOMAIN more
      /\ \A e \in DOMAIN more : more[e] = 1 => arrived'[e] = 1
  BY <1>3, <1>4, CountedIs DEF IsSum
<1>7. /\ IsABag(arrived') /\ DOMAIN arrived' = DOMAIN arrived \cup Arriving(m)
      /\ \A a \in DOMAIN arrived \ Arriving(m) : arrived[a] = 1 => arrived'[a] = 1
      /\ \A a \in Arriving(m) \ DOMAIN arrived : arrived'[a] = 1
  BY <1>3, <1>6 DEF IsSum
<1>8. /\ DOMAIN inflight' = DOMAIN rest \cup Leaving(m)
      /\ DOMAIN rest \subseteq DOMAIN inflight
      /\ \A n \in DOMAIN inflight \ {m} : n \in DOMAIN rest
      /\ inflight[m] = 1 => DOMAIN rest \subseteq DOMAIN inflight \ {m}
  BY <1>2, <1>5 DEF IsRest, IsSum
<1>9. /\ IsABag(inflight')
      /\ \A n \in DOMAIN inflight \ ({m} \cup Leaving(m)) : inflight'[n] = inflight[n]
      /\ \A n \in Leaving(m) \ DOMAIN inflight : inflight'[n] = 1
  BY <1>2, <1>5 DEF IsRest, IsSum
<1>. QED BY <1>7, <1>8, <1>9

-----------------------------------------------------------------------------
(* Types.                                                                  *)

\* Another client's message has the next number.
LEMMA Numbered ==
  ASSUME Types, NEW server \in Servers, NEW topic \in Topics, ClientPublish(server, topic),
         NEW id, id = Len(publishes) + 1
  PROVE  /\ id \in Nat /\ id \notin DOMAIN publishes /\ topic \in Seq(STRING)
         /\ publishes' \in Seq([server : Servers, topic : Topics])
         /\ DOMAIN publishes' = DOMAIN publishes \cup {id}
         /\ publishes'[id] = [server |-> server, topic |-> topic]
<1>1. publishes \in Seq([server : Servers, topic : Topics])
  BY DEF Types
<1>2. publishes' = Append(publishes, [server |-> server, topic |-> topic])
  BY DEF ClientPublish
<1>. QED BY <1>1, <1>2, TopicsAssumption

LEMMA OthersKeepNumber ==
  ASSUME Types, NEW server \in Servers, NEW topic \in Topics, ClientPublish(server, topic),
         NEW k \in DOMAIN publishes
  PROVE  publishes'[k] = publishes[k]
<1>1. publishes \in Seq([server : Servers, topic : Topics])
  BY DEF Types
<1>2. publishes' = Append(publishes, [server |-> server, topic |-> topic])
  BY DEF ClientPublish
<1>. QED BY <1>1, <1>2

\* It is on its way, once, to each of the sessions that the server delivers it to.
IsPublished(id, server, new) ==
  /\ new \subseteq Message
  /\ \A m \in new : m.id = id /\ m.to \in mqttList /\ m.to.server = server
  /\ IsABag(inflight')
  /\ DOMAIN inflight' = DOMAIN inflight \cup new
  /\ \A m \in DOMAIN inflight : m \notin new /\ inflight'[m] = inflight[m]
  /\ \A m \in new : inflight'[m] = 1
  /\ UNCHANGED <<mqttList, arrived, disturbed>>

LEMMA Published ==
  ASSUME Types, NEW server \in Servers, NEW topic \in Topics, ClientPublish(server, topic),
         NEW id, id = Len(publishes) + 1,
         NEW new, new = Delivered(server, {}, id, topic)
  PROVE  IsPublished(id, server, new)
<1>1. id \in Nat /\ id \notin DOMAIN publishes /\ topic \in Seq(STRING)
  BY Numbered
<1>2. new \subseteq Message /\ \A m \in new : m.id = id /\ m.to \in mqttList /\ m.to.server = server
  BY <1>1, DeliveredIs
<1>3. \A m \in DOMAIN inflight : m \notin new
  BY <1>1, <1>2 DEF Types
<1>4. inflight' = inflight (+) SetToBag(new) /\ UNCHANGED <<mqttList, arrived, disturbed>>
  BY DEF ClientPublish
<1>5. /\ IsABag(inflight') /\ DOMAIN inflight' = DOMAIN inflight \cup new
      /\ \A m \in DOMAIN inflight \ new : inflight'[m] = inflight[m]
      /\ \A m \in new \ DOMAIN inflight : inflight'[m] = 1
  <2>1. IsABag(inflight)
    BY DEF Types
  <2>2. IsSum(inflight', inflight, new)
    BY <1>4, <2>1, Added
  <2>. QED BY <2>2 DEF IsSum
<1>6. (\A m \in DOMAIN inflight : inflight'[m] = inflight[m]) /\ \A m \in new : inflight'[m] = 1
  BY <1>3, <1>5
<1>. QED BY <1>2, <1>3, <1>4, <1>5, <1>6 DEF IsPublished

LEMMA DisconnectedIs ==
  ASSUME Types, NEW s \in Sessions, Disconnected(s)
  PROVE  /\ DOMAIN inflight' = {n \in DOMAIN inflight : n.to # s} /\ IsABag(inflight')
         /\ \A m \in DOMAIN inflight' : inflight'[m] = inflight[m]
         /\ mqttList' = mqttList \ {s}
         /\ UNCHANGED <<publishes, arrived>>
<1>1. inflight' = [m \in {n \in DOMAIN inflight : n.to # s} |-> inflight[m]]
  BY DEF Disconnected, Undelivered
<1>2. mqttList' = mqttList \ {s} /\ UNCHANGED <<publishes, arrived>>
  BY DEF Disconnected
<1>. QED BY <1>1, <1>2 DEF Types, IsABag

LEMMA LeavingIs ==
  ASSUME Types, NEW m \in DOMAIN inflight, NEW n \in Leaving(m)
  PROVE  /\ n.id = m.id /\ n.to \in mqttList
         /\ \E d \in Destinations(m.to) :
              /\ n.to.server = d.server /\ n.topic = Forwarded(m, d)
              /\ ~(n.to = d /\ d.loopPrevention)
              /\ Head(Forwarded(m, d)) \in n.to.filter
<1>1. PICK d \in Destinations(m.to) : n \in Delivered(d.server, {d}, m.id, Forwarded(m, d))
  BY DEF Leaving
<1>2. m.id \in Nat /\ m.to \in Sessions /\ m.topic \in Seq(STRING) /\ d \in Sessions
  BY DEF Types, Message, Destinations
<1>3. Forwarded(m, d) \in Seq(STRING)
  BY <1>2, ForwardedIs DEF Forwarded
<1>. QED BY <1>1, <1>2, <1>3, DeliveredIs

LEMMA TypesStep == Types /\ [Next]_vars => Types'
<1>. SUFFICES ASSUME Types, [Next]_vars PROVE Types'
  OBVIOUS
<1>1. ASSUME NEW server \in Servers, NEW topic \in Topics, ClientPublish(server, topic) PROVE Types'
  <2>. PICK id, new : id = Len(publishes) + 1 /\ new = Delivered(server, {}, id, topic)
    OBVIOUS
  <2>1. /\ publishes' \in Seq([server : Servers, topic : Topics])
        /\ DOMAIN publishes' = DOMAIN publishes \cup {id}
    BY <1>1, Numbered
  <2>2. /\ new \subseteq Message /\ \A m \in new : m.id = id /\ m.to \in mqttList
        /\ IsABag(inflight') /\ DOMAIN inflight' = DOMAIN inflight \cup new
        /\ UNCHANGED <<mqttList, arrived>>
    <3>1. IsPublished(id, server, new)
      BY <1>1, Published
    <3>. QED BY <3>1 DEF IsPublished
  <2>. QED BY <2>1, <2>2 DEF Types
<1>2. ASSUME NEW m \in DOMAIN inflight, OnPublish(m) PROVE Types'
  <2>1. /\ IsABag(inflight') /\ IsABag(arrived')
        /\ DOMAIN arrived' = DOMAIN arrived \cup Arriving(m)
        /\ DOMAIN inflight' \subseteq DOMAIN inflight \cup Leaving(m)
    BY <1>2, OnPublishBags
  <2>2. /\ Arriving(m) \subseteq Arrival /\ Leaving(m) \subseteq Message
        /\ UNCHANGED <<mqttList, publishes>>
    BY <1>2, OnPublishIs
  <2>3. \A n \in Leaving(m) : n.to \in mqttList /\ n.id = m.id
    BY LeavingIs
  <2>4. \A a \in Arriving(m) : a.id = m.id
    BY DEF Arriving
  <2>5. m.id \in DOMAIN publishes
    BY DEF Types
  <2>. QED BY <2>1, <2>2, <2>3, <2>4, <2>5 DEF Types
<1>3. ASSUME NEW s \in Sessions, Connected(s) PROVE Types'
  BY <1>3 DEF Types, Connected
<1>4. ASSUME NEW s \in Sessions, Disconnected(s) PROVE Types'
  BY <1>4, DisconnectedIs DEF Types
<1>5. CASE UNCHANGED vars
  BY <1>5 DEF Types, vars
<1>. QED BY <1>1, <1>2, <1>3, <1>4, <1>5 DEF Next

LEMMA TypesInit == Init => Types
  BY EmptyBagIs DEF Init, Types

\* What the bounds and the history say beyond the types.
WithinBounds ==
  /\ Len(publishes) <= MaxPublishes
  /\ disturbed \subseteq {s.bridge : s \in Sessions}

LEMMA BoundsStep == Types /\ WithinBounds /\ [Next]_vars => WithinBounds'
<1>. SUFFICES ASSUME Types, WithinBounds, [Next]_vars PROVE WithinBounds'
  OBVIOUS
<1>1. CASE UNCHANGED <<publishes, disturbed>>
  BY <1>1 DEF WithinBounds
<1>2. ASSUME NEW server \in Servers, NEW topic \in Topics, ClientPublish(server, topic)
      PROVE  WithinBounds'
  <2>1. Len(publishes) \in Nat /\ Len(publishes') = Len(publishes) + 1
    BY <1>2 DEF ClientPublish, Types
  <2>2. Len(publishes) < MaxPublishes /\ disturbed' = disturbed
    BY <1>2 DEF ClientPublish
  <2>. QED BY <2>1, <2>2, BoundsAssumption DEF WithinBounds
<1>3. ASSUME NEW s \in Sessions, Connected(s) \/ Disconnected(s)
      PROVE  WithinBounds'
  BY <1>3 DEF Connected, Disconnected, Disturbs, WithinBounds
<1>. QED BY <1>1, <1>2, <1>3 DEF Next, OnPublish, vars

\* mqttbridge: a message is only on its way to a session that is in a list, and
\* what has been published is of a message that some client published.
THEOREM TypeCorrect == Spec => []TypeOK
<1>1. Init => WithinBounds
  BY BoundsAssumption DEF Init, WithinBounds
<1>2. Types /\ WithinBounds => TypeOK
  BY DEF Types, WithinBounds, TypeOK, Arrival
<1>. QED BY <1>1, <1>2, TypesInit, TypesStep, BoundsStep, PTL DEF Spec

-----------------------------------------------------------------------------
(* An undisturbed bridge serves all its servers.                           *)

\* What a session accepts from its server is on its way to it, or has been
\* published to the servers of the others.
Pending ==
  \A id \in DOMAIN publishes : \A origin, s \in mqttList :
    (/\ origin.bridge = s.bridge /\ origin # s
     /\ origin.bridge \notin disturbed
     /\ origin.server = publishes[id].server
     /\ Head(publishes[id].topic) \in origin.filter)
      => \/ \E m \in DOMAIN inflight : m.to = origin /\ m.id = id
         \/ \E a \in DOMAIN arrived : a.by = s /\ a.id = id

LEMMA PendingStep == Types /\ Pending /\ [Next]_vars => Pending'
<1>. SUFFICES ASSUME Types, Pending, [Next]_vars,
                     NEW id \in DOMAIN publishes', NEW origin \in mqttList', NEW s \in mqttList',
                     origin.bridge = s.bridge, origin # s,
                     origin.bridge \notin disturbed',
                     origin.server = publishes'[id].server,
                     Head(publishes'[id].topic) \in origin.filter
              PROVE  \/ \E m \in DOMAIN inflight' : m.to = origin /\ m.id = id
                     \/ \E a \in DOMAIN arrived' : a.by = s /\ a.id = id
  BY DEF Pending
<1>1. ASSUME NEW server \in Servers, NEW topic \in Topics, ClientPublish(server, topic)
      PROVE  \/ \E m \in DOMAIN inflight' : m.to = origin /\ m.id = id
             \/ \E a \in DOMAIN arrived' : a.by = s /\ a.id = id
  <2>. PICK k, new : k = Len(publishes) + 1 /\ new = Delivered(server, {}, k, topic)
    OBVIOUS
  <2>0. /\ DOMAIN publishes' = DOMAIN publishes \cup {k}
        /\ publishes'[k] = [server |-> server, topic |-> topic]
    BY <1>1, Numbered
  <2>1. \A n \in DOMAIN publishes : publishes'[n] = publishes[n]
    BY <1>1, OthersKeepNumber
  <2>2. /\ DOMAIN inflight' = DOMAIN inflight \cup new /\ \A m \in new : m.id = k
        /\ UNCHANGED <<mqttList, arrived, disturbed>>
    <3>1. IsPublished(k, server, new)
      BY <1>1, Published
    <3>. QED BY <3>1 DEF IsPublished
  <2>3. CASE id \in DOMAIN publishes
    BY <2>1, <2>2, <2>3 DEF Pending
  <2>4. CASE id = k
    <3>1. origin \in mqttList /\ origin.server = server /\ Head(topic) \in origin.filter
      BY <2>0, <2>2, <2>4
    <3>2. [to |-> origin, id |-> k, topic |-> topic] \in new
      BY <3>1, DeliveredTo
    <3>. QED BY <2>2, <2>4, <3>2
  <2>. QED BY <2>0, <2>3, <2>4
<1>2. ASSUME NEW m \in DOMAIN inflight, OnPublish(m)
      PROVE  \/ \E n \in DOMAIN inflight' : n.to = origin /\ n.id = id
             \/ \E a \in DOMAIN arrived' : a.by = s /\ a.id = id
  <2>1. UNCHANGED <<mqttList, publishes, disturbed>>
    BY <1>2, OnPublishIs
  <2>2. /\ DOMAIN arrived' = DOMAIN arrived \cup Arriving(m)
        /\ \A n \in DOMAIN inflight \ {m} : n \in DOMAIN inflight'
    BY <1>2, OnPublishBags
  <2>3. CASE m.to = origin /\ m.id = id
    <3>1. s \in Destinations(m.to)
      BY <2>1, <2>3 DEF Destinations
    <3>2. [by |-> s, id |-> m.id, topic |-> Forwarded(m, s)] \in Arriving(m)
      BY <3>1 DEF Arriving
    <3>. QED BY <2>2, <2>3, <3>2
  <2>. QED BY <2>1, <2>2, <2>3 DEF Pending
<1>3. ASSUME NEW c \in Sessions, Connected(c)
      PROVE  \/ \E m \in DOMAIN inflight' : m.to = origin /\ m.id = id
             \/ \E a \in DOMAIN arrived' : a.by = s /\ a.id = id
  <2>1. /\ mqttList' = mqttList \cup {c} /\ UNCHANGED <<publishes, inflight, arrived>>
        /\ disturbed' = IF publishes = <<>> THEN disturbed ELSE disturbed \cup {c.bridge}
    BY <1>3 DEF Connected, Disturbs
  <2>2. publishes # <<>>
    BY <2>1
  <2>3. c # origin /\ c # s /\ origin.bridge \notin disturbed
    BY <2>1, <2>2
  <2>. QED BY <2>1, <2>3 DEF Pending
<1>4. ASSUME NEW c \in Sessions, Disconnected(c)
      PROVE  \/ \E m \in DOMAIN inflight' : m.to = origin /\ m.id = id
             \/ \E a \in DOMAIN arrived' : a.by = s /\ a.id = id
  <2>1. /\ DOMAIN inflight' = {n \in DOMAIN inflight : n.to # c}
        /\ mqttList' = mqttList \ {c} /\ UNCHANGED <<publishes, arrived>>
    BY <1>4, DisconnectedIs
  <2>2. origin.bridge \notin disturbed
    BY <1>4 DEF Disconnected, Disturbs
  <2>. QED BY <2>1, <2>2 DEF Pending
<1>5. CASE UNCHANGED vars
  BY <1>5 DEF Pending, vars
<1>. QED BY <1>1, <1>2, <1>3, <1>4, <1>5 DEF Next

\* mqttbridge, for any servers, bridges, prefixes and filters, cycles included:
\* Bridge::publish leaves out no session of an undisturbed bridge, in whatever
\* order messages are received and sessions of other bridges come and go.
THEOREM AllAreServed == Spec => []AllServed
<1>1. Init => Pending
  BY DEF Init, Pending
<1>2. Types /\ Pending => AllServed
  BY DEF Pending, AllServed
<1>. QED BY <1>1, <1>2, TypesInit, TypesStep, PendingStep, PTL DEF Spec

-----------------------------------------------------------------------------
(* Topologies without cycles: how a message leaves a server for the next   *)
(* bridge and enters the next servers.                                     *)

Entry(root) == CHOOSE entry \in [Servers -> Sessions] : IsEntry(root, entry, Sessions)

\* A session over which a message from root leaves its server is the only one of
\* its bridge; the others are the entries of their servers.
LEMMA Onwards ==
  ASSUME NoCycle, NEW root \in Servers, NEW o \in Sessions, NEW d \in Sessions,
         o.bridge = d.bridge, o # d, Inward(root, Entry(root), o)
  PROVE  /\ d.server # root /\ Entry(root)[d.server] = d
         /\ ~Inward(root, Entry(root), d)
         /\ o.server # d.server
<1>1. IsEntry(root, Entry(root), Sessions)
  BY DEF NoCycle, NoCycleOf, Entry
<1>2. d.server # root /\ Entry(root)[d.server] = d
  BY <1>1 DEF IsEntry
<1>3. ~Inward(root, Entry(root), d)
  BY <1>2 DEF Inward
<1>4. o.server # d.server
  BY <1>2 DEF Inward
<1>. QED BY <1>2, <1>3, <1>4

\* Behind such an entry a message leaves over sessions of other bridges.
LEMMA Beyond ==
  ASSUME NoCycle, NEW root \in Servers, NEW o \in Sessions, NEW d \in Sessions,
         o.bridge = d.bridge, o # d, Inward(root, Entry(root), o),
         NEW s \in Sessions, s.server = d.server, s # d
  PROVE  Inward(root, Entry(root), s) /\ s.bridge # d.bridge
<1>1. d.server # root /\ Entry(root)[d.server] = d /\ o.server # d.server
  BY Onwards
<1>2. s # o
  BY <1>1
<1>3. s.bridge # d.bridge
  <2>. SUFFICES ASSUME s.bridge = d.bridge PROVE FALSE
    OBVIOUS
  <2>1. Entry(root)[s.server] = s
    BY <1>2, Onwards
  <2>. QED BY <1>1, <2>1
<1>. QED BY <1>1, <1>3 DEF Inward

-----------------------------------------------------------------------------
(* At most once.                                                           *)

Source(id) == publishes[id].server
Leaves(id, s) == Inward(Source(id), Entry(Source(id)), s)

\* The message was published to the server at first, or over its entry.
Reached(id, server) ==
  \/ server = Source(id)
  \/ \E a \in DOMAIN arrived : a.id = id /\ a.by = Entry(Source(id))[server]

\* A message is on its way to a session once, from a server it has reached, and
\* has not been published by another session of the bridge.
OnItsWay(m) ==
  /\ inflight[m] = 1
  /\ Leaves(m.id, m.to)
  /\ Reached(m.id, m.to.server)
  /\ \A a \in DOMAIN arrived : a.id = m.id => a.by.bridge # m.to.bridge

Alone == \A m, n \in DOMAIN inflight : m.id = n.id /\ m.to = n.to => m = n

\* A message is published to a server over its entry, after it came to the
\* bridge from a server it had reached.
HasArrived(a) ==
  /\ arrived[a] = 1
  /\ a.by.server # Source(a.id)
  /\ Entry(Source(a.id))[a.by.server] = a.by
  /\ \E o \in Sessions : /\ o.bridge = a.by.bridge /\ o # a.by
                         /\ Leaves(a.id, o) /\ Reached(a.id, o.server)

ArrivesAlone == \A a, b \in DOMAIN arrived : a.id = b.id /\ a.by = b.by => a = b

Routed ==
  /\ \A m \in DOMAIN inflight : OnItsWay(m)
  /\ Alone
  /\ \A a \in DOMAIN arrived : HasArrived(a)
  /\ ArrivesAlone

LEMMA SourceType == ASSUME Types, NEW id \in DOMAIN publishes PROVE Source(id) \in Servers
<1>. PICK S : S = [server : Servers, topic : Topics]
  OBVIOUS
<1>1. publishes \in Seq(S)
  BY DEF Types
<1>2. id \in 1 .. Len(publishes)
  BY <1>1, LenProperties
<1>3. publishes[id] \in S
  BY <1>1, <1>2, ElementOfSeq
<1>. QED BY <1>3 DEF Source

\* A message that leaves a bridge over d has an arrival of d, and goes on to a
\* session that no echo of d is.
LEMMA Hop ==
  ASSUME NoCycle, NoEcho, Types, Routed, NEW m \in DOMAIN inflight, NEW n \in Leaving(m)
  PROVE  /\ n.id = m.id /\ Leaves(m.id, n.to) /\ n.to.bridge # m.to.bridge
         /\ n.to.server # Source(m.id)
         /\ \E a \in Arriving(m) : a.by = Entry(Source(m.id))[n.to.server] /\ a.id = m.id
         /\ Entry(Source(m.id))[n.to.server].bridge = m.to.bridge
         /\ n.topic = Forwarded(m, Entry(Source(m.id))[n.to.server])
<1>1. n.id = m.id /\ n.to \in Sessions
  BY LeavingIs DEF Types
<1>2. PICK d \in Destinations(m.to) : /\ n.to.server = d.server /\ n.topic = Forwarded(m, d)
                                     /\ ~(n.to = d /\ d.loopPrevention)
                                     /\ Head(Forwarded(m, d)) \in n.to.filter
  BY LeavingIs
<1>3. /\ m.to \in Sessions /\ d \in Sessions /\ m.to.bridge = d.bridge /\ m.to # d
      /\ m.topic \in Seq(STRING) /\ m.id \in DOMAIN publishes
  BY DEF Types, Message, Destinations
<1>4. Leaves(m.id, m.to) /\ Source(m.id) \in Servers
  BY <1>3, SourceType DEF Routed, OnItsWay
<1>5. n.to # d
  <2>. SUFFICES ASSUME n.to = d PROVE FALSE
    OBVIOUS
  <2>1. m.to.bridgePrefix # <<>> /\ Head(m.to.bridgePrefix) \notin d.filter
    BY <1>2, <1>3 DEF NoEcho
  <2>2. Head(Forwarded(m, d)) = Head(m.to.bridgePrefix)
    BY <1>3, <2>1, ForwardedIs DEF Forwarded
  <2>. QED BY <1>2, <2>1, <2>2
<1>6. d.server # Source(m.id) /\ Entry(Source(m.id))[d.server] = d
  BY <1>3, <1>4, Onwards DEF Leaves
<1>7. Leaves(m.id, n.to) /\ n.to.bridge # d.bridge
  BY <1>1, <1>2, <1>3, <1>4, <1>5, Beyond DEF Leaves
<1>8. [by |-> d, id |-> m.id, topic |-> Forwarded(m, d)] \in Arriving(m)
  BY DEF Arriving
<1>. QED BY <1>1, <1>2, <1>3, <1>6, <1>7, <1>8

\* It has not been there before.
LEMMA HopIsNew ==
  ASSUME NoCycle, NoEcho, Types, Routed, NEW m \in DOMAIN inflight, NEW n \in Leaving(m)
  PROVE  /\ ~Reached(m.id, n.to.server)
         /\ \A k \in DOMAIN inflight : k.id = m.id => k.to # n.to
         /\ \A a \in DOMAIN arrived : a.id = m.id => a.by.bridge # n.to.bridge
<1>1. /\ Leaves(m.id, n.to) /\ n.to.server # Source(m.id)
      /\ Entry(Source(m.id))[n.to.server].bridge = m.to.bridge
  BY Hop
<1>2. \A a \in DOMAIN arrived : a.id = m.id => a.by.bridge # m.to.bridge
  BY DEF Routed, OnItsWay
<1>3. ~Reached(m.id, n.to.server)
  BY <1>1, <1>2 DEF Reached
<1>4. \A k \in DOMAIN inflight : k.id = m.id => k.to # n.to
  BY <1>3 DEF Routed, OnItsWay
<1>5. ASSUME NEW a \in DOMAIN arrived, a.id = m.id, a.by.bridge = n.to.bridge PROVE FALSE
  <2>1. PICK o \in Sessions : /\ o.bridge = a.by.bridge
                             /\ Leaves(m.id, o) /\ Reached(m.id, o.server)
    BY <1>5 DEF Routed, HasArrived
  <2>2. n.to \in Sessions /\ Source(m.id) \in Servers
    BY LeavingIs, SourceType DEF Types
  <2>3. o = n.to
    BY <1>1, <1>5, <2>1, <2>2, Onwards DEF Leaves
  <2>. QED BY <1>3, <2>1, <2>3
<1>. QED BY <1>3, <1>4, <1>5

LEMMA ArrivingIs ==
  ASSUME NoCycle, Types, Routed, NEW m \in DOMAIN inflight, NEW a \in Arriving(m)
  PROVE  /\ a.id = m.id /\ a.by \in Sessions /\ a.by.bridge = m.to.bridge /\ a.by # m.to
         /\ a.topic = Forwarded(m, a.by)
         /\ a.by.server # Source(a.id) /\ Entry(Source(a.id))[a.by.server] = a.by
         /\ Leaves(m.id, m.to) /\ Reached(m.id, m.to.server)
         /\ \A b \in DOMAIN arrived : b.id = m.id => b.by # a.by
<1>1. PICK d \in Destinations(m.to) : a = [by |-> d, id |-> m.id, topic |-> Forwarded(m, d)]
  BY DEF Arriving
<1>2. /\ m.to \in Sessions /\ d \in Sessions /\ m.to.bridge = d.bridge /\ m.to # d
      /\ m.id \in DOMAIN publishes
  BY DEF Types, Message, Destinations
<1>3. /\ Leaves(m.id, m.to) /\ Reached(m.id, m.to.server)
      /\ \A b \in DOMAIN arrived : b.id = m.id => b.by.bridge # m.to.bridge
  BY DEF Routed, OnItsWay
<1>4. d.server # Source(m.id) /\ Entry(Source(m.id))[d.server] = d
  BY <1>2, <1>3, SourceType, Onwards DEF Leaves
<1>. QED BY <1>1, <1>2, <1>3, <1>4

LEMMA OnPublishRouted ==
  ASSUME NoCycle, NoEcho, Types, Routed, NEW m \in DOMAIN inflight, OnPublish(m)
  PROVE  Routed'
<1>1. inflight[m] = 1 /\ publishes' = publishes
  BY OnPublishIs DEF Routed, OnItsWay
<1>2. \A id, s : Leaves(id, s)' = Leaves(id, s) /\ Source(id)' = Source(id)
  BY <1>1 DEF Leaves, Source
<1>3. DOMAIN arrived' = DOMAIN arrived \cup Arriving(m)
  BY OnPublishBags
<1>4. \A id, server : Reached(id, server) => Reached(id, server)'
  BY <1>1, <1>3 DEF Reached, Source
<1>5. DOMAIN inflight' \subseteq (DOMAIN inflight \ {m}) \cup Leaving(m)
  BY <1>1, OnPublishBags
<1>6. ASSUME NEW n \in Leaving(m) PROVE OnItsWay(n)'
  <2>1. inflight'[n] = 1
    BY OnPublishBags, HopIsNew, LeavingIs
  <2>2. Leaves(n.id, n.to)'
    BY <1>2, Hop
  <2>3. Reached(n.id, n.to.server)'
    BY <1>1, <1>3, Hop DEF Reached, Source
  <2>4. \A a \in DOMAIN arrived' : a.id = n.id => a.by.bridge # n.to.bridge
    BY <1>3, Hop, HopIsNew, ArrivingIs
  <2>. QED BY <2>1, <2>2, <2>3, <2>4 DEF OnItsWay
<1>7. ASSUME NEW n \in DOMAIN inflight \ {m} PROVE OnItsWay(n)'
  <2>1. OnItsWay(n) /\ OnItsWay(m)
    BY DEF Routed
  <2>2. inflight'[n] = 1
    <3>1. n \notin Leaving(m)
      BY HopIsNew, LeavingIs
    <3>. QED BY <2>1, <3>1, OnPublishBags DEF OnItsWay
  <2>3. Leaves(n.id, n.to)' /\ Reached(n.id, n.to.server)'
    BY <1>2, <1>4, <2>1 DEF OnItsWay
  <2>4. n.id = m.id => n.to.bridge # m.to.bridge
    <3>1. n.id = m.id => n.to # m.to
      BY DEF Routed, Alone
    <3>2. n.to \in Sessions /\ m.to \in Sessions /\ Source(m.id) \in Servers
      BY SourceType DEF Types, Message
    <3>. QED BY <2>1, <3>1, <3>2, Onwards DEF OnItsWay, Leaves
  <2>5. \A a \in DOMAIN arrived' : a.id = n.id => a.by.bridge # n.to.bridge
    BY <1>3, <2>1, <2>4, ArrivingIs DEF OnItsWay
  <2>. QED BY <2>2, <2>3, <2>5 DEF OnItsWay
<1>8. Alone'
  <2>. SUFFICES ASSUME NEW k \in DOMAIN inflight', NEW n \in DOMAIN inflight',
                       k.id = n.id, k.to = n.to
                PROVE  k = n
    BY DEF Alone
  <2>1. CASE k \in DOMAIN inflight /\ n \in DOMAIN inflight
    BY <2>1 DEF Routed, Alone
  <2>2. CASE k \in Leaving(m) /\ n \in Leaving(m)
    <3>1. k.topic = n.topic
      BY <2>2, Hop
    <3>2. k \in Message /\ n \in Message
      BY <2>2, OnPublishIs
    <3>. QED BY <3>1, <3>2 DEF Message
  <2>3. CASE k \in DOMAIN inflight /\ n \in Leaving(m)
    BY <2>3, HopIsNew, LeavingIs
  <2>4. CASE k \in Leaving(m) /\ n \in DOMAIN inflight
    BY <2>4, HopIsNew, LeavingIs
  <2>. QED BY <1>5, <2>1, <2>2, <2>3, <2>4
<1>9. ASSUME NEW a \in Arriving(m) PROVE HasArrived(a)'
  <2>1. arrived'[a] = 1
    BY OnPublishBags, ArrivingIs
  <2>2. a.by.server # Source(a.id)' /\ Entry(Source(a.id)')[a.by.server] = a.by
    BY <1>2, ArrivingIs
  <2>3. /\ m.to \in Sessions /\ m.to.bridge = a.by.bridge /\ m.to # a.by
        /\ Leaves(a.id, m.to)' /\ Reached(a.id, m.to.server)'
    BY <1>2, <1>4, ArrivingIs DEF Types, Message
  <2>. QED BY <2>1, <2>2, <2>3 DEF HasArrived
<1>10. ASSUME NEW a \in DOMAIN arrived PROVE HasArrived(a)'
  <2>1. HasArrived(a)
    BY DEF Routed
  <2>2. arrived'[a] = 1
    <3>1. a \notin Arriving(m)
      BY ArrivingIs
    <3>. QED BY <2>1, <3>1, OnPublishBags DEF HasArrived
  <2>. QED BY <1>2, <1>4, <2>1, <2>2 DEF HasArrived
<1>11. ArrivesAlone'
  <2>. SUFFICES ASSUME NEW a \in DOMAIN arrived', NEW b \in DOMAIN arrived',
                       a.id = b.id, a.by = b.by
                PROVE  a = b
    BY DEF ArrivesAlone
  <2>1. CASE a \in DOMAIN arrived /\ b \in DOMAIN arrived
    BY <2>1 DEF Routed, ArrivesAlone
  <2>2. CASE a \in Arriving(m) /\ b \in Arriving(m)
    <3>1. a.topic = b.topic
      BY <2>2, ArrivingIs
    <3>2. a \in Arrival /\ b \in Arrival
      BY <2>2, OnPublishIs
    <3>. QED BY <3>1, <3>2 DEF Arrival
  <2>3. CASE a \in DOMAIN arrived /\ b \in Arriving(m)
    BY <2>3, ArrivingIs
  <2>4. CASE a \in Arriving(m) /\ b \in DOMAIN arrived
    BY <2>4, ArrivingIs
  <2>. QED BY <1>3, <2>1, <2>2, <2>3, <2>4
<1>. QED BY <1>3, <1>5, <1>6, <1>7, <1>8, <1>9, <1>10, <1>11 DEF Routed

LEMMA ClientPublishRouted ==
  ASSUME Types, Routed,
         NEW server \in Servers, NEW topic \in Topics, ClientPublish(server, topic)
  PROVE  Routed'
<1>. PICK id, new : id = Len(publishes) + 1 /\ new = Delivered(server, {}, id, topic)
  OBVIOUS
<1>1. id \notin DOMAIN publishes /\ Source(id)' = server
  <2>1. id \notin DOMAIN publishes /\ publishes'[id] = [server |-> server, topic |-> topic]
    BY Numbered
  <2>. QED BY <2>1 DEF Source
<1>2. ASSUME NEW k \in DOMAIN publishes
      PROVE  /\ Source(k)' = Source(k)
             /\ \A s : Leaves(k, s) => Leaves(k, s)'
             /\ \A at : Reached(k, at) => Reached(k, at)'
  <2>1. Source(k)' = Source(k)
    BY OthersKeepNumber DEF Source
  <2>2. arrived' = arrived
    BY DEF ClientPublish
  <2>. QED BY <2>1, <2>2 DEF Leaves, Reached
<1>3. /\ DOMAIN inflight' = DOMAIN inflight \cup new
      /\ \A m \in DOMAIN inflight : m \notin new /\ inflight'[m] = inflight[m]
      /\ \A m \in new : inflight'[m] = 1
      /\ arrived' = arrived
  <2>1. IsPublished(id, server, new)
    BY Published
  <2>. QED BY <2>1 DEF IsPublished
<1>4. \A m \in new : m = [to |-> m.to, id |-> id, topic |-> topic] /\ m.to.server = server
  BY DEF Delivered
<1>5. /\ \A m \in DOMAIN inflight : m.id \in DOMAIN publishes
      /\ \A a \in DOMAIN arrived : a.id \in DOMAIN publishes
  BY DEF Types
<1>6. ASSUME NEW m \in new PROVE OnItsWay(m)'
  <2>1. m.id = id /\ m.to.server = server
    BY <1>4
  <2>2. Leaves(m.id, m.to)' /\ Reached(m.id, m.to.server)'
    BY <1>1, <2>1 DEF Leaves, Reached, Inward
  <2>. QED BY <1>1, <1>3, <1>5, <2>1, <2>2 DEF OnItsWay
<1>7. ASSUME NEW m \in DOMAIN inflight PROVE OnItsWay(m)'
  <2>1. OnItsWay(m) /\ m.id \in DOMAIN publishes
    BY <1>5 DEF Routed
  <2>. QED BY <1>2, <1>3, <2>1 DEF OnItsWay
<1>8. Alone'
  BY <1>1, <1>3, <1>4, <1>5 DEF Routed, Alone
<1>9. ASSUME NEW a \in DOMAIN arrived PROVE HasArrived(a)'
  <2>1. HasArrived(a) /\ a.id \in DOMAIN publishes
    BY <1>5 DEF Routed
  <2>. QED BY <1>2, <1>3, <2>1 DEF HasArrived
<1>10. ArrivesAlone'
  BY <1>3 DEF Routed, ArrivesAlone
<1>. QED BY <1>3, <1>6, <1>7, <1>8, <1>9, <1>10 DEF Routed

LEMMA RoutedStep ==
  ASSUME NoCycle, NoEcho PROVE Types /\ Routed /\ [Next]_vars => Routed'
<1>. SUFFICES ASSUME Types, Routed, [Next]_vars PROVE Routed'
  OBVIOUS
<1>1. ASSUME NEW server \in Servers, NEW topic \in Topics, ClientPublish(server, topic)
      PROVE  Routed'
  BY <1>1, ClientPublishRouted
<1>2. ASSUME NEW m \in DOMAIN inflight, OnPublish(m) PROVE Routed'
  BY <1>2, OnPublishRouted
<1>3. ASSUME publishes' = publishes, arrived' = arrived, DOMAIN inflight' \subseteq DOMAIN inflight,
             \A m \in DOMAIN inflight' : inflight'[m] = inflight[m]
      PROVE  Routed'
  BY <1>3 DEF Routed, OnItsWay, Alone, HasArrived, ArrivesAlone, Leaves, Reached, Source
<1>4. ASSUME NEW s \in Sessions, Connected(s) PROVE Routed'
  BY <1>3, <1>4 DEF Connected
<1>5. ASSUME NEW s \in Sessions, Disconnected(s) PROVE Routed'
  BY <1>3, <1>5, DisconnectedIs
<1>6. CASE UNCHANGED vars
  BY <1>3, <1>6 DEF vars
<1>. QED BY <1>1, <1>2, <1>4, <1>5, <1>6 DEF Next

LEMMA RoutedInit == Init => Routed
  BY EmptyBagIs DEF Init, Routed, Alone, ArrivesAlone

LEMMA OncePerEntry == Routed => AtMostOnce
<1>. SUFFICES ASSUME Routed, NEW a \in DOMAIN arrived, NEW b \in DOMAIN arrived
              PROVE  /\ arrived[a] = 1
                     /\ a.id = b.id /\ a.by.server = b.by.server => a = b
                     /\ a.by.server # publishes[a.id].server
  BY DEF AtMostOnce
<1>1. HasArrived(a) /\ HasArrived(b)
  BY DEF Routed
<1>2. a.id = b.id /\ a.by.server = b.by.server => a.by = b.by
  BY <1>1 DEF HasArrived
<1>. QED BY <1>1, <1>2 DEF HasArrived, Routed, ArrivesAlone, Source

\* mqttbridge, for any number of servers, bridges and messages: where the
\* bridges form no cycle, and loop prevention or the bridge's prefix keeps a server
\* from handing a message back, each message is published at most once to each
\* server and never to the one it comes from, sessions coming and going included.
THEOREM AtMostOncePerServer == ASSUME NoEcho, NoCycle PROVE Spec => []AtMostOnce
<1>1. Init => Types /\ Routed
  BY TypesInit, RoutedInit
<1>2. Types /\ Routed /\ [Next]_vars => Types' /\ Routed'
  BY TypesStep, RoutedStep
<1>. QED BY <1>1, <1>2, OncePerEntry, PTL DEF Spec
=============================================================================
