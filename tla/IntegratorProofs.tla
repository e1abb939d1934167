--------------------------- MODULE IntegratorProofs --------------------------
(***************************************************************************)
(* Theorems about Integrator for all instances, mappings and bounds: the   *)
(* server of a session has, once everything has arrived, the subscriptions *)
(* of the mapping in force; a hot reload interrupts none that stays; and   *)
(* the sessions that stay open have the connection section in force.       *)
(*                                                                         *)
(* The invariant is about what is in effect for a session: what the server *)
(* will have subscribed when all packets on their way have arrived.        *)
(***************************************************************************)
EXTENDS Integrator, SequenceTheorems, WellFoundedInduction, TLAPS

-----------------------------------------------------------------------------
(* Lists of subscriptions.                                                 *)

\* A bounded set of numbers has a greatest one.
LEMMA Greatest ==
  ASSUME NEW n \in Nat, NEW S \in SUBSET (0 .. n), S # {}
  PROVE  \E x \in S : \A y \in S : y <= x
<1>. DEFINE R == OpToRel(<, Nat)
            D == {n - x : x \in S}
<1>1. IsWellFoundedOn(R, Nat)
  BY Zenon, NatLessThanWellFounded
<1>2. \A x, y \in Nat : <<y, x>> \in R <=> y < x
  BY DEF OpToRel
<1>3. D \subseteq Nat /\ D # {}
  <2>1. \A x \in S : x \in 0 .. n
    OBVIOUS
  <2>2. D \subseteq Nat
    BY <2>1
  <2>. QED BY <2>2
<1>. HIDE DEF R
<1>4. PICK d \in D : \A y \in D : <<y, d>> \notin R
  BY <1>1, <1>3, WFMin
<1>5. PICK x \in S : d = n - x
  OBVIOUS
<1>6. ASSUME NEW y \in S PROVE y <= x
  <2>1. n - y \in D /\ n - y \in Nat /\ d \in Nat
    BY <1>3
  <2>2. ~(n - y < d)
    BY <1>2, <1>4, <2>1
  <2>. QED BY <1>5, <2>2
<1>. QED BY <1>6

Bounded(l) == \E n \in Nat : DOMAIN l \subseteq 0 .. n

\* The last subscription to each topic of a list stays.
LEMMA LastingIs ==
  ASSUME NEW l, Bounded(l)
  PROVE  /\ Lasting(l) \subseteq ToSet(l)
         /\ \A t \in Topics(l) : \E s \in Lasting(l) : s.topic = t
<1>1. Lasting(l) \subseteq ToSet(l)
  BY DEF Lasting, ToSet
<1>2. ASSUME NEW t \in Topics(l) PROVE \E s \in Lasting(l) : s.topic = t
  <2>. DEFINE At == {k \in DOMAIN l : l[k].topic = t}
  <2>1. PICK n \in Nat : DOMAIN l \subseteq 0 .. n
    BY DEF Bounded
  <2>2. At \subseteq 0 .. n /\ At # {}
    BY <2>1 DEF Topics, ToSet
  <2>3. PICK k \in At : \A j \in At : j <= k
    BY <2>2, Greatest
  <2>4. l[k] \in Lasting(l)
    BY <2>3 DEF Lasting
  <2>. QED BY <2>3, <2>4
<1>. QED BY <1>1, <1>2

\* Where a topic stands in a list only once, what stays is what is in it.
LEMMA LastingOnce ==
  ASSUME NEW l, Bounded(l), NEW x,
         \A y \in ToSet(l) : y.topic = x.topic /\ x \in ToSet(l) => y = x
  PROVE  x \in Lasting(l) <=> x \in ToSet(l)
<1>1. x \in Lasting(l) => x \in ToSet(l)
  BY LastingIs
<1>2. ASSUME x \in ToSet(l) PROVE x \in Lasting(l)
  <2>1. x.topic \in Topics(l)
    BY <1>2 DEF Topics
  <2>2. PICK s \in Lasting(l) : s.topic = x.topic
    BY <2>1, LastingIs
  <2>3. s \in ToSet(l)
    BY LastingIs
  <2>. QED BY <1>2, <2>2, <2>3
<1>. QED BY <1>1, <1>2

LEMMA OncePerTopic ==
  ASSUME NEW S, NEW l \in Seq(S), NEW x \in ToSet(l), NEW y \in ToSet(l),
         x.topic = y.topic, x.topic \notin Doubled(l)
  PROVE  x = y
<1>1. PICK j \in DOMAIN l, k \in DOMAIN l : x = l[j] /\ y = l[k]
  BY DEF ToSet
<1>2. j \in Nat /\ k \in Nat /\ j > 0 /\ k > 0 
  OBVIOUS
<1>3. ~(j < k) /\ ~(k < j)
  BY <1>1, <1>2 DEF Doubled
<1>. QED BY <1>1, <1>2, <1>3

LEMMA SeqBounded == ASSUME NEW S, NEW l \in Seq(S) PROVE Bounded(l)
<1>1. Len(l) \in Nat /\ DOMAIN l \subseteq 0 .. Len(l)
  OBVIOUS
<1>. QED BY <1>1 DEF Bounded

LEMMA WithoutIs ==
  ASSUME NEW S, NEW l \in Seq(S), NEW others
  PROVE  /\ ToSet(Without(l, others)) = ToSet(l) \ ToSet(others)
         /\ Bounded(Without(l, others))
<1>1. Bounded(Without(l, others))
  BY SeqBounded DEF Bounded, Without, Restrict
<1>2. ToSet(Without(l, others)) = ToSet(l) \ ToSet(others)
  BY DEF ToSet, Without, Restrict
<1>. QED BY <1>1, <1>2

-----------------------------------------------------------------------------
(* What is in effect: x, when the server has now these subscriptions and   *)
(* these packets are on their way.  (CONNECT does not count here.)         *)

Gives(p, x) == p.type = "subscribe" /\ x \in Lasting(p.subscriptions)

Touches(p, t) ==
  \/ p.type = "subscribe" /\ t \in Topics(p.subscriptions)
  \/ p.type = "unsubscribe" /\ t \in p.topics

InEffect(x, have, q) ==
  \/ x \in have /\ \A k \in DOMAIN q : ~Touches(q[k], x.topic)
  \/ \E k \in DOMAIN q : /\ Gives(q[k], x)
                         /\ \A j \in DOMAIN q : j > k => ~Touches(q[j], x.topic)

LEMMA NothingOnItsWay == \A x, have : InEffect(x, have, <<>>) <=> x \in have
  BY DEF InEffect

\* One more packet.
LEMMA InEffectAppend ==
  ASSUME NEW P, NEW q \in Seq(P), NEW p \in P, NEW x, NEW have,
         Gives(p, x) => Touches(p, x.topic)
  PROVE  InEffect(x, have, Append(q, p)) <=>
           IF Touches(p, x.topic) THEN Gives(p, x) ELSE InEffect(x, have, q)
<1>. DEFINE r == Append(q, p)
            n == Len(q)
<1>1. /\ n \in Nat /\ DOMAIN q = 1 .. n /\ DOMAIN r = 1 .. n + 1
      /\ \A k \in 1 .. n : r[k] = q[k]
      /\ r[n + 1] = p
  BY AppendProperties
<1>. HIDE DEF r, n
<1>2. DOMAIN r = DOMAIN q \cup {n + 1} /\ \A k \in DOMAIN q : k < n + 1 /\ k \in Nat
  BY <1>1
<1>3. (\A k \in DOMAIN r : ~Touches(r[k], x.topic))
        <=> ~Touches(p, x.topic) /\ \A k \in DOMAIN q : ~Touches(q[k], x.topic)
  BY <1>1, <1>2
<1>4. ASSUME NEW k \in DOMAIN q
      PROVE  (\A j \in DOMAIN r : j > k => ~Touches(r[j], x.topic))
               <=> ~Touches(p, x.topic) /\ \A j \in DOMAIN q : j > k => ~Touches(q[j], x.topic)
  BY <1>1, <1>2
<1>5. \A j \in DOMAIN r : ~(j > n + 1)
  BY <1>1
<1>6. CASE Touches(p, x.topic)
  BY <1>1, <1>2, <1>3, <1>4, <1>5, <1>6 DEF InEffect, r
<1>7. CASE ~Touches(p, x.topic)
  <2>1. (\E k \in DOMAIN r : /\ Gives(r[k], x)
                             /\ \A j \in DOMAIN r : j > k => ~Touches(r[j], x.topic))
          <=> \E k \in DOMAIN q : /\ Gives(q[k], x)
                                  /\ \A j \in DOMAIN q : j > k => ~Touches(q[j], x.topic)
    BY <1>1, <1>2, <1>4, <1>7
  <2>. QED BY <1>3, <1>7, <2>1 DEF InEffect, r
<1>. QED BY <1>6, <1>7

\* The server handles the first packet.
HandledFirst(have, p) ==
  IF p.type = "subscribe" THEN Subscribed(have, p.subscriptions)
  ELSE IF p.type = "unsubscribe" THEN {s \in have : s.topic \notin p.topics}
  ELSE have

LEMMA InEffectTail ==
  ASSUME NEW P, NEW q \in Seq(P), q # <<>>, NEW x, NEW have,
         Gives(Head(q), x) => Touches(Head(q), x.topic)
  PROVE  InEffect(x, HandledFirst(have, Head(q)), Tail(q)) <=> InEffect(x, have, q)
<1>. DEFINE r == Tail(q)
            p == Head(q)
            n == Len(q)
<1>1. /\ n \in Nat \ {0} /\ DOMAIN q = 1 .. n /\ DOMAIN r = 1 .. n - 1
      /\ \A k \in 1 .. n - 1 : r[k] = q[k + 1]
      /\ p = q[1]
  BY HeadTailProperties
<1>. HIDE DEF r, p, n
<1>2. x \in HandledFirst(have, p) <=> Gives(p, x) \/ (x \in have /\ ~Touches(p, x.topic))
  BY DEF HandledFirst, Gives, Touches, Subscribed
<1>3. \A k \in DOMAIN q : k # 1 => k - 1 \in DOMAIN r /\ r[k - 1] = q[k]
  BY <1>1
<1>4. \A k \in DOMAIN r : k + 1 \in DOMAIN q /\ k + 1 > 1 /\ r[k] = q[k + 1] /\ k \in Nat
  BY <1>1
<1>5. \A k \in DOMAIN q : k \in Nat /\ (k > 1 <=> k # 1)
  BY <1>1
<1>6. 1 \in DOMAIN q
  BY <1>1
<1>7. (\A k \in DOMAIN r : ~Touches(r[k], x.topic))
        <=> \A k \in DOMAIN q : k > 1 => ~Touches(q[k], x.topic)
  <2>1. ASSUME \A k \in DOMAIN r : ~Touches(r[k], x.topic), NEW k \in DOMAIN q, k > 1
        PROVE  ~Touches(q[k], x.topic)
    BY <1>3, <1>5, <2>1
  <2>. QED BY <1>4, <2>1
<1>8. ASSUME NEW k \in DOMAIN r
      PROVE  (\A j \in DOMAIN r : j > k => ~Touches(r[j], x.topic))
               <=> \A j \in DOMAIN q : j > k + 1 => ~Touches(q[j], x.topic)
  <2>1. ASSUME \A j \in DOMAIN r : j > k => ~Touches(r[j], x.topic),
               NEW j \in DOMAIN q, j > k + 1
        PROVE  ~Touches(q[j], x.topic)
    <3>1. j - 1 \in DOMAIN r /\ r[j - 1] = q[j] /\ j - 1 > k
      BY <1>3, <1>4, <1>5, <2>1
    <3>. QED BY <2>1, <3>1
  <2>2. ASSUME \A j \in DOMAIN q : j > k + 1 => ~Touches(q[j], x.topic),
               NEW j \in DOMAIN r, j > k
        PROVE  ~Touches(r[j], x.topic)
    <3>1. j + 1 \in DOMAIN q /\ r[j] = q[j + 1] /\ j + 1 > k + 1
      BY <1>4, <2>2
    <3>. QED BY <2>2, <3>1
  <2>. QED BY <2>1, <2>2
<1>. DEFINE Later(k) == Gives(q[k], x) /\ \A j \in DOMAIN q : j > k => ~Touches(q[j], x.topic)
<1>9. (\E k \in DOMAIN r : /\ Gives(r[k], x)
                           /\ \A j \in DOMAIN r : j > k => ~Touches(r[j], x.topic))
        <=> \E k \in DOMAIN q : k # 1 /\ Later(k)
  <2>1. ASSUME NEW k \in DOMAIN r
        PROVE  (Gives(r[k], x) /\ \A j \in DOMAIN r : j > k => ~Touches(r[j], x.topic)) <=> Later(k + 1)
    BY <1>4, <1>8
  <2>2. ASSUME NEW k \in DOMAIN q, k # 1 PROVE k - 1 \in DOMAIN r /\ (k - 1) + 1 = k
    BY <1>3, <1>5, <2>2
  <2>3. \A k \in DOMAIN r : k + 1 \in DOMAIN q /\ k + 1 # 1
    BY <1>4
  <2>. HIDE DEF Later
  <2>. QED BY <2>1, <2>2, <2>3
<1>10. InEffect(x, HandledFirst(have, p), r) <=>
         \/ /\ Gives(p, x) \/ (x \in have /\ ~Touches(p, x.topic))
            /\ \A k \in DOMAIN q : k > 1 => ~Touches(q[k], x.topic)
         \/ \E k \in DOMAIN q : k # 1 /\ Later(k)
  BY <1>2, <1>7, <1>9 DEF InEffect
<1>11. InEffect(x, have, q) <=>
         \/ x \in have /\ \A k \in DOMAIN q : ~Touches(q[k], x.topic)
         \/ \E k \in DOMAIN q : Later(k)
  BY DEF InEffect
<1>12. (\A k \in DOMAIN q : ~Touches(q[k], x.topic))
         <=> ~Touches(p, x.topic) /\ \A k \in DOMAIN q : k > 1 => ~Touches(q[k], x.topic)
  BY <1>1, <1>5, <1>6
<1>13. Later(1) <=> Gives(p, x) /\ \A k \in DOMAIN q : k > 1 => ~Touches(q[k], x.topic)
  BY <1>1
<1>14. (\E k \in DOMAIN q : Later(k)) <=> Later(1) \/ \E k \in DOMAIN q : k # 1 /\ Later(k)
  BY <1>6
<1>. HIDE DEF Later
<1>15. InEffect(x, HandledFirst(have, p), r) <=> InEffect(x, have, q)
  BY <1>10, <1>11, <1>12, <1>13, <1>14
<1>. QED BY <1>15 DEF p, r

-----------------------------------------------------------------------------
(* Packets.                                                                *)

AllTopics == {s.topic : s \in AllSubscriptions}

Current == {<<>>} \cup {m.subscriptions : m \in Mappings}

LEMMA CurrentIs ==
  ASSUME NEW l \in Current
  PROVE  /\ l \in Seq([topic : STRING, qos : 0 .. 2])
         /\ ToSet(l) \subseteq AllSubscriptions
<1>1. CASE l = <<>>
  BY <1>1 DEF ToSet
<1>2. CASE l # <<>>
  BY <1>2, MappingAssumption DEF Current, AllSubscriptions
<1>. QED BY <1>1, <1>2

LEMMA ListIs ==
  ASSUME NEW l \in Lists
  PROVE  Bounded(l) /\ ToSet(l) \subseteq AllSubscriptions
<1>0. PICK m \in Mappings : \E D \in SUBSET DOMAIN m.subscriptions : l = Restrict(m.subscriptions, D)
  BY DEF Lists
<1>1. PICK D \in SUBSET DOMAIN m.subscriptions : l = Restrict(m.subscriptions, D)
  BY <1>0
<1>2. Bounded(m.subscriptions)
  BY MappingAssumption, SeqBounded
<1>3. Bounded(l)
  BY <1>1, <1>2 DEF Bounded, Restrict
<1>4. ToSet(l) \subseteq ToSet(m.subscriptions)
  BY <1>1 DEF ToSet, Restrict
<1>. QED BY <1>3, <1>4 DEF AllSubscriptions

LEMMA RestrictedIsList ==
  ASSUME NEW l \in Current, Mappings # {}, NEW D \in SUBSET DOMAIN l
  PROVE  Restrict(l, D) \in Lists
<1>1. CASE l = <<>>
  <2>1. PICK m \in Mappings : TRUE
    OBVIOUS
  <2>2. D = {}
    BY <1>1
  <2>3. Restrict(l, D) = Restrict(m.subscriptions, {})
    BY <2>2 DEF Restrict
  <2>. QED BY <2>3 DEF Lists
<1>2. CASE l # <<>>
  <2>1. PICK m \in Mappings : l = m.subscriptions
    BY <1>2 DEF Current
  <2>. QED BY <2>1 DEF Lists
<1>. QED BY <1>1, <1>2

LEMMA CurrentIsList ==
  ASSUME NEW l \in Current, Mappings # {}
  PROVE  l \in Lists
<1>1. Restrict(l, DOMAIN l) \in Lists
  BY RestrictedIsList
<1>2. l = Restrict(l, DOMAIN l)
  <2>1. l \in Seq([topic : STRING, qos : 0 .. 2])
    BY CurrentIs
  <2>2. l = [k \in DOMAIN l |-> l[k]]
    BY <2>1
  <2>. QED BY <2>2 DEF Restrict
<1>. QED BY <1>1, <1>2

LEMMA GivesTouches == \A p \in Packets : \A x : Gives(p, x) => Touches(p, x.topic)
<1>. SUFFICES ASSUME NEW p \in Packets, NEW x, Gives(p, x) PROVE Touches(p, x.topic)
  OBVIOUS
<1>1. p.subscriptions \in Lists
  BY DEF Packets, Gives
<1>. QED BY <1>1, ListIs, LastingIs DEF Gives, Touches, Topics

\* A SUBSCRIBE or UNSUBSCRIBE, none if there is nothing in it.
LEMMA SubscribeIs ==
  ASSUME NEW q \in Seq(Packets), NEW l \in Lists, NEW x, NEW have
  PROVE  /\ q \o <<[type |-> "subscribe", subscriptions |-> l]>> \in Seq(Packets)
         /\ InEffect(x, have, q \o <<[type |-> "subscribe", subscriptions |-> l]>>)
              <=> IF x.topic \in Topics(l) THEN x \in Lasting(l) ELSE InEffect(x, have, q)
<1>. DEFINE p == [type |-> "subscribe", subscriptions |-> l]
<1>1. p \in Packets /\ Gives(p, x) => Touches(p, x.topic)
  BY GivesTouches DEF Packets
<1>2. (Gives(p, x) <=> x \in Lasting(l)) /\ (Touches(p, x.topic) <=> x.topic \in Topics(l))
  BY DEF Gives, Touches
<1>3. p \in Packets
  BY DEF Packets
<1>. HIDE DEF p
<1>4. Append(q, p) = q \o <<p>> /\ Append(q, p) \in Seq(Packets)
  BY <1>3, AppendIsConcat, AppendProperties
<1>5. InEffect(x, have, Append(q, p)) <=>
           IF Touches(p, x.topic) THEN Gives(p, x) ELSE InEffect(x, have, q)
  BY <1>3, GivesTouches, InEffectAppend
<1>6. q \o <<p>> \in Seq(Packets)
  BY <1>4
<1>7. InEffect(x, have, q \o <<p>>)
              <=> IF x.topic \in Topics(l) THEN x \in Lasting(l) ELSE InEffect(x, have, q)
  BY <1>2, <1>4, <1>5
<1>. QED BY <1>6, <1>7 DEF p

LEMMA SubscribesIs ==
  ASSUME NEW q \in Seq(Packets), NEW l \in Lists, NEW x, NEW have
  PROVE  /\ q \o Subscribe(l) \in Seq(Packets)
         /\ InEffect(x, have, q \o Subscribe(l))
              <=> IF x.topic \in Topics(l) THEN x \in Lasting(l) ELSE InEffect(x, have, q)
<1>1. CASE DOMAIN l = {}
  <2>1. q \o Subscribe(l) = q /\ Topics(l) = {}
    BY <1>1, ConcatEmptySeq DEF Subscribe, Topics, ToSet
  <2>. QED BY <2>1
<1>2. CASE DOMAIN l # {}
  BY <1>2, SubscribeIs DEF Subscribe
<1>. QED BY <1>1, <1>2

LEMMA UnsubscribesIs ==
  ASSUME NEW q \in Seq(Packets), NEW l, ToSet(l) \subseteq AllSubscriptions, NEW x, NEW have
  PROVE  /\ q \o Unsubscribe(l) \in Seq(Packets)
         /\ InEffect(x, have, q \o Unsubscribe(l))
              <=> x.topic \notin Topics(l) /\ InEffect(x, have, q)
<1>1. CASE DOMAIN l = {}
  <2>1. q \o Unsubscribe(l) = q /\ Topics(l) = {}
    BY <1>1, ConcatEmptySeq DEF Unsubscribe, Topics, ToSet
  <2>. QED BY <2>1
<1>2. CASE DOMAIN l # {}
  <2>. DEFINE p == [type |-> "unsubscribe", topics |-> Topics(l)]
  <2>1. p \in Packets
    BY DEF Packets, Topics
  <2>2. ~Gives(p, x) /\ (Touches(p, x.topic) <=> x.topic \in Topics(l))
    BY DEF Gives, Touches
  <2>3. Unsubscribe(l) = <<p>>
    BY <1>2 DEF Unsubscribe
  <2>. HIDE DEF p
  <2>4. Append(q, p) = q \o <<p>> /\ Append(q, p) \in Seq(Packets)
    BY <2>1, AppendIsConcat, AppendProperties
  <2>5. InEffect(x, have, Append(q, p)) <=>
             IF Touches(p, x.topic) THEN Gives(p, x) ELSE InEffect(x, have, q)
    BY <2>1, <2>2, InEffectAppend
  <2>. QED BY <2>2, <2>3, <2>4, <2>5
<1>. QED BY <1>1, <1>2

-----------------------------------------------------------------------------
(* What resubscribe does.                                                  *)

LEMMA ResubscribeIs ==
  ASSUME NEW q \in Seq(Packets), NEW old \in Current, NEW new \in Current, Mappings # {},
         NEW x, NEW have
  PROVE  /\ q \o Resubscribe(old, new) \in Seq(Packets)
         /\ InEffect(x, have, q \o Resubscribe(old, new)) <=>
              IF x.topic \in Topics(Without(new, old)) THEN x \in Lasting(Without(new, old))
              ELSE x.topic \notin Topics(Without(old, new)) /\ InEffect(x, have, q)
<1>. DEFINE gone == Without(old, new)
            more == Without(new, old)
<1>1. gone \in Lists /\ more \in Lists
  BY RestrictedIsList DEF Without
<1>2. ToSet(gone) \subseteq AllSubscriptions
  BY <1>1, ListIs
<1>. HIDE DEF gone, more
<1>3. /\ q \o Unsubscribe(gone) \in Seq(Packets)
      /\ InEffect(x, have, q \o Unsubscribe(gone)) <=> x.topic \notin Topics(gone) /\ InEffect(x, have, q)
  BY <1>2, UnsubscribesIs
<1>4. /\ (q \o Unsubscribe(gone)) \o Subscribe(more) \in Seq(Packets)
      /\ InEffect(x, have, (q \o Unsubscribe(gone)) \o Subscribe(more))
           <=> IF x.topic \in Topics(more) THEN x \in Lasting(more)
               ELSE InEffect(x, have, q \o Unsubscribe(gone))
  BY <1>1, <1>3, SubscribesIs
<1>5. Unsubscribe(gone) \in Seq(Packets) /\ Subscribe(more) \in Seq(Packets)
  <2>1. <<>> \in Seq(Packets)
    OBVIOUS
  <2>2. <<>> \o Unsubscribe(gone) \in Seq(Packets) /\ <<>> \o Subscribe(more) \in Seq(Packets)
    BY <1>1, <1>2, <2>1, UnsubscribesIs, SubscribesIs
  <2>3. \E s : Unsubscribe(gone) = <<>> \/ Unsubscribe(gone) = <<s>>
    BY DEF Unsubscribe
  <2>4. \E s : Subscribe(more) = <<>> \/ Subscribe(more) = <<s>>
    BY DEF Subscribe
  <2>. QED BY <2>2, <2>3, <2>4
<1>6. (q \o Unsubscribe(gone)) \o Subscribe(more) = q \o (Unsubscribe(gone) \o Subscribe(more))
  BY <1>5, ConcatAssociative
<1>. QED BY <1>3, <1>4, <1>6 DEF Resubscribe, gone, more

\* In effect is what the list says, but for some topics.
Agrees(have, q, list, except) ==
  /\ Doubled(list) \subseteq except
  /\ \A x : x.topic \notin except => (InEffect(x, have, q) <=> x \in ToSet(list))

LEMMA ResubscribeAgrees ==
  ASSUME NEW q \in Seq(Packets), NEW old \in Current, NEW new \in Current, Mappings # {},
         NEW have, NEW except, Agrees(have, q, old, except)
  PROVE  Agrees(have, q \o Resubscribe(old, new), new, except \cup Doubled(new))
<1>. SUFFICES ASSUME NEW x, x.topic \notin except, x.topic \notin Doubled(new)
              PROVE  InEffect(x, have, q \o Resubscribe(old, new)) <=> x \in ToSet(new)
  BY DEF Agrees
<1>. DEFINE gone == Without(old, new)
            more == Without(new, old)
<1>1. /\ InEffect(x, have, q \o Resubscribe(old, new)) <=>
              IF x.topic \in Topics(more) THEN x \in Lasting(more)
              ELSE x.topic \notin Topics(gone) /\ InEffect(x, have, q)
  BY ResubscribeIs
<1>2. old \in Seq([topic : STRING, qos : 0 .. 2]) /\ new \in Seq([topic : STRING, qos : 0 .. 2])
  BY CurrentIs
<1>3. /\ ToSet(gone) = ToSet(old) \ ToSet(new) /\ Bounded(gone)
      /\ ToSet(more) = ToSet(new) \ ToSet(old) /\ Bounded(more)
  BY <1>2, WithoutIs
<1>. HIDE DEF gone, more
<1>4. /\ \A y, z \in ToSet(new) : y.topic = x.topic /\ z.topic = x.topic => y = z
      /\ \A y, z \in ToSet(old) : y.topic = x.topic /\ z.topic = x.topic => y = z
  BY <1>2, OncePerTopic DEF Agrees
<1>5. x \in Lasting(more) <=> x \in ToSet(more)
  BY <1>3, <1>4, LastingOnce
<1>6. InEffect(x, have, q) <=> x \in ToSet(old)
  BY DEF Agrees
<1>7. CASE x.topic \in Topics(more)
  <2>1. PICK y \in ToSet(new) \ ToSet(old) : y.topic = x.topic
    BY <1>3, <1>7 DEF Topics
  <2>2. x \in ToSet(new) => x = y
    BY <1>4, <2>1
  <2>. QED BY <1>1, <1>3, <1>5, <1>7, <2>1, <2>2
<1>8. CASE x.topic \notin Topics(more) /\ x.topic \in Topics(gone)
  <2>1. PICK y \in ToSet(old) \ ToSet(new) : y.topic = x.topic
    BY <1>3, <1>8 DEF Topics
  <2>2. x \notin ToSet(more)
    BY <1>8 DEF Topics
  <2>3. x \in ToSet(new) => x = y
    BY <1>3, <1>4, <2>1, <2>2
  <2>. QED BY <1>1, <1>8, <2>1, <2>3
<1>9. CASE x.topic \notin Topics(more) /\ x.topic \notin Topics(gone)
  <2>1. x \notin ToSet(more) /\ x \notin ToSet(gone)
    BY <1>9 DEF Topics
  <2>. QED BY <1>1, <1>3, <1>6, <1>9, <2>1
<1>. QED BY <1>7, <1>8, <1>9

\* No other topic than those of the list has a subscription in effect.
Within(have, q, list) == \A x : InEffect(x, have, q) => x.topic \in Topics(list)

LEMMA ResubscribeWithin ==
  ASSUME NEW q \in Seq(Packets), NEW old \in Current, NEW new \in Current, Mappings # {},
         NEW have, Within(have, q, old)
  PROVE  Within(have, q \o Resubscribe(old, new), new)
<1>. SUFFICES ASSUME NEW x, InEffect(x, have, q \o Resubscribe(old, new))
              PROVE  x.topic \in Topics(new)
  BY DEF Within
<1>. DEFINE gone == Without(old, new)
            more == Without(new, old)
<1>1. /\ IF x.topic \in Topics(more) THEN x \in Lasting(more)
         ELSE x.topic \notin Topics(gone) /\ InEffect(x, have, q)
  BY ResubscribeIs
<1>2. /\ ToSet(gone) = ToSet(old) \ ToSet(new)
      /\ ToSet(more) = ToSet(new) \ ToSet(old)
  BY CurrentIs, WithoutIs
<1>. HIDE DEF gone, more
<1>3. CASE x.topic \in Topics(more)
  BY <1>2, <1>3 DEF Topics
<1>4. CASE x.topic \notin Topics(more)
  <2>1. x.topic \in Topics(old) /\ x.topic \notin Topics(gone)
    BY <1>1, <1>4 DEF Within
  <2>. QED BY <1>2, <2>1 DEF Topics
<1>. QED BY <1>3, <1>4

\* Subscribing to a whole list after that puts it in effect.
LEMMA SubscribeAgrees ==
  ASSUME NEW q \in Seq(Packets), NEW list \in Current, Mappings # {},
         NEW have, Within(have, q, list)
  PROVE  Agrees(have, q \o <<[type |-> "subscribe", subscriptions |-> list]>>, list, Doubled(list))
<1>. DEFINE r == q \o <<[type |-> "subscribe", subscriptions |-> list]>>
<1>. SUFFICES ASSUME NEW x, x.topic \notin Doubled(list)
              PROVE  InEffect(x, have, r) <=> x \in ToSet(list)
  BY DEF Agrees
<1>1. list \in Lists /\ list \in Seq([topic : STRING, qos : 0 .. 2])
  BY CurrentIsList, CurrentIs
<1>2. InEffect(x, have, r) <=> IF x.topic \in Topics(list) THEN x \in Lasting(list) ELSE InEffect(x, have, q)
  BY <1>1, SubscribeIs
<1>3. x \in Lasting(list) <=> x \in ToSet(list)
  BY <1>1, SeqBounded, OncePerTopic, LastingOnce
<1>. QED BY <1>2, <1>3 DEF Within, Topics

-----------------------------------------------------------------------------
(* Types.                                                                  *)

LEMMA TypeOKIs ==
  ASSUME TypeOK, NEW i \in Instances
  PROVE  /\ Mappings # {} /\ current[i] \in Current /\ toServer[i] \in Seq(Packets)
         /\ mapping.subscriptions \in Current
  BY DEF TypeOK, Current

LEMMA ConnectTypes ==
  ASSUME TypeOK, NEW i \in Instances, Connect(i)
  PROVE  TypeOK'
<1>1. [type |-> "connect", clean |-> mapping.clean] \in Packets
  BY MappingAssumption DEF TypeOK, Packets
<1>2. PICK p \in Packets : p = [type |-> "connect", clean |-> mapping.clean]
  BY <1>1
<1>3. <<p>> \in Seq(Packets)
  OBVIOUS
<1>4. toServer' \in [Instances -> Seq(Packets)]
  BY <1>2, <1>3 DEF Connect, TypeOK
<1>5. /\ current' \in [Instances -> {<<>>} \cup {m.subscriptions : m \in Mappings}]
      /\ session' \in [Instances -> Mappings]
      /\ kept' \in [Instances -> SUBSET AllSubscriptions]
      /\ \A j \in Instances : kept'[j] \subseteq ToSet(current'[j])
  BY DEF Connect, TypeOK
<1>6. /\ link' \in [Instances -> {"down", "connected", "acked", "closing"}]
      /\ tainted' \in [Instances -> BOOLEAN]
      /\ UNCHANGED <<mapping, failed, deploys, drops, connack, server, doubled>>
  BY DEF Connect, TypeOK
<1>7. stale' \in [Instances -> BOOLEAN]
  <2>1. stale \in [Instances -> BOOLEAN]
    BY DEF TypeOK
  <2>2. (stale[i] \/ current[i] # mapping.subscriptions) \in BOOLEAN
    OBVIOUS
  <2>. QED BY <2>1, <2>2 DEF Connect
<1>. QED BY <1>4, <1>5, <1>6, <1>7 DEF TypeOK

LEMMA DoubledIs ==
  ASSUME NEW l \in Current PROVE Doubled(l) \subseteq {s.topic : s \in AllSubscriptions}
<1>1. ToSet(l) \subseteq AllSubscriptions
  BY CurrentIs
<1>. QED BY <1>1 DEF Doubled, ToSet

LEMMA OnConnackTypes ==
  ASSUME TypeOK, NEW i \in Instances, OnConnack(i)
  PROVE  TypeOK'
<1>1. toServer[i] \o SubscribeOnConnack(i, connack[i] = "present") \in Seq(Packets)
  <2>1. toServer[i] \in Seq(Packets) /\ current[i] \in Lists
    BY TypeOKIs, CurrentIsList
  <2>2. toServer[i] \o <<>> = toServer[i]
    BY <2>1, ConcatEmptySeq
  <2>3. toServer[i] \o <<[type |-> "subscribe", subscriptions |-> current[i]]>> \in Seq(Packets)
    BY <2>1, SubscribeIs
  <2>. QED BY <2>1, <2>2, <2>3 DEF SubscribeOnConnack
<1>2. toServer' \in [Instances -> Seq(Packets)]
  BY <1>1 DEF OnConnack, TypeOK
<1>3. Doubled(current[i]) \subseteq {s.topic : s \in AllSubscriptions} /\ ToSet(current[i]) \subseteq AllSubscriptions
  BY TypeOKIs, DoubledIs, CurrentIs
<1>4. /\ kept' \in [Instances -> SUBSET AllSubscriptions]
      /\ \A j \in Instances : kept'[j] \subseteq ToSet(current'[j])
  <2>1. current' = current
    BY DEF OnConnack
  <2>2. kept' = [kept EXCEPT ![i] = {}] \/ kept' = [kept EXCEPT ![i] = ToSet(current[i])]
    BY DEF OnConnack
  <2>3. kept \in [Instances -> SUBSET AllSubscriptions]
        /\ \A j \in Instances : kept[j] \subseteq ToSet(current[j])
    BY DEF TypeOK
  <2>. HIDE DEF OnConnack
  <2>4. CASE kept' = [kept EXCEPT ![i] = {}]
    BY <2>1, <2>3, <2>4
  <2>5. CASE kept' = [kept EXCEPT ![i] = ToSet(current[i])]
    BY <1>3, <2>1, <2>3, <2>5
  <2>. QED BY <2>2, <2>4, <2>5
<1>5. doubled' \in [Instances -> SUBSET {s.topic : s \in AllSubscriptions}] /\ stale' \in [Instances -> BOOLEAN]
  <2>1. CASE connack[i] = "present"
    BY <2>1 DEF OnConnack, TypeOK
  <2>2. CASE connack[i] # "present"
    <3>1. doubled' = [doubled EXCEPT ![i] = Doubled(current[i])] /\ stale' = [stale EXCEPT ![i] = FALSE]
      BY <2>2 DEF OnConnack
    <3>2. doubled \in [Instances -> SUBSET {s.topic : s \in AllSubscriptions}] /\ stale \in [Instances -> BOOLEAN]
      BY DEF TypeOK
    <3>. QED BY <1>3, <3>1, <3>2
  <2>. QED BY <2>1, <2>2
<1>6. /\ link' \in [Instances -> {"down", "connected", "acked", "closing"}]
      /\ connack' \in [Instances -> {"none", "absent", "present"}]
      /\ UNCHANGED <<mapping, failed, deploys, drops, session, current, server, tainted>>
  BY DEF OnConnack, TypeOK
<1>. QED BY <1>2, <1>4, <1>5, <1>6 DEF TypeOK

LEMMA DisconnectedTypes ==
  ASSUME TypeOK, NEW i \in Instances, Closed(i) \/ Dropped(i) \/ ServerRefuses(i)
  PROVE  TypeOK'
<1>1. Disconnected(i)
  BY DEF Closed, Dropped, ServerRefuses
<1>2. drops' \in 0 .. MaxDrops
  BY BoundsAssumption DEF Closed, Dropped, ServerRefuses, TypeOK
<1>3. toServer' \in [Instances -> Seq(Packets)]
  <2>1. <<>> \in Seq(Packets)
    OBVIOUS
  <2>. QED BY <1>1, <2>1 DEF Disconnected, TypeOK
<1>4. server' \in [Instances -> [stays : BOOLEAN, subscriptions : SUBSET AllSubscriptions]]
  <2>. DEFINE new == [server[i] EXCEPT !.subscriptions = {}]
  <2>1. new \in [stays : BOOLEAN, subscriptions : SUBSET AllSubscriptions]
    <3>1. server[i] \in [stays : BOOLEAN, subscriptions : SUBSET AllSubscriptions]
      BY DEF TypeOK
    <3>. QED BY <3>1
  <2>2. server' = server \/ server' = [server EXCEPT ![i] = new]
    BY <1>1 DEF Disconnected
  <2>. QED BY <2>1, <2>2 DEF TypeOK
<1>5. stale' \in [Instances -> BOOLEAN]
  <2>1. (stale[i] \/ Lost(i)) \in BOOLEAN
    OBVIOUS
  <2>. QED BY <1>1, <2>1 DEF Disconnected, TypeOK
<1>6. /\ link' \in [Instances -> {"down", "connected", "acked", "closing"}]
      /\ connack' \in [Instances -> {"none", "absent", "present"}]
      /\ UNCHANGED <<mapping, failed, deploys, session, current, kept, tainted, doubled>>
  BY <1>1 DEF Disconnected, TypeOK
<1>. QED BY <1>2, <1>3, <1>4, <1>5, <1>6 DEF TypeOK

\* What the server does with the first packet.
LEMMA ServerReceivesIs ==
  ASSUME TypeOK, NEW i \in Instances, ServerReceives(i), NEW p, p = Head(toServer[i])
  PROVE  /\ toServer[i] # <<>> /\ p \in Packets /\ toServer' = [toServer EXCEPT ![i] = Tail(@)]
         /\ Tail(toServer[i]) \in Seq(Packets)
         /\ p.type = "connect" => OnConnect(i, p.clean) /\ p.clean \in BOOLEAN
         /\ p.type # "connect" =>
              /\ server' = [server EXCEPT ![i].subscriptions =
                              HandledFirst(server[i].subscriptions, p)]
              /\ connack' = connack
         /\ UNCHANGED <<mapping, failed, deploys, drops, link, session, current, kept,
                        tainted, doubled, stale>>
<1>1. toServer[i] # <<>> /\ toServer' = [toServer EXCEPT ![i] = Tail(@)]
  BY DEF ServerReceives
<1>2. p \in Packets /\ Tail(toServer[i]) \in Seq(Packets)
  BY <1>1, TypeOKIs, HeadTailProperties
<1>3. p.type \in {"connect", "subscribe", "unsubscribe", "disconnect"}
      /\ (p.type = "connect" => p.clean \in BOOLEAN)
  BY <1>2 DEF Packets
<1>4. CASE p.type = "connect"
  BY <1>1, <1>2, <1>3, <1>4 DEF ServerReceives
<1>5. CASE p.type = "subscribe"
  BY <1>1, <1>2, <1>5 DEF ServerReceives, HandledFirst
<1>6. CASE p.type = "unsubscribe"
  BY <1>1, <1>2, <1>6 DEF ServerReceives, HandledFirst
<1>7. CASE p.type = "disconnect"
  <2>1. server' = server /\ connack' = connack
    BY <1>7 DEF ServerReceives
  <2>2. server = [server EXCEPT ![i].subscriptions = HandledFirst(server[i].subscriptions, p)]
    BY <1>7 DEF HandledFirst, TypeOK
  <2>. QED BY <1>1, <1>2, <1>7, <2>1, <2>2 DEF ServerReceives
<1>. QED BY <1>3, <1>4, <1>5, <1>6, <1>7

LEMMA ServerReceivesTypes ==
  ASSUME TypeOK, NEW i \in Instances, ServerReceives(i)
  PROVE  TypeOK'
<1>. PICK p : p = Head(toServer[i])
  OBVIOUS
<1>1. /\ p \in Packets /\ toServer' = [toServer EXCEPT ![i] = Tail(@)]
      /\ Tail(toServer[i]) \in Seq(Packets)
      /\ UNCHANGED <<mapping, failed, deploys, drops, link, session, current, kept,
                     tainted, doubled, stale>>
  BY ServerReceivesIs
<1>2. toServer' \in [Instances -> Seq(Packets)]
  BY <1>1 DEF TypeOK
<1>3. CASE p.type = "connect"
  <2>1. OnConnect(i, p.clean) /\ p.clean \in BOOLEAN
    BY <1>3, ServerReceivesIs
  <2>2. server' \in [Instances -> [stays : BOOLEAN, subscriptions : SUBSET AllSubscriptions]]
        /\ connack' \in [Instances -> {"none", "absent", "present"}]
    BY <2>1 DEF OnConnect, TypeOK
  <2>. QED BY <1>1, <1>2, <2>2 DEF TypeOK
<1>4. CASE p.type # "connect"
  <2>. DEFINE h == HandledFirst(server[i].subscriptions, p)
              new == [server[i] EXCEPT !.subscriptions = h]
  <2>1. server' = [server EXCEPT ![i] = new] /\ connack' = connack
    BY <1>4, ServerReceivesIs
  <2>2. h \subseteq AllSubscriptions
    <3>1. server[i].subscriptions \subseteq AllSubscriptions
      BY DEF TypeOK
    <3>2. p.type = "subscribe" => Lasting(p.subscriptions) \subseteq AllSubscriptions
      <4>1. p.type = "subscribe" => p.subscriptions \in Lists
        BY <1>1 DEF Packets
      <4>. QED BY <4>1, ListIs, LastingIs
    <3>. QED BY <3>1, <3>2 DEF HandledFirst, Subscribed
  <2>. HIDE DEF h
  <2>3. new \in [stays : BOOLEAN, subscriptions : SUBSET AllSubscriptions]
    <3>1. server[i] \in [stays : BOOLEAN, subscriptions : SUBSET AllSubscriptions]
      BY DEF TypeOK
    <3>. QED BY <2>2, <3>1
  <2>. QED BY <1>1, <1>2, <2>1, <2>3 DEF TypeOK
<1>. QED BY <1>3, <1>4

\* What a deploy does to the packets of an instance.
LEMMA DeployTypes ==
  ASSUME TypeOK, NEW m \in Mappings, Deploy(m)
  PROVE  TypeOK'
<1>1. mapping' = m /\ failed' = FALSE /\ deploys' \in 0 .. MaxDeploys
      /\ UNCHANGED <<drops, session, connack, server, tainted>>
  BY BoundsAssumption DEF Deploy, TypeOK
<1>2. CASE MustReconnect(m)
  <2>1. Reconnect
    BY <1>2 DEF Deploy
  <2>2. \A i \in Instances : toServer[i] \o <<[type |-> "disconnect"]>> \in Seq(Packets)
    <3>. TAKE i \in Instances
    <3>1. PICK p \in Packets : p = [type |-> "disconnect"]
      BY DEF Packets
    <3>2. toServer[i] \in Seq(Packets) /\ <<p>> \in Seq(Packets)
      BY TypeOKIs
    <3>. QED BY <3>1, <3>2, ConcatProperties
  <2>3. toServer' \in [Instances -> Seq(Packets)]
    BY <2>1, <2>2 DEF Reconnect, Sent, TypeOK
  <2>4. link' \in [Instances -> {"down", "connected", "acked", "closing"}]
        /\ UNCHANGED <<current, kept, doubled, stale>>
    BY <2>1 DEF Reconnect, TypeOK
  <2>. QED BY <1>1, <2>3, <2>4 DEF TypeOK
<1>3. CASE ~MustReconnect(m)
  <2>1. HotReload(m)
    BY <1>3 DEF Deploy
  <2>2. m.subscriptions \in Current /\ Mappings # {}
    BY DEF Current
  <2>3. \A i \in Instances : toServer[i] \o Resubscribe(current[i], m.subscriptions) \in Seq(Packets)
    BY <2>2, TypeOKIs, ResubscribeIs
  <2>4. toServer' \in [Instances -> Seq(Packets)]
    BY <2>1, <2>3 DEF HotReload, Sent, TypeOK
  <2>5. current' \in [Instances -> {<<>>} \cup {n.subscriptions : n \in Mappings}]
    BY <2>1 DEF HotReload, TypeOK
  <2>6. kept' \in [Instances -> SUBSET AllSubscriptions]
        /\ \A i \in Instances : kept'[i] \subseteq ToSet(current'[i])
    BY <2>1 DEF HotReload, TypeOK
  <2>7. doubled' \in [Instances -> SUBSET {s.topic : s \in AllSubscriptions}]
    BY <2>1, <2>2, DoubledIs DEF HotReload, TypeOK
  <2>8. stale' \in [Instances -> BOOLEAN] /\ link' = link
    BY <2>1 DEF HotReload, TypeOK
  <2>. QED BY <1>1, <2>4, <2>5, <2>6, <2>7, <2>8 DEF TypeOK
<1>. QED BY <1>2, <1>3

LEMMA TypesNext == TypeOK /\ [Next]_vars => TypeOK'
<1>. SUFFICES ASSUME TypeOK, [Next]_vars PROVE TypeOK'
  OBVIOUS
<1>1. ASSUME NEW m \in Mappings, DeployFails(m) PROVE TypeOK'
  <2>1. tainted' \in [Instances -> BOOLEAN] /\ deploys' \in 0 .. MaxDeploys
    BY <1>1, BoundsAssumption DEF DeployFails, TypeOK
  <2>2. mapping' \in Mappings /\ failed' \in BOOLEAN
        /\ UNCHANGED <<drops, link, session, current, toServer, connack, server, kept, doubled, stale>>
    BY <1>1 DEF DeployFails
  <2>. QED BY <2>1, <2>2 DEF TypeOK
<1>2. CASE UNCHANGED vars
  BY <1>2 DEF vars, TypeOK
<1>. QED BY <1>1, <1>2, ConnectTypes, OnConnackTypes, DisconnectedTypes, ServerReceivesTypes,
            DeployTypes DEF Next

LEMMA TypesInit == Init => TypeOK
<1>. SUFFICES ASSUME Init PROVE TypeOK
  OBVIOUS
<1>1. toServer \in [Instances -> Seq(Packets)]
  <2>1. <<>> \in Seq(Packets)
    OBVIOUS
  <2>. QED BY <2>1 DEF Init
<1>2. deploys \in 0 .. MaxDeploys /\ drops \in 0 .. MaxDrops
  BY BoundsAssumption DEF Init
<1>3. /\ current \in [Instances -> {<<>>} \cup {m.subscriptions : m \in Mappings}]
      /\ server \in [Instances -> [stays : BOOLEAN, subscriptions : SUBSET AllSubscriptions]]
      /\ kept \in [Instances -> SUBSET AllSubscriptions]
      /\ \A i \in Instances : kept[i] \subseteq ToSet(current[i])
      /\ doubled \in [Instances -> SUBSET {s.topic : s \in AllSubscriptions}]
  BY DEF Init
<1>. QED BY <1>1, <1>2, <1>3 DEF Init, TypeOK

\* mqttintegrator: every reachable state is well typed; what is sent are parts of
\* the lists of the mappings.
THEOREM TypeCorrect == Spec => []TypeOK
<1>. QED BY TypesInit, TypesNext, PTL DEF Spec

-----------------------------------------------------------------------------
(* The inductive invariant.                                                *)

Connecting(q) == \E k \in DOMAIN q : q[k].type = "connect"

\* The order of what is sent and received on a connection; what a session that
\* is accepted may rely on.
Sequence(i) ==
  /\ \A k \in DOMAIN toServer[i] : toServer[i][k].type = "connect" =>
       /\ k = 1 /\ link[i] \in {"connected", "closing"} /\ connack[i] = "none"
       /\ toServer[i][k].clean = session[i].clean
  /\ link[i] = "acked" => connack[i] = "none"
  /\ link[i] = "down" => toServer[i] = <<>> /\ connack[i] = "none"
  /\ connack[i] = "present" => server[i].stays /\ ~session[i].clean
  /\ link[i] = "acked" /\ (session[i].clean \/ kept[i] # {}) => ~stale[i]

\* With a session that the server keeps, or that is accepted, what is in effect
\* is what the client has subscribed, unless packets were lost.
Reached(i) ==
  (~stale[i] /\ (server[i].stays \/ link[i] = "acked") /\ connack[i] # "absent") =>
    Agrees(server[i].subscriptions, toServer[i], current[i], doubled[i])

\* Before a new session is accepted, hot reloads bring nothing into effect that
\* the SUBSCRIBE on CONNACK would not replace.
Opening(i) ==
  link[i] = "connected" =>
    /\ Connecting(toServer[i]) => Within({}, toServer[i], current[i])
    /\ connack[i] = "absent" => Within(server[i].subscriptions, toServer[i], current[i])

\* The client has subscribed what the mapping in force says.
InForce(i) ==
  (~failed /\ link[i] \in {"connected", "acked"}) => current[i] = mapping.subscriptions

Good(i) == Sequence(i) /\ Reached(i) /\ Opening(i) /\ InForce(i)

Inv == TypeOK /\ \A i \in Instances : Good(i)

LEMMA Untouched ==
  ASSUME NEW i, Good(i),
         link'[i] = link[i], session'[i] = session[i], current'[i] = current[i],
         toServer'[i] = toServer[i], connack'[i] = connack[i], server'[i] = server[i],
         kept'[i] = kept[i], doubled'[i] = doubled[i], stale'[i] = stale[i],
         UNCHANGED <<mapping, failed>> \/ failed' = TRUE
  PROVE  Good(i)'
<1>1. Sequence(i)'
  BY DEF Good, Sequence
<1>2. Reached(i)'
  BY DEF Good, Reached
<1>3. Opening(i)'
  BY DEF Good, Opening
<1>4. InForce(i)'
  BY DEF Good, InForce
<1>. QED BY <1>1, <1>2, <1>3, <1>4 DEF Good

\* CONNECT and DISCONNECT change nothing that is in effect.
LEMMA NothingTouched ==
  ASSUME NEW q \in Seq(Packets), NEW p \in Packets, p.type \in {"connect", "disconnect"},
         NEW have, NEW x
  PROVE  InEffect(x, have, Append(q, p)) <=> InEffect(x, have, q)
<1>1. ~Touches(p, x.topic) /\ ~Gives(p, x)
  BY DEF Touches, Gives
<1>. QED BY <1>1, InEffectAppend

LEMMA NothingTouchedAgrees ==
  ASSUME NEW q \in Seq(Packets), NEW p \in Packets, p.type \in {"connect", "disconnect"},
         NEW have, NEW list, NEW except, Agrees(have, q, list, except)
  PROVE  Agrees(have, Append(q, p), list, except)
BY NothingTouched DEF Agrees

LEMMA TailAgrees ==
  ASSUME NEW q \in Seq(Packets), q # <<>>, NEW have, NEW list, NEW except,
         Agrees(have, q, list, except)
  PROVE  Agrees(HandledFirst(have, Head(q)), Tail(q), list, except)
<1>1. Head(q) \in Packets
  BY HeadTailProperties
<1>2. \A x : InEffect(x, HandledFirst(have, Head(q)), Tail(q)) <=> InEffect(x, have, q)
  BY <1>1, GivesTouches, InEffectTail
<1>. QED BY <1>2 DEF Agrees

LEMMA TailWithin ==
  ASSUME NEW q \in Seq(Packets), q # <<>>, NEW have, NEW list, Within(have, q, list)
  PROVE  Within(HandledFirst(have, Head(q)), Tail(q), list)
<1>1. Head(q) \in Packets
  BY HeadTailProperties
<1>2. \A x : InEffect(x, HandledFirst(have, Head(q)), Tail(q)) <=> InEffect(x, have, q)
  BY <1>1, GivesTouches, InEffectTail
<1>. QED BY <1>2 DEF Within

LEMMA ConnectGood ==
  ASSUME Inv, NEW i \in Instances, Connect(i)
  PROVE  Good(i)'
<1>1. PICK p \in Packets : p = [type |-> "connect", clean |-> mapping.clean]
  BY MappingAssumption DEF Inv, TypeOK, Packets
<1>2. /\ link[i] = "down" /\ link'[i] = "connected" /\ session'[i] = mapping
      /\ current'[i] = mapping.subscriptions /\ toServer'[i] = <<p>>
      /\ kept'[i] = {} /\ stale'[i] = (stale[i] \/ current[i] # mapping.subscriptions)
      /\ UNCHANGED <<mapping, failed, connack, server, doubled>>
  BY <1>1 DEF Connect, Inv, TypeOK
<1>3. toServer[i] = <<>> /\ connack[i] = "none" /\ Reached(i)
  BY <1>2 DEF Inv, Good, Sequence
<1>4. <<p>> = Append(<<>>, p) /\ <<>> \in Seq(Packets) /\ DOMAIN <<p>> = {1} /\ <<p>>[1] = p
  OBVIOUS
<1>5. Sequence(i)'
  BY <1>1, <1>2, <1>3, <1>4 DEF Sequence
<1>6. Reached(i)'
  <2>. SUFFICES ASSUME ~stale'[i], server[i].stays
                PROVE  Agrees(server[i].subscriptions, <<p>>, mapping.subscriptions, doubled[i])
    BY <1>2 DEF Reached
  <2>1. ~stale[i] /\ current[i] = mapping.subscriptions
    BY <1>2
  <2>2. Agrees(server[i].subscriptions, <<>>, mapping.subscriptions, doubled[i])
    BY <1>3, <2>1 DEF Reached
  <2>. QED BY <1>1, <1>4, <2>2, NothingTouchedAgrees
<1>7. Opening(i)'
  <2>1. \A x : ~InEffect(x, {}, <<p>>)
    BY <1>1, <1>4 DEF InEffect, Gives
  <2>. QED BY <1>2, <1>3, <2>1 DEF Opening, Within
<1>8. InForce(i)'
  BY <1>2 DEF InForce
<1>. QED BY <1>5, <1>6, <1>7, <1>8 DEF Good

LEMMA OnConnackGood ==
  ASSUME Inv, NEW i \in Instances, OnConnack(i)
  PROVE  Good(i)'
<1>. DEFINE q == toServer[i]
            p == [type |-> "subscribe", subscriptions |-> current[i]]
<1>1. /\ link[i] = "connected" /\ connack[i] # "none" /\ connack[i] \in {"absent", "present"}
      /\ link'[i] = "acked" /\ connack'[i] = "none"
      /\ UNCHANGED <<mapping, failed, session, current, server>>
  BY DEF OnConnack, Inv, TypeOK
<1>2. Good(i) /\ q \in Seq(Packets) /\ current[i] \in Current /\ Mappings # {}
  BY TypeOKIs DEF Inv
<1>3. \A k \in DOMAIN q : q[k].type # "connect"
  BY <1>1, <1>2 DEF Good, Sequence
<1>4. CASE connack[i] = "present"
  <2>1. toServer'[i] = q /\ kept'[i] = {} /\ UNCHANGED <<doubled, stale>>
    <3>1. toServer'[i] = q \o <<>> /\ kept'[i] = {} /\ UNCHANGED <<doubled, stale>>
      BY <1>4 DEF OnConnack, SubscribeOnConnack, Inv, TypeOK
    <3>. QED BY <1>2, <3>1, ConcatEmptySeq
  <2>2. server[i].stays /\ ~session[i].clean
    BY <1>2, <1>4 DEF Good, Sequence
  <2>3. Sequence(i)'
    BY <1>1, <1>3, <2>1, <2>2 DEF Sequence
  <2>4. Reached(i)'
    BY <1>1, <1>2, <1>4, <2>1, <2>2 DEF Good, Reached
  <2>. QED BY <1>1, <1>2, <2>3, <2>4 DEF Good, Opening, InForce
<1>5. CASE connack[i] = "absent"
  <2>1. /\ toServer'[i] = q \o <<p>> /\ stale'[i] = FALSE
        /\ doubled'[i] = Doubled(current[i])
    BY <1>5 DEF OnConnack, SubscribeOnConnack, Inv, TypeOK
  <2>2. \A k \in DOMAIN (q \o <<p>>) : (q \o <<p>>)[k].type # "connect"
    <3>1. p.type # "connect"
      OBVIOUS
    <3>. HIDE DEF p
    <3>. QED BY <1>2, <1>3, <3>1
  <2>3. Sequence(i)'
    BY <1>1, <2>1, <2>2 DEF Sequence
  <2>4. Within(server[i].subscriptions, q, current[i])
    BY <1>1, <1>2, <1>5 DEF Good, Opening
  <2>5. Agrees(server[i].subscriptions, q \o <<p>>, current[i], Doubled(current[i]))
    BY <1>2, <2>4, SubscribeAgrees
  <2>6. Reached(i)'
    BY <1>1, <2>1, <2>5 DEF Reached
  <2>. QED BY <1>1, <1>2, <2>3, <2>6 DEF Good, Opening, InForce
<1>. QED BY <1>1, <1>4, <1>5

LEMMA DisconnectedGood ==
  ASSUME Inv, NEW i \in Instances, Disconnected(i)
  PROVE  Good(i)'
<1>1. /\ link'[i] = "down" /\ toServer'[i] = <<>> /\ connack'[i] = "none"
      /\ stale'[i] = (stale[i] \/ Lost(i))
      /\ server'[i].stays = server[i].stays
      /\ server[i].stays => server' = server
      /\ UNCHANGED <<mapping, failed, session, current, kept, doubled>>
  BY DEF Disconnected, Inv, TypeOK
<1>2. Good(i) /\ toServer[i] \in Seq(Packets)
  BY TypeOKIs DEF Inv
<1>3. Sequence(i)' /\ Opening(i)' /\ InForce(i)'
  BY <1>1 DEF Sequence, Opening, InForce
<1>4. Reached(i)'
  <2>. SUFFICES ASSUME ~stale'[i], server[i].stays
                PROVE  Agrees(server[i].subscriptions, <<>>, current[i], doubled[i])
    BY <1>1 DEF Reached
  <2>1. ~stale[i] /\ connack[i] # "absent"
        /\ \A k \in DOMAIN toServer[i] : toServer[i][k].type \notin {"subscribe", "unsubscribe"}
    BY <1>1 DEF Lost, ToSet
  <2>2. Agrees(server[i].subscriptions, toServer[i], current[i], doubled[i])
    BY <1>2, <2>1 DEF Good, Reached
  <2>3. \A x, have : InEffect(x, have, toServer[i]) <=> InEffect(x, have, <<>>)
    BY <2>1 DEF InEffect, Touches, Gives
  <2>. QED BY <2>2, <2>3 DEF Agrees
<1>. QED BY <1>3, <1>4 DEF Good

LEMMA ServerReceivesGood ==
  ASSUME Inv, NEW i \in Instances, ServerReceives(i)
  PROVE  Good(i)'
<1>. DEFINE q == toServer[i]
            p == Head(q)
            have == server[i].subscriptions
<1>1. /\ q # <<>> /\ p \in Packets /\ toServer' = [toServer EXCEPT ![i] = Tail(@)]
      /\ UNCHANGED <<mapping, failed, link, session, current, kept, doubled, stale>>
  BY ServerReceivesIs DEF Inv
<1>2. toServer'[i] = Tail(q) /\ Good(i) /\ q \in Seq(Packets)
  BY <1>1, TypeOKIs DEF Inv, TypeOK
<1>3. /\ DOMAIN Tail(q) = 1 .. Len(q) - 1 /\ DOMAIN q = 1 .. Len(q) /\ Len(q) \in Nat \ {0}
      /\ \A k \in 1 .. Len(q) - 1 : Tail(q)[k] = q[k + 1]
      /\ p = q[1]
  BY <1>1, <1>2, HeadTailProperties
<1>4. \A k \in DOMAIN Tail(q) : Tail(q)[k].type # "connect"
  <2>1. \A k \in DOMAIN Tail(q) : k + 1 \in DOMAIN q /\ k + 1 # 1 /\ Tail(q)[k] = q[k + 1]
    BY <1>3
  <2>. QED BY <1>2, <2>1 DEF Good, Sequence
<1>5. InForce(i)'
  BY <1>1, <1>2 DEF Good, InForce
<1>6. CASE p.type = "connect"
  <2>1. /\ link[i] \in {"connected", "closing"} /\ connack[i] = "none" /\ p.clean = session[i].clean
        /\ Connecting(q)
    <3>1. 1 \in DOMAIN q
      BY <1>3
    <3>. QED BY <1>2, <1>3, <1>6, <3>1 DEF Good, Sequence, Connecting
  <2>2. /\ server'[i] = [stays |-> ~p.clean, subscriptions |-> IF p.clean \/ ~server[i].stays THEN {} ELSE have]
        /\ connack'[i] = IF ~p.clean /\ server[i].stays THEN "present" ELSE "absent"
    <3>1. OnConnect(i, p.clean)
      BY <1>6, ServerReceivesIs DEF Inv
    <3>2. server \in [Instances -> [stays : BOOLEAN, subscriptions : SUBSET AllSubscriptions]]
          /\ connack \in [Instances -> {"none", "absent", "present"}]
      BY DEF Inv, TypeOK
    <3>. HIDE DEF p
    <3>. QED BY <3>1, <3>2 DEF OnConnect
  <2>3. HandledFirst({}, p) = {} /\ HandledFirst(have, p) = have
    BY <1>6 DEF HandledFirst
  <2>4. Sequence(i)'
    <3>1. link'[i] = link[i] /\ session' = session /\ link[i] \notin {"acked", "down"}
      BY <1>1, <2>1
    <3>2. connack'[i] = "present" => server'[i].stays /\ ~session'[i].clean
      <4>1. ASSUME connack'[i] = "present" PROVE ~p.clean
        BY <2>2, <4>1, Zenon
      <4>2. ASSUME ~p.clean PROVE server'[i].stays
        <5>1. server'[i].stays = ~p.clean
          BY <2>2
        <5>. QED BY <4>2, <5>1, Zenon
      <4>. QED BY <2>1, <3>1, <4>1, <4>2
    <3>3. \A k \in DOMAIN toServer'[i] : toServer'[i][k].type # "connect"
      BY <1>2, <1>4
    <3>. QED BY <3>1, <3>2, <3>3 DEF Sequence
  <2>5. Reached(i)'
    <3>. SUFFICES ASSUME ~stale[i], ~p.clean, server[i].stays
                  PROVE  Agrees(have, Tail(q), current[i], doubled[i])
      BY <1>1, <1>2, <2>2 DEF Reached
    <3>1. Agrees(have, q, current[i], doubled[i])
      BY <1>2, <2>1 DEF Good, Reached
    <3>. QED BY <1>1, <1>2, <2>3, <3>1, TailAgrees
  <2>6. Opening(i)'
    <3>. SUFFICES ASSUME link[i] = "connected", p.clean \/ ~server[i].stays
                  PROVE  Within({}, Tail(q), current[i])
      <4>1. ~Connecting(toServer'[i])
        BY <1>2, <1>4 DEF Connecting
      <4>2. connack'[i] = "absent" => (p.clean \/ ~server[i].stays) /\ server'[i].subscriptions = {}
        BY <2>2
      <4>. QED BY <1>1, <1>2, <4>1, <4>2 DEF Opening
    <3>1. Within({}, q, current[i])
      BY <1>2, <2>1 DEF Good, Opening
    <3>. QED BY <1>1, <1>2, <2>3, <3>1, TailWithin
  <2>. QED BY <1>5, <2>4, <2>5, <2>6 DEF Good
<1>7. CASE p.type # "connect"
  <2>1. /\ server'[i].stays = server[i].stays /\ connack' = connack
        /\ server'[i].subscriptions = HandledFirst(have, p)
    <3>1. server' = [server EXCEPT ![i].subscriptions = HandledFirst(have, p)] /\ connack' = connack
      BY <1>7, ServerReceivesIs DEF Inv
    <3>. QED BY <3>1 DEF Inv, TypeOK
  <2>2. Sequence(i)'
    <3>1. link[i] = "down" => q = <<>>
      BY <1>2 DEF Good, Sequence
    <3>. QED BY <1>1, <1>2, <1>4, <2>1, <3>1 DEF Good, Sequence
  <2>3. Reached(i)'
    <3>. SUFFICES ASSUME ~stale[i], server[i].stays \/ link[i] = "acked", connack[i] # "absent"
                  PROVE  Agrees(HandledFirst(have, p), Tail(q), current[i], doubled[i])
      BY <1>1, <1>2, <2>1 DEF Reached
    <3>1. Agrees(have, q, current[i], doubled[i])
      BY <1>2 DEF Good, Reached
    <3>. QED BY <1>1, <1>2, <3>1, TailAgrees
  <2>4. Opening(i)'
    <3>. SUFFICES ASSUME link[i] = "connected", connack[i] = "absent"
                  PROVE  Within(HandledFirst(have, p), Tail(q), current[i])
      BY <1>1, <1>2, <1>4, <2>1 DEF Opening, Connecting
    <3>1. Within(have, q, current[i])
      BY <1>2 DEF Good, Opening
    <3>. QED BY <1>1, <1>2, <3>1, TailWithin
  <2>. QED BY <1>5, <2>2, <2>3, <2>4 DEF Good
<1>. QED BY <1>6, <1>7

\* What is sent after is no CONNECT.
LEMMA StillConnecting ==
  ASSUME NEW q \in Seq(Packets), NEW r \in Seq(Packets),
         \A k \in DOMAIN r : r[k].type # "connect",
         NEW k \in DOMAIN (q \o r), (q \o r)[k].type = "connect"
  PROVE  k \in DOMAIN q /\ q[k] = (q \o r)[k]
<1>1. k \in 1 .. Len(q) + Len(r) /\ Len(q) \in Nat /\ Len(r) \in Nat
      /\ DOMAIN q = 1 .. Len(q) /\ DOMAIN r = 1 .. Len(r)
  BY ConcatProperties
<1>2. CASE k <= Len(q)
  BY <1>1, <1>2, ConcatProperties
<1>3. CASE k > Len(q)
  <2>1. k - Len(q) \in DOMAIN r
    BY <1>1, <1>3
  <2>2. (q \o r)[k] = r[k - Len(q)]
    BY <1>1, <1>3, ConcatProperties
  <2>. QED BY <2>1, <2>2
<1>. QED BY <1>1, <1>2, <1>3

LEMMA ResubscribeSends ==
  ASSUME NEW old \in Current, NEW new \in Current, Mappings # {}
  PROVE  /\ Resubscribe(old, new) \in Seq(Packets)
         /\ \A k \in DOMAIN Resubscribe(old, new) : Resubscribe(old, new)[k].type # "connect"
<1>. DEFINE u == Unsubscribe(Without(old, new))
            s == Subscribe(Without(new, old))
<1>1. <<>> \in Seq(Packets)
  OBVIOUS
<1>2. Without(old, new) \in Lists /\ Without(new, old) \in Lists
  BY RestrictedIsList DEF Without
<1>3. u \in Seq(Packets) /\ s \in Seq(Packets)
  <2>1. ToSet(Without(old, new)) \subseteq AllSubscriptions
    BY <1>2, ListIs
  <2>2. <<>> \o u \in Seq(Packets) /\ <<>> \o s \in Seq(Packets)
    BY <1>1, <1>2, <2>1, UnsubscribesIs, SubscribesIs
  <2>3. \E p : u = <<>> \/ u = <<p>>
    BY DEF Unsubscribe
  <2>4. \E p : s = <<>> \/ s = <<p>>
    BY DEF Subscribe
  <2>. HIDE DEF u, s
  <2>. QED BY <2>2, <2>3, <2>4
<1>4. /\ \A k \in DOMAIN u : u[k].type = "unsubscribe"
      /\ \A k \in DOMAIN s : s[k].type = "subscribe"
  BY DEF Unsubscribe, Subscribe
<1>. HIDE DEF u, s
<1>5. \A k \in DOMAIN (u \o s) : (u \o s)[k].type # "connect"
  <2>. SUFFICES ASSUME NEW k \in DOMAIN (u \o s), (u \o s)[k].type = "connect" PROVE FALSE
    OBVIOUS
  <2>1. k \in DOMAIN u /\ u[k] = (u \o s)[k]
    BY <1>3, <1>4, StillConnecting
  <2>. QED BY <1>4, <2>1
<1>6. u \o s \in Seq(Packets)
  BY <1>3, ConcatProperties
<1>. QED BY <1>5, <1>6 DEF Resubscribe, u, s

\* A deploy that disconnects the open sessions.
LEMMA ReconnectGood ==
  ASSUME Inv, NEW m \in Mappings, Deploy(m), MustReconnect(m), NEW i \in Instances
  PROVE  Good(i)'
<1>1. Reconnect /\ UNCHANGED <<session, connack, server>>
  BY DEF Deploy
<1>2. UNCHANGED <<current, kept, doubled, stale>>
  BY <1>1 DEF Reconnect
<1>3. Good(i) /\ toServer[i] \in Seq(Packets)
  BY TypeOKIs DEF Inv
<1>4. CASE link[i] = "down"
  <2>1. link'[i] = link[i] /\ toServer'[i] = toServer[i]
    BY <1>1, <1>4 DEF Reconnect, Open
  <2>2. Sequence(i)' /\ Reached(i)' /\ Opening(i)'
    BY <1>1, <1>2, <1>3, <2>1 DEF Good, Sequence, Reached, Opening
  <2>3. InForce(i)'
    BY <1>4, <2>1 DEF InForce
  <2>. QED BY <2>2, <2>3 DEF Good
<1>5. CASE link[i] # "down"
  <2>1. PICK p \in Packets : p = [type |-> "disconnect"]
    BY DEF Packets
  <2>2. link'[i] = "closing" /\ (toServer'[i] = toServer[i] \/ toServer'[i] = Append(toServer[i], p))
    <3>1. toServer[i] \o <<p>> = Append(toServer[i], p)
      BY <1>3, AppendIsConcat
    <3>. QED BY <1>1, <1>5, <2>1, <3>1 DEF Reconnect, Open, Sent
  <2>3. ASSUME NEW k \in DOMAIN toServer'[i], toServer'[i][k].type = "connect"
        PROVE  k \in DOMAIN toServer[i] /\ toServer'[i][k] = toServer[i][k]
    BY <1>3, <2>1, <2>2, <2>3, AppendProperties
  <2>4. link[i] # "acked" \/ \A k \in DOMAIN toServer[i] : toServer[i][k].type # "connect"
    BY <1>3 DEF Good, Sequence
  <2>5. Sequence(i)'
    BY <1>1, <1>2, <1>3, <2>2, <2>3 DEF Good, Sequence
  <2>6. Reached(i)'
    <3>. SUFFICES ASSUME ~stale[i], server[i].stays, connack[i] # "absent"
                  PROVE  Agrees(server[i].subscriptions, toServer'[i], current[i], doubled[i])
      BY <1>1, <1>2, <2>2 DEF Reached
    <3>1. Agrees(server[i].subscriptions, toServer[i], current[i], doubled[i])
      BY <1>3 DEF Good, Reached
    <3>2. Agrees(server[i].subscriptions, Append(toServer[i], p), current[i], doubled[i])
      BY <1>3, <2>1, <3>1, NothingTouchedAgrees
    <3>. QED BY <2>2, <3>1, <3>2
  <2>7. Opening(i)' /\ InForce(i)'
    BY <2>2 DEF Opening, InForce
  <2>. QED BY <2>5, <2>6, <2>7 DEF Good
<1>. QED BY <1>4, <1>5

\* A deploy that changes the subscriptions of the open sessions.
LEMMA HotReloadGood ==
  ASSUME Inv, NEW m \in Mappings, Deploy(m), ~MustReconnect(m), NEW i \in Instances
  PROVE  Good(i)'
<1>. DEFINE q == toServer[i]
            r == Resubscribe(current[i], m.subscriptions)
            have == server[i].subscriptions
<1>1. HotReload(m) /\ mapping' = m /\ UNCHANGED <<session, connack, server>>
  BY DEF Deploy
<1>2. /\ link' = link /\ kept'[i] \subseteq kept[i]
      /\ doubled'[i] = doubled[i] \cup Doubled(m.subscriptions)
      /\ stale'[i] = (stale[i] \/ (link[i] = "closing" /\ current[i] # m.subscriptions))
      /\ current'[i] = IF link[i] # "down" THEN m.subscriptions ELSE current[i]
      /\ toServer'[i] = IF link[i] \in {"down", "closing"} THEN q ELSE q \o r
  BY <1>1 DEF HotReload, Open, Sent, Inv, TypeOK
<1>3. /\ Good(i) /\ q \in Seq(Packets) /\ current[i] \in Current /\ Mappings # {}
      /\ m.subscriptions \in Current
  BY TypeOKIs DEF Inv, Current
<1>4. CASE link[i] \in {"down", "closing"}
  <2>1. Sequence(i)' /\ Opening(i)' /\ InForce(i)'
    BY <1>1, <1>2, <1>3, <1>4 DEF Good, Sequence, Opening, InForce
  <2>2. Reached(i)'
    <3>. SUFFICES ASSUME ~stale'[i], server[i].stays, connack[i] # "absent"
                  PROVE  Agrees(have, q, current'[i], doubled'[i])
      BY <1>1, <1>2, <1>4 DEF Reached
    <3>1. ~stale[i] /\ current'[i] = current[i]
      BY <1>2, <1>4
    <3>2. Agrees(have, q, current[i], doubled[i])
      BY <1>3, <3>1 DEF Good, Reached
    <3>. QED BY <1>2, <3>1, <3>2 DEF Agrees
  <2>. QED BY <2>1, <2>2 DEF Good
<1>5. CASE link[i] \notin {"down", "closing"}
  <2>1. toServer'[i] = q \o r /\ current'[i] = m.subscriptions /\ stale'[i] = stale[i]
    <3>1. toServer'[i] = q \o r /\ current'[i] = m.subscriptions
      BY <1>2, <1>5
    <3>2. stale[i] \in BOOLEAN
      BY DEF Inv, TypeOK
    <3>3. stale'[i] = (stale[i] \/ FALSE)
      BY <1>2, <1>5
    <3>. QED BY <3>1, <3>2, <3>3
  <2>2. \A k \in DOMAIN (q \o r) : (q \o r)[k].type = "connect" => k \in DOMAIN q /\ q[k] = (q \o r)[k]
    <3>. HIDE DEF q, r
    <3>1. r \in Seq(Packets) /\ \A k \in DOMAIN r : r[k].type # "connect"
      BY <1>3, ResubscribeSends DEF r
    <3>. QED BY <1>3, <3>1, StillConnecting
  <2>3. Sequence(i)'
    <3>. HIDE DEF r
    <3>. QED BY <1>1, <1>2, <1>3, <1>5, <2>1, <2>2 DEF Good, Sequence
  <2>4. Reached(i)'
    <3>. SUFFICES ASSUME ~stale[i], server[i].stays \/ link[i] = "acked", connack[i] # "absent"
                  PROVE  Agrees(have, q \o r, m.subscriptions, doubled[i] \cup Doubled(m.subscriptions))
      BY <1>1, <1>2, <2>1 DEF Reached
    <3>1. Agrees(have, q, current[i], doubled[i])
      BY <1>3 DEF Good, Reached
    <3>. QED BY <1>3, <3>1, ResubscribeAgrees
  <2>5. Opening(i)'
    <3>. SUFFICES ASSUME link[i] = "connected"
                  PROVE  /\ Connecting(q) => Within({}, q \o r, m.subscriptions)
                         /\ connack[i] = "absent" => Within(have, q \o r, m.subscriptions)
      BY <1>1, <1>2, <2>1, <2>2 DEF Opening, Connecting
    <3>1. /\ Connecting(q) => Within({}, q, current[i])
          /\ connack[i] = "absent" => Within(have, q, current[i])
      BY <1>3 DEF Good, Opening
    <3>. QED BY <1>3, <3>1, ResubscribeWithin
  <2>6. InForce(i)'
    BY <1>1, <2>1 DEF InForce
  <2>. QED BY <2>3, <2>4, <2>5, <2>6 DEF Good
<1>. QED BY <1>4, <1>5

LEMMA NextInv == Inv /\ [Next]_vars => Inv'
<1>. SUFFICES ASSUME Inv, [Next]_vars PROVE \A j \in Instances : Good(j)'
  BY TypesNext DEF Inv
<1>0. TypeOK /\ \A j \in Instances : Good(j)
  BY DEF Inv
<1>1. ASSUME NEW i \in Instances, Connect(i), NEW j \in Instances PROVE Good(j)'
  <2>1. CASE j = i
    BY <1>1, <2>1, ConnectGood
  <2>2. CASE j # i
    BY <1>0, <1>1, <2>2, Untouched DEF Connect, TypeOK
  <2>. QED BY <2>1, <2>2
<1>2. ASSUME NEW i \in Instances, OnConnack(i), NEW j \in Instances PROVE Good(j)'
  <2>1. CASE j = i
    BY <1>2, <2>1, OnConnackGood
  <2>2. CASE j # i
    <3>1. kept'[j] = kept[j] /\ doubled'[j] = doubled[j] /\ stale'[j] = stale[j]
      <4>1. CASE connack[i] = "present"
        BY <1>0, <1>2, <2>2, <4>1 DEF OnConnack, TypeOK
      <4>2. CASE connack[i] # "present"
        BY <1>0, <1>2, <2>2, <4>2 DEF OnConnack, TypeOK
      <4>. QED BY <4>1, <4>2
    <3>2. /\ link'[j] = link[j] /\ connack'[j] = connack[j] /\ toServer'[j] = toServer[j]
          /\ UNCHANGED <<mapping, failed, session, current, server>>
      BY <1>0, <1>2, <2>2 DEF OnConnack, TypeOK
    <3>. QED BY <1>0, <3>1, <3>2, Untouched
  <2>. QED BY <2>1, <2>2
<1>3. ASSUME NEW i \in Instances, Closed(i) \/ Dropped(i) \/ ServerRefuses(i), NEW j \in Instances PROVE Good(j)'
  <2>0. Disconnected(i)
    BY <1>3 DEF Closed, Dropped, ServerRefuses
  <2>1. CASE j = i
    BY <2>0, <2>1, DisconnectedGood
  <2>2. CASE j # i
    BY <1>0, <2>0, <2>2, Untouched DEF Disconnected, TypeOK
  <2>. QED BY <2>1, <2>2
<1>4. ASSUME NEW i \in Instances, ServerReceives(i), NEW j \in Instances PROVE Good(j)'
  <2>1. CASE j = i
    BY <1>4, <2>1, ServerReceivesGood
  <2>2. CASE j # i
    <3>. PICK p : p = Head(toServer[i])
      OBVIOUS
    <3>1. /\ toServer' = [toServer EXCEPT ![i] = Tail(@)]
          /\ UNCHANGED <<mapping, failed, link, session, current, kept, doubled, stale>>
      BY <1>0, <1>4, ServerReceivesIs
    <3>2. server'[j] = server[j] /\ connack'[j] = connack[j]
      <4>1. CASE p.type = "connect"
        <5>1. OnConnect(i, p.clean)
          BY <1>0, <1>4, <4>1, ServerReceivesIs
        <5>. QED BY <1>0, <2>2, <5>1 DEF OnConnect, TypeOK
      <4>2. CASE p.type # "connect"
        <5>1. server' = [server EXCEPT ![i].subscriptions =
                           HandledFirst(server[i].subscriptions, p)] /\ connack' = connack
          BY <1>0, <1>4, <4>2, ServerReceivesIs
        <5>. QED BY <1>0, <2>2, <5>1 DEF TypeOK
      <4>. QED BY <4>1, <4>2
    <3>3. toServer'[j] = toServer[j]
      BY <1>0, <2>2, <3>1 DEF TypeOK
    <3>. QED BY <1>0, <3>1, <3>2, <3>3, Untouched
  <2>. QED BY <2>1, <2>2
<1>5. ASSUME NEW m \in Mappings, Deploy(m), NEW j \in Instances PROVE Good(j)'
  BY <1>5, ReconnectGood, HotReloadGood
<1>6. ASSUME NEW m \in Mappings, DeployFails(m), NEW j \in Instances PROVE Good(j)'
  BY <1>0, <1>6, Untouched DEF DeployFails
<1>7. CASE UNCHANGED vars
  BY <1>0, <1>7, Untouched DEF vars
<1>. QED BY <1>1, <1>2, <1>3, <1>4, <1>5, <1>6, <1>7 DEF Next

LEMMA InitInv == Init => Inv
<1>. SUFFICES ASSUME Init, NEW i \in Instances PROVE Good(i)
  BY TypesInit DEF Inv
<1>1. Sequence(i) /\ Opening(i) /\ InForce(i)
  BY DEF Init, Sequence, Opening, InForce
<1>2. Reached(i)
  BY DEF Init, Reached
<1>. QED BY <1>1, <1>2 DEF Good

LEMMA Invariant == Spec => []Inv
<1>. QED BY InitInv, NextInv, PTL DEF Spec

\* mqttintegrator: when nothing is on its way, the server of a clean session, and
\* of a kept one of which no change was missed, has exactly the subscriptions of
\* the mapping in force, those apart whose topic a mapping had more than once.
THEOREM SubscribedAsDeployed == Spec => []SubscribedAsMapped
<1>1. Inv => SubscribedAsMapped
  <2>. SUFFICES ASSUME Inv, ~failed, NEW i \in Instances, Settled(i), session[i].clean \/ ~stale[i]
                PROVE  AsMapped(i)
    BY DEF SubscribedAsMapped
  <2>1. link[i] = "acked" /\ toServer[i] = <<>> /\ Good(i)
    BY DEF Settled, Inv
  <2>2. ~stale[i] /\ connack[i] = "none" /\ current[i] = mapping.subscriptions
    BY <2>1 DEF Good, Sequence, InForce
  <2>3. Agrees(server[i].subscriptions, <<>>, mapping.subscriptions, doubled[i])
    BY <2>1, <2>2 DEF Good, Reached
  <2>4. \A x : x.topic \notin doubled[i] =>
          (x \in server[i].subscriptions <=> x \in ToSet(mapping.subscriptions))
    BY <2>3, NothingOnItsWay DEF Agrees
  <2>. QED BY <2>4 DEF AsMapped
<1>. QED BY <1>1, Invariant, PTL

\* mqttintegrator: a topic that all mappings have in common since the session was
\* accepted is subscribed at every moment, or its SUBSCRIBE is on its way: a hot
\* reload interrupts no subscription that stays.
THEOREM NotInterrupted == Spec => []Uninterrupted
<1>1. Inv => Uninterrupted
  <2>. SUFFICES ASSUME Inv, NEW i \in Instances, link[i] = "acked",
                       NEW s \in kept[i], s.topic \notin doubled[i]
                PROVE  \/ s \in server[i].subscriptions
                       \/ \E packet \in ToSet(toServer[i]) :
                            packet.type = "subscribe" /\ s \in ToSet(packet.subscriptions)
    BY DEF Uninterrupted
  <2>1. Good(i) /\ toServer[i] \in Seq(Packets) /\ s \in ToSet(current[i])
    BY TypeOKIs DEF Inv, TypeOK
  <2>2. ~stale[i] /\ connack[i] = "none"
    BY <2>1 DEF Good, Sequence
  <2>3. InEffect(s, server[i].subscriptions, toServer[i])
    BY <2>1, <2>2 DEF Good, Reached, Agrees
  <2>4. ASSUME NEW k \in DOMAIN toServer[i], Gives(toServer[i][k], s)
        PROVE  \E packet \in ToSet(toServer[i]) :
                 packet.type = "subscribe" /\ s \in ToSet(packet.subscriptions)
    <3>1. toServer[i][k] \in Packets /\ toServer[i][k] \in ToSet(toServer[i])
      BY <2>1 DEF ToSet
    <3>2. toServer[i][k].type = "subscribe" /\ toServer[i][k].subscriptions \in Lists
      BY <2>4, <3>1 DEF Gives, Packets
    <3>3. s \in ToSet(toServer[i][k].subscriptions)
      BY <2>4, <3>2, ListIs, LastingIs DEF Gives
    <3>. QED BY <3>1, <3>2, <3>3
  <2>. QED BY <2>3, <2>4 DEF InEffect
<1>. QED BY <1>1, Invariant, PTL

-----------------------------------------------------------------------------
(* The connection section.                                                 *)

\* A deploy with another connection section disconnects every open session; one
\* with the same section leaves them open; one that fails taints them.
LEMMA OpenNext == TypeOK /\ ConnectedAsMapped /\ [Next]_vars => ConnectedAsMapped'
<1>. SUFFICES ASSUME TypeOK, ConnectedAsMapped, [Next]_vars PROVE ConnectedAsMapped'
  OBVIOUS
<1>1. ASSUME NEW i \in Instances, Connect(i) PROVE ConnectedAsMapped'
  BY <1>1 DEF Connect, TypeOK, ConnectedAsMapped
<1>2. ASSUME NEW i \in Instances, OnConnack(i) PROVE ConnectedAsMapped'
  <2>1. link[i] = "connected" /\ link' = [link EXCEPT ![i] = "acked"]
        /\ UNCHANGED <<mapping, session, tainted>>
    BY <1>2 DEF OnConnack
  <2>. QED BY <2>1 DEF TypeOK, ConnectedAsMapped
<1>3. ASSUME NEW i \in Instances, Closed(i) \/ Dropped(i) \/ ServerRefuses(i) PROVE ConnectedAsMapped'
  <2>1. link' = [link EXCEPT ![i] = "down"] /\ UNCHANGED <<mapping, session, tainted>>
    BY <1>3 DEF Closed, Dropped, ServerRefuses, Disconnected
  <2>. QED BY <2>1 DEF TypeOK, ConnectedAsMapped
<1>4. CASE UNCHANGED <<mapping, link, session, tainted>>
  BY <1>4 DEF ConnectedAsMapped
<1>5. ASSUME NEW i \in Instances, ServerReceives(i) PROVE ConnectedAsMapped'
  BY <1>4, <1>5 DEF ServerReceives
<1>6. ASSUME NEW m \in Mappings, Deploy(m) PROVE ConnectedAsMapped'
  <2>1. mapping' = m /\ session' = session /\ tainted' = tainted
    BY <1>6 DEF Deploy
  <2>2. CASE MustReconnect(m)
    <3>1. link' = [i \in Instances |-> IF link[i] # "down" THEN "closing" ELSE link[i]]
      BY <1>6, <2>2 DEF Deploy, Reconnect, Open
    <3>. QED BY <3>1 DEF ConnectedAsMapped
  <2>3. CASE ~MustReconnect(m)
    <3>1. link' = link /\ m.connection = mapping.connection
      BY <1>6, <2>3 DEF Deploy, HotReload, MustReconnect
    <3>. QED BY <2>1, <3>1 DEF ConnectedAsMapped
  <2>. QED BY <2>2, <2>3
<1>7. ASSUME NEW m \in Mappings, DeployFails(m) PROVE ConnectedAsMapped'
  <2>1. link' = link /\ tainted' = [i \in Instances |-> tainted[i] \/ link[i] # "down"]
    BY <1>7 DEF DeployFails, Open
  <2>2. \A i \in Instances : link'[i] \in {"connected", "acked"} => tainted'[i] = TRUE
    BY <2>1
  <2>. QED BY <2>2 DEF ConnectedAsMapped
<1>8. CASE UNCHANGED vars
  BY <1>4, <1>8 DEF vars
<1>. QED BY <1>1, <1>2, <1>3, <1>5, <1>6, <1>7, <1>8 DEF Next

\* mqttintegrator: a session that stays open was opened with the connection
\* section in force, unless a deploy failed meanwhile: no hot reload leaves a
\* session behind whose server, credentials or clean_session are old.
THEOREM OpenAsDeployed == Spec => []ConnectedAsMapped
<1>1. Init => ConnectedAsMapped
  BY DEF Init, ConnectedAsMapped
<1>. QED BY <1>1, TypesInit, TypesNext, OpenNext, PTL DEF Spec
=============================================================================
