-------------------------- MODULE MessageStoreProofs -------------------------
(***************************************************************************)
(* Theorems about MessageStore, for all connections, projection files and  *)
(* messages: the loop over a filter decides what MQTT says, but for topics *)
(* that begin with "$"; every insert that a message calls for is done once *)
(* or has failed; and the rows are in the order of the messages.           *)
(***************************************************************************)
EXTENDS MessageStore, FiniteSetTheorems, SequenceTheorems, WellFoundedInduction, TLAPS

-----------------------------------------------------------------------------
(* Topics.                                                                 *)

\* A set of numbers has a least one, which Min chooses.
LEMMA Least ==
  ASSUME NEW S \in SUBSET Nat, S # {}
  PROVE  Min(S) \in S /\ \A y \in S : Min(S) <= y
<1>. DEFINE R == OpToRel(<, Nat)
<1>1. IsWellFoundedOn(R, Nat)
  BY Zenon, NatLessThanWellFounded
<1>2. \A x, y \in Nat : <<y, x>> \in R <=> y < x
  BY DEF OpToRel
<1>. HIDE DEF R
<1>3. PICK x \in S : \A y \in S : <<y, x>> \notin R
  BY <1>1, WFMin
<1>4. ASSUME NEW y \in S PROVE x <= y
  <2>1. x \in Nat /\ y \in Nat
    OBVIOUS
  <2>2. ~(y < x)
    BY <1>2, <1>3, <2>1
  <2>. QED BY <2>1, <2>2
<1>. QED BY <1>4 DEF Min

\* The levels at which the loop over the filter returns.
Returns(filter, topic) ==
  {l \in DOMAIN filter : filter[l] = "#" \/ l > Len(topic) \/ filter[l] \notin {"+", topic[l]}}

\* Level by level: "+" is one level, "#" the rest of the levels or none, and the
\* number of levels is the same without "#".  (A filter with "#" before its end,
\* which the schema of the file does not refuse, matches nothing.)
LEMMA MatchesLevels ==
  ASSUME NEW filter \in Seq(STRING), NEW topic \in Seq(STRING),
         \A l \in DOMAIN topic : topic[l] # "#"
  PROVE  TopicMatches(filter, topic) <=> MatchesByLevel(filter, topic)
<1>. DEFINE at == Returns(filter, topic)
            n == Len(filter)
            fits(l) == l <= Len(topic) /\ filter[l] \in {"+", topic[l]}
<1>1. TopicMatches(filter, topic) <=>
        IF at = {} THEN n = Len(topic) ELSE filter[Min(at)] = "#" /\ Min(at) = n
  BY DEF TopicMatches, Returns
<1>2. n \in Nat /\ Len(topic) \in Nat /\ DOMAIN filter = 1 .. n /\ DOMAIN topic = 1 .. Len(topic)
  OBVIOUS
<1>3. at \in SUBSET Nat /\ at \subseteq 1 .. n
  BY <1>2 DEF Returns
<1>4. \A l \in 1 .. n : l \in at <=> (filter[l] = "#" \/ ~fits(l))
  BY <1>2 DEF Returns
<1>5. \A l \in 1 .. n : fits(l) => filter[l] # "#"
  BY <1>2
<1>6. filter # <<>> <=> n > 0
  BY <1>2
<1>. HIDE DEF at, n
<1>7. CASE n > 0 /\ filter[n] = "#"
  <2>1. n \in at
    BY <1>2, <1>4, <1>7
  <2>2. MatchesByLevel(filter, topic) <=> (Len(topic) >= n - 1 /\ \A l \in 1 .. n - 1 : filter[l] \in {topic[l], "+"})
    BY <1>6, <1>7 DEF MatchesByLevel, n
  <2>3. MatchesByLevel(filter, topic) <=> \A l \in 1 .. n - 1 : fits(l)
    BY <1>2, <2>2
  <2>4. (\A l \in 1 .. n - 1 : fits(l)) <=> \A l \in 1 .. n - 1 : l \notin at
    BY <1>2, <1>4, <1>5
  <2>5. Min(at) \in at /\ \A l \in at : Min(at) <= l
    BY <1>3, <2>1, Least
  <2>6. Min(at) \in Nat /\ 1 <= Min(at) /\ Min(at) <= n
    <3>1. Min(at) \in 1 .. n
      BY <1>3, <2>5
    <3>. QED BY <1>2, <3>1
  <2>7. ASSUME \A l \in 1 .. n - 1 : l \notin at PROVE Min(at) = n
    BY <1>2, <2>5, <2>6, <2>7
  <2>8. ASSUME Min(at) = n, NEW l \in 1 .. n - 1 PROVE l \notin at
    <3>1. l \in Nat /\ l < n
      BY <1>2
    <3>. QED BY <1>2, <2>5, <2>8, <3>1
  <2>. QED BY <1>1, <1>7, <2>1, <2>3, <2>4, <2>7, <2>8
<1>8. CASE ~(n > 0 /\ filter[n] = "#")
  <2>1. MatchesByLevel(filter, topic) <=> (Len(topic) = n /\ \A l \in 1 .. n : filter[l] \in {topic[l], "+"})
    BY <1>6, <1>8 DEF MatchesByLevel, n
  <2>2. ASSUME Len(topic) = n, NEW l \in 1 .. n
        PROVE  filter[l] \in {topic[l], "+"} <=> fits(l)
    <3>1. l <= Len(topic)
      BY <1>2, <2>2
    <3>. QED BY <3>1
  <2>3. (\A l \in 1 .. n : fits(l)) <=> at = {}
    BY <1>3, <1>4, <1>5
  <2>4. ASSUME at # {} PROVE ~(filter[Min(at)] = "#" /\ Min(at) = n)
    <3>1. Min(at) \in at
      BY <1>3, <2>4, Least
    <3>. QED BY <1>2, <1>3, <1>8, <3>1
  <2>5. MatchesByLevel(filter, topic) <=> (Len(topic) = n /\ at = {})
    BY <2>1, <2>2, <2>3
  <2>. QED BY <1>1, <2>4, <2>5
<1>. QED BY <1>7, <1>8

\* mqttstore: a projection's topic filter matches a message's topic exactly when
\* it does in MQTT, unless the filter begins with a wildcard and the topic with
\* "$": MQTT hides such a topic from the filter, and mqttstore does not.
THEOREM MatchesAsInMqtt ==
  ASSUME NEW filter \in Seq(STRING), NEW topic \in Seq(STRING),
         \A l \in DOMAIN topic : topic[l] # "#"
  PROVE  IF Hidden(filter, topic)
         THEN ~Matches(filter, topic) /\ (TopicMatches(filter, topic) <=> MatchesByLevel(filter, topic))
         ELSE TopicMatches(filter, topic) <=> Matches(filter, topic)
BY MatchesLevels DEF Matches

-----------------------------------------------------------------------------
(* The order of the file.                                                  *)

Ordered(order, S) ==
  /\ Cardinality(S) \in Nat
  /\ order \in [1 .. Cardinality(S) -> S]
  /\ \A i, j \in 1 .. Cardinality(S) : i < j => order[i] < order[j]
  /\ \A x \in S : \E j \in 1 .. Cardinality(S) : order[j] = x

\* There is a way to put places in order, and all of them are in it.
LEMMA InOrderIs ==
  ASSUME NEW n \in Nat, NEW S \in SUBSET (1 .. n)
  PROVE  Ordered(InOrder(S), S)
<1>. PICK order : order = InOrder(S)
  OBVIOUS
<1>. DEFINE c == Cardinality(S)
            upTo(x) == {y \in S : y <= x}
            rank == [x \in S |-> Cardinality(upTo(x))]
<1>1. IsFiniteSet(S) /\ c \in Nat /\ \A x \in S : x \in Nat
  <2>1. \A x \in S : x \in Nat /\ x <= n
    OBVIOUS
  <2>2. IsFiniteSet(S)
    BY <2>1, FS_BoundedSetOfNaturals
  <2>. QED BY <2>1, <2>2, FS_CardinalityType
<1>2. IsFiniteSet(1 .. c) /\ Cardinality(1 .. c) = c
  BY <1>1, FS_Interval
<1>3. ASSUME NEW x \in S PROVE IsFiniteSet(upTo(x)) /\ rank[x] \in 1 .. c
  <2>1. upTo(x) \in SUBSET S /\ x \in upTo(x)
    BY <1>1
  <2>2. IsFiniteSet(upTo(x)) /\ Cardinality(upTo(x)) <= c /\ Cardinality(upTo(x)) \in Nat
    BY <1>1, <2>1, FS_Subset, FS_CardinalityType
  <2>3. Cardinality(upTo(x)) # 0
    BY <2>1, <2>2, FS_EmptySet
  <2>. QED BY <1>1, <2>2, <2>3
<1>4. ASSUME NEW x \in S, NEW y \in S, x < y PROVE rank[x] < rank[y]
  <2>1. upTo(x) \in SUBSET upTo(y) /\ y \in upTo(y) /\ y \notin upTo(x)
    <3>1. x \in Nat /\ y \in Nat
      BY <1>1
    <3>2. \A z \in S : z <= x => z <= y
      BY <1>1, <1>4, <3>1
    <3>3. upTo(x) \in SUBSET upTo(y)
      BY <3>2
    <3>4. y <= y /\ ~(y <= x)
      BY <1>4, <3>1
    <3>. QED BY <3>3, <3>4
  <2>2. Cardinality(upTo(x)) <= Cardinality(upTo(y)) /\ Cardinality(upTo(x)) # Cardinality(upTo(y))
    BY <1>3, <2>1, FS_Subset
  <2>3. rank[x] \in Nat /\ rank[y] \in Nat
    BY <1>1, <1>3
  <2>. QED BY <2>2, <2>3
<1>5. rank \in Injection(S, 1 .. c)
  <2>1. rank \in [S -> 1 .. c]
    BY <1>3
  <2>2. ASSUME NEW x \in S, NEW y \in S, rank[x] = rank[y] PROVE x = y
    <3>1. ~(x < y) /\ ~(y < x)
      <4>1. rank[x] \in Nat /\ rank[y] \in Nat
        BY <1>1, <1>3
      <4>. HIDE DEF rank
      <4>. QED BY <1>4, <2>2, <4>1
    <3>. QED BY <1>1, <3>1
  <2>. HIDE DEF rank
  <2>. QED BY <2>1, <2>2 DEF Injection, IsInjective
<1>6. \A j \in 1 .. c : \E x \in S : rank[x] = j
  <2>. HIDE DEF rank, c
  <2>1. rank \in Surjection(S, 1 .. c)
    BY <1>2, <1>5, FS_Injection DEF c
  <2>. QED BY <2>1 DEF Surjection
<1>. DEFINE g == [j \in 1 .. c |-> CHOOSE x \in S : rank[x] = j]
<1>. HIDE DEF rank
<1>7. g \in [1 .. c -> S] /\ \A j \in 1 .. c : rank[g[j]] = j
  BY <1>6
<1>8. \A i, j \in DOMAIN g : i < j => g[i] < g[j]
  <2>. SUFFICES ASSUME NEW i \in 1 .. c, NEW j \in 1 .. c, i < j, ~(g[i] < g[j]) PROVE FALSE
    BY <1>7
  <2>. HIDE DEF g
  <2>1. g[i] \in S /\ g[j] \in S /\ rank[g[i]] = i /\ rank[g[j]] = j
    BY <1>7
  <2>2. i \in Nat /\ j \in Nat /\ g[i] \in Nat /\ g[j] \in Nat
    <3>1. g[i] \in Nat /\ g[j] \in Nat
      BY <1>1, <2>1
    <3>. QED BY <1>1, <3>1
  <2>3. g[i] = g[j] \/ g[j] < g[i]
    BY <2>2
  <2>4. g[j] < g[i] => j < i
    BY <1>4, <2>1
  <2>. QED BY <2>1, <2>2, <2>3, <2>4
<1>. HIDE DEF g
<1>9. order \in [1 .. c -> S] /\ \A i, j \in DOMAIN order : i < j => order[i] < order[j]
  BY <1>7, <1>8 DEF InOrder
<1>10. order \in Injection(1 .. c, S)
  <2>1. ASSUME NEW i \in 1 .. c, NEW j \in 1 .. c, order[i] = order[j] PROVE i = j
    <3>1. i \in Nat /\ j \in Nat /\ DOMAIN order = 1 .. c
      BY <1>1, <1>9
    <3>2. order[i] \in S
      BY <1>9
    <3>3. order[i] \in Nat
      BY <1>1, <3>2
    <3>4. ~(i < j) /\ ~(j < i)
      BY <1>9, <2>1, <3>1, <3>3
    <3>. QED BY <3>1, <3>4
  <2>. QED BY <1>9, <2>1 DEF Injection, IsInjective
<1>11. order \in Surjection(1 .. c, S)
  <2>. HIDE DEF c
  <2>. QED BY <1>1, <1>2, <1>10, FS_Injection DEF c
<1>12. \A x \in S : \E j \in 1 .. c : order[j] = x
  BY <1>11 DEF Surjection
<1>. QED BY <1>1, <1>9, <1>12 DEF Ordered

-----------------------------------------------------------------------------
(* Statements.                                                             *)

LEMMA StatementIs ==
  /\ \A n : Raw(n) # Create /\ Raw(n).n = n /\ Raw(n).table = "raw"
  /\ \A l, p, n, values :
       LET s == Projected(l, p, n, values)
       IN s # Create /\ s.n = n /\ s.place = l /\ \A m : s # Raw(m)
<1>1. \A n : Raw(n) # Create /\ Raw(n).n = n /\ Raw(n).table = "raw"
  <2>. SUFFICES ASSUME NEW n PROVE Raw(n) # Create /\ Raw(n).n = n /\ Raw(n).table = "raw"
    OBVIOUS
  <2>1. DOMAIN Raw(n) = {"table", "n"} /\ DOMAIN Create = {"table"}
    BY DEF Raw, Create
  <2>. QED BY <2>1 DEF Raw
<1>2. ASSUME NEW l, NEW p, NEW n, NEW values, NEW s, s = Projected(l, p, n, values)
      PROVE  s # Create /\ s.n = n /\ s.place = l /\ \A m : s # Raw(m)
  <2>1. DOMAIN s = {"table", "n", "place", "values"} /\ DOMAIN Create = {"table"}
        /\ \A m : DOMAIN Raw(m) = {"table", "n"}
    BY <1>2 DEF Projected, Raw, Create
  <2>2. "place" \in DOMAIN s /\ "place" \notin DOMAIN Create /\ \A m : "place" \notin DOMAIN Raw(m)
    BY <2>1
  <2>. QED BY <1>2, <2>2 DEF Projected
<1>. QED BY <1>1, <1>2

\* What a message calls for are inserts.
LEMMA CalledForIs ==
  ASSUME NEW n, NEW s \in CalledFor(n)
  PROVE  s # Create
<1>1. s = Raw(n) \/ \E l, p, values : s = Projected(l, p, n, values)
  BY Zenon DEF CalledFor, Inserts
<1>2. CASE s = Raw(n)
  BY <1>2, StatementIs
<1>3. CASE \E l, p, values : s = Projected(l, p, n, values)
  <2>1. PICK l, p, values : s = Projected(l, p, n, values)
    BY <1>3
  <2>. QED BY <2>1, StatementIs
<1>. QED BY <1>1, <1>2, <1>3

\* An insert that can be built, and its columns.
Kept(columns, message) ==
  {c \in DOMAIN columns : HasValue(columns[c], message) \/ columns[c].required}

Values(columns, message) ==
  [c \in Kept(columns, message) |-> IF HasValue(columns[c], message) THEN "value" ELSE "NULL"]

LEMMA BuildIs ==
  ASSUME NEW p, NEW message
  PROVE  /\ BuildProjectionInsert(p, message) # Skipped
              <=> Kept(p.columns, message) # {} /\ \A c \in DOMAIN p.columns : ~Refused(p.columns[c])
         /\ BuildProjectionInsert(p, message) # Skipped
              => BuildProjectionInsert(p, message) = Values(p.columns, message)
<1>. DEFINE columns == p.columns
            kept == Kept(columns, message)
            good == kept # {} /\ \A c \in DOMAIN columns : ~Refused(columns[c])
<1>1. kept = {c \in DOMAIN columns : columns[c].required \/ HasValue(columns[c], message)}
  BY DEF Kept
<1>2. good => BuildProjectionInsert(p, message) = Values(columns, message)
  BY <1>1 DEF BuildProjectionInsert, Values
<1>3. ~good => BuildProjectionInsert(p, message) = Skipped
  BY <1>1 DEF BuildProjectionInsert
<1>4. Values(columns, message) # Skipped
  <2>1. "error" \in DOMAIN Skipped /\ Skipped["error"] = "skipped"
    BY DEF Skipped
  <2>2. \A c \in DOMAIN Values(columns, message) : Values(columns, message)[c] # "skipped"
    BY DEF Values
  <2>. QED BY <2>1, <2>2
<1>. QED BY <1>2, <1>3, <1>4

LEMMA PlanIs ==
  ASSUME NEW plan \in Plans
  PROVE  /\ Len(plan) \in Nat /\ DOMAIN plan = 1 .. Len(plan)
         /\ \A l \in DOMAIN plan : plan[l].topic \in Seq(STRING)
<1>1. CASE plan = <<>>
  BY <1>1
<1>2. CASE plan # <<>>
  <2>1. plan \in Seq(ToSet(plan)) /\ \A p \in ToSet(plan) : p.topic \in Seq(STRING)
    BY <1>2, FilesAssumption DEF Plans
  <2>. QED BY <2>1 DEF ToSet
<1>. QED BY <1>1, <1>2

\* What store puts into the queue.
Places(plan, message) ==
  {l \in DOMAIN plan : /\ message.json
                       /\ TopicMatches(plan[l].topic, message.topic)
                       /\ BuildProjectionInsert(plan[l], message) # Skipped}

LEMMA InsertsIs ==
  ASSUME NEW plan \in Plans, NEW message \in Messages, NEW n, NEW r,
         r.plan = plan, r.message = message
  PROVE  Inserts(n, r) = {Raw(n)} \cup
           {Projected(l, plan[l], n, BuildProjectionInsert(plan[l], message)) : l \in Places(plan, message)}
<1>. DEFINE called == {m \in DOMAIN plan :
                         /\ message.json
                         /\ MatchesByLevel(plan[m].topic, message.topic)
                         /\ \A c \in DOMAIN plan[m].columns : ~ Refused(plan[m].columns[c])
                         /\ Kept(plan[m].columns, message) # {}}
<1>1. Inserts(n, r) = {Raw(n)} \cup {Projected(l, plan[l], n, Values(plan[l].columns, message)) : l \in called}
  BY DEF Inserts, Kept, Values
<1>2. ASSUME NEW l \in DOMAIN plan
      PROVE  TopicMatches(plan[l].topic, message.topic) <=> MatchesByLevel(plan[l].topic, message.topic)
  <2>1. message.topic \in Seq(STRING \ {"#"})
    BY MessagesAssumption
  <2>2. message.topic \in Seq(STRING) /\ \A j \in DOMAIN message.topic : message.topic[j] # "#"
    BY <2>1
  <2>3. plan[l].topic \in Seq(STRING)
    BY PlanIs
  <2>. QED BY <2>2, <2>3, MatchesLevels
<1>3. called = Places(plan, message)
  BY <1>2, BuildIs DEF Places
<1>4. \A l \in called : BuildProjectionInsert(plan[l], message) = Values(plan[l].columns, message)
  BY <1>3, BuildIs DEF Places
<1>. HIDE DEF called
<1>. QED BY <1>1, <1>3, <1>4

\* Each insert once; the raw insert of a message first.
Once(q) == \A i, j \in DOMAIN q : q[i] = q[j] /\ q[i] # Create => i = j

RawFirst(q, done) ==
  \A j \in DOMAIN q : q[j] # Create /\ q[j] # Raw(q[j].n) =>
    \/ Raw(q[j].n) \in done
    \/ \E i \in DOMAIN q : i < j /\ q[i] = Raw(q[j].n)

LEMMA StoreIs ==
  ASSUME TypeOK, NEW k \in Connections, NEW message \in Messages,
         NEW n \in 1 .. MaxReceived, NEW r,
         r.plan = storagePlan[k], r.message = message,
         NEW new, new = Store(k, n, message)
  PROVE  /\ new \in Seq(Statements \ {Create})
         /\ ToSet(new) = Inserts(n, r)
         /\ \A s \in ToSet(new) : s.n = n
         /\ Once(new)
         /\ RawFirst(new, {})
<1>. PICK plan \in Plans : plan = storagePlan[k]
  BY DEF TypeOK
<1>. DEFINE places == Places(plan, message)
            c == Cardinality(places)
<1>. PICK order : order = InOrder(places)
  OBVIOUS
<1>. DEFINE item(j) == Projected(order[j], plan[order[j]], n, BuildProjectionInsert(plan[order[j]], message))
            items == [j \in 1 .. c |-> item(j)]
<1>1. Len(plan) \in Nat /\ DOMAIN plan = 1 .. Len(plan) /\ places \in SUBSET (1 .. Len(plan))
  BY PlanIs DEF Places
<1>2. /\ c \in Nat /\ order \in [1 .. c -> places]
      /\ \A i, j \in 1 .. c : i < j => order[i] < order[j]
      /\ \A x \in places : \E j \in 1 .. c : order[j] = x
  <2>. HIDE DEF places
  <2>1. Ordered(InOrder(places), places)
    BY <1>1, InOrderIs
  <2>. QED BY <2>1 DEF Ordered
<1>3. StoreProjections(k, n, message) = items
  <2>1. places = {l \in (IF message.json THEN Match(storagePlan[k], message.topic) ELSE {}) :
                    BuildProjectionInsert(storagePlan[k][l], message) # Skipped}
    BY DEF Places, Match
  <2>2. StoreProjections(k, n, message) = ProjectedAt(k, n, message, places)
    BY <2>1 DEF StoreProjections
  <2>. HIDE DEF places
  <2>3. DOMAIN order = 1 .. c
    BY <1>2
  <2>. QED BY <2>2, <2>3 DEF ProjectedAt
<1>4. \A x \in places : x \in 1 .. Len(plan)
  BY <1>1
<1>. HIDE DEF places
<1>5. ASSUME NEW j \in 1 .. c
      PROVE  item(j) \in Statements \ {Create} /\ item(j).n = n /\ item(j).place = order[j]
             /\ \A m : item(j) # Raw(m)
  <2>1. order[j] \in places /\ order[j] \in DOMAIN plan
    BY <1>1, <1>2, <1>4
  <2>2. item(j) \in Statements
    BY <2>1 DEF Statements
  <2>. QED BY <2>2, StatementIs
<1>6. Raw(n) \in Statements \ {Create} /\ Raw(n).n = n
  BY StatementIs DEF Statements
<1>. HIDE DEF item
<1>7. items \in Seq(Statements \ {Create}) /\ Len(items) = c
  BY <1>2, <1>5
<1>8. new = <<Raw(n)>> \o items
  BY <1>3 DEF Store
<1>. HIDE DEF c, items
<1>9. /\ new \in Seq(Statements \ {Create}) /\ DOMAIN new = 1 .. c + 1
      /\ new[1] = Raw(n) /\ \A j \in 1 .. c : new[j + 1] = items[j]
  BY <1>2, <1>6, <1>7, <1>8
<1>10. \A j \in 1 .. c : new[j + 1] = item(j)
  BY <1>9 DEF items
<1>11. \A j \in DOMAIN new : j = 1 \/ (j - 1 \in 1 .. c /\ j = (j - 1) + 1)
  BY <1>2, <1>9
<1>12. ToSet(new) = {Raw(n)} \cup {item(j) : j \in 1 .. c}
  <2>1. 1 \in DOMAIN new /\ \A j \in 1 .. c : j + 1 \in DOMAIN new
    BY <1>2, <1>9
  <2>2. \A j \in DOMAIN new : new[j] \in {Raw(n)} \cup {item(i) : i \in 1 .. c}
    BY <1>9, <1>10, <1>11
  <2>. QED BY <1>9, <1>10, <2>1, <2>2 DEF ToSet
<1>13. ToSet(new) = Inserts(n, r)
  <2>1. Inserts(n, r) = {Raw(n)} \cup
           {Projected(l, plan[l], n, BuildProjectionInsert(plan[l], message)) : l \in places}
    BY InsertsIs DEF places
  <2>2. {item(j) : j \in 1 .. c} =
           {Projected(l, plan[l], n, BuildProjectionInsert(plan[l], message)) : l \in places}
    BY <1>2 DEF item
  <2>. QED BY <1>12, <2>1, <2>2
<1>14. \A s \in ToSet(new) : s.n = n
  BY <1>5, <1>6, <1>12
<1>15. Once(new)
  <2>. SUFFICES ASSUME NEW i \in DOMAIN new, NEW j \in DOMAIN new, new[i] = new[j] PROVE i = j
    BY DEF Once
  <2>1. CASE i = 1 \/ j = 1
    BY <1>5, <1>9, <1>10, <1>11, <2>1
  <2>2. CASE i # 1 /\ j # 1
    <3>. PICK a \in 1 .. c, b \in 1 .. c : i = a + 1 /\ j = b + 1
      BY <1>11, <2>2
    <3>1. order[a] = order[b]
      BY <1>5, <1>10
    <3>2. order[a] \in Nat /\ a \in Nat /\ b \in Nat
      <4>1. order[a] \in places
        BY <1>2
      <4>2. order[a] \in Nat
        BY <1>1, <1>4, <4>1
      <4>. QED BY <1>2, <4>2
    <3>3. ~(a < b) /\ ~(b < a)
      BY <1>2, <3>1, <3>2
    <3>. QED BY <3>2, <3>3
  <2>. QED BY <2>1, <2>2
<1>16. RawFirst(new, {})
  <2>. SUFFICES ASSUME NEW j \in DOMAIN new, new[j] # Raw(new[j].n)
                PROVE  \E i \in DOMAIN new : i < j /\ new[i] = Raw(new[j].n)
    BY DEF RawFirst
  <2>1. new[j].n = n /\ j # 1
    BY <1>9, <1>14, <1>6 DEF ToSet
  <2>2. 1 \in DOMAIN new /\ 1 < j
    BY <1>2, <1>9, <2>1
  <2>. QED BY <1>9, <2>1, <2>2
<1>. QED BY <1>9, <1>13, <1>14, <1>15, <1>16

-----------------------------------------------------------------------------
(* Types.                                                                  *)

LEMMA ExitTypes ==
  ASSUME TypeOK, Exit
  PROVE  TypeOK'
<1>1. Queued \subseteq Statements
  BY DEF Queued, TypeOK
<1>2. /\ running' = FALSE /\ UNCHANGED <<rawTable, received, rows>>
      /\ session' \in [Connections -> {"closed", "connecting", "subscribed", "leaving"}]
      /\ storagePlan' \in [Connections -> Plans]
      /\ \A k \in Connections : session'[k] = "closed" /\ statements'[k] = <<>>
      /\ failed' \subseteq Statements
  BY <1>1 DEF Exit, TypeOK, Plans
<1>3. statements' \in [Connections -> Seq(Statements)]
  BY DEF Exit
<1>. QED BY <1>2, <1>3 DEF TypeOK

LEMMA FactoryTypes ==
  ASSUME TypeOK, NEW k \in Connections, NEW file \in Files \cup {Malformed},
         SocketContextFactoryCreate(k, file)
  PROVE  TypeOK'
<1>1. CASE Throws(file)
  BY <1>1, ExitTypes DEF SocketContextFactoryCreate
<1>2. CASE ~Throws(file)
  <2>1. /\ running = TRUE /\ UNCHANGED <<running, rawTable, received, rows, failed>>
        /\ session' = [session EXCEPT ![k] = "connecting"]
        /\ storagePlan' = [storagePlan EXCEPT ![k] = file]
        /\ statements' = [statements EXCEPT ![k] = Constructed]
    BY <1>2 DEF SocketContextFactoryCreate, TypeOK
  <2>2. file \in Plans
    BY <1>2 DEF Throws, Plans
  <2>3. Constructed \in Seq(Statements)
    <3>1. PICK s \in Statements : s = Create
      BY DEF Statements
    <3>2. <<s>> \in Seq(Statements) /\ <<>> \in Seq(Statements)
      OBVIOUS
    <3>. QED BY <3>1, <3>2 DEF Constructed
  <2>. HIDE DEF Constructed
  <2>. QED BY <2>1, <2>2, <2>3 DEF TypeOK
<1>. QED BY <1>1, <1>2

\* A message takes the next place in received.
LEMMA PublishIs ==
  ASSUME TypeOK, NEW k \in Connections, NEW message \in Messages, OnPublish(k, message),
         NEW n, n = Len(received) + 1,
         NEW r, r = [connection |-> k, message |-> message, plan |-> storagePlan[k]]
  PROVE  /\ n \in 1 .. MaxReceived
         /\ received' \in Seq([connection : Connections, message : Messages, plan : Plans])
         /\ DOMAIN received = 1 .. n - 1 /\ DOMAIN received' = 1 .. n
         /\ received'[n] = r /\ \A m \in 1 .. n - 1 : received'[m] = received[m]
<1>1. received' = Append(received, r) /\ Len(received) < MaxReceived
  BY DEF OnPublish
<1>2. r \in [connection : Connections, message : Messages, plan : Plans]
  BY DEF TypeOK
<1>3. received \in Seq([connection : Connections, message : Messages, plan : Plans])
  BY DEF TypeOK
<1>. QED BY <1>1, <1>2, <1>3, AppendProperties, BoundsAssumption

LEMMA PublishTypes ==
  ASSUME TypeOK, NEW k \in Connections, NEW message \in Messages, OnPublish(k, message)
  PROVE  TypeOK'
<1>. PICK n : n = Len(received) + 1
  OBVIOUS
<1>. PICK r : r = [connection |-> k, message |-> message, plan |-> storagePlan[k]]
  OBVIOUS
<1>. PICK new : new = Store(k, n, message)
  OBVIOUS
<1>1. /\ n \in 1 .. MaxReceived /\ DOMAIN received' = 1 .. n
      /\ received' \in Seq([connection : Connections, message : Messages, plan : Plans])
  BY PublishIs
<1>2. new \in Seq(Statements)
  <2>1. new \in Seq(Statements \ {Create})
    BY <1>1, StoreIs
  <2>. QED BY <2>1, SeqMonotonic
<1>3. /\ statements' = [statements EXCEPT ![k] = @ \o new]
      /\ UNCHANGED <<running, session, storagePlan, rawTable, rows, failed>>
      /\ session[k] # "closed"
  BY DEF OnPublish
<1>4. statements' \in [Connections -> Seq(Statements)]
  <2>1. statements[k] \o new \in Seq(Statements)
    BY <1>2, ConcatProperties DEF TypeOK
  <2>. QED BY <1>3, <2>1 DEF TypeOK
<1>5. Len(received') <= MaxReceived
  <2>1. Len(received') = n
    BY <1>1
  <2>. QED BY <1>1, <2>1
<1>6. running
  BY <1>3 DEF TypeOK
<1>. QED BY <1>1, <1>3, <1>4, <1>5, <1>6 DEF TypeOK

\* A statement leaves the queue: what it does to the rows and to what failed.
Taken(k, h) ==
  /\ statements[k] # <<>> /\ h = Head(statements[k])
  /\ statements' = [statements EXCEPT ![k] = Tail(@)]
  /\ UNCHANGED <<running, session, storagePlan, received>>
  /\ \/ h = Create /\ rawTable' = TRUE /\ rows' = rows /\ failed' = failed
     \/ h # Create /\ rawTable' = rawTable /\ rows' = Append(rows, h) /\ failed' = failed
     \/ rawTable' = rawTable /\ rows' = rows /\ failed' = failed \cup {h}

LEMMA ExecutedOrFailed ==
  ASSUME TypeOK, NEW k \in Connections, Executed(k) \/ Failed(k)
  PROVE  \E h \in Statements : Taken(k, h)
<1>1. statements[k] # <<>> /\ statements[k] \in Seq(Statements)
  BY DEF Executed, Failed, TypeOK
<1>2. PICK h \in Statements : h = Head(statements[k])
  BY <1>1, HeadTailProperties
<1>. QED BY <1>2 DEF Executed, Failed, Taken

LEMMA TakenTypes ==
  ASSUME TypeOK, NEW k \in Connections, NEW h \in Statements, Taken(k, h)
  PROVE  TypeOK'
<1>1. statements[k] # <<>> /\ statements[k] \in Seq(Statements)
  BY DEF Taken, TypeOK
<1>2. Tail(statements[k]) \in Seq(Statements)
  BY <1>1, HeadTailProperties
<1>3. statements' \in [Connections -> Seq(Statements)]
  BY <1>2 DEF Taken, TypeOK
<1>4. running
  BY <1>1 DEF TypeOK
<1>5. /\ UNCHANGED <<running, session, storagePlan, received>>
      /\ rawTable' \in BOOLEAN /\ failed' \subseteq Statements
      /\ rows' \in Seq(Statements \ {Create})
  <2>1. h # Create => Append(rows, h) \in Seq(Statements \ {Create})
    BY AppendProperties DEF TypeOK
  <2>. QED BY <2>1 DEF Taken, TypeOK
<1>. QED BY <1>3, <1>4, <1>5 DEF TypeOK

LEMMA TypesNext == TypeOK /\ [Next]_vars => TypeOK'
<1>. SUFFICES ASSUME TypeOK, [Next]_vars PROVE TypeOK'
  OBVIOUS
<1>1. ASSUME Start PROVE TypeOK'
  BY <1>1 DEF Start, TypeOK
<1>2. ASSUME Crash PROVE TypeOK'
  BY <1>2, ExitTypes DEF Crash
<1>3. ASSUME NEW k \in Connections, NEW subscribes \in BOOLEAN, OnConnack(k, subscribes) PROVE TypeOK'
  BY <1>3 DEF OnConnack, TypeOK
<1>4. ASSUME NEW k \in Connections, OnDisconnected(k) PROVE TypeOK'
  BY <1>4 DEF OnDisconnected, TypeOK, Plans
<1>5. CASE UNCHANGED vars
  BY <1>5 DEF vars, TypeOK
<1>. QED BY <1>1, <1>2, <1>3, <1>4, <1>5, FactoryTypes, PublishTypes, ExecutedOrFailed, TakenTypes DEF Next

LEMMA TypesInit == Init => TypeOK
<1>. SUFFICES ASSUME Init PROVE TypeOK
  OBVIOUS
<1>1. statements \in [Connections -> Seq(Statements)] /\ storagePlan \in [Connections -> Plans]
  BY DEF Init, Plans
<1>2. received \in Seq([connection : Connections, message : Messages, plan : Plans])
      /\ Len(received) <= MaxReceived /\ rows \in Seq(Statements \ {Create})
  BY BoundsAssumption DEF Init
<1>. QED BY <1>1, <1>2 DEF Init, TypeOK

-----------------------------------------------------------------------------
(* Queues.                                                                 *)

\* The inserts of later messages stand behind those of earlier ones.
Ascends(q) ==
  \A i, j \in DOMAIN q : i < j => q[j] # Create /\ (q[i] # Create => q[i].n <= q[j].n)

LEMMA TailIs ==
  ASSUME NEW S, NEW q \in Seq(S), q # <<>>
  PROVE  /\ Len(q) \in Nat \ {0} /\ DOMAIN q = 1 .. Len(q) /\ DOMAIN Tail(q) = 1 .. Len(q) - 1
         /\ Head(q) = q[1]
         /\ \A i \in 1 .. Len(q) - 1 : Tail(q)[i] = q[i + 1]
BY HeadTailProperties

LEMMA TailSet ==
  ASSUME NEW S, NEW q \in Seq(S), q # <<>>
  PROVE  ToSet(q) = {Head(q)} \cup ToSet(Tail(q))
<1>1. /\ Len(q) \in Nat \ {0} /\ DOMAIN q = 1 .. Len(q) /\ DOMAIN Tail(q) = 1 .. Len(q) - 1
      /\ Head(q) = q[1]
      /\ \A i \in 1 .. Len(q) - 1 : Tail(q)[i] = q[i + 1]
  BY TailIs
<1>2. \A i \in DOMAIN q : i = 1 \/ (i - 1 \in DOMAIN Tail(q) /\ q[i] = Tail(q)[i - 1])
  BY <1>1
<1>3. 1 \in DOMAIN q /\ \A i \in DOMAIN Tail(q) : i + 1 \in DOMAIN q /\ Tail(q)[i] = q[i + 1]
  BY <1>1
<1>4. ASSUME NEW i \in DOMAIN q PROVE q[i] \in {Head(q)} \cup ToSet(Tail(q))
  BY <1>1, <1>2 DEF ToSet
<1>5. Head(q) \in ToSet(q) /\ \A i \in DOMAIN Tail(q) : Tail(q)[i] \in ToSet(q)
  BY <1>1, <1>3 DEF ToSet
<1>. QED BY <1>4, <1>5 DEF ToSet

LEMMA TailOnce ==
  ASSUME NEW S, NEW q \in Seq(S), q # <<>>, Once(q)
  PROVE  Once(Tail(q)) /\ (Head(q) # Create => Head(q) \notin ToSet(Tail(q)))
<1>1. /\ DOMAIN Tail(q) \subseteq Nat /\ Head(q) = q[1]
      /\ 1 \in DOMAIN q
      /\ \A i \in DOMAIN Tail(q) : i \in Nat \ {0} /\ i + 1 \in DOMAIN q /\ Tail(q)[i] = q[i + 1]
  BY TailIs
<1>2. ASSUME NEW i \in DOMAIN Tail(q), NEW j \in DOMAIN Tail(q), Tail(q)[i] = Tail(q)[j], Tail(q)[i] # Create
      PROVE  i = j
  <2>1. i + 1 = j + 1
    BY <1>1, <1>2 DEF Once
  <2>. QED BY <1>1, <2>1
<1>3. ASSUME NEW i \in DOMAIN Tail(q), Tail(q)[i] = Head(q), Head(q) # Create PROVE FALSE
  <2>1. i + 1 = 1
    BY <1>1, <1>3 DEF Once
  <2>. QED BY <1>1, <2>1
<1>. QED BY <1>2, <1>3 DEF Once, ToSet

LEMMA TailAscends ==
  ASSUME NEW S, NEW q \in Seq(S), q # <<>>, Ascends(q)
  PROVE  /\ Ascends(Tail(q))
         /\ \A s \in ToSet(Tail(q)) : s # Create /\ (Head(q) # Create => Head(q).n <= s.n)
<1>1. /\ Head(q) = q[1] /\ 1 \in DOMAIN q
      /\ \A i \in DOMAIN Tail(q) : i \in Nat \ {0} /\ i + 1 \in DOMAIN q /\ i + 1 > 1 /\ Tail(q)[i] = q[i + 1]
  BY TailIs
<1>2. ASSUME NEW i \in DOMAIN Tail(q), NEW j \in DOMAIN Tail(q), i < j
      PROVE  Tail(q)[j] # Create /\ (Tail(q)[i] # Create => Tail(q)[i].n <= Tail(q)[j].n)
  <2>1. i + 1 < j + 1
    BY <1>1, <1>2
  <2>. QED BY <1>1, <2>1 DEF Ascends
<1>3. ASSUME NEW i \in DOMAIN Tail(q)
      PROVE  Tail(q)[i] # Create /\ (Head(q) # Create => Head(q).n <= Tail(q)[i].n)
  <2>1. 1 < i + 1
    BY <1>1
  <2>. QED BY <1>1, <2>1 DEF Ascends
<1>. QED BY <1>2, <1>3 DEF Ascends, ToSet

LEMMA TailRawFirst ==
  ASSUME NEW S, NEW q \in Seq(S), q # <<>>, NEW done, NEW more, RawFirst(q, done),
         done \subseteq more, Head(q) # Create => Head(q) \in more
  PROVE  RawFirst(Tail(q), more)
<1>1. /\ Head(q) = q[1] /\ 1 \in DOMAIN q
      /\ \A i \in DOMAIN Tail(q) : i \in Nat /\ i + 1 \in DOMAIN q /\ Tail(q)[i] = q[i + 1]
      /\ \A i \in DOMAIN q : i \in Nat /\ (i = 1 \/ (i - 1 \in DOMAIN Tail(q) /\ Tail(q)[i - 1] = q[i]))
  BY TailIs
<1>. SUFFICES ASSUME NEW j \in DOMAIN Tail(q), NEW s, s = Tail(q)[j], s # Create, s # Raw(s.n),
                     Raw(s.n) \notin more
              PROVE  \E i \in DOMAIN Tail(q) : i < j /\ Tail(q)[i] = Raw(s.n)
  BY DEF RawFirst
<1>2. PICK i \in DOMAIN q : i < j + 1 /\ q[i] = Raw(s.n)
  BY <1>1 DEF RawFirst
<1>3. i # 1
  BY <1>1, <1>2, StatementIs
<1>4. i - 1 \in DOMAIN Tail(q) /\ Tail(q)[i - 1] = q[i] /\ i - 1 < j
  BY <1>1, <1>2, <1>3
<1>. QED BY <1>2, <1>4

LEMMA HeadRawFirst ==
  ASSUME NEW S, NEW q \in Seq(S), q # <<>>, NEW done, RawFirst(q, done),
         Head(q) # Create, Head(q) # Raw(Head(q).n)
  PROVE  Raw(Head(q).n) \in done
<1>1. Head(q) = q[1] /\ 1 \in DOMAIN q /\ \A i \in DOMAIN q : i \in Nat /\ ~(i < 1)
  BY TailIs
<1>. QED BY <1>1 DEF RawFirst

LEMMA ConcatIs ==
  ASSUME NEW S, NEW q \in Seq(S), NEW r \in Seq(S)
  PROVE  /\ \A i \in DOMAIN (q \o r) : i \in Nat
         /\ \A i \in DOMAIN (q \o r) :
              \/ i \in DOMAIN q /\ (q \o r)[i] = q[i]
              \/ i - Len(q) \in DOMAIN r /\ (q \o r)[i] = r[i - Len(q)]
         /\ \A i \in DOMAIN q : i \in DOMAIN (q \o r) /\ (q \o r)[i] = q[i]
                                /\ i \in Nat /\ i <= Len(q)
         /\ \A i \in DOMAIN r : i + Len(q) \in DOMAIN (q \o r) /\ (q \o r)[i + Len(q)] = r[i]
                                /\ i \in Nat \ {0}
         /\ Len(q) \in Nat
<1>1. /\ Len(q) \in Nat /\ Len(r) \in Nat /\ DOMAIN q = 1 .. Len(q) /\ DOMAIN r = 1 .. Len(r)
      /\ DOMAIN (q \o r) = 1 .. Len(q) + Len(r)
      /\ \A i \in 1 .. Len(q) + Len(r) : (q \o r)[i] = IF i <= Len(q) THEN q[i] ELSE r[i - Len(q)]
  BY ConcatProperties, LenProperties
<1>2. ASSUME NEW i \in DOMAIN (q \o r)
      PROVE  /\ i \in Nat
             /\ \/ i \in DOMAIN q /\ (q \o r)[i] = q[i]
                \/ i - Len(q) \in DOMAIN r /\ (q \o r)[i] = r[i - Len(q)]
  BY <1>1
<1>3. ASSUME NEW i \in DOMAIN q
      PROVE  i \in DOMAIN (q \o r) /\ (q \o r)[i] = q[i] /\ i \in Nat /\ i <= Len(q)
  BY <1>1
<1>4. ASSUME NEW i \in DOMAIN r
      PROVE  i + Len(q) \in DOMAIN (q \o r) /\ (q \o r)[i + Len(q)] = r[i] /\ i \in Nat \ {0}
  BY <1>1
<1>. QED BY <1>1, <1>2, <1>3, <1>4

LEMMA ConcatSet ==
  ASSUME NEW S, NEW q \in Seq(S), NEW r \in Seq(S)
  PROVE  ToSet(q \o r) = ToSet(q) \cup ToSet(r)
BY ConcatIs DEF ToSet

LEMMA ConcatOnce ==
  ASSUME NEW S, NEW q \in Seq(S), NEW r \in Seq(S), Once(q), Once(r),
         \A s \in ToSet(q) : s # Create => s \notin ToSet(r)
  PROVE  Once(q \o r)
<1>. DEFINE qr == q \o r
<1>. SUFFICES ASSUME NEW i \in DOMAIN qr, NEW j \in DOMAIN qr, qr[i] = qr[j], qr[i] # Create PROVE i = j
  BY DEF Once
<1>1. i \in Nat /\ j \in Nat /\ Len(q) \in Nat
  BY ConcatIs
<1>2. CASE i \in DOMAIN q /\ qr[i] = q[i] /\ j \in DOMAIN q /\ qr[j] = q[j]
  BY <1>2 DEF Once
<1>3. CASE /\ i - Len(q) \in DOMAIN r /\ qr[i] = r[i - Len(q)]
           /\ j - Len(q) \in DOMAIN r /\ qr[j] = r[j - Len(q)]
  <2>1. i - Len(q) = j - Len(q)
    BY <1>3 DEF Once
  <2>. QED BY <1>1, <2>1
<1>4. CASE \/ i \in DOMAIN q /\ qr[i] = q[i] /\ j - Len(q) \in DOMAIN r /\ qr[j] = r[j - Len(q)]
           \/ j \in DOMAIN q /\ qr[j] = q[j] /\ i - Len(q) \in DOMAIN r /\ qr[i] = r[i - Len(q)]
  BY <1>4 DEF ToSet
<1>. HIDE DEF qr
<1>5. (i \in DOMAIN q /\ qr[i] = q[i]) \/ (i - Len(q) \in DOMAIN r /\ qr[i] = r[i - Len(q)])
  BY ConcatIs DEF qr
<1>6. (j \in DOMAIN q /\ qr[j] = q[j]) \/ (j - Len(q) \in DOMAIN r /\ qr[j] = r[j - Len(q)])
  BY ConcatIs DEF qr
<1>. QED BY <1>2, <1>3, <1>4, <1>5, <1>6

LEMMA ConcatAscends ==
  ASSUME NEW S, NEW q \in Seq(S), NEW r \in Seq(S), NEW n \in Nat, Ascends(q),
         \A s \in ToSet(q) : s # Create => s.n \in Nat /\ s.n <= n,
         \A s \in ToSet(r) : s # Create /\ s.n = n
  PROVE  Ascends(q \o r)
<1>. DEFINE qr == q \o r
<1>. SUFFICES ASSUME NEW i \in DOMAIN qr, NEW j \in DOMAIN qr, i < j
              PROVE  qr[j] # Create /\ (qr[i] # Create => qr[i].n <= qr[j].n)
  BY DEF Ascends
<1>1. i \in Nat /\ j \in Nat /\ Len(q) \in Nat
  BY ConcatIs
<1>2. CASE i \in DOMAIN q /\ qr[i] = q[i] /\ j \in DOMAIN q /\ qr[j] = q[j]
  BY <1>2 DEF Ascends
<1>3. ASSUME j - Len(q) \in DOMAIN r, qr[j] = r[j - Len(q)]
      PROVE  qr[j] # Create /\ qr[j].n = n
  BY <1>3 DEF ToSet
<1>4. ASSUME i \in DOMAIN q, qr[i] = q[i] PROVE qr[i] # Create => qr[i].n \in Nat /\ qr[i].n <= n
  BY <1>4 DEF ToSet
<1>5. ASSUME i - Len(q) \in DOMAIN r, qr[i] = r[i - Len(q)]
      PROVE  qr[i].n = n
  BY <1>5 DEF ToSet
<1>6. ASSUME i - Len(q) \in DOMAIN r, j \in DOMAIN q PROVE FALSE
  <2>1. i - Len(q) \in Nat \ {0} /\ j <= Len(q)
    BY <1>6, ConcatIs
  <2>. QED BY <1>1, <2>1
<1>. HIDE DEF qr
<1>7. /\ (i \in DOMAIN q /\ qr[i] = q[i]) \/ (i - Len(q) \in DOMAIN r /\ qr[i] = r[i - Len(q)])
      /\ (j \in DOMAIN q /\ qr[j] = q[j]) \/ (j - Len(q) \in DOMAIN r /\ qr[j] = r[j - Len(q)])
  BY ConcatIs DEF qr
<1>. QED BY <1>2, <1>3, <1>4, <1>5, <1>6, <1>7

LEMMA ConcatRawFirst ==
  ASSUME NEW S, NEW q \in Seq(S), NEW r \in Seq(S), NEW done, RawFirst(q, done), RawFirst(r, {})
  PROVE  RawFirst(q \o r, done)
<1>. DEFINE qr == q \o r
<1>. SUFFICES ASSUME NEW j \in DOMAIN qr, NEW s, s = qr[j], s # Create, s # Raw(s.n), Raw(s.n) \notin done
              PROVE  \E i \in DOMAIN qr : i < j /\ qr[i] = Raw(s.n)
  BY DEF RawFirst
<1>1. CASE j \in DOMAIN q /\ qr[j] = q[j]
  <2>1. PICK i \in DOMAIN q : i < j /\ q[i] = Raw(s.n)
    BY <1>1 DEF RawFirst
  <2>2. i \in DOMAIN qr /\ qr[i] = q[i]
    BY ConcatIs
  <2>. QED BY <2>1, <2>2
<1>2. CASE j - Len(q) \in DOMAIN r /\ qr[j] = r[j - Len(q)]
  <2>1. PICK i \in DOMAIN r : i < j - Len(q) /\ r[i] = Raw(s.n)
    BY <1>2 DEF RawFirst
  <2>2. i + Len(q) \in DOMAIN qr /\ qr[i + Len(q)] = r[i] /\ i \in Nat /\ Len(q) \in Nat /\ j \in Nat
    BY ConcatIs
  <2>3. i + Len(q) < j
    BY <2>1, <2>2
  <2>. QED BY <2>1, <2>2, <2>3
<1>. HIDE DEF qr
<1>3. (j \in DOMAIN q /\ qr[j] = q[j]) \/ (j - Len(q) \in DOMAIN r /\ qr[j] = r[j - Len(q)])
  BY ConcatIs DEF qr
<1>. QED BY <1>1, <1>2, <1>3

-----------------------------------------------------------------------------
(* The inductive invariant.                                                *)

Waits(k) == ToSet(statements[k])

Done == failed \cup ToSet(rows)

\* What is done, waits or has failed is called for by a received message.
Known(s) == s.n \in DOMAIN received /\ s \in CalledFor(s.n)

AllKnown ==
  /\ \A s \in Done : s # Create => Known(s)
  /\ \A k \in Connections : \A s \in Waits(k) : s # Create => Known(s)

\* It is that only once.
OnlyOnce ==
  /\ \A i, j \in DOMAIN rows : rows[i] = rows[j] => i = j
  /\ \A k \in Connections : Once(statements[k])
  /\ \A k, m \in Connections : k # m => \A s \in Waits(k) : s # Create => s \notin Waits(m)
  /\ \A k \in Connections : \A s \in Waits(k) : s # Create => s \notin Done
  /\ \A s \in failed : s \notin ToSet(rows)

\* And what is called for is.
AllThere ==
  \A n \in DOMAIN received : \A s \in CalledFor(n) :
    s \in Done \/ \E k \in Connections : s \in Waits(k)

\* The queue of a connection has the inserts of its messages, in their order,
\* and none that a row should have come before.
Of(s) == received[s.n].connection

InTurn ==
  /\ \A k \in Connections : \A s \in Waits(k) : s # Create => Of(s) = k
  /\ \A k \in Connections : Ascends(statements[k])
  /\ \A k \in Connections : \A s \in Waits(k) : s # Create =>
       \A x \in ToSet(rows) : Of(x) = k => x.n <= s.n
  /\ \A k \in Connections : RawFirst(statements[k], Done)

Inv == TypeOK /\ AllKnown /\ OnlyOnce /\ AllThere /\ InTurn /\ RowsInOrder

LEMMA Same ==
  ASSUME Inv, UNCHANGED <<statements, received, rows, failed>>, TypeOK'
  PROVE  Inv'
<1>1. AllKnown'
  BY DEF Inv, AllKnown, Known, CalledFor, Done, Waits
<1>2. OnlyOnce'
  BY DEF Inv, OnlyOnce, Done, Waits
<1>3. AllThere'
  BY DEF Inv, AllThere, CalledFor, Done, Waits
<1>4. InTurn'
  BY DEF Inv, InTurn, Of, Done, Waits
<1>5. RowsInOrder'
  BY DEF Inv, RowsInOrder
<1>. QED BY <1>1, <1>2, <1>3, <1>4, <1>5 DEF Inv

\* With the process go the queues: what was in them has failed.
LEMMA ExitInv ==
  ASSUME Inv, Exit, TypeOK'
  PROVE  Inv'
<1>1. /\ UNCHANGED <<received, rows>> /\ failed' = failed \cup Queued
      /\ \A k \in Connections : statements'[k] = <<>>
  BY DEF Exit
<1>2. \A s : s \in Queued <=> \E k \in Connections : s \in Waits(k)
  BY DEF Queued, Waits, ToSet
<1>3. \A k \in Connections : Waits(k)' = {}
  BY <1>1 DEF Waits, ToSet
<1>4. \A s : s \in Done' <=> s \in Done \/ \E k \in Connections : s \in Waits(k)
  BY <1>1, <1>2 DEF Done
<1>5. AllKnown'
  BY <1>1, <1>3, <1>4 DEF Inv, AllKnown, Known, CalledFor
<1>6. OnlyOnce'
  <2>1. \A k \in Connections : Once(statements'[k])
    BY <1>1 DEF Once
  <2>2. \A s \in failed' : s \notin ToSet(rows)
    <3>1. Create \notin ToSet(rows)
      BY DEF Inv, TypeOK, ToSet
    <3>. QED BY <1>1, <1>2, <3>1 DEF Inv, OnlyOnce, Done
  <2>3. \A i, j \in DOMAIN rows' : rows'[i] = rows'[j] => i = j
    BY <1>1 DEF Inv, OnlyOnce
  <2>. QED BY <1>1, <1>3, <2>1, <2>2, <2>3 DEF OnlyOnce
<1>7. AllThere'
  BY <1>1, <1>4 DEF Inv, AllThere, CalledFor
<1>8. InTurn'
  BY <1>1, <1>3 DEF InTurn, Ascends, RawFirst
<1>9. RowsInOrder'
  BY <1>1 DEF Inv, RowsInOrder
<1>. QED BY <1>5, <1>6, <1>7, <1>8, <1>9 DEF Inv

\* A new storage has CREATE TABLE in its queue, or nothing.
LEMMA FactoryInv ==
  ASSUME Inv, NEW k \in Connections, NEW file \in Files \cup {Malformed},
         SocketContextFactoryCreate(k, file), TypeOK'
  PROVE  Inv'
<1>1. CASE Throws(file)
  BY <1>1, ExitInv DEF SocketContextFactoryCreate
<1>2. CASE ~Throws(file)
  <2>1. /\ statements' = [statements EXCEPT ![k] = Constructed]
        /\ statements[k] = <<>> /\ UNCHANGED <<received, rows, failed>>
    BY <1>2 DEF SocketContextFactoryCreate
  <2>2. Constructed = <<>> \/ Constructed = <<Create>>
    BY DEF Constructed
  <2>3. /\ statements'[k] = Constructed
        /\ \A m \in Connections : m # k => statements'[m] = statements[m]
    BY <2>1 DEF Inv, TypeOK
  <2>4. \A m \in Connections : \A s \in Waits(m)' : s # Create => s \in Waits(m)
    <3>1. \A s \in ToSet(Constructed) : s = Create
      BY <2>2 DEF ToSet
    <3>. QED BY <2>3, <3>1 DEF Waits
  <2>5. \A m \in Connections : \A s \in Waits(m) : s \in Waits(m)'
    <3>1. ToSet(statements[k]) = {}
      BY <2>1 DEF ToSet
    <3>. QED BY <2>3, <3>1 DEF Waits
  <2>6. Done' = Done
    BY <2>1 DEF Done
  <2>7. AllKnown'
    BY <2>1, <2>4, <2>6 DEF Inv, AllKnown, Known, CalledFor
  <2>8. OnlyOnce'
    <3>1. Once(Constructed)
      BY <2>2 DEF Once
    <3>2. \A m \in Connections : Once(statements'[m])
      BY <2>3, <3>1 DEF Inv, OnlyOnce
    <3>. QED BY <2>1, <2>4, <2>6, <3>2 DEF Inv, OnlyOnce
  <2>9. AllThere'
    BY <2>1, <2>5, <2>6 DEF Inv, AllThere, CalledFor
  <2>10. InTurn'
    <3>1. Ascends(Constructed) /\ RawFirst(Constructed, Done)
      BY <2>2 DEF Ascends, RawFirst
    <3>2. \A m \in Connections : Ascends(statements'[m]) /\ RawFirst(statements'[m], Done)
      BY <2>3, <3>1 DEF Inv, InTurn
    <3>. QED BY <2>1, <2>4, <2>6, <3>2 DEF Inv, InTurn, Of
  <2>11. RowsInOrder'
    BY <2>1 DEF Inv, RowsInOrder
  <2>. QED BY <2>7, <2>8, <2>9, <2>10, <2>11 DEF Inv
<1>. QED BY <1>1, <1>2

\* A message: its inserts are new, and stand behind all others.
LEMMA PublishInv ==
  ASSUME Inv, NEW k \in Connections, NEW message \in Messages, OnPublish(k, message), TypeOK'
  PROVE  Inv'
<1>. PICK n : n = Len(received) + 1
  OBVIOUS
<1>. PICK r : r = [connection |-> k, message |-> message, plan |-> storagePlan[k]]
  OBVIOUS
<1>. PICK new : new = Store(k, n, message)
  OBVIOUS
<1>1. /\ n \in 1 .. MaxReceived /\ DOMAIN received = 1 .. n - 1 /\ DOMAIN received' = 1 .. n
      /\ received'[n] = r /\ \A m \in 1 .. n - 1 : received'[m] = received[m]
  BY PublishIs DEF Inv
<1>2. /\ new \in Seq(Statements \ {Create}) /\ ToSet(new) = Inserts(n, r)
      /\ \A s \in ToSet(new) : s.n = n
      /\ Once(new) /\ RawFirst(new, {})
  BY <1>1, StoreIs DEF Inv
<1>3. n \in Nat /\ DOMAIN received' = DOMAIN received \cup {n} /\ n \notin DOMAIN received
      /\ \A m \in DOMAIN received : m \in Nat /\ m <= n /\ m # n
  BY <1>1
<1>4. /\ \A m \in DOMAIN received : CalledFor(m)' = CalledFor(m) /\ received'[m] = received[m]
      /\ CalledFor(n)' = ToSet(new)
  BY <1>1, <1>2 DEF CalledFor
<1>5. /\ statements' = [statements EXCEPT ![k] = @ \o new]
      /\ UNCHANGED <<rows, failed>> /\ Done' = Done
  BY DEF OnPublish, Done
<1>6. /\ statements'[k] = statements[k] \o new
      /\ \A m \in Connections : m # k => statements'[m] = statements[m]
      /\ statements[k] \in Seq(Statements) /\ new \in Seq(Statements)
  BY <1>2, <1>5, SeqMonotonic DEF Inv, TypeOK
<1>7. Waits(k)' = Waits(k) \cup ToSet(new) /\ \A m \in Connections : m # k => Waits(m)' = Waits(m)
  <2>1. ToSet(statements[k] \o new) = ToSet(statements[k]) \cup ToSet(new)
    BY <1>6, ConcatSet
  <2>. QED BY <1>6, <2>1 DEF Waits
<1>8. \A s \in ToSet(new) : s # Create /\ s.n = n
  BY <1>2 DEF ToSet
<1>9. \A s : Known(s) => Known(s)' /\ s \notin ToSet(new) /\ s.n \in Nat /\ s.n <= n
                         /\ Of(s)' = Of(s)
  BY <1>3, <1>4, <1>8 DEF Known, Of
<1>10. AllKnown'
  <2>1. \A s \in ToSet(new) : Known(s)'
    BY <1>3, <1>4, <1>8 DEF Known
  <2>. QED BY <1>5, <1>7, <1>9, <2>1 DEF Inv, AllKnown
<1>11. OnlyOnce'
  <2>1. \A m \in Connections : Once(statements'[m])
    <3>1. Once(statements[k] \o new)
      <4>1. \A s \in ToSet(statements[k]) : s # Create => s \notin ToSet(new)
        BY <1>9 DEF Inv, AllKnown, Waits
      <4>. QED BY <1>2, <1>6, <4>1, ConcatOnce DEF Inv, OnlyOnce
    <3>. QED BY <1>6, <3>1 DEF Inv, OnlyOnce
  <2>2. \A m \in Connections : \A s \in Waits(m)' : s # Create => s \notin Done
    BY <1>7, <1>9 DEF Inv, OnlyOnce, AllKnown
  <2>3. ASSUME NEW m \in Connections, NEW l \in Connections, m # l, NEW s \in Waits(m)', s # Create
        PROVE  s \notin Waits(l)'
    BY <1>7, <1>9, <2>3 DEF Inv, OnlyOnce, AllKnown
  <2>. QED BY <1>5, <2>1, <2>2, <2>3 DEF Inv, OnlyOnce
<1>12. AllThere'
  BY <1>3, <1>4, <1>5, <1>7 DEF Inv, AllThere
<1>13. InTurn'
  <2>1. \A m \in Connections : \A s \in Waits(m)' : s # Create => Of(s)' = m
    <3>1. \A s \in ToSet(new) : Of(s)' = k
      BY <1>1, <1>8 DEF Of
    <3>. QED BY <1>7, <1>9, <3>1 DEF Inv, InTurn, AllKnown
  <2>2. \A m \in Connections : Ascends(statements'[m])
    <3>1. Ascends(statements[k] \o new)
      <4>1. \A s \in ToSet(statements[k]) : s # Create => s.n \in Nat /\ s.n <= n
        BY <1>9 DEF Inv, AllKnown, Waits
      <4>. QED BY <1>3, <1>6, <1>8, <4>1, ConcatAscends DEF Inv, InTurn
    <3>. QED BY <1>6, <3>1 DEF Inv, InTurn
  <2>3. \A m \in Connections : RawFirst(statements'[m], Done)
    <3>1. RawFirst(statements[k] \o new, Done)
      BY <1>2, <1>6, ConcatRawFirst DEF Inv, InTurn
    <3>. QED BY <1>6, <3>1 DEF Inv, InTurn
  <2>4. ASSUME NEW m \in Connections, NEW s \in Waits(m)', s # Create, NEW x \in ToSet(rows), Of(x)' = m
        PROVE  x.n <= s.n
    <3>1. Known(x)
      <4>1. x # Create /\ x \in Done
        BY DEF Inv, TypeOK, ToSet, Done
      <4>. QED BY <4>1 DEF Inv, AllKnown
    <3>2. CASE s \in ToSet(new)
      BY <1>8, <1>9, <3>1, <3>2
    <3>3. CASE s \notin ToSet(new)
      BY <1>7, <1>9, <2>4, <3>1, <3>3 DEF Inv, InTurn
    <3>. QED BY <3>2, <3>3
  <2>. QED BY <1>5, <2>1, <2>2, <2>3, <2>4 DEF InTurn
<1>14. RowsInOrder'
  <2>1. \A j \in DOMAIN rows : Known(rows[j])
    <3>1. \A j \in DOMAIN rows : rows[j] # Create /\ rows[j] \in Done
      BY DEF Inv, TypeOK, ToSet, Done
    <3>. QED BY <3>1 DEF Inv, AllKnown
  <2>2. DOMAIN rows \subseteq Nat /\ \A j \in DOMAIN rows : \A i \in 1 .. j - 1 : i \in DOMAIN rows
    BY DEF Inv, TypeOK
  <2>3. \A j \in DOMAIN rows : received'[rows[j].n] = received[rows[j].n]
    BY <1>4, <2>1 DEF Known
  <2>. QED BY <1>5, <2>2, <2>3 DEF Inv, RowsInOrder
<1>. QED BY <1>10, <1>11, <1>12, <1>13, <1>14 DEF Inv

\* A statement that is executed, or fails, leaves the queue.
LEMMA TakenInv ==
  ASSUME Inv, NEW k \in Connections, NEW h \in Statements, Taken(k, h), TypeOK'
  PROVE  Inv'
<1>. DEFINE q == statements[k]
<1>1. /\ q # <<>> /\ q \in Seq(Statements) /\ h = Head(q)
      /\ statements'[k] = Tail(q)
      /\ \A m \in Connections : m # k => statements'[m] = statements[m]
      /\ UNCHANGED <<received>>
  BY DEF Taken, Inv, TypeOK
<1>2. Waits(k) = {h} \cup Waits(k)' /\ \A m \in Connections : m # k => Waits(m)' = Waits(m)
  <2>1. ToSet(q) = {Head(q)} \cup ToSet(Tail(q))
    BY <1>1, TailSet
  <2>. QED BY <1>1, <2>1 DEF Waits
<1>3. h # Create => h \notin Waits(k)'
  BY <1>1, TailOnce DEF Inv, OnlyOnce, Waits
<1>4. /\ rows \in Seq(Statements \ {Create})
      /\ \/ rows' = rows
         \/ h # Create /\ rows' = Append(rows, h)
  BY DEF Taken, Inv, TypeOK
<1>5. \/ ToSet(rows') = ToSet(rows) /\ failed' = failed /\ h = Create
      \/ h # Create /\ ToSet(rows') = ToSet(rows) \cup {h} /\ failed' = failed
      \/ ToSet(rows') = ToSet(rows) /\ failed' = failed \cup {h}
  <2>1. h # Create => ToSet(Append(rows, h)) = ToSet(rows) \cup {h}
    <3>. SUFFICES ASSUME h # Create PROVE ToSet(Append(rows, h)) = ToSet(rows) \cup {h}
      OBVIOUS
    <3>1. Append(rows, h) = rows \o <<h>> /\ <<h>> \in Seq(Statements \ {Create})
      BY <1>4, AppendIsConcat
    <3>2. ToSet(<<h>>) = {h}
      BY DEF ToSet
    <3>3. ToSet(rows \o <<h>>) = ToSet(rows) \cup ToSet(<<h>>)
      BY <1>4, <3>1, ConcatSet
    <3>. QED BY <3>1, <3>2, <3>3
  <2>. QED BY <2>1 DEF Taken
<1>6. /\ Done \subseteq Done' /\ Done' \subseteq Done \cup {h} /\ (h # Create => h \in Done')
      /\ ToSet(rows') \subseteq ToSet(rows) \cup {h} /\ failed \subseteq failed'
      /\ Create \notin ToSet(rows)
  <2>1. Create \notin ToSet(rows)
    BY <1>4 DEF ToSet
  <2>. QED BY <1>5, <2>1 DEF Done
<1>7. /\ h # Create => Known(h) /\ h \notin Done
      /\ \A s : (Known(s)' <=> Known(s)) /\ Of(s)' = Of(s)
      /\ \A n : CalledFor(n)' = CalledFor(n)
  BY <1>1, <1>2 DEF Inv, AllKnown, OnlyOnce, Known, Of, CalledFor
<1>8. AllKnown'
  BY <1>2, <1>6, <1>7 DEF Inv, AllKnown
<1>9. OnlyOnce'
  <2>1. \A i, j \in DOMAIN rows' : rows'[i] = rows'[j] => i = j
    <3>1. CASE rows' = rows
      BY <3>1 DEF Inv, OnlyOnce
    <3>2. CASE h # Create /\ rows' = Append(rows, h)
      <4>1. /\ Len(rows) \in Nat /\ DOMAIN rows = 1 .. Len(rows)
            /\ DOMAIN rows' = 1 .. Len(rows) + 1
            /\ \A i \in 1 .. Len(rows) : rows'[i] = rows[i]
            /\ rows'[Len(rows) + 1] = h
        BY <1>4, <3>2, AppendProperties
      <4>2. \A i \in DOMAIN rows : rows[i] # h
        BY <1>7, <3>2 DEF Done, ToSet
      <4>3. \A i \in DOMAIN rows' : i \in DOMAIN rows \/ i = Len(rows) + 1
        BY <4>1
      <4>. QED BY <4>1, <4>2, <4>3 DEF Inv, OnlyOnce
    <3>. QED BY <1>4, <3>1, <3>2
  <2>2. \A m \in Connections : Once(statements'[m])
    BY <1>1, TailOnce DEF Inv, OnlyOnce
  <2>3. \A m, l \in Connections : m # l => \A s \in Waits(m)' : s # Create => s \notin Waits(l)'
    BY <1>2 DEF Inv, OnlyOnce
  <2>4. \A m \in Connections : \A s \in Waits(m)' : s # Create => s \notin Done'
    BY <1>2, <1>3, <1>6 DEF Inv, OnlyOnce
  <2>5. \A s \in failed' : s \notin ToSet(rows')
    BY <1>5, <1>6, <1>7 DEF Inv, OnlyOnce, Done
  <2>. QED BY <2>1, <2>2, <2>3, <2>4, <2>5 DEF OnlyOnce
<1>10. AllThere'
  <2>. SUFFICES ASSUME NEW n \in DOMAIN received, NEW s \in CalledFor(n)
                PROVE  s \in Done' \/ \E m \in Connections : s \in Waits(m)'
    BY <1>1, <1>7 DEF AllThere
  <2>1. s # Create
    BY CalledForIs
  <2>. QED BY <1>2, <1>6, <2>1 DEF Inv, AllThere
<1>11. InTurn'
  <2>1. \A m \in Connections : \A s \in Waits(m)' : s # Create => Of(s)' = m
    BY <1>2, <1>7 DEF Inv, InTurn
  <2>2. \A m \in Connections : Ascends(statements'[m])
    BY <1>1, TailAscends DEF Inv, InTurn
  <2>3. \A m \in Connections : RawFirst(statements'[m], Done')
    <3>1. RawFirst(Tail(q), Done')
      BY <1>1, <1>6, TailRawFirst DEF Inv, InTurn
    <3>2. \A m \in Connections : RawFirst(statements[m], Done')
      BY <1>6 DEF Inv, InTurn, RawFirst
    <3>. QED BY <1>1, <3>1, <3>2
  <2>4. ASSUME NEW m \in Connections, NEW s \in Waits(m)', s # Create, NEW x \in ToSet(rows'), Of(x) = m
        PROVE  x.n <= s.n
    <3>1. s \in Waits(m)
      BY <1>2
    <3>2. CASE x \in ToSet(rows)
      BY <2>4, <3>1, <3>2 DEF Inv, InTurn
    <3>3. CASE x \notin ToSet(rows)
      <4>1. x = h /\ h # Create
        BY <1>5, <3>3
      <4>2. Of(h) = k
        BY <1>2, <4>1 DEF Inv, InTurn
      <4>3. s \in ToSet(Tail(q))
        BY <1>1, <2>4, <4>1, <4>2 DEF Waits
      <4>. QED BY <1>1, <4>1, <4>3, TailAscends DEF Inv, InTurn
    <3>. QED BY <3>2, <3>3
  <2>. QED BY <1>7, <2>1, <2>2, <2>3, <2>4 DEF InTurn
<1>12. RowsInOrder'
  <2>1. CASE rows' = rows
    BY <1>1, <1>6, <2>1 DEF Inv, RowsInOrder
  <2>2. CASE h # Create /\ rows' = Append(rows, h)
    <3>1. /\ Len(rows) \in Nat /\ DOMAIN rows = 1 .. Len(rows)
          /\ DOMAIN rows' = 1 .. Len(rows) + 1
          /\ \A i \in 1 .. Len(rows) : rows'[i] = rows[i]
          /\ rows'[Len(rows) + 1] = h
      BY <1>4, <2>2, AppendProperties
    <3>2. ASSUME NEW j \in DOMAIN rows
          PROVE  /\ rows'[j] = rows[j] /\ \A i \in 1 .. j - 1 : i \in DOMAIN rows /\ rows'[i] = rows[i]
      BY <3>1
    <3>3. ASSUME NEW j \in DOMAIN rows
          PROVE  /\ \A i \in 1 .. j - 1 :
                      received[rows'[i].n].connection = received[rows'[j].n].connection
                        => rows'[i].n <= rows'[j].n
                 /\ rows'[j].table # "raw" =>
                      \/ Raw(rows'[j].n) \in failed'
                      \/ \E i \in 1 .. j - 1 : rows'[i] = Raw(rows'[j].n)
      BY <1>6, <3>2 DEF Inv, RowsInOrder
    <3>4. ASSUME NEW i \in DOMAIN rows, received[rows[i].n].connection = received[h.n].connection
          PROVE  rows[i].n <= h.n
      <4>1. Of(h) = k /\ Of(rows[i]) = k /\ h \in Waits(k)
        BY <1>2, <2>2, <3>4 DEF Inv, InTurn, Of
      <4>2. rows[i] \in ToSet(rows)
        BY DEF ToSet
      <4>. QED BY <2>2, <4>1, <4>2 DEF Inv, InTurn
    <3>5. ASSUME h.table # "raw"
          PROVE  Raw(h.n) \in failed' \/ \E i \in DOMAIN rows : rows[i] = Raw(h.n)
      <4>1. h # Raw(h.n)
        BY <3>5, StatementIs
      <4>2. Raw(h.n) \in Done
        BY <1>1, <2>2, <4>1, HeadRawFirst DEF Inv, InTurn
      <4>. QED BY <1>6, <4>2 DEF Done, ToSet
    <3>6. ASSUME NEW j \in DOMAIN rows', j \notin DOMAIN rows
          PROVE  /\ j = Len(rows) + 1 /\ rows'[j] = h
                 /\ \A i \in 1 .. j - 1 : i \in DOMAIN rows /\ rows'[i] = rows[i]
                 /\ \A i \in DOMAIN rows : i \in 1 .. j - 1 /\ rows'[i] = rows[i]
      BY <3>1, <3>6
    <3>7. ASSUME NEW j \in DOMAIN rows', j \notin DOMAIN rows
          PROVE  /\ \A i \in 1 .. j - 1 :
                      received[rows'[i].n].connection = received[rows'[j].n].connection
                        => rows'[i].n <= rows'[j].n
                 /\ rows'[j].table # "raw" =>
                      \/ Raw(rows'[j].n) \in failed'
                      \/ \E i \in 1 .. j - 1 : rows'[i] = Raw(rows'[j].n)
      BY <3>4, <3>5, <3>6, <3>7
    <3>. QED BY <1>1, <3>3, <3>7 DEF RowsInOrder
  <2>. QED BY <1>4, <2>1, <2>2
<1>. QED BY <1>8, <1>9, <1>10, <1>11, <1>12 DEF Inv

LEMMA NextInv == Inv /\ [Next]_vars => Inv'
<1>. SUFFICES ASSUME Inv, [Next]_vars PROVE Inv'
  OBVIOUS
<1>0. TypeOK /\ TypeOK'
  BY TypesNext DEF Inv
<1>1. ASSUME Start PROVE Inv'
  BY <1>0, <1>1, Same DEF Start
<1>2. ASSUME Crash PROVE Inv'
  BY <1>0, <1>2, ExitInv DEF Crash
<1>3. ASSUME NEW k \in Connections, NEW subscribes \in BOOLEAN, OnConnack(k, subscribes) PROVE Inv'
  BY <1>0, <1>3, Same DEF OnConnack
<1>4. ASSUME NEW k \in Connections, OnDisconnected(k) PROVE Inv'
  BY <1>0, <1>4, Same DEF OnDisconnected
<1>5. CASE UNCHANGED vars
  BY <1>0, <1>5, Same DEF vars
<1>. QED BY <1>0, <1>1, <1>2, <1>3, <1>4, <1>5, FactoryInv, PublishInv, ExecutedOrFailed, TakenInv DEF Next

LEMMA InitInv == Init => Inv
<1>. SUFFICES ASSUME Init PROVE Inv
  OBVIOUS
<1>1. /\ \A k \in Connections : statements[k] = <<>> /\ Waits(k) = {}
      /\ received = <<>> /\ rows = <<>> /\ failed = {} /\ Done = {}
  BY DEF Init, Waits, Done, ToSet
<1>2. AllKnown /\ AllThere /\ RowsInOrder
  BY <1>1 DEF AllKnown, AllThere, RowsInOrder
<1>3. OnlyOnce
  BY <1>1 DEF OnlyOnce, Once
<1>4. InTurn
  BY <1>1 DEF InTurn, Ascends, RawFirst, ToSet
<1>. QED BY <1>2, <1>3, <1>4, TypesInit DEF Inv

LEMMA Invariant == Spec => []Inv
<1>. QED BY InitInv, NextInv, PTL DEF Spec

-----------------------------------------------------------------------------
(* The theorems.                                                           *)

\* mqttstore: every reachable state is well typed; a process that does not run has
\* no connections and no statements.
THEOREM TypeCorrect == Spec => []TypeOK
<1>1. Inv => TypeOK
  BY DEF Inv
<1>. QED BY <1>1, Invariant, PTL

\* Each statement waits at one place at most.
LEMMA WaitingIs ==
  ASSUME Inv, NEW s, s # Create
  PROVE  Waiting(s) = IF \E k \in Connections : s \in Waits(k) THEN 1 ELSE 0
<1>. DEFINE At(k) == {k} \X {j \in DOMAIN statements[k] : statements[k][j] = s}
            W == UNION {At(k) : k \in Connections}
<1>1. Waiting(s) = Cardinality(W)
  BY DEF Waiting
<1>2. CASE \E k \in Connections : s \in Waits(k)
  <2>1. PICK k \in Connections : s \in Waits(k)
    BY <1>2
  <2>2. PICK j \in DOMAIN statements[k] : statements[k][j] = s
    BY <2>1 DEF Waits, ToSet
  <2>3. \A i \in DOMAIN statements[k] : statements[k][i] = s => i = j
    BY <2>2 DEF Inv, OnlyOnce, Once
  <2>4. At(k) = {<<k, j>>}
    BY <2>2, <2>3
  <2>5. \A m \in Connections : m # k => At(m) = {}
    BY <2>1 DEF Inv, OnlyOnce, Waits, ToSet
  <2>. HIDE DEF At
  <2>6. W = {<<k, j>>}
    BY <2>4, <2>5
  <2>. QED BY <1>1, <1>2, <2>6, FS_Singleton
<1>3. CASE ~ \E k \in Connections : s \in Waits(k)
  <2>1. \A k \in Connections : At(k) = {}
    BY <1>3 DEF Waits, ToSet
  <2>. HIDE DEF At
  <2>2. W = {}
    BY <2>1
  <2>. QED BY <1>1, <1>3, <2>2, FS_EmptySet
<1>. QED BY <1>2, <1>3

LEMMA RowsOf ==
  ASSUME Inv, NEW s
  PROVE  Cardinality({j \in DOMAIN rows : rows[j] = s}) = IF s \in ToSet(rows) THEN 1 ELSE 0
<1>1. CASE s \in ToSet(rows)
  <2>1. PICK j \in DOMAIN rows : rows[j] = s
    BY <1>1 DEF ToSet
  <2>2. {i \in DOMAIN rows : rows[i] = s} = {j}
    BY <2>1 DEF Inv, OnlyOnce
  <2>. QED BY <1>1, <2>2, FS_Singleton
<1>2. CASE s \notin ToSet(rows)
  <2>1. {i \in DOMAIN rows : rows[i] = s} = {}
    BY <1>2 DEF ToSet
  <2>. QED BY <1>2, <2>1, FS_EmptySet
<1>. QED BY <1>1, <1>2

\* mqttstore: each insert that a message calls for is a row, waits or has failed,
\* and only one of them; no other insert is done.  For all connections, files and
\* messages: no insert is dropped because another one cannot be built or fails.
\* What is called for is by the file of the connection, and by MQTT's matching
\* without its exception for topics that begin with "$".
THEOREM EachStoredOnce == Spec => []StoredAsPlanned
<1>1. Inv => StoredAsPlanned
  <2>. SUFFICES ASSUME Inv PROVE StoredAsPlanned
    OBVIOUS
  <2>1. ASSUME NEW n \in DOMAIN received, NEW s \in CalledFor(n)
        PROVE  Cardinality({j \in DOMAIN rows : rows[j] = s}) + Waiting(s)
                 + (IF s \in failed THEN 1 ELSE 0) = 1
    <3>1. s # Create
      BY CalledForIs
    <3>2. /\ s \in failed \/ s \in ToSet(rows) \/ \E k \in Connections : s \in Waits(k)
          /\ ~(s \in failed /\ s \in ToSet(rows))
          /\ (\E k \in Connections : s \in Waits(k)) => s \notin failed /\ s \notin ToSet(rows)
      BY <3>1 DEF Inv, AllThere, OnlyOnce, Done
    <3>. QED BY <3>1, <3>2, WaitingIs, RowsOf
  <2>2. ASSUME NEW j \in DOMAIN rows PROVE rows[j] \in CalledFor(rows[j].n)
    <3>1. rows[j] # Create /\ rows[j] \in Done
      BY DEF Inv, TypeOK, ToSet, Done
    <3>. QED BY <3>1 DEF Inv, AllKnown, Known
  <2>. QED BY <2>1, <2>2 DEF StoredAsPlanned
<1>. QED BY <1>1, Invariant, PTL

\* mqttstore: the rows of a connection are in the order of its messages, and the raw
\* row of a message comes before those of its projections, or has failed.
THEOREM StoredInOrder == Spec => []RowsInOrder
<1>1. Inv => RowsInOrder
  BY DEF Inv
<1>. QED BY <1>1, Invariant, PTL
=============================================================================
