---------------------------- MODULE TopicMapping ----------------------------
(***************************************************************************)
(* How MqttMapper reads the topic tree of a mapping description: the       *)
(* topics that it subscribes to (extractSubscriptions), the topic level    *)
(* whose rules an incoming message is translated by                        *)
(* (findMatchingTopicLevel), and what they translate it to.  A topic and a *)
(* filter are sequences of what lies between their slashes; the name of a  *)
(* topic level is one string, and may have slashes itself.                 *)
(*                                                                         *)
(* The topic levels of a mapping are numbered in the order of the          *)
(* document, each with the number of the level it is an entry of; 0 stands *)
(* for the mapping itself.                                                 *)
(***************************************************************************)
EXTENDS RuleTranslation

CONSTANTS
  Mappings,       \* topic trees: sequences of topic levels
  NameLevels,     \* what lies between the slashes of a name
  MessageTopics,  \* topics of the messages that clients publish
  Texts,          \* payloads, those that rules make included
  Payloads        \* payloads of the messages that clients publish

\* A topic has at least one level, the empty one included.
Topic == Seq(STRING) \ {<<>>}

\* A topic level is a record of its name, its parent, whether it has a
\* "subscription", and the rules of that.  What lies between an entry and its
\* parent in the document is below the parent.
IsTree(levels) ==
  /\ levels \in Seq(ToSet(levels))
  /\ \A n \in DOMAIN levels :
       /\ levels[n].name \in STRING
       /\ levels[n].parent \in 0 .. n - 1
       /\ \A k \in levels[n].parent + 1 .. n - 1 : levels[k].parent >= levels[n].parent

IsRule(rule) == rule.retain \in BOOLEAN /\ rule.delay \in Int
IsStatic(rule) ==
  /\ IsRule(rule)
  /\ rule.topic \in Topic
  /\ rule.cases \in Seq([message : Texts, mapped : Texts])
IsTemplate(rule) ==
  /\ IsRule(rule)
  /\ rule.topic \in Topic \cup {LastTopic, InjaError, JsonException}
  /\ rule.text \in [Texts -> Texts \cup {InjaError, JsonException}]
AreRules(rules) ==
  /\ DOMAIN rules = {"static", "value", "json"}
  /\ \A kind \in {"static", "value", "json"} : rules[kind] \in Seq(ToSet(rules[kind]))
  /\ \A rule \in ToSet(rules.static) : IsStatic(rule)
  /\ \A rule \in ToSet(rules.value) \cup ToSet(rules.json) : IsTemplate(rule)

ASSUME MappingsAssumption ==
  \A levels \in Mappings :
    /\ IsTree(levels)
    /\ \A n \in DOMAIN levels : AreRules(levels[n].rules) /\ NameLevels[levels[n].name] \in Topic

ASSUME MessagesAssumption ==
  /\ MessageTopics \subseteq Topic
  /\ Payloads \subseteq Texts
  /\ {InjaError, JsonException} \cap (Texts \cup Topic) = {}
  /\ LastTopic \notin Topic

VARIABLES
  mapping,      \* the mapping in force
  subscribed,   \* what the integrator subscribed to
  received,     \* topic of the last message; empty: none yet
  dispatched,   \* the topic level found for it; 0: none
  payload,      \* its payload
  publishes     \* what it is translated to: immediate and scheduled publishes

mapperVars == <<mapping, subscribed, received, dispatched, payload, publishes>>

-----------------------------------------------------------------------------
(* MqttMapper.                                                             *)

\* The names of the topic levels above one, and its own.
Path(levels) ==
  LET path[n \in 0 .. Len(levels)] ==
        IF n = 0 THEN <<>> ELSE Append(path[levels[n].parent], levels[n].name)
  IN path

\* They are joined by slashes, but for the one after a first name "/".
Join(topic, name) ==
  (IF topic = <<"", "">> THEN <<"">> ELSE topic) \o NameLevels[name]

Filter(levels) ==
  LET filter[n \in 0 .. Len(levels)] ==
        IF n = 0 THEN <<>> ELSE Join(filter[levels[n].parent], levels[n].name)
  IN filter

ExtractSubscriptions(levels) ==
  {Filter(levels)[n] : n \in {m \in DOMAIN levels : levels[m].subscription}}

NameMatches(name, level) == name \in {level, "+", "#"}

\* What the first entry has found that has found anything.
FirstFound_Mutant1(found) ==
  LET hits == {m \in DOMAIN found : found[m] # 0}
  IN IF hits = {} THEN 0 ELSE found[Max(hits)]
FirstFound(found) ==
  LET hits == {m \in DOMAIN found : found[m] # 0}
  IN IF hits = {} THEN 0 ELSE found[Min(hits)]

\* search[k][n] looks below the level n for the topic from its k-th level on.
FindMatchingTopicLevel(levels, topic) ==
  LET entries(n) == {m \in DOMAIN levels : levels[m].parent = n}
      search[k \in DOMAIN topic] ==
        [n \in 0 .. Len(levels) |->
           FirstFound([m \in entries(n) |->
             IF ~NameMatches(levels[m].name, topic[k]) THEN 0
             ELSE IF k = Len(topic) THEN m ELSE search[k + 1][m]])]
  IN search[1][0]

-----------------------------------------------------------------------------
(* What MQTT says of topics and filters.                                   *)

Matches(filter, topic) ==
  LET multi == Last(filter) = "#"
      fixed == IF multi THEN Len(filter) - 1 ELSE Len(filter)
  IN /\ IF multi THEN Len(topic) >= fixed ELSE Len(topic) = fixed
     /\ \A k \in 1 .. fixed : filter[k] \in {topic[k], "+"}

-----------------------------------------------------------------------------
MapperInit ==
  /\ mapping \in Mappings
  /\ subscribed = ExtractSubscriptions(mapping)
  /\ received = <<>>
  /\ dispatched = 0
  /\ payload \in Payloads
  /\ publishes = Nothing

\* The rules of the level found; a level without a "subscription" has none.
RulesAt(levels, n) == IF n = 0 \/ ~levels[n].subscription THEN NoRules ELSE levels[n].rules

\* getMappings.
Translate(topic, message) ==
  /\ received' = topic
  /\ payload' = message
  /\ dispatched' = FindMatchingTopicLevel(mapping, topic)
  /\ publishes' = GetMappings(RulesAt(mapping, dispatched'), message)
  /\ UNCHANGED <<mapping, subscribed>>

\* A message that the server delivers to the integrator for a subscription.
OnPublish(topic, message) ==
  /\ \E filter \in subscribed : Matches(filter, topic)
  /\ Translate(topic, message)

MapperNext == \E topic \in MessageTopics, message \in Payloads : OnPublish(topic, message)

MapperSpec == MapperInit /\ [][MapperNext]_mapperVars

-----------------------------------------------------------------------------
(* Properties.                                                             *)

PublishRecord == [topic : Topic, text : Texts, retain : BOOLEAN, delay : Int]
Immediate == {p \in PublishRecord : p.delay < 0}
Delayed == {p \in PublishRecord : p.delay >= 0}

MapperTypeOK ==
  /\ mapping \in Mappings
  /\ received \in Topic \cup {<<>>}
  /\ dispatched \in DOMAIN mapping \cup {0}
  /\ payload \in Texts
  /\ publishes \in [immediate : Seq(Immediate), scheduled : Seq(Delayed)]

\* A topic level matches name by name; "#" stands for one level here, and a
\* name with a slash for none.
Fits(path, topic) ==
  /\ Len(path) = Len(topic)
  /\ \A k \in DOMAIN topic : NameMatches(path[k], topic[k])

\* The search with its early ends gives the first level, in the order of the
\* document, that matches name by name: no message misses an earlier entry, and
\* none is lost because the search goes down into an entry without a match.
FirstInDocument ==
  received # <<>> =>
    LET fitting == {n \in DOMAIN mapping : Fits(Path(mapping)[n], received)}
    IN dispatched = IF fitting = {} THEN 0 ELSE Min(fitting)

\* Rules do not disturb each other: what a level publishes, at once and later,
\* is what each of its rules publishes alone, in the order of the document,
\* also when some rules of it fail to render.
RulesApplyAlone ==
  LET rules == RulesAt(mapping, dispatched)
  IN (received # <<>> /\ SelfContained(rules, payload)) =>
       publishes = EachAlone(rules, payload)

\* "The integrator performs correct wildcard matching when subscribing and
\* dispatching to the defined subscription": a message delivered for a
\* subscription is translated by a level with a "subscription".
DispatchesWhatItSubscribes ==
  received # <<>> =>
    dispatched # 0 /\ mapping[dispatched].subscription
=============================================================================
