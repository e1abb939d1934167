--------------------------- MODULE MCTopicMapping ---------------------------
(* All topic trees of at most two levels with at most two entries each, and *)
(* all topics of at most three levels, over small sets of names; and, below *)
(* one level, lists of rules that publish, suppress and fail.               *)
EXTENDS TopicMapping

CONSTANTS Plain, Document, On, Off   \* two payloads, two texts

Lamp == <<"lamp">>

Level(name, subscription, parent) ==
  [name |-> name, subscription |-> subscription, parent |-> parent, rules |-> NoRules]

\* One or two of a set.
Few(S) == {<<a>> : a \in S} \cup {<<a, b>> : a, b \in S}

\* A level with some leaves, and two of these side by side.
Above(name, subscription, leaves) ==
  <<Level(name, subscription, 0)>> \o [k \in DOMAIN leaves |-> Level(leaves[k], TRUE, 1)]
Beside(left, right) ==
  left \o [k \in DOMAIN right |->
             [right[k] EXCEPT !.parent = IF @ = 0 THEN 0 ELSE @ + Len(left)]]

\* A filter that has levels below "#" is none in MQTT.
Branches(names) ==
  {Above(n, TRUE, <<>>) : n \in names}
    \cup {Above(n, s, leaves) : n \in names \ {"#"}, s \in BOOLEAN, leaves \in Few(names)}
Trees(names) == Branches(names) \cup {Beside(l, r) : l, r \in Branches(names)}

\* Rules.
Case(message, mapped) == [message |-> message, mapped |-> mapped]
StaticRules ==
  {[topic |-> Lamp, retain |-> FALSE, delay |-> -1, cases |-> <<Case(Plain, On), Case(Plain, Off)>>],
   [topic |-> Lamp, retain |-> FALSE, delay |-> 0, cases |-> <<Case(Document, Off)>>]}

Template(topic, delay, plain, document, suppressions) ==
  [topic |-> topic, retain |-> TRUE, delay |-> delay, suppressions |-> suppressions,
   text |-> [p \in Texts |-> IF p = Plain THEN plain ELSE document]]
Templates ==
  {Template(Lamp, -1, On, Empty, {On, Empty}),
   Template(Lamp, 0, On, JsonException, {}),
   Template(Lamp, -1, InjaError, Off, {}),
   Template(LastTopic, 1, Off, On, {})}

Ruled ==
  {<<[Level("a", TRUE, 0) EXCEPT !.rules = [static |-> s, value |-> v, json |-> j]]>> :
     s \in Few(StaticRules), v \in {<<>>} \cup Few(Templates), j \in {<<>>} \cup Few(Templates)}

MCNameLevels ==
  [name \in {"a", "b", "+", "#"} |-> <<name>>] @@ ("a/b" :> <<"a", "b">>) @@ ("/" :> <<"", "">>)
MCMappings == Trees({"a", "+", "#"}) \cup Ruled
MCTexts == {Plain, Document, On, Off, Empty}
MCTopics == UNION {[1 .. n -> {"a", "b"}] : n \in 1 .. 3}
=============================================================================
