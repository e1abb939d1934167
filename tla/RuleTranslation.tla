-------------------------- MODULE RuleTranslation --------------------------
(***************************************************************************)
(* What the rules of one topic level make of a message (MqttMapper::       *)
(* getMappings): the static rules, the templates over the payload as text  *)
(* ("value"), and the templates over it as JSON ("json").  A template is   *)
(* what it renders each payload to.  The loops are functions of how many   *)
(* rules they have come to.                                                *)
(***************************************************************************)
EXTENDS Integers, Sequences, SequencesExt

CONSTANTS
  JsonPayloads,    \* payloads that can be parsed as JSON
  Empty,           \* the empty text
  InjaError,       \* rendering fails with an error of inja
  JsonException,   \* rendering fails with an exception of the JSON library
  LastTopic        \* the topic template that renders the variable mapped_topic

\* Rules of a level: [static, value, json |-> sequences of rules].
\* A static rule: [topic, retain, delay, cases |-> <<[message, mapped], ...>>].
\* A template rule: [topic, retain, delay, text |-> [payload -> text],
\*                   suppressions |-> set of texts].

NoRules == [static |-> <<>>, value |-> <<>>, json |-> <<>>]

Publish(rule, topic, text) ==
  [topic |-> topic, text |-> text, retain |-> rule.retain, delay |-> rule.delay]

\* MappedPublishes: what is published at once, and what later.
Nothing == [immediate |-> <<>>, scheduled |-> <<>>]

Both(a, b) ==
  [immediate |-> a.immediate \o b.immediate, scheduled |-> a.scheduled \o b.scheduled]

\* The last step of getMappedMessage.
Emplaced(publish) ==
  IF publish.delay < 0 THEN [Nothing EXCEPT !.immediate = <<publish>>]
  ELSE [Nothing EXCEPT !.scheduled = <<publish>>]

\* What the passes of a loop add, one after the other.
Collected(parts) ==
  LET sum[k \in 0 .. Len(parts)] ==
        IF k = 0 THEN Nothing ELSE Both(sum[k - 1], parts[k])
  IN sum[Len(parts)]

\* getMappedMessage of a static rule: the first case of the payload.
MappedMessage(rule, payload) ==
  LET matching == {k \in DOMAIN rule.cases : rule.cases[k].message = payload}
  IN IF matching = {} THEN Nothing
     ELSE Emplaced(Publish(rule, rule.topic, rule.cases[Min(matching)].mapped))

StaticMappings(rules, payload) ==
  Collected([k \in DOMAIN rules |-> MappedMessage(rules[k], payload)])

Suppressed(rule, text) == text \in rule.suppressions /\ ~(rule.retain /\ text = Empty)

\* The render data that the templates of a list share keep mapped_topic from
\* one rule to the next; at first it is undefined.
Unrendered == [mappedTopic |-> InjaError, rest |-> "todo", publishes |-> Nothing]

\* getMappedTemplate: an error of inja ends the rule, any other the list.
MappedTemplate_Mutant1(data, rule, payload) ==
  LET topic == IF rule.topic = LastTopic THEN data.mappedTopic ELSE rule.topic
      text == rule.text[payload]
  IN IF data.rest = "skipped" THEN data
     ELSE IF {topic, text} \cap {InjaError, JsonException} # {} THEN [data EXCEPT !.rest = "skipped"]
     ELSE [data EXCEPT !.mappedTopic = topic,
                       !.publishes = IF Suppressed(rule, text) THEN @
                                     ELSE Both(@, Emplaced(Publish(rule, topic, text)))]
MappedTemplate(data, rule, payload) ==
  LET topic == IF rule.topic = LastTopic THEN data.mappedTopic ELSE rule.topic
      text == rule.text[payload]
      rendered == [data EXCEPT !.mappedTopic = topic]
  IN IF data.rest = "skipped" \/ topic = InjaError THEN data
     ELSE IF topic = JsonException THEN [data EXCEPT !.rest = "skipped"]
     ELSE IF text = JsonException THEN [rendered EXCEPT !.rest = "skipped"]
     ELSE IF text = InjaError \/ Suppressed(rule, text) THEN rendered
     ELSE [rendered EXCEPT !.publishes = Both(@, Emplaced(Publish(rule, topic, text)))]

TemplateMappings(rules, payload) ==
  LET data[k \in 0 .. Len(rules)] ==
        IF k = 0 THEN Unrendered ELSE MappedTemplate(data[k - 1], rules[k], payload)
  IN data[Len(rules)].publishes

GetMappings(rules, payload) ==
  LET value == TemplateMappings(rules.value, payload)
      json == IF payload \in JsonPayloads THEN TemplateMappings(rules.json, payload) ELSE Nothing
  IN Both(StaticMappings(rules.static, payload), Both(value, json))

-----------------------------------------------------------------------------
(* The reference: each rule by itself.                                     *)

Alone(kind, rule) == [NoRules EXCEPT ![kind] = <<rule>>]

EachAlone(rules, payload) ==
  LET of(kind) == Collected([k \in DOMAIN rules[kind] |->
                               GetMappings(Alone(kind, rules[kind][k]), payload)])
  IN Both(of("static"), Both(of("value"), of("json")))

\* No rule takes its topic from the one before it, or raises what ends its list.
SelfContained(rules, payload) ==
  \A kind \in {"value", "json"} : \A k \in DOMAIN rules[kind] :
    /\ rules[kind][k].topic \notin {LastTopic, JsonException}
    /\ rules[kind][k].text[payload] # JsonException
=============================================================================
