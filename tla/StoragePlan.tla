----------------------------- MODULE StoragePlan -----------------------------
(***************************************************************************)
(* The projections of mqttstore, as functions of a message: which          *)
(* projections a topic matches and what is inserted for them.  Topics and  *)
(* filters are sequences of level names.  A projection is a record of its  *)
(* filter ("topic"), its table and its columns: a function from column     *)
(* names to mappings.  Of a JSON payload only the set of pointers it       *)
(* contains is kept.                                                       *)
(***************************************************************************)
EXTENDS Naturals, Sequences, FiniteSetsExt

CONSTANT SystemLevels     \* names of levels that begin with "$"

\* Outcome of an insert statement that cannot be built.
Skipped == [error |-> "skipped"]

Literal(required) == [source |-> "literal", required |-> required]
TopicLevel(level, required) == [source |-> "topic_level", level |-> level, required |-> required]
JsonPointer(pointer, required) ==
  [source |-> "json_pointer", pointer |-> pointer, required |-> required]

\* A pointer with a bad escape passes the schema and is refused when it is used.
BadPointer == "/~"

-----------------------------------------------------------------------------
(* StoragePlan.                                                            *)

\* The level at which the loop over the filter returns decides.
TopicMatches_Mutant1(filter, topic) ==
  LET returns(l) == filter[l] = "#" \/ l > Len(topic) \/ filter[l] \notin {"+", topic[l]}
      at == {l \in DOMAIN filter : returns(l)}
  IN at = {} \/ (filter[Min(at)] = "#" /\ Min(at) = Len(filter))
TopicMatches(filter, topic) ==
  LET returns(l) == filter[l] = "#" \/ l > Len(topic) \/ filter[l] \notin {"+", topic[l]}
      at == {l \in DOMAIN filter : returns(l)}
  IN IF at = {} THEN Len(filter) = Len(topic)
     ELSE filter[Min(at)] = "#" /\ Min(at) = Len(filter)

\* The projections of a plan that match: the loop collects pointers to them,
\* which are their places in the file here.
Match(plan, topic) == {l \in DOMAIN plan : TopicMatches(plan[l].topic, topic)}

\* Places in the order of the file.
InOrder(places) ==
  CHOOSE order \in [1 .. Cardinality(places) -> places] :
    \A i, j \in DOMAIN order : i < j => order[i] < order[j]

-----------------------------------------------------------------------------
(* MariaDbStorage.                                                         *)

\* jsonValueForColumn gives a value; topic levels count from 0.
HasValue(mapping, message) ==
  CASE mapping.source = "literal"      -> TRUE
    [] mapping.source = "topic_level"  -> mapping.level < Len(message.topic)
    [] mapping.source = "json_pointer" -> mapping.pointer \in message.pointers

Refused(mapping) == mapping.source = "json_pointer" /\ mapping.pointer = BadPointer

\* The columns of the statement; a required one without a value is NULL.
BuildProjectionInsert_Mutant1(projection, message) ==
  [c \in DOMAIN projection.columns |->
     IF HasValue(projection.columns[c], message) THEN "value" ELSE "NULL"]
BuildProjectionInsert(projection, message) ==
  LET columns == projection.columns
      kept == {c \in DOMAIN columns : columns[c].required \/ HasValue(columns[c], message)}
  IN IF kept = {} \/ \E c \in DOMAIN columns : Refused(columns[c])
     THEN Skipped
     ELSE [c \in kept |-> IF HasValue(columns[c], message) THEN "value" ELSE "NULL"]

-----------------------------------------------------------------------------
\* What MQTT says of filters and topics, level by level.
MatchesByLevel(filter, topic) ==
  LET multi == filter # <<>> /\ filter[Len(filter)] = "#"
      fixed == IF multi THEN Len(filter) - 1 ELSE Len(filter)
  IN /\ IF multi THEN Len(topic) >= fixed ELSE Len(topic) = fixed
     /\ \A l \in 1 .. fixed : filter[l] \in {topic[l], "+"}

\* A filter that begins with a wildcard does not match a topic that begins with
\* "$" [MQTT-4.7.2-1].  topicMatches does not know of it.
Hidden(filter, topic) ==
  filter # <<>> /\ topic # <<>> /\ filter[1] \in {"+", "#"} /\ topic[1] \in SystemLevels

Matches(filter, topic) == MatchesByLevel(filter, topic) /\ ~Hidden(filter, topic)
=============================================================================
