--------------------------- MODULE MCSelfMapping ---------------------------
(* The trees of MCTopicMapping, and rules of two levels whose publishes are *)
(* translated by these levels again.                                        *)
EXTENDS MCTopicMapping, SelfMapping

\* Rules that feed each other and themselves: from either payload to the
\* document, at once or with delay 0.
Feeding ==
  {[topic |-> <<t>>, retain |-> FALSE, delay |-> d, cases |-> <<Case(from, Document)>>] :
     t \in {"a", "b"}, d \in {-1, 0}, from \in {Plain, Document}}
Fed(name, static) ==
  [Level(name, TRUE, 0) EXCEPT !.rules = [NoRules EXCEPT !.static = static]]
SelfMappings ==
  {<<Fed("a", s), Fed("b", r)>> :
     s \in Few(Feeding), r \in {<<>>} \cup {<<f>> : f \in Feeding}}

\* Names with slashes match no level of a topic, but join into filters.
Slashed ==
  {<<Level(name, TRUE, 0), Level("a", s, 1), Level("a", FALSE, 0), Level("b", TRUE, 3)>> :
     name \in {"a/b", "/"}, s \in BOOLEAN}

MCSelfMappings == MCMappings \cup SelfMappings \cup Slashed
=============================================================================
