---------------------------- MODULE MCMessageStore ----------------------------
(***************************************************************************)
(* Instances of MessageStore: projection files with one or two projections *)
(* that overlap, and messages with and without what their columns need,    *)
(* one of them with a topic that begins with "$".                          *)
(***************************************************************************)
EXTENDS MessageStore

MCSymmetry == Permutations(Connections)

Temperature ==
  [topic |-> <<"n", "+", "t">>, table |-> "measurements",
   columns |-> ("device" :> TopicLevel(1, TRUE)) @@ ("value" :> JsonPointer("/v", TRUE))
                 @@ ("unit" :> JsonPointer("/u", FALSE))]
Anything ==
  [topic |-> <<"n", "#">>, table |-> "any",
   columns |-> ("third" :> TopicLevel(2, FALSE)) @@ ("unit" :> JsonPointer("/u", FALSE))]
AnyUnit ==
  [topic |-> <<"+", "#">>, table |-> "any", columns |-> "unit" :> JsonPointer("/u", FALSE)]
BadEscape ==
  [topic |-> <<"n", "+">>, table |-> "bad", columns |-> "value" :> JsonPointer(BadPointer, TRUE)]

MCFiles == {<<Temperature, Anything>>, <<BadEscape, AnyUnit>>}

Message(topic, json, pointers) == [topic |-> topic, json |-> json, pointers |-> pointers]

MCMessages ==
  {Message(<<"n", "d", "t">>, TRUE, {"/v"}),
   Message(<<"n">>, FALSE, {}),
   Message(<<"n", "d">>, TRUE, {"/u"}),
   Message(<<"$SYS", "d">>, TRUE, {"/u"})}
=============================================================================
