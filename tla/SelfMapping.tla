---------------------------- MODULE SelfMapping ----------------------------
(***************************************************************************)
(* The mapper inside mqttbroker (Mqtt::onPublish, DelayedQueue::           *)
(* processDue): every message that a client publishes is translated, and   *)
(* what comes of it is published through the broker and translated again,  *)
(* at once by a recursive call, or when its delay is over.  In which order *)
(* delayed publishes fall due is the subject of DelayedQueue; here any may *)
(* be the next one.                                                        *)
(***************************************************************************)
EXTENDS TopicMapping

CONSTANTS
  MaxReceived,   \* bound: messages from clients
  MaxMapped,     \* bound: translations in one event
  MaxWaiting     \* bound: a longer queue is left alone

ASSUME BoundsAssumption == {MaxReceived, MaxMapped, MaxWaiting} \subseteq Nat

VARIABLES
  events,    \* number of messages from clients
  calls,     \* the active calls of onPublish: what each still has to publish
  handled,    \* history: the messages translated in this event, in order
  waiting    \* the scheduled publishes

selfVars == <<mapperVars, events, calls, handled, waiting>>

-----------------------------------------------------------------------------
SelfInit ==
  /\ MapperInit
  /\ events = 0
  /\ calls = <<>>
  /\ handled = <<>>
  /\ waiting = <<>>

\* onPublish up to its second loop: what is scheduled joins the publishes that
\* still wait, what is immediate is left to the new call, above the others.
Call_Mutant1(topic, message, others, stillWaiting) ==
  /\ Translate(topic, message)
  /\ calls' = <<publishes'.immediate>> \o others
  /\ waiting' = stillWaiting \o publishes'.scheduled
Call_Mutant2(topic, message, others, stillWaiting) ==
  /\ Translate(topic, message)
  /\ calls' = Append(others, publishes'.immediate \o publishes'.scheduled)
  /\ waiting' = stillWaiting
Call(topic, message, others, stillWaiting) ==
  /\ Translate(topic, message)
  /\ calls' = Append(others, publishes'.immediate)
  /\ waiting' = stillWaiting \o publishes'.scheduled

\* A client's message: of any topic, subscribed to or not.
Receive(topic, message) ==
  /\ calls = <<>>
  /\ events < MaxReceived
  /\ events' = events + 1
  /\ handled' = <<[topic |-> topic, text |-> message]>>
  /\ Call(topic, message, <<>>, waiting)

\* processDue: one publish that is due, and all that comes of it.
Due(k) ==
  /\ calls = <<>>
  /\ Len(waiting) =< MaxWaiting
  /\ handled' = <<[topic |-> waiting[k].topic, text |-> waiting[k].text]>>
  /\ Call(waiting[k].topic, waiting[k].text, <<>>, RemoveAt(waiting, k))
  /\ UNCHANGED events

\* The second loop: broker->publish, then onPublish of the same publish.
MapAgain ==
  /\ calls # <<>> /\ Last(calls) # <<>>
  /\ Len(handled) < MaxMapped
  /\ LET publish == Head(Last(calls))
     IN /\ handled' = Append(handled, [topic |-> publish.topic, text |-> publish.text])
        /\ Call(publish.topic, publish.text, [calls EXCEPT ![Len(calls)] = Tail(@)], waiting)
  /\ UNCHANGED events

Return ==
  /\ calls # <<>> /\ Last(calls) = <<>>
  /\ calls' = Front(calls)
  /\ UNCHANGED <<mapperVars, events, handled, waiting>>

SelfNext ==
  \/ \E topic \in MessageTopics, message \in Payloads : Receive(topic, message)
  \/ \E k \in DOMAIN waiting : Due(k)
  \/ MapAgain
  \/ Return

\* One thread runs a handler to its end.
SelfSpec ==
  /\ SelfInit /\ [][SelfNext]_selfVars
  /\ WF_selfVars(MapAgain)
  /\ WF_selfVars(Return)

-----------------------------------------------------------------------------
(* The reference: what a message has for consequences without delay.       *)

AtOnce(levels, message) ==
  GetMappings(RulesAt(levels, FindMatchingTopicLevel(levels, message.topic)), message.text).immediate

\* What is still to be translated after k messages when a message comes in
\* before all that waits already: what comes of a publish goes first.
Agenda(levels, first, n) ==
  LET agenda[k \in 0 .. n] ==
        IF k = 0 THEN <<first>>
        ELSE IF agenda[k - 1] = <<>> THEN <<>>
        ELSE AtOnce(levels, Head(agenda[k - 1])) \o Tail(agenda[k - 1])
  IN agenda

\* What the event began with has no more consequences than the bound: no
\* immediate rules feed themselves.
NoLoop == handled # <<>> /\ Agenda(mapping, handled[1], MaxMapped)[MaxMapped] = <<>>

-----------------------------------------------------------------------------
(* Properties.                                                             *)

Message == [topic : Topic, text : Texts]

SelfTypeOK ==
  /\ MapperTypeOK
  /\ events \in 0 .. MaxReceived
  /\ calls \in Seq(Seq(Immediate))
  /\ handled \in Seq(Message)
  /\ waiting \in Seq(Delayed)

\* Whatever the delayed rules feed, themselves included, the handler comes to
\* its end and the broker goes on, unless immediate rules feed themselves.
MappingEnds == (calls # <<>> /\ NoLoop) ~> (calls = <<>>)

\* A message's immediate consequences are published depth first: all that
\* comes of one publish before the next publish of the same message, nothing
\* else in between, and nothing that has a delay; when the handler ends,
\* nothing has been left out.
ConsequencesFirst ==
  handled # <<>> =>
    LET agenda == Agenda(mapping, handled[1], Len(handled))
    IN /\ \A k \in DOMAIN handled :
            /\ agenda[k - 1] # <<>>
            /\ handled[k].topic = Head(agenda[k - 1]).topic
            /\ handled[k].text = Head(agenda[k - 1]).text
            /\ k > 1 => Head(agenda[k - 1]).delay < 0
       /\ calls = <<>> => agenda[Len(handled)] = <<>>
=============================================================================
