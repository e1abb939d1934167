---------------------------- MODULE BridgeStatus ----------------------------
(***************************************************************************)
(* The status that the configuration pages of mqttbridge show, beside the  *)
(* program they watch: SSEDistributor sends each event to the pages on the *)
(* stream and replays the events since the last bridges_starting to a page *)
(* that connects; a page keeps the last event of each bridge and broker,   *)
(* clears nothing by itself, and connects again when it was cut off.       *)
(***************************************************************************)
EXTENDS MqttBridge

CONSTANT Pages   \* pages of browsers

VARIABLES
  receivers,   \* eventReceiverList: the pages on the stream
  status,      \* the brokers that each page shows with a session
  cutOff       \* pages that lost the stream since they were loaded (history)

page == <<receivers, status, cutOff>>
statusVars == <<vars, page>>

Brokers == BridgeNames \X InstanceNames
WithSession == {"connected", "disconnecting"}

\* The broker listener of a page: an event replaces what the page showed of that
\* broker; no event of all bridges or of a bridge changes what it shows of one.
Handled(shown, events) ==
  {x \in Brokers : \/ events[x[1]][x[2]] \in WithSession
                   \/ events[x[1]][x[2]] = "none" /\ x \in shown}

\* The broker events of a step.  One that repeats the last of its broker tells a
\* page on the stream nothing, and a cleared log is none.
SentEvents ==
  [b \in BridgeNames |-> [i \in InstanceNames |->
     IF brokerEvent'[b][i] = brokerEvent[b][i] THEN "none" ELSE brokerEvent'[b][i]]]

\* sendEvent.  The streams end with the process.
SendEvent ==
  /\ receivers' = IF up' THEN receivers ELSE {}
  /\ cutOff' = IF up' THEN cutOff ELSE cutOff \cup receivers
  /\ status' = [p \in Pages |-> IF p \in receivers THEN Handled(status[p], SentEvents)
                                ELSE status[p]]

\* The replayed events, on top of what the page showed when its stream ended; the
\* last of a broker tells.
Replayed_Mutant1(shown) == shown
Replayed(shown) == Handled(shown, brokerEvent)

\* addEventReceiver
AddEventReceiver(p) ==
  /\ up
  /\ p \notin receivers
  /\ receivers' = receivers \cup {p}
  /\ status' = [status EXCEPT ![p] = Replayed(@)]
  /\ UNCHANGED <<vars, cutOff>>

\* The stream ends, and the program notices.
OnDisconnected(p) ==
  /\ p \in receivers
  /\ receivers' = receivers \ {p}
  /\ cutOff' = cutOff \cup {p}
  /\ UNCHANGED <<vars, status>>

\* The page is loaded again.
Reload(p) ==
  /\ p \notin receivers
  /\ status' = [status EXCEPT ![p] = {}]
  /\ cutOff' = cutOff \ {p}
  /\ UNCHANGED <<vars, receivers>>

StatusInit ==
  /\ Init
  /\ receivers = {}
  /\ status = [p \in Pages |-> {}]
  /\ cutOff = {}

StatusNext ==
  \/ Next /\ SendEvent
  \/ \E p \in Pages : \/ AddEventReceiver(p)
                      \/ OnDisconnected(p)
                      \/ Reload(p)

StatusSpec == StatusInit /\ [][StatusNext]_statusVars

\* As in MqttBridge; nothing is assumed of the pages.
FairStatusSpec ==
  /\ StatusSpec
  /\ \A f \in Flow :
       /\ WF_vars(link[f] = "closing" /\ Disconnected(f))
       /\ WF_vars(f \in terminating /\ FlowCompletes(f))

-----------------------------------------------------------------------------
(* Properties.                                                             *)

\* Brokers that startBridges announces.
Announced(b, i) ==
  /\ b \notin active.disabled
  /\ \E e \in BrokerMap(active) : e.bridge = b /\ e.instance = i

\* A page on the stream shows a broker of an enabled bridge as connected only while
\* a session of it is in mqttList, and always then where names are unambiguous,
\* however often the page was cut off and whatever it missed.  A page that was never
\* cut off does so for all brokers, also for those of earlier definitions, which no
\* later event is about.
PageShowsSessions ==
  \A p \in receivers, b \in BridgeNames, i \in InstanceNames :
    (Announced(b, i) \/ p \notin cutOff) =>
      /\ <<b, i>> \in status[p] => Listed(b, i)
      /\ Unambiguous(active) /\ Listed(b, i) => <<b, i>> \in status[p]
=============================================================================
