----------------------------- MODULE MqttBridge -----------------------------
(***************************************************************************)
(* The reconfigurable core of mqttbridge: the bridge definition kept by    *)
(* BridgeStore, the client flows started from it, the MQTT sessions of     *)
(* those flows, the restart triggered by PATCH /api/bridge/config, and     *)
(* what a client that replays the server sent events is shown.             *)
(*                                                                         *)
(* The program is one event loop: every action is one callback, run to     *)
(* its end.  What the framework decides (when a connection opens, is       *)
(* answered or closes, when a terminated flow reports completion) is       *)
(* nondeterministic.                                                       *)
(***************************************************************************)
EXTENDS Naturals, FiniteSets, Sequences

CONSTANTS
  NameParts,       \* strings without a '+'
  BridgeNames,     \* names a bridge may have
  InstanceNames,   \* names (network.instance_name) a broker may have
  ValidConfigs,    \* definitions that the schema accepts
  InvalidConfigs,  \* definitions that parse and that the schema refuses
  MaxGeneration    \* bound: how often a definition is activated in one run

\* The schema allows a '+' in both kinds of names, so that a name is the sequence of
\* what the '+' in it separate.
ASSUME NamesAssumption == BridgeNames \cup InstanceNames \subseteq Seq(NameParts) \ {<<>>}

\* A broker entry of a definition.  supported: startBridges has a client for
\* its transport, protocol and encryption.
BrokerEntry == [bridge : BridgeNames, instance : InstanceNames,
                disabled : BOOLEAN, supported : BOOLEAN]

\* A definition: the bridges it names, those with "disabled", and the entries
\* of all "brokers" arrays in the order activateStaged reads them.
Config == [bridges : SUBSET BridgeNames, disabled : SUBSET BridgeNames,
           brokers : Seq(BrokerEntry)]

\* No definition: an empty bridgeMap, and a file that cannot be parsed.
NoConfig == [bridges |-> {}, disabled |-> {}, brokers |-> <<>>]

ASSUME ConfigAssumption ==
  /\ ValidConfigs \subseteq Config
  /\ InvalidConfigs \subseteq Config
  /\ ValidConfigs \cap InvalidConfigs = {}
  /\ NoConfig \notin ValidConfigs
  /\ \A cfg \in ValidConfigs : \A i \in DOMAIN cfg.brokers :
        cfg.brokers[i].bridge \in cfg.bridges

ASSUME GenerationAssumption == MaxGeneration \in Nat \ {0}

\* A client flow.  The generation counts the calls of activateStaged: a flow
\* and the Mqtt objects it creates refer to Broker objects of its generation.
Flow == [bridge : BridgeNames, instance : InstanceNames,
         generation : 1 .. MaxGeneration]

VARIABLES
  up,               \* the process runs
  file,             \* content of the bridge definition file
  staged, active,   \* bridgesConfigJsonStaged, bridgesConfigJsonActive
  generation,       \* 0: bridgeMap was never filled
  restart,          \* the flag of mqttbridge.cpp
  flowControllers,  \* the map of mqttbridge.cpp
  terminating,      \* flows whose terminateFlow() was called
  link,             \* each flow's connection
  mqttList,         \* each bridge's list of sessions
  bridgesEvent, bridgeEvent, brokerEvent
                    \* last replayed event about all bridges, a bridge, a broker

sse == <<bridgesEvent, bridgeEvent, brokerEvent>>
store == <<file, staged, active, generation>>
vars == <<up, store, restart, flowControllers, terminating, link, mqttList, sse>>

LinkState == {"none", "connected", "refused", "acked", "closing"}
BridgesEvent == {"none", "starting", "started", "stopping"}
BridgeEvent == BridgesEvent \cup {"disabled", "stopped"}
BrokerEvent == {"none", "disabled", "connecting", "connected",
                "disconnecting", "disconnected"}

-----------------------------------------------------------------------------
(* What activateStaged builds from a definition.                           *)

\* brokerMap: emplace keeps the first entry of a name.
BrokerMap(cfg) ==
  {cfg.brokers[i] : i \in {j \in DOMAIN cfg.brokers :
     \A k \in 1 .. j - 1 : ~ /\ cfg.brokers[k].bridge = cfg.brokers[j].bridge
                             /\ cfg.brokers[k].instance = cfg.brokers[j].instance}}

\* enabledBroker: addBroker counts an entry whether or not it was emplaced.
EnabledBroker(cfg, b) ==
  Cardinality({i \in DOMAIN cfg.brokers : /\ cfg.brokers[i].bridge = b
                                          /\ ~cfg.brokers[i].disabled})

\* The broker entries startBridges starts a client for.
Startable(cfg) ==
  {e \in BrokerMap(cfg) : e.bridge \notin cfg.disabled /\ ~e.disabled /\ e.supported}

\* The name of a broker's client instance: bridge and broker, with a '+' between.
FullName(x) == x.bridge \o x.instance

\* split_plus: where getBroker looks a client instance up, the bridge that its name
\* up to the first '+' names, which has the broker if its name is the whole.
Lookup(f) == [bridge |-> <<Head(FullName(f))>>, instance |-> Tail(FullName(f))]

Found(cfg, f) ==
  \E e \in BrokerMap(cfg) : e.bridge = Lookup(f).bridge /\ e.instance = Lookup(f).instance

FlowsOf(cfg, g) ==
  {[bridge |-> e.bridge, instance |-> e.instance, generation |-> g] :
     e \in Startable(cfg)}

AllFlowsDone_Mutant1(flows) == TRUE
AllFlowsDone_Mutant2(flows) == FALSE
AllFlowsDone(flows) == flows = {}

-----------------------------------------------------------------------------
(* Server sent events of the handlers.                                     *)

NoEvents ==
  /\ bridgesEvent' = "none"
  /\ bridgeEvent' = [b \in BridgeNames |-> "none"]
  /\ brokerEvent' = [b \in BridgeNames |-> [i \in InstanceNames |-> "none"]]

\* bridgesStarting clears the replay log.
StartingBrokerEvent(cfg, b, i) ==
  LET entry == {e \in BrokerMap(cfg) : e.bridge = b /\ e.instance = i}
  IN CASE entry = {} \/ b \in cfg.disabled -> "none"
       [] b \notin cfg.disabled /\ \E e \in entry : e.disabled -> "disabled"
       [] OTHER -> "connecting"

StartingEvents(cfg) ==
  /\ bridgesEvent' = "starting"
  /\ bridgeEvent' = [b \in BridgeNames |->
                       CASE b \notin cfg.bridges -> "none"
                         [] b \in cfg.disabled -> "disabled"
                         [] OTHER -> "starting"]
  /\ brokerEvent' = [b \in BridgeNames |-> [i \in InstanceNames |->
                       StartingBrokerEvent(cfg, b, i)]]

-----------------------------------------------------------------------------
(* BridgeStore and the restart.                                            *)

\* startBridges: one flow for each startable broker.
StartBridges(cfg, g, running) ==
  /\ flowControllers' = running \cup FlowsOf(cfg, g)
  /\ StartingEvents(cfg)

\* activateStaged: drop bridges and sessions, save, rebuild the bridges.  Nobody
\* looks whether the file could be opened and written: it may be as it was, or torn.
ActivateStaged(cfg) ==
  /\ active' = cfg
  /\ file' \in {cfg, file, NoConfig}
  /\ generation' = generation + 1
  /\ mqttList' = [b \in BridgeNames |-> {}]

\* restartBridges, where flowControllers is running.
RestartBridges(running) ==
  /\ ActivateStaged(staged')
  /\ StartBridges(staged', generation', running)
  /\ restart' = FALSE

\* closeBridges: DISCONNECT to every session, then terminateFlow on every
\* flow.  A connection that is still waiting for its CONNACK gets no
\* DISCONNECT.
Sessions == UNION {mqttList[b] : b \in BridgeNames}

Terminated_Mutant1(flows) == flows \cap Sessions
Terminated(flows) == flows

CloseBridges ==
  /\ restart' = TRUE
  /\ link' = [f \in Flow |-> IF f \in Sessions THEN "closing" ELSE link[f]]
  /\ terminating' = Terminated(flowControllers)
  /\ bridgesEvent' = "stopping"
  /\ bridgeEvent' = [b \in BridgeNames |->
                       IF b \in active.bridges THEN "stopping" ELSE bridgeEvent[b]]
  /\ brokerEvent' = [b \in BridgeNames |-> [i \in InstanceNames |->
                       IF \E m \in mqttList[b] : Lookup(m).instance = i
                       THEN "disconnecting" ELSE brokerEvent[b][i]]]
  /\ UNCHANGED <<flowControllers, mqttList, active, file, generation>>

PatchAllowed_Mutant1 == TRUE
PatchAllowed == ~restart

\* PATCH /api/bridge/config with a patch whose result is valid.
PatchAccepted(cfg) ==
  /\ up
  /\ PatchAllowed
  /\ generation < MaxGeneration
  /\ staged' = cfg
  /\ IF AllFlowsDone(flowControllers)
     THEN RestartBridges({}) /\ UNCHANGED <<terminating, link>>
     ELSE CloseBridges
  /\ UNCHANGED up

\* The same with a patch whose result the schema refuses: 404.
PatchRejected(cfg) ==
  /\ up
  /\ PatchAllowed
  /\ staged' = cfg
  /\ UNCHANGED <<up, file, active, generation, restart, flowControllers,
                 terminating, link, mqttList, sse>>

\* main: loadAndValidate, which returns true whether or not the file could be
\* loaded, then startBridges.
Boot ==
  /\ ~up
  /\ up' = TRUE
  /\ staged' = file
  /\ IF file \in ValidConfigs
     THEN ActivateStaged(file) /\ StartBridges(file, 1, {})
     ELSE /\ StartBridges(NoConfig, 0, {})
          /\ UNCHANGED <<active, file, generation, mqttList>>
  /\ UNCHANGED <<restart, terminating, link>>

-----------------------------------------------------------------------------
(* The flows and their connections.                                        *)

Connecting(f) == f \in flowControllers \ terminating /\ link[f] = "none"

\* The connection of a flow opens: a new Mqtt for the broker that getBroker
\* finds by name, whose list and events it is in; it sends CONNECT.
Connect(f) ==
  /\ Connecting(f)
  /\ Found(active, f)
  /\ link' = [link EXCEPT ![f] = "connected"]
  /\ UNCHANGED <<up, store, restart, flowControllers, terminating, mqttList, sse>>

\* Bridge::addMqtt
AddMqtt(f) == mqttList' = [mqttList EXCEPT ![Lookup(f).bridge] = @ \cup {f}]

\* mqttList.size() == enabledBroker
Complete(cfg, b, list) == Cardinality(list) = EnabledBroker(cfg, b)

\* onConnack with return code 0: mqttConnected.
ConnackAccepted(f) ==
  LET b == Lookup(f).bridge
  IN /\ link[f] = "connected"
     /\ link' = [link EXCEPT ![f] = "acked"]
     /\ AddMqtt(f)
     /\ brokerEvent' = [brokerEvent EXCEPT ![b][Lookup(f).instance] = "connected"]
     /\ bridgeEvent' = IF Complete(active, b, mqttList'[b])
                       THEN [bridgeEvent EXCEPT ![b] = "started"]
                       ELSE bridgeEvent
     /\ bridgesEvent' = IF \A c \in active.bridges :
                             Complete(active, c, mqttList'[c]) \/ c \in active.disabled
                        THEN "started" ELSE bridgesEvent
     /\ UNCHANGED <<up, store, restart, flowControllers, terminating>>

\* onConnack with another return code: the bridge does nothing.
ConnackRefused(f) ==
  /\ link[f] = "connected"
  /\ link' = [link EXCEPT ![f] = "refused"]
  /\ UNCHANGED <<up, store, restart, flowControllers, terminating, mqttList, sse>>

\* Bridge::removeMqtt
RemoveMqtt_Mutant1(f) == UNCHANGED mqttList
RemoveMqtt(f) == mqttList' = [mqttList EXCEPT ![Lookup(f).bridge] = @ \ {f}]

LastMqttGone_Mutant1(list) == FALSE
LastMqttGone(list) == list = {}

\* onDisconnected, whether or not the session was ever accepted.
Disconnected(f) ==
  LET b == Lookup(f).bridge
  IN /\ link[f] # "none"
     /\ link' = [link EXCEPT ![f] = "none"]
     /\ RemoveMqtt(f)
     /\ brokerEvent' = [brokerEvent EXCEPT ![b][Lookup(f).instance] = "disconnected"]
     /\ bridgeEvent' = IF LastMqttGone(mqttList'[b])
                       THEN [bridgeEvent EXCEPT ![b] = "stopped"]
                       ELSE bridgeEvent
     /\ UNCHANGED <<up, store, restart, flowControllers, terminating, bridgesEvent>>

\* onFlowCompleted: a flow without a connection ends, because it was
\* terminated or because of an error the framework does not retry.
FlowCompletes(f) ==
  /\ f \in flowControllers
  /\ link[f] = "none"
  /\ UNCHANGED staged
  /\ IF AllFlowsDone(flowControllers \ {f}) /\ restart
     THEN RestartBridges(flowControllers \ {f})
     ELSE /\ flowControllers' = flowControllers \ {f}
          /\ UNCHANGED <<file, active, generation, restart, mqttList, sse>>
  /\ terminating' = terminating \ {f}
  /\ UNCHANGED <<up, link>>

-----------------------------------------------------------------------------
(* The process may die between two callbacks, in activateStaged while the  *)
(* truncated definition file is being written, or in getBroker.            *)

Down ==
  /\ up' = FALSE
  /\ staged' = NoConfig
  /\ active' = NoConfig
  /\ generation' = 0
  /\ restart' = FALSE
  /\ flowControllers' = {}
  /\ terminating' = {}
  /\ link' = [f \in Flow |-> "none"]
  /\ mqttList' = [b \in BridgeNames |-> {}]
  /\ NoEvents

Crash ==
  /\ up
  /\ Down
  /\ UNCHANGED file

Activating ==
  \/ ~up /\ file \in ValidConfigs
  \/ up /\ PatchAllowed /\ AllFlowsDone(flowControllers)
  \/ /\ up
     /\ restart
     /\ \E f \in flowControllers : AllFlowsDone(flowControllers \ {f}) /\ link[f] = "none"

CrashWhileSaving ==
  /\ Activating
  /\ Down
  /\ file' = NoConfig

\* getBroker dereferences what find returned without a look at it.  Of what may
\* come of that, the process ends here: it follows pointers from behind the map.
CrashInLookup(f) ==
  /\ Connecting(f)
  /\ ~Found(active, f)
  /\ Down
  /\ UNCHANGED file

-----------------------------------------------------------------------------
Init ==
  /\ up = FALSE
  /\ file \in ValidConfigs \cup InvalidConfigs \cup {NoConfig}
  /\ staged = NoConfig
  /\ active = NoConfig
  /\ generation = 0
  /\ restart = FALSE
  /\ flowControllers = {}
  /\ terminating = {}
  /\ link = [f \in Flow |-> "none"]
  /\ mqttList = [b \in BridgeNames |-> {}]
  /\ bridgesEvent = "none"
  /\ bridgeEvent = [b \in BridgeNames |-> "none"]
  /\ brokerEvent = [b \in BridgeNames |-> [i \in InstanceNames |-> "none"]]

Next ==
  \/ Boot
  \/ \E cfg \in ValidConfigs : PatchAccepted(cfg)
  \/ \E cfg \in InvalidConfigs : PatchRejected(cfg)
  \/ \E f \in Flow : \/ Connect(f)
                     \/ ConnackAccepted(f)
                     \/ ConnackRefused(f)
                     \/ Disconnected(f)
                     \/ FlowCompletes(f)
                     \/ CrashInLookup(f)
  \/ Crash
  \/ CrashWhileSaving

Spec == Init /\ [][Next]_vars

\* A DISCONNECT closes its connection, and a terminated flow without a
\* connection completes.  Nothing else is assumed to happen: not that a
\* broker accepts connections, answers CONNECT, or hangs up.
FairSpec ==
  /\ Spec
  /\ \A f \in Flow :
       /\ WF_vars(link[f] = "closing" /\ Disconnected(f))
       /\ WF_vars(f \in terminating /\ FlowCompletes(f))

-----------------------------------------------------------------------------
(* Properties.                                                             *)

TypeOK ==
  /\ up \in BOOLEAN
  /\ file \in ValidConfigs \cup InvalidConfigs \cup {NoConfig}
  /\ staged \in ValidConfigs \cup InvalidConfigs \cup {NoConfig}
  /\ active \in ValidConfigs \cup {NoConfig}
  /\ generation \in 0 .. MaxGeneration
  /\ restart \in BOOLEAN
  /\ flowControllers \in SUBSET Flow
  /\ terminating \in SUBSET Flow
  /\ link \in [Flow -> LinkState]
  /\ mqttList \in [BridgeNames -> SUBSET Flow]
  /\ bridgesEvent \in BridgesEvent
  /\ bridgeEvent \in [BridgeNames -> BridgeEvent]
  /\ brokerEvent \in [BridgeNames -> [InstanceNames -> BrokerEvent]]

\* The Mqtt objects hold a reference to a Broker that activateStaged destroys:
\* no connection outlives the definition it was opened for.  getBroker finds the
\* broker of every flow that may still connect if its bridge has no '+' in its name,
\* and one of the definition in force for every flow that has a connection.
NoStaleBroker ==
  /\ \A f \in Flow : link[f] # "none" => f \in flowControllers /\ Found(active, f)
  /\ \A f \in flowControllers :
       /\ f \in FlowsOf(active, generation)
       /\ Len(f.bridge) = 1 => Found(active, f) /\ Lookup(f).bridge = f.bridge
                                               /\ Lookup(f).instance = f.instance

\* Bridge::publish and closeBridges call through the raw pointers in mqttList:
\* each is an open, accepted session, and every accepted session is listed.
MqttListLive ==
  \A f \in Flow : f \in Sessions <=> link[f] \in {"acked", "closing"}

\* A restart in progress waits for a flow that was told to terminate: there is
\* always a completion left that will notice the flag.
RestartHasWaker ==
  restart => flowControllers # {} /\ flowControllers = terminating

\* No two brokers have client instances of the same name, as "a+b" with "c" and "a"
\* with "b+c" have.
Unambiguous(cfg) ==
  \A d, e \in BrokerMap(cfg) : FullName(d) = FullName(e) => d = e

Listed(b, i) == \E m \in mqttList[b] : Lookup(m).instance = i

\* A client that replays the event log shows a broker as connected only while a
\* session of it is in mqttList, and always then where names are unambiguous.
ShownConnected ==
  \A b \in BridgeNames, i \in InstanceNames :
    LET shown == brokerEvent[b][i] \in {"connected", "disconnecting"}
    IN /\ shown => Listed(b, i)
       /\ Unambiguous(active) /\ Listed(b, i) => shown

DistinctNames(cfg) ==
  \A i, j \in DOMAIN cfg.brokers :
    i # j => FullName(cfg.brokers[i]) # FullName(cfg.brokers[j])

HasAllSessions(b) ==
  Cardinality(mqttList[b]) = Cardinality({e \in BrokerMap(active) : e.bridge = b /\ ~e.disabled})

\* A bridge that a client which replays the log shows as started has a session.
\* When every enabled broker of a bridge has one, all names being distinct,
\* the bridge is shown as started until a restart is requested; and all bridges
\* as started when that holds of all.
StartedIsShown ==
  /\ \A b \in BridgeNames : bridgeEvent[b] = "started" => mqttList[b] # {}
  /\ (DistinctNames(active) /\ ~restart) =>
       /\ \A b \in active.bridges \ active.disabled :
            (mqttList[b] # {} /\ HasAllSessions(b)) => bridgeEvent[b] = "started"
       /\ (Sessions # {} /\ \A b \in active.bridges \ active.disabled : HasAllSessions(b))
            => bridgesEvent = "started"

\* While a restart is in progress the definition whose patch was answered with
\* success is not replaced by a later patch (which is answered with 409), and
\* it is the one that becomes active.
AcceptedIsApplied ==
  [][restart /\ up' => staged' = staged /\ (~restart' => active' = staged)]_vars

\* A restart finishes once every open connection was sent a DISCONNECT.
RestartFinishes ==
  (restart /\ \A f \in Flow : link[f] \in {"none", "closing"}) ~> ~restart

\* The bridge implements the reconfiguration it promises: accept, drain, apply.
Promise == INSTANCE Reconfiguration WITH
  Definitions <- ValidConfigs,
  None <- NoConfig,
  Served <- Startable,
  saved <- IF file \in ValidConfigs THEN file ELSE NoConfig,
  running <- active,
  pending <- IF restart THEN staged ELSE NoConfig,
  sessions <- {e \in Startable(active) :
                 \E f \in Flow : /\ link[f] \in {"acked", "closing"}
                                 /\ f.bridge = e.bridge /\ f.instance = e.instance}

Reconfigures == Promise!Spec
=============================================================================
