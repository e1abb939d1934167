-------------------------- MODULE MqttBridgeProofs --------------------------
(***************************************************************************)
(* Theorems about MqttBridge for any names, definitions and MaxGeneration. *)
(* Inv strengthens TypeOK, NoStaleBroker, MqttListLive and RestartHasWaker *)
(* to an inductive invariant: it adds that a process that is down holds    *)
(* nothing, that flows are only being terminated during a restart, that a  *)
(* restart holds a validated definition, and that a session is in the list *)
(* of its own bridge.                                                      *)
(***************************************************************************)
EXTENDS BridgeStatus, FiniteSetTheorems, SequenceTheorems, TLAPS

DownIsEmpty ==
  ~up => /\ active = NoConfig
         /\ generation = 0
         /\ restart = FALSE
         /\ flowControllers = {}

RestartIsValid ==
  /\ restart => staged \in ValidConfigs /\ generation < MaxGeneration
  /\ ~restart => terminating = {}
  /\ active # NoConfig => generation > 0

ListedInOwnBridge == \A b \in BridgeNames : \A m \in mqttList[b] : Lookup(m).bridge = b

\* The flows are those of the definition in force, in which getBroker has found the
\* broker of every one that has a connection.
Current ==
  /\ \A f \in Flow : link[f] # "none" => f \in flowControllers /\ Found(active, f)
  /\ \A f \in flowControllers : f \in FlowsOf(active, generation)

Inv ==
  /\ TypeOK
  /\ Current
  /\ MqttListLive
  /\ RestartHasWaker
  /\ DownIsEmpty
  /\ RestartIsValid
  /\ ListedInOwnBridge

-----------------------------------------------------------------------------
(* The names that getBroker looks up.                                      *)

\* The full name of a flow or an entry has two parts at least.
LEMMA FullNameType ==
  ASSUME NEW x, x.bridge \in BridgeNames, x.instance \in InstanceNames
  PROVE  FullName(x) \in Seq(NameParts) /\ Len(FullName(x)) >= 2
<1>1. x.bridge \in Seq(NameParts) \ {<<>>} /\ x.instance \in Seq(NameParts) \ {<<>>}
  BY NamesAssumption
<1>2. Len(x.bridge) >= 1 /\ Len(x.instance) >= 1
  BY <1>1, EmptySeq
<1>3. ASSUME NEW b \in Seq(NameParts), NEW i \in Seq(NameParts), Len(b) >= 1, Len(i) >= 1
      PROVE  b \o i \in Seq(NameParts) /\ Len(b \o i) >= 2
  BY <1>3, ConcatProperties
<1>. QED BY <1>1, <1>2, <1>3 DEF FullName

\* The two halves of what split_plus returns make the full name again.
LEMMA LookupJoins ==
  ASSUME NEW f, f.bridge \in BridgeNames, f.instance \in InstanceNames
  PROVE  FullName(Lookup(f)) = FullName(f)
<1>1. FullName(f) \in Seq(NameParts) /\ Len(FullName(f)) >= 2
  BY FullNameType
<1>2. Lookup(f).bridge = <<Head(FullName(f))>> /\ Lookup(f).instance = Tail(FullName(f))
  BY DEF Lookup
<1>3. ASSUME NEW n \in Seq(NameParts), Len(n) >= 2 PROVE <<Head(n)>> \o Tail(n) = n
  BY <1>3
<1>4. <<Head(FullName(f))>> \o Tail(FullName(f)) = FullName(f)
  BY <1>1, <1>3
<1>. QED BY <1>2, <1>4 DEF FullName

\* A bridge without '+' in its name is found under that name.
LEMMA PlainFound ==
  ASSUME NEW f, f.bridge \in BridgeNames, f.instance \in InstanceNames, Len(f.bridge) = 1
  PROVE  Lookup(f).bridge = f.bridge /\ Lookup(f).instance = f.instance
<1>1. f.bridge \in Seq(NameParts) /\ f.instance \in Seq(NameParts)
  BY NamesAssumption
<1>2. ASSUME NEW b \in Seq(NameParts), NEW i \in Seq(NameParts), Len(b) = 1
      PROVE  <<Head(b \o i)>> = b /\ Tail(b \o i) = i
  <2>1. /\ b \o i \in Seq(NameParts) /\ Len(b \o i) = Len(i) + 1
        /\ (b \o i)[1] = b[1] /\ \A k \in 1 .. Len(i) : (b \o i)[k + 1] = i[k]
    <3>0. /\ b \o i \in Seq(NameParts) /\ Len(b \o i) = Len(b) + Len(i)
          /\ \A k \in 1 .. Len(b) + Len(i) :
               (b \o i)[k] = IF k <= Len(b) THEN b[k] ELSE i[k - Len(b)]
      BY ConcatProperties, Zenon
    <3>1. Len(i) \in Nat
      OBVIOUS
    <3>2. b \o i \in Seq(NameParts) /\ Len(b \o i) = 1 + Len(i)
      BY <1>2, <3>0, Zenon
    <3>3. \A k \in 1 .. 1 + Len(i) : (b \o i)[k] = IF k <= 1 THEN b[k] ELSE i[k - 1]
      BY <1>2, <3>0, Zenon
    <3>4. (b \o i)[1] = b[1]
      <4>1. 1 \in 1 .. 1 + Len(i) /\ 1 <= 1
        BY <3>1
      <4>. QED BY <3>3, <4>1, Zenon
    <3>5. ASSUME NEW k \in 1 .. Len(i) PROVE (b \o i)[k + 1] = i[k]
      <4>1. k + 1 \in 1 .. 1 + Len(i) /\ ~(k + 1 <= 1) /\ (k + 1) - 1 = k
        BY <3>1
      <4>. QED BY <3>3, <4>1, Zenon
    <3>. QED BY <3>1, <3>2, <3>4, <3>5
  <2>2. ASSUME NEW n \in Seq(NameParts), Len(n) = Len(i) + 1, n[1] = b[1],
               \A k \in 1 .. Len(i) : n[k + 1] = i[k]
        PROVE  <<Head(n)>> = b /\ Tail(n) = i
    <3>1. Len(Tail(n)) = Len(i) /\ Tail(n) \in Seq(NameParts)
      BY <2>2
    <3>2. \A k \in 1 .. Len(i) : Tail(n)[k] = i[k]
      BY <2>2
    <3>3. Tail(n) = i
      BY <3>1, <3>2, SeqEqual
    <3>4. <<Head(n)>> = b
      BY <1>2, <2>2
    <3>. QED BY <3>3, <3>4
  <2>. QED BY <2>1, <2>2
<1>3. <<Head(FullName(f))>> = f.bridge /\ Tail(FullName(f)) = f.instance
  BY <1>1, <1>2 DEF FullName
<1>. QED BY <1>3 DEF Lookup

\* What a definition names.
LEMMA BrokerMapType ==
  ASSUME NEW cfg \in ValidConfigs \cup {NoConfig} PROVE BrokerMap(cfg) \subseteq BrokerEntry
<1>1. CASE cfg \in ValidConfigs
  <2>1. \A i \in DOMAIN cfg.brokers : cfg.brokers[i] \in BrokerEntry
    BY <1>1, ConfigAssumption DEF Config
  <2>. QED BY <2>1 DEF BrokerMap
<1>2. CASE cfg = NoConfig
  BY <1>2 DEF BrokerMap, NoConfig
<1>. QED BY <1>1, <1>2

\* A broker that getBroker has found is one of the definition.
LEMMA LookupType ==
  ASSUME Inv, NEW f \in Flow, link[f] # "none"
  PROVE  Lookup(f).bridge \in BridgeNames /\ Lookup(f).instance \in InstanceNames
<1>1. Found(active, f)
  BY DEF Inv, Current
<1>2. BrokerMap(active) \subseteq BrokerEntry
  BY BrokerMapType DEF Inv, TypeOK
<1>3. PICK e \in BrokerMap(active) : e.bridge = Lookup(f).bridge /\ e.instance = Lookup(f).instance
  BY <1>1 DEF Found
<1>. QED BY <1>2, <1>3 DEF BrokerEntry

\* It is the flow's own where names are unambiguous.
LEMMA FoundIsOwn ==
  ASSUME Inv, Unambiguous(active), NEW f \in Flow, link[f] # "none"
  PROVE  Lookup(f).bridge = f.bridge /\ Lookup(f).instance = f.instance
<1>1. Found(active, f) /\ f \in FlowsOf(active, generation)
  BY DEF Inv, Current
<1>2. PICK d \in BrokerMap(active) : d.bridge = Lookup(f).bridge /\ d.instance = Lookup(f).instance
  BY <1>1 DEF Found
<1>3. PICK e \in BrokerMap(active) : e.bridge = f.bridge /\ e.instance = f.instance
  BY <1>1 DEF FlowsOf, Startable
<1>4. FullName(d) = FullName(Lookup(f)) /\ FullName(e) = FullName(f)
  BY <1>2, <1>3 DEF FullName
<1>5. FullName(Lookup(f)) = FullName(f)
  BY LookupJoins DEF Flow
<1>6. d = e
  BY <1>4, <1>5 DEF Unambiguous
<1>. QED BY <1>2, <1>3, <1>6

-----------------------------------------------------------------------------
\* No flow is started without a definition.
LEMMA NoConfigFlows == ASSUME NEW g PROVE FlowsOf(NoConfig, g) = {}
  BY DEF FlowsOf, Startable, BrokerMap, NoConfig

\* The flows started from a definition are flows of the given generation.
LEMMA FlowsOfType ==
  ASSUME NEW cfg \in ValidConfigs, NEW g \in 1 .. MaxGeneration
  PROVE  FlowsOf(cfg, g) \in SUBSET Flow
<1>1. cfg \in Config
  BY ConfigAssumption
<1>2. \A i \in DOMAIN cfg.brokers : cfg.brokers[i] \in BrokerEntry
  BY <1>1 DEF Config
<1>3. BrokerMap(cfg) \subseteq BrokerEntry
  BY <1>2 DEF BrokerMap
<1>. QED BY <1>3 DEF FlowsOf, Startable, BrokerEntry, Flow

\* The events announced by startBridges are well typed.
LEMMA StartingEventsType ==
  ASSUME NEW cfg, StartingEvents(cfg)
  PROVE  /\ bridgesEvent' \in BridgesEvent
         /\ bridgeEvent' \in [BridgeNames -> BridgeEvent]
         /\ brokerEvent' \in [BridgeNames -> [InstanceNames -> BrokerEvent]]
<1>1. \A b, i : StartingBrokerEvent(cfg, b, i) \in BrokerEvent
  <2>. TAKE b, i
  <2>. DEFINE entry == {e \in BrokerMap(cfg) : e.bridge = b /\ e.instance = i}
  <2>1. CASE entry = {} \/ b \in cfg.disabled
    BY <2>1 DEF StartingBrokerEvent, BrokerEvent
  <2>2. CASE ~(entry = {} \/ b \in cfg.disabled)
    BY <2>2, SMT DEF StartingBrokerEvent, BrokerEvent
  <2>. QED BY <2>1, <2>2
<1>2. bridgesEvent' \in BridgesEvent
  BY DEF StartingEvents, BridgesEvent
<1>3. bridgeEvent' \in [BridgeNames -> BridgeEvent]
  BY DEF StartingEvents, BridgeEvent, BridgesEvent
<1>. QED BY <1>1, <1>2, <1>3 DEF StartingEvents

\* The handlers that activate a definition when no flow and no connection is
\* left re-establish the invariant.
LEMMA Restarted ==
  ASSUME Inv,
         ActivateStaged(staged'), StartBridges(staged', generation', {}),
         staged' \in ValidConfigs, generation < MaxGeneration,
         \A f \in Flow : link[f] = "none", link' = link,
         restart' = FALSE, terminating' = {}, up' = TRUE
  PROVE  Inv'
<1>1. generation' \in 1 .. MaxGeneration /\ generation' > 0
  BY GenerationAssumption DEF Inv, TypeOK, ActivateStaged
<1>2. flowControllers' = FlowsOf(active', generation')
  BY DEF ActivateStaged, StartBridges
<1>3. flowControllers' \in SUBSET Flow
  BY <1>1, <1>2, FlowsOfType DEF ActivateStaged
<1>4. /\ bridgesEvent' \in BridgesEvent
      /\ bridgeEvent' \in [BridgeNames -> BridgeEvent]
      /\ brokerEvent' \in [BridgeNames -> [InstanceNames -> BrokerEvent]]
  <2>1. StartingEvents(staged')
    BY DEF StartBridges
  <2>. QED BY <2>1, StartingEventsType
<1>5. mqttList' = [b \in BridgeNames |-> {}] /\ Sessions' = {}
  BY DEF ActivateStaged, Sessions
<1>6. TypeOK'
  <2>1. link' \in [Flow -> LinkState] /\ terminating' \in SUBSET Flow
    BY DEF Inv, TypeOK
  <2>2. active' \in ValidConfigs /\ file' \in ValidConfigs \cup InvalidConfigs \cup {NoConfig}
    BY DEF ActivateStaged, Inv, TypeOK
  <2>3. mqttList' \in [BridgeNames -> SUBSET Flow]
    BY <1>5
  <2>4. generation' \in 0 .. MaxGeneration
    BY <1>1, GenerationAssumption
  <2>. QED BY <1>3, <1>4, <2>1, <2>2, <2>3, <2>4 DEF TypeOK
<1>7. Current' /\ MqttListLive'
  BY <1>2, <1>5 DEF Current, MqttListLive
<1>8. RestartHasWaker' /\ DownIsEmpty' /\ RestartIsValid' /\ ListedInOwnBridge'
  BY <1>1, <1>5 DEF RestartHasWaker, DownIsEmpty, RestartIsValid, ListedInOwnBridge
<1>. QED BY <1>6, <1>7, <1>8 DEF Inv

LEMMA InvInit == Init => Inv
<1>. SUFFICES ASSUME Init PROVE Inv
  OBVIOUS
<1>. USE DEF Init
<1>1. TypeOK
  <2>1. link \in [Flow -> LinkState] /\ mqttList \in [BridgeNames -> SUBSET Flow]
    BY DEF LinkState
  <2>2. /\ bridgesEvent \in BridgesEvent
        /\ bridgeEvent \in [BridgeNames -> BridgeEvent]
        /\ brokerEvent \in [BridgeNames -> [InstanceNames -> BrokerEvent]]
    BY DEF BridgesEvent, BridgeEvent, BrokerEvent
  <2>3. generation \in 0 .. MaxGeneration
    BY GenerationAssumption
  <2>. QED BY <2>1, <2>2, <2>3 DEF TypeOK
<1>2. FlowsOf(active, generation) = {}
  BY NoConfigFlows
<1>3. Current /\ MqttListLive
  BY <1>2 DEF Current, MqttListLive, Sessions
<1>4. RestartHasWaker /\ DownIsEmpty /\ RestartIsValid /\ ListedInOwnBridge
  BY DEF RestartHasWaker, DownIsEmpty, RestartIsValid, ListedInOwnBridge
<1>. QED BY <1>1, <1>3, <1>4 DEF Inv

LEMMA InvBoot == Inv /\ Boot => Inv'
<1>. SUFFICES ASSUME Inv, Boot PROVE Inv'
  OBVIOUS
<1>1. /\ flowControllers = {} /\ generation = 0 /\ restart = FALSE
      /\ active = NoConfig /\ terminating = {}
  BY DEF Inv, Boot, DownIsEmpty, RestartIsValid
<1>2. \A f \in Flow : link[f] = "none"
  BY <1>1 DEF Inv, Current
<1>3. CASE file \in ValidConfigs
  <2>1. /\ ActivateStaged(staged') /\ StartBridges(staged', generation', {})
        /\ staged' \in ValidConfigs /\ link' = link /\ restart' = FALSE
        /\ terminating' = {} /\ up' = TRUE
    BY <1>1, <1>3 DEF Boot, ActivateStaged
  <2>2. generation < MaxGeneration
    BY <1>1, GenerationAssumption
  <2>. QED BY <1>2, <2>1, <2>2, Restarted
<1>4. CASE file \notin ValidConfigs
  <2>1. /\ up' = TRUE /\ staged' = file
        /\ flowControllers' = {} \cup FlowsOf(NoConfig, 0) /\ StartingEvents(NoConfig)
        /\ UNCHANGED <<active, file, generation, mqttList, restart, terminating, link>>
    BY <1>4 DEF Boot, StartBridges
  <2>2. flowControllers' = {} /\ FlowsOf(active', generation') = {}
    BY <1>1, <2>1, NoConfigFlows
  <2>3. /\ bridgesEvent' \in BridgesEvent
        /\ bridgeEvent' \in [BridgeNames -> BridgeEvent]
        /\ brokerEvent' \in [BridgeNames -> [InstanceNames -> BrokerEvent]]
    BY <2>1, StartingEventsType
  <2>4. TypeOK'
    BY <2>1, <2>2, <2>3 DEF Inv, TypeOK
  <2>5. Current'
    BY <1>2, <2>1, <2>2 DEF Current
  <2>6. MqttListLive' /\ ListedInOwnBridge'
    BY <2>1 DEF Inv, MqttListLive, ListedInOwnBridge, Sessions
  <2>7. RestartHasWaker' /\ DownIsEmpty' /\ RestartIsValid'
    BY <1>1, <2>1 DEF RestartHasWaker, DownIsEmpty, RestartIsValid
  <2>. QED BY <2>4, <2>5, <2>6, <2>7 DEF Inv
<1>. QED BY <1>3, <1>4

LEMMA InvPatchAccepted ==
  ASSUME NEW cfg \in ValidConfigs PROVE Inv /\ PatchAccepted(cfg) => Inv'
<1>. SUFFICES ASSUME Inv, PatchAccepted(cfg) PROVE Inv'
  OBVIOUS
<1>1. /\ up /\ up' = up /\ ~restart /\ generation < MaxGeneration
      /\ staged' = cfg /\ terminating = {}
  BY DEF Inv, PatchAccepted, PatchAllowed, RestartIsValid
<1>2. CASE flowControllers = {}
  <2>1. \A f \in Flow : link[f] = "none"
    BY <1>2 DEF Inv, Current
  <2>2. /\ ActivateStaged(staged') /\ StartBridges(staged', generation', {})
        /\ staged' \in ValidConfigs /\ link' = link /\ restart' = FALSE
        /\ terminating' = {} /\ up' = TRUE
    BY <1>1, <1>2 DEF PatchAccepted, AllFlowsDone, RestartBridges, Inv, TypeOK
  <2>. QED BY <1>1, <2>1, <2>2, Restarted
<1>3. CASE flowControllers # {}
  <2>1. CloseBridges
    BY <1>3 DEF PatchAccepted, AllFlowsDone
  <2>2. /\ restart' = TRUE /\ terminating' = flowControllers
        /\ UNCHANGED <<flowControllers, mqttList, active, file, generation>>
        /\ link' = [f \in Flow |-> IF f \in Sessions THEN "closing" ELSE link[f]]
    BY <2>1 DEF CloseBridges, Terminated
  <2>3. /\ bridgesEvent' \in BridgesEvent
        /\ bridgeEvent' \in [BridgeNames -> BridgeEvent]
        /\ brokerEvent' \in [BridgeNames -> [InstanceNames -> BrokerEvent]]
    BY <2>1 DEF CloseBridges, Inv, TypeOK, BridgesEvent, BridgeEvent, BrokerEvent
  <2>4. TypeOK'
    BY <1>1, <2>2, <2>3 DEF Inv, TypeOK, LinkState
  <2>5. Current'
    BY <2>2 DEF Inv, Current, MqttListLive
  <2>6. MqttListLive' /\ ListedInOwnBridge'
    BY <2>2 DEF Inv, MqttListLive, ListedInOwnBridge, Sessions
  <2>7. RestartHasWaker' /\ DownIsEmpty' /\ RestartIsValid'
    BY <1>1, <1>3, <2>2 DEF Inv, RestartHasWaker, DownIsEmpty, RestartIsValid
  <2>. QED BY <2>4, <2>5, <2>6, <2>7 DEF Inv
<1>. QED BY <1>2, <1>3

LEMMA InvPatchRejected ==
  ASSUME NEW cfg \in InvalidConfigs PROVE Inv /\ PatchRejected(cfg) => Inv'
<1>. SUFFICES ASSUME Inv, PatchRejected(cfg) PROVE Inv'
  OBVIOUS
<1>. USE DEF PatchRejected, PatchAllowed, sse
<1>1. TypeOK'
  BY DEF Inv, TypeOK
<1>2. Current' /\ MqttListLive' /\ ListedInOwnBridge'
  BY DEF Inv, Current, MqttListLive, ListedInOwnBridge, Sessions
<1>3. RestartHasWaker' /\ DownIsEmpty' /\ RestartIsValid'
  BY DEF Inv, RestartHasWaker, DownIsEmpty, RestartIsValid
<1>. QED BY <1>1, <1>2, <1>3 DEF Inv

LEMMA InvConnect == ASSUME NEW f \in Flow PROVE Inv /\ Connect(f) => Inv'
<1>. SUFFICES ASSUME Inv, Connect(f) PROVE Inv'
  OBVIOUS
<1>. USE DEF Connect, Connecting, store, sse
<1>1. TypeOK'
  BY DEF Inv, TypeOK, LinkState
<1>2. Current'
  BY DEF Inv, TypeOK, Current
<1>3. MqttListLive' /\ ListedInOwnBridge'
  BY DEF Inv, TypeOK, MqttListLive, ListedInOwnBridge, Sessions
<1>4. RestartHasWaker' /\ DownIsEmpty' /\ RestartIsValid'
  BY DEF Inv, RestartHasWaker, DownIsEmpty, RestartIsValid
<1>. QED BY <1>1, <1>2, <1>3, <1>4 DEF Inv

LEMMA InvConnackRefused == ASSUME NEW f \in Flow PROVE Inv /\ ConnackRefused(f) => Inv'
<1>. SUFFICES ASSUME Inv, ConnackRefused(f) PROVE Inv'
  OBVIOUS
<1>. USE DEF ConnackRefused, store, sse
<1>1. TypeOK'
  BY DEF Inv, TypeOK, LinkState
<1>2. Current'
  BY DEF Inv, TypeOK, Current
<1>3. MqttListLive' /\ ListedInOwnBridge'
  BY DEF Inv, TypeOK, MqttListLive, ListedInOwnBridge, Sessions
<1>4. RestartHasWaker' /\ DownIsEmpty' /\ RestartIsValid'
  BY DEF Inv, RestartHasWaker, DownIsEmpty, RestartIsValid
<1>. QED BY <1>1, <1>2, <1>3, <1>4 DEF Inv

LEMMA InvConnackAccepted == ASSUME NEW f \in Flow PROVE Inv /\ ConnackAccepted(f) => Inv'
<1>. SUFFICES ASSUME Inv, ConnackAccepted(f) PROVE Inv'
  OBVIOUS
<1>1. /\ link[f] = "connected" /\ link' = [link EXCEPT ![f] = "acked"]
      /\ mqttList' = [mqttList EXCEPT ![Lookup(f).bridge] = @ \cup {f}]
      /\ UNCHANGED <<up, file, staged, active, generation, restart,
                     flowControllers, terminating>>
  BY DEF ConnackAccepted, AddMqtt, store
<1>2. Lookup(f).bridge \in BridgeNames /\ Lookup(f).instance \in InstanceNames
  BY <1>1, LookupType
<1>3. bridgesEvent' \in BridgesEvent /\ bridgeEvent' \in [BridgeNames -> BridgeEvent]
  BY <1>2 DEF ConnackAccepted, Inv, TypeOK, BridgesEvent, BridgeEvent
<1>4. brokerEvent' \in [BridgeNames -> [InstanceNames -> BrokerEvent]]
  BY <1>2 DEF ConnackAccepted, Inv, TypeOK, BrokerEvent
<1>5. TypeOK'
  BY <1>1, <1>3, <1>4 DEF Inv, TypeOK, LinkState
<1>6. Current'
  BY <1>1 DEF Inv, TypeOK, Current
<1>7. Sessions' = Sessions \cup {f}
  BY <1>1, <1>2 DEF Inv, TypeOK, Sessions
<1>8. MqttListLive'
  BY <1>1, <1>7 DEF Inv, TypeOK, MqttListLive
<1>9. ListedInOwnBridge'
  BY <1>1, <1>2 DEF Inv, TypeOK, ListedInOwnBridge
<1>10. RestartHasWaker' /\ DownIsEmpty' /\ RestartIsValid'
  BY <1>1 DEF Inv, RestartHasWaker, DownIsEmpty, RestartIsValid
<1>. QED BY <1>5, <1>6, <1>8, <1>9, <1>10 DEF Inv

LEMMA InvDisconnected == ASSUME NEW f \in Flow PROVE Inv /\ Disconnected(f) => Inv'
<1>. SUFFICES ASSUME Inv, Disconnected(f) PROVE Inv'
  OBVIOUS
<1>1. /\ link[f] # "none"
      /\ link' = [link EXCEPT ![f] = "none"]
      /\ mqttList' = [mqttList EXCEPT ![Lookup(f).bridge] = @ \ {f}]
      /\ UNCHANGED <<up, file, staged, active, generation, restart,
                     flowControllers, terminating, bridgesEvent>>
  BY DEF Disconnected, RemoveMqtt, store
<1>2. Lookup(f).bridge \in BridgeNames /\ Lookup(f).instance \in InstanceNames
  BY <1>1, LookupType
<1>3. bridgeEvent' \in [BridgeNames -> BridgeEvent]
  BY <1>2 DEF Disconnected, Inv, TypeOK, BridgesEvent, BridgeEvent
<1>4. brokerEvent' \in [BridgeNames -> [InstanceNames -> BrokerEvent]]
  BY <1>2 DEF Disconnected, Inv, TypeOK, BrokerEvent
<1>5. TypeOK'
  BY <1>1, <1>3, <1>4 DEF Inv, TypeOK, LinkState
<1>6. Current'
  BY <1>1 DEF Inv, TypeOK, Current
<1>7. Sessions' = Sessions \ {f}
  BY <1>1, <1>2 DEF Inv, TypeOK, Sessions, ListedInOwnBridge
<1>8. MqttListLive'
  BY <1>1, <1>7 DEF Inv, TypeOK, MqttListLive
<1>9. ListedInOwnBridge'
  BY <1>1, <1>2 DEF Inv, TypeOK, ListedInOwnBridge
<1>10. RestartHasWaker' /\ DownIsEmpty' /\ RestartIsValid'
  BY <1>1 DEF Inv, RestartHasWaker, DownIsEmpty, RestartIsValid
<1>. QED BY <1>5, <1>6, <1>8, <1>9, <1>10 DEF Inv

LEMMA InvFlowCompletes == ASSUME NEW f \in Flow PROVE Inv /\ FlowCompletes(f) => Inv'
<1>. SUFFICES ASSUME Inv, FlowCompletes(f) PROVE Inv'
  OBVIOUS
<1>1. /\ f \in flowControllers /\ link[f] = "none" /\ terminating' = terminating \ {f}
      /\ UNCHANGED <<up, link, staged>>
  BY DEF FlowCompletes
<1>2. CASE flowControllers \ {f} = {} /\ restart
  <2>1. up /\ terminating' = {}
    BY <1>1, <1>2 DEF Inv, TypeOK, RestartHasWaker, DownIsEmpty
  <2>2. \A g \in Flow : link[g] = "none"
    BY <1>1, <1>2 DEF Inv, Current
  <2>3. /\ ActivateStaged(staged') /\ StartBridges(staged', generation', {})
        /\ restart' = FALSE
    BY <1>2 DEF FlowCompletes, AllFlowsDone, RestartBridges
  <2>4. staged' \in ValidConfigs /\ generation < MaxGeneration /\ up' = TRUE
    BY <1>1, <1>2, <2>1 DEF Inv, TypeOK, RestartIsValid
  <2>. QED BY <1>1, <2>1, <2>2, <2>3, <2>4, Restarted
<1>3. CASE ~(flowControllers \ {f} = {} /\ restart)
  <2>1. /\ flowControllers' = flowControllers \ {f}
        /\ UNCHANGED <<file, active, generation, restart, mqttList,
                       bridgesEvent, bridgeEvent, brokerEvent>>
    BY <1>3 DEF FlowCompletes, AllFlowsDone, sse
  <2>2. TypeOK'
    BY <1>1, <2>1 DEF Inv, TypeOK
  <2>3. Current'
    BY <1>1, <2>1 DEF Inv, Current
  <2>4. MqttListLive' /\ ListedInOwnBridge'
    BY <1>1, <2>1 DEF Inv, MqttListLive, ListedInOwnBridge, Sessions
  <2>5. RestartHasWaker' /\ DownIsEmpty' /\ RestartIsValid'
    BY <1>1, <1>3, <2>1 DEF Inv, RestartHasWaker, DownIsEmpty, RestartIsValid
  <2>. QED BY <2>2, <2>3, <2>4, <2>5 DEF Inv
<1>. QED BY <1>2, <1>3

LEMMA InvDown == Inv /\ Down /\ file' \in {file, NoConfig} => Inv'
<1>. SUFFICES ASSUME Inv, Down, file' \in {file, NoConfig} PROVE Inv'
  OBVIOUS
<1>. USE DEF Down
<1>1. /\ bridgesEvent' \in BridgesEvent
      /\ bridgeEvent' \in [BridgeNames -> BridgeEvent]
      /\ brokerEvent' \in [BridgeNames -> [InstanceNames -> BrokerEvent]]
  BY DEF NoEvents, BridgesEvent, BridgeEvent, BrokerEvent
<1>2. TypeOK'
  <2>1. link' \in [Flow -> LinkState] /\ mqttList' \in [BridgeNames -> SUBSET Flow]
    BY DEF LinkState
  <2>2. generation' \in 0 .. MaxGeneration
    BY GenerationAssumption
  <2>3. file' \in ValidConfigs \cup InvalidConfigs \cup {NoConfig}
    BY DEF Inv, TypeOK
  <2>. QED BY <1>1, <2>1, <2>2, <2>3 DEF TypeOK
<1>3. Current'
  BY DEF Current
<1>4. MqttListLive' /\ ListedInOwnBridge'
  BY DEF MqttListLive, ListedInOwnBridge, Sessions
<1>5. RestartHasWaker' /\ DownIsEmpty' /\ RestartIsValid'
  BY DEF RestartHasWaker, DownIsEmpty, RestartIsValid
<1>. QED BY <1>2, <1>3, <1>4, <1>5 DEF Inv

LEMMA InvCrashInLookup == ASSUME NEW f \in Flow PROVE Inv /\ CrashInLookup(f) => Inv'
  BY InvDown DEF CrashInLookup

LEMMA InvStutter == Inv /\ UNCHANGED vars => Inv'
<1>. SUFFICES ASSUME Inv, UNCHANGED vars PROVE Inv'
  OBVIOUS
<1>. USE DEF vars, store, sse
<1>1. TypeOK'
  BY DEF Inv, TypeOK
<1>2. Current' /\ MqttListLive' /\ ListedInOwnBridge'
  BY DEF Inv, Current, MqttListLive, ListedInOwnBridge, Sessions
<1>3. RestartHasWaker' /\ DownIsEmpty' /\ RestartIsValid'
  BY DEF Inv, RestartHasWaker, DownIsEmpty, RestartIsValid
<1>. QED BY <1>1, <1>2, <1>3 DEF Inv

LEMMA InvNext == Inv /\ [Next]_vars => Inv'
<1>. SUFFICES ASSUME Inv, [Next]_vars PROVE Inv'
  OBVIOUS
<1>1. CASE Crash
  BY <1>1, InvDown DEF Crash
<1>2. CASE CrashWhileSaving
  BY <1>2, InvDown DEF CrashWhileSaving
<1>. QED BY <1>1, <1>2, InvStutter, InvBoot, InvPatchAccepted, InvPatchRejected,
            InvConnect, InvConnackAccepted, InvConnackRefused, InvDisconnected,
            InvFlowCompletes, InvCrashInLookup DEF Next

THEOREM InvHolds == Spec => []Inv
  BY InvInit, InvNext, PTL DEF Spec

-----------------------------------------------------------------------------
\* Every reachable state is well typed.
THEOREM TypeCorrect == Spec => []TypeOK
<1>1. Inv => TypeOK
  BY DEF Inv
<1>. QED BY <1>1, InvHolds, PTL

\* No connection outlives the Broker object it refers to, and getBroker finds the
\* broker of each flow whose bridge has no '+' in its name.
THEOREM NeverStale == Spec => []NoStaleBroker
<1>1. ASSUME Inv PROVE NoStaleBroker
  <2>1. ASSUME NEW f \in flowControllers, Len(f.bridge) = 1
        PROVE  /\ Found(active, f)
               /\ Lookup(f).bridge = f.bridge /\ Lookup(f).instance = f.instance
    <3>1. f \in FlowsOf(active, generation) /\ f \in Flow
      BY <1>1 DEF Inv, TypeOK, Current
    <3>2. PICK e \in BrokerMap(active) : e.bridge = f.bridge /\ e.instance = f.instance
      BY <3>1 DEF FlowsOf, Startable
    <3>3. Lookup(f).bridge = f.bridge /\ Lookup(f).instance = f.instance
      BY <2>1, <3>1, PlainFound DEF Flow
    <3>. QED BY <3>2, <3>3 DEF Found
  <2>. QED BY <1>1, <2>1 DEF Inv, Current, NoStaleBroker
<1>. QED BY <1>1, InvHolds, PTL

\* mqttList holds exactly the open accepted sessions, so no pointer in it
\* dangles.
THEOREM ListIsLive == Spec => []MqttListLive
<1>1. Inv => MqttListLive
  BY DEF Inv
<1>. QED BY <1>1, InvHolds, PTL

\* A restart in progress always has a flow left whose completion performs it.
THEOREM RestartIsNeverLost == Spec => []RestartHasWaker
<1>1. Inv => RestartHasWaker
  BY DEF Inv
<1>. QED BY <1>1, InvHolds, PTL

\* The definition whose patch was answered with success is the one that
\* becomes active, and no other is staged before that.
THEOREM AcceptedPatchIsApplied == Spec => AcceptedIsApplied
<1>. DEFINE Kept == restart /\ up' => staged' = staged /\ (~restart' => active' = staged)
<1>1. ASSUME Inv, [Next]_vars PROVE [Kept]_vars
  <2>. SUFFICES ASSUME Next, restart, up'
                PROVE  staged' = staged /\ (~restart' => active' = staged)
    BY <1>1
  <2>1. up
    BY <1>1 DEF Inv, TypeOK, DownIsEmpty
  <2>2. \A cfg : ~PatchAccepted(cfg) /\ ~PatchRejected(cfg)
    BY DEF PatchAccepted, PatchRejected, PatchAllowed
  <2>3. ~Boot /\ ~Crash /\ ~CrashWhileSaving
    BY <2>1 DEF Boot, Crash, CrashWhileSaving, Down
  <2>4. PICK f \in Flow : \/ Connect(f) \/ ConnackAccepted(f) \/ ConnackRefused(f)
                          \/ Disconnected(f) \/ FlowCompletes(f)
    BY <2>2, <2>3 DEF Next, CrashInLookup, Down
  <2>5. CASE ~FlowCompletes(f)
    BY <2>4, <2>5 DEF Connect, ConnackAccepted, ConnackRefused, Disconnected, store
  <2>6. CASE FlowCompletes(f)
    BY <2>6 DEF FlowCompletes, RestartBridges, ActivateStaged
  <2>. QED BY <2>5, <2>6
<1>2. ASSUME []Inv, [][Next]_vars PROVE [][Kept]_vars
  BY <1>1, <1>2, PTL
<1>. QED BY <1>2, InvHolds, PTL DEF Spec, AcceptedIsApplied

-----------------------------------------------------------------------------
(* The event log.                                                          *)

\* Of the flows that may have a session there is one for each broker.
LEMMA OneFlowPerBroker ==
  ASSUME Inv, NEW f \in Flow, NEW g \in Flow, link[f] # "none", link[g] # "none",
         f.bridge = g.bridge, f.instance = g.instance
  PROVE  f = g
<1>1. f \in FlowsOf(active, generation) /\ g \in FlowsOf(active, generation)
  BY DEF Inv, Current
<1>. QED BY <1>1 DEF FlowsOf

\* Nor have two of them the same broker, where names are unambiguous.
LEMMA OneFlowPerLookup ==
  ASSUME Inv, Unambiguous(active),
         NEW f \in Flow, NEW g \in Flow, link[f] # "none", link[g] # "none",
         Lookup(f).bridge = Lookup(g).bridge, Lookup(f).instance = Lookup(g).instance
  PROVE  f = g
<1>1. f.bridge = g.bridge /\ f.instance = g.instance
  BY FoundIsOwn
<1>. QED BY <1>1, OneFlowPerBroker

\* A listed session is open.
LEMMA ListedIsOpen ==
  ASSUME Inv, NEW b \in BridgeNames, NEW m \in mqttList[b]
  PROVE  m \in Flow /\ link[m] # "none" /\ Lookup(m).bridge = b
<1>1. m \in Flow /\ m \in Sessions
  BY DEF Inv, TypeOK, Sessions
<1>. QED BY <1>1 DEF Inv, MqttListLive, ListedInOwnBridge

\* A process without flows has no sessions.
LEMMA NoFlowsNoSessions ==
  ASSUME Inv, flowControllers = {}
  PROVE  /\ \A f \in Flow : link[f] = "none"
         /\ \A b \in BridgeNames : mqttList[b] = {}
<1>1. \A f \in Flow : link[f] = "none"
  BY DEF Inv, Current
<1>2. \A b \in BridgeNames : \A m \in mqttList[b] : m \in Flow /\ m \in Sessions
  BY DEF Inv, TypeOK, Sessions
<1>. QED BY <1>1, <1>2 DEF Inv, MqttListLive

\* What startBridges announces shows no broker as connected and no bridge as
\* started.
LEMMA StartingShowsNothing ==
  ASSUME NEW cfg, StartingEvents(cfg),
         \A b \in BridgeNames : mqttList'[b] = {}
  PROVE  /\ ShownConnected'
         /\ \A b \in BridgeNames : bridgeEvent'[b] # "started"
<1>1. \A b, i : StartingBrokerEvent(cfg, b, i) \notin WithSession
  BY DEF StartingBrokerEvent, WithSession
<1>2. \A b \in BridgeNames, i \in InstanceNames :
        brokerEvent'[b][i] = StartingBrokerEvent(cfg, b, i)
  BY DEF StartingEvents
<1>3. \A b \in BridgeNames : bridgeEvent'[b] # "started"
  BY DEF StartingEvents
<1>. QED BY <1>1, <1>2, <1>3 DEF ShownConnected, WithSession, Listed

\* A bridge shown as started has a session.
StartedHasSession == \A b \in BridgeNames : bridgeEvent[b] = "started" => mqttList[b] # {}

Shown == ShownConnected /\ StartedHasSession

LEMMA ShownAfterPatch ==
  ASSUME Inv, Shown, NEW cfg \in ValidConfigs, PatchAccepted(cfg)
  PROVE  Shown'
<1>1. CASE flowControllers = {}
  BY <1>1, StartingShowsNothing
     DEF PatchAccepted, AllFlowsDone, RestartBridges, ActivateStaged, StartBridges, Shown,
         StartedHasSession
<1>2. CASE flowControllers # {}
  <2>1. CloseBridges
    BY <1>2 DEF PatchAccepted, AllFlowsDone
  <2>2. ShownConnected'
    BY <2>1 DEF CloseBridges, Shown, ShownConnected, Listed
  <2>3. StartedHasSession'
    BY <2>1 DEF CloseBridges, Shown, StartedHasSession
  <2>. QED BY <2>2, <2>3 DEF Shown
<1>. QED BY <1>1, <1>2

\* An event of one broker, for which its session comes or goes, leaves what is shown
\* of the others as it was.
ShownRight(b, i) ==
  /\ brokerEvent[b][i] \in WithSession => Listed(b, i)
  /\ Unambiguous(active) /\ Listed(b, i) => brokerEvent[b][i] \in WithSession

LEMMA OthersAreShown ==
  ASSUME Shown, NEW f, UNCHANGED active, NEW b \in BridgeNames, NEW i \in InstanceNames,
         brokerEvent'[b][i] = brokerEvent[b][i],
         mqttList'[b] \in {mqttList[b], mqttList[b] \cup {f}, mqttList[b] \ {f}},
         mqttList'[b] # mqttList[b] => Lookup(f).instance # i
  PROVE  ShownRight(b, i)'
<1>1. Listed(b, i)' <=> Listed(b, i)
  BY DEF Listed
<1>2. ShownRight(b, i)
  BY DEF Shown, ShownConnected, ShownRight, WithSession
<1>. QED BY <1>1, <1>2 DEF ShownRight

LEMMA ShownAfterConnack ==
  ASSUME Inv, Shown, NEW f \in Flow, ConnackAccepted(f)
  PROVE  Shown'
<1>. DEFINE bridge == Lookup(f).bridge
            instance == Lookup(f).instance
<1>0. link[f] # "none" /\ UNCHANGED active
  BY DEF ConnackAccepted, store
<1>1. /\ bridge \in BridgeNames /\ instance \in InstanceNames
      /\ mqttList' = [mqttList EXCEPT ![bridge] = @ \cup {f}]
      /\ brokerEvent' = [brokerEvent EXCEPT ![bridge][instance] = "connected"]
      /\ \/ bridgeEvent' = [bridgeEvent EXCEPT ![bridge] = "started"]
         \/ bridgeEvent' = bridgeEvent
  BY <1>0, LookupType DEF ConnackAccepted, AddMqtt
<1>2. /\ \A b \in BridgeNames : mqttList'[b] = IF b = bridge THEN mqttList[bridge] \cup {f} ELSE mqttList[b]
      /\ \A b \in BridgeNames, i \in InstanceNames :
           brokerEvent'[b][i] = IF b = bridge /\ i = instance THEN "connected" ELSE brokerEvent[b][i]
  BY <1>1 DEF Inv, TypeOK
<1>3. ASSUME NEW b \in BridgeNames, NEW i \in InstanceNames
      PROVE  ShownRight(b, i)'
  <2>1. CASE b = bridge /\ i = instance
    <3>1. f \in mqttList'[b] /\ brokerEvent'[b][i] = "connected"
      BY <1>2, <2>1
    <3>2. Listed(b, i)'
      BY <2>1, <3>1 DEF Listed
    <3>. QED BY <3>1, <3>2 DEF ShownRight, WithSession
  <2>2. CASE ~(b = bridge /\ i = instance)
    <3>1. /\ brokerEvent'[b][i] = brokerEvent[b][i]
          /\ mqttList'[b] \in {mqttList[b], mqttList[b] \cup {f}, mqttList[b] \ {f}}
          /\ mqttList'[b] # mqttList[b] => instance # i
      BY <1>2, <2>2
    <3>. QED BY <1>0, <3>1, OthersAreShown
  <2>. QED BY <2>1, <2>2
<1>4. StartedHasSession'
  BY <1>1, <1>2 DEF Inv, TypeOK, Shown, StartedHasSession
<1>. QED BY <1>3, <1>4 DEF Shown, ShownConnected, ShownRight, WithSession

LEMMA ShownAfterDisconnect ==
  ASSUME Inv, Shown, NEW f \in Flow, Disconnected(f)
  PROVE  Shown'
<1>. DEFINE bridge == Lookup(f).bridge
            instance == Lookup(f).instance
<1>0. link[f] # "none" /\ UNCHANGED active
  BY DEF Disconnected, store
<1>1. /\ bridge \in BridgeNames /\ instance \in InstanceNames
      /\ mqttList' = [mqttList EXCEPT ![bridge] = @ \ {f}]
      /\ brokerEvent' = [brokerEvent EXCEPT ![bridge][instance] = "disconnected"]
      /\ bridgeEvent' = IF mqttList'[bridge] = {}
                        THEN [bridgeEvent EXCEPT ![bridge] = "stopped"] ELSE bridgeEvent
  BY <1>0, LookupType DEF Disconnected, RemoveMqtt, LastMqttGone
<1>2. /\ \A b \in BridgeNames : mqttList'[b] = IF b = bridge THEN mqttList[bridge] \ {f} ELSE mqttList[b]
      /\ \A b \in BridgeNames, i \in InstanceNames :
           brokerEvent'[b][i] = IF b = bridge /\ i = instance THEN "disconnected" ELSE brokerEvent[b][i]
  BY <1>1 DEF Inv, TypeOK
<1>3. Unambiguous(active) => \A m \in mqttList[bridge] : Lookup(m).instance = instance => m = f
  BY <1>0, <1>1, ListedIsOpen, OneFlowPerLookup
<1>4. ASSUME NEW b \in BridgeNames, NEW i \in InstanceNames
      PROVE  ShownRight(b, i)'
  <2>1. CASE b = bridge /\ i = instance
    <3>1. mqttList'[b] = mqttList[bridge] \ {f} /\ brokerEvent'[b][i] = "disconnected"
      BY <1>2, <2>1
    <3>2. Unambiguous(active) => ~Listed(b, i)'
      BY <1>3, <2>1, <3>1 DEF Listed
    <3>. QED BY <1>0, <3>1, <3>2 DEF ShownRight, WithSession
  <2>2. CASE ~(b = bridge /\ i = instance)
    <3>1. /\ brokerEvent'[b][i] = brokerEvent[b][i]
          /\ mqttList'[b] \in {mqttList[b], mqttList[b] \cup {f}, mqttList[b] \ {f}}
          /\ mqttList'[b] # mqttList[b] => instance # i
      BY <1>2, <2>2
    <3>. QED BY <1>0, <3>1, OthersAreShown
  <2>. QED BY <2>1, <2>2
<1>5. StartedHasSession'
  <2>1. CASE mqttList'[bridge] = {}
    BY <1>1, <1>2, <2>1 DEF Inv, TypeOK, Shown, StartedHasSession
  <2>2. CASE mqttList'[bridge] # {}
    BY <1>1, <1>2, <2>2 DEF Shown, StartedHasSession
  <2>. QED BY <2>1, <2>2
<1>. QED BY <1>4, <1>5 DEF Shown, ShownConnected, ShownRight, WithSession

LEMMA ShownNext == Inv /\ Shown /\ [Next]_vars => Shown'
<1>. SUFFICES ASSUME Inv, Shown, [Next]_vars PROVE Shown'
  OBVIOUS
<1>1. CASE Boot
  <2>1. \A b \in BridgeNames : mqttList'[b] = {}
    BY <1>1, NoFlowsNoSessions DEF Boot, Inv, DownIsEmpty, ActivateStaged
  <2>2. PICK cfg : StartingEvents(cfg)
    BY <1>1 DEF Boot, StartBridges
  <2>. QED BY <2>1, <2>2, StartingShowsNothing DEF Shown, StartedHasSession
<1>2. CASE \E cfg \in ValidConfigs : PatchAccepted(cfg)
  BY <1>2, ShownAfterPatch
<1>3. CASE UNCHANGED <<active, mqttList, bridgeEvent, brokerEvent>>
  BY <1>3 DEF Shown, ShownConnected, Listed, StartedHasSession
<1>4. CASE \E cfg \in InvalidConfigs : PatchRejected(cfg)
  BY <1>3, <1>4 DEF PatchRejected, sse
<1>5. ASSUME NEW f \in Flow, Connect(f) \/ ConnackRefused(f) PROVE Shown'
  BY <1>3, <1>5 DEF Connect, ConnackRefused, store, sse
<1>6. ASSUME NEW f \in Flow, FlowCompletes(f) PROVE Shown'
  <2>1. CASE AllFlowsDone(flowControllers \ {f}) /\ restart
    BY <1>6, <2>1, StartingShowsNothing
       DEF FlowCompletes, RestartBridges, ActivateStaged, StartBridges, Shown, StartedHasSession
  <2>2. CASE ~(AllFlowsDone(flowControllers \ {f}) /\ restart)
    BY <1>3, <1>6, <2>2 DEF FlowCompletes, sse
  <2>. QED BY <2>1, <2>2
<1>7. CASE Down
  <2>1. /\ \A b \in BridgeNames : mqttList'[b] = {} /\ bridgeEvent'[b] = "none"
        /\ \A b \in BridgeNames, i \in InstanceNames : brokerEvent'[b][i] = "none"
    BY <1>7 DEF Down, NoEvents
  <2>. QED BY <2>1 DEF Shown, ShownConnected, Listed, StartedHasSession
<1>8. CASE UNCHANGED vars
  BY <1>3, <1>8 DEF vars, store, sse
<1>. QED BY <1>1, <1>2, <1>4, <1>5, <1>6, <1>7, <1>8, ShownAfterConnack, ShownAfterDisconnect
        DEF Next, Crash, CrashWhileSaving, CrashInLookup

\* A client that replays the event log shows a broker as connected only while a
\* session of it is in mqttList, and always then where names are unambiguous.
THEOREM LogShowsConnections == Spec => []ShownConnected
<1>1. Init => Shown
  BY DEF Init, Shown, ShownConnected, Listed, StartedHasSession
<1>2. Shown => ShownConnected
  BY DEF Shown
<1>. QED BY <1>1, <1>2, InvHolds, ShownNext, PTL DEF Spec

-----------------------------------------------------------------------------
(* The numbers that Bridge compares: sessions against enabled brokers.     *)

LEMMA DistinctAreUnambiguous == ASSUME NEW cfg, DistinctNames(cfg) PROVE Unambiguous(cfg)
  BY DEF DistinctNames, Unambiguous, BrokerMap

Enabled(cfg, b) == {e \in BrokerMap(cfg) : e.bridge = b /\ ~e.disabled}

LEMMA ActiveBrokers == Inv => active.brokers \in Seq(BrokerEntry)
<1>. SUFFICES ASSUME Inv PROVE active.brokers \in Seq(BrokerEntry)
  OBVIOUS
<1>1. active \in ValidConfigs \cup {NoConfig}
  BY DEF Inv, TypeOK
<1>2. \A cfg \in ValidConfigs : cfg.brokers \in Seq(BrokerEntry)
  BY ConfigAssumption DEF Config
<1>3. NoConfig.brokers = <<>> /\ <<>> \in Seq(BrokerEntry)
  BY DEF NoConfig
<1>. QED BY <1>1, <1>2, <1>3

\* With distinct names every entry is emplaced, so enabledBroker is the number of
\* enabled brokers that the bridge has.
LEMMA EnabledAreCounted ==
  ASSUME NEW cfg, cfg.brokers \in Seq(BrokerEntry), DistinctNames(cfg), NEW b
  PROVE  IsFiniteSet(Enabled(cfg, b)) /\ Cardinality(Enabled(cfg, b)) = EnabledBroker(cfg, b)
<1>. DEFINE B == cfg.brokers
            I == {i \in DOMAIN B : B[i].bridge = b /\ ~B[i].disabled}
            at == [i \in I |-> B[i]]
<1>1. IsFiniteSet(I)
  <2>1. DOMAIN B = 1 .. Len(B) /\ Len(B) \in Int
    OBVIOUS
  <2>2. IsFiniteSet(1 .. Len(B))
    BY <2>1, FS_Interval
  <2>. QED BY <2>1, <2>2, FS_Subset
<1>2. \A i \in DOMAIN B : \A j \in 1 .. i - 1 : j \in DOMAIN B /\ j # i
  OBVIOUS
<1>3. BrokerMap(cfg) = {B[i] : i \in DOMAIN B}
  BY <1>2 DEF BrokerMap, DistinctNames, FullName
<1>4. at \in [I -> Enabled(cfg, b)]
  BY <1>3 DEF Enabled
<1>5. \A e \in Enabled(cfg, b) : \E i \in I : at[i] = e
  BY <1>3 DEF Enabled
<1>6. \A i, j \in I : at[i] = at[j] => i = j
  BY DEF DistinctNames
<1>7. at \in Bijection(I, Enabled(cfg, b))
  BY <1>4, <1>5, <1>6 DEF Bijection, Injection, Surjection, IsInjective
<1>8. IsFiniteSet(Enabled(cfg, b)) /\ Cardinality(Enabled(cfg, b)) = Cardinality(I)
  BY <1>1, <1>7, FS_Bijection DEF ExistsBijection
<1>. QED BY <1>8 DEF EnabledBroker

\* A bridge has at most one session for each enabled broker.
LEMMA SessionsOfEnabled ==
  ASSUME Inv, DistinctNames(active), NEW b \in BridgeNames
  PROVE  /\ IsFiniteSet(mqttList[b])
         /\ Cardinality(mqttList[b]) <= Cardinality(Enabled(active, b))
<1>. DEFINE Of(m) == CHOOSE e \in Startable(active) : e.bridge = m.bridge /\ e.instance = m.instance
            of == [m \in mqttList[b] |-> Of(m)]
<1>1. ASSUME NEW m \in mqttList[b]
      PROVE  /\ m \in Flow /\ m.bridge = b /\ link[m] # "none"
             /\ Of(m) \in Startable(active) /\ Of(m).bridge = m.bridge /\ Of(m).instance = m.instance
  <2>1. m \in Flow /\ link[m] # "none" /\ Lookup(m).bridge = b
    BY ListedIsOpen
  <2>2. m.bridge = b
    BY <2>1, DistinctAreUnambiguous, FoundIsOwn
  <2>3. m \in FlowsOf(active, generation)
    BY <2>1 DEF Inv, Current
  <2>4. \E e \in Startable(active) : e.bridge = m.bridge /\ e.instance = m.instance
    BY <2>3 DEF FlowsOf
  <2>. QED BY <2>1, <2>2, <2>4
<1>. HIDE DEF Of
<1>2. of \in [mqttList[b] -> Enabled(active, b)]
  BY <1>1 DEF Enabled, Startable
<1>3. \A m, n \in mqttList[b] : of[m] = of[n] => m = n
  BY <1>1, OneFlowPerBroker
<1>4. of \in Injection(mqttList[b], Enabled(active, b))
  BY <1>2, <1>3 DEF Injection, IsInjective
<1>5. IsFiniteSet(Enabled(active, b))
  BY ActiveBrokers, EnabledAreCounted
<1>. QED BY <1>4, <1>5, FS_Injection

\* So one that loses a session has not all of them.
LEMMA OneIsMissing ==
  ASSUME Inv, DistinctNames(active), NEW b \in BridgeNames, NEW f \in mqttList[b]
  PROVE  Cardinality(mqttList[b] \ {f}) # Cardinality(Enabled(active, b))
<1>1. /\ IsFiniteSet(mqttList[b]) /\ IsFiniteSet(Enabled(active, b))
      /\ Cardinality(mqttList[b]) <= Cardinality(Enabled(active, b))
  BY SessionsOfEnabled, ActiveBrokers, EnabledAreCounted
<1>2. Cardinality(mqttList[b] \ {f}) = Cardinality(mqttList[b]) - 1
  BY <1>1, FS_RemoveElement
<1>3. Cardinality(mqttList[b]) \in Nat /\ Cardinality(Enabled(active, b)) \in Nat
  BY <1>1, FS_CardinalityType
<1>. QED BY <1>1, <1>2, <1>3

\* A bridge with all its sessions is shown as started, as are all bridges.
Counted(b) == Cardinality(mqttList[b]) = Cardinality(Enabled(active, b))

CompleteIsStarted ==
  (DistinctNames(active) /\ ~restart) =>
    /\ \A b \in active.bridges \ active.disabled :
         (mqttList[b] # {} /\ Counted(b)) => bridgeEvent[b] = "started"
    /\ (Sessions # {} /\ \A b \in active.bridges \ active.disabled : Counted(b))
         => bridgesEvent = "started"

LEMMA ConfigBridges ==
  ASSUME NEW cfg \in ValidConfigs \cup {NoConfig} PROVE cfg.bridges \subseteq BridgeNames
<1>1. \A c \in ValidConfigs : c.bridges \subseteq BridgeNames
  BY ConfigAssumption DEF Config
<1>. QED BY <1>1 DEF NoConfig

LEMMA ActiveBridges == Inv => active.bridges \subseteq BridgeNames
  BY ConfigBridges DEF Inv, TypeOK

LEMMA EmptyIsStarted ==
  ASSUME Inv, mqttList = [b \in BridgeNames |-> {}]
  PROVE  CompleteIsStarted
<1>1. Sessions = {} /\ \A b \in active.bridges : mqttList[b] = {}
  BY ActiveBridges DEF Sessions
<1>. QED BY <1>1 DEF CompleteIsStarted

\* onConnack compares the numbers after it has added its session.
LEMMA ConnackCompletes ==
  ASSUME Inv, CompleteIsStarted, NEW f \in Flow, ConnackAccepted(f)
  PROVE  CompleteIsStarted'
<1>. SUFFICES ASSUME DistinctNames(active), ~restart
              PROVE  /\ \A b \in active.bridges \ active.disabled :
                          (mqttList'[b] # {} /\ Counted(b)') => bridgeEvent'[b] = "started"
                     /\ (\A b \in active.bridges \ active.disabled : Counted(b)')
                          => bridgesEvent' = "started"
  BY DEF CompleteIsStarted, ConnackAccepted, store, Enabled, DistinctNames, BrokerMap
<1>. DEFINE bridge == Lookup(f).bridge
<1>1. /\ UNCHANGED active /\ bridge \in BridgeNames
      /\ mqttList' = [mqttList EXCEPT ![bridge] = @ \cup {f}]
  BY LookupType DEF ConnackAccepted, AddMqtt, store
<1>2. \A b : Counted(b)' <=> Complete(active, b, mqttList'[b])
  <2>. TAKE b
  <2>1. Cardinality(Enabled(active, b)) = EnabledBroker(active, b)
    BY ActiveBrokers, EnabledAreCounted
  <2>2. Counted(b)' <=> Cardinality(mqttList'[b]) = Cardinality(Enabled(active, b))
    BY <1>1 DEF Counted, Enabled, BrokerMap
  <2>. QED BY <2>1, <2>2 DEF Complete
<1>3. /\ bridgeEvent' = IF Complete(active, bridge, mqttList'[bridge])
                        THEN [bridgeEvent EXCEPT ![bridge] = "started"] ELSE bridgeEvent
      /\ bridgesEvent' = IF \A b \in active.bridges :
                              Complete(active, b, mqttList'[b]) \/ b \in active.disabled
                         THEN "started" ELSE bridgesEvent
  BY DEF ConnackAccepted
<1>4. ASSUME NEW b \in active.bridges \ active.disabled, mqttList'[b] # {}, Counted(b)'
      PROVE  bridgeEvent'[b] = "started"
  <2>0. b \in BridgeNames
    BY ActiveBridges
  <2>1. CASE b = bridge
    BY <1>1, <1>2, <1>3, <1>4, <2>1 DEF Inv, TypeOK
  <2>2. CASE b # bridge
    <3>1. mqttList'[b] = mqttList[b]
      BY <1>1, <2>0, <2>2 DEF Inv, TypeOK
    <3>2. Counted(b)
      <4>1. Enabled(active, b)' = Enabled(active, b)
        BY <1>1 DEF Enabled, BrokerMap
      <4>. QED BY <1>4, <3>1, <4>1 DEF Counted
    <3>3. bridgeEvent[b] = "started"
      BY <1>4, <3>1, <3>2 DEF CompleteIsStarted
    <3>. QED BY <1>3, <2>0, <2>2, <3>3 DEF Inv, TypeOK
  <2>. QED BY <2>1, <2>2
<1>. QED BY <1>2, <1>3, <1>4

\* A bridge that loses a session is not complete any more.
LEMMA DisconnectedIsNotComplete ==
  ASSUME Inv, CompleteIsStarted, NEW f \in Flow, Disconnected(f)
  PROVE  CompleteIsStarted'
<1>. DEFINE bridge == Lookup(f).bridge
<1>1. /\ UNCHANGED <<active, restart, bridgesEvent>> /\ bridge \in BridgeNames
      /\ mqttList' = [mqttList EXCEPT ![bridge] = @ \ {f}]
      /\ bridgeEvent' = IF mqttList'[bridge] = {}
                        THEN [bridgeEvent EXCEPT ![bridge] = "stopped"] ELSE bridgeEvent
  BY LookupType DEF Disconnected, RemoveMqtt, LastMqttGone, store
<1>2. \A b \in BridgeNames :
        mqttList'[b] = IF b = bridge THEN mqttList[b] \ {f} ELSE mqttList[b]
  BY <1>1 DEF Inv, TypeOK
<1>3. \A b : Enabled(active, b)' = Enabled(active, b)
  BY <1>1 DEF Enabled, BrokerMap
<1>4. CASE f \in mqttList[bridge] /\ DistinctNames(active)
  <2>0. bridge \in active.bridges \ active.disabled
    <3>1. f \in FlowsOf(active, generation) /\ bridge = f.bridge
      BY <1>4, DistinctAreUnambiguous, FoundIsOwn DEF Disconnected, Inv, Current
    <3>2. PICK e \in BrokerMap(active) : e.bridge = bridge /\ e.bridge \notin active.disabled
      BY <3>1 DEF FlowsOf, Startable
    <3>3. active \in ValidConfigs
      BY <3>2 DEF Inv, TypeOK, BrokerMap, NoConfig
    <3>. QED BY <3>2, <3>3, ConfigAssumption DEF BrokerMap
  <2>1. ~Counted(bridge)'
    BY <1>1, <1>2, <1>3, <1>4, OneIsMissing DEF Counted
  <2>2. ASSUME ~restart, NEW b \in active.bridges \ active.disabled, mqttList'[b] # {}, Counted(b)'
        PROVE  bridgeEvent'[b] = "started"
    <3>1. b # bridge /\ b \in BridgeNames
      BY <2>1, <2>2, ActiveBridges
    <3>2. mqttList'[b] = mqttList[b] /\ Counted(b)
      BY <1>2, <1>3, <2>2, <3>1 DEF Counted
    <3>3. bridgeEvent[b] = "started"
      BY <1>4, <2>2, <3>2 DEF CompleteIsStarted
    <3>. QED BY <1>1, <3>1, <3>3 DEF Inv, TypeOK
  <2>. QED BY <1>1, <2>0, <2>1, <2>2 DEF CompleteIsStarted
<1>5. CASE f \notin mqttList[bridge]
  <2>1. mqttList' = mqttList
    BY <1>1, <1>5 DEF Inv, TypeOK
  <2>2. \A b : Counted(b)' <=> Counted(b)
    BY <1>3, <2>1 DEF Counted
  <2>3. \A b \in active.bridges : mqttList[b] # {} => bridgeEvent'[b] = bridgeEvent[b]
    BY <1>1, <2>1, ActiveBridges DEF Inv, TypeOK
  <2>. QED BY <1>1, <2>1, <2>2, <2>3 DEF CompleteIsStarted, Sessions, DistinctNames
<1>6. CASE ~DistinctNames(active)
  BY <1>1, <1>6 DEF CompleteIsStarted, DistinctNames
<1>. QED BY <1>4, <1>5, <1>6

LEMMA CompleteNext == Inv /\ CompleteIsStarted /\ [Next]_vars => CompleteIsStarted'
<1>. SUFFICES ASSUME Inv, CompleteIsStarted, [Next]_vars PROVE CompleteIsStarted'
  OBVIOUS
<1>0. Inv'
  BY InvNext
<1>1. ASSUME mqttList' = [b \in BridgeNames |-> {}] PROVE CompleteIsStarted'
  <2>1. Sessions' = {} /\ \A b \in active'.bridges : mqttList'[b] = {}
    <3>1. active'.bridges \subseteq BridgeNames
      BY <1>0, ConfigBridges DEF Inv, TypeOK
    <3>. QED BY <1>1, <3>1 DEF Sessions
  <2>. QED BY <2>1 DEF CompleteIsStarted
<1>2. ASSUME UNCHANGED <<mqttList, active, restart, bridgeEvent, bridgesEvent>>
      PROVE  CompleteIsStarted'
  <2>1. \A b : Counted(b)' <=> Counted(b)
    BY <1>2 DEF Counted, Enabled, BrokerMap
  <2>. QED BY <1>2, <2>1 DEF CompleteIsStarted, DistinctNames, Sessions
<1>3. CASE Boot
  <2>1. flowControllers = {}
    BY <1>3 DEF Boot, Inv, DownIsEmpty
  <2>2. mqttList = [b \in BridgeNames |-> {}]
    BY <2>1, NoFlowsNoSessions DEF Inv, TypeOK
  <2>. QED BY <1>1, <1>3, <2>2 DEF Boot, ActivateStaged
<1>4. ASSUME NEW cfg \in ValidConfigs, PatchAccepted(cfg) PROVE CompleteIsStarted'
  <2>1. CASE AllFlowsDone(flowControllers)
    BY <1>1, <1>4, <2>1 DEF PatchAccepted, RestartBridges, ActivateStaged
  <2>2. CASE ~AllFlowsDone(flowControllers)
    BY <1>4, <2>2 DEF PatchAccepted, CloseBridges, CompleteIsStarted
  <2>. QED BY <2>1, <2>2
<1>5. ASSUME NEW f \in Flow, FlowCompletes(f) PROVE CompleteIsStarted'
  <2>1. CASE AllFlowsDone(flowControllers \ {f}) /\ restart
    BY <1>1, <1>5, <2>1 DEF FlowCompletes, RestartBridges, ActivateStaged
  <2>2. CASE ~(AllFlowsDone(flowControllers \ {f}) /\ restart)
    BY <1>2, <1>5, <2>2 DEF FlowCompletes, sse
  <2>. QED BY <2>1, <2>2
<1>6. CASE Down
  BY <1>1, <1>6 DEF Down
<1>7. ASSUME NEW f \in Flow, Connect(f) \/ ConnackRefused(f) PROVE CompleteIsStarted'
  BY <1>2, <1>7 DEF Connect, ConnackRefused, store, sse
<1>8. CASE \E cfg \in InvalidConfigs : PatchRejected(cfg)
  BY <1>2, <1>8 DEF PatchRejected, sse
<1>9. CASE UNCHANGED vars
  BY <1>2, <1>9 DEF vars, store, sse
<1>. QED BY <1>3, <1>4, <1>5, <1>6, <1>7, <1>8, <1>9, ConnackCompletes, DisconnectedIsNotComplete
        DEF Next, Crash, CrashWhileSaving, CrashInLookup

\* A bridge shown as started has a session; one with a session for every enabled
\* broker is shown as started until a restart is requested, and all bridges are
\* once that holds of all of them.
THEOREM StartedWhenComplete == Spec => []StartedIsShown
<1>1. Init => CompleteIsStarted /\ Shown
  <2>. SUFFICES ASSUME Init PROVE CompleteIsStarted /\ Shown
    OBVIOUS
  <2>1. CompleteIsStarted
    BY InvInit, EmptyIsStarted DEF Init
  <2>2. Shown
    BY DEF Init, Shown, ShownConnected, Listed, StartedHasSession
  <2>. QED BY <2>1, <2>2
<1>2. Shown /\ CompleteIsStarted => StartedIsShown
  BY DEF Shown, StartedHasSession, CompleteIsStarted, Counted, Enabled, StartedIsShown, HasAllSessions
<1>. QED BY <1>1, <1>2, InvHolds, ShownNext, CompleteNext, PTL DEF Spec

-----------------------------------------------------------------------------
(* The refinement of Reconfiguration.                                      *)

Saved == IF file \in ValidConfigs THEN file ELSE NoConfig
Pending == IF restart THEN staged ELSE NoConfig
Held(e) == \E f \in Flow : /\ link[f] \in {"acked", "closing"}
                           /\ f.bridge = e.bridge /\ f.instance = e.instance
HeldSessions == {e \in Startable(active) : Held(e)}

\* brokerMap has one broker of each name.
LEMMA OneBrokerPerName ==
  ASSUME Inv, NEW d \in Startable(active), NEW e \in Startable(active),
         d.bridge = e.bridge, d.instance = e.instance
  PROVE  d = e
<1>. DEFINE brokers == active.brokers
<1>1. brokers \in Seq(BrokerEntry)
  BY ActiveBrokers
<1>2. PICK j \in DOMAIN brokers :
        /\ d = brokers[j]
        /\ \A k \in 1 .. j - 1 : ~ /\ brokers[k].bridge = brokers[j].bridge
                                   /\ brokers[k].instance = brokers[j].instance
  BY DEF Startable, BrokerMap
<1>3. PICK i \in DOMAIN brokers :
        /\ e = brokers[i]
        /\ \A k \in 1 .. i - 1 : ~ /\ brokers[k].bridge = brokers[i].bridge
                                   /\ brokers[k].instance = brokers[i].instance
  BY DEF Startable, BrokerMap
<1>4. DOMAIN brokers = 1 .. Len(brokers) /\ Len(brokers) \in Nat
  BY <1>1
<1>. HIDE DEF brokers
<1>5. ~(i < j) /\ ~(j < i)
  BY <1>2, <1>3, <1>4
<1>. QED BY <1>2, <1>3, <1>4, <1>5

\* Every flow with a connection is one to a broker that is served.
LEMMA FlowIsServed ==
  ASSUME Inv, NEW f \in Flow, link[f] # "none"
  PROVE  \E e \in Startable(active) : e.bridge = f.bridge /\ e.instance = f.instance
<1>1. f \in FlowsOf(active, generation)
  BY DEF Inv, Current
<1>. QED BY <1>1 DEF FlowsOf

\* A definition that is accepted waits for the restart.
LEMMA Accepts ==
  ASSUME NEW d \in ValidConfigs, Pending = NoConfig, Pending' = d, Saved' = Saved,
         active' = active, HeldSessions' = HeldSessions
  PROVE  Promise!Next
<1>1. Promise!Accept(d)
  BY DEF Promise!Accept, Saved, Pending, HeldSessions, Held
<1>. QED BY <1>1 DEF Promise!Next

\* activateStaged applies it.
LEMMA Applies ==
  ASSUME NEW d \in ValidConfigs, Pending \in {NoConfig, d}, HeldSessions = {},
         Saved' \in {d, Saved, NoConfig}, active' = d, Pending' = NoConfig, HeldSessions' = {}
  PROVE  Promise!Next
<1>1. Promise!Apply(d)
  BY DEF Promise!Apply, Saved, Pending, HeldSessions, Held
<1>. QED BY <1>1 DEF Promise!Next

LEMMA Opens ==
  ASSUME NEW k \in Startable(active), Pending' = Pending, Saved' = Saved, active' = active,
         HeldSessions' = HeldSessions \cup {k}
  PROVE  Promise!Next
<1>1. Promise!Open(k)
  BY DEF Promise!Open, Saved, Pending, HeldSessions, Held
<1>. QED BY <1>1 DEF Promise!Next

LEMMA Closes ==
  ASSUME NEW k \in HeldSessions, Pending' = Pending, Saved' = Saved, active' = active,
         HeldSessions' = HeldSessions \ {k}
  PROVE  Promise!Next
<1>1. Promise!Close(k)
  BY DEF Promise!Close, Saved, Pending, HeldSessions, Held
<1>. QED BY <1>1 DEF Promise!Next, HeldSessions, Held

LEMMA Dies ==
  ASSUME Pending' = NoConfig, active' = NoConfig, HeldSessions' = {},
         Saved' \in {Saved, NoConfig}
  PROVE  Promise!Next
<1>1. Promise!Die
  BY DEF Promise!Die, Saved, Pending, HeldSessions, Held
<1>. QED BY <1>1 DEF Promise!Next

LEMMA Recovers ==
  ASSUME active = NoConfig, Saved \in ValidConfigs, active' = Saved, Saved' \in {Saved, NoConfig},
         Pending' = Pending, HeldSessions' = HeldSessions
  PROVE  Promise!Next
<1>1. Promise!Recover
  BY DEF Promise!Recover, Saved, Pending, HeldSessions, Held
<1>. QED BY <1>1 DEF Promise!Next

LEMMA Stutters ==
  ASSUME Pending' = Pending, Saved' = Saved, active' = active, HeldSessions' = HeldSessions
  PROVE  UNCHANGED Promise!vars
  BY DEF Promise!vars, Saved, Pending, HeldSessions, Held

\* Without a session on any flow none is held.
LEMMA NothingHeld ==
  (\A f \in Flow : link[f] = "none") => HeldSessions = {}
  BY DEF HeldSessions, Held

\* What is held depends on the accepted sessions only.
LEMMA SameHeld ==
  ASSUME active' = active,
         \A f \in Flow : link'[f] \in {"acked", "closing"} <=> link[f] \in {"acked", "closing"}
  PROVE  HeldSessions' = HeldSessions
  BY DEF HeldSessions, Held

\* activateStaged without a connection applies what was accepted.
LEMMA RestartApplies ==
  ASSUME Inv, ActivateStaged(staged'), restart' = FALSE, UNCHANGED link,
         staged' \in ValidConfigs, Pending \in {NoConfig, staged'},
         \A f \in Flow : link[f] = "none"
  PROVE  Promise!Next
<1>1. HeldSessions = {} /\ HeldSessions' = {}
  BY NothingHeld DEF HeldSessions, Held
<1>2. Saved' \in {staged', Saved, NoConfig} /\ active' = staged' /\ Pending' = NoConfig
  BY DEF ActivateStaged, Saved, Pending
<1>. QED BY <1>1, <1>2, Applies

LEMMA PatchMaps ==
  ASSUME Inv, NEW cfg \in ValidConfigs, PatchAccepted(cfg)
  PROVE  Promise!Next
<1>1. restart = FALSE /\ staged' = cfg /\ Pending = NoConfig
  BY DEF PatchAccepted, PatchAllowed, Pending, Inv, TypeOK
<1>2. CASE flowControllers = {}
  <2>1. \A f \in Flow : link[f] = "none"
    BY <1>2 DEF Inv, Current
  <2>2. ActivateStaged(staged') /\ restart' = FALSE /\ UNCHANGED link
    BY <1>2 DEF PatchAccepted, AllFlowsDone, RestartBridges
  <2>. QED BY <1>1, <2>1, <2>2, RestartApplies
<1>3. CASE flowControllers # {}
  <2>1. /\ restart' = TRUE /\ active' = active /\ file' = file
        /\ link' = [f \in Flow |-> IF f \in Sessions THEN "closing" ELSE link[f]]
    BY <1>3 DEF PatchAccepted, AllFlowsDone, CloseBridges
  <2>2. \A f \in Flow : link'[f] \in {"acked", "closing"} <=> link[f] \in {"acked", "closing"}
    BY <2>1 DEF Inv, MqttListLive
  <2>3. Pending' = cfg /\ Saved' = Saved
    BY <1>1, <2>1 DEF Pending, Saved
  <2>. QED BY <1>1, <2>1, <2>2, <2>3, SameHeld, Accepts
<1>. QED BY <1>2, <1>3

LEMMA ConnackMaps ==
  ASSUME Inv, NEW f \in Flow, ConnackAccepted(f)
  PROVE  Promise!Next
<1>1. /\ link[f] = "connected" /\ link' = [link EXCEPT ![f] = "acked"]
      /\ UNCHANGED <<file, staged, active, restart>>
  BY DEF ConnackAccepted, store
<1>2. PICK e \in Startable(active) : e.bridge = f.bridge /\ e.instance = f.instance
  BY <1>1, FlowIsServed
<1>3. \A g \in Flow : link'[g] = IF g = f THEN "acked" ELSE link[g]
  BY <1>1 DEF Inv, TypeOK
<1>4. \A k : Held(k)' <=> Held(k) \/ (f.bridge = k.bridge /\ f.instance = k.instance)
  BY <1>1, <1>3 DEF Held
<1>5. \A k \in Startable(active) : (f.bridge = k.bridge /\ f.instance = k.instance) <=> k = e
  BY <1>2, OneBrokerPerName
<1>6. HeldSessions' = HeldSessions \cup {e}
  BY <1>1, <1>4, <1>5 DEF HeldSessions
<1>7. Pending' = Pending /\ Saved' = Saved
  BY <1>1 DEF Pending, Saved
<1>. QED BY <1>1, <1>6, <1>7, Opens

LEMMA DisconnectMaps ==
  ASSUME Inv, NEW f \in Flow, Disconnected(f)
  PROVE  [Promise!Next]_(Promise!vars)
<1>1. /\ link[f] # "none" /\ link' = [link EXCEPT ![f] = "none"]
      /\ UNCHANGED <<file, staged, active, restart>>
  BY DEF Disconnected, store
<1>2. PICK e \in Startable(active) : e.bridge = f.bridge /\ e.instance = f.instance
  BY <1>1, FlowIsServed
<1>3. \A g \in Flow : link'[g] = IF g = f THEN "none" ELSE link[g]
  BY <1>1 DEF Inv, TypeOK
<1>4. \A k \in Startable(active) : (f.bridge = k.bridge /\ f.instance = k.instance) <=> k = e
  BY <1>2, OneBrokerPerName
<1>5. \A g \in Flow : (link[g] # "none" /\ g.bridge = e.bridge /\ g.instance = e.instance) => g = f
  BY <1>1, <1>2, OneFlowPerBroker
<1>6. \A k \in Startable(active) : Held(k)' <=> Held(k) /\ k # e
  BY <1>3, <1>4, <1>5 DEF Held
<1>7. HeldSessions' = HeldSessions \ {e}
  BY <1>1, <1>6 DEF HeldSessions
<1>8. Pending' = Pending /\ Saved' = Saved
  BY <1>1 DEF Pending, Saved
<1>9. CASE e \in HeldSessions
  BY <1>1, <1>7, <1>8, <1>9, Closes
<1>10. CASE e \notin HeldSessions
  <2>1. HeldSessions' = HeldSessions
    BY <1>7, <1>10
  <2>. QED BY <1>1, <1>8, <2>1, Stutters
<1>. QED BY <1>9, <1>10

LEMMA FlowCompletesMaps ==
  ASSUME Inv, NEW f \in Flow, FlowCompletes(f)
  PROVE  [Promise!Next]_(Promise!vars)
<1>1. f \in flowControllers /\ link[f] = "none" /\ UNCHANGED <<up, link, staged>>
  BY DEF FlowCompletes
<1>2. CASE flowControllers \ {f} = {} /\ restart
  <2>1. \A g \in Flow : link[g] = "none"
    BY <1>1, <1>2 DEF Inv, Current
  <2>2. ActivateStaged(staged') /\ restart' = FALSE
    BY <1>2 DEF FlowCompletes, AllFlowsDone, RestartBridges
  <2>3. staged' \in ValidConfigs /\ Pending = staged'
    BY <1>1, <1>2 DEF Inv, RestartIsValid, Pending
  <2>. QED BY <1>1, <2>1, <2>2, <2>3, RestartApplies
<1>3. CASE ~(flowControllers \ {f} = {} /\ restart)
  <2>1. UNCHANGED <<file, active, restart>>
    BY <1>3 DEF FlowCompletes, AllFlowsDone
  <2>2. HeldSessions' = HeldSessions /\ Pending' = Pending /\ Saved' = Saved
    BY <1>1, <2>1 DEF HeldSessions, Held, Pending, Saved
  <2>. QED BY <2>1, <2>2, Stutters
<1>. QED BY <1>2, <1>3

LEMMA BootMaps ==
  ASSUME Inv, Boot
  PROVE  [Promise!Next]_(Promise!vars)
<1>1. restart = FALSE /\ active = NoConfig /\ flowControllers = {} /\ UNCHANGED <<restart, link>>
  BY DEF Boot, Inv, DownIsEmpty
<1>2. HeldSessions = {} /\ HeldSessions' = {}
  <2>1. \A f \in Flow : link[f] = "none"
    BY <1>1, NoFlowsNoSessions
  <2>. QED BY <1>1, <2>1 DEF HeldSessions, Held
<1>3. Pending' = Pending
  BY <1>1 DEF Pending
<1>4. CASE file \in ValidConfigs
  <2>1. Saved \in ValidConfigs /\ active' = Saved /\ Saved' \in {Saved, NoConfig}
    BY <1>4 DEF Boot, ActivateStaged, Saved
  <2>. QED BY <1>1, <1>2, <1>3, <2>1, Recovers
<1>5. CASE file \notin ValidConfigs
  <2>1. active' = active /\ Saved' = Saved
    BY <1>5 DEF Boot, Saved
  <2>. QED BY <1>2, <1>3, <2>1, Stutters
<1>. QED BY <1>4, <1>5

LEMMA DownMaps ==
  ASSUME Inv, Down, file' \in {file, NoConfig}
  PROVE  Promise!Next
<1>1. Pending' = NoConfig /\ active' = NoConfig /\ Saved' \in {Saved, NoConfig}
  BY ConfigAssumption DEF Down, Pending, Saved
<1>2. \A f \in Flow : link'[f] = "none"
  BY DEF Down
<1>3. HeldSessions' = {}
  BY <1>2 DEF HeldSessions, Held
<1>. QED BY <1>1, <1>3, Dies

LEMMA NextMaps == Inv /\ [Next]_vars => [Promise!Next]_(Promise!vars)
<1>. SUFFICES ASSUME Inv, [Next]_vars PROVE [Promise!Next]_(Promise!vars)
  OBVIOUS
<1>1. ASSUME NEW cfg \in InvalidConfigs, PatchRejected(cfg) PROVE UNCHANGED Promise!vars
  <2>1. HeldSessions' = HeldSessions /\ Pending' = Pending /\ Saved' = Saved /\ active' = active
    BY <1>1 DEF PatchRejected, PatchAllowed, HeldSessions, Held, Pending, Saved, Inv, TypeOK
  <2>. QED BY <2>1, Stutters
<1>2. ASSUME NEW f \in Flow, Connect(f) \/ ConnackRefused(f) PROVE UNCHANGED Promise!vars
  <2>1. /\ link[f] \in {"none", "connected"}
        /\ \/ link' = [link EXCEPT ![f] = "connected"]
           \/ link' = [link EXCEPT ![f] = "refused"]
        /\ UNCHANGED <<file, staged, active, restart>>
    BY <1>2 DEF Connect, Connecting, ConnackRefused, store
  <2>2. \A g \in Flow : link'[g] \in {"acked", "closing"} <=> link[g] \in {"acked", "closing"}
    BY <2>1 DEF Inv, TypeOK
  <2>3. HeldSessions' = HeldSessions /\ Pending' = Pending /\ Saved' = Saved
    BY <2>1, <2>2, SameHeld DEF Pending, Saved
  <2>. QED BY <2>1, <2>3, Stutters
<1>3. CASE Crash \/ CrashWhileSaving \/ \E f \in Flow : CrashInLookup(f)
  BY <1>3, DownMaps DEF Crash, CrashWhileSaving, CrashInLookup
<1>4. CASE UNCHANGED vars
  <2>1. HeldSessions' = HeldSessions /\ Pending' = Pending /\ Saved' = Saved /\ active' = active
    BY <1>4 DEF vars, store, HeldSessions, Held, Pending, Saved
  <2>. QED BY <2>1, Stutters
<1>. QED BY <1>1, <1>2, <1>3, <1>4, PatchMaps, ConnackMaps, DisconnectMaps, FlowCompletesMaps, BootMaps
        DEF Next

LEMMA InitMaps == Init => Promise!Init
<1>1. ASSUME Init PROVE Pending = NoConfig /\ active = NoConfig /\ HeldSessions = {}
  BY <1>1 DEF Init, Pending, HeldSessions, Held
<1>. QED BY <1>1 DEF Promise!Init, Pending, HeldSessions, Held

\* mqttbridge implements what it promises about replacing its definition: accept
\* one, drain the sessions, apply it.
THEOREM ImplementsReconfiguration == Spec => Reconfigures
<1>. QED BY InitMaps, NextMaps, InvHolds, PTL DEF Spec, Reconfigures, Promise!Spec

-----------------------------------------------------------------------------
(* The pages on the event stream.                                          *)

\* The log has an event of every announced broker.
LogNamesAnnounced ==
  \A b \in BridgeNames, i \in InstanceNames : Announced(b, i) => brokerEvent[b][i] # "none"

\* startBridges announces what it logs.
LEMMA StartingNamesAnnounced ==
  ASSUME NEW cfg, StartingEvents(cfg), active' = cfg
  PROVE  LogNamesAnnounced'
<1>1. \A b, i : StartingBrokerEvent(cfg, b, i) # "none"
                  <=> b \notin cfg.disabled /\ \E e \in BrokerMap(cfg) : e.bridge = b /\ e.instance = i
  <2>. TAKE b, i
  <2>. DEFINE entry == {e \in BrokerMap(cfg) : e.bridge = b /\ e.instance = i}
  <2>1. CASE entry = {} \/ b \in cfg.disabled
    <3>1. StartingBrokerEvent(cfg, b, i) = "none"
      BY <2>1 DEF StartingBrokerEvent
    <3>. QED BY <2>1, <3>1
  <2>2. CASE ~(entry = {} \/ b \in cfg.disabled)
    <3>1. StartingBrokerEvent(cfg, b, i) # "none"
      BY <2>2 DEF StartingBrokerEvent
    <3>. QED BY <2>2, <3>1
  <2>. QED BY <2>1, <2>2
<1>2. \A b \in BridgeNames, i \in InstanceNames :
        brokerEvent'[b][i] = StartingBrokerEvent(cfg, b, i)
  BY DEF StartingEvents
<1>. QED BY <1>1, <1>2 DEF LogNamesAnnounced, Announced

\* An event keeps the log as it was otherwise.
LEMMA EventKeepsAnnounced ==
  ASSUME Inv, LogNamesAnnounced, NEW c, NEW j, NEW e, e # "none",
         brokerEvent' = [brokerEvent EXCEPT ![c][j] = e],
         UNCHANGED active
  PROVE  LogNamesAnnounced'
<1>1. \A b \in BridgeNames, i \in InstanceNames :
        brokerEvent'[b][i] = IF b = c /\ i = j THEN e ELSE brokerEvent[b][i]
  BY DEF Inv, TypeOK
<1>2. \A b, i : Announced(b, i)' <=> Announced(b, i)
  BY DEF Announced
<1>. QED BY <1>1, <1>2 DEF LogNamesAnnounced

\* Without a definition nothing is announced.
LEMMA NoConfigAnnouncesNothing == \A b, i : active = NoConfig => ~Announced(b, i)
  BY DEF Announced, BrokerMap, NoConfig

\* The log has an event of every announced broker after every step.
LEMMA LogNamesNext == Inv /\ LogNamesAnnounced /\ [Next]_vars => LogNamesAnnounced'
<1>. SUFFICES ASSUME Inv, LogNamesAnnounced, [Next]_vars PROVE LogNamesAnnounced'
  OBVIOUS
<1>1. CASE UNCHANGED <<active, brokerEvent>>
  BY <1>1 DEF LogNamesAnnounced, Announced
<1>2. CASE Boot
  <2>1. CASE file \in ValidConfigs
    BY <1>2, <2>1, StartingNamesAnnounced DEF Boot, ActivateStaged, StartBridges
  <2>2. CASE file \notin ValidConfigs
    BY <1>2, <2>2, StartingNamesAnnounced DEF Boot, StartBridges, Inv, DownIsEmpty
  <2>. QED BY <2>1, <2>2
<1>3. ASSUME NEW cfg \in ValidConfigs, PatchAccepted(cfg) PROVE LogNamesAnnounced'
  <2>1. CASE AllFlowsDone(flowControllers)
    BY <1>3, <2>1, StartingNamesAnnounced
       DEF PatchAccepted, RestartBridges, ActivateStaged, StartBridges
  <2>2. CASE ~AllFlowsDone(flowControllers)
    <3>1. /\ active' = active
          /\ \A b \in BridgeNames, i \in InstanceNames :
               brokerEvent'[b][i] = IF \E m \in mqttList[b] : Lookup(m).instance = i
                                    THEN "disconnecting" ELSE brokerEvent[b][i]
      BY <1>3, <2>2 DEF PatchAccepted, CloseBridges
    <3>. QED BY <3>1 DEF LogNamesAnnounced, Announced
  <2>. QED BY <2>1, <2>2
<1>4. ASSUME NEW f \in Flow, ConnackAccepted(f) PROVE LogNamesAnnounced'
  <2>1. UNCHANGED active
    BY <1>4 DEF ConnackAccepted, store
  <2>. QED BY <1>4, <2>1, EventKeepsAnnounced DEF ConnackAccepted
<1>5. ASSUME NEW f \in Flow, Disconnected(f) PROVE LogNamesAnnounced'
  <2>1. UNCHANGED active
    BY <1>5 DEF Disconnected, store
  <2>. QED BY <1>5, <2>1, EventKeepsAnnounced DEF Disconnected
<1>6. ASSUME NEW f \in Flow, FlowCompletes(f) PROVE LogNamesAnnounced'
  <2>1. CASE AllFlowsDone(flowControllers \ {f}) /\ restart
    BY <1>6, <2>1, StartingNamesAnnounced
       DEF FlowCompletes, RestartBridges, ActivateStaged, StartBridges
  <2>2. CASE ~(AllFlowsDone(flowControllers \ {f}) /\ restart)
    BY <1>1, <1>6, <2>2 DEF FlowCompletes, sse
  <2>. QED BY <2>1, <2>2
<1>7. CASE Down
  <2>1. \A b \in BridgeNames, i \in InstanceNames : brokerEvent'[b][i] = "none"
    BY <1>7 DEF Down, NoEvents
  <2>2. \A b, i : ~Announced(b, i)'
    BY <1>7 DEF Down, Announced, BrokerMap, NoConfig
  <2>. QED BY <2>1, <2>2 DEF LogNamesAnnounced
<1>8. ASSUME NEW f \in Flow, Connect(f) \/ ConnackRefused(f) PROVE LogNamesAnnounced'
  BY <1>1, <1>8 DEF Connect, ConnackRefused, sse, store
<1>9. CASE \E cfg \in InvalidConfigs : PatchRejected(cfg)
  BY <1>1, <1>9 DEF PatchRejected, sse
<1>10. CASE UNCHANGED vars
  BY <1>1, <1>10 DEF vars, sse, store
<1>. QED BY <1>2, <1>3, <1>4, <1>5, <1>6, <1>7, <1>8, <1>9, <1>10 DEF Next, Crash, CrashWhileSaving, CrashInLookup

\* The log is only cleared of brokers that have no session.
LEMMA ClearedHasNoSession ==
  ASSUME Inv, ShownConnected, Next, up', NEW b \in BridgeNames, NEW i \in InstanceNames,
         brokerEvent'[b][i] = "none"
  PROVE  brokerEvent[b][i] \notin WithSession
<1>1. CASE flowControllers = {}
  BY <1>1, NoFlowsNoSessions DEF ShownConnected, WithSession, Listed
<1>2. CASE brokerEvent' = brokerEvent
  BY <1>2 DEF WithSession
<1>3. CASE Boot
  BY <1>1, <1>3 DEF Boot, Inv, DownIsEmpty
<1>4. ASSUME NEW cfg \in ValidConfigs, PatchAccepted(cfg)
      PROVE  brokerEvent[b][i] \notin WithSession
  <2>1. CASE flowControllers # {}
    BY <1>4, <2>1 DEF PatchAccepted, AllFlowsDone, CloseBridges, WithSession
  <2>. QED BY <1>1, <2>1
<1>5. ASSUME NEW f \in Flow, ConnackAccepted(f) \/ Disconnected(f)
      PROVE  brokerEvent[b][i] \notin WithSession
  <2>1. PICK e \in {"connected", "disconnected"} :
          brokerEvent' = [brokerEvent EXCEPT ![Lookup(f).bridge][Lookup(f).instance] = e]
    BY <1>5 DEF ConnackAccepted, Disconnected
  <2>2. \/ brokerEvent'[b][i] = e
        \/ brokerEvent'[b][i] = brokerEvent[b][i]
    BY <2>1 DEF Inv, TypeOK
  <2>. QED BY <2>2 DEF WithSession
<1>6. ASSUME NEW f \in Flow, FlowCompletes(f)
      PROVE  brokerEvent[b][i] \notin WithSession
  <2>1. CASE AllFlowsDone(flowControllers \ {f}) /\ restart
    <3>1. \A g \in Flow : link[g] = "none"
      BY <1>6, <2>1 DEF FlowCompletes, AllFlowsDone, Inv, Current
    <3>2. \A c \in BridgeNames : \A m \in mqttList[c] : m \in Flow /\ m \in Sessions
      BY DEF Inv, TypeOK, Sessions
    <3>3. mqttList[b] = {}
      BY <3>1, <3>2 DEF Inv, MqttListLive
    <3>. QED BY <3>3 DEF ShownConnected, WithSession, Listed
  <2>. QED BY <1>2, <1>6, <2>1 DEF FlowCompletes, sse
<1>7. ASSUME NEW f \in Flow, Connect(f) \/ ConnackRefused(f)
      PROVE  brokerEvent[b][i] \notin WithSession
  BY <1>2, <1>7 DEF Connect, ConnackRefused, sse
<1>8. CASE \E cfg \in InvalidConfigs : PatchRejected(cfg)
  BY <1>2, <1>8 DEF PatchRejected, sse
<1>. QED BY <1>3, <1>4, <1>5, <1>6, <1>7, <1>8 DEF Next, Crash, CrashWhileSaving, CrashInLookup, Down

\* A page that was not cut off has missed no event, and the others know the
\* brokers that the log has an event of.
PagesFollowLog ==
  /\ receivers \subseteq Pages
  /\ status \in [Pages -> SUBSET Brokers]
  /\ \A p \in Pages : p \notin receivers /\ p \notin cutOff => status[p] = {}
  /\ \A p \in receivers, b \in BridgeNames, i \in InstanceNames :
       (brokerEvent[b][i] # "none" \/ p \notin cutOff) =>
         (<<b, i>> \in status[p] <=> brokerEvent[b][i] \in WithSession)

FollowInv == Inv /\ Shown /\ LogNamesAnnounced

\* What a page shows of a broker after events.
LEMMA HandledEvents ==
  ASSUME NEW shown, NEW events, NEW b \in BridgeNames, NEW i \in InstanceNames
  PROVE  <<b, i>> \in Handled(shown, events) <=>
           \/ events[b][i] \in WithSession
           \/ events[b][i] = "none" /\ <<b, i>> \in shown
  BY DEF Handled, Brokers

\* A step of the program sends its events to the pages on the stream.
LEMMA FollowsSendEvent ==
  ASSUME FollowInv, PagesFollowLog, Next, SendEvent
  PROVE  PagesFollowLog'
<1>1. receivers' \subseteq receivers /\ receivers' \subseteq Pages
  BY DEF SendEvent, PagesFollowLog
<1>2. status' \in [Pages -> SUBSET Brokers]
  BY DEF SendEvent, PagesFollowLog, Handled
<1>3. ASSUME NEW p \in Pages, p \notin receivers', p \notin cutOff'
      PROVE  status'[p] = {}
  <2>1. p \notin receivers /\ p \notin cutOff
    BY <1>3 DEF SendEvent
  <2>. QED BY <2>1 DEF SendEvent, PagesFollowLog
<1>4. ASSUME NEW p \in receivers', NEW b \in BridgeNames, NEW i \in InstanceNames,
             brokerEvent'[b][i] # "none" \/ p \notin cutOff'
      PROVE  <<b, i>> \in status'[p] <=> brokerEvent'[b][i] \in WithSession
  <2>. DEFINE old == brokerEvent[b][i]
              new == brokerEvent'[b][i]
  <2>1. up' /\ p \in receivers /\ p \in Pages /\ cutOff' = cutOff
    BY <1>1, <1>4 DEF SendEvent
  <2>2. status'[p] = Handled(status[p], SentEvents)
    BY <2>1 DEF SendEvent
  <2>3. SentEvents[b][i] = IF new = old THEN "none" ELSE new
    BY DEF SentEvents
  <2>4. <<b, i>> \in status'[p] <=> \/ SentEvents[b][i] \in WithSession
                                    \/ SentEvents[b][i] = "none" /\ <<b, i>> \in status[p]
    <3>1. <<b, i>> \in Handled(status[p], SentEvents) <=>
            \/ SentEvents[b][i] \in WithSession
            \/ SentEvents[b][i] = "none" /\ <<b, i>> \in status[p]
      BY HandledEvents
    <3>. QED BY <2>2, <3>1, Zenon
  <2>5. CASE new = old
    <3>1. old # "none" \/ p \notin cutOff
      BY <1>4, <2>1, <2>5
    <3>. QED BY <2>1, <2>3, <2>4, <2>5, <3>1 DEF PagesFollowLog, WithSession
  <2>6. CASE new # old /\ new = "none"
    <3>1. p \notin cutOff
      BY <1>4, <2>1, <2>6
    <3>2. old \notin WithSession
      BY <2>1, <2>6, ClearedHasNoSession DEF FollowInv, Shown
    <3>. QED BY <2>1, <2>3, <2>4, <2>6, <3>1, <3>2 DEF PagesFollowLog, WithSession
  <2>7. CASE new # old /\ new # "none"
    BY <2>3, <2>4, <2>7 DEF WithSession
  <2>. QED BY <2>5, <2>6, <2>7
<1>. QED BY <1>1, <1>2, <1>3, <1>4 DEF PagesFollowLog

\* A page that connects is told the events since the last bridges_starting.
LEMMA FollowsAddEventReceiver ==
  ASSUME FollowInv, PagesFollowLog, NEW p \in Pages, AddEventReceiver(p)
  PROVE  PagesFollowLog'
<1>1. /\ p \notin receivers
      /\ receivers' = receivers \cup {p}
      /\ status' = [status EXCEPT ![p] = Handled(status[p], brokerEvent)]
      /\ UNCHANGED <<brokerEvent, active, cutOff>>
  BY DEF AddEventReceiver, Replayed, vars, store, sse
<1>2. status' \in [Pages -> SUBSET Brokers]
  BY <1>1 DEF PagesFollowLog, Handled
<1>3. status'[p] = Handled(status[p], brokerEvent)
      /\ \A q \in Pages : q # p => status'[q] = status[q]
  BY <1>1 DEF PagesFollowLog
<1>4. ASSUME NEW b \in BridgeNames, NEW i \in InstanceNames,
             brokerEvent[b][i] # "none" \/ p \notin cutOff
      PROVE  <<b, i>> \in status'[p] <=> brokerEvent[b][i] \in WithSession
  <2>1. brokerEvent[b][i] # "none" \/ status[p] = {}
    BY <1>1, <1>4 DEF PagesFollowLog
  <2>2. <<b, i>> \in status'[p] <=> \/ brokerEvent[b][i] \in WithSession
                                    \/ brokerEvent[b][i] = "none" /\ <<b, i>> \in status[p]
    <3>1. <<b, i>> \in Handled(status[p], brokerEvent) <=>
            \/ brokerEvent[b][i] \in WithSession
            \/ brokerEvent[b][i] = "none" /\ <<b, i>> \in status[p]
      BY HandledEvents
    <3>. QED BY <1>3, <3>1, Zenon
  <2>. QED BY <2>1, <2>2 DEF WithSession
<1>. QED BY <1>1, <1>2, <1>3, <1>4 DEF PagesFollowLog

\* A page whose stream ends, or that is loaded again, is told nothing.
LEMMA FollowsPage ==
  ASSUME PagesFollowLog, NEW p \in Pages, OnDisconnected(p) \/ Reload(p)
  PROVE  PagesFollowLog'
<1>1. UNCHANGED <<brokerEvent, active>>
  BY DEF OnDisconnected, Reload, vars, store, sse
<1>2. CASE OnDisconnected(p)
  BY <1>1, <1>2 DEF OnDisconnected, PagesFollowLog, Announced
<1>3. CASE Reload(p)
  BY <1>1, <1>3 DEF Reload, PagesFollowLog, Announced
<1>. QED BY <1>2, <1>3

\* Every step of the program and its pages keeps the invariant.
LEMMA FollowsNext == FollowInv /\ PagesFollowLog /\ [StatusNext]_statusVars => FollowInv' /\ PagesFollowLog'
<1>. SUFFICES ASSUME FollowInv, PagesFollowLog, [StatusNext]_statusVars
              PROVE  FollowInv' /\ PagesFollowLog'
  OBVIOUS
<1>1. [Next]_vars
  BY DEF StatusNext, AddEventReceiver, OnDisconnected, Reload, statusVars
<1>2. FollowInv'
  BY <1>1, InvNext, ShownNext, LogNamesNext DEF FollowInv
<1>3. Next /\ SendEvent => PagesFollowLog'
  BY <1>2, FollowsSendEvent DEF FollowInv
<1>4. ASSUME UNCHANGED statusVars PROVE PagesFollowLog'
  <2>1. UNCHANGED <<receivers, status, cutOff, brokerEvent, active>>
    BY <1>4 DEF statusVars, page, vars, store, sse
  <2>. QED BY <2>1 DEF PagesFollowLog, Announced
<1>5. PagesFollowLog'
  BY <1>3, <1>4, FollowsAddEventReceiver, FollowsPage DEF StatusNext
<1>. QED BY <1>2, <1>5

\* A page on the event stream shows an announced broker as connected only while a
\* session of it is in mqttList, and always then where names are unambiguous, also
\* after it was cut off; a page that never was does so for all brokers.
THEOREM PagesShowSessions == StatusSpec => []PageShowsSessions
<1>1. StatusInit => FollowInv /\ PagesFollowLog
  <2>. SUFFICES ASSUME StatusInit PROVE FollowInv /\ PagesFollowLog
    OBVIOUS
  <2>1. Init
    BY DEF StatusInit
  <2>2. LogNamesAnnounced
    BY <2>1, NoConfigAnnouncesNothing DEF Init, LogNamesAnnounced
  <2>3. Shown
    BY <2>1 DEF Init, Shown, ShownConnected, Listed, StartedHasSession
  <2>4. PagesFollowLog
    BY DEF StatusInit, PagesFollowLog
  <2>. QED BY <2>1, <2>2, <2>3, <2>4, InvInit DEF FollowInv
<1>2. FollowInv /\ PagesFollowLog => PageShowsSessions
  BY DEF FollowInv, Shown, ShownConnected, LogNamesAnnounced, PagesFollowLog, PageShowsSessions,
         WithSession
<1>. QED BY <1>1, <1>2, FollowsNext, PTL DEF StatusSpec
=============================================================================
