# A TLA+ model of MQTTSuite

MQTTSuite (`src/`) is a set of C++ programs on the SNode.C framework: an MQTT
broker, a bridge between brokers, an integrator that translates messages, a
writer to a database and a command line client.  This directory holds TLA+
modules of its own logic, TLC configurations that check them on small
instances, and proofs for TLAPS.

SNode.C, which owns sockets, HTTP, the MQTT packets, timers and the event loop,
is not part of the repository.  What a program can see of it is modelled from
how the code uses it: a connection opens, is answered, is refused or fails when
the model likes; the callbacks run one at a time, each to its end.

## 1. Inventory

| component | state | operations | interacts with |
|---|---|---|---|
| mqttbridge: definition and restart (`mqttbridge.cpp`, `BridgeStore`, `Bridge`) | active and staged definition, its file, `bridgeMap`, `flowControllers`, `restart`, `mqttList` | load, `PATCH /api/bridge/config`, activate, start and close the bridges, flow completed | flows of SNode.C, sessions, event log |
| mqttbridge: forwarding (`Bridge::publish`, `Mqtt`) | `mqttList` of each bridge | publish received, session up and down | MQTT servers |
| mqttbridge: events (`SSEDistributor`) | receivers, replayed events, event id | one event for each change, replay to a new receiver | all of the above, status pages |
| mqttbridge: configuration page (`html/assets/index-BxYgfnMW.js`) | the definition it shows, its edit, its baseline, the status it shows | load, edit, save as a JSON patch, handle events, connect again | definition and restart, events |
| delayed publishing (`DelayedQueue` of mqttbroker and mqttintegrator) | heap, sequence number, one timer | schedule, timer, end of the session | `MqttMapper`, broker or server |
| mqttintegrator: subscriptions (`mqttintegrator/lib/Mqtt.cpp`) | open sessions, their `currentSubscriptions` | connect, CONNACK, hot reload, reconnect | mapping administration, MQTT server |
| mapping administration (`MappingAdminRouter`, `JsonMappingReader`, `ConfigApplication`) | mapping file, draft, backups | save draft, deploy, rollback, start | `MqttMapper`, sessions |
| `MqttMapper` | mapping in force, plugins | set mapping, extract subscriptions, find the topic level, translate | plugins, sessions |
| mqttbroker (`Mqtt`, `MqttModel`, admin requests) | map of clients, event receivers | connect, (un)subscribe, publish, release, disconnect | SNode.C's broker, dashboard |
| mqttbroker: embedded mapper (`Mqtt::onPublish`, `DelayedQueue`) | the messages being translated, those that wait | translate a publish and what comes of it | `MqttMapper`, delayed publishing, SNode.C's broker |
| mqttstore (`Mqtt`, `MariaDbStorage`, `StoragePlan`) | projection plan | session, insert of a message and its projections | MQTT server, MariaDB |
| mqttcli (`mqttcli/lib/Mqtt.cpp`) | one session | subscribe, publish, disconnect when done | MQTT server |
| WebSocket factories, command line sections, inja (vendored), the React and chart code in the web bundles, build files | none of their own | | |

What is hard in it:

* **Lifetime.**  Sessions refer to objects of a definition that is torn down
  and rebuilt while connections open and close.
* **Restart.**  It is asynchronous, is triggered by the last of several
  completions, and must not be lost, repeated or fed with another definition.
* **Partial failure.**  A deploy touches a draft, a backup, the mapping, its
  plugins, the file and the sessions, and may fail or die after each.
* **Races with sessions.**  A deploy may find a session at any point of its
  opening or closing; subscriptions are sent incrementally.
* **Timers.**  One timer serves a heap, is re-armed from within its own
  callback, and may fire early.
* **Loops.**  Bridges and mappings publish what they receive.
* **Stale views.**  Pages edit and show copies of a state that others change,
  over connections that end and begin again.

What makes each component correct is listed with its module below;
`PROJECT.json` lists the places where it could go wrong under `hazards`.

## 2. Modules

| module | models | proofs |
|---|---|---|
| `MqttBridge` | definition, flows, sessions, restart, crashes and the events of mqttbridge | `MqttBridgeProofs` |
| `Reconfiguration` | what `MqttBridge` promises: accept, drain, apply | |
| `BridgeStatus` | the event stream of `MqttBridge` and the pages on it | `MqttBridgeProofs` |
| `ConfigPage` | configuration pages that load, edit and save beside the server | `ConfigPageProofs` |
| `ConfigPatch` | the definition as a JSON document: normal form, difference, patch, edits | |
| `BridgePages` | `ConfigPage` with the documents of `ConfigPatch` | |
| `BridgeForwarding` | `Bridge::publish` between servers | `BridgeForwardingProofs` |
| `DelayedQueue` | the heap and timer of delayed publishes | `MqttBrokerProofs` |
| `DelayLine` | what `DelayedQueue` promises: earliest first, never early | |
| `MappingAdmin` | draft, deploy, rollback, backups, plugins, crashes | `MappingAdminProofs` |
| `Integrator` | the subscriptions of mqttintegrator across deploys and reconnects | `IntegratorProofs` |
| `TopicMapping` | the topic tree of a mapping: subscriptions and dispatch | `MqttBrokerProofs` |
| `RuleTranslation` | static, value and json rules of one topic level | `MqttBrokerProofs` |
| `SelfMapping` | the mapper inside mqttbroker, which translates what it publishes | `MqttBrokerProofs` |
| `BrokerModel` | `MqttModel` of mqttbroker beside the framework's broker, admin requests, event stream | `MqttBrokerProofs` |
| `Dashboard` | the page that handles the event stream, as functions of a page | |
| `MessageStore` | mqttstore: sessions, statements and the database client | `MessageStoreProofs` |
| `StoragePlan` | the projections of mqttstore, as functions of a message | `MessageStoreProofs` |
| `OneShotClient` | mqttcli: one session with its command line | `OneShotClientProofs` |

Modules `MC...` give the constants values for TLC.  `DelayedQueue` refines
`DelayLine` and `MqttBridge` refines `Reconfiguration`; `TopicMapping` composes
with `RuleTranslation`, `SelfMapping` with both, `BrokerModel` with
`Dashboard`, `MqttBridge` with its pages in `BridgeStatus`, `ConfigPage` with
`ConfigPatch`, `MessageStore` with `StoragePlan`.  Definitions named
`..._Mutant<n>` are slips that the definition after them is compared with; no
specification uses them.

### MqttBridge

One action per callback.  `PatchAccepted`, `PatchRejected` are the PATCH
handler (409 during a restart is its guard `PatchAllowed`); `ActivateStaged`,
`StartBridges`, `RestartBridges`, `CloseBridges` are the functions of the same
names and are steps of the actions that call them, never actions of their own.
`Connect`, `ConnackAccepted`, `ConnackRefused`, `Disconnected` follow a
connection (`link`); `FlowCompletes` is `onFlowCompleted`.  `generation` counts
calls of `activateStaged`: a flow carries the generation it was started in, as
its sessions hold references to `Broker` objects of that generation.
`bridgesEvent`, `bridgeEvent` and `brokerEvent` are what the replayed events
add up to for a client that connects now.  `Crash` and `CrashWhileSaving` end
the process between callbacks and inside the write of the definition file;
`activateStaged` does not look whether the file could be opened and written, so
after it the file has the new definition, what it had before, or is torn.

The schema allows a `+` in names, so a name is the sequence of what its `+`
separate.  A client instance is named bridge, `+`, broker (`FullName`), and
`getBroker` splits that at the first `+` (`Lookup`): for the bridge `a+b` it
looks in the bridge `a`, and finds another bridge's broker or none.  It does
not check what it found; of what may come of that the model has the end of the
process (`CrashInLookup`).  A session that was looked up as another bridge's is
in that bridge's list and events, as in the code.

Properties: no connection or flow outlives its definition, and `getBroker` finds
a flow's own broker if its bridge has no `+` in its name (`NoStaleBroker`);
`mqttList` has exactly the open accepted sessions (`MqttListLive`); a restart
always has a completion left that performs it (`RestartHasWaker`); what the
event log shows (`ShownConnected`, `StartedIsShown`), with exceptions where two
client instances have one name (`Unambiguous`); an accepted definition is
the one applied (`AcceptedIsApplied`); the whole implements `Reconfiguration`
(`Reconfigures`), with the refinement mapping at the end of the module; a
restart ends (`RestartFinishes`).

### BridgeStatus

`MqttBridge` with its event stream: every step of it is a step of
`BridgeStatus` together with `SendEvent`, which hands the step's events to the
pages in `eventReceiverList`.  A page that connects is told the replayed events
on top of what it showed (`AddEventReceiver`): the page's listeners replace
what it showed of a broker and clear nothing at `bridges_starting`, and a page
that lost its stream (`OnDisconnected`, or the process) connects again by
itself.  Of the status only the brokers matter to the property.
`PageShowsSessions`: a page on the stream shows a broker of an enabled bridge
as connected only while a session of it is in `mqttList`, and always then where
no two client instances have one name, whatever it missed; a page that was never
cut off (`cutOff`) does so for all brokers.  One that was
cut off may go on showing a broker of an earlier definition as connected, as no
later event is about it.

### ConfigPage, ConfigPatch and BridgePages

A page has the definition it shows (`shown`), the one it would save (`current`)
and the one it believes the server to have (`baseline`); each save is the
difference from `baseline` to `current`, sent as a JSON patch that the server
applies to its own definition.  `Load`, `Change`, `Save`, `SaveSucceeds` and
`SaveFails` are the page's callbacks, `PatchAccepted` and `PatchRefused` the
server's handler.  `ConfigPage` leaves the documents open; `ConfigPatch` has
them, with the page's `Normal` form, its `Diff`, the `Patched` of the JSON
library, the schema's `Valid` and `Completed`, and the page's edits.  A bridge
has a name, `disabled` and brokers; of the members of a broker there is one.
Properties: the baseline of a page that nothing came between (`disturbed`) is
what the server accepted last (`BaselineIsAccepted`); a save of such a page is
refused only for a reason (`SavesWhatItShows`); a save leaves alone what
another page changed and this one did not (`ForeignChangesKept`).  A page is
disturbed by a load during a restart, by another page's accepted save, by a
lost answer, by a process that dies with a definition that was not saved, and by
its own save before the answer to the last.

### BridgeForwarding

A message is its number, its topic as a sequence of parts, and the session it
is on its way to; messages in flight are a bag and are taken in any order.  The
servers (`Delivered`) and other clients are outside the program.  Properties:
no message reaches a server twice or returns (`AtMostOnce`): it is proved for
bridges that form no cycle (`NoCycle`), where loop prevention or the bridge's
prefix keeps a session from receiving what it published (`NoEcho`), and checked
for a cycle that prefixes break; a bridge whose sessions are steady reaches all
its servers (`AllServed`; `disturbed` is the history of sessions that were not);
forwarding ends (`ForwardingEnds`), also in that cycle and when servers echo,
because of the prefixes.

### DelayedQueue

`DelayPublish` is called from a received publish and, in mqttbroker
(`Remapping`), from inside the loop of `processDue`.  `TimerFires`, `PopDue`,
`LoopEnds` are that callback: it reads the clock once, takes what is due one by
one, re-arms.  `loop` is the clock value it read.  `Early` is how much too early
the framework's timer may fire.  Properties: while publishes wait a timer guards
the earliest of them, and none survives the session (`TimerGuards`); the heap
and its timer are a delay line, which sends earliest first, first come first
among equals, and nothing early (`IsDelayLine`); what waits is sent while the
session lasts (`EventuallySent`).

### MappingAdmin

`Deploy`, `DeployNothing` and `Rollback` are the handlers, with every call they
make: `Archives` (backup and pruning, which may stop before its end),
`SetMapping` or one of the two ways it throws (`Rejected` after the plugins were
closed, `PluginFails` after the mapping was replaced), `persistMapping`, and the
reload of the sessions (`applied`).  Nobody notices that `persistMapping` could
not open the file (`persisted`), nor that the file it has truncated did not take
the mapping: it is torn then (`Torn`), while the deploy is answered with success.
`DeployFails` and `RollbackFails` are the file operations that do throw
(`copy_file`, `remove`), and the `Crash...` actions end the process between any
two file operations of a handler and during each write.
Properties: what is in force, applied and loaded agrees unless the last request
was answered with an error, and the file agrees if it could be opened, or is torn
(`InForce`); the loaded plugins always belong to the mapping in force
(`PluginsOfMapping`); a file torn in the deploy of a draft has its content from
before among the backups, and one torn in a rollback the version rolled back to
(`TornHasBackup`; `owed` is the history of what should be there); the file only
ever takes the mapping in force, or is torn (`FileFollowsMapping`); pruning
keeps the newest (`NewestKept`).  A deploy without a draft makes no backup, so
that nothing is owed when it tears the file; and a deploy over a torn file backs
up the torn one.  The next start takes the mapping from the file only if one is
named on the command line; else mqttintegrator's built-in mapping replaces it
(`Boot`).

### Integrator

An instance's session: `Connect`, `OnConnack`, `Closed`, `Dropped`; packets to
the server are a queue that is lost with the connection.  `Deploy` is
`setMapping` and `updateSubscriptions`: `Reconnect` or `HotReload`
(`Resubscribe`).  `DeployFails` is a `setMapping` that throws after it replaced
the mapping.  `onConnack` does not look whether there is anything to subscribe
to, and MQTT forbids a SUBSCRIBE without a topic: `ServerRefuses` closes the
connection, and the client reconnects.  Subscriptions are sequences, as
`extractSubscriptions` yields them: a topic of two levels is in them twice, and
the server keeps the last entry of a packet (`Lasting`).  A mapping's
connection section says whether the session is a clean one; the server keeps
one that is not. `kept`, `tainted`, `stale` and `doubled` are history variables
for the properties.  Properties: a settled session is subscribed as the mapping
says, whenever deploys came (`SubscribedAsMapped`), with two exceptions that
are the code's: a kept session that missed a change, because its SUBSCRIBE was
lost or the mapping changed between two connections, is not subscribed again,
as CONNACK reports a session (`stale`); and a topic given twice may be lost, as
UNSUBSCRIBE is by name (`doubled`).  Topics that stay are not interrupted
(`Uninterrupted`); an open session has the connection section in force
(`ConnectedAsMapped`); everything converges (`Converges`), but for a mapping
with clean sessions and no subscriptions, with which the client connects and is
refused again and again (`NeverSettles`).

### TopicMapping and RuleTranslation

Pure algorithms.  The topic levels of a mapping are numbered in the order of
the document, each with the number of the level it is an entry of (`parent`; 0
is the mapping itself); `IsTree` says which numberings are documents.
`FindMatchingTopicLevel` is the recursive search: `search[k][n]` looks below
the level `n` for the topic from its `k`-th level on, entry by entry, and ends
with the first that finds something.  It is compared with the names that lead to
each level (`Path`): the level found is the first that fits
(`FirstInDocument`).  The filters that are subscribed to (`Filter`) join these
names with slashes, as `extractSubscription` does; a name may have slashes
itself, and then joins into a filter of more levels (`NameLevels`), of which no
message is ever dispatched to the level.  `GetMappings` is what the rules of the level found
make of a payload, in the three loops of the code: `StaticMappings`, then
`TemplateMappings` of the value rules, then of the json rules if the payload
parses.  A template is what it renders each payload to, errors included; what
the storage plugin remembers between messages is outside.  The render data
that a list of rules shares are the values of the loop's recursive function
(`rest` is `"skipped"` after an exception that ends the loop).  The publishes
come in two lists, as in the code: those for now and those with a delay.
`RulesApplyAlone`: a
level publishes what each of its rules publishes alone.  It excepts exactly
the rules for which the code does otherwise: those whose topic refers to
`mapped_topic`, and lists in which something but an inja error is thrown.

### SelfMapping

The mapper of mqttbroker.  A received message is translated, and each message
that comes of it is published and translated in turn: at once by recursion
(`calls` is the stack of `onPublish`), or when its delay is over (`waiting`).
Properties: what comes of a message at once is published depth first
(`ConsequencesFirst`; `Agenda` is what is still to be translated after so many
messages when what comes of each goes first), and the handler comes to its end,
also with delayed rules that feed themselves (`MappingEnds`), if no rule
without a delay feeds itself (`NoLoop`); such a rule recurses without end in
the code, too.

### BrokerModel and Dashboard

One action per callback of `Mqtt` and per request under `/api/mqtt`.  The
framework's broker, external, keeps subscriptions and retained messages and
calls `onConnect` and `onDisconnected`; for the ids in `Overlapping` it may let
a second connection in before the first has ended, for the others not.  It may
refuse a connection (`Refuse`), for instance because its id is in use: the
connection's `Mqtt` has that id, gets no `onConnect`, and still
`onDisconnected`, which erases the entry of whoever is connected with the id.
`ConnectClient` keeps the entry there is and `DisconnectClient` erases by id,
as `modelMap.emplace` and `erase` do.  A request is answered with 404 when
`modelMap` has no entry.  A page (`Dashboard`) adds at once and removes by a
timer of 300 ms, so `pending` holds removals that have been announced; a page that
connects gets everything replayed (`AddEventReceiver`).  Properties: the raw
pointers of the map are connections of their id that are open and were not
refused (`ModelIsLive`); every connected client that is not overlapped is in it
(`ActiveIsListed`); a page at rest shows no client that is gone
(`NoGhostClient`).  The last two except a client whose entry the end of a refused
connection took along since it connected (the history `evicted`): requests about
it get 404, and its own end is not reported.

### MessageStore and StoragePlan

`SocketContextFactoryCreate` reads the projection file at every connection,
whatever it contains by then; if it is malformed the exception ends the process
(`Exit`).  `OnPublish` queues the raw insert and those of the projections
(`StoreProjections`); the database client, external, executes the statements of
one storage in order, any of them may fail, and finishes what is queued when
the session ends.  The raw table's name is taken to be a safe one, and SQL text
is left out: a row is its columns, with or without a value.  `TopicMatches` and
`BuildProjectionInsert` are the code's; `MatchesByLevel` and `CalledFor` say the
same by MQTT's and the file format's rules.  `Matches` is MQTT's rule in full:
in it a filter that begins with a wildcard takes no topic that begins with `$`
(`SystemLevels`), a rule that the code does not have.  `OnPublish` stores in any
state of a session that is not closed.  `Match` gives the places of the matching
projections in the file, which the code holds as pointers, and `InOrder` the
order in which the loop takes them.  The assumptions on the constants are that a
file is a list of projections and that no level of a published topic is `#`,
which MQTT forbids.  Properties: each insert a message calls
for is a row, waits, or failed, exactly one of them, and nothing else is
inserted (`StoredAsPlanned`), where the projection file is the one that the
message's connection has read; rows keep the order of the messages and a raw row
precedes its projections (`RowsInOrder`).

### OneShotClient

The two directions of the connection are queues.  `OnConnack` sends what the
command line asks for; acknowledgements without a subscription end the session
(`ClientReceives`); the client connects again after it left or lost the
connection, unless a signal ended it.  Whether SNode.C really reconnects after
a DISCONNECT is left open, so both are modelled.  Properties: who leaves by
itself has had its message handed on and gives up no subscription
(`LeavesWhenDone`); who subscribes and publishes in one call is subscribed in
time (`SeesOwnMessage`); who only publishes does leave (`PublisherLeaves`).

## 3. Runs

| run | instance | states | shows |
|---|---|---|---|
| `bridge` | 3 bridges, 2 broker names, two of these names with a `+`; 4 definitions (two brokers; two bridges with a disabled broker; two client instances of one name; duplicate names, a broker that is not found and a disabled bridge), 1 refused one, 3 activations, 1 page | 271 thousand | all properties of `MqttBridge` and `BridgeStatus` |
| `pages` | 2 pages, 2 saves, 2 edits, a file of two bridges, a server that restarts, dies and may not have saved | 974 thousand | all properties of `ConfigPage` and `BridgePages` |
| `page_saves` | the same | violation | finding 1 |
| `forwarding` | bridge `p` over A, B, C; bridges `e` from C to D and `r` from D to C, without loop prevention; B echoes, too; 2 messages; sessions come and go | 432 thousand | all properties of `BridgeForwarding` |
| `queue` | 4 publishes, delays 0 to 2, 5 instants, timer up to 1 early | 221 thousand | all properties of `DelayedQueue` |
| `mapping_admin` | 4 documents (one with two plugins and another connection, one refused), 2 kept backups, 3 seconds | 86 thousand | all properties of `MappingAdmin` |
| `integrator` | 2 instances, 7 mappings (clean and kept sessions, both also without subscriptions, another connection section, a topic given twice), 2 deploys, 1 failed connection | 1337 thousand | all properties of `Integrator` |
| `topic_mapping` | all trees of two levels with up to two entries over `a`, `+`, `#`; some with names that have a slash; one tree for each list of rules that publish, suppress, fail or refer to each other; mappings that feed themselves; all topics of up to three levels; 1 message, 6 that come of it, 3 that wait | 370 thousand | all properties of `TopicMapping` and `SelfMapping` |
| `topic_mapping_docs` | the same trees | violation | finding 2 |
| `broker` | 2 client ids, one of which overlaps, 2 connections, accepted or refused, 1 topic, 1 page, 2 pending removals | 896 thousand | all properties of `BrokerModel` |
| `store` | 2 connections, 2 projection files of two projections and a malformed one, 4 messages, one of a `$` topic, 2 received | 1487 thousand | all properties of `MessageStore` |
| `cli` | no, one or two topics to subscribe, one or none to publish to, each with every QoS and malformed; 2 connections | 4 thousand | all properties of `OneShotClient` |

Why the bounds are enough: the bridge's hazards need two definitions that
differ, a restart that waits for two flows, and one more patch meanwhile, so
three activations; a page is cut off, misses a whole definition and comes back
within them; pages do not see each other's status, so one is enough; the
configuration pages' hazards need two pages, two saves of one page that
overlap, and a list that becomes shorter by two; the forwarding hazards need a
path of two bridges, a cycle, and two messages that may overtake; the queue's
need two publishes with the same due time, one that is due earlier and arrives
later, and one from inside the loop; the administration's need one backup more
than are kept (`MaxVersions` is 2 in the model and 50 in the code) and two
deploys in one second; the integrator's need a deploy in each state of a
session and another after it, with a connection that fails between them;
self-mapping needs a delayed rule that feeds itself, one that waits beside it,
and rules that publish in a chain; the broker's need two connections of one id
that overlap, next to an id that does not, one that is refused beside one that
is connected, and a client that comes back while its removal is pending; the
store's need a topic that two projections match, a projection whose statement
cannot be built before one whose can, a file that changed between two
connections, and two messages that are stored by different connections; the
client's need each QoS with and without subscriptions and a second connection
after a lost one.

Deadlock is checked for the bridge, forwarding, the administration, the broker
and the store. Elsewhere `CHECK_DEADLOCK FALSE` is set because the model stops at
its bounds (the clock, deploys, messages, edits and saves of a page whose server
has no definition) or because the session has ended; it is no state in which the
program waits for something.

Fairness.  `bridge`: a connection that was sent DISCONNECT closes, and a
terminated flow without a connection completes; SNode.C does both by itself,
and nothing is assumed of connections that open, nor of the pages.
`topic_mapping`: the event loop runs a handler, with the recursion in it, to
its end.  `forwarding`: the event loop handles what it received.  `queue`: time
passes, an expired timer is served, a callback runs to its end.  `integrator`:
the client reconnects (`setReconnect`, `setRetry`), CONNACK and SUBSCRIBE are
processed, or refused, by a server that is up.  `cli`: both ends process what they receive
while the connection lasts.  No fairness is assumed for anything an operator or
a failing network does.

## 4. Findings

1. A page that removes two elements of a list, or deletes a bridge in front of
   one with two brokers more, sends removals in ascending order; the second is
   out of range, the server answers 404, and every later save repeats them
   (`page_saves`).
2. `findMatchingTopicLevel` takes `#` for a single level, and a level without
   subscription hides later ones, so that messages of a subscription are not
   translated (`topic_mapping_docs`).

Observations made while modelling, for which there is no run of their own:

* `BridgeStore::loadAndValidate` returns true for a file it could not load
  (`mqttbridge/lib/BridgeStore.cpp:71`); the failure message of
  `mqttbridge/mqttbridge.cpp:609` is unreachable, and a server without a
  definition refuses every patch.
* A `+` in the name of a bridge, which the schema allows
  (`mqttbridge/lib/bridge-schema.json:34`), makes `getBroker`
  (`mqttbridge/lib/BridgeStore.cpp:258`) find a broker of another bridge, or
  dereference the end of `bridgeMap`.
* No write of a definition or mapping file is checked
  (`mqttbridge/lib/BridgeStore.cpp:174`, `lib/ConfigApplication.cpp:130`): with a
  full disk requests are answered with success and the file is torn.
* For a mapping without subscriptions mqttintegrator sends a SUBSCRIBE without a
  topic (`mqttintegrator/lib/Mqtt.cpp:130`), a protocol error for which a server
  closes the connection, so that it reconnects for ever.
* The end of a connection that the broker refused erases the entry of the client
  whose id it had named (`mqttbroker/lib/Mqtt.cpp:192`,
  `mqttbroker/lib/MqttModel.cpp:255`): requests about that client get 404, pages
  are told that it has gone, and its own end is not reported, so that a page to
  which a later `client-subscribed` showed it again goes on showing it.
* With `clean_session` off, a SUBSCRIBE lost with its connection, and a change
  of the mapping between two connections, are never made good once the server
  reports a session (`mqttintegrator/lib/Mqtt.cpp:130`; `stale` in
  `Integrator`).
* A topic that two levels give with different QoS is lost when one of them is
  dropped: UNSUBSCRIBE is by name (`mqttintegrator/lib/Mqtt.cpp:158`; `doubled`).
* A configuration page that saves during a restart is answered with 409: it
  shows a message, and the edit stays unsaved until the next one.  A page that
  loads during a restart gets the definition that is about to be replaced.
  After a failed load the page edits its own default document.  Overlapping
  saves, and one whose answer was lost, repeat additions.  A patch goes by
  positions: after another page deleted a bridge it may change the next one.
* An accepted definition that waits for the flows to end is lost with the process.
* A status page that was cut off may show brokers of an earlier definition as
  connected until it is loaded again.
* Delayed publishes of a mapping are dropped with the session of the publisher
  whose message caused them; immediate rules that feed themselves recurse
  without end (`mqttbroker/lib/Mqtt.cpp:168`).
* `Bridge::publish` puts the destination broker's prefix into the forwarded
  topic (`mqttbridge/lib/Bridge.cpp:110`); the construction in `README.md:1786`
  does not have it.
* A page's removal timer of 300 ms deletes a client that has connected again
  meanwhile; the page shows it again after its own reconnect.
* `README.md:2181` and `docs/mqttstore-user-guide.md:138` have the projection file
  read at startup, and a restart after a change; it is read at each connection
  (`mqttstore/SocketContextFactory.cpp:63`), so that an edit takes effect with the
  next one, and a broken edit ends the service at it.  `StoredAsPlanned` says what
  the code does, not what these two say.
* A projection whose filter begins with a wildcard takes topics that begin with `$`
  (`mqttstore/lib/StoragePlan.cpp:195`), which MQTT excludes (MQTT-4.7.2-1); the
  subscription that delivers them has to name them.
* The name of a topic level may have a slash (`lib/mapping-schema.json:170`): it is
  subscribed to, but no message is dispatched to it (`lib/MqttMapper.cpp:342`).
* mqttcli with a malformed topic to subscribe to and a publish of QoS 1 or 2
  sends no SUBSCRIBE, and stays connected for ever.
* `mapped_topic` of one template rule is still defined while the topic of the
  next one is rendered, and an exception that is not inja's drops the remaining
  rules of its list (`lib/MqttMapper.cpp`).

## 5. Proofs

All theorems hold for every value of the constants under the named assumptions
on them; those of `ConfigPageProofs` and `AtMostOncePerServer` have two further
hypotheses each, named in their statements.

`MqttBridgeProofs`.  `TypeCorrect`, `NeverStale`, `ListIsLive`,
`RestartIsNeverLost` and `AcceptedPatchIsApplied` follow from one inductive
invariant `Inv`.  The checked invariants are not inductive by themselves: that
a restart never meets a stale flow needs that flows are only terminated during
a restart and all of them (`RestartHasWaker`, `RestartIsValid`), that a restart
holds a validated definition (or `ActivateStaged` would not establish the
types), that a process that is down holds nothing, and that a session is in the
list of the bridge it is looked up in (or `removeMqtt` could leave it in another).  One lemma
per action; the two ways into `activateStaged` share the lemma `Restarted`.
`LogShowsConnections` adds that flows which may have a session have distinct
brokers, so that the end of one session says nothing of another's.
`PagesShowSessions` adds that the log has an event of exactly the announced
brokers (`LogNamesAnnounced`), so that a page that connects again is told of
each of them, and that the log is only cleared of brokers without a session
(`ClearedHasNoSession`), so that a page which stays needs no event for them.
`StartedWhenComplete` compares numbers, as the code does: with distinct full
names the sessions of a bridge are a subset of its enabled brokers, so that
equal numbers mean the same sets; its invariant (`CompleteIsStarted`,
`StartedHasSession`) relates them to the events of each bridge and of all.
`ImplementsReconfiguration` is the refinement, one lemma per action, each
naming the step of `Reconfiguration` it is or the stutter; it needs that a
definition has one broker of each name and one flow for it.

`MqttBrokerProofs`, for `DelayedQueue`: `QueueTypeCorrect`, `SentNotEarly`,
`SentSorted`, `TimerIsSet`, and `ImplementsDelayLine`, the refinement of
`DelayLine`.  `QueueInv` adds that
sequence numbers are unique and below `nextSeq`, that a callback's clock reading
is not in the future, and that nothing sent comes after anything that waits.
The order over all callbacks rests on the last: a publish scheduled from inside
the loop is due no earlier than now and has the highest number.

The same module, for `BrokerModel`: `TypeCorrect`, `EntriesAreLive`, `ConnectedIsListed`,
`NoGhosts`.  The first three are inductive together: `connectClient` keeps the
entry there is, so that `ActiveIsListed` needs `ModelIsLive` (an entry left
behind by a connection that ended would keep the new one out).  `NoGhosts` adds
`GhostPends`: on every page a client that is shown and gone has its removal
among the pending ones.  It rests on `ActiveIsListed`, as a connection that is
not in the map ends without an event; the exception of both, `evicted`, is what
refused connections erased.

The same module, for the mapper: `FindsFirstInDocument`, `RulesKeepApart`,
`ConsequencesInOrder` and two theorems of types.  They hold for every set of
mappings whose levels are a tree in document order (`MappingsAssumption`), for
every template, and for errors and a last topic that are no text and no topic
(`MessagesAssumption`).  What a loop computes is a recursive function, of which
TLA+ gives nothing but its equations, and these only if they have a solution.
`Recursion` proves that they have, for functions that descend to smaller
arguments; `Induction`, over a set of numbers, replaces the library's theorem,
which takes an operator.  On them rest

* `FindsTheFirst`: an entry finds the first level of its branch that fits
  (`EntryFinds`), by induction from the last level of the topic to the first;
  as the branches of the entries follow each other in the document
  (`BranchesInOrder`) and are all that is below a level (`BelowIs`), the first
  entry that finds anything finds the first of all;
* `EachAppliesAlone`: a rule that keeps to itself adds to the publishes what it
  makes of fresh render data (`AddsItsOwn`), and the publishes of rules that do
  so are put together in order (`CollectedIs`);
* `OrderInv`, the invariant of `SelfMapping`: types, the two properties above
  and `AgendaLeft`.  `ConsequencesFirst` is not inductive, as it says nothing of
  the calls that are still active.  `AgendaLeft` says that what these have still
  to publish, the topmost call's first (`Stacked`), is what the agenda has left
  after the messages so far.  A call of `onPublish` takes the first of it away
  and puts what comes of it in front (`AgendaAdvances`), a return leaves it as it
  is (`AgendaStays`).  That `Agenda` has these values is `AgendaIs`.

`MappingAdminProofs`: `TypeCorrect`, `OneMappingInForce`, `NoForeignPlugins`,
`TornIsBackedUp`, `FileIsMapping`, `NewestAreKept`.  The first four state
invariants that are inductive together.  `TornIsBackedUp` rests on the backup of
a deploy being the newest, which no pruning removes (`ArchivedHasFile`).  What a
deploy prunes are the oldest backups, whatever their times are and wherever the
pruning stops (`PrunedIsOld`).

`BridgeForwardingProofs`: `TypeCorrect`, `AllAreServed` and
`AtMostOncePerServer`.  `TypeCorrect` adds to the types of the variables that
the number of messages stays within its bound.  `AllAreServed` holds for every
topology; `Pending` says of each message what is true before the last of it has
arrived: it is still on its way to the session that accepts it, or has come to
all the others.  The third has the hypotheses `NoEcho` and `NoCycle`, which are
about the configuration; the run's topology satisfies both without its bridge
`r` (`MCTopology`, evaluated by TLC; three of its servers have no loop
prevention), and with it has a cycle, which only TLC covers.  Without a cycle
each server has one entry, the session over which messages of a given source
come to it.  `Routed` says that a message is only on its way over sessions that
lead away from its source, from a server it has reached, that it has been
published by no other session of that bridge, and that what has been published
came over the entry.  It is the absence of the first publish that the next hop
needs (`HopIsNew`).

`IntegratorProofs`: `TypeCorrect`, `SubscribedAsDeployed`, `NotInterrupted`,
`OpenAsDeployed`.  A subscription is in effect (`InEffect`) if the server will
have it when all packets on their way have arrived: the last of them that
touches its topic gives it, or none does and the server has it.  The invariant
`Good` says of every instance in which order packets and CONNACK can be there
(`Sequence`); that what is in effect is what the client believes to have
subscribed, unless packets were lost (`Reached`); that before CONNACK a hot
reload brings nothing into effect that the SUBSCRIBE on CONNACK does not replace
(`Opening`); and that the client's list is that of the mapping in force
(`InForce`).  `SubscribedAsMapped` is `Reached` for an empty queue; it is not
inductive alone, as it says nothing while packets are under way.  For
`OpenAsDeployed`: a deploy either leaves the connection section as it was or
disconnects every session that had the old one.

`ConfigPageProofs`: `PageIsCurrent`, `RefusedForAReason`, `ServerAsPromised`.
Documents are
constants here, and the theorems say what they need of them as hypotheses:
loads, defaults and edits of a document lead to documents
(`DocumentsAreClosed`), and a patch computed between two of them and applied to
the first gives the second, unless it shortens a list by several elements
(`PatchesAreExact`).  `ConfigPage` says what that means for a single document
(`LeadsToDocuments`) and a single patch (`PatchGivesDocument`, `PatchIsExact`).
The operators of `ConfigPatch` are recursive and thus beyond the prover;
`MCBridgePages` has TLC evaluate instances of both hypotheses: for the file of the
run `pages` and every document one edit away from it, that they lead to documents
(`MCDocumentsAreClosed`), and that the patches between any two of them are exact
on the first and give a document on a definition they were not made from
(`MCPatchesAreExact`).
The invariant: a page that nothing came between has at most one save under way,
it was made from the present baseline, and once accepted it is the server's
definition.  `ServerAsPromised` follows from the same invariant: whatever the pages
send, the server of `ConfigPage` takes only steps of `Reconfiguration`, and what
it accepts, applies or recovers is a document.

`OneShotClientProofs`: `PacketsMeanWhatTheySay`, `LeavesOnlyWhenDone`,
`SubscribedInTime`.  The strengthening says of every packet in the two queues what
the other end has already done: an acknowledgement under way means that the
server has seen what it acknowledges.

`MessageStoreProofs`: `MatchesAsInMqtt`, `TypeCorrect`, `EachStoredOnce`,
`StoredInOrder`.  The loop of `topicMatches` over the levels of filter and topic
ends with what MQTT says of them, for every filter and topic but those that its
rule for `$` excludes, and there with what it says level by level
(`MatchesLevels`); the proof argues
about the least level at which they differ, which exists as the natural numbers
are well founded.  A `#` that is not at the end of the filter matches nothing.
With it, `InsertsIs` shows that the statements of a message are those that the
documented rules call for, each once, in the order of the file.  The invariant:
everything that is a row, waits or has failed is called for (`AllKnown`); it is
that only once, over all queues (`OnlyOnce`); everything called for is one of
the three (`AllThere`); and a queue has only its own connection's inserts, in
ascending order, none of a message before one that has a row, and no projection
whose raw insert comes later (`InTurn`).  `RowsInOrder` alone is not inductive,
because it says nothing of what waits.

Only model-checked:

* liveness (`RestartFinishes`, `ForwardingEnds`, `EventuallySent`, `Converges`,
  `MappingEnds`, `PublisherLeaves`): the prover has no rule for fairness and
  ENABLED;
* `ForeignChangesKept`, and (for sample documents) that the documents of `ConfigPatch` satisfy the
  hypotheses of `ConfigPageProofs`: difference and patch are recursive operators
  over JSON values, beyond the prover.

## 6. Not modelled, and limits

* Event ids, time stamps and the heartbeats of both event streams.
* Plugins: how they are loaded and that they throw is modelled, not what they
  compute, nor what the storage plugin remembers between messages.
* The React, icon and chart code in the two web bundles, which is most of their
  text; of the bundles only the application is modelled (`Dashboard`,
  `BridgeStatus`, `ConfigPage`, `ConfigPatch`), which sits on a few long lines.
* Vendored inja, command line sections, WebSocket factories, build
  files: no behaviour of their own that a model would tell apart.
* `terminateFlow` is taken to report completion in a later callback; if it did
  so synchronously, `closeBridges` would change the map it iterates over.
* What may keep a connection between CONNECT and CONNACK open is outside the
  code, so `RestartFinishes` is conditional on there being none.
* The length of the replay log: it grows until the next definition is activated,
  and the model keeps what it adds up to.
* The server that `ConfigPage` saves to is `Reconfiguration` without its
  sessions, not `MqttBridge` itself, which implements it.
* The clock of `DelayedQueue` and `MappingAdmin` never goes back; in
  `SelfMapping` any delayed message may be the next.
* Undefined behaviour of `getBroker` (a lookup that finds nothing) is modelled as
  the end of the process.
* `OneShotClient` has no sessions that the server keeps, and does not tell packet
  ids apart, as the handlers of mqttcli do not.
* In `BrokerModel` subscriptions of a persistent session survive as the
  framework's session store does; wills are not distinguished from other
  publishes.
* The type invariants that no run lists are theorems (`TypeCorrect`,
  `QueueTypeCorrect`, `SelfTypesCorrect`) or serve as
  documentation of the state.

## 7. Plan

Done: all modules of section 2, with the proofs of section 5.

Next, in this order:

1. A composition of `MappingAdmin` and `Integrator`: a deploy that fails, or a
   process that dies in it, beside sessions that connect.
2. The storage plugin, as state that the templates of `RuleTranslation` share.
3. Wills and session expiry of `BrokerModel`.

Theorems to prove next: that the documents of `ConfigPatch` satisfy the
hypotheses of `ConfigPageProofs`, with difference and patch as recursive
functions over the depth of a document.
