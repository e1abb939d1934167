---------------------------- MODULE MappingAdmin ----------------------------
(***************************************************************************)
(* The administration of the mapping that mqttintegrator applies: the      *)
(* mapping file with its draft and its backups (JsonMappingReader), the    *)
(* mapping in force with its plugins (MqttMapper), and the requests that   *)
(* change them (MappingAdminRouter).  Any file may not open, not take what *)
(* is written to it or not be removed, and the process may die meanwhile.  *)
(***************************************************************************)
EXTENDS Naturals, Sequences, FiniteSets

CONSTANTS
  Documents,     \* JSON documents: mappings, and objects that are none
  Plugins,       \* names of plugin libraries
  Connections,   \* values of "connection"
  Default,       \* what validating "null" with its defaults gives
  BuiltIn,       \* the mapping in mqttintegrator's code
  Absent,        \* there is no such file
  Torn,          \* the file was truncated and not written to its end
  MaxVersions,   \* backups that are kept (50)
  MaxTime        \* bound: seconds on the clock

ASSUME DocumentAssumption ==
  /\ Documents \subseteq [name : STRING, valid : BOOLEAN,
                          plugins : Seq(Plugins), connection : Connections]
  /\ {Default, BuiltIn} \subseteq Documents
  /\ Default.valid /\ Default.plugins = <<>>
  /\ BuiltIn.valid /\ BuiltIn.plugins = <<>>
  /\ Absent \notin Documents /\ Torn \notin Documents /\ Absent # Torn

ASSUME BoundsAssumption == MaxVersions \in Nat \ {0} /\ MaxTime \in Nat

ValidDocuments == {d \in Documents : d.valid}

VARIABLES
  up,          \* the process runs
  now,         \* the clock, in seconds
  file,        \* the mapping file
  draft,       \* the draft next to it
  versions,    \* the backups, by the second in which they were made
  mapping,     \* MqttMapper: the mapping in force
  loaded,      \* MqttMapper: the plugins whose functions are registered
  applied,     \* the mapping the MQTT sessions were last reloaded with
  reply,       \* answer to the last deploy or rollback
  persisted,   \* what persistMapping returned: the mapping file could be opened
  owed         \* history: what the request that tore the mapping file should
               \* have left a backup of

files == <<file, draft, versions, owed>>
vars == <<up, now, files, mapping, loaded, applied, reply, persisted>>

-----------------------------------------------------------------------------
(* JsonMappingReader.                                                      *)

With(backups, time, content) ==
  [t \in DOMAIN backups \cup {time} |-> IF t = time THEN content ELSE backups[t]]

\* So many of the backups as deployDraft keeps: the newest ones.
Prune_Mutant1(backups, kept) ==
  [t \in {k \in DOMAIN backups :
            Cardinality({older \in DOMAIN backups : older < k}) < kept}
     |-> backups[t]]
Prune(backups, kept) ==
  [t \in {k \in DOMAIN backups :
            Cardinality({newer \in DOMAIN backups : newer > k}) < kept}
     |-> backups[t]]

\* The mapping file copied to versions/, if there is one.
Backup_Mutant1 == versions
Backup == With(versions, now, file)

\* The oldest backups are removed, until MaxVersions are left or one cannot be
\* removed, which is ignored.
Archives ==
  IF file = Absent THEN {versions}
  ELSE {Backup} \cup {Prune(Backup, kept) : kept \in MaxVersions .. MaxVersions + now}

\* What the draft parses to.  Of a torn one the part before the error counts,
\* which may be nothing.
DraftContents == IF draft = Torn THEN Documents ELSE {draft}

\* deployDraft up to where it throws or the process dies: the draft is written
\* with its metadata, the mapping file copied, old backups removed.
HalfDeployed ==
  /\ draft # Absent
  /\ draft' \in {draft, Torn}
  /\ \/ versions' = versions
     \/ file # Absent /\ versions' \in {With(versions, now, Torn)} \cup Archives
  /\ UNCHANGED file

Owed(content) == IF file' = Torn THEN content ELSE Absent

-----------------------------------------------------------------------------
(* MqttMapper::setMapping.                                                 *)

SetMapping_Mutant1(doc) ==
  /\ doc.valid
  /\ mapping' = doc
  /\ loaded' = loaded \o doc.plugins
SetMapping(doc) ==
  /\ doc.valid
  /\ mapping' = doc
  /\ loaded' = doc.plugins

\* It throws when the document is invalid, after the old plugins were closed,
\* or when a plugin cannot be loaded, after the mapping was replaced.
Rejected(doc) ==
  /\ ~doc.valid
  /\ loaded' = <<>>
  /\ UNCHANGED mapping

PluginFails(doc) ==
  /\ doc.valid
  /\ mapping' = doc
  /\ \E n \in 0 .. Len(doc.plugins) - 1 : loaded' = SubSeq(doc.plugins, 1, n)

SetMappingThrows(doc) == Rejected(doc) \/ PluginFails(doc)

-----------------------------------------------------------------------------
(* MappingAdminRouter.                                                     *)

\* setMapping, persistMapping and onDeploy.  persistMapping truncates the file
\* and does not look whether it takes the mapping; nor is its result looked at.
Activate_Mutant1(doc, saved) ==
  /\ file' = doc
  /\ persisted' = TRUE
  /\ \/ SetMapping(doc) /\ applied' = doc /\ reply' = "ack"
     \/ SetMappingThrows(doc) /\ reply' = "error" /\ UNCHANGED applied
Activate_Mutant2(doc, saved) ==
  /\ SetMapping(doc)
  /\ file' = doc
  /\ persisted' = TRUE
  /\ reply' = "ack"
  /\ applied' = IF doc.connection = mapping.connection THEN doc ELSE applied
Activate(doc, saved) ==
  \/ /\ SetMapping(doc)
     /\ persisted' \in BOOLEAN
     /\ file' \in IF persisted' THEN {doc, Torn} ELSE {saved}
     /\ applied' = doc
     /\ reply' = "ack"
  \/ /\ SetMappingThrows(doc)
     /\ file' = saved
     /\ reply' = "error"
     /\ UNCHANGED <<applied, persisted>>

\* POST /config with a JSON object.  PATCH /config patches the mapping in
\* force, whatever draft there is.
SaveDraft(doc) ==
  /\ up
  /\ draft' \in {doc, Torn}
  /\ UNCHANGED <<up, now, file, versions, owed, mapping, loaded, applied, reply, persisted>>

\* POST /config/deploy
Deploy ==
  /\ up
  /\ draft # Absent
  /\ versions' \in Archives
  /\ draft' = Absent
  /\ \E doc \in DraftContents : Activate(doc, file)
  /\ owed' = Owed(file)
  /\ UNCHANGED <<up, now>>

DeployFails ==
  /\ up
  /\ HalfDeployed
  /\ owed' = Owed(IF versions' = versions THEN owed ELSE file)
  /\ reply' = "error"
  /\ UNCHANGED <<up, now, mapping, loaded, applied, persisted>>

\* Without a draft deployDraft returns null, which setMapping accepts.
DeployNothing ==
  /\ up
  /\ draft = Absent
  /\ Activate(Default, file)
  /\ owed' = Owed(owed)
  /\ UNCHANGED <<up, now, draft, versions>>

\* POST /config/rollback
Rollback(t) ==
  /\ up
  /\ versions[t] \in ValidDocuments
  /\ draft' = Absent
  /\ Activate(versions[t], versions[t])
  /\ owed' = Owed(versions[t])
  /\ UNCHANGED <<up, now, versions>>

\* The version cannot be copied, or then the draft not be removed.
RollbackFails(t) ==
  /\ up
  /\ versions[t] \in ValidDocuments
  /\ file' \in {file, Torn} \cup (IF draft = Absent THEN {} ELSE {versions[t]})
  /\ owed' = Owed(IF file' = file THEN owed ELSE versions[t])
  /\ reply' = "error"
  /\ UNCHANGED <<up, now, draft, versions, mapping, loaded, applied, persisted>>

RollbackRefused(t) ==
  /\ up
  /\ versions[t] \notin ValidDocuments
  /\ reply' = "error"
  /\ UNCHANGED <<up, now, files, mapping, loaded, applied, persisted>>

-----------------------------------------------------------------------------
(* The process starts and dies.                                            *)

\* loadMapping: the file's mapping, if it is named and there.
LoadMapping(f, doc) == IF f = Absent THEN doc ELSE f

\* The built-in mapping replaces that of the default mapping file, and is
\* replaced by loadMapping for a file named on the command line.  A file that
\* cannot be parsed or validated ends the program.
Boot ==
  /\ ~up
  /\ file \in ValidDocuments \cup {Absent}
  /\ \E doc \in {BuiltIn, LoadMapping(file, BuiltIn)} :
       /\ SetMapping(doc)
       /\ applied' = doc
       /\ persisted' = (doc = file)
  /\ up' = TRUE
  /\ reply' = "none"
  /\ UNCHANGED <<now, files>>

Down ==
  /\ up
  /\ up' = FALSE
  /\ mapping' = Default
  /\ applied' = Default
  /\ loaded' = <<>>
  /\ reply' = "none"
  /\ persisted' = FALSE
  /\ UNCHANGED now

Crash == Down /\ UNCHANGED files

CrashInSaveDraft == Down /\ draft' = Torn /\ UNCHANGED <<file, versions, owed>>

\* In deployDraft or in persistMapping.
CrashInDeploy ==
  /\ Down
  /\ \/ HalfDeployed /\ owed' = Owed(IF versions' = versions THEN owed ELSE file)
     \/ /\ draft # Absent
        /\ versions' \in Archives
        /\ draft' = Absent
        /\ file' \in {file} \cup {Torn : doc \in DraftContents \cap ValidDocuments}
        /\ owed' = Owed(file)

CrashInDeployNothing ==
  /\ Down
  /\ draft = Absent
  /\ file' = Torn
  /\ owed' = Owed(owed)
  /\ UNCHANGED <<draft, versions>>

\* In rollbackTo or in persistMapping.
CrashInRollback(t) ==
  /\ Down
  /\ versions[t] \in ValidDocuments
  /\ file' \in {Torn, versions[t]}
  /\ draft' \in {draft, Absent}
  /\ owed' = Owed(versions[t])
  /\ UNCHANGED versions

\* An operator puts some mapping in the place of a torn file.
Repair ==
  /\ ~up
  /\ file = Torn
  /\ file' \in ValidDocuments
  /\ owed' = Absent
  /\ UNCHANGED <<up, now, draft, versions, mapping, loaded, applied, reply, persisted>>

Tick ==
  /\ now < MaxTime
  /\ now' = now + 1
  /\ UNCHANGED <<up, files, mapping, loaded, applied, reply, persisted>>

Init ==
  /\ up = FALSE
  /\ now = 0
  /\ file \in ValidDocuments \cup {Absent}
  /\ draft = Absent
  /\ versions = [t \in {} |-> Torn]
  /\ mapping = Default
  /\ loaded = <<>>
  /\ applied = Default
  /\ reply = "none"
  /\ persisted = FALSE
  /\ owed = Absent

Next ==
  \/ Boot
  \/ \E doc \in Documents : SaveDraft(doc)
  \/ Deploy
  \/ DeployFails
  \/ DeployNothing
  \/ \E t \in DOMAIN versions :
       Rollback(t) \/ RollbackFails(t) \/ RollbackRefused(t) \/ CrashInRollback(t)
  \/ Crash
  \/ CrashInSaveDraft
  \/ CrashInDeploy
  \/ CrashInDeployNothing
  \/ Repair
  \/ Tick

Spec == Init /\ [][Next]_vars

-----------------------------------------------------------------------------
(* Properties.                                                             *)

TypeOK ==
  /\ up \in BOOLEAN
  /\ now \in 0 .. MaxTime
  /\ file \in ValidDocuments \cup {Absent, Torn}
  /\ draft \in Documents \cup {Absent, Torn}
  /\ DOMAIN versions \subseteq 0 .. now
  /\ \A t \in DOMAIN versions : versions[t] \in ValidDocuments \cup {Torn}
  /\ mapping \in ValidDocuments
  /\ loaded \in Seq(Plugins)
  /\ applied \in ValidDocuments
  /\ reply \in {"none", "ack", "error"}
  /\ persisted \in BOOLEAN
  /\ owed \in ValidDocuments \cup {Absent, Torn}

\* Unless the last deploy or rollback was answered with an error, messages are
\* mapped by the mapping whose topics the sessions subscribed, with its plugins
\* loaded; and the mapping file, if it could be opened, has that content or,
\* after a write that failed unnoticed, is torn.
InForce ==
  (up /\ reply # "error") =>
    /\ applied = mapping
    /\ loaded = mapping.plugins
    /\ persisted => file \in {mapping, Torn}

\* Even after errors the plugins that are loaded belong to the mapping in force:
\* the functions of another mapping are never called.
PluginsOfMapping ==
  \E n \in 0 .. Len(mapping.plugins) : loaded = SubSeq(mapping.plugins, 1, n)

\* A mapping file that a process dying or a write error tears in the deploy of
\* a draft has its content from before among the backups, and one torn in a
\* rollback the version rolled back to.  That holds until a later deploy backs
\* up the torn file.  Nothing is owed when a deploy without a draft tears it.
TornHasBackup == owed # Absent => \E t \in DOMAIN versions : versions[t] = owed

\* What a running process puts into the mapping file is the mapping then in
\* force, or the write fails; when a request fails, the file changes only in a
\* rollback, to the version or torn.  So after a deploy of a draft that fails a
\* start that takes the mapping from the file does not find the draft's.
FileFollowsMapping ==
  [][(up /\ up' /\ file' # file) =>
       \/ reply' = "ack" /\ file' \in {mapping', Torn}
       \/ /\ reply' = "error" /\ versions' = versions
          /\ \E t \in DOMAIN versions :
               versions[t] \in ValidDocuments /\ file' \in {versions[t], Torn}]_vars

\* A backup is removed only when MaxVersions newer ones are kept.
NewestKept ==
  [][\A t \in DOMAIN versions \ DOMAIN versions' :
       Cardinality({k \in DOMAIN versions' : k > t}) >= MaxVersions]_vars
=============================================================================
