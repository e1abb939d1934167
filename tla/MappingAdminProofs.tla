-------------------------- MODULE MappingAdminProofs --------------------------
(***************************************************************************)
(* Theorems about MappingAdmin for any documents, plugins, number of       *)
(* backups and time.  The invariants are inductive together.              *)
(***************************************************************************)
EXTENDS MappingAdmin, SequenceTheorems, FiniteSetTheorems, WellFoundedInduction, TLAPS

Inv == TypeOK /\ InForce /\ PluginsOfMapping /\ TornHasBackup

-----------------------------------------------------------------------------
(* Files.                                                                  *)

\* What may be left of the backups is one more, or the newest of these.
LEMMA Archiving ==
  ASSUME TypeOK, file # Absent, NEW v \in Archives
  PROVE  \/ v = Backup
         \/ \E kept \in Nat : kept >= MaxVersions /\ v = Prune(Backup, kept)
  BY BoundsAssumption DEF Archives, TypeOK

\* The newest backup survives pruning, whatever MaxVersions is.
LEMMA NewestStays ==
  ASSUME NEW backups, NEW t \in DOMAIN backups, \A k \in DOMAIN backups : ~(k > t),
         NEW kept \in Nat, kept >= MaxVersions
  PROVE  t \in DOMAIN Prune(backups, kept) /\ Prune(backups, kept)[t] = backups[t]
<1>1. {newer \in DOMAIN backups : newer > t} = {}
  OBVIOUS
<1>2. Cardinality({newer \in DOMAIN backups : newer > t}) < kept
  BY <1>1, FS_EmptySet, BoundsAssumption
<1>. QED BY <1>2 DEF Prune

\* The backup made now is the newest one, and is the file's content.
LEMMA ArchivedHasFile ==
  ASSUME TypeOK, file # Absent, NEW v \in Archives
  PROVE  \E t \in DOMAIN v : v[t] = file
<1>1. now \in DOMAIN Backup /\ Backup[now] = file
  BY DEF Backup, With
<1>2. \A k \in DOMAIN Backup : ~(k > now)
  BY BoundsAssumption DEF Backup, With, TypeOK
<1>3. ASSUME NEW kept \in Nat, kept >= MaxVersions, v = Prune(Backup, kept)
      PROVE  now \in DOMAIN v /\ v[now] = Backup[now]
  BY <1>1, <1>2, <1>3, NewestStays
<1>. QED BY <1>1, <1>3, Archiving

\* A set of numbers up to n has a greatest one.
LEMMA Greatest ==
  ASSUME NEW n \in Nat, NEW S \in SUBSET (0 .. n), S # {}
  PROVE  \E x \in S : \A y \in S : y <= x
<1>. DEFINE R == OpToRel(<, Nat)
            D == {n - x : x \in S}
<1>1. IsWellFoundedOn(R, Nat)
  BY Zenon, NatLessThanWellFounded
<1>2. \A x, y \in Nat : <<y, x>> \in R <=> y < x
  BY DEF OpToRel
<1>3. D \subseteq Nat /\ D # {}
  <2>1. \A x \in S : n - x \in Nat
    OBVIOUS
  <2>2. PICK x \in S : TRUE
    OBVIOUS
  <2>3. n - x \in D
    OBVIOUS
  <2>. QED BY <2>1, <2>3
<1>. HIDE DEF R
<1>4. PICK d \in D : \A y \in D : <<y, d>> \notin R
  BY <1>1, <1>3, WFMin
<1>5. PICK x \in S : d = n - x
  OBVIOUS
<1>6. ASSUME NEW y \in S PROVE y <= x
  <2>1. n - y \in D /\ n - y \in Nat /\ d \in Nat
    BY <1>3
  <2>2. ~(n - y < d)
    BY <1>2, <1>4, <2>1
  <2>. QED BY <1>5, <2>2
<1>. QED BY <1>6

\* What pruning removes is older than MaxVersions backups that it keeps: those
\* newer than the newest one that it removes.
LEMMA PrunedIsOld ==
  ASSUME NEW backups, NEW kept \in Nat, kept >= MaxVersions, NEW n \in Nat,
         DOMAIN backups \subseteq 0 .. n,
         NEW t \in DOMAIN backups \ DOMAIN Prune(backups, kept)
  PROVE  Cardinality({k \in DOMAIN Prune(backups, kept) : k > t}) >= MaxVersions
<1>. DEFINE Newer(u) == {k \in DOMAIN backups : k > u}
            Removed == DOMAIN backups \ DOMAIN Prune(backups, kept)
            Left == {k \in DOMAIN Prune(backups, kept) : k > t}
<1>1. \A k \in DOMAIN backups : k \in DOMAIN Prune(backups, kept) <=> Cardinality(Newer(k)) < kept
  BY DEF Prune
<1>2. PICK u \in Removed : \A y \in Removed : y <= u
  BY Greatest
<1>3. u \in Nat /\ t \in Nat /\ t <= u
  BY <1>2
<1>4. Newer(u) \subseteq Left
  <2>. SUFFICES ASSUME NEW k \in DOMAIN backups, k > u PROVE k \in Left
    OBVIOUS
  <2>1. k \in Nat
    OBVIOUS
  <2>2. k \notin Removed
    BY <1>2, <1>3, <2>1
  <2>. QED BY <1>3, <2>1, <2>2
<1>5. IsFiniteSet(0 .. n)
  BY FS_Interval
<1>6. Left \subseteq 0 .. n
  BY DEF Prune
<1>7. IsFiniteSet(Left) /\ IsFiniteSet(Newer(u))
  BY <1>4, <1>5, <1>6, FS_Subset
<1>8. Cardinality(Newer(u)) <= Cardinality(Left)
  BY <1>4, <1>7, FS_Subset
<1>9. Cardinality(Newer(u)) \in Nat /\ Cardinality(Left) \in Nat
  BY <1>7, FS_CardinalityType
<1>10. ~(Cardinality(Newer(u)) < kept)
  BY <1>1
<1>. QED BY <1>8, <1>9, <1>10, BoundsAssumption

\* What TypeOK says of the backups.
Backups(v) ==
  /\ DOMAIN v \subseteq 0 .. now
  /\ \A t \in DOMAIN v : v[t] \in ValidDocuments \cup {Torn}

LEMMA BackupTypes ==
  ASSUME TypeOK
  PROVE  /\ \A v \in Archives : Backups(v)
         /\ Backups(With(versions, now, Torn))
<1>1. now \in 0 .. now
  BY BoundsAssumption DEF TypeOK
<1>2. Backups(With(versions, now, Torn))
  BY <1>1 DEF TypeOK, Backups, With
<1>3. file # Absent => Backups(Backup)
  BY <1>1 DEF TypeOK, Backups, Backup, With
<1>4. ASSUME NEW v, NEW kept, Backups(v) PROVE Backups(Prune(v, kept))
  BY <1>4 DEF Backups, Prune
<1>5. \A v \in Archives : Backups(v)
  BY <1>3, <1>4, Archiving DEF TypeOK, Backups, Archives
<1>. QED BY <1>2, <1>5

-----------------------------------------------------------------------------
(* The mapper.                                                             *)

LEMMA PrefixOfPlugins ==
  ASSUME NEW doc \in Documents, NEW n \in 0 .. Len(doc.plugins)
  PROVE  SubSeq(doc.plugins, 1, n) \in Seq(Plugins)
<1>1. doc.plugins \in Seq(Plugins)
  BY DocumentAssumption
<1>2. \A i \in 1 .. n : doc.plugins[i] \in Plugins
  BY <1>1, ElementOfSeq
<1>. QED BY <1>2, SubSeqProperties

\* Accepted or not, the mapping remains a valid document, and the plugins that
\* are loaded the first ones of it.
LEMMA SetMappingInv ==
  ASSUME TypeOK, NEW doc \in Documents, SetMapping(doc) \/ SetMappingThrows(doc)
  PROVE  mapping' \in ValidDocuments /\ loaded' \in Seq(Plugins) /\ PluginsOfMapping'
<1>1. CASE SetMapping(doc)
  <2>1. doc.plugins \in Seq(Plugins)
    BY DocumentAssumption
  <2>2. SubSeq(doc.plugins, 1, Len(doc.plugins)) = doc.plugins
    BY <2>1, SubSeqFull
  <2>3. Len(doc.plugins) \in 0 .. Len(doc.plugins)
    BY <2>1, LenProperties
  <2>. QED BY <1>1, <2>1, <2>2, <2>3 DEF SetMapping, PluginsOfMapping, ValidDocuments
<1>2. CASE Rejected(doc)
  <2>1. mapping \in Documents /\ mapping.plugins \in Seq(Plugins)
    BY DocumentAssumption DEF TypeOK, ValidDocuments
  <2>2. 0 \in 0 .. Len(mapping.plugins)
    BY <2>1, LenProperties
  <2>3. SubSeq(mapping.plugins, 1, 0) = <<>>
    BY SubSeqEmpty
  <2>4. <<>> \in Seq(Plugins)
    BY EmptySeq
  <2>. QED BY <1>2, <2>2, <2>3, <2>4 DEF Rejected, PluginsOfMapping, TypeOK
<1>3. CASE PluginFails(doc)
  <2>1. PICK n \in 0 .. Len(doc.plugins) - 1 : loaded' = SubSeq(doc.plugins, 1, n)
    BY <1>3 DEF PluginFails
  <2>2. doc.plugins \in Seq(Plugins)
    BY DocumentAssumption
  <2>3. n \in 0 .. Len(doc.plugins)
    BY <2>2, LenProperties
  <2>. QED BY <1>3, <2>1, <2>3, PrefixOfPlugins DEF PluginFails, PluginsOfMapping, ValidDocuments
<1>. QED BY <1>1, <1>2, <1>3 DEF SetMappingThrows

\* setMapping, persistMapping and the reload of the sessions.
LEMMA ActivateInv ==
  ASSUME Inv, NEW doc \in Documents, NEW saved, Activate(doc, saved)
  PROVE  /\ mapping' \in ValidDocuments /\ loaded' \in Seq(Plugins)
         /\ applied' \in ValidDocuments /\ reply' \in {"ack", "error"} /\ persisted' \in BOOLEAN
         /\ PluginsOfMapping' /\ InForce'
         /\ file' \in {saved, mapping', Torn}
<1>. USE DEF Inv
<1>1. SetMapping(doc) \/ SetMappingThrows(doc)
  BY DEF Activate
<1>2. mapping' \in ValidDocuments /\ loaded' \in Seq(Plugins) /\ PluginsOfMapping'
  BY <1>1, SetMappingInv
<1>3. CASE SetMapping(doc) /\ reply' = "ack" /\ persisted' \in BOOLEAN /\ applied' = doc
           /\ file' \in IF persisted' THEN {doc, Torn} ELSE {saved}
  <2>1. mapping' = doc /\ loaded' = doc.plugins /\ doc \in ValidDocuments
    BY <1>3 DEF SetMapping, ValidDocuments
  <2>. QED BY <1>2, <1>3, <2>1 DEF InForce
<1>4. CASE reply' = "error" /\ file' = saved /\ UNCHANGED <<applied, persisted>>
  BY <1>2, <1>4 DEF InForce, TypeOK
<1>. QED BY <1>3, <1>4 DEF Activate

-----------------------------------------------------------------------------
(* The steps.                                                              *)

LEMMA InitInv == Init => Inv
<1>. SUFFICES ASSUME Init PROVE Inv
  OBVIOUS
<1>. USE DocumentAssumption, BoundsAssumption DEF Init
<1>1. <<>> \in Seq(Plugins)
  BY EmptySeq
<1>2. Default \in ValidDocuments /\ Torn \notin ValidDocuments \cup {Absent}
  BY DEF ValidDocuments
<1>3. TypeOK
  <2>1. DOMAIN versions = {} /\ now \in 0 .. MaxTime
    OBVIOUS
  <2>2. up \in BOOLEAN /\ persisted \in BOOLEAN
    OBVIOUS
  <2>3. file \in ValidDocuments \cup {Absent, Torn} /\ owed \in ValidDocuments \cup {Absent, Torn}
    OBVIOUS
  <2>. QED BY <1>1, <1>2, <2>1, <2>2, <2>3 DEF TypeOK
<1>4. PluginsOfMapping
  <2>1. SubSeq(mapping.plugins, 1, 0) = <<>> /\ Len(mapping.plugins) = 0
    BY SubSeqEmpty
  <2>. QED BY <2>1 DEF PluginsOfMapping
<1>. QED BY <1>3, <1>4 DEF Inv, InForce, TornHasBackup

LEMMA DeployInv == Inv /\ (Deploy \/ DeployNothing) => Inv'
<1>. SUFFICES ASSUME Inv, Deploy \/ DeployNothing PROVE Inv'
  OBVIOUS
<1>. USE DEF Inv
<1>0. now' = now
  BY DEF Deploy, DeployNothing
<1>1. draft' \in Documents \cup {Absent, Torn}
  BY DEF Deploy, DeployNothing, TypeOK
<1>2. Backups(versions)'
  BY <1>0, BackupTypes DEF Deploy, DeployNothing, TypeOK, Backups
<1>3. PICK doc \in Documents : Activate(doc, file)
  <2>1. DraftContents \subseteq Documents \/ draft = Absent
    BY DEF DraftContents, TypeOK
  <2>. QED BY <2>1, DocumentAssumption DEF Deploy, DeployNothing
<1>4. /\ mapping' \in ValidDocuments /\ loaded' \in Seq(Plugins)
      /\ applied' \in ValidDocuments /\ reply' \in {"ack", "error"} /\ persisted' \in BOOLEAN
      /\ PluginsOfMapping' /\ InForce'
      /\ file' \in {file, mapping', Torn}
  BY <1>3, ActivateInv
<1>5. owed' \in {Absent, owed, file}
  BY DEF Deploy, DeployNothing, Owed
<1>6. TypeOK'
  BY <1>0, <1>1, <1>2, <1>4, <1>5 DEF TypeOK, Backups, Deploy, DeployNothing
<1>7. TornHasBackup'
  <2>1. CASE Deploy
    BY <2>1, ArchivedHasFile DEF TornHasBackup, Deploy, Owed
  <2>2. CASE DeployNothing
    BY <2>2 DEF TornHasBackup, DeployNothing, Owed
  <2>. QED BY <2>1, <2>2
<1>. QED BY <1>4, <1>6, <1>7

\* deployDraft up to where it fails.
LEMMA HalfDeployedInv ==
  ASSUME Inv, HalfDeployed, now' = now,
         owed' = Owed(IF versions' = versions THEN owed ELSE file)
  PROVE  /\ draft' \in Documents \cup {Absent, Torn}
         /\ Backups(versions)'
         /\ owed' \in ValidDocuments \cup {Absent, Torn}
         /\ TornHasBackup'
         /\ file' = file
<1>. USE DEF Inv, HalfDeployed
<1>1. draft' \in Documents \cup {Absent, Torn}
  BY DEF TypeOK
<1>2. Backups(versions)'
  BY BackupTypes DEF TypeOK, Backups
<1>3. owed' \in ValidDocuments \cup {Absent, Torn}
  BY DEF TypeOK, Owed
<1>4. TornHasBackup'
  <2>. SUFFICES ASSUME owed' # Absent PROVE \E t \in DOMAIN versions' : versions'[t] = owed'
    BY DEF TornHasBackup
  <2>1. CASE versions' = versions
    BY <2>1 DEF TornHasBackup, Owed
  <2>2. CASE versions' # versions
    <3>1. file = Torn /\ owed' = Torn /\ file # Absent
      BY <2>2 DEF Owed
    <3>2. CASE versions' = With(versions, now, Torn)
      BY <3>1, <3>2 DEF With
    <3>3. CASE versions' \in Archives
      BY <3>1, <3>3, ArchivedHasFile
    <3>. QED BY <2>2, <3>2, <3>3
  <2>. QED BY <2>1, <2>2
<1>. QED BY <1>1, <1>2, <1>3, <1>4

LEMMA DeployFailsInv == Inv /\ DeployFails => Inv'
<1>. SUFFICES ASSUME Inv, DeployFails PROVE Inv'
  OBVIOUS
<1>. USE DEF Inv
<1>1. /\ draft' \in Documents \cup {Absent, Torn}
      /\ Backups(versions)'
      /\ owed' \in ValidDocuments \cup {Absent, Torn}
      /\ TornHasBackup'
      /\ file' = file
  BY HalfDeployedInv DEF DeployFails
<1>2. TypeOK'
  BY <1>1 DEF TypeOK, Backups, DeployFails
<1>3. PluginsOfMapping' /\ InForce'
  BY DEF DeployFails, PluginsOfMapping, InForce
<1>. QED BY <1>1, <1>2, <1>3

LEMMA RollbackInv ==
  ASSUME Inv, NEW t \in DOMAIN versions, Rollback(t) \/ RollbackFails(t) \/ RollbackRefused(t)
  PROVE  Inv'
<1>. USE DEF Inv
<1>1. CASE Rollback(t)
  <2>. USE <1>1
  <2>0. versions[t] \in ValidDocuments
    BY DEF Rollback
  <2>1. /\ mapping' \in ValidDocuments /\ loaded' \in Seq(Plugins)
        /\ applied' \in ValidDocuments /\ reply' \in {"ack", "error"} /\ persisted' \in BOOLEAN
        /\ PluginsOfMapping' /\ InForce'
        /\ file' \in ValidDocuments \cup {Torn}
    <3>1. versions[t] \in Documents /\ Activate(versions[t], versions[t])
      BY <2>0 DEF Rollback, ValidDocuments
    <3>. QED BY <2>0, <3>1, ActivateInv
  <2>2. owed' \in {Absent, versions[t]}
    BY DEF Rollback, Owed
  <2>3. TypeOK'
    BY <2>0, <2>1, <2>2 DEF TypeOK, Rollback
  <2>. QED BY <2>1, <2>2, <2>3 DEF TornHasBackup, Rollback
<1>2. CASE RollbackFails(t)
  <2>1. owed' \in {Absent, owed, versions[t]}
    BY <1>2 DEF RollbackFails, Owed
  <2>2. TypeOK'
    BY <1>2, <2>1 DEF RollbackFails, TypeOK
  <2>3. PluginsOfMapping' /\ InForce'
    BY <1>2 DEF RollbackFails, PluginsOfMapping, InForce
  <2>. QED BY <1>2, <2>1, <2>2, <2>3 DEF RollbackFails, TornHasBackup
<1>3. CASE RollbackRefused(t)
  <2>1. TypeOK' /\ PluginsOfMapping' /\ InForce'
    BY <1>3 DEF RollbackRefused, files, TypeOK, PluginsOfMapping, InForce
  <2>. QED BY <1>3, <2>1 DEF RollbackRefused, files, TornHasBackup
<1>. QED BY <1>1, <1>2, <1>3

LEMMA BootInv == Inv /\ Boot => Inv'
<1>. SUFFICES ASSUME Inv, Boot PROVE Inv'
  OBVIOUS
<1>. USE DEF Inv
<1>1. PICK doc \in {BuiltIn, LoadMapping(file, BuiltIn)} :
        SetMapping(doc) /\ applied' = doc /\ persisted' = (doc = file)
  BY DEF Boot
<1>2. doc \in ValidDocuments
  BY DocumentAssumption DEF LoadMapping, Boot, ValidDocuments
<1>3. mapping' \in ValidDocuments /\ loaded' \in Seq(Plugins) /\ PluginsOfMapping'
  BY <1>1, <1>2, SetMappingInv DEF ValidDocuments
<1>4. up' /\ reply' = "none" /\ UNCHANGED <<now, files>>
  BY DocumentAssumption DEF Boot, ValidDocuments
<1>5. mapping' = doc /\ loaded' = doc.plugins
  BY <1>1 DEF SetMapping
<1>6. TypeOK'
  BY <1>1, <1>2, <1>3, <1>4 DEF TypeOK, files
<1>7. InForce'
  BY <1>1, <1>4, <1>5 DEF InForce, files
<1>. QED BY <1>3, <1>4, <1>6, <1>7 DEF files, TornHasBackup

\* What goes with the process.
LEMMA DownInv ==
  ASSUME Inv, Down
  PROVE  /\ up' = FALSE /\ now' = now /\ reply' = "none" /\ persisted' = FALSE
         /\ mapping' \in ValidDocuments /\ loaded' \in Seq(Plugins) /\ applied' \in ValidDocuments
         /\ InForce' /\ PluginsOfMapping'
<1>. USE DEF Inv, Down
<1>1. <<>> \in Seq(Plugins)
  BY EmptySeq
<1>2. Default \in ValidDocuments /\ Default.plugins = <<>>
  BY DocumentAssumption DEF ValidDocuments
<1>3. SubSeq(Default.plugins, 1, 0) = <<>> /\ Len(Default.plugins) = 0
  BY <1>2, SubSeqEmpty
<1>. QED BY <1>1, <1>2, <1>3 DEF TypeOK, InForce, PluginsOfMapping

\* What a process leaves that dies.
LEMMA DownLeaves ==
  ASSUME Inv, Down,
         file' \in {file, Torn} \cup ValidDocuments, draft' \in Documents \cup {Absent, Torn},
         Backups(versions)', owed' \in ValidDocuments \cup {Absent, Torn}, TornHasBackup'
  PROVE  Inv'
<1>1. /\ up' = FALSE /\ now' = now /\ reply' = "none" /\ persisted' = FALSE
      /\ mapping' \in ValidDocuments /\ loaded' \in Seq(Plugins) /\ applied' \in ValidDocuments
      /\ InForce' /\ PluginsOfMapping'
  BY DownInv
<1>2. TypeOK'
  BY <1>1 DEF Inv, TypeOK, Backups
<1>. QED BY <1>1, <1>2 DEF Inv

LEMMA CrashInv ==
  Inv /\ (Crash \/ CrashInSaveDraft \/ CrashInDeploy \/ CrashInDeployNothing) => Inv'
<1>. SUFFICES ASSUME Inv, Crash \/ CrashInSaveDraft \/ CrashInDeploy \/ CrashInDeployNothing
              PROVE Inv'
  OBVIOUS
<1>0. Down /\ now' = now
  BY DEF Crash, CrashInSaveDraft, CrashInDeploy, CrashInDeployNothing, Down
<1>1. CASE Crash \/ CrashInSaveDraft \/ CrashInDeployNothing
  <2>1. /\ file' \in {file, Torn} /\ draft' \in {draft, Torn} /\ versions' = versions
        /\ owed' \in {Absent, owed}
    BY <1>1 DEF Crash, CrashInSaveDraft, CrashInDeployNothing, files, Owed
  <2>2. draft' \in Documents \cup {Absent, Torn} /\ owed' \in ValidDocuments \cup {Absent, Torn}
    BY <2>1 DEF Inv, TypeOK
  <2>3. Backups(versions)' /\ TornHasBackup'
    BY <1>0, <2>1 DEF Inv, TypeOK, Backups, TornHasBackup
  <2>. QED BY <1>0, <2>1, <2>2, <2>3, DownLeaves
<1>2. CASE HalfDeployed /\ owed' = Owed(IF versions' = versions THEN owed ELSE file)
  BY <1>0, <1>2, HalfDeployedInv, DownLeaves
<1>3. CASE /\ versions' \in Archives /\ draft' = Absent
           /\ file' \in {file, Torn} /\ owed' = Owed(file)
  <2>1. Backups(versions)'
    BY <1>0, <1>3, BackupTypes DEF Inv, Backups
  <2>2. owed' \in ValidDocuments \cup {Absent, Torn}
    BY <1>3 DEF Inv, TypeOK, Owed
  <2>3. TornHasBackup'
    BY <1>3, ArchivedHasFile DEF Inv, TornHasBackup, Owed
  <2>. QED BY <1>0, <1>3, <2>1, <2>2, <2>3, DownLeaves
<1>. QED BY <1>1, <1>2, <1>3 DEF CrashInDeploy

LEMMA CrashInRollbackInv ==
  ASSUME Inv, NEW t \in DOMAIN versions, CrashInRollback(t)
  PROVE  Inv'
<1>. USE DEF CrashInRollback
<1>1. Down /\ now' = now /\ file' \in {Torn} \cup ValidDocuments
  BY DEF Down
<1>2. draft' \in Documents \cup {Absent, Torn} /\ Backups(versions)'
  BY <1>1 DEF Inv, TypeOK, Backups
<1>3. owed' \in {Absent, versions[t]}
  BY DEF Owed
<1>4. owed' \in ValidDocuments \cup {Absent, Torn} /\ TornHasBackup'
  BY <1>3 DEF TornHasBackup
<1>. QED BY <1>1, <1>2, <1>4, DownLeaves

LEMMA OtherInv ==
  ASSUME Inv, (\E doc \in Documents : SaveDraft(doc)) \/ Repair \/ Tick \/ UNCHANGED vars
  PROVE  Inv'
<1>. USE DEF Inv
<1>1. CASE \E doc \in Documents : SaveDraft(doc)
  BY <1>1 DEF SaveDraft, TypeOK, InForce, PluginsOfMapping, TornHasBackup
<1>2. CASE Repair
  BY <1>2 DEF Repair, TypeOK, InForce, PluginsOfMapping, TornHasBackup
<1>3. CASE Tick
  BY <1>3, BoundsAssumption
     DEF Tick, files, TypeOK, InForce, PluginsOfMapping, TornHasBackup
<1>4. CASE UNCHANGED vars
  BY <1>4 DEF vars, files, TypeOK, InForce, PluginsOfMapping, TornHasBackup
<1>. QED BY <1>1, <1>2, <1>3, <1>4

LEMMA NextInv == Inv /\ [Next]_vars => Inv'
  BY BootInv, DeployInv, DeployFailsInv, RollbackInv, CrashInv, CrashInRollbackInv, OtherInv DEF Next

LEMMA Inductive == Spec => []Inv
  BY InitInv, NextInv, PTL DEF Spec

-----------------------------------------------------------------------------
(* Theorems.                                                               *)

\* Types of the files, the mapper and the clock.
THEOREM TypeCorrect == Spec => []TypeOK
  BY Inductive, PTL DEF Inv

\* Unless the last request failed, what is mapped, subscribed and loaded is one
\* mapping, and a file that could be opened has it or is torn (setMapping,
\* persistMapping, onDeploy).
THEOREM OneMappingInForce == Spec => []InForce
  BY Inductive, PTL DEF Inv

\* The functions of another mapping's plugins are never called.
THEOREM NoForeignPlugins == Spec => []PluginsOfMapping
  BY Inductive, PTL DEF Inv

\* However small MaxVersions is, pruning leaves the backup of what the deploy
\* of a draft tears; a rollback that tears the file leaves its version.
THEOREM TornIsBackedUp == Spec => []TornHasBackup
  BY Inductive, PTL DEF Inv

\* A running process puts nothing but the mapping in force into the file, or
\* tears it; a request that fails changes it only in a rollback.
THEOREM FileIsMapping == Spec => FileFollowsMapping
<1>. DEFINE Follows ==
       \/ reply' = "ack" /\ file' \in {mapping', Torn}
       \/ /\ reply' = "error" /\ versions' = versions
          /\ \E t \in DOMAIN versions :
               versions[t] \in ValidDocuments /\ file' \in {versions[t], Torn}
<1>1. ASSUME [Next]_vars PROVE [(up /\ up' /\ file' # file) => Follows]_vars
  <2>. SUFFICES ASSUME Next, up, up', file' # file PROVE Follows
    BY <1>1
  <2>1. \/ Deploy \/ DeployNothing
        \/ \E t \in DOMAIN versions : Rollback(t) \/ RollbackFails(t)
    BY <1>1 DEF Next, Boot, SaveDraft, DeployFails, HalfDeployed, RollbackRefused, CrashInRollback,
                Crash, CrashInSaveDraft, CrashInDeploy, CrashInDeployNothing, Down, Repair, Tick,
                files
  <2>2. ASSUME NEW doc, NEW saved, Activate(doc, saved)
        PROVE  \/ reply' = "ack" /\ file' \in {mapping', Torn, saved} /\ mapping' = doc
               \/ reply' = "error" /\ file' = saved
    BY <2>2 DEF Activate, SetMapping
  <2>3. CASE Deploy \/ DeployNothing
    BY <2>2, <2>3 DEF Deploy, DeployNothing
  <2>4. CASE \E t \in DOMAIN versions : Rollback(t)
    <3>1. PICK t \in DOMAIN versions : Rollback(t)
      BY <2>4
    <3>. QED BY <2>2, <3>1 DEF Rollback
  <2>5. CASE \E t \in DOMAIN versions : RollbackFails(t)
    BY <2>5 DEF RollbackFails
  <2>. QED BY <2>1, <2>3, <2>4, <2>5
<1>. QED BY <1>1, PTL DEF Spec, FileFollowsMapping

\* A backup is removed only when deployDraft keeps MaxVersions newer ones:
\* neither a deploy, nor a rollback, nor a process that dies in either loses
\* a newer backup for an older one.
THEOREM NewestAreKept == Spec => NewestKept
<1>. DEFINE Kept(t) == Cardinality({k \in DOMAIN versions' : k > t}) >= MaxVersions
<1>1. ASSUME Inv, [Next]_vars
      PROVE  [\A t \in DOMAIN versions \ DOMAIN versions' : Kept(t)]_vars
  <2>. SUFFICES ASSUME Next, NEW t \in DOMAIN versions \ DOMAIN versions' PROVE Kept(t)
    BY <1>1
  <2>1. DOMAIN Backup = DOMAIN versions \cup {now}
    BY DEF Backup, With
  <2>2. DOMAIN With(versions, now, Torn) = DOMAIN versions \cup {now}
    BY DEF With
  <2>3. file # Absent /\ versions' \in Archives /\ versions' # Backup
    BY <2>1, <2>2
       DEF Next, Boot, SaveDraft, Deploy, DeployFails, HalfDeployed, DeployNothing, Rollback,
           RollbackFails, RollbackRefused, CrashInRollback, Crash, CrashInSaveDraft, CrashInDeploy,
           CrashInDeployNothing, Down, Repair, Tick, files, Archives
  <2>4. now \in Nat /\ DOMAIN Backup \subseteq 0 .. now
    BY <1>1, <2>1, BoundsAssumption DEF Inv, TypeOK
  <2>5. PICK kept \in Nat : kept >= MaxVersions /\ versions' = Prune(Backup, kept)
    BY <1>1, <2>3, Archiving DEF Inv
  <2>. QED BY <2>1, <2>4, <2>5, PrunedIsOld
<1>. QED BY <1>1, Inductive, PTL DEF Spec, NewestKept
=============================================================================
