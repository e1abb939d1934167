----------------------------- MODULE ConfigPage -----------------------------
(***************************************************************************)
(* The configuration pages of mqttbridge beside the server they configure. *)
(* A page loads the definition, edits a copy, and saves by sending the     *)
(* difference between the copy and the definition it believes the server   *)
(* to have: its baseline.  Nothing tells a page that the server's          *)
(* definition changed, and nothing keeps it from saving while a save is    *)
(* under way.                                                              *)
(*                                                                         *)
(* The server is what Reconfiguration promises of it, without its MQTT     *)
(* sessions: whether there are any decides if an accepted definition is    *)
(* applied at once, and both are possible here.                            *)
(***************************************************************************)
EXTENDS Naturals, FiniteSets

CONSTANTS
  Pages,             \* pages of browsers
  MaxSaves,          \* bound: requests to save of all pages
  MaxEdits,          \* bound: edits of all pages
  Definitions,       \* definitions
  NoDefinition,      \* none: not in Definitions
  NewDefinition,     \* what a page shows before it has loaded
  Inapplicable,      \* what stands for the result of a patch that does not apply
  IsValid(_),        \* the schema accepts the definition
  WithDefaults(_),   \* the definition with the schema's defaults
  NormalForm(_),     \* the page's normal form
  Difference(_, _),  \* the patch from one normal form to another
  Applied(_, _),     \* a definition with a patch applied, or Inapplicable
  EditsOf(_),        \* edits that are staged and saved later
  Arrangements(_),   \* edits that are saved at once
  Shortens(_, _)     \* the edit shortens a list by several elements

VARIABLES
  saved, running, pending,   \* the server: its file, definition, accepted one
  shown,      \* each page's document: the state n
  current,    \* the one its controls save: N.current
  baseline,   \* b.current
  saves,      \* requests to save: their page, patch, what it saves, the answer
  edits,      \* number of edits so far
  disturbed   \* pages whose baseline the code cannot answer for (history)

server == <<saved, running, pending>>
documents == <<shown, current, baseline>>
vars == <<server, documents, saves, edits, disturbed>>

NoBroker(d) == {}
Server == INSTANCE Reconfiguration WITH
  Definitions <- Definitions, None <- NoDefinition, Served <- NoBroker,
  sessions <- {}

Slots == 1 .. MaxSaves
Unused == [state |-> "unused"]
Over == [state |-> "over"]
Loaded == {p \in Pages : baseline[p] # NoDefinition}
Accepted == IF pending = NoDefinition THEN running ELSE pending

-----------------------------------------------------------------------------
(* Loading.                                                                *)

\* GET answers with the active definition, also during a restart.  What another
\* page saves while the answer is on its way is as stale as what it saves later.
Load(p) ==
  /\ baseline[p] = NoDefinition
  /\ running # NoDefinition
  /\ shown' = [shown EXCEPT ![p] = running]
  /\ current' = [current EXCEPT ![p] = running]
  /\ baseline' = [baseline EXCEPT ![p] = running]
  /\ disturbed' = IF pending = NoDefinition THEN disturbed ELSE disturbed \cup {p}
  /\ UNCHANGED <<server, saves, edits>>

\* The page goes on with what it showed first.
LoadFails(p) ==
  /\ baseline[p] = NoDefinition
  /\ current' = [current EXCEPT ![p] = NewDefinition]
  /\ baseline' = [baseline EXCEPT ![p] = NewDefinition]
  /\ disturbed' = disturbed \cup {p}
  /\ UNCHANGED <<server, shown, saves, edits>>

-----------------------------------------------------------------------------
(* Editing and saving.                                                     *)

\* The bound counts a change of a document, whatever its handler does next.
Change(p, d) ==
  /\ edits < MaxEdits
  /\ edits' = edits + 1
  /\ shown' = [shown EXCEPT ![p] = d]
  /\ current' = [current EXCEPT ![p] = d]
  /\ UNCHANGED <<server, baseline>>

UnderWay(p) == {s \in Slots : saves[s] \notin {Unused, Over} /\ saves[s].page = p}

\* V: nothing before the page has loaded, and nothing when nothing changed.
Save(p, d) ==
  LET patch == Difference(NormalForm(baseline[p]), NormalForm(d))
  IN IF baseline[p] = NoDefinition \/ patch = <<>>
     THEN UNCHANGED <<saves, disturbed>>
     ELSE \E s \in Slots :
            /\ saves[s] = Unused /\ \A r \in 1 .. s - 1 : saves[r] # Unused
            /\ saves' = [saves EXCEPT ![s] =
                           [state |-> "sent", page |-> p, patch |-> patch, from |-> baseline[p], to |-> d]]
            /\ disturbed' = IF UnderWay(p) = {} THEN disturbed ELSE disturbed \cup {p}

\* onChange of a bridge.
Edit(p) ==
  /\ \E d \in EditsOf(shown[p]) : Change(p, d)
  /\ UNCHANGED <<saves, disturbed>>

\* onSave: a control lost the focus, was confirmed or toggled.
SaveEdits(p) ==
  /\ Save(p, current[p])
  /\ UNCHANGED <<server, documents, edits>>

\* Add, delete, duplicate a bridge.
Rearrange(p) ==
  \E d \in Arrangements(shown[p]) : Change(p, d) /\ Save(p, d)

-----------------------------------------------------------------------------
(* The answer to a save.                                                   *)

Answer(s, a) == saves' = [saves EXCEPT ![s].state = a]

PatchAllowed == pending = NoDefinition

\* The result of the patch on the active definition, if it is one.
Result(patch) ==
  LET d == IF running = NoDefinition THEN Inapplicable ELSE Applied(running, patch)
  IN {WithDefaults(x) : x \in {y \in {d} \ {Inapplicable} : IsValid(y)}}

\* PATCH /api/bridge/config is answered with success.
PatchAccepted(p, s) ==
  /\ s \in UnderWay(p) /\ saves[s].state = "sent"
  /\ PatchAllowed
  /\ \E d \in Result(saves[s].patch) : Server!Accept(d) \/ Server!Apply(d)
  /\ Answer(s, "accepted")
  /\ disturbed' = disturbed \cup (Loaded \ {p})
  /\ UNCHANGED <<documents, edits>>

\* With 409 or 404.
PatchRefused(p, s) ==
  /\ s \in UnderWay(p) /\ saves[s].state = "sent"
  /\ ~PatchAllowed \/ Result(saves[s].patch) = {}
  /\ Answer(s, "refused")
  /\ UNCHANGED <<server, documents, edits, disturbed>>

\* The page takes what it saved as its new baseline.
SaveSucceeds_Mutant1(p, s) ==
  /\ s \in UnderWay(p) /\ saves[s].state = "accepted"
  /\ baseline' = [baseline EXCEPT ![p] = current[p]]
  /\ saves' = [saves EXCEPT ![s] = Over]
  /\ UNCHANGED <<server, shown, current, edits, disturbed>>
SaveSucceeds_Mutant2(p, s) ==
  /\ s \in UnderWay(p) /\ saves[s].state = "accepted"
  /\ saves' = [saves EXCEPT ![s] = Over]
  /\ UNCHANGED <<server, documents, edits, disturbed>>
SaveSucceeds(p, s) ==
  /\ s \in UnderWay(p) /\ saves[s].state = "accepted"
  /\ baseline' = [baseline EXCEPT ![p] = saves[s].to]
  /\ saves' = [saves EXCEPT ![s] = Over]
  /\ UNCHANGED <<server, shown, current, edits, disturbed>>

\* A refusal or a connection that fails: the page reports it and keeps both.
SaveFails(p, s) ==
  /\ s \in UnderWay(p)
  /\ saves' = [saves EXCEPT ![s] = Over]
  /\ disturbed' = IF saves[s].state = "accepted" THEN disturbed \cup {p} ELSE disturbed
  /\ UNCHANGED <<server, documents, edits>>

-----------------------------------------------------------------------------
(* The server without the pages.                                           *)

RestartFinishes ==
  /\ pending # NoDefinition
  /\ Server!Apply(pending)
  /\ UNCHANGED <<documents, saves, edits, disturbed>>

\* What was not saved is lost: a definition that was accepted and not yet applied, and
\* one in force of which the file was not written.  (A process that dies while it
\* writes, dies after it.)
ServerDies ==
  /\ running # NoDefinition
  /\ Server!Die
  /\ saved' = saved
  /\ disturbed' = IF pending = NoDefinition /\ saved = running THEN disturbed
                  ELSE disturbed \cup Loaded
  /\ UNCHANGED <<documents, saves, edits>>

ServerStarts ==
  /\ Server!Recover
  /\ UNCHANGED <<documents, saves, edits, disturbed>>

Init ==
  /\ saved \in {d \in Definitions : IsValid(d)}
  /\ Server!Init
  /\ shown = [p \in Pages |-> NewDefinition]
  /\ current = [p \in Pages |-> NewDefinition]
  /\ baseline = [p \in Pages |-> NoDefinition]
  /\ saves = [s \in Slots |-> Unused]
  /\ edits = 0
  /\ disturbed = {}

Next ==
  \/ \E p \in Pages : \/ Load(p)
                      \/ LoadFails(p)
                      \/ Edit(p)
                      \/ SaveEdits(p)
                      \/ Rearrange(p)
  \/ \E p \in Pages, s \in Slots : \/ PatchAccepted(p, s)
                                   \/ PatchRefused(p, s)
                                   \/ SaveSucceeds(p, s)
                                   \/ SaveFails(p, s)
  \/ RestartFinishes
  \/ ServerDies
  \/ ServerStarts

Spec == Init /\ [][Next]_vars

-----------------------------------------------------------------------------
(* What the theorems need of the documents.                                *)

\* Loads, defaults and edits of a document lead to documents, and the page's
\* normal form undoes the defaults.
LeadsToDocuments(d) ==
  /\ EditsOf(d) \subseteq Definitions
  /\ Arrangements(d) \subseteq Definitions
  /\ WithDefaults(d) \in Definitions
  /\ NormalForm(WithDefaults(d)) = NormalForm(d)

\* A patch between two normal forms that applies to a definition gives one.
PatchGivesDocument(r, a, b) ==
  Applied(r, Difference(NormalForm(a), NormalForm(b))) \in Definitions \cup {Inapplicable}

\* Applied to a definition with the normal form it was made from, it gives the one
\* it was made for, which the schema accepts or not as it does that one; and it
\* applies unless it shortens a list by several elements.
PatchIsExact(r, a, b) ==
  LET x == Applied(r, Difference(NormalForm(a), NormalForm(b)))
  IN NormalForm(r) = NormalForm(a) =>
       /\ x # Inapplicable => NormalForm(x) = NormalForm(b) /\ (IsValid(x) <=> IsValid(b))
       /\ ~Shortens(a, b) => x # Inapplicable

-----------------------------------------------------------------------------
(* Properties.                                                             *)

TypeOK ==
  /\ {saved, running, pending} \subseteq Definitions \cup {NoDefinition}
  /\ shown \in [Pages -> Definitions]
  /\ current \in [Pages -> Definitions]
  /\ baseline \in [Pages -> Definitions \cup {NoDefinition}]
  /\ edits \in 0 .. MaxEdits
  /\ disturbed \subseteq Pages

\* What a page believes the server to have, once the answer to a save that was
\* accepted has arrived.
Believed(p) ==
  LET accepted == {s \in UnderWay(p) : saves[s].state = "accepted"}
  IN IF accepted # {} THEN saves[CHOOSE s \in accepted : TRUE].to
     ELSE baseline[p]

\* The baseline of a page is the definition the server accepted last, unless the
\* page loaded during a restart, another page or a lost answer or process came
\* between, or it saved again before the answer.
BaselineIsAccepted ==
  \A p \in Pages \ disturbed :
    (baseline[p] # NoDefinition /\ running # NoDefinition)
      => NormalForm(Believed(p)) = NormalForm(Accepted)

\* A save of such a page is refused only during a restart, without a definition
\* in force, when the schema refuses what it saves, or when it shortens a list by
\* several elements.
RefusedFor(s) ==
  \/ pending # NoDefinition
  \/ running = NoDefinition
  \/ ~IsValid(saves[s].to)

Refuses(s) == saves[s].state = "sent" /\ saves'[s].state = "refused"

SavesWhatItShows ==
  [][\A p \in Pages \ disturbed : \A s \in UnderWay(p) :
       Refuses(s) => RefusedFor(s) \/ Shortens(saves[s].from, saves[s].to)]_vars

\* "Any changes to the Configuration are saved automatically": as before, without
\* the exception of what the page itself computes wrongly.
AnyChangeIsSaved ==
  [][\A p \in Pages \ disturbed : \A s \in UnderWay(p) :
       Refuses(s) => RefusedFor(s)]_vars
=============================================================================
