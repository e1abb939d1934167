--------------------------- MODULE ConfigPageProofs --------------------------
(***************************************************************************)
(* Theorems about ConfigPage for any pages, bounds and documents, from     *)
(* what has to be true of the documents: that edits lead to documents, and *)
(* that a patch is exact.                                                  *)
(*                                                                         *)
(* The invariant: a page that nothing came between has at most one save    *)
(* under way, made from its present baseline, and agrees with the server   *)
(* about the definition accepted last.                                     *)
(***************************************************************************)
EXTENDS ConfigPage, TLAPS

DocumentsAreClosed ==
  /\ NoDefinition \notin Definitions
  /\ NewDefinition \in Definitions
  /\ \A d \in Definitions : LeadsToDocuments(d)

PatchesAreExact ==
  \A r, a, b \in Definitions : PatchGivesDocument(r, a, b) /\ PatchIsExact(r, a, b)

Patches == {Difference(NormalForm(a), NormalForm(b)) : a, b \in Definitions}
Requests == [state : {"sent", "accepted", "refused"}, page : Pages, patch : Patches,
             from : Definitions, to : Definitions]

Types ==
  /\ saved \in Definitions \cup {NoDefinition}
  /\ running \in Definitions \cup {NoDefinition}
  /\ pending \in Definitions \cup {NoDefinition}
  /\ shown \in [Pages -> Definitions]
  /\ current \in [Pages -> Definitions]
  /\ baseline \in [Pages -> Definitions \cup {NoDefinition}]
  /\ saves \in [Slots -> Requests \cup {Unused, Over}]
  /\ disturbed \subseteq Pages

\* A process that is down has accepted none.
ServerInv == running = NoDefinition => pending = NoDefinition

\* The definition accepted last, or what the server will come back with.
Last == CASE pending # NoDefinition -> pending
          [] pending = NoDefinition /\ running # NoDefinition -> running
          [] OTHER -> saved

PageInv(p) ==
  /\ baseline[p] = NoDefinition => UnderWay(p) = {}
  /\ \A s, t \in UnderWay(p) : s = t
  /\ \A s \in UnderWay(p) :
       /\ saves[s].from = baseline[p]
       /\ saves[s].patch = Difference(NormalForm(baseline[p]), NormalForm(saves[s].to))
  /\ baseline[p] # NoDefinition =>
       /\ \A s \in UnderWay(p) :
            saves[s].state = "accepted" => NormalForm(saves[s].to) = NormalForm(Last)
       /\ (\A s \in UnderWay(p) : saves[s].state # "accepted")
            => NormalForm(baseline[p]) = NormalForm(Last)

Inv == Types /\ ServerInv /\ \A p \in Pages \ disturbed : PageInv(p)

-----------------------------------------------------------------------------
(* Requests.                                                               *)

\* A slot that is in use holds a request.
LEMMA InUse ==
  ASSUME Types, NEW p \in Pages
  PROVE  /\ \A s \in UnderWay(p) : s \in Slots /\ saves[s] \in Requests /\ saves[s].page = p
         /\ \A s \in Slots : saves[s] \in Requests /\ saves[s].page = p => s \in UnderWay(p)
<1>1. \A r \in Requests : r # Unused /\ r # Over
  BY DEF Requests, Unused, Over
<1>. QED BY <1>1 DEF Types, UnderWay

\* A page that a step leaves alone.
LEMMA LeftAlone ==
  ASSUME NEW q \in Pages, PageInv(q), baseline'[q] = baseline[q],
         UnderWay(q)' = UnderWay(q),
         \A s \in UnderWay(q) : saves'[s] = saves[s],
         baseline[q] # NoDefinition => NormalForm(Last)' = NormalForm(Last)
  PROVE  PageInv(q)'
<1>. DEFINE slots == UnderWay(q)
<1>1. UnderWay(q)' = slots
  OBVIOUS
<1>. HIDE DEF slots
<1>. QED BY <1>1 DEF PageInv, slots

\* An answer changes the state of its request and nothing else.
LEMMA Answered ==
  ASSUME Types, NEW p \in Pages, NEW s \in UnderWay(p), NEW a \in {"accepted", "refused"},
         Answer(s, a)
  PROVE  /\ saves' \in [Slots -> Requests \cup {Unused, Over}]
         /\ saves'[s].state = a
         /\ saves'[s].from = saves[s].from /\ saves'[s].to = saves[s].to
         /\ saves'[s].patch = saves[s].patch
         /\ \A t \in Slots \ {s} : saves'[t] = saves[t]
         /\ \A q \in Pages : UnderWay(q)' = UnderWay(q)
<1>1. s \in Slots /\ saves[s] \in Requests /\ saves[s].page = p
  BY InUse
<1>2. /\ saves' = [saves EXCEPT ![s] = [saves[s] EXCEPT !.state = a]]
      /\ [saves[s] EXCEPT !.state = a] \in Requests
  BY <1>1 DEF Answer, Requests
<1>3. saves'[s] = [saves[s] EXCEPT !.state = a] /\ \A t \in Slots \ {s} : saves'[t] = saves[t]
  BY <1>1, <1>2 DEF Types
<1>4. /\ saves'[s].state = a /\ saves'[s].page = p
      /\ saves'[s].from = saves[s].from /\ saves'[s].to = saves[s].to
      /\ saves'[s].patch = saves[s].patch
  BY <1>1, <1>3 DEF Requests
<1>5. saves' \in [Slots -> Requests \cup {Unused, Over}]
  BY <1>2 DEF Types
<1>6. \A r \in Requests : r # Unused /\ r # Over
  BY DEF Requests, Unused, Over
<1>7. saves'[s] \in Requests
  BY <1>2, <1>3
<1>8. ASSUME NEW q \in Pages, NEW t \in Slots
      PROVE  t \in UnderWay(q)' <=> t \in UnderWay(q)
  <2>1. CASE t = s
    BY <1>1, <1>4, <1>6, <1>7, <2>1 DEF UnderWay
  <2>2. CASE t # s
    BY <1>3, <2>2 DEF UnderWay
  <2>. QED BY <2>1, <2>2
<1>9. \A q \in Pages : UnderWay(q)' = UnderWay(q)
  BY <1>8 DEF UnderWay
<1>. QED BY <1>3, <1>4, <1>5, <1>9

\* A slot that is given up.
LEMMA GivenUp ==
  ASSUME Types, NEW p \in Pages, NEW s \in UnderWay(p),
         saves' = [saves EXCEPT ![s] = Over]
  PROVE  /\ saves' \in [Slots -> Requests \cup {Unused, Over}]
         /\ \A t \in Slots \ {s} : saves'[t] = saves[t]
         /\ UnderWay(p)' = UnderWay(p) \ {s}
         /\ \A q \in Pages \ {p} : UnderWay(q)' = UnderWay(q) /\ s \notin UnderWay(q)
<1>1. s \in Slots /\ saves[s].page = p
  BY InUse
<1>2. /\ saves' \in [Slots -> Requests \cup {Unused, Over}]
      /\ saves'[s] = Over /\ \A t \in Slots \ {s} : saves'[t] = saves[t]
  BY <1>1 DEF Types
<1>3. \A q \in Pages : UnderWay(q)' = UnderWay(q) \ {s}
  BY <1>2 DEF UnderWay
<1>4. \A q \in Pages \ {p} : s \notin UnderWay(q)
  BY <1>1, InUse
<1>. QED BY <1>2, <1>3, <1>4

-----------------------------------------------------------------------------
(* The page.                                                               *)

\* A page that loads outside a restart has the definition accepted last.
LEMMA LoadInv ==
  ASSUME DocumentsAreClosed, Inv, NEW p \in Pages, Load(p)
  PROVE  Inv'
<1>1. /\ baseline[p] = NoDefinition /\ running # NoDefinition
      /\ shown' = [shown EXCEPT ![p] = running]
      /\ current' = [current EXCEPT ![p] = running]
      /\ baseline' = [baseline EXCEPT ![p] = running]
      /\ disturbed' = IF pending = NoDefinition THEN disturbed ELSE disturbed \cup {p}
      /\ saved' = saved /\ running' = running /\ pending' = pending /\ saves' = saves
  BY DEF Load, server
<1>2. running \in Definitions
  BY <1>1 DEF Inv, Types
<1>3. Types'
  BY <1>1, <1>2 DEF Inv, Types
<1>4. ServerInv'
  BY <1>1 DEF Inv, ServerInv
<1>5. ASSUME NEW q \in Pages \ disturbed' PROVE PageInv(q)'
  <2>1. q \in Pages \ disturbed /\ Last' = Last /\ UnderWay(q)' = UnderWay(q)
    BY <1>1, <1>5 DEF Last, UnderWay
  <2>2. CASE q # p
    BY <1>1, <2>1, <2>2, LeftAlone DEF Inv, Types
  <2>3. CASE q = p
    <3>1. UnderWay(p) = {} /\ pending = NoDefinition
      BY <1>1, <1>5, <2>1, <2>3 DEF Inv, PageInv
    <3>2. baseline'[p] = running /\ Last' = running
      BY <1>1, <1>2, <3>1 DEF Inv, Types, Last
    <3>. QED BY <1>2, <2>1, <2>3, <3>1, <3>2 DEF PageInv, DocumentsAreClosed, LeadsToDocuments
  <2>. QED BY <2>2, <2>3
<1>. QED BY <1>3, <1>4, <1>5 DEF Inv

\* A page whose load failed is disturbed.
LEMMA LoadFailsInv ==
  ASSUME DocumentsAreClosed, Inv, NEW p \in Pages, LoadFails(p)
  PROVE  Inv'
<1>1. /\ current' = [current EXCEPT ![p] = NewDefinition]
      /\ baseline' = [baseline EXCEPT ![p] = NewDefinition]
      /\ disturbed' = disturbed \cup {p}
      /\ saved' = saved /\ running' = running /\ pending' = pending /\ saves' = saves
      /\ shown' = shown
  BY DEF LoadFails, server
<1>2. Types'
  BY <1>1 DEF Inv, Types, DocumentsAreClosed, LeadsToDocuments
<1>3. ServerInv'
  BY <1>1 DEF Inv, ServerInv
<1>4. ASSUME NEW q \in Pages \ disturbed' PROVE PageInv(q)'
  <2>1. q \in Pages \ disturbed /\ q # p /\ Last' = Last /\ UnderWay(q)' = UnderWay(q)
    BY <1>1, <1>4 DEF Last, UnderWay
  <2>. QED BY <1>1, <2>1, LeftAlone DEF Inv, Types
<1>. QED BY <1>2, <1>3, <1>4 DEF Inv

\* A save goes into a slot of its own, made from the baseline.
LEMMA SaveInv ==
  ASSUME Inv, NEW p \in Pages, NEW d \in Definitions, Save(p, d),
         UNCHANGED <<server, baseline>>,
         shown' \in [Pages -> Definitions], current' \in [Pages -> Definitions]
  PROVE  Inv'
<1>. DEFINE patch == Difference(NormalForm(baseline[p]), NormalForm(d))
            request == [state |-> "sent", page |-> p, patch |-> patch, from |-> baseline[p], to |-> d]
<1>1. saved' = saved /\ running' = running /\ pending' = pending /\ baseline' = baseline /\ Last' = Last
  BY DEF server, Last
<1>2. ServerInv'
  BY <1>1 DEF Inv, ServerInv
<1>3. CASE UNCHANGED <<saves, disturbed>>
  <2>1. Types'
    BY <1>1, <1>3 DEF Inv, Types
  <2>2. ASSUME NEW q \in Pages \ disturbed' PROVE PageInv(q)'
    <3>1. UnderWay(q)' = UnderWay(q)
      BY <1>3 DEF UnderWay
    <3>. QED BY <1>1, <1>3, <2>2, <3>1, LeftAlone DEF Inv
  <2>. QED BY <1>2, <2>1, <2>2 DEF Inv
<1>4. CASE ~UNCHANGED <<saves, disturbed>>
  <2>1. /\ baseline[p] # NoDefinition
        /\ disturbed' = IF UnderWay(p) = {} THEN disturbed ELSE disturbed \cup {p}
        /\ \E s \in Slots : saves[s] = Unused /\ saves' = [saves EXCEPT ![s] = request]
    BY <1>4 DEF Save
  <2>2. PICK s \in Slots : saves[s] = Unused /\ saves' = [saves EXCEPT ![s] = request]
    BY <2>1
  <2>3. baseline[p] \in Definitions
    BY <2>1 DEF Inv, Types
  <2>4. request \in Requests
    BY <2>3 DEF Requests, Patches
  <2>5. /\ request.state = "sent" /\ request.page = p /\ request.patch = patch
        /\ request.from = baseline[p] /\ request.to = d
    OBVIOUS
  <2>. HIDE DEF request
  <2>6. saves'[s] = request /\ \A t \in Slots \ {s} : saves'[t] = saves[t]
    BY <2>2 DEF Inv, Types
  <2>7. Types'
    BY <1>1, <2>1, <2>2, <2>4 DEF Inv, Types
  <2>8. request # Unused /\ request # Over
    BY <2>5 DEF Unused, Over
  <2>9. \A q \in Pages : /\ s \notin UnderWay(q)
                         /\ UnderWay(q)' = IF q = p THEN UnderWay(q) \cup {s} ELSE UnderWay(q)
    BY <2>2, <2>5, <2>6, <2>8 DEF UnderWay
  <2>10. ASSUME NEW q \in Pages \ disturbed' PROVE PageInv(q)'
    <3>1. q \in Pages \ disturbed
      BY <2>1, <2>10
    <3>2. CASE q # p
      <4>1. \A t \in UnderWay(q) : saves'[t] = saves[t]
        BY <2>6, <2>9 DEF UnderWay
      <4>. QED BY <1>1, <2>9, <3>1, <3>2, <4>1, LeftAlone DEF Inv
    <3>3. CASE q = p
      <4>1. UnderWay(q) = {} /\ UnderWay(q)' = {s}
        BY <2>1, <2>9, <2>10, <3>3
      <4>2. NormalForm(baseline[p]) = NormalForm(Last)
        BY <2>1, <3>1, <3>3, <4>1 DEF Inv, PageInv
      <4>. QED BY <1>1, <2>1, <2>5, <2>6, <3>3, <4>1, <4>2 DEF PageInv
    <3>. QED BY <3>2, <3>3
  <2>. QED BY <1>2, <2>7, <2>10 DEF Inv
<1>. QED BY <1>3, <1>4

\* The editing itself changes what the page shows, which no save depends on.
LEMMA EditInv ==
  ASSUME DocumentsAreClosed, Inv, NEW p \in Pages, Edit(p) \/ SaveEdits(p) \/ Rearrange(p)
  PROVE  Inv'
<1>1. ASSUME NEW d \in Definitions, Change(p, d)
      PROVE  /\ UNCHANGED <<server, baseline>>
             /\ shown' \in [Pages -> Definitions] /\ current' \in [Pages -> Definitions]
  BY <1>1 DEF Change, Inv, Types
<1>2. shown[p] \in Definitions /\ current[p] \in Definitions
  BY DEF Inv, Types
<1>3. CASE Edit(p)
  <2>1. PICK d \in EditsOf(shown[p]) : Change(p, d)
    BY <1>3 DEF Edit
  <2>2. d \in Definitions
    BY <1>2 DEF DocumentsAreClosed, LeadsToDocuments
  <2>3. saves' = saves /\ disturbed' = disturbed
    BY <1>3 DEF Edit
  <2>4. saved' = saved /\ running' = running /\ pending' = pending /\ baseline' = baseline
    BY <1>1, <2>1, <2>2 DEF server
  <2>5. Types' /\ ServerInv'
    BY <1>1, <2>1, <2>2, <2>3, <2>4 DEF Inv, Types, ServerInv
  <2>6. ASSUME NEW q \in Pages \ disturbed' PROVE PageInv(q)'
    <3>1. UnderWay(q)' = UnderWay(q) /\ Last' = Last
      BY <2>3, <2>4 DEF UnderWay, Last
    <3>. QED BY <2>3, <2>4, <2>6, <3>1, LeftAlone DEF Inv
  <2>. QED BY <2>5, <2>6 DEF Inv
<1>4. CASE SaveEdits(p)
  BY <1>2, <1>4, SaveInv DEF SaveEdits, documents, Inv, Types
<1>5. CASE Rearrange(p)
  <2>1. PICK d \in Arrangements(shown[p]) : Change(p, d) /\ Save(p, d)
    BY <1>5 DEF Rearrange
  <2>2. d \in Definitions
    BY <1>2 DEF DocumentsAreClosed, LeadsToDocuments
  <2>. QED BY <1>1, <2>1, <2>2, SaveInv
<1>. QED BY <1>3, <1>4, <1>5

-----------------------------------------------------------------------------
(* The answers.                                                            *)

\* A request that the server answers with success gives a document; from an
\* undisturbed page, the one the page saves.
LEMMA ResultIsSaved ==
  ASSUME DocumentsAreClosed, PatchesAreExact, Inv,
         NEW p \in Pages, NEW s \in UnderWay(p), saves[s].state = "sent",
         PatchAllowed, running # NoDefinition,
         NEW x, x = Applied(running, saves[s].patch), x # Inapplicable
  PROVE  /\ x \in Definitions
         /\ p \notin disturbed => NormalForm(x) = NormalForm(saves[s].to)
<1>1. running \in Definitions /\ Last = running
  BY DEF Inv, Types, ServerInv, PatchAllowed, Last
<1>2. saves[s] \in Requests
  BY InUse DEF Inv
<1>3. saves[s].to \in Definitions
  BY <1>2 DEF Requests
<1>4. PICK a, b \in Definitions : saves[s].patch = Difference(NormalForm(a), NormalForm(b))
  BY <1>2 DEF Requests, Patches
<1>5. x \in Definitions
  BY <1>1, <1>4 DEF PatchesAreExact, PatchGivesDocument
<1>6. ASSUME p \notin disturbed
      PROVE  NormalForm(x) = NormalForm(saves[s].to)
  <2>1. PageInv(p)
    BY <1>6 DEF Inv
  <2>2. /\ saves[s].patch = Difference(NormalForm(baseline[p]), NormalForm(saves[s].to))
        /\ \A t \in UnderWay(p) : t = s
        /\ baseline[p] # NoDefinition
    BY <2>1 DEF PageInv
  <2>3. baseline[p] \in Definitions
    BY <2>2 DEF Inv, Types
  <2>4. NormalForm(running) = NormalForm(baseline[p])
    BY <1>1, <2>1, <2>2 DEF PageInv
  <2>. QED BY <1>1, <1>3, <2>2, <2>3, <2>4 DEF PatchesAreExact, PatchIsExact
<1>. QED BY <1>5, <1>6

LEMMA PatchAcceptedInv ==
  ASSUME DocumentsAreClosed, PatchesAreExact, Inv,
         NEW p \in Pages, NEW s \in Slots, PatchAccepted(p, s)
  PROVE  Inv'
<1>1. /\ s \in UnderWay(p) /\ saves[s].state = "sent" /\ PatchAllowed
      /\ Answer(s, "accepted")
      /\ disturbed' = disturbed \cup (Loaded \ {p})
      /\ shown' = shown /\ current' = current /\ baseline' = baseline
  BY DEF PatchAccepted, documents
<1>2. PICK d \in Result(saves[s].patch) : Server!Accept(d) \/ Server!Apply(d)
  BY DEF PatchAccepted
<1>3. /\ running # NoDefinition
      /\ \E x : x = Applied(running, saves[s].patch) /\ x # Inapplicable /\ d = WithDefaults(x)
  BY <1>2 DEF Result
<1>4. /\ saves'[s].from = saves[s].from /\ saves'[s].to = saves[s].to
      /\ saves'[s].patch = saves[s].patch /\ saves'[s].state = "accepted"
      /\ saves' \in [Slots -> Requests \cup {Unused, Over}]
      /\ \A t \in Slots \ {s} : saves'[t] = saves[t]
      /\ \A q \in Pages : UnderWay(q)' = UnderWay(q)
  BY <1>1, Answered DEF Inv
<1>5. \/ pending' = d /\ saved' = saved /\ running' = running
      \/ pending' = NoDefinition /\ saved' \in {d, saved, NoDefinition} /\ running' = d
  BY <1>2 DEF Server!Accept, Server!Apply
<1>6. d \in Definitions /\ d # NoDefinition /\ (p \notin disturbed => NormalForm(d) = NormalForm(saves[s].to))
  BY <1>1, <1>3, ResultIsSaved DEF DocumentsAreClosed, LeadsToDocuments
<1>7. Last' = d
  BY <1>5, <1>6 DEF Last
<1>8. Types'
  BY <1>1, <1>4, <1>5, <1>6 DEF Inv, Types, Loaded
<1>9. ServerInv'
  BY <1>3, <1>5, <1>6 DEF Inv, ServerInv
<1>10. ASSUME NEW q \in Pages \ disturbed' PROVE PageInv(q)'
  <2>1. q \in Pages \ disturbed /\ q \notin Loaded \ {p} /\ PageInv(q)
    BY <1>1, <1>10 DEF Inv
  <2>2. CASE q # p
    <3>1. baseline[q] = NoDefinition /\ UnderWay(q) = {}
      BY <2>1, <2>2 DEF Loaded, PageInv
    <3>. QED BY <1>1, <1>4, <2>1, <3>1, LeftAlone
  <2>3. CASE q = p
    <3>1. /\ \A t \in UnderWay(p) : t = s
          /\ saves[s].from = baseline[p]
          /\ saves[s].patch = Difference(NormalForm(baseline[p]), NormalForm(saves[s].to))
          /\ baseline[p] # NoDefinition
      BY <1>1, <2>1, <2>3 DEF PageInv
    <3>2. NormalForm(saves[s].to) = NormalForm(d)
      BY <1>6, <2>1, <2>3
    <3>. HIDE DEF UnderWay
    <3>. QED BY <1>1, <1>4, <1>7, <2>3, <3>1, <3>2 DEF PageInv
  <2>. QED BY <2>2, <2>3
<1>. QED BY <1>8, <1>9, <1>10 DEF Inv

\* A refusal changes nothing but the state of the request.
LEMMA PatchRefusedInv ==
  ASSUME Inv, NEW p \in Pages, NEW s \in Slots, PatchRefused(p, s)
  PROVE  Inv'
<1>1. /\ s \in UnderWay(p) /\ saves[s].state = "sent" /\ Answer(s, "refused")
      /\ disturbed' = disturbed
      /\ saved' = saved /\ running' = running /\ pending' = pending
      /\ shown' = shown /\ current' = current /\ baseline' = baseline
  BY DEF PatchRefused, server, documents
<1>2. /\ saves'[s].from = saves[s].from /\ saves'[s].to = saves[s].to
      /\ saves'[s].patch = saves[s].patch /\ saves'[s].state = "refused"
      /\ saves' \in [Slots -> Requests \cup {Unused, Over}]
      /\ \A t \in Slots \ {s} : saves'[t] = saves[t]
      /\ \A q \in Pages : UnderWay(q)' = UnderWay(q)
  BY <1>1, Answered DEF Inv
<1>3. Types'
  BY <1>1, <1>2 DEF Inv, Types
<1>4. ServerInv' /\ Last' = Last
  BY <1>1 DEF Inv, ServerInv, Last
<1>5. ASSUME NEW q \in Pages \ disturbed' PROVE PageInv(q)'
  <2>1. q \in Pages \ disturbed /\ PageInv(q)
    BY <1>1, <1>5 DEF Inv
  <2>2. CASE q # p
    <3>1. \A t \in UnderWay(q) : t \in Slots /\ saves[t].page = q
      BY InUse DEF Inv
    <3>2. saves[s].page = p
      BY <1>1, InUse DEF Inv
    <3>3. \A t \in UnderWay(q) : saves'[t] = saves[t]
      BY <1>2, <2>2, <3>1, <3>2
    <3>. QED BY <1>1, <1>2, <1>4, <2>1, <3>3, LeftAlone
  <2>3. CASE q = p
    <3>1. /\ \A t \in UnderWay(p) : t = s
          /\ saves[s].from = baseline[p]
          /\ saves[s].patch = Difference(NormalForm(baseline[p]), NormalForm(saves[s].to))
          /\ baseline[p] # NoDefinition
          /\ NormalForm(baseline[p]) = NormalForm(Last)
      BY <1>1, <2>1, <2>3 DEF PageInv
    <3>. QED BY <1>1, <1>2, <1>4, <2>3, <3>1 DEF PageInv
  <2>. QED BY <2>2, <2>3
<1>. QED BY <1>3, <1>4, <1>5 DEF Inv

\* The page takes over what the server has accepted.
LEMMA SaveSucceedsInv ==
  ASSUME Inv, NEW p \in Pages, NEW s \in Slots, SaveSucceeds(p, s)
  PROVE  Inv'
<1>1. /\ s \in UnderWay(p) /\ saves[s].state = "accepted"
      /\ baseline' = [baseline EXCEPT ![p] = saves[s].to]
      /\ saves' = [saves EXCEPT ![s] = Over]
      /\ disturbed' = disturbed
      /\ saved' = saved /\ running' = running /\ pending' = pending
      /\ shown' = shown /\ current' = current
  BY DEF SaveSucceeds, server
<1>2. /\ saves' \in [Slots -> Requests \cup {Unused, Over}]
      /\ \A t \in Slots \ {s} : saves'[t] = saves[t]
      /\ UnderWay(p)' = UnderWay(p) \ {s}
      /\ \A q \in Pages \ {p} : UnderWay(q)' = UnderWay(q) /\ s \notin UnderWay(q)
  BY <1>1, GivenUp DEF Inv
<1>3. saves[s].to \in Definitions
  BY <1>1, InUse DEF Inv, Requests
<1>4. Types'
  BY <1>1, <1>2, <1>3 DEF Inv, Types
<1>5. ServerInv' /\ Last' = Last
  BY <1>1 DEF Inv, ServerInv, Last
<1>6. ASSUME NEW q \in Pages \ disturbed' PROVE PageInv(q)'
  <2>1. q \in Pages \ disturbed /\ PageInv(q)
    BY <1>1, <1>6 DEF Inv
  <2>2. CASE q # p
    <3>1. \A t \in UnderWay(q) : t \in Slots \ {s}
      BY <1>2, <2>1, <2>2, InUse DEF Inv
    <3>2. baseline'[q] = baseline[q]
      BY <1>1, <2>1, <2>2 DEF Inv, Types
    <3>. QED BY <1>2, <1>5, <2>1, <2>2, <3>1, <3>2, LeftAlone
  <2>3. CASE q = p
    <3>1. UnderWay(p)' = {} /\ NormalForm(saves[s].to) = NormalForm(Last)
      BY <1>1, <1>2, <2>1, <2>3 DEF PageInv
    <3>2. baseline'[p] = saves[s].to
      BY <1>1 DEF Inv, Types
    <3>. QED BY <1>5, <2>3, <3>1, <3>2 DEF PageInv
  <2>. QED BY <2>2, <2>3
<1>. QED BY <1>4, <1>5, <1>6 DEF Inv

\* A page that takes a failure for what it is keeps the baseline it had.
LEMMA SaveFailsInv ==
  ASSUME Inv, NEW p \in Pages, NEW s \in Slots, SaveFails(p, s)
  PROVE  Inv'
<1>1. /\ s \in UnderWay(p)
      /\ saves' = [saves EXCEPT ![s] = Over]
      /\ disturbed' = IF saves[s].state = "accepted" THEN disturbed \cup {p} ELSE disturbed
      /\ saved' = saved /\ running' = running /\ pending' = pending
      /\ shown' = shown /\ current' = current /\ baseline' = baseline
  BY DEF SaveFails, server, documents
<1>2. /\ saves' \in [Slots -> Requests \cup {Unused, Over}]
      /\ \A t \in Slots \ {s} : saves'[t] = saves[t]
      /\ UnderWay(p)' = UnderWay(p) \ {s}
      /\ \A q \in Pages \ {p} : UnderWay(q)' = UnderWay(q) /\ s \notin UnderWay(q)
  BY <1>1, GivenUp DEF Inv
<1>3. Types'
  BY <1>1, <1>2 DEF Inv, Types
<1>4. ServerInv' /\ Last' = Last
  BY <1>1 DEF Inv, ServerInv, Last
<1>5. ASSUME NEW q \in Pages \ disturbed' PROVE PageInv(q)'
  <2>1. q \in Pages \ disturbed /\ PageInv(q)
    BY <1>1, <1>5 DEF Inv
  <2>2. CASE q # p
    <3>1. \A t \in UnderWay(q) : t \in Slots \ {s}
      BY <1>2, <2>1, <2>2, InUse DEF Inv
    <3>. QED BY <1>1, <1>2, <1>4, <2>1, <2>2, <3>1, LeftAlone
  <2>3. CASE q = p
    <3>1. saves[s].state # "accepted"
      BY <1>1, <1>5, <2>3
    <3>2. /\ \A t \in UnderWay(p) : t = s
          /\ baseline[p] # NoDefinition
      BY <1>1, <2>1, <2>3 DEF PageInv
    <3>3. UnderWay(p)' = {} /\ NormalForm(baseline[p]) = NormalForm(Last)
      BY <1>2, <2>1, <2>3, <3>1, <3>2 DEF PageInv
    <3>. QED BY <1>1, <1>4, <2>3, <3>2, <3>3 DEF PageInv
  <2>. QED BY <2>2, <2>3
<1>. QED BY <1>3, <1>4, <1>5 DEF Inv

-----------------------------------------------------------------------------
(* The server without the pages.                                           *)

\* The definition accepted last stays what it is, except that one which is not
\* applied yet may be lost; then every page that has loaded is disturbed.
LEMMA ServerStep ==
  ASSUME DocumentsAreClosed, Inv, RestartFinishes \/ ServerDies \/ ServerStarts
  PROVE  Inv'
<1>1. shown' = shown /\ current' = current /\ baseline' = baseline /\ saves' = saves
  BY DEF RestartFinishes, ServerDies, ServerStarts, documents
<1>2. \/ /\ pending # NoDefinition
         /\ running' = pending /\ saved' \in {pending, saved, NoDefinition}
         /\ pending' = NoDefinition
         /\ disturbed' = disturbed
      \/ /\ running' = NoDefinition /\ pending' = NoDefinition /\ saved' = saved
         /\ disturbed' = IF pending = NoDefinition /\ saved = running THEN disturbed
                         ELSE disturbed \cup Loaded
      \/ /\ running = NoDefinition /\ saved \in Definitions
         /\ running' = saved /\ saved' \in {saved, NoDefinition} /\ pending' = pending
         /\ disturbed' = disturbed
  BY DEF RestartFinishes, ServerDies, ServerStarts, Server!Apply, Server!Die, Server!Recover
<1>3. Types'
  BY <1>1, <1>2 DEF Inv, Types, Loaded
<1>4. ServerInv'
  BY <1>2 DEF Inv, Types, ServerInv, DocumentsAreClosed, LeadsToDocuments
<1>5. ASSUME NEW q \in Pages \ disturbed' PROVE PageInv(q)'
  <2>1. q \in Pages \ disturbed /\ PageInv(q)
    BY <1>2, <1>5 DEF Inv
  <2>2. baseline[q] # NoDefinition => Last' = Last
    BY <1>2, <1>5 DEF Inv, Types, ServerInv, Last, Loaded
  <2>3. UnderWay(q)' = UnderWay(q)
    BY <1>1 DEF UnderWay
  <2>. QED BY <1>1, <2>1, <2>2, <2>3, LeftAlone
<1>. QED BY <1>3, <1>4, <1>5 DEF Inv

-----------------------------------------------------------------------------
(* The theorems.                                                           *)

LEMMA InitInv == DocumentsAreClosed /\ Init => Inv
<1>. SUFFICES ASSUME DocumentsAreClosed, Init PROVE Inv
  OBVIOUS
<1>1. Types
  BY DEF Init, Types, Server!Init, DocumentsAreClosed, LeadsToDocuments
<1>2. ServerInv
  BY DEF Init, Server!Init, ServerInv
<1>3. ASSUME NEW p \in Pages PROVE PageInv(p)
  <2>1. baseline[p] = NoDefinition /\ UnderWay(p) = {}
    BY DEF Init, UnderWay
  <2>. QED BY <2>1 DEF PageInv
<1>. QED BY <1>1, <1>2, <1>3 DEF Inv

LEMMA NextInv == DocumentsAreClosed /\ PatchesAreExact /\ Inv /\ [Next]_vars => Inv'
<1>. SUFFICES ASSUME DocumentsAreClosed, PatchesAreExact, Inv, [Next]_vars PROVE Inv'
  OBVIOUS
<1>1. CASE UNCHANGED vars
  <2>1. Types' /\ ServerInv'
    BY <1>1 DEF vars, server, documents, Inv, Types, ServerInv
  <2>2. ASSUME NEW q \in Pages \ disturbed' PROVE PageInv(q)'
    BY <1>1, <2>2, LeftAlone DEF vars, server, documents, Inv, UnderWay, Last
  <2>. QED BY <2>1, <2>2 DEF Inv
<1>. QED BY <1>1, LoadInv, LoadFailsInv, EditInv, PatchAcceptedInv, PatchRefusedInv,
            SaveSucceedsInv, SaveFailsInv, ServerStep DEF Next

\* The baseline of a page that nothing came between is the definition the server
\* accepted last.
THEOREM PageIsCurrent ==
  ASSUME DocumentsAreClosed, PatchesAreExact
  PROVE  Spec => []BaselineIsAccepted
<1>1. ASSUME Inv PROVE BaselineIsAccepted
  <2>. SUFFICES ASSUME NEW p \in Pages \ disturbed, baseline[p] # NoDefinition, running # NoDefinition
                PROVE  NormalForm(Believed(p)) = NormalForm(Accepted)
    BY DEF BaselineIsAccepted
  <2>1. PageInv(p) /\ Accepted = Last
    BY <1>1 DEF Inv, ServerInv, Accepted, Last
  <2>. DEFINE accepted == {s \in UnderWay(p) : saves[s].state = "accepted"}
  <2>2. CASE accepted = {}
    BY <2>1, <2>2 DEF PageInv, Believed
  <2>3. CASE accepted # {}
    <3>1. Believed(p) = saves[CHOOSE s \in accepted : TRUE].to
      BY <2>3 DEF Believed
    <3>2. (CHOOSE s \in accepted : TRUE) \in accepted
      BY <2>3
    <3>. QED BY <2>1, <3>1, <3>2 DEF PageInv
  <2>. QED BY <2>2, <2>3
<1>2. Init => Inv
  BY InitInv
<1>3. Inv /\ [Next]_vars => Inv'
  BY NextInv
<1>. QED BY <1>1, <1>2, <1>3, PTL DEF Spec

\* A save of such a page is refused only during a restart, without a definition
\* in force, when the schema refuses what it saves, or when it shortens a list by
\* several elements.
THEOREM RefusedForAReason ==
  ASSUME DocumentsAreClosed, PatchesAreExact
  PROVE  Spec => SavesWhatItShows
<1>. DEFINE Reasons == \A p \in Pages \ disturbed : \A s \in UnderWay(p) :
                         Refuses(s) => RefusedFor(s) \/ Shortens(saves[s].from, saves[s].to)
<1>1. ASSUME Inv, [Next]_vars PROVE [Reasons]_vars
  <2>. SUFFICES ASSUME Next, NEW p \in Pages \ disturbed, NEW s \in UnderWay(p), Refuses(s),
                       pending = NoDefinition, running # NoDefinition,
                       ~Shortens(saves[s].from, saves[s].to)
                PROVE  ~IsValid(saves[s].to)
    BY <1>1 DEF RefusedFor
  <2>1. s \in Slots /\ saves[s] \in Requests
    BY <1>1, InUse DEF Inv
  <2>2. saves[s].state = "sent" /\ saves'[s].state = "refused"
    BY DEF Refuses
  <2>3. PICK q \in Pages, t \in Slots : PatchRefused(q, t)
    <3>1. saves' # saves
      BY <2>2
    <3>2. ASSUME NEW q \in Pages
          PROVE  ~Load(q) /\ ~LoadFails(q) /\ ~Edit(q)
      BY <3>1 DEF Load, LoadFails, Edit
    <3>3. ASSUME NEW q \in Pages, SaveEdits(q) \/ Rearrange(q)
          PROVE  FALSE
      <4>1. PICK d : Save(q, d)
        BY <3>3 DEF SaveEdits, Rearrange
      <4>2. PICK t \in Slots : saves[t] = Unused /\ \E r : saves' = [saves EXCEPT ![t] = r]
        BY <3>1, <4>1 DEF Save
      <4>3. PICK r : saves' = [saves EXCEPT ![t] = r]
        BY <4>2
      <4>4. t # s
        BY <2>2, <4>2 DEF Unused
      <4>. QED BY <2>1, <2>2, <4>3, <4>4 DEF Inv, Types
    <3>4. ASSUME NEW q \in Pages, NEW t \in Slots,
                 PatchAccepted(q, t) \/ SaveSucceeds(q, t) \/ SaveFails(q, t)
          PROVE  FALSE
      <4>1. CASE PatchAccepted(q, t)
        <5>1. t \in UnderWay(q) /\ Answer(t, "accepted")
          BY <4>1 DEF PatchAccepted
        <5>2. saves'[t].state = "accepted" /\ \A u \in Slots \ {t} : saves'[u] = saves[u]
          BY <1>1, <5>1, Answered DEF Inv
        <5>. QED BY <2>1, <2>2, <5>2
      <4>2. CASE SaveSucceeds(q, t) \/ SaveFails(q, t)
        <5>1. saves' = [saves EXCEPT ![t] = Over]
          BY <4>2 DEF SaveSucceeds, SaveFails
        <5>2. saves'[t].state = "over" /\ \A u \in Slots \ {t} : saves'[u] = saves[u]
          BY <1>1, <3>4, <5>1 DEF Inv, Types, Over
        <5>. QED BY <2>1, <2>2, <5>2
      <4>. QED BY <3>4, <4>1, <4>2
    <3>5. ~RestartFinishes /\ ~ServerDies /\ ~ServerStarts
      BY <3>1 DEF RestartFinishes, ServerDies, ServerStarts
    <3>. QED BY <3>2, <3>3, <3>4, <3>5 DEF Next
  <2>4. t = s
    <3>1. t \in UnderWay(q) /\ Answer(t, "refused")
      BY <2>3 DEF PatchRefused
    <3>2. \A u \in Slots \ {t} : saves'[u] = saves[u]
      BY <1>1, <3>1, Answered DEF Inv
    <3>. QED BY <2>1, <2>2, <3>2
  <2>. DEFINE x == Applied(running, saves[s].patch)
  <2>5. Result(saves[s].patch) = {}
    BY <2>3, <2>4 DEF PatchRefused, PatchAllowed
  <2>6. /\ saves[s].from = baseline[p]
        /\ saves[s].patch = Difference(NormalForm(baseline[p]), NormalForm(saves[s].to))
        /\ NormalForm(baseline[p]) = NormalForm(running)
        /\ baseline[p] \in Definitions /\ running \in Definitions /\ saves[s].to \in Definitions
    <3>1. PageInv(p)
      BY <1>1 DEF Inv
    <3>2. \A u \in UnderWay(p) : saves[u].state # "accepted"
      BY <2>2, <3>1 DEF PageInv
    <3>3. baseline[p] # NoDefinition /\ Last = running
      BY <1>1, <3>1 DEF PageInv, Inv, ServerInv, Last
    <3>4. baseline[p] \in Definitions /\ running \in Definitions /\ saves[s].to \in Definitions
      BY <1>1, <2>1, <3>3 DEF Inv, Types, Requests
    <3>. QED BY <3>1, <3>2, <3>3, <3>4 DEF PageInv
  <2>7. x # Inapplicable /\ (IsValid(x) <=> IsValid(saves[s].to))
    BY <2>6 DEF PatchesAreExact, PatchIsExact
  <2>8. ~IsValid(x)
    BY <2>5, <2>7 DEF Result
  <2>. QED BY <2>7, <2>8
<1>2. Init => Inv
  BY InitInv
<1>3. Inv /\ [Next]_vars => Inv'
  BY NextInv
<1>4. Spec => []Inv
  BY <1>2, <1>3, PTL DEF Spec
<1>5. ASSUME []Inv, [][Next]_vars PROVE [][Reasons]_vars
  BY <1>1, <1>5, PTL
<1>. QED BY <1>4, <1>5, PTL DEF Spec, SavesWhatItShows

\* With pages that save at any time, the server still does only what
\* Reconfiguration promises, and what it puts in force are documents.
THEOREM ServerAsPromised ==
  ASSUME DocumentsAreClosed, PatchesAreExact
  PROVE  Spec => Server!Spec
<1>1. Init => Server!Init
  BY DEF Init
<1>2. ASSUME Inv, [Next]_vars PROVE [Server!Next]_(Server!vars)
  <2>1. CASE UNCHANGED server
    BY <2>1 DEF server, Server!vars
  <2>2. ASSUME NEW p \in Pages, NEW s \in Slots, PatchAccepted(p, s)
        PROVE  Server!Next
    <3>1. /\ s \in UnderWay(p) /\ saves[s].state = "sent" /\ PatchAllowed
          /\ \E d \in Result(saves[s].patch) : Server!Accept(d) \/ Server!Apply(d)
      BY <2>2 DEF PatchAccepted
    <3>2. PICK d \in Result(saves[s].patch) : Server!Accept(d) \/ Server!Apply(d)
      BY <3>1
    <3>3. /\ running # NoDefinition
          /\ \E x : x = Applied(running, saves[s].patch) /\ x # Inapplicable /\ d = WithDefaults(x)
      BY <3>2 DEF Result
    <3>4. d \in Definitions
      BY <1>2, <3>1, <3>3, ResultIsSaved DEF DocumentsAreClosed, LeadsToDocuments
    <3>. QED BY <3>2, <3>4 DEF Server!Next
  <2>3. CASE RestartFinishes
    <3>1. pending \in Definitions
      BY <1>2, <2>3 DEF RestartFinishes, Inv, Types
    <3>. QED BY <2>3, <3>1 DEF RestartFinishes, Server!Next
  <2>4. CASE ServerDies \/ ServerStarts
    BY <2>4 DEF ServerDies, ServerStarts, Server!Next
  <2>5. ASSUME NEW p \in Pages, Load(p) \/ LoadFails(p) \/ Edit(p) \/ SaveEdits(p)
        PROVE  UNCHANGED server
    BY <2>5 DEF Load, LoadFails, Edit, SaveEdits, Change
  <2>6. ASSUME NEW p \in Pages, Rearrange(p) PROVE UNCHANGED server
    BY <2>6 DEF Rearrange, Change
  <2>7. ASSUME NEW p \in Pages, NEW s \in Slots,
               PatchRefused(p, s) \/ SaveSucceeds(p, s) \/ SaveFails(p, s)
        PROVE  UNCHANGED server
    BY <2>7 DEF PatchRefused, SaveSucceeds, SaveFails
  <2>8. CASE UNCHANGED vars
    BY <2>8, <2>1 DEF vars
  <2>. QED BY <1>2, <2>1, <2>2, <2>3, <2>4, <2>5, <2>6, <2>7, <2>8 DEF Next
<1>3. Init => Inv
  BY InitInv
<1>4. Inv /\ [Next]_vars => Inv'
  BY NextInv
<1>. QED BY <1>1, <1>2, <1>3, <1>4, PTL DEF Spec, Server!Spec
=============================================================================
