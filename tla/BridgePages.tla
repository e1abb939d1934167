---------------------------- MODULE BridgePages ----------------------------
(***************************************************************************)
(* Configuration pages whose documents, edits and patches are those of     *)
(* ConfigPatch: the constants of ConfigPage are given in MCBridgePages.    *)
(***************************************************************************)
EXTENDS ConfigPage, Sequences

CONSTANT NewNames

ASSUME BoundAssumption == MaxEdits \in Nat /\ MaxSaves \in Nat

Json == INSTANCE ConfigPatch

Bridges(d) == Json!Bridges(d)

\* Members of the bridge at position i that a change from one document to
\* another leaves alone.
Untouched(from, to, i) ==
  LET a == Json!ItemAt(Bridges(NormalForm(from)), i)
      b == Json!ItemAt(Bridges(NormalForm(to)), i)
      members == {"name", "brokers", "disabled"}
  IN IF a = <<>> \/ b = <<>> THEN (IF a = b THEN members ELSE {})
     ELSE {k \in members : Json!FieldAt(a[1].fields, k) = Json!FieldAt(b[1].fields, k)}

\* However old the baseline of a page is, a save that is accepted and that keeps
\* the number of bridges undoes nothing that other pages did to the members it
\* does not change: pages that edit different bridges, or different members of a
\* bridge, do not overwrite each other.
ForeignChangesKept ==
  [][\A s \in Slots :
       (saves[s].state = "sent" /\ saves'[s].state = "accepted"
          /\ Len(Bridges(saves[s].from)) = Len(Bridges(saves[s].to)))
         => /\ Len(Bridges(Accepted')) = Len(Bridges(running))
            /\ \A i \in DOMAIN Bridges(running) :
                 Untouched(saves[s].from, saves[s].to, i)
                   \subseteq Untouched(running, Accepted', i)]_vars
=============================================================================
