---------------------------- MODULE ConfigPatch ----------------------------
(***************************************************************************)
(* The bridge definition as the JSON document that the configuration page  *)
(* edits and mqttbridge patches: the page's normal form of a document, the *)
(* patch it computes from two of them, what applying a patch does, and the *)
(* edits the page offers.                                                  *)
(***************************************************************************)
EXTENDS Naturals, Sequences, SequencesExt

CONSTANT NewNames   \* names a user may type

\* A JSON value.
Leaf(v) == [leaf |-> v]
Array(s) == [items |-> s]
Object(f) == [fields |-> f]
IsArray(j) == DOMAIN j = {"items"}
IsObject(j) == DOMAIN j = {"fields"}
IsLeaf(j) == DOMAIN j = {"leaf"}

\* What replaces a document when a patch does not apply.
Refused == [refused |-> TRUE]

Put(f, k, v) == [x \in DOMAIN f \cup {k} |-> IF x = k THEN v ELSE f[x]]
Without(f, k) == [x \in DOMAIN f \ {k} |-> f[x]]

-----------------------------------------------------------------------------
(* The page's diff of two values.  A path is a sequence of member names    *)
(* and of positions from 1, which stand for the page's indices from 0.     *)

Op(op, path, value) == [op |-> op, path |-> path, value |-> value]

\* A member that the old value does not have is added, not replaced.
NewMember(path, value) == Op("add", path, value)

RECURSIVE DiffValue(_, _, _)

\* One position or member; old and new are <<>> or <<value>>.  Surplus positions
\* are removed in ascending order.
DiffAt_Mutant1(old, new, path) ==
  CASE new = <<>> -> <<Op("remove", path, Refused)>>
    [] old = new -> <<>>
    [] OTHER -> <<Op("add", path, new[1])>>
DiffAt(old, new, path) ==
  IF new = <<>> THEN <<Op("remove", path, Refused)>>
  ELSE IF old = <<>> THEN <<NewMember(path, new[1])>>
  ELSE IF old = new THEN <<>>
  ELSE IF IsLeaf(old[1]) \/ IsLeaf(new[1]) THEN <<Op("replace", path, new[1])>>
  ELSE DiffValue(old[1], new[1], path)

ItemAt(s, k) == IF k <= Len(s) THEN <<s[k]>> ELSE <<>>
FieldAt(f, k) == IF k \in DOMAIN f THEN <<f[k]>> ELSE <<>>

DiffValue(old, new, path) ==
  IF IsArray(old) /\ IsArray(new)
  THEN LET o == old.items  n == new.items
           longest == IF Len(o) > Len(n) THEN Len(o) ELSE Len(n)
       IN FlattenSeq([k \in 1 .. longest |->
            DiffAt(ItemAt(o, k), ItemAt(n, k), Append(path, k))])
  ELSE LET keys == SetToSeq(DOMAIN old.fields \cup DOMAIN new.fields)
       IN FlattenSeq([k \in 1 .. Len(keys) |->
            DiffAt(FieldAt(old.fields, keys[k]), FieldAt(new.fields, keys[k]),
                   Append(path, keys[k]))])

Diff(old, new) == DiffValue(old, new, <<>>)

-----------------------------------------------------------------------------
(* Applying a patch, as nlohmann::json::patch does: all of it or nothing.  *)

ApplyHere(j, op, k, value) ==
  IF IsArray(j)
  THEN CASE op = "add" /\ k <= Len(j.items) + 1 -> Array(InsertAt(j.items, k, value))
         [] op = "remove" /\ k <= Len(j.items) -> Array(RemoveAt(j.items, k))
         [] op = "replace" /\ k <= Len(j.items) -> Array([j.items EXCEPT ![k] = value])
         [] OTHER -> Refused
  ELSE CASE op = "add" -> Object(Put(j.fields, k, value))
         [] op = "remove" /\ k \in DOMAIN j.fields -> Object(Without(j.fields, k))
         [] op = "replace" /\ k \in DOMAIN j.fields -> Object(Put(j.fields, k, value))
         [] OTHER -> Refused

RECURSIVE ApplyAt(_, _, _, _)
ApplyAt(j, op, path, value) ==
  LET k == Head(path)
      within == IF IsArray(j) THEN ItemAt(j.items, k) ELSE FieldAt(j.fields, k)
      inner == ApplyAt(within[1], op, Tail(path), value)
  IN IF IsLeaf(j) THEN Refused
     ELSE IF Len(path) = 1 THEN ApplyHere(j, op, k, value)
     ELSE IF within = <<>> \/ inner = Refused THEN Refused
     ELSE IF IsArray(j) THEN Array([j.items EXCEPT ![k] = inner])
     ELSE Object(Put(j.fields, k, inner))

Patched(j, patch) ==
  FoldLeft(LAMBDA acc, o : IF acc = Refused THEN Refused
                           ELSE ApplyAt(acc, o.op, o.path, o.value), j, patch)

-----------------------------------------------------------------------------
(* The documents.  Of the members of a bridge and of a broker there is one  *)
(* of each kind: a text, a switch that may be absent, a list.              *)

Broker(instance, topics) ==
  Object([instance |-> Leaf(instance), topics |-> Array(topics)])
Bridge(name, brokers) ==
  Object([name |-> Leaf(name), brokers |-> Array(brokers)])
Document(bridges) == Object([bridges |-> Array(bridges)])

BridgeFields ==
  LET names == [leaf : STRING]
      brokers == [items : Seq([fields : [instance : names, topics : [items : Seq(names)]]])]
  IN [name : names, brokers : brokers]
     \cup [name : names, brokers : brokers, disabled : [leaf : {"true", "false"}]]
Documents == [fields : [bridges : [items : Seq([fields : BridgeFields])]]]
NoDocument == Leaf("null")

Bridges(d) == d.fields.bridges.items
Brokers(b) == b.fields.brokers.items
Topics(k) == k.fields.topics.items
IsDisabled(b) == "disabled" \in DOMAIN b.fields /\ b.fields.disabled = Leaf("true")

\* The page leaves out what is false; the schema's defaults put it back.
NormalBridge(b) ==
  IF IsDisabled(b) THEN b ELSE Object(Without(b.fields, "disabled"))
Normal(d) == Document([i \in DOMAIN Bridges(d) |-> NormalBridge(Bridges(d)[i])])

CompletedBridge(b) ==
  IF "disabled" \in DOMAIN b.fields THEN b
  ELSE Object(Put(b.fields, "disabled", Leaf("false")))
Completed(d) == Document([i \in DOMAIN Bridges(d) |-> CompletedBridge(Bridges(d)[i])])

\* The schema: at least one bridge, and one broker in each.
Valid(d) ==
  /\ Bridges(d) # <<>>
  /\ \A i \in DOMAIN Bridges(d) : Brokers(Bridges(d)[i]) # <<>>

\* A list of the document that the edit shortens by more than one element.
Shortened(old, new) ==
  LET common(s, t) == {i \in DOMAIN s : i \in DOMAIN t}
      more(s, t) == Len(s) > Len(t) + 1
      a == Bridges(old)  b == Bridges(new)
  IN \/ more(a, b)
     \/ \E i \in common(a, b) :
          LET k == Brokers(a[i])  m == Brokers(b[i])
          IN more(k, m) \/ \E j \in common(k, m) : more(Topics(k[j]), Topics(m[j]))

-----------------------------------------------------------------------------
(* The edits of the page.                                                  *)

NewBroker == Broker("", <<Leaf("#")>>)
NewBridge == Bridge("", <<NewBroker, NewBroker>>)
NewDocument == Document(<<NewBridge>>)

WithBrokers(b, brokers) == Object(Put(b.fields, "brokers", Array(brokers)))
WithName(b, v) == Object(Put(b.fields, "name", Leaf(v)))
WithDisabled(b, v) == Object(Put(b.fields, "disabled", Leaf(v)))
CopyName(name) == IF name = "" THEN "copy" ELSE name \o "-copy"

\* Of the controls inside a bridge, its name, its switch, and the brokers, of which
\* one is deleted only where more than two are left.
EditedBridge(b) ==
  LET ks == Brokers(b)
  IN {WithDisabled(b, IF IsDisabled(b) THEN "false" ELSE "true")}
     \cup {WithName(b, v) : v \in NewNames}
     \cup {WithBrokers(b, Append(ks, NewBroker))}
     \cup {WithBrokers(b, RemoveAt(ks, j)) : j \in {x \in DOMAIN ks : Len(ks) > 2}}

\* Staged at once, saved when the control reports it.
Edited(d) ==
  UNION {{Document([Bridges(d) EXCEPT ![i] = b]) : b \in EditedBridge(Bridges(d)[i])} :
           i \in DOMAIN Bridges(d)}

\* Saved at once: add, delete, duplicate a bridge.
Duplicate(b) == WithName(b, CopyName(b.fields.name.leaf))
Rearranged(d) ==
  {Document(Append(Bridges(d), NewBridge))}
  \cup {Document(RemoveAt(Bridges(d), i)) : i \in DOMAIN Bridges(d)}
  \cup {Document(Append(Bridges(d), Duplicate(Bridges(d)[i]))) : i \in DOMAIN Bridges(d)}
=============================================================================
