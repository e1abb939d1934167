----------------------------- MODULE MessageStore -----------------------------
(***************************************************************************)
(* mqttstore: the sessions with the broker, and the statements that their  *)
(* MariaDbStorage hands to its database client.  The client is external:   *)
(* it executes the statements of one storage in their order, each of them  *)
(* may fail, and it finishes what is queued when its storage is destroyed  *)
(* (a statement it drops counts as failed).                                *)
(***************************************************************************)
EXTENDS StoragePlan, FiniteSets, SequencesExt

CONSTANTS
  Connections,         \* connections, of one instance or of several
  Files,               \* contents of the projection file: sequences of projections
  Malformed,           \* a content that does not parse or does not validate
  Messages,            \* messages the broker delivers
  AutoCreateRawTable,
  MaxReceived          \* bound: messages received

\* A file is a list of projections; the levels of topics are not "#".
ASSUME FilesAssumption ==
  \A file \in Files : /\ file \in Seq(ToSet(file))
                      /\ \A p \in ToSet(file) : p.topic \in Seq(STRING)

ASSUME MessagesAssumption ==
  \A message \in Messages : message.topic \in Seq(STRING \ {"#"})

ASSUME BoundsAssumption == MaxReceived \in Nat

VARIABLES
  running,      \* the process runs
  session,      \* "closed", "connecting", "subscribed" or "leaving"
  storagePlan,  \* the plan of a connection's storage, <<>> when it is closed
  statements,   \* what its database client has to execute
  rawTable,     \* the raw table exists
  received,     \* per message: its connection, message and the plan in use
  rows,         \* rows inserted, in their order
  failed        \* statements that failed, or were lost with the process

vars == <<running, session, storagePlan, statements, rawTable,
          received, rows, failed>>

Create == [table |-> "create"]
\* An insert: n is the position of its message in received, and l that of its
\* projection in the file.
Raw(n) == [table |-> "raw", n |-> n]
Projected(l, p, n, values) == [table |-> p.table, n |-> n, place |-> l, values |-> values]

Queued == UNION {{statements[k][j] : j \in DOMAIN statements[k]} : k \in Connections}

-----------------------------------------------------------------------------
(* The process.                                                            *)

Start ==
  /\ ~ running
  /\ running' = TRUE
  /\ UNCHANGED <<session, storagePlan, statements, rawTable, received, rows, failed>>

\* The end of the process takes its connections and their statements with it.
Exit ==
  /\ running' = FALSE
  /\ session' = [k \in Connections |-> "closed"]
  /\ statements' = [k \in Connections |-> <<>>]
  /\ failed' = failed \cup Queued
  /\ storagePlan' = [k \in Connections |-> <<>>]
  /\ UNCHANGED <<rawTable, received, rows>>

Crash == running /\ Exit

-----------------------------------------------------------------------------
(* SocketContextFactory and Mqtt.                                          *)

\* StoragePlan::fromFile throws.
Throws(file) == file = Malformed

\* The constructor of MariaDbStorage creates the raw table.
Constructed == IF AutoCreateRawTable THEN <<Create>> ELSE <<>>

\* A connection is made: the projection file is read, whatever it contains by
\* now, and its exception ends the process; onConnected sends CONNECT.
SocketContextFactoryCreate(k, file) ==
  /\ running
  /\ session[k] = "closed" /\ statements[k] = <<>>
  /\ \/ Throws(file) /\ Exit
     \/ /\ ~ Throws(file)
        /\ session' = [session EXCEPT ![k] = "connecting"]
        /\ storagePlan' = [storagePlan EXCEPT ![k] = file]
        /\ statements' = [statements EXCEPT ![k] = Constructed]
        /\ UNCHANGED <<running, rawTable, received, rows, failed>>

\* DISCONNECT if the broker refuses, there are no topics, or one of them has a
\* malformed QoS.
OnConnack(k, subscribes) ==
  /\ session[k] = "connecting"
  /\ session' = [session EXCEPT ![k] = IF subscribes THEN "subscribed" ELSE "leaving"]
  /\ UNCHANGED <<running, storagePlan, statements, rawTable, received, rows, failed>>

\* storeProjections: an insert for each projection that matches, without those
\* that cannot be built.
ProjectedAt(k, n, message, places) ==
  LET order == InOrder(places)
      p(j) == storagePlan[k][order[j]]
  IN [j \in DOMAIN order |-> Projected(order[j], p(j), n, BuildProjectionInsert(p(j), message))]

StoreProjections_Mutant1(k, n, message) ==
  LET matching == IF message.json THEN Match(storagePlan[k], message.topic) ELSE {}
      built(l) == BuildProjectionInsert(storagePlan[k][l], message) # Skipped
  IN ProjectedAt(k, n, message, {l \in matching : \A m \in matching : m <= l => built(m)})
StoreProjections(k, n, message) ==
  LET matching == IF message.json THEN Match(storagePlan[k], message.topic) ELSE {}
      built(l) == BuildProjectionInsert(storagePlan[k][l], message) # Skipped
  IN ProjectedAt(k, n, message, {l \in matching : built(l)})

\* store: the raw insert, then those of the projections.
Store_Mutant1(k, n, message) == StoreProjections(k, n, message) \o <<Raw(n)>>
Store(k, n, message) == <<Raw(n)>> \o StoreProjections(k, n, message)

\* Whatever the state of the session.
OnPublish(k, message) ==
  /\ session[k] # "closed"
  /\ Len(received) < MaxReceived
  /\ received' = Append(received, [connection |-> k, message |-> message, plan |-> storagePlan[k]])
  /\ statements' = [statements EXCEPT ![k] = @ \o Store(k, Len(received) + 1, message)]
  /\ UNCHANGED <<running, session, storagePlan, rawTable, rows, failed>>

\* The connection ends, for whatever reason, onSignal included.
OnDisconnected(k) ==
  /\ session[k] # "closed"
  /\ session' = [session EXCEPT ![k] = "closed"]
  /\ storagePlan' = [storagePlan EXCEPT ![k] = <<>>]
  /\ UNCHANGED <<running, statements, rawTable, received, rows, failed>>

-----------------------------------------------------------------------------
(* The database client.                                                    *)

Executed(k) ==
  /\ statements[k] # <<>>
  /\ statements' = [statements EXCEPT ![k] = Tail(@)]
  /\ LET statement == Head(statements[k])
     IN IF statement = Create
        THEN rawTable' = TRUE /\ UNCHANGED rows
        ELSE /\ statement.table = "raw" => rawTable
             /\ rows' = Append(rows, statement)
             /\ UNCHANGED rawTable
  /\ UNCHANGED <<running, session, storagePlan, received, failed>>

Failed(k) ==
  /\ statements[k] # <<>>
  /\ statements' = [statements EXCEPT ![k] = Tail(@)]
  /\ failed' = failed \cup {Head(statements[k])}
  /\ UNCHANGED <<running, session, storagePlan, rawTable, received, rows>>

-----------------------------------------------------------------------------
Init ==
  /\ running = FALSE
  /\ session = [k \in Connections |-> "closed"]
  /\ storagePlan = [k \in Connections |-> <<>>]
  /\ statements = [k \in Connections |-> <<>>]
  /\ rawTable \in BOOLEAN
  /\ received = <<>>
  /\ rows = <<>>
  /\ failed = {}

Next ==
  \/ Start \/ Crash
  \/ \E k \in Connections :
       \/ \E file \in Files \cup {Malformed} : SocketContextFactoryCreate(k, file)
       \/ \E subscribes \in BOOLEAN : OnConnack(k, subscribes)
       \/ \E message \in Messages : OnPublish(k, message)
       \/ OnDisconnected(k)
       \/ Executed(k)
       \/ Failed(k)

Spec == Init /\ [][Next]_vars

-----------------------------------------------------------------------------
(* Properties.                                                             *)

Plans == Files \cup {<<>>}

Statements ==
  {Create} \cup {Raw(n) : n \in 1 .. MaxReceived} \cup
  UNION {{Projected(l, plan[l], n, BuildProjectionInsert(plan[l], message)) :
            l \in DOMAIN plan, n \in 1 .. MaxReceived, message \in Messages} : plan \in Plans}

TypeOK ==
  /\ running \in BOOLEAN
  /\ session \in [Connections -> {"closed", "connecting", "subscribed", "leaving"}]
  /\ storagePlan \in [Connections -> Plans]
  /\ statements \in [Connections -> Seq(Statements)]
  /\ rawTable \in BOOLEAN
  /\ received \in Seq([connection : Connections, message : Messages, plan : Plans])
  /\ Len(received) <= MaxReceived
  /\ rows \in Seq(Statements \ {Create})
  /\ failed \subseteq Statements
  /\ ~ running => \A k \in Connections : session[k] = "closed" /\ statements[k] = <<>>

Waiting(s) ==
  Cardinality(UNION {{k} \X {j \in DOMAIN statements[k] : statements[k][j] = s} : k \in Connections})

\* The inserts a received message calls for, by the documented rules, but for
\* two of them: the file is read for each connection, where README.md:2181 and
\* the user guide say at startup, and topics that begin with "$" are not hidden.
Inserts(n, r) ==
  LET columns(l) == r.plan[l].columns
      kept(l) == {c \in DOMAIN columns(l) : HasValue(columns(l)[c], r.message) \/ columns(l)[c].required}
      projected(l) ==
        Projected(l, r.plan[l], n,
                  [c \in kept(l) |-> IF HasValue(columns(l)[c], r.message) THEN "value" ELSE "NULL"])
  IN {Raw(n)} \cup
     {projected(l) : l \in {m \in DOMAIN r.plan :
                              /\ r.message.json
                              /\ MatchesByLevel(r.plan[m].topic, r.message.topic)
                              /\ \A c \in DOMAIN columns(m) : ~ Refused(columns(m)[c])
                              /\ kept(m) # {}}}

CalledFor(n) == Inserts(n, received[n])

\* What every message calls for is a row, waits, or failed, and it is only one
\* of them: no insert is dropped because another one cannot be built or fails,
\* and none is done twice.  Nothing else is inserted: a projection table has
\* rows of JSON messages that its filter matches, with the columns that have a
\* value or are required.  That is by the file as it was when the connection was
\* made, which the documentation does not say: rows of one process may be by
\* several files, and a file that is edited takes effect with no restart.  And
\* a filter that begins with a wildcard takes topics that begin with "$" too.
StoredAsPlanned ==
  /\ \A n \in DOMAIN received : \A s \in CalledFor(n) :
       Cardinality({j \in DOMAIN rows : rows[j] = s}) + Waiting(s)
         + (IF s \in failed THEN 1 ELSE 0) = 1
  /\ \A j \in DOMAIN rows : rows[j] \in CalledFor(rows[j].n)

\* The rows of one connection are in the order of its messages, and the raw row
\* of a message is there before the rows of its projections, or has failed.
RowsInOrder ==
  \A j \in DOMAIN rows :
    /\ \A i \in 1 .. j - 1 :
         received[rows[i].n].connection = received[rows[j].n].connection
           => rows[i].n <= rows[j].n
    /\ rows[j].table # "raw" =>
         \/ Raw(rows[j].n) \in failed
         \/ \E i \in 1 .. j - 1 : rows[i] = Raw(rows[j].n)
=============================================================================
