--------------------------- MODULE Reconfiguration ---------------------------
(***************************************************************************)
(* What mqttbridge promises about replacing its bridge definition: one     *)
(* definition is in force at a time, sessions are held only with brokers   *)
(* it serves, an accepted definition is not displaced by another before it *)
(* is applied, and it is applied only when no session is left.  What it    *)
(* comes back with after a crash is the last definition that could be      *)
(* saved, if any: that one is not saved is not noticed.                    *)
(***************************************************************************)
CONSTANTS
  Definitions,   \* definitions that may be in force
  None,          \* no definition: not in Definitions
  Served(_)      \* the brokers a definition serves

VARIABLES
  saved,      \* the definition that survives a crash
  running,    \* the definition in force
  pending,    \* an accepted definition, not yet in force
  sessions    \* brokers with which a session is held

vars == <<saved, running, pending, sessions>>

Accept(d) ==
  /\ pending = None
  /\ pending' = d
  /\ UNCHANGED <<saved, running, sessions>>

Apply(d) ==
  /\ pending \in {None, d}
  /\ sessions = {}
  /\ running' = d
  /\ saved' \in {d, saved, None}
  /\ pending' = None
  /\ UNCHANGED sessions

Open(k) ==
  /\ k \in Served(running)
  /\ sessions' = sessions \cup {k}
  /\ UNCHANGED <<saved, running, pending>>

Close(k) ==
  /\ sessions' = sessions \ {k}
  /\ UNCHANGED <<saved, running, pending>>

Die ==
  /\ running' = None
  /\ pending' = None
  /\ sessions' = {}
  /\ saved' \in {saved, None}

Recover ==
  /\ running = None
  /\ saved \in Definitions
  /\ running' = saved
  /\ saved' \in {saved, None}
  /\ UNCHANGED <<pending, sessions>>

Init ==
  /\ running = None
  /\ pending = None
  /\ sessions = {}

Next ==
  \/ \E d \in Definitions : Accept(d) \/ Apply(d)
  \/ \E k \in Served(running) : Open(k)
  \/ \E k \in sessions : Close(k)
  \/ Die
  \/ Recover

Spec == Init /\ [][Next]_vars
=============================================================================
