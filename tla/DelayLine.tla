------------------------------ MODULE DelayLine ------------------------------
(***************************************************************************)
(* What a queue of delayed publishes promises: each one leaves when it is  *)
(* due and not before, in the order of the due times, those with the same  *)
(* due time in the order in which they came, and none after the end of the *)
(* session.                                                                *)
(***************************************************************************)
EXTENDS Naturals, Sequences

CONSTANT DueTimes   \* the times on the clock

VARIABLES
  now,       \* the clock
  waiting,   \* the publishes not yet sent: due time and number
  count,     \* how many were scheduled
  sent,      \* the publishes sent, in order
  ended      \* the session is over

vars == <<now, waiting, count, sent, ended>>

Before(a, b) == a.when < b.when \/ (a.when = b.when /\ a.seq < b.seq)

Tick ==
  /\ now' = now + 1
  /\ UNCHANGED <<waiting, count, sent, ended>>

Schedule(when) ==
  /\ ~ended
  /\ when >= now
  /\ waiting' = waiting \cup {[when |-> when, seq |-> count]}
  /\ count' = count + 1
  /\ UNCHANGED <<now, sent, ended>>

Send(e) ==
  /\ ~ended
  /\ e.when <= now
  /\ \A other \in waiting \ {e} : Before(e, other)
  /\ waiting' = waiting \ {e}
  /\ sent' = Append(sent, e)
  /\ UNCHANGED <<now, count, ended>>

End ==
  /\ ended' = TRUE
  /\ waiting' = {}
  /\ UNCHANGED <<now, count, sent>>

Init ==
  /\ now = 0
  /\ waiting = {}
  /\ count = 0
  /\ sent = <<>>
  /\ ended = FALSE

Next ==
  \/ Tick
  \/ \E when \in DueTimes : Schedule(when)
  \/ \E e \in waiting : Send(e)
  \/ End

Spec == Init /\ [][Next]_vars
=============================================================================
