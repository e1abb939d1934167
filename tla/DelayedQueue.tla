---------------------------- MODULE DelayedQueue ----------------------------
(***************************************************************************)
(* The DelayedQueue of an MQTT session: a heap of publishes with their due *)
(* times and one single-shot timer for the earliest of them.  mqttbroker   *)
(* and mqttintegrator have the same class but for processDue: in the       *)
(* broker a due publish is mapped again (Mqtt::onPublish), which may       *)
(* schedule further publishes from within the loop over the due ones.      *)
(***************************************************************************)
EXTENDS Naturals, Sequences

CONSTANTS
  Delays,      \* the delays of mapped messages
  Remapping,   \* TRUE: mqttbroker, FALSE: mqttintegrator
  Early,       \* how much too early a timer may fire
  MaxTime,     \* bound: the clock
  MaxCount     \* bound: publishes scheduled

ASSUME QueueAssumption ==
  /\ Delays \subseteq Nat
  /\ Remapping \in BOOLEAN
  /\ Early \in Nat
  /\ MaxTime \in Nat
  /\ MaxCount \in Nat

Idle == MaxTime + 1   \* no callback of the timer is running
None == MaxTime + 1   \* the timer is not set

VARIABLES
  now,       \* utils::Timeval::currentTime()
  minHeap,   \* the scheduled publishes
  nextSeq,
  timer,     \* when delayTimer expires
  loop,      \* the time processDue read when it started
  popped,    \* the loop has taken a publish from the heap
  sent,      \* history: the publishes sent, in order
  ended      \* the session's Mqtt object is gone

queueVars == <<now, minHeap, nextSeq, timer, loop, popped, sent, ended>>

\* EarlierFirst
EarlierFirst_Mutant1(a, b) == a.when <= b.when
EarlierFirst(a, b) ==
  \/ a.when < b.when
  \/ a.when = b.when /\ a.seq < b.seq

IsTop(e, heap) == \A other \in heap \ {e} : EarlierFirst(e, other)

\* armDelayTimer, with the heap given: a negative delay becomes zero.
ArmDelayTimer(heap) ==
  \E top \in heap :
    /\ IsTop(top, heap)
    /\ timer' = IF top.when < now THEN now ELSE top.when

Rearm(heap) == ArmDelayTimer(heap)

\* delayPublish, called by onPublish: for a message from the network, or in
\* the broker for a publish that processDue has just sent.
DelayPublish(delay) ==
  /\ ~ended
  /\ nextSeq < MaxCount /\ now + delay <= MaxTime
  /\ loop = Idle \/ (Remapping /\ popped)
  /\ minHeap' = minHeap \cup {[when |-> now + delay, seq |-> nextSeq]}
  /\ nextSeq' = nextSeq + 1
  /\ Rearm(minHeap')
  /\ UNCHANGED <<now, loop, popped, sent, ended>>

\* The callback of the timer: processDue reads the clock once, ...
TimerFires ==
  /\ loop = Idle
  /\ timer # None
  /\ timer <= now + Early
  /\ timer' = None
  /\ loop' = now
  /\ popped' = FALSE
  /\ UNCHANGED <<now, minHeap, nextSeq, sent, ended>>

\* ... sends the publishes that are due at that time, earliest first, ...
IsDue(e) == e.when <= loop

PopDue ==
  /\ loop # Idle
  /\ \E top \in minHeap :
       /\ IsTop(top, minHeap)
       /\ IsDue(top)
       /\ minHeap' = minHeap \ {top}
       /\ sent' = Append(sent, [when |-> top.when, seq |-> top.seq, at |-> now])
  /\ popped' = TRUE
  /\ UNCHANGED <<now, nextSeq, timer, loop, ended>>

\* ... and the timer is armed again unless the heap is empty.
KeepArmed_Mutant1 == UNCHANGED timer
KeepArmed ==
  IF minHeap = {} THEN UNCHANGED timer ELSE ArmDelayTimer(minHeap)

LoopEnds ==
  /\ loop # Idle
  /\ \A e \in minHeap : ~IsDue(e)
  /\ KeepArmed
  /\ loop' = Idle
  /\ popped' = FALSE
  /\ UNCHANGED <<now, minHeap, nextSeq, sent, ended>>

\* The connection is gone: ~Mqtt with ~DelayedQueue.
CancelTimer_Mutant1 == UNCHANGED timer
CancelTimer == timer' = None

SessionEnds ==
  /\ loop = Idle
  /\ ~ended
  /\ ended' = TRUE
  /\ minHeap' = {}
  /\ CancelTimer
  /\ UNCHANGED <<now, nextSeq, loop, popped, sent>>

Tick ==
  /\ now < MaxTime
  /\ now' = now + 1
  /\ UNCHANGED <<minHeap, nextSeq, timer, loop, popped, sent, ended>>

QueueInit ==
  /\ now = 0
  /\ minHeap = {}
  /\ nextSeq = 0
  /\ timer = None
  /\ loop = Idle
  /\ popped = FALSE
  /\ sent = <<>>
  /\ ended = FALSE

QueueNext ==
  \/ \E delay \in Delays : DelayPublish(delay)
  \/ TimerFires
  \/ PopDue
  \/ LoopEnds
  \/ SessionEnds
  \/ Tick

QueueSpec == QueueInit /\ [][QueueNext]_queueVars

\* Time passes, an expired timer is served, and a callback runs to its end.
QueueFairSpec == QueueSpec /\ WF_queueVars(Tick) /\ WF_queueVars(TimerFires) /\ WF_queueVars(PopDue) /\ WF_queueVars(LoopEnds)

-----------------------------------------------------------------------------
(* Properties.                                                             *)

Scheduled == [when : 0 .. MaxTime, seq : 0 .. MaxCount]

QueueTypeOK ==
  /\ now \in 0 .. MaxTime
  /\ minHeap \in SUBSET Scheduled
  /\ nextSeq \in 0 .. MaxCount
  /\ timer \in 0 .. None
  /\ loop \in 0 .. Idle
  /\ popped \in BOOLEAN
  /\ sent \in Seq([when : 0 .. MaxTime, seq : 0 .. MaxCount, at : 0 .. MaxTime])
  /\ ended \in BOOLEAN

\* No publish is sent before its delay has passed, even when the timer fires
\* too early or the loop runs while time passes.
NeverEarly == \A i \in DOMAIN sent : sent[i].when <= sent[i].at

\* Publishes are sent in the order of their due times, and those with the same
\* due time in the order of their arrival, over all callbacks of the timer.
SentInOrder ==
  \A i, j \in DOMAIN sent :
    i < j => \/ sent[i].when < sent[j].when
             \/ sent[i].when = sent[j].when /\ sent[i].seq < sent[j].seq

\* While publishes wait, the timer is set: for the earliest of them, or for a
\* time already reached.  It is never left running past the end of the session,
\* whose objects its callback would use.
TimerGuards ==
  /\ (minHeap # {} /\ loop = Idle) =>
       /\ timer # None
       /\ timer <= now \/ \E e \in minHeap : IsTop(e, minHeap) /\ timer = e.when
  /\ ended => timer = None

\* Every scheduled publish is sent, unless the session ends before.
EventuallySent ==
  \A n \in 0 .. MaxCount - 1 :
    (\E e \in minHeap : e.seq = n) ~> (ended \/ \E i \in DOMAIN sent : sent[i].seq = n)

\* The queue implements the delay line.
Line == INSTANCE DelayLine WITH
  DueTimes <- 0 .. MaxTime,
  waiting <- minHeap,
  count <- nextSeq,
  sent <- [i \in DOMAIN sent |-> [when |-> sent[i].when, seq |-> sent[i].seq]]

IsDelayLine == Line!Spec
=============================================================================
