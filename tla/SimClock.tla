------------------------------ MODULE SimClock ------------------------------
(***************************************************************************)
(* The simulated clock (pkg/clock/clock.go, type Sim): a discrete-event    *)
(* scheduler.  The binary heap is the set of its events with the order     *)
(* Less, whose least event container/heap keeps at the root.               *)
(*                                                                         *)
(* AfterFunc and a cancel function may be called at any time: by the code  *)
(* outside, and by a callback, which Advance runs with the lock released.  *)
(***************************************************************************)
EXTENDS Integers, Sequences, FiniteSets

CONSTANTS
  Delays,      \* the delays AfterFunc is called with; a negative one counts as 0
  Horizons,    \* the horizons Run is called with
  MaxEvents    \* bound: calls of AfterFunc

ASSUME DelayAssumption   == Delays \subseteq Int
ASSUME HorizonAssumption == Horizons \subseteq Nat
ASSUME BoundAssumption   == MaxEvents \in Nat

Event == [at : Nat, seq : 1 .. MaxEvents]
NoRun == -1                \* no call of Run is in progress

VARIABLES
  now,       \* Sim.now
  events,    \* Sim.events: what is in the heap
  seq,       \* Sim.seq
  canceled,  \* the seqs of the events whose flag is set
  fired,     \* history: the events whose callbacks ran, in order
  deadline   \* the deadline of the Run in progress, or NoRun

vars == <<now, events, seq, canceled, fired, deadline>>

-----------------------------------------------------------------------------
\* eventHeap.Less
LessByTime(e, f) == e.at < f.at         \* mutant: ties are broken at random
Less(e, f) == e.at < f.at \/ (e.at = f.at /\ e.seq < f.seq)

\* Can be popped next: nothing in the set is before it.
First(e, S) == e \in S /\ \A f \in S : ~Less(f, e)

\* What heap.Pop goes through on the way to e: canceled events, skipped.
Skipped(e) == {f \in events : Less(f, e)}
SkipsNone(e) == TRUE                    \* mutant: a canceled event fires
SkipsCanceled(e) == e.seq \notin canceled

Live == {e \in events : e.seq \notin canceled}

-----------------------------------------------------------------------------
Init ==
  /\ now = 0 /\ events = {} /\ seq = 0 /\ canceled = {}
  /\ fired = <<>> /\ deadline = NoRun

\* AfterFunc
AfterFuncUnclamped(d) ==                \* mutant: a negative delay goes back in time
  /\ seq < MaxEvents
  /\ seq' = seq + 1
  /\ events' = events \cup {[at |-> now + d, seq |-> seq']}
  /\ UNCHANGED <<now, canceled, fired, deadline>>
AfterFunc(d) ==
  /\ seq < MaxEvents
  /\ seq' = seq + 1
  /\ events' = events \cup {[at |-> now + (IF d < 0 THEN 0 ELSE d), seq |-> seq']}
  /\ UNCHANGED <<now, canceled, fired, deadline>>

\* The cancel function of an AfterFunc call.  It sets the event's flag and leaves
\* the event in the heap; it may come after the event has fired.
Cancel(s) ==
  /\ s \in 1 .. seq /\ s \notin canceled
  /\ canceled' = canceled \cup {s}
  /\ UNCHANGED <<now, events, seq, fired, deadline>>

\* Advance: pop the first live event with the canceled ones before it, move the
\* clock, call back.
Fire(e) ==
  /\ e \in events /\ SkipsCanceled(e)
  /\ Skipped(e) \subseteq {f \in events : f.seq \in canceled}
  /\ events' = events \ (Skipped(e) \cup {e})
  /\ now' = e.at
  /\ fired' = Append(fired, e)

\* Mutant of RunDry: a canceled head ends the run, whatever comes after it.
RunDryOnCanceled ==
  /\ \E e \in events : First(e, events) /\ e.seq \in canceled
  /\ events' = {}
  /\ UNCHANGED <<now, fired>>

\* Advance: nothing is left that could fire.
RunDry ==
  /\ Live = {}
  /\ events' = {}
  /\ UNCHANGED <<now, fired>>

\* Advance or Steps, called from outside Run.
Advance ==
  /\ deadline = NoRun
  /\ events # {}
  /\ \/ \E e \in events : Fire(e)
     \/ RunDry
  /\ UNCHANGED <<seq, canceled, deadline>>

\* Run is called.
Run(until) ==
  /\ deadline = NoRun
  /\ deadline' = until
  /\ UNCHANGED <<now, events, seq, canceled, fired>>

\* Run's loop finds the head of the heap, canceled or not, inside the horizon.
HeadWithin == \E e \in events : First(e, events) /\ e.at <= deadline

RunAdvances ==
  /\ deadline # NoRun /\ HeadWithin
  /\ \/ /\ \E e \in events : Fire(e)
        /\ UNCHANGED deadline
     \/ /\ RunDry                       \* Advance returned false
        /\ deadline' = NoRun
  /\ UNCHANGED <<seq, canceled>>

RunReturns ==
  /\ deadline # NoRun /\ ~HeadWithin
  /\ deadline' = NoRun
  /\ UNCHANGED <<now, events, seq, canceled, fired>>

Next ==
  \/ \E d \in Delays : AfterFunc(d)
  \/ \E s \in 1 .. MaxEvents : Cancel(s)
  \/ Advance
  \/ \E u \in Horizons : Run(u)
  \/ RunAdvances
  \/ RunReturns

Spec == Init /\ [][Next]_vars

\* Whoever drives the clock keeps driving it: runSim and runUntil loop on Advance
\* while Len is not 0, after one call of Run at most.
Fairness == SF_vars(Advance) /\ WF_vars(RunAdvances) /\ WF_vars(RunReturns)
FairSpec == Spec /\ Fairness

-----------------------------------------------------------------------------
(* Properties *)

\* Type invariant.
TypeOK ==
  /\ now \in Nat
  /\ events \subseteq Event
  /\ seq \in 0 .. MaxEvents
  /\ canceled \subseteq 1 .. seq
  /\ fired \in Seq(Event)
  /\ deadline \in Horizons \cup {NoRun}

\* "Timers are ordered by fire time and callbacks run synchronously", "bit-
\* reproducible": callbacks run in order of fire time and, at one time, in the
\* order they were scheduled, also those that callbacks schedule with no delay.
FiringOrder ==
  \A i, j \in 1 .. Len(fired) : i < j => Less(fired[i], fired[j])

\* Time never overtakes a timer: whatever is still to fire lies at or after now,
\* and after everything that has fired.
NeverLate ==
  \A e \in events :
    e.at >= now /\ (fired # <<>> => Less(fired[Len(fired)], e))

\* "Calling it prevents fn from running": an event that is pending when its cancel
\* function is called never fires.
CancelPrevents ==
  [][\A i \in 1 .. Len(fired') : i > Len(fired) => fired'[i].seq \notin canceled]_vars

\* Every timer that is set fires or is canceled, once: none is lost in the heap.
EveryTimerFires ==
  \A s \in 1 .. MaxEvents :
    seq >= s ~> s \in canceled \/ \E i \in 1 .. Len(fired) : fired[i].seq = s

\* No two events of the heap have one seq, and none has one not handed out yet.
SeqsUnique ==
  \A e \in events :
    e.seq <= seq /\ \A f \in events : e.seq = f.seq => e = f

\* The clock shows the time of the last callback, or a later one.
LastFiredPast ==
  fired # <<>> => fired[Len(fired)].at <= now /\ fired[Len(fired)].seq <= seq

\* The inductive strengthening of FiringOrder: see SimClockProofs.
OrderInv == TypeOK /\ SeqsUnique /\ LastFiredPast /\ NeverLate /\ FiringOrder
=============================================================================
