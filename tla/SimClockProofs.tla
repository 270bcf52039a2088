--------------------------- MODULE SimClockProofs ---------------------------
(***************************************************************************)
(* The simulated clock is deterministic for every set of delays, every     *)
(* horizon and any number of timers: callbacks run in the order of fire    *)
(* time and, at one time, of scheduling, and time never overtakes a timer. *)
(*                                                                         *)
(* FiringOrder is not inductive: that the next callback comes after all    *)
(* earlier ones needs every PENDING event to come after the last callback  *)
(* (NeverLate), which a new event does because the clock shows the time of *)
(* the last callback or a later one (LastFiredPast) and its seq is new     *)
(* (SeqsUnique).  OrderInv is their conjunction.                           *)
(***************************************************************************)
EXTENDS SimClock, TLAPS

\* Less is a strict order, total on events that differ in seq.
LEMMA LessOrder ==
  /\ \A e, f, g \in Event : Less(e, f) /\ Less(f, g) => Less(e, g)
  /\ \A e, f \in Event : e.seq # f.seq => Less(e, f) \/ Less(f, e)
BY DEF Less, Event

LEMMA OrderInit == Init => OrderInv
<1> SUFFICES ASSUME Init PROVE OrderInv
  OBVIOUS
<1> USE DEF Init
<1>1. TypeOK
  <2>1. fired \in Seq(Event) /\ events \subseteq Event
    OBVIOUS
  <2>2. now \in Nat /\ seq \in 0 .. MaxEvents /\ canceled \subseteq 1 .. seq
    BY BoundAssumption
  <2>3. deadline \in Horizons \cup {NoRun}
    OBVIOUS
  <2> QED
    BY <2>1, <2>2, <2>3 DEF TypeOK
<1>2. SeqsUnique /\ LastFiredPast /\ NeverLate /\ FiringOrder
  BY DEF SeqsUnique, LastFiredPast, NeverLate, FiringOrder
<1> QED
  BY <1>1, <1>2 DEF OrderInv

\* A new event comes after everything that has fired.
LEMMA OrderAfterFunc ==
  ASSUME OrderInv, NEW d \in Delays, AfterFunc(d)
  PROVE  OrderInv'
<1> DEFINE e == [at |-> now + (IF d < 0 THEN 0 ELSE d), seq |-> seq + 1]
<1>1. /\ now \in Nat /\ seq \in 0 .. MaxEvents /\ fired \in Seq(Event)
      /\ events \subseteq Event /\ seq < MaxEvents /\ MaxEvents \in Nat /\ d \in Int
  BY BoundAssumption, DelayAssumption DEF OrderInv, TypeOK, AfterFunc
<1>2. /\ seq' = seq + 1 /\ events' = events \cup {e}
      /\ UNCHANGED <<now, canceled, fired, deadline>>
  BY DEF AfterFunc
<1>3. e \in Event /\ e.at >= now /\ e.seq = seq + 1
  BY <1>1 DEF Event
<1> HIDE DEF e
<1>4. TypeOK'
  <2>1. canceled \subseteq 1 .. seq /\ deadline \in Horizons \cup {NoRun}
    BY DEF OrderInv, TypeOK
  <2>2. canceled' \subseteq 1 .. seq'
    BY <1>1, <1>2, <2>1
  <2>3. events' \subseteq Event /\ seq' \in 0 .. MaxEvents /\ now' \in Nat
    BY <1>1, <1>2, <1>3
  <2>4. fired' \in Seq(Event) /\ deadline' \in Horizons \cup {NoRun}
    BY <1>1, <1>2, <2>1
  <2> QED
    BY <2>2, <2>3, <2>4 DEF TypeOK
<1>5. SeqsUnique'
  BY <1>1, <1>2, <1>3 DEF OrderInv, SeqsUnique, Event
<1>9. fired # <<>> => /\ fired[Len(fired)].at \in Nat /\ fired[Len(fired)].seq \in Nat
                       /\ fired[Len(fired)].at <= now /\ fired[Len(fired)].seq <= seq
  <2>1. fired # <<>> => fired[Len(fired)] \in Event
    BY <1>1
  <2> QED
    BY <2>1 DEF OrderInv, LastFiredPast, Event
<1>6. LastFiredPast'
  BY <1>1, <1>2, <1>9 DEF LastFiredPast
<1>7. NeverLate'
  <2>1. fired # <<>> => Less(fired[Len(fired)], e)
    BY <1>1, <1>3, <1>9 DEF Less, Event
  <2> QED
    BY <1>2, <1>3, <2>1 DEF OrderInv, NeverLate, Less
<1>8. FiringOrder'
  BY <1>2 DEF OrderInv, FiringOrder, Less
<1> QED
  BY <1>4, <1>5, <1>6, <1>7, <1>8 DEF OrderInv

\* The event that fires comes after all that fired, before all that stay.
LEMMA OrderFire ==
  ASSUME OrderInv, NEW e, Fire(e), UNCHANGED <<seq, canceled>>,
         deadline' \in Horizons \cup {NoRun}
  PROVE  OrderInv'
<1>1. /\ e \in events /\ e \in Event /\ events \subseteq Event
      /\ now \in Nat /\ seq \in 0 .. MaxEvents /\ fired \in Seq(Event)
  BY DEF OrderInv, TypeOK, Fire
<1>2. /\ events' = events \ (Skipped(e) \cup {e})
      /\ now' = e.at /\ fired' = Append(fired, e)
      /\ seq' = seq /\ canceled' = canceled
  BY DEF Fire
<1>3. /\ fired' \in Seq(Event) /\ Len(fired') = Len(fired) + 1
      /\ fired'[Len(fired')] = e /\ fired' # <<>>
      /\ \A i \in 1 .. Len(fired) : fired'[i] = fired[i]
      /\ Len(fired) \in Nat /\ \A i \in 1 .. Len(fired) : fired[i] \in Event
  BY <1>1, <1>2
<1>4. TypeOK'
  <2>1. now' \in Nat /\ events' \subseteq Event
    BY <1>1, <1>2 DEF Event
  <2> QED
    BY <1>2, <1>3, <2>1 DEF OrderInv, TypeOK
<1>5. SeqsUnique'
  BY <1>2 DEF OrderInv, SeqsUnique
<1>6. LastFiredPast'
  BY <1>1, <1>2, <1>3 DEF OrderInv, LastFiredPast, SeqsUnique, Event
<1>7. NeverLate'
  <2> SUFFICES ASSUME NEW f \in events' PROVE f.at >= now' /\ Less(e, f)
    BY <1>3 DEF NeverLate, Less
  <2>1. f \in events /\ f \in Event /\ f # e /\ ~Less(f, e)
    BY <1>1, <1>2 DEF Skipped
  <2>2. f.seq # e.seq
    BY <1>1, <2>1 DEF OrderInv, SeqsUnique
  <2>3. Less(e, f)
    BY <1>1, <2>1, <2>2, LessOrder
  <2> QED
    BY <1>1, <1>2, <2>1, <2>3 DEF Less, Event
<1>8. FiringOrder'
  <2> SUFFICES ASSUME NEW i \in 1 .. Len(fired'), NEW j \in 1 .. Len(fired'), i < j
               PROVE  Less(fired'[i], fired'[j])
    BY DEF FiringOrder, Less
  <2>1. CASE j <= Len(fired)
    <3>1. i \in 1 .. Len(fired) /\ j \in 1 .. Len(fired)
      BY <1>3, <2>1
    <3>2. Less(fired[i], fired[j])
      BY <3>1 DEF OrderInv, FiringOrder
    <3> QED
      BY <1>3, <3>1, <3>2
  <2>2. CASE j = Len(fired')
    <3>1. i \in 1 .. Len(fired) /\ fired # <<>>
      BY <1>1, <1>3, <2>2
    <3>2. Less(fired[Len(fired)], e)
      BY <1>1, <3>1 DEF OrderInv, NeverLate
    <3>3. Less(fired[i], e)
      <4>1. CASE i = Len(fired)
        BY <3>2, <4>1
      <4>2. CASE i < Len(fired)
        <5>1. Less(fired[i], fired[Len(fired)])
          BY <1>3, <3>1, <4>2 DEF OrderInv, FiringOrder
        <5>2. Len(fired) \in 1 .. Len(fired)
          BY <1>3, <3>1
        <5> QED
          BY <1>1, <1>3, <3>1, <3>2, <5>1, <5>2, LessOrder
      <4> QED
        BY <1>3, <3>1, <4>1, <4>2
    <3> QED
      BY <1>3, <2>2, <3>1, <3>3
  <2> QED
    BY <1>3, <2>1, <2>2
<1> QED
  BY <1>4, <1>5, <1>6, <1>7, <1>8 DEF OrderInv

\* A step that drops events and leaves the rest alone.
LEMMA OrderShrinks ==
  ASSUME OrderInv, events' \subseteq events, UNCHANGED <<now, seq, fired>>,
         canceled' \subseteq 1 .. seq, deadline' \in Horizons \cup {NoRun}
  PROVE  OrderInv'
<1>1. TypeOK'
  BY DEF OrderInv, TypeOK
<1>2. SeqsUnique' /\ LastFiredPast'
  BY DEF OrderInv, SeqsUnique, LastFiredPast
<1>3. NeverLate' /\ FiringOrder'
  BY DEF OrderInv, NeverLate, FiringOrder, Less
<1> QED
  BY <1>1, <1>2, <1>3 DEF OrderInv

LEMMA OrderStep == OrderInv /\ [Next]_vars => OrderInv'
<1> SUFFICES ASSUME OrderInv, [Next]_vars PROVE OrderInv'
  OBVIOUS
<1>0. /\ canceled \subseteq 1 .. seq /\ deadline \in Horizons \cup {NoRun}
  BY DEF OrderInv, TypeOK
<1>1. ASSUME NEW d \in Delays, AfterFunc(d) PROVE OrderInv'
  BY <1>1, OrderAfterFunc
<1>2. ASSUME NEW s \in 1 .. MaxEvents, Cancel(s) PROVE OrderInv'
  BY <1>0, <1>2, OrderShrinks DEF Cancel
<1>3. CASE Advance
  <2>1. UNCHANGED <<seq, canceled>> /\ deadline' \in Horizons \cup {NoRun}
    BY <1>0, <1>3 DEF Advance
  <2>2. ASSUME NEW e \in events, Fire(e) PROVE OrderInv'
    BY <2>1, <2>2, OrderFire
  <2>3. CASE RunDry
    BY <1>0, <2>1, <2>3, OrderShrinks DEF RunDry
  <2> QED
    BY <1>3, <2>2, <2>3 DEF Advance
<1>4. ASSUME NEW u \in Horizons, Run(u) PROVE OrderInv'
  BY <1>0, <1>4, OrderShrinks DEF Run
<1>5. CASE RunAdvances
  <2>1. UNCHANGED <<seq, canceled>> /\ deadline' \in Horizons \cup {NoRun}
    BY <1>0, <1>5 DEF RunAdvances
  <2>2. ASSUME NEW e \in events, Fire(e) PROVE OrderInv'
    BY <2>1, <2>2, OrderFire
  <2>3. CASE RunDry
    BY <1>0, <2>1, <2>3, OrderShrinks DEF RunDry
  <2> QED
    BY <1>5, <2>2, <2>3 DEF RunAdvances
<1>6. CASE RunReturns
  BY <1>0, <1>6, OrderShrinks DEF RunReturns
<1>7. CASE UNCHANGED vars
  BY <1>0, <1>7, OrderShrinks DEF vars
<1> QED
  BY <1>1, <1>2, <1>3, <1>4, <1>5, <1>6, <1>7 DEF Next

\* Callbacks run in order of fire time and then of scheduling, whatever timers
\* are set and canceled, from outside or from callbacks.
THEOREM FiringOrderHolds == Spec => []FiringOrder
<1>1. OrderInv => FiringOrder
  BY DEF OrderInv
<1> QED
  BY OrderInit, OrderStep, <1>1, PTL DEF Spec

\* The clock never moves past a timer that is still to fire.
THEOREM NeverLateHolds == Spec => []NeverLate
<1>1. OrderInv => NeverLate
  BY DEF OrderInv
<1> QED
  BY OrderInit, OrderStep, <1>1, PTL DEF Spec

\* A callback that runs was not canceled before, also when the canceled event was at
\* the head of the heap or the cancel function was called by another callback.
THEOREM CancelPreventsHolds == Spec => CancelPrevents
<1> DEFINE Prevents == \A i \in 1 .. Len(fired') : i > Len(fired) => fired'[i].seq \notin canceled
<1>1. OrderInv /\ [Next]_vars => [Prevents]_vars
  <2> SUFFICES ASSUME OrderInv, [Next]_vars, NEW i \in 1 .. Len(fired'), i > Len(fired)
               PROVE  fired'[i].seq \notin canceled
    BY DEF vars
  <2>1. fired \in Seq(Event) /\ Len(fired) \in Nat
    BY DEF OrderInv, TypeOK
  <2>2. PICK e \in events : Fire(e)
    <3>1. fired' # fired
      BY <2>1
    <3> QED
      BY <3>1 DEF vars, Next, AfterFunc, Cancel, Advance, RunDry, Run, RunAdvances, RunReturns
  <2>3. e \in Event /\ fired' = Append(fired, e)
    BY <2>2 DEF OrderInv, TypeOK, Fire
  <2>4. fired'[i] = e
    BY <2>1, <2>3
  <2> QED
    BY <2>2, <2>4 DEF Fire, SkipsCanceled
<1> QED
  BY OrderInit, OrderStep, <1>1, PTL DEF Spec, CancelPrevents
=============================================================================
