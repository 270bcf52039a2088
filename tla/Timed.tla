-------------------------------- MODULE Timed --------------------------------
(***************************************************************************)
(* The disaggregated engine on the simulated clock, with its durations:    *)
(* Disagg says that a pending callback fires some time, this module says   *)
(* when.  Each callback of Disagg is conjoined with the delay after which  *)
(* it re-arms; the idle polls, which Disagg leaves out, are steps here;    *)
(* arrivals follow the load specification (pkg/engine/load.go), the        *)
(* service times the roofline runner and the KV connector; and each        *)
(* finished request is observed by the metrics registry.                   *)
(*                                                                         *)
(* The clock works as SimClock specifies: it jumps to the earliest event,  *)
(* and an event sets the next one relative to its own time.  Events of one *)
(* instant fire in any order here.  Nobody stops the engine early.         *)
(***************************************************************************)
EXTENDS Disagg, Registry

CONSTANTS
  IdlePoll,       \* idlePollInterval; the model's unit of time is 200us
  MaxIdle,        \* maxIdlePoll
  DrainTime,      \* drainUS
  PrefillSpeed,   \* PrefillUS: prompt tokens per unit of time
  DecodeSpeed,    \* DecodeUS: context tokens read per unit of time
  BlockTransfer,  \* TransferTimeUS of one block; 0 for the memory connector
  Second,         \* units of time in a second of the load specification
  Rate,           \* LoadSpec.RPS
  Duration,       \* LoadSpec.DurationSec, in units of time
  BurstAt,        \* LoadSpec.BurstAtSec, in units of time
  BurstLen,       \* LoadSpec.BurstLenSec, in units of time
  BurstFactor,    \* LoadSpec.BurstFactor
  Draws,          \* what rng.Exp may draw, in multiples of its mean
  Never,          \* NextInterarrivalUS: the gap when there is no load
  ResizeTimes,    \* bound: when the caller of ResizePools may call it
  Windows         \* the windows the registry is asked for

ASSUME DelayAssumption ==
  /\ {IdlePoll, MaxIdle, PrefillSpeed, DecodeSpeed, Second, Never} \subseteq Nat \ {0}
  /\ {DrainTime, BlockTransfer, Rate, Duration, BurstLen, BurstFactor} \subseteq Nat
  /\ BurstAt \subseteq Nat /\ Draws \subseteq Nat
  /\ ResizeTimes \subseteq Nat /\ Windows \subseteq Nat
  /\ IdlePoll <= MaxIdle

\* By how much n bursts at once multiply the rate.
Bursting(n) == BurstFactor ^ n

ASSUME BurstAssumption ==
  IsFiniteSet(BurstAt) /\ \A n \in 0 .. Cardinality(BurstAt) : Bursting(n) \in Nat

VARIABLES
  now,          \* the clock
  due,          \* when a chain's continuation fires
  idle,         \* the idle delay its closure holds
  nextArrival,  \* when the arrival chain's callback fires
  drainDue,     \* when a worker's drain callback fires, or last fired
  at,           \* Request.Arrival, FirstTokenAt, FinishAt; history: both pops
  obs           \* the registry

timeVars  == <<now, due, idle, nextArrival, drainDue, at, obs>>
timedVars == <<vars, timeVars>>

Moment == {"arrival", "pop", "first", "take", "done"}

-----------------------------------------------------------------------------
(* Delays *)

NextIdleUncapped(d) == IF d <= 0 THEN IdlePoll ELSE 2 * d            \* mutant
NextIdle(d) == IF d <= 0 THEN IdlePoll ELSE Min({2 * d, MaxIdle})
BackoffStep(d) == NextIdle(d)

\* Durations are cut to whole units, as usDur cuts them to nanoseconds.
PrefillTime(tokens) == IF tokens <= 0 THEN 0 ELSE tokens \div PrefillSpeed
DecodeTime(context) == Max({context, 1}) \div DecodeSpeed
TransferTime(blocks) == blocks * BlockTransfer

\* NextInterarrivalUS at time t: Poisson arrivals, each burst multiplies the rate.
InBurst(t) == {b \in BurstAt : b <= t /\ t < b + BurstLen}
RateAt(t)  == Rate * Bursting(Cardinality(InBurst(t)))
Gaps(t) ==
  IF RateAt(t) = 0 THEN {Never} ELSE {k * (Second \div RateAt(t)) : k \in Draws}

\* The time stamps of a finished request, as finishRequest reports them.
TTFT(r)    == [num |-> at[r].first - at[r].arrival, den |-> 1]
TPOT(r, t) == [num |-> t - at[r].first, den |-> Max({1, generated'[r]})]
E2E(r, t)  == [num |-> t - at[r].arrival, den |-> 1]

-----------------------------------------------------------------------------
(* The clock *)

Live(c) == pc[c] \notin Ended
Pending ==
  {due[c] : c \in {d \in Chain : Live(d)}}
    \cup {drainDue[w] : w \in {v \in Worker : drain[v] # "none"}}
    \cup (IF started /\ ~arrivalsDone THEN {nextArrival} ELSE {})

\* The event due at t is the next to fire.
Earliest(t) == \A u \in Pending : t <= u
Advance(t) == Earliest(t) /\ now' = t

Fires(c) == Live(c) /\ Advance(due[c])

\* The continuation of c is scheduled after d, with idle delay i.
Rearm(c, d, i) ==
  /\ due'  = [due EXCEPT ![c] = now' + d]
  /\ idle' = [idle EXCEPT ![c] = i]
  /\ UNCHANGED <<nextArrival, drainDue>>

Stamp(r, moments) ==
  at' = [at EXCEPT ![r] = [m \in Moment |-> IF m \in moments THEN now' ELSE @[m]]]

\* finishRequest: the registry observes the request.
Record(r) ==
  obs' = RecordRequest(obs, TTFT(r), TPOT(r, now'), E2E(r, now'), generated'[r], now')

-----------------------------------------------------------------------------
TInit ==
  /\ Init
  /\ now = 0
  /\ due = [c \in Chain |-> 0] /\ idle = [c \in Chain |-> 0]
  /\ nextArrival = 0
  /\ drainDue = [w \in Worker |-> 0]
  /\ at = [r \in Request |-> [m \in Moment |-> 0]]
  /\ obs = NewRegistryOn

\* runArrivalChain at time t: it ends with the load window, or schedules an arrival.
NextArrival(t) ==
  IF arrivalsDone' THEN UNCHANGED nextArrival
  ELSE t < Duration /\ \E g \in Gaps(t) : nextArrival' = t + g

\* The window is over only when it is over: with MaxRequests, the bound.
EndsInTime(t, n) == arrivalsDone' => t >= Duration \/ n = MaxRequests

TStart ==
  /\ Start
  /\ NextArrival(0) /\ EndsInTime(0, 0)
  /\ UNCHANGED <<now, due, idle, drainDue, at, obs>>

TArrive ==
  /\ started /\ ~arrivalsDone /\ Advance(nextArrival)
  /\ Arrive
  /\ NextArrival(now') /\ EndsInTime(now', arrived')
  /\ Stamp(arrived', {"arrival"})
  /\ UNCHANGED <<due, idle, drainDue, obs>>

\* Both chains: a stop flag or nothing left to do; no continuation.
Ends(c) ==
  /\ Fires(c)
  /\ Exit(c) \/ Retire(c)
  /\ due' = [due EXCEPT ![c] = 0] /\ idle' = [idle EXCEPT ![c] = 0]
  /\ UNCHANGED <<nextArrival, drainDue, at, obs>>

\* prefillStep with nothing to pop and work still to come: back off.
PrefillPoll(c) ==
  /\ Fires(c)
  /\ pc[c] = "prefillStep" /\ ~Drained(c) /\ queue = <<>> /\ ~CanRetire
  /\ Rearm(c, NextIdle(idle[c]), NextIdle(idle[c]))
  /\ UNCHANGED <<vars, at, obs>>

\* decodeStep likewise; its delay is one doubling ahead of the one it remembers.
DecodePoll(c) ==
  /\ Fires(c)
  /\ pc[c] = "decodeStep" /\ ~Drained(c) /\ decodeQueue = <<>> /\ ~CanRetire
  /\ Rearm(c, NextIdle(BackoffStep(idle[c])), BackoffStep(idle[c]))
  /\ UNCHANGED <<vars, at, obs>>

TAdmit(c) ==
  /\ Fires(c)
  /\ Admit(c)
  /\ Rearm(c, PrefillTime(prompt[Head(queue)]), 0)
  /\ Stamp(Head(queue), {"pop"})
  /\ UNCHANGED obs

TReject(c) ==
  /\ Fires(c)
  /\ Reject(c)
  /\ Rearm(c, IdlePoll, 0)
  /\ Stamp(Head(queue), {"pop", "done"})
  /\ UNCHANGED obs

\* Mutant of TPrefillDone: the transfer costs nothing.
TPrefillDoneFree(c) ==
  /\ Fires(c)
  /\ PrefillDone(c)
  /\ Rearm(c, 0, 0)
  /\ UNCHANGED <<at, obs>>

TPrefillDone(c) ==
  /\ Fires(c)
  /\ PrefillDone(c)
  /\ Rearm(c, TransferTime(BlocksNeeded(prompt[job[c]])), 0)
  /\ UNCHANGED <<at, obs>>

THandOff(c) ==
  /\ Fires(c)
  /\ HandOff(c)
  /\ Rearm(c, IdlePoll, 0)
  /\ Stamp(job[c], {"first"})
  /\ UNCHANGED obs

\* decodeStep pops a request that prefill has finished.
TTakeFinished(c) ==
  /\ Fires(c)
  /\ TakeHandoff(c) /\ pc'[c] = "decodeStep"
  /\ Rearm(c, IdlePoll, 0)
  /\ Stamp(Head(decodeQueue), {"take", "done"})
  /\ Record(Head(decodeQueue))

TTakeHandoff(c) ==
  /\ Fires(c)
  /\ TakeHandoff(c) /\ pc'[c] = "decode"
  /\ LET r == Head(decodeQueue) IN
       /\ Rearm(c, DecodeTime(prompt[r] + generated[r]), 0)
       /\ Stamp(r, {"take"})
  /\ UNCHANGED obs

TDecodeToken(c) ==
  /\ Fires(c)
  /\ DecodeToken(c)
  /\ Rearm(c, DecodeTime(prompt[job[c]] + generated'[job[c]]), 0)
  /\ UNCHANGED <<at, obs>>

TComplete(c) ==
  /\ Fires(c)
  /\ Complete(c)
  /\ Rearm(c, IdlePoll, 0)
  /\ Stamp(job[c], {"done"})
  /\ Record(job[c])

\* ResizePools, from a callback of its caller's: drains of the flipped workers start.
TResize ==
  /\ Pending # {}
  /\ \E t \in ResizeTimes : t >= now /\ Advance(t)
  /\ ResizeToPrefill \/ ResizeToDecode
  /\ drainDue' = [w \in Worker |->
                    IF drain'[w] # drain[w] THEN now' + DrainTime ELSE drainDue[w]]
  /\ UNCHANGED <<due, idle, nextArrival, at, obs>>

\* The drain callback: the new chain's first callback is due at once.
TDrainDone(w) ==
  /\ drain[w] # "none" /\ Advance(drainDue[w])
  /\ DrainDone(w)
  /\ due' = [due EXCEPT ![<<w, epoch'[w]>>] = now']
  /\ UNCHANGED <<idle, nextArrival, drainDue, at, obs>>

TStopAtQuiescence == StopAtQuiescence /\ UNCHANGED timeVars

TTerminated == Terminated /\ UNCHANGED timeVars

TChainStep(c) ==
  \/ Ends(c) \/ PrefillPoll(c) \/ DecodePoll(c)
  \/ TAdmit(c) \/ TReject(c) \/ TPrefillDone(c) \/ THandOff(c)
  \/ TTakeFinished(c) \/ TTakeHandoff(c) \/ TDecodeToken(c) \/ TComplete(c)

TNext ==
  \/ TStart
  \/ TArrive
  \/ \E c \in Chain : TChainStep(c)
  \/ TResize
  \/ \E w \in Worker : TDrainDone(w)
  \/ TStopAtQuiescence
  \/ TTerminated

TSpec == TInit /\ [][TNext]_timedVars

-----------------------------------------------------------------------------
(* Properties *)

InPrefill(r) ==
  r \in Waiting \/ \E c \in Chain : job[c] = r /\ pc[c] \in {"prefill", "transfer"}
InDecode(r) == r \in Handed \/ \E c \in Chain : job[c] = r /\ pc[c] = "decode"
HandedOver  == {r \in 1 .. arrived : ~InPrefill(r)} \ rejected

\* When a prefill chain was done with q.
FreedAt(q) == IF q \in rejected THEN at[q].done ELSE at[q].first

\* engine.go:283-285 "the cap bounds the phantom queue-wait a polling worker can add
\* to a request (<= maxIdlePoll)": a request whose predecessors have left a stage is
\* taken up, by some worker of the pool, within maxIdlePoll of its own coming or one
\* poll interval of their leaving, in both stages, whatever flips take place.
LatencyBounded ==
  /\ \A r \in 1 .. arrived :
       LET before == 1 .. r - 1 IN
         (\A q \in before : ~InPrefill(q)) =>
           (IF r \in Waiting THEN now ELSE at[r].pop)
             <= Max({at[r].arrival + MaxIdle} \cup {FreedAt(q) + IdlePoll : q \in before})
  /\ \A r \in HandedOver :
       LET before == {q \in HandedOver \ {r} : at[q].first <= at[r].first} IN
         (\A q \in before : ~InDecode(q)) =>
           (IF r \in Handed THEN now ELSE at[r].take)
             <= Max({at[r].first + MaxIdle} \cup {at[q].done + IdlePoll : q \in before})

\* From its pop to its first token a request takes its prefill and its transfer.
PrefillExact ==
  \A r \in HandedOver :
    at[r].first - at[r].pop
      = PrefillTime(prompt[r]) + TransferTime(BlocksNeeded(prompt[r]))

\* From the pop of its hand-off to its last token a request takes its decode steps.
DecodeExact ==
  \A r \in finished :
    at[r].done - at[r].take
      = LET steps == 1 .. maxOutput[r] - 1
        IN  SumFunctionOnSet([k \in steps |-> DecodeTime(prompt[r] + k)], steps)

\* disaggregated.go:321-322 "no prefill ever runs here, so ITL stays flat even during
\* arrival bursts": once taken up, a request's prefill with its transfer, and its
\* decoding, take what they would take alone, whatever else runs, flips or polls.
ServiceExact == PrefillExact /\ DecodeExact

\* When the last work, or the last drain, was over.
LastWork ==
  Max({0} \cup {at[r].done : r \in 1 .. arrived} \cup {drainDue[w] : w \in Worker})

\* Once every request has settled and none will come, every chain retires within one
\* longest idle poll: a run is as long as its work.
RetiresPromptly ==
  arrivalsDone /\ finished \cup rejected = 1 .. arrived => now <= LastWork + MaxIdle

\* The exact samples of a histogram, by request.
Sample(m, r) ==
  CASE m = "ttft" -> TTFT(r)
    [] m = "e2e"  -> [num |-> at[r].done - at[r].arrival, den |-> 1]
    [] OTHER      -> [num |-> at[r].done - at[r].first, den |-> maxOutput[r]]

\* The percentile at rank p of the finished requests, by counting.
HasRank(m, p, r) ==
  LET n     == Cardinality(finished)
      below == {q \in finished : Less(Sample(m, q), Sample(m, r))}
      upTo  == {q \in finished : Leq(Sample(m, q), Sample(m, r))}
  IN  100 * Cardinality(below) < Max({p * n, 1}) /\ 100 * Cardinality(upTo) >= p * n

\* metrics.go:70-71 "returns the p-th percentile, interpolated within the landing
\* bucket": what Snapshot reports lies in the bucket of a request that has that rank
\* among ALL finished ones, or in the last bucket if that request is beyond it.  (So
\* below a hundred completions the monitor's p99, elastic.go:141, is in the bucket of
\* the slowest request there ever was, however long ago: it never recovers.)
PercentilesHonest ==
  finished # {} =>
    \A m \in {"ttft", "tpot", "e2e"} :
      LET h == obs.hist[m]
          s == Snapshot(obs, m)
          Near(est, r) ==
            LET i == BucketOf(h, Sample(m, r)) IN
              /\ Leq([num |-> i * h.width, den |-> 1], est)
              /\ Leq(est, [num |-> (i + 1) * h.width, den |-> 1])
      IN  /\ \E r \in finished : HasRank(m, 50, r) /\ Near(s.p50, r)
          /\ \E r \in finished : HasRank(m, 99, r) /\ Near(s.p99, r)

\* metrics.go:305-307: a window holds exactly the requests that finished in it, up to
\* the last MaxRecent, with their tokens, wherever the clock and the log stand.
WindowExact ==
  \A w \in Windows :
    LET s      == Window(obs, now, w)
        inside == {r \in finished : at[r].done >= now - w}
    IN  /\ s.completed = Min({Cardinality(inside), MaxRecent})
        /\ Cardinality(inside) <= MaxRecent =>
             s.tokens = SumFunctionOnSet(maxOutput, inside)
=============================================================================
