----------------------------- MODULE Colocated -----------------------------
(***************************************************************************)
(* The colocated engine (pkg/engine/colocated.go) on the shared engine     *)
(* core (pkg/engine/engine.go): every GPU runs prefill in chunks and then  *)
(* decode, one request at a time, as a chain of clock callbacks.           *)
(*                                                                         *)
(* A callback of workerStep is more than one critical section:             *)
(*                                                                         *)
(*   Pop | canRetire                                          when idle    *)
(*   Pop | admit, Allocate | Acquire | stop test, first chunk              *)
(*                                                                         *)
(* On the simulated clock callbacks run one after another, so nothing      *)
(* happens in between (RealClock = FALSE).  On the wall clock they run on  *)
(* goroutines of their own, and between two sections of one worker any     *)
(* other callback may run (RealClock = TRUE): another Allocate then may    *)
(* evict blocks that are allocated and not yet pinned.                     *)
(***************************************************************************)
EXTENDS Integers, Sequences, FiniteSets, SequencesExt

CONSTANTS
  NumGPUs,             \* cfg.NumGPUs
  KVBlockSize,         \* cfg.KVBlockSize: tokens per block
  KVCapacity,          \* cfg.KVCapacityBlocks (NewPool takes 1024 when it is 0)
  PrefillChunkTokens,  \* cfg.PrefillChunkTokens; 0: prefill in one piece
  ChunkedPrefill,      \* cfg.ChunkedPrefill
  PromptTokens,        \* the prompt lengths the load generator may draw
  OutputTokens,        \* the output lengths it may draw
  MaxRequests,         \* bound: arrivals
  RealClock,           \* callbacks interleave inside workerStep
  AllowStop            \* Stop or RunUntil's horizon may come at any time

ASSUME GPUAssumption   == NumGPUs \in Nat \ {0}
ASSUME KVAssumption    == KVBlockSize \in Nat \ {0} /\ KVCapacity \in Nat
ASSUME LoadAssumption  == /\ PrefillChunkTokens \in Nat /\ ChunkedPrefill \in BOOLEAN
                          /\ PromptTokens \subseteq Nat
                          /\ OutputTokens \subseteq Nat \ {0}
ASSUME BoundAssumption == /\ MaxRequests \in Nat
                          /\ RealClock \in BOOLEAN /\ AllowStop \in BOOLEAN

Worker    == 1 .. NumGPUs
Request   == 1 .. MaxRequests        \* numbered in order of arrival
NoRequest == 0
Counter   == {"completed", "rejections", "dropped", "prefillTokens", "decodeTokens"}

VARIABLES
  started,      \* Start has been called
  stopped,      \* core.stop is closed
  arrivalsDone, \* core.arrivalsDone
  arrived,      \* how many requests the arrival chain has pushed
  asked,        \* Request.PromptTokens and Request.MaxOutput
  generated,    \* Request.Generated
  queue,        \* core.queue
  state,        \* GPUInstance.State
  pc,           \* where a worker's chain is
  job,          \* the request it has popped
  remaining,    \* process: prompt tokens still to prefill
  inflight,     \* core.inflight
  kvBlocks,     \* pool.blocks: <<RequestID, Seq>>
  finished,     \* history: requests finishRequest saw
  rejected,     \* history: requests rejected for want of KV blocks
  abandoned,    \* history: requests released unfinished after a stop
  robbed,       \* history: requests whose blocks another Allocate evicted in the gap
  reg           \* the registry's counters

loadVars == <<arrivalsDone, arrived, asked>>
fateVars == <<kvBlocks, robbed, finished, rejected, abandoned, reg>>
workVars == <<state, pc, job, remaining>>
vars == <<started, stopped, loadVars, queue, generated, workVars, inflight, fateVars>>

-----------------------------------------------------------------------------
(* Helpers *)

\* allocateKV: prompt tokens rounded up to whole blocks.
BlocksNeeded(tokens) == (tokens + KVBlockSize - 1) \div KVBlockSize

\* The blocks of a prompt, named by its request.
BlocksFor(r) == {r} \X (0 .. BlocksNeeded(asked[r].prompt) - 1)

\* The requests between Allocate and Acquire, and those of them that the sweep of
\* another Allocate may still evict.  Every other holder of blocks is pinned until
\* it releases them.
InGap    == {job[w] : w \in {v \in Worker : pc[v] = "gap"}}
Unpinned == InGap \ robbed

\* What is left of the pool when these have been evicted, and whether r fits there.
HeldWithout(victims) == {b \in kvBlocks : b[1] \notin victims}
Room(held, r) == Cardinality(held) + BlocksNeeded(asked[r].prompt) <= KVCapacity

\* Allocate's sweep, as KVPoolSpec has it: unpinned requests lose their blocks when
\* there is no room, the first of them at least.
Swept(r, victims) ==
  /\ victims = {} <=> Room(kvBlocks, r) \/ Unpinned = {}
  /\ robbed' = robbed \cup victims

\* Request.IsFinished, of a request that has been given g tokens.
IsFinishedLate(r, g) == g > asked[r].output       \* mutant: one token too many
IsFinished(r, g) == g >= asked[r].output

\* prefillStep: the next chunk of so many tokens still to do.
ChunkUnclipped(left) == PrefillChunkTokens        \* mutant: the last one too long
Chunk(left) ==
  IF PrefillChunkTokens = 0 \/ left < PrefillChunkTokens THEN left
                                                         ELSE PrefillChunkTokens

\* workerStep asks canRetire with no queue at all.
CanRetire == arrivalsDone /\ inflight = 0

\* The places inside one callback where another may run on the wall clock.
Inside == {"popped", "missed", "gap", "pinned"}
Alone(w) == RealClock \/ \A v \in Worker \ {w} : pc[v] \notin Inside

Ended == {"unborn", "retired", "exited", "aborted"}

\* No callback is left on the clock.
Quiescent == started /\ arrivalsDone /\ \A w \in Worker : pc[w] \in Ended

-----------------------------------------------------------------------------
Init ==
  /\ started = FALSE /\ stopped = FALSE
  /\ arrivalsDone = FALSE /\ arrived = 0
  /\ asked = [r \in Request |-> [prompt |-> 0, output |-> 0]]
  /\ generated = [r \in Request |-> 0]
  /\ queue = <<>>
  /\ state = [w \in Worker |-> "healthy"]
  /\ pc = [w \in Worker |-> "unborn"]
  /\ job = [w \in Worker |-> NoRequest]
  /\ remaining = [w \in Worker |-> 0]
  /\ inflight = 0
  /\ kvBlocks = {}
  /\ finished = {} /\ rejected = {} /\ abandoned = {} /\ robbed = {}
  /\ reg = [k \in Counter |-> 0]

\* runArrivalChain after its Stopped test: the load window is over, or the next
\* arrival is scheduled.  MaxRequests bounds the window.
ArrivalChain(n) == arrivalsDone' \in (IF n = MaxRequests THEN {TRUE} ELSE BOOLEAN)

\* One chain per GPU, then the arrival chain.
Start ==
  /\ ~started
  /\ started' = TRUE
  /\ pc' = [w \in Worker |-> "workerStep"]
  /\ state' = [w \in Worker |-> "healthy"]
  /\ ArrivalChain(0)
  /\ UNCHANGED <<stopped, arrived, asked, generated, queue, job, remaining,
                 inflight, fateVars>>

\* The callback of runArrivalChain: push the next request, re-arm.
Arrive ==
  /\ started /\ ~arrivalsDone /\ Alone(0)
  /\ IF stopped
     THEN /\ arrivalsDone' = TRUE
          /\ UNCHANGED <<arrived, asked, queue>>
     ELSE /\ arrived' = arrived + 1
          /\ \E p \in PromptTokens, o \in OutputTokens :
               asked' = [asked EXCEPT ![arrived'] = [prompt |-> p, output |-> o]]
          /\ queue' = Append(queue, arrived')
          /\ ArrivalChain(arrived')
  /\ UNCHANGED <<started, stopped, generated, workVars, inflight, fateVars>>

-----------------------------------------------------------------------------
(* workerStep *)

\* The stop test comes first.
Exit(w) ==
  /\ pc[w] = "workerStep" /\ stopped /\ Alone(w)
  /\ pc' = [pc EXCEPT ![w] = "exited"]
  /\ UNCHANGED <<started, stopped, loadVars, queue, generated, state, job,
                 remaining, inflight, fateVars>>

\* Mutant of Pop: the request stays at the head of the queue.
PopPeeks(w) ==
  /\ pc[w] = "workerStep" /\ ~stopped /\ queue # <<>> /\ Alone(w)
  /\ job' = [job EXCEPT ![w] = Head(queue)]
  /\ state' = [state EXCEPT ![w] = "busy"]
  /\ pc' = [pc EXCEPT ![w] = "popped"]
  /\ UNCHANGED <<started, stopped, loadVars, queue, generated, remaining, inflight,
                 fateVars>>

\* queue.Pop returned a request.
Pop(w) ==
  /\ pc[w] = "workerStep" /\ ~stopped /\ queue # <<>> /\ Alone(w)
  /\ job' = [job EXCEPT ![w] = Head(queue)]
  /\ queue' = Tail(queue)
  /\ state' = [state EXCEPT ![w] = "busy"]
  /\ pc' = [pc EXCEPT ![w] = "popped"]
  /\ UNCHANGED <<started, stopped, loadVars, generated, remaining, inflight, fateVars>>

\* queue.Pop returned nothing.
Miss(w) ==
  /\ pc[w] = "workerStep" /\ ~stopped /\ queue = <<>> /\ Alone(w)
  /\ pc' = [pc EXCEPT ![w] = "missed"]
  /\ UNCHANGED <<started, stopped, loadVars, queue, generated, state, job,
                 remaining, inflight, fateVars>>

\* canRetire decides between retirement and another poll.
RetireOrPoll(w) ==
  /\ pc[w] = "missed"
  /\ pc' = [pc EXCEPT ![w] = IF CanRetire THEN "retired" ELSE "workerStep"]
  /\ UNCHANGED <<started, stopped, loadVars, queue, generated, state, job,
                 remaining, inflight, fateVars>>

-----------------------------------------------------------------------------
(* process *)

\* Mutant of Reject: the release func is not called.
RejectHolds(w) ==
  /\ pc[w] = "popped"
  /\ \E victims \in SUBSET Unpinned :
       /\ Swept(job[w], victims)
       /\ kvBlocks' = HeldWithout(victims)
       /\ ~Room(kvBlocks', job[w])
  /\ rejected' = rejected \cup {job[w]}
  /\ inflight' = inflight + 1
  /\ reg' = [reg EXCEPT !["rejections"] = @ + 1, !["dropped"] = @ + 1]
  /\ state' = [state EXCEPT ![w] = "healthy"]
  /\ job' = [job EXCEPT ![w] = NoRequest]
  /\ pc' = [pc EXCEPT ![w] = "workerStep"]
  /\ UNCHANGED <<started, stopped, loadVars, queue, generated, remaining,
                 finished, abandoned>>

\* admit; Allocate finds the pool exhausted, whatever it has evicted: drop, poll
\* again, release.
Reject(w) ==
  /\ pc[w] = "popped"
  /\ \E victims \in SUBSET Unpinned :
       /\ Swept(job[w], victims)
       /\ kvBlocks' = HeldWithout(victims)
       /\ ~Room(kvBlocks', job[w])
  /\ rejected' = rejected \cup {job[w]}
  /\ reg' = [reg EXCEPT !["rejections"] = @ + 1, !["dropped"] = @ + 1]
  /\ state' = [state EXCEPT ![w] = "healthy"]
  /\ job' = [job EXCEPT ![w] = NoRequest]
  /\ pc' = [pc EXCEPT ![w] = "workerStep"]
  /\ UNCHANGED <<started, stopped, loadVars, queue, generated, remaining, inflight,
                 finished, abandoned>>

\* admit; Allocate grants the prompt's blocks, which nothing pins yet.
Admit(w) ==
  /\ pc[w] = "popped"
  /\ \E victims \in SUBSET Unpinned :
       /\ Swept(job[w], victims)
       /\ Room(HeldWithout(victims), job[w])
       /\ kvBlocks' = HeldWithout(victims) \cup BlocksFor(job[w])
  /\ inflight' = inflight + 1
  /\ pc' = [pc EXCEPT ![w] = "gap"]
  /\ UNCHANGED <<started, stopped, loadVars, queue, generated, state, job, remaining,
                 finished, rejected, abandoned, reg>>

\* Acquire pins the request, whether or not its blocks are still there; the prompt
\* is counted and prefill has all of it to do.
Acquire(w) ==
  /\ pc[w] = "gap"
  /\ reg' = [reg EXCEPT !["prefillTokens"] = @ + asked[job[w]].prompt]
  /\ remaining' = [remaining EXCEPT ![w] = asked[job[w]].prompt]
  /\ pc' = [pc EXCEPT ![w] = "pinned"]
  /\ UNCHANGED <<started, stopped, loadVars, queue, generated, state, job, inflight,
                 kvBlocks, robbed, finished, rejected, abandoned>>

\* A chain gives up: release the admission, end.  The blocks stay in the pool.
GiveUpSilently(w) ==                    \* mutant: the release func is not called
  /\ abandoned' = abandoned \cup {job[w]}
  /\ job' = [job EXCEPT ![w] = NoRequest]
  /\ pc' = [pc EXCEPT ![w] = "aborted"]
  /\ UNCHANGED <<inflight, state, kvBlocks, finished, reg>>
GiveUp(w) ==
  /\ inflight' = inflight - 1
  /\ abandoned' = abandoned \cup {job[w]}
  /\ job' = [job EXCEPT ![w] = NoRequest]
  /\ pc' = [pc EXCEPT ![w] = "aborted"]
  /\ UNCHANGED <<state, kvBlocks, finished, reg>>

\* The first prefillStep: its stop test, then the first chunk is scheduled.
FirstChunk(w) ==
  /\ pc[w] = "pinned"
  /\ IF stopped THEN GiveUp(w)
     ELSE /\ pc' = [pc EXCEPT ![w] = "prefill"]
          /\ UNCHANGED <<state, job, inflight, kvBlocks, finished, abandoned, reg>>
  /\ UNCHANGED <<started, stopped, loadVars, queue, generated, remaining, rejected, robbed>>

\* A chunk has run and there is more: prefillStep again.
PrefillChunk(w) ==
  /\ pc[w] = "prefill" /\ Alone(w)
  /\ remaining' = [remaining EXCEPT ![w] = @ - Chunk(@)]
  /\ remaining'[w] > 0
  /\ IF stopped THEN GiveUp(w)
     ELSE UNCHANGED <<state, pc, job, inflight, kvBlocks, finished, abandoned, reg>>
  /\ UNCHANGED <<started, stopped, loadVars, queue, generated, rejected, robbed>>

-----------------------------------------------------------------------------
(* decodePhase, entered with one more token *)

\* Mutant of Finish: the chain is not re-armed.
FinishEndsChain(w) ==
  /\ finished' = finished \cup {job[w]}
  /\ reg' = [reg EXCEPT !["completed"] = @ + 1, !["decodeTokens"] = @ + generated'[job[w]]]
  /\ kvBlocks' = {b \in kvBlocks : b[1] # job[w]}
  /\ inflight' = inflight - 1
  /\ state' = [state EXCEPT ![w] = "healthy"]
  /\ job' = [job EXCEPT ![w] = NoRequest]
  /\ pc' = [pc EXCEPT ![w] = "retired"]
  /\ UNCHANGED abandoned

\* finishRequest, release, poll again.
Finish(w) ==
  /\ finished' = finished \cup {job[w]}
  /\ reg' = [reg EXCEPT !["completed"] = @ + 1, !["decodeTokens"] = @ + generated'[job[w]]]
  /\ kvBlocks' = {b \in kvBlocks : b[1] # job[w]}
  /\ inflight' = inflight - 1
  /\ state' = [state EXCEPT ![w] = "healthy"]
  /\ job' = [job EXCEPT ![w] = NoRequest]
  /\ pc' = [pc EXCEPT ![w] = "workerStep"]
  /\ UNCHANGED abandoned

\* The next decode step is scheduled, behind a waiting request's prefill chunk
\* if there is one.
ScheduleDecode(w) ==
  /\ pc' = [pc EXCEPT ![w] = IF ChunkedPrefill /\ queue # <<>> THEN "stalled" ELSE "decode"]
  /\ UNCHANGED <<state, job, inflight, kvBlocks, finished, abandoned, reg>>

DecodePhase(w) ==
  /\ generated' = [generated EXCEPT ![job[w]] = @ + 1]
  /\ IF stopped THEN GiveUp(w)
     ELSE IF IsFinished(job[w], generated'[job[w]]) THEN Finish(w)
     ELSE ScheduleDecode(w)
  /\ UNCHANGED <<started, stopped, loadVars, queue, rejected, robbed>>

\* The last chunk has run: its first token falls out, and decodePhase.
PrefillDone(w) ==
  /\ pc[w] = "prefill" /\ Alone(w)
  /\ remaining' = [remaining EXCEPT ![w] = @ - Chunk(@)]
  /\ remaining'[w] <= 0
  /\ DecodePhase(w)

\* The stall is over: the decode step is scheduled, whatever has happened.
StallOver(w) ==
  /\ pc[w] = "stalled" /\ Alone(w)
  /\ pc' = [pc EXCEPT ![w] = "decode"]
  /\ UNCHANGED <<started, stopped, loadVars, queue, generated, state, job,
                 remaining, inflight, fateVars>>

\* The decode step has run: one more token, and decodePhase.
DecodeToken(w) ==
  /\ pc[w] = "decode" /\ Alone(w)
  /\ DecodePhase(w)
  /\ UNCHANGED remaining

-----------------------------------------------------------------------------
(* Stopping *)

\* Stop, or runUntil at its horizon: requestStop.
Stop ==
  /\ AllowStop /\ started /\ ~stopped /\ Alone(0)
  /\ stopped' = TRUE
  /\ UNCHANGED <<started, loadVars, queue, generated, workVars, inflight, fateVars>>

\* runSim: the clock has run dry, requestStop.  It does nothing on the wall clock.
StopAtQuiescence ==
  /\ ~RealClock /\ Quiescent /\ ~stopped
  /\ stopped' = TRUE
  /\ UNCHANGED <<started, loadVars, queue, generated, workVars, inflight, fateVars>>

\* No callback is left and nobody is waiting for one.
Terminated == Quiescent /\ (stopped \/ RealClock) /\ UNCHANGED vars

-----------------------------------------------------------------------------
WorkerStep(w) ==
  \/ Exit(w) \/ Pop(w) \/ Miss(w) \/ RetireOrPoll(w)
  \/ Reject(w) \/ Admit(w) \/ Acquire(w) \/ FirstChunk(w)
  \/ PrefillChunk(w) \/ PrefillDone(w) \/ StallOver(w) \/ DecodeToken(w)

Next ==
  \/ Start
  \/ Arrive
  \/ \E w \in Worker : WorkerStep(w)
  \/ Stop
  \/ StopAtQuiescence
  \/ Terminated

Spec == Init /\ [][Next]_vars

\* Every callback on the clock fires.  An idle worker's polls take real steps
\* here (Miss), so the next callback of another worker must not depend on the
\* polls pausing: the clock fires each callback at its time.
Fairness ==
  /\ WF_vars(Start)
  /\ SF_vars(Arrive)
  /\ \A w \in Worker : SF_vars(WorkerStep(w))
  /\ WF_vars(StopAtQuiescence)

FairSpec == Spec /\ Fairness

-----------------------------------------------------------------------------
(* Properties *)

Waiting == ToSet(queue)
Popped  == {job[w] : w \in {v \in Worker : pc[v] = "popped"}}
Running == {job[w] : w \in Worker} \ (Popped \cup {NoRequest})

\* Every request that has arrived is in exactly one place: the queue (in order of
\* arrival), one worker, or one of its fates, however callbacks interleave.
EachRequestOnce ==
  LET place == <<Waiting, Popped, Running, finished, rejected, abandoned>> IN
    /\ \A i, j \in 1 .. Len(queue) : i < j => queue[i] < queue[j]
    /\ \A v, w \in Worker : job[v] = job[w] /\ job[v] # NoRequest => v = w
    /\ \A i, j \in 1 .. 6 : i # j => place[i] \cap place[j] = {}
    /\ UNION {place[i] : i \in 1 .. 6} = 1 .. arrived

\* The release func "must be called exactly once when the request's chain
\* terminates" (engine.go:218-219): whichever way a chain leaves its request, by
\* finishing it, rejecting it, or giving it up in the middle of a chunk, a stall
\* or a decode step, the count of admissions is the count of running requests.
InFlightExact == inflight = Cardinality(Running)

\* The KV pool holds exactly the prompts of the requests that run or were given
\* up, save those evicted between Allocate and Acquire (engine.go:373-377), and never
\* more than its capacity.
KVExact ==
  /\ kvBlocks = UNION {BlocksFor(r) : r \in (Running \cup abandoned) \ robbed}
  /\ Cardinality(kvBlocks) <= KVCapacity

\* The chunks of a prompt add up: a worker prefills while tokens remain (a prompt
\* of none takes one empty chunk) and no token is out before the whole prompt is in.
ChunksAddUp ==
  \A w \in Worker :
    /\ pc[w] \in {"gap", "pinned", "prefill"} => generated[job[w]] = 0
    /\ pc[w] = "pinned" => remaining[w] = asked[job[w]].prompt
    /\ pc[w] = "prefill" =>
         /\ remaining[w] = 0 => asked[job[w]].prompt = 0
         /\ \E k \in 0 .. asked[job[w]].prompt :
              remaining[w] = asked[job[w]].prompt - k * PrefillChunkTokens
    /\ pc[w] \in {"stalled", "decode"} =>
         remaining[w] = 0 /\ generated[job[w]] \in 1 .. asked[job[w]].output - 1

\* A finished request has all the tokens it asked for and no more; the registry
\* counts each completion, rejection and prefill once.
MetricsExact ==
  /\ \A r \in finished : generated[r] = asked[r].output
  /\ reg["completed"] = Cardinality(finished)
  /\ reg["rejections"] = Cardinality(rejected) /\ reg["dropped"] = reg["rejections"]
  /\ reg["decodeTokens"] = SumFunctionOnSet([r \in Request |-> asked[r].output], finished)
  /\ reg["prefillTokens"] = SumFunctionOnSet([r \in Request |-> asked[r].prompt],
                                             finished \cup (Running \ InGap) \cup abandoned)

\* The books, however callbacks interleave: whichever way a chain leaves its request,
\* its admission is released once (engine.go:218-219 "must be called exactly once"),
\* its blocks are freed unless it was given up or another Allocate took them in the
\* gap, and each counter counts it once.
AccountsExact == InFlightExact /\ KVExact /\ MetricsExact

\* engine.go:277-278 "no event can create new work, so retirement is final", and
\* what that is for: the workers never all retire while a request waits.
NoneLeftBehind == (\A w \in Worker : pc[w] = "retired") => Waiting = {}

\* A stop has ended a chain: requests may be left behind.
CutShort == \E w \in Worker : pc[w] \in {"exited", "aborted"}

\* Every request that arrives is finished or rejected in the end, unless a stop
\* cuts the run short: no chain retires while one may still come to need it.
EveryRequestSettles ==
  \A r \in Request : arrived >= r ~> r \in finished \cup rejected \/ CutShort

\* Run, RunUntil and Stop return: arrivals end, every chain retires or sees the
\* stop, wherever it is in its request, and the clock runs dry.
RunTerminates == <>(Quiescent /\ stopped)

-----------------------------------------------------------------------------
(* Refinement: what the engine promises its requests *)

\* A request's place in the engine, seen as a stage of its life.
StatusOf(r) ==
  CASE r > arrived                  -> "unborn"
    [] r \in Waiting \cup Popped    -> "waiting"
    [] r \in Running                -> "running"
    [] r \in finished               -> "done"
    [] r \in rejected               -> "refused"
    [] OTHER                        -> "abandoned"

Serving == INSTANCE ServingSpec WITH
  Capacity <- KVCapacity,
  Blocks   <- BlocksNeeded,
  closed   <- stopped,
  status   <- [r \in Request |-> StatusOf(r)],
  ask      <- asked,
  tokens   <- generated

\* The colocated engine implements the same promise as the disaggregated one.
ImplementsServing == Serving!SSpec
=============================================================================
