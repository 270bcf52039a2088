------------------------------- MODULE Disagg -------------------------------
(***************************************************************************)
(* The disaggregated engine (pkg/engine/disaggregated.go) on the shared    *)
(* engine core (pkg/engine/engine.go): a prefill and a decode pool of GPU  *)
(* workers, the admission queue, the hand-off queue between the pools, the *)
(* arrival chain, role flips with their drain, stop, and retirement.       *)
(*                                                                         *)
(* A worker runs as a CHAIN of clock callbacks.  Each step below is one    *)
(* callback, run to its end: on the simulated clock callbacks never        *)
(* overlap.  Time is abstracted to "a pending callback fires at some later *)
(* step, in any order", which includes every order the clock can produce.  *)
(* An idle poll (an empty queue, no retirement, re-arm) changes no state   *)
(* and is a stuttering step.                                               *)
(*                                                                         *)
(* ResizePools gives a flipped worker a new stop channel, and a            *)
(* continuation looks at the channel the worker has WHEN IT FIRES.  A      *)
(* chain is therefore identified by its worker and by the generation of    *)
(* the stop channel it was spawned with.                                   *)
(***************************************************************************)
EXTENDS Integers, Sequences, FiniteSets, SequencesExt

CONSTANTS
  NumGPUs,           \* cfg.NumGPUs
  PrefillPercent,    \* cfg.PrefillRatio, in percent
  KVBlockSize,       \* cfg.KVBlockSize: tokens per block
  KVCapacity,        \* cfg.KVCapacityBlocks (NewPool takes 1024 when it is 0)
  PromptTokens,      \* the prompt lengths the load generator may draw
  OutputTokens,      \* the output lengths it may draw
  MaxRequests,       \* bound: arrivals
  MaxFlips,          \* bound: iterations of ResizePools' loops
  MinPrefillGPUs,    \* floor the caller of ResizePools keeps (0: none)
  MinDecodeGPUs,     \* floor the caller of ResizePools keeps (0: none)
  SpacedFlips,       \* the caller waits for a drain before the next flip
  AllowStop          \* Stop or RunUntil's horizon may come at any time

ASSUME GPUAssumption     == NumGPUs \in Nat /\ NumGPUs >= 2
ASSUME RatioAssumption   == PrefillPercent \in Nat
ASSUME KVAssumption      == KVBlockSize \in Nat \ {0} /\ KVCapacity \in Nat \ {0}
ASSUME LoadAssumption    == /\ PromptTokens \subseteq Nat
                            /\ OutputTokens \subseteq Nat \ {0}
ASSUME BoundAssumption   == MaxRequests \in Nat /\ MaxFlips \in Nat
ASSUME CallerAssumption  == /\ MinPrefillGPUs \in Nat /\ MinDecodeGPUs \in Nat
                            /\ SpacedFlips \in BOOLEAN /\ AllowStop \in BOOLEAN

Worker   == 1 .. NumGPUs
Request  == 1 .. MaxRequests        \* numbered in order of arrival
Chain    == Worker \X (0 .. MaxFlips)
Roles    == {"prefill", "decode"}
NoRequest == 0
Counter  == {"completed", "rejections", "dropped", "prefillTokens", "decodeTokens"}

VARIABLES
  started,      \* Start has been called
  stopped,      \* core.stop is closed
  arrivalsDone, \* core.arrivalsDone
  arrived,      \* how many requests the arrival chain has pushed
  prompt,       \* Request.PromptTokens
  maxOutput,    \* Request.MaxOutput
  generated,    \* Request.Generated
  queue,        \* core.queue
  decodeQueue,  \* decodeQueue.items
  prefillGPUs,  \* the pool lists ResizePools edits
  decodeGPUs,
  role,         \* worker.inst.Role
  state,        \* worker.inst.State
  stop,         \* worker.stop is closed
  epoch,        \* which stop channel the worker has: how often it was renewed
  drain,        \* the role a pending drain callback will respawn, or "none"
  pc,           \* the continuation a chain has on the clock
  job,          \* the request a chain's continuation holds
  inflight,     \* core.inflight
  kvBlocks,     \* pool.blocks: <<RequestID, Seq>>
  finished,     \* history: requests finishRequest saw
  rejected,     \* history: requests rejected for want of KV blocks
  abandoned,    \* history: requests a decode chain released unfinished
  reg,          \* the registry's counters
  flips         \* bound: iterations of ResizePools so far

loadVars == <<arrivalsDone, arrived, prompt, maxOutput>>
poolVars == <<prefillGPUs, decodeGPUs, role, stop, epoch, drain, flips>>
fateVars == <<kvBlocks, finished, rejected, abandoned, reg>>
workVars == <<generated, queue, decodeQueue, job, inflight>>
vars == <<started, stopped, loadVars, poolVars, fateVars, workVars, state, pc>>

-----------------------------------------------------------------------------
(* Helpers *)

\* NewDisaggregated: int(N * ratio), at least one worker on each side.
NumPrefill ==
  LET n == (NumGPUs * PrefillPercent) \div 100
  IN  IF n < 1 THEN 1 ELSE IF n >= NumGPUs THEN NumGPUs - 1 ELSE n

\* allocateKV: prompt tokens rounded up to whole blocks.
BlocksNeeded(tokens) == (tokens + KVBlockSize - 1) \div KVBlockSize

\* Request.IsFinished, of a request that has been given g tokens.
IsFinishedLate(r, g) == g > maxOutput[r]                \* mutant: one token too many
IsFinished(r, g) == g >= maxOutput[r]

\* A continuation that looks at the stop flags exits.
DrainedByFlip(c) == stop[c[1]]          \* mutant: the engine's own flag is not read
Drained(c) == stopped \/ stop[c[1]]

WorkQueued  == queue # <<>> \/ decodeQueue # <<>>  \* mutant: forgets what is in flight
WorkPending == inflight > 0 \/ queue # <<>> \/ decodeQueue # <<>>
CanRetire   == arrivalsDone /\ ~WorkPending

\* What the pool holds.  Allocate and Acquire run in one callback and Release
\* undoes both, so every block is pinned and eviction never finds a victim.
FitsRoundedDown(r) ==                   \* mutant: a partly filled block is free
  Cardinality(kvBlocks) + prompt[r] \div KVBlockSize <= KVCapacity
Fits(r) == Cardinality(kvBlocks) + BlocksNeeded(prompt[r]) <= KVCapacity

ReleaseForgotten == UNCHANGED inflight  \* mutant: the release func is not called
Release == inflight' = inflight - 1

Ended == {"unborn", "retired", "exited", "aborted"}

\* No callback is left on the clock.
Quiescent ==
  /\ started /\ arrivalsDone
  /\ \A c \in Chain : pc[c] \in Ended
  /\ \A w \in Worker : drain[w] = "none"

-----------------------------------------------------------------------------
Init ==
  /\ started = FALSE /\ stopped = FALSE
  /\ arrivalsDone = FALSE /\ arrived = 0
  /\ prompt = [r \in Request |-> 0]
  /\ maxOutput = [r \in Request |-> 0]
  /\ generated = [r \in Request |-> 0]
  /\ queue = <<>> /\ decodeQueue = <<>>
  /\ prefillGPUs = [i \in 1 .. NumPrefill |-> i]
  /\ decodeGPUs = [i \in 1 .. NumGPUs - NumPrefill |-> NumPrefill + i]
  /\ role = [w \in Worker |-> IF w <= NumPrefill THEN "prefill" ELSE "decode"]
  /\ state = [w \in Worker |-> "healthy"]
  /\ stop = [w \in Worker |-> FALSE]
  /\ epoch = [w \in Worker |-> 0]
  /\ drain = [w \in Worker |-> "none"]
  /\ pc = [c \in Chain |-> "unborn"]
  /\ job = [c \in Chain |-> NoRequest]
  /\ inflight = 0
  /\ kvBlocks = {}
  /\ finished = {} /\ rejected = {} /\ abandoned = {}
  /\ reg = [k \in Counter |-> 0]
  /\ flips = 0

\* runArrivalChain after its Stopped test: the load window is over, or the next
\* arrival is scheduled.  MaxRequests bounds the window.
ArrivalChain(n) == arrivalsDone' \in (IF n = MaxRequests THEN {TRUE} ELSE BOOLEAN)

\* One chain per worker, one callback at once; then the arrival chain.
Start ==
  /\ ~started
  /\ started' = TRUE
  /\ pc' = [c \in Chain |->
              IF c[2] # 0 THEN "unborn"
              ELSE IF c[1] \in ToSet(prefillGPUs) THEN "prefillStep" ELSE "decodeStep"]
  /\ ArrivalChain(0)
  /\ UNCHANGED <<stopped, arrived, prompt, maxOutput, state,
                 poolVars, fateVars, workVars>>

\* The callback of runArrivalChain: push the next request, re-arm.
Arrive ==
  /\ started /\ ~arrivalsDone
  /\ IF stopped
     THEN /\ arrivalsDone' = TRUE
          /\ UNCHANGED <<arrived, prompt, maxOutput, queue>>
     ELSE /\ arrived' = arrived + 1
          /\ \E p \in PromptTokens, o \in OutputTokens :
               /\ prompt' = [prompt EXCEPT ![arrived'] = p]
               /\ maxOutput' = [maxOutput EXCEPT ![arrived'] = o]
          /\ queue' = Append(queue, arrived')
          /\ ArrivalChain(arrived')
  /\ UNCHANGED <<started, stopped, generated, decodeQueue, job, inflight,
                 poolVars, fateVars, state, pc>>

-----------------------------------------------------------------------------
(* Steps common to both chains *)

\* prefillStep / decodeStep: the stop tests come first.
Exit(c) ==
  /\ pc[c] \in {"prefillStep", "decodeStep"}
  /\ Drained(c)
  /\ pc' = [pc EXCEPT ![c] = "exited"]
  /\ UNCHANGED <<started, stopped, loadVars, poolVars, fateVars, workVars, state>>

\* prefillStep / decodeStep: nothing to pop, and nothing can come any more.
Retire(c) ==
  /\ ~Drained(c)
  /\ \/ pc[c] = "prefillStep" /\ queue = <<>>
     \/ pc[c] = "decodeStep" /\ decodeQueue = <<>>
  /\ CanRetire
  /\ pc' = [pc EXCEPT ![c] = "retired"]
  /\ UNCHANGED <<started, stopped, loadVars, poolVars, fateVars, workVars, state>>

-----------------------------------------------------------------------------
(* The prefill chain *)

\* prefillStep: pop, admit, allocate and pin the prompt's blocks, start prefill.
Admit(c) ==
  /\ pc[c] = "prefillStep" /\ ~Drained(c) /\ queue # <<>>
  /\ LET r == Head(queue) IN
       /\ Fits(r)
       /\ kvBlocks' = kvBlocks \cup ({r} \X (0 .. BlocksNeeded(prompt[r]) - 1))
       /\ job' = [job EXCEPT ![c] = r]
       /\ reg' = [reg EXCEPT !["prefillTokens"] = @ + prompt[r]]
  /\ queue' = Tail(queue)
  /\ inflight' = inflight + 1
  /\ state' = [state EXCEPT ![c[1]] = "busy"]
  /\ pc' = [pc EXCEPT ![c] = "prefill"]
  /\ UNCHANGED <<started, stopped, loadVars, poolVars, generated, decodeQueue,
                 finished, rejected, abandoned>>

\* prefillStep: pop and admit, the pool is exhausted: drop, release, poll again.
Reject(c) ==
  /\ pc[c] = "prefillStep" /\ ~Drained(c) /\ queue # <<>>
  /\ ~Fits(Head(queue))
  /\ queue' = Tail(queue)
  /\ rejected' = rejected \cup {Head(queue)}
  /\ reg' = [reg EXCEPT !["rejections"] = @ + 1, !["dropped"] = @ + 1]
  /\ state' = [state EXCEPT ![c[1]] = "healthy"]
  /\ UNCHANGED <<started, stopped, loadVars, poolVars, generated, decodeQueue,
                 job, inflight, kvBlocks, finished, abandoned, pc>>

\* Prefill has run; the KV transfer is scheduled.
PrefillDone(c) ==
  /\ pc[c] = "prefill"
  /\ pc' = [pc EXCEPT ![c] = "transfer"]
  /\ UNCHANGED <<started, stopped, loadVars, poolVars, fateVars, workVars, state>>

\* Mutant of HandOff: the chain forgets its request before it pushes it.
HandOffForgets(c) ==
  /\ pc[c] = "transfer"
  /\ generated' = [generated EXCEPT ![job[c]] = @ + 1]
  /\ job' = [job EXCEPT ![c] = NoRequest]
  /\ decodeQueue' = Append(decodeQueue, job'[c])
  /\ state' = [state EXCEPT ![c[1]] = "healthy"]
  /\ pc' = [pc EXCEPT ![c] = "prefillStep"]
  /\ UNCHANGED <<started, stopped, loadVars, poolVars, fateVars, queue, inflight>>

\* The transfer has run: first token, hand the request and its admission over.
\* Neither stop flag is tested here.
HandOff(c) ==
  /\ pc[c] = "transfer"
  /\ generated' = [generated EXCEPT ![job[c]] = @ + 1]
  /\ decodeQueue' = Append(decodeQueue, job[c])
  /\ job' = [job EXCEPT ![c] = NoRequest]
  /\ state' = [state EXCEPT ![c[1]] = "healthy"]
  /\ pc' = [pc EXCEPT ![c] = "prefillStep"]
  /\ UNCHANGED <<started, stopped, loadVars, poolVars, fateVars, queue, inflight>>

-----------------------------------------------------------------------------
(* The decode chain *)

\* Mutant of Finish: the tokens are read before the last one is counted.
FinishStale(r) ==
  /\ finished' = finished \cup {r}
  /\ reg' = [reg EXCEPT !["completed"] = @ + 1, !["decodeTokens"] = @ + generated[r]]
  /\ kvBlocks' = {b \in kvBlocks : b[1] # r}
  /\ Release

\* finishRequest and release: record the request, free its blocks.
Finish(r) ==
  /\ finished' = finished \cup {r}
  /\ reg' = [reg EXCEPT !["completed"] = @ + 1, !["decodeTokens"] = @ + generated'[r]]
  /\ kvBlocks' = {b \in kvBlocks : b[1] # r}
  /\ Release

\* decodeStep: pop a hand-off and enter step(): it may be finished already.
TakeHandoff(c) ==
  /\ pc[c] = "decodeStep" /\ ~Drained(c) /\ decodeQueue # <<>>
  /\ decodeQueue' = Tail(decodeQueue)
  /\ LET r == Head(decodeQueue) IN
       IF IsFinished(r, generated[r])
       THEN /\ UNCHANGED generated
            /\ Finish(r)
            /\ state' = [state EXCEPT ![c[1]] = "healthy"]
            /\ UNCHANGED <<job, pc>>
       ELSE /\ job' = [job EXCEPT ![c] = r]
            /\ state' = [state EXCEPT ![c[1]] = "busy"]
            /\ pc' = [pc EXCEPT ![c] = "decode"]
            /\ UNCHANGED <<generated, finished, reg, kvBlocks, inflight>>
  /\ UNCHANGED <<started, stopped, loadVars, poolVars, queue, rejected, abandoned>>

\* One token, then step(): the engine has stopped, so release the admission and
\* end the chain.  The request's blocks stay in the pool.
Abandon(c) ==
  /\ pc[c] = "decode" /\ stopped
  /\ generated' = [generated EXCEPT ![job[c]] = @ + 1]
  /\ Release
  /\ abandoned' = abandoned \cup {job[c]}
  /\ job' = [job EXCEPT ![c] = NoRequest]
  /\ pc' = [pc EXCEPT ![c] = "aborted"]
  /\ UNCHANGED <<started, stopped, loadVars, poolVars, queue, decodeQueue,
                 kvBlocks, finished, rejected, reg, state>>

\* One token, then step(): it was the last one, so finish and poll again.
Complete(c) ==
  /\ pc[c] = "decode" /\ ~stopped
  /\ generated' = [generated EXCEPT ![job[c]] = @ + 1]
  /\ IsFinished(job[c], generated'[job[c]])
  /\ Finish(job[c])
  /\ job' = [job EXCEPT ![c] = NoRequest]
  /\ state' = [state EXCEPT ![c[1]] = "healthy"]
  /\ pc' = [pc EXCEPT ![c] = "decodeStep"]
  /\ UNCHANGED <<started, stopped, loadVars, poolVars, queue, decodeQueue,
                 rejected, abandoned>>

\* One token, then step(): there are more to come.
DecodeToken(c) ==
  /\ pc[c] = "decode" /\ ~stopped
  /\ generated' = [generated EXCEPT ![job[c]] = @ + 1]
  /\ ~IsFinished(job[c], generated'[job[c]])
  /\ UNCHANGED <<started, stopped, loadVars, poolVars, fateVars, queue,
                 decodeQueue, job, inflight, state, pc>>

-----------------------------------------------------------------------------
(* Role flips *)

\* Mutant of Flip: the role is not rebound.
FlipKeepsRole(w, to) ==
  IF stop[w]
  THEN UNCHANGED <<state, stop, role, drain>>
  ELSE /\ state' = [state EXCEPT ![w] = "draining"]
       /\ stop' = [stop EXCEPT ![w] = TRUE]
       /\ drain' = [drain EXCEPT ![w] = to]
       /\ UNCHANGED role

\* flip: close the stop channel, rebind the role, schedule the respawn.  A
\* worker whose channel is closed already is left as it is.
Flip(w, to) ==
  IF stop[w]
  THEN UNCHANGED <<state, stop, role, drain>>
  ELSE /\ state' = [state EXCEPT ![w] = "draining"]
       /\ stop' = [stop EXCEPT ![w] = TRUE]
       /\ role' = [role EXCEPT ![w] = to]
       /\ drain' = [drain EXCEPT ![w] = to]

\* What the caller of ResizePools sees to.
CallerFlips ==
  /\ started /\ flips < MaxFlips
  /\ SpacedFlips => \A w \in Worker : drain[w] = "none"

\* One iteration of ResizePools' first loop.  The loops run under e.mu in one
\* callback; a call that moves several workers is a run of these steps.
ResizeToPrefill ==
  /\ CallerFlips
  /\ Len(decodeGPUs) > MinDecodeGPUs
  /\ Flip(Last(decodeGPUs), "prefill")
  /\ decodeGPUs' = Front(decodeGPUs)
  /\ prefillGPUs' = Append(prefillGPUs, Last(decodeGPUs))
  /\ flips' = flips + 1
  /\ UNCHANGED <<started, stopped, loadVars, fateVars, workVars, epoch, pc>>

\* One iteration of its second loop.
ResizeToDecode ==
  /\ CallerFlips
  /\ Len(prefillGPUs) > MinPrefillGPUs
  /\ Flip(Last(prefillGPUs), "decode")
  /\ prefillGPUs' = Front(prefillGPUs)
  /\ decodeGPUs' = Append(decodeGPUs, Last(prefillGPUs))
  /\ flips' = flips + 1
  /\ UNCHANGED <<started, stopped, loadVars, fateVars, workVars, epoch, pc>>

\* The drain callback of flip: a fresh channel and one new chain, or nothing
\* any more when the engine has stopped.
DrainDone(w) ==
  /\ drain[w] # "none"
  /\ drain' = [drain EXCEPT ![w] = "none"]
  /\ IF stopped
     THEN /\ state' = [state EXCEPT ![w] = "failed"]
          /\ UNCHANGED <<stop, epoch, pc>>
     ELSE /\ state' = [state EXCEPT ![w] = "healthy"]
          /\ stop' = [stop EXCEPT ![w] = FALSE]
          /\ epoch' = [epoch EXCEPT ![w] = @ + 1]
          /\ pc' = [pc EXCEPT ![<<w, epoch[w] + 1>>] =
                      IF drain[w] = "prefill" THEN "prefillStep" ELSE "decodeStep"]
  /\ UNCHANGED <<started, stopped, loadVars, fateVars, workVars,
                 prefillGPUs, decodeGPUs, role, flips>>

-----------------------------------------------------------------------------
(* Stopping *)

\* Stop: close the core's channel and every worker's, each at most once.
Stop ==
  /\ AllowStop /\ started
  /\ stopped' = TRUE
  /\ stop' = [w \in Worker |-> TRUE]
  /\ UNCHANGED <<started, loadVars, fateVars, workVars, prefillGPUs, decodeGPUs,
                 role, epoch, drain, flips, state, pc>>

\* runUntil: the horizon is reached, requestStop; the clock then runs dry.
StopAtHorizon ==
  /\ AllowStop /\ started /\ ~stopped
  /\ stopped' = TRUE
  /\ UNCHANGED <<started, loadVars, poolVars, fateVars, workVars, state, pc>>

\* runSim: the clock has run dry, requestStop.
StopAtQuiescence ==
  /\ Quiescent /\ ~stopped
  /\ stopped' = TRUE
  /\ UNCHANGED <<started, loadVars, poolVars, fateVars, workVars, state, pc>>

\* Run, RunUntil and Stop return.
Terminated == Quiescent /\ stopped /\ UNCHANGED vars

-----------------------------------------------------------------------------
ChainStep(c) ==
  \/ Exit(c) \/ Retire(c)
  \/ Admit(c) \/ Reject(c) \/ PrefillDone(c) \/ HandOff(c)
  \/ TakeHandoff(c) \/ Abandon(c) \/ Complete(c) \/ DecodeToken(c)

Next ==
  \/ Start
  \/ Arrive
  \/ \E c \in Chain : ChainStep(c)
  \/ ResizeToPrefill
  \/ ResizeToDecode
  \/ \E w \in Worker : DrainDone(w)
  \/ Stop
  \/ StopAtHorizon
  \/ StopAtQuiescence
  \/ Terminated

Spec == Init /\ [][Next]_vars

\* Every callback on the clock fires: the clock pops the earliest event, and
\* each callback re-arms itself a finite delay away.  Nobody must flip or stop.
Fairness ==
  /\ WF_vars(Start)
  /\ WF_vars(Arrive)
  /\ \A c \in Chain : WF_vars(ChainStep(c))
  /\ \A w \in Worker : WF_vars(DrainDone(w))
  /\ WF_vars(StopAtQuiescence)

FairSpec == Spec /\ Fairness

-----------------------------------------------------------------------------
(* Properties *)

RoleOrNone == Roles \cup {"none"}
PC == Ended \cup {"prefillStep", "prefill", "transfer", "decodeStep", "decode"}

\* The types of the groups of variables.
LoadOK ==
  /\ arrivalsDone \in BOOLEAN
  /\ arrived \in 0 .. MaxRequests
  /\ prompt \in [Request -> Nat]
  /\ maxOutput \in [Request -> Nat]
PoolsOK ==
  /\ prefillGPUs \in Seq(Worker) /\ decodeGPUs \in Seq(Worker)
  /\ role \in [Worker -> Roles]
  /\ stop \in [Worker -> BOOLEAN]
  /\ epoch \in [Worker -> 0 .. MaxFlips]
  /\ drain \in [Worker -> RoleOrNone]
  /\ flips \in 0 .. MaxFlips
FateOK ==
  /\ kvBlocks \subseteq Request \X Nat
  /\ finished \subseteq Request /\ rejected \subseteq Request
  /\ abandoned \subseteq Request
  /\ reg \in [Counter -> Nat]
WorkOK ==
  /\ generated \in [Request -> Nat]
  /\ queue \in Seq(Request) /\ decodeQueue \in Seq(Request)
  /\ job \in [Chain -> Request \cup {NoRequest}]
  /\ inflight \in Int
ChainsOK ==
  /\ state \in [Worker -> {"healthy", "busy", "draining", "failed"}]
  /\ pc \in [Chain -> PC]

\* Type invariant.
TypeOK ==
  /\ started \in BOOLEAN /\ stopped \in BOOLEAN
  /\ LoadOK /\ PoolsOK /\ FateOK /\ WorkOK /\ ChainsOK

Waiting == ToSet(queue)
Handed  == ToSet(decodeQueue)
Held    == {job[c] : c \in Chain} \ {NoRequest}
Resident == Held \cup Handed \cup abandoned

\* Every request that has arrived is in exactly one place: the admission queue
\* (in order of arrival), one chain, the hand-off queue, or one of its fates.
\* Across every order of pops, hand-offs, flips, zombie continuations and stops
\* no request is lost, duplicated, or served by two chains.
EachRequestOnce ==
  LET place == <<Waiting, Handed, Held, finished, rejected, abandoned>> IN
    /\ \A i, j \in 1 .. Len(queue) : i < j => queue[i] < queue[j]
    /\ \A i, j \in 1 .. Len(decodeQueue) : decodeQueue[i] = decodeQueue[j] => i = j
    /\ \A c, d \in Chain : job[c] = job[d] /\ job[c] # NoRequest => c = d
    /\ \A i, j \in 1 .. 6 : i # j => place[i] \cap place[j] = {}
    /\ UNION {place[i] : i \in 1 .. 6} = 1 .. arrived

\* The admission count (engine.go admit) counts each admitted request once, from
\* its admission on a prefill chain, through the hand-off queue, to its release.
InFlightExact == inflight = Cardinality(Held \cup Handed)

\* The KV pool holds exactly the prompts of the admitted requests that have not
\* finished, and never more than its capacity; an abandoned request keeps its own.
KVExact ==
  /\ kvBlocks = UNION {{r} \X (0 .. BlocksNeeded(prompt[r]) - 1) : r \in Resident}
  /\ Cardinality(kvBlocks) <= KVCapacity

\* engine.go canRetire: "once retireable, no event can create new work, so
\* retirement is final".  Once one chain has retired no request is queued or held,
\* by a chain of any generation, and none will arrive: it will not be missed.
RetirementFinal ==
  (\E c \in Chain : pc[c] = "retired") =>
    arrivalsDone /\ Waiting = {} /\ Handed = {} /\ Held = {}

\* A request has the tokens its place says: none before its first hand-off, one
\* in the hand-off queue, at least one and fewer than asked while it decodes, and
\* all it asked for, no more, when it finishes (one chain alone advances it).
OutputExact ==
  /\ \A r \in Waiting \cup rejected : generated[r] = 0
  /\ \A c \in Chain : pc[c] \in {"prefill", "transfer"} => generated[job[c]] = 0
  /\ \A r \in Handed : generated[r] = 1
  /\ \A c \in Chain : pc[c] = "decode" =>
       generated[job[c]] \in 1 .. maxOutput[job[c]] - 1
  /\ \A r \in finished : generated[r] = maxOutput[r]

\* The registry and the queue's drop count agree with what happened to the
\* requests: each completed, rejected or prefilled request is counted once.
MetricsExact ==
  /\ reg["completed"] = Cardinality(finished)
  /\ reg["rejections"] = Cardinality(rejected) /\ reg["dropped"] = reg["rejections"]
  /\ reg["prefillTokens"] = SumFunctionOnSet(prompt, finished \cup Resident)
  /\ reg["decodeTokens"] = SumFunctionOnSet(maxOutput, finished)

\* The pool and the registry keep their books through hand-offs, rejections, stops
\* and requests that two chains of one worker serve side by side.
AccountsExact == KVExact /\ MetricsExact

\* ResizePools conserves the workers: each is in one pool, once.
PoolsPartition ==
  LET all == prefillGPUs \o decodeGPUs IN
    /\ Len(all) = NumGPUs
    /\ ToSet(all) = Worker

\* The continuations a chain of each role can have.
Serves(kind, c) ==
  pc[c] \in (IF kind = "prefill" THEN {"prefillStep", "prefill", "transfer", "retired"}
                                 ELSE {"decodeStep", "decode", "retired"})

\* ResizePools "rebinds the role, and respawns exactly one new chain": while the
\* engine runs, a worker's role is its pool's, and its current chain (or the one
\* its pending drain will spawn) serves that role.
PoolsServe ==
  started /\ ~stopped =>
    \A w \in Worker :
      /\ role[w] = IF w \in ToSet(prefillGPUs) THEN "prefill" ELSE "decode"
      /\ IF drain[w] # "none" THEN drain[w] = role[w] /\ stop[w]
         ELSE ~stop[w] /\ Serves(role[w], <<w, epoch[w]>>)

\* disaggregated.go:7-8 "No second concurrent chain is ever created for the same
\* GPU": at most one chain of a worker has a request in service.
OneServingChain ==
  \A c, d \in Chain :
    c[1] = d[1] /\ job[c] # NoRequest /\ job[d] # NoRequest => c = d

\* After Stop or the horizon the clock runs dry: every chain, wherever it is,
\* sees the stop within a finite number of callbacks.
StopTerminates == stopped ~> Quiescent

-----------------------------------------------------------------------------
(* The inductive strengthening of the safety properties: see DisaggProofs. *)

\* A chain holds a request exactly while it prefills, transfers or decodes it.
JobMatchesPC ==
  \A c \in Chain :
    job[c] # NoRequest <=> pc[c] \in {"prefill", "transfer", "decode"}

\* A renewal of a stop channel, done or pending, was paid for by a flip.
EpochsPaid ==
  \A w \in Worker : epoch[w] + (IF drain[w] = "none" THEN 0 ELSE 1) <= flips

\* No chain has a stop channel its worker has not had yet.
EpochsBorn == \A c \in Chain : pc[c] # "unborn" => c[2] <= epoch[c[1]]

\* The arrival chain ends with the last request.
ArrivalsBounded == started /\ ~arrivalsDone => arrived < MaxRequests

\* Until Start nothing runs: no chain, no drain, no request.
NothingBeforeStart ==
  ~started => /\ arrived = 0
              /\ \A c \in Chain : pc[c] = "unborn"
              /\ \A w \in Worker : drain[w] = "none"

TypeInv ==
  /\ TypeOK
  /\ JobMatchesPC /\ EpochsPaid /\ EpochsBorn
  /\ ArrivalsBounded /\ NothingBeforeStart

-----------------------------------------------------------------------------
(* Refinement: what the engine promises its requests *)

\* A request's place in the engine, seen as a stage of its life.
StatusOf(r) ==
  CASE r > arrived                 -> "unborn"
    [] r \in Waiting               -> "waiting"
    [] r \in Held \cup Handed      -> "running"
    [] r \in finished              -> "done"
    [] r \in rejected              -> "refused"
    [] OTHER                       -> "abandoned"

Serving == INSTANCE ServingSpec WITH
  Capacity <- KVCapacity,
  Blocks   <- BlocksNeeded,
  closed   <- stopped,
  status   <- [r \in Request |-> StatusOf(r)],
  ask      <- [r \in Request |-> [prompt |-> prompt[r], output |-> maxOutput[r]]],
  tokens   <- generated

\* The disaggregated engine implements the promise: admission in order of
\* arrival, refusal only for want of blocks, exactly the tokens asked for, and
\* nothing abandoned unless the engine was stopped.
ImplementsServing == Serving!SSpec
=============================================================================
