----------------------------- MODULE DisaggWall -----------------------------
(***************************************************************************)
(* The disaggregated engine on the wall clock (clock.Real): each callback  *)
(* is a goroutine of its own and Stop and ResizePools run on the callers', *)
(* so the steps of different callbacks interleave, and those of several    *)
(* calls of Stop.  Disagg's callbacks are taken apart here wherever        *)
(* another one can come in between:                                        *)
(*                                                                         *)
(*   prefillStep   stop tests | Pop | admit, Allocate | Acquire, prefill   *)
(*   decodeStep    stop tests | Pop | step: stop test, finish or decode    *)
(*   canRetire     ... | in-flight count | lengths of the queues           *)
(*   stopWorker    test | close          flip   test | close, schedule     *)
(*   drain         stop test | new channel, spawn                          *)
(*                                                                         *)
(* What stays together commutes with the steps of the others: the token    *)
(* count of a request in hand is private; arrivalsDone never goes back and *)
(* after it the admission queue only shrinks; an admission count that is   *)
(* released a little later only makes a chain poll once more.              *)
(***************************************************************************)
EXTENDS Disagg

CONSTANTS
  MaxStops,    \* bound: calls of Stop
  MaxBusy      \* bound: requests that have arrived when Stop is called again

ASSUME StopsAssumption == MaxStops \in Nat /\ MaxBusy \in Nat

Caller == 1 .. MaxStops     \* the calls of Stop, numbered as they are made

VARIABLES
  stage,     \* where a chain is inside its callback; "out": between callbacks
  robbed,    \* history: requests whose blocks another Allocate evicted in the gap
  stopper,   \* a call of Stop: its phase, the workers to go, the one it tested
  resizer,   \* the call of ResizePools in flip: past its test of that worker
  renewing,  \* drain callbacks past their stop test
  panicked,  \* a closed channel was closed again: the process is gone
  raced      \* history: two calls, of Stop or flip, had one worker in hand at once

wallVars  == <<stage, robbed, stopper, resizer, renewing, panicked, raced>>
wVars     == <<vars, wallVars>>
callVars  == <<stopper, resizer, renewing, panicked, raced>>

NoWorker == 0
NoCaller == 0
Stage == {"out", "tested", "missed", "idle", "popped", "gap", "taken"}

WInit ==
  /\ Init
  /\ stage = [c \in Chain |-> "out"]
  /\ robbed = {}
  /\ stopper = [s \in Caller |-> [phase |-> "none", left |-> <<>>, tested |-> NoWorker]]
  /\ resizer = [worker |-> NoWorker, to |-> "none"]
  /\ renewing = {}
  /\ panicked = FALSE
  /\ raced = FALSE

\* A chain goes on inside its callback, or ends it with the idle poll.
Goes(c, s) == stage' = [stage EXCEPT ![c] = s]
Polls(c)   == Goes(c, "out") /\ UNCHANGED <<vars, robbed>>

OwnQueue(c) == IF pc[c] = "prefillStep" THEN queue ELSE decodeQueue

-----------------------------------------------------------------------------
(* The head of both chains *)

\* The stop tests, passed.
Test(c) ==
  /\ pc[c] \in {"prefillStep", "decodeStep"} /\ stage[c] = "out"
  /\ ~Drained(c)
  /\ Goes(c, "tested")
  /\ UNCHANGED <<vars, robbed>>

\* The stop tests, failed.
WExit(c) == stage[c] = "out" /\ Exit(c) /\ UNCHANGED <<stage, robbed>>

\* Pop finds nothing.
Miss(c) ==
  /\ stage[c] = "tested" /\ OwnQueue(c) = <<>>
  /\ Goes(c, "missed")
  /\ UNCHANGED <<vars, robbed>>

\* canRetire: the arrivals and the in-flight count.
Look(c) ==
  /\ stage[c] = "missed"
  /\ IF arrivalsDone /\ inflight = 0
     THEN Goes(c, "idle") /\ UNCHANGED <<vars, robbed>>
     ELSE Polls(c)

HandoffsEmpty == decodeQueue = <<>>     \* mutant: canRetire without the queue
BothEmpty == queue = <<>> /\ decodeQueue = <<>>

\* canRetire: then the lengths of the queues.
WRetire(c) ==
  /\ stage[c] = "idle"
  /\ IF BothEmpty
     THEN /\ pc' = [pc EXCEPT ![c] = "retired"]
          /\ Goes(c, "out")
          /\ UNCHANGED <<started, stopped, loadVars, poolVars, fateVars, workVars,
                         state, robbed>>
     ELSE Polls(c)

-----------------------------------------------------------------------------
(* The prefill chain *)

\* Mutant of Pop: the request is read and stays in the queue.
PopPeeks(c) ==
  /\ stage[c] = "tested" /\ pc[c] = "prefillStep" /\ queue # <<>>
  /\ job' = [job EXCEPT ![c] = Head(queue)]
  /\ Goes(c, "popped")
  /\ UNCHANGED <<started, stopped, loadVars, poolVars, fateVars, generated, queue,
                 decodeQueue, inflight, state, pc, robbed>>

Pop(c) ==
  /\ stage[c] = "tested" /\ pc[c] = "prefillStep" /\ queue # <<>>
  /\ job' = [job EXCEPT ![c] = Head(queue)]
  /\ queue' = Tail(queue)
  /\ state' = [state EXCEPT ![c[1]] = "busy"]
  /\ Goes(c, "popped")
  /\ UNCHANGED <<started, stopped, loadVars, poolVars, fateVars, generated,
                 decodeQueue, inflight, pc, robbed>>

\* The requests that hold blocks which are not pinned yet.
Unpinned ==
  {job[c] : c \in {d \in Chain : stage[d] = "gap"}} \cap {b[1] : b \in kvBlocks}

BlocksOf(R) == {b \in kvBlocks : b[1] \in R}
Room(held, r) == Cardinality(held) + BlocksNeeded(prompt[r]) <= KVCapacity

\* Allocate's sweep, as KVPoolSpec has it: unpinned requests lose their blocks when
\* there is no room, the first of them at least.
Swept(r, victims) ==
  /\ victims = {} <=> Fits(r) \/ Unpinned = {}
  /\ robbed' = robbed \cup victims

\* admit, and Allocate succeeds: the blocks are there, not pinned.
WAdmit(c) ==
  /\ stage[c] = "popped"
  /\ \E victims \in SUBSET Unpinned :
       LET r == job[c]  held == kvBlocks \ BlocksOf(victims) IN
         /\ Swept(r, victims)
         /\ Room(held, r)
         /\ kvBlocks' = held \cup ({r} \X (0 .. BlocksNeeded(prompt[r]) - 1))
  /\ inflight' = inflight + 1
  /\ Goes(c, "gap")
  /\ UNCHANGED <<started, stopped, loadVars, poolVars, generated, queue, decodeQueue,
                 job, finished, rejected, abandoned, reg, state, pc>>

\* admit, and Allocate fails, with what it has evicted: drop, poll, release.
WReject(c) ==
  /\ stage[c] = "popped"
  /\ \E victims \in SUBSET Unpinned :
       LET r == job[c]  held == kvBlocks \ BlocksOf(victims) IN
         /\ Swept(r, victims)
         /\ ~Room(held, r)
         /\ kvBlocks' = held
         /\ rejected' = rejected \cup {r}
  /\ reg' = [reg EXCEPT !["rejections"] = @ + 1, !["dropped"] = @ + 1]
  /\ job' = [job EXCEPT ![c] = NoRequest]
  /\ state' = [state EXCEPT ![c[1]] = "healthy"]
  /\ Goes(c, "out")
  /\ UNCHANGED <<started, stopped, loadVars, poolVars, generated, queue, decodeQueue,
                 inflight, finished, abandoned, pc>>

\* Acquire pins the request, whether or not its blocks are still there.
Acquire(c) ==
  /\ stage[c] = "gap"
  /\ reg' = [reg EXCEPT !["prefillTokens"] = @ + prompt[job[c]]]
  /\ pc' = [pc EXCEPT ![c] = "prefill"]
  /\ Goes(c, "out")
  /\ UNCHANGED <<started, stopped, loadVars, poolVars, workVars, kvBlocks, finished,
                 rejected, abandoned, state, robbed>>

WPrefillDone(c) == PrefillDone(c) /\ UNCHANGED <<stage, robbed>>
WHandOff(c)     == HandOff(c) /\ UNCHANGED <<stage, robbed>>

-----------------------------------------------------------------------------
(* The decode chain *)

\* Pop a hand-off.
Take(c) ==
  /\ stage[c] = "tested" /\ pc[c] = "decodeStep" /\ decodeQueue # <<>>
  /\ job' = [job EXCEPT ![c] = Head(decodeQueue)]
  /\ decodeQueue' = Tail(decodeQueue)
  /\ state' = [state EXCEPT ![c[1]] = "busy"]
  /\ Goes(c, "taken")
  /\ UNCHANGED <<started, stopped, loadVars, poolVars, fateVars, generated, queue,
                 inflight, pc, robbed>>

\* The first step(): stopped since the Pop, so the request is given up.
GiveUp(c) ==
  /\ stage[c] = "taken" /\ stopped
  /\ abandoned' = abandoned \cup {job[c]}
  /\ Release
  /\ job' = [job EXCEPT ![c] = NoRequest]
  /\ pc' = [pc EXCEPT ![c] = "aborted"]
  /\ Goes(c, "out")
  /\ UNCHANGED <<started, stopped, loadVars, poolVars, generated, queue, decodeQueue,
                 kvBlocks, finished, rejected, reg, state, robbed>>

\* The first step(): finished by its prefill, or the first decode step is scheduled.
FirstStep(c) ==
  /\ stage[c] = "taken" /\ ~stopped
  /\ UNCHANGED generated
  /\ IF IsFinished(job[c], generated[job[c]])
     THEN /\ Finish(job[c])
          /\ job' = [job EXCEPT ![c] = NoRequest]
          /\ state' = [state EXCEPT ![c[1]] = "healthy"]
          /\ UNCHANGED pc
     ELSE /\ pc' = [pc EXCEPT ![c] = "decode"]
          /\ UNCHANGED <<finished, reg, kvBlocks, inflight, job, state>>
  /\ Goes(c, "out")
  /\ UNCHANGED <<started, stopped, loadVars, poolVars, queue, decodeQueue, rejected,
                 abandoned, robbed>>

WDecode(c) ==
  /\ Abandon(c) \/ Complete(c) \/ DecodeToken(c)
  /\ UNCHANGED <<stage, robbed>>

-----------------------------------------------------------------------------
(* Arrivals, and the calls of Stop and ResizePools *)

WStart  == Start /\ UNCHANGED wallVars
WArrive == Arrive /\ UNCHANGED wallVars

\* Close w's channel a second time and the process panics.
Closes(w) == panicked' = stop[w]

\* The worker that some call of Stop, other than s, has tested and will close.
InHandOf(w, s) == w # NoWorker /\ \E t \in Caller \ {s} : stopper[t].tested = w

\* Stop: requestStop, which does nothing when the engine has been stopped before.  The
\* call goes on all the same.
StopRequest(s) ==
  /\ AllowStop /\ started /\ stopper[s].phase = "none"
  /\ \A t \in Caller : t < s => stopper[t].phase # "none"
  /\ stopped => arrived <= MaxBusy
  /\ stopped' = TRUE
  /\ stopper' = [stopper EXCEPT ![s].phase = "requested"]
  /\ UNCHANGED <<started, loadVars, poolVars, fateVars, workVars, state, pc,
                 stage, robbed, resizer, renewing, panicked, raced>>

\* Stop: copy the pool lists under e.mu, which a resize holds throughout.
StopCopy(s) ==
  /\ stopper[s].phase = "requested" /\ resizer.worker = NoWorker
  /\ stopper' = [stopper EXCEPT ![s] = [phase |-> "stopping", tested |-> NoWorker,
                                        left |-> prefillGPUs \o decodeGPUs]]
  /\ UNCHANGED <<vars, stage, robbed, resizer, renewing, panicked, raced>>

\* stopWorker, without e.mu: the test.
StopTest(s) ==
  /\ stopper[s].phase = "stopping" /\ stopper[s].tested = NoWorker /\ stopper[s].left # <<>>
  /\ LET w == Head(stopper[s].left) IN
       /\ IF stop[w] THEN stopper' = [stopper EXCEPT ![s].left = Tail(@)]
                     ELSE stopper' = [stopper EXCEPT ![s].tested = w]
       /\ raced' = (raced \/ (~stop[w] /\ (w = resizer.worker \/ InHandOf(w, s))))
  /\ UNCHANGED <<vars, stage, robbed, resizer, renewing, panicked>>

\* stopWorker: the close.
StopClose(s) ==
  /\ stopper[s].tested # NoWorker
  /\ Closes(stopper[s].tested)
  /\ stop' = [stop EXCEPT ![stopper[s].tested] = TRUE]
  /\ stopper' = [stopper EXCEPT ![s].left = Tail(@), ![s].tested = NoWorker]
  /\ UNCHANGED <<started, stopped, loadVars, fateVars, workVars, state, pc, prefillGPUs,
                 decodeGPUs, role, epoch, drain, flips, stage, robbed, resizer,
                 renewing, raced>>

\* ResizePools takes e.mu; the last worker of a pool is moved.
MayResize(from, floor) ==
  /\ CallerFlips /\ resizer.worker = NoWorker
  /\ Len(from) > floor

\* Mutant of FlipTest: the test is left out.
FlipTestOmitted(w, to) == resizer' = [worker |-> w, to |-> to] /\ UNCHANGED flips

\* flip: the test; a worker whose channel is closed is left as it is.
FlipTest(w, to) ==
  IF stop[w] THEN UNCHANGED resizer /\ flips' = flips + 1
  ELSE resizer' = [worker |-> w, to |-> to] /\ UNCHANGED flips

\* One iteration of a loop of ResizePools: the list is edited, flip is entered.
ResizeTest ==
  /\ \/ /\ MayResize(decodeGPUs, MinDecodeGPUs)
        /\ FlipTest(Last(decodeGPUs), "prefill")
        /\ decodeGPUs' = Front(decodeGPUs)
        /\ prefillGPUs' = Append(prefillGPUs, Last(decodeGPUs))
     \/ /\ MayResize(prefillGPUs, MinPrefillGPUs)
        /\ FlipTest(Last(prefillGPUs), "decode")
        /\ prefillGPUs' = Front(prefillGPUs)
        /\ decodeGPUs' = Append(decodeGPUs, Last(prefillGPUs))
  /\ raced' = (raced \/ InHandOf(resizer'.worker, NoCaller))
  /\ UNCHANGED <<started, stopped, loadVars, fateVars, workVars, state, pc, role, stop,
                 epoch, drain, stage, robbed, stopper, renewing, panicked>>

\* flip: the close, the new role, the drain.
ResizeClose ==
  /\ resizer.worker # NoWorker
  /\ LET w == resizer.worker IN
       /\ Closes(w)
       /\ state' = [state EXCEPT ![w] = "draining"]
       /\ stop' = [stop EXCEPT ![w] = TRUE]
       /\ role' = [role EXCEPT ![w] = resizer.to]
       /\ drain' = [drain EXCEPT ![w] = resizer.to]
  /\ flips' = flips + 1
  /\ resizer' = [worker |-> NoWorker, to |-> "none"]
  /\ UNCHANGED <<started, stopped, loadVars, fateVars, workVars, pc, prefillGPUs,
                 decodeGPUs, epoch, stage, robbed, stopper, renewing, raced>>

\* The drain callback: the stop test, failed: the worker is given up.
DrainFails(w) ==
  /\ drain[w] # "none" /\ w \notin renewing /\ stopped
  /\ DrainDone(w)
  /\ UNCHANGED wallVars

\* The drain callback: the stop test, passed.
DrainTest(w) ==
  /\ drain[w] # "none" /\ w \notin renewing /\ ~stopped
  /\ renewing' = renewing \cup {w}
  /\ UNCHANGED <<vars, stage, robbed, stopper, resizer, panicked, raced>>

\* The drain callback: a fresh channel and one new chain, even if stopped since.
DrainRenews(w) ==
  /\ w \in renewing
  /\ renewing' = renewing \ {w}
  /\ drain' = [drain EXCEPT ![w] = "none"]
  /\ state' = [state EXCEPT ![w] = "healthy"]
  /\ stop' = [stop EXCEPT ![w] = FALSE]
  /\ epoch' = [epoch EXCEPT ![w] = @ + 1]
  /\ pc' = [pc EXCEPT ![<<w, epoch'[w]>>] =
              IF drain[w] = "prefill" THEN "prefillStep" ELSE "decodeStep"]
  /\ UNCHANGED <<started, stopped, loadVars, fateVars, workVars, prefillGPUs, decodeGPUs,
                 role, flips, stage, robbed, stopper, resizer, panicked, raced>>

\* Nothing runs any more.
AllQuiet ==
  /\ Quiescent
  /\ resizer.worker = NoWorker
  /\ \A s \in Caller : stopper[s].phase # "requested" /\ stopper[s].left = <<>>

-----------------------------------------------------------------------------
WChainStep(c) ==
  /\ \/ Test(c) \/ WExit(c) \/ Miss(c) \/ Look(c) \/ WRetire(c)
     \/ Pop(c) \/ WAdmit(c) \/ WReject(c) \/ Acquire(c)
     \/ WPrefillDone(c) \/ WHandOff(c)
     \/ Take(c) \/ GiveUp(c) \/ FirstStep(c) \/ WDecode(c)
  /\ UNCHANGED callVars

StopStep(s) == StopCopy(s) \/ StopTest(s) \/ StopClose(s)

WNext ==
  \/ /\ ~panicked
     /\ \/ WStart
        \/ WArrive
        \/ \E c \in Chain : WChainStep(c)
        \/ \E s \in Caller : StopRequest(s) \/ StopStep(s)
        \/ ResizeTest
        \/ ResizeClose
        \/ \E w \in Worker : DrainFails(w) \/ DrainTest(w) \/ DrainRenews(w)
  \/ (panicked \/ AllQuiet) /\ UNCHANGED wVars

WSpec == WInit /\ [][WNext]_wVars

\* Timers fire, goroutines go on, and a call once made runs to its end.
WFairness ==
  /\ WF_wVars(WStart /\ ~panicked)
  /\ WF_wVars(WArrive /\ ~panicked)
  /\ \A c \in Chain : WF_wVars(WChainStep(c) /\ ~panicked)
  /\ \A s \in Caller : WF_wVars(StopStep(s) /\ ~panicked)
  /\ WF_wVars(ResizeClose /\ ~panicked)
  /\ \A w \in Worker :
       WF_wVars((DrainFails(w) \/ DrainTest(w) \/ DrainRenews(w)) /\ ~panicked)

WFairSpec == WSpec /\ WFairness

-----------------------------------------------------------------------------
(* Properties.  EachRequestOnce and OutputExact of Disagg hold here too. *)

\* Between Pop and admit a request is in a chain's hand and in no count.
Admitted == {job[c] : c \in {d \in Chain : stage[d] # "popped"}} \ {NoRequest}

\* The books under interleaved goroutines: the admission count counts the admitted
\* requests once each; the pool is never over its capacity, and what it holds is the
\* prompts of the admitted and abandoned requests, save those that lost theirs between
\* Allocate and Acquire (engine.go:373-377); the registry agrees with the requests.
WallAccounts ==
  LET served == Admitted \cup Handed \cup abandoned
      inGap  == {job[c] : c \in {d \in Chain : stage[d] = "gap"}}
  IN  /\ inflight = Cardinality(Admitted \cup Handed)
      /\ kvBlocks = UNION {{r} \X (0 .. BlocksNeeded(prompt[r]) - 1) : r \in served \ robbed}
      /\ Cardinality(kvBlocks) <= KVCapacity
      /\ reg["completed"] = Cardinality(finished)
      /\ reg["rejections"] = Cardinality(rejected) /\ reg["dropped"] = reg["rejections"]
      /\ reg["prefillTokens"] =
           SumFunctionOnSet(prompt, finished \cup (served \ inGap))
      /\ reg["decodeTokens"] = SumFunctionOnSet(maxOutput, finished)

\* engine.go:277-278 "once retireable, no event can create new work, so retirement is
\* final".  What is left of it here: a chain that has retired has missed no arrival and
\* no request in the admission queue, only one in another chain's hand or handed over;
\* and everything is quiet, without a stop, only when every request has settled.  (A
\* hand-off whose decode chains have all retired keeps its prefill chain polling.)
OnlyHandsMissed ==
  /\ (\E c \in Chain : pc[c] = "retired") => arrivalsDone /\ Waiting = {}
  /\ AllQuiet /\ ~stopped => finished \cup rejected = 1 .. arrived

\* What is left of "double-close safe" (disaggregated.go:207): stopWorker and flip test a
\* channel before they close it, and no channel is closed twice, however often Stop is
\* called and whichever calls, drains and chains have gone before, unless two calls, of
\* Stop or flip, had the same worker in hand at the same time, tested and not yet closed.
PanicNeedsRace == panicked => raced

\* After Stop everything comes to rest: each call itself, every chain wherever it was
\* inside its callback, a resize and every drain, also one that had passed its stop
\* test and installs an open channel after Stop has closed them all.
WStopTerminates == stopped ~> AllQuiet \/ panicked
=============================================================================
