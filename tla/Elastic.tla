------------------------------ MODULE Elastic ------------------------------
(***************************************************************************)
(* The elastic engine (pkg/elastic/elastic.go): the disaggregated engine   *)
(* with a monitor that ticks on the engine's clock, reads the registry,    *)
(* asks the policy, and moves workers between the pools.  It composes      *)
(* Disagg, whose ResizePools only the monitor calls here, with             *)
(* ElasticPolicy, whose pools are Disagg's.                                *)
(*                                                                         *)
(* A flip's drain takes 500us and the monitor's interval is 250ms, so a    *)
(* tick finds no drain pending: Tick says so.  That spaces the flips and   *)
(* the policy keeps the floors, so the runs switch off Disagg's own        *)
(* assumptions about the caller of ResizePools (MonitorIsCaller).          *)
(***************************************************************************)
EXTENDS Disagg

CONSTANTS
  Hysteresis,    \* of the policy, in monitor intervals
  Cooldown,      \* of the policy, in monitor intervals
  Latencies,     \* the p99s the registry may show: [ttft, tpot], percent of target
  MinCompleted   \* evaluate: the completions below which there is no signal (8)

ASSUME MonitorAssumption ==
  /\ Hysteresis \in Nat /\ Cooldown \in Nat /\ MinCompleted \in Nat
  /\ Latencies \subseteq [ttft : Nat, tpot : Nat]

VARIABLES
  monitor,    \* the tick chain: "off", "armed", "retired" or "stopped"
  closed,     \* ElasticEngine.closed, and its stop channel
  sinceFlip,  \* the policy's state
  pending,
  sincePend

policyVars  == <<sinceFlip, pending, sincePend>>
elasticVars == <<vars, monitor, closed, policyVars>>

\* evaluate: the floors of its Signal.
FloorPrefill == 1
FloorDecode  == IF NumGPUs \div 4 > 1 THEN NumGPUs \div 4 ELSE 1

Policy == INSTANCE ElasticPolicy WITH
  MinPrefill <- FloorPrefill,
  MinDecode  <- FloorDecode,
  Gaps       <- {1},
  Signals    <- {},
  pre        <- Len(prefillGPUs),
  dec        <- Len(decodeGPUs)

\* scheduleTick's test: nothing arrives, runs or waits.
EngineIdleSoon == arrivalsDone /\ queue = <<>>     \* mutant: InFlight is not asked
EngineIdle == arrivalsDone /\ inflight = 0 /\ queue = <<>>

\* No callback is left on the clock.
AllQuiescent == Quiescent /\ monitor # "armed"

-----------------------------------------------------------------------------
EInit ==
  /\ Init
  /\ monitor = "off" /\ closed = FALSE
  /\ sinceFlip = Cooldown /\ pending = "none" /\ sincePend = 0

\* The engine's chains, then the first tick.
EStart ==
  /\ Start
  /\ monitor' = "armed"
  /\ UNCHANGED <<closed, policyVars>>

\* Everything on the clock that is not the monitor's, and RunUntil's horizon,
\* which stops the engine and not the monitor.
EngineStep ==
  /\ \/ Arrive
     \/ \E c \in Chain : ChainStep(c)
     \/ \E w \in Worker : DrainDone(w)
     \/ StopAtHorizon
  /\ UNCHANGED <<monitor, closed, policyVars>>

\* Stop: once, the monitor's channel and then the engine.
EStop ==
  /\ ~closed
  /\ closed' = TRUE
  /\ Stop
  /\ UNCHANGED <<monitor, policyVars>>

\* evaluate, with enough completions: the policy decides on the engine's own pools,
\* and a decision moves the worker before the callback ends.  MaxFlips bounds it.
EvaluateAll(s) ==
  /\ reg["completed"] >= MinCompleted /\ flips < MaxFlips
  /\ \/ /\ ResizeToPrefill
        /\ Policy!Flip(1, s)
     \/ /\ ResizeToDecode
        /\ Policy!Flip(1, s)
     \/ /\ UNCHANGED vars
        /\ \/ Policy!Cool(1) \/ Policy!Hold(1, s) \/ Policy!Detect(1, s)
           \/ Policy!Wait(1, s) \/ Policy!AtFloor(1, s)

\* evaluate, too few completions for a signal (or the bound is reached).
NoSignal ==
  /\ reg["completed"] < MinCompleted \/ flips = MaxFlips
  /\ UNCHANGED vars
  /\ Policy!Older(1) /\ UNCHANGED pending

\* The tick's callback while the monitor runs: evaluate, then retire or re-arm.
Tick ==
  /\ monitor = "armed" /\ ~closed
  /\ \A w \in Worker : drain[w] = "none"
  /\ \/ \E l \in Latencies :
          EvaluateAll([ttft |-> l.ttft, tpot |-> l.tpot, depth |-> Len(queue)])
     \/ NoSignal
  /\ monitor' = IF EngineIdle THEN "retired" ELSE "armed"
  /\ UNCHANGED closed

\* The tick's callback after Stop.
TickStopped ==
  /\ monitor = "armed" /\ closed
  /\ monitor' = "stopped"
  /\ UNCHANGED <<vars, closed, policyVars>>

\* runSim: the clock has run dry, the monitor's chain included.
EStopAtQuiescence ==
  /\ AllQuiescent
  /\ StopAtQuiescence
  /\ UNCHANGED <<monitor, closed, policyVars>>

ETerminated == AllQuiescent /\ stopped /\ UNCHANGED elasticVars

ENext ==
  \/ EStart
  \/ EngineStep
  \/ EStop
  \/ Tick
  \/ TickStopped
  \/ EStopAtQuiescence
  \/ ETerminated

ESpec == EInit /\ [][ENext]_elasticVars

\* Every callback on the clock fires.
EFairness ==
  /\ WF_elasticVars(EStart)
  /\ WF_elasticVars(Arrive /\ EngineStep)
  /\ \A c \in Chain : WF_elasticVars(ChainStep(c) /\ EngineStep)
  /\ \A w \in Worker : WF_elasticVars(DrainDone(w) /\ EngineStep)
  /\ SF_elasticVars(Tick)
  /\ WF_elasticVars(TickStopped)
  /\ WF_elasticVars(EStopAtQuiescence)

EFairSpec == ESpec /\ EFairness

-----------------------------------------------------------------------------
(* Properties *)

\* scheduleTick looks at the admission queue and the in-flight count only, and yet
\* when the monitor retires nothing is left for it to do: no request is queued,
\* handed over or in service, on any chain, and none will arrive.
MonitorSeesTheEnd ==
  monitor = "retired" =>
    arrivalsDone /\ Waiting = {} /\ Handed = {} /\ Held = {}

\* Whatever signals it is shown and whatever the engine is doing meanwhile, the
\* monitor moves workers without losing one, leaves each pool a worker, and as many
\* as its floor if it had them; and a worker in a pool serves it, or will when its
\* drain is over (flips that overlap, of another caller, would break that).
PoolsKept ==
  /\ PoolsPartition /\ PoolsServe
  /\ Len(prefillGPUs) >= FloorPrefill /\ Len(decodeGPUs) >= 1
  /\ NumGPUs - NumPrefill >= FloorDecode => Len(decodeGPUs) >= FloorDecode

\* The horizon of RunUntil has stopped the engine, and nobody called Stop.
AtHorizon == stopped /\ ~closed /\ ~AllQuiescent

\* Run and Stop return, the monitor's chain being over too, and a run that nobody
\* stopped leaves no request queued, handed over or in service.
ElasticRunTerminates ==
  [](~AtHorizon) =>
    /\ <>(AllQuiescent /\ stopped)
    /\ <>[](closed \/ (Waiting = {} /\ Handed = {} /\ Held = {}))

\* elastic.go:100-102 "the chain also retires once the engine is quiescent (arrivals
\* done, nothing in flight or queued), so Sim runs reach the empty-queue state and
\* drain": once the horizon is reached, RunUntil drains the clock and returns.
RunUntilReturns == stopped ~> AllQuiescent
=============================================================================
