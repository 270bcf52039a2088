# A TLA+ development of pdserve

pdserve simulates and serves large-language-model requests on a set of GPUs, either *colocated* (every
GPU prefills and decodes) or *disaggregated* (a prefill and a decode pool, with an elastic monitor that
moves GPUs between them). This directory specifies its core in TLA+, model-checks it with TLC, and proves
the properties that matter most with TLAPS. Every definition is translated from the Go source under
`src/pkg`; `PROJECT.json` maps each one to its lines.

    tlc -config MCDisagg.cfg MCDisagg       model-check one run (see "Runs")
    tlapm DisaggProofs.tla                  check the proofs of one module

## 1. Inventory

Everything runs as **callbacks on a clock** (`clock.AfterFunc`). On the simulated clock callbacks run one
after another, in order of fire time; on the wall clock each runs on a goroutine of its own.

| component | state | operations | interacts with |
|---|---|---|---|
| simulated clock, `clock.go` | `now`, an event heap, `seq` | `AfterFunc`, its cancel function, `Advance`, `Steps`, `Run` | calls back everybody, with its lock released |
| KV-cache pool, `kvcache.go` | blocks, two indexes, a FIFO eviction order, pins | `Allocate` (with an eviction sweep), `Acquire`, `Release` | called by both engines |
| engine core, `engine.go` | admission queue, in-flight count, `arrivalsDone`, stop channel | arrival chain, `admit`, `canRetire`, `runSim`, `runUntil`, `finishRequest`, `allocateKV` | embedded in both engines |
| disaggregated engine, `disaggregated.go` | workers with role, state and stop channel; two pool lists; hand-off queue | `Start`, prefill chain, decode chain, `ResizePools`/`flip`, `Stop` | core, pool, clock, monitor |
| colocated engine, `colocated.go` | one chain per GPU: chunked prefill, stall, decode | `Start`, `workerStep`, `process`, `decodePhase` | core, pool, clock |
| flip policy, `policy.go` | last flip, pending pressure and since when | `Evaluate` | called by the monitor |
| elastic engine, `elastic.go` | the monitor's tick chain and its own stop channel | `Start`, `scheduleTick`, `evaluate`, `Run`, `RunUntil`, `Stop` | engine, policy, registry |
| request, admission queue, `scheduler.go` | tokens asked for and generated, time stamps; items, drop count | `Push`, `Pop`, `Drop`, `IsFinished`, `TTFTUS`, `E2EUS` | engines |
| metrics registry, `metrics.go` | counters, four histograms, a bounded log of requests | `Observe`, `Percentile`, `RecordRequest`, `Window`, `Snapshot` | written by engines, read by monitor |
| load generator, `load.go` | the load specification, a PRNG | `NextInterarrivalUS`, `makeRequest` | arrival chain |
| connectors, roofline runner | none | `TransferTimeUS`, `PrefillUS`, `DecodeUS` | the chains' delays |
| PRNG, types, CLI | little or none | pure functions, printing | |

What is hard in it, and the properties that answer it:

* **A continuation acts on state it did not read when it was scheduled.** A worker's chain is an endless
  series of callbacks, each of which looks at the stop channel the worker has *now*. Role flips close that
  channel and install a fresh one. Does any request get lost, duplicated, or served by two chains?
  (`EachRequestOnce`, `OutputExact`, `OneServingChain`, `PoolsKept`)
* **Release exactly once.** The admission count goes up in one callback and down in a later one, on another
  worker, after a hand-off, a rejection, a stop. It decides when the engine ends. (`InFlightExact`,
  `AccountsExact`)
* **Distributed termination.** Chains retire one by one on `arrivalsDone`, the in-flight count and the queues; one
  that retires early strands work, one that never retires keeps `Run` from returning. (`RetirementFinal`,
  `EveryRequestSettles`, `RunTerminates`, `RetiresPromptly`, `StopTerminates`, `MonitorSeesTheEnd`, `ElasticRunTerminates`)
* **Polling with a back-off.** Nothing wakes an idle chain: it polls, more and more slowly, also while workers change
  pools. What does that cost a request? (`LatencyBounded`, `ServiceExact`)
* **A loop over a slice that the loop shortens**, in `Allocate`. (`PoolExact`, `PinnedKeepsBlocks`,
  `SkipsAtMostEvicted`)
* **Determinism of the clock**: ties, timers set by callbacks, cancellation of the head.
  (`FiringOrder`, `NeverLate`, `CancelPrevents`, `EveryTimerFires`)
* **Control with memory**: cooldown and hysteresis interact over many evaluations. (`FlipsSpaced`,
  `FlipsSustained`, `FloorsKept`, `BacklogIsServed`)
* **Callbacks that interleave** on the wall clock: between a pop and its admission, inside `canRetire`, between
  `Allocate` and `Acquire`, between the test and the close of a channel, in `Stop` against another `Stop`, a flip or a drain.
  (`EachRequestOnce`, `WallAccounts`, `AccountsExact`, `OnlyHandsMissed`, `PanicNeedsRace`, `WStopTerminates`, `ChunksAddUp`, and, violated,
  `NoneLeftBehind`)
* **Order statistics**: the rank of a percentile among few samples, samples beyond the last bucket, a window over a
  log that was cut. (`PercentilesHonest`, `WindowExact`)

## 2. Modules

| module | models |
|---|---|
| `ServingSpec` | what any engine promises its requests: the abstract specification |
| `Disagg` | disaggregated engine on the engine core, with its flips and stops |
| `Timed` | EXTENDS `Disagg` and `Registry`: the same engine with its delays, its polls, its load and its metrics |
| `DisaggWall` | EXTENDS `Disagg`: the same engine with its callbacks, `Stop` and `ResizePools` taken apart, as on the wall clock |
| `Registry` | the metrics registry: histograms, percentiles, the log and its windows |
| `Colocated` | colocated engine on the same core, for both clocks |
| `KVPoolSpec`, `KVPool` | what the pool promises; the pool, its sweep step by step |
| `SimClock` | the simulated clock |
| `ElasticPolicy`, `FlipDiscipline` | the policy; the same with history variables and its properties |
| `Elastic` | EXTENDS `Disagg`, INSTANCEs `ElasticPolicy` over Disagg's pools, adds the monitor |
| `MC...` | constants for TLC, one module per checked module |
| `DisaggProofs`, `ComposedProofs` (`Timed` and `Elastic`), `WallProofs`, `ColocatedProofs`, `KVPoolProofs`, `SimClockProofs`, `FlipDisciplineProofs` | theorems and proofs |
| `Bookkeeping` | the lemmas about sums, blocks, queues and places that both engines' proofs use |

Each state variable names its Go field in a comment beside it. Definitions marked *mutant* are not part of
a specification: each is a plausible slip in the definition below it, and the runs are sensitive to it.

### Disagg

A worker's callbacks form a *chain*. `flip` starts a new one on a fresh stop channel, so a chain is
identified by `<<worker, generation of the stop channel>>` and `epoch[w]` is the generation the worker has.
`pc[c]` is the continuation the chain has on the clock and `job[c]` the request captured by that closure:
`prefillStep` (pop, admit, allocate, prefill), `prefill` (prefill is running), `transfer` (KV transfer is
running), `decodeStep` (pop a hand-off), `decode` (a decode step is running); `retired`, `exited` (saw a
stop flag), `aborted` (gave up a request when stopped) are ends. Each action is one whole callback:

| action | code |
|---|---|
| `Start`, `Arrive` | `Start`, `runArrivalChain` |
| `Exit`, `Retire`, `Admit`, `Reject` | `prefillStep` / `decodeStep`, by branch |
| `PrefillDone`, `HandOff` | the two continuations of `prefillStep`; the second pushes the request and its release func |
| `TakeHandoff`, `DecodeToken`, `Complete`, `Abandon` | `decodeStep` and its recursive `step`, by branch |
| `ResizeToPrefill`, `ResizeToDecode`, `DrainDone` | one iteration of each loop of `ResizePools` with `flip`; the drain callback |
| `Stop`, `StopAtHorizon`, `StopAtQuiescence` | `Stop`, `runUntil`, `runSim` |

Time is abstracted: a pending callback fires at some later step, in any order. That includes every order the
clock can produce, whatever the roofline model and the connectors compute, so safety properties carry over.
An idle poll changes no state and is a stuttering step. `finished`, `rejected` and `abandoned` are history.

The pool is represented by its set of blocks only. The disaggregated engine allocates and pins in one
callback and releases both together, so every block is pinned, an eviction sweep finds no victim, and
`Allocate` comes down to "does it fit"; `KVPool` models the sweep itself.

### Timed

`Timed` says *when*. Each action conjoins one of `Disagg` with `Fires` (its chain is due, and nothing is due before it) and
`Rearm` (the delay of the next continuation, and the idle delay its closure holds): 200us after a request, the
prefill, transfer or decode time in between, and `nextIdle` or, on the decode side, `nextIdle` of `backoffStep` for a
poll, which is a step here (`PrefillPoll`, `DecodePoll`). `NextArrival` is the arrival chain with the load window, the rate and the bursts of `load.go`;
what the PRNG draws is a choice (`Draws`, `PromptTokens`, `OutputTokens`). `TResize` calls `ResizePools` at given times and `TDrainDone`
ends the drain `DrainTime` later. `Record` is `finishRequest`: the registry observes TTFT, TPOT and E2E. The unit of time is 200us (the
idle poll), and durations are cut to whole units as `usDur` cuts them to nanoseconds. Events of one instant fire in any
order, more than the clock allows. Nobody stops the engine early: `TNext` has no `Stop`, which is `Disagg`'s subject.

### Registry

A registry is a value. Samples are fractions, so that the code's divisions stay exact; `Percentile` is the landing bucket
with its interpolation, `Trim` the bounded log, `InWindow` the places in the log of a window's records, `SampleAt` the index into their sorted samples. Counters of requests and tokens are `reg` of
`Disagg`. A histogram's sum, minimum and maximum feed accessors that nothing here calls.

### DisaggWall

On the wall clock a chain can be interrupted inside its callback: `stage[c]` is where. The steps are separated wherever another
goroutine's step may change what is read or see what is written: stop tests, `Pop`, `admit` with `Allocate`, `Acquire`, the first
`step()` of a decode; in `canRetire` the arrivals with the in-flight count (which are read in this order; `arrivalsDone` never goes
back) and then the queues; in `stopWorker` and `flip` the test and the close; in the drain callback the test and the new
channel. `Stop` and `ResizePools` run on callers' goroutines; `ResizePools` holds `e.mu` throughout, `Stop` only while it copies the
lists. `Stop` may be called up to `MaxStops` times, one call after another or at once (`stopper[s]` is the progress of call `s`): `requestStop` closes the
core's channel for the first only, but each call goes on to the workers' channels. `robbed` are the requests whose blocks another `Allocate` evicted before they were pinned: which of several victims the sweep takes is
left open, as in `KVPoolSpec`. A second close of a channel sets `panicked`, after which nothing happens. `raced` is history: two calls, of `Stop` or of `flip`, had one
worker in hand at once, tested and not yet closed.

### Colocated

`workerStep` is several critical sections: it pops; then it asks whether to retire (`missed`), or it admits what it popped (`popped`) and
allocates the blocks, pins them (`gap`) and, past a stop test, schedules the first chunk (`pinned`). With `RealClock = FALSE` no other callback may run while
a worker is at one of these points (`Alone`), as on the simulated clock. With `RealClock = TRUE` any may; then an `Allocate` finds victims, the requests
in the gap, and `robbed` are those that lost their blocks there, as in `DisaggWall`. `prefill` is a chunk in
progress, `stalled` the wait behind another request's chunk, `decode` a decode step. `remaining` is the closure's
count of tokens to prefill. `process` and `decodePhase` are called from several places; `DecodePhase` is
written once and used by each.

### KVPool

Each method holds the mutex throughout and is one step, save `Allocate`, whose sweep takes a step per
iteration. Go evaluates `range p.order` once and then reads the backing array, which `evictLocked` shifts in
place; `call.view` is that array and `Shifted` is what the `append(order[:i], order[i+1:]...)` leaves in it. Block
contents are left out; block ids are numbers from `nextID`.

### SimClock

The heap is the set of its events with `Less`; `First` is its root. `Fire(e)` is `Advance` with the canceled events it
skips on the way. `AfterFunc` and cancel functions may be called at any moment, which covers calls from callbacks.
`Steps(n)` is `n` times `Advance`.

### ElasticPolicy, FlipDiscipline, Elastic

The policy compares two ages (since the last flip, since the pressure first showed) with two thresholds and
nothing else, so an age stops growing at its threshold, which makes the state finite without a bound on
time. Latencies are percentages of their targets; only their order relative to 40, 50, 100 and each other
matters. `FlipDiscipline` records what really happened (signals, ages, gaps between flips) apart from what
the policy remembers. In `Elastic` a tick shows the policy any of the constant `Latencies` and the true queue
depth, once `MinCompleted` requests have completed. A drain lasts 500us and ticks are 250ms apart, so a tick
finds no drain pending: that is the one timing fact `Tick` assumes, and it is what spaces flips. What `Disagg` may assume
of its caller is off in its runs (`MonitorIsCaller`): the policy has to see to it.

## 3. Runs

Twelve runs: nine that pass, three in which the code departs from what its comments say.

| run | bounds | shows |
|---|---|---|
| `disagg` | 2 GPUs, 2 requests of 1 or 2 blocks and 1 or 3 tokens, 2 blocks, 2 flips, stop at any time; 158,771 states | Under *any* caller of `ResizePools` (no floors, overlapping flips, an emptied pool) each request is in one place, admissions, blocks, tokens and metrics are exact, retirement is final; the engine implements `ServingSpec`; after a stop the clock runs dry |
| `timed` | 3 GPUs, 3 requests of 2 blocks and 1 or 3 tokens, 4 blocks, a flip at 9 and 17, arrivals together or a mean apart, a burst; polls 1 to 5, drain 3; the two flips at one time or apart, no pool emptied; 124,831 states | The wait that polling adds is bounded in both stages, across flips; service takes its own time; every chain retires within one longest poll of the last work; percentiles and windows report what happened |
| `disagg_interleaved` | wall clock: 2 GPUs, 2 requests of 2 blocks and 2 tokens, 2 blocks, 1 flip, `Stop` at any time, and again, or twice at once, in an engine without requests; 195,050 states | Places, admissions, blocks and metrics add up; what retirement can miss; a double close needs two calls, `Stop` or `flip`, at one worker at once; after the first `Stop` everything comes to rest |
| `colocated` | 2 GPUs, 3 requests of 1, 2 or 4 blocks, 3 blocks, chunks of 32, 1 or 3 tokens, stop at any time; 71,213 states | The same promise; every request settles unless a stop cuts the run short; every run ends |
| `colocated_interleaved` | the same, wall clock; 390,467 states | Places, admissions, blocks, chunks and metrics add up under interleaved callbacks, also between `Allocate` and `Acquire` |
| `kvpool` | 3 requests (symmetric), capacity 3, sizes 1 and 2, 6 block ids, 2 pins; 25,455 states | Capacity, agreement of both indexes and the order, pinned requests keep their blocks, a failed sweep has skipped no more than it evicted, refinement of `KVPoolSpec` |
| `clock` | 4 timers, delays -1, 0, 1, 2, horizon 1 | Firing order, no late timer, cancellation, no lost timer |
| `policy` | 4 GPUs, floors 1 and 2, hysteresis 2, cooldown 3, gaps 1 and 2, signals on each side of each threshold | Spacing, floors, persistence, and that a lasting backlog is served |
| `elastic` | 3 GPUs, 2 requests of 2 blocks, 2 flips, 4 latency patterns, stop at any time; 63,566 states | The monitor retires only at the end, pools are kept whole, served and above their floors; `Run` and `Stop` return, with nothing left to serve |
| `disagg_zombie_chain` (violation) | as `timed`, one flip at a time | Below, 1 |
| `colocated_stranded` (violation) | wall clock, 2 requests | Below, 2 |
| `elastic_horizon` (violation) | 2 GPUs, 1 request | Below, 3 |

**Why the bounds are enough.** The smallest prompt the load generator makes is 32 tokens, so a block of 32 with prompts
32 and 33 gives exactly one block, and one block and a bit; in `colocated` 97 adds a prompt of four chunks
that can never fit the three blocks. One output token is finished by prefill itself, three need two decode steps.
Two requests and two blocks reach both sides of the pool's limit, with the second request admitted, or
rejected, before or after the first is done. Two flips let a worker move and move back, or be flipped again during its own drain, which
is where generations of chains meet. Pools of two and one let a flip empty a pool or not. In the clock, three
timers make every order of a tie and a third event, and the fourth a cancellation of a head in front of them.
In the pool three requests are what it takes for an in-place removal to skip an entry with another behind it. On the
wall clock one request fills the pool, so that two prefill chains fight for the gap before `Acquire`, and one flip puts a drain, a second
generation and `Stop` side by side; two calls of `Stop` give every pair of callers that can have one worker in hand. A repeated `Stop` touches the workers' channels
only, and what it does to them depends on no request, so it is called in an engine that no request has reached (`MaxBusy = 0`), against idle chains, a flip and its drain. With `MaxBusy = 2`, two calls
beside two requests, the invariants have 1,112,562 states and hold; liveness takes longer there than the runs are meant to. In `timed` three requests and a pool for two give waiting behind another in each stage and a rejection; the
drain is longer than the shortest poll and shorter than the longest, which decides whether an old chain comes back; histograms of three
or four buckets are exceeded by the longest latencies, and a log of two records is cut by the third. Deadlock is
checked everywhere: `Terminated`, its counterparts, and a panicked process are the only ways to stop.

**Fairness.** `WF` on each chain, drain and arrival says that a callback on the clock fires: `Advance` pops
the least event, every callback re-arms at a finite delay, and `Run` advances until the clock is empty.
`Colocated` and `Elastic` use `SF` where another worker's poll, or a call of `Run`, takes real steps that
interleave: a callback's fire time is fixed when it is scheduled, so polls cannot postpone it. `DisaggWall` asks `WF` of each
chain's goroutine, of the drains, and of a call of `Stop` or `ResizePools` once it is under way (an idle poll there is a cycle of steps, and each chain is fair
by itself, so no other can postpone it). Nothing is assumed about
who flips, stops, cancels or what the monitor sees. `timed` states bounds on time as invariants and needs none.

### Divergences found

1. *Zombie chains.* `flip` installs a fresh stop channel after 500us, but a continuation of the old chain that fires later (an
   idle poll is up to 10ms, a transfer or a decode may take longer) reads the *new* channel, finds it open,
   and goes on. A GPU then has two chains serving two requests, also with the delays the clock gives (`timed`'s model); `disaggregated.go:7-8` says it
   cannot. No request is lost or duplicated by it (`disagg`): the harm is to the simulated timing.
2. *Stranded request, wall clock only.* In the colocated engine `workerStep` asks `canRetire()` without the queue. An arrival that lands between the
   `Pop` and that test, and is the last one, finds every worker retired.
3. *RunUntil does not return.* It stops the engine, not the monitor, and drains the clock. If a request is still queued the
   monitor never sees quiescence and re-arms for ever. The counterexample ends in stuttering because a tick that re-arms and
   decides nothing leaves the state as it is: the ticking itself goes on.

Properties that pass, and whose statement is weaker than a comment because the code is:

* `PanicNeedsRace`: the comment calls `Stop` "double-close safe" (`disaggregated.go:207`). `requestStop` is, but `Stop` ignores its answer, and every call tests each worker's channel
  and then closes it, without `e.mu`. Two concurrent calls of `Stop`, with no flip at all, both find a channel open; the second close panics. So do a `Stop` and a flip. The model reaches both. (Two flips hold
  `e.mu`; `elastic.Stop` returns when it has been called before.) What holds is that calls which do not overlap at a worker close nothing twice.
* `OnlyHandsMissed`: "retirement is final" (`engine.go:277-278`). On the wall clock a decode chain can look while the last request is in a prefill chain's
  hand, popped and not yet counted, and retire. If all do, the request is handed over to nobody, and the prefill chain polls for ever.
* `WallAccounts`, and `AccountsExact` in `Colocated`: `allocateKV` "pins them against eviction" (`engine.go:365-366`), in a critical section after the one that allocates. In between another worker's
  `Allocate` may evict the new blocks, in either engine; the request runs on without (`robbed`) and is released as usual. The properties allow just those blocks to be missing.
* `InFlightExact`: the release func "must be called exactly once" (`engine.go:218-219`). The continuation of a KV transfer tests no stop flag: after a stop it hands the request, with its
  release func, to chains that exit at the stop, and its admission stays for ever (`disaggregated.go:284`). The property counts it as admitted; what it excludes is a second release.
* `AccountsExact`: a request given up at a stop is released from the count, but its blocks stay in the pool: decode, and a chunk or stall of the colocated engine, end without `pool.Release`
  (`disaggregated.go:310`, `colocated.go:137`, `colocated.go:162`). No comment says that they are freed; the property states it as it is, of those requests and of no other.
* `SkipsAtMostEvicted`: `Allocate` "returns an error if the pool cannot satisfy it" (`kvcache.go:92-93`), but the sweep skips the entry after each one it evicts and
  may fail with unpinned requests left; on the simulated clock the engines never meet this, as all their blocks are pinned.
* `PercentilesHonest`: the monitor reads percentiles of the whole run where `policy.go:20` says "recent-window p99" and `metrics.go:306-307` says the monitor uses
  `Window` (only a test calls it): below a hundred completions its p99 is the slowest request there ever was.

Seen while modelling, without a property of their own: a second flip during a drain moves a worker between the
lists but not in fact (`disaggregated.go:361`; under the monitor `PoolsKept` holds); `Release` ignores the pin count (`kvcache.go:73`); `Run` can fire an event past its horizon when
the head is canceled (`clock.go:76`), and does not drain beyond it as its comment says (`clock.go:88-90`); the second half
of the steal guard is always true where it is asked (`policy.go:103`); a request's TPOT counts the wait for a decode worker and divides by
the first token too (`engine.go:363`); the p99 of `Window` rounds its index down and, below a hundred and one samples, is never the slowest
(`metrics.go:344`), where the histogram's is; the last arrival may come after the load window, with no load 11.5 days after (`load.go:100`).

## 4. Proofs

Each theorem holds for all values of the constants that satisfy the named assumptions beside them
(`ASSUME`), which TLC evaluates in the runs; what a theorem assumes besides is in its statement. The prover does not know `^`, so `BurstAssumption` says of `Bursting(n)` the one
thing used of it, that it is a natural number. Each inductive invariant was checked by TLC before it was proved.

### The lemmas they share: `Bookkeeping`

* *Sums over sets.* `SumFunctionOnSet` of the community modules folds over a set, by a recursive function on its subsets that picks an
  element with `CHOOSE`. `SumRemove`, `SumAdd`, `SumSame` and `SumRenamed` say that a sum changes by what an element adds. The induction theorems of the library
  cannot be instantiated, so these go by infinite descent: if a finite set were a counterexample, one of least size would
  be (`LeastNumber`, from the well-foundedness of `<` on `Nat`), and a smaller one is then found. `AddsExists` builds the fold's function on the
  subsets up to a size in the same way.
* *Blocks.* `BlockedCardinality`: a set of requests with `g[r]` blocks each has as many blocks as the sum of `g`, whence `BlocksFit` and
  `BlocksLeft`: what `Allocate` compares with the capacity is what the pool then holds.
* *Queues*: what `Head`, `Tail`, `Append`, `Last` and concatenation do to the set of a queue whose elements differ or are in order.
* *Places*: six sets that are pairwise apart (`Apart`), and counting when an element enters or leaves one.

### The disaggregated engine: `DisaggProofs`

* **`TypeCorrect`**: `Spec => []TypeOK`. `TypeOK` is not inductive: that a hand-off pushes a
  request and not "no request" needs that a chain holds one exactly while it prefills, transfers or decodes
  (`JobMatchesPC`); that a renewed stop channel has a number within the bound needs that each renewal, done
  or pending, was paid for by a flip (`EpochsPaid`); that a fresh chain is really unborn needs `EpochsBorn`; and arrivals stay
  within theirs by `ArrivalsBounded` and `NothingBeforeStart`. `TypeInv` is the conjunction.
* **`EachRequestOnceHolds`.** A bookkeeping of six sets: the queue, the hand-off queue, the chains and the
  three fates. `OnceInv` says they are pairwise apart, cover what has arrived, and that queues and
  chains name each request once (the admission queue by being in order). Each step moves one request, and what it pushes or takes
  comes from another place. No step moves a request between *generations* of chains, so zombie chains break nothing.
* **`InFlightExactHolds`.** The count and the requests it counts change together (`CountInv`); this needs the places
  to be apart, as a request taken twice would be released twice.
* **`RetirementFinalHolds`.** A chain that retires sees a count of none, so by `InFlightExact` no chain, on any worker, holds a request
  (`RetireNoWork`); and work comes only from work or from arrivals (`NoWorkStep`).
* **`OutputExactHolds`.** A chain counts tokens of the request it holds and of no other; that nobody else counts them is
  `OnceInv`. `OutputInv` adds what holds of requests that have not arrived yet (`Asks`: they have no tokens).
* **`AccountsExactHolds`.** `BooksInv` puts the accounts beside all of the above. `kvBlocks` is a set, so that a request takes and gives
  back *its* blocks follows from its being in one place; that they fit is `BlocksFit`. The token counters are sums over
  the requests that have begun or finished: a step adds one to the set and its tokens to the counter, and leaves the
  numbers of the others alone.
* **`DisaggImplementsServing`.** `StatusOf` maps each request's place to its status in `ServingSpec`. `Stages` is that map as a function, and a step that moves one
  request changes it at one point; the guards of the abstract step (order of admission, want of blocks, all tokens out) come from `BooksInv`. What moves no request
  (polls, flips, drains, tests) is a stutter.

### Over it, with delays and under the monitor: `ComposedProofs`

* **`TimedIsDisagg`, `ElasticIsDisagg`.** Every step of `Timed` or `Elastic` is a step of `Disagg`, or, a poll or a
  tick, leaves it alone. So all of the above holds with delays and under the monitor: `TimedServesOnce`, `TimedAccountsExact`, `TimedImplementsServing`, and
  `ElasticTypeCorrect`, `ElasticServesOnce`, `ElasticAccountsExact`, `ElasticImplementsServing`.
* **`PrefillExactHolds`.** A request in prefill is due when its pop plus its prefill time says, one in transfer that plus its transfer time
  (`OnTime`), because only the chain that holds a request re-arms its continuation. A step of a chain happens
  at the very time it was due (`Fires`), so a hand-off stamps the time its chain was re-armed for. That no other chain stamps or holds the request needs
  `EachRequestOnce` and the inductive `CountInv` behind it; `TimeOK` keeps the times integers; `AtRest` says a stopped engine is quiescent, so no
  drain ends after the stop.
* **`ServiceExactHolds`** adds the decode half. `DecodeInv`: a chain that decodes is due at the pop of its hand-off plus as many
  decode steps as its request has tokens, of which prefill gave the first and the last step is in progress (`TakenOnTime`); each token extends that sum by one term (`DecodeMore`), and the last one leaves the sum of
  `DecodeExact`. A second chain on the same GPU has its own request and its own due time, and disturbs neither.
* **`RetiresPromptlyHolds`.** `ClockInv`: nothing on the clock is further off than its own delay; in particular an idle chain polls within `MaxIdle`. `PromptInv`: once every request
  has settled, the clock and all that is left on it lie within `MaxIdle` of some work (`Works`: the completions, and when the drains ended). Settling is itself such a work, and from then on a chain's next poll finds nothing left
  and retires, so that no poll sets another. Only a drain puts a new chain on the clock, and is a work, too. `ClockMoves` says once what any step may do to the clock, and each action is shown to be of that form.
* **`LatencyBoundedHolds`.** Prefill and decode are one argument about a *stage* (a record of its requests, their times, its polling chains and their due
  times), used twice (`PrefillStage`, `DecodeStage`). A chain polls soon after the last event that may make it needed (`PollsSoon`), a request is taken soon (`TakesSoon`), and
  while nobody ahead of a request is in the stage, some chain polls (`Manned`); the step of a stage keeps the first two (`StageStep`, `PollStep`).
  That a chain polls again one interval after it was done with somebody *ahead* of all that wait is the order of service: `QueueOrder` in prefill, `FirstOrder` and `HandOrder` in decode, where requests
  overtake each other. `HeadsInv` gives `Manned`: a flip takes the *last* worker of a list, so the first one of each list serves its pool from `Start` to the end. The theorem assumes
  `KeepsPools`, that the caller of `ResizePools` empties no pool. It is the elastic policy's floor (`PoolsKept`), `ResizePools` itself would empty one, and then nobody polls and the bound is false.
  How many flips it makes at a time does not matter.
* **`PercentilesHonestHolds`.** `HistInv`: each bucket of a histogram counts the finished requests whose samples fall into it. A completion observes just its own sample and adds one to one bucket
  (`RecordedSamples`, `ObserveCounts`), and what was recorded before it stays (`SamplesStay`). So the walk over the buckets counts the samples up to a bucket
  (`BucketsAddUp`), and the percentile is found in the first that reaches the target (`LandingIs`). A larger sample is never in an earlier bucket (`BucketsGrow`), some sample has the rank
  (`RankExists`), and the two must meet in one bucket (`RankLands`); the interpolation does not leave it (`EstimateIs`). That a sample is a fraction at all needs `OutputInv`
  and `StampsInv`: a finished request has its tokens, its arrival is before its first token, and that before its end. The last bucket takes every larger sample, and
  the property speaks of buckets, so it says nothing of how far off such a sample is.
* **`WindowExactHolds`.** `LogInv`: the finished requests can be listed in the order of their ends (`Listed`), and the log has the last `MaxRecent` of the list with their ends and tokens (`LastOf`).
  A completion is the new last (`ListGrows`), and the append with its trim keeps just that (`LogGrows`). A window then takes either only requests the log still has, and all of them, or the whole log, since what ended after
  one that was trimmed is in the window if that one is (`WindowCounts`). Tokens are summed over places in the log and compared with a sum over requests (`SumRenamed`). That a log is in order of its ends needs
  no property of the clock but that it never goes back (`StampsInv`); a request recorded twice, or with another count than it asked for, would break it (`OnceInv`, `OutputInv`).
* **`MonitorSeesTheEndHolds`.** The monitor does not look at hand-offs or chains, but the admission count is
  exact, so both are empty when it retires (`IdleIsNoWork`) and stay so (`NoWorkStep`).
* **`PoolsKeptHolds`.** `PoolsInv` says that the two lists name each worker once and keep the floors (`ListsInv`), that until a stop a worker's role is its list's and its
  stop channel is closed exactly while it drains (`RolesInv`), and that a worker that does not drain is served by its current chain (`ServesInv`). A flip takes the last of one list and appends it to the other; the policy's own guard keeps the floor (`FlipFloors`). That a tick finds no drain pending
  (assumed by `Tick`, see "Modules") is what keeps roles and lists together.

### The wall clock: `WallProofs`

All four invariants of `disagg_interleaved`, and `OutputExact` besides, which only `disagg` checks. They hold of every order of the goroutines' steps, so none of them may lean on what a callback has seen earlier in itself.

* *Types.* `WTypeInv` says where a chain can be inside its callback and when it has a request in hand there (`StageAt`), and what the calls in progress rely on (`CallsOK`): a flip
  that was entered is still to be counted, which bounds the renewals; the worker a call of `Stop` has tested is still first on its list.
* **`WallServesOnce`.** `OnceInv` of the simulated clock serves again, since a request between `Pop` and what follows it is in its chain's `job` already (`HeldOnce`). Each piece of a callback
  moves one request or none (`WMoves`).
* **`PanicNeedsRaceHolds`**, for any number of calls of `Stop`. `OpenInv`: unless two calls were at one worker at once, whoever has passed the test of a channel still finds it open, and
  nobody else has passed it (`OpenFor`). What a close does to one worker's channel then concerns no other call, and a drain that renews a channel meanwhile only opens it.
* **`OnlyHandsMissedHolds`.** `SawTheEnd`: a chain between its last look and its retirement has seen the end of the arrivals, and they do not start again. `AliveInv`: until a stop each
  worker has a chain that lives, has retired or is about to be renewed, and while a hand-off waits some chain lives or some drain is pending. So the engine cannot come to rest with a
  hand-off left: the prefill chain that pushed it polls on.
* **`WallOutputExact`.** `TokensInv`: what is in hand has the tokens of the piece it is in (`TokensOf`). Only the chain that holds a request changes them (`TokensFrame`).
* **`WallAccountsHolds`.** `WBooksInv` adds that only admitted or finished requests were robbed, without which a request could be admitted whose blocks count as lost. A sweep takes blocks of requests in the gap only, which
  stay admitted (`SweptBlocks`). A robbed request pays for its prompt and finishes like any other, and frees nothing.

### The colocated engine: `ColocatedProofs`

The first three hold on both clocks, so for callbacks that interleave between a pop and its admission, between `Allocate` and `Acquire`, or before `canRetire`.

* **`EachRequestOnceHolds`.** As above, with "popped" as a place: the request is in a worker's hand and in no count.
* **`ChunksAddUpHolds`.** `TokensInv` adds to the property that a request that waits or was popped has no tokens, and a finished one what it asked for (`TokensOK`). What a chunk
  leaves is the prompt less a whole number of chunks (`OneChunkMore`), and the first token is out when it leaves nothing.
* **`AccountsExactHolds`**, on both clocks. `BooksInv`, with the requests given up at a stop: their admission is released and their blocks stay. It adds that only admitted
  requests or finished ones were robbed. What a sweep takes belongs to requests in the gap, which stay admitted, so the pool holds the others' blocks and no more; a robbed request
  is counted like any other and frees nothing.
* **`ColocatedImplementsServing`**, on the simulated clock (`~RealClock`). `OrderInv` says that while one worker is inside `workerStep`
  no other is, so what it popped is older than all that waits (`PoppedIsOldest`). On the wall clock this fails, and with it the abstract order of admission: two workers
  may admit what they popped in the opposite order.

### Pool, clock, policy

* **`KVPoolProofs`**, all five properties of the run `kvpool`. `PoolInv` adds to the books (`PoolExact`) that the order never outgrows the array the sweep reads (`ViewCovers`).
  `Position` finds a request's one entry because the order is injective, `RemoveAtProperties` says what is left when it is cut out, and so `EvictKeepsBooks`
  whatever request it is. `PinnedKeepsBlocks` and `PoolImplementsPromise` follow step by step: a grant's blocks are fresh and as many as asked for (`NewBlocksFresh`), an
  eviction's victim is unpinned. `SkipsAtMostEvictedHolds` needs one thing more (`SkipInv`): the array still begins with the order, so while the sweep is inside the
  order it evicts the very entry it is at, and the one request that moves into the freed place is the one it passes by.
* **`SimClockProofs!FiringOrderHolds`, `!NeverLateHolds`, `!CancelPreventsHolds`.** The next callback follows all earlier ones because *every pending*
  event follows the last callback (`NeverLate`); a new event does because the clock shows at least the last
  callback's time (`LastFiredPast`) and its number is new (`SeqsUnique`). `OrderInv` is the conjunction.
* **`FlipDisciplineProofs!FlipsSpacedHolds`, `!FloorsKeptHolds`.** Two flips are `Cooldown + Hysteresis` apart, not just `Cooldown`: the policy's age of
  the last flip is the true one up to its cap (`AgeTrue`) and a pressure can be pending only since the
  cooldown was over (`PendingAfterCooldown`). Floors are an action property of each step.
* **`FlipDisciplineProofs!FlipsSustainedHolds`.** What is pending has been seen at each evaluation for at least as long as the policy thinks (`PendingSeen`). An evaluation
  during the cooldown looks at no signal and would break that, but nothing is pending then (`NothingPendingWhileCooling`).

### Only model-checked

* Every liveness property: the prover does not handle fairness and `ENABLED`.

## 5. Not modelled

The numbers the PRNG draws and the constants of the roofline model are choices. `KVBlockSize = 0` panics on the first request and is excluded by `KVAssumption`.
The monitor of `Elastic` may see any latency, so `Registry` is not composed with it: `PercentilesHonest` says what it would see. Counters and
gauges nothing reads, the list of flip events, the SLO record's defaults, the instance types, printing and flags are left out. On the wall clock, `DisaggWall`
leaves out `Run`, which returns at once there, and the monitor, whose calls of `ResizePools` are any caller's. Data races on a worker's `stop` and `State` fields are
reads of the old or the new value, both of which an order of the modelled steps gives; nothing reads `State`. `Stop` before `Start` is not modelled (nothing in the
repository does it).

## 6. Plan

Done: the modules and runs above, in the order core engine, promise, pool, colocated engine, clock, policy, elastic engine, registry, timed engine, wall clock;
proofs of all safety properties the runs check, and of the refinements of `ServingSpec` by both engines and of `Disagg` by `Timed` and `Elastic`.
Left with TLC, for the reason in section 4: liveness.
