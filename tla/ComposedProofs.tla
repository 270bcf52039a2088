--------------------------- MODULE ComposedProofs ---------------------------
(***************************************************************************)
(* What is built over the disaggregated engine: Timed, with its durations, *)
(* and Elastic, with its monitor.  Both are engines of Disagg: a clock     *)
(* that fires callbacks at their times fires them in some order, and the   *)
(* monitor does nothing to the engine that a caller of ResizePools might   *)
(* not do.  So what is proved for every order and every caller holds of    *)
(* both.  And what is theirs alone: service takes what it would take       *)
(* alone, for any speeds, loads and flips, a run is as long as its work,   *)
(* no request waits longer than the polls, and the registry's percentiles  *)
(* and windows are of requests that finished; the monitor's flips keep the *)
(* pools whole.  The two parts share nothing but Disagg and what           *)
(* Bookkeeping has: no proof of either cites the other's assumptions.      *)
(***************************************************************************)
EXTENDS Timed, Elastic, DisaggProofs

-----------------------------------------------------------------------------
(* Timed: refinement *)

LEMMA ChainRefines == \A c \in Chain : TChainStep(c) => [Next]_vars
<1> SUFFICES ASSUME NEW c \in Chain, TChainStep(c) PROVE [Next]_vars
  OBVIOUS
<1>1. CASE PrefillPoll(c) \/ DecodePoll(c)
  BY <1>1 DEF PrefillPoll, DecodePoll
<1>2. CASE ~(PrefillPoll(c) \/ DecodePoll(c))
  <2>1. ChainStep(c)
    BY <1>2 DEF TChainStep, ChainStep, Ends, TAdmit, TReject, TPrefillDone, THandOff,
                TTakeFinished, TTakeHandoff, TDecodeToken, TComplete
  <2>2. QED BY <2>1 DEF Next
<1>3. QED BY <1>1, <1>2

LEMMA TimedStepRefines == [TNext]_timedVars => [Next]_vars
<1> SUFFICES ASSUME [TNext]_timedVars PROVE [Next]_vars
  OBVIOUS
<1>1. CASE TStart
  BY <1>1 DEF TStart, Next
<1>2. CASE TArrive
  BY <1>2 DEF TArrive, Next
<1>3. CASE \E c \in Chain : TChainStep(c)
  BY <1>3, ChainRefines
<1>4. CASE TResize
  BY <1>4 DEF TResize, Next
<1>5. CASE \E w \in Worker : TDrainDone(w)
  BY <1>5 DEF TDrainDone, Next
<1>6. CASE TStopAtQuiescence \/ TTerminated
  BY <1>6 DEF TStopAtQuiescence, TTerminated, Next
<1>7. CASE UNCHANGED timedVars
  BY <1>7 DEF timedVars
<1> QED
  BY <1>1, <1>2, <1>3, <1>4, <1>5, <1>6, <1>7 DEF TNext

\* Every behaviour of the engine on the simulated clock with its durations, the clock
\* hidden, is one of the engine whose callbacks fire in any order.
THEOREM TimedIsDisagg == TSpec => Spec
<1>1. TInit => Init
  BY DEF TInit
<1> QED
  BY <1>1, TimedStepRefines, PTL DEF TSpec, Spec

\* With any speeds, loads and delays each request is in one place, the admission count
\* is exact, and a chain retires only when nothing is left.
THEOREM TimedServesOnce == TSpec => []EachRequestOnce /\ []InFlightExact /\ []RetirementFinal
BY TimedIsDisagg, EachRequestOnceHolds, InFlightExactHolds, RetirementFinalHolds, PTL

\* And the tokens are those asked for, the pool and the registry keep their books.
THEOREM TimedAccountsExact == TSpec => []OutputExact /\ []AccountsExact
BY TimedIsDisagg, OutputExactHolds, AccountsExactHolds, PTL

\* The timed engine keeps the promise of ServingSpec, too.
THEOREM TimedImplementsServing == TSpec => ImplementsServing
BY TimedIsDisagg, DisaggImplementsServing

-----------------------------------------------------------------------------
(* The service time of a prefill *)

\* What a chain owes its request: its continuation is due when the work is done.
OnTime(c) ==
  LET r == job[c]
      prefilled == at[r].pop + PrefillTime(prompt[r])
  IN  /\ pc[c] = "prefill" => due[c] = prefilled
      /\ pc[c] = "transfer" => due[c] = prefilled + TransferTime(BlocksNeeded(prompt[r]))

TimeOK ==
  /\ due \in [Chain -> Int] /\ idle \in [Chain -> Int]
  /\ drainDue \in [Worker -> Int]
  /\ DOMAIN at = Request
  /\ \A r \in Request : at[r].pop \in Int

TimeInv == CountInv /\ TimeOK /\ (\A c \in Chain : OnTime(c)) /\ PrefillExact

LEMMA DelaysInt ==
  /\ \A n \in Nat : PrefillTime(n) \in Int
  /\ \A n \in Nat : TransferTime(n) \in Int
  /\ \A d \in Int : NextIdle(d) \in Int
<1>1. \A n \in Nat : PrefillTime(n) \in Int
  BY DelayAssumption DEF PrefillTime
<1>2. \A n \in Nat : TransferTime(n) \in Int
  BY DelayAssumption DEF TransferTime
<1>3. ASSUME NEW d \in Int PROVE NextIdle(d) \in Int
  <2>1. IdlePoll \in Int /\ MaxIdle \in Int /\ 2 * d \in Int
    BY DelayAssumption
  <2>2. \E x \in {2 * d, MaxIdle} : \A y \in {2 * d, MaxIdle} : x <= y
    BY <2>1
  <2>3. Min({2 * d, MaxIdle}) \in {2 * d, MaxIdle}
    BY <2>2 DEF Min
  <2>4. QED BY <2>1, <2>3 DEF NextIdle
<1>4. QED BY <1>1, <1>2, <1>3

LEMMA DecodeInt == \A n \in Nat : DecodeTime(n) \in Int
<1> SUFFICES ASSUME NEW n \in Nat PROVE DecodeTime(n) \in Int
  OBVIOUS
<1>1. \E x \in {n, 1} : \A y \in {n, 1} : x >= y
  OBVIOUS
<1>2. Max({n, 1}) \in {n, 1}
  BY <1>1 DEF Max
<1>3. QED BY <1>2, DelayAssumption DEF DecodeTime

\* The chains that a step does not touch stay on time.
LEMMA OthersOnTime ==
  ASSUME TimeInv, NEW D \in SUBSET Chain,
         \A d \in D : pc'[d] = pc[d] /\ job'[d] = job[d] /\ due'[d] = due[d],
         \A r \in Held : prompt'[r] = prompt[r],
         \A d \in D : job[d] # NoRequest => at'[job[d]].pop = at[job[d]].pop
  PROVE  \A d \in D : OnTime(d)'
<1> SUFFICES ASSUME NEW d \in D, pc[d] \in {"prefill", "transfer"} PROVE OnTime(d)'
  BY DEF OnTime
<1>1. job[d] # NoRequest
  BY DEF TimeInv, CountInv, TypeInv, JobMatchesPC
<1>2. job[d] \in Held
  BY <1>1 DEF Held
<1>3. QED BY <1>1, <1>2 DEF TimeInv, OnTime

\* No request joins those that have left prefill: their service stays exact.
LEMMA ExactStays ==
  ASSUME PrefillExact, HandedOver' \subseteq HandedOver,
         \A r \in HandedOver : /\ prompt'[r] = prompt[r]
                               /\ at'[r].pop = at[r].pop /\ at'[r].first = at[r].first
  PROVE  PrefillExact'
  BY DEF PrefillExact

\* What a stamp changes.
LEMMA StampOne ==
  ASSUME DOMAIN at = Request, NEW r, NEW S \in SUBSET Moment, Stamp(r, S)
  PROVE  /\ DOMAIN at' = Request
         /\ \A q \in Request \ {r} : at'[q] = at[q]
         /\ r \in Request =>
              \A m \in Moment : at'[r][m] = IF m \in S THEN now' ELSE at[r][m]
  BY DEF Stamp

\* When a chain fires and re-arms.
LEMMA RearmOne ==
  ASSUME TimeOK, NEW c \in Chain, NEW d \in Int, NEW i \in Int, Fires(c), Rearm(c, d, i)
  PROVE  /\ due' \in [Chain -> Int] /\ idle' \in [Chain -> Int]
         /\ drainDue' \in [Worker -> Int]
         /\ now' = due[c] /\ now' \in Int /\ due'[c] = now' + d
         /\ \A e \in Chain \ {c} : due'[e] = due[e]
<1>1. now' = due[c] /\ due[c] \in Int
  BY DEF Fires, Advance, TimeOK
<1>2. QED BY <1>1 DEF Rearm, TimeOK

Prefilling(c) == pc[c] \in {"prefill", "transfer"}

\* Only the requests of X can leave prefill in a step that keeps the others where they are.
LEMMA HandedOverGrows ==
  ASSUME NEW X, rejected \subseteq rejected', Waiting \subseteq Waiting' \cup X,
         \A r \in 1 .. arrived' : r \in 1 .. arrived \/ r \in Waiting',
         \A d \in Chain : Prefilling(d) /\ job[d] \notin X
                         => Prefilling(d)' /\ job'[d] = job[d]
  PROVE  HandedOver' \subseteq HandedOver \cup X
<1> SUFFICES ASSUME NEW r \in HandedOver', r \notin X PROVE r \in HandedOver
  OBVIOUS
<1>1. /\ r \in 1 .. arrived' /\ r \notin rejected' /\ r \notin Waiting'
      /\ \A d \in Chain : ~(job'[d] = r /\ Prefilling(d)')
  BY DEF HandedOver, InPrefill, Prefilling
<1>2. r \in 1 .. arrived /\ r \notin rejected /\ r \notin Waiting
  BY <1>1
<1>3. \A d \in Chain : ~(job[d] = r /\ Prefilling(d))
  BY <1>1
<1>4. QED BY <1>2, <1>3 DEF HandedOver, InPrefill, Prefilling

\* A request of the admission queue is in no chain's hand and has not left prefill.
LEMMA WaitingElsewhere ==
  ASSUME TimeInv, NEW r \in Waiting
  PROVE  r \notin HandedOver /\ \A d \in Chain : job[d] # r
<1>1. r \notin HandedOver
  BY DEF HandedOver, InPrefill
<1>2. Waiting \cap Held = {} /\ r # NoRequest
  BY RequestFacts, ElementOfSeq
  DEF TimeInv, CountInv, OnceInv, PlacesApart, Apart, TypeInv, TypeOK, WorkOK, Waiting, ToSet
<1>3. QED BY <1>1, <1>2 DEF Held

LEMMA HandedOverTyped == TypeOK => HandedOver \subseteq Request
<1> SUFFICES ASSUME TypeOK, NEW r \in 1 .. arrived PROVE r \in Request
  BY DEF HandedOver
<1>1. arrived \in 0 .. MaxRequests /\ MaxRequests \in Nat
  BY BoundAssumption DEF TypeOK, LoadOK
<1>2. QED BY <1>1 DEF Request

\* Steps that do not touch prefill: what they change is another chain's or later.
LEMMA QuietTimed ==
  ASSUME TimeInv, NEW c \in Chain, ~Prefilling(c), ~Prefilling(c)',
         \A d \in Chain \ {c} : pc'[d] = pc[d] /\ job'[d] = job[d] /\ due'[d] = due[d],
         UNCHANGED <<prompt, queue, arrived, rejected>>,
         \A r \in Request : at'[r].pop = at[r].pop /\ at'[r].first = at[r].first
  PROVE  (\A d \in Chain : OnTime(d)') /\ PrefillExact'
<1>1. \A d \in Chain : job[d] # NoRequest => job[d] \in Request
  BY DEF TimeInv, CountInv, TypeInv, TypeOK, WorkOK
<1>2. \A d \in Chain \ {c} : OnTime(d)'
  BY <1>1, OthersOnTime
<1>3. OnTime(c)'
  BY DEF OnTime, Prefilling
<1>4. HandedOver' \subseteq HandedOver
  <2>1. Waiting' = Waiting
    BY DEF Waiting
  <2>2. HandedOver' \subseteq HandedOver \cup {}
    BY <2>1, HandedOverGrows DEF Prefilling
  <2>3. QED BY <2>2
<1>5. HandedOver \subseteq Request
  BY HandedOverTyped DEF TimeInv, CountInv, TypeInv
<1>6. PrefillExact'
  BY <1>4, <1>5, ExactStays DEF TimeInv
<1>7. QED BY <1>2, <1>3, <1>6

-----------------------------------------------------------------------------
(* The steps *)

LEMMA TimedAdmit == \A c \in Chain : TimeInv /\ CountInv' /\ TAdmit(c) => TimeInv'
<1> SUFFICES ASSUME TimeInv, CountInv', NEW c \in Chain, TAdmit(c) PROVE TimeInv'
  OBVIOUS
<1> DEFINE r == Head(queue)
<1>1. /\ queue # <<>> /\ queue' = Tail(queue) /\ pc[c] = "prefillStep"
      /\ job' = [job EXCEPT ![c] = r] /\ pc' = [pc EXCEPT ![c] = "prefill"]
      /\ UNCHANGED <<arrived, prompt, rejected>>
  BY DEF TAdmit, Admit, loadVars
<1>2. /\ job \in [Chain -> Request \cup {NoRequest}] /\ pc \in [Chain -> PC]
      /\ prompt \in [Request -> Nat] /\ TypeInv /\ OnceInv /\ TypeOK
  BY DEF TimeInv, CountInv, TypeInv, TypeOK, WorkOK, ChainsOK, LoadOK
<1>3. r \in Request /\ r \in Waiting /\ Waiting' = Waiting \ {r}
  BY <1>1, <1>2, PopQueue
<1>4. r \notin HandedOver /\ \A d \in Chain : job[d] # r
  BY <1>3, WaitingElsewhere
<1>5. Fires(c) /\ Rearm(c, PrefillTime(prompt[r]), 0) /\ Stamp(r, {"pop"})
  BY DEF TAdmit
<1>6. /\ due' \in [Chain -> Int] /\ idle' \in [Chain -> Int]
      /\ drainDue' \in [Worker -> Int]
      /\ now' \in Int /\ due'[c] = now' + PrefillTime(prompt[r])
      /\ \A e \in Chain \ {c} : due'[e] = due[e]
  BY <1>2, <1>3, <1>5, DelaysInt, RearmOne DEF TimeInv
<1>7. /\ DOMAIN at' = Request /\ at'[r].pop = now'
      /\ \A q \in Request \ {r} : at'[q] = at[q]
  BY <1>3, <1>5, StampOne DEF TimeInv, TimeOK, Moment
<1>8. TimeOK'
  BY <1>6, <1>7 DEF TimeInv, TimeOK
<1>9. \A d \in Chain \ {c} : OnTime(d)'
  <2>1. \A d \in Chain \ {c} : job[d] # NoRequest => at'[job[d]].pop = at[job[d]].pop
    BY <1>2, <1>4, <1>7
  <2>2. QED BY <1>1, <1>2, <1>6, <2>1, OthersOnTime
<1>10. OnTime(c)'
  BY <1>1, <1>2, <1>6, <1>7 DEF OnTime
<1>11. PrefillExact'
  <2>1. HandedOver' \subseteq HandedOver \cup {r}
    BY <1>1, <1>2, <1>3, HandedOverGrows DEF Prefilling
  <2>2. r \notin HandedOver'
    BY <1>1, <1>2 DEF HandedOver, InPrefill
  <2>3. HandedOver' \subseteq HandedOver /\ \A q \in HandedOver : at'[q] = at[q]
    BY <1>2, <1>4, <1>7, <2>1, <2>2, HandedOverTyped
  <2>4. QED BY <1>1, <2>3, ExactStays DEF TimeInv
<1>12. QED BY <1>8, <1>9, <1>10, <1>11 DEF TimeInv

LEMMA TimedReject == \A c \in Chain : TimeInv /\ CountInv' /\ TReject(c) => TimeInv'
<1> SUFFICES ASSUME TimeInv, CountInv', NEW c \in Chain, TReject(c) PROVE TimeInv'
  OBVIOUS
<1> DEFINE r == Head(queue)
<1>1. /\ queue # <<>> /\ queue' = Tail(queue) /\ pc[c] = "prefillStep"
      /\ rejected' = rejected \cup {r}
      /\ UNCHANGED <<arrived, prompt, job, pc>>
  BY DEF TReject, Reject, loadVars
<1>2. /\ job \in [Chain -> Request \cup {NoRequest}] /\ TypeInv /\ OnceInv /\ TypeOK
  BY DEF TimeInv, CountInv, TypeInv, TypeOK, WorkOK
<1>3. r \in Request /\ r \in Waiting /\ Waiting' = Waiting \ {r}
  BY <1>1, <1>2, PopQueue
<1>4. r \notin HandedOver /\ \A d \in Chain : job[d] # r
  BY <1>3, WaitingElsewhere
<1>5. Fires(c) /\ Rearm(c, IdlePoll, 0) /\ Stamp(r, {"pop", "done"})
  BY DEF TReject
<1>6. /\ due' \in [Chain -> Int] /\ idle' \in [Chain -> Int]
      /\ drainDue' \in [Worker -> Int]
      /\ now' \in Int
      /\ \A e \in Chain \ {c} : due'[e] = due[e]
  BY <1>5, DelayAssumption, RearmOne DEF TimeInv
<1>7. /\ DOMAIN at' = Request /\ at'[r].pop = now'
      /\ \A q \in Request \ {r} : at'[q] = at[q]
  BY <1>3, <1>5, StampOne DEF TimeInv, TimeOK, Moment
<1>8. TimeOK'
  BY <1>6, <1>7 DEF TimeInv, TimeOK
<1>9. \A d \in Chain \ {c} : OnTime(d)'
  <2>1. \A d \in Chain \ {c} : job[d] # NoRequest => at'[job[d]].pop = at[job[d]].pop
    BY <1>2, <1>4, <1>7
  <2>2. QED BY <1>1, <1>2, <1>6, <2>1, OthersOnTime
<1>10. OnTime(c)'
  BY <1>1 DEF OnTime
<1>11. PrefillExact'
  <2>1. HandedOver' \subseteq HandedOver \cup {r}
    BY <1>1, <1>2, <1>3, HandedOverGrows DEF Prefilling
  <2>2. r \notin HandedOver'
    BY <1>1 DEF HandedOver
  <2>3. HandedOver' \subseteq HandedOver /\ \A q \in HandedOver : at'[q] = at[q]
    BY <1>2, <1>4, <1>7, <2>1, <2>2, HandedOverTyped
  <2>4. QED BY <1>1, <2>3, ExactStays DEF TimeInv
<1>12. QED BY <1>8, <1>9, <1>10, <1>11 DEF TimeInv

LEMMA TimedPrefillDone ==
  \A c \in Chain : TimeInv /\ CountInv' /\ TPrefillDone(c) => TimeInv'
<1> SUFFICES ASSUME TimeInv, CountInv', NEW c \in Chain, TPrefillDone(c) PROVE TimeInv'
  OBVIOUS
<1> DEFINE T == TransferTime(BlocksNeeded(prompt[job[c]]))
<1>1. /\ pc[c] = "prefill" /\ pc' = [pc EXCEPT ![c] = "transfer"]
      /\ UNCHANGED <<arrived, prompt, queue, rejected, job, at>>
  BY DEF TPrefillDone, PrefillDone, loadVars, workVars, fateVars
<1>2. TypeInv /\ pc \in [Chain -> PC] /\ prompt \in [Request -> Nat]
  BY DEF TimeInv, CountInv, TypeInv, TypeOK, ChainsOK, LoadOK
<1>3. T \in Int
  BY <1>1, <1>2, JobOfChain, BlocksNat, DelaysInt
<1>4. Fires(c) /\ Rearm(c, T, 0)
  BY DEF TPrefillDone
<1>5. /\ due' \in [Chain -> Int] /\ idle' \in [Chain -> Int]
      /\ drainDue' \in [Worker -> Int]
      /\ due'[c] = due[c] + T
      /\ \A e \in Chain \ {c} : due'[e] = due[e]
  BY <1>3, <1>4, RearmOne DEF TimeInv
<1>6. TimeOK'
  BY <1>1, <1>5 DEF TimeInv, TimeOK
<1>7. \A d \in Chain \ {c} : OnTime(d)'
  BY <1>1, <1>2, <1>5, OthersOnTime
<1>8. OnTime(c)'
  <2>1. due[c] = at[job[c]].pop + PrefillTime(prompt[job[c]])
    BY <1>1 DEF TimeInv, OnTime
  <2>2. QED BY <1>1, <1>2, <1>5, <2>1 DEF OnTime
<1>9. PrefillExact'
  <2>1. Waiting' = Waiting
    BY <1>1 DEF Waiting
  <2>2. HandedOver' \subseteq HandedOver \cup {}
    BY <1>1, <1>2, <2>1, HandedOverGrows DEF Prefilling
  <2>3. QED BY <1>1, <2>2, ExactStays DEF TimeInv
<1>10. QED BY <1>6, <1>7, <1>8, <1>9 DEF TimeInv

LEMMA TimedHandOff == \A c \in Chain : TimeInv /\ CountInv' /\ THandOff(c) => TimeInv'
<1> SUFFICES ASSUME TimeInv, CountInv', NEW c \in Chain, THandOff(c) PROVE TimeInv'
  OBVIOUS
<1> DEFINE r == job[c]
           P == PrefillTime(prompt[r])
           T == TransferTime(BlocksNeeded(prompt[r]))
<1>1. /\ pc[c] = "transfer" /\ pc' = [pc EXCEPT ![c] = "prefillStep"]
      /\ job' = [job EXCEPT ![c] = NoRequest]
      /\ UNCHANGED <<arrived, prompt, queue, rejected>>
  BY DEF THandOff, HandOff, loadVars, fateVars
<1>2. /\ job \in [Chain -> Request \cup {NoRequest}] /\ pc \in [Chain -> PC]
      /\ prompt \in [Request -> Nat] /\ TypeInv /\ OnceInv /\ TypeOK
  BY DEF TimeInv, CountInv, TypeInv, TypeOK, WorkOK, ChainsOK, LoadOK
<1>3. r \in Request /\ P \in Int /\ T \in Int
  BY <1>1, <1>2, JobOfChain, BlocksNat, DelaysInt
<1>4. Fires(c) /\ Rearm(c, IdlePoll, 0) /\ Stamp(r, {"first"})
  BY DEF THandOff
<1>5. /\ due' \in [Chain -> Int] /\ idle' \in [Chain -> Int]
      /\ drainDue' \in [Worker -> Int]
      /\ now' = due[c]
      /\ \A e \in Chain \ {c} : due'[e] = due[e]
  BY <1>4, DelayAssumption, RearmOne DEF TimeInv
<1>6. /\ DOMAIN at' = Request /\ at'[r].first = now' /\ at'[r].pop = at[r].pop
      /\ \A q \in Request \ {r} : at'[q] = at[q]
  BY <1>3, <1>4, StampOne DEF TimeInv, TimeOK, Moment
<1>7. TimeOK'
  BY <1>5, <1>6 DEF TimeInv, TimeOK
<1>8. \A d \in Chain \ {c} : OnTime(d)'
  BY <1>1, <1>2, <1>5, <1>6, OthersOnTime
<1>9. OnTime(c)'
  BY <1>1, <1>2 DEF OnTime
<1>10. at'[r].first - at'[r].pop = P + T
  <2>1. now' = at[r].pop + P + T /\ at[r].pop \in Int
    BY <1>1, <1>3, <1>5 DEF TimeInv, OnTime, TimeOK
  <2>2. QED BY <1>3, <1>6, <2>1
<1>11. HandedOver' \subseteq HandedOver \cup {r}
  <2>1. Waiting' = Waiting
    BY <1>1 DEF Waiting
  <2>2. \A d \in Chain : Prefilling(d) /\ job[d] # r => Prefilling(d)' /\ job'[d] = job[d]
    BY <1>1, <1>2 DEF Prefilling
  <2>3. QED BY <1>1, <2>1, <2>2, HandedOverGrows
<1>12. PrefillExact'
  <2> SUFFICES ASSUME NEW q \in HandedOver', q # r
               PROVE  at'[q].first - at'[q].pop
                        = PrefillTime(prompt'[q]) + TransferTime(BlocksNeeded(prompt'[q]))
    BY <1>1, <1>10 DEF PrefillExact
  <2>1. q \in HandedOver /\ q \in Request
    BY <1>2, <1>11, HandedOverTyped
  <2>2. QED BY <1>1, <1>6, <2>1 DEF TimeInv, PrefillExact
<1>13. QED BY <1>7, <1>8, <1>9, <1>12 DEF TimeInv

\* A chain that ends, polls, or decodes.
TimedQuiet(c) ==
  \/ Ends(c) \/ PrefillPoll(c) \/ DecodePoll(c)
  \/ TTakeFinished(c) \/ TTakeHandoff(c) \/ TDecodeToken(c) \/ TComplete(c)

\* Neither of them starts or ends a prefill.
LEMMA QuietPlaces ==
  ASSUME TimeInv, NEW c \in Chain, TimedQuiet(c)
  PROVE  /\ ~Prefilling(c) /\ ~Prefilling(c)'
         /\ \A d \in Chain \ {c} : pc'[d] = pc[d] /\ job'[d] = job[d]
         /\ UNCHANGED <<prompt, queue, arrived, rejected>>
<1> USE DEF Prefilling
<1>1. pc \in [Chain -> PC] /\ job \in [Chain -> Request \cup {NoRequest}]
  BY DEF TimeInv, CountInv, TypeInv, TypeOK, ChainsOK, WorkOK
<1>2. CASE Ends(c)
  BY <1>1, <1>2 DEF Ends, Exit, Retire, workVars, loadVars, fateVars
<1>3. CASE PrefillPoll(c) \/ DecodePoll(c)
  BY <1>1, <1>3 DEF PrefillPoll, DecodePoll, vars, workVars, loadVars, fateVars
<1>4. CASE TTakeFinished(c) \/ TTakeHandoff(c)
  BY <1>1, <1>4 DEF TTakeFinished, TTakeHandoff, TakeHandoff, loadVars
<1>5. CASE TDecodeToken(c)
  BY <1>1, <1>5 DEF TDecodeToken, DecodeToken, loadVars, fateVars
<1>6. CASE TComplete(c)
  BY <1>1, <1>6 DEF TComplete, Complete, loadVars
<1>7. QED BY <1>2, <1>3, <1>4, <1>5, <1>6 DEF TimedQuiet

\* Nor do they touch the stamps of a prefill; and they re-arm themselves alone.
LEMMA QuietTimes ==
  ASSUME TimeInv, NEW c \in Chain, TimedQuiet(c)
  PROVE  /\ due' \in [Chain -> Int] /\ idle' \in [Chain -> Int]
         /\ drainDue' \in [Worker -> Int]
         /\ \A d \in Chain \ {c} : due'[d] = due[d]
         /\ DOMAIN at' = Request
         /\ \A r \in Request : at'[r].pop = at[r].pop /\ at'[r].first = at[r].first
<1> USE DEF TimeInv, TimeOK
<1>1. TypeInv /\ OnceInv /\ idle[c] \in Int
  BY DEF CountInv
<1>2. /\ prompt \in [Request -> Nat] /\ generated \in [Request -> Nat]
      /\ decodeQueue \in Seq(Request)
  BY <1>1 DEF TypeInv, TypeOK, LoadOK, WorkOK
<1>3. CASE Ends(c)
  BY <1>3 DEF Ends
<1>4. CASE PrefillPoll(c) \/ DecodePoll(c)
  <2>1. NextIdle(idle[c]) \in Int /\ NextIdle(NextIdle(idle[c])) \in Int
    BY <1>1, DelaysInt
  <2>2. QED BY <1>4, <2>1, RearmOne DEF PrefillPoll, DecodePoll, BackoffStep
<1>5. CASE TTakeFinished(c) \/ TTakeHandoff(c)
  <2> DEFINE r == Head(decodeQueue)
  <2>1. r \in Request
    BY <1>2, <1>5, PopTypes DEF TTakeFinished, TTakeHandoff, TakeHandoff
  <2>2. DecodeTime(prompt[r] + generated[r]) \in Int
    <3>1. prompt[r] + generated[r] \in Nat
      BY <1>2, <2>1
    <3>2. QED BY <3>1, DecodeInt
  <2>3. \/ Fires(c) /\ Rearm(c, IdlePoll, 0) /\ Stamp(r, {"take", "done"})
        \/ Fires(c) /\ Rearm(c, DecodeTime(prompt[r] + generated[r]), 0) /\ Stamp(r, {"take"})
    BY <1>5 DEF TTakeFinished, TTakeHandoff
  <2>4. DOMAIN at' = Request
        /\ \A q \in Request : at'[q].pop = at[q].pop /\ at'[q].first = at[q].first
    BY <2>1, <2>3, StampOne DEF Moment
  <2>5. QED BY <2>2, <2>3, <2>4, DelayAssumption, RearmOne
<1>6. CASE TDecodeToken(c)
  <2>1. job[c] \in Request /\ generated' \in [Request -> Nat]
    BY <1>1, <1>2, <1>6, JobOfChain DEF TDecodeToken, DecodeToken
  <2>2. DecodeTime(prompt[job[c]] + generated'[job[c]]) \in Int
    <3>1. prompt[job[c]] + generated'[job[c]] \in Nat
      BY <1>2, <2>1
    <3>2. QED BY <3>1, DecodeInt
  <2>3. QED BY <1>6, <2>2, RearmOne DEF TDecodeToken
<1>7. CASE TComplete(c)
  <2>1. job[c] \in Request
    BY <1>1, <1>7, JobOfChain DEF TComplete, Complete
  <2>2. Fires(c) /\ Rearm(c, IdlePoll, 0) /\ Stamp(job[c], {"done"})
    BY <1>7 DEF TComplete
  <2>3. DOMAIN at' = Request
        /\ \A q \in Request : at'[q].pop = at[q].pop /\ at'[q].first = at[q].first
    BY <2>1, <2>2, StampOne DEF Moment
  <2>4. QED BY <2>2, <2>3, DelayAssumption, RearmOne
<1>8. QED BY <1>3, <1>4, <1>5, <1>6, <1>7 DEF TimedQuiet

LEMMA TimedQuietStep == \A c \in Chain : TimeInv /\ CountInv' /\ TimedQuiet(c) => TimeInv'
<1> SUFFICES ASSUME TimeInv, CountInv', NEW c \in Chain, TimedQuiet(c) PROVE TimeInv'
  OBVIOUS
<1>1. (\A d \in Chain : OnTime(d)') /\ PrefillExact'
  BY QuietPlaces, QuietTimes, QuietTimed
<1>2. TimeOK'
  BY QuietTimes DEF TimeInv, TimeOK
<1>3. QED BY <1>1, <1>2 DEF TimeInv

LEMMA TimedStart == TimeInv /\ CountInv' /\ TStart => TimeInv'
<1> SUFFICES ASSUME TimeInv, CountInv', TStart PROVE TimeInv'
  OBVIOUS
<1>1. /\ \A c \in Chain : ~Prefilling(c)'
      /\ UNCHANGED <<arrived, due, idle, drainDue, at>>
  BY DEF TStart, Start, Prefilling
<1>2. arrived = 0
  BY DEF TStart, Start, TimeInv, CountInv, TypeInv, NothingBeforeStart
<1>3. HandedOver' = {}
  BY <1>1, <1>2 DEF HandedOver
<1>4. QED BY <1>1, <1>3 DEF TimeInv, TimeOK, OnTime, Prefilling, PrefillExact

LEMMA TimedArrive == TimeInv /\ CountInv' /\ TArrive => TimeInv'
<1> SUFFICES ASSUME TimeInv, CountInv', TArrive PROVE TimeInv'
  OBVIOUS
<1>1. UNCHANGED <<due, idle, drainDue, rejected, job, pc>> /\ Stamp(arrived', {"arrival"})
  BY DEF TArrive, Arrive, fateVars
<1>2. /\ DOMAIN at' = Request
      /\ \A r \in Request : at'[r].pop = at[r].pop /\ at'[r].first = at[r].first
  BY <1>1, StampOne DEF TimeInv, TimeOK, Moment
<1>3. /\ job \in [Chain -> Request \cup {NoRequest}] /\ TypeOK
      /\ arrived \in Nat /\ queue \in Seq(Request) /\ prompt \in [Request -> Nat]
  BY DEF TimeInv, CountInv, TypeInv, TypeOK, LoadOK, WorkOK
<1>4. /\ Waiting \subseteq Waiting'
      /\ \A r \in 1 .. arrived' : r \in 1 .. arrived \/ r \in Waiting'
      /\ \A r \in 1 .. arrived : prompt'[r] = prompt[r]
  <2>1. CASE stopped
    BY <2>1 DEF TArrive, Arrive, Waiting
  <2>2. CASE ~stopped
    <3>1. arrived' = arrived + 1 /\ queue' = Append(queue, arrived + 1)
      BY <2>2 DEF TArrive, Arrive
    <3>2. \A r \in 1 .. arrived : prompt'[r] = prompt[r]
      <4>1. PICK p \in PromptTokens : prompt' = [prompt EXCEPT ![arrived'] = p]
        BY <2>2 DEF TArrive, Arrive
      <4>2. QED BY <1>3, <3>1, <4>1
    <3>3. arrived + 1 \in Request
      BY <2>2, BoundAssumption
      DEF TimeInv, CountInv, TypeInv, TypeOK, LoadOK, ArrivalsBounded, TArrive, Request
    <3>4. Waiting' = Waiting \cup {arrived + 1}
      BY <1>3, <3>1, <3>3, PushSet DEF Waiting
    <3>5. QED BY <1>3, <3>1, <3>2, <3>4
  <2>3. QED BY <2>1, <2>2
<1>5. \A d \in Chain : OnTime(d)'
  <2>1. Held \subseteq 1 .. arrived
    BY DEF TimeInv, CountInv, OnceInv, PlacesCover
  <2>2. QED BY <1>1, <1>2, <1>3, <1>4, <2>1, OthersOnTime
<1>6. PrefillExact'
  <2>1. HandedOver' \subseteq HandedOver \cup {}
    BY <1>1, <1>4, HandedOverGrows DEF Prefilling
  <2>2. HandedOver \subseteq 1 .. arrived /\ HandedOver \subseteq Request
    BY <1>3, HandedOverTyped DEF HandedOver
  <2>3. QED BY <1>2, <1>4, <2>1, <2>2, ExactStays DEF TimeInv
<1>7. TimeOK'
  BY <1>1, <1>2 DEF TimeInv, TimeOK
<1>8. QED BY <1>5, <1>6, <1>7 DEF TimeInv

\* Steps of the pools: no request moves.
LEMMA PoolsTimed ==
  ASSUME TimeInv, NEW D \in SUBSET Chain,
         \A d \in D : pc'[d] = pc[d] /\ due'[d] = due[d],
         \A d \in Chain \ D : ~Prefilling(d) /\ ~Prefilling(d)',
         UNCHANGED <<arrived, prompt, queue, rejected, job, at>>
  PROVE  (\A d \in Chain : OnTime(d)') /\ PrefillExact'
<1>1. \A d \in D : OnTime(d)'
  BY OthersOnTime
<1>2. \A d \in Chain \ D : OnTime(d)'
  BY DEF OnTime, Prefilling
<1>3. HandedOver' \subseteq HandedOver \cup {}
  <2>1. Waiting' = Waiting
    BY DEF Waiting
  <2>2. QED BY <2>1, HandedOverGrows DEF Prefilling
<1>4. QED BY <1>1, <1>2, <1>3, ExactStays DEF TimeInv

LEMMA TimedResize == TimeInv /\ CountInv' /\ TResize => TimeInv'
<1> SUFFICES ASSUME TimeInv, CountInv', TResize PROVE TimeInv'
  OBVIOUS
<1>1. UNCHANGED <<arrived, prompt, queue, rejected, job, pc, at, due, idle>>
  BY DEF TResize, ResizeToPrefill, ResizeToDecode, loadVars, workVars, fateVars
<1>2. now' + DrainTime \in Int
  BY DelayAssumption DEF TResize, Advance
<1>3. TimeOK'
  BY <1>1, <1>2 DEF TimeInv, TimeOK, TResize
<1>4. QED BY <1>1, <1>3, PoolsTimed DEF TimeInv

\* The clock is stopped only when nothing is left on it.
AtRest == stopped => Quiescent

\* Until then a drain spawns a chain that did not exist.
LEMMA TimedDrainDone ==
  \A w \in Worker : TimeInv /\ AtRest /\ CountInv' /\ TDrainDone(w) => TimeInv'
<1> SUFFICES ASSUME TimeInv, AtRest, CountInv', NEW w \in Worker, TDrainDone(w)
             PROVE  TimeInv'
  OBVIOUS
<1>1. ~stopped
  BY DEF AtRest, Quiescent, TDrainDone
<1>2. /\ epoch \in [Worker -> 0 .. MaxFlips] /\ epoch' \in [Worker -> 0 .. MaxFlips]
      /\ pc \in [Chain -> PC] /\ TypeInv
  BY DEF TimeInv, CountInv, TypeInv, TypeOK, PoolsOK, ChainsOK
<1>3. epoch'[w] = epoch[w] + 1
  BY <1>1, <1>2 DEF TDrainDone, DrainDone
<1>4. PICK n \in Chain : n = <<w, epoch[w] + 1>>
  BY <1>2, <1>3, ChainFacts
<1>5. /\ pc' = [pc EXCEPT ![n] = IF drain[w] = "prefill" THEN "prefillStep" ELSE "decodeStep"]
      /\ due' = [due EXCEPT ![n] = now'] /\ now' = drainDue[w]
      /\ UNCHANGED <<arrived, prompt, queue, rejected, job, at, idle, drainDue>>
  BY <1>1, <1>3, <1>4
  DEF TDrainDone, DrainDone, Advance, loadVars, workVars, fateVars
<1>6. TimeOK'
  BY <1>5 DEF TimeInv, TimeOK
<1>7. ~Prefilling(n)
  <2>1. pc[n] = "unborn"
    BY <1>2, <1>4, ChainFacts DEF TypeInv, EpochsBorn
  <2>2. QED BY <2>1 DEF Prefilling
<1>8. ~Prefilling(n)'
  BY <1>2, <1>5 DEF Prefilling
<1>9. \A d \in Chain \ {n} : pc'[d] = pc[d] /\ due'[d] = due[d]
  BY <1>2, <1>5 DEF TimeInv, TimeOK
<1>10. QED BY <1>5, <1>6, <1>7, <1>8, <1>9, PoolsTimed DEF TimeInv

LEMMA TimedSame ==
  TimeInv /\ CountInv' /\ (TStopAtQuiescence \/ UNCHANGED timedVars) => TimeInv'
<1> SUFFICES ASSUME TimeInv, CountInv', TStopAtQuiescence \/ UNCHANGED timedVars
             PROVE  TimeInv'
  OBVIOUS
<1>1. UNCHANGED <<arrived, prompt, queue, rejected, job, pc, at, due, idle, drainDue>>
  BY DEF TStopAtQuiescence, StopAtQuiescence, timedVars, timeVars, vars, loadVars, workVars,
         fateVars
<1>2. TimeOK'
  BY <1>1 DEF TimeInv, TimeOK
<1>3. QED BY <1>1, <1>2, PoolsTimed DEF TimeInv

\* Nothing fires once the clock is empty.
LEMMA AtRestStep == TimeInv /\ AtRest /\ [TNext]_timedVars => AtRest'
<1> SUFFICES ASSUME TimeInv, AtRest, [TNext]_timedVars PROVE AtRest'
  OBVIOUS
<1>1. CASE stopped
  <2>1. Quiescent
    BY <1>1 DEF AtRest
  <2>2. \A c \in Chain : ~Live(c)
    BY <2>1 DEF Quiescent, Live
  <2>3. \A c \in Chain : ~TChainStep(c)
    BY <2>2 DEF TChainStep, Ends, PrefillPoll, DecodePoll, TAdmit, TReject, TPrefillDone,
                THandOff, TTakeFinished, TTakeHandoff, TDecodeToken, TComplete, Fires
  <2>4. Pending = {}
    BY <2>1, <2>2 DEF Pending, Quiescent
  <2>5. ~TStart /\ ~TArrive /\ ~TResize /\ (\A w \in Worker : ~TDrainDone(w))
    BY <2>1, <2>4 DEF TStart, Start, TArrive, TResize, TDrainDone, Quiescent
  <2>6. UNCHANGED vars
    BY <1>1, <2>3, <2>5
    DEF TNext, TStopAtQuiescence, StopAtQuiescence, TTerminated, Terminated, timedVars
  <2>7. QED BY <2>1, <2>6
        DEF AtRest, Quiescent, vars, loadVars, poolVars
<1>2. CASE ~stopped
  <2>1. CASE TStopAtQuiescence
    BY <2>1 DEF TStopAtQuiescence, StopAtQuiescence, AtRest, Quiescent, loadVars, poolVars
  <2>2. CASE ~TStopAtQuiescence
    <3>1. ~stopped'
      BY <1>2, <2>2
      DEF TNext, TStart, Start, TArrive, Arrive, TResize, ResizeToPrefill, ResizeToDecode,
          TDrainDone, DrainDone, TTerminated, Terminated, timedVars, vars,
          TChainStep, Ends, Exit, Retire, PrefillPoll, DecodePoll, TAdmit, Admit, TReject,
          Reject, TPrefillDone, PrefillDone, THandOff, HandOff, TTakeFinished, TTakeHandoff,
          TakeHandoff, TDecodeToken, DecodeToken, TComplete, Complete
    <3>2. QED BY <3>1 DEF AtRest
  <2>3. QED BY <2>1, <2>2
<1>3. QED BY <1>1, <1>2

LEMMA TimeStep ==
  (TimeInv /\ AtRest) /\ [TNext]_timedVars => (TimeInv /\ AtRest)'
<1> SUFFICES ASSUME TimeInv, AtRest, [TNext]_timedVars PROVE TimeInv' /\ AtRest'
  OBVIOUS
<1>1. AtRest'
  BY AtRestStep
<1>2. CountInv'
  BY TimedStepRefines, CountStep DEF TimeInv
<1>3. ASSUME NEW c \in Chain, TChainStep(c) PROVE TimeInv'
  BY <1>2, <1>3, TimedAdmit, TimedReject, TimedPrefillDone, TimedHandOff, TimedQuietStep
  DEF TChainStep, TimedQuiet
<1>4. CASE TStart \/ TArrive \/ TResize
  BY <1>1, <1>2, <1>4, TimedStart, TimedArrive, TimedResize
<1>5. CASE \E w \in Worker : TDrainDone(w)
  BY <1>1, <1>2, <1>5, TimedDrainDone
<1>6. CASE TStopAtQuiescence \/ TTerminated \/ UNCHANGED timedVars
  BY <1>1, <1>2, <1>6, TimedSame DEF TTerminated, Terminated, timedVars
<1>7. QED BY <1>1, <1>3, <1>4, <1>5, <1>6 DEF TNext

LEMMA TimeInit == TInit => TimeInv /\ AtRest
<1> SUFFICES ASSUME TInit PROVE TimeInv /\ AtRest
  OBVIOUS
<1>1. CountInv
  BY CountInit DEF TInit
<1>2. TimeOK
  BY DEF TInit, TimeOK, Moment
<1>3. \A c \in Chain : OnTime(c)
  BY DEF TInit, Init, OnTime
<1>4. PrefillExact
  BY DEF TInit, Init, PrefillExact, HandedOver
<1>5. AtRest
  BY DEF TInit, Init, AtRest
<1>6. QED BY <1>1, <1>2, <1>3, <1>4, <1>5 DEF TimeInv

\* From its pop to its first token a request takes its prefill and its transfer, no more
\* and no less, for any speeds, loads, polls and flips, and whatever else runs.
THEOREM PrefillExactHolds == TSpec => []PrefillExact
<1>1. TimeInv /\ AtRest => PrefillExact
  BY DEF TimeInv
<1>2. QED BY TimeInit, TimeStep, <1>1, PTL DEF TSpec

-----------------------------------------------------------------------------
(* The service time of a decode *)

\* The first g decode steps of a request with a prompt of n tokens.
DecodeSum(n, g) == SumFunctionOnSet([k \in 1 .. g |-> DecodeTime(n + k)], 1 .. g)

\* A decoding chain is due when it has made as many steps as its request has tokens.
TakenOnTime(c) ==
  LET r == job[c]
  IN  pc[c] = "decode" => due[c] = at[r].take + DecodeSum(prompt[r], generated[r])

DecodeInv ==
  /\ OutputInv
  /\ \A r \in Request : at[r].take \in Int
  /\ \A c \in Chain : TakenOnTime(c)
  /\ DecodeExact

LEMMA DecodeNone == \A n : DecodeSum(n, 0) = 0
<1>1. 1 .. 0 = {}
  OBVIOUS
<1>2. QED BY <1>1, SumEmpty DEF DecodeSum

LEMMA DecodeInts == ASSUME NEW n \in Nat, NEW g \in Nat PROVE DecodeSum(n, g) \in Int
<1> DEFINE f == [k \in 1 .. g |-> DecodeTime(n + k)]
<1>1. f \in [1 .. g -> Int]
  BY DecodeInt
<1>2. IsFiniteSet(1 .. g)
  BY FS_Interval
<1> HIDE DEF f
<1>3. SumFunctionOnSet(f, 1 .. g) \in Int
  BY <1>1, <1>2, SumInt
<1>4. QED BY <1>3 DEF f, DecodeSum

\* One step more.
LEMMA DecodeMore ==
  ASSUME NEW n \in Nat, NEW g \in Nat
  PROVE  DecodeSum(n, g + 1) = DecodeSum(n, g) + DecodeTime(n + (g + 1))
<1> DEFINE f == [k \in 1 .. g |-> DecodeTime(n + k)]
           h == [k \in 1 .. g + 1 |-> DecodeTime(n + k)]
<1>1. /\ h \in [1 .. g + 1 -> Int] /\ h[g + 1] = DecodeTime(n + (g + 1))
      /\ \A k \in 1 .. g : h[k] = f[k]
  BY DecodeInt
<1>2. IsFiniteSet(1 .. g)
  BY FS_Interval
<1>3. /\ 1 .. g \in SUBSET (1 .. g + 1) /\ g + 1 \in 1 .. g + 1 /\ g + 1 \notin 1 .. g
      /\ 1 .. g + 1 = (1 .. g) \cup {g + 1}
  OBVIOUS
<1> HIDE DEF f, h
<1> DEFINE D == 1 .. g + 1  S == 1 .. g  x == g + 1
<1>4. /\ h \in [D -> Int] /\ S \in SUBSET D /\ IsFiniteSet(S) /\ x \in D /\ x \notin S
      /\ D = S \cup {x} /\ h[x] = DecodeTime(n + (g + 1)) /\ \A k \in S : h[k] = f[k]
  BY <1>1, <1>2, <1>3
<1> HIDE DEF D, S, x
<1>5. SumFunctionOnSet(h, S \cup {x}) = SumFunctionOnSet(h, S) + h[x]
  BY <1>4, SumAdd
<1>6. SumFunctionOnSet(h, S) = SumFunctionOnSet(f, S)
  BY <1>4, SumSame
<1>7. SumFunctionOnSet(h, D) = SumFunctionOnSet(f, S) + DecodeTime(n + (g + 1))
  BY <1>4, <1>5, <1>6
<1>8. QED BY <1>7 DEF D, S, x, f, h, DecodeSum

LEMMA DecodeExactSums ==
  DecodeExact <=> \A r \in finished : at[r].done - at[r].take
                                        = DecodeSum(prompt[r], maxOutput[r] - 1)
BY DEF DecodeExact, DecodeSum

\* The requests and chains that a step does not touch keep their decode times.
LEMMA DecodeFrame ==
  ASSUME DecodeInv, TypeInv, OnceInv, NEW X, NEW D \in SUBSET Chain,
         \A d \in D : pc'[d] = pc[d] /\ job'[d] = job[d] /\ due'[d] = due[d],
         \A d \in D : job[d] # NoRequest => job[d] \notin X,
         \A q \in Request : q \notin X => /\ at'[q].take = at[q].take
                                          /\ at'[q].done = at[q].done
                                          /\ generated'[q] = generated[q],
         \A q \in 1 .. arrived : prompt'[q] = prompt[q] /\ maxOutput'[q] = maxOutput[q]
  PROVE  /\ \A d \in D : TakenOnTime(d)'
         /\ \A q \in finished : q \notin X =>
              at'[q].done - at'[q].take = DecodeSum(prompt'[q], maxOutput'[q] - 1)
<1>1. ASSUME NEW d \in D, pc[d] = "decode" PROVE TakenOnTime(d)'
  <2>1. job[d] # NoRequest /\ job[d] \in Held
    BY <1>1 DEF TypeInv, JobMatchesPC, Held
  <2>2. job[d] \in Request /\ job[d] \in 1 .. arrived
    BY <2>1, WhereIs
  <2>3. due[d] = at[job[d]].take + DecodeSum(prompt[job[d]], generated[job[d]])
    BY <1>1 DEF DecodeInv, TakenOnTime
  <2>4. QED BY <2>1, <2>2, <2>3 DEF TakenOnTime
<1>2. \A d \in D : TakenOnTime(d)'
  <2>1. ASSUME NEW d \in D, pc[d] # "decode" PROVE TakenOnTime(d)'
    BY <2>1 DEF TakenOnTime
  <2>2. QED BY <1>1, <2>1
<1>3. ASSUME NEW q \in finished, q \notin X
      PROVE  at'[q].done - at'[q].take = DecodeSum(prompt'[q], maxOutput'[q] - 1)
  <2>1. q \in Request /\ q \in 1 .. arrived
    BY WhereIs
  <2>2. at[q].done - at[q].take = DecodeSum(prompt[q], maxOutput[q] - 1)
    BY DecodeExactSums DEF DecodeInv
  <2>3. QED BY <1>3, <2>1, <2>2
<1>4. QED BY <1>2, <1>3

\* A chain's step touches no other chain.
LEMMA ChainAlone ==
  ASSUME TimeInv, NEW c \in Chain, TChainStep(c)
  PROVE  /\ \A d \in Chain \ {c} : pc'[d] = pc[d] /\ job'[d] = job[d] /\ due'[d] = due[d]
         /\ UNCHANGED <<arrived, prompt, maxOutput>>
         /\ Fires(c) /\ now' = due[c] /\ now' \in Int
<1>1. /\ due \in [Chain -> Int] /\ pc \in [Chain -> PC]
      /\ job \in [Chain -> Request \cup {NoRequest}]
  BY DEF TimeInv, TimeOK, CountInv, TypeInv, TypeOK, ChainsOK, WorkOK
<1>2. Fires(c) /\ \A d \in Chain \ {c} : due'[d] = due[d]
  BY <1>1 DEF TChainStep, Ends, PrefillPoll, DecodePoll, TAdmit, TReject, TPrefillDone,
              THandOff, TTakeFinished, TTakeHandoff, TDecodeToken, TComplete, Rearm
<1>3. UNCHANGED <<arrived, prompt, maxOutput>>
  BY DEF TChainStep, Ends, Exit, Retire, PrefillPoll, DecodePoll, TAdmit, Admit, TReject,
         Reject, TPrefillDone, PrefillDone, THandOff, HandOff, TTakeFinished, TTakeHandoff,
         TakeHandoff, TDecodeToken, DecodeToken, TComplete, Complete, vars, loadVars
<1>4. \A d \in Chain \ {c} : pc'[d] = pc[d] /\ job'[d] = job[d]
  BY <1>1
  DEF TChainStep, Ends, Exit, Retire, PrefillPoll, DecodePoll, TAdmit, Admit, TReject,
      Reject, TPrefillDone, PrefillDone, THandOff, HandOff, TTakeFinished, TTakeHandoff,
      TakeHandoff, TDecodeToken, DecodeToken, TComplete, Complete, vars, workVars
<1>5. now' = due[c] /\ now' \in Int
  BY <1>1, <1>2 DEF Fires, Advance
<1>6. QED BY <1>2, <1>3, <1>4, <1>5

\* What a step of a chain that touches the request x, and no other, has to show.
LEMMA DecodeChain ==
  ASSUME DecodeInv, TimeInv, OutputInv', NEW c \in Chain, TChainStep(c), NEW x \in Request,
         NEW S \in SUBSET Moment, Stamp(x, S),
         \A q \in Request \ {x} : generated'[q] = generated[q],
         \A d \in Chain \ {c} : job[d] # x, TakenOnTime(c)',
         finished' \subseteq finished \cup {x},
         x \in finished' => at'[x].done - at'[x].take = DecodeSum(prompt[x], maxOutput[x] - 1)
  PROVE  DecodeInv'
<1>1. /\ \A d \in Chain \ {c} : pc'[d] = pc[d] /\ job'[d] = job[d] /\ due'[d] = due[d]
      /\ UNCHANGED <<arrived, prompt, maxOutput>> /\ now' \in Int
  BY ChainAlone
<1>2. \A q \in Request \ {x} : at'[q] = at[q]
  BY StampOne DEF TimeInv, TimeOK
<1>3. at'[x].take \in Int
  <2>1. at'[x].take = IF "take" \in S THEN now' ELSE at[x].take
    BY StampOne DEF TimeInv, TimeOK, Moment
  <2>2. QED BY <1>1, <2>1 DEF DecodeInv
<1>4. TypeInv /\ OnceInv
  BY DEF TimeInv, CountInv
<1>5. /\ \A d \in Chain \ {c} : TakenOnTime(d)'
      /\ \A q \in finished : q \notin {x} =>
           at'[q].done - at'[q].take = DecodeSum(prompt'[q], maxOutput'[q] - 1)
  BY <1>1, <1>2, <1>4, DecodeFrame
<1>6. DecodeExact'
  <2>1. \A q \in finished' :
          at'[q].done - at'[q].take = DecodeSum(prompt'[q], maxOutput'[q] - 1)
    BY <1>1, <1>5
  <2>2. QED BY <2>1 DEF DecodeExact, DecodeSum
<1>7. \A q \in Request : at'[q].take \in Int
  BY <1>2, <1>3 DEF DecodeInv
<1>8. QED BY <1>5, <1>6, <1>7 DEF DecodeInv

-----------------------------------------------------------------------------
(* The steps of a decode *)

\* The requests other than the one a chain works on.
LEMMA JobAlone ==
  ASSUME OnceInv, NEW c \in Chain, job[c] # NoRequest
  PROVE  \A d \in Chain \ {c} : job[d] # job[c]
BY DEF OnceInv, HeldOnce

LEMMA HandedElsewhere ==
  ASSUME TypeInv, OnceInv, NEW r \in Waiting \cup Handed
  PROVE  \A d \in Chain : job[d] # r
<1>1. r \notin Held /\ r \in Request
  BY WhereIs
<1>2. QED BY <1>1, RequestFacts DEF Held

\* A step that touches no request.
LEMMA DecodeStill ==
  ASSUME DecodeInv, TypeInv, OnceInv, NEW D \in SUBSET Chain, finished' = finished,
         \A d \in D : pc'[d] = pc[d] /\ job'[d] = job[d] /\ due'[d] = due[d],
         \A q \in Request : /\ at'[q].take = at[q].take /\ at'[q].done = at[q].done
                            /\ generated'[q] = generated[q],
         \A q \in 1 .. arrived : prompt'[q] = prompt[q] /\ maxOutput'[q] = maxOutput[q]
  PROVE  (\A d \in D : TakenOnTime(d)') /\ DecodeExact'
<1> DEFINE X == {}
<1>1. /\ \A d \in D : job[d] # NoRequest => job[d] \notin X
      /\ \A q : q \notin X
  OBVIOUS
<1> HIDE DEF X
<1>2. /\ \A d \in D : TakenOnTime(d)'
      /\ \A q \in finished : q \notin X =>
           at'[q].done - at'[q].take = DecodeSum(prompt'[q], maxOutput'[q] - 1)
  BY <1>1, DecodeFrame
<1>3. \A q \in finished' :
        at'[q].done - at'[q].take = DecodeSum(prompt'[q], maxOutput'[q] - 1)
  BY <1>1, <1>2
<1>4. QED BY <1>2, <1>3 DEF DecodeExact, DecodeSum

\* Ends, polls and the end of a prefill: no request is touched.
LEMMA DecodeIdle ==
  ASSUME DecodeInv, TimeInv, OutputInv', NEW c \in Chain,
         Ends(c) \/ PrefillPoll(c) \/ DecodePoll(c) \/ TPrefillDone(c)
  PROVE  DecodeInv'
<1>1. /\ \A d \in Chain \ {c} : pc'[d] = pc[d] /\ job'[d] = job[d] /\ due'[d] = due[d]
      /\ UNCHANGED <<arrived, prompt, maxOutput>>
  BY ChainAlone DEF TChainStep
<1>2. UNCHANGED <<at, finished, generated>>
  BY DEF Ends, Exit, Retire, PrefillPoll, DecodePoll, TPrefillDone, PrefillDone, vars,
         fateVars, workVars
<1>3. pc'[c] # "decode"
  BY DEF Ends, Exit, Retire, PrefillPoll, DecodePoll, TPrefillDone, PrefillDone, vars,
         TimeInv, CountInv, TypeInv, TypeOK, ChainsOK
<1>4. TypeInv /\ OnceInv
  BY DEF TimeInv, CountInv
<1>5. (\A d \in Chain \ {c} : TakenOnTime(d)') /\ DecodeExact'
  BY <1>1, <1>2, <1>4, DecodeStill
<1>6. QED BY <1>2, <1>3, <1>5 DEF DecodeInv, TakenOnTime

LEMMA DecodeAdmit ==
  ASSUME DecodeInv, TimeInv, OutputInv', NEW c \in Chain, TAdmit(c) \/ TReject(c)
  PROVE  DecodeInv'
<1> DEFINE r == Head(queue)
<1>1. TypeInv /\ OnceInv /\ TChainStep(c) /\ (Admit(c) \/ Reject(c))
  BY DEF TimeInv, CountInv, TChainStep, TAdmit, TReject
<1>2. r \in Request /\ r \in Waiting
  BY <1>1, AdmitMoves, RejectMoves
<1>3. \A d \in Chain : job[d] # r
  BY <1>1, <1>2, HandedElsewhere
<1>4. r \notin finished
  BY <1>1, <1>2, WhereIs
<1>5. finished' = finished /\ generated' = generated /\ pc'[c] # "decode"
  BY <1>1 DEF Admit, Reject, TypeInv, TypeOK, ChainsOK
<1>6. Stamp(r, {"pop"}) \/ Stamp(r, {"pop", "done"})
  BY DEF TAdmit, TReject
<1>7. TakenOnTime(c)'
  BY <1>5 DEF TakenOnTime
<1> HIDE DEF r
<1>8. CASE Stamp(r, {"pop"})
  BY <1>1, <1>2, <1>3, <1>4, <1>5, <1>7, <1>8, DecodeChain DEF Moment
<1>9. CASE Stamp(r, {"pop", "done"})
  BY <1>1, <1>2, <1>3, <1>4, <1>5, <1>7, <1>9, DecodeChain DEF Moment
<1>10. QED BY <1>6, <1>8, <1>9

LEMMA DecodeHandOff ==
  ASSUME DecodeInv, TimeInv, OutputInv', NEW c \in Chain, THandOff(c)
  PROVE  DecodeInv'
<1> DEFINE r == job[c]
<1>1. TypeInv /\ OnceInv /\ TChainStep(c) /\ HandOff(c) /\ Stamp(r, {"first"})
  BY DEF TimeInv, CountInv, TChainStep, THandOff
<1>2. r \in Request /\ r \in Held /\ r # NoRequest
  BY <1>1, HandOffMoves, RequestFacts
<1>3. \A d \in Chain \ {c} : job[d] # r
  BY <1>1, <1>2, JobAlone
<1>4. r \notin finished
  BY <1>1, <1>2, WhereIs
<1>5. finished' = finished /\ pc'[c] # "decode"
      /\ \A q \in Request \ {r} : generated'[q] = generated[q]
  BY <1>1 DEF HandOff, fateVars, TypeInv, TypeOK, ChainsOK, WorkOK
<1>6. TakenOnTime(c)'
  BY <1>5 DEF TakenOnTime
<1> HIDE DEF r
<1>7. QED BY <1>1, <1>2, <1>3, <1>4, <1>5, <1>6, DecodeChain DEF Moment

\* A request that prefill has finished takes no decode step.
LEMMA DecodeTakeFinished ==
  ASSUME DecodeInv, TimeInv, OutputInv', NEW c \in Chain, TTakeFinished(c)
  PROVE  DecodeInv'
<1> DEFINE r == Head(decodeQueue)
<1>1. /\ TypeInv /\ OnceInv /\ TChainStep(c) /\ TakeHandoff(c) /\ pc'[c] = "decodeStep"
      /\ Stamp(r, {"take", "done"})
  BY DEF TimeInv, CountInv, TChainStep, TTakeFinished
<1>2. r \in Request /\ r \in Handed
  BY <1>1, TakeMoves
<1>3. \A d \in Chain : job[d] # r
  BY <1>1, <1>2, HandedElsewhere
<1>4. IsFinished(r, generated[r])
  BY <1>1 DEF TakeHandoff, TypeInv, TypeOK, ChainsOK
<1>5. finished' = finished \cup {r} /\ generated' = generated
  BY <1>1, <1>4 DEF TakeHandoff, Finish
<1>6. generated[r] = 1
  BY <1>2 DEF DecodeInv, OutputInv, OutputExact
<1>7. generated'[r] = maxOutput'[r] /\ maxOutput' = maxOutput
  BY <1>1, <1>5, ChainAlone DEF OutputInv, OutputExact
<1>8. maxOutput[r] - 1 = 0
  BY <1>5, <1>6, <1>7
<1>9. /\ at'[r].take = now' /\ at'[r].done = now' /\ now' \in Int
  BY <1>1, <1>2, StampOne, ChainAlone DEF TimeInv, TimeOK, Moment
<1>10. at'[r].done - at'[r].take = DecodeSum(prompt[r], maxOutput[r] - 1)
  BY <1>8, <1>9, DecodeNone
<1>11. TakenOnTime(c)'
  BY <1>1 DEF TakenOnTime
<1> HIDE DEF r
<1>12. QED BY <1>1, <1>2, <1>3, <1>5, <1>10, <1>11, DecodeChain DEF Moment

LEMMA DecodeTake ==
  ASSUME DecodeInv, TimeInv, OutputInv', NEW c \in Chain, TTakeHandoff(c)
  PROVE  DecodeInv'
<1> DEFINE r == Head(decodeQueue)
           T == DecodeTime(prompt[r] + generated[r])
<1>1. /\ TypeInv /\ OnceInv /\ TChainStep(c) /\ TakeHandoff(c) /\ pc'[c] = "decode"
      /\ Stamp(r, {"take"}) /\ Rearm(c, T, 0) /\ Fires(c)
  BY DEF TimeInv, CountInv, TChainStep, TTakeHandoff
<1>2. r \in Request /\ r \in Handed /\ prompt[r] \in Nat
  BY <1>1, TakeMoves DEF TypeInv, TypeOK, LoadOK
<1>3. \A d \in Chain : job[d] # r
  BY <1>1, <1>2, HandedElsewhere
<1>4. r \notin finished
  BY <1>1, <1>2, WhereIs
<1>5. ~IsFinished(r, generated[r])
  BY <1>1 DEF TakeHandoff, TypeInv, TypeOK, ChainsOK
<1>6. finished' = finished /\ generated' = generated /\ job' = [job EXCEPT ![c] = r]
  BY <1>1, <1>5 DEF TakeHandoff
<1>7. generated[r] = 1
  BY <1>2 DEF DecodeInv, OutputInv, OutputExact
<1>8. T \in Int /\ T = DecodeSum(prompt[r], 1)
  <2>1. DecodeSum(prompt[r], 0 + 1)
          = DecodeSum(prompt[r], 0) + DecodeTime(prompt[r] + (0 + 1))
    BY <1>2, DecodeMore
  <2>2. T \in Int /\ T = DecodeTime(prompt[r] + 1)
    <3>1. prompt[r] + 1 \in Nat
      BY <1>2
    <3>2. QED BY <1>7, <3>1, DecodeInt
  <2>3. DecodeSum(prompt[r], 1) = DecodeTime(prompt[r] + 1)
    BY <2>1, <2>2, DecodeNone
  <2>4. QED BY <2>2, <2>3
<1>9. at'[r].take = now' /\ due'[c] = now' + T
  BY <1>1, <1>2, <1>8, StampOne, RearmOne DEF TimeInv, TimeOK, Moment
<1>10. TakenOnTime(c)'
  <2>1. job'[c] = r /\ prompt' = prompt
    BY <1>1, <1>6, ChainAlone DEF TypeInv, TypeOK, WorkOK
  <2>2. QED BY <1>6, <1>7, <1>8, <1>9, <2>1 DEF TakenOnTime
<1> HIDE DEF r, T
<1>11. QED BY <1>1, <1>2, <1>3, <1>4, <1>6, <1>10, DecodeChain DEF Moment

\* What a decode step does to its request.
LEMMA DecodeStepSum ==
  ASSUME DecodeInv, TimeInv, NEW c \in Chain, TDecodeToken(c) \/ TComplete(c)
  PROVE  LET r == job[c]
             T == DecodeTime(prompt[r] + generated'[r])
         IN  /\ r \in Request /\ r \in Held /\ r # NoRequest /\ r \notin finished
             /\ prompt[r] \in Nat /\ generated[r] \in Nat
             /\ generated'[r] = generated[r] + 1 /\ T \in Int
             /\ \A q \in Request \ {r} : generated'[q] = generated[q]
             /\ \A d \in Chain \ {c} : job[d] # r
             /\ now' = at[r].take + DecodeSum(prompt[r], generated[r])
             /\ DecodeSum(prompt[r], generated'[r])
                  = DecodeSum(prompt[r], generated[r]) + T
             /\ DecodeSum(prompt[r], generated[r]) \in Int
<1> DEFINE r == job[c]
           T == DecodeTime(prompt[r] + generated'[r])
<1>1. /\ TypeInv /\ OnceInv /\ TChainStep(c) /\ pc[c] = "decode"
      /\ generated' = [generated EXCEPT ![r] = @ + 1]
  BY DEF TimeInv, CountInv, TChainStep, TDecodeToken, TComplete, DecodeToken, Complete
<1>2. /\ r \in Request /\ r # NoRequest /\ generated \in [Request -> Nat]
      /\ prompt[r] \in Nat /\ generated[r] \in Nat
  BY <1>1, JobOfChain DEF TypeInv, TypeOK, LoadOK, WorkOK
<1>3. r \in Held
  BY <1>2 DEF Held
<1>4. r \notin finished
  BY <1>1, <1>3, WhereIs
<1>5. \A d \in Chain \ {c} : job[d] # r
  BY <1>1, <1>2, JobAlone
<1>6. /\ generated'[r] = generated[r] + 1
      /\ \A q \in Request \ {r} : generated'[q] = generated[q]
  BY <1>1, <1>2
<1>7. now' = at[r].take + DecodeSum(prompt[r], generated[r])
  BY <1>1, ChainAlone DEF DecodeInv, TakenOnTime
<1>8. T \in Int
  <2>1. prompt[r] + generated'[r] \in Nat
    BY <1>2, <1>6
  <2>2. QED BY <2>1, DecodeInt
<1>9. DecodeSum(prompt[r], generated'[r]) = DecodeSum(prompt[r], generated[r]) + T
  BY <1>2, <1>6, DecodeMore
<1>10. DecodeSum(prompt[r], generated[r]) \in Int
  BY <1>2, DecodeInts
<1>11. QED BY <1>2, <1>3, <1>4, <1>5, <1>6, <1>7, <1>8, <1>9, <1>10

LEMMA DecodeOneMore ==
  ASSUME DecodeInv, TimeInv, OutputInv', NEW c \in Chain, TDecodeToken(c)
  PROVE  DecodeInv'
<1> DEFINE r == job[c]
           T == DecodeTime(prompt[r] + generated'[r])
<1>1. /\ TChainStep(c) /\ Rearm(c, T, 0) /\ Fires(c)
      /\ UNCHANGED <<at, finished, job, pc>>
  BY DEF TChainStep, TDecodeToken, DecodeToken, fateVars
<1>2. /\ r \in Request /\ T \in Int
      /\ \A q \in Request \ {r} : generated'[q] = generated[q]
      /\ \A d \in Chain \ {c} : job[d] # r
      /\ now' = at[r].take + DecodeSum(prompt[r], generated[r])
      /\ DecodeSum(prompt[r], generated'[r]) = DecodeSum(prompt[r], generated[r]) + T
      /\ DecodeSum(prompt[r], generated[r]) \in Int /\ r \notin finished
  BY DecodeStepSum
<1>3. /\ \A d \in Chain \ {c} : due'[d] = due[d]
      /\ UNCHANGED <<arrived, prompt, maxOutput>>
  BY <1>1, ChainAlone
<1>4. due'[c] = now' + T
  BY <1>1, <1>2, RearmOne DEF TimeInv
<1>5. at[r].take \in Int
  BY <1>2 DEF DecodeInv
<1>6. TakenOnTime(c)'
  <2>1. due'[c] = at[r].take + DecodeSum(prompt[r], generated'[r])
    BY <1>2, <1>4, <1>5
  <2>2. QED BY <1>1, <1>3, <2>1 DEF TakenOnTime
<1>7. TypeInv /\ OnceInv
  BY DEF TimeInv, CountInv
<1> HIDE DEF r, T
<1>8. /\ \A d \in Chain \ {c} : TakenOnTime(d)'
      /\ \A q \in finished : q \notin {r} =>
           at'[q].done - at'[q].take = DecodeSum(prompt'[q], maxOutput'[q] - 1)
  BY <1>1, <1>2, <1>3, <1>7, DecodeFrame
<1>9. DecodeExact'
  BY <1>1, <1>2, <1>8 DEF DecodeExact, DecodeSum
<1>10. QED BY <1>1, <1>6, <1>8, <1>9 DEF DecodeInv

LEMMA DecodeComplete ==
  ASSUME DecodeInv, TimeInv, OutputInv', NEW c \in Chain, TComplete(c)
  PROVE  DecodeInv'
<1> DEFINE r == job[c]
<1>1. /\ TChainStep(c) /\ Stamp(r, {"done"}) /\ Complete(c)
  BY DEF TChainStep, TComplete
<1>2. /\ r \in Request /\ generated[r] \in Nat
      /\ generated'[r] = generated[r] + 1
      /\ \A q \in Request \ {r} : generated'[q] = generated[q]
      /\ \A d \in Chain \ {c} : job[d] # r
      /\ now' = at[r].take + DecodeSum(prompt[r], generated[r])
      /\ DecodeSum(prompt[r], generated[r]) \in Int
  BY DecodeStepSum
<1>3. finished' = finished \cup {r} /\ pc'[c] = "decodeStep"
  BY <1>1 DEF Complete, Finish, TimeInv, CountInv, TypeInv, TypeOK, ChainsOK
<1>4. maxOutput' = maxOutput
  BY <1>1, ChainAlone
<1>5. generated'[r] = maxOutput[r]
  BY <1>3, <1>4 DEF OutputInv, OutputExact
<1>6. maxOutput[r] - 1 = generated[r]
  BY <1>2, <1>5
<1>7. at'[r].done = now' /\ at'[r].take = at[r].take
  BY <1>1, <1>2, StampOne DEF TimeInv, TimeOK, Moment
<1>8. at[r].take \in Int
  BY <1>2 DEF DecodeInv
<1>9. at'[r].done - at'[r].take = DecodeSum(prompt[r], maxOutput[r] - 1)
  BY <1>2, <1>6, <1>7, <1>8
<1>10. TakenOnTime(c)'
  BY <1>3 DEF TakenOnTime
<1> HIDE DEF r
<1>11. QED BY <1>1, <1>2, <1>3, <1>9, <1>10, DecodeChain DEF Moment

\* Arrivals, flips and drains: no request in service is touched.
LEMMA DecodeOthers ==
  ASSUME DecodeInv, TimeInv, AtRest, TimeInv', OutputInv',
         \/ TStart \/ TArrive \/ TResize \/ (\E w \in Worker : TDrainDone(w))
         \/ TStopAtQuiescence \/ UNCHANGED timedVars
  PROVE  DecodeInv'
<1> DEFINE D == {d \in Chain : pc[d] = "decode"}
<1>1. TypeInv /\ OnceInv /\ TypeOK /\ DOMAIN at = Request
  BY DEF TimeInv, TimeOK, CountInv, TypeInv
<1>2. /\ UNCHANGED <<finished, generated, job>>
      /\ \A q \in Request : at'[q].take = at[q].take /\ at'[q].done = at[q].done
  <2>1. CASE TArrive
    BY <1>1, <2>1, StampOne DEF TArrive, Arrive, fateVars, Moment
  <2>2. CASE ~TArrive
    BY <2>2
    DEF TStart, Start, TResize, ResizeToPrefill, ResizeToDecode, TDrainDone, DrainDone,
        TStopAtQuiescence, StopAtQuiescence, timedVars, timeVars, vars, fateVars, workVars
  <2>3. QED BY <2>1, <2>2
<1>3. \A q \in 1 .. arrived : prompt'[q] = prompt[q] /\ maxOutput'[q] = maxOutput[q]
  <2>1. CASE TArrive /\ ~stopped
    <3>1. PICK p, o : /\ prompt' = [prompt EXCEPT ![arrived'] = p]
                      /\ maxOutput' = [maxOutput EXCEPT ![arrived'] = o]
      BY <2>1 DEF TArrive, Arrive
    <3>2. arrived' = arrived + 1 /\ arrived \in Nat
      BY <1>1, <2>1 DEF TArrive, Arrive, TypeOK, LoadOK
    <3>3. prompt \in [Request -> Nat] /\ maxOutput \in [Request -> Nat]
      BY <1>1 DEF TypeOK, LoadOK
    <3>4. QED BY <3>1, <3>2, <3>3
  <2>2. CASE ~(TArrive /\ ~stopped)
    BY <2>2
    DEF TStart, Start, TArrive, Arrive, TResize, ResizeToPrefill, ResizeToDecode, TDrainDone,
        DrainDone, TStopAtQuiescence, StopAtQuiescence, timedVars, vars, loadVars
  <2>3. QED BY <2>1, <2>2
<1>4. \A d \in Chain : pc'[d] = "decode" => d \in D
  <2>1. CASE TStart
    BY <2>1 DEF TStart, Start
  <2>2. CASE \E w \in Worker : TDrainDone(w)
    BY <1>1, <2>2 DEF TDrainDone, DrainDone, TypeOK, ChainsOK
  <2>3. CASE ~TStart /\ ~(\E w \in Worker : TDrainDone(w))
    BY <2>3
    DEF TArrive, Arrive, TResize, ResizeToPrefill, ResizeToDecode, TStopAtQuiescence,
        StopAtQuiescence, timedVars, vars
  <2>4. QED BY <2>1, <2>2, <2>3
<1>5. \A d \in D : pc'[d] = pc[d] /\ job'[d] = job[d] /\ due'[d] = due[d]
  <2>1. CASE TStart
    <3>1. D = {}
      BY <1>1, <2>1 DEF TStart, Start, TypeInv, NothingBeforeStart
    <3>2. QED BY <3>1
  <2>2. ASSUME NEW w \in Worker, TDrainDone(w)
        PROVE  \A d \in D : pc'[d] = pc[d] /\ due'[d] = due[d]
    <3>1. ~stopped
      BY <2>2 DEF AtRest, Quiescent, TDrainDone
    <3>2. epoch \in [Worker -> 0 .. MaxFlips] /\ epoch' \in [Worker -> 0 .. MaxFlips]
          /\ pc \in [Chain -> PC] /\ due \in [Chain -> Int]
      BY <1>1, <2>2 DEF TimeInv, TimeOK, CountInv, TypeInv, TypeOK, PoolsOK, ChainsOK
    <3>3. epoch'[w] = epoch[w] + 1
      BY <2>2, <3>1, <3>2 DEF TDrainDone, DrainDone
    <3>4. PICK n \in Chain : n = <<w, epoch[w] + 1>>
      BY <3>2, <3>3, ChainFacts
    <3>5. pc[n] = "unborn"
      BY <1>1, <3>2, <3>4, ChainFacts DEF TypeInv, EpochsBorn
    <3>6. /\ pc' = [pc EXCEPT ![n] = IF drain[w] = "prefill" THEN "prefillStep" ELSE "decodeStep"]
          /\ due' = [due EXCEPT ![n] = now']
      BY <2>2, <3>1, <3>3, <3>4 DEF TDrainDone, DrainDone
    <3>7. QED BY <3>2, <3>5, <3>6
  <2>3. CASE ~TStart /\ ~(\E w \in Worker : TDrainDone(w))
    BY <1>2, <2>3
    DEF TArrive, Arrive, TResize, ResizeToPrefill, ResizeToDecode, TStopAtQuiescence,
        StopAtQuiescence, timedVars, timeVars, vars
  <2>4. QED BY <1>2, <2>1, <2>2, <2>3
<1>6. D \in SUBSET Chain
  OBVIOUS
<1> HIDE DEF D
<1>7. (\A d \in D : TakenOnTime(d)') /\ DecodeExact'
  BY <1>1, <1>2, <1>3, <1>5, <1>6, DecodeStill
<1>8. \A d \in Chain : TakenOnTime(d)'
  <2>1. ASSUME NEW d \in Chain, d \notin D PROVE TakenOnTime(d)'
    BY <1>4, <2>1 DEF TakenOnTime
  <2>2. QED BY <1>7, <2>1
<1>9. QED BY <1>2, <1>7, <1>8 DEF DecodeInv

LEMMA DecodeStepInv ==
  (TimeInv /\ AtRest /\ DecodeInv) /\ [TNext]_timedVars => (TimeInv /\ AtRest /\ DecodeInv)'
<1> SUFFICES ASSUME TimeInv, AtRest, DecodeInv, [TNext]_timedVars
             PROVE  TimeInv' /\ AtRest' /\ DecodeInv'
  OBVIOUS
<1>1. TimeInv' /\ AtRest'
  BY TimeStep
<1>2. OutputInv'
  BY TimedStepRefines, OutputStep DEF TimeInv, CountInv, DecodeInv
<1>3. ASSUME NEW c \in Chain, TChainStep(c) PROVE DecodeInv'
  BY <1>2, <1>3, DecodeIdle, DecodeAdmit, DecodeHandOff, DecodeTakeFinished, DecodeTake,
     DecodeOneMore, DecodeComplete DEF TChainStep
<1>4. CASE ~(\E c \in Chain : TChainStep(c))
  BY <1>1, <1>2, <1>4, DecodeOthers DEF TNext, TTerminated, Terminated, timedVars
<1>5. QED BY <1>1, <1>3, <1>4

LEMMA DecodeInit == TInit => DecodeInv
<1> SUFFICES ASSUME TInit PROVE DecodeInv
  OBVIOUS
<1>1. OutputInv
  BY OutputInit DEF TInit
<1>2. \A r \in Request : at[r].take \in Int
  BY DEF TInit, Moment
<1>3. finished = {} /\ \A c \in Chain : pc[c] # "decode"
  BY DEF TInit, Init
<1>4. DecodeExact
  BY <1>3 DEF DecodeExact
<1>5. \A c \in Chain : TakenOnTime(c)
  BY <1>3 DEF TakenOnTime
<1>6. QED BY <1>1, <1>2, <1>4, <1>5 DEF DecodeInv

\* Once taken up, a request's prefill with its transfer, and its decoding, take what they
\* would take alone, for any speeds, loads, polls and flips, and whatever else runs.
THEOREM ServiceExactHolds == TSpec => []ServiceExact
<1>1. TimeInv /\ AtRest /\ DecodeInv => ServiceExact
  BY DEF TimeInv, DecodeInv, ServiceExact
<1>2. QED BY TimeInit, DecodeInit, DecodeStepInv, <1>1, PTL DEF TSpec

-----------------------------------------------------------------------------
(* The end of a run *)

Idling(c) == pc[c] \in {"prefillStep", "decodeStep"}

\* The clock never goes back, and nothing on it is further off than its delay.
ClockInv ==
  /\ now \in Nat /\ nextArrival \in Int
  /\ \A u \in Pending : now <= u
  /\ ~started => now = 0 /\ \A c \in Chain : due[c] = 0
  /\ \A c \in Chain : Idling(c) => due[c] <= now + MaxIdle
  /\ \A w \in Worker : drainDue[w] <= now + DrainTime
  /\ \A r \in Request : at[r].done \in Int /\ at[r].done <= now

\* The moments LastWork is the last of.
Works == {0} \cup {at[r].done : r \in 1 .. arrived} \cup {drainDue[w] : w \in Worker}
WithinReach(v) == \E x \in Works : v <= x + MaxIdle

\* Every request has met its fate, and none will come.
Settled == arrivalsDone /\ finished \cup rejected = 1 .. arrived

\* From then on the clock, and all that is left on it, is within reach of the last work.
PromptInv == Settled => \A v \in Pending \cup {now} : WithinReach(v)

ClockOK == TimeInv /\ AtRest /\ ClockInv /\ PromptInv

\* The delays of chains are not negative, and an idle poll is never longer than MaxIdle.
LEMMA DelayBounds ==
  /\ \A n \in Nat : PrefillTime(n) \in Nat /\ TransferTime(n) \in Nat /\ DecodeTime(n) \in Nat
  /\ \A d \in Int : NextIdle(d) \in 1 .. MaxIdle
<1>1. /\ PrefillSpeed \in Nat \ {0} /\ DecodeSpeed \in Nat \ {0} /\ BlockTransfer \in Nat
      /\ IdlePoll \in Nat \ {0} /\ MaxIdle \in Nat \ {0} /\ IdlePoll <= MaxIdle
  BY DelayAssumption
<1>2. ASSUME NEW n \in Nat PROVE PrefillTime(n) \in Nat
  BY <1>1 DEF PrefillTime
<1>3. ASSUME NEW n \in Nat PROVE TransferTime(n) \in Nat
  BY <1>1 DEF TransferTime
<1>4. ASSUME NEW n \in Nat PROVE DecodeTime(n) \in Nat
  <2>1. \E x \in {n, 1} : \A y \in {n, 1} : x >= y
    OBVIOUS
  <2>2. Max({n, 1}) \in {n, 1}
    BY <2>1 DEF Max
  <2>3. QED BY <1>1, <2>2 DEF DecodeTime
<1>5. ASSUME NEW d \in Int PROVE NextIdle(d) \in 1 .. MaxIdle
  <2>1. CASE d <= 0
    BY <1>1, <2>1 DEF NextIdle
  <2>2. CASE d > 0
    <3>1. \E x \in {2 * d, MaxIdle} : \A y \in {2 * d, MaxIdle} : x <= y
      BY <1>1
    <3>2. Min({2 * d, MaxIdle}) \in {2 * d, MaxIdle}
          /\ Min({2 * d, MaxIdle}) <= MaxIdle
      BY <3>1 DEF Min
    <3>3. QED BY <1>1, <2>2, <3>2 DEF NextIdle
  <2>3. QED BY <2>1, <2>2
<1>6. QED BY <1>2, <1>3, <1>4, <1>5

\* A gap between arrivals is a time, whatever the load.
LEMMA GapsNat == \A t : Gaps(t) \subseteq Nat
<1> SUFFICES ASSUME NEW t PROVE Gaps(t) \subseteq Nat
  OBVIOUS
<1>1. RateAt(t) \in Nat
  <2>1. InBurst(t) \subseteq BurstAt /\ IsFiniteSet(BurstAt)
    BY BurstAssumption DEF InBurst
  <2>2. /\ Cardinality(InBurst(t)) \in Nat /\ Cardinality(BurstAt) \in Nat
        /\ Cardinality(InBurst(t)) <= Cardinality(BurstAt)
    BY <2>1, FS_Subset, FS_CardinalityType
  <2>3. Bursting(Cardinality(InBurst(t))) \in Nat
    BY <2>2, BurstAssumption
  <2>4. Rate \in Nat
    BY DelayAssumption
  <2>5. QED BY <2>3, <2>4 DEF RateAt
<1>2. Second \in Nat /\ Never \in Nat /\ Draws \subseteq Nat
  BY DelayAssumption
<1>3. CASE RateAt(t) = 0
  BY <1>2, <1>3 DEF Gaps
<1>4. CASE RateAt(t) # 0
  <2>1. Second \div RateAt(t) \in Nat
    BY <1>1, <1>2, <1>4
  <2>2. \A k \in Draws : k * (Second \div RateAt(t)) \in Nat
    BY <1>2, <2>1
  <2>3. QED BY <1>4, <2>2 DEF Gaps
<1>5. QED BY <1>3, <1>4

LEMMA NextArrivalLater ==
  ASSUME NEW t \in Int, nextArrival \in Int, NextArrival(t)
  PROVE  nextArrival' \in Int /\ (arrivalsDone' \/ t <= nextArrival')
BY GapsNat DEF NextArrival

\* All of it is whole numbers.
ClockInt == Pending \subseteq Int /\ Works \subseteq Int

LEMMA ClockInts == TimeInv /\ ClockInv => ClockInt
<1> SUFFICES ASSUME TimeInv, ClockInv PROVE ClockInt
  OBVIOUS
<1>1. due \in [Chain -> Int] /\ drainDue \in [Worker -> Int]
  BY DEF TimeInv, TimeOK
<1>2. Pending \subseteq Int
  BY <1>1 DEF Pending, ClockInv
<1>3. \A r \in 1 .. arrived : r \in Request
  BY BoundAssumption DEF TimeInv, CountInv, TypeInv, TypeOK, LoadOK, Request
<1>4. Works \subseteq Int
  BY <1>1, <1>3 DEF Works, ClockInv
<1>5. QED BY <1>2, <1>4 DEF ClockInt

LEMMA ClockIntsNext == TimeInv' /\ ClockInv' => ClockInt'
BY ClockInts, PTL

\* A bounded set of moments has a last one.
LEMMA LastMoment ==
  ASSUME NEW S \in SUBSET Int, S # {}, NEW B \in Int, \A x \in S : x <= B
  PROVE  Max(S) \in S /\ \A x \in S : x <= Max(S)
<1> DEFINE T == {B - x : x \in S}
<1>1. T \subseteq Nat /\ T # {}
  <2>1. PICK y \in S : TRUE
    OBVIOUS
  <2>2. B - y \in T
    BY <2>1
  <2>3. \A x \in S : B - x \in Nat
    OBVIOUS
  <2>4. QED BY <2>2, <2>3
<1>2. PICK n \in T : \A m \in T : n <= m
  BY <1>1, LeastNumber
<1>3. PICK x \in S : n = B - x
  BY <1>2
<1>4. ASSUME NEW y \in S PROVE x >= y
  <2>1. B - x <= B - y
    BY <1>2, <1>3
  <2>2. QED BY <2>1
<1>5. \E z \in S : \A y \in S : z >= y
  BY <1>4
<1>6. Max(S) \in S /\ \A y \in S : Max(S) >= y
  BY <1>5 DEF Max
<1>7. QED BY <1>6

\* Works has a last moment: it is bounded by the clock and the drains on it.
LEMMA LastWorkIsLast ==
  ASSUME TimeInv, ClockInv
  PROVE  LastWork \in Int /\ \A x \in Works : x <= LastWork
<1> DEFINE B == now + DrainTime
<1>1. Works \subseteq Int
  BY ClockInts DEF ClockInt
<1>2. now \in Nat /\ DrainTime \in Nat /\ B \in Int
  BY DelayAssumption DEF ClockInv
<1>3. ASSUME NEW x \in Works PROVE x <= B
  <2>1. CASE x = 0
    BY <1>2, <2>1
  <2>2. ASSUME NEW r \in 1 .. arrived, x = at[r].done PROVE x <= B
    <3>1. r \in Request
      BY BoundAssumption DEF TimeInv, CountInv, TypeInv, TypeOK, LoadOK, Request
    <3>2. QED BY <1>2, <2>2, <3>1 DEF ClockInv
  <2>3. ASSUME NEW w \in Worker, x = drainDue[w] PROVE x <= B
    BY <2>3 DEF ClockInv
  <2>4. QED BY <2>1, <2>2, <2>3 DEF Works
<1>4. Works # {}
  BY DEF Works
<1> HIDE DEF B
<1>5. Max(Works) \in Works /\ \A y \in Works : y <= Max(Works)
  BY <1>1, <1>2, <1>3, <1>4, LastMoment
<1>6. LastWork = Max(Works)
  BY DEF LastWork, Works
<1>7. QED BY <1>1, <1>5, <1>6

LEMMA RetiresInTime == ClockOK => RetiresPromptly
<1> SUFFICES ASSUME ClockOK, Settled PROVE now <= LastWork + MaxIdle
  BY DEF RetiresPromptly, Settled
<1>1. PICK x \in Works : now <= x + MaxIdle
  BY DEF ClockOK, PromptInv, WithinReach
<1>2. LastWork \in Int /\ x <= LastWork
  BY LastWorkIsLast DEF ClockOK
<1>3. x \in Int /\ now \in Int /\ MaxIdle \in Int
  BY ClockInts, DelayAssumption DEF ClockOK, ClockInt, ClockInv
<1>4. QED BY <1>1, <1>2, <1>3

-----------------------------------------------------------------------------
(* What a step does to the clock *)

\* An event is no earlier than the clock, and what it adds is no earlier than itself.
LEMMA ClockMoves ==
  ASSUME TimeInv, TimeInv', ClockInv, started', now' \in Int, now <= now',
         nextArrival' \in Int,
         \A u \in Pending : now' <= u,
         \A u \in Pending' : u \in Pending \/ now' <= u,
         \A c \in Chain : Idling(c)' =>
           due'[c] <= now' + MaxIdle \/ (Idling(c) /\ due'[c] = due[c]),
         \A w \in Worker : drainDue'[w] = drainDue[w] \/ drainDue'[w] = now' + DrainTime,
         \A r \in Request : at'[r].done = at[r].done \/ at'[r].done = now'
  PROVE  ClockInv'
<1>1. /\ due \in [Chain -> Int] /\ drainDue \in [Worker -> Int] /\ now \in Nat
      /\ MaxIdle \in Nat /\ DrainTime \in Nat
  BY DelayAssumption DEF TimeInv, TimeOK, ClockInv
<1>2. now' \in Nat
  BY <1>1
<1>3. \A u \in Pending' : now' <= u
  OBVIOUS
<1>4. ASSUME NEW c \in Chain, Idling(c)' PROVE due'[c] <= now' + MaxIdle
  BY <1>1, <1>4 DEF ClockInv
<1>5. ASSUME NEW w \in Worker PROVE drainDue'[w] <= now' + DrainTime
  BY <1>1 DEF ClockInv
<1>6. ASSUME NEW r \in Request PROVE at'[r].done \in Int /\ at'[r].done <= now'
  BY <1>1 DEF ClockInv
<1>7. QED BY <1>2, <1>3, <1>4, <1>5, <1>6 DEF ClockInv

\* A chain's step re-arms the chain, and may settle one request, now.
LEMMA ChainClock ==
  ASSUME TimeInv, NEW c \in Chain, TChainStep(c)
  PROVE  /\ UNCHANGED <<nextArrival, drainDue, drain, started, arrivalsDone, arrived>>
         /\ Live(c)' => now' <= due'[c]
         /\ Idling(c)' => due'[c] <= now' + MaxIdle
         /\ \/ finished' \cup rejected' = finished \cup rejected
               /\ \A r \in Request : at'[r].done = at[r].done
            \/ \E x \in Request : /\ x \in finished' \cup rejected' /\ at'[x].done = now'
                                  /\ \A r \in Request \ {x} : at'[r].done = at[r].done
<1>1. /\ pc \in [Chain -> PC] /\ idle \in [Chain -> Int] /\ DOMAIN at = Request
      /\ prompt \in [Request -> Nat] /\ generated \in [Request -> Nat]
      /\ queue \in Seq(Request) /\ decodeQueue \in Seq(Request)
      /\ finished \subseteq Request /\ rejected \subseteq Request
      /\ TimeOK /\ TypeInv
  BY DEF TimeInv, TimeOK, CountInv, TypeInv, TypeOK, LoadOK, WorkOK, FateOK, ChainsOK
<1>2. /\ IdlePoll \in Nat /\ MaxIdle \in Nat /\ IdlePoll <= MaxIdle /\ idle[c] \in Int
  BY <1>1, DelayAssumption
<1>3. UNCHANGED <<nextArrival, drainDue, drain, started, arrivalsDone, arrived>>
  BY DEF TChainStep, Ends, Exit, Retire, PrefillPoll, DecodePoll, TAdmit, Admit, TReject,
         Reject, TPrefillDone, PrefillDone, THandOff, HandOff, TTakeFinished, TTakeHandoff,
         TakeHandoff, TDecodeToken, DecodeToken, TComplete, Complete, vars, loadVars,
         poolVars, Rearm
\* What a re-armed chain has to show.
<1>4. ASSUME NEW d \in Nat, NEW i \in Int, Fires(c), Rearm(c, d, i),
             Idling(c)' => d <= MaxIdle
      PROVE  (Live(c)' => now' <= due'[c]) /\ (Idling(c)' => due'[c] <= now' + MaxIdle)
  <2>1. now' \in Int /\ due'[c] = now' + d
    BY <1>1, <1>4, RearmOne
  <2>2. now' <= due'[c] /\ (d <= MaxIdle => due'[c] <= now' + MaxIdle)
    BY <1>2, <2>1
  <2>3. QED BY <1>4, <2>2
\* What a stamp has to show.
<1>5. ASSUME NEW x \in Request, NEW S \in SUBSET Moment, Stamp(x, S), "done" \notin S
      PROVE  \A r \in Request : at'[r].done = at[r].done
  BY <1>1, <1>5, StampOne DEF Moment
<1>6. ASSUME NEW x \in Request, NEW S \in SUBSET Moment, Stamp(x, S), "done" \in S
      PROVE  at'[x].done = now' /\ \A r \in Request \ {x} : at'[r].done = at[r].done
  BY <1>1, <1>6, StampOne DEF Moment
<1>7. CASE Ends(c)
  <2>1. pc'[c] \in Ended /\ UNCHANGED <<finished, rejected, at>>
    BY <1>1, <1>7 DEF Ends, Exit, Retire, Ended, fateVars
  <2>2. QED BY <1>3, <2>1 DEF Live, Idling, Ended
<1>8. CASE PrefillPoll(c) \/ DecodePoll(c)
  <2>1. NextIdle(idle[c]) \in 1 .. MaxIdle
    BY <1>2, DelayBounds
  <2>2. NextIdle(NextIdle(idle[c])) \in 1 .. MaxIdle
    BY <2>1, DelayBounds
  <2>3. UNCHANGED <<finished, rejected, at>>
    BY <1>8 DEF PrefillPoll, DecodePoll, vars, fateVars
  <2>4. (Live(c)' => now' <= due'[c]) /\ (Idling(c)' => due'[c] <= now' + MaxIdle)
    BY <1>2, <1>4, <1>8, <2>1, <2>2 DEF PrefillPoll, DecodePoll, BackoffStep
  <2>5. QED BY <1>3, <2>3, <2>4
<1>9. CASE TAdmit(c)
  <2>1. Head(queue) \in Request
    BY <1>1, <1>9, PopTypes DEF TAdmit, Admit
  <2>2. PrefillTime(prompt[Head(queue)]) \in Nat
    BY <1>1, <2>1, DelayBounds
  <2>3. ~Idling(c)' /\ UNCHANGED <<finished, rejected>>
    BY <1>1, <1>9 DEF TAdmit, Admit, Idling
  <2>4. \A r \in Request : at'[r].done = at[r].done
    BY <1>5, <1>9, <2>1 DEF TAdmit, Moment
  <2>5. (Live(c)' => now' <= due'[c]) /\ (Idling(c)' => due'[c] <= now' + MaxIdle)
    BY <1>4, <1>9, <2>2, <2>3 DEF TAdmit
  <2>6. QED BY <1>3, <2>3, <2>4, <2>5
<1>10. CASE TReject(c)
  <2>1. Head(queue) \in Request
    BY <1>1, <1>10, PopTypes DEF TReject, Reject
  <2>2. Head(queue) \in rejected'
    BY <1>10 DEF TReject, Reject
  <2>3. /\ at'[Head(queue)].done = now'
        /\ \A r \in Request \ {Head(queue)} : at'[r].done = at[r].done
    BY <1>6, <1>10, <2>1 DEF TReject, Moment
  <2>4. (Live(c)' => now' <= due'[c]) /\ (Idling(c)' => due'[c] <= now' + MaxIdle)
    BY <1>2, <1>4, <1>10 DEF TReject
  <2>5. QED BY <1>3, <2>1, <2>2, <2>3, <2>4
<1>11. CASE TPrefillDone(c)
  <2>1. job[c] \in Request
    BY <1>1, <1>11, JobOfChain DEF TPrefillDone, PrefillDone
  <2>2. TransferTime(BlocksNeeded(prompt[job[c]])) \in Nat
    BY <1>1, <2>1, DelayBounds, BlocksNat
  <2>3. ~Idling(c)' /\ UNCHANGED <<finished, rejected, at>>
    BY <1>1, <1>11 DEF TPrefillDone, PrefillDone, Idling, fateVars
  <2>4. (Live(c)' => now' <= due'[c]) /\ (Idling(c)' => due'[c] <= now' + MaxIdle)
    BY <1>4, <1>11, <2>2, <2>3 DEF TPrefillDone
  <2>5. QED BY <1>3, <2>3, <2>4
<1>12. CASE THandOff(c)
  <2>1. job[c] \in Request
    BY <1>1, <1>12, JobOfChain DEF THandOff, HandOff
  <2>2. UNCHANGED <<finished, rejected>>
    BY <1>12 DEF THandOff, HandOff, fateVars
  <2>3. \A r \in Request : at'[r].done = at[r].done
    BY <1>5, <1>12, <2>1 DEF THandOff, Moment
  <2>4. (Live(c)' => now' <= due'[c]) /\ (Idling(c)' => due'[c] <= now' + MaxIdle)
    BY <1>2, <1>4, <1>12 DEF THandOff
  <2>5. QED BY <1>3, <2>2, <2>3, <2>4
<1>13. CASE TTakeFinished(c)
  <2>1. Head(decodeQueue) \in Request
    BY <1>1, <1>13, PopTypes DEF TTakeFinished, TakeHandoff
  <2>2. Head(decodeQueue) \in finished'
    BY <1>1, <1>13 DEF TTakeFinished, TakeHandoff, Finish
  <2>3. /\ at'[Head(decodeQueue)].done = now'
        /\ \A r \in Request \ {Head(decodeQueue)} : at'[r].done = at[r].done
    BY <1>6, <1>13, <2>1 DEF TTakeFinished, Moment
  <2>4. (Live(c)' => now' <= due'[c]) /\ (Idling(c)' => due'[c] <= now' + MaxIdle)
    BY <1>2, <1>4, <1>13 DEF TTakeFinished
  <2>5. QED BY <1>3, <2>1, <2>2, <2>3, <2>4
<1>14. CASE TTakeHandoff(c)
  <2> DEFINE r == Head(decodeQueue)
  <2>1. r \in Request
    BY <1>1, <1>14, PopTypes DEF TTakeHandoff, TakeHandoff
  <2>2. DecodeTime(prompt[r] + generated[r]) \in Nat
    <3>1. prompt[r] + generated[r] \in Nat
      BY <1>1, <2>1
    <3>2. QED BY <3>1, DelayBounds
  <2>3. ~Idling(c)' /\ UNCHANGED <<finished, rejected>>
    BY <1>1, <1>14 DEF TTakeHandoff, TakeHandoff, Idling
  <2>4. \A q \in Request : at'[q].done = at[q].done
    BY <1>5, <1>14, <2>1 DEF TTakeHandoff, Moment
  <2>5. (Live(c)' => now' <= due'[c]) /\ (Idling(c)' => due'[c] <= now' + MaxIdle)
    BY <1>4, <1>14, <2>2, <2>3 DEF TTakeHandoff
  <2>6. QED BY <1>3, <2>3, <2>4, <2>5
<1>15. CASE TDecodeToken(c)
  <2>1. job[c] \in Request /\ generated' \in [Request -> Nat]
    BY <1>1, <1>15, JobOfChain DEF TDecodeToken, DecodeToken
  <2>2. DecodeTime(prompt[job[c]] + generated'[job[c]]) \in Nat
    <3>1. prompt[job[c]] + generated'[job[c]] \in Nat
      BY <1>1, <2>1
    <3>2. QED BY <3>1, DelayBounds
  <2>3. ~Idling(c)' /\ UNCHANGED <<finished, rejected, at>>
    BY <1>1, <1>15 DEF TDecodeToken, DecodeToken, Idling, fateVars
  <2>4. (Live(c)' => now' <= due'[c]) /\ (Idling(c)' => due'[c] <= now' + MaxIdle)
    BY <1>4, <1>15, <2>2, <2>3 DEF TDecodeToken
  <2>5. QED BY <1>3, <2>3, <2>4
<1>16. CASE TComplete(c)
  <2>1. job[c] \in Request
    BY <1>1, <1>16, JobOfChain DEF TComplete, Complete
  <2>2. job[c] \in finished'
    BY <1>16 DEF TComplete, Complete, Finish
  <2>3. at'[job[c]].done = now' /\ \A r \in Request \ {job[c]} : at'[r].done = at[r].done
    BY <1>6, <1>16, <2>1 DEF TComplete, Moment
  <2>4. (Live(c)' => now' <= due'[c]) /\ (Idling(c)' => due'[c] <= now' + MaxIdle)
    BY <1>2, <1>4, <1>16 DEF TComplete
  <2>5. QED BY <1>3, <2>1, <2>2, <2>3, <2>4
<1>17. QED BY <1>7, <1>8, <1>9, <1>10, <1>11, <1>12, <1>13, <1>14, <1>15, <1>16
       DEF TChainStep

LEMMA ClockChain ==
  ASSUME TimeInv, TimeInv', ClockInv, NEW c \in Chain, TChainStep(c)
  PROVE  ClockInv' /\ now' \in Pending /\ \A u \in Pending : now' <= u
<1>1. /\ \A d \in Chain \ {c} : pc'[d] = pc[d] /\ due'[d] = due[d]
      /\ Fires(c) /\ now' = due[c] /\ now' \in Int
  BY ChainAlone
<1>2. /\ UNCHANGED <<nextArrival, drainDue, drain, started, arrivalsDone, arrived>>
      /\ Live(c)' => now' <= due'[c]
      /\ Idling(c)' => due'[c] <= now' + MaxIdle
      /\ \A r \in Request : at'[r].done = at[r].done \/ at'[r].done = now'
  BY ChainClock
<1>3. now' \in Pending /\ (\A u \in Pending : now' <= u)
  BY <1>1 DEF Fires, Advance, Earliest, Pending
<1>4. now <= now'
  BY <1>3 DEF ClockInv
<1>5. started'
  <2>1. pc[c] # "unborn"
    BY <1>1 DEF Fires, Live, Ended
  <2>2. started
    BY <2>1 DEF TimeInv, CountInv, TypeInv, TypeOK, NothingBeforeStart
  <2>3. QED BY <1>2, <2>2
<1>6. ASSUME NEW u \in Pending' PROVE u \in Pending \/ now' <= u
  BY <1>1, <1>2 DEF Pending, Live
<1>7. \A d \in Chain : Idling(d)' =>
        due'[d] <= now' + MaxIdle \/ (Idling(d) /\ due'[d] = due[d])
  BY <1>1, <1>2 DEF Idling
<1>8. nextArrival' \in Int
  BY <1>2 DEF ClockInv
<1>9. ClockInv'
  BY <1>1, <1>2, <1>3, <1>4, <1>5, <1>6, <1>7, <1>8, ClockMoves
<1>10. QED BY <1>3, <1>9

LEMMA ClockStart == TimeInv /\ TimeInv' /\ ClockInv /\ TStart => ClockInv'
<1> SUFFICES ASSUME TimeInv, TimeInv', ClockInv, TStart PROVE ClockInv'
  OBVIOUS
<1>1. /\ UNCHANGED <<now, due, drainDue, at, drain>> /\ started' /\ ~started
      /\ NextArrival(0)
  BY DEF TStart, Start, poolVars
<1>2. /\ now = 0 /\ (\A c \in Chain : due[c] = 0)
      /\ (\A w \in Worker : drain[w] = "none")
  BY <1>1 DEF ClockInv, TimeInv, CountInv, TypeInv, NothingBeforeStart
<1>3. nextArrival' \in Int /\ (arrivalsDone' \/ 0 <= nextArrival')
  BY <1>1, NextArrivalLater DEF ClockInv
<1>4. ASSUME NEW u \in Pending' PROVE now' <= u
  BY <1>1, <1>2, <1>3, <1>4 DEF Pending
<1>5. now \in Nat /\ MaxIdle \in Nat
  BY DelayAssumption DEF ClockInv
<1>6. \A c \in Chain : due'[c] <= now' + MaxIdle
  BY <1>1, <1>2, <1>5
<1>7. QED BY <1>1, <1>3, <1>4, <1>6 DEF ClockInv

\* While the engine accepts requests, an arrival pushes one.
LEMMA ArriveMoves ==
  ASSUME TimeInv, TimeInv', AtRest, ClockInv, TArrive
  PROVE  /\ now' = nextArrival /\ now' \in Int /\ now' \in Pending
         /\ (\A u \in Pending : now' <= u)
         /\ UNCHANGED <<due, drainDue, drain, pc, started>> /\ started
         /\ nextArrival' \in Int /\ (arrivalsDone' \/ now' <= nextArrival')
         /\ \A r \in Request : at'[r].done = at[r].done
         /\ ~Settled'
<1>1. ~stopped /\ Arrive /\ started /\ ~arrivalsDone
  BY DEF TArrive, AtRest, Quiescent
<1>2. now' = nextArrival /\ now' \in Int /\ (\A u \in Pending : now' <= u)
  BY DEF TArrive, Advance, Earliest, ClockInv
<1>3. now' \in Pending
  BY <1>1, <1>2 DEF Pending
<1>4. UNCHANGED <<due, drainDue, drain, pc, started>>
  BY DEF TArrive, Arrive, poolVars
<1>5. nextArrival' \in Int /\ (arrivalsDone' \/ now' <= nextArrival')
  <2>1. NextArrival(now') /\ nextArrival \in Int
    BY DEF TArrive, ClockInv
  <2>2. QED BY <1>2, <2>1, NextArrivalLater
<1>6. \A r \in Request : at'[r].done = at[r].done
  <2>1. DOMAIN at = Request /\ Stamp(arrived', {"arrival"})
    BY DEF TimeInv, TimeOK, TArrive
  <2>2. QED BY <2>1, StampOne DEF Moment
<1>7. ~Settled'
  <2>1. /\ arrived \in Nat /\ arrived' = arrived + 1 /\ queue' = Append(queue, arrived')
        /\ queue \in Seq(Request) /\ arrived' \in Request
    <3>1. /\ arrived \in 0 .. MaxRequests /\ arrived' \in 0 .. MaxRequests
          /\ queue \in Seq(Request)
      BY DEF TimeInv, CountInv, TypeInv, TypeOK, LoadOK, WorkOK
    <3>2. arrived' = arrived + 1 /\ queue' = Append(queue, arrived')
      BY <1>1 DEF Arrive
    <3>3. QED BY <3>1, <3>2, BoundAssumption DEF Request
  <2>2. arrived' \in Waiting'
    BY <2>1, PushSet DEF Waiting
  <2>3. arrived' \notin finished' \cup rejected'
    BY <2>2 DEF TimeInv, CountInv, OnceInv, PlacesApart, Apart
  <2>4. arrived' \in 1 .. arrived'
    BY <2>1
  <2>5. QED BY <2>3, <2>4 DEF Settled
<1>8. QED BY <1>1, <1>2, <1>3, <1>4, <1>5, <1>6, <1>7

LEMMA ClockArrive == TimeInv /\ TimeInv' /\ AtRest /\ ClockInv /\ TArrive => ClockInv'
<1> SUFFICES ASSUME TimeInv, TimeInv', AtRest, ClockInv, TArrive PROVE ClockInv'
  OBVIOUS
<1>1. /\ now' = nextArrival /\ now' \in Int /\ now' \in Pending
      /\ (\A u \in Pending : now' <= u)
      /\ UNCHANGED <<due, drainDue, drain, pc, started>> /\ started
      /\ nextArrival' \in Int /\ (arrivalsDone' \/ now' <= nextArrival')
      /\ \A r \in Request : at'[r].done = at[r].done
  BY ArriveMoves
<1>2. now <= now'
  BY <1>1 DEF ClockInv
<1>3. ASSUME NEW u \in Pending' PROVE u \in Pending \/ now' <= u
  BY <1>1, <1>3 DEF Pending, Live
<1>4. \A c \in Chain : Idling(c)' => Idling(c) /\ due'[c] = due[c]
  BY <1>1 DEF Idling
<1>5. QED BY <1>1, <1>2, <1>3, <1>4, ClockMoves

\* A flip is called from a callback, before or at the next event.
LEMMA ResizeMoves ==
  ASSUME TimeInv, ClockInv, TResize
  PROVE  /\ now' \in Int /\ now <= now' /\ (\A u \in Pending : now' <= u) /\ Pending # {}
         /\ UNCHANGED <<due, pc, started, nextArrival, at, arrived, arrivalsDone, finished,
                        rejected>>
         /\ started
         /\ \A w \in Worker : \/ drainDue'[w] = drainDue[w] /\ drain'[w] = drain[w]
                              \/ drainDue'[w] = now' + DrainTime
<1>1. now' \in Int /\ now <= now' /\ (\A u \in Pending : now' <= u) /\ Pending # {}
  BY DelayAssumption DEF TResize, Advance, Earliest
<1>2. /\ UNCHANGED <<due, pc, started, nextArrival, at, arrived, arrivalsDone, finished,
                     rejected>>
      /\ started
  BY DEF TResize, ResizeToPrefill, ResizeToDecode, CallerFlips, loadVars, fateVars
<1>3. \A w \in Worker : \/ drainDue'[w] = drainDue[w] /\ drain'[w] = drain[w]
                        \/ drainDue'[w] = now' + DrainTime
  BY DEF TResize
<1>4. QED BY <1>1, <1>2, <1>3

LEMMA ClockResize == TimeInv /\ TimeInv' /\ ClockInv /\ TResize => ClockInv'
<1> SUFFICES ASSUME TimeInv, TimeInv', ClockInv, TResize PROVE ClockInv'
  OBVIOUS
<1>1. /\ now' \in Int /\ now <= now' /\ (\A u \in Pending : now' <= u)
      /\ UNCHANGED <<due, pc, started, nextArrival, at, arrivalsDone>> /\ started
      /\ \A w \in Worker : \/ drainDue'[w] = drainDue[w] /\ drain'[w] = drain[w]
                           \/ drainDue'[w] = now' + DrainTime
  BY ResizeMoves
<1>2. nextArrival' \in Int /\ DrainTime \in Nat
  BY <1>1, DelayAssumption DEF ClockInv
<1>3. ASSUME NEW u \in Pending' PROVE u \in Pending \/ now' <= u
  <2>1. now' <= now' + DrainTime
    BY <1>1, <1>2
  <2>2. QED BY <1>1, <1>3, <2>1 DEF Pending, Live
<1>4. \A c \in Chain : Idling(c)' => Idling(c) /\ due'[c] = due[c]
  BY <1>1 DEF Idling
<1>5. QED BY <1>1, <1>2, <1>3, <1>4, ClockMoves

\* A drain that is over starts one chain, at once.
LEMMA DrainMoves ==
  ASSUME TimeInv, AtRest, NEW w \in Worker, TDrainDone(w)
  PROVE  /\ now' = drainDue[w] /\ now' \in Pending /\ (\A u \in Pending : now' <= u)
         /\ UNCHANGED <<drainDue, started, nextArrival, at, arrived, arrivalsDone, finished,
                        rejected>>
         /\ started
         /\ \A v \in Worker : drain'[v] = drain[v] \/ drain'[v] = "none"
         /\ \A c \in Chain : (pc'[c] = pc[c] /\ due'[c] = due[c]) \/ due'[c] = now'
<1>1. ~stopped
  BY DEF AtRest, Quiescent, TDrainDone
<1>2. /\ epoch \in [Worker -> 0 .. MaxFlips] /\ drain \in [Worker -> RoleOrNone]
      /\ pc \in [Chain -> PC] /\ due \in [Chain -> Int]
  BY DEF TimeInv, TimeOK, CountInv, TypeInv, TypeOK, PoolsOK, ChainsOK
<1>3. /\ now' = drainDue[w] /\ now' \in Pending /\ (\A u \in Pending : now' <= u)
      /\ drain[w] # "none"
  BY DEF TDrainDone, Advance, Earliest, Pending
<1>4. /\ UNCHANGED <<drainDue, started, nextArrival, at, arrived, arrivalsDone, finished,
                     rejected>>
      /\ epoch' = [epoch EXCEPT ![w] = @ + 1] /\ drain' = [drain EXCEPT ![w] = "none"]
      /\ pc' = [pc EXCEPT ![<<w, epoch[w] + 1>>] =
                  IF drain[w] = "prefill" THEN "prefillStep" ELSE "decodeStep"]
      /\ due' = [due EXCEPT ![<<w, epoch'[w]>>] = now']
  BY <1>1 DEF TDrainDone, DrainDone, loadVars, fateVars
<1>5. epoch'[w] = epoch[w] + 1
  BY <1>2, <1>4
<1>6. \A c \in Chain : (pc'[c] = pc[c] /\ due'[c] = due[c]) \/ due'[c] = now'
  BY <1>2, <1>4, <1>5
<1>7. \A v \in Worker : drain'[v] = drain[v] \/ drain'[v] = "none"
  BY <1>2, <1>4
<1>8. started
  BY <1>3 DEF TimeInv, CountInv, TypeInv, TypeOK, NothingBeforeStart
<1>9. QED BY <1>3, <1>4, <1>6, <1>7, <1>8

LEMMA ClockDrainDone ==
  \A w \in Worker : TimeInv /\ TimeInv' /\ AtRest /\ ClockInv /\ TDrainDone(w) => ClockInv'
<1> SUFFICES ASSUME TimeInv, TimeInv', AtRest, ClockInv, NEW w \in Worker, TDrainDone(w)
             PROVE  ClockInv'
  OBVIOUS
<1>1. /\ now' = drainDue[w] /\ now' \in Pending /\ (\A u \in Pending : now' <= u)
      /\ UNCHANGED <<drainDue, started, nextArrival, at, arrived, arrivalsDone>> /\ started
      /\ \A v \in Worker : drain'[v] = drain[v] \/ drain'[v] = "none"
      /\ \A c \in Chain : (pc'[c] = pc[c] /\ due'[c] = due[c]) \/ due'[c] = now'
  BY DrainMoves
<1>2. now' \in Int /\ now <= now' /\ nextArrival' \in Int /\ MaxIdle \in Nat
  BY <1>1, DelayAssumption DEF ClockInv, TimeInv, TimeOK
<1>3. ASSUME NEW u \in Pending' PROVE u \in Pending \/ now' <= u
  BY <1>1, <1>2, <1>3 DEF Pending, Live
<1>4. ASSUME NEW c \in Chain, Idling(c)'
      PROVE  due'[c] <= now' + MaxIdle \/ (Idling(c) /\ due'[c] = due[c])
  BY <1>1, <1>2, <1>4 DEF Idling
<1>5. QED BY <1>1, <1>2, <1>3, <1>4, ClockMoves

LEMMA ClockSame ==
  ASSUME ClockInv, TStopAtQuiescence \/ TTerminated \/ UNCHANGED timedVars
  PROVE  ClockInv'
<1>1. UNCHANGED <<now, nextArrival, started, arrivalsDone, due, drainDue, drain, pc, at>>
  BY DEF TStopAtQuiescence, StopAtQuiescence, TTerminated, Terminated, timedVars, timeVars,
         vars, loadVars, poolVars
<1>2. Pending' = Pending /\ \A c \in Chain : Idling(c)' = Idling(c)
  BY <1>1 DEF Pending, Live, Idling
<1>3. QED BY <1>1, <1>2 DEF ClockInv

LEMMA ClockStep ==
  TimeInv /\ TimeInv' /\ AtRest /\ ClockInv /\ [TNext]_timedVars => ClockInv'
<1> SUFFICES ASSUME TimeInv, TimeInv', AtRest, ClockInv, [TNext]_timedVars PROVE ClockInv'
  OBVIOUS
<1>1. CASE \E c \in Chain : TChainStep(c)
  BY <1>1, ClockChain
<1>2. CASE TStart \/ TArrive \/ TResize
  BY <1>2, ClockStart, ClockArrive, ClockResize
<1>3. CASE \E w \in Worker : TDrainDone(w)
  BY <1>3, ClockDrainDone
<1>4. CASE TStopAtQuiescence \/ TTerminated \/ UNCHANGED timedVars
  BY <1>4, ClockSame
<1>5. QED BY <1>1, <1>2, <1>3, <1>4 DEF TNext

-----------------------------------------------------------------------------
(* Once every request has settled *)

NothingRuns == \A c \in Chain : pc[c] \notin {"prefill", "transfer", "decode"}

\* Nothing is queued, held or admitted any more.
LEMMA SettledEmpty ==
  ASSUME CountInv, Settled
  PROVE  queue = <<>> /\ decodeQueue = <<>> /\ CanRetire /\ NothingRuns
<1>1. Waiting = {} /\ Handed = {} /\ Held = {}
  BY DEF CountInv, OnceInv, PlacesApart, PlacesCover, Apart, Settled
<1>2. /\ queue \in Seq(Request) /\ decodeQueue \in Seq(Request)
      /\ Once(queue) /\ Once(decodeQueue)
  BY RequestFacts, InOrderOnce DEF CountInv, OnceInv, TypeInv, TypeOK, WorkOK
<1>3. queue = <<>> /\ decodeQueue = <<>>
  BY <1>1, <1>2, PopSet DEF Waiting, Handed
<1>4. inflight = 0
  BY <1>1, FS_EmptySet DEF CountInv, InFlightExact
<1>5. CanRetire
  BY <1>3, <1>4 DEF CanRetire, WorkPending, Settled
<1>6. \A c \in Chain : job[c] = NoRequest
  BY <1>1 DEF Held
<1>7. NothingRuns
  BY <1>6 DEF CountInv, TypeInv, JobMatchesPC, NothingRuns
<1>8. QED BY <1>3, <1>5, <1>7

LEMMA SettledEmptyNext == CountInv' /\ Settled' => NothingRuns'
<1>1. CountInv /\ Settled => NothingRuns
  BY SettledEmpty
<1>2. QED BY <1>1, PTL

\* When the last of them settles it does so now: what is left are idle polls, and drains.
LEMMA PromptBegins ==
  ASSUME TimeInv', ClockInv', Settled', now' \in Works'
  PROVE  PromptInv'
<1>1. Pending' \subseteq Int /\ Works' \subseteq Int /\ MaxIdle \in Nat
  BY ClockIntsNext, DelayAssumption DEF ClockInt
<1>2. ASSUME NEW v \in Pending' \cup {now'} PROVE \E x \in Works' : v <= x + MaxIdle
  <2>1. CASE v = now'
    BY <1>1, <2>1
  <2>2. ASSUME NEW c \in Chain, Live(c)', v = due'[c]
        PROVE  \E x \in Works' : v <= x + MaxIdle
    <3>1. pc'[c] \notin {"prefill", "transfer", "decode"} /\ pc' \in [Chain -> PC]
      BY SettledEmptyNext DEF NothingRuns, TimeInv, CountInv, TypeInv, TypeOK, ChainsOK
    <3>2. Idling(c)'
      BY <2>2, <3>1 DEF Live, Idling, PC
    <3>3. v <= now' + MaxIdle
      BY <2>2, <3>2 DEF ClockInv
    <3>4. QED BY <3>3
  <2>3. ASSUME NEW w \in Worker, v = drainDue'[w]
        PROVE  \E x \in Works' : v <= x + MaxIdle
    <3>1. v \in Works'
      BY <2>3 DEF Works
    <3>2. QED BY <1>1, <3>1
  <2>4. arrivalsDone'
    BY DEF Settled
  <2>5. QED BY <1>2, <2>1, <2>2, <2>3, <2>4 DEF Pending
<1>3. QED BY <1>2 DEF PromptInv, WithinReach

\* From then on whatever is put on the clock is no later than what was there.
LEMMA PromptStays ==
  ASSUME TimeInv, ClockInv, TimeInv', ClockInv', PromptInv, Settled,
         \A x \in Works : \E y \in Works' : x <= y,
         \A v \in Pending' \cup {now'} :
           (\E u \in Pending \cup {now} : v <= u) \/ v \in Works'
  PROVE  PromptInv'
<1>1. Pending' \subseteq Int /\ Works' \subseteq Int /\ now' \in Int /\ MaxIdle \in Nat
  BY ClockIntsNext, DelayAssumption DEF ClockInt, ClockInv
<1>2. Pending \subseteq Int /\ Works \subseteq Int /\ now \in Int
  BY ClockInts DEF ClockInt, ClockInv
<1>3. ASSUME NEW v \in Pending' \cup {now'} PROVE \E x \in Works' : v <= x + MaxIdle
  <2>1. CASE v \in Works'
    BY <1>1, <2>1
  <2>2. ASSUME NEW u \in Pending \cup {now}, v <= u PROVE \E x \in Works' : v <= x + MaxIdle
    <3>1. PICK x \in Works : u <= x + MaxIdle
      BY DEF PromptInv, WithinReach
    <3>2. PICK y \in Works' : x <= y
      OBVIOUS
    <3>3. v \in Int /\ u \in Int /\ x \in Int /\ y \in Int
      BY <1>1, <1>2
    <3>4. v <= y + MaxIdle
      BY <1>1, <2>2, <3>1, <3>2, <3>3
    <3>5. QED BY <3>4
  <2>3. QED BY <1>3, <2>1, <2>2
<1>4. QED BY <1>3 DEF PromptInv, WithinReach

LEMMA PromptStart == TimeInv /\ TimeInv' /\ ClockInv' /\ ClockInv /\ TStart => PromptInv'
<1> SUFFICES ASSUME TimeInv, TimeInv', ClockInv, ClockInv', TStart, Settled' PROVE PromptInv'
  BY DEF PromptInv
<1>1. now' = 0
  BY DEF TStart, Start, ClockInv
<1>2. QED BY <1>1, PromptBegins DEF Works

LEMMA PromptChain ==
  ASSUME TimeInv, TimeInv', ClockInv, ClockInv', PromptInv, NEW c \in Chain, TChainStep(c)
  PROVE  PromptInv'
<1> SUFFICES ASSUME Settled' PROVE PromptInv'
  BY DEF PromptInv
<1>1. /\ UNCHANGED <<nextArrival, drainDue, drain, started, arrivalsDone, arrived>>
      /\ \/ finished' \cup rejected' = finished \cup rejected
            /\ \A r \in Request : at'[r].done = at[r].done
         \/ \E x \in Request : x \in finished' \cup rejected' /\ at'[x].done = now'
  BY ChainClock
<1>2. CASE ~Settled
  <2>1. finished' \cup rejected' # finished \cup rejected
    BY <1>1, <1>2 DEF Settled
  <2>2. PICK x \in Request : x \in finished' \cup rejected' /\ at'[x].done = now'
    BY <1>1, <2>1
  <2>3. x \in 1 .. arrived'
    BY <2>2 DEF Settled
  <2>4. now' \in Works'
    BY <2>2, <2>3 DEF Works
  <2>5. QED BY <2>4, PromptBegins
<1>3. CASE Settled
  <2>1. /\ queue = <<>> /\ decodeQueue = <<>> /\ CanRetire
        /\ pc[c] \notin {"prefill", "transfer", "decode"}
    BY <1>3, SettledEmpty DEF TimeInv, NothingRuns
  <2>2. Ends(c)
    BY <2>1
    DEF TChainStep, PrefillPoll, DecodePoll, TAdmit, Admit, TReject, Reject, TPrefillDone,
        PrefillDone, THandOff, HandOff, TTakeFinished, TTakeHandoff, TakeHandoff,
        TDecodeToken, DecodeToken, TComplete, Complete
  <2>3. UNCHANGED at /\ pc'[c] \in Ended /\ pc \in [Chain -> PC]
    BY <2>2 DEF Ends, Exit, Retire, Ended, TimeInv, CountInv, TypeInv, TypeOK, ChainsOK
  <2>4. Works' = Works /\ Works \subseteq Int
    BY <1>1, <2>3, ClockInts DEF Works, ClockInt
  <2>5. \A d \in Chain \ {c} : pc'[d] = pc[d] /\ due'[d] = due[d]
    BY ChainAlone
  <2>6. now' \in Pending /\ Pending \subseteq Int
    BY ClockChain, ClockInts DEF ClockInt
  <2>7. Pending' \subseteq Pending
    BY <1>1, <2>3, <2>5 DEF Pending, Live
  <2>8. \A v \in Pending' \cup {now'} : \E u \in Pending \cup {now} : v <= u
    BY <2>6, <2>7
  <2>9. \A x \in Works : \E y \in Works' : x <= y
    BY <2>4
  <2>10. QED BY <1>3, <2>8, <2>9, PromptStays
<1>4. QED BY <1>2, <1>3

LEMMA PromptResize ==
  ASSUME TimeInv, TimeInv', ClockInv, ClockInv', PromptInv, TResize
  PROVE  PromptInv'
<1> SUFFICES ASSUME Settled' PROVE PromptInv'
  BY DEF PromptInv
<1>1. /\ now' \in Int /\ now <= now' /\ (\A u \in Pending : now' <= u) /\ Pending # {}
      /\ UNCHANGED <<due, pc, started, nextArrival, at, arrived, arrivalsDone, finished,
                     rejected>>
      /\ \A w \in Worker : \/ drainDue'[w] = drainDue[w] /\ drain'[w] = drain[w]
                           \/ drainDue'[w] = now' + DrainTime
  BY ResizeMoves
<1>2. Settled
  BY <1>1 DEF Settled
<1>3. /\ Pending \subseteq Int /\ Works \subseteq Int /\ now \in Int /\ DrainTime \in Nat
      /\ drainDue \in [Worker -> Int]
  BY ClockInts, DelayAssumption DEF ClockInt, ClockInv, TimeInv, TimeOK
<1>4. \A w \in Worker : drainDue[w] <= drainDue'[w]
  <2> SUFFICES ASSUME NEW w \in Worker PROVE drainDue[w] <= drainDue'[w]
    OBVIOUS
  <2>1. drainDue[w] \in Int /\ drainDue[w] <= now + DrainTime
    BY <1>3 DEF ClockInv
  <2>2. drainDue[w] <= now' + DrainTime
    BY <1>1, <1>3, <2>1
  <2>3. QED BY <1>1, <2>1, <2>2
<1>5. ASSUME NEW x \in Works PROVE \E y \in Works' : x <= y
  <2>1. CASE x \in {0} \cup {at[r].done : r \in 1 .. arrived}
    <3>1. x \in Works'
      BY <1>1, <2>1 DEF Works
    <3>2. QED BY <1>3, <3>1
  <2>2. ASSUME NEW w \in Worker, x = drainDue[w] PROVE \E y \in Works' : x <= y
    BY <1>4, <2>2 DEF Works
  <2>3. QED BY <2>1, <2>2 DEF Works
<1>6. PICK p \in Pending : now' <= p
  BY <1>1
<1>7. ASSUME NEW v \in Pending' \cup {now'}
      PROVE  (\E u \in Pending \cup {now} : v <= u) \/ v \in Works'
  <2>1. CASE v = now'
    BY <1>6, <2>1
  <2>2. CASE v \in Pending
    BY <1>3, <2>2
  <2>3. CASE v \in {drainDue'[w] : w \in Worker}
    BY <2>3 DEF Works
  <2>4. v \in Pending' => v \in Pending \/ v \in {drainDue'[w] : w \in Worker}
    BY <1>1 DEF Pending, Live
  <2>5. QED BY <2>1, <2>2, <2>3, <2>4
<1>8. QED BY <1>2, <1>5, <1>7, PromptStays

LEMMA PromptDrainDone ==
  ASSUME TimeInv, TimeInv', AtRest, ClockInv, ClockInv', PromptInv,
         NEW w \in Worker, TDrainDone(w)
  PROVE  PromptInv'
<1> SUFFICES ASSUME Settled' PROVE PromptInv'
  BY DEF PromptInv
<1>1. /\ now' = drainDue[w]
      /\ UNCHANGED <<drainDue, started, nextArrival, at, arrived, arrivalsDone, finished,
                     rejected>>
      /\ \A v \in Worker : drain'[v] = drain[v] \/ drain'[v] = "none"
      /\ \A c \in Chain : (pc'[c] = pc[c] /\ due'[c] = due[c]) \/ due'[c] = now'
  BY DrainMoves
<1>2. Settled /\ Works' = Works /\ now' \in Works'
  BY <1>1 DEF Settled, Works
<1>3. Pending \subseteq Int /\ Works \subseteq Int
  BY ClockInts DEF ClockInt
<1>4. \A v \in Pending' \cup {now'} : v \in Pending \/ v \in Works'
  BY <1>1, <1>2 DEF Pending, Live
<1>5. \A x \in Works : \E y \in Works' : x <= y
  BY <1>2, <1>3
<1>6. \A v \in Pending' \cup {now'} : (\E u \in Pending \cup {now} : v <= u) \/ v \in Works'
  <2>1. \A v \in Pending : v <= v
    BY <1>3
  <2>2. QED BY <1>4, <2>1
<1>7. QED BY <1>2, <1>5, <1>6, PromptStays

LEMMA PromptSame ==
  ASSUME PromptInv, TStopAtQuiescence \/ TTerminated \/ UNCHANGED timedVars
  PROVE  PromptInv'
<1>1. UNCHANGED <<now, nextArrival, started, arrivalsDone, arrived, finished, rejected, due,
                  drainDue, drain, pc, at>>
  BY DEF TStopAtQuiescence, StopAtQuiescence, TTerminated, Terminated, timedVars, timeVars,
         vars, loadVars, poolVars, fateVars
<1>2. Pending' = Pending /\ Works' = Works /\ Settled' = Settled
  BY <1>1 DEF Pending, Live, Works, Settled
<1>3. QED BY <1>1, <1>2 DEF PromptInv, WithinReach

LEMMA ClockOKStep == ClockOK /\ [TNext]_timedVars => ClockOK'
<1> SUFFICES ASSUME ClockOK, [TNext]_timedVars PROVE ClockOK'
  OBVIOUS
<1>1. TimeInv /\ AtRest /\ ClockInv /\ PromptInv
  BY DEF ClockOK
<1>2. TimeInv' /\ AtRest'
  BY <1>1, TimeStep
<1>3. ClockInv'
  BY <1>1, <1>2, ClockStep
<1>4. ASSUME TArrive PROVE PromptInv'
  BY <1>1, <1>2, <1>4, ArriveMoves DEF PromptInv
<1>5. ASSUME TStart \/ TResize PROVE PromptInv'
  BY <1>1, <1>2, <1>3, <1>5, PromptStart, PromptResize
<1>6. ASSUME NEW c \in Chain, TChainStep(c) PROVE PromptInv'
  BY <1>1, <1>2, <1>3, <1>6, PromptChain
<1>7. ASSUME NEW w \in Worker, TDrainDone(w) PROVE PromptInv'
  BY <1>1, <1>2, <1>3, <1>7, PromptDrainDone
<1>8. ASSUME TStopAtQuiescence \/ TTerminated \/ UNCHANGED timedVars PROVE PromptInv'
  BY <1>1, <1>8, PromptSame
<1>9. PromptInv'
  BY <1>4, <1>5, <1>6, <1>7, <1>8 DEF TNext
<1>10. QED BY <1>2, <1>3, <1>9 DEF ClockOK

LEMMA ClockOKInit == TInit => ClockOK
<1> SUFFICES ASSUME TInit PROVE ClockOK
  OBVIOUS
<1>1. /\ now = 0 /\ nextArrival = 0 /\ ~started /\ ~arrivalsDone /\ DrainTime \in Nat
      /\ \A c \in Chain : due[c] = 0 /\ pc[c] = "unborn"
      /\ \A w \in Worker : drainDue[w] = 0 /\ drain[w] = "none"
      /\ \A r \in Request : at[r].done = 0
  BY DelayAssumption DEF TInit, Init, Moment
<1>2. Pending = {}
  BY <1>1 DEF Pending, Live, Ended
<1>3. ClockInv
  BY <1>1, <1>2 DEF ClockInv, Idling
<1>4. PromptInv
  BY <1>1 DEF PromptInv, Settled
<1>5. QED BY <1>3, <1>4, TimeInit DEF ClockOK

\* Once every request has settled and none will come, every chain retires within one
\* longest idle poll of the last work or drain, for any delays, loads and flips.
THEOREM RetiresPromptlyHolds == TSpec => []RetiresPromptly
BY ClockOKInit, ClockOKStep, RetiresInTime, PTL DEF TSpec

-----------------------------------------------------------------------------
(* A stage of service *)
(*                                                                         *)
(* Prefill and decode are alike: requests come to a stage, wait, are taken *)
(* up by a chain that polls, and leave.  A stage s has the time, s.now;    *)
(* the requests that ever came, s.all, that are in it, s.in, and that wait *)
(* there, s.wait; when a request came, was taken up, and left; the ones    *)
(* ahead of it; and the chains that poll, with their due times.            *)

\* By t the request r has been there for the longest idle poll, or for one poll
\* interval after one ahead of it has left.
Within(s, r, t) ==
  \/ t <= s.come[r] + MaxIdle
  \/ \E q \in s.ahead[r] \ s.in : t <= s.left[q] + IdlePoll

StageOK(s) ==
  /\ s.now \in Int
  /\ s.wait \subseteq s.in /\ s.in \subseteq s.all /\ s.all \subseteq Request
  /\ \A r \in s.all :
       /\ s.ahead[r] \subseteq s.all \ {r}
       /\ s.come[r] \in Int /\ s.take[r] \in Int /\ s.left[r] \in Int
       /\ s.take[r] <= s.now
  /\ \A c \in s.poll : s.due[c] \in Int

\* The next poll of any chain is in time for all that wait.
PollsSoon(s) ==
  \A r \in s.wait, c \in s.poll : s.due[c] <= s.now \/ Within(s, r, s.due[c])

\* Once those ahead of it have left, a request waits no longer than that.
TakesSoon(s) ==
  \A r \in s.all : s.ahead[r] \cap s.in = {} =>
    Within(s, r, IF r \in s.wait THEN s.now ELSE s.take[r])

\* If nobody ahead of it is there, somebody polls for a request that waits.
Manned(s) == \A r \in s.wait : s.ahead[r] \cap s.in = {} => s.poll # {}

\* A step of the stage from s to t: requests come, are taken up, and leave, now.
StageStep(s, t) ==
  /\ s.now <= t.now /\ \A c \in s.poll : t.now <= s.due[c]
  /\ s.all \subseteq t.all /\ t.in \cap s.all \subseteq s.in /\ t.wait \cap s.all \subseteq s.wait
  /\ \A r \in s.all : t.come[r] = s.come[r] /\ s.ahead[r] \subseteq t.ahead[r]
  /\ \A r \in t.all \ s.all : r \in t.wait /\ t.come[r] = t.now
  /\ \A r \in s.all \ s.wait : t.take[r] = s.take[r]
  /\ \A r \in s.wait \ t.wait : t.take[r] = t.now /\ \E c \in s.poll : t.now = s.due[c]
  /\ \A r \in s.all \ s.in : t.left[r] = s.left[r]
  /\ \A r \in s.in \ t.in : t.left[r] = t.now

\* What it does to the chains that poll: one that starts to poll is due now, or one
\* interval after its request has left; it backs off only if nobody waits.
PollStep(s, t) ==
  /\ \A c \in t.poll : t.due[c] <= t.now + MaxIdle
  /\ \A c \in t.poll :
       \/ c \in s.poll /\ t.due[c] = s.due[c]
       \/ t.due[c] <= t.now
       \/ t.due[c] <= t.now + IdlePoll
            /\ \A r \in t.wait : \E q \in t.ahead[r] \ t.in : t.left[q] = t.now
       \/ t.wait = {}

\* What was in time stays so.
LEMMA WithinStays ==
  ASSUME NEW s, NEW t, StageOK(s), StageStep(s, t), NEW r \in s.all, NEW x, Within(s, r, x)
  PROVE  Within(t, r, x)
<1>1. CASE x <= s.come[r] + MaxIdle
  BY <1>1 DEF Within, StageStep
<1>2. ASSUME NEW q \in s.ahead[r] \ s.in, x <= s.left[q] + IdlePoll
      PROVE  Within(t, r, x)
  <2>1. q \in s.all \ s.in
    BY DEF StageOK
  <2>2. q \in t.ahead[r] \ t.in /\ t.left[q] = s.left[q]
    BY <2>1 DEF StageStep
  <2>3. QED BY <1>2, <2>2 DEF Within
<1>3. QED BY <1>1, <1>2 DEF Within

\* What is in time is in time earlier.
LEMMA WithinEarlier ==
  ASSUME NEW s, StageOK(s), NEW r \in s.all, NEW x \in Int, NEW y \in Int, x <= y,
         Within(s, r, y)
  PROVE  Within(s, r, x)
<1>1. MaxIdle \in Nat /\ IdlePoll \in Nat
  BY DelayAssumption
<1>2. CASE y <= s.come[r] + MaxIdle
  BY <1>1, <1>2 DEF Within, StageOK
<1>3. ASSUME NEW q \in s.ahead[r] \ s.in, y <= s.left[q] + IdlePoll PROVE Within(s, r, x)
  <2>1. s.left[q] \in Int
    BY DEF StageOK
  <2>2. x <= s.left[q] + IdlePoll
    BY <1>1, <1>3, <2>1
  <2>3. QED BY <2>2 DEF Within
<1>4. QED BY <1>2, <1>3 DEF Within

LEMMA PollsStaySoon ==
  ASSUME NEW s, NEW t, StageOK(s), StageOK(t), PollsSoon(s), StageStep(s, t),
         PollStep(s, t)
  PROVE  PollsSoon(t)
<1> SUFFICES ASSUME NEW r \in t.wait, NEW c \in t.poll, ~(t.due[c] <= t.now)
             PROVE  Within(t, r, t.due[c])
  BY DEF PollsSoon
<1>1. r \in t.all
  BY DEF StageOK
<1>2. CASE r \notin s.all
  BY <1>1, <1>2 DEF StageStep, PollStep, Within
<1>3. CASE r \in s.all
  <2>1. r \in s.wait
    BY <1>3 DEF StageStep
  <2>2. CASE c \in s.poll /\ t.due[c] = s.due[c]
    <3>1. ~(s.due[c] <= s.now)
      BY <2>2 DEF StageOK, StageStep
    <3>2. Within(s, r, s.due[c])
      BY <2>1, <2>2, <3>1 DEF PollsSoon
    <3>3. QED BY <1>3, <2>2, <3>2, WithinStays
  <2>3. CASE t.due[c] <= t.now + IdlePoll
               /\ \E q \in t.ahead[r] \ t.in : t.left[q] = t.now
    BY <2>3 DEF Within
  <2>4. QED BY <2>2, <2>3 DEF PollStep
<1>4. QED BY <1>2, <1>3

LEMMA TakesStaySoon ==
  ASSUME NEW s, NEW t, StageOK(s), StageOK(t), PollsSoon(s), TakesSoon(s), Manned(s),
         StageStep(s, t)
  PROVE  TakesSoon(t)
<1> SUFFICES ASSUME NEW r \in t.all, t.ahead[r] \cap t.in = {}
             PROVE  Within(t, r, IF r \in t.wait THEN t.now ELSE t.take[r])
  BY DEF TakesSoon
<1>1. MaxIdle \in Nat /\ IdlePoll \in Nat /\ t.now \in Int /\ s.now \in Int
  BY DelayAssumption DEF StageOK
<1>2. CASE r \notin s.all
  BY <1>1, <1>2 DEF StageStep, Within
<1>3. CASE r \in s.all
  <2> DEFINE x == IF r \in t.wait THEN t.now ELSE t.take[r]
  <2>1. x \in Int /\ x <= t.now
    BY <1>1 DEF StageOK
  <2>2. ASSUME NEW q \in s.ahead[r] \cap s.in PROVE Within(t, r, x)
    <3>1. q \in t.ahead[r] \ t.in /\ t.left[q] = t.now
      BY <1>3 DEF StageStep
    <3>2. x <= t.left[q] + IdlePoll
      BY <1>1, <2>1, <3>1
    <3>3. QED BY <3>1, <3>2 DEF Within
  <2>3. CASE s.ahead[r] \cap s.in = {}
    <3>1. CASE r \notin s.wait
      <4>1. Within(s, r, s.take[r])
        BY <1>3, <2>3, <3>1 DEF TakesSoon
      <4>2. x = s.take[r]
        BY <1>3, <3>1 DEF StageStep
      <4>3. QED BY <1>3, <4>1, <4>2, WithinStays
    <3>2. CASE r \in s.wait
      <4>1. x = t.now
        BY <3>2 DEF StageStep
      <4>2. PICK c \in s.poll : t.now <= s.due[c]
        BY <2>3, <3>2 DEF Manned, StageStep
      <4>3. Within(s, r, s.now) /\ s.due[c] \in Int
        BY <1>3, <2>3, <3>2 DEF TakesSoon, StageOK
      <4>4. CASE s.due[c] <= s.now
        <5>1. t.now = s.now
          BY <1>1, <4>2, <4>3, <4>4 DEF StageStep
        <5>2. QED BY <1>3, <4>1, <4>3, <5>1, WithinStays
      <4>5. CASE Within(s, r, s.due[c])
        <5>1. Within(s, r, t.now)
          BY <1>1, <1>3, <4>2, <4>3, <4>5, WithinEarlier
        <5>2. QED BY <1>3, <4>1, <5>1, WithinStays
      <4>6. QED BY <3>2, <4>4, <4>5 DEF PollsSoon
    <3>3. QED BY <3>1, <3>2
  <2>4. QED BY <2>2, <2>3
<1>4. QED BY <1>2, <1>3

-----------------------------------------------------------------------------
(* The two stages *)

\* Who is in the hands of a prefill chain, and of a decode chain.
Prefills == {job[c] : c \in {d \in Chain : Prefilling(d)}}
Decodes  == {job[c] : c \in {d \in Chain : pc[d] = "decode"}}

\* Ahead of a request in prefill are those that arrived before it, in decode those
\* whose prefill ended no later.
PrefillStage ==
  [now |-> now, all |-> 1 .. arrived, wait |-> Waiting, in |-> Waiting \cup Prefills,
   come  |-> [r \in Request |-> at[r].arrival],
   take  |-> [r \in Request |-> at[r].pop],
   left  |-> [r \in Request |-> FreedAt(r)],
   ahead |-> [r \in Request |-> 1 .. r - 1],
   poll  |-> {c \in Chain : pc[c] = "prefillStep"}, due |-> due]

DecodeStage ==
  [now |-> now, all |-> HandedOver, wait |-> Handed, in |-> Handed \cup Decodes,
   come  |-> [r \in Request |-> at[r].first],
   take  |-> [r \in Request |-> at[r].take],
   left  |-> [r \in Request |-> at[r].done],
   ahead |-> [r \in Request |-> {q \in HandedOver \ {r} : at[q].first <= at[r].first}],
   poll  |-> {c \in Chain : pc[c] = "decodeStep"}, due |-> due]

\* A request is in one place of one stage, and what has left prefill was not rejected.
LEMMA StagePlaces ==
  ASSUME TypeInv, OnceInv
  PROVE  /\ 1 .. arrived \subseteq Request
         /\ Waiting \cup Prefills \cup Handed \cup Decodes \cup rejected \subseteq 1 .. arrived
         /\ Waiting \cap (Prefills \cup Handed \cup Decodes \cup rejected) = {}
         /\ Prefills \cap (Handed \cup Decodes \cup rejected) = {}
         /\ Handed \cap (Decodes \cup rejected) = {} /\ Decodes \cap rejected = {}
         /\ HandedOver = (1 .. arrived) \ (Waiting \cup Prefills \cup rejected)
         /\ \A r : InPrefill(r) <=> r \in Waiting \cup Prefills
         /\ \A r : InDecode(r) <=> r \in Handed \cup Decodes
<1>1. 1 .. arrived \subseteq Request
  BY BoundAssumption DEF TypeInv, TypeOK, LoadOK, Request
<1>2. Prefills \cup Decodes \subseteq Held /\ Prefills \cap Decodes = {}
  <2>1. \A c \in Chain : Prefilling(c) \/ pc[c] = "decode" => job[c] # NoRequest
    BY DEF Prefilling, TypeInv, JobMatchesPC
  <2>2. Prefills \cup Decodes \subseteq Held
    BY <2>1 DEF Prefills, Decodes, Held
  <2>3. ASSUME NEW c \in Chain, Prefilling(c), NEW d \in Chain, pc[d] = "decode"
        PROVE  job[c] # job[d]
    BY <2>1, <2>3 DEF OnceInv, HeldOnce, Prefilling
  <2>4. QED BY <2>2, <2>3 DEF Prefills, Decodes
<1>3. \A r : InPrefill(r) <=> r \in Waiting \cup Prefills
  BY DEF InPrefill, Prefills, Prefilling
<1>4. \A r : InDecode(r) <=> r \in Handed \cup Decodes
  BY DEF InDecode, Decodes
<1>5. HandedOver = (1 .. arrived) \ (Waiting \cup Prefills \cup rejected)
  BY <1>3 DEF HandedOver
<1>6. /\ Waiting \cap (Held \cup Handed \cup rejected) = {}
      /\ Held \cap (Handed \cup rejected) = {} /\ Handed \cap rejected = {}
      /\ Waiting \cup Held \cup Handed \cup rejected \subseteq 1 .. arrived
  BY DEF OnceInv, PlacesApart, Apart, PlacesCover
<1>7. QED BY <1>1, <1>2, <1>3, <1>4, <1>5, <1>6

\* A chain's step changes what is in that chain's hands, no more.
LEMMA HandsMove ==
  ASSUME TypeInv, OnceInv, NEW c \in Chain,
         \A d \in Chain \ {c} : pc'[d] = pc[d] /\ job'[d] = job[d]
  PROVE  /\ Prefills' = (Prefills \ {job[c]}) \cup (IF Prefilling(c)' THEN {job'[c]} ELSE {})
         /\ Decodes' = (Decodes \ {job[c]}) \cup (IF pc'[c] = "decode" THEN {job'[c]} ELSE {})
<1>1. \A d \in Chain \ {c} : Prefilling(d) \/ pc[d] = "decode" => job[d] # job[c]
  BY DEF Prefilling, TypeInv, JobMatchesPC, OnceInv, HeldOnce
<1>2. \A d \in Chain \ {c} : Prefilling(d)' = Prefilling(d)
  BY DEF Prefilling
<1>3. Prefills' = (Prefills \ {job[c]}) \cup (IF Prefilling(c)' THEN {job'[c]} ELSE {})
  <2>1. \A r : r \in Prefills' <=> \E d \in Chain : Prefilling(d)' /\ r = job'[d]
    BY DEF Prefills
  <2>2. \A r : r \in Prefills <=> \E d \in Chain : Prefilling(d) /\ r = job[d]
    BY DEF Prefills
  <2>3. \A r : r \in Prefills' <=>
          \/ r \in Prefills /\ r # job[c]
          \/ Prefilling(c)' /\ r = job'[c]
    BY <1>1, <1>2, <2>1, <2>2
  <2>4. QED BY <2>3
<1>4. Decodes' = (Decodes \ {job[c]}) \cup (IF pc'[c] = "decode" THEN {job'[c]} ELSE {})
  <2>1. \A r : r \in Decodes' <=> \E d \in Chain : pc'[d] = "decode" /\ r = job'[d]
    BY DEF Decodes
  <2>2. \A r : r \in Decodes <=> \E d \in Chain : pc[d] = "decode" /\ r = job[d]
    BY DEF Decodes
  <2>3. \A r : r \in Decodes' <=>
          \/ r \in Decodes /\ r # job[c]
          \/ pc'[c] = "decode" /\ r = job'[c]
    BY <1>1, <2>1, <2>2
  <2>4. QED BY <2>3
<1>5. QED BY <1>3, <1>4

-----------------------------------------------------------------------------
(* How requests move *)

Stamped(x, S) ==
  \A r \in Request, m \in Moment : at'[r][m] = IF r = x /\ m \in S THEN now' ELSE at[r][m]

Rests ==
  UNCHANGED <<Waiting, Prefills, Handed, Decodes, rejected, arrived, decodeQueue, at>>

Comes(r) ==
  /\ r = arrived + 1 /\ arrived' = arrived + 1
  /\ Waiting' = Waiting \cup {r}
  /\ UNCHANGED <<Prefills, Handed, Decodes, rejected, decodeQueue>>
  /\ Stamped(r, {"arrival"})

IsAdmitted(r) ==
  /\ r \in Waiting /\ \A q \in Waiting : r <= q
  /\ Waiting' = Waiting \ {r} /\ Prefills' = Prefills \cup {r}
  /\ UNCHANGED <<Handed, Decodes, rejected, arrived, decodeQueue>>
  /\ Stamped(r, {"pop"})

IsRejected(r) ==
  /\ r \in Waiting /\ \A q \in Waiting : r <= q
  /\ Waiting' = Waiting \ {r} /\ rejected' = rejected \cup {r}
  /\ UNCHANGED <<Prefills, Handed, Decodes, arrived, decodeQueue>>
  /\ Stamped(r, {"pop", "done"})

IsHandedOn(r) ==
  /\ r \in Prefills
  /\ Prefills' = Prefills \ {r} /\ Handed' = Handed \cup {r}
  /\ decodeQueue' = Append(decodeQueue, r)
  /\ UNCHANGED <<Waiting, Decodes, rejected, arrived>>
  /\ Stamped(r, {"first"})

IsTaken(r) ==
  /\ r \in Handed /\ decodeQueue # <<>> /\ r = Head(decodeQueue)
  /\ decodeQueue' = Tail(decodeQueue)
  /\ Handed' = Handed \ {r} /\ Decodes' = Decodes \cup {r}
  /\ UNCHANGED <<Waiting, Prefills, rejected, arrived>>
  /\ Stamped(r, {"take"})

IsDoneAtOnce(r) ==
  /\ r \in Handed /\ decodeQueue # <<>> /\ r = Head(decodeQueue)
  /\ decodeQueue' = Tail(decodeQueue)
  /\ Handed' = Handed \ {r}
  /\ UNCHANGED <<Waiting, Prefills, Decodes, rejected, arrived>>
  /\ Stamped(r, {"take", "done"})

IsDone(r) ==
  /\ r \in Decodes
  /\ Decodes' = Decodes \ {r}
  /\ UNCHANGED <<Waiting, Prefills, Handed, rejected, arrived, decodeQueue>>
  /\ Stamped(r, {"done"})

\* A chain polls again, one poll interval from now.
PollsAgain(c) == due'[c] = now' + IdlePoll

\* What a chain's step does.
ChainMoves(c) ==
  \/ /\ Rests
     /\ pc'[c] = "prefillStep" => Waiting' = {}
     /\ pc'[c] = "decodeStep" => Handed' = {}
  \/ pc[c] = "prefillStep" /\ pc'[c] = "prefill" /\ \E r \in Request : IsAdmitted(r)
  \/ /\ pc[c] = "prefillStep" /\ pc'[c] = "prefillStep" /\ PollsAgain(c)
     /\ \E r \in Request : IsRejected(r)
  \/ pc'[c] = "prefillStep" /\ PollsAgain(c) /\ \E r \in Request : IsHandedOn(r)
  \/ pc[c] = "decodeStep" /\ pc'[c] = "decode" /\ \E r \in Request : IsTaken(r)
  \/ /\ pc[c] = "decodeStep" /\ pc'[c] = "decodeStep" /\ PollsAgain(c)
     /\ \E r \in Request : IsDoneAtOnce(r)
  \/ pc'[c] = "decodeStep" /\ PollsAgain(c) /\ \E r \in Request : IsDone(r)

LEMMA StampIs ==
  ASSUME TimeInv, NEW x \in Request, NEW S \in SUBSET Moment, Stamp(x, S)
  PROVE  Stamped(x, S)
<1>1. DOMAIN at = Request
  BY DEF TimeInv, TimeOK
<1>2. /\ \A q \in Request \ {x} : at'[q] = at[q]
      /\ \A m \in Moment : at'[x][m] = IF m \in S THEN now' ELSE at[x][m]
  BY <1>1, StampOne
<1>3. QED BY <1>2 DEF Stamped

LEMMA AgainIn ==
  ASSUME TimeInv, NEW c \in Chain, NEW d, NEW i, Fires(c), Rearm(c, d, i)
  PROVE  due'[c] = now' + d
BY DEF TimeInv, TimeOK, Rearm

LEMMA ChainMovesHold ==
  ASSUME TimeInv, NEW c \in Chain, TChainStep(c)
  PROVE  ChainMoves(c)
<1>1. /\ TypeInv /\ OnceInv /\ pc \in [Chain -> PC]
      /\ job \in [Chain -> Request \cup {NoRequest}] /\ NoRequest \notin Request
  BY RequestFacts DEF TimeInv, CountInv, TypeInv, TypeOK, ChainsOK, WorkOK
<1>2. /\ \A d \in Chain \ {c} : pc'[d] = pc[d] /\ job'[d] = job[d]
      /\ arrived' = arrived
  BY ChainAlone
<1>3. /\ Prefills' = (Prefills \ {job[c]}) \cup (IF Prefilling(c)' THEN {job'[c]} ELSE {})
      /\ Decodes' = (Decodes \ {job[c]}) \cup (IF pc'[c] = "decode" THEN {job'[c]} ELSE {})
  BY <1>1, <1>2, HandsMove
<1>4. /\ Prefills \subseteq Request /\ Decodes \subseteq Request
      /\ Prefills \cap Decodes = {}
      /\ Prefilling(c) => job[c] \in Prefills
      /\ pc[c] = "decode" => job[c] \in Decodes
      /\ Idling(c) => job[c] = NoRequest
  <2>1. Idling(c) => job[c] = NoRequest
    BY <1>1 DEF TypeInv, JobMatchesPC, Idling
  <2>2. QED BY <1>1, <2>1, StagePlaces DEF Prefills, Decodes
\* The places of the chains' requests, as one of the pc's changes shows.
<1>5. ASSUME Idling(c), job'[c] = job[c], ~Prefilling(c)', pc'[c] # "decode"
      PROVE  Prefills' = Prefills /\ Decodes' = Decodes
  BY <1>1, <1>3, <1>4, <1>5
<1>6. CASE Ends(c)
  <2>1. /\ UNCHANGED <<queue, decodeQueue, rejected, at, job>> /\ Idling(c)
        /\ pc'[c] \in {"exited", "retired"}
    BY <1>1, <1>6 DEF Ends, Exit, Retire, Idling, workVars, fateVars
  <2>2. Rests
    BY <1>2, <1>5, <2>1 DEF Rests, Waiting, Handed, Prefilling
  <2>3. QED BY <2>1, <2>2 DEF ChainMoves
<1>7. CASE PrefillPoll(c) \/ DecodePoll(c)
  <2>1. /\ UNCHANGED <<queue, decodeQueue, rejected, at, job, pc>> /\ Idling(c)
        /\ pc[c] = "prefillStep" => queue = <<>>
        /\ pc[c] = "decodeStep" => decodeQueue = <<>>
    BY <1>7 DEF PrefillPoll, DecodePoll, Idling, vars, workVars, fateVars
  <2>2. Rests
    BY <1>2, <1>5, <2>1 DEF Rests, Waiting, Handed, Prefilling, Idling
  <2>3. ToSet(<<>>) = {}
    BY DEF ToSet
  <2>4. QED BY <2>1, <2>2, <2>3 DEF ChainMoves, Waiting, Handed
<1>8. CASE TPrefillDone(c)
  <2>1. /\ UNCHANGED <<queue, decodeQueue, rejected, at, job>> /\ pc[c] = "prefill"
        /\ pc'[c] = "transfer"
    BY <1>1, <1>8 DEF TPrefillDone, PrefillDone, workVars, fateVars
  <2>2. Prefills' = Prefills /\ Decodes' = Decodes
    BY <1>3, <1>4, <2>1 DEF Prefilling
  <2>3. Rests
    BY <1>2, <2>1, <2>2 DEF Rests, Waiting, Handed
  <2>4. QED BY <2>1, <2>3 DEF ChainMoves
<1>9. CASE TDecodeToken(c)
  <2>1. /\ UNCHANGED <<queue, decodeQueue, rejected, at, job, pc>> /\ pc[c] = "decode"
    BY <1>9 DEF TDecodeToken, DecodeToken, fateVars
  <2>2. Prefills' = Prefills /\ Decodes' = Decodes
    BY <1>3, <1>4, <2>1 DEF Prefilling
  <2>3. Rests
    BY <1>2, <2>1, <2>2 DEF Rests, Waiting, Handed
  <2>4. QED BY <2>1, <2>3 DEF ChainMoves
<1>10. CASE TAdmit(c)
  <2> DEFINE r == Head(queue)
  <2>1. Admit(c) /\ pc[c] = "prefillStep" /\ pc'[c] = "prefill" /\ job'[c] = r
        /\ UNCHANGED <<rejected, decodeQueue>> /\ Stamp(r, {"pop"})
    BY <1>1, <1>10 DEF TAdmit, Admit
  <2>2. /\ r \in Request /\ r \in Waiting /\ job[c] = NoRequest
        /\ Waiting' = Waiting \ {r} /\ Handed' = Handed /\ \A q \in Waiting : r <= q
    BY <1>1, <2>1, AdmitMoves
  <2> HIDE DEF r
  <2>3. Prefills' = Prefills \cup {r} /\ Decodes' = Decodes
    BY <1>1, <1>3, <1>4, <2>1, <2>2 DEF Prefilling
  <2>4. Stamped(r, {"pop"})
    BY <2>1, <2>2, StampIs DEF Moment
  <2>5. IsAdmitted(r)
    BY <1>2, <2>1, <2>2, <2>3, <2>4 DEF IsAdmitted
  <2>6. QED BY <2>1, <2>2, <2>5 DEF ChainMoves
<1>11. CASE TReject(c)
  <2> DEFINE r == Head(queue)
  <2>1. Reject(c) /\ pc[c] = "prefillStep" /\ UNCHANGED <<pc, job, decodeQueue>>
        /\ rejected' = rejected \cup {r} /\ Stamp(r, {"pop", "done"}) /\ PollsAgain(c)
    BY <1>11, AgainIn DEF TReject, Reject, PollsAgain
  <2>2. /\ r \in Request /\ r \in Waiting
        /\ Waiting' = Waiting \ {r} /\ Handed' = Handed /\ \A q \in Waiting : r <= q
    BY <1>1, <2>1, RejectMoves
  <2> HIDE DEF r
  <2>3. Prefills' = Prefills /\ Decodes' = Decodes
    BY <1>5, <2>1 DEF Prefilling, Idling
  <2>4. Stamped(r, {"pop", "done"})
    BY <2>1, <2>2, StampIs DEF Moment
  <2>5. IsRejected(r)
    BY <1>2, <2>1, <2>2, <2>3, <2>4 DEF IsRejected
  <2>6. QED BY <2>1, <2>2, <2>5 DEF ChainMoves
<1>12. CASE THandOff(c)
  <2> DEFINE r == job[c]
  <2>1. HandOff(c) /\ pc[c] = "transfer" /\ pc'[c] = "prefillStep" /\ job'[c] = NoRequest
        /\ UNCHANGED rejected /\ Stamp(r, {"first"}) /\ PollsAgain(c)
        /\ decodeQueue' = Append(decodeQueue, r)
    BY <1>1, <1>12, AgainIn DEF THandOff, HandOff, fateVars, PollsAgain
  <2>2. r \in Request /\ Waiting' = Waiting /\ Handed' = Handed \cup {r}
    BY <1>1, <2>1, HandOffMoves
  <2>3. Prefills' = Prefills \ {r} /\ Decodes' = Decodes /\ r \in Prefills
    BY <1>1, <1>3, <1>4, <2>1, <2>2 DEF Prefilling
  <2> HIDE DEF r
  <2>4. Stamped(r, {"first"})
    BY <2>1, <2>2, StampIs DEF Moment
  <2>5. IsHandedOn(r)
    BY <1>2, <2>1, <2>2, <2>3, <2>4 DEF IsHandedOn
  <2>6. QED BY <2>1, <2>2, <2>5 DEF ChainMoves
<1>13. CASE TTakeFinished(c)
  <2> DEFINE r == Head(decodeQueue)
  <2>1. TakeHandoff(c) /\ pc[c] = "decodeStep" /\ pc'[c] = "decodeStep" /\ job'[c] = job[c]
        /\ UNCHANGED rejected /\ Stamp(r, {"take", "done"}) /\ PollsAgain(c)
        /\ decodeQueue # <<>> /\ decodeQueue' = Tail(decodeQueue)
    BY <1>1, <1>13, AgainIn DEF TTakeFinished, TakeHandoff, PollsAgain
  <2>2. r \in Request /\ r \in Handed /\ Waiting' = Waiting /\ Handed' = Handed \ {r}
    BY <1>1, <2>1, TakeMoves
  <2>3. Prefills' = Prefills /\ Decodes' = Decodes
    BY <1>5, <2>1 DEF Prefilling, Idling
  <2>4. Stamped(r, {"take", "done"})
    BY <2>1, <2>2, StampIs DEF Moment
  <2>5. IsDoneAtOnce(r)
    BY <1>2, <2>1, <2>2, <2>3, <2>4 DEF IsDoneAtOnce
  <2>6. QED BY <2>1, <2>2, <2>5 DEF ChainMoves
<1>14. CASE TTakeHandoff(c)
  <2> DEFINE r == Head(decodeQueue)
  <2>1. TakeHandoff(c) /\ pc[c] = "decodeStep" /\ pc'[c] = "decode" /\ job'[c] = r
        /\ UNCHANGED rejected /\ Stamp(r, {"take"})
        /\ decodeQueue # <<>> /\ decodeQueue' = Tail(decodeQueue)
    BY <1>1, <1>14 DEF TTakeHandoff, TakeHandoff
  <2>2. /\ r \in Request /\ r \in Handed /\ job[c] = NoRequest
        /\ Waiting' = Waiting /\ Handed' = Handed \ {r}
    BY <1>1, <2>1, TakeMoves
  <2>3. Prefills' = Prefills /\ Decodes' = Decodes \cup {r}
    BY <1>1, <1>3, <1>4, <2>1, <2>2 DEF Prefilling
  <2>4. Stamped(r, {"take"})
    BY <2>1, <2>2, StampIs DEF Moment
  <2>5. IsTaken(r)
    BY <1>2, <2>1, <2>2, <2>3, <2>4 DEF IsTaken
  <2>6. QED BY <2>1, <2>2, <2>5 DEF ChainMoves
<1>15. CASE TComplete(c)
  <2> DEFINE r == job[c]
  <2>1. Complete(c) /\ pc[c] = "decode" /\ pc'[c] = "decodeStep" /\ job'[c] = NoRequest
        /\ UNCHANGED <<rejected, decodeQueue>> /\ Stamp(r, {"done"}) /\ PollsAgain(c)
    BY <1>1, <1>15, AgainIn DEF TComplete, Complete, PollsAgain
  <2>2. r \in Request /\ Waiting' = Waiting /\ Handed' = Handed
    BY <1>1, <2>1, EndsMoves
  <2>3. Prefills' = Prefills /\ Decodes' = Decodes \ {r} /\ r \in Decodes
    BY <1>1, <1>3, <1>4, <2>1, <2>2 DEF Prefilling
  <2> HIDE DEF r
  <2>4. Stamped(r, {"done"})
    BY <2>1, <2>2, StampIs DEF Moment
  <2>5. IsDone(r)
    BY <1>2, <2>1, <2>2, <2>3, <2>4 DEF IsDone
  <2>6. QED BY <2>1, <2>2, <2>5 DEF ChainMoves
<1>16. QED BY <1>6, <1>7, <1>8, <1>9, <1>10, <1>11, <1>12, <1>13, <1>14, <1>15 DEF TChainStep

-----------------------------------------------------------------------------
(* What the moves are to the stages *)

\* The clock moves on to an event, if at all.
Advances == now <= now' /\ \A c \in Chain : Idling(c) => now' <= due[c]

PrefillMoves ==
  /\ 1 .. arrived \subseteq 1 .. arrived'
  /\ \A r \in 1 .. arrived' : r \in 1 .. arrived \/ (r \in Waiting' /\ at'[r].arrival = now')
  /\ \A r \in 1 .. arrived :
       /\ r \in Waiting' => r \in Waiting
       /\ r \in Waiting' \cup Prefills' => r \in Waiting \cup Prefills
       /\ at'[r].arrival = at[r].arrival
       /\ r \notin Waiting => at'[r].pop = at[r].pop
       /\ r \in Waiting \ Waiting' =>
            at'[r].pop = now' /\ \E c \in Chain : pc[c] = "prefillStep" /\ now' = due[c]
       /\ r \notin Waiting \cup Prefills => FreedAt(r)' = FreedAt(r)
       /\ r \in (Waiting \cup Prefills) \ (Waiting' \cup Prefills') => FreedAt(r)' = now'

DecodeMoves ==
  /\ HandedOver \subseteq HandedOver'
  /\ \A r \in HandedOver' : r \in HandedOver \/ (r \in Handed' /\ at'[r].first = now')
  /\ \A r \in HandedOver :
       /\ r \in Handed' => r \in Handed
       /\ r \in Handed' \cup Decodes' => r \in Handed \cup Decodes
       /\ at'[r].first = at[r].first
       /\ r \notin Handed => at'[r].take = at[r].take
       /\ r \in Handed \ Handed' =>
            at'[r].take = now' /\ \E c \in Chain : pc[c] = "decodeStep" /\ now' = due[c]
       /\ r \notin Handed \cup Decodes => at'[r].done = at[r].done
       /\ r \in (Handed \cup Decodes) \ (Handed' \cup Decodes') => at'[r].done = now'

LEMMA PrefillFields ==
  /\ PrefillStage.now = now /\ PrefillStage.all = 1 .. arrived /\ PrefillStage.wait = Waiting
  /\ PrefillStage.in = Waiting \cup Prefills /\ PrefillStage.due = due
  /\ PrefillStage.poll = {c \in Chain : pc[c] = "prefillStep"}
  /\ \A r \in Request :
       /\ PrefillStage.come[r] = at[r].arrival /\ PrefillStage.take[r] = at[r].pop
       /\ PrefillStage.left[r] = FreedAt(r) /\ PrefillStage.ahead[r] = 1 .. r - 1
BY DEF PrefillStage

LEMMA DecodeFields ==
  /\ DecodeStage.now = now /\ DecodeStage.all = HandedOver /\ DecodeStage.wait = Handed
  /\ DecodeStage.in = Handed \cup Decodes /\ DecodeStage.due = due
  /\ DecodeStage.poll = {c \in Chain : pc[c] = "decodeStep"}
  /\ \A r \in Request :
       /\ DecodeStage.come[r] = at[r].first /\ DecodeStage.take[r] = at[r].take
       /\ DecodeStage.left[r] = at[r].done
       /\ DecodeStage.ahead[r] = {q \in HandedOver \ {r} : at[q].first <= at[r].first}
BY DEF DecodeStage

LEMMA PrefillFieldsNext ==
  /\ PrefillStage'.now = now' /\ PrefillStage'.all = 1 .. arrived'
  /\ PrefillStage'.wait = Waiting'
  /\ PrefillStage'.in = Waiting' \cup Prefills' /\ PrefillStage'.due = due'
  /\ PrefillStage'.poll = {c \in Chain : pc'[c] = "prefillStep"}
  /\ \A r \in Request :
       /\ PrefillStage'.come[r] = at'[r].arrival /\ PrefillStage'.take[r] = at'[r].pop
       /\ PrefillStage'.left[r] = FreedAt(r)' /\ PrefillStage'.ahead[r] = 1 .. r - 1
BY DEF PrefillStage

LEMMA DecodeFieldsNext ==
  /\ DecodeStage'.now = now' /\ DecodeStage'.all = HandedOver' /\ DecodeStage'.wait = Handed'
  /\ DecodeStage'.in = Handed' \cup Decodes' /\ DecodeStage'.due = due'
  /\ DecodeStage'.poll = {c \in Chain : pc'[c] = "decodeStep"}
  /\ \A r \in Request :
       /\ DecodeStage'.come[r] = at'[r].first /\ DecodeStage'.take[r] = at'[r].take
       /\ DecodeStage'.left[r] = at'[r].done
       /\ DecodeStage'.ahead[r] = {q \in HandedOver' \ {r} : at'[q].first <= at'[r].first}
BY DEF DecodeStage

LEMMA PrefillSteps ==
  ASSUME TypeInv, OnceInv, TypeInv', OnceInv', Advances, PrefillMoves
  PROVE  StageStep(PrefillStage, PrefillStage')
<1> DEFINE s == PrefillStage  t == PrefillStage'
<1>1. 1 .. arrived \subseteq Request /\ 1 .. arrived' \subseteq Request
  BY BoundAssumption DEF TypeInv, TypeOK, LoadOK, Request
<1>2. /\ s.now = now /\ s.all = 1 .. arrived /\ s.wait = Waiting /\ s.due = due
      /\ s.in = Waiting \cup Prefills /\ s.poll = {c \in Chain : pc[c] = "prefillStep"}
      /\ \A r \in Request : /\ s.come[r] = at[r].arrival /\ s.take[r] = at[r].pop
                            /\ s.left[r] = FreedAt(r) /\ s.ahead[r] = 1 .. r - 1
  BY PrefillFields
<1>3. /\ t.now = now' /\ t.all = 1 .. arrived' /\ t.wait = Waiting'
      /\ t.in = Waiting' \cup Prefills'
      /\ \A r \in Request : /\ t.come[r] = at'[r].arrival /\ t.take[r] = at'[r].pop
                            /\ t.left[r] = FreedAt(r)' /\ t.ahead[r] = 1 .. r - 1
  BY PrefillFieldsNext
<1>4. /\ Waiting \cup Prefills \subseteq 1 .. arrived
      /\ s.wait \subseteq s.all /\ s.in \subseteq s.all
  BY <1>2, StagePlaces
<1> HIDE DEF s, t
<1>5. s.now <= t.now /\ \A c \in s.poll : t.now <= s.due[c]
  BY <1>2, <1>3 DEF Advances, Idling
<1>6. s.all \subseteq t.all /\ t.in \cap s.all \subseteq s.in /\ t.wait \cap s.all \subseteq s.wait
  BY <1>2, <1>3 DEF PrefillMoves
<1>7. \A r \in s.all : t.come[r] = s.come[r] /\ s.ahead[r] \subseteq t.ahead[r]
  BY <1>1, <1>2, <1>3 DEF PrefillMoves
<1>8. \A r \in t.all \ s.all : r \in t.wait /\ t.come[r] = t.now
  BY <1>1, <1>2, <1>3 DEF PrefillMoves
<1>9. \A r \in s.all \ s.wait : t.take[r] = s.take[r]
  BY <1>1, <1>2, <1>3 DEF PrefillMoves
<1>10. \A r \in s.wait \ t.wait : t.take[r] = t.now /\ \E c \in s.poll : t.now = s.due[c]
  BY <1>1, <1>2, <1>3, <1>4 DEF PrefillMoves
<1>11. \A r \in s.all \ s.in : t.left[r] = s.left[r]
  BY <1>1, <1>2, <1>3 DEF PrefillMoves
<1>12. \A r \in s.in \ t.in : t.left[r] = t.now
  BY <1>1, <1>2, <1>3, <1>4 DEF PrefillMoves
<1>13. QED BY <1>5, <1>6, <1>7, <1>8, <1>9, <1>10, <1>11, <1>12 DEF StageStep, s, t

LEMMA DecodeSteps ==
  ASSUME TypeInv, OnceInv, TypeInv', OnceInv', Advances, DecodeMoves
  PROVE  StageStep(DecodeStage, DecodeStage')
<1> DEFINE s == DecodeStage  t == DecodeStage'
<1>1. HandedOver \subseteq Request /\ HandedOver' \subseteq Request
  BY BoundAssumption DEF TypeInv, TypeOK, LoadOK, Request, HandedOver
<1>2. /\ s.now = now /\ s.all = HandedOver /\ s.wait = Handed /\ s.due = due
      /\ s.in = Handed \cup Decodes /\ s.poll = {c \in Chain : pc[c] = "decodeStep"}
      /\ \A r \in Request :
           /\ s.come[r] = at[r].first /\ s.take[r] = at[r].take /\ s.left[r] = at[r].done
           /\ s.ahead[r] = {q \in HandedOver \ {r} : at[q].first <= at[r].first}
  BY DecodeFields
<1>3. /\ t.now = now' /\ t.all = HandedOver' /\ t.wait = Handed'
      /\ t.in = Handed' \cup Decodes'
      /\ \A r \in Request :
           /\ t.come[r] = at'[r].first /\ t.take[r] = at'[r].take /\ t.left[r] = at'[r].done
           /\ t.ahead[r] = {q \in HandedOver' \ {r} : at'[q].first <= at'[r].first}
  BY DecodeFieldsNext
<1>4. /\ Handed \cup Decodes \subseteq HandedOver
      /\ s.wait \subseteq s.all /\ s.in \subseteq s.all
  <2>1. Handed \cup Decodes \subseteq HandedOver
    BY StagePlaces
  <2>2. QED BY <1>2, <2>1
<1> HIDE DEF s, t
<1>5. s.now <= t.now /\ \A c \in s.poll : t.now <= s.due[c]
  BY <1>2, <1>3 DEF Advances, Idling
<1>6. s.all \subseteq t.all /\ t.in \cap s.all \subseteq s.in /\ t.wait \cap s.all \subseteq s.wait
  BY <1>2, <1>3 DEF DecodeMoves
<1>7. \A r \in s.all : t.come[r] = s.come[r] /\ s.ahead[r] \subseteq t.ahead[r]
  BY <1>1, <1>2, <1>3 DEF DecodeMoves
<1>8. \A r \in t.all \ s.all : r \in t.wait /\ t.come[r] = t.now
  BY <1>1, <1>2, <1>3 DEF DecodeMoves
<1>9. \A r \in s.all \ s.wait : t.take[r] = s.take[r]
  BY <1>1, <1>2, <1>3 DEF DecodeMoves
<1>10. \A r \in s.wait \ t.wait : t.take[r] = t.now /\ \E c \in s.poll : t.now = s.due[c]
  BY <1>1, <1>2, <1>3, <1>4 DEF DecodeMoves
<1>11. \A r \in s.all \ s.in : t.left[r] = s.left[r]
  BY <1>1, <1>2, <1>3 DEF DecodeMoves
<1>12. \A r \in s.in \ t.in : t.left[r] = t.now
  BY <1>1, <1>2, <1>3, <1>4 DEF DecodeMoves
<1>13. QED BY <1>5, <1>6, <1>7, <1>8, <1>9, <1>10, <1>11, <1>12 DEF StageStep, s, t

LEMMA HandedOverNext == HandedOver' = (1 .. arrived') \ (Waiting' \cup Prefills' \cup rejected')
<1>1. \A r : InPrefill(r)' <=> r \in Waiting' \cup Prefills'
  BY DEF InPrefill, Prefills, Prefilling
<1>2. QED BY <1>1 DEF HandedOver

\* The stages when no request moves.
LEMMA RestsMoves ==
  ASSUME TypeInv, OnceInv, Rests
  PROVE  PrefillMoves /\ DecodeMoves
<1>1. HandedOver = (1 .. arrived) \ (Waiting \cup Prefills \cup rejected)
  BY StagePlaces
<1>2. HandedOver' = HandedOver
  BY <1>1, HandedOverNext DEF Rests
<1>3. /\ Waiting' = Waiting /\ Prefills' = Prefills /\ Handed' = Handed /\ Decodes' = Decodes
      /\ rejected' = rejected /\ arrived' = arrived /\ at' = at
  BY DEF Rests
<1>4. PrefillMoves
  BY <1>3 DEF PrefillMoves, FreedAt
<1>5. DecodeMoves
  BY <1>2, <1>3 DEF DecodeMoves
<1>6. QED BY <1>4, <1>5

\* And when one does.
LEMMA MomentsOf ==
  ASSUME NEW x, NEW S, Stamped(x, S)
  PROVE  \A r \in Request :
           /\ at'[r].arrival = IF r = x /\ "arrival" \in S THEN now' ELSE at[r].arrival
           /\ at'[r].pop = IF r = x /\ "pop" \in S THEN now' ELSE at[r].pop
           /\ at'[r].first = IF r = x /\ "first" \in S THEN now' ELSE at[r].first
           /\ at'[r].take = IF r = x /\ "take" \in S THEN now' ELSE at[r].take
           /\ at'[r].done = IF r = x /\ "done" \in S THEN now' ELSE at[r].done
BY DEF Stamped, Moment

LEMMA MoveMoves ==
  ASSUME TypeInv, OnceInv, TypeInv', OnceInv', NEW x \in Request,
         \/ Comes(x)
         \/ /\ \E c \in Chain : pc[c] = "prefillStep" /\ now' = due[c]
            /\ IsAdmitted(x) \/ IsRejected(x)
         \/ IsHandedOn(x)
         \/ /\ \E c \in Chain : pc[c] = "decodeStep" /\ now' = due[c]
            /\ IsTaken(x) \/ IsDoneAtOnce(x)
         \/ IsDone(x)
  PROVE  PrefillMoves /\ DecodeMoves
<1>1. /\ 1 .. arrived \subseteq Request
      /\ Waiting \cup Prefills \cup Handed \cup Decodes \cup rejected \subseteq 1 .. arrived
      /\ Waiting \cap (Prefills \cup Handed \cup Decodes \cup rejected) = {}
      /\ Prefills \cap (Handed \cup Decodes \cup rejected) = {}
      /\ Handed \cap (Decodes \cup rejected) = {} /\ Decodes \cap rejected = {}
      /\ HandedOver = (1 .. arrived) \ (Waiting \cup Prefills \cup rejected)
  BY StagePlaces
<1>2. HandedOver' = (1 .. arrived') \ (Waiting' \cup Prefills' \cup rejected')
  BY HandedOverNext
<1>3. HandedOver \subseteq Request /\ arrived \in Nat
  BY <1>1 DEF TypeInv, TypeOK, LoadOK
<1>4. CASE Comes(x)
  <2>1. /\ x = arrived + 1 /\ arrived' = arrived + 1 /\ Waiting' = Waiting \cup {x}
        /\ Prefills' = Prefills /\ Handed' = Handed /\ Decodes' = Decodes
        /\ rejected' = rejected /\ x \notin 1 .. arrived
        /\ 1 .. arrived' = (1 .. arrived) \cup {x}
    BY <1>3, <1>4 DEF Comes
  <2>2. /\ at'[x].arrival = now'
        /\ \A r \in Request : at'[r].pop = at[r].pop /\ at'[r].first = at[r].first
                              /\ at'[r].take = at[r].take /\ at'[r].done = at[r].done
        /\ \A r \in Request \ {x} : at'[r].arrival = at[r].arrival
    BY <1>4, MomentsOf DEF Comes
  <2>3. HandedOver' = HandedOver
    BY <1>1, <1>2, <2>1
  <2>4. PrefillMoves
    BY <1>1, <2>1, <2>2 DEF PrefillMoves, FreedAt
  <2>5. DecodeMoves
    BY <1>1, <1>3, <2>1, <2>2, <2>3 DEF DecodeMoves
  <2>6. QED BY <2>4, <2>5
<1>5. CASE /\ \E c \in Chain : pc[c] = "prefillStep" /\ now' = due[c]
           /\ IsAdmitted(x)
  <2>1. /\ x \in Waiting /\ Waiting' = Waiting \ {x} /\ Prefills' = Prefills \cup {x}
        /\ Handed' = Handed /\ Decodes' = Decodes /\ rejected' = rejected
        /\ arrived' = arrived
    BY <1>5 DEF IsAdmitted
  <2>2. /\ at'[x].pop = now'
        /\ \A r \in Request : at'[r].arrival = at[r].arrival /\ at'[r].first = at[r].first
                              /\ at'[r].take = at[r].take /\ at'[r].done = at[r].done
        /\ \A r \in Request \ {x} : at'[r].pop = at[r].pop
    BY <1>5, MomentsOf DEF IsAdmitted
  <2>3. HandedOver' = HandedOver
    BY <1>1, <1>2, <2>1
  <2>4. PrefillMoves
    BY <1>1, <1>5, <2>1, <2>2 DEF PrefillMoves, FreedAt
  <2>5. DecodeMoves
    BY <1>1, <1>3, <2>1, <2>2, <2>3 DEF DecodeMoves
  <2>6. QED BY <2>4, <2>5
<1>6. CASE /\ \E c \in Chain : pc[c] = "prefillStep" /\ now' = due[c]
           /\ IsRejected(x)
  <2>1. /\ x \in Waiting /\ Waiting' = Waiting \ {x} /\ rejected' = rejected \cup {x}
        /\ Handed' = Handed /\ Decodes' = Decodes /\ Prefills' = Prefills
        /\ arrived' = arrived
    BY <1>6 DEF IsRejected
  <2>2. /\ at'[x].pop = now' /\ at'[x].done = now'
        /\ \A r \in Request : at'[r].arrival = at[r].arrival /\ at'[r].first = at[r].first
                              /\ at'[r].take = at[r].take
        /\ \A r \in Request \ {x} : at'[r].pop = at[r].pop /\ at'[r].done = at[r].done
    BY <1>6, MomentsOf DEF IsRejected
  <2>3. HandedOver' = HandedOver
    BY <1>1, <1>2, <2>1
  <2>4. PrefillMoves
    BY <1>1, <1>6, <2>1, <2>2 DEF PrefillMoves, FreedAt
  <2>5. DecodeMoves
    BY <1>1, <1>3, <2>1, <2>2, <2>3 DEF DecodeMoves
  <2>6. QED BY <2>4, <2>5
<1>7. CASE IsHandedOn(x)
  <2>1. /\ x \in Prefills /\ Prefills' = Prefills \ {x} /\ Handed' = Handed \cup {x}
        /\ Waiting' = Waiting /\ Decodes' = Decodes /\ rejected' = rejected
        /\ arrived' = arrived
    BY <1>7 DEF IsHandedOn
  <2>2. /\ at'[x].first = now'
        /\ \A r \in Request : at'[r].arrival = at[r].arrival /\ at'[r].pop = at[r].pop
                              /\ at'[r].take = at[r].take /\ at'[r].done = at[r].done
        /\ \A r \in Request \ {x} : at'[r].first = at[r].first
    BY <1>7, MomentsOf DEF IsHandedOn
  <2>3. HandedOver' = HandedOver \cup {x} /\ x \notin HandedOver
    BY <1>1, <1>2, <2>1
  <2>4. PrefillMoves
    BY <1>1, <2>1, <2>2 DEF PrefillMoves, FreedAt
  <2>5. DecodeMoves
    BY <1>1, <1>3, <2>1, <2>2, <2>3 DEF DecodeMoves
  <2>6. QED BY <2>4, <2>5
<1>8. CASE /\ \E c \in Chain : pc[c] = "decodeStep" /\ now' = due[c]
           /\ IsTaken(x)
  <2>1. /\ x \in Handed /\ Handed' = Handed \ {x} /\ Decodes' = Decodes \cup {x}
        /\ Waiting' = Waiting /\ Prefills' = Prefills /\ rejected' = rejected
        /\ arrived' = arrived
    BY <1>8 DEF IsTaken
  <2>2. /\ at'[x].take = now'
        /\ \A r \in Request : at'[r].arrival = at[r].arrival /\ at'[r].pop = at[r].pop
                              /\ at'[r].first = at[r].first /\ at'[r].done = at[r].done
        /\ \A r \in Request \ {x} : at'[r].take = at[r].take
    BY <1>8, MomentsOf DEF IsTaken
  <2>3. HandedOver' = HandedOver
    BY <1>1, <1>2, <2>1
  <2>4. PrefillMoves
    BY <1>1, <2>1, <2>2 DEF PrefillMoves, FreedAt
  <2>5. DecodeMoves
    BY <1>1, <1>3, <1>8, <2>1, <2>2, <2>3 DEF DecodeMoves
  <2>6. QED BY <2>4, <2>5
<1>9. CASE /\ \E c \in Chain : pc[c] = "decodeStep" /\ now' = due[c]
           /\ IsDoneAtOnce(x)
  <2>1. /\ x \in Handed /\ Handed' = Handed \ {x} /\ Decodes' = Decodes
        /\ Waiting' = Waiting /\ Prefills' = Prefills /\ rejected' = rejected
        /\ arrived' = arrived
    BY <1>9 DEF IsDoneAtOnce
  <2>2. /\ at'[x].take = now' /\ at'[x].done = now'
        /\ \A r \in Request : at'[r].arrival = at[r].arrival /\ at'[r].pop = at[r].pop
                              /\ at'[r].first = at[r].first
        /\ \A r \in Request \ {x} : at'[r].take = at[r].take /\ at'[r].done = at[r].done
    BY <1>9, MomentsOf DEF IsDoneAtOnce
  <2>3. HandedOver' = HandedOver
    BY <1>1, <1>2, <2>1
  <2>4. PrefillMoves
    BY <1>1, <2>1, <2>2 DEF PrefillMoves, FreedAt
  <2>5. DecodeMoves
    BY <1>1, <1>3, <1>9, <2>1, <2>2, <2>3 DEF DecodeMoves
  <2>6. QED BY <2>4, <2>5
<1>10. CASE IsDone(x)
  <2>1. /\ x \in Decodes /\ Decodes' = Decodes \ {x} /\ Handed' = Handed
        /\ Waiting' = Waiting /\ Prefills' = Prefills /\ rejected' = rejected
        /\ arrived' = arrived
    BY <1>10 DEF IsDone
  <2>2. /\ at'[x].done = now'
        /\ \A r \in Request : at'[r].arrival = at[r].arrival /\ at'[r].pop = at[r].pop
                              /\ at'[r].first = at[r].first /\ at'[r].take = at[r].take
        /\ \A r \in Request \ {x} : at'[r].done = at[r].done
    BY <1>10, MomentsOf DEF IsDone
  <2>3. HandedOver' = HandedOver
    BY <1>1, <1>2, <2>1
  <2>4. PrefillMoves
    BY <1>1, <2>1, <2>2 DEF PrefillMoves, FreedAt
  <2>5. DecodeMoves
    BY <1>1, <1>3, <2>1, <2>2, <2>3 DEF DecodeMoves
  <2>6. QED BY <2>4, <2>5
<1>11. QED BY <1>4, <1>5, <1>6, <1>7, <1>8, <1>9, <1>10

-----------------------------------------------------------------------------
(* The steps that are no chain's *)

\* What is put on the clock for a chain to poll is due at once.
PollsStay ==
  \A d \in Chain : Idling(d)' =>
    (pc'[d] = pc[d] /\ due'[d] = due[d]) \/ due'[d] <= now'

LEMMA HandsSame ==
  ASSUME UNCHANGED job,
         \A d \in Chain : /\ Prefilling(d)' <=> Prefilling(d)
                          /\ pc'[d] = "decode" <=> pc[d] = "decode"
  PROVE  Prefills' = Prefills /\ Decodes' = Decodes
BY DEF Prefills, Decodes

LEMMA EventAdvances ==
  ASSUME TimeInv, ClockInv, now <= now', \A u \in Pending : now' <= u
  PROVE  Advances
<1>1. \A c \in Chain : Idling(c) => due[c] \in Pending
  BY DEF Pending, Live, Idling, Ended
<1>2. QED BY <1>1 DEF Advances

LEMMA StartComes ==
  ASSUME TimeInv, ClockInv, TStart
  PROVE  Advances /\ PollsStay /\ Rests
<1>1. /\ UNCHANGED <<now, due, at>> /\ ~started /\ Start
  BY DEF TStart, Start
<1>2. /\ now = 0 /\ (\A c \in Chain : due[c] = 0 /\ pc[c] = "unborn")
  BY <1>1 DEF ClockInv, TimeInv, CountInv, TypeInv, NothingBeforeStart
<1>3. Advances /\ PollsStay
  BY <1>1, <1>2 DEF Advances, Idling, PollsStay
<1>4. /\ UNCHANGED <<queue, decodeQueue, rejected, arrived, job>>
      /\ \A c \in Chain : pc'[c] \in {"unborn", "prefillStep", "decodeStep"}
  BY <1>1 DEF Start, workVars, fateVars
<1>5. Prefills' = Prefills /\ Decodes' = Decodes
  BY <1>2, <1>4, HandsSame DEF Prefilling
<1>6. QED BY <1>1, <1>3, <1>4, <1>5 DEF Rests, Waiting, Handed

LEMMA ArriveComes ==
  ASSUME TimeInv, TimeInv', AtRest, ClockInv, TArrive
  PROVE  Advances /\ PollsStay /\ \E x \in Request : Comes(x)
<1>1. /\ now' = nextArrival /\ now' \in Int /\ now' \in Pending
      /\ (\A u \in Pending : now' <= u) /\ UNCHANGED <<due, pc>>
  BY ArriveMoves
<1>2. now <= now'
  BY <1>1 DEF ClockInv
<1>3. Advances /\ PollsStay
  BY <1>1, <1>2, EventAdvances DEF PollsStay
<1>4. ~stopped /\ Arrive /\ ~arrivalsDone
  BY DEF TArrive, AtRest, Quiescent
<1>5. /\ arrived' = arrived + 1 /\ queue' = Append(queue, arrived')
      /\ UNCHANGED <<decodeQueue, rejected, job>> /\ Stamp(arrived', {"arrival"})
  BY <1>4 DEF TArrive, Arrive, fateVars
<1>6. arrived \in Nat /\ queue \in Seq(Request) /\ arrived' \in Request
  <2>1. /\ arrived \in 0 .. MaxRequests /\ arrived' \in 0 .. MaxRequests
        /\ queue \in Seq(Request)
    BY DEF TimeInv, CountInv, TypeInv, TypeOK, LoadOK, WorkOK
  <2>2. QED BY <1>5, <2>1, BoundAssumption DEF Request
<1>7. Prefills' = Prefills /\ Decodes' = Decodes
  BY <1>1, <1>5, HandsSame DEF Prefilling
<1>8. Waiting' = Waiting \cup {arrived'}
  BY <1>5, <1>6, PushSet DEF Waiting
<1>9. Stamped(arrived', {"arrival"})
  BY <1>5, <1>6, StampIs DEF Moment
<1>10. Comes(arrived')
  BY <1>5, <1>7, <1>8, <1>9 DEF Comes, Handed
<1>11. QED BY <1>3, <1>6, <1>10

LEMMA ResizeComes ==
  ASSUME TimeInv, ClockInv, TResize
  PROVE  Advances /\ PollsStay /\ Rests
<1>1. /\ now' \in Int /\ now <= now' /\ (\A u \in Pending : now' <= u)
      /\ UNCHANGED <<due, pc, at, arrived, rejected>>
  BY ResizeMoves
<1>2. Advances /\ PollsStay
  BY <1>1, EventAdvances DEF PollsStay
<1>3. UNCHANGED <<queue, decodeQueue, job>>
  BY DEF TResize, ResizeToPrefill, ResizeToDecode, workVars
<1>4. Prefills' = Prefills /\ Decodes' = Decodes
  BY <1>1, <1>3, HandsSame DEF Prefilling
<1>5. QED BY <1>1, <1>2, <1>3, <1>4 DEF Rests, Waiting, Handed

LEMMA DrainComes ==
  ASSUME TimeInv, AtRest, ClockInv, NEW w \in Worker, TDrainDone(w)
  PROVE  Advances /\ PollsStay /\ Rests
<1>1. /\ now' = drainDue[w] /\ now' \in Pending /\ (\A u \in Pending : now' <= u)
      /\ UNCHANGED <<at, arrived, rejected>>
      /\ \A c \in Chain : (pc'[c] = pc[c] /\ due'[c] = due[c]) \/ due'[c] = now'
  BY DrainMoves
<1>2. now' \in Int /\ now <= now'
  BY <1>1 DEF ClockInv, TimeInv, TimeOK
<1>3. Advances /\ PollsStay
  BY <1>1, <1>2, EventAdvances DEF PollsStay
<1>4. UNCHANGED <<queue, decodeQueue, job>> /\ ~stopped
  BY DEF TDrainDone, DrainDone, workVars, AtRest, Quiescent
<1>5. /\ epoch \in [Worker -> 0 .. MaxFlips] /\ epoch' \in [Worker -> 0 .. MaxFlips]
      /\ pc \in [Chain -> PC] /\ TypeInv
  <2>1. TypeInv'
    BY TypeStep DEF TimeInv, CountInv, TDrainDone, Next
  <2>2. QED BY <2>1 DEF TimeInv, CountInv, TypeInv, TypeOK, PoolsOK, ChainsOK
<1>6. /\ epoch'[w] = epoch[w] + 1
      /\ pc' = [pc EXCEPT ![<<w, epoch[w] + 1>>] =
                  IF drain[w] = "prefill" THEN "prefillStep" ELSE "decodeStep"]
  BY <1>4, <1>5 DEF TDrainDone, DrainDone
<1>7. PICK n \in Chain : n = <<w, epoch[w] + 1>>
  BY <1>5, <1>6, ChainFacts
<1>8. pc[n] = "unborn" /\ pc'[n] \in {"prefillStep", "decodeStep"}
      /\ \A d \in Chain \ {n} : pc'[d] = pc[d]
  BY <1>5, <1>6, <1>7, ChainFacts DEF TypeInv, EpochsBorn
<1>9. Prefills' = Prefills /\ Decodes' = Decodes
  BY <1>4, <1>8, HandsSame DEF Prefilling
<1>10. QED BY <1>1, <1>3, <1>4, <1>9 DEF Rests, Waiting, Handed

LEMMA SameComes ==
  ASSUME TimeInv, ClockInv, TStopAtQuiescence \/ TTerminated \/ UNCHANGED timedVars
  PROVE  Advances /\ PollsStay /\ Rests
<1>1. UNCHANGED <<now, due, pc, at, arrived, rejected, queue, decodeQueue, job>>
  BY DEF TStopAtQuiescence, StopAtQuiescence, TTerminated, Terminated, timedVars, timeVars,
         vars, loadVars, fateVars, workVars
<1>2. now' <= now /\ now <= now'
  BY <1>1 DEF ClockInv
<1>3. \A u \in Pending : now' <= u
  BY <1>1 DEF ClockInv
<1>4. Advances /\ PollsStay
  BY <1>1, <1>2, <1>3, EventAdvances DEF PollsStay
<1>5. Prefills' = Prefills /\ Decodes' = Decodes
  BY <1>1, HandsSame DEF Prefilling
<1>6. QED BY <1>1, <1>4, <1>5 DEF Rests, Waiting, Handed

LEMMA ChainAdvances ==
  ASSUME TimeInv, TimeInv', ClockInv, NEW c \in Chain, TChainStep(c)
  PROVE  Advances /\ now' = due[c]
         /\ \A d \in Chain \ {c} : pc'[d] = pc[d] /\ due'[d] = due[d]
<1>1. now' \in Pending /\ \A u \in Pending : now' <= u
  BY ClockChain
<1>2. now <= now'
  BY <1>1 DEF ClockInv
<1>3. QED BY <1>1, <1>2, EventAdvances, ChainAlone

\* Every step is a chain's, or leaves the chains' polls alone.
LEMMA AnyMoves ==
  ASSUME TimeInv, TimeInv', AtRest, ClockInv, [TNext]_timedVars
  PROVE  /\ Advances
         /\ \/ \E c \in Chain : TChainStep(c)
            \/ PollsStay /\ (Rests \/ \E x \in Request : Comes(x))
<1>1. CASE TStart \/ TResize
  BY <1>1, StartComes, ResizeComes
<1>2. CASE TArrive
  BY <1>2, ArriveComes
<1>3. CASE \E w \in Worker : TDrainDone(w)
  BY <1>3, DrainComes
<1>4. CASE TStopAtQuiescence \/ TTerminated \/ UNCHANGED timedVars
  BY <1>4, SameComes
<1>5. CASE \E c \in Chain : TChainStep(c)
  BY <1>5, ChainAdvances
<1>6. QED BY <1>1, <1>2, <1>3, <1>4, <1>5 DEF TNext

-----------------------------------------------------------------------------
(* First come, first taken *)

OneMoves(x) ==
  \/ Comes(x) \/ IsAdmitted(x) \/ IsRejected(x) \/ IsHandedOn(x)
  \/ IsTaken(x) \/ IsDoneAtOnce(x) \/ IsDone(x)

LEMMA RestsOrMoves ==
  ASSUME TimeInv, TimeInv', AtRest, ClockInv, [TNext]_timedVars
  PROVE  Rests \/ \E x \in Request : OneMoves(x)
<1>1. CASE \E c \in Chain : TChainStep(c)
  BY <1>1, ChainMovesHold DEF ChainMoves, OneMoves
<1>2. CASE Rests \/ \E x \in Request : Comes(x)
  BY <1>2 DEF OneMoves
<1>3. QED BY <1>1, <1>2, AnyMoves

\* Time stamps are times of the past.
StampsInv == \A r \in Request, m \in Moment : at[r][m] \in Int /\ at[r][m] <= now

LEMMA StampsStep ==
  ASSUME StampsInv, now \in Int, now' \in Int, Advances,
         Rests \/ \E x \in Request : OneMoves(x)
  PROVE  StampsInv'
<1> SUFFICES ASSUME NEW r \in Request, NEW m \in Moment
             PROVE  at'[r][m] \in Int /\ at'[r][m] <= now'
  BY DEF StampsInv
<1>1. at[r][m] \in Int /\ at[r][m] <= now /\ now <= now'
  BY DEF StampsInv, Advances
<1>2. at'[r][m] = at[r][m] \/ at'[r][m] = now'
  <2>1. CASE Rests
    BY <2>1 DEF Rests
  <2>2. ASSUME NEW x \in Request, OneMoves(x) PROVE at'[r][m] = at[r][m] \/ at'[r][m] = now'
    BY <2>2 DEF OneMoves, Comes, IsAdmitted, IsRejected, IsHandedOn, IsTaken, IsDoneAtOnce,
                IsDone, Stamped
  <2>3. QED BY <2>1, <2>2
<1>3. QED BY <1>1, <1>2

\* Whoever waits for prefill came after all that do not wait any more.
QueueOrder == \A r \in Waiting, q \in (1 .. arrived) \ Waiting : q < r

LEMMA QueueOrderStep ==
  ASSUME QueueOrder, TypeInv, OnceInv, Rests \/ \E x \in Request : OneMoves(x)
  PROVE  QueueOrder'
<1>1. Waiting \subseteq 1 .. arrived /\ arrived \in Nat
  BY StagePlaces DEF TypeInv, TypeOK, LoadOK
<1>2. CASE Waiting' = Waiting /\ arrived' = arrived
  BY <1>2 DEF QueueOrder
<1>3. ASSUME NEW x \in Request, Comes(x) PROVE QueueOrder'
  BY <1>1, <1>3 DEF QueueOrder, Comes
<1>4. ASSUME NEW x \in Request, IsAdmitted(x) \/ IsRejected(x) PROVE QueueOrder'
  <2>1. /\ x \in Waiting /\ (\A q \in Waiting : x <= q) /\ Waiting' = Waiting \ {x}
        /\ arrived' = arrived
    BY <1>4 DEF IsAdmitted, IsRejected
  <2>2. \A r \in Waiting' : x < r
    BY <1>1, <2>1
  <2>3. QED BY <2>1, <2>2 DEF QueueOrder
<1>5. QED BY <1>2, <1>3, <1>4
      DEF Rests, OneMoves, IsHandedOn, IsTaken, IsDoneAtOnce, IsDone

\* Hand-offs wait in the order of their first tokens.
FirstOrder ==
  \A i, j \in 1 .. Len(decodeQueue) :
    i < j => at[decodeQueue[i]].first <= at[decodeQueue[j]].first

LEMMA HeadFirst ==
  ASSUME FirstOrder, StampsInv, TypeInv, decodeQueue # <<>>
  PROVE  \A q \in Handed : at[Head(decodeQueue)].first <= at[q].first
<1>1. /\ decodeQueue \in Seq(Request) /\ Len(decodeQueue) \in Nat /\ Len(decodeQueue) > 0
      /\ DOMAIN decodeQueue = 1 .. Len(decodeQueue)
  BY LenProperties, EmptySeq DEF TypeInv, TypeOK, WorkOK
<1>2. Head(decodeQueue) = decodeQueue[1]
  BY <1>1, HeadTailProperties
<1>3. ASSUME NEW q \in Handed PROVE at[decodeQueue[1]].first <= at[q].first
  <2>1. PICK j \in 1 .. Len(decodeQueue) : q = decodeQueue[j]
    BY <1>1 DEF Handed, ToSet
  <2>2. q \in Request
    BY <1>1, <2>1, ElementOfSeq
  <2>3. at[q].first \in Int
    BY <2>2 DEF StampsInv, Moment
  <2>4. QED BY <1>1, <2>1, <2>3 DEF FirstOrder
<1>4. QED BY <1>2, <1>3

LEMMA FirstOrderStep ==
  ASSUME FirstOrder, StampsInv, TypeInv, OnceInv, Advances, now \in Int, now' \in Int,
         Rests \/ \E x \in Request : OneMoves(x)
  PROVE  FirstOrder'
<1>1. /\ decodeQueue \in Seq(Request) /\ Len(decodeQueue) \in Nat
      /\ DOMAIN decodeQueue = 1 .. Len(decodeQueue)
      /\ \A i \in 1 .. Len(decodeQueue) : decodeQueue[i] \in Request
      /\ \A i \in 1 .. Len(decodeQueue) : decodeQueue[i] \in Handed
  <2>1. decodeQueue \in Seq(Request)
    BY DEF TypeInv, TypeOK, WorkOK
  <2>2. QED BY <2>1, LenProperties, ElementOfSeq DEF Handed, ToSet
<1>2. ASSUME \A r \in Request : at'[r].first = at[r].first, decodeQueue' = decodeQueue
      PROVE  FirstOrder'
  BY <1>1, <1>2 DEF FirstOrder
<1>3. ASSUME \A r \in Request : at'[r].first = at[r].first,
             decodeQueue # <<>>, decodeQueue' = Tail(decodeQueue)
      PROVE  FirstOrder'
  <2>1. /\ Len(decodeQueue') = Len(decodeQueue) - 1
        /\ \A i \in 1 .. Len(decodeQueue) - 1 : decodeQueue'[i] = decodeQueue[i + 1]
    BY <1>1, <1>3, HeadTailProperties
  <2>2. QED BY <1>1, <1>3, <2>1 DEF FirstOrder
<1>4. CASE Rests
  BY <1>2, <1>4 DEF Rests
<1>5. ASSUME NEW x \in Request, Comes(x) \/ IsAdmitted(x) \/ IsRejected(x) \/ IsDone(x)
      PROVE  FirstOrder'
  BY <1>2, <1>5, MomentsOf DEF Comes, IsAdmitted, IsRejected, IsDone
<1>6. ASSUME NEW x \in Request, IsTaken(x) \/ IsDoneAtOnce(x) PROVE FirstOrder'
  BY <1>3, <1>6, MomentsOf DEF IsTaken, IsDoneAtOnce
<1>7. ASSUME NEW x \in Request, IsHandedOn(x) PROVE FirstOrder'
  <2>1. /\ at'[x].first = now' /\ \A r \in Request \ {x} : at'[r].first = at[r].first
    BY <1>7, MomentsOf DEF IsHandedOn
  <2>2. /\ decodeQueue' = Append(decodeQueue, x) /\ x \notin Handed
    BY <1>7, StagePlaces DEF IsHandedOn
  <2>3. /\ Len(decodeQueue') = Len(decodeQueue) + 1
        /\ decodeQueue'[Len(decodeQueue) + 1] = x
        /\ \A i \in 1 .. Len(decodeQueue) : decodeQueue'[i] = decodeQueue[i]
    BY <1>1, <2>2, AppendProperties
  <2>4. \A i \in 1 .. Len(decodeQueue) : at'[decodeQueue[i]].first = at[decodeQueue[i]].first
                                         /\ at[decodeQueue[i]].first <= now'
    <3>1. \A r \in Request : at[r].first \in Int /\ at[r].first <= now
      BY DEF StampsInv, Moment
    <3>2. now <= now'
      BY DEF Advances
    <3>3. QED BY <1>1, <2>1, <2>2, <3>1, <3>2
  <2>5. QED BY <1>1, <2>1, <2>3, <2>4 DEF FirstOrder
<1>8. QED BY <1>4, <1>5, <1>6, <1>7 DEF OneMoves

\* Whoever waits for decode had its first token no earlier than all that do not wait.
HandOrder == \A r \in Handed, q \in HandedOver \ Handed : at[q].first <= at[r].first

LEMMA HandOrderStep ==
  ASSUME HandOrder, FirstOrder, StampsInv, TypeInv, OnceInv, Advances, now \in Int,
         now' \in Int, Rests \/ \E x \in Request : OneMoves(x)
  PROVE  HandOrder'
<1>1. /\ 1 .. arrived \subseteq Request
      /\ Waiting \cup Prefills \cup Handed \cup Decodes \cup rejected \subseteq 1 .. arrived
      /\ Waiting \cap (Prefills \cup Handed \cup Decodes \cup rejected) = {}
      /\ Prefills \cap (Handed \cup Decodes \cup rejected) = {}
      /\ HandedOver = (1 .. arrived) \ (Waiting \cup Prefills \cup rejected)
      /\ arrived \in Nat
  BY StagePlaces DEF TypeInv, TypeOK, LoadOK
<1>2. HandedOver' = (1 .. arrived') \ (Waiting' \cup Prefills' \cup rejected')
  BY HandedOverNext
<1>3. HandedOver \subseteq Request /\ Handed \subseteq Request
  BY <1>1
<1>4. ASSUME \A r \in Request : at'[r].first = at[r].first, Handed' = Handed,
             HandedOver' = HandedOver
      PROVE  HandOrder'
  BY <1>3, <1>4 DEF HandOrder
<1>5. CASE Rests
  BY <1>1, <1>2, <1>4, <1>5 DEF Rests
<1>6. ASSUME NEW x \in Request, Comes(x) PROVE HandOrder'
  <2>1. \A r \in Request : at'[r].first = at[r].first
    BY <1>6, MomentsOf DEF Comes
  <2>2. HandedOver' = HandedOver
    BY <1>1, <1>2, <1>6 DEF Comes
  <2>3. QED BY <1>4, <1>6, <2>1, <2>2 DEF Comes
<1>7. ASSUME NEW x \in Request, IsAdmitted(x) \/ IsRejected(x) \/ IsDone(x) PROVE HandOrder'
  <2>1. \A r \in Request : at'[r].first = at[r].first
    BY <1>7, MomentsOf DEF IsAdmitted, IsRejected, IsDone
  <2>2. HandedOver' = HandedOver
    BY <1>1, <1>2, <1>7 DEF IsAdmitted, IsRejected, IsDone
  <2>3. QED BY <1>4, <1>7, <2>1, <2>2 DEF IsAdmitted, IsRejected, IsDone
<1>8. ASSUME NEW x \in Request, IsTaken(x) \/ IsDoneAtOnce(x) PROVE HandOrder'
  <2>1. \A r \in Request : at'[r].first = at[r].first
    BY <1>8, MomentsOf DEF IsTaken, IsDoneAtOnce
  <2>2. HandedOver' = HandedOver /\ Handed' = Handed \ {x} /\ x \in Handed
    BY <1>1, <1>2, <1>8 DEF IsTaken, IsDoneAtOnce
  <2>3. \A q \in Handed : at[x].first <= at[q].first
    BY <1>8, HeadFirst DEF IsTaken, IsDoneAtOnce
  <2>4. QED BY <1>3, <2>1, <2>2, <2>3 DEF HandOrder
<1>9. ASSUME NEW x \in Request, IsHandedOn(x) PROVE HandOrder'
  <2>1. /\ at'[x].first = now' /\ \A r \in Request \ {x} : at'[r].first = at[r].first
    BY <1>9, MomentsOf DEF IsHandedOn
  <2>2. /\ HandedOver' = HandedOver \cup {x} /\ x \notin HandedOver
        /\ Handed' = Handed \cup {x} /\ x \notin Handed
    BY <1>1, <1>2, <1>9 DEF IsHandedOn
  <2>3. \A r \in Request : at[r].first \in Int /\ at[r].first <= now'
    BY DEF StampsInv, Moment, Advances
  <2>4. QED BY <1>3, <2>1, <2>2, <2>3 DEF HandOrder
<1>10. QED BY <1>5, <1>6, <1>7, <1>8, <1>9 DEF OneMoves

-----------------------------------------------------------------------------
(* The two stages are served *)

LEMMA StagesStep ==
  ASSUME TimeInv, TimeInv', AtRest, ClockInv, [TNext]_timedVars
  PROVE  StageStep(PrefillStage, PrefillStage') /\ StageStep(DecodeStage, DecodeStage')
<1>1. TypeInv /\ OnceInv /\ TypeInv' /\ OnceInv' /\ Advances
  BY AnyMoves DEF TimeInv, CountInv
<1>2. CASE Rests
  BY <1>1, <1>2, RestsMoves, PrefillSteps, DecodeSteps
<1>3. ASSUME NEW x \in Request, Comes(x) PROVE PrefillMoves /\ DecodeMoves
  BY <1>1, <1>3, MoveMoves
<1>4. ASSUME NEW c \in Chain, TChainStep(c), ~Rests PROVE PrefillMoves /\ DecodeMoves
  <2>1. now' = due[c]
    BY <1>4, ChainAdvances
  <2>2. ChainMoves(c)
    BY <1>4, ChainMovesHold
  <2>3. PICK x \in Request :
          \/ pc[c] = "prefillStep" /\ (IsAdmitted(x) \/ IsRejected(x))
          \/ IsHandedOn(x)
          \/ pc[c] = "decodeStep" /\ (IsTaken(x) \/ IsDoneAtOnce(x))
          \/ IsDone(x)
    BY <1>4, <2>2 DEF ChainMoves
  <2>4. QED BY <1>1, <2>1, <2>3, MoveMoves
<1>5. QED BY <1>1, <1>2, <1>3, <1>4, AnyMoves, PrefillSteps, DecodeSteps

\* A prefill chain backs off only if nobody waits, and polls one interval after the
\* request that it has rejected or handed on, which came before all that wait.
LEMMA PrefillPolls ==
  ASSUME TimeInv, TimeInv', AtRest, ClockInv, ClockInv', QueueOrder', [TNext]_timedVars
  PROVE  PollStep(PrefillStage, PrefillStage')
<1> DEFINE s == PrefillStage  t == PrefillStage'
<1>1. /\ s.due = due /\ s.poll = {c \in Chain : pc[c] = "prefillStep"}
  BY PrefillFields
<1>2. /\ t.now = now' /\ t.wait = Waiting' /\ t.due = due' /\ t.in = Waiting' \cup Prefills'
      /\ t.poll = {c \in Chain : pc'[c] = "prefillStep"}
      /\ \A r \in Request : t.left[r] = FreedAt(r)' /\ t.ahead[r] = 1 .. r - 1
  BY PrefillFieldsNext
<1> HIDE DEF s, t
<1>3. \A c \in t.poll : t.due[c] <= t.now + MaxIdle
  BY <1>2 DEF ClockInv, Idling
<1>4. /\ 1 .. arrived' \subseteq Request /\ Waiting' \subseteq 1 .. arrived' /\ arrived' \in Nat
      /\ TypeInv /\ OnceInv
  <2>1. arrived' \in 0 .. MaxRequests
    BY DEF TimeInv, CountInv, TypeInv, TypeOK, LoadOK
  <2>2. Waiting' \subseteq 1 .. arrived'
    BY DEF TimeInv, CountInv, OnceInv, PlacesCover
  <2>3. QED BY <2>1, <2>2, BoundAssumption DEF Request, TimeInv, CountInv
<1>5. ASSUME NEW x \in 1 .. arrived', x \notin Waiting' \cup Prefills', FreedAt(x)' = now',
             NEW r \in Waiting'
      PROVE  \E q \in t.ahead[r] \ t.in : t.left[q] = t.now
  <2>1. x < r /\ x \in Request /\ r \in Request
    BY <1>4, <1>5 DEF QueueOrder
  <2>2. x \in 1 .. r - 1
    BY <1>4, <1>5, <2>1
  <2>3. QED BY <1>2, <1>5, <2>1, <2>2
<1>6. ASSUME NEW c \in Chain, TChainStep(c), pc'[c] = "prefillStep"
      PROVE  \/ Waiting' = {}
             \/ due'[c] = now' + IdlePoll
                  /\ \A r \in t.wait : \E q \in t.ahead[r] \ t.in : t.left[q] = t.now
  <2>1. ChainMoves(c)
    BY <1>6, ChainMovesHold
  <2>2. ASSUME NEW x \in Request, IsRejected(x), PollsAgain(c)
        PROVE  \A r \in t.wait : \E q \in t.ahead[r] \ t.in : t.left[q] = t.now
    <3>1. /\ x \in 1 .. arrived /\ x \in Waiting /\ x \notin Prefills
      BY <1>4, <2>2, StagePlaces DEF IsRejected
    <3>2. /\ x \in 1 .. arrived' /\ x \notin Waiting' \cup Prefills' /\ x \in rejected'
          /\ at'[x].done = now'
      BY <2>2, <3>1, MomentsOf DEF IsRejected
    <3>3. FreedAt(x)' = now'
      BY <3>2 DEF FreedAt
    <3>4. QED BY <1>2, <1>5, <3>2, <3>3
  <2>3. ASSUME NEW x \in Request, IsHandedOn(x), PollsAgain(c)
        PROVE  \A r \in t.wait : \E q \in t.ahead[r] \ t.in : t.left[q] = t.now
    <3>1. /\ x \in 1 .. arrived /\ x \notin Waiting /\ x \in Prefills /\ x \notin rejected
      BY <1>4, <2>3, StagePlaces DEF IsHandedOn
    <3>2. /\ x \in 1 .. arrived' /\ x \notin Waiting' \cup Prefills' /\ x \notin rejected'
          /\ at'[x].first = now'
      BY <2>3, <3>1, MomentsOf DEF IsHandedOn
    <3>3. FreedAt(x)' = now'
      BY <3>2 DEF FreedAt
    <3>4. QED BY <1>2, <1>5, <3>2, <3>3
  <2>4. QED BY <1>6, <2>1, <2>2, <2>3 DEF ChainMoves, PollsAgain
<1>7. ASSUME NEW c \in t.poll
      PROVE  \/ c \in s.poll /\ t.due[c] = s.due[c]
             \/ t.due[c] <= t.now
             \/ t.due[c] <= t.now + IdlePoll
                  /\ \A r \in t.wait : \E q \in t.ahead[r] \ t.in : t.left[q] = t.now
             \/ t.wait = {}
  <2>1. c \in Chain /\ pc'[c] = "prefillStep"
    BY <1>2
  <2>2. CASE PollsStay
    BY <1>1, <1>2, <2>1, <2>2 DEF PollsStay, Idling
  <2>3. ASSUME NEW d \in Chain, TChainStep(d), d # c
        PROVE  c \in s.poll /\ t.due[c] = s.due[c]
    <3>1. pc'[c] = pc[c] /\ due'[c] = due[c]
      BY <2>1, <2>3, ChainAdvances
    <3>2. QED BY <1>1, <1>2, <2>1, <3>1
  <2>4. ASSUME TChainStep(c)
        PROVE  \/ t.due[c] <= t.now + IdlePoll
                    /\ \A r \in t.wait : \E q \in t.ahead[r] \ t.in : t.left[q] = t.now
               \/ t.wait = {}
    <3>1. due' \in [Chain -> Int] /\ now' \in Int /\ IdlePoll \in Int
      BY DelayAssumption DEF TimeInv, TimeOK, ClockInv
    <3>2. due'[c] = now' + IdlePoll => t.due[c] <= t.now + IdlePoll
      BY <1>2, <2>1, <3>1
    <3>3. QED BY <1>2, <1>6, <2>1, <2>4, <3>2
  <2>5. QED BY <2>2, <2>3, <2>4, AnyMoves
<1>8. QED BY <1>3, <1>7 DEF PollStep, s, t

\* A decode chain likewise, after the request that it has finished.
LEMMA DecodePolls ==
  ASSUME TimeInv, TimeInv', AtRest, ClockInv, ClockInv', HandOrder', [TNext]_timedVars
  PROVE  PollStep(DecodeStage, DecodeStage')
<1> DEFINE s == DecodeStage  t == DecodeStage'
<1>1. /\ s.due = due /\ s.poll = {c \in Chain : pc[c] = "decodeStep"}
  BY DecodeFields
<1>2. /\ t.now = now' /\ t.wait = Handed' /\ t.due = due' /\ t.in = Handed' \cup Decodes'
      /\ t.poll = {c \in Chain : pc'[c] = "decodeStep"}
      /\ \A r \in Request :
           /\ t.left[r] = at'[r].done
           /\ t.ahead[r] = {q \in HandedOver' \ {r} : at'[q].first <= at'[r].first}
  BY DecodeFieldsNext
<1> HIDE DEF s, t
<1>3. \A c \in t.poll : t.due[c] <= t.now + MaxIdle
  BY <1>2 DEF ClockInv, Idling
<1>4. /\ Handed' \subseteq Request /\ TypeInv /\ OnceInv
      /\ HandedOver = (1 .. arrived) \ (Waiting \cup Prefills \cup rejected)
      /\ HandedOver' = (1 .. arrived') \ (Waiting' \cup Prefills' \cup rejected')
  <2>1. arrived' \in 0 .. MaxRequests
    BY DEF TimeInv, CountInv, TypeInv, TypeOK, LoadOK
  <2>2. Handed' \subseteq 1 .. arrived'
    BY DEF TimeInv, CountInv, OnceInv, PlacesCover
  <2>3. TypeInv /\ OnceInv
    BY DEF TimeInv, CountInv
  <2>4. HandedOver = (1 .. arrived) \ (Waiting \cup Prefills \cup rejected)
    BY <2>3, StagePlaces
  <2>5. QED BY <2>1, <2>2, <2>3, <2>4, HandedOverNext, BoundAssumption DEF Request
<1>5. ASSUME NEW x \in Request, x \in HandedOver', x \notin Handed' \cup Decodes',
             at'[x].done = now', NEW r \in Handed'
      PROVE  \E q \in t.ahead[r] \ t.in : t.left[q] = t.now
  <2>1. at'[x].first <= at'[r].first /\ x # r /\ r \in Request
    BY <1>4, <1>5 DEF HandOrder
  <2>2. QED BY <1>2, <1>5, <2>1
<1>6. ASSUME NEW c \in Chain, TChainStep(c), pc'[c] = "decodeStep"
      PROVE  \/ Handed' = {}
             \/ due'[c] = now' + IdlePoll
                  /\ \A r \in t.wait : \E q \in t.ahead[r] \ t.in : t.left[q] = t.now
  <2>1. ChainMoves(c)
    BY <1>6, ChainMovesHold
  <2>2. ASSUME NEW x \in Request, IsDoneAtOnce(x) \/ IsDone(x), PollsAgain(c)
        PROVE  \A r \in t.wait : \E q \in t.ahead[r] \ t.in : t.left[q] = t.now
    <3>1. /\ x \in 1 .. arrived /\ x \notin Waiting \cup Prefills \cup rejected
          /\ x \in Handed => x \notin Decodes
          /\ x \in Decodes => x \notin Handed
      BY <1>4, <2>2, StagePlaces DEF IsDoneAtOnce, IsDone
    <3>2. /\ UNCHANGED <<arrived, Waiting, Prefills, rejected>>
          /\ x \notin Handed' \cup Decodes' /\ at'[x].done = now'
      BY <2>2, <3>1, MomentsOf DEF IsDoneAtOnce, IsDone
    <3>3. x \in HandedOver'
      BY <1>4, <3>1, <3>2
    <3>4. QED BY <1>2, <1>5, <3>2, <3>3
  <2>3. QED BY <1>6, <2>1, <2>2 DEF ChainMoves, PollsAgain
<1>7. ASSUME NEW c \in t.poll
      PROVE  \/ c \in s.poll /\ t.due[c] = s.due[c]
             \/ t.due[c] <= t.now
             \/ t.due[c] <= t.now + IdlePoll
                  /\ \A r \in t.wait : \E q \in t.ahead[r] \ t.in : t.left[q] = t.now
             \/ t.wait = {}
  <2>1. c \in Chain /\ pc'[c] = "decodeStep"
    BY <1>2
  <2>2. CASE PollsStay
    BY <1>1, <1>2, <2>1, <2>2 DEF PollsStay, Idling
  <2>3. ASSUME NEW d \in Chain, TChainStep(d), d # c
        PROVE  c \in s.poll /\ t.due[c] = s.due[c]
    <3>1. pc'[c] = pc[c] /\ due'[c] = due[c]
      BY <2>1, <2>3, ChainAdvances
    <3>2. QED BY <1>1, <1>2, <2>1, <3>1
  <2>4. ASSUME TChainStep(c)
        PROVE  \/ t.due[c] <= t.now + IdlePoll
                    /\ \A r \in t.wait : \E q \in t.ahead[r] \ t.in : t.left[q] = t.now
               \/ t.wait = {}
    <3>1. due' \in [Chain -> Int] /\ now' \in Int /\ IdlePoll \in Int
      BY DelayAssumption DEF TimeInv, TimeOK, ClockInv
    <3>2. due'[c] = now' + IdlePoll => t.due[c] <= t.now + IdlePoll
      BY <1>2, <2>1, <3>1
    <3>3. QED BY <1>2, <1>6, <2>1, <2>4, <3>2
  <2>5. QED BY <2>2, <2>3, <2>4, AnyMoves
<1>8. QED BY <1>3, <1>7 DEF PollStep, s, t

LEMMA StagesOK ==
  ASSUME TimeInv, ClockInv, StampsInv
  PROVE  StageOK(PrefillStage) /\ StageOK(DecodeStage)
<1>1. /\ TypeInv /\ OnceInv /\ now \in Int /\ due \in [Chain -> Int]
      /\ \A r \in Request :
           /\ at[r].arrival \in Int /\ at[r].first \in Int /\ at[r].done \in Int
           /\ at[r].pop \in Int /\ at[r].pop <= now /\ at[r].take \in Int
           /\ at[r].take <= now /\ FreedAt(r) \in Int
  BY DEF TimeInv, TimeOK, CountInv, ClockInv, StampsInv, Moment, FreedAt
<1>2. /\ 1 .. arrived \subseteq Request
      /\ Waiting \cup Prefills \cup Handed \cup Decodes \cup rejected \subseteq 1 .. arrived
      /\ Handed \cup Decodes \subseteq HandedOver /\ HandedOver \subseteq 1 .. arrived
  BY <1>1, StagePlaces
<1>3. StageOK(PrefillStage)
  <2>1. \A r \in 1 .. arrived : 1 .. r - 1 \subseteq (1 .. arrived) \ {r}
    BY <1>1 DEF TypeInv, TypeOK, LoadOK
  <2>2. QED BY <1>1, <1>2, <2>1, PrefillFields DEF StageOK
<1>4. StageOK(DecodeStage)
  BY <1>1, <1>2, DecodeFields DEF StageOK
<1>5. QED BY <1>3, <1>4

-----------------------------------------------------------------------------
(* Each pool has a worker that serves *)

\* The caller of ResizePools empties no pool.
KeepsPools == MinPrefillGPUs >= 1 /\ MinDecodeGPUs >= 1

\* Flips take the last worker of a list, so the first one serves its pool all along.
Heads(kind, w) ==
  /\ w \in Worker /\ drain[w] = "none"
  /\ ~stopped => ~stop[w]
  /\ started /\ ~stopped => Serves(kind, <<w, 0>>)

HeadsInv ==
  /\ TypeInv /\ ListsInv
  /\ Len(prefillGPUs) >= 1 /\ Len(decodeGPUs) >= 1
  /\ Heads("prefill", prefillGPUs[1]) /\ Heads("decode", decodeGPUs[1])

LEMMA FirstChain ==
  ASSUME NEW w \in Worker
  PROVE  <<w, 0>> \in Chain /\ <<w, 0>>[1] = w /\ <<w, 0>>[2] = 0
<1>1. 0 \in 0 .. MaxFlips
  BY BoundAssumption
<1>2. QED BY <1>1, ChainFacts

\* What is no flip of w, and no Start, leaves w where it serves.
LEMMA HeadsStay ==
  ASSUME TypeInv, NEW kind \in Roles, NEW w, Heads(kind, w), [TNext]_timedVars, ~TStart,
         TResize => /\ drain'[w] = "none"
                    /\ ~stopped => ~stop'[w]
  PROVE  Heads(kind, w)'
<1>1. /\ w \in Worker /\ <<w, 0>> \in Chain
      /\ drain \in [Worker -> RoleOrNone] /\ stop \in [Worker -> BOOLEAN]
      /\ epoch \in [Worker -> 0 .. MaxFlips] /\ pc \in [Chain -> PC]
  BY FirstChain DEF Heads, TypeInv, TypeOK, PoolsOK, ChainsOK
<1>2. ASSUME UNCHANGED <<drain, stop, started, pc>>, stopped => stopped' PROVE Heads(kind, w)'
  BY <1>2 DEF Heads, Serves
<1>3. CASE TArrive
  BY <1>2, <1>3 DEF TArrive, Arrive, poolVars
<1>4. CASE TResize
  <2>1. UNCHANGED <<started, stopped, pc>>
    BY <1>4 DEF TResize, ResizeToPrefill, ResizeToDecode
  <2>2. QED BY <1>4, <2>1 DEF Heads, Serves
<1>5. ASSUME NEW v \in Worker, TDrainDone(v) PROVE Heads(kind, w)'
  <2>1. DrainDone(v) /\ v # w
    BY <1>5 DEF TDrainDone, DrainDone, Heads
  <2>2. UNCHANGED <<started, stopped>> /\ drain'[w] = drain[w]
    BY <1>1, <2>1 DEF DrainDone
  <2>3. CASE ~stopped
    <3>1. /\ stop' = [stop EXCEPT ![v] = FALSE]
          /\ pc' = [pc EXCEPT ![<<v, epoch[v] + 1>>] =
                      IF drain[v] = "prefill" THEN "prefillStep" ELSE "decodeStep"]
      BY <2>1, <2>3 DEF DrainDone
    <3>2. <<w, 0>> # <<v, epoch[v] + 1>>
      BY <2>1
    <3>3. stop'[w] = stop[w] /\ pc'[<<w, 0>>] = pc[<<w, 0>>]
      BY <1>1, <2>1, <3>1, <3>2
    <3>4. QED BY <2>2, <3>3 DEF Heads, Serves
  <2>4. QED BY <2>2, <2>3 DEF Heads
<1>6. CASE UNCHANGED vars
  BY <1>2, <1>6 DEF vars, poolVars
<1>7. ASSUME NEW c \in Chain, TChainStep(c) PROVE Heads(kind, w)'
  <2>1. CASE PrefillPoll(c) \/ DecodePoll(c)
    BY <1>6, <2>1 DEF PrefillPoll, DecodePoll
  <2>2. CASE ~(PrefillPoll(c) \/ DecodePoll(c))
    <3>1. ChainStep(c)
      BY <1>7, <2>2 DEF TChainStep, ChainStep, Ends, TAdmit, TReject, TPrefillDone, THandOff,
                        TTakeFinished, TTakeHandoff, TDecodeToken, TComplete
    <3>2. UNCHANGED <<poolVars, started, stopped>>
      BY <3>1 DEF ChainStep, Exit, Retire, Admit, Reject, PrefillDone, HandOff, TakeHandoff,
                  Abandon, Complete, DecodeToken
    <3>3. ASSUME started, ~stopped PROVE Serves(kind, <<w, 0>>)'
      <4>1. PICK b \in Chain : b = <<w, 0>>
        BY <1>1
      <4>2. Serves(kind, b) /\ ~stop[b[1]]
        BY <3>3, <4>1 DEF Heads
      <4>3. Serves(kind, b)'
        BY <3>1, <3>3, <4>2, ChainServes
      <4>4. QED BY <4>1, <4>3 DEF Serves
    <3>4. QED BY <3>2, <3>3 DEF Heads, poolVars
  <2>3. QED BY <2>1, <2>2
<1>8. CASE TStopAtQuiescence
  BY <1>2, <1>8 DEF TStopAtQuiescence, StopAtQuiescence, poolVars
<1>9. CASE TTerminated \/ UNCHANGED timedVars
  BY <1>6, <1>9 DEF TTerminated, Terminated, timedVars
<1>10. QED BY <1>3, <1>4, <1>5, <1>7, <1>8, <1>9 DEF TNext

(* Taking the last element of a list of two or more, or adding one at its end,  *)
(* leaves the first where it is.                                                *)
LEMMA FirstKept ==
  ASSUME NEW S, NEW s \in Seq(S), NEW t \in Seq(S), NEW e \in S, Len(s) > 1, Len(t) >= 1
  PROVE  Front(s)[1] = s[1] /\ Append(t, e)[1] = t[1]
<1>1. 1 \in 1 .. Len(s) - 1 /\ 1 \in 1 .. Len(t) /\ Len(s) > 0
  BY LenProperties
<1>2. Front(s)[1] = s[1]
  BY <1>1, LastTypes
<1>3. Append(t, e)[1] = t[1]
  BY <1>1, AppendProperties
<1>4. QED BY <1>2, <1>3

LEMMA HeadsResize ==
  ASSUME KeepsPools, HeadsInv, TypeInv', TResize
  PROVE  HeadsInv'
<1>1. /\ prefillGPUs \in Seq(Worker) /\ decodeGPUs \in Seq(Worker)
      /\ Len(prefillGPUs) \in Nat /\ Len(decodeGPUs) \in Nat
      /\ drain \in [Worker -> RoleOrNone] /\ stop \in [Worker -> BOOLEAN]
      /\ role \in [Worker -> Roles]
      /\ MinPrefillGPUs \in Nat /\ MinDecodeGPUs \in Nat
      /\ TypeInv /\ ListsInv /\ Len(prefillGPUs) >= 1 /\ Len(decodeGPUs) >= 1
  BY LenProperties, CallerAssumption DEF HeadsInv, TypeInv, TypeOK, PoolsOK
<1> DEFINE p == prefillGPUs[1]  d == decodeGPUs[1]
<1>2. /\ p \in ToSet(prefillGPUs) /\ d \in ToSet(decodeGPUs)
      /\ p \in Worker /\ d \in Worker
      /\ drain[p] = "none" /\ drain[d] = "none"
      /\ ~stopped => ~stop[p] /\ ~stop[d]
  BY <1>1 DEF ToSet, HeadsInv, Heads
<1>3. ASSUME NEW w \in Worker, NEW to, Flip(w, to), w # p, w # d,
             prefillGPUs'[1] = p, decodeGPUs'[1] = d
      PROVE  Heads("prefill", p)' /\ Heads("decode", d)'
  <2>1. \A v \in Worker \ {w} : drain'[v] = drain[v] /\ stop'[v] = stop[v]
    BY <1>1, <1>3 DEF Flip
  <2>2. /\ drain'[p] = "none" /\ drain'[d] = "none"
        /\ ~stopped => ~stop'[p] /\ ~stop'[d]
    BY <1>2, <1>3, <2>1
  <2>3. /\ Heads("prefill", p) /\ Heads("decode", d) /\ UNCHANGED <<started, stopped, pc>>
    BY DEF HeadsInv, TResize, ResizeToPrefill, ResizeToDecode
  <2>4. QED BY <1>3, <2>2, <2>3 DEF Heads, Serves
<1>4. CASE ResizeToPrefill
  <2> DEFINE w == Last(decodeGPUs)
  <2>1. /\ Len(decodeGPUs) > 1 /\ Flip(w, "prefill")
        /\ decodeGPUs' = Front(decodeGPUs) /\ prefillGPUs' = Append(prefillGPUs, w)
    BY <1>1, <1>4 DEF KeepsPools, ResizeToPrefill
  <2>2. /\ ListsInv' /\ w \in Worker /\ w \in ToSet(decodeGPUs)
        /\ Len(prefillGPUs') = Len(prefillGPUs) + 1
        /\ Len(decodeGPUs') = Len(decodeGPUs) - 1
    BY <1>1, <1>4, <2>1, ListsToPrefill
  <2>3. w # p /\ w # d
    <3>1. w = decodeGPUs[Len(decodeGPUs)] /\ DOMAIN decodeGPUs = 1 .. Len(decodeGPUs)
      BY <1>1, LenProperties DEF Last
    <3>2. w # d
      BY <1>1, <2>1, <3>1 DEF ListsInv, Once
    <3>3. QED BY <1>1, <1>2, <2>2, <3>2 DEF ListsInv
  <2>4. prefillGPUs'[1] = p /\ decodeGPUs'[1] = d
    <3>1. Front(decodeGPUs)[1] = decodeGPUs[1] /\ Append(prefillGPUs, w)[1] = prefillGPUs[1]
      BY <1>1, <2>1, <2>2, FirstKept
    <3>2. QED BY <2>1, <3>1
  <2> HIDE DEF w
  <2>5. Heads("prefill", p)' /\ Heads("decode", d)'
    BY <1>3, <2>1, <2>2, <2>3, <2>4
  <2>6. QED BY <1>1, <2>1, <2>2, <2>4, <2>5 DEF HeadsInv
<1>5. CASE ResizeToDecode
  <2> DEFINE w == Last(prefillGPUs)
  <2>1. /\ Len(prefillGPUs) > 1 /\ Flip(w, "decode")
        /\ prefillGPUs' = Front(prefillGPUs) /\ decodeGPUs' = Append(decodeGPUs, w)
    BY <1>1, <1>5 DEF KeepsPools, ResizeToDecode
  <2>2. /\ ListsInv' /\ w \in Worker /\ w \in ToSet(prefillGPUs)
        /\ Len(prefillGPUs') = Len(prefillGPUs) - 1
        /\ Len(decodeGPUs') = Len(decodeGPUs) + 1
    BY <1>1, <1>5, <2>1, ListsToDecode
  <2>3. w # p /\ w # d
    <3>1. w = prefillGPUs[Len(prefillGPUs)] /\ DOMAIN prefillGPUs = 1 .. Len(prefillGPUs)
      BY <1>1, LenProperties DEF Last
    <3>2. w # p
      BY <1>1, <2>1, <3>1 DEF ListsInv, Once
    <3>3. QED BY <1>1, <1>2, <2>2, <3>2 DEF ListsInv
  <2>4. prefillGPUs'[1] = p /\ decodeGPUs'[1] = d
    <3>1. Front(prefillGPUs)[1] = prefillGPUs[1] /\ Append(decodeGPUs, w)[1] = decodeGPUs[1]
      BY <1>1, <2>1, <2>2, FirstKept
    <3>2. QED BY <2>1, <3>1
  <2> HIDE DEF w
  <2>5. Heads("prefill", p)' /\ Heads("decode", d)'
    BY <1>3, <2>1, <2>2, <2>3, <2>4
  <2>6. QED BY <1>1, <2>1, <2>2, <2>4, <2>5 DEF HeadsInv
<1>6. QED BY <1>4, <1>5 DEF TResize

LEMMA HeadsStart ==
  ASSUME HeadsInv, TypeInv', TStart
  PROVE  HeadsInv'
<1>1. /\ UNCHANGED <<poolVars, stopped>>
      /\ pc' = [c \in Chain |->
                  IF c[2] # 0 THEN "unborn"
                  ELSE IF c[1] \in ToSet(prefillGPUs) THEN "prefillStep" ELSE "decodeStep"]
  BY DEF TStart, Start
<1> DEFINE p == prefillGPUs[1]  d == decodeGPUs[1]
<1>2. /\ Heads("prefill", p) /\ Heads("decode", d) /\ ListsInv
      /\ Len(prefillGPUs) >= 1 /\ Len(decodeGPUs) >= 1
      /\ prefillGPUs \in Seq(Worker) /\ decodeGPUs \in Seq(Worker)
  BY DEF HeadsInv, TypeInv, TypeOK, PoolsOK
<1>3. p \in ToSet(prefillGPUs) /\ d \in ToSet(decodeGPUs)
  BY <1>2, LenProperties DEF ToSet
<1>4. p \in Worker /\ d \in Worker /\ d \notin ToSet(prefillGPUs)
  BY <1>2, <1>3 DEF Heads, ListsInv
<1>5. pc'[<<p, 0>>] = "prefillStep"
  BY <1>1, <1>3, <1>4, FirstChain
<1>6. pc'[<<d, 0>>] = "decodeStep"
  BY <1>1, <1>4, FirstChain
<1>7. Heads("prefill", p)' /\ Heads("decode", d)'
  BY <1>1, <1>2, <1>5, <1>6 DEF Heads, Serves, poolVars
<1>8. QED BY <1>1, <1>2, <1>7 DEF HeadsInv, ListsInv, poolVars

LEMMA HeadsStep ==
  ASSUME KeepsPools, HeadsInv, [TNext]_timedVars
  PROVE  HeadsInv'
<1>1. TypeInv'
  BY TimedStepRefines, TypeStep DEF HeadsInv
<1>2. CASE TStart \/ TResize
  BY <1>1, <1>2, HeadsStart, HeadsResize
<1>3. CASE ~TStart /\ ~TResize
  <2>1. UNCHANGED <<prefillGPUs, decodeGPUs>>
    BY <1>3
    DEF TNext, TArrive, Arrive, TDrainDone, DrainDone, TStopAtQuiescence, StopAtQuiescence,
        TTerminated, Terminated, timedVars, vars, poolVars,
        TChainStep, Ends, Exit, Retire, PrefillPoll, DecodePoll, TAdmit, Admit, TReject,
        Reject, TPrefillDone, PrefillDone, THandOff, HandOff, TTakeFinished, TTakeHandoff,
        TakeHandoff, TDecodeToken, DecodeToken, TComplete, Complete
  <2> DEFINE p == prefillGPUs[1]  d == decodeGPUs[1]
  <2>2. Heads("prefill", p) /\ Heads("decode", d) /\ TypeInv
    BY DEF HeadsInv
  <2>3. PICK pp, dd : pp = p /\ dd = d
    OBVIOUS
  <2>4. Heads("prefill", pp)' /\ Heads("decode", dd)'
    BY <1>3, <2>2, <2>3, HeadsStay DEF Roles
  <2>5. prefillGPUs'[1] = pp /\ decodeGPUs'[1] = dd
    BY <2>1, <2>3
  <2>6. QED BY <1>1, <2>1, <2>4, <2>5 DEF HeadsInv, ListsInv, Heads, Serves
<1>4. QED BY <1>2, <1>3

\* The engine stops when nothing is left.
StopsEmpty == stopped => NoWork

\* The worker in each pool that serves it, unless nothing is left.
LEMMA WhoServes ==
  ASSUME HeadsInv, RetireInv, started, ~stopped, ~NoWork
  PROVE  /\ \E c \in Chain : Prefilling(c) \/ pc[c] = "prefillStep"
         /\ \E c \in Chain : pc[c] \in {"decode", "decodeStep"}
<1>1. ASSUME NEW kind, NEW w, Heads(kind, w)
      PROVE  \E c \in Chain : Serves(kind, c) /\ pc[c] # "retired"
  <2>1. <<w, 0>> \in Chain /\ Serves(kind, <<w, 0>>)
    BY <1>1, FirstChain DEF Heads
  <2>2. QED BY <2>1 DEF RetireInv, Retired
<1>2. \E c \in Chain : Prefilling(c) \/ pc[c] = "prefillStep"
  BY <1>1 DEF HeadsInv, Serves, Prefilling
<1>3. \E c \in Chain : pc[c] \in {"decode", "decodeStep"}
  BY <1>1 DEF HeadsInv, Serves
<1>4. QED BY <1>2, <1>3

LEMMA StopsEmptyStep ==
  ASSUME TimeInv, AtRest, HeadsInv, RetireInv, StopsEmpty, [TNext]_timedVars
  PROVE  StopsEmpty'
<1>1. CASE stopped
  <2>1. NoWork /\ started
    BY <1>1 DEF StopsEmpty, AtRest, Quiescent
  <2>2. NoWork'
    BY <2>1, TimedStepRefines, NoWorkStep DEF RetireInv
  <2>3. QED BY <2>2 DEF StopsEmpty
<1>2. CASE ~stopped /\ TStopAtQuiescence
  <2>1. started /\ (\A c \in Chain : pc[c] \in Ended)
    BY <1>2 DEF TStopAtQuiescence, StopAtQuiescence, Quiescent
  <2>2. NoWork
    BY <1>2, <2>1, WhoServes DEF Ended, Prefilling
  <2>3. NoWork'
    BY <2>1, <2>2, TimedStepRefines, NoWorkStep DEF RetireInv
  <2>4. QED BY <2>3 DEF StopsEmpty
<1>3. CASE ~stopped /\ ~TStopAtQuiescence
  <2>1. ~stopped'
    <3>1. CASE \E c \in Chain : TChainStep(c)
      BY <1>3, <3>1
      DEF TChainStep, Ends, Exit, Retire, PrefillPoll, DecodePoll, TAdmit, Admit, TReject,
          Reject, TPrefillDone, PrefillDone, THandOff, HandOff, TTakeFinished, TTakeHandoff,
          TakeHandoff, TDecodeToken, DecodeToken, TComplete, Complete, vars
    <3>2. CASE TStart \/ TArrive \/ TResize \/ \E w \in Worker : TDrainDone(w)
      BY <1>3, <3>2 DEF TStart, Start, TArrive, Arrive, TResize, ResizeToPrefill,
                        ResizeToDecode, TDrainDone, DrainDone
    <3>3. CASE TTerminated \/ UNCHANGED timedVars
      BY <1>3, <3>3 DEF TTerminated, Terminated, timedVars, vars
    <3>4. QED BY <1>3, <3>1, <3>2, <3>3 DEF TNext
  <2>2. QED BY <2>1 DEF StopsEmpty
<1>4. QED BY <1>1, <1>2, <1>3

\* If nobody ahead of a request is there, the one that serves polls: whoever else it
\* might be busy with came earlier.
LEMMA StagesManned ==
  ASSUME HeadsInv, RetireInv, StopsEmpty, QueueOrder, HandOrder
  PROVE  Manned(PrefillStage) /\ Manned(DecodeStage)
<1>1. /\ TypeInv /\ OnceInv /\ 1 .. arrived \subseteq Request
      /\ Waiting \cup Prefills \cup Handed \cup Decodes \cup rejected \subseteq 1 .. arrived
      /\ Waiting \cap (Prefills \cup Handed \cup Decodes \cup rejected) = {}
      /\ Prefills \cap (Handed \cup Decodes \cup rejected) = {}
      /\ Handed \cap (Decodes \cup rejected) = {} /\ Decodes \cap rejected = {}
      /\ HandedOver = (1 .. arrived) \ (Waiting \cup Prefills \cup rejected)
  BY StagePlaces DEF RetireInv, CountInv
<1>2. arrived \in Nat
  BY <1>1 DEF TypeInv, TypeOK, LoadOK
<1>3. ASSUME NEW r \in Waiting \cup Handed PROVE started /\ ~stopped /\ ~NoWork
  <2>1. started
    BY <1>1, <1>3 DEF TypeInv, NothingBeforeStart
  <2>2. ToSet(<<>>) = {}
    BY DEF ToSet
  <2>3. ~NoWork
    BY <1>3, <2>2 DEF NoWork, Waiting, Handed
  <2>4. QED BY <2>1, <2>3 DEF StopsEmpty
<1>4. ASSUME NEW r \in Waiting, (1 .. r - 1) \cap (Waiting \cup Prefills) = {}
      PROVE  \E c \in Chain : pc[c] = "prefillStep"
  <2>1. PICK c \in Chain : Prefilling(c) \/ pc[c] = "prefillStep"
    BY <1>3, <1>4, WhoServes
  <2>2. CASE Prefilling(c)
    <3>1. job[c] \in Prefills
      BY <2>2 DEF Prefills
    <3>2. job[c] < r
      BY <1>1, <3>1 DEF QueueOrder
    <3>3. job[c] \in 1 .. r - 1
      BY <1>1, <1>2, <3>1, <3>2
    <3>4. QED BY <1>4, <3>1, <3>3
  <2>3. QED BY <2>1, <2>2
<1>5. ASSUME NEW r \in Handed,
             {q \in HandedOver \ {r} : at[q].first <= at[r].first} \cap (Handed \cup Decodes) = {}
      PROVE  \E c \in Chain : pc[c] = "decodeStep"
  <2>1. PICK c \in Chain : pc[c] \in {"decode", "decodeStep"}
    BY <1>3, <1>5, WhoServes
  <2>2. CASE pc[c] = "decode"
    <3>1. job[c] \in Decodes
      BY <2>2 DEF Decodes
    <3>2. job[c] \in HandedOver \ Handed
      BY <1>1, <3>1
    <3>3. at[job[c]].first <= at[r].first
      BY <3>2 DEF HandOrder
    <3>4. QED BY <1>5, <3>1, <3>2, <3>3
  <2>3. QED BY <2>1, <2>2
<1>6. Manned(PrefillStage)
  BY <1>1, <1>4, PrefillFields DEF Manned
<1>7. Manned(DecodeStage)
  BY <1>1, <1>5, DecodeFields DEF Manned
<1>8. QED BY <1>6, <1>7

-----------------------------------------------------------------------------
(* No request waits longer than the polls *)

LatencyInv ==
  /\ ClockOK /\ RetireInv /\ HeadsInv /\ StopsEmpty
  /\ StampsInv /\ QueueOrder /\ FirstOrder /\ HandOrder
  /\ PollsSoon(PrefillStage) /\ TakesSoon(PrefillStage)
  /\ PollsSoon(DecodeStage) /\ TakesSoon(DecodeStage)

LEMMA StageSoonStep ==
  ASSUME NEW s, NEW t, StageOK(s), StageOK(t), PollsSoon(s), TakesSoon(s), Manned(s),
         StageStep(s, t), PollStep(s, t)
  PROVE  PollsSoon(t) /\ TakesSoon(t)
BY PollsStaySoon, TakesStaySoon

LEMMA StagesOKNext ==
  TimeInv' /\ ClockInv' /\ StampsInv' => StageOK(PrefillStage') /\ StageOK(DecodeStage')
<1>1. TimeInv /\ ClockInv /\ StampsInv => StageOK(PrefillStage) /\ StageOK(DecodeStage)
  BY StagesOK
<1>2. TimeInv' /\ ClockInv' /\ StampsInv' => StageOK(PrefillStage)' /\ StageOK(DecodeStage)'
  BY <1>1, PTL
<1>3. StageOK(PrefillStage)' <=> StageOK(PrefillStage')
  BY DEF StageOK
<1>4. StageOK(DecodeStage)' <=> StageOK(DecodeStage')
  BY DEF StageOK
<1>5. QED BY <1>2, <1>3, <1>4

LEMMA LatencyStep == KeepsPools /\ LatencyInv /\ [TNext]_timedVars => LatencyInv'
<1> SUFFICES ASSUME KeepsPools, LatencyInv, [TNext]_timedVars PROVE LatencyInv'
  OBVIOUS
<1>1. /\ TimeInv /\ AtRest /\ ClockInv /\ TypeInv /\ OnceInv
      /\ RetireInv /\ HeadsInv /\ StopsEmpty
      /\ StampsInv /\ QueueOrder /\ FirstOrder /\ HandOrder
  BY DEF LatencyInv, ClockOK, TimeInv, CountInv
<1>2. ClockOK'
  BY ClockOKStep DEF LatencyInv
<1>3. TimeInv' /\ ClockInv' /\ now \in Int /\ now' \in Int
  BY <1>1, <1>2 DEF ClockOK, ClockInv
<1>4. RetireInv' /\ HeadsInv' /\ StopsEmpty'
  BY <1>1, TimedStepRefines, RetireStep, HeadsStep, StopsEmptyStep
<1>5. Advances /\ (Rests \/ \E x \in Request : OneMoves(x))
  BY <1>1, <1>3, AnyMoves, RestsOrMoves
<1>6. StampsInv'
  BY <1>1, <1>3, <1>5, StampsStep
<1>7. QueueOrder'
  BY <1>1, <1>5, QueueOrderStep
<1>8. FirstOrder'
  BY <1>1, <1>3, <1>5, FirstOrderStep
<1>9. HandOrder'
  BY <1>1, <1>3, <1>5, HandOrderStep
<1>10. StageOK(PrefillStage) /\ StageOK(DecodeStage)
  BY <1>1, StagesOK
<1>11. StageOK(PrefillStage') /\ StageOK(DecodeStage')
  BY <1>3, <1>6, StagesOKNext
<1>12. StageStep(PrefillStage, PrefillStage') /\ StageStep(DecodeStage, DecodeStage')
  BY <1>1, <1>3, StagesStep
<1>13. PollStep(PrefillStage, PrefillStage') /\ PollStep(DecodeStage, DecodeStage')
  BY <1>1, <1>3, <1>7, <1>9, PrefillPolls, DecodePolls
<1>14. Manned(PrefillStage) /\ Manned(DecodeStage)
  BY <1>1, StagesManned
<1>15. PollsSoon(PrefillStage') /\ TakesSoon(PrefillStage')
  BY <1>10, <1>11, <1>12, <1>13, <1>14, StageSoonStep DEF LatencyInv
<1>16. PollsSoon(DecodeStage') /\ TakesSoon(DecodeStage')
  BY <1>10, <1>11, <1>12, <1>13, <1>14, StageSoonStep DEF LatencyInv
<1>17. PollsSoon(PrefillStage)' /\ TakesSoon(PrefillStage)'
  BY <1>15 DEF PollsSoon, TakesSoon, Within
<1>18. PollsSoon(DecodeStage)' /\ TakesSoon(DecodeStage)'
  BY <1>16 DEF PollsSoon, TakesSoon, Within
<1>19. QED BY <1>2, <1>4, <1>6, <1>7, <1>8, <1>9, <1>17, <1>18 DEF LatencyInv

LEMMA LatencyInit == TInit => LatencyInv
<1> SUFFICES ASSUME TInit PROVE LatencyInv
  OBVIOUS
<1>1. /\ Init /\ now = 0 /\ ~started /\ ~stopped /\ arrived = 0
      /\ queue = <<>> /\ decodeQueue = <<>>
      /\ (\A c \in Chain : pc[c] = "unborn") /\ (\A w \in Worker : drain[w] = "none")
      /\ \A r \in Request, m \in Moment : at[r][m] = 0
  BY DEF TInit, Init
<1>2. ClockOK /\ CountInv
  BY ClockOKInit, CountInit, <1>1
<1>3. RetireInv /\ StopsEmpty
  BY <1>1, <1>2 DEF RetireInv, Retired, StopsEmpty
<1>4. HeadsInv
  <2>1. /\ TypeInv /\ ListsInv /\ Len(prefillGPUs) >= 1 /\ Len(decodeGPUs) >= 1
    BY <1>1, PoolsInit, NumPrefillRange, GPUAssumption DEF PoolsInv
  <2>2. /\ prefillGPUs \in Seq(Worker) /\ decodeGPUs \in Seq(Worker)
    BY <2>1 DEF TypeInv, TypeOK, PoolsOK
  <2>3. prefillGPUs[1] \in Worker /\ decodeGPUs[1] \in Worker
    BY <2>1, <2>2, LenProperties, ElementOfSeq
  <2>4. \A w \in Worker : ~stop[w]
    BY <1>1 DEF Init
  <2>5. QED BY <1>1, <2>1, <2>3, <2>4 DEF HeadsInv, Heads
<1>5. Waiting = {} /\ Handed = {} /\ HandedOver = {} /\ Len(decodeQueue) = 0
  BY <1>1 DEF Waiting, Handed, HandedOver, ToSet
<1>6. StampsInv /\ QueueOrder /\ FirstOrder /\ HandOrder
  BY <1>1, <1>5 DEF StampsInv, QueueOrder, FirstOrder, HandOrder
<1>7. PollsSoon(PrefillStage) /\ TakesSoon(PrefillStage)
  BY <1>1, <1>5, PrefillFields DEF PollsSoon, TakesSoon
<1>8. PollsSoon(DecodeStage) /\ TakesSoon(DecodeStage)
  BY <1>5, DecodeFields DEF PollsSoon, TakesSoon
<1>9. QED BY <1>2, <1>3, <1>4, <1>6, <1>7, <1>8 DEF LatencyInv

\* What is within reach of one moment is within reach of the last.
LEMMA WithinLast ==
  ASSUME NEW S \in SUBSET Int, NEW B \in Int, \A y \in S : y <= B,
         NEW x \in Int, \E y \in S : x <= y
  PROVE  x <= Max(S)
<1>1. PICK y \in S : x <= y
  OBVIOUS
<1>2. S # {}
  BY <1>1
<1>3. Max(S) \in S /\ y <= Max(S)
  BY <1>1, <1>2, LastMoment
<1>4. x \in Int /\ y \in Int /\ Max(S) \in Int
  BY <1>1, <1>3
<1>5. QED BY <1>1, <1>3, <1>4

LEMMA LatencyHolds == LatencyInv => LatencyBounded
<1> SUFFICES ASSUME LatencyInv PROVE LatencyBounded
  OBVIOUS
<1> DEFINE B == now + MaxIdle + IdlePoll
<1>1. /\ TypeInv /\ OnceInv /\ now \in Nat /\ MaxIdle \in Nat /\ IdlePoll \in Nat
      /\ \A r \in Request :
           /\ at[r].arrival \in Int /\ at[r].arrival <= now
           /\ at[r].first \in Int /\ at[r].first <= now
           /\ at[r].done \in Int /\ at[r].done <= now
           /\ at[r].pop \in Int /\ at[r].take \in Int
           /\ FreedAt(r) \in Int /\ FreedAt(r) <= now
  BY DelayAssumption
  DEF LatencyInv, ClockOK, ClockInv, StampsInv, TimeInv, CountInv, Moment, FreedAt
<1>2. /\ 1 .. arrived \subseteq Request /\ HandedOver \subseteq Request
      /\ \A r : InPrefill(r) <=> r \in Waiting \cup Prefills
      /\ \A r : InDecode(r) <=> r \in Handed \cup Decodes
      /\ arrived \in Nat
  BY <1>1, StagePlaces DEF TypeInv, TypeOK, LoadOK
<1>3. ASSUME NEW r \in 1 .. arrived, \A q \in 1 .. r - 1 : ~InPrefill(q)
      PROVE  (IF r \in Waiting THEN now ELSE at[r].pop)
               <= Max({at[r].arrival + MaxIdle} \cup {FreedAt(q) + IdlePoll : q \in 1 .. r - 1})
  <2> DEFINE S == {at[r].arrival + MaxIdle} \cup {FreedAt(q) + IdlePoll : q \in 1 .. r - 1}
             x == IF r \in Waiting THEN now ELSE at[r].pop
  <2>1. r \in Request /\ 1 .. r - 1 \subseteq Request
    BY <1>2
  <2>2. /\ at[r].arrival + MaxIdle \in Int /\ at[r].arrival + MaxIdle <= B
        /\ \A q \in 1 .. r - 1 : FreedAt(q) + IdlePoll \in Int /\ FreedAt(q) + IdlePoll <= B
        /\ B \in Int /\ x \in Int
    BY <1>1, <2>1
  <2>3. Within(PrefillStage, r, x)
    BY <1>2, <1>3, <2>1, PrefillFields DEF LatencyInv, TakesSoon
  <2>4. \E y \in S : x <= y
    <3>1. CASE x <= at[r].arrival + MaxIdle
      BY <3>1
    <3>2. ASSUME NEW q \in 1 .. r - 1, x <= FreedAt(q) + IdlePoll PROVE \E y \in S : x <= y
      BY <3>2
    <3>3. QED BY <2>1, <2>3, <3>1, <3>2, PrefillFields DEF Within
  <2> HIDE DEF x, B
  <2>5. S \in SUBSET Int /\ \A y \in S : y <= B
    BY <2>2
  <2> HIDE DEF S
  <2>6. x <= Max(S)
    BY <2>2, <2>4, <2>5, WithinLast
  <2>7. QED BY <2>6 DEF S, x
<1>4. ASSUME NEW r \in HandedOver,
             \A q \in {p \in HandedOver \ {r} : at[p].first <= at[r].first} : ~InDecode(q)
      PROVE  (IF r \in Handed THEN now ELSE at[r].take)
               <= Max({at[r].first + MaxIdle} \cup
                      {at[q].done + IdlePoll :
                         q \in {p \in HandedOver \ {r} : at[p].first <= at[r].first}})
  <2> DEFINE P == {p \in HandedOver \ {r} : at[p].first <= at[r].first}
             S == {at[r].first + MaxIdle} \cup {at[q].done + IdlePoll : q \in P}
             x == IF r \in Handed THEN now ELSE at[r].take
  <2>1. r \in Request /\ P \subseteq Request
    BY <1>2
  <2>2. /\ at[r].first + MaxIdle \in Int /\ at[r].first + MaxIdle <= B
        /\ \A q \in P : at[q].done + IdlePoll \in Int /\ at[q].done + IdlePoll <= B
        /\ B \in Int /\ x \in Int
    BY <1>1, <2>1
  <2>3. Within(DecodeStage, r, x)
    BY <1>2, <1>4, <2>1, DecodeFields DEF LatencyInv, TakesSoon
  <2>4. \E y \in S : x <= y
    <3>1. CASE x <= at[r].first + MaxIdle
      BY <3>1
    <3>2. ASSUME NEW q \in P, x <= at[q].done + IdlePoll PROVE \E y \in S : x <= y
      BY <3>2
    <3>3. QED BY <2>1, <2>3, <3>1, <3>2, DecodeFields DEF Within
  <2> HIDE DEF x, B
  <2>5. S \in SUBSET Int /\ \A y \in S : y <= B
    BY <2>2
  <2> HIDE DEF S
  <2>6. x <= Max(S)
    BY <2>2, <2>4, <2>5, WithinLast
  <2>7. QED BY <2>6 DEF S, x
<1>5. QED BY <1>3, <1>4 DEF LatencyBounded

\* While the caller of ResizePools empties no pool, however many flips it makes at a
\* time, no request waits, in either stage, for longer than the longest idle poll after
\* it came or one poll interval after those ahead of it left: for any load, speeds and
\* delays.  (ResizePools would empty a pool, and then nobody polls.)
THEOREM LatencyBoundedHolds ==
  ASSUME KeepsPools
  PROVE  TSpec => []LatencyBounded
<1>1. LatencyInv /\ [TNext]_timedVars => LatencyInv'
  BY LatencyStep
<1>2. QED BY LatencyInit, LatencyHolds, <1>1, PTL DEF TSpec

-----------------------------------------------------------------------------
(* The percentiles are honest: fractions, and who has a rank among them *)

Fraction == [num : Int, den : Nat \ {0}]

LEMMA LeqProducts ==
  ASSUME NEW x \in Fraction, NEW y \in Fraction
  PROVE  /\ x.num \in Int /\ x.den \in Nat \ {0} /\ x.num * y.den \in Int
         /\ Less(x, y) <=> y.num * x.den > x.num * y.den
BY DEF Fraction, Leq, Less

LEMMA LeqTotal ==
  ASSUME NEW x \in Fraction, NEW y \in Fraction
  PROVE  Leq(x, y) \/ Leq(y, x)
BY LeqProducts DEF Leq

\* Both sides of an inequality times the same positive number.
LEMMA TimesSame ==
  ASSUME NEW a \in Int, NEW b \in Int, NEW k \in Nat \ {0}
  PROVE  a * k \in Int /\ b * k \in Int /\ (a <= b <=> a * k <= b * k)
OBVIOUS

LEMMA CrossMultiply ==
  ASSUME NEW a \in Int, NEW b \in Int, NEW c \in Int,
         NEW i \in Nat \ {0}, NEW j \in Nat \ {0}, NEW k \in Nat \ {0},
         a * j <= b * i, b * k <= c * j
  PROVE  a * k <= c * i
<1>1. /\ a * j \in Int /\ b * i \in Int /\ b * k \in Int /\ c * j \in Int
      /\ a * k \in Int /\ c * i \in Int
  OBVIOUS
<1>2. (a * j) * k <= (b * i) * k
  BY <1>1, TimesSame
<1>3. (b * k) * i <= (c * j) * i
  BY <1>1, TimesSame
<1>4. /\ (b * i) * k = (b * k) * i
      /\ (a * j) * k = (a * k) * j
      /\ (c * j) * i = (c * i) * j
  OBVIOUS
<1>5. (a * k) * j <= (c * i) * j
  <2>1. (a * j) * k \in Int /\ (b * i) * k \in Int /\ (c * j) * i \in Int
    BY <1>1
  <2>2. QED BY <1>2, <1>3, <1>4, <2>1
<1>6. QED BY <1>1, <1>5, TimesSame

LEMMA LeqTransitive ==
  ASSUME NEW x \in Fraction, NEW y \in Fraction, NEW z \in Fraction, Leq(x, y), Leq(y, z)
  PROVE  Leq(x, z)
<1>1. /\ x.num \in Int /\ y.num \in Int /\ z.num \in Int
      /\ x.den \in Nat \ {0} /\ y.den \in Nat \ {0} /\ z.den \in Nat \ {0}
  BY LeqProducts
<1>2. x.num * y.den <= y.num * x.den /\ y.num * z.den <= z.num * y.den
  BY DEF Leq
<1>3. x.num * z.den <= z.num * x.den
  BY <1>1, <1>2, CrossMultiply
<1>4. QED BY <1>3 DEF Leq

\* Of the samples s of F: those below the one of r, and those not above it.
Below(F, s, r)    == {q \in F : Less(s[q], s[r])}
NotAbove(F, s, r) == {q \in F : Leq(s[q], s[r])}

LEMMA RankSets ==
  ASSUME NEW F, IsFiniteSet(F), NEW s \in [F -> Fraction], NEW r \in F
  PROVE  /\ IsFiniteSet(Below(F, s, r)) /\ IsFiniteSet(NotAbove(F, s, r))
         /\ Cardinality(Below(F, s, r)) \in Nat /\ Cardinality(NotAbove(F, s, r)) \in Nat
         /\ Below(F, s, r) \subseteq F /\ NotAbove(F, s, r) \subseteq F
         /\ r \in NotAbove(F, s, r) /\ r \notin Below(F, s, r)
<1>1. Below(F, s, r) \subseteq F /\ NotAbove(F, s, r) \subseteq F
  BY DEF Below, NotAbove
<1>2. IsFiniteSet(Below(F, s, r)) /\ IsFiniteSet(NotAbove(F, s, r))
  BY <1>1, FS_Subset
<1>3. Leq(s[r], s[r])
  BY LeqTotal
<1>4. QED BY <1>1, <1>2, <1>3, FS_CardinalityType DEF Below, NotAbove, Less

\* A larger sample has more that are not above it.
LEMMA RankGrows ==
  ASSUME NEW F, IsFiniteSet(F), NEW s \in [F -> Fraction], NEW r \in F, NEW q \in F,
         Less(s[q], s[r])
  PROVE  Cardinality(NotAbove(F, s, q)) < Cardinality(NotAbove(F, s, r))
<1>1. Leq(s[q], s[r])
  BY LeqTotal DEF Less
<1>2. NotAbove(F, s, q) \subseteq NotAbove(F, s, r)
  BY <1>1, LeqTransitive DEF NotAbove
<1>3. r \in NotAbove(F, s, r) /\ r \notin NotAbove(F, s, q)
  BY RankSets DEF NotAbove, Less
<1>4. NotAbove(F, s, q) # NotAbove(F, s, r)
  BY <1>3
<1>5. /\ IsFiniteSet(NotAbove(F, s, r))
      /\ Cardinality(NotAbove(F, s, q)) \in Nat /\ Cardinality(NotAbove(F, s, r)) \in Nat
  BY RankSets
<1>6. /\ Cardinality(NotAbove(F, s, q)) <= Cardinality(NotAbove(F, s, r))
      /\ Cardinality(NotAbove(F, s, q)) # Cardinality(NotAbove(F, s, r))
  BY <1>2, <1>4, <1>5, FS_Subset
<1>7. QED BY <1>5, <1>6

\* Some sample is the largest of any that there are.
LEMMA LargestSample ==
  ASSUME NEW F, IsFiniteSet(F), NEW s \in [F -> Fraction], NEW G \in SUBSET F, G # {}
  PROVE  \E r \in G : \A q \in G : Leq(s[q], s[r])
<1> DEFINE S == {Cardinality(NotAbove(F, s, q)) : q \in G}
<1>1. S \subseteq Int /\ S # {} /\ \A x \in S : x <= Cardinality(F)
  <2>1. ASSUME NEW q \in G
        PROVE  /\ Cardinality(NotAbove(F, s, q)) \in Nat
               /\ Cardinality(NotAbove(F, s, q)) <= Cardinality(F)
    BY RankSets, FS_Subset
  <2>2. QED BY <2>1
<1>2. Cardinality(F) \in Int
  BY FS_CardinalityType
<1> DEFINE m == Max(S)
<1>3. m \in S /\ \A x \in S : x <= m
  BY <1>1, <1>2, LastMoment
<1>4. PICK r \in G : m = Cardinality(NotAbove(F, s, r))
  BY <1>3
<1>5. ASSUME NEW q \in G PROVE Leq(s[q], s[r])
  <2>1. Cardinality(NotAbove(F, s, q)) <= Cardinality(NotAbove(F, s, r))
    BY <1>3, <1>4
  <2>2. SUFFICES ASSUME ~Leq(s[q], s[r]) PROVE FALSE
    OBVIOUS
  <2>3. Cardinality(NotAbove(F, s, r)) < Cardinality(NotAbove(F, s, q))
    BY <2>2, RankGrows DEF Less
  <2>4. QED BY <2>1, <2>3, RankSets
<1>6. QED BY <1>5

\* For k hundredths of samples, somebody has that rank: fewer are below, and as many or
\* more are not above.
LEMMA RankExists ==
  ASSUME NEW F, IsFiniteSet(F), F # {}, NEW s \in [F -> Fraction],
         NEW k \in Int, k <= 100 * Cardinality(F)
  PROVE  \E r \in F : /\ 100 * Cardinality(Below(F, s, r)) < k \/ Below(F, s, r) = {}
                      /\ 100 * Cardinality(NotAbove(F, s, r)) >= k
<1> DEFINE Enough == {q \in F : 100 * Cardinality(NotAbove(F, s, q)) >= k}
           T == {Cardinality(NotAbove(F, s, q)) : q \in Enough}
<1>1. Enough # {}
  <2>1. PICK r \in F : \A q \in F : Leq(s[q], s[r])
    BY LargestSample
  <2>2. NotAbove(F, s, r) = F
    BY <2>1 DEF NotAbove
  <2>3. QED BY <2>2
<1>2. T \subseteq Nat /\ T # {}
  BY <1>1, RankSets
<1>3. PICK n \in T : \A m \in T : n <= m
  BY <1>2, LeastNumber
<1>4. PICK r \in Enough : n = Cardinality(NotAbove(F, s, r))
  BY <1>3
<1>5. ASSUME Below(F, s, r) # {}
      PROVE  100 * Cardinality(Below(F, s, r)) < k
  <2>1. Below(F, s, r) \in SUBSET F
    BY DEF Below
  <2>2. PICK q \in Below(F, s, r) : \A x \in Below(F, s, r) : Leq(s[x], s[q])
    BY <1>5, <2>1, LargestSample
  <2>3. q \in F /\ Less(s[q], s[r])
    BY <2>2 DEF Below
  <2>4. Below(F, s, r) \subseteq NotAbove(F, s, q)
    BY <2>1, <2>2 DEF NotAbove
  <2>5. /\ Cardinality(Below(F, s, r)) <= Cardinality(NotAbove(F, s, q))
        /\ Cardinality(Below(F, s, r)) \in Nat /\ Cardinality(NotAbove(F, s, q)) \in Nat
    BY <2>3, <2>4, RankSets, FS_Subset
  <2>6. Cardinality(NotAbove(F, s, q)) < n
    BY <1>4, <2>3, RankGrows
  <2>7. q \notin Enough
    <3>1. SUFFICES ASSUME q \in Enough PROVE FALSE
      OBVIOUS
    <3>2. n <= Cardinality(NotAbove(F, s, q))
      BY <1>3, <3>1
    <3>3. n \in Nat
      BY <1>2
    <3>4. QED BY <2>5, <2>6, <3>2, <3>3
  <2>8. ~(100 * Cardinality(NotAbove(F, s, q)) >= k)
    BY <2>3, <2>7
  <2>9. QED BY <2>5, <2>8
<1>6. QED BY <1>4, <1>5

-----------------------------------------------------------------------------
(* The percentiles are honest: histograms *)

LEMMA CountApart ==
  ASSUME NEW S, IsFiniteSet(S), NEW T, IsFiniteSet(T), S \cap T = {}
  PROVE  Cardinality(S \cup T) = Cardinality(S) + Cardinality(T)
<1>1. Cardinality(S \cup T) = Cardinality(S) + Cardinality(T) - Cardinality(S \cap T)
  BY FS_Union
<1>2. Cardinality(S) \in Nat /\ Cardinality(T) \in Nat /\ Cardinality(S \cap T) = 0
  BY FS_CardinalityType, FS_EmptySet
<1>3. QED BY <1>1, <1>2

\* A sum over an interval, one further.
LEMMA SumNext ==
  ASSUME NEW top \in Nat, NEW f \in [0 .. top -> Int], NEW n \in 0 .. top
  PROVE  SumFunctionOnSet(f, 0 .. n) = SumFunctionOnSet(f, 0 .. n - 1) + f[n]
<1> DEFINE D == 0 .. top  S == 0 .. n - 1
<1>1. f \in [D -> Int] /\ S \in SUBSET D /\ n \in D /\ n \notin S
  OBVIOUS
<1>2. IsFiniteSet(S)
  <2>1. n - 1 \in Int /\ 0 \in Int
    OBVIOUS
  <2>2. QED BY <2>1, FS_Interval
<1>3. 0 .. n = S \cup {n}
  OBVIOUS
<1> HIDE DEF D, S
<1>4. \A x \in D : x \notin S => SumFunctionOnSet(f, S \cup {x}) = SumFunctionOnSet(f, S) + f[x]
  BY <1>1, <1>2, SumAdd
<1>5. QED BY <1>1, <1>3, <1>4 DEF S

\* Who is in bucket i, and who in the buckets up to it.
At(F, b, i)   == {q \in F : b[q] = i}
UpAt(F, b, i) == {q \in F : b[q] <= i}

\* If each bucket counts the samples in it, the buckets up to one count those up to it.
LEMMA BucketsAddUp ==
  ASSUME NEW F, IsFiniteSet(F), NEW top \in Nat, NEW b \in [F -> 0 .. top],
         NEW f \in [0 .. top -> Nat],
         \A i \in 0 .. top : f[i] = Cardinality(At(F, b, i))
  PROVE  \A i \in -1 .. top : SumFunctionOnSet(f, 0 .. i) = Cardinality(UpAt(F, b, i))
<1> DEFINE Wrong == {i \in 0 .. top : SumFunctionOnSet(f, 0 .. i) # Cardinality(UpAt(F, b, i))}
<1>1. SumFunctionOnSet(f, 0 .. -1) = Cardinality(UpAt(F, b, -1))
  <2>1. 0 .. -1 = {} /\ UpAt(F, b, -1) = {}
    BY DEF UpAt
  <2>2. QED BY <2>1, SumEmpty, FS_EmptySet
<1>2. ASSUME Wrong # {} PROVE FALSE
  <2>1. Wrong \subseteq Nat
    OBVIOUS
  <2>2. PICK n \in Wrong : \A m \in Wrong : n <= m
    BY <1>2, <2>1, LeastNumber
  <2>3. n \in 0 .. top /\ n \in Nat /\ top \in Nat
    OBVIOUS
  <2>4. SumFunctionOnSet(f, 0 .. n - 1) = Cardinality(UpAt(F, b, n - 1))
    <3>1. CASE n = 0
      BY <1>1, <3>1
    <3>2. CASE n # 0
      <4>1. n - 1 \in 0 .. top /\ n - 1 \notin Wrong
        BY <2>2, <2>3, <3>2
      <4>2. QED BY <4>1
    <3>3. QED BY <3>1, <3>2
  <2>5. SumFunctionOnSet(f, 0 .. n) = SumFunctionOnSet(f, 0 .. n - 1) + f[n]
    <3>1. f \in [0 .. top -> Int]
      OBVIOUS
    <3>2. QED BY <2>3, <3>1, SumNext
  <2>6. /\ UpAt(F, b, n) = UpAt(F, b, n - 1) \cup At(F, b, n)
        /\ UpAt(F, b, n - 1) \cap At(F, b, n) = {}
    BY <2>3 DEF At, UpAt
  <2>7. IsFiniteSet(UpAt(F, b, n - 1)) /\ IsFiniteSet(At(F, b, n))
    <3>1. UpAt(F, b, n - 1) \subseteq F /\ At(F, b, n) \subseteq F
      BY DEF At, UpAt
    <3>2. QED BY <3>1, FS_Subset
  <2>8. Cardinality(UpAt(F, b, n)) = Cardinality(UpAt(F, b, n - 1)) + Cardinality(At(F, b, n))
    BY <2>6, <2>7, CountApart
  <2>9. f[n] = Cardinality(At(F, b, n))
    BY <2>3
  <2>10. n \notin Wrong
    BY <2>4, <2>5, <2>8, <2>9
  <2>11. QED BY <2>10
<1>3. QED
  <2> SUFFICES ASSUME NEW i \in -1 .. top
               PROVE  SumFunctionOnSet(f, 0 .. i) = Cardinality(UpAt(F, b, i))
    OBVIOUS
  <2>1. CASE i = -1
    BY <1>1, <2>1
  <2>2. CASE i # -1
    <3>1. i \in 0 .. top
      BY <2>2
    <3>2. Wrong = {}
      BY <1>2
    <3>3. QED BY <3>1, <3>2
  <2>3. QED BY <2>1, <2>2

LEMMA FloorIs ==
  ASSUME NEW n \in Nat, NEW d \in Nat \ {0}
  PROVE  /\ n \div d \in Nat
         /\ (n \div d) * d <= n /\ n < (n \div d + 1) * d
OBVIOUS

LEMMA FloorGrows ==
  ASSUME NEW a \in Nat, NEW c \in Nat, NEW i \in Nat \ {0}, NEW k \in Nat \ {0},
         NEW w \in Nat \ {0}, a * k <= c * i
  PROVE  a \div (i * w) <= c \div (k * w)
<1>1. i * w \in Nat \ {0} /\ k * w \in Nat \ {0}
  OBVIOUS
<1> DEFINE u == a \div (i * w)  v == c \div (k * w)
<1>2. /\ u \in Nat /\ v \in Nat
      /\ u * (i * w) <= a /\ c < (v + 1) * (k * w)
  BY <1>1, FloorIs
<1> HIDE DEF u, v
<1>3. SUFFICES ASSUME v + 1 <= u PROVE FALSE
  BY <1>2 DEF u, v
<1>4. (u * (i * w)) * k <= a * k
  <2>1. u * (i * w) \in Int
    BY <1>1, <1>2
  <2>2. QED BY <1>2, <2>1, TimesSame
<1>5. (v + 1) * (k * w) <= u * (k * w)
  BY <1>1, <1>2, <1>3, TimesSame
<1>6. c < u * (k * w)
  <2>1. (v + 1) * (k * w) \in Int /\ u * (k * w) \in Int
    BY <1>1, <1>2
  <2>2. QED BY <1>2, <1>5, <2>1
<1>7. c * i < (u * (k * w)) * i
  <2>1. u * (k * w) \in Int
    BY <1>1, <1>2
  <2>2. ~((u * (k * w)) * i <= c * i)
    BY <1>6, <2>1, TimesSame
  <2>3. QED BY <2>1, <2>2
<1>8. (u * (k * w)) * i = (u * (i * w)) * k
  BY <1>2
<1>9. (u * (i * w)) * k \in Int /\ a * k \in Int /\ c * i \in Int
  BY <1>1, <1>2
<1>10. QED BY <1>4, <1>7, <1>8, <1>9

LEMMA MaxMin ==
  ASSUME NEW m \in Int, NEW n \in Int
  PROVE  /\ Max({m, n}) = IF m >= n THEN m ELSE n
         /\ Min({m, n}) = IF m <= n THEN m ELSE n
<1>1. Max({m, n}) = IF m >= n THEN m ELSE n
  <2>1. \E x \in {m, n} : \A y \in {m, n} : x >= y
    OBVIOUS
  <2>2. Max({m, n}) \in {m, n} /\ \A y \in {m, n} : Max({m, n}) >= y
    BY <2>1 DEF Max
  <2>3. QED BY <2>2
<1>2. Min({m, n}) = IF m <= n THEN m ELSE n
  <2>1. \E x \in {m, n} : \A y \in {m, n} : x <= y
    OBVIOUS
  <2>2. Min({m, n}) \in {m, n} /\ \A y \in {m, n} : Min({m, n}) <= y
    BY <2>1 DEF Min
  <2>3. QED BY <2>2
<1>3. QED BY <1>1, <1>2

\* The buckets of a histogram are 0 .. top.
Shaped(h, width, top) == h \in [width : {width}, buckets : [0 .. top -> Nat]]

LEMMA BucketIs ==
  ASSUME NEW h, NEW width \in Nat \ {0}, NEW top \in Nat, Shaped(h, width, top),
         NEW x \in Fraction
  PROVE  LET n == Max({x.num, 0}) \div (x.den * width) IN
           /\ Max({x.num, 0}) \in Nat /\ x.den * width \in Nat \ {0} /\ n \in Nat
           /\ BucketOf(h, x) = IF n <= top THEN n ELSE top
           /\ BucketOf(h, x) \in 0 .. top
<1> DEFINE n == Max({x.num, 0}) \div (x.den * width)
<1>1. x.num \in Int /\ x.den \in Nat \ {0}
  BY LeqProducts
<1>2. Max({x.num, 0}) \in Nat /\ x.den * width \in Nat \ {0}
  BY <1>1, MaxMin
<1>3. n \in Nat
  BY <1>2, FloorIs
<1>4. Cardinality(DOMAIN h.buckets) - 1 = top
  <2>1. DOMAIN h.buckets = 0 .. top
    BY DEF Shaped
  <2>2. Cardinality(0 .. top) = top + 1
    BY FS_Interval
  <2>3. QED BY <2>1, <2>2
<1>5. BucketOf(h, x) = Min({n, top})
  BY <1>4 DEF BucketOf, Shaped
<1> HIDE DEF n
<1>6. BucketOf(h, x) = IF n <= top THEN n ELSE top
  <2>1. n \in Int /\ top \in Int
    BY <1>3
  <2>2. Min({n, top}) = IF n <= top THEN n ELSE top
    BY <2>1, MaxMin
  <2>3. QED BY <1>5, <2>2
<1>7. BucketOf(h, x) \in 0 .. top
  BY <1>3, <1>6
<1>8. QED BY <1>2, <1>3, <1>6, <1>7 DEF n

\* The larger a sample, the higher its bucket.
LEMMA BucketsGrow ==
  ASSUME NEW h, NEW width \in Nat \ {0}, NEW top \in Nat, Shaped(h, width, top),
         NEW x \in Fraction, NEW y \in Fraction, Leq(x, y)
  PROVE  BucketOf(h, x) <= BucketOf(h, y)
<1>1. /\ x.num \in Int /\ x.den \in Nat \ {0} /\ y.num \in Int /\ y.den \in Nat \ {0}
      /\ x.num * y.den <= y.num * x.den
  BY LeqProducts DEF Leq
<1> DEFINE a == Max({x.num, 0})  c == Max({y.num, 0})
<1>2. /\ a = IF x.num >= 0 THEN x.num ELSE 0
      /\ c = IF y.num >= 0 THEN y.num ELSE 0
  BY <1>1, MaxMin
<1> HIDE DEF a, c
<1>3. a * y.den <= c * x.den
  <2>1. CASE x.num < 0
    <3>1. a * y.den = 0 /\ c * x.den >= 0
      BY <1>1, <1>2, <2>1
    <3>2. QED BY <1>1, <1>2, <3>1
  <2>2. CASE x.num >= 0
    <3>1. x.num * y.den >= 0
      BY <1>1, <2>2
    <3>2. y.num >= 0
      <4>1. y.num * x.den \in Int /\ x.num * y.den \in Int
        BY <1>1
      <4>2. 0 * x.den <= y.num * x.den
        BY <1>1, <3>1, <4>1
      <4>3. QED BY <1>1, <4>2, TimesSame
    <3>3. QED BY <1>1, <1>2, <2>2, <3>2
  <2>3. QED BY <1>1, <2>1, <2>2
<1>4. a \div (x.den * width) <= c \div (y.den * width)
  <2>1. a \in Nat /\ c \in Nat
    BY <1>1, <1>2
  <2>2. QED BY <1>1, <1>3, <2>1, FloorGrows
<1>5. /\ a \div (x.den * width) \in Nat /\ c \div (y.den * width) \in Nat
      /\ BucketOf(h, x) = IF a \div (x.den * width) <= top THEN a \div (x.den * width) ELSE top
      /\ BucketOf(h, y) = IF c \div (y.den * width) <= top THEN c \div (y.den * width) ELSE top
  BY BucketIs DEF a, c
<1>6. QED BY <1>4, <1>5

\* Each bucket of h counts the samples s of F that fall into it.
Buckets(h, F, s) == [q \in F |-> BucketOf(h, s[q])]
Counts(h, F, s)  ==
  \A i \in DOMAIN h.buckets : h.buckets[i] = Cardinality(At(F, Buckets(h, F, s), i))

LEMMA CountsUpTo ==
  ASSUME NEW h, NEW width \in Nat \ {0}, NEW top \in Nat, Shaped(h, width, top),
         NEW F, IsFiniteSet(F), NEW s \in [F -> Fraction], Counts(h, F, s)
  PROVE  /\ \A i \in -1 .. top : UpTo(h, i) = Cardinality(UpAt(F, Buckets(h, F, s), i))
         /\ \A i \in -1 .. top : UpTo(h, i) \in Nat
         /\ Count(h) = Cardinality(F) /\ UpTo(h, top) = Cardinality(F) /\ UpTo(h, -1) = 0
<1> DEFINE b == Buckets(h, F, s)
<1>1. b \in [F -> 0 .. top]
  BY BucketIs DEF Buckets
<1>2. h.buckets \in [0 .. top -> Nat] /\ DOMAIN h.buckets = 0 .. top
  BY DEF Shaped
<1>3. \A i \in 0 .. top : h.buckets[i] = Cardinality(At(F, b, i))
  BY <1>2 DEF Counts
<1>4. \A i \in -1 .. top : UpTo(h, i) = Cardinality(UpAt(F, b, i))
  <2> DEFINE f == h.buckets
  <2>1. /\ f \in [0 .. top -> Nat] /\ b \in [F -> 0 .. top]
        /\ \A i \in 0 .. top : f[i] = Cardinality(At(F, b, i))
    BY <1>1, <1>2, <1>3
  <2> HIDE DEF f, b
  <2>2. \A i \in -1 .. top : SumFunctionOnSet(f, 0 .. i) = Cardinality(UpAt(F, b, i))
    BY <2>1, BucketsAddUp
  <2>3. QED BY <2>2 DEF UpTo, f
<1>5. \A i : UpAt(F, b, i) \subseteq F /\ Cardinality(UpAt(F, b, i)) \in Nat
  BY FS_Subset, FS_CardinalityType DEF UpAt
<1>6. UpAt(F, b, top) = F /\ UpAt(F, b, -1) = {}
  BY <1>1 DEF UpAt
<1>7. top \in -1 .. top /\ -1 \in -1 .. top
  OBVIOUS
<1>8. UpTo(h, top) = Cardinality(F) /\ UpTo(h, -1) = 0
  BY <1>4, <1>6, <1>7, FS_EmptySet
<1>9. Count(h) = UpTo(h, top)
  <2>1. Cardinality(0 .. top) - 1 = top
    BY FS_Interval
  <2>2. QED BY <1>2, <2>1 DEF Count
<1>10. QED BY <1>4, <1>5, <1>8, <1>9

\* The bucket where the percentile lands is the first with enough samples up to it.
LEMMA LandingIs ==
  ASSUME NEW h, NEW width \in Nat \ {0}, NEW top \in Nat, Shaped(h, width, top),
         NEW F, IsFiniteSet(F), F # {}, NEW s \in [F -> Fraction], Counts(h, F, s),
         NEW p \in 0 .. 100
  PROVE  /\ Landing(h, p) \in 0 .. top /\ Target(h, p) \in Nat
         /\ Target(h, p) >= 100 /\ Target(h, p) >= p * Cardinality(F)
         /\ 100 * UpTo(h, Landing(h, p)) >= Target(h, p)
         /\ 100 * UpTo(h, Landing(h, p) - 1) < Target(h, p)
<1> DEFINE n == Cardinality(F)
<1>1. n \in Nat /\ n >= 1
  BY FS_CardinalityType, FS_EmptySet
<1>2. p * n \in Nat /\ p * n <= 100 * n
  BY <1>1, TimesSame
<1>3. Target(h, p) = IF 100 >= p * n THEN 100 ELSE p * n
  BY <1>2, MaxMin, CountsUpTo DEF Target
<1>4. Target(h, p) \in Nat /\ Target(h, p) <= 100 * n /\ Target(h, p) >= 100
      /\ Target(h, p) >= p * n
  BY <1>1, <1>2, <1>3
<1> DEFINE L == {i \in DOMAIN h.buckets : 100 * UpTo(h, i) >= Target(h, p)}
<1>5. DOMAIN h.buckets = 0 .. top
  BY DEF Shaped
<1>6. top \in L
  <2>1. UpTo(h, top) = n
    BY CountsUpTo
  <2>2. QED BY <1>4, <1>5, <2>1
<1>7. L \subseteq Nat /\ L # {}
  BY <1>5, <1>6
<1>8. PICK l \in L : \A m \in L : l <= m
  BY <1>7, LeastNumber
<1>9. Min(L) \in L /\ \A m \in L : Min(L) <= m
  BY <1>8 DEF Min
<1>10. Landing(h, p) = Min(L)
  BY DEF Landing
<1>11. Landing(h, p) \in L /\ \A m \in L : Landing(h, p) <= m
  BY <1>9, <1>10
<1> DEFINE i == Landing(h, p)
<1>12. i \in 0 .. top /\ 100 * UpTo(h, i) >= Target(h, p)
  BY <1>5, <1>11
<1>13. 100 * UpTo(h, i - 1) < Target(h, p)
  <2>1. CASE i = 0
    <3>1. i - 1 = -1
      BY <2>1
    <3>2. UpTo(h, -1) = 0
      BY CountsUpTo
    <3>3. QED BY <1>4, <3>1, <3>2
  <2>2. CASE i # 0
    <3>1. i - 1 \in 0 .. top /\ i - 1 \in -1 .. top /\ i - 1 \notin L
      BY <1>11, <1>12, <2>2
    <3>2. \A j \in -1 .. top : UpTo(h, j) \in Nat
      BY CountsUpTo
    <3>3. UpTo(h, i - 1) \in Nat
      BY <3>1, <3>2
    <3>4. QED BY <1>4, <1>5, <3>1, <3>3
  <2>3. QED BY <2>1, <2>2
<1>14. QED BY <1>4, <1>12, <1>13

\* The estimate lies within the bucket of the percentile.
LEMMA EstimateIs ==
  ASSUME NEW h, NEW width \in Nat \ {0}, NEW top \in Nat, Shaped(h, width, top),
         NEW F, IsFiniteSet(F), F # {}, NEW s \in [F -> Fraction], Counts(h, F, s),
         NEW p \in 0 .. 100
  PROVE  /\ Leq([num |-> Landing(h, p) * width, den |-> 1], Percentile(h, p))
         /\ Leq(Percentile(h, p), [num |-> (Landing(h, p) + 1) * width, den |-> 1])
<1> DEFINE i == Landing(h, p)
           c == h.buckets[i]
           need == Target(h, p) - 100 * UpTo(h, i - 1)
           x == Min({need, 100 * c})
<1>1. /\ i \in 0 .. top /\ Target(h, p) \in Nat
      /\ 100 * UpTo(h, i) >= Target(h, p) /\ 100 * UpTo(h, i - 1) < Target(h, p)
  BY LandingIs
<1>2. UpTo(h, i) \in Nat /\ UpTo(h, i - 1) \in Nat
  <2>1. \A j \in -1 .. top : UpTo(h, j) \in Nat
    BY CountsUpTo
  <2>2. i \in -1 .. top /\ i - 1 \in -1 .. top
    BY <1>1
  <2>3. QED BY <2>1, <2>2
<1>3. UpTo(h, i) = UpTo(h, i - 1) + c
  <2>1. h.buckets \in [0 .. top -> Int]
    BY DEF Shaped
  <2>2. QED BY <1>1, <2>1, SumNext DEF UpTo
<1>4. c \in Nat
  BY <1>1 DEF Shaped
<1> HIDE DEF i, c
<1>5. c >= 1 /\ need \in Nat /\ need >= 1
  BY <1>1, <1>2, <1>3, <1>4
<1> HIDE DEF need
<1>6. x \in Nat /\ x >= 1 /\ x <= 100 * c
  <2>1. need \in Int /\ 100 * c \in Int /\ 100 * c >= 1
    BY <1>4, <1>5
  <2>2. \A m \in Int : Min({need, m}) = IF need <= m THEN need ELSE m
    BY <2>1, MaxMin
  <2>3. QED BY <1>5, <2>1, <2>2
<1>7. Percentile(h, p) = [num |-> width * (100 * c * i + x), den |-> 100 * c]
  <2>1. Count(h) # 0
    BY CountsUpTo, FS_EmptySet
  <2>2. QED BY <2>1 DEF Percentile, Shaped, i, c, need
<1> HIDE DEF x
<1>8. i \in Nat
  BY <1>1
<1>9. (i * width) * (100 * c) <= (width * (100 * c * i + x)) * 1
  <2>1. 100 * c * i \in Int /\ x \in Int /\ 100 * c * i <= 100 * c * i + x
    BY <1>4, <1>6, <1>8
  <2>2. (100 * c * i) * width <= (100 * c * i + x) * width
    BY <2>1, TimesSame
  <2>3. (100 * c * i) * width = (i * width) * (100 * c)
    BY <1>4, <1>8
  <2>4. (100 * c * i + x) * width = (width * (100 * c * i + x)) * 1
    BY <2>1
  <2>5. QED BY <2>2, <2>3, <2>4
<1>10. (width * (100 * c * i + x)) * 1 <= ((i + 1) * width) * (100 * c)
  <2>1. 100 * c * i + x \in Int /\ (100 * c) * (i + 1) \in Int
        /\ 100 * c * i + x <= (100 * c) * (i + 1)
    BY <1>4, <1>6, <1>8
  <2>2. (100 * c * i + x) * width <= ((100 * c) * (i + 1)) * width
    BY <2>1, TimesSame
  <2>3. ((100 * c) * (i + 1)) * width = ((i + 1) * width) * (100 * c)
    BY <1>4, <1>8
  <2>4. (100 * c * i + x) * width = (width * (100 * c * i + x)) * 1
    BY <2>1
  <2>5. QED BY <2>2, <2>3, <2>4
<1>11. QED BY <1>7, <1>9, <1>10 DEF Leq, i

\* The sample of r has rank p of those of F.
Ranked(F, s, p, r) ==
  /\ 100 * Cardinality(Below(F, s, r)) < Max({p * Cardinality(F), 1})
  /\ 100 * Cardinality(NotAbove(F, s, r)) >= p * Cardinality(F)

\* And some sample of that rank is in that bucket.
LEMMA RankLands ==
  ASSUME NEW h, NEW width \in Nat \ {0}, NEW top \in Nat, Shaped(h, width, top),
         NEW F, IsFiniteSet(F), F # {}, NEW s \in [F -> Fraction], Counts(h, F, s),
         NEW p \in 0 .. 100
  PROVE  \E r \in F : BucketOf(h, s[r]) = Landing(h, p) /\ Ranked(F, s, p, r)
<1> DEFINE n == Cardinality(F)  k == p * n  i == Landing(h, p)  b == Buckets(h, F, s)
<1>1. n \in Nat /\ n >= 1
  BY FS_CardinalityType, FS_EmptySet
<1>2. k \in Nat /\ k <= 100 * n
  BY <1>1, TimesSame
<1> HIDE DEF k
<1>3. PICK r \in F : /\ 100 * Cardinality(Below(F, s, r)) < k \/ Below(F, s, r) = {}
                     /\ 100 * Cardinality(NotAbove(F, s, r)) >= k
  BY <1>2, RankExists
<1>4. /\ Cardinality(Below(F, s, r)) \in Nat /\ Cardinality(NotAbove(F, s, r)) \in Nat
      /\ Cardinality(NotAbove(F, s, r)) >= 1 /\ IsFiniteSet(Below(F, s, r))
  BY RankSets, FS_EmptySet
<1>5. Max({k, 1}) = IF k >= 1 THEN k ELSE 1
  BY <1>2, MaxMin
<1>6. 100 * Cardinality(Below(F, s, r)) < Max({k, 1})
  BY <1>2, <1>3, <1>4, <1>5, FS_EmptySet
<1>7. /\ i \in 0 .. top /\ Target(h, p) \in Nat /\ Target(h, p) >= 100 /\ Target(h, p) >= k
      /\ 100 * UpTo(h, i) >= Target(h, p) /\ 100 * UpTo(h, i - 1) < Target(h, p)
  BY LandingIs DEF k
<1>8. /\ \A j \in -1 .. top : UpTo(h, j) = Cardinality(UpAt(F, b, j)) /\ UpTo(h, j) \in Nat
      /\ \A j : IsFiniteSet(UpAt(F, b, j))
  <2>1. \A j : UpAt(F, b, j) \subseteq F
    BY DEF UpAt
  <2>2. \A j : IsFiniteSet(UpAt(F, b, j))
    BY <2>1, FS_Subset
  <2>3. QED BY <2>2, CountsUpTo
<1>9. b \in [F -> 0 .. top] /\ \A q \in F : b[q] = BucketOf(h, s[q])
  BY BucketIs DEF Buckets
<1>10. \A q \in F : Leq(s[q], s[r]) => b[q] <= b[r]
  BY <1>9, BucketsGrow
<1> HIDE DEF b, i
<1>11. b[r] <= i
  <2>1. SUFFICES ASSUME b[r] > i PROVE FALSE
    BY <1>7, <1>9
  <2>2. UpAt(F, b, i) \subseteq Below(F, s, r)
    <3>1. ASSUME NEW q \in F, b[q] <= i PROVE Less(s[q], s[r])
      <4>1. ~(b[r] <= b[q])
        BY <1>7, <1>9, <2>1, <3>1
      <4>2. ~Leq(s[r], s[q])
        BY <1>9, <4>1, BucketsGrow
      <4>3. QED BY <4>2 DEF Less
    <3>2. QED BY <3>1 DEF UpAt, Below
  <2>3. Cardinality(UpAt(F, b, i)) <= Cardinality(Below(F, s, r))
    BY <1>4, <2>2, FS_Subset
  <2>4. UpTo(h, i) = Cardinality(UpAt(F, b, i)) /\ UpTo(h, i) \in Nat
    <3>1. i \in -1 .. top
      BY <1>7
    <3>2. QED BY <1>8, <3>1
  <2>5. QED BY <1>2, <1>4, <1>5, <1>6, <1>7, <2>3, <2>4
<1>12. i <= b[r]
  <2>1. SUFFICES ASSUME b[r] <= i - 1 PROVE FALSE
    BY <1>7, <1>9
  <2>2. NotAbove(F, s, r) \subseteq UpAt(F, b, i - 1)
    <3>1. ASSUME NEW q \in F, Leq(s[q], s[r]) PROVE b[q] <= i - 1
      BY <1>7, <1>9, <1>10, <2>1, <3>1
    <3>2. QED BY <3>1 DEF UpAt, NotAbove
  <2>3. Cardinality(NotAbove(F, s, r)) <= Cardinality(UpAt(F, b, i - 1))
    BY <1>8, <2>2, FS_Subset
  <2>4. UpTo(h, i - 1) = Cardinality(UpAt(F, b, i - 1)) /\ UpTo(h, i - 1) \in Nat
    <3>1. i - 1 \in -1 .. top
      BY <1>7
    <3>2. QED BY <1>8, <3>1
  <2>5. Target(h, p) = IF 100 >= k THEN 100 ELSE k
    <3>1. k \in Int /\ 100 \in Int
      BY <1>2
    <3>2. Target(h, p) = Max({100, k})
      BY CountsUpTo DEF Target, k
    <3>3. QED BY <3>1, <3>2, MaxMin
  <2>6. QED BY <1>2, <1>3, <1>4, <1>7, <2>3, <2>4, <2>5
<1>13. b[r] = i
  BY <1>7, <1>9, <1>11, <1>12
<1>14. Ranked(F, s, p, r)
  BY <1>3, <1>6 DEF Ranked, k
<1>15. QED BY <1>9, <1>13, <1>14 DEF i

\* An observation counts one more sample.
LEMMA ObserveCounts ==
  ASSUME NEW h, NEW width \in Nat \ {0}, NEW top \in Nat, Shaped(h, width, top),
         NEW F, IsFiniteSet(F), NEW s \in [F -> Fraction], Counts(h, F, s),
         NEW r, r \notin F, NEW t \in [F \cup {r} -> Fraction], \A q \in F : t[q] = s[q]
  PROVE  Shaped(Observe(h, t[r]), width, top) /\ Counts(Observe(h, t[r]), F \cup {r}, t)
<1> DEFINE B == BucketOf(h, t[r])  g == Observe(h, t[r])
<1>1. B \in 0 .. top
  BY BucketIs
<1>2. h \in [width : {width}, buckets : [0 .. top -> Nat]]
  BY DEF Shaped
<1>3. g = [h EXCEPT !.buckets[B] = @ + 1]
  BY DEF Observe
<1> HIDE DEF g, B
<1>4. /\ Shaped(g, width, top) /\ DOMAIN g.buckets = 0 .. top /\ DOMAIN h.buckets = 0 .. top
      /\ g.width = h.width
      /\ \A i \in 0 .. top : g.buckets[i] = h.buckets[i] + (IF i = B THEN 1 ELSE 0)
  <2> DEFINE f == h.buckets
  <2>1. f \in [0 .. top -> Nat] /\ h.width = width
    BY <1>2
  <2>2. g.width = width /\ g.buckets = [f EXCEPT ![B] = f[B] + 1]
        /\ g = [width |-> g.width, buckets |-> g.buckets]
    BY <1>2, <1>3
  <2> HIDE DEF f
  <2>3. [f EXCEPT ![B] = f[B] + 1] \in [0 .. top -> Nat]
    BY <1>1, <2>1
  <2>4. g \in [width : {width}, buckets : [0 .. top -> Nat]]
    BY <2>2, <2>3
  <2>5. \A i \in 0 .. top : g.buckets[i] = f[i] + (IF i = B THEN 1 ELSE 0)
    BY <1>1, <2>1, <2>2
  <2>6. QED BY <2>1, <2>2, <2>3, <2>4, <2>5 DEF Shaped, f
<1>5. \A x : BucketOf(g, x) = BucketOf(h, x)
  BY <1>4 DEF BucketOf
<1> DEFINE b == Buckets(h, F, s)  c == Buckets(g, F \cup {r}, t)
<1>6. c[r] = B /\ \A q \in F : c[q] = b[q]
  BY <1>5 DEF Buckets, B
<1>7. \A i : At(F \cup {r}, c, i) = At(F, b, i) \cup (IF i = B THEN {r} ELSE {})
  BY <1>6 DEF At
<1>8. \A i : IsFiniteSet(At(F, b, i)) /\ r \notin At(F, b, i)
  <2>1. \A i : At(F, b, i) \subseteq F
    BY DEF At
  <2>2. QED BY <2>1, FS_Subset
<1> HIDE DEF b, c
<1>9. ASSUME NEW i \in 0 .. top PROVE g.buckets[i] = Cardinality(At(F \cup {r}, c, i))
  <2>1. h.buckets[i] = Cardinality(At(F, b, i))
    BY <1>4 DEF Counts, b
  <2>2. CASE i = B
    <3>1. At(F \cup {r}, c, i) = At(F, b, i) \cup {r}
      BY <1>7, <2>2
    <3>2. Cardinality(At(F, b, i) \cup {r}) = Cardinality(At(F, b, i)) + 1
      BY <1>8, CountOneMore
    <3>3. QED BY <1>4, <2>1, <2>2, <3>1, <3>2
  <2>3. CASE i # B
    <3>1. At(F \cup {r}, c, i) = At(F, b, i)
      BY <1>7, <2>3
    <3>2. h.buckets[i] \in Nat
      BY <1>2
    <3>3. QED BY <1>4, <2>1, <2>3, <3>1, <3>2
  <2>4. QED BY <2>2, <2>3
<1>10. Counts(g, F \cup {r}, t)
  BY <1>4, <1>9 DEF Counts, c
<1>11. QED BY <1>4, <1>10 DEF g

-----------------------------------------------------------------------------
(* The registry counts the finished requests *)

Reported   == {"ttft", "tpot", "e2e"}
Top(m)     == Shape[m].buckets - 1
Samples(m) == [r \in finished |-> Sample(m, r)]

HistInv ==
  \A m \in Reported : /\ Shaped(obs.hist[m], Shape[m].width, Top(m))
                      /\ Counts(obs.hist[m], finished, Samples(m))

LEMMA ShapeFacts == \A m \in Reported : Shape[m].width \in Nat \ {0} /\ Top(m) \in Nat
BY ShapeAssumption DEF Reported, Metric, Top

SamplesOK ==
  IsFiniteSet(finished) /\ \A m \in Reported : Samples(m) \in [finished -> Fraction]

LEMMA SamplesAre == TimeInv /\ StampsInv /\ OutputInv => SamplesOK
<1> SUFFICES ASSUME TimeInv, StampsInv, OutputInv PROVE SamplesOK
  OBVIOUS
<1>1. finished \subseteq 1 .. arrived /\ arrived \in Nat /\ 1 .. arrived \subseteq Request
  BY BoundAssumption
  DEF TimeInv, CountInv, OnceInv, PlacesCover, TypeInv, TypeOK, LoadOK, Request
<1>2. IsFiniteSet(finished)
  <2>1. IsFiniteSet(1 .. arrived)
    BY <1>1, FS_Interval
  <2>2. QED BY <1>1, <2>1, FS_Subset
<1>3. ASSUME NEW m \in Reported, NEW r \in finished PROVE Sample(m, r) \in Fraction
  <2>1. r \in Request /\ maxOutput[r] \in Nat \ {0}
    BY <1>1 DEF OutputInv, Asks, TimeInv, CountInv, TypeInv, TypeOK, LoadOK
  <2>2. at[r].arrival \in Int /\ at[r].first \in Int /\ at[r].done \in Int
    BY <2>1 DEF StampsInv, Moment
  <2>3. QED BY <2>1, <2>2 DEF Reported, Sample, TTFT, Fraction
<1>4. QED BY <1>2, <1>3 DEF Samples, SamplesOK

LEMMA SamplesNext == TimeInv' /\ StampsInv' /\ OutputInv' => SamplesOK'
BY SamplesAre, PTL

\* A chain's step that finishes no request observes none.
LEMMA ChainNoneDone ==
  ASSUME NEW c \in Chain, TChainStep(c), ~TTakeFinished(c), ~TComplete(c)
  PROVE  UNCHANGED <<finished, obs>>
<1>1. CASE Ends(c) \/ PrefillPoll(c) \/ DecodePoll(c)
  BY <1>1 DEF Ends, Exit, Retire, PrefillPoll, DecodePoll, vars, fateVars
<1>2. CASE TAdmit(c) \/ TReject(c) \/ TPrefillDone(c) \/ THandOff(c)
  BY <1>2 DEF TAdmit, Admit, TReject, Reject, TPrefillDone, PrefillDone, THandOff, HandOff,
              vars, fateVars
<1>3. CASE TTakeHandoff(c)
  BY <1>3 DEF TTakeHandoff, TakeHandoff
<1>4. CASE TDecodeToken(c)
  BY <1>4 DEF TDecodeToken, DecodeToken, fateVars
<1>5. QED BY <1>1, <1>2, <1>3, <1>4 DEF TChainStep

LEMMA NoneDone ==
  ASSUME [TNext]_timedVars, \A c \in Chain : ~TTakeFinished(c) /\ ~TComplete(c)
  PROVE  UNCHANGED <<finished, obs>>
<1>1. CASE TStart \/ TArrive
  BY <1>1 DEF TStart, Start, TArrive, Arrive, fateVars
<1>2. CASE TResize \/ \E w \in Worker : TDrainDone(w)
  BY <1>2 DEF TResize, ResizeToPrefill, ResizeToDecode, TDrainDone, DrainDone, fateVars, vars
<1>3. CASE TStopAtQuiescence \/ TTerminated \/ UNCHANGED timedVars
  BY <1>3 DEF TStopAtQuiescence, StopAtQuiescence, TTerminated, Terminated, timedVars, timeVars,
              vars, fateVars
<1>4. ASSUME NEW c \in Chain, TChainStep(c) PROVE UNCHANGED <<finished, obs>>
  BY <1>4, ChainNoneDone
<1>5. QED BY <1>1, <1>2, <1>3, <1>4 DEF TNext

\* What is recorded of a request that is done.
IsRecorded(r) ==
  /\ r \in Request /\ r \in Held \cup Handed
  /\ finished' = finished \cup {r}
  /\ Record(r)
  /\ at'[r].arrival = at[r].arrival /\ at'[r].first = at[r].first /\ at'[r].done = now'

LEMMA DoneRecorded ==
  ASSUME TimeInv, NEW c \in Chain, TTakeFinished(c) \/ TComplete(c)
  PROVE  \E r \in Request : IsRecorded(r)
<1>1. /\ pc \in [Chain -> PC] /\ decodeQueue \in Seq(Request)
      /\ job \in [Chain -> Request \cup {NoRequest}] /\ NoRequest \notin Request
      /\ DOMAIN at = Request /\ TypeInv
  BY RequestFacts DEF TimeInv, TimeOK, CountInv, TypeInv, TypeOK, ChainsOK, WorkOK
<1>2. CASE TTakeFinished(c)
  <2> DEFINE r == Head(decodeQueue)
  <2>1. /\ decodeQueue # <<>> /\ pc[c] = "decodeStep" /\ pc'[c] = "decodeStep"
        /\ TakeHandoff(c) /\ Record(r) /\ Stamp(r, {"take", "done"})
    BY <1>2 DEF TTakeFinished, TakeHandoff
  <2>2. r \in Request /\ r \in Handed
    BY <1>1, <2>1, PopTypes, PopSet DEF Handed, TimeInv, CountInv, OnceInv
  <2>3. finished' = finished \cup {r}
    <3>1. IsFinished(r, generated[r])
      BY <1>1, <2>1 DEF TakeHandoff
    <3>2. QED BY <2>1, <3>1 DEF TakeHandoff, Finish
  <2>4. \A m \in Moment : at'[r][m] = IF m \in {"take", "done"} THEN now' ELSE at[r][m]
    <3> HIDE DEF r
    <3>1. {"take", "done"} \in SUBSET Moment
      BY DEF Moment
    <3>2. QED BY <1>1, <2>1, <2>2, <3>1, StampOne
  <2> HIDE DEF r
  <2>5. QED BY <2>1, <2>2, <2>3, <2>4 DEF IsRecorded, Moment
<1>3. CASE TComplete(c)
  <2> DEFINE r == job[c]
  <2>1. /\ pc[c] = "decode" /\ Complete(c) /\ Record(r) /\ Stamp(r, {"done"})
        /\ finished' = finished \cup {r}
    BY <1>3 DEF TComplete, Complete, Finish
  <2>2. r \in Request /\ r \in Held
    <3>1. r # NoRequest
      BY <1>1, <2>1 DEF TypeInv, JobMatchesPC
    <3>2. QED BY <1>1, <3>1 DEF Held
  <2>3. \A m \in Moment : at'[r][m] = IF m \in {"done"} THEN now' ELSE at[r][m]
    <3> HIDE DEF r
    <3>1. {"done"} \in SUBSET Moment
      BY DEF Moment
    <3>2. QED BY <1>1, <2>1, <2>2, <3>1, StampOne
  <2> HIDE DEF r
  <2>4. QED BY <2>1, <2>2, <2>3 DEF IsRecorded, Moment
<1>4. QED BY <1>2, <1>3

\* The samples of a finished request are those it had when it was done.
LEMMA SamplesStay ==
  ASSUME TimeInv, TimeInv', AtRest, ClockInv, [TNext]_timedVars, NEW r \in finished
  PROVE  (\A m \in Moment : at'[r][m] = at[r][m]) /\ maxOutput'[r] = maxOutput[r]
<1>1. r \in Request /\ r \in 1 .. arrived /\ arrived \in Nat
      /\ r \notin Waiting \cup Prefills \cup Handed \cup Decodes
  <2>1. TypeInv /\ OnceInv
    BY DEF TimeInv, CountInv
  <2>2. Prefills \cup Decodes \subseteq Held
    BY <2>1 DEF Prefills, Decodes, Prefilling, Held, TypeInv, JobMatchesPC
  <2>3. r \in 1 .. arrived /\ arrived \in Nat /\ 1 .. arrived \subseteq Request
    BY <2>1, StagePlaces DEF OnceInv, PlacesCover, TypeInv, TypeOK, LoadOK
  <2>4. QED BY <2>1, <2>2, <2>3 DEF OnceInv, PlacesApart, Apart
<1>2. \A m \in Moment : at'[r][m] = at[r][m]
  <2>1. CASE Rests
    BY <2>1 DEF Rests
  <2>2. ASSUME NEW x \in Request, OneMoves(x) PROVE \A m \in Moment : at'[r][m] = at[r][m]
    <3>1. x # r
      BY <1>1, <2>2 DEF OneMoves, Comes, IsAdmitted, IsRejected, IsHandedOn, IsTaken,
                        IsDoneAtOnce, IsDone
    <3>2. \E S : Stamped(x, S)
      BY <2>2 DEF OneMoves, Comes, IsAdmitted, IsRejected, IsHandedOn, IsTaken,
                  IsDoneAtOnce, IsDone
    <3>3. QED BY <1>1, <3>1, <3>2 DEF Stamped
  <2>3. QED BY <2>1, <2>2, RestsOrMoves
<1>3. maxOutput'[r] = maxOutput[r]
  <2>1. CASE TArrive
    <3>1. /\ arrived' = arrived \/ arrived' = arrived + 1
          /\ \/ maxOutput' = maxOutput
             \/ \E o \in OutputTokens : maxOutput' = [maxOutput EXCEPT ![arrived + 1] = o]
      BY <2>1 DEF TArrive, Arrive
    <3>2. maxOutput \in [Request -> Nat] /\ r # arrived + 1
      BY <1>1 DEF TimeInv, CountInv, TypeInv, TypeOK, LoadOK
    <3>3. QED BY <1>1, <3>1, <3>2
  <2>2. CASE TStart \/ TResize \/ \E w \in Worker : TDrainDone(w)
    BY <2>2 DEF TStart, Start, TResize, ResizeToPrefill, ResizeToDecode, TDrainDone, DrainDone,
                loadVars, vars
  <2>3. CASE TStopAtQuiescence \/ TTerminated \/ UNCHANGED timedVars
    BY <2>3 DEF TStopAtQuiescence, StopAtQuiescence, TTerminated, Terminated, timedVars, vars,
                loadVars
  <2>4. ASSUME NEW c \in Chain, TChainStep(c) PROVE maxOutput' = maxOutput
    BY <2>4, ChainAlone
  <2>5. QED BY <2>1, <2>2, <2>3, <2>4 DEF TNext
<1>4. QED BY <1>2, <1>3

\* What the registry is given is the sample of the request that is done.
LEMMA RecordedSamples ==
  ASSUME TimeInv', OutputInv', NEW r, IsRecorded(r), NEW m \in Reported
  PROVE  obs'.hist[m] = Observe(obs.hist[m], Sample(m, r)')
<1>1. /\ r \in finished' /\ r \in Request
      /\ at'[r].arrival = at[r].arrival /\ at'[r].first = at[r].first /\ at'[r].done = now'
      /\ Record(r)
  BY DEF IsRecorded
<1>2. generated'[r] = maxOutput'[r] /\ generated'[r] \in Nat /\ generated'[r] >= 1
  <2>1. r \in 1 .. arrived'
    BY <1>1 DEF TimeInv, CountInv, OnceInv, PlacesCover
  <2>2. generated'[r] \in Nat
    BY <1>1 DEF TimeInv, CountInv, TypeInv, TypeOK, WorkOK
  <2>3. QED BY <1>1, <2>1, <2>2 DEF OutputInv, OutputExact, Asks
<1>3. Max({1, generated'[r]}) = maxOutput'[r]
  BY <1>2, MaxMin
<1>4. CASE m = "ttft"
  <2>1. Sample("ttft", r)' = TTFT(r)
    BY <1>1 DEF Sample, TTFT
  <2>2. QED BY <1>1, <1>4, <2>1 DEF Record, RecordRequest
<1>5. CASE m = "e2e"
  <2>1. Sample("e2e", r)' = E2E(r, now')
    BY <1>1 DEF Sample, E2E
  <2>2. QED BY <1>1, <1>5, <2>1 DEF Record, RecordRequest
<1>6. CASE m = "tpot"
  <2>1. Sample("tpot", r)' = TPOT(r, now')
    BY <1>1, <1>3 DEF Sample, TPOT
  <2>2. generated'[r] > 0
    BY <1>2
  <2>3. QED BY <1>1, <1>6, <2>1, <2>2 DEF Record, RecordRequest
<1>7. QED BY <1>4, <1>5, <1>6 DEF Reported

LEMMA HistStep ==
  ASSUME TimeInv, TimeInv', AtRest, ClockInv, StampsInv, StampsInv', OutputInv, OutputInv',
         HistInv, [TNext]_timedVars
  PROVE  HistInv'
<1> SUFFICES ASSUME NEW m \in Reported
             PROVE  /\ Shaped(obs'.hist[m], Shape[m].width, Top(m))
                    /\ Counts(obs'.hist[m], finished', Samples(m)')
  BY DEF HistInv, Top
<1>1. /\ Shape[m].width \in Nat \ {0} /\ Top(m) \in Nat
      /\ IsFiniteSet(finished) /\ Samples(m) \in [finished -> Fraction]
      /\ Samples(m)' \in [finished' -> Fraction]
      /\ Shaped(obs.hist[m], Shape[m].width, Top(m))
      /\ Counts(obs.hist[m], finished, Samples(m))
  BY ShapeFacts, SamplesAre, SamplesNext DEF SamplesOK, HistInv
<1>2. ASSUME NEW q \in finished PROVE Sample(m, q)' = Sample(m, q)
  <2>1. /\ at'[q].arrival = at[q].arrival /\ at'[q].first = at[q].first
        /\ at'[q].done = at[q].done /\ maxOutput'[q] = maxOutput[q]
    BY SamplesStay DEF Moment
  <2>2. QED BY <2>1 DEF Sample, TTFT
<1>3. CASE UNCHANGED <<finished, obs>>
  <2>1. Samples(m)' = Samples(m)
    BY <1>2, <1>3 DEF Samples
  <2>2. QED BY <1>1, <1>3, <2>1
<1>4. ASSUME NEW r \in Request, IsRecorded(r)
      PROVE  /\ Shaped(obs'.hist[m], Shape[m].width, Top(m))
             /\ Counts(obs'.hist[m], finished', Samples(m)')
  <2>1. r \notin finished /\ finished' = finished \cup {r}
    BY <1>4 DEF IsRecorded, TimeInv, CountInv, OnceInv, PlacesApart, Apart
  <2> DEFINE t == Samples(m)'
  <2>2. t[r] = Sample(m, r)' /\ \A q \in finished : t[q] = Samples(m)[q]
    BY <1>2, <2>1 DEF Samples
  <2>3. obs'.hist[m] = Observe(obs.hist[m], t[r])
    BY <1>4, <2>2, RecordedSamples
  <2>4. t \in [finished \cup {r} -> Fraction]
    BY <1>1, <2>1
  <2> HIDE DEF t
  <2>5. /\ Shaped(Observe(obs.hist[m], t[r]), Shape[m].width, Top(m))
        /\ Counts(Observe(obs.hist[m], t[r]), finished \cup {r}, t)
    BY <1>1, <2>1, <2>2, <2>4, ObserveCounts
  <2>6. QED BY <2>1, <2>3, <2>5 DEF t
<1>5. QED BY <1>3, <1>4, NoneDone, DoneRecorded

\* The estimate est lies in the bucket of the sample x.
NearBucket(h, x, est) ==
  /\ Leq([num |-> BucketOf(h, x) * h.width, den |-> 1], est)
  /\ Leq(est, [num |-> (BucketOf(h, x) + 1) * h.width, den |-> 1])

\* A histogram reports a percentile to within the bucket of a sample of that rank.
LEMMA Located ==
  ASSUME NEW h, NEW width \in Nat \ {0}, NEW top \in Nat, Shaped(h, width, top),
         NEW F, IsFiniteSet(F), F # {}, NEW s \in [F -> Fraction], Counts(h, F, s),
         NEW p \in 0 .. 100
  PROVE  \E r \in F : Ranked(F, s, p, r) /\ NearBucket(h, s[r], Percentile(h, p))
<1>1. PICK r \in F : BucketOf(h, s[r]) = Landing(h, p) /\ Ranked(F, s, p, r)
  BY RankLands
<1>2. /\ Leq([num |-> Landing(h, p) * width, den |-> 1], Percentile(h, p))
      /\ Leq(Percentile(h, p), [num |-> (Landing(h, p) + 1) * width, den |-> 1])
  BY EstimateIs
<1>3. h.width = width
  BY DEF Shaped
<1>4. NearBucket(h, s[r], Percentile(h, p))
  BY <1>1, <1>2, <1>3 DEF NearBucket
<1>5. QED BY <1>1, <1>4

\* So does a histogram of the registry, of the requests that finished.
LEMMA RankNear ==
  ASSUME TimeInv, StampsInv, OutputInv, HistInv, finished # {}, NEW m \in Reported,
         NEW p \in 0 .. 100
  PROVE  \E r \in finished : /\ HasRank(m, p, r)
                             /\ NearBucket(obs.hist[m], Sample(m, r),
                                           Percentile(obs.hist[m], p))
<1>1. /\ Shape[m].width \in Nat \ {0} /\ Top(m) \in Nat /\ IsFiniteSet(finished)
      /\ Samples(m) \in [finished -> Fraction]
      /\ Shaped(obs.hist[m], Shape[m].width, Top(m))
      /\ Counts(obs.hist[m], finished, Samples(m))
  BY ShapeFacts, SamplesAre DEF SamplesOK, HistInv
<1>2. PICK r \in finished :
        /\ Ranked(finished, Samples(m), p, r)
        /\ NearBucket(obs.hist[m], Samples(m)[r], Percentile(obs.hist[m], p))
  BY <1>1, Located
<1>3. \A q \in finished : Samples(m)[q] = Sample(m, q)
  BY DEF Samples
<1>4. HasRank(m, p, r)
  <2>1. /\ Below(finished, Samples(m), r)
             = {q \in finished : Less(Sample(m, q), Sample(m, r))}
        /\ NotAbove(finished, Samples(m), r)
             = {q \in finished : Leq(Sample(m, q), Sample(m, r))}
    BY <1>3 DEF Below, NotAbove
  <2>2. QED BY <1>2, <2>1 DEF HasRank, Ranked
<1>5. NearBucket(obs.hist[m], Sample(m, r), Percentile(obs.hist[m], p))
  BY <1>2, <1>3
<1>6. QED BY <1>4, <1>5

RegistryInv == ClockOK /\ StampsInv /\ OutputInv /\ HistInv

LEMMA RegistryHolds == RegistryInv => PercentilesHonest
<1> SUFFICES ASSUME RegistryInv, finished # {}, NEW m \in Reported
             PROVE  LET h == obs.hist[m]
                        s == Snapshot(obs, m)
                        Near(est, r) ==
                          LET i == BucketOf(h, Sample(m, r)) IN
                            /\ Leq([num |-> i * h.width, den |-> 1], est)
                            /\ Leq(est, [num |-> (i + 1) * h.width, den |-> 1])
                    IN  /\ \E r \in finished : HasRank(m, 50, r) /\ Near(s.p50, r)
                        /\ \E r \in finished : HasRank(m, 99, r) /\ Near(s.p99, r)
  BY DEF PercentilesHonest, Reported
<1>1. /\ Snapshot(obs, m).p50 = Percentile(obs.hist[m], 50)
      /\ Snapshot(obs, m).p99 = Percentile(obs.hist[m], 99)
  BY DEF Snapshot
<1>2. TimeInv /\ StampsInv /\ OutputInv /\ HistInv
  BY DEF RegistryInv, ClockOK
<1>3. \A p \in 0 .. 100 : \E r \in finished :
        HasRank(m, p, r) /\ NearBucket(obs.hist[m], Sample(m, r), Percentile(obs.hist[m], p))
  BY <1>2, RankNear
<1>4. PICK a \in finished : HasRank(m, 50, a)
                           /\ NearBucket(obs.hist[m], Sample(m, a), Snapshot(obs, m).p50)
  <2>1. 50 \in 0 .. 100
    OBVIOUS
  <2>2. QED BY <1>1, <1>3, <2>1
<1>5. PICK b \in finished : HasRank(m, 99, b)
                           /\ NearBucket(obs.hist[m], Sample(m, b), Snapshot(obs, m).p99)
  <2>1. 99 \in 0 .. 100
    OBVIOUS
  <2>2. QED BY <1>1, <1>3, <2>1
<1>6. QED BY <1>4, <1>5 DEF NearBucket

LEMMA RegistryInit == TInit => RegistryInv
<1> SUFFICES ASSUME TInit PROVE RegistryInv
  OBVIOUS
<1>1. ClockOK /\ OutputInv /\ finished = {} /\ obs = NewRegistryOn
  BY ClockOKInit, OutputInit DEF TInit, Init
<1>2. StampsInv
  BY DEF TInit, StampsInv
<1>3. ASSUME NEW m \in Reported
      PROVE  /\ Shaped(obs.hist[m], Shape[m].width, Top(m))
             /\ Counts(obs.hist[m], finished, Samples(m))
  <2>1. obs.hist[m] = NewHist(Shape[m]) /\ Top(m) \in Nat
    BY <1>1, <1>3, ShapeFacts DEF NewRegistryOn, Reported, Metric
  <2>2. NewHist(Shape[m]) = [width |-> Shape[m].width, buckets |-> [i \in 0 .. Top(m) |-> 0]]
    BY DEF NewHist, Top
  <2>3. Shaped(obs.hist[m], Shape[m].width, Top(m))
    BY <2>1, <2>2 DEF Shaped
  <2>4. /\ DOMAIN obs.hist[m].buckets = 0 .. Top(m)
        /\ \A i \in 0 .. Top(m) : obs.hist[m].buckets[i] = 0
    BY <2>1, <2>2
  <2>5. \A b, i : Cardinality(At(finished, b, i)) = 0
    BY <1>1, FS_EmptySet DEF At
  <2>6. QED BY <2>3, <2>4, <2>5 DEF Counts
<1>4. QED BY <1>1, <1>2, <1>3 DEF RegistryInv, HistInv

LEMMA RegistryStep == RegistryInv /\ [TNext]_timedVars => RegistryInv'
<1> SUFFICES ASSUME RegistryInv, [TNext]_timedVars PROVE RegistryInv'
  OBVIOUS
<1>1. TimeInv /\ AtRest /\ ClockInv /\ StampsInv /\ OutputInv /\ HistInv /\ TypeInv /\ OnceInv
  BY DEF RegistryInv, ClockOK, TimeInv, CountInv
<1>2. ClockOK' /\ OutputInv'
  BY <1>1, ClockOKStep, OutputStep, TimedStepRefines DEF RegistryInv
<1>3. TimeInv' /\ ClockInv' /\ now \in Int /\ now' \in Int
  BY <1>1, <1>2 DEF ClockOK, ClockInv
<1>4. Advances /\ (Rests \/ \E x \in Request : OneMoves(x))
  BY <1>1, <1>3, AnyMoves, RestsOrMoves
<1>5. StampsInv'
  BY <1>1, <1>3, <1>4, StampsStep
<1>6. HistInv'
  BY <1>1, <1>2, <1>3, <1>5, HistStep
<1>7. QED BY <1>2, <1>5, <1>6 DEF RegistryInv

\* The percentiles the registry reports (Snapshot), of every run, for any width and
\* number of buckets, and samples beyond the last: each lies in the bucket of a finished
\* request that has that rank among all of them.
THEOREM PercentilesHonestHolds == TSpec => []PercentilesHonest
BY RegistryInit, RegistryStep, RegistryHolds, PTL DEF TSpec

-----------------------------------------------------------------------------
(* The windows are exact: the log of the last that finished *)

\* e lists each of F once, in the order of t.
Listed(e, F, t) ==
  LET n == Cardinality(F) IN
    /\ e \in [1 .. n -> F]
    /\ \A r \in F : \E i \in 1 .. n : e[i] = r
    /\ \A i, j \in 1 .. n : e[i] = e[j] => i = j
    /\ \A i, j \in 1 .. n : i <= j => t[e[i]] <= t[e[j]]

\* The log has the last of the n in e, with their t and w, as many as are kept.
Kept(n) == IF n <= MaxRecent THEN n ELSE MaxRecent
LastOf(log, e, n, t, w) ==
  /\ \E S : log \in Seq(S)
  /\ Len(log) = Kept(n)
  /\ \A i \in 1 .. Kept(n) :
       LET r == e[n - Kept(n) + i] IN log[i].at = t[r] /\ log[i].tokens = w[r]

Longer(e, n, r) == [i \in 1 .. n + 1 |-> IF i <= n THEN e[i] ELSE r]

LEMMA ListGrows ==
  ASSUME NEW F, IsFiniteSet(F), NEW r, r \notin F, NEW t, NEW u \in [F \cup {r} -> Int],
         \A q \in F : u[q] = t[q] /\ u[q] <= u[r], NEW e, Listed(e, F, t)
  PROVE  Listed(Longer(e, Cardinality(F), r), F \cup {r}, u)
<1> DEFINE n == Cardinality(F)  g == Longer(e, n, r)
<1>1. n \in Nat /\ Cardinality(F \cup {r}) = n + 1
  BY FS_CardinalityType, CountOneMore
<1> HIDE DEF n
<1>2. /\ e \in [1 .. n -> F]
      /\ \A q \in F : \E i \in 1 .. n : e[i] = q
      /\ \A i, j \in 1 .. n : e[i] = e[j] => i = j
      /\ \A i, j \in 1 .. n : i <= j => t[e[i]] <= t[e[j]]
  BY DEF Listed, n
<1>3. /\ \A i \in 1 .. n : i \in 1 .. n + 1 /\ g[i] = e[i] /\ e[i] \in F
      /\ n + 1 \in 1 .. n + 1 /\ g[n + 1] = r
      /\ \A i \in 1 .. n + 1 : i \in 1 .. n \/ i = n + 1
      /\ DOMAIN g = 1 .. n + 1 /\ g = [i \in 1 .. n + 1 |-> g[i]]
  BY <1>1, <1>2 DEF Longer
<1> HIDE DEF g
<1>4. g \in [1 .. n + 1 -> F \cup {r}]
  BY <1>3
<1>5. \A q \in F \cup {r} : \E i \in 1 .. n + 1 : g[i] = q
  BY <1>2, <1>3
<1>6. \A i, j \in 1 .. n + 1 : g[i] = g[j] => i = j
  BY <1>2, <1>3
<1>7. ASSUME NEW i \in 1 .. n + 1, NEW j \in 1 .. n + 1, i <= j PROVE u[g[i]] <= u[g[j]]
  <2>1. u[r] <= u[r]
    OBVIOUS
  <2>2. CASE i \in 1 .. n /\ j \in 1 .. n
    BY <1>2, <1>3, <1>7, <2>2
  <2>3. CASE j = n + 1
    BY <1>3, <2>1, <2>3
  <2>4. QED BY <1>1, <1>3, <1>7, <2>2, <2>3
<1>8. QED BY <1>1, <1>4, <1>5, <1>6, <1>7 DEF Listed, g, n

\* RecordRequest appends to the log, and trims it.
LEMMA LogGrows ==
  ASSUME NEW F, NEW n \in Nat, NEW e \in [1 .. n -> F], NEW r, r \notin F,
         NEW t, NEW u, NEW w, NEW v, \A q \in F : u[q] = t[q] /\ v[q] = w[q],
         NEW log, LastOf(log, e, n, t, w), NEW x, x.at = u[r], x.tokens = v[r]
  PROVE  LastOf(Trim(Append(log, x)), Longer(e, n, r), n + 1, u, v)
<1> DEFINE k == Kept(n)  k2 == Kept(n + 1)  g == Longer(e, n, r)
           long == Append(log, x)  new == Trim(long)
<1>1. MaxRecent \in Nat /\ MaxRecent >= 1
  BY RecentAssumption
<1>2. k \in Nat /\ k <= n /\ k <= MaxRecent /\ k2 \in Nat
      /\ IF n < MaxRecent THEN k = n /\ k2 = n + 1 /\ k + 1 <= MaxRecent
                          ELSE k = MaxRecent /\ k2 = MaxRecent /\ k + 1 > MaxRecent
  BY <1>1 DEF Kept
<1>3. /\ \A i \in 1 .. n : g[i] = e[i] /\ e[i] \in F
      /\ g[n + 1] = r
  BY DEF Longer
<1>4. PICK S : log \in Seq(S)
  BY DEF LastOf
<1>5. log \in Seq(S \cup {x}) /\ x \in S \cup {x}
  <2>1. Len(log) \in Nat /\ \A i \in 1 .. Len(log) : log[i] \in S
    BY <1>4, LenProperties, ElementOfSeq
  <2>2. log = [i \in 1 .. Len(log) |-> log[i]]
    BY <1>4, LenProperties
  <2>3. QED BY <1>4
<1>6. Len(log) = k
      /\ \A i \in 1 .. k : /\ log[i].at = t[e[n - k + i]]
                           /\ log[i].tokens = w[e[n - k + i]]
  BY DEF LastOf
<1> HIDE DEF k, k2, g
<1>7. /\ long \in Seq(S \cup {x}) /\ Len(long) = k + 1 /\ long[k + 1] = x
      /\ \A i \in 1 .. k : long[i] = log[i]
  BY <1>5, <1>6, AppendProperties
<1> HIDE DEF long
<1>8. ASSUME NEW i \in 1 .. k + 1
      PROVE  /\ long[i].at = u[g[n - k + i]] /\ long[i].tokens = v[g[n - k + i]]
             /\ long[i] \in S \cup {x}
  <2>1. CASE i = k + 1
    <3>1. n - k + i = n + 1
      BY <1>2, <2>1
    <3>2. QED BY <1>3, <1>7, <2>1, <3>1
  <2>2. CASE i # k + 1
    <3>1. i \in 1 .. k /\ n - k + i \in 1 .. n
      BY <1>2, <2>2
    <3>2. long[i] = log[i] /\ log[i] \in S
      BY <1>4, <1>6, <1>7, <3>1, ElementOfSeq
    <3>3. g[n - k + i] = e[n - k + i] /\ e[n - k + i] \in F
      BY <1>3, <3>1
    <3>4. QED BY <1>6, <3>1, <3>2, <3>3
  <2>3. QED BY <2>1, <2>2
<1>9. ASSUME new \in Seq(S \cup {x}), Len(new) = k2,
             \A i \in 1 .. k2 : /\ new[i].at = u[g[n + 1 - k2 + i]]
                               /\ new[i].tokens = v[g[n + 1 - k2 + i]]
      PROVE  LastOf(new, g, n + 1, u, v)
  BY <1>9 DEF LastOf, k2
<1> SUFFICES LastOf(new, g, n + 1, u, v)
  BY DEF g, long
<1>10. CASE n < MaxRecent
  <2>1. new = long
    BY <1>1, <1>2, <1>7, <1>10 DEF Trim
  <2> HIDE DEF new
  <2>2. k2 = k + 1 /\ n + 1 - k2 = n - k
    BY <1>2, <1>10
  <2>3. QED BY <1>7, <1>8, <1>9, <2>1, <2>2
<1>11. CASE ~(n < MaxRecent)
  <2>1. k = MaxRecent /\ k2 = k /\ k >= 1
    BY <1>1, <1>2, <1>11
  <2>2. new = SubSeq(long, 2, k + 1)
    <3>1. Len(long) > MaxRecent /\ Len(long) - MaxRecent + 1 = 2
      BY <1>2, <1>7, <2>1
    <3>2. QED BY <1>7, <3>1 DEF Trim
  <2>3. /\ new \in Seq(S \cup {x}) /\ Len(new) = k
        /\ \A i \in 1 .. k : new[i] = long[i + 1]
    <3>1. \A i \in 2 .. k + 1 : long[i] \in S \cup {x}
      BY <1>2, <1>8
    <3>2. 2 <= k + 1 /\ k + 1 \in Int /\ (k + 1) - 2 + 1 = k
      BY <1>2, <2>1
    <3>3. \A i \in 1 .. k : 2 + i - 1 = i + 1
      BY <1>2
    <3>4. /\ SubSeq(long, 2, k + 1) \in Seq(S \cup {x})
          /\ Len(SubSeq(long, 2, k + 1)) = k
          /\ \A i \in 1 .. k : SubSeq(long, 2, k + 1)[i] = long[2 + i - 1]
      BY <3>1, <3>2, SubSeqProperties
    <3>5. QED BY <2>2, <3>3, <3>4
  <2> HIDE DEF new
  <2>4. ASSUME NEW i \in 1 .. k
        PROVE  new[i].at = u[g[n + 1 - k2 + i]] /\ new[i].tokens = v[g[n + 1 - k2 + i]]
    <3>1. i + 1 \in 1 .. k + 1 /\ n - k + (i + 1) = n + 1 - k2 + i
      BY <1>2, <2>1
    <3>2. QED BY <1>8, <2>3, <3>1
  <2>5. QED BY <1>9, <2>1, <2>3, <2>4
<1>12. QED BY <1>10, <1>11

\* What a window over log counts is what finished since cut, or as much as is kept.
CountsSince(log, F, t, w, cut) ==
  LET P == {i \in DOMAIN log : log[i].at >= cut}
      I == {r \in F : t[r] >= cut}
  IN  /\ Cardinality(P) = Min({Cardinality(I), MaxRecent})
      /\ Cardinality(I) <= MaxRecent =>
           SumFunctionOnSet([i \in P |-> log[i].tokens], P) = SumFunctionOnSet(w, I)

LEMMA WindowCounts ==
  ASSUME NEW F, IsFiniteSet(F), NEW t \in [F -> Int], NEW w \in [F -> Int],
         NEW e, Listed(e, F, t), NEW log, LastOf(log, e, Cardinality(F), t, w),
         NEW cut \in Int
  PROVE  CountsSince(log, F, t, w, cut)
<1> DEFINE P == {i \in DOMAIN log : log[i].at >= cut}
           I == {r \in F : t[r] >= cut}
           n == Cardinality(F)
           k == Kept(n)
           b == [i \in P |-> e[n - k + i]]
           f == [i \in P |-> log[i].tokens]
           J == {b[i] : i \in P}
<1>1. /\ n \in Nat /\ MaxRecent \in Nat /\ k \in Nat /\ k <= n /\ k <= MaxRecent
      /\ k = n \/ k = MaxRecent
  BY FS_CardinalityType, RecentAssumption DEF Kept
<1>2. /\ e \in [1 .. n -> F]
      /\ \A r \in F : \E i \in 1 .. n : e[i] = r
      /\ \A i, j \in 1 .. n : e[i] = e[j] => i = j
      /\ \A i, j \in 1 .. n : i <= j => t[e[i]] <= t[e[j]]
  BY DEF Listed
<1>3. /\ DOMAIN log = 1 .. k
      /\ \A i \in 1 .. k : /\ log[i].at = t[e[n - k + i]]
                           /\ log[i].tokens = w[e[n - k + i]]
  <2>1. PICK S : log \in Seq(S)
    BY DEF LastOf
  <2>2. Len(log) = k
    BY DEF LastOf
  <2>3. DOMAIN log = 1 .. k
    BY <2>1, <2>2, LenProperties
  <2>4. QED BY <2>3 DEF LastOf
<1> HIDE DEF n, k
<1>4. /\ P \subseteq 1 .. k /\ I \subseteq F
      /\ \A i \in 1 .. k : n - k + i \in 1 .. n /\ e[n - k + i] \in F
  BY <1>1, <1>2, <1>3
<1>5. IsFiniteSet(P) /\ IsFiniteSet(I) /\ Cardinality(I) \in Nat /\ Cardinality(P) <= k
      /\ Cardinality(P) \in Nat
  <2>1. IsFiniteSet(1 .. k) /\ Cardinality(1 .. k) = k
    BY <1>1, FS_Interval
  <2>2. QED BY <1>4, <2>1, FS_Subset, FS_CardinalityType
<1> DEFINE c == Cardinality(I)
<1>6. Min({c, MaxRecent}) = IF c <= MaxRecent THEN c ELSE MaxRecent
  <2>1. c \in Int /\ MaxRecent \in Int
    BY <1>1, <1>5
  <2> HIDE DEF c
  <2>2. QED BY <2>1, MaxMin
<1>7. \A i \in 1 .. k : i \in P <=> t[e[n - k + i]] >= cut
  BY <1>3
<1>8. /\ b \in [P -> F] /\ f \in [P -> Int]
      /\ \A i \in P : b[i] = e[n - k + i] /\ f[i] = w[b[i]]
  <2>1. \A i \in P : e[n - k + i] \in F /\ log[i].tokens = w[e[n - k + i]]
    BY <1>3, <1>4
  <2>2. QED BY <2>1
<1>9. \A i, j \in P : b[i] = b[j] => i = j
  <2> SUFFICES ASSUME NEW i \in P, NEW j \in P, b[i] = b[j] PROVE i = j
    OBVIOUS
  <2>1. n - k + i = n - k + j
    BY <1>2, <1>4, <1>8
  <2>2. QED BY <1>1, <1>4, <2>1
<1> HIDE DEF P, I, b, f
<1>10. /\ IsFiniteSet(J) /\ Cardinality(J) = Cardinality(P)
      /\ SumFunctionOnSet(f, P) = SumFunctionOnSet(w, J)
  BY <1>5, <1>8, <1>9, SumRenamed
<1>11. J \subseteq I
  BY <1>4, <1>7, <1>8 DEF I
<1>12. CASE \A j \in 1 .. n - k : ~(t[e[j]] >= cut)
  <2>1. ASSUME NEW r \in I PROVE r \in J
    <3>1. PICK j \in 1 .. n : e[j] = r
      BY <1>2, <1>4
    <3>2. j \notin 1 .. n - k
      BY <1>12, <3>1 DEF I
    <3>3. j - (n - k) \in 1 .. k /\ n - k + (j - (n - k)) = j
      BY <1>1, <3>2
    <3>4. j - (n - k) \in P
      BY <1>7, <3>1, <3>3 DEF I
    <3>5. QED BY <1>8, <3>1, <3>3, <3>4
  <2>2. J = I
    BY <1>11, <2>1
  <2> HIDE DEF J
  <2>3. Cardinality(I) = Cardinality(P) /\ Cardinality(I) <= MaxRecent
    BY <1>1, <1>5, <1>10, <2>2
  <2>4. Min({Cardinality(I), MaxRecent}) = Cardinality(I)
    BY <1>6, <2>3
  <2>5. QED BY <1>10, <2>2, <2>3, <2>4 DEF CountsSince, P, I, f
<1>13. ASSUME NEW j \in 1 .. n - k, t[e[j]] >= cut
       PROVE  Cardinality(P) = MaxRecent /\ Cardinality(I) > MaxRecent
  <2>1. k = MaxRecent /\ j \in 1 .. n
    BY <1>1
  <2>2. ASSUME NEW i \in 1 .. k PROVE i \in P
    <3>1. n - k + i \in 1 .. n /\ j <= n - k + i
      BY <1>1, <1>4
    <3>2. t[e[j]] <= t[e[n - k + i]] /\ t[e[j]] \in Int /\ t[e[n - k + i]] \in Int
      BY <1>2, <2>1, <3>1
    <3>3. QED BY <1>7, <1>13, <3>2
  <2>3. P = 1 .. k
    BY <1>4, <2>2
  <2>4. Cardinality(P) = k
    BY <1>1, <2>3, FS_Interval
  <2>5. e[j] \in I /\ e[j] \notin J
    <3>1. e[j] \in I
      BY <1>2, <1>13, <2>1 DEF I
    <3>2. ASSUME NEW i \in P, b[i] = e[j] PROVE FALSE
      <4>1. n - k + i = j
        BY <1>2, <1>4, <1>8, <2>1, <3>2
      <4>2. QED BY <1>1, <1>4, <4>1
    <3>3. QED BY <3>1, <3>2
  <2> HIDE DEF J
  <2>6. Cardinality(J \cup {e[j]}) = Cardinality(J) + 1
    BY <1>10, <2>5, CountOneMore
  <2>7. Cardinality(J \cup {e[j]}) <= Cardinality(I)
    BY <1>5, <1>11, <2>5, FS_Subset
  <2>8. QED BY <1>1, <1>5, <1>10, <2>1, <2>4, <2>6, <2>7
<1>14. CASE \E j \in 1 .. n - k : t[e[j]] >= cut
  <2>1. Cardinality(P) = MaxRecent /\ Cardinality(I) > MaxRecent
    BY <1>13, <1>14
  <2>2. Min({Cardinality(I), MaxRecent}) = MaxRecent
    BY <1>1, <1>5, <1>6, <2>1
  <2>3. QED BY <1>1, <1>5, <2>1, <2>2 DEF CountsSince, P, I, f
<1>15. QED BY <1>12, <1>14

\* The log has the requests that finished last.
Dones  == [r \in finished |-> at[r].done]
Tokens == [r \in finished |-> maxOutput[r]]

LogInv ==
  /\ \A r \in finished : at[r].done \in Nat
  /\ \E e : /\ Listed(e, finished, Dones)
            /\ LastOf(obs.recent, e, Cardinality(finished), Dones, Tokens)

WindowInv == RegistryInv /\ LogInv

LEMMA LogHolds == WindowInv => WindowExact
<1> SUFFICES ASSUME WindowInv, NEW w \in Windows
             PROVE  LET s      == Window(obs, now, w)
                        inside == {r \in finished : at[r].done >= now - w}
                    IN  /\ s.completed = Min({Cardinality(inside), MaxRecent})
                        /\ Cardinality(inside) <= MaxRecent =>
                             s.tokens = SumFunctionOnSet(maxOutput, inside)
  BY DEF WindowExact
<1> DEFINE inside == {r \in finished : at[r].done >= now - w}
           cut == now - Min({w, now})
           places == {i \in DOMAIN obs.recent : obs.recent[i].at >= cut}
<1>1. TimeInv /\ StampsInv /\ OutputInv /\ ClockInv /\ LogInv
  BY DEF WindowInv, RegistryInv, ClockOK
<1>2. now \in Nat /\ w \in Nat /\ IsFiniteSet(finished)
  BY <1>1, SamplesAre, DelayAssumption DEF SamplesOK, ClockInv
<1>3. cut = IF w <= now THEN now - w ELSE 0
  <2>1. w \in Int /\ now \in Int
    BY <1>2
  <2>2. Min({w, now}) = IF w <= now THEN w ELSE now
    BY <2>1, MaxMin
  <2>3. QED BY <2>1, <2>2
<1>4. Dones \in [finished -> Int] /\ Tokens \in [finished -> Int]
  <2>1. finished \subseteq Request /\ maxOutput \in [Request -> Nat]
    <3>1. TypeInv /\ OnceInv
      BY <1>1 DEF TimeInv, CountInv
    <3>2. QED BY <3>1 DEF TypeInv, TypeOK, LoadOK, FateOK
  <2>2. \A r \in finished : at[r].done \in Int /\ maxOutput[r] \in Int
    BY <1>1, <2>1 DEF LogInv
  <2>3. QED BY <2>2 DEF Dones, Tokens
<1>5. inside = {r \in finished : Dones[r] >= cut}
  <2>1. \A r \in finished : at[r].done \in Nat
    BY <1>1 DEF LogInv
  <2> HIDE DEF cut
  <2>2. \A r \in finished : at[r].done >= now - w <=> at[r].done >= cut
    BY <1>2, <1>3, <2>1
  <2>3. QED BY <2>2 DEF Dones
<1>6. PICK e : /\ Listed(e, finished, Dones)
               /\ LastOf(obs.recent, e, Cardinality(finished), Dones, Tokens)
  BY <1>1 DEF LogInv
<1>7. cut \in Int
  BY <1>2, <1>3
<1> HIDE DEF cut, inside
<1>8. /\ Cardinality(places) = Min({Cardinality(inside), MaxRecent})
      /\ Cardinality(inside) <= MaxRecent =>
           SumFunctionOnSet([i \in places |-> obs.recent[i].tokens], places)
             = SumFunctionOnSet(Tokens, inside)
  <2>1. CountsSince(obs.recent, finished, Dones, Tokens, cut)
    BY <1>2, <1>4, <1>6, <1>7, WindowCounts
  <2>2. QED BY <1>5, <2>1, Zenon DEF CountsSince
<1>9. SumFunctionOnSet(Tokens, inside) = SumFunctionOnSet(maxOutput, inside)
  <2>1. inside \subseteq finished
    BY DEF inside
  <2>2. IsFiniteSet(inside) /\ \A r \in inside : Tokens[r] = maxOutput[r]
    BY <1>2, <2>1, FS_Subset DEF Tokens
  <2>3. QED BY <2>2, SumSame
<1>10. /\ Window(obs, now, w).completed = Cardinality(places)
       /\ Window(obs, now, w).tokens
            = SumFunctionOnSet([i \in places |-> obs.recent[i].tokens], places)
  <2>1. InWindow(obs, now, w) = places
    BY DEF InWindow, cut
  <2>2. QED BY <2>1 DEF Window
<1>11. QED BY <1>8, <1>9, <1>10 DEF inside

LEMMA LogInit == TInit => LogInv
<1> SUFFICES ASSUME TInit PROVE LogInv
  OBVIOUS
<1>1. finished = {} /\ obs.recent = <<>>
  BY DEF TInit, Init, NewRegistryOn
<1>2. Cardinality(finished) = 0 /\ Kept(0) = 0
  BY <1>1, FS_EmptySet, RecentAssumption DEF Kept
<1> DEFINE e == [i \in 1 .. 0 |-> 0]
<1>3. e \in [1 .. 0 -> finished] /\ \A i : i \notin 1 .. 0
  OBVIOUS
<1>4. Listed(e, finished, Dones)
  BY <1>1, <1>2, <1>3 DEF Listed
<1>5. <<>> \in Seq({}) /\ Len(<<>>) = 0
  OBVIOUS
<1>6. LastOf(obs.recent, e, 0, Dones, Tokens)
  BY <1>1, <1>2, <1>3, <1>5 DEF LastOf
<1>7. QED BY <1>1, <1>2, <1>4, <1>6 DEF LogInv

LEMMA LogStep ==
  ASSUME RegistryInv, RegistryInv', LogInv, [TNext]_timedVars
  PROVE  LogInv'
<1>1. /\ TimeInv /\ TimeInv' /\ AtRest /\ ClockInv /\ ClockInv' /\ StampsInv /\ StampsInv'
      /\ OutputInv /\ OutputInv'
  BY DEF RegistryInv, ClockOK
<1>2. ASSUME NEW q \in finished
      PROVE  at'[q].done = at[q].done /\ maxOutput'[q] = maxOutput[q]
  BY <1>1, SamplesStay DEF Moment
<1>3. CASE UNCHANGED <<finished, obs>>
  <2>1. Dones' = Dones /\ Tokens' = Tokens
    BY <1>2, <1>3 DEF Dones, Tokens
  <2>2. \A r \in finished' : at'[r].done \in Nat
    BY <1>2, <1>3 DEF LogInv
  <2>3. QED BY <1>3, <2>1, <2>2 DEF LogInv
<1>4. ASSUME NEW r \in Request, IsRecorded(r) PROVE LogInv'
  <2>1. /\ r \notin finished /\ finished' = finished \cup {r} /\ r \in finished'
        /\ at'[r].done = now' /\ now' \in Nat /\ IsFiniteSet(finished)
    <3>1. r \notin finished
      BY <1>1, <1>4 DEF IsRecorded, TimeInv, CountInv, OnceInv, PlacesApart, Apart
    <3>2. IsFiniteSet(finished)
      BY <1>1, SamplesAre DEF SamplesOK
    <3>3. QED BY <1>1, <1>4, <3>1, <3>2 DEF IsRecorded, ClockInv
  <2>2. generated'[r] = maxOutput'[r]
    <3>1. r \in 1 .. arrived'
      BY <1>1, <2>1 DEF TimeInv, CountInv, OnceInv, PlacesCover
    <3>2. QED BY <1>1, <2>1, <3>1 DEF OutputInv, OutputExact
  <2> DEFINE t == Dones  u == Dones'  w == Tokens  v == Tokens'  n == Cardinality(finished)
             x == [at |-> now', ttft |-> TTFT(r), tpot |-> TPOT(r, now'),
                   tokens |-> generated'[r]]
  <2>3. obs'.recent = Trim(Append(obs.recent, x))
    BY <1>4 DEF IsRecorded, Record, RecordRequest
  <2>4. \A q \in finished' : at'[q].done \in Nat /\ at'[q].done <= now'
    <3>1. ASSUME NEW q \in finished
          PROVE  q \in Request /\ at'[q].done = at[q].done /\ at[q].done \in Nat
      <4>1. q \in Request
        BY <1>1 DEF TimeInv, CountInv, TypeInv, TypeOK, FateOK
      <4>2. QED BY <1>2, <4>1 DEF LogInv
    <3>2. ASSUME NEW q \in Request PROVE at'[q].done <= now'
      BY <1>1 DEF StampsInv, Moment
    <3>3. QED BY <2>1, <3>1, <3>2
  <2>5. /\ u \in [finished \cup {r} -> Int] /\ u[r] = now' /\ v[r] = generated'[r]
        /\ \A q \in finished : u[q] = t[q] /\ v[q] = w[q] /\ u[q] <= u[r]
    <3>1. u = [q \in finished' |-> at'[q].done] /\ v = [q \in finished' |-> maxOutput'[q]]
          /\ t = [q \in finished |-> at[q].done] /\ w = [q \in finished |-> maxOutput[q]]
      BY DEF Dones, Tokens
    <3> HIDE DEF t, u, v, w
    <3>2. u \in [finished \cup {r} -> Int]
      BY <2>1, <2>4, <3>1
    <3>3. QED BY <1>2, <2>1, <2>2, <2>4, <3>1, <3>2
  <2>6. x.at = u[r] /\ x.tokens = v[r]
    BY <2>5
  <2>7. PICK e : Listed(e, finished, t) /\ LastOf(obs.recent, e, n, t, w)
    BY DEF LogInv
  <2>8. e \in [1 .. n -> finished] /\ n \in Nat /\ Cardinality(finished') = n + 1
    BY <2>1, <2>7, FS_CardinalityType, CountOneMore DEF Listed
  <2> HIDE DEF t, u, v, w, x, n
  <2>9. Listed(Longer(e, n, r), finished', u)
    BY <2>1, <2>5, <2>7, ListGrows DEF n
  <2>10. LastOf(Trim(Append(obs.recent, x)), Longer(e, n, r), n + 1, u, v)
    BY <2>1, <2>5, <2>6, <2>7, <2>8, LogGrows
  <2>11. QED BY <2>3, <2>4, <2>8, <2>9, <2>10 DEF LogInv, u, v
<1>5. QED BY <1>1, <1>3, <1>4, NoneDone, DoneRecorded

LEMMA WindowInit == TInit => WindowInv
BY RegistryInit, LogInit DEF WindowInv

LEMMA WindowStep == WindowInv /\ [TNext]_timedVars => WindowInv'
BY RegistryStep, LogStep DEF WindowInv

\* What the registry reports of a window (Window), of every run, any window, any size of
\* the log: the completions of the window, or as many as the log keeps, and their tokens.
THEOREM WindowExactHolds == TSpec => []WindowExact
BY WindowInit, WindowStep, LogHolds, PTL DEF TSpec

-----------------------------------------------------------------------------
(* Elastic: refinement *)

\* What the monitor does is a step of the engine or none.
LEMMA TickRefines == Tick => [Next]_vars
<1> SUFFICES ASSUME Tick PROVE [Next]_vars
  OBVIOUS
<1>1. ASSUME NEW l \in Latencies,
             EvaluateAll([ttft |-> l.ttft, tpot |-> l.tpot, depth |-> Len(queue)])
      PROVE  [Next]_vars
  BY <1>1 DEF EvaluateAll, Next
<1>2. CASE NoSignal
  BY <1>2 DEF NoSignal
<1> QED
  BY <1>1, <1>2 DEF Tick

LEMMA StepRefines == [ENext]_elasticVars => [Next]_vars
<1> SUFFICES ASSUME [ENext]_elasticVars PROVE [Next]_vars
  OBVIOUS
<1>1. CASE EStart
  BY <1>1 DEF EStart, Next
<1>2. CASE EngineStep
  BY <1>2 DEF EngineStep, Next
<1>3. CASE EStop
  BY <1>3 DEF EStop, Next
<1>4. CASE Tick
  BY <1>4, TickRefines
<1>5. CASE TickStopped
  BY <1>5 DEF TickStopped
<1>6. CASE EStopAtQuiescence
  BY <1>6 DEF EStopAtQuiescence, Next
<1>7. CASE ETerminated
  BY <1>7 DEF ETerminated, elasticVars
<1>8. CASE UNCHANGED elasticVars
  BY <1>8 DEF elasticVars
<1> QED
  BY <1>1, <1>2, <1>3, <1>4, <1>5, <1>6, <1>7, <1>8 DEF ENext

\* Every behaviour of the elastic engine, its monitor hidden, is one of the
\* disaggregated engine.
THEOREM ElasticIsDisagg == ESpec => Spec
<1>1. EInit => Init
  BY DEF EInit
<1> QED
  BY <1>1, StepRefines, PTL DEF ESpec, Spec

\* Type correctness of the engine under the monitor.
THEOREM ElasticTypeCorrect == ESpec => []TypeOK
BY ElasticIsDisagg, TypeCorrect, PTL

\* Whatever the monitor decides and whenever, each request is in one place, the
\* admission count is exact, and a chain retires only when nothing is left.
THEOREM ElasticServesOnce == ESpec => []EachRequestOnce /\ []InFlightExact /\ []RetirementFinal
BY ElasticIsDisagg, EachRequestOnceHolds, InFlightExactHolds, RetirementFinalHolds, PTL

\* And the tokens are those asked for, the pool and the registry keep their books.
THEOREM ElasticAccountsExact == ESpec => []OutputExact /\ []AccountsExact
BY ElasticIsDisagg, OutputExactHolds, AccountsExactHolds, PTL

\* The engine under the monitor keeps the promise of ServingSpec, too.
THEOREM ElasticImplementsServing == ESpec => ImplementsServing
BY ElasticIsDisagg, DisaggImplementsServing

-----------------------------------------------------------------------------
(* The monitor's retirement *)

MonitorInv ==
  /\ CountInv
  /\ monitor # "off" => started
  /\ monitor = "retired" => NoWork

\* The monitor asks for the admission count and the queue only, not for hand-offs or
\* chains: the count is exact, so both are empty with it.
LEMMA IdleIsNoWork == CountInv /\ EngineIdle => NoWork
<1> SUFFICES ASSUME CountInv, EngineIdle PROVE NoWork
  OBVIOUS
<1>1. arrivalsDone /\ inflight = 0 /\ queue = <<>>
  BY DEF EngineIdle
<1>2. IsFiniteSet(Held \cup Handed) /\ inflight = Cardinality(Held \cup Handed)
  BY AdmittedFinite DEF CountInv, InFlightExact
<1>3. Held = {} /\ Handed = {}
  BY <1>1, <1>2, FS_EmptySet
<1>4. decodeQueue = <<>>
  <2>1. decodeQueue \in Seq(Request)
    BY DEF CountInv, TypeInv, TypeOK, WorkOK
  <2>2. ASSUME decodeQueue # <<>> PROVE FALSE
    <3>1. Len(decodeQueue) \in Nat /\ Len(decodeQueue) > 0
      BY <2>1, <2>2
    <3>2. decodeQueue[1] \in Handed
      BY <3>1 DEF Handed, ToSet
    <3>3. QED BY <1>3, <3>2
  <2>3. QED BY <2>2
<1>5. QED BY <1>1, <1>3, <1>4 DEF NoWork

LEMMA StartedStays == started /\ [Next]_vars => started'
BY DEF Next, ChainStep, Start, Arrive, Exit, Retire, Admit, Reject, PrefillDone, HandOff,
       TakeHandoff, Abandon, Complete, DecodeToken, ResizeToPrefill, ResizeToDecode,
       DrainDone, Stop, StopAtHorizon, StopAtQuiescence, Terminated, vars, loadVars

\* Only the first tick is armed by Start, and only a tick retires the monitor.
LEMMA WhoRetiresMonitor ==
  [ENext]_elasticVars =>
    \/ monitor' = monitor
    \/ started' /\ monitor' = "armed"
    \/ monitor = "armed" /\ (monitor' = "retired" => EngineIdle)
<1> SUFFICES ASSUME [ENext]_elasticVars, monitor' # monitor
             PROVE  \/ started' /\ monitor' = "armed"
                    \/ monitor = "armed" /\ (monitor' = "retired" => EngineIdle)
  OBVIOUS
<1>1. CASE EStart
  BY <1>1 DEF EStart, Start
<1>2. CASE Tick
  BY <1>2 DEF Tick
<1>3. CASE TickStopped
  BY <1>3 DEF TickStopped
<1>4. QED
  BY <1>1, <1>2, <1>3
  DEF ENext, EngineStep, EStop, EStopAtQuiescence, ETerminated, elasticVars

LEMMA MonitorStep == MonitorInv /\ [ENext]_elasticVars => MonitorInv'
<1> SUFFICES ASSUME MonitorInv, [ENext]_elasticVars PROVE MonitorInv'
  OBVIOUS
<1>1. [Next]_vars
  BY StepRefines
<1>2. CountInv /\ CountInv'
  BY <1>1, CountStep DEF MonitorInv
<1>3. monitor' # "off" => started'
  BY <1>1, StartedStays, WhoRetiresMonitor DEF MonitorInv
<1>4. ASSUME monitor' = "retired" PROVE NoWork'
  <2>1. NoWork /\ started
    BY <1>2, <1>4, WhoRetiresMonitor, IdleIsNoWork DEF MonitorInv
  <2>2. QED BY <1>1, <1>2, <2>1, NoWorkStep
<1>5. QED BY <1>2, <1>3, <1>4 DEF MonitorInv

\* The monitor retires only when no request is queued, handed over or in service on
\* any chain and none will arrive, and none appears afterwards.
THEOREM MonitorSeesTheEndHolds == ESpec => []MonitorSeesTheEnd
<1>1. EInit => MonitorInv
  BY CountInit DEF EInit, MonitorInv
<1>2. MonitorInv => MonitorSeesTheEnd
  BY DEF MonitorInv, MonitorSeesTheEnd, NoWork, Waiting, Handed, ToSet
<1>3. QED BY <1>1, <1>2, MonitorStep, PTL DEF ESpec

-----------------------------------------------------------------------------
(* The pools under the monitor *)

\* The floors are kept.
FloorsInv ==
  /\ Len(prefillGPUs) >= FloorPrefill /\ Len(decodeGPUs) >= 1
  /\ NumGPUs - NumPrefill >= FloorDecode => Len(decodeGPUs) >= FloorDecode

ElasticPools == PoolsInv /\ FloorsInv

LEMMA FloorRange == FloorDecode \in Nat /\ FloorDecode >= 1
BY GPUAssumption DEF FloorDecode

\* A flip of the policy keeps the floors, whichever of ResizePools' loops it is.
LEMMA FlipFloors ==
  ASSUME TypeInv, NEW s, Policy!Flip(1, s),
         \/ /\ Len(prefillGPUs') = Len(prefillGPUs) + 1
            /\ Len(decodeGPUs') = Len(decodeGPUs) - 1
         \/ /\ Len(prefillGPUs') = Len(prefillGPUs) - 1
            /\ Len(decodeGPUs') = Len(decodeGPUs) + 1
  PROVE  \/ /\ Len(prefillGPUs') = Len(prefillGPUs) + 1
            /\ Len(decodeGPUs) - 1 >= FloorDecode
         \/ /\ Len(decodeGPUs') = Len(decodeGPUs) + 1
            /\ Len(prefillGPUs) - 1 >= FloorPrefill
<1>1. Len(prefillGPUs) \in Nat /\ Len(decodeGPUs) \in Nat
  BY LenProperties DEF TypeInv, TypeOK, PoolsOK
<1>2. CASE pending = "dec2pre"
  BY <1>1, <1>2 DEF Policy!Flip, Policy!Moves, Policy!CanTake
<1>3. CASE pending # "dec2pre"
  BY <1>1, <1>3 DEF Policy!Flip, Policy!Moves, Policy!CanTake
<1>4. QED BY <1>2, <1>3

\* A tick flips when no worker drains, and only then.
LEMMA PoolsTick == ElasticPools /\ TypeInv' /\ Tick => ElasticPools'
<1> SUFFICES ASSUME ElasticPools, TypeInv', Tick PROVE ElasticPools'
  OBVIOUS
<1>1. \A v \in Worker : drain[v] = "none"
  BY DEF Tick
<1>2. CASE UNCHANGED vars
  BY <1>2, PoolsSame DEF vars, Serves, poolVars, ElasticPools, FloorsInv
<1>3. ASSUME NEW s, EvaluateAll(s) PROVE ElasticPools'
  <2>1. /\ Len(prefillGPUs) \in Nat /\ Len(decodeGPUs) \in Nat /\ NumGPUs \in Nat
        /\ MinPrefillGPUs \in Nat /\ MinDecodeGPUs \in Nat /\ TypeInv
    BY LenProperties, GPUAssumption, CallerAssumption
    DEF ElasticPools, PoolsInv, TypeInv, TypeOK, PoolsOK
  <2>2. CASE ResizeToPrefill /\ Policy!Flip(1, s)
    <3>1. Len(decodeGPUs) > 0
      BY <2>1, <2>2 DEF ResizeToPrefill
    <3>2. /\ PoolsInv' /\ Len(prefillGPUs') = Len(prefillGPUs) + 1
          /\ Len(decodeGPUs') = Len(decodeGPUs) - 1
      BY <1>1, <2>2, <3>1, PoolsToPrefill DEF ElasticPools
    <3>3. Len(decodeGPUs) - 1 >= FloorDecode
      BY <2>1, <2>2, <3>2, FlipFloors
    <3>4. QED BY <2>1, <3>2, <3>3, FloorRange
          DEF ElasticPools, FloorsInv, FloorPrefill, FloorDecode
  <2>3. CASE ResizeToDecode /\ Policy!Flip(1, s)
    <3>1. Len(prefillGPUs) > 0
      BY <2>1, <2>3 DEF ResizeToDecode
    <3>2. /\ PoolsInv' /\ Len(prefillGPUs') = Len(prefillGPUs) - 1
          /\ Len(decodeGPUs') = Len(decodeGPUs) + 1
      BY <1>1, <2>3, <3>1, PoolsToDecode DEF ElasticPools
    <3>3. Len(prefillGPUs) - 1 >= FloorPrefill
      BY <2>1, <2>3, <3>2, FlipFloors
    <3>4. QED BY <2>1, <3>2, <3>3, FloorRange
          DEF ElasticPools, FloorsInv, FloorPrefill, FloorDecode
  <2>4. QED BY <1>2, <1>3, <2>2, <2>3 DEF EvaluateAll
<1>4. CASE NoSignal
  BY <1>2, <1>4 DEF NoSignal
<1>5. QED BY <1>3, <1>4 DEF Tick

LEMMA PoolsStep == ElasticPools /\ [ENext]_elasticVars => ElasticPools'
<1> SUFFICES ASSUME ElasticPools, [ENext]_elasticVars PROVE ElasticPools'
  OBVIOUS
<1>1. PoolsInv /\ FloorsInv /\ TypeInv'
  BY StepRefines, TypeStep DEF ElasticPools, PoolsInv
<1>2. ASSUME PoolsInv', UNCHANGED <<prefillGPUs, decodeGPUs>> PROVE ElasticPools'
  BY <1>1, <1>2 DEF ElasticPools, FloorsInv
<1>3. CASE EStart
  BY <1>1, <1>2, <1>3, PoolsStart DEF EStart, Start, poolVars
<1>4. CASE Arrive
  BY <1>1, <1>2, <1>4, PoolsSame DEF Arrive, Serves, poolVars
<1>5. ASSUME NEW c \in Chain, ChainStep(c) PROVE ElasticPools'
  <2>1. UNCHANGED poolVars
    BY <1>5 DEF ChainStep, Exit, Retire, Admit, Reject, PrefillDone, HandOff, TakeHandoff,
                Abandon, Complete, DecodeToken
  <2>2. QED BY <1>1, <1>2, <1>5, <2>1, PoolsChainStep DEF poolVars
<1>6. ASSUME NEW w \in Worker, DrainDone(w) PROVE ElasticPools'
  BY <1>1, <1>2, <1>6, PoolsDrainDone DEF DrainDone
<1>7. CASE StopAtHorizon \/ StopAtQuiescence
  BY <1>1, <1>2, <1>7, PoolsSame DEF StopAtHorizon, StopAtQuiescence, Quiescent, poolVars
<1>8. CASE Stop
  BY <1>1, <1>2, <1>8 DEF Stop, PoolsInv, ListsInv, RolesInv, ServesInv
<1>9. CASE UNCHANGED vars
  BY <1>1, <1>2, <1>9, PoolsSame DEF vars, Serves, poolVars
<1>10. CASE Tick
  BY <1>1, <1>10, PoolsTick
<1>11. QED
  BY <1>3, <1>4, <1>5, <1>6, <1>7, <1>8, <1>9, <1>10
  DEF ENext, EngineStep, EStop, TickStopped, EStopAtQuiescence, ETerminated, elasticVars

\* Whatever the monitor sees and whenever it ticks, it loses no worker, empties no pool,
\* takes none below its floor, and leaves each worker serving the pool it is in.
THEOREM PoolsKeptHolds == ESpec => []PoolsKept
<1>1. EInit => ElasticPools
  <2> SUFFICES ASSUME Init PROVE ElasticPools
    BY DEF EInit
  <2>1. NumPrefill >= 1 /\ NumGPUs - NumPrefill >= 1
    BY NumPrefillRange, GPUAssumption
  <2>2. QED BY <2>1, PoolsInit DEF ElasticPools, FloorsInv, FloorPrefill
<1>2. ElasticPools => PoolsKept
  <2> SUFFICES ASSUME ElasticPools PROVE PoolsKept
    OBVIOUS
  <2>1. PoolsPartition
    <3>1. prefillGPUs \in Seq(Worker) /\ decodeGPUs \in Seq(Worker)
      BY DEF ElasticPools, PoolsInv, TypeInv, TypeOK, PoolsOK
    <3>2. /\ Len(prefillGPUs \o decodeGPUs) = Len(prefillGPUs) + Len(decodeGPUs)
          /\ ToSet(prefillGPUs \o decodeGPUs) = ToSet(prefillGPUs) \cup ToSet(decodeGPUs)
      BY <3>1, ConcatSet
    <3>3. QED BY <3>2 DEF ElasticPools, PoolsInv, ListsInv, PoolsPartition
  <2>2. PoolsServe
    BY DEF ElasticPools, PoolsInv, RolesInv, ServesInv, PoolsServe
  <2>3. QED BY <2>1, <2>2 DEF ElasticPools, FloorsInv, PoolsKept
<1>3. QED BY <1>1, <1>2, PoolsStep, PTL DEF ESpec
=============================================================================
