---------------------------- MODULE WallProofs ----------------------------
(***************************************************************************)
(* The disaggregated engine on the wall clock, for every number of GPUs,   *)
(* requests, flips and blocks, and every interleaving of its goroutines:   *)
(*                                                                         *)
(*   - the types, and where a chain has a request in hand (WTypeInv);      *)
(*   - each request is in one place (OnceInv, as on the simulated clock);  *)
(*   - a channel is closed twice only by a race (OpenInv);                 *)
(*   - what retirement can miss (SawTheEnd, AliveInv);                     *)
(*   - the tokens of a request are those of its place (TokensInv);         *)
(*   - the admission count, the pool and the registry (WBooksInv).         *)
(***************************************************************************)
EXTENDS DisaggWall, DisaggProofs

Working == {"prefill", "transfer", "decode"}
InHand  == {"popped", "gap", "taken"}

\* Where a chain is inside its callback, and when it has a request in hand.
StageAt(c) ==
  /\ stage[c] # "out" => pc[c] \in {"prefillStep", "decodeStep"}
  /\ stage[c] \in {"popped", "gap"} => pc[c] = "prefillStep"
  /\ stage[c] = "taken" => pc[c] = "decodeStep"
  /\ job[c] # NoRequest <=> pc[c] \in Working \/ stage[c] \in InHand

StopCall == [phase : {"none", "requested", "stopping"},
             left : Seq(Worker), tested : Worker \cup {NoWorker}]

WallOK ==
  /\ stage \in [Chain -> Stage]
  /\ robbed \subseteq Request
  /\ stopper \in [Caller -> StopCall]
  /\ resizer \in [worker : Worker \cup {NoWorker}, to : RoleOrNone]
  /\ renewing \subseteq Worker
  /\ panicked \in BOOLEAN /\ raced \in BOOLEAN

\* What the calls under way rely on: the flip that was entered is still to be counted,
\* the worker that a Stop tested is the next one on its list, and a drain that passed its
\* stop test is still to be done.
CallsOK ==
  /\ resizer.worker # NoWorker => flips < MaxFlips /\ resizer.to \in Roles
  /\ \A s \in Caller :
       /\ stopper[s].tested # NoWorker => stopper[s].left # <<>> /\ stopper[s].phase = "stopping"
       /\ stopper[s].phase # "none" => stopped
  /\ \A w \in renewing : drain[w] # "none"

BeforeStart ==
  ~started => /\ arrived = 0 /\ ~stopped /\ flips = 0
              /\ \A c \in Chain : pc[c] = "unborn"
              /\ \A w \in Worker : drain[w] = "none"
              /\ resizer.worker = NoWorker

WTypeInv ==
  /\ TypeOK /\ WallOK /\ CallsOK
  /\ \A c \in Chain : StageAt(c)
  /\ EpochsPaid /\ EpochsBorn /\ ArrivalsBounded /\ BeforeStart

-----------------------------------------------------------------------------
(* Types *)

LEMMA WTypeInit == WInit => WTypeInv
<1> SUFFICES ASSUME WInit PROVE WTypeInv
  OBVIOUS
<1>1. Init /\ TypeInv
  BY TypeInit DEF WInit
<1>2. WallOK
  <2>1. <<>> \in Seq(Worker)
    OBVIOUS
  <2>2. QED BY <2>1 DEF WInit, WallOK, StopCall, Stage, RoleOrNone
<1>3. CallsOK /\ BeforeStart
  BY <1>1 DEF WInit, Init, CallsOK, BeforeStart
<1>4. \A c \in Chain : StageAt(c)
  BY <1>1 DEF WInit, Init, StageAt, Working, InHand
<1>5. QED BY <1>1, <1>2, <1>3, <1>4 DEF TypeInv, WTypeInv

\* A step that leaves a group of variables alone.
LEMMA WallSame ==
  ASSUME WallOK, CallsOK, UNCHANGED <<callVars, flips, drain>>,
         stage' \in [Chain -> Stage], robbed' \subseteq Request, stopped => stopped'
  PROVE  WallOK' /\ CallsOK'
<1>1. WallOK'
  BY DEF WallOK, callVars
<1>2. CallsOK'
  BY DEF CallsOK, callVars
<1>3. QED BY <1>1, <1>2

LEMMA StagesKept ==
  ASSUME \A c \in Chain : StageAt(c), UNCHANGED <<pc, job, stage>>
  PROVE  \A c \in Chain : StageAt(c)'
BY DEF StageAt

\* A chain that moves is born, and only its own stage is new.
LEMMA WChainFrame ==
  ASSUME WTypeInv, NEW c \in Chain, pc[c] # "unborn",
         \A d \in Chain \ {c} : pc'[d] = pc[d] /\ job'[d] = job[d] /\ stage'[d] = stage[d],
         UNCHANGED <<started, stopped, loadVars, poolVars, callVars>>,
         FateOK', WorkOK', ChainsOK',
         stage' \in [Chain -> Stage], robbed' \subseteq Request, StageAt(c)'
  PROVE  WTypeInv'
<1>1. LoadOK' /\ PoolsOK'
  BY SameTypes DEF WTypeInv, TypeOK
<1>2. EpochsPaid' /\ ArrivalsBounded'
  BY DEF WTypeInv, EpochsPaid, ArrivalsBounded, loadVars, poolVars
<1>3. started /\ started' = started
  BY DEF WTypeInv, BeforeStart
<1>4. EpochsBorn'
  BY DEF WTypeInv, EpochsBorn, poolVars
<1>5. WallOK' /\ CallsOK'
  <2>1. UNCHANGED <<callVars, flips, drain>>
    BY DEF poolVars
  <2>2. QED BY <2>1, WallSame DEF WTypeInv
<1>6. ASSUME NEW d \in Chain PROVE StageAt(d)'
  <2>1. CASE d = c
    BY <2>1
  <2>2. CASE d # c
    BY <2>2 DEF WTypeInv, StageAt
  <2>3. QED BY <2>1, <2>2
<1>7. TypeOK'
  BY <1>1 DEF WTypeInv, TypeOK
<1>8. BeforeStart'
  BY <1>3 DEF BeforeStart
<1>9. QED BY <1>2, <1>4, <1>5, <1>6, <1>7, <1>8 DEF WTypeInv

\* A step inside a callback of a chain that changes only its stage.
LEMMA OnlyStage ==
  ASSUME WTypeInv, NEW c \in Chain, NEW s \in Stage \ InHand,
         stage' = [stage EXCEPT ![c] = s], UNCHANGED <<vars, robbed, callVars>>,
         stage[c] \notin InHand, pc[c] \in {"prefillStep", "decodeStep"}
  PROVE  WTypeInv'
<1>1. stage \in [Chain -> Stage] /\ robbed \subseteq Request
  BY DEF WTypeInv, WallOK
<1>2. /\ UNCHANGED <<started, stopped, loadVars, poolVars, fateVars, workVars, state, pc>>
      /\ UNCHANGED job /\ UNCHANGED callVars
  BY DEF vars, workVars
<1>3. FateOK' /\ WorkOK' /\ ChainsOK'
  BY <1>2, SameTypes DEF WTypeInv, TypeOK, ChainsOK
<1>4. StageAt(c)'
  BY <1>1, <1>2 DEF WTypeInv, StageAt, InHand, Working
<1>5. /\ pc[c] # "unborn" /\ stage' \in [Chain -> Stage] /\ robbed' \subseteq Request
      /\ \A d \in Chain \ {c} : pc'[d] = pc[d] /\ job'[d] = job[d] /\ stage'[d] = stage[d]
  BY <1>1, <1>2
<1>6. UNCHANGED <<started, stopped, loadVars, poolVars, callVars>>
  BY <1>2
<1>7. QED BY <1>3, <1>4, <1>5, <1>6, WChainFrame

\* The steps inside a callback that move no request.
Looks(c) == Test(c) \/ Miss(c) \/ Look(c) \/ (WRetire(c) /\ pc' = pc)

LEMMA WTypeLooks == \A c \in Chain : WTypeInv /\ Looks(c) /\ UNCHANGED callVars => WTypeInv'
<1> SUFFICES ASSUME WTypeInv, NEW c \in Chain, Looks(c), UNCHANGED callVars PROVE WTypeInv'
  OBVIOUS
<1>1. StageAt(c) /\ pc \in [Chain -> PC]
  BY DEF WTypeInv, TypeOK, ChainsOK
<1>2. /\ pc[c] \in {"prefillStep", "decodeStep"} /\ stage[c] \in {"out", "tested", "missed", "idle"}
      /\ \E s \in {"out", "tested", "missed", "idle"} : Goes(c, s)
      /\ UNCHANGED vars /\ UNCHANGED robbed
  <2>1. CASE Test(c)
    BY <2>1 DEF Test
  <2>2. CASE Miss(c)
    BY <1>1, <2>2 DEF Miss, StageAt
  <2>3. CASE Look(c)
    BY <1>1, <2>3 DEF Look, Polls, StageAt
  <2>4. CASE WRetire(c) /\ pc' = pc
    <3>1. stage[c] = "idle" /\ pc[c] \in {"prefillStep", "decodeStep"}
      BY <1>1, <2>4 DEF WRetire, StageAt
    <3>2. BothEmpty => pc'[c] = "retired"
      BY <1>1, <2>4 DEF WRetire
    <3>3. QED BY <2>4, <3>1, <3>2 DEF WRetire, Polls
  <2>5. QED BY <2>1, <2>2, <2>3, <2>4 DEF Looks
<1>3. PICK s \in {"out", "tested", "missed", "idle"} : stage' = [stage EXCEPT ![c] = s]
  BY <1>2 DEF Goes
<1>4. s \in Stage \ InHand /\ stage[c] \notin InHand
  BY <1>2 DEF Stage, InHand
<1>5. UNCHANGED <<vars, robbed, callVars>>
  BY <1>2
<1>6. QED BY <1>2, <1>3, <1>4, <1>5, OnlyStage

\* A chain ends with nothing in hand.
LEMMA WTypeEnds ==
  ASSUME WTypeInv, NEW c \in Chain, UNCHANGED callVars,
         \/ WExit(c)
         \/ WRetire(c) /\ BothEmpty
  PROVE  WTypeInv'
<1>1. /\ stage' = [stage EXCEPT ![c] = "out"] /\ UNCHANGED robbed
      /\ pc' = [pc EXCEPT ![c] = "exited"] \/ pc' = [pc EXCEPT ![c] = "retired"]
      /\ UNCHANGED <<started, stopped, loadVars, poolVars, fateVars, workVars, state>>
  <2>1. stage[c] = "out" /\ stage' = stage => stage' = [stage EXCEPT ![c] = "out"]
    BY DEF WTypeInv, WallOK
  <2>2. QED BY <2>1 DEF WExit, Exit, WRetire, Goes
<1>2. /\ pc \in [Chain -> PC] /\ stage \in [Chain -> Stage] /\ StageAt(c)
      /\ robbed \subseteq Request
  BY DEF WTypeInv, TypeOK, ChainsOK, WallOK
<1>3. pc[c] \in {"prefillStep", "decodeStep"} /\ stage[c] \in {"out", "idle"}
  BY <1>2 DEF WExit, Exit, WRetire, StageAt
<1>4. FateOK' /\ WorkOK' /\ UNCHANGED job
  BY <1>1, SameTypes DEF WTypeInv, TypeOK, workVars
<1>5. ChainsOK'
  BY <1>1 DEF WTypeInv, TypeOK, ChainsOK, PC, Ended
<1>6. StageAt(c)'
  BY <1>1, <1>2, <1>3, <1>4 DEF StageAt, Working, InHand
<1>7. stage' \in [Chain -> Stage] /\ robbed' \subseteq Request
  BY <1>1, <1>2 DEF Stage
<1>8. \A d \in Chain \ {c} : pc'[d] = pc[d] /\ job'[d] = job[d] /\ stage'[d] = stage[d]
  BY <1>1, <1>2, <1>4
<1>9. QED BY <1>1, <1>3, <1>4, <1>5, <1>6, <1>7, <1>8, WChainFrame

-----------------------------------------------------------------------------
(* Types: the steps that move a request *)

\* What a chain's types say of it.
LEMMA ChainOf ==
  ASSUME WTypeInv, NEW c \in Chain
  PROVE  /\ StageAt(c) /\ LoadOK /\ WorkOK /\ FateOK /\ ChainsOK
         /\ pc \in [Chain -> PC] /\ stage \in [Chain -> Stage]
         /\ job \in [Chain -> Request \cup {NoRequest}]
         /\ robbed \subseteq Request /\ c[1] \in Worker
BY ChainFacts DEF WTypeInv, TypeOK, ChainsOK, WorkOK, WallOK

\* A chain with a request in hand.
LEMMA JobInHand ==
  ASSUME WTypeInv, NEW c \in Chain, pc[c] \in Working \/ stage[c] \in InHand
  PROVE  /\ job[c] \in Request /\ job[c] # NoRequest /\ pc[c] # "unborn"
         /\ generated[job[c]] \in Nat /\ prompt[job[c]] \in Nat
<1>1. job[c] # NoRequest /\ pc[c] # "unborn"
  BY ChainOf DEF StageAt, Working, InHand
<1>2. job[c] \in Request
  BY <1>1, ChainOf
<1>3. QED BY <1>1, <1>2, ChainOf DEF WorkOK, LoadOK

LEMMA WTypePop == \A c \in Chain : WTypeInv /\ Pop(c) /\ UNCHANGED callVars => WTypeInv'
<1> SUFFICES ASSUME WTypeInv, NEW c \in Chain, Pop(c), UNCHANGED callVars PROVE WTypeInv'
  OBVIOUS
<1>1. /\ job' = [job EXCEPT ![c] = Head(queue)] /\ queue' = Tail(queue) /\ queue # <<>>
      /\ state' = [state EXCEPT ![c[1]] = "busy"] /\ stage' = [stage EXCEPT ![c] = "popped"]
      /\ UNCHANGED <<started, stopped, loadVars, poolVars, fateVars, generated,
                     decodeQueue, inflight, pc, robbed>>
      /\ pc[c] = "prefillStep"
  BY DEF Pop, Goes
<1>2. Head(queue) \in Request /\ queue' \in Seq(Request)
  BY <1>1, ChainOf, PopTypes DEF WorkOK
<1>3. FateOK' /\ WorkOK' /\ ChainsOK'
  <2>1. FateOK'
    BY <1>1, ChainOf, SameTypes
  <2>2. WorkOK'
    BY <1>1, <1>2, ChainOf DEF WorkOK
  <2>3. ChainsOK'
    BY <1>1, ChainOf DEF ChainsOK
  <2>4. QED BY <2>1, <2>2, <2>3
<1>4. stage' \in [Chain -> Stage] /\ robbed' \subseteq Request
  BY <1>1, ChainOf DEF Stage
<1>5. StageAt(c)'
  BY <1>1, <1>2, ChainOf, RequestFacts DEF StageAt, InHand, Working
<1>6. \A d \in Chain \ {c} : pc'[d] = pc[d] /\ job'[d] = job[d] /\ stage'[d] = stage[d]
  BY <1>1, ChainOf
<1>7. QED BY <1>1, <1>3, <1>4, <1>5, <1>6, WChainFrame

LEMMA WTypeTake == \A c \in Chain : WTypeInv /\ Take(c) /\ UNCHANGED callVars => WTypeInv'
<1> SUFFICES ASSUME WTypeInv, NEW c \in Chain, Take(c), UNCHANGED callVars PROVE WTypeInv'
  OBVIOUS
<1>1. /\ job' = [job EXCEPT ![c] = Head(decodeQueue)] /\ decodeQueue' = Tail(decodeQueue)
      /\ decodeQueue # <<>>
      /\ state' = [state EXCEPT ![c[1]] = "busy"] /\ stage' = [stage EXCEPT ![c] = "taken"]
      /\ UNCHANGED <<started, stopped, loadVars, poolVars, fateVars, generated,
                     queue, inflight, pc, robbed>>
      /\ pc[c] = "decodeStep"
  BY DEF Take, Goes
<1>2. Head(decodeQueue) \in Request /\ decodeQueue' \in Seq(Request)
  BY <1>1, ChainOf, PopTypes DEF WorkOK
<1>3. FateOK' /\ WorkOK' /\ ChainsOK'
  <2>1. FateOK'
    BY <1>1, ChainOf, SameTypes
  <2>2. WorkOK'
    BY <1>1, <1>2, ChainOf DEF WorkOK
  <2>3. ChainsOK'
    BY <1>1, ChainOf DEF ChainsOK
  <2>4. QED BY <2>1, <2>2, <2>3
<1>4. stage' \in [Chain -> Stage] /\ robbed' \subseteq Request
  BY <1>1, ChainOf DEF Stage
<1>5. StageAt(c)'
  BY <1>1, <1>2, ChainOf, RequestFacts DEF StageAt, InHand, Working
<1>6. \A d \in Chain \ {c} : pc'[d] = pc[d] /\ job'[d] = job[d] /\ stage'[d] = stage[d]
  BY <1>1, ChainOf
<1>7. QED BY <1>1, <1>3, <1>4, <1>5, <1>6, WChainFrame

\* What Allocate has evicted before it granted or failed.
LEMMA SweepTypes ==
  ASSUME WTypeInv, NEW c \in Chain, NEW victims \in SUBSET Unpinned, Swept(job[c], victims)
  PROVE  /\ robbed' \subseteq Request
         /\ kvBlocks \ BlocksOf(victims) \subseteq Request \X Nat
<1>1. Unpinned \subseteq Request
  <2> SUFFICES ASSUME NEW r \in Unpinned PROVE r \in Request
    OBVIOUS
  <2>1. PICK b \in kvBlocks : b[1] = r
    BY DEF Unpinned
  <2>2. QED BY <2>1, ChainOf DEF FateOK
<1>2. QED BY <1>1, ChainOf DEF Swept, FateOK

LEMMA WTypeAdmit == \A c \in Chain : WTypeInv /\ WAdmit(c) /\ UNCHANGED callVars => WTypeInv'
<1> SUFFICES ASSUME WTypeInv, NEW c \in Chain, WAdmit(c), UNCHANGED callVars PROVE WTypeInv'
  OBVIOUS
<1> DEFINE r == job[c]
<1>0. stage[c] = "popped" /\ r \in Request /\ prompt[r] \in Nat /\ pc[c] # "unborn"
  BY JobInHand DEF WAdmit, InHand
<1>1. /\ inflight' = inflight + 1 /\ stage' = [stage EXCEPT ![c] = "gap"]
      /\ UNCHANGED <<started, stopped, loadVars, poolVars, generated, queue, decodeQueue,
                     job, finished, rejected, abandoned, reg, state, pc>>
  BY DEF WAdmit, Goes
<1>2. PICK victims \in SUBSET Unpinned :
        /\ Swept(r, victims)
        /\ kvBlocks' = (kvBlocks \ BlocksOf(victims)) \cup
                         ({r} \X (0 .. BlocksNeeded(prompt[r]) - 1))
  BY DEF WAdmit
<1>3. BlocksNeeded(prompt[r]) \in Nat
  BY <1>0, BlocksNat
<1>4. robbed' \subseteq Request /\ kvBlocks' \subseteq Request \X Nat
  BY <1>0, <1>2, <1>3, SweepTypes
<1>5. FateOK' /\ WorkOK' /\ ChainsOK'
  <2>1. FateOK'
    BY <1>1, <1>4, ChainOf DEF FateOK
  <2>2. WorkOK'
    BY <1>1, ChainOf DEF WorkOK
  <2>3. ChainsOK'
    BY <1>1, ChainOf DEF ChainsOK
  <2>4. QED BY <2>1, <2>2, <2>3
<1>6. stage' \in [Chain -> Stage]
  BY <1>1, ChainOf DEF Stage
<1>7. StageAt(c)'
  BY <1>0, <1>1, ChainOf DEF StageAt, InHand, Working
<1>8. \A d \in Chain \ {c} : pc'[d] = pc[d] /\ job'[d] = job[d] /\ stage'[d] = stage[d]
  BY <1>1, ChainOf
<1>9. QED BY <1>0, <1>1, <1>4, <1>5, <1>6, <1>7, <1>8, WChainFrame

LEMMA WTypeReject == \A c \in Chain : WTypeInv /\ WReject(c) /\ UNCHANGED callVars => WTypeInv'
<1> SUFFICES ASSUME WTypeInv, NEW c \in Chain, WReject(c), UNCHANGED callVars PROVE WTypeInv'
  OBVIOUS
<1> DEFINE r == job[c]
<1>0. stage[c] = "popped" /\ r \in Request /\ prompt[r] \in Nat /\ pc[c] # "unborn"
  BY JobInHand DEF WReject, InHand
<1>1. /\ job' = [job EXCEPT ![c] = NoRequest] /\ state' = [state EXCEPT ![c[1]] = "healthy"]
      /\ stage' = [stage EXCEPT ![c] = "out"]
      /\ reg' = [reg EXCEPT !["rejections"] = @ + 1, !["dropped"] = @ + 1]
      /\ UNCHANGED <<started, stopped, loadVars, poolVars, generated, queue, decodeQueue,
                     inflight, finished, abandoned, pc>>
  BY DEF WReject, Goes
<1>2. PICK victims \in SUBSET Unpinned :
        /\ Swept(r, victims)
        /\ kvBlocks' = kvBlocks \ BlocksOf(victims) /\ rejected' = rejected \cup {r}
  BY DEF WReject
<1>3. robbed' \subseteq Request /\ kvBlocks' \subseteq Request \X Nat
  BY <1>2, SweepTypes
<1>4. reg' \in [Counter -> Nat]
  <2>1. reg \in [Counter -> Nat] /\ "rejections" \in Counter /\ "dropped" \in Counter
    BY ChainOf DEF FateOK, Counter
  <2>2. reg' = [reg EXCEPT !["rejections"] = reg["rejections"] + 1,
                           !["dropped"] = reg["dropped"] + 1]
    BY <1>1
  <2>3. QED BY <2>1, <2>2
<1>5. FateOK' /\ WorkOK' /\ ChainsOK'
  <2>1. FateOK'
    BY <1>0, <1>1, <1>2, <1>3, <1>4, ChainOf DEF FateOK
  <2>2. WorkOK'
    BY <1>1, ChainOf DEF WorkOK
  <2>3. ChainsOK'
    BY <1>1, ChainOf DEF ChainsOK
  <2>4. QED BY <2>1, <2>2, <2>3
<1>6. stage' \in [Chain -> Stage]
  BY <1>1, ChainOf DEF Stage
<1>7. StageAt(c)'
  BY <1>0, <1>1, ChainOf DEF StageAt, InHand, Working
<1>8. \A d \in Chain \ {c} : pc'[d] = pc[d] /\ job'[d] = job[d] /\ stage'[d] = stage[d]
  BY <1>1, ChainOf
<1>9. QED BY <1>0, <1>1, <1>3, <1>5, <1>6, <1>7, <1>8, WChainFrame

\* Acquire, and the callback after prefill.
LEMMA WTypePrefill ==
  \A c \in Chain :
    WTypeInv /\ (Acquire(c) \/ WPrefillDone(c)) /\ UNCHANGED callVars => WTypeInv'
<1> SUFFICES ASSUME WTypeInv, NEW c \in Chain, Acquire(c) \/ WPrefillDone(c), UNCHANGED callVars
             PROVE  WTypeInv'
  OBVIOUS
<1>0. /\ stage[c] = "gap" \/ pc[c] = "prefill"
      /\ job[c] \in Request /\ prompt[job[c]] \in Nat /\ pc[c] # "unborn" /\ job[c] # NoRequest
  BY JobInHand DEF Acquire, WPrefillDone, PrefillDone, InHand, Working
<1>1. /\ UNCHANGED <<started, stopped, loadVars, poolVars, workVars, kvBlocks, finished,
                     rejected, abandoned, state, robbed>>
      /\ \/ pc' = [pc EXCEPT ![c] = "prefill"] /\ stage' = [stage EXCEPT ![c] = "out"]
            /\ reg' = [reg EXCEPT !["prefillTokens"] = @ + prompt[job[c]]]
         \/ pc' = [pc EXCEPT ![c] = "transfer"] /\ stage' = stage /\ reg' = reg
            /\ pc[c] = "prefill"
  BY DEF Acquire, WPrefillDone, PrefillDone, Goes, fateVars
<1>2. reg' \in [Counter -> Nat]
  <2>1. reg \in [Counter -> Nat] /\ "prefillTokens" \in Counter
    BY ChainOf DEF FateOK, Counter
  <2>2. reg["prefillTokens"] + prompt[job[c]] \in Nat
    BY <1>0, <2>1
  <2>3. reg' = reg \/ reg' = [reg EXCEPT !["prefillTokens"] = reg["prefillTokens"] + prompt[job[c]]]
    BY <1>1
  <2>4. QED BY <2>1, <2>2, <2>3
<1>3. FateOK' /\ WorkOK' /\ ChainsOK'
  <2>1. FateOK'
    BY <1>1, <1>2, ChainOf DEF FateOK
  <2>2. WorkOK'
    BY <1>1, ChainOf, SameTypes
  <2>3. ChainsOK'
    BY <1>1, ChainOf DEF ChainsOK, PC
  <2>4. QED BY <2>1, <2>2, <2>3
<1>4. stage' \in [Chain -> Stage] /\ robbed' \subseteq Request /\ job' = job
  BY <1>1, ChainOf DEF Stage, workVars
<1>5. StageAt(c)'
  BY <1>0, <1>1, <1>4, ChainOf DEF StageAt, InHand, Working
<1>6. \A d \in Chain \ {c} : pc'[d] = pc[d] /\ job'[d] = job[d] /\ stage'[d] = stage[d]
  BY <1>1, <1>4, ChainOf
<1>7. QED BY <1>0, <1>1, <1>3, <1>4, <1>5, <1>6, WChainFrame

LEMMA WTypeHandOff == \A c \in Chain : WTypeInv /\ WHandOff(c) /\ UNCHANGED callVars => WTypeInv'
<1> SUFFICES ASSUME WTypeInv, NEW c \in Chain, WHandOff(c), UNCHANGED callVars PROVE WTypeInv'
  OBVIOUS
<1> DEFINE r == job[c]
<1>0. pc[c] = "transfer" /\ r \in Request /\ generated[r] \in Nat /\ pc[c] # "unborn"
  BY JobInHand DEF WHandOff, HandOff, Working
<1>1. /\ generated' = [generated EXCEPT ![r] = generated[r] + 1]
      /\ decodeQueue' = Append(decodeQueue, r) /\ job' = [job EXCEPT ![c] = NoRequest]
      /\ state' = [state EXCEPT ![c[1]] = "healthy"] /\ pc' = [pc EXCEPT ![c] = "prefillStep"]
      /\ UNCHANGED <<started, stopped, loadVars, poolVars, fateVars, queue, inflight,
                     stage, robbed>>
  BY DEF WHandOff, HandOff
<1>2. decodeQueue' \in Seq(Request) /\ generated' \in [Request -> Nat]
  BY <1>0, <1>1, ChainOf, PushTypes DEF WorkOK
<1>3. FateOK' /\ WorkOK' /\ ChainsOK'
  <2>1. FateOK'
    BY <1>1, ChainOf, SameTypes
  <2>2. WorkOK'
    BY <1>1, <1>2, ChainOf DEF WorkOK
  <2>3. ChainsOK'
    BY <1>1, ChainOf DEF ChainsOK, PC
  <2>4. QED BY <2>1, <2>2, <2>3
<1>4. stage' \in [Chain -> Stage] /\ robbed' \subseteq Request
  BY <1>1, ChainOf
<1>5. StageAt(c)'
  BY <1>0, <1>1, ChainOf DEF StageAt, InHand, Working
<1>6. \A d \in Chain \ {c} : pc'[d] = pc[d] /\ job'[d] = job[d] /\ stage'[d] = stage[d]
  BY <1>1, ChainOf
<1>7. QED BY <1>0, <1>1, <1>3, <1>4, <1>5, <1>6, WChainFrame

\* A chain gives its request up: before its first step, or at a later one.
LEMMA WTypeGiveUp ==
  \A c \in Chain :
    WTypeInv /\ (GiveUp(c) \/ (Abandon(c) /\ UNCHANGED <<stage, robbed>>))
      /\ UNCHANGED callVars => WTypeInv'
<1> SUFFICES ASSUME WTypeInv, NEW c \in Chain, UNCHANGED callVars,
                    GiveUp(c) \/ (Abandon(c) /\ UNCHANGED <<stage, robbed>>)
             PROVE  WTypeInv'
  OBVIOUS
<1> DEFINE r == job[c]
<1>0. /\ stage[c] = "taken" \/ pc[c] = "decode"
      /\ r \in Request /\ generated[r] \in Nat /\ pc[c] # "unborn"
  BY JobInHand DEF GiveUp, Abandon, InHand, Working
<1>1. /\ generated' = generated \/ generated' = [generated EXCEPT ![r] = generated[r] + 1]
      /\ inflight' = inflight - 1 /\ abandoned' = abandoned \cup {r}
      /\ job' = [job EXCEPT ![c] = NoRequest] /\ pc' = [pc EXCEPT ![c] = "aborted"]
      /\ UNCHANGED <<started, stopped, loadVars, poolVars, queue, decodeQueue,
                     kvBlocks, finished, rejected, reg, state, robbed>>
      /\ stage' = [stage EXCEPT ![c] = "out"] \/ (stage' = stage /\ pc[c] = "decode")
  BY DEF GiveUp, Abandon, Release, Goes
<1>2. generated' \in [Request -> Nat]
  BY <1>0, <1>1, ChainOf DEF WorkOK
<1>3. FateOK' /\ WorkOK' /\ ChainsOK'
  <2>1. FateOK'
    BY <1>0, <1>1, ChainOf DEF FateOK
  <2>2. WorkOK'
    BY <1>1, <1>2, ChainOf DEF WorkOK
  <2>3. ChainsOK'
    BY <1>1, ChainOf DEF ChainsOK, PC, Ended
  <2>4. QED BY <2>1, <2>2, <2>3
<1>4. stage' \in [Chain -> Stage] /\ robbed' \subseteq Request
  BY <1>1, ChainOf DEF Stage
<1>5. StageAt(c)'
  BY <1>0, <1>1, ChainOf DEF StageAt, InHand, Working
<1>6. \A d \in Chain \ {c} : pc'[d] = pc[d] /\ job'[d] = job[d] /\ stage'[d] = stage[d]
  BY <1>1, ChainOf
<1>7. QED BY <1>0, <1>1, <1>3, <1>4, <1>5, <1>6, WChainFrame

\* A chain finishes its request: at its first step, or with the last token.
Finishes(c) ==
  \/ FirstStep(c) /\ IsFinished(job[c], generated[job[c]])
  \/ Complete(c) /\ UNCHANGED <<stage, robbed>>

LEMMA FinishesDoes ==
  ASSUME WTypeInv, NEW c \in Chain, Finishes(c)
  PROVE  LET r == job[c] IN
           /\ stage[c] = "taken" \/ pc[c] = "decode"
           /\ ~stopped
           /\ r \in Request /\ r # NoRequest /\ pc[c] # "unborn"
           /\ generated' = generated \/ generated' = [generated EXCEPT ![r] = generated[r] + 1]
           /\ generated' \in [Request -> Nat]
           /\ Finish(r) /\ job' = [job EXCEPT ![c] = NoRequest]
           /\ state' = [state EXCEPT ![c[1]] = "healthy"]
           /\ pc' = [pc EXCEPT ![c] = "decodeStep"]
           /\ stage' = [stage EXCEPT ![c] = "out"]
           /\ UNCHANGED <<started, stopped, loadVars, poolVars, queue, decodeQueue,
                          rejected, abandoned, robbed>>
<1> DEFINE r == job[c]
<1>1. /\ stage[c] = "taken" \/ pc[c] = "decode"
      /\ r \in Request /\ generated[r] \in Nat /\ pc[c] # "unborn" /\ r # NoRequest
  BY JobInHand DEF Finishes, FirstStep, Complete, InHand, Working
<1>2. CASE FirstStep(c) /\ IsFinished(r, generated[r])
  <2>1. pc' = pc /\ pc[c] = "decodeStep"
    BY <1>2, ChainOf DEF FirstStep, StageAt
  <2>2. pc' = [pc EXCEPT ![c] = "decodeStep"]
    BY <2>1, ChainOf
  <2>3. generated' = generated /\ generated \in [Request -> Nat]
    BY <1>2, ChainOf DEF FirstStep, WorkOK
  <2>4. QED BY <1>1, <1>2, <2>2, <2>3 DEF FirstStep, Goes
<1>3. CASE Complete(c) /\ UNCHANGED <<stage, robbed>>
  <2>1. stage[c] = "out" /\ stage \in [Chain -> Stage]
    BY <1>3, ChainOf DEF Complete, StageAt
  <2>2. stage' = [stage EXCEPT ![c] = "out"]
    BY <1>3, <2>1
  <2>3. generated' = [generated EXCEPT ![r] = generated[r] + 1]
    BY <1>3 DEF Complete
  <2>4. generated' \in [Request -> Nat]
    BY <1>1, <2>3, ChainOf DEF WorkOK
  <2>5. QED BY <1>1, <1>3, <2>2, <2>3, <2>4 DEF Complete
<1>4. QED BY <1>2, <1>3 DEF Finishes

LEMMA WTypeFinishes == \A c \in Chain : WTypeInv /\ Finishes(c) /\ UNCHANGED callVars => WTypeInv'
<1> SUFFICES ASSUME WTypeInv, NEW c \in Chain, Finishes(c), UNCHANGED callVars PROVE WTypeInv'
  OBVIOUS
<1> DEFINE r == job[c]
<1>1. /\ r \in Request /\ pc[c] # "unborn" /\ generated' \in [Request -> Nat]
      /\ Finish(r) /\ job' = [job EXCEPT ![c] = NoRequest]
      /\ state' = [state EXCEPT ![c[1]] = "healthy"]
      /\ pc' = [pc EXCEPT ![c] = "decodeStep"] /\ stage' = [stage EXCEPT ![c] = "out"]
      /\ UNCHANGED <<started, stopped, loadVars, poolVars, queue, decodeQueue,
                     rejected, abandoned, robbed>>
  BY FinishesDoes
<1>2. FateOK' /\ inflight' \in Int
  <2>1. FateOK /\ inflight \in Int /\ generated'[r] \in Nat
    BY <1>1, ChainOf DEF WorkOK
  <2>2. QED BY <1>1, <2>1, FinishTypes
<1>3. WorkOK'
  BY <1>1, <1>2, ChainOf DEF WorkOK
<1>4. ChainsOK'
  BY <1>1, ChainOf DEF ChainsOK, PC
<1>5. stage' \in [Chain -> Stage] /\ robbed' \subseteq Request
  BY <1>1, ChainOf DEF Stage
<1>6. StageAt(c)'
  BY <1>1, ChainOf DEF StageAt, InHand, Working
<1>7. \A d \in Chain \ {c} : pc'[d] = pc[d] /\ job'[d] = job[d] /\ stage'[d] = stage[d]
  BY <1>1, ChainOf
<1>8. QED BY <1>1, <1>2, <1>3, <1>4, <1>5, <1>6, <1>7, WChainFrame

\* A chain goes on decoding: its first step, or another token.
GoesOn(c) ==
  \/ FirstStep(c) /\ ~IsFinished(job[c], generated[job[c]])
  \/ DecodeToken(c) /\ UNCHANGED <<stage, robbed>>

LEMMA GoesOnDoes ==
  ASSUME WTypeInv, NEW c \in Chain, GoesOn(c)
  PROVE  /\ stage[c] = "taken" \/ pc[c] = "decode"
         /\ ~stopped
         /\ pc[c] # "unborn" /\ pc' = [pc EXCEPT ![c] = "decode"]
         /\ stage' = [stage EXCEPT ![c] = "out"]
         /\ generated' \in [Request -> Nat]
         /\ UNCHANGED <<started, stopped, loadVars, poolVars, fateVars, queue,
                        decodeQueue, job, inflight, state, robbed>>
<1> DEFINE r == job[c]
<1>1. r \in Request /\ generated[r] \in Nat /\ pc[c] # "unborn"
  BY JobInHand DEF GoesOn, FirstStep, DecodeToken, InHand, Working
<1>2. CASE FirstStep(c) /\ ~IsFinished(r, generated[r])
  BY <1>1, <1>2, ChainOf DEF FirstStep, Goes, WorkOK, fateVars
<1>3. CASE DecodeToken(c) /\ UNCHANGED <<stage, robbed>>
  <2>1. stage[c] = "out" /\ stage \in [Chain -> Stage] /\ pc \in [Chain -> PC]
    BY <1>3, ChainOf DEF DecodeToken, StageAt
  <2>2. stage' = [stage EXCEPT ![c] = "out"] /\ pc' = [pc EXCEPT ![c] = "decode"]
    BY <1>3, <2>1 DEF DecodeToken
  <2>3. generated' \in [Request -> Nat]
    BY <1>1, <1>3, ChainOf DEF DecodeToken, WorkOK
  <2>4. QED BY <1>1, <1>3, <2>2, <2>3 DEF DecodeToken
<1>4. QED BY <1>2, <1>3 DEF GoesOn

LEMMA WTypeGoesOn == \A c \in Chain : WTypeInv /\ GoesOn(c) /\ UNCHANGED callVars => WTypeInv'
<1> SUFFICES ASSUME WTypeInv, NEW c \in Chain, GoesOn(c), UNCHANGED callVars PROVE WTypeInv'
  OBVIOUS
<1>1. /\ stage[c] = "taken" \/ pc[c] = "decode"
      /\ pc[c] # "unborn" /\ pc' = [pc EXCEPT ![c] = "decode"]
      /\ stage' = [stage EXCEPT ![c] = "out"]
      /\ generated' \in [Request -> Nat]
      /\ UNCHANGED <<started, stopped, loadVars, poolVars, fateVars, queue,
                     decodeQueue, job, inflight, state, robbed>>
  BY GoesOnDoes
<1>2. FateOK' /\ WorkOK' /\ ChainsOK'
  <2>1. FateOK'
    BY <1>1, ChainOf, SameTypes
  <2>2. WorkOK'
    BY <1>1, ChainOf DEF WorkOK
  <2>3. ChainsOK'
    BY <1>1, ChainOf DEF ChainsOK, PC
  <2>4. QED BY <2>1, <2>2, <2>3
<1>3. stage' \in [Chain -> Stage] /\ robbed' \subseteq Request
  BY <1>1, ChainOf DEF Stage
<1>4. StageAt(c)'
  BY <1>1, ChainOf DEF StageAt, InHand, Working
<1>5. \A d \in Chain \ {c} : pc'[d] = pc[d] /\ job'[d] = job[d] /\ stage'[d] = stage[d]
  BY <1>1, ChainOf
<1>6. QED BY <1>1, <1>2, <1>3, <1>4, <1>5, WChainFrame

\* The steps of a chain, sorted by what they do to a request.
LEMMA WChainSplit ==
  ASSUME NEW c \in Chain, WChainStep(c)
  PROVE  /\ UNCHANGED callVars
         /\ \/ Looks(c) \/ WExit(c) \/ (WRetire(c) /\ BothEmpty)
            \/ Pop(c) \/ WAdmit(c) \/ WReject(c) \/ (Acquire(c) \/ WPrefillDone(c))
            \/ WHandOff(c) \/ Take(c)
            \/ (GiveUp(c) \/ (Abandon(c) /\ UNCHANGED <<stage, robbed>>))
            \/ Finishes(c) \/ GoesOn(c)
<1>1. WRetire(c) => (WRetire(c) /\ BothEmpty) \/ (WRetire(c) /\ pc' = pc)
  BY DEF WRetire, Polls, vars
<1>2. FirstStep(c) => Finishes(c) \/ GoesOn(c)
  BY DEF Finishes, GoesOn
<1>3. WDecode(c) => (Abandon(c) /\ UNCHANGED <<stage, robbed>>) \/ Finishes(c) \/ GoesOn(c)
  BY DEF WDecode, Finishes, GoesOn
<1>4. UNCHANGED callVars
  BY DEF WChainStep
<1>5. \/ Test(c) \/ WExit(c) \/ Miss(c) \/ Look(c) \/ WRetire(c)
      \/ Pop(c) \/ WAdmit(c) \/ WReject(c) \/ Acquire(c)
      \/ WPrefillDone(c) \/ WHandOff(c)
      \/ Take(c) \/ GiveUp(c) \/ FirstStep(c) \/ WDecode(c)
  BY DEF WChainStep
<1>6. QED BY <1>1, <1>2, <1>3, <1>4, <1>5 DEF Looks

LEMMA WTypeChain == \A c \in Chain : WTypeInv /\ WChainStep(c) => WTypeInv'
<1> SUFFICES ASSUME WTypeInv, NEW c \in Chain, WChainStep(c) PROVE WTypeInv'
  OBVIOUS
<1>1. UNCHANGED callVars
  BY WChainSplit
<1>2. CASE Looks(c) \/ WExit(c) \/ (WRetire(c) /\ BothEmpty)
  BY <1>1, <1>2, WTypeLooks, WTypeEnds
<1>3. CASE Pop(c) \/ WAdmit(c) \/ WReject(c) \/ (Acquire(c) \/ WPrefillDone(c)) \/ WHandOff(c)
  BY <1>1, <1>3, WTypePop, WTypeAdmit, WTypeReject, WTypePrefill, WTypeHandOff
<1>4. CASE Take(c) \/ (GiveUp(c) \/ (Abandon(c) /\ UNCHANGED <<stage, robbed>>))
  BY <1>1, <1>4, WTypeTake, WTypeGiveUp
<1>5. CASE Finishes(c) \/ GoesOn(c)
  BY <1>1, <1>5, WTypeFinishes, WTypeGoesOn
<1>6. QED BY <1>2, <1>3, <1>4, <1>5, WChainSplit

-----------------------------------------------------------------------------
(* Types: arrivals and the calls of Stop and ResizePools *)

LEMMA WTypeStart == WTypeInv /\ WStart => WTypeInv'
<1> SUFFICES ASSUME WTypeInv, WStart PROVE WTypeInv'
  OBVIOUS
<1>1. /\ ~started /\ started' = TRUE /\ ArrivalChain(0)
      /\ pc' = [c \in Chain |->
                 IF c[2] # 0 THEN "unborn"
                 ELSE IF c[1] \in ToSet(prefillGPUs) THEN "prefillStep" ELSE "decodeStep"]
      /\ UNCHANGED <<stopped, arrived, prompt, maxOutput, state, poolVars, fateVars, workVars>>
      /\ UNCHANGED wallVars
  BY DEF WStart, Start
<1>2. arrived = 0 /\ ~stopped /\ \A c \in Chain : pc[c] = "unborn"
  BY <1>1 DEF WTypeInv, BeforeStart
<1>3. PoolsOK' /\ FateOK' /\ WorkOK'
  BY <1>1, SameTypes DEF WTypeInv, TypeOK
<1>4. arrivalsDone' \in BOOLEAN /\ (~arrivalsDone' => arrived < MaxRequests)
  BY <1>1, <1>2, ArrivalChainEnds, BoundAssumption
<1>5. LoadOK'
  BY <1>1, <1>4 DEF WTypeInv, TypeOK, LoadOK
<1>6. ChainsOK'
  BY <1>1 DEF WTypeInv, TypeOK, ChainsOK, PC, Ended
<1>7. WallOK' /\ CallsOK'
  <2>1. UNCHANGED <<callVars, flips, drain, stage, robbed, stopped>>
    BY <1>1 DEF wallVars, callVars, poolVars
  <2>2. stage' \in [Chain -> Stage] /\ robbed' \subseteq Request
    BY <2>1 DEF WTypeInv, WallOK
  <2>3. QED BY <2>1, <2>2, WallSame DEF WTypeInv
<1>8. ASSUME NEW c \in Chain PROVE StageAt(c)'
  <2>1. stage[c] = "out" /\ job[c] = NoRequest
    BY <1>2 DEF WTypeInv, WallOK, StageAt, Stage, InHand, Working
  <2>2. stage'[c] = "out" /\ job'[c] = NoRequest
    BY <1>1, <2>1 DEF wallVars, workVars
  <2>3. pc'[c] \notin Working
    BY <1>1 DEF Working
  <2>4. QED BY <2>2, <2>3 DEF StageAt, InHand
<1>9. EpochsPaid' /\ EpochsBorn'
  BY <1>1, BoundAssumption
  DEF WTypeInv, TypeOK, PoolsOK, EpochsPaid, EpochsBorn, poolVars, Chain
<1>10. ArrivalsBounded' /\ BeforeStart'
  BY <1>1, <1>4 DEF ArrivalsBounded, BeforeStart
<1>11. TypeOK'
  BY <1>1, <1>3, <1>5, <1>6 DEF WTypeInv, TypeOK
<1>12. QED BY <1>7, <1>8, <1>9, <1>10, <1>11 DEF WTypeInv

LEMMA WTypeArrive == WTypeInv /\ WArrive => WTypeInv'
<1> SUFFICES ASSUME WTypeInv, WArrive PROVE WTypeInv'
  OBVIOUS
<1>1. /\ Arrive /\ started /\ started' /\ UNCHANGED wallVars
      /\ UNCHANGED <<stopped, job, poolVars, fateVars, state, pc>>
  BY DEF WArrive, Arrive
<1>2. LoadOK' /\ WorkOK' /\ ArrivalsBounded'
  BY <1>1, ArriveTypes DEF WTypeInv, TypeOK
<1>3. PoolsOK' /\ FateOK' /\ ChainsOK'
  BY <1>1, SameTypes DEF WTypeInv, TypeOK, ChainsOK
<1>4. WallOK' /\ CallsOK'
  <2>1. UNCHANGED <<callVars, flips, drain, stage, robbed, stopped>>
    BY <1>1 DEF wallVars, callVars, poolVars
  <2>2. stage' \in [Chain -> Stage] /\ robbed' \subseteq Request
    BY <2>1 DEF WTypeInv, WallOK
  <2>3. QED BY <2>1, <2>2, WallSame DEF WTypeInv
<1>5. \A c \in Chain : StageAt(c)'
  <2>1. UNCHANGED <<pc, job, stage>>
    BY <1>1 DEF wallVars
  <2>2. QED BY <2>1, StagesKept DEF WTypeInv
<1>6. EpochsPaid' /\ EpochsBorn'
  BY <1>1 DEF WTypeInv, EpochsPaid, EpochsBorn, poolVars
<1>7. TypeOK' /\ BeforeStart'
  BY <1>1, <1>2, <1>3 DEF WTypeInv, TypeOK, BeforeStart
<1>8. QED BY <1>2, <1>4, <1>5, <1>6, <1>7 DEF WTypeInv

\* A step of a call or of a drain: the load, the requests and the stages stay.
LEMMA WCallFrame ==
  ASSUME WTypeInv, started,
         UNCHANGED <<started, loadVars, fateVars, workVars, pc, stage, robbed>>,
         stopped' \in BOOLEAN, PoolsOK', ChainsOK', EpochsPaid', WallOK', CallsOK',
         UNCHANGED epoch
  PROVE  WTypeInv'
<1>1. LoadOK' /\ FateOK' /\ WorkOK'
  BY SameTypes DEF WTypeInv, TypeOK
<1>2. \A c \in Chain : StageAt(c)'
  BY StagesKept DEF WTypeInv, workVars
<1>3. EpochsBorn' /\ ArrivalsBounded' /\ BeforeStart'
  BY DEF WTypeInv, EpochsBorn, ArrivalsBounded, BeforeStart, loadVars
<1>4. TypeOK'
  BY <1>1 DEF WTypeInv, TypeOK
<1>5. QED BY <1>2, <1>3, <1>4 DEF WTypeInv

\* Whoever is inside Stop came after Start.
LEMMA CallsStarted ==
  ASSUME WTypeInv
  PROVE  /\ \A s \in Caller : stopper[s].phase # "none" => started
         /\ \A s \in Caller : stopper[s].tested # NoWorker => started
         /\ resizer.worker # NoWorker => started
         /\ \A w \in Worker : drain[w] # "none" => started
         /\ \A w \in renewing : w \in Worker /\ drain[w] # "none" /\ started
BY DEF WTypeInv, CallsOK, BeforeStart, WallOK

\* The calls of Stop.
Stops == \E s \in Caller : StopRequest(s) \/ StopStep(s)

LEMMA WTypeStop == WTypeInv /\ Stops => WTypeInv'
<1> SUFFICES ASSUME WTypeInv, NEW s \in Caller, StopRequest(s) \/ StopStep(s) PROVE WTypeInv'
  BY DEF Stops
<1>0. /\ WallOK /\ CallsOK /\ PoolsOK /\ ChainsOK /\ EpochsPaid /\ stopped \in BOOLEAN
      /\ prefillGPUs \in Seq(Worker) /\ decodeGPUs \in Seq(Worker)
      /\ stopper \in [Caller -> StopCall]
      /\ stopper[s].phase \in {"none", "requested", "stopping"}
      /\ stopper[s].left \in Seq(Worker) /\ stopper[s].tested \in Worker \cup {NoWorker}
  BY DEF WTypeInv, TypeOK, WallOK, PoolsOK, StopCall
<1>1. CASE StopRequest(s)
  <2>1. /\ started /\ stopped' = TRUE /\ stopper' = [stopper EXCEPT ![s].phase = "requested"]
        /\ stopper[s].phase = "none"
        /\ UNCHANGED <<started, loadVars, poolVars, fateVars, workVars, state, pc,
                       stage, robbed, resizer, renewing, panicked, raced>>
    BY <1>1 DEF StopRequest
  <2>2. WallOK' /\ CallsOK'
    BY <1>0, <2>1 DEF WallOK, StopCall, CallsOK, poolVars
  <2>3. PoolsOK' /\ ChainsOK' /\ EpochsPaid' /\ UNCHANGED epoch
    BY <1>0, <2>1, SameTypes DEF ChainsOK, EpochsPaid, poolVars
  <2>4. QED BY <2>1, <2>2, <2>3, WCallFrame
<1>2. CASE StopCopy(s)
  <2>1. /\ stopper[s].phase = "requested"
        /\ stopper' = [stopper EXCEPT ![s] = [phase |-> "stopping", tested |-> NoWorker,
                                              left |-> prefillGPUs \o decodeGPUs]]
        /\ UNCHANGED <<vars, stage, robbed, resizer, renewing, panicked, raced>>
    BY <1>2 DEF StopCopy
  <2>2. prefillGPUs \o decodeGPUs \in Seq(Worker)
    BY <1>0, ConcatProperties
  <2>3. /\ started
        /\ UNCHANGED <<started, stopped, loadVars, poolVars, fateVars, workVars, state, pc>>
    BY <2>1, CallsStarted DEF vars
  <2>4. WallOK' /\ CallsOK'
    BY <1>0, <2>1, <2>2, <2>3 DEF WallOK, StopCall, CallsOK, poolVars
  <2>5. PoolsOK' /\ ChainsOK' /\ EpochsPaid' /\ UNCHANGED epoch
    BY <1>0, <2>3, SameTypes DEF ChainsOK, EpochsPaid, poolVars
  <2>6. QED BY <1>0, <2>1, <2>3, <2>4, <2>5, WCallFrame
<1>3. CASE StopTest(s)
  <2>1. /\ stopper[s].phase = "stopping" /\ stopper[s].left # <<>>
        /\ \/ stopper' = [stopper EXCEPT ![s].left = Tail(stopper[s].left)] /\ stopper[s].tested = NoWorker
           \/ stopper' = [stopper EXCEPT ![s].tested = Head(stopper[s].left)]
        /\ raced' \in BOOLEAN
        /\ UNCHANGED <<vars, stage, robbed, resizer, renewing, panicked>>
    BY <1>0, <1>3 DEF StopTest, WallOK
  <2>2. Head(stopper[s].left) \in Worker /\ Tail(stopper[s].left) \in Seq(Worker)
    BY <1>0, <2>1, PopTypes
  <2>3. /\ started
        /\ UNCHANGED <<started, stopped, loadVars, poolVars, fateVars, workVars, state, pc>>
    BY <2>1, CallsStarted DEF vars
  <2>4. WallOK' /\ CallsOK'
    <3>1. WallOK'
      <4>1. stopper' \in [Caller -> StopCall]
        <5>1. CASE stopper' = [stopper EXCEPT ![s].left = Tail(stopper[s].left)]
          BY <1>0, <2>2, <5>1 DEF StopCall
        <5>2. CASE stopper' = [stopper EXCEPT ![s].tested = Head(stopper[s].left)]
          BY <1>0, <2>2, <5>2 DEF StopCall
        <5>3. QED BY <2>1, <5>1, <5>2
      <4>2. QED BY <1>0, <2>1, <4>1 DEF WallOK
    <3>2. \A t \in Caller \ {s} : stopper'[t] = stopper[t]
      BY <1>0, <2>1
    <3>3. /\ stopper'[s].phase = "stopping"
          /\ stopper'[s].tested # NoWorker => stopper'[s].left # <<>>
      BY <1>0, <2>1 DEF StopCall
    <3>4. /\ stopped' /\ UNCHANGED <<resizer, renewing, flips, drain, stopped>>
      BY <1>0, <2>1, <2>3 DEF CallsOK, poolVars
    <3>5. QED BY <1>0, <3>1, <3>2, <3>3, <3>4 DEF CallsOK
  <2>5. PoolsOK' /\ ChainsOK' /\ EpochsPaid' /\ UNCHANGED epoch
    BY <1>0, <2>3, SameTypes DEF ChainsOK, EpochsPaid, poolVars
  <2>6. QED BY <1>0, <2>1, <2>3, <2>4, <2>5, WCallFrame
<1>4. CASE StopClose(s)
  <2>1. /\ stopper[s].tested # NoWorker /\ panicked' = stop[stopper[s].tested]
        /\ stop' = [stop EXCEPT ![stopper[s].tested] = TRUE]
        /\ stopper' = [stopper EXCEPT ![s].left = Tail(stopper[s].left), ![s].tested = NoWorker]
        /\ UNCHANGED <<started, stopped, loadVars, fateVars, workVars, state, pc, prefillGPUs,
                       decodeGPUs, role, epoch, drain, flips, stage, robbed, resizer,
                       renewing, raced>>
    BY <1>4 DEF StopClose, Closes
  <2>2. /\ stopper[s].tested \in Worker /\ stopper[s].left # <<>> /\ started
        /\ stop \in [Worker -> BOOLEAN]
    BY <1>0, <2>1, CallsStarted DEF CallsOK, PoolsOK
  <2>3. Tail(stopper[s].left) \in Seq(Worker)
    BY <1>0, <2>2, PopTypes
  <2>4. WallOK' /\ CallsOK'
    BY <1>0, <2>1, <2>2, <2>3 DEF WallOK, StopCall, CallsOK
  <2>5. PoolsOK' /\ ChainsOK' /\ EpochsPaid'
    BY <1>0, <2>1, <2>2 DEF PoolsOK, ChainsOK, EpochsPaid
  <2>6. QED BY <1>0, <2>1, <2>2, <2>4, <2>5, WCallFrame
<1>5. QED BY <1>1, <1>2, <1>3, <1>4 DEF StopStep

\* What one iteration of ResizePools does before the close.
LEMMA ResizeTestDoes ==
  ASSUME WTypeInv, ResizeTest
  PROVE  /\ started /\ flips < MaxFlips /\ resizer.worker = NoWorker
         /\ prefillGPUs' \in Seq(Worker) /\ decodeGPUs' \in Seq(Worker)
         /\ \E w \in Worker, to \in Roles :
              /\ FlipTest(w, to)
              /\ raced' = (raced \/ InHandOf(resizer'.worker, NoCaller))
         /\ UNCHANGED <<started, stopped, loadVars, fateVars, workVars, state, pc, role, stop,
                        epoch, drain, stage, robbed, stopper, renewing, panicked>>
<1>1. prefillGPUs \in Seq(Worker) /\ decodeGPUs \in Seq(Worker)
  BY DEF WTypeInv, TypeOK, PoolsOK
<1>2. /\ \/ /\ MayResize(decodeGPUs, MinDecodeGPUs)
            /\ FlipTest(Last(decodeGPUs), "prefill")
            /\ decodeGPUs' = Front(decodeGPUs)
            /\ prefillGPUs' = Append(prefillGPUs, Last(decodeGPUs))
         \/ /\ MayResize(prefillGPUs, MinPrefillGPUs)
            /\ FlipTest(Last(prefillGPUs), "decode")
            /\ prefillGPUs' = Front(prefillGPUs)
            /\ decodeGPUs' = Append(decodeGPUs, Last(prefillGPUs))
      /\ raced' = (raced \/ InHandOf(resizer'.worker, NoCaller))
      /\ UNCHANGED <<started, stopped, loadVars, fateVars, workVars, state, pc, role, stop,
                     epoch, drain, stage, robbed, stopper, renewing, panicked>>
  BY DEF ResizeTest
<1>3. started /\ flips < MaxFlips /\ resizer.worker = NoWorker
  BY <1>2 DEF MayResize, CallerFlips
<1>4. CASE /\ MayResize(decodeGPUs, MinDecodeGPUs)
           /\ FlipTest(Last(decodeGPUs), "prefill")
           /\ decodeGPUs' = Front(decodeGPUs)
           /\ prefillGPUs' = Append(prefillGPUs, Last(decodeGPUs))
  <2>1. Len(decodeGPUs) > 0
    BY <1>1, <1>4, LenProperties, CallerAssumption DEF MayResize
  <2>2. Last(decodeGPUs) \in Worker /\ Front(decodeGPUs) \in Seq(Worker)
    BY <1>1, <2>1, LastTypes
  <2>3. Append(prefillGPUs, Last(decodeGPUs)) \in Seq(Worker)
    BY <1>1, <2>2, PushTypes
  <2>4. QED BY <1>2, <1>3, <1>4, <2>2, <2>3 DEF Roles
<1>5. CASE /\ MayResize(prefillGPUs, MinPrefillGPUs)
           /\ FlipTest(Last(prefillGPUs), "decode")
           /\ prefillGPUs' = Front(prefillGPUs)
           /\ decodeGPUs' = Append(decodeGPUs, Last(prefillGPUs))
  <2>1. Len(prefillGPUs) > 0
    BY <1>1, <1>5, LenProperties, CallerAssumption DEF MayResize
  <2>2. Last(prefillGPUs) \in Worker /\ Front(prefillGPUs) \in Seq(Worker)
    BY <1>1, <2>1, LastTypes
  <2>3. Append(decodeGPUs, Last(prefillGPUs)) \in Seq(Worker)
    BY <1>1, <2>2, PushTypes
  <2>4. QED BY <1>2, <1>3, <1>5, <2>2, <2>3 DEF Roles
<1>6. QED BY <1>2, <1>4, <1>5

LEMMA WTypeResize == WTypeInv /\ (ResizeTest \/ ResizeClose) => WTypeInv'
<1> SUFFICES ASSUME WTypeInv, ResizeTest \/ ResizeClose PROVE WTypeInv'
  OBVIOUS
<1>0. /\ WallOK /\ CallsOK /\ PoolsOK /\ ChainsOK /\ EpochsPaid /\ stopped \in BOOLEAN
      /\ resizer \in [worker : Worker \cup {NoWorker}, to : RoleOrNone]
      /\ flips \in 0 .. MaxFlips /\ epoch \in [Worker -> 0 .. MaxFlips]
  BY DEF WTypeInv, TypeOK, WallOK, PoolsOK
<1>1. CASE ResizeTest
  <2>1. /\ started /\ flips < MaxFlips /\ resizer.worker = NoWorker
        /\ prefillGPUs' \in Seq(Worker) /\ decodeGPUs' \in Seq(Worker)
        /\ UNCHANGED <<started, stopped, loadVars, fateVars, workVars, state, pc, role, stop,
                       epoch, drain, stage, robbed, stopper, renewing, panicked>>
    BY <1>1, ResizeTestDoes
  <2>2. PICK w \in Worker, to \in Roles :
          /\ FlipTest(w, to)
          /\ raced' = (raced \/ InHandOf(resizer'.worker, NoCaller))
    BY <1>1, ResizeTestDoes
  <2>3. \/ resizer' = resizer /\ flips' = flips + 1
        \/ resizer' = [worker |-> w, to |-> to] /\ flips' = flips
    BY <2>2 DEF FlipTest
  <2>4. WallOK' /\ CallsOK'
    BY <1>0, <2>1, <2>2, <2>3 DEF WallOK, CallsOK, RoleOrNone
  <2>5. flips' \in 0 .. MaxFlips /\ flips <= flips'
    BY <1>0, <2>1, <2>3, BoundAssumption
  <2>6. PoolsOK' /\ ChainsOK' /\ EpochsPaid'
    BY <1>0, <2>1, <2>5, BoundAssumption DEF PoolsOK, ChainsOK, EpochsPaid
  <2>7. QED BY <1>0, <2>1, <2>4, <2>6, WCallFrame
<1>2. CASE ResizeClose
  <2> DEFINE w == resizer.worker
  <2>1. /\ w # NoWorker /\ panicked' = stop[w]
        /\ state' = [state EXCEPT ![w] = "draining"] /\ stop' = [stop EXCEPT ![w] = TRUE]
        /\ role' = [role EXCEPT ![w] = resizer.to] /\ drain' = [drain EXCEPT ![w] = resizer.to]
        /\ flips' = flips + 1 /\ resizer' = [worker |-> NoWorker, to |-> "none"]
        /\ UNCHANGED <<started, stopped, loadVars, fateVars, workVars, pc, prefillGPUs,
                       decodeGPUs, epoch, stage, robbed, stopper, renewing, raced>>
    BY <1>2 DEF ResizeClose, Closes
  <2>2. w \in Worker /\ flips < MaxFlips /\ resizer.to \in Roles /\ started
    BY <1>0, <2>1, CallsStarted DEF CallsOK
  <2>3. flips' \in 0 .. MaxFlips
    BY <1>0, <2>1, <2>2, BoundAssumption
  <2>4. WallOK' /\ CallsOK'
    BY <1>0, <2>1, <2>2 DEF WallOK, CallsOK, PoolsOK, RoleOrNone, Roles
  <2>5. PoolsOK' /\ ChainsOK'
    BY <1>0, <2>1, <2>2, <2>3 DEF PoolsOK, ChainsOK, RoleOrNone
  <2>6. EpochsPaid'
    BY <1>0, <2>1, <2>2, BoundAssumption DEF PoolsOK, EpochsPaid
  <2>7. QED BY <1>0, <2>1, <2>2, <2>4, <2>5, <2>6, WCallFrame
<1>3. QED BY <1>1, <1>2

\* A drain that finds the engine stopped, or that has passed its stop test.
LEMMA WTypeDrainFails == \A w \in Worker : WTypeInv /\ DrainFails(w) => WTypeInv'
<1> SUFFICES ASSUME WTypeInv, NEW w \in Worker, DrainFails(w) PROVE WTypeInv'
  OBVIOUS
<1>0. /\ WallOK /\ CallsOK /\ PoolsOK /\ ChainsOK /\ EpochsPaid /\ stopped \in BOOLEAN
      /\ epoch \in [Worker -> 0 .. MaxFlips] /\ flips \in 0 .. MaxFlips
  BY DEF WTypeInv, TypeOK, PoolsOK
<1>1. /\ drain[w] # "none" /\ w \notin renewing
      /\ drain' = [drain EXCEPT ![w] = "none"] /\ state' = [state EXCEPT ![w] = "failed"]
      /\ UNCHANGED <<stop, epoch, pc, started, stopped, loadVars, fateVars, workVars,
                     prefillGPUs, decodeGPUs, role, flips>>
      /\ UNCHANGED <<stage, robbed, stopper, resizer, renewing, panicked, raced>>
  BY DEF DrainFails, DrainDone, wallVars
<1>2. started
  BY <1>1, CallsStarted
<1>3. WallOK' /\ CallsOK'
  BY <1>0, <1>1 DEF WallOK, CallsOK, PoolsOK
<1>4. PoolsOK' /\ ChainsOK'
  BY <1>0, <1>1 DEF PoolsOK, ChainsOK, RoleOrNone
<1>5. EpochsPaid'
  BY <1>0, <1>1, BoundAssumption DEF PoolsOK, EpochsPaid
<1>6. QED BY <1>0, <1>1, <1>2, <1>3, <1>4, <1>5, WCallFrame

LEMMA WTypeDrainTest == \A w \in Worker : WTypeInv /\ DrainTest(w) => WTypeInv'
<1> SUFFICES ASSUME WTypeInv, NEW w \in Worker, DrainTest(w) PROVE WTypeInv'
  OBVIOUS
<1>0. /\ WallOK /\ CallsOK /\ PoolsOK /\ ChainsOK /\ EpochsPaid /\ stopped \in BOOLEAN
  BY DEF WTypeInv, TypeOK, PoolsOK
<1>1. /\ drain[w] # "none" /\ renewing' = renewing \cup {w}
      /\ UNCHANGED <<started, stopped, loadVars, poolVars, fateVars, workVars, state, pc>>
      /\ UNCHANGED <<stage, robbed, stopper, resizer, panicked, raced>>
  BY DEF DrainTest, vars
<1>2. started
  BY <1>1, CallsStarted
<1>3. WallOK' /\ CallsOK'
  BY <1>0, <1>1 DEF WallOK, CallsOK, poolVars
<1>4. PoolsOK' /\ ChainsOK' /\ EpochsPaid' /\ UNCHANGED epoch
  BY <1>0, <1>1, SameTypes DEF ChainsOK, EpochsPaid, poolVars
<1>5. QED BY <1>0, <1>1, <1>2, <1>3, <1>4, WCallFrame

\* A fresh channel is a fresh chain, which nobody was yet.
LEMMA RenewsDoes ==
  ASSUME WTypeInv, NEW w \in Worker, DrainRenews(w)
  PROVE  LET n == <<w, epoch[w] + 1>> IN
           /\ n \in Chain /\ n[1] = w /\ n[2] = epoch[w] + 1
           /\ pc[n] = "unborn" /\ job[n] = NoRequest /\ stage[n] = "out"
           /\ epoch[w] + 1 \in 0 .. MaxFlips /\ epoch[w] + 1 <= flips
           /\ drain[w] # "none" /\ w \in renewing /\ started
           /\ renewing' = renewing \ {w} /\ drain' = [drain EXCEPT ![w] = "none"]
           /\ state' = [state EXCEPT ![w] = "healthy"] /\ stop' = [stop EXCEPT ![w] = FALSE]
           /\ epoch' = [epoch EXCEPT ![w] = epoch[w] + 1]
           /\ \E p \in {"prefillStep", "decodeStep"} : pc' = [pc EXCEPT ![n] = p]
           /\ UNCHANGED <<started, stopped, loadVars, fateVars, workVars, prefillGPUs, decodeGPUs,
                          role, flips, stage, robbed, stopper, resizer, panicked, raced>>
<1> DEFINE n == <<w, epoch[w] + 1>>
<1>0. /\ epoch \in [Worker -> 0 .. MaxFlips] /\ flips \in 0 .. MaxFlips /\ EpochsPaid
      /\ EpochsBorn
  BY DEF WTypeInv, TypeOK, PoolsOK
<1>1. w \in renewing /\ drain[w] # "none" /\ started
  BY CallsStarted DEF DrainRenews
<1>2. epoch[w] \in Nat /\ epoch[w] + 1 <= flips /\ epoch[w] + 1 \in 0 .. MaxFlips
  BY <1>0, <1>1, BoundAssumption DEF EpochsPaid
<1>3. n \in Chain /\ n[1] = w /\ n[2] = epoch[w] + 1
  BY <1>2 DEF Chain
<1>4. pc[n] = "unborn"
  BY <1>0, <1>2, <1>3 DEF EpochsBorn
<1>5. job[n] = NoRequest /\ stage[n] = "out"
  <2>1. StageAt(n) /\ stage[n] \in Stage
    BY <1>3, ChainOf
  <2>2. QED BY <1>4, <2>1 DEF StageAt, InHand, Working, Stage
<1>6. /\ epoch' = [epoch EXCEPT ![w] = epoch[w] + 1]
      /\ renewing' = renewing \ {w} /\ drain' = [drain EXCEPT ![w] = "none"]
      /\ state' = [state EXCEPT ![w] = "healthy"] /\ stop' = [stop EXCEPT ![w] = FALSE]
      /\ pc' = [pc EXCEPT ![<<w, epoch'[w]>>] =
                  IF drain[w] = "prefill" THEN "prefillStep" ELSE "decodeStep"]
      /\ UNCHANGED <<started, stopped, loadVars, fateVars, workVars, prefillGPUs, decodeGPUs,
                     role, flips, stage, robbed, stopper, resizer, panicked, raced>>
  BY DEF DrainRenews
<1>7. epoch'[w] = epoch[w] + 1
  BY <1>0, <1>6
<1>8. \E p \in {"prefillStep", "decodeStep"} : pc' = [pc EXCEPT ![n] = p]
  BY <1>6, <1>7
<1>9. QED BY <1>1, <1>2, <1>3, <1>4, <1>5, <1>6, <1>8

LEMMA WTypeDrainRenews == \A w \in Worker : WTypeInv /\ DrainRenews(w) => WTypeInv'
<1> SUFFICES ASSUME WTypeInv, NEW w \in Worker, DrainRenews(w) PROVE WTypeInv'
  OBVIOUS
<1> DEFINE n == <<w, epoch[w] + 1>>
<1>0. /\ WallOK /\ CallsOK /\ PoolsOK /\ ChainsOK /\ EpochsPaid /\ EpochsBorn
      /\ epoch \in [Worker -> 0 .. MaxFlips] /\ flips \in 0 .. MaxFlips
      /\ drain \in [Worker -> RoleOrNone] /\ stop \in [Worker -> BOOLEAN]
      /\ pc \in [Chain -> PC]
  BY DEF WTypeInv, TypeOK, PoolsOK, ChainsOK
<1>1. /\ n \in Chain /\ n[1] = w /\ n[2] = epoch[w] + 1
      /\ job[n] = NoRequest /\ stage[n] = "out"
      /\ epoch[w] + 1 \in 0 .. MaxFlips /\ epoch[w] + 1 <= flips
      /\ w \in renewing /\ started
      /\ renewing' = renewing \ {w} /\ drain' = [drain EXCEPT ![w] = "none"]
      /\ state' = [state EXCEPT ![w] = "healthy"] /\ stop' = [stop EXCEPT ![w] = FALSE]
      /\ epoch' = [epoch EXCEPT ![w] = epoch[w] + 1]
      /\ UNCHANGED <<started, stopped, loadVars, fateVars, workVars, prefillGPUs, decodeGPUs,
                     role, flips, stage, robbed, stopper, resizer, panicked, raced>>
  BY RenewsDoes
<1>2. PICK p \in {"prefillStep", "decodeStep"} : pc' = [pc EXCEPT ![n] = p]
  BY RenewsDoes
<1> HIDE DEF n
<1>3. LoadOK' /\ FateOK' /\ WorkOK'
  BY <1>1, SameTypes DEF WTypeInv, TypeOK
<1>4. PoolsOK'
  BY <1>0, <1>1 DEF PoolsOK, RoleOrNone
<1>5. ChainsOK'
  BY <1>0, <1>1, <1>2 DEF ChainsOK, PC
<1>6. EpochsPaid'
  BY <1>0, <1>1, BoundAssumption DEF EpochsPaid
<1>7. EpochsBorn'
  <2> SUFFICES ASSUME NEW d \in Chain, pc'[d] # "unborn" PROVE d[2] <= epoch'[d[1]]
    BY DEF EpochsBorn
  <2>1. d[1] \in Worker /\ d[2] \in Nat /\ epoch[d[1]] \in Nat /\ epoch[w] \in Nat
    BY <1>0, BoundAssumption DEF Chain
  <2>2. CASE d = n
    BY <1>0, <1>1, <2>1, <2>2
  <2>3. CASE d # n
    BY <1>0, <1>1, <1>2, <2>1, <2>3 DEF EpochsBorn
  <2>4. QED BY <2>2, <2>3
<1>8. WallOK' /\ CallsOK'
  BY <1>0, <1>1 DEF WallOK, CallsOK
<1>9. ASSUME NEW d \in Chain PROVE StageAt(d)'
  <2>1. CASE d = n
    <3>1. stage'[d] = "out" /\ job'[d] = NoRequest /\ pc'[d] = p
      BY <1>0, <1>1, <1>2, <2>1 DEF workVars
    <3>2. QED BY <3>1 DEF StageAt, InHand, Working
  <2>2. CASE d # n
    BY <1>0, <1>1, <1>2, <2>2 DEF WTypeInv, StageAt, workVars
  <2>3. QED BY <2>1, <2>2
<1>10. ArrivalsBounded' /\ BeforeStart'
  BY <1>1 DEF WTypeInv, ArrivalsBounded, BeforeStart, loadVars
<1>11. TypeOK'
  BY <1>1, <1>3, <1>4, <1>5 DEF WTypeInv, TypeOK
<1>12. QED BY <1>6, <1>7, <1>8, <1>9, <1>10, <1>11 DEF WTypeInv

LEMMA WTypeStutter == WTypeInv /\ UNCHANGED wVars => WTypeInv'
<1> SUFFICES ASSUME WTypeInv, UNCHANGED wVars PROVE WTypeInv'
  OBVIOUS
<1>1. /\ UNCHANGED <<started, stopped, loadVars, poolVars, fateVars, workVars, state, pc>>
      /\ UNCHANGED <<stage, robbed, callVars>>
  BY DEF wVars, vars, wallVars, callVars
<1>2. TypeOK'
  BY <1>1, SameTypes DEF WTypeInv, TypeOK, ChainsOK
<1>3. WallOK' /\ CallsOK'
  <2>1. UNCHANGED <<callVars, flips, drain>> /\ stage' \in [Chain -> Stage] /\ robbed' \subseteq Request
    BY <1>1 DEF WTypeInv, WallOK, poolVars
  <2>2. QED BY <1>1, <2>1, WallSame DEF WTypeInv
<1>4. \A c \in Chain : StageAt(c)'
  BY <1>1, StagesKept DEF WTypeInv, workVars
<1>5. EpochsPaid' /\ EpochsBorn' /\ ArrivalsBounded' /\ BeforeStart'
  BY <1>1
  DEF WTypeInv, EpochsPaid, EpochsBorn, ArrivalsBounded, BeforeStart, loadVars, poolVars, callVars
<1>6. QED BY <1>2, <1>3, <1>4, <1>5 DEF WTypeInv

\* The steps of the calls and of the drains.
CallStep ==
  \/ Stops \/ ResizeTest \/ ResizeClose
  \/ \E w \in Worker : DrainFails(w) \/ DrainTest(w) \/ DrainRenews(w)

\* Next, sorted by who moves.
LEMMA WNextSplit ==
  [WNext]_wVars =>
    \/ WStart \/ WArrive \/ CallStep \/ UNCHANGED wVars
    \/ \E c \in Chain : WChainStep(c)
BY DEF WNext, CallStep, Stops

LEMMA WTypeStep == WTypeInv /\ [WNext]_wVars => WTypeInv'
<1> SUFFICES ASSUME WTypeInv, [WNext]_wVars PROVE WTypeInv'
  OBVIOUS
<1>1. CASE CallStep
  BY <1>1, WTypeStop, WTypeResize, WTypeDrainFails, WTypeDrainTest, WTypeDrainRenews DEF CallStep
<1>2. ASSUME NEW c \in Chain, WChainStep(c) PROVE WTypeInv'
  BY <1>2, WTypeChain
<1>3. QED BY <1>1, <1>2, WTypeStart, WTypeArrive, WTypeStutter, WNextSplit

-----------------------------------------------------------------------------
(* Each request is in one place *)

\* The steps of a chain that move no request.
Stays(c) ==
  Looks(c) \/ WExit(c) \/ (WRetire(c) /\ BothEmpty) \/ WAdmit(c) \/ Acquire(c) \/ WPrefillDone(c)
    \/ GoesOn(c)

LEMMA StaysDoes ==
  ASSUME NEW c \in Chain, Stays(c)
  PROVE  UNCHANGED <<arrivalsDone, arrived, queue, decodeQueue, job, finished, rejected, abandoned>>
<1>1. CASE Looks(c)
  BY <1>1
  DEF Looks, Test, Miss, Look, Polls, WRetire, vars, loadVars, fateVars, workVars
<1>2. CASE WExit(c) \/ (WRetire(c) /\ BothEmpty)
  BY <1>2 DEF WExit, Exit, WRetire, loadVars, fateVars, workVars
<1>3. CASE WAdmit(c) \/ Acquire(c)
  BY <1>3 DEF WAdmit, Acquire, loadVars, workVars
<1>4. CASE WPrefillDone(c)
  BY <1>4 DEF WPrefillDone, PrefillDone, loadVars, fateVars, workVars
<1>5. CASE GoesOn(c)
  <2>1. FirstStep(c) /\ ~IsFinished(job[c], generated[job[c]]) =>
          UNCHANGED <<arrivalsDone, arrived, queue, decodeQueue, job, finished, rejected, abandoned>>
    BY DEF FirstStep, loadVars
  <2>2. DecodeToken(c) =>
          UNCHANGED <<arrivalsDone, arrived, queue, decodeQueue, job, finished, rejected, abandoned>>
    BY DEF DecodeToken, loadVars, fateVars
  <2>3. QED BY <1>5, <2>1, <2>2 DEF GoesOn
<1>6. QED BY <1>1, <1>2, <1>3, <1>4, <1>5 DEF Stays

\* The steps of the calls and of the drains move none either.
LEMMA CallsDo ==
  ASSUME CallStep \/ WStart \/ UNCHANGED wVars
  PROVE  UNCHANGED <<arrived, queue, decodeQueue, job, finished, rejected, abandoned>>
<1>1. CASE WStart \/ UNCHANGED wVars
  BY <1>1 DEF WStart, Start, wVars, vars, loadVars, fateVars, workVars
<1>2. CASE Stops
  BY <1>2
  DEF Stops, StopRequest, StopStep, StopCopy, StopTest, StopClose, vars, loadVars, fateVars, workVars
<1>3. CASE ResizeTest \/ ResizeClose
  BY <1>3 DEF ResizeTest, ResizeClose, loadVars, fateVars, workVars
<1>4. ASSUME NEW w \in Worker, DrainFails(w) \/ DrainTest(w) \/ DrainRenews(w)
      PROVE  UNCHANGED <<arrived, queue, decodeQueue, job, finished, rejected, abandoned>>
  BY <1>4 DEF DrainFails, DrainDone, DrainTest, DrainRenews, vars, loadVars, fateVars, workVars
<1>5. QED BY <1>1, <1>2, <1>3, <1>4 DEF CallStep

\* A chain between Pop and Pop has nothing in hand.
LEMMA EmptyHanded ==
  ASSUME WTypeInv, NEW c \in Chain, stage[c] = "tested"
  PROVE  job[c] = NoRequest /\ WorkOK
BY ChainOf DEF StageAt, InHand, Working

LEMMA WOncePop == \A c \in Chain : WTypeInv /\ OnceInv /\ Pop(c) => OnceInv'
<1> SUFFICES ASSUME WTypeInv, OnceInv, NEW c \in Chain, Pop(c) PROVE OnceInv'
  OBVIOUS
<1>1. /\ queue # <<>> /\ queue' = Tail(queue) /\ job' = [job EXCEPT ![c] = Head(queue)]
      /\ UNCHANGED <<arrived, decodeQueue, finished, rejected, abandoned>>
      /\ stage[c] = "tested"
  BY DEF Pop, loadVars, fateVars
<1>2. QED BY <1>1, EmptyHanded, OncePops

LEMMA WOnceTake == \A c \in Chain : WTypeInv /\ OnceInv /\ Take(c) => OnceInv'
<1> SUFFICES ASSUME WTypeInv, OnceInv, NEW c \in Chain, Take(c) PROVE OnceInv'
  OBVIOUS
<1>1. /\ decodeQueue # <<>> /\ decodeQueue' = Tail(decodeQueue)
      /\ job' = [job EXCEPT ![c] = Head(decodeQueue)]
      /\ UNCHANGED <<arrived, queue, finished, rejected, abandoned>>
      /\ stage[c] = "tested"
  BY DEF Take, loadVars, fateVars
<1>2. QED BY <1>1, EmptyHanded, OnceTakes

LEMMA WOnceHandOff == \A c \in Chain : WTypeInv /\ OnceInv /\ WHandOff(c) => OnceInv'
<1> SUFFICES ASSUME WTypeInv, OnceInv, NEW c \in Chain, WHandOff(c) PROVE OnceInv'
  OBVIOUS
<1>1. /\ job' = [job EXCEPT ![c] = NoRequest] /\ decodeQueue' = Append(decodeQueue, job[c])
      /\ UNCHANGED <<arrived, queue, finished, rejected, abandoned>>
  BY DEF WHandOff, HandOff, loadVars, fateVars
<1>2. job[c] # NoRequest /\ WorkOK
  BY JobInHand, ChainOf DEF WHandOff, HandOff, Working
<1>3. QED BY <1>1, <1>2, OnceHands

\* The steps in which a request meets its fate.
Settles(c) ==
  WReject(c) \/ GiveUp(c) \/ (Abandon(c) /\ UNCHANGED <<stage, robbed>>) \/ Finishes(c)

LEMMA SettlesDoes ==
  ASSUME WTypeInv, NEW c \in Chain, Settles(c)
  PROVE  LET r == job[c] IN
           /\ r \in Request /\ r # NoRequest /\ WorkOK
           /\ job' = [job EXCEPT ![c] = NoRequest]
           /\ UNCHANGED <<arrivalsDone, arrived, queue, decodeQueue>>
           /\ \/ finished' = finished \cup {r} /\ UNCHANGED <<rejected, abandoned>>
              \/ rejected' = rejected \cup {r} /\ UNCHANGED <<finished, abandoned>>
              \/ abandoned' = abandoned \cup {r} /\ UNCHANGED <<finished, rejected>>
<1>1. WorkOK
  BY ChainOf
<1>2. CASE WReject(c)
  <2>1. job[c] \in Request /\ job[c] # NoRequest
    BY <1>2, JobInHand DEF WReject, InHand
  <2>2. QED BY <1>1, <1>2, <2>1 DEF WReject, loadVars
<1>3. CASE GiveUp(c) \/ (Abandon(c) /\ UNCHANGED <<stage, robbed>>)
  <2>1. job[c] \in Request /\ job[c] # NoRequest
    BY <1>3, JobInHand DEF GiveUp, Abandon, InHand, Working
  <2>2. QED BY <1>1, <1>3, <2>1 DEF GiveUp, Abandon, loadVars
<1>4. CASE Finishes(c)
  BY <1>1, <1>4, FinishesDoes DEF Finish, loadVars
<1>5. QED BY <1>2, <1>3, <1>4 DEF Settles

LEMMA WOnceSettles == \A c \in Chain : WTypeInv /\ OnceInv /\ Settles(c) => OnceInv'
BY SettlesDoes, OnceEnd

\* The steps of a chain, sorted by what they do to the places.
LEMMA WMoves ==
  ASSUME NEW c \in Chain, WChainStep(c)
  PROVE  Stays(c) \/ Pop(c) \/ Take(c) \/ WHandOff(c) \/ Settles(c)
BY WChainSplit DEF Stays, Settles

LEMMA WOnceStep == WTypeInv /\ OnceInv /\ [WNext]_wVars => OnceInv'
<1> SUFFICES ASSUME WTypeInv, OnceInv, [WNext]_wVars PROVE OnceInv'
  OBVIOUS
<1>1. CASE CallStep \/ WStart \/ UNCHANGED wVars
  BY <1>1, CallsDo, OnceSame
<1>2. CASE WArrive
  BY <1>2, OncePush DEF WArrive, WTypeInv, TypeOK
<1>3. ASSUME NEW c \in Chain, WChainStep(c) PROVE OnceInv'
  <2>1. CASE Stays(c)
    BY <2>1, StaysDoes, OnceSame
  <2>2. QED BY <1>3, <2>1, WMoves, WOncePop, WOnceTake, WOnceHandOff, WOnceSettles
<1>4. QED BY <1>1, <1>2, <1>3, WNextSplit

\* No interleaving of the goroutines of the wall clock loses or duplicates a request,
\* or puts it in two places: also between a Pop and what follows it.
THEOREM WallServesOnce == WSpec => []EachRequestOnce
<1>1. WInit => WTypeInv /\ OnceInv
  BY WTypeInit, OnceInit DEF WInit
<1>2. (WTypeInv /\ OnceInv) /\ [WNext]_wVars => (WTypeInv /\ OnceInv)'
  BY WTypeStep, WOnceStep
<1>3. WTypeInv /\ OnceInv => EachRequestOnce
  BY OncePlaces
<1>4. QED BY <1>1, <1>2, <1>3, PTL DEF WSpec

-----------------------------------------------------------------------------
(* A channel is closed twice only by a race *)

\* A worker that a call of Stop has tested: its channel is open, and neither a flip nor
\* another call of Stop has that worker in hand.
OpenFor(s) ==
  stopper[s].tested # NoWorker =>
    /\ ~stop[stopper[s].tested]
    /\ stopper[s].tested # resizer.worker
    /\ \A t \in Caller : stopper[t].tested = stopper[s].tested => t = s

\* Apart from a race, whoever passed the test of a channel finds it open.
OpenInv ==
  raced \/ /\ ~panicked
           /\ \A s \in Caller : OpenFor(s)
           /\ resizer.worker # NoWorker => ~stop[resizer.worker]

LEMMA OpenStep == WTypeInv /\ OpenInv /\ [WNext]_wVars => OpenInv'
<1> SUFFICES ASSUME WTypeInv, OpenInv, [WNext]_wVars PROVE OpenInv'
  OBVIOUS
<1>0. /\ stop \in [Worker -> BOOLEAN] /\ raced \in BOOLEAN
      /\ stopper \in [Caller -> StopCall]
      /\ \A s \in Caller : stopper[s].tested \in Worker \cup {NoWorker}
      /\ resizer \in [worker : Worker \cup {NoWorker}, to : RoleOrNone]
  BY DEF WTypeInv, TypeOK, PoolsOK, WallOK, StopCall
<1>1. ASSUME UNCHANGED <<stop, stopper, resizer, panicked, raced>> PROVE OpenInv'
  BY <1>1 DEF OpenInv, OpenFor
<1>2. CASE WStart \/ WArrive \/ UNCHANGED wVars
  BY <1>1, <1>2 DEF WStart, Start, WArrive, Arrive, wVars, vars, wallVars, poolVars
<1>3. ASSUME NEW c \in Chain, WChainStep(c) PROVE OpenInv'
  <2>1. UNCHANGED callVars /\ UNCHANGED stop
    <3>1. UNCHANGED stop
      BY <1>3
      DEF WChainStep, Test, WExit, Exit, Miss, Look, Polls, WRetire, Pop, WAdmit, WReject,
          Acquire, WPrefillDone, PrefillDone, WHandOff, HandOff, Take, GiveUp, FirstStep,
          WDecode, Abandon, Complete, DecodeToken, vars, poolVars
    <3>2. QED BY <1>3, <3>1, WChainSplit
  <2>2. QED BY <1>1, <2>1 DEF callVars
<1>4. ASSUME NEW s \in Caller, StopRequest(s) \/ StopCopy(s) PROVE OpenInv'
  <2>1. /\ UNCHANGED <<stop, resizer, panicked, raced>>
        /\ \A t \in Caller : stopper'[t].tested = stopper[t].tested \/ stopper'[t].tested = NoWorker
    <3>1. UNCHANGED <<stop, resizer, panicked, raced>>
      BY <1>4 DEF StopRequest, StopCopy, vars, poolVars
    <3>2. \/ stopper' = [stopper EXCEPT ![s].phase = "requested"]
          \/ stopper' = [stopper EXCEPT ![s] = [phase |-> "stopping", tested |-> NoWorker,
                                              left |-> prefillGPUs \o decodeGPUs]]
      BY <1>4 DEF StopRequest, StopCopy
    <3>3. \A t \in Caller : stopper'[t].tested = stopper[t].tested \/ stopper'[t].tested = NoWorker
      <4>1. \A t \in Caller \ {s} : stopper'[t] = stopper[t]
        BY <1>0, <3>2
      <4>2. CASE stopper' = [stopper EXCEPT ![s].phase = "requested"]
        BY <1>0, <4>1, <4>2 DEF StopCall
      <4>3. CASE stopper' = [stopper EXCEPT ![s] = [phase |-> "stopping", tested |-> NoWorker,
                                                    left |-> prefillGPUs \o decodeGPUs]]
        <5>1. stopper'[s].tested = NoWorker
          BY <1>0, <4>3
        <5>2. QED BY <4>1, <5>1
      <4>4. QED BY <3>2, <4>2, <4>3
    <3>4. QED BY <3>1, <3>3
  <2>2. QED BY <2>1 DEF OpenInv, OpenFor
<1>5. ASSUME NEW s \in Caller, StopTest(s) PROVE OpenInv'
  <2> DEFINE w == Head(stopper[s].left)
  <2>1. /\ stop' = stop /\ UNCHANGED <<resizer, panicked>>
        /\ raced' = (raced \/ (~stop[w] /\ (w = resizer.worker \/ InHandOf(w, s))))
        /\ stopper[s].tested = NoWorker /\ stopper[s].left # <<>>
        /\ \/ stop[w] /\ stopper' = [stopper EXCEPT ![s].left = Tail(stopper[s].left)]
           \/ ~stop[w] /\ stopper' = [stopper EXCEPT ![s].tested = w]
    BY <1>5 DEF StopTest, vars, poolVars
  <2>2. \A t \in Caller \ {s} : stopper'[t].tested = stopper[t].tested
    BY <1>0, <2>1
  <2>3. CASE stop[w]
    <3>1. stopper'[s].tested = NoWorker /\ raced' = raced
      BY <1>0, <2>1, <2>3 DEF StopCall
    <3>2. QED BY <2>1, <2>2, <3>1 DEF OpenInv, OpenFor
  <2>4. CASE ~stop[w]
    <3>1. stopper'[s].tested = w
      BY <1>0, <2>1, <2>4 DEF StopCall
    <3>2. w # NoWorker
      <4>1. w \in Worker
        BY <1>0, <2>1, PopTypes DEF StopCall
      <4>2. QED BY <4>1 DEF Worker, NoWorker
    <3>3. SUFFICES ASSUME ~raced, w # resizer.worker, ~InHandOf(w, s) PROVE OpenInv'
      BY <2>1, <2>4 DEF OpenInv
    <3>4. \A t \in Caller \ {s} : stopper'[t].tested # w
      BY <2>2, <3>2, <3>3 DEF InHandOf
    <3>5. ASSUME NEW t \in Caller PROVE OpenFor(t)'
      <4>1. CASE t = s
        BY <2>1, <2>4, <3>1, <3>3, <3>4, <4>1 DEF OpenFor
      <4>2. CASE t # s
        BY <2>1, <2>2, <3>1, <3>3, <3>4, <4>2 DEF OpenInv, OpenFor
      <4>3. QED BY <4>1, <4>2
    <3>6. QED BY <2>1, <3>3, <3>5 DEF OpenInv
  <2>5. QED BY <2>3, <2>4
<1>6. ASSUME NEW s \in Caller, StopClose(s) PROVE OpenInv'
  <2> DEFINE w == stopper[s].tested
  <2>1. /\ w # NoWorker /\ panicked' = stop[w] /\ stop' = [stop EXCEPT ![w] = TRUE]
        /\ stopper'[s].tested = NoWorker /\ UNCHANGED <<resizer, raced>>
        /\ \A t \in Caller \ {s} : stopper'[t].tested = stopper[t].tested
    BY <1>0, <1>6 DEF StopClose, Closes, StopCall
  <2>2. SUFFICES ASSUME ~raced PROVE OpenInv'
    BY <2>1 DEF OpenInv
  <2>3. ~panicked' /\ w # resizer.worker
    BY <2>1, <2>2 DEF OpenInv, OpenFor
  <2>4. \A v \in Worker \ {w} : stop'[v] = stop[v]
    BY <1>0, <2>1
  <2>5. resizer'.worker # NoWorker => ~stop'[resizer'.worker]
    BY <1>0, <2>1, <2>2, <2>3, <2>4 DEF OpenInv
  <2>6. ASSUME NEW t \in Caller PROVE OpenFor(t)'
    <3>1. CASE t = s
      BY <2>1, <3>1 DEF OpenFor
    <3>2. CASE t # s
      <4>1. stopper[t].tested # w
        BY <2>1, <2>2, <3>2 DEF OpenInv, OpenFor
      <4>2. QED BY <1>0, <2>1, <2>2, <2>4, <3>2, <4>1 DEF OpenInv, OpenFor
    <3>3. QED BY <3>1, <3>2
  <2>7. QED BY <2>3, <2>5, <2>6 DEF OpenInv
<1>7. CASE ResizeTest
  <2>1. stop' = stop /\ UNCHANGED <<stopper, panicked>> /\ resizer.worker = NoWorker
    BY <1>7, ResizeTestDoes
  <2>2. PICK w \in Worker, to \in Roles :
          /\ FlipTest(w, to)
          /\ raced' = (raced \/ InHandOf(resizer'.worker, NoCaller))
    BY <1>7, ResizeTestDoes
  <2>3. resizer'.worker = NoWorker \/ (resizer'.worker = w /\ ~stop[w])
    BY <2>1, <2>2 DEF FlipTest
  <2>4. SUFFICES ASSUME ~raced, ~InHandOf(resizer'.worker, NoCaller) PROVE OpenInv'
    BY <2>2 DEF OpenInv
  <2>5. ASSUME NEW t \in Caller, stopper[t].tested # NoWorker
        PROVE  stopper[t].tested # resizer'.worker
    <3>1. t \in Caller \ {NoCaller}
      BY DEF Caller, NoCaller
    <3>2. QED BY <2>4, <2>5, <3>1 DEF InHandOf
  <2>6. QED BY <2>1, <2>3, <2>4, <2>5 DEF OpenInv, OpenFor
<1>8. CASE ResizeClose
  <2> DEFINE w == resizer.worker
  <2>1. /\ w # NoWorker /\ panicked' = stop[w] /\ stop' = [stop EXCEPT ![w] = TRUE]
        /\ resizer'.worker = NoWorker /\ UNCHANGED <<stopper, raced>>
    BY <1>8 DEF ResizeClose, Closes
  <2>2. SUFFICES ASSUME ~raced PROVE OpenInv'
    BY <2>1 DEF OpenInv
  <2>3. \A v \in Worker \ {w} : stop'[v] = stop[v]
    BY <1>0, <2>1
  <2>4. ASSUME NEW t \in Caller PROVE OpenFor(t)'
    BY <1>0, <2>1, <2>2, <2>3 DEF OpenInv, OpenFor
  <2>5. QED BY <2>1, <2>2, <2>4 DEF OpenInv
<1>9. ASSUME NEW w \in Worker, DrainFails(w) \/ DrainTest(w) \/ DrainRenews(w) PROVE OpenInv'
  <2>1. /\ UNCHANGED <<stopper, resizer, panicked, raced>>
        /\ stop' = stop \/ stop' = [stop EXCEPT ![w] = FALSE]
    <3>1. CASE DrainFails(w)
      <4>1. stopped /\ DrainDone(w) /\ UNCHANGED wallVars
        BY <3>1 DEF DrainFails
      <4>2. QED BY <4>1 DEF DrainDone, wallVars
    <3>2. CASE DrainTest(w) \/ DrainRenews(w)
      BY <3>2 DEF DrainTest, DrainRenews, vars, poolVars
    <3>3. QED BY <1>9, <3>1, <3>2
  <2>2. \A v \in Worker : stop'[v] => stop[v]
    BY <1>0, <2>1
  <2>3. QED BY <1>0, <2>1, <2>2 DEF OpenInv, OpenFor
<1>10. QED
  BY <1>2, <1>3, <1>4, <1>5, <1>6, <1>7, <1>8, <1>9, WNextSplit DEF CallStep, Stops, StopStep

\* stopWorker and flip test before they close (disaggregated.go:232-236, 337-343): unless
\* two calls had one worker in hand, tested and not yet closed, no channel is closed twice,
\* with any number of calls of Stop and however the rest interleaves.
THEOREM PanicNeedsRaceHolds == WSpec => []PanicNeedsRace
<1>1. WInit => WTypeInv /\ OpenInv
  <2>1. WInit => OpenInv
    BY DEF WInit, OpenInv, OpenFor
  <2>2. QED BY <2>1, WTypeInit
<1>2. (WTypeInv /\ OpenInv) /\ [WNext]_wVars => (WTypeInv /\ OpenInv)'
  BY WTypeStep, OpenStep
<1>3. OpenInv => PanicNeedsRace
  BY DEF OpenInv, PanicNeedsRace
<1>4. QED BY <1>1, <1>2, <1>3, PTL DEF WSpec

-----------------------------------------------------------------------------
(* What retirement can miss *)

Lives(c) == pc[c] \notin Ended

\* A chain is about to retire, or has retired, only when nothing more arrives; and
\* then the admission queue was empty, and stays so.
SawTheEnd ==
  /\ \A c \in Chain : stage[c] = "idle" => arrivalsDone
  /\ (\E c \in Chain : pc[c] = "retired") => arrivalsDone /\ Waiting = {}

\* Until the engine stops a channel is closed only for a drain, nothing is given up,
\* and each worker is served by its current chain, unless that has retired; and as
\* long as there is a hand-off some chain is there to see it.
AliveInv ==
  ~stopped =>
    /\ abandoned = {}
    /\ \A w \in Worker : stop[w] => drain[w] # "none"
    /\ started => \A w \in Worker :
         \/ drain[w] # "none"
         \/ Lives(<<w, epoch[w]>>) \/ pc[<<w, epoch[w]>>] = "retired"
    /\ Handed # {} => (\E c \in Chain : Lives(c)) \/ (\E w \in Worker : drain[w] # "none")

\* How a chain ends its callback, and what it does not touch.
LEMMA ChainEnds ==
  ASSUME WTypeInv, NEW c \in Chain, WChainStep(c)
  PROVE  /\ Lives(c) /\ \A d \in Chain \ {c} : pc'[d] = pc[d] /\ stage'[d] = stage[d]
         /\ \/ pc'[c] \notin Ended
            \/ pc'[c] = "exited" /\ Drained(c) /\ UNCHANGED workVars
            \/ pc'[c] = "retired" /\ stage[c] = "idle" /\ BothEmpty /\ UNCHANGED workVars
            \/ pc'[c] = "aborted" /\ stopped
         /\ abandoned' = abandoned \/ stopped
         /\ stage'[c] = "idle" => arrivalsDone
         /\ UNCHANGED <<started, stopped, loadVars, poolVars>>
<1> DEFINE Frame == /\ \A d \in Chain \ {c} : pc'[d] = pc[d] /\ stage'[d] = stage[d]
                    /\ UNCHANGED <<started, stopped, loadVars, poolVars>>
           Ends  == \/ pc'[c] \notin Ended
                    \/ pc'[c] = "exited" /\ Drained(c) /\ UNCHANGED workVars
                    \/ pc'[c] = "retired" /\ stage[c] = "idle" /\ BothEmpty /\ UNCHANGED workVars
                    \/ pc'[c] = "aborted" /\ stopped
           Rest  == /\ abandoned' = abandoned \/ stopped
                    /\ stage'[c] = "idle" => arrivalsDone
<1>0. StageAt(c) /\ pc \in [Chain -> PC] /\ stage \in [Chain -> Stage]
  BY ChainOf
<1>1. CASE Looks(c)
  <2>1. /\ pc[c] \in {"prefillStep", "decodeStep"}
        /\ UNCHANGED vars
        /\ \E s \in Stage : stage' = [stage EXCEPT ![c] = s] /\ (s = "idle" => arrivalsDone)
    <3>1. CASE Test(c)
      BY <3>1 DEF Test, Goes, Stage
    <3>2. CASE Miss(c)
      BY <1>0, <3>2 DEF Miss, Goes, Stage, StageAt
    <3>3. CASE Look(c)
      BY <1>0, <3>3 DEF Look, Polls, Goes, Stage, StageAt
    <3>4. CASE WRetire(c) /\ pc' = pc
      <4>1. stage[c] = "idle" /\ pc[c] \in {"prefillStep", "decodeStep"}
        BY <1>0, <3>4 DEF WRetire, StageAt
      <4>2. ~BothEmpty
        BY <1>0, <3>4, <4>1 DEF WRetire
      <4>3. QED BY <3>4, <4>1, <4>2 DEF WRetire, Polls, Goes, Stage
    <3>5. QED BY <1>1, <3>1, <3>2, <3>3, <3>4 DEF Looks
  <2>2. PICK s \in Stage : stage' = [stage EXCEPT ![c] = s] /\ (s = "idle" => arrivalsDone)
    BY <2>1
  <2>3. /\ UNCHANGED <<started, stopped, loadVars, poolVars>>
        /\ UNCHANGED <<pc, abandoned>>
    BY <2>1 DEF vars, fateVars
  <2>4. Frame /\ Rest
    BY <1>0, <2>2, <2>3
  <2>5. pc'[c] \notin Ended /\ Lives(c)
    BY <2>1, <2>3 DEF Ended, Lives
  <2>6. QED BY <2>4, <2>5
<1>2. CASE WExit(c) \/ (WRetire(c) /\ BothEmpty)
  <2>1. Frame /\ stage'[c] = "out" /\ UNCHANGED workVars /\ abandoned' = abandoned
    BY <1>0, <1>2 DEF WExit, Exit, WRetire, Goes, fateVars
  <2>2. Ends /\ Lives(c)
    BY <1>0, <1>2, <2>1 DEF WExit, Exit, WRetire, StageAt, Lives, Ended
  <2>3. QED BY <2>1, <2>2
<1>3. CASE Pop(c) \/ WAdmit(c) \/ WReject(c) \/ Take(c)
  <2>1. /\ Frame /\ stage'[c] \in {"popped", "gap", "out", "taken"}
        /\ pc' = pc /\ abandoned' = abandoned
    BY <1>0, <1>3 DEF Pop, WAdmit, WReject, Take, Goes, fateVars
  <2>2. pc[c] \in {"prefillStep", "decodeStep"}
    BY <1>0, <1>3 DEF Pop, WAdmit, WReject, Take, StageAt
  <2>3. QED BY <2>1, <2>2 DEF Lives, Ended
<1>4. CASE (Acquire(c) \/ WPrefillDone(c)) \/ WHandOff(c)
  <2>1. stage[c] # "idle" /\ Lives(c)
    BY <1>0, <1>4
    DEF Acquire, WPrefillDone, PrefillDone, WHandOff, HandOff, StageAt, Lives, Ended
  <2>2. /\ Frame /\ pc'[c] \notin Ended /\ abandoned' = abandoned
        /\ stage'[c] = "out" \/ stage' = stage
    BY <1>0, <1>4
    DEF Acquire, WPrefillDone, PrefillDone, WHandOff, HandOff, Goes, fateVars, Ended
  <2>3. QED BY <2>1, <2>2
<1>5. CASE GiveUp(c) \/ (Abandon(c) /\ UNCHANGED <<stage, robbed>>)
  <2>1. stage[c] # "idle" /\ Lives(c) /\ stopped
    BY <1>0, <1>5 DEF GiveUp, Abandon, StageAt, Lives, Ended
  <2>2. /\ Frame /\ pc'[c] = "aborted"
        /\ stage'[c] = "out" \/ stage' = stage
    BY <1>0, <1>5 DEF GiveUp, Abandon, Goes
  <2>3. QED BY <2>1, <2>2
<1>6. CASE Finishes(c)
  <2>1. /\ stage[c] = "taken" \/ pc[c] = "decode"
        /\ pc' = [pc EXCEPT ![c] = "decodeStep"] /\ stage' = [stage EXCEPT ![c] = "out"]
        /\ UNCHANGED <<started, stopped, loadVars, poolVars, abandoned>>
    BY <1>6, FinishesDoes
  <2>2. Lives(c) /\ pc'[c] \notin Ended /\ stage'[c] = "out"
    BY <1>0, <2>1 DEF StageAt, Lives, Ended
  <2>3. QED BY <1>0, <2>1, <2>2
<1>7. CASE GoesOn(c)
  <2>1. /\ stage[c] = "taken" \/ pc[c] = "decode"
        /\ pc' = [pc EXCEPT ![c] = "decode"] /\ stage' = [stage EXCEPT ![c] = "out"]
        /\ UNCHANGED <<started, stopped, loadVars, poolVars, abandoned>>
    BY <1>7, GoesOnDoes DEF fateVars
  <2>2. Lives(c) /\ pc'[c] \notin Ended /\ stage'[c] = "out"
    BY <1>0, <2>1 DEF StageAt, Lives, Ended
  <2>3. QED BY <1>0, <2>1, <2>2
<1>8. QED BY <1>1, <1>2, <1>3, <1>4, <1>5, <1>6, <1>7, WChainSplit

\* The chains never make the admission queue longer.
LEMMA QueueShrinks ==
  ASSUME WTypeInv, OnceInv, NEW c \in Chain, WChainStep(c)
  PROVE  Waiting' \subseteq Waiting
<1>1. CASE Pop(c)
  <2>1. queue # <<>> /\ queue' = Tail(queue) /\ WorkOK
    BY <1>1, ChainOf DEF Pop
  <2>2. QED BY <2>1, PopOldest
<1>2. CASE Stays(c)
  BY <1>2, StaysDoes DEF Waiting
<1>3. CASE Take(c) \/ WHandOff(c)
  BY <1>3 DEF Take, WHandOff, HandOff, Waiting
<1>4. CASE Settles(c)
  BY <1>4, SettlesDoes DEF Waiting
<1>5. QED BY <1>1, <1>2, <1>3, <1>4, WMoves

\* What the calls and the drains do to the chains: at most a new one.
LEMMA CallsChains ==
  ASSUME WTypeInv, CallStep
  PROVE  /\ UNCHANGED <<started, loadVars, queue, decodeQueue, abandoned, stage>>
         /\ \/ pc' = pc
            \/ \E n \in Chain, p \in {"prefillStep", "decodeStep"} : pc' = [pc EXCEPT ![n] = p]
<1>1. CASE Stops
  BY <1>1 DEF Stops, StopRequest, StopStep, StopCopy, StopTest, StopClose, vars, fateVars, workVars
<1>2. CASE ResizeTest \/ ResizeClose
  BY <1>2 DEF ResizeTest, ResizeClose, fateVars, workVars
<1>3. ASSUME NEW w \in Worker, DrainFails(w) \/ DrainTest(w)
      PROVE  UNCHANGED <<started, loadVars, queue, decodeQueue, abandoned, stage, pc>>
  BY <1>3 DEF DrainFails, DrainDone, DrainTest, wallVars, vars, fateVars, workVars
<1>4. ASSUME NEW w \in Worker, DrainRenews(w)
      PROVE  /\ UNCHANGED <<started, loadVars, queue, decodeQueue, abandoned, stage>>
             /\ \E n \in Chain, p \in {"prefillStep", "decodeStep"} : pc' = [pc EXCEPT ![n] = p]
  BY <1>4, RenewsDoes DEF fateVars, workVars
<1>5. QED BY <1>1, <1>2, <1>3, <1>4 DEF CallStep

LEMMA EndStep == WTypeInv /\ OnceInv /\ SawTheEnd /\ [WNext]_wVars => SawTheEnd'
<1> SUFFICES ASSUME WTypeInv, OnceInv, SawTheEnd, [WNext]_wVars PROVE SawTheEnd'
  OBVIOUS
<1>0. pc \in [Chain -> PC] /\ stage \in [Chain -> Stage]
  BY DEF WTypeInv, TypeOK, ChainsOK, WallOK
<1>1. CASE WStart
  <2>1. /\ \A c \in Chain : pc'[c] # "retired"
        /\ stage' = stage /\ \A c \in Chain : pc[c] = "unborn"
    BY <1>1 DEF WStart, Start, wallVars, WTypeInv, BeforeStart
  <2>2. \A c \in Chain : stage'[c] # "idle"
    BY <2>1 DEF WTypeInv, StageAt
  <2>3. QED BY <2>1, <2>2 DEF SawTheEnd
<1>2. CASE WArrive
  BY <1>2 DEF WArrive, Arrive, wallVars, SawTheEnd
<1>3. CASE CallStep
  <2>1. UNCHANGED <<arrivalsDone, queue, stage>> /\ \A c \in Chain : pc'[c] = "retired" => pc[c] = "retired"
    BY <1>0, <1>3, CallsChains DEF loadVars
  <2>2. QED BY <2>1 DEF SawTheEnd, Waiting
<1>4. CASE UNCHANGED wVars
  BY <1>4 DEF wVars, vars, wallVars, loadVars, workVars, SawTheEnd, Waiting
<1>5. ASSUME NEW c \in Chain, WChainStep(c) PROVE SawTheEnd'
  <2>1. /\ \A d \in Chain \ {c} : pc'[d] = pc[d] /\ stage'[d] = stage[d]
        /\ pc'[c] = "retired" => stage[c] = "idle" /\ BothEmpty /\ UNCHANGED workVars
        /\ stage'[c] = "idle" => arrivalsDone
        /\ arrivalsDone' = arrivalsDone
    BY <1>5, ChainEnds DEF loadVars, Ended
  <2>2. Waiting' \subseteq Waiting
    BY <1>5, QueueShrinks
  <2>3. BothEmpty => Waiting = {}
    BY DEF BothEmpty, Waiting, ToSet
  <2>4. QED BY <2>1, <2>2, <2>3 DEF SawTheEnd
<1>6. QED BY <1>1, <1>2, <1>3, <1>4, <1>5, WNextSplit

LEMMA AliveStep == WTypeInv /\ AliveInv /\ [WNext]_wVars => AliveInv'
<1> SUFFICES ASSUME WTypeInv, AliveInv, [WNext]_wVars, ~stopped' PROVE AliveInv'
  BY DEF AliveInv
<1>0. /\ pc \in [Chain -> PC] /\ stop \in [Worker -> BOOLEAN] /\ drain \in [Worker -> RoleOrNone]
      /\ epoch \in [Worker -> 0 .. MaxFlips] /\ flips \in 0 .. MaxFlips
      /\ \A w \in Worker : <<w, epoch[w]>> \in Chain
  BY DEF WTypeInv, TypeOK, ChainsOK, PoolsOK, Chain
<1>1. CASE WStart
  <2>1. /\ ~started /\ UNCHANGED <<stopped, poolVars, fateVars, workVars>>
        /\ pc' = [c \in Chain |->
                   IF c[2] # 0 THEN "unborn"
                   ELSE IF c[1] \in ToSet(prefillGPUs) THEN "prefillStep" ELSE "decodeStep"]
    BY <1>1 DEF WStart, Start
  <2>2. /\ flips = 0 /\ ~stopped /\ \A w \in Worker : drain[w] = "none"
        /\ \A c \in Chain : pc[c] = "unborn"
    BY <2>1 DEF WTypeInv, BeforeStart
  <2>3. \A w \in Worker : epoch[w] = 0
    BY <1>0, <2>2, BoundAssumption DEF WTypeInv, EpochsPaid
  <2>4. \A w \in Worker : pc'[<<w, epoch[w]>>] \notin Ended
    BY <1>0, <2>1, <2>3 DEF Ended
  <2>5. Handed = {}
    BY <2>2 DEF AliveInv, Lives, Ended
  <2>6. UNCHANGED <<stop, drain, epoch, abandoned, decodeQueue>>
    BY <2>1 DEF poolVars, fateVars, workVars
  <2>7. QED BY <2>2, <2>4, <2>5, <2>6 DEF AliveInv, Lives, Handed
<1>2. CASE WArrive
  <2>1. UNCHANGED <<started, stopped, pc, stop, drain, epoch, abandoned, decodeQueue>>
    BY <1>2 DEF WArrive, Arrive, poolVars, fateVars
  <2>2. QED BY <2>1 DEF AliveInv, Lives, Handed
<1>3. ASSUME NEW c \in Chain, WChainStep(c) PROVE AliveInv'
  <2>1. /\ Lives(c) /\ \A d \in Chain \ {c} : pc'[d] = pc[d]
        /\ \/ pc'[c] \notin Ended
           \/ pc'[c] = "exited" /\ Drained(c) /\ UNCHANGED workVars
           \/ pc'[c] = "retired" /\ stage[c] = "idle" /\ BothEmpty /\ UNCHANGED workVars
           \/ pc'[c] = "aborted" /\ stopped
        /\ abandoned' = abandoned \/ stopped
        /\ UNCHANGED <<started, stopped, loadVars, poolVars>>
    BY <1>3, ChainEnds
  <2>2. UNCHANGED <<stop, drain, epoch>> /\ ~stopped /\ c[1] \in Worker
    BY <2>1, ChainFacts DEF poolVars
  <2>3. pc'[c] = "exited" => drain[c[1]] # "none"
    BY <2>1, <2>2 DEF Drained, AliveInv, Ended
  <2>4. \/ pc'[c] \notin Ended
        \/ pc'[c] = "retired" /\ BothEmpty /\ UNCHANGED workVars
        \/ pc'[c] = "exited" /\ drain[c[1]] # "none"
    BY <2>1, <2>2, <2>3
  <2>5. abandoned' = {} /\ \A w \in Worker : stop'[w] => drain'[w] # "none"
    BY <2>1, <2>2 DEF AliveInv
  <2>6. ASSUME started', NEW w \in Worker
        PROVE  \/ drain'[w] # "none"
               \/ Lives(<<w, epoch[w]>>)' \/ pc'[<<w, epoch'[w]>>] = "retired"
    <3>1. CASE <<w, epoch[w]>> = c
      <4>1. c[1] = w
        BY <3>1
      <4>2. QED BY <2>2, <2>4, <3>1, <4>1 DEF Lives
    <3>2. CASE <<w, epoch[w]>> # c
      <4>1. pc'[<<w, epoch[w]>>] = pc[<<w, epoch[w]>>]
        BY <1>0, <2>1, <3>2
      <4>2. \/ drain[w] # "none"
            \/ Lives(<<w, epoch[w]>>) \/ pc[<<w, epoch[w]>>] = "retired"
        BY <2>1, <2>2, <2>6 DEF AliveInv
      <4>3. QED BY <2>2, <4>1, <4>2 DEF Lives
    <3>3. QED BY <3>1, <3>2
  <2>7. ASSUME Handed' # {}
        PROVE  (\E d \in Chain : Lives(d)') \/ (\E w \in Worker : drain'[w] # "none")
    <3>1. CASE pc'[c] \notin Ended
      BY <3>1 DEF Lives
    <3>2. CASE BothEmpty /\ UNCHANGED workVars
      <4>1. Handed' = {}
        BY <3>2 DEF BothEmpty, workVars, Handed, ToSet
      <4>2. QED BY <2>7, <4>1
    <3>3. CASE drain[c[1]] # "none"
      BY <2>2, <3>3
    <3>4. QED BY <2>4, <3>1, <3>2, <3>3
  <2>8. QED BY <2>5, <2>6, <2>7 DEF AliveInv
<1>4. CASE Stops
  <2>1. stopped'
    BY <1>4
    DEF Stops, StopRequest, StopStep, StopCopy, StopTest, StopClose, WTypeInv, CallsOK, vars
  <2>2. QED BY <2>1
<1>5. CASE ResizeTest
  <2>1. UNCHANGED <<started, stopped, pc, stop, drain, epoch, abandoned, decodeQueue>>
    BY <1>5, ResizeTestDoes DEF fateVars, workVars
  <2>2. QED BY <2>1 DEF AliveInv, Lives, Handed
<1>6. CASE ResizeClose
  <2> DEFINE w == resizer.worker
  <2>1. /\ w # NoWorker
        /\ stop' = [stop EXCEPT ![w] = TRUE] /\ drain' = [drain EXCEPT ![w] = resizer.to]
        /\ UNCHANGED <<started, stopped, pc, epoch, abandoned, decodeQueue>>
    BY <1>6 DEF ResizeClose, fateVars, workVars
  <2>2. w \in Worker /\ resizer.to # "none"
    BY <2>1 DEF WTypeInv, WallOK, CallsOK, Roles
  <2>3. drain'[w] # "none" /\ \A v \in Worker \ {w} : drain'[v] = drain[v] /\ stop'[v] = stop[v]
    BY <1>0, <2>1, <2>2
  <2>4. QED BY <2>1, <2>2, <2>3 DEF AliveInv, Lives, Handed
<1>7. ASSUME NEW w \in Worker, DrainFails(w) \/ DrainTest(w) PROVE AliveInv'
  <2>1. ~DrainFails(w)
    BY DEF DrainFails, DrainDone
  <2>2. UNCHANGED <<started, stopped, pc, stop, drain, epoch, abandoned, decodeQueue>>
    BY <1>7, <2>1 DEF DrainTest, vars, poolVars, fateVars, workVars
  <2>3. QED BY <2>2 DEF AliveInv, Lives, Handed
<1>8. ASSUME NEW w \in Worker, DrainRenews(w) PROVE AliveInv'
  <2> DEFINE n == <<w, epoch[w] + 1>>
  <2>1. /\ n \in Chain /\ n[1] = w
        /\ drain' = [drain EXCEPT ![w] = "none"] /\ stop' = [stop EXCEPT ![w] = FALSE]
        /\ epoch' = [epoch EXCEPT ![w] = epoch[w] + 1]
        /\ UNCHANGED <<started, stopped, abandoned, decodeQueue>>
    BY <1>8, RenewsDoes DEF fateVars, workVars
  <2>2. PICK p \in {"prefillStep", "decodeStep"} : pc' = [pc EXCEPT ![n] = p]
    BY <1>8, RenewsDoes
  <2>3. epoch'[w] = epoch[w] + 1 /\ stop'[w] = FALSE
    BY <1>0, <2>1
  <2>4. \A v \in Worker \ {w} : /\ drain'[v] = drain[v] /\ stop'[v] = stop[v]
                                /\ epoch'[v] = epoch[v] /\ <<v, epoch[v]>> # n
    BY <1>0, <2>1
  <2>5. pc'[n] \notin Ended
    BY <1>0, <2>1, <2>2 DEF Ended
  <2>6. \A v \in Worker \ {w} : pc'[<<v, epoch[v]>>] = pc[<<v, epoch[v]>>]
    BY <1>0, <2>2, <2>4
  <2>7. ASSUME started', NEW v \in Worker
        PROVE  \/ drain'[v] # "none"
               \/ Lives(<<v, epoch[v]>>)' \/ pc'[<<v, epoch'[v]>>] = "retired"
    <3>1. CASE v = w
      BY <2>3, <2>5, <3>1 DEF Lives
    <3>2. CASE v # w
      BY <2>1, <2>4, <2>6, <2>7, <3>2 DEF AliveInv, Lives
    <3>3. QED BY <3>1, <3>2
  <2>8. \E c \in Chain : Lives(c)'
    BY <2>1, <2>5 DEF Lives
  <2>9. abandoned' = {} /\ \A v \in Worker : stop'[v] => drain'[v] # "none"
    BY <2>1, <2>3, <2>4 DEF AliveInv
  <2>10. QED BY <2>7, <2>8, <2>9 DEF AliveInv
<1>9. CASE UNCHANGED wVars
  BY <1>9 DEF wVars, vars, poolVars, fateVars, workVars, AliveInv, Lives, Handed
<1>10. QED BY <1>1, <1>2, <1>3, <1>4, <1>5, <1>6, <1>7, <1>8, <1>9, WNextSplit DEF CallStep

\* Everything is quiet without a stop: no request is left anywhere on its way.
LEMMA QuietSettled ==
  ASSUME WTypeInv, OnceInv, SawTheEnd, AliveInv, AllQuiet, ~stopped
  PROVE  finished \cup rejected = 1 .. arrived
<1>1. /\ started /\ \A c \in Chain : pc[c] \in Ended
      /\ \A w \in Worker : drain[w] = "none"
  BY DEF AllQuiet, Quiescent
<1>2. Handed = {} /\ abandoned = {}
  BY <1>1 DEF AliveInv, Lives
<1>3. Waiting = {}
  <2>1. 1 \in Worker
    BY GPUAssumption DEF Worker
  <2>2. <<1, epoch[1]>> \in Chain
    BY <2>1 DEF WTypeInv, TypeOK, PoolsOK, Chain
  <2>3. pc[<<1, epoch[1]>>] = "retired"
    BY <1>1, <2>1, <2>2 DEF AliveInv, Lives
  <2>4. QED BY <2>2, <2>3 DEF SawTheEnd
<1>4. Held = {}
  <2>1. ASSUME NEW c \in Chain PROVE job[c] = NoRequest
    <3>1. StageAt(c) /\ pc[c] \in Ended
      BY <1>1, ChainOf
    <3>2. QED BY <3>1 DEF StageAt, InHand, Working, Ended
  <2>2. QED BY <2>1 DEF Held
<1>5. QED BY <1>2, <1>3, <1>4 DEF OnceInv, PlacesCover

\* On the wall clock retirement is not final, but what it misses is only a request in
\* another chain's hand or handed over, and it costs no request: what arrives settles.
THEOREM OnlyHandsMissedHolds == WSpec => []OnlyHandsMissed
<1> DEFINE Inv == WTypeInv /\ OnceInv /\ SawTheEnd /\ AliveInv
<1>1. WInit => Inv
  <2>1. WInit => WTypeInv /\ OnceInv
    BY WTypeInit, OnceInit DEF WInit
  <2>2. WInit => SawTheEnd
    BY DEF WInit, Init, SawTheEnd
  <2>3. WInit => AliveInv
    <3>1. WInit => decodeQueue = <<>> /\ abandoned = {} /\ ~started /\ \A w \in Worker : ~stop[w]
      BY DEF WInit, Init
    <3>2. decodeQueue = <<>> => Handed = {}
      BY DEF Handed, ToSet
    <3>3. QED BY <3>1, <3>2 DEF AliveInv
  <2>4. QED BY <2>1, <2>2, <2>3
<1>2. Inv /\ [WNext]_wVars => Inv'
  BY WTypeStep, WOnceStep, EndStep, AliveStep
<1>3. Inv => OnlyHandsMissed
  BY QuietSettled DEF SawTheEnd, OnlyHandsMissed
<1>4. QED
  <2> HIDE DEF Inv
  <2>1. QED BY <1>1, <1>2, <1>3, PTL DEF WSpec

-----------------------------------------------------------------------------
(* The tokens and the books: who is admitted *)

\* The requests between Allocate and Acquire; those whose admission was counted, with
\* the ones given up; those that still have their blocks; those whose prompt was paid.
InGap   == {job[c] : c \in {d \in Chain : stage[d] = "gap"}}
Charged == Admitted \cup Handed \cup abandoned
Keeping == Charged \ robbed
Paid    == finished \cup (Charged \ InGap)

\* A place of an arrived request, and the places it is not in.
LEMMA WWhereIs ==
  ASSUME WTypeInv, OnceInv
  PROVE  /\ Held \subseteq Request /\ Handed \subseteq Request
         /\ finished \subseteq Request /\ rejected \subseteq Request /\ abandoned \subseteq Request
         /\ \A r \in Waiting \cup Handed \cup Held \cup finished \cup rejected \cup abandoned :
              r \in Request /\ r \in 1 .. arrived
         /\ \A r \in Waiting : r \notin Handed \cup Held \cup finished \cup rejected \cup abandoned
         /\ \A r \in Handed : r \notin Waiting \cup Held \cup finished \cup rejected \cup abandoned
         /\ \A r \in Held : r \notin Waiting \cup Handed \cup finished \cup rejected \cup abandoned
         /\ \A r \in finished : r \notin Waiting \cup Handed \cup Held \cup rejected \cup abandoned
<1>1. 1 .. arrived \subseteq Request
  BY BoundAssumption DEF WTypeInv, TypeOK, LoadOK, Request
<1>2. QED BY <1>1 DEF OnceInv, PlacesApart, Apart, PlacesCover

\* What is admitted is held, and what is in the gap is admitted.
LEMMA AdmittedHeld ==
  ASSUME WTypeInv
  PROVE  /\ Admitted \subseteq Held /\ InGap \subseteq Admitted
         /\ NoRequest \notin Admitted /\ NoRequest \notin InGap
<1>1. \A c \in Chain : stage[c] = "gap" => job[c] # NoRequest /\ stage[c] # "popped"
  BY ChainOf DEF StageAt, InHand
<1>2. QED BY <1>1 DEF Admitted, InGap, Held

\* Where the request in a chain's hand is, and where a step of the chain puts it.
LEMMA HandOf ==
  ASSUME WTypeInv, OnceInv, NEW c \in Chain, job[c] # NoRequest
  PROVE  /\ job[c] \in Held
         /\ job[c] \in Admitted <=> stage[c] # "popped"
         /\ job[c] \in InGap <=> stage[c] = "gap"
<1>1. \A d \in Chain : job[d] = job[c] => d = c
  BY DEF OnceInv, HeldOnce
<1>2. QED BY <1>1 DEF Held, Admitted, InGap

LEMMA HandChanges ==
  ASSUME WTypeInv, OnceInv, NEW c \in Chain,
         \A d \in Chain \ {c} : job'[d] = job[d] /\ stage'[d] = stage[d]
  PROVE  /\ stage'[c] # "popped" /\ job'[c] # NoRequest
              => Admitted' = (Admitted \ {job[c]}) \cup {job'[c]}
         /\ stage'[c] = "popped" \/ job'[c] = NoRequest => Admitted' = Admitted \ {job[c]}
         /\ stage'[c] = "gap" => InGap' = (InGap \ {job[c]}) \cup {job'[c]}
         /\ stage'[c] # "gap" => InGap' = InGap \ {job[c]}
<1>1. \A d \in Chain \ {c} : job[d] = job[c] => job[d] = NoRequest
  BY DEF OnceInv, HeldOnce
<1>2. NoRequest \notin Admitted /\ NoRequest \notin InGap
  BY AdmittedHeld
<1>3. \A x : x \in Admitted \ {job[c]}
               <=> x # NoRequest /\ \E d \in Chain \ {c} : stage[d] # "popped" /\ job[d] = x
  BY <1>1 DEF Admitted
<1>4. \A x : x \in InGap \ {job[c]} <=> \E d \in Chain \ {c} : stage[d] = "gap" /\ job[d] = x
  <2>1. ASSUME NEW d \in Chain \ {c}, stage[d] = "gap" PROVE job[d] # job[c]
    <3>1. job[d] \in InGap
      BY <2>1 DEF InGap
    <3>2. QED BY <1>1, <1>2, <3>1
  <2>2. QED BY <2>1 DEF InGap
<1>5. \A x : x \in Admitted' <=>
               x # NoRequest /\ \/ \E d \in Chain \ {c} : stage[d] # "popped" /\ job[d] = x
                                \/ stage'[c] # "popped" /\ job'[c] = x
  BY DEF Admitted
<1>6. \A x : x \in InGap' <=> \/ \E d \in Chain \ {c} : stage[d] = "gap" /\ job[d] = x
                              \/ stage'[c] = "gap" /\ job'[c] = x
  BY DEF InGap
<1>7. /\ stage'[c] # "popped" /\ job'[c] # NoRequest
           => Admitted' = (Admitted \ {job[c]}) \cup {job'[c]}
      /\ stage'[c] = "popped" \/ job'[c] = NoRequest => Admitted' = Admitted \ {job[c]}
  BY <1>3, <1>5
<1>8. /\ stage'[c] = "gap" => InGap' = (InGap \ {job[c]}) \cup {job'[c]}
      /\ stage'[c] # "gap" => InGap' = InGap \ {job[c]}
  BY <1>4, <1>6
<1>9. QED BY <1>7, <1>8

-----------------------------------------------------------------------------
(* Tokens *)

\* The tokens of the request in a chain's hand: none until its hand-off, one from then,
\* and fewer than it asked for while it decodes.
TokensOf(c) ==
  /\ stage[c] \in {"popped", "gap"} \/ pc[c] \in {"prefill", "transfer"} => generated[job[c]] = 0
  /\ stage[c] = "taken" => generated[job[c]] = 1
  /\ pc[c] = "decode" => generated[job[c]] \in 1 .. maxOutput[job[c]] - 1

TokensInv ==
  /\ \A r \in Waiting \cup rejected : generated[r] = 0
  /\ \A r \in Handed : generated[r] = 1
  /\ \A r \in finished : generated[r] = maxOutput[r]
  /\ \A c \in Chain : TokensOf(c)
  /\ Asks

\* A step of a chain that gives tokens to the request in its hand only, and puts that
\* one where its tokens belong.
LEMMA TokensFrame ==
  ASSUME WTypeInv, OnceInv, TokensInv, NEW c \in Chain,
         \A d \in Chain \ {c} : pc'[d] = pc[d] /\ job'[d] = job[d] /\ stage'[d] = stage[d],
         UNCHANGED <<arrived, maxOutput>>,
         \A q \in Request \ {job[c]} : generated'[q] = generated[q],
         Waiting' \subseteq Waiting,
         \A q \in Handed' : q \in Handed \/ (q = job[c] /\ generated'[q] = 1),
         \A q \in rejected' : q \in rejected \/ (q = job[c] /\ generated'[q] = 0),
         \A q \in finished' : q \in finished \/ (q = job[c] /\ generated'[q] = maxOutput[q]),
         TokensOf(c)'
  PROVE  TokensInv'
<1> DEFINE r == job[c]
<1>1. r # NoRequest => r \in Held /\ r \in 1 .. arrived
  BY HandOf, WWhereIs
<1>2. \A q \in Waiting \cup Handed \cup rejected \cup finished : q \in Request \ {r}
  BY <1>1, WWhereIs, RequestFacts DEF OnceInv, PlacesApart, Apart
<1>3. ASSUME NEW d \in Chain PROVE TokensOf(d)'
  <2>1. CASE d = c
    BY <2>1
  <2>2. CASE d # c
    <3>1. job[d] # NoRequest => job[d] \in Request /\ job[d] # r
      BY <2>2, ChainOf DEF OnceInv, HeldOnce
    <3>2. CASE job[d] = NoRequest
      <4>1. pc[d] \notin Working /\ stage[d] \notin InHand
        BY <3>2, ChainOf DEF StageAt
      <4>2. QED BY <2>2, <4>1 DEF TokensOf, Working, InHand
    <3>3. CASE job[d] # NoRequest
      <4>1. generated'[job[d]] = generated[job[d]] /\ TokensOf(d)
        BY <3>1, <3>3 DEF TokensInv
      <4>2. QED BY <2>2, <4>1 DEF TokensOf
    <3>4. QED BY <3>2, <3>3
  <2>3. QED BY <2>1, <2>2
<1>4. Asks'
  <2>1. ASSUME NEW q \in Request, q > arrived PROVE generated'[q] = 0
    <3>1. q # r
      BY <1>1, <2>1, RequestFacts DEF WTypeInv, TypeOK, LoadOK
    <3>2. QED BY <2>1, <3>1 DEF TokensInv, Asks
  <2>2. QED BY <2>1 DEF TokensInv, Asks
<1>5. /\ \A q \in Waiting' \cup rejected' : generated'[q] = 0
      /\ \A q \in Handed' : generated'[q] = 1
      /\ \A q \in finished' : generated'[q] = maxOutput[q]
  BY <1>2 DEF TokensInv
<1>6. QED BY <1>3, <1>4, <1>5 DEF TokensInv

\* A step that gives no token and moves no request.
LEMMA TokensSame ==
  ASSUME TokensInv,
         UNCHANGED <<arrived, maxOutput, generated, queue, decodeQueue, job, finished, rejected>>,
         \A c \in Chain : TokensOf(c)'
  PROVE  TokensInv'
  BY DEF TokensInv, Waiting, Handed, Asks

\* The steps in a callback that move no request: what is in hand keeps its tokens.
LEMMA TokensStays == \A c \in Chain : WTypeInv /\ OnceInv /\ TokensInv /\ Stays(c) => TokensInv'
<1> SUFFICES ASSUME WTypeInv, OnceInv, TokensInv, NEW c \in Chain, Stays(c) PROVE TokensInv'
  OBVIOUS
<1> DEFINE r == job[c]
<1>1. /\ UNCHANGED <<arrived, queue, decodeQueue, job, finished, rejected>>
      /\ Waiting' = Waiting /\ Handed' = Handed
  BY StaysDoes DEF Waiting, Handed
<1>2. /\ pc \in [Chain -> PC] /\ stage \in [Chain -> Stage] /\ StageAt(c) /\ TokensOf(c)
      /\ generated \in [Request -> Nat] /\ maxOutput \in [Request -> Nat]
  BY ChainOf DEF TokensInv, WorkOK, LoadOK
<1>3. CASE Looks(c)
  <2>1. /\ UNCHANGED <<maxOutput, generated, pc>>
        /\ \E s \in {"out", "tested", "missed", "idle"} : stage' = [stage EXCEPT ![c] = s]
    BY <1>2, <1>3 DEF Looks, Test, Miss, Look, Polls, Goes, WRetire, vars, loadVars, workVars
  <2>2. TokensOf(c)'
    BY <1>1, <1>2, <2>1 DEF TokensOf
  <2>3. QED BY <1>1, <1>2, <2>1, <2>2, TokensFrame
<1>4. CASE WExit(c) \/ (WRetire(c) /\ BothEmpty)
  <2>1. /\ UNCHANGED <<maxOutput, generated>>
        /\ pc' = [pc EXCEPT ![c] = "exited"] \/ pc' = [pc EXCEPT ![c] = "retired"]
        /\ stage' = [stage EXCEPT ![c] = "out"] \/ (stage' = stage /\ stage[c] = "out")
    BY <1>4 DEF WExit, Exit, WRetire, Goes, loadVars, workVars
  <2>2. TokensOf(c)'
    BY <1>1, <1>2, <2>1 DEF TokensOf
  <2>3. QED BY <1>1, <1>2, <2>1, <2>2, TokensFrame
<1>5. CASE WAdmit(c) \/ Acquire(c)
  <2>1. /\ UNCHANGED <<maxOutput, generated>>
        /\ stage[c] \in {"popped", "gap"}
        /\ \/ pc' = pc /\ stage' = [stage EXCEPT ![c] = "gap"]
           \/ pc' = [pc EXCEPT ![c] = "prefill"] /\ stage' = [stage EXCEPT ![c] = "out"]
    BY <1>5 DEF WAdmit, Acquire, Goes, loadVars, workVars
  <2>2. TokensOf(c)'
    BY <1>1, <1>2, <2>1 DEF TokensOf, StageAt
  <2>3. QED BY <1>1, <1>2, <2>1, <2>2, TokensFrame
<1>6. CASE WPrefillDone(c)
  <2>1. /\ UNCHANGED <<maxOutput, generated, stage>>
        /\ pc[c] = "prefill" /\ pc' = [pc EXCEPT ![c] = "transfer"]
    BY <1>6 DEF WPrefillDone, PrefillDone, loadVars, workVars
  <2>2. TokensOf(c)'
    BY <1>1, <1>2, <2>1 DEF TokensOf, StageAt
  <2>3. QED BY <1>1, <1>2, <2>1, <2>2, TokensFrame
<1>7. CASE GoesOn(c)
  <2>1. r \in Request /\ r \in 1 .. arrived
    <3>1. r \in Request /\ r # NoRequest
      BY <1>7, JobInHand DEF GoesOn, FirstStep, DecodeToken, InHand, Working
    <3>2. QED BY <3>1, HandOf, WWhereIs
  <2>2. /\ UNCHANGED maxOutput /\ pc' = [pc EXCEPT ![c] = "decode"]
        /\ stage' = [stage EXCEPT ![c] = "out"]
    BY <1>7, GoesOnDoes DEF loadVars
  <2>3. /\ \A q \in Request \ {r} : generated'[q] = generated[q]
        /\ generated'[r] \in 1 .. maxOutput[r] - 1
    <3>1. CASE FirstStep(c) /\ ~IsFinished(r, generated[r])
      <4>1. generated' = generated /\ generated[r] = 1 /\ ~(1 >= maxOutput[r])
        BY <1>2, <3>1 DEF FirstStep, IsFinished, TokensOf
      <4>2. QED BY <1>2, <2>1, <4>1
    <3>2. CASE DecodeToken(c)
      <4>1. /\ generated' = [generated EXCEPT ![r] = generated[r] + 1]
            /\ ~(generated'[r] >= maxOutput[r]) /\ generated[r] \in 1 .. maxOutput[r] - 1
        BY <1>2, <3>2 DEF DecodeToken, IsFinished, TokensOf
      <4>2. QED BY <1>2, <2>1, <4>1
    <3>3. QED BY <1>7, <3>1, <3>2 DEF GoesOn
  <2>4. TokensOf(c)'
    BY <1>1, <1>2, <2>2, <2>3 DEF TokensOf
  <2>5. QED BY <1>1, <1>2, <2>2, <2>3, <2>4, TokensFrame
<1>8. QED BY <1>3, <1>4, <1>5, <1>6, <1>7 DEF Stays

\* Whoever pops takes the tokens with the request.
LEMMA TokensPop == \A c \in Chain :
  WTypeInv /\ OnceInv /\ TokensInv /\ (Pop(c) \/ Take(c)) => TokensInv'
<1> SUFFICES ASSUME WTypeInv, OnceInv, TokensInv, NEW c \in Chain, Pop(c) \/ Take(c)
             PROVE  TokensInv'
  OBVIOUS
<1>1. /\ UNCHANGED <<arrived, maxOutput, generated, finished, rejected, pc>>
      /\ \A d \in Chain \ {c} : pc'[d] = pc[d] /\ job'[d] = job[d] /\ stage'[d] = stage[d]
  BY ChainOf DEF Pop, Take, Goes, loadVars, fateVars
<1>2. StageAt(c) /\ stage \in [Chain -> Stage] /\ WorkOK /\ pc[c] \notin Working
  BY ChainOf DEF Pop, Take, Working
<1>3. CASE Pop(c)
  <2>1. /\ Head(queue) \in Request /\ Head(queue) \in Waiting
        /\ Waiting' \subseteq Waiting /\ Handed' = Handed
    BY <1>2, <1>3, PopOldest DEF Pop, Handed
  <2>2. job'[c] = Head(queue) /\ stage'[c] = "popped"
    BY <1>2, <1>3 DEF Pop, Goes, WorkOK
  <2>3. TokensOf(c)'
    BY <1>1, <1>2, <2>1, <2>2 DEF TokensInv, TokensOf, Working
  <2>4. QED BY <1>1, <2>1, <2>3, TokensFrame
<1>4. CASE Take(c)
  <2>1. /\ Head(decodeQueue) \in Request /\ Head(decodeQueue) \in Handed
        /\ Handed' \subseteq Handed /\ Waiting' = Waiting
    BY <1>2, <1>4, PopFirstHandoff DEF Take, Waiting
  <2>2. job'[c] = Head(decodeQueue) /\ stage'[c] = "taken"
    BY <1>2, <1>4 DEF Take, Goes, WorkOK
  <2>3. TokensOf(c)'
    BY <1>1, <1>2, <2>1, <2>2 DEF TokensInv, TokensOf, Working
  <2>4. QED BY <1>1, <2>1, <2>3, TokensFrame
<1>5. QED BY <1>3, <1>4

LEMMA TokensHandOff == \A c \in Chain : WTypeInv /\ OnceInv /\ TokensInv /\ WHandOff(c) => TokensInv'
<1> SUFFICES ASSUME WTypeInv, OnceInv, TokensInv, NEW c \in Chain, WHandOff(c) PROVE TokensInv'
  OBVIOUS
<1> DEFINE r == job[c]
<1>1. /\ pc[c] = "transfer" /\ generated' = [generated EXCEPT ![r] = generated[r] + 1]
      /\ decodeQueue' = Append(decodeQueue, r)
      /\ job' = [job EXCEPT ![c] = NoRequest] /\ pc' = [pc EXCEPT ![c] = "prefillStep"]
      /\ UNCHANGED <<arrived, maxOutput, finished, rejected, queue, stage>>
  BY DEF WHandOff, HandOff, loadVars, fateVars
<1>2. r \in Request /\ decodeQueue \in Seq(Request) /\ generated \in [Request -> Nat]
  BY <1>1, JobInHand, ChainOf DEF Working, WorkOK
<1>3. generated[r] = 0 /\ generated'[r] = 1 /\ stage[c] = "out" /\ pc \in [Chain -> PC]
      /\ stage \in [Chain -> Stage] /\ job \in [Chain -> Request \cup {NoRequest}]
  <2>1. generated[r] = 0
    BY <1>1 DEF TokensInv, TokensOf
  <2>2. QED BY <1>1, <1>2, <2>1, ChainOf DEF StageAt
<1>4. Handed' = Handed \cup {r} /\ Waiting' = Waiting
  <2>1. ToSet(Append(decodeQueue, r)) = ToSet(decodeQueue) \cup {r}
    BY <1>2, PushSet
  <2>2. QED BY <1>1, <2>1 DEF Handed, Waiting
<1>5. TokensOf(c)'
  BY <1>1, <1>3 DEF TokensOf
<1>6. /\ \A d \in Chain \ {c} : pc'[d] = pc[d] /\ job'[d] = job[d] /\ stage'[d] = stage[d]
      /\ \A q \in Request \ {r} : generated'[q] = generated[q]
  BY <1>1, <1>2, <1>3
<1>7. QED BY <1>1, <1>3, <1>4, <1>5, <1>6, TokensFrame

\* A request that settles settles with the tokens it should have.
LEMMA SettledTokens ==
  ASSUME WTypeInv, TokensInv, NEW c \in Chain
  PROVE  /\ WReject(c) => generated[job[c]] = 0
         /\ Finishes(c) => generated'[job[c]] = maxOutput[job[c]]
<1> DEFINE r == job[c]
<1>1. TokensOf(c) /\ Asks
  BY DEF TokensInv
<1>2. WReject(c) => generated[r] = 0
  BY <1>1 DEF WReject, TokensOf
<1>3. ASSUME Finishes(c) PROVE generated'[r] = maxOutput[r]
  <2>1. r \in Request /\ maxOutput[r] \in Nat /\ generated \in [Request -> Nat]
    BY <1>3, FinishesDoes, ChainOf DEF LoadOK, WorkOK
  <2>2. CASE FirstStep(c) /\ IsFinished(r, generated[r])
    <3>1. generated' = generated /\ generated[r] = 1 /\ 1 >= maxOutput[r]
      BY <1>1, <2>2 DEF FirstStep, IsFinished, TokensOf
    <3>2. r \in 1 .. arrived
      <4>1. generated[r] # 0 /\ arrived \in Nat /\ r \in Nat /\ r # 0
        BY <2>1, <3>1, RequestFacts, ChainOf DEF LoadOK, NoRequest
      <4>2. ~(r > arrived)
        BY <1>1, <2>1, <4>1 DEF Asks
      <4>3. QED BY <4>1, <4>2
    <3>3. maxOutput[r] > 0
      BY <1>1, <3>2 DEF Asks
    <3>4. QED BY <2>1, <3>1, <3>3
  <2>3. CASE Complete(c)
    <3>1. /\ generated' = [generated EXCEPT ![r] = generated[r] + 1]
          /\ generated'[r] >= maxOutput[r] /\ generated[r] \in 1 .. maxOutput[r] - 1
      BY <1>1, <2>3 DEF Complete, IsFinished, TokensOf
    <3>2. QED BY <2>1, <3>1
  <2>4. QED BY <1>3, <2>2, <2>3 DEF Finishes
<1>4. QED BY <1>2, <1>3

LEMMA TokensSettles == \A c \in Chain : WTypeInv /\ OnceInv /\ TokensInv /\ Settles(c) => TokensInv'
<1> SUFFICES ASSUME WTypeInv, OnceInv, TokensInv, NEW c \in Chain, Settles(c) PROVE TokensInv'
  OBVIOUS
<1> DEFINE r == job[c]
<1>1. /\ r \in Request /\ job' = [job EXCEPT ![c] = NoRequest]
      /\ UNCHANGED <<arrived, queue, decodeQueue>>
      /\ \/ finished' = finished \cup {r} /\ UNCHANGED <<rejected, abandoned>>
         \/ rejected' = rejected \cup {r} /\ UNCHANGED <<finished, abandoned>>
         \/ abandoned' = abandoned \cup {r} /\ UNCHANGED <<finished, rejected>>
  BY SettlesDoes
<1>2. /\ pc \in [Chain -> PC] /\ stage \in [Chain -> Stage] /\ StageAt(c)
      /\ generated \in [Request -> Nat] /\ job \in [Chain -> Request \cup {NoRequest}]
  BY ChainOf DEF WorkOK
<1>3. /\ UNCHANGED maxOutput
      /\ generated' = generated \/ generated' = [generated EXCEPT ![r] = generated[r] + 1]
      /\ \E p \in {"prefillStep", "decodeStep", "aborted"} : pc' = [pc EXCEPT ![c] = p]
      /\ stage' = [stage EXCEPT ![c] = "out"]
  <2>1. CASE WReject(c)
    <3>1. pc' = [pc EXCEPT ![c] = "prefillStep"]
      BY <1>2, <2>1 DEF WReject, StageAt
    <3>2. QED BY <2>1, <3>1 DEF WReject, Goes, loadVars
  <2>2. CASE GiveUp(c)
    BY <2>2 DEF GiveUp, Goes, loadVars
  <2>3. CASE Abandon(c) /\ UNCHANGED <<stage, robbed>>
    <3>1. stage' = [stage EXCEPT ![c] = "out"]
      BY <1>2, <2>3 DEF Abandon, StageAt
    <3>2. QED BY <2>3, <3>1 DEF Abandon, loadVars
  <2>4. CASE Finishes(c)
    BY <2>4, FinishesDoes DEF loadVars
  <2>5. QED BY <2>1, <2>2, <2>3, <2>4 DEF Settles
<1>4. /\ \A q \in rejected' : q \in rejected \/ (q = r /\ generated'[q] = 0)
      /\ \A q \in finished' : q \in finished \/ (q = r /\ generated'[q] = maxOutput[q])
  <2>1. CASE WReject(c)
    <3>1. generated' = generated /\ finished' = finished /\ rejected' = rejected \cup {r}
      BY <2>1 DEF WReject
    <3>2. QED BY <2>1, <3>1, SettledTokens
  <2>2. CASE GiveUp(c) \/ (Abandon(c) /\ UNCHANGED <<stage, robbed>>)
    BY <2>2 DEF GiveUp, Abandon
  <2>3. CASE Finishes(c)
    BY <2>3, FinishesDoes, SettledTokens DEF Finish
  <2>4. QED BY <2>1, <2>2, <2>3 DEF Settles
<1>5. TokensOf(c)'
  BY <1>2, <1>3 DEF TokensOf
<1>6. /\ \A d \in Chain \ {c} : pc'[d] = pc[d] /\ job'[d] = job[d] /\ stage'[d] = stage[d]
      /\ \A q \in Request \ {r} : generated'[q] = generated[q]
      /\ Waiting' = Waiting /\ Handed' = Handed
  BY <1>1, <1>2, <1>3 DEF Waiting, Handed
<1>7. QED BY <1>1, <1>3, <1>4, <1>5, <1>6, TokensFrame

\* Arrivals: the next request has no tokens and asks for some.
LEMMA TokensArrive == WTypeInv /\ OnceInv /\ TokensInv /\ WArrive => TokensInv'
<1> SUFFICES ASSUME WTypeInv, OnceInv, TokensInv, WArrive PROVE TokensInv'
  OBVIOUS
<1>0. Arrive /\ UNCHANGED <<generated, decodeQueue, job, finished, rejected, pc, stage>>
  BY DEF WArrive, Arrive, fateVars, wallVars
<1>1. CASE stopped
  <2>1. UNCHANGED <<arrived, maxOutput, queue>>
    BY <1>0, <1>1 DEF Arrive
  <2>2. \A c \in Chain : TokensOf(c)'
    BY <1>0, <2>1 DEF TokensInv, TokensOf
  <2>3. QED BY <1>0, <2>1, <2>2, TokensSame
<1>2. CASE ~stopped
  <2>1. /\ arrived' = arrived + 1 /\ queue' = Append(queue, arrived + 1)
        /\ \E o \in OutputTokens : maxOutput' = [maxOutput EXCEPT ![arrived + 1] = o]
    BY <1>0, <1>2 DEF Arrive
  <2>2. /\ queue \in Seq(Request) /\ arrived \in Nat /\ arrived + 1 \in Request
        /\ maxOutput \in [Request -> Nat]
    BY <1>0, <1>2, BoundAssumption
    DEF WTypeInv, TypeOK, LoadOK, WorkOK, ArrivalsBounded, Arrive, Request
  <2>3. Waiting' = Waiting \cup {arrived + 1} /\ Handed' = Handed
    BY <1>0, <2>1, <2>2, PushSet DEF Waiting, Handed
  <2>4. \A r \in Request : r # arrived + 1 => maxOutput'[r] = maxOutput[r]
    BY <2>1, <2>2
  <2>5. maxOutput'[arrived + 1] > 0
    BY <2>1, <2>2, LoadAssumption
  <2>6. generated[arrived + 1] = 0
    BY <2>2 DEF TokensInv, Asks
  <2>7. \A r \in finished : r \in Request /\ r # arrived + 1
    BY <2>2, WWhereIs
  <2>8. ASSUME NEW c \in Chain PROVE TokensOf(c)'
    <3>1. pc[c] = "decode" => job[c] \in Request /\ job[c] # arrived + 1
      <4>1. pc[c] = "decode" => job[c] \in Request /\ job[c] \in Held
        BY JobInHand, HandOf DEF Working
      <4>2. QED BY <2>2, <4>1, WWhereIs
    <3>2. QED BY <1>0, <2>4, <3>1 DEF TokensInv, TokensOf
  <2>9. Asks'
    <3>1. \A r \in 1 .. arrived + 1 : r \in Request /\ (r \in 1 .. arrived \/ r = arrived + 1)
      BY <2>2, BoundAssumption DEF Request
    <3>2. \A r \in Request : r > arrived + 1 => r > arrived
      BY <2>2, RequestFacts
    <3>3. QED BY <1>0, <2>1, <2>2, <2>4, <2>5, <3>1, <3>2 DEF TokensInv, Asks
  <2>10. /\ \A r \in Waiting' \cup rejected' : generated'[r] = 0
         /\ \A r \in Handed' : generated'[r] = 1
         /\ \A r \in finished' : generated'[r] = maxOutput'[r]
    BY <1>0, <2>3, <2>4, <2>6, <2>7 DEF TokensInv
  <2>11. QED BY <2>8, <2>9, <2>10 DEF TokensInv
<1>3. QED BY <1>1, <1>2

\* The calls and the drains give no token; a fresh chain has nothing in hand.
LEMMA TokensCalls ==
  WTypeInv /\ TokensInv /\ (CallStep \/ WStart \/ UNCHANGED wVars) => TokensInv'
<1> SUFFICES ASSUME WTypeInv, TokensInv, CallStep \/ WStart \/ UNCHANGED wVars PROVE TokensInv'
  OBVIOUS
<1>1. UNCHANGED <<arrived, queue, decodeQueue, job, finished, rejected, abandoned>>
  BY CallsDo
<1>2. UNCHANGED <<maxOutput, generated, stage>>
  BY DEF CallStep, WStart, Start, Stops, StopRequest, StopStep, StopCopy, StopTest, StopClose,
         ResizeTest, ResizeClose, DrainFails, DrainDone, DrainTest, DrainRenews,
         wVars, wallVars, vars, loadVars, workVars
<1>3. ASSUME NEW c \in Chain PROVE pc'[c] = pc[c] \/ pc'[c] \notin Working
  <2>1. CASE WStart \/ UNCHANGED wVars
    BY <2>1 DEF WStart, Start, wVars, vars, Working
  <2>2. CASE Stops \/ ResizeTest \/ ResizeClose
    BY <2>2 DEF Stops, StopRequest, StopStep, StopCopy, StopTest, StopClose, ResizeTest, ResizeClose, vars
  <2>3. ASSUME NEW w \in Worker, DrainFails(w) \/ DrainTest(w)
        PROVE  pc' = pc
    BY <2>3 DEF DrainFails, DrainDone, DrainTest, vars
  <2>4. ASSUME NEW w \in Worker, DrainRenews(w)
        PROVE  pc'[c] = pc[c] \/ pc'[c] \notin Working
    <3>1. PICK p \in {"prefillStep", "decodeStep"} : pc' = [pc EXCEPT ![<<w, epoch[w] + 1>>] = p]
      BY <2>4, RenewsDoes
    <3>2. pc \in [Chain -> PC]
      BY ChainOf
    <3>3. QED BY <3>1, <3>2 DEF Working
  <2>5. QED BY <2>1, <2>2, <2>3, <2>4 DEF CallStep
<1>4. \A c \in Chain : TokensOf(c)'
  BY <1>1, <1>2, <1>3 DEF TokensInv, TokensOf, Working
<1>5. QED BY <1>1, <1>2, <1>4, TokensSame

LEMMA TokensStep == WTypeInv /\ OnceInv /\ TokensInv /\ [WNext]_wVars => TokensInv'
<1> SUFFICES ASSUME WTypeInv, OnceInv, TokensInv, [WNext]_wVars PROVE TokensInv'
  OBVIOUS
<1>1. ASSUME NEW c \in Chain, WChainStep(c) PROVE TokensInv'
  BY <1>1, WMoves, TokensStays, TokensPop, TokensHandOff, TokensSettles
<1>2. QED BY <1>1, TokensArrive, TokensCalls, WNextSplit

LEMMA TokensInit == WInit => TokensInv
<1> SUFFICES ASSUME WInit PROVE TokensInv
  OBVIOUS
<1>1. /\ Waiting = {} /\ Handed = {} /\ rejected = {} /\ finished = {} /\ arrived = 0
      /\ \A r \in Request : generated[r] = 0
      /\ \A c \in Chain : stage[c] = "out" /\ pc[c] = "unborn"
  BY DEF WInit, Init, Waiting, Handed, ToSet
<1>2. QED BY <1>1 DEF TokensInv, TokensOf, Asks

\* On the wall clock too each request is given its own tokens, and as many as it asked
\* for, by however many goroutines.
THEOREM WallOutputExact == WSpec => []OutputExact
<1> DEFINE Inv == WTypeInv /\ OnceInv /\ TokensInv
<1>1. WInit => Inv
  BY WTypeInit, OnceInit, TokensInit DEF WInit
<1>2. Inv /\ [WNext]_wVars => Inv'
  BY WTypeStep, WOnceStep, TokensStep
<1>3. Inv => OutputExact
  BY DEF TokensInv, TokensOf, OutputExact
<1>4. QED
  <2> HIDE DEF Inv
  <2>1. QED BY <1>1, <1>2, <1>3, PTL DEF WSpec

-----------------------------------------------------------------------------
(* The books *)

WBooksInv ==
  /\ WTypeInv /\ OnceInv /\ TokensInv /\ WallAccounts
  /\ robbed \subseteq Charged \cup finished

\* WallAccounts, with its sets named.
WForm ==
  /\ inflight = Cardinality(Admitted \cup Handed)
  /\ kvBlocks = UNION {{r} \X (0 .. BlocksNeeded(prompt[r]) - 1) : r \in Keeping}
  /\ Cardinality(kvBlocks) <= KVCapacity
  /\ reg["completed"] = Cardinality(finished)
  /\ reg["rejections"] = Cardinality(rejected) /\ reg["dropped"] = reg["rejections"]
  /\ reg["prefillTokens"] = SumFunctionOnSet(prompt, Paid)
  /\ reg["decodeTokens"] = SumFunctionOnSet(maxOutput, finished)

LEMMA WallForm == (WallAccounts <=> WForm) /\ (WallAccounts' <=> WForm')
<1>1. WallAccounts <=> WForm
  BY DEF WallAccounts, WForm, Charged, InGap, Keeping, Paid
<1>2. WallAccounts' <=> WForm'
  BY <1>1, PTL
<1>3. QED BY <1>1, <1>2

LEMMA WPlacesFinite ==
  ASSUME WTypeInv, OnceInv
  PROVE  /\ Admitted \cup Handed \subseteq Request /\ IsFiniteSet(Admitted \cup Handed)
         /\ Charged \subseteq Request
         /\ Keeping \subseteq Request /\ IsFiniteSet(Keeping)
         /\ finished \subseteq Request /\ IsFiniteSet(finished)
         /\ rejected \subseteq Request /\ IsFiniteSet(rejected)
         /\ Paid \subseteq Request /\ IsFiniteSet(Paid)
<1>1. IsFiniteSet(Request)
  BY FS_Interval, BoundAssumption DEF Request
<1>2. /\ Admitted \cup Handed \subseteq Request /\ Charged \subseteq Request
      /\ finished \subseteq Request /\ rejected \subseteq Request
  BY WWhereIs, AdmittedHeld DEF Charged
<1>3. Keeping \subseteq Request /\ Paid \subseteq Request
  BY <1>2 DEF Keeping, Paid
<1>4. QED BY <1>1, <1>2, <1>3, FS_Subset

LEMMA WNeedNat == ASSUME WTypeInv PROVE Need \in [Request -> Nat]
  BY BlocksNat DEF Need, WTypeInv, TypeOK, LoadOK

\* The blocks of requests, in both spellings.
LEMMA BlocksNamed ==
  ASSUME NEW S \in SUBSET Request
  PROVE  UNION {{r} \X (0 .. BlocksNeeded(prompt[r]) - 1) : r \in S} = Blocked(Need, S)
  BY DEF Blocked, Need

LEMMA WBlocks ==
  ASSUME WTypeInv, OnceInv, WallAccounts
  PROVE  /\ kvBlocks = Blocked(Need, Keeping) /\ IsFiniteSet(kvBlocks)
         /\ Cardinality(kvBlocks) <= KVCapacity
<1>1. Keeping \in SUBSET Request /\ IsFiniteSet(Keeping) /\ Need \in [Request -> Nat]
  BY WPlacesFinite, WNeedNat
<1>2. kvBlocks = Blocked(Need, Keeping)
  BY <1>1, WallForm, BlocksNamed DEF WForm
<1>3. IsFiniteSet(Blocked(Need, Keeping))
  BY <1>1, BlockedCardinality
<1>4. QED BY <1>2, <1>3, WallForm DEF WForm

\* A step that leaves the accounts alone and keeps every charged request charged.
LEMMA WBooksSame ==
  ASSUME WBooksInv, Charged' = Charged, InGap' = InGap,
         \/ (Admitted \cup Handed)' = Admitted \cup Handed /\ inflight' = inflight
         \/ \E r \in Admitted \cup Handed :
              (Admitted \cup Handed)' = (Admitted \cup Handed) \ {r} /\ inflight' = inflight - 1,
         UNCHANGED <<prompt, maxOutput, kvBlocks, robbed, finished, rejected, reg>>
  PROVE  WallAccounts' /\ (robbed \subseteq Charged \cup finished)'
<1>1. WTypeInv /\ OnceInv /\ WallAccounts
  BY DEF WBooksInv
<1>2. Keeping' = Keeping /\ Paid' = Paid
  BY DEF Keeping, Paid
<1>3. inflight' = Cardinality((Admitted \cup Handed)')
  <2>1. IsFiniteSet(Admitted \cup Handed) /\ inflight = Cardinality(Admitted \cup Handed)
    BY <1>1, WPlacesFinite, WallForm DEF WForm
  <2>2. ASSUME NEW r \in Admitted \cup Handed
        PROVE  Cardinality((Admitted \cup Handed) \ {r}) = inflight - 1
    BY <2>1, CountOneLess
  <2>3. QED BY <2>1, <2>2
<1>4. WallAccounts'
  BY <1>1, <1>2, <1>3, WallForm DEF WForm
<1>5. QED BY <1>4 DEF WBooksInv

\* What is nobody's blocks: those of the requests that lost theirs.
LEMMA SweptBlocks ==
  ASSUME WBooksInv, NEW victims \in SUBSET Unpinned
  PROVE  /\ kvBlocks \ BlocksOf(victims) = Blocked(Need, Keeping \ victims)
         /\ victims \subseteq InGap
         /\ IsFiniteSet(kvBlocks \ BlocksOf(victims))
         /\ Cardinality(kvBlocks \ BlocksOf(victims)) <= KVCapacity
<1>1. /\ kvBlocks = Blocked(Need, Keeping) /\ IsFiniteSet(kvBlocks)
      /\ Cardinality(kvBlocks) <= KVCapacity
  BY WBlocks DEF WBooksInv
<1>2. victims \subseteq InGap
  BY DEF Unpinned, InGap
<1>3. \A b : b \in Blocked(Need, Keeping \ victims)
              <=> b \in Blocked(Need, Keeping) /\ b[1] \notin victims
  BY DEF Blocked
<1>4. \A b \in kvBlocks : b \in BlocksOf(victims) <=> b[1] \in victims
  BY DEF BlocksOf
<1>5. kvBlocks \ BlocksOf(victims) = Blocked(Need, Keeping \ victims)
  BY <1>1, <1>3, <1>4
<1>6. /\ IsFiniteSet(kvBlocks \ BlocksOf(victims))
      /\ Cardinality(kvBlocks \ BlocksOf(victims)) <= KVCapacity
  <2>1. kvBlocks \ BlocksOf(victims) \in SUBSET kvBlocks
    OBVIOUS
  <2>2. KVCapacity \in Int
    BY KVAssumption
  <2>3. QED BY <1>1, <2>1, <2>2, BlocksLeft, FS_Subset
<1>7. QED BY <1>2, <1>5, <1>6

\* Blocks and sums depend on the arrived requests' numbers only.
LEMMA WBooksArrive == WBooksInv /\ WArrive => WallAccounts' /\ (robbed \subseteq Charged \cup finished)'
<1> SUFFICES ASSUME WBooksInv, WArrive
             PROVE  WallAccounts' /\ (robbed \subseteq Charged \cup finished)'
  OBVIOUS
<1>1. WTypeInv /\ OnceInv /\ WallAccounts
  BY DEF WBooksInv
<1>2. /\ Arrive /\ UNCHANGED <<kvBlocks, finished, rejected, reg, decodeQueue, job, abandoned>>
      /\ UNCHANGED <<stage, robbed, inflight>>
  BY DEF WArrive, Arrive, fateVars, wallVars
<1>3. /\ Charged' = Charged /\ InGap' = InGap
      /\ (Admitted \cup Handed)' = Admitted \cup Handed
  BY <1>2 DEF Charged, InGap, Admitted, Handed
<1>4. CASE stopped
  BY <1>2, <1>3, <1>4, WBooksSame DEF Arrive
<1>5. CASE ~stopped
  <2>1. \E p \in PromptTokens, o \in OutputTokens :
          /\ prompt' = [prompt EXCEPT ![arrived + 1] = p]
          /\ maxOutput' = [maxOutput EXCEPT ![arrived + 1] = o]
    BY <1>2, <1>5 DEF Arrive
  <2>2. /\ prompt \in [Request -> Nat] /\ maxOutput \in [Request -> Nat]
        /\ arrived \in Nat /\ arrived + 1 \notin 1 .. arrived
    BY <1>1 DEF WTypeInv, TypeOK, LoadOK
  <2>3. Keeping' = Keeping /\ Paid' = Paid
    BY <1>2, <1>3 DEF Keeping, Paid
  <2>4. \A r \in Charged \cup finished : r \in Request /\ r # arrived + 1
    BY <1>1, <2>2, WWhereIs, AdmittedHeld DEF Charged
  <2>5. \A r \in Charged \cup finished : prompt'[r] = prompt[r] /\ maxOutput'[r] = maxOutput[r]
    BY <2>1, <2>2, <2>4
  <2>6. Keeping \subseteq Charged /\ Paid \subseteq Charged \cup finished
    BY DEF Keeping, Paid
  <2>7. SumFunctionOnSet(prompt', Paid) = SumFunctionOnSet(prompt, Paid)
    BY <1>1, <2>5, <2>6, WPlacesFinite, SumSame
  <2>8. SumFunctionOnSet(maxOutput', finished) = SumFunctionOnSet(maxOutput, finished)
    BY <1>1, <2>5, WPlacesFinite, SumSame
  <2>9. UNION {{r} \X (0 .. BlocksNeeded(prompt'[r]) - 1) : r \in Keeping}
          = UNION {{r} \X (0 .. BlocksNeeded(prompt[r]) - 1) : r \in Keeping}
    BY <2>5, <2>6
  <2>10. (UNION {{r} \X (0 .. BlocksNeeded(prompt[r]) - 1) : r \in Keeping})'
           = UNION {{r} \X (0 .. BlocksNeeded(prompt'[r]) - 1) : r \in Keeping}
    BY <2>3
  <2>11. WallAccounts'
    BY <1>1, <1>2, <1>3, <2>3, <2>7, <2>8, <2>9, <2>10, WallForm DEF WForm
  <2>12. QED BY <1>2, <1>3, <2>11 DEF WBooksInv
<1>6. QED BY <1>4, <1>5

\* What a step has to show for the books to balance after it.
LEMMA WClose ==
  ASSUME WTypeInv, OnceInv, UNCHANGED <<prompt, maxOutput>>,
         Keeping' \subseteq Request, kvBlocks' = Blocked(Need, Keeping'),
         Cardinality(kvBlocks') <= KVCapacity,
         inflight' = Cardinality((Admitted \cup Handed)'),
         reg'["completed"] = Cardinality(finished'),
         reg'["rejections"] = Cardinality(rejected'), reg'["dropped"] = reg'["rejections"],
         reg'["prefillTokens"] = SumFunctionOnSet(prompt, Paid'),
         reg'["decodeTokens"] = SumFunctionOnSet(maxOutput, finished')
  PROVE  WallAccounts'
<1>1. UNION {{r} \X (0 .. BlocksNeeded(prompt[r]) - 1) : r \in Keeping'} = Blocked(Need, Keeping')
  BY BlocksNamed
<1>2. QED BY <1>1, WallForm DEF WForm

\* A step in which nobody's hand changes.
LEMMA HandsSame ==
  ASSUME UNCHANGED job,
         \A c \in Chain : /\ stage'[c] = "popped" <=> stage[c] = "popped"
                          /\ stage'[c] = "gap" <=> stage[c] = "gap"
  PROVE  Admitted' = Admitted /\ InGap' = InGap
BY DEF Admitted, InGap

\* The steps of a chain that only wait, compute or decode.
LEMMA WBooksStays == \A c \in Chain :
  WBooksInv /\ Stays(c) /\ ~WAdmit(c) /\ ~Acquire(c)
    => WallAccounts' /\ (robbed \subseteq Charged \cup finished)'
<1> SUFFICES ASSUME WBooksInv, NEW c \in Chain, Stays(c), ~WAdmit(c), ~Acquire(c)
             PROVE  WallAccounts' /\ (robbed \subseteq Charged \cup finished)'
  OBVIOUS
<1>1. WTypeInv
  BY DEF WBooksInv
<1>2. stage \in [Chain -> Stage] /\ StageAt(c)
  BY <1>1, ChainOf
<1>3. UNCHANGED <<decodeQueue, job, finished, rejected, abandoned>>
  BY StaysDoes
<1>4. /\ UNCHANGED <<prompt, maxOutput, kvBlocks, robbed, reg, inflight>>
      /\ stage[c] \notin {"popped", "gap"}
      /\ \E s \in Stage \ {"popped", "gap"} : stage' = [stage EXCEPT ![c] = s]
  <2>1. CASE Looks(c)
    BY <2>1 DEF Looks, Test, Miss, Look, Polls, Goes, WRetire, vars, loadVars, workVars, fateVars, Stage
  <2>2. CASE WExit(c)
    <3>1. UNCHANGED <<prompt, maxOutput, kvBlocks, robbed, reg, inflight, stage>> /\ stage[c] = "out"
      BY <2>2 DEF WExit, Exit, loadVars, workVars, fateVars
    <3>2. stage' = [stage EXCEPT ![c] = "out"]
      BY <1>2, <3>1
    <3>3. QED BY <3>1, <3>2 DEF Stage
  <2>3. CASE WRetire(c) /\ BothEmpty
    BY <2>3 DEF WRetire, Goes, loadVars, workVars, fateVars, Stage
  <2>4. CASE WPrefillDone(c)
    <3>1. /\ UNCHANGED <<prompt, maxOutput, kvBlocks, robbed, reg, inflight, stage>>
          /\ pc[c] = "prefill"
      BY <2>4 DEF WPrefillDone, PrefillDone, loadVars, workVars, fateVars
    <3>2. stage[c] = "out" /\ stage' = [stage EXCEPT ![c] = "out"]
      BY <1>2, <3>1 DEF StageAt
    <3>3. QED BY <3>1, <3>2 DEF Stage
  <2>5. CASE GoesOn(c)
    <3>1. /\ UNCHANGED <<prompt, maxOutput, kvBlocks, robbed, reg, inflight>>
          /\ stage[c] = "taken" \/ pc[c] = "decode"
          /\ stage' = [stage EXCEPT ![c] = "out"]
      BY <1>1, <2>5, GoesOnDoes DEF loadVars, fateVars
    <3>2. QED BY <1>2, <3>1 DEF StageAt, Stage
  <2>6. QED BY <2>1, <2>2, <2>3, <2>4, <2>5 DEF Stays
<1>5. Admitted' = Admitted /\ InGap' = InGap
  <2>1. ASSUME NEW d \in Chain
        PROVE  /\ stage'[d] = "popped" <=> stage[d] = "popped"
               /\ stage'[d] = "gap" <=> stage[d] = "gap"
    BY <1>2, <1>4
  <2>2. QED BY <1>3, <2>1, HandsSame
<1>6. Charged' = Charged /\ (Admitted \cup Handed)' = Admitted \cup Handed
  BY <1>3, <1>5 DEF Charged, Handed
<1>7. QED BY <1>3, <1>4, <1>5, <1>6, WBooksSame

\* The steps that move a request on, or give it up.
LEMMA WBooksMoves == \A c \in Chain :
  WBooksInv /\ (Pop(c) \/ Take(c) \/ WHandOff(c) \/ GiveUp(c)
                  \/ (Abandon(c) /\ UNCHANGED <<stage, robbed>>))
    => WallAccounts' /\ (robbed \subseteq Charged \cup finished)'
<1> SUFFICES ASSUME WBooksInv, NEW c \in Chain,
                    Pop(c) \/ Take(c) \/ WHandOff(c) \/ GiveUp(c)
                      \/ (Abandon(c) /\ UNCHANGED <<stage, robbed>>)
             PROVE  WallAccounts' /\ (robbed \subseteq Charged \cup finished)'
  OBVIOUS
<1> DEFINE r == job[c]
<1>1. WTypeInv /\ OnceInv
  BY DEF WBooksInv
<1>2. /\ stage \in [Chain -> Stage] /\ StageAt(c) /\ WorkOK
      /\ job \in [Chain -> Request \cup {NoRequest}]
  BY <1>1, ChainOf
<1>3. /\ UNCHANGED <<prompt, maxOutput, kvBlocks, robbed, finished, rejected, reg>>
      /\ \A d \in Chain \ {c} : job'[d] = job[d] /\ stage'[d] = stage[d]
  <2>1. CASE Pop(c) \/ Take(c)
    BY <1>2, <2>1 DEF Pop, Take, Goes, loadVars, fateVars
  <2>2. CASE WHandOff(c) \/ GiveUp(c) \/ (Abandon(c) /\ UNCHANGED <<stage, robbed>>)
    BY <1>2, <2>2 DEF WHandOff, HandOff, GiveUp, Abandon, Goes, loadVars, fateVars
  <2>3. QED BY <2>1, <2>2
<1>4. NoRequest \notin Admitted /\ NoRequest \notin InGap /\ InGap \subseteq Admitted
  BY <1>1, AdmittedHeld
<1>5. CASE Pop(c)
  <2>1. /\ UNCHANGED <<decodeQueue, abandoned, inflight>> /\ stage[c] = "tested"
        /\ stage' = [stage EXCEPT ![c] = "popped"]
    BY <1>5 DEF Pop, Goes, fateVars
  <2>2. r = NoRequest /\ stage'[c] = "popped"
    BY <1>1, <1>2, <2>1, EmptyHanded
  <2>3. Admitted' = Admitted /\ InGap' = InGap
    BY <1>1, <1>3, <1>4, <2>2, HandChanges
  <2>4. Charged' = Charged /\ (Admitted \cup Handed)' = Admitted \cup Handed
    BY <2>1, <2>3 DEF Charged, Handed
  <2>5. QED BY <1>3, <2>1, <2>3, <2>4, WBooksSame
<1>6. CASE Take(c)
  <2> DEFINE h == Head(decodeQueue)
  <2>1. /\ UNCHANGED <<abandoned, inflight>> /\ stage[c] = "tested"
        /\ stage' = [stage EXCEPT ![c] = "taken"] /\ job' = [job EXCEPT ![c] = h]
        /\ decodeQueue # <<>> /\ decodeQueue' = Tail(decodeQueue)
    BY <1>6 DEF Take, Goes, fateVars
  <2>2. /\ r = NoRequest /\ stage'[c] = "taken" /\ job'[c] = h
        /\ h \in Request /\ h # NoRequest /\ h \in Handed /\ Handed' = Handed \ {h}
    BY <1>1, <1>2, <2>1, EmptyHanded, PopFirstHandoff, RequestFacts
  <2>3. Admitted' = Admitted \cup {h} /\ InGap' = InGap
    BY <1>1, <1>3, <1>4, <2>2, HandChanges
  <2>4. Charged' = Charged /\ (Admitted \cup Handed)' = Admitted \cup Handed
    BY <2>1, <2>2, <2>3 DEF Charged
  <2>5. QED BY <1>3, <2>1, <2>3, <2>4, WBooksSame
<1>7. CASE WHandOff(c)
  <2>1. /\ UNCHANGED <<abandoned, inflight, stage>> /\ pc[c] = "transfer"
        /\ decodeQueue' = Append(decodeQueue, r) /\ job' = [job EXCEPT ![c] = NoRequest]
    BY <1>7 DEF WHandOff, HandOff, fateVars
  <2>2. /\ r \in Request /\ r # NoRequest
        /\ stage[c] = "out" /\ stage'[c] = "out" /\ job'[c] = NoRequest
    BY <1>1, <1>2, <2>1, JobInHand DEF Working, StageAt
  <2>3. r \in Admitted /\ r \notin InGap
    BY <1>1, <2>2, HandOf
  <2>4. Handed' = Handed \cup {r}
    <3>1. ToSet(Append(decodeQueue, r)) = ToSet(decodeQueue) \cup {r}
      BY <1>2, <2>2, PushSet DEF WorkOK
    <3>2. QED BY <2>1, <3>1 DEF Handed
  <2>5. Admitted' = Admitted \ {r} /\ InGap' = InGap
    BY <1>1, <1>3, <2>2, <2>3, HandChanges
  <2>6. Charged' = Charged /\ (Admitted \cup Handed)' = Admitted \cup Handed
    BY <2>1, <2>3, <2>4, <2>5 DEF Charged
  <2>7. QED BY <1>3, <2>1, <2>5, <2>6, WBooksSame
<1>8. CASE GiveUp(c) \/ (Abandon(c) /\ UNCHANGED <<stage, robbed>>)
  <2>1. /\ UNCHANGED decodeQueue
        /\ stage[c] = "taken" \/ pc[c] = "decode"
        /\ job' = [job EXCEPT ![c] = NoRequest] /\ abandoned' = abandoned \cup {r}
        /\ inflight' = inflight - 1
        /\ stage' = [stage EXCEPT ![c] = "out"] \/ (stage' = stage /\ pc[c] = "decode")
    BY <1>8 DEF GiveUp, Abandon, Goes, Release
  <2>2. /\ r \in Request /\ r # NoRequest /\ job'[c] = NoRequest
        /\ stage[c] \in {"out", "taken"} /\ stage'[c] = "out"
    BY <1>1, <1>2, <2>1, JobInHand DEF Working, InHand, StageAt
  <2>3. r \in Admitted /\ r \notin InGap /\ r \notin Handed
    BY <1>1, <2>2, HandOf, WWhereIs
  <2>4. Admitted' = Admitted \ {r} /\ InGap' = InGap
    BY <1>1, <1>3, <2>2, <2>3, HandChanges
  <2>5. /\ Charged' = Charged /\ r \in Admitted \cup Handed
        /\ (Admitted \cup Handed)' = (Admitted \cup Handed) \ {r}
    BY <2>1, <2>3, <2>4 DEF Charged, Handed
  <2> HIDE DEF r
  <2>6. QED BY <1>3, <2>1, <2>4, <2>5, WBooksSame
<1>9. QED BY <1>5, <1>6, <1>7, <1>8

\* admit: the blocks of the new request come in, those of the victims go.
LEMMA WBooksAdmit == \A c \in Chain :
  WBooksInv /\ WAdmit(c) => WallAccounts' /\ (robbed \subseteq Charged \cup finished)'
<1> SUFFICES ASSUME WBooksInv, NEW c \in Chain, WAdmit(c)
             PROVE  WallAccounts' /\ (robbed \subseteq Charged \cup finished)'
  OBVIOUS
<1> DEFINE r == job[c]  n == BlocksNeeded(prompt[r])
<1>1. WTypeInv /\ OnceInv /\ WForm /\ robbed \subseteq Charged \cup finished
  BY WallForm DEF WBooksInv
<1>2. /\ stage[c] = "popped" /\ stage' = [stage EXCEPT ![c] = "gap"] /\ inflight' = inflight + 1
      /\ UNCHANGED <<prompt, maxOutput, decodeQueue, job, finished, rejected, abandoned, reg>>
  BY DEF WAdmit, Goes, loadVars
<1>3. PICK victims \in SUBSET Unpinned :
        LET held == kvBlocks \ BlocksOf(victims) IN
          /\ Swept(r, victims) /\ Room(held, r)
          /\ kvBlocks' = held \cup ({r} \X (0 .. n - 1))
  BY DEF WAdmit
<1> DEFINE held == kvBlocks \ BlocksOf(victims)
<1>4. /\ held = Blocked(Need, Keeping \ victims) /\ victims \subseteq InGap
      /\ IsFiniteSet(held) /\ Cardinality(held) + n <= KVCapacity
      /\ kvBlocks' = held \cup ({r} \X (0 .. n - 1)) /\ robbed' = robbed \cup victims
  BY <1>3, SweptBlocks DEF Swept, Room
<1>5. /\ r \in Request /\ r # NoRequest /\ n \in Nat /\ Need[r] = n
      /\ stage \in [Chain -> Stage]
  <2>1. r \in Request /\ r # NoRequest /\ prompt[r] \in Nat /\ stage \in [Chain -> Stage]
    BY <1>1, <1>2, JobInHand, ChainOf DEF InHand
  <2>2. QED BY <2>1, BlocksNat DEF Need
<1>6. /\ r \in Held /\ r \notin Admitted /\ r \notin InGap
      /\ r \notin Handed /\ r \notin abandoned /\ r \notin finished
  BY <1>1, <1>2, <1>5, HandOf, WWhereIs
<1>7. InGap \subseteq Admitted
  BY <1>1, AdmittedHeld
<1> HIDE DEF r, n, held
<1>8. Admitted' = Admitted \cup {r} /\ InGap' = InGap \cup {r}
  <2>1. \A d \in Chain \ {c} : job'[d] = job[d] /\ stage'[d] = stage[d]
    BY <1>2, <1>5
  <2>2. stage'[c] = "gap" /\ job'[c] = r /\ job[c] = r
    BY <1>2, <1>5 DEF r
  <2>3. QED BY <1>1, <1>5, <1>6, <2>1, <2>2, HandChanges
<1>9. /\ (Admitted \cup Handed)' = (Admitted \cup Handed) \cup {r}
      /\ Charged' = Charged \cup {r} /\ r \notin robbed /\ r \notin Charged
  BY <1>1, <1>2, <1>6, <1>8 DEF Charged, Handed
<1>10. Keeping' = (Keeping \ victims) \cup {r} /\ Paid' = Paid
  <2>1. r \notin victims
    BY <1>4, <1>6
  <2>2. Keeping' = (Charged \cup {r}) \ (robbed \cup victims)
    BY <1>4, <1>9 DEF Keeping
  <2>3. Paid' = finished \cup ((Charged \cup {r}) \ (InGap \cup {r}))
    BY <1>2, <1>8, <1>9 DEF Paid
  <2>4. QED BY <1>9, <2>1, <2>2, <2>3 DEF Keeping, Paid
<1>11. kvBlocks' = Blocked(Need, Keeping') /\ Cardinality(kvBlocks') <= KVCapacity
  <2>1. Blocked(Need, (Keeping \ victims) \cup {r})
          = Blocked(Need, Keeping \ victims) \cup ({r} \X (0 .. n - 1))
    BY <1>5, BlockedAdd
  <2>2. KVCapacity \in Int
    BY KVAssumption
  <2>3. Cardinality(held \cup ({r} \X (0 .. n - 1))) <= KVCapacity
    BY <1>4, <1>5, <2>2, BlocksFit
  <2>4. QED BY <1>4, <1>10, <2>1, <2>3
<1>12. inflight' = Cardinality((Admitted \cup Handed)')
  <2>1. IsFiniteSet(Admitted \cup Handed) /\ inflight = Cardinality(Admitted \cup Handed)
    BY <1>1, WPlacesFinite DEF WForm
  <2>2. r \notin Admitted \cup Handed
    BY <1>6
  <2>3. Cardinality((Admitted \cup Handed) \cup {r}) = Cardinality(Admitted \cup Handed) + 1
    BY <2>1, <2>2, CountOneMore
  <2>4. QED BY <1>2, <1>9, <2>1, <2>3
<1>13. Keeping' \subseteq Request
  BY <1>1, <1>5, <1>10, WPlacesFinite
<1>14. WallAccounts'
  BY <1>1, <1>2, <1>10, <1>11, <1>12, <1>13, WClose DEF WForm
<1>15. (robbed \subseteq Charged \cup finished)'
  BY <1>1, <1>2, <1>4, <1>7, <1>9 DEF Charged
<1>16. QED BY <1>14, <1>15

\* admit, refused: the victims have lost their blocks all the same.
LEMMA WBooksReject == \A c \in Chain :
  WBooksInv /\ WReject(c) => WallAccounts' /\ (robbed \subseteq Charged \cup finished)'
<1> SUFFICES ASSUME WBooksInv, NEW c \in Chain, WReject(c)
             PROVE  WallAccounts' /\ (robbed \subseteq Charged \cup finished)'
  OBVIOUS
<1> DEFINE r == job[c]
<1>1. WTypeInv /\ OnceInv /\ WForm /\ robbed \subseteq Charged \cup finished
  BY WallForm DEF WBooksInv
<1>2. /\ stage[c] = "popped" /\ stage' = [stage EXCEPT ![c] = "out"]
      /\ job' = [job EXCEPT ![c] = NoRequest] /\ rejected' = rejected \cup {r}
      /\ reg' = [reg EXCEPT !["rejections"] = @ + 1, !["dropped"] = @ + 1]
      /\ UNCHANGED <<prompt, maxOutput, decodeQueue, inflight, finished, abandoned>>
  BY DEF WReject, Goes, loadVars
<1>3. PICK victims \in SUBSET Unpinned :
        Swept(r, victims) /\ kvBlocks' = kvBlocks \ BlocksOf(victims)
  BY DEF WReject
<1>4. /\ kvBlocks' = Blocked(Need, Keeping \ victims) /\ victims \subseteq InGap
      /\ Cardinality(kvBlocks') <= KVCapacity /\ robbed' = robbed \cup victims
  BY <1>3, SweptBlocks DEF Swept
<1>5. /\ r \in Request /\ r # NoRequest /\ stage \in [Chain -> Stage]
      /\ job \in [Chain -> Request \cup {NoRequest}] /\ reg \in [Counter -> Nat]
  BY <1>1, <1>2, JobInHand, ChainOf DEF InHand, FateOK
<1>6. r \notin Admitted /\ r \notin InGap /\ r \notin rejected /\ InGap \subseteq Admitted
  BY <1>1, <1>2, <1>5, HandOf, WWhereIs, AdmittedHeld
<1> HIDE DEF r
<1>7. Admitted' = Admitted /\ InGap' = InGap
  <2>1. \A d \in Chain \ {c} : job'[d] = job[d] /\ stage'[d] = stage[d]
    BY <1>2, <1>5
  <2>2. stage'[c] = "out" /\ job'[c] = NoRequest /\ job[c] = r
    BY <1>2, <1>5 DEF r
  <2>3. QED BY <1>1, <1>6, <2>1, <2>2, HandChanges
<1>8. Charged' = Charged /\ (Admitted \cup Handed)' = Admitted \cup Handed
  BY <1>2, <1>7 DEF Charged, Handed
<1>9. Keeping' = Keeping \ victims /\ Paid' = Paid
  BY <1>2, <1>4, <1>7, <1>8 DEF Keeping, Paid
<1>10. Cardinality(rejected \cup {r}) = Cardinality(rejected) + 1
  BY <1>1, <1>6, WPlacesFinite, CountOneMore
<1>11. /\ reg'["rejections"] = reg["rejections"] + 1 /\ reg'["dropped"] = reg["dropped"] + 1
       /\ \A k \in Counter \ {"rejections", "dropped"} : reg'[k] = reg[k]
  BY <1>2, <1>5 DEF Counter
<1>12. /\ reg'["completed"] = Cardinality(finished')
       /\ reg'["rejections"] = Cardinality(rejected') /\ reg'["dropped"] = reg'["rejections"]
       /\ reg'["prefillTokens"] = SumFunctionOnSet(prompt, Paid')
       /\ reg'["decodeTokens"] = SumFunctionOnSet(maxOutput, finished')
  BY <1>1, <1>2, <1>9, <1>10, <1>11 DEF WForm, Counter
<1>13. Keeping' \subseteq Request /\ kvBlocks' = Blocked(Need, Keeping')
  BY <1>1, <1>4, <1>9, WPlacesFinite
<1>14. inflight' = Cardinality((Admitted \cup Handed)')
  BY <1>1, <1>2, <1>8 DEF WForm
<1>15. WallAccounts'
  BY <1>1, <1>2, <1>4, <1>12, <1>13, <1>14, WClose
<1>16. (robbed \subseteq Charged \cup finished)'
  BY <1>1, <1>2, <1>4, <1>6, <1>8 DEF Charged
<1>17. QED BY <1>15, <1>16

\* Acquire: the prompt is paid for, also when the blocks have gone.
LEMMA WBooksAcquire == \A c \in Chain :
  WBooksInv /\ Acquire(c) => WallAccounts' /\ (robbed \subseteq Charged \cup finished)'
<1> SUFFICES ASSUME WBooksInv, NEW c \in Chain, Acquire(c)
             PROVE  WallAccounts' /\ (robbed \subseteq Charged \cup finished)'
  OBVIOUS
<1> DEFINE r == job[c]
<1>1. WTypeInv /\ OnceInv /\ WForm /\ WallAccounts /\ robbed \subseteq Charged \cup finished
  BY WallForm DEF WBooksInv
<1>2. /\ stage[c] = "gap" /\ stage' = [stage EXCEPT ![c] = "out"]
      /\ reg' = [reg EXCEPT !["prefillTokens"] = @ + prompt[r]]
      /\ UNCHANGED <<prompt, maxOutput, kvBlocks, robbed, decodeQueue, job, inflight,
                     finished, rejected, abandoned>>
  BY DEF Acquire, Goes, loadVars, workVars
<1>3. /\ r \in Request /\ r # NoRequest /\ stage \in [Chain -> Stage]
      /\ reg \in [Counter -> Nat] /\ prompt \in [Request -> Int]
  BY <1>1, <1>2, JobInHand, ChainOf DEF InHand, FateOK, LoadOK
<1>4. r \in Admitted /\ r \in InGap /\ r \notin finished
  BY <1>1, <1>2, <1>3, HandOf, WWhereIs
<1> HIDE DEF r
<1>5. Admitted' = Admitted /\ InGap' = InGap \ {r}
  <2>1. \A d \in Chain \ {c} : job'[d] = job[d] /\ stage'[d] = stage[d]
    BY <1>2, <1>3
  <2>2. stage'[c] = "out" /\ job'[c] = r /\ job[c] = r
    BY <1>2, <1>3 DEF r
  <2>3. /\ stage'[c] # "popped" /\ job'[c] # NoRequest /\ stage'[c] # "gap"
        /\ (Admitted \ {job[c]}) \cup {job'[c]} = Admitted
    BY <1>3, <1>4, <2>2
  <2>4. QED BY <1>1, <2>1, <2>2, <2>3, HandChanges
<1>6. Charged' = Charged /\ (Admitted \cup Handed)' = Admitted \cup Handed
  BY <1>2, <1>5 DEF Charged, Handed
<1>7. Keeping' = Keeping /\ Paid' = Paid \cup {r} /\ r \notin Paid
  BY <1>2, <1>4, <1>5, <1>6 DEF Keeping, Paid, Charged
<1>8. SumFunctionOnSet(prompt, Paid \cup {r}) = SumFunctionOnSet(prompt, Paid) + prompt[r]
  <2>1. Paid \in SUBSET Request /\ IsFiniteSet(Paid)
    BY <1>1, WPlacesFinite
  <2>2. QED BY <1>3, <1>7, <2>1, SumAdd
<1>9. /\ reg'["prefillTokens"] = reg["prefillTokens"] + prompt[r]
      /\ \A k \in Counter \ {"prefillTokens"} : reg'[k] = reg[k]
  BY <1>2, <1>3 DEF Counter
<1>10. /\ reg'["completed"] = Cardinality(finished')
       /\ reg'["rejections"] = Cardinality(rejected') /\ reg'["dropped"] = reg'["rejections"]
       /\ reg'["prefillTokens"] = SumFunctionOnSet(prompt, Paid')
       /\ reg'["decodeTokens"] = SumFunctionOnSet(maxOutput, finished')
  BY <1>1, <1>2, <1>7, <1>8, <1>9 DEF WForm, Counter
<1>11. /\ Keeping' \subseteq Request /\ kvBlocks' = Blocked(Need, Keeping')
       /\ Cardinality(kvBlocks') <= KVCapacity
  BY <1>1, <1>2, <1>7, WPlacesFinite, WBlocks
<1>12. inflight' = Cardinality((Admitted \cup Handed)')
  BY <1>1, <1>2, <1>6 DEF WForm
<1>13. WallAccounts'
  BY <1>1, <1>2, <1>10, <1>11, <1>12, WClose
<1>14. QED BY <1>1, <1>2, <1>6, <1>13

\* finishRequest and release: what the request still has is freed.
LEMMA WBooksFinishes == \A c \in Chain :
  WBooksInv /\ Finishes(c) => WallAccounts' /\ (robbed \subseteq Charged \cup finished)'
<1> SUFFICES ASSUME WBooksInv, NEW c \in Chain, Finishes(c)
             PROVE  WallAccounts' /\ (robbed \subseteq Charged \cup finished)'
  OBVIOUS
<1> DEFINE r == job[c]
<1>1. /\ WTypeInv /\ OnceInv /\ TokensInv /\ WForm /\ WallAccounts
      /\ robbed \subseteq Charged \cup finished
  BY WallForm DEF WBooksInv
<1>2. /\ stage[c] = "taken" \/ pc[c] = "decode"
      /\ r \in Request /\ r # NoRequest
      /\ stage' = [stage EXCEPT ![c] = "out"] /\ job' = [job EXCEPT ![c] = NoRequest]
      /\ finished' = finished \cup {r} /\ kvBlocks' = {b \in kvBlocks : b[1] # r}
      /\ reg' = [reg EXCEPT !["completed"] = @ + 1, !["decodeTokens"] = @ + generated'[r]]
      /\ inflight' = inflight - 1
      /\ UNCHANGED <<prompt, maxOutput, robbed, decodeQueue, rejected, abandoned>>
  BY <1>1, FinishesDoes DEF Finish, Release, loadVars
<1>3. generated'[r] = maxOutput[r]
  BY <1>1, SettledTokens
<1>4. /\ stage[c] \notin {"popped", "gap"} /\ stage \in [Chain -> Stage]
      /\ job \in [Chain -> Request \cup {NoRequest}]
      /\ reg \in [Counter -> Nat] /\ maxOutput \in [Request -> Int]
  BY <1>1, <1>2, ChainOf DEF StageAt, FateOK, LoadOK
<1>5. /\ r \in Admitted /\ r \notin InGap /\ r \notin Handed /\ r \notin abandoned
      /\ r \notin finished
  BY <1>1, <1>2, <1>4, HandOf, WWhereIs
<1> HIDE DEF r
<1>6. Admitted' = Admitted \ {r} /\ InGap' = InGap
  <2>1. \A d \in Chain \ {c} : job'[d] = job[d] /\ stage'[d] = stage[d]
    BY <1>2, <1>4
  <2>2. stage'[c] = "out" /\ job'[c] = NoRequest /\ job[c] = r
    BY <1>2, <1>4 DEF r
  <2>3. QED BY <1>1, <1>5, <2>1, <2>2, HandChanges
<1>7. /\ Charged' = Charged \ {r} /\ (Admitted \cup Handed)' = (Admitted \cup Handed) \ {r}
      /\ r \in Charged
  BY <1>2, <1>5, <1>6 DEF Charged, Handed
<1>8. Keeping' = Keeping \ {r} /\ Paid' = Paid
  BY <1>2, <1>5, <1>6, <1>7 DEF Keeping, Paid
<1>9. /\ Keeping' \subseteq Request /\ kvBlocks' = Blocked(Need, Keeping')
      /\ Cardinality(kvBlocks') <= KVCapacity
  <2>1. /\ kvBlocks = Blocked(Need, Keeping) /\ IsFiniteSet(kvBlocks)
        /\ Cardinality(kvBlocks) <= KVCapacity /\ KVCapacity \in Int
    BY <1>1, WBlocks, KVAssumption
  <2>2. \A b : b \in Blocked(Need, Keeping \ {r}) <=> b \in Blocked(Need, Keeping) /\ b[1] # r
    BY BlockedRemove
  <2>3. kvBlocks' = Blocked(Need, Keeping')
    BY <1>2, <1>8, <2>1, <2>2
  <2>4. kvBlocks' \in SUBSET kvBlocks
    BY <1>2
  <2>5. Cardinality(kvBlocks') <= KVCapacity
    BY <2>1, <2>4, BlocksLeft
  <2>6. QED BY <1>1, <1>8, <2>3, <2>5, WPlacesFinite
<1>10. /\ Cardinality(finished \cup {r}) = Cardinality(finished) + 1
       /\ SumFunctionOnSet(maxOutput, finished \cup {r})
            = SumFunctionOnSet(maxOutput, finished) + maxOutput[r]
  <2>1. finished \in SUBSET Request /\ IsFiniteSet(finished)
    BY <1>1, WPlacesFinite
  <2>2. QED BY <1>2, <1>4, <1>5, <2>1, CountOneMore, SumAdd
<1>11. /\ reg'["completed"] = reg["completed"] + 1
       /\ reg'["decodeTokens"] = reg["decodeTokens"] + maxOutput[r]
       /\ \A k \in Counter \ {"completed", "decodeTokens"} : reg'[k] = reg[k]
  BY <1>2, <1>3, <1>4 DEF Counter
<1>12. /\ reg'["completed"] = Cardinality(finished')
       /\ reg'["rejections"] = Cardinality(rejected') /\ reg'["dropped"] = reg'["rejections"]
       /\ reg'["prefillTokens"] = SumFunctionOnSet(prompt, Paid')
       /\ reg'["decodeTokens"] = SumFunctionOnSet(maxOutput, finished')
  BY <1>1, <1>2, <1>8, <1>10, <1>11 DEF WForm, Counter
<1>13. inflight' = Cardinality((Admitted \cup Handed)')
  <2>1. IsFiniteSet(Admitted \cup Handed) /\ inflight = Cardinality(Admitted \cup Handed)
    BY <1>1, WPlacesFinite DEF WForm
  <2>2. Cardinality((Admitted \cup Handed) \ {r}) = Cardinality(Admitted \cup Handed) - 1
    BY <1>5, <2>1, CountOneLess
  <2>3. QED BY <1>2, <1>7, <2>1, <2>2
<1>14. WallAccounts'
  BY <1>1, <1>2, <1>9, <1>12, <1>13, WClose
<1>15. QED BY <1>1, <1>2, <1>7, <1>14

\* Stop, a resize and a drain keep no books.
LEMMA WBooksCalls ==
  WBooksInv /\ (CallStep \/ WStart \/ UNCHANGED wVars)
    => WallAccounts' /\ (robbed \subseteq Charged \cup finished)'
<1> SUFFICES ASSUME WBooksInv, CallStep \/ WStart \/ UNCHANGED wVars
             PROVE  WallAccounts' /\ (robbed \subseteq Charged \cup finished)'
  OBVIOUS
<1>1. UNCHANGED <<decodeQueue, job, finished, rejected, abandoned>>
  BY CallsDo
<1>2. UNCHANGED <<prompt, maxOutput, kvBlocks, robbed, reg, inflight, stage>>
  BY DEF CallStep, WStart, Start, Stops, StopRequest, StopStep, StopCopy, StopTest, StopClose,
         ResizeTest, ResizeClose, DrainFails, DrainDone, DrainTest, DrainRenews,
         wVars, wallVars, vars, loadVars, workVars, fateVars
<1>3. Admitted' = Admitted /\ InGap' = InGap
  BY <1>1, <1>2, HandsSame
<1>4. Charged' = Charged /\ (Admitted \cup Handed)' = Admitted \cup Handed
  BY <1>1, <1>3 DEF Charged, Handed
<1>5. QED BY <1>1, <1>2, <1>3, <1>4, WBooksSame

LEMMA WBooksStep == WBooksInv /\ [WNext]_wVars => WBooksInv'
<1> SUFFICES ASSUME WBooksInv, [WNext]_wVars PROVE WBooksInv'
  OBVIOUS
<1> DEFINE Goal == WallAccounts' /\ (robbed \subseteq Charged \cup finished)'
<1>1. ASSUME NEW c \in Chain, WChainStep(c) PROVE Goal
  BY <1>1, WMoves, WBooksStays, WBooksMoves, WBooksAdmit, WBooksReject, WBooksAcquire,
     WBooksFinishes DEF Settles
<1>2. Goal
  BY <1>1, WBooksArrive, WBooksCalls, WNextSplit
<1>3. WTypeInv' /\ OnceInv' /\ TokensInv'
  BY WTypeStep, WOnceStep, TokensStep DEF WBooksInv
<1>4. QED BY <1>2, <1>3 DEF WBooksInv

LEMMA WBooksInit == WInit => WBooksInv
<1> SUFFICES ASSUME WInit PROVE WBooksInv
  OBVIOUS
<1>1. WTypeInv /\ OnceInv /\ TokensInv
  BY WTypeInit, OnceInit, TokensInit DEF WInit
<1>2. /\ inflight = 0 /\ kvBlocks = {} /\ robbed = {}
      /\ finished = {} /\ rejected = {} /\ abandoned = {} /\ Handed = {}
      /\ \A k \in Counter : reg[k] = 0
      /\ \A c \in Chain : job[c] = NoRequest
  BY DEF WInit, Init, Handed, ToSet
<1>3. Admitted = {} /\ Charged = {} /\ Keeping = {} /\ Paid = {}
  BY <1>2 DEF Admitted, Charged, Keeping, Paid
<1>4. WForm
  <2>1. Cardinality({}) = 0 /\ KVCapacity \in Nat
    BY FS_EmptySet, KVAssumption
  <2>2. UNION {{r} \X (0 .. BlocksNeeded(prompt[r]) - 1) : r \in {}} = {}
    OBVIOUS
  <2>3. Admitted \cup Handed = {}
    BY <1>2, <1>3
  <2>4. QED BY <1>2, <1>3, <2>1, <2>2, <2>3, SumEmpty DEF WForm, Counter
<1>5. QED BY <1>1, <1>2, <1>4, WallForm DEF WBooksInv

\* On the wall clock the books still balance: the admission count and the pool are those
\* of the admitted requests, save the blocks lost in the gap, and the registry's counts
\* are those of the requests.
THEOREM WallAccountsHolds == WSpec => []WallAccounts
<1>1. WBooksInv => WallAccounts
  BY DEF WBooksInv
<1>2. QED BY <1>1, WBooksInit, WBooksStep, PTL DEF WSpec
=============================================================================
