---------------------------- MODULE DisaggProofs ----------------------------
(***************************************************************************)
(* Proofs about the disaggregated engine, for every number of GPUs,        *)
(* requests, flips and blocks, and for any caller of ResizePools and Stop: *)
(*                                                                         *)
(*   - the types and which chains can move (TypeInv);                      *)
(*   - what may never be undone: stops, retirements, fates;                *)
(*   - each request is in one place, the admission count is exact, and     *)
(*     retirement is final (OnceInv, CountInv);                            *)
(*   - each request has the tokens its place says (OutputInv);             *)
(*   - the pool and the registry keep their books (BooksInv);              *)
(*   - flips that wait for each other's drains keep the pools (PoolsInv);  *)
(*   - the engine implements the promise of ServingSpec.                   *)
(***************************************************************************)
EXTENDS Disagg, Bookkeeping

LEMMA NumPrefillRange == NumPrefill \in 1 .. NumGPUs - 1
  BY GPUAssumption, RatioAssumption DEF NumPrefill

LEMMA BlocksNat == \A t \in Nat : BlocksNeeded(t) \in Nat
  BY KVAssumption DEF BlocksNeeded

LEMMA RequestFacts == \A r \in Request : r \in Nat /\ r # NoRequest
  BY BoundAssumption DEF Request, NoRequest

LEMMA ChainFacts ==
  /\ \A c \in Chain : c[1] \in Worker /\ c[2] \in 0 .. MaxFlips
  /\ \A w \in Worker, e \in 0 .. MaxFlips :
       <<w, e>> \in Chain /\ <<w, e>>[1] = w /\ <<w, e>>[2] = e
  /\ \A c \in Chain : c = <<c[1], c[2]>>
  BY DEF Chain

-----------------------------------------------------------------------------
(* Type correctness *)

\* A step that leaves a group of variables alone leaves its type alone.
LEMMA SameTypes ==
  /\ UNCHANGED loadVars /\ LoadOK => LoadOK'
  /\ UNCHANGED poolVars /\ PoolsOK => PoolsOK'
  /\ UNCHANGED fateVars /\ FateOK => FateOK'
  /\ UNCHANGED workVars /\ WorkOK => WorkOK'
<1>1. UNCHANGED loadVars /\ LoadOK => LoadOK'
  BY DEF loadVars, LoadOK
<1>2. UNCHANGED poolVars /\ PoolsOK => PoolsOK'
  BY DEF poolVars, PoolsOK
<1>3. UNCHANGED fateVars /\ FateOK => FateOK'
  BY DEF fateVars, FateOK
<1>4. UNCHANGED workVars /\ WorkOK => WorkOK'
  BY DEF workVars, WorkOK
<1>5. QED BY <1>1, <1>2, <1>3, <1>4

\* The arrival chain goes on only while there is room for a request.
LEMMA ArrivalChainEnds ==
  ASSUME NEW n \in 0 .. MaxRequests, ArrivalChain(n)
  PROVE  arrivalsDone' \in BOOLEAN /\ (~arrivalsDone' => n < MaxRequests)
<1>1. CASE n = MaxRequests
  <2>1. arrivalsDone' \in {TRUE}
    BY <1>1 DEF ArrivalChain
  <2>2. arrivalsDone' = TRUE
    BY <2>1
  <2>3. QED BY <2>2
<1>2. CASE n # MaxRequests
  <2>1. arrivalsDone' \in BOOLEAN
    BY <1>2 DEF ArrivalChain
  <2>2. n < MaxRequests
    BY <1>2, BoundAssumption
  <2>3. QED BY <2>1, <2>2
<1>3. QED BY <1>1, <1>2

LEMMA TypeInit == Init => TypeInv
<1> SUFFICES ASSUME Init PROVE TypeInv
  OBVIOUS
<1>1. NumPrefill \in Nat /\ NumGPUs \in Nat /\ NumPrefill < NumGPUs
  BY NumPrefillRange, GPUAssumption
<1>2. prefillGPUs \in Seq(Worker)
  <2>1. prefillGPUs \in [1 .. NumPrefill -> Worker]
    BY <1>1 DEF Init, Worker
  <2>2. QED BY <1>1, <2>1, SeqDef
<1>3. decodeGPUs \in Seq(Worker)
  <2>1. decodeGPUs \in [1 .. NumGPUs - NumPrefill -> Worker]
    BY <1>1 DEF Init, Worker
  <2>2. NumGPUs - NumPrefill \in Nat
    BY <1>1
  <2>3. QED BY <2>1, <2>2, SeqDef
<1>4. LoadOK
  <2>1. arrivalsDone \in BOOLEAN
    BY DEF Init
  <2>2. arrived \in 0 .. MaxRequests
    BY BoundAssumption DEF Init
  <2>3. prompt \in [Request -> Nat] /\ maxOutput \in [Request -> Nat]
    BY DEF Init
  <2>4. QED BY <2>1, <2>2, <2>3 DEF LoadOK
<1>5. PoolsOK
  BY <1>2, <1>3, BoundAssumption DEF Init, PoolsOK, Roles, RoleOrNone
<1>6. FateOK
  BY DEF Init, FateOK
<1>7. WorkOK
  BY DEF Init, WorkOK
<1>8. ChainsOK
  BY DEF Init, ChainsOK, PC, Ended
<1>9. /\ JobMatchesPC /\ EpochsPaid /\ EpochsBorn
      /\ ArrivalsBounded /\ NothingBeforeStart
  BY DEF Init, JobMatchesPC, EpochsPaid, EpochsBorn, ArrivalsBounded, NothingBeforeStart
<1>10. QED
  BY <1>4, <1>5, <1>6, <1>7, <1>8, <1>9 DEF Init, TypeInv, TypeOK

LEMMA TypeStart == TypeInv /\ Start => TypeInv'
<1> SUFFICES ASSUME TypeInv, Start PROVE TypeInv'
  OBVIOUS
<1>1. PoolsOK' /\ FateOK' /\ WorkOK'
  BY SameTypes DEF TypeInv, TypeOK, Start
<1>2. arrivalsDone' \in BOOLEAN /\ (~arrivalsDone' => arrived < MaxRequests)
  <2>1. ArrivalChain(0) /\ arrived = 0
    BY DEF TypeInv, NothingBeforeStart, Start
  <2>2. QED BY <2>1, ArrivalChainEnds, BoundAssumption
<1>3. LoadOK'
  BY <1>2 DEF TypeInv, TypeOK, LoadOK, Start
<1>4. ChainsOK'
  BY DEF TypeInv, TypeOK, ChainsOK, PC, Ended, Start
<1>5. JobMatchesPC'
  BY DEF TypeInv, JobMatchesPC, NothingBeforeStart, Start, workVars
<1>6. EpochsPaid' /\ EpochsBorn'
  BY BoundAssumption
  DEF TypeInv, TypeOK, PoolsOK, EpochsPaid, EpochsBorn, Start, poolVars, Chain
<1>7. QED
  BY <1>1, <1>2, <1>3, <1>4, <1>5, <1>6
  DEF TypeInv, TypeOK, ArrivalsBounded, NothingBeforeStart, Start

\* An arrival, whether it comes or finds the engine stopped.
LEMMA ArriveTypes ==
  ASSUME LoadOK, WorkOK, ArrivalsBounded, Arrive
  PROVE  LoadOK' /\ WorkOK' /\ ArrivalsBounded'
<1>1. CASE stopped
  BY <1>1 DEF LoadOK, WorkOK, ArrivalsBounded, Arrive
<1>2. CASE ~stopped
  <2>1. arrived' \in 1 .. MaxRequests
    BY <1>2, BoundAssumption DEF LoadOK, ArrivalsBounded, Arrive
  <2>2. arrivalsDone' \in BOOLEAN /\ (~arrivalsDone' => arrived' < MaxRequests)
    <3>1. ArrivalChain(arrived')
      BY <1>2 DEF Arrive
    <3>2. QED BY <2>1, <3>1, ArrivalChainEnds
  <2>3. prompt' \in [Request -> Nat] /\ maxOutput' \in [Request -> Nat]
    BY <1>2, <2>1, LoadAssumption DEF LoadOK, Arrive
  <2>4. queue' \in Seq(Request)
    <3>1. queue \in Seq(Request) /\ queue' = Append(queue, arrived') /\ arrived' \in Request
      BY <1>2, <2>1 DEF WorkOK, Arrive, Request
    <3>2. QED BY <3>1, AppendProperties
  <2>5. LoadOK'
    BY <2>1, <2>2, <2>3, BoundAssumption DEF LoadOK
  <2>6. WorkOK'
    BY <2>4 DEF WorkOK, Arrive
  <2>7. QED BY <2>2, <2>5, <2>6 DEF ArrivalsBounded
<1>3. QED BY <1>1, <1>2

LEMMA TypeArrive == TypeInv /\ Arrive => TypeInv'
<1> SUFFICES ASSUME TypeInv, Arrive PROVE TypeInv'
  OBVIOUS
<1>1. PoolsOK' /\ FateOK' /\ ChainsOK'
  BY SameTypes DEF TypeInv, TypeOK, ChainsOK, Arrive
<1>2. JobMatchesPC' /\ EpochsPaid' /\ EpochsBorn'
  BY DEF TypeInv, JobMatchesPC, EpochsPaid, EpochsBorn, Arrive, poolVars
<1>3. started' /\ started /\ stopped' = stopped
  BY DEF Arrive
<1>4. LoadOK' /\ WorkOK' /\ ArrivalsBounded'
  BY ArriveTypes DEF TypeInv, TypeOK
<1>5. QED BY <1>1, <1>2, <1>3, <1>4 DEF TypeInv, TypeOK, NothingBeforeStart

\* A step of a chain leaves the load and the pools alone.
LEMMA ChainFrame ==
  ASSUME TypeInv, NEW c \in Chain, pc[c] # "unborn",
         \A d \in Chain \ {c} : pc'[d] = pc[d],
         UNCHANGED <<started, stopped, loadVars, poolVars>>,
         FateOK', WorkOK', ChainsOK', JobMatchesPC'
  PROVE  TypeInv'
<1>1. LoadOK' /\ PoolsOK'
  BY SameTypes DEF TypeInv, TypeOK
<1>2. EpochsPaid' /\ ArrivalsBounded'
  BY DEF TypeInv, EpochsPaid, ArrivalsBounded, loadVars, poolVars
<1>3. started /\ started'
  BY DEF TypeInv, NothingBeforeStart
<1>4. EpochsBorn'
  BY DEF TypeInv, EpochsBorn, poolVars
<1>5. QED BY <1>1, <1>2, <1>3, <1>4 DEF TypeInv, TypeOK, NothingBeforeStart

LEMMA TypeExit == \A c \in Chain : TypeInv /\ (Exit(c) \/ Retire(c)) => TypeInv'
<1> SUFFICES ASSUME TypeInv, NEW c \in Chain, Exit(c) \/ Retire(c) PROVE TypeInv'
  OBVIOUS
<1>1. FateOK' /\ WorkOK'
  BY SameTypes DEF TypeInv, TypeOK, Exit, Retire
<1>2. ChainsOK'
  BY DEF TypeInv, TypeOK, ChainsOK, PC, Ended, Exit, Retire
<1>3. JobMatchesPC'
  BY DEF TypeInv, TypeOK, ChainsOK, JobMatchesPC, Exit, Retire, workVars
<1>4. /\ pc[c] # "unborn" /\ UNCHANGED <<started, stopped, loadVars, poolVars>>
      /\ \A d \in Chain \ {c} : pc'[d] = pc[d]
  BY DEF Exit, Retire, TypeInv, TypeOK, ChainsOK
<1>5. QED BY <1>1, <1>2, <1>3, <1>4, ChainFrame

LEMMA TypeAdmit == \A c \in Chain : TypeInv /\ Admit(c) => TypeInv'
<1> SUFFICES ASSUME TypeInv, NEW c \in Chain, Admit(c) PROVE TypeInv'
  OBVIOUS
<1> DEFINE r == Head(queue)
<1>1. r \in Request /\ queue' \in Seq(Request)
  BY PopTypes DEF TypeInv, TypeOK, WorkOK, Admit
<1>2. prompt[r] \in Nat /\ BlocksNeeded(prompt[r]) \in Nat
  BY <1>1, BlocksNat DEF TypeInv, TypeOK, LoadOK
<1>3. kvBlocks' \subseteq Request \X Nat
  BY <1>1, <1>2 DEF TypeInv, TypeOK, FateOK, Admit
<1>4. reg' \in [Counter -> Nat]
  <2>1. reg \in [Counter -> Nat] /\ "prefillTokens" \in Counter
    BY DEF TypeInv, TypeOK, FateOK, Counter
  <2>2. reg' = [reg EXCEPT !["prefillTokens"] = reg["prefillTokens"] + prompt[r]]
    BY DEF Admit
  <2>3. QED BY <1>2, <2>1, <2>2
<1>5. FateOK'
  BY <1>3, <1>4 DEF TypeInv, TypeOK, FateOK, Admit
<1>6. WorkOK'
  BY <1>1 DEF TypeInv, TypeOK, WorkOK, Admit
<1>7. ChainsOK'
  BY DEF TypeInv, TypeOK, ChainsOK, PC, Ended, Admit
<1>8. JobMatchesPC'
  BY <1>1, RequestFacts DEF TypeInv, TypeOK, WorkOK, ChainsOK, JobMatchesPC, Admit
<1>9. /\ pc[c] # "unborn" /\ UNCHANGED <<started, stopped, loadVars, poolVars>>
      /\ \A d \in Chain \ {c} : pc'[d] = pc[d]
  BY DEF Admit, TypeInv, TypeOK, ChainsOK
<1>10. QED BY <1>5, <1>6, <1>7, <1>8, <1>9, ChainFrame

LEMMA TypeReject == \A c \in Chain : TypeInv /\ Reject(c) => TypeInv'
<1> SUFFICES ASSUME TypeInv, NEW c \in Chain, Reject(c) PROVE TypeInv'
  OBVIOUS
<1>1. Head(queue) \in Request /\ queue' \in Seq(Request)
  BY PopTypes DEF TypeInv, TypeOK, WorkOK, Reject
<1>2. reg' \in [Counter -> Nat]
  <2>1. reg \in [Counter -> Nat] /\ "rejections" \in Counter /\ "dropped" \in Counter
    BY DEF TypeInv, TypeOK, FateOK, Counter
  <2>2. reg' = [reg EXCEPT !["rejections"] = reg["rejections"] + 1,
                           !["dropped"] = reg["dropped"] + 1]
    BY DEF Reject
  <2>3. QED BY <2>1, <2>2
<1>3. FateOK'
  BY <1>1, <1>2 DEF TypeInv, TypeOK, FateOK, Reject
<1>4. WorkOK'
  BY <1>1 DEF TypeInv, TypeOK, WorkOK, Reject
<1>5. ChainsOK'
  BY DEF TypeInv, TypeOK, ChainsOK, Reject
<1>6. JobMatchesPC'
  BY DEF TypeInv, JobMatchesPC, Reject
<1>7. /\ pc[c] # "unborn" /\ UNCHANGED <<started, stopped, loadVars, poolVars>>
      /\ \A d \in Chain \ {c} : pc'[d] = pc[d]
  BY DEF Reject, TypeInv, TypeOK, ChainsOK
<1>8. QED BY <1>3, <1>4, <1>5, <1>6, <1>7, ChainFrame

LEMMA TypePrefillDone == \A c \in Chain : TypeInv /\ PrefillDone(c) => TypeInv'
<1> SUFFICES ASSUME TypeInv, NEW c \in Chain, PrefillDone(c) PROVE TypeInv'
  OBVIOUS
<1>1. FateOK' /\ WorkOK'
  BY SameTypes DEF TypeInv, TypeOK, PrefillDone
<1>2. ChainsOK'
  BY DEF TypeInv, TypeOK, ChainsOK, PC, Ended, PrefillDone
<1>3. JobMatchesPC'
  BY DEF TypeInv, TypeOK, ChainsOK, JobMatchesPC, PrefillDone, workVars
<1>4. /\ pc[c] # "unborn" /\ UNCHANGED <<started, stopped, loadVars, poolVars>>
      /\ \A d \in Chain \ {c} : pc'[d] = pc[d]
  BY DEF PrefillDone, TypeInv, TypeOK, ChainsOK
<1>5. QED BY <1>1, <1>2, <1>3, <1>4, ChainFrame

\* A chain that is not idle holds a request.
LEMMA JobOfChain ==
  ASSUME TypeInv, NEW c \in Chain, pc[c] \in {"prefill", "transfer", "decode"}
  PROVE  job[c] \in Request /\ job[c] # NoRequest /\ generated[job[c]] \in Nat
  BY DEF TypeInv, TypeOK, WorkOK, JobMatchesPC

LEMMA TypeHandOff == \A c \in Chain : TypeInv /\ HandOff(c) => TypeInv'
<1> SUFFICES ASSUME TypeInv, NEW c \in Chain, HandOff(c) PROVE TypeInv'
  OBVIOUS
<1>1. job[c] \in Request /\ generated[job[c]] \in Nat
  BY JobOfChain DEF HandOff
<1>2. decodeQueue' \in Seq(Request)
  BY <1>1, PushTypes DEF TypeInv, TypeOK, WorkOK, HandOff
<1>3. generated' \in [Request -> Nat]
  BY <1>1 DEF TypeInv, TypeOK, WorkOK, HandOff
<1>4. WorkOK'
  BY <1>2, <1>3 DEF TypeInv, TypeOK, WorkOK, HandOff
<1>5. FateOK'
  BY SameTypes DEF TypeInv, TypeOK, HandOff
<1>6. ChainsOK'
  BY DEF TypeInv, TypeOK, ChainsOK, PC, HandOff
<1>7. JobMatchesPC'
  BY DEF TypeInv, TypeOK, WorkOK, ChainsOK, JobMatchesPC, HandOff
<1>8. /\ pc[c] # "unborn" /\ UNCHANGED <<started, stopped, loadVars, poolVars>>
      /\ \A d \in Chain \ {c} : pc'[d] = pc[d]
  BY DEF HandOff, TypeInv, TypeOK, ChainsOK
<1>9. QED BY <1>4, <1>5, <1>6, <1>7, <1>8, ChainFrame

\* finishRequest keeps the types of what it records.
LEMMA FinishTypes ==
  ASSUME FateOK, inflight \in Int, NEW r \in Request, generated'[r] \in Nat,
         Finish(r), UNCHANGED <<rejected, abandoned>>
  PROVE  FateOK' /\ inflight' \in Int
<1>1. reg' \in [Counter -> Nat]
  <2>1. reg \in [Counter -> Nat] /\ "completed" \in Counter /\ "decodeTokens" \in Counter
    BY DEF FateOK, Counter
  <2>2. reg' = [reg EXCEPT !["completed"] = reg["completed"] + 1,
                           !["decodeTokens"] = reg["decodeTokens"] + generated'[r]]
    BY DEF Finish
  <2>3. QED BY <2>1, <2>2
<1>2. kvBlocks' \subseteq Request \X Nat /\ finished' \subseteq Request
  BY DEF FateOK, Finish
<1>3. inflight' \in Int
  BY DEF Finish, Release
<1>4. QED BY <1>1, <1>2, <1>3 DEF FateOK

LEMMA TypeTakeHandoff == \A c \in Chain : TypeInv /\ TakeHandoff(c) => TypeInv'
<1> SUFFICES ASSUME TypeInv, NEW c \in Chain, TakeHandoff(c) PROVE TypeInv'
  OBVIOUS
<1> DEFINE r == Head(decodeQueue)
<1>1. r \in Request /\ decodeQueue' \in Seq(Request)
  BY PopTypes DEF TypeInv, TypeOK, WorkOK, TakeHandoff
<1>2. /\ pc[c] = "decodeStep" /\ UNCHANGED <<started, stopped, loadVars, poolVars>>
      /\ \A d \in Chain \ {c} : pc'[d] = pc[d]
  BY DEF TakeHandoff, TypeInv, TypeOK, ChainsOK
<1>3. CASE IsFinished(r, generated[r])
  <2>1. UNCHANGED <<generated, job, pc, queue, rejected, abandoned>> /\ Finish(r)
    BY <1>3 DEF TakeHandoff
  <2>2. FateOK' /\ inflight' \in Int
    BY <1>1, <2>1, FinishTypes DEF TypeInv, TypeOK, WorkOK
  <2>3. WorkOK'
    BY <1>1, <2>1, <2>2 DEF TypeInv, TypeOK, WorkOK
  <2>4. ChainsOK'
    BY <1>3 DEF TypeInv, TypeOK, ChainsOK, TakeHandoff
  <2>5. JobMatchesPC'
    BY <2>1 DEF TypeInv, JobMatchesPC
  <2>6. QED BY <1>2, <2>2, <2>3, <2>4, <2>5, ChainFrame
<1>4. CASE ~IsFinished(r, generated[r])
  <2>1. /\ job' = [job EXCEPT ![c] = r]
        /\ state' = [state EXCEPT ![c[1]] = "busy"]
        /\ pc' = [pc EXCEPT ![c] = "decode"]
        /\ UNCHANGED <<generated, finished, reg, kvBlocks, inflight, queue, rejected, abandoned>>
    BY <1>4 DEF TakeHandoff
  <2>2. FateOK'
    BY <2>1 DEF TypeInv, TypeOK, FateOK
  <2>3. WorkOK'
    BY <1>1, <2>1 DEF TypeInv, TypeOK, WorkOK
  <2>4. ChainsOK'
    BY <2>1 DEF TypeInv, TypeOK, ChainsOK, PC
  <2>5. JobMatchesPC'
    BY <1>1, <2>1, RequestFacts DEF TypeInv, TypeOK, WorkOK, ChainsOK, JobMatchesPC
  <2>6. QED BY <1>2, <2>2, <2>3, <2>4, <2>5, ChainFrame
<1>5. QED BY <1>3, <1>4

LEMMA TypeAbandon == \A c \in Chain : TypeInv /\ Abandon(c) => TypeInv'
<1> SUFFICES ASSUME TypeInv, NEW c \in Chain, Abandon(c) PROVE TypeInv'
  OBVIOUS
<1>1. job[c] \in Request /\ generated[job[c]] \in Nat
  BY JobOfChain DEF Abandon
<1>2. FateOK'
  BY <1>1 DEF TypeInv, TypeOK, FateOK, Abandon
<1>3. WorkOK'
  BY <1>1 DEF TypeInv, TypeOK, WorkOK, Abandon, Release
<1>4. ChainsOK'
  BY DEF TypeInv, TypeOK, ChainsOK, PC, Ended, Abandon
<1>5. JobMatchesPC'
  BY DEF TypeInv, TypeOK, WorkOK, ChainsOK, JobMatchesPC, Abandon
<1>6. /\ pc[c] # "unborn" /\ UNCHANGED <<started, stopped, loadVars, poolVars>>
      /\ \A d \in Chain \ {c} : pc'[d] = pc[d]
  BY DEF Abandon, TypeInv, TypeOK, ChainsOK
<1>7. QED BY <1>2, <1>3, <1>4, <1>5, <1>6, ChainFrame

LEMMA TypeComplete == \A c \in Chain : TypeInv /\ Complete(c) => TypeInv'
<1> SUFFICES ASSUME TypeInv, NEW c \in Chain, Complete(c) PROVE TypeInv'
  OBVIOUS
<1>1. job[c] \in Request /\ generated[job[c]] \in Nat
  BY JobOfChain DEF Complete
<1>2. generated' \in [Request -> Nat]
  BY <1>1 DEF TypeInv, TypeOK, WorkOK, Complete
<1>3. FateOK' /\ inflight' \in Int
  BY <1>1, <1>2, FinishTypes DEF TypeInv, TypeOK, WorkOK, Complete
<1>4. WorkOK'
  BY <1>2, <1>3 DEF TypeInv, TypeOK, WorkOK, Complete
<1>5. ChainsOK'
  BY DEF TypeInv, TypeOK, ChainsOK, PC, Complete
<1>6. JobMatchesPC'
  BY DEF TypeInv, TypeOK, WorkOK, ChainsOK, JobMatchesPC, Complete
<1>7. /\ pc[c] # "unborn" /\ UNCHANGED <<started, stopped, loadVars, poolVars>>
      /\ \A d \in Chain \ {c} : pc'[d] = pc[d]
  BY DEF Complete, TypeInv, TypeOK, ChainsOK
<1>8. QED BY <1>3, <1>4, <1>5, <1>6, <1>7, ChainFrame

LEMMA TypeDecodeToken == \A c \in Chain : TypeInv /\ DecodeToken(c) => TypeInv'
<1> SUFFICES ASSUME TypeInv, NEW c \in Chain, DecodeToken(c) PROVE TypeInv'
  OBVIOUS
<1>1. job[c] \in Request /\ generated[job[c]] \in Nat
  BY JobOfChain DEF DecodeToken
<1>2. WorkOK'
  BY <1>1 DEF TypeInv, TypeOK, WorkOK, DecodeToken
<1>3. FateOK'
  BY SameTypes DEF TypeInv, TypeOK, DecodeToken
<1>4. ChainsOK' /\ JobMatchesPC'
  BY DEF TypeInv, TypeOK, ChainsOK, JobMatchesPC, DecodeToken
<1>5. /\ pc[c] # "unborn" /\ UNCHANGED <<started, stopped, loadVars, poolVars>>
      /\ \A d \in Chain \ {c} : pc'[d] = pc[d]
  BY DEF DecodeToken, TypeInv, TypeOK, ChainsOK
<1>6. QED BY <1>2, <1>3, <1>4, <1>5, ChainFrame

\* A flip keeps the types of the pools, and pays for the drain it starts.
LEMMA FlipTypes ==
  ASSUME TypeInv, NEW w \in Worker, NEW to \in Roles, Flip(w, to),
         flips < MaxFlips, flips' = flips + 1, UNCHANGED epoch
  PROVE  /\ state' \in [Worker -> {"healthy", "busy", "draining", "failed"}]
         /\ stop' \in [Worker -> BOOLEAN] /\ role' \in [Worker -> Roles]
         /\ drain' \in [Worker -> RoleOrNone] /\ flips' \in 0 .. MaxFlips
         /\ EpochsPaid'
<1>1. flips' \in 0 .. MaxFlips
  BY BoundAssumption DEF TypeInv, TypeOK, PoolsOK
<1>2. CASE stop[w]
  BY <1>1, <1>2 DEF Flip, TypeInv, TypeOK, PoolsOK, ChainsOK, EpochsPaid
<1>3. CASE ~stop[w]
  <2>1. /\ state' = [state EXCEPT ![w] = "draining"]
        /\ stop' = [stop EXCEPT ![w] = TRUE]
        /\ role' = [role EXCEPT ![w] = to]
        /\ drain' = [drain EXCEPT ![w] = to]
    BY <1>3 DEF Flip
  <2>2. state' \in [Worker -> {"healthy", "busy", "draining", "failed"}]
    BY <2>1 DEF TypeInv, TypeOK, ChainsOK
  <2>3. stop' \in [Worker -> BOOLEAN]
    BY <2>1 DEF TypeInv, TypeOK, PoolsOK
  <2>4. role' \in [Worker -> Roles] /\ drain' \in [Worker -> RoleOrNone]
    BY <2>1 DEF TypeInv, TypeOK, PoolsOK, RoleOrNone
  <2>5. EpochsPaid'
    BY <2>1, BoundAssumption DEF TypeInv, TypeOK, PoolsOK, EpochsPaid
  <2>6. QED BY <1>1, <2>2, <2>3, <2>4, <2>5
<1>4. QED BY <1>2, <1>3

LEMMA TypeResize == TypeInv /\ (ResizeToPrefill \/ ResizeToDecode) => TypeInv'
<1> SUFFICES ASSUME TypeInv, ResizeToPrefill \/ ResizeToDecode PROVE TypeInv'
  OBVIOUS
<1>1. /\ UNCHANGED <<started, stopped, loadVars, fateVars, workVars, epoch, pc>>
      /\ started /\ flips < MaxFlips /\ flips' = flips + 1
  BY DEF ResizeToPrefill, ResizeToDecode, CallerFlips
<1>2. prefillGPUs \in Seq(Worker) /\ decodeGPUs \in Seq(Worker)
  BY DEF TypeInv, TypeOK, PoolsOK
<1>3. \E w \in Worker, to \in Roles :
        /\ Flip(w, to)
        /\ prefillGPUs' \in Seq(Worker) /\ decodeGPUs' \in Seq(Worker)
  <2>1. CASE ResizeToPrefill
    <3>1. Len(decodeGPUs) > 0
      BY <2>1, <1>2, LenProperties, CallerAssumption DEF ResizeToPrefill
    <3>2. Last(decodeGPUs) \in Worker /\ Front(decodeGPUs) \in Seq(Worker)
      BY <1>2, <3>1, LastTypes
    <3>3. Append(prefillGPUs, Last(decodeGPUs)) \in Seq(Worker)
      BY <1>2, <3>2, PushTypes
    <3>4. QED BY <2>1, <3>2, <3>3 DEF ResizeToPrefill, Roles
  <2>2. CASE ResizeToDecode
    <3>1. Len(prefillGPUs) > 0
      BY <2>2, <1>2, LenProperties, CallerAssumption DEF ResizeToDecode
    <3>2. Last(prefillGPUs) \in Worker /\ Front(prefillGPUs) \in Seq(Worker)
      BY <1>2, <3>1, LastTypes
    <3>3. Append(decodeGPUs, Last(prefillGPUs)) \in Seq(Worker)
      BY <1>2, <3>2, PushTypes
    <3>4. QED BY <2>2, <3>2, <3>3 DEF ResizeToDecode, Roles
  <2>3. QED BY <2>1, <2>2
<1>4. PICK w \in Worker, to \in Roles :
        /\ Flip(w, to)
        /\ prefillGPUs' \in Seq(Worker) /\ decodeGPUs' \in Seq(Worker)
  BY <1>3
<1>5. /\ state' \in [Worker -> {"healthy", "busy", "draining", "failed"}]
      /\ stop' \in [Worker -> BOOLEAN] /\ role' \in [Worker -> Roles]
      /\ drain' \in [Worker -> RoleOrNone] /\ flips' \in 0 .. MaxFlips
      /\ EpochsPaid'
  BY <1>1, <1>4, FlipTypes
<1>6. PoolsOK'
  BY <1>1, <1>4, <1>5 DEF TypeInv, TypeOK, PoolsOK
<1>7. ChainsOK'
  BY <1>1, <1>5 DEF TypeInv, TypeOK, ChainsOK
<1>8. LoadOK' /\ FateOK' /\ WorkOK'
  BY <1>1, SameTypes DEF TypeInv, TypeOK
<1>9. JobMatchesPC' /\ EpochsBorn' /\ ArrivalsBounded' /\ NothingBeforeStart'
  BY <1>1
  DEF TypeInv, JobMatchesPC, EpochsBorn, ArrivalsBounded, NothingBeforeStart,
      workVars, loadVars
<1>10. QED BY <1>1, <1>5, <1>6, <1>7, <1>8, <1>9 DEF TypeInv, TypeOK

LEMMA TypeDrainDone == \A w \in Worker : TypeInv /\ DrainDone(w) => TypeInv'
<1> SUFFICES ASSUME TypeInv, NEW w \in Worker, DrainDone(w) PROVE TypeInv'
  OBVIOUS
<1>1. /\ UNCHANGED <<started, stopped, loadVars, fateVars, workVars,
                     prefillGPUs, decodeGPUs, role, flips>>
      /\ drain[w] # "none" /\ drain' = [drain EXCEPT ![w] = "none"]
  BY DEF DrainDone
<1>2. started
  BY <1>1 DEF TypeInv, NothingBeforeStart
<1>3. LoadOK' /\ FateOK' /\ WorkOK'
  BY <1>1, SameTypes DEF TypeInv, TypeOK
<1>4. drain' \in [Worker -> RoleOrNone]
  BY <1>1 DEF TypeInv, TypeOK, PoolsOK, RoleOrNone
<1>5. ArrivalsBounded' /\ NothingBeforeStart'
  BY <1>1, <1>2 DEF TypeInv, ArrivalsBounded, NothingBeforeStart, loadVars
<1>6. epoch[w] \in Nat /\ epoch[w] + 1 <= flips /\ epoch[w] + 1 \in 0 .. MaxFlips
  BY <1>1, BoundAssumption DEF TypeInv, TypeOK, PoolsOK, EpochsPaid
<1>7. CASE stopped
  <2>1. UNCHANGED <<stop, epoch, pc>> /\ state' = [state EXCEPT ![w] = "failed"]
    BY <1>7 DEF DrainDone
  <2>2. PoolsOK' /\ ChainsOK'
    BY <1>1, <1>4, <2>1 DEF TypeInv, TypeOK, PoolsOK, ChainsOK
  <2>3. EpochsPaid'
    BY <1>1, <2>1, BoundAssumption DEF TypeInv, TypeOK, PoolsOK, EpochsPaid
  <2>4. JobMatchesPC' /\ EpochsBorn'
    BY <1>1, <2>1 DEF TypeInv, JobMatchesPC, EpochsBorn, workVars
  <2>5. QED BY <1>1, <1>3, <1>5, <2>2, <2>3, <2>4 DEF TypeInv, TypeOK
<1>8. CASE ~stopped
  <2>1. /\ state' = [state EXCEPT ![w] = "healthy"]
        /\ stop' = [stop EXCEPT ![w] = FALSE]
        /\ epoch' = [epoch EXCEPT ![w] = epoch[w] + 1]
        /\ pc' = [pc EXCEPT ![<<w, epoch[w] + 1>>] =
                    IF drain[w] = "prefill" THEN "prefillStep" ELSE "decodeStep"]
    BY <1>8 DEF DrainDone
  <2>2. stop' \in [Worker -> BOOLEAN] /\ epoch' \in [Worker -> 0 .. MaxFlips]
    BY <1>6, <2>1 DEF TypeInv, TypeOK, PoolsOK
  <2>3. PoolsOK'
    BY <1>1, <1>4, <2>2 DEF TypeInv, TypeOK, PoolsOK
  <2>4. ChainsOK'
    BY <2>1 DEF TypeInv, TypeOK, ChainsOK, PC
  <2>5. EpochsPaid'
    BY <1>1, <1>6, <2>1, BoundAssumption DEF TypeInv, TypeOK, PoolsOK, EpochsPaid
  <2>6. PICK c \in Chain : c = <<w, epoch[w] + 1>> /\ c[1] = w /\ c[2] = epoch[w] + 1
    <3>1. <<w, epoch[w] + 1>> \in Chain
      BY <1>6 DEF Chain
    <3>2. QED BY <3>1
  <2>7. pc[c] = "unborn" /\ job[c] = NoRequest
    BY <1>6, <2>6 DEF TypeInv, EpochsBorn, JobMatchesPC
  <2>8. JobMatchesPC'
    BY <1>1, <2>1, <2>6, <2>7 DEF TypeInv, TypeOK, ChainsOK, JobMatchesPC, workVars
  <2>9. EpochsBorn'
    <3> SUFFICES ASSUME NEW d \in Chain, pc'[d] # "unborn"
                 PROVE  d[2] <= epoch'[d[1]]
      BY DEF EpochsBorn
    <3>1. d[1] \in Worker /\ d[2] \in Nat /\ epoch[d[1]] \in Nat
      BY BoundAssumption DEF Chain, TypeInv, TypeOK, PoolsOK
    <3>2. CASE d = c
      BY <1>6, <2>1, <2>6, <3>1, <3>2 DEF TypeInv, TypeOK, PoolsOK
    <3>3. CASE d # c
      BY <1>6, <2>1, <2>6, <3>1, <3>3
      DEF TypeInv, TypeOK, PoolsOK, ChainsOK, EpochsBorn
    <3>4. QED BY <3>2, <3>3
  <2>10. QED BY <1>1, <1>3, <1>5, <2>3, <2>4, <2>5, <2>8, <2>9 DEF TypeInv, TypeOK
<1>9. QED BY <1>7, <1>8

LEMMA TypeStop ==
  TypeInv /\ (Stop \/ StopAtHorizon \/ StopAtQuiescence) => TypeInv'
<1> SUFFICES ASSUME TypeInv, Stop \/ StopAtHorizon \/ StopAtQuiescence PROVE TypeInv'
  OBVIOUS
<1>1. /\ stopped' = TRUE
      /\ UNCHANGED <<started, loadVars, fateVars, workVars, prefillGPUs, decodeGPUs,
                     role, epoch, drain, flips, state, pc>>
      /\ stop' = stop \/ stop' = [w \in Worker |-> TRUE]
  BY DEF Stop, StopAtHorizon, StopAtQuiescence, poolVars
<1>2. LoadOK' /\ FateOK' /\ WorkOK'
  BY <1>1, SameTypes DEF TypeInv, TypeOK
<1>3. stop' \in [Worker -> BOOLEAN]
  BY <1>1 DEF TypeInv, TypeOK, PoolsOK
<1>4. PoolsOK' /\ ChainsOK'
  BY <1>1, <1>3 DEF TypeInv, TypeOK, PoolsOK, ChainsOK
<1>5. /\ JobMatchesPC' /\ EpochsPaid' /\ EpochsBorn'
      /\ ArrivalsBounded' /\ NothingBeforeStart'
  BY <1>1
  DEF TypeInv, JobMatchesPC, EpochsPaid, EpochsBorn, ArrivalsBounded, NothingBeforeStart,
      loadVars, workVars
<1>6. QED BY <1>1, <1>2, <1>4, <1>5 DEF TypeInv, TypeOK

LEMMA TypeStep == TypeInv /\ [Next]_vars => TypeInv'
<1> SUFFICES ASSUME TypeInv, [Next]_vars PROVE TypeInv'
  OBVIOUS
<1>1. ASSUME NEW c \in Chain, ChainStep(c) PROVE TypeInv'
  BY <1>1, TypeExit, TypeAdmit, TypeReject, TypePrefillDone, TypeHandOff,
     TypeTakeHandoff, TypeAbandon, TypeComplete, TypeDecodeToken
  DEF ChainStep
<1>2. CASE UNCHANGED vars
  <2>1. UNCHANGED <<started, stopped, loadVars, poolVars, fateVars, workVars, state, pc>>
    BY <1>2 DEF vars
  <2>2. TypeOK'
    BY <2>1, SameTypes DEF TypeInv, TypeOK, ChainsOK
  <2>3. QED
    BY <2>1, <2>2
    DEF TypeInv, JobMatchesPC, EpochsPaid, EpochsBorn, ArrivalsBounded,
        NothingBeforeStart, loadVars, poolVars, workVars
<1>3. QED
  BY <1>1, <1>2, TypeStart, TypeArrive, TypeResize, TypeDrainDone, TypeStop
  DEF Next, Terminated

\* Every variable keeps its type, for every number of GPUs, requests and flips;
\* a chain holds a request exactly in the states in which its callbacks use it.
THEOREM TypeCorrect == Spec => []TypeOK
<1>1. TypeInv => TypeOK
  BY DEF TypeInv
<1>2. QED BY TypeInit, TypeStep, <1>1, PTL DEF Spec

-----------------------------------------------------------------------------
(* Each request is in one place *)

(* The argument is a bookkeeping of six sets.  Every step moves one request
   from one place to another, or adds the next one to the queue; the places stay
   apart as long as the queues and the chains name each request once, and they do
   because what is pushed or taken comes from another place.  No step moves a
   request between GENERATIONS of chains, so it does not matter how many chains of
   one worker are alive. *)

HeldOnce == \A c, d \in Chain : job[c] = job[d] /\ job[c] # NoRequest => c = d

PlacesApart == Apart(Waiting, Handed, Held, finished, rejected, abandoned)
PlacesCover ==
  Waiting \cup Handed \cup Held \cup finished \cup rejected \cup abandoned = 1 .. arrived

\* EachRequestOnce in a form that is easier to work with: see OncePlaces.
OnceInv == InOrder(queue) /\ Once(decodeQueue) /\ HeldOnce /\ PlacesApart /\ PlacesCover

-----------------------------------------------------------------------------
(* Places *)

\* A chain takes a request nobody holds, or lets go of its own.
LEMMA HeldTake ==
  ASSUME job \in [Chain -> Request \cup {NoRequest}], HeldOnce,
         NEW c \in Chain, job[c] = NoRequest, NEW r \in Request, r \notin Held,
         job' = [job EXCEPT ![c] = r]
  PROVE  Held' = Held \cup {r} /\ HeldOnce'
<1>1. /\ job'[c] = r /\ r # NoRequest
      /\ \A d \in Chain \ {c} : job'[d] = job[d]
      /\ \A d \in Chain : job[d] # r
  BY RequestFacts DEF Held
<1>2. Held' = Held \cup {r}
  BY <1>1 DEF Held
<1>3. HeldOnce'
  BY <1>1 DEF HeldOnce
<1>4. QED BY <1>2, <1>3

LEMMA HeldDrop ==
  ASSUME job \in [Chain -> Request \cup {NoRequest}], HeldOnce,
         NEW c \in Chain, job[c] # NoRequest, job' = [job EXCEPT ![c] = NoRequest]
  PROVE  Held' = Held \ {job[c]} /\ HeldOnce' /\ job[c] \in Held
<1>1. /\ job'[c] = NoRequest
      /\ \A d \in Chain \ {c} : job'[d] = job[d] /\ job[d] # job[c]
  BY DEF HeldOnce
<1>2. Held' = Held \ {job[c]}
  BY <1>1 DEF Held
<1>3. HeldOnce'
  BY <1>1 DEF HeldOnce
<1>4. job[c] \in Held
  BY DEF Held
<1>5. QED BY <1>2, <1>3, <1>4

\* The places stay apart when a request moves from one to another.
LEMMA Moves ==
  ASSUME NEW A, NEW B, NEW C, NEW D, NEW E, NEW F, Apart(A, B, C, D, E, F)
  PROVE  /\ \A x \in A : Apart(A \ {x}, B, C \cup {x}, D, E, F)
         /\ \A x \in A : Apart(A \ {x}, B, C, D, E \cup {x}, F)
         /\ \A x \in C : Apart(A, B \cup {x}, C \ {x}, D, E, F)
         /\ \A x \in B : Apart(A, B \ {x}, C \cup {x}, D, E, F)
         /\ \A x \in B : Apart(A, B \ {x}, C, D \cup {x}, E, F)
         /\ \A x \in C : Apart(A, B, C \ {x}, D \cup {x}, E, F)
         /\ \A x \in C : Apart(A, B, C \ {x}, D, E \cup {x}, F)
         /\ \A x \in C : Apart(A, B, C \ {x}, D, E, F \cup {x})
  BY DEF Apart

\* The property as it is checked, in the form it is proved.
LEMMA OncePlaces == EachRequestOnce <=> OnceInv
<1> DEFINE place == <<Waiting, Handed, Held, finished, rejected, abandoned>>
<1>1. /\ (\A i, j \in 1 .. 6 : i # j => place[i] \cap place[j] = {}) <=> PlacesApart
      /\ UNION {place[i] : i \in 1 .. 6}
           = Waiting \cup Handed \cup Held \cup finished \cup rejected \cup abandoned
  BY SixPlaces DEF PlacesApart
<1>2. QED
  BY <1>1 DEF EachRequestOnce, OnceInv, place, InOrder, Once, HeldOnce, PlacesCover

LEMMA OnceInit == Init => OnceInv
<1> SUFFICES ASSUME Init PROVE OnceInv
  OBVIOUS
<1>1. queue = <<>> /\ decodeQueue = <<>> /\ \A c \in Chain : job[c] = NoRequest
  BY DEF Init
<1>2. Waiting = {} /\ Handed = {} /\ Held = {}
  BY <1>1 DEF Waiting, Handed, Held, ToSet
<1>3. finished = {} /\ rejected = {} /\ abandoned = {} /\ arrived = 0
  BY DEF Init
<1>4. PlacesApart /\ PlacesCover
  BY <1>2, <1>3 DEF PlacesApart, Apart, PlacesCover
<1>5. InOrder(queue) /\ Once(decodeQueue) /\ HeldOnce
  BY <1>1 DEF InOrder, Once, HeldOnce
<1>6. QED BY <1>4, <1>5 DEF OnceInv

-----------------------------------------------------------------------------
(* Each step *)

\* A step that touches no place.
LEMMA OnceSame ==
  ASSUME OnceInv, UNCHANGED <<arrived, queue, decodeQueue, job, finished, rejected, abandoned>>
  PROVE  OnceInv'
<1>1. Waiting' = Waiting /\ Handed' = Handed /\ Held' = Held
  BY DEF Waiting, Handed, Held
<1>2. PlacesApart' /\ PlacesCover'
  BY <1>1 DEF OnceInv, PlacesApart, PlacesCover
<1>3. InOrder(queue)' /\ Once(decodeQueue)' /\ HeldOnce'
  BY DEF OnceInv, HeldOnce, InOrder, Once
<1>4. QED BY <1>2, <1>3 DEF OnceInv

\* The next request comes to the queue, after all that ever came.
LEMMA OncePush ==
  ASSUME LoadOK, WorkOK, ArrivalsBounded, OnceInv, Arrive
  PROVE  OnceInv'
<1>1. CASE stopped
  <2>1. UNCHANGED <<arrived, queue, decodeQueue, job, finished, rejected, abandoned>>
    BY <1>1 DEF Arrive, fateVars
  <2>2. QED BY <2>1, OnceSame
<1>2. CASE ~stopped
  <2>1. /\ arrived' = arrived + 1 /\ queue' = Append(queue, arrived + 1)
        /\ UNCHANGED <<decodeQueue, job, finished, rejected, abandoned>>
    BY <1>2 DEF Arrive, fateVars
  <2>2. /\ queue \in Seq(Request) /\ arrived \in Nat /\ arrived + 1 \in Request
    BY <1>2, BoundAssumption
    DEF LoadOK, WorkOK, ArrivalsBounded, Arrive, Request
  <2>3. 1 .. arrived + 1 = (1 .. arrived) \cup {arrived + 1} /\ arrived + 1 \notin 1 .. arrived
    BY <2>2
  <2>4. \A x \in Waiting : x < arrived + 1
    BY <2>2 DEF OnceInv, PlacesCover
  <2>5. Waiting' = Waiting \cup {arrived + 1} /\ InOrder(queue')
    BY <2>1, <2>2, <2>4, PushSet DEF Waiting, OnceInv
  <2>6. Handed' = Handed /\ Held' = Held
    BY <2>1 DEF Handed, Held
  <2>7. PlacesCover'
    BY <2>1, <2>3, <2>5, <2>6 DEF OnceInv, PlacesCover
  <2>8. PlacesApart'
    <3>1. arrived + 1 \notin
            Waiting \cup Handed \cup Held \cup finished \cup rejected \cup abandoned
      BY <2>3 DEF OnceInv, PlacesCover
    <3>2. QED BY <2>1, <2>5, <2>6, <3>1 DEF OnceInv, PlacesApart, Apart
  <2>9. Once(decodeQueue)' /\ HeldOnce'
    BY <2>1 DEF OnceInv, HeldOnce, Once
  <2>10. QED BY <2>5, <2>7, <2>8, <2>9 DEF OnceInv
<1>3. QED BY <1>1, <1>2

LEMMA OnceArrive == TypeInv /\ OnceInv /\ Arrive => OnceInv'
BY OncePush DEF TypeInv, TypeOK

\* What a pop of the admission queue does to its places.
LEMMA PopOldest ==
  ASSUME WorkOK, OnceInv, queue # <<>>, queue' = Tail(queue)
  PROVE  /\ Head(queue) \in Request /\ Head(queue) \in Waiting
         /\ Waiting' = Waiting \ {Head(queue)} /\ InOrder(queue')
         /\ \A q \in Waiting : Head(queue) <= q
<1>1. queue \in Seq(Request) /\ InOrder(queue)
  BY DEF WorkOK, OnceInv
<1>2. Once(queue)
  BY <1>1, InOrderOnce, RequestFacts
<1>3. /\ Head(queue) \in ToSet(queue) /\ ToSet(Tail(queue)) = ToSet(queue) \ {Head(queue)}
      /\ InOrder(Tail(queue))
  BY <1>1, <1>2, PopSet
<1>4. Head(queue) \in Request
  BY <1>1, PopTypes
<1>5. \A q \in Waiting : Head(queue) <= q
  BY <1>1, HeadLeast, RequestFacts DEF Waiting
<1>6. QED BY <1>3, <1>4, <1>5 DEF Waiting

LEMMA PopFirstHandoff ==
  ASSUME WorkOK, OnceInv, decodeQueue # <<>>, decodeQueue' = Tail(decodeQueue)
  PROVE  /\ Head(decodeQueue) \in Request /\ Head(decodeQueue) \in Handed
         /\ Handed' = Handed \ {Head(decodeQueue)} /\ Once(decodeQueue')
<1>1. decodeQueue \in Seq(Request) /\ Once(decodeQueue)
  BY DEF WorkOK, OnceInv
<1>2. /\ Head(decodeQueue) \in ToSet(decodeQueue)
      /\ ToSet(Tail(decodeQueue)) = ToSet(decodeQueue) \ {Head(decodeQueue)}
      /\ Once(Tail(decodeQueue))
  BY <1>1, PopSet
<1>3. Head(decodeQueue) \in Request
  BY <1>1, PopTypes
<1>4. QED BY <1>2, <1>3 DEF Handed

LEMMA PopQueue ==
  ASSUME TypeInv, OnceInv, queue # <<>>, queue' = Tail(queue)
  PROVE  /\ Head(queue) \in Request /\ Head(queue) \in Waiting
         /\ Waiting' = Waiting \ {Head(queue)} /\ InOrder(queue')
         /\ \A q \in Waiting : Head(queue) <= q
BY PopOldest DEF TypeInv, TypeOK

LEMMA PopHandoff ==
  ASSUME TypeInv, OnceInv, decodeQueue # <<>>, decodeQueue' = Tail(decodeQueue)
  PROVE  /\ Head(decodeQueue) \in Request /\ Head(decodeQueue) \in Handed
         /\ Handed' = Handed \ {Head(decodeQueue)} /\ Once(decodeQueue')
BY PopFirstHandoff DEF TypeInv, TypeOK

\* A chain that waits for work holds nothing.
LEMMA IdleHoldsNothing ==
  ASSUME TypeInv, NEW c \in Chain, pc[c] \in {"prefillStep", "decodeStep"}
  PROVE  job[c] = NoRequest
  BY DEF TypeInv, JobMatchesPC

\* A chain with nothing in hand takes the oldest request.
LEMMA OncePops ==
  ASSUME WorkOK, OnceInv, NEW c \in Chain, job[c] = NoRequest,
         queue # <<>>, queue' = Tail(queue), job' = [job EXCEPT ![c] = Head(queue)],
         UNCHANGED <<arrived, decodeQueue, finished, rejected, abandoned>>
  PROVE  OnceInv'
<1> DEFINE r == Head(queue)
<1>1. r \in Request /\ r \in Waiting /\ Waiting' = Waiting \ {r} /\ InOrder(queue')
  BY PopOldest
<1>2. r \notin Held
  BY <1>1 DEF OnceInv, PlacesApart, Apart
<1>3. Held' = Held \cup {r} /\ HeldOnce'
  <2>1. job \in [Chain -> Request \cup {NoRequest}] /\ HeldOnce
    BY DEF WorkOK, OnceInv
  <2>2. QED BY <1>1, <1>2, <2>1, HeldTake
<1>4. Handed' = Handed /\ Once(decodeQueue)'
  BY DEF Handed, OnceInv, Once
<1>5. PlacesApart'
  BY <1>1, <1>3, <1>4, Moves DEF OnceInv, PlacesApart
<1>6. PlacesCover'
  BY <1>1, <1>3, <1>4 DEF OnceInv, PlacesCover
<1>7. QED BY <1>1, <1>3, <1>4, <1>5, <1>6 DEF OnceInv

\* It takes the oldest hand-off.
LEMMA OnceTakes ==
  ASSUME WorkOK, OnceInv, NEW c \in Chain, job[c] = NoRequest,
         decodeQueue # <<>>, decodeQueue' = Tail(decodeQueue),
         job' = [job EXCEPT ![c] = Head(decodeQueue)],
         UNCHANGED <<arrived, queue, finished, rejected, abandoned>>
  PROVE  OnceInv'
<1> DEFINE r == Head(decodeQueue)
<1>1. r \in Request /\ r \in Handed /\ Handed' = Handed \ {r} /\ Once(decodeQueue')
  BY PopFirstHandoff
<1>2. r \notin Held
  BY <1>1 DEF OnceInv, PlacesApart, Apart
<1>3. Held' = Held \cup {r} /\ HeldOnce'
  <2>1. job \in [Chain -> Request \cup {NoRequest}] /\ HeldOnce
    BY DEF WorkOK, OnceInv
  <2>2. QED BY <1>1, <1>2, <2>1, HeldTake
<1>4. Waiting' = Waiting /\ InOrder(queue)'
  BY DEF Waiting, OnceInv, InOrder
<1>5. PlacesApart'
  BY <1>1, <1>3, <1>4, Moves DEF OnceInv, PlacesApart
<1>6. PlacesCover'
  BY <1>1, <1>3, <1>4 DEF OnceInv, PlacesCover
<1>7. QED BY <1>1, <1>3, <1>4, <1>5, <1>6 DEF OnceInv

\* It hands its request over.
LEMMA OnceHands ==
  ASSUME WorkOK, OnceInv, NEW c \in Chain, job[c] # NoRequest,
         job' = [job EXCEPT ![c] = NoRequest], decodeQueue' = Append(decodeQueue, job[c]),
         UNCHANGED <<arrived, queue, finished, rejected, abandoned>>
  PROVE  OnceInv'
<1> DEFINE r == job[c]
<1>1. /\ job \in [Chain -> Request \cup {NoRequest}] /\ HeldOnce
      /\ decodeQueue \in Seq(Request) /\ Once(decodeQueue) /\ r \in Request
  BY DEF WorkOK, OnceInv
<1>2. Held' = Held \ {r} /\ HeldOnce' /\ r \in Held
  BY <1>1, HeldDrop
<1>3. r \notin ToSet(decodeQueue)
  BY <1>2 DEF OnceInv, PlacesApart, Apart, Handed
<1>4. Handed' = Handed \cup {r} /\ Once(decodeQueue')
  <2>1. /\ ToSet(Append(decodeQueue, r)) = ToSet(decodeQueue) \cup {r}
        /\ Once(Append(decodeQueue, r))
    BY <1>1, <1>3, PushSet
  <2>2. QED BY <2>1 DEF Handed
<1>5. Waiting' = Waiting /\ InOrder(queue)'
  BY DEF Waiting, OnceInv, InOrder
<1>6. PlacesApart'
  BY <1>2, <1>4, <1>5, Moves DEF OnceInv, PlacesApart
<1>7. PlacesCover'
  BY <1>2, <1>4, <1>5 DEF OnceInv, PlacesCover
<1>8. QED BY <1>2, <1>4, <1>5, <1>6, <1>7 DEF OnceInv

\* Its request meets one of the fates.
LEMMA OnceEnd ==
  ASSUME WorkOK, OnceInv, NEW c \in Chain, job[c] # NoRequest,
         job' = [job EXCEPT ![c] = NoRequest], UNCHANGED <<arrived, queue, decodeQueue>>,
         \/ finished' = finished \cup {job[c]} /\ UNCHANGED <<rejected, abandoned>>
         \/ rejected' = rejected \cup {job[c]} /\ UNCHANGED <<finished, abandoned>>
         \/ abandoned' = abandoned \cup {job[c]} /\ UNCHANGED <<finished, rejected>>
  PROVE  OnceInv'
<1> DEFINE r == job[c]
<1>1. Held' = Held \ {r} /\ HeldOnce' /\ r \in Held
  <2>1. job \in [Chain -> Request \cup {NoRequest}] /\ HeldOnce
    BY DEF WorkOK, OnceInv
  <2>2. QED BY <2>1, HeldDrop
<1>2. /\ Waiting' = Waiting /\ InOrder(queue)'
      /\ Handed' = Handed /\ Once(decodeQueue)'
  BY DEF Waiting, Handed, OnceInv, InOrder, Once
<1>3. PlacesApart'
  BY <1>1, <1>2, Moves DEF OnceInv, PlacesApart
<1>4. PlacesCover'
  BY <1>1, <1>2 DEF OnceInv, PlacesCover
<1>5. QED BY <1>1, <1>2, <1>3, <1>4 DEF OnceInv

LEMMA OnceAdmit == \A c \in Chain : TypeInv /\ OnceInv /\ Admit(c) => OnceInv'
<1> SUFFICES ASSUME TypeInv, OnceInv, NEW c \in Chain, Admit(c) PROVE OnceInv'
  OBVIOUS
<1>1. /\ queue # <<>> /\ queue' = Tail(queue) /\ job' = [job EXCEPT ![c] = Head(queue)]
      /\ UNCHANGED <<arrived, decodeQueue, finished, rejected, abandoned>>
      /\ pc[c] = "prefillStep"
  BY DEF Admit, loadVars
<1>2. job[c] = NoRequest /\ WorkOK
  BY <1>1, IdleHoldsNothing DEF TypeInv, TypeOK
<1>3. QED BY <1>1, <1>2, OncePops

LEMMA OnceReject == \A c \in Chain : TypeInv /\ OnceInv /\ Reject(c) => OnceInv'
<1> SUFFICES ASSUME TypeInv, OnceInv, NEW c \in Chain, Reject(c) PROVE OnceInv'
  OBVIOUS
<1> DEFINE r == Head(queue)
<1>1. /\ queue # <<>> /\ queue' = Tail(queue) /\ rejected' = rejected \cup {r}
      /\ UNCHANGED <<arrived, decodeQueue, job, finished, abandoned>>
  BY DEF Reject, loadVars
<1>2. r \in Waiting /\ Waiting' = Waiting \ {r} /\ InOrder(queue')
  BY <1>1, PopQueue
<1>3. Handed' = Handed /\ Held' = Held /\ Once(decodeQueue)' /\ HeldOnce'
  BY <1>1 DEF Handed, Held, HeldOnce, OnceInv, Once
<1>4. PlacesApart'
  BY <1>1, <1>2, <1>3, Moves DEF OnceInv, PlacesApart
<1>5. PlacesCover'
  BY <1>1, <1>2, <1>3 DEF OnceInv, PlacesCover
<1>6. QED BY <1>2, <1>3, <1>4, <1>5 DEF OnceInv

LEMMA OnceHandOff == \A c \in Chain : TypeInv /\ OnceInv /\ HandOff(c) => OnceInv'
<1> SUFFICES ASSUME TypeInv, OnceInv, NEW c \in Chain, HandOff(c) PROVE OnceInv'
  OBVIOUS
<1>1. /\ job' = [job EXCEPT ![c] = NoRequest] /\ decodeQueue' = Append(decodeQueue, job[c])
      /\ UNCHANGED <<arrived, queue, finished, rejected, abandoned>>
  BY DEF HandOff, loadVars, fateVars
<1>2. job[c] # NoRequest /\ WorkOK
  BY JobOfChain DEF HandOff, TypeInv, TypeOK
<1>3. QED BY <1>1, <1>2, OnceHands

LEMMA OnceTakeHandoff == \A c \in Chain : TypeInv /\ OnceInv /\ TakeHandoff(c) => OnceInv'
<1> SUFFICES ASSUME TypeInv, OnceInv, NEW c \in Chain, TakeHandoff(c) PROVE OnceInv'
  OBVIOUS
<1> DEFINE r == Head(decodeQueue)
<1>1. /\ decodeQueue # <<>> /\ decodeQueue' = Tail(decodeQueue) /\ pc[c] = "decodeStep"
      /\ UNCHANGED <<arrived, queue, rejected, abandoned>>
  BY DEF TakeHandoff, loadVars
<1>2. CASE IsFinished(r, generated[r])
  <2>1. finished' = finished \cup {r} /\ job' = job
    BY <1>2 DEF TakeHandoff, Finish
  <2>2. r \in Request /\ r \in Handed /\ Handed' = Handed \ {r} /\ Once(decodeQueue')
    BY <1>1, PopHandoff
  <2>3. /\ Held' = Held /\ HeldOnce' /\ Waiting' = Waiting /\ InOrder(queue)'
    BY <1>1, <2>1 DEF Held, HeldOnce, Waiting, OnceInv, InOrder
  <2>4. PlacesApart'
    BY <1>1, <2>1, <2>2, <2>3, Moves DEF OnceInv, PlacesApart
  <2>5. PlacesCover'
    BY <1>1, <2>1, <2>2, <2>3 DEF OnceInv, PlacesCover
  <2>6. QED BY <2>2, <2>3, <2>4, <2>5 DEF OnceInv
<1>3. CASE ~IsFinished(r, generated[r])
  <2>1. finished' = finished /\ job' = [job EXCEPT ![c] = r]
    BY <1>3 DEF TakeHandoff
  <2>2. job[c] = NoRequest /\ WorkOK
    BY <1>1, IdleHoldsNothing DEF TypeInv, TypeOK
  <2>3. QED BY <1>1, <2>1, <2>2, OnceTakes
<1>4. QED BY <1>2, <1>3

LEMMA OnceEnds ==
  \A c \in Chain : TypeInv /\ OnceInv /\ (Abandon(c) \/ Complete(c)) => OnceInv'
<1> SUFFICES ASSUME TypeInv, OnceInv, NEW c \in Chain, Abandon(c) \/ Complete(c)
             PROVE  OnceInv'
  OBVIOUS
<1>1. /\ job' = [job EXCEPT ![c] = NoRequest] /\ pc[c] = "decode"
      /\ UNCHANGED <<arrived, queue, decodeQueue, rejected>>
      /\ \/ finished' = finished \cup {job[c]} /\ abandoned' = abandoned
         \/ finished' = finished /\ abandoned' = abandoned \cup {job[c]}
  BY DEF Abandon, Complete, loadVars, Finish
<1>2. job[c] # NoRequest /\ WorkOK
  BY <1>1, JobOfChain DEF TypeInv, TypeOK
<1>3. QED BY <1>1, <1>2, OnceEnd

\* The steps that move no request.
Still ==
  \/ Start
  \/ \E c \in Chain : Exit(c) \/ Retire(c) \/ PrefillDone(c) \/ DecodeToken(c)
  \/ ResizeToPrefill \/ ResizeToDecode
  \/ \E w \in Worker : DrainDone(w)
  \/ Stop \/ StopAtHorizon \/ StopAtQuiescence
  \/ UNCHANGED vars

LEMMA StillPlaces ==
  Still => UNCHANGED <<arrived, queue, decodeQueue, job, inflight, finished, rejected, abandoned>>
  BY DEF Still, Start, Exit, Retire, PrefillDone, DecodeToken, ResizeToPrefill, ResizeToDecode,
         DrainDone, Stop, StopAtHorizon, StopAtQuiescence, vars, loadVars, workVars, fateVars

\* Next, sorted by what it does to the places.
LEMMA NextSplit ==
  [Next]_vars => \/ Still
                 \/ Arrive
                 \/ \E c \in Chain : \/ Admit(c) \/ Reject(c) \/ HandOff(c)
                                     \/ TakeHandoff(c) \/ Abandon(c) \/ Complete(c)
  BY Zenon DEF Next, ChainStep, Still, Terminated

LEMMA OnceStep == TypeInv /\ OnceInv /\ [Next]_vars => OnceInv'
<1> SUFFICES ASSUME TypeInv, OnceInv, [Next]_vars PROVE OnceInv'
  OBVIOUS
<1>1. CASE Still
  BY <1>1, StillPlaces, OnceSame
<1>2. CASE Arrive
  BY <1>2, OnceArrive
<1>3. ASSUME NEW c \in Chain,
             \/ Admit(c) \/ Reject(c) \/ HandOff(c)
             \/ TakeHandoff(c) \/ Abandon(c) \/ Complete(c)
      PROVE  OnceInv'
  BY <1>3, OnceAdmit, OnceReject, OnceHandOff, OnceTakeHandoff, OnceEnds
<1>4. QED BY <1>1, <1>2, <1>3, NextSplit

\* No request is lost, duplicated, or in two places at once, under any flips and
\* any stop, for any number of workers, requests and chains.
THEOREM EachRequestOnceHolds == Spec => []EachRequestOnce
<1>1. Init => TypeInv /\ OnceInv
  BY TypeInit, OnceInit
<1>2. (TypeInv /\ OnceInv) /\ [Next]_vars => (TypeInv /\ OnceInv)'
  BY TypeStep, OnceStep
<1>3. TypeInv /\ OnceInv => EachRequestOnce
  BY OncePlaces
<1>4. QED BY <1>1, <1>2, <1>3, PTL DEF Spec

-----------------------------------------------------------------------------
(* The admission count *)

\* The invariant of the count: it is the number of requests held or handed over.
CountInv == TypeInv /\ OnceInv /\ InFlightExact

\* What is admitted is among the arrived requests, so there are finitely many.
LEMMA AdmittedFinite ==
  ASSUME TypeInv, OnceInv
  PROVE  IsFiniteSet(Held \cup Handed)
<1>1. Held \cup Handed \subseteq 1 .. arrived
  BY DEF OnceInv, PlacesCover
<1>2. IsFiniteSet(1 .. arrived)
  BY FS_Interval DEF TypeInv, TypeOK, LoadOK
<1>3. QED BY <1>1, <1>2, FS_Subset

\* One more, or one fewer.
LEMMA AdmitOne ==
  ASSUME CountInv, NEW r, r \notin Held \cup Handed,
         (Held \cup Handed)' = (Held \cup Handed) \cup {r}, inflight' = inflight + 1
  PROVE  InFlightExact'
<1>1. IsFiniteSet(Held \cup Handed)
  BY AdmittedFinite DEF CountInv
<1>2. Cardinality((Held \cup Handed) \cup {r}) = Cardinality(Held \cup Handed) + 1
  BY <1>1, FS_AddElement
<1>3. inflight = Cardinality(Held \cup Handed)
  BY DEF CountInv, InFlightExact
<1>4. inflight' = Cardinality((Held \cup Handed)')
  BY <1>2, <1>3
<1>5. QED BY <1>4 DEF InFlightExact

LEMMA ReleaseOne ==
  ASSUME CountInv, NEW r \in Held \cup Handed,
         (Held \cup Handed)' = (Held \cup Handed) \ {r}, inflight' = inflight - 1
  PROVE  InFlightExact'
<1>1. IsFiniteSet(Held \cup Handed)
  BY AdmittedFinite DEF CountInv
<1>2. Cardinality((Held \cup Handed) \ {r}) = Cardinality(Held \cup Handed) - 1
  BY <1>1, FS_RemoveElement
<1>3. inflight = Cardinality(Held \cup Handed)
  BY DEF CountInv, InFlightExact
<1>4. inflight' = Cardinality((Held \cup Handed)')
  BY <1>2, <1>3
<1>5. QED BY <1>4 DEF InFlightExact

\* A request that changes hands.
LEMMA KeepCount ==
  ASSUME CountInv, (Held \cup Handed)' = Held \cup Handed, inflight' = inflight
  PROVE  InFlightExact'
  BY DEF CountInv, InFlightExact

LEMMA CountAdmit == \A c \in Chain : CountInv /\ Admit(c) => InFlightExact'
<1> SUFFICES ASSUME CountInv, NEW c \in Chain, Admit(c) PROVE InFlightExact'
  OBVIOUS
<1> DEFINE r == Head(queue)
<1>1. TypeInv /\ OnceInv
  BY DEF CountInv
<1>2. /\ queue # <<>> /\ queue' = Tail(queue) /\ job' = [job EXCEPT ![c] = r]
      /\ decodeQueue' = decodeQueue /\ pc[c] = "prefillStep" /\ inflight' = inflight + 1
  BY DEF Admit
<1>3. r \in Request /\ r \in Waiting
  BY <1>1, <1>2, PopQueue
<1>4. r \notin Held /\ r \notin Handed
  BY <1>1, <1>3 DEF OnceInv, PlacesApart, Apart
<1>5. Held' = Held \cup {r}
  <2>1. job \in [Chain -> Request \cup {NoRequest}] /\ HeldOnce /\ job[c] = NoRequest
    BY <1>1, <1>2, IdleHoldsNothing DEF TypeInv, TypeOK, WorkOK, OnceInv
  <2>2. QED BY <1>2, <1>3, <1>4, <2>1, HeldTake
<1>6. (Held \cup Handed)' = (Held \cup Handed) \cup {r}
  BY <1>2, <1>5 DEF Handed
<1>7. QED BY <1>2, <1>4, <1>6, AdmitOne

LEMMA CountHandOff == \A c \in Chain : CountInv /\ HandOff(c) => InFlightExact'
<1> SUFFICES ASSUME CountInv, NEW c \in Chain, HandOff(c) PROVE InFlightExact'
  OBVIOUS
<1> DEFINE r == job[c]
<1>1. TypeInv /\ OnceInv
  BY DEF CountInv
<1>2. /\ job' = [job EXCEPT ![c] = NoRequest] /\ decodeQueue' = Append(decodeQueue, r)
      /\ inflight' = inflight
  BY DEF HandOff
<1>3. r \in Request /\ r # NoRequest
  BY <1>1, JobOfChain DEF HandOff
<1>4. Held' = Held \ {r} /\ r \in Held
  <2>1. job \in [Chain -> Request \cup {NoRequest}] /\ HeldOnce
    BY <1>1 DEF TypeInv, TypeOK, WorkOK, OnceInv
  <2>2. QED BY <1>2, <1>3, <2>1, HeldDrop
<1>5. Handed' = Handed \cup {r}
  <2>1. decodeQueue \in Seq(Request)
    BY <1>1 DEF TypeInv, TypeOK, WorkOK
  <2>2. ToSet(Append(decodeQueue, r)) = ToSet(decodeQueue) \cup {r}
    BY <1>3, <2>1, PushSet
  <2>3. QED BY <1>2, <2>2 DEF Handed
<1>6. (Held \cup Handed)' = Held \cup Handed
  BY <1>4, <1>5
<1>7. QED BY <1>2, <1>6, KeepCount

LEMMA CountTakeHandoff == \A c \in Chain : CountInv /\ TakeHandoff(c) => InFlightExact'
<1> SUFFICES ASSUME CountInv, NEW c \in Chain, TakeHandoff(c) PROVE InFlightExact'
  OBVIOUS
<1> DEFINE r == Head(decodeQueue)
<1>1. TypeInv /\ OnceInv
  BY DEF CountInv
<1>2. /\ decodeQueue # <<>> /\ decodeQueue' = Tail(decodeQueue) /\ pc[c] = "decodeStep"
  BY DEF TakeHandoff
<1>3. r \in Request /\ r \in Handed /\ Handed' = Handed \ {r}
  BY <1>1, <1>2, PopHandoff
<1>4. r \notin Held
  BY <1>1, <1>3 DEF OnceInv, PlacesApart, Apart
<1>5. CASE IsFinished(r, generated[r])
  <2>1. job' = job /\ inflight' = inflight - 1
    BY <1>5 DEF TakeHandoff, Finish, Release
  <2>2. (Held \cup Handed)' = (Held \cup Handed) \ {r}
    BY <1>3, <1>4, <2>1 DEF Held
  <2>3. QED BY <1>3, <2>1, <2>2, ReleaseOne
<1>6. CASE ~IsFinished(r, generated[r])
  <2>1. job' = [job EXCEPT ![c] = r] /\ inflight' = inflight
    BY <1>6 DEF TakeHandoff
  <2>2. Held' = Held \cup {r}
    <3>1. job \in [Chain -> Request \cup {NoRequest}] /\ HeldOnce /\ job[c] = NoRequest
      BY <1>1, <1>2, IdleHoldsNothing DEF TypeInv, TypeOK, WorkOK, OnceInv
    <3>2. QED BY <1>3, <1>4, <2>1, <3>1, HeldTake
  <2>3. (Held \cup Handed)' = Held \cup Handed
    BY <1>3, <2>2
  <2>4. QED BY <2>1, <2>3, KeepCount
<1>7. QED BY <1>5, <1>6

LEMMA CountEnds ==
  \A c \in Chain : CountInv /\ (Abandon(c) \/ Complete(c)) => InFlightExact'
<1> SUFFICES ASSUME CountInv, NEW c \in Chain, Abandon(c) \/ Complete(c)
             PROVE  InFlightExact'
  OBVIOUS
<1> DEFINE r == job[c]
<1>1. TypeInv /\ OnceInv
  BY DEF CountInv
<1>2. /\ job' = [job EXCEPT ![c] = NoRequest] /\ pc[c] = "decode"
      /\ decodeQueue' = decodeQueue /\ inflight' = inflight - 1
  BY DEF Abandon, Complete, Finish, Release
<1>3. Held' = Held \ {r} /\ r \in Held
  <2>1. job \in [Chain -> Request \cup {NoRequest}] /\ HeldOnce
    BY <1>1 DEF TypeInv, TypeOK, WorkOK, OnceInv
  <2>2. r # NoRequest
    BY <1>1, <1>2, JobOfChain
  <2>3. QED BY <1>2, <2>1, <2>2, HeldDrop
<1>4. r \notin Handed
  BY <1>1, <1>3 DEF OnceInv, PlacesApart, Apart
<1>5. (Held \cup Handed)' = (Held \cup Handed) \ {r}
  BY <1>2, <1>3, <1>4 DEF Handed
<1>6. QED BY <1>2, <1>3, <1>5, ReleaseOne

LEMMA CountSame ==
  ASSUME CountInv, UNCHANGED <<decodeQueue, job, inflight>>
  PROVE  InFlightExact'
<1>1. (Held \cup Handed)' = Held \cup Handed
  BY DEF Held, Handed
<1>2. QED BY <1>1, KeepCount

LEMMA CountStep == CountInv /\ [Next]_vars => CountInv'
<1> SUFFICES ASSUME CountInv, [Next]_vars PROVE CountInv'
  OBVIOUS
<1>1. TypeInv' /\ OnceInv'
  BY TypeStep, OnceStep DEF CountInv
<1>2. CASE Still
  <2>1. UNCHANGED <<decodeQueue, job, inflight>>
    BY <1>2, StillPlaces
  <2>2. QED BY <1>1, <2>1, CountSame DEF CountInv
<1>3. CASE Arrive
  BY <1>1, <1>3, CountSame DEF CountInv, Arrive
<1>4. ASSUME NEW c \in Chain, Reject(c) PROVE CountInv'
  BY <1>1, <1>4, CountSame DEF CountInv, Reject
<1>5. ASSUME NEW c \in Chain,
             Admit(c) \/ HandOff(c) \/ TakeHandoff(c) \/ Abandon(c) \/ Complete(c)
      PROVE  CountInv'
  BY <1>1, <1>5, CountAdmit, CountHandOff, CountTakeHandoff, CountEnds DEF CountInv
<1>6. QED BY <1>2, <1>3, <1>4, <1>5, NextSplit

LEMMA CountInit == Init => CountInv
<1> SUFFICES ASSUME Init PROVE CountInv
  OBVIOUS
<1>1. Held \cup Handed = {} /\ inflight = 0
  BY DEF Init, Held, Handed, ToSet
<1>2. InFlightExact
  BY <1>1, FS_EmptySet DEF InFlightExact
<1>3. QED BY <1>2, TypeInit, OnceInit DEF CountInv

\* The admission count is exact: it is released once for each admission, on
\* whichever chain, of whichever generation, the request ends.
THEOREM InFlightExactHolds == Spec => []InFlightExact
<1>1. CountInv => InFlightExact
  BY DEF CountInv
<1>2. QED BY CountInit, CountStep, <1>1, PTL DEF Spec

-----------------------------------------------------------------------------
(* Retirement *)

NoWork == arrivalsDone /\ queue = <<>> /\ decodeQueue = <<>> /\ Held = {}
Retired == \E c \in Chain : pc[c] = "retired"

RetireInv == CountInv /\ (Retired => NoWork)

\* canRetire's three tests say that nothing is left: a count of none means that
\* no chain, on any worker, holds a request.
LEMMA RetireNoWork == \A c \in Chain : CountInv /\ Retire(c) => NoWork
<1> SUFFICES ASSUME CountInv, NEW c \in Chain, Retire(c) PROVE NoWork
  OBVIOUS
<1>1. arrivalsDone /\ ~(inflight > 0) /\ queue = <<>> /\ decodeQueue = <<>>
  BY DEF Retire, CanRetire, WorkPending
<1>2. IsFiniteSet(Held \cup Handed) /\ inflight = Cardinality(Held \cup Handed)
  BY AdmittedFinite DEF CountInv, InFlightExact
<1>3. Cardinality(Held \cup Handed) = 0
  BY <1>1, <1>2, FS_CardinalityType
<1>4. Held \cup Handed = {}
  BY <1>2, <1>3, FS_EmptySet
<1>5. QED BY <1>1, <1>4 DEF NoWork

\* With no work left, no step makes any.
LEMMA NoWorkStep == CountInv /\ NoWork /\ started /\ [Next]_vars => NoWork'
<1> SUFFICES ASSUME CountInv, NoWork, started, [Next]_vars PROVE NoWork'
  OBVIOUS
<1>1. CASE Still
  <2>1. UNCHANGED <<queue, decodeQueue, job>>
    BY <1>1, StillPlaces
  <2>2. arrivalsDone' = arrivalsDone
    BY <1>1
    DEF Still, Start, Exit, Retire, PrefillDone, DecodeToken, ResizeToPrefill, ResizeToDecode,
        DrainDone, Stop, StopAtHorizon, StopAtQuiescence, vars, loadVars
  <2>3. QED BY <2>1, <2>2 DEF NoWork, Held
<1>2. CASE Arrive
  BY <1>2 DEF NoWork, Arrive
<1>3. ASSUME NEW c \in Chain,
             \/ Admit(c) \/ Reject(c) \/ HandOff(c)
             \/ TakeHandoff(c) \/ Abandon(c) \/ Complete(c)
      PROVE  NoWork'
  <2>1. CASE Admit(c) \/ Reject(c)
    BY <2>1 DEF NoWork, Admit, Reject
  <2>2. CASE TakeHandoff(c)
    BY <2>2 DEF NoWork, TakeHandoff
  <2>3. CASE HandOff(c) \/ Abandon(c) \/ Complete(c)
    <3>1. job[c] # NoRequest
      BY <2>3, JobOfChain DEF CountInv, HandOff, Abandon, Complete
    <3>2. QED BY <3>1 DEF NoWork, Held
  <2>4. QED BY <1>3, <2>1, <2>2, <2>3
<1>4. QED BY <1>1, <1>2, <1>3, NextSplit

\* A chain is retired because it was, or because it retires in this step.
LEMMA WhoRetires ==
  CountInv /\ [Next]_vars /\ Retired' => Retired \/ \E c \in Chain : Retire(c)
<1> SUFFICES ASSUME CountInv, [Next]_vars, NEW d \in Chain, pc'[d] = "retired",
                    \A c \in Chain : ~Retire(c)
             PROVE  pc[d] = "retired"
  BY DEF Retired
<1>1. pc \in [Chain -> PC]
  BY DEF CountInv, TypeInv, TypeOK, ChainsOK
<1>2. CASE Start
  BY <1>2 DEF Start
<1>3. ASSUME NEW c \in Chain, ChainStep(c) PROVE pc[d] = "retired"
  BY <1>1, <1>3 DEF ChainStep, Exit, Admit, Reject, PrefillDone, HandOff, TakeHandoff, Abandon,
                    Complete, DecodeToken
<1>4. ASSUME NEW w \in Worker, DrainDone(w) PROVE pc[d] = "retired"
  BY <1>1, <1>4 DEF DrainDone
<1>5. ASSUME pc' = pc PROVE pc[d] = "retired"
  BY <1>5
<1>6. \/ Start \/ (\E c \in Chain : ChainStep(c)) \/ (\E w \in Worker : DrainDone(w))
      \/ pc' = pc
  BY DEF Next, Arrive, ResizeToPrefill, ResizeToDecode, Stop, StopAtHorizon,
         StopAtQuiescence, Terminated, vars
<1>7. QED BY <1>2, <1>3, <1>4, <1>5, <1>6

LEMMA RetireStep == RetireInv /\ [Next]_vars => RetireInv'
<1> SUFFICES ASSUME RetireInv, [Next]_vars PROVE RetireInv'
  OBVIOUS
<1>1. CountInv /\ CountInv'
  BY CountStep DEF RetireInv
<1>2. ASSUME Retired' PROVE NoWork'
  <2>1. NoWork
    BY <1>1, <1>2, WhoRetires, RetireNoWork DEF RetireInv
  <2>2. started
    <3>1. CASE Retired
      BY <1>1, <3>1 DEF Retired, CountInv, TypeInv, NothingBeforeStart
    <3>2. ASSUME NEW c \in Chain, Retire(c) PROVE started
      BY <1>1, <3>2 DEF Retire, CountInv, TypeInv, NothingBeforeStart
    <3>3. QED BY <1>1, <1>2, <3>1, <3>2, WhoRetires
  <2>3. QED BY <1>1, <2>1, <2>2, NoWorkStep
<1>3. QED BY <1>1, <1>2 DEF RetireInv

\* "Once retireable, no event can create new work": a chain that retires is not
\* missed, although it looked at three places a request passes through.
THEOREM RetirementFinalHolds == Spec => []RetirementFinal
<1>1. Init => RetireInv
  <2>1. Init => ~Retired
    BY DEF Init, Retired
  <2>2. QED BY <2>1, CountInit DEF RetireInv
<1>2. RetireInv => RetirementFinal
  BY DEF RetireInv, RetirementFinal, Retired, NoWork, Waiting, Handed, ToSet
<1>3. QED BY <1>1, <1>2, RetireStep, PTL DEF Spec

-----------------------------------------------------------------------------
(* What each step moves *)

LEMMA AdmitMoves ==
  ASSUME TypeInv, OnceInv, NEW c \in Chain, Admit(c)
  PROVE  LET r == Head(queue) IN
           /\ r \in Request /\ r \in Waiting /\ job[c] = NoRequest
           /\ Waiting' = Waiting \ {r} /\ Held' = Held \cup {r} /\ Handed' = Handed
           /\ \A q \in Waiting : r <= q
<1> DEFINE r == Head(queue)
<1>1. /\ queue # <<>> /\ queue' = Tail(queue) /\ job' = [job EXCEPT ![c] = r]
      /\ decodeQueue' = decodeQueue /\ pc[c] = "prefillStep"
  BY DEF Admit
<1>2. r \in Request /\ r \in Waiting /\ Waiting' = Waiting \ {r} /\ \A q \in Waiting : r <= q
  BY <1>1, PopQueue
<1>3. r \notin Held
  BY <1>2 DEF OnceInv, PlacesApart, Apart
<1>4. job \in [Chain -> Request \cup {NoRequest}] /\ HeldOnce /\ job[c] = NoRequest
  BY <1>1, IdleHoldsNothing DEF TypeInv, TypeOK, WorkOK, OnceInv
<1>5. Held' = Held \cup {r}
  BY <1>1, <1>2, <1>3, <1>4, HeldTake
<1>6. QED BY <1>1, <1>2, <1>4, <1>5 DEF Handed

LEMMA RejectMoves ==
  ASSUME TypeInv, OnceInv, NEW c \in Chain, Reject(c)
  PROVE  LET r == Head(queue) IN
           /\ r \in Request /\ r \in Waiting
           /\ Waiting' = Waiting \ {r} /\ Held' = Held /\ Handed' = Handed
           /\ \A q \in Waiting : r <= q
<1>1. /\ queue # <<>> /\ queue' = Tail(queue) /\ UNCHANGED <<decodeQueue, job>>
  BY DEF Reject
<1>2. QED BY <1>1, PopQueue DEF Held, Handed

LEMMA HandOffMoves ==
  ASSUME TypeInv, OnceInv, NEW c \in Chain, HandOff(c)
  PROVE  LET r == job[c] IN
           /\ r \in Request /\ r \in Held /\ generated[r] \in Nat
           /\ Waiting' = Waiting /\ Held' = Held \ {r} /\ Handed' = Handed \cup {r}
           /\ \A d \in Chain \ {c} : job'[d] = job[d] /\ job[d] # r
<1> DEFINE r == job[c]
<1>1. /\ job' = [job EXCEPT ![c] = NoRequest] /\ decodeQueue' = Append(decodeQueue, r)
      /\ queue' = queue /\ pc[c] = "transfer"
  BY DEF HandOff
<1>2. r \in Request /\ r # NoRequest /\ generated[r] \in Nat
  BY <1>1, JobOfChain
<1>3. job \in [Chain -> Request \cup {NoRequest}] /\ HeldOnce /\ decodeQueue \in Seq(Request)
  BY DEF TypeInv, TypeOK, WorkOK, OnceInv
<1>4. Held' = Held \ {r} /\ r \in Held
  BY <1>1, <1>2, <1>3, HeldDrop
<1>5. ToSet(Append(decodeQueue, r)) = ToSet(decodeQueue) \cup {r}
  BY <1>2, <1>3, PushSet
<1>6. \A d \in Chain \ {c} : job'[d] = job[d] /\ job[d] # r
  BY <1>1, <1>2, <1>3 DEF HeldOnce
<1>7. QED BY <1>1, <1>2, <1>4, <1>5, <1>6 DEF Handed, Waiting

LEMMA TakeMoves ==
  ASSUME TypeInv, OnceInv, NEW c \in Chain, TakeHandoff(c)
  PROVE  LET r == Head(decodeQueue) IN
           /\ r \in Request /\ r \in Handed /\ job[c] = NoRequest
           /\ Waiting' = Waiting /\ Handed' = Handed \ {r}
           /\ Held' = IF IsFinished(r, generated[r]) THEN Held ELSE Held \cup {r}
<1> DEFINE r == Head(decodeQueue)
<1>1. /\ decodeQueue # <<>> /\ decodeQueue' = Tail(decodeQueue) /\ queue' = queue
      /\ pc[c] = "decodeStep"
  BY DEF TakeHandoff
<1>2. r \in Request /\ r \in Handed /\ Handed' = Handed \ {r}
  BY <1>1, PopHandoff
<1>3. r \notin Held
  BY <1>2 DEF OnceInv, PlacesApart, Apart
<1>4. job \in [Chain -> Request \cup {NoRequest}] /\ HeldOnce /\ job[c] = NoRequest
  BY <1>1, IdleHoldsNothing DEF TypeInv, TypeOK, WorkOK, OnceInv
<1>5. CASE IsFinished(r, generated[r])
  <2>1. job' = job
    BY <1>5 DEF TakeHandoff
  <2>2. QED BY <1>1, <1>2, <1>4, <1>5, <2>1 DEF Held, Waiting
<1>6. CASE ~IsFinished(r, generated[r])
  <2>1. job' = [job EXCEPT ![c] = r]
    BY <1>6 DEF TakeHandoff
  <2>2. Held' = Held \cup {r}
    BY <1>2, <1>3, <1>4, <2>1, HeldTake
  <2>3. QED BY <1>1, <1>2, <1>4, <1>6, <2>2 DEF Waiting
<1>7. QED BY <1>5, <1>6

LEMMA EndsMoves ==
  ASSUME TypeInv, OnceInv, NEW c \in Chain, Abandon(c) \/ Complete(c)
  PROVE  LET r == job[c] IN
           /\ r \in Request /\ r \in Held /\ generated[r] \in Nat
           /\ Waiting' = Waiting /\ Handed' = Handed /\ Held' = Held \ {r}
           /\ \A d \in Chain \ {c} : job'[d] = job[d] /\ job[d] # r
<1> DEFINE r == job[c]
<1>1. /\ job' = [job EXCEPT ![c] = NoRequest] /\ UNCHANGED <<queue, decodeQueue>>
      /\ pc[c] = "decode"
  BY DEF Abandon, Complete
<1>2. r \in Request /\ r # NoRequest /\ generated[r] \in Nat
  BY <1>1, JobOfChain
<1>3. job \in [Chain -> Request \cup {NoRequest}] /\ HeldOnce
  BY DEF TypeInv, TypeOK, WorkOK, OnceInv
<1>4. Held' = Held \ {r} /\ r \in Held
  BY <1>1, <1>2, <1>3, HeldDrop
<1>5. \A d \in Chain \ {c} : job'[d] = job[d] /\ job[d] # r
  BY <1>1, <1>2, <1>3 DEF HeldOnce
<1>6. QED BY <1>1, <1>2, <1>4, <1>5 DEF Handed, Waiting

\* A place of an arrived request, and the places it is not in.
LEMMA WhereIs ==
  ASSUME TypeInv, OnceInv
  PROVE  /\ Waiting \subseteq Request /\ Handed \subseteq Request /\ Held \subseteq Request
         /\ \A r \in Waiting \cup Handed \cup Held \cup finished \cup rejected \cup abandoned :
              r \in Request /\ r \in 1 .. arrived
         /\ \A r \in Waiting : r \notin Handed \cup Held \cup finished \cup rejected \cup abandoned
         /\ \A r \in Handed : r \notin Waiting \cup Held \cup finished \cup rejected \cup abandoned
         /\ \A r \in Held : r \notin Waiting \cup Handed \cup finished \cup rejected \cup abandoned
         /\ \A r \in finished : r \notin Waiting \cup Handed \cup Held \cup rejected \cup abandoned
<1>1. 1 .. arrived \subseteq Request
  BY BoundAssumption DEF TypeInv, TypeOK, LoadOK, Request
<1>2. QED BY <1>1 DEF OnceInv, PlacesApart, Apart, PlacesCover

-----------------------------------------------------------------------------
(* Tokens *)

\* A request that has not arrived has no tokens; one that has asked for some.
Asks == /\ \A r \in Request : r > arrived => generated[r] = 0
        /\ \A r \in 1 .. arrived : maxOutput[r] > 0

OutputInv == OutputExact /\ Asks

\* A step that gives no token, moves no request and puts no chain to work.
LEMMA OutputSame ==
  ASSUME OutputInv,
         UNCHANGED <<arrived, maxOutput, generated, queue, decodeQueue, job, finished, rejected>>,
         \A c \in Chain : /\ pc'[c] \in {"prefill", "transfer"} => pc[c] \in {"prefill", "transfer"}
                          /\ pc'[c] = "decode" => pc[c] = "decode"
  PROVE  OutputInv'
<1>1. Waiting' = Waiting /\ Handed' = Handed
  BY DEF Waiting, Handed
<1>2. QED BY <1>1 DEF OutputInv, OutputExact, Asks

LEMMA OutputStill ==
  ASSUME TypeInv, OutputInv, Still, \A c \in Chain : ~DecodeToken(c)
  PROVE  OutputInv'
<1>1. UNCHANGED <<arrived, queue, decodeQueue, job, finished, rejected>>
  BY StillPlaces
<1>2. UNCHANGED <<generated, maxOutput>>
  BY DEF Still, Start, Exit, Retire, PrefillDone, ResizeToPrefill, ResizeToDecode,
         DrainDone, Stop, StopAtHorizon, StopAtQuiescence, vars, loadVars, workVars
<1>3. ASSUME NEW c \in Chain
      PROVE  /\ pc'[c] \in {"prefill", "transfer"} => pc[c] \in {"prefill", "transfer"}
             /\ pc'[c] = "decode" => pc[c] = "decode"
  <2>1. pc \in [Chain -> PC]
    BY DEF TypeInv, TypeOK, ChainsOK
  <2>2. CASE Start
    BY <2>2 DEF Start
  <2>3. ASSUME NEW d \in Chain, Exit(d) \/ Retire(d) \/ PrefillDone(d)
        PROVE  /\ pc'[c] \in {"prefill", "transfer"} => pc[c] \in {"prefill", "transfer"}
               /\ pc'[c] = "decode" => pc[c] = "decode"
    BY <2>1, <2>3 DEF Exit, Retire, PrefillDone
  <2>4. ASSUME NEW w \in Worker, DrainDone(w)
        PROVE  /\ pc'[c] \in {"prefill", "transfer"} => pc[c] \in {"prefill", "transfer"}
               /\ pc'[c] = "decode" => pc[c] = "decode"
    BY <2>1, <2>4 DEF DrainDone
  <2>5. CASE pc' = pc
    BY <2>5
  <2>6. QED
    BY <2>2, <2>3, <2>4, <2>5
    DEF Still, ResizeToPrefill, ResizeToDecode, Stop, StopAtHorizon, StopAtQuiescence, vars
<1>4. QED BY <1>1, <1>2, <1>3, OutputSame

LEMMA OutputArrive == TypeInv /\ OnceInv /\ OutputInv /\ Arrive => OutputInv'
<1> SUFFICES ASSUME TypeInv, OnceInv, OutputInv, Arrive PROVE OutputInv'
  OBVIOUS
<1>1. CASE stopped
  <2>1. UNCHANGED <<arrived, maxOutput, generated, queue, decodeQueue, job, finished, rejected, pc>>
    BY <1>1 DEF Arrive, fateVars
  <2>2. QED BY <2>1, OutputSame
<1>2. CASE ~stopped
  <2>1. /\ arrived' = arrived + 1 /\ queue' = Append(queue, arrived + 1)
        /\ \E o \in OutputTokens : maxOutput' = [maxOutput EXCEPT ![arrived + 1] = o]
        /\ UNCHANGED <<generated, decodeQueue, job, finished, rejected, pc>>
    BY <1>2 DEF Arrive, fateVars
  <2>2. /\ queue \in Seq(Request) /\ arrived \in Nat /\ arrived + 1 \in Request
        /\ maxOutput \in [Request -> Nat]
    BY <1>2, BoundAssumption
    DEF TypeInv, TypeOK, LoadOK, WorkOK, ArrivalsBounded, Arrive, Request
  <2>3. Waiting' = Waiting \cup {arrived + 1} /\ Handed' = Handed
    BY <2>1, <2>2, PushSet DEF Waiting, Handed
  <2>4. \A r \in Request : r # arrived + 1 => maxOutput'[r] = maxOutput[r]
    BY <2>1, <2>2
  <2>5. maxOutput'[arrived + 1] > 0
    BY <2>1, <2>2, LoadAssumption
  <2>6. generated[arrived + 1] = 0
    BY <2>2 DEF OutputInv, Asks
  <2>7. \A r \in finished : r \in Request /\ r # arrived + 1
    BY <2>2, WhereIs
  <2>8. \A c \in Chain : pc[c] = "decode" => job[c] \in Request /\ job[c] # arrived + 1
    <3> SUFFICES ASSUME NEW c \in Chain, pc[c] = "decode"
                 PROVE  job[c] \in Request /\ job[c] # arrived + 1
      OBVIOUS
    <3>1. job[c] \in Request /\ job[c] \in Held
      BY JobOfChain DEF Held
    <3>2. QED BY <2>2, <3>1, WhereIs
  <2>9. OutputExact'
    BY <2>1, <2>3, <2>4, <2>6, <2>7, <2>8 DEF OutputInv, OutputExact
  <2>10. Asks'
    <3>1. \A r \in 1 .. arrived + 1 : r \in Request /\ (r \in 1 .. arrived \/ r = arrived + 1)
      BY <2>2, BoundAssumption DEF Request
    <3>2. \A r \in Request : r > arrived + 1 => r > arrived
      BY <2>2, RequestFacts
    <3>3. QED BY <2>1, <2>2, <2>4, <2>5, <3>1, <3>2 DEF OutputInv, Asks
  <2>11. QED BY <2>9, <2>10 DEF OutputInv
<1>3. QED BY <1>1, <1>2

\* Asks is about arrivals and tokens only; a token goes to an arrived request.
LEMMA AsksKept ==
  ASSUME TypeInv, Asks, UNCHANGED <<arrived, maxOutput>>, NEW x, x \in 1 .. arrived,
         \A r \in Request \ {x} : generated'[r] = generated[r]
  PROVE  Asks'
<1>1. arrived \in Nat /\ \A r \in Request : r > arrived => r # x
  BY RequestFacts DEF TypeInv, TypeOK, LoadOK
<1>2. QED BY <1>1 DEF Asks

LEMMA OutputAdmit == \A c \in Chain :
  TypeInv /\ OnceInv /\ OutputInv /\ Admit(c) => OutputInv'
<1> SUFFICES ASSUME TypeInv, OnceInv, OutputInv, NEW c \in Chain, Admit(c) PROVE OutputInv'
  OBVIOUS
<1> DEFINE r == Head(queue)
<1>1. /\ job' = [job EXCEPT ![c] = r] /\ pc' = [pc EXCEPT ![c] = "prefill"]
      /\ UNCHANGED <<arrived, maxOutput, generated, finished, rejected>>
  BY DEF Admit, loadVars
<1>2. r \in Waiting /\ Waiting' = Waiting \ {r} /\ Handed' = Handed
  BY AdmitMoves
<1>3. generated[r] = 0
  BY <1>2 DEF OutputInv, OutputExact
<1>4. pc \in [Chain -> PC] /\ job \in [Chain -> Request \cup {NoRequest}]
  BY DEF TypeInv, TypeOK, ChainsOK, WorkOK
<1> HIDE DEF r
<1>5. OutputExact'
  BY <1>1, <1>2, <1>3, <1>4 DEF OutputInv, OutputExact
<1>6. Asks'
  BY <1>1 DEF OutputInv, Asks
<1>7. QED BY <1>5, <1>6 DEF OutputInv

LEMMA OutputReject == \A c \in Chain :
  TypeInv /\ OnceInv /\ OutputInv /\ Reject(c) => OutputInv'
<1> SUFFICES ASSUME TypeInv, OnceInv, OutputInv, NEW c \in Chain, Reject(c) PROVE OutputInv'
  OBVIOUS
<1> DEFINE r == Head(queue)
<1>1. /\ UNCHANGED <<arrived, maxOutput, generated, finished, job, pc>>
      /\ rejected' = rejected \cup {r}
  BY DEF Reject, loadVars
<1>2. r \in Waiting /\ Waiting' = Waiting \ {r} /\ Handed' = Handed
  BY RejectMoves
<1> HIDE DEF r
<1>3. QED BY <1>1, <1>2 DEF OutputInv, OutputExact, Asks

LEMMA OutputHandOff == \A c \in Chain :
  TypeInv /\ OnceInv /\ OutputInv /\ HandOff(c) => OutputInv'
<1> SUFFICES ASSUME TypeInv, OnceInv, OutputInv, NEW c \in Chain, HandOff(c) PROVE OutputInv'
  OBVIOUS
<1> DEFINE r == job[c]
<1>1. /\ generated' = [generated EXCEPT ![r] = generated[r] + 1]
      /\ pc[c] = "transfer" /\ pc' = [pc EXCEPT ![c] = "prefillStep"]
      /\ UNCHANGED <<arrived, maxOutput, finished, rejected>>
  BY DEF HandOff, loadVars, fateVars
<1>2. /\ r \in Request /\ r \in Held
      /\ Waiting' = Waiting /\ Handed' = Handed \cup {r}
      /\ \A d \in Chain \ {c} : job'[d] = job[d] /\ job[d] # r
  BY HandOffMoves
<1>3. r \notin Waiting \cup Handed \cup finished \cup rejected /\ r \in 1 .. arrived
  BY <1>2, WhereIs
<1>4. pc \in [Chain -> PC] /\ generated \in [Request -> Nat]
  BY DEF TypeInv, TypeOK, ChainsOK, WorkOK
<1>5. generated[r] = 0
  BY <1>1 DEF OutputInv, OutputExact
<1>6. /\ generated'[r] = 1 /\ \A q \in Request \ {r} : generated'[q] = generated[q]
      /\ pc'[c] = "prefillStep" /\ \A d \in Chain \ {c} : pc'[d] = pc[d]
  BY <1>1, <1>2, <1>4, <1>5
<1>7. \A d \in Chain \ {c} : pc[d] \in {"prefill", "transfer", "decode"} => job[d] \in Request \ {r}
  BY <1>2, JobOfChain
<1> HIDE DEF r
<1>8. \A q \in Waiting \cup Handed \cup finished \cup rejected : generated'[q] = generated[q]
  BY <1>3, <1>6, WhereIs
<1>9. OutputExact'
  BY <1>1, <1>2, <1>3, <1>6, <1>7, <1>8 DEF OutputInv, OutputExact
<1>10. Asks'
  BY <1>1, <1>3, <1>6, AsksKept DEF OutputInv
<1>11. QED BY <1>9, <1>10 DEF OutputInv

LEMMA OutputTakeHandoff == \A c \in Chain :
  TypeInv /\ OnceInv /\ OutputInv /\ TakeHandoff(c) => OutputInv'
<1> SUFFICES ASSUME TypeInv, OnceInv, OutputInv, NEW c \in Chain, TakeHandoff(c)
             PROVE  OutputInv'
  OBVIOUS
<1> DEFINE r == Head(decodeQueue)
<1>1. UNCHANGED <<arrived, maxOutput, generated, rejected>>
  BY DEF TakeHandoff, loadVars
<1>2. r \in Request /\ r \in Handed /\ Waiting' = Waiting /\ Handed' = Handed \ {r}
  BY TakeMoves
<1>3. r \in 1 .. arrived
  BY <1>2, WhereIs
<1>4. /\ generated[r] = 1 /\ maxOutput[r] \in Nat /\ maxOutput[r] > 0
  BY <1>2, <1>3 DEF OutputInv, OutputExact, Asks, TypeInv, TypeOK, LoadOK
<1>5. Asks'
  BY <1>1 DEF OutputInv, Asks
<1>6. CASE IsFinished(r, generated[r])
  <2>1. UNCHANGED <<job, pc>> /\ finished' = finished \cup {r}
    BY <1>6 DEF TakeHandoff, Finish
  <2>2. generated[r] = maxOutput[r]
    BY <1>4, <1>6 DEF IsFinished
  <2> HIDE DEF r
  <2>3. OutputExact'
    BY <1>1, <1>2, <2>1, <2>2 DEF OutputInv, OutputExact
  <2>4. QED BY <1>5, <2>3 DEF OutputInv
<1>7. CASE ~IsFinished(r, generated[r])
  <2>1. /\ job' = [job EXCEPT ![c] = r] /\ pc' = [pc EXCEPT ![c] = "decode"]
        /\ finished' = finished
    BY <1>7 DEF TakeHandoff
  <2>2. generated[r] \in 1 .. maxOutput[r] - 1
    BY <1>4, <1>7 DEF IsFinished
  <2>3. pc \in [Chain -> PC] /\ job \in [Chain -> Request \cup {NoRequest}]
    BY DEF TypeInv, TypeOK, ChainsOK, WorkOK
  <2> HIDE DEF r
  <2>4. OutputExact'
    BY <1>1, <1>2, <2>1, <2>2, <2>3 DEF OutputInv, OutputExact
  <2>5. QED BY <1>5, <2>4 DEF OutputInv
<1>8. QED BY <1>6, <1>7

LEMMA OutputEnds == \A c \in Chain :
  TypeInv /\ OnceInv /\ OutputInv /\ (Abandon(c) \/ Complete(c)) => OutputInv'
<1> SUFFICES ASSUME TypeInv, OnceInv, OutputInv, NEW c \in Chain, Abandon(c) \/ Complete(c)
             PROVE  OutputInv'
  OBVIOUS
<1> DEFINE r == job[c]
<1>1. /\ generated' = [generated EXCEPT ![r] = generated[r] + 1]
      /\ pc[c] = "decode" /\ pc' = [pc EXCEPT ![c] = pc'[c]]
      /\ pc'[c] \in {"aborted", "decodeStep"}
      /\ UNCHANGED <<arrived, maxOutput, rejected>>
  BY DEF Abandon, Complete, loadVars, TypeInv, TypeOK, ChainsOK
<1>2. /\ r \in Request /\ r \in Held
      /\ Waiting' = Waiting /\ Handed' = Handed
      /\ \A d \in Chain \ {c} : job'[d] = job[d] /\ job[d] # r
  BY EndsMoves
<1>3. r \notin Waiting \cup Handed \cup finished \cup rejected /\ r \in 1 .. arrived
  BY <1>2, WhereIs
<1>4. pc \in [Chain -> PC] /\ generated \in [Request -> Nat] /\ maxOutput[r] \in Nat
  BY <1>2 DEF TypeInv, TypeOK, ChainsOK, WorkOK, LoadOK
<1>5. generated[r] \in 1 .. maxOutput[r] - 1
  BY <1>1 DEF OutputInv, OutputExact
<1>6. /\ generated'[r] = generated[r] + 1 /\ \A q \in Request \ {r} : generated'[q] = generated[q]
      /\ \A d \in Chain \ {c} : pc'[d] = pc[d]
  BY <1>1, <1>2, <1>4
<1>7. finished' = finished \/ (finished' = finished \cup {r} /\ generated'[r] = maxOutput[r])
  <2>1. CASE Abandon(c)
    BY <2>1 DEF Abandon
  <2>2. CASE Complete(c)
    <3>1. generated'[r] >= maxOutput[r]
      BY <2>2 DEF Complete, IsFinished
    <3>2. generated'[r] = maxOutput[r]
      BY <1>4, <1>5, <1>6, <3>1
    <3>3. QED BY <2>2, <3>2 DEF Complete, Finish
  <2>3. QED BY <2>1, <2>2
<1>8. \A d \in Chain \ {c} : pc[d] \in {"prefill", "transfer", "decode"} => job[d] \in Request \ {r}
  BY <1>2, JobOfChain
<1> HIDE DEF r
<1>9. \A q \in Waiting \cup Handed \cup finished \cup rejected : generated'[q] = generated[q]
  BY <1>3, <1>6, WhereIs
<1>10. OutputExact'
  BY <1>1, <1>2, <1>3, <1>6, <1>7, <1>8, <1>9 DEF OutputInv, OutputExact
<1>11. Asks'
  BY <1>1, <1>3, <1>6, AsksKept DEF OutputInv
<1>12. QED BY <1>10, <1>11 DEF OutputInv

LEMMA OutputDecodeToken == \A c \in Chain :
  TypeInv /\ OnceInv /\ OutputInv /\ DecodeToken(c) => OutputInv'
<1> SUFFICES ASSUME TypeInv, OnceInv, OutputInv, NEW c \in Chain, DecodeToken(c)
             PROVE  OutputInv'
  OBVIOUS
<1> DEFINE r == job[c]
<1>1. /\ generated' = [generated EXCEPT ![r] = generated[r] + 1] /\ pc[c] = "decode"
      /\ ~IsFinished(r, generated'[r])
      /\ UNCHANGED <<arrived, maxOutput, queue, decodeQueue, job, finished, rejected, pc>>
  BY DEF DecodeToken, loadVars, fateVars
<1>2. r \in Request /\ r \in Held
  BY <1>1, JobOfChain DEF Held
<1>3. r \notin Waiting \cup Handed \cup finished \cup rejected /\ r \in 1 .. arrived
  BY <1>2, WhereIs
<1>4. generated \in [Request -> Nat] /\ maxOutput[r] \in Nat
  BY <1>2 DEF TypeInv, TypeOK, WorkOK, LoadOK
<1>5. /\ generated'[r] = generated[r] + 1 /\ \A q \in Request \ {r} : generated'[q] = generated[q]
      /\ generated'[r] \in 1 .. maxOutput[r] - 1
  BY <1>1, <1>2, <1>4 DEF IsFinished
<1>6. \A d \in Chain \ {c} : pc[d] \in {"prefill", "transfer", "decode"} => job[d] \in Request \ {r}
  <2> SUFFICES ASSUME NEW d \in Chain, d # c, pc[d] \in {"prefill", "transfer", "decode"}
               PROVE  job[d] \in Request \ {r}
    OBVIOUS
  <2>1. job[d] \in Request /\ job[d] # NoRequest
    BY JobOfChain
  <2>2. job[d] # r
    BY <2>1 DEF OnceInv, HeldOnce
  <2>3. QED BY <2>1, <2>2
<1>7. Waiting' = Waiting /\ Handed' = Handed
  BY <1>1 DEF Waiting, Handed
<1> HIDE DEF r
<1>8. \A q \in Waiting \cup Handed \cup finished \cup rejected : generated'[q] = generated[q]
  BY <1>3, <1>5, WhereIs
<1>9. OutputExact'
  <2>1. \A d \in Chain : pc[d] = "decode" => generated'[job[d]] \in 1 .. maxOutput[job[d]] - 1
    BY <1>5, <1>6 DEF OutputInv, OutputExact, r
  <2>2. \A d \in Chain : pc[d] \in {"prefill", "transfer"} => generated'[job[d]] = 0
    BY <1>1, <1>5, <1>6 DEF OutputInv, OutputExact
  <2>3. QED BY <1>1, <1>7, <1>8, <2>1, <2>2 DEF OutputInv, OutputExact
<1>10. Asks'
  BY <1>1, <1>3, <1>5, AsksKept DEF OutputInv
<1>11. QED BY <1>9, <1>10 DEF OutputInv

LEMMA OutputStep == TypeInv /\ OnceInv /\ OutputInv /\ [Next]_vars => OutputInv'
<1> SUFFICES ASSUME TypeInv, OnceInv, OutputInv, [Next]_vars PROVE OutputInv'
  OBVIOUS
<1>1. ASSUME NEW c \in Chain, DecodeToken(c) PROVE OutputInv'
  BY <1>1, OutputDecodeToken
<1>2. CASE Still
  BY <1>1, <1>2, OutputStill
<1>3. CASE Arrive
  BY <1>3, OutputArrive
<1>4. ASSUME NEW c \in Chain,
             \/ Admit(c) \/ Reject(c) \/ HandOff(c)
             \/ TakeHandoff(c) \/ Abandon(c) \/ Complete(c)
      PROVE  OutputInv'
  BY <1>4, OutputAdmit, OutputReject, OutputHandOff, OutputTakeHandoff, OutputEnds
<1>5. QED BY <1>2, <1>3, <1>4, NextSplit

LEMMA OutputInit == Init => OutputInv
<1> SUFFICES ASSUME Init PROVE OutputInv
  OBVIOUS
<1>1. Waiting = {} /\ Handed = {} /\ finished = {} /\ rejected = {} /\ arrived = 0
  BY DEF Init, Waiting, Handed, ToSet
<1>2. QED BY <1>1 DEF Init, OutputInv, OutputExact, Asks

\* Every request that finishes has exactly the tokens it asked for, and no chain,
\* of any generation, gives one to a request that is not in its hands.
THEOREM OutputExactHolds == Spec => []OutputExact
<1>1. Init => TypeInv /\ OnceInv /\ OutputInv
  BY TypeInit, OnceInit, OutputInit
<1>2. (TypeInv /\ OnceInv /\ OutputInv) /\ [Next]_vars => (TypeInv /\ OnceInv /\ OutputInv)'
  BY TypeStep, OnceStep, OutputStep
<1>3. OutputInv => OutputExact
  BY DEF OutputInv
<1>4. QED BY <1>1, <1>2, <1>3, PTL DEF Spec

-----------------------------------------------------------------------------
(* The books *)

\* The blocks each request needs, and the requests whose prompts were charged.
Need  == [r \in Request |-> BlocksNeeded(prompt[r])]
Begun == finished \cup Resident

BooksInv == TypeInv /\ OnceInv /\ OutputInv /\ AccountsExact

LEMMA NeedNat ==
  ASSUME TypeInv
  PROVE  Need \in [Request -> Nat]
  BY BlocksNat DEF Need, TypeInv, TypeOK, LoadOK

\* The places are finite sets of requests.
LEMMA PlacesFinite ==
  ASSUME TypeInv, OnceInv
  PROVE  /\ Resident \subseteq Request /\ IsFiniteSet(Resident)
         /\ finished \subseteq Request /\ IsFiniteSet(finished)
         /\ rejected \subseteq Request /\ IsFiniteSet(rejected)
         /\ Begun \subseteq Request /\ IsFiniteSet(Begun)
<1>1. IsFiniteSet(Request)
  BY FS_Interval, BoundAssumption DEF Request
<1>2. /\ Resident \subseteq Request /\ finished \subseteq Request /\ rejected \subseteq Request
      /\ Begun \subseteq Request
  BY WhereIs DEF Resident, Begun
<1>3. QED BY <1>1, <1>2, FS_Subset

\* KVExact, with the blocks named.
LEMMA KVForm ==
  ASSUME Resident \subseteq Request
  PROVE  KVExact <=> kvBlocks = Blocked(Need, Resident) /\ Cardinality(kvBlocks) <= KVCapacity
<1>1. UNION {{r} \X (0 .. BlocksNeeded(prompt[r]) - 1) : r \in Resident} = Blocked(Need, Resident)
  BY DEF Blocked, Need
<1>2. QED BY <1>1 DEF KVExact

LEMMA BlocksFinite ==
  ASSUME TypeInv, OnceInv, KVExact
  PROVE  /\ IsFiniteSet(kvBlocks) /\ Cardinality(kvBlocks) \in Nat
         /\ kvBlocks = Blocked(Need, Resident)
         /\ Cardinality(kvBlocks) = SumFunctionOnSet(Need, Resident)
<1>1. Resident \subseteq Request /\ IsFiniteSet(Resident)
  BY PlacesFinite
<1>2. kvBlocks = Blocked(Need, Resident)
  BY <1>1, KVForm
<1>3. /\ IsFiniteSet(Blocked(Need, Resident))
      /\ Cardinality(Blocked(Need, Resident)) = SumFunctionOnSet(Need, Resident)
  BY <1>1, NeedNat, BlockedCardinality
<1>4. QED BY <1>2, <1>3, FS_CardinalityType

\* A step that leaves the accounts alone and keeps every charged request charged.
LEMMA BooksSame ==
  ASSUME AccountsExact, Resident' = Resident,
         UNCHANGED <<prompt, maxOutput, kvBlocks, finished, rejected, reg>>
  PROVE  AccountsExact'
  BY DEF AccountsExact, KVExact, MetricsExact

LEMMA BooksArrive == BooksInv /\ Arrive => AccountsExact'
<1> SUFFICES ASSUME BooksInv, Arrive PROVE AccountsExact'
  OBVIOUS
<1>1. TypeInv /\ OnceInv /\ AccountsExact
  BY DEF BooksInv
<1>2. UNCHANGED <<kvBlocks, finished, rejected, reg, decodeQueue, job, abandoned>>
  BY DEF Arrive, fateVars
<1>3. Resident' = Resident /\ Begun' = Begun
  BY <1>2 DEF Resident, Begun, Held, Handed
<1>4. CASE stopped
  BY <1>1, <1>2, <1>3, <1>4, BooksSame DEF Arrive
<1>5. CASE ~stopped
  <2>1. \E p \in PromptTokens, o \in OutputTokens :
          /\ prompt' = [prompt EXCEPT ![arrived + 1] = p]
          /\ maxOutput' = [maxOutput EXCEPT ![arrived + 1] = o]
    BY <1>5 DEF Arrive
  <2>2. /\ prompt \in [Request -> Nat] /\ maxOutput \in [Request -> Nat]
        /\ arrived \in Nat /\ arrived + 1 \notin 1 .. arrived
    BY <1>1 DEF TypeInv, TypeOK, LoadOK
  <2>3. \A r \in Begun : r \in Request /\ r # arrived + 1
    BY <1>1, <2>2, WhereIs DEF Begun, Resident
  <2>4. \A r \in Begun : prompt'[r] = prompt[r] /\ maxOutput'[r] = maxOutput[r]
    BY <2>1, <2>2, <2>3
  <2>5. IsFiniteSet(Begun) /\ IsFiniteSet(finished) /\ finished \subseteq Begun
    BY <1>1, PlacesFinite DEF Begun
  <2>6. SumFunctionOnSet(prompt', Begun) = SumFunctionOnSet(prompt, Begun)
    BY <2>4, <2>5, SumSame
  <2>7. SumFunctionOnSet(maxOutput', finished) = SumFunctionOnSet(maxOutput, finished)
    BY <2>4, <2>5, SumSame
  <2>8. MetricsExact'
    BY <1>1, <1>2, <1>3, <2>6, <2>7 DEF AccountsExact, MetricsExact, Begun
  <2>9. KVExact'
    BY <1>1, <1>2, <1>3, <2>4 DEF AccountsExact, KVExact, Begun
  <2>10. QED BY <2>8, <2>9 DEF AccountsExact
<1>6. QED BY <1>4, <1>5

\* One more, or one fewer, with blocks in the pool.
LEMMA KVTake ==
  ASSUME TypeInv, OnceInv, KVExact, NEW r \in Request, Fits(r),
         Resident' = Resident \cup {r}, prompt' = prompt,
         kvBlocks' = kvBlocks \cup ({r} \X (0 .. BlocksNeeded(prompt[r]) - 1))
  PROVE  KVExact'
<1>1. Blocked(Need, Resident \cup {r})
        = Blocked(Need, Resident) \cup ({r} \X (0 .. Need[r] - 1))
  BY DEF Blocked
<1> DEFINE n == BlocksNeeded(prompt[r])
<1>2. n \in Nat /\ Need[r] = n
  BY BlocksNat DEF Need, TypeInv, TypeOK, LoadOK
<1>3. IsFiniteSet(kvBlocks) /\ kvBlocks = Blocked(Need, Resident)
  BY BlocksFinite
<1>4. kvBlocks' = Blocked(Need, Resident \cup {r})
  BY <1>1, <1>2, <1>3
<1>5. Need' = Need /\ Resident \subseteq Request
  BY PlacesFinite DEF Need
<1>6. Cardinality(kvBlocks') <= KVCapacity
  <2>1. Cardinality(kvBlocks) + n <= KVCapacity /\ KVCapacity \in Int
    BY KVAssumption DEF Fits
  <2> HIDE DEF n
  <2>2. Cardinality(kvBlocks \cup ({r} \X (0 .. n - 1))) <= KVCapacity
    BY <1>2, <1>3, <2>1, BlocksFit
  <2>3. QED BY <2>2 DEF n
<1>7. (UNION {{q} \X (0 .. BlocksNeeded(prompt[q]) - 1) : q \in Resident})'
        = Blocked(Need, Resident \cup {r})
  BY <1>5 DEF Blocked, Need
<1>8. QED BY <1>4, <1>6, <1>7 DEF KVExact

LEMMA KVFree ==
  ASSUME TypeInv, OnceInv, KVExact, NEW r \in Request,
         Resident' = Resident \ {r}, prompt' = prompt,
         kvBlocks' = {b \in kvBlocks : b[1] # r}
  PROVE  KVExact'
<1>1. IsFiniteSet(kvBlocks) /\ kvBlocks = Blocked(Need, Resident)
  BY BlocksFinite
<1>2. kvBlocks' = Blocked(Need, Resident \ {r})
  <2>1. \A b : b \in Blocked(Need, Resident \ {r}) <=> b \in Blocked(Need, Resident) /\ b[1] # r
    BY BlockedRemove
  <2>2. QED BY <1>1, <2>1
<1>3. Need' = Need /\ Resident \subseteq Request
  BY PlacesFinite DEF Need
<1>4. Cardinality(kvBlocks') <= KVCapacity
  <2>1. kvBlocks' \in SUBSET kvBlocks /\ Cardinality(kvBlocks) <= KVCapacity /\ KVCapacity \in Int
    BY KVAssumption DEF KVExact
  <2>2. QED BY <1>1, <2>1, BlocksLeft
<1>5. (UNION {{q} \X (0 .. BlocksNeeded(prompt[q]) - 1) : q \in Resident})'
        = Blocked(Need, Resident \ {r})
  BY <1>3 DEF Blocked, Need
<1>6. QED BY <1>2, <1>4, <1>5 DEF KVExact

LEMMA BooksAdmit == \A c \in Chain : BooksInv /\ Admit(c) => AccountsExact'
<1> SUFFICES ASSUME BooksInv, NEW c \in Chain, Admit(c) PROVE AccountsExact'
  OBVIOUS
<1> DEFINE r == Head(queue)
<1>1. TypeInv /\ OnceInv /\ KVExact /\ MetricsExact
  BY DEF BooksInv, AccountsExact
<1>2. /\ Fits(r) /\ UNCHANGED <<prompt, maxOutput, finished, rejected, abandoned>>
      /\ kvBlocks' = kvBlocks \cup ({r} \X (0 .. BlocksNeeded(prompt[r]) - 1))
      /\ reg' = [reg EXCEPT !["prefillTokens"] = reg["prefillTokens"] + prompt[r]]
  BY DEF Admit, loadVars
<1>3. r \in Request /\ r \in Waiting /\ Held' = Held \cup {r} /\ Handed' = Handed
  BY <1>1, AdmitMoves
<1>4. r \notin Begun
  BY <1>1, <1>3, WhereIs DEF Begun, Resident
<1>5. reg \in [Counter -> Nat] /\ prompt \in [Request -> Int] /\ {"prefillTokens"} \subseteq Counter
  BY <1>1 DEF TypeInv, TypeOK, FateOK, LoadOK, Counter
<1> HIDE DEF r
<1>6. Resident' = Resident \cup {r} /\ Begun' = Begun \cup {r}
  BY <1>2, <1>3 DEF Resident, Begun
<1>7. KVExact'
  BY <1>1, <1>2, <1>3, <1>6, KVTake
<1>8. SumFunctionOnSet(prompt, Begun \cup {r}) = SumFunctionOnSet(prompt, Begun) + prompt[r]
  <2>1. Begun \in SUBSET Request /\ IsFiniteSet(Begun)
    BY <1>1, PlacesFinite
  <2>2. QED BY <1>3, <1>4, <1>5, <2>1, SumAdd
<1>9. /\ reg'["prefillTokens"] = reg["prefillTokens"] + prompt[r]
      /\ \A k \in Counter : k # "prefillTokens" => reg'[k] = reg[k]
  BY <1>2, <1>5
<1>10. MetricsExact'
  BY <1>1, <1>2, <1>6, <1>8, <1>9 DEF MetricsExact, Begun, Counter
<1>11. QED BY <1>7, <1>10 DEF AccountsExact

LEMMA BooksReject == \A c \in Chain : BooksInv /\ Reject(c) => AccountsExact'
<1> SUFFICES ASSUME BooksInv, NEW c \in Chain, Reject(c) PROVE AccountsExact'
  OBVIOUS
<1> DEFINE r == Head(queue)
<1>1. TypeInv /\ OnceInv /\ KVExact /\ MetricsExact
  BY DEF BooksInv, AccountsExact
<1>2. /\ UNCHANGED <<prompt, maxOutput, kvBlocks, finished, abandoned>>
      /\ rejected' = rejected \cup {r}
      /\ reg' = [reg EXCEPT !["rejections"] = reg["rejections"] + 1,
                            !["dropped"] = reg["dropped"] + 1]
  BY DEF Reject, loadVars
<1>3. r \in Waiting /\ Held' = Held /\ Handed' = Handed
  BY <1>1, RejectMoves
<1>4. r \notin rejected
  BY <1>1, <1>3, WhereIs
<1>5. reg \in [Counter -> Nat]
  BY <1>1 DEF TypeInv, TypeOK, FateOK
<1> HIDE DEF r
<1>6. Resident' = Resident
  BY <1>2, <1>3 DEF Resident
<1>7. KVExact'
  BY <1>1, <1>2, <1>6 DEF KVExact
<1>8. Cardinality(rejected \cup {r}) = Cardinality(rejected) + 1
  BY <1>1, <1>4, PlacesFinite, CountOneMore
<1>9. /\ reg'["rejections"] = reg["rejections"] + 1 /\ reg'["dropped"] = reg["dropped"] + 1
      /\ \A k \in Counter \ {"rejections", "dropped"} : reg'[k] = reg[k]
  BY <1>2, <1>5 DEF Counter
<1>10. MetricsExact'
  BY <1>1, <1>2, <1>6, <1>8, <1>9 DEF MetricsExact, Counter
<1>11. QED BY <1>7, <1>10 DEF AccountsExact

\* finishRequest and release: the request's blocks are free, and its tokens counted.
LEMMA BooksFinish ==
  ASSUME BooksInv, NEW r \in Resident \ finished, Finish(r), generated'[r] = maxOutput[r],
         Resident' = Resident \ {r}, UNCHANGED <<prompt, maxOutput, rejected>>
  PROVE  AccountsExact'
<1>1. TypeInv /\ OnceInv /\ KVExact /\ MetricsExact
  BY DEF BooksInv, AccountsExact
<1>2. /\ finished' = finished \cup {r} /\ kvBlocks' = {b \in kvBlocks : b[1] # r}
      /\ reg' = [reg EXCEPT !["completed"] = reg["completed"] + 1,
                            !["decodeTokens"] = reg["decodeTokens"] + maxOutput[r]]
  BY DEF Finish
<1>3. /\ Resident \subseteq Request /\ finished \in SUBSET Request /\ IsFiniteSet(finished)
      /\ r \in Request
  BY <1>1, PlacesFinite
<1>4. KVExact'
  BY <1>1, <1>2, <1>3, KVFree
<1>5. Begun' = Begun
  BY <1>2 DEF Begun
<1>6. Cardinality(finished \cup {r}) = Cardinality(finished) + 1
  BY <1>3, CountOneMore
<1>7. reg \in [Counter -> Nat] /\ maxOutput \in [Request -> Int]
  BY <1>1 DEF TypeInv, TypeOK, FateOK, LoadOK
<1>8. SumFunctionOnSet(maxOutput, finished \cup {r})
        = SumFunctionOnSet(maxOutput, finished) + maxOutput[r]
  BY <1>3, <1>7, SumAdd
<1>9. /\ reg'["completed"] = reg["completed"] + 1
      /\ reg'["decodeTokens"] = reg["decodeTokens"] + maxOutput[r]
      /\ \A k \in Counter \ {"completed", "decodeTokens"} : reg'[k] = reg[k]
  BY <1>2, <1>7 DEF Counter
<1>10. MetricsExact'
  BY <1>1, <1>2, <1>5, <1>6, <1>8, <1>9 DEF MetricsExact, Begun, Counter
<1>11. QED BY <1>4, <1>10 DEF AccountsExact

LEMMA BooksHandOff == \A c \in Chain : BooksInv /\ HandOff(c) => AccountsExact'
<1> SUFFICES ASSUME BooksInv, NEW c \in Chain, HandOff(c) PROVE AccountsExact'
  OBVIOUS
<1>1. UNCHANGED <<prompt, maxOutput, kvBlocks, finished, rejected, abandoned, reg>>
  BY DEF HandOff, loadVars, fateVars
<1>2. job[c] \in Held /\ Held' = Held \ {job[c]} /\ Handed' = Handed \cup {job[c]}
  BY HandOffMoves DEF BooksInv
<1>3. Resident' = Resident
  BY <1>1, <1>2 DEF Resident
<1>4. QED BY <1>1, <1>3, BooksSame DEF BooksInv

LEMMA BooksTakeHandoff == \A c \in Chain : BooksInv /\ TakeHandoff(c) => AccountsExact'
<1> SUFFICES ASSUME BooksInv, NEW c \in Chain, TakeHandoff(c) PROVE AccountsExact'
  OBVIOUS
<1> DEFINE r == Head(decodeQueue)
<1>1. TypeInv /\ OnceInv /\ OutputInv
  BY DEF BooksInv
<1>2. UNCHANGED <<prompt, maxOutput, generated, rejected, abandoned>>
  BY DEF TakeHandoff, loadVars
<1>3. /\ r \in Request /\ r \in Handed /\ Handed' = Handed \ {r}
      /\ Held' = IF IsFinished(r, generated[r]) THEN Held ELSE Held \cup {r}
  BY <1>1, TakeMoves
<1>4. r \notin Held \cup abandoned \cup finished
  BY <1>1, <1>3, WhereIs
<1>5. CASE IsFinished(r, generated[r])
  <2>1. Finish(r)
    BY <1>5 DEF TakeHandoff
  <2>2. Resident' = Resident \ {r} /\ r \in Resident \ finished
    BY <1>2, <1>3, <1>4, <1>5 DEF Resident
  <2>3. generated[r] = maxOutput[r]
    <3>1. r \in finished' /\ UNCHANGED <<generated, maxOutput>>
      BY <1>2, <2>1 DEF Finish
    <3>2. generated[r] = 1 /\ r \in 1 .. arrived
      BY <1>1, <1>3, WhereIs DEF OutputInv, OutputExact
    <3>3. maxOutput[r] \in Nat /\ maxOutput[r] > 0
      BY <1>1, <1>3, <3>2 DEF OutputInv, Asks, TypeInv, TypeOK, LoadOK
    <3>4. QED BY <1>5, <3>2, <3>3 DEF IsFinished
  <2>4. QED BY <1>2, <2>1, <2>2, <2>3, BooksFinish
<1>6. CASE ~IsFinished(r, generated[r])
  <2>1. UNCHANGED <<finished, reg, kvBlocks>>
    BY <1>6 DEF TakeHandoff
  <2>2. Resident' = Resident
    BY <1>2, <1>3, <1>6 DEF Resident
  <2>3. QED BY <1>2, <2>1, <2>2, BooksSame DEF BooksInv
<1>7. QED BY <1>5, <1>6

LEMMA BooksAbandon == \A c \in Chain : BooksInv /\ Abandon(c) => AccountsExact'
<1> SUFFICES ASSUME BooksInv, NEW c \in Chain, Abandon(c) PROVE AccountsExact'
  OBVIOUS
<1>1. /\ UNCHANGED <<prompt, maxOutput, kvBlocks, finished, rejected, reg>>
      /\ abandoned' = abandoned \cup {job[c]}
  BY DEF Abandon, loadVars
<1>2. job[c] \in Held /\ Held' = Held \ {job[c]} /\ Handed' = Handed
  BY EndsMoves DEF BooksInv
<1>3. Resident' = Resident
  BY <1>1, <1>2 DEF Resident
<1>4. QED BY <1>1, <1>3, BooksSame DEF BooksInv

\* The last token is the one that makes them all it asked for.
LEMMA LastToken ==
  ASSUME TypeInv, OutputInv, NEW c \in Chain, Complete(c)
  PROVE  generated'[job[c]] = maxOutput[job[c]]
<1> DEFINE r == job[c]
<1>1. /\ pc[c] = "decode" /\ generated' = [generated EXCEPT ![r] = generated[r] + 1]
      /\ generated'[r] >= maxOutput[r]
  BY DEF Complete, IsFinished
<1>2. r \in Request /\ generated \in [Request -> Nat] /\ maxOutput[r] \in Nat
  BY <1>1, JobOfChain DEF TypeInv, TypeOK, WorkOK, LoadOK
<1>3. generated[r] \in 1 .. maxOutput[r] - 1
  BY <1>1 DEF OutputInv, OutputExact
<1>4. QED BY <1>1, <1>2, <1>3

LEMMA BooksComplete == \A c \in Chain : BooksInv /\ Complete(c) => AccountsExact'
<1> SUFFICES ASSUME BooksInv, NEW c \in Chain, Complete(c) PROVE AccountsExact'
  OBVIOUS
<1> DEFINE r == job[c]
<1>1. TypeInv /\ OnceInv /\ OutputInv
  BY DEF BooksInv
<1>2. Finish(r) /\ UNCHANGED <<prompt, maxOutput, rejected, abandoned>>
  BY DEF Complete, loadVars
<1>3. r \in Request /\ r \in Held /\ Held' = Held \ {r} /\ Handed' = Handed
  BY <1>1, EndsMoves
<1>4. r \notin Handed \cup abandoned \cup finished
  BY <1>1, <1>3, WhereIs
<1>5. generated'[r] = maxOutput[r]
  BY <1>1, LastToken
<1>6. Resident' = Resident \ {r} /\ r \in Resident \ finished
  BY <1>2, <1>3, <1>4 DEF Resident
<1>7. QED BY <1>2, <1>5, <1>6, BooksFinish

LEMMA BooksStill == BooksInv /\ Still => AccountsExact'
<1> SUFFICES ASSUME BooksInv, Still PROVE AccountsExact'
  OBVIOUS
<1>1. UNCHANGED <<decodeQueue, job, finished, rejected, abandoned>>
  BY StillPlaces
<1>2. UNCHANGED <<prompt, maxOutput, kvBlocks, reg>>
  BY DEF Still, Start, Exit, Retire, PrefillDone, DecodeToken, ResizeToPrefill, ResizeToDecode,
         DrainDone, Stop, StopAtHorizon, StopAtQuiescence, vars, loadVars, fateVars
<1>3. Resident' = Resident
  BY <1>1 DEF Resident, Held, Handed
<1>4. QED BY <1>1, <1>2, <1>3, BooksSame DEF BooksInv

LEMMA BooksStep == BooksInv /\ [Next]_vars => BooksInv'
<1> SUFFICES ASSUME BooksInv, [Next]_vars PROVE BooksInv'
  OBVIOUS
<1>1. TypeInv' /\ OnceInv' /\ OutputInv'
  BY TypeStep, OnceStep, OutputStep DEF BooksInv
<1>2. CASE Still
  BY <1>1, <1>2, BooksStill DEF BooksInv
<1>3. CASE Arrive
  BY <1>1, <1>3, BooksArrive DEF BooksInv
<1>4. ASSUME NEW c \in Chain,
             \/ Admit(c) \/ Reject(c) \/ HandOff(c)
             \/ TakeHandoff(c) \/ Abandon(c) \/ Complete(c)
      PROVE  BooksInv'
  BY <1>1, <1>4, BooksAdmit, BooksReject, BooksHandOff, BooksTakeHandoff, BooksAbandon,
     BooksComplete
  DEF BooksInv
<1>5. QED BY <1>2, <1>3, <1>4, NextSplit

LEMMA BooksInit == Init => BooksInv
<1> SUFFICES ASSUME Init PROVE BooksInv
  OBVIOUS
<1>1. Resident = {} /\ finished = {} /\ rejected = {} /\ kvBlocks = {}
  BY DEF Init, Resident, Held, Handed, ToSet
<1>2. KVExact
  BY <1>1, FS_EmptySet, KVAssumption DEF KVExact
<1>3. MetricsExact
  BY <1>1, FS_EmptySet, SumEmpty DEF Init, MetricsExact, Counter
<1>4. QED BY <1>2, <1>3, TypeInit, OnceInit, OutputInit DEF BooksInv, AccountsExact

\* The pool holds exactly the prompts of the requests in service, within its
\* capacity, and the registry counts each request once, whatever is interleaved.
THEOREM AccountsExactHolds == Spec => []AccountsExact
<1>1. BooksInv => AccountsExact
  BY DEF BooksInv
<1>2. QED BY BooksInit, BooksStep, <1>1, PTL DEF Spec

-----------------------------------------------------------------------------
(* The pools, while their caller waits for a drain before it flips again *)

\* The lists name each worker once.
ListsInv ==
  /\ Once(prefillGPUs) /\ Once(decodeGPUs)
  /\ ToSet(prefillGPUs) \cap ToSet(decodeGPUs) = {}
  /\ ToSet(prefillGPUs) \cup ToSet(decodeGPUs) = Worker
  /\ Len(prefillGPUs) + Len(decodeGPUs) = NumGPUs

\* Until the engine stops a worker's role is its pool's, and its stop channel is closed
\* exactly while it drains: so no flip finds it closed and moves a worker in vain.
RolesInv ==
  ~stopped =>
    \A w \in Worker :
      /\ role[w] = IF w \in ToSet(prefillGPUs) THEN "prefill" ELSE "decode"
      /\ stop[w] <=> drain[w] # "none"
      /\ drain[w] # "none" => drain[w] = role[w]

\* A worker that does not drain is served by its current chain, the first one at Start.
ServesInv ==
  /\ ~started => \A w \in Worker : epoch[w] = 0
  /\ started /\ ~stopped =>
       \A w \in Worker : drain[w] = "none" => Serves(role[w], <<w, epoch[w]>>)

PoolsInv == TypeInv /\ ListsInv /\ RolesInv /\ ServesInv

LEMMA PoolsInit ==
  ASSUME Init
  PROVE  /\ PoolsInv
         /\ Len(prefillGPUs) = NumPrefill /\ Len(decodeGPUs) = NumGPUs - NumPrefill
<1>1. NumPrefill \in 1 .. NumGPUs - 1 /\ NumGPUs \in Nat
  BY NumPrefillRange, GPUAssumption
<1> DEFINE p == NumPrefill  d == NumGPUs - NumPrefill
<1>2. p \in Nat /\ d \in Nat /\ p >= 1 /\ d >= 1 /\ p + d = NumGPUs
  BY <1>1
<1>3. /\ prefillGPUs = [i \in 1 .. p |-> i] /\ decodeGPUs = [i \in 1 .. d |-> p + i]
      /\ started = FALSE
      /\ role = [w \in Worker |-> IF w <= p THEN "prefill" ELSE "decode"]
      /\ stop = [w \in Worker |-> FALSE] /\ epoch = [w \in Worker |-> 0]
      /\ drain = [w \in Worker |-> "none"]
  BY DEF Init
<1> HIDE DEF p, d
<1>4. /\ Len(prefillGPUs) = p /\ Len(decodeGPUs) = d
      /\ DOMAIN prefillGPUs = 1 .. p /\ DOMAIN decodeGPUs = 1 .. d
  BY <1>2, <1>3
<1>5. \A w : w \in ToSet(prefillGPUs) <=> w \in 1 .. p
  BY <1>3, <1>4 DEF ToSet
<1>6. \A w : w \in ToSet(decodeGPUs) <=> w \in p + 1 .. NumGPUs
  <2>1. \A w : w \in ToSet(decodeGPUs) => w \in p + 1 .. NumGPUs
    BY <1>2, <1>3, <1>4 DEF ToSet
  <2>2. ASSUME NEW w \in p + 1 .. NumGPUs PROVE w \in ToSet(decodeGPUs)
    <3>1. w - p \in 1 .. d /\ w = p + (w - p)
      BY <1>1, <1>2
    <3>2. decodeGPUs[w - p] = w
      BY <1>3, <3>1
    <3>3. QED BY <1>4, <3>1, <3>2 DEF ToSet
  <2>3. QED BY <2>1, <2>2
<1>7. ListsInv
  <2>1. Once(prefillGPUs) /\ Once(decodeGPUs)
    BY <1>2, <1>3, <1>4 DEF Once
  <2>2. /\ ToSet(prefillGPUs) \cap ToSet(decodeGPUs) = {}
        /\ ToSet(prefillGPUs) \cup ToSet(decodeGPUs) = Worker
    BY <1>1, <1>2, <1>5, <1>6 DEF Worker
  <2>3. QED BY <1>1, <1>2, <1>4, <2>1, <2>2 DEF ListsInv, p, d
<1>8. RolesInv
  <2>1. \A w \in Worker : w \in 1 .. p <=> w <= p
    BY <1>2 DEF Worker
  <2>2. QED BY <1>3, <1>5, <2>1 DEF RolesInv
<1>9. ServesInv
  BY <1>3 DEF ServesInv
<1>10. QED BY <1>4, <1>7, <1>8, <1>9, TypeInit DEF PoolsInv, p, d

\* A chain keeps to its pool's work, unless it ends because it was told to.
LEMMA ChainServes ==
  ASSUME TypeInv, NEW c \in Chain, ChainStep(c), NEW kind \in Roles, NEW b \in Chain,
         ~stopped, ~stop[b[1]], Serves(kind, b)
  PROVE  Serves(kind, b)'
<1>1. \/ c # b
      \/ c = b /\ ~Drained(b)
  BY DEF Drained
<1>2. pc \in [Chain -> PC]
  BY DEF TypeInv, TypeOK, ChainsOK
<1>3. CASE c # b
  <2>1. pc'[b] = pc[b]
    BY <1>2, <1>3
    DEF ChainStep, Exit, Retire, Admit, Reject, PrefillDone, HandOff, TakeHandoff, Abandon,
        Complete, DecodeToken
  <2>2. QED BY <2>1 DEF Serves
<1>4. CASE c = b /\ ~Drained(b)
  BY <1>2, <1>4
  DEF ChainStep, Exit, Retire, Admit, Reject, PrefillDone, HandOff, TakeHandoff, Abandon,
      Complete, DecodeToken, Serves, Roles
<1>5. QED BY <1>1, <1>3, <1>4

\* A step that leaves the pools alone.
LEMMA PoolsSame ==
  ASSUME PoolsInv, TypeInv', UNCHANGED <<poolVars, started>>, stopped => stopped',
         \A w \in Worker : started /\ ~stopped' /\ drain[w] = "none"
                             /\ Serves(role[w], <<w, epoch[w]>>)
                             => Serves(role[w], <<w, epoch[w]>>)'
  PROVE  PoolsInv'
<1>1. ListsInv'
  BY DEF PoolsInv, ListsInv, poolVars
<1>2. RolesInv'
  BY DEF PoolsInv, RolesInv, poolVars
<1>3. ServesInv'
  <2>1. ~started' => \A w \in Worker : epoch'[w] = 0
    BY DEF PoolsInv, ServesInv, poolVars
  <2>2. ASSUME NEW w \in Worker, started', ~stopped', drain'[w] = "none"
        PROVE  Serves(role[w], <<w, epoch[w]>>)'
    <3>1. started /\ ~stopped /\ drain[w] = "none"
      BY <2>2 DEF poolVars
    <3>2. Serves(role[w], <<w, epoch[w]>>)
      BY <3>1 DEF PoolsInv, ServesInv
    <3>3. QED BY <2>2, <3>1, <3>2
  <2>3. QED BY <2>1, <2>2 DEF ServesInv
<1>4. QED BY <1>1, <1>2, <1>3 DEF PoolsInv

LEMMA PoolsChainStep ==
  ASSUME PoolsInv, TypeInv', NEW c \in Chain, ChainStep(c)
  PROVE  PoolsInv'
<1>1. UNCHANGED <<poolVars, started, stopped>>
  BY DEF ChainStep, Exit, Retire, Admit, Reject, PrefillDone, HandOff, TakeHandoff, Abandon,
         Complete, DecodeToken
<1>2. ASSUME NEW w \in Worker, started, ~stopped, drain[w] = "none",
             Serves(role[w], <<w, epoch[w]>>)
      PROVE  Serves(role[w], <<w, epoch[w]>>)'
  <2>1. role[w] \in Roles /\ epoch[w] \in 0 .. MaxFlips
    BY DEF PoolsInv, TypeInv, TypeOK, PoolsOK
  <2>2. <<w, epoch[w]>> \in Chain /\ <<w, epoch[w]>>[1] = w
    BY <2>1, ChainFacts
  <2>3. ~stop[w]
    BY <1>2 DEF PoolsInv, RolesInv
  <2> DEFINE k == role[w]  b == <<w, epoch[w]>>
  <2>4. b \in Chain /\ b[1] = w /\ k \in Roles /\ Serves(k, b)
    BY <1>2, <2>1, <2>2
  <2>5. PICK kk \in Roles : kk = k
    BY <2>4
  <2>6. PICK bb \in Chain : bb = b
    BY <2>4
  <2>7. Serves(kk, bb)'
    BY <1>2, <2>3, <2>4, <2>5, <2>6, ChainServes DEF PoolsInv
  <2>8. k' = k /\ b' = b
    BY <1>1 DEF poolVars
  <2>9. QED BY <2>5, <2>6, <2>7, <2>8 DEF Serves
<1>3. QED BY <1>1, <1>2, PoolsSame

LEMMA PoolsStart ==
  ASSUME PoolsInv, TypeInv', Start
  PROVE  PoolsInv'
<1>1. /\ ~started /\ started' = TRUE /\ UNCHANGED <<poolVars, stopped>>
      /\ pc' = [c \in Chain |->
                  IF c[2] # 0 THEN "unborn"
                  ELSE IF c[1] \in ToSet(prefillGPUs) THEN "prefillStep" ELSE "decodeStep"]
  BY DEF Start
<1>2. ListsInv' /\ RolesInv'
  BY <1>1 DEF PoolsInv, ListsInv, RolesInv, poolVars
<1>3. ServesInv'
  <2> SUFFICES ASSUME ~stopped, NEW w \in Worker PROVE Serves(role[w], <<w, epoch[w]>>)'
    BY <1>1 DEF ServesInv, poolVars
  <2>1. epoch[w] = 0 /\ 0 \in 0 .. MaxFlips
    BY <1>1, BoundAssumption DEF PoolsInv, ServesInv
  <2>2. <<w, 0>> \in Chain /\ <<w, 0>>[1] = w /\ <<w, 0>>[2] = 0
    BY <2>1, ChainFacts
  <2>3. role[w] = IF w \in ToSet(prefillGPUs) THEN "prefill" ELSE "decode"
    BY DEF PoolsInv, RolesInv
  <2>4. role'[w] = role[w] /\ epoch'[w] = 0
    BY <1>1, <2>1 DEF poolVars
  <2>5. pc'[<<w, 0>>] = IF w \in ToSet(prefillGPUs) THEN "prefillStep" ELSE "decodeStep"
    BY <1>1, <2>2
  <2>6. QED BY <2>3, <2>4, <2>5 DEF Serves
<1>4. QED BY <1>2, <1>3 DEF PoolsInv

\* The new chain serves the role its worker was flipped to.
LEMMA PoolsDrainDone ==
  ASSUME PoolsInv, TypeInv', NEW w \in Worker, DrainDone(w)
  PROVE  PoolsInv'
<1>1. /\ drain[w] # "none" /\ drain' = [drain EXCEPT ![w] = "none"]
      /\ UNCHANGED <<started, stopped, prefillGPUs, decodeGPUs, role>>
  BY DEF DrainDone
<1>2. ListsInv'
  BY <1>1 DEF PoolsInv, ListsInv
<1>3. started
  BY <1>1 DEF PoolsInv, TypeInv, NothingBeforeStart
<1>4. CASE stopped
  BY <1>1, <1>2, <1>3, <1>4 DEF PoolsInv, RolesInv, ServesInv
<1>5. CASE ~stopped
  <2>1. /\ stop' = [stop EXCEPT ![w] = FALSE]
        /\ epoch' = [epoch EXCEPT ![w] = @ + 1]
        /\ pc' = [pc EXCEPT ![<<w, epoch[w] + 1>>] =
                    IF drain[w] = "prefill" THEN "prefillStep" ELSE "decodeStep"]
    BY <1>5 DEF DrainDone
  <2>2. /\ drain \in [Worker -> RoleOrNone] /\ stop \in [Worker -> BOOLEAN]
        /\ epoch \in [Worker -> 0 .. MaxFlips] /\ pc \in [Chain -> PC]
        /\ role \in [Worker -> Roles]
    BY DEF PoolsInv, TypeInv, TypeOK, PoolsOK, ChainsOK
  <2>3. RolesInv'
    BY <1>1, <2>1, <2>2 DEF PoolsInv, RolesInv
  <2>4. ASSUME NEW v \in Worker, drain'[v] = "none" PROVE Serves(role[v], <<v, epoch[v]>>)'
    <3>1. CASE v = w
      <4>1. epoch'[w] = epoch[w] + 1 /\ epoch'[w] \in 0 .. MaxFlips
        BY <2>1, <2>2 DEF TypeInv, TypeOK, PoolsOK
      <4>2. <<w, epoch[w] + 1>> \in Chain
        BY <4>1, ChainFacts
      <4>3. pc'[<<w, epoch[w] + 1>>]
              = IF drain[w] = "prefill" THEN "prefillStep" ELSE "decodeStep"
        BY <2>1, <2>2, <4>2
      <4>4. drain[w] = role[w] /\ role[w] \in Roles
        BY <1>1, <1>5, <2>2 DEF PoolsInv, RolesInv
      <4>5. QED BY <1>1, <3>1, <4>1, <4>3, <4>4 DEF Serves, Roles
    <3>2. CASE v # w
      <4>1. drain[v] = "none" /\ epoch'[v] = epoch[v]
        BY <1>1, <2>1, <2>2, <2>4, <3>2
      <4>2. Serves(role[v], <<v, epoch[v]>>)
        BY <1>3, <1>5, <4>1 DEF PoolsInv, ServesInv
      <4>3. epoch[v] \in 0 .. MaxFlips /\ epoch'[w] \in 0 .. MaxFlips
            /\ epoch'[w] = epoch[w] + 1
        BY <2>1, <2>2 DEF TypeInv, TypeOK, PoolsOK
      <4>4. <<v, epoch[v]>> \in Chain /\ <<v, epoch[v]>> # <<w, epoch[w] + 1>>
        BY <3>2, <4>3, ChainFacts
      <4>5. pc'[<<v, epoch[v]>>] = pc[<<v, epoch[v]>>]
        BY <2>1, <2>2, <4>4
      <4>6. QED BY <1>1, <4>1, <4>2, <4>5 DEF Serves
    <3>3. QED BY <3>1, <3>2
  <2>5. QED BY <1>2, <1>3, <1>1, <2>3, <2>4 DEF PoolsInv, ServesInv
<1>6. QED BY <1>4, <1>5

\* The worker that moves is not draining, so its role moves with it.
LEMMA RolesFlip ==
  ASSUME PoolsInv, NEW w \in Worker, NEW to \in Roles, Flip(w, to),
         \A v \in Worker : drain[v] = "none", UNCHANGED <<started, stopped, epoch, pc>>,
         \A v \in Worker : v \in ToSet(prefillGPUs') <=>
                             IF v = w THEN to = "prefill" ELSE v \in ToSet(prefillGPUs)
  PROVE  RolesInv' /\ ServesInv'
<1>1. CASE stopped
  BY <1>1 DEF PoolsInv, RolesInv, ServesInv
<1>2. CASE ~stopped
  <2>1. ~stop[w]
    BY <1>2 DEF PoolsInv, RolesInv
  <2>2. /\ stop' = [stop EXCEPT ![w] = TRUE]
        /\ role' = [role EXCEPT ![w] = to]
        /\ drain' = [drain EXCEPT ![w] = to]
    BY <2>1 DEF Flip
  <2>3. /\ drain \in [Worker -> RoleOrNone] /\ stop \in [Worker -> BOOLEAN]
        /\ role \in [Worker -> Roles] /\ to # "none"
    BY DEF PoolsInv, TypeInv, TypeOK, PoolsOK, Roles
  <2>4. RolesInv'
    <3> SUFFICES ASSUME NEW v \in Worker
                 PROVE  /\ role'[v] = IF v \in ToSet(prefillGPUs') THEN "prefill" ELSE "decode"
                        /\ stop'[v] <=> drain'[v] # "none"
                        /\ drain'[v] # "none" => drain'[v] = role'[v]
      BY DEF RolesInv
    <3>1. CASE v = w
      BY <2>2, <2>3, <3>1 DEF Roles
    <3>2. CASE v # w
      <4>1. role'[v] = role[v] /\ stop'[v] = stop[v] /\ drain'[v] = drain[v]
        BY <2>2, <2>3, <3>2
      <4>2. QED BY <1>2, <3>2, <4>1 DEF PoolsInv, RolesInv
    <3>3. QED BY <3>1, <3>2
  <2>5. ServesInv'
    <3> SUFFICES ASSUME started, NEW v \in Worker, drain'[v] = "none"
                 PROVE  Serves(role[v], <<v, epoch[v]>>)'
      BY DEF PoolsInv, ServesInv
    <3>1. v # w /\ role'[v] = role[v]
      BY <2>2, <2>3
    <3>2. Serves(role[v], <<v, epoch[v]>>)
      BY <1>2 DEF PoolsInv, ServesInv
    <3>3. QED BY <3>1, <3>2 DEF Serves
  <2>6. QED BY <2>4, <2>5
<1>3. QED BY <1>1, <1>2

\* A worker that moves leaves the end of one list for the end of the other.
LEMMA ListsToPrefill ==
  ASSUME TypeInv, ListsInv, ResizeToPrefill, Len(decodeGPUs) > 0
  PROVE  LET w == Last(decodeGPUs) IN
           /\ ListsInv' /\ w \in Worker /\ w \in ToSet(decodeGPUs)
           /\ ToSet(prefillGPUs') = ToSet(prefillGPUs) \cup {w}
           /\ Len(prefillGPUs') = Len(prefillGPUs) + 1
           /\ Len(decodeGPUs') = Len(decodeGPUs) - 1
<1> DEFINE w == Last(decodeGPUs)
<1>1. decodeGPUs' = Front(decodeGPUs) /\ prefillGPUs' = Append(prefillGPUs, w)
  BY DEF ResizeToPrefill
<1>2. /\ prefillGPUs \in Seq(Worker) /\ decodeGPUs \in Seq(Worker)
      /\ Len(prefillGPUs) \in Nat /\ Len(decodeGPUs) \in Nat /\ NumGPUs \in Nat
  BY LenProperties, GPUAssumption DEF TypeInv, TypeOK, PoolsOK
<1>3. /\ w \in Worker /\ w \in ToSet(decodeGPUs) /\ Len(decodeGPUs') = Len(decodeGPUs) - 1
      /\ ToSet(decodeGPUs') = ToSet(decodeGPUs) \ {w} /\ Once(decodeGPUs')
  BY <1>1, <1>2, LastTypes, LastSet DEF ListsInv
<1>4. /\ ToSet(prefillGPUs') = ToSet(prefillGPUs) \cup {w}
      /\ Len(prefillGPUs') = Len(prefillGPUs) + 1
      /\ Once(prefillGPUs')
  BY <1>1, <1>2, <1>3, PushSet, AppendProperties DEF ListsInv
<1> HIDE DEF w
<1>5. ListsInv'
  BY <1>2, <1>3, <1>4 DEF ListsInv
<1>6. QED BY <1>3, <1>4, <1>5 DEF w

LEMMA ListsToDecode ==
  ASSUME TypeInv, ListsInv, ResizeToDecode, Len(prefillGPUs) > 0
  PROVE  LET w == Last(prefillGPUs) IN
           /\ ListsInv' /\ w \in Worker /\ w \in ToSet(prefillGPUs)
           /\ ToSet(prefillGPUs') = ToSet(prefillGPUs) \ {w}
           /\ Len(prefillGPUs') = Len(prefillGPUs) - 1
           /\ Len(decodeGPUs') = Len(decodeGPUs) + 1
<1> DEFINE w == Last(prefillGPUs)
<1>1. prefillGPUs' = Front(prefillGPUs) /\ decodeGPUs' = Append(decodeGPUs, w)
  BY DEF ResizeToDecode
<1>2. /\ prefillGPUs \in Seq(Worker) /\ decodeGPUs \in Seq(Worker)
      /\ Len(prefillGPUs) \in Nat /\ Len(decodeGPUs) \in Nat /\ NumGPUs \in Nat
  BY LenProperties, GPUAssumption DEF TypeInv, TypeOK, PoolsOK
<1>3. /\ w \in Worker /\ w \in ToSet(prefillGPUs) /\ Len(prefillGPUs') = Len(prefillGPUs) - 1
      /\ ToSet(prefillGPUs') = ToSet(prefillGPUs) \ {w} /\ Once(prefillGPUs')
  BY <1>1, <1>2, LastTypes, LastSet DEF ListsInv
<1>4. /\ ToSet(decodeGPUs') = ToSet(decodeGPUs) \cup {w}
      /\ Len(decodeGPUs') = Len(decodeGPUs) + 1
      /\ Once(decodeGPUs')
  BY <1>1, <1>2, <1>3, PushSet, AppendProperties DEF ListsInv
<1> HIDE DEF w
<1>5. ListsInv'
  BY <1>2, <1>3, <1>4 DEF ListsInv
<1>6. QED BY <1>3, <1>4, <1>5 DEF w

LEMMA PoolsToPrefill ==
  ASSUME PoolsInv, TypeInv', ResizeToPrefill, \A v \in Worker : drain[v] = "none",
         Len(decodeGPUs) > 0
  PROVE  /\ PoolsInv'
         /\ Len(prefillGPUs') = Len(prefillGPUs) + 1
         /\ Len(decodeGPUs') = Len(decodeGPUs) - 1
<1> DEFINE w == Last(decodeGPUs)
<1>1. Flip(w, "prefill") /\ UNCHANGED <<started, stopped, epoch, pc>>
  BY DEF ResizeToPrefill
<1>2. /\ ListsInv' /\ w \in Worker
      /\ ToSet(prefillGPUs') = ToSet(prefillGPUs) \cup {w}
      /\ Len(prefillGPUs') = Len(prefillGPUs) + 1
      /\ Len(decodeGPUs') = Len(decodeGPUs) - 1
  BY ListsToPrefill DEF PoolsInv
<1> HIDE DEF w
<1>3. RolesInv' /\ ServesInv'
  BY <1>1, <1>2, RolesFlip DEF Roles
<1>4. QED BY <1>2, <1>3 DEF PoolsInv

LEMMA PoolsToDecode ==
  ASSUME PoolsInv, TypeInv', ResizeToDecode, \A v \in Worker : drain[v] = "none",
         Len(prefillGPUs) > 0
  PROVE  /\ PoolsInv'
         /\ Len(prefillGPUs') = Len(prefillGPUs) - 1
         /\ Len(decodeGPUs') = Len(decodeGPUs) + 1
<1> DEFINE w == Last(prefillGPUs)
<1>1. Flip(w, "decode") /\ UNCHANGED <<started, stopped, epoch, pc>>
  BY DEF ResizeToDecode
<1>2. /\ ListsInv' /\ w \in Worker
      /\ ToSet(prefillGPUs') = ToSet(prefillGPUs) \ {w}
      /\ Len(prefillGPUs') = Len(prefillGPUs) - 1
      /\ Len(decodeGPUs') = Len(decodeGPUs) + 1
  BY ListsToDecode DEF PoolsInv
<1> HIDE DEF w
<1>3. RolesInv' /\ ServesInv'
  BY <1>1, <1>2, RolesFlip DEF Roles
<1>4. QED BY <1>2, <1>3 DEF PoolsInv

-----------------------------------------------------------------------------
(* Refinement *)

Stages == [r \in Request |-> StatusOf(r)]
Asked  == [r \in Request |-> [prompt |-> prompt[r], output |-> maxOutput[r]]]

Places == Waiting \cup Handed \cup Held \cup finished \cup rejected \cup abandoned

\* A request has the stage of the one place it is in.
LEMMA StatusIs ==
  TypeInv /\ OnceInv =>
    \A r \in Request :
      /\ StatusOf(r) = "unborn" <=> r > arrived
      /\ StatusOf(r) = "waiting" <=> r \in Waiting
      /\ StatusOf(r) = "running" <=> r \in Held \cup Handed
      /\ StatusOf(r) = "done" <=> r \in finished
      /\ StatusOf(r) = "refused" <=> r \in rejected
      /\ StatusOf(r) = "abandoned" <=> r \in abandoned
<1> SUFFICES ASSUME TypeInv, OnceInv, NEW r \in Request
             PROVE  /\ StatusOf(r) = "unborn" <=> r > arrived
                    /\ StatusOf(r) = "waiting" <=> r \in Waiting
                    /\ StatusOf(r) = "running" <=> r \in Held \cup Handed
                    /\ StatusOf(r) = "done" <=> r \in finished
                    /\ StatusOf(r) = "refused" <=> r \in rejected
                    /\ StatusOf(r) = "abandoned" <=> r \in abandoned
  OBVIOUS
<1>1. r \in 1 .. MaxRequests /\ MaxRequests \in Nat /\ arrived \in Nat
  BY BoundAssumption DEF TypeInv, TypeOK, LoadOK, Request
<1>2. r > arrived <=> r \notin 1 .. arrived
  BY <1>1
<1>3. r > arrived <=> r \notin Places
  BY <1>2 DEF OnceInv, PlacesCover, Places
<1>4. Apart(Waiting, Handed, Held, finished, rejected, abandoned)
  BY DEF OnceInv, PlacesApart
<1>5. QED BY <1>3, <1>4 DEF StatusOf, Apart, Places

\* Where nothing moves, no stage changes.
LEMMA StatusSame ==
  ASSUME NEW r, r > arrived' <=> r > arrived,
         r \in Waiting' <=> r \in Waiting, r \in (Held \cup Handed)' <=> r \in Held \cup Handed,
         r \in finished' <=> r \in finished, r \in rejected' <=> r \in rejected
  PROVE  StatusOf(r)' = StatusOf(r)
  BY DEF StatusOf

\* The specification adds up as the proofs do.
LEMMA SumsAgree == \A f, S : Serving!SumFunctionOnSet(f, S) = SumFunctionOnSet(f, S)
  BY DEF Serving!SumFunctionOnSet, Serving!FoldFunctionOnSet, Serving!MapThenFoldSet,
         SumFunctionOnSet, FoldFunctionOnSet, MapThenFoldSet

LEMMA RoomIsFit ==
  ASSUME BooksInv, NEW r \in Request
  PROVE  Serving!Room(r) <=> Fits(r)
<1>1. TypeInv /\ OnceInv /\ KVExact
  BY DEF BooksInv, AccountsExact
<1>2. /\ Resident \subseteq Request
      /\ \A q \in Request : StatusOf(q) \in {"running", "abandoned"} <=> q \in Resident
  BY <1>1, StatusIs, PlacesFinite DEF Resident
<1>3. Serving!With("running") \cup Serving!With("abandoned") = Resident
  BY <1>2 DEF Serving!With
<1>4. [q \in Request |-> BlocksNeeded(Asked[q].prompt)] = Need
  BY DEF Asked, Need
<1>5. Serving!InUse = SumFunctionOnSet(Need, Resident)
  BY <1>3, <1>4, SumsAgree DEF Serving!InUse, Asked
<1>6. Serving!Room(r) <=> SumFunctionOnSet(Need, Resident) + BlocksNeeded(prompt[r]) <= KVCapacity
  BY <1>5 DEF Serving!Room
<1>7. QED BY <1>1, <1>6, BlocksFinite DEF Fits

\* One request changes its stage.
LEMMA StageMoves ==
  ASSUME NEW x \in Request, NEW v, StatusOf(x)' = v,
         \A q \in Request \ {x} : StatusOf(q)' = StatusOf(q)
  PROVE  Stages' = [Stages EXCEPT ![x] = v]
  BY DEF Stages

LEMMA StagesSame ==
  ASSUME UNCHANGED <<arrived, queue, decodeQueue, job, finished, rejected>>
  PROVE  Stages' = Stages
<1>1. Waiting' = Waiting /\ Handed' = Handed /\ Held' = Held
  BY DEF Waiting, Handed, Held
<1>2. \A r \in Request : StatusOf(r)' = StatusOf(r)
  BY <1>1, StatusSame
<1>3. QED BY <1>2 DEF Stages

\* A step that shows the specification nothing.
LEMMA ServingSame ==
  ASSUME Stages' = Stages, UNCHANGED <<stopped, prompt, maxOutput, generated>>
  PROVE  UNCHANGED Serving!svars
  BY DEF Serving!svars, Stages

\* The stages after a step.
LEMMA StatusIsNext ==
  (TypeInv /\ OnceInv)' =>
    (\A r \in Request :
       /\ StatusOf(r) = "unborn" <=> r > arrived
       /\ StatusOf(r) = "waiting" <=> r \in Waiting
       /\ StatusOf(r) = "running" <=> r \in Held \cup Handed
       /\ StatusOf(r) = "done" <=> r \in finished
       /\ StatusOf(r) = "refused" <=> r \in rejected
       /\ StatusOf(r) = "abandoned" <=> r \in abandoned)'
BY StatusIs, PTL

LEMMA ServeArrive == BooksInv /\ BooksInv' /\ Arrive => [Serving!SNext]_(Serving!svars)
<1> SUFFICES ASSUME BooksInv, BooksInv', Arrive PROVE [Serving!SNext]_(Serving!svars)
  OBVIOUS
<1>1. TypeInv /\ OnceInv /\ TypeInv' /\ OnceInv'
  BY DEF BooksInv
<1>2. UNCHANGED <<stopped, generated, decodeQueue, job, finished, rejected>>
  BY DEF Arrive, fateVars
<1>3. CASE stopped
  <2>1. UNCHANGED <<arrived, prompt, maxOutput, queue>>
    BY <1>3 DEF Arrive
  <2>2. QED BY <1>2, <2>1, StagesSame, ServingSame
<1>4. CASE ~stopped
  <2>1. arrived \in Nat /\ arrived + 1 \in Request /\ queue \in Seq(Request)
    BY <1>1, <1>4, BoundAssumption
    DEF TypeInv, TypeOK, LoadOK, WorkOK, ArrivalsBounded, Arrive, Request
  <2>2. PICK r \in Request : r = arrived + 1
    BY <2>1
  <2>3. /\ arrived' = r /\ queue' = Append(queue, r)
        /\ \E p \in PromptTokens, o \in OutputTokens :
             /\ prompt' = [prompt EXCEPT ![r] = p]
             /\ maxOutput' = [maxOutput EXCEPT ![r] = o]
    BY <1>4, <2>2 DEF Arrive
  <2>4. prompt \in [Request -> Nat] /\ maxOutput \in [Request -> Nat]
    BY <1>1 DEF TypeInv, TypeOK, LoadOK
  <2>5. Waiting' = Waiting \cup {r} /\ Handed' = Handed /\ Held' = Held
    BY <1>2, <2>1, <2>3, PushSet DEF Waiting, Handed, Held
  <2>6. /\ r > arrived /\ \A q \in Request \ {r} : q > r <=> q > arrived
        /\ \A q \in Request : q < r => ~(q > arrived)
    BY <2>1, <2>2, RequestFacts
  <2>7. StatusOf(r) = "unborn" /\ \A q \in Request : q < r => StatusOf(q) # "unborn"
    BY <1>1, <2>6, StatusIs
  <2>8. StatusOf(r)' = "waiting"
    BY <1>1, <2>5, StatusIsNext
  <2>9. \A q \in Request \ {r} : StatusOf(q)' = StatusOf(q)
    BY <1>2, <2>3, <2>5, <2>6, StatusSame
  <2>10. Stages' = [Stages EXCEPT ![r] = "waiting"]
    BY <2>8, <2>9, StageMoves
  <2>11. Asked'[r].output > 0 /\ \A q \in Request \ {r} : Asked'[q] = Asked[q]
    BY <2>3, <2>4, LoadAssumption DEF Asked
  <2>12. Serving!Submit(r)
    BY <1>2, <1>4, <2>7, <2>10, <2>11 DEF Serving!Submit, Stages, Asked
  <2>13. QED BY <2>12 DEF Serving!SNext
<1>5. QED BY <1>3, <1>4

\* A request moves, and the others keep their stage.
LEMMA OthersKeep ==
  ASSUME NEW r \in Request, arrived' = arrived,
         \A q \in Request \ {r} :
           /\ q \in Waiting' <=> q \in Waiting
           /\ q \in (Held \cup Handed)' <=> q \in Held \cup Handed
           /\ q \in finished' <=> q \in finished
           /\ q \in rejected' <=> q \in rejected,
         NEW v, StatusOf(r)' = v
  PROVE  Stages' = [Stages EXCEPT ![r] = v]
<1>1. \A q \in Request \ {r} : StatusOf(q)' = StatusOf(q)
  BY StatusSame
<1>2. QED BY <1>1, StageMoves

\* The head of the queue is the oldest that waits.
LEMMA HeadIsOldest ==
  ASSUME TypeInv, OnceInv, NEW r \in Waiting, \A q \in Waiting : r <= q
  PROVE  Serving!Oldest(r)
<1>1. r \in Request
  BY WhereIs
<1>2. QED BY <1>1, StatusIs DEF Serving!Oldest, Serving!With

LEMMA ServeAdmit == \A c \in Chain : BooksInv /\ BooksInv' /\ Admit(c) => Serving!SNext
<1> SUFFICES ASSUME BooksInv, BooksInv', NEW c \in Chain, Admit(c) PROVE Serving!SNext
  OBVIOUS
<1>1. TypeInv /\ OnceInv /\ TypeInv' /\ OnceInv'
  BY DEF BooksInv
<1>2. PICK r \in Request : r = Head(queue)
  BY <1>1, AdmitMoves
<1>3. /\ ~stopped /\ Fits(r)
      /\ UNCHANGED <<stopped, arrived, prompt, maxOutput, generated, finished, rejected>>
  BY <1>2 DEF Admit, Drained, loadVars
<1>4. /\ r \in Waiting /\ Waiting' = Waiting \ {r} /\ Held' = Held \cup {r} /\ Handed' = Handed
      /\ \A q \in Waiting : r <= q
  BY <1>1, <1>2, AdmitMoves
<1>5. StatusOf(r)' = "running"
  BY <1>1, <1>4, StatusIsNext
<1>6. Stages' = [Stages EXCEPT ![r] = "running"]
  BY <1>3, <1>4, <1>5, OthersKeep
<1>7. Serving!Oldest(r) /\ Serving!Room(r)
  BY <1>1, <1>3, <1>4, HeadIsOldest, RoomIsFit
<1>8. Serving!Begin(r)
  BY <1>3, <1>6, <1>7 DEF Serving!Begin, Stages
<1>9. QED BY <1>8 DEF Serving!SNext

LEMMA ServeReject == \A c \in Chain : BooksInv /\ BooksInv' /\ Reject(c) => Serving!SNext
<1> SUFFICES ASSUME BooksInv, BooksInv', NEW c \in Chain, Reject(c) PROVE Serving!SNext
  OBVIOUS
<1>1. TypeInv /\ OnceInv /\ TypeInv' /\ OnceInv'
  BY DEF BooksInv
<1>2. PICK r \in Request : r = Head(queue)
  BY <1>1, RejectMoves
<1>3. /\ ~stopped /\ ~Fits(r) /\ rejected' = rejected \cup {r}
      /\ UNCHANGED <<stopped, arrived, prompt, maxOutput, generated, finished>>
  BY <1>2 DEF Reject, Drained, loadVars
<1>4. /\ r \in Waiting /\ Waiting' = Waiting \ {r} /\ Held' = Held /\ Handed' = Handed
      /\ \A q \in Waiting : r <= q
  BY <1>1, <1>2, RejectMoves
<1>5. StatusOf(r)' = "refused"
  BY <1>1, <1>3, StatusIsNext
<1>6. Stages' = [Stages EXCEPT ![r] = "refused"]
  BY <1>3, <1>4, <1>5, OthersKeep
<1>7. Serving!Oldest(r) /\ ~Serving!Room(r)
  BY <1>1, <1>3, <1>4, HeadIsOldest, RoomIsFit
<1>8. Serving!Refuse(r)
  BY <1>3, <1>6, <1>7 DEF Serving!Refuse, Stages
<1>9. QED BY <1>8 DEF Serving!SNext

LEMMA ServeHandOff == \A c \in Chain : BooksInv /\ BooksInv' /\ HandOff(c) => Serving!SNext
<1> SUFFICES ASSUME BooksInv, BooksInv', NEW c \in Chain, HandOff(c) PROVE Serving!SNext
  OBVIOUS
<1>1. TypeInv /\ OnceInv /\ TypeInv' /\ OnceInv' /\ OutputInv
  BY DEF BooksInv
<1>2. PICK r \in Request : r = job[c]
  BY <1>1, HandOffMoves
<1>3. /\ generated' = [generated EXCEPT ![r] = generated[r] + 1] /\ pc[c] = "transfer"
      /\ UNCHANGED <<stopped, arrived, prompt, maxOutput, finished, rejected>>
  BY <1>2 DEF HandOff, loadVars, fateVars
<1>4. r \in Held /\ Waiting' = Waiting /\ Held' = Held \ {r} /\ Handed' = Handed \cup {r}
  BY <1>1, <1>2, HandOffMoves
<1>5. Stages' = Stages
  <2>1. (Held \cup Handed)' = Held \cup Handed
    BY <1>4
  <2>2. \A q \in Request : StatusOf(q)' = StatusOf(q)
    BY <1>3, <1>4, <2>1, StatusSame
  <2>3. QED BY <2>2 DEF Stages
<1>6. Stages[r] = "running"
  BY <1>1, <1>4, StatusIs DEF Stages
<1>7. generated[r] < Asked[r].output
  <2>1. generated[r] = 0
    BY <1>1, <1>2, <1>3 DEF OutputInv, OutputExact
  <2>2. maxOutput[r] > 0
    BY <1>1, <1>4, WhereIs DEF OutputInv, Asks
  <2>3. QED BY <2>1, <2>2 DEF Asked
<1>8. Serving!Emit(r)
  BY <1>3, <1>5, <1>6, <1>7 DEF Serving!Emit, Stages, Asked
<1>9. QED BY <1>8 DEF Serving!SNext

LEMMA ServeTakeHandoff == \A c \in Chain :
  BooksInv /\ BooksInv' /\ TakeHandoff(c) => [Serving!SNext]_(Serving!svars)
<1> SUFFICES ASSUME BooksInv, BooksInv', NEW c \in Chain, TakeHandoff(c)
             PROVE  [Serving!SNext]_(Serving!svars)
  OBVIOUS
<1>1. TypeInv /\ OnceInv /\ TypeInv' /\ OnceInv' /\ OutputInv
  BY DEF BooksInv
<1>2. PICK r \in Request : r = Head(decodeQueue)
  BY <1>1, TakeMoves
<1>3. /\ ~stopped
      /\ UNCHANGED <<stopped, arrived, prompt, maxOutput, generated, rejected>>
  BY <1>2 DEF TakeHandoff, Drained, loadVars
<1>4. /\ r \in Handed /\ Waiting' = Waiting /\ Handed' = Handed \ {r}
      /\ Held' = IF IsFinished(r, generated[r]) THEN Held ELSE Held \cup {r}
  BY <1>1, <1>2, TakeMoves
<1>5. CASE IsFinished(r, generated[r])
  <2>1. finished' = finished \cup {r}
    BY <1>2, <1>5 DEF TakeHandoff, Finish
  <2>2. StatusOf(r)' = "done"
    BY <1>1, <2>1, StatusIsNext
  <2>3. Stages' = [Stages EXCEPT ![r] = "done"]
    BY <1>3, <1>4, <1>5, <2>1, <2>2, OthersKeep
  <2>4. Stages[r] = "running"
    BY <1>1, <1>4, StatusIs DEF Stages
  <2>5. generated[r] = Asked[r].output
    <3>1. generated[r] = 1 /\ maxOutput[r] > 0 /\ maxOutput[r] \in Nat
      BY <1>1, <1>4, WhereIs DEF OutputInv, OutputExact, Asks, TypeInv, TypeOK, LoadOK
    <3>2. QED BY <1>5, <3>1 DEF IsFinished, Asked
  <2>6. Serving!Complete(r)
    BY <1>3, <2>3, <2>4, <2>5 DEF Serving!Complete, Stages, Asked
  <2>7. QED BY <2>6 DEF Serving!SNext
<1>6. CASE ~IsFinished(r, generated[r])
  <2>1. finished' = finished
    BY <1>2, <1>6 DEF TakeHandoff
  <2>2. \A q \in Request : StatusOf(q)' = StatusOf(q)
    BY <1>3, <1>4, <1>6, <2>1, StatusSame
  <2>3. Stages' = Stages
    BY <2>2 DEF Stages
  <2>4. QED BY <1>3, <2>3, ServingSame
<1>7. QED BY <1>5, <1>6

LEMMA ServeAbandon == \A c \in Chain : BooksInv /\ BooksInv' /\ Abandon(c) => Serving!SNext
<1> SUFFICES ASSUME BooksInv, BooksInv', NEW c \in Chain, Abandon(c) PROVE Serving!SNext
  OBVIOUS
<1>1. TypeInv /\ OnceInv /\ TypeInv' /\ OnceInv' /\ OutputInv
  BY DEF BooksInv
<1>2. PICK r \in Request : r = job[c]
  BY <1>1, EndsMoves
<1>3. /\ stopped /\ abandoned' = abandoned \cup {r} /\ pc[c] = "decode"
      /\ generated' = [generated EXCEPT ![r] = generated[r] + 1]
      /\ UNCHANGED <<stopped, arrived, prompt, maxOutput, finished, rejected>>
  BY <1>2 DEF Abandon, loadVars
<1>4. r \in Held /\ Waiting' = Waiting /\ Held' = Held \ {r} /\ Handed' = Handed
  BY <1>1, <1>2, EndsMoves
<1>5. StatusOf(r)' = "abandoned"
  BY <1>1, <1>3, StatusIsNext
<1>6. Stages' = [Stages EXCEPT ![r] = "abandoned"]
  BY <1>3, <1>4, <1>5, OthersKeep
<1>7. Stages[r] = "running"
  BY <1>1, <1>4, StatusIs DEF Stages
<1>8. generated[r] < Asked[r].output
  <2>1. generated[r] \in 1 .. maxOutput[r] - 1 /\ maxOutput[r] \in Nat
    BY <1>1, <1>2, <1>3 DEF OutputInv, OutputExact, TypeInv, TypeOK, LoadOK
  <2>2. QED BY <2>1 DEF Asked
<1>9. Serving!Emit(r)
  BY <1>3, <1>6, <1>7, <1>8 DEF Serving!Emit, Stages, Asked
<1>10. QED BY <1>9 DEF Serving!SNext

LEMMA ServeComplete == \A c \in Chain : BooksInv /\ BooksInv' /\ Complete(c) => Serving!SNext
<1> SUFFICES ASSUME BooksInv, BooksInv', NEW c \in Chain, Complete(c) PROVE Serving!SNext
  OBVIOUS
<1>1. TypeInv /\ OnceInv /\ TypeInv' /\ OnceInv' /\ OutputInv
  BY DEF BooksInv
<1>2. PICK r \in Request : r = job[c]
  BY <1>1, EndsMoves
<1>3. /\ ~stopped /\ finished' = finished \cup {r} /\ pc[c] = "decode"
      /\ generated' = [generated EXCEPT ![r] = generated[r] + 1]
      /\ UNCHANGED <<stopped, arrived, prompt, maxOutput, rejected>>
  BY <1>2 DEF Complete, Finish, loadVars
<1>4. r \in Held /\ Waiting' = Waiting /\ Held' = Held \ {r} /\ Handed' = Handed
  BY <1>1, <1>2, EndsMoves
<1>5. StatusOf(r)' = "done"
  BY <1>1, <1>3, StatusIsNext
<1>6. Stages' = [Stages EXCEPT ![r] = "done"]
  BY <1>3, <1>4, <1>5, OthersKeep
<1>7. Stages[r] = "running"
  BY <1>1, <1>4, StatusIs DEF Stages
<1>8. generated[r] < Asked[r].output /\ generated'[r] = Asked'[r].output
  <2>1. generated[r] \in 1 .. maxOutput[r] - 1 /\ maxOutput[r] \in Nat
    BY <1>1, <1>2, <1>3 DEF OutputInv, OutputExact, TypeInv, TypeOK, LoadOK
  <2>2. generated'[r] = maxOutput[r]
    BY <1>1, <1>2, <1>3, LastToken
  <2>3. QED BY <1>3, <2>1, <2>2 DEF Asked
<1>9. Serving!Emit(r)
  BY <1>3, <1>6, <1>7, <1>8 DEF Serving!Emit, Stages, Asked
<1>10. QED BY <1>9 DEF Serving!SNext

LEMMA ServeDecodeToken == \A c \in Chain :
  BooksInv /\ BooksInv' /\ DecodeToken(c) => Serving!SNext
<1> SUFFICES ASSUME BooksInv, BooksInv', NEW c \in Chain, DecodeToken(c) PROVE Serving!SNext
  OBVIOUS
<1>1. TypeInv /\ OnceInv /\ OutputInv
  BY DEF BooksInv
<1>2. pc[c] = "decode"
  BY DEF DecodeToken
<1>3. PICK r \in Request : r = job[c]
  BY <1>1, <1>2, JobOfChain
<1>4. /\ generated' = [generated EXCEPT ![r] = generated[r] + 1]
      /\ UNCHANGED <<stopped, arrived, prompt, maxOutput, queue, decodeQueue, job, finished, rejected>>
  BY <1>3 DEF DecodeToken, loadVars, fateVars
<1>5. Stages' = Stages
  BY <1>4, StagesSame
<1>6. Stages[r] = "running"
  <2>1. r \in Held
    BY <1>1, <1>2, <1>3, JobOfChain DEF Held
  <2>2. QED BY <1>1, <2>1, StatusIs DEF Stages
<1>7. generated[r] < Asked[r].output
  <2>1. generated[r] \in 1 .. maxOutput[r] - 1 /\ maxOutput[r] \in Nat
    BY <1>1, <1>2, <1>3 DEF OutputInv, OutputExact, TypeInv, TypeOK, LoadOK
  <2>2. QED BY <2>1 DEF Asked
<1>8. Serving!Emit(r)
  BY <1>4, <1>5, <1>6, <1>7 DEF Serving!Emit, Stages, Asked
<1>9. QED BY <1>8 DEF Serving!SNext

LEMMA ServeStop ==
  Stop \/ StopAtHorizon \/ StopAtQuiescence => Serving!SNext
<1> SUFFICES ASSUME Stop \/ StopAtHorizon \/ StopAtQuiescence PROVE Serving!SNext
  OBVIOUS
<1>1. /\ stopped' = TRUE
      /\ UNCHANGED <<arrived, prompt, maxOutput, generated, queue, decodeQueue, job, finished, rejected>>
  BY DEF Stop, StopAtHorizon, StopAtQuiescence, loadVars, workVars, fateVars
<1>2. Stages' = Stages
  BY <1>1, StagesSame
<1>3. Serving!Close
  BY <1>1, <1>2 DEF Serving!Close, Stages
<1>4. QED BY <1>3 DEF Serving!SNext

LEMMA ServeStill ==
  ASSUME Still, \A c \in Chain : ~DecodeToken(c), ~Stop, ~StopAtHorizon, ~StopAtQuiescence
  PROVE  UNCHANGED Serving!svars
<1>1. UNCHANGED <<arrived, queue, decodeQueue, job, finished, rejected>>
  BY StillPlaces
<1>2. UNCHANGED <<stopped, prompt, maxOutput, generated>>
  BY DEF Still, Start, Exit, Retire, PrefillDone, ResizeToPrefill, ResizeToDecode,
         DrainDone, vars, loadVars, workVars
<1>3. QED BY <1>1, <1>2, StagesSame, ServingSame

LEMMA ServeStep == BooksInv /\ BooksInv' /\ [Next]_vars => [Serving!SNext]_(Serving!svars)
<1> SUFFICES ASSUME BooksInv, BooksInv', [Next]_vars PROVE [Serving!SNext]_(Serving!svars)
  OBVIOUS
<1>1. CASE Stop \/ StopAtHorizon \/ StopAtQuiescence
  BY <1>1, ServeStop
<1>2. CASE \E c \in Chain : DecodeToken(c)
  BY <1>2, ServeDecodeToken
<1>3. CASE Still
  BY <1>1, <1>2, <1>3, ServeStill
<1>4. CASE Arrive
  BY <1>4, ServeArrive
<1>5. ASSUME NEW c \in Chain,
             \/ Admit(c) \/ Reject(c) \/ HandOff(c)
             \/ TakeHandoff(c) \/ Abandon(c) \/ Complete(c)
      PROVE  [Serving!SNext]_(Serving!svars)
  BY <1>5, ServeAdmit, ServeReject, ServeHandOff, ServeTakeHandoff, ServeAbandon, ServeComplete
<1>6. QED BY <1>3, <1>4, <1>5, NextSplit

LEMMA ServeInit == Init => Serving!SInit
<1> SUFFICES ASSUME Init PROVE Serving!SInit
  OBVIOUS
<1>1. arrived = 0 /\ \A r \in Request : r > arrived
  BY BoundAssumption DEF Init, Request
<1>2. \A r \in Request : StatusOf(r) = "unborn"
  BY <1>1, TypeInit, OnceInit, StatusIs
<1>3. QED BY <1>2 DEF Init, Serving!SInit

\* Whatever happens in its pools, queues and drains, the disaggregated engine keeps
\* the serving promise: admission in order of arrival, refusal only for want of
\* blocks, exactly the tokens asked for, and nothing given up unless stopped.
THEOREM DisaggImplementsServing == Spec => ImplementsServing
<1>1. Spec => []BooksInv
  BY BooksInit, BooksStep, PTL DEF Spec
<1>2. QED BY <1>1, ServeInit, ServeStep, PTL DEF Spec, ImplementsServing, Serving!SSpec
=============================================================================
