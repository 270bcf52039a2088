-------------------------- MODULE ColocatedProofs --------------------------
(***************************************************************************)
(* Proofs about the colocated engine, for every number of GPUs, requests   *)
(* and blocks, any chunk size, any stop, and both clocks:                  *)
(*                                                                         *)
(*   - the types, and which workers hold a request (TypeInv);              *)
(*   - each request is in one place (OnceInv);                             *)
(*   - chunks and tokens add up (TokensInv);                               *)
(*   - the admission count, the pool and the registry keep their books;    *)
(*   - on the simulated clock the engine implements the promise of         *)
(*     ServingSpec.                                                        *)
(***************************************************************************)
EXTENDS Colocated, Bookkeeping

Pinned    == {"pinned", "prefill", "stalled", "decode"}
InService == {"gap", "pinned", "prefill", "stalled", "decode"}
Holding   == InService \cup {"popped"}
Points    == Holding \cup Inside \cup Ended \cup {"workerStep"}

LoadOK ==
  /\ started \in BOOLEAN /\ stopped \in BOOLEAN /\ arrivalsDone \in BOOLEAN
  /\ arrived \in 0 .. MaxRequests
  /\ asked \in [Request -> [prompt : Nat, output : Nat]]
  /\ queue \in Seq(Request)
WorkOK ==
  /\ generated \in [Request -> Nat]
  /\ state \in [Worker -> {"healthy", "busy"}]
  /\ pc \in [Worker -> Points]
  /\ job \in [Worker -> Request \cup {NoRequest}]
  /\ remaining \in [Worker -> Nat]
FateOK ==
  /\ inflight \in Int
  /\ kvBlocks \subseteq Request \X Nat
  /\ finished \subseteq Request /\ rejected \subseteq Request /\ abandoned \subseteq Request
  /\ robbed \subseteq Request
  /\ reg \in [Counter -> Int]
TypeOK == LoadOK /\ WorkOK /\ FateOK

\* A worker has a request in hand exactly while it popped or serves one.
JobMatchesPC == \A w \in Worker : job[w] # NoRequest <=> pc[w] \in Holding

ArrivalsBounded    == started /\ ~arrivalsDone => arrived < MaxRequests
NothingBeforeStart == ~started => arrived = 0 /\ \A w \in Worker : pc[w] = "unborn"

TypeInv == TypeOK /\ JobMatchesPC /\ ArrivalsBounded /\ NothingBeforeStart

LEMMA RequestFacts == \A r \in Request : r \in Nat /\ r # NoRequest
BY BoundAssumption DEF Request, NoRequest

LEMMA BlocksNat == \A t \in Nat : BlocksNeeded(t) \in Nat
BY KVAssumption DEF BlocksNeeded

\* What a chunk leaves is never less than nothing.
LEMMA ChunkFits == \A n \in Nat : n - Chunk(n) \in Nat
BY LoadAssumption DEF Chunk

-----------------------------------------------------------------------------
(* Type correctness *)

LEMMA TypeInit == Init => TypeInv
<1> SUFFICES ASSUME Init PROVE TypeInv
  OBVIOUS
<1>1. LoadOK
  <2>1. [prompt |-> 0, output |-> 0] \in [prompt : Nat, output : Nat]
    OBVIOUS
  <2>2. asked \in [Request -> [prompt : Nat, output : Nat]]
    BY <2>1 DEF Init
  <2>3. queue \in Seq(Request) /\ 0 \in 0 .. MaxRequests
    BY BoundAssumption DEF Init
  <2>4. QED BY <2>2, <2>3 DEF Init, LoadOK
<1>2. WorkOK
  BY DEF Init, WorkOK, Points, Ended
<1>3. FateOK
  BY DEF Init, FateOK
<1>4. JobMatchesPC /\ ArrivalsBounded /\ NothingBeforeStart
  BY DEF Init, JobMatchesPC, Holding, InService, ArrivalsBounded, NothingBeforeStart
<1>5. QED BY <1>1, <1>2, <1>3, <1>4 DEF TypeInv, TypeOK

LEMMA TypeSame ==
  ASSUME TypeInv, UNCHANGED <<arrivalsDone, arrived, asked, queue, generated, workVars,
                              inflight, fateVars, started>>, stopped' \in BOOLEAN
  PROVE  TypeInv'
<1>1. LoadOK' /\ WorkOK' /\ FateOK'
  BY DEF TypeInv, TypeOK, LoadOK, WorkOK, FateOK, workVars, fateVars
<1>2. JobMatchesPC' /\ ArrivalsBounded' /\ NothingBeforeStart'
  BY DEF TypeInv, JobMatchesPC, ArrivalsBounded, NothingBeforeStart, workVars
<1>3. QED BY <1>1, <1>2 DEF TypeInv, TypeOK

\* Arrivals end at the bound.
LEMMA ArrivalChainEnds ==
  ASSUME NEW n \in 0 .. MaxRequests, ArrivalChain(n)
  PROVE  arrivalsDone' \in BOOLEAN /\ (~arrivalsDone' => n < MaxRequests)
<1>1. CASE n = MaxRequests
  BY <1>1 DEF ArrivalChain
<1>2. CASE n # MaxRequests
  BY <1>2, BoundAssumption DEF ArrivalChain
<1>3. QED BY <1>1, <1>2

LEMMA TypeStart == TypeInv /\ Start => TypeInv'
<1> SUFFICES ASSUME TypeInv, Start PROVE TypeInv'
  OBVIOUS
<1>1. /\ ~started /\ started' = TRUE /\ pc' = [w \in Worker |-> "workerStep"]
      /\ state' = [w \in Worker |-> "healthy"]
      /\ UNCHANGED <<stopped, arrived, asked, generated, queue, job, remaining, inflight,
                     kvBlocks, robbed, finished, rejected, abandoned, reg>>
  BY DEF Start, fateVars
<1>2. arrivalsDone' \in BOOLEAN
  BY BoundAssumption DEF Start, ArrivalChain
<1>3. arrived \in 0 .. MaxRequests /\ MaxRequests \in Nat
  BY BoundAssumption DEF TypeInv, TypeOK, LoadOK
<1>4. LoadOK' /\ FateOK'
  BY <1>1, <1>2 DEF TypeInv, TypeOK, LoadOK, FateOK
<1>5. WorkOK'
  BY <1>1 DEF TypeInv, TypeOK, WorkOK, Points
<1>6. JobMatchesPC'
  BY <1>1 DEF TypeInv, JobMatchesPC, NothingBeforeStart, Holding, InService
<1>7. ArrivalsBounded' /\ NothingBeforeStart'
  <2>1. ~arrivalsDone' => MaxRequests # 0
    BY DEF Start, ArrivalChain
  <2>2. arrived = 0
    BY <1>1 DEF TypeInv, NothingBeforeStart
  <2>3. QED BY <1>1, <1>3, <2>1, <2>2 DEF ArrivalsBounded, NothingBeforeStart
<1>8. QED BY <1>4, <1>5, <1>6, <1>7 DEF TypeInv, TypeOK

LEMMA TypeArrive == TypeInv /\ Arrive => TypeInv'
<1> SUFFICES ASSUME TypeInv, Arrive PROVE TypeInv'
  OBVIOUS
<1>1. UNCHANGED <<started, stopped, generated, state, pc, job, remaining, inflight,
                  kvBlocks, robbed, finished, rejected, abandoned, reg>>
  BY DEF Arrive, workVars, fateVars
<1>2. WorkOK' /\ FateOK' /\ JobMatchesPC'
  BY <1>1 DEF TypeInv, TypeOK, WorkOK, FateOK, JobMatchesPC
<1>3. started /\ NothingBeforeStart'
  BY <1>1 DEF Arrive, NothingBeforeStart, TypeInv
<1>4. CASE stopped
  <2>1. arrivalsDone' = TRUE /\ UNCHANGED <<arrived, asked, queue>>
    BY <1>4 DEF Arrive
  <2>2. LoadOK' /\ ArrivalsBounded'
    BY <1>1, <2>1 DEF TypeInv, TypeOK, LoadOK, ArrivalsBounded
  <2>3. QED BY <1>2, <1>3, <2>2 DEF TypeInv, TypeOK
<1>5. CASE ~stopped
  <2>1. /\ arrived' = arrived + 1 /\ queue' = Append(queue, arrived')
        /\ ArrivalChain(arrived')
    BY <1>5 DEF Arrive
  <2>2. arrived \in 0 .. MaxRequests /\ arrived < MaxRequests /\ MaxRequests \in Nat
    BY <1>3, BoundAssumption DEF Arrive, TypeInv, TypeOK, LoadOK, ArrivalsBounded
  <2>3. arrived' \in Request /\ arrived' \in 0 .. MaxRequests
    BY <2>1, <2>2 DEF Request
  <2>4. PICK p \in PromptTokens, o \in OutputTokens :
          asked' = [asked EXCEPT ![arrived'] = [prompt |-> p, output |-> o]]
    BY <1>5 DEF Arrive
  <2>5. [prompt |-> p, output |-> o] \in [prompt : Nat, output : Nat]
    BY LoadAssumption
  <2>6. asked' \in [Request -> [prompt : Nat, output : Nat]]
    BY <2>3, <2>4, <2>5 DEF TypeInv, TypeOK, LoadOK
  <2>7. queue' \in Seq(Request)
    BY <2>1, <2>3, PushTypes DEF TypeInv, TypeOK, LoadOK
  <2>8. arrivalsDone' \in BOOLEAN /\ (~arrivalsDone' => arrived' < MaxRequests)
    BY <2>1, <2>3, ArrivalChainEnds
  <2>9. LoadOK' /\ ArrivalsBounded'
    BY <1>1, <2>3, <2>6, <2>7, <2>8 DEF TypeInv, TypeOK, LoadOK, ArrivalsBounded
  <2>10. QED BY <1>2, <1>3, <2>9 DEF TypeInv, TypeOK
<1>6. QED BY <1>4, <1>5

\* One worker's chain moves on, with or without a request.
Moves(w, p, j) == /\ pc' = [pc EXCEPT ![w] = p] /\ job' = [job EXCEPT ![w] = j]
                  /\ UNCHANGED <<started, stopped, arrivalsDone, arrived, asked>>

LEMMA TypeMoves ==
  ASSUME TypeInv, NEW w \in Worker, pc[w] # "unborn", NEW p \in Points \ {"unborn"},
         NEW j \in Request \cup {NoRequest}, j # NoRequest <=> p \in Holding, Moves(w, p, j),
         queue' \in Seq(Request), generated' \in [Request -> Nat],
         state' \in [Worker -> {"healthy", "busy"}], remaining' \in [Worker -> Nat], FateOK'
  PROVE  TypeInv'
<1>1. /\ pc \in [Worker -> Points] /\ job \in [Worker -> Request \cup {NoRequest}]
      /\ pc' \in [Worker -> Points] /\ job' \in [Worker -> Request \cup {NoRequest}]
      /\ pc'[w] = p /\ job'[w] = j
      /\ \A v \in Worker \ {w} : pc'[v] = pc[v] /\ job'[v] = job[v]
  BY DEF TypeInv, TypeOK, WorkOK, Moves
<1>2. started /\ started'
  BY DEF TypeInv, NothingBeforeStart, Moves
<1>3. LoadOK' /\ WorkOK' /\ ArrivalsBounded' /\ NothingBeforeStart'
  BY <1>1, <1>2 DEF TypeInv, TypeOK, LoadOK, WorkOK, ArrivalsBounded, NothingBeforeStart, Moves
<1>4. JobMatchesPC'
  <2>1. \A v \in Worker : job[v] # NoRequest <=> pc[v] \in Holding
    BY DEF TypeInv, JobMatchesPC
  <2>2. \A v \in Worker : job'[v] # NoRequest <=> pc'[v] \in Holding
    BY <1>1, <2>1
  <2>3. QED BY <2>2 DEF JobMatchesPC
<1>5. QED BY <1>3, <1>4 DEF TypeInv, TypeOK

\* A worker that holds a request, and one that holds none.
LEMMA JobOf ==
  ASSUME TypeInv, NEW w \in Worker
  PROVE  /\ pc[w] \in Holding => job[w] \in Request /\ job[w] # NoRequest
         /\ pc[w] \notin Holding => job[w] = NoRequest
         /\ job[w] \in Request \cup {NoRequest} /\ pc[w] \in Points
  BY DEF TypeInv, TypeOK, WorkOK, JobMatchesPC

\* A step of a worker that has no request, or keeps the one it has.
LEMMA TypeIdle == \A w \in Worker :
  TypeInv /\ (Exit(w) \/ Miss(w) \/ RetireOrPoll(w) \/ StallOver(w)) => TypeInv'
<1> SUFFICES ASSUME TypeInv, NEW w \in Worker,
                    Exit(w) \/ Miss(w) \/ RetireOrPoll(w) \/ StallOver(w)
             PROVE  TypeInv'
  OBVIOUS
<1>1. /\ UNCHANGED <<started, stopped, arrivalsDone, arrived, asked, queue, generated, state, job,
                     remaining, inflight, kvBlocks, robbed, finished, rejected, abandoned, reg>>
      /\ pc[w] \in {"workerStep", "missed", "stalled"}
      /\ \E p \in {"exited", "missed", "retired", "workerStep", "decode"} :
           pc' = [pc EXCEPT ![w] = p] /\ (p = "decode" <=> pc[w] = "stalled")
  BY DEF Exit, Miss, RetireOrPoll, StallOver, loadVars, fateVars
<1>2. PICK p \in {"exited", "missed", "retired", "workerStep", "decode"} :
           pc' = [pc EXCEPT ![w] = p] /\ (p = "decode" <=> pc[w] = "stalled")
  BY <1>1
<1>3. job' = [job EXCEPT ![w] = job[w]]
  BY <1>1 DEF TypeInv, TypeOK, WorkOK
<1>4. /\ p \in Points \ {"unborn"} /\ pc[w] # "unborn"
      /\ job[w] # NoRequest <=> p \in Holding
  BY <1>1, <1>2, JobOf DEF Points, Holding, InService, Inside, Ended
<1>5. /\ queue' \in Seq(Request) /\ generated' \in [Request -> Nat]
      /\ state' \in [Worker -> {"healthy", "busy"}] /\ remaining' \in [Worker -> Nat] /\ FateOK'
  BY <1>1 DEF TypeInv, TypeOK, LoadOK, WorkOK, FateOK
<1>6. Moves(w, p, job[w]) /\ job[w] \in Request \cup {NoRequest}
  BY <1>1, <1>2, <1>3, JobOf DEF Moves
<1>7. QED BY <1>4, <1>5, <1>6, TypeMoves

LEMMA TypePop == \A w \in Worker : TypeInv /\ Pop(w) => TypeInv'
<1> SUFFICES ASSUME TypeInv, NEW w \in Worker, Pop(w) PROVE TypeInv'
  OBVIOUS
<1>1. /\ pc[w] = "workerStep" /\ queue # <<>> /\ queue' = Tail(queue)
      /\ state' = [state EXCEPT ![w] = "busy"]
      /\ UNCHANGED <<generated, remaining, inflight, kvBlocks, robbed, finished, rejected,
                     abandoned, reg>>
  BY DEF Pop, fateVars
<1>2. Head(queue) \in Request /\ queue' \in Seq(Request)
  BY <1>1, PopTypes DEF TypeInv, TypeOK, LoadOK
<1>3. Moves(w, "popped", Head(queue))
  BY DEF Pop, Moves, loadVars
<1>4. /\ generated' \in [Request -> Nat] /\ state' \in [Worker -> {"healthy", "busy"}]
      /\ remaining' \in [Worker -> Nat] /\ FateOK'
  BY <1>1 DEF TypeInv, TypeOK, WorkOK, FateOK
<1>5. Head(queue) # NoRequest /\ "popped" \in Holding /\ "popped" \in Points \ {"unborn"}
  BY <1>2, RequestFacts DEF Holding, Points
<1> HIDE DEF Moves
<1>6. QED BY <1>1, <1>2, <1>3, <1>4, <1>5, TypeMoves

\* What Allocate has evicted before it granted or failed.
LEMMA SweepTypes ==
  ASSUME TypeInv, NEW victims \in SUBSET Unpinned, NEW r, Swept(r, victims)
  PROVE  /\ robbed' \subseteq Request /\ victims \subseteq InGap
         /\ HeldWithout(victims) \subseteq kvBlocks /\ kvBlocks \subseteq Request \X Nat
<1>1. \A w \in Worker : pc[w] = "gap" => job[w] \in Request
  BY JobOf DEF Holding, InService
<1>2. InGap \subseteq Request
  BY <1>1 DEF InGap
<1>3. QED BY <1>2 DEF Swept, Unpinned, HeldWithout, TypeInv, TypeOK, FateOK

LEMMA TypeReject == \A w \in Worker : TypeInv /\ Reject(w) => TypeInv'
<1> SUFFICES ASSUME TypeInv, NEW w \in Worker, Reject(w) PROVE TypeInv'
  OBVIOUS
<1>1. /\ pc[w] = "popped" /\ rejected' = rejected \cup {job[w]}
      /\ state' = [state EXCEPT ![w] = "healthy"]
      /\ reg' = [reg EXCEPT !["rejections"] = reg["rejections"] + 1,
                            !["dropped"] = reg["dropped"] + 1]
      /\ UNCHANGED <<queue, generated, remaining, inflight, finished, abandoned>>
  BY DEF Reject, fateVars
<1>2. job[w] \in Request
  BY <1>1, JobOf DEF Holding
<1>3. Moves(w, "workerStep", NoRequest)
  BY DEF Reject, Moves, loadVars
<1>4. /\ queue' \in Seq(Request) /\ generated' \in [Request -> Nat]
      /\ state' \in [Worker -> {"healthy", "busy"}] /\ remaining' \in [Worker -> Nat] /\ FateOK'
  <2>1. reg' \in [Counter -> Int]
    BY <1>1 DEF TypeInv, TypeOK, FateOK, Counter
  <2>2. robbed' \subseteq Request /\ kvBlocks' \subseteq Request \X Nat
    <3>1. PICK victims \in SUBSET Unpinned :
            Swept(job[w], victims) /\ kvBlocks' = HeldWithout(victims)
      BY DEF Reject
    <3>2. QED BY <3>1, SweepTypes
  <2>3. FateOK'
    BY <1>1, <1>2, <2>1, <2>2 DEF TypeInv, TypeOK, FateOK
  <2>4. QED BY <1>1, <2>3 DEF TypeInv, TypeOK, LoadOK, WorkOK
<1>5. "workerStep" \notin Holding /\ "workerStep" \in Points \ {"unborn"}
  BY DEF Holding, InService, Points
<1>6. QED BY <1>1, <1>3, <1>4, <1>5, TypeMoves

LEMMA TypeAdmit == \A w \in Worker : TypeInv /\ Admit(w) => TypeInv'
<1> SUFFICES ASSUME TypeInv, NEW w \in Worker, Admit(w) PROVE TypeInv'
  OBVIOUS
<1>1. /\ pc[w] = "popped" /\ inflight' = inflight + 1 /\ pc' = [pc EXCEPT ![w] = "gap"]
      /\ UNCHANGED <<started, stopped, loadVars, queue, generated, state, job, remaining,
                     finished, rejected, abandoned, reg>>
  BY DEF Admit
<1>2. job[w] \in Request /\ job[w] # NoRequest /\ asked[job[w]].prompt \in Nat
  BY <1>1, JobOf DEF Holding, TypeInv, TypeOK, LoadOK
<1>3. PICK victims \in SUBSET Unpinned :
        /\ Swept(job[w], victims)
        /\ kvBlocks' = HeldWithout(victims) \cup BlocksFor(job[w])
  BY DEF Admit
<1>4. robbed' \subseteq Request /\ HeldWithout(victims) \subseteq Request \X Nat
  BY <1>3, SweepTypes
<1>5. kvBlocks' \subseteq Request \X Nat
  <2> DEFINE n == BlocksNeeded(asked[job[w]].prompt)
  <2>1. n \in Nat
    BY <1>2, BlocksNat
  <2>2. kvBlocks' = HeldWithout(victims) \cup ({job[w]} \X (0 .. n - 1))
    BY <1>3 DEF BlocksFor
  <2> HIDE DEF n
  <2>3. 0 .. n - 1 \subseteq Nat
    BY <2>1
  <2>4. QED BY <1>2, <1>4, <2>2, <2>3
<1>6. FateOK'
  BY <1>1, <1>4, <1>5 DEF TypeInv, TypeOK, FateOK
<1>7. Moves(w, "gap", job[w])
  BY <1>1 DEF Moves, loadVars, TypeInv, TypeOK, WorkOK
<1>8. "gap" \in Holding /\ "gap" \in Points \ {"unborn"} /\ pc[w] # "unborn"
  BY <1>1 DEF Holding, InService, Points
<1>9. /\ queue' \in Seq(Request) /\ generated' \in [Request -> Nat]
      /\ state' \in [Worker -> {"healthy", "busy"}] /\ remaining' \in [Worker -> Nat]
  BY <1>1 DEF TypeInv, TypeOK, LoadOK, WorkOK
<1>10. QED BY <1>2, <1>6, <1>7, <1>8, <1>9, TypeMoves

LEMMA TypeAcquire == \A w \in Worker : TypeInv /\ Acquire(w) => TypeInv'
<1> SUFFICES ASSUME TypeInv, NEW w \in Worker, Acquire(w) PROVE TypeInv'
  OBVIOUS
<1>1. /\ pc[w] = "gap" /\ pc' = [pc EXCEPT ![w] = "pinned"]
      /\ reg' = [reg EXCEPT !["prefillTokens"] = reg["prefillTokens"] + asked[job[w]].prompt]
      /\ remaining' = [remaining EXCEPT ![w] = asked[job[w]].prompt]
      /\ UNCHANGED <<started, stopped, loadVars, queue, generated, state, job, inflight,
                     kvBlocks, robbed, finished, rejected, abandoned>>
  BY DEF Acquire
<1>2. job[w] \in Request /\ job[w] # NoRequest /\ asked[job[w]].prompt \in Nat
  BY <1>1, JobOf DEF Holding, InService, TypeInv, TypeOK, LoadOK
<1>3. reg' \in [Counter -> Int]
  BY <1>1, <1>2 DEF TypeInv, TypeOK, FateOK, Counter
<1>4. FateOK'
  BY <1>1, <1>3 DEF TypeInv, TypeOK, FateOK
<1>5. Moves(w, "pinned", job[w])
  BY <1>1 DEF Moves, loadVars, TypeInv, TypeOK, WorkOK
<1>6. "pinned" \in Holding /\ "pinned" \in Points \ {"unborn"} /\ pc[w] # "unborn"
  BY <1>1 DEF Holding, InService, Points
<1>7. /\ queue' \in Seq(Request) /\ generated' \in [Request -> Nat]
      /\ state' \in [Worker -> {"healthy", "busy"}] /\ remaining' \in [Worker -> Nat]
  BY <1>1, <1>2 DEF TypeInv, TypeOK, LoadOK, WorkOK
<1>8. QED BY <1>2, <1>4, <1>5, <1>6, <1>7, TypeMoves

\* How a request ends: its worker is free again, or its chain is over.
LEMMA TypeGiveUp ==
  ASSUME TypeInv, NEW w \in Worker, pc[w] \in InService, GiveUp(w),
         UNCHANGED <<started, stopped, loadVars, queue, rejected, robbed>>,
         generated' \in [Request -> Nat], remaining' \in [Worker -> Nat]
  PROVE  TypeInv' /\ Moves(w, "aborted", NoRequest)
<1>1. Moves(w, "aborted", NoRequest)
  BY DEF GiveUp, Moves, loadVars
<1>2. job[w] \in Request
  BY JobOf DEF Holding
<1>3. queue' \in Seq(Request) /\ state' \in [Worker -> {"healthy", "busy"}] /\ FateOK'
  BY <1>2 DEF GiveUp, TypeInv, TypeOK, LoadOK, WorkOK, FateOK
<1>4. "aborted" \notin Holding /\ "aborted" \in Points \ {"unborn"} /\ pc[w] # "unborn"
  BY DEF Holding, InService, Points, Ended
<1>5. QED BY <1>1, <1>3, <1>4, TypeMoves

LEMMA TypeFinish ==
  ASSUME TypeInv, NEW w \in Worker, pc[w] \in InService, Finish(w),
         UNCHANGED <<started, stopped, loadVars, queue, rejected, robbed>>,
         generated' \in [Request -> Nat], remaining' \in [Worker -> Nat]
  PROVE  TypeInv' /\ Moves(w, "workerStep", NoRequest)
<1>1. Moves(w, "workerStep", NoRequest)
  BY DEF Finish, Moves, loadVars
<1>2. job[w] \in Request
  BY JobOf DEF Holding
<1>3. generated'[job[w]] \in Int
  BY <1>2
<1>4. queue' \in Seq(Request) /\ state' \in [Worker -> {"healthy", "busy"}]
  BY DEF Finish, TypeInv, TypeOK, LoadOK, WorkOK
<1>5. reg' \in [Counter -> Int]
  BY <1>3 DEF Finish, TypeInv, TypeOK, FateOK, Counter
<1>6. FateOK'
  BY <1>2, <1>5 DEF Finish, TypeInv, TypeOK, FateOK
<1>7. "workerStep" \notin Holding /\ "workerStep" \in Points \ {"unborn"} /\ pc[w] # "unborn"
  BY DEF Holding, InService, Points
<1>8. QED BY <1>1, <1>4, <1>6, <1>7, TypeMoves

LEMMA TypeSchedule ==
  ASSUME TypeInv, NEW w \in Worker, pc[w] \in InService, ScheduleDecode(w),
         UNCHANGED <<started, stopped, loadVars, queue, rejected, robbed>>,
         generated' \in [Request -> Nat], remaining' \in [Worker -> Nat]
  PROVE  TypeInv' /\ \E p \in {"stalled", "decode"} : Moves(w, p, job[w])
<1>1. PICK p \in {"stalled", "decode"} : pc' = [pc EXCEPT ![w] = p]
  BY DEF ScheduleDecode
<1>2. job' = [job EXCEPT ![w] = job[w]]
  BY DEF ScheduleDecode, TypeInv, TypeOK, WorkOK
<1>3. Moves(w, p, job[w])
  BY <1>1, <1>2 DEF Moves, loadVars
<1>4. job[w] \in Request /\ job[w] # NoRequest
  BY JobOf DEF Holding
<1>5. queue' \in Seq(Request) /\ state' \in [Worker -> {"healthy", "busy"}] /\ FateOK'
  BY DEF ScheduleDecode, TypeInv, TypeOK, LoadOK, WorkOK, FateOK
<1>6. p \in Holding /\ p \in Points \ {"unborn"} /\ pc[w] # "unborn"
  BY <1>1 DEF Holding, InService, Points
<1>7. QED BY <1>3, <1>4, <1>5, <1>6, TypeMoves

\* A worker with tokens still to prefill.
LEMMA LeftNat ==
  ASSUME TypeInv, NEW w \in Worker, remaining' = [remaining EXCEPT ![w] = @ - Chunk(@)]
  PROVE  remaining' \in [Worker -> Nat] /\ remaining'[w] = remaining[w] - Chunk(remaining[w])
<1>1. remaining \in [Worker -> Nat]
  BY DEF TypeInv, TypeOK, WorkOK
<1>2. remaining[w] - Chunk(remaining[w]) \in Nat
  BY <1>1, ChunkFits
<1>3. QED BY <1>1, <1>2

LEMMA TypePrefillChunk == \A w \in Worker : TypeInv /\ PrefillChunk(w) => TypeInv'
<1> SUFFICES ASSUME TypeInv, NEW w \in Worker, PrefillChunk(w) PROVE TypeInv'
  OBVIOUS
<1>1. /\ pc[w] = "prefill" /\ remaining' = [remaining EXCEPT ![w] = @ - Chunk(@)]
      /\ UNCHANGED <<started, stopped, loadVars, queue, generated, rejected, robbed>>
  BY DEF PrefillChunk
<1>2. generated' \in [Request -> Nat] /\ remaining' \in [Worker -> Nat] /\ pc[w] \in InService
  BY <1>1, LeftNat DEF TypeInv, TypeOK, WorkOK, InService
<1>3. CASE stopped
  BY <1>1, <1>2, <1>3, TypeGiveUp DEF PrefillChunk
<1>4. CASE ~stopped
  <2>1. UNCHANGED <<state, pc, job, inflight, kvBlocks, finished, abandoned, reg>>
    BY <1>4 DEF PrefillChunk
  <2>2. LoadOK' /\ WorkOK' /\ FateOK'
    BY <1>1, <1>2, <2>1 DEF TypeInv, TypeOK, LoadOK, WorkOK, FateOK, loadVars
  <2>3. JobMatchesPC' /\ ArrivalsBounded' /\ NothingBeforeStart'
    BY <1>1, <2>1 DEF TypeInv, JobMatchesPC, ArrivalsBounded, NothingBeforeStart, loadVars
  <2>4. QED BY <2>2, <2>3 DEF TypeInv, TypeOK
<1>5. QED BY <1>3, <1>4

\* The first prefillStep: the request is given up or its first chunk is scheduled.
LEMMA FirstChunkDoes ==
  ASSUME TypeInv, NEW w \in Worker, FirstChunk(w)
  PROVE  /\ pc[w] = "pinned"
         /\ UNCHANGED <<started, stopped, loadVars, queue, generated, remaining, rejected, robbed>>
         /\ \/ GiveUp(w)
            \/ Moves(w, "prefill", job[w]) /\ job' = job
                 /\ UNCHANGED <<state, inflight, kvBlocks, finished, abandoned, reg>>
BY DEF FirstChunk, Moves, loadVars, TypeInv, TypeOK, WorkOK

LEMMA TypeFirstChunk == \A w \in Worker : TypeInv /\ FirstChunk(w) => TypeInv'
<1> SUFFICES ASSUME TypeInv, NEW w \in Worker, FirstChunk(w) PROVE TypeInv'
  OBVIOUS
<1>1. /\ pc[w] = "pinned"
      /\ UNCHANGED <<started, stopped, loadVars, queue, generated, remaining, rejected, robbed>>
  BY FirstChunkDoes
<1>2. generated' \in [Request -> Nat] /\ remaining' \in [Worker -> Nat] /\ pc[w] \in InService
  BY <1>1 DEF TypeInv, TypeOK, WorkOK, InService
<1>3. CASE GiveUp(w)
  BY <1>1, <1>2, <1>3, TypeGiveUp
<1>4. CASE Moves(w, "prefill", job[w])
             /\ UNCHANGED <<state, inflight, kvBlocks, finished, abandoned, reg>>
  <2>1. job[w] \in Request /\ job[w] # NoRequest
    BY <1>2, JobOf DEF Holding
  <2>2. queue' \in Seq(Request) /\ state' \in [Worker -> {"healthy", "busy"}] /\ FateOK'
    BY <1>1, <1>4 DEF TypeInv, TypeOK, LoadOK, WorkOK, FateOK
  <2>3. "prefill" \in Holding /\ "prefill" \in Points \ {"unborn"} /\ pc[w] # "unborn"
    BY <1>1 DEF Holding, InService, Points
  <2>4. QED BY <1>2, <1>4, <2>1, <2>2, <2>3, TypeMoves
<1>5. QED BY <1>3, <1>4, FirstChunkDoes

\* The next token is counted, whatever becomes of the request.
LEMMA TokenOut ==
  ASSUME TypeInv, NEW w \in Worker, pc[w] \in InService, DecodePhase(w)
  PROVE  /\ generated' \in [Request -> Nat] /\ job[w] \in Request
         /\ generated'[job[w]] = generated[job[w]] + 1
         /\ \A r \in Request \ {job[w]} : generated'[r] = generated[r]
<1>1. generated' = [generated EXCEPT ![job[w]] = @ + 1]
  BY DEF DecodePhase
<1>2. job[w] \in Request /\ generated \in [Request -> Nat]
  BY JobOf DEF Holding, TypeInv, TypeOK, WorkOK
<1>3. QED BY <1>1, <1>2

LEMMA TypeDecodePhase ==
  ASSUME TypeInv, NEW w \in Worker, pc[w] \in InService, DecodePhase(w),
         remaining' \in [Worker -> Nat]
  PROVE  TypeInv'
<1>1. generated' \in [Request -> Nat]
  BY TokenOut
<1>2. UNCHANGED <<started, stopped, loadVars, queue, rejected, robbed>>
  BY DEF DecodePhase
<1>3. GiveUp(w) \/ Finish(w) \/ ScheduleDecode(w)
  BY DEF DecodePhase
<1>4. QED BY <1>1, <1>2, <1>3, TypeGiveUp, TypeFinish, TypeSchedule

LEMMA TypeTokens == \A w \in Worker :
  TypeInv /\ (PrefillDone(w) \/ DecodeToken(w)) => TypeInv'
<1> SUFFICES ASSUME TypeInv, NEW w \in Worker, PrefillDone(w) \/ DecodeToken(w)
             PROVE  TypeInv'
  OBVIOUS
<1>1. pc[w] \in InService /\ DecodePhase(w)
  BY DEF PrefillDone, DecodeToken, InService
<1>2. remaining' \in [Worker -> Nat]
  BY LeftNat DEF PrefillDone, DecodeToken, TypeInv, TypeOK, WorkOK
<1>3. QED BY <1>1, <1>2, TypeDecodePhase

LEMMA TypeStop == TypeInv /\ (Stop \/ StopAtQuiescence) => TypeInv'
BY TypeSame DEF Stop, StopAtQuiescence, loadVars

\* The steps of a worker, one by one.
LEMMA WorkerSplit ==
  ASSUME NEW w \in Worker, WorkerStep(w)
  PROVE  \/ Exit(w) \/ Miss(w) \/ RetireOrPoll(w) \/ StallOver(w)
         \/ Pop(w) \/ Reject(w) \/ Admit(w) \/ Acquire(w) \/ FirstChunk(w)
         \/ PrefillChunk(w) \/ PrefillDone(w) \/ DecodeToken(w)
BY DEF WorkerStep

LEMMA TypeStep == TypeInv /\ [Next]_vars => TypeInv'
<1> SUFFICES ASSUME TypeInv, [Next]_vars PROVE TypeInv'
  OBVIOUS
<1>1. CASE UNCHANGED vars
  BY <1>1, TypeSame DEF vars, loadVars, fateVars, workVars, TypeInv, TypeOK, LoadOK
<1>2. ASSUME NEW w \in Worker, WorkerStep(w) PROVE TypeInv'
  BY <1>2, WorkerSplit, TypeIdle, TypePop, TypeReject, TypeAdmit, TypeAcquire, TypeFirstChunk,
     TypePrefillChunk, TypeTokens
<1>3. QED
  BY <1>1, <1>2, TypeStart, TypeArrive, TypeStop DEF Next, Terminated

-----------------------------------------------------------------------------
(* Each request is in one place *)

(* As in the disaggregated engine every step moves one request from one place to
   another, or adds the next one to the queue.  Other callbacks may run while a
   request is in a worker's hand, popped and not yet admitted: they find it in no
   queue, and no worker takes what another holds. *)

HeldOnce == \A v, w \in Worker : job[v] = job[w] /\ job[v] # NoRequest => v = w

PlacesApart == Apart(Waiting, Popped, Running, finished, rejected, abandoned)
PlacesCover ==
  Waiting \cup Popped \cup Running \cup finished \cup rejected \cup abandoned = 1 .. arrived

\* EachRequestOnce in a form that is easier to work with: see OncePlaces.
OnceInv == InOrder(queue) /\ HeldOnce /\ PlacesApart /\ PlacesCover

LEMMA OncePlaces == EachRequestOnce <=> OnceInv
<1> DEFINE place == <<Waiting, Popped, Running, finished, rejected, abandoned>>
<1>1. /\ (\A i, j \in 1 .. 6 : i # j => place[i] \cap place[j] = {}) <=> PlacesApart
      /\ UNION {place[i] : i \in 1 .. 6}
           = Waiting \cup Popped \cup Running \cup finished \cup rejected \cup abandoned
  BY SixPlaces DEF PlacesApart
<1>2. QED
  BY <1>1 DEF EachRequestOnce, OnceInv, place, InOrder, HeldOnce, PlacesCover

\* Who has popped a request, who serves one, and who has yet to pin it.
LEMMA HandsAre ==
  ASSUME TypeInv, HeldOnce
  PROVE  /\ \A x : x \in Popped <=> \E w \in Worker : pc[w] = "popped" /\ job[w] = x
         /\ \A x : x \in InGap <=> \E w \in Worker : pc[w] = "gap" /\ job[w] = x
         /\ \A x : x \in Running <=> \E w \in Worker : pc[w] \in InService /\ job[w] = x
<1>1. \A x : x \in Popped <=> \E w \in Worker : pc[w] = "popped" /\ job[w] = x
  BY DEF Popped
<1>2. ASSUME NEW w \in Worker, pc[w] \in InService PROVE job[w] \in Running
  <2>1. job[w] # NoRequest /\ pc[w] # "popped"
    BY <1>2, JobOf DEF Holding, InService
  <2>2. job[w] \notin Popped
    BY <1>1, <2>1 DEF HeldOnce
  <2>3. QED BY <2>1, <2>2 DEF Running
<1>3. ASSUME NEW x \in Running PROVE \E w \in Worker : pc[w] \in InService /\ job[w] = x
  <2>1. PICK w \in Worker : job[w] = x /\ x # NoRequest /\ x \notin Popped
    BY DEF Running
  <2>2. pc[w] \in Holding /\ pc[w] # "popped"
    BY <1>1, <2>1, JobOf
  <2>3. QED BY <2>1, <2>2 DEF Holding
<1>4. \A x : x \in InGap <=> \E w \in Worker : pc[w] = "gap" /\ job[w] = x
  BY DEF InGap
<1>5. QED BY <1>1, <1>2, <1>3, <1>4

LEMMA RunningAre ==
  TypeInv /\ HeldOnce =>
    \A x : x \in Running <=> \E w \in Worker : pc[w] \in InService /\ job[w] = x
BY HandsAre

LEMMA RunningAreNext ==
  (TypeInv /\ HeldOnce)' =>
    (\A x : x \in Running <=> \E w \in Worker : pc[w] \in InService /\ job[w] = x)'
BY RunningAre, PTL

\* One worker moves on.
LEMMA MovesAt ==
  ASSUME TypeInv, NEW w \in Worker, NEW p, NEW j, Moves(w, p, j)
  PROVE  /\ pc'[w] = p /\ job'[w] = j
         /\ \A v \in Worker \ {w} : pc'[v] = pc[v] /\ job'[v] = job[v]
         /\ arrived' = arrived
BY DEF TypeInv, TypeOK, WorkOK, Moves

\* It takes a request nobody has.
LEMMA HandsTake ==
  ASSUME TypeInv, TypeInv', HeldOnce, NEW w \in Worker, pc[w] \notin Holding,
         NEW r \in Request, r \notin Popped \cup Running, Moves(w, "popped", r)
  PROVE  Popped' = Popped \cup {r} /\ Running' = Running /\ InGap' = InGap /\ HeldOnce'
<1>1. /\ pc'[w] = "popped" /\ job'[w] = r
      /\ \A v \in Worker \ {w} : pc'[v] = pc[v] /\ job'[v] = job[v]
  BY MovesAt
<1>2. \A v \in Worker : job[v] # r
  BY RequestFacts DEF Popped, Running
<1>3. HeldOnce'
  BY <1>1, <1>2 DEF HeldOnce
<1>4. /\ pc[w] # "popped" /\ pc[w] \notin InService /\ pc'[w] \notin InService
      /\ pc[w] # "gap" /\ pc'[w] # "gap"
  BY <1>1 DEF Holding, InService
<1>5. Popped' = Popped \cup {r} /\ InGap' = InGap
  BY <1>1, <1>4 DEF Popped, InGap
<1>6. Running' = Running
  BY <1>1, <1>3, <1>4, RunningAre, RunningAreNext
<1>7. QED BY <1>3, <1>5, <1>6

\* It goes on with the one it has, popped, in the gap or in service as before.
LEMMA HandsKeep ==
  ASSUME TypeInv, TypeInv', HeldOnce, NEW w \in Worker, NEW p, Moves(w, p, job[w]),
         p = "popped" <=> pc[w] = "popped", p = "gap" <=> pc[w] = "gap",
         p \in InService <=> pc[w] \in InService
  PROVE  Popped' = Popped /\ Running' = Running /\ InGap' = InGap /\ HeldOnce'
<1>1. /\ pc'[w] = p /\ job'[w] = job[w]
      /\ \A v \in Worker \ {w} : pc'[v] = pc[v] /\ job'[v] = job[v]
  BY MovesAt
<1>2. HeldOnce'
  BY <1>1 DEF HeldOnce
<1>3. Popped' = Popped /\ InGap' = InGap
  BY <1>1 DEF Popped, InGap
<1>4. Running' = Running
  BY <1>1, <1>2, RunningAre, RunningAreNext
<1>5. QED BY <1>2, <1>3, <1>4

\* It admits the one it popped.
LEMMA HandsBegin ==
  ASSUME TypeInv, TypeInv', HeldOnce, NEW w \in Worker, pc[w] = "popped",
         Moves(w, "gap", job[w])
  PROVE  /\ Popped' = Popped \ {job[w]} /\ Running' = Running \cup {job[w]}
         /\ InGap' = InGap \cup {job[w]} /\ job[w] \in Popped /\ HeldOnce'
<1>1. /\ pc'[w] = "gap" /\ job'[w] = job[w] /\ "gap" \in InService /\ "popped" \notin InService
      /\ \A v \in Worker \ {w} : pc'[v] = pc[v] /\ job'[v] = job[v]
  BY MovesAt DEF InService
<1>2. HeldOnce' /\ job[w] # NoRequest /\ \A v \in Worker \ {w} : job[v] # job[w]
  BY <1>1, JobOf DEF HeldOnce, Holding
<1>3. Popped' = Popped \ {job[w]} /\ InGap' = InGap \cup {job[w]} /\ job[w] \in Popped
  BY <1>1, <1>2 DEF Popped, InGap
<1>4. Running' = Running \cup {job[w]}
  BY <1>1, <1>2, RunningAre, RunningAreNext
<1>5. QED BY <1>2, <1>3, <1>4

\* It pins the one it admitted.
LEMMA HandsPin ==
  ASSUME TypeInv, TypeInv', HeldOnce, NEW w \in Worker, pc[w] = "gap",
         Moves(w, "pinned", job[w])
  PROVE  /\ Popped' = Popped /\ Running' = Running /\ InGap' = InGap \ {job[w]}
         /\ job[w] \in InGap /\ job[w] \in Running /\ HeldOnce'
<1>1. /\ pc'[w] = "pinned" /\ job'[w] = job[w] /\ "pinned" \in InService /\ "gap" \in InService
      /\ \A v \in Worker \ {w} : pc'[v] = pc[v] /\ job'[v] = job[v]
  BY MovesAt DEF InService
<1>2. HeldOnce' /\ job[w] # NoRequest /\ \A v \in Worker \ {w} : job[v] # job[w]
  BY <1>1, JobOf DEF HeldOnce, Holding
<1>3. Popped' = Popped /\ InGap' = InGap \ {job[w]} /\ job[w] \in InGap
  BY <1>1, <1>2 DEF Popped, InGap
<1>4. Running' = Running /\ job[w] \in Running
  BY <1>1, <1>2, RunningAre, RunningAreNext
<1>5. QED BY <1>2, <1>3, <1>4

\* It lets go.
LEMMA HandsDrop ==
  ASSUME TypeInv, TypeInv', HeldOnce, NEW w \in Worker, pc[w] \in Holding,
         pc[w] # "gap", NEW p \in Points \ Holding, Moves(w, p, NoRequest)
  PROVE  /\ HeldOnce' /\ InGap' = InGap /\ job[w] \notin InGap
         /\ pc[w] = "popped" => job[w] \in Popped /\ Popped' = Popped \ {job[w]}
                                /\ Running' = Running
         /\ pc[w] \in InService => job[w] \in Running /\ Running' = Running \ {job[w]}
                                   /\ Popped' = Popped
<1>1. /\ pc'[w] = p /\ job'[w] = NoRequest /\ p # "popped" /\ p # "gap" /\ p \notin InService
      /\ "popped" \notin InService
      /\ \A v \in Worker \ {w} : pc'[v] = pc[v] /\ job'[v] = job[v]
  BY MovesAt DEF InService, Holding
<1>2. HeldOnce' /\ job[w] # NoRequest /\ \A v \in Worker \ {w} : job[v] # job[w]
  BY <1>1, JobOf DEF HeldOnce
<1>3. InGap' = InGap /\ job[w] \notin InGap
  BY <1>1, <1>2 DEF InGap
<1>4. CASE pc[w] = "popped"
  <2>1. job[w] \in Popped /\ Popped' = Popped \ {job[w]}
    BY <1>1, <1>2, <1>4 DEF Popped
  <2>2. Running' = Running
    BY <1>1, <1>2, <1>4, RunningAre, RunningAreNext
  <2>3. QED BY <1>1, <1>2, <1>3, <1>4, <2>1, <2>2
<1>5. CASE pc[w] \in InService
  <2>1. Popped' = Popped
    BY <1>1, <1>2, <1>5 DEF Popped
  <2>2. job[w] \in Running /\ Running' = Running \ {job[w]}
    BY <1>1, <1>2, <1>5, RunningAre, RunningAreNext
  <2>3. QED BY <1>1, <1>2, <1>3, <1>5, <2>1, <2>2
<1>6. QED BY <1>4, <1>5 DEF Holding

-----------------------------------------------------------------------------
(* What each step moves *)

\* A stopped chain gives its request up; a chain finishes its request.
LetGo(w) == /\ pc[w] \in Pinned /\ GiveUp(w)
            /\ UNCHANGED <<started, stopped, loadVars, queue, rejected, robbed>>
Done(w)  == /\ pc[w] \in Pinned /\ DecodePhase(w) /\ Finish(w)
            /\ IsFinished(job[w], generated'[job[w]])

\* All other steps leave every request where it is, and the books as they are.
Hands == <<Popped, Running, InGap>>
Still == HeldOnce' /\ UNCHANGED <<arrived, asked, queue, inflight, fateVars, Hands>>

LEMMA ArriveMoves ==
  ASSUME TypeInv, HeldOnce, Arrive
  PROVE  UNCHANGED <<Hands, inflight, fateVars>> /\ HeldOnce'
<1>1. UNCHANGED <<pc, job, inflight, fateVars>>
  BY DEF Arrive, workVars
<1>2. Popped' = Popped
  BY <1>1 DEF Popped
<1>3. Running' = Running /\ InGap' = InGap /\ HeldOnce'
  BY <1>1, <1>2 DEF Running, InGap, HeldOnce
<1>4. QED BY <1>1, <1>2, <1>3 DEF Hands

LEMMA PopMoves ==
  ASSUME TypeInv, TypeInv', OnceInv, NEW w \in Worker, Pop(w)
  PROVE  /\ Head(queue) \in Request /\ Head(queue) \in Waiting
         /\ Waiting' = Waiting \ {Head(queue)} /\ InOrder(queue')
         /\ \A x \in Waiting : Head(queue) <= x
         /\ Popped' = Popped \cup {Head(queue)} /\ Running' = Running /\ InGap' = InGap
         /\ HeldOnce' /\ UNCHANGED <<arrived, asked, generated, inflight, fateVars>>
<1>1. /\ pc[w] = "workerStep" /\ queue # <<>> /\ queue' = Tail(queue)
      /\ UNCHANGED <<arrived, asked, generated, inflight, fateVars>>
  BY DEF Pop, loadVars
<1>2. queue \in Seq(Request) /\ Request \subseteq Int /\ InOrder(queue)
  BY RequestFacts DEF TypeInv, TypeOK, LoadOK, OnceInv
<1>3. Head(queue) \in Request /\ \A x \in Waiting : Head(queue) <= x
  BY <1>1, <1>2, PopTypes, HeadLeast DEF Waiting
<1>4. Head(queue) \in Waiting /\ Waiting' = Waiting \ {Head(queue)} /\ InOrder(queue')
  BY <1>1, <1>2, InOrderOnce, PopSet DEF Waiting
<1>5. Moves(w, "popped", Head(queue))
  BY DEF Pop, Moves, loadVars
<1>6. Head(queue) \notin Popped \cup Running
  BY <1>4 DEF OnceInv, PlacesApart, Apart
<1>7. pc[w] \notin Holding /\ HeldOnce
  BY <1>1 DEF Holding, InService, OnceInv
<1>8. PICK r \in Request : r = Head(queue)
  BY <1>3
<1>9. Popped' = Popped \cup {r} /\ Running' = Running /\ InGap' = InGap /\ HeldOnce'
  BY <1>5, <1>6, <1>7, <1>8, HandsTake
<1>10. QED BY <1>1, <1>3, <1>4, <1>8, <1>9

LEMMA RejectMoves ==
  ASSUME TypeInv, TypeInv', HeldOnce, NEW w \in Worker, Reject(w)
  PROVE  /\ job[w] \in Request /\ job[w] \in Popped /\ Popped' = Popped \ {job[w]}
         /\ Running' = Running /\ InGap' = InGap /\ HeldOnce'
         /\ rejected' = rejected \cup {job[w]}
         /\ UNCHANGED <<arrived, asked, queue, generated, inflight, finished, abandoned>>
<1>1. /\ pc[w] = "popped" /\ rejected' = rejected \cup {job[w]}
      /\ UNCHANGED <<arrived, asked, queue, generated, inflight, finished, abandoned>>
      /\ Moves(w, "workerStep", NoRequest)
  BY DEF Reject, Moves, loadVars
<1>2. "workerStep" \in Points \ Holding /\ pc[w] \in Holding /\ job[w] \in Request
  BY <1>1, JobOf DEF Points, Holding, InService
<1>3. QED BY <1>1, <1>2, HandsDrop

LEMMA AdmitMoves ==
  ASSUME TypeInv, TypeInv', HeldOnce, NEW w \in Worker, Admit(w)
  PROVE  /\ job[w] \in Request /\ job[w] \in Popped /\ Popped' = Popped \ {job[w]}
         /\ Running' = Running \cup {job[w]} /\ InGap' = InGap \cup {job[w]}
         /\ HeldOnce' /\ inflight' = inflight + 1
         /\ UNCHANGED <<stopped, arrived, asked, queue, generated, finished, rejected,
                        abandoned, reg>>
<1>1. /\ pc[w] = "popped" /\ inflight' = inflight + 1
      /\ UNCHANGED <<stopped, arrived, asked, queue, generated, finished, rejected,
                     abandoned, reg>>
  BY DEF Admit, loadVars
<1>2. pc[w] \in Holding /\ job[w] \in Request
  BY <1>1, JobOf DEF Holding
<1>3. Moves(w, "gap", job[w])
  BY DEF Admit, Moves, loadVars, TypeInv, TypeOK, WorkOK
<1>4. QED BY <1>1, <1>2, <1>3, HandsBegin

LEMMA AcquireMoves ==
  ASSUME TypeInv, TypeInv', HeldOnce, NEW w \in Worker, Acquire(w)
  PROVE  /\ job[w] \in Request /\ job[w] \in InGap /\ job[w] \in Running
         /\ Popped' = Popped /\ Running' = Running /\ InGap' = InGap \ {job[w]}
         /\ HeldOnce'
         /\ UNCHANGED <<stopped, arrived, asked, queue, generated, inflight, kvBlocks, robbed,
                        finished, rejected, abandoned>>
<1>1. /\ pc[w] = "gap"
      /\ UNCHANGED <<stopped, arrived, asked, queue, generated, inflight, kvBlocks, robbed,
                     finished, rejected, abandoned>>
  BY DEF Acquire, loadVars
<1>2. job[w] \in Request
  BY <1>1, JobOf DEF Holding, InService
<1>3. Moves(w, "pinned", job[w])
  BY DEF Acquire, Moves, loadVars, TypeInv, TypeOK, WorkOK
<1>4. QED BY <1>1, <1>2, <1>3, HandsPin

LEMMA LetGoMoves ==
  ASSUME TypeInv, TypeInv', HeldOnce, NEW w \in Worker, LetGo(w)
  PROVE  /\ job[w] \in Request /\ job[w] \in Running /\ Running' = Running \ {job[w]}
         /\ Popped' = Popped /\ HeldOnce' /\ abandoned' = abandoned \cup {job[w]}
         /\ inflight' = inflight - 1 /\ InGap' = InGap /\ job[w] \notin InGap
         /\ UNCHANGED <<stopped, arrived, asked, queue, kvBlocks, robbed, finished, rejected, reg>>
<1>1. /\ Moves(w, "aborted", NoRequest) /\ pc[w] \in InService /\ pc[w] \in Holding
      /\ pc[w] # "gap" /\ "aborted" \in Points \ Holding
      /\ abandoned' = abandoned \cup {job[w]} /\ inflight' = inflight - 1
      /\ UNCHANGED <<stopped, arrived, asked, queue, kvBlocks, robbed, finished, rejected, reg>>
  BY DEF LetGo, GiveUp, Moves, loadVars, Points, Holding, InService, Pinned, Ended
<1>2. job[w] \in Request
  BY <1>1, JobOf
<1>3. QED BY <1>1, <1>2, HandsDrop

LEMMA DoneMoves ==
  ASSUME TypeInv, TypeInv', HeldOnce, NEW w \in Worker, Done(w)
  PROVE  /\ job[w] \in Request /\ job[w] \in Running /\ Running' = Running \ {job[w]}
         /\ Popped' = Popped /\ HeldOnce' /\ finished' = finished \cup {job[w]}
         /\ inflight' = inflight - 1 /\ InGap' = InGap /\ job[w] \notin InGap
         /\ kvBlocks' = {b \in kvBlocks : b[1] # job[w]}
         /\ UNCHANGED <<stopped, arrived, asked, queue, robbed, rejected, abandoned>>
<1>1. /\ Moves(w, "workerStep", NoRequest) /\ pc[w] \in InService /\ pc[w] \in Holding
      /\ pc[w] # "gap" /\ "workerStep" \in Points \ Holding
      /\ finished' = finished \cup {job[w]} /\ inflight' = inflight - 1
      /\ kvBlocks' = {b \in kvBlocks : b[1] # job[w]}
      /\ UNCHANGED <<stopped, arrived, asked, queue, robbed, rejected, abandoned>>
  BY DEF Done, DecodePhase, Finish, Moves, loadVars, Points, Holding, InService, Pinned
<1>2. job[w] \in Request
  BY <1>1, JobOf
<1>3. QED BY <1>1, <1>2, HandsDrop

LEMMA StillIdle ==
  ASSUME TypeInv, TypeInv', HeldOnce, NEW w \in Worker,
         Exit(w) \/ Miss(w) \/ RetireOrPoll(w) \/ StallOver(w)
  PROVE  Still
<1>1. /\ pc[w] \in {"workerStep", "missed", "stalled"}
      /\ UNCHANGED <<started, stopped, arrivalsDone, arrived, asked, queue, inflight, fateVars, job>>
      /\ \E p \in {"exited", "missed", "retired", "workerStep", "decode"} :
           pc' = [pc EXCEPT ![w] = p] /\ (p = "decode" <=> pc[w] = "stalled")
  BY DEF Exit, Miss, RetireOrPoll, StallOver, loadVars
<1>2. PICK p \in {"exited", "missed", "retired", "workerStep", "decode"} :
           pc' = [pc EXCEPT ![w] = p] /\ (p = "decode" <=> pc[w] = "stalled")
  BY <1>1
<1>3. job' = [job EXCEPT ![w] = job[w]]
  BY <1>1 DEF TypeInv, TypeOK, WorkOK
<1>4. Moves(w, p, job[w])
  BY <1>1, <1>2, <1>3 DEF Moves
<1>5. /\ p = "popped" <=> pc[w] = "popped"
      /\ p = "gap" <=> pc[w] = "gap"
      /\ p \in InService <=> pc[w] \in InService
  BY <1>1, <1>2 DEF InService
<1>6. Popped' = Popped /\ Running' = Running /\ InGap' = InGap /\ HeldOnce'
  BY <1>4, <1>5, HandsKeep
<1>7. QED BY <1>1, <1>6 DEF Still, Hands

LEMMA StillStart ==
  ASSUME TypeInv, TypeInv', HeldOnce, Start
  PROVE  Still
<1>1. /\ UNCHANGED <<arrived, asked, queue, inflight, fateVars, job>>
      /\ \A w \in Worker : pc[w] = "unborn" /\ pc'[w] = "workerStep"
  BY DEF Start, TypeInv, NothingBeforeStart
<1>2. HeldOnce'
  BY <1>1 DEF HeldOnce
<1>3. Popped' = Popped /\ InGap' = InGap
  BY <1>1 DEF Popped, InGap
<1>4. Running' = Running
  BY <1>1, <1>3 DEF Running
<1>5. QED BY <1>1, <1>2, <1>3, <1>4 DEF Still, Hands

LEMMA StillSame ==
  ASSUME HeldOnce, UNCHANGED <<arrived, asked, queue, pc, job, inflight, fateVars>>
  PROVE  Still
BY DEF Still, HeldOnce, Hands, Popped, Running, InGap

\* A token comes out and another is to follow.
LEMMA StillSchedule ==
  ASSUME TypeInv, TypeInv', HeldOnce, NEW w \in Worker, pc[w] \in Pinned, DecodePhase(w),
         ScheduleDecode(w)
  PROVE  Still
<1>1. UNCHANGED <<started, stopped, loadVars, queue, rejected, robbed>>
  BY DEF DecodePhase
<1>2. PICK p \in {"stalled", "decode"} : pc' = [pc EXCEPT ![w] = p]
  BY DEF ScheduleDecode
<1>3. job' = [job EXCEPT ![w] = job[w]]
  BY DEF ScheduleDecode, TypeInv, TypeOK, WorkOK
<1>4. Moves(w, p, job[w])
  BY <1>1, <1>2, <1>3 DEF Moves, loadVars
<1>5. /\ p = "popped" <=> pc[w] = "popped"
      /\ p = "gap" <=> pc[w] = "gap"
      /\ p \in InService <=> pc[w] \in InService
  BY <1>2 DEF InService, Pinned
<1>6. Popped' = Popped /\ Running' = Running /\ InGap' = InGap /\ HeldOnce'
  BY <1>4, <1>5, HandsKeep
<1>7. QED BY <1>1, <1>6 DEF Still, Hands, ScheduleDecode, loadVars, fateVars

LEMMA DecodePhaseMoves ==
  ASSUME TypeInv, TypeInv', HeldOnce, NEW w \in Worker, pc[w] \in Pinned, DecodePhase(w)
  PROVE  LetGo(w) \/ Done(w) \/ Still
<1>1. CASE stopped
  BY <1>1 DEF DecodePhase, LetGo
<1>2. CASE ~stopped /\ IsFinished(job[w], generated'[job[w]])
  BY <1>2 DEF DecodePhase, Done
<1>3. CASE ~stopped /\ ~IsFinished(job[w], generated'[job[w]])
  BY <1>3, StillSchedule DEF DecodePhase
<1>4. QED BY <1>1, <1>2, <1>3

\* The first chunk is scheduled.
LEMMA FirstChunkMoves ==
  ASSUME TypeInv, TypeInv', HeldOnce, NEW w \in Worker, FirstChunk(w)
  PROVE  LetGo(w) \/ (Still /\ UNCHANGED generated)
<1>1. /\ pc[w] = "pinned"
      /\ UNCHANGED <<started, stopped, loadVars, queue, generated, rejected, robbed>>
  BY FirstChunkDoes
<1>2. CASE GiveUp(w)
  BY <1>1, <1>2 DEF LetGo, Pinned
<1>3. CASE Moves(w, "prefill", job[w])
             /\ UNCHANGED <<state, inflight, kvBlocks, finished, abandoned, reg>>
  <2>1. "prefill" \in InService /\ pc[w] \in InService
    BY <1>1 DEF InService
  <2>2. Popped' = Popped /\ Running' = Running /\ InGap' = InGap /\ HeldOnce'
    BY <1>1, <1>3, <2>1, HandsKeep
  <2>3. QED BY <1>1, <1>3, <2>2 DEF Still, Hands, loadVars, fateVars
<1>4. QED BY <1>2, <1>3, FirstChunkDoes

LEMMA StepMoves ==
  ASSUME TypeInv, TypeInv', HeldOnce, [Next]_vars
  PROVE  \/ Arrive \/ Still
         \/ \E w \in Worker :
              Pop(w) \/ Reject(w) \/ Admit(w) \/ Acquire(w) \/ LetGo(w) \/ Done(w)
<1>1. CASE UNCHANGED vars
  BY <1>1, StillSame DEF vars, loadVars, workVars
<1>2. CASE Stop \/ StopAtQuiescence \/ Terminated
  BY <1>2, StillSame DEF Stop, StopAtQuiescence, Terminated, vars, loadVars, workVars
<1>3. ASSUME NEW w \in Worker, WorkerStep(w)
      PROVE  Still \/ Pop(w) \/ Reject(w) \/ Admit(w) \/ Acquire(w) \/ LetGo(w) \/ Done(w)
  <2>1. CASE PrefillChunk(w)
    <3>1. CASE stopped
      BY <2>1, <3>1 DEF PrefillChunk, LetGo, Pinned
    <3>2. CASE ~stopped
      BY <2>1, <3>2, StillSame DEF PrefillChunk, loadVars, fateVars
    <3>3. QED BY <3>1, <3>2
  <2>2. CASE PrefillDone(w) \/ DecodeToken(w)
    BY <2>2, DecodePhaseMoves DEF PrefillDone, DecodeToken, Pinned
  <2>3. QED BY <1>3, <2>1, <2>2, WorkerSplit, StillIdle, FirstChunkMoves
<1>4. QED BY <1>1, <1>2, <1>3, StillStart DEF Next

-----------------------------------------------------------------------------
(* Each step keeps each request in one place *)

LEMMA OnceInit == Init => OnceInv
<1> SUFFICES ASSUME Init PROVE OnceInv
  OBVIOUS
<1>1. queue = <<>> /\ \A w \in Worker : job[w] = NoRequest /\ pc[w] = "unborn"
  BY DEF Init
<1>2. Waiting = {} /\ Popped = {} /\ Running = {}
  BY <1>1 DEF Waiting, Popped, Running, ToSet
<1>3. finished = {} /\ rejected = {} /\ abandoned = {} /\ arrived = 0
  BY DEF Init
<1>4. PlacesApart /\ PlacesCover
  BY <1>2, <1>3 DEF PlacesApart, Apart, PlacesCover
<1>5. InOrder(queue) /\ HeldOnce
  BY <1>1 DEF InOrder, HeldOnce
<1>6. QED BY <1>4, <1>5 DEF OnceInv

LEMMA OnceArrive ==
  ASSUME TypeInv, OnceInv, Arrive
  PROVE  OnceInv'
<1>1. HeldOnce' /\ UNCHANGED <<Popped, Running, finished, rejected, abandoned>>
  BY ArriveMoves DEF OnceInv, Hands, fateVars
<1>2. CASE stopped
  <2>1. UNCHANGED <<arrived, queue>>
    BY <1>2 DEF Arrive
  <2>2. QED BY <1>1, <2>1 DEF OnceInv, PlacesApart, PlacesCover, Waiting
<1>3. CASE ~stopped
  <2>1. arrived' = arrived + 1 /\ queue' = Append(queue, arrived')
    BY <1>3 DEF Arrive
  <2>2. arrived \in Nat /\ arrived' \in Request /\ queue \in Seq(Request)
    BY <1>3, <2>1, BoundAssumption
    DEF Arrive, TypeInv, TypeOK, LoadOK, ArrivalsBounded, Request
  <2>3. Waiting' = Waiting \cup {arrived'}
    BY <2>1, <2>2, PushSet DEF Waiting
  <2>4. 1 .. arrived' = (1 .. arrived) \cup {arrived'} /\ arrived' \notin 1 .. arrived
    BY <2>1, <2>2
  <2>5. Waiting \subseteq 1 .. arrived /\ \A x \in Waiting : x < arrived'
    BY <2>1, <2>2 DEF OnceInv, PlacesCover
  <2>6. InOrder(queue')
    BY <2>1, <2>2, <2>5, PushSet DEF OnceInv, Waiting
  <2>7. PlacesApart' /\ PlacesCover'
    <3>1. /\ arrived' \notin Popped \cup Running \cup finished \cup rejected \cup abandoned
          /\ PlacesApart /\ PlacesCover
      BY <2>4 DEF OnceInv, PlacesCover
    <3>2. PlacesApart'
      BY <1>1, <2>3, <3>1 DEF PlacesApart, Apart
    <3>3. PlacesCover'
      BY <1>1, <2>3, <2>4, <3>1 DEF PlacesCover
    <3>4. QED BY <3>2, <3>3
  <2>8. QED BY <1>1, <2>6, <2>7 DEF OnceInv
<1>4. QED BY <1>2, <1>3

\* A request goes from one place to another, the order of the queue is kept.
LEMMA OnceMoves ==
  ASSUME OnceInv, HeldOnce', InOrder(queue'), arrived' = arrived, PlacesApart',
         UNCHANGED (Waiting \cup Popped \cup Running \cup finished \cup rejected \cup abandoned)
  PROVE  OnceInv'
BY DEF OnceInv, PlacesCover

LEMMA OnceStep == TypeInv /\ OnceInv /\ TypeInv' /\ [Next]_vars => OnceInv'
<1> SUFFICES ASSUME TypeInv, OnceInv, TypeInv', [Next]_vars PROVE OnceInv'
  OBVIOUS
<1>1. HeldOnce /\ InOrder(queue) /\ PlacesApart
  BY DEF OnceInv
<1>2. CASE Still
  BY <1>2 DEF Still, Hands, fateVars, OnceInv, PlacesApart, PlacesCover, Waiting
<1>3. CASE Arrive
  BY <1>3, OnceArrive
<1>4. ASSUME NEW w \in Worker, Pop(w) PROVE OnceInv'
  <2>1. /\ Head(queue) \in Waiting /\ Waiting' = Waiting \ {Head(queue)} /\ InOrder(queue')
        /\ Popped' = Popped \cup {Head(queue)} /\ Running' = Running /\ HeldOnce'
        /\ UNCHANGED <<arrived, fateVars>>
    BY <1>4, PopMoves
  <2>2. PlacesApart'
    BY <1>1, <2>1 DEF PlacesApart, Apart, fateVars
  <2>3. QED BY <2>1, <2>2, OnceMoves DEF fateVars
<1>5. ASSUME NEW w \in Worker, Reject(w) PROVE OnceInv'
  <2>1. /\ job[w] \in Popped /\ Popped' = Popped \ {job[w]} /\ Running' = Running /\ HeldOnce'
        /\ rejected' = rejected \cup {job[w]} /\ Waiting' = Waiting
        /\ UNCHANGED <<arrived, queue, finished, abandoned>>
    BY <1>1, <1>5, RejectMoves DEF Waiting
  <2>2. PlacesApart'
    BY <1>1, <2>1 DEF PlacesApart, Apart
  <2>3. QED BY <1>1, <2>1, <2>2, OnceMoves
<1>6. ASSUME NEW w \in Worker, Admit(w) PROVE OnceInv'
  <2>1. /\ job[w] \in Popped /\ Popped' = Popped \ {job[w]} /\ HeldOnce' /\ Waiting' = Waiting
        /\ Running' = Running \cup {job[w]}
        /\ UNCHANGED <<arrived, queue, finished, rejected, abandoned>>
    BY <1>1, <1>6, AdmitMoves DEF Waiting
  <2>2. PlacesApart'
    BY <1>1, <2>1 DEF PlacesApart, Apart
  <2>3. QED BY <1>1, <2>1, <2>2, OnceMoves
<1>7. ASSUME NEW w \in Worker, LetGo(w) PROVE OnceInv'
  <2>1. /\ job[w] \in Running /\ Running' = Running \ {job[w]} /\ Popped' = Popped /\ HeldOnce'
        /\ abandoned' = abandoned \cup {job[w]} /\ Waiting' = Waiting
        /\ UNCHANGED <<arrived, queue, finished, rejected>>
    BY <1>1, <1>7, LetGoMoves DEF Waiting
  <2>2. PlacesApart'
    BY <1>1, <2>1 DEF PlacesApart, Apart
  <2>3. QED BY <1>1, <2>1, <2>2, OnceMoves
<1>8. ASSUME NEW w \in Worker, Done(w) PROVE OnceInv'
  <2>1. /\ job[w] \in Running /\ Running' = Running \ {job[w]} /\ Popped' = Popped /\ HeldOnce'
        /\ finished' = finished \cup {job[w]} /\ Waiting' = Waiting
        /\ UNCHANGED <<arrived, queue, rejected, abandoned>>
    BY <1>1, <1>8, DoneMoves DEF Waiting
  <2>2. PlacesApart'
    BY <1>1, <2>1 DEF PlacesApart, Apart
  <2>3. QED BY <1>1, <2>1, <2>2, OnceMoves
<1>9. ASSUME NEW w \in Worker, Acquire(w) PROVE OnceInv'
  <2>1. /\ Waiting' = Waiting /\ HeldOnce'
        /\ UNCHANGED <<arrived, queue, Popped, Running, finished, rejected, abandoned>>
    BY <1>1, <1>9, AcquireMoves DEF Waiting
  <2>2. PlacesApart'
    BY <1>1, <2>1 DEF PlacesApart, Apart
  <2>3. QED BY <1>1, <2>1, <2>2, OnceMoves
<1>10. QED BY <1>1, <1>2, <1>3, <1>4, <1>5, <1>6, <1>7, <1>8, <1>9, StepMoves

\* No request of the colocated engine is lost, duplicated or in two places at once,
\* however its callbacks interleave and whenever it is stopped.
THEOREM EachRequestOnceHolds == Spec => []EachRequestOnce
<1>1. OnceInv => EachRequestOnce
  BY OncePlaces
<1>2. QED BY TypeInit, TypeStep, OnceInit, OnceStep, <1>1, PTL DEF Spec

\* Where a request is.
LEMMA WhereIs ==
  ASSUME TypeInv, OnceInv
  PROVE  /\ Waiting \cup Popped \cup Running \cup finished \cup rejected \cup abandoned
              \subseteq Request
         /\ \A r \in Waiting \cup Popped :
              r \notin Running \cup finished \cup rejected \cup abandoned
         /\ \A r \in Running : r \notin finished \cup rejected \cup abandoned
         /\ \A r \in Popped : r \notin Waiting
<1>1. 1 .. arrived \subseteq Request
  BY BoundAssumption DEF TypeInv, TypeOK, LoadOK, Request
<1>2. QED BY <1>1 DEF OnceInv, PlacesApart, PlacesCover, Apart

-----------------------------------------------------------------------------
(* Chunks and tokens *)

\* What a request has been given where it is.
TokensOK ==
  /\ \A r \in 1 .. arrived : asked[r].output > 0
  /\ \A r \in Request : r > arrived => generated[r] = 0
  /\ \A r \in Waiting \cup Popped : generated[r] = 0
  /\ \A r \in finished : generated[r] = asked[r].output
TokensInv == TokensOK /\ ChunksAddUp

\* The part of the prompt a worker has still to do, when so many chunks are done.
LEMMA OneChunkMore ==
  ASSUME NEW n \in Nat, NEW left \in Nat, NEW k \in 0 .. n,
         left = n - k * PrefillChunkTokens, left - Chunk(left) > 0
  PROVE  /\ k + 1 \in 0 .. n
         /\ left - Chunk(left) = n - (k + 1) * PrefillChunkTokens
<1> DEFINE C == PrefillChunkTokens
<1>1. C \in Nat /\ Chunk(left) = C /\ C # 0 /\ left > C
  BY LoadAssumption DEF Chunk
<1>2. (k + 1) * C = k * C + C /\ k * C >= k /\ k * C \in Nat
  <2>1. k \in Nat /\ C \in Nat /\ C >= 1
    BY <1>1
  <2> HIDE DEF C
  <2>2. k * C \in Nat /\ (k + 1) * C = k * C + C
    BY <2>1
  <2>3. k * C >= k
    <3>1. C - 1 \in Nat /\ k * (C - 1) \in Nat
      BY <2>1
    <3>2. k * C = k * (C - 1) + k
      BY <2>1
    <3>3. QED BY <2>1, <3>1, <3>2
  <2>4. QED BY <2>2, <2>3
<1>3. left = n - k * C
  OBVIOUS
<1> HIDE DEF C
<1>4. left - Chunk(left) = n - (k + 1) * C /\ k < n
  BY <1>1, <1>2, <1>3
<1>5. QED BY <1>4 DEF C

\* ChunksAddUp of one worker.
ChunkAt(w) ==
  /\ pc[w] \in {"gap", "pinned", "prefill"} => generated[job[w]] = 0
  /\ pc[w] = "pinned" => remaining[w] = asked[job[w]].prompt
  /\ pc[w] = "prefill" =>
       /\ remaining[w] = 0 => asked[job[w]].prompt = 0
       /\ \E k \in 0 .. asked[job[w]].prompt :
            remaining[w] = asked[job[w]].prompt - k * PrefillChunkTokens
  /\ pc[w] \in {"stalled", "decode"} =>
       remaining[w] = 0 /\ generated[job[w]] \in 1 .. asked[job[w]].output - 1

LEMMA ChunksAre == ChunksAddUp <=> \A w \in Worker : ChunkAt(w)
BY DEF ChunksAddUp, ChunkAt

LEMMA ChunksAreNext == ChunksAddUp' <=> \A w \in Worker : ChunkAt(w)'
BY DEF ChunksAddUp, ChunkAt

\* What a worker's own step leaves to show: its own chunk or token.
LEMMA ChunksOfOne ==
  ASSUME TypeInv, HeldOnce, ChunksAddUp, NEW w \in Worker,
         \A v \in Worker \ {w} :
           pc'[v] = pc[v] /\ job'[v] = job[v] /\ remaining'[v] = remaining[v],
         asked' = asked, \A r \in Request \ {job[w]} : generated'[r] = generated[r],
         ChunkAt(w)'
  PROVE  ChunksAddUp'
<1>1. ASSUME NEW v \in Worker \ {w} PROVE ChunkAt(v)'
  <2>1. ChunkAt(v)
    BY ChunksAre
  <2>2. CASE pc[v] \in InService
    <3>1. job[v] \in Request \ {job[w]}
      BY <2>2, JobOf DEF Holding, HeldOnce
    <3>2. QED BY <2>1, <3>1 DEF ChunkAt
  <2>3. CASE pc[v] \notin InService
    BY <2>3 DEF ChunkAt, InService
  <2>4. QED BY <2>2, <2>3
<1>2. QED BY <1>1, ChunksAreNext

\* A worker that neither prefills nor decodes has nothing to show.
LEMMA ChunkAtRest ==
  ASSUME NEW w, pc'[w] \notin InService
  PROVE  ChunkAt(w)'
BY DEF ChunkAt, InService

LEMMA TokensInit == Init => TokensInv
<1> SUFFICES ASSUME Init PROVE TokensInv
  OBVIOUS
<1>1. arrived = 0 /\ finished = {} /\ \A r \in Request : generated[r] = 0
  BY DEF Init
<1>2. Waiting = {} /\ Popped = {}
  BY DEF Init, Waiting, Popped, ToSet
<1>3. TokensOK
  BY <1>1, <1>2 DEF TokensOK
<1>4. ChunksAddUp
  BY DEF Init, ChunksAddUp
<1>5. QED BY <1>3, <1>4 DEF TokensInv

LEMMA TokensArrive ==
  ASSUME TypeInv, OnceInv, TokensInv, Arrive
  PROVE  TokensInv'
<1>1. UNCHANGED <<pc, job, remaining, generated, finished, Popped>>
  BY ArriveMoves DEF Arrive, workVars, fateVars, OnceInv, Hands
<1>2. CASE stopped
  <2>1. UNCHANGED <<arrived, asked, queue>>
    BY <1>2 DEF Arrive
  <2>2. QED BY <1>1, <2>1 DEF TokensInv, TokensOK, ChunksAddUp, Waiting
<1>3. CASE ~stopped
  <2>1. arrived' = arrived + 1 /\ queue' = Append(queue, arrived')
    BY <1>3 DEF Arrive
  <2>2. arrived \in Nat /\ arrived' \in Request /\ queue \in Seq(Request)
    BY <1>3, <2>1, BoundAssumption
    DEF Arrive, TypeInv, TypeOK, LoadOK, ArrivalsBounded, Request
  <2>3. PICK p \in PromptTokens, o \in OutputTokens :
          asked' = [asked EXCEPT ![arrived'] = [prompt |-> p, output |-> o]]
    BY <1>3 DEF Arrive
  <2>4. /\ asked'[arrived'].output > 0
        /\ \A r \in Request \ {arrived'} : asked'[r] = asked[r]
    BY <2>2, <2>3, LoadAssumption DEF TypeInv, TypeOK, LoadOK
  <2>5. Waiting' = Waiting \cup {arrived'}
    BY <2>1, <2>2, PushSet DEF Waiting
  <2>6. arrived' \notin Popped \cup Running \cup finished /\ arrived' > arrived
    BY <2>1, <2>2 DEF OnceInv, PlacesCover
  <2>7. \A r \in 1 .. arrived : r \in Request /\ r # arrived'
    BY <2>1, <2>2, BoundAssumption DEF TypeInv, TypeOK, LoadOK, Request
  <2>8. \A r \in 1 .. arrived' : asked'[r].output > 0
    <3>1. \A r \in 1 .. arrived' : r \in 1 .. arrived \/ r = arrived'
      BY <2>1, <2>2
    <3>2. QED BY <2>4, <2>7, <3>1 DEF TokensInv, TokensOK
  <2>9. \A r \in Request : r > arrived' => generated'[r] = 0
    BY <1>1, <2>1, <2>2, RequestFacts DEF TokensInv, TokensOK
  <2>10. \A r \in Waiting' \cup Popped' : generated'[r] = 0
    BY <1>1, <2>2, <2>5, <2>6 DEF TokensInv, TokensOK
  <2>11. \A r \in finished' : generated'[r] = asked'[r].output
    <3>1. \A r \in finished : r \in Request /\ r # arrived'
      BY <2>6, WhereIs
    <3>2. QED BY <1>1, <2>4, <3>1 DEF TokensInv, TokensOK
  <2>12. ChunksAddUp'
    <3>1. ASSUME NEW w \in Worker PROVE ChunkAt(w)'
      <4>1. CASE pc[w] \in InService
        <5>1. job[w] \in Running
          BY <4>1, HandsAre DEF OnceInv
        <5>2. asked'[job[w]] = asked[job[w]]
          BY <2>4, <2>6, <5>1, WhereIs
        <5>3. ChunkAt(w)
          BY ChunksAre DEF TokensInv
        <5>4. QED BY <1>1, <5>2, <5>3 DEF ChunkAt
      <4>2. CASE pc[w] \notin InService
        BY <1>1, <4>2 DEF ChunkAt, InService
      <4>3. QED BY <4>1, <4>2
    <3>2. QED BY <3>1, ChunksAreNext
  <2>13. QED BY <2>8, <2>9, <2>10, <2>11, <2>12 DEF TokensInv, TokensOK
<1>4. QED BY <1>2, <1>3

\* A step that gives no tokens and neither brings nor finishes a request.
LEMMA TokensKept ==
  ASSUME TokensOK, UNCHANGED <<arrived, asked, generated, finished>>,
         (Waiting \cup Popped)' \subseteq Waiting \cup Popped
  PROVE  TokensOK'
BY DEF TokensOK

LEMMA TokensPop == \A w \in Worker :
  TypeInv /\ TypeInv' /\ OnceInv /\ TokensInv /\ Pop(w) => TokensInv'
<1> SUFFICES ASSUME TypeInv, TypeInv', OnceInv, TokensInv, NEW w \in Worker, Pop(w)
             PROVE  TokensInv'
  OBVIOUS
<1>1. TokensOK'
  BY PopMoves, TokensKept DEF TokensInv, fateVars
<1>2. /\ UNCHANGED <<asked, generated, remaining>>
      /\ Moves(w, "popped", Head(queue))
  BY DEF Pop, Moves, loadVars
<1>3. ChunksAddUp'
  BY <1>2, MovesAt, ChunkAtRest, ChunksOfOne DEF TokensInv, OnceInv, InService
<1>4. QED BY <1>1, <1>3 DEF TokensInv

LEMMA TokensReject == \A w \in Worker :
  TypeInv /\ TypeInv' /\ OnceInv /\ TokensInv /\ Reject(w) => TokensInv'
<1> SUFFICES ASSUME TypeInv, TypeInv', OnceInv, TokensInv, NEW w \in Worker, Reject(w)
             PROVE  TokensInv'
  OBVIOUS
<1>1. TokensOK'
  BY RejectMoves, TokensKept DEF TokensInv, OnceInv, Waiting
<1>2. /\ UNCHANGED <<asked, generated, remaining>>
      /\ Moves(w, "workerStep", NoRequest)
  BY DEF Reject, Moves, loadVars
<1>3. ChunksAddUp'
  BY <1>2, MovesAt, ChunkAtRest, ChunksOfOne DEF TokensInv, OnceInv, InService
<1>4. QED BY <1>1, <1>3 DEF TokensInv

LEMMA TokensAdmit == \A w \in Worker :
  TypeInv /\ TypeInv' /\ OnceInv /\ TokensInv /\ Admit(w) => TokensInv'
<1> SUFFICES ASSUME TypeInv, TypeInv', OnceInv, TokensInv, NEW w \in Worker, Admit(w)
             PROVE  TokensInv'
  OBVIOUS
<1>1. TokensOK'
  BY AdmitMoves, TokensKept DEF TokensInv, OnceInv, Waiting
<1>2. UNCHANGED <<asked, generated, job, remaining>> /\ pc' = [pc EXCEPT ![w] = "gap"]
  BY DEF Admit, loadVars
<1>3. pc'[w] = "gap" /\ \A v \in Worker \ {w} : pc'[v] = pc[v]
  BY <1>2 DEF TypeInv, TypeOK, WorkOK
<1>4. generated[job[w]] = 0
  BY AdmitMoves DEF OnceInv, TokensInv, TokensOK
<1>5. ChunkAt(w)'
  BY <1>2, <1>3, <1>4 DEF ChunkAt
<1>6. QED BY <1>1, <1>2, <1>3, <1>5, ChunksOfOne DEF TokensInv, OnceInv

LEMMA TokensAcquire == \A w \in Worker :
  TypeInv /\ TypeInv' /\ OnceInv /\ TokensInv /\ Acquire(w) => TokensInv'
<1> SUFFICES ASSUME TypeInv, TypeInv', OnceInv, TokensInv, NEW w \in Worker, Acquire(w)
             PROVE  TokensInv'
  OBVIOUS
<1>1. TokensOK'
  BY AcquireMoves, TokensKept DEF TokensInv, OnceInv, Waiting
<1>2. /\ UNCHANGED <<asked, generated, job>> /\ pc[w] = "gap"
      /\ pc' = [pc EXCEPT ![w] = "pinned"]
      /\ remaining' = [remaining EXCEPT ![w] = asked[job[w]].prompt]
  BY DEF Acquire, loadVars
<1>3. /\ pc'[w] = "pinned" /\ remaining'[w] = asked[job[w]].prompt
      /\ \A v \in Worker \ {w} : pc'[v] = pc[v] /\ remaining'[v] = remaining[v]
  BY <1>2 DEF TypeInv, TypeOK, WorkOK
<1>4. generated[job[w]] = 0
  BY <1>2, ChunksAre DEF TokensInv, ChunkAt
<1>5. ChunkAt(w)'
  BY <1>2, <1>3, <1>4 DEF ChunkAt
<1>6. QED BY <1>1, <1>2, <1>3, <1>5, ChunksOfOne DEF TokensInv, OnceInv

\* A stopped chain in the middle of a prompt or an answer.
LEMMA TokensLetGo ==
  ASSUME TypeInv, TypeInv', OnceInv, TokensInv, NEW w \in Worker, LetGo(w),
         \A v \in Worker \ {w} : remaining'[v] = remaining[v],
         \A r \in Request \ {job[w]} : generated'[r] = generated[r]
  PROVE  TokensInv'
<1>1. /\ job[w] \in Request /\ job[w] \in Running /\ Popped' = Popped
      /\ Waiting' = Waiting /\ UNCHANGED <<arrived, asked, finished>>
  BY LetGoMoves DEF OnceInv, Waiting
<1>2. job[w] \notin Waiting \cup Popped \cup finished /\ ~(job[w] > arrived)
  <2>1. job[w] \in 1 .. arrived /\ arrived \in Nat
    BY <1>1, BoundAssumption DEF OnceInv, PlacesCover, TypeInv, TypeOK, LoadOK
  <2>2. QED BY <1>1, <2>1, WhereIs
<1>3. Waiting \cup Popped \cup finished \subseteq Request
  BY WhereIs
<1>4. TokensOK'
  BY <1>1, <1>2, <1>3 DEF TokensInv, TokensOK
<1>5. Moves(w, "aborted", NoRequest)
  BY DEF LetGo, GiveUp, Moves, loadVars
<1>6. ChunksAddUp'
  BY <1>1, <1>5, MovesAt, ChunkAtRest, ChunksOfOne DEF TokensInv, OnceInv, InService
<1>7. QED BY <1>4, <1>6 DEF TokensInv

\* No chunk is done yet when the first is scheduled.
LEMMA TokensFirstChunk == \A w \in Worker :
  TypeInv /\ TypeInv' /\ OnceInv /\ TokensInv /\ FirstChunk(w) => TokensInv'
<1> SUFFICES ASSUME TypeInv, TypeInv', OnceInv, TokensInv, NEW w \in Worker, FirstChunk(w)
             PROVE  TokensInv'
  OBVIOUS
<1>1. pc[w] = "pinned" /\ UNCHANGED <<generated, remaining>> /\ HeldOnce
  BY DEF FirstChunk, OnceInv
<1>2. CASE LetGo(w)
  BY <1>1, <1>2, TokensLetGo
<1>3. CASE ~LetGo(w)
  <2>1. Moves(w, "prefill", job[w]) /\ job' = job /\ Still
    BY <1>1, <1>3, FirstChunkDoes, FirstChunkMoves DEF LetGo, Pinned
  <2>2. UNCHANGED <<arrived, asked, queue, finished, Popped>>
    BY <2>1 DEF Still, Hands, fateVars
  <2>3. pc'[w] = "prefill" /\ \A v \in Worker \ {w} : pc'[v] = pc[v]
    BY <2>1, MovesAt
  <2> DEFINE n == asked[job[w]].prompt
  <2>4. n \in Nat /\ generated[job[w]] = 0 /\ remaining[w] = n
    <3>1. job[w] \in Request
      BY <1>1, JobOf DEF Holding, InService
    <3>2. QED BY <1>1, <3>1, ChunksAre DEF ChunkAt, TokensInv, TypeInv, TypeOK, LoadOK
  <2>5. \E k \in 0 .. n : remaining[w] = n - k * PrefillChunkTokens
    <3>1. 0 \in 0 .. n /\ n = n - 0 * PrefillChunkTokens
      BY <2>4, LoadAssumption
    <3>2. QED BY <2>4, <3>1
  <2>6. ChunkAt(w)'
    BY <1>1, <2>1, <2>2, <2>3, <2>4, <2>5 DEF ChunkAt
  <2>7. ChunksAddUp'
    BY <1>1, <2>1, <2>2, <2>3, <2>6, ChunksOfOne DEF TokensInv
  <2>8. TokensOK'
    BY <1>1, <2>2, TokensKept DEF TokensInv, Waiting
  <2>9. QED BY <2>7, <2>8 DEF TokensInv
<1>4. QED BY <1>2, <1>3

LEMMA TokensPrefillChunk == \A w \in Worker :
  TypeInv /\ TypeInv' /\ OnceInv /\ TokensInv /\ PrefillChunk(w) => TokensInv'
<1> SUFFICES ASSUME TypeInv, TypeInv', OnceInv, TokensInv, NEW w \in Worker, PrefillChunk(w)
             PROVE  TokensInv'
  OBVIOUS
<1>1. /\ pc[w] = "prefill" /\ remaining' = [remaining EXCEPT ![w] = @ - Chunk(@)]
      /\ remaining'[w] > 0
      /\ UNCHANGED <<started, stopped, loadVars, arrived, asked, queue, generated, rejected>>
  BY DEF PrefillChunk, loadVars
<1>2. /\ remaining'[w] = remaining[w] - Chunk(remaining[w]) /\ remaining[w] \in Nat
      /\ \A v \in Worker \ {w} : remaining'[v] = remaining[v]
  BY <1>1, LeftNat DEF TypeInv, TypeOK, WorkOK
<1>3. CASE stopped
  BY <1>1, <1>2, <1>3, TokensLetGo DEF PrefillChunk, LetGo, Pinned
<1>4. CASE ~stopped
  <2>1. UNCHANGED <<pc, job, finished>>
    BY <1>4 DEF PrefillChunk
  <2>2. TokensOK'
    BY <1>1, <2>1 DEF TokensInv, TokensOK, Waiting, Popped
  <2>3. ChunkAt(w) /\ job[w] \in Request
    BY <1>1, ChunksAre, JobOf DEF TokensInv, Holding, InService
  <2> DEFINE n == asked[job[w]].prompt
  <2>4. n \in Nat
    BY <2>3 DEF TypeInv, TypeOK, LoadOK
  <2>5. PICK k \in 0 .. n : remaining[w] = n - k * PrefillChunkTokens
    BY <1>1, <2>3 DEF ChunkAt
  <2> HIDE DEF n
  <2>6. k + 1 \in 0 .. n /\ remaining'[w] = n - (k + 1) * PrefillChunkTokens
    BY <1>1, <1>2, <2>4, <2>5, OneChunkMore
  <2>7. ChunkAt(w)'
    <3>1. n' = n
      BY <1>1, <2>1 DEF n
    <3>2. generated[job[w]] = 0 /\ remaining'[w] # 0
      BY <1>1, <2>3 DEF ChunkAt
    <3>3. \E i \in 0 .. n : remaining'[w] = n - i * PrefillChunkTokens
      BY <2>6
    <3>4. QED BY <1>1, <2>1, <3>1, <3>2, <3>3 DEF ChunkAt, n
  <2>8. ChunksAddUp'
    BY <1>1, <1>2, <2>1, <2>7, ChunksOfOne DEF TokensInv, OnceInv
  <2>9. QED BY <2>2, <2>8 DEF TokensInv
<1>5. QED BY <1>3, <1>4

\* The request that gets a token was short of one.
LEMMA TokenFits ==
  ASSUME TypeInv, OnceInv, TokensInv, NEW w \in Worker, PrefillDone(w) \/ DecodeToken(w)
  PROVE  /\ DecodePhase(w) /\ pc[w] \in Pinned /\ pc[w] \in InService
         /\ job[w] \in Request /\ job[w] \in Running
         /\ remaining'[w] = 0 /\ \A v \in Worker \ {w} : remaining'[v] = remaining[v]
         /\ generated[job[w]] \in Nat /\ asked[job[w]].output \in Nat
         /\ generated[job[w]] < asked[job[w]].output
<1>1. /\ DecodePhase(w) /\ pc[w] \in {"prefill", "decode"}
      /\ pc[w] \in Pinned /\ pc[w] \in InService
  BY DEF PrefillDone, DecodeToken, InService, Pinned
<1>2. job[w] \in Request /\ job[w] \in Running
  BY <1>1, JobOf, HandsAre DEF OnceInv, Holding
<1>3. generated[job[w]] \in Nat /\ asked[job[w]].output \in Nat /\ remaining \in [Worker -> Nat]
  BY <1>2 DEF TypeInv, TypeOK, LoadOK, WorkOK
<1>4. asked[job[w]].output > 0
  BY <1>2 DEF OnceInv, PlacesCover, TokensInv, TokensOK
<1>5. ChunkAt(w)
  BY ChunksAre DEF TokensInv
<1>6. CASE PrefillDone(w)
  <2>1. generated[job[w]] = 0
    BY <1>5, <1>6 DEF ChunkAt, PrefillDone
  <2>2. remaining'[w] <= 0 /\ remaining' \in [Worker -> Nat]
    BY <1>6, LeftNat DEF PrefillDone
  <2>3. remaining'[w] = 0 /\ \A v \in Worker \ {w} : remaining'[v] = remaining[v]
    BY <1>3, <1>6, <2>2 DEF PrefillDone
  <2>4. QED BY <1>1, <1>2, <1>3, <1>4, <2>1, <2>3
<1>7. CASE DecodeToken(w)
  <2>1. remaining' = remaining /\ pc[w] = "decode"
    BY <1>7 DEF DecodeToken
  <2>2. remaining[w] = 0 /\ generated[job[w]] \in 1 .. asked[job[w]].output - 1
    BY <1>5, <2>1 DEF ChunkAt
  <2>3. QED BY <1>1, <1>2, <1>3, <2>1, <2>2
<1>8. QED BY <1>6, <1>7

LEMMA TokensOut == \A w \in Worker :
  TypeInv /\ TypeInv' /\ OnceInv /\ TokensInv /\ (PrefillDone(w) \/ DecodeToken(w))
    => TokensInv' /\ (Done(w) => generated'[job[w]] = asked[job[w]].output)
<1> SUFFICES ASSUME TypeInv, TypeInv', OnceInv, TokensInv, NEW w \in Worker,
                    PrefillDone(w) \/ DecodeToken(w)
             PROVE  TokensInv' /\ (Done(w) => generated'[job[w]] = asked[job[w]].output)
  OBVIOUS
<1> DEFINE r == job[w]
<1>1. /\ DecodePhase(w) /\ pc[w] \in Pinned /\ pc[w] \in InService
      /\ r \in Request /\ r \in Running
      /\ remaining'[w] = 0 /\ \A v \in Worker \ {w} : remaining'[v] = remaining[v]
      /\ generated[r] \in Nat /\ asked[r].output \in Nat
      /\ generated[r] < asked[r].output
  BY TokenFits
<1>2. generated'[r] = generated[r] + 1 /\ \A q \in Request \ {r} : generated'[q] = generated[q]
  BY <1>1, TokenOut
<1>3. Done(w) => generated'[r] = asked[r].output
  BY <1>1, <1>2 DEF Done, IsFinished
<1>4. r \notin Waiting \cup Popped \cup finished /\ ~(r > arrived) /\ HeldOnce
  <2>1. r \in 1 .. arrived /\ arrived \in Nat
    BY <1>1, BoundAssumption DEF OnceInv, PlacesCover, TypeInv, TypeOK, LoadOK
  <2>2. QED BY <1>1, <2>1, WhereIs DEF OnceInv
<1>5. Waiting \cup Popped \cup finished \subseteq Request
  BY WhereIs
<1>6. CASE LetGo(w)
  <2>1. ~Done(w)
    <3>1. pc'[w] = "aborted"
      BY <1>6 DEF LetGo, GiveUp, TypeInv, TypeOK, WorkOK
    <3>2. Done(w) => pc'[w] = "workerStep"
      BY DEF Done, Finish, TypeInv, TypeOK, WorkOK
    <3>3. QED BY <3>1, <3>2
  <2>2. TokensInv'
    BY <1>1, <1>2, <1>6, TokensLetGo
  <2>3. QED BY <2>1, <2>2
<1>7. CASE Done(w)
  <2>1. /\ finished' = finished \cup {r} /\ Popped' = Popped /\ Waiting' = Waiting
        /\ UNCHANGED <<arrived, asked>>
    BY <1>4, <1>7, DoneMoves DEF Waiting
  <2>2. TokensOK'
    BY <1>2, <1>3, <1>4, <1>5, <1>7, <2>1 DEF TokensInv, TokensOK
  <2>3. Moves(w, "workerStep", NoRequest)
    BY <1>7 DEF Done, DecodePhase, Finish, Moves, loadVars
  <2>4. ChunksAddUp'
    BY <1>1, <1>2, <1>4, <2>1, <2>3, MovesAt, ChunkAtRest, ChunksOfOne
    DEF TokensInv, InService
  <2>5. QED BY <1>3, <2>2, <2>4 DEF TokensInv
<1>8. CASE ScheduleDecode(w) /\ ~IsFinished(r, generated'[r])
  <2>1. /\ UNCHANGED <<arrived, asked, queue, job, finished>>
        /\ \E p \in {"stalled", "decode"} : pc' = [pc EXCEPT ![w] = p]
    BY <1>1, <1>8 DEF ScheduleDecode, DecodePhase, loadVars
  <2>2. PICK p \in {"stalled", "decode"} : pc' = [pc EXCEPT ![w] = p]
    BY <2>1
  <2>3. pc'[w] = p /\ \A v \in Worker \ {w} : pc'[v] = pc[v]
    BY <2>2 DEF TypeInv, TypeOK, WorkOK
  <2>4. Waiting' = Waiting /\ Popped' = Popped
    BY <1>1, <1>4, <1>8, <2>1, StillSchedule DEF Still, Hands, Waiting
  <2>5. TokensOK'
    BY <1>2, <1>4, <1>5, <2>1, <2>4 DEF TokensInv, TokensOK
  <2>6. generated'[r] \in 1 .. asked[r].output - 1
    BY <1>1, <1>2, <1>8 DEF IsFinished
  <2>7. ChunkAt(w)'
    BY <1>1, <2>1, <2>2, <2>3, <2>6 DEF ChunkAt
  <2>8. ChunksAddUp'
    BY <1>1, <1>2, <1>4, <2>1, <2>3, <2>7, ChunksOfOne DEF TokensInv
  <2>9. ~Done(w)
    <3>1. Done(w) => pc'[w] = "workerStep"
      BY DEF Done, Finish, TypeInv, TypeOK, WorkOK
    <3>2. QED BY <2>2, <2>3, <3>1
  <2>10. QED BY <2>5, <2>8, <2>9 DEF TokensInv
<1>9. LetGo(w) \/ Done(w) \/ (ScheduleDecode(w) /\ ~IsFinished(r, generated'[r]))
  BY <1>1 DEF DecodePhase, LetGo, Done
<1>10. QED BY <1>6, <1>7, <1>8, <1>9

\* A step that gives no token to anybody and leaves chunks alone.
LEMMA TokensSame ==
  ASSUME TokensInv, ChunksAddUp', UNCHANGED <<arrived, asked, queue, generated, finished, Popped>>
  PROVE  TokensInv'
BY DEF TokensInv, TokensOK, Waiting

LEMMA TokensIdle == \A w \in Worker :
  TypeInv /\ TypeInv' /\ OnceInv /\ TokensInv
    /\ (Exit(w) \/ Miss(w) \/ RetireOrPoll(w) \/ StallOver(w)) => TokensInv'
<1> SUFFICES ASSUME TypeInv, TypeInv', OnceInv, TokensInv, NEW w \in Worker,
                    Exit(w) \/ Miss(w) \/ RetireOrPoll(w) \/ StallOver(w)
             PROVE  TokensInv'
  OBVIOUS
<1>1. UNCHANGED <<arrived, asked, queue, generated, job, remaining, finished, Popped>>
  BY StillIdle DEF Still, Hands, fateVars, OnceInv, Exit, Miss, RetireOrPoll, StallOver
<1>2. ChunkAt(w)'
  <2>1. CASE StallOver(w)
    <3>1. pc[w] = "stalled" /\ pc'[w] = "decode"
      BY <2>1 DEF StallOver, TypeInv, TypeOK, WorkOK
    <3>2. QED BY <1>1, <3>1, ChunksAre DEF ChunkAt, TokensInv
  <2>2. CASE ~StallOver(w)
    <3>1. pc'[w] \notin InService
      BY <2>2 DEF Exit, Miss, RetireOrPoll, TypeInv, TypeOK, WorkOK, InService
    <3>2. QED BY <3>1, ChunkAtRest
  <2>3. QED BY <2>1, <2>2
<1>3. \A v \in Worker \ {w} : pc'[v] = pc[v]
  BY DEF Exit, Miss, RetireOrPoll, StallOver, TypeInv, TypeOK, WorkOK
<1>4. ChunksAddUp'
  BY <1>1, <1>2, <1>3, ChunksOfOne DEF TokensInv, OnceInv
<1>5. QED BY <1>1, <1>4, TokensSame

LEMMA TokensStart ==
  ASSUME TypeInv, TypeInv', OnceInv, TokensInv, Start
  PROVE  TokensInv'
<1>1. UNCHANGED <<arrived, asked, queue, generated, finished, Popped>>
  BY StillStart DEF Still, Hands, fateVars, OnceInv, Start
<1>2. ChunksAddUp'
  BY DEF Start, ChunksAddUp
<1>3. QED BY <1>1, <1>2, TokensSame

LEMMA TokensStop ==
  ASSUME TokensInv, UNCHANGED <<arrived, asked, queue, generated, pc, job, remaining, finished>>
  PROVE  TokensInv'
BY DEF TokensInv, TokensOK, ChunksAddUp, Waiting, Popped

LEMMA TokensStep == TypeInv /\ TypeInv' /\ OnceInv /\ TokensInv /\ [Next]_vars => TokensInv'
<1> SUFFICES ASSUME TypeInv, TypeInv', OnceInv, TokensInv, [Next]_vars PROVE TokensInv'
  OBVIOUS
<1>1. CASE UNCHANGED vars \/ Stop \/ StopAtQuiescence \/ Terminated
  BY <1>1, TokensStop
  DEF Stop, StopAtQuiescence, Terminated, vars, loadVars, workVars, fateVars
<1>2. ASSUME NEW w \in Worker, WorkerStep(w) PROVE TokensInv'
  BY <1>2, WorkerSplit, TokensIdle, TokensPop, TokensReject, TokensAdmit, TokensAcquire,
     TokensFirstChunk, TokensPrefillChunk, TokensOut
<1>3. QED BY <1>1, <1>2, TokensStart, TokensArrive DEF Next

\* However callbacks interleave, a prompt is prefilled in whole chunks that add up to
\* it, no token is out before the whole prompt is in, and decoding stops short of what
\* was asked for: for any chunk size, any lengths and any number of workers.
THEOREM ChunksAddUpHolds == Spec => []ChunksAddUp
<1>1. TokensInv => ChunksAddUp
  BY DEF TokensInv
<1>2. QED
  BY TypeInit, TypeStep, OnceInit, OnceStep, TokensInit, TokensStep, <1>1, PTL DEF Spec

-----------------------------------------------------------------------------
(* The books *)

Outputs == [r \in Request |-> asked[r].output]
Prompts == [r \in Request |-> asked[r].prompt]
Need    == [r \in Request |-> BlocksNeeded(asked[r].prompt)]

\* The requests that were admitted; those of them with blocks in the pool, which another
\* Allocate did not take in the gap; and those whose prompts were charged.
Begun   == finished \cup Running \cup abandoned
Keeping == (Running \cup abandoned) \ robbed
Charged == finished \cup (Running \ InGap) \cup abandoned

Robbery == robbed \subseteq Begun

BooksInv == TypeInv /\ OnceInv /\ TokensInv /\ AccountsExact /\ Robbery

LEMMA AskTypes ==
  ASSUME TypeInv
  PROVE  /\ Outputs \in [Request -> Int] /\ Prompts \in [Request -> Int]
         /\ Need \in [Request -> Nat]
<1>1. \A r \in Request : asked[r].prompt \in Nat /\ asked[r].output \in Nat
  BY DEF TypeInv, TypeOK, LoadOK
<1>2. \A r \in Request : BlocksNeeded(asked[r].prompt) \in Nat
  BY <1>1, BlocksNat
<1>3. QED BY <1>1, <1>2 DEF Outputs, Prompts, Need

LEMMA PlacesFinite ==
  ASSUME TypeInv, OnceInv
  PROVE  /\ Running \subseteq Request /\ IsFiniteSet(Running)
         /\ Keeping \subseteq Request /\ IsFiniteSet(Keeping)
         /\ finished \subseteq Request /\ IsFiniteSet(finished)
         /\ rejected \subseteq Request /\ IsFiniteSet(rejected)
         /\ Charged \subseteq Request /\ IsFiniteSet(Charged)
         /\ Begun \subseteq Request
<1>1. IsFiniteSet(Request)
  BY FS_Interval, BoundAssumption DEF Request
<1>2. /\ Running \subseteq Request /\ Keeping \subseteq Request /\ finished \subseteq Request
      /\ rejected \subseteq Request /\ Charged \subseteq Request /\ Begun \subseteq Request
  BY WhereIs DEF Keeping, Charged, Begun
<1>3. QED BY <1>1, <1>2, FS_Subset

LEMMA GapRuns ==
  ASSUME TypeInv, OnceInv
  PROVE  InGap \subseteq Running
BY HandsAre DEF OnceInv, InService

\* KVExact, said with the blocks of so many owners.
KVForm == kvBlocks = Blocked(Need, Keeping) /\ Cardinality(kvBlocks) <= KVCapacity

LEMMA KVAre ==
  TypeInv /\ OnceInv => (KVExact <=> KVForm)
<1> SUFFICES ASSUME TypeInv, OnceInv PROVE KVExact <=> KVForm
  OBVIOUS
<1>1. \A r \in Keeping : BlocksFor(r) = {r} \X (0 .. Need[r] - 1)
  BY PlacesFinite DEF BlocksFor, Need
<1>2. UNION {BlocksFor(r) : r \in Keeping} = Blocked(Need, Keeping)
  BY <1>1 DEF Blocked
<1>3. QED BY <1>2 DEF KVExact, KVForm, Keeping

LEMMA KVAreNext ==
  (TypeInv /\ OnceInv)' => (KVExact <=> KVForm)'
BY KVAre, PTL

LEMMA BlocksFinite ==
  ASSUME TypeInv, OnceInv, KVExact
  PROVE  /\ kvBlocks = Blocked(Need, Keeping) /\ Cardinality(kvBlocks) <= KVCapacity
         /\ IsFiniteSet(kvBlocks) /\ Cardinality(kvBlocks) = SumFunctionOnSet(Need, Keeping)
<1>1. Keeping \in SUBSET Request /\ IsFiniteSet(Keeping) /\ Need \in [Request -> Nat]
  BY PlacesFinite, AskTypes
<1>2. kvBlocks = Blocked(Need, Keeping) /\ Cardinality(kvBlocks) <= KVCapacity
  BY KVAre DEF KVForm
<1>3. /\ IsFiniteSet(Blocked(Need, Keeping))
      /\ Cardinality(Blocked(Need, Keeping)) = SumFunctionOnSet(Need, Keeping)
  BY <1>1, BlockedCardinality
<1>4. QED BY <1>2, <1>3

\* What a sweep leaves: the blocks of all but its victims.
LEMMA SweptBlocks ==
  ASSUME TypeInv, OnceInv, KVExact, NEW victims \in SUBSET Unpinned
  PROVE  /\ HeldWithout(victims) = Blocked(Need, Keeping \ victims)
         /\ victims \subseteq InGap
         /\ IsFiniteSet(HeldWithout(victims))
         /\ Cardinality(HeldWithout(victims)) <= KVCapacity
<1>1. /\ kvBlocks = Blocked(Need, Keeping) /\ IsFiniteSet(kvBlocks)
      /\ Cardinality(kvBlocks) <= KVCapacity /\ KVCapacity \in Int
  BY BlocksFinite, KVAssumption
<1>2. victims \subseteq InGap
  BY DEF Unpinned
<1>3. \A b : b \in Blocked(Need, Keeping \ victims)
              <=> b \in Blocked(Need, Keeping) /\ b[1] \notin victims
  BY DEF Blocked
<1>4. HeldWithout(victims) = Blocked(Need, Keeping \ victims)
  BY <1>1, <1>3 DEF HeldWithout
<1>5. HeldWithout(victims) \in SUBSET kvBlocks
  BY DEF HeldWithout
<1>6. IsFiniteSet(HeldWithout(victims)) /\ Cardinality(HeldWithout(victims)) <= KVCapacity
  BY <1>1, <1>5, BlocksLeft, FS_Subset
<1>7. QED BY <1>2, <1>4, <1>6

\* Blocks are taken for a request that fits in what the sweep has left.
LEMMA KVTake ==
  ASSUME TypeInv, OnceInv, TypeInv', OnceInv', KVExact, NEW r \in Request,
         NEW victims \in SUBSET Unpinned, Room(HeldWithout(victims), r),
         Keeping' = (Keeping \ victims) \cup {r}, asked' = asked,
         kvBlocks' = HeldWithout(victims) \cup BlocksFor(r)
  PROVE  KVExact'
<1> DEFINE n == BlocksNeeded(asked[r].prompt)
           held == HeldWithout(victims)
<1>1. n \in Nat /\ Need[r] = n /\ Need' = Need
  BY BlocksNat DEF Need, TypeInv, TypeOK, LoadOK
<1>2. held = Blocked(Need, Keeping \ victims) /\ IsFiniteSet(held)
  BY SweptBlocks
<1>3. Cardinality(held) + n <= KVCapacity /\ KVCapacity \in Int
  BY KVAssumption DEF Room
<1>4. kvBlocks' = held \cup ({r} \X (0 .. n - 1))
  BY DEF BlocksFor
<1> HIDE DEF n, held
<1>5. Cardinality(kvBlocks') <= KVCapacity
  <2>1. Cardinality(held \cup ({r} \X (0 .. n - 1))) <= KVCapacity
    BY <1>1, <1>2, <1>3, BlocksFit
  <2>2. QED BY <1>4, <2>1
<1>6. kvBlocks' = Blocked(Need, Keeping')
  <2>1. Blocked(Need, (Keeping \ victims) \cup {r})
          = Blocked(Need, Keeping \ victims) \cup ({r} \X (0 .. n - 1))
    BY <1>1, BlockedAdd
  <2>2. QED BY <1>2, <1>4, <2>1
<1>7. KVForm'
  BY <1>1, <1>5, <1>6 DEF KVForm
<1>8. QED BY <1>7, KVAreNext

\* All of them are given back.
LEMMA KVFree ==
  ASSUME TypeInv, OnceInv, TypeInv', OnceInv', KVExact, NEW r \in Request,
         Keeping' = Keeping \ {r}, asked' = asked,
         kvBlocks' = {b \in kvBlocks : b[1] # r}
  PROVE  KVExact'
<1>1. IsFiniteSet(kvBlocks) /\ kvBlocks = Blocked(Need, Keeping) /\ Cardinality(kvBlocks) <= KVCapacity
  BY BlocksFinite
<1>2. kvBlocks' = Blocked(Need, Keeping \ {r})
  <2>1. \A b : b \in Blocked(Need, Keeping \ {r}) <=> b \in Blocked(Need, Keeping) /\ b[1] # r
    BY BlockedRemove
  <2>2. QED BY <1>1, <2>1
<1>3. Need' = Need
  BY DEF Need
<1>4. Cardinality(kvBlocks') <= KVCapacity
  <2>1. kvBlocks' \in SUBSET kvBlocks /\ KVCapacity \in Int
    BY KVAssumption
  <2>2. QED BY <1>1, <2>1, BlocksLeft
<1>5. KVForm'
  BY <1>2, <1>3, <1>4 DEF KVForm
<1>6. QED BY <1>5, KVAreNext

\* MetricsExact without the tokens, which TokensOK has.
MetricsForm ==
  /\ reg["completed"] = Cardinality(finished)
  /\ reg["rejections"] = Cardinality(rejected) /\ reg["dropped"] = reg["rejections"]
  /\ reg["decodeTokens"] = SumFunctionOnSet(Outputs, finished)
  /\ reg["prefillTokens"] = SumFunctionOnSet(Prompts, Charged)

LEMMA MetricsAre == TokensInv => (MetricsExact <=> MetricsForm)
BY DEF MetricsExact, MetricsForm, TokensInv, TokensOK, Outputs, Prompts, Charged

LEMMA MetricsAreNext == TokensInv' => (MetricsExact <=> MetricsForm)'
BY MetricsAre, PTL

LEMMA BooksInit == Init => BooksInv
<1> SUFFICES ASSUME Init PROVE BooksInv
  OBVIOUS
<1>1. TypeInv /\ OnceInv /\ TokensInv
  BY TypeInit, OnceInit, TokensInit
<1>2. /\ finished = {} /\ rejected = {} /\ abandoned = {} /\ robbed = {} /\ kvBlocks = {}
      /\ inflight = 0 /\ \A k \in Counter : reg[k] = 0
  BY DEF Init
<1>3. Running = {}
  BY DEF Init, Running
<1>4. Charged = {} /\ Robbery
  BY <1>2, <1>3 DEF Charged, Robbery
<1>5. InFlightExact /\ KVExact
  BY <1>2, <1>3, FS_EmptySet, KVAssumption DEF InFlightExact, KVExact
<1>6. MetricsExact
  BY <1>1, <1>2, <1>4, FS_EmptySet, SumEmpty, MetricsAre DEF Counter, MetricsForm
<1>7. QED BY <1>1, <1>4, <1>5, <1>6 DEF BooksInv, AccountsExact

LEMMA BooksStill ==
  ASSUME BooksInv, TokensInv', Still
  PROVE  AccountsExact' /\ Robbery'
<1>1. /\ UNCHANGED <<asked, inflight, kvBlocks, robbed, finished, rejected, abandoned, reg>>
      /\ Running' = Running /\ InGap' = InGap
  BY DEF Still, Hands, fateVars
<1>2. Robbery' /\ InFlightExact'
  BY <1>1 DEF Robbery, Begun, BooksInv, AccountsExact, InFlightExact
<1>3. KVExact'
  BY <1>1 DEF BooksInv, AccountsExact, KVExact, BlocksFor
<1>4. MetricsExact'
  <2>1. Charged' = Charged /\ Prompts' = Prompts /\ Outputs' = Outputs
    BY <1>1 DEF Charged, Prompts, Outputs
  <2>2. MetricsForm
    BY MetricsAre DEF BooksInv, AccountsExact
  <2>3. QED BY <1>1, <2>1, <2>2, MetricsAreNext DEF MetricsForm
<1>5. QED BY <1>2, <1>3, <1>4 DEF AccountsExact

LEMMA BooksArrive ==
  ASSUME BooksInv, TokensInv', Arrive
  PROVE  AccountsExact' /\ Robbery'
<1>1. TypeInv /\ OnceInv /\ TokensInv /\ KVExact /\ MetricsExact /\ InFlightExact /\ Robbery
  BY DEF BooksInv, AccountsExact
<1>2. /\ UNCHANGED <<Running, InGap, inflight, kvBlocks, robbed, finished, rejected, abandoned, reg>>
  BY <1>1, ArriveMoves DEF OnceInv, Hands, fateVars
<1>3. Charged' = Charged /\ InFlightExact' /\ Robbery'
  BY <1>1, <1>2 DEF Charged, Begun, Robbery, InFlightExact
<1>4. \A r \in Begun : r \in Request /\ asked'[r] = asked[r]
  <2>1. Begun \subseteq Request /\ Begun \subseteq 1 .. arrived /\ arrived \in Nat
    BY <1>1, PlacesFinite DEF Begun, OnceInv, PlacesCover, TypeInv, TypeOK, LoadOK
  <2>2. CASE stopped
    BY <2>1, <2>2 DEF Arrive
  <2>3. CASE ~stopped
    <3>1. arrived' = arrived + 1 /\ \A r \in Begun : r # arrived'
      BY <2>1, <2>3 DEF Arrive
    <3>2. \A r \in Request \ {arrived'} : asked'[r] = asked[r]
      BY <1>1, <2>3 DEF Arrive, TypeInv, TypeOK, LoadOK
    <3>3. QED BY <2>1, <3>1, <3>2
  <2>4. QED BY <2>2, <2>3
<1>5. KVExact'
  <2>1. Running \cup abandoned \subseteq Begun
    BY DEF Begun
  <2>2. \A r \in Running \cup abandoned : BlocksFor(r)' = BlocksFor(r)
    BY <1>4, <2>1 DEF BlocksFor
  <2>3. QED BY <1>1, <1>2, <2>2 DEF KVExact
<1>6. IsFiniteSet(Charged) /\ IsFiniteSet(finished) /\ finished \subseteq Charged /\ Charged \subseteq Begun
  BY <1>1, PlacesFinite DEF Charged, Begun
<1>7. /\ \A r \in Charged : Prompts'[r] = Prompts[r]
      /\ \A r \in finished : Outputs'[r] = Outputs[r]
  BY <1>4, <1>6 DEF Prompts, Outputs
<1>8. SumFunctionOnSet(Prompts', Charged) = SumFunctionOnSet(Prompts, Charged)
  BY <1>6, <1>7, SumSame
<1>9. SumFunctionOnSet(Outputs', finished) = SumFunctionOnSet(Outputs, finished)
  BY <1>6, <1>7, SumSame
<1>10. MetricsExact'
  BY <1>1, <1>2, <1>3, <1>8, <1>9, MetricsAre, MetricsAreNext DEF MetricsForm
<1>11. QED BY <1>3, <1>5, <1>10 DEF AccountsExact

LEMMA BooksPop ==
  ASSUME BooksInv, TypeInv', TokensInv', NEW w \in Worker, Pop(w)
  PROVE  AccountsExact' /\ Robbery'
<1>1. /\ Running' = Running /\ InGap' = InGap /\ HeldOnce'
      /\ UNCHANGED <<asked, inflight, kvBlocks, robbed, finished, rejected, abandoned, reg>>
  BY PopMoves DEF BooksInv, fateVars
<1>2. Robbery' /\ InFlightExact'
  BY <1>1 DEF Robbery, Begun, BooksInv, AccountsExact, InFlightExact
<1>3. KVExact'
  BY <1>1 DEF BooksInv, AccountsExact, KVExact, BlocksFor
<1>4. MetricsExact'
  <2>1. Charged' = Charged /\ Prompts' = Prompts /\ Outputs' = Outputs
    BY <1>1 DEF Charged, Prompts, Outputs
  <2>2. MetricsForm
    BY MetricsAre DEF BooksInv, AccountsExact
  <2>3. QED BY <1>1, <2>1, <2>2, MetricsAreNext DEF MetricsForm
<1>5. QED BY <1>2, <1>3, <1>4 DEF AccountsExact

\* Allocate fails: the victims have lost their blocks all the same.
LEMMA BooksReject ==
  ASSUME BooksInv, TypeInv', OnceInv', TokensInv', NEW w \in Worker, Reject(w)
  PROVE  AccountsExact' /\ Robbery'
<1> DEFINE r == job[w]
<1>1. /\ TypeInv /\ OnceInv /\ HeldOnce /\ TokensInv /\ InFlightExact /\ KVExact /\ MetricsExact
      /\ Robbery
  BY DEF BooksInv, AccountsExact, OnceInv
<1>2. /\ r \in Popped /\ rejected' = rejected \cup {r} /\ Running' = Running /\ InGap' = InGap
      /\ UNCHANGED <<asked, inflight, finished, abandoned>>
  BY <1>1, RejectMoves
<1>3. PICK victims \in SUBSET Unpinned :
        Swept(r, victims) /\ kvBlocks' = HeldWithout(victims)
  BY DEF Reject
<1>4. /\ kvBlocks' = Blocked(Need, Keeping \ victims) /\ victims \subseteq InGap
      /\ Cardinality(kvBlocks') <= KVCapacity /\ robbed' = robbed \cup victims
  BY <1>1, <1>3, SweptBlocks DEF Swept
<1>5. Robbery' /\ InFlightExact'
  BY <1>1, <1>2, <1>4, GapRuns DEF Robbery, Begun, InFlightExact
<1>6. KVExact'
  <2>1. Keeping' = Keeping \ victims /\ Need' = Need
    BY <1>2, <1>4 DEF Keeping, Need
  <2>2. KVForm'
    BY <1>4, <2>1 DEF KVForm
  <2>3. QED BY <2>2, KVAreNext
<1>7. Charged' = Charged /\ Outputs' = Outputs /\ Prompts' = Prompts
  BY <1>2 DEF Charged, Outputs, Prompts
<1>8. r \notin rejected /\ IsFiniteSet(rejected)
  BY <1>1, <1>2, WhereIs, PlacesFinite
<1>9. Cardinality(rejected') = Cardinality(rejected) + 1
  BY <1>2, <1>8, CountOneMore
<1>10. /\ reg'["rejections"] = reg["rejections"] + 1 /\ reg'["dropped"] = reg["dropped"] + 1
       /\ \A k \in Counter \ {"rejections", "dropped"} : reg'[k] = reg[k]
  <2>1. reg' = [reg EXCEPT !["rejections"] = reg["rejections"] + 1,
                           !["dropped"] = reg["dropped"] + 1]
    BY DEF Reject
  <2>2. QED BY <1>1, <2>1 DEF TypeInv, TypeOK, FateOK, Counter
<1>11. MetricsExact'
  BY <1>1, <1>2, <1>7, <1>9, <1>10, MetricsAre, MetricsAreNext DEF Counter, MetricsForm
<1>12. QED BY <1>5, <1>6, <1>11 DEF AccountsExact

\* Allocate grants: the blocks of the new request come in, those of the victims go.
LEMMA BooksAdmit ==
  ASSUME BooksInv, TypeInv', OnceInv', TokensInv', NEW w \in Worker, Admit(w)
  PROVE  AccountsExact' /\ Robbery'
<1> DEFINE r == job[w]
<1>1. /\ TypeInv /\ OnceInv /\ HeldOnce /\ TokensInv /\ InFlightExact /\ KVExact /\ MetricsExact
      /\ Robbery
  BY DEF BooksInv, AccountsExact, OnceInv
<1>2. /\ r \in Request /\ r \in Popped /\ Running' = Running \cup {r} /\ InGap' = InGap \cup {r}
      /\ inflight' = inflight + 1 /\ UNCHANGED <<asked, finished, rejected, abandoned, reg>>
  BY <1>1, AdmitMoves
<1>3. PICK victims \in SUBSET Unpinned :
        /\ Swept(r, victims) /\ Room(HeldWithout(victims), r)
        /\ kvBlocks' = HeldWithout(victims) \cup BlocksFor(r)
  BY DEF Admit
<1>4. robbed' = robbed \cup victims /\ victims \subseteq InGap /\ InGap \subseteq Running
  BY <1>1, <1>3, SweptBlocks, GapRuns DEF Swept
<1>5. r \notin Begun
  BY <1>1, <1>2, WhereIs DEF Begun
<1> HIDE DEF r
<1>6. r \notin Running /\ r \notin robbed /\ r \notin victims
  BY <1>1, <1>4, <1>5 DEF Begun, Robbery
<1>7. Robbery'
  BY <1>1, <1>2, <1>4 DEF Robbery, Begun
<1>8. Keeping' = (Keeping \ victims) \cup {r}
  BY <1>2, <1>4, <1>6 DEF Keeping
<1>9. KVExact'
  BY <1>1, <1>2, <1>3, <1>8, KVTake
<1>10. InFlightExact'
  <2>1. IsFiniteSet(Running)
    BY <1>1, PlacesFinite
  <2>2. Cardinality(Running \cup {r}) = Cardinality(Running) + 1
    BY <1>6, <2>1, CountOneMore
  <2>3. QED BY <1>1, <1>2, <2>2 DEF InFlightExact
<1>11. Charged' = Charged /\ Prompts' = Prompts /\ Outputs' = Outputs
  BY <1>2, <1>6 DEF Charged, Prompts, Outputs
<1>12. MetricsExact'
  BY <1>1, <1>2, <1>11, MetricsAre, MetricsAreNext DEF MetricsForm
<1>13. QED BY <1>7, <1>9, <1>10, <1>12 DEF AccountsExact

\* Acquire: the prompt is charged, also when its blocks have gone.
LEMMA BooksAcquire ==
  ASSUME BooksInv, TypeInv', TokensInv', NEW w \in Worker, Acquire(w)
  PROVE  AccountsExact' /\ Robbery'
<1> DEFINE r == job[w]
<1>1. /\ TypeInv /\ OnceInv /\ HeldOnce /\ TokensInv /\ InFlightExact /\ KVExact /\ MetricsExact
      /\ Robbery
  BY DEF BooksInv, AccountsExact, OnceInv
<1>2. /\ r \in Request /\ r \in InGap /\ r \in Running /\ Running' = Running
      /\ InGap' = InGap \ {r}
      /\ UNCHANGED <<asked, inflight, kvBlocks, robbed, finished, rejected, abandoned>>
  BY <1>1, AcquireMoves
<1>3. reg' = [reg EXCEPT !["prefillTokens"] = reg["prefillTokens"] + asked[r].prompt]
  BY DEF Acquire
<1>4. r \notin finished \cup abandoned
  BY <1>1, <1>2, WhereIs
<1> HIDE DEF r
<1>5. Robbery' /\ InFlightExact' /\ KVExact'
  BY <1>1, <1>2 DEF Robbery, Begun, InFlightExact, KVExact, BlocksFor
<1>6. Charged' = Charged \cup {r} /\ r \notin Charged
  BY <1>2, <1>4 DEF Charged
<1>7. Prompts' = Prompts /\ Outputs' = Outputs /\ Prompts[r] = asked[r].prompt
  BY <1>2 DEF Prompts, Outputs
<1>8. SumFunctionOnSet(Prompts, Charged \cup {r}) = SumFunctionOnSet(Prompts, Charged) + Prompts[r]
  <2>1. Charged \in SUBSET Request /\ IsFiniteSet(Charged) /\ Prompts \in [Request -> Int]
    BY <1>1, PlacesFinite, AskTypes
  <2>2. QED BY <1>2, <1>6, <2>1, SumAdd
<1>9. /\ reg'["prefillTokens"] = reg["prefillTokens"] + Prompts[r]
      /\ \A k \in Counter \ {"prefillTokens"} : reg'[k] = reg[k]
  BY <1>1, <1>3, <1>7 DEF TypeInv, TypeOK, FateOK, Counter
<1>10. MetricsExact'
  BY <1>1, <1>2, <1>6, <1>7, <1>8, <1>9, MetricsAre, MetricsAreNext DEF Counter, MetricsForm
<1>11. QED BY <1>5, <1>10 DEF AccountsExact

\* One request fewer is running.
LEMMA CountRelease ==
  ASSUME BooksInv, NEW r \in Running, Running' = Running \ {r}, inflight' = inflight - 1
  PROVE  InFlightExact'
<1>1. IsFiniteSet(Running)
  BY PlacesFinite DEF BooksInv
<1>2. Cardinality(Running \ {r}) = Cardinality(Running) - 1
  BY <1>1, CountOneLess
<1>3. QED BY <1>2 DEF InFlightExact, BooksInv, AccountsExact

LEMMA BooksLetGo ==
  ASSUME BooksInv, TypeInv', TokensInv', NEW w \in Worker, LetGo(w)
  PROVE  AccountsExact' /\ Robbery'
<1> DEFINE r == job[w]
<1>1. /\ TypeInv /\ OnceInv /\ HeldOnce /\ TokensInv /\ KVExact /\ MetricsExact /\ Robbery
  BY DEF BooksInv, AccountsExact, OnceInv
<1>2. /\ r \in Running /\ Running' = Running \ {r} /\ abandoned' = abandoned \cup {r}
      /\ inflight' = inflight - 1 /\ InGap' = InGap /\ r \notin InGap
      /\ UNCHANGED <<asked, kvBlocks, robbed, finished, rejected, reg>>
  BY <1>1, LetGoMoves
<1>3. (Running \cup abandoned)' = Running \cup abandoned
  BY <1>2
<1>4. KVExact'
  BY <1>1, <1>2, <1>3 DEF KVExact, BlocksFor
<1> HIDE DEF r
<1>5. /\ Charged' = Charged /\ Begun' = Begun /\ Robbery'
      /\ Prompts' = Prompts /\ Outputs' = Outputs
  BY <1>1, <1>2 DEF Charged, Begun, Robbery, Prompts, Outputs
<1>6. MetricsExact'
  BY <1>1, <1>2, <1>5, MetricsAre, MetricsAreNext DEF MetricsForm
<1>7. QED BY <1>2, <1>4, <1>5, <1>6, CountRelease DEF AccountsExact

LEMMA BooksDone ==
  ASSUME BooksInv, TypeInv', OnceInv', TokensInv', NEW w \in Worker, Done(w)
  PROVE  AccountsExact' /\ Robbery'
<1> DEFINE r == job[w]
<1>1. /\ TypeInv /\ OnceInv /\ HeldOnce /\ TokensInv /\ KVExact /\ MetricsExact /\ Robbery
  BY DEF BooksInv, AccountsExact, OnceInv
<1>2. /\ r \in Request /\ r \in Running /\ Running' = Running \ {r}
      /\ finished' = finished \cup {r} /\ inflight' = inflight - 1
      /\ kvBlocks' = {b \in kvBlocks : b[1] # r} /\ InGap' = InGap /\ r \notin InGap
      /\ UNCHANGED <<asked, robbed, rejected, abandoned>>
  BY <1>1, DoneMoves
<1>3. r \notin finished \cup abandoned
  BY <1>1, <1>2, WhereIs
<1>4. generated'[r] = Outputs[r]
  <2>1. \A q \in finished' : generated'[q] = asked'[q].output
    BY DEF TokensInv, TokensOK
  <2>2. QED BY <1>2, <2>1 DEF Outputs
<1>5. reg' = [reg EXCEPT !["completed"] = reg["completed"] + 1,
                         !["decodeTokens"] = reg["decodeTokens"] + generated'[r]]
  BY DEF Done, Finish
<1> HIDE DEF r
<1>6. /\ Keeping' = Keeping \ {r} /\ Charged' = Charged /\ Robbery'
      /\ Outputs' = Outputs /\ Prompts' = Prompts
  BY <1>1, <1>2, <1>3 DEF Keeping, Charged, Begun, Robbery, Outputs, Prompts
<1>7. KVExact'
  BY <1>1, <1>2, <1>6, KVFree
<1>8. finished \in SUBSET Request /\ IsFiniteSet(finished) /\ Outputs \in [Request -> Int]
  BY <1>1, PlacesFinite, AskTypes
<1>9. /\ Cardinality(finished \cup {r}) = Cardinality(finished) + 1
      /\ SumFunctionOnSet(Outputs, finished \cup {r})
           = SumFunctionOnSet(Outputs, finished) + Outputs[r]
  BY <1>2, <1>3, <1>8, CountOneMore, SumAdd
<1>10. /\ reg'["completed"] = reg["completed"] + 1
       /\ reg'["decodeTokens"] = reg["decodeTokens"] + Outputs[r]
       /\ \A k \in Counter \ {"completed", "decodeTokens"} : reg'[k] = reg[k]
  BY <1>1, <1>4, <1>5 DEF TypeInv, TypeOK, FateOK, Counter
<1>11. MetricsExact'
  BY <1>1, <1>2, <1>6, <1>9, <1>10, MetricsAre, MetricsAreNext DEF Counter, MetricsForm
<1>12. QED BY <1>2, <1>6, <1>7, <1>11, CountRelease DEF AccountsExact

LEMMA BooksStep == BooksInv /\ [Next]_vars => BooksInv'
<1> SUFFICES ASSUME BooksInv, [Next]_vars PROVE BooksInv'
  OBVIOUS
<1>1. TypeInv /\ OnceInv /\ TokensInv /\ HeldOnce
  BY DEF BooksInv, OnceInv
<1>2. TypeInv' /\ OnceInv' /\ TokensInv'
  BY <1>1, TypeStep, OnceStep, TokensStep
<1>3. AccountsExact' /\ Robbery'
  BY <1>1, <1>2, StepMoves, BooksStill, BooksArrive, BooksPop, BooksReject, BooksAdmit,
     BooksAcquire, BooksLetGo, BooksDone
<1>4. QED BY <1>2, <1>3 DEF BooksInv

\* Whichever way a chain leaves its request and however callbacks interleave, also between
\* Allocate and Acquire, its admission is released once, its blocks are freed unless it
\* was given up or another Allocate took them in the gap, and each counter counts it once:
\* on either clock, for every number of workers and requests and every size of the pool.
THEOREM AccountsExactHolds == Spec => []AccountsExact
<1>1. BooksInv => AccountsExact
  BY DEF BooksInv
<1>2. QED BY BooksInit, BooksStep, <1>1, PTL DEF Spec

-----------------------------------------------------------------------------
(* The order of admission, on the simulated clock *)

\* One worker at a time is inside a callback, so that no sweep finds a victim; a request
\* that has been popped is older than any that wait, and the engine has not stopped
\* since: nothing runs until it is admitted or rejected.
OrderInv ==
  /\ \A v, w \in Worker : pc[v] \in Inside /\ pc[w] \in Inside => v = w
  /\ \A w \in Worker : pc[w] = "popped" => ~stopped /\ \A x \in Waiting : job[w] < x
  /\ robbed = {}

LEMMA OrderInit == Init => OrderInv
BY DEF Init, OrderInv, Inside

\* Nobody pops, arrives or stops, and nobody comes in.
LEMMA OrderSame ==
  ASSUME OrderInv, UNCHANGED <<queue, stopped, robbed>>,
         \A v \in Worker :
           /\ pc'[v] \in Inside => pc[v] \in Inside
           /\ pc'[v] = "popped" => pc[v] = "popped" /\ job'[v] = job[v]
  PROVE  OrderInv'
BY DEF OrderInv, Waiting

\* Nobody is inside.
LEMMA OrderNone ==
  ASSUME \A v \in Worker : pc'[v] \notin Inside, OrderInv, robbed' = robbed
  PROVE  OrderInv'
BY DEF OrderInv, Inside

\* What is popped sweeps nothing away.
LEMMA NoVictims ==
  ASSUME OrderInv, NEW w \in Worker, pc[w] = "popped", NEW victims \in SUBSET Unpinned
  PROVE  victims = {} /\ HeldWithout(victims) = kvBlocks
<1>1. \A v \in Worker : pc[v] # "gap"
  BY DEF OrderInv, Inside
<1>2. Unpinned = {}
  BY <1>1 DEF Unpinned, InGap
<1>3. QED BY <1>2 DEF HeldWithout

LEMMA OrderStep ==
  ASSUME ~RealClock
  PROVE  TypeInv /\ TypeInv' /\ OnceInv /\ OrderInv /\ [Next]_vars => OrderInv'
<1> SUFFICES ASSUME TypeInv, TypeInv', OnceInv, OrderInv, [Next]_vars PROVE OrderInv'
  OBVIOUS
<1>1. 0 \notin Worker /\ pc \in [Worker -> Points] /\ job \in [Worker -> Request \cup {NoRequest}]
  BY GPUAssumption DEF Worker, TypeInv, TypeOK, WorkOK
<1>2. CASE UNCHANGED vars \/ Terminated
  BY <1>2, OrderSame DEF Terminated, vars, workVars, fateVars
<1>3. CASE Start
  BY <1>3, OrderNone DEF Start, Inside, fateVars
<1>4. CASE Arrive \/ Stop
  <2>1. pc' = pc /\ Alone(0) /\ robbed' = robbed
    BY <1>4 DEF Arrive, Stop, workVars, fateVars
  <2>2. \A v \in Worker : pc[v] \notin Inside
    BY <1>1, <2>1 DEF Alone
  <2>3. QED BY <2>1, <2>2, OrderNone
<1>5. CASE StopAtQuiescence
  <2>1. pc' = pc /\ robbed' = robbed /\ \A v \in Worker : pc[v] \in Ended
    BY <1>5 DEF StopAtQuiescence, Quiescent, workVars, fateVars
  <2>2. QED BY <2>1, OrderNone DEF Ended, Inside
<1>6. ASSUME NEW w \in Worker, WorkerStep(w) PROVE OrderInv'
  <2>1. CASE Pop(w)
    <3>1. /\ Head(queue) \in Waiting /\ Waiting' = Waiting \ {Head(queue)}
          /\ \A x \in Waiting : Head(queue) <= x
      BY <2>1, PopMoves
    <3>2. \A x \in Waiting' : Head(queue) < x
      <4> SUFFICES ASSUME NEW x \in Waiting' PROVE Head(queue) < x
        OBVIOUS
      <4>1. x \in Waiting /\ x # Head(queue) /\ Head(queue) <= x
        BY <3>1
      <4>2. x \in Nat /\ Head(queue) \in Nat
        BY <3>1, <4>1, WhereIs, RequestFacts
      <4>3. QED BY <4>1, <4>2
    <3>3. /\ Moves(w, "popped", Head(queue)) /\ ~stopped /\ stopped' = stopped /\ Alone(w)
          /\ robbed' = robbed
      BY <2>1 DEF Pop, Moves, loadVars, fateVars
    <3>4. /\ pc'[w] = "popped" /\ job'[w] = Head(queue)
          /\ \A v \in Worker \ {w} : pc'[v] = pc[v] /\ pc[v] \notin Inside
      BY <3>3, MovesAt DEF Alone
    <3>5. QED BY <3>2, <3>3, <3>4 DEF OrderInv, Inside
  <2>2. CASE Miss(w)
    <3>1. Alone(w) /\ pc' = [pc EXCEPT ![w] = "missed"] /\ UNCHANGED <<stopped, queue, robbed>>
      BY <2>2 DEF Miss, fateVars
    <3>2. pc'[w] = "missed" /\ \A v \in Worker \ {w} : pc'[v] = pc[v] /\ pc[v] \notin Inside
      BY <1>1, <3>1 DEF Alone
    <3>3. QED BY <3>1, <3>2 DEF OrderInv, Inside
  <2>3. CASE Reject(w) \/ Admit(w)
    <3>1. /\ pc[w] = "popped" /\ pc'[w] # "popped" /\ UNCHANGED <<queue, stopped>>
          /\ \A v \in Worker \ {w} : pc'[v] = pc[v] /\ job'[v] = job[v]
      BY <1>1, <2>3 DEF Reject, Admit
    <3>2. PICK victims \in SUBSET Unpinned : Swept(job[w], victims)
      BY <2>3 DEF Reject, Admit
    <3>3. victims = {}
      BY <3>1, NoVictims
    <3>4. robbed' = robbed
      BY <3>2, <3>3 DEF Swept
    <3>5. pc[w] \in Inside
      BY <3>1 DEF Inside
    <3>6. QED BY <3>1, <3>4, <3>5, OrderSame
  <2>4. CASE Exit(w) \/ RetireOrPoll(w) \/ StallOver(w)
    <3>1. UNCHANGED <<queue, stopped, robbed, job>>
      BY <2>4 DEF Exit, RetireOrPoll, StallOver, fateVars
    <3>2. pc'[w] \notin Inside /\ \A v \in Worker \ {w} : pc'[v] = pc[v]
      BY <1>1, <2>4 DEF Exit, RetireOrPoll, StallOver, Inside
    <3>3. pc'[w] # "popped"
      BY <3>2 DEF Inside
    <3>4. QED BY <3>1, <3>2, <3>3, OrderSame
  <2>5. CASE Acquire(w)
    <3>1. /\ UNCHANGED <<queue, stopped, robbed>> /\ pc[w] = "gap" /\ pc'[w] = "pinned"
          /\ \A v \in Worker \ {w} : pc'[v] = pc[v] /\ job'[v] = job[v]
      BY <1>1, <2>5 DEF Acquire
    <3>2. pc[w] \in Inside
      BY <3>1 DEF Inside
    <3>3. QED BY <3>1, <3>2, OrderSame
  <2>6. CASE FirstChunk(w) \/ PrefillChunk(w) \/ PrefillDone(w) \/ DecodeToken(w)
    <3>1. UNCHANGED <<queue, stopped, robbed>>
      BY <2>6 DEF FirstChunk, PrefillChunk, PrefillDone, DecodeToken, DecodePhase
    <3>2. /\ pc[w] # "popped"
          /\ \/ GiveUp(w) \/ Finish(w) \/ ScheduleDecode(w) \/ UNCHANGED <<pc, job>>
             \/ pc' = [pc EXCEPT ![w] = "prefill"] /\ job' = job
      BY <2>6 DEF FirstChunk, PrefillChunk, PrefillDone, DecodeToken, DecodePhase
    <3>3. /\ pc'[w] # "popped" /\ \A v \in Worker \ {w} : pc'[v] = pc[v] /\ job'[v] = job[v]
          /\ pc'[w] \in Inside => pc[w] \in Inside
      BY <1>1, <3>2 DEF GiveUp, Finish, ScheduleDecode, Inside
    <3>4. QED BY <3>1, <3>3, OrderSame
  <2>7. QED BY <1>6, <2>1, <2>2, <2>3, <2>4, <2>5, <2>6, WorkerSplit
<1>7. QED BY <1>2, <1>3, <1>4, <1>5, <1>6 DEF Next

-----------------------------------------------------------------------------
(* Refinement *)

ServeInv == BooksInv /\ OrderInv

Stages == [r \in Request |-> StatusOf(r)]
Places == Waiting \cup Popped \cup Running \cup finished \cup rejected \cup abandoned

\* A request has the stage of the one place it is in.
LEMMA StatusIs ==
  TypeInv /\ OnceInv =>
    \A r \in Request :
      /\ StatusOf(r) = "unborn" <=> r > arrived
      /\ StatusOf(r) = "waiting" <=> r \in Waiting \cup Popped
      /\ StatusOf(r) = "running" <=> r \in Running
      /\ StatusOf(r) = "done" <=> r \in finished
      /\ StatusOf(r) = "refused" <=> r \in rejected
      /\ StatusOf(r) = "abandoned" <=> r \in abandoned
<1> SUFFICES ASSUME TypeInv, OnceInv, NEW r \in Request
             PROVE  /\ StatusOf(r) = "unborn" <=> r > arrived
                    /\ StatusOf(r) = "waiting" <=> r \in Waiting \cup Popped
                    /\ StatusOf(r) = "running" <=> r \in Running
                    /\ StatusOf(r) = "done" <=> r \in finished
                    /\ StatusOf(r) = "refused" <=> r \in rejected
                    /\ StatusOf(r) = "abandoned" <=> r \in abandoned
  OBVIOUS
<1>1. r \in 1 .. MaxRequests /\ MaxRequests \in Nat /\ arrived \in Nat
  BY BoundAssumption DEF TypeInv, TypeOK, LoadOK, Request
<1>2. r > arrived <=> r \notin 1 .. arrived
  BY <1>1
<1>3. r > arrived <=> r \notin Places
  BY <1>2 DEF OnceInv, PlacesCover, Places
<1>4. Apart(Waiting, Popped, Running, finished, rejected, abandoned)
  BY DEF OnceInv, PlacesApart
<1>5. QED BY <1>3, <1>4 DEF StatusOf, Apart, Places

LEMMA StatusIsNext ==
  (TypeInv /\ OnceInv)' =>
    (\A r \in Request :
       /\ StatusOf(r) = "unborn" <=> r > arrived
       /\ StatusOf(r) = "waiting" <=> r \in Waiting \cup Popped
       /\ StatusOf(r) = "running" <=> r \in Running
       /\ StatusOf(r) = "done" <=> r \in finished
       /\ StatusOf(r) = "refused" <=> r \in rejected
       /\ StatusOf(r) = "abandoned" <=> r \in abandoned)'
BY StatusIs, PTL

\* Where nothing moves, no stage changes.
LEMMA StatusSame ==
  ASSUME NEW r, r > arrived' <=> r > arrived,
         r \in (Waiting \cup Popped)' <=> r \in Waiting \cup Popped,
         r \in Running' <=> r \in Running,
         r \in finished' <=> r \in finished, r \in rejected' <=> r \in rejected
  PROVE  StatusOf(r)' = StatusOf(r)
BY DEF StatusOf

\* A request moves, and the others keep their stage.
LEMMA OthersKeep ==
  ASSUME NEW r \in Request, arrived' = arrived,
         \A q \in Request \ {r} :
           /\ q \in (Waiting \cup Popped)' <=> q \in Waiting \cup Popped
           /\ q \in Running' <=> q \in Running
           /\ q \in finished' <=> q \in finished
           /\ q \in rejected' <=> q \in rejected,
         NEW v, StatusOf(r)' = v
  PROVE  Stages' = [Stages EXCEPT ![r] = v]
<1>1. \A q \in Request \ {r} : StatusOf(q)' = StatusOf(q)
  BY StatusSame
<1>2. QED BY <1>1 DEF Stages

LEMMA StagesSame ==
  ASSUME UNCHANGED <<arrived, Waiting \cup Popped, Running, finished, rejected>>
  PROVE  Stages' = Stages
<1>1. \A r \in Request : StatusOf(r)' = StatusOf(r)
  BY StatusSame
<1>2. QED BY <1>1 DEF Stages

\* A step that shows the specification nothing.
LEMMA ServingSame ==
  ASSUME Stages' = Stages, UNCHANGED <<stopped, asked, generated>>
  PROVE  UNCHANGED Serving!svars
BY DEF Serving!svars, Stages

\* The specification adds up as the proofs do.
LEMMA SumsAgree == \A f, S : Serving!SumFunctionOnSet(f, S) = SumFunctionOnSet(f, S)
BY DEF Serving!SumFunctionOnSet, Serving!FoldFunctionOnSet, Serving!MapThenFoldSet,
       SumFunctionOnSet, FoldFunctionOnSet, MapThenFoldSet

LEMMA RoomIsFit ==
  ASSUME ServeInv, NEW r \in Request
  PROVE  Serving!Room(r) <=> Room(kvBlocks, r)
<1>1. TypeInv /\ OnceInv /\ KVExact /\ robbed = {}
  BY DEF ServeInv, BooksInv, AccountsExact, OrderInv
<1>2. /\ Keeping = Running \cup abandoned /\ Keeping \subseteq Request
      /\ \A q \in Request : StatusOf(q) \in {"running", "abandoned"} <=> q \in Keeping
  BY <1>1, StatusIs, PlacesFinite DEF Keeping
<1>3. Serving!With("running") \cup Serving!With("abandoned") = Keeping
  BY <1>2 DEF Serving!With
<1>4. Serving!InUse = SumFunctionOnSet(Need, Keeping)
  BY <1>3, SumsAgree DEF Serving!InUse, Need
<1>5. Serving!Room(r)
        <=> SumFunctionOnSet(Need, Keeping) + BlocksNeeded(asked[r].prompt) <= KVCapacity
  BY <1>4 DEF Serving!Room
<1>6. QED BY <1>1, <1>5, BlocksFinite DEF Room

LEMMA ServeInit == Init => Serving!SInit
<1> SUFFICES ASSUME Init PROVE Serving!SInit
  OBVIOUS
<1>1. arrived = 0 /\ \A r \in Request : r > arrived
  BY BoundAssumption DEF Init, Request
<1>2. \A r \in Request : StatusOf(r) = "unborn"
  BY <1>1, TypeInit, OnceInit, StatusIs
<1>3. QED BY <1>2 DEF Init, Serving!SInit

\* The next request arrives.
LEMMA ServeArrive ==
  ServeInv /\ BooksInv' /\ Arrive => [Serving!SNext]_(Serving!svars)
<1> SUFFICES ASSUME ServeInv, BooksInv', Arrive PROVE [Serving!SNext]_(Serving!svars)
  OBVIOUS
<1>1. TypeInv /\ OnceInv /\ TypeInv' /\ OnceInv'
  BY DEF ServeInv, BooksInv
<1>2. UNCHANGED <<stopped, generated, Popped, Running, finished, rejected>>
  BY <1>1, ArriveMoves DEF Arrive, fateVars, OnceInv, Hands
<1>3. CASE stopped
  <2>1. UNCHANGED <<arrived, asked, queue>>
    BY <1>3 DEF Arrive
  <2>2. UNCHANGED <<arrived, Waiting \cup Popped, Running, finished, rejected>>
    BY <1>2, <2>1 DEF Waiting
  <2>3. QED BY <1>2, <2>1, <2>2, StagesSame, ServingSame
<1>4. CASE ~stopped
  <2>1. arrived \in Nat /\ arrived + 1 \in Request /\ queue \in Seq(Request)
    BY <1>1, <1>4, BoundAssumption
    DEF TypeInv, TypeOK, LoadOK, ArrivalsBounded, Arrive, Request
  <2>2. PICK r \in Request : r = arrived + 1
    BY <2>1
  <2>3. arrived' = r /\ queue' = Append(queue, r)
    BY <1>4, <2>2 DEF Arrive
  <2>4. PICK p \in PromptTokens, o \in OutputTokens :
          asked' = [asked EXCEPT ![r] = [prompt |-> p, output |-> o]]
    BY <1>4, <2>2 DEF Arrive
  <2>5. asked'[r].output > 0 /\ \A q \in Request \ {r} : asked'[q] = asked[q]
    BY <1>1, <2>4, LoadAssumption DEF TypeInv, TypeOK, LoadOK
  <2>6. (Waiting \cup Popped)' = Waiting \cup Popped \cup {r}
    BY <1>2, <2>1, <2>3, PushSet DEF Waiting
  <2>7. /\ r > arrived /\ \A q \in Request \ {r} : q > r <=> q > arrived
        /\ \A q \in Request : q < r => ~(q > arrived)
    BY <2>1, <2>2, RequestFacts
  <2>8. StatusOf(r) = "unborn" /\ \A q \in Request : q < r => StatusOf(q) # "unborn"
    BY <1>1, <2>7, StatusIs
  <2>9. StatusOf(r)' = "waiting"
    BY <1>1, <2>6, StatusIsNext
  <2>10. \A q \in Request \ {r} : StatusOf(q)' = StatusOf(q)
    BY <1>2, <2>3, <2>6, <2>7, StatusSame
  <2>11. Stages' = [Stages EXCEPT ![r] = "waiting"]
    BY <2>9, <2>10 DEF Stages
  <2>12. Serving!Submit(r)
    BY <1>2, <1>4, <2>5, <2>8, <2>11 DEF Serving!Submit, Stages
  <2>13. QED BY <2>12 DEF Serving!SNext
<1>5. QED BY <1>3, <1>4

LEMMA ServeStop ==
  Stop \/ StopAtQuiescence => Serving!SNext
<1> SUFFICES ASSUME Stop \/ StopAtQuiescence PROVE Serving!SNext
  OBVIOUS
<1>1. stopped' = TRUE /\ UNCHANGED <<arrived, asked, generated, queue, pc, job, finished, rejected>>
  BY DEF Stop, StopAtQuiescence, loadVars, workVars, fateVars
<1>2. Stages' = Stages
  BY <1>1, StagesSame DEF Waiting, Popped, Running
<1>3. Serving!Close
  BY <1>1, <1>2 DEF Serving!Close, Stages
<1>4. QED BY <1>3 DEF Serving!SNext

\* What stays where it is, seen by the specification.
LEMMA ServeStill ==
  ASSUME Still, UNCHANGED <<stopped, generated>>
  PROVE  UNCHANGED Serving!svars
<1>1. UNCHANGED <<arrived, asked, Waiting \cup Popped, Running, finished, rejected>>
  BY DEF Still, Hands, fateVars, Waiting
<1>2. QED BY <1>1, StagesSame, ServingSame

\* A request that is popped waits on, at the head of the line.
LEMMA ServePop == \A w \in Worker :
  ServeInv /\ BooksInv' /\ Pop(w) => UNCHANGED Serving!svars
<1> SUFFICES ASSUME ServeInv, BooksInv', NEW w \in Worker, Pop(w)
             PROVE  UNCHANGED Serving!svars
  OBVIOUS
<1>1. TypeInv /\ OnceInv /\ TypeInv'
  BY DEF ServeInv, BooksInv
<1>2. /\ Head(queue) \in Waiting /\ Waiting' = Waiting \ {Head(queue)}
      /\ Popped' = Popped \cup {Head(queue)} /\ Running' = Running
      /\ UNCHANGED <<arrived, asked, generated, fateVars>>
  BY <1>1, PopMoves
<1>3. UNCHANGED <<arrived, Waiting \cup Popped, Running, finished, rejected>>
  BY <1>2 DEF fateVars
<1>4. stopped' = stopped
  BY DEF Pop
<1>5. QED BY <1>2, <1>3, <1>4, StagesSame, ServingSame

LEMMA PoppedIsOldest ==
  ASSUME ServeInv, NEW w \in Worker, pc[w] = "popped"
  PROVE  Serving!Oldest(job[w]) /\ ~stopped
<1>1. TypeInv /\ OnceInv /\ HeldOnce /\ OrderInv
  BY DEF ServeInv, BooksInv, OnceInv
<1>2. job[w] \in Request /\ job[w] \in Popped /\ ~stopped
  BY <1>1, JobOf, HandsAre DEF Holding, OrderInv
<1>3. ASSUME NEW q \in Waiting \cup Popped PROVE job[w] <= q
  <2>1. q \in Nat /\ job[w] \in Nat
    BY <1>1, <1>2, WhereIs, RequestFacts
  <2>2. CASE q \in Waiting
    BY <1>1, <2>1, <2>2 DEF OrderInv
  <2>3. CASE q \in Popped
    <3>1. q = job[w]
      BY <1>1, <2>3, HandsAre DEF OrderInv, Inside
    <3>2. QED BY <2>1, <3>1
  <2>4. QED BY <2>2, <2>3
<1>4. \A q \in Serving!With("waiting") : q \in Waiting \cup Popped
  BY <1>1, StatusIs DEF Serving!With
<1>5. StatusOf(job[w]) = "waiting"
  BY <1>1, <1>2, StatusIs
<1>6. QED BY <1>2, <1>3, <1>4, <1>5 DEF Serving!Oldest

LEMMA ServeReject == \A w \in Worker :
  ServeInv /\ BooksInv' /\ Reject(w) => Serving!SNext
<1> SUFFICES ASSUME ServeInv, BooksInv', NEW w \in Worker, Reject(w) PROVE Serving!SNext
  OBVIOUS
<1>1. BooksInv /\ TypeInv /\ OnceInv /\ HeldOnce /\ TypeInv' /\ OnceInv'
  BY DEF ServeInv, BooksInv, OnceInv
<1>2. PICK r \in Request : r = job[w]
  BY <1>1, RejectMoves
<1>3. /\ r \in Popped /\ Popped' = Popped \ {r} /\ Running' = Running /\ Waiting' = Waiting
      /\ rejected' = rejected \cup {r} /\ UNCHANGED <<arrived, asked, generated, finished>>
  BY <1>1, <1>2, RejectMoves DEF Waiting
<1>4. pc[w] = "popped" /\ ~Room(kvBlocks, r) /\ stopped' = stopped
  <2>1. PICK victims \in SUBSET Unpinned :
          kvBlocks' = HeldWithout(victims) /\ ~Room(kvBlocks', r)
    BY <1>2 DEF Reject
  <2>2. QED BY <2>1, NoVictims DEF Reject, ServeInv
<1>5. StatusOf(r)' = "refused"
  BY <1>1, <1>3, StatusIsNext
<1>6. Stages' = [Stages EXCEPT ![r] = "refused"]
  BY <1>3, <1>5, OthersKeep
<1>7. Serving!Oldest(r) /\ ~stopped /\ ~Serving!Room(r)
  BY <1>1, <1>2, <1>4, PoppedIsOldest, RoomIsFit
<1>8. Serving!Refuse(r)
  BY <1>3, <1>4, <1>6, <1>7 DEF Serving!Refuse, Stages
<1>9. QED BY <1>8 DEF Serving!SNext

LEMMA ServeAdmit == \A w \in Worker :
  ServeInv /\ BooksInv' /\ Admit(w) => Serving!SNext
<1> SUFFICES ASSUME ServeInv, BooksInv', NEW w \in Worker, Admit(w) PROVE Serving!SNext
  OBVIOUS
<1>1. BooksInv /\ TypeInv /\ OnceInv /\ HeldOnce /\ TypeInv' /\ OnceInv'
  BY DEF ServeInv, BooksInv, OnceInv
<1>2. PICK r \in Request : r = job[w]
  BY <1>1, AdmitMoves
<1>3. pc[w] = "popped" /\ Room(kvBlocks, r) /\ stopped' = stopped
  <2>1. PICK victims \in SUBSET Unpinned : Room(HeldWithout(victims), r)
    BY <1>2 DEF Admit
  <2>2. QED BY <2>1, NoVictims DEF Admit, ServeInv
<1>4. Serving!Oldest(r) /\ ~stopped /\ Serving!Room(r)
  BY <1>1, <1>2, <1>3, PoppedIsOldest, RoomIsFit
<1>5. /\ r \in Popped /\ Popped' = Popped \ {r} /\ Running' = Running \cup {r} /\ Waiting' = Waiting
      /\ UNCHANGED <<arrived, asked, generated, finished, rejected>>
  BY <1>1, <1>2, AdmitMoves DEF Waiting
<1>6. StatusOf(r)' = "running"
  BY <1>1, <1>5, StatusIsNext
<1>7. Stages' = [Stages EXCEPT ![r] = "running"]
  BY <1>5, <1>6, OthersKeep
<1>8. Serving!Begin(r)
  BY <1>3, <1>4, <1>5, <1>7 DEF Serving!Begin, Stages
<1>9. QED BY <1>8 DEF Serving!SNext

\* A request given up, as the specification sees where it was and where it is.
LEMMA LetGoStages ==
  ASSUME ServeInv, BooksInv', NEW w \in Worker, LetGo(w)
  PROVE  /\ job[w] \in Request /\ StatusOf(job[w]) = "running"
         /\ Stages' = [Stages EXCEPT ![job[w]] = "abandoned"]
<1>1. TypeInv /\ OnceInv /\ HeldOnce /\ TypeInv' /\ OnceInv'
  BY DEF ServeInv, BooksInv, OnceInv
<1>2. PICK r \in Request : r = job[w]
  BY <1>1, LetGoMoves
<1>3. /\ r \in Running /\ Running' = Running \ {r} /\ Popped' = Popped /\ Waiting' = Waiting
      /\ abandoned' = abandoned \cup {r} /\ UNCHANGED <<arrived, finished, rejected>>
  BY <1>1, <1>2, LetGoMoves DEF Waiting
<1>4. StatusOf(r) = "running" /\ StatusOf(r)' = "abandoned"
  BY <1>1, <1>3, StatusIs, StatusIsNext
<1>5. Stages' = [Stages EXCEPT ![r] = "abandoned"]
  BY <1>3, <1>4, OthersKeep
<1>6. QED BY <1>2, <1>4, <1>5

\* Its blocks are pinned, it runs on.
LEMMA ServeAcquire == \A w \in Worker :
  ServeInv /\ BooksInv' /\ Acquire(w) => UNCHANGED Serving!svars
<1> SUFFICES ASSUME ServeInv, BooksInv', NEW w \in Worker, Acquire(w)
             PROVE  UNCHANGED Serving!svars
  OBVIOUS
<1>1. TypeInv /\ OnceInv /\ HeldOnce /\ TypeInv'
  BY DEF ServeInv, BooksInv, OnceInv
<1>2. UNCHANGED <<stopped, arrived, asked, generated, Waiting \cup Popped, Running, finished, rejected>>
  BY <1>1, AcquireMoves DEF Waiting
<1>3. QED BY <1>2, StagesSame, ServingSame

LEMMA ServeFirstChunk == \A w \in Worker :
  ServeInv /\ BooksInv' /\ FirstChunk(w) => [Serving!SNext]_(Serving!svars)
<1> SUFFICES ASSUME ServeInv, BooksInv', NEW w \in Worker, FirstChunk(w)
             PROVE  [Serving!SNext]_(Serving!svars)
  OBVIOUS
<1>1. TypeInv /\ HeldOnce /\ TypeInv'
  BY DEF ServeInv, BooksInv, OnceInv
<1>2. pc[w] = "pinned" /\ UNCHANGED <<stopped, asked, generated>>
  BY DEF FirstChunk, loadVars
<1>3. CASE LetGo(w) /\ stopped
  <2>1. Serving!GiveUp(job[w]) /\ job[w] \in Request
    BY <1>2, <1>3, LetGoStages DEF Serving!GiveUp, Stages
  <2>2. QED BY <2>1 DEF Serving!SNext
<1>4. CASE Still
  BY <1>2, <1>4, ServeStill
<1>5. LetGo(w) => stopped
  BY DEF LetGo, GiveUp, FirstChunk, TypeInv, TypeOK, WorkOK, FateOK
<1>6. QED BY <1>1, <1>3, <1>4, <1>5, FirstChunkMoves

LEMMA ServePrefillChunk == \A w \in Worker :
  ServeInv /\ BooksInv' /\ PrefillChunk(w) => [Serving!SNext]_(Serving!svars)
<1> SUFFICES ASSUME ServeInv, BooksInv', NEW w \in Worker, PrefillChunk(w)
             PROVE  [Serving!SNext]_(Serving!svars)
  OBVIOUS
<1>1. /\ pc[w] = "prefill"
      /\ UNCHANGED <<started, stopped, arrivalsDone, arrived, asked, queue, generated, rejected>>
  BY DEF PrefillChunk, loadVars
<1>2. CASE stopped
  <2>1. LetGo(w)
    BY <1>1, <1>2 DEF PrefillChunk, LetGo, Pinned, loadVars
  <2>2. Serving!GiveUp(job[w]) /\ job[w] \in Request
    BY <1>1, <1>2, <2>1, LetGoStages DEF Serving!GiveUp, Stages
  <2>3. QED BY <2>2 DEF Serving!SNext
<1>3. CASE ~stopped
  <2>1. Still
    BY <1>1, <1>3, StillSame DEF PrefillChunk, fateVars, ServeInv, BooksInv, OnceInv
  <2>2. QED BY <1>1, <2>1, ServeStill
<1>4. QED BY <1>2, <1>3

\* A token, and what becomes of the request that got it.
LEMMA ServeTokens == \A w \in Worker :
  ServeInv /\ BooksInv' /\ (PrefillDone(w) \/ DecodeToken(w)) => Serving!SNext
<1> SUFFICES ASSUME ServeInv, BooksInv', NEW w \in Worker, PrefillDone(w) \/ DecodeToken(w)
             PROVE  Serving!SNext
  OBVIOUS
<1>1. /\ TypeInv /\ OnceInv /\ HeldOnce /\ TokensInv /\ TypeInv' /\ OnceInv'
  BY DEF ServeInv, BooksInv, OnceInv
<1>2. PICK r \in Request : r = job[w]
  BY <1>1, TokenFits
<1>3. /\ DecodePhase(w) /\ pc[w] \in Pinned /\ r \in Running
      /\ generated[r] < asked[r].output
  BY <1>1, <1>2, TokenFits
<1>4. StatusOf(r) = "running"
  BY <1>1, <1>3, StatusIs
<1>5. generated' = [generated EXCEPT ![r] = @ + 1] /\ UNCHANGED <<stopped, asked, arrived, queue>>
  BY <1>2, <1>3 DEF DecodePhase, loadVars
<1>6. CASE stopped
  <2>1. LetGo(w)
    BY <1>3, <1>6 DEF DecodePhase, LetGo
  <2>2. Stages' = [Stages EXCEPT ![r] = "abandoned"]
    BY <1>2, <2>1, LetGoStages
  <2>3. Serving!Emit(r)
    BY <1>3, <1>4, <1>5, <1>6, <2>2 DEF Serving!Emit, Stages
  <2>4. QED BY <2>3 DEF Serving!SNext
<1>7. CASE ~stopped /\ IsFinished(r, generated'[r])
  <2>1. Done(w)
    BY <1>2, <1>3, <1>7 DEF DecodePhase, Done
  <2>2. generated'[r] = asked[r].output
    BY <1>1, <1>2, <2>1, TokensOut
  <2>3. /\ Running' = Running \ {r} /\ Popped' = Popped /\ Waiting' = Waiting
        /\ finished' = finished \cup {r} /\ UNCHANGED <<arrived, rejected>>
    BY <1>1, <1>2, <2>1, DoneMoves DEF Waiting
  <2>4. StatusOf(r)' = "done"
    BY <1>1, <2>3, StatusIsNext
  <2>5. Stages' = [Stages EXCEPT ![r] = "done"]
    BY <2>3, <2>4, OthersKeep
  <2>6. Serving!Emit(r)
    BY <1>3, <1>4, <1>5, <1>7, <2>2, <2>5 DEF Serving!Emit, Stages
  <2>7. QED BY <2>6 DEF Serving!SNext
<1>8. CASE ~stopped /\ ~IsFinished(r, generated'[r])
  <2>1. Still
    BY <1>1, <1>2, <1>3, <1>8, StillSchedule DEF DecodePhase
  <2>2. Stages' = Stages
    BY <2>1, StagesSame DEF Still, Hands, fateVars, Waiting
  <2>3. Serving!Emit(r)
    BY <1>3, <1>4, <1>5, <2>2 DEF Serving!Emit, Stages
  <2>4. QED BY <2>3 DEF Serving!SNext
<1>9. QED BY <1>6, <1>7, <1>8

LEMMA ServeStep ==
  ServeInv /\ BooksInv' /\ [Next]_vars => [Serving!SNext]_(Serving!svars)
<1> SUFFICES ASSUME ServeInv, BooksInv', [Next]_vars PROVE [Serving!SNext]_(Serving!svars)
  OBVIOUS
<1>1. TypeInv /\ TypeInv' /\ HeldOnce
  BY DEF ServeInv, BooksInv, OnceInv
<1>2. CASE UNCHANGED vars \/ Terminated
  <2>1. Still /\ UNCHANGED <<stopped, generated>>
    BY <1>1, <1>2, StillSame DEF Terminated, vars, loadVars, workVars
  <2>2. QED BY <2>1, ServeStill
<1>3. CASE Start
  <2>1. Still /\ UNCHANGED <<stopped, generated>>
    BY <1>1, <1>3, StillStart DEF Start
  <2>2. QED BY <2>1, ServeStill
<1>4. ASSUME NEW w \in Worker, Exit(w) \/ Miss(w) \/ RetireOrPoll(w) \/ StallOver(w)
      PROVE  [Serving!SNext]_(Serving!svars)
  <2>1. Still /\ UNCHANGED <<stopped, generated>>
    BY <1>1, <1>4, StillIdle DEF Exit, Miss, RetireOrPoll, StallOver
  <2>2. QED BY <2>1, ServeStill
<1>5. ASSUME NEW w \in Worker, WorkerStep(w) PROVE [Serving!SNext]_(Serving!svars)
  BY <1>4, <1>5, WorkerSplit, ServePop, ServeReject, ServeAdmit, ServeAcquire,
     ServeFirstChunk, ServePrefillChunk, ServeTokens
<1>6. QED BY <1>2, <1>3, <1>5, ServeArrive, ServeStop DEF Next

\* On the simulated clock the colocated engine keeps the serving promise: admission in
\* order of arrival, refusal only for want of blocks, exactly the tokens asked for, and
\* nothing given up unless stopped.  (On the wall clock two workers may admit what they
\* popped in the opposite order.)
THEOREM ColocatedImplementsServing ==
  ASSUME ~RealClock
  PROVE  Spec => ImplementsServing
<1>1. TypeInv /\ TypeInv' /\ OnceInv /\ OrderInv /\ [Next]_vars => OrderInv'
  BY OrderStep
<1>2. BooksInv => TypeInv /\ OnceInv
  BY DEF BooksInv
<1>3. Spec => []BooksInv
  BY BooksInit, BooksStep, PTL DEF Spec
<1>4. Spec => []OrderInv
  BY <1>1, <1>2, <1>3, OrderInit, PTL DEF Spec
<1>5. BooksInv /\ OrderInv => ServeInv
  BY DEF ServeInv
<1>6. QED
  BY <1>3, <1>4, <1>5, ServeInit, ServeStep, PTL DEF Spec, ImplementsServing, Serving!SSpec
=============================================================================
