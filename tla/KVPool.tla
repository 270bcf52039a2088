------------------------------- MODULE KVPool -------------------------------
(***************************************************************************)
(* The paged KV-cache pool (pkg/kvcache/kvcache.go, Pool).  Every method   *)
(* holds the pool's mutex from its first statement to its return, so a     *)
(* method is one step here; only Allocate, whose eviction sweep is a loop, *)
(* takes a step per iteration, with the mutex held in between.             *)
(*                                                                         *)
(* The sweep ranges over the slice p.order while evictLocked removes       *)
(* elements of p.order in place.  The range sees the backing array: after  *)
(* a removal the later elements have moved one place down and the last one *)
(* is still there a second time.  call.view is that array.                 *)
(***************************************************************************)
EXTENDS Integers, Sequences, FiniteSets, SequencesExt

CONSTANTS
  Request,      \* request ids
  Capacity,     \* p.capacity
  Sizes,        \* the block counts Allocate is called with
  MaxBlocks,    \* bound: block ids handed out (nextID)
  MaxPins       \* bound: Acquire calls outstanding for one request

ASSUME PoolAssumption == /\ Capacity \in Nat \ {0}
                         /\ Sizes \subseteq Nat \ {0}
                         /\ MaxBlocks \in Nat /\ MaxPins \in Nat

VARIABLES
  blocks,       \* the ids in p.blocks
  byRequest,    \* p.byRequest, as a set of ids
  order,        \* p.order
  inUse,        \* p.inUse; 0 when the key is absent
  nextID,       \* p.nextID
  call          \* the Allocate that holds the mutex, or Idle

vars == <<blocks, byRequest, order, inUse, nextID, call>>

Idle == [op |-> "idle"]

Init ==
  /\ blocks = {}
  /\ byRequest = [r \in Request |-> {}]
  /\ order = <<>>
  /\ inUse = [r \in Request |-> 0]
  /\ nextID = 0
  /\ call = Idle

-----------------------------------------------------------------------------
\* The position of r in the eviction order; 0 when it has none.
Position(r) ==
  IF \E i \in 1 .. Len(order) : order[i] = r
  THEN CHOOSE i \in 1 .. Len(order) : order[i] = r /\ \A j \in 1 .. i - 1 : order[j] # r
  ELSE 0

\* Mutant of EvictLocked: the order keeps its entry.
EvictLeavesOrder(r) ==
  /\ blocks' = blocks \ byRequest[r]
  /\ byRequest' = [byRequest EXCEPT ![r] = {}]
  /\ UNCHANGED order

\* evictLocked: free all blocks of r, drop its first entry from the order.
EvictLocked(r) ==
  /\ blocks' = blocks \ byRequest[r]
  /\ byRequest' = [byRequest EXCEPT ![r] = {}]
  /\ order' = IF Position(r) = 0 THEN order ELSE RemoveAt(order, Position(r))

\* What the backing array holds after evictLocked(r): the elements after r
\* moved one place down, everything from the old end of the slice on as it was.
Shifted(view, r) ==
  IF Position(r) = 0 THEN view
  ELSE [i \in 1 .. Len(view) |->
          IF i < Position(r) \/ i >= Len(order) THEN view[i] ELSE view[i + 1]]

FitsInOne(n) == Cardinality(blocks) < Capacity  \* mutant: room for one is enough
FitsIn(n) == Cardinality(blocks) + n <= Capacity

AnyVictim(r) == TRUE                            \* mutant: pins are not looked at
Evictable(r) == inUse[r] = 0

-----------------------------------------------------------------------------
Acquire(r) ==
  /\ call = Idle /\ inUse[r] < MaxPins
  /\ inUse' = [inUse EXCEPT ![r] = @ + 1]
  /\ UNCHANGED <<blocks, byRequest, order, nextID, call>>

\* delete(p.inUse, r) whatever the count, and evict.
Release(r) ==
  /\ call = Idle
  /\ inUse' = [inUse EXCEPT ![r] = 0]
  /\ EvictLocked(r)
  /\ UNCHANGED <<nextID, call>>

\* Allocate is entered: it takes the mutex; it sweeps if the blocks do not fit.
Allocate(r, n) ==
  /\ call = Idle /\ nextID + n <= MaxBlocks
  /\ call' = [op |-> IF FitsIn(n) THEN "grant" ELSE "sweep",
              req |-> r, n |-> n, i |-> 1, view |-> order]
  /\ UNCHANGED <<blocks, byRequest, order, inUse, nextID>>

\* The loop ends: enough room, or the range is exhausted.  Exhausted without
\* room means an error, and what was evicted stays evicted.
SweepEnd ==
  /\ call.op = "sweep"
  /\ FitsIn(call.n) \/ call.i > Len(call.view)
  /\ call' = IF FitsIn(call.n) THEN [call EXCEPT !.op = "grant"] ELSE Idle
  /\ UNCHANGED <<blocks, byRequest, order, inUse, nextID>>

\* Mutant of SweepPinned: the loop ends at the first pinned request.
SweepPinnedBreaks ==
  /\ call.op = "sweep" /\ ~FitsIn(call.n) /\ call.i <= Len(call.view)
  /\ ~Evictable(call.view[call.i])
  /\ call' = Idle
  /\ UNCHANGED <<blocks, byRequest, order, inUse, nextID>>

\* One iteration on a pinned request.
SweepPinned ==
  /\ call.op = "sweep" /\ ~FitsIn(call.n) /\ call.i <= Len(call.view)
  /\ ~Evictable(call.view[call.i])
  /\ call' = [call EXCEPT !.i = @ + 1]
  /\ UNCHANGED <<blocks, byRequest, order, inUse, nextID>>

\* One iteration on an unpinned request: evict it.
SweepEvict ==
  /\ call.op = "sweep" /\ ~FitsIn(call.n) /\ call.i <= Len(call.view)
  /\ LET rid == call.view[call.i] IN
       /\ Evictable(rid)
       /\ EvictLocked(rid)
       /\ call' = [call EXCEPT !.i = @ + 1, !.view = Shifted(@, rid)]
  /\ UNCHANGED <<inUse, nextID>>

\* Mutant of GrantBlocks: block ids are handed out again.
GrantSameIDs ==
  /\ call.op = "grant"
  /\ LET new == nextID + 1 .. nextID + call.n IN
       /\ blocks' = blocks \cup new
       /\ byRequest' = [byRequest EXCEPT ![call.req] = @ \cup new]
  /\ order' = IF byRequest[call.req] = {} THEN Append(order, call.req) ELSE order
  /\ call' = Idle
  /\ UNCHANGED <<nextID, inUse>>

\* Room enough: enter the order if new, create the blocks, return.
GrantBlocks ==
  /\ call.op = "grant"
  /\ LET new == nextID + 1 .. nextID + call.n IN
       /\ blocks' = blocks \cup new
       /\ byRequest' = [byRequest EXCEPT ![call.req] = @ \cup new]
  /\ order' = IF byRequest[call.req] = {} THEN Append(order, call.req) ELSE order
  /\ nextID' = nextID + call.n
  /\ call' = Idle
  /\ UNCHANGED inUse

Sweep == SweepEnd \/ SweepPinned \/ SweepEvict

Next ==
  \/ \E r \in Request : Acquire(r) \/ Release(r)
  \/ \E r \in Request, n \in Sizes : Allocate(r, n)
  \/ Sweep
  \/ GrantBlocks

Spec == Init /\ [][Next]_vars

-----------------------------------------------------------------------------
(* Properties *)

Calls == [op : {"grant", "sweep"}, req : Request, n : Sizes,
          i : Nat \ {0}, view : Seq(Request)]

\* Type invariant.
TypeOK ==
  /\ blocks \subseteq 1 .. nextID
  /\ byRequest \in [Request -> SUBSET (1 .. nextID)]
  /\ order \in Seq(Request)
  /\ inUse \in [Request -> Nat]
  /\ nextID \in Nat
  /\ call \in {Idle} \cup Calls

\* The pool never holds more blocks than its capacity (kvcache.go:19 "fixed-
\* capacity"), and an Allocate that is past its sweep has room for its blocks.
CapacityKept ==
  /\ Cardinality(blocks) <= Capacity
  /\ call.op = "grant" => FitsIn(call.n)

\* The indexes agree, also while a sweep has evicted part of the pool: every block
\* belongs to exactly one request, and the eviction order lists the requests that
\* hold blocks, each once: no entry is lost by the in-place removals, none is left.
IndexesAgree ==
  /\ blocks = UNION {byRequest[r] : r \in Request}
  /\ \A q, r \in Request : q # r => byRequest[q] \cap byRequest[r] = {}
  /\ ToSet(order) = {r \in Request : byRequest[r] # {}}
  /\ IsInjective(order)

\* The pool's books, in the middle of a sweep too.
PoolExact == IndexesAgree /\ CapacityKept

\* kvcache.go:62 "Acquire pins a request against eviction": as long as a request
\* stays pinned it loses no block, whatever the sweep reads from its stale view.
PinnedKeepsBlocks ==
  [][\A r \in Request :
       inUse[r] > 0 /\ inUse'[r] > 0 => byRequest[r] \subseteq byRequest'[r]]_vars

\* The pool keeps its promise (KVPoolSpec).
Promise == INSTANCE KVPoolSpec WITH
  held   <- byRequest,
  pinned <- {r \in Request : inUse[r] > 0}

ImplementsPromise == Promise!PSpec

\* kvcache.go:92-93 "Returns an error if the pool cannot satisfy it" is not quite so:
\* the sweep skips the entry after each one it evicts, and can fail although an
\* unpinned request still holds blocks.  But it skips no more than that: when it
\* fails, the unpinned requests it left are at most as many as those it evicted.
SkipsAtMostEvicted ==
  [][call.op = "sweep" /\ call' = Idle =>
       Cardinality({r \in ToSet(order) : Evictable(r)}) <= Len(call.view) - Len(order)]_vars
=============================================================================
