----------------------------- MODULE KVPoolSpec -----------------------------
(***************************************************************************)
(* What the paged KV pool promises: a fixed capacity that is never         *)
(* exceeded, blocks granted all at once or not at all, and no block of a   *)
(* pinned request taken away before its Release.  Nothing is promised of   *)
(* the order of evictions.                                                 *)
(***************************************************************************)
EXTENDS Integers, FiniteSets

CONSTANTS Request, Capacity, Sizes

VARIABLES
  held,     \* the blocks each request has
  pinned    \* the requests that have been acquired

pvars == <<held, pinned>>

Total == Cardinality(UNION {held[r] : r \in Request})

PInit == held = [r \in Request |-> {}] /\ pinned = {}

\* Fresh blocks, as many as asked for, within the capacity.
Grant(r) ==
  /\ \E n \in Sizes :
       /\ Total + n <= Capacity
       /\ Cardinality(held'[r] \ held[r]) = n
  /\ held[r] \subseteq held'[r]
  /\ \A q \in Request \ {r} : held'[q] = held[q] /\ held'[q] \cap held'[r] = {}
  /\ UNCHANGED pinned

Evict(r) ==
  /\ r \notin pinned
  /\ held' = [held EXCEPT ![r] = {}]
  /\ UNCHANGED pinned

Pin(r) == pinned' = pinned \cup {r} /\ UNCHANGED held

Free(r) ==
  /\ pinned' = pinned \ {r}
  /\ held' = [held EXCEPT ![r] = {}]

PNext == \E r \in Request : Grant(r) \/ Evict(r) \/ Pin(r) \/ Free(r)

PSpec == PInit /\ [][PNext]_pvars
=============================================================================
