---------------------------- MODULE KVPoolProofs ----------------------------
(***************************************************************************)
(* The KV pool's books and promises, for every capacity, every set of      *)
(* requests and every sequence of calls.                                   *)
(*                                                                         *)
(* The argument does not depend on what the sweep reads from its stale     *)
(* view, only that it reads requests: whichever unpinned request it        *)
(* evicts, evictLocked takes the request's blocks out of both indexes and  *)
(* its one entry out of the order.  Position finds that entry because the  *)
(* order names a request at most once.                                     *)
(***************************************************************************)
EXTENDS KVPool, FiniteSetTheorems, SequenceTheorems, TLAPS

\* While a sweep runs the order only gets shorter than the array it ranges over.
ViewCovers == call.op = "sweep" => Len(order) <= Len(call.view)

PoolInv == TypeOK /\ PoolExact /\ ViewCovers

-----------------------------------------------------------------------------
(* The sequence left by an in-place removal. *)

LEMMA RemoveAtProperties ==
  ASSUME NEW S, NEW s \in Seq(S), NEW p \in 1 .. Len(s)
  PROVE  /\ RemoveAt(s, p) \in Seq(S)
         /\ Len(RemoveAt(s, p)) = Len(s) - 1
         /\ \A i \in 1 .. Len(s) - 1 :
              RemoveAt(s, p)[i] = IF i < p THEN s[i] ELSE s[i + 1]
<1> DEFINE a == SubSeq(s, 1, p - 1)
           b == SubSeq(s, p + 1, Len(s))
<1>1. Len(s) \in Nat /\ p \in Int /\ 1 <= p /\ p <= Len(s)
  BY LenProperties
<1>2. \A i \in 1 .. Len(s) : s[i] \in S
  BY ElementOfSeq
<1>3. /\ a \in Seq(S) /\ Len(a) = p - 1
      /\ \A i \in 1 .. p - 1 : a[i] = s[i]
  <2>1. \A i \in 1 .. p - 1 : s[i] \in S
    BY <1>1, <1>2
  <2>2. /\ a \in Seq(S) /\ Len(a) = IF 1 <= p - 1 THEN (p - 1) - 1 + 1 ELSE 0
        /\ \A i \in 1 .. (p - 1) - 1 + 1 : a[i] = s[1 + i - 1]
    BY <1>1, <2>1, SubSeqProperties
  <2> HIDE DEF a
  <2> QED BY <1>1, <2>2
<1>4. /\ b \in Seq(S) /\ Len(b) = Len(s) - p
      /\ \A i \in 1 .. Len(s) - p : b[i] = s[p + i]
  <2>1. \A i \in p + 1 .. Len(s) : s[i] \in S
    BY <1>1, <1>2
  <2>2. /\ b \in Seq(S)
        /\ Len(b) = IF p + 1 <= Len(s) THEN Len(s) - (p + 1) + 1 ELSE 0
        /\ \A i \in 1 .. Len(s) - (p + 1) + 1 : b[i] = s[(p + 1) + i - 1]
    BY <1>1, <2>1, SubSeqProperties
  <2> HIDE DEF b
  <2>3. \A i \in 1 .. Len(s) - p : (p + 1) + i - 1 = p + i
    BY <1>1
  <2>4. Len(s) - (p + 1) + 1 = Len(s) - p
    BY <1>1
  <2>5. \A i \in 1 .. Len(s) - p : b[i] = s[p + i]
    BY <2>2, <2>3, <2>4
  <2> QED BY <1>1, <2>2, <2>5
<1>5. RemoveAt(s, p) = a \o b
  BY DEF RemoveAt
<1> HIDE DEF a, b
<1>6. /\ a \o b \in Seq(S)
      /\ Len(a \o b) = Len(a) + Len(b)
      /\ \A i \in 1 .. Len(a) + Len(b) :
           (a \o b)[i] = IF i <= Len(a) THEN a[i] ELSE b[i - Len(a)]
  BY <1>3, <1>4, ConcatProperties
<1>7. Len(a) + Len(b) = Len(s) - 1
  BY <1>1, <1>3, <1>4
<1>8. ASSUME NEW i \in 1 .. Len(s) - 1
      PROVE  (a \o b)[i] = IF i < p THEN s[i] ELSE s[i + 1]
  <2>1. CASE i < p
    BY <1>1, <1>3, <1>6, <1>7, <2>1
  <2>2. CASE ~(i < p)
    <3>1. i - (p - 1) \in 1 .. Len(s) - p /\ p + (i - (p - 1)) = i + 1 /\ ~(i <= p - 1)
      BY <1>1, <2>2
    <3>2. (a \o b)[i] = b[i - (p - 1)]
      BY <1>3, <1>6, <1>7, <3>1
    <3>3. b[i - (p - 1)] = s[i + 1]
      BY <1>4, <3>1
    <3> QED BY <2>2, <3>2, <3>3
  <2> QED BY <2>1, <2>2
<1> QED BY <1>5, <1>6, <1>7, <1>8

\* Position(r) is where the order has r, or 0.
LEMMA PositionIs ==
  ASSUME order \in Seq(Request), IsInjective(order), NEW r \in Request
  PROVE  /\ Position(r) \in 0 .. Len(order)
         /\ Position(r) = 0 <=> r \notin ToSet(order)
         /\ Position(r) # 0 => order[Position(r)] = r
<1>1. Len(order) \in Nat /\ DOMAIN order = 1 .. Len(order)
  BY LenProperties
<1>2. r \in ToSet(order) <=> \E i \in 1 .. Len(order) : order[i] = r
  BY <1>1 DEF ToSet
<1>3. CASE \E i \in 1 .. Len(order) : order[i] = r
  <2>1. PICK i \in 1 .. Len(order) : order[i] = r
    BY <1>3
  <2>2. \A j \in 1 .. i - 1 : order[j] # r
    BY <1>1, <2>1 DEF IsInjective
  <2>3. \E k \in 1 .. Len(order) : order[k] = r /\ \A j \in 1 .. k - 1 : order[j] # r
    BY <2>1, <2>2
  <2>4. Position(r) = CHOOSE k \in 1 .. Len(order) :
                        order[k] = r /\ \A j \in 1 .. k - 1 : order[j] # r
    BY <1>3 DEF Position
  <2>5. Position(r) \in 1 .. Len(order) /\ order[Position(r)] = r
    BY <2>3, <2>4
  <2> QED BY <1>1, <1>2, <1>3, <2>5
<1>4. CASE ~ \E i \in 1 .. Len(order) : order[i] = r
  BY <1>1, <1>2, <1>4 DEF Position
<1> QED BY <1>3, <1>4

\* evictLocked takes r's entry out of the order and leaves the others, each once.
LEMMA EvictOrder ==
  ASSUME order \in Seq(Request), IsInjective(order), NEW r \in Request, EvictLocked(r)
  PROVE  /\ order' \in Seq(Request)
         /\ Len(order') <= Len(order)
         /\ ToSet(order') = ToSet(order) \ {r}
         /\ IsInjective(order')
<1>1. Len(order) \in Nat /\ DOMAIN order = 1 .. Len(order)
  BY LenProperties
<1>2. /\ Position(r) \in 0 .. Len(order)
      /\ Position(r) = 0 <=> r \notin ToSet(order)
      /\ Position(r) # 0 => order[Position(r)] = r
  BY PositionIs
<1>3. CASE Position(r) = 0
  BY <1>1, <1>2, <1>3 DEF EvictLocked
<1>4. CASE Position(r) # 0
  <2> DEFINE p == Position(r)
  <2>1. p \in 1 .. Len(order) /\ order[p] = r
    BY <1>1, <1>2, <1>4
  <2>2. order' = RemoveAt(order, p)
    BY <1>4 DEF EvictLocked
  <2> HIDE DEF p
  <2>3. /\ order' \in Seq(Request) /\ Len(order') = Len(order) - 1
        /\ \A i \in 1 .. Len(order) - 1 :
             order'[i] = IF i < p THEN order[i] ELSE order[i + 1]
    BY <2>1, <2>2, RemoveAtProperties
  <2>4. DOMAIN order' = 1 .. Len(order) - 1
    BY <2>3, LenProperties
  <2>5. ASSUME NEW i \in 1 .. Len(order) - 1, NEW j \in 1 .. Len(order) - 1,
               order'[i] = order'[j]
        PROVE  i = j
    <3>1. CASE i < p /\ j < p
      BY <1>1, <2>3, <2>5, <3>1 DEF IsInjective
    <3>2. CASE i < p /\ ~(j < p)
      <4>1. i \in DOMAIN order /\ j + 1 \in DOMAIN order /\ order[i] = order[j + 1]
        BY <1>1, <2>3, <2>5, <3>2
      <4>2. i = j + 1
        BY <4>1 DEF IsInjective
      <4> QED BY <2>1, <3>2, <4>2
    <3>3. CASE ~(i < p) /\ j < p
      <4>1. i + 1 \in DOMAIN order /\ j \in DOMAIN order /\ order[i + 1] = order[j]
        BY <1>1, <2>3, <2>5, <3>3
      <4>2. i + 1 = j
        BY <4>1 DEF IsInjective
      <4> QED BY <2>1, <3>3, <4>2
    <3>4. CASE ~(i < p) /\ ~(j < p)
      <4>1. i + 1 \in DOMAIN order /\ j + 1 \in DOMAIN order /\ order[i + 1] = order[j + 1]
        BY <1>1, <2>3, <2>5, <3>4
      <4>2. i + 1 = j + 1
        BY <4>1 DEF IsInjective
      <4> QED BY <4>2
    <3> QED BY <3>1, <3>2, <3>3, <3>4
  <2>6. IsInjective(order')
    BY <2>4, <2>5 DEF IsInjective
  <2>7. ASSUME NEW i \in 1 .. Len(order) - 1
        PROVE  order'[i] \in ToSet(order) \ {r}
    <3>1. CASE i < p
      <4>1. order'[i] = order[i] /\ i \in DOMAIN order /\ p \in DOMAIN order /\ i # p
        BY <1>1, <2>1, <2>3, <3>1
      <4> QED BY <2>1, <4>1 DEF ToSet, IsInjective
    <3>2. CASE ~(i < p)
      <4>1. order'[i] = order[i + 1] /\ i + 1 \in DOMAIN order /\ p \in DOMAIN order
            /\ i + 1 # p
        BY <1>1, <2>1, <2>3, <3>2
      <4> QED BY <2>1, <4>1 DEF ToSet, IsInjective
    <3> QED BY <3>1, <3>2
  <2>8. ASSUME NEW i \in 1 .. Len(order), order[i] # r
        PROVE  \E k \in 1 .. Len(order) - 1 : order'[k] = order[i]
    <3>1. CASE i < p
      <4>1. i \in 1 .. Len(order) - 1
        BY <1>1, <2>1, <3>1
      <4> QED BY <2>3, <3>1, <4>1
    <3>2. CASE ~(i < p)
      <4>1. i - 1 \in 1 .. Len(order) - 1 /\ ~(i - 1 < p) /\ (i - 1) + 1 = i
        BY <1>1, <2>1, <2>8, <3>2
      <4> QED BY <2>3, <4>1
    <3> QED BY <3>1, <3>2
  <2>9. ToSet(order') = ToSet(order) \ {r}
    <3>1. ASSUME NEW q \in ToSet(order')  PROVE  q \in ToSet(order) \ {r}
      <4>1. PICK i \in 1 .. Len(order) - 1 : order'[i] = q
        BY <2>4 DEF ToSet
      <4> QED BY <2>7, <4>1
    <3>2. ASSUME NEW q \in ToSet(order), q # r  PROVE  q \in ToSet(order')
      <4>1. PICK i \in 1 .. Len(order) : order[i] = q
        BY <1>1 DEF ToSet
      <4>2. PICK k \in 1 .. Len(order) - 1 : order'[k] = q
        BY <2>8, <3>2, <4>1
      <4> QED BY <2>4, <4>2 DEF ToSet
    <3> QED BY <3>1, <3>2
  <2> QED BY <1>1, <2>3, <2>6, <2>9
<1> QED BY <1>3, <1>4

\* evictLocked keeps the books: the indexes agree, and the pool only gets emptier.
LEMMA EvictKeepsBooks ==
  ASSUME TypeOK, IndexesAgree, NEW r \in Request, EvictLocked(r)
  PROVE  /\ IndexesAgree'
         /\ order' \in Seq(Request) /\ Len(order') <= Len(order)
         /\ byRequest' \in [Request -> SUBSET (1 .. nextID)]
         /\ blocks' \subseteq blocks
<1> USE DEF IndexesAgree
<1>1. /\ byRequest \in [Request -> SUBSET (1 .. nextID)]
      /\ order \in Seq(Request)
  BY DEF TypeOK
<1>2. /\ blocks' = blocks \ byRequest[r]
      /\ byRequest' = [byRequest EXCEPT ![r] = {}]
  BY DEF EvictLocked
<1>3. \A q \in Request : byRequest'[q] = IF q = r THEN {} ELSE byRequest[q]
  BY <1>1, <1>2
<1>4. /\ order' \in Seq(Request)
      /\ Len(order') <= Len(order)
      /\ ToSet(order') = ToSet(order) \ {r}
      /\ IsInjective(order')
  BY <1>1, EvictOrder
<1>5. blocks' = UNION {byRequest'[q] : q \in Request}
  <2>1. ASSUME NEW b \in blocks'  PROVE  \E q \in Request : b \in byRequest'[q]
    BY <1>2, <1>3
  <2>2. ASSUME NEW q \in Request, NEW b \in byRequest'[q]  PROVE  b \in blocks'
    BY <1>2, <1>3
  <2> QED BY <2>1, <2>2
<1>6. \A q, s \in Request : q # s => byRequest'[q] \cap byRequest'[s] = {}
  BY <1>3
<1>7. ToSet(order') = {q \in Request : byRequest'[q] # {}}
  BY <1>3, <1>4
<1>8. IndexesAgree'
  BY <1>4, <1>5, <1>6, <1>7
<1> QED BY <1>1, <1>2, <1>4, <1>8

-----------------------------------------------------------------------------
(* Counting. *)

\* A pool that holds a part of what it held has room for what there was room for.
LEMMA FewerFit ==
  ASSUME TypeOK, PoolExact, blocks' \subseteq blocks
  PROVE  /\ IsFiniteSet(blocks) /\ IsFiniteSet(blocks')
         /\ Cardinality(blocks) \in Nat /\ Cardinality(blocks') \in Nat
         /\ Cardinality(blocks') <= Cardinality(blocks)
         /\ Cardinality(blocks') <= Capacity
<1>1. nextID \in Int /\ blocks \subseteq 1 .. nextID
  BY DEF TypeOK
<1>2. IsFiniteSet(1 .. nextID)
  BY <1>1, FS_Interval
<1>3. IsFiniteSet(blocks)
  BY <1>1, <1>2, FS_Subset
<1>4. IsFiniteSet(blocks') /\ Cardinality(blocks') <= Cardinality(blocks)
  BY <1>3, FS_Subset
<1>5. Cardinality(blocks) \in Nat /\ Cardinality(blocks') \in Nat
  BY <1>3, <1>4, FS_CardinalityType
<1>6. Cardinality(blocks) <= Capacity
  BY DEF PoolExact, CapacityKept
<1> QED BY <1>3, <1>4, <1>5, <1>6, PoolAssumption

\* The new blocks of a grant, as many as asked for, and none of them in use.
NewBlocks == nextID + 1 .. nextID + call.n

LEMMA NewBlocksFresh ==
  ASSUME TypeOK, PoolExact, call.op = "grant"
  PROVE  /\ call \in Calls /\ call.n \in Nat /\ call.req \in Request
         /\ NewBlocks \subseteq 1 .. nextID + call.n
         /\ NewBlocks \cap (1 .. nextID) = {} /\ NewBlocks # {}
         /\ IsFiniteSet(NewBlocks) /\ Cardinality(NewBlocks) = call.n
         /\ IsFiniteSet(blocks)
         /\ Cardinality(blocks \cup NewBlocks) <= Capacity
<1>1. call \in Calls
  BY DEF TypeOK, Idle
<1>2. call.n \in Nat \ {0} /\ call.req \in Request /\ nextID \in Nat
  BY <1>1, PoolAssumption DEF Calls, TypeOK
<1>3. /\ NewBlocks \subseteq 1 .. nextID + call.n
      /\ NewBlocks \cap (1 .. nextID) = {}
      /\ nextID + 1 \in NewBlocks
  BY <1>2 DEF NewBlocks
<1>4. IsFiniteSet(NewBlocks) /\ Cardinality(NewBlocks) = call.n
  <2>1. nextID + 1 \in Int /\ nextID + call.n \in Int
    BY <1>2
  <2>2. /\ IsFiniteSet(nextID + 1 .. nextID + call.n)
        /\ Cardinality(nextID + 1 .. nextID + call.n)
             = IF nextID + 1 > nextID + call.n THEN 0
               ELSE (nextID + call.n) - (nextID + 1) + 1
    BY <2>1, FS_Interval
  <2> QED BY <1>2, <2>2 DEF NewBlocks
<1>5. IsFiniteSet(blocks) /\ blocks \subseteq 1 .. nextID
  <2>1. blocks \subseteq 1 .. nextID
    BY DEF TypeOK
  <2>2. IsFiniteSet(1 .. nextID)
    BY <1>2, FS_Interval
  <2> QED BY <2>1, <2>2, FS_Subset
<1>6. blocks \cap NewBlocks = {}
  BY <1>3, <1>5
<1>7. Cardinality(blocks \cup NewBlocks) = Cardinality(blocks) + call.n
  <2>1. Cardinality(blocks \cap NewBlocks) = 0
    BY <1>6, FS_EmptySet
  <2>2. Cardinality(blocks \cup NewBlocks)
          = Cardinality(blocks) + Cardinality(NewBlocks) - Cardinality(blocks \cap NewBlocks)
    BY <1>4, <1>5, FS_Union
  <2>3. Cardinality(blocks) \in Nat
    BY <1>5, FS_CardinalityType
  <2> QED BY <1>2, <1>4, <2>1, <2>2, <2>3
<1>8. Cardinality(blocks) + call.n <= Capacity
  BY DEF PoolExact, CapacityKept, FitsIn
<1> QED BY <1>1, <1>2, <1>3, <1>4, <1>5, <1>7, <1>8

\* A grant keeps the books: the request is in the order once, before or now.
LEMMA GrantKeepsBooks ==
  ASSUME TypeOK, PoolExact, GrantBlocks
  PROVE  IndexesAgree' /\ order' \in Seq(Request)
<1> DEFINE r == call.req
<1>1. /\ r \in Request
      /\ NewBlocks \cap (1 .. nextID) = {} /\ NewBlocks # {}
  BY NewBlocksFresh DEF GrantBlocks
<1>2. /\ byRequest \in [Request -> SUBSET (1 .. nextID)]
      /\ order \in Seq(Request)
  BY DEF TypeOK
<1>3. /\ blocks = UNION {byRequest[q] : q \in Request}
      /\ \A q, s \in Request : q # s => byRequest[q] \cap byRequest[s] = {}
      /\ ToSet(order) = {q \in Request : byRequest[q] # {}}
      /\ IsInjective(order)
  BY DEF PoolExact, IndexesAgree
<1>4. /\ blocks' = blocks \cup NewBlocks
      /\ byRequest' = [byRequest EXCEPT ![r] = @ \cup NewBlocks]
      /\ order' = IF byRequest[r] = {} THEN Append(order, r) ELSE order
  BY DEF GrantBlocks, NewBlocks
<1> HIDE DEF r
<1>5. \A q \in Request :
        byRequest'[q] = IF q = r THEN byRequest[q] \cup NewBlocks ELSE byRequest[q]
  BY <1>2, <1>4
<1>6. blocks' = UNION {byRequest'[q] : q \in Request}
  <2>1. ASSUME NEW b \in blocks'  PROVE  \E q \in Request : b \in byRequest'[q]
    <3>1. CASE b \in NewBlocks
      BY <1>1, <1>5, <3>1
    <3>2. CASE b \in blocks
      <4>1. PICK q \in Request : b \in byRequest[q]
        BY <1>3, <3>2
      <4> QED BY <1>5, <4>1
    <3> QED BY <1>4, <3>1, <3>2
  <2>2. ASSUME NEW q \in Request, NEW b \in byRequest'[q]  PROVE  b \in blocks'
    BY <1>3, <1>4, <1>5
  <2> QED BY <2>1, <2>2
<1>7. \A q, s \in Request : q # s => byRequest'[q] \cap byRequest'[s] = {}
  BY <1>1, <1>2, <1>3, <1>5
<1>8. /\ order' \in Seq(Request) /\ IsInjective(order')
      /\ ToSet(order') = {q \in Request : byRequest'[q] # {}}
  <2>1. CASE byRequest[r] # {}
    BY <1>1, <1>2, <1>3, <1>4, <1>5, <2>1
  <2>2. CASE byRequest[r] = {}
    <3>1. Len(order) \in Nat /\ DOMAIN order = 1 .. Len(order)
      BY <1>2, LenProperties
    <3>2. /\ order' \in Seq(Request) /\ Len(order') = Len(order) + 1
          /\ \A i \in 1 .. Len(order) : order'[i] = order[i]
          /\ order'[Len(order) + 1] = r
      BY <1>1, <1>2, <1>4, <2>2, AppendProperties
    <3>3. DOMAIN order' = 1 .. Len(order) + 1
      BY <3>2, LenProperties
    <3>4. ToSet(order') = ToSet(order) \cup {r}
      <4>1. ASSUME NEW q \in ToSet(order')  PROVE  q \in ToSet(order) \cup {r}
        <5>1. PICK i \in 1 .. Len(order) + 1 : order'[i] = q
          BY <3>3 DEF ToSet
        <5>2. CASE i = Len(order) + 1
          BY <3>2, <5>1, <5>2
        <5>3. CASE i # Len(order) + 1
          <6>1. i \in 1 .. Len(order)
            BY <3>1, <5>3
          <6> QED BY <3>1, <3>2, <5>1, <6>1 DEF ToSet
        <5> QED BY <5>2, <5>3
      <4>2. ASSUME NEW q \in ToSet(order)  PROVE  q \in ToSet(order')
        <5>1. PICK i \in 1 .. Len(order) : order[i] = q
          BY <3>1 DEF ToSet
        <5>2. i \in 1 .. Len(order) + 1
          BY <3>1
        <5> QED BY <3>2, <3>3, <5>1, <5>2 DEF ToSet
      <4>3. r \in ToSet(order')
        <5>1. Len(order) + 1 \in 1 .. Len(order) + 1
          BY <3>1
        <5> QED BY <3>2, <3>3, <5>1 DEF ToSet
      <4> QED BY <4>1, <4>2, <4>3
    <3>5. r \notin ToSet(order)
      BY <1>3, <2>2
    <3>6. ASSUME NEW i \in 1 .. Len(order) + 1, NEW j \in 1 .. Len(order) + 1,
                 order'[i] = order'[j]
          PROVE  i = j
      <4>1. \A k \in 1 .. Len(order) : order'[k] # r
        BY <3>1, <3>2, <3>5 DEF ToSet
      <4>2. CASE i = Len(order) + 1 \/ j = Len(order) + 1
        <5>1. \A k \in 1 .. Len(order) + 1 : k \in 1 .. Len(order) \/ k = Len(order) + 1
          BY <3>1
        <5> QED BY <3>2, <3>6, <4>1, <4>2, <5>1
      <4>3. CASE i # Len(order) + 1 /\ j # Len(order) + 1
        <5>1. i \in 1 .. Len(order) /\ j \in 1 .. Len(order)
          BY <3>1, <4>3
        <5>2. order[i] = order[j]
          BY <3>2, <3>6, <5>1
        <5> QED BY <1>3, <3>1, <5>1, <5>2 DEF IsInjective
      <4> QED BY <4>2, <4>3
    <3>7. IsInjective(order')
      BY <3>3, <3>6 DEF IsInjective
    <3>8. {q \in Request : byRequest'[q] # {}}
            = {q \in Request : byRequest[q] # {}} \cup {r}
      BY <1>1, <1>5
    <3> QED BY <1>3, <3>2, <3>4, <3>7, <3>8
  <2> QED BY <2>1, <2>2
<1> QED BY <1>6, <1>7, <1>8 DEF IndexesAgree

-----------------------------------------------------------------------------
(* The invariant. *)

LEMMA PoolInit == Init => PoolInv
<1> SUFFICES ASSUME Init PROVE PoolInv
  OBVIOUS
<1>1. TypeOK
  BY DEF Init, TypeOK
<1>2. IndexesAgree
  <2>1. DOMAIN order = {}
    BY DEF Init
  <2>2. ToSet(order) = {} /\ IsInjective(order)
    BY <2>1 DEF ToSet, IsInjective
  <2>3. \A r \in Request : byRequest[r] = {}
    BY DEF Init
  <2>4. blocks = {}
    BY DEF Init
  <2> QED BY <2>2, <2>3, <2>4 DEF IndexesAgree
<1>3. CapacityKept /\ ViewCovers
  BY FS_EmptySet, PoolAssumption DEF Init, CapacityKept, ViewCovers, Idle
<1> QED BY <1>1, <1>2, <1>3 DEF PoolInv, PoolExact

\* The shifted array is a sequence of requests, as long as it was.
LEMMA ShiftedView ==
  ASSUME order \in Seq(Request), IsInjective(order), NEW r \in Request,
         NEW view \in Seq(Request), Len(order) <= Len(view)
  PROVE  Shifted(view, r) \in Seq(Request) /\ Len(Shifted(view, r)) = Len(view)
<1>1. Len(order) \in Nat /\ Len(view) \in Nat
  BY LenProperties
<1>2. CASE Position(r) = 0
  BY <1>2 DEF Shifted
<1>3. CASE Position(r) # 0
  <2> DEFINE e(i) == IF i < Position(r) \/ i >= Len(order) THEN view[i] ELSE view[i + 1]
  <2>1. Position(r) \in 0 .. Len(order)
    BY PositionIs
  <2>2. \A i \in 1 .. Len(view) : e(i) \in Request
    <3> TAKE i \in 1 .. Len(view)
    <3>1. CASE i < Position(r) \/ i >= Len(order)
      BY <3>1, ElementOfSeq
    <3>2. CASE ~(i < Position(r) \/ i >= Len(order))
      <4>1. i + 1 \in 1 .. Len(view)
        BY <1>1, <2>1, <3>2
      <4> QED BY <3>2, <4>1, ElementOfSeq
    <3> QED BY <3>1, <3>2
  <2>3. Shifted(view, r) = [i \in 1 .. Len(view) |-> e(i)]
    BY <1>3 DEF Shifted
  <2> HIDE DEF e
  <2>4. [i \in 1 .. Len(view) |-> e(i)] \in Seq(Request)
    BY <1>1, <2>2, IsASeq
  <2>5. Len(Shifted(view, r)) = Len(view)
    BY <1>1, <2>3, <2>4, LenProperties
  <2> QED BY <2>3, <2>4, <2>5
<1> QED BY <1>2, <1>3

LEMMA PoolStep == PoolInv /\ [Next]_vars => PoolInv'
<1> SUFFICES ASSUME PoolInv, [Next]_vars  PROVE PoolInv'
  OBVIOUS
<1>1. TypeOK /\ PoolExact /\ IndexesAgree /\ CapacityKept /\ ViewCovers
  BY DEF PoolInv, PoolExact
<1>2. /\ byRequest \in [Request -> SUBSET (1 .. nextID)] /\ blocks \subseteq 1 .. nextID
      /\ inUse \in [Request -> Nat] /\ nextID \in Nat
      /\ order \in Seq(Request) /\ call \in {Idle} \cup Calls
  BY <1>1 DEF TypeOK
<1>3. IsInjective(order)
  BY <1>1 DEF IndexesAgree
\* Steps that leave blocks, indexes and order alone.
<1> DEFINE Books == <<blocks, byRequest, order, nextID>>
<1>4. ASSUME UNCHANGED Books, call' \in {Idle} \cup Calls, inUse' \in [Request -> Nat],
             call'.op = "grant" => FitsIn(call'.n),
             call'.op = "sweep" => Len(order) <= Len(call'.view)
      PROVE  PoolInv'
  <2>1. TypeOK'
    BY <1>2, <1>4 DEF TypeOK, Calls, Idle
  <2>2. IndexesAgree'
    BY <1>1, <1>4 DEF IndexesAgree, ToSet, IsInjective
  <2>3. CapacityKept'
    BY <1>1, <1>4 DEF CapacityKept, FitsIn
  <2>4. ViewCovers'
    BY <1>4 DEF ViewCovers
  <2> QED BY <2>1, <2>2, <2>3, <2>4 DEF PoolInv, PoolExact
\* Steps that evict.
<1>5. ASSUME NEW r \in Request, EvictLocked(r), UNCHANGED nextID,
             call' \in {Idle} \cup Calls, inUse' \in [Request -> Nat],
             call'.op # "grant",
             call'.op = "sweep" => Len(order) <= Len(call'.view)
      PROVE  PoolInv'
  <2>1. /\ IndexesAgree'
        /\ order' \in Seq(Request) /\ Len(order') <= Len(order)
        /\ byRequest' \in [Request -> SUBSET (1 .. nextID)]
        /\ blocks' \subseteq blocks
    BY <1>1, <1>5, EvictKeepsBooks
  <2>2. Cardinality(blocks') <= Capacity
    BY <1>1, <2>1, FewerFit
  <2>3. TypeOK'
    BY <1>2, <1>5, <2>1 DEF TypeOK, Calls, Idle
  <2>4. CapacityKept'
    BY <1>5, <2>2 DEF CapacityKept
  <2>5. Len(order) \in Nat /\ Len(order') \in Nat
    BY <1>2, <2>1, LenProperties
  <2>6. ViewCovers'
    <3> SUFFICES ASSUME call'.op = "sweep"  PROVE Len(order') <= Len(call'.view)
      BY DEF ViewCovers
    <3>1. call' \in Calls
      BY <1>5 DEF Idle
    <3>2. Len(call'.view) \in Nat
      BY <3>1, LenProperties DEF Calls
    <3> QED BY <1>5, <2>1, <2>5, <3>2
  <2> QED BY <2>1, <2>3, <2>4, <2>6 DEF PoolInv, PoolExact
<1>6. ASSUME NEW r \in Request, Acquire(r)  PROVE PoolInv'
  <2>1. inUse' \in [Request -> Nat]
    BY <1>2, <1>6 DEF Acquire
  <2>2. call = Idle /\ call' = Idle /\ UNCHANGED Books
    BY <1>6 DEF Acquire
  <2> QED BY <1>4, <2>1, <2>2 DEF Idle
<1>7. ASSUME NEW r \in Request, Release(r)  PROVE PoolInv'
  <2>1. inUse' \in [Request -> Nat]
    BY <1>2, <1>7 DEF Release
  <2>2. call' = Idle /\ EvictLocked(r) /\ UNCHANGED nextID
    BY <1>7 DEF Release
  <2> QED BY <1>5, <2>1, <2>2 DEF Idle
<1>8. ASSUME NEW r \in Request, NEW n \in Sizes, Allocate(r, n)  PROVE PoolInv'
  <2>1. /\ UNCHANGED Books /\ UNCHANGED inUse
        /\ call' = [op |-> IF FitsIn(n) THEN "grant" ELSE "sweep",
                    req |-> r, n |-> n, i |-> 1, view |-> order]
    BY <1>8 DEF Allocate
  <2>2. call' \in Calls
    BY <1>2, <2>1 DEF Calls
  <2>3. Len(order) <= Len(call'.view)
    BY <1>2, <2>1, LenProperties
  <2> HIDE DEF Books
  <2> QED BY <1>2, <1>4, <2>1, <2>2, <2>3
<1>9. CASE SweepEnd
  <2>1. /\ UNCHANGED Books /\ UNCHANGED inUse /\ call \in Calls
        /\ call' = IF FitsIn(call.n) THEN [call EXCEPT !.op = "grant"] ELSE Idle
    BY <1>2, <1>9 DEF SweepEnd, Idle
  <2>2. CASE FitsIn(call.n)
    <3>1. call' \in Calls /\ call'.op = "grant" /\ call'.n = call.n
      BY <2>1, <2>2 DEF Calls
    <3> QED BY <1>2, <1>4, <2>1, <2>2, <3>1
  <2>3. CASE ~FitsIn(call.n)
    <3>1. call' = Idle
      BY <2>1, <2>3
    <3> QED BY <1>2, <1>4, <2>1, <3>1 DEF Idle
  <2> QED BY <2>2, <2>3
<1>10. CASE SweepPinned
  <2>1. /\ UNCHANGED Books /\ UNCHANGED inUse /\ call \in Calls /\ call.op = "sweep"
        /\ call' = [call EXCEPT !.i = @ + 1]
    BY <1>2, <1>10 DEF SweepPinned, Idle
  <2>2. call' \in Calls /\ call'.op = "sweep" /\ call'.view = call.view
    BY <2>1 DEF Calls
  <2> QED BY <1>1, <1>2, <1>4, <2>1, <2>2 DEF ViewCovers
<1>11. CASE SweepEvict
  <2> DEFINE rid == call.view[call.i]
  <2>1. /\ call \in Calls /\ call.op = "sweep" /\ call.i <= Len(call.view)
        /\ EvictLocked(rid) /\ UNCHANGED <<inUse, nextID>>
        /\ call' = [call EXCEPT !.i = @ + 1, !.view = Shifted(@, rid)]
    BY <1>2, <1>11 DEF SweepEvict, Idle
  <2>2. rid \in Request
    <3>1. call.view \in Seq(Request) /\ call.i \in Nat \ {0}
      BY <2>1 DEF Calls
    <3>2. Len(call.view) \in Nat
      BY <3>1, LenProperties
    <3>3. call.i \in 1 .. Len(call.view)
      BY <2>1, <3>1, <3>2
    <3> QED BY <3>1, <3>3, ElementOfSeq
  <2>3. /\ Shifted(call.view, rid) \in Seq(Request)
        /\ Len(Shifted(call.view, rid)) = Len(call.view)
        /\ Len(order) <= Len(call.view)
    <3>1. call.view \in Seq(Request) /\ Len(order) <= Len(call.view)
      BY <1>1, <2>1 DEF Calls, ViewCovers
    <3> QED BY <1>2, <1>3, <2>2, <3>1, ShiftedView
  <2>4. call' \in Calls /\ call'.op = "sweep" /\ Len(order) <= Len(call'.view)
    <3> DEFINE v == Shifted(call.view, rid)
    <3>1. call' = [call EXCEPT !.i = call.i + 1, !.view = v]
      BY <2>1
    <3>2. /\ v \in Seq(Request) /\ Len(v) = Len(call.view) /\ Len(order) <= Len(call.view)
          /\ call \in Calls /\ call.op = "sweep"
      BY <2>1, <2>3
    <3> HIDE DEF v
    <3>3. call.i + 1 \in Nat \ {0}
      BY <3>2 DEF Calls
    <3>4. call' \in Calls /\ call'.op = "sweep" /\ call'.view = v
      BY <3>1, <3>2, <3>3 DEF Calls
    <3> QED BY <3>2, <3>4
  <2> HIDE DEF rid
  <2> QED BY <1>2, <1>5, <2>1, <2>2, <2>4
<1>12. CASE GrantBlocks
  <2>1. /\ call \in Calls /\ call.n \in Nat /\ call.req \in Request
        /\ NewBlocks \subseteq 1 .. nextID + call.n
        /\ Cardinality(blocks \cup NewBlocks) <= Capacity
    BY <1>1, <1>12, NewBlocksFresh DEF GrantBlocks
  <2>2. /\ blocks' = blocks \cup NewBlocks
        /\ byRequest' = [byRequest EXCEPT ![call.req] = @ \cup NewBlocks]
        /\ nextID' = nextID + call.n /\ call' = Idle /\ UNCHANGED inUse
    BY <1>12 DEF GrantBlocks, NewBlocks
  <2>3. IndexesAgree' /\ order' \in Seq(Request)
    BY <1>1, <1>12, GrantKeepsBooks
  <2>4. 1 .. nextID \subseteq 1 .. nextID + call.n
    BY <1>2, <2>1
  <2>5. blocks' \subseteq 1 .. nextID' /\ byRequest' \in [Request -> SUBSET (1 .. nextID')]
    BY <1>2, <2>1, <2>2, <2>4
  <2>6. TypeOK'
    BY <1>2, <2>1, <2>2, <2>3, <2>5 DEF TypeOK
  <2>7. CapacityKept' /\ ViewCovers'
    BY <2>1, <2>2 DEF CapacityKept, ViewCovers, Idle
  <2> QED BY <2>3, <2>6, <2>7 DEF PoolInv, PoolExact
<1>13. CASE UNCHANGED vars
  <2>1. UNCHANGED Books /\ UNCHANGED inUse /\ call' = call
    BY <1>13 DEF vars
  <2>2. /\ call.op = "grant" => FitsIn(call.n)
        /\ call.op = "sweep" => Len(order) <= Len(call.view)
    BY <1>1 DEF CapacityKept, ViewCovers
  <2> QED BY <1>2, <1>4, <2>1, <2>2
<1> QED BY <1>6, <1>7, <1>8, <1>9, <1>10, <1>11, <1>12, <1>13 DEF Next, Sweep

\* The pool's books hold in every state.
THEOREM PoolInvariant == Spec => []PoolInv
<1> QED BY PoolInit, PoolStep, PTL DEF Spec

-----------------------------------------------------------------------------
(* The properties. *)

\* Type correctness of the pool, for any capacity, requests and block counts.
THEOREM PoolTypeCorrect == Spec => []TypeOK
<1>1. PoolInv => TypeOK
  BY DEF PoolInv
<1> QED BY <1>1, PoolInvariant, PTL

\* kvcache.go's two indexes and its eviction order agree, and the capacity is kept, in
\* the middle of a sweep too: no entry is lost or left over by the in-place removals.
THEOREM PoolExactHolds == Spec => []PoolExact
<1>1. PoolInv => PoolExact
  BY DEF PoolInv
<1> QED BY <1>1, PoolInvariant, PTL

\* The one step that takes blocks from a request takes them from r, which has no pin
\* left afterwards or had none before.
LEMMA OthersKeepBlocks ==
  ASSUME TypeOK, NEW r \in Request, EvictLocked(r),
         inUse[r] = 0 \/ inUse'[r] = 0
  PROVE  \A q \in Request : inUse[q] > 0 /\ inUse'[q] > 0 => byRequest[q] \subseteq byRequest'[q]
<1> SUFFICES ASSUME NEW q \in Request, inUse[q] > 0, inUse'[q] > 0
             PROVE  byRequest[q] \subseteq byRequest'[q]
  OBVIOUS
<1>1. q # r
  BY DEF TypeOK
<1>2. byRequest'[q] = byRequest[q]
  BY <1>1 DEF EvictLocked, TypeOK
<1> QED BY <1>2

\* kvcache.go:62 "Acquire pins a request against eviction".
THEOREM PinnedKeepsBlocksHolds == Spec => PinnedKeepsBlocks
<1> DEFINE Kept == \A r \in Request :
             inUse[r] > 0 /\ inUse'[r] > 0 => byRequest[r] \subseteq byRequest'[r]
<1>1. PoolInv /\ [Next]_vars => [Kept]_vars
  <2> SUFFICES ASSUME PoolInv, Next  PROVE Kept
    OBVIOUS
  <2>1. TypeOK
    BY DEF PoolInv
  <2>2. CASE UNCHANGED byRequest
    BY <2>2
  <2>3. ASSUME NEW r \in Request, Release(r)  PROVE Kept
    <3>1. EvictLocked(r) /\ inUse'[r] = 0
      BY <2>1, <2>3 DEF Release, TypeOK
    <3> QED BY <2>1, <3>1, OthersKeepBlocks
  <2>4. CASE SweepEvict
    <3> DEFINE rid == call.view[call.i]
    <3>1. /\ EvictLocked(rid) /\ inUse[rid] = 0 /\ UNCHANGED inUse
          /\ call \in Calls /\ call.i <= Len(call.view)
      BY <2>1, <2>4 DEF SweepEvict, Evictable, TypeOK, Idle
    <3>2. rid \in Request
      BY <3>1, LenProperties, ElementOfSeq DEF Calls
    <3> HIDE DEF rid
    <3> QED BY <2>1, <3>1, <3>2, OthersKeepBlocks
  <2>5. CASE GrantBlocks
    <3>1. /\ byRequest' = [byRequest EXCEPT ![call.req] = @ \cup NewBlocks]
          /\ byRequest \in [Request -> SUBSET (1 .. nextID)]
      BY <2>1, <2>5 DEF GrantBlocks, NewBlocks, TypeOK
    <3> QED BY <3>1
  <2> QED BY <2>2, <2>3, <2>4, <2>5
        DEF Next, Acquire, Allocate, Sweep, SweepEnd, SweepPinned
<1> QED BY <1>1, PoolInvariant, PTL DEF Spec, PinnedKeepsBlocks

-----------------------------------------------------------------------------
(* The refinement: each step of a call is a step of the promise, or none. *)

Pinned == {r \in Request : inUse[r] > 0}

LEMMA AcquireIsPin ==
  ASSUME TypeOK, NEW r \in Request, Acquire(r)  PROVE Promise!Pin(r)
<1>1. /\ inUse \in [Request -> Nat] /\ inUse' = [inUse EXCEPT ![r] = @ + 1]
      /\ UNCHANGED byRequest
  BY DEF TypeOK, Acquire
<1>2. \A q \in Request : inUse'[q] > 0 <=> inUse[q] > 0 \/ q = r
  BY <1>1
<1>3. Pinned' = Pinned \cup {r}
  BY <1>2 DEF Pinned
<1> QED BY <1>1, <1>3 DEF Promise!Pin, Pinned

LEMMA ReleaseIsFree ==
  ASSUME TypeOK, NEW r \in Request, Release(r)  PROVE Promise!Free(r)
<1>1. /\ inUse \in [Request -> Nat] /\ inUse' = [inUse EXCEPT ![r] = 0]
      /\ byRequest' = [byRequest EXCEPT ![r] = {}]
  BY DEF TypeOK, Release, EvictLocked
<1>2. \A q \in Request : inUse'[q] > 0 <=> inUse[q] > 0 /\ q # r
  BY <1>1
<1>3. Pinned' = Pinned \ {r}
  BY <1>2 DEF Pinned
<1> QED BY <1>1, <1>3 DEF Promise!Free, Pinned

\* The sweep evicts a request of the array, an unpinned one.
LEMMA SweepIsEvict ==
  ASSUME TypeOK, SweepEvict  PROVE \E r \in Request : Promise!Evict(r)
<1> DEFINE rid == call.view[call.i]
<1>1. /\ byRequest' = [byRequest EXCEPT ![rid] = {}]
      /\ inUse[rid] = 0 /\ UNCHANGED inUse
      /\ call \in Calls /\ call.i <= Len(call.view)
  BY DEF SweepEvict, Evictable, EvictLocked, TypeOK, Idle
<1>2. rid \in Request
  BY <1>1, LenProperties, ElementOfSeq DEF Calls
<1> HIDE DEF rid
<1>3. rid \notin Pinned /\ UNCHANGED Pinned
  BY <1>1 DEF Pinned
<1>4. Promise!Evict(rid)
  BY <1>1, <1>3 DEF Promise!Evict, Pinned
<1> QED BY <1>2, <1>4

\* The promise counts as the pool does.
LEMMA SameCardinality == \A S : Promise!Cardinality(S) = Cardinality(S)
BY DEF Cardinality, Promise!Cardinality

\* A grant hands out as many fresh blocks as were asked for, within the capacity.
LEMMA GrantIsGrant ==
  ASSUME TypeOK, PoolExact, GrantBlocks  PROVE Promise!Grant(call.req)
<1> DEFINE r == call.req
<1>1. /\ call \in Calls /\ r \in Request
      /\ NewBlocks \cap (1 .. nextID) = {}
      /\ Cardinality(NewBlocks) = call.n
  BY NewBlocksFresh DEF GrantBlocks
<1>2. /\ byRequest \in [Request -> SUBSET (1 .. nextID)]
      /\ byRequest' = [byRequest EXCEPT ![r] = @ \cup NewBlocks]
      /\ UNCHANGED inUse
  BY DEF TypeOK, GrantBlocks, NewBlocks
<1>3. call.n \in Sizes
  BY <1>1 DEF Calls
<1>4. Promise!Total + call.n <= Capacity
  <2>1. blocks = UNION {byRequest[q] : q \in Request}
    BY DEF PoolExact, IndexesAgree
  <2>2. Cardinality(blocks) + call.n <= Capacity
    BY DEF GrantBlocks, PoolExact, CapacityKept, FitsIn
  <2>3. Promise!Total = Cardinality(blocks)
    BY <2>1, SameCardinality DEF Promise!Total
  <2> QED BY <2>2, <2>3
<1> HIDE DEF r
<1>5. byRequest'[r] = byRequest[r] \cup NewBlocks
  BY <1>1, <1>2
<1>6. byRequest'[r] \ byRequest[r] = NewBlocks
  BY <1>1, <1>2, <1>5
<1>7. \A q \in Request \ {r} :
        byRequest'[q] = byRequest[q] /\ byRequest'[q] \cap byRequest'[r] = {}
  <2> TAKE q \in Request \ {r}
  <2>1. byRequest'[q] = byRequest[q] /\ byRequest[q] \subseteq 1 .. nextID
    BY <1>2
  <2>2. byRequest[q] \cap byRequest[r] = {}
    BY <1>1 DEF PoolExact, IndexesAgree
  <2> QED BY <1>1, <1>5, <2>1, <2>2
<1>8. Promise!Grant(r)
  <2>1. Cardinality(byRequest'[r] \ byRequest[r]) = call.n
    BY <1>1, <1>6
  <2>2. \E n \in Sizes : /\ Promise!Total + n <= Capacity
                         /\ Promise!Cardinality(byRequest'[r] \ byRequest[r]) = n
    BY <1>3, <1>4, <2>1, SameCardinality
  <2>3. UNCHANGED Pinned
    BY <1>2 DEF Pinned
  <2>4. byRequest[r] \subseteq byRequest'[r]
    BY <1>5
  <2> QED BY <1>7, <2>2, <2>3, <2>4, Zenon DEF Promise!Grant, Pinned
<1> QED BY <1>8 DEF r

\* The pool implements its promise: a fixed capacity, blocks all at once or not at all,
\* and none taken from a pinned request (KVPoolSpec), whatever the sweep skips.
THEOREM PoolImplementsPromise == Spec => ImplementsPromise
<1>1. Init => Promise!PInit
  BY DEF Init, Promise!PInit
<1>2. PoolInv /\ [Next]_vars => [Promise!PNext]_(Promise!pvars)
  <2> SUFFICES ASSUME PoolInv, [Next]_vars  PROVE [Promise!PNext]_(Promise!pvars)
    OBVIOUS
  <2>1. TypeOK /\ PoolExact
    BY DEF PoolInv
  <2>2. ASSUME NEW r \in Request, Acquire(r)  PROVE Promise!PNext
    BY <2>1, <2>2, AcquireIsPin DEF Promise!PNext
  <2>3. ASSUME NEW r \in Request, Release(r)  PROVE Promise!PNext
    BY <2>1, <2>3, ReleaseIsFree DEF Promise!PNext
  <2>4. CASE SweepEvict
    BY <2>1, <2>4, SweepIsEvict DEF Promise!PNext
  <2>5. CASE GrantBlocks
    <3>1. call.req \in Request
      BY <2>1, <2>5, NewBlocksFresh DEF GrantBlocks
    <3> QED BY <2>1, <2>5, <3>1, GrantIsGrant DEF Promise!PNext
  <2>6. CASE UNCHANGED <<byRequest, inUse>>
    BY <2>6 DEF Promise!pvars
  <2> QED BY <2>2, <2>3, <2>4, <2>5, <2>6
        DEF Next, Allocate, Sweep, SweepEnd, SweepPinned, vars
<1> QED BY <1>1, <1>2, PoolInvariant, PTL
      DEF Spec, ImplementsPromise, Promise!PSpec

-----------------------------------------------------------------------------
(* What the sweep skips. *)

\* The unpinned requests the sweep has passed by.
Skipped ==
  {r \in Request : Evictable(r) /\ \E j \in 1 .. Len(order) : j < call.i /\ order[j] = r}

\* The array still begins with the order, and the sweep has passed by at most one
\* unpinned request for each it evicted: the one that moved into the freed place.
SkipInv ==
  call.op = "sweep" =>
    /\ \A j \in 1 .. Len(order) : call.view[j] = order[j]
    /\ Cardinality(Skipped) <= Len(call.view) - Len(order)

LEMMA OrderFinite ==
  ASSUME order \in Seq(Request)
  PROVE  /\ IsFiniteSet(ToSet(order)) /\ IsFiniteSet(Skipped)
         /\ Skipped \subseteq ToSet(order)
         /\ Cardinality(Skipped) \in Nat
<1>1. /\ Len(order) \in Nat /\ DOMAIN order = 1 .. Len(order)
      /\ order \in [1 .. Len(order) -> Request]
  BY LenProperties
<1>2. order \in Surjection(1 .. Len(order), ToSet(order))
  BY <1>1 DEF Surjection, ToSet
<1>3. IsFiniteSet(1 .. Len(order))
  BY <1>1, FS_Interval
<1>4. IsFiniteSet(ToSet(order))
  BY <1>2, <1>3, FS_Surjection
<1>5. Skipped \subseteq ToSet(order)
  BY <1>1 DEF Skipped, ToSet
<1>6. IsFiniteSet(Skipped)
  BY <1>4, <1>5, FS_Subset
<1> QED BY <1>4, <1>5, <1>6, FS_CardinalityType

\* A part of what was skipped, and at most one request more.
LEMMA AtMostOneMore ==
  ASSUME IsFiniteSet(Skipped), NEW q, NEW T, T \subseteq Skipped \cup {q}
  PROVE  Cardinality(T) \in Nat /\ Cardinality(T) <= Cardinality(Skipped) + 1
<1>1. /\ IsFiniteSet(Skipped \cup {q})
      /\ Cardinality(Skipped \cup {q})
           = IF q \in Skipped THEN Cardinality(Skipped) ELSE Cardinality(Skipped) + 1
  BY FS_AddElement
<1>2. IsFiniteSet(T) /\ Cardinality(T) <= Cardinality(Skipped \cup {q})
  BY <1>1, FS_Subset
<1>3. Cardinality(T) \in Nat /\ Cardinality(Skipped) \in Nat
  BY <1>2, FS_CardinalityType
<1> QED BY <1>1, <1>2, <1>3

LEMMA EvictSkipsOne ==
  ASSUME PoolInv, SkipInv, SweepEvict
  PROVE  SkipInv'
<1> DEFINE rid == call.view[call.i]
           p   == Position(rid)
<1>1. /\ call \in Calls /\ call.op = "sweep" /\ call.i <= Len(call.view)
      /\ EvictLocked(rid) /\ UNCHANGED inUse /\ inUse[rid] = 0
      /\ call' = [call EXCEPT !.i = @ + 1, !.view = Shifted(@, rid)]
  BY DEF PoolInv, TypeOK, SweepEvict, Evictable, Idle
<1>2. /\ order \in Seq(Request) /\ IsInjective(order)
      /\ call.view \in Seq(Request) /\ call.i \in Nat \ {0}
      /\ Len(order) <= Len(call.view)
  BY <1>1 DEF PoolInv, TypeOK, PoolExact, IndexesAgree, ViewCovers, Calls
<1>3. /\ Len(order) \in Nat /\ DOMAIN order = 1 .. Len(order) /\ Len(call.view) \in Nat
  BY <1>2, LenProperties
<1>4. rid \in Request
  <2>1. call.i \in 1 .. Len(call.view)
    BY <1>1, <1>2, <1>3
  <2> QED BY <1>2, <2>1, ElementOfSeq
<1>5. /\ p \in 0 .. Len(order)
      /\ p = 0 <=> rid \notin ToSet(order)
      /\ p # 0 => order[p] = rid
  BY <1>2, <1>4, PositionIs
<1>6. /\ \A j \in 1 .. Len(order) : call.view[j] = order[j]
      /\ Cardinality(Skipped) <= Len(call.view) - Len(order)
  BY <1>1 DEF SkipInv
<1>7. IsFiniteSet(Skipped) /\ Cardinality(Skipped) \in Nat
  BY <1>2, OrderFinite
<1>8. /\ call'.i = call.i + 1 /\ call'.view = Shifted(call.view, rid)
      /\ Len(call'.view) = Len(call.view)
  <2> DEFINE v == Shifted(call.view, rid)
  <2>1. Len(v) = Len(call.view)
    BY <1>2, <1>4, ShiftedView
  <2>2. call' = [call EXCEPT !.i = call.i + 1, !.view = v]
    BY <1>1
  <2> HIDE DEF v
  <2>3. call'.i = call.i + 1 /\ call'.view = v
    BY <1>1, <2>2 DEF Calls
  <2> QED BY <2>1, <2>3 DEF v
<1>9. CASE p = 0
  <2>1. order' = order /\ call'.view = call.view
    BY <1>1, <1>8, <1>9 DEF EvictLocked, Shifted
  <2>2. ~(call.i <= Len(order))
    <3> SUFFICES ASSUME call.i <= Len(order)  PROVE FALSE
      OBVIOUS
    <3>1. call.i \in 1 .. Len(order)
      BY <1>2, <1>3
    <3>2. rid = order[call.i]
      BY <1>6, <3>1
    <3> QED BY <1>3, <1>5, <1>9, <3>1, <3>2 DEF ToSet
  <2>3. Skipped' = Skipped
    <3>1. \A j \in 1 .. Len(order) : j < call.i /\ j < call.i + 1
      BY <1>2, <1>3, <2>2
    <3> QED BY <1>1, <1>8, <2>1, <3>1 DEF Skipped, Evictable
  <2> QED BY <1>6, <1>8, <2>1, <2>3 DEF SkipInv
<1>10. CASE p # 0
  <2>1. p \in 1 .. Len(order) /\ order[p] = rid /\ order' = RemoveAt(order, p)
    BY <1>1, <1>3, <1>5, <1>10 DEF EvictLocked
  <2>2. call'.view = [i \in 1 .. Len(call.view) |->
                        IF i < p \/ i >= Len(order) THEN call.view[i] ELSE call.view[i + 1]]
    BY <1>8, <1>10 DEF Shifted
  <2> HIDE DEF p
  <2>3. /\ Len(order') = Len(order) - 1
        /\ \A i \in 1 .. Len(order) - 1 :
             order'[i] = IF i < p THEN order[i] ELSE order[i + 1]
    BY <1>2, <2>1, RemoveAtProperties
  <2>4. ASSUME NEW j \in 1 .. Len(order)'  PROVE call'.view[j] = order'[j]
    <3>1. /\ j \in 1 .. Len(order) - 1 /\ j \in 1 .. Len(call.view)
          /\ j \in 1 .. Len(order) /\ j + 1 \in 1 .. Len(order) /\ ~(j >= Len(order))
      BY <1>2, <1>3, <2>3
    <3>2. call'.view[j] = IF j < p THEN call.view[j] ELSE call.view[j + 1]
      BY <2>2, <3>1
    <3> QED BY <1>6, <2>3, <3>1, <3>2
  \* The request that moves into the place of the evicted one.
  <2> DEFINE q == order[call.i + 1]
  <2>5. ASSUME call.i <= Len(order)  PROVE call.i = p
    <3>1. call.i \in 1 .. Len(order)
      BY <1>2, <1>3, <2>5
    <3>2. order[call.i] = order[p]
      BY <1>6, <2>1, <3>1
    <3> QED BY <1>2, <1>3, <2>1, <3>1, <3>2 DEF IsInjective
  <2>6. Skipped' \subseteq Skipped \cup {q}
    <3> SUFFICES ASSUME NEW r \in Skipped', r # q  PROVE r \in Skipped
      OBVIOUS
    <3>1. r \in Request /\ Evictable(r)
      BY <1>1 DEF Skipped, Evictable
    <3>2. PICK j \in 1 .. Len(order) - 1 : j < call.i + 1 /\ order'[j] = r
      BY <1>8, <2>3 DEF Skipped
    <3>3. CASE j < p
      <4>1. j \in 1 .. Len(order) /\ order[j] = r
        BY <1>3, <2>3, <3>2, <3>3
      <4>2. j < call.i
        BY <1>2, <1>3, <2>1, <2>5, <3>2, <3>3
      <4> QED BY <3>1, <4>1, <4>2 DEF Skipped
    <3>4. CASE ~(j < p)
      <4>1. j + 1 \in 1 .. Len(order) /\ order[j + 1] = r
        BY <1>3, <2>3, <3>2, <3>4
      <4>2. j # call.i
        BY <3>4, <4>1
      <4>3. ~(call.i <= Len(order))
        BY <1>2, <1>3, <2>1, <2>5, <3>2, <3>4, <4>2
      <4>4. j + 1 < call.i
        BY <1>2, <1>3, <4>1, <4>3
      <4> QED BY <3>1, <4>1, <4>4 DEF Skipped
    <3> QED BY <3>3, <3>4
  <2>7. Cardinality(Skipped') \in Nat /\ Cardinality(Skipped') <= Cardinality(Skipped) + 1
    BY <1>7, <2>6, AtMostOneMore
  <2>8. Cardinality(Skipped') <= Len(call'.view) - Len(order')
    BY <1>3, <1>6, <1>7, <1>8, <2>3, <2>7
  <2> QED BY <2>4, <2>8 DEF SkipInv
<1> QED BY <1>9, <1>10

LEMMA SkipStep == PoolInv /\ SkipInv /\ [Next]_vars => SkipInv'
<1> SUFFICES ASSUME PoolInv, SkipInv, [Next]_vars  PROVE SkipInv'
  OBVIOUS
<1>1. TypeOK
  BY DEF PoolInv
<1>2. CASE call'.op # "sweep"
  BY <1>2 DEF SkipInv
<1>3. ASSUME NEW r \in Request, NEW n \in Sizes, Allocate(r, n)  PROVE SkipInv'
  <2>1. call'.view = order /\ call'.i = 1 /\ order' = order
    BY <1>3 DEF Allocate
  <2>2. order \in Seq(Request) /\ Len(order) \in Nat
    BY <1>1, LenProperties DEF TypeOK
  <2>3. Skipped' = {}
    BY <2>1, <2>2 DEF Skipped
  <2>4. Cardinality(Skipped') = 0
    BY <2>3, FS_EmptySet
  <2> QED BY <2>1, <2>2, <2>4 DEF SkipInv
<1>4. CASE SweepPinned
  <2>1. /\ call \in Calls /\ call.op = "sweep" /\ call.i <= Len(call.view)
        /\ ~Evictable(call.view[call.i]) /\ order' = order /\ inUse' = inUse
        /\ call' = [call EXCEPT !.i = @ + 1]
    BY <1>1, <1>4 DEF SweepPinned, TypeOK, Idle
  <2>2. call'.i = call.i + 1 /\ call'.view = call.view /\ call.i \in Nat \ {0}
    BY <2>1 DEF Calls
  <2>3. \A j \in 1 .. Len(order) : call.view[j] = order[j]
    BY <2>1 DEF SkipInv
  <2>4. Skipped' = Skipped
    <3>1. Len(order) \in Nat
      BY <1>1, LenProperties DEF TypeOK
    <3>2. ASSUME NEW r \in Request, Evictable(r), NEW j \in 1 .. Len(order), order[j] = r
          PROVE  j < call.i + 1 <=> j < call.i
      <4>1. j # call.i
        BY <2>1, <2>3, <3>2
      <4> QED BY <2>2, <3>1, <4>1
    <3> QED BY <2>1, <2>2, <3>2 DEF Skipped, Evictable
  <2> QED BY <2>1, <2>2, <2>3, <2>4 DEF SkipInv
<1>5. CASE SweepEvict
  BY <1>5, EvictSkipsOne
<1>6. CASE UNCHANGED vars
  <2>1. Skipped' = Skipped
    BY <1>6 DEF vars, Skipped, Evictable
  <2> QED BY <1>6, <2>1 DEF vars, SkipInv
<1>7. ASSUME NEW r \in Request, Acquire(r) \/ Release(r)  PROVE call'.op # "sweep"
  BY <1>7 DEF Acquire, Release, Idle
<1>8. CASE SweepEnd
  <2>1. call \in Calls
    BY <1>1, <1>8 DEF SweepEnd, TypeOK, Idle
  <2> QED BY <1>2, <1>8, <2>1 DEF SweepEnd, Calls, Idle
<1>9. CASE GrantBlocks
  BY <1>2, <1>9 DEF GrantBlocks, Idle
<1> QED BY <1>2, <1>3, <1>4, <1>5, <1>6, <1>7, <1>8, <1>9 DEF Next, Sweep

\* An Allocate that returns an error has left at most as many unpinned requests as it
\* evicted: so much, and no more, is wrong with ranging over a slice that is cut.
THEOREM SkipsAtMostEvictedHolds == Spec => SkipsAtMostEvicted
<1> DEFINE Bounded == call.op = "sweep" /\ call' = Idle =>
             Cardinality({r \in ToSet(order) : Evictable(r)}) <= Len(call.view) - Len(order)
<1>1. Init => SkipInv
  BY DEF Init, SkipInv, Idle
<1>2. PoolInv /\ SkipInv /\ [Next]_vars => [Bounded]_vars
  <2> SUFFICES ASSUME PoolInv, SkipInv, Next, call.op = "sweep", call' = Idle
               PROVE  Cardinality({r \in ToSet(order) : Evictable(r)})
                        <= Len(call.view) - Len(order)
    OBVIOUS
  <2>1. call \in Calls /\ order \in Seq(Request) /\ Len(order) <= Len(call.view)
    BY DEF PoolInv, TypeOK, Idle, ViewCovers
  <2>2. SweepEnd
    <3>1. ~SweepPinned
      BY <2>1 DEF SweepPinned, Idle, Calls
    <3>2. ~SweepEvict
      <4> DEFINE v == Shifted(call.view, call.view[call.i])
      <4> SUFFICES ASSUME call' = [call EXCEPT !.i = call.i + 1, !.view = v]  PROVE FALSE
        BY DEF SweepEvict
      <4> HIDE DEF v
      <4> QED BY <2>1 DEF Calls, Idle
    <3>3. call # Idle
      BY DEF Idle
    <3> QED BY <3>1, <3>2, <3>3 DEF Next, Sweep, GrantBlocks, Acquire, Release, Allocate
  <2>3. call.i > Len(call.view)
    BY <2>1, <2>2 DEF SweepEnd, Calls, Idle
  <2>4. Len(order) \in Nat /\ DOMAIN order = 1 .. Len(order) /\ Len(call.view) \in Nat
        /\ call.i \in Nat
    BY <2>1, LenProperties DEF Calls
  <2>5. {r \in ToSet(order) : Evictable(r)} \subseteq Skipped
    <3>1. \A j \in 1 .. Len(order) : j < call.i /\ order[j] \in Request
      BY <2>1, <2>3, <2>4, ElementOfSeq
    <3> QED BY <2>4, <3>1 DEF Skipped, ToSet
  <2>6. IsFiniteSet(Skipped) /\ Cardinality(Skipped) \in Nat
    BY <2>1, OrderFinite
  <2>7. /\ Cardinality({r \in ToSet(order) : Evictable(r)}) <= Cardinality(Skipped)
        /\ Cardinality({r \in ToSet(order) : Evictable(r)}) \in Nat
    BY <2>5, <2>6, FS_Subset, FS_CardinalityType
  <2>8. Cardinality(Skipped) <= Len(call.view) - Len(order)
    BY DEF SkipInv
  <2> QED BY <2>4, <2>6, <2>7, <2>8
<1> QED BY <1>1, <1>2, SkipStep, PoolInvariant, PTL DEF Spec, SkipsAtMostEvicted
=============================================================================
