---------------------------- MODULE Bookkeeping ----------------------------
(***************************************************************************)
(* What the proofs about the engines share: sums over finite sets (tokens  *)
(* counted, blocks held), the size of a set of blocks, and queues seen as  *)
(* the sets of what they hold.                                             *)
(*                                                                         *)
(* A sum is recursion on a set, and what holds of it is shown by infinite  *)
(* descent: the sizes of the sets on which it fails have no least element  *)
(* (LeastNumber).                                                          *)
(***************************************************************************)
EXTENDS Integers, FiniteSets, SequencesExt, FiniteSetTheorems, SequenceTheorems,
        WellFoundedInduction, TLAPS

\* Every nonempty set of natural numbers has a least element.
LEMMA LeastNumber ==
  ASSUME NEW T, T \subseteq Nat, T # {}
  PROVE  \E n \in T : \A m \in T : n <= m
<1> DEFINE R == {ss \in Nat \X Nat : ss[1] < ss[2]}
<1>1. IsWellFoundedOn(R, Nat)
  BY NatLessThanWellFounded DEF OpToRel
<1> HIDE DEF R
<1>2. PICK n \in T : \A m \in T : ~ (<<m, n>> \in R)
  BY <1>1, WFMin
<1>3. ASSUME NEW m \in T PROVE n <= m
  <2>1. ~ (<<m, n>> \in R) /\ m \in Nat /\ n \in Nat
    BY <1>2, <1>3
  <2>2. ~ (m < n)
    BY <2>1 DEF R
  <2>3. QED BY <2>1, <2>2
<1>4. QED BY <1>3

-----------------------------------------------------------------------------
(* The recursion behind SumFunctionOnSet *)

Pick(s) == CHOOSE x \in s : TRUE

Added(f, g, s) == IF s = {} THEN 0 ELSE f[Pick(s)] + g[s \ {Pick(s)}]

\* g adds up f over each of the sets D.
Adds(f, D, g) == g = [s \in D |-> Added(f, g, s)]

Small(S, n) == {s \in SUBSET S : Cardinality(s) <= n}

LEMMA SumIsWalk ==
  ASSUME NEW f, NEW S
  PROVE  SumFunctionOnSet(f, S) = (CHOOSE g : Adds(f, SUBSET S, g))[S]
BY DEF SumFunctionOnSet, FoldFunctionOnSet, MapThenFoldSet, Adds, Added, Pick

LEMMA PickShrinks ==
  ASSUME NEW S, IsFiniteSet(S), NEW s \in SUBSET S, s # {}
  PROVE  /\ Pick(s) \in s /\ s \ {Pick(s)} \in SUBSET S
         /\ IsFiniteSet(s) /\ Cardinality(s) \in Nat /\ Cardinality(s) > 0
         /\ Cardinality(s \ {Pick(s)}) = Cardinality(s) - 1
<1>1. Pick(s) \in s
  BY DEF Pick
<1>2. IsFiniteSet(s)
  BY FS_Subset
<1>3. Cardinality(s) \in Nat /\ Cardinality(s) # 0
  BY <1>2, FS_CardinalityType, FS_EmptySet
<1>4. Cardinality(s \ {Pick(s)}) = Cardinality(s) - 1
  BY <1>1, <1>2, FS_RemoveElement
<1>5. QED BY <1>1, <1>2, <1>3, <1>4

\* The sum exists: from the sets of fewer than n elements to those of n.
LEMMA AddsExists ==
  ASSUME NEW f, NEW S, IsFiniteSet(S)
  PROVE  \E g : Adds(f, SUBSET S, g)
<1> DEFINE Fails == {n \in Nat : ~ \E g : Adds(f, Small(S, n), g)}
<1>1. Fails = {}
  <2> SUFFICES ASSUME Fails # {} PROVE FALSE
    OBVIOUS
  <2>1. PICK n \in Fails : \A m \in Fails : n <= m
    <3>1. Fails \subseteq Nat
      OBVIOUS
    <3> HIDE DEF Fails
    <3>2. QED BY <3>1, LeastNumber
  <2>2. n \in Nat /\ ~ \E g : Adds(f, Small(S, n), g)
    OBVIOUS
  <2>3. PICK h : n > 0 => Adds(f, Small(S, n - 1), h)
    <3>1. n > 0 => n - 1 \in Nat /\ ~ (n <= n - 1)
      BY <2>2
    <3>2. n > 0 => n - 1 \notin Fails
      BY <2>1, <3>1
    <3>3. QED BY <3>1, <3>2
  <2> DEFINE g == [s \in Small(S, n) |-> Added(f, h, s)]
  <2>4. ASSUME NEW s \in Small(S, n) PROVE Added(f, h, s) = Added(f, g, s)
    <3>1. CASE s = {}
      BY <3>1 DEF Added
    <3>2. CASE s # {}
      <4> DEFINE t == s \ {Pick(s)}
      <4>1. /\ Cardinality(s) <= n /\ s \in SUBSET S
            /\ t \in SUBSET S /\ Cardinality(s) \in Nat /\ Cardinality(s) > 0
            /\ Cardinality(t) = Cardinality(s) - 1
        BY <3>2, PickShrinks DEF Small
      <4>2. n > 0 /\ Cardinality(t) <= n - 1 /\ Cardinality(t) <= n
        BY <2>2, <4>1
      <4>3. t \in Small(S, n - 1) /\ t \in Small(S, n)
        BY <4>1, <4>2 DEF Small
      <4>4. h[t] = Added(f, h, t)
        BY <2>3, <4>2, <4>3 DEF Adds
      <4>5. g[t] = Added(f, h, t)
        BY <4>3
      <4>6. QED BY <3>2, <4>4, <4>5 DEF Added
    <3>3. QED BY <3>1, <3>2
  <2>5. Adds(f, Small(S, n), g)
    BY <2>4 DEF Adds
  <2>6. QED BY <2>2, <2>5
<1>2. Cardinality(S) \in Nat /\ Small(S, Cardinality(S)) = SUBSET S
  BY FS_CardinalityType, FS_Subset DEF Small
<1>3. Cardinality(S) \notin Fails
  BY <1>1
<1>4. \E g : Adds(f, Small(S, Cardinality(S)), g)
  BY <1>2, <1>3
<1>5. QED BY <1>2, <1>4

\* Two of them agree wherever both are defined.
LEMMA AddsAgree ==
  ASSUME NEW f, NEW S, IsFiniteSet(S), NEW U \in SUBSET S,
         NEW g, NEW h, Adds(f, SUBSET S, g), Adds(f, SUBSET U, h)
  PROVE  \A s \in SUBSET U : g[s] = h[s]
<1> DEFINE Fails == {n \in Nat : \E s \in SUBSET U : Cardinality(s) = n /\ g[s] # h[s]}
<1>1. IsFiniteSet(U)
  BY FS_Subset
<1>2. Fails = {}
  <2> SUFFICES ASSUME Fails # {} PROVE FALSE
    OBVIOUS
  <2>1. PICK n \in Fails : \A m \in Fails : n <= m
    <3>1. Fails \subseteq Nat
      OBVIOUS
    <3> HIDE DEF Fails
    <3>2. QED BY <3>1, LeastNumber
  <2>2. PICK s \in SUBSET U : n \in Nat /\ Cardinality(s) = n /\ g[s] # h[s]
    OBVIOUS
  <2>3. g[s] = Added(f, g, s) /\ h[s] = Added(f, h, s)
    BY DEF Adds
  <2>4. s # {}
    BY <2>2, <2>3 DEF Added
  <2> DEFINE t == s \ {Pick(s)}
  <2>5. t \in SUBSET U /\ Cardinality(t) \in Nat /\ ~ (n <= Cardinality(t))
    BY <1>1, <2>2, <2>4, PickShrinks
  <2>6. Cardinality(t) \notin Fails
    BY <2>1, <2>5
  <2>7. g[t] = h[t]
    BY <2>5, <2>6
  <2>8. QED BY <2>2, <2>3, <2>4, <2>7 DEF Added
<1>3. ASSUME NEW s \in SUBSET U PROVE g[s] = h[s]
  BY <1>1, <1>2, FS_Subset, FS_CardinalityType
<1>4. QED BY <1>3

\* The sum over a set is that of its rest and of the element picked first.
LEMMA SumPick ==
  ASSUME NEW f, NEW S, IsFiniteSet(S)
  PROVE  SumFunctionOnSet(f, S)
           = IF S = {} THEN 0 ELSE f[Pick(S)] + SumFunctionOnSet(f, S \ {Pick(S)})
<1> DEFINE U == S \ {Pick(S)}
           g == CHOOSE e : Adds(f, SUBSET S, e)
           h == CHOOSE e : Adds(f, SUBSET U, e)
<1>1. IsFiniteSet(U) /\ U \in SUBSET S
  BY FS_Subset
<1>2. Adds(f, SUBSET S, g)
  BY AddsExists
<1>3. Adds(f, SUBSET U, h)
  BY <1>1, AddsExists
<1>4. SumFunctionOnSet(f, S) = g[S] /\ SumFunctionOnSet(f, U) = h[U]
  BY SumIsWalk
<1> HIDE DEF g, h
<1>5. g[S] = Added(f, g, S)
  BY <1>2 DEF Adds
<1>6. g[U] = h[U]
  <2>1. ASSUME NEW V \in SUBSET S, NEW e, NEW k, Adds(f, SUBSET S, e), Adds(f, SUBSET V, k)
        PROVE  e[V] = k[V]
    <3>1. \A s \in SUBSET V : e[s] = k[s]
      BY <2>1, AddsAgree
    <3>2. QED BY <3>1
  <2> HIDE DEF U
  <2>2. QED BY <1>1, <1>2, <1>3, <2>1
<1>7. QED BY <1>4, <1>5, <1>6 DEF Added

-----------------------------------------------------------------------------
(* Sums *)

LEMMA SumEmpty == \A f : SumFunctionOnSet(f, {}) = 0
BY SumPick, FS_EmptySet

LEMMA SumInt ==
  ASSUME NEW D, NEW f \in [D -> Int], NEW S \in SUBSET D, IsFiniteSet(S)
  PROVE  SumFunctionOnSet(f, S) \in Int
<1> DEFINE Fails == {n \in Nat : \E s \in SUBSET S :
                                Cardinality(s) = n /\ SumFunctionOnSet(f, s) \notin Int}
<1>1. Fails = {}
  <2> SUFFICES ASSUME Fails # {} PROVE FALSE
    OBVIOUS
  <2>1. PICK n \in Fails : \A m \in Fails : n <= m
    <3>1. Fails \subseteq Nat
      OBVIOUS
    <3> HIDE DEF Fails
    <3>2. QED BY <3>1, LeastNumber
  <2>2. PICK s \in SUBSET S :
          n \in Nat /\ Cardinality(s) = n /\ SumFunctionOnSet(f, s) \notin Int
    OBVIOUS
  <2>3. IsFiniteSet(s)
    BY FS_Subset
  <2>4. s # {}
    BY <2>2, SumEmpty
  <2> DEFINE t == s \ {Pick(s)}
  <2>5. /\ t \in SUBSET S /\ Cardinality(t) \in Nat /\ ~ (n <= Cardinality(t))
        /\ f[Pick(s)] \in Int
    BY <2>2, <2>4, PickShrinks
  <2>6. SumFunctionOnSet(f, t) \in Int
    <3>1. Cardinality(t) \notin Fails
      BY <2>1, <2>5
    <3>2. QED BY <2>5, <3>1
  <2>7. SumFunctionOnSet(f, s) = f[Pick(s)] + SumFunctionOnSet(f, t)
    BY <2>3, <2>4, SumPick
  <2> HIDE DEF t
  <2>8. QED BY <2>2, <2>5, <2>6, <2>7
<1>2. S \in SUBSET S /\ Cardinality(S) \in Nat
  BY FS_CardinalityType
<1>3. Cardinality(S) \notin Fails
  BY <1>1
<1>4. QED BY <1>2, <1>3

\* The order of addition does not matter: any element may be taken out.
LEMMA SumRemove ==
  ASSUME NEW D, NEW f \in [D -> Int], NEW S \in SUBSET D, IsFiniteSet(S), NEW x \in S
  PROVE  SumFunctionOnSet(f, S) = f[x] + SumFunctionOnSet(f, S \ {x})
<1> DEFINE Sum(s) == SumFunctionOnSet(f, s)
           Fails == {n \in Nat : \E s \in SUBSET S : \E y \in s :
                                Cardinality(s) = n /\ Sum(s) # f[y] + Sum(s \ {y})}
<1>1. \A s \in SUBSET S : IsFiniteSet(s) /\ Cardinality(s) \in Nat /\ Sum(s) \in Int
  BY FS_Subset, FS_CardinalityType, SumInt
<1>2. \A y \in S : f[y] \in Int
  OBVIOUS
<1>3. Fails = {}
  <2> SUFFICES ASSUME Fails # {} PROVE FALSE
    OBVIOUS
  <2>1. PICK n \in Fails : \A m \in Fails : n <= m
    <3>1. Fails \subseteq Nat
      OBVIOUS
    <3> HIDE DEF Fails
    <3>2. QED BY <3>1, LeastNumber
  <2>2. PICK s \in SUBSET S : \E y \in s :
          n \in Nat /\ Cardinality(s) = n /\ Sum(s) # f[y] + Sum(s \ {y})
    OBVIOUS
  <2>3. PICK y \in s :
          n \in Nat /\ Cardinality(s) = n /\ Sum(s) # f[y] + Sum(s \ {y})
    BY <2>2
  <2> DEFINE p == Pick(s)
  <2>4. p \in s /\ p \in S /\ y \in S
    BY PickShrinks
  <2>5. Sum(s) = f[p] + Sum(s \ {p})
    BY <1>1, <2>4, SumPick
  <2> HIDE DEF p
  <2>6. y # p
    BY <2>3, <2>5
  <2>7. /\ Cardinality(s \ {p}) = n - 1 /\ Cardinality(s \ {y}) = n - 1
        /\ n - 1 \in Nat /\ ~ (n <= n - 1)
    <3>1. Cardinality(s \ {p}) = n - 1 /\ Cardinality(s \ {y}) = n - 1
      BY <1>1, <2>3, <2>4, FS_RemoveElement
    <3>2. Cardinality(s \ {p}) \in Nat
      BY <1>1
    <3>3. QED BY <2>3, <3>1, <3>2
  <2>8. n - 1 \notin Fails
    BY <2>1, <2>7
  <2>9. /\ y \in s \ {p} /\ s \ {p} \in SUBSET S
        /\ p \in s \ {y} /\ s \ {y} \in SUBSET S
    BY <2>4, <2>6
  <2>10. Sum(s \ {p}) = f[y] + Sum((s \ {p}) \ {y})
    BY <2>7, <2>8, <2>9
  <2>11. Sum(s \ {y}) = f[p] + Sum((s \ {y}) \ {p})
    BY <2>7, <2>8, <2>9
  <2>12. (s \ {p}) \ {y} = (s \ {y}) \ {p}
    OBVIOUS
  <2>13. Sum((s \ {y}) \ {p}) \in Int
    <3>1. (s \ {y}) \ {p} \in SUBSET S
      OBVIOUS
    <3> HIDE DEF Sum
    <3>2. QED BY <1>1, <3>1
  <2>14. f[y] \in Int /\ f[p] \in Int
    BY <1>2, <2>4
  <2> DEFINE rest == Sum((s \ {y}) \ {p})
  <2>15. /\ Sum(s) = f[p] + (f[y] + rest) /\ Sum(s \ {y}) = f[p] + rest
         /\ Sum(s) # f[y] + Sum(s \ {y})
    BY <2>3, <2>5, <2>10, <2>11, <2>12
  <2> HIDE DEF Sum, rest
  <2>16. rest \in Int
    BY <2>13 DEF rest
  <2>17. QED BY <2>14, <2>15, <2>16
<1>4. Cardinality(S) \in Nat /\ S \in SUBSET S
  BY <1>1
<1>5. Cardinality(S) \notin Fails
  BY <1>3
<1>6. Sum(S) = f[x] + Sum(S \ {x})
  BY <1>4, <1>5
<1>7. QED BY <1>6

LEMMA SumAdd ==
  ASSUME NEW D, NEW f \in [D -> Int], NEW S \in SUBSET D, IsFiniteSet(S),
         NEW x \in D, x \notin S
  PROVE  SumFunctionOnSet(f, S \cup {x}) = SumFunctionOnSet(f, S) + f[x]
<1> DEFINE T == S \cup {x}
<1>1. T \in SUBSET D /\ IsFiniteSet(T) /\ x \in T /\ T \ {x} = S
  BY FS_AddElement
<1> HIDE DEF T
<1>2. SumFunctionOnSet(f, T) = f[x] + SumFunctionOnSet(f, S)
  BY <1>1, SumRemove
<1>3. SumFunctionOnSet(f, S) \in Int /\ f[x] \in Int
  BY SumInt
<1>4. QED BY <1>2, <1>3 DEF T

\* A sum depends on the values at its elements only.
LEMMA SumSame ==
  ASSUME NEW f, NEW g, NEW S, IsFiniteSet(S), \A x \in S : f[x] = g[x]
  PROVE  SumFunctionOnSet(f, S) = SumFunctionOnSet(g, S)
<1> DEFINE Fails == {n \in Nat : \E s \in SUBSET S : Cardinality(s) = n
                                /\ SumFunctionOnSet(f, s) # SumFunctionOnSet(g, s)}
<1>1. Fails = {}
  <2> SUFFICES ASSUME Fails # {} PROVE FALSE
    OBVIOUS
  <2>1. PICK n \in Fails : \A m \in Fails : n <= m
    <3>1. Fails \subseteq Nat
      OBVIOUS
    <3> HIDE DEF Fails
    <3>2. QED BY <3>1, LeastNumber
  <2>2. PICK s \in SUBSET S : n \in Nat /\ Cardinality(s) = n
                              /\ SumFunctionOnSet(f, s) # SumFunctionOnSet(g, s)
    OBVIOUS
  <2>3. IsFiniteSet(s)
    BY FS_Subset
  <2>4. s # {}
    BY <2>2, SumEmpty
  <2> DEFINE t == s \ {Pick(s)}
  <2>5. /\ t \in SUBSET S /\ Cardinality(t) \in Nat /\ ~ (n <= Cardinality(t))
        /\ Pick(s) \in S
    BY <2>2, <2>4, PickShrinks
  <2>6. SumFunctionOnSet(f, t) = SumFunctionOnSet(g, t)
    <3>1. Cardinality(t) \notin Fails
      BY <2>1, <2>5
    <3>2. QED BY <2>5, <3>1
  <2>7. /\ SumFunctionOnSet(f, s) = f[Pick(s)] + SumFunctionOnSet(f, t)
        /\ SumFunctionOnSet(g, s) = g[Pick(s)] + SumFunctionOnSet(g, t)
    BY <2>3, <2>4, SumPick
  <2> HIDE DEF t
  <2>8. QED BY <2>2, <2>5, <2>6, <2>7
<1>2. S \in SUBSET S /\ Cardinality(S) \in Nat
  BY FS_CardinalityType
<1>3. Cardinality(S) \notin Fails
  BY <1>1
<1>4. QED BY <1>2, <1>3

\* To add up f over S is to add up g over what S is renamed to, one to one.
LEMMA SumRenamed ==
  ASSUME NEW S, IsFiniteSet(S), NEW D, NEW g \in [D -> Int], NEW b \in [S -> D],
         NEW f \in [S -> Int], \A x \in S : f[x] = g[b[x]],
         \A x, y \in S : b[x] = b[y] => x = y
  PROVE  /\ IsFiniteSet({b[x] : x \in S}) /\ Cardinality({b[x] : x \in S}) = Cardinality(S)
         /\ SumFunctionOnSet(f, S) = SumFunctionOnSet(g, {b[x] : x \in S})
<1> DEFINE Im(s) == {b[x] : x \in s}
           Good(s) == /\ IsFiniteSet(Im(s)) /\ Cardinality(Im(s)) = Cardinality(s)
                      /\ SumFunctionOnSet(f, s) = SumFunctionOnSet(g, Im(s))
           Fails == {n \in Nat : \E s \in SUBSET S : Cardinality(s) = n /\ ~Good(s)}
<1>1. ASSUME Fails # {} PROVE FALSE
  <2>1. PICK n \in Fails : \A m \in Fails : n <= m
    <3>1. Fails \subseteq Nat
      OBVIOUS
    <3> HIDE DEF Fails
    <3>2. QED BY <1>1, <3>1, LeastNumber
  <2>2. PICK s \in SUBSET S : n \in Nat /\ Cardinality(s) = n /\ ~Good(s)
    OBVIOUS
  <2>3. IsFiniteSet(s)
    BY FS_Subset
  <2>4. s # {}
    <3>1. ASSUME s = {} PROVE Im(s) = {}
      BY <3>1
    <3>2. QED BY <2>2, <3>1, SumEmpty, FS_EmptySet
  <2> DEFINE x == Pick(s)  t == s \ {x}
  <2>5. /\ x \in s /\ t \in SUBSET S /\ Cardinality(t) = n - 1 /\ IsFiniteSet(t)
        /\ Cardinality(t) \in Nat /\ ~ (n <= Cardinality(t))
    BY <2>2, <2>4, PickShrinks, FS_Subset
  <2>6. Good(t)
    <3>1. Cardinality(t) \notin Fails
      BY <2>1, <2>5
    <3>2. QED BY <2>5, <3>1
  <2> HIDE DEF x
  <2> DEFINE I == Im(t)  y == b[x]
  <2>7. /\ s = t \cup {x} /\ x \notin t /\ x \in S
        /\ Im(s) = I \cup {y} /\ y \notin I /\ y \in D /\ I \in SUBSET D /\ f[x] = g[y]
    BY <2>5
  <2>8. /\ IsFiniteSet(I) /\ Cardinality(I) = Cardinality(t)
        /\ SumFunctionOnSet(f, t) = SumFunctionOnSet(g, I)
    BY <2>6
  <2> HIDE DEF t, y, I
  <2>9. /\ IsFiniteSet(I \cup {y}) /\ Cardinality(I \cup {y}) = Cardinality(I) + 1
        /\ Cardinality(t \cup {x}) = Cardinality(t) + 1
    BY <2>5, <2>7, <2>8, FS_AddElement
  <2>10. SumFunctionOnSet(f, t \cup {x}) = SumFunctionOnSet(f, t) + f[x]
    BY <2>5, <2>7, SumAdd
  <2>11. SumFunctionOnSet(g, I \cup {y}) = SumFunctionOnSet(g, I) + g[y]
    BY <2>7, <2>8, SumAdd
  <2> HIDE DEF Im
  <2>12. Good(s)
    BY <2>7, <2>8, <2>9, <2>10, <2>11
  <2>13. QED BY <2>2, <2>12
<1>2. S \in SUBSET S /\ Cardinality(S) \in Nat
  BY FS_CardinalityType
<1>3. Cardinality(S) \notin Fails
  BY <1>1
<1>4. Good(S)
  BY <1>2, <1>3
<1>5. QED BY <1>4

-----------------------------------------------------------------------------
(* Blocks *)

\* The blocks of the owners in S, g of them each.
Blocked(g, S) == UNION {{x} \X (0 .. g[x] - 1) : x \in S}

\* What one owner more adds.
LEMMA BlockedAdd ==
  ASSUME NEW g, NEW S, NEW x
  PROVE  Blocked(g, S \cup {x}) = Blocked(g, S) \cup ({x} \X (0 .. g[x] - 1))
BY DEF Blocked

\* What is left without one owner.
LEMMA BlockedRemove ==
  ASSUME NEW g, NEW S, NEW x
  PROVE  \A b : b \in Blocked(g, S \ {x}) <=> b \in Blocked(g, S) /\ b[1] # x
BY DEF Blocked

\* The blocks of an owner number what it was given.
LEMMA OwnBlocks ==
  ASSUME NEW x, NEW n \in Nat
  PROVE  /\ IsFiniteSet({x} \X (0 .. n - 1))
         /\ Cardinality({x} \X (0 .. n - 1)) = n
<1> DEFINE A == {x}
           B == 0 .. n - 1
<1>1. IsFiniteSet(A) /\ Cardinality(A) = 1
  BY FS_Singleton
<1>2. IsFiniteSet(B) /\ Cardinality(B) = n
  <2>1. 0 \in Int /\ n - 1 \in Int
    OBVIOUS
  <2>2. /\ IsFiniteSet(0 .. n - 1)
        /\ Cardinality(0 .. n - 1) = IF 0 > n - 1 THEN 0 ELSE n - 1 - 0 + 1
    BY <2>1, FS_Interval
  <2>3. QED BY <2>2
<1> HIDE DEF A, B
<1>3. IsFiniteSet(A \X B) /\ Cardinality(A \X B) = Cardinality(A) * Cardinality(B)
  BY <1>1, <1>2, FS_Product
<1>4. IsFiniteSet(A \X B) /\ Cardinality(A \X B) = n
  BY <1>1, <1>2, <1>3
<1>5. QED BY <1>4 DEF A, B

\* The blocks of distinct owners add up.
LEMMA BlockedCardinality ==
  ASSUME NEW D, NEW g \in [D -> Nat], NEW S \in SUBSET D, IsFiniteSet(S)
  PROVE  /\ IsFiniteSet(Blocked(g, S))
         /\ Cardinality(Blocked(g, S)) = SumFunctionOnSet(g, S)
<1> DEFINE Counts(s) == /\ IsFiniteSet(Blocked(g, s))
                        /\ Cardinality(Blocked(g, s)) = SumFunctionOnSet(g, s)
           Fails == {n \in Nat : \E s \in SUBSET S : Cardinality(s) = n /\ ~Counts(s)}
<1>1. Fails = {}
  <2> SUFFICES ASSUME Fails # {} PROVE FALSE
    OBVIOUS
  <2>1. PICK n \in Fails : \A m \in Fails : n <= m
    <3>1. Fails \subseteq Nat
      OBVIOUS
    <3> HIDE DEF Fails
    <3>2. QED BY <3>1, LeastNumber
  <2>2. PICK s \in SUBSET S : n \in Nat /\ Cardinality(s) = n /\ ~Counts(s)
    OBVIOUS
  <2>3. IsFiniteSet(s)
    BY FS_Subset
  <2>4. s # {}
    <3>1. Blocked(g, {}) = {}
      BY DEF Blocked
    <3>2. Counts({})
      BY <3>1, SumEmpty, FS_EmptySet
    <3> HIDE DEF Counts
    <3>3. QED BY <2>2, <3>2
  <2> DEFINE x == Pick(s)
             t == s \ {x}
             B == Blocked(g, t)
             P == {x} \X (0 .. g[x] - 1)
  <2>5. /\ t \in SUBSET S /\ Cardinality(t) \in Nat /\ ~ (n <= Cardinality(t))
        /\ x \in s /\ x \in S /\ s = t \cup {x} /\ x \notin t
    BY <2>2, <2>4, PickShrinks
  <2>6. Counts(t)
    <3> HIDE DEF Counts, t
    <3>1. Cardinality(t) \notin Fails
      BY <2>1, <2>5
    <3>2. QED BY <2>5, <3>1
  <2>7. IsFiniteSet(B) /\ Cardinality(B) = SumFunctionOnSet(g, t)
    BY <2>6
  <2>8. IsFiniteSet(P) /\ Cardinality(P) = g[x]
    <3>1. g[x] \in Nat
      BY <2>5
    <3> HIDE DEF x
    <3>2. QED BY <3>1, OwnBlocks
  <2>9. Blocked(g, s) = B \cup P
    <3> HIDE DEF t, x
    <3>1. QED BY <2>5, BlockedAdd
  <2>10. B \cap P = {}
    <3> HIDE DEF t, x
    <3>1. QED BY <2>5 DEF Blocked
  <2>11. SumFunctionOnSet(g, s) = SumFunctionOnSet(g, t) + g[x]
    <3>1. g \in [D -> Int] /\ IsFiniteSet(t) /\ t \in SUBSET D /\ x \in D
      BY <2>3, <2>5, FS_Subset
    <3> HIDE DEF t, x
    <3>2. QED BY <2>5, <3>1, SumAdd
  <2> HIDE DEF t, x, B, P
  <2>12. IsFiniteSet(B \cup P) /\ Cardinality(B \cup P) = SumFunctionOnSet(g, t) + g[x]
    <3>1. /\ IsFiniteSet(B \cup P)
          /\ Cardinality(B \cup P) = Cardinality(B) + Cardinality(P) - Cardinality(B \cap P)
      BY <2>7, <2>8, FS_Union
    <3>2. Cardinality(B \cap P) = 0
      BY <2>10, FS_EmptySet
    <3>3. Cardinality(B) \in Nat /\ Cardinality(P) \in Nat
      BY <2>7, <2>8, FS_CardinalityType
    <3>4. QED BY <2>7, <2>8, <3>1, <3>2, <3>3
  <2>13. QED BY <2>2, <2>9, <2>11, <2>12
<1>2. S \in SUBSET S /\ Cardinality(S) \in Nat
  BY FS_CardinalityType
<1>3. Cardinality(S) \notin Fails
  BY <1>1
<1> HIDE DEF Counts
<1>4. Counts(S)
  BY <1>2, <1>3
<1>5. QED BY <1>4 DEF Counts

\* A pool that had room for n blocks keeps its capacity with them.
LEMMA BlocksFit ==
  ASSUME NEW B, IsFiniteSet(B), NEW x, NEW n \in Nat, NEW cap \in Int, Cardinality(B) + n <= cap
  PROVE  Cardinality(B \cup ({x} \X (0 .. n - 1))) <= cap
<1> DEFINE P == {x} \X (0 .. n - 1)
<1>1. IsFiniteSet(P) /\ Cardinality(P) = n
  BY OwnBlocks
<1> HIDE DEF P
<1>2. Cardinality(B \cup P) = Cardinality(B) + Cardinality(P) - Cardinality(B \cap P)
  BY <1>1, FS_Union
<1>3. Cardinality(B) \in Nat /\ Cardinality(B \cap P) \in Nat
  BY FS_Subset, FS_CardinalityType
<1>4. Cardinality(B \cup P) <= cap
  BY <1>1, <1>2, <1>3
<1>5. QED BY <1>4 DEF P

\* And one that gives some back.
LEMMA BlocksLeft ==
  ASSUME NEW B, IsFiniteSet(B), NEW C \in SUBSET B, NEW cap \in Int, Cardinality(B) <= cap
  PROVE  Cardinality(C) <= cap
<1>1. Cardinality(C) <= Cardinality(B) /\ Cardinality(C) \in Nat /\ Cardinality(B) \in Nat
  BY FS_Subset, FS_CardinalityType
<1>2. QED BY <1>1

-----------------------------------------------------------------------------
(* Queues *)

\* A sequence names each of its elements once; its elements increase.
Once(s)    == \A i, j \in 1 .. Len(s) : s[i] = s[j] => i = j
InOrder(s) == \A i, j \in 1 .. Len(s) : i < j => s[i] < s[j]

LEMMA PopTypes ==
  ASSUME NEW S, NEW s \in Seq(S), s # <<>>
  PROVE  Head(s) \in S /\ Tail(s) \in Seq(S)
  BY HeadTailProperties

LEMMA PushTypes ==
  ASSUME NEW S, NEW s \in Seq(S), NEW e \in S
  PROVE  Append(s, e) \in Seq(S)
  BY AppendProperties

LEMMA SubSeqLength ==
  ASSUME NEW S, NEW s, NEW n \in Nat, NEW t, t = SubSeq(s, 1, n),
         \A i \in 1 .. n : s[i] \in S
  PROVE  Len(t) = n
<1>1. Len(t) = IF 1 <= n THEN n - 1 + 1 ELSE 0
  BY SubSeqProperties
<1>2. QED BY <1>1

LEMMA LastTypes ==
  ASSUME NEW S, NEW s \in Seq(S), Len(s) > 0
  PROVE  /\ Last(s) \in S /\ Front(s) \in Seq(S)
         /\ Len(Front(s)) = Len(s) - 1
         /\ \A i \in 1 .. Len(s) - 1 : Front(s)[i] = s[i]
<1>1. Len(s) \in Nat /\ Len(s) - 1 \in Nat /\ \A i \in 1 .. Len(s) : s[i] \in S
  BY LenProperties, ElementOfSeq
<1>2. Last(s) \in S
  BY <1>1 DEF Last
<1>3. Front(s) \in Seq(S) /\ \A i \in 1 .. Len(s) - 1 : Front(s)[i] = s[i]
  BY DEF Front
<1>4. Len(Front(s)) = Len(s) - 1
  <2>1. \A i \in 1 .. Len(s) - 1 : s[i] \in S
    BY <1>1
  <2>2. Front(s) = SubSeq(s, 1, Len(s) - 1)
    BY Zenon DEF Front
  <2>3. QED BY <1>1, <2>1, <2>2, SubSeqLength
<1>5. QED BY <1>2, <1>3, <1>4

LEMMA InOrderOnce ==
  ASSUME NEW S, S \subseteq Int, NEW s \in Seq(S), InOrder(s)
  PROVE  Once(s)
<1> SUFFICES ASSUME NEW i \in 1 .. Len(s), NEW j \in 1 .. Len(s), s[i] = s[j]
             PROVE  i = j
  BY DEF Once
<1>1. s[i] \in Int /\ s[j] \in Int
  BY ElementOfSeq
<1>2. ~(i < j) /\ ~(j < i)
  BY <1>1 DEF InOrder
<1>3. QED BY <1>2

\* The head of an increasing queue is its least.
LEMMA HeadLeast ==
  ASSUME NEW S, S \subseteq Int, NEW s \in Seq(S), s # <<>>, InOrder(s)
  PROVE  \A x \in ToSet(s) : Head(s) <= x
<1>1. /\ Len(s) \in Nat /\ Len(s) >= 1 /\ Head(s) = s[1] /\ DOMAIN s = 1 .. Len(s)
      /\ \A i \in 1 .. Len(s) : s[i] \in Int
  <2>1. Len(s) \in Nat /\ Len(s) >= 1 /\ Head(s) = s[1] /\ DOMAIN s = 1 .. Len(s)
    BY HeadTailProperties, LenProperties, EmptySeq
  <2>2. \A i \in 1 .. Len(s) : s[i] \in S
    BY ElementOfSeq
  <2>3. QED BY <2>1, <2>2
<1> SUFFICES ASSUME NEW i \in 1 .. Len(s) PROVE s[1] <= s[i]
  BY <1>1 DEF ToSet
<1>2. i = 1 \/ 1 < i
  OBVIOUS
<1>3. QED BY <1>1, <1>2 DEF InOrder

\* Popping takes the head out of the set and keeps the order of the rest.
LEMMA PopSet ==
  ASSUME NEW S, NEW s \in Seq(S), s # <<>>, Once(s)
  PROVE  /\ Head(s) \in ToSet(s)
         /\ ToSet(Tail(s)) = ToSet(s) \ {Head(s)}
         /\ Once(Tail(s))
         /\ InOrder(s) => InOrder(Tail(s))
<1>1. /\ Len(s) \in Nat /\ Len(s) >= 1 /\ Head(s) = s[1]
      /\ Len(Tail(s)) = Len(s) - 1
      /\ \A i \in 1 .. Len(s) - 1 : Tail(s)[i] = s[i + 1]
  BY HeadTailProperties, LenProperties, EmptySeq
<1>2. /\ DOMAIN s = 1 .. Len(s) /\ DOMAIN Tail(s) = 1 .. Len(s) - 1
  BY <1>1, LenProperties, HeadTailProperties
<1>3. Head(s) \in ToSet(s)
  BY <1>1, <1>2 DEF ToSet
<1>4. ToSet(Tail(s)) \subseteq ToSet(s) \ {Head(s)}
  <2> SUFFICES ASSUME NEW i \in 1 .. Len(s) - 1
               PROVE  Tail(s)[i] \in ToSet(s) /\ Tail(s)[i] # Head(s)
    BY <1>2 DEF ToSet
  <2>1. Tail(s)[i] = s[i + 1] /\ i + 1 \in 1 .. Len(s) /\ 1 \in 1 .. Len(s) /\ i + 1 # 1
    BY <1>1
  <2>2. s[i + 1] # s[1]
    BY <2>1 DEF Once
  <2>3. QED BY <1>1, <1>2, <2>1, <2>2 DEF ToSet
<1>5. ToSet(s) \ {Head(s)} \subseteq ToSet(Tail(s))
  <2> SUFFICES ASSUME NEW i \in 1 .. Len(s), s[i] # s[1]
               PROVE  s[i] \in ToSet(Tail(s))
    BY <1>1, <1>2 DEF ToSet
  <2>1. i - 1 \in 1 .. Len(s) - 1
    BY <1>1
  <2>2. Tail(s)[i - 1] = s[i]
    BY <1>1, <2>1
  <2>3. QED BY <1>2, <2>1, <2>2 DEF ToSet
<1>6. Once(Tail(s))
  <2> SUFFICES ASSUME NEW i \in 1 .. Len(s) - 1, NEW j \in 1 .. Len(s) - 1,
                      Tail(s)[i] = Tail(s)[j]
               PROVE  i = j
    BY <1>1 DEF Once
  <2>1. i + 1 \in 1 .. Len(s) /\ j + 1 \in 1 .. Len(s) /\ s[i + 1] = s[j + 1]
    BY <1>1
  <2>2. QED BY <2>1 DEF Once
<1>7. InOrder(s) => InOrder(Tail(s))
  <2> SUFFICES ASSUME InOrder(s), NEW i \in 1 .. Len(s) - 1, NEW j \in 1 .. Len(s) - 1,
                      i < j
               PROVE  Tail(s)[i] < Tail(s)[j]
    BY <1>1 DEF InOrder
  <2>1. i + 1 \in 1 .. Len(s) /\ j + 1 \in 1 .. Len(s) /\ i + 1 < j + 1
    BY <1>1
  <2>2. s[i + 1] < s[j + 1]
    BY <2>1 DEF InOrder
  <2>3. QED BY <1>1, <2>2
<1>8. QED BY <1>3, <1>4, <1>5, <1>6, <1>7

\* Pushing adds to the set; what is pushed must be new, or greater than the rest.
LEMMA PushSet ==
  ASSUME NEW S, NEW s \in Seq(S), NEW e \in S
  PROVE  /\ ToSet(Append(s, e)) = ToSet(s) \cup {e}
         /\ Once(s) /\ e \notin ToSet(s) => Once(Append(s, e))
         /\ InOrder(s) /\ (\A x \in ToSet(s) : x < e) => InOrder(Append(s, e))
<1> DEFINE t == Append(s, e)
<1>1. /\ Len(s) \in Nat /\ Len(t) = Len(s) + 1 /\ t[Len(s) + 1] = e
      /\ \A i \in 1 .. Len(s) : t[i] = s[i]
  BY AppendProperties, LenProperties
<1>2. DOMAIN s = 1 .. Len(s) /\ DOMAIN t = 1 .. Len(s) + 1
  BY <1>1, LenProperties, AppendProperties
<1>3. \A i \in 1 .. Len(s) : s[i] \in ToSet(s)
  BY <1>2 DEF ToSet
<1> HIDE DEF t
<1>4. ToSet(t) = ToSet(s) \cup {e}
  <2>1. ToSet(t) \subseteq ToSet(s) \cup {e}
    <3> SUFFICES ASSUME NEW i \in 1 .. Len(s) + 1 PROVE t[i] \in ToSet(s) \cup {e}
      BY <1>2 DEF ToSet
    <3>1. i \in 1 .. Len(s) \/ i = Len(s) + 1
      BY <1>1
    <3>2. QED BY <1>1, <1>3, <3>1
  <2>2. ToSet(s) \subseteq ToSet(t)
    <3> SUFFICES ASSUME NEW i \in 1 .. Len(s) PROVE s[i] \in ToSet(t)
      BY <1>2 DEF ToSet
    <3>1. i \in 1 .. Len(s) + 1
      BY <1>1
    <3>2. QED BY <1>1, <1>2, <3>1 DEF ToSet
  <2>3. e \in ToSet(t)
    <3>1. Len(s) + 1 \in 1 .. Len(s) + 1
      BY <1>1
    <3>2. QED BY <1>1, <1>2, <3>1 DEF ToSet
  <2>4. QED BY <2>1, <2>2, <2>3
<1>5. Once(s) /\ e \notin ToSet(s) => Once(t)
  <2> SUFFICES ASSUME Once(s), e \notin ToSet(s),
                      NEW i \in 1 .. Len(s) + 1, NEW j \in 1 .. Len(s) + 1, t[i] = t[j]
               PROVE  i = j
    BY <1>1 DEF Once
  <2>1. /\ i \in 1 .. Len(s) \/ i = Len(s) + 1
        /\ j \in 1 .. Len(s) \/ j = Len(s) + 1
    BY <1>1
  <2>2. CASE i \in 1 .. Len(s) /\ j \in 1 .. Len(s)
    BY <1>1, <2>2 DEF Once
  <2>3. CASE ~(i \in 1 .. Len(s) /\ j \in 1 .. Len(s))
    BY <1>1, <1>3, <2>1, <2>3
  <2>4. QED BY <2>2, <2>3
<1>6. InOrder(s) /\ (\A x \in ToSet(s) : x < e) => InOrder(t)
  <2> SUFFICES ASSUME InOrder(s), \A x \in ToSet(s) : x < e,
                      NEW i \in 1 .. Len(s) + 1, NEW j \in 1 .. Len(s) + 1, i < j
               PROVE  t[i] < t[j]
    BY <1>1 DEF InOrder
  <2>1. i \in 1 .. Len(s) /\ (j \in 1 .. Len(s) \/ j = Len(s) + 1)
    BY <1>1
  <2>2. CASE j \in 1 .. Len(s)
    BY <1>1, <2>1, <2>2 DEF InOrder
  <2>3. CASE j = Len(s) + 1
    BY <1>1, <1>3, <2>1, <2>3
  <2>4. QED BY <2>1, <2>2, <2>3
<1>7. QED BY <1>4, <1>5, <1>6 DEF t

\* Taking the last one off.
LEMMA LastSet ==
  ASSUME NEW S, NEW s \in Seq(S), Len(s) > 0, Once(s)
  PROVE  /\ Last(s) \in ToSet(s)
         /\ ToSet(Front(s)) = ToSet(s) \ {Last(s)}
         /\ Once(Front(s))
<1>1. /\ Len(s) \in Nat /\ Last(s) = s[Len(s)] /\ Len(Front(s)) = Len(s) - 1
      /\ DOMAIN s = 1 .. Len(s) /\ DOMAIN Front(s) = 1 .. Len(s) - 1
      /\ \A i \in 1 .. Len(s) - 1 : Front(s)[i] = s[i]
  BY LenProperties, LastTypes DEF Last
<1>2. Last(s) \in ToSet(s)
  BY <1>1 DEF ToSet
<1>3. ToSet(Front(s)) \subseteq ToSet(s) \ {Last(s)}
  <2> SUFFICES ASSUME NEW i \in 1 .. Len(s) - 1
               PROVE  Front(s)[i] \in ToSet(s) /\ Front(s)[i] # Last(s)
    BY <1>1 DEF ToSet
  <2>1. i \in 1 .. Len(s) /\ Len(s) \in 1 .. Len(s) /\ i # Len(s)
    BY <1>1
  <2>2. s[i] # s[Len(s)]
    BY <2>1 DEF Once
  <2>3. QED BY <1>1, <2>1, <2>2 DEF ToSet
<1>4. ToSet(s) \ {Last(s)} \subseteq ToSet(Front(s))
  <2> SUFFICES ASSUME NEW i \in 1 .. Len(s), s[i] # s[Len(s)]
               PROVE  s[i] \in ToSet(Front(s))
    BY <1>1 DEF ToSet
  <2>1. i \in 1 .. Len(s) - 1
    BY <1>1
  <2>2. QED BY <1>1, <2>1 DEF ToSet
<1>5. Once(Front(s))
  BY <1>1 DEF Once
<1>6. QED BY <1>2, <1>3, <1>4, <1>5

\* Putting two sequences together.
LEMMA ConcatSet ==
  ASSUME NEW S, NEW s \in Seq(S), NEW t \in Seq(S)
  PROVE  Len(s \o t) = Len(s) + Len(t) /\ ToSet(s \o t) = ToSet(s) \cup ToSet(t)
<1> DEFINE u == s \o t
<1>1. /\ Len(s) \in Nat /\ Len(t) \in Nat /\ Len(u) = Len(s) + Len(t)
      /\ DOMAIN s = 1 .. Len(s) /\ DOMAIN t = 1 .. Len(t) /\ DOMAIN u = 1 .. Len(u)
      /\ \A i \in 1 .. Len(s) : u[i] = s[i]
      /\ \A i \in 1 .. Len(t) : u[Len(s) + i] = t[i]
  BY LenProperties, ConcatProperties
<1> HIDE DEF u
<1>2. ToSet(u) \subseteq ToSet(s) \cup ToSet(t)
  <2> SUFFICES ASSUME NEW i \in 1 .. Len(u) PROVE u[i] \in ToSet(s) \cup ToSet(t)
    BY <1>1 DEF ToSet
  <2>1. CASE i <= Len(s)
    BY <1>1, <2>1 DEF ToSet
  <2>2. CASE i > Len(s)
    <3>1. i - Len(s) \in 1 .. Len(t) /\ i = Len(s) + (i - Len(s))
      BY <1>1, <2>2
    <3>2. u[i] = t[i - Len(s)]
      BY <1>1, <3>1
    <3>3. QED BY <1>1, <3>1, <3>2 DEF ToSet
  <2>3. QED BY <1>1, <2>1, <2>2
<1>3. ToSet(s) \subseteq ToSet(u)
  <2> SUFFICES ASSUME NEW i \in 1 .. Len(s) PROVE s[i] \in ToSet(u)
    BY <1>1 DEF ToSet
  <2>1. i \in 1 .. Len(u)
    BY <1>1
  <2>2. QED BY <1>1, <2>1 DEF ToSet
<1>4. ToSet(t) \subseteq ToSet(u)
  <2> SUFFICES ASSUME NEW i \in 1 .. Len(t) PROVE t[i] \in ToSet(u)
    BY <1>1 DEF ToSet
  <2>1. Len(s) + i \in 1 .. Len(u)
    BY <1>1
  <2>2. QED BY <1>1, <2>1 DEF ToSet
<1>5. QED BY <1>1, <1>2, <1>3, <1>4 DEF u

-----------------------------------------------------------------------------
(* Places *)

\* Six places with nothing in common.
Apart(A, B, C, D, E, F) ==
  /\ A \cap B = {} /\ A \cap C = {} /\ A \cap D = {} /\ A \cap E = {} /\ A \cap F = {}
  /\ B \cap C = {} /\ B \cap D = {} /\ B \cap E = {} /\ B \cap F = {}
  /\ C \cap D = {} /\ C \cap E = {} /\ C \cap F = {}
  /\ D \cap E = {} /\ D \cap F = {}
  /\ E \cap F = {}

\* The same six, as the properties name them.
LEMMA SixPlaces ==
  ASSUME NEW A, NEW B, NEW C, NEW D, NEW E, NEW F,
         NEW place, place = <<A, B, C, D, E, F>>
  PROVE  /\ (\A i, j \in 1 .. 6 : i # j => place[i] \cap place[j] = {}) <=> Apart(A, B, C, D, E, F)
         /\ UNION {place[i] : i \in 1 .. 6} = A \cup B \cup C \cup D \cup E \cup F
<1>1. /\ place[1] = A /\ place[2] = B /\ place[3] = C
      /\ place[4] = D /\ place[5] = E /\ place[6] = F
  OBVIOUS
<1>2. 1 .. 6 = {1, 2, 3, 4, 5, 6}
  OBVIOUS
<1>3. ASSUME \A i, j \in 1 .. 6 : i # j => place[i] \cap place[j] = {}
      PROVE  Apart(A, B, C, D, E, F)
  <2>1. \A i, j \in {1, 2, 3, 4, 5, 6} : i # j => place[i] \cap place[j] = {}
    BY <1>2, <1>3
  <2>2. QED BY <1>1, <2>1 DEF Apart
<1>4. ASSUME Apart(A, B, C, D, E, F), NEW i \in 1 .. 6, NEW j \in 1 .. 6, i # j
      PROVE  place[i] \cap place[j] = {}
  <2>1. i \in {1, 2, 3, 4, 5, 6} /\ j \in {1, 2, 3, 4, 5, 6}
    BY <1>2
  <2>2. QED BY <1>1, <1>4, <2>1 DEF Apart
<1>5. UNION {place[i] : i \in 1 .. 6} = A \cup B \cup C \cup D \cup E \cup F
  BY <1>1, <1>2
<1>6. QED BY <1>3, <1>4, <1>5

\* One more in a set that is counted, and one fewer.
LEMMA CountOneMore ==
  ASSUME NEW S, IsFiniteSet(S), NEW x, x \notin S
  PROVE  Cardinality(S \cup {x}) = Cardinality(S) + 1
BY FS_AddElement

LEMMA CountOneLess ==
  ASSUME NEW S, IsFiniteSet(S), NEW x \in S
  PROVE  Cardinality(S \ {x}) = Cardinality(S) - 1
BY FS_RemoveElement
=============================================================================
