----------------------------- MODULE ListLemmas -----------------------------
(***************************************************************************)
(* Facts about what the modules compute with, whatever they compute: sets  *)
(* of numbers have a least and, when they are bounded, a highest member,   *)
(* and InOrder enumerates all of theirs; sums over finite sets are added   *)
(* up one term at a time, in any order; what is ranked has a place each;   *)
(* and what is in reach of a node is closed.                               *)
(***************************************************************************)
EXTENDS Positions, Functions, FiniteSetsExt, FiniteSetTheorems, WellFoundedInduction, TLAPS

\* A nonempty set of natural numbers has a least member: the starting point
\* for what would otherwise be an induction.
LEMMA LeastMember ==
  ASSUME NEW S \in SUBSET Nat, S # {}
  PROVE  \E m \in S : \A n \in S : m <= n
<1>1. \E m \in S : \A n \in S : ~ (<<n, m>> \in OpToRel(<, Nat))
  BY NatLessThanWellFounded, WFMin
<1>2. PICK m \in S : \A n \in S : ~ (<<n, m>> \in OpToRel(<, Nat))
  BY <1>1
<1>3. ASSUME NEW n \in S PROVE m <= n
  <2>1. ~ (<<n, m>> \in OpToRel(<, Nat))
    BY <1>2
  <2>2. ~ (n < m)
    BY <2>1, Zenon DEF OpToRel
  <2>3. QED
    BY <2>2
<1>4. QED
  BY <1>3

\* Max finds the highest member of a nonempty bounded set.
LEMMA MaxProperty ==
  ASSUME NEW S \in SUBSET Nat, S # {}, NEW b \in Nat, \A x \in S : x <= b
  PROVE  Max(S) \in S /\ \A x \in S : x <= Max(S)
<1> DEFINE Bounds == {n \in Nat : \A x \in S : x <= n}
<1>1. PICK m \in Bounds : \A n \in Bounds : m <= n
  <2>1. Bounds \in SUBSET Nat /\ b \in Bounds
    OBVIOUS
  <2>2. QED
    BY <2>1, LeastMember
<1>2. m \in S
  <2>1. SUFFICES ASSUME m \notin S PROVE FALSE
    OBVIOUS
  <2>2. PICK x \in S : TRUE
    OBVIOUS
  <2>3. \A y \in S : y < m
    BY <1>1, <2>1
  <2>4. m - 1 \in Bounds
    BY <1>1, <2>2, <2>3
  <2>5. QED
    BY <1>1, <2>4
<1>3. \E x \in S : \A y \in S : x >= y
  BY <1>1, <1>2
<1>4. Max(S) \in S /\ \A y \in S : Max(S) >= y
  BY <1>3, Zenon DEF Max
<1>5. QED
  BY <1>4

\* A finite set of positions can be enumerated in increasing order: the
\* history records of a journal have a first, a second and so on, and so have
\* the arcs out of a node.
LEMMA InOrderExists ==
  ASSUME NEW N \in Nat, NEW H \in SUBSET (1 .. N)
  PROVE  \E e \in [1 .. Cardinality(H) -> H] :
           \A a, b \in DOMAIN e : a < b => e[a] < e[b]
<1> DEFINE Enumerates(e, K) ==
             \A a, b \in DOMAIN e : a < b => e[a] < e[b]
           Bad == {n \in Nat : \E K \in SUBSET (1 .. N) :
                     /\ Cardinality(K) = n
                     /\ ~ \E e \in [1 .. n -> K] : Enumerates(e, K)}
<1>1. \A K \in SUBSET (1 .. N) : IsFiniteSet(K) /\ Cardinality(K) \in Nat
  <2>1. IsFiniteSet(1 .. N)
    BY FS_Interval
  <2>2. ASSUME NEW K \in SUBSET (1 .. N)
        PROVE  IsFiniteSet(K) /\ Cardinality(K) \in Nat
    BY <2>1, FS_Subset, FS_CardinalityType
  <2>3. QED
    BY <2>2
<1>2. SUFFICES Bad = {}
  BY <1>1
<1>3. SUFFICES ASSUME Bad # {} PROVE FALSE
  OBVIOUS
<1>4. PICK n \in Bad : \A k \in Bad : n <= k
  BY <1>3, LeastMember
<1>5. PICK K \in SUBSET (1 .. N) :
        Cardinality(K) = n /\ ~ \E e \in [1 .. n -> K] : Enumerates(e, K)
  BY <1>4
<1>6. n \in Nat
  BY <1>4
<1>7. K # {}
  <2>1. SUFFICES ASSUME K = {} PROVE FALSE
    OBVIOUS
  <2>2. n = 0
    BY <1>5, <2>1, FS_EmptySet
  <2>3. [i \in 1 .. n |-> i] \in [1 .. n -> K]
    BY <2>2
  <2>4. Enumerates([i \in 1 .. n |-> i], K)
    BY <2>2
  <2>5. QED
    BY <1>5, <2>3, <2>4
<1> DEFINE top == Max(K)
           Rest == K \ {top}
<1>8. top \in K /\ top \in Nat /\ \A x \in K : x <= top
  <2>1. K \in SUBSET Nat /\ \A x \in K : x <= N
    BY <1>5
  <2>2. QED
    BY <1>7, <2>1, MaxProperty
<1>9. n # 0 /\ Cardinality(Rest) = n - 1 /\ n - 1 \in Nat
  <2>1. IsFiniteSet(K)
    BY <1>1, <1>5
  <2>2. Cardinality(Rest) = n - 1
    BY <1>5, <1>8, <2>1, FS_RemoveElement
  <2>3. n # 0
    BY <1>5, <1>7, <2>1, FS_EmptySet
  <2>4. QED
    BY <1>6, <2>2, <2>3
<1>10. n - 1 \notin Bad
  BY <1>4, <1>6
<1>11. PICK e \in [1 .. (n - 1) -> Rest] : Enumerates(e, Rest)
  BY <1>9, <1>10
<1> DEFINE f == [i \in 1 .. n |-> IF i = n THEN top ELSE e[i]]
<1>12. f \in [1 .. n -> K]
  BY <1>6, <1>8, <1>9, <1>11
<1>13. Enumerates(f, K)
  <2>1. SUFFICES ASSUME NEW a \in 1 .. n, NEW b \in 1 .. n, a < b
                 PROVE  f[a] < f[b]
    BY <1>12
  <2>2. a \in 1 .. (n - 1) /\ f[a] = e[a] /\ e[a] \in Rest
    BY <1>6, <1>11, <2>1
  <2>3. CASE b = n
    <3>1. e[a] \in K /\ e[a] # top
      BY <2>2
    <3>2. f[b] = top /\ f[a] = e[a]
      BY <1>6, <2>2, <2>3
    <3>3. K \in SUBSET Nat
      BY <1>5
    <3> HIDE DEF top, f, Bad, Rest
    <3>4. e[a] \in Nat /\ top \in Nat /\ e[a] <= top
      BY <1>8, <3>1, <3>3, Zenon
    <3>5. QED
      BY <3>1, <3>2, <3>4
  <2>4. CASE b # n
    <3>1. b \in 1 .. (n - 1) /\ f[b] = e[b]
      BY <1>6, <2>1, <2>4
    <3>2. QED
      BY <1>11, <2>1, <2>2, <3>1
  <2>5. QED
    BY <2>3, <2>4
<1>14. QED
  BY <1>5, <1>12, <1>13

\* InOrder yields members of the set it enumerates.
LEMMA InOrderType ==
  ASSUME NEW N \in Nat, NEW H \in SUBSET (1 .. N)
  PROVE  /\ Cardinality(H) \in Nat
         /\ InOrder(H) \in [1 .. Cardinality(H) -> H]
<1>1. Cardinality(H) \in Nat
  <2>1. IsFiniteSet(1 .. N)
    BY FS_Interval
  <2>2. QED
    BY <2>1, FS_Subset, FS_CardinalityType
<1>2. QED
  BY <1>1, InOrderExists, Zenon DEF InOrder

\* InOrder enumerates in increasing order.
LEMMA InOrderIncreases ==
  ASSUME NEW N \in Nat, NEW H \in SUBSET (1 .. N)
  PROVE  \A i, j \in 1 .. Cardinality(H) : i < j => InOrder(H)[i] < InOrder(H)[j]
<1>1. \E f \in [1 .. Cardinality(H) -> H] :
        \A i, j \in DOMAIN f : i < j => f[i] < f[j]
  BY InOrderExists
<1>2. \A i, j \in DOMAIN InOrder(H) : i < j => InOrder(H)[i] < InOrder(H)[j]
  BY <1>1, Zenon DEF InOrder
<1>3. InOrder(H) \in [1 .. Cardinality(H) -> H]
  BY InOrderType
<1>4. QED
  BY <1>2, <1>3

\* An increasing enumeration of as many as there are leaves none out.
LEMMA IncreasingCovers ==
  ASSUME NEW H \in SUBSET Nat, IsFiniteSet(H), NEW n, n = Cardinality(H),
         NEW e, e \in [1 .. n -> H], \A i, j \in 1 .. n : i < j => e[i] < e[j]
  PROVE  \A a \in H : \E i \in 1 .. n : e[i] = a
<1>1. n \in Nat
  BY FS_CardinalityType
<1>2. IsFiniteSet(H) /\ IsFiniteSet(1 .. n) /\ Cardinality(1 .. n) = n
  <2>3. 1 \in Int /\ n \in Int
    BY <1>1
  <2>4. Cardinality(1 .. n) = IF 1 > n THEN 0 ELSE n - 1 + 1
    BY <2>3, FS_Interval
  <2>5. QED
    BY <1>1, <2>3, <2>4, FS_Interval
<1>3. \A i, j \in 1 .. n : i < j => e[i] < e[j]
  OBVIOUS
<1>4. e \in Injection(1 .. n, H)
  <2>1. ASSUME NEW i \in 1 .. n, NEW j \in 1 .. n, e[i] = e[j] PROVE i = j
    <3>1. e[i] \in H /\ e[j] \in H
      BY <1>1
    <3>2. e[i] \in Nat /\ e[j] \in Nat
      BY <3>1
    <3>3. (i < j => e[i] < e[j]) /\ (j < i => e[j] < e[i])
      BY <1>3
    <3>4. QED
      BY <1>1, <2>1, <3>2, <3>3
  <2>2. QED
    BY <1>1, <2>1 DEF Injection, IsInjective
<1>5. e \in Surjection(1 .. n, H)
  <2>1. Cardinality(1 .. n) = Cardinality(H)
    BY <1>2
  <2>2. QED
    BY <1>2, <1>4, <2>1, FS_Injection
<1>6. QED
  BY <1>5 DEF Surjection

\* Every member is among those InOrder yields.
LEMMA InOrderComplete ==
  ASSUME NEW N \in Nat, NEW H \in SUBSET (1 .. N)
  PROVE  \A a \in H : \E i \in 1 .. Cardinality(H) : InOrder(H)[i] = a
<1>1. H \in SUBSET Nat /\ IsFiniteSet(H)
  <2>1. IsFiniteSet(1 .. N)
    BY FS_Interval
  <2>2. IsFiniteSet(H)
    BY <2>1, FS_Subset
  <2>3. QED
    BY <2>2
<1>2. InOrder(H) \in [1 .. Cardinality(H) -> H]
  BY InOrderType
<1>3. \A i, j \in 1 .. Cardinality(H) : i < j => InOrder(H)[i] < InOrder(H)[j]
  BY InOrderIncreases
<1>4. ASSUME NEW n, n = Cardinality(H), NEW e, e = InOrder(H)
      PROVE  \A a \in H : \E i \in 1 .. n : e[i] = a
  <2>1. e \in [1 .. n -> H] /\ \A i, j \in 1 .. n : i < j => e[i] < e[j]
    BY <1>2, <1>3, <1>4
  <2>2. n = Cardinality(H) /\ n \in Nat
    BY <1>1, <1>4, FS_CardinalityType
  <2>3. QED
    BY <1>1, <2>1, <2>2, IncreasingCovers
<1>5. QED
  BY <1>4

\* Functions are equal when their values are.
LEMMA SameFunction ==
  ASSUME NEW S, NEW T, NEW g \in [S -> T], NEW h \in [S -> T],
         \A x \in S : g[x] = h[x]
  PROVE  g = h
OBVIOUS

\* There is one increasing enumeration of a set.
LEMMA InOrderUnique ==
  ASSUME NEW N \in Nat, NEW H \in SUBSET (1 .. N), NEW n, n = Cardinality(H),
         NEW e, e \in [1 .. n -> H], \A i, j \in 1 .. n : i < j => e[i] < e[j]
  PROVE  e = InOrder(H)
<1>0. H \in SUBSET Nat /\ IsFiniteSet(H)
  <2>1. IsFiniteSet(1 .. N)
    BY FS_Interval
  <2>2. IsFiniteSet(H)
    BY <2>1, FS_Subset
  <2>3. QED
    BY <2>2
<1> DEFINE f == InOrder(H)
           Differ == {i \in 1 .. n : e[i] # f[i]}
<1>1. n \in Nat /\ f \in [1 .. n -> H] /\ e \in [1 .. n -> H]
  BY InOrderType
<1>2. \A i, j \in 1 .. n : (i < j => e[i] < e[j]) /\ (i < j => f[i] < f[j])
  BY InOrderIncreases
<1>3. \A a \in H : \E i \in 1 .. n : e[i] = a
  BY <1>0, <1>1, IncreasingCovers
<1>4. \A a \in H : \E i \in 1 .. n : f[i] = a
  BY InOrderComplete
<1> HIDE DEF f
<1>5. (\A i \in 1 .. n : e[i] = f[i]) => e = f
  BY <1>1, SameFunction
<1> SUFFICES ASSUME Differ # {} PROVE FALSE
  BY <1>5 DEF f
<1>6. PICK i \in Differ : \A j \in Differ : i <= j
  <2>1. Differ \in SUBSET Nat
    BY <1>1
  <2>2. QED
    BY <2>1, LeastMember
<1>7. i \in 1 .. n /\ e[i] \in Nat /\ f[i] \in Nat /\ e[i] \in H /\ f[i] \in H
  <2>1. i \in 1 .. n /\ e[i] \in H /\ f[i] \in H
    BY <1>1, <1>6
  <2>2. QED
    BY <1>0, <2>1
<1>8. \A j \in 1 .. n : j < i => e[j] = f[j]
  BY <1>1, <1>6, <1>7
<1>9. ~ (e[i] < f[i])
  <2>1. SUFFICES ASSUME e[i] < f[i] PROVE FALSE
    OBVIOUS
  <2>2. PICK j \in 1 .. n : f[j] = e[i]
    BY <1>4, <1>7
  <2>3. j < i
    BY <1>1, <1>2, <1>7, <2>1, <2>2
  <2>4. e[j] = e[i] /\ e[j] < e[i]
    BY <1>2, <1>7, <1>8, <2>2, <2>3
  <2>5. QED
    BY <1>7, <2>4
<1>10. ~ (f[i] < e[i])
  <2>1. SUFFICES ASSUME f[i] < e[i] PROVE FALSE
    OBVIOUS
  <2>2. PICK j \in 1 .. n : e[j] = f[i]
    BY <1>3, <1>7
  <2>3. j < i
    BY <1>1, <1>2, <1>7, <2>1, <2>2
  <2>4. f[j] = f[i] /\ f[j] < f[i]
    BY <1>2, <1>7, <1>8, <2>2, <2>3
  <2>5. QED
    BY <1>7, <2>4
<1>11. QED
  BY <1>6, <1>7, <1>9, <1>10

\* A position behind all others is enumerated last.
LEMMA InOrderExtends ==
  ASSUME NEW N \in Nat, NEW H \in SUBSET (1 .. N), NEW K, K = H \cup {N + 1}
  PROVE  /\ Cardinality(K) = Cardinality(H) + 1
         /\ InOrder(K)[Cardinality(K)] = N + 1
         /\ \A i \in 1 .. Cardinality(H) : InOrder(K)[i] = InOrder(H)[i]
<1>0. \A x \in H : x \in Nat /\ x <= N
  OBVIOUS
<1> DEFINE n == Cardinality(H)
           f == InOrder(H)
           e == [i \in 1 .. (n + 1) |-> IF i = n + 1 THEN N + 1 ELSE f[i]]
<1>1. n \in Nat /\ f \in [1 .. n -> H]
  BY InOrderType
<1>2. \A i, j \in 1 .. n : i < j => f[i] < f[j]
  BY InOrderIncreases
<1>3. Cardinality(K) = n + 1
  <2>1. IsFiniteSet(1 .. N) /\ N + 1 \notin H
    BY FS_Interval
  <2>2. IsFiniteSet(H)
    BY <2>1, FS_Subset
  <2>3. QED
    BY <2>1, <2>2, FS_AddElement
<1> HIDE DEF n, f
<1>4. e \in [1 .. (n + 1) -> K]
  BY <1>1
<1>5. \A i \in 1 .. n : e[i] = f[i] /\ f[i] \in Nat /\ f[i] <= N
  <2>1. \A i \in 1 .. n : e[i] = f[i] /\ f[i] \in H
    BY <1>1
  <2>2. QED
    BY <1>0, <2>1
<1>6. e[n + 1] = N + 1
  BY <1>1
<1> HIDE DEF e
<1>7. \A i, j \in 1 .. (n + 1) : i < j => e[i] < e[j]
  <2>1. SUFFICES ASSUME NEW i \in 1 .. (n + 1), NEW j \in 1 .. (n + 1), i < j
                 PROVE  e[i] < e[j]
    OBVIOUS
  <2>2. i \in 1 .. n
    BY <1>1, <2>1
  <2>3. CASE j = n + 1
    BY <1>5, <1>6, <2>2, <2>3
  <2>4. CASE j # n + 1
    <3>1. j \in 1 .. n
      BY <1>1, <2>4
    <3>2. QED
      BY <1>2, <1>5, <2>1, <2>2, <3>1
  <2>5. QED
    BY <2>3, <2>4
<1>8. K \in SUBSET (1 .. (N + 1)) /\ N + 1 \in Nat
  BY <1>1
<1>9. e = InOrder(K)
  <2> DEFINE m == n + 1
  <2>1. m = Cardinality(K) /\ e \in [1 .. m -> K]
        /\ \A i, j \in 1 .. m : i < j => e[i] < e[j]
    BY <1>3, <1>4, <1>7
  <2> HIDE DEF m
  <2>2. QED
    BY <1>8, <2>1, InOrderUnique
<1>10. QED
  BY <1>1, <1>3, <1>5, <1>6, <1>9 DEF n, f

-----------------------------------------------------------------------------
(* Folds and sums over finite sets *)

\* What holds of a subset of a finite set when it holds of all those below it
\* holds of every subset.
LEMMA EverySubset ==
  ASSUME NEW S, IsFiniteSet(S), NEW P \in SUBSET SUBSET S,
         \A T \in SUBSET S : (\A U \in SUBSET T : U # T => U \in P) => T \in P
  PROVE  P = SUBSET S
<1> DEFINE Bad == {Cardinality(U) : U \in (SUBSET S) \ P}
<1>1. SUFFICES ASSUME Bad # {} PROVE FALSE
  OBVIOUS
<1>2. \A U \in SUBSET S : IsFiniteSet(U) /\ Cardinality(U) \in Nat
  BY FS_Subset, FS_CardinalityType
<1>3. Bad \in SUBSET Nat
  BY <1>2
<1>4. PICK n \in Bad : \A m \in Bad : n <= m
  BY <1>1, <1>3, LeastMember
<1>5. PICK T \in SUBSET S : T \notin P /\ Cardinality(T) = n
  BY <1>4
<1>6. ASSUME NEW U \in SUBSET T, U # T PROVE U \in P
  <2>1. Cardinality(U) < n
    BY <1>2, <1>5, <1>6, FS_Subset
  <2>2. SUFFICES ASSUME U \notin P PROVE FALSE
    OBVIOUS
  <2>3. PICK m \in Bad : m = Cardinality(U)
    BY <2>2
  <2>4. m < n /\ m \in Nat /\ n \in Nat
    BY <1>3, <2>1, <2>3
  <2>5. QED
    BY <1>4, <2>4
<1>7. QED
  BY <1>5, <1>6

\* A fold exists, whatever it picks next: g folds every subset.
Folds_(g, S, V, base, F, p) ==
  /\ g \in [SUBSET S -> V]
  /\ \A T \in SUBSET S : g[T] = IF T = {} THEN base ELSE F[<<p[T], g[T \ {p[T]}]>>]

\* What is folded over a finite set, with any choice of the next member.
LEMMA FoldExists ==
  ASSUME NEW S, IsFiniteSet(S), NEW V, NEW base \in V, NEW F \in [S \X V -> V],
         NEW p, \A T \in SUBSET S : T # {} => p[T] \in T
  PROVE  \E g : Folds_(g, S, V, base, F, p)
<1> DEFINE Small(n) == {T \in SUBSET S : Cardinality(T) <= n}
           Part(g, n) ==
             /\ g \in [Small(n) -> V]
             /\ \A T \in Small(n) : g[T] = IF T = {} THEN base ELSE F[<<p[T], g[T \ {p[T]}]>>]
           Bad == {n \in Nat : ~ \E g : Part(g, n)}
<1>1. \A U \in SUBSET S : IsFiniteSet(U) /\ Cardinality(U) \in Nat
  BY FS_Subset, FS_CardinalityType
<1>2. \A T \in SUBSET S : T # {} =>
        /\ p[T] \in T /\ T \ {p[T]} \in SUBSET S
        /\ Cardinality(T \ {p[T]}) = Cardinality(T) - 1
  BY <1>1, FS_RemoveElement
<1>3. \A T \in SUBSET S : Cardinality(T) = 0 <=> T = {}
  BY <1>1, FS_EmptySet
<1>4. Bad = {}
  <2>1. SUFFICES ASSUME Bad # {} PROVE FALSE
    OBVIOUS
  <2>2. PICK n \in Bad : \A m \in Bad : n <= m
    BY <2>1, LeastMember
  <2>3. CASE n = 0
    <3>1. \A T \in Small(0) : T = {}
      BY <1>1, <1>3
    <3>2. Part([T \in Small(0) |-> base], 0)
      BY <3>1
    <3>3. QED
      BY <2>2, <2>3, <3>2
  <2>4. CASE n # 0
    <3>1. n - 1 \in Nat /\ n - 1 \notin Bad
      <4>1. n \in Nat /\ n - 1 \in Nat /\ ~ (n <= n - 1)
        BY <2>4
      <4>2. QED
        BY <2>2, <4>1
    <3>2. PICK g : Part(g, n - 1)
      BY <3>1
    <3>3. \A T \in SUBSET S : T \in Small(n) => T = {} \/ T \ {p[T]} \in Small(n - 1)
      BY <1>1, <1>2, <3>1
    <3> DEFINE Value(T) == IF T = {} THEN base ELSE F[<<p[T], g[T \ {p[T]}]>>]
               h == [T \in Small(n) |-> Value(T)]
    <3>4. \A T \in Small(n) : Value(T) \in V
      BY <1>2, <3>2, <3>3
    <3>5. \A T \in Small(n - 1) : g[T] = Value(T) /\ T \in Small(n)
      BY <1>1, <3>1, <3>2
    <3>6. \A T \in Small(n - 1) : h[T] = g[T]
      BY <3>5
    <3>7. \A T \in Small(n) : h[T] = IF T = {} THEN base ELSE F[<<p[T], h[T \ {p[T]}]>>]
      BY <3>3, <3>6
    <3>8. h \in [Small(n) -> V]
      BY <3>4
    <3>9. Part(h, n)
      BY <3>7, <3>8
    <3>10. QED
      BY <2>2, <3>9
  <2>5. QED
    BY <2>3, <2>4
<1>5. PICK n \in Nat : n = Cardinality(S)
  BY <1>1
<1>6. Small(n) = SUBSET S
  BY <1>1, <1>5, FS_Subset
<1>7. PICK g : Part(g, n)
  BY <1>4
<1>8. QED
  BY <1>6, <1>7 DEF Folds_

\* What a sum computes, one term after the other.
Picked(T) == CHOOSE x \in T : TRUE
Sums(g, f, S) ==
  g = [T \in SUBSET S |-> IF T = {} THEN 0 ELSE f[Picked(T)] + g[T \ {Picked(T)}]]

\* A sum over a finite set is what its recursion makes of it.
LEMMA SumUnfolds ==
  ASSUME NEW S, IsFiniteSet(S), NEW f, \A x \in S : f[x] \in Int
  PROVE  \E g : Sums(g, f, S) /\ g \in [SUBSET S -> Int] /\ SumFunctionOnSet(f, S) = g[S]
<1> DEFINE F == [c \in S \X Int |-> f[c[1]] + c[2]]
           p == [T \in SUBSET S |-> Picked(T)]
<1>1. \A T \in SUBSET S : T # {} => Picked(T) \in T
  BY DEF Picked
<1>2. F \in [S \X Int -> Int]
  OBVIOUS
<1>3. \A T \in SUBSET S : T # {} => p[T] \in T
  BY <1>1
<1>4. PICK g : Folds_(g, S, Int, 0, F, p)
  <2> HIDE DEF F, p
  <2>1. 0 \in Int
    OBVIOUS
  <2>2. QED
    BY <1>2, <1>3, <2>1, FoldExists
<1>5. g \in [SUBSET S -> Int]
  BY <1>4 DEF Folds_
<1>6. \A T \in SUBSET S : T # {} => F[<<p[T], g[T \ {p[T]}]>>] = f[Picked(T)] + g[T \ {Picked(T)}]
  <2>1. TAKE T \in SUBSET S
  <2>2. HAVE T # {}
  <2>3. Picked(T) \in S /\ g[T \ {Picked(T)}] \in Int
    BY <1>1, <1>5, <2>2
  <2>4. QED
    BY <2>3
<1>7. \A T \in SUBSET S : g[T] = IF T = {} THEN 0 ELSE f[Picked(T)] + g[T \ {Picked(T)}]
  BY <1>4, <1>6 DEF Folds_
<1>8. Sums(g, f, S)
  BY <1>5, <1>7 DEF Sums
<1> DEFINE h == CHOOSE i : Sums(i, f, S)
<1>9. Sums(h, f, S)
  BY <1>8
<1>10. SumFunctionOnSet(f, S) = h[S]
  BY DEF SumFunctionOnSet, FoldFunctionOnSet, MapThenFoldSet, Sums, Picked
<1> DEFINE P == {T \in SUBSET S : h[T] \in Int}
<1> HIDE DEF h
<1>11. ASSUME NEW T \in SUBSET S, \A U \in SUBSET T : U # T => U \in P
       PROVE  T \in P
  <2>1. h[T] = IF T = {} THEN 0 ELSE f[Picked(T)] + h[T \ {Picked(T)}]
    BY <1>9 DEF Sums
  <2>2. CASE T = {}
    BY <2>1, <2>2
  <2>3. CASE T # {}
    <3>1. Picked(T) \in T
      BY <1>1, <2>3
    <3>2. h[T \ {Picked(T)}] \in Int
      BY <1>11, <3>1
    <3>3. QED
      BY <2>1, <2>3, <3>1, <3>2
  <2>4. QED
    BY <2>2, <2>3
<1>12. P = SUBSET S
  <2>1. P \in SUBSET SUBSET S
    OBVIOUS
  <2> HIDE DEF P
  <2>2. QED
    BY <1>11, <2>1, EverySubset
<1>13. h \in [SUBSET S -> Int]
  <2>1. \A T \in SUBSET S : h[T] \in Int
    BY <1>12
  <2>2. h = [T \in SUBSET S |-> h[T]]
    BY <1>9, Zenon DEF Sums
  <2>3. QED
    BY <2>1, <2>2
<1>14. QED
  BY <1>9, <1>10, <1>13

\* Every solution adds any term first.
Adds(g, f, S) == \A T \in SUBSET S : \A x \in T : g[T] = f[x] + g[T \ {x}]

\* Whichever member is taken last, the sum is the same.
LEMMA SumsPick ==
  ASSUME NEW S, IsFiniteSet(S), NEW f, \A x \in S : f[x] \in Int,
         NEW g \in [SUBSET S -> Int], Sums(g, f, S)
  PROVE  Adds(g, f, S)
<1> DEFINE P == {T \in SUBSET S : \A x \in T : g[T] = f[x] + g[T \ {x}]}
<1>1. \A T \in SUBSET S : T # {} => Picked(T) \in T /\ g[T] = f[Picked(T)] + g[T \ {Picked(T)}]
  BY DEF Sums, Picked
<1>2. ASSUME NEW T \in SUBSET S, \A U \in SUBSET T : U # T => U \in P, NEW x \in T
      PROVE  g[T] = f[x] + g[T \ {x}]
  <2>1. PICK y \in T : y = Picked(T) /\ g[T] = f[y] + g[T \ {y}]
    BY <1>1
  <2>2. CASE y = x
    BY <2>1, <2>2
  <2>3. CASE y # x
    <3>1. T \ {y} \in P /\ T \ {x} \in P
      BY <1>2
    <3>2. g[T \ {y}] = f[x] + g[(T \ {y}) \ {x}]
      BY <2>3, <3>1
    <3>3. g[T \ {x}] = f[y] + g[(T \ {x}) \ {y}]
      BY <2>3, <3>1
    <3>4. (T \ {y}) \ {x} = (T \ {x}) \ {y}
      OBVIOUS
    <3>5. PICK k \in Int : k = g[(T \ {x}) \ {y}]
      OBVIOUS
    <3>6. g[T \ {y}] = f[x] + k /\ g[T \ {x}] = f[y] + k
      BY <3>2, <3>3, <3>4, <3>5
    <3>7. f[x] \in Int /\ f[y] \in Int
      OBVIOUS
    <3>8. QED
      BY <2>1, <3>6, <3>7
  <2>4. QED
    BY <2>2, <2>3
<1>3. \A T \in SUBSET S : (\A U \in SUBSET T : U # T => U \in P) => T \in P
  BY <1>2
<1>4. P = SUBSET S
  <2>1. P \in SUBSET SUBSET S
    OBVIOUS
  <2> HIDE DEF P
  <2>2. QED
    BY <1>3, <2>1, EverySubset
<1>5. QED
  BY <1>4 DEF Adds

\* A sum is the sum of any of its terms and the rest.
LEMMA SumPick ==
  ASSUME NEW S, IsFiniteSet(S), NEW f, \A x \in S : f[x] \in Int
  PROVE  /\ SumFunctionOnSet(f, S) \in Int
         /\ S = {} => SumFunctionOnSet(f, S) = 0
         /\ \A x \in S : SumFunctionOnSet(f, S) = f[x] + SumFunctionOnSet(f, S \ {x})
<1>1. PICK g : Sums(g, f, S) /\ g \in [SUBSET S -> Int] /\ SumFunctionOnSet(f, S) = g[S]
  BY SumUnfolds
<1>2. SumFunctionOnSet(f, S) \in Int /\ (S = {} => g[S] = 0)
  BY <1>1 DEF Sums
<1>5. \A T \in SUBSET S : \A x \in T : g[T] = f[x] + g[T \ {x}]
  <2>1. Adds(g, f, S)
    BY <1>1, SumsPick
  <2>2. QED
    BY <2>1 DEF Adds
<1>3. ASSUME NEW x \in S PROVE g[S] = f[x] + SumFunctionOnSet(f, S \ {x})
  <2> DEFINE R == S \ {x}
  <2>1. IsFiniteSet(R)
    BY FS_Subset
  <2>2. PICK h : Sums(h, f, R) /\ h \in [SUBSET R -> Int] /\ SumFunctionOnSet(f, R) = h[R]
    BY <2>1, SumUnfolds
  <2>9. \A T \in SUBSET R : \A y \in T : h[T] = f[y] + h[T \ {y}]
    <3> HIDE DEF R
    <3>1. \A y \in R : f[y] \in Int
      BY DEF R
    <3>2. Adds(h, f, R)
      BY <2>1, <2>2, <3>1, SumsPick
    <3>3. QED
      BY <3>2 DEF Adds
  <2> DEFINE P == {T \in SUBSET R : g[T] = h[T]}
  <2>3. ASSUME NEW T \in SUBSET R, \A U \in SUBSET T : U # T => U \in P
        PROVE  g[T] = h[T]
    <3>1. CASE T = {}
      BY <1>1, <2>2, <3>1 DEF Sums
    <3>2. CASE T # {}
      <4>1. PICK y \in T : TRUE
        BY <3>2
      <4>2. g[T] = f[y] + g[T \ {y}]
        BY <1>5
      <4>3. h[T] = f[y] + h[T \ {y}]
        BY <2>9
      <4>4. g[T \ {y}] = h[T \ {y}]
        BY <2>3
      <4>5. QED
        BY <4>2, <4>3, <4>4
    <3>3. QED
      BY <3>1, <3>2
  <2>4. \A T \in SUBSET R : (\A U \in SUBSET T : U # T => U \in P) => T \in P
    BY <2>3
  <2>5. P = SUBSET R
    <3>1. P \in SUBSET SUBSET R
      OBVIOUS
    <3> HIDE DEF P, R
    <3>2. QED
      BY <2>1, <2>4, <3>1, EverySubset
  <2>6. g[R] = h[R]
    BY <2>5
  <2>7. g[S] = f[x] + g[R]
    BY <1>5
  <2>8. QED
    BY <2>2, <2>6, <2>7
<1>4. QED
  BY <1>1, <1>2, <1>3
\* A fact about sums that holds of none, and is kept by one more term, holds.
LEMMA OneByOne ==
  ASSUME NEW S, IsFiniteSet(S), NEW P \in SUBSET SUBSET S, {} \in P,
         \A T \in SUBSET S : \A x \in T : T \ {x} \in P => T \in P
  PROVE  S \in P
<1>1. \A T \in SUBSET S : (\A U \in SUBSET T : U # T => U \in P) => T \in P
  <2>1. TAKE T \in SUBSET S
  <2>2. HAVE \A U \in SUBSET T : U # T => U \in P
  <2>3. CASE T = {}
    BY <2>3
  <2>4. CASE T # {}
    <3>1. PICK x \in T : TRUE
      BY <2>4
    <3>2. T \ {x} \in SUBSET T /\ T \ {x} # T
      OBVIOUS
    <3>3. T \ {x} \in P
      BY <2>2, <3>2
    <3>4. QED
      BY <3>3
  <2>5. QED
    BY <2>3, <2>4
<1>2. P = SUBSET S
  BY <1>1, EverySubset
<1>3. QED
  BY <1>2

\* The same, of the members of a finite set.
LEMMA SumPicks ==
  ASSUME NEW S, IsFiniteSet(S), NEW f, \A x \in S : f[x] \in Int
  PROVE  /\ SumFunctionOnSet(f, {}) = 0
         /\ \A T \in SUBSET S :
              /\ SumFunctionOnSet(f, T) \in Int
              /\ \A x \in T : SumFunctionOnSet(f, T) = f[x] + SumFunctionOnSet(f, T \ {x})
<1>1. IsFiniteSet({})
  BY FS_EmptySet
<1>2. \A x \in {} : f[x] \in Int
  OBVIOUS
<1>3. SumFunctionOnSet(f, {}) = 0
  BY <1>1, <1>2, SumPick
<1>4. ASSUME NEW T \in SUBSET S
      PROVE  /\ SumFunctionOnSet(f, T) \in Int
             /\ \A x \in T : SumFunctionOnSet(f, T) = f[x] + SumFunctionOnSet(f, T \ {x})
  <2>1. IsFiniteSet(T)
    BY FS_Subset
  <2>2. QED
    BY <2>1, SumPick
<1>5. QED
  BY <1>3, <1>4

\* Sums of terms that are no larger are no larger.
LEMMA SumBound ==
  ASSUME NEW S, IsFiniteSet(S), NEW f, NEW g,
         \A x \in S : f[x] \in Int /\ g[x] \in Int /\ f[x] <= g[x]
  PROVE  SumFunctionOnSet(f, S) <= SumFunctionOnSet(g, S)
<1> DEFINE P == {T \in SUBSET S : SumFunctionOnSet(f, T) <= SumFunctionOnSet(g, T)}
<1>1. SumFunctionOnSet(f, {}) = 0 /\ SumFunctionOnSet(g, {}) = 0
  BY SumPicks
<1>2. ASSUME NEW T \in SUBSET S, NEW x \in T, T \ {x} \in P PROVE T \in P
  <2>1. PICK a \in Int, b \in Int :
          a = SumFunctionOnSet(f, T \ {x}) /\ b = SumFunctionOnSet(g, T \ {x})
    BY SumPicks
  <2>2. SumFunctionOnSet(f, T) = f[x] + a /\ SumFunctionOnSet(g, T) = g[x] + b
    BY <2>1, SumPicks
  <2>3. a <= b /\ f[x] \in Int /\ g[x] \in Int /\ f[x] <= g[x]
    BY <1>2, <2>1
  <2>4. f[x] + a <= g[x] + b
    BY <2>3
  <2>5. QED
    BY <2>2, <2>4
<1>3. P \in SUBSET SUBSET S /\ {} \in P
  BY <1>1
<1>4. S \in P
  <2> HIDE DEF P
  <2>1. QED
    BY <1>2, <1>3, OneByOne
<1>5. QED
  BY <1>4

\* Sums of the same terms are the same.
LEMMA SumEqual ==
  ASSUME NEW S, IsFiniteSet(S), NEW f, NEW g, \A x \in S : f[x] \in Int /\ f[x] = g[x]
  PROVE  SumFunctionOnSet(f, S) = SumFunctionOnSet(g, S)
<1>1. SumFunctionOnSet(f, S) <= SumFunctionOnSet(g, S)
  BY SumBound
<1>2. SumFunctionOnSet(g, S) <= SumFunctionOnSet(f, S)
  BY SumBound
<1>3. SumFunctionOnSet(f, S) \in Int /\ SumFunctionOnSet(g, S) \in Int
  BY SumPicks
<1>4. QED
  BY <1>1, <1>2, <1>3

\* The sum over two sets that are disjoint.
LEMMA SumUnion ==
  ASSUME NEW S, IsFiniteSet(S), NEW R, IsFiniteSet(R), S \cap R = {},
         NEW f, \A x \in S \cup R : f[x] \in Int
  PROVE  SumFunctionOnSet(f, S \cup R) = SumFunctionOnSet(f, S) + SumFunctionOnSet(f, R)
<1> DEFINE P == {T \in SUBSET S :
                   SumFunctionOnSet(f, T \cup R) = SumFunctionOnSet(f, T) + SumFunctionOnSet(f, R)}
<1>1. IsFiniteSet(S \cup R)
  BY FS_Union
<1>2. /\ SumFunctionOnSet(f, {}) = 0
      /\ \A T \in SUBSET (S \cup R) :
           /\ SumFunctionOnSet(f, T) \in Int
           /\ \A x \in T : SumFunctionOnSet(f, T) = f[x] + SumFunctionOnSet(f, T \ {x})
  BY <1>1, SumPicks
<1>3. ASSUME NEW T \in SUBSET S, NEW x \in T, T \ {x} \in P PROVE T \in P
  <2>1. (T \cup R) \ {x} = (T \ {x}) \cup R
    OBVIOUS
  <2>2. SumFunctionOnSet(f, T \cup R) = f[x] + SumFunctionOnSet(f, (T \ {x}) \cup R)
    BY <1>2, <2>1
  <2>3. SumFunctionOnSet(f, T) = f[x] + SumFunctionOnSet(f, T \ {x})
    BY <1>2
  <2>4. PICK a \in Int, b \in Int :
          a = SumFunctionOnSet(f, T \ {x}) /\ b = SumFunctionOnSet(f, R)
    BY <1>2
  <2>5. SumFunctionOnSet(f, (T \ {x}) \cup R) = a + b
    BY <1>3, <2>4
  <2>6. f[x] \in Int /\ f[x] + (a + b) = (f[x] + a) + b
    OBVIOUS
  <2>7. QED
    BY <2>2, <2>3, <2>4, <2>5, <2>6
<1>4. P \in SUBSET SUBSET S /\ {} \in P
  <2>1. {} \cup R = R /\ SumFunctionOnSet(f, R) \in Int
    BY <1>2
  <2>2. QED
    BY <1>2, <2>1
<1>5. S \in P
  <2> HIDE DEF P
  <2>1. QED
    BY <1>3, <1>4, OneByOne
<1>6. QED
  BY <1>5

\* The sum of sums.
LEMMA SumAdd ==
  ASSUME NEW S, IsFiniteSet(S), NEW f, NEW g, NEW h,
         \A x \in S : f[x] \in Int /\ g[x] \in Int /\ h[x] = f[x] + g[x]
  PROVE  SumFunctionOnSet(h, S) = SumFunctionOnSet(f, S) + SumFunctionOnSet(g, S)
<1> DEFINE P == {T \in SUBSET S :
                   SumFunctionOnSet(h, T) = SumFunctionOnSet(f, T) + SumFunctionOnSet(g, T)}
<1>1. \A x \in S : h[x] \in Int
  OBVIOUS
<1>2. /\ SumFunctionOnSet(f, {}) = 0 /\ SumFunctionOnSet(g, {}) = 0 /\ SumFunctionOnSet(h, {}) = 0
  BY <1>1, SumPicks
<1>3. ASSUME NEW T \in SUBSET S, NEW x \in T, T \ {x} \in P PROVE T \in P
  <2>1. PICK a \in Int, b \in Int :
          a = SumFunctionOnSet(f, T \ {x}) /\ b = SumFunctionOnSet(g, T \ {x})
    BY SumPicks
  <2>2. SumFunctionOnSet(f, T) = f[x] + a /\ SumFunctionOnSet(g, T) = g[x] + b
    BY <2>1, SumPicks
  <2>3. SumFunctionOnSet(h, T) = h[x] + SumFunctionOnSet(h, T \ {x})
    BY <1>1, SumPicks
  <2>4. SumFunctionOnSet(h, T \ {x}) = a + b
    BY <1>3, <2>1
  <2>5. f[x] \in Int /\ g[x] \in Int /\ h[x] = f[x] + g[x]
    OBVIOUS
  <2>6. (f[x] + g[x]) + (a + b) = (f[x] + a) + (g[x] + b)
    BY <2>5
  <2>7. QED
    BY <2>2, <2>3, <2>4, <2>5, <2>6
<1>4. P \in SUBSET SUBSET S /\ {} \in P
  BY <1>2
<1>5. S \in P
  <2> HIDE DEF P
  <2>1. QED
    BY <1>3, <1>4, OneByOne
<1>6. QED
  BY <1>5

\* Terms that are distinct members of another sum's terms.
LEMMA SumInjected ==
  ASSUME NEW S, IsFiniteSet(S), NEW R, IsFiniteSet(R), NEW p \in [S -> R],
         \A x, y \in S : p[x] = p[y] => x = y,
         NEW f, NEW g, \A r \in R : g[r] \in Nat,
         \A x \in S : f[x] \in Int /\ f[x] <= g[p[x]]
  PROVE  SumFunctionOnSet(f, S) <= SumFunctionOnSet(g, R)
<1> DEFINE Images(T) == {p[x] : x \in T}
           P == {T \in SUBSET S : \A Q \in SUBSET R :
                   Images(T) \subseteq Q => SumFunctionOnSet(f, T) <= SumFunctionOnSet(g, Q)}
<1>1. /\ SumFunctionOnSet(f, {}) = 0
      /\ \A T \in SUBSET S :
           /\ SumFunctionOnSet(f, T) \in Int
           /\ \A x \in T : SumFunctionOnSet(f, T) = f[x] + SumFunctionOnSet(f, T \ {x})
  BY SumPicks
<1>2. /\ SumFunctionOnSet(g, {}) = 0
      /\ \A Q \in SUBSET R :
           /\ SumFunctionOnSet(g, Q) \in Int
           /\ \A r \in Q : SumFunctionOnSet(g, Q) = g[r] + SumFunctionOnSet(g, Q \ {r})
  BY SumPicks
<1>3. \A Q \in SUBSET R : SumFunctionOnSet(g, Q) >= 0
  <2> DEFINE Z == {Q \in SUBSET R : SumFunctionOnSet(g, Q) >= 0}
  <2>1. TAKE Q \in SUBSET R
  <2>2. IsFiniteSet(Q)
    BY FS_Subset
  <2> DEFINE z == [r \in R |-> 0]
  <2>3. SumFunctionOnSet(z, Q) <= SumFunctionOnSet(g, Q)
    <3>1. \A r \in Q : z[r] \in Int /\ g[r] \in Int /\ z[r] <= g[r]
      OBVIOUS
    <3> HIDE DEF z
    <3>2. QED
      BY <2>2, <3>1, SumBound
  <2>4. SumFunctionOnSet(z, Q) = 0
    <3> DEFINE Y == {T \in SUBSET Q : SumFunctionOnSet(z, T) = 0}
    <3>1. /\ SumFunctionOnSet(z, {}) = 0
          /\ \A T \in SUBSET Q : \A x \in T :
               SumFunctionOnSet(z, T) = z[x] + SumFunctionOnSet(z, T \ {x})
      <4>1. \A r \in Q : z[r] \in Int
        OBVIOUS
      <4> HIDE DEF z
      <4>2. QED
        BY <2>2, <4>1, SumPicks
    <3>2. \A x \in Q : z[x] = 0
      OBVIOUS
    <3>3. ASSUME NEW T \in SUBSET Q, NEW x \in T, T \ {x} \in Y PROVE T \in Y
      <4>1. SumFunctionOnSet(z, T \ {x}) = 0 /\ z[x] = 0
        BY <3>2, <3>3
      <4>2. SumFunctionOnSet(z, T) = z[x] + SumFunctionOnSet(z, T \ {x})
        BY <3>1
      <4> HIDE DEF z
      <4>3. SumFunctionOnSet(z, T) = 0
        BY <4>1, <4>2
      <4>4. QED
        BY <4>3
    <3>4. Y \in SUBSET SUBSET Q /\ {} \in Y
      BY <3>1
    <3>5. Q \in Y
      <4> HIDE DEF Y, z
      <4>1. QED
        BY <2>2, <3>3, <3>4, OneByOne
    <3>6. QED
      BY <3>5
  <2>5. QED
    BY <1>2, <2>3, <2>4
<1>4. ASSUME NEW T \in SUBSET S, NEW x \in T, T \ {x} \in P,
             NEW Q \in SUBSET R, Images(T) \subseteq Q
      PROVE  SumFunctionOnSet(f, T) <= SumFunctionOnSet(g, Q)
  <2>1. p[x] \in Q /\ p[x] \in R
    BY <1>4
  <2>2. Images(T \ {x}) \subseteq Q \ {p[x]}
    BY <1>4
  <2>3. SumFunctionOnSet(f, T \ {x}) <= SumFunctionOnSet(g, Q \ {p[x]})
    BY <1>4, <2>2
  <2>4. SumFunctionOnSet(f, T) = f[x] + SumFunctionOnSet(f, T \ {x})
    BY <1>1
  <2>5. SumFunctionOnSet(g, Q) = g[p[x]] + SumFunctionOnSet(g, Q \ {p[x]})
    BY <1>2, <2>1
  <2>6. PICK a \in Int, b \in Int :
          a = SumFunctionOnSet(f, T \ {x}) /\ b = SumFunctionOnSet(g, Q \ {p[x]})
    BY <1>1, <1>2
  <2>7. PICK c \in Int, d \in Int : c = f[x] /\ d = g[p[x]] /\ c <= d
    BY <2>1
  <2>8. c + a <= d + b
    BY <2>3, <2>6, <2>7
  <2>9. QED
    BY <2>4, <2>5, <2>6, <2>7, <2>8
<1>5. P \in SUBSET SUBSET S /\ {} \in P
  BY <1>1, <1>3
<1>6. \A T \in SUBSET S : \A x \in T : T \ {x} \in P => T \in P
  BY <1>4
<1>7. S \in P
  <2> HIDE DEF P
  <2>1. QED
    BY <1>5, <1>6, OneByOne
<1>8. Images(S) \subseteq R
  OBVIOUS
<1>9. QED
  BY <1>7, <1>8

\* Nothing adds up to nothing, and one term to itself.
LEMMA SumZero ==
  ASSUME NEW S, IsFiniteSet(S), NEW f, \A x \in S : f[x] = 0
  PROVE  SumFunctionOnSet(f, S) = 0
<1> DEFINE P == {T \in SUBSET S : SumFunctionOnSet(f, T) = 0}
<1>1. \A x \in S : f[x] \in Int
  OBVIOUS
<1>2. SumFunctionOnSet(f, {}) = 0
  BY <1>1, SumPicks
<1>3. ASSUME NEW T \in SUBSET S, NEW x \in T, T \ {x} \in P PROVE T \in P
  <2>1. SumFunctionOnSet(f, T) = f[x] + SumFunctionOnSet(f, T \ {x})
    BY <1>1, SumPicks
  <2>2. f[x] = 0 /\ SumFunctionOnSet(f, T \ {x}) = 0
    BY <1>3
  <2>3. SumFunctionOnSet(f, T) = 0
    BY <2>1, <2>2
  <2>4. QED
    BY <2>3
<1>4. P \in SUBSET SUBSET S /\ {} \in P
  BY <1>2
<1>5. S \in P
  <2> HIDE DEF P
  <2>1. QED
    BY <1>3, <1>4, OneByOne
<1>6. QED
  BY <1>5

\* A single term that is not nothing is the sum.
LEMMA SumSingle ==
  ASSUME NEW S, IsFiniteSet(S), NEW f, NEW y \in S, f[y] \in Int, \A x \in S \ {y} : f[x] = 0
  PROVE  SumFunctionOnSet(f, S) = f[y]
<1>1. IsFiniteSet(S \ {y})
  BY FS_Subset
<1>2. SumFunctionOnSet(f, S \ {y}) = 0
  BY <1>1, SumZero
<1>3. \A x \in S : f[x] \in Int
  OBVIOUS
<1>4. SumFunctionOnSet(f, S) = f[y] + SumFunctionOnSet(f, S \ {y})
  BY <1>3, SumPick
<1>5. QED
  BY <1>2, <1>4

\* The terms where something holds are all that counts of terms that are
\* nothing elsewhere.
LEMMA SumWhere ==
  ASSUME NEW S, IsFiniteSet(S), NEW T \in SUBSET S, NEW f, NEW g,
         \A x \in T : f[x] \in Int /\ g[x] = f[x],
         \A x \in S \ T : g[x] = 0
  PROVE  SumFunctionOnSet(f, T) = SumFunctionOnSet(g, S)
<1>1. IsFiniteSet(T) /\ IsFiniteSet(S \ T) /\ T \cap (S \ T) = {} /\ S = T \cup (S \ T)
  BY FS_Subset
<1>2. SumFunctionOnSet(g, S \ T) = 0
  BY <1>1, SumZero
<1>3. PICK U : U = S \ T
  OBVIOUS
<1>4. SumFunctionOnSet(g, T \cup U) = SumFunctionOnSet(g, T) + SumFunctionOnSet(g, U)
  <2>1. \A x \in T \cup U : g[x] \in Int
    BY <1>3
  <2>2. QED
    BY <1>1, <1>3, <2>1, SumUnion
<1>5. SumFunctionOnSet(f, T) = SumFunctionOnSet(g, T)
  <2>1. \A x \in T : f[x] \in Int /\ f[x] = g[x]
    OBVIOUS
  <2>2. QED
    BY <1>1, <2>1, SumEqual
<1>6. SumFunctionOnSet(g, T) \in Int
  <2>1. \A x \in T : g[x] \in Int
    OBVIOUS
  <2>2. QED
    BY <1>1, <2>1, SumPick
<1>7. T \cup U = S /\ SumFunctionOnSet(g, U) = 0
  BY <1>2, <1>3
<1>8. SumFunctionOnSet(g, S) = SumFunctionOnSet(g, T) + 0
  BY <1>4, <1>7
<1>9. QED
  BY <1>5, <1>6, <1>8

\* The same terms in other places.
LEMMA SumMapped ==
  ASSUME NEW S, IsFiniteSet(S), NEW R, IsFiniteSet(R), NEW p \in [S -> R],
         \A x, y \in S : p[x] = p[y] => x = y, \A r \in R : \E x \in S : p[x] = r,
         NEW f, NEW g, \A r \in R : g[r] \in Int, \A x \in S : f[x] = g[p[x]]
  PROVE  SumFunctionOnSet(f, S) = SumFunctionOnSet(g, R)
<1> DEFINE Images(T) == {p[x] : x \in T}
           P == {T \in SUBSET S : SumFunctionOnSet(f, T) = SumFunctionOnSet(g, Images(T))}
<1>1. \A x \in S : f[x] \in Int
  OBVIOUS
<1>2. /\ SumFunctionOnSet(f, {}) = 0
      /\ \A T \in SUBSET S : \A x \in T : SumFunctionOnSet(f, T) = f[x] + SumFunctionOnSet(f, T \ {x})
  BY <1>1, SumPicks
<1>3. /\ SumFunctionOnSet(g, {}) = 0
      /\ \A Q \in SUBSET R : \A r \in Q : SumFunctionOnSet(g, Q) = g[r] + SumFunctionOnSet(g, Q \ {r})
  BY SumPicks
<1>4. ASSUME NEW T \in SUBSET S, NEW x \in T, T \ {x} \in P PROVE T \in P
  <2>1. PICK Q \in SUBSET R : Q = Images(T)
    <3>1. \A y \in T : y \in S /\ p[y] \in R
      OBVIOUS
    <3>2. Images(T) \in SUBSET R
      BY <3>1
    <3>3. QED
      BY <3>2
  <2>2. p[x] \in Q /\ Q \ {p[x]} = Images(T \ {x})
    BY <2>1
  <2>3. SumFunctionOnSet(g, Q) = g[p[x]] + SumFunctionOnSet(g, Q \ {p[x]})
    BY <1>3, <2>2
  <2>4. SumFunctionOnSet(f, T) = f[x] + SumFunctionOnSet(f, T \ {x})
    BY <1>2
  <2>5. SumFunctionOnSet(f, T \ {x}) = SumFunctionOnSet(g, Q \ {p[x]})
    BY <1>4, <2>2
  <2>6. f[x] = g[p[x]]
    OBVIOUS
  <2>7. SumFunctionOnSet(f, T) = SumFunctionOnSet(g, Q)
    BY <2>3, <2>4, <2>5, <2>6
  <2>8. QED
    BY <2>1, <2>7
<1>5. P \in SUBSET SUBSET S /\ {} \in P
  <2>1. Images({}) = {}
    OBVIOUS
  <2>2. QED
    BY <1>2, <1>3, <2>1
<1>6. S \in P
  <2> HIDE DEF P
  <2>1. QED
    BY <1>4, <1>5, OneByOne
<1>7. Images(S) = R
  OBVIOUS
<1>8. QED
  BY <1>6, <1>7

\* A sum of so many terms is that of one term less, and the last.
SumUpTo(terms, k) == SumFunctionOnSet(terms, 1 .. k)

\* Taken from the front, a sum takes on a term at a time.
LEMMA SumPrefixes ==
  ASSUME NEW n \in Nat, NEW terms \in [1 .. n -> Nat]
  PROVE  /\ SumUpTo(terms, 0) = 0
         /\ \A k \in 1 .. n : /\ SumUpTo(terms, k) \in Int
                              /\ SumUpTo(terms, k) = terms[k] + SumUpTo(terms, k - 1)
<1>1. PICK T : T = 1 .. n
  OBVIOUS
<1>2. IsFiniteSet(T)
  <2>1. 1 \in Int /\ n \in Int
    OBVIOUS
  <2>2. QED
    BY <1>1, <2>1, FS_Interval
<1>3. \A x \in T : terms[x] \in Int
  BY <1>1
<1>4. /\ SumFunctionOnSet(terms, {}) = 0
      /\ \A U \in SUBSET T :
           /\ SumFunctionOnSet(terms, U) \in Int
           /\ \A x \in U : SumFunctionOnSet(terms, U) = terms[x] + SumFunctionOnSet(terms, U \ {x})
  <2>1. PICK f : f = terms
    OBVIOUS
  <2>2. \A x \in T : f[x] \in Int
    BY <1>3, <2>1
  <2>3. /\ SumFunctionOnSet(f, {}) = 0
        /\ \A U \in SUBSET T :
             /\ SumFunctionOnSet(f, U) \in Int
             /\ \A x \in U : SumFunctionOnSet(f, U) = f[x] + SumFunctionOnSet(f, U \ {x})
    BY <1>2, <2>2, SumPicks
  <2>4. QED
    BY <2>1, <2>3
<1>5. \A k \in 1 .. n : 1 .. k \in SUBSET T /\ k \in 1 .. k /\ (1 .. k) \ {k} = 1 .. (k - 1)
  BY <1>1
<1>6. ASSUME NEW k \in 1 .. n
      PROVE  /\ SumUpTo(terms, k) \in Int
             /\ SumUpTo(terms, k) = terms[k] + SumUpTo(terms, k - 1)
  <2>1. PICK U : U = 1 .. k /\ U \in SUBSET T /\ k \in U /\ U \ {k} = 1 .. (k - 1)
    BY <1>5
  <2>2. SumFunctionOnSet(terms, U) = terms[k] + SumFunctionOnSet(terms, U \ {k})
        /\ SumFunctionOnSet(terms, U) \in Int
    BY <1>4, <2>1
  <2>3. QED
    BY <2>1, <2>2 DEF SumUpTo
<1>7. SumUpTo(terms, 0) = 0
  <2>1. PICK U : U = 1 .. 0
    OBVIOUS
  <2>2. U = {}
    BY <2>1
  <2>3. QED
    BY <1>4, <2>1, <2>2 DEF SumUpTo
<1>8. QED
  BY <1>6, <1>7

-----------------------------------------------------------------------------
(* Ranks *)

\* A fold from the left ends with the last position.
LEMMA LastOf ==
  ASSUME NEW n \in Int, NEW T \in SUBSET (1 .. n), T # {}
  PROVE  Max(T) \in T
<1>1. T \in SUBSET Nat
  OBVIOUS
<1>2. \A x \in T : x \in Nat /\ 1 <= x /\ x <= n
  OBVIOUS
<1>4. n \in Nat
  <2>1. PICK x \in T : TRUE
    OBVIOUS
  <2>2. x \in Nat /\ 1 <= x /\ x <= n
    BY <1>2
  <2>3. QED
    BY <2>2
<1>3. QED
  BY <1>1, <1>2, <1>4, MaxProperty

\* So are their images.
LEMMA ImageFinite ==
  ASSUME NEW S, IsFiniteSet(S), NEW R, NEW f, f \in [S -> R], \A y \in R : \E x \in S : f[x] = y
  PROVE  IsFiniteSet(R)
<1>1. f \in Surjection(S, R)
  BY DEF Surjection
<1>2. QED
  BY <1>1, FS_Surjection

RankAmong(D, R, i) == Cardinality({j \in D : <<j, i>> \in R})
TotalOrder(D, R) ==
  /\ \A i \in D : <<i, i>> \notin R
  /\ \A i, j \in D : i # j => <<i, j>> \in R \/ <<j, i>> \in R
  /\ \A i, j, k \in D : <<i, j>> \in R /\ <<j, k>> \in R => <<i, k>> \in R
Ranks(D, R) ==
  /\ \A i \in D : RankAmong(D, R, i) \in 0 .. Cardinality(D) - 1
  /\ \A i, k \in D : RankAmong(D, R, i) = RankAmong(D, R, k) => i = k
  /\ \A n \in 0 .. Cardinality(D) - 1 : \E i \in D : RankAmong(D, R, i) = n

\* Of what a strict total order ranks, one has each rank, and each has one.
LEMMA Ranking ==
  ASSUME NEW D, IsFiniteSet(D), NEW R, TotalOrder(D, R)
  PROVE  Ranks(D, R)
<1> USE DEF TotalOrder
<1> DEFINE Below(i) == {j \in D : <<j, i>> \in R}
           N == Cardinality(D)
           rank == [i \in D |-> Cardinality(Below(i))]
<1>1. N \in Nat
  BY FS_CardinalityType
<1>2. \A i \in D : Below(i) \in SUBSET D /\ IsFiniteSet(Below(i)) /\ Cardinality(Below(i)) \in Nat
  BY FS_Subset, FS_CardinalityType
<1>3. \A i, k \in D : <<i, k>> \in R => Cardinality(Below(i)) < Cardinality(Below(k))
  <2>1. SUFFICES ASSUME NEW i \in D, NEW k \in D, <<i, k>> \in R
                 PROVE  Cardinality(Below(i)) < Cardinality(Below(k))
    OBVIOUS
  <2>2. Below(i) \in SUBSET Below(k) /\ i \in Below(k) /\ i \notin Below(i)
    BY <2>1
  <2>3. IsFiniteSet(Below(k)) /\ Cardinality(Below(k)) \in Nat /\ Cardinality(Below(i)) \in Nat
    BY <1>2
  <2> HIDE DEF Below
  <2>4. Cardinality(Below(i)) <= Cardinality(Below(k))
        /\ (Cardinality(Below(k)) = Cardinality(Below(i)) => Below(k) = Below(i))
    BY <2>2, <2>3, FS_Subset
  <2>5. QED
    BY <2>2, <2>3, <2>4
<1>4. \A i \in D : Cardinality(Below(i)) \in 0 .. N - 1
  <2>1. TAKE i \in D
  <2>2. Below(i) \in SUBSET D /\ i \notin Below(i)
    OBVIOUS
  <2>3. Cardinality(Below(i)) \in Nat
    BY <1>2
  <2> HIDE DEF Below
  <2>4. Cardinality(Below(i)) <= Cardinality(D)
        /\ (Cardinality(D) = Cardinality(Below(i)) => D = Below(i))
    BY <2>2, FS_Subset
  <2>5. QED
    BY <1>1, <2>2, <2>3, <2>4
<1> HIDE DEF Below, N
<1>5. \A i, k \in D : Cardinality(Below(i)) = Cardinality(Below(k)) => i = k
  <2>1. SUFFICES ASSUME NEW i \in D, NEW k \in D, Cardinality(Below(i)) = Cardinality(Below(k)), i # k
                 PROVE  FALSE
    OBVIOUS
  <2>2. Cardinality(Below(i)) \in Nat
    BY <1>2
  <2>3. <<i, k>> \in R \/ <<k, i>> \in R
    BY <2>1
  <2>4. QED
    BY <1>3, <2>1, <2>2, <2>3
<1>6. rank \in Injection(D, 0 .. N - 1)
  BY <1>4, <1>5 DEF Injection, IsInjective
<1>7. IsFiniteSet(0 .. N - 1) /\ Cardinality(0 .. N - 1) = N
  <2>1. 0 \in Int /\ N - 1 \in Int
    BY <1>1
  <2>2. IsFiniteSet(0 .. N - 1) /\ Cardinality(0 .. N - 1) = IF 0 > N - 1 THEN 0 ELSE (N - 1) - 0 + 1
    BY <2>1, FS_Interval
  <2>3. QED
    BY <1>1, <2>2
<1>8. rank \in Surjection(D, 0 .. N - 1)
  <2>1. Cardinality(D) = Cardinality(0 .. N - 1)
    BY <1>7 DEF N
  <2> HIDE DEF rank
  <2>2. QED
    BY <1>6, <1>7, <2>1, FS_Injection
<1>9. \A n \in 0 .. N - 1 : \E i \in D : Cardinality(Below(i)) = n
  BY <1>8 DEF Surjection
<1>10. QED
  BY <1>4, <1>5, <1>9 DEF Below, N, Ranks, RankAmong

-----------------------------------------------------------------------------
(* What is in reach *)

Onward_(pairs, S) == {p[2] : p \in {q \in pairs : q[1] \in S}}
Nears(near, pairs, origin, n) ==
  near = [k \in 0 .. n |-> IF k = 0 THEN {origin} ELSE near[k - 1] \cup Onward_(pairs, near[k - 1])]

\* The sets of what is in reach in so many steps.
LEMMA NearExists ==
  ASSUME NEW pairs, NEW origin, NEW N, origin \in N, \A p \in pairs : p[2] \in N, NEW n \in Nat
  PROVE  \E near : Nears(near, pairs, origin, n)
<1> DEFINE D == 1 .. n
           V == SUBSET N
           F == [c \in D \X V |-> c[2] \cup Onward_(pairs, c[2])]
           p == [T \in SUBSET D |-> Max(T)]
<1>1. IsFiniteSet(D)
  <2>1. 1 \in Int /\ n \in Int
    OBVIOUS
  <2>2. QED
    BY <2>1, FS_Interval
<1>2. F \in [D \X V -> V] /\ {origin} \in V
  <2>1. \A T \in V : T \cup Onward_(pairs, T) \in V
    BY DEF Onward_
  <2>2. QED
    BY <2>1
<1>3. \A T \in SUBSET D : T # {} => p[T] \in T
  <2>1. n \in Int
    OBVIOUS
  <2>2. \A T \in SUBSET D : T # {} => Max(T) \in T
    BY <2>1, LastOf
  <2>3. QED
    BY <2>2
<1>4. PICK g : Folds_(g, D, V, {origin}, F, p)
  <2> HIDE DEF D, F, p, V
  <2>1. QED
    BY <1>1, <1>2, <1>3, FoldExists
<1>5. \A k \in D : g[1 .. k] = g[1 .. (k - 1)] \cup Onward_(pairs, g[1 .. (k - 1)])
  <2>1. TAKE k \in D
  <2>2. 1 .. k \in SUBSET D /\ k \in 1 .. k /\ (1 .. k) \ {k} = 1 .. (k - 1) /\ 1 .. (k - 1) \in SUBSET D
    OBVIOUS
  <2>3. Max(1 .. k) = k
    <3>1. 1 .. k \in SUBSET Nat /\ k \in Nat /\ \A x \in 1 .. k : x <= k
      OBVIOUS
    <3>2. Max(1 .. k) \in 1 .. k /\ \A x \in 1 .. k : x <= Max(1 .. k)
      BY <2>2, <3>1, MaxProperty
    <3>3. QED
      BY <2>2, <3>2
  <2>4. p[1 .. k] = k
    BY <2>2, <2>3
  <2> DEFINE W == 1 .. k
             U == 1 .. (k - 1)
  <2>5. g[W] = F[<<p[W], g[W \ {p[W]}]>>]
    <3>1. W # {} /\ W \in SUBSET D
      BY <2>2
    <3>2. QED
      BY <1>4, <3>1 DEF Folds_
  <2>6. W \ {p[W]} = U
    BY <2>2, <2>4
  <2>7. g[U] \in V
    BY <1>4, <2>2 DEF Folds_
  <2>8. F[<<k, g[U]>>] = g[U] \cup Onward_(pairs, g[U])
    BY <2>7
  <2> HIDE DEF F, p, W, U, D
  <2>9. g[W] = g[U] \cup Onward_(pairs, g[U])
    BY <2>4, <2>5, <2>6, <2>8 DEF W
  <2>10. QED
    BY <2>9 DEF W, U
<1>6. g[1 .. 0] = {origin}
  <2>1. 1 .. 0 = {} /\ {} \in SUBSET D
    OBVIOUS
  <2>2. QED
    BY <1>4, <2>1 DEF Folds_
<1> DEFINE h == [k \in 0 .. n |-> g[1 .. k]]
<1>7. \A k \in 0 .. n : g[1 .. k] = IF k = 0 THEN {origin} ELSE h[k - 1] \cup Onward_(pairs, h[k - 1])
  <2>1. TAKE k \in 0 .. n
  <2>2. CASE k = 0
    BY <1>6, <2>2
  <2>3. CASE k # 0
    <3>1. k \in D /\ k - 1 \in 0 .. n
      BY <2>3
    <3>2. h[k - 1] = g[1 .. (k - 1)]
      BY <3>1
    <3> HIDE DEF D
    <3>3. QED
      BY <1>5, <2>3, <3>1, <3>2
  <2>4. QED
    BY <2>2, <2>3
<1>8. Nears(h, pairs, origin, n)
  BY <1>7 DEF Nears
<1> HIDE DEF h
<1>9. QED
  BY <1>8

\* What is in reach is closed: there is nothing one step on.
ReachOK(reach, pairs, origin, N) ==
  /\ origin \in reach /\ reach \in SUBSET N
  /\ \A p \in pairs : p[1] \in reach => p[2] \in reach

\* As many steps as there are nodes reach all that can be reached.
LEMMA NearsClose ==
  ASSUME NEW pairs, NEW origin, NEW N, IsFiniteSet(N), origin \in N, \A p \in pairs : p[2] \in N,
         NEW near, Nears(near, pairs, origin, Cardinality(N))
  PROVE  ReachOK(near[Cardinality(N)], pairs, origin, N)
<1>1. PICK n \in Nat : n = Cardinality(N)
  BY FS_CardinalityType
<1>2. /\ near[0] = {origin}
      /\ \A k \in 0 .. n : k # 0 => near[k] = near[k - 1] \cup Onward_(pairs, near[k - 1])
  <2>1. near = [k \in 0 .. n |-> IF k = 0 THEN {origin} ELSE near[k - 1] \cup Onward_(pairs, near[k - 1])]
    BY <1>1 DEF Nears
  <2>2. \A k \in 0 .. n : near[k] = IF k = 0 THEN {origin} ELSE near[k - 1] \cup Onward_(pairs, near[k - 1])
    BY <2>1
  <2>3. 0 \in 0 .. n
    OBVIOUS
  <2>4. QED
    BY <2>2, <2>3
<1> DEFINE Closed(S) == Onward_(pairs, S) \subseteq S
           Good(k) == /\ origin \in near[k] /\ near[k] \in SUBSET N
                      /\ Cardinality(near[k]) >= k + 1 \/ Closed(near[k])
           Bad == {k \in 0 .. n : ~ Good(k)}
<1>3. Good(0)
  <2>1. Cardinality({origin}) = 1
    BY FS_Singleton
  <2>2. QED
    BY <1>2, <2>1
<1>4. ASSUME NEW k \in 0 .. n, k # 0, Good(k - 1) PROVE Good(k)
  <2>1. PICK S, T : S = near[k - 1] /\ T = near[k]
    OBVIOUS
  <2>2. T = S \cup Onward_(pairs, S)
    BY <1>2, <1>4, <2>1
  <2>3. origin \in T /\ T \in SUBSET N /\ S \in SUBSET T
    BY <1>4, <2>1, <2>2 DEF Onward_
  <2>4. IsFiniteSet(T) /\ IsFiniteSet(S) /\ Cardinality(T) \in Nat /\ Cardinality(S) \in Nat
    BY <2>3, FS_Subset, FS_CardinalityType
  <2>5. CASE Closed(S)
    <3>1. T = S
      BY <2>2, <2>5
    <3>2. QED
      BY <2>1, <2>3, <2>5, <3>1
  <2>6. CASE ~ Closed(S)
    <3>1. Cardinality(S) >= (k - 1) + 1
      BY <1>4, <2>1, <2>6
    <3>2. T # S
      BY <2>2, <2>6
    <3>3. Cardinality(S) <= Cardinality(T) /\ Cardinality(S) # Cardinality(T)
      BY <2>3, <2>4, <3>2, FS_Subset
    <3>4. k \in Int
      BY <1>1
    <3> HIDE DEF Closed
    <3>5. Cardinality(T) >= k + 1
      BY <2>4, <3>1, <3>3, <3>4
    <3>6. QED
      BY <2>1, <2>3, <3>5
  <2>7. QED
    BY <2>5, <2>6
<1> HIDE DEF Good
<1>5. Bad = {}
  <2>1. SUFFICES ASSUME Bad # {} PROVE FALSE
    OBVIOUS
  <2>2. Bad \in SUBSET Nat
    OBVIOUS
  <2>3. PICK m \in Bad : \A k \in Bad : m <= k
    BY <2>1, <2>2, LeastMember
  <2>4. m \in 0 .. n /\ ~ Good(m) /\ m # 0
    BY <1>3
  <2>5. m - 1 \in 0 .. n /\ m - 1 \notin Bad
    BY <2>3, <2>4
  <2>6. Good(m - 1)
    BY <2>5
  <2>7. QED
    BY <1>4, <2>4, <2>6
<1>6. Good(n)
  <2>1. n \in 0 .. n /\ n \notin Bad
    BY <1>5
  <2>2. QED
    BY <2>1
<1>7. PICK S : S = near[n]
  OBVIOUS
<1>8. origin \in S /\ S \in SUBSET N /\ (Cardinality(S) >= n + 1 \/ Closed(S))
  BY <1>6, <1>7 DEF Good
<1>9. Cardinality(S) <= n /\ Cardinality(S) \in Nat
  BY <1>1, <1>8, FS_Subset, FS_CardinalityType
<1>10. Closed(S)
  <2> HIDE DEF Closed
  <2>1. QED
    BY <1>8, <1>9
<1>11. \A p \in pairs : p[1] \in S => p[2] \in S
  BY <1>10 DEF Onward_
<1>12. QED
  BY <1>1, <1>7, <1>8, <1>11 DEF ReachOK
=============================================================================
