------------------------------ MODULE CutProofs ------------------------------
(***************************************************************************)
(* What an analysis answers against walks and cuts: what is deliverable is *)
(* a minimum cut, a single flow is granted the most its grain allows, and  *)
(* the rest of it is stranded for the causes that take it.                 *)
(***************************************************************************)
EXTENDS EngineProofs, Walks

-----------------------------------------------------------------------------
(* What lists that are joined or flattened hold *)

\* Nothing of two lists is lost when they are joined.
LEMMA JoinCovers ==
  ASSUME NEW c, NEW a, NEW b, NEW l, Joined(c, a, b, l), IsList(a), IsList(b)
  PROVE  /\ \A i \in DOMAIN a : i \in DOMAIN c /\ c[i] = a[i]
         /\ \A j \in DOMAIN b : l + j \in DOMAIN c /\ l + j > l /\ c[l + j] = b[j]
<1>1. PICK n \in Nat : l \in Nat /\ DOMAIN a = 1 .. l /\ n = Len(b) /\ DOMAIN b = 1 .. n
                       /\ DOMAIN c = 1 .. (l + n)
  BY ListProperty DEF Joined
<1>2. ASSUME NEW i \in DOMAIN a PROVE i \in DOMAIN c /\ c[i] = a[i]
  <2>1. i \in DOMAIN c /\ ~ i > l
    BY <1>1
  <2>2. QED
    BY <2>1 DEF Joined
<1>3. ASSUME NEW j \in DOMAIN b PROVE l + j \in DOMAIN c /\ l + j > l /\ c[l + j] = b[j]
  <2>1. l + j \in DOMAIN c /\ l + j > l /\ l + j \notin DOMAIN a /\ (l + j) - l = j
    BY <1>1
  <2>2. QED
    BY <2>1 DEF Joined
<1>4. QED
  BY <1>2, <1>3

\* Nothing of the lists is lost when they are flattened.
LEMMA FlattenCovers ==
  ASSUME NEW S, NEW n \in Nat, NEW seqs \in [1 .. n -> Seq(S)]
  PROVE  \A i \in 1 .. n : Range(seqs[i]) \subseteq Range(FlattenSeq(seqs))
<1>0. TAKE i \in 1 .. n
<1>12. SUFFICES ASSUME NEW j \in DOMAIN seqs[i] PROVE seqs[i][j] \in Range(FlattenSeq(seqs))
  BY DEF Range
<1> DEFINE Flat(h) == h = [k \in 1 .. n |-> IF k = 1 THEN seqs[k] ELSE h[k - 1] \o seqs[k]]
           Has(s) == \E k \in DOMAIN s : s[k] = seqs[i][j]
<1>1. Len(seqs) = n /\ n # 0
  OBVIOUS
<1>2. FlattenSeq(seqs) = (CHOOSE h : Flat(h))[n]
  BY <1>1 DEF FlattenSeq
<1>3. Flat(CHOOSE h : Flat(h))
  BY FlattenExists
<1>4. PICK h : Flat(h) /\ FlattenSeq(seqs) = h[n]
  BY <1>2, <1>3
<1>5. \A k \in 1 .. n : h[k] = IF k = 1 THEN seqs[k] ELSE h[k - 1] \o seqs[k]
  BY <1>4
<1> HIDE DEF Flat, Has
<1> DEFINE Bad == {k \in 1 .. n : h[k] \notin Seq(S) \/ (k >= i /\ ~ Has(h[k]))}
<1>6. Bad = {}
  <2>1. SUFFICES ASSUME Bad # {} PROVE FALSE
    OBVIOUS
  <2>2. Bad \in SUBSET Nat
    OBVIOUS
  <2>3. PICK m \in Bad : \A k \in Bad : m <= k
    BY <2>1, <2>2, LeastMember
  <2>4. m \in 1 .. n /\ seqs[m] \in Seq(S) /\ i \in Int
    OBVIOUS
  <2>5. CASE m = 1
    <3>1. h[m] = seqs[m]
      BY <1>5, <2>4, <2>5
    <3>2. m >= i => i = m
      BY <2>4, <2>5
    <3>3. m >= i => Has(h[m])
      BY <3>1, <3>2 DEF Has
    <3>4. QED
      BY <2>4, <3>1, <3>3
  <2>6. CASE m # 1
    <3>1. m - 1 \in 1 .. n /\ m - 1 \notin Bad
      BY <2>3, <2>4, <2>6
    <3>2. h[m - 1] \in Seq(S) /\ (m - 1 >= i => Has(h[m - 1]))
      BY <3>1
    <3>3. h[m] = h[m - 1] \o seqs[m]
      BY <1>5, <2>4, <2>6
    <3>4. PICK a, b : a = h[m - 1] /\ b = seqs[m] /\ a \in Seq(S) /\ b \in Seq(S)
      BY <2>4, <3>2
    <3>5. /\ DOMAIN (a \o b) = 1 .. (Len(a) + Len(b))
          /\ \A k \in DOMAIN a : k \in DOMAIN (a \o b) /\ (a \o b)[k] = a[k]
          /\ \A k \in DOMAIN b : Len(a) + k \in DOMAIN (a \o b) /\ (a \o b)[Len(a) + k] = b[k]
      <4>1. PICK x \in Nat, y \in Nat : /\ x = Len(a) /\ DOMAIN a = 1 .. x
                                        /\ y = Len(b) /\ DOMAIN b = 1 .. y
        BY <3>4
      <4>2. DOMAIN (a \o b) = 1 .. (x + y)
        BY <3>4, <4>1
      <4>3. \A k \in 1 .. (x + y) : (a \o b)[k] = IF k <= x THEN a[k] ELSE b[k - x]
        BY <3>4, <4>1
      <4>4. \A k \in 1 .. y : x + k \in 1 .. (x + y) /\ ~ x + k <= x /\ (x + k) - x = k
        OBVIOUS
      <4>5. \A k \in 1 .. y : (a \o b)[x + k] = b[k]
        BY <4>3, <4>4
      <4>6. \A k \in 1 .. x : k \in 1 .. (x + y) /\ (a \o b)[k] = a[k]
        <5>1. TAKE k \in 1 .. x
        <5>2. k \in 1 .. (x + y) /\ k <= x
          OBVIOUS
        <5>3. QED
          BY <4>3, <5>2
      <4>7. DOMAIN a = 1 .. x /\ DOMAIN b = 1 .. y /\ x = Len(a)
        BY <4>1
      <4>8. QED
        BY <4>2, <4>4, <4>5, <4>6, <4>7
    <3>6. a \o b \in Seq(S)
      BY <3>4
    <3>7. CASE m = i
      <4>1. j \in DOMAIN b /\ b[j] = seqs[i][j]
        BY <3>4, <3>7
      <4>2. Has(a \o b)
        BY <3>5, <4>1 DEF Has
      <4>3. QED
        BY <3>3, <3>4, <3>6, <4>2
    <3>8. CASE m # i
      <4>1. m >= i => m - 1 >= i
        BY <2>4, <3>8
      <4>2. m >= i => Has(a)
        BY <3>2, <3>4, <4>1
      <4>3. m >= i => Has(a \o b)
        BY <3>5, <4>2 DEF Has
      <4>4. QED
        BY <3>3, <3>4, <3>6, <4>3
    <3>9. QED
      BY <3>7, <3>8
  <2>7. QED
    BY <2>5, <2>6
<1>7. n \in 1 .. n /\ n >= i /\ n \notin Bad
  <2>1. n \in 1 .. n /\ n >= i
    BY <1>1
  <2>2. n \notin Bad
    BY <1>6
  <2>3. QED
    BY <2>1, <2>2
<1>8. Has(h[n])
  BY <1>7
<1>9. QED
  BY <1>4, <1>8 DEF Has, Range

\* What is flattened holds what the lists hold.
LEMMA FlattenMembers ==
  ASSUME NEW n \in Nat, NEW S, NEW seqs \in [1 .. n -> Seq(S)],
         \A x \in S : \E i \in 1 .. n : x \in Range(seqs[i])
  PROVE  IsList(FlattenSeq(seqs)) /\ Range(FlattenSeq(seqs)) = S
<1>4. PICK f : f = FlattenSeq(seqs) /\ f \in Seq(S)
  BY FlattenProperty
<1>5. IsList(f)
  <2>1. \A i \in DOMAIN f : f[i] \in Range(f)
    BY DEF Range
  <2>2. f \in [1 .. Len(f) -> Range(f)] /\ Len(f) \in Nat
    BY <1>4, <2>1
  <2>3. QED
    BY <2>2 DEF IsList
<1>6. Range(f) \subseteq S
  BY <1>4 DEF Range
<1>7. S \subseteq Range(f)
  <2>1. SUFFICES ASSUME NEW x \in S PROVE x \in Range(f)
    OBVIOUS
  <2>2. PICK i \in 1 .. n : x \in Range(seqs[i])
    OBVIOUS
  <2>3. QED
    BY <1>4, <2>2, FlattenCovers
<1>8. QED
  BY <1>4, <1>5, <1>6, <1>7

LEMMA FlattenHolds ==
  ASSUME NEW n \in Nat, NEW seqs, seqs = [i \in 1 .. n |-> seqs[i]],
         \A i \in 1 .. n : IsList(seqs[i])
  PROVE  /\ IsList(FlattenSeq(seqs))
         /\ Range(FlattenSeq(seqs)) = UNION {Range(seqs[i]) : i \in 1 .. n}
<1> DEFINE S == UNION {Range(seqs[i]) : i \in 1 .. n}
<1>1. \A i \in 1 .. n : seqs[i] \in Seq(S)
  <2>1. TAKE i \in 1 .. n
  <2>2. seqs[i] \in Seq(Range(seqs[i])) /\ Range(seqs[i]) \subseteq S
    BY DEF IsList
  <2> HIDE DEF S
  <2>3. QED
    BY <2>2
<1>2. \A x \in S : \E i \in 1 .. n : x \in Range(seqs[i])
  OBVIOUS
<1> HIDE DEF S
<1>3. seqs \in [1 .. n -> Seq(S)]
  BY <1>1
<1>4. QED
  BY <1>2, <1>3, FlattenMembers DEF S

-----------------------------------------------------------------------------
(* The arcs of a topology *)

\* What joins the nodes to the slots, and to the ends of all flows.
Links(t, flows) ==
  (UNION {Range(NodeArcs(t.nodes[i])) : i \in DOMAIN t.nodes})
    \cup (UNION {Range(EdgeArcs(t.edges[i])) : i \in DOMAIN t.edges})
    \cup (UNION {Range(FlowArcs(flows[i])) : i \in DOMAIN flows})

\* Behind the arcs of the slots come the links, and nothing else.
EndsAre(t, flows) ==
  /\ \A e \in DOMAIN Ends(t, flows) :
       e > Len(Slots(t)) => Ends(t, flows)[e] \in Links(t, flows)
  /\ \A p \in Links(t, flows) : \E e \in DOMAIN Ends(t, flows) :
       e > Len(Slots(t)) /\ Ends(t, flows)[e] = p

\* A list of one or of two.
LEMMA ShortLists ==
  ASSUME NEW p, NEW q
  PROVE  /\ IsList(<<p>>) /\ Range(<<p>>) = {p}
         /\ IsList(<<p, q>>) /\ Range(<<p, q>>) = {p, q}
<1>1. Range(<<p>>) = {p} /\ Range(<<p, q>>) = {p, q}
  BY DEF Range
<1>2. QED
  BY <1>1 DEF IsList

LEMMA EndsHold ==
  ASSUME NEW t, NEW flows, IsList(t.nodes), IsList(t.edges), IsList(flows), IsList(Slots(t))
  PROVE  EndsAre(t, flows)
<1> DEFINE slots == Slots(t)
           A == [i \in DOMAIN slots |-> <<SlotIn(slots[i]), SlotOut(slots[i])>>]
           sB == [i \in DOMAIN t.nodes |-> NodeArcs(t.nodes[i])]
           sC == [i \in DOMAIN t.edges |-> EdgeArcs(t.edges[i])]
           sD == [i \in DOMAIN flows |-> FlowArcs(flows[i])]
           B == FlattenSeq(sB)
           C == FlattenSeq(sC)
           F == FlattenSeq(sD)
<1>1. Ends(t, flows) = ((A \o B) \o C) \o F
  BY DEF Ends, Field
<1>2. IsList(B) /\ Range(B) = UNION {Range(NodeArcs(t.nodes[i])) : i \in DOMAIN t.nodes}
  <2>1. PICK n \in Nat : DOMAIN t.nodes = 1 .. n
    BY ListProperty
  <2>2. \A i \in 1 .. n : sB[i] = NodeArcs(t.nodes[i]) /\ IsList(sB[i])
    BY <2>1, ShortLists DEF NodeArcs
  <2>3. sB = [i \in 1 .. n |-> sB[i]]
    BY <2>1
  <2> HIDE DEF sB
  <2>4. IsList(B) /\ Range(B) = UNION {Range(sB[i]) : i \in 1 .. n}
    BY <2>2, <2>3, FlattenHolds
  <2>5. QED
    BY <2>1, <2>2, <2>4
<1>3. IsList(C) /\ Range(C) = UNION {Range(EdgeArcs(t.edges[i])) : i \in DOMAIN t.edges}
  <2>1. PICK n \in Nat : DOMAIN t.edges = 1 .. n
    BY ListProperty
  <2>2. \A i \in 1 .. n : sC[i] = EdgeArcs(t.edges[i]) /\ IsList(sC[i])
    BY <2>1, ShortLists DEF EdgeArcs
  <2>3. sC = [i \in 1 .. n |-> sC[i]]
    BY <2>1
  <2> HIDE DEF sC
  <2>4. IsList(C) /\ Range(C) = UNION {Range(sC[i]) : i \in 1 .. n}
    BY <2>2, <2>3, FlattenHolds
  <2>5. QED
    BY <2>1, <2>2, <2>4
<1>4. IsList(F) /\ Range(F) = UNION {Range(FlowArcs(flows[i])) : i \in DOMAIN flows}
  <2>1. PICK n \in Nat : DOMAIN flows = 1 .. n
    BY ListProperty
  <2>2. \A i \in 1 .. n : sD[i] = FlowArcs(flows[i]) /\ IsList(sD[i])
    BY <2>1, ShortLists DEF FlowArcs
  <2>3. sD = [i \in 1 .. n |-> sD[i]]
    BY <2>1
  <2> HIDE DEF sD
  <2>4. IsList(F) /\ Range(F) = UNION {Range(sD[i]) : i \in 1 .. n}
    BY <2>2, <2>3, FlattenHolds
  <2>5. QED
    BY <2>1, <2>2, <2>4
<1>5. IsList(A) /\ Len(A) = Len(slots)
  <2>1. PICK n \in Nat : DOMAIN slots = 1 .. n /\ Len(slots) = n
    BY ListProperty
  <2>2. DOMAIN A = 1 .. n /\ \A i \in DOMAIN A : A[i] \in Range(A)
    BY <2>1 DEF Range
  <2>3. A \in [1 .. n -> Range(A)]
    BY <2>1, <2>2
  <2>4. IsList(A) /\ Len(A) = n
    BY <2>3 DEF IsList
  <2>5. QED
    BY <2>1, <2>4
<1> HIDE DEF A, B, C, F
<1>6. PICK AB, ABC, E : AB = A \o B /\ ABC = AB \o C /\ E = ABC \o F /\ E = Ends(t, flows)
  BY <1>1
<1>7. PICK a \in Nat, b \in Nat, c \in Nat :
        /\ a = Len(A) /\ DOMAIN A = 1 .. a /\ b = Len(B) /\ DOMAIN B = 1 .. b
        /\ c = Len(C) /\ DOMAIN C = 1 .. c
  BY <1>2, <1>3, <1>5, ListProperty
<1>8. Joined(AB, A, B, a) /\ IsList(AB) /\ Len(AB) = a + b /\ DOMAIN AB = 1 .. (a + b)
  <2>1. Joined(AB, A, B, a)
    BY <1>2, <1>5, <1>6, <1>7, JoinProperty
  <2>2. QED
    BY <1>7, <2>1, ListProperty DEF Joined
<1>9. Joined(ABC, AB, C, a + b) /\ IsList(ABC) /\ Len(ABC) = a + b + c /\ DOMAIN ABC = 1 .. (a + b + c)
  <2>1. Joined(ABC, AB, C, a + b)
    BY <1>3, <1>6, <1>8, JoinProperty
  <2>2. QED
    BY <1>7, <2>1, ListProperty DEF Joined
<1>10. PICK f \in Nat : f = Len(F) /\ DOMAIN F = 1 .. f
  BY <1>4, ListProperty
<1>11. Joined(E, ABC, F, a + b + c) /\ DOMAIN E = 1 .. (a + b + c + f)
  <2>1. Joined(E, ABC, F, a + b + c)
    BY <1>4, <1>6, <1>9, JoinProperty
  <2>2. QED
    BY <1>9, <1>10, <2>1, ListProperty DEF Joined
<1>12. Links(t, flows) = Range(B) \cup Range(C) \cup Range(F)
  <2> DEFINE X == UNION {Range(NodeArcs(t.nodes[i])) : i \in DOMAIN t.nodes}
             Y == UNION {Range(EdgeArcs(t.edges[i])) : i \in DOMAIN t.edges}
             Z == UNION {Range(FlowArcs(flows[i])) : i \in DOMAIN flows}
  <2>1. Links(t, flows) = X \cup Y \cup Z
    BY DEF Links
  <2>2. Range(B) = X /\ Range(C) = Y /\ Range(F) = Z
    BY <1>2, <1>3, <1>4
  <2> HIDE DEF X, Y, Z
  <2>3. QED
    BY <2>1, <2>2
<1>13. ASSUME NEW e \in DOMAIN E, e > a PROVE E[e] \in Links(t, flows)
  <2>1. (e \in DOMAIN ABC /\ E[e] = ABC[e]) \/ E[e] \in Range(F)
    BY <1>11 DEF Joined, Range
  <2>2. e \in DOMAIN ABC => (e \in DOMAIN AB /\ ABC[e] = AB[e]) \/ ABC[e] \in Range(C)
    BY <1>9 DEF Joined, Range
  <2>3. e \in DOMAIN AB => AB[e] \in Range(B)
    <3>1. e \notin DOMAIN A
      BY <1>7, <1>11, <1>13
    <3>2. QED
      BY <1>8, <3>1 DEF Joined, Range
  <2>4. QED
    BY <1>12, <2>1, <2>2, <2>3
<1>14. ASSUME NEW p \in Links(t, flows) PROVE \E e \in DOMAIN E : e > a /\ E[e] = p
  <2>1. \A i \in DOMAIN ABC : i \in DOMAIN E /\ E[i] = ABC[i]
    BY <1>4, <1>9, <1>11, JoinCovers
  <2>2. \A i \in DOMAIN AB : i \in DOMAIN ABC /\ ABC[i] = AB[i]
    BY <1>3, <1>8, <1>9, JoinCovers
  <2>3. CASE p \in Range(B)
    <3>1. PICK j \in DOMAIN B : B[j] = p
      BY <2>3 DEF Range
    <3>2. a + j \in DOMAIN AB /\ a + j > a /\ AB[a + j] = p
      BY <1>2, <1>5, <1>8, <3>1, JoinCovers
    <3>3. QED
      BY <2>1, <2>2, <3>2
  <2>4. CASE p \in Range(C)
    <3>1. PICK j \in DOMAIN C : C[j] = p
      BY <2>4 DEF Range
    <3>2. (a + b) + j \in DOMAIN ABC /\ (a + b) + j > a + b /\ ABC[(a + b) + j] = p
      BY <1>3, <1>8, <1>9, <3>1, JoinCovers
    <3>3. (a + b) + j > a
      BY <1>7, <3>1
    <3>4. QED
      BY <2>1, <3>2, <3>3
  <2>5. CASE p \in Range(F)
    <3>1. PICK j \in DOMAIN F : F[j] = p
      BY <2>5 DEF Range
    <3>2. (a + b + c) + j \in DOMAIN E /\ E[(a + b + c) + j] = p
      BY <1>4, <1>9, <1>11, <3>1, JoinCovers
    <3>3. (a + b + c) + j > a
      BY <1>7, <1>10, <3>1
    <3>4. QED
      BY <3>2, <3>3
  <2>6. QED
    BY <1>12, <2>3, <2>4, <2>5
<1>15. QED
  BY <1>5, <1>6, <1>7, <1>13, <1>14 DEF EndsAre

-----------------------------------------------------------------------------
(* A topology that was accepted *)

\* Every slot is the transit of one node or the resource of one edge.
TopologyOK(t) ==
  /\ IsList(t.nodes) /\ IsList(t.edges)
  /\ Range(Slots(t)) = {t.nodes[i].transit : i \in Transits(t.nodes)}
                         \cup {t.edges[i].resource : i \in DOMAIN t.edges}
  /\ None \notin Range(Slots(t))
  /\ \A i \in DOMAIN t.nodes : TransitOf(t, t.nodes[i].id) = t.nodes[i].transit
  /\ \A i, j \in Transits(t.nodes) : t.nodes[i].transit = t.nodes[j].transit => i = j
  /\ \A i, j \in DOMAIN t.edges : t.edges[i].resource = t.edges[j].resource => i = j
  /\ \A i \in Transits(t.nodes), j \in DOMAIN t.edges : t.nodes[i].transit # t.edges[j].resource

LEMMA TopologyProperty ==
  ASSUME NEW in_, TypedCatalogs(in_), Derivable(in_)
  PROVE  TopologyOK(in_.topology)
<1> DEFINE t == in_.topology
           H == Transits(t.nodes)
           e == InOrder(H)
           a == [k \in DOMAIN e |-> t.nodes[e[k]].transit]
           b == [k \in DOMAIN t.edges |-> t.edges[k].resource]
<1>1. IsList(t.nodes) /\ IsList(t.edges)
  BY DEF TypedCatalogs
<1>2. PICK n \in Nat, m \in Nat : DOMAIN t.nodes = 1 .. n /\ DOMAIN t.edges = 1 .. m
  BY <1>1, ListProperty
<1>3. H \in SUBSET (1 .. n)
  BY <1>2 DEF Transits
<1>4. ValidTopology(t, in_.resources, in_.limits) /\ ValidResources(in_.resources, in_.limits)
  BY DEF Derivable, ValidCatalogs
<1>5. Slots(t) = a \o b
  BY DEF Slots, Field
<1>6. \A i \in DOMAIN in_.resources.records : in_.resources.records[i].id # None
  BY <1>4 DEF ValidResources, ValidResource
<1>7. \A i \in DOMAIN t.edges : t.edges[i].resource # None
  BY <1>4, <1>6 DEF ValidTopology, Bound, Known
<1>8. /\ \A i, j \in H : t.nodes[i].transit = t.nodes[j].transit => i = j
      /\ \A i, j \in DOMAIN t.edges : t.edges[i].resource = t.edges[j].resource => i = j
      /\ \A i \in H, j \in DOMAIN t.edges : t.nodes[i].transit # t.edges[j].resource
  BY <1>4 DEF ValidTopology, OwnedOnce, Distinct, Field
<1>9. PICK c \in Nat : c = Cardinality(H) /\ e \in [1 .. c -> H]
  BY <1>3, InOrderType
<1>10. \A i \in H : \E k \in 1 .. c : e[k] = i
  BY <1>3, <1>9, InOrderComplete
<1>11. \A i \in DOMAIN t.nodes : TransitOf(t, t.nodes[i].id) = t.nodes[i].transit
  <2>1. TAKE i \in DOMAIN t.nodes
  <2>2. \A k \in DOMAIN t.nodes : t.nodes[k].id = t.nodes[i].id => k = i
    BY <1>4 DEF ValidTopology, Distinct, Identities, Field
  <2>3. \A j \in 1 .. i - 1 : t.nodes[j].id # t.nodes[i].id
    <3>1. \A j \in 1 .. i - 1 : j \in DOMAIN t.nodes /\ j # i
      BY <1>2
    <3>2. QED
      BY <2>2, <3>1
  <2> DEFINE Is(k) == t.nodes[k].id = t.nodes[i].id /\ \A j \in 1 .. k - 1 : t.nodes[j].id # t.nodes[i].id
  <2>4. \E k \in DOMAIN t.nodes : Is(k)
    BY <2>3
  <2>5. PICK k \in DOMAIN t.nodes : Is(k) /\ Find(t.nodes, t.nodes[i].id) = t.nodes[k]
    BY <2>4 DEF Find
  <2>6. k = i
    BY <2>2, <2>5
  <2>7. QED
    BY <2>5, <2>6 DEF TransitOf
<1> HIDE DEF H, e, t
<1>12. DOMAIN a = 1 .. c /\ \A k \in 1 .. c : e[k] \in H /\ a[k] = t.nodes[e[k]].transit
  BY <1>9
<1>13. IsList(a) /\ IsList(b)
  <2>1. ASSUME NEW x, NEW k \in Nat, x = [i \in 1 .. k |-> x[i]] PROVE IsList(x)
    <3>1. x \in [1 .. k -> Range(x)]
      BY <2>1 DEF Range
    <3>2. QED
      BY <3>1 DEF IsList
  <2>2. a = [i \in 1 .. c |-> a[i]] /\ b = [i \in 1 .. m |-> b[i]]
    BY <1>2, <1>12
  <2> HIDE DEF a, b
  <2>3. QED
    BY <2>1, <2>2
<1>14. Range(a) = {t.nodes[i].transit : i \in H}
  BY <1>10, <1>12 DEF Range
<1>15. Range(b) = {t.edges[i].resource : i \in DOMAIN t.edges}
  BY DEF Range
<1> HIDE DEF a, b
<1>16. PICK l, s : l = Len(a) /\ s = Slots(t) /\ Joined(s, a, b, l)
  BY <1>5, <1>13, JoinProperty
<1>17. Range(s) = Range(a) \cup Range(b)
  <2>1. Range(s) \subseteq Range(a) \cup Range(b)
    BY <1>16 DEF Joined, Range
  <2>2. Range(a) \subseteq Range(s) /\ Range(b) \subseteq Range(s)
    BY <1>13, <1>16, JoinCovers DEF Range
  <2>3. QED
    BY <2>1, <2>2
<1>18. \A i \in H : i \in DOMAIN t.nodes /\ t.nodes[i].transit # None
  BY DEF H, Transits
<1>19. None \notin Range(s)
  BY <1>7, <1>14, <1>15, <1>17, <1>18
<1>20. H = Transits(t.nodes)
  BY DEF H
<1>21. TopologyOK(t)
  BY <1>1, <1>8, <1>11, <1>14, <1>15, <1>16, <1>17, <1>19, <1>20 DEF TopologyOK
<1>22. QED
  BY <1>21 DEF t

-----------------------------------------------------------------------------
(* What a walk gets to *)

\* Nothing is in reach that does not have to be.
LEMMA ReachLeast ==
  ASSUME NEW pairs, NEW origin, NEW N, IsFiniteSet(N), origin \in N, \A p \in pairs : p[2] \in N,
         NEW C, origin \in C, \A p \in pairs : p[1] \in C => p[2] \in C
  PROVE  Reach(pairs, origin, N) \subseteq C
<1>1. PICK n : n = Cardinality(N) /\ n \in Nat
  BY FS_CardinalityType
<1> DEFINE Is(near) ==
             near = [k \in 0 .. n |->
                       IF k = 0 THEN {origin}
                       ELSE UNION {S \cup {p[2] : p \in {q \in pairs : q[1] \in S}} : S \in {near[k - 1]}}]
<1>2. \A near : Is(near) <=> Nears(near, pairs, origin, n)
  <2>1. ASSUME NEW T PROVE UNION {S \cup {p[2] : p \in {q \in pairs : q[1] \in S}} : S \in {T}}
                           = T \cup Onward_(pairs, T)
    BY DEF Onward_
  <2>2. QED
    BY <2>1 DEF Nears
<1>3. Reach(pairs, origin, N) = (CHOOSE near : Is(near))[n]
  BY <1>1 DEF Reach
<1>4. \E near : Is(near)
  BY <1>1, <1>2, NearExists
<1>5. Is(CHOOSE near : Is(near))
  BY <1>4
<1>6. PICK near : Is(near) /\ Reach(pairs, origin, N) = near[n]
  BY <1>3, <1>5
<1> HIDE DEF Is
<1>7. Nears(near, pairs, origin, n)
  BY <1>2, <1>6
<1>8. \A k \in 0 .. n : near[k] = IF k = 0 THEN {origin} ELSE near[k - 1] \cup Onward_(pairs, near[k - 1])
  BY <1>7 DEF Nears
<1> DEFINE Bad == {k \in 0 .. n : ~ (near[k] \subseteq C)}
<1>9. Bad = {}
  <2>1. SUFFICES ASSUME Bad # {} PROVE FALSE
    OBVIOUS
  <2>2. Bad \in SUBSET Nat
    OBVIOUS
  <2>3. PICK m \in Bad : \A k \in Bad : m <= k
    BY <2>1, <2>2, LeastMember
  <2>4. m \in 0 .. n /\ ~ (near[m] \subseteq C) /\ m # 0
    BY <1>8
  <2>5. m - 1 \in 0 .. n /\ m - 1 \notin Bad
    <3>1. m - 1 \in 0 .. n /\ ~ m <= m - 1
      BY <1>1, <2>4
    <3> HIDE DEF Bad
    <3>2. QED
      BY <2>3, <3>1
  <2>6. near[m - 1] \subseteq C
    BY <2>5
  <2>7. Onward_(pairs, near[m - 1]) \subseteq C
    BY <2>6 DEF Onward_
  <2>8. QED
    BY <1>8, <2>4, <2>6, <2>7
<1>10. n \in 0 .. n
  BY <1>1
<1>11. QED
  BY <1>6, <1>9, <1>10

\* A walk that goes on to an edge.
Onto(t, cut, e, d) == e.to = d.from /\ TransitOf(t, d.from) \notin cut
Usable_E(t, cut) == {e \in EdgeSet(t) : e.resource \notin cut}

\* What is walked is closed, and nothing is walked that does not have to be.
WalkedOK(t, sources, cut, W) ==
  /\ W \subseteq EdgeSet(t)
  /\ \A d \in Usable_E(t, cut) : d.from \in sources => d \in W
  /\ \A e \in W \cap Usable_E(t, cut), d \in Usable_E(t, cut) : Onto(t, cut, e, d) => d \in W
  /\ \A C \in SUBSET EdgeSet(t) :
       /\ \A d \in Usable_E(t, cut) : d.from \in sources => d \in C
       /\ \A e \in C \cap Usable_E(t, cut), d \in Usable_E(t, cut) : Onto(t, cut, e, d) => d \in C
       => W \subseteq C

LEMMA WalkedProperty ==
  ASSUME NEW t, TopologyOK(t), NEW sources, NEW cut
  PROVE  WalkedOK(t, sources, cut, Walked(t, sources, cut))
<1> DEFINE drawn == {e.resource : e \in EdgeSet(t)}
           usable == Usable_E(t, cut)
           pairs == Strides(t, sources, cut)
           N == drawn \cup {None}
<1>1. IsFiniteSet(N)
  <2>1. IsFiniteSet(EdgeSet(t))
    BY RangeFinite DEF TopologyOK, EdgeSet
  <2>2. PICK f : f \in [EdgeSet(t) -> drawn] /\ \A y \in drawn : \E x \in EdgeSet(t) : f[x] = y
    <3>1. [x \in EdgeSet(t) |-> x.resource] \in [EdgeSet(t) -> drawn]
      OBVIOUS
    <3>2. \A y \in drawn : \E x \in EdgeSet(t) : [z \in EdgeSet(t) |-> z.resource][x] = y
      OBVIOUS
    <3>3. QED
      BY <3>1, <3>2
  <2>3. IsFiniteSet(drawn)
    BY <2>1, <2>2, ImageFinite
  <2>4. IsFiniteSet({None})
    BY FS_Singleton
  <2>5. QED
    BY <2>3, <2>4, FS_Union
<1>2. pairs = {<<None, d.resource>> : d \in {x \in usable : x.from \in sources}}
                \cup {<<p[1].resource, p[2].resource>> : p \in {q \in usable \X usable : Onto(t, cut, q[1], q[2])}}
  BY DEF Strides, Usable_E, Onto
<1>3. usable \subseteq EdgeSet(t)
  BY DEF Usable_E
<1> HIDE DEF usable
<1>4. \A d \in usable : d.from \in sources => <<None, d.resource>> \in pairs
  BY <1>2
<1>5. \A e \in usable, d \in usable : Onto(t, cut, e, d) => <<e.resource, d.resource>> \in pairs
  <2>1. TAKE e \in usable, d \in usable
  <2>2. HAVE Onto(t, cut, e, d)
  <2>3. <<e, d>> \in {q \in usable \X usable : Onto(t, cut, q[1], q[2])}
    BY <2>2
  <2>4. <<<<e, d>>[1].resource, <<e, d>>[2].resource>> \in pairs
    BY <1>2, <2>3
  <2>5. QED
    BY <2>4
<1>6. \A p \in pairs : \/ \E d \in usable : d.from \in sources /\ p = <<None, d.resource>>
                       \/ \E e \in usable, d \in usable : Onto(t, cut, e, d) /\ p = <<e.resource, d.resource>>
  <2>1. TAKE p \in pairs
  <2>2. CASE p \in {<<None, d.resource>> : d \in {x \in usable : x.from \in sources}}
    BY <2>2
  <2>3. CASE p \in {<<q[1].resource, q[2].resource>> : q \in {q \in usable \X usable : Onto(t, cut, q[1], q[2])}}
    <3>1. PICK q \in usable \X usable : Onto(t, cut, q[1], q[2]) /\ p = <<q[1].resource, q[2].resource>>
      BY <2>3
    <3>2. q[1] \in usable /\ q[2] \in usable
      OBVIOUS
    <3>3. QED
      BY <3>1, <3>2
  <2>4. QED
    BY <1>2, <2>2, <2>3
<1> HIDE DEF pairs
<1>7. \A p \in pairs : p[2] \in N
  BY <1>3, <1>6
<1>8. \A e \in EdgeSet(t) : e.resource # None
  <2>1. TAKE e \in EdgeSet(t)
  <2>2. PICK i \in DOMAIN t.edges : e = t.edges[i]
    BY DEF EdgeSet, Range
  <2>3. e.resource \in Range(Slots(t))
    BY <2>2 DEF TopologyOK
  <2>4. QED
    BY <2>3 DEF TopologyOK
<1>9. \A e, d \in EdgeSet(t) : e.resource = d.resource => e = d
  BY DEF EdgeSet, Range, TopologyOK
<1> DEFINE known == Reach(pairs, None, N)
           W == Walked(t, sources, cut)
<1>10. W = {e \in EdgeSet(t) : e.resource \in known}
  BY DEF Walked, pairs
<1>11. ReachOK(known, pairs, None, N)
  <2> HIDE DEF N
  <2>1. None \in N
    BY DEF N
  <2>2. QED
    BY <1>1, <1>7, <2>1, ReachProperty
<1>12. \A d \in usable : d.from \in sources => d \in W
  <2>1. TAKE d \in usable
  <2>2. HAVE d.from \in sources
  <2>3. <<None, d.resource>> \in pairs
    BY <1>4, <2>2
  <2>4. <<None, d.resource>>[1] \in known => <<None, d.resource>>[2] \in known
    BY <1>11, <2>3 DEF ReachOK
  <2>5. None \in known
    BY <1>11 DEF ReachOK
  <2> HIDE DEF known
  <2>6. QED
    BY <1>3, <1>10, <2>4, <2>5
<1>13. \A e \in W \cap usable, d \in usable : Onto(t, cut, e, d) => d \in W
  <2>1. TAKE e \in W \cap usable, d \in usable
  <2>2. HAVE Onto(t, cut, e, d)
  <2>3. <<e.resource, d.resource>> \in pairs
    BY <1>5, <2>2
  <2>4. <<e.resource, d.resource>>[1] \in known => <<e.resource, d.resource>>[2] \in known
    BY <1>11, <2>3 DEF ReachOK
  <2> HIDE DEF known
  <2>5. QED
    BY <1>3, <1>10, <2>4
<1>14. ASSUME NEW C \in SUBSET EdgeSet(t), \A d \in usable : d.from \in sources => d \in C,
              \A e \in C \cap usable, d \in usable : Onto(t, cut, e, d) => d \in C
       PROVE  W \subseteq C
  <2> DEFINE T == {None} \cup {e.resource : e \in C}
  <2>1. \A p \in pairs : p[1] \in T => p[2] \in T
    <3>1. TAKE p \in pairs
    <3>2. HAVE p[1] \in T
    <3>3. CASE \E d \in usable : d.from \in sources /\ p = <<None, d.resource>>
      BY <1>14, <3>3
    <3>4. CASE \E e \in usable, d \in usable : Onto(t, cut, e, d) /\ p = <<e.resource, d.resource>>
      <4>1. PICK e \in usable, d \in usable : Onto(t, cut, e, d) /\ p = <<e.resource, d.resource>>
        BY <3>4
      <4>2. e \in EdgeSet(t) /\ d \in EdgeSet(t)
        BY <1>3
      <4>3. e.resource \in T /\ e.resource # None
        BY <1>8, <3>2, <4>1, <4>2
      <4>4. PICK x \in C : e.resource = x.resource
        BY <4>3
      <4>5. e \in C
        BY <1>9, <4>2, <4>4
      <4>6. d \in C
        BY <1>14, <4>1, <4>5
      <4>7. QED
        BY <4>1, <4>6
    <3>5. QED
      BY <1>6, <3>3, <3>4
  <2>2. None \in T
    OBVIOUS
  <2> HIDE DEF T
  <2>3. known \subseteq T
    <3> HIDE DEF N
    <3>1. None \in N
      BY DEF N
    <3>2. QED
      BY <1>1, <1>7, <2>1, <2>2, <3>1, ReachLeast
  <2>4. SUFFICES ASSUME NEW e \in W PROVE e \in C
    OBVIOUS
  <2> HIDE DEF known
  <2>5. e \in EdgeSet(t) /\ e.resource \in T /\ e.resource # None
    BY <1>8, <1>10, <2>3
  <2>6. PICK x \in C : e.resource = x.resource
    BY <2>5 DEF T
  <2>7. QED
    BY <1>9, <2>5, <2>6
<1>15. W \subseteq EdgeSet(t)
  BY <1>10
<1> HIDE DEF W, known
<1>16. WalkedOK(t, sources, cut, W)
  BY <1>12, <1>13, <1>14, <1>15 DEF WalkedOK, usable
<1>17. QED
  BY <1>16 DEF W

-----------------------------------------------------------------------------
(* The arcs of an analysis, one by one *)

\* The links of a topology and the ends of its flows.
LinksAre(t, flows) ==
  /\ \A i \in DOMAIN t.nodes :
       IF t.nodes[i].transit = None
         THEN <<In(t.nodes[i].id), Out_(t.nodes[i].id)>> \in Links(t, flows)
         ELSE /\ <<In(t.nodes[i].id), SlotIn(t.nodes[i].transit)>> \in Links(t, flows)
              /\ <<SlotOut(t.nodes[i].transit), Out_(t.nodes[i].id)>> \in Links(t, flows)
  /\ \A i \in DOMAIN t.edges :
       /\ <<Out_(t.edges[i].from), SlotIn(t.edges[i].resource)>> \in Links(t, flows)
       /\ <<SlotOut(t.edges[i].resource), In(t.edges[i].to)>> \in Links(t, flows)
  /\ \A i \in DOMAIN flows :
       /\ <<SuperSource, Out_(flows[i].source)>> \in Links(t, flows)
       /\ <<In(flows[i].sink), SuperSink>> \in Links(t, flows)

NodeLink(t, p) ==
  \E i \in DOMAIN t.nodes :
    \/ t.nodes[i].transit = None /\ p = <<In(t.nodes[i].id), Out_(t.nodes[i].id)>>
    \/ /\ t.nodes[i].transit # None
       /\ \/ p = <<In(t.nodes[i].id), SlotIn(t.nodes[i].transit)>>
          \/ p = <<SlotOut(t.nodes[i].transit), Out_(t.nodes[i].id)>>
EdgeLink(t, p) ==
  \E i \in DOMAIN t.edges :
    \/ p = <<Out_(t.edges[i].from), SlotIn(t.edges[i].resource)>>
    \/ p = <<SlotOut(t.edges[i].resource), In(t.edges[i].to)>>
FlowLink(flows, p) ==
  \E i \in DOMAIN flows :
    p = <<SuperSource, Out_(flows[i].source)>> \/ p = <<In(flows[i].sink), SuperSink>>

LEMMA LinkKinds ==
  ASSUME NEW t, NEW flows
  PROVE  /\ LinksAre(t, flows)
         /\ \A p \in Links(t, flows) : NodeLink(t, p) \/ EdgeLink(t, p) \/ FlowLink(flows, p)
<1> DEFINE X == UNION {Range(NodeArcs(t.nodes[i])) : i \in DOMAIN t.nodes}
           Y == UNION {Range(EdgeArcs(t.edges[i])) : i \in DOMAIN t.edges}
           Z == UNION {Range(FlowArcs(flows[i])) : i \in DOMAIN flows}
<1>1. Links(t, flows) = X \cup Y \cup Z
  BY DEF Links
<1>2. \A i \in DOMAIN t.nodes :
        Range(NodeArcs(t.nodes[i])) =
          IF t.nodes[i].transit = None THEN {<<In(t.nodes[i].id), Out_(t.nodes[i].id)>>}
          ELSE {<<In(t.nodes[i].id), SlotIn(t.nodes[i].transit)>>,
                <<SlotOut(t.nodes[i].transit), Out_(t.nodes[i].id)>>}
  BY ShortLists DEF NodeArcs
<1>3. \A i \in DOMAIN t.edges :
        Range(EdgeArcs(t.edges[i])) = {<<Out_(t.edges[i].from), SlotIn(t.edges[i].resource)>>,
                                       <<SlotOut(t.edges[i].resource), In(t.edges[i].to)>>}
  BY ShortLists DEF EdgeArcs
<1>4. \A i \in DOMAIN flows :
        Range(FlowArcs(flows[i])) = {<<SuperSource, Out_(flows[i].source)>>,
                                     <<In(flows[i].sink), SuperSink>>}
  BY ShortLists DEF FlowArcs
<1>5. \A i \in DOMAIN t.nodes : Range(NodeArcs(t.nodes[i])) \subseteq Links(t, flows)
  BY <1>1
<1>6. \A i \in DOMAIN t.edges : Range(EdgeArcs(t.edges[i])) \subseteq Links(t, flows)
  BY <1>1
<1>7. \A i \in DOMAIN flows : Range(FlowArcs(flows[i])) \subseteq Links(t, flows)
  BY <1>1
<1>8. LinksAre(t, flows)
  BY <1>2, <1>3, <1>4, <1>5, <1>6, <1>7 DEF LinksAre
<1>9. ASSUME NEW p \in Links(t, flows) PROVE NodeLink(t, p) \/ EdgeLink(t, p) \/ FlowLink(flows, p)
  <2>1. CASE p \in X
    <3>1. PICK i \in DOMAIN t.nodes : p \in Range(NodeArcs(t.nodes[i]))
      BY <2>1
    <3>2. QED
      BY <1>2, <3>1 DEF NodeLink
  <2>2. CASE p \in Y
    <3>1. PICK i \in DOMAIN t.edges : p \in Range(EdgeArcs(t.edges[i]))
      BY <2>2
    <3>2. QED
      BY <1>3, <3>1 DEF EdgeLink
  <2>3. CASE p \in Z
    <3>1. PICK i \in DOMAIN flows : p \in Range(FlowArcs(flows[i]))
      BY <2>3
    <3>2. QED
      BY <1>4, <3>1 DEF FlowLink
  <2>4. QED
    BY <1>1, <2>1, <2>2, <2>3
<1>10. QED
  BY <1>8, <1>9

\* Each pair of ends has its arc.
LEMMA EndArcs ==
  ASSUME SolverInv, NEW t, NEW flows, EndsOK(t, flows), net = Assemble(t, flows)
  PROVE  \A e \in DOMAIN Ends(t, flows) :
           /\ 2 * e - 1 \in Forward(net)
           /\ net.tail[2 * e - 1] = Ends(t, flows)[e][1] /\ net.head[2 * e - 1] = Ends(t, flows)[e][2]
           /\ ((2 * e - 1) + 1) \div 2 = e
<1>1. PICK ends : ends = Ends(t, flows)
  OBVIOUS
<1>2. PICK n \in Nat : n = Len(ends) /\ Len(net.tail) = 2 * n /\ DOMAIN ends = 1 .. n
  BY <1>1, NetArcs, ListProperty DEF EndsOK
<1>3. /\ net.tail = [a \in 1 .. 2 * n |-> Paired(ends)[a][IF a % 2 = 1 THEN 1 ELSE 2]]
      /\ net.head = [a \in 1 .. 2 * n |-> Paired(ends)[a][IF a % 2 = 1 THEN 2 ELSE 1]]
      /\ Paired(ends) = [a \in 1 .. 2 * n |-> ends[(a + 1) \div 2]]
  BY <1>1, <1>2 DEF Assemble, NetworkOf, Paired
<1>4. Arcs(net) = 1 .. 2 * n
  BY <1>2, ArcsProperty
<1>5. \A a \in 1 .. 2 * n : Paired(ends)[a] = ends[(a + 1) \div 2]
  BY <1>3
<1>6. \A a \in 1 .. 2 * n : a % 2 = 1 => net.tail[a] = ends[(a + 1) \div 2][1]
                                         /\ net.head[a] = ends[(a + 1) \div 2][2]
  BY <1>3, <1>5
<1>7. \A e \in 1 .. n : /\ 2 * e - 1 \in 1 .. 2 * n /\ (2 * e - 1) % 2 = 1
                        /\ ((2 * e - 1) + 1) \div 2 = e
  OBVIOUS
<1>8. \A e \in 1 .. n : ends[e][1] = net.tail[2 * e - 1] /\ ends[e][2] = net.head[2 * e - 1]
  BY <1>6, <1>7
<1>9. \A e \in 1 .. n : 2 * e - 1 \in Forward(net)
  BY <1>4, <1>7 DEF Forward
<1>10. QED
  BY <1>1, <1>2, <1>7, <1>8, <1>9

\* What an analysis is about.
Ground ==
  /\ SolverInv /\ net = Assemble(in.topology, tally.flows) /\ net.nodes = Vertices(in.topology)
  /\ IsFiniteSet(net.nodes)
  /\ SlotsOK(in) /\ EndsOK(in.topology, tally.flows) /\ RowsOK(in, rows) /\ AvailableFits(rows)
  /\ TopologyOK(in.topology) /\ EndsAre(in.topology, tally.flows)
  /\ IsList(tally.flows)

LEMMA GroundProperty ==
  ASSUME EngineInv, tally # <<>>
  PROVE  Ground
<1>1. /\ SolverInv /\ IsList(tally.flows) /\ net = Assemble(in.topology, tally.flows) /\ RowsHeld
      /\ AvailableFits(rows)
  BY DEF EngineInv, EvaluationInv, NetHeld, FlowsOK
<1>2. SlotsOK(in) /\ EndsOK(in.topology, tally.flows) /\ RowsOK(in, rows)
  BY <1>1, HeldFacts
<1>3. TypedCatalogs(in) /\ Derivable(in)
  BY <1>1 DEF RowsHeld
<1>4. TopologyOK(in.topology)
  BY <1>3, TopologyProperty
<1>5. IsList(in.topology.nodes) /\ IsList(in.topology.edges) /\ IsList(Slots(in.topology))
  BY <1>2, <1>3 DEF TypedCatalogs, SlotsOK
<1>6. EndsAre(in.topology, tally.flows)
  BY <1>1, <1>5, EndsHold
<1>7. net.nodes = Vertices(in.topology) /\ IsFiniteSet(net.nodes)
  BY <1>1, NodesFinite DEF Assemble, NetworkOf
<1>8. QED
  BY <1>1, <1>2, <1>4, <1>6, <1>7 DEF Ground

\* Each slot has the arc of its place.
LEMMA SlotArcs ==
  ASSUME Ground, NEW i \in DOMAIN Slots(in.topology)
  PROVE  /\ SlotArc(in.topology, Slots(in.topology)[i]) = 2 * i - 1 /\ 2 * i - 1 \in Forward(net)
         /\ net.tail[2 * i - 1] = SlotIn(Slots(in.topology)[i])
         /\ net.head[2 * i - 1] = SlotOut(Slots(in.topology)[i])
<1> DEFINE slots == Slots(in.topology)
           ends == Ends(in.topology, tally.flows)
<1>1. \A j \in DOMAIN slots : slots[j] = slots[i] => j = i
  BY DEF Ground, SlotsOK, Distinct
<1>2. SlotArc(in.topology, slots[i]) = 2 * i - 1
  BY <1>1 DEF SlotArc
<1>3. PICK n \in Nat, m \in Nat : DOMAIN ends = 1 .. n /\ DOMAIN slots = 1 .. m /\ m = Len(slots) /\ m <= n
  BY ListProperty DEF Ground, SlotsOK, EndsOK
<1>4. i \in DOMAIN ends /\ ~ i > Len(slots)
  BY <1>3
<1>5. ends[i] = <<SlotIn(slots[i]), SlotOut(slots[i])>>
  BY <1>4 DEF Ground, EndsOK
<1>6. 2 * i - 1 \in Forward(net) /\ net.tail[2 * i - 1] = ends[i][1] /\ net.head[2 * i - 1] = ends[i][2]
  BY <1>4, EndArcs DEF Ground
<1>7. QED
  BY <1>2, <1>5, <1>6

\* A forward arc is that of a slot, or of a link.
LEMMA ForwardArcs ==
  ASSUME Ground, NEW a \in Forward(net)
  PROVE  \/ \E i \in DOMAIN Slots(in.topology) : a = 2 * i - 1
         \/ <<net.tail[a], net.head[a]>> \in Links(in.topology, tally.flows)
<1> DEFINE slots == Slots(in.topology)
           ends == Ends(in.topology, tally.flows)
<1>1. a \in Arcs(net)
  BY DEF Forward
<1>2. PICK e \in DOMAIN ends : a = 2 * e - 1 /\ net.tail[a] = ends[e][1] /\ net.head[a] = ends[e][2]
  BY <1>1, ArcsOfProperty DEF Ground, ArcsOf
<1>3. PICK n \in Nat, m \in Nat : DOMAIN ends = 1 .. n /\ DOMAIN slots = 1 .. m /\ m = Len(slots) /\ m <= n
  BY ListProperty DEF Ground, SlotsOK, EndsOK
<1>4. CASE e \in DOMAIN slots
  BY <1>2, <1>4
<1>5. CASE e \notin DOMAIN slots
  <2>1. e > Len(slots)
    BY <1>3, <1>5
  <2>2. PICK p : p = ends[e] /\ p \in Links(in.topology, tally.flows)
    BY <2>1 DEF Ground, EndsAre
  <2>3. p = <<p[1], p[2]>>
    <3>1. NodeLink(in.topology, p) \/ EdgeLink(in.topology, p) \/ FlowLink(tally.flows, p)
      BY <2>2, LinkKinds
    <3>2. \E x, y : p = <<x, y>>
      BY <3>1 DEF NodeLink, EdgeLink, FlowLink
    <3>3. QED
      BY <3>2
  <2>4. QED
    BY <1>2, <2>2, <2>3
<1>6. QED
  BY <1>4, <1>5

\* And a link has a forward arc behind those of the slots.
LEMMA LinkArcs ==
  ASSUME Ground, NEW p \in Links(in.topology, tally.flows)
  PROVE  \E a \in Forward(net) : /\ net.tail[a] = p[1] /\ net.head[a] = p[2]
                                 /\ (a + 1) \div 2 > Len(Slots(in.topology))
<1> DEFINE ends == Ends(in.topology, tally.flows)
<1>1. PICK e \in DOMAIN ends : e > Len(Slots(in.topology)) /\ ends[e] = p
  BY DEF Ground, EndsAre
<1>2. PICK a : a = 2 * e - 1
  OBVIOUS
<1>3. a \in Forward(net) /\ net.tail[a] = ends[e][1] /\ net.head[a] = ends[e][2] /\ (a + 1) \div 2 = e
  BY <1>2, EndArcs DEF Ground
<1>4. QED
  BY <1>1, <1>3

\* Every edge begins at a node.
LEMMA EdgesBegin ==
  ASSUME Ground, NEW d \in EdgeSet(in.topology)
  PROVE  \E i \in DOMAIN in.topology.nodes : in.topology.nodes[i].id = d.from
<1>1. PICK t : t = in.topology
  OBVIOUS
<1>2. PICK j \in DOMAIN t.edges : d = t.edges[j]
  BY <1>1 DEF EdgeSet, Range
<1>3. PICK p : p = <<Out_(d.from), SlotIn(d.resource)>>
  OBVIOUS
<1>4. p \in Links(t, tally.flows) /\ p[1] = Out_(d.from)
  BY <1>2, <1>3, LinkKinds DEF LinksAre
<1>5. PICK a \in Forward(net) : net.tail[a] = p[1]
  BY <1>1, <1>4, LinkArcs
<1>6. net.tail[a] \in net.nodes
  BY PartnerProperty DEF Ground, SolverInv, NetworkOK, Forward
<1>7. Out_(d.from) \in Vertices(t)
  BY <1>1, <1>4, <1>5, <1>6 DEF Ground
<1>8. d.from \in Names(t)
  BY <1>7 DEF Vertices, In, Out_, SlotIn, SlotOut, SuperSource, SuperSink
<1>9. QED
  BY <1>1, <1>8 DEF Names, Identities, Field, Range

-----------------------------------------------------------------------------
(* What cuts weigh *)

\* A term is no more than the sum of what is not negative.
LEMMA TermBound ==
  ASSUME NEW S, IsFiniteSet(S), NEW f, \A x \in S : f[x] \in Nat, NEW y \in S
  PROVE  f[y] <= SumFunctionOnSet(f, S)
<1>1. IsFiniteSet({y}) /\ {y} \ {y} = {}
  BY FS_Singleton
<1>2. SumFunctionOnSet(f, {y}) = f[y]
  BY <1>1, SumSingle
<1> DEFINE p == [x \in {y} |-> x]
<1>3. p \in [{y} -> S] /\ (\A u, v \in {y} : p[u] = p[v] => u = v) /\ \A x \in {y} : f[x] \in Int /\ f[x] <= f[p[x]]
  OBVIOUS
<1> HIDE DEF p
<1>4. SumFunctionOnSet(f, {y}) <= SumFunctionOnSet(f, S)
  BY <1>1, <1>3, SumInjected
<1>5. QED
  BY <1>2, <1>4

\* The slots of a cut have a row each, with their units.
UnitsOK ==
  /\ IsFiniteSet(SlotSet) /\ DOMAIN UnitsOf = SlotSet
  /\ \A s \in SlotSet : /\ \E k \in DOMAIN rows : rows[k].resource = s /\ UnitsOf[s] = rows[k].available
                        /\ UnitsOf[s] \in Nat
  /\ \A k \in DOMAIN rows : rows[k].resource \in SlotSet => UnitsOf[rows[k].resource] = rows[k].available

LEMMA UnitsProperty ==
  ASSUME Ground
  PROVE  UnitsOK
<1>1. IsFiniteSet(SlotSet)
  BY RangeFinite DEF Ground, SlotsOK, SlotSet
<1>2. ASSUME NEW s \in SlotSet
      PROVE  \E k \in DOMAIN rows : rows[k].resource = s /\ RowOf(rows, s) = rows[k]
  <2>1. \E j \in DOMAIN in.resources.records : in.resources.records[j].id = s
    BY DEF Ground, SlotsOK, SlotSet, Range
  <2>2. \E k \in DOMAIN rows : rows[k].resource = s
    BY <2>1 DEF Ground, RowsOK
  <2>3. QED
    BY <2>2 DEF RowOf
<1>3. \A k \in DOMAIN rows : rows[k].available \in Nat
  BY DEF Ground, RowsOK, RowOK
<1>4. DOMAIN UnitsOf = SlotSet /\ \A s \in SlotSet : UnitsOf[s] = RowOf(rows, s).available
  BY DEF UnitsOf
<1>5. \A k, l \in DOMAIN rows : rows[k].resource = rows[l].resource => k = l
  BY DEF Ground, RowsOK
<1>6. ASSUME NEW s \in SlotSet
      PROVE  /\ \E k \in DOMAIN rows : rows[k].resource = s /\ UnitsOf[s] = rows[k].available
             /\ UnitsOf[s] \in Nat
  BY <1>2, <1>3, <1>4
<1>7. ASSUME NEW k \in DOMAIN rows, rows[k].resource \in SlotSet
      PROVE  UnitsOf[rows[k].resource] = rows[k].available
  BY <1>2, <1>4, <1>5, <1>7
<1>8. QED
  BY <1>1, <1>4, <1>6, <1>7 DEF UnitsOK

\* All units of all rows.
LEMMA AllUnits ==
  ASSUME Ground
  PROVE  /\ \A cut \in SUBSET SlotSet : Weigh(UnitsOf, cut) \in Nat /\ Weigh(UnitsOf, cut) <= AvailableTotal(rows)
         /\ \A k \in DOMAIN rows : rows[k].available \in Nat /\ rows[k].available <= AvailableTotal(rows)
         /\ AvailableTotal(rows) \in Nat
<1> DEFINE g == Units(rows)
           D == DOMAIN rows
<1>1. PICK n \in Nat : D = 1 .. n
  BY ListProperty DEF Ground, RowsOK
<1>2. \A k \in D : rows[k].available \in Nat
  BY DEF Ground, RowsOK, RowOK
<1>3. g \in [1 .. n -> Nat] /\ \A k \in D : g[k] = rows[k].available
  BY <1>1, <1>2 DEF Units, Field
<1>4. Fits(g)
  BY DEF Ground, AvailableFits, Units
<1>5. AvailableTotal(rows) = SumFunctionOnSet(g, D) /\ AvailableTotal(rows) \in Nat
  <2>1. AvailableTotal(rows) = Accumulated(g)
    BY DEF AvailableTotal, Sum, Units
  <2> HIDE DEF g
  <2>2. QED
    BY <1>1, <1>3, <1>4, <2>1, AccumulatedIsSum
<1>6. IsFiniteSet(D)
  <2>1. 1 \in Int /\ n \in Int
    OBVIOUS
  <2>2. QED
    BY <1>1, <2>1, FS_Interval
<1>7. \A k \in D : g[k] \in Nat
  BY <1>1, <1>3
<1>8. ASSUME NEW k \in D PROVE rows[k].available <= AvailableTotal(rows)
  <2> HIDE DEF g, D
  <2>1. g[k] <= SumFunctionOnSet(g, D)
    BY <1>6, <1>7, TermBound
  <2>2. QED
    BY <1>3, <1>5, <2>1
<1>9. UnitsOK
  BY UnitsProperty
<1>10. ASSUME NEW cut \in SUBSET SlotSet
       PROVE  Weigh(UnitsOf, cut) \in Nat /\ Weigh(UnitsOf, cut) <= AvailableTotal(rows)
  <2> DEFINE u == UnitsOf
             p == [s \in cut |-> CHOOSE k \in D : rows[k].resource = s /\ u[s] = rows[k].available]
  <2>1. IsFiniteSet(cut)
    BY <1>9, FS_Subset DEF UnitsOK
  <2>2. \A s \in cut : u[s] \in Nat /\ \E k \in D : rows[k].resource = s /\ u[s] = rows[k].available
    BY <1>9 DEF UnitsOK
  <2> HIDE DEF u, D, g
  <2>3. \A s \in cut : p[s] \in D /\ rows[p[s]].resource = s /\ u[s] = rows[p[s]].available
    BY <2>2
  <2>4. p \in [cut -> D]
    BY <2>3
  <2> HIDE DEF p
  <2>5. \A x, y \in cut : p[x] = p[y] => x = y
    BY <2>3
  <2>6. \A s \in cut : u[s] \in Int /\ u[s] <= g[p[s]]
    BY <1>3, <2>2, <2>3
  <2>7. SumFunctionOnSet(u, cut) <= SumFunctionOnSet(g, D)
    BY <1>6, <1>7, <2>1, <2>4, <2>5, <2>6, SumInjected
  <2>8. SumFunctionOnSet(u, cut) \in Nat
    <3> DEFINE z == [s \in cut |-> 0]
    <3>1. SumFunctionOnSet(z, cut) = 0
      <4>1. \A x \in cut : z[x] = 0
        OBVIOUS
      <4> HIDE DEF z
      <4>2. QED
        BY <2>1, <4>1, SumZero
    <3>2. SumFunctionOnSet(z, cut) <= SumFunctionOnSet(u, cut)
      <4>1. \A x \in cut : z[x] \in Int /\ u[x] \in Int /\ z[x] <= u[x]
        BY <2>2
      <4> HIDE DEF z
      <4>2. QED
        BY <2>1, <4>1, SumBound
    <3>3. SumFunctionOnSet(u, cut) \in Int
      BY <2>1, <2>6, SumPick
    <3> HIDE DEF z
    <3>4. QED
      BY <3>1, <3>2, <3>3
  <2>9. QED
    BY <1>5, <2>7, <2>8 DEF Weigh, u
<1>11. QED
  BY <1>2, <1>5, <1>8, <1>10

\* What crosses a set of arcs is no more than the slots that bound it.
LEMMA CutWeight ==
  ASSUME SolverInv, NEW C \in SUBSET Arcs(net), NEW cut, IsFiniteSet(cut), NEW u, NEW q,
         \A s \in cut : u[s] \in Nat,
         \A a \in C : flow[a] <= 0 \/ \E s \in cut : a = q[s] /\ flow[a] <= u[s]
  PROVE  SumFunctionOnSet(flow, C) <= SumFunctionOnSet(u, cut)
<1> DEFINE O == {a \in C : \E s \in cut : a = q[s] /\ flow[a] <= u[s]}
           h == [a \in C |-> IF a \in O THEN flow[a] ELSE 0]
           p == [a \in O |-> CHOOSE s \in cut : a = q[s] /\ flow[a] <= u[s]]
<1>1. IsFiniteSet(C) /\ IsFiniteSet(O) /\ O \in SUBSET C /\ \A a \in C : flow[a] \in Int
  <2>1. O \in SUBSET Arcs(net)
    OBVIOUS
  <2>2. QED
    BY <2>1, ArcsFinite
<1>2. \A a \in C : flow[a] <= h[a] /\ h[a] \in Int
  <2>1. TAKE a \in C
  <2>2. CASE a \in O
    BY <1>1, <2>2
  <2>3. CASE a \notin O
    BY <1>1, <2>3
  <2>4. QED
    BY <2>2, <2>3
<1>3. SumFunctionOnSet(flow, C) <= SumFunctionOnSet(h, C)
  <2> HIDE DEF h, O
  <2>1. QED
    BY <1>1, <1>2, SumBound
<1>4. SumFunctionOnSet(flow, O) = SumFunctionOnSet(h, C)
  <2>1. (\A x \in O : flow[x] \in Int /\ h[x] = flow[x]) /\ (\A x \in C \ O : h[x] = 0)
    BY <1>1
  <2> HIDE DEF h, O
  <2>2. QED
    BY <1>1, <2>1, SumWhere
<1>5. \A a \in O : p[a] \in cut /\ a = q[p[a]] /\ flow[a] <= u[p[a]]
  OBVIOUS
<1> HIDE DEF p
<1>6. p \in [O -> cut]
  <2>1. p = [a \in O |-> p[a]]
    BY DEF p
  <2> HIDE DEF O
  <2>2. QED
    BY <1>5, <2>1
<1>7. \A a, b \in O : p[a] = p[b] => a = b
  <2> HIDE DEF O
  <2>1. QED
    BY <1>5
<1>8. SumFunctionOnSet(flow, O) <= SumFunctionOnSet(u, cut)
  <2>1. \A a \in O : flow[a] \in Int /\ flow[a] <= u[p[a]]
    BY <1>1, <1>5
  <2> HIDE DEF O
  <2>2. QED
    BY <1>1, <1>6, <1>7, <2>1, SumInjected
<1>9. QED
  <2> HIDE DEF O, h
  <2>1. \A s \in cut : u[s] \in Int
    OBVIOUS
  <2>2. SumFunctionOnSet(flow, C) \in Int /\ SumFunctionOnSet(h, C) \in Int /\ SumFunctionOnSet(u, cut) \in Int
    BY <1>1, <1>2, <2>1, SumPick
  <2>3. QED
    BY <1>3, <1>4, <1>8, <2>2

-----------------------------------------------------------------------------
(* A cut of slots as a set of nodes, from which no more flows *)

\* The nodes a walk that avoids the cut gets to.
Side(N, L, A, E, T) ==
  {v \in N : \/ v = SuperSource
             \/ \E x \in L : v = Out_(x)
             \/ \E x \in A : v = In(x)
             \/ \E s \in E : v = SlotIn(s)
             \/ \E s \in T : v = SlotOut(s)}

LEMMA SideProperty ==
  ASSUME NEW N, NEW L, NEW A, NEW E, NEW T
  PROVE  /\ SuperSink \notin Side(N, L, A, E, T)
         /\ \A x : Out_(x) \in Side(N, L, A, E, T) => x \in L
         /\ \A x : In(x) \in Side(N, L, A, E, T) => x \in A
         /\ \A s : SlotIn(s) \in Side(N, L, A, E, T) => s \in E
         /\ \A s : SlotOut(s) \in Side(N, L, A, E, T) => s \in T
         /\ \A v \in N : \/ v = SuperSource
                         \/ \E x \in L : v = Out_(x)
                         \/ \E x \in A : v = In(x)
                         \/ \E s \in E : v = SlotIn(s)
                         \/ \E s \in T : v = SlotOut(s)
              => v \in Side(N, L, A, E, T)
BY DEF Side, In, Out_, SlotIn, SlotOut, SuperSource, SuperSink

\* What a walk that avoids a set of slots gets to, as nodes.
Met(t, W, X) == {e.to : e \in W \cap Usable_E(t, X)}
Through(t, sources, W, X) ==
  sources \cup {t.nodes[i].id : i \in {j \in DOMAIN t.nodes : /\ t.nodes[j].id \in Met(t, W, X)
                                                              /\ t.nodes[j].transit \notin X}}
Entered(t, sources, W, X) ==
  {t.nodes[i].transit : i \in {j \in Transits(t.nodes) : t.nodes[j].id \in Met(t, W, X)}}
    \cup {t.edges[i].resource : i \in {j \in DOMAIN t.edges : t.edges[j].from \in Through(t, sources, W, X)}}
Beyond(N, t, sources, W, X) ==
  Side(N, Through(t, sources, W, X), Met(t, W, X), Entered(t, sources, W, X),
       Entered(t, sources, W, X) \ X)

\* No link leads out of them.
LEMMA LinksStay ==
  ASSUME NEW t, TopologyOK(t), NEW flows, NEW sources, NEW sinks, NEW X,
         \A i \in DOMAIN flows : flows[i].source \in sources /\ flows[i].sink \in sinks,
         NEW W, WalkedOK(t, sources, X, W), None \notin X, \A e \in W : e.to \notin sinks,
         NEW N, NEW p \in Links(t, flows), p[1] \in Beyond(N, t, sources, W, X), p[2] \in N
  PROVE  p[2] \in Beyond(N, t, sources, W, X)
<1> DEFINE S == Beyond(N, t, sources, W, X)
           L == Through(t, sources, W, X)
           A == Met(t, W, X)
           E == Entered(t, sources, W, X)
<1>1. /\ \A x : Out_(x) \in S => x \in L
      /\ \A x : In(x) \in S => x \in A
      /\ \A s : SlotOut(s) \in S => s \in E \ X
  BY SideProperty DEF Beyond
<1>2. /\ \A x \in L : p[2] = Out_(x) => p[2] \in S
      /\ \A x \in A : p[2] = In(x) => p[2] \in S
      /\ \A s \in E : p[2] = SlotIn(s) => p[2] \in S
  BY SideProperty DEF Beyond
<1>3. \A i \in DOMAIN t.nodes : t.nodes[i].id \in A /\ t.nodes[i].transit \notin X => t.nodes[i].id \in L
  BY DEF Through
<1>4. \A i \in Transits(t.nodes) : t.nodes[i].id \in A => t.nodes[i].transit \in E
  BY DEF Entered
<1>5. \A i \in DOMAIN t.edges : t.edges[i].from \in L => t.edges[i].resource \in E
  BY DEF Entered
<1>6. ASSUME NEW i \in Transits(t.nodes), t.nodes[i].transit \in E PROVE t.nodes[i].id \in A
  <2>1. PICK j \in Transits(t.nodes) : t.nodes[j].id \in A /\ t.nodes[j].transit = t.nodes[i].transit
    BY <1>6 DEF Entered, TopologyOK
  <2>2. QED
    BY <2>1 DEF TopologyOK
<1>7. ASSUME NEW i \in DOMAIN t.edges, t.edges[i].resource \in E PROVE t.edges[i].from \in L
  <2>1. PICK j \in DOMAIN t.edges : t.edges[j].from \in L /\ t.edges[j].resource = t.edges[i].resource
    BY <1>7 DEF Entered, TopologyOK
  <2>2. QED
    BY <2>1 DEF TopologyOK
<1>8. ASSUME NEW i \in DOMAIN t.edges, t.edges[i].resource \in E \ X PROVE t.edges[i].to \in A
  <2>1. PICK d : d = t.edges[i] /\ d \in Usable_E(t, X)
    BY <1>8 DEF Usable_E, EdgeSet, Range
  <2>2. d.from \in L
    BY <1>7, <1>8, <2>1
  <2>3. d \in W
    <3>1. CASE d.from \in sources
      BY <2>1, <3>1 DEF WalkedOK
    <3>2. CASE d.from \notin sources
      <4>1. PICK j \in DOMAIN t.nodes : t.nodes[j].id = d.from /\ d.from \in A /\ t.nodes[j].transit \notin X
        BY <2>2, <3>2 DEF Through
      <4>2. TransitOf(t, d.from) \notin X
        BY <4>1 DEF TopologyOK
      <4>3. PICK e \in W \cap Usable_E(t, X) : e.to = d.from
        BY <4>1 DEF Met
      <4>4. QED
        BY <2>1, <4>2, <4>3 DEF WalkedOK, Onto
    <3>3. QED
      BY <3>1, <3>2
  <2>4. QED
    BY <2>1, <2>3 DEF Met
<1>9. \A x \in A : x \notin sinks
  BY DEF Met
<1>10. \A i \in DOMAIN flows : flows[i].source \in L /\ flows[i].sink \in sinks
  BY DEF Through
<1>16. p[1] \in S
  OBVIOUS
<1>17. SUFFICES p[2] \in S
  OBVIOUS
<1> HIDE DEF L, A, E, S
<1>11. CASE NodeLink(t, p)
  <2>1. PICK i \in DOMAIN t.nodes :
          \/ t.nodes[i].transit = None /\ p = <<In(t.nodes[i].id), Out_(t.nodes[i].id)>>
          \/ /\ t.nodes[i].transit # None
             /\ \/ p = <<In(t.nodes[i].id), SlotIn(t.nodes[i].transit)>>
                \/ p = <<SlotOut(t.nodes[i].transit), Out_(t.nodes[i].id)>>
    BY <1>11 DEF NodeLink
  <2>2. CASE t.nodes[i].transit = None /\ p = <<In(t.nodes[i].id), Out_(t.nodes[i].id)>>
    BY <1>16, <1>1, <1>2, <1>3, <2>2
  <2>3. CASE t.nodes[i].transit # None /\ p = <<In(t.nodes[i].id), SlotIn(t.nodes[i].transit)>>
    BY <1>16, <1>1, <1>2, <1>4, <2>3 DEF Transits
  <2>4. CASE t.nodes[i].transit # None /\ p = <<SlotOut(t.nodes[i].transit), Out_(t.nodes[i].id)>>
    <3>1. t.nodes[i].transit \in E \ X /\ i \in Transits(t.nodes)
      BY <1>16, <1>1, <2>4 DEF Transits
    <3>2. t.nodes[i].id \in L
      BY <1>3, <1>6, <3>1
    <3>3. QED
      BY <1>16, <1>2, <2>4, <3>2
  <2>5. QED
    BY <2>1, <2>2, <2>3, <2>4
<1>12. CASE EdgeLink(t, p)
  <2>1. PICK i \in DOMAIN t.edges :
          \/ p = <<Out_(t.edges[i].from), SlotIn(t.edges[i].resource)>>
          \/ p = <<SlotOut(t.edges[i].resource), In(t.edges[i].to)>>
    BY <1>12 DEF EdgeLink
  <2>2. CASE p = <<Out_(t.edges[i].from), SlotIn(t.edges[i].resource)>>
    BY <1>16, <1>1, <1>2, <1>5, <2>2
  <2>3. CASE p = <<SlotOut(t.edges[i].resource), In(t.edges[i].to)>>
    <3>1. t.edges[i].resource \in E \ X
      BY <1>16, <1>1, <2>3
    <3>2. t.edges[i].to \in A
      BY <1>8, <3>1
    <3>3. QED
      BY <1>16, <1>2, <2>3, <3>2
  <2>4. QED
    BY <2>1, <2>2, <2>3
<1>13. CASE FlowLink(flows, p)
  <2>1. PICK i \in DOMAIN flows :
          p = <<SuperSource, Out_(flows[i].source)>> \/ p = <<In(flows[i].sink), SuperSink>>
    BY <1>13 DEF FlowLink
  <2>2. CASE p = <<SuperSource, Out_(flows[i].source)>>
    BY <1>16, <1>2, <1>10, <2>2
  <2>3. CASE p = <<In(flows[i].sink), SuperSink>>
    BY <1>16, <1>1, <1>9, <1>10, <2>3
  <2>4. QED
    BY <2>1, <2>2, <2>3
<1>14. QED
  BY <1>11, <1>12, <1>13, LinkKinds

\* What flows from the source of all is no more than what a cut weighs.
LEMMA WeakDuality ==
  ASSUME EngineInv, tally # <<>>, Off(SuperEnds), NEW lost \in SUBSET SlotSet, Capped(in, cap, rows, lost),
         NEW cut \in Separating(in.topology, Sources, Sinks, lost)
  PROVE  Leaving(SuperSource) <= Weigh(UnitsOf, cut)
<1> DEFINE t == in.topology
           X == cut \cup lost
           W == Walked(t, Sources, X)
           N == net.nodes
           E == Entered(t, Sources, W, X)
           S == Beyond(N, t, Sources, W, X)
           C == Cut(S)
           q == [s \in cut |-> SlotArc(t, s)]
<1>1. Ground /\ SolverInv /\ UnitsOK
  BY GroundProperty, UnitsProperty DEF Ground
<1>2. cut \in SUBSET SlotSet /\ cut \cap lost = {} /\ ~ Joins(t, Sources, Sinks, X)
  BY DEF Separating, SlotSet
<1>3. \A e \in W : e.to \notin Sinks
  BY <1>2 DEF Joins
<1>4. TopologyOK(t) /\ SlotSet = Range(Slots(t)) /\ None \notin X
  BY <1>1, <1>2 DEF Ground, TopologyOK, SlotSet
<1>5. WalkedOK(t, Sources, X, W)
  <2> HIDE DEF t, X
  <2>1. QED
    BY <1>4, WalkedProperty
<1>6. ASSUME NEW p \in Links(t, tally.flows), p[1] \in S, p[2] \in N PROVE p[2] \in S
  <2>1. \A i \in DOMAIN tally.flows : tally.flows[i].source \in Sources /\ tally.flows[i].sink \in Sinks
    BY DEF Sources, Sinks
  <2> HIDE DEF t, X, W, N
  <2>2. QED
    BY <1>3, <1>4, <1>5, <1>6, <2>1, LinksStay
<1>7. /\ S \in SUBSET N /\ SuperSource \in S /\ SuperSink \notin S
      /\ \A s : SlotIn(s) \in S => s \in E
      /\ \A s : s \in E \ X /\ SlotOut(s) \in N => SlotOut(s) \in S
  <2>1. SuperSource \in N
    BY <1>1 DEF Ground, Vertices
  <2>2. S \in SUBSET N
    BY DEF Beyond, Side
  <2>3. PICK A, L, T : S = Side(N, L, A, E, T) /\ T = E \ X
    BY DEF Beyond
  <2> HIDE DEF N, E, X, W, S
  <2>4. /\ SuperSink \notin S /\ SuperSource \in S
        /\ \A s : SlotIn(s) \in S => s \in E
        /\ \A s \in T : SlotOut(s) \in N => SlotOut(s) \in S
    BY <2>1, <2>3, SideProperty
  <2>5. QED
    BY <2>2, <2>3, <2>4
<1> HIDE DEF S, E, W
<1>8. IsFiniteSet(S) /\ \A v \in S \ {SuperSource} : Leaving(v) = 0
  BY <1>1, <1>7, FS_Subset DEF Ground, Off, SuperEnds
<1>9. Leaving(SuperSource) = SumFunctionOnSet(flow, C)
  BY <1>1, <1>7, <1>8, CutProperty
<1>10. C \in SUBSET Arcs(net) /\ \A a \in C : net.tail[a] \in S /\ net.head[a] \notin S
  BY DEF Cut, From
<1>11. \A a \in Arcs(net) : net.head[a] \in N /\ flow[a] \in Int /\ cap[a] \in Int /\ flow[a] <= cap[a]
                            /\ (a \notin Forward(net) => cap[a] = 0)
  <2>1. \A a \in Arcs(net) : net.head[a] \in N
    BY <1>1, PartnerProperty DEF SolverInv, NetworkOK
  <2>2. QED
    BY <1>1, <2>1, CheckedAssumption DEF SolverInv, NetworkOK, Capacitated, FlowIsFeasible
<1>12. ASSUME NEW a \in C PROVE flow[a] <= 0 \/ \E s \in cut : a = q[s] /\ flow[a] <= UnitsOf[s]
  <2>1. a \in Arcs(net)
    BY <1>10
  <2>2. CASE a \notin Forward(net)
    BY <1>11, <2>1, <2>2
  <2>3. CASE a \in Forward(net)
    <3>1. <<net.tail[a], net.head[a]>> \notin Links(t, tally.flows)
      <4>1. SUFFICES ASSUME <<net.tail[a], net.head[a]>> \in Links(t, tally.flows) PROVE FALSE
        OBVIOUS
      <4>2. PICK p : p = <<net.tail[a], net.head[a]>>
        OBVIOUS
      <4>5. p[1] = net.tail[a] /\ p[2] = net.head[a]
        BY <4>2
      <4>3. p[1] \in S /\ p[2] \in N /\ p[2] \notin S
        BY <1>10, <1>11, <2>1, <4>5
      <4>4. QED
        BY <1>6, <4>1, <4>2, <4>3
    <3>2. PICK i \in DOMAIN Slots(t) : a = 2 * i - 1
      BY <1>1, <2>3, <3>1, ForwardArcs
    <3>3. PICK s : s = Slots(t)[i] /\ s \in SlotSet
      BY <1>4, <3>2 DEF Range
    <3>4. SlotArc(t, s) = a /\ net.tail[a] = SlotIn(s) /\ net.head[a] = SlotOut(s)
      BY <1>1, <3>2, <3>3, SlotArcs
    <3>5. s \in E /\ SlotOut(s) \in N /\ SlotOut(s) \notin S
      BY <1>7, <1>10, <1>11, <2>1, <3>4
    <3>6. s \in X
      <4> HIDE DEF X
      <4>1. QED
        BY <1>7, <3>5
    <3>7. CASE s \in lost
      <4>1. cap[a] = 0
        BY <3>2, <3>3, <3>7 DEF Capped
      <4>2. QED
        BY <1>11, <2>1, <4>1
    <3>8. CASE s \in cut /\ s \notin lost
      <4>1. PICK k \in DOMAIN rows : rows[k].resource = s /\ cap[a] = rows[k].available
        BY <3>2, <3>3, <3>8 DEF Capped
      <4>2. UnitsOf[s] = cap[a]
        BY <1>1, <3>3, <4>1 DEF UnitsOK
      <4>3. a = q[s]
        BY <3>4, <3>8
      <4>4. QED
        BY <1>11, <2>1, <3>8, <4>2, <4>3
    <3>9. QED
      BY <3>6, <3>7, <3>8
  <2>4. QED
    BY <2>2, <2>3
<1>13. IsFiniteSet(cut) /\ \A s \in cut : UnitsOf[s] \in Nat
  BY <1>1, <1>2, FS_Subset DEF UnitsOK
<1>14. SumFunctionOnSet(flow, C) <= SumFunctionOnSet(UnitsOf, cut)
  <2>1. PICK u : u = UnitsOf
    OBVIOUS
  <2> HIDE DEF q, C
  <2>2. \A s \in cut : u[s] \in Nat
    BY <1>13, <2>1
  <2>3. \A a \in C : flow[a] <= 0 \/ \E s \in cut : a = q[s] /\ flow[a] <= u[s]
    BY <1>12, <2>1
  <2>4. SumFunctionOnSet(flow, C) <= SumFunctionOnSet(u, cut)
    BY <1>1, <1>10, <1>13, <2>2, <2>3, CutWeight
  <2>5. QED
    BY <2>1, <2>4
<1>15. QED
  BY <1>9, <1>14 DEF Weigh

-----------------------------------------------------------------------------
(* A full cut of nodes as a cut of slots *)

\* Behind the slots arcs take whatever there is.
Filled(t, rs, c) ==
  \A a \in Forward(net) : (a + 1) \div 2 > Len(Slots(t)) => c[a] = Infinity(rs)

\* A set of nodes that no more can leave.
Full(R) ==
  /\ R \in SUBSET net.nodes
  /\ \A a \in Cut(R) : Residual(a) = 0

\* It holds the sources, or the source of all, and no sink.
Parts(R, source) ==
  /\ source \in R
  /\ \/ source = SuperSource /\ SuperSink \notin R
     \/ (\A x \in Sources : Out_(x) \in R) /\ (\A x \in Sinks : In(x) \notin R)

\* When what is available can be signed, so can every capacity.
LEMMA CapacitiesSigned ==
  ASSUME Ground, Representable, NEW lost, Capped(in, cap, rows, lost), Filled(in.topology, rows, cap),
         NEW a \in Arcs(net)
  PROVE  cap[a] \in Nat /\ cap[a] <= I64Max
<1>1. AvailableTotal(rows) \in Nat /\ AvailableTotal(rows) <= I64Max
      /\ \A k \in DOMAIN rows : rows[k].available \in Nat /\ rows[k].available <= AvailableTotal(rows)
  BY AllUnits DEF Representable
<1>2. Infinity(rows) \in Nat /\ Infinity(rows) <= I64Max
  BY <1>1, CheckedAssumption DEF Infinity
<1>3. CASE a \notin Forward(net)
  BY <1>3, CheckedAssumption DEF Ground, SolverInv, NetworkOK, Capacitated
<1>4. CASE a \in Forward(net)
  <2>1. CASE (a + 1) \div 2 > Len(Slots(in.topology))
    BY <1>2, <1>4, <2>1 DEF Filled
  <2>2. CASE ~ (a + 1) \div 2 > Len(Slots(in.topology))
    <3>1. PICK e \in DOMAIN Ends(in.topology, tally.flows) : a = 2 * e - 1
      BY <1>4, ArcsOfProperty DEF Ground, ArcsOf
    <3>2. PICK n \in Nat, m \in Nat : /\ DOMAIN Ends(in.topology, tally.flows) = 1 .. n
                                      /\ DOMAIN Slots(in.topology) = 1 .. m /\ m = Len(Slots(in.topology))
      BY ListProperty DEF Ground, SlotsOK, EndsOK
    <3>3. e \in Nat /\ (a + 1) \div 2 = e
      BY <3>1, <3>2
    <3>4. e \in DOMAIN Slots(in.topology)
      BY <2>2, <3>2, <3>3
    <3>5. cap[a] = 0 \/ \E k \in DOMAIN rows : cap[a] = rows[k].available
      BY <3>1, <3>4 DEF Capped
    <3>6. cap[a] = 0 \/ (cap[a] \in Nat /\ cap[a] <= AvailableTotal(rows))
      BY <1>1, <3>5
    <3>7. QED
      BY <1>1, <3>6, CheckedAssumption
  <2>3. QED
    BY <2>1, <2>2
<1>5. QED
  BY <1>3, <1>4

\* What leaves a set that no more can leave fills every arc.
LEMMA FullFlow ==
  ASSUME Ground, Representable, NEW lost, Capped(in, cap, rows, lost), Filled(in.topology, rows, cap),
         NEW R, Full(R), NEW a \in Cut(R)
  PROVE  flow[a] = cap[a] /\ flow[a] \in Nat
<1>1. a \in Arcs(net) /\ Residual(a) = 0
  BY DEF Full, Cut, From
<1>2. cap[a] \in Nat /\ cap[a] <= I64Max
  BY <1>1, CapacitiesSigned
<1>3. flow[a] \in Int /\ flow[a] <= cap[a]
  BY <1>1 DEF Ground, SolverInv, NetworkOK, FlowIsFeasible
<1>4. Signed(cap[a]) = cap[a]
  BY <1>2, CheckedAssumption DEF Signed
<1>5. ~ cap[a] > flow[a]
  BY <1>1, <1>2, <1>3, <1>4 DEF Residual, ResidualOf
<1>6. QED
  BY <1>2, <1>3, <1>5

\* All slots separate the sinks from the sources.
LEMMA AllSeparate ==
  ASSUME Ground, NEW lost \in SUBSET SlotSet
  PROVE  SlotSet \ lost \in Separating(in.topology, Sources, Sinks, lost)
<1>1. PICK t : t = in.topology
  OBVIOUS
<1>2. PICK X : X = (SlotSet \ lost) \cup lost /\ X = SlotSet
  OBVIOUS
<1>3. TopologyOK(t) /\ SlotSet = Range(Slots(t))
  BY <1>1 DEF Ground, SlotSet
<1>4. WalkedOK(t, Sources, X, Walked(t, Sources, X))
  BY <1>3, WalkedProperty
<1>5. Usable_E(t, X) = {}
  <2>1. \A e \in EdgeSet(t) : e.resource \in X
    BY <1>2, <1>3 DEF EdgeSet, TopologyOK, Range
  <2>2. QED
    BY <2>1 DEF Usable_E
<1>6. Walked(t, Sources, X) \subseteq {}
  <2>1. {} \in SUBSET EdgeSet(t)
    OBVIOUS
  <2>2. QED
    BY <1>4, <1>5, <2>1 DEF WalkedOK
<1>7. ~ Joins(t, Sources, Sinks, X)
  BY <1>6 DEF Joins
<1>8. QED
  BY <1>1, <1>2, <1>3, <1>7 DEF Separating

\* The slots that lead out of a set of nodes.
Bounding(R, lost) == {s \in SlotSet \ lost : SlotIn(s) \in R /\ SlotOut(s) \notin R}

\* They separate the sinks from the sources when no link leads out.
LEMMA BoundSeparates ==
  ASSUME Ground, NEW lost \in SUBSET SlotSet, NEW R, NEW source, Parts(R, source),
         \A p \in Links(in.topology, tally.flows) : p[1] \in R => p[2] \in R
  PROVE  Bounding(R, lost) \in Separating(in.topology, Sources, Sinks, lost)
<1>1. PICK t : t = in.topology
  OBVIOUS
<1>2. PICK cut, X : cut = Bounding(R, lost) /\ X = cut \cup lost
  OBVIOUS
<1>3. TopologyOK(t) /\ SlotSet = Range(Slots(t)) /\ SolverInv
  BY <1>1 DEF Ground, SlotSet
<1>4. LinksAre(t, tally.flows)
  BY LinkKinds
<1>5. (\A x \in Sources : Out_(x) \in R) /\ (\A x \in Sinks : In(x) \notin R)
  <2>1. CASE source = SuperSource /\ SuperSink \notin R
    <3>1. ASSUME NEW x \in Sources PROVE Out_(x) \in R
      <4>1. PICK i \in DOMAIN tally.flows : x = tally.flows[i].source
        BY DEF Sources
      <4>2. PICK p : p = <<SuperSource, Out_(x)>>
        OBVIOUS
      <4>3. p \in Links(t, tally.flows) /\ p[1] = SuperSource /\ p[2] = Out_(x)
        BY <1>4, <4>1, <4>2 DEF LinksAre
      <4>4. QED
        BY <1>1, <2>1, <4>3 DEF Parts
    <3>2. ASSUME NEW x \in Sinks PROVE In(x) \notin R
      <4>1. PICK i \in DOMAIN tally.flows : x = tally.flows[i].sink
        BY DEF Sinks
      <4>2. PICK p : p = <<In(x), SuperSink>>
        OBVIOUS
      <4>3. p \in Links(t, tally.flows) /\ p[1] = In(x) /\ p[2] = SuperSink
        BY <1>4, <4>1, <4>2 DEF LinksAre
      <4>4. QED
        BY <1>1, <2>1, <4>3
    <3>3. QED
      BY <3>1, <3>2
  <2>2. QED
    BY <2>1 DEF Parts
<1>6. ASSUME NEW s \in SlotSet, s \notin X, SlotIn(s) \in R PROVE SlotOut(s) \in R
  BY <1>2, <1>6 DEF Bounding
<1>7. ASSUME NEW d \in EdgeSet(t), d.resource \notin X, Out_(d.from) \in R PROVE In(d.to) \in R
  <2>1. PICK i \in DOMAIN t.edges : d = t.edges[i]
    BY DEF EdgeSet, Range
  <2>2. d.resource \in SlotSet
    BY <1>3, <2>1 DEF TopologyOK
  <2>3. PICK p : p = <<Out_(d.from), SlotIn(d.resource)>>
    OBVIOUS
  <2>4. p \in Links(t, tally.flows) /\ p[1] = Out_(d.from) /\ p[2] = SlotIn(d.resource)
    BY <1>4, <2>1, <2>3 DEF LinksAre
  <2>5. SlotOut(d.resource) \in R
    BY <1>1, <1>6, <1>7, <2>2, <2>4
  <2>6. PICK q : q = <<SlotOut(d.resource), In(d.to)>>
    OBVIOUS
  <2>7. q \in Links(t, tally.flows) /\ q[1] = SlotOut(d.resource) /\ q[2] = In(d.to)
    BY <1>4, <2>1, <2>6 DEF LinksAre
  <2>8. QED
    BY <1>1, <2>5, <2>7
<1>8. ASSUME NEW i \in DOMAIN t.nodes, t.nodes[i].transit \notin X, In(t.nodes[i].id) \in R
      PROVE  Out_(t.nodes[i].id) \in R
  <2>1. CASE t.nodes[i].transit = None
    <3>1. PICK p : p = <<In(t.nodes[i].id), Out_(t.nodes[i].id)>>
      OBVIOUS
    <3>2. p \in Links(t, tally.flows) /\ p[1] = In(t.nodes[i].id) /\ p[2] = Out_(t.nodes[i].id)
      BY <1>4, <2>1, <3>1 DEF LinksAre
    <3>3. QED
      BY <1>1, <1>8, <3>2
  <2>2. CASE t.nodes[i].transit # None
    <3>1. PICK s : s = t.nodes[i].transit
      OBVIOUS
    <3>2. s \in SlotSet /\ s \notin X
      BY <1>3, <1>8, <2>2, <3>1 DEF TopologyOK, Transits
    <3>3. PICK p : p = <<In(t.nodes[i].id), SlotIn(s)>>
      OBVIOUS
    <3>4. p \in Links(t, tally.flows) /\ p[1] = In(t.nodes[i].id) /\ p[2] = SlotIn(s)
      BY <1>4, <2>2, <3>1, <3>3 DEF LinksAre
    <3>5. SlotOut(s) \in R
      BY <1>1, <1>6, <1>8, <3>2, <3>4
    <3>6. PICK q : q = <<SlotOut(s), Out_(t.nodes[i].id)>>
      OBVIOUS
    <3>7. q \in Links(t, tally.flows) /\ q[1] = SlotOut(s) /\ q[2] = Out_(t.nodes[i].id)
      BY <1>4, <2>2, <3>1, <3>6 DEF LinksAre
    <3>8. QED
      BY <1>1, <3>5, <3>7
  <2>3. QED
    BY <2>1, <2>2
<1>9. \A d \in EdgeSet(t) : \E i \in DOMAIN t.nodes : t.nodes[i].id = d.from
  BY <1>1, EdgesBegin
<1> DEFINE C == {e \in EdgeSet(t) : In(e.to) \in R}
<1>10. \A d \in Usable_E(t, X) : d.from \in Sources => d \in C
  BY <1>5, <1>7 DEF Usable_E
<1>11. ASSUME NEW e \in C, NEW d \in Usable_E(t, X), Onto(t, X, e, d) PROVE d \in C
  <2>1. PICK i \in DOMAIN t.nodes : t.nodes[i].id = d.from
    BY <1>9 DEF Usable_E
  <2>2. t.nodes[i].transit \notin X /\ In(t.nodes[i].id) \in R
    BY <1>3, <1>11, <2>1 DEF Onto, TopologyOK
  <2>3. Out_(d.from) \in R
    BY <1>8, <2>1, <2>2
  <2>4. QED
    BY <1>7, <2>3 DEF Usable_E
<1>12. WalkedOK(t, Sources, X, Walked(t, Sources, X))
  BY <1>3, WalkedProperty
<1>13. Walked(t, Sources, X) \subseteq C
  <2>1. C \in SUBSET EdgeSet(t)
    OBVIOUS
  <2> HIDE DEF C
  <2>2. QED
    BY <1>10, <1>11, <1>12, <2>1 DEF WalkedOK
<1>14. ~ Joins(t, Sources, Sinks, X)
  BY <1>5, <1>13 DEF Joins
<1>15. cut \in SUBSET (Range(Slots(t)) \ lost)
  BY <1>2, <1>3 DEF Bounding
<1>16. QED
  BY <1>1, <1>2, <1>14, <1>15 DEF Separating

\* And weigh no more than what leaves.
LEMMA BoundWeighs ==
  ASSUME Ground, Representable, NEW lost \in SUBSET SlotSet, Capped(in, cap, rows, lost),
         Filled(in.topology, rows, cap), NEW R, Full(R)
  PROVE  Weigh(UnitsOf, Bounding(R, lost)) <= SumFunctionOnSet(flow, Cut(R))
<1> DEFINE C == Cut(R)
           cut == Bounding(R, lost)
           p == [s \in cut |-> SlotArc(in.topology, s)]
<1>1. UnitsOK /\ SolverInv
  BY UnitsProperty DEF Ground
<1>2. IsFiniteSet(cut) /\ cut \in SUBSET SlotSet
  BY <1>1, FS_Subset DEF Bounding, UnitsOK
<1>3. IsFiniteSet(C) /\ \A a \in C : flow[a] = cap[a] /\ flow[a] \in Nat
  <2>1. C \in SUBSET Arcs(net)
    BY DEF Cut, From
  <2>2. IsFiniteSet(C)
    BY <1>1, <2>1, ArcsFinite
  <2>3. QED
    BY <2>2, FullFlow
<1>4. ASSUME NEW s \in cut
      PROVE  \E i \in DOMAIN Slots(in.topology) :
               /\ s = Slots(in.topology)[i] /\ p[s] = 2 * i - 1 /\ p[s] \in C /\ UnitsOf[s] = cap[p[s]]
  <2>1. PICK i \in DOMAIN Slots(in.topology) : s = Slots(in.topology)[i]
    BY <1>2 DEF SlotSet, Range
  <2>2. /\ p[s] = 2 * i - 1 /\ p[s] \in Forward(net)
        /\ net.tail[p[s]] = SlotIn(s) /\ net.head[p[s]] = SlotOut(s)
    BY <2>1, SlotArcs
  <2>3. SlotIn(s) \in R /\ SlotOut(s) \notin R /\ s \notin lost
    BY DEF Bounding
  <2>4. p[s] \in C
    BY <2>2, <2>3 DEF Cut, From, Forward
  <2>5. PICK k \in DOMAIN rows : rows[k].resource = s /\ cap[2 * i - 1] = rows[k].available
    BY <2>1, <2>3 DEF Capped
  <2>6. UnitsOf[s] = rows[k].available
    BY <1>1, <1>2, <2>5 DEF UnitsOK
  <2>7. QED
    BY <2>1, <2>2, <2>4, <2>5, <2>6
<1> HIDE DEF p, cut, C
<1>5. p \in [cut -> C]
  <2>1. p = [s \in cut |-> p[s]]
    BY DEF p
  <2>2. QED
    BY <1>4, <2>1
<1>6. \A x, y \in cut : p[x] = p[y] => x = y
  <2>1. TAKE x, y \in cut
  <2>2. PICK i \in DOMAIN Slots(in.topology) : x = Slots(in.topology)[i] /\ p[x] = 2 * i - 1
    BY <1>4
  <2>3. PICK j \in DOMAIN Slots(in.topology) : y = Slots(in.topology)[j] /\ p[y] = 2 * j - 1
    BY <1>4
  <2>4. i \in Int /\ j \in Int
    BY ListProperty DEF Ground, SlotsOK
  <2>5. QED
    BY <2>2, <2>3, <2>4
<1>7. PICK u : u = UnitsOf
  OBVIOUS
<1>8. \A s \in cut : u[s] \in Int /\ u[s] <= flow[p[s]]
  BY <1>3, <1>4, <1>7
<1>9. SumFunctionOnSet(u, cut) <= SumFunctionOnSet(flow, C)
  BY <1>2, <1>3, <1>5, <1>6, <1>8, SumInjected
<1>10. QED
  BY <1>7, <1>9 DEF Weigh, cut, C

\* What leaves a set that no more can leave is no less than some cut weighs.
LEMMA StrongDuality ==
  ASSUME EngineInv, tally # <<>>, Representable, NEW lost \in SUBSET SlotSet,
         Capped(in, cap, rows, lost), Filled(in.topology, rows, cap),
         NEW R, Full(R), NEW source, Parts(R, source), \A v \in R \ {source} : Leaving(v) = 0
  PROVE  \E cut \in Separating(in.topology, Sources, Sinks, lost) : Weigh(UnitsOf, cut) <= Leaving(source)
<1>1. Ground /\ SolverInv
  BY GroundProperty DEF Ground
<1>2. IsFiniteSet(R) /\ source \in R
  BY <1>1, FS_Subset DEF Ground, Full, Parts
<1>3. Leaving(source) = SumFunctionOnSet(flow, Cut(R))
  BY <1>1, <1>2, CutProperty
<1>4. CASE \E a \in Cut(R) \cap Forward(net) : (a + 1) \div 2 > Len(Slots(in.topology))
  <2>1. PICK a \in Cut(R) \cap Forward(net) : (a + 1) \div 2 > Len(Slots(in.topology))
    BY <1>4
  <2>2. cap[a] = Infinity(rows)
    BY <2>1 DEF Filled
  <2>3. \A b \in Cut(R) : flow[b] = cap[b] /\ flow[b] \in Nat
    BY <1>1, FullFlow
  <2>4. PICK C : C = Cut(R) /\ IsFiniteSet(C)
    <3>1. Cut(R) \in SUBSET Arcs(net)
      BY DEF Cut, From
    <3>2. QED
      BY <1>1, <3>1, ArcsFinite
  <2>5. flow[a] <= SumFunctionOnSet(flow, C)
    BY <2>1, <2>3, <2>4, TermBound
  <2>6. PICK cut : cut = SlotSet \ lost /\ cut \in Separating(in.topology, Sources, Sinks, lost)
    BY <1>1, AllSeparate
  <2>7. Weigh(UnitsOf, cut) \in Nat /\ Weigh(UnitsOf, cut) <= AvailableTotal(rows) /\ AvailableTotal(rows) \in Nat
    BY <1>1, <2>6, AllUnits
  <2>8. AvailableTotal(rows) <= Infinity(rows) /\ Infinity(rows) \in Nat
    BY <2>7 DEF Infinity
  <2>9. SumFunctionOnSet(flow, C) \in Int
    <3>1. \A b \in C : flow[b] \in Int
      BY <2>3, <2>4
    <3>2. QED
      BY <2>4, <3>1, SumPick
  <2>10. flow[a] = Infinity(rows)
    BY <2>1, <2>2, <2>3
  <2>11. Weigh(UnitsOf, cut) <= Leaving(source)
    BY <1>3, <2>4, <2>5, <2>7, <2>8, <2>9, <2>10
  <2>12. QED
    BY <2>6, <2>11
<1>5. CASE ~ \E a \in Cut(R) \cap Forward(net) : (a + 1) \div 2 > Len(Slots(in.topology))
  <2>1. ASSUME NEW p \in Links(in.topology, tally.flows), p[1] \in R PROVE p[2] \in R
    <3>1. PICK a \in Forward(net) : /\ net.tail[a] = p[1] /\ net.head[a] = p[2]
                                    /\ (a + 1) \div 2 > Len(Slots(in.topology))
      BY <1>1, LinkArcs
    <3>2. a \notin Cut(R)
      BY <1>5, <3>1
    <3>3. QED
      BY <2>1, <3>1, <3>2 DEF Cut, From, Forward
  <2>2. Bounding(R, lost) \in Separating(in.topology, Sources, Sinks, lost)
    BY <1>1, <2>1, BoundSeparates
  <2>3. Weigh(UnitsOf, Bounding(R, lost)) <= Leaving(source)
    BY <1>1, <1>3, BoundWeighs
  <2>4. QED
    BY <2>2, <2>3
<1>6. QED
  BY <1>4, <1>5

-----------------------------------------------------------------------------
(* The least cut *)

\* There is a least cut, and it is a cut's weight.
LEMMA LeastCutProperty ==
  ASSUME Ground, NEW lost \in SUBSET SlotSet
  PROVE  /\ MinimumCut(lost) \in Nat
         /\ \E cut \in Separating(in.topology, Sources, Sinks, lost) : MinimumCut(lost) = Weigh(UnitsOf, cut)
         /\ \A cut \in Separating(in.topology, Sources, Sinks, lost) :
              MinimumCut(lost) <= Weigh(UnitsOf, cut) /\ Weigh(UnitsOf, cut) \in Nat
<1> DEFINE K == Separating(in.topology, Sources, Sinks, lost)
           M == {Weigh(UnitsOf, cut) : cut \in K}
<1>1. \A cut \in K : Weigh(UnitsOf, cut) \in Nat
  <2>1. \A cut \in K : cut \in SUBSET SlotSet
    BY DEF Separating, SlotSet
  <2>2. QED
    BY <2>1, AllUnits
<1>2. K # {}
  BY AllSeparate
<1>3. M \in SUBSET Nat /\ M # {}
  BY <1>1, <1>2
<1>4. PICK m \in M : \A x \in M : m <= x
  BY <1>3, LeastMember
<1>5. Min(M) \in M /\ \A x \in M : Min(M) <= x
  BY <1>4 DEF Min
<1>6. MinimumCut(lost) = Min(M)
  BY DEF MinimumCut, LeastCut
<1> HIDE DEF M
<1>7. MinimumCut(lost) \in M /\ \A x \in M : MinimumCut(lost) <= x
  BY <1>5, <1>6
<1>8. QED
  BY <1>1, <1>7 DEF M

\* No more flows than the least cut weighs, and what no more can leave is it.
LEMMA Duality ==
  ASSUME EngineInv, tally # <<>>, Off(SuperEnds), NEW lost \in SUBSET SlotSet, Capped(in, cap, rows, lost),
         Leaving(SuperSource) \in Int
  PROVE  /\ Leaving(SuperSource) <= MinimumCut(lost)
         /\ Representable /\ Filled(in.topology, rows, cap) =>
              \A R : Full(R) /\ Parts(R, SuperSource) /\ SuperSink \notin R
                       => Leaving(SuperSource) = MinimumCut(lost)
<1>1. Ground
  BY GroundProperty
<1>2. PICK cut \in Separating(in.topology, Sources, Sinks, lost) : MinimumCut(lost) = Weigh(UnitsOf, cut)
  BY <1>1, LeastCutProperty
<1>3. Leaving(SuperSource) <= MinimumCut(lost)
  BY <1>2, WeakDuality
<1>4. ASSUME Representable, Filled(in.topology, rows, cap), NEW R, Full(R), Parts(R, SuperSource),
             SuperSink \notin R
      PROVE  Leaving(SuperSource) = MinimumCut(lost)
  <2>1. \A v \in R \ {SuperSource} : Leaving(v) = 0
    BY <1>4 DEF Off, SuperEnds, Full
  <2>2. PICK c \in Separating(in.topology, Sources, Sinks, lost) : Weigh(UnitsOf, c) <= Leaving(SuperSource)
    BY <1>4, <2>1, StrongDuality
  <2>3. MinimumCut(lost) <= Weigh(UnitsOf, c) /\ Weigh(UnitsOf, c) \in Nat /\ MinimumCut(lost) \in Nat
    BY <1>1, LeastCutProperty
  <2>4. QED
    BY <1>3, <2>2, <2>3
<1>5. QED
  BY <1>3, <1>4

-----------------------------------------------------------------------------
(* The scenarios of an analysis *)

\* A list of a set, each member once.
Lists(s, S) ==
  /\ IsList(s) /\ Range(s) = S
  /\ \A i, j \in DOMAIN s : s[i] = s[j] => i = j

LEMMA SetLists ==
  ASSUME NEW S, IsFiniteSet(S)
  PROVE  Lists(SetToSeq(S), S)
<1>1. PICK n : n = Cardinality(S) /\ n \in Nat /\ ExistsBijection(1 .. n, S)
  BY FS_CardinalityType
<1> DEFINE Once(f) == f \in [1 .. n -> S] /\ IsInjective(f)
<1>2. PICK g : g \in Bijection(1 .. n, S)
  BY <1>1 DEF ExistsBijection
<1>3. g \in [1 .. n -> S] /\ IsInjective(g)
  BY <1>2 DEF Bijection, Injection
<1>4. PICK s : s = SetToSeq(S) /\ s \in [1 .. n -> S] /\ IsInjective(s)
  BY <1>1, <1>3 DEF SetToSeq
<1>5. s \in Injection(1 .. n, S)
  BY <1>4 DEF Injection
<1>6. IsFiniteSet(1 .. n) /\ Cardinality(1 .. n) = n
  <2>1. 1 \in Int /\ n \in Int
    BY <1>1
  <2>2. IsFiniteSet(1 .. n) /\ Cardinality(1 .. n) = IF 1 > n THEN 0 ELSE n - 1 + 1
    BY <2>1, FS_Interval
  <2>3. QED
    BY <1>1, <2>2
<1>7. s \in Surjection(1 .. n, S)
  BY <1>1, <1>5, <1>6, FS_Injection
<1>8. Range(s) = S
  BY <1>4, <1>7 DEF Surjection, Range
<1>9. IsList(s)
  BY <1>1, <1>4, <1>8 DEF IsList
<1>10. \A i, j \in DOMAIN s : s[i] = s[j] => i = j
  BY <1>4 DEF IsInjective
<1>11. QED
  BY <1>4, <1>8, <1>9, <1>10 DEF Lists

\* Sorted, it lists the same.
LEMMA SortedLists ==
  ASSUME NEW S, Orders(S), NEW seq, Lists(seq, S)
  PROVE  Lists(SortedBy(seq, Before), S)
<1> DEFINE R == {d \in (DOMAIN seq) \X (DOMAIN seq) : Before(seq[d[1]], seq[d[2]])}
           s == SortedBy(seq, Before)
<1>1. \A i, j \in DOMAIN seq : <<i, j>> \in R <=> Before(seq[i], seq[j])
  OBVIOUS
<1>2. /\ \A i, j \in DOMAIN seq : seq[i] = seq[j] => i = j
      /\ \A i \in DOMAIN seq : seq[i] \in S
      /\ IsList(seq) /\ Range(seq) = S
  BY DEF Lists, Range
<1>3. /\ \A x \in S : ~ Before(x, x)
      /\ \A x, y \in S : x # y => Before(x, y) \/ Before(y, x)
      /\ \A x, y, z \in S : Before(x, y) /\ Before(y, z) => Before(x, z)
  BY DEF Orders
<1>4. TotalOrder(DOMAIN seq, R)
  BY <1>1, <1>2, <1>3 DEF TotalOrder
<1> DEFINE Ahead(i) == Cardinality({j \in DOMAIN seq : Before(seq[j], seq[i])})
           p == [k \in DOMAIN seq |-> CHOOSE i \in DOMAIN seq : Ahead(i) = k - 1]
<1>5. s = [k \in DOMAIN seq |-> seq[p[k]]]
  BY DEF SortedBy, RankIn
<1>6. \A i \in DOMAIN seq : Ahead(i) = RankAmong(DOMAIN seq, R, i)
  <2>1. \A i \in DOMAIN seq : {j \in DOMAIN seq : Before(seq[j], seq[i])}
                                = {j \in DOMAIN seq : <<j, i>> \in R}
    BY <1>1
  <2>2. QED
    BY <2>1 DEF RankAmong
<1> HIDE DEF Ahead
<1>7. \A k \in DOMAIN seq : (\E i \in DOMAIN seq : Ahead(i) = k - 1)
                              => p[k] \in DOMAIN seq /\ Ahead(p[k]) = k - 1
  <2>1. TAKE k \in DOMAIN seq
  <2>2. p[k] = CHOOSE i \in DOMAIN seq : Ahead(i) = k - 1
    OBVIOUS
  <2> HIDE DEF p
  <2>3. QED
    BY <2>2
<1>8. DOMAIN p = DOMAIN seq /\ p = [k \in DOMAIN p |-> p[k]]
  OBVIOUS
<1> HIDE DEF R, s, p
<1>9. Places_(p, DOMAIN seq, R)
  BY <1>6, <1>7, <1>8 DEF Places_
<1>10. Rearranged([k \in DOMAIN seq |-> seq[p[k]]], seq, p)
  BY <1>2, <1>4, <1>9, Sorting
<1>11. Rearranged(s, seq, p)
  BY <1>5, <1>10
<1>12. IsList(s) /\ DOMAIN s = DOMAIN seq /\ \A k \in DOMAIN s : s[k] = seq[p[k]] /\ p[k] \in DOMAIN seq
  BY <1>2, <1>11, ArrangedIsList
<1>13. /\ \A i, j \in DOMAIN seq : p[i] = p[j] => i = j
       /\ \A i \in DOMAIN seq : \E k \in DOMAIN seq : p[k] = i
  BY <1>11 DEF Rearranged
<1>14. \A i, j \in DOMAIN s : s[i] = s[j] => i = j
  <2>1. TAKE i, j \in DOMAIN s
  <2>2. s[i] = seq[p[i]] /\ p[i] \in DOMAIN seq /\ s[j] = seq[p[j]] /\ p[j] \in DOMAIN seq
    BY <1>12
  <2>3. s[i] = s[j] => p[i] = p[j]
    BY <1>2, <2>2
  <2>4. QED
    BY <1>12, <1>13, <2>3
<1>15. Range(s) = Range(seq)
  <2>1. \A x \in Range(s) : x \in Range(seq)
    BY <1>12 DEF Range
  <2>2. ASSUME NEW x \in Range(seq) PROVE x \in Range(s)
    <3>1. PICK i \in DOMAIN seq : x = seq[i]
      BY DEF Range
    <3>2. PICK k \in DOMAIN seq : p[k] = i
      BY <1>13
    <3>3. k \in DOMAIN s /\ s[k] = x
      BY <1>12, <3>1, <3>2
    <3>4. QED
      BY <3>3 DEF Range
  <2>3. QED
    BY <2>1, <2>2
<1>16. QED
  BY <1>2, <1>12, <1>14, <1>15 DEF Lists, s

\* What is made of every member of a list.
LEMMA FieldLists ==
  ASSUME NEW s, IsList(s), NEW c, DOMAIN c = DOMAIN s, c = [i \in DOMAIN s |-> c[i]]
  PROVE  IsList(c) /\ Range(c) = {c[i] : i \in DOMAIN s}
<1>1. PICK n \in Nat : DOMAIN s = 1 .. n
  BY ListProperty
<1>2. Range(c) = {c[i] : i \in DOMAIN s}
  BY DEF Range
<1>3. c \in [1 .. n -> Range(c)]
  BY <1>1 DEF Range
<1>4. IsList(c)
  BY <1>3 DEF IsList
<1>5. QED
  BY <1>2, <1>4

\* A list from a place on.
LEMMA RestLists ==
  ASSUME NEW s, IsList(s), NEW i \in DOMAIN s
  PROVE  /\ IsList(SubSeq(s, i + 1, Len(s)))
         /\ Range(SubSeq(s, i + 1, Len(s))) = {s[j] : j \in {k \in DOMAIN s : k > i}}
<1>1. PICK n \in Nat : n = Len(s) /\ DOMAIN s = 1 .. n
  BY ListProperty
<1>2. PICK r : r = SubSeq(s, i + 1, n)
  OBVIOUS
<1>3. s \in Seq(Range(s)) /\ n - i \in Nat /\ i \in 1 .. n
  BY <1>1 DEF IsList
<1>4. DOMAIN r = 1 .. (n - i) /\ r = [j \in 1 .. (n - i) |-> s[i + j]]
  BY <1>1, <1>2, <1>3
<1>5. \A j \in 1 .. (n - i) : r[j] = s[i + j] /\ i + j \in 1 .. n /\ i + j > i
  BY <1>3, <1>4
<1>6. \A k \in 1 .. n : k > i => k - i \in 1 .. (n - i) /\ i + (k - i) = k
  BY <1>3
<1>7. \A x \in Range(r) : x \in {s[j] : j \in {k \in DOMAIN s : k > i}}
  <2>1. TAKE x \in Range(r)
  <2>2. PICK j \in 1 .. (n - i) : x = r[j]
    BY <1>4 DEF Range
  <2>3. x = s[i + j] /\ i + j \in DOMAIN s /\ i + j > i
    BY <1>1, <1>5, <2>2
  <2>4. QED
    BY <2>3
<1>8. \A k \in DOMAIN s : k > i => s[k] \in Range(r)
  <2>1. TAKE k \in DOMAIN s
  <2>2. HAVE k > i
  <2>3. k - i \in DOMAIN r /\ r[k - i] = s[k]
    BY <1>1, <1>4, <1>5, <1>6, <2>2
  <2>4. QED
    BY <2>3 DEF Range
<1>9. r \in [1 .. (n - i) -> Range(r)]
  BY <1>4 DEF Range
<1>10. IsList(r)
  BY <1>3, <1>9 DEF IsList
<1>11. QED
  BY <1>1, <1>2, <1>7, <1>8, <1>10

\* As many domains as a mode says.
Sizes(mode) == CASE mode = "none" -> 0 [] mode = "n1" -> 1 [] mode = "n1n1" -> 2

\* Sets of one, and of two.
LEMMA SmallSets ==
  ASSUME NEW S, IsFiniteSet(S)
  PROVE  /\ {d \in SUBSET S : Cardinality(d) = 0} = {{}}
         /\ {d \in SUBSET S : Cardinality(d) = 1} = {{x} : x \in S}
         /\ \A x, y \in S : x # y => Cardinality({x, y}) = 2
         /\ \A d \in SUBSET S : Cardinality(d) = 2 => \E x, y \in S : x # y /\ d = {x, y}
<1>1. \A d \in SUBSET S : IsFiniteSet(d)
  BY FS_Subset
<1>2. \A d \in SUBSET S : Cardinality(d) = 0 <=> d = {}
  BY <1>1, FS_EmptySet
<1>3. \A d \in SUBSET S : Cardinality(d) = 1 <=> \E x : d = {x}
  BY <1>1, FS_Singleton
<1>4. ASSUME NEW x \in S, NEW y \in S, x # y PROVE Cardinality({x, y}) = 2
  <2>1. IsFiniteSet({x}) /\ Cardinality({x}) = 1
    BY FS_Singleton
  <2>2. {x} \cup {y} = {x, y} /\ y \notin {x}
    BY <1>4
  <2>3. Cardinality({x} \cup {y}) = Cardinality({x}) + 1
    BY <2>1, <2>2, FS_AddElement
  <2>4. QED
    BY <2>1, <2>2, <2>3
<1>5. ASSUME NEW d \in SUBSET S, Cardinality(d) = 2 PROVE \E x, y \in S : x # y /\ d = {x, y}
  <2>1. IsFiniteSet(d) /\ d # {}
    BY <1>1, <1>2, <1>5
  <2>2. PICK x \in d : TRUE
    BY <2>1
  <2>3. IsFiniteSet(d \ {x}) /\ Cardinality(d \ {x}) = 1
    <3>1. Cardinality(d \ {x}) = Cardinality(d) - 1
      BY <2>1, <2>2, FS_RemoveElement
    <3>2. QED
      BY <1>5, <2>1, <3>1, FS_RemoveElement
  <2>4. PICK y : d \ {x} = {y}
    BY <2>3, FS_Singleton
  <2>5. x # y /\ y \in d /\ d = {x, y}
    BY <2>2, <2>4
  <2>6. QED
    BY <2>5
<1>6. {d \in SUBSET S : Cardinality(d) = 0} = {{}}
  BY <1>2
<1>7. {d \in SUBSET S : Cardinality(d) = 1} = {{x} : x \in S}
  <2>1. \A x \in S : {x} \in SUBSET S
    OBVIOUS
  <2>2. \A d \in SUBSET S : (\E x : d = {x}) <=> (\E x \in S : d = {x})
    OBVIOUS
  <2>3. \A d \in SUBSET S : Cardinality(d) = 1 <=> d \in {{x} : x \in S}
    BY <1>3, <2>2
  <2>4. {{x} : x \in S} \in SUBSET SUBSET S
    BY <2>1
  <2> DEFINE T == {{x} : x \in S}
  <2> HIDE DEF T
  <2>5. {d \in SUBSET S : Cardinality(d) = 1} = T
    BY <2>3, <2>4 DEF T
  <2>6. QED
    BY <2>5 DEF T
<1>8. QED
  BY <1>4, <1>5, <1>6, <1>7

\* The row of a slot is one of the rows.
LEMMA RowOfSlot ==
  ASSUME NEW in_, NEW rs, RowsOK(in_, rs), SlotsOK(in_), NEW s \in Range(Slots(in_.topology))
  PROVE  \E k \in DOMAIN rs : rs[k].resource = s /\ RowOf(rs, s) = rs[k]
<1>1. \E j \in DOMAIN in_.resources.records : in_.resources.records[j].id = s
  BY DEF SlotsOK, Range
<1>2. \E k \in DOMAIN rs : rs[k].resource = s
  BY <1>1 DEF RowsOK
<1>3. QED
  BY <1>2 DEF RowOf

\* The domains that may be lost, of the rows and of the units.
Intact == {d \in Range(DomainOf) \ {None} : Find(in.domains.records, d).healthy}
Exposed == {RowOf(rows, s) : s \in Range(Slots(in.topology))}

LEMMA IntactProperty ==
  ASSUME Ground, TypedCatalogs(in), Derivable(in)
  PROVE  /\ {row.domain : row \in {r \in Exposed : r.domain # None /\ r.healthy}} = Intact
         /\ IsFiniteSet(Intact) /\ Orders(Intact)
<1>1. \A s \in SlotSet : \E k \in DOMAIN rows : rows[k].resource = s /\ RowOf(rows, s) = rows[k]
  BY RowOfSlot DEF Ground, SlotSet
<1>2. \A k \in DOMAIN rows : \E j \in DOMAIN in.resources.records :
        /\ rows[k].domain = in.resources.records[j].domain
        /\ rows[k].healthy <=> Healthy(in, in.resources.records[j])
  BY DEF Ground, RowsOK, RowOK
<1>3. \A j \in DOMAIN in.resources.records :
        LET r == in.resources.records[j]
        IN  r.domain # None => /\ Known(in.domains.records, r.domain)
                               /\ Healthy(in, r) <=> Find(in.domains.records, r.domain).healthy
  BY DEF Derivable, ValidCatalogs, ValidDegradation, Healthy
<1>4. \A s \in SlotSet : RowOf(rows, s).domain # None =>
        /\ Known(in.domains.records, RowOf(rows, s).domain)
        /\ RowOf(rows, s).healthy <=> Find(in.domains.records, RowOf(rows, s).domain).healthy
  <2>1. TAKE s \in SlotSet
  <2>2. PICK k \in DOMAIN rows : RowOf(rows, s) = rows[k]
    BY <1>1
  <2>3. PICK j \in DOMAIN in.resources.records :
          /\ rows[k].domain = in.resources.records[j].domain
          /\ rows[k].healthy <=> Healthy(in, in.resources.records[j])
    BY <1>2
  <2>4. QED
    BY <1>3, <2>2, <2>3
<1>5. DOMAIN DomainOf = SlotSet /\ \A s \in SlotSet : DomainOf[s] = RowOf(rows, s).domain
  BY DEF DomainOf
<1> DEFINE J == {row.domain : row \in {r \in Exposed : r.domain # None /\ r.healthy}}
<1>6. \A d \in J : d \in Intact
  <2>1. TAKE d \in J
  <2>2. PICK s \in SlotSet : d = RowOf(rows, s).domain /\ d # None /\ RowOf(rows, s).healthy
    BY DEF Exposed, SlotSet
  <2>3. d \in Range(DomainOf) /\ Find(in.domains.records, d).healthy
    BY <1>4, <1>5, <2>2 DEF Range
  <2>4. QED
    BY <2>2, <2>3 DEF Intact
<1>7. \A d \in Intact : d \in J
  <2>1. TAKE d \in Intact
  <2>2. PICK s \in SlotSet : d = RowOf(rows, s).domain /\ d # None /\ Find(in.domains.records, d).healthy
    BY <1>5 DEF Intact, Range
  <2>3. RowOf(rows, s).healthy /\ RowOf(rows, s) \in Exposed
    BY <1>4, <2>2 DEF Exposed, SlotSet
  <2>4. QED
    BY <2>2, <2>3
<1>8. IsFiniteSet(Intact)
  <2> DEFINE c == [i \in DOMAIN Slots(in.topology) |-> DomainOf[Slots(in.topology)[i]]]
  <2>1. IsList(c) /\ Range(c) = {c[i] : i \in DOMAIN Slots(in.topology)}
    BY FieldLists DEF Ground, SlotsOK
  <2>2. \A d \in Range(DomainOf) : d \in Range(c)
    <3>1. TAKE d \in Range(DomainOf)
    <3>2. PICK s \in SlotSet : d = DomainOf[s]
      BY <1>5 DEF Range
    <3>3. PICK i \in DOMAIN Slots(in.topology) : s = Slots(in.topology)[i]
      BY DEF SlotSet, Range
    <3>4. c[i] = d
      BY <3>2, <3>3
    <3>5. QED
      BY <2>1, <3>4
  <2> HIDE DEF c
  <2>3. Intact \in SUBSET Range(c)
    BY <2>2 DEF Intact
  <2>4. QED
    BY <2>1, <2>3, RangeFinite, FS_Subset
<1>9. Orders(Intact)
  <2>1. \A d \in Intact : d \in Range(Identities(in.domains.records))
    <3>1. TAKE d \in Intact
    <3>2. PICK s \in SlotSet : d = RowOf(rows, s).domain /\ d # None
      BY <1>5 DEF Intact, Range
    <3>3. PICK i \in DOMAIN in.domains.records : in.domains.records[i].id = d
      BY <1>4, <3>2 DEF Known
    <3>4. QED
      BY <3>3 DEF Identities, Field, Range
  <2>2. QED
    BY <2>1 DEF TypedCatalogs, Orders
<1>10. J = Intact
  BY <1>6, <1>7
<1>11. QED
  BY <1>8, <1>9, <1>10

\* The sets of a list of domains, and of none, are those of a mode's size.
LEMMA DomainSetsProperty ==
  ASSUME NEW S, IsFiniteSet(S), NEW list, Lists(list, S), NEW mode \in Resiliences
  PROVE  /\ IsList(DomainSets(list, mode))
         /\ {{}} \cup Range(DomainSets(list, mode)) = {d \in SUBSET S : Cardinality(d) \in {0, Sizes(mode)}}
<1>1. /\ {d \in SUBSET S : Cardinality(d) = 0} = {{}}
      /\ {d \in SUBSET S : Cardinality(d) = 1} = {{x} : x \in S}
      /\ \A x, y \in S : x # y => Cardinality({x, y}) = 2
      /\ \A d \in SUBSET S : Cardinality(d) = 2 => \E x, y \in S : x # y /\ d = {x, y}
  BY SmallSets
<1>2. IsList(list) /\ \A i, j \in DOMAIN list : list[i] = list[j] => i = j
  BY DEF Lists
<1>3. \A x : x \in S <=> \E i \in DOMAIN list : list[i] = x
  BY DEF Lists, Range
<1>4. PICK n \in Nat : n = Len(list) /\ DOMAIN list = 1 .. n
  BY <1>2, ListProperty
<1>5. ASSUME NEW c, IsList(c), \A d : d \in Range(c) => d \in SUBSET S /\ Cardinality(d) = Sizes(mode),
             \A d \in SUBSET S : Cardinality(d) = Sizes(mode) => d = {} \/ d \in Range(c),
             c = DomainSets(list, mode)
      PROVE  /\ IsList(DomainSets(list, mode))
             /\ {{}} \cup Range(DomainSets(list, mode)) = {d \in SUBSET S : Cardinality(d) \in {0, Sizes(mode)}}
  <2>1. {} \in SUBSET S /\ Cardinality({}) = 0 /\ \A d \in SUBSET S : Cardinality(d) = 0 => d = {}
    BY <1>1
  <2>2. \A d : d \in {{}} \cup Range(c) <=> d \in SUBSET S /\ Cardinality(d) \in {0, Sizes(mode)}
    BY <1>5, <2>1
  <2>3. QED
    BY <1>5, <2>2
<1>6. CASE mode = "none"
  <2>1. DomainSets(list, mode) = <<>> /\ Sizes(mode) = 0
    BY <1>6 DEF DomainSets, Sizes
  <2>4. Range(<<>>) = {}
    BY DEF Range
  <2>5. IsList(<<>>)
    BY <2>4 DEF IsList
  <2>2. \A d \in SUBSET S : Cardinality(d) = 0 => d = {}
    BY <1>1
  <2>3. QED
    BY <1>5, <2>1, <2>2, <2>4, <2>5
<1>7. CASE mode = "n1"
  <2> DEFINE c == [i \in DOMAIN list |-> {list[i]}]
  <2>1. DomainSets(list, mode) = c /\ Sizes(mode) = 1
    BY <1>7 DEF DomainSets, Sizes, Field
  <2>2. IsList(c) /\ Range(c) = {c[i] : i \in DOMAIN list}
    BY <1>2, FieldLists
  <2>3. \A d : d \in Range(c) <=> \E x \in S : d = {x}
    BY <1>3, <2>2
  <2> HIDE DEF c
  <2>4. \A d : d \in Range(c) <=> d \in SUBSET S /\ Cardinality(d) = 1
    <3>1. \A d : d \in {{x} : x \in S} <=> d \in {e \in SUBSET S : Cardinality(e) = 1}
      BY <1>1
    <3>2. QED
      BY <2>3, <3>1
  <2>5. QED
    BY <1>5, <2>1, <2>2, <2>4
<1>8. CASE mode = "n1n1"
  <2> DEFINE rest(i) == SubSeq(list, i + 1, Len(list))
             row(i) == [j \in DOMAIN rest(i) |-> {list[i], rest(i)[j]}]
             seqs == [i \in DOMAIN list |-> row(i)]
             c == FlattenSeq(seqs)
  <2>1. DomainSets(list, mode) = c /\ Sizes(mode) = 2
    BY <1>8 DEF DomainSets, Sizes, Field
  <2>2. ASSUME NEW i \in DOMAIN list
        PROVE  /\ IsList(row(i))
               /\ \A d : d \in Range(row(i)) <=> \E j \in DOMAIN list : j > i /\ d = {list[i], list[j]}
    <3>1. PICK r : r = rest(i) /\ IsList(r) /\ Range(r) = {list[j] : j \in {k \in DOMAIN list : k > i}}
      BY <1>2, RestLists
    <3> DEFINE w == [j \in DOMAIN r |-> {list[i], r[j]}]
    <3>2. IsList(w) /\ Range(w) = {w[j] : j \in DOMAIN r}
      <4>1. IsList(r)
        BY <3>1
      <4>2. DOMAIN w = DOMAIN r /\ w = [j \in DOMAIN r |-> w[j]]
        OBVIOUS
      <4> HIDE DEF w
      <4>3. QED
        BY <4>1, <4>2, FieldLists
    <3>3. \A d : d \in Range(w) <=> \E x \in Range(r) : d = {list[i], x}
      BY <3>2 DEF Range
    <3>4. w = row(i)
      BY <3>1
    <3> HIDE DEF w
    <3>5. \A d : d \in Range(w) <=> \E j \in DOMAIN list : j > i /\ d = {list[i], list[j]}
      <4>1. \A x : x \in Range(r) <=> \E j \in DOMAIN list : j > i /\ x = list[j]
        BY <3>1
      <4>2. QED
        BY <3>3, <4>1
    <3>6. QED
      BY <3>2, <3>4, <3>5
  <2>3. \A i \in DOMAIN list : seqs[i] = row(i)
    OBVIOUS
  <2>4. seqs = [i \in 1 .. n |-> seqs[i]]
    BY <1>4
  <2> HIDE DEF row
  <2>5. \A i \in 1 .. n : IsList(seqs[i])
    BY <1>4, <2>2, <2>3
  <2> HIDE DEF seqs
  <2>6. IsList(c) /\ Range(c) = UNION {Range(seqs[i]) : i \in 1 .. n}
    BY <2>4, <2>5, FlattenHolds
  <2> HIDE DEF c
  <2>7. \A d : d \in Range(c) <=> \E i, j \in DOMAIN list : j > i /\ d = {list[i], list[j]}
    <3>1. \A d : d \in Range(c) <=> \E i \in DOMAIN list : d \in Range(seqs[i])
      BY <1>4, <2>6
    <3>2. QED
      BY <2>2, <2>3, <3>1
  <2>8. ASSUME NEW d, d \in Range(c) PROVE d \in SUBSET S /\ Cardinality(d) = 2
    <3>1. PICK i, j \in DOMAIN list : j > i /\ d = {list[i], list[j]}
      BY <2>7, <2>8
    <3>2. list[i] \in S /\ list[j] \in S /\ i # j
      BY <1>3, <1>4, <3>1
    <3>3. list[i] # list[j]
      BY <1>2, <3>2
    <3>4. QED
      BY <1>1, <3>1, <3>2, <3>3
  <2>9. ASSUME NEW d \in SUBSET S, Cardinality(d) = 2 PROVE d \in Range(c)
    <3>1. PICK x, y \in S : x # y /\ d = {x, y}
      BY <1>1, <2>9
    <3>2. PICK i \in DOMAIN list, j \in DOMAIN list : list[i] = x /\ list[j] = y
      BY <1>3
    <3>3. i > j \/ j > i
      BY <1>4, <3>1, <3>2
    <3>4. d = {list[i], list[j]} /\ d = {list[j], list[i]}
      BY <3>1, <3>2
    <3>5. QED
      BY <2>7, <3>3, <3>4
  <2>10. QED
    BY <1>5, <2>1, <2>6, <2>8, <2>9
<1>9. QED
  BY <1>6, <1>7, <1>8 DEF Resiliences

\* The scenarios of an analysis, and nothing lost, are the losses to survive.
LEMMA ScenariosProperty ==
  ASSUME Ground, TypedCatalogs(in), Derivable(in), NEW mode \in Resiliences
  PROVE  /\ IsList(Scenarios(in.topology, rows, mode))
         /\ {{}} \cup Range(Scenarios(in.topology, rows, mode)) = Tolerated(DomainOf, in.domains, mode)
<1>1. /\ {row.domain : row \in {r \in Exposed : r.domain # None /\ r.healthy}} = Intact
      /\ IsFiniteSet(Intact) /\ Orders(Intact)
  BY IntactProperty
<1>2. PICK list : list = Losable(in.topology, rows) /\ Lists(list, Intact)
  <2>1. Lists(SetToSeq(Intact), Intact)
    BY <1>1, SetLists
  <2>2. Lists(SortedBy(SetToSeq(Intact), Before), Intact)
    BY <1>1, <2>1, SortedLists
  <2>3. Losable(in.topology, rows) = SortedBy(SetToSeq(Intact), Before)
    BY <1>1 DEF Losable, Exposed
  <2>4. QED
    BY <2>2, <2>3
<1>3. PICK sets : sets = DomainSets(list, mode) /\ IsList(sets)
                  /\ {{}} \cup Range(sets) = {d \in SUBSET Intact : Cardinality(d) \in {0, Sizes(mode)}}
  BY <1>1, <1>2, DomainSetsProperty
<1> DEFINE Gone(d) == {s \in SlotSet : DomainOf[s] \in d}
           c == [k \in DOMAIN sets |-> Gone(sets[k])]
<1>4. Scenarios(in.topology, rows, mode) = c
  <2>1. \A d : LostWith(in.topology, rows, d) = Gone(d)
    BY DEF LostWith, DomainOf, SlotSet
  <2> HIDE DEF Gone
  <2>2. QED
    BY <1>2, <1>3, <2>1 DEF Scenarios, Field
<1>5. IsList(c) /\ Range(c) = {c[k] : k \in DOMAIN sets}
  <2>1. IsList(sets) /\ DOMAIN c = DOMAIN sets /\ c = [k \in DOMAIN sets |-> c[k]]
    BY <1>3
  <2> HIDE DEF c
  <2>2. QED
    BY <2>1, FieldLists
<1>6. Gone({}) = {}
  OBVIOUS
<1>7. Tolerated(DomainOf, in.domains, mode)
        = {Gone(d) : d \in {e \in SUBSET Intact : Cardinality(e) \in {0, Sizes(mode)}}}
  <2>1. DOMAIN DomainOf = SlotSet
    BY DEF DomainOf
  <2>2. QED
    BY <2>1 DEF Tolerated, Intact, Sizes
<1> HIDE DEF Gone
<1>8. \A l : l \in Range(c) <=> \E d \in Range(sets) : l = Gone(d)
  <2>1. \A l : l \in Range(c) <=> \E k \in DOMAIN sets : l = Gone(sets[k])
    BY <1>5
  <2>2. QED
    BY <2>1 DEF Range
<1> HIDE DEF c
<1>9. \A l : l \in {{}} \cup Range(c) <=> \E d \in {{}} \cup Range(sets) : l = Gone(d)
  BY <1>6, <1>8
<1>10. \A l : l \in {{}} \cup Range(c) <=> l \in Tolerated(DomainOf, in.domains, mode)
  BY <1>3, <1>7, <1>9
<1>11. QED
  BY <1>4, <1>5, <1>10

\* What the rows say of a slot's units and domain stays when they are marked.
CutsSame ==
  /\ UnitsOf' = UnitsOf /\ DomainOf' = DomainOf /\ SlotSet' = SlotSet
  /\ Representable' <=> Representable
  /\ AvailableTotal(rows') = AvailableTotal(rows) /\ Infinity(rows') = Infinity(rows)
  /\ \A lost : MinimumCut(lost)' = MinimumCut(lost)
  /\ LossesToSurvive' = LossesToSurvive

LEMMA SameCuts ==
  ASSUME RowsOK(in, rows), SlotsOK(in), in' = in, tally'.flows = tally.flows,
         tally'.resilience = tally.resilience, Revised(rows, rows') \/ rows' = rows
  PROVE  CutsSame
<1>1. Revised(rows, rows') \/ rows' = rows
  OBVIOUS
<1>2. AvailableTotal(rows') = AvailableTotal(rows) /\ Infinity(rows') = Infinity(rows)
  <2>1. AvailableTotal(rows') = AvailableTotal(rows)
    BY <1>1, RevisedUnits
  <2>2. QED
    BY <2>1 DEF Infinity
<1>3. ASSUME NEW s \in SlotSet
      PROVE  /\ RowOf(rows', s).available = RowOf(rows, s).available
             /\ RowOf(rows', s).domain = RowOf(rows, s).domain
  <2>1. PICK k \in DOMAIN rows : rows[k].resource = s /\ RowOf(rows, s) = rows[k]
    BY RowOfSlot DEF SlotSet
  <2>2. CASE rows' = rows
    BY <2>2
  <2>3. CASE Revised(rows, rows')
    <3>1. RowsOK(in, rows')
      BY <2>3, RevisedProperty
    <3>2. PICK j \in DOMAIN rows' : rows'[j].resource = s /\ RowOf(rows', s) = rows'[j]
      BY <3>1, RowOfSlot DEF SlotSet
    <3>3. j \in DOMAIN rows /\ rows[j].resource = s
      BY <2>3, <3>2 DEF Revised
    <3>4. j = k
      BY <2>1, <3>3 DEF RowsOK
    <3>5. QED
      BY <2>1, <2>3, <3>2, <3>3, <3>4 DEF Revised
  <2>4. QED
    BY <1>1, <2>2, <2>3
<1>4. SlotSet' = SlotSet
  BY DEF SlotSet
<1>5. UnitsOf' = UnitsOf /\ DomainOf' = DomainOf
  BY <1>3, <1>4 DEF UnitsOf, DomainOf
<1>6. Sources' = Sources /\ Sinks' = Sinks
  BY DEF Sources, Sinks
<1>7. \A lost : MinimumCut(lost)' = MinimumCut(lost)
  BY <1>5, <1>6 DEF MinimumCut
<1>8. LossesToSurvive' = LossesToSurvive
  BY <1>5 DEF LossesToSurvive
<1>9. Representable' <=> Representable
  BY <1>2 DEF Representable
<1>10. QED
  BY <1>2, <1>4, <1>5, <1>7, <1>8, <1>9 DEF CutsSame

\* A network that is reset or raised is filled as it was built.
LEMMA FilledProperty ==
  ASSUME NEW t, NEW rs, NEW lost, NEW n \in Nat, NEW c, c = Capacities(t, rs, 2 * n, lost),
         NEW F, F \subseteq 1 .. 2 * n, \A a \in F : a % 2 # 0
  PROVE  \A a \in F : (a + 1) \div 2 > Len(Slots(t)) => c[a] = Infinity(rs)
BY DEF Capacities

-----------------------------------------------------------------------------
(* The cuts of an analysis *)

Searching == at \in {"scenarios", "lost", "regain"}
Searched == at \in {"place", "placing", "close"} \/ (at = "done" /\ answer.status = "ok")

\* Of the losses that were looked at, the worst is the smallest cut.
LeastSoFar ==
  /\ tally.base = MinimumCut({})
  /\ IsList(tally.scenarios) /\ Range(tally.scenarios) \subseteq LossesToSurvive
  /\ \E l \in LossesToSurvive : tally.deliverable = MinimumCut(l)
  /\ \A l \in LossesToSurvive : tally.deliverable <= MinimumCut(l) \/ l \in Range(tally.scenarios)

\* Solves are of the whole network, without a limit, until every loss to survive
\* was looked at.
CutsHeld ==
  tally # <<>> =>
    /\ tally.resilience \in Resiliences
    /\ Filled(in.topology, rows, cap)
    /\ at = "base" => Capped(in, cap, rows, {})
    /\ at \in {"base", "lost"} /\ solver # "idle" => call.limit = U64Max
    /\ at = "lost" => tally.scenarios # <<>>
    /\ Searched => tally.scenarios = <<>>
    /\ (Searching \/ Searched) /\ Representable => LeastSoFar

\* Losses are of slots.
LEMMA LossesAreOfSlots ==
  /\ \A l \in LossesToSurvive : l \in SUBSET SlotSet
  /\ DOMAIN DomainOf = SlotSet
<1>1. DOMAIN DomainOf = SlotSet
  BY DEF DomainOf
<1>2. QED
  BY <1>1 DEF LossesToSurvive, Tolerated

\* The head of a list and the rest of it.
LEMMA HeadAndTail ==
  ASSUME NEW s, IsList(s), s # <<>>
  PROVE  /\ Head(s) \in Range(s) /\ IsList(Tail(s)) /\ Range(Tail(s)) \subseteq Range(s)
         /\ \A x \in Range(s) : x = Head(s) \/ x \in Range(Tail(s))
<1>1. s \in Seq(Range(s))
  BY DEF IsList
<1>2. PICK n \in Nat : n = Len(s) /\ DOMAIN s = 1 .. n
  BY ListProperty
<1>3. n > 0
  BY <1>1, <1>2
<1>4. PICK r : r = Tail(s) /\ DOMAIN r = 1 .. (n - 1) /\ \A i \in 1 .. (n - 1) : r[i] = s[i + 1]
  <2>1. DOMAIN Tail(s) = 1 .. (n - 1)
    BY <1>1, <1>2, <1>3
  <2>2. \A i \in 1 .. (n - 1) : Tail(s)[i] = s[i + 1]
    BY <1>1, <1>2, <1>3
  <2>3. QED
    BY <2>1, <2>2
<1>5. \A i \in 1 .. n - 1 : r[i] = s[i + 1] /\ i + 1 \in 1 .. n
  BY <1>4
<1>6. Head(s) = s[1] /\ 1 \in 1 .. n
  BY <1>1, <1>2, <1>3
<1>7. Range(r) \subseteq Range(s)
  BY <1>2, <1>4, <1>5 DEF Range
<1>8. \A i \in 1 .. n : i = 1 \/ (i - 1 \in 1 .. n - 1 /\ (i - 1) + 1 = i)
  OBVIOUS
<1>9. \A x \in Range(s) : x = Head(s) \/ x \in Range(r)
  <2>1. TAKE x \in Range(s)
  <2>2. PICK i \in 1 .. n : x = s[i]
    BY <1>2 DEF Range
  <2>3. CASE i = 1
    BY <1>6, <2>2, <2>3
  <2>4. CASE i # 1
    <3>1. i - 1 \in DOMAIN r /\ r[i - 1] = x
      BY <1>4, <1>5, <1>8, <2>2, <2>4
    <3>2. QED
      BY <3>1 DEF Range
  <2>5. QED
    BY <2>3, <2>4
<1>10. IsList(r)
  <2>1. r \in Seq(Range(s))
    BY <1>1, <1>3, <1>4
  <2>2. PICK k \in Nat : k = Len(r) /\ DOMAIN r = 1 .. k /\ r = [i \in 1 .. k |-> r[i]]
    BY <2>1
  <2>3. r \in [1 .. k -> Range(r)]
    BY <2>2 DEF Range
  <2>4. QED
    BY <2>2, <2>3 DEF IsList
<1>11. QED
  BY <1>2, <1>4, <1>6, <1>7, <1>9, <1>10 DEF Range

\* A solve of everything that ended has found the least cut.
LEMMA SolvedIsCut ==
  ASSUME EngineInv, ConservedInv, CutsHeld, tally # <<>>, at \in {"base", "lost"}, solver = "solved",
         Representable, NEW lost \in SUBSET SlotSet, Capped(in, cap, rows, lost)
  PROVE  total = MinimumCut(lost)
<1>1. SolverInv
  BY DEF EngineInv, EvaluationInv
<1>2. /\ call.limit = U64Max /\ Filled(in.topology, rows, cap)
      /\ call.source = SuperSource /\ call.sink = SuperSink /\ Off(SuperEnds)
      /\ Leaving(SuperSource) = total
  BY DEF CutsHeld, ConservedInv
<1>3. SaturatedCut /\ total \in Nat
  BY <1>1, <1>2 DEF SolverInv, AnswerIsMaximal, CallOK
<1>4. Full(Ranked)
  BY <1>3 DEF Full, Ranked, SaturatedCut, Cut, From
<1>5. Parts(Ranked, SuperSource) /\ SuperSink \notin Ranked
  BY <1>2, <1>3 DEF SaturatedCut, Parts
<1>6. QED
  BY <1>2, <1>3, <1>4, <1>5, Duality

\* Marked rows leave what was found.
LEMMA SameLeast ==
  ASSUME CutsSame, tally'.base = tally.base, tally'.deliverable = tally.deliverable,
         tally'.scenarios = tally.scenarios, LeastSoFar
  PROVE  LeastSoFar'
<1>1. tally'.base = MinimumCut({})'
  BY DEF CutsSame, LeastSoFar
<1>2. IsList(tally'.scenarios) /\ Range(tally'.scenarios) \subseteq LossesToSurvive'
  BY DEF CutsSame, LeastSoFar
<1>3. \E l \in LossesToSurvive' : tally'.deliverable = MinimumCut(l)'
  BY DEF CutsSame, LeastSoFar
<1>4. \A l \in LossesToSurvive' : tally'.deliverable <= MinimumCut(l)' \/ l \in Range(tally'.scenarios)
  BY DEF CutsSame, LeastSoFar
<1>5. QED
  BY <1>1, <1>2, <1>3, <1>4 DEF LeastSoFar

\* What a step of the analysis keeps of what it has found.
LEMMA AnalysisKeepsFound ==
  ASSUME FormInv, AnalysisStep
  PROVE  /\ tally'.resilience = tally.resilience
         /\ \/ BaseSolved \/ ScenarioSolved
            \/ /\ tally'.base = tally.base /\ tally'.deliverable = tally.deliverable
               /\ tally'.scenarios = tally.scenarios
<1>1. DOMAIN tally = TallyFields
  BY AnalysisKeeps DEF Keeps, FormInv
<1>2. CASE UNCHANGED tally
  BY <1>2
<1>3. CASE SolveBase \/ SolveScenario \/ SolveFailed \/ LoseDomains \/ RegainDomains
  BY <1>2, <1>3 DEF SolveBase, SolveScenario, SolveAll, SolveFailed, LoseDomains, RegainDomains, analysis
<1>4. CASE BaseSolved /\ tally' # tally
  <2> DEFINE Used_ == [i \in DOMAIN rows |->
                        IF rows[i].resource \in Range(Slots(in.topology))
                          THEN ArcFlow(SlotArc(in.topology, rows[i].resource)) ELSE 0]
  <2>1. PICK s : tally' = [tally EXCEPT !.base = total, !.deliverable = total, !.scenarios = s,
                                        !.used = Used_]
    BY <1>4 DEF BaseSolved
  <2> HIDE DEF Used_
  <2>2. QED
    BY <1>1, <1>4, <2>1 DEF TallyFields
<1>5. CASE ScenarioSolved
  BY <1>1, <1>5 DEF ScenarioSolved, TallyFields
<1>6. CASE Attribute /\ tally' # tally
  <2>1. PICK b, r, u : tally' = [tally EXCEPT !.breakdown = b, !.reservedStranded = r, !.budget = u]
    BY <1>6 DEF Attribute
  <2>2. QED
    BY <1>1, <2>1 DEF TallyFields
<1>7. CASE PlaceFlow /\ tally' # tally
  <2>1. tally' = [tally EXCEPT !.quantized = @ + Wanted]
    BY <1>7 DEF PlaceFlow
  <2>2. QED
    BY <1>1, <2>1 DEF TallyFields
<1>8. CASE FlowPlaced /\ tally' # tally
  <2>1. PICK g, b, s, f : tally' = [tally EXCEPT !.granularityLoss = g, !.budget = b, !.satisfied = s,
                                                 !.fits = Append(@, f)]
    BY <1>8 DEF FlowPlaced
  <2>2. QED
    BY <1>1, <2>1 DEF TallyFields
<1>9. QED
  BY <1>2, <1>3, <1>4, <1>5, <1>6, <1>7, <1>8 DEF AnalysisStep

\* Capacities fill the network they are set in.
LEMMA CapacitiesFill ==
  ASSUME NEW t, NEW flows, EndsOK(t, flows), NEW rs, NEW lost, NEW n, n = Assemble(t, flows),
         NEW m, m = 2 * Len(Ends(t, flows))
  PROVE  /\ Len(n.tail) = m
         /\ \A a \in Forward(n) : (a + 1) \div 2 > Len(Slots(t)) => Capacities(t, rs, m, lost)[a] = Infinity(rs)
<1>1. PICK k \in Nat : k = Len(Ends(t, flows)) /\ Len(n.tail) = 2 * k
  BY NetArcs
<1>2. DOMAIN n.tail = 1 .. 2 * k
  BY <1>1 DEF Assemble, NetworkOf
<1>3. Forward(n) \subseteq 1 .. 2 * k /\ \A a \in Forward(n) : a % 2 # 0
  <2>1. \A a \in Forward(n) : a % 2 = 1
    BY DEF Forward
  <2>2. QED
    BY <1>2, <2>1 DEF Forward, Arcs
<1>4. PICK c : c = Capacities(t, rs, m, lost)
  OBVIOUS
<1>5. c = Capacities(t, rs, 2 * k, lost)
  BY <1>1, <1>4
<1>6. \A a \in Forward(n) : (a + 1) \div 2 > Len(Slots(t)) => c[a] = Infinity(rs)
  BY <1>3, <1>5, FilledProperty
<1>7. QED
  BY <1>1, <1>4, <1>6

\* An analysis begins with everything in place.
LEMMA CutsBegin ==
  ASSUME PredictionInv, RowsHeld, NEW shape, Begins(shape)
  PROVE  CutsHeld'
<1>1. PICK flows : flows = Ordered(shape) /\ FlowsOK(in, flows, shape.granularity)
  BY BegunFlows
<1>2. tally'.flows = flows /\ tally'.resilience \in Resiliences
  BY <1>1 DEF Begins, FreshTally
<1>3. SlotsOK(in) /\ EndsOK(in.topology, flows) /\ RowsOK(in, rows)
  BY <1>1, HeldFacts DEF FlowsOK, Begins
<1>4. PICK n \in Nat : n = Len(Ends(in.topology, flows))
  BY <1>3, NetArcs
<1>5. cap' = Capacities(in.topology, rows, 2 * n, {}) /\ in' = in /\ rows' = rows /\ at' = "base"
      /\ net' = Assemble(in.topology, flows) /\ solver' = "idle"
  BY <1>1, <1>4 DEF Begins
<1>6. Capped(in, Capacities(in.topology, rows, 2 * n, {}), rows, {})
  BY <1>3, <1>4, CappedProperty DEF EndsOK
<1>7. \A a \in Forward(net') : (a + 1) \div 2 > Len(Slots(in.topology)) => cap'[a] = Infinity(rows)
  BY <1>3, <1>4, <1>5, CapacitiesFill
<1>9. Filled(in.topology, rows, cap)'
  BY <1>5, <1>7 DEF Filled
<1>10. Capped(in, cap, rows, {})'
  BY <1>5, <1>6
<1>11. ~ Searching' /\ ~ Searched'
  BY <1>5 DEF Searching, Searched
<1>12. QED
  BY <1>2, <1>5, <1>9, <1>10, <1>11 DEF CutsHeld

\* What was found first is the least cut with everything in place.
LEMMA BaseIsLeast ==
  ASSUME EngineInv, ConservedInv, CutsHeld, BaseSolved, at' = "scenarios", CutsSame, Representable
  PROVE  LeastSoFar'
<1>1. FormInv /\ tally # <<>>
  BY DEF BaseSolved, FormInv, EngineInv, EvaluationInv
<1>2. Ground /\ TypedCatalogs(in) /\ Derivable(in)
  BY <1>1, GroundProperty DEF EngineInv, RowsHeld
<1>3. total = MinimumCut({})
  <2>1. {} \in SUBSET SlotSet /\ Capped(in, cap, rows, {}) /\ at \in {"base", "lost"} /\ solver = "solved"
    BY <1>1 DEF CutsHeld, BaseSolved
  <2>2. QED
    BY <1>1, <2>1, SolvedIsCut
<1>4. PICK scenarios : /\ scenarios = Scenarios(in.topology, rows, tally.resilience)
                       /\ tally'.base = total /\ tally'.deliverable = total /\ tally'.scenarios = scenarios
  <2> DEFINE Used_ == [i \in DOMAIN rows |->
                        IF rows[i].resource \in Range(Slots(in.topology))
                          THEN ArcFlow(SlotArc(in.topology, rows[i].resource)) ELSE 0]
  <2>1. tally' = [tally EXCEPT !.base = total, !.deliverable = total,
                               !.scenarios = Scenarios(in.topology, rows, tally.resilience), !.used = Used_]
    BY DEF BaseSolved, Fail
  <2> HIDE DEF Used_
  <2>2. DOMAIN tally = TallyFields
    BY <1>1 DEF FormInv
  <2>3. QED
    BY <2>1, <2>2 DEF TallyFields
<1>5. IsList(scenarios) /\ {{}} \cup Range(scenarios) = LossesToSurvive
  <2>1. tally.resilience \in Resiliences
    BY <1>1 DEF CutsHeld
  <2>2. QED
    BY <1>2, <1>4, <2>1, ScenariosProperty DEF LossesToSurvive
<1>6. {} \in LossesToSurvive /\ MinimumCut({}) \in Nat
  <2>1. {} \in SUBSET SlotSet
    OBVIOUS
  <2>2. MinimumCut({}) \in Nat
    BY <1>2, <2>1, LeastCutProperty
  <2>3. QED
    BY <1>5, <2>2
<1>7. \A l \in LossesToSurvive : l = {} \/ l \in Range(scenarios)
  BY <1>5
<1>8. Range(scenarios) \subseteq LossesToSurvive
  BY <1>5
<1>9. LossesToSurvive' = LossesToSurvive /\ \A l : MinimumCut(l)' = MinimumCut(l)
  BY DEF CutsSame
<1>10. tally'.base = MinimumCut({})'
  BY <1>3, <1>4, <1>9
<1>11. IsList(tally'.scenarios) /\ Range(tally'.scenarios) \subseteq LossesToSurvive'
  BY <1>4, <1>5, <1>8, <1>9
<1>12. \E l \in LossesToSurvive' : tally'.deliverable = MinimumCut(l)'
  BY <1>3, <1>4, <1>6, <1>9
<1>13. \A l \in LossesToSurvive' : tally'.deliverable <= MinimumCut(l)' \/ l \in Range(tally'.scenarios)
  BY <1>3, <1>4, <1>6, <1>7, <1>9
<1>14. QED
  BY <1>10, <1>11, <1>12, <1>13 DEF LeastSoFar

\* And then the least of those with some domains lost.
LEMMA ScenarioIsLeast ==
  ASSUME EngineInv, ConservedInv, CutsHeld, ScenarioSolved, CutsSame, Representable
  PROVE  LeastSoFar'
<1>1. FormInv /\ tally # <<>> /\ at = "lost" /\ solver = "solved"
  BY DEF ScenarioSolved, FormInv, EngineInv, EvaluationInv
<1>2. Ground /\ LeastSoFar /\ tally.scenarios # <<>>
  BY <1>1, GroundProperty DEF CutsHeld, Searching
<1>3. PICK lost : lost = Head(tally.scenarios) /\ Capped(in, cap, rows, lost)
  BY <1>1 DEF EngineInv, NetHeld
<1>4. /\ lost \in LossesToSurvive /\ IsList(Tail(tally.scenarios))
      /\ Range(Tail(tally.scenarios)) \subseteq LossesToSurvive
      /\ \A l \in Range(tally.scenarios) : l = lost \/ l \in Range(Tail(tally.scenarios))
  BY <1>2, <1>3, HeadAndTail DEF LeastSoFar
<1>5. total = MinimumCut(lost)
  <2>1. lost \in SUBSET SlotSet /\ at \in {"base", "lost"}
    BY <1>1, <1>4, LossesAreOfSlots
  <2>2. QED
    BY <1>1, <1>3, <2>1, SolvedIsCut
<1>6. \A l \in LossesToSurvive : MinimumCut(l) \in Nat
  BY <1>2, LossesAreOfSlots, LeastCutProperty
<1>7. /\ tally'.base = tally.base /\ tally'.scenarios = Tail(tally.scenarios)
      /\ tally'.deliverable = IF total < tally.deliverable THEN total ELSE tally.deliverable
  <2>1. DOMAIN tally = TallyFields
    BY <1>1 DEF FormInv
  <2>2. QED
    BY <2>1 DEF ScenarioSolved, TallyFields
<1>8. PICK d : d = tally.deliverable /\ d \in Nat /\ \E l \in LossesToSurvive : d = MinimumCut(l)
  BY <1>2, <1>6 DEF LeastSoFar
<1>9. PICK e : e = tally'.deliverable /\ e \in Nat /\ e <= d /\ e <= total /\ (e = d \/ e = total)
  BY <1>4, <1>5, <1>6, <1>7, <1>8
<1>10. LossesToSurvive' = LossesToSurvive /\ \A l : MinimumCut(l)' = MinimumCut(l)
  BY DEF CutsSame
<1>11. \E l \in LossesToSurvive' : tally'.deliverable = MinimumCut(l)'
  BY <1>4, <1>5, <1>8, <1>9, <1>10
<1>12. ASSUME NEW l \in LossesToSurvive
       PROVE  e <= MinimumCut(l) \/ l \in Range(Tail(tally.scenarios))
  <2>1. d <= MinimumCut(l) \/ l \in Range(tally.scenarios)
    BY <1>2, <1>8 DEF LeastSoFar
  <2>2. CASE d <= MinimumCut(l)
    BY <1>6, <1>8, <1>9, <2>2
  <2>3. CASE l \in Range(tally.scenarios)
    <3>1. l = lost \/ l \in Range(Tail(tally.scenarios))
      BY <1>4, <2>3
    <3>2. QED
      BY <1>5, <1>9, <3>1
  <2>4. QED
    BY <2>1, <2>2, <2>3
<1>13. \A l \in LossesToSurvive' : tally'.deliverable <= MinimumCut(l)' \/ l \in Range(tally'.scenarios)
  BY <1>7, <1>9, <1>10, <1>12
<1>14. tally'.base = MinimumCut({})'
  BY <1>2, <1>7, <1>10 DEF LeastSoFar
<1>15. IsList(tally'.scenarios) /\ Range(tally'.scenarios) \subseteq LossesToSurvive'
  BY <1>4, <1>7, <1>10
<1>16. QED
  BY <1>11, <1>13, <1>14, <1>15 DEF LeastSoFar

\* Steps of the analysis keep what it has found.
LEMMA CutsAnalysed ==
  ASSUME EngineInv, ConservedInv, CutsHeld, AnalysisStep
  PROVE  CutsHeld'
<1>1. FormInv /\ RowsHeld /\ NetHeld
  BY DEF EngineInv, EvaluationInv
<1>2. tally # <<>> /\ tally' # <<>> /\ tally'.flows = tally.flows /\ in' = in
  BY <1>1, AnalysisKeeps DEF Keeps
<1>3. Ground
  BY <1>2, GroundProperty
<1>4. /\ tally'.resilience = tally.resilience
      /\ \/ BaseSolved \/ ScenarioSolved
         \/ /\ tally'.base = tally.base /\ tally'.deliverable = tally.deliverable
            /\ tally'.scenarios = tally.scenarios
  BY <1>1, AnalysisKeepsFound
<1>5. Revised(rows, rows') \/ rows' = rows
  <2>1. CASE BaseSolved \/ Attribute
    BY <1>3, <2>1, RowsRevised DEF Ground
  <2>2. CASE ~ (BaseSolved \/ Attribute)
    BY <2>2 DEF AnalysisStep, SolveBase, SolveScenario, SolveAll, SolveFailed, LoseDomains,
       ScenarioSolved, RegainDomains, PlaceFlow, FlowPlaced, analysis
  <2>3. QED
    BY <2>1, <2>2
<1>6. CutsSame
  BY <1>2, <1>3, <1>4, <1>5, SameCuts DEF Ground
<1>7. net' = net
  BY DEF AnalysisStep, SolveBase, SolveScenario, SolveAll, SolveFailed, BaseSolved, LoseDomains,
         ScenarioSolved, RegainDomains, Attribute, PlaceFlow, FlowPlaced, Solve, Answered, Reset, Raise,
         flowVars
<1>8. cap' = cap \/ \E lost : cap' = Capacities(in.topology, rows, Len(net.tail), lost)
  <2>1. CASE LoseDomains \/ RegainDomains
    BY <2>1 DEF LoseDomains, RegainDomains, Reset, Raise, flowVars
  <2>2. CASE ~ (LoseDomains \/ RegainDomains)
    BY <2>2 DEF AnalysisStep, SolveBase, SolveScenario, SolveAll, SolveFailed, BaseSolved,
         ScenarioSolved, Attribute, PlaceFlow, FlowPlaced, Solve, Answered, Reset, flowVars
  <2>3. QED
    BY <2>1, <2>2
<1>9. \A a \in Forward(net) : (a + 1) \div 2 > Len(Slots(in.topology)) => cap'[a] = Infinity(rows)
  <2>1. CASE cap' = cap
    BY <1>2, <2>1 DEF CutsHeld, Filled
  <2>2. CASE \E lost : cap' = Capacities(in.topology, rows, Len(net.tail), lost)
    <3>1. PICK lost : cap' = Capacities(in.topology, rows, Len(net.tail), lost)
      BY <2>2
    <3>2. PICK m : m = 2 * Len(Ends(in.topology, tally.flows))
      OBVIOUS
    <3>3. net = Assemble(in.topology, tally.flows) /\ EndsOK(in.topology, tally.flows)
      BY <1>3 DEF Ground
    <3>4. /\ Len(net.tail) = m
          /\ \A a \in Forward(net) : (a + 1) \div 2 > Len(Slots(in.topology))
                                       => Capacities(in.topology, rows, m, lost)[a] = Infinity(rows)
      BY <3>2, <3>3, CapacitiesFill
    <3>5. QED
      BY <3>1, <3>4
  <2>3. QED
    BY <1>8, <2>1, <2>2
<1>10. Filled(in.topology, rows, cap)'
  BY <1>2, <1>6, <1>7, <1>9 DEF Filled, CutsSame
<1>11. tally'.resilience \in Resiliences
  BY <1>2, <1>4 DEF CutsHeld
<1>12. /\ Representable' <=> Representable
       /\ \A l : MinimumCut(l)' = MinimumCut(l)
  BY <1>6 DEF CutsSame
<1>13. at' = "done" => answer'.status # "ok"
  BY DEF AnalysisStep, SolveBase, SolveScenario, SolveAll, SolveFailed, BaseSolved, LoseDomains,
         ScenarioSolved, RegainDomains, Attribute, PlaceFlow, FlowPlaced, Fail, analysis, Answered
<1>14. CASE SolveBase \/ SolveScenario
  <2>1. /\ UNCHANGED <<at, tally, rows, cap, answer>> /\ at \in {"base", "lost"} /\ call'.limit = U64Max
    BY <1>14 DEF SolveBase, SolveScenario, SolveAll, Solve, analysis
  <2>2. Searching' = Searching /\ Searched' = Searched
    BY <2>1 DEF Searching, Searched
  <2>3. Searching /\ Representable => LeastSoFar'
    BY <1>2, <1>6, <2>1, SameLeast DEF CutsHeld
  <2>4. at = "base" => Capped(in, cap, rows, {})'
    BY <1>2, <2>1 DEF CutsHeld
  <2>5. ~ Searched
    BY <2>1 DEF Searched
  <2>6. at = "lost" => tally'.scenarios # <<>>
    BY <1>2, <2>1 DEF CutsHeld
  <2>7. QED
    BY <1>10, <1>11, <1>12, <2>1, <2>2, <2>3, <2>4, <2>5, <2>6 DEF CutsHeld
<1>15. CASE at' = "done"
  <2>1. ~ Searching' /\ ~ Searched'
    BY <1>13, <1>15 DEF Searching, Searched
  <2>2. QED
    BY <1>10, <1>11, <1>15, <2>1 DEF CutsHeld
<1>16. ASSUME at' \in {"scenarios", "lost", "regain", "place", "placing"},
              at' = "lost" => solver' = "idle" /\ tally'.scenarios # <<>>,
              at' \in {"place", "placing"} => tally'.scenarios = <<>>,
              Representable => LeastSoFar'
       PROVE  CutsHeld'
  BY <1>10, <1>11, <1>12, <1>16 DEF CutsHeld, Searching, Searched
<1>17. CASE BaseSolved /\ at' # "done"
  <2>1. at' = "scenarios"
    BY <1>17 DEF BaseSolved, Fail
  <2>2. Representable => LeastSoFar'
    BY <1>6, <1>17, <2>1, BaseIsLeast
  <2>3. QED
    BY <1>16, <2>1, <2>2
<1>18. CASE ScenarioSolved
  <2>1. at' = "regain"
    BY <1>18 DEF ScenarioSolved
  <2>2. Representable => LeastSoFar'
    BY <1>6, <1>18, ScenarioIsLeast
  <2>3. QED
    BY <1>16, <2>1, <2>2
<1>19. ASSUME at' # "done", LoseDomains \/ RegainDomains \/ Attribute \/ PlaceFlow \/ FlowPlaced
       PROVE  CutsHeld'
  <2>1. at \in {"scenarios", "regain", "place", "placing"} /\ ~ BaseSolved /\ ~ ScenarioSolved
    BY <1>19 DEF LoseDomains, RegainDomains, Attribute, PlaceFlow, FlowPlaced, BaseSolved, ScenarioSolved
  <2>2. Representable => LeastSoFar
    BY <1>2, <2>1 DEF CutsHeld, Searching, Searched
  <2>3. Representable => LeastSoFar'
    BY <1>4, <1>6, <2>1, <2>2, SameLeast
  <2>4. tally'.scenarios = tally.scenarios
    BY <1>4, <2>1
  <2>5. CASE LoseDomains
    <3>1. at' = "lost" /\ solver' = "idle" /\ tally.scenarios # <<>>
      BY <1>19, <2>5 DEF LoseDomains, Fail, Reset
    <3>2. QED
      BY <1>16, <2>3, <2>4, <3>1
  <2>6. CASE RegainDomains
    <3>1. at' = "scenarios"
      BY <2>6 DEF RegainDomains
    <3>2. QED
      BY <1>16, <2>3, <3>1
  <2>7. CASE Attribute
    <3>1. at' = "place" /\ tally.scenarios = <<>>
      BY <1>19, <2>7 DEF Attribute, Fail
    <3>2. QED
      BY <1>16, <2>3, <2>4, <3>1
  <2>8. CASE PlaceFlow \/ FlowPlaced
    <3>1. at \in {"place", "placing"} /\ at' \in {"place", "placing"}
      BY <1>19, <2>8 DEF PlaceFlow, FlowPlaced, Fail
    <3>2. tally.scenarios = <<>>
      BY <1>2, <3>1 DEF CutsHeld, Searched
    <3>3. QED
      BY <1>16, <2>3, <2>4, <3>1, <3>2
  <2>9. QED
    BY <1>19, <2>5, <2>6, <2>7, <2>8
<1>20. SolveFailed => at' = "done"
  BY DEF SolveFailed, Fail
<1>21. QED
  BY <1>14, <1>15, <1>17, <1>18, <1>19, <1>20 DEF AnalysisStep

\* Every step keeps what the analysis has found.
LEMMA CutsStep ==
  ASSUME EngineInv, ConservedInv, CutsHeld, [Next]_evaluation
  PROVE  CutsHeld'
<1>1. PredictionInv /\ FormInv /\ RowsHeld
  BY DEF EngineInv, EvaluationInv
<1>2. CASE Validate \/ Account \/ Analyse \/ Query \/ Predict \/ Analysed \/ Close
  <2>1. CASE \E shape : Begins(shape)
    BY <1>1, <2>1, CutsBegin
  <2>2. CASE ~ (\E shape : Begins(shape)) /\ tally # <<>>
    <3>1. Outside
      BY <1>1, <1>2, <2>2, OuterSteps
    <3>2. UNCHANGED <<in, tally, net, cap, call, solver>> /\ at' \notin {"base", "lost"}
      BY <3>1 DEF Outside, flowVars
    <3>3. rows' = rows
      BY <2>2, <3>1 DEF Outside
    <3>4. at \in {"place", "close"} /\ at' \in {"close", "done"}
      BY <1>1, <1>2, <2>2
         DEF FormInv, Validate, Account, Analyse, Query, Predict, Analysed, AllPlaced, Close, Fail
    <3>5. Searched /\ ~ Searching'
      BY <3>4 DEF Searched, Searching
    <3>6. CutsSame
      <4>1. Ground
        BY <2>2, GroundProperty
      <4>2. QED
        BY <3>2, <3>3, <4>1, SameCuts DEF Ground
    <3>7. Representable' <=> Representable
      BY <3>6 DEF CutsSame
    <3>8. Representable => LeastSoFar'
      <4>1. Representable => LeastSoFar
        BY <2>2, <3>5 DEF CutsHeld
      <4>2. QED
        BY <3>2, <3>6, <4>1, SameLeast
    <3>9. Filled(in.topology, rows, cap)'
      BY <2>2, <3>2, <3>3 DEF CutsHeld, Filled
    <3>10. tally'.resilience \in Resiliences /\ tally'.scenarios = <<>>
      BY <2>2, <3>2, <3>5 DEF CutsHeld
    <3>11. QED
      BY <3>2, <3>7, <3>8, <3>9, <3>10 DEF CutsHeld
  <2>3. CASE ~ (\E shape : Begins(shape)) /\ tally = <<>>
    BY <1>1, <1>2, <2>3, OuterSteps DEF Outside, CutsHeld
  <2>4. QED
    BY <2>1, <2>2, <2>3
<1>3. CASE AnalysisStep
  BY <1>3, CutsAnalysed
<1>4. CASE Solving \/ Cancelling \/ UNCHANGED evaluation
  <2>1. UNCHANGED <<in, at, rows, tally, answer>>
    BY <1>4 DEF Solving, Cancelling, evaluation, analysis
  <2>2. UNCHANGED <<net, cap, call>> /\ (solver = "idle" => solver' = "idle")
    BY <1>4 DEF Solving, Cancelling, Cancel, evaluation, flowVars, Step, Scan, Levelled, Advance,
         Retreat, Augment, LimitReached, Finish
  <2>3. CASE tally = <<>>
    BY <2>1, <2>3 DEF CutsHeld
  <2>4. CASE tally # <<>>
    <3>1. Ground
      BY <2>4, GroundProperty
    <3>2. CutsSame
      BY <2>1, <3>1, SameCuts DEF Ground
    <3>3. Representable' <=> Representable
      BY <3>2 DEF CutsSame
    <3>4. LeastSoFar => LeastSoFar'
      BY <2>1, <3>2, SameLeast
    <3>5. Searching' = Searching /\ Searched' = Searched
      BY <2>1 DEF Searching, Searched
    <3>6. Filled(in.topology, rows, cap)'
      BY <2>1, <2>2, <2>4 DEF CutsHeld, Filled
    <3>7. at = "base" => Capped(in, cap, rows, {})'
      BY <2>1, <2>2, <2>4 DEF CutsHeld
    <3>8. QED
      BY <2>1, <2>2, <2>4, <3>3, <3>4, <3>5, <3>6, <3>7 DEF CutsHeld
  <2>5. QED
    BY <2>3, <2>4
<1>5. QED
  BY <1>2, <1>3, <1>4 DEF Next, Evaluate

\* In every reachable evaluation what was found deliverable is the least cut of
\* the losses that were looked at.
THEOREM CutsInvariant == Spec => []CutsHeld
<1>1. Init => CutsHeld
  BY DEF Init, CutsHeld
<1>2. EngineInv /\ ConservedInv /\ CutsHeld /\ [Next]_evaluation => CutsHeld'
  BY CutsStep
<1>3. Spec => []EngineInv /\ []ConservedInv
  BY EngineInvariant, ConservedInvariant
<1>4. QED
  BY <1>1, <1>2, <1>3, PTL DEF Spec

\* Where nothing is left to look at, what was found is what survives the worst.
LEMMA FoundIsSurvivable ==
  ASSUME Ground, LeastSoFar, tally.scenarios = <<>>
  PROVE  tally.deliverable = Survivable /\ tally.base = MinimumCut({})
<1>1. Range(tally.scenarios) = {}
  BY DEF Range
<1>2. \A l \in LossesToSurvive : MinimumCut(l) \in Nat
  BY LossesAreOfSlots, LeastCutProperty
<1> DEFINE M == {MinimumCut(l) : l \in LossesToSurvive}
<1>3. tally.deliverable \in M /\ \A x \in M : tally.deliverable <= x
  BY <1>1 DEF LeastSoFar
<1>4. M \in SUBSET Nat
  BY <1>2
<1>5. Survivable = Min(M)
  BY DEF Survivable
<1> HIDE DEF M
<1>6. Min(M) \in M /\ \A x \in M : Min(M) <= x
  BY <1>3 DEF Min
<1>7. tally.deliverable = Min(M)
  <2>1. tally.deliverable <= Min(M) /\ Min(M) <= tally.deliverable
    BY <1>3, <1>6
  <2>2. tally.deliverable \in Nat /\ Min(M) \in Nat
    BY <1>3, <1>4, <1>6
  <2>3. QED
    BY <2>1, <2>2
<1>8. QED
  BY <1>5, <1>7 DEF LeastSoFar

\* Every evaluation that ends, and every fit query, has called deliverable what
\* the least cut weighs in the worst of the losses to survive (max_flow and
\* analyse_fragmentation: max-flow min-cut, for every fabric, shape and policy).
THEOREM DeliverablesAreMinimumCuts == Spec => []DeliverableIsMinimumCut
<1>1. EngineInv /\ CutsHeld => DeliverableIsMinimumCut
  <2>1. SUFFICES ASSUME EngineInv, CutsHeld, Answering, Representable
                 PROVE  tally.deliverable = Survivable /\ tally.base = MinimumCut({})
    BY DEF DeliverableIsMinimumCut
  <2>2. tally # <<>> /\ Searched
    BY <2>1 DEF Answering, Analysing, Searched
  <2>3. LeastSoFar /\ tally.scenarios = <<>>
    BY <2>1, <2>2 DEF CutsHeld
  <2>4. QED
    BY <2>1, <2>2, <2>3, GroundProperty, FoundIsSurvivable
<1>2. QED
  BY <1>1, EngineInvariant, CutsInvariant, PTL

-----------------------------------------------------------------------------
(* Grains *)

\* What is quantized is the most that the grain allows.
LEMMA GrainProperty ==
  ASSUME NEW v \in Nat, NEW g \in Nat
  PROVE  /\ QuantizeDown(v, g) \in 0 .. v
         /\ g = 0 \/ QuantizeDown(v, g) % g = 0
         /\ \A x \in 0 .. v : g = 0 \/ x % g = 0 => x <= QuantizeDown(v, g)
<1>1. CASE g = 0
  BY <1>1 DEF QuantizeDown
<1>2. CASE g # 0
  <2>1. PICK q \in Nat, r \in Nat : q = v \div g /\ r = v % g /\ v = q * g + r
    BY <1>2, Products
  <2>2. PICK k \in Nat : k = q * g
    BY Products
  <2>3. QuantizeDown(v, g) = k
    BY <1>2, <2>1, <2>2 DEF QuantizeDown
  <2>4. r < g /\ v = k + r
    BY <1>2, <2>1, <2>2
  <2>5. k % g = 0
    <3>1. (q * g + 0) \div g = q + (0 \div g) /\ 0 \div g = 0
      BY <1>2, DivisionShifts
    <3>2. k \div g = q
      BY <2>2, <3>1
    <3>3. k = (k \div g) * g + (k % g) /\ k % g \in Nat
      BY <1>2, Products
    <3>4. k = k + (k % g)
      BY <2>2, <3>2, <3>3
    <3>5. QED
      BY <3>3, <3>4
  <2>6. ASSUME NEW x \in 0 .. v, x % g = 0 PROVE x <= k
    <3>1. PICK j \in Nat : j = x \div g /\ x = j * g
      <4>1. x \div g \in Nat /\ x = (x \div g) * g + 0
        BY <1>2, <2>6, Products
      <4>2. (x \div g) * g \in Nat
        BY <4>1, Products
      <4>3. QED
        BY <4>1, <4>2
    <3>2. CASE j <= q
      <4>1. PICK d \in Nat : q = j + d
        <5>1. q - j \in Nat /\ q = j + (q - j)
          BY <3>2
        <5>2. QED
          BY <5>1
      <4>2. q * g = j * g + d * g /\ d * g \in Nat
        BY <4>1, Products
      <4>3. QED
        BY <2>2, <3>1, <4>2
    <3>3. CASE j > q
      <4>1. PICK d \in Nat : j = (q + 1) + d
        <5>1. j - (q + 1) \in Nat /\ j = (q + 1) + (j - (q + 1))
          BY <3>3
        <5>2. QED
          BY <5>1
      <4>2. j * g = (q + 1) * g + d * g /\ (q + 1) * g = q * g + 1 * g /\ d * g \in Nat
        BY <4>1, Products
      <4>3. PICK e \in Nat : e = d * g
        BY <4>2
      <4>4. x = k + g + e
        BY <2>2, <3>1, <4>2, <4>3
      <4>5. QED
        BY <2>4, <4>4
    <3>4. QED
      BY <3>2, <3>3
  <2>7. QED
    BY <2>3, <2>4, <2>5, <2>6
<1>3. QED
  BY <1>1, <1>2

\* The largest of a set is the one no other exceeds.
LEMMA LargestIsMax ==
  ASSUME NEW T, T \subseteq Nat, NEW z \in T, \A x \in T : x <= z
  PROVE  Max(T) = z
<1>1. Max(T) \in T /\ \A x \in T : Max(T) >= x
  BY DEF Max
<1>2. Max(T) \in Nat /\ z \in Nat /\ Max(T) >= z /\ Max(T) <= z
  BY <1>1
<1>3. QED
  BY <1>2

\* The quantities of a grain.
Grains(m, g) == {x \in 0 .. m : g = 0 \/ x % g = 0}

\* A flow that is granted what its grain allows of the smaller of its magnitude
\* and what there is gets the largest quantity of the grain in both.
LEMMA LargestGrain ==
  ASSUME NEW m \in Nat, NEW g \in Nat, NEW b \in Nat,
         NEW c, c = IF QuantizeDown(m, g) < b THEN QuantizeDown(m, g) ELSE b
  PROVE  /\ QuantizeDown(m, g) = Max(Grains(m, g))
         /\ QuantizeDown(c, g) = Max({x \in Grains(m, g) : x <= b})
<1>0. PICK S : S = Grains(m, g) /\ S = {x \in 0 .. m : g = 0 \/ x % g = 0}
  BY DEF Grains
<1>1. PICK w : w = QuantizeDown(m, g)
  OBVIOUS
<1>2. w \in 0 .. m /\ (g = 0 \/ w % g = 0) /\ \A x \in 0 .. m : g = 0 \/ x % g = 0 => x <= w
  BY <1>1, GrainProperty
<1>3. c \in Nat /\ c <= w /\ c <= b
  BY <1>1, <1>2
<1>4. PICK z : z = QuantizeDown(c, g)
  OBVIOUS
<1>5. z \in 0 .. c /\ (g = 0 \/ z % g = 0) /\ \A x \in 0 .. c : g = 0 \/ x % g = 0 => x <= z
  BY <1>3, <1>4, GrainProperty
<1>6. Max(S) = w
  <2>1. S \subseteq Nat /\ w \in S /\ \A x \in S : x <= w
    BY <1>0, <1>2
  <2>2. QED
    BY <2>1, LargestIsMax
<1>7. PICK T : T = {x \in S : x <= b}
  OBVIOUS
<1>8. Max(T) = z
  <2>1. T \subseteq Nat /\ z \in T
    BY <1>0, <1>2, <1>3, <1>5, <1>7
  <2>2. ASSUME NEW x \in T PROVE x <= z
    <3>0. x \in S /\ x <= b
      BY <1>0, <1>7, <2>2
    <3>1. x \in Nat /\ x <= w /\ x <= b /\ (g = 0 \/ x % g = 0)
      BY <1>0, <1>2, <3>0
    <3>2. x \in 0 .. c
      BY <1>1, <1>2, <3>1
    <3>3. QED
      BY <1>5, <3>1, <3>2
  <2>3. QED
    BY <2>1, <2>2, LargestIsMax
<1>9. QED
  BY <1>0, <1>1, <1>4, <1>6, <1>7, <1>8

-----------------------------------------------------------------------------
(* A single flow *)

\* Between solves of the whole network everything is in place.
Restored ==
  tally # <<>> /\ at \in {"scenarios", "place", "placing"} => Capped(in, cap, rows, {})

\* What the only flow asks for, and what it is granted of that.
Alone == Len(tally.flows) = 1
Sole == tally.flows[1]
Sought == LET w == QuantizeDown(Sole.magnitude, tally.granularity)
          IN  IF w < tally.deliverable THEN w ELSE tally.deliverable
Granted == LET whole == QuantizeDown(Sought, tally.granularity)
           IN  IF tally.singleSlice /\ whole < Sole.magnitude THEN 0 ELSE whole

\* It has been placed.
Settled ==
  \/ at = "place" /\ tally.fits # <<>>
  \/ at = "close"
  \/ at = "done" /\ answer.status = "ok"

SoleHeld ==
  tally # <<>> /\ Alone =>
    /\ at \in {"base", "scenarios", "lost", "regain"} => tally.fits = <<>>
    /\ at = "place" /\ tally.fits = <<>> => tally.budget = tally.deliverable /\ flow = NoFlow(net)
    /\ at = "placing" =>
         /\ tally.fits = <<>> /\ call.limit = Sought
         /\ call.source = Out_(Sole.source) /\ call.sink = In(Sole.sink)
         /\ Leaving(call.source) = total
    /\ Representable /\ Settled => tally.fits[1].admitted = Granted

\* A fit query has one flow, the one it asks for, and no policy of slices.
QueryHeld ==
  tally # <<>> /\ Querying =>
    /\ Alone /\ Sole.magnitude = in.query.magnitude /\ tally.granularity = in.query.granularity
    /\ tally.singleSlice = FALSE /\ at # "close"
    /\ at = "done" /\ answer.status = "ok" =>
         (answer.satisfiable <=> tally.fits[1].admitted >= QuantizeDown(Sole.magnitude, tally.granularity))

\* Every step gives back what a scenario took before it goes on.
LEMMA RestoredStep ==
  ASSUME EngineInv, CutsHeld, Restored, [Next]_evaluation
  PROVE  Restored'
<1>1. PredictionInv /\ FormInv /\ RowsHeld /\ NetHeld
  BY DEF EngineInv, EvaluationInv
<1>2. CASE Validate \/ Account \/ Analyse \/ Query \/ Predict \/ Analysed \/ Close
  <2>1. at' \notin {"scenarios", "place", "placing"}
    <3>1. CASE \E shape : Begins(shape)
      BY <3>1 DEF Begins
    <3>2. CASE ~ \E shape : Begins(shape)
      BY <1>1, <1>2, <3>2, OuterSteps DEF Outside
    <3>3. QED
      BY <3>1, <3>2
  <2>2. QED
    BY <2>1 DEF Restored
<1>3. CASE AnalysisStep
  <2>1. tally # <<>> /\ tally' # <<>> /\ in' = in
    BY <1>1, <1>3, AnalysisKeeps DEF Keeps
  <2>2. Ground
    BY <2>1, GroundProperty
  <2>3. CASE at' \notin {"scenarios", "place", "placing"}
    BY <2>3 DEF Restored
  <2>4. CASE RegainDomains
    <3>1. PICK n \in Nat : n = Len(Ends(in.topology, tally.flows)) /\ Len(net.tail) = 2 * n
      BY <2>2, NetArcs DEF Ground
    <3>2. Len(Slots(in.topology)) <= n
      BY <2>2, <3>1 DEF Ground, EndsOK
    <3>3. cap' = Capacities(in.topology, rows, 2 * n, {}) /\ rows' = rows
      BY <2>4, <3>1 DEF RegainDomains, Raise
    <3>4. Capped(in, Capacities(in.topology, rows, 2 * n, {}), rows, {})
      BY <2>2, <3>1, <3>2, CappedProperty DEF Ground
    <3>5. Capped(in', cap', rows', {})
      BY <2>1, <3>3, <3>4
    <3>6. QED
      BY <3>5 DEF Restored
  <2>5. CASE at' \in {"scenarios", "place", "placing"} /\ ~ RegainDomains
    <3>1. BaseSolved \/ Attribute \/ PlaceFlow \/ FlowPlaced
      BY <1>3, <2>5 DEF AnalysisStep, SolveBase, SolveScenario, SolveAll, SolveFailed, LoseDomains,
         ScenarioSolved, Fail, analysis
    <3>2. at \in {"base", "scenarios", "place", "placing"} /\ cap' = cap
      BY <2>5, <3>1 DEF BaseSolved, Attribute, PlaceFlow, FlowPlaced, Answered, Reset, Solve, Fail
    <3>3. Capped(in, cap, rows, {})
      BY <2>1, <3>2 DEF CutsHeld, Restored
    <3>4. CASE BaseSolved \/ Attribute
      <4>1. Revised(rows, rows')
        BY <2>2, <3>4, RowsRevised DEF Ground
      <4>2. Capped(in, cap, rows', {})
        BY <3>3, <4>1, CappedRevised
      <4>3. QED
        BY <2>1, <3>2, <4>2 DEF Restored
    <3>5. CASE PlaceFlow \/ FlowPlaced
      <4>1. rows' = rows
        BY <3>5 DEF PlaceFlow, FlowPlaced
      <4>2. QED
        BY <2>1, <3>2, <3>3, <4>1 DEF Restored
    <3>6. QED
      BY <3>1, <3>4, <3>5
  <2>6. QED
    BY <2>3, <2>4, <2>5
<1>4. CASE Solving \/ Cancelling \/ UNCHANGED evaluation
  <2>1. UNCHANGED <<in, at, rows, tally>> /\ UNCHANGED cap
    BY <1>4 DEF Solving, Cancelling, Cancel, evaluation, analysis, flowVars, Step, Scan, Levelled, Advance,
       Retreat, Augment, LimitReached, Finish
  <2>2. QED
    BY <2>1 DEF Restored
<1>5. QED
  BY <1>2, <1>3, <1>4 DEF Next, Evaluate

\* In every reachable evaluation flows are placed over what is in place.
THEOREM RestoredInvariant == Spec => []Restored
<1>1. Init => Restored
  BY DEF Init, Restored
<1>2. EngineInv /\ CutsHeld /\ Restored /\ [Next]_evaluation => Restored'
  BY RestoredStep
<1>3. QED
  BY <1>1, <1>2, EngineInvariant, CutsInvariant, PTL DEF Spec

\* A solve for a single flow pushes all that is deliverable of what it asks for.
LEMMA SoleIsPushed ==
  ASSUME EngineInv, ConservedInv, SharesInv, CutsHeld, Restored, SoleHeld, tally # <<>>, Alone,
         at = "placing", solver = "solved", Representable
  PROVE  total = Sought
<1>1. SolverInv /\ CallOK /\ Ground
  BY GroundProperty DEF Ground, SolverInv
<1>2. /\ call.limit = Sought /\ call.source = Out_(Sole.source) /\ call.sink = In(Sole.sink)
      /\ Leaving(call.source) = total
  BY DEF SoleHeld
<1>3. call.limit \in Nat /\ call.limit < U64Max /\ total \in Nat /\ total <= call.limit
  BY <1>1, CheckedAssumption DEF SharesInv, CallOK
<1>4. CASE total = call.limit
  BY <1>2, <1>4
<1>5. CASE total # call.limit
  <2>1. SaturatedCut
    BY <1>1, <1>5 DEF SolverInv, AnswerIsMaximal
  <2>2. Full(Ranked)
    BY <2>1 DEF Full, Ranked, SaturatedCut, Cut, From
  <2>3. Sources = {Sole.source} /\ Sinks = {Sole.sink}
    <3>1. PICK n \in Nat : n = Len(tally.flows) /\ DOMAIN tally.flows = 1 .. n
      BY <1>1, ListProperty DEF Ground
    <3>2. DOMAIN tally.flows = {1}
      BY <3>1 DEF Alone
    <3>3. QED
      BY <3>2 DEF Sources, Sinks, Sole
  <2>4. Parts(Ranked, call.source)
    BY <1>2, <2>1, <2>3 DEF Parts, SaturatedCut
  <2>5. Off(FlowEnds)
    BY DEF ConservedInv
  <2>6. \A v \in Ranked \ {call.source} : Leaving(v) = 0
    <3>1. FlowEnds = {call.source, call.sink}
      BY <1>2, <2>3 DEF FlowEnds
    <3>2. Ranked \subseteq net.nodes /\ call.sink \notin Ranked
      BY <2>1 DEF Ranked, SaturatedCut
    <3>3. QED
      BY <2>5, <3>1, <3>2 DEF Off
  <2>7. Capped(in, cap, rows, {}) /\ Filled(in.topology, rows, cap)
    BY DEF Restored, CutsHeld
  <2>8. PICK cut \in Separating(in.topology, Sources, Sinks, {}) : Weigh(UnitsOf, cut) <= Leaving(call.source)
    <3>1. {} \in SUBSET SlotSet
      OBVIOUS
    <3>2. QED
      BY <2>2, <2>4, <2>6, <2>7, <3>1, StrongDuality
  <2>9. MinimumCut({}) <= total
    <3>1. {} \in SUBSET SlotSet
      OBVIOUS
    <3>2. MinimumCut({}) \in Nat /\ MinimumCut({}) <= Weigh(UnitsOf, cut) /\ Weigh(UnitsOf, cut) \in Nat
      BY <1>1, <3>1, LeastCutProperty
    <3>3. QED
      BY <1>2, <1>3, <2>8, <3>2
  <2>10. tally.deliverable <= MinimumCut({}) /\ tally.deliverable \in Nat
    <3>1. LeastSoFar /\ tally.scenarios = <<>>
      BY DEF CutsHeld, Searched
    <3>2. {} \in LossesToSurvive
      <4>1. tally.resilience \in Resiliences /\ TypedCatalogs(in) /\ Derivable(in)
        BY DEF CutsHeld, EngineInv, RowsHeld
      <4>2. PICK s : s = Scenarios(in.topology, rows, tally.resilience)
        OBVIOUS
      <4>3. {{}} \cup Range(s) = LossesToSurvive
        BY <1>1, <4>1, <4>2, ScenariosProperty DEF LossesToSurvive
      <4>4. QED
        BY <4>3
    <3>3. Range(tally.scenarios) = {}
      BY <3>1 DEF Range
    <3>4. tally.deliverable \in Nat
      BY DEF SharesInv, Shared
    <3>5. QED
      BY <3>1, <3>2, <3>3, <3>4 DEF LeastSoFar
  <2>11. Sought <= tally.deliverable
    <3>1. PICK d, w : d = tally.deliverable /\ w = QuantizeDown(Sole.magnitude, tally.granularity)
      OBVIOUS
    <3>2. d \in Nat /\ Sought = IF w < d THEN w ELSE d
      BY <2>10, <3>1 DEF Sought
    <3>3. Sought \in Nat
      BY <1>2, <1>3
    <3>4. PICK x : x = Sought
      OBVIOUS
    <3>5. x \in Nat /\ x = IF w < d THEN w ELSE d
      BY <3>2, <3>3, <3>4
    <3>6. Sole.magnitude \in Nat /\ tally.granularity \in Nat
      <4>1. FlowsOK(in, tally.flows, tally.granularity)
        BY DEF EngineInv, NetHeld
      <4>2. 1 \in DOMAIN tally.flows
        <5>1. PICK n \in Nat : n = Len(tally.flows) /\ DOMAIN tally.flows = 1 .. n
          BY <1>1, ListProperty DEF Ground
        <5>2. QED
          BY <5>1 DEF Alone
      <4>3. QED
        BY <4>1, <4>2 DEF FlowsOK, Sole
    <3>7. w \in Nat
      BY <3>1, <3>6, QuantizeProperty
    <3>8. x <= d
      BY <3>2, <3>5, <3>7
    <3>9. QED
      BY <3>1, <3>4, <3>8
  <2>12. PICK d, c : d = tally.deliverable /\ c = MinimumCut({})
    OBVIOUS
  <2>13. d \in Nat /\ d <= c /\ c <= total /\ call.limit <= d /\ c \in Nat
    <3>1. {} \in SUBSET SlotSet
      OBVIOUS
    <3>2. MinimumCut({}) \in Nat
      BY <1>1, <3>1, LeastCutProperty
    <3>3. QED
      BY <1>2, <2>9, <2>10, <2>11, <2>12, <3>2
  <2>14. QED
    BY <1>3, <1>5, <2>13
<1>6. QED
  BY <1>4, <1>5

\* What a step of the analysis keeps of what it places.
LEMMA PlacesKept ==
  ASSUME FormInv, AnalysisStep
  PROVE  /\ tally'.singleSlice = tally.singleSlice
         /\ FlowPlaced \/ tally'.fits = tally.fits
         /\ Attribute \/ FlowPlaced \/ tally'.budget = tally.budget
<1>1. DOMAIN tally = TallyFields
  BY AnalysisKeeps DEF Keeps, FormInv
<1>2. CASE UNCHANGED tally
  BY <1>2
<1>3. CASE SolveBase \/ SolveScenario \/ SolveFailed \/ LoseDomains \/ RegainDomains
  BY <1>2, <1>3 DEF SolveBase, SolveScenario, SolveAll, SolveFailed, LoseDomains, RegainDomains, analysis
<1>4. CASE BaseSolved /\ tally' # tally
  <2> DEFINE Used_ == [i \in DOMAIN rows |->
                        IF rows[i].resource \in Range(Slots(in.topology))
                          THEN ArcFlow(SlotArc(in.topology, rows[i].resource)) ELSE 0]
  <2>1. PICK s : tally' = [tally EXCEPT !.base = total, !.deliverable = total, !.scenarios = s,
                                        !.used = Used_]
    BY <1>4 DEF BaseSolved
  <2> HIDE DEF Used_
  <2>2. QED
    BY <1>1, <2>1 DEF TallyFields
<1>5. CASE ScenarioSolved
  BY <1>1, <1>5 DEF ScenarioSolved, TallyFields
<1>6. CASE Attribute /\ tally' # tally
  <2>1. PICK b, r, u : tally' = [tally EXCEPT !.breakdown = b, !.reservedStranded = r, !.budget = u]
    BY <1>6 DEF Attribute
  <2>2. QED
    BY <1>1, <1>6, <2>1 DEF TallyFields
<1>7. CASE PlaceFlow /\ tally' # tally
  <2>1. tally' = [tally EXCEPT !.quantized = @ + Wanted]
    BY <1>7 DEF PlaceFlow
  <2>2. QED
    BY <1>1, <2>1 DEF TallyFields
<1>8. CASE FlowPlaced /\ tally' # tally
  <2>1. PICK g, b, s, f : tally' = [tally EXCEPT !.granularityLoss = g, !.budget = b, !.satisfied = s,
                                                 !.fits = Append(@, f)]
    BY <1>8 DEF FlowPlaced
  <2>2. QED
    BY <1>1, <1>8, <2>1 DEF TallyFields
<1>9. QED
  BY <1>2, <1>3, <1>4, <1>5, <1>6, <1>7, <1>8 DEF AnalysisStep

\* What a flow that is placed adds to the grants.
LEMMA PlacedGrant ==
  ASSUME FormInv, FlowPlaced, at' = "place"
  PROVE  \E f : /\ tally'.fits = Append(tally.fits, f)
                /\ f.admitted = LET whole == QuantizeDown(total, tally.granularity)
                                IN  IF tally.singleSlice /\ whole < Placing.magnitude THEN 0 ELSE whole
<1>1. PICK admitted : admitted = LET whole == QuantizeDown(total, tally.granularity)
                                 IN  IF tally.singleSlice /\ whole < Placing.magnitude THEN 0 ELSE whole
  OBVIOUS
<1>2. PICK f : f = [id |-> Placing.id, admitted |-> admitted,
                    unmet |-> Placing.magnitude - admitted,
                    satisfied |-> admitted >= Placing.magnitude]
  OBVIOUS
<1>3. tally' = [tally EXCEPT
                  !.granularityLoss = @ + (total - admitted), !.budget = @ - total,
                  !.satisfied = @ + admitted, !.fits = Append(@, f)]
  BY <1>1, <1>2 DEF FlowPlaced, Fail
<1>4. tally # <<>> /\ DOMAIN tally = TallyFields
  BY DEF FlowPlaced, FormInv
<1>5. tally'.fits = Append(tally.fits, f)
  BY <1>3, <1>4 DEF TallyFields
<1>6. QED
  BY <1>1, <1>2, <1>5

\* What only the inputs of the analysis and what it found decide.
LEMMA SameSole ==
  ASSUME tally'.flows = tally.flows, tally'.granularity = tally.granularity,
         tally'.singleSlice = tally.singleSlice, tally'.deliverable = tally.deliverable
  PROVE  (Alone' <=> Alone) /\ Sole' = Sole /\ Sought' = Sought /\ Granted' = Granted
<1>1. Sole' = Sole /\ (Alone' <=> Alone)
  BY DEF Sole, Alone
<1>2. Sought' = Sought
  BY <1>1 DEF Sought
<1>3. Granted' = Granted
  BY <1>1, <1>2 DEF Granted
<1>4. QED
  BY <1>1, <1>2, <1>3

\* A list of grants that is shorter than one flow is empty.
LEMMA NoGrant ==
  ASSUME FormInv, tally # <<>>, Alone
  PROVE  (Len(tally.fits) < Len(tally.flows) <=> tally.fits = <<>>)
<1>1. PICK S : tally.fits \in Seq(S)
  BY DEF FormInv
<1>2. tally.fits = <<>> <=> Len(tally.fits) = 0
  BY <1>1
<1>3. Len(tally.fits) \in Nat
  BY <1>1
<1>4. QED
  BY <1>2, <1>3 DEF Alone

\* Steps of the analysis place a single flow over what is deliverable.
LEMMA SoleAnalysed ==
  ASSUME EngineInv, SolverInv', ConservedInv, SharesInv, CutsHeld, Restored, SoleHeld, AnalysisStep, Alone
  PROVE  SoleHeld'
<1>1. FormInv /\ tally # <<>> /\ tally' # <<>> /\ tally'.flows = tally.flows
      /\ tally'.granularity = tally.granularity /\ tally'.singleSlice = tally.singleSlice
  <2>1. FormInv
    BY DEF EngineInv, EvaluationInv
  <2>2. QED
    BY <2>1, AnalysisKeeps, PlacesKept DEF Keeps
<1>2. FlowPlaced \/ tally'.fits = tally.fits
  BY <1>1, PlacesKept
<1>3. Sole' = Sole /\ (Alone' <=> Alone)
  BY <1>1 DEF Sole, Alone
<1>4. CASE at' = "done"
  <2>1. answer'.status # "ok"
    BY <1>4 DEF AnalysisStep, SolveBase, SolveScenario, SolveAll, SolveFailed, BaseSolved, LoseDomains,
       ScenarioSolved, RegainDomains, Attribute, PlaceFlow, FlowPlaced, Fail, analysis, Answered
  <2>2. ~ Settled'
    BY <1>4, <2>1 DEF Settled
  <2>3. QED
    BY <1>4, <2>2 DEF SoleHeld
<1>5. CASE at' # "done" /\ (SolveBase \/ SolveScenario \/ SolveFailed \/ BaseSolved \/ LoseDomains
                              \/ ScenarioSolved \/ RegainDomains)
  <2>1. at \in {"base", "scenarios", "lost", "regain"} /\ at' \in {"base", "scenarios", "lost", "regain"}
        /\ ~ FlowPlaced
    BY <1>5 DEF SolveBase, SolveScenario, SolveAll, SolveFailed, BaseSolved, LoseDomains, ScenarioSolved,
       RegainDomains, FlowPlaced, Fail, analysis
  <2>2. tally'.fits = <<>>
    BY <1>1, <1>2, <2>1 DEF SoleHeld
  <2>3. ~ Settled'
    BY <2>1 DEF Settled
  <2>4. QED
    BY <2>1, <2>2, <2>3 DEF SoleHeld
<1>6. CASE at' # "done" /\ Attribute
  <2>1. at = "scenarios" /\ at' = "place" /\ net' = net /\ flow' = NoFlow(net) /\ ~ FlowPlaced
    BY <1>6 DEF Attribute, FlowPlaced, Reset, Fail
  <2>2. tally'.fits = <<>>
    BY <1>1, <1>2, <2>1 DEF SoleHeld
  <2>3. tally'.budget = tally.deliverable /\ tally'.deliverable = tally.deliverable
    <3>1. PICK b, r : tally' = [tally EXCEPT !.breakdown = b, !.reservedStranded = r,
                                             !.budget = tally.deliverable]
      BY <1>6, <2>1 DEF Attribute, Fail
    <3>2. DOMAIN tally = TallyFields
      BY <1>1 DEF FormInv
    <3>3. QED
      BY <3>1, <3>2 DEF TallyFields
  <2>4. ~ Settled'
    BY <2>1, <2>2 DEF Settled
  <2>5. tally'.budget = tally'.deliverable /\ flow' = NoFlow(net')
    BY <2>1, <2>3
  <2>6. QED
    BY <2>1, <2>2, <2>4, <2>5 DEF SoleHeld
<1>7. CASE at' # "done" /\ PlaceFlow
  <2>1. /\ at = "place" /\ at' = "placing" /\ Len(tally.fits) < Len(tally.flows) /\ ~ FlowPlaced
        /\ Solve(Out_(Placing.source), In(Placing.sink),
                 IF Wanted < tally.budget THEN Wanted ELSE tally.budget, in.limits.work)
    BY <1>7 DEF PlaceFlow, FlowPlaced, Fail
  <2>2. tally.fits = <<>> /\ tally'.fits = <<>>
    BY <1>1, <1>2, <2>1, NoGrant
  <2>3. tally.budget = tally.deliverable /\ flow = NoFlow(net)
    BY <1>1, <2>1, <2>2 DEF SoleHeld
  <2>4. tally'.deliverable = tally.deliverable
    BY <1>1, <1>7, <2>1, AnalysisKeepsFound DEF BaseSolved, ScenarioSolved
  <2>5. Sought' = Sought
    BY <1>1, <2>4, SameSole
  <2>6. Placing = Sole
    <3>1. Len(tally.fits) = 0
      BY <2>2
    <3>2. QED
      BY <3>1 DEF Placing, Sole
  <2>7. (IF Wanted < tally.budget THEN Wanted ELSE tally.budget) = Sought
    BY <2>3, <2>6 DEF Wanted, Sought
  <2>8. /\ call'.limit = Sought /\ call'.source = Out_(Sole.source) /\ call'.sink = In(Sole.sink)
        /\ total' = 0 /\ UNCHANGED <<net, flow>>
    BY <2>1, <2>6, <2>7 DEF Solve
  <2>9. Leaving(call.source)' = total'
    <3>1. \A v : Leaving(v)' = 0
      BY <2>3, <2>8, StillNext
    <3>2. Leaving(call.source)' = 0
      BY <3>1 DEF Leaving, Out
    <3>3. QED
      BY <2>8, <3>2
  <2>10. ~ Settled'
    BY <2>1 DEF Settled
  <2>11. call'.limit = Sought' /\ call'.source = Out_(Sole'.source) /\ call'.sink = In(Sole'.sink)
    BY <1>3, <2>5, <2>8
  <2>12. QED
    BY <2>1, <2>2, <2>9, <2>10, <2>11 DEF SoleHeld
<1>8. CASE at' # "done" /\ FlowPlaced
  <2>1. at = "placing" /\ at' = "place" /\ rows' = rows /\ solver = "solved"
    BY <1>8 DEF FlowPlaced, Fail
  <2>2. PICK f : /\ tally'.fits = Append(tally.fits, f)
                 /\ f.admitted = LET whole == QuantizeDown(total, tally.granularity)
                                 IN  IF tally.singleSlice /\ whole < Placing.magnitude THEN 0 ELSE whole
    BY <1>1, <1>8, <2>1, PlacedGrant
  <2>3. tally.fits = <<>>
    BY <1>1, <2>1 DEF SoleHeld
  <2>4. tally'.fits = <<f>>
    BY <2>2, <2>3
  <2>5. Placing = Sole
    <3>1. Len(tally.fits) = 0
      BY <2>3
    <3>2. QED
      BY <3>1 DEF Placing, Sole
  <2>6. ASSUME Representable PROVE f.admitted = Granted
    <3>1. total = Sought
      BY <1>1, <2>1, <2>6, SoleIsPushed
    <3>2. QED
      BY <2>2, <2>5, <3>1 DEF Granted
  <2>7. tally'.deliverable = tally.deliverable
    BY <1>1, <2>1, AnalysisKeepsFound DEF BaseSolved, ScenarioSolved
  <2>8. Granted' = Granted
    BY <1>1, <2>7, SameSole
  <2>9. Representable' <=> Representable
    BY <2>1 DEF Representable
  <2>10. tally'.fits # <<>> /\ tally'.fits[1] = f
    BY <2>4
  <2>11. QED
    BY <2>1, <2>6, <2>8, <2>9, <2>10 DEF SoleHeld
<1>9. QED
  BY <1>4, <1>5, <1>6, <1>7, <1>8 DEF AnalysisStep

\* So does every step.
LEMMA SoleStep ==
  ASSUME EngineInv, EngineInv', ConservedInv, SharesInv, CutsHeld, Restored, SoleHeld, [Next]_evaluation
  PROVE  SoleHeld'
<1>1. PredictionInv /\ FormInv /\ SolverInv /\ Connected /\ SolverInv'
  BY DEF EngineInv, EvaluationInv
<1>2. CASE Validate \/ Account \/ Analyse \/ Query \/ Predict \/ Analysed \/ Close
  <2>1. CASE \E shape : Begins(shape)
    <3>1. at' = "base" /\ tally'.fits = <<>>
      BY <2>1 DEF Begins, FreshTally
    <3>2. ~ Settled'
      BY <3>1 DEF Settled
    <3>3. QED
      BY <3>1, <3>2 DEF SoleHeld
  <2>2. CASE ~ (\E shape : Begins(shape)) /\ tally # <<>> /\ Alone
    <3>1. Outside
      BY <1>1, <1>2, <2>2, OuterSteps
    <3>2. /\ UNCHANGED <<in, tally, rows>>
          /\ at' \notin {"base", "scenarios", "lost", "regain", "place", "placing"}
      BY <2>2, <3>1 DEF Outside
    <3>3. Granted' = Granted
      BY <3>2, SameSole
    <3>4. Settled' => Settled
      <4>1. Analysed \/ Close
        BY <1>1, <1>2, <2>2 DEF FormInv, Validate, Account, Analyse, Query, Predict
      <4>2. CASE Analysed
        <5>1. at = "place" /\ ~ (Len(tally.fits) < Len(tally.flows))
          BY <2>2, <4>2 DEF Analysed, AllPlaced, Alone
        <5>2. QED
          BY <1>1, <2>2, <5>1, NoGrant DEF Settled
      <4>3. CASE Close
        BY <4>3 DEF Close, Settled
      <4>4. QED
        BY <4>1, <4>2, <4>3
    <3>5. Representable' <=> Representable
      BY <3>2 DEF Representable
    <3>6. Representable' /\ Settled' => tally'.fits[1].admitted = Granted'
      BY <2>2, <3>2, <3>3, <3>4, <3>5 DEF SoleHeld
    <3>7. QED
      BY <3>2, <3>6 DEF SoleHeld
  <2>3. CASE ~ (\E shape : Begins(shape)) /\ ~ (tally # <<>> /\ Alone)
    <3>1. tally' = tally
      BY <1>1, <1>2, <2>3, OuterSteps DEF Outside
    <3>2. QED
      BY <2>3, <3>1 DEF SoleHeld, Alone
  <2>4. QED
    BY <2>1, <2>2, <2>3
<1>3. CASE AnalysisStep
  <2>1. CASE Alone
    BY <1>1, <1>3, <2>1, SoleAnalysed
  <2>2. CASE ~ Alone
    BY <1>1, <1>3, <2>2, AnalysisKeeps DEF SoleHeld, Keeps, Alone
  <2>3. QED
    BY <2>1, <2>2
<1>4. CASE Solving \/ Cancelling \/ UNCHANGED evaluation
  <2>1. UNCHANGED <<in, at, rows, tally, answer>> /\ UNCHANGED <<net, call>>
    BY <1>4 DEF Solving, Cancelling, Cancel, evaluation, analysis, flowVars, Step, Scan, Levelled, Advance,
       Retreat, Augment, LimitReached, Finish
  <2>2. CASE ~ (tally # <<>> /\ Alone)
    BY <2>1, <2>2 DEF SoleHeld, Alone
  <2>3. CASE tally # <<>> /\ Alone
    <3>1. Sole' = Sole /\ Sought' = Sought /\ Granted' = Granted
      BY <2>1, SameSole
    <3>2. (Settled' <=> Settled) /\ (Representable' <=> Representable)
      BY <2>1 DEF Settled, Representable
    <3>3. at = "placing" => Leaving(call.source)' = total'
      <4>1. CASE Solving
        <5>1. at = "placing" => Leaving(call.source) = total
          BY <2>3 DEF SoleHeld
        <5>2. Step
          BY <4>1 DEF Solving
        <5>3. QED
          BY <1>1, <5>1, <5>2, StepConserves
      <4>2. CASE UNCHANGED <<net, flow, total, call>>
        <5>1. Leaving(call.source)' = Leaving(call.source)
          BY <4>2 DEF Leaving, Out
        <5>2. QED
          BY <2>3, <4>2, <5>1 DEF SoleHeld
      <4>3. QED
        BY <1>4, <4>1, <4>2 DEF Cancelling, Cancel, evaluation, flowVars
    <3>4. at = "place" => flow' = flow
      <4>1. CASE Solving
        <5>1. solver # "idle"
          BY <4>1 DEF Solving, Step, Scan, Levelled, Advance, Retreat, Augment, LimitReached, Finish
        <5>2. QED
          BY <1>1, <5>1 DEF FormInv
      <4>2. QED
        BY <1>4, <4>1 DEF Cancelling, Cancel, evaluation, flowVars
    <3>5. at' = "place" /\ tally'.fits = <<>> => tally'.budget = tally'.deliverable /\ flow' = NoFlow(net')
      BY <2>1, <2>3, <3>4 DEF SoleHeld
    <3>6. at' = "placing" =>
            /\ tally'.fits = <<>> /\ call'.limit = Sought'
            /\ call'.source = Out_(Sole'.source) /\ call'.sink = In(Sole'.sink)
            /\ Leaving(call.source)' = total'
      BY <2>1, <2>3, <3>1, <3>3 DEF SoleHeld
    <3>7. Representable' /\ Settled' => tally'.fits[1].admitted = Granted'
      BY <2>1, <2>3, <3>1, <3>2 DEF SoleHeld
    <3>8. at' \in {"base", "scenarios", "lost", "regain"} => tally'.fits = <<>>
      BY <2>1, <2>3 DEF SoleHeld
    <3>9. QED
      BY <3>5, <3>6, <3>7, <3>8 DEF SoleHeld
  <2>4. QED
    BY <2>2, <2>3
<1>5. QED
  BY <1>2, <1>3, <1>4 DEF Next, Evaluate

\* In every reachable evaluation a single flow is granted what its grain allows
\* of what is deliverable.
THEOREM SoleInvariant == Spec => []SoleHeld
<1>1. Init => SoleHeld
  BY DEF Init, SoleHeld
<1>2. EngineInv /\ EngineInv' /\ ConservedInv /\ SharesInv /\ CutsHeld /\ Restored /\ SoleHeld /\ [Next]_evaluation
        => SoleHeld'
  BY SoleStep
<1>3. QED
  BY <1>1, <1>2, EngineInvariant, ConservedInvariant, SharesInvariant, CutsInvariant, RestoredInvariant,
     PTL DEF Spec

\* The flow of a fit query is the query's.
LEMMA QueryBegins ==
  ASSUME PredictionInv, NEW shape, Begins(shape)
  PROVE  QueryHeld'
<1>1. in' = in /\ at' = "base"
  BY DEF Begins
<1>2. CASE in.kind = "fit"
  <2>1. shape = QueryShape(in.query) /\ in.kind # "evaluate"
    BY <1>2 DEF Begins
  <2>2. PICK s : s = Ordered(shape)
    OBVIOUS
  <2>3. PICK resilience, single : tally' = FreshTally(s, shape, resilience, single) /\ single = FALSE
    BY <1>2, <2>2 DEF Begins
  <2>4. tally'.flows = s /\ tally'.granularity = shape.granularity /\ tally'.singleSlice = FALSE
    BY <2>3 DEF FreshTally
  <2>5. PICK f : /\ shape.flows = <<f>> /\ f.magnitude = in.query.magnitude
                 /\ shape.granularity = in.query.granularity
    BY <2>1 DEF QueryShape
  <2>6. PICK p : Rearranged(s, shape.flows, p)
    BY <2>2, BegunFlows
  <2>7. DOMAIN shape.flows = {1} /\ shape.flows[1] = f
    BY <2>5
  <2>8. p[1] = 1 /\ s = [k \in {1} |-> shape.flows[p[k]]]
    BY <2>6, <2>7 DEF Rearranged
  <2>9. s[1] = f /\ DOMAIN s = 1 .. 1
    BY <2>7, <2>8
  <2>10. Len(s) = 1
    BY <2>9
  <2>11. Alone' /\ Sole' = f
    BY <2>4, <2>9, <2>10 DEF Alone, Sole
  <2>12. QED
    BY <1>1, <2>4, <2>5, <2>11 DEF QueryHeld
<1>3. CASE in.kind # "fit"
  BY <1>1, <1>3 DEF QueryHeld, Querying
<1>4. QED
  BY <1>2, <1>3

\* Every step keeps it, and the answer says whether it got what it could.
LEMMA QueryStep ==
  ASSUME EngineInv, QueryHeld, [Next]_evaluation
  PROVE  QueryHeld'
<1>1. PredictionInv /\ FormInv
  BY DEF EngineInv, EvaluationInv
<1>2. CASE Validate \/ Account \/ Analyse \/ Query \/ Predict \/ Analysed \/ Close
  <2>1. CASE \E shape : Begins(shape)
    BY <1>1, <2>1, QueryBegins
  <2>2. CASE ~ (\E shape : Begins(shape))
    <3>1. Outside
      BY <1>1, <1>2, <2>2, OuterSteps
    <3>2. UNCHANGED <<in, tally>> /\ (at' = "close" => in.kind = "evaluate")
      BY <3>1 DEF Outside
    <3>3. CASE tally # <<>> /\ Querying
      <4>1. Alone /\ Sole.magnitude = in.query.magnitude /\ tally.granularity = in.query.granularity
            /\ tally.singleSlice = FALSE /\ at # "close"
        BY <3>3 DEF QueryHeld
      <4>2. Analysed
        BY <1>1, <1>2, <3>3, <4>1 DEF FormInv, Validate, Account, Analyse, Query, Predict, Close
      <4>3. at' = "done" /\ answer'.status = "ok" => answer' = QueryAnswer(in.query)
        BY <3>3, <4>2 DEF Analysed, Fail
      <4>4. QueryAnswer(in.query).satisfiable
              = (tally.fits[1].admitted >= QuantizeDown(in.query.magnitude, in.query.granularity))
        BY DEF QueryAnswer
      <4>5. at' = "done" /\ answer'.status = "ok" =>
              (answer'.satisfiable <=> tally.fits[1].admitted >= QuantizeDown(Sole.magnitude, tally.granularity))
        BY <4>1, <4>3, <4>4
      <4>6. at' # "close"
        BY <3>2, <3>3 DEF Querying
      <4>7. Sole' = Sole /\ (Alone' <=> Alone)
        BY <3>2 DEF Sole, Alone
      <4>8. QED
        BY <3>2, <4>1, <4>5, <4>6, <4>7 DEF QueryHeld
    <3>4. CASE ~ (tally # <<>> /\ Querying)
      BY <3>2, <3>4 DEF QueryHeld, Querying
    <3>5. QED
      BY <3>3, <3>4
  <2>3. QED
    BY <2>1, <2>2
<1>3. CASE AnalysisStep
  <2>1. /\ tally # <<>> /\ tally'.flows = tally.flows /\ tally'.granularity = tally.granularity
        /\ tally'.singleSlice = tally.singleSlice /\ in' = in
    BY <1>1, <1>3, AnalysisKeeps, PlacesKept DEF Keeps
  <2>2. at' # "close" /\ (at' = "done" => answer'.status # "ok")
    <3>1. at' # "close"
      <4>1. SolveBase \/ SolveScenario => at' = at /\ at \in {"base", "lost"}
        BY DEF SolveBase, SolveScenario, SolveAll, analysis
      <4>2. QED
        BY <1>3, <4>1 DEF AnalysisStep, SolveFailed, BaseSolved, LoseDomains,
           ScenarioSolved, RegainDomains, Attribute, PlaceFlow, FlowPlaced, Fail
    <3>2. at' = "done" => answer'.status # "ok"
      BY <1>3 DEF AnalysisStep, SolveBase, SolveScenario, SolveAll, SolveFailed, BaseSolved, LoseDomains,
         ScenarioSolved, RegainDomains, Attribute, PlaceFlow, FlowPlaced, Fail, analysis, Answered
    <3>3. QED
      BY <3>1, <3>2
  <2>3. Sole' = Sole /\ (Alone' <=> Alone) /\ (Querying' <=> Querying)
    BY <2>1 DEF Sole, Alone, Querying
  <2>4. QED
    BY <2>1, <2>2, <2>3 DEF QueryHeld
<1>4. CASE Solving \/ Cancelling \/ UNCHANGED evaluation
  <2>1. UNCHANGED <<in, at, tally, answer>>
    BY <1>4 DEF Solving, Cancelling, evaluation, analysis
  <2>2. QED
    BY <2>1 DEF QueryHeld, Sole, Alone, Querying
<1>5. QED
  BY <1>2, <1>3, <1>4 DEF Next, Evaluate

\* In every reachable evaluation of a fit query.
THEOREM QueryInvariant == Spec => []QueryHeld
<1>1. Init => QueryHeld
  BY DEF Init, QueryHeld
<1>2. EngineInv /\ QueryHeld /\ [Next]_evaluation => QueryHeld'
  BY QueryStep
<1>3. QED
  BY <1>1, <1>2, EngineInvariant, PTL DEF Spec

\* What is granted is the largest quantity of the grain that survives.
LEMMA SoleIsLargest ==
  ASSUME EngineInv, CutsHeld, SoleHeld, QueryHeld, Answering, Representable, Alone
  PROVE  SingleFlowIsExact
<1>1. tally # <<>> /\ at = "done" /\ answer.status = "ok" /\ Searched /\ Settled
  BY DEF Answering, Analysing, Searched, Settled
<1>2. Ground
  BY <1>1, GroundProperty
<1>3. tally.fits[1].admitted = Granted
  BY <1>1 DEF SoleHeld
<1>4. PICK b : b = tally.deliverable /\ b \in Nat /\ b = Survivable
  <2>1. LeastSoFar /\ tally.scenarios = <<>>
    BY <1>1 DEF CutsHeld
  <2>2. tally.deliverable = Survivable
    BY <1>2, <2>1, FoundIsSurvivable
  <2>3. tally.deliverable \in Nat
    BY <1>2, <2>1, LossesAreOfSlots, LeastCutProperty DEF LeastSoFar
  <2>4. QED
    BY <2>2, <2>3
<1>5. PICK m, g : /\ m = Sole.magnitude /\ g = tally.granularity /\ m \in Nat /\ g \in Nat
  <2>1. FlowsOK(in, tally.flows, tally.granularity)
    BY <1>1 DEF EngineInv, NetHeld
  <2>2. 1 \in DOMAIN tally.flows
    <3>1. PICK n \in Nat : n = Len(tally.flows) /\ DOMAIN tally.flows = 1 .. n
      BY <1>2, ListProperty DEF Ground
    <3>2. QED
      BY <3>1 DEF Alone
  <2>3. QED
    BY <2>1, <2>2 DEF FlowsOK, Sole
<1>6. PICK S, c : /\ S = Grains(m, g)
                  /\ c = IF QuantizeDown(m, g) < b THEN QuantizeDown(m, g) ELSE b
  OBVIOUS
<1>7. QuantizeDown(m, g) = Max(S) /\ QuantizeDown(c, g) = Max({x \in S : x <= b})
  <2>1. m \in Nat /\ g \in Nat /\ b \in Nat
    BY <1>4, <1>5
  <2>2. QED
    BY <1>6, <2>1, LargestGrain
<1>8. PICK w, most : w = QuantizeDown(m, g) /\ most = QuantizeDown(c, g)
  OBVIOUS
<1>9. Granted = IF tally.singleSlice /\ most < m THEN 0 ELSE most
  <2>1. Sought = c
    BY <1>4, <1>5, <1>6 DEF Sought
  <2>2. QED
    BY <1>5, <1>8, <2>1 DEF Granted
<1>10. w \in Nat /\ most \in Nat /\ most <= w
  <2>1. w \in Nat
    BY <1>5, <1>8, QuantizeProperty
  <2>2. c \in Nat /\ c <= w
    BY <1>4, <1>6, <1>8, <2>1
  <2>3. most \in Nat /\ most <= c
    BY <1>5, <1>8, <2>2, QuantizeProperty
  <2>4. QED
    BY <2>1, <2>2, <2>3
<1>11. Querying => (answer.satisfiable <=> most = w)
  <2>1. SUFFICES ASSUME Querying PROVE answer.satisfiable <=> most = w
    OBVIOUS
  <2>2. tally.singleSlice = FALSE /\ (answer.satisfiable <=> tally.fits[1].admitted >= w)
    BY <1>1, <1>5, <1>8, <2>1 DEF QueryHeld
  <2>3. tally.fits[1].admitted = most
    BY <1>3, <1>9, <2>2
  <2>4. answer.satisfiable <=> most >= w
    BY <2>2, <2>3
  <2>5. most >= w <=> most = w
    BY <1>10
  <2>6. QED
    BY <2>4, <2>5
<1>12. /\ tally.fits[1].admitted = IF tally.singleSlice /\ Max({x \in S : x <= b}) < m
                                     THEN 0 ELSE Max({x \in S : x <= b})
       /\ Querying => (answer.satisfiable <=> Max({x \in S : x <= b}) = Max(S))
  BY <1>3, <1>7, <1>8, <1>9, <1>11
<1>13. QED
  BY <1>4, <1>5, <1>6, <1>12 DEF SingleFlowIsExact, Sole, Grains

\* Every evaluation of one flow, and every fit query, grants the largest
\* quantity of the grain that is no more than asked for and no more than what
\* is deliverable, or nothing where a single slice must have all of it; and
\* says that a query is satisfiable exactly when that is all the grain allows
\* (analyse_fragmentation's allocation and fit_query, for every fabric).
THEOREM SingleFlowsAreExact == Spec => []SingleFlowIsExact
<1>1. EngineInv /\ CutsHeld /\ SoleHeld /\ QueryHeld => SingleFlowIsExact
  <2>1. SUFFICES ASSUME EngineInv, CutsHeld, SoleHeld, QueryHeld PROVE SingleFlowIsExact
    OBVIOUS
  <2>2. CASE Answering /\ Representable /\ Alone
    BY <2>1, <2>2, SoleIsLargest
  <2>3. CASE ~ (Answering /\ Representable /\ Alone)
    BY <2>3 DEF SingleFlowIsExact, Alone
  <2>4. QED
    BY <2>2, <2>3
<1>2. QED
  BY <1>1, EngineInvariant, CutsInvariant, SoleInvariant, QueryInvariant, PTL

-----------------------------------------------------------------------------
(* What lies on a walk of the shape *)

\* The pairs of ends are those of the slots, and the links.
LEMMA EndPairs ==
  ASSUME NEW t, NEW flows, EndsOK(t, flows), EndsAre(t, flows), IsList(Slots(t))
  PROVE  /\ \A p \in Range(Ends(t, flows)) :
              \/ p \in Links(t, flows)
              \/ \E s \in Range(Slots(t)) : p = <<SlotIn(s), SlotOut(s)>>
         /\ Links(t, flows) \subseteq Range(Ends(t, flows))
         /\ \A s \in Range(Slots(t)) : <<SlotIn(s), SlotOut(s)>> \in Range(Ends(t, flows))
<1>1. PICK ends, slots : ends = Ends(t, flows) /\ slots = Slots(t)
  OBVIOUS
<1>2. ASSUME NEW p \in Range(ends)
      PROVE  p \in Links(t, flows) \/ \E s \in Range(slots) : p = <<SlotIn(s), SlotOut(s)>>
  <2>1. PICK e \in DOMAIN ends : p = ends[e]
    BY DEF Range
  <2>2. CASE e > Len(slots)
    BY <1>1, <2>1, <2>2 DEF EndsAre
  <2>3. CASE ~ e > Len(slots)
    <3>1. e \in DOMAIN slots /\ ends[e] = <<SlotIn(slots[e]), SlotOut(slots[e])>>
      BY <1>1, <2>3 DEF EndsOK
    <3>2. QED
      BY <2>1, <3>1 DEF Range
  <2>4. QED
    BY <2>2, <2>3
<1>3. Links(t, flows) \subseteq Range(ends)
  BY <1>1 DEF EndsAre, Range
<1>4. ASSUME NEW s \in Range(slots) PROVE <<SlotIn(s), SlotOut(s)>> \in Range(ends)
  <2>1. PICK e \in DOMAIN slots : s = slots[e]
    BY DEF Range
  <2>2. PICK n \in Nat, m \in Nat : DOMAIN ends = 1 .. n /\ DOMAIN slots = 1 .. m /\ m = Len(slots) /\ m <= n
    BY <1>1, ListProperty DEF EndsOK
  <2>3. e \in DOMAIN ends /\ ~ e > Len(slots)
    BY <2>2
  <2>4. ends[e] = <<SlotIn(slots[e]), SlotOut(slots[e])>>
    BY <1>1, <2>3 DEF EndsOK
  <2>5. QED
    BY <2>1, <2>3, <2>4 DEF Range
<1>5. QED
  BY <1>1, <1>2, <1>3, <1>4

\* Nodes that are left (L) and entered (A), and slots that are passed (E), as
\* vertices.
Zone(L, A, E) ==
  {SuperSource, SuperSink} \cup {Out_(x) : x \in L} \cup {In(x) : x \in A}
    \cup {SlotIn(s) : s \in E} \cup {SlotOut(s) : s \in E}

LEMMA ZoneProperty ==
  ASSUME NEW L, NEW A, NEW E
  PROVE  /\ SuperSource \in Zone(L, A, E) /\ SuperSink \in Zone(L, A, E)
         /\ \A x : (Out_(x) \in Zone(L, A, E) <=> x \in L) /\ (In(x) \in Zone(L, A, E) <=> x \in A)
         /\ \A s : (SlotIn(s) \in Zone(L, A, E) <=> s \in E) /\ (SlotOut(s) \in Zone(L, A, E) <=> s \in E)
BY DEF Zone, In, Out_, SlotIn, SlotOut, SuperSource, SuperSink

\* Links lead on where nodes and slots do.
LEMMA ZoneOnward ==
  ASSUME NEW t, NEW flows, NEW L, NEW A, NEW E,
         \A i \in DOMAIN flows : flows[i].source \in L,
         \A i \in DOMAIN t.nodes : t.nodes[i].id \in A =>
           IF t.nodes[i].transit = None THEN t.nodes[i].id \in L ELSE t.nodes[i].transit \in E,
         \A i \in Transits(t.nodes) : t.nodes[i].transit \in E => t.nodes[i].id \in L,
         \A i \in DOMAIN t.edges : /\ t.edges[i].from \in L => t.edges[i].resource \in E
                                   /\ t.edges[i].resource \in E => t.edges[i].to \in A,
         NEW p \in Links(t, flows), p[1] \in Zone(L, A, E)
  PROVE  p[2] \in Zone(L, A, E)
<1>1. PICK Z : Z = Zone(L, A, E)
  OBVIOUS
<1>2. /\ SuperSource \in Z /\ SuperSink \in Z
      /\ \A x : (Out_(x) \in Z <=> x \in L) /\ (In(x) \in Z <=> x \in A)
      /\ \A s : (SlotIn(s) \in Z <=> s \in E) /\ (SlotOut(s) \in Z <=> s \in E)
  BY <1>1, ZoneProperty
<1>3. CASE NodeLink(t, p)
  <2>1. PICK i \in DOMAIN t.nodes :
          \/ t.nodes[i].transit = None /\ p = <<In(t.nodes[i].id), Out_(t.nodes[i].id)>>
          \/ /\ t.nodes[i].transit # None
             /\ \/ p = <<In(t.nodes[i].id), SlotIn(t.nodes[i].transit)>>
                \/ p = <<SlotOut(t.nodes[i].transit), Out_(t.nodes[i].id)>>
    BY <1>3 DEF NodeLink
  <2>2. CASE p = <<In(t.nodes[i].id), Out_(t.nodes[i].id)>> /\ t.nodes[i].transit = None
    BY <1>1, <1>2, <2>2
  <2>3. CASE p = <<In(t.nodes[i].id), SlotIn(t.nodes[i].transit)>> /\ t.nodes[i].transit # None
    BY <1>1, <1>2, <2>3
  <2>4. CASE p = <<SlotOut(t.nodes[i].transit), Out_(t.nodes[i].id)>> /\ t.nodes[i].transit # None
    BY <1>1, <1>2, <2>4 DEF Transits
  <2>5. QED
    BY <2>1, <2>2, <2>3, <2>4
<1>4. CASE EdgeLink(t, p)
  BY <1>1, <1>2, <1>4 DEF EdgeLink
<1>5. CASE FlowLink(flows, p)
  BY <1>1, <1>2, <1>5 DEF FlowLink
<1>6. QED
  BY <1>3, <1>4, <1>5, LinkKinds

\* And come from where they do.
LEMMA ZoneBack ==
  ASSUME NEW t, NEW flows, NEW L, NEW A, NEW E,
         \A i \in DOMAIN flows : flows[i].sink \in A,
         \A i \in DOMAIN t.nodes : t.nodes[i].id \in L =>
           IF t.nodes[i].transit = None THEN t.nodes[i].id \in A ELSE t.nodes[i].transit \in E,
         \A i \in Transits(t.nodes) : t.nodes[i].transit \in E => t.nodes[i].id \in A,
         \A i \in DOMAIN t.edges : /\ t.edges[i].to \in A => t.edges[i].resource \in E
                                   /\ t.edges[i].resource \in E => t.edges[i].from \in L,
         NEW p \in Links(t, flows), p[2] \in Zone(L, A, E)
  PROVE  p[1] \in Zone(L, A, E)
<1>1. PICK Z : Z = Zone(L, A, E)
  OBVIOUS
<1>2. /\ SuperSource \in Z /\ SuperSink \in Z
      /\ \A x : (Out_(x) \in Z <=> x \in L) /\ (In(x) \in Z <=> x \in A)
      /\ \A s : (SlotIn(s) \in Z <=> s \in E) /\ (SlotOut(s) \in Z <=> s \in E)
  BY <1>1, ZoneProperty
<1>3. CASE NodeLink(t, p)
  <2>1. PICK i \in DOMAIN t.nodes :
          \/ t.nodes[i].transit = None /\ p = <<In(t.nodes[i].id), Out_(t.nodes[i].id)>>
          \/ /\ t.nodes[i].transit # None
             /\ \/ p = <<In(t.nodes[i].id), SlotIn(t.nodes[i].transit)>>
                \/ p = <<SlotOut(t.nodes[i].transit), Out_(t.nodes[i].id)>>
    BY <1>3 DEF NodeLink
  <2>2. CASE p = <<In(t.nodes[i].id), Out_(t.nodes[i].id)>> /\ t.nodes[i].transit = None
    BY <1>1, <1>2, <2>2
  <2>3. CASE p = <<In(t.nodes[i].id), SlotIn(t.nodes[i].transit)>> /\ t.nodes[i].transit # None
    BY <1>1, <1>2, <2>3 DEF Transits
  <2>4. CASE p = <<SlotOut(t.nodes[i].transit), Out_(t.nodes[i].id)>> /\ t.nodes[i].transit # None
    BY <1>1, <1>2, <2>4
  <2>5. QED
    BY <2>1, <2>2, <2>3, <2>4
<1>4. CASE EdgeLink(t, p)
  BY <1>1, <1>2, <1>4 DEF EdgeLink
<1>5. CASE FlowLink(flows, p)
  BY <1>1, <1>2, <1>5 DEF FlowLink
<1>6. QED
  BY <1>3, <1>4, <1>5, LinkKinds

\* What is in reach of all sources.
LEMMA ReachOnward ==
  ASSUME NEW t, TopologyOK(t), NEW flows, EndsOK(t, flows), EndsAre(t, flows), IsList(Slots(t)),
         NEW R, NEW N, ReachOK(R, Range(Ends(t, flows)), SuperSource, N)
  PROVE  /\ \A i \in DOMAIN flows : Out_(flows[i].source) \in R
         /\ \A i \in DOMAIN t.nodes : In(t.nodes[i].id) \in R =>
              /\ Out_(t.nodes[i].id) \in R
              /\ t.nodes[i].transit # None => SlotIn(t.nodes[i].transit) \in R
         /\ \A i \in DOMAIN t.edges :
              /\ Out_(t.edges[i].from) \in R => SlotIn(t.edges[i].resource) \in R
              /\ SlotIn(t.edges[i].resource) \in R => In(t.edges[i].to) \in R
<1>1. ASSUME NEW u, NEW v, <<u, v>> \in Links(t, flows), u \in R PROVE v \in R
  <2>1. <<u, v>> \in Range(Ends(t, flows))
    BY <1>1, EndPairs
  <2>2. <<u, v>>[1] \in R => <<u, v>>[2] \in R
    BY <2>1 DEF ReachOK
  <2>3. QED
    BY <1>1, <2>2
<1>2. ASSUME NEW s \in Range(Slots(t)), SlotIn(s) \in R PROVE SlotOut(s) \in R
  <2>1. PICK u, v : u = SlotIn(s) /\ v = SlotOut(s)
    OBVIOUS
  <2>2. <<u, v>> \in Range(Ends(t, flows))
    BY <2>1, EndPairs
  <2>3. <<u, v>>[1] \in R => <<u, v>>[2] \in R
    BY <2>2 DEF ReachOK
  <2>4. QED
    BY <1>2, <2>1, <2>3
<1>3. LinksAre(t, flows)
  BY LinkKinds
<1>4. \A i \in DOMAIN flows : Out_(flows[i].source) \in R
  BY <1>1, <1>3 DEF LinksAre, ReachOK
<1>5. ASSUME NEW i \in DOMAIN t.nodes, In(t.nodes[i].id) \in R
      PROVE  /\ Out_(t.nodes[i].id) \in R
             /\ t.nodes[i].transit # None => SlotIn(t.nodes[i].transit) \in R
  <2>1. CASE t.nodes[i].transit = None
    BY <1>1, <1>3, <1>5, <2>1 DEF LinksAre
  <2>2. CASE t.nodes[i].transit # None
    <3>1. PICK s : s = t.nodes[i].transit /\ s \in Range(Slots(t))
      BY <2>2 DEF TopologyOK, Transits
    <3>2. <<In(t.nodes[i].id), SlotIn(s)>> \in Links(t, flows) /\ <<SlotOut(s), Out_(t.nodes[i].id)>> \in Links(t, flows)
      BY <1>3, <2>2, <3>1 DEF LinksAre
    <3>3. SlotIn(s) \in R
      BY <1>1, <1>5, <3>2
    <3>4. SlotOut(s) \in R
      BY <1>2, <3>1, <3>3
    <3>5. QED
      BY <1>1, <3>1, <3>2, <3>3, <3>4
  <2>3. QED
    BY <2>1, <2>2
<1>6. ASSUME NEW i \in DOMAIN t.edges
      PROVE  /\ Out_(t.edges[i].from) \in R => SlotIn(t.edges[i].resource) \in R
             /\ SlotIn(t.edges[i].resource) \in R => In(t.edges[i].to) \in R
  <2>1. PICK s : s = t.edges[i].resource /\ s \in Range(Slots(t))
    BY DEF TopologyOK
  <2>2. /\ <<Out_(t.edges[i].from), SlotIn(s)>> \in Links(t, flows)
        /\ <<SlotOut(s), In(t.edges[i].to)>> \in Links(t, flows)
    BY <1>3, <2>1 DEF LinksAre
  <2>3. QED
    BY <1>1, <1>2, <2>1, <2>2
<1>7. QED
  BY <1>4, <1>5, <1>6

\* What all sinks are in reach of.
LEMMA ReachBack ==
  ASSUME NEW t, TopologyOK(t), NEW flows, EndsOK(t, flows), EndsAre(t, flows), IsList(Slots(t)),
         NEW R, NEW N, ReachOK(R, Reversed(Range(Ends(t, flows))), SuperSink, N)
  PROVE  /\ \A i \in DOMAIN flows : In(flows[i].sink) \in R
         /\ \A i \in DOMAIN t.nodes : Out_(t.nodes[i].id) \in R =>
              /\ In(t.nodes[i].id) \in R
              /\ t.nodes[i].transit # None => SlotOut(t.nodes[i].transit) \in R
         /\ \A i \in DOMAIN t.edges :
              /\ In(t.edges[i].to) \in R => SlotOut(t.edges[i].resource) \in R
              /\ SlotOut(t.edges[i].resource) \in R => Out_(t.edges[i].from) \in R
<1>0. ASSUME NEW u, NEW v, <<u, v>> \in Range(Ends(t, flows)), v \in R PROVE u \in R
  <2>1. <<<<u, v>>[2], <<u, v>>[1]>> \in Reversed(Range(Ends(t, flows)))
    BY <1>0 DEF Reversed
  <2>2. PICK p : p = <<v, u>> /\ p \in Reversed(Range(Ends(t, flows)))
    BY <2>1
  <2>3. p[1] \in R => p[2] \in R
    BY <2>2 DEF ReachOK
  <2>4. QED
    BY <1>0, <2>2, <2>3
<1>1. ASSUME NEW u, NEW v, <<u, v>> \in Links(t, flows), v \in R PROVE u \in R
  <2>1. <<u, v>> \in Range(Ends(t, flows))
    BY <1>1, EndPairs
  <2>2. QED
    BY <1>0, <1>1, <2>1
<1>2. ASSUME NEW s \in Range(Slots(t)), SlotOut(s) \in R PROVE SlotIn(s) \in R
  <2>1. <<SlotIn(s), SlotOut(s)>> \in Range(Ends(t, flows))
    BY EndPairs
  <2>2. QED
    BY <1>0, <1>2, <2>1
<1>3. LinksAre(t, flows)
  BY LinkKinds
<1>4. \A i \in DOMAIN flows : In(flows[i].sink) \in R
  BY <1>1, <1>3 DEF LinksAre, ReachOK
<1>5. ASSUME NEW i \in DOMAIN t.nodes, Out_(t.nodes[i].id) \in R
      PROVE  /\ In(t.nodes[i].id) \in R
             /\ t.nodes[i].transit # None => SlotOut(t.nodes[i].transit) \in R
  <2>1. CASE t.nodes[i].transit = None
    BY <1>1, <1>3, <1>5, <2>1 DEF LinksAre
  <2>2. CASE t.nodes[i].transit # None
    <3>1. PICK s : s = t.nodes[i].transit /\ s \in Range(Slots(t))
      BY <2>2 DEF TopologyOK, Transits
    <3>2. <<In(t.nodes[i].id), SlotIn(s)>> \in Links(t, flows) /\ <<SlotOut(s), Out_(t.nodes[i].id)>> \in Links(t, flows)
      BY <1>3, <2>2, <3>1 DEF LinksAre
    <3>3. SlotOut(s) \in R
      BY <1>1, <1>5, <3>2
    <3>4. SlotIn(s) \in R
      BY <1>2, <3>1, <3>3
    <3>5. QED
      BY <1>1, <3>1, <3>2, <3>3, <3>4
  <2>3. QED
    BY <2>1, <2>2
<1>6. ASSUME NEW i \in DOMAIN t.edges
      PROVE  /\ In(t.edges[i].to) \in R => SlotOut(t.edges[i].resource) \in R
             /\ SlotOut(t.edges[i].resource) \in R => Out_(t.edges[i].from) \in R
  <2>1. PICK s : s = t.edges[i].resource /\ s \in Range(Slots(t))
    BY DEF TopologyOK
  <2>2. /\ <<Out_(t.edges[i].from), SlotIn(s)>> \in Links(t, flows)
        /\ <<SlotOut(s), In(t.edges[i].to)>> \in Links(t, flows)
    BY <1>3, <2>1 DEF LinksAre
  <2>3. QED
    BY <1>1, <1>2, <2>1, <2>2
<1>7. QED
  BY <1>4, <1>5, <1>6

\* What is walked, and what leads on to a sink, when nothing is cut.
JoinsOn(t, sinks, v) == v \in sinks \/ Joins(t, {v}, sinks, {})

LEMMA PlainWalks ==
  ASSUME NEW t, TopologyOK(t), NEW sources
  PROVE  /\ Walked(t, sources, {}) \subseteq EdgeSet(t)
         /\ \A d \in EdgeSet(t) : d.from \in sources => d \in Walked(t, sources, {})
         /\ \A e \in Walked(t, sources, {}), d \in EdgeSet(t) : e.to = d.from => d \in Walked(t, sources, {})
         /\ \A C \in SUBSET EdgeSet(t) :
              /\ \A d \in EdgeSet(t) : d.from \in sources => d \in C
              /\ \A e \in C, d \in EdgeSet(t) : e.to = d.from => d \in C
              => Walked(t, sources, {}) \subseteq C
<1>1. PICK W : W = Walked(t, sources, {})
  OBVIOUS
<1>2. WalkedOK(t, sources, {}, W)
  BY <1>1, WalkedProperty
<1>3. Usable_E(t, {}) = EdgeSet(t) /\ \A e, d : Onto(t, {}, e, d) <=> e.to = d.from
  BY DEF Usable_E, Onto
<1>4. QED
  BY <1>1, <1>2, <1>3 DEF WalkedOK

\* An edge leads on where its end does, and nothing else does.
LEMMA JoinsProperty ==
  ASSUME NEW t, TopologyOK(t), NEW sinks
  PROVE  /\ \A e \in EdgeSet(t) : JoinsOn(t, sinks, e.to) => JoinsOn(t, sinks, e.from)
         /\ \A Q : /\ sinks \subseteq Q
                   /\ \A e \in EdgeSet(t) : e.to \in Q => e.from \in Q
                   => \A v : JoinsOn(t, sinks, v) => v \in Q
<1>1. ASSUME NEW e \in EdgeSet(t), JoinsOn(t, sinks, e.to) PROVE JoinsOn(t, sinks, e.from)
  <2>1. PICK C : C = Walked(t, {e.from}, {})
    OBVIOUS
  <2>2. e \in C /\ C \in SUBSET EdgeSet(t) /\ \A x \in C, d \in EdgeSet(t) : x.to = d.from => d \in C
    BY <2>1, PlainWalks
  <2>3. CASE e.to \in sinks
    BY <2>1, <2>2, <2>3 DEF JoinsOn, Joins
  <2>4. CASE e.to \notin sinks
    <3>1. PICK x \in Walked(t, {e.to}, {}) : x.to \in sinks
      BY <1>1, <2>4 DEF JoinsOn, Joins
    <3>2. \A d \in EdgeSet(t) : d.from \in {e.to} => d \in C
      BY <2>2
    <3>3. Walked(t, {e.to}, {}) \subseteq C
      BY <2>2, <3>2, PlainWalks
    <3>4. QED
      BY <2>1, <3>1, <3>3 DEF JoinsOn, Joins
  <2>5. QED
    BY <2>3, <2>4
<1>2. ASSUME NEW Q, sinks \subseteq Q, \A e \in EdgeSet(t) : e.to \in Q => e.from \in Q,
             NEW v, JoinsOn(t, sinks, v)
      PROVE  v \in Q
  <2>1. CASE v \in sinks
    BY <1>2, <2>1
  <2>2. CASE v \notin sinks
    <3>1. PICK x \in Walked(t, {v}, {}) : x.to \in sinks
      BY <1>2, <2>2 DEF JoinsOn, Joins
    <3>2. PICK C : C = {e \in EdgeSet(t) : e.to \in Q => v \in Q}
      OBVIOUS
    <3>3. C \in SUBSET EdgeSet(t)
      BY <3>2
    <3>4. \A d \in EdgeSet(t) : d.from \in {v} => d \in C
      BY <1>2, <3>2
    <3>5. \A e \in C, d \in EdgeSet(t) : e.to = d.from => d \in C
      BY <1>2, <3>2
    <3>6. Walked(t, {v}, {}) \subseteq C
      BY <3>3, <3>4, <3>5, PlainWalks
    <3>7. QED
      BY <1>2, <3>1, <3>2, <3>6
  <2>3. QED
    BY <2>1, <2>2
<1>3. QED
  BY <1>1, <1>2

\* What an analysis finds between the sources and the sinks.
OnWalk(t, sources, sinks) ==
  {s \in Range(Slots(t)) :
     \E e \in Walked(t, sources, {}) :
       /\ \/ s = e.resource
          \/ \E d \in Walked(t, sources, {}) : d.to = e.from /\ s = TransitOf(t, e.from)
       /\ JoinsOn(t, sinks, e.to)}

\* The slots that walks from the sources get to, by an edge or at its end.
EnteredBy(t, W) ==
  {s \in Range(Slots(t)) : \/ \E e \in W : s = e.resource
                           \/ \E i \in Transits(t.nodes), d \in W : s = t.nodes[i].transit /\ d.to = t.nodes[i].id}
\* And those from which a sink is got to.
LeftBy(t, sinks) ==
  {s \in Range(Slots(t)) :
     \E e \in EdgeSet(t) :
       /\ JoinsOn(t, sinks, e.to)
       /\ \/ s = e.resource
          \/ \E i \in Transits(t.nodes) : s = t.nodes[i].transit /\ e.from = t.nodes[i].id}

\* Between those two are the slots on a walk.
LEMMA OnWalkSplits ==
  ASSUME NEW t, TopologyOK(t), NEW sources, NEW sinks,
         \A e \in EdgeSet(t) : \E i \in DOMAIN t.nodes : t.nodes[i].id = e.from
  PROVE  OnWalk(t, sources, sinks) = EnteredBy(t, Walked(t, sources, {})) \cap LeftBy(t, sinks)
<1>1. PICK W : W = Walked(t, sources, {})
  OBVIOUS
<1>2. W \subseteq EdgeSet(t) /\ \A e \in W, d \in EdgeSet(t) : e.to = d.from => d \in W
  BY <1>1, PlainWalks
<1>3. \A e, d \in EdgeSet(t) : e.resource = d.resource => e = d
  BY DEF TopologyOK, EdgeSet, Range
<1>4. \A e \in EdgeSet(t), i \in Transits(t.nodes) : e.resource # t.nodes[i].transit
  BY DEF TopologyOK, EdgeSet, Range
<1>5. \A i, j \in Transits(t.nodes) : t.nodes[i].transit = t.nodes[j].transit => i = j
  BY DEF TopologyOK
<1>6. \A i \in Transits(t.nodes) : TransitOf(t, t.nodes[i].id) = t.nodes[i].transit
  BY DEF TopologyOK, Transits
<1>7. ASSUME NEW s \in Range(Slots(t)), NEW e \in EdgeSet(t), s = TransitOf(t, e.from)
      PROVE  \E i \in Transits(t.nodes) : s = t.nodes[i].transit /\ e.from = t.nodes[i].id
  <2>1. PICK i \in DOMAIN t.nodes : t.nodes[i].id = e.from
    OBVIOUS
  <2>2. s = t.nodes[i].transit /\ s # None
    BY <1>7, <2>1 DEF TopologyOK
  <2>3. QED
    BY <2>1, <2>2 DEF Transits
<1>8. ASSUME NEW s \in Range(Slots(t)), s \in EnteredBy(t, W), s \in LeftBy(t, sinks)
      PROVE  \E e \in W : /\ \/ s = e.resource
                             \/ \E d \in W : d.to = e.from /\ s = TransitOf(t, e.from)
                          /\ JoinsOn(t, sinks, e.to)
  <2>1. PICK e \in EdgeSet(t) :
          /\ JoinsOn(t, sinks, e.to)
          /\ \/ s = e.resource
             \/ \E i \in Transits(t.nodes) : s = t.nodes[i].transit /\ e.from = t.nodes[i].id
    BY <1>8 DEF LeftBy
  <2>2. CASE \E d \in W : s = d.resource
    <3>1. PICK d \in W : s = d.resource
      BY <2>2
    <3>2. e = d
      BY <1>2, <1>3, <1>4, <2>1, <3>1
    <3>3. QED
      BY <2>1, <3>1, <3>2
  <2>3. CASE \E i \in Transits(t.nodes), d \in W : s = t.nodes[i].transit /\ d.to = t.nodes[i].id
    <3>1. PICK i \in Transits(t.nodes), d \in W : s = t.nodes[i].transit /\ d.to = t.nodes[i].id
      BY <2>3
    <3>2. e.from = t.nodes[i].id
      BY <1>4, <1>5, <2>1, <3>1
    <3>3. e \in W
      BY <1>2, <3>1, <3>2
    <3>4. s = TransitOf(t, e.from)
      BY <1>6, <3>1, <3>2
    <3>5. QED
      BY <2>1, <3>1, <3>2, <3>3, <3>4
  <2>4. QED
    BY <1>8, <2>2, <2>3 DEF EnteredBy
<1>9. ASSUME NEW s \in Range(Slots(t)), NEW e \in W, JoinsOn(t, sinks, e.to),
             \/ s = e.resource
             \/ \E d \in W : d.to = e.from /\ s = TransitOf(t, e.from)
      PROVE  s \in EnteredBy(t, W) /\ s \in LeftBy(t, sinks)
  <2>1. e \in EdgeSet(t)
    BY <1>2
  <2>2. CASE s = e.resource
    BY <1>9, <2>1, <2>2 DEF EnteredBy, LeftBy
  <2>3. CASE \E d \in W : d.to = e.from /\ s = TransitOf(t, e.from)
    <3>1. PICK d \in W : d.to = e.from
      BY <2>3
    <3>2. PICK i \in Transits(t.nodes) : s = t.nodes[i].transit /\ e.from = t.nodes[i].id
      BY <1>7, <2>1, <2>3
    <3>3. QED
      BY <1>9, <2>1, <3>1, <3>2 DEF EnteredBy, LeftBy
  <2>4. QED
    BY <1>9, <2>2, <2>3
<1>10. \A s : s \in OnWalk(t, sources, sinks) <=> s \in EnteredBy(t, W) /\ s \in LeftBy(t, sinks)
  <2>1. TAKE s
  <2>2. s \in EnteredBy(t, W) => s \in Range(Slots(t))
    BY DEF EnteredBy
  <2>3. s \in OnWalk(t, sources, sinks) <=>
          /\ s \in Range(Slots(t))
          /\ \E e \in W : /\ \/ s = e.resource
                             \/ \E d \in W : d.to = e.from /\ s = TransitOf(t, e.from)
                          /\ JoinsOn(t, sinks, e.to)
    BY <1>1 DEF OnWalk
  <2>4. QED
    BY <1>8, <1>9, <2>2, <2>3
<1>11. QED
  BY <1>1, <1>10

\* What is in reach of all sources is what walks get to.
LEMMA ReachEnters ==
  ASSUME NEW t, TopologyOK(t), NEW flows, EndsOK(t, flows), EndsAre(t, flows), IsList(Slots(t)),
         \A e \in EdgeSet(t) : \E i \in DOMAIN t.nodes : t.nodes[i].id = e.from,
         NEW sources, \A i \in DOMAIN flows : flows[i].source \in sources,
         \A x \in sources : \E i \in DOMAIN flows : x = flows[i].source,
         NEW N, IsFiniteSet(N), SuperSource \in N, \A p \in Range(Ends(t, flows)) : p[2] \in N,
         NEW s \in Range(Slots(t))
  PROVE  SlotIn(s) \in Reach(Range(Ends(t, flows)), SuperSource, N)
           <=> s \in EnteredBy(t, Walked(t, sources, {}))
<1>1. PICK R, W, pairs : /\ pairs = Range(Ends(t, flows)) /\ W = Walked(t, sources, {})
                         /\ R = Reach(pairs, SuperSource, N)
  OBVIOUS
<1>2. ReachOK(R, pairs, SuperSource, N)
  BY <1>1, ReachProperty
<1>3. /\ \A i \in DOMAIN flows : Out_(flows[i].source) \in R
      /\ \A i \in DOMAIN t.nodes : In(t.nodes[i].id) \in R =>
           /\ Out_(t.nodes[i].id) \in R
           /\ t.nodes[i].transit # None => SlotIn(t.nodes[i].transit) \in R
      /\ \A i \in DOMAIN t.edges :
           /\ Out_(t.edges[i].from) \in R => SlotIn(t.edges[i].resource) \in R
           /\ SlotIn(t.edges[i].resource) \in R => In(t.edges[i].to) \in R
  BY <1>1, <1>2, ReachOnward
<1>4. /\ W \subseteq EdgeSet(t)
      /\ \A d \in EdgeSet(t) : d.from \in sources => d \in W
      /\ \A e \in W, d \in EdgeSet(t) : e.to = d.from => d \in W
      /\ \A C \in SUBSET EdgeSet(t) :
           /\ \A d \in EdgeSet(t) : d.from \in sources => d \in C
           /\ \A e \in C, d \in EdgeSet(t) : e.to = d.from => d \in C
           => W \subseteq C
  BY <1>1, PlainWalks
<1>5. \A e \in EdgeSet(t) : /\ Out_(e.from) \in R => SlotIn(e.resource) \in R
                            /\ SlotIn(e.resource) \in R => In(e.to) \in R
  BY <1>3 DEF EdgeSet, Range
<1>6. PICK C : C = {e \in EdgeSet(t) : SlotIn(e.resource) \in R}
  OBVIOUS
<1>7. W \subseteq C
  <2>1. C \in SUBSET EdgeSet(t)
    BY <1>6
  <2>2. ASSUME NEW d \in EdgeSet(t), d.from \in sources PROVE d \in C
    <3>1. PICK i \in DOMAIN flows : d.from = flows[i].source
      BY <2>2
    <3>2. QED
      BY <1>3, <1>5, <1>6, <3>1
  <2>3. ASSUME NEW e \in C, NEW d \in EdgeSet(t), e.to = d.from PROVE d \in C
    <3>1. PICK i \in DOMAIN t.nodes : t.nodes[i].id = d.from
      OBVIOUS
    <3>2. In(d.from) \in R
      BY <1>5, <1>6, <2>3
    <3>3. QED
      BY <1>3, <1>5, <1>6, <3>1, <3>2
  <2>4. QED
    BY <1>4, <2>1, <2>2, <2>3
<1>8. ASSUME s \in EnteredBy(t, W) PROVE SlotIn(s) \in R
  <2>1. CASE \E e \in W : s = e.resource
    BY <1>6, <1>7, <2>1
  <2>2. CASE \E i \in Transits(t.nodes), d \in W : s = t.nodes[i].transit /\ d.to = t.nodes[i].id
    <3>1. PICK i \in Transits(t.nodes), d \in W : s = t.nodes[i].transit /\ d.to = t.nodes[i].id
      BY <2>2
    <3>2. In(t.nodes[i].id) \in R
      BY <1>5, <1>6, <1>7, <3>1
    <3>3. QED
      BY <1>3, <3>1, <3>2 DEF Transits
  <2>3. QED
    BY <1>8, <2>1, <2>2 DEF EnteredBy
<1>9. PICK A, L, E, Z : /\ A = {d.to : d \in W} /\ L = sources \cup A /\ E = EnteredBy(t, W)
                        /\ Z = Zone(L, A, E)
  OBVIOUS
<1>10. \A i \in Transits(t.nodes) : t.nodes[i].transit \in Range(Slots(t)) /\ i \in DOMAIN t.nodes
  BY DEF TopologyOK, Transits
<1>11. \A i \in DOMAIN t.nodes : t.nodes[i].id \in A =>
         IF t.nodes[i].transit = None THEN t.nodes[i].id \in L ELSE t.nodes[i].transit \in E
  <2>1. TAKE i \in DOMAIN t.nodes
  <2>2. HAVE t.nodes[i].id \in A
  <2>3. CASE t.nodes[i].transit = None
    BY <1>9, <2>2, <2>3
  <2>4. CASE t.nodes[i].transit # None
    <3>1. PICK d \in W : d.to = t.nodes[i].id
      BY <1>9, <2>2
    <3>2. i \in Transits(t.nodes)
      BY <2>4 DEF Transits
    <3>3. t.nodes[i].transit \in E
      BY <1>9, <1>10, <3>1, <3>2 DEF EnteredBy
    <3>4. QED
      BY <2>4, <3>3
  <2>5. QED
    BY <2>3, <2>4
<1>12. \A i \in Transits(t.nodes) : t.nodes[i].transit \in E => t.nodes[i].id \in L
  <2>1. TAKE i \in Transits(t.nodes)
  <2>2. HAVE t.nodes[i].transit \in E
  <2>3. \A e \in W : e.resource # t.nodes[i].transit
    BY <1>4 DEF TopologyOK, EdgeSet, Range
  <2>4. PICK j \in Transits(t.nodes), d \in W : t.nodes[i].transit = t.nodes[j].transit /\ d.to = t.nodes[j].id
    BY <1>9, <2>2, <2>3 DEF EnteredBy
  <2>5. i = j
    BY <2>4 DEF TopologyOK
  <2>6. QED
    BY <1>9, <2>4, <2>5
<1>13. \A i \in DOMAIN t.edges : /\ t.edges[i].from \in L => t.edges[i].resource \in E
                                 /\ t.edges[i].resource \in E => t.edges[i].to \in A
  <2>1. TAKE i \in DOMAIN t.edges
  <2>1a. t.edges[i] \in EdgeSet(t)
    BY DEF EdgeSet, Range
  <2>1b. t.edges[i].resource \in Range(Slots(t))
    BY DEF TopologyOK
  <2>2. PICK e : e = t.edges[i] /\ e \in EdgeSet(t) /\ e.resource \in Range(Slots(t))
    BY <2>1a, <2>1b
  <2>3. ASSUME e.from \in L PROVE e.resource \in E
    <3>1. e \in W
      BY <1>4, <1>9, <2>2, <2>3
    <3>2. QED
      BY <1>9, <2>2, <3>1 DEF EnteredBy
  <2>4. ASSUME e.resource \in E PROVE e.to \in A
    <3>1. \A j \in Transits(t.nodes) : e.resource # t.nodes[j].transit
      BY <2>2 DEF TopologyOK
    <3>2. PICK d \in W : e.resource = d.resource
      BY <1>9, <2>4, <3>1 DEF EnteredBy
    <3>3. d = e
      BY <1>4, <2>2, <3>2 DEF TopologyOK, EdgeSet, Range
    <3>4. QED
      BY <1>9, <3>2, <3>3
  <2>5. QED
    BY <2>2, <2>3, <2>4
<1>14. \A p \in pairs : p[1] \in Z => p[2] \in Z
  <2>1. TAKE p \in pairs
  <2>2. HAVE p[1] \in Z
  <2>3. CASE p \in Links(t, flows)
    <3>1. \A i \in DOMAIN flows : flows[i].source \in L
      BY <1>9
    <3>2. QED
      BY <1>9, <1>11, <1>12, <1>13, <2>2, <2>3, <3>1, ZoneOnward
  <2>4. CASE \E x \in Range(Slots(t)) : p = <<SlotIn(x), SlotOut(x)>>
    BY <1>9, <2>2, <2>4, ZoneProperty
  <2>5. QED
    BY <1>1, <2>3, <2>4, EndPairs
<1>15. SuperSource \in Z
  BY <1>9, ZoneProperty
<1>16. R \subseteq Z
  BY <1>1, <1>14, <1>15, ReachLeast
<1>17. SlotIn(s) \in R => s \in E
  BY <1>9, <1>16, ZoneProperty
<1>18. QED
  BY <1>1, <1>8, <1>9, <1>17

\* What all sinks are in reach of is what walks go on from.
LEMMA ReachLeaves ==
  ASSUME NEW t, TopologyOK(t), NEW flows, EndsOK(t, flows), EndsAre(t, flows), IsList(Slots(t)),
         \A e \in EdgeSet(t) : \E i \in DOMAIN t.nodes : t.nodes[i].id = e.from,
         NEW sinks, \A i \in DOMAIN flows : flows[i].sink \in sinks,
         \A x \in sinks : \E i \in DOMAIN flows : x = flows[i].sink,
         NEW N, IsFiniteSet(N), SuperSink \in N, \A p \in Range(Ends(t, flows)) : p[1] \in N,
         NEW s \in Range(Slots(t))
  PROVE  SlotOut(s) \in Reach(Reversed(Range(Ends(t, flows))), SuperSink, N) <=> s \in LeftBy(t, sinks)
<1>1. PICK R, pairs, back : /\ pairs = Range(Ends(t, flows)) /\ back = Reversed(pairs)
                            /\ R = Reach(back, SuperSink, N)
  OBVIOUS
<1>2. \A p \in back : p[2] \in N
  BY <1>1 DEF Reversed
<1>3. ReachOK(R, back, SuperSink, N)
  BY <1>1, <1>2, ReachProperty
<1>4. /\ \A i \in DOMAIN flows : In(flows[i].sink) \in R
      /\ \A i \in DOMAIN t.nodes : Out_(t.nodes[i].id) \in R =>
           /\ In(t.nodes[i].id) \in R
           /\ t.nodes[i].transit # None => SlotOut(t.nodes[i].transit) \in R
      /\ \A i \in DOMAIN t.edges :
           /\ In(t.edges[i].to) \in R => SlotOut(t.edges[i].resource) \in R
           /\ SlotOut(t.edges[i].resource) \in R => Out_(t.edges[i].from) \in R
  BY <1>1, <1>3, ReachBack
<1>5. \A e \in EdgeSet(t) : /\ In(e.to) \in R => SlotOut(e.resource) \in R
                            /\ SlotOut(e.resource) \in R => Out_(e.from) \in R
  BY <1>4 DEF EdgeSet, Range
<1>6. PICK Q : Q = {x \in sinks \cup {t.nodes[i].id : i \in DOMAIN t.nodes} : In(x) \in R}
  OBVIOUS
<1>7. \A v : JoinsOn(t, sinks, v) => v \in Q
  <2>1. sinks \subseteq Q
    BY <1>4, <1>6
  <2>2. ASSUME NEW e \in EdgeSet(t), e.to \in Q PROVE e.from \in Q
    <3>1. PICK i \in DOMAIN t.nodes : t.nodes[i].id = e.from
      OBVIOUS
    <3>2. Out_(e.from) \in R
      BY <1>5, <1>6, <2>2
    <3>3. In(t.nodes[i].id) \in R
      BY <1>4, <3>1, <3>2
    <3>4. QED
      BY <1>6, <3>1, <3>3
  <2>3. QED
    BY <2>1, <2>2, JoinsProperty
<1>8. ASSUME s \in LeftBy(t, sinks) PROVE SlotOut(s) \in R
  <2>1. PICK e \in EdgeSet(t) :
          /\ JoinsOn(t, sinks, e.to)
          /\ \/ s = e.resource
             \/ \E i \in Transits(t.nodes) : s = t.nodes[i].transit /\ e.from = t.nodes[i].id
    BY <1>8 DEF LeftBy
  <2>2. SlotOut(e.resource) \in R /\ Out_(e.from) \in R
    BY <1>5, <1>6, <1>7, <2>1
  <2>3. CASE s = e.resource
    BY <2>2, <2>3
  <2>4. CASE \E i \in Transits(t.nodes) : s = t.nodes[i].transit /\ e.from = t.nodes[i].id
    BY <1>4, <2>2, <2>4 DEF Transits
  <2>5. QED
    BY <2>1, <2>3, <2>4
<1>9. PICK A, L, E, Z : /\ A = {v \in sinks \cup {e.to : e \in EdgeSet(t)} \cup {e.from : e \in EdgeSet(t)} :
                                  JoinsOn(t, sinks, v)}
                        /\ L = {e.from : e \in {d \in EdgeSet(t) : JoinsOn(t, sinks, d.to)}}
                        /\ E = LeftBy(t, sinks) /\ Z = Zone(L, A, E)
  OBVIOUS
<1>10. \A e \in EdgeSet(t) : JoinsOn(t, sinks, e.to) => JoinsOn(t, sinks, e.from)
  BY JoinsProperty
<1>11. L \subseteq A
  BY <1>9, <1>10
<1>12. \A i \in DOMAIN t.nodes : t.nodes[i].id \in L =>
         IF t.nodes[i].transit = None THEN t.nodes[i].id \in A ELSE t.nodes[i].transit \in E
  <2>1. TAKE i \in DOMAIN t.nodes
  <2>2. HAVE t.nodes[i].id \in L
  <2>3. CASE t.nodes[i].transit = None
    BY <1>11, <2>2, <2>3
  <2>4. CASE t.nodes[i].transit # None
    <3>1. PICK e \in EdgeSet(t) : e.from = t.nodes[i].id /\ JoinsOn(t, sinks, e.to)
      BY <1>9, <2>2
    <3>2. i \in Transits(t.nodes)
      BY <2>4 DEF Transits
    <3>3. t.nodes[i].transit \in Range(Slots(t))
      BY <3>2 DEF TopologyOK
    <3>4. t.nodes[i].transit \in E
      BY <1>9, <3>1, <3>2, <3>3 DEF LeftBy
    <3>5. QED
      BY <2>4, <3>4
  <2>5. QED
    BY <2>3, <2>4
<1>13. \A i \in Transits(t.nodes) : t.nodes[i].transit \in E => t.nodes[i].id \in A
  <2>1. TAKE i \in Transits(t.nodes)
  <2>2. HAVE t.nodes[i].transit \in E
  <2>3. \A e \in EdgeSet(t) : t.nodes[i].transit # e.resource
    BY DEF TopologyOK, EdgeSet, Range
  <2>4. PICK e \in EdgeSet(t), j \in Transits(t.nodes) :
          JoinsOn(t, sinks, e.to) /\ t.nodes[i].transit = t.nodes[j].transit /\ e.from = t.nodes[j].id
    BY <1>9, <2>2, <2>3 DEF LeftBy
  <2>5. i = j
    BY <2>4 DEF TopologyOK
  <2>6. e.from \in L
    BY <1>9, <2>4
  <2>7. QED
    BY <1>11, <2>4, <2>5, <2>6
<1>14. \A i \in DOMAIN t.edges : /\ t.edges[i].to \in A => t.edges[i].resource \in E
                                 /\ t.edges[i].resource \in E => t.edges[i].from \in L
  <2>1. TAKE i \in DOMAIN t.edges
  <2>2. t.edges[i] \in EdgeSet(t)
    BY DEF EdgeSet, Range
  <2>3. t.edges[i].resource \in Range(Slots(t))
    BY DEF TopologyOK
  <2>4. PICK e : e = t.edges[i] /\ e \in EdgeSet(t) /\ e.resource \in Range(Slots(t))
    BY <2>2, <2>3
  <2>5. ASSUME e.to \in A PROVE e.resource \in E
    BY <1>9, <2>4, <2>5 DEF LeftBy
  <2>6. ASSUME e.resource \in E PROVE e.from \in L
    <3>1. \A j \in Transits(t.nodes) : e.resource # t.nodes[j].transit
      BY <2>4 DEF TopologyOK
    <3>2. PICK d \in EdgeSet(t) : e.resource = d.resource /\ JoinsOn(t, sinks, d.to)
      BY <1>9, <2>6, <3>1 DEF LeftBy
    <3>3. d = e
      BY <2>4, <3>2 DEF TopologyOK, EdgeSet, Range
    <3>4. QED
      BY <1>9, <2>4, <3>2, <3>3
  <2>7. QED
    BY <2>4, <2>5, <2>6
<1>15. \A p \in pairs : p[2] \in Z => p[1] \in Z
  <2>1. TAKE p \in pairs
  <2>2. HAVE p[2] \in Z
  <2>3. CASE p \in Links(t, flows)
    <3>1. \A i \in DOMAIN flows : flows[i].sink \in A
      BY <1>9 DEF JoinsOn
    <3>2. QED
      BY <1>9, <1>12, <1>13, <1>14, <2>2, <2>3, <3>1, ZoneBack
  <2>4. CASE \E x \in Range(Slots(t)) : p = <<SlotIn(x), SlotOut(x)>>
    BY <1>9, <2>2, <2>4, ZoneProperty
  <2>5. QED
    BY <1>1, <2>3, <2>4, EndPairs
<1>16. SuperSink \in Z
  BY <1>9, ZoneProperty
<1>17. \A p \in back : p[1] \in Z => p[2] \in Z
  BY <1>1, <1>15 DEF Reversed
<1>18. R \subseteq Z
  BY <1>1, <1>2, <1>16, <1>17, ReachLeast
<1>19. SlotOut(s) \in R => s \in E
  BY <1>9, <1>18, ZoneProperty
<1>20. QED
  BY <1>1, <1>8, <1>9, <1>19

\* The resources an analysis admits are those on a walk from a source to a sink.
LEMMA AdmissibleIsOnWalk ==
  ASSUME Ground
  PROVE  Admissible(in.topology, tally.flows) = OnWalk(in.topology, Sources, Sinks)
<1>1. PICK t, flows, N, pairs : /\ t = in.topology /\ flows = tally.flows /\ N = Vertices(t)
                                /\ pairs = Range(Ends(t, flows))
  OBVIOUS
<1>2. TopologyOK(t) /\ EndsOK(t, flows) /\ EndsAre(t, flows) /\ IsList(Slots(t)) /\ IsFiniteSet(N)
  BY <1>1 DEF Ground, SlotsOK
<1>3. \A e \in EdgeSet(t) : \E i \in DOMAIN t.nodes : t.nodes[i].id = e.from
  BY <1>1, EdgesBegin
<1>4. \A p \in pairs : p[1] \in N /\ p[2] \in N
  BY <1>1, ArcsOfProperty DEF Ground, Range
<1>5. SuperSource \in N /\ SuperSink \in N
  BY <1>1 DEF Vertices
<1>6. /\ \A i \in DOMAIN flows : flows[i].source \in Sources /\ flows[i].sink \in Sinks
      /\ \A x \in Sources : \E i \in DOMAIN flows : x = flows[i].source
      /\ \A x \in Sinks : \E i \in DOMAIN flows : x = flows[i].sink
  BY <1>1 DEF Sources, Sinks
<1>7. PICK R, B, W : /\ R = Reach(pairs, SuperSource, N) /\ B = Reach(Reversed(pairs), SuperSink, N)
                     /\ W = Walked(t, Sources, {})
  OBVIOUS
<1>8. \A s \in Range(Slots(t)) : SlotIn(s) \in R <=> s \in EnteredBy(t, W)
  BY <1>1, <1>2, <1>3, <1>4, <1>5, <1>6, <1>7, ReachEnters
<1>9. \A s \in Range(Slots(t)) : SlotOut(s) \in B <=> s \in LeftBy(t, Sinks)
  BY <1>1, <1>2, <1>3, <1>4, <1>5, <1>6, <1>7, ReachLeaves
<1>10. \A s : s \in Admissible(t, flows) <=> s \in Range(Slots(t)) /\ SlotIn(s) \in R /\ SlotOut(s) \in B
  <2>1. \A s : s \in {v[2] : v \in R \cap {SlotIn(x) : x \in Range(Slots(t))}}
                 <=> s \in Range(Slots(t)) /\ SlotIn(s) \in R
    BY DEF SlotIn
  <2>2. \A s : s \in {v[2] : v \in B \cap {SlotOut(x) : x \in Range(Slots(t))}}
                 <=> s \in Range(Slots(t)) /\ SlotOut(s) \in B
    BY DEF SlotOut
  <2>3. Admissible(t, flows) = {v[2] : v \in R \cap {SlotIn(x) : x \in Range(Slots(t))}}
                                 \cap {v[2] : v \in B \cap {SlotOut(x) : x \in Range(Slots(t))}}
    BY <1>1, <1>7 DEF Admissible
  <2>4. QED
    BY <2>1, <2>2, <2>3
<1>11. \A s : s \in EnteredBy(t, W) => s \in Range(Slots(t))
  BY DEF EnteredBy
<1>12. OnWalk(t, Sources, Sinks) = EnteredBy(t, W) \cap LeftBy(t, Sinks)
  BY <1>2, <1>3, <1>7, OnWalkSplits
<1>13. \A s : s \in Admissible(t, flows) <=> s \in OnWalk(t, Sources, Sinks)
  BY <1>8, <1>9, <1>10, <1>11, <1>12
<1>14. QED
  BY <1>1, <1>13

-----------------------------------------------------------------------------
(* What is stranded, and why *)

\* Rows are marked admissible that lie between the sources and the sinks.
Marked ==
  \A i \in DOMAIN rows : rows[i].admissible <=> rows[i].resource \in Admissible(in.topology, tally.flows)

\* The rest is attributed to segmentation, and what the scenarios take to
\* resilience.
Attributed ==
  /\ tally.breakdown.segmentation = SegmentsOf(rows)
  /\ tally.breakdown.resilience = tally.base - tally.deliverable
  /\ Shared(tally, rows)

AttributedHeld ==
  tally # <<>> =>
    /\ Searching \/ Searched => Marked
    /\ Searched => Attributed

\* Only the attribution writes causes.
LEMMA BreakdownKept ==
  ASSUME FormInv, AnalysisStep
  PROVE  /\ Attribute \/ tally'.breakdown = tally.breakdown
         /\ BaseSolved \/ Attribute \/ rows' = rows
<1>1. DOMAIN tally = TallyFields
  BY AnalysisKeeps DEF Keeps, FormInv
<1>2. CASE UNCHANGED <<tally, rows>>
  BY <1>2
<1>3. CASE SolveBase \/ SolveScenario \/ SolveFailed \/ LoseDomains \/ RegainDomains
  BY <1>2, <1>3 DEF SolveBase, SolveScenario, SolveAll, SolveFailed, LoseDomains, RegainDomains, analysis
<1>4. CASE BaseSolved
  <2> DEFINE Used_ == [i \in DOMAIN rows |->
                        IF rows[i].resource \in Range(Slots(in.topology))
                          THEN ArcFlow(SlotArc(in.topology, rows[i].resource)) ELSE 0]
  <2>1. tally' = tally \/ \E s : tally' = [tally EXCEPT !.base = total, !.deliverable = total, !.scenarios = s,
                                                        !.used = Used_]
    BY <1>4 DEF BaseSolved
  <2> HIDE DEF Used_
  <2>2. QED
    BY <1>1, <1>4, <2>1 DEF TallyFields
<1>5. CASE ScenarioSolved
  BY <1>1, <1>5 DEF ScenarioSolved, TallyFields
<1>6. CASE Attribute
  BY <1>6
<1>7. CASE PlaceFlow
  <2>1. rows' = rows /\ (tally' = tally \/ tally' = [tally EXCEPT !.quantized = @ + Wanted])
    BY <1>7 DEF PlaceFlow
  <2>2. QED
    BY <1>1, <2>1 DEF TallyFields
<1>8. CASE FlowPlaced
  <2>1. rows' = rows
    BY <1>8 DEF FlowPlaced
  <2>2. tally' = tally \/ \E g, b, s, f : tally' = [tally EXCEPT !.granularityLoss = g, !.budget = b, !.satisfied = s,
                                                                 !.fits = Append(@, f)]
    BY <1>8 DEF FlowPlaced
  <2>3. QED
    BY <1>1, <2>1, <2>2 DEF TallyFields
<1>9. QED
  BY <1>3, <1>4, <1>5, <1>6, <1>7, <1>8 DEF AnalysisStep

\* A solve of everything marks the rows.
LEMMA BaseMarks ==
  ASSUME EngineInv, BaseSolved, at' = "scenarios"
  PROVE  Marked'
<1>1. RowsOK(in, rows) /\ FormInv
  <2>1. tally # <<>>
    BY DEF BaseSolved, EngineInv, EvaluationInv, FormInv
  <2>2. QED
    BY <2>1, GroundProperty DEF Ground, EngineInv, EvaluationInv
<1>2. in' = in /\ tally'.flows = tally.flows
  BY <1>1, AnalysisKeeps DEF Keeps, AnalysisStep
<1>3. PICK allowed : allowed = Admissible(in.topology, tally.flows)
  OBVIOUS
<1>4. rows' = [i \in DOMAIN rows |-> [rows[i] EXCEPT !.admissible = rows[i].resource \in allowed]]
  BY <1>3 DEF BaseSolved, Fail
<1>5. \A k \in DOMAIN rows : "admissible" \in DOMAIN rows[k]
  BY <1>1 DEF RowsOK, RowFields
<1>6. \A i \in DOMAIN rows' : rows'[i].admissible <=> rows'[i].resource \in allowed
  <2>1. PICK qs : qs = rows'
    OBVIOUS
  <2>2. Revised(rows, qs)
    BY <1>1, <2>1, RowsRevised
  <2>3. DOMAIN qs = DOMAIN rows /\ \A k \in DOMAIN rows : qs[k].admissible = (rows[k].resource \in allowed)
    BY <1>4, <1>5, <2>1
  <2>4. \A k \in DOMAIN rows : qs[k].resource = rows[k].resource
    BY <2>2 DEF Revised
  <2>5. QED
    BY <2>1, <2>3, <2>4
<1>7. Admissible(in.topology, tally.flows)' = allowed
  BY <1>2, <1>3
<1>8. QED
  BY <1>6, <1>7 DEF Marked

\* The attribution leaves the marks, and writes the causes.
LEMMA AttributeCauses ==
  ASSUME EngineInv, SharesInv, AttributedHeld, Attribute
  PROVE  Marked' /\ Attributed'
<1>1. tally # <<>> /\ at = "scenarios" /\ DOMAIN tally = TallyFields /\ Measured(tally, rows) /\ FormInv
  BY DEF Attribute, EngineInv, EvaluationInv, FormInv, SharesInv
<1>2. Attributable /\ Segmented = SegmentsOf(rows)
  BY <1>1, MeasuredAttributes
<1>3. in' = in /\ tally'.flows = tally.flows
  BY <1>1, AnalysisKeeps DEF Keeps, AnalysisStep
<1>4. RowsOK(in, rows)
  BY <1>1, GroundProperty DEF Ground
<1>5. PICK qs : qs = rows' /\ qs = [i \in DOMAIN rows |-> Witnessed(rows[i], tally.used[i])]
  BY <1>2 DEF Attribute
<1>6. \A k \in DOMAIN rows : /\ qs[k].resource = rows[k].resource /\ qs[k].available = rows[k].available
                             /\ qs[k].admissible = rows[k].admissible
  <2>1. \A k \in DOMAIN rows : DOMAIN rows[k] = RowFields
    BY <1>4 DEF RowsOK
  <2>2. Revised(rows, qs)
    BY <1>4, <1>5, RowsRevised
  <2>3. ASSUME NEW row, DOMAIN row = RowFields, NEW used PROVE Witnessed(row, used).admissible = row.admissible
    <3>1. CASE ~ row.admissible
      BY <2>3, <3>1 DEF Witnessed, RowFields
    <3>2. CASE row.admissible /\ row.available > used
      BY <2>3, <3>2 DEF Witnessed, RowFields
    <3>3. CASE row.admissible /\ ~ row.available > used
      BY <2>3, <3>3 DEF Witnessed, RowFields
    <3>4. QED
      BY <3>1, <3>2, <3>3
  <2>4. \A k \in DOMAIN rows : qs[k].admissible = rows[k].admissible
    BY <1>5, <2>1, <2>3
  <2>5. QED
    BY <2>2, <2>4 DEF Revised
<1>7. DOMAIN qs = DOMAIN rows
  BY <1>5
<1>8. Marked'
  <2>1. Marked
    BY <1>1 DEF AttributedHeld, Searching
  <2>2. Admissible(in.topology, tally.flows)' = Admissible(in.topology, tally.flows)
    BY <1>3
  <2>3. QED
    BY <1>5, <1>6, <1>7, <2>1, <2>2 DEF Marked
<1>9. SegmentsOf(qs) = SegmentsOf(rows)
  <2>1. Field(qs, LAMBDA row : IF row.admissible THEN 0 ELSE row.available)
          = Field(rows, LAMBDA row : IF row.admissible THEN 0 ELSE row.available)
    BY <1>6, <1>7 DEF Field
  <2>2. QED
    BY <2>1 DEF SegmentsOf, Sum
<1>10. PICK cause :
         cause = [segmentation |-> Segmented,
                  bottleneck |-> (AvailableTotal(rows) - tally.deliverable) - Segmented
                                   - (tally.base - tally.deliverable),
                  resilience |-> tally.base - tally.deliverable]
  OBVIOUS
<1>11. cause.segmentation = Segmented /\ cause.resilience = tally.base - tally.deliverable
  BY <1>10
<1>12. \E stranded, budget : tally' = [tally EXCEPT !.breakdown = cause, !.reservedStranded = stranded,
                                                   !.budget = budget]
  BY <1>2, <1>10 DEF Attribute
<1>13. tally'.breakdown = cause /\ tally'.base = tally.base /\ tally'.deliverable = tally.deliverable
  BY <1>1, <1>12 DEF TallyFields
<1>14. tally'.breakdown.segmentation = SegmentsOf(rows') /\ tally'.breakdown.resilience = tally'.base - tally'.deliverable
  BY <1>2, <1>5, <1>9, <1>11, <1>13
<1>15. Shared(tally, rows)'
  BY AttributeShares
<1>16. QED
  BY <1>8, <1>14, <1>15 DEF Attributed

\* Marks and causes stay with the rows and the tally.
LEMMA SameCauses ==
  ASSUME in' = in, rows' = rows, tally'.flows = tally.flows
  PROVE  /\ Marked' <=> Marked
         /\ /\ tally'.breakdown = tally.breakdown /\ tally'.base = tally.base
            /\ tally'.deliverable = tally.deliverable /\ Attributed /\ Shared(tally, rows)'
            => Attributed'
<1>1. Marked' <=> Marked
  BY DEF Marked
<1>2. SegmentsOf(rows') = SegmentsOf(rows)
  OBVIOUS
<1>3. QED
  BY <1>1, <1>2 DEF Attributed

LEMMA AttributedStep ==
  ASSUME EngineInv, SharesInv, SharesInv', AttributedHeld, [Next]_evaluation
  PROVE  AttributedHeld'
<1>1. PredictionInv /\ FormInv
  BY DEF EngineInv, EvaluationInv
<1>2. CASE Validate \/ Account \/ Analyse \/ Query \/ Predict \/ Analysed \/ Close
  <2>1. CASE \E shape : Begins(shape)
    <3>1. at' = "base"
      BY <2>1 DEF Begins
    <3>2. ~ Searching' /\ ~ Searched'
      BY <3>1 DEF Searching, Searched
    <3>3. QED
      BY <3>2 DEF AttributedHeld
  <2>2. CASE ~ (\E shape : Begins(shape)) /\ tally # <<>>
    <3>1. Outside
      BY <1>1, <1>2, <2>2, OuterSteps
    <3>2. UNCHANGED <<in, tally, rows>> /\ ~ Searching'
      BY <2>2, <3>1 DEF Outside, Searching
    <3>3. Analysed \/ Close
      BY <1>1, <1>2, <2>2 DEF FormInv, Validate, Account, Analyse, Query, Predict
    <3>4. Searched
      BY <3>3 DEF Analysed, AllPlaced, Close, Searched
    <3>5. Marked /\ Attributed
      BY <2>2, <3>4 DEF AttributedHeld
    <3>6. Shared(tally, rows)'
      BY <3>2, <3>5 DEF Attributed, Shared
    <3>7. QED
      BY <3>2, <3>5, <3>6, SameCauses DEF AttributedHeld
  <2>3. CASE ~ (\E shape : Begins(shape)) /\ tally = <<>>
    <3>1. tally' = tally
      BY <1>1, <1>2, <2>3, OuterSteps DEF Outside
    <3>2. QED
      BY <2>3, <3>1 DEF AttributedHeld
  <2>4. QED
    BY <2>1, <2>2, <2>3
<1>3. CASE AnalysisStep
  <2>1. tally # <<>> /\ in' = in /\ tally'.flows = tally.flows
    BY <1>1, <1>3, AnalysisKeeps DEF Keeps
  <2>2. CASE BaseSolved
    <3>1. at' = "scenarios" \/ (at' = "done" /\ answer'.status = "exhausted")
      BY <2>2 DEF BaseSolved, Fail
    <3>2. ~ Searched'
      BY <3>1 DEF Searched
    <3>3. at' # "scenarios" => ~ Searching'
      BY <3>1 DEF Searching
    <3>4. QED
      BY <2>2, <3>2, <3>3, BaseMarks DEF AttributedHeld
  <2>3. CASE Attribute
    BY <2>3, AttributeCauses DEF AttributedHeld
  <2>4. CASE ~ BaseSolved /\ ~ Attribute
    <3>1. rows' = rows /\ tally'.breakdown = tally.breakdown
      BY <1>1, <1>3, <2>4, BreakdownKept
    <3>2. Marked' <=> Marked
      BY <2>1, <3>1, SameCauses
    <3>3. Searching' \/ Searched' => Searching \/ Searched
      BY <1>3, <2>4 DEF AnalysisStep, SolveBase, SolveScenario, SolveAll, SolveFailed, LoseDomains,
         ScenarioSolved, RegainDomains, PlaceFlow, FlowPlaced, Fail, analysis, Searching, Searched
    <3>4. CASE Searched'
      <4>1. PlaceFlow \/ FlowPlaced
        BY <1>3, <2>4, <3>4 DEF AnalysisStep, SolveBase, SolveScenario, SolveAll, SolveFailed, LoseDomains,
           ScenarioSolved, RegainDomains, Fail, analysis, Searched
      <4>2. at' \in {"place", "placing"} /\ Searched
        BY <3>4, <4>1 DEF PlaceFlow, FlowPlaced, Fail, Searched
      <4>3. Attributed
        BY <2>1, <4>2 DEF AttributedHeld
      <4>4. Shared(tally, rows)'
        BY <4>2 DEF SharesInv
      <4>5. tally'.base = tally.base /\ tally'.deliverable = tally.deliverable
        <5>1. ~ ScenarioSolved
          BY <4>1 DEF PlaceFlow, FlowPlaced, ScenarioSolved
        <5>2. QED
          BY <1>1, <1>3, <2>4, <5>1, AnalysisKeepsFound
      <4>6. Attributed'
        BY <2>1, <3>1, <4>3, <4>4, <4>5, SameCauses
      <4>7. QED
        BY <2>1, <3>2, <4>2, <4>6 DEF AttributedHeld
    <3>5. CASE ~ Searched'
      BY <2>1, <3>2, <3>3, <3>5 DEF AttributedHeld
    <3>6. QED
      BY <3>4, <3>5
  <2>5. QED
    BY <2>2, <2>3, <2>4
<1>4. CASE Solving \/ Cancelling \/ UNCHANGED evaluation
  <2>1. UNCHANGED <<in, at, rows, tally, answer>>
    BY <1>4 DEF Solving, Cancelling, evaluation, analysis
  <2>2. (Searching' <=> Searching) /\ (Searched' <=> Searched)
    BY <2>1 DEF Searching, Searched
  <2>3. Shared(tally, rows)' <=> Shared(tally, rows)
    BY <2>1 DEF Shared
  <2>4. (Marked' <=> Marked) /\ (Attributed => Attributed')
    BY <2>1, <2>3, SameCauses DEF Attributed
  <2>5. QED
    BY <2>1, <2>2, <2>4 DEF AttributedHeld
<1>5. QED
  BY <1>2, <1>3, <1>4 DEF Next, Evaluate

\* In every reachable evaluation rows are marked that lie on a walk, and what
\* is stranded has its causes.
THEOREM AttributedInvariant == Spec => []AttributedHeld
<1>1. Init => AttributedHeld
  BY DEF Init, AttributedHeld
<1>2. EngineInv /\ SharesInv /\ SharesInv' /\ AttributedHeld /\ [Next]_evaluation => AttributedHeld'
  BY AttributedStep
<1>3. QED
  BY <1>1, <1>2, EngineInvariant, SharesInvariant, PTL DEF Spec

\* What is segmented is what the rows have that are not admitted.
LEMMA SegmentsAreRest ==
  ASSUME Ground
  PROVE  SegmentsOf(rows) = SumFunctionOnSet(Units(rows), {k \in DOMAIN rows : ~ rows[k].admissible})
<1> DEFINE D == DOMAIN rows
           A == Admitting(rows)
           B == {k \in D : ~ rows[k].admissible}
           u == Units(rows)
<1>1. PICK n \in Nat : D = 1 .. n
  BY ListProperty DEF Ground, RowsOK
<1>2. \A k \in D : rows[k].available \in Nat
  BY DEF Ground, RowsOK, RowOK
<1>3. u \in [1 .. n -> Nat] /\ \A k \in D : u[k] \in Int
  BY <1>1, <1>2 DEF Units, Field
<1>4. Splits(rows)
  BY SplitProperty DEF Ground
<1>5. AvailableTotal(rows) = SumFunctionOnSet(u, D)
  <2>1. AvailableTotal(rows) = Accumulated(u) /\ Fits(u)
    BY DEF AvailableTotal, Sum, Units, Ground, AvailableFits
  <2> HIDE DEF u
  <2>2. QED
    BY <1>1, <1>3, <2>1, AccumulatedIsSum
<1>6. A \cup B = D /\ A \cap B = {}
  BY DEF Admitting
<1>7. IsFiniteSet(D)
  <2>1. 1 \in Int /\ n \in Int
    OBVIOUS
  <2>2. QED
    BY <1>1, <2>1, FS_Interval
<1>8. IsFiniteSet(A) /\ IsFiniteSet(B)
  BY <1>6, <1>7, FS_Subset
<1> HIDE DEF A, B, D, u
<1>9. SumFunctionOnSet(u, A \cup B) = SumFunctionOnSet(u, A) + SumFunctionOnSet(u, B)
  BY <1>3, <1>6, <1>8, SumUnion
<1>10. \A k \in B : u[k] \in Int
  BY <1>3, <1>6
<1>11. SumFunctionOnSet(u, B) \in Int
  BY <1>8, <1>10, SumPick
<1>12. /\ SumFunctionOnSet(u, A) + SegmentsOf(rows) = AvailableTotal(rows)
       /\ SumFunctionOnSet(u, A) \in Int /\ SegmentsOf(rows) \in Nat
  BY <1>4 DEF Splits, A, u
<1>13. SegmentsOf(rows) = SumFunctionOnSet(u, B)
  <2>1. PICK a, b, v, g : /\ a = SumFunctionOnSet(u, A) /\ b = SumFunctionOnSet(u, B)
                          /\ v = AvailableTotal(rows) /\ g = SegmentsOf(rows)
    OBVIOUS
  <2>2. v = a + b
    BY <1>5, <1>6, <1>9, <2>1
  <2>3. a + g = v /\ a \in Int /\ b \in Int /\ g \in Int
    BY <1>11, <1>12, <2>1
  <2>4. g = b
    BY <2>2, <2>3
  <2>5. QED
    BY <2>1, <2>4
<1>14. QED
  BY <1>13 DEF u, B, D

\* Every evaluation that ends, and every fit query, charges to segmentation what
\* resources have that no walk of the shape can use, to resilience what the
\* worst loss to survive takes of the least cut, and to bottlenecks the rest of
\* what is not deliverable (analyse_fragmentation's attribution, for every
\* fabric, shape and policy).
THEOREM StrandingsAreAttributed == Spec => []StrandingIsAttributed
<1>1. EngineInv /\ CutsHeld /\ AttributedHeld => StrandingIsAttributed
  <2>1. SUFFICES ASSUME EngineInv, CutsHeld, AttributedHeld, Answering, Representable
                 PROVE  StrandingIsAttributed
    BY DEF StrandingIsAttributed
  <2>2. tally # <<>> /\ Searched
    BY <2>1 DEF Answering, Analysing, Searched
  <2>3. Ground
    BY <2>1, <2>2, GroundProperty
  <2>4. tally.deliverable = Survivable /\ tally.base = MinimumCut({})
    BY <2>1, <2>2, <2>3, FoundIsSurvivable DEF CutsHeld
  <2>5. Marked /\ Attributed
    BY <2>1, <2>2 DEF AttributedHeld
  <2>6. PICK t, walk : t = in.topology /\ walk = OnWalk(t, Sources, Sinks)
    OBVIOUS
  <2>7. PICK on : on = {s \in SlotSet :
          \E e \in Walked(in.topology, Sources, {}) :
            /\ \/ s = e.resource
               \/ \E d \in Walked(in.topology, Sources, {}) :
                    d.to = e.from /\ s = TransitOf(in.topology, e.from)
            /\ e.to \in Sinks \/ Joins(in.topology, {e.to}, Sinks, {})}
    OBVIOUS
  <2>8. on = walk
    BY <2>6, <2>7 DEF OnWalk, JoinsOn, SlotSet
  <2>9. {i \in DOMAIN rows : rows[i].resource \notin on} = {i \in DOMAIN rows : ~ rows[i].admissible}
    <3>1. Admissible(in.topology, tally.flows) = on
      BY <2>3, <2>6, <2>8, AdmissibleIsOnWalk
    <3>2. QED
      BY <2>5, <3>1 DEF Marked
  <2>10. tally.breakdown.segmentation
           = SumFunctionOnSet(Units(rows), {i \in DOMAIN rows : rows[i].resource \notin on})
    BY <2>3, <2>5, <2>9, SegmentsAreRest DEF Attributed
  <2>11. tally.breakdown.resilience = MinimumCut({}) - Survivable
    BY <2>4, <2>5 DEF Attributed
  <2>12. StrandedTotal(tally.breakdown) = AvailableTotal(rows) - Survivable
    <3>1. PICK g, b, r, d, v : /\ g = tally.breakdown.segmentation /\ b = tally.breakdown.bottleneck
                               /\ r = tally.breakdown.resilience /\ d = tally.deliverable
                               /\ v = AvailableTotal(rows)
      OBVIOUS
    <3>2. g \in Nat /\ b \in Nat /\ r \in Nat /\ d \in Nat /\ d + g + b + r = v
      BY <2>5, <3>1 DEF Attributed, Shared
    <3>3. v <= U64Max
      BY <2>3, <3>1, SplitProperty DEF Ground, Splits
    <3>4. g + b + r <= U64Max /\ g + b + r = v - d
      BY <3>2, <3>3, CheckedAssumption
    <3>5. SumsTo(<<g, b, r>>, g + b + r)
      BY <3>2, <3>4, ShortSums
    <3>6. StrandedTotal(tally.breakdown) = v - d
      BY <3>1, <3>4, <3>5 DEF StrandedTotal, SumsTo
    <3>7. QED
      BY <2>4, <3>1, <3>6
  <2>13. QED
    BY <2>7, <2>10, <2>11, <2>12 DEF StrandingIsAttributed, Units
<1>2. QED
  BY <1>1, EngineInvariant, CutsInvariant, AttributedInvariant, PTL

=============================================================================
