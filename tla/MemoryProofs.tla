---------------------------- MODULE MemoryProofs ----------------------------
(***************************************************************************)
(* Proofs about the memory map of a sandbox, the system calls that change  *)
(* it, and the array of its dynamic code regions.                          *)
(***************************************************************************)
EXTENDS MCMemory, FiniteSetTheorems, SequenceTheorems, WellFoundedInduction,
        NaturalsInduction, TLAPS

(* Entries as the operations on the array handle them, marked ones among   *)
(* them, and as calls find and leave them.                                 *)
AnyEntry ==
    [page_num : Nat, npages : Nat \ {0}, prot : SUBSET Bits,
     flags : {"private", "shared"}, removed : BOOLEAN, desc : {NoDesc, File},
     offset : Nat, file_size : Nat]
Entry == {e \in AnyEntry : ~e.removed}

Apart(e, f) == EndPage(e) <= f.page_num \/ EndPage(f) <= e.page_num
Disjoint(v) == \A i, j \in DOMAIN v : i # j => Apart(v[i], v[j])
Ascending(v) == \A i, j \in DOMAIN v : i < j => EndPage(v[i]) <= v[j].page_num
EntrySet(v) == {v[i] : i \in DOMAIN v}

(* The entries that are not marked.                                        *)
Unmarked(v) == {i \in DOMAIN v : ~v[i].removed}
UnmarkedSet(v) == {v[i] : i \in Unmarked(v)}
UnmarkedDisjoint(v) == \A i, j \in Unmarked(v) : i # j => Apart(v[i], v[j])

GoodMap(m) ==
    /\ m = [vmentry |-> m.vmentry, is_sorted |-> m.is_sorted]
    /\ m.vmentry \in Seq(Entry)
    /\ m.is_sorted \in BOOLEAN
    /\ Disjoint(m.vmentry)
    /\ m.is_sorted => Ascending(m.vmentry)

-----------------------------------------------------------------------------
(* Sets of numbers have a least member.                                    *)
LEMMA LeastExists ==
    ASSUME NEW S \in SUBSET Nat, S # {}
    PROVE  \E x \in S : \A y \in S : x <= y
<1>1. IsWellFoundedOn(OpToRel(<, Nat), Nat)
  BY NatLessThanWellFounded
<1>2. PICK x \in S : \A y \in S : ~ (<<y, x>> \in OpToRel(<, Nat))
  BY <1>1, WFMin
<1>3. \A y \in S : ~(y < x)
  BY <1>2 DEF OpToRel
<1> QED
  BY <1>3

(* Bounded sets of numbers have a greatest one.                            *)
LEMMA GreatestExists ==
    ASSUME NEW S \in SUBSET Nat, S # {}, NEW n \in Nat, \A x \in S : x <= n
    PROVE  \E x \in S : \A y \in S : y <= x
<1> DEFINE T == {n - x : x \in S}
<1>1. /\ T \in SUBSET Nat
      /\ T # {}
  <2>1. \A x \in S : n - x \in Nat
    OBVIOUS
  <2> QED
    BY <2>1
<1>2. PICK z \in T : \A y \in T : z <= y
  BY <1>1, LeastExists
<1>3. PICK x \in S : z = n - x
  BY <1>2
<1>4. \A y \in S : y <= x
  <2> SUFFICES ASSUME NEW y \in S PROVE y <= x
    OBVIOUS
  <2>1. n - y \in T
    OBVIOUS
  <2> QED
    BY <2>1, <1>2, <1>3
<1> QED
  BY <1>4

(* In a finite set under a total order, given by the predecessors B of     *)
(* each element, there is just one element with k predecessors, for every  *)
(* k below the size of the set.                                            *)
LEMMA Ranks ==
    ASSUME NEW S, IsFiniteSet(S), NEW B \in [S -> SUBSET S],
           \A x \in S : x \notin B[x],
           \A x, y \in S : x # y => x \in B[y] \/ y \in B[x],
           \A x, y \in S : y \in B[x] => B[y] \subseteq B[x]
    PROVE  /\ \A x \in S : Cardinality(B[x]) \in 0 .. Cardinality(S) - 1
           /\ \A x, y \in S : y \in B[x] => Cardinality(B[y]) < Cardinality(B[x])
           /\ \A x, y \in S : Cardinality(B[x]) = Cardinality(B[y]) => x = y
           /\ \A k \in 0 .. Cardinality(S) - 1 :
                \E x \in S : Cardinality(B[x]) = k
<1> DEFINE n == Cardinality(S)
           r == [x \in S |-> Cardinality(B[x])]
<1>1. n \in Nat
  BY FS_CardinalityType
<1>2. \A x \in S : IsFiniteSet(B[x]) /\ Cardinality(B[x]) \in Nat
  BY FS_Subset, FS_CardinalityType
<1>3. ASSUME NEW x \in S, NEW y \in S, y \in B[x]
      PROVE  Cardinality(B[y]) < Cardinality(B[x])
  <2>1. B[y] \in SUBSET B[x] /\ B[y] # B[x]
    BY <1>3
  <2>2. /\ Cardinality(B[y]) <= Cardinality(B[x])
        /\ Cardinality(B[y]) # Cardinality(B[x])
    BY <2>1, <1>2, FS_Subset
  <2> QED
    BY <2>2, <1>2
<1>4. ASSUME NEW x \in S PROVE Cardinality(B[x]) \in 0 .. n - 1
  <2>1. /\ Cardinality(B[x]) <= n
        /\ Cardinality(B[x]) # n
    BY FS_Subset
  <2> QED
    BY <2>1, <1>1, <1>2
<1>5. ASSUME NEW x \in S, NEW y \in S, Cardinality(B[x]) = Cardinality(B[y])
      PROVE  x = y
  BY <1>2, <1>3, <1>5
<1>6. r \in Injection(S, 0 .. n - 1)
  BY <1>4, <1>5 DEF Injection, IsInjective
<1>7. IsFiniteSet(0 .. n - 1) /\ Cardinality(0 .. n - 1) = n
  BY <1>1, FS_Interval
<1>8. r \in Surjection(S, 0 .. n - 1)
  BY <1>6, <1>7, FS_Injection
<1>9. \A k \in 0 .. n - 1 : \E x \in S : r[x] = k
  BY <1>8 DEF Surjection
<1> QED
  BY <1>3, <1>4, <1>5, <1>9

(* The same for a set of numbers, counted from below and from above.       *)
LEMMA RanksBelow ==
    ASSUME NEW T, IsFiniteSet(T), \A x \in T : x \in Nat
    PROVE  /\ \A i \in T : Cardinality({k \in T : k < i}) \in 0 .. Cardinality(T) - 1
           /\ \A i, j \in T :
                Cardinality({k \in T : k < i}) = Cardinality({k \in T : k < j}) => i = j
           /\ \A n \in 0 .. Cardinality(T) - 1 :
                \E i \in T : Cardinality({k \in T : k < i}) = n
<1> DEFINE P(i) == {k \in T : k < i}
<1> PICK B : B = [i \in T |-> P(i)]
  OBVIOUS
<1>1. B \in [T -> SUBSET T]
  OBVIOUS
<1>2. \A x \in T : B[x] = P(x)
  OBVIOUS
<1>3. /\ \A x \in T : x \notin P(x)
      /\ \A x, y \in T : x # y => x \in P(y) \/ y \in P(x)
      /\ \A x, y \in T : y \in P(x) => P(y) \subseteq P(x)
  <2>1. \A x \in T : x \in Nat
    OBVIOUS
  <2>2. \A x \in T : x \notin P(x)
    BY <2>1
  <2>3. \A x, y \in T : x # y => x \in P(y) \/ y \in P(x)
    BY <2>1
  <2>4. ASSUME NEW x \in T, NEW y \in T, y \in P(x), NEW z \in P(y)
        PROVE  z \in P(x)
    BY <2>1, <2>4
  <2> QED
    BY <2>2, <2>3, <2>4
<1> HIDE DEF P
<1>4. /\ \A x \in T : x \notin B[x]
      /\ \A x, y \in T : x # y => x \in B[y] \/ y \in B[x]
      /\ \A x, y \in T : y \in B[x] => B[y] \subseteq B[x]
  BY <1>2, <1>3
<1>5. /\ \A x \in T : Cardinality(B[x]) \in 0 .. Cardinality(T) - 1
      /\ \A x, y \in T : y \in B[x] => Cardinality(B[y]) < Cardinality(B[x])
      /\ \A x, y \in T : Cardinality(B[x]) = Cardinality(B[y]) => x = y
      /\ \A k \in 0 .. Cardinality(T) - 1 : \E x \in T : Cardinality(B[x]) = k
  BY <1>1, <1>4, Ranks
<1>6. /\ \A i \in T : Cardinality(P(i)) \in 0 .. Cardinality(T) - 1
      /\ \A i, j \in T : Cardinality(P(i)) = Cardinality(P(j)) => i = j
      /\ \A n \in 0 .. Cardinality(T) - 1 : \E i \in T : Cardinality(P(i)) = n
  BY <1>2, <1>5
<1> QED
  BY <1>6 DEF P

LEMMA RanksAbove ==
    ASSUME NEW T, IsFiniteSet(T), \A x \in T : x \in Nat
    PROVE  /\ \A i \in T : Cardinality({k \in T : k > i}) \in 0 .. Cardinality(T) - 1
           /\ \A i, j \in T :
                Cardinality({k \in T : k > i}) = Cardinality({k \in T : k > j}) => i = j
           /\ \A n \in 0 .. Cardinality(T) - 1 :
                \E i \in T : Cardinality({k \in T : k > i}) = n
<1> DEFINE P(i) == {k \in T : k > i}
<1> PICK B : B = [i \in T |-> P(i)]
  OBVIOUS
<1>1. B \in [T -> SUBSET T]
  OBVIOUS
<1>2. \A x \in T : B[x] = P(x)
  OBVIOUS
<1>3. /\ \A x \in T : x \notin P(x)
      /\ \A x, y \in T : x # y => x \in P(y) \/ y \in P(x)
      /\ \A x, y \in T : y \in P(x) => P(y) \subseteq P(x)
  <2>1. \A x \in T : x \in Nat
    OBVIOUS
  <2>2. \A x \in T : x \notin P(x)
    BY <2>1
  <2>3. \A x, y \in T : x # y => x \in P(y) \/ y \in P(x)
    BY <2>1
  <2>4. ASSUME NEW x \in T, NEW y \in T, y \in P(x), NEW z \in P(y)
        PROVE  z \in P(x)
    BY <2>1, <2>4
  <2> QED
    BY <2>2, <2>3, <2>4
<1> HIDE DEF P
<1>4. /\ \A x \in T : x \notin B[x]
      /\ \A x, y \in T : x # y => x \in B[y] \/ y \in B[x]
      /\ \A x, y \in T : y \in B[x] => B[y] \subseteq B[x]
  BY <1>2, <1>3
<1>5. /\ \A x \in T : Cardinality(B[x]) \in 0 .. Cardinality(T) - 1
      /\ \A x, y \in T : y \in B[x] => Cardinality(B[y]) < Cardinality(B[x])
      /\ \A x, y \in T : Cardinality(B[x]) = Cardinality(B[y]) => x = y
      /\ \A k \in 0 .. Cardinality(T) - 1 : \E x \in T : Cardinality(B[x]) = k
  BY <1>1, <1>4, Ranks
<1>6. /\ \A i \in T : Cardinality(P(i)) \in 0 .. Cardinality(T) - 1
      /\ \A i, j \in T : Cardinality(P(i)) = Cardinality(P(j)) => i = j
      /\ \A n \in 0 .. Cardinality(T) - 1 : \E i \in T : Cardinality(P(i)) = n
  BY <1>2, <1>5
<1> QED
  BY <1>6 DEF P

LEMMA DisjointSum ==
    ASSUME NEW S, NEW T, IsFiniteSet(S), IsFiniteSet(T), S \cap T = {}
    PROVE  Cardinality(S \cup T) = Cardinality(S) + Cardinality(T)
<1>1. Cardinality(S \cup T)
        = Cardinality(S) + Cardinality(T) - Cardinality(S \cap T)
  BY FS_Union
<1>2. /\ Cardinality(S) \in Nat /\ Cardinality(T) \in Nat
      /\ Cardinality(S \cap T) = 0
  BY FS_CardinalityType, FS_EmptySet
<1> QED
  BY <1>1, <1>2

-----------------------------------------------------------------------------
(* Entries and their pages.                                                *)
LEMMA EntryFacts ==
    ASSUME NEW e \in AnyEntry
    PROVE  /\ e.page_num \in Nat /\ e.npages \in Nat /\ e.npages >= 1
           /\ EndPage(e) \in Nat /\ EndPage(e) = e.page_num + e.npages
           /\ e.page_num < EndPage(e)
           /\ e.prot \in SUBSET Bits /\ e.flags \in {"private", "shared"}
           /\ e.removed \in BOOLEAN /\ e.desc \in {NoDesc, File}
           /\ e.offset \in Nat /\ e.file_size \in Nat
           /\ \A p : p \in Pages(e) <=> p \in Int /\ e.page_num <= p /\ p < EndPage(e)
BY DEF AnyEntry, EndPage, Pages

LEMMA EntryIsAny == Entry \in SUBSET AnyEntry
BY DEF Entry

LEMMA AscendingIsDisjoint ==
    ASSUME NEW v \in Seq(AnyEntry), Ascending(v)
    PROVE  Disjoint(v)
BY DEF Ascending, Disjoint, Apart

(***************************************************************************)
(* The sort: the entries stay the same, and come in order.                 *)
(***************************************************************************)
LEMMA SortedSorts ==
    ASSUME NEW E \in SUBSET AnyEntry, NEW v \in Seq(E), Disjoint(v)
    PROVE  /\ Sorted(v) \in Seq(E)
           /\ EntrySet(Sorted(v)) = EntrySet(v)
           /\ Ascending(Sorted(v))
<1> DEFINE S == DOMAIN v
           B == [i \in S |-> Preceding(v, i)]
           w == Sorted(v)
<1>1. /\ Len(v) \in Nat
      /\ S = 1 .. Len(v)
      /\ \A i \in S : v[i] \in E
  OBVIOUS
<1>2. \A i \in S : v[i].page_num \in Nat
  BY <1>1, EntryFacts
<1>3. IsFiniteSet(S) /\ Cardinality(S) = Len(v)
  BY <1>1, FS_Interval
<1>4. B \in [S -> SUBSET S]
  BY DEF Preceding
<1>5. /\ \A x \in S : x \notin B[x]
      /\ \A x, y \in S : x # y => x \in B[y] \/ y \in B[x]
      /\ \A x, y \in S : y \in B[x] => B[y] \subseteq B[x]
  BY <1>1, <1>2 DEF Preceding, NaClVmmapCmpEntries
<1>6. /\ \A x \in S : Cardinality(B[x]) \in 0 .. Len(v) - 1
      /\ \A x, y \in S : y \in B[x] => Cardinality(B[y]) < Cardinality(B[x])
      /\ \A k \in 0 .. Len(v) - 1 : \E x \in S : Cardinality(B[x]) = k
  <2> HIDE DEF S, B
  <2> QED
    BY <1>3, <1>4, <1>5, Ranks
<1> DEFINE at(k) == CHOOSE i \in S : Cardinality(Preceding(v, i)) = k - 1
<1>7. \A k \in S : at(k) \in S /\ Cardinality(B[at(k)]) = k - 1
  <2> SUFFICES ASSUME NEW k \in S
               PROVE  at(k) \in S /\ Cardinality(B[at(k)]) = k - 1
    OBVIOUS
  <2>1. k - 1 \in 0 .. Len(v) - 1
    BY <1>1
  <2>2. \E i \in S : Cardinality(Preceding(v, i)) = k - 1
    BY <2>1, <1>6
  <2>3. at(k) \in S /\ Cardinality(Preceding(v, at(k))) = k - 1
    BY <2>2
  <2> QED
    BY <2>3
<1>8. /\ w = [k \in S |-> v[at(k)]]
      /\ DOMAIN w = S
      /\ \A k \in S : w[k] = v[at(k)]
  BY DEF Sorted
<1>9. w \in Seq(E)
  <2>1. w \in [1 .. Len(v) -> E]
    <3> HIDE DEF at, w
    <3> QED
      BY <1>1, <1>7, <1>8
  <2> QED
    BY <2>1, <1>1
<1>10. \A i \in S : \E k \in S : at(k) = i
  <2> SUFFICES ASSUME NEW i \in S PROVE \E k \in S : at(k) = i
    OBVIOUS
  <2> DEFINE k == Cardinality(B[i]) + 1
  <2>1. Cardinality(B[i]) \in 0 .. Len(v) - 1
    BY <1>6
  <2>2. k \in S
    BY <2>1, <1>1
  <2>3. at(k) \in S /\ Cardinality(B[at(k)]) = k - 1
    BY <2>2, <1>7
  <2>4. Cardinality(B[at(k)]) = Cardinality(B[i])
    BY <2>1, <2>3
  <2>5. at(k) = i
    <3> DEFINE a == at(k)
    <3>1. a \in S /\ Cardinality(B[a]) = Cardinality(B[i])
      BY <2>3, <2>4
    <3>2. \A x, y \in S : x # y => x \in B[y] \/ y \in B[x]
      BY <1>5
    <3> HIDE DEF a, B
    <3>3. ~(Cardinality(B[a]) < Cardinality(B[i])) /\ ~(Cardinality(B[i]) < Cardinality(B[a]))
      BY <3>1, <1>6
    <3>4. a = i
      BY <3>1, <3>2, <3>3, <1>6
    <3> QED
      BY <3>4 DEF a
  <2> QED
    BY <2>2, <2>5
<1>11. EntrySet(w) = EntrySet(v)
  <2> HIDE DEF at, w, B
  <2> QED
    BY <1>7, <1>8, <1>10 DEF EntrySet
<1>12. Ascending(w)
  <2> SUFFICES ASSUME NEW k \in S, NEW l \in S, k < l
               PROVE  EndPage(w[k]) <= w[l].page_num
    BY <1>8 DEF Ascending
  <2> DEFINE i == at(k)
             j == at(l)
  <2>1. /\ i \in S /\ Cardinality(B[i]) = k - 1
        /\ j \in S /\ Cardinality(B[j]) = l - 1
    BY <1>7
  <2>2. i # j /\ ~(Cardinality(B[j]) < Cardinality(B[i]))
    <3> HIDE DEF i, j, B
    <3> QED
      BY <2>1, <1>1
  <2>3. i \in B[j]
    <3> HIDE DEF i, j, B
    <3> QED
      BY <2>1, <2>2, <1>5, <1>6
  <2>4. v[i].page_num <= v[j].page_num
    <3> HIDE DEF i, j
    <3>1. i \in Preceding(v, j)
      BY <2>1, <2>3
    <3> QED
      BY <3>1, <2>1, <1>2 DEF Preceding, NaClVmmapCmpEntries
  <2>5. Apart(v[i], v[j])
    BY <2>1, <2>2 DEF Disjoint
  <2>6. /\ v[i].page_num \in Nat /\ v[j].page_num \in Nat
        /\ EndPage(v[i]) \in Nat /\ EndPage(v[j]) \in Nat
        /\ v[i].page_num < EndPage(v[i]) /\ v[j].page_num < EndPage(v[j])
    BY <2>1, <1>1, EntryFacts
  <2>7. EndPage(v[i]) <= v[j].page_num
    <3> HIDE DEF i, j
    <3> QED
      BY <2>4, <2>5, <2>6 DEF Apart
  <2> QED
    BY <2>7, <1>8
<1> QED
  BY <1>9, <1>11, <1>12

(***************************************************************************)
(* The removal of the marked entries keeps the others, all of them.        *)
(***************************************************************************)
LEMMA RemoveMarkedRemoves ==
    ASSUME NEW m, m.vmentry \in Seq(AnyEntry), m.vmentry # <<>>,
           UnmarkedDisjoint(m.vmentry),
           NEW r, r = NaClVmmapRemoveMarked(m)
    PROVE  /\ r = [vmentry |-> r.vmentry, is_sorted |-> FALSE]
           /\ r.vmentry \in Seq(Entry)
           /\ EntrySet(r.vmentry) = UnmarkedSet(m.vmentry)
           /\ Disjoint(r.vmentry)
<1> DEFINE v == m.vmentry
           U == {i \in DOMAIN v : ~v[i].removed}
           stay == Cardinality(U)
           low == {i \in 1 .. stay : ~v[i].removed}
           holes == {i \in 1 .. stay : v[i].removed}
           movers == {i \in stay + 1 .. Len(v) : ~v[i].removed}
           mover(i) == CHOOSE j \in movers :
                         Cardinality({k \in movers : k > j})
                           = Cardinality({k \in holes : k < i})
           from(i) == IF v[i].removed THEN mover(i) ELSE i
<1>1. /\ Len(v) \in Nat
      /\ DOMAIN v = 1 .. Len(v)
      /\ \A i \in DOMAIN v : v[i] \in AnyEntry /\ v[i].removed \in BOOLEAN
  <2>1. \A i \in DOMAIN v : v[i] \in AnyEntry
    OBVIOUS
  <2> QED
    BY <2>1, EntryFacts
<1>2. /\ IsFiniteSet(U) /\ stay \in 0 .. Len(v)
      /\ IsFiniteSet(low) /\ IsFiniteSet(holes) /\ IsFiniteSet(movers)
      /\ Cardinality(holes) = Cardinality(movers)
  <2>1. IsFiniteSet(1 .. Len(v)) /\ Cardinality(1 .. Len(v)) = Len(v)
    BY <1>1, FS_Interval
  <2>2. /\ IsFiniteSet(U) /\ stay \in Nat /\ stay <= Len(v)
    <3>1. U \in SUBSET (1 .. Len(v))
      BY <1>1
    <3> HIDE DEF v, U
    <3> QED
      BY <2>1, <3>1, FS_Subset, FS_CardinalityType
  <2> HIDE DEF stay
  <2>3. IsFiniteSet(1 .. stay) /\ Cardinality(1 .. stay) = stay
    BY <2>2, FS_Interval
  <2>4. IsFiniteSet(low) /\ IsFiniteSet(holes) /\ IsFiniteSet(movers)
    <3>1. /\ low \in SUBSET (1 .. stay) /\ holes \in SUBSET (1 .. stay)
          /\ movers \in SUBSET (1 .. Len(v))
      BY <2>2, <1>1
    <3> HIDE DEF low, holes, movers, v
    <3> QED
      BY <3>1, <2>1, <2>3, FS_Subset
  <2>5. /\ Cardinality(low) \in Nat /\ Cardinality(holes) \in Nat
        /\ Cardinality(movers) \in Nat
    BY <2>4, FS_CardinalityType
  <2>6. Cardinality(low) + Cardinality(holes) = stay
    <3>1. low \cup holes = 1 .. stay /\ low \cap holes = {}
      BY <1>1, <2>2
    <3>2. Cardinality(low \cup holes) = Cardinality(low) + Cardinality(holes)
      <4> HIDE DEF low, holes
      <4> QED
        BY <2>4, <3>1, DisjointSum
    <3> QED
      BY <3>1, <3>2, <2>3
  <2>7. Cardinality(low) + Cardinality(movers) = stay
    <3>1. low \cup movers = U /\ low \cap movers = {}
      BY <1>1, <2>2
    <3>2. Cardinality(low \cup movers) = Cardinality(low) + Cardinality(movers)
      <4> HIDE DEF low, movers
      <4> QED
        BY <2>4, <3>1, DisjointSum
    <3> QED
      BY <3>1, <3>2 DEF stay
  <2>8. Cardinality(holes) = Cardinality(movers)
    <3> HIDE DEF low, holes, movers
    <3> QED
      BY <2>2, <2>5, <2>6, <2>7
  <2> QED
    BY <2>2, <2>4, <2>8 DEF stay
<1> HIDE DEF stay
<1>3. holes \in SUBSET Nat /\ movers \in SUBSET Nat
  BY <1>1, <1>2
<1> DEFINE below(i) == {k \in holes : k < i}
           above(i) == {k \in movers : k > i}
<1>4. /\ \A i \in holes : Cardinality(below(i)) \in 0 .. Cardinality(holes) - 1
      /\ \A i, j \in holes : Cardinality(below(i)) = Cardinality(below(j)) => i = j
      /\ \A k \in 0 .. Cardinality(holes) - 1 :
           \E i \in holes : Cardinality(below(i)) = k
  <2> HIDE DEF holes
  <2> QED
    BY <1>2, <1>3, RanksBelow
<1>5. /\ \A j \in movers : Cardinality(above(j)) \in 0 .. Cardinality(movers) - 1
      /\ \A i, j \in movers : Cardinality(above(i)) = Cardinality(above(j)) => i = j
      /\ \A k \in 0 .. Cardinality(movers) - 1 :
           \E j \in movers : Cardinality(above(j)) = k
  <2> HIDE DEF movers
  <2> QED
    BY <1>2, <1>3, RanksAbove
<1>6. ASSUME NEW i \in holes
      PROVE  mover(i) \in movers /\ Cardinality(above(mover(i))) = Cardinality(below(i))
  <2>1. Cardinality(below(i)) \in 0 .. Cardinality(movers) - 1
    BY <1>4, <1>2
  <2>2. \E j \in movers : Cardinality(above(j)) = Cardinality(below(i))
    BY <2>1, <1>5
  <2>3. \E j \in movers : Cardinality({k \in movers : k > j})
                            = Cardinality({k \in holes : k < i})
    <3> HIDE DEF movers, holes
    <3> QED
      BY <2>2
  <2>4. /\ mover(i) \in movers
        /\ Cardinality({k \in movers : k > mover(i)})
             = Cardinality({k \in holes : k < i})
    <3> HIDE DEF movers, holes
    <3> QED
      BY <2>3
  <2> HIDE DEF movers, holes, mover
  <2> QED
    BY <2>4
<1> DEFINE w == [i \in 1 .. stay |-> v[from(i)]]
<1>7. r = [vmentry |-> w, is_sorted |-> FALSE] /\ r.vmentry = w
  BY DEF NaClVmmapRemoveMarked, stay
<1>8. ASSUME NEW i \in 1 .. stay PROVE from(i) \in U
  <2>1. CASE v[i].removed
    <3>1. mover(i) \in movers
      BY <2>1, <1>6
    <3>2. movers \in SUBSET U
      BY <1>1, <1>2
    <3> HIDE DEF mover, movers, U
    <3> QED
      BY <2>1, <3>1, <3>2
  <2>2. CASE ~v[i].removed
    <3>1. i \in DOMAIN v
      BY <1>1, <1>2
    <3> QED
      BY <2>2, <3>1
  <2> QED
    BY <2>1, <2>2
<1>9. ASSUME NEW i \in 1 .. stay, NEW j \in 1 .. stay, from(i) = from(j)
      PROVE  i = j
  <2>1. CASE v[i].removed /\ v[j].removed
    <3>1. mover(i) = mover(j) /\ i \in holes /\ j \in holes
      BY <2>1, <1>9
    <3> HIDE DEF mover, holes, movers, above, below
    <3> QED
      BY <3>1, <1>4, <1>6
  <2>2. CASE v[i].removed /\ ~v[j].removed
    <3>1. mover(i) = j /\ mover(i) \in movers
      BY <2>2, <1>9, <1>6
    <3> HIDE DEF mover
    <3> QED
      BY <3>1, <1>2
  <2>3. CASE ~v[i].removed /\ v[j].removed
    <3>1. mover(j) = i /\ mover(j) \in movers
      BY <2>3, <1>9, <1>6
    <3> HIDE DEF mover
    <3> QED
      BY <3>1, <1>2
  <2>4. CASE ~v[i].removed /\ ~v[j].removed
    BY <2>4, <1>9
  <2>5. i \in DOMAIN v /\ j \in DOMAIN v
    BY <1>1, <1>2
  <2> QED
    BY <2>1, <2>2, <2>3, <2>4
<1>10. ASSUME NEW u \in U PROVE \E i \in 1 .. stay : from(i) = u
  <2>1. CASE u <= stay
    <3>1. u \in 1 .. stay /\ ~v[u].removed
      BY <2>1, <1>1, <1>2
    <3> QED
      BY <3>1
  <2>2. CASE ~(u <= stay)
    <3>1. u \in movers
      BY <2>2, <1>1, <1>2
    <3>2. PICK i \in holes : Cardinality(below(i)) = Cardinality(above(u))
      <4> HIDE DEF holes, movers, below, above
      <4> QED
        BY <3>1, <1>2, <1>4, <1>5
    <3>3. mover(i) = u
      <4> HIDE DEF holes, movers, below, above, mover
      <4> QED
        BY <3>1, <3>2, <1>5, <1>6
    <3>4. i \in 1 .. stay /\ from(i) = u
      <4> HIDE DEF mover
      <4> QED
        BY <3>3
    <3> HIDE DEF from
    <3> QED
      BY <3>4
  <2> QED
    BY <2>1, <2>2
<1> HIDE DEF from
<1>11. w \in Seq(Entry)
  <2>1. \A i \in U : v[i] \in Entry
    BY <1>1 DEF Entry
  <2>2. w \in [1 .. stay -> Entry]
    <3> HIDE DEF U, v
    <3> QED
      BY <1>8, <2>1
  <2> QED
    BY <2>2, <1>2
<1>12. EntrySet(w) = UnmarkedSet(v)
  <2>1. UnmarkedSet(v) = {v[i] : i \in U}
    BY DEF UnmarkedSet, Unmarked
  <2> HIDE DEF U, v
  <2> QED
    BY <2>1, <1>8, <1>10 DEF EntrySet
<1>13. Disjoint(w)
  <2> SUFFICES ASSUME NEW i \in 1 .. stay, NEW j \in 1 .. stay, i # j
               PROVE  Apart(w[i], w[j])
    BY DEF Disjoint
  <2>1. from(i) \in U /\ from(j) \in U /\ from(i) # from(j)
    BY <1>8, <1>9
  <2>2. Apart(v[from(i)], v[from(j)])
    <3> HIDE DEF from
    <3> QED
      BY <2>1 DEF UnmarkedDisjoint, Unmarked
  <2> QED
    BY <2>2
<1> HIDE DEF w
<1> QED
  BY <1>7, <1>11, <1>12, <1>13

LEMMA MakeSortedSorts ==
    ASSUME NEW m, GoodMap(m), NEW s, s = NaClVmmapMakeSorted(m)
    PROVE  /\ GoodMap(s)
           /\ s.is_sorted = TRUE
           /\ Ascending(s.vmentry)
           /\ EntrySet(s.vmentry) = EntrySet(m.vmentry)
<1>1. m.is_sorted \in BOOLEAN /\ m.vmentry \in Seq(Entry) /\ Disjoint(m.vmentry)
  BY DEF GoodMap
<1>2. CASE m.is_sorted
  <2>1. s = m /\ m.is_sorted = TRUE
    BY <1>1, <1>2 DEF NaClVmmapMakeSorted
  <2> QED
    BY <1>2, <2>1 DEF GoodMap
<1>3. CASE ~m.is_sorted
  <2> DEFINE r == NaClVmmapRemoveMarked(m)
  <2>1. s = [vmentry |-> Sorted(r.vmentry), is_sorted |-> TRUE]
    BY <1>3 DEF NaClVmmapMakeSorted
  <2>2. /\ r.vmentry \in Seq(Entry) /\ Disjoint(r.vmentry)
        /\ EntrySet(r.vmentry) = EntrySet(m.vmentry)
    <3>1. CASE m.vmentry = <<>>
      <4>1. r = m
        BY <3>1 DEF NaClVmmapRemoveMarked
      <4> QED
        BY <4>1, <1>1
    <3>2. CASE m.vmentry # <<>>
      <4>1. Unmarked(m.vmentry) = DOMAIN m.vmentry
        BY <1>1 DEF Unmarked, Entry
      <4>2. /\ UnmarkedSet(m.vmentry) = EntrySet(m.vmentry)
            /\ UnmarkedDisjoint(m.vmentry)
        BY <4>1, <1>1 DEF UnmarkedSet, EntrySet, UnmarkedDisjoint, Disjoint
      <4>3. m.vmentry \in Seq(AnyEntry)
        BY <1>1, EntryIsAny, SeqMonotonic
      <4> HIDE DEF r
      <4>4. /\ r.vmentry \in Seq(Entry) /\ Disjoint(r.vmentry)
            /\ EntrySet(r.vmentry) = UnmarkedSet(m.vmentry)
        BY <3>2, <4>2, <4>3, RemoveMarkedRemoves DEF r
      <4> QED
        BY <4>2, <4>4
    <3> QED
      BY <3>1, <3>2
  <2> HIDE DEF r
  <2> DEFINE w == Sorted(r.vmentry)
  <2>3. /\ w \in Seq(Entry) /\ EntrySet(w) = EntrySet(m.vmentry) /\ Ascending(w)
    BY <2>2, EntryIsAny, SortedSorts
  <2>4. Disjoint(w)
    BY <2>3, EntryIsAny, SeqMonotonic, AscendingIsDisjoint
  <2>5. s.vmentry = w /\ s.is_sorted = TRUE
    BY <2>1
  <2> HIDE DEF w
  <2> QED
    BY <2>1, <2>3, <2>4, <2>5 DEF GoodMap, w
<1> QED
  BY <1>1, <1>2, <1>3

-----------------------------------------------------------------------------
(***************************************************************************)
(* What is left of an entry: a run of its pages that shows the same file   *)
(* at an offset no greater than it should be.                              *)
(***************************************************************************)
Slice(e, o) ==
    /\ o.page_num <= e.page_num /\ EndPage(e) <= EndPage(o)
    /\ e.flags = o.flags /\ e.desc = o.desc /\ e.file_size = o.file_size
    /\ e.offset <= o.offset + (e.page_num - o.page_num) * PageBytes

Outside(e, first, end) == EndPage(e) <= first \/ end <= e.page_num
Within(e, first, end) == first <= e.page_num /\ EndPage(e) <= end

LEMMA Units ==
    MapPages \in Nat /\ MapPages >= 1 /\ PageBytes \in Nat /\ PageBytes >= 1
BY MCMemoryAssumption DEF UnitAssumption

LEMMA SliceRefl == \A e \in AnyEntry : Slice(e, e)
BY EntryFacts, Units DEF Slice

(* Slices of entries that do not overlap do not overlap.                   *)
LEMMA SlicesApart ==
    ASSUME NEW e \in AnyEntry, NEW f \in AnyEntry,
           NEW d \in AnyEntry, NEW g \in AnyEntry,
           Apart(e, f), Slice(d, e), Slice(g, f)
    PROVE  Apart(d, g)
BY EntryFacts DEF Apart, Slice

LEMMA BelowIs ==
    ASSUME NEW e \in AnyEntry, NEW first \in Nat,
           e.page_num < first, first < EndPage(e),
           NEW b, b = Below(e, first)
    PROVE  /\ b \in AnyEntry /\ b.removed = e.removed /\ b.prot = e.prot
           /\ b.page_num = e.page_num /\ EndPage(b) = first
           /\ Slice(b, e)
<1>1. /\ e.page_num \in Nat /\ EndPage(e) \in Nat
  BY EntryFacts
<1>2. /\ b \in AnyEntry /\ b.removed = e.removed /\ b.prot = e.prot
      /\ b.page_num = e.page_num /\ b.npages = first - e.page_num
      /\ b.flags = e.flags /\ b.desc = e.desc /\ b.file_size = e.file_size
      /\ b.offset = e.offset
  BY <1>1 DEF AnyEntry, Below
<1>3. EndPage(b) = first
  BY <1>1, <1>2 DEF EndPage
<1> QED
  BY <1>1, <1>2, <1>3, EntryFacts, Units DEF Slice

LEMMA FromIs ==
    ASSUME NEW e \in AnyEntry, NEW end \in Nat,
           e.page_num < end, end < EndPage(e),
           NEW f, f = From(e, end)
    PROVE  /\ f \in AnyEntry /\ f.removed = e.removed /\ f.prot = e.prot
           /\ f.page_num = end /\ EndPage(f) = EndPage(e)
           /\ Slice(f, e)
<1>1. /\ e.page_num \in Nat /\ EndPage(e) \in Nat /\ e.offset \in Nat
  BY EntryFacts
<1>2. (end - e.page_num) * PageBytes \in Nat
  BY <1>1, Units
<1>3. /\ f \in AnyEntry /\ f.removed = e.removed /\ f.prot = e.prot
      /\ f.page_num = end /\ f.npages = EndPage(e) - end
      /\ f.flags = e.flags /\ f.desc = e.desc /\ f.file_size = e.file_size
      /\ f.offset = e.offset + (end - e.page_num) * PageBytes
  <2> DEFINE o == (end - e.page_num) * PageBytes
  <2> HIDE DEF o
  <2>1. f = [page_num |-> end, npages |-> EndPage(e) - end, prot |-> e.prot,
             flags |-> e.flags, removed |-> e.removed, desc |-> e.desc,
             offset |-> e.offset + o, file_size |-> e.file_size]
    BY DEF From, AnyEntry, o
  <2>2. o \in Nat
    BY <1>2 DEF o
  <2>3. /\ f \in AnyEntry /\ f.removed = e.removed /\ f.prot = e.prot
        /\ f.page_num = end /\ f.npages = EndPage(e) - end
        /\ f.flags = e.flags /\ f.desc = e.desc /\ f.file_size = e.file_size
        /\ f.offset = e.offset + o
    <3>1. /\ EndPage(e) - end \in Nat \ {0} /\ e.offset + o \in Nat
      BY <1>1, <2>2
    <3> QED
      BY <2>1, <3>1 DEF AnyEntry
  <2> QED
    BY <2>3 DEF o
<1>4. EndPage(f) = EndPage(e)
  BY <1>1, <1>3 DEF EndPage
<1> QED
  BY <1>1, <1>2, <1>3, <1>4 DEF Slice

LEMMA PlacementIs ==
    ASSUME NEW e \in AnyEntry, NEW first \in Nat, NEW end \in Nat, first < end,
           NEW p, p = Placement(e, first, end)
    PROVE  /\ p \in {"split", "end", "start", "covered", "apart"}
           /\ p = "split" <=> e.page_num < first /\ end < EndPage(e)
           /\ p = "end" <=> e.page_num < first /\ first < EndPage(e) /\ EndPage(e) <= end
           /\ p = "start" <=> first <= e.page_num /\ e.page_num < end /\ end < EndPage(e)
           /\ p = "covered" <=> Within(e, first, end)
           /\ p = "apart" <=> Outside(e, first, end)
BY EntryFacts DEF Placement, Within, Outside

LEMMA CutIs ==
    ASSUME NEW e \in Entry, NEW first \in Nat, NEW end \in Nat, first < end,
           NEW c, c = Cut(e, first, end)
    PROVE  /\ c \in AnyEntry
           /\ c.removed => Within(e, first, end)
           /\ ~c.removed => Slice(c, e) /\ c.prot = e.prot /\ Outside(c, first, end)
           /\ Outside(e, first, end) => c = e
           /\ \A p \in Pages(e) :
                p < first \/ (end <= p /\ Placement(e, first, end) # "split")
                  => ~c.removed /\ p \in Pages(c)
<1> DEFINE q == Placement(e, first, end)
<1>1. e \in AnyEntry /\ e.removed = FALSE
  BY DEF Entry, AnyEntry
<1>2. /\ q \in {"split", "end", "start", "covered", "apart"}
      /\ q = "split" <=> e.page_num < first /\ end < EndPage(e)
      /\ q = "end" <=> e.page_num < first /\ first < EndPage(e) /\ EndPage(e) <= end
      /\ q = "start" <=> first <= e.page_num /\ e.page_num < end /\ end < EndPage(e)
      /\ q = "covered" <=> Within(e, first, end)
      /\ q = "apart" <=> Outside(e, first, end)
  BY <1>1, PlacementIs
<1>3. /\ e.page_num \in Nat /\ EndPage(e) \in Nat /\ e.page_num < EndPage(e)
      /\ \A p : p \in Pages(e) <=> p \in Int /\ e.page_num <= p /\ p < EndPage(e)
  BY <1>1, EntryFacts
<1> HIDE DEF q
<1>4. CASE q \in {"split", "end"}
  <2>1. c = Below(e, first)
    BY <1>4 DEF Cut, q
  <2>2. /\ c \in AnyEntry /\ c.removed = FALSE /\ c.prot = e.prot
        /\ c.page_num = e.page_num /\ EndPage(c) = first
        /\ Slice(c, e)
    BY <1>1, <1>2, <1>3, <1>4, <2>1, BelowIs
  <2>3. \A p : p \in Pages(c) <=> p \in Int /\ e.page_num <= p /\ p < first
    BY <2>2, EntryFacts
  <2>4. q # "apart"
    BY <1>4
  <2> QED
    BY <1>2, <1>3, <1>4, <2>2, <2>3, <2>4 DEF Outside, q
<1>5. CASE q = "start"
  <2>1. c = From(e, end)
    BY <1>5 DEF Cut, q
  <2>2. /\ c \in AnyEntry /\ c.removed = FALSE /\ c.prot = e.prot
        /\ c.page_num = end /\ EndPage(c) = EndPage(e)
        /\ Slice(c, e)
    BY <1>1, <1>2, <1>3, <1>5, <2>1, FromIs
  <2>3. \A p : p \in Pages(c) <=> p \in Int /\ end <= p /\ p < EndPage(e)
    BY <2>2, EntryFacts
  <2> QED
    BY <1>2, <1>3, <1>5, <2>2, <2>3 DEF Outside
<1>6. CASE q = "covered"
  <2>1. c = [e EXCEPT !.removed = TRUE]
    BY <1>6 DEF Cut, q
  <2>2. c \in AnyEntry /\ c.removed = TRUE
    BY <1>1, <2>1 DEF AnyEntry
  <2> QED
    BY <1>2, <1>3, <1>6, <2>2 DEF Within, Outside
<1>7. CASE q = "apart"
  <2>1. c = e
    BY <1>7 DEF Cut, q
  <2> QED
    BY <1>1, <1>2, <1>7, <2>1, SliceRefl
<1> QED
  BY <1>2, <1>4, <1>5, <1>6, <1>7

(***************************************************************************)
(* The part of NaClVmmapUpdate before the addition: what is not marked     *)
(* lies outside the region and comes from what was there, and no page      *)
(* outside the region is lost.                                             *)
(***************************************************************************)
Kept(E, F, first, end) ==
    /\ \A e \in E : /\ Outside(e, first, end)
                    /\ \E o \in F : Slice(e, o) /\ e.prot = o.prot
    /\ \A o \in F : \A p \in Pages(o) :
         p < first \/ end <= p => \E e \in E : p \in Pages(e)

LEMMA ClearedClears ==
    ASSUME NEW m, GoodMap(m), NEW first \in Nat, NEW n \in Nat, n >= 1,
           NEW c, c = Cleared(m, first, n)
    PROVE  /\ c = [vmentry |-> c.vmentry, is_sorted |-> c.is_sorted]
           /\ c.is_sorted \in BOOLEAN
           /\ c.vmentry \in Seq(AnyEntry)
           /\ c.vmentry = <<>> => m.vmentry = <<>>
           /\ UnmarkedDisjoint(c.vmentry)
           /\ Kept(UnmarkedSet(c.vmentry), EntrySet(m.vmentry), first, first + n)
<1> DEFINE s == NaClVmmapMakeSorted(m)
           v == s.vmentry
           end == first + n
           place(i)   == Placement(v[i], first, end)
           reached(i) == \A j \in 1 .. i - 1 : place(j) \notin {"split", "start"}
           split == {i \in DOMAIN v : reached(i) /\ place(i) = "split"}
           cut == [i \in DOMAIN v |-> IF reached(i) THEN Cut(v[i], first, end) ELSE v[i]]
<1>1. /\ v \in Seq(Entry) /\ Ascending(v) /\ EntrySet(v) = EntrySet(m.vmentry)
  <2> HIDE DEF s
  <2> QED
    BY MakeSortedSorts DEF GoodMap, s
<1>2. /\ split = {} => c = [vmentry |-> cut, is_sorted |-> TRUE]
      /\ split # {} => c = [vmentry |-> Append(cut, From(v[CHOOSE i \in split : TRUE], end)),
                           is_sorted |-> FALSE]
  <2>1. c = [vmentry |-> IF split = {} THEN cut
                          ELSE Append(cut, From(v[CHOOSE i \in split : TRUE], end)),
             is_sorted |-> split = {}]
    BY DEF Cleared
  <2> HIDE DEF split, cut, end, v
  <2> QED
    BY <2>1
<1> HIDE DEF s
<1>3. /\ Len(v) \in Nat /\ DOMAIN v = 1 .. Len(v)
      /\ \A i \in DOMAIN v : v[i] \in Entry /\ v[i] \in AnyEntry
  BY <1>1 DEF Entry
<1>4. end \in Nat /\ first < end
  OBVIOUS
<1> HIDE DEF v, end
<1>5. \A i \in DOMAIN v :
        /\ place(i) \in {"split", "end", "start", "covered", "apart"}
        /\ place(i) = "split" <=> v[i].page_num < first /\ end < EndPage(v[i])
        /\ place(i) = "start" <=> /\ first <= v[i].page_num
                                  /\ v[i].page_num < end /\ end < EndPage(v[i])
        /\ place(i) = "apart" <=> Outside(v[i], first, end)
  BY <1>3, <1>4, PlacementIs
<1>6. \A i \in DOMAIN v : /\ v[i].page_num \in Nat /\ EndPage(v[i]) \in Nat
                          /\ v[i].page_num < EndPage(v[i])
  BY <1>3, EntryFacts
<1>7. ASSUME NEW i \in DOMAIN v, ~reached(i) PROVE Outside(v[i], first, end)
  <2>1. PICK j \in 1 .. i - 1 : place(j) \in {"split", "start"}
    BY <1>7
  <2>2. j \in DOMAIN v /\ j < i
    BY <1>3
  <2>3. end < EndPage(v[j])
    BY <2>1, <2>2, <1>5
  <2>4. EndPage(v[j]) <= v[i].page_num
    BY <2>2, <1>1 DEF Ascending
  <2> QED
    BY <2>2, <2>3, <2>4, <1>4, <1>6 DEF Outside
<1>8. \A i \in DOMAIN v : Outside(v[i], first, end) => Cut(v[i], first, end) = v[i]
  BY <1>3, <1>4, CutIs
<1>9. \A i \in DOMAIN v : cut[i] = Cut(v[i], first, end)
  BY <1>7, <1>8
<1>10. \A i \in split : /\ v[i].page_num < first /\ end < EndPage(v[i])
                        /\ i \in DOMAIN v
  BY <1>5
<1>11. \A i \in DOMAIN v : place(i) = "split" => i \in split
  <2> SUFFICES ASSUME NEW i \in DOMAIN v, place(i) = "split" PROVE reached(i)
    OBVIOUS
  <2>1. ~Outside(v[i], first, end)
    BY <1>4, <1>5, <1>6 DEF Outside
  <2> QED
    BY <2>1, <1>7
<1>12. ASSUME NEW i \in split, NEW j \in split PROVE i = j
  <2>1. /\ i \in Nat /\ j \in Nat /\ i \in DOMAIN v /\ j \in DOMAIN v
    BY <1>3, <1>10
  <2>2. ~(i < j) /\ ~(j < i)
    BY <2>1, <1>1, <1>4, <1>6, <1>10 DEF Ascending
  <2> QED
    BY <2>1, <2>2
<1>13. /\ cut \in Seq(AnyEntry) /\ Len(cut) = Len(v) /\ DOMAIN cut = DOMAIN v
  <2>1. \A i \in DOMAIN v : cut[i] \in AnyEntry
    <3> SUFFICES ASSUME NEW i \in DOMAIN v PROVE cut[i] \in AnyEntry
      OBVIOUS
    <3>1. cut[i] = Cut(v[i], first, end) /\ v[i] \in Entry
      BY <1>3, <1>9
    <3> HIDE DEF cut
    <3> QED
      BY <3>1, <1>4, CutIs
  <2>2. cut \in [1 .. Len(v) -> AnyEntry]
    BY <1>3, <2>1
  <2>3. DOMAIN cut = DOMAIN v
    OBVIOUS
  <2> HIDE DEF cut
  <2> QED
    BY <1>3, <2>2, <2>3
<1> HIDE DEF reached, place, cut, split
<1> DEFINE F == EntrySet(v)
<1>14. ASSUME NEW i \in DOMAIN v, ~cut[i].removed
       PROVE  /\ cut[i] \in AnyEntry /\ Slice(cut[i], v[i])
              /\ cut[i].prot = v[i].prot /\ Outside(cut[i], first, end)
              /\ v[i] \in F
  BY <1>3, <1>4, <1>9, <1>14, CutIs DEF EntrySet
<1>15. ASSUME NEW i \in DOMAIN v, NEW p \in Pages(v[i]),
              p < first \/ (end <= p /\ i \notin split)
       PROVE  ~cut[i].removed /\ p \in Pages(cut[i])
  <2>1. i \notin split => Placement(v[i], first, end) # "split"
    BY <1>11 DEF place
  <2> QED
    BY <1>3, <1>4, <1>9, <1>15, <2>1, CutIs
<1>16. ASSUME NEW i \in DOMAIN v, NEW j \in DOMAIN v, i # j,
              ~cut[i].removed, ~cut[j].removed
       PROVE  Apart(cut[i], cut[j])
  <2>1. Apart(v[i], v[j])
    <3>1. i \in Nat /\ j \in Nat
      BY <1>3
    <3> QED
      BY <3>1, <1>1, <1>16 DEF Ascending, Apart
  <2> QED
    BY <2>1, <1>3, <1>14, <1>16, SlicesApart
<1>17. CASE split = {}
  <2>1. c = [vmentry |-> cut, is_sorted |-> TRUE] /\ c.vmentry = cut
    BY <1>2, <1>17
  <2>2. UnmarkedSet(cut) = {cut[i] : i \in {j \in DOMAIN v : ~cut[j].removed}}
    BY <1>13 DEF UnmarkedSet, Unmarked
  <2>3. UnmarkedDisjoint(cut)
    BY <1>13, <1>16 DEF UnmarkedDisjoint, Unmarked
  <2>4. Kept(UnmarkedSet(cut), F, first, end)
    <3>1. ASSUME NEW e \in UnmarkedSet(cut)
          PROVE  /\ Outside(e, first, end)
                 /\ \E o \in F : Slice(e, o) /\ e.prot = o.prot
      BY <2>2, <1>14
    <3>2. ASSUME NEW o \in F, NEW p \in Pages(o), p < first \/ end <= p
          PROVE  \E e \in UnmarkedSet(cut) : p \in Pages(e)
      <4>1. PICK i \in DOMAIN v : o = v[i]
        BY DEF EntrySet
      <4>2. ~cut[i].removed /\ p \in Pages(cut[i])
        BY <4>1, <3>2, <1>15, <1>17
      <4> QED
        BY <4>2, <2>2
    <3> QED
      BY <3>1, <3>2 DEF Kept
  <2>5. cut = <<>> => m.vmentry = <<>>
    <3> SUFFICES ASSUME cut = <<>> PROVE m.vmentry = <<>>
      OBVIOUS
    <3>1. DOMAIN v = {}
      BY <1>13
    <3>2. EntrySet(m.vmentry) = {}
      BY <3>1, <1>1 DEF EntrySet
    <3>3. m.vmentry \in Seq(Entry)
      BY DEF GoodMap
    <3>4. DOMAIN m.vmentry = 1 .. Len(m.vmentry) /\ Len(m.vmentry) \in Nat
      BY <3>3
    <3>5. 1 \notin DOMAIN m.vmentry
      BY <3>2 DEF EntrySet
    <3>6. Len(m.vmentry) = 0
      BY <3>4, <3>5
    <3> QED
      BY <3>3, <3>6, EmptySeq
  <2> QED
    BY <1>1, <1>13, <2>1, <2>3, <2>4, <2>5 DEF end
<1>18. CASE split # {}
  <2> DEFINE k == CHOOSE i \in split : TRUE
             f == From(v[k], end)
             w == Append(cut, f)
  <2>1. k \in split /\ split = {k}
    BY <1>12, <1>18
  <2> HIDE DEF k
  <2>2. c = [vmentry |-> w, is_sorted |-> FALSE] /\ c.vmentry = w
    BY <1>2, <1>18 DEF k
  <2>3. /\ k \in DOMAIN v /\ v[k].page_num < first /\ end < EndPage(v[k])
    BY <2>1, <1>10
  <2>4. /\ f \in AnyEntry /\ f.removed = FALSE /\ f.prot = v[k].prot
        /\ f.page_num = end /\ EndPage(f) = EndPage(v[k]) /\ Slice(f, v[k])
    <3>1. v[k] \in AnyEntry /\ v[k].removed = FALSE
      BY <2>3, <1>3 DEF Entry, AnyEntry
    <3>2. v[k].page_num < end
      BY <2>3, <1>4, <1>6
    <3> QED
      BY <2>3, <3>1, <3>2, <1>4, FromIs
  <2> HIDE DEF f
  <2>5. /\ w \in Seq(AnyEntry) /\ w # <<>>
        /\ DOMAIN w = 1 .. Len(v) + 1
        /\ \A i \in DOMAIN v : w[i] = cut[i]
        /\ w[Len(v) + 1] = f
    BY <1>3, <1>13, <2>4
  <2>6. ASSUME NEW i \in DOMAIN v, ~cut[i].removed PROVE Apart(cut[i], f)
    <3>1. CASE i = k
      <4>1. Outside(cut[k], first, end) /\ Slice(cut[k], v[k]) /\ cut[k] \in AnyEntry
        BY <2>6, <3>1, <1>14
      <4>2. EndPage(cut[k]) <= first
        <5> DEFINE q == first - 1
        <5>1. q \in Pages(v[k]) /\ q < first /\ q \in Int
          <6>1. /\ q \in Int /\ q < first /\ v[k].page_num <= q
                /\ q < EndPage(v[k])
            BY <1>4, <1>6, <2>3
          <6>2. v[k] \in AnyEntry
            BY <1>3, <2>3
          <6> HIDE DEF q
          <6> QED
            BY <6>1, <6>2, EntryFacts
        <5> HIDE DEF q
        <5>2. q \in Pages(cut[k])
          BY <5>1, <2>3, <1>15
        <5>3. cut[k].page_num <= q
          BY <4>1, <5>2, EntryFacts
        <5>4. cut[k].page_num \in Nat /\ EndPage(cut[k]) \in Nat
          BY <4>1, EntryFacts
        <5> QED
          BY <4>1, <5>1, <5>3, <5>4, <1>4 DEF Outside
      <4> QED
        BY <3>1, <4>1, <4>2, <2>4, <1>4, EntryFacts DEF Apart
    <3>2. CASE i # k
      <4>1. Apart(v[i], v[k])
        <5>1. i \in Nat /\ k \in Nat
          BY <1>3, <2>3
        <5> QED
          BY <5>1, <3>2, <2>3, <1>1 DEF Ascending, Apart
      <4> QED
        BY <4>1, <1>3, <2>3, <2>4, <2>6, <1>14, SlicesApart
    <3> QED
      BY <3>1, <3>2
  <2>7. UnmarkedSet(w) = {cut[i] : i \in {j \in DOMAIN v : ~cut[j].removed}} \cup {f}
    <3>1. Unmarked(w) = {j \in DOMAIN v : ~cut[j].removed} \cup {Len(v) + 1}
      BY <1>3, <2>4, <2>5 DEF Unmarked
    <3> QED
      BY <3>1, <1>3, <2>5 DEF UnmarkedSet
  <2>8. UnmarkedDisjoint(w)
    <3> SUFFICES ASSUME NEW i \in DOMAIN w, NEW j \in DOMAIN w, i # j,
                        ~w[i].removed, ~w[j].removed
                 PROVE  Apart(w[i], w[j])
      BY DEF UnmarkedDisjoint, Unmarked
    <3>1. CASE i \in DOMAIN v /\ j \in DOMAIN v
      BY <3>1, <2>5, <1>16
    <3>2. CASE i \in DOMAIN v /\ j = Len(v) + 1
      BY <3>2, <2>5, <2>6
    <3>3. CASE i = Len(v) + 1 /\ j \in DOMAIN v
      BY <3>3, <2>5, <2>6 DEF Apart
    <3> QED
      BY <3>1, <3>2, <3>3, <2>5, <1>3
  <2>9. Kept(UnmarkedSet(w), F, first, end)
    <3>1. ASSUME NEW e \in UnmarkedSet(w)
          PROVE  /\ Outside(e, first, end)
                 /\ \E o \in F : Slice(e, o) /\ e.prot = o.prot
      <4>1. CASE e = f
        <5>1. v[k] \in F
          BY <2>3 DEF EntrySet
        <5> QED
          BY <4>1, <5>1, <2>4, <1>4 DEF Outside
      <4>2. CASE e # f
        BY <4>2, <2>7, <1>14
      <4> QED
        BY <4>1, <4>2
    <3>2. ASSUME NEW o \in F, NEW p \in Pages(o), p < first \/ end <= p
          PROVE  \E e \in UnmarkedSet(w) : p \in Pages(e)
      <4>1. PICK i \in DOMAIN v : o = v[i]
        BY DEF EntrySet
      <4>2. CASE p < first \/ i \notin split
        <5>1. ~cut[i].removed /\ p \in Pages(cut[i])
          BY <4>1, <4>2, <3>2, <1>15
        <5> QED
          BY <5>1, <2>7
      <4>3. CASE end <= p /\ i \in split
        <5>1. i = k
          BY <4>3, <2>1
        <5>2. p \in Pages(f)
          BY <5>1, <4>1, <4>3, <2>3, <2>4, <1>3, <1>4, EntryFacts
        <5> QED
          BY <5>2, <2>7
      <4> QED
        BY <4>2, <4>3, <3>2
    <3> QED
      BY <3>1, <3>2 DEF Kept
  <2> HIDE DEF w
  <2> QED
    BY <1>1, <2>2, <2>5, <2>8, <2>9 DEF end
<1> QED
  BY <1>17, <1>18

(* NaClVmmapRemove: outside the region the map is what it was, inside it   *)
(* nothing is left.                                                        *)
LEMMA RemoveKeeps ==
    ASSUME NEW m, GoodMap(m), NEW first \in Nat, NEW n \in Nat, n >= 1,
           NEW r, r = NaClVmmapRemove(m, first, n)
    PROVE  /\ GoodMap(r)
           /\ Kept(EntrySet(r.vmentry), EntrySet(m.vmentry), first, first + n)
<1> DEFINE c == Cleared(m, first, n)
<1>1. /\ c = [vmentry |-> c.vmentry, is_sorted |-> c.is_sorted]
      /\ c.is_sorted \in BOOLEAN
      /\ c.vmentry \in Seq(AnyEntry)
      /\ c.vmentry = <<>> => m.vmentry = <<>>
      /\ UnmarkedDisjoint(c.vmentry)
      /\ Kept(UnmarkedSet(c.vmentry), EntrySet(m.vmentry), first, first + n)
  <2> HIDE DEF c
  <2> QED
    BY ClearedClears DEF c
<1>2. r = NaClVmmapRemoveMarked(c)
  BY DEF NaClVmmapRemove
<1> HIDE DEF c
<1>3. CASE c.vmentry = <<>>
  <2>1. r = c
    BY <1>2, <1>3 DEF NaClVmmapRemoveMarked
  <2>2. GoodMap(r)
    BY <2>1, <1>1, <1>3 DEF GoodMap, Disjoint, Ascending
  <2>3. UnmarkedSet(c.vmentry) = EntrySet(r.vmentry)
    BY <2>1, <1>3 DEF UnmarkedSet, Unmarked, EntrySet
  <2> QED
    BY <2>2, <2>3, <1>1
<1>4. CASE c.vmentry # <<>>
  <2>1. /\ r = [vmentry |-> r.vmentry, is_sorted |-> FALSE]
        /\ r.vmentry \in Seq(Entry)
        /\ EntrySet(r.vmentry) = UnmarkedSet(c.vmentry)
        /\ Disjoint(r.vmentry)
    BY <1>1, <1>2, <1>4, RemoveMarkedRemoves
  <2>2. r.is_sorted = FALSE
    BY <2>1
  <2>3. GoodMap(r)
    BY <2>1, <2>2 DEF GoodMap
  <2> QED
    BY <2>1, <2>3, <1>1
<1> QED
  BY <1>3, <1>4

(* NaClVmmapAddWithOverwrite: the same, with the new entry in the region.  *)
LEMMA OverwriteKeeps ==
    ASSUME NEW m, GoodMap(m), NEW e \in Entry,
           NEW r, r = NaClVmmapAddWithOverwrite(m, e)
    PROVE  /\ GoodMap(r)
           /\ e \in EntrySet(r.vmentry)
           /\ Kept(EntrySet(r.vmentry) \ {e}, EntrySet(m.vmentry),
                   e.page_num, EndPage(e))
<1> DEFINE first == e.page_num
           n == e.npages
           c == Cleared(m, first, n)
           a == NaClVmmapAdd(c, e)
           v == c.vmentry
           w == Append(v, e)
<1>1. /\ first \in Nat /\ n \in Nat /\ n >= 1 /\ first + n = EndPage(e)
      /\ e \in AnyEntry /\ e.removed = FALSE
  BY EntryFacts DEF Entry
<1>2. /\ v \in Seq(AnyEntry)
      /\ UnmarkedDisjoint(v)
      /\ Kept(UnmarkedSet(v), EntrySet(m.vmentry), first, EndPage(e))
  <2> HIDE DEF first, n, c
  <2>1. /\ c.vmentry \in Seq(AnyEntry)
        /\ UnmarkedDisjoint(c.vmentry)
        /\ Kept(UnmarkedSet(c.vmentry), EntrySet(m.vmentry), first, first + n)
    BY <1>1, ClearedClears DEF c
  <2> QED
    BY <2>1, <1>1
<1>3. r = NaClVmmapRemoveMarked(a) /\ a.vmentry = w
  BY DEF NaClVmmapAddWithOverwrite, NaClVmmapAdd
<1> HIDE DEF c, v, a
<1>4. /\ w \in Seq(AnyEntry) /\ w # <<>> /\ Len(v) \in Nat
      /\ DOMAIN v = 1 .. Len(v) /\ DOMAIN w = 1 .. Len(v) + 1
      /\ \A i \in DOMAIN v : w[i] = v[i] /\ v[i] \in AnyEntry
      /\ w[Len(v) + 1] = e
  BY <1>1, <1>2
<1> HIDE DEF w
<1>5. Unmarked(w) = Unmarked(v) \cup {Len(v) + 1}
  BY <1>1, <1>4 DEF Unmarked
<1>6. UnmarkedSet(w) = UnmarkedSet(v) \cup {e}
  <2>1. \A i \in Unmarked(v) : i \in DOMAIN v
    BY DEF Unmarked
  <2> QED
    BY <2>1, <1>4, <1>5 DEF UnmarkedSet
<1>7. \A f \in UnmarkedSet(v) : Apart(f, e) /\ Apart(e, f) /\ f # e
  <2> SUFFICES ASSUME NEW f \in UnmarkedSet(v) PROVE Apart(f, e) /\ Apart(e, f) /\ f # e
    OBVIOUS
  <2>1. Outside(f, first, EndPage(e)) /\ f \in AnyEntry
    BY <1>2, <1>4 DEF Kept, UnmarkedSet, Unmarked
  <2>2. first < EndPage(e)
    BY <1>1, EntryFacts
  <2> QED
    BY <2>1, <2>2, <1>1, EntryFacts DEF Outside, Apart
<1>8. UnmarkedDisjoint(w)
  <2> SUFFICES ASSUME NEW i \in Unmarked(w), NEW j \in Unmarked(w), i # j
               PROVE  Apart(w[i], w[j])
    BY DEF UnmarkedDisjoint
  <2>1. \A k \in Unmarked(v) : k \in DOMAIN v /\ v[k] \in UnmarkedSet(v)
    BY DEF Unmarked, UnmarkedSet
  <2>2. CASE i \in Unmarked(v) /\ j \in Unmarked(v)
    BY <2>1, <2>2, <1>2, <1>4 DEF UnmarkedDisjoint
  <2>3. CASE i \in Unmarked(v) /\ j = Len(v) + 1
    BY <2>1, <2>3, <1>4, <1>7
  <2>4. CASE i = Len(v) + 1 /\ j \in Unmarked(v)
    BY <2>1, <2>4, <1>4, <1>7
  <2> QED
    BY <2>2, <2>3, <2>4, <1>5
<1>9. /\ r = [vmentry |-> r.vmentry, is_sorted |-> FALSE]
      /\ r.vmentry \in Seq(Entry)
      /\ EntrySet(r.vmentry) = UnmarkedSet(w)
      /\ Disjoint(r.vmentry)
  BY <1>3, <1>4, <1>8, RemoveMarkedRemoves
<1>10. GoodMap(r)
  <2>1. r.is_sorted = FALSE
    BY <1>9
  <2> QED
    BY <2>1, <1>9 DEF GoodMap
<1>11. EntrySet(r.vmentry) \ {e} = UnmarkedSet(v) /\ e \in EntrySet(r.vmentry)
  BY <1>6, <1>7, <1>9
<1> QED
  BY <1>2, <1>10, <1>11

-----------------------------------------------------------------------------
(***************************************************************************)
(* NaClVmmapCheckExistingMapping and NaClVmmapChangeProt.                  *)
(***************************************************************************)
LEMMA MaxIs ==
    ASSUME NEW S, NEW x \in S, \A y \in S : y \in Int /\ y <= x
    PROVE  Max(S) = x
<1>1. \A y \in S : x >= y
  OBVIOUS
<1>2. Max(S) \in S /\ \A y \in S : Max(S) >= y
  BY <1>1 DEF Max
<1> QED
  BY <1>2

LEMMA MinIs ==
    ASSUME NEW S, NEW x \in S, \A y \in S : y \in Int /\ x <= y
    PROVE  Min(S) = x
<1>1. Min(S) \in S /\ \A y \in S : Min(S) <= y
  BY DEF Min
<1> QED
  BY <1>1

(* How far the walk of a sorted array has come: to where it started, or to *)
(* the end of the entry before.                                            *)
Ended(v, i, q) == \E j \in DOMAIN v : j < i /\ q <= EndPage(v[j])

LEMMA ReachedIs ==
    ASSUME NEW v, v \in Seq(AnyEntry), Ascending(v), NEW first, first \in Nat,
           NEW i, i \in DOMAIN v, NEW q, q = Reached(v, i, first)
    PROVE  /\ q \in Nat /\ first <= q
           /\ first < q => Ended(v, i, q)
           /\ v[i].page_num < first => q <= first
           /\ first <= v[i].page_num => q <= v[i].page_num
<1>1. /\ i \in Nat /\ Len(v) \in Nat /\ DOMAIN v = 1 .. Len(v)
      /\ \A j \in DOMAIN v : v[j] \in AnyEntry
  OBVIOUS
<1>2. \A j \in DOMAIN v : /\ v[j].page_num \in Nat /\ EndPage(v[j]) \in Nat
                          /\ v[j].page_num < EndPage(v[j])
  BY <1>1, EntryFacts
<1>3. \A j \in 1 .. i - 1 : j \in DOMAIN v /\ EndPage(v[j]) <= v[i].page_num
  BY <1>1 DEF Ascending
<1> DEFINE S == {first} \cup {EndPage(v[j]) : j \in 1 .. i - 1}
<1>4. \E x \in S : \A y \in S : y \in Int /\ y <= x
  <2>1. /\ S \in SUBSET Nat /\ S # {}
        /\ \A x \in S : x <= first + v[i].page_num
    BY <1>2, <1>3
  <2>2. first + v[i].page_num \in Nat
    BY <1>2
  <2> HIDE DEF S
  <2>3. \E x \in S : \A y \in S : y <= x
    BY <2>1, <2>2, GreatestExists
  <2> QED
    BY <2>1, <2>3
<1>5. q \in S /\ \A y \in S : y \in Int /\ y <= q
  <2>1. q = Max(S)
    BY DEF Reached
  <2> HIDE DEF S
  <2> QED
    BY <2>1, <1>4, MaxIs
<1>6. first \in S /\ (q = first \/ \E j \in 1 .. i - 1 : q = EndPage(v[j]))
  BY <1>5
<1> HIDE DEF S
<1>7. q # first => \E j \in DOMAIN v : j < i /\ q = EndPage(v[j])
  BY <1>1, <1>3, <1>6
<1>8. q \in Nat /\ first <= q
  BY <1>2, <1>5, <1>6, <1>7
<1>11. first < q => Ended(v, i, q)
  BY <1>2, <1>7, <1>8 DEF Ended
<1>9. q = first \/ q <= v[i].page_num
  BY <1>3, <1>6
<1>10. v[i].page_num < first => q = first
  BY <1>2, <1>8, <1>9
<1> QED
  BY <1>8, <1>9, <1>10, <1>11

(* Where an entry lies to what is left of the region when the walk comes   *)
(* to it is where it lies to the region.                                   *)
LEMMA PlacedAlike ==
    ASSUME NEW v \in Seq(AnyEntry), Ascending(v),
           NEW first \in Nat, NEW end \in Nat, first < end,
           NEW i \in DOMAIN v, NEW q, q = Reached(v, i, first)
    PROVE  /\ Placement(v[i], first, end) # "apart" => q < end
           /\ q < end => Placement(v[i], q, end) = Placement(v[i], first, end)
<1>1. /\ q \in Nat /\ first <= q
      /\ v[i].page_num < first => q = first
      /\ first <= v[i].page_num => q <= v[i].page_num
  <2>1. q \in Nat
    BY ReachedIs
  <2>2. first <= q
    BY ReachedIs
  <2>3. v[i].page_num < first => q <= first
    BY ReachedIs
  <2>4. first <= v[i].page_num => q <= v[i].page_num
    BY ReachedIs
  <2> QED
    BY <2>1, <2>2, <2>3, <2>4
<1>2. v[i] \in AnyEntry
  OBVIOUS
<1>3. /\ v[i].page_num \in Nat /\ EndPage(v[i]) \in Nat
      /\ v[i].page_num < EndPage(v[i])
  BY <1>2, EntryFacts
<1>4. CASE v[i].page_num < first
  BY <1>1, <1>4
<1>5. CASE first <= v[i].page_num
  <2>1. q \in Nat /\ first <= q /\ q <= v[i].page_num
    BY <1>1, <1>5
  <2>2. Placement(v[i], first, end) # "apart" => v[i].page_num < end
    BY <1>2, <1>3, <1>5, PlacementIs DEF Outside
  <2>3. q < end => Placement(v[i], q, end) = Placement(v[i], first, end)
    BY <2>1, <1>3, <1>5 DEF Placement
  <2> QED
    BY <2>1, <2>2, <2>3, <1>3
<1> QED
  BY <1>3, <1>4, <1>5

(* An entry that goes on past a region is met at its start.                *)
MetAtStart(v, first, end) ==
    \A i \in DOMAIN v : Placement(v[i], first, end) = "start"
                          => Reached(v, i, first) = v[i].page_num

(* What the check establishes: no gap in the region, the new protection    *)
(* allowed for each of its entries, and the walk at the start of the entry *)
(* that goes on past it.                                                   *)
LEMMA CheckedCovers ==
    ASSUME NEW m, NEW first \in Nat, NEW n \in Nat, n >= 1,
           NEW prot, NEW accmode,
           NEW v, v = NaClVmmapMakeSorted(m).vmentry,
           v \in Seq(AnyEntry), Ascending(v),
           NaClVmmapCheckExistingMapping(m, first, n, prot, accmode)
    PROVE  /\ MetAtStart(v, first, first + n)
           /\ \A i \in DOMAIN v : ~Outside(v[i], first, first + n)
                => prot \subseteq NaClVmmapEntryMaxProt(v[i], accmode)
           /\ \A p \in first .. first + n - 1 : \E i \in DOMAIN v : p \in Pages(v[i])
<1> DEFINE end == first + n
           page(i) == Reached(v, i, first)
           allowed(i) == prot \subseteq NaClVmmapEntryMaxProt(v[i], accmode)
<1>1. /\ Len(v) \in Nat /\ DOMAIN v = 1 .. Len(v)
      /\ \A i \in DOMAIN v : v[i] \in AnyEntry
  OBVIOUS
<1>2. /\ \A i \in DOMAIN v : /\ v[i].page_num \in Nat /\ EndPage(v[i]) \in Nat
                             /\ v[i].page_num < EndPage(v[i])
      /\ end \in Nat /\ first < end
  BY <1>1, EntryFacts
<1>3. PICK k \in DOMAIN v :
        /\ v[k].page_num <= page(k) /\ end <= EndPage(v[k]) /\ allowed(k)
        /\ \A i \in 1 .. k - 1 : /\ v[i].page_num <= page(i) /\ EndPage(v[i]) < end
                                 /\ EndPage(v[i]) <= page(i) \/ allowed(i)
  BY DEF NaClVmmapCheckExistingMapping
<1>4. ASSUME NEW i \in DOMAIN v
      PROVE  /\ page(i) \in Nat /\ first <= page(i)
             /\ first < page(i) => Ended(v, i, page(i))
             /\ v[i].page_num < first => page(i) <= first
             /\ first <= v[i].page_num => page(i) <= v[i].page_num
  <2> PICK q : q = Reached(v, i, first)
    OBVIOUS
  <2>1. q \in Nat
    BY ReachedIs
  <2>2. first <= q
    BY ReachedIs
  <2>3. v[i].page_num < first => q <= first
    BY ReachedIs
  <2>4. first <= v[i].page_num => q <= v[i].page_num
    BY ReachedIs
  <2>5. first < q => Ended(v, i, q)
    BY ReachedIs
  <2> QED
    BY <2>1, <2>2, <2>3, <2>4, <2>5
<1> HIDE DEF page, allowed, end
<1>5. \A i \in DOMAIN v : i > k => end <= v[i].page_num
  <2> SUFFICES ASSUME NEW i \in DOMAIN v, i > k PROVE end <= v[i].page_num
    OBVIOUS
  <2>1. EndPage(v[k]) <= v[i].page_num
    BY <1>1 DEF Ascending
  <2> QED
    BY <2>1, <1>2, <1>3
<1>6. ASSUME NEW i \in DOMAIN v, Placement(v[i], first, end) = "start"
      PROVE  page(i) = v[i].page_num
  <2>1. first <= v[i].page_num /\ v[i].page_num < end /\ end < EndPage(v[i])
    BY <1>1, <1>2, <1>6, PlacementIs
  <2>2. ~(i > k)
    <3>1. v[i].page_num \in Nat /\ end \in Nat
      BY <1>2
    <3> QED
      BY <3>1, <2>1, <1>5
  <2>3. i \notin 1 .. k - 1
    <3>1. EndPage(v[i]) \in Nat /\ end \in Nat
      BY <1>2
    <3> QED
      BY <3>1, <2>1, <1>3
  <2>4. i = k
    BY <2>2, <2>3, <1>1
  <2> QED
    BY <2>1, <2>4, <1>2, <1>3, <1>4
<1>7. ASSUME NEW i \in DOMAIN v, ~Outside(v[i], first, end)
      PROVE  allowed(i)
  <2>1. first < EndPage(v[i]) /\ v[i].page_num < end
    BY <1>2, <1>7 DEF Outside
  <2>2. i \in 1 .. k - 1 \/ i = k
    <3>1. i \in Nat /\ i >= 1 /\ k \in Nat
      BY <1>1
    <3>2. ~(i > k)
      BY <2>1, <1>2, <1>5
    <3> QED
      BY <3>1, <3>2
  <2>3. ASSUME i \in 1 .. k - 1, EndPage(v[i]) <= page(i) PROVE FALSE
    <3>1. /\ v[i].page_num \in Nat /\ EndPage(v[i]) \in Nat
          /\ v[i].page_num < EndPage(v[i])
      BY <1>2
    <3>2. CASE v[i].page_num < first
      BY <2>1, <2>3, <3>1, <3>2, <1>4
    <3>3. CASE first <= v[i].page_num
      BY <2>1, <2>3, <3>1, <3>3, <1>4
    <3> QED
      BY <3>1, <3>2, <3>3
  <2> QED
    BY <2>2, <2>3, <1>3
<1>8. ASSUME NEW p \in first .. end - 1 PROVE \E i \in DOMAIN v : p \in Pages(v[i])
  <2> DEFINE S == {i \in DOMAIN v : p < EndPage(v[i])}
  <2>1. p \in Nat /\ first <= p /\ p < end
    BY <1>2
  <2>2. S \in SUBSET Nat /\ k \in S
    BY <2>1, <1>1, <1>2, <1>3
  <2>3. PICK i \in S : \A j \in S : i <= j
    <3> HIDE DEF S
    <3> QED
      BY <2>2, LeastExists
  <2>4. i \in DOMAIN v /\ p < EndPage(v[i]) /\ i <= k
    BY <2>2, <2>3
  <2>5. v[i].page_num <= page(i)
    BY <2>4, <1>1, <1>3
  <2>6. page(i) <= p
    <3>1. CASE page(i) = first
      BY <2>1, <3>1
    <3>2. CASE page(i) # first
      <4>1. PICK j \in DOMAIN v : j < i /\ page(i) <= EndPage(v[j])
        <5>1. first < page(i)
          BY <3>2, <2>4, <1>4
        <5> QED
          BY <5>1, <2>4, <1>4 DEF Ended
      <4>2. j \notin S
        <5>1. i \in Nat /\ j \in Nat /\ j < i
          BY <4>1, <2>4, <1>1
        <5> HIDE DEF S
        <5> QED
          BY <5>1, <2>3
      <4>3. EndPage(v[j]) <= p
        BY <4>1, <4>2, <2>1, <1>2
      <4> QED
        BY <4>1, <4>3, <2>1, <2>4, <1>2, <1>4
    <3> QED
      BY <3>1, <3>2
  <2>7. v[i].page_num <= p /\ p \in Int
    BY <2>1, <2>4, <2>5, <2>6, <1>2, <1>4
  <2> QED
    BY <2>4, <2>7, <1>1, EntryFacts
<1> QED
  BY <1>6, <1>7, <1>8 DEF page, allowed, end, MetAtStart

(***************************************************************************)
(* What ChangeProt makes of an entry: slices of it that lie outside the    *)
(* region and keep the protection, or inside it and have the new one.      *)
(***************************************************************************)
Part(e, o, first, end, prot) ==
    /\ Slice(e, o)
    /\ \/ Outside(e, first, end) /\ e.prot = o.prot
       \/ Within(e, first, end) /\ e.prot = prot

LEMMA InsideIs ==
    ASSUME NEW e \in Entry, NEW first \in Nat, NEW k \in Nat, k >= 1,
           e.page_num <= first, first + k <= EndPage(e),
           NEW prot \in SUBSET Bits, NEW f, f = Inside(e, first, k, prot)
    PROVE  /\ f \in Entry /\ f.prot = prot
           /\ f.page_num = first /\ EndPage(f) = first + k
           /\ Slice(f, e)
<1>1. /\ e \in AnyEntry /\ e.removed = FALSE
  BY DEF Entry, AnyEntry
<1>2. /\ e.page_num \in Nat /\ EndPage(e) \in Nat /\ e.offset \in Nat
  BY <1>1, EntryFacts
<1>3. f = [page_num |-> first, npages |-> k, prot |-> prot,
           flags |-> e.flags, removed |-> e.removed, desc |-> e.desc,
           offset |-> e.offset + (first - e.page_num), file_size |-> e.file_size]
  BY <1>1 DEF Inside, AnyEntry
<1>4. /\ first - e.page_num \in Nat /\ e.offset + (first - e.page_num) \in Nat
      /\ k \in Nat \ {0}
  BY <1>2
<1>5. /\ f \in AnyEntry /\ f.removed = FALSE /\ f.prot = prot
      /\ f.page_num = first /\ f.npages = k
      /\ f.flags = e.flags /\ f.desc = e.desc /\ f.file_size = e.file_size
      /\ f.offset = e.offset + (first - e.page_num)
  BY <1>1, <1>3, <1>4 DEF AnyEntry
<1>6. EndPage(f) = first + k
  BY <1>5 DEF EndPage
<1>7. first - e.page_num <= (first - e.page_num) * PageBytes
  <2>1. \A a \in Nat, b \in Nat : b >= 1 => a <= a * b
    <3> SUFFICES ASSUME NEW a \in Nat, NEW b \in Nat, b >= 1 PROVE a <= a * b
      OBVIOUS
    <3>1. a * b = a + a * (b - 1) /\ a * (b - 1) \in Nat
      OBVIOUS
    <3> QED
      BY <3>1
  <2> QED
    BY <2>1, <1>4, Units
<1>8. /\ (first - e.page_num) * PageBytes \in Nat
  BY <1>4, Units
<1>9. f.offset <= e.offset + (first - e.page_num) * PageBytes
  BY <1>2, <1>4, <1>5, <1>7, <1>8
<1> QED
  BY <1>1, <1>2, <1>5, <1>6, <1>9 DEF Slice, Entry

Closing(e, q, end, prot) ==
    [e EXCEPT !.page_num = q, !.npages = end - q, !.prot = prot]

LEMMA ClosingIs ==
    ASSUME NEW e \in Entry, NEW end \in Nat, e.page_num < end, end <= EndPage(e),
           NEW prot \in SUBSET Bits,
           NEW f, f = Closing(e, e.page_num, end, prot)
    PROVE  /\ f \in Entry /\ f.prot = prot
           /\ f.page_num = e.page_num /\ EndPage(f) = end
           /\ Slice(f, e)
<1>1. /\ e \in AnyEntry /\ e.removed = FALSE
  BY DEF Entry, AnyEntry
<1>2. /\ e.page_num \in Nat /\ EndPage(e) \in Nat /\ e.offset \in Nat
  BY <1>1, EntryFacts
<1>3. f = [page_num |-> e.page_num, npages |-> end - e.page_num, prot |-> prot,
           flags |-> e.flags, removed |-> e.removed, desc |-> e.desc,
           offset |-> e.offset, file_size |-> e.file_size]
  BY <1>1 DEF AnyEntry, Closing
<1>4. end - e.page_num \in Nat \ {0}
  BY <1>2
<1>5. /\ f \in AnyEntry /\ f.removed = FALSE /\ f.prot = prot
      /\ f.page_num = e.page_num /\ f.npages = end - e.page_num
      /\ f.flags = e.flags /\ f.desc = e.desc /\ f.file_size = e.file_size
      /\ f.offset = e.offset
  BY <1>1, <1>3, <1>4 DEF AnyEntry
<1>6. EndPage(f) = end
  BY <1>2, <1>5 DEF EndPage
<1>7. f.offset <= e.offset + (f.page_num - e.page_num) * PageBytes
  <2>1. (f.page_num - e.page_num) * PageBytes = 0
    BY <1>2, <1>5, Units
  <2> QED
    BY <2>1, <1>2, <1>5
<1>8. f.removed = FALSE /\ f \in Entry
  BY <1>5 DEF Entry
<1> QED
  BY <1>1, <1>2, <1>5, <1>6, <1>7, <1>8 DEF Slice

(* The array with one more entry, or with none.                            *)
LEMMA PieceAdded ==
    ASSUME NEW u, u \in Seq(Entry), Disjoint(u), NEW P,
           \/ P = <<>>
           \/ \E e \in Entry : /\ P = <<e>>
                               /\ \A f \in EntrySet(u) : Apart(e, f),
           NEW w, w = u \o P
    PROVE  /\ w \in Seq(Entry)
           /\ Disjoint(w)
           /\ EntrySet(w) = EntrySet(u) \cup EntrySet(P)
<1>1. CASE P = <<>>
  <2>1. w = u
    BY <1>1
  <2>2. EntrySet(P) = {}
    BY <1>1 DEF EntrySet
  <2> QED
    BY <2>1, <2>2
<1>2. CASE P # <<>>
  <2>1. PICK e \in Entry : /\ P = <<e>>
                           /\ \A f \in EntrySet(u) : Apart(e, f)
    BY <1>2
  <2>2. /\ w \in Seq(Entry) /\ Len(u) \in Nat
        /\ DOMAIN u = 1 .. Len(u) /\ DOMAIN w = 1 .. Len(u) + 1
        /\ \A i \in DOMAIN u : w[i] = u[i]
        /\ w[Len(u) + 1] = e
    BY <2>1
  <2>3. EntrySet(P) = {e}
    BY <2>1 DEF EntrySet
  <2>4. EntrySet(w) = EntrySet(u) \cup {e}
    <3>1. DOMAIN w = DOMAIN u \cup {Len(u) + 1}
      BY <2>2
    <3> QED
      BY <3>1, <2>2 DEF EntrySet
  <2>5. \A i \in DOMAIN u : Apart(e, u[i]) /\ Apart(u[i], e)
    BY <2>1 DEF EntrySet, Apart
  <2>6. Disjoint(w)
    <3> SUFFICES ASSUME NEW i \in DOMAIN w, NEW j \in DOMAIN w, i # j
                 PROVE  Apart(w[i], w[j])
      BY DEF Disjoint
    <3>1. CASE i \in DOMAIN u /\ j \in DOMAIN u
      BY <3>1, <2>2 DEF Disjoint
    <3>2. CASE i \in DOMAIN u /\ j = Len(u) + 1
      BY <3>2, <2>2, <2>5
    <3>3. CASE i = Len(u) + 1 /\ j \in DOMAIN u
      BY <3>3, <2>2, <2>5
    <3> QED
      BY <3>1, <3>2, <3>3, <2>2
  <2> QED
    BY <2>2, <2>3, <2>4, <2>6
<1> QED
  BY <1>1, <1>2

LEMMA Singletons == <<>> \in Seq(Entry) /\ \A e \in Entry : <<e>> \in Seq(Entry)
OBVIOUS

LEMMA ChangeChanges ==
    ASSUME NEW m, GoodMap(m), NEW first \in Nat, NEW n \in Nat, n >= 1,
           NEW prot \in SUBSET Bits,
           NEW v, v = NaClVmmapMakeSorted(m).vmentry,
           MetAtStart(v, first, first + n),
           NEW r, r = ChangeProt(m, first, n, prot)
    PROVE  /\ GoodMap(r)
           /\ \A e \in EntrySet(r.vmentry) :
                \E o \in EntrySet(v) : Part(e, o, first, first + n, prot)
           /\ \A o \in EntrySet(v) : \A p \in Pages(o) :
                \E e \in EntrySet(r.vmentry) : p \in Pages(e)
<1> DEFINE end == first + n
           page(i) == Reached(v, i, first)
           placed(p) == {i \in DOMAIN v :
                           page(i) < end /\ Placement(v[i], page(i), end) = p}
           changed(i) ==
             CASE i \in placed("split") \cup placed("end") -> Below(v[i], page(i))
               [] i \in placed("start")   -> From(v[i], end)
               [] i \in placed("covered") -> [v[i] EXCEPT !.prot = prot]
               [] OTHER -> v[i]
           above   == [i \in placed("split") |-> From(v[i], end)]
           opening == [i \in placed("split") \cup placed("end") |->
                         Inside(v[i], page(i),
                                Min({EndPage(v[i]), end}) - page(i), prot)]
           closing == [i \in placed("start") |->
                         [v[i] EXCEPT !.page_num = page(i),
                                      !.npages   = end - page(i),
                                      !.prot     = prot]]
           base == [i \in DOMAIN v |-> changed(i)]
           A == placed("split")
           B == placed("split") \cup placed("end")
           C == placed("start")
           K == placed("covered")
           added == Piece(above) \o Piece(opening) \o Piece(closing)
           w == base \o added
<1>1. r = [vmentry |-> w, is_sorted |-> added = <<>>]
  BY DEF ChangeProt
<1>2. /\ v \in Seq(Entry) /\ Ascending(v)
  <2> DEFINE s == NaClVmmapMakeSorted(m)
  <2> HIDE DEF s
  <2>1. GoodMap(s) /\ Ascending(s.vmentry)
    BY MakeSortedSorts DEF s
  <2>2. v = s.vmentry
    BY DEF s
  <2> QED
    BY <2>1, <2>2 DEF GoodMap
<1>3. /\ Len(v) \in Nat /\ DOMAIN v = 1 .. Len(v)
      /\ \A i \in DOMAIN v : v[i] \in Entry /\ v[i] \in AnyEntry
      /\ v \in Seq(AnyEntry)
      /\ end \in Nat /\ first < end
  <2>1. \A i \in DOMAIN v : v[i] \in Entry
    BY <1>2
  <2>2. v \in Seq(AnyEntry)
    BY <1>2, EntryIsAny, SeqMonotonic
  <2> QED
    BY <1>2, <2>1, <2>2, EntryIsAny
<1> DEFINE place(i) == Placement(v[i], first, end)
<1>4. ASSUME NEW i \in DOMAIN v
      PROVE  /\ page(i) \in Nat /\ first <= page(i)
             /\ v[i].page_num < first => page(i) = first
             /\ place(i) # "apart" => page(i) < end
             /\ page(i) < end => Placement(v[i], page(i), end) = place(i)
  <2> PICK q : q = Reached(v, i, first)
    OBVIOUS
  <2>1. q \in Nat
    BY <1>2, <1>3, ReachedIs
  <2>2. first <= q
    BY <1>2, <1>3, ReachedIs
  <2>3. v[i].page_num < first => q <= first
    BY <1>2, <1>3, ReachedIs
  <2> HIDE DEF end
  <2>4. /\ Placement(v[i], first, end) # "apart" => q < end
        /\ q < end => Placement(v[i], q, end) = Placement(v[i], first, end)
    BY <1>2, <1>3, PlacedAlike
  <2> QED
    BY <2>1, <2>2, <2>3, <2>4
<1>5. ASSUME NEW i \in DOMAIN v, place(i) = "start" PROVE page(i) = v[i].page_num
  BY <1>5 DEF MetAtStart
<1>6. ASSUME NEW i \in DOMAIN v
      PROVE  /\ place(i) \in {"split", "end", "start", "covered", "apart"}
             /\ place(i) = "split" <=> v[i].page_num < first /\ end < EndPage(v[i])
             /\ place(i) = "end" <=> /\ v[i].page_num < first /\ first < EndPage(v[i])
                                     /\ EndPage(v[i]) <= end
             /\ place(i) = "start" <=> /\ first <= v[i].page_num
                                       /\ v[i].page_num < end /\ end < EndPage(v[i])
             /\ place(i) = "covered" <=> Within(v[i], first, end)
             /\ place(i) = "apart" <=> Outside(v[i], first, end)
  <2> HIDE DEF end
  <2> QED
    BY <1>3, PlacementIs
<1>7. /\ A = {i \in DOMAIN v : place(i) = "split"}
      /\ B = {i \in DOMAIN v : place(i) \in {"split", "end"}}
      /\ C = {i \in DOMAIN v : place(i) = "start"}
      /\ K = {i \in DOMAIN v : place(i) = "covered"}
  <2> HIDE DEF page, place, end
  <2> QED
    BY <1>4
<1>8. \A i \in DOMAIN v : changed(i) = IF i \in B THEN Below(v[i], first)
                                       ELSE IF i \in C THEN From(v[i], end)
                                       ELSE IF i \in K THEN [v[i] EXCEPT !.prot = prot]
                                       ELSE v[i]
  <2>1. \A i \in B : page(i) = first
    <3> HIDE DEF page, place, end, A, B, C, K
    <3> QED
      BY <1>4, <1>6, <1>7
  <2>2. \A i \in B : i \notin C /\ i \notin K
    <3> HIDE DEF page, place, end, A, B, C, K
    <3> QED
      BY <1>7
  <2>3. \A i \in C : i \notin K
    <3> HIDE DEF page, place, end, A, B, C, K
    <3> QED
      BY <1>7
  <2>4. \A i \in DOMAIN v : changed(i) = CASE i \in B -> Below(v[i], page(i))
                                           [] i \in C -> From(v[i], end)
                                           [] i \in K -> [v[i] EXCEPT !.prot = prot]
                                           [] OTHER -> v[i]
    OBVIOUS
  <2> HIDE DEF page, place, end, A, B, C, K, changed
  <2> QED
    BY <2>1, <2>2, <2>3, <2>4
<1>9. /\ A \subseteq DOMAIN v /\ B \subseteq DOMAIN v /\ C \subseteq DOMAIN v
      /\ K \subseteq DOMAIN v /\ A \subseteq B
      /\ B \cap C = {} /\ B \cap K = {} /\ C \cap K = {}
  <2> HIDE DEF page, place, end, A, B, C, K
  <2> QED
    BY <1>7
<1>10. /\ \A i \in A : v[i].page_num < first /\ end < EndPage(v[i])
       /\ \A i \in B : /\ v[i].page_num < first /\ first < EndPage(v[i])
                       /\ page(i) = first /\ (i \notin A => EndPage(v[i]) <= end)
       /\ \A i \in C : /\ first <= v[i].page_num /\ v[i].page_num < end
                       /\ end < EndPage(v[i]) /\ page(i) = v[i].page_num
       /\ \A i \in K : Within(v[i], first, end)
       /\ \A i \in DOMAIN v : i \notin B /\ i \notin C /\ i \notin K
                                => Outside(v[i], first, end)
  <2>1. \A i \in DOMAIN v : v[i].page_num \in Nat /\ EndPage(v[i]) \in Nat
    BY <1>3, EntryFacts
  <2> HIDE DEF page, place, end, A, B, C, K
  <2>2. \A i \in A : v[i].page_num < first /\ end < EndPage(v[i])
    BY <1>6, <1>7
  <2>3. \A i \in B : /\ v[i].page_num < first /\ first < EndPage(v[i])
                     /\ page(i) = first /\ (i \notin A => EndPage(v[i]) <= end)
    BY <2>1, <1>3, <1>4, <1>6, <1>7
  <2>4. \A i \in C : /\ first <= v[i].page_num /\ v[i].page_num < end
                     /\ end < EndPage(v[i]) /\ page(i) = v[i].page_num
    BY <1>5, <1>6, <1>7
  <2>5. \A i \in K : Within(v[i], first, end)
    BY <1>6, <1>7
  <2>6. \A i \in DOMAIN v : i \notin B /\ i \notin C /\ i \notin K
                              => Outside(v[i], first, end)
    BY <1>6, <1>7
  <2> QED
    BY <2>2, <2>3, <2>4, <2>5, <2>6
<1>11. /\ DOMAIN above = A /\ \A i \in A : above[i] = From(v[i], end)
       /\ DOMAIN opening = B
       /\ \A i \in B : opening[i] = Inside(v[i], page(i),
                                           Min({EndPage(v[i]), end}) - page(i), prot)
       /\ DOMAIN closing = C
       /\ \A i \in C : closing[i] = [v[i] EXCEPT !.page_num = page(i),
                                                 !.npages   = end - page(i),
                                                 !.prot     = prot]
       /\ DOMAIN base = DOMAIN v /\ \A i \in DOMAIN v : base[i] = changed(i)
  <2> HIDE DEF page, A, B, C, changed
  <2> QED
    BY DEF A, B, C
<1> HIDE DEF page, placed, place, end, A, B, C, K, above, opening, closing, base, changed
<1>12. \A i \in DOMAIN v : /\ v[i].page_num \in Nat /\ EndPage(v[i]) \in Nat
                           /\ v[i].page_num < EndPage(v[i])
  BY <1>3, EntryFacts
<1>13. ASSUME NEW i \in DOMAIN v, NEW j \in DOMAIN v, i # j
       PROVE  Apart(v[i], v[j])
  <2>1. i \in Nat /\ j \in Nat
    BY <1>3
  <2> QED
    BY <2>1, <1>2, <1>13 DEF Ascending, Apart
(* At most one entry holds the start of the region, and one its end.       *)
<1>14. ASSUME NEW i \in B, NEW j \in B PROVE i = j
  <2>1. i \in DOMAIN v /\ j \in DOMAIN v
    BY <1>9
  <2>2. ~Apart(v[i], v[j])
    BY <2>1, <1>10, <1>12 DEF Apart
  <2> QED
    BY <2>1, <2>2, <1>13
<1>15. ASSUME NEW i \in C, NEW j \in C PROVE i = j
  <2>1. i \in DOMAIN v /\ j \in DOMAIN v
    BY <1>9
  <2>2. ~Apart(v[i], v[j])
    BY <2>1, <1>3, <1>10, <1>12 DEF Apart
  <2> QED
    BY <2>1, <2>2, <1>13
<1>16. ASSUME NEW i \in DOMAIN v
       PROVE  /\ base[i] \in Entry
              /\ Part(base[i], v[i], first, end, prot)
              /\ i \in B => base[i].page_num = v[i].page_num /\ EndPage(base[i]) = first
              /\ i \in C => base[i].page_num = end /\ EndPage(base[i]) = EndPage(v[i])
              /\ i \notin B /\ i \notin C =>
                   /\ base[i].page_num = v[i].page_num
                   /\ EndPage(base[i]) = EndPage(v[i])
  <2> DEFINE e == v[i]
             b == base[i]
  <2>1. e \in Entry /\ e \in AnyEntry /\ e.removed = FALSE
    BY <1>3 DEF Entry, AnyEntry
  <2>2. b = IF i \in B THEN Below(e, first)
            ELSE IF i \in C THEN From(e, end)
            ELSE IF i \in K THEN [e EXCEPT !.prot = prot]
            ELSE e
    BY <1>8, <1>11
  <2>3. e.page_num \in Nat /\ EndPage(e) \in Nat /\ e.page_num < EndPage(e)
    BY <1>12
  <2>4. CASE i \in B
    <3>1. e.page_num < first /\ first < EndPage(e) /\ i \notin C
      BY <2>4, <1>9, <1>10
    <3>2. b = Below(e, first)
      BY <2>2, <2>4
    <3> HIDE DEF b, e
    <3>3. /\ b \in AnyEntry /\ b.removed = FALSE /\ b.prot = e.prot
          /\ b.page_num = e.page_num /\ EndPage(b) = first /\ Slice(b, e)
      BY <3>1, <3>2, <2>1, BelowIs
    <3>4. Outside(b, first, end) /\ b \in Entry
      BY <3>3 DEF Outside, Entry
    <3> QED
      BY <3>1, <3>3, <3>4, <2>4 DEF Part, b, e
  <2>5. CASE i \in C
    <3>1. e.page_num < end /\ end < EndPage(e) /\ i \notin B
      BY <2>5, <1>9, <1>10
    <3>2. b = From(e, end)
      BY <2>2, <2>5, <3>1
    <3> HIDE DEF b, e
    <3>3. /\ b \in AnyEntry /\ b.removed = FALSE /\ b.prot = e.prot
          /\ b.page_num = end /\ EndPage(b) = EndPage(e) /\ Slice(b, e)
      BY <3>1, <3>2, <2>1, <1>3, FromIs
    <3>4. Outside(b, first, end) /\ b \in Entry
      BY <3>3, <1>3 DEF Outside, Entry
    <3> QED
      BY <3>1, <3>3, <3>4, <2>5 DEF Part, b, e
  <2>6. CASE i \notin B /\ i \notin C /\ i \in K
    <3>1. Within(e, first, end)
      BY <2>6, <1>10
    <3>2. b = [e EXCEPT !.prot = prot]
      BY <2>2, <2>6
    <3> HIDE DEF b, e
    <3>3. b \in Entry /\ b \in AnyEntry /\ b.page_num = e.page_num
          /\ b.npages = e.npages /\ b.prot = prot /\ b.flags = e.flags
          /\ b.desc = e.desc /\ b.file_size = e.file_size /\ b.offset = e.offset
      BY <3>2, <2>1 DEF Entry, AnyEntry
    <3>4. EndPage(b) = EndPage(e)
      BY <3>3 DEF EndPage
    <3>5. Within(b, first, end)
      BY <3>1, <3>3, <3>4 DEF Within
    <3>6. Slice(b, e)
      BY <3>3, <3>4, <2>1, SliceRefl DEF Slice
    <3> QED
      BY <3>3, <3>4, <3>5, <3>6, <2>6 DEF Part, b, e
  <2>7. CASE i \notin B /\ i \notin C /\ i \notin K
    <3>1. Outside(e, first, end)
      BY <2>7, <1>10
    <3>2. b = e
      BY <2>2, <2>7
    <3> QED
      BY <3>1, <3>2, <2>1, <2>7, SliceRefl DEF Part
  <2> QED
    BY <2>4, <2>5, <2>6, <2>7
<1>17. ASSUME NEW i \in A
       PROVE  /\ above[i] \in Entry /\ Part(above[i], v[i], first, end, prot)
              /\ above[i].page_num = end /\ EndPage(above[i]) = EndPage(v[i])
  <2> DEFINE e == v[i]
             b == above[i]
  <2>1. /\ e \in AnyEntry /\ e.removed = FALSE /\ e.page_num < end /\ end < EndPage(e)
    <3>1. i \in DOMAIN v /\ e \in Entry /\ e \in AnyEntry
      BY <1>3, <1>9
    <3>2. e.removed = FALSE
      BY <3>1 DEF Entry, AnyEntry
    <3>3. e.page_num < end /\ end < EndPage(e)
      BY <3>1, <1>3, <1>10, <1>12
    <3> QED
      BY <3>1, <3>2, <3>3
  <2>2. b = From(e, end)
    BY <1>11
  <2> HIDE DEF b, e
  <2>3. /\ b \in AnyEntry /\ b.removed = FALSE /\ b.prot = e.prot
        /\ b.page_num = end /\ EndPage(b) = EndPage(e) /\ Slice(b, e)
    BY <2>1, <2>2, <1>3, FromIs
  <2>4. Outside(b, first, end) /\ b \in Entry
    BY <2>3, <1>3 DEF Outside, Entry
  <2> QED
    BY <2>3, <2>4 DEF Part, b, e
<1>18. ASSUME NEW i \in B
       PROVE  /\ opening[i] \in Entry /\ Part(opening[i], v[i], first, end, prot)
              /\ opening[i].page_num = first
              /\ EndPage(opening[i]) <= EndPage(v[i]) /\ EndPage(opening[i]) <= end
              /\ i \in A => EndPage(opening[i]) = end
              /\ i \notin A => EndPage(opening[i]) = EndPage(v[i])
  <2> DEFINE e == v[i]
             b == opening[i]
             k == Min({EndPage(e), end}) - first
  <2>1. /\ e \in Entry /\ e.page_num < first /\ first < EndPage(e)
        /\ EndPage(e) \in Nat /\ page(i) = first
        /\ i \in A => end < EndPage(e)
        /\ i \notin A => EndPage(e) <= end
    BY <1>3, <1>9, <1>10, <1>12
  <2>2. b = Inside(e, first, k, prot)
    BY <2>1, <1>11
  <2> HIDE DEF e, b
  <2>3. /\ k \in Nat /\ k >= 1 /\ first + k <= EndPage(e) /\ first + k <= end
        /\ i \in A => first + k = end
        /\ i \notin A => first + k = EndPage(e)
    <3>1. CASE i \in A
      <4> PICK S : S = {EndPage(e), end}
        OBVIOUS
      <4>1. \A y \in S : y \in Int /\ end <= y
        BY <3>1, <2>1, <1>3
      <4>2. Min(S) = end
        BY <4>1, MinIs
      <4> QED
        BY <3>1, <4>2, <2>1, <1>3
    <3>2. CASE i \notin A
      <4> PICK S : S = {EndPage(e), end}
        OBVIOUS
      <4>1. \A y \in S : y \in Int /\ EndPage(e) <= y
        BY <3>2, <2>1, <1>3
      <4>2. Min(S) = EndPage(e)
        BY <4>1, MinIs
      <4> QED
        BY <3>2, <4>2, <2>1, <1>3
    <3> QED
      BY <3>1, <3>2
  <2> HIDE DEF k
  <2>4. e.page_num <= first
    BY <2>1, <1>9, <1>12 DEF e
  <2>5. /\ b \in Entry /\ b.prot = prot
        /\ b.page_num = first /\ EndPage(b) = first + k /\ Slice(b, e)
    BY <2>1, <2>2, <2>3, <2>4, InsideIs
  <2>6. Within(b, first, end)
    BY <2>3, <2>5 DEF Within
  <2> QED
    BY <2>3, <2>5, <2>6 DEF Part, b, e
<1>19. ASSUME NEW i \in C
       PROVE  /\ closing[i] \in Entry /\ Part(closing[i], v[i], first, end, prot)
              /\ closing[i].page_num = v[i].page_num /\ EndPage(closing[i]) = end
  <2> DEFINE e == v[i]
             b == closing[i]
             q == page(i)
  <2>1. /\ e \in Entry /\ first <= e.page_num /\ e.page_num < end /\ end < EndPage(e)
        /\ q = e.page_num
    BY <1>3, <1>9, <1>10
  <2>6. b = Closing(e, q, end, prot)
    BY <1>11 DEF Closing
  <2>2. b = Closing(e, e.page_num, end, prot)
    BY <2>1, <2>6
  <2>3. end <= EndPage(e)
    BY <2>1, <1>3, <1>9, <1>12
  <2> HIDE DEF b, e, q
  <2>4. /\ b \in Entry /\ b.prot = prot
        /\ b.page_num = e.page_num /\ EndPage(b) = end /\ Slice(b, e)
    <3>1. e \in Entry /\ e.page_num < end /\ end <= EndPage(e) /\ end \in Nat
      BY <2>1, <2>3, <1>3
    <3>2. b \in Entry
      BY <3>1, <2>2, ClosingIs
    <3>3. b.prot = prot
      BY <3>1, <2>2, ClosingIs
    <3>4. b.page_num = e.page_num
      BY <3>1, <2>2, ClosingIs
    <3>5. EndPage(b) = end
      BY <3>1, <2>2, ClosingIs
    <3>6. Slice(b, e)
      BY <3>1, <2>2, ClosingIs
    <3> QED
      BY <3>2, <3>3, <3>4, <3>5, <3>6
  <2>5. Within(b, first, end)
    BY <2>1, <2>4, <1>3 DEF Within
  <2> QED
    BY <2>4, <2>5 DEF Part, b, e
<1>20. ASSUME NEW i \in DOMAIN v, NEW j \in DOMAIN v, i # j,
              NEW d \in Entry, NEW g \in Entry,
              Part(d, v[i], first, end, prot), Part(g, v[j], first, end, prot)
       PROVE  Apart(d, g)
  <2>1. /\ d \in AnyEntry /\ g \in AnyEntry /\ v[i] \in AnyEntry /\ v[j] \in AnyEntry
        /\ Apart(v[i], v[j]) /\ Slice(d, v[i]) /\ Slice(g, v[j])
    BY <1>3, <1>13, <1>20, EntryIsAny DEF Part
  <2> QED
    BY <2>1, SlicesApart
<1> DEFINE u1 == base \o Piece(above)
           u2 == u1 \o Piece(opening)
           u3 == u2 \o Piece(closing)
<1>21. base \in Seq(Entry) /\ Disjoint(base)
  <2>1. base \in [1 .. Len(v) -> Entry]
    <3>1. base = [i \in DOMAIN v |-> base[i]]
      BY DEF base
    <3> QED
      BY <3>1, <1>3, <1>16
  <2>2. base \in Seq(Entry)
    BY <2>1, <1>3
  <2>3. Disjoint(base)
    BY <1>11, <1>16, <1>20 DEF Disjoint
  <2> QED
    BY <2>2, <2>3
<1>22. /\ \A e \in EntrySet(base) : \E i \in DOMAIN v : e = base[i]
       /\ \A i \in DOMAIN v : base[i] \in EntrySet(base)
  BY <1>11 DEF EntrySet
<1>23. /\ A = {} => Piece(above) = <<>> /\ EntrySet(Piece(above)) = {}
       /\ \A k \in A : Piece(above) = <<above[k]>>
                       /\ EntrySet(Piece(above)) = {above[k]}
  <2>1. A = {} => Piece(above) = <<>>
    BY <1>11 DEF Piece
  <2>2. ASSUME NEW k \in A PROVE Piece(above) = <<above[k]>>
    <3>1. (CHOOSE i \in A : TRUE) = k
      BY <1>9, <1>14
    <3> QED
      BY <3>1, <1>11 DEF Piece
  <2> QED
    BY <2>1, <2>2 DEF EntrySet
<1>24. /\ B = {} => Piece(opening) = <<>> /\ EntrySet(Piece(opening)) = {}
       /\ \A k \in B : Piece(opening) = <<opening[k]>>
                       /\ EntrySet(Piece(opening)) = {opening[k]}
  <2>1. B = {} => Piece(opening) = <<>>
    BY <1>11 DEF Piece
  <2>2. ASSUME NEW k \in B PROVE Piece(opening) = <<opening[k]>>
    <3>1. (CHOOSE i \in B : TRUE) = k
      BY <1>14
    <3> QED
      BY <3>1, <1>11 DEF Piece
  <2> QED
    BY <2>1, <2>2 DEF EntrySet
<1>26. DOMAIN closing = C
  BY <1>11
<1>25. /\ C = {} => Piece(closing) = <<>> /\ EntrySet(Piece(closing)) = {}
       /\ \A k \in C : Piece(closing) = <<closing[k]>>
                       /\ EntrySet(Piece(closing)) = {closing[k]}
  <2>1. C = {} => Piece(closing) = <<>>
    BY <1>26 DEF Piece
  <2>2. ASSUME NEW k \in C PROVE Piece(closing) = <<closing[k]>>
    <3>1. (CHOOSE i \in C : TRUE) = k
      BY <1>15
    <3> QED
      BY <3>1, <1>26 DEF Piece
  <2> QED
    BY <2>1, <2>2 DEF EntrySet
<1> HIDE DEF u1, u2, u3
(* The pieces, one after the other.                                        *)
<1>27. /\ u1 \in Seq(Entry) /\ Disjoint(u1)
       /\ EntrySet(u1) = EntrySet(base) \cup EntrySet(Piece(above))
  <2>1. ASSUME NEW k \in A, NEW i \in DOMAIN v PROVE Apart(above[k], base[i])
    <3>1. CASE i = k
      BY <3>1, <1>3, <1>9, <1>16, <1>17 DEF Apart
    <3>2. CASE i # k
      BY <3>2, <1>9, <1>16, <1>17, <1>20
    <3> QED
      BY <3>1, <3>2
  <2>2. \/ Piece(above) = <<>>
        \/ \E e \in Entry : /\ Piece(above) = <<e>>
                            /\ \A f \in EntrySet(base) : Apart(e, f)
    BY <2>1, <1>17, <1>22, <1>23
  <2> QED
    BY <2>2, <1>21, PieceAdded DEF u1
<1>28. /\ u2 \in Seq(Entry) /\ Disjoint(u2)
       /\ EntrySet(u2) = EntrySet(u1) \cup EntrySet(Piece(opening))
  <2>1. ASSUME NEW k \in B, NEW i \in DOMAIN v PROVE Apart(opening[k], base[i])
    <3>1. CASE i = k
      BY <3>1, <1>3, <1>9, <1>16, <1>18 DEF Apart
    <3>2. CASE i # k
      BY <3>2, <1>9, <1>16, <1>18, <1>20
    <3> QED
      BY <3>1, <3>2
  <2>2. ASSUME NEW k \in B, NEW i \in A PROVE Apart(opening[k], above[i])
    <3>1. i = k
      BY <1>9, <1>14
    <3> QED
      BY <3>1, <1>3, <1>17, <1>18 DEF Apart
  <2>3. ASSUME NEW k \in B, NEW f \in EntrySet(u1) PROVE Apart(opening[k], f)
    BY <2>1, <2>2, <1>22, <1>23, <1>27
  <2>4. \/ Piece(opening) = <<>>
        \/ \E e \in Entry : /\ Piece(opening) = <<e>>
                            /\ \A f \in EntrySet(u1) : Apart(e, f)
    BY <2>3, <1>18, <1>24
  <2> QED
    BY <2>4, <1>27, PieceAdded DEF u2
<1>29. /\ u3 \in Seq(Entry) /\ Disjoint(u3)
       /\ EntrySet(u3) = EntrySet(u2) \cup EntrySet(Piece(closing))
  <2>1. ASSUME NEW k \in C, NEW i \in DOMAIN v PROVE Apart(closing[k], base[i])
    <3>1. CASE i = k
      BY <3>1, <1>3, <1>9, <1>16, <1>19 DEF Apart
    <3>2. CASE i # k
      BY <3>2, <1>9, <1>16, <1>19, <1>20
    <3> QED
      BY <3>1, <3>2
  <2>2. ASSUME NEW k \in C, NEW i \in A PROVE Apart(closing[k], above[i])
    BY <1>9, <1>17, <1>19, <1>20
  <2>3. ASSUME NEW k \in C, NEW i \in B PROVE Apart(closing[k], opening[i])
    BY <1>9, <1>18, <1>19, <1>20
  <2>4. ASSUME NEW k \in C, NEW f \in EntrySet(u2) PROVE Apart(closing[k], f)
    BY <2>1, <2>2, <2>3, <1>22, <1>23, <1>24, <1>27, <1>28
  <2>5. \/ Piece(closing) = <<>>
        \/ \E e \in Entry : /\ Piece(closing) = <<e>>
                            /\ \A f \in EntrySet(u2) : Apart(e, f)
    BY <2>4, <1>19, <1>25
  <2> QED
    BY <2>5, <1>28, PieceAdded DEF u3
<1>30. /\ Piece(above) \in Seq(Entry) /\ Piece(opening) \in Seq(Entry)
       /\ Piece(closing) \in Seq(Entry)
  <2>1. Piece(above) \in Seq(Entry)
    BY <1>17, <1>23, Singletons
  <2>2. Piece(opening) \in Seq(Entry)
    BY <1>18, <1>24, Singletons
  <2>3. Piece(closing) \in Seq(Entry)
    BY <1>19, <1>25, Singletons
  <2> QED
    BY <2>1, <2>2, <2>3
<1>31. w = u3
  <2>1. w = base \o (Piece(above) \o Piece(opening) \o Piece(closing))
    OBVIOUS
  <2>2. u3 = ((base \o Piece(above)) \o Piece(opening)) \o Piece(closing)
    BY DEF u1, u2, u3
  <2> PICK x, y, z : x = Piece(above) /\ y = Piece(opening) /\ z = Piece(closing)
    OBVIOUS
  <2> DEFINE k == Len(base) + Len(x) + Len(y) + Len(z)
  <2>3. /\ base \in Seq(Entry) /\ x \in Seq(Entry) /\ y \in Seq(Entry)
        /\ z \in Seq(Entry)
    BY <1>21, <1>30
  <2>4. w = base \o (x \o y \o z) /\ u3 = ((base \o x) \o y) \o z
    BY <2>1, <2>2
  <2> HIDE DEF w
  <2>5. /\ Len(base) \in Nat /\ Len(x) \in Nat /\ Len(y) \in Nat /\ Len(z) \in Nat
        /\ DOMAIN w = 1 .. k /\ DOMAIN u3 = 1 .. k
        /\ w \in Seq(Entry) /\ u3 \in Seq(Entry)
    BY <2>3, <2>4
  <2>6. \A i \in 1 .. k : w[i] = u3[i]
    BY <2>3, <2>4
  <2> QED
    BY <2>5, <2>6
<1>32. added = <<>> => A = {} /\ B = {} /\ C = {} /\ w = base
  <2> SUFFICES ASSUME added = <<>> PROVE A = {} /\ B = {} /\ C = {} /\ w = base
    OBVIOUS
  <2>1. /\ Piece(above) = <<>> /\ Piece(opening) = <<>> /\ Piece(closing) = <<>>
    BY <1>30, ConcatProperties, ConcatEqualIffEmpty
  <2>2. w = base
    BY <1>21, ConcatEmptySeq
  <2>3. A = {} /\ B = {} /\ C = {}
    BY <2>1, <1>23, <1>24, <1>25
  <2> QED
    BY <2>2, <2>3
<1> HIDE DEF added, w
<1>33. r.vmentry = w /\ r.is_sorted = (added = <<>>)
  BY <1>1
<1>34. GoodMap(r)
  <2>1. ASSUME r.is_sorted PROVE Ascending(w)
    <3>1. w = base /\ B = {} /\ C = {}
      BY <2>1, <1>32, <1>33
    <3>2. \A i \in DOMAIN v : /\ base[i].page_num = v[i].page_num
                              /\ EndPage(base[i]) = EndPage(v[i])
      BY <3>1, <1>16
    <3> QED
      BY <3>1, <3>2, <1>2, <1>11 DEF Ascending
  <2> QED
    BY <2>1, <1>1, <1>29, <1>31, <1>33 DEF GoodMap
<1>35. /\ \A i \in DOMAIN v : v[i] \in EntrySet(v)
       /\ \A o \in EntrySet(v) : \E i \in DOMAIN v : o = v[i]
  BY DEF EntrySet
<1>36. ASSUME NEW e \in EntrySet(w)
       PROVE  \E o \in EntrySet(v) : Part(e, o, first, end, prot)
  <2>1. \/ e \in EntrySet(base) \/ e \in EntrySet(Piece(above))
        \/ e \in EntrySet(Piece(opening)) \/ e \in EntrySet(Piece(closing))
    BY <1>27, <1>28, <1>29, <1>31
  <2>2. CASE e \in EntrySet(base)
    BY <2>2, <1>16, <1>22, <1>35
  <2>3. CASE e \in EntrySet(Piece(above))
    <3>1. PICK k \in A : e = above[k]
      BY <2>3, <1>23
    <3> QED
      BY <3>1, <1>9, <1>17, <1>35
  <2>4. CASE e \in EntrySet(Piece(opening))
    <3>1. PICK k \in B : e = opening[k]
      BY <2>4, <1>24
    <3> QED
      BY <3>1, <1>9, <1>18, <1>35
  <2>5. CASE e \in EntrySet(Piece(closing))
    <3>1. PICK k \in C : e = closing[k]
      BY <2>5, <1>25
    <3> QED
      BY <3>1, <1>9, <1>19, <1>35
  <2> QED
    BY <2>1, <2>2, <2>3, <2>4, <2>5
<1>37. ASSUME NEW i \in DOMAIN v, NEW p \in Pages(v[i])
       PROVE  \E e \in EntrySet(w) : p \in Pages(e)
  <2>1. p \in Int /\ v[i].page_num <= p /\ p < EndPage(v[i])
    BY <1>3, EntryFacts
  <2>2. ASSUME NEW e \in Entry, e.page_num <= p, p < EndPage(e)
        PROVE  p \in Pages(e)
    BY <2>1, <2>2, EntryIsAny, EntryFacts
  <2>3. CASE i \in B /\ p < first
    <3>1. p \in Pages(base[i])
      BY <2>1, <2>2, <2>3, <1>16
    <3> QED
      BY <3>1, <1>22, <1>27, <1>28, <1>29, <1>31
  <2>4. CASE i \in B /\ first <= p /\ (i \notin A \/ p < end)
    <3>1. p \in Pages(opening[i])
      BY <2>1, <2>2, <2>4, <1>3, <1>18
    <3> QED
      BY <3>1, <2>4, <1>24, <1>28, <1>29, <1>31
  <2>5. CASE i \in A /\ end <= p
    <3>1. p \in Pages(above[i])
      BY <2>1, <2>2, <2>5, <1>17
    <3> QED
      BY <3>1, <2>5, <1>23, <1>27, <1>28, <1>29, <1>31
  <2>6. CASE i \in C /\ p < end
    <3>1. p \in Pages(closing[i])
      BY <2>1, <2>2, <2>6, <1>19
    <3> QED
      BY <3>1, <2>6, <1>25, <1>29, <1>31
  <2>7. CASE i \in C /\ end <= p
    <3>1. p \in Pages(base[i])
      BY <2>1, <2>2, <2>7, <1>16
    <3> QED
      BY <3>1, <1>22, <1>27, <1>28, <1>29, <1>31
  <2>8. CASE i \notin B /\ i \notin C
    <3>1. p \in Pages(base[i])
      BY <2>1, <2>2, <2>8, <1>16
    <3> QED
      BY <3>1, <1>22, <1>27, <1>28, <1>29, <1>31
  <2>9. p < first \/ first <= p
    BY <2>1
  <2>10. p < end \/ end <= p
    BY <2>1, <1>3
  <2> QED
    BY <2>3, <2>4, <2>5, <2>6, <2>7, <2>8, <2>9, <2>10
<1> QED
  BY <1>33, <1>34, <1>35, <1>36, <1>37 DEF end

-----------------------------------------------------------------------------
(***************************************************************************)
(* The inductive invariant.  A page of the host agrees with an entry that  *)
(* holds it when it shows the entry's descriptor, at a place before the    *)
(* end of the file, with the entry's protection, or nothing: then it lies  *)
(* past the end of the file.  brk gives RW to the pages it adds to an      *)
(* entry, whatever the entry says.                                         *)
(***************************************************************************)
HeapIsRW == "brk" \in app.calls => app.prots \subseteq {RW}

PageAgrees(h, e, p) ==
    /\ h[p].desc \in {NoDesc, e.desc}
    /\ h[p].desc = File =>
         /\ e.offset + (p - e.page_num) * PageBytes < e.file_size
         /\ e.flags = "shared" => h[p].prot \subseteq FileMode
    /\ HeapIsRW /\ h[p].desc = e.desc => h[p].prot = e.prot

Agrees(E, h) ==
    /\ \A e \in E : \A p \in Pages(e) : PageAgrees(h, e, p)
    /\ \A p \in AddrSpace : (\A e \in E : p \notin Pages(e)) => h[p] = Inaccessible

GoodHost(h) ==
    /\ h \in [AddrSpace -> [prot : SUBSET Bits, desc : {NoDesc, File}, offset : Nat]]
    /\ \A p \in 0 .. TextEnd - 1 : h[p] = InitialHost[p]

(* The entries: inside the address space, and of the kinds and protections *)
(* that the application asks for.                                          *)
GoodEntries(E) ==
    \A e \in E : /\ EndPage(e) <= NumPages
                 /\ app.prots \subseteq {RW} /\ EndPage(e) > TextEnd => e.prot = RW
                 /\ app.kinds \subseteq {"anon"} => e.desc = NoDesc

(* Only a mapping of a file can fail halfway.                              *)
Truthful == "tail" \notin app.failures \/ app.kinds \subseteq {"anon"}

Rest ==
    /\ AppOK
    /\ break_addr \in DataEnd * PageBytes .. NumPages * PageBytes
    /\ io \in [Threads -> {NoIo} \cup AddrSpace \X AddrSpace]
    /\ calls \in 0 .. app.max_calls
    /\ aborted \in {"no", "io race", "check", "break", "fault"}
    /\ aborted = "check" => 0 \in app.lengths
    /\ aborted = "fault" => ~(app.kinds \subseteq {"anon"} /\ app.prots \subseteq {RW})

(* The zero pages stay in the map.                                         *)
Floor(E) == \E e \in E : 0 \in Pages(e)

State(m, h) ==
    /\ GoodMap(m) /\ GoodEntries(EntrySet(m.vmentry)) /\ GoodHost(h)
    /\ Floor(EntrySet(m.vmentry))
    /\ Truthful => Agrees(EntrySet(m.vmentry), h)

MemInv == State(mem_map, host) /\ Rest

-----------------------------------------------------------------------------
(***************************************************************************)
(* Rounding, and the layout.                                               *)
(***************************************************************************)
LEMMA TruncIs ==
    ASSUME NEW p \in Nat, NEW t, t = NaClTruncPageNumDownToMapMultiple(p)
    PROVE  t \in Nat /\ t <= p
<1>1. (p % MapPages) \in 0 .. MapPages - 1 /\ p - (p % MapPages) \in Nat
      /\ p - (p % MapPages) <= p
  BY Units
<1> QED
  BY <1>1 DEF NaClTruncPageNumDownToMapMultiple

LEMMA RoundIs ==
    ASSUME NEW p \in Nat, NEW t, t = NaClRoundPageNumUpToMapMultiple(p)
    PROVE  /\ t \in Nat /\ p <= t
           /\ \A k \in Nat : p <= k * MapPages => t <= k * MapPages
<1> DEFINE x == p + MapPages - 1
<1>1. x \in Nat
  BY Units
<1>2. (x % MapPages) \in 0 .. MapPages - 1
  BY <1>1, Units
<1>3. t = x - (x % MapPages)
  BY DEF NaClRoundPageNumUpToMapMultiple, NaClTruncPageNumDownToMapMultiple
<1>4. t \in Nat /\ p <= t
  BY <1>1, <1>2, <1>3, Units
<1>5. ASSUME NEW k \in Nat, p <= k * MapPages PROVE t <= k * MapPages
  <2>1. PICK q \in Nat : q = (x \div MapPages)
    BY <1>1, Units
  <2>2. x = (MapPages * q) + (x % MapPages)
    BY <1>1, <2>1, Units
  <2>3. q <= k
    <3> SUFFICES ASSUME k + 1 <= q PROVE FALSE
      OBVIOUS
    <3>1. (k + 1) * MapPages <= q * MapPages
      BY Units
    <3>2. (k + 1) * MapPages = k * MapPages + MapPages
      BY Units
    <3>3. x <= k * MapPages + MapPages - 1
      BY <1>5, Units
    <3>4. MapPages * q = q * MapPages /\ k * MapPages \in Nat /\ q * MapPages \in Nat
      BY Units
    <3> QED
      BY <3>1, <3>2, <3>3, <3>4, <1>1, <1>2, <2>2, Units
  <2>4. q * MapPages <= k * MapPages
    BY <2>3, Units
  <2>5. MapPages * q = q * MapPages
    BY Units
  <2> QED
    BY <1>1, <1>2, <1>3, <2>2, <2>4, <2>5, Units
<1> QED
  BY <1>4, <1>5

LEMMA BytesToPagesIs ==
    ASSUME NEW b \in Nat, NEW d, d = NaClBytesToPages(b)
    PROVE  d \in Nat /\ \A x \in Nat : x < d <=> x * PageBytes < b
<1>1. b + PageBytes - 1 \in Nat
  BY Units
<1>2. d = ((b + PageBytes - 1) \div PageBytes) /\ d \in Nat
  BY <1>1, Units DEF NaClBytesToPages
<1> DEFINE r == ((b + PageBytes - 1) % PageBytes)
<1>3. b + PageBytes - 1 = (PageBytes * d) + r /\ r \in 0 .. PageBytes - 1
  BY <1>1, <1>2, Units
<1> HIDE DEF r
<1>4. ASSUME NEW x \in Nat, x < d PROVE x * PageBytes < b
  <2>1. (x + 1) * PageBytes <= d * PageBytes
    BY <1>2, <1>4, Units
  <2>2. /\ (x + 1) * PageBytes = x * PageBytes + PageBytes
        /\ d * PageBytes = PageBytes * d
        /\ x * PageBytes \in Nat /\ PageBytes * d \in Nat
    BY <1>2, Units
  <2> QED
    BY <1>3, <2>1, <2>2, Units
<1>5. ASSUME NEW x \in Nat, d <= x PROVE b <= x * PageBytes
  <2>1. d * PageBytes <= x * PageBytes
    BY <1>2, <1>5, Units
  <2>2. d * PageBytes = PageBytes * d /\ x * PageBytes \in Nat /\ PageBytes * d \in Nat
    BY <1>2, Units
  <2> QED
    BY <1>3, <2>1, <2>2, Units
<1>6. \A x \in Nat : x * PageBytes \in Nat
  BY Units
<1> QED
  BY <1>2, <1>4, <1>5, <1>6

LEMMA PageIs ==
    ASSUME NEW a \in Nat, NEW d, d = (a \div PageBytes)
    PROVE  d \in Nat /\ \A x \in Nat : d < x <=> a < x * PageBytes
<1>1. d \in Nat
  BY Units
<1> DEFINE r == (a % PageBytes)
<1>2. a = (PageBytes * d) + r /\ r \in 0 .. PageBytes - 1
  BY Units
<1> HIDE DEF r
<1>3. ASSUME NEW x \in Nat, d < x PROVE a < x * PageBytes
  <2>1. (d + 1) * PageBytes <= x * PageBytes
    BY <1>1, <1>3, Units
  <2>2. /\ (d + 1) * PageBytes = d * PageBytes + PageBytes
        /\ d * PageBytes = PageBytes * d
        /\ x * PageBytes \in Nat /\ PageBytes * d \in Nat
    BY <1>1, Units
  <2> QED
    BY <1>2, <2>1, <2>2, Units
<1>4. ASSUME NEW x \in Nat, x <= d PROVE x * PageBytes <= a
  <2>1. x * PageBytes <= d * PageBytes
    BY <1>1, <1>4, Units
  <2>2. d * PageBytes = PageBytes * d /\ x * PageBytes \in Nat /\ PageBytes * d \in Nat
    BY <1>1, Units
  <2> QED
    BY <1>2, <2>1, <2>2, Units
<1>5. \A x \in Nat : x * PageBytes \in Nat
  BY Units
<1> QED
  BY <1>1, <1>3, <1>4, <1>5

LEMMA Layout ==
    /\ NumPages \in Nat /\ StaticTextEnd \in Nat /\ TextEnd \in Nat
    /\ DataStart \in Nat /\ DataEnd \in Nat /\ StackStart \in Nat
    /\ 1 < StaticTextEnd /\ StaticTextEnd <= TextEnd
    /\ TextEnd <= DataStart /\ DataStart < DataEnd
    /\ DataEnd <= StackStart /\ StackStart < NumPages
    /\ \E k \in Nat : StackStart = k * MapPages
    /\ \E k \in Nat : NumPages = k * MapPages
    /\ File # NoDesc
<1> USE MCMemoryAssumption DEF LayoutAssumption
<1>1. /\ NumPages \in Nat /\ StaticTextEnd \in Nat /\ TextEnd \in Nat
      /\ DataStart \in Nat /\ DataEnd \in Nat /\ StackStart \in Nat
  OBVIOUS
<1>2. /\ \E k \in Nat : StackStart = k * MapPages
      /\ \E k \in Nat : NumPages = k * MapPages
  BY <1>1
<1> QED
  BY <1>1, <1>2

-----------------------------------------------------------------------------
(***************************************************************************)
(* What agrees with the host goes on to agree when it is cut.              *)
(***************************************************************************)
LEMMA SliceOffset ==
    ASSUME NEW e, NEW o, e \in AnyEntry, o \in AnyEntry, Slice(e, o),
           NEW p, p \in Int, e.page_num <= p
    PROVE  /\ (p - e.page_num) * PageBytes \in Nat
           /\ (p - o.page_num) * PageBytes \in Nat
           /\ e.offset + (p - e.page_num) * PageBytes
                <= o.offset + (p - o.page_num) * PageBytes
<1> PICK a, b : a = e.page_num - o.page_num /\ b = p - e.page_num
  OBVIOUS
<1>1. /\ e.page_num \in Nat /\ o.page_num \in Nat /\ o.page_num <= e.page_num
      /\ e.offset \in Nat /\ o.offset \in Nat
      /\ e.offset <= o.offset + a * PageBytes
  BY EntryFacts DEF Slice
<1>2. a \in Nat /\ b \in Nat /\ p - o.page_num = a + b
  BY <1>1
<1>3. /\ (a + b) * PageBytes = a * PageBytes + b * PageBytes
      /\ a * PageBytes \in Nat /\ b * PageBytes \in Nat
  BY <1>2, Units
<1>4. (p - o.page_num) * PageBytes = a * PageBytes + b * PageBytes
  BY <1>2, <1>3
<1>5. (p - e.page_num) * PageBytes = b * PageBytes
  OBVIOUS
<1> QED
  BY <1>1, <1>3, <1>4, <1>5

LEMMA SliceTrans ==
    ASSUME NEW d, NEW e, NEW o, d \in AnyEntry, e \in AnyEntry, o \in AnyEntry,
           Slice(d, e), Slice(e, o)
    PROVE  Slice(d, o)
<1>1. /\ d.page_num \in Nat /\ e.page_num \in Nat /\ o.page_num \in Nat
      /\ EndPage(d) \in Nat /\ EndPage(e) \in Nat /\ EndPage(o) \in Nat
      /\ d.offset \in Nat /\ e.offset \in Nat /\ o.offset \in Nat
  BY EntryFacts
<1>2. e.page_num <= d.page_num
  BY DEF Slice
<1>3. e.offset + (d.page_num - e.page_num) * PageBytes
        <= o.offset + (d.page_num - o.page_num) * PageBytes
      /\ (d.page_num - e.page_num) * PageBytes \in Nat
      /\ (d.page_num - o.page_num) * PageBytes \in Nat
  BY <1>1, <1>2, SliceOffset
<1>4. d.offset <= e.offset + (d.page_num - e.page_num) * PageBytes
  BY DEF Slice
<1>5. d.offset <= o.offset + (d.page_num - o.page_num) * PageBytes
  BY <1>1, <1>3, <1>4
<1> QED
  BY <1>1, <1>5 DEF Slice

LEMMA SliceAgrees ==
    ASSUME NEW e, NEW o, e \in AnyEntry, o \in AnyEntry, Slice(e, o),
           NEW p, p \in Pages(e)
    PROVE  /\ p \in Pages(o)
           /\ \A h : PageAgrees(h, o, p) /\ (e.prot = o.prot \/ h[p].prot = e.prot)
                       /\ (e.flags = "shared" /\ h[p].desc = File
                             => h[p].prot \subseteq FileMode)
                       => PageAgrees(h, e, p)
           /\ \A h : PageAgrees(h, o, p) /\ e.prot = o.prot => PageAgrees(h, e, p)
<1>1. p \in Int /\ e.page_num <= p /\ p < EndPage(e)
  BY EntryFacts
<1>2. /\ e.page_num \in Nat /\ o.page_num \in Nat /\ o.page_num <= e.page_num
      /\ EndPage(e) \in Nat /\ EndPage(o) \in Nat /\ EndPage(e) <= EndPage(o)
      /\ e.offset \in Nat /\ o.offset \in Nat /\ o.file_size \in Nat
      /\ e.flags = o.flags /\ e.desc = o.desc /\ e.file_size = o.file_size
  BY EntryFacts DEF Slice
<1>3. o.page_num <= p /\ p < EndPage(o)
  BY <1>1, <1>2
<1>4. p \in Pages(o)
  BY <1>1, <1>3, EntryFacts
<1>5. /\ (p - e.page_num) * PageBytes \in Nat
      /\ (p - o.page_num) * PageBytes \in Nat
      /\ e.offset + (p - e.page_num) * PageBytes
           <= o.offset + (p - o.page_num) * PageBytes
  BY <1>1, SliceOffset
<1>6. o.offset + (p - o.page_num) * PageBytes < o.file_size
        => e.offset + (p - e.page_num) * PageBytes < e.file_size
  BY <1>2, <1>5
<1> QED
  BY <1>2, <1>4, <1>6 DEF PageAgrees

LEMMA KeptTrans ==
    ASSUME NEW E, NEW F, NEW G,
           \A e \in E : e \in AnyEntry, \A e \in F : e \in AnyEntry,
           \A e \in G : e \in AnyEntry,
           NEW first \in Nat, NEW end \in Nat, NEW low \in Nat, NEW high \in Nat,
           first <= low, high <= end, first < end, low < high,
           Kept(E, F, first, end), Kept(F, G, low, high)
    PROVE  Kept(E, G, first, end)
<1>1. ASSUME NEW e \in E
      PROVE  /\ Outside(e, first, end)
             /\ \E o \in G : Slice(e, o) /\ e.prot = o.prot
  <2>1. PICK d \in F : Slice(e, d) /\ e.prot = d.prot /\ Outside(e, first, end)
    BY DEF Kept
  <2>2. PICK o \in G : Slice(d, o) /\ d.prot = o.prot
    BY DEF Kept
  <2> QED
    BY <2>1, <2>2, SliceTrans
<1>2. ASSUME NEW o \in G, NEW p \in Pages(o), p < first \/ end <= p
      PROVE  \E e \in E : p \in Pages(e)
  <2>1. p \in Int
    BY EntryFacts
  <2>2. p < low \/ high <= p
    BY <1>2, <2>1
  <2>3. PICK d \in F : p \in Pages(d)
    BY <2>2 DEF Kept
  <2> QED
    BY <1>2, <2>3 DEF Kept
<1> QED
  BY <1>1, <1>2 DEF Kept

LEMMA KeptGood ==
    ASSUME NEW E, NEW F, \A e \in E : e \in AnyEntry, \A e \in F : e \in AnyEntry,
           NEW first, NEW end, Kept(E, F, first, end), GoodEntries(F)
    PROVE  GoodEntries(E)
<1> SUFFICES ASSUME NEW e \in E
             PROVE  /\ EndPage(e) <= NumPages
                    /\ app.prots \subseteq {RW} /\ EndPage(e) > TextEnd => e.prot = RW
                    /\ app.kinds \subseteq {"anon"} => e.desc = NoDesc
  BY DEF GoodEntries
<1>1. PICK o \in F : Slice(e, o) /\ e.prot = o.prot
  BY DEF Kept
<1>2. /\ EndPage(e) \in Nat /\ EndPage(o) \in Nat /\ EndPage(e) <= EndPage(o)
      /\ e.desc = o.desc
  BY <1>1, EntryFacts DEF Slice
<1>3. /\ EndPage(o) <= NumPages
      /\ app.prots \subseteq {RW} /\ EndPage(o) > TextEnd => o.prot = RW
      /\ app.kinds \subseteq {"anon"} => o.desc = NoDesc
  BY DEF GoodEntries
<1> QED
  BY <1>1, <1>2, <1>3, Layout

LEMMA KeptAgrees ==
    ASSUME NEW E, NEW F, \A e \in E : e \in AnyEntry, \A e \in F : e \in AnyEntry,
           NEW first \in Nat, NEW end \in Nat, first < end,
           Kept(E, F, first, end), GoodEntries(F), NEW h, NEW g, Agrees(F, h),
           \A p \in AddrSpace : p < first \/ end <= p => g[p] = h[p]
    PROVE  \A e \in E : \A p \in Pages(e) : PageAgrees(g, e, p)
<1>1. ASSUME NEW e \in E, NEW p \in Pages(e) PROVE PageAgrees(g, e, p)
  <2>1. PICK o \in F : Slice(e, o) /\ e.prot = o.prot /\ Outside(e, first, end)
    BY DEF Kept
  <2>2. p \in Pages(o) /\ (PageAgrees(h, o, p) => PageAgrees(h, e, p))
    BY <2>1, SliceAgrees
  <2>3. PageAgrees(h, e, p)
    BY <2>2 DEF Agrees
  <2>4. g[p] = h[p]
    <3>1. /\ p \in Int /\ o.page_num <= p /\ p < EndPage(o) /\ EndPage(o) \in Nat
          /\ o.page_num \in Nat /\ EndPage(o) <= NumPages
      BY <2>2, EntryFacts DEF GoodEntries
    <3>2. p \in AddrSpace
      BY <3>1, Layout DEF AddrSpace
    <3>3. e.page_num \in Nat /\ EndPage(e) \in Nat /\ e.page_num <= p /\ p < EndPage(e)
      BY EntryFacts
    <3>4. p < first \/ end <= p
      BY <2>1, <3>1, <3>3 DEF Outside
    <3> QED
      BY <3>2, <3>4
  <2> QED
    BY <2>3, <2>4 DEF PageAgrees
<1> QED
  BY <1>1

LEMMA KeptFree ==
    ASSUME NEW E, NEW F, NEW first, NEW end, Kept(E, F, first, end),
           NEW h, Agrees(F, h), NEW p \in AddrSpace,
           p < first \/ end <= p, \A e \in E : p \notin Pages(e)
    PROVE  h[p] = Inaccessible
<1>1. \A o \in F : p \notin Pages(o)
  BY DEF Kept
<1> QED
  BY <1>1 DEF Agrees

(* The entry that holds a page, if there is one, is the only one.          *)
LEMMA EntryOfIs ==
    ASSUME NEW m, GoodMap(m), NEW p
    PROVE  /\ Covered(m, p) <=> \E e \in EntrySet(m.vmentry) : p \in Pages(e)
           /\ \A e \in EntrySet(m.vmentry) : p \in Pages(e) => EntryOf(m, p) = e
           /\ Covered(m, p) => /\ EntryOf(m, p) \in EntrySet(m.vmentry)
                               /\ p \in Pages(EntryOf(m, p))
           /\ Cardinality(Covering(m, p)) <= 1
<1> DEFINE v == m.vmentry
<1>1. /\ v \in Seq(Entry) /\ Disjoint(v)
      /\ \A i \in DOMAIN v : v[i] \in AnyEntry
  BY EntryIsAny DEF GoodMap
<1> HIDE DEF v
<1>2. Covering(m, p) = {i \in DOMAIN v : p \in Pages(v[i])}
  BY DEF Covering, v
<1>3. ASSUME NEW i \in Covering(m, p), NEW j \in Covering(m, p) PROVE i = j
  <2>1. /\ i \in DOMAIN v /\ j \in DOMAIN v /\ p \in Pages(v[i]) /\ p \in Pages(v[j])
    BY <1>2
  <2>2. /\ p \in Int /\ v[i].page_num <= p /\ p < EndPage(v[i])
        /\ v[j].page_num <= p /\ p < EndPage(v[j])
        /\ v[i].page_num \in Nat /\ v[j].page_num \in Nat
        /\ EndPage(v[i]) \in Nat /\ EndPage(v[j]) \in Nat
    BY <1>1, <2>1, EntryFacts
  <2>3. ~Apart(v[i], v[j])
    BY <2>2 DEF Apart
  <2> QED
    BY <1>1, <2>1, <2>3 DEF Disjoint
<1>4. Covered(m, p) => /\ (CHOOSE i \in Covering(m, p) : TRUE) \in Covering(m, p)
                       /\ EntryOf(m, p) = v[CHOOSE i \in Covering(m, p) : TRUE]
  BY DEF Covered, EntryOf, v
<1>5. ASSUME NEW i \in Covering(m, p) PROVE Covered(m, p) /\ EntryOf(m, p) = v[i]
  BY <1>3, <1>4 DEF Covered
<1>6. Covered(m, p) => \E i \in Covering(m, p) : TRUE
  BY DEF Covered
<1>7. Cardinality(Covering(m, p)) <= 1
  <2>1. CASE Covering(m, p) = {}
    BY <2>1, FS_EmptySet
  <2>2. CASE Covering(m, p) # {}
    <3>1. PICK i \in Covering(m, p) : TRUE
      BY <2>2
    <3>2. Covering(m, p) = {i}
      BY <1>3, <3>1
    <3>3. Cardinality({i}) = 1
      BY FS_Singleton
    <3> QED
      BY <3>2, <3>3
  <2> QED
    BY <2>1, <2>2
<1>8. /\ \A i \in Covering(m, p) : v[i] \in EntrySet(v) /\ p \in Pages(v[i])
      /\ \A e \in EntrySet(v) : p \in Pages(e) => \E i \in Covering(m, p) : e = v[i]
  BY <1>2 DEF EntrySet
<1> QED
  BY <1>5, <1>6, <1>7, <1>8 DEF v

(***************************************************************************)
(* The start.                                                              *)
(***************************************************************************)
LEMMA AnonIs ==
    \A prot : /\ Anon(prot) = [prot |-> prot, desc |-> NoDesc, offset |-> 0]
              /\ Anon(prot).prot = prot /\ Anon(prot).desc = NoDesc
              /\ prot \in SUBSET Bits =>
                   Anon(prot) \in [prot : SUBSET Bits, desc : {NoDesc, File}, offset : Nat]
BY DEF Anon, HostPage

LEMMA InaccessibleIs ==
    /\ Inaccessible = [prot |-> {}, desc |-> NoDesc, offset |-> 0]
    /\ Inaccessible.desc = NoDesc
    /\ Inaccessible \in [prot : SUBSET Bits, desc : {NoDesc, File}, offset : Nat]
BY DEF Inaccessible, None, Anon, HostPage

LEMMA InitialState == AppOK => State(InitialMap, InitialHost)
<1> SUFFICES ASSUME AppOK PROVE State(InitialMap, InitialHost)
  OBVIOUS
<1> DEFINE end == NaClRoundPageNumUpToMapMultiple(DataEnd)
           entry(first, last_, prot) ==
             NaClVmmapEntryMake(first, last_ - first, prot, "private", NoDesc, 0, 0)
           e1 == entry(0, 1, None)
           e2 == entry(1, StaticTextEnd, {"R", "X"})
           e3 == entry(DataStart, end, RW)
           e4 == entry(StackStart, NumPages, RW)
           v == InitialMap.vmentry
<1>1. /\ end \in Nat /\ DataEnd <= end /\ end <= StackStart
  BY Layout, RoundIs
<1> HIDE DEF end
<1>2. v = <<e1, e2, e3, e4>> /\ InitialMap = [vmentry |-> v, is_sorted |-> FALSE]
      /\ InitialMap.is_sorted = FALSE
  BY DEF InitialMap, InitialEntries, end
<1>3. ASSUME NEW first \in Nat, NEW last_ \in Nat, first < last_, NEW prot \in SUBSET Bits
      PROVE  /\ entry(first, last_, prot) \in Entry
             /\ entry(first, last_, prot).page_num = first
             /\ EndPage(entry(first, last_, prot)) = last_
             /\ entry(first, last_, prot).prot = prot
             /\ entry(first, last_, prot).desc = NoDesc
  BY <1>3 DEF NaClVmmapEntryMake, Entry, AnyEntry, EndPage
<1>4. None \in SUBSET Bits /\ {"R", "X"} \in SUBSET Bits /\ RW \in SUBSET Bits
  BY DEF None, RW, Bits
<1>5. /\ e1 \in Entry /\ e1.page_num = 0 /\ EndPage(e1) = 1 /\ e1.desc = NoDesc
      /\ e2 \in Entry /\ e2.page_num = 1 /\ EndPage(e2) = StaticTextEnd /\ e2.desc = NoDesc
      /\ e3 \in Entry /\ e3.page_num = DataStart /\ EndPage(e3) = end /\ e3.desc = NoDesc
      /\ e4 \in Entry /\ e4.page_num = StackStart /\ EndPage(e4) = NumPages /\ e4.desc = NoDesc
      /\ e3.prot = RW /\ e4.prot = RW
  <2> HIDE DEF entry
  <2>1. e1 \in Entry /\ e1.page_num = 0 /\ EndPage(e1) = 1 /\ e1.desc = NoDesc
    BY <1>3, <1>4
  <2>2. e2 \in Entry /\ e2.page_num = 1 /\ EndPage(e2) = StaticTextEnd /\ e2.desc = NoDesc
    BY <1>3, <1>4, Layout
  <2>3. /\ e3 \in Entry /\ e3.page_num = DataStart /\ EndPage(e3) = end
        /\ e3.desc = NoDesc /\ e3.prot = RW
    <3>1. DataStart < end
      BY <1>1, Layout
    <3> QED
      BY <3>1, <1>1, <1>3, <1>4, Layout
  <2>4. /\ e4 \in Entry /\ e4.page_num = StackStart /\ EndPage(e4) = NumPages
        /\ e4.desc = NoDesc /\ e4.prot = RW
    BY <1>3, <1>4, Layout
  <2> QED
    BY <2>1, <2>2, <2>3, <2>4
<1> HIDE DEF entry, e1, e2, e3, e4
<1>6. v \in Seq(Entry) /\ DOMAIN v = 1 .. 4
  BY <1>2, <1>5
<1>7. v[1] = e1 /\ v[2] = e2 /\ v[3] = e3 /\ v[4] = e4
  BY <1>2
<1>8. EntrySet(v) = {e1, e2, e3, e4}
  <2>1. \A i \in 1 .. 4 : i = 1 \/ i = 2 \/ i = 3 \/ i = 4
    OBVIOUS
  <2>2. 1 \in 1 .. 4 /\ 2 \in 1 .. 4 /\ 3 \in 1 .. 4 /\ 4 \in 1 .. 4
    OBVIOUS
  <2> HIDE DEF v
  <2> QED
    BY <2>1, <2>2, <1>6, <1>7 DEF EntrySet
<1>9. Disjoint(v)
  <2>1. Ascending(v)
    <3> SUFFICES ASSUME NEW i \in 1 .. 4, NEW j \in 1 .. 4, i < j
                 PROVE  EndPage(v[i]) <= v[j].page_num
      BY <1>6 DEF Ascending
    <3>1. \/ i = 1 /\ j = 2
          \/ i = 1 /\ j = 3
          \/ i = 1 /\ j = 4
          \/ i = 2 /\ j = 3
          \/ i = 2 /\ j = 4
          \/ i = 3 /\ j = 4
      OBVIOUS
    <3> HIDE DEF v
    <3> QED
      BY <3>1, <1>1, <1>5, <1>7, Layout
  <2>2. v \in Seq(AnyEntry)
    BY <1>6, EntryIsAny, SeqMonotonic
  <2> HIDE DEF v
  <2> QED
    BY <2>1, <2>2, AscendingIsDisjoint
<1>10. GoodMap(InitialMap)
  BY <1>2, <1>6, <1>9 DEF GoodMap
<1>11. GoodEntries(EntrySet(v))
  BY <1>1, <1>5, <1>8, Layout DEF GoodEntries
<1>12. ASSUME NEW p \in AddrSpace
       PROVE  /\ Covered(InitialMap, p)
                   => InitialHost[p] = Anon(EntryOf(InitialMap, p).prot)
              /\ ~Covered(InitialMap, p) => InitialHost[p] = Inaccessible
  BY DEF InitialHost
<1>13. \A e \in EntrySet(v) : e \in AnyEntry /\ e.desc = NoDesc
  BY <1>5, <1>8, EntryIsAny
<1>14. GoodHost(InitialHost)
  <2>1. ASSUME NEW p \in AddrSpace
        PROVE  InitialHost[p]
                 \in [prot : SUBSET Bits, desc : {NoDesc, File}, offset : Nat]
    <3>1. CASE Covered(InitialMap, p)
      <4>1. EntryOf(InitialMap, p) \in EntrySet(v)
        BY <3>1, <1>10, EntryOfIs
      <4>2. EntryOf(InitialMap, p).prot \in SUBSET Bits
        BY <4>1, <1>13, EntryFacts
      <4> QED
        BY <3>1, <4>2, <1>12, AnonIs
    <3>2. CASE ~Covered(InitialMap, p)
      BY <3>2, <1>12, InaccessibleIs
    <3> QED
      BY <3>1, <3>2
  <2>2. InitialHost = [p \in AddrSpace |-> InitialHost[p]]
    BY DEF InitialHost
  <2> QED
    BY <2>1, <2>2 DEF GoodHost
<1>15. Agrees(EntrySet(v), InitialHost)
  <2>1. ASSUME NEW e \in EntrySet(v), NEW p \in Pages(e) PROVE PageAgrees(InitialHost, e, p)
    <3>1. Covered(InitialMap, p) /\ EntryOf(InitialMap, p) = e
      BY <2>1, <1>10, EntryOfIs
    <3>2. p \in AddrSpace
      <4>1. e \in AnyEntry /\ EndPage(e) <= NumPages
        BY <1>11, <1>13 DEF GoodEntries
      <4>2. /\ p \in Int /\ e.page_num <= p /\ p < EndPage(e) /\ e.page_num \in Nat
            /\ EndPage(e) \in Nat
        BY <4>1, EntryFacts
      <4> QED
        BY <4>1, <4>2, Layout DEF AddrSpace
    <3>3. InitialHost[p] = Anon(e.prot)
      BY <3>1, <3>2, <1>12
    <3>4. InitialHost[p].desc = NoDesc /\ InitialHost[p].prot = e.prot
      BY <3>3, AnonIs
    <3> QED
      BY <3>4, <1>13, Layout DEF PageAgrees
  <2>2. ASSUME NEW p \in AddrSpace, \A e \in EntrySet(v) : p \notin Pages(e)
        PROVE  InitialHost[p] = Inaccessible
    <3>1. ~Covered(InitialMap, p)
      BY <2>2, <1>10, EntryOfIs
    <3> QED
      BY <3>1, <1>12
  <2> QED
    BY <2>1, <2>2 DEF Agrees
<1>16. Floor(EntrySet(v))
  <2>1. e1 \in EntrySet(v) /\ 0 \in Pages(e1)
    <3>1. e1 \in AnyEntry /\ e1.page_num = 0 /\ EndPage(e1) = 1
      BY <1>5, EntryIsAny
    <3> QED
      BY <3>1, <1>8, EntryFacts
  <2> QED
    BY <2>1 DEF Floor
<1> QED
  BY <1>10, <1>11, <1>14, <1>15, <1>16 DEF State

-----------------------------------------------------------------------------
(***************************************************************************)
(* mmap.                                                                   *)
(***************************************************************************)
LEMMA MmapCallIs ==
    ASSUME AppOK, NEW c \in MmapCall
    PROVE  /\ c.start \in Nat /\ c.npages \in Nat /\ c.offset \in Nat
           /\ c.prot \in app.prots /\ c.prot \in SUBSET Bits
           /\ c.kind \in app.kinds /\ c.kind \in {"anon", "private", "shared"}
           /\ app.file_size \in Nat
           /\ DescOf(c) = IF c.kind = "anon" THEN NoDesc ELSE File
BY DEF AppOK, MmapCall, DescOf

LEMMA RoundedIs ==
    ASSUME NEW n \in Nat, n # 0, NEW r, r = Rounded(n)
    PROVE  r \in Nat /\ r >= 1 /\ n <= r
<1>1. r \in Nat /\ n <= r
  BY RoundIs DEF Rounded
<1> QED
  BY <1>1

(* The pages of the file that are mapped.                                  *)
LEMMA FilePagesIs ==
    ASSUME AppOK, NEW c \in MmapCall, ~MmapInvalid(c),
           NEW k, k = FilePages(c), NEW n, n = Rounded(c.npages)
    PROVE  /\ k \in Nat /\ k <= n /\ n \in Nat /\ n >= 1
           /\ DescOf(c) = NoDesc => k = n
           /\ DescOf(c) = File => \A x \in Nat : x < k =>
                /\ x * PageBytes \in Nat
                /\ c.offset + x * PageBytes < app.file_size
<1>1. n \in Nat /\ n >= 1
  BY MmapCallIs, RoundedIs DEF MmapInvalid
<1>2. CASE DescOf(c) = NoDesc
  BY <1>1, <1>2, Layout DEF FilePages
<1>3. CASE DescOf(c) = File
  <2>1. c.offset <= app.file_size /\ c.offset \in Nat /\ app.file_size \in Nat
    BY <1>3, MmapCallIs DEF MmapInvalid
  <2> PICK b : b = app.file_size - c.offset
    OBVIOUS
  <2>2. b \in Nat
    BY <2>1
  <2> PICK d : d = NaClBytesToPages(b)
    OBVIOUS
  <2>3. d \in Nat /\ \A x \in Nat : x < d <=> x * PageBytes < b
    BY <2>2, BytesToPagesIs
  <2>4. k = Min({n, d})
    BY <1>3, Layout DEF FilePages
  <2>5. k = IF n <= d THEN n ELSE d
    <3> PICK S : S = {n, d}
      OBVIOUS
    <3>1. CASE n <= d
      <4>1. n \in S /\ \A y \in S : y \in Int /\ n <= y
        BY <3>1, <1>1, <2>3
      <4> QED
        BY <3>1, <4>1, <2>4, MinIs
    <3>2. CASE ~(n <= d)
      <4>1. d \in S /\ \A y \in S : y \in Int /\ d <= y
        BY <3>2, <1>1, <2>3
      <4> QED
        BY <3>2, <4>1, <2>4, MinIs
    <3> QED
      BY <3>1, <3>2
  <2>6. k \in Nat /\ k <= n /\ k <= d
    BY <1>1, <2>3, <2>5
  <2>7. ASSUME NEW x \in Nat, x < k
        PROVE  x * PageBytes \in Nat /\ c.offset + x * PageBytes < app.file_size
    <3>1. x < d
      BY <2>3, <2>6, <2>7
    <3>2. x * PageBytes < b
      BY <2>3, <3>1
    <3>3. x * PageBytes \in Nat
      BY Units
    <3> QED
      BY <2>1, <3>2, <3>3
  <2> QED
    BY <1>1, <1>3, <2>6, <2>7, Layout
<1> QED
  BY <1>2, <1>3, MmapCallIs

LEMMA NewEntryIs ==
    ASSUME AppOK, NEW c \in MmapCall, ~MmapInvalid(c), NEW page \in Nat,
           NEW e, e = NewEntry(c, page)
    PROVE  /\ e \in Entry
           /\ e.page_num = page /\ EndPage(e) = page + Rounded(c.npages)
           /\ e.prot = c.prot /\ e.desc = DescOf(c) /\ e.offset = c.offset
           /\ e.flags = "shared" <=> c.kind = "shared"
           /\ DescOf(c) = File => e.file_size = app.file_size
<1>1. Rounded(c.npages) \in Nat /\ Rounded(c.npages) >= 1
  BY FilePagesIs
<1>2. /\ c.offset \in Nat /\ c.prot \in SUBSET Bits /\ app.file_size \in Nat
      /\ DescOf(c) \in {NoDesc, File}
  BY MmapCallIs
<1> PICK n, d : n = Rounded(c.npages) /\ d = DescOf(c)
  OBVIOUS
<1>3. e = [page_num |-> page, npages |-> n, prot |-> c.prot,
           flags |-> IF c.kind = "shared" THEN "shared" ELSE "private",
           removed |-> FALSE, desc |-> d, offset |-> c.offset,
           file_size |-> IF d = NoDesc THEN 0 ELSE app.file_size]
  BY DEF NewEntry, NaClVmmapEntryMake
<1>4. e \in AnyEntry /\ e.removed = FALSE
  BY <1>1, <1>2, <1>3 DEF AnyEntry
<1>5. /\ e.page_num = page /\ e.npages = n /\ e.prot = c.prot /\ e.desc = d
      /\ e.offset = c.offset /\ (e.flags = "shared" <=> c.kind = "shared")
      /\ d = File => e.file_size = app.file_size
  BY <1>3, Layout
<1> QED
  BY <1>1, <1>4, <1>5 DEF Entry, EndPage

(* What a mapping that succeeds makes of map and host.                     *)
LEMMA MmapState ==
    ASSUME AppOK, NEW m, NEW h, State(m, h), NEW c \in MmapCall, ~MmapInvalid(c),
           NEW page \in Nat, ~MmapPageBad(c, page), MapSucceeds(c),
           NEW k, k = FilePages(c), NEW n, n = Rounded(c.npages),
           NEW d, d = IF n - k > 0 THEN NaClVmmapRemove(m, page + k, n - k) ELSE m,
           NEW w, w = NaClVmmapAddWithOverwrite(d, NewEntry(c, page)),
           NEW g, g = Unmapped(Mapped(h, c, page), page + k, n - k)
    PROVE  State(w, g)
<1> PICK e : e = NewEntry(c, page)
  OBVIOUS
<1> DEFINE end == page + n
           E0 == EntrySet(m.vmentry)
           E1 == EntrySet(d.vmentry)
           E2 == EntrySet(w.vmentry)
<1>1. /\ k \in Nat /\ k <= n /\ n \in Nat /\ n >= 1
      /\ DescOf(c) = NoDesc => k = n
      /\ DescOf(c) = File => \A x \in Nat : x < k =>
           /\ x * PageBytes \in Nat
           /\ c.offset + x * PageBytes < app.file_size
  BY FilePagesIs
<1>2. /\ e \in Entry /\ e \in AnyEntry
      /\ e.page_num = page /\ EndPage(e) = end
      /\ e.prot = c.prot /\ e.desc = DescOf(c) /\ e.offset = c.offset
      /\ e.flags = "shared" <=> c.kind = "shared"
      /\ DescOf(c) = File => e.file_size = app.file_size
  BY NewEntryIs, EntryIsAny
<1>3. /\ end \in Nat /\ page < end /\ end <= NumPages /\ TextEnd <= page
  <2>1. ~(page + n > NumPages) /\ ~(NaClTruncPageNumDownToMapMultiple(page) < TextEnd)
    BY DEF MmapPageBad, ContainsExecutablePages
  <2>2. NaClTruncPageNumDownToMapMultiple(page) \in Nat
        /\ NaClTruncPageNumDownToMapMultiple(page) <= page
    BY TruncIs
  <2> QED
    BY <1>1, <2>1, <2>2, Layout
<1>4. GoodMap(m) /\ GoodEntries(E0) /\ GoodHost(h) /\ (Truthful => Agrees(E0, h))
  BY DEF State
<1>5. /\ GoodMap(d)
      /\ k # n => Kept(E1, E0, page + k, end)
      /\ k = n => d = m
  <2>1. CASE k = n
    <3>1. ~(n - k > 0)
      BY <2>1, <1>1
    <3> QED
      BY <2>1, <3>1, <1>4
  <2>2. CASE k # n
    <3>1. /\ n - k > 0 /\ n - k \in Nat /\ n - k >= 1 /\ page + k \in Nat
          /\ (page + k) + (n - k) = end
      BY <2>2, <1>1
    <3>2. d = NaClVmmapRemove(m, page + k, n - k)
      BY <3>1
    <3> PICK a, b : a = page + k /\ b = n - k
      OBVIOUS
    <3>3. GoodMap(d) /\ Kept(EntrySet(d.vmentry), EntrySet(m.vmentry), a, a + b)
      BY <3>1, <3>2, <1>4, RemoveKeeps
    <3> QED
      BY <2>2, <3>1, <3>3
  <2> QED
    BY <2>1, <2>2
<1>6. GoodMap(w) /\ e \in E2 /\ Kept(E2 \ {e}, E1, page, end)
  BY <1>2, <1>5, OverwriteKeeps
<1>7. /\ \A f \in E0 : f \in AnyEntry
      /\ \A f \in E1 : f \in AnyEntry
      /\ \A f \in E2 : f \in AnyEntry
  <2>1. \A z : GoodMap(z) => \A f \in EntrySet(z.vmentry) : f \in AnyEntry
    BY EntryIsAny DEF GoodMap, EntrySet
  <2> QED
    BY <2>1, <1>4, <1>5, <1>6
<1> HIDE DEF E0, E1, E2
<1>8. Kept(E2 \ {e}, E0, page, end)
  <2>1. CASE k = n
    <3>1. E1 = E0
      BY <2>1, <1>5 DEF E0, E1
    <3> QED
      BY <3>1, <1>6
  <2>2. CASE k # n
    <3> PICK low : low = page + k
      OBVIOUS
    <3>1. low \in Nat /\ page <= low /\ low < end
      BY <2>2, <1>1
    <3>2. Kept(E1, E0, low, end)
      BY <2>2, <1>5
    <3>3. \A f \in E2 \ {e} : f \in AnyEntry
      BY <1>7
    <3>4. end \in Nat /\ page < end /\ end <= end
      BY <1>3
    <3> HIDE DEF end
    <3> QED
      BY <3>1, <3>2, <3>3, <3>4, <1>6, <1>7, KeptTrans
  <2> QED
    BY <2>1, <2>2
<1>9. GoodEntries(E2)
  <2>1. GoodEntries(E2 \ {e})
    <3>1. \A f \in E2 \ {e} : f \in AnyEntry
      BY <1>7
    <3> QED
      BY <3>1, <1>4, <1>7, <1>8, KeptGood
  <2>2. /\ EndPage(e) <= NumPages
        /\ app.prots \subseteq {RW} => e.prot = RW
        /\ app.kinds \subseteq {"anon"} => e.desc = NoDesc
    <3>1. c.prot \in app.prots /\ c.kind \in app.kinds
          /\ DescOf(c) = IF c.kind = "anon" THEN NoDesc ELSE File
      BY MmapCallIs
    <3> QED
      BY <3>1, <1>2, <1>3
  <2> QED
    BY <2>1, <2>2 DEF GoodEntries
<1>10. ASSUME NEW p \in AddrSpace
       PROVE  /\ p \in Nat
              /\ page <= p /\ p < page + k =>
                   g[p] = IF DescOf(c) = NoDesc THEN Anon(c.prot)
                          ELSE HostPage(c.prot, File, c.offset + (p - page) * PageBytes)
              /\ page + k <= p /\ p < end => g[p] = Inaccessible
              /\ p < page \/ end <= p => g[p] = h[p]
  <2> DEFINE a == Mapped(h, c, page)
  <2>1. p \in Nat
    BY Layout DEF AddrSpace
  <2>2. p \in Region(page, k) <=> page <= p /\ p < page + k
    BY <2>1, <1>1 DEF Region
  <2>3. p \in Region(page + k, n - k) <=> page + k <= p /\ p < end
    BY <2>1, <1>1 DEF Region
  <2>4. a[p] = IF p \in Region(page, k)
               THEN IF DescOf(c) = NoDesc THEN Anon(c.prot)
                    ELSE HostPage(c.prot, File, c.offset + (p - page) * PageBytes)
               ELSE h[p]
    BY DEF Mapped
  <2> HIDE DEF a
  <2>5. g[p] = IF p \in Region(page + k, n - k) THEN Inaccessible ELSE a[p]
    BY DEF Unmapped, a
  <2> QED
    BY <2>1, <2>2, <2>3, <2>4, <2>5, <1>1
<1>11. ASSUME NEW p \in AddrSpace, page <= p, p < page + k
       PROVE  /\ g[p].prot = c.prot /\ g[p].desc = DescOf(c)
              /\ g[p] \in [prot : SUBSET Bits, desc : {NoDesc, File}, offset : Nat]
              /\ DescOf(c) = File => c.offset + (p - page) * PageBytes < app.file_size
  <2>1. p \in Nat /\ p - page \in Nat /\ p - page < k
    BY <1>1, <1>10, <1>11
  <2>2. c.prot \in SUBSET Bits /\ c.offset \in Nat /\ DescOf(c) \in {NoDesc, File}
    BY MmapCallIs
  <2>3. CASE DescOf(c) = NoDesc
    <3>1. g[p] = Anon(c.prot)
      BY <2>3, <1>10, <1>11
    <3> QED
      BY <3>1, <2>2, <2>3, AnonIs, Layout
  <2>4. CASE DescOf(c) = File
    <3> PICK x : x = p - page
      OBVIOUS
    <3>1. x * PageBytes \in Nat /\ c.offset + x * PageBytes < app.file_size
      BY <2>1, <2>4, <1>1
    <3>2. g[p] = HostPage(c.prot, File, c.offset + x * PageBytes)
      BY <2>4, <1>10, <1>11, Layout
    <3> PICK o : o = c.offset + x * PageBytes
      OBVIOUS
    <3>3. o \in Nat
      BY <3>1, <2>2
    <3>4. g[p] = [prot |-> c.prot, desc |-> File, offset |-> o]
      BY <3>2 DEF HostPage
    <3> QED
      BY <3>1, <3>3, <3>4, <2>2, <2>4
  <2> QED
    BY <2>2, <2>3, <2>4
<1>12. GoodHost(g)
  <2>1. ASSUME NEW p \in AddrSpace
        PROVE  g[p] \in [prot : SUBSET Bits, desc : {NoDesc, File}, offset : Nat]
    <3>1. CASE page <= p /\ p < page + k
      BY <3>1, <1>11
    <3>2. CASE page + k <= p /\ p < end
      BY <3>2, <1>10, InaccessibleIs
    <3>3. CASE p < page \/ end <= p
      BY <3>3, <1>4, <1>10 DEF GoodHost
    <3> QED
      BY <3>1, <3>2, <3>3, <1>1, <1>3, <1>10
  <2>2. g = [p \in AddrSpace |-> g[p]]
    BY DEF Unmapped
  <2>3. ASSUME NEW p \in 0 .. TextEnd - 1 PROVE g[p] = InitialHost[p]
    <3>1. p \in AddrSpace /\ p < page
      BY <1>3, Layout DEF AddrSpace
    <3> QED
      BY <3>1, <1>4, <1>10 DEF GoodHost
  <2> QED
    BY <2>1, <2>2, <2>3 DEF GoodHost
<1>13. ASSUME Agrees(E0, h) PROVE Agrees(E2, g)
  <2>1. /\ \A f \in E2 \ {e} : \A p \in Pages(f) : PageAgrees(g, f, p)
        /\ \A p \in AddrSpace :
             (p < page \/ end <= p) /\ (\A f \in E2 \ {e} : p \notin Pages(f))
               => g[p] = Inaccessible
    <3> PICK F, top : F = E2 \ {e} /\ top = end
      OBVIOUS
    <3>1. \A f \in F : f \in AnyEntry
      BY <1>7
    <3>2. \A p \in AddrSpace : p < page \/ top <= p => g[p] = h[p]
      BY <1>10
    <3>3. top \in Nat /\ page < top
      BY <1>3
    <3>4. Kept(F, E0, page, top) /\ GoodEntries(E0) /\ Agrees(E0, h)
      BY <1>4, <1>8, <1>13
    <3>5. \A f \in E0 : f \in AnyEntry
      BY <1>7
    <3> HIDE DEF end
    <3>6. \A f \in F : \A p \in Pages(f) : PageAgrees(g, f, p)
      BY <3>1, <3>2, <3>3, <3>4, <3>5, KeptAgrees
    <3>7. \A p \in AddrSpace :
             (p < page \/ top <= p) /\ (\A f \in F : p \notin Pages(f))
               => g[p] = Inaccessible
      <4> SUFFICES ASSUME NEW p \in AddrSpace, p < page \/ top <= p,
                          \A f \in F : p \notin Pages(f)
                   PROVE  g[p] = Inaccessible
        OBVIOUS
      <4>1. h[p] = Inaccessible
        BY <3>4, KeptFree
      <4> QED
        BY <4>1, <3>2
    <3> QED
      BY <3>6, <3>7
  <2>2. \A p : p \in Pages(e) <=> p \in Int /\ page <= p /\ p < end
    BY <1>2, EntryFacts
  <2>3. ASSUME NEW p \in Pages(e) PROVE PageAgrees(g, e, p)
    <3>1. p \in AddrSpace /\ page <= p /\ p < end
      BY <2>2, <1>3, Layout DEF AddrSpace
    <3>2. CASE p < page + k
      <4>1. /\ g[p].prot = c.prot /\ g[p].desc = DescOf(c)
            /\ DescOf(c) = File => c.offset + (p - page) * PageBytes < app.file_size
        BY <3>1, <3>2, <1>11
      <4>2. k > 0
        BY <3>1, <3>2, <1>1, <1>10
      <4>3. c.kind = "shared" => c.prot \subseteq FileMode
        BY <4>2 DEF MapSucceeds
      <4> QED
        BY <4>1, <4>3, <1>2 DEF PageAgrees
    <3>3. CASE ~(p < page + k)
      <4>1. g[p] = Inaccessible
        BY <3>1, <3>3, <1>1, <1>10
      <4>2. k # n
        BY <3>1, <3>3
      <4>3. DescOf(c) = File
        BY <4>2, <1>1, MmapCallIs
      <4> QED
        BY <4>1, <4>3, <1>2, InaccessibleIs, Layout DEF PageAgrees
    <3> QED
      BY <3>2, <3>3
  <2>4. ASSUME NEW p \in AddrSpace, \A f \in E2 : p \notin Pages(f)
        PROVE  g[p] = Inaccessible
    <3>1. p < page \/ end <= p
      <4>1. p \notin Pages(e) /\ p \in Nat
        BY <2>4, <1>6, <1>10 DEF E2
      <4> QED
        BY <4>1, <2>2, <1>3
    <3> QED
      BY <3>1, <2>1, <2>4
  <2> QED
    BY <2>1, <2>3, <2>4 DEF Agrees
<1>14. Floor(E2)
  <2>1. PICK o \in E0 : 0 \in Pages(o)
    BY DEF State, Floor, E0
  <2>2. 0 < page
    BY <1>3, Layout
  <2> QED
    BY <2>1, <2>2, <1>8 DEF Kept, Floor
<1> QED
  BY <1>4, <1>6, <1>9, <1>12, <1>13, <1>14 DEF State, E0, E2

-----------------------------------------------------------------------------
(***************************************************************************)
(* The searches: what they find is free, and a whole number of units.      *)
(***************************************************************************)
Unit(x) == \E k \in Nat : x = k * MapPages

LEMMA MultipleIs ==
    ASSUME NEW k, k \in Nat, NEW x, x = k * MapPages
    PROVE  x \in Nat /\ (x % MapPages) = 0
<1>1. x \in Nat
  BY Units
<1> PICK q, r : q = (x \div MapPages) /\ r = (x % MapPages)
  OBVIOUS
<1>2. q \in Int /\ r \in 0 .. MapPages - 1 /\ x = (MapPages * q) + r
  BY <1>1, Units
<1>3. MapPages * (k - q) = r
  <2>1. MapPages * (k - q) = MapPages * k - MapPages * q
        /\ MapPages * k = k * MapPages /\ MapPages * q \in Int
    BY <1>2, Units
  <2> QED
    BY <1>1, <1>2, <2>1
<1>4. k = q
  <2>1. CASE k - q >= 1
    <3>1. MapPages * (k - q) >= MapPages
      BY <2>1, <1>2, Units
    <3> QED
      BY <3>1, <1>2, <1>3, Units
  <2>2. CASE k - q <= -1
    <3>1. MapPages * (k - q) <= -1
      BY <2>2, <1>2, Units
    <3> QED
      BY <3>1, <1>2, <1>3, Units
  <2> QED
    BY <2>1, <2>2, <1>2
<1>5. r = 0
  BY <1>2, <1>3, <1>4, Units
<1> QED
  BY <1>1, <1>5

LEMMA UnitIs ==
    ASSUME NEW x, x \in Nat
    PROVE  Unit(x) <=> (x % MapPages) = 0
<1>1. ASSUME (x % MapPages) = 0 PROVE Unit(x)
  <2> PICK q : q = (x \div MapPages)
    OBVIOUS
  <2>1. q \in Nat /\ x = (MapPages * q) + (x % MapPages)
    BY Units
  <2>2. x = q * MapPages
    BY <2>1, <1>1, Units
  <2> QED
    BY <2>1, <2>2 DEF Unit
<1> QED
  BY <1>1, MultipleIs DEF Unit

LEMMA TruncIsUnit ==
    ASSUME NEW p, p \in Nat, NEW t, t = NaClTruncPageNumDownToMapMultiple(p)
    PROVE  Unit(t)
<1> PICK q, r : q = (p \div MapPages) /\ r = (p % MapPages)
  OBVIOUS
<1>1. q \in Nat /\ r \in Nat /\ p = (MapPages * q) + r
  BY Units
<1>2. t = p - r
  BY DEF NaClTruncPageNumDownToMapMultiple
<1>3. t = q * MapPages
  BY <1>1, <1>2, Units
<1> QED
  BY <1>1, <1>3 DEF Unit

LEMMA RoundIsUnit ==
    ASSUME NEW p, p \in Nat, NEW t, t = NaClRoundPageNumUpToMapMultiple(p)
    PROVE  Unit(t)
<1> PICK x : x = p + MapPages - 1
  OBVIOUS
<1>1. x \in Nat
  BY Units
<1> QED
  BY <1>1, TruncIsUnit DEF NaClRoundPageNumUpToMapMultiple

LEMMA UnitMinus ==
    ASSUME NEW a, NEW b, a \in Nat, b \in Nat, b <= a, Unit(a), Unit(b)
    PROVE  Unit(a - b)
<1>1. PICK j, k : j \in Nat /\ k \in Nat /\ a = j * MapPages /\ b = k * MapPages
  BY DEF Unit
<1>2. k <= j
  <2> SUFFICES ASSUME j + 1 <= k PROVE FALSE
    BY <1>1
  <2>1. (j + 1) * MapPages <= k * MapPages /\ (j + 1) * MapPages = j * MapPages + MapPages
    BY <1>1, Units
  <2> QED
    BY <2>1, <1>1, Units
<1>3. (j - k) * MapPages = j * MapPages - k * MapPages
  BY <1>1, Units
<1> QED
  BY <1>1, <1>2, <1>3 DEF Unit

(* Between entry i - 1 and entry i of a sorted array there is nothing.     *)
LEMMA GapIs ==
    ASSUME NEW v, v \in Seq(AnyEntry), Ascending(v), NEW i, i \in 2 .. Len(v),
           NEW a, a = GapEnd(v, i), NEW b, b = GapStart(v, i)
    PROVE  /\ a \in Nat /\ b \in Nat /\ Unit(a) /\ Unit(b)
           /\ \A j \in DOMAIN v : \A p \in Pages(v[j]) : p < a \/ b <= p
<1>1. /\ i - 1 \in DOMAIN v /\ i \in DOMAIN v
      /\ \A j \in DOMAIN v : v[j] \in AnyEntry /\ j \in Nat
  OBVIOUS
<1>2. /\ a \in Nat /\ EndPage(v[i - 1]) <= a /\ Unit(a) /\ EndPage(v[i - 1]) \in Nat
  <2> PICK x : x = EndPage(v[i - 1])
    OBVIOUS
  <2>1. x \in Nat
    BY <1>1, EntryFacts
  <2> QED
    BY <2>1, RoundIs, RoundIsUnit DEF GapEnd
<1>3. /\ b \in Nat /\ b <= v[i].page_num /\ Unit(b) /\ v[i].page_num \in Nat
  <2> PICK x : x = v[i].page_num
    OBVIOUS
  <2>1. x \in Nat
    BY <1>1, EntryFacts
  <2> QED
    BY <2>1, TruncIs, TruncIsUnit DEF GapStart
<1>4. ASSUME NEW j \in DOMAIN v, NEW p \in Pages(v[j]) PROVE p < a \/ b <= p
  <2>1. /\ p \in Int /\ v[j].page_num <= p /\ p < EndPage(v[j])
        /\ v[j].page_num \in Nat /\ EndPage(v[j]) \in Nat
    BY <1>1, EntryFacts
  <2>2. CASE j < i
    <3>1. EndPage(v[j]) <= EndPage(v[i - 1])
      <4>1. CASE j = i - 1
        BY <4>1, <2>1
      <4>2. CASE j < i - 1
        <5>1. EndPage(v[j]) <= v[i - 1].page_num
          BY <4>2, <1>1 DEF Ascending
        <5>2. v[i - 1].page_num < EndPage(v[i - 1]) /\ v[i - 1].page_num \in Nat
          BY <1>1, EntryFacts
        <5> QED
          BY <5>1, <5>2, <2>1, <1>2
      <4> QED
        BY <4>1, <4>2, <2>2, <1>1
    <3> QED
      BY <3>1, <2>1, <1>2
  <2>3. CASE ~(j < i)
    <3>1. v[i].page_num <= v[j].page_num
      <4>1. CASE j = i
        BY <4>1, <2>1
      <4>2. CASE i < j
        <5>1. EndPage(v[i]) <= v[j].page_num
          BY <4>2, <1>1 DEF Ascending
        <5>2. v[i].page_num < EndPage(v[i]) /\ EndPage(v[i]) \in Nat
          BY <1>1, EntryFacts
        <5> QED
          BY <5>1, <5>2, <2>1, <1>3
      <4> QED
        BY <4>1, <4>2, <2>3, <1>1
    <3> QED
      BY <3>1, <2>1, <1>3
  <2> QED
    BY <2>2, <2>3
<1> QED
  BY <1>2, <1>3, <1>4

Free(v, p, n) ==
    /\ p \in Nat
    /\ p # 0 => /\ Unit(p)
                /\ \A j \in DOMAIN v : \A q \in Pages(v[j]) : q < p \/ p + n <= q

LEMMA HighestIsFree ==
    ASSUME NEW v, v \in Seq(AnyEntry), Ascending(v), NEW n, n \in Nat, Unit(n),
           NEW r, r = HighestFit(v, n)
    PROVE  Free(v, r, n)
<1> DEFINE fits == {i \in 2..Len(v) : /\ GapStart(v, i) > GapEnd(v, i)
                                      /\ GapStart(v, i) - GapEnd(v, i) >= n}
<1>1. CASE fits = {}
  BY <1>1 DEF HighestFit, Free
<1>2. CASE fits # {}
  <2>1. PICK i : i \in fits /\ r = GapStart(v, i) - n
    <3>1. fits \in SUBSET Nat /\ Len(v) \in Nat /\ \A x \in fits : x <= Len(v)
      OBVIOUS
    <3>2. PICK x \in fits : \A y \in fits : y <= x
      BY <1>2, <3>1, GreatestExists
    <3>3. Max(fits) = x
      <4>1. x \in fits /\ \A y \in fits : y \in Int /\ y <= x
        BY <3>1, <3>2
      <4> HIDE DEF fits
      <4> QED
        BY <4>1, MaxIs
    <3> QED
      BY <1>2, <3>2, <3>3 DEF HighestFit
  <2> PICK a, b : a = GapEnd(v, i) /\ b = GapStart(v, i)
    OBVIOUS
  <2>2. /\ a \in Nat /\ b \in Nat /\ Unit(b)
        /\ \A j \in DOMAIN v : \A q \in Pages(v[j]) : q < a \/ b <= q
        /\ \A j \in DOMAIN v : \A q \in Pages(v[j]) : q \in Int
    <3>1. i \in 2 .. Len(v)
      BY <2>1
    <3>2. \A j \in DOMAIN v : v[j] \in AnyEntry
      OBVIOUS
    <3> QED
      BY <3>1, <3>2, GapIs, EntryFacts
  <2>3. b - a >= n /\ r = b - n
    BY <2>1
  <2>4. r \in Nat /\ a <= r /\ r + n = b
    BY <2>2, <2>3
  <2>5. Unit(r)
    <3>1. n <= b
      BY <2>2, <2>4
    <3>2. Unit(b - n)
      BY <2>2, <3>1, UnitMinus
    <3> QED
      BY <2>3, <3>2
  <2> QED
    BY <2>2, <2>4, <2>5 DEF Free
<1> QED
  BY <1>1, <1>2

LEMMA LowestIsFree ==
    ASSUME NEW v, v \in Seq(AnyEntry), Ascending(v), NEW n, n \in Nat, Unit(n),
           NEW u, u \in Nat, Unit(u), NEW r, r = LowestFit(v, u, n)
    PROVE  Free(v, r, n)
<1> DEFINE at(i) == IF GapEnd(v, i) <= u /\ u < GapStart(v, i)
                    THEN u ELSE GapEnd(v, i)
           fits == {i \in 2..Len(v) : /\ GapStart(v, i) > GapEnd(v, i)
                                      /\ u <= at(i)
                                      /\ GapStart(v, i) - at(i) >= n}
<1>1. CASE fits = {}
  BY <1>1 DEF LowestFit, Free
<1>2. CASE fits # {}
  <2>1. PICK i : i \in fits /\ r = at(i)
    <3>1. fits \in SUBSET Nat
      OBVIOUS
    <3>2. PICK x \in fits : \A y \in fits : x <= y
      BY <1>2, <3>1, LeastExists
    <3>3. Min(fits) = x
      <4>1. x \in fits /\ \A y \in fits : y \in Int /\ x <= y
        BY <3>1, <3>2
      <4> HIDE DEF fits
      <4> QED
        BY <4>1, MinIs
    <3> QED
      BY <1>2, <3>2, <3>3 DEF LowestFit
  <2> PICK a, b : a = GapEnd(v, i) /\ b = GapStart(v, i)
    OBVIOUS
  <2>2. /\ a \in Nat /\ b \in Nat /\ Unit(a)
        /\ \A j \in DOMAIN v : \A q \in Pages(v[j]) : q < a \/ b <= q
        /\ \A j \in DOMAIN v : \A q \in Pages(v[j]) : q \in Int
    <3>1. i \in 2 .. Len(v)
      BY <2>1
    <3>2. \A j \in DOMAIN v : v[j] \in AnyEntry
      OBVIOUS
    <3> QED
      BY <3>1, <3>2, GapIs, EntryFacts
  <2>3. b - r >= n /\ r = (IF a <= u /\ u < b THEN u ELSE a)
    BY <2>1
  <2>4. r \in Nat /\ a <= r /\ r + n <= b /\ Unit(r)
    BY <2>2, <2>3
  <2> QED
    BY <2>2, <2>4 DEF Free
<1> QED
  BY <1>1, <1>2

(* Where an mmap goes that may choose.                                     *)
LEMMA MmapPageIs ==
    ASSUME AppOK, GoodMap(mem_map), NEW c \in MmapCall, NEW p, p = MmapPage(c),
           NEW n, n = Rounded(c.npages)
    PROVE  /\ p \in Nat
           /\ ~c.fixed /\ p # 0 =>
                /\ Unit(p)
                /\ \A e \in EntrySet(mem_map.vmentry) : \A q \in Pages(e) :
                     q < p \/ p + n <= q
<1>1. c.start \in Nat /\ c.npages \in Nat
  BY MmapCallIs
<1>2. n \in Nat /\ Unit(n)
  BY <1>1, RoundIs, RoundIsUnit DEF Rounded
<1> PICK u, v : /\ u = NaClTruncPageNumDownToMapMultiple(c.start)
                /\ v = NaClVmmapMakeSorted(mem_map).vmentry
  OBVIOUS
<1>3. u \in Nat /\ Unit(u)
  BY <1>1, TruncIs, TruncIsUnit
<1>4. /\ v \in Seq(AnyEntry) /\ Ascending(v)
      /\ EntrySet(v) = EntrySet(mem_map.vmentry)
  <2> PICK s : s = NaClVmmapMakeSorted(mem_map)
    OBVIOUS
  <2>1. /\ GoodMap(s) /\ Ascending(s.vmentry)
        /\ EntrySet(s.vmentry) = EntrySet(mem_map.vmentry)
    BY MakeSortedSorts
  <2>2. v \in Seq(Entry)
    BY <2>1 DEF GoodMap
  <2> QED
    BY <2>1, <2>2, EntryIsAny
<1> PICK x, y : /\ x = NaClVmmapFindMapSpace(mem_map, c.npages)
                /\ y = NaClVmmapFindMapSpaceAboveHint(mem_map, u, c.npages)
  OBVIOUS
<1>5. Free(v, x, n)
  BY <1>2, <1>4, HighestIsFree DEF NaClVmmapFindMapSpace, Rounded
<1>6. Free(v, y, n)
  BY <1>2, <1>3, <1>4, LowestIsFree DEF NaClVmmapFindMapSpaceAboveHint, Rounded
<1>7. p = IF c.fixed THEN c.start ELSE IF u # 0 /\ y # 0 THEN y ELSE x
  BY DEF MmapPage
<1>8. ASSUME Free(v, p, n)
      PROVE  /\ p \in Nat
             /\ p # 0 => /\ Unit(p)
                         /\ \A e \in EntrySet(v) : \A q \in Pages(e) :
                              q < p \/ p + n <= q
  BY <1>8 DEF Free, EntrySet
<1> QED
  BY <1>1, <1>4, <1>5, <1>6, <1>7, <1>8

-----------------------------------------------------------------------------
(***************************************************************************)
(* What ends a memory call.                                                *)
(***************************************************************************)
LEMMA StateStays ==
    ASSUME UNCHANGED app, State(mem_map', host')
    PROVE  State(mem_map, host)'
<1>1. HeapIsRW' = HeapIsRW /\ Truthful' = Truthful
  BY DEF HeapIsRW, Truthful
<1>2. GoodEntries(EntrySet(mem_map.vmentry))' = GoodEntries(EntrySet(mem_map'.vmentry))
  BY DEF GoodEntries, EntrySet
<1>3. GoodMap(mem_map)' = GoodMap(mem_map')
  BY DEF GoodMap
<1>4. GoodHost(host)' = GoodHost(host')
  BY DEF GoodHost
<1>5. Agrees(EntrySet(mem_map.vmentry), host)' = Agrees(EntrySet(mem_map'.vmentry), host')
  BY <1>1 DEF Agrees, PageAgrees, EntrySet
<1>6. Floor(EntrySet(mem_map.vmentry))' = Floor(EntrySet(mem_map'.vmentry))
  BY DEF Floor, EntrySet
<1> QED
  BY <1>1, <1>2, <1>3, <1>4, <1>5, <1>6 DEF State

LEMMA CallsCounted ==
    ASSUME AppOK, calls \in 0 .. app.max_calls, calls < app.max_calls
    PROVE  calls \in Nat /\ calls + 1 \in 0 .. app.max_calls
BY DEF AppOK

LEMMA RefuseKeeps ==
    ASSUME MemInv, UNCHANGED app, calls < app.max_calls, Refuse
    PROVE  MemInv'
<1>1. State(mem_map, host)'
  BY StateStays DEF MemInv, Refuse
<1>2. Rest'
  <2>1. AppOK' = AppOK /\ (AppOK => app.max_calls \in Nat)
    BY DEF AppOK
  <2>2. calls \in Nat /\ calls + 1 \in 0 .. app.max_calls
    BY CallsCounted DEF MemInv, Rest
  <2> QED
    BY <2>1, <2>2 DEF MemInv, Rest, Refuse
<1> QED
  BY <1>1, <1>2 DEF MemInv

LEMMA AbortKeeps ==
    ASSUME MemInv, UNCHANGED app, calls < app.max_calls, NEW why,
           why \in {"io race", "break"} \/ (why = "check" /\ 0 \in app.lengths),
           Abort(why)
    PROVE  MemInv'
<1>1. State(mem_map, host)'
  BY StateStays DEF MemInv, Abort
<1>2. Rest'
  <2>1. AppOK' = AppOK /\ (AppOK => app.max_calls \in Nat)
    BY DEF AppOK
  <2>2. calls \in Nat /\ calls + 1 \in 0 .. app.max_calls
    BY CallsCounted DEF MemInv, Rest
  <2> QED
    BY <2>1, <2>2 DEF MemInv, Rest, Abort
<1> QED
  BY <1>1, <1>2 DEF MemInv

LEMMA DoneKeeps ==
    ASSUME MemInv, UNCHANGED app, calls < app.max_calls, NEW m, NEW h, NEW what,
           State(m, h), Done(what, m, h)
    PROVE  MemInv'
<1>1. State(mem_map, host)'
  BY StateStays DEF Done
<1>2. Rest'
  <2>1. AppOK' = AppOK /\ (AppOK => app.max_calls \in Nat)
    BY DEF AppOK
  <2>2. calls \in Nat /\ calls + 1 \in 0 .. app.max_calls
    BY CallsCounted DEF MemInv, Rest
  <2> QED
    BY <2>1, <2>2 DEF MemInv, Rest, Done
<1> QED
  BY <1>1, <1>2 DEF MemInv

LEMMA MmapStep ==
    ASSUME MemInv, UNCHANGED app, NEW c \in MmapCall, NaClSysMmap(c)
    PROVE  MemInv'
<1>1. AppOK /\ calls < app.max_calls /\ State(mem_map, host) /\ GoodMap(mem_map)
  BY DEF MemInv, Rest, State, NaClSysMmap, MayCall
<1> PICK page : page = MmapPage(c)
  OBVIOUS
<1>2. page \in Nat
  BY <1>1, MmapPageIs
<1>3. CASE Refuse
  BY <1>1, <1>3, RefuseKeeps
<1>4. CASE Abort("io race")
  BY <1>1, <1>4, AbortKeeps
<1>5. CASE ~MmapInvalid(c) /\ ~MmapPageBad(c, page) /\ MapSucceeds(c) /\ MmapDone(c, page)
  <2> PICK k, n : k = FilePages(c) /\ n = Rounded(c.npages)
    OBVIOUS
  <2> PICK d : d = IF n - k > 0 THEN NaClVmmapRemove(mem_map, page + k, n - k) ELSE mem_map
    OBVIOUS
  <2> PICK w : w = NaClVmmapAddWithOverwrite(d, NewEntry(c, page))
    OBVIOUS
  <2> PICK g : g = Unmapped(Mapped(host, c, page), page + k, n - k)
    OBVIOUS
  <2> PICK what : what = Call(IF c.fixed THEN "mmap fixed" ELSE "mmap", page, n)
    OBVIOUS
  <2>1. Done(what, w, g)
    BY <1>5 DEF MmapDone
  <2>2. State(w, g)
    BY <1>1, <1>2, <1>5, MmapState
  <2> QED
    BY <1>1, <2>1, <2>2, DoneKeeps
<1>6. CASE /\ ~MmapInvalid(c) /\ ~MmapPageBad(c, page) /\ MapSucceeds(c)
           /\ MmapTailFails(c, page)
  <2> PICK k, n : k = FilePages(c) /\ n = Rounded(c.npages)
    OBVIOUS
  <2>1. k \in Nat /\ k <= n /\ n \in Nat /\ (DescOf(c) = NoDesc => k = n)
    BY <1>1, <1>6, FilePagesIs
  <2>2. k < n /\ "tail" \in app.failures
    BY <1>6 DEF MmapTailFails
  <2>3. DescOf(c) = File /\ ~Truthful
    BY <1>1, <2>1, <2>2, MmapCallIs DEF Truthful
  <2> PICK g : g = Mapped(host, c, page)
    OBVIOUS
  <2>4. GoodHost(g)
    <3>1. TextEnd <= page
      <4>1. ~(NaClTruncPageNumDownToMapMultiple(page) < TextEnd)
        BY <1>6 DEF MmapPageBad, ContainsExecutablePages
      <4>2. NaClTruncPageNumDownToMapMultiple(page) \in Nat
            /\ NaClTruncPageNumDownToMapMultiple(page) <= page
        BY <1>2, TruncIs
      <4> QED
        BY <1>2, <4>1, <4>2, Layout
    <3>2. g = [p \in AddrSpace |-> g[p]]
      BY DEF Mapped
    <3>3. GoodHost(host)
      BY <1>1 DEF State
    <3>4. ASSUME NEW p \in AddrSpace
          PROVE  /\ g[p] \in [prot : SUBSET Bits, desc : {NoDesc, File}, offset : Nat]
                 /\ p < page => g[p] = host[p]
      <4>1. p \in Nat
        BY Layout DEF AddrSpace
      <4>2. p \in Region(page, k) <=> page <= p /\ p < page + k
        BY <4>1, <1>2, <2>1 DEF Region
      <4>3. g[p] = IF p \in Region(page, k)
                   THEN HostPage(c.prot, File, c.offset + (p - page) * PageBytes)
                   ELSE host[p]
        BY <2>3, Layout DEF Mapped
      <4>4. CASE p \in Region(page, k)
        <5> PICK x : x = p - page
          OBVIOUS
        <5>1. x \in Nat /\ c.offset \in Nat /\ c.prot \in SUBSET Bits
          BY <4>1, <4>2, <4>4, <1>1, <1>2, MmapCallIs
        <5> PICK o : o = c.offset + x * PageBytes
          OBVIOUS
        <5>2. o \in Nat
          BY <5>1, Units
        <5>3. g[p] = [prot |-> c.prot, desc |-> File, offset |-> o]
          BY <4>3, <4>4 DEF HostPage
        <5> QED
          BY <5>1, <5>2, <5>3, <4>1, <4>2, <4>4, <1>2
      <4>5. CASE p \notin Region(page, k)
        BY <4>3, <4>5, <3>3 DEF GoodHost
      <4> QED
        BY <4>4, <4>5
    <3>5. ASSUME NEW p \in 0 .. TextEnd - 1 PROVE g[p] = InitialHost[p]
      <4>1. p \in AddrSpace /\ p < page
        BY <1>2, <3>1, Layout DEF AddrSpace
      <4> QED
        BY <4>1, <3>3, <3>4 DEF GoodHost
    <3> QED
      BY <3>2, <3>4, <3>5 DEF GoodHost
  <2>5. State(mem_map, g)
    BY <1>1, <2>3, <2>4 DEF State
  <2>6. Done(NothingCalled, mem_map, g)
    BY <1>6 DEF MmapTailFails
  <2> QED
    BY <1>1, <2>5, <2>6, DoneKeeps
<1> QED
  BY <1>3, <1>4, <1>5, <1>6 DEF NaClSysMmap, MmapAt

-----------------------------------------------------------------------------
(***************************************************************************)
(* munmap.                                                                 *)
(***************************************************************************)
LEMMA MunmapState ==
    ASSUME NEW m, NEW h, State(m, h), NEW first \in Nat, NEW n \in Nat, n >= 1,
           first + n <= NumPages, ~ContainsExecutablePages(first),
           NEW r, r = NaClVmmapRemove(m, first, n),
           NEW g, g = Unmapped(h, first, n)
    PROVE  State(r, g)
<1> PICK end : end = first + n
  OBVIOUS
<1> PICK E, F : E = EntrySet(r.vmentry) /\ F = EntrySet(m.vmentry)
  OBVIOUS
<1>1. /\ GoodMap(m) /\ GoodEntries(F) /\ GoodHost(h) /\ (Truthful => Agrees(F, h))
  BY DEF State
<1>2. end \in Nat /\ first < end /\ end <= NumPages /\ TextEnd <= first
  <2>1. ~(NaClTruncPageNumDownToMapMultiple(first) < TextEnd)
    BY DEF ContainsExecutablePages
  <2>2. NaClTruncPageNumDownToMapMultiple(first) \in Nat
        /\ NaClTruncPageNumDownToMapMultiple(first) <= first
    BY TruncIs
  <2> QED
    BY <2>1, <2>2, Layout
<1>3. GoodMap(r) /\ Kept(E, F, first, end)
  BY <1>1, RemoveKeeps
<1>4. (\A e \in E : e \in AnyEntry) /\ (\A e \in F : e \in AnyEntry)
  <2>1. \A z : GoodMap(z) => \A f \in EntrySet(z.vmentry) : f \in AnyEntry
    BY EntryIsAny DEF GoodMap, EntrySet
  <2> QED
    BY <2>1, <1>1, <1>3
<1>5. GoodEntries(E)
  BY <1>1, <1>3, <1>4, KeptGood
<1>6. ASSUME NEW p \in AddrSpace
      PROVE  /\ p \in Nat
             /\ first <= p /\ p < end => g[p] = Inaccessible
             /\ p < first \/ end <= p => g[p] = h[p]
  <2>1. p \in Nat
    BY Layout DEF AddrSpace
  <2>2. p \in Region(first, n) <=> first <= p /\ p < end
    BY <2>1 DEF Region
  <2> QED
    BY <2>1, <2>2, <1>2 DEF Unmapped
<1>7. GoodHost(g)
  <2>1. ASSUME NEW p \in AddrSpace
        PROVE  g[p] \in [prot : SUBSET Bits, desc : {NoDesc, File}, offset : Nat]
    <3>1. g[p] = Inaccessible \/ g[p] = h[p]
      BY <1>2, <1>6
    <3> QED
      BY <3>1, <1>1, InaccessibleIs DEF GoodHost
  <2>2. g = [p \in AddrSpace |-> g[p]]
    BY DEF Unmapped
  <2>3. ASSUME NEW p \in 0 .. TextEnd - 1 PROVE g[p] = InitialHost[p]
    <3>1. p \in AddrSpace /\ p < first
      BY <1>2, Layout DEF AddrSpace
    <3> QED
      BY <3>1, <1>1, <1>6 DEF GoodHost
  <2> QED
    BY <2>1, <2>2, <2>3 DEF GoodHost
<1>8. ASSUME Agrees(F, h) PROVE Agrees(E, g)
  <2>1. \A e \in E : \A p \in Pages(e) : PageAgrees(g, e, p)
    BY <1>1, <1>2, <1>3, <1>4, <1>6, <1>8, KeptAgrees
  <2>2. ASSUME NEW p \in AddrSpace, \A e \in E : p \notin Pages(e)
        PROVE  g[p] = Inaccessible
    <3>1. CASE p < first \/ end <= p
      BY <3>1, <2>2, <1>3, <1>6, <1>8, KeptFree
    <3>2. CASE first <= p /\ p < end
      BY <3>2, <1>6
    <3> QED
      BY <3>1, <3>2, <1>2, <1>6
  <2> QED
    BY <2>1, <2>2 DEF Agrees
<1>9. Floor(E)
  <2>1. PICK o \in F : 0 \in Pages(o)
    BY DEF State, Floor
  <2>2. 0 < first
    BY <1>2, Layout
  <2> QED
    BY <2>1, <2>2, <1>3 DEF Kept, Floor
<1> QED
  BY <1>1, <1>3, <1>5, <1>7, <1>8, <1>9 DEF State

LEMMA MunmapStep ==
    ASSUME MemInv, UNCHANGED app, NEW start \in app.starts, NEW npages \in app.lengths,
           NaClSysMunmap(start, npages)
    PROVE  MemInv'
<1>1. calls < app.max_calls /\ State(mem_map, host) /\ start \in Nat /\ npages \in Nat
  BY DEF MemInv, Rest, AppOK, NaClSysMunmap, MayCall
<1> PICK n : n = Rounded(npages)
  OBVIOUS
<1>2. n \in Nat
  BY <1>1, RoundIs DEF Rounded
<1>3. CASE Refuse
  BY <1>1, <1>3, RefuseKeeps
<1>4. CASE Abort("io race")
  BY <1>1, <1>4, AbortKeeps
<1>5. CASE /\ n # 0 /\ InUserRange(start, n) /\ ~ContainsExecutablePages(start)
           /\ Done(Call("munmap", start, n), NaClVmmapRemove(mem_map, start, n),
                   Unmapped(host, start, n))
  <2> PICK r, g, what : /\ r = NaClVmmapRemove(mem_map, start, n)
                        /\ g = Unmapped(host, start, n)
                        /\ what = Call("munmap", start, n)
    OBVIOUS
  <2>1. n >= 1 /\ start + n <= NumPages
    BY <1>2, <1>5 DEF InUserRange
  <2>2. State(r, g)
    BY <1>1, <1>2, <1>5, <2>1, MunmapState
  <2> QED
    BY <1>1, <1>5, <2>2, DoneKeeps
<1> QED
  BY <1>3, <1>4, <1>5 DEF NaClSysMunmap

-----------------------------------------------------------------------------
(***************************************************************************)
(* mprotect.                                                               *)
(***************************************************************************)
LEMMA ProtPagesIs ==
    ASSUME NEW e, e \in AnyEntry, NEW k, k = ProtPages(e)
    PROVE  /\ k \in Nat /\ k <= e.npages
           /\ e.desc = NoDesc => k = e.npages
           /\ \A x \in Nat : x < e.npages /\ e.offset + x * PageBytes < e.file_size
                => x < k
<1> PICK n, o, f : n = e.npages /\ o = e.offset /\ f = e.file_size
  OBVIOUS
<1>1. n \in Nat /\ o \in Nat /\ f \in Nat
  BY EntryFacts
<1>2. CASE e.desc = NoDesc
  BY <1>1, <1>2 DEF ProtPages
<1>3. CASE e.desc # NoDesc /\ o < f
  <2> PICK b : b = f - o
    OBVIOUS
  <2>1. b \in Nat
    BY <1>1, <1>3
  <2> PICK d : d = NaClBytesToPages(b)
    OBVIOUS
  <2>2. d \in Nat /\ \A x \in Nat : x < d <=> x * PageBytes < b
    BY <2>1, BytesToPagesIs
  <2>3. k = Min({d, n})
    BY <1>3 DEF ProtPages
  <2>4. k = IF n <= d THEN n ELSE d
    <3> PICK S : S = {d, n}
      OBVIOUS
    <3>1. CASE n <= d
      <4>1. n \in S /\ \A y \in S : y \in Int /\ n <= y
        BY <3>1, <1>1, <2>2
      <4> QED
        BY <3>1, <4>1, <2>3, MinIs
    <3>2. CASE ~(n <= d)
      <4>1. d \in S /\ \A y \in S : y \in Int /\ d <= y
        BY <3>2, <1>1, <2>2
      <4> QED
        BY <3>2, <4>1, <2>3, MinIs
    <3> QED
      BY <3>1, <3>2
  <2>5. ASSUME NEW x \in Nat, x < n, o + x * PageBytes < f PROVE x < k
    <3>1. x * PageBytes \in Nat
      BY Units
    <3>2. x * PageBytes < b
      BY <3>1, <1>1, <2>5
    <3>3. x < d
      BY <3>2, <2>2
    <3> QED
      BY <3>3, <2>4, <2>5
  <2> QED
    BY <1>1, <1>3, <2>2, <2>4, <2>5
<1>4. CASE e.desc # NoDesc /\ ~(o < f)
  <2>1. k = 0
    BY <1>4 DEF ProtPages
  <2>2. ASSUME NEW x \in Nat PROVE ~(o + x * PageBytes < f)
    <3>1. x * PageBytes \in Nat
      BY Units
    <3> QED
      BY <3>1, <1>1, <1>4
  <2> QED
    BY <1>1, <1>4, <2>1, <2>2
<1> QED
  BY <1>2, <1>3, <1>4

(* Each entry of the map lies inside the region or outside: the walk comes *)
(* by those inside.                                                        *)
LEMMA WalkedIs ==
    ASSUME NEW m, GoodMap(m), NEW first \in Nat, NEW end \in Nat, first < end,
           \A e \in EntrySet(m.vmentry) : Outside(e, first, end) \/ Within(e, first, end),
           \E e \in EntrySet(m.vmentry) : first \in Pages(e),
           NEW e
    PROVE  e \in Walked(m, first, end)
             <=> e \in EntrySet(m.vmentry) /\ Within(e, first, end)
<1> PICK s, v, E : /\ s = NaClVmmapMakeSorted(m) /\ v = s.vmentry
                   /\ E = EntrySet(m.vmentry)
  OBVIOUS
<1>1. /\ v \in Seq(AnyEntry) /\ Ascending(v) /\ EntrySet(v) = E
  <2>1. GoodMap(s) /\ Ascending(s.vmentry) /\ EntrySet(s.vmentry) = E
    BY MakeSortedSorts
  <2>2. v \in Seq(Entry)
    BY <2>1 DEF GoodMap
  <2> QED
    BY <2>1, <2>2, EntryIsAny
<1>2. /\ \A i \in DOMAIN v : v[i] \in AnyEntry /\ v[i] \in E /\ i \in Nat
      /\ DOMAIN v = 1 .. Len(v) /\ Len(v) \in Nat
  <2>1. \A i \in DOMAIN v : v[i] \in EntrySet(v)
    BY DEF EntrySet
  <2>2. \A i \in DOMAIN v : v[i] \in AnyEntry /\ i \in Nat
    BY <1>1
  <2>3. DOMAIN v = 1 .. Len(v) /\ Len(v) \in Nat
    BY <1>1
  <2> QED
    BY <1>1, <2>1, <2>2, <2>3
<1>3. PICK i \in DOMAIN v : first \in Pages(v[i])
  <2>1. PICK d \in EntrySet(v) : first \in Pages(d)
    BY <1>1
  <2> QED
    BY <2>1 DEF EntrySet
<1>4. v[i].page_num = first
  <2>1. /\ v[i].page_num <= first /\ first < EndPage(v[i])
        /\ v[i].page_num \in Nat /\ EndPage(v[i]) \in Nat
    BY <1>2, <1>3, EntryFacts
  <2>2. ~Outside(v[i], first, end)
    BY <2>1 DEF Outside
  <2>3. Within(v[i], first, end)
    BY <1>2, <2>2
  <2> QED
    BY <2>1, <2>3 DEF Within
<1>5. NaClVmmapFindPageIter(m, first) = i
  <2> DEFINE S == {j \in DOMAIN v : first \in Pages(v[j])} \cup {Len(v) + 1}
  <2>1. i \in S /\ \A j \in S : j \in Int /\ i <= j
    <3>1. i \in S /\ i <= Len(v)
      BY <1>2, <1>3
    <3>2. ASSUME NEW j \in DOMAIN v, first \in Pages(v[j]) PROVE i <= j
      <4>1. first < EndPage(v[j]) /\ EndPage(v[j]) \in Nat
        BY <1>2, <3>2, EntryFacts
      <4>2. j < i => EndPage(v[j]) <= v[i].page_num
        BY <1>1 DEF Ascending
      <4> QED
        BY <4>1, <4>2, <1>2, <1>4
    <3> QED
      BY <3>1, <3>2, <1>2
  <2>2. NaClVmmapFindPageIter(m, first) = Min(S)
    BY DEF NaClVmmapFindPageIter
  <2> HIDE DEF S
  <2> QED
    BY <2>1, <2>2, MinIs
<1>6. e \in Walked(m, first, end)
        <=> \E j \in i .. Len(v) : v[j].page_num < end /\ e = v[j]
  BY <1>5 DEF Walked
<1>7. ASSUME NEW j \in DOMAIN v
      PROVE  (i <= j /\ v[j].page_num < end) <=> Within(v[j], first, end)
  <2>1. /\ v[j].page_num \in Nat /\ EndPage(v[j]) \in Nat
        /\ v[j].page_num < EndPage(v[j]) /\ EndPage(v[i]) \in Nat
        /\ first < EndPage(v[i])
    BY <1>2, <1>3, EntryFacts
  <2>2. CASE j < i
    <3>1. EndPage(v[j]) <= first
      BY <2>2, <1>1, <1>4 DEF Ascending
    <3> QED
      BY <3>1, <2>1, <2>2, <1>2 DEF Within
  <2>3. CASE i <= j
    <3>1. first <= v[j].page_num
      <4>1. i < j => EndPage(v[i]) <= v[j].page_num
        BY <1>1 DEF Ascending
      <4> QED
        BY <4>1, <2>1, <2>3, <1>2, <1>4
    <3>2. v[j].page_num < end => ~Outside(v[j], first, end)
      BY <3>1, <2>1 DEF Outside
    <3>3. v[j].page_num < end => Within(v[j], first, end)
      BY <3>2, <1>2
    <3> QED
      BY <3>3, <2>1, <2>3 DEF Within
  <2> QED
    BY <2>2, <2>3, <1>2
<1>8. \A j : j \in i .. Len(v) <=> j \in DOMAIN v /\ i <= j
  BY <1>2
<1>9. e \in E <=> \E j \in DOMAIN v : e = v[j]
  BY <1>1 DEF EntrySet
<1> QED
  BY <1>6, <1>7, <1>8, <1>9

LEMMA SliceOfFile ==
    ASSUME NEW e, NEW o, e \in AnyEntry, o \in AnyEntry, Slice(e, o),
           NEW p, p \in Pages(e),
           o.offset + (p - o.page_num) * PageBytes < o.file_size
    PROVE  e.offset + (p - e.page_num) * PageBytes < e.file_size
<1>1. p \in Int /\ e.page_num <= p
  BY EntryFacts
<1>2. e.offset \in Nat /\ o.offset \in Nat /\ o.file_size \in Nat
      /\ e.file_size = o.file_size
  BY EntryFacts DEF Slice
<1>3. /\ (p - e.page_num) * PageBytes \in Nat
      /\ (p - o.page_num) * PageBytes \in Nat
      /\ e.offset + (p - e.page_num) * PageBytes
           <= o.offset + (p - o.page_num) * PageBytes
  BY <1>1, SliceOffset
<1> QED
  BY <1>2, <1>3

(* The pages of the host that the walk changes are those of the entries    *)
(* inside the region, up to the end of the file.                           *)
ProtectedPage(e, p) == p \in Region(e.page_num, ProtPages(e))

LEMMA ProtectedPageIs ==
    ASSUME NEW e, e \in AnyEntry, NEW p
    PROVE  /\ ProtectedPage(e, p) => p \in Pages(e)
           /\ p \in Pages(e) /\ e.desc = NoDesc => ProtectedPage(e, p)
           /\ p \in Pages(e) /\ e.offset + (p - e.page_num) * PageBytes < e.file_size
                => ProtectedPage(e, p)
<1> PICK k, a, n : k = ProtPages(e) /\ a = e.page_num /\ n = e.npages
  OBVIOUS
<1>1. /\ k \in Nat /\ k <= n /\ a \in Nat /\ n \in Nat /\ EndPage(e) = a + n
      /\ e.desc = NoDesc => k = n
  BY ProtPagesIs, EntryFacts
<1>2. ProtectedPage(e, p) <=> p \in Int /\ a <= p /\ p < a + k
  BY <1>1 DEF ProtectedPage, Region
<1>3. p \in Pages(e) <=> p \in Int /\ a <= p /\ p < a + n
  BY <1>1, EntryFacts
<1>4. ASSUME p \in Pages(e), e.offset + (p - a) * PageBytes < e.file_size
      PROVE  ProtectedPage(e, p)
  <2> PICK x : x = p - a
    OBVIOUS
  <2>1. x \in Nat /\ x < n
    BY <1>1, <1>3, <1>4
  <2>2. x < k
    BY <2>1, <1>4, ProtPagesIs
  <2> QED
    BY <2>2, <1>1, <1>2, <1>3, <1>4
<1> QED
  BY <1>1, <1>2, <1>3, <1>4

(* What mprotect makes of map and host, and that its CHECKs hold.          *)
LEMMA MprotectState ==
    ASSUME NEW m, NEW h, State(m, h), NEW first \in Nat, NEW n \in Nat, n >= 1,
           first + n <= NumPages, ~ContainsExecutablePages(first),
           NEW prot \in SUBSET Bits, prot \in app.prots,
           NaClVmmapCheckExistingMapping(m, first, n, prot, FileMode),
           NEW r, r = ChangeProt(m, first, n, prot),
           NEW W, W = Walked(r, first, first + n),
           NEW s, s = NaClVmmapMakeSorted(r),
           NEW g, g = Protected(h, W, prot)
    PROVE  ChecksPass(r, first, first + n) /\ State(s, g)
<1> PICK end : end = first + n
  OBVIOUS
<1> PICK v, E, F : /\ v = NaClVmmapMakeSorted(m).vmentry
                   /\ E = EntrySet(s.vmentry) /\ F = EntrySet(m.vmentry)
  OBVIOUS
<1>1. /\ GoodMap(m) /\ GoodEntries(F) /\ GoodHost(h) /\ (Truthful => Agrees(F, h))
  BY DEF State
<1>2. end \in Nat /\ first < end /\ end <= NumPages /\ TextEnd <= first
  <2>1. ~(NaClTruncPageNumDownToMapMultiple(first) < TextEnd)
    BY DEF ContainsExecutablePages
  <2>2. NaClTruncPageNumDownToMapMultiple(first) \in Nat
        /\ NaClTruncPageNumDownToMapMultiple(first) <= first
    BY TruncIs
  <2> QED
    BY <2>1, <2>2, Layout
<1>3. /\ v \in Seq(AnyEntry) /\ Ascending(v) /\ EntrySet(v) = F
  <2> PICK z : z = NaClVmmapMakeSorted(m)
    OBVIOUS
  <2>1. GoodMap(z) /\ Ascending(z.vmentry) /\ EntrySet(z.vmentry) = F
    BY <1>1, MakeSortedSorts
  <2>2. v \in Seq(Entry)
    BY <2>1 DEF GoodMap
  <2> QED
    BY <2>1, <2>2, EntryIsAny
<1>4. \A i \in DOMAIN v :
        ~Outside(v[i], first, end) => prot \subseteq NaClVmmapEntryMaxProt(v[i], FileMode)
  <2>1. \A i \in DOMAIN v : ~Outside(v[i], first, first + n)
          => prot \subseteq NaClVmmapEntryMaxProt(v[i], FileMode)
    BY <1>3, CheckedCovers
  <2> QED
    BY <2>1
<1>5. \A p \in first .. end - 1 : \E i \in DOMAIN v : p \in Pages(v[i])
  <2>1. \A p \in first .. first + n - 1 : \E i \in DOMAIN v : p \in Pages(v[i])
    BY <1>3, CheckedCovers
  <2> QED
    BY <2>1
<1>5a. MetAtStart(v, first, first + n)
  BY <1>3, CheckedCovers
<1>6. GoodMap(r)
  BY <1>1, <1>5a, ChangeChanges
<1>7. \A e \in EntrySet(r.vmentry) :
        \E o \in EntrySet(v) : Part(e, o, first, end, prot)
  BY <1>1, <1>5a, ChangeChanges
<1>8. \A o \in EntrySet(v) : \A p \in Pages(o) :
        \E e \in EntrySet(r.vmentry) : p \in Pages(e)
  BY <1>1, <1>5a, ChangeChanges
<1>9. GoodMap(s) /\ E = EntrySet(r.vmentry)
  BY <1>6, MakeSortedSorts
<1>10. (\A e \in E : e \in AnyEntry) /\ (\A e \in F : e \in AnyEntry)
  <2>1. \A z : GoodMap(z) => \A f \in EntrySet(z.vmentry) : f \in AnyEntry
    BY EntryIsAny DEF GoodMap, EntrySet
  <2> QED
    BY <2>1, <1>1, <1>9
<1>11. \A e \in E : \E o \in F : Part(e, o, first, end, prot)
  BY <1>3, <1>7, <1>9
<1>12. \A o \in F : \A p \in Pages(o) : \E e \in E : p \in Pages(e)
  BY <1>3, <1>8, <1>9
<1>13. \A p \in first .. end - 1 : \E e \in E : p \in Pages(e)
  <2>1. ASSUME NEW p \in first .. end - 1 PROVE \E o \in F : p \in Pages(o)
    <3>1. PICK i \in DOMAIN v : p \in Pages(v[i])
      BY <1>5
    <3>2. v[i] \in EntrySet(v)
      BY DEF EntrySet
    <3> QED
      BY <3>1, <3>2, <1>3
  <2> QED
    BY <2>1, <1>12
<1>14. \A e : e \in W <=> e \in E /\ Within(e, first, end)
  <2>1. \A e \in EntrySet(r.vmentry) : Outside(e, first, end) \/ Within(e, first, end)
    BY <1>7 DEF Part
  <2>2. \E e \in EntrySet(r.vmentry) : first \in Pages(e)
    <3>1. first \in first .. end - 1
      BY <1>2
    <3> QED
      BY <3>1, <1>9, <1>13
  <2>3. W = Walked(r, first, end)
    OBVIOUS
  <2> QED
    BY <2>1, <2>2, <2>3, <1>2, <1>6, <1>9, WalkedIs
<1>15. ChecksPass(r, first, end)
  <2>1. ASSUME NEW p \in first .. end - 1
        PROVE  \E e \in W : p \in Pages(e)
    <3>1. PICK e \in E : p \in Pages(e)
      BY <1>13
    <3>2. ~Outside(e, first, end)
      <4>1. /\ p \in Int /\ e.page_num <= p /\ p < EndPage(e)
            /\ e.page_num \in Nat /\ EndPage(e) \in Nat
        BY <3>1, <1>10, EntryFacts
      <4> QED
        BY <4>1, <1>2 DEF Outside
    <3>3. Within(e, first, end)
      BY <3>2, <1>11 DEF Part
    <3> QED
      BY <3>1, <3>3, <1>14
  <2>2. ASSUME NEW e \in W
        PROVE  /\ e.page_num \in Nat /\ EndPage(e) \in Nat
               /\ first <= e.page_num /\ EndPage(e) <= end
               /\ \A p : p \in Pages(e) => p \in Int /\ e.page_num <= p /\ p < EndPage(e)
    BY <1>10, <1>14, EntryFacts DEF Within
  <2>3. \E e \in W : e.page_num = first
    <3>1. first \in first .. end - 1
      BY <1>2
    <3>2. PICK e \in W : first \in Pages(e)
      BY <2>1, <3>1
    <3>3. e.page_num = first
      BY <2>2, <3>2
    <3> QED
      BY <3>3
  <2>4. \E e \in W : EndPage(e) = end
    <3>1. end - 1 \in first .. end - 1
      BY <1>2
    <3>2. PICK e \in W : end - 1 \in Pages(e)
      BY <2>1, <3>1
    <3>3. EndPage(e) = end
      BY <2>2, <3>2, <1>2
    <3> QED
      BY <3>3
  <2>5. W = Walked(r, first, end)
    OBVIOUS
  <2> QED
    BY <2>2, <2>3, <2>4, <2>5 DEF ChecksPass
<1>16. GoodEntries(E)
  <2> SUFFICES ASSUME NEW e \in E
               PROVE  /\ EndPage(e) <= NumPages
                      /\ app.prots \subseteq {RW} /\ EndPage(e) > TextEnd => e.prot = RW
                      /\ app.kinds \subseteq {"anon"} => e.desc = NoDesc
    BY DEF GoodEntries
  <2>1. PICK o \in F : Part(e, o, first, end, prot)
    BY <1>11
  <2>2. /\ EndPage(e) \in Nat /\ EndPage(o) \in Nat /\ EndPage(e) <= EndPage(o)
        /\ e.desc = o.desc /\ (e.prot = o.prot \/ e.prot = prot)
    BY <2>1, <1>10, EntryFacts DEF Part, Slice
  <2>3. /\ EndPage(o) <= NumPages
        /\ app.prots \subseteq {RW} /\ EndPage(o) > TextEnd => o.prot = RW
        /\ app.kinds \subseteq {"anon"} => o.desc = NoDesc
    BY <1>1 DEF GoodEntries
  <2> QED
    BY <2>2, <2>3, Layout
<1>17. ASSUME NEW p \in AddrSpace
       PROVE  /\ g[p] = IF \E e \in W : ProtectedPage(e, p)
                        THEN [h[p] EXCEPT !.prot = prot] ELSE h[p]
              /\ p \in Nat
  BY Layout DEF Protected, ProtectedPage, AddrSpace
<1>18. ASSUME NEW e \in W, NEW p, ProtectedPage(e, p)
       PROVE  p \in Pages(e) /\ first <= p /\ p < end
  <2>1. e \in AnyEntry /\ Within(e, first, end)
    BY <1>10, <1>14
  <2>2. p \in Pages(e)
    BY <2>1, <1>18, ProtectedPageIs
  <2>3. /\ p \in Int /\ e.page_num <= p /\ p < EndPage(e) /\ e.page_num \in Nat
        /\ EndPage(e) \in Nat
    BY <2>1, <2>2, EntryFacts
  <2> QED
    BY <2>1, <2>2, <2>3, <1>2 DEF Within
<1>19. ASSUME NEW p \in AddrSpace
       PROVE  /\ h[p] \in [prot : SUBSET Bits, desc : {NoDesc, File}, offset : Nat]
              /\ g[p] \in [prot : SUBSET Bits, desc : {NoDesc, File}, offset : Nat]
              /\ g[p].desc = h[p].desc
              /\ (\E e \in W : ProtectedPage(e, p)) => g[p].prot = prot
              /\ ~(\E e \in W : ProtectedPage(e, p)) => g[p] = h[p]
  <2> PICK x, y : x = h[p] /\ y = g[p]
    OBVIOUS
  <2>1. x \in [prot : SUBSET Bits, desc : {NoDesc, File}, offset : Nat]
    BY <1>1 DEF GoodHost
  <2>2. y = IF \E e \in W : ProtectedPage(e, p) THEN [x EXCEPT !.prot = prot] ELSE x
    BY <1>17
  <2> QED
    BY <2>1, <2>2
<1>20. GoodHost(g)
  <2>1. g = [p \in AddrSpace |-> g[p]]
    BY DEF Protected
  <2>2. ASSUME NEW p \in 0 .. TextEnd - 1 PROVE g[p] = InitialHost[p]
    <3>1. p \in AddrSpace /\ p < first
      BY <1>2, Layout DEF AddrSpace
    <3>2. ~(\E e \in W : ProtectedPage(e, p))
      BY <3>1, <1>2, <1>17, <1>18
    <3> QED
      BY <3>1, <3>2, <1>1, <1>19 DEF GoodHost
  <2> QED
    BY <2>1, <2>2, <1>19 DEF GoodHost
<1>21. ASSUME Agrees(F, h) PROVE Agrees(E, g)
  <2>1. ASSUME NEW e \in E, NEW p \in Pages(e) PROVE PageAgrees(g, e, p)
    <3>1. PICK o \in F : Part(e, o, first, end, prot)
      BY <1>11
    <3>2. Slice(e, o) /\ e \in AnyEntry /\ o \in AnyEntry
      BY <3>1, <1>10 DEF Part
    <3>3. p \in Pages(o) /\ PageAgrees(h, o, p)
      BY <3>2, <1>21, SliceAgrees DEF Agrees
    <3>4. p \in AddrSpace /\ p \in Nat
      <4>1. /\ p \in Int /\ o.page_num <= p /\ p < EndPage(o) /\ EndPage(o) \in Nat
            /\ o.page_num \in Nat /\ EndPage(o) <= NumPages
        BY <3>2, <3>3, <1>1, EntryFacts DEF GoodEntries
      <4> QED
        BY <4>1, Layout DEF AddrSpace
    <3>5. e.flags = o.flags /\ e.desc = o.desc
      BY <3>2 DEF Slice
    <3>6. CASE Outside(e, first, end) /\ e.prot = o.prot
      <4>1. PageAgrees(h, e, p)
        BY <3>2, <3>3, <3>6, SliceAgrees
      <4>2. p < first \/ end <= p
        <5>1. /\ e.page_num <= p /\ p < EndPage(e) /\ e.page_num \in Nat
              /\ EndPage(e) \in Nat
          BY <3>2, EntryFacts
        <5> QED
          BY <5>1, <3>4, <3>6, <1>2 DEF Outside
      <4>3. ~(\E f \in W : ProtectedPage(f, p))
        BY <4>2, <3>4, <1>2, <1>18
      <4>4. g[p] = h[p]
        BY <4>3, <3>4, <1>19
      <4> QED
        BY <4>1, <4>4 DEF PageAgrees
    <3>7. CASE Within(e, first, end) /\ e.prot = prot
      <4>1. e \in W
        BY <3>7, <1>14
      <4>2. h[p].desc \in {NoDesc, e.desc}
        BY <3>3, <3>5 DEF PageAgrees
      <4>3. h[p].desc = File => e.offset + (p - e.page_num) * PageBytes < e.file_size
        BY <3>2, <3>3, SliceOfFile DEF PageAgrees
      <4>4. CASE ProtectedPage(e, p)
        <5>1. g[p].desc = h[p].desc /\ g[p].prot = prot
          BY <4>1, <4>4, <3>4, <1>19
        <5>2. h[p].desc = File /\ e.flags = "shared" => prot \subseteq FileMode
          <6> HAVE h[p].desc = File /\ e.flags = "shared"
          <6>1. o.desc # NoDesc /\ o.flags # "private"
            BY <4>2, <3>5, Layout
          <6>2. ~Outside(o, first, end)
            <7>1. /\ o.page_num <= e.page_num /\ EndPage(e) <= EndPage(o)
                  /\ first <= e.page_num /\ EndPage(e) <= end
                  /\ e.page_num < EndPage(e)
                  /\ o.page_num \in Nat /\ EndPage(o) \in Nat
                  /\ e.page_num \in Nat /\ EndPage(e) \in Nat
              BY <3>2, <3>7, EntryFacts DEF Slice, Within
            <7> QED
              BY <7>1, <1>2 DEF Outside
          <6>3. \E i \in DOMAIN v : o = v[i]
            BY <1>3 DEF EntrySet
          <6>4. prot \subseteq NaClVmmapEntryMaxProt(o, FileMode)
            BY <6>2, <6>3, <1>4
          <6> QED
            BY <6>1, <6>4 DEF NaClVmmapEntryMaxProt
        <5> QED
          BY <5>1, <5>2, <4>2, <4>3, <3>7 DEF PageAgrees
      <4>5. CASE ~ProtectedPage(e, p)
        <5>1. ASSUME NEW f \in W, ProtectedPage(f, p) PROVE FALSE
          <6>1. f \in E /\ p \in Pages(f)
            BY <5>1, <1>14, <1>18
          <6>2. EntryOf(s, p) = e /\ EntryOf(s, p) = f
            BY <6>1, <1>9, EntryOfIs
          <6> QED
            BY <6>2, <5>1, <4>5
        <5>2. g[p] = h[p]
          BY <5>1, <3>4, <1>19
        <5>3. e.desc # NoDesc
          BY <4>5, <3>2, ProtectedPageIs
        <5>4. h[p].desc # File
          BY <4>3, <4>5, <3>2, ProtectedPageIs
        <5>5. e.desc = File
          BY <5>3, <3>2, EntryFacts
        <5> QED
          BY <5>2, <5>4, <5>5, <4>2 DEF PageAgrees
      <4> QED
        BY <4>4, <4>5
    <3> QED
      BY <3>1, <3>6, <3>7 DEF Part
  <2>2. ASSUME NEW p \in AddrSpace, \A e \in E : p \notin Pages(e)
        PROVE  g[p] = Inaccessible
    <3>1. h[p] = Inaccessible
      <4>1. \A o \in F : p \notin Pages(o)
        BY <2>2, <1>12
      <4> QED
        BY <4>1, <1>21 DEF Agrees
    <3>2. ~(\E e \in W : ProtectedPage(e, p))
      BY <2>2, <1>14, <1>18
    <3> QED
      BY <3>1, <3>2, <1>19
  <2> QED
    BY <2>1, <2>2 DEF Agrees
<1>22. Floor(E)
  BY <1>12 DEF State, Floor
<1> QED
  BY <1>9, <1>15, <1>16, <1>20, <1>21, <1>22, <1>1 DEF State

LEMMA MprotectStep ==
    ASSUME MemInv, UNCHANGED app, NEW start \in app.starts, NEW npages \in app.lengths,
           NEW prot \in app.prots, NaClSysMprotect(start, npages, prot)
    PROVE  MemInv'
<1>1. /\ calls < app.max_calls /\ State(mem_map, host) /\ start \in Nat /\ npages \in Nat
      /\ prot \in SUBSET Bits
  BY DEF MemInv, Rest, AppOK, NaClSysMprotect, MayCall
<1> PICK n, r : n = Rounded(npages) /\ r = ChangeProt(mem_map, start, n, prot)
  OBVIOUS
<1>2. n \in Nat /\ npages <= n
  BY <1>1, RoundIs DEF Rounded
<1> DEFINE invalid == \/ start % MapPages # 0
                      \/ ~InUserRange(start, n)
                      \/ ContainsExecutablePages(start)
                      \/ ~NaClVmmapCheckExistingMapping(mem_map, start, n, prot,
                                                        FileMode)
<1>3. CASE Refuse
  BY <1>1, <1>3, RefuseKeeps
<1>4. CASE Abort("io race")
  BY <1>1, <1>4, AbortKeeps
<1> PICK W, s : W = Walked(r, start, start + n) /\ s = NaClVmmapMakeSorted(r)
  OBVIOUS
<1> PICK g, what : g = Protected(host, W, prot) /\ what = Call("mprotect", start, n)
  OBVIOUS
<1>5. ASSUME n >= 1, ~invalid
      PROVE  ChecksPass(r, start, start + n) /\ State(s, g)
  <2>1. /\ start + n <= NumPages /\ ~ContainsExecutablePages(start)
        /\ NaClVmmapCheckExistingMapping(mem_map, start, n, prot, FileMode)
    BY <1>5 DEF InUserRange
  <2> HIDE DEF invalid
  <2>2. ChecksPass(r, start, start + n)
    BY <1>1, <1>2, <1>5, <2>1, MprotectState
  <2>3. State(s, g)
    BY <1>1, <1>2, <1>5, <2>1, MprotectState
  <2> QED
    BY <2>2, <2>3
<1>6. n = 0 => ~ChecksPass(r, start, start + n)
  <2> SUFFICES ASSUME n = 0, ChecksPass(r, start, start + n) PROVE FALSE
    OBVIOUS
  <2>1. start + n = start
    BY <1>1
  <2>2. PICK e \in Walked(r, start, start) : e.page_num = start
    BY <2>1 DEF ChecksPass
  <2>3. e.page_num < start
    BY <2>2 DEF Walked
  <2> QED
    BY <2>2, <2>3, <1>1
<1>7. n = 0 => 0 \in app.lengths
  BY <1>1, <1>2
<1>8. CASE ~invalid /\ ~ChecksPass(r, start, start + n) /\ Abort("check")
  <2>1. n = 0
    BY <1>2, <1>5, <1>8
  <2> QED
    BY <2>1, <1>1, <1>7, <1>8, AbortKeeps
<1>9. CASE ~invalid /\ ChecksPass(r, start, start + n) /\ Done(what, s, g)
  <2>1. n >= 1
    BY <1>2, <1>6, <1>9
  <2>2. State(s, g)
    BY <2>1, <1>5, <1>9
  <2> QED
    BY <2>2, <1>1, <1>9, DoneKeeps
<1> QED
  BY <1>3, <1>4, <1>8, <1>9 DEF NaClSysMprotect

-----------------------------------------------------------------------------
(***************************************************************************)
(* brk.                                                                    *)
(***************************************************************************)
LEMMA SortState ==
    ASSUME NEW m, NEW h, State(m, h), NEW s, s = NaClVmmapMakeSorted(m)
    PROVE  State(s, h)
<1>1. GoodMap(m)
  BY DEF State
<1>2. GoodMap(s) /\ EntrySet(s.vmentry) = EntrySet(m.vmentry)
  BY <1>1, MakeSortedSorts
<1> QED
  BY <1>2 DEF State

LEMMA IterIs ==
    ASSUME NEW m, NEW p, NEW v, v = NaClVmmapMakeSorted(m).vmentry, v \in Seq(AnyEntry),
           NEW i, i = NaClVmmapFindPageIter(m, p)
    PROVE  i \in Nat /\ i >= 1 /\ (i <= Len(v) => i \in DOMAIN v /\ p \in Pages(v[i]))
<1> PICK S : S = {j \in DOMAIN v : p \in Pages(v[j])} \cup {Len(v) + 1}
  OBVIOUS
<1>1. S \in SUBSET (Nat \ {0}) /\ S # {} /\ Len(v) \in Nat
  OBVIOUS
<1>2. PICK x \in S : \A y \in S : x <= y
  BY <1>1, LeastExists
<1>3. i = Min(S)
  BY DEF NaClVmmapFindPageIter
<1>4. Min(S) = x
  <2>1. \A y \in S : y \in Int /\ x <= y
    BY <1>1, <1>2
  <2> QED
    BY <2>1, MinIs
<1>5. i \in S
  BY <1>3, <1>4
<1>6. CASE i = Len(v) + 1
  BY <1>1, <1>6
<1>7. CASE i \in DOMAIN v /\ p \in Pages(v[i])
  BY <1>7
<1> QED
  BY <1>5, <1>6, <1>7

LEMMA GrownEntryIs ==
    ASSUME NEW e, e \in Entry, NEW end \in Nat, EndPage(e) <= end,
           NEW f, f = [e EXCEPT !.npages = end - e.page_num]
    PROVE  /\ f \in Entry /\ f \in AnyEntry /\ f.page_num = e.page_num
           /\ EndPage(f) = end
           /\ f.prot = e.prot /\ f.flags = e.flags /\ f.desc = e.desc
           /\ f.offset = e.offset /\ f.file_size = e.file_size
<1>1. e \in AnyEntry
  BY EntryIsAny
<1>2. e.page_num \in Nat /\ EndPage(e) \in Nat /\ e.page_num < EndPage(e)
  BY <1>1, EntryFacts
<1> PICK n : n = end - e.page_num
  OBVIOUS
<1>3. n \in Nat \ {0}
  BY <1>2
<1>4. f = [e EXCEPT !.npages = n]
  OBVIOUS
<1>5. f \in AnyEntry /\ f.removed = e.removed /\ f.npages = n
      /\ f.page_num = e.page_num
      /\ f.prot = e.prot /\ f.flags = e.flags /\ f.desc = e.desc
      /\ f.offset = e.offset /\ f.file_size = e.file_size
  BY <1>1, <1>3, <1>4 DEF AnyEntry
<1>6. EndPage(f) = end
  BY <1>2, <1>5 DEF EndPage
<1>7. f \in Entry
  BY <1>5 DEF Entry
<1> QED
  BY <1>5, <1>6, <1>7

(* The bytes that a break ends in.                                         *)
LEMMA BreakIs ==
    ASSUME NEW a \in Nat, DataEnd * PageBytes <= a,
           NEW b, b = BreakPage(a), NEW end, end = BrkEnd(a)
    PROVE  /\ b \in Nat /\ TextEnd <= b
           /\ \A x \in Nat : b < x <=> a <= x * PageBytes
           /\ end \in Nat /\ b < end
           /\ a <= NumPages * PageBytes => end <= NumPages
<1>1. /\ DataEnd \in Nat /\ TextEnd \in Nat /\ TextEnd < DataEnd /\ NumPages \in Nat
      /\ \E k \in Nat : NumPages = k * MapPages
  BY Layout
<1>2. (DataEnd - 1) * PageBytes + 1 <= a /\ (DataEnd - 1) * PageBytes \in Nat
  <2>1. (DataEnd - 1) * PageBytes = DataEnd * PageBytes - PageBytes
    BY <1>1, Units
  <2>2. (DataEnd - 1) * PageBytes \in Nat /\ DataEnd * PageBytes \in Nat
    BY <1>1, Units
  <2> QED
    BY <2>1, <2>2, Units
<1> PICK c : c = a - 1
  OBVIOUS
<1>3. c \in Nat /\ b = (c \div PageBytes)
  BY <1>2 DEF BreakPage
<1>4. b \in Nat /\ \A x \in Nat : b < x <=> c < x * PageBytes
  BY <1>3, PageIs
<1>5. \A x \in Nat : x * PageBytes \in Nat
  BY Units
<1>6. \A x \in Nat : b < x <=> a <= x * PageBytes
  BY <1>2, <1>3, <1>4, <1>5
<1>7. TextEnd <= b
  <2> PICK x : x = DataEnd - 1
    OBVIOUS
  <2>1. x \in Nat /\ TextEnd <= x
    BY <1>1
  <2>2. ~(b < x)
    BY <2>1, <1>2, <1>3, <1>4
  <2> QED
    BY <2>1, <2>2, <1>1, <1>4
<1> PICK d : d = NaClBytesToPages(a)
  OBVIOUS
<1>8. d \in Nat /\ \A x \in Nat : x < d <=> x * PageBytes < a
  BY BytesToPagesIs
<1>9. end \in Nat /\ d <= end /\ \A k \in Nat : d <= k * MapPages => end <= k * MapPages
  BY <1>8, RoundIs DEF BrkEnd
<1>10. b < d
  <2>1. ~(b < b) /\ ~(a <= b * PageBytes)
    BY <1>4, <1>6
  <2> QED
    BY <2>1, <1>4, <1>5, <1>8
<1>11. a <= NumPages * PageBytes => end <= NumPages
  <2>1. a <= NumPages * PageBytes => d <= NumPages
    BY <1>1, <1>5, <1>8
  <2> QED
    BY <2>1, <1>1, <1>9
<1> QED
  BY <1>4, <1>6, <1>7, <1>8, <1>9, <1>10, <1>11

(* The heap grows into pages that no entry has.                            *)
LEMMA NextIsAbove ==
    ASSUME NEW v, v \in Seq(AnyEntry), Ascending(v), NEW i, i \in DOMAIN v,
           NEW end, end \in Nat, ~RunsIntoNext(v, i, end),
           NEW j, j \in DOMAIN v, i < j
    PROVE  end <= v[j].page_num
<1>1. /\ DOMAIN v = 1 .. Len(v) /\ Len(v) \in Nat
      /\ \A k \in DOMAIN v : v[k] \in AnyEntry
  OBVIOUS
<1>2. i < Len(v) /\ i + 1 \in DOMAIN v
  BY <1>1
<1>3. ~(v[i + 1].page_num < end)
  BY <1>2 DEF RunsIntoNext
<1>4. v[i + 1].page_num \in Nat /\ v[j].page_num \in Nat /\ EndPage(v[i + 1]) \in Nat
      /\ v[i + 1].page_num < EndPage(v[i + 1])
  BY <1>1, <1>2, EntryFacts
<1>5. CASE j = i + 1
  BY <1>3, <1>4, <1>5
<1>6. CASE i + 1 < j
  <2>1. EndPage(v[i + 1]) <= v[j].page_num
    BY <1>2, <1>6 DEF Ascending
  <2> QED
    BY <2>1, <1>3, <1>4
<1> QED
  BY <1>1, <1>5, <1>6

LEMMA GrowthIsFree ==
    ASSUME NEW v, v \in Seq(AnyEntry), Ascending(v), NEW i, i \in DOMAIN v,
           NEW end, end \in Nat, ~RunsIntoNext(v, i, end),
           NEW j, j \in DOMAIN v, NEW p, p \in Pages(v[j])
    PROVE  p < EndPage(v[i]) \/ end <= p
<1>1. i \in Nat /\ j \in Nat /\ v[i] \in AnyEntry /\ v[j] \in AnyEntry
  OBVIOUS
<1>2. /\ p \in Int /\ v[j].page_num <= p /\ p < EndPage(v[j])
      /\ v[j].page_num \in Nat /\ EndPage(v[j]) \in Nat
      /\ v[i].page_num \in Nat /\ EndPage(v[i]) \in Nat
      /\ v[i].page_num < EndPage(v[i])
  BY <1>1, EntryFacts
<1>3. CASE j = i
  BY <1>2, <1>3
<1>4. CASE j < i
  <2>1. EndPage(v[j]) <= v[i].page_num
    BY <1>4 DEF Ascending
  <2> QED
    BY <2>1, <1>2
<1>5. CASE i < j
  <2>1. end <= v[j].page_num
    BY <1>5, NextIsAbove
  <2> QED
    BY <2>1, <1>2
<1> QED
  BY <1>1, <1>3, <1>4, <1>5

(* What the growth of the heap's entry makes of map and host.              *)
LEMMA GrownState ==
    ASSUME NEW m, NEW h, State(m, h), m.is_sorted = TRUE,
           NEW v, v = m.vmentry, Ascending(v),
           NEW i, i \in DOMAIN v, NEW end \in Nat, EndPage(v[i]) <= end,
           end <= NumPages, TextEnd < EndPage(v[i]), ~RunsIntoNext(v, i, end),
           "brk" \in app.calls,
           NEW w, w = [m EXCEPT !.vmentry[i].npages = end - v[i].page_num],
           NEW g, g = Grown(h, EndPage(v[i]), end)
    PROVE  State(w, g)
<1> PICK first : first = EndPage(v[i])
  OBVIOUS
<1> PICK f : f = [v[i] EXCEPT !.npages = end - v[i].page_num]
  OBVIOUS
<1> PICK u : u = [v EXCEPT ![i] = f]
  OBVIOUS
<1> PICK E, F : E = EntrySet(u) /\ F = EntrySet(v)
  OBVIOUS
<1>1. /\ GoodMap(m) /\ GoodEntries(F) /\ GoodHost(h) /\ (Truthful => Agrees(F, h))
  BY DEF State
<1>2. v \in Seq(Entry) /\ Disjoint(v) /\ m = [vmentry |-> v, is_sorted |-> TRUE]
  BY <1>1 DEF GoodMap
<1>3. \A j \in DOMAIN v : v[j] \in Entry /\ v[j] \in AnyEntry /\ v[j] \in F /\ j \in Nat
  <2>1. \A j \in DOMAIN v : v[j] \in Entry /\ j \in Nat
    BY <1>2
  <2>2. \A j \in DOMAIN v : v[j] \in F
    BY DEF EntrySet
  <2> QED
    BY <2>1, <2>2, EntryIsAny
<1>4. /\ f \in Entry /\ f \in AnyEntry /\ f.page_num = v[i].page_num
      /\ EndPage(f) = end
      /\ f.prot = v[i].prot /\ f.flags = v[i].flags /\ f.desc = v[i].desc
      /\ f.offset = v[i].offset /\ f.file_size = v[i].file_size
  BY <1>3, GrownEntryIs
<1>5. w = [vmentry |-> u, is_sorted |-> TRUE]
  BY <1>2
<1>6. /\ u \in Seq(Entry) /\ DOMAIN u = DOMAIN v
      /\ \A j \in DOMAIN u : u[j] = IF j = i THEN f ELSE v[j]
  BY <1>2, <1>4
<1>7. /\ first \in Nat /\ v[i].page_num \in Nat /\ v[i].page_num < first
      /\ first <= end /\ TextEnd < first
  BY <1>3, EntryFacts
<1>8. ASSUME NEW j \in DOMAIN v, i < j PROVE end <= v[j].page_num
  <2>1. v \in Seq(AnyEntry)
    BY <1>2, EntryIsAny
  <2> QED
    BY <2>1, <1>8, NextIsAbove
<1>9. Ascending(u)
  <2> SUFFICES ASSUME NEW j \in DOMAIN u, NEW k \in DOMAIN u, j < k
               PROVE  EndPage(u[j]) <= u[k].page_num
    BY DEF Ascending
  <2>1. EndPage(v[j]) <= v[k].page_num
    BY <1>6 DEF Ascending
  <2>2. CASE j = i
    <3>1. u[j] = f /\ u[k] = v[k]
      BY <2>2, <1>6
    <3> QED
      BY <3>1, <2>2, <1>4, <1>6, <1>8
  <2>3. CASE k = i
    <3>1. u[k] = f /\ u[j] = v[j]
      BY <2>3, <1>6
    <3> QED
      BY <3>1, <2>1, <2>3, <1>4
  <2>4. CASE j # i /\ k # i
    BY <2>1, <2>4, <1>6
  <2> QED
    BY <2>2, <2>3, <2>4
<1>10. GoodMap(w)
  <2>1. u \in Seq(AnyEntry)
    BY <1>6, EntryIsAny
  <2>2. Disjoint(u)
    BY <2>1, <1>9, AscendingIsDisjoint
  <2> QED
    BY <2>2, <1>5, <1>6, <1>9 DEF GoodMap
<1>11. \A e : e \in E <=> e = f \/ \E j \in DOMAIN v : j # i /\ e = v[j]
  BY <1>6 DEF EntrySet
<1>12. GoodEntries(E)
  <2>1. /\ \A e \in F : EndPage(e) <= NumPages
        /\ app.prots \subseteq {RW} => v[i].prot = RW
        /\ app.kinds \subseteq {"anon"} => v[i].desc = NoDesc
    BY <1>1, <1>3, <1>7 DEF GoodEntries
  <2>2. ASSUME NEW e \in E, e # f
        PROVE  e \in F
    BY <2>2, <1>3, <1>11
  <2> QED
    BY <2>1, <2>2, <1>1, <1>4 DEF GoodEntries
<1>13. ASSUME NEW p \in AddrSpace
       PROVE  /\ h[p] \in [prot : SUBSET Bits, desc : {NoDesc, File}, offset : Nat]
              /\ g[p] \in [prot : SUBSET Bits, desc : {NoDesc, File}, offset : Nat]
              /\ g[p].desc = h[p].desc
              /\ first <= p /\ p < end => g[p].prot = RW
              /\ p < first \/ end <= p => g[p] = h[p]
              /\ p \in Nat
  <2> PICK x, y : x = h[p] /\ y = g[p]
    OBVIOUS
  <2>1. x \in [prot : SUBSET Bits, desc : {NoDesc, File}, offset : Nat]
    BY <1>1 DEF GoodHost
  <2>2. p \in Nat
    BY Layout DEF AddrSpace
  <2>3. y = IF p \in first .. end - 1 THEN [x EXCEPT !.prot = RW] ELSE x
    BY DEF Grown
  <2>4. p \in first .. end - 1 <=> first <= p /\ p < end
    BY <2>2, <1>7
  <2>5. RW \in SUBSET Bits
    BY DEF RW, Bits
  <2> HIDE DEF RW
  <2> QED
    BY <2>1, <2>2, <2>3, <2>4, <2>5, <1>7
<1>14. GoodHost(g)
  <2>1. g = [p \in AddrSpace |-> g[p]]
    BY DEF Grown
  <2>2. ASSUME NEW p \in 0 .. TextEnd - 1 PROVE g[p] = InitialHost[p]
    <3>1. p \in AddrSpace /\ p < first
      BY <1>7, Layout DEF AddrSpace
    <3> QED
      BY <3>1, <1>1, <1>13 DEF GoodHost
  <2> QED
    BY <2>1, <2>2, <1>13 DEF GoodHost
<1>15. ASSUME Agrees(F, h) PROVE Agrees(E, g)
  <2>1. ASSUME NEW e \in F, NEW p \in Pages(e)
        PROVE  /\ p \in AddrSpace /\ (p < first \/ end <= p)
               /\ g[p] = h[p] /\ PageAgrees(h, e, p)
    <3>1. PICK j \in DOMAIN v : e = v[j]
      BY DEF EntrySet
    <3>2. /\ p \in Int /\ e.page_num <= p /\ p < EndPage(e)
          /\ e.page_num \in Nat /\ EndPage(e) \in Nat
      BY <3>1, <1>3, EntryFacts
    <3>3. EndPage(e) <= NumPages
      BY <1>1 DEF GoodEntries
    <3>4. p \in AddrSpace
      BY <3>2, <3>3, Layout DEF AddrSpace
    <3>5. p < first \/ end <= p
      <4>1. v \in Seq(AnyEntry) /\ p \in Pages(v[j])
        BY <1>2, <3>1, EntryIsAny
      <4> QED
        BY <4>1, GrowthIsFree
    <3> QED
      BY <3>4, <3>5, <1>13, <1>15 DEF Agrees
  <2>2. \A p : p \in Pages(f) <=> p \in Pages(v[i]) \/ p \in first .. end - 1
    <3>1. \A p : p \in Pages(f) <=> p \in Int /\ v[i].page_num <= p /\ p < end
      BY <1>4, EntryFacts
    <3>2. \A p : p \in Pages(v[i]) <=> p \in Int /\ v[i].page_num <= p /\ p < first
      BY <1>3, EntryFacts
    <3> QED
      BY <3>1, <3>2, <1>7
  <2>3. ASSUME NEW p \in first .. end - 1
        PROVE  p \in AddrSpace /\ h[p] = Inaccessible
    <3>1. p \in AddrSpace /\ p \in Nat /\ first <= p /\ p < end
      BY <1>7, Layout DEF AddrSpace
    <3>2. \A e \in F : p \notin Pages(e)
      BY <3>1, <2>1, <1>7
    <3> QED
      BY <3>1, <3>2, <1>15 DEF Agrees
  <2>4. ASSUME NEW e \in E, NEW p \in Pages(e) PROVE PageAgrees(g, e, p)
    <3>1. CASE e # f
      <4>1. e \in F
        BY <3>1, <1>3, <1>11
      <4> QED
        BY <4>1, <2>1 DEF PageAgrees
    <3>2. CASE e = f /\ p \in Pages(v[i])
      <4>1. PageAgrees(h, v[i], p) /\ g[p] = h[p]
        BY <3>2, <2>1, <1>3
      <4> QED
        BY <4>1, <3>2, <1>4 DEF PageAgrees
    <3>3. CASE e = f /\ p \in first .. end - 1
      <4>1. p \in AddrSpace /\ h[p] = Inaccessible /\ first <= p /\ p < end
        BY <3>3, <2>3
      <4>2. g[p].desc = NoDesc /\ g[p].prot = RW
        BY <4>1, <1>13, InaccessibleIs
      <4>3. HeapIsRW => f.prot = RW
        BY <1>1, <1>3, <1>4, <1>7 DEF HeapIsRW, GoodEntries
      <4> QED
        BY <4>2, <4>3, <3>3, Layout DEF PageAgrees
    <3> QED
      BY <3>1, <3>2, <3>3, <2>2
  <2>5. ASSUME NEW p \in AddrSpace, \A e \in E : p \notin Pages(e)
        PROVE  g[p] = Inaccessible
    <3>1. p \notin Pages(f) /\ \A j \in DOMAIN v : j # i => p \notin Pages(v[j])
      BY <2>5, <1>11
    <3>2. p \notin Pages(v[i]) /\ p \notin first .. end - 1
      BY <3>1, <2>2
    <3>3. \A e \in F : p \notin Pages(e)
      BY <3>1, <3>2 DEF EntrySet
    <3>4. h[p] = Inaccessible
      BY <3>3, <1>15 DEF Agrees
    <3>5. p < first \/ end <= p
      BY <3>2, <1>7, <1>13
    <3> QED
      BY <3>4, <3>5, <1>13
  <2> QED
    BY <2>4, <2>5 DEF Agrees
<1>16. EntrySet(w.vmentry) = E
  BY <1>5
<1>17. Floor(E)
  <2>1. PICK o \in F : 0 \in Pages(o)
    BY DEF State, Floor
  <2>2. PICK j \in DOMAIN v : o = v[j]
    BY DEF EntrySet
  <2>3. CASE j # i
    BY <2>1, <2>2, <2>3, <1>11 DEF Floor
  <2>4. CASE j = i
    <3>1. 0 \in Int /\ v[i].page_num <= 0 /\ 0 < first
      BY <2>1, <2>2, <2>4, <1>3, EntryFacts
    <3>2. 0 < end
      BY <3>1, <1>7
    <3>3. 0 \in Pages(f)
      BY <3>1, <3>2, <1>4, EntryFacts
    <3> QED
      BY <3>3, <1>11 DEF Floor
  <2> QED
    BY <2>3, <2>4
<1> QED
  BY <1>1, <1>10, <1>12, <1>14, <1>15, <1>16, <1>17 DEF State

(* Among anonymous pages that are readable and writable, a page that is    *)
(* mapped and not text can be written.                                     *)
LEMMA MappedIsRW ==
    ASSUME NEW m, NEW h, State(m, h), NEW e, e \in EntrySet(m.vmentry),
           app.kinds \subseteq {"anon"}, app.prots \subseteq {RW},
           TextEnd < EndPage(e), NEW p, p \in Pages(e)
    PROVE  h[p].prot = RW
<1>1. Truthful /\ HeapIsRW
  BY DEF Truthful, HeapIsRW
<1>2. PageAgrees(h, e, p) /\ e.desc = NoDesc /\ e.prot = RW
  BY <1>1 DEF State, Agrees, GoodEntries
<1> QED
  BY <1>1, <1>2 DEF PageAgrees

(* A step of brk that sets the break keeps what is left.                   *)
LEMMA BrkKeeps ==
    ASSUME MemInv, UNCHANGED app, calls < app.max_calls, NEW addr \in Nat,
           DataEnd * PageBytes <= addr, addr <= NumPages * PageBytes,
           NEW m, NEW h, State(m, h), BrkTo(addr, m, h),
           aborted' \in {"no", "fault"},
           aborted' = "fault" => ~(app.kinds \subseteq {"anon"} /\ app.prots \subseteq {RW})
    PROVE  MemInv'
<1>1. State(mem_map, host)'
  BY StateStays DEF BrkTo
<1>2. Rest'
  <2>1. AppOK' = AppOK /\ (AppOK => app.max_calls \in Nat)
    BY DEF AppOK
  <2>2. calls \in Nat /\ calls + 1 \in 0 .. app.max_calls
    BY CallsCounted DEF MemInv, Rest
  <2>3. addr \in DataEnd * PageBytes .. NumPages * PageBytes
    <3>1. DataEnd * PageBytes \in Nat /\ NumPages * PageBytes \in Nat
      BY Layout, Units
    <3> QED
      BY <3>1
  <2> QED
    BY <2>1, <2>2, <2>3 DEF MemInv, Rest, BrkTo
<1> QED
  BY <1>1, <1>2 DEF MemInv

LEMMA BrkGrowStep ==
    ASSUME MemInv, UNCHANGED app, calls < app.max_calls, aborted = "no",
           "brk" \in app.calls, NEW addr \in Nat, break_addr < addr,
           (addr \div PageBytes) < NumPages, BrkGrow(addr)
    PROVE  MemInv'
<1> PICK m, v, i, end : /\ m = NaClVmmapMakeSorted(mem_map) /\ v = m.vmentry
                        /\ i = NaClVmmapFindPageIter(mem_map, BreakPage(break_addr))
                        /\ end = BrkEnd(addr)
  OBVIOUS
<1> PICK top, low, from : /\ top = BreakPage(addr) /\ low = BreakPage(break_addr)
                          /\ from = (break_addr \div PageBytes)
  OBVIOUS
<1>1. /\ break_addr \in Nat /\ DataEnd * PageBytes <= break_addr
      /\ DataEnd * PageBytes <= addr /\ addr <= NumPages * PageBytes
  <2>1. DataEnd * PageBytes \in Nat /\ NumPages * PageBytes \in Nat
        /\ NumPages \in Nat
    BY Layout, Units
  <2>2. break_addr \in DataEnd * PageBytes .. NumPages * PageBytes
    BY DEF MemInv, Rest
  <2>3. addr < NumPages * PageBytes
    BY <2>1, PageIs
  <2> QED
    BY <2>1, <2>2, <2>3
<1>2. top \in Nat /\ end \in Nat /\ top < end /\ end <= NumPages
  BY <1>1, BreakIs
<1>3. low \in Nat /\ TextEnd <= low /\ (\A x \in Nat : low < x <=> break_addr <= x * PageBytes)
  BY <1>1, BreakIs
<1>4. from \in Nat /\ low <= from
  <2>1. from \in Nat /\ \A x \in Nat : from < x <=> break_addr < x * PageBytes
    BY <1>1, PageIs
  <2>2. ~(low < low) /\ ~(break_addr <= low * PageBytes)
    BY <1>3
  <2>3. low * PageBytes \in Nat
    BY <1>3, Units
  <2>4. ~(from < low)
    BY <2>1, <2>2, <2>3, <1>1, <1>3
  <2> QED
    BY <2>1, <2>4, <1>3
<1>5. State(m, host) /\ m.is_sorted = TRUE /\ Ascending(v) /\ v \in Seq(AnyEntry)
      /\ v \in Seq(Entry)
  <2>1. State(mem_map, host) /\ GoodMap(mem_map)
    BY DEF MemInv, State
  <2>2. GoodMap(m) /\ m.is_sorted = TRUE /\ Ascending(v)
    BY <2>1, MakeSortedSorts
  <2>3. State(m, host)
    BY <2>1, SortState
  <2> QED
    BY <2>2, <2>3, EntryIsAny DEF GoodMap
<1>6. i \in Nat /\ (i <= Len(v) => i \in DOMAIN v /\ low \in Pages(v[i]))
  BY <1>5, IterIs
<1>7. ASSUME i <= Len(v)
      PROVE  /\ i \in DOMAIN v /\ v[i] \in EntrySet(v)
             /\ v[i].page_num \in Nat /\ EndPage(v[i]) \in Nat
             /\ v[i].page_num <= low /\ low < EndPage(v[i]) /\ TextEnd < EndPage(v[i])
             /\ \A p : p \in Pages(v[i])
                  <=> p \in Int /\ v[i].page_num <= p /\ p < EndPage(v[i])
  <2>1. i \in DOMAIN v /\ low \in Pages(v[i])
    BY <1>6, <1>7
  <2>2. v[i] \in AnyEntry /\ v[i] \in EntrySet(v)
    BY <2>1, <1>5 DEF EntrySet
  <2> QED
    BY <2>1, <2>2, <1>3, EntryFacts, Layout
<1> PICK S : S = from .. top
  OBVIOUS
<1>8. CASE Abort("break")
  BY <1>8, AbortKeeps
<1>9. CASE Refuse
  BY <1>9, RefuseKeeps
<1>10. CASE /\ i <= Len(v) /\ top < EndPage(v[i]) /\ BrkTo(addr, m, host)
            /\ aborted' = Zeroes(host, break_addr, addr)
  <2>1. aborted' \in {"no", "fault"}
        /\ (aborted' = "fault" => \E p \in from .. top : "W" \notin host[p].prot)
    BY <1>10 DEF Zeroes
  <2>2. ASSUME app.kinds \subseteq {"anon"}, app.prots \subseteq {RW},
               NEW p \in from .. top
        PROVE  "W" \in host[p].prot
    <3>1. p \in Pages(v[i])
      BY <1>2, <1>4, <1>7, <1>10, <1>3
    <3>2. host[p].prot = RW
      BY <3>1, <2>2, <1>5, <1>7, <1>10, MappedIsRW
    <3> QED
      BY <3>2 DEF RW
  <2> QED
    BY <2>1, <2>2, <1>1, <1>5, <1>10, BrkKeeps
<1>11. CASE /\ i <= Len(v) /\ ~(top < EndPage(v[i])) /\ ~RunsIntoNext(v, i, end)
            /\ BrkTo(addr, [m EXCEPT !.vmentry[i].npages = end - v[i].page_num],
                     Grown(host, EndPage(v[i]), end))
            /\ aborted' = Zeroes(Grown(host, EndPage(v[i]), end), break_addr, addr)
  <2> PICK w, g, first : /\ first = EndPage(v[i]) /\ g = Grown(host, EndPage(v[i]), end)
                         /\ w = [m EXCEPT !.vmentry[i].npages = end - v[i].page_num]
    OBVIOUS
  <2>1. aborted' \in {"no", "fault"}
        /\ (aborted' = "fault" => \E p \in from .. top : "W" \notin g[p].prot)
    BY <1>11 DEF Zeroes
  <2>2. first \in Nat /\ first <= end
    BY <1>2, <1>7, <1>11
  <2>3. State(w, g)
    BY <2>2, <1>2, <1>5, <1>7, <1>11, GrownState
  <2>4. ASSUME app.kinds \subseteq {"anon"}, app.prots \subseteq {RW},
               NEW p \in from .. top
        PROVE  "W" \in g[p].prot
    <3>1. p \in AddrSpace /\ p \in Nat /\ p < end /\ v[i].page_num <= p
      <4>1. p \in Nat /\ p < end /\ low <= p
        BY <1>2, <1>3, <1>4
      <4>2. v[i].page_num <= p
        BY <4>1, <1>3, <1>7, <1>11
      <4>3. NumPages \in Nat
        BY Layout
      <4> QED
        BY <4>1, <4>2, <4>3, <1>2 DEF AddrSpace
    <3>2. g[p] = IF p \in first .. end - 1 THEN [host[p] EXCEPT !.prot = RW] ELSE host[p]
      BY <3>1 DEF Grown
    <3>3. CASE p \in first .. end - 1
      <4>1. host[p] \in [prot : SUBSET Bits, desc : {NoDesc, File}, offset : Nat]
        BY <3>1, <1>5 DEF State, GoodHost
      <4>2. g[p].prot = RW
        BY <4>1, <3>2, <3>3
      <4> QED
        BY <4>2 DEF RW
    <3>4. CASE p \notin first .. end - 1
      <4>1. p \in Pages(v[i])
        BY <3>1, <3>4, <2>2, <1>2, <1>7, <1>11
      <4>2. host[p].prot = RW
        BY <4>1, <2>4, <1>5, <1>7, <1>11, MappedIsRW
      <4> QED
        BY <4>2, <3>2, <3>4 DEF RW
    <3> QED
      BY <3>3, <3>4
  <2>5. BrkTo(addr, w, g)
    BY <1>11
  <2> QED
    BY <2>1, <2>3, <2>4, <2>5, <1>1, BrkKeeps
<1>12. \/ Abort("break")
       \/ /\ i <= Len(v) /\ top < EndPage(v[i]) /\ BrkTo(addr, m, host)
          /\ aborted' = Zeroes(host, break_addr, addr)
       \/ Refuse
       \/ /\ i <= Len(v) /\ top >= EndPage(v[i]) /\ ~RunsIntoNext(v, i, end)
          /\ BrkTo(addr, [m EXCEPT !.vmentry[i].npages = end - v[i].page_num],
                   Grown(host, EndPage(v[i]), end))
          /\ aborted' = Zeroes(Grown(host, EndPage(v[i]), end), break_addr, addr)
  BY DEF BrkGrow
<1>13. i <= Len(v) /\ top >= EndPage(v[i]) => ~(top < EndPage(v[i]))
  BY <1>2, <1>7
<1> QED
  BY <1>8, <1>9, <1>10, <1>11, <1>12, <1>13

LEMMA BrkStep ==
    ASSUME MemInv, UNCHANGED app, NEW addr \in app.breaks, NaClSysBrk(addr)
    PROVE  MemInv'
<1>1. /\ calls < app.max_calls /\ State(mem_map, host) /\ addr \in Nat
      /\ aborted = "no" /\ "brk" \in app.calls
  BY DEF MemInv, Rest, AppOK, NaClSysBrk, MayCall
<1>2. CASE Refuse
  BY <1>1, <1>2, RefuseKeeps
<1>3. CASE /\ DataEnd * PageBytes <= addr /\ addr <= break_addr
           /\ BrkTo(addr, mem_map, host) /\ UNCHANGED aborted
  <2>1. addr <= NumPages * PageBytes
    <3>1. DataEnd * PageBytes \in Nat /\ NumPages * PageBytes \in Nat
      BY Layout, Units
    <3>2. break_addr \in DataEnd * PageBytes .. NumPages * PageBytes
      BY DEF MemInv, Rest
    <3> QED
      BY <3>1, <3>2, <1>1, <1>3
  <2>2. aborted' = "no"
    BY <1>1, <1>3
  <2> QED
    BY <2>1, <2>2, <1>1, <1>3, BrkKeeps
<1>4. CASE break_addr < addr /\ (addr \div PageBytes) < NumPages /\ BrkGrow(addr)
  BY <1>1, <1>4, BrkGrowStep
<1> QED
  BY <1>2, <1>3, <1>4 DEF NaClSysBrk

-----------------------------------------------------------------------------
(***************************************************************************)
(* Every step of a behaviour.                                              *)
(***************************************************************************)
LEMMA IoStep ==
    ASSUME MemInv, UNCHANGED app, NEW t \in Threads, NEW x,
           x = NoIo \/ x \in AddrSpace \X AddrSpace,
           io' = [io EXCEPT ![t] = x],
           UNCHANGED <<mem_map, host, break_addr, aborted, calls>>
    PROVE  MemInv'
<1>1. State(mem_map, host)'
  BY StateStays DEF MemInv
<1>2. io' \in [Threads -> {NoIo} \cup AddrSpace \X AddrSpace]
  BY DEF MemInv, Rest
<1>3. AppOK' = AppOK
  BY DEF AppOK
<1> QED
  BY <1>1, <1>2, <1>3 DEF MemInv, Rest

LEMMA InvStays ==
    ASSUME MemInv, UNCHANGED vars
    PROVE  MemInv'
<1>1. State(mem_map, host)'
  BY StateStays DEF MemInv, vars
<1>2. AppOK' = AppOK
  BY DEF AppOK, vars
<1> QED
  BY <1>1, <1>2 DEF MemInv, Rest, vars

LEMMA InvInit == Init => MemInv
<1> SUFFICES ASSUME Init PROVE MemInv
  OBVIOUS
<1>1. AppOK /\ State(mem_map, host)
  BY InitialState DEF Init
<1>2. break_addr \in DataEnd * PageBytes .. NumPages * PageBytes
  <2>1. DataEnd * PageBytes <= NumPages * PageBytes
    BY Layout, Units
  <2>2. DataEnd * PageBytes \in Nat /\ NumPages * PageBytes \in Nat
    BY Layout, Units
  <2> QED
    BY <2>1, <2>2 DEF Init
<1>3. calls \in 0 .. app.max_calls
  BY <1>1 DEF Init, AppOK
<1> QED
  BY <1>1, <1>2, <1>3 DEF Init, MemInv, Rest

LEMMA InvNext == MemInv /\ Next => MemInv'
<1> SUFFICES ASSUME MemInv, Next PROVE MemInv'
  OBVIOUS
<1>1. UNCHANGED app
  BY DEF Next
<1>2. CASE \E c \in MmapCall : NaClSysMmap(c)
  BY <1>1, <1>2, MmapStep
<1>3. CASE \E start \in app.starts, npages \in app.lengths : NaClSysMunmap(start, npages)
  BY <1>1, <1>3, MunmapStep
<1>4. CASE \E start \in app.starts, npages \in app.lengths, prot \in app.prots :
             NaClSysMprotect(start, npages, prot)
  BY <1>1, <1>4, MprotectStep
<1>5. CASE \E addr \in app.breaks : NaClSysBrk(addr)
  BY <1>1, <1>5, BrkStep
<1>6. CASE \E t \in Threads, first \in app.starts, npages \in app.lengths :
             NaClVmIoWillStart(t, first, npages)
  <2>1. PICK t \in Threads, first \in app.starts, npages \in app.lengths :
             NaClVmIoWillStart(t, first, npages)
    BY <1>6
  <2>2. first \in Nat /\ npages \in Nat
    BY DEF MemInv, Rest, AppOK
  <2>3. first \in AddrSpace /\ first + npages - 1 \in AddrSpace
    BY <2>1, <2>2, Layout DEF NaClVmIoWillStart, InUserRange, AddrSpace
  <2> PICK x : x = <<first, first + npages - 1>>
    OBVIOUS
  <2>4. x \in AddrSpace \X AddrSpace
    BY <2>3
  <2>5. io' = [io EXCEPT ![t] = x]
        /\ UNCHANGED <<mem_map, host, break_addr, aborted, calls>>
    BY <2>1 DEF NaClVmIoWillStart
  <2> QED
    BY <2>4, <2>5, <1>1, IoStep
<1>7. CASE \E t \in Threads : NaClVmIoHasEnded(t)
  <2>1. PICK t \in Threads : NaClVmIoHasEnded(t)
    BY <1>7
  <2>2. io' = [io EXCEPT ![t] = NoIo]
        /\ UNCHANGED <<mem_map, host, break_addr, aborted, calls>>
    BY <2>1 DEF NaClVmIoHasEnded
  <2> QED
    BY <2>2, <1>1, IoStep
<1> QED
  BY <1>2, <1>3, <1>4, <1>5, <1>6, <1>7 DEF Next

(* What the invariant says: the property that the runs check.              *)
LEMMA InvCorrect == MemInv => MapAgreesWithHost
<1> SUFFICES ASSUME MemInv PROVE MapAgreesWithHost
  OBVIOUS
<1> PICK v, E : v = mem_map.vmentry /\ E = EntrySet(mem_map.vmentry)
  OBVIOUS
<1>1. /\ GoodMap(mem_map) /\ GoodEntries(E) /\ GoodHost(host)
      /\ Truthful => Agrees(E, host)
      /\ Rest
  BY DEF MemInv, State
<1>2. \A i \in DOMAIN v : v[i] \in Entry /\ v[i] \in AnyEntry /\ v[i] \in E
  <2>1. v \in Seq(Entry)
    BY <1>1 DEF GoodMap
  <2> QED
    BY <2>1, EntryIsAny DEF EntrySet
<1>3. TypeOK
  <2>1. ASSUME NEW i \in DOMAIN v PROVE v[i] \in EntryType
    <3> PICK e : e = v[i]
      OBVIOUS
    <3>1. e \in Entry /\ EndPage(e) <= NumPages
      BY <1>1, <1>2 DEF GoodEntries
    <3>2. e.page_num \in AddrSpace /\ e.npages \in 1 .. NumPages
      <4>1. /\ e.page_num \in Nat /\ e.npages \in Nat /\ e.npages >= 1
            /\ e.page_num + e.npages <= NumPages /\ NumPages \in Nat
        BY <3>1, EntryIsAny, EntryFacts, Layout
      <4> QED
        BY <4>1 DEF AddrSpace
    <3>3. e.removed \in {FALSE}
      BY <3>1 DEF Entry, AnyEntry
    <3> QED
      BY <3>1, <3>2, <3>3 DEF EntryType, Entry, AnyEntry
  <2>2. mem_map.is_sorted \in BOOLEAN
    BY <1>1 DEF GoodMap
  <2>3. \A p \in AddrSpace : host[p].prot \subseteq Bits /\ host[p].desc \in {NoDesc, File}
    <3>1. \A p \in AddrSpace :
            host[p] \in [prot : SUBSET Bits, desc : {NoDesc, File}, offset : Nat]
      BY <1>1 DEF GoodHost
    <3> QED
      BY <3>1
  <2>4. \A t \in Threads : io[t] = NoIo \/ io[t] \in AddrSpace \X AddrSpace
    BY <1>1 DEF Rest
  <2> QED
    BY <2>1, <2>2, <2>3, <2>4, <1>1 DEF TypeOK, Rest
<1>4. NoOverlap
  BY <1>1, EntryOfIs DEF NoOverlap
<1>5. TextIntact
  BY <1>1 DEF GoodHost, TextIntact
<1>6. ASSUME Truthful, NEW p \in AddrSpace
      PROVE  /\ Covered(mem_map, p) => PageAgrees(host, EntryOf(mem_map, p), p)
             /\ ~Covered(mem_map, p) => host[p] = Inaccessible
  <2>1. Covered(mem_map, p) => EntryOf(mem_map, p) \in E /\ p \in Pages(EntryOf(mem_map, p))
    BY <1>1, EntryOfIs
  <2>2. ~Covered(mem_map, p) => \A e \in E : p \notin Pages(e)
    BY <1>1, EntryOfIs
  <2> QED
    BY <2>1, <2>2, <1>1, <1>6 DEF Agrees
<1>7. "tail" \notin app.failures => SharedWithinMode
  BY <1>6 DEF SharedWithinMode, PageAgrees, Truthful
<1>8. ASSUME "tail" \notin app.failures, HeapIsRW PROVE HostAgrees
  <2>1. ASSUME NEW p \in AddrSpace, Covered(mem_map, p), NEW e, e = EntryOf(mem_map, p)
        PROVE  \/ host[p].desc = e.desc /\ host[p].prot = e.prot
               \/ e.desc = File /\ host[p].desc = NoDesc
    <3>1. PageAgrees(host, e, p)
      BY <2>1, <1>6, <1>8 DEF Truthful
    <3>2. e.desc \in {NoDesc, File}
      <4>1. e \in E
        BY <1>1, <2>1, EntryOfIs
      <4>2. e \in AnyEntry
        BY <4>1, <1>2 DEF EntrySet
      <4> QED
        BY <4>2, EntryFacts
    <3> QED
      BY <3>1, <3>2, <1>8 DEF PageAgrees
  <2>2. ASSUME NEW p \in AddrSpace, ~Covered(mem_map, p) PROVE host[p] = Inaccessible
    BY <2>2, <1>6, <1>8 DEF Truthful
  <2> QED
    BY <2>1, <2>2 DEF HostAgrees
<1>9. /\ 0 \notin app.lengths => ChecksHold
      /\ app.kinds \subseteq {"anon"} /\ app.prots \subseteq {RW} => BrkZeroesWritable
  BY <1>1 DEF Rest, ChecksHold, BrkZeroesWritable
<1> QED
  BY <1>3, <1>4, <1>5, <1>7, <1>8, <1>9 DEF MapAgreesWithHost, HeapIsRW

(* The inductive invariant holds in every behaviour and for every layout,  *)
(* application and number of threads (sel_mem.c, sys_memory.c): whatever   *)
(* mmap, munmap, mprotect and brk split, cut, cover or grow, the entries   *)
(* stay apart and well-formed and the host's pages follow them.            *)
THEOREM MapAlwaysAgrees == Spec => []MemInv
<1>1. Init => MemInv
  BY InvInit
<1>2. MemInv /\ [Next]_vars => MemInv'
  BY InvNext, InvStays
<1> QED
  BY <1>1, <1>2, PTL DEF Spec

(* So it does where the descriptors and the dynamic regions are served     *)
(* beside the memory calls.                                                *)
LEMMA InvInMemory == MemorySpec => []MemInv
<1>1. MemoryInit => MemInv
  BY InvInit DEF MemoryInit
<1>2. MemInv /\ [MemoryNext]_memoryVars => MemInv'
  BY InvNext, InvStays DEF MemoryNext, memoryVars
<1> QED
  BY <1>1, <1>2, PTL DEF MemorySpec

(* The memory map and the host's pages agree (sel_mem.c, sys_memory.c):    *)
(* entries do not overlap, text and zero pages are as the loader left      *)
(* them, a shared page has no access that its descriptor was not opened    *)
(* for, a page outside every entry is inaccessible, the CHECKs of          *)
(* MprotectInternal hold and the memset of NaClSysBrk does not fault,      *)
(* under the conditions that MapAgreesWithHost names.                      *)
THEOREM MapAgreesInMemory == MemorySpec => []MapAgreesWithHost
<1>1. MemInv => MapAgreesWithHost
  BY InvCorrect
<1> QED
  BY <1>1, InvInMemory, PTL

-----------------------------------------------------------------------------
(***************************************************************************)
(* The searches: they miss nothing.  A free run of pages that starts with  *)
(* a unit lies in one of the gaps that the searches look at.               *)
(***************************************************************************)
InGap(v, i, p, n) == GapEnd(v, i) <= p /\ p + n <= GapStart(v, i)

Clear(v, p, n) ==
    /\ \A j \in DOMAIN v : \A q \in Pages(v[j]) : q < p \/ p + n <= q
    /\ \E j \in DOMAIN v : \E q \in Pages(v[j]) : p <= q

LEMMA UnitBelow ==
    ASSUME NEW y, y \in Nat, Unit(y), NEW x, x \in Nat, y <= x
    PROVE  y <= NaClTruncPageNumDownToMapMultiple(x)
<1>1. PICK k : k \in Nat /\ y = k * MapPages
  BY DEF Unit
<1> PICK q, r : q = (x \div MapPages) /\ r = (x % MapPages)
  OBVIOUS
<1>2. q \in Nat /\ r \in 0 .. MapPages - 1 /\ x = (MapPages * q) + r
  BY Units
<1>3. k <= q
  <2> SUFFICES ASSUME q + 1 <= k PROVE FALSE
    BY <1>1, <1>2
  <2>1. (q + 1) * MapPages <= k * MapPages
        /\ (q + 1) * MapPages = (MapPages * q) + MapPages
    BY <1>1, <1>2, Units
  <2> QED
    BY <2>1, <1>1, <1>2, Units
<1>4. k * MapPages <= q * MapPages /\ q * MapPages = MapPages * q
  BY <1>1, <1>2, <1>3, Units
<1>5. NaClTruncPageNumDownToMapMultiple(x) = MapPages * q
  <2>1. NaClTruncPageNumDownToMapMultiple(x) = x - r
    BY DEF NaClTruncPageNumDownToMapMultiple
  <2>2. MapPages * q \in Int
    BY <1>2, Units
  <2> QED
    BY <2>1, <2>2, <1>2
<1> QED
  BY <1>1, <1>4, <1>5

LEMMA RunInGap ==
    ASSUME NEW v, v \in Seq(AnyEntry), Ascending(v),
           \E j \in DOMAIN v : 0 \in Pages(v[j]),
           NEW p, p \in Nat, p # 0, Unit(p), NEW n, n \in Nat, n >= 1, Unit(p + n),
           Clear(v, p, n)
    PROVE  \E i \in 2 .. Len(v) : InGap(v, i, p, n)
<1>1. /\ Len(v) \in Nat /\ DOMAIN v = 1 .. Len(v)
      /\ \A j \in DOMAIN v : v[j] \in AnyEntry
  OBVIOUS
<1>2. ASSUME NEW j \in DOMAIN v
      PROVE  /\ v[j].page_num \in Nat /\ EndPage(v[j]) \in Nat
             /\ EndPage(v[j]) <= p \/ p + n <= v[j].page_num
  <2> PICK x, y : x = v[j].page_num /\ y = EndPage(v[j])
    OBVIOUS
  <2>1. /\ x \in Nat /\ y \in Nat /\ x < y
        /\ \A q : q \in Pages(v[j]) <=> q \in Int /\ x <= q /\ q < y
    BY <1>1, EntryFacts
  <2>2. p \notin Pages(v[j])
    BY DEF Clear
  <2>3. x < p \/ p + n <= x
    <3>1. x \in Pages(v[j])
      BY <2>1
    <3> QED
      BY <3>1 DEF Clear
  <2> QED
    BY <2>1, <2>2, <2>3
<1> DEFINE J == {j \in DOMAIN v : p + n <= v[j].page_num}
<1>3. J \in SUBSET Nat /\ J # {}
  <2>1. PICK j \in DOMAIN v : \E q \in Pages(v[j]) : p <= q
    BY DEF Clear
  <2>2. p < EndPage(v[j])
    <3>1. PICK q \in Pages(v[j]) : p <= q
      BY <2>1
    <3>2. q \in Int /\ q < EndPage(v[j])
      BY <1>1, EntryFacts
    <3> QED
      BY <3>1, <3>2, <1>2
  <2>3. j \in J
    BY <2>2, <1>2
  <2> QED
    BY <2>3
<1>4. PICK i \in J : \A j \in J : i <= j
  BY <1>3, LeastExists
<1>5. i \in DOMAIN v /\ p + n <= v[i].page_num
  BY <1>4
<1>6. i # 1
  <2>1. PICK j \in DOMAIN v : 0 \in Pages(v[j])
    OBVIOUS
  <2>2. v[j].page_num = 0
    <3>1. v[j].page_num <= 0
      BY <1>1, <2>1, EntryFacts
    <3> QED
      BY <3>1, <1>2
  <2>3. ASSUME i = 1 PROVE FALSE
    <3>1. j # 1
      BY <2>2, <2>3, <1>5
    <3>2. EndPage(v[1]) <= v[j].page_num
      BY <3>1, <2>3, <1>1, <1>5 DEF Ascending
    <3>3. v[1].page_num < EndPage(v[1])
      BY <2>3, <1>1, <1>5, EntryFacts
    <3> QED
      BY <3>2, <3>3, <2>2, <2>3, <1>2, <1>5
  <2> QED
    BY <2>3
<1>7. i - 1 \in DOMAIN v /\ i \in 2 .. Len(v) /\ i - 1 \notin J
  BY <1>1, <1>4, <1>5, <1>6
<1>8. EndPage(v[i - 1]) <= p
  BY <1>2, <1>7
<1>9. GapEnd(v, i) <= p
  <2>1. PICK k : k \in Nat /\ p = k * MapPages
    BY DEF Unit
  <2> PICK x : x = EndPage(v[i - 1])
    OBVIOUS
  <2>2. x \in Nat /\ x <= k * MapPages
    BY <1>2, <1>7, <1>8, <2>1
  <2> QED
    BY <2>1, <2>2, RoundIs DEF GapEnd
<1>10. p + n <= GapStart(v, i)
  <2> PICK x, y : x = v[i].page_num /\ y = p + n
    OBVIOUS
  <2>1. x \in Nat /\ y \in Nat /\ y <= x /\ Unit(y)
    BY <1>2, <1>5
  <2> QED
    BY <2>1, UnitBelow DEF GapStart
<1> QED
  BY <1>7, <1>9, <1>10 DEF InGap

(* What lies in a gap is free, and above page 0.                           *)
LEMMA GapIsFree ==
    ASSUME NEW v, v \in Seq(AnyEntry), Ascending(v), NEW i, i \in 2 .. Len(v),
           NEW p, p \in Nat, NEW n, n \in Nat, n >= 1, InGap(v, i, p, n)
    PROVE  Clear(v, p, n) /\ p # 0 /\ p <= v[i].page_num
<1> PICK a, b : a = GapEnd(v, i) /\ b = GapStart(v, i)
  OBVIOUS
<1>1. /\ a \in Nat /\ b \in Nat
      /\ \A j \in DOMAIN v : \A q \in Pages(v[j]) : q < a \/ b <= q
  BY GapIs
<1>2. a <= p /\ p + n <= b
  BY DEF InGap
<1>3. i - 1 \in DOMAIN v /\ i \in DOMAIN v /\ \A j \in DOMAIN v : v[j] \in AnyEntry
  OBVIOUS
<1>4. ASSUME NEW j \in DOMAIN v, NEW q \in Pages(v[j]) PROVE q < p \/ p + n <= q
  <2>1. q \in Int /\ (q < a \/ b <= q)
    BY <1>1, <1>3, EntryFacts
  <2> QED
    BY <2>1, <1>1, <1>2
<1>5. p <= v[i].page_num /\ v[i].page_num \in Pages(v[i])
  <2> PICK x : x = v[i].page_num
    OBVIOUS
  <2>1. x \in Nat /\ x \in Pages(v[i])
    BY <1>3, EntryFacts
  <2>2. b <= x
    BY <2>1, TruncIs DEF GapStart
  <2> QED
    BY <2>1, <2>2, <1>1, <1>2
<1>6. p # 0
  <2> PICK x : x = EndPage(v[i - 1])
    OBVIOUS
  <2>1. x \in Nat /\ 0 < x
    BY <1>3, EntryFacts
  <2>2. x <= a
    BY <2>1, RoundIs DEF GapEnd
  <2> QED
    BY <2>1, <2>2, <1>1, <1>2
<1> QED
  BY <1>3, <1>4, <1>5, <1>6 DEF Clear

(* Gaps come in the order of the array.                                    *)
LEMMA GapsAscend ==
    ASSUME NEW v, v \in Seq(AnyEntry), Ascending(v),
           NEW i, i \in 2 .. Len(v), NEW j, j \in 2 .. Len(v), i < j
    PROVE  GapStart(v, i) <= GapEnd(v, j)
<1>1. /\ i \in DOMAIN v /\ j - 1 \in DOMAIN v /\ i <= j - 1 /\ i \in Nat /\ j \in Nat
      /\ \A k \in DOMAIN v : v[k] \in AnyEntry
  OBVIOUS
<1> PICK x, y, z : x = v[i].page_num /\ y = EndPage(v[i]) /\ z = EndPage(v[j - 1])
  OBVIOUS
<1>2. x \in Nat /\ y \in Nat /\ z \in Nat /\ x < y
  BY <1>1, EntryFacts
<1>3. y <= z
  <2>1. CASE i = j - 1
    BY <2>1, <1>2
  <2>2. CASE i < j - 1
    <3>1. y <= v[j - 1].page_num
      BY <2>2, <1>1 DEF Ascending
    <3>2. v[j - 1].page_num < z /\ v[j - 1].page_num \in Nat
      BY <1>1, EntryFacts
    <3> QED
      BY <3>1, <3>2, <1>2
  <2> QED
    BY <2>1, <2>2, <1>1
<1>4. GapStart(v, i) <= x /\ z <= GapEnd(v, j)
  BY <1>2, TruncIs, RoundIs DEF GapStart, GapEnd
<1>5. GapStart(v, i) \in Nat /\ GapEnd(v, j) \in Nat
  BY GapIs
<1> QED
  BY <1>2, <1>3, <1>4, <1>5

(* The search from the top down: 0 when no gap has room, and otherwise a   *)
(* gap with room that is above all others.                                 *)
LEMMA HighestIs ==
    ASSUME NEW v, v \in Seq(AnyEntry), Ascending(v), NEW n, n \in Nat, n >= 1, Unit(n),
           NEW r, r = HighestFit(v, n)
    PROVE  /\ r # 0 => \E i \in 2 .. Len(v) : InGap(v, i, r, n)
           /\ \A j \in 2 .. Len(v) : \A p \in Nat : InGap(v, j, p, n) => p <= r
<1> DEFINE fits == {i \in 2..Len(v) : /\ GapStart(v, i) > GapEnd(v, i)
                                      /\ GapStart(v, i) - GapEnd(v, i) >= n}
<1>1. ASSUME NEW j \in 2 .. Len(v)
      PROVE  GapStart(v, j) \in Nat /\ GapEnd(v, j) \in Nat
  BY GapIs
<1>2. ASSUME NEW j \in 2 .. Len(v), NEW p \in Nat, InGap(v, j, p, n)
      PROVE  j \in fits
  <2> PICK a, b : a = GapEnd(v, j) /\ b = GapStart(v, j)
    OBVIOUS
  <2>1. a \in Nat /\ b \in Nat /\ a <= p /\ p + n <= b
    BY <1>1, <1>2 DEF InGap
  <2>2. b > a /\ b - a >= n
    BY <2>1
  <2> QED
    BY <2>2
<1>3. CASE fits = {}
  <2>1. r = 0
    BY <1>3 DEF HighestFit
  <2> QED
    BY <2>1, <1>2, <1>3
<1>4. CASE fits # {}
  <2>1. PICK i : i \in fits /\ r = GapStart(v, i) - n /\ \A y \in fits : y <= i
    <3>1. fits \in SUBSET Nat /\ Len(v) \in Nat /\ \A x \in fits : x <= Len(v)
      OBVIOUS
    <3>2. PICK x \in fits : \A y \in fits : y <= x
      BY <1>4, <3>1, GreatestExists
    <3>3. Max(fits) = x
      <4>1. x \in fits /\ \A y \in fits : y \in Int /\ y <= x
        BY <3>1, <3>2
      <4> HIDE DEF fits
      <4> QED
        BY <4>1, MaxIs
    <3> QED
      BY <1>4, <3>2, <3>3 DEF HighestFit
  <2> PICK a, b : a = GapEnd(v, i) /\ b = GapStart(v, i)
    OBVIOUS
  <2>2. a \in Nat /\ b \in Nat /\ b - a >= n /\ r = b - n /\ i \in 2 .. Len(v)
    BY <1>1, <2>1
  <2>3. InGap(v, i, r, n)
    <3>1. a <= r /\ r + n <= b
      BY <2>2
    <3> QED
      BY <3>1 DEF InGap
  <2>4. ASSUME NEW j \in 2 .. Len(v), NEW p \in Nat, InGap(v, j, p, n) PROVE p <= r
    <3> PICK c, d : c = GapEnd(v, j) /\ d = GapStart(v, j)
      OBVIOUS
    <3>1. c \in Nat /\ d \in Nat /\ p + n <= d
      BY <1>1, <2>4 DEF InGap
    <3>2. j \in fits /\ j <= i
      <4>1. j \in fits
        BY <1>2, <2>4
      <4> HIDE DEF fits
      <4> QED
        BY <4>1, <2>1
    <3>3. d <= b
      <4>1. CASE j = i
        BY <4>1, <3>1
      <4>2. CASE j < i
        <5>1. d <= a
          BY <4>2, <2>2, GapsAscend
        <5> QED
          BY <5>1, <2>2, <3>1
      <4> QED
        BY <4>1, <4>2, <3>2, <2>2
    <3> QED
      BY <3>1, <3>3, <2>2
  <2> QED
    BY <2>2, <2>3, <2>4
<1> QED
  BY <1>3, <1>4

(* The search from u up: 0 when no gap has room at or above u, and         *)
(* otherwise the lowest place that has.                                    *)
LEMMA LowestIs ==
    ASSUME NEW v, v \in Seq(AnyEntry), Ascending(v), NEW n, n \in Nat, n >= 1, Unit(n),
           NEW u, u \in Nat, NEW r, r = LowestFit(v, u, n)
    PROVE  /\ r # 0 => u <= r /\ \E i \in 2 .. Len(v) : InGap(v, i, r, n)
           /\ \A j \in 2 .. Len(v) : \A p \in Nat :
                InGap(v, j, p, n) /\ u <= p => r # 0 /\ r <= p
<1> DEFINE at(i) == IF GapEnd(v, i) <= u /\ u < GapStart(v, i)
                    THEN u ELSE GapEnd(v, i)
           fits == {i \in 2..Len(v) : /\ GapStart(v, i) > GapEnd(v, i)
                                      /\ u <= at(i)
                                      /\ GapStart(v, i) - at(i) >= n}
<1>1. ASSUME NEW j \in 2 .. Len(v)
      PROVE  GapStart(v, j) \in Nat /\ GapEnd(v, j) \in Nat
  BY GapIs
<1>2. ASSUME NEW j \in 2 .. Len(v), NEW p \in Nat, InGap(v, j, p, n), u <= p
      PROVE  j \in fits /\ at(j) <= p
  <2> PICK a, b, c : a = GapEnd(v, j) /\ b = GapStart(v, j) /\ c = at(j)
    OBVIOUS
  <2>1. a \in Nat /\ b \in Nat /\ a <= p /\ p + n <= b
    BY <1>1, <1>2 DEF InGap
  <2>2. c = IF a <= u /\ u < b THEN u ELSE a
    OBVIOUS
  <2>3. b > a /\ u <= c /\ b - c >= n /\ c <= p
    BY <2>1, <2>2, <1>2
  <2> QED
    BY <2>3
<1>3. CASE fits = {}
  <2>1. r = 0
    BY <1>3 DEF LowestFit
  <2> QED
    BY <2>1, <1>2, <1>3
<1>4. CASE fits # {}
  <2>1. PICK i : i \in fits /\ r = at(i) /\ \A y \in fits : i <= y
    <3>1. fits \in SUBSET Nat
      OBVIOUS
    <3>2. PICK x \in fits : \A y \in fits : x <= y
      BY <1>4, <3>1, LeastExists
    <3>3. Min(fits) = x
      <4>1. x \in fits /\ \A y \in fits : y \in Int /\ x <= y
        BY <3>1, <3>2
      <4> HIDE DEF fits
      <4> QED
        BY <4>1, MinIs
    <3> QED
      BY <1>4, <3>2, <3>3 DEF LowestFit
  <2> PICK a, b : a = GapEnd(v, i) /\ b = GapStart(v, i)
    OBVIOUS
  <2>2. /\ a \in Nat /\ b \in Nat /\ b - r >= n /\ u <= r /\ i \in 2 .. Len(v)
        /\ r = IF a <= u /\ u < b THEN u ELSE a
    BY <1>1, <2>1
  <2>3. r \in Nat /\ a <= r /\ r + n <= b
    BY <2>2
  <2>4. InGap(v, i, r, n)
    BY <2>3 DEF InGap
  <2>5. r # 0
    BY <2>2, <2>3, <2>4, GapIsFree
  <2>6. ASSUME NEW j \in 2 .. Len(v), NEW p \in Nat, InGap(v, j, p, n), u <= p
        PROVE  r <= p
    <3>1. j \in fits /\ at(j) <= p
      BY <1>2, <2>6
    <3>2. i <= j
      <4> HIDE DEF fits, at
      <4> QED
        BY <3>1, <2>1
    <3>3. CASE i = j
      BY <3>1, <3>3, <2>1
    <3>4. CASE i < j
      <4> PICK c : c = GapEnd(v, j)
        OBVIOUS
      <4>1. c \in Nat /\ c <= p
        BY <1>1, <2>6 DEF InGap
      <4>2. b <= c
        BY <3>4, <2>2, GapsAscend
      <4> QED
        BY <4>1, <4>2, <2>2, <2>3
    <3> QED
      BY <3>2, <3>3, <3>4, <2>2
  <2> QED
    BY <2>2, <2>4, <2>5, <2>6
<1> QED
  BY <1>3, <1>4

(* The free runs of n pages are the units that lie in a gap.               *)
LEMMA FreeRunsAre ==
    ASSUME MemInv, NEW v, v = NaClVmmapMakeSorted(mem_map).vmentry,
           NEW k, k \in 1 .. NumPages, NEW n, n = Rounded(k)
    PROVE  /\ v \in Seq(AnyEntry) /\ Ascending(v)
           /\ n \in Nat /\ n >= 1 /\ Unit(n)
           /\ \A p : p \in FreeRuns(k) <=>
                /\ p \in Nat /\ Unit(p)
                /\ \E i \in 2 .. Len(v) : InGap(v, i, p, n)
<1>1. GoodMap(mem_map) /\ GoodEntries(EntrySet(mem_map.vmentry))
      /\ Floor(EntrySet(mem_map.vmentry))
  BY DEF MemInv, State
<1>2. /\ v \in Seq(AnyEntry) /\ Ascending(v)
      /\ EntrySet(v) = EntrySet(mem_map.vmentry)
  <2> PICK s : s = NaClVmmapMakeSorted(mem_map)
    OBVIOUS
  <2>1. /\ GoodMap(s) /\ Ascending(s.vmentry)
        /\ EntrySet(s.vmentry) = EntrySet(mem_map.vmentry)
    BY <1>1, MakeSortedSorts
  <2>2. v \in Seq(Entry)
    BY <2>1 DEF GoodMap
  <2> QED
    BY <2>1, <2>2, EntryIsAny
<1>3. n \in Nat /\ n >= 1 /\ Unit(n)
  <2>1. k \in Nat /\ k >= 1 /\ NumPages \in Nat
    BY Layout
  <2>2. n \in Nat /\ k <= n /\ Unit(n)
    BY <2>1, RoundIs, RoundIsUnit DEF Rounded
  <2> QED
    BY <2>1, <2>2
<1>4. ASSUME NEW p
      PROVE  Covered(mem_map, p) <=> \E j \in DOMAIN v : p \in Pages(v[j])
  <2>1. Covered(mem_map, p) <=> \E e \in EntrySet(v) : p \in Pages(e)
    BY <1>1, <1>2, EntryOfIs
  <2> QED
    BY <2>1 DEF EntrySet
<1>5. \E j \in DOMAIN v : 0 \in Pages(v[j])
  BY <1>1, <1>2 DEF Floor, EntrySet
<1>6. \A j \in DOMAIN v : EndPage(v[j]) <= NumPages /\ v[j] \in AnyEntry
  BY <1>1, <1>2 DEF GoodEntries, EntrySet
<1>7. ASSUME NEW p \in FreeRuns(k)
      PROVE  p \in Nat /\ Unit(p) /\ \E i \in 2 .. Len(v) : InGap(v, i, p, n)
  <2>1. /\ p \in AddrSpace /\ (p % MapPages) = 0
        /\ \A q \in Region(p, n) : ~Covered(mem_map, q)
        /\ \E q \in p .. NumPages - 1 : Covered(mem_map, q)
    BY DEF FreeRuns
  <2>2. p \in Nat /\ NumPages \in Nat
    BY <2>1, Layout DEF AddrSpace
  <2>3. Unit(p)
    BY <2>1, <2>2, UnitIs
  <2>4. ASSUME NEW j \in DOMAIN v, NEW q \in Pages(v[j]) PROVE q < p \/ p + n <= q
    <3>1. q \in Int
      BY <1>6, EntryFacts
    <3>2. q \notin Region(p, n)
      BY <1>4, <2>1
    <3> QED
      BY <3>1, <3>2, <2>2, <1>3 DEF Region
  <2>5. Clear(v, p, n)
    <3>1. PICK q \in p .. NumPages - 1 : Covered(mem_map, q)
      BY <2>1
    <3>2. p <= q
      BY <2>2
    <3>3. PICK j \in DOMAIN v : q \in Pages(v[j])
      BY <1>4, <3>1
    <3> QED
      BY <2>4, <3>2, <3>3 DEF Clear
  <2>6. p # 0
    <3>1. PICK j \in DOMAIN v : 0 \in Pages(v[j])
      BY <1>5
    <3>2. 0 < p \/ p + n <= 0
      BY <3>1, <2>4
    <3> QED
      BY <3>2, <2>2, <1>3
  <2>7. Unit(p + n)
    <3>1. PICK a, b : a \in Nat /\ b \in Nat /\ p = a * MapPages /\ n = b * MapPages
      BY <2>3, <1>3 DEF Unit
    <3>2. (a + b) * MapPages = a * MapPages + b * MapPages
      BY <3>1, Units
    <3>3. a + b \in Nat /\ p + n = (a + b) * MapPages
      BY <3>1, <3>2
    <3> QED
      BY <3>3 DEF Unit
  <2> QED
    BY <2>2, <2>3, <2>5, <2>6, <2>7, <1>2, <1>3, <1>5, RunInGap
<1>8. ASSUME NEW p, p \in Nat, Unit(p), NEW i \in 2 .. Len(v), InGap(v, i, p, n)
      PROVE  p \in FreeRuns(k)
  <2>1. Clear(v, p, n) /\ p <= v[i].page_num
    BY <1>2, <1>3, <1>8, GapIsFree
  <2> PICK x : x = v[i].page_num
    OBVIOUS
  <2>2. x \in Nat /\ x < NumPages /\ x \in Pages(v[i]) /\ i \in DOMAIN v /\ NumPages \in Nat
    <3>1. i \in DOMAIN v
      OBVIOUS
    <3>2. x \in Nat /\ x < EndPage(v[i]) /\ EndPage(v[i]) \in Nat /\ x \in Pages(v[i])
      BY <3>1, <1>6, EntryFacts
    <3> QED
      BY <3>1, <3>2, <1>6, Layout
  <2>3. Covered(mem_map, x) /\ x \in p .. NumPages - 1
    BY <1>4, <2>1, <2>2, <1>8
  <2>4. p + n <= x
    BY <2>1, <2>2, <1>3, <1>8 DEF Clear
  <2>5. ASSUME NEW q \in Region(p, n) PROVE q \in AddrSpace /\ ~Covered(mem_map, q)
    <3>1. q \in Int /\ p <= q /\ q < p + n
      BY <1>3, <1>8 DEF Region
    <3>2. q \in AddrSpace
      BY <3>1, <2>2, <2>4, <1>3, <1>8 DEF AddrSpace
    <3>3. ASSUME NEW j \in DOMAIN v, q \in Pages(v[j]) PROVE FALSE
      <4>1. q < p \/ p + n <= q
        BY <2>1, <3>3 DEF Clear
      <4> QED
        BY <4>1, <3>1, <1>3, <1>8
    <3> QED
      BY <3>2, <3>3, <1>4
  <2>6. p \in AddrSpace /\ (p % MapPages) = 0
    BY <2>1, <2>2, <1>8, UnitIs DEF AddrSpace
  <2> QED
    BY <2>3, <2>5, <2>6 DEF FreeRuns
<1> QED
  BY <1>2, <1>3, <1>7, <1>8

LEMMA InvAnswers == MemInv => SearchesAnswer
<1> SUFFICES ASSUME MemInv, NEW k \in 1 .. NumPages
             PROVE  /\ NaClVmmapFindMapSpace(mem_map, k) = Max(FreeRuns(k) \cup {0})
                    /\ \A unit \in 1 .. (NumPages \div MapPages) - 1 :
                         LET hint  == unit * MapPages
                             above == {p \in FreeRuns(k) : p >= hint}
                         IN  NaClVmmapFindMapSpaceAboveHint(mem_map, hint, k)
                               = IF above = {} THEN 0 ELSE Min(above)
  BY DEF SearchesAnswer
<1> PICK v, n : v = NaClVmmapMakeSorted(mem_map).vmentry /\ n = Rounded(k)
  OBVIOUS
<1> PICK F : F = FreeRuns(k)
  OBVIOUS
<1>1. /\ v \in Seq(AnyEntry) /\ Ascending(v)
      /\ n \in Nat /\ n >= 1 /\ Unit(n)
  BY FreeRunsAre
<1>2. \A p : p \in F <=> /\ p \in Nat /\ Unit(p)
                         /\ \E i \in 2 .. Len(v) : InGap(v, i, p, n)
  BY FreeRunsAre
<1>3. NaClVmmapFindMapSpace(mem_map, k) = Max(F \cup {0})
  <2> PICK r : r = HighestFit(v, n)
    OBVIOUS
  <2>1. r = NaClVmmapFindMapSpace(mem_map, k)
    BY DEF NaClVmmapFindMapSpace, Rounded
  <2>2. r \in Nat /\ (r # 0 => Unit(r))
    BY <1>1, HighestIsFree DEF Free
  <2>3. /\ r # 0 => \E i \in 2 .. Len(v) : InGap(v, i, r, n)
        /\ \A j \in 2 .. Len(v) : \A p \in Nat : InGap(v, j, p, n) => p <= r
    BY <1>1, HighestIs
  <2>4. r \in F \cup {0}
    BY <1>2, <2>2, <2>3
  <2>5. \A p \in F \cup {0} : p \in Int /\ p <= r
    BY <1>2, <2>2, <2>3
  <2>6. Max(F \cup {0}) = r
    BY <2>4, <2>5, MaxIs
  <2> QED
    BY <2>1, <2>6
<1>4. ASSUME NEW unit \in 1 .. (NumPages \div MapPages) - 1, NEW u, u = unit * MapPages,
             NEW A, A = {p \in F : p >= u}
      PROVE  NaClVmmapFindMapSpaceAboveHint(mem_map, u, k)
               = IF A = {} THEN 0 ELSE Min(A)
  <2>1. u \in Nat /\ Unit(u)
    <3>1. unit \in Nat
      <4>1. (NumPages \div MapPages) \in Int
        BY Layout, Units
      <4> QED
        BY <4>1
    <3> QED
      BY <3>1, <1>4, MultipleIs DEF Unit
  <2> PICK r : r = LowestFit(v, u, n)
    OBVIOUS
  <2>2. r = NaClVmmapFindMapSpaceAboveHint(mem_map, u, k)
    BY DEF NaClVmmapFindMapSpaceAboveHint, Rounded
  <2>3. r \in Nat /\ (r # 0 => Unit(r))
    BY <1>1, <2>1, LowestIsFree DEF Free
  <2>4. /\ r # 0 => u <= r /\ \E i \in 2 .. Len(v) : InGap(v, i, r, n)
        /\ \A j \in 2 .. Len(v) : \A p \in Nat :
             InGap(v, j, p, n) /\ u <= p => r # 0 /\ r <= p
    BY <1>1, <2>1, LowestIs
  <2>5. \A p \in A : p \in Nat /\ r # 0 /\ r <= p
    BY <1>2, <1>4, <2>1, <2>4
  <2>6. CASE r = 0
    BY <2>2, <2>5, <2>6
  <2>7. CASE r # 0
    <3>1. r \in A
      BY <1>2, <1>4, <2>1, <2>3, <2>4, <2>7
    <3>2. Min(A) = r
      BY <3>1, <2>5, MinIs
    <3> QED
      BY <3>1, <3>2, <2>2
  <2> QED
    BY <2>6, <2>7
<1> QED
  BY <1>3, <1>4

(* Whatever calls an application has made, NaClVmmapFindMapSpace finds the *)
(* highest free run of whole units and NaClVmmapFindMapSpaceAboveHint the  *)
(* lowest above the hint, and both fail only when there is none.           *)
THEOREM SearchesAlwaysAnswer == Spec => []SearchesAnswer
<1>1. MemInv => SearchesAnswer
  BY InvAnswers
<1> QED
  BY <1>1, MapAlwaysAgrees, PTL

(* SpaceFound: the searches answer in the application that TLC checks them *)
(* in (sel_mem.c).                                                         *)
THEOREM SpaceAlwaysFound == MemorySpec => []SpaceFound
<1>1. MemInv => SpaceFound
  BY InvAnswers DEF SpaceFound
<1> QED
  BY <1>1, InvInMemory, PTL

-----------------------------------------------------------------------------
(***************************************************************************)
(* What a step may not do: take pages in use, or change pages that I/O     *)
(* reads or writes.                                                        *)
(***************************************************************************)
StepKeepsPages ==
    /\ "tail" \notin app.failures => TakesFreeSpace
    /\ FilesCover => IoUndisturbed

(* A region with no I/O pending has no page of one in progress.            *)
LEMMA NotPending ==
    ASSUME MemInv, NEW t \in Threads, io[t] # NoIo, NEW first, first \in Nat,
           NEW final, final \in Int, ~NaClVmIoPending(first, final),
           NEW p, p \in io[t][1] .. io[t][2]
    PROVE  p \in AddrSpace /\ (p < first \/ final < p)
<1>1. io[t] \in AddrSpace \X AddrSpace
  BY DEF MemInv, Rest
<1> PICK a, b : a = io[t][1] /\ b = io[t][2]
  OBVIOUS
<1>2. a \in AddrSpace /\ b \in AddrSpace /\ NumPages \in Nat
  BY <1>1, Layout
<1>3. ~(a <= final /\ first <= b)
  BY DEF NaClVmIoPending
<1> QED
  BY <1>2, <1>3 DEF AddrSpace

Spared(first, final) ==
    \A p \in AddrSpace : p < first \/ final < p => host'[p] = host[p]

LEMMA Undisturbed ==
    ASSUME MemInv, NEW first, first \in Nat, NEW final, final \in Int,
           ~NaClVmIoPending(first, final), Spared(first, final)
    PROVE  IoUndisturbed
BY NotPending DEF IoUndisturbed, Spared

LEMMA HostStays ==
    ASSUME UNCHANGED host, last'.call # "mmap"
    PROVE  StepKeepsPages
BY DEF StepKeepsPages, TakesFreeSpace, IoUndisturbed

LEMMA CallNames ==
    /\ NothingCalled.call = "none"
    /\ \A name, page, n : /\ Call(name, page, n).call = name
                          /\ Call(name, page, n).page = page
                          /\ Call(name, page, n).npages = n
BY DEF NothingCalled, Call

LEMMA MmapPages ==
    ASSUME MemInv, NEW c \in MmapCall, NaClSysMmap(c)
    PROVE  StepKeepsPages
<1>1. AppOK /\ State(mem_map, host) /\ GoodMap(mem_map)
  BY DEF MemInv, Rest, State
<1> PICK page, k, n : page = MmapPage(c) /\ k = FilePages(c) /\ n = Rounded(c.npages)
  OBVIOUS
<1>2. /\ page \in Nat
      /\ ~c.fixed /\ page # 0 =>
           /\ Unit(page)
           /\ \A e \in EntrySet(mem_map.vmentry) : \A q \in Pages(e) :
                q < page \/ page + n <= q
  BY <1>1, MmapPageIs
<1>3. CASE Refuse \/ Abort("io race")
  <2>1. UNCHANGED host /\ last' = NothingCalled
    BY <1>3 DEF Refuse, Abort
  <2> QED
    BY <2>1, CallNames, HostStays
<1> DEFINE final == page + k - 1
<1>4. ASSUME ~MmapInvalid(c), FilesCover PROVE k = n /\ k \in Nat
  <2>1. k = n
    BY <1>4 DEF FilesCover
  <2> QED
    BY <2>1, <1>1, <1>4, FilePagesIs
<1>5. CASE /\ ~MmapInvalid(c) /\ ~MmapPageBad(c, page) /\ ~NaClVmIoPending(page, final)
           /\ MapSucceeds(c) /\ MmapDone(c, page)
  <2>1. /\ last' = Call(IF c.fixed THEN "mmap fixed" ELSE "mmap", page, n)
        /\ host' = Unmapped(Mapped(host, c, page), page + k, n - k)
    BY <1>5 DEF MmapDone, Done
  <2>2. ASSUME "tail" \notin app.failures PROVE TakesFreeSpace
    <3> SUFFICES ASSUME last'.call = "mmap" PROVE TakesFreeSpace
      BY DEF TakesFreeSpace
    <3>1. last'.page = page /\ last'.npages = n /\ ~c.fixed
      <4> PICK name : name = IF c.fixed THEN "mmap fixed" ELSE "mmap"
        OBVIOUS
      <4>1. last' = Call(name, page, n)
        BY <2>1
      <4>2. last'.call = name /\ last'.page = page /\ last'.npages = n
        BY <4>1 DEF Call
      <4> QED
        BY <4>2
    <3>2. page # 0 /\ ~(page + n > NumPages)
      BY <1>5, <3>1 DEF MmapPageBad
    <3>3. (page % MapPages) = 0
      BY <1>2, <3>1, <3>2, UnitIs
    <3>4. n \in Nat
      BY <1>1, <1>5, FilePagesIs
    <3>5. ASSUME NEW p \in Region(page, n)
          PROVE  p \in AddrSpace /\ host[p] = Inaccessible /\ ~Covered(mem_map, p)
      <4>1. p \in Int /\ page <= p /\ p < page + n
        BY <1>2, <3>4 DEF Region
      <4>2. p \in AddrSpace
        BY <4>1, <1>2, <3>2, <3>4, Layout DEF AddrSpace
      <4>3. \A e \in EntrySet(mem_map.vmentry) : p \notin Pages(e)
        BY <4>1, <1>2, <3>1, <3>2, <3>4
      <4>4. ~Covered(mem_map, p)
        BY <4>3, <1>1, EntryOfIs
      <4>5. Agrees(EntrySet(mem_map.vmentry), host)
        BY <2>2, <1>1 DEF State, Truthful
      <4> QED
        BY <4>2, <4>3, <4>4, <4>5 DEF Agrees
    <3> QED
      BY <3>1, <3>3, <3>5 DEF TakesFreeSpace
  <2>3. ASSUME FilesCover PROVE IoUndisturbed
    <3>1. k = n /\ k \in Nat /\ n \in Nat
      BY <1>4, <1>5, <2>3
    <3>2. final \in Int
      BY <1>2, <3>1
    <3>3. ASSUME NEW p \in AddrSpace, p < page \/ final < p PROVE host'[p] = host[p]
      <4>1. p \in Nat
        BY Layout DEF AddrSpace
      <4>2. p \notin Region(page, k) /\ p \notin Region(page + k, n - k)
        BY <4>1, <3>1, <3>3, <1>2 DEF Region
      <4> QED
        BY <4>2, <2>1 DEF Unmapped, Mapped
    <3> HIDE DEF final
    <3>4. Spared(page, final)
      BY <3>3 DEF Spared
    <3> QED
      BY <3>2, <3>4, <1>2, <1>5, Undisturbed
  <2> QED
    BY <2>2, <2>3 DEF StepKeepsPages
<1>6. CASE ~MmapInvalid(c) /\ MmapTailFails(c, page)
  <2>1. k < n /\ "tail" \in app.failures
    BY <1>6 DEF MmapTailFails
  <2>2. ~FilesCover
    <3>1. n \in Nat
      BY <1>1, <1>6, FilePagesIs
    <3> QED
      BY <2>1, <3>1, <1>4, <1>6
  <2> QED
    BY <2>1, <2>2 DEF StepKeepsPages
<1> QED
  BY <1>3, <1>5, <1>6 DEF NaClSysMmap, MmapAt

LEMMA MunmapPages ==
    ASSUME MemInv, NEW start \in app.starts, NEW npages \in app.lengths,
           NaClSysMunmap(start, npages)
    PROVE  StepKeepsPages
<1> PICK n : n = Rounded(npages)
  OBVIOUS
<1>1. start \in Nat /\ npages \in Nat
  BY DEF MemInv, Rest, AppOK
<1>2. n \in Nat
  BY <1>1, RoundIs DEF Rounded
<1>3. CASE Refuse \/ Abort("io race")
  <2>1. UNCHANGED host /\ last' = NothingCalled
    BY <1>3 DEF Refuse, Abort
  <2> QED
    BY <2>1, CallNames, HostStays
<1>4. CASE /\ ~NaClVmIoPending(start, start + n - 1)
           /\ Done(Call("munmap", start, n), NaClVmmapRemove(mem_map, start, n),
                   Unmapped(host, start, n))
  <2>1. host' = Unmapped(host, start, n) /\ last'.call = "munmap"
    BY <1>4, CallNames DEF Done
  <2>2. ASSUME NEW p \in AddrSpace, p < start \/ start + n - 1 < p
        PROVE  host'[p] = host[p]
    <3>1. p \in Nat
      BY Layout DEF AddrSpace
    <3>2. p \notin Region(start, n)
      BY <3>1, <2>2, <1>1, <1>2 DEF Region
    <3> QED
      BY <3>2, <2>1 DEF Unmapped
  <2> PICK final : final = start + n - 1
    OBVIOUS
  <2>3. final \in Int
    BY <1>1, <1>2
  <2>4. IoUndisturbed
    <3>1. ~NaClVmIoPending(start, final)
      BY <1>4
    <3>2. Spared(start, final)
      BY <2>2 DEF Spared
    <3> QED
      BY <3>1, <3>2, <2>3, <1>1, Undisturbed
  <2> QED
    BY <2>1, <2>4 DEF StepKeepsPages, TakesFreeSpace
<1> QED
  BY <1>3, <1>4 DEF NaClSysMunmap

LEMMA MprotectPages ==
    ASSUME MemInv, NEW start \in app.starts, NEW npages \in app.lengths,
           NEW prot \in app.prots, NaClSysMprotect(start, npages, prot), MemInv'
    PROVE  StepKeepsPages
<1> PICK n, r : n = Rounded(npages) /\ r = ChangeProt(mem_map, start, n, prot)
  OBVIOUS
<1> PICK W, s : W = Walked(r, start, start + n) /\ s = NaClVmmapMakeSorted(r)
  OBVIOUS
<1>1. start \in Nat /\ npages \in Nat
  BY DEF MemInv, Rest, AppOK
<1>2. n \in Nat
  BY <1>1, RoundIs DEF Rounded
<1>3. CASE Refuse \/ Abort("io race") \/ Abort("check")
  <2>1. UNCHANGED host /\ last' = NothingCalled
    BY <1>3 DEF Refuse, Abort
  <2> QED
    BY <2>1, CallNames, HostStays
<1>4. CASE /\ ~NaClVmIoPending(start, start + n - 1)
           /\ ChecksPass(r, start, start + n)
           /\ Done(Call("mprotect", start, n), s, Protected(host, W, prot))
  <2>1. /\ host' = Protected(host, W, prot) /\ last'.call = "mprotect"
        /\ mem_map' = s
    BY <1>4, CallNames DEF Done
  <2>2. GoodMap(s)
    BY <2>1 DEF MemInv, State, GoodMap
  <2>3. ASSUME NEW e \in W
        PROVE  /\ e \in AnyEntry
               /\ start <= e.page_num /\ EndPage(e) <= start + n
    <3>1. start <= e.page_num /\ EndPage(e) <= start + n
      BY <1>4 DEF ChecksPass
    <3>2. \E i \in DOMAIN s.vmentry : e = s.vmentry[i]
      <4> PICK v : v = s.vmentry
        OBVIOUS
      <4>1. PICK i \in NaClVmmapFindPageIter(r, start) .. Len(v) : e = v[i]
        BY DEF Walked
      <4>2. v \in Seq(AnyEntry)
        BY <2>2, EntryIsAny DEF GoodMap
      <4>3. NaClVmmapFindPageIter(r, start) \in Nat \ {0}
        BY <4>2, IterIs
      <4> QED
        BY <4>1, <4>2, <4>3
    <3>3. e \in AnyEntry
      BY <3>2, <2>2, EntryIsAny DEF GoodMap
    <3> QED
      BY <3>1, <3>3
  <2>4. ASSUME NEW p \in AddrSpace, p < start \/ start + n - 1 < p
        PROVE  host'[p] = host[p]
    <3>1. p \in Nat
      BY Layout DEF AddrSpace
    <3>2. ASSUME NEW e \in W, ProtectedPage(e, p) PROVE FALSE
      <4>1. e \in AnyEntry /\ start <= e.page_num /\ EndPage(e) <= start + n
        BY <2>3
      <4>2. p \in Pages(e)
        BY <4>1, <3>2, ProtectedPageIs
      <4>3. e.page_num <= p /\ p < EndPage(e) /\ e.page_num \in Nat /\ EndPage(e) \in Nat
        BY <4>1, <4>2, EntryFacts
      <4> QED
        BY <4>1, <4>3, <3>1, <2>4, <1>1, <1>2
    <3> QED
      BY <3>2, <2>1 DEF Protected, ProtectedPage
  <2> PICK final : final = start + n - 1
    OBVIOUS
  <2>5. final \in Int
    BY <1>1, <1>2
  <2>6. IoUndisturbed
    <3>1. ~NaClVmIoPending(start, final)
      BY <1>4
    <3>2. Spared(start, final)
      BY <2>4 DEF Spared
    <3> QED
      BY <3>1, <3>2, <2>5, <1>1, Undisturbed
  <2> QED
    BY <2>1, <2>6 DEF StepKeepsPages, TakesFreeSpace
<1> QED
  BY <1>3, <1>4 DEF NaClSysMprotect

LEMMA BrkPages ==
    ASSUME MemInv, NEW addr \in app.breaks, NaClSysBrk(addr)
    PROVE  StepKeepsPages
<1> PICK m, v, i, end : /\ m = NaClVmmapMakeSorted(mem_map) /\ v = m.vmentry
                        /\ i = NaClVmmapFindPageIter(mem_map, BreakPage(break_addr))
                        /\ end = BrkEnd(addr)
  OBVIOUS
<1> PICK g : g = Grown(host, EndPage(v[i]), end)
  OBVIOUS
<1>1. CASE Refuse \/ Abort("break")
  <2>1. UNCHANGED host /\ last' = NothingCalled
    BY <1>1 DEF Refuse, Abort
  <2> QED
    BY <2>1, CallNames, HostStays
<1>2. ASSUME NEW w, BrkTo(addr, w, host) PROVE StepKeepsPages
  <2>1. UNCHANGED host /\ last'.call = "brk"
    BY <1>2, CallNames DEF BrkTo
  <2> QED
    BY <2>1, HostStays
<1>3. CASE /\ break_addr < addr /\ i <= Len(v) /\ ~RunsIntoNext(v, i, end)
           /\ host' = g /\ last'.call = "brk"
  <2>1. GoodMap(m) /\ Ascending(v) /\ v \in Seq(AnyEntry)
        /\ EntrySet(v) = EntrySet(mem_map.vmentry)
    <3>1. GoodMap(mem_map)
      BY DEF MemInv, State
    <3>2. /\ GoodMap(m) /\ Ascending(v)
          /\ EntrySet(v) = EntrySet(mem_map.vmentry)
      BY <3>1, MakeSortedSorts
    <3> QED
      BY <3>2, EntryIsAny DEF GoodMap
  <2>2. i \in DOMAIN v
    BY <2>1, <1>3, IterIs
  <2>3. end \in Nat /\ addr \in Nat
    <3>1. addr \in Nat
      BY DEF MemInv, Rest, AppOK
    <3>2. NaClBytesToPages(addr) \in Nat
      BY <3>1, BytesToPagesIs
    <3> QED
      BY <3>1, <3>2, RoundIs DEF BrkEnd
  <2>4. ASSUME NEW p \in AddrSpace, Covered(mem_map, p) PROVE host'[p] = host[p]
    <3>1. PICK e \in EntrySet(v) : p \in Pages(e)
      <4>1. GoodMap(mem_map)
        BY DEF MemInv, State
      <4> QED
        BY <4>1, <2>1, <2>4, EntryOfIs
    <3>2. PICK j \in DOMAIN v : e = v[j]
      BY DEF EntrySet
    <3>3. p < EndPage(v[i]) \/ end <= p
      BY <3>1, <3>2, <2>1, <2>2, <2>3, <1>3, GrowthIsFree
    <3>4. p \in Nat /\ EndPage(v[i]) \in Nat
      <4>1. v[i] \in AnyEntry
        BY <2>1, <2>2
      <4> QED
        BY <4>1, EntryFacts, Layout DEF AddrSpace
    <3>5. p \notin EndPage(v[i]) .. end - 1
      BY <3>3, <3>4, <2>3
    <3> QED
      BY <3>5, <1>3 DEF Grown
  <2>5. ASSUME NEW t \in Threads, io[t] # NoIo, NEW p \in io[t][1] .. io[t][2]
        PROVE  p \in AddrSpace
    <3>1. io[t] \in AddrSpace \X AddrSpace
      BY <2>5 DEF MemInv, Rest
    <3> PICK a, b : a = io[t][1] /\ b = io[t][2]
      OBVIOUS
    <3>2. a \in AddrSpace /\ b \in AddrSpace /\ NumPages \in Nat
      BY <3>1, Layout
    <3> QED
      BY <3>2 DEF AddrSpace
  <2>6. IoUndisturbed
    BY <2>4, <2>5 DEF IoUndisturbed
  <2> QED
    BY <2>6, <1>3 DEF StepKeepsPages, TakesFreeSpace
<1>4. ASSUME break_addr < addr, BrkGrow(addr) PROVE StepKeepsPages
  <2>1. \/ Abort("break") \/ Refuse
        \/ \E w : BrkTo(addr, w, host)
        \/ \E w : /\ i <= Len(v) /\ ~RunsIntoNext(v, i, end)
                  /\ BrkTo(addr, w, g)
    BY <1>4 DEF BrkGrow
  <2> QED
    BY <2>1, <1>1, <1>2, <1>3, <1>4, CallNames DEF BrkTo
<1> QED
  BY <1>1, <1>2, <1>4 DEF NaClSysBrk

LEMMA IoPages ==
    ASSUME NEW t, NEW first, NEW npages,
           NaClVmIoWillStart(t, first, npages) \/ NaClVmIoHasEnded(t)
    PROVE  StepKeepsPages
<1>1. UNCHANGED host /\ last' = NothingCalled
  BY DEF NaClVmIoWillStart, NaClVmIoHasEnded
<1> QED
  BY <1>1, CallNames, HostStays

LEMMA NextPages == MemInv /\ MemInv' /\ Next => StepKeepsPages
<1> SUFFICES ASSUME MemInv, MemInv', Next PROVE StepKeepsPages
  OBVIOUS
<1>1. CASE \E c \in MmapCall : NaClSysMmap(c)
  BY <1>1, MmapPages
<1>2. CASE \E start \in app.starts, npages \in app.lengths :
             NaClSysMunmap(start, npages)
  BY <1>2, MunmapPages
<1>3. CASE \E start \in app.starts, npages \in app.lengths, prot \in app.prots :
             NaClSysMprotect(start, npages, prot)
  BY <1>3, MprotectPages
<1>4. CASE \E addr \in app.breaks : NaClSysBrk(addr)
  BY <1>4, BrkPages
<1>5. CASE \/ \E t \in Threads, first \in app.starts, npages \in app.lengths :
                NaClVmIoWillStart(t, first, npages)
           \/ \E t \in Threads : NaClVmIoHasEnded(t)
  BY <1>5, IoPages
<1> QED
  BY <1>1, <1>2, <1>3, <1>4, <1>5 DEF Next

(* PagesStable: without MAP_FIXED, mmap never takes a page that was in     *)
(* use, unless an earlier one was left halfway, and no memory call changes *)
(* pages that I/O of another thread reads or writes, if files cover what   *)
(* is mapped (sys_memory.c).                                               *)
THEOREM PagesAlwaysStable == MemorySpec => PagesStable
<1> DEFINE Quiet == subject # "memory" => last = NothingCalled
<1>1. MemoryInit => Quiet
  BY DEF MemoryInit, Init
<1>2. Quiet /\ [MemoryNext]_memoryVars => Quiet'
  BY DEF MemoryNext, memoryVars, vars
<1>3. Quiet /\ MemInv /\ MemInv' /\ MemoryNext => StepKeepsPages
  <2> SUFFICES ASSUME Quiet, MemInv, MemInv', MemoryNext PROVE StepKeepsPages
    OBVIOUS
  <2>1. CASE Next
    BY <2>1, NextPages
  <2>2. CASE subject # "memory" /\ UNCHANGED vars
    <3>1. UNCHANGED host /\ last' = NothingCalled
      BY <2>2 DEF vars
    <3> QED
      BY <3>1, CallNames, HostStays
  <2> QED
    BY <2>1, <2>2 DEF MemoryNext
<1>4. Quiet /\ MemInv /\ MemInv' /\ [MemoryNext]_memoryVars
        => [/\ "tail" \notin app.failures => TakesFreeSpace
            /\ FilesCover => IoUndisturbed]_memoryVars
  BY <1>3 DEF StepKeepsPages
<1> QED
  BY <1>1, <1>2, <1>4, InvInMemory, PTL DEF MemorySpec, PagesStable

-----------------------------------------------------------------------------
(***************************************************************************)
(* The array of dynamic code regions.                                      *)
(***************************************************************************)
LEMMA CutoffIs == Cutoff \in Nat /\ MaxAddr \in Nat /\ MaxSize \in Nat
                  /\ MinAllocated \in Nat /\ MinAllocated > 0
BY MCMemoryAssumption DEF Regions!RegionsAssumption

(* One turn of the search of NaClDynamicRegionFindClosestLEQ.              *)
Turn(f, b, e, ptr) ==
    LET mid == b + (e - b) \div 2
    IN  IF b + Cutoff + 1 < e
        THEN IF dynamic_regions[mid].start <= ptr THEN f[<<mid, e>>] ELSE f[<<b, mid>>]
        ELSE IF b + 1 < e /\ dynamic_regions[b + 1].start <= ptr
             THEN f[<<b + 1, e>>] ELSE b

Bounds == (1 .. Len(dynamic_regions)) \X (1 .. Len(dynamic_regions) + 1)

Searches(f, ptr) == f = [r \in Bounds |-> Turn(f, r[1], r[2], ptr)]

(* The regions that start at ptr or below are the first k.                 *)
FirstBelow(k, ptr) ==
    \A i \in 1 .. Len(dynamic_regions) : dynamic_regions[i].start <= ptr <=> i <= k

(* What the search finds between two bounds, in one formula.               *)
Answer(k, b, e) == IF k <= b \/ e <= b + 1 THEN b ELSE IF k < e THEN k ELSE e - 1

LEMMA MidIs ==
    ASSUME NEW b \in Nat, NEW e \in Nat, b + Cutoff + 1 < e,
           NEW mid, mid = b + (e - b) \div 2
    PROVE  mid \in Nat /\ b < mid /\ mid < e
<1>1. Cutoff \in Nat
  BY CutoffIs
<1> QED
  BY <1>1

LEMMA AnswerHalves ==
    ASSUME NEW k \in Nat, NEW b \in Nat, NEW e \in Nat, NEW mid \in Nat,
           b < mid, mid < e
    PROVE  Answer(k, b, e) = IF mid <= k THEN Answer(k, mid, e) ELSE Answer(k, b, mid)
BY DEF Answer

LEMMA AnswerTurns ==
    ASSUME NEW k \in Nat, NEW ptr, FirstBelow(k, ptr), NEW f,
           f = [r \in Bounds |-> Answer(k, r[1], r[2])], NEW r \in Bounds
    PROVE  Turn(f, r[1], r[2], ptr) = Answer(k, r[1], r[2])
<1> PICK n : n = Len(dynamic_regions)
  OBVIOUS
<1> PICK b, e : b = r[1] /\ e = r[2]
  OBVIOUS
<1>1. /\ b \in 1 .. n /\ e \in 1 .. n + 1
  BY DEF Bounds
<1>2. n \in Nat /\ b \in Nat /\ e \in Nat
  BY <1>1
<1>3. ASSUME NEW c \in 1 .. n, NEW d \in 1 .. n + 1 PROVE f[<<c, d>>] = Answer(k, c, d)
  <2>1. <<c, d>> \in Bounds
    BY DEF Bounds
  <2> QED
    BY <2>1
<1>4. Cutoff \in Nat
  BY CutoffIs
<1>5. CASE b + Cutoff + 1 < e
  <2> PICK mid : mid = b + (e - b) \div 2
    OBVIOUS
  <2>1. mid \in Nat /\ b < mid /\ mid < e
    BY <1>2, <1>5, MidIs
  <2>2. mid \in 1 .. n /\ mid \in 1 .. n + 1
    BY <2>1, <1>1, <1>2
  <2>3. Turn(f, b, e, ptr) =
          IF dynamic_regions[mid].start <= ptr THEN f[<<mid, e>>] ELSE f[<<b, mid>>]
    BY <1>5 DEF Turn
  <2>4. dynamic_regions[mid].start <= ptr <=> mid <= k
    BY <2>2 DEF FirstBelow
  <2>5. CASE mid <= k
    <3>1. Turn(f, b, e, ptr) = Answer(k, mid, e)
      BY <2>3, <2>4, <2>5, <2>2, <1>1, <1>3
    <3>2. Answer(k, mid, e) = Answer(k, b, e)
      BY <2>1, <2>5, <1>2, AnswerHalves
    <3> QED
      BY <3>1, <3>2
  <2>6. CASE ~(mid <= k)
    <3>1. Turn(f, b, e, ptr) = Answer(k, b, mid)
      BY <2>3, <2>4, <2>6, <2>2, <1>1, <1>3
    <3>2. Answer(k, b, mid) = Answer(k, b, e)
      BY <2>1, <2>6, <1>2, AnswerHalves
    <3> QED
      BY <3>1, <3>2
  <2> QED
    BY <2>5, <2>6
<1>6. CASE ~(b + Cutoff + 1 < e) /\ b + 1 < e
  <2>1. b + 1 \in 1 .. n
    BY <1>1, <1>6
  <2>2. dynamic_regions[b + 1].start <= ptr <=> b + 1 <= k
    BY <2>1 DEF FirstBelow
  <2>3. Turn(f, b, e, ptr) = IF b + 1 <= k THEN f[<<b + 1, e>>] ELSE b
    BY <2>2, <1>6 DEF Turn
  <2>4. f[<<b + 1, e>>] = Answer(k, b + 1, e)
    BY <2>1, <1>1, <1>3
  <2>5. Answer(k, b, e) = IF b + 1 <= k THEN Answer(k, b + 1, e) ELSE b
    BY <1>2, <1>6 DEF Answer
  <2> QED
    BY <2>3, <2>4, <2>5
<1>7. CASE ~(b + 1 < e)
  <2>1. ~(b + Cutoff + 1 < e)
    BY <1>7, <1>2, <1>4
  <2>2. Turn(f, b, e, ptr) = b
    BY <2>1, <1>7 DEF Turn
  <2>3. Answer(k, b, e) = b
    BY <1>7, <1>2 DEF Answer
  <2> QED
    BY <2>2, <2>3
<1> QED
  BY <1>5, <1>6, <1>7

LEMMA Closer ==
    ASSUME NEW n \in Nat, NEW b \in 1 .. n, NEW e \in 1 .. n + 1, NEW mid \in Nat,
           b < mid, mid < e
    PROVE  /\ mid \in 1 .. n /\ mid \in 1 .. n + 1
           /\ e - mid < e - b /\ mid - b < e - b /\ b < e
OBVIOUS

(* Only one function searches: two that differ would differ first where    *)
(* the bounds are closest.                                                 *)
LEMMA SearchUnique ==
    ASSUME NEW ptr, NEW f, Searches(f, ptr), NEW g, Searches(g, ptr), NEW r \in Bounds
    PROVE  f[r] = g[r]
<1> PICK n : n = Len(dynamic_regions)
  OBVIOUS
<1> DEFINE Gap(s) == IF s[1] < s[2] THEN s[2] - s[1] ELSE 0
           Bad == {s \in Bounds : f[s] # g[s]}
           Gaps == {Gap(s) : s \in Bad}
<1>1. ASSUME NEW s \in Bounds
      PROVE  /\ s[1] \in 1 .. n /\ s[2] \in 1 .. n + 1 /\ s = <<s[1], s[2]>>
             /\ Gap(s) \in Nat
             /\ f[s] = Turn(f, s[1], s[2], ptr) /\ g[s] = Turn(g, s[1], s[2], ptr)
  <2>1. s[1] \in 1 .. n /\ s[2] \in 1 .. n + 1 /\ s = <<s[1], s[2]>>
    BY DEF Bounds
  <2>2. Gap(s) \in Nat
    BY <2>1
  <2>3. f[s] = Turn(f, s[1], s[2], ptr)
    BY DEF Searches
  <2>4. g[s] = Turn(g, s[1], s[2], ptr)
    BY DEF Searches
  <2> QED
    BY <2>1, <2>2, <2>3, <2>4
<1>2. SUFFICES ASSUME Bad # {} PROVE FALSE
  OBVIOUS
<1>3. PICK m \in Gaps : \A x \in Gaps : m <= x
  <2>1. Gaps \in SUBSET Nat /\ Gaps # {}
    BY <1>1, <1>2
  <2> QED
    BY <2>1, LeastExists
<1>4. PICK s \in Bad : m = Gap(s)
  BY <1>3
<1> PICK b, e : b = s[1] /\ e = s[2]
  OBVIOUS
<1>5. /\ b \in 1 .. n /\ e \in 1 .. n + 1 /\ f[s] # g[s]
      /\ f[s] = Turn(f, b, e, ptr) /\ g[s] = Turn(g, b, e, ptr)
  BY <1>1, <1>4
<1>6. b \in Nat /\ e \in Nat /\ n \in Nat
  BY <1>5
<1>7. ASSUME NEW c \in 1 .. n, NEW d \in 1 .. n + 1, b < e, d - c < e - b
      PROVE  f[<<c, d>>] = g[<<c, d>>]
  <2>1. <<c, d>> \in Bounds
    BY DEF Bounds
  <2>2. SUFFICES ASSUME f[<<c, d>>] # g[<<c, d>>] PROVE FALSE
    OBVIOUS
  <2>3. <<c, d>> \in Bad
    BY <2>1, <2>2
  <2>4. Gap(<<c, d>>) \in Gaps
    BY <2>3
  <2>5. m <= Gap(<<c, d>>)
    BY <2>4, <1>3
  <2>6. m = e - b
    BY <1>4, <1>6, <1>7
  <2>7. Gap(<<c, d>>) = IF c < d THEN d - c ELSE 0
    OBVIOUS
  <2> QED
    BY <2>5, <2>6, <2>7, <1>6, <1>7
<1> HIDE DEF Gap, Bad, Gaps
<1>8. Cutoff \in Nat
  BY CutoffIs
<1>9. CASE b + Cutoff + 1 < e
  <2> DEFINE mid == b + (e - b) \div 2
  <2>1. mid \in Nat /\ b < mid /\ mid < e
    BY <1>6, <1>9, MidIs
  <2> HIDE DEF mid
  <2>6. b \in 1 .. n /\ e \in 1 .. n + 1 /\ n \in Nat
    BY <1>5, <1>6
  <2>2. /\ mid \in 1 .. n /\ mid \in 1 .. n + 1
        /\ e - mid < e - b /\ mid - b < e - b /\ b < e
    BY <2>1, <2>6, Closer
  <2>4. f[<<mid, e>>] = g[<<mid, e>>]
    BY <2>2, <1>5, <1>7
  <2>5. f[<<b, mid>>] = g[<<b, mid>>]
    BY <2>2, <1>5, <1>7
  <2>3. Turn(f, b, e, ptr) = Turn(g, b, e, ptr)
    BY <2>4, <2>5, <1>9 DEF Turn, mid
  <2> QED
    BY <2>3, <1>5
<1>10. CASE ~(b + Cutoff + 1 < e) /\ b + 1 < e
  <2>1. f[<<b + 1, e>>] = g[<<b + 1, e>>]
    BY <1>5, <1>6, <1>7, <1>10
  <2>2. Turn(f, b, e, ptr) = Turn(g, b, e, ptr)
    BY <2>1, <1>10 DEF Turn
  <2> QED
    BY <2>2, <1>5
<1>11. CASE ~(b + 1 < e)
  <2>1. ~(b + Cutoff + 1 < e)
    BY <1>11, <1>6, <1>8
  <2>2. Turn(f, b, e, ptr) = Turn(g, b, e, ptr)
    BY <2>1, <1>11 DEF Turn
  <2> QED
    BY <2>2, <1>5
<1> QED
  BY <1>9, <1>10, <1>11

LEMMA ClosestUnfolds ==
    ASSUME NEW ptr
    PROVE  Regions!NaClDynamicRegionFindClosestLEQ(ptr) =
             LET n == Len(dynamic_regions)
             IN  IF n = 0 THEN 0
                 ELSE IF dynamic_regions[n].start <= ptr THEN n
                 ELSE IF ptr < dynamic_regions[1].start THEN 0
                 ELSE (CHOOSE f : Searches(f, ptr))[<<1, n + 1>>]
BY DEF Regions!NaClDynamicRegionFindClosestLEQ, Regions!num_dynamic_regions, Searches,
       Bounds, Turn

(* The bisection finds the last region that starts at ptr or below.        *)
LEMMA ClosestIs ==
    ASSUME NEW k \in Nat, k <= Len(dynamic_regions), NEW ptr \in Int,
           FirstBelow(k, ptr), Regions!TypeOK
    PROVE  Regions!NaClDynamicRegionFindClosestLEQ(ptr) = k
<1> PICK n : n = Len(dynamic_regions)
  OBVIOUS
<1>1. n \in Nat /\ k <= n
  BY DEF Regions!TypeOK
<1>2. CASE n = 0
  BY <1>1, <1>2, ClosestUnfolds
<1>3. CASE n # 0 /\ k = n
  <2>1. dynamic_regions[n].start <= ptr
    BY <1>1, <1>3 DEF FirstBelow
  <2> QED
    BY <2>1, <1>3, ClosestUnfolds
<1>4. CASE n # 0 /\ k # n
  <2>1. ~(dynamic_regions[n].start <= ptr)
    BY <1>1, <1>4 DEF FirstBelow
  <2>2. dynamic_regions[1].start \in Int
    <3>1. dynamic_regions[1] \in Regions!Region
      BY <1>1, <1>4 DEF Regions!TypeOK
    <3> QED
      BY <3>1, CutoffIs DEF Regions!Region
  <2>3. dynamic_regions[1].start <= ptr <=> 1 <= k
    BY <1>1, <1>4 DEF FirstBelow
  <2>4. CASE k = 0
    <3>1. ptr < dynamic_regions[1].start
      BY <2>2, <2>3, <2>4
    <3> QED
      BY <3>1, <2>1, <2>4, <1>4, ClosestUnfolds
  <2>5. CASE k # 0
    <3>1. ~(ptr < dynamic_regions[1].start)
      BY <2>2, <2>3, <2>5
    <3> PICK f : f = [r \in Bounds |-> Answer(k, r[1], r[2])]
      OBVIOUS
    <3>2. \A r \in Bounds : Turn(f, r[1], r[2], ptr) = Answer(k, r[1], r[2])
      BY AnswerTurns
    <3>3. Searches(f, ptr)
      BY <3>2 DEF Searches
    <3> PICK g : g = CHOOSE h : Searches(h, ptr)
      OBVIOUS
    <3>4. Searches(g, ptr)
      BY <3>3
    <3>5. <<1, n + 1>> \in Bounds
      BY <1>1, <1>4 DEF Bounds
    <3>6. g[<<1, n + 1>>] = f[<<1, n + 1>>]
      BY <3>3, <3>4, <3>5, SearchUnique
    <3>7. f[<<1, n + 1>>] = Answer(k, 1, n + 1)
      BY <3>5
    <3>8. Answer(k, 1, n + 1) = k
      BY <1>1, <1>4, <2>5 DEF Answer
    <3>9. Regions!NaClDynamicRegionFindClosestLEQ(ptr) = g[<<1, n + 1>>]
      BY <3>1, <2>1, <1>4, ClosestUnfolds
    <3> QED
      BY <3>6, <3>7, <3>8, <3>9
  <2> QED
    BY <2>4, <2>5
<1> QED
  BY <1>2, <1>3, <1>4

(* There is such a region, in an array in order.                           *)
Ordered == \A i, j \in 1 .. Len(dynamic_regions) :
             i < j => Regions!End(dynamic_regions[i]) <= dynamic_regions[j].start

LEMMA RegionIs ==
    ASSUME Regions!TypeOK, NEW i \in 1 .. Len(dynamic_regions)
    PROVE  /\ dynamic_regions[i].start \in Nat /\ dynamic_regions[i].size \in Nat
           /\ dynamic_regions[i].size > 0
           /\ dynamic_regions[i] \in Regions!Region
           /\ Regions!End(dynamic_regions[i]) =
                dynamic_regions[i].start + dynamic_regions[i].size
<1>1. dynamic_regions[i] \in Regions!Region
  BY DEF Regions!TypeOK
<1> QED
  BY <1>1, CutoffIs DEF Regions!Region, Regions!End

LEMMA ClosestExists ==
    ASSUME Regions!TypeOK, Ordered, NEW ptr \in Int
    PROVE  \E k \in 0 .. Len(dynamic_regions) :
              FirstBelow(k, ptr) /\ Regions!NaClDynamicRegionFindClosestLEQ(ptr) = k
<1> PICK n : n = Len(dynamic_regions)
  OBVIOUS
<1>1. n \in Nat
  BY DEF Regions!TypeOK
<1> DEFINE S == {i \in 1 .. n : dynamic_regions[i].start <= ptr}
<1>2. \E k \in 0 .. n : FirstBelow(k, ptr)
  <2>1. CASE S = {}
    <3>1. FirstBelow(0, ptr)
      BY <2>1, <1>1 DEF FirstBelow
    <3> QED
      BY <3>1, <1>1
  <2>2. CASE S # {}
    <3>1. S \in SUBSET Nat /\ \A x \in S : x <= n
      BY <1>1
    <3>2. PICK k \in S : \A y \in S : y <= k
      BY <3>1, <2>2, <1>1, GreatestExists
    <3>3. k \in 1 .. n /\ dynamic_regions[k].start <= ptr
      BY <3>2
    <3>4. ASSUME NEW i \in 1 .. n PROVE dynamic_regions[i].start <= ptr <=> i <= k
      <4>1. ASSUME i < k PROVE dynamic_regions[i].start <= ptr
        <5>1. Regions!End(dynamic_regions[i]) <= dynamic_regions[k].start
          BY <4>1, <3>3 DEF Ordered
        <5> QED
          BY <5>1, <3>3, RegionIs
      <4>2. ASSUME dynamic_regions[i].start <= ptr PROVE i <= k
        BY <4>2, <3>2
      <4> QED
        BY <4>1, <4>2, <3>3
    <3>5. FirstBelow(k, ptr)
      BY <3>4 DEF FirstBelow
    <3> QED
      BY <3>5, <3>3, <1>1
  <2> QED
    BY <2>1, <2>2
<1> QED
  BY <1>1, <1>2, ClosestIs

(* NaClDynamicRegionFind.                                                  *)
LEMMA FindIs ==
    ASSUME Regions!TypeOK, Ordered
    PROVE  Regions!FindFindsLast
<1> PICK n : n = Len(dynamic_regions)
  OBVIOUS
<1>1. n \in Nat
  BY DEF Regions!TypeOK
<1> SUFFICES
      ASSUME NEW ptr \in 0 .. MaxAddr, NEW size \in 1 .. MaxSize
      PROVE  LET Overlaps(i) == /\ dynamic_regions[i].start < ptr + size
                                /\ ptr < Regions!End(dynamic_regions[i])
                 all == {i \in 1 .. n : Overlaps(i)}
                 i == Regions!NaClDynamicRegionFind(ptr, size)
             IN  IF all = {} THEN i = 0
                 ELSE i \in all /\ \A j \in all : j <= i
  BY DEF Regions!FindFindsLast, Regions!num_dynamic_regions
<1>2. ptr \in Nat /\ size \in Nat /\ size > 0 /\ ptr + size - 1 \in Int
  BY CutoffIs
<1>3. PICK k \in 0 .. n : /\ FirstBelow(k, ptr + size - 1)
                          /\ Regions!NaClDynamicRegionFindClosestLEQ(ptr + size - 1) = k
  BY <1>2, ClosestExists
<1> DEFINE all == {i \in 1 .. n : /\ dynamic_regions[i].start < ptr + size
                                  /\ ptr < Regions!End(dynamic_regions[i])}
<1>4. Regions!NaClDynamicRegionFind(ptr, size) =
        IF k # 0 /\ ptr < Regions!End(dynamic_regions[k]) THEN k ELSE 0
  BY <1>3 DEF Regions!NaClDynamicRegionFind
<1>5. ASSUME NEW i \in 1 .. n PROVE dynamic_regions[i].start < ptr + size <=> i <= k
  <2>1. dynamic_regions[i].start <= ptr + size - 1 <=> i <= k
    BY <1>3 DEF FirstBelow
  <2> QED
    BY <2>1, <1>2, RegionIs
<1>6. \A j \in all : j \in 1 .. n /\ j <= k
  BY <1>5
<1>7. CASE k # 0 /\ ptr < Regions!End(dynamic_regions[k])
  <2>1. k \in 1 .. n
    BY <1>1, <1>7
  <2>2. k \in all
    BY <2>1, <1>5, <1>7
  <2> QED
    BY <2>2, <1>4, <1>6, <1>7
<1>8. CASE ~(k # 0 /\ ptr < Regions!End(dynamic_regions[k]))
  <2>1. ASSUME NEW j \in all PROVE FALSE
    <3>1. j \in 1 .. n /\ j <= k /\ ptr < Regions!End(dynamic_regions[j])
      BY <1>6
    <3>2. k \in 1 .. n /\ ~(ptr < Regions!End(dynamic_regions[k]))
      BY <3>1, <1>1, <1>8
    <3>3. j < k
      BY <3>1, <3>2
    <3>4. Regions!End(dynamic_regions[j]) <= dynamic_regions[k].start
      BY <3>1, <3>2, <3>3 DEF Ordered
    <3>5. /\ dynamic_regions[k].start \in Nat
          /\ dynamic_regions[k].start < Regions!End(dynamic_regions[k])
          /\ Regions!End(dynamic_regions[k]) \in Nat
      BY <3>2, RegionIs
    <3>6. Regions!End(dynamic_regions[j]) \in Nat
      BY <3>1, RegionIs
    <3> HIDE DEF all
    <3> QED
      BY <3>1, <3>2, <3>4, <3>5, <3>6, <1>2
  <2>2. all = {}
    BY <2>1
  <2> QED
    BY <2>2, <1>4, <1>8
<1> QED
  BY <1>7, <1>8

(* The buffer: MinAllocated, and what doubling it gives.                   *)
Doubles(S) == MinAllocated \in S /\ \A x \in S : 2 * x \in S
Sizes == {x \in Nat : \A S \in SUBSET Nat : Doubles(S) => x \in S}

LEMMA SizesStart == MinAllocated \in Sizes /\ \A x \in Sizes : x \in Nat
BY CutoffIs DEF Sizes, Doubles

LEMMA SizesAre ==
    ASSUME NEW x \in Nat, x \in Sizes
    PROVE  /\ x >= MinAllocated
           /\ \A y \in Nat : y = 2 * x => y \in Sizes
           /\ \A y \in Nat : x > MinAllocated /\ y = x \div 2 => y \in Sizes
<1>1. MinAllocated \in Nat /\ MinAllocated > 0
  BY CutoffIs
<1>2. MinAllocated \in Sizes
  BY SizesStart
<1>3. ASSUME NEW y \in Nat, y \in Sizes, NEW z \in Nat, z = 2 * y PROVE z \in Sizes
  <2>1. ASSUME NEW S \in SUBSET Nat, Doubles(S) PROVE z \in S
    <3>1. y \in S
      BY <1>3, <2>1 DEF Sizes
    <3> QED
      BY <3>1, <1>3, <2>1 DEF Doubles
  <2> QED
    BY <2>1 DEF Sizes
<1>4. ASSUME NEW y \in Nat, y \in Sizes PROVE y >= MinAllocated
  <2> DEFINE S == {z \in Nat : z >= MinAllocated}
  <2>1. S \in SUBSET Nat /\ MinAllocated \in S /\ \A z \in S : 2 * z \in S
    BY <1>1
  <2>2. Doubles(S)
    BY <2>1 DEF Doubles
  <2> HIDE DEF S
  <2>3. y \in S
    BY <1>4, <2>1, <2>2 DEF Sizes
  <2> QED
    BY <2>3 DEF S
<1>5. ASSUME NEW y \in Nat, y = x \div 2, x > MinAllocated PROVE y \in Sizes
  <2> DEFINE S == {MinAllocated} \cup {n \in Sizes : \E z \in Sizes : n = 2 * z}
  <2>1. \A n \in Sizes : n \in Nat
    BY DEF Sizes
  <2>2. S \in SUBSET Nat /\ MinAllocated \in S /\ \A n \in S : n \in Sizes
    BY <1>1, <1>2, <2>1
  <2>3. ASSUME NEW n \in S PROVE 2 * n \in S
    <3>1. n \in Nat /\ n \in Sizes
      BY <2>1, <2>2
    <3> PICK w : w = 2 * n
      OBVIOUS
    <3>2. w \in Nat
      BY <3>1
    <3>3. w \in Sizes
      BY <3>1, <3>2, <1>3
    <3> QED
      BY <3>1, <3>3
  <2>4. Doubles(S)
    BY <2>2, <2>3 DEF Doubles
  <2>5. x \in S
    <3> HIDE DEF S
    <3> QED
      BY <2>2, <2>4 DEF Sizes
  <2>6. PICK z \in Sizes : x = 2 * z
    BY <2>5, <1>1, <1>5
  <2>7. z \in Nat
    BY <2>1
  <2>8. y = z
    BY <2>6, <2>7, <1>5
  <2> QED
    BY <2>8
<1> QED
  BY <1>3, <1>4, <1>5

(* One element more, and one less.                                         *)
LEMMA ConcatIs ==
    ASSUME NEW T, NEW u \in Seq(T), NEW w \in Seq(T), NEW t, t = u \o w,
           NEW n \in Nat, n = Len(u), NEW m \in Nat, m = Len(w)
    PROVE  /\ t \in Seq(T) /\ Len(t) = n + m
           /\ \A i \in 1 .. n : t[i] = u[i]
           /\ \A i \in n + 1 .. n + m : t[i] = w[i - n]
BY ConcatProperties

LEMMA InsertAtUnfolds ==
    ASSUME NEW s, NEW i, NEW x
    PROVE  Regions!InsertAt(s, i, x) =
             (SubSeq(s, 1, i - 1) \o <<x>>) \o SubSeq(s, i, Len(s))
BY DEF Regions!InsertAt

(* t is s with x as its element l; k and n stand for l - 1 and Len(s).     *)
Inserted(t, s, x, k, l, n) ==
    /\ s \in Seq(Regions!Region) /\ x \in Regions!Region
    /\ n \in Nat /\ k \in Nat /\ l \in Nat
    /\ k <= n /\ n = Len(s) /\ l = k + 1 /\ t = Regions!InsertAt(s, l, x)

(* What t then holds.                                                      *)
HoldsInserted(t, s, x, k, l, n) ==
    /\ t \in Seq(Regions!Region) /\ Len(t) = n + 1
    /\ \A i \in 1 .. k : t[i] = s[i]
    /\ t[l] = x
    /\ \A i \in l + 1 .. n + 1 : t[i] = s[i - 1]

LEMMA InsertAtIs ==
    ASSUME NEW t, NEW s, NEW x, NEW k, NEW l, NEW n, Inserted(t, s, x, k, l, n)
    PROVE  HoldsInserted(t, s, x, k, l, n)
<1>0. /\ s \in Seq(Regions!Region) /\ x \in Regions!Region
      /\ n \in Nat /\ k \in Nat /\ l \in Nat
      /\ k <= n /\ n = Len(s) /\ l = k + 1 /\ t = Regions!InsertAt(s, l, x)
  BY DEF Inserted
<1> USE <1>0
<1> PICK T : T = Regions!Region
  OBVIOUS
<1> PICK u : u = SubSeq(s, 1, k)
  OBVIOUS
<1> PICK w : w = SubSeq(s, l, n)
  OBVIOUS
<1> PICK o : o = <<x>>
  OBVIOUS
<1> PICK y : y = u \o o
  OBVIOUS
<1> PICK h : h = l - 1
  OBVIOUS
<1>1. h = k
  OBVIOUS
<1>2. t = y \o w
  <2>1. Regions!InsertAt(s, l, x) =
          (SubSeq(s, 1, h) \o <<x>>) \o SubSeq(s, l, Len(s))
    BY InsertAtUnfolds
  <2>2. Regions!InsertAt(s, l, x) = (u \o o) \o w
    BY <2>1, <1>1
  <2> QED
    BY <2>2
<1>3. /\ u \in Seq(T) /\ Len(u) = k /\ \A i \in 1 .. k : u[i] = s[i]
  BY SubSeqProperties
<1>m. n - k \in Nat
  OBVIOUS
<1> PICK m \in Nat : m = n - k
  BY <1>m
<1>4. /\ w \in Seq(T) /\ Len(w) = m /\ \A i \in 1 .. m : w[i] = s[i + k]
  BY SubSeqProperties
<1>5. o \in Seq(T) /\ Len(o) = 1 /\ o[1] = x
  OBVIOUS
<1>6. /\ y \in Seq(T) /\ Len(y) = k + 1
      /\ \A i \in 1 .. k : y[i] = u[i]
      /\ \A i \in k + 1 .. k + 1 : y[i] = o[i - k]
  BY <1>3, <1>5, ConcatIs
<1>7. y[l] = x /\ Len(y) = l
  <2>1. l \in k + 1 .. k + 1 /\ l - k = 1
    OBVIOUS
  <2> QED
    BY <2>1, <1>5, <1>6
<1>8. /\ t \in Seq(T) /\ Len(t) = l + m
      /\ \A i \in 1 .. l : t[i] = y[i]
      /\ \A i \in l + 1 .. l + m : t[i] = w[i - l]
  <2>1. y \in Seq(T) /\ l = Len(y) /\ w \in Seq(T) /\ m = Len(w)
    BY <1>4, <1>6, <1>7
  <2> QED
    BY ONLY <2>1, <1>2, l \in Nat, m \in Nat, ConcatIs
<1>9. l + m = n + 1
  OBVIOUS
<1>10. ASSUME NEW i \in l + 1 .. n + 1 PROVE t[i] = s[i - 1]
  <2>1. /\ i \in l + 1 .. l + m
        /\ i - l \in 1 .. m /\ i - l + k = i - 1
    OBVIOUS
  <2>2. t[i] = w[i - l]
    BY <2>1, <1>8
  <2> QED
    BY <2>1, <2>2, <1>4
<1>11. ASSUME NEW i \in 1 .. k PROVE t[i] = s[i]
  BY <1>3, <1>6, <1>8
<1>12. t[l] = x
  BY <1>7, <1>8
<1> QED
  BY <1>8, <1>9, <1>10, <1>11, <1>12 DEF HoldsInserted

(* t is s without its element k; l, r and n stand for k - 1, k + 1, Len(s). *)
Deleted(t, s, k, l, r, n) ==
    /\ s \in Seq(Regions!Region) /\ n \in Nat /\ k \in Nat /\ l \in Nat /\ r \in Nat
    /\ 1 <= k /\ k <= n /\ n = Len(s)
    /\ l = k - 1 /\ r = k + 1 /\ t = SubSeq(s, 1, l) \o SubSeq(s, r, n)

(* What t then holds.                                                      *)
HoldsDeleted(t, s, k, l, n) ==
    /\ t \in Seq(Regions!Region) /\ Len(t) = n - 1
    /\ \A i \in 1 .. l : t[i] = s[i]
    /\ \A i \in k .. n - 1 : t[i] = s[i + 1]

LEMMA DeletedIs ==
    ASSUME NEW t, NEW s, NEW k, NEW l, NEW r, NEW n, Deleted(t, s, k, l, r, n)
    PROVE  HoldsDeleted(t, s, k, l, n)
<1>0. /\ s \in Seq(Regions!Region) /\ n \in Nat /\ k \in Nat /\ l \in Nat /\ r \in Nat
      /\ 1 <= k /\ k <= n /\ n = Len(s)
      /\ l = k - 1 /\ r = k + 1 /\ t = SubSeq(s, 1, l) \o SubSeq(s, r, n)
  BY DEF Deleted
<1> USE <1>0
<1> PICK T : T = Regions!Region
  OBVIOUS
<1> PICK u : u = SubSeq(s, 1, l)
  OBVIOUS
<1> PICK w : w = SubSeq(s, r, n)
  OBVIOUS
<1>m. n - k \in Nat
  OBVIOUS
<1> PICK m \in Nat : m = n - k
  BY <1>m
<1>1. t = u \o w
  OBVIOUS
<1>2. /\ u \in Seq(T) /\ Len(u) = l /\ \A i \in 1 .. l : u[i] = s[i]
  BY SubSeqProperties
<1>3. /\ w \in Seq(T) /\ Len(w) = m /\ \A i \in 1 .. m : w[i] = s[i + k]
  BY SubSeqProperties
<1>4. /\ t \in Seq(T) /\ Len(t) = l + m
      /\ \A i \in 1 .. l : t[i] = u[i]
      /\ \A i \in l + 1 .. l + m : t[i] = w[i - l]
  <2>1. u \in Seq(T) /\ l = Len(u) /\ w \in Seq(T) /\ m = Len(w)
    BY <1>2, <1>3
  <2> QED
    BY ONLY <2>1, <1>1, l \in Nat, m \in Nat, ConcatIs
<1>5. l + m = n - 1
  OBVIOUS
<1>6. ASSUME NEW i \in k .. n - 1 PROVE t[i] = s[i + 1]
  <2>1. /\ i \in l + 1 .. l + m /\ i - l \in 1 .. m /\ i - l + k = i + 1
    OBVIOUS
  <2>2. t[i] = w[i - l]
    BY <2>1, <1>4
  <2> QED
    BY <2>1, <2>2, <1>3
<1> QED
  BY <1>2, <1>4, <1>5, <1>6 DEF HoldsDeleted

(* The inductive invariant of the array.                                   *)
RegInv ==
    /\ dynamic_regions \in Seq(Regions!Region)
    /\ Ordered
    /\ dynamic_regions_allocated \in {0} \cup Sizes
    /\ Len(dynamic_regions) <= dynamic_regions_allocated

LEMMA RegionsTyped ==
    ASSUME RegInv
    PROVE  /\ Regions!TypeOK /\ Ordered
           /\ Len(dynamic_regions) \in Nat /\ dynamic_regions_allocated \in Nat
<1>1. Len(dynamic_regions) \in Nat
  BY DEF RegInv
<1>2. dynamic_regions_allocated \in Nat
  BY SizesStart DEF RegInv
<1>3. dynamic_regions_allocated = 0 \/ dynamic_regions_allocated >= MinAllocated
  BY <1>2, SizesAre DEF RegInv
<1> QED
  BY <1>1, <1>2, <1>3 DEF RegInv, Regions!TypeOK

LEMMA GrownIs ==
    ASSUME RegInv
    PROVE  Regions!Grown \in Sizes /\ Len(dynamic_regions) + 1 <= Regions!Grown
<1> PICK n, a : n = Len(dynamic_regions) /\ a = dynamic_regions_allocated
  OBVIOUS
<1>1. n \in Nat /\ a \in Nat /\ n <= a /\ a \in {0} \cup Sizes
  BY RegionsTyped DEF RegInv
<1>2. MinAllocated \in Nat /\ MinAllocated > 0
  BY CutoffIs
<1>3. Regions!Grown = IF a = n THEN IF 2 * a < MinAllocated THEN MinAllocated ELSE 2 * a
                      ELSE a
  BY DEF Regions!Grown, Regions!num_dynamic_regions
<1>4. CASE a # n
  BY <1>1, <1>3, <1>4
<1>5. CASE a = n /\ a = 0
  <2>1. 2 * a < MinAllocated /\ n + 1 <= MinAllocated
    BY <1>2, <1>5
  <2> QED
    BY <2>1, <1>3, <1>5, SizesStart
<1>6. CASE a = n /\ a # 0
  <2> PICK d : d = 2 * a
    OBVIOUS
  <2>3. d \in Nat /\ a \in Nat /\ a \in Sizes
    BY <1>1, <1>6
  <2>1. a >= MinAllocated /\ d \in Sizes
    BY <2>3, SizesAre
  <2>2. ~(2 * a < MinAllocated) /\ n + 1 <= 2 * a
    BY <2>1, <1>1, <1>2, <1>6
  <2> QED
    BY <2>1, <2>2, <1>3, <1>6
<1> QED
  BY <1>4, <1>5, <1>6

LEMMA ShrunkIs ==
    ASSUME NEW left \in Nat, NEW a \in {0} \cup Sizes, left <= a
    PROVE  Regions!Shrunk(left, a) \in {0} \cup Sizes /\ left <= Regions!Shrunk(left, a)
<1>1. a \in Nat
  BY SizesStart
<1>2. CASE a > MinAllocated /\ a \div 4 > left
  <2>1. a \in Sizes
    BY <1>2, CutoffIs
  <2> PICK h : h = a \div 2
    OBVIOUS
  <2>4. h \in Nat
    BY <1>1
  <2>2. h \in Sizes
    BY <2>1, <2>4, <1>1, <1>2, SizesAre
  <2>3. left <= a \div 2
    BY <1>1, <1>2
  <2> QED
    BY <2>2, <2>3, <1>2 DEF Regions!Shrunk
<1>3. CASE ~(a > MinAllocated /\ a \div 4 > left)
  BY <1>3 DEF Regions!Shrunk
<1> QED
  BY <1>2, <1>3

LEMMA CreateKeepsOrder ==
    ASSUME RegInv, NEW start \in Nat, NEW size \in Nat, NEW k \in 0 .. Len(dynamic_regions),
           FirstBelow(k, start + size - 1),
           ~(k # 0 /\ start < Regions!End(dynamic_regions[k])),
           NEW x \in Regions!Region, x = [start |-> start, size |-> size],
           dynamic_regions' = Regions!InsertAt(dynamic_regions, k + 1, x)
    PROVE  Ordered'
<1> PICK n : n = Len(dynamic_regions)
  OBVIOUS
<1> PICK t : t = dynamic_regions'
  OBVIOUS
<1>1. n \in Nat /\ k \in Nat /\ k <= n /\ Regions!TypeOK
  BY RegionsTyped
<1>2. /\ Len(t) = n + 1
      /\ \A i \in 1 .. k : t[i] = dynamic_regions[i]
      /\ t[k + 1] = x
      /\ \A i \in k + 2 .. n + 1 : t[i] = dynamic_regions[i - 1]
  <2> PICK l \in Nat : l = k + 1
    BY <1>1
  <2>1. /\ dynamic_regions \in Seq(Regions!Region)
        /\ t = Regions!InsertAt(dynamic_regions, l, x)
    BY DEF RegInv
  <2>2. /\ Len(t) = n + 1
        /\ \A i \in 1 .. k : t[i] = dynamic_regions[i]
        /\ t[l] = x
        /\ \A i \in l + 1 .. n + 1 : t[i] = dynamic_regions[i - 1]
    <3>1. Inserted(t, dynamic_regions, x, k, l, n)
      BY <2>1, <1>1 DEF Inserted
    <3>2. HoldsInserted(t, dynamic_regions, x, k, l, n)
      BY ONLY <3>1, InsertAtIs
    <3> QED
      BY <3>2 DEF HoldsInserted
  <2>3. l + 1 = k + 2
    BY <1>1
  <2> QED
    BY <2>2, <2>3
<1>3. x.start = start /\ Regions!End(x) = start + size
  BY DEF Regions!End
<1>4. ASSUME NEW i \in 1 .. n, NEW j \in 1 .. n, i < j
      PROVE  Regions!End(dynamic_regions[i]) <= dynamic_regions[j].start
  BY <1>4 DEF RegInv, Ordered
<1>5. ASSUME NEW i \in 1 .. k PROVE Regions!End(dynamic_regions[i]) <= start
  <2>1. k \in 1 .. n /\ i \in 1 .. n /\ k # 0
    BY <1>1
  <2>2. Regions!End(dynamic_regions[k]) <= start
    BY <2>1, <1>1, RegionIs
  <2>3. CASE i = k
    BY <2>2, <2>3
  <2>4. CASE i # k
    <3>1. i < k
      BY <2>4, <1>1
    <3>2. Regions!End(dynamic_regions[i]) <= dynamic_regions[k].start
      BY <2>1, <3>1, <1>4
    <3>3. /\ dynamic_regions[k].start <= Regions!End(dynamic_regions[k])
          /\ dynamic_regions[k].start \in Nat
          /\ Regions!End(dynamic_regions[k]) \in Nat
      BY <2>1, <1>1, RegionIs
    <3>4. Regions!End(dynamic_regions[i]) \in Nat
      BY <2>1, <1>1, RegionIs
    <3> QED
      BY <3>2, <3>3, <3>4, <2>2
  <2> QED
    BY <2>3, <2>4
<1>6. ASSUME NEW i \in 1 .. n, k < i PROVE start + size <= dynamic_regions[i].start
  <2>1. ~(dynamic_regions[i].start <= start + size - 1)
    BY <1>6, <1>1 DEF FirstBelow
  <2>2. dynamic_regions[i].start \in Nat
    BY <1>1, RegionIs
  <2> QED
    BY <2>1, <2>2
<1>7. ASSUME NEW i \in 1 .. n + 1, NEW j \in 1 .. n + 1, i < j
      PROVE  Regions!End(t[i]) <= t[j].start
  <2>1. CASE j <= k
    <3>1. i \in 1 .. n /\ j \in 1 .. n /\ i \in 1 .. k /\ j \in 1 .. k
      BY <2>1, <1>1, <1>7
    <3> QED
      BY <3>1, <1>2, <1>4, <1>7
  <2>2. CASE j = k + 1
    <3>1. i \in 1 .. k
      BY <2>2, <1>1, <1>7
    <3>2. t[i] = dynamic_regions[i] /\ t[j] = x
      BY <3>1, <2>2, <1>2
    <3> QED
      BY <3>1, <3>2, <1>3, <1>5
  <2>3. CASE k + 1 < j
    <3>1. /\ j \in k + 2 .. n + 1 /\ j - 1 \in 1 .. n /\ k < j - 1
      BY <2>3, <1>1
    <3>2. t[j] = dynamic_regions[j - 1]
      BY <3>1, <1>2
    <3>3. CASE i <= k
      <4>1. i \in 1 .. k /\ i \in 1 .. n /\ i < j - 1
        BY <3>3, <2>3, <1>1
      <4>2. t[i] = dynamic_regions[i]
        BY <4>1, <1>2
      <4> QED
        BY <4>1, <4>2, <3>1, <3>2, <1>4
    <3>4. CASE i = k + 1
      <4>1. t[i] = x
        BY <3>4, <1>2
      <4> QED
        BY <4>1, <3>1, <3>2, <1>3, <1>6
    <3>5. CASE k + 1 < i
      <4>1. i \in k + 2 .. n + 1 /\ i - 1 \in 1 .. n /\ i - 1 < j - 1
        BY <3>5, <1>1, <1>7
      <4>2. t[i] = dynamic_regions[i - 1]
        BY <4>1, <1>2
      <4> QED
        BY <4>1, <4>2, <3>1, <3>2, <1>4
    <3> QED
      BY <3>3, <3>4, <3>5, <1>1
  <2> QED
    BY <2>1, <2>2, <2>3, <1>1
<1> QED
  BY <1>2, <1>7 DEF Ordered

LEMMA CreateKeeps ==
    ASSUME RegInv, NEW start \in 0 .. MaxAddr, NEW size \in 1 .. MaxSize,
           Regions!NaClDynamicRegionCreate(start, size)
    PROVE  RegInv'
<1> PICK n : n = Len(dynamic_regions)
  OBVIOUS
<1>1. n \in Nat /\ Regions!TypeOK /\ Ordered
  BY RegionsTyped
<1>2. /\ start \in Nat /\ size \in Nat /\ size > 0
      /\ start + size - 1 \in Int /\ start <= start + size - 1
  BY CutoffIs
<1>3. PICK k \in 0 .. n :
        /\ FirstBelow(k, start + size - 1)
        /\ Regions!NaClDynamicRegionFindClosestLEQ(start + size - 1) = k
  BY <1>1, <1>2, ClosestExists
<1>4. k \in Nat /\ k <= n
  BY <1>1
<1> PICK from : from = IF k = 0 THEN 1 ELSE k
  OBVIOUS
<1> PICK x : x = [start |-> start, size |-> size]
  OBVIOUS
<1>5. x \in Regions!Region
  BY DEF Regions!Region
<1>6. /\ dynamic_regions_allocated' = Regions!Grown
      /\ dynamic_regions' =
           IF k # 0 /\ start < Regions!End(dynamic_regions[k]) THEN dynamic_regions
           ELSE Regions!InsertAt(dynamic_regions, Regions!InsertionPoint(from, start), x)
  BY <1>3 DEF Regions!NaClDynamicRegionCreate
<1>7. /\ dynamic_regions_allocated' \in Sizes
      /\ n + 1 <= dynamic_regions_allocated' /\ dynamic_regions_allocated' \in Nat
  BY <1>6, GrownIs, SizesStart
<1>8. CASE k # 0 /\ start < Regions!End(dynamic_regions[k])
  <2>1. dynamic_regions' = dynamic_regions
    BY <1>6, <1>8
  <2>2. Ordered'
    BY <2>1, <1>1 DEF Ordered
  <2>3. Len(dynamic_regions') <= dynamic_regions_allocated'
    BY <2>1, <1>1, <1>7
  <2> QED
    BY <2>1, <2>2, <2>3, <1>7 DEF RegInv
<1>9. CASE ~(k # 0 /\ start < Regions!End(dynamic_regions[k]))
  <2>1. ASSUME k # 0
        PROVE  dynamic_regions[k].start < start /\ k \in 1 .. n
    <3>1. k \in 1 .. n
      BY <2>1, <1>4
    <3>2. /\ dynamic_regions[k].start \in Nat
          /\ dynamic_regions[k].start < Regions!End(dynamic_regions[k])
          /\ Regions!End(dynamic_regions[k]) \in Nat
      BY <3>1, <1>1, RegionIs
    <3> QED
      BY <3>1, <3>2, <2>1, <1>2, <1>9
  <2>2. ASSUME NEW i \in 1 .. n, k < i PROVE dynamic_regions[i].start >= start
    <3>1. ~(dynamic_regions[i].start <= start + size - 1)
      BY <2>2, <1>3, <1>4 DEF FirstBelow
    <3>2. dynamic_regions[i].start \in Nat
      BY <1>1, RegionIs
    <3> QED
      BY <3>1, <3>2, <1>2
  <2>3. Regions!InsertionPoint(from, start) = k + 1
    <3> DEFINE Point(i) == /\ i > n \/ dynamic_regions[i].start >= start
                           /\ \A j \in from .. i - 1 : dynamic_regions[j].start < start
    <3>1. Regions!InsertionPoint(from, start) = CHOOSE i \in from .. n + 1 : Point(i)
      BY DEF Regions!InsertionPoint, Regions!num_dynamic_regions
    <3>2. from \in Nat /\ k + 1 \in from .. n + 1
      BY <1>1, <1>4
    <3>3. Point(k + 1)
      <4>1. k + 1 > n \/ dynamic_regions[k + 1].start >= start
        <5>1. CASE k + 1 > n
          BY <5>1
        <5>2. CASE ~(k + 1 > n)
          <6>1. k + 1 \in 1 .. n /\ k < k + 1
            BY <5>2, <1>1, <1>4
          <6> QED
            BY <6>1, <2>2
        <5> QED
          BY <5>1, <5>2
      <4>2. ASSUME NEW j \in from .. (k + 1) - 1 PROVE dynamic_regions[j].start < start
        <5>1. k # 0 /\ j = k
          BY <1>4
        <5> QED
          BY <5>1, <2>1
      <4> QED
        BY <4>1, <4>2
    <3>4. ASSUME NEW i \in from .. n + 1, Point(i) PROVE i = k + 1
      <4>1. i \in Nat /\ from <= i /\ i <= n + 1
        BY <3>2, <1>1
      <4>2. ASSUME i < k + 1 PROVE FALSE
        <5>1. k # 0 /\ i = k
          BY <4>1, <4>2, <1>4
        <5>2. ~(i > n) /\ dynamic_regions[i].start < start /\ i \in 1 .. n
          BY <5>1, <2>1, <1>4, <1>1
        <5>3. dynamic_regions[i].start >= start
          BY <5>2, <3>4
        <5>4. dynamic_regions[i].start \in Nat
          BY <5>2, <1>1, RegionIs
        <5> QED
          BY <5>2, <5>3, <5>4, <1>2
      <4>3. ASSUME k + 1 < i PROVE FALSE
        <5>1. k + 1 \in from .. i - 1 /\ k + 1 \in 1 .. n /\ k < k + 1
          BY <4>1, <4>3, <3>2, <1>1, <1>4
        <5>2. dynamic_regions[k + 1].start < start
          BY <5>1, <3>4
        <5>3. dynamic_regions[k + 1].start >= start
          BY <5>1, <2>2
        <5>4. dynamic_regions[k + 1].start \in Nat
          BY <5>1, <1>1, RegionIs
        <5> QED
          BY <5>2, <5>3, <5>4, <1>2
      <4> QED
        BY <4>1, <4>2, <4>3, <1>4
    <3> HIDE DEF Point
    <3> QED
      BY <3>1, <3>2, <3>3, <3>4
  <2>4. dynamic_regions' = Regions!InsertAt(dynamic_regions, k + 1, x)
    BY <2>3, <1>6, <1>9
  <2>5. Ordered'
    BY <2>4, <1>2, <1>3, <1>5, <1>9, CreateKeepsOrder
  <2>6. dynamic_regions' \in Seq(Regions!Region) /\ Len(dynamic_regions') = n + 1
    <3> PICK l \in Nat : l = k + 1
      BY <1>4
    <3>1. Inserted(dynamic_regions', dynamic_regions, x, k, l, n)
      BY <2>4, <1>1, <1>4, <1>5 DEF RegInv, Inserted
    <3>2. HoldsInserted(dynamic_regions', dynamic_regions, x, k, l, n)
      BY ONLY <3>1, InsertAtIs
    <3> QED
      BY <3>2 DEF HoldsInserted
  <2> QED
    BY <2>5, <2>6, <1>7 DEF RegInv
<1> QED
  BY <1>8, <1>9

LEMMA DeleteKeeps ==
    ASSUME RegInv, NEW k \in 1 .. Len(dynamic_regions), Regions!NaClDynamicRegionDelete(k)
    PROVE  RegInv'
<1> PICK n : n = Len(dynamic_regions)
  OBVIOUS
<1> PICK t : t = dynamic_regions'
  OBVIOUS
<1>1. n \in Nat /\ k \in Nat /\ 1 <= k /\ k <= n
  BY RegionsTyped
<1>2. /\ t = SubSeq(dynamic_regions, 1, k - 1) \o SubSeq(dynamic_regions, k + 1, n)
      /\ dynamic_regions_allocated' = Regions!Shrunk(n - 1, dynamic_regions_allocated)
  BY DEF Regions!NaClDynamicRegionDelete, Regions!num_dynamic_regions
<1>3. /\ t \in Seq(Regions!Region) /\ Len(t) = n - 1
      /\ \A i \in 1 .. k - 1 : t[i] = dynamic_regions[i]
      /\ \A i \in k .. n - 1 : t[i] = dynamic_regions[i + 1]
  <2> PICK l \in Nat : l = k - 1
    BY <1>1
  <2> PICK r \in Nat : r = k + 1
    BY <1>1
  <2>1. /\ dynamic_regions \in Seq(Regions!Region)
        /\ t = SubSeq(dynamic_regions, 1, l) \o SubSeq(dynamic_regions, r, n)
    BY <1>2 DEF RegInv
  <2>2. /\ t \in Seq(Regions!Region) /\ Len(t) = n - 1
        /\ \A i \in 1 .. l : t[i] = dynamic_regions[i]
        /\ \A i \in k .. n - 1 : t[i] = dynamic_regions[i + 1]
    <3>1. Deleted(t, dynamic_regions, k, l, r, n)
      BY <2>1, <1>1 DEF Deleted
    <3>2. HoldsDeleted(t, dynamic_regions, k, l, n)
      BY ONLY <3>1, DeletedIs
    <3> QED
      BY <3>2 DEF HoldsDeleted
  <2> QED
    BY <2>2
<1>4. /\ dynamic_regions_allocated' \in {0} \cup Sizes
      /\ n - 1 <= dynamic_regions_allocated'
  <2>1. /\ n - 1 \in Nat /\ n - 1 <= dynamic_regions_allocated
        /\ dynamic_regions_allocated \in {0} \cup Sizes
    BY <1>1, RegionsTyped DEF RegInv
  <2> QED
    BY <2>1, <1>2, ShrunkIs
<1>5. ASSUME NEW i \in 1 .. n - 1
      PROVE  \E a \in 1 .. n : t[i] = dynamic_regions[a]
                                /\ ((i < k /\ a = i) \/ (k <= i /\ a = i + 1))
  <2>1. CASE i < k
    BY <2>1, <1>1, <1>3
  <2>2. CASE ~(i < k)
    <3>1. i \in k .. n - 1 /\ i + 1 \in 1 .. n /\ k <= i
      BY <2>2, <1>1
    <3> QED
      BY <3>1, <1>3
  <2> QED
    BY <2>1, <2>2
<1>6. ASSUME NEW i \in 1 .. n - 1, NEW j \in 1 .. n - 1, i < j
      PROVE  Regions!End(t[i]) <= t[j].start
  <2>1. PICK a \in 1 .. n : t[i] = dynamic_regions[a]
                            /\ ((i < k /\ a = i) \/ (k <= i /\ a = i + 1))
    BY <1>5
  <2>2. PICK b \in 1 .. n : t[j] = dynamic_regions[b]
                            /\ ((j < k /\ b = j) \/ (k <= j /\ b = j + 1))
    BY <1>5
  <2>3. a < b
    BY <2>1, <2>2, <1>1, <1>6
  <2>4. Regions!End(dynamic_regions[a]) <= dynamic_regions[b].start
    BY <2>3 DEF RegInv, Ordered
  <2> QED
    BY <2>1, <2>2, <2>4
<1>7. Ordered'
  BY <1>3, <1>6 DEF Ordered
<1> QED
  BY <1>3, <1>4, <1>7 DEF RegInv

LEMMA RegInvStays == RegInv /\ UNCHANGED regionVars => RegInv'
BY DEF RegInv, Ordered, regionVars

LEMMA RegInvNext == RegInv /\ Regions!Next => RegInv'
BY CreateKeeps, DeleteKeeps DEF Regions!Next, Regions!num_dynamic_regions

LEMMA RegInvInit == Regions!Init => RegInv
<1> SUFFICES ASSUME Regions!Init PROVE RegInv
  OBVIOUS
<1>1. dynamic_regions = << >> /\ dynamic_regions_allocated = 0
  BY DEF Regions!Init
<1>2. Len(dynamic_regions) = 0 /\ dynamic_regions \in Seq(Regions!Region)
  BY <1>1
<1> QED
  BY <1>1, <1>2 DEF RegInv, Ordered

(* The search in the array of dynamic regions (NaClDynamicRegionFind of    *)
(* nacl_text.c) gives the last region that overlaps a range, and NULL only *)
(* if none does; the array stays sorted and without overlaps and has room  *)
(* for its entries, whatever regions are created and deleted: for every    *)
(* size of the address space, of the regions and of the buffer, and        *)
(* wherever the bisection gives way to the scan.                           *)
THEOREM RegionAlwaysFound == MemorySpec => []RegionFound
<1>1. MemoryInit => RegInv
  BY RegInvInit DEF MemoryInit
<1>2. RegInv /\ [MemoryNext]_memoryVars => RegInv'
  BY RegInvNext, RegInvStays DEF MemoryNext, memoryVars, regionVars
<1>3. RegInv => RegionFound
  BY RegionsTyped, FindIs
  DEF RegionFound, RegInv, Ordered, Regions!RegionsOrdered, Regions!num_dynamic_regions
<1> QED
  BY <1>1, <1>2, <1>3, PTL DEF MemorySpec
=============================================================================
