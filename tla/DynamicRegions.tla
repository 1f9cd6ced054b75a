--------------------------- MODULE DynamicRegions ---------------------------
(***************************************************************************)
(* The table of regions of dynamically loaded code (nacl_text.c): an array *)
(* that is kept sorted by address, searched by bisection with a linear     *)
(* scan at the end, and reallocated as it grows and shrinks.  All of it    *)
(* runs under nap->dynamic_load_mutex, so that one call is one step.       *)
(*                                                                         *)
(* Module DynamicCode uses what is checked here: the array is a set of     *)
(* disjoint regions in which a search finds the last region that overlaps  *)
(* a range, if there is one.                                               *)
(***************************************************************************)
EXTENDS Naturals, Sequences

CONSTANTS
    MaxAddr,     \* addresses are 0 .. MaxAddr
    MaxSize,     \* bound: size of a region
    Cutoff,      \* kBinarySearchToScanCutoff
    MinAllocated \* kMinDynamicRegionsAllocated

RegionsAssumption ==
    /\ MaxAddr \in Nat
    /\ MaxSize \in 1 .. MaxAddr + 1
    /\ Cutoff \in Nat
    /\ MinAllocated \in Nat \ {0}

Region == [start : 0 .. MaxAddr, size : 1 .. MaxSize]

VARIABLES
    dynamic_regions,            \* the entries in use, in order
    dynamic_regions_allocated   \* entries the buffer has room for

vars == <<dynamic_regions, dynamic_regions_allocated>>

num_dynamic_regions == Len(dynamic_regions)

Init == dynamic_regions = << >> /\ dynamic_regions_allocated = 0

TypeOK ==
    /\ dynamic_regions \in Seq(Region)
    /\ dynamic_regions_allocated \in Nat
    /\ dynamic_regions_allocated = 0 \/ dynamic_regions_allocated >= MinAllocated

End(r) == r.start + r.size

(* A slip: the scan goes one entry too far.                                *)
FindClosestLEQTooFar(ptr) ==
    LET n == num_dynamic_regions
    IN  IF n = 0 \/ ptr < dynamic_regions[1].start THEN 0
        ELSE CHOOSE i \in 1 .. n : i = n \/ dynamic_regions[i].start > ptr

(* The index of the last region with start <= ptr, 0 for NULL.  The range  *)
(* [b, e) is halved until it is short, and then scanned from b.            *)
NaClDynamicRegionFindClosestLEQ(ptr) ==
    LET n == num_dynamic_regions
        Below(i) == dynamic_regions[i].start <= ptr
        Search[r \in (1 .. n) \X (1 .. n + 1)] ==
            LET b == r[1]
                e == r[2]
                mid == b + (e - b) \div 2
            IN  IF b + Cutoff + 1 < e
                THEN IF Below(mid) THEN Search[<<mid, e>>] ELSE Search[<<b, mid>>]
                ELSE IF b + 1 < e /\ Below(b + 1) THEN Search[<<b + 1, e>>] ELSE b
    IN  IF n = 0 THEN 0
        ELSE IF Below(n) THEN n
        ELSE IF ptr < dynamic_regions[1].start THEN 0
        ELSE Search[<<1, n + 1>>]

(* The last region that overlaps [ptr, ptr + size), 0 for NULL.            *)
NaClDynamicRegionFind(ptr, size) ==
    LET i == NaClDynamicRegionFindClosestLEQ(ptr + size - 1)
    IN  IF i # 0 /\ ptr < End(dynamic_regions[i]) THEN i ELSE 0

(* The insertion point: from the region that was found, or from the first, *)
(* past the entries that start before the new one.                         *)
InsertionPoint(from, start) ==
    CHOOSE i \in from .. num_dynamic_regions + 1 :
        /\ i > num_dynamic_regions \/ dynamic_regions[i].start >= start
        /\ \A j \in from .. i - 1 : dynamic_regions[j].start < start

InsertAt(s, i, x) == SubSeq(s, 1, i - 1) \o <<x>> \o SubSeq(s, i, Len(s))

(* The buffer grows before the target is looked at.                        *)
Grown ==
    IF dynamic_regions_allocated = num_dynamic_regions
    THEN IF 2 * dynamic_regions_allocated < MinAllocated
         THEN MinAllocated ELSE 2 * dynamic_regions_allocated
    ELSE dynamic_regions_allocated

(* A slip: the new region is put after the one that was found.             *)
CreateAfterFound(start, size) ==
    LET found == NaClDynamicRegionFind(start, size)
        leq == NaClDynamicRegionFindClosestLEQ(start)
    IN  /\ dynamic_regions_allocated' = Grown
        /\ dynamic_regions' =
             IF found # 0 /\ dynamic_regions[found].start <= start
             THEN dynamic_regions
             ELSE InsertAt(dynamic_regions, leq + 1,
                           [start |-> start, size |-> size])

NaClDynamicRegionCreate(start, size) ==
    LET regionp == NaClDynamicRegionFindClosestLEQ(start + size - 1)
        from == IF regionp = 0 THEN 1 ELSE regionp
    IN  /\ dynamic_regions_allocated' = Grown
        /\ dynamic_regions' =
             IF regionp # 0 /\ start < End(dynamic_regions[regionp])
             THEN dynamic_regions               \* target already in use
             ELSE InsertAt(dynamic_regions, InsertionPoint(from, start),
                           [start |-> start, size |-> size])

(* The buffer is halved when more than three quarters of it are unused.    *)
Shrunk(left, allocated) ==
    IF allocated > MinAllocated /\ allocated \div 4 > left
    THEN allocated \div 2 ELSE allocated

NaClDynamicRegionDelete(i) ==
    /\ dynamic_regions' = SubSeq(dynamic_regions, 1, i - 1)
                          \o SubSeq(dynamic_regions, i + 1,
                                    num_dynamic_regions)
    /\ dynamic_regions_allocated' =
         Shrunk(num_dynamic_regions - 1, dynamic_regions_allocated)

Next ==
    \/ \E start \in 0 .. MaxAddr, size \in 1 .. MaxSize :
        /\ start + size <= MaxAddr + 1
        /\ NaClDynamicRegionCreate(start, size)
    \/ \E i \in 1 .. num_dynamic_regions : NaClDynamicRegionDelete(i)

Spec == Init /\ [][Next]_vars

-----------------------------------------------------------------------------
(* The regions stay sorted and disjoint however they are created and       *)
(* deleted, and the buffer has room for all of them.                       *)
RegionsOrdered ==
    /\ \A i, j \in 1 .. num_dynamic_regions :
         i < j => End(dynamic_regions[i]) <= dynamic_regions[j].start
    /\ num_dynamic_regions <= dynamic_regions_allocated

(* NaClDynamicRegionFind gives the last region that overlaps a range, and  *)
(* NULL only if no region does: this is what the callers in nacl_text.c    *)
(* take it for.                                                            *)
FindFindsLast ==
    \A ptr \in 0 .. MaxAddr, size \in 1 .. MaxSize :
        LET Overlaps(i) == /\ dynamic_regions[i].start < ptr + size
                           /\ ptr < End(dynamic_regions[i])
            all == {i \in 1 .. num_dynamic_regions : Overlaps(i)}
            i == NaClDynamicRegionFind(ptr, size)
        IN  IF all = {} THEN i = 0
            ELSE i \in all /\ \A j \in all : j <= i
=============================================================================
