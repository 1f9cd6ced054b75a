---------------------------- MODULE ThreadsProofs ----------------------------
(***************************************************************************)
(* Proofs about the threads of sandboxed code: that dynamic code is loaded *)
(* and unloaded safely under running threads (DynamicCode), for any number *)
(* of threads, regions, pages and generations; that threads are created,   *)
(* ended and joined safely (PthreadThread, the instance Pthread); and that *)
(* this and the promises of PthreadTsd hold in MCThreads.                  *)
(*                                                                         *)
(* The invariant for dynamic code says who may write where: a call owns a  *)
(* region from the moment it takes dynamic_load_mutex, and the places of   *)
(* two calls never overlap.  A bundle that is claimed for new code holds   *)
(* none, and no thread is inside of it; a thread that is inside of a       *)
(* bundle is covered by a region whose deletion it has not yet             *)
(* acknowledged, so that the memory is not given away under it.  The last  *)
(* point rests on the generations: what NaClMinimumThreadGeneration        *)
(* returns bounds the generation of every thread that it has seen, and     *)
(* generations only grow.                                                  *)
(***************************************************************************)
EXTENDS MCThreads, Sequences, FiniteSetTheorems, TLAPS

(* The steps of a call that has dynamic_load_mutex.                        *)
Holding == {"map", "protect", "tails", "heads", "halts", "mark", "setgen",
            "lock", "scan", "finish"}
Own(t, r) == r.start = call[t].start /\ r.size = call[t].size
Extent(r) == Span(r.start, r.size)

(* Who has dynamic_load_mutex, and what each step of a call says about the *)
(* call.                                                                   *)
Positions ==
    \A t \in Threads :
        /\ pc[t] \in Holding <=> dynamic_load_mutex = t
        /\ t \in threads <=> pc[t] # "absent"
        /\ pc[t] # "run" => at[t] = Outside
        /\ pc[t] \in {"map", "protect", "finish"} => call[t].op # "mmap"
        /\ pc[t] \in {"tails", "heads"} => call[t].op = "create"
        /\ pc[t] \in {"halts", "mark", "setgen", "lock", "scan"}
              => call[t].op = "delete"
        /\ pc[t] = "mapfile" => call[t].op = "mmap"
        /\ /\ pc[t] \in {"map", "protect", "tails", "heads", "mapfile"}
           /\ call[t].op \in {"create", "mmap"}
           => call[t].code \in Code

(* Regions lie in the area and apart from each other; those of files are   *)
(* whole pages and stay.                                                   *)
Regions ==
    /\ \A r \in dynamic_regions :
        /\ Extent(r) \subseteq Bundles
        /\ r.delete_generation <= dynamic_delete_generation
        /\ r.is_mmap => /\ r.start % BundlesPerPage = 0
                        /\ r.size % BundlesPerPage = 0
                        /\ r.delete_generation = -1
    /\ \A r, s \in dynamic_regions : r # s => Extent(r) \cap Extent(s) = {}

(* The region that the call of thread t is about, and how far its deletion *)
(* has gone.                                                               *)
Claim(t) ==
    /\ pc[t] \in {"map", "protect"} /\ call[t].op = "modify" =>
         \E r \in dynamic_regions : ~r.is_mmap /\ Target(t) \subseteq Extent(r)
    /\ \/ pc[t] \in {"map", "protect"} /\ call[t].op # "modify"
       \/ pc[t] \in {"tails", "heads", "halts", "mark"}
       => \E r \in dynamic_regions : /\ Own(t, r) /\ ~r.is_mmap
                                     /\ r.delete_generation < 0
    /\ pc[t] \in {"setgen", "lock", "scan"}
         => \E r \in dynamic_regions : /\ Own(t, r) /\ ~r.is_mmap
                                       /\ r.delete_generation >= 0
    /\ pc[t] = "mapfile"
         => \E r \in dynamic_regions : Own(t, r) /\ r.is_mmap
    /\ pc[t] \in {"map", "protect", "halts", "mark"} /\ call[t].op = "delete"
         => dynamic_delete_generation < MaxGeneration

Claims == \A t \in Threads : Claim(t)

(* Files are mapped without the mutex, at different places.                *)
Separate ==
    \A t, u \in Threads :
        pc[t] = "mapfile" /\ pc[u] = "mapfile" /\ t # u
            => Target(t) \cap Target(u) = {}

(* A page that sandboxed code can see has been filled with halts.          *)
Filled(b) ==
    Page(b) \in dynamic_page_bitmap \cup executable
        => head[b] # FRESH /\ tail[b] # FRESH

(* Memory is fresh until its page is allocated or a file is mapped there.  *)
Known(b) ==
    \/ Page(b) \in dynamic_page_bitmap
    \/ head[b] = FRESH /\ tail[b] = FRESH
    \/ \E r \in dynamic_regions : r.is_mmap /\ b \in Extent(r)

(* A head with code has its tail, and a region that is not being deleted.  *)
Live(b) ==
    head[b] \in Code =>
        /\ tail[b] = head[b]
        /\ \E r \in dynamic_regions :
             b \in Extent(r) /\ r.delete_generation < 0

Memory ==
    /\ \A b \in Bundles : Filled(b) /\ Known(b) /\ Live(b)
    /\ mapcache \subseteq executable \cap dynamic_page_bitmap

(* How far thread t has got with the bundles it writes.                    *)
WritingOf(t) ==
    /\ pc[t] \in {"protect", "tails", "heads", "halts"}
         => PagesOf(Target(t)) \subseteq dynamic_page_bitmap
    /\ pc[t] \in {"tails", "heads", "halts"}
         => todo # {} /\ todo \subseteq Target(t)
    /\ pc[t] = "tails" => \A b \in Target(t) \ todo : tail[b] = call[t].code
    /\ pc[t] = "heads" => \A b \in Target(t) : tail[b] = call[t].code
    /\ pc[t] = "halts" => \A b \in Target(t) \ todo : head[b] \notin Code
    /\ pc[t] = "mark" => \A b \in Target(t) : head[b] \notin Code

Writing == \A t \in Threads : WritingOf(t)

(* Thread t is going to put new code into its bundles.                     *)
Claiming(t) ==
    \/ pc[t] \in {"map", "protect", "tails"} /\ call[t].op = "create"
    \/ pc[t] = "mapfile"

(* Thread t has entered code at bundle b and not left it.                  *)
Inside(t, b) == at[t].code \in Code /\ at[t].bundle = b

(* Bundles that are claimed for new code hold none, and nobody is inside.  *)
Unused ==
    \A t \in Threads : Claiming(t) =>
        \A b \in Target(t) : /\ head[b] \notin Code
                             /\ \A u \in Threads : ~Inside(u, b)

(* The tail that a thread is going to run is that of its head, in a region *)
(* whose deletion it has not acknowledged.                                 *)
Entered ==
    \A t \in Threads, b \in Bundles : Inside(t, b) =>
        /\ tail[b] = at[t].code
        /\ \E r \in dynamic_regions :
             /\ b \in Extent(r)
             /\ r.delete_generation >= 0
                  => thread_generation[t] < r.delete_generation

(* No thread is ahead of the generation of deletions, or goes back when it *)
(* checks in; the minimum is right for the threads seen so far.            *)
Generations ==
    \A t \in Threads :
        /\ thread_generation[t] <= dynamic_delete_generation
        /\ pc[t] = "checkin" => /\ thread_generation[t] <= gen[t]
                                /\ gen[t] <= dynamic_delete_generation
        /\ pc[t] = "scan" => \A u \in threads \ unseen :
             rv <= thread_generation[u]

IInv ==
    /\ TypeOK
    /\ Positions
    /\ Regions
    /\ Claims
    /\ Separate
    /\ Memory
    /\ Writing
    /\ Unused
    /\ Entered
    /\ Generations

(* What thread t does in one step.                                         *)
Acts(t) ==
    \/ Spawn(t) \/ Exit(t) \/ Leave(t) \/ Ask(t)
    \/ \E b \in Bundles : Enter(t, b)
    \/ \E start \in Bundles, size \in 1 .. MaxSize :
        \/ CreateCall(t, start, size)
        \/ ModifyCall(t, start, size)
        \/ MmapCall(t, start, size)
    \/ \E r \in dynamic_regions : DeleteCall(t, r)
    \/ CheckInRead(t)
    \/ Step(t)

(* What the helpers of the actions assign.                                 *)
LEMMA GoMoves ==
    ASSUME TypeOK, NEW t \in Threads, NEW to, Go(t, to)
    PROVE  pc'[t] = to /\ \A u \in Threads : u # t => pc'[u] = pc[u]
  BY DEF TypeOK, Go

LEMMA WithSets ==
    ASSUME TypeOK, NEW t \in Threads, NEW op, NEW start, NEW sz, NEW code,
           With(t, op, start, sz, code)
    PROVE  /\ call'[t].op = op /\ call'[t].start = start
           /\ call'[t].size = sz /\ call'[t].code = code
           /\ \A u \in Threads : u # t => call'[u] = call[u]
  BY DEF TypeOK, With

LEMMA ReturnEnds ==
    ASSUME TypeOK, NEW t \in Threads, Return(t)
    PROVE  /\ pc'[t] = "run" /\ call'[t] = NoCall
           /\ \A u \in Threads : u # t =>
                call'[u] = call[u] /\ pc'[u] = pc[u]
  BY GoMoves DEF TypeOK, Return

LEMMA Loads ==
    ASSUME TypeOK, DynamicCodeAssumption, loaded < MaxCode
    PROVE  loaded + 1 \in Code
  BY DEF TypeOK, DynamicCodeAssumption, Code

(* The invariant, conjunct by conjunct: each has one case per action.      *)
LEMMA PositionsStep ==
    ASSUME DynamicCodeAssumption, IInv, NEW t \in Threads, Acts(t)
    PROVE  Positions'
<1>1. CASE Spawn(t)
  BY <1>1
     DEF Spawn, Positions, Holding, Go, text, scan, counters, IInv, TypeOK, PC,
         Op, Code, NoCall, Outside
<1>2. CASE Exit(t)
  BY <1>2
     DEF Exit, Positions, Holding, Go, text, scan, counters, IInv, TypeOK, PC,
         Op, Code, NoCall, Outside, OutsideCode
<1>3. CASE Leave(t)
  BY <1>3
     DEF Leave, Positions, Holding, Go, text, scan, counters, IInv, TypeOK, PC,
         Op, Code, NoCall, Outside
<1>4. CASE Ask(t)
  BY <1>4
     DEF Ask, Positions, Holding, Go, text, scan, counters, IInv, TypeOK, PC,
         Op, Code, NoCall, Outside, OutsideCode
<1>5. ASSUME NEW b \in Bundles, Enter(t, b)
      PROVE  Positions'
  BY <1>5
     DEF Enter, Positions, Holding, Go, text, scan, counters, IInv, TypeOK, PC,
         Op, Code, NoCall, Outside, OutsideCode
<1>6. ASSUME NEW start \in Bundles, NEW size \in 1 .. MaxSize,
             CreateCall(t, start, size)
      PROVE  Positions'
  <2>1. TypeOK /\ Positions
    BY <1>6 DEF CreateCall, IInv
  <2>2. QED
    BY <1>6, <2>1, GoMoves, WithSets, Loads
       DEF CreateCall, Lock, Positions, Holding, IInv, DynamicCodeAssumption
<1>7. ASSUME NEW start \in Bundles, NEW size \in 1 .. MaxSize,
             ModifyCall(t, start, size)
      PROVE  Positions'
  <2>1. TypeOK /\ Positions
    BY <1>7 DEF ModifyCall, IInv
  <2>2. QED
    BY <1>7, <2>1, GoMoves, WithSets, Loads
       DEF ModifyCall, Lock, Positions, Holding, IInv, DynamicCodeAssumption
<1>8. ASSUME NEW start \in Bundles, NEW size \in 1 .. MaxSize,
             MmapCall(t, start, size)
      PROVE  Positions'
  <2>1. TypeOK /\ Positions
    BY <1>8 DEF MmapCall, IInv
  <2>2. QED
    BY <1>8, <2>1, GoMoves, WithSets, Loads
       DEF MmapCall, Positions, Holding, IInv, DynamicCodeAssumption
<1>9. ASSUME NEW r \in dynamic_regions, DeleteCall(t, r)
      PROVE  Positions'
  <2>1. TypeOK /\ Positions
    BY <1>9 DEF DeleteCall, IInv
  <2>2. QED
    BY <1>9, <2>1, GoMoves, WithSets, Loads
       DEF DeleteCall, Lock, Positions, Holding, IInv, DynamicCodeAssumption
<1>10. CASE CheckInRead(t)
  BY <1>10
     DEF CheckInRead, Positions, Holding, Go, text, scan, counters, IInv,
         TypeOK, PC, Op, Code, NoCall, Outside
<1>11. CASE MapHit(t)
  BY <1>11
     DEF MapHit, Positions, Holding, Go, text, scan, counters, IInv, TypeOK,
         PC, Op, Code, NoCall, Outside, AfterMap
<1>12. CASE MapFails(t)
  <2>1. TypeOK /\ Positions /\ Return(t)
    BY <1>12 DEF MapFails, IInv
  <2>2. QED
    BY <1>12, <2>1, ReturnEnds
       DEF MapFails, Unlock, Positions, Holding, IInv, TypeOK, NoCall, text,
           counters, DynamicCodeAssumption
<1>13. CASE MapMiss(t)
  BY <1>13
     DEF MapMiss, Positions, Holding, Go, text, scan, counters, IInv, TypeOK,
         PC, Op, Code, NoCall, Outside
<1>14. CASE Protect(t)
  BY <1>14
     DEF Protect, Positions, Holding, Go, text, scan, counters, IInv, TypeOK,
         PC, Op, Code, NoCall, Outside, AfterMap
<1>15. CASE Finish(t)
  <2>1. TypeOK /\ Positions /\ Return(t)
    BY <1>15 DEF Finish, IInv
  <2>2. QED
    BY <1>15, <2>1, ReturnEnds
       DEF Finish, Unlock, Positions, Holding, IInv, TypeOK, NoCall, text,
           counters, DynamicCodeAssumption
<1>16. ASSUME NEW b \in Bundles, CopyTail(t, b)
      PROVE  Positions'
  BY <1>16
     DEF CopyTail, Positions, Holding, Go, text, scan, counters, IInv, TypeOK,
         PC, Op, Code, NoCall, Outside, Written
<1>17. ASSUME NEW b \in Bundles, CopyHead(t, b)
      PROVE  Positions'
  BY <1>17
     DEF CopyHead, Positions, Holding, Go, text, scan, counters, IInv, TypeOK,
         PC, Op, Code, NoCall, Outside, Written
<1>18. ASSUME NEW b \in Bundles, HaltHead(t, b)
      PROVE  Positions'
  BY <1>18
     DEF HaltHead, Positions, Holding, Go, text, scan, counters, IInv, TypeOK,
         PC, Op, Code, NoCall, Outside, Written
<1>19. CASE MarkDeleted(t)
  BY <1>19
     DEF MarkDeleted, Positions, Holding, Go, text, scan, counters, IInv,
         TypeOK, PC, Op, Code, NoCall, Outside, ClearCacheIfNeeded
<1>20. CASE SetOwnGeneration(t)
  BY <1>20
     DEF SetOwnGeneration, Positions, Holding, Go, text, scan, counters, IInv,
         TypeOK, PC, Op, Code, NoCall, Outside, SetThreadGeneration
<1>21. CASE LockThreads(t)
  BY <1>21
     DEF LockThreads, Positions, Holding, Go, text, scan, counters, IInv,
         TypeOK, PC, Op, Code, NoCall, Outside
<1>22. ASSUME NEW u \in Threads, LookAtThread(t, u)
      PROVE  Positions'
  BY <1>22
     DEF LookAtThread, Positions, Holding, Go, text, scan, counters, IInv,
         TypeOK, PC, Op, Code, NoCall, Outside
<1>23. CASE Decide(t)
  <2>1. TypeOK /\ Positions /\ Return(t)
    BY <1>23 DEF Decide, IInv
  <2>2. QED
    BY <1>23, <2>1, ReturnEnds
       DEF Decide, Unlock, Positions, Holding, IInv, TypeOK, NoCall, text,
           counters, DynamicCodeAssumption
<1>24. CASE CheckInSet(t)
  BY <1>24
     DEF CheckInSet, Positions, Holding, Go, text, scan, counters, IInv,
         TypeOK, PC, Op, Code, NoCall, Outside, SetThreadGeneration
<1>25. CASE MapFile(t)
  BY <1>25
     DEF MapFile, Positions, Holding, Go, text, scan, counters, IInv, TypeOK,
         PC, Op, Code, NoCall, Outside, Return
<1>26. QED
  BY <1>1, <1>2, <1>3, <1>4, <1>5, <1>6, <1>7, <1>8, <1>9, <1>10, <1>11, <1>12,
     <1>13, <1>14, <1>15, <1>16, <1>17, <1>18, <1>19, <1>20, <1>21, <1>22,
     <1>23, <1>24, <1>25
     DEF Acts, Step

(* The fields of a region.                                                 *)
LEMMA RegionFields ==
    ASSUME TypeOK, DynamicCodeAssumption, NEW r \in dynamic_regions
    PROVE  /\ r.start \in Int /\ 0 <= r.start
           /\ r.size \in Int /\ 1 <= r.size
           /\ r.delete_generation \in Int /\ -1 <= r.delete_generation
           /\ r.is_mmap \in BOOLEAN
           /\ r.start \in Extent(r)
           /\ r \in Region
<1>1. r \in Region
  BY DEF TypeOK
<1>2. /\ r.start \in Bundles /\ r.size \in 1 .. NumBundles
      /\ r.delete_generation \in -1 .. MaxGeneration
      /\ r.is_mmap \in BOOLEAN
  BY <1>1 DEF Region
<1>3. QED
  BY <1>1, <1>2 DEF Bundles, Extent, Span, DynamicCodeAssumption

(* The region that a call of nacl_dyncode_delete is about.                 *)
LEMMA DeletingOwn ==
    ASSUME DynamicCodeAssumption, IInv, NEW t \in Threads,
           pc[t] \in {"mark", "setgen", "lock", "scan"}
    PROVE  /\ Deleting(t) \in dynamic_regions
           /\ Own(t, Deleting(t)) /\ ~Deleting(t).is_mmap
           /\ pc[t] = "mark" => Deleting(t).delete_generation < 0
           /\ pc[t] # "mark" => Deleting(t).delete_generation >= 0
           /\ Extent(Deleting(t)) = Target(t)
           /\ \A r \in dynamic_regions :
                r # Deleting(t) => Extent(r) \cap Target(t) = {}
<1>1. PICK r \in dynamic_regions :
        /\ Own(t, r) /\ ~r.is_mmap
        /\ pc[t] = "mark" => r.delete_generation < 0
        /\ pc[t] # "mark" => r.delete_generation >= 0
  BY DEF IInv, Claims, Claim
<1>2. /\ Deleting(t) \in dynamic_regions
      /\ Own(t, Deleting(t))
  BY <1>1 DEF Deleting, Own
<1>3. Extent(r) = Target(t) /\ Extent(Deleting(t)) = Target(t)
  BY <1>1, <1>2 DEF Extent, Own, Target
<1>4. r.start \in Extent(r)
  BY RegionFields DEF IInv
<1>5. r = Deleting(t)
  BY <1>2, <1>3, <1>4 DEF IInv, Regions
<1>6. QED
  BY <1>1, <1>2, <1>3, <1>5 DEF IInv, Regions

(* A new region overlaps no other (Overlapping); a region that is marked   *)
(* or removed leaves the others alone.                                     *)
LEMMA RegionsStep ==
    ASSUME DynamicCodeAssumption, IInv, NEW t \in Threads, Acts(t)
    PROVE  Regions'
<1>1. CASE UNCHANGED <<dynamic_regions, dynamic_delete_generation>>
  BY <1>1 DEF Regions, IInv
<1>2. ASSUME NEW start \in Bundles, NEW size \in 1 .. MaxSize,
             CreateCall(t, start, size)
      PROVE  Regions'
  <2>1. /\ Overlapping(start, size) = {}
        /\ dynamic_regions' = dynamic_regions
             \cup {NewRegion(start, size, FALSE)}
    BY <1>2 DEF CreateCall
  <2>2. \A r \in dynamic_regions : Extent(r) \cap Span(start, size) = {}
    BY <2>1 DEF Overlapping, Extent
  <2>3. Extent(NewRegion(start, size, FALSE)) = Span(start, size)
    BY DEF NewRegion, Extent
  <2> DEFINE n == NewRegion(start, size, FALSE)
  <2>4. /\ n.start = start /\ n.size = size /\ n.is_mmap = FALSE
        /\ n.delete_generation = -1
    BY DEF NewRegion
  <2>5. /\ Span(start, size) \subseteq Bundles
        /\ dynamic_delete_generation' = dynamic_delete_generation
        /\ n.is_mmap => start % BundlesPerPage = 0 /\ size % BundlesPerPage = 0
    BY <1>2, <2>4 DEF CreateCall
  <2>7. -1 <= dynamic_delete_generation
    BY DEF IInv, TypeOK
  <2>8. /\ dynamic_regions' = dynamic_regions \cup {n}
        /\ Extent(n) = Span(start, size)
    BY <2>1, <2>3
  <2> HIDE DEF n
  <2>6. QED
    BY <2>2, <2>4, <2>5, <2>7, <2>8 DEF Regions, IInv
<1>3. ASSUME NEW start \in Bundles, NEW size \in 1 .. MaxSize,
             MmapCall(t, start, size)
      PROVE  Regions'
  <2>1. /\ Overlapping(start, size) = {}
        /\ dynamic_regions' = dynamic_regions
             \cup {NewRegion(start, size, TRUE)}
    BY <1>3 DEF MmapCall
  <2>2. \A r \in dynamic_regions : Extent(r) \cap Span(start, size) = {}
    BY <2>1 DEF Overlapping, Extent
  <2>3. Extent(NewRegion(start, size, TRUE)) = Span(start, size)
    BY DEF NewRegion, Extent
  <2> DEFINE n == NewRegion(start, size, TRUE)
  <2>4. /\ n.start = start /\ n.size = size /\ n.is_mmap = TRUE
        /\ n.delete_generation = -1
    BY DEF NewRegion
  <2>5. /\ Span(start, size) \subseteq Bundles
        /\ dynamic_delete_generation' = dynamic_delete_generation
        /\ n.is_mmap => start % BundlesPerPage = 0 /\ size % BundlesPerPage = 0
    BY <1>3, <2>4 DEF MmapCall
  <2>7. -1 <= dynamic_delete_generation
    BY DEF IInv, TypeOK
  <2>8. /\ dynamic_regions' = dynamic_regions \cup {n}
        /\ Extent(n) = Span(start, size)
    BY <2>1, <2>3
  <2> HIDE DEF n
  <2>6. QED
    BY <2>2, <2>4, <2>5, <2>7, <2>8 DEF Regions, IInv
<1>4. CASE MarkDeleted(t)
  <2>1. /\ Deleting(t) \in dynamic_regions /\ ~Deleting(t).is_mmap
        /\ pc[t] = "mark"
    BY <1>4, DeletingOwn DEF MarkDeleted
  <2> DEFINE d == [Deleting(t) EXCEPT !.delete_generation =
                             dynamic_delete_generation']
  <2>2. Deleting(t) \in Region
    BY <2>1, RegionFields DEF IInv
  <2>3. /\ d.start = Deleting(t).start /\ d.size = Deleting(t).size
        /\ d.is_mmap = Deleting(t).is_mmap
        /\ d.delete_generation = dynamic_delete_generation'
    BY <2>2 DEF Region
  <2>4. Extent(d) = Extent(Deleting(t))
    BY <2>3 DEF Extent
  <2>5. /\ dynamic_regions' = (dynamic_regions \ {Deleting(t)}) \cup {d}
        /\ dynamic_delete_generation' = dynamic_delete_generation + 1
    BY <1>4 DEF MarkDeleted
  <2>6. \A r \in dynamic_regions :
          r.delete_generation \in Int /\ dynamic_delete_generation \in Int
    BY RegionFields DEF IInv, TypeOK
  <2> HIDE DEF d
  <2>7. QED
    BY <2>1, <2>3, <2>4, <2>5, <2>6 DEF Regions, IInv
<1>5. CASE Decide(t)
  <2>1. /\ dynamic_regions' \subseteq dynamic_regions
        /\ dynamic_delete_generation' = dynamic_delete_generation
    BY <1>5 DEF Decide
  <2>2. QED
    BY <2>1 DEF Regions, IInv
<1>6. QED
  BY <1>1, <1>2, <1>3, <1>4, <1>5
     DEF Acts, Step, Spawn, Exit, Leave, Ask, Enter, ModifyCall, DeleteCall,
         CheckInRead, MapHit, MapFails, MapMiss, Protect, Finish, CopyTail,
         CopyHead, HaltHead, SetOwnGeneration, LockThreads, LookAtThread,
         CheckInSet, MapFile, OutsideCode, Written, Return, text, scan,
         counters

CallSet == [op : Op, start : Bundles, size : 1 .. NumBundles,
            code : 0 .. MaxCode]

(* Types of what the helpers assign.                                       *)
LEMMA GoTypes ==
    ASSUME TypeOK, NEW t \in Threads, NEW to \in PC, Go(t, to)
    PROVE  pc' \in [Threads -> PC]
  BY DEF TypeOK, Go

LEMMA WithTypes ==
    ASSUME TypeOK, NEW t \in Threads, NEW op \in Op, NEW start \in Bundles,
           NEW sz \in 1 .. NumBundles, NEW code \in 0 .. MaxCode,
           With(t, op, start, sz, code)
    PROVE  call' \in [Threads -> CallSet]
  BY DEF TypeOK, With, CallSet

LEMMA ReturnTypes ==
    ASSUME TypeOK, DynamicCodeAssumption, NEW t \in Threads, Return(t)
    PROVE  call' \in [Threads -> CallSet] /\ pc' \in [Threads -> PC]
<1>1. NoCall \in CallSet
  BY DEF NoCall, CallSet, Op, Bundles, DynamicCodeAssumption
<1>2. QED
  BY <1>1, GoTypes DEF TypeOK, Return, CallSet, PC

(* The bundles of a call are bundles of the area.                          *)
LEMMA Targets ==
    ASSUME DynamicCodeAssumption, IInv, NEW t \in Threads,
           pc[t] \in {"map", "protect", "tails", "heads", "halts", "mark",
                     "mapfile"}
    PROVE  /\ Target(t) \subseteq Bundles /\ Target(t) # {}
           /\ PagesOf(Target(t)) \subseteq Pages
<1>1. \E r \in dynamic_regions : Target(t) \subseteq Extent(r)
  BY DEF IInv, Claims, Claim, Positions, Own, Extent, Target, Holding
<1>2. Target(t) \subseteq Bundles
  BY <1>1 DEF IInv, Regions
<1>3. call[t].start \in Bundles /\ call[t].size \in 1 .. NumBundles
  BY DEF IInv, TypeOK
<1>4. call[t].start \in Target(t)
  BY <1>3 DEF Bundles, Target, Span
<1>5. QED
  BY <1>2, <1>4 DEF PagesOf, Pages

(* A range that fits into the area is not larger than it.                  *)
LEMMA SizesFit ==
    ASSUME DynamicCodeAssumption, NEW start \in Bundles,
           NEW sz \in 1 .. MaxSize,
           Span(start, sz) \subseteq Bundles
    PROVE  sz \in 1 .. NumBundles
<1>1. start \in Int /\ 0 <= start /\ sz \in Int /\ 1 <= sz
  BY DEF Bundles
<1>2. start + sz - 1 \in Span(start, sz)
  BY <1>1 DEF Span
<1>3. start + sz - 1 \in 0 .. NumBundles - 1
  BY <1>2 DEF Bundles
<1>4. NumBundles \in Int
  BY DEF DynamicCodeAssumption
<1>5. QED
  BY <1>1, <1>3, <1>4

LEMMA NewRegions ==
    ASSUME DynamicCodeAssumption, NEW start \in Bundles,
           NEW sz \in 1 .. NumBundles,
           NEW mm \in BOOLEAN
    PROVE  NewRegion(start, sz, mm) \in Region
  BY DEF NewRegion, Region, DynamicCodeAssumption

(* Types; the generation stays in range because a call fails before it     *)
(* would not.                                                              *)
LEMMA TypeStep ==
    ASSUME DynamicCodeAssumption, IInv, NEW t \in Threads, Acts(t)
    PROVE  TypeOK'
<1>1. CASE Spawn(t)
  BY <1>1
     DEF Spawn, Go, text, scan, counters, IInv, TypeOK, PC, Op, NoCall,
         Outside, DynamicCodeAssumption
<1>2. CASE Exit(t)
  BY <1>2
     DEF Exit, Go, text, scan, counters, IInv, TypeOK, PC, Op, NoCall, Outside,
         DynamicCodeAssumption, OutsideCode
<1>3. CASE Leave(t)
  <2>1. Outside \in [bundle : Bundles, code : {HALT} \cup Code]
    BY DEF Outside, Bundles, DynamicCodeAssumption
  <2>2. QED
    BY <1>3, <2>1 DEF Leave, IInv, TypeOK, text, scan, counters
<1>4. CASE Ask(t)
  BY <1>4
     DEF Ask, Go, text, scan, counters, IInv, TypeOK, PC, Op, NoCall, Outside,
         DynamicCodeAssumption, OutsideCode
<1>5. ASSUME NEW b \in Bundles, Enter(t, b)
      PROVE  TypeOK'
  BY <1>5
     DEF Enter, Go, text, scan, counters, IInv, TypeOK, PC, Op, NoCall,
         Outside, DynamicCodeAssumption, OutsideCode
<1>6. ASSUME NEW start \in Bundles, NEW size \in 1 .. MaxSize,
             CreateCall(t, start, size)
      PROVE  TypeOK'
  <2>1. /\ pc' \in [Threads -> PC] /\ call' \in [Threads -> CallSet]
    BY <1>6, GoTypes, WithTypes, Loads, SizesFit
       DEF CreateCall, IInv, PC, Op, Code, TypeOK
  <2>2. dynamic_regions' \subseteq Region
    BY <1>6, NewRegions, SizesFit DEF CreateCall, IInv, TypeOK, Lock
  <2>3. loaded' \in 0 .. MaxCode
    BY <1>6, Loads DEF CreateCall, IInv, TypeOK, Code, counters
  <2>4. QED
    BY <1>6, <2>1, <2>2, <2>3
       DEF CreateCall, IInv, TypeOK, CallSet, text, scan, counters, Lock
<1>7. ASSUME NEW start \in Bundles, NEW size \in 1 .. MaxSize,
             ModifyCall(t, start, size)
      PROVE  TypeOK'
  <2>1. PICK r \in dynamic_regions : Span(start, size) \subseteq Extent(r)
    BY <1>7 DEF ModifyCall, Extent
  <2>2. Span(start, size) \subseteq Bundles
    BY <2>1 DEF IInv, Regions
  <2>3. pc' \in [Threads -> PC]
    BY <1>7, GoTypes DEF ModifyCall, IInv, PC
  <2>5. 0 \in 0 .. MaxCode /\ "modify" \in Op
    BY DEF Op, DynamicCodeAssumption
  <2>6. call' \in [Threads -> CallSet]
    BY <1>7, <2>2, <2>5, WithTypes, SizesFit DEF ModifyCall, IInv
  <2>4. QED
    BY <1>7, <2>3, <2>6
       DEF ModifyCall, IInv, TypeOK, CallSet, text, scan, counters, Lock
<1>8. ASSUME NEW start \in Bundles, NEW size \in 1 .. MaxSize,
             MmapCall(t, start, size)
      PROVE  TypeOK'
  <2>a. loaded' = loaded + 1 /\ loaded + 1 \in Code
    BY <1>8, Loads DEF MmapCall, IInv
  <2>b. loaded' \in 0 .. MaxCode /\ "mmap" \in Op /\ size \in 1 .. NumBundles
    BY <1>8, <2>a, SizesFit DEF MmapCall, Op, Code
  <2>c. call' \in [Threads -> CallSet]
    BY <1>8, <2>b, WithTypes DEF MmapCall, IInv
  <2>d. pc' \in [Threads -> PC]
    BY <1>8, GoTypes DEF MmapCall, IInv, PC
  <2>1. /\ pc' \in [Threads -> PC] /\ call' \in [Threads -> CallSet]
    BY <2>c, <2>d
  <2>2. dynamic_regions' \subseteq Region
    BY <1>8, NewRegions, SizesFit DEF MmapCall, IInv, TypeOK
  <2>3. loaded' \in 0 .. MaxCode
    BY <1>8, Loads DEF MmapCall, IInv, TypeOK, Code, counters
  <2>4. QED
    BY <1>8, <2>1, <2>2, <2>3
       DEF MmapCall, IInv, TypeOK, CallSet, text, scan, counters, Lock
<1>9. ASSUME NEW r \in dynamic_regions, DeleteCall(t, r)
      PROVE  TypeOK'
  <2>1. r.start \in Bundles /\ r.size \in 1 .. NumBundles
    BY RegionFields DEF IInv, Region
  <2>3. pc' \in [Threads -> PC]
    <3>1. (IF r.delete_generation < 0 THEN "map" ELSE "setgen") \in PC
      BY DEF PC
    <3>2. QED
      BY <1>9, <3>1, GoTypes DEF DeleteCall, IInv
  <2>5. 0 \in 0 .. MaxCode /\ "delete" \in Op
    BY DEF Op, DynamicCodeAssumption
  <2>6. call' \in [Threads -> CallSet]
    BY <1>9, <2>1, <2>5, WithTypes DEF DeleteCall, IInv
  <2>4. QED
    BY <1>9, <2>3, <2>6
       DEF DeleteCall, IInv, TypeOK, CallSet, text, scan, counters, Lock
<1>10. CASE CheckInRead(t)
  BY <1>10
     DEF CheckInRead, Go, text, scan, counters, IInv, TypeOK, PC, Op, NoCall,
         Outside, DynamicCodeAssumption
<1>11. CASE MapHit(t)
  <2>1. AfterMap[call[t].op] \in PC
    BY <1>11 DEF MapHit, IInv, Positions, TypeOK, Op, PC, AfterMap, Holding
  <2>2. pc' \in [Threads -> PC]
    BY <1>11, <2>1, GoTypes DEF MapHit, IInv
  <2>3. Target(t) \subseteq Bundles /\ PagesOf(Target(t)) \subseteq Pages
    BY <1>11, Targets DEF MapHit
  <2>4. QED
    BY <1>11, <2>2, <2>3 DEF MapHit, IInv, TypeOK, text, scan, counters
<1>12. CASE MapFails(t)
  <2>1. call' \in [Threads -> CallSet] /\ pc' \in [Threads -> PC]
    BY <1>12, ReturnTypes DEF MapFails, IInv
  <2>2. QED
    BY <1>12, <2>1
       DEF MapFails, IInv, TypeOK, CallSet, text, scan, counters, Unlock,
           DynamicCodeAssumption
<1>13. CASE MapMiss(t)
  <2>1. Target(t) \subseteq Bundles /\ PagesOf(Target(t)) \subseteq Pages
    BY <1>13, Targets DEF MapMiss
  <2>2. pc' \in [Threads -> PC]
    BY <1>13, GoTypes DEF MapMiss, IInv, PC
  <2>3. head' \in [Bundles -> Content] /\ tail' \in [Bundles -> Content]
    BY <1>13 DEF MapMiss, FillWithHalt, IInv, TypeOK, Content
  <2>4. QED
    BY <1>13, <2>1, <2>2, <2>3 DEF MapMiss, IInv, TypeOK, scan, counters
<1>14. CASE Protect(t)
  <2>1. AfterMap[call[t].op] \in PC
    BY <1>14 DEF Protect, IInv, Positions, TypeOK, Op, PC, AfterMap, Holding
  <2>2. pc' \in [Threads -> PC]
    BY <1>14, <2>1, GoTypes DEF Protect, IInv
  <2>3. Target(t) \subseteq Bundles /\ PagesOf(Target(t)) \subseteq Pages
    BY <1>14, Targets DEF Protect
  <2>4. QED
    BY <1>14, <2>2, <2>3 DEF Protect, IInv, TypeOK, text, scan, counters
<1>15. CASE Finish(t)
  <2>1. call' \in [Threads -> CallSet] /\ pc' \in [Threads -> PC]
    BY <1>15, ReturnTypes DEF Finish, IInv
  <2>2. QED
    BY <1>15, <2>1
       DEF Finish, IInv, TypeOK, CallSet, text, scan, counters, Unlock,
           DynamicCodeAssumption, ClearCacheIfNeeded
<1>16. ASSUME NEW b \in Bundles, CopyTail(t, b)
      PROVE  TypeOK'
  <2>1. Target(t) \subseteq Bundles
    BY <1>16, Targets DEF CopyTail
  <2>2. todo' \subseteq Bundles
    BY <1>16, <2>1 DEF CopyTail, Written, IInv, TypeOK
  <2>3. pc' \in [Threads -> PC]
    <3>1. (IF todo = {b} THEN "heads" ELSE pc[t]) \in PC
      BY DEF IInv, TypeOK, PC
    <3>2. QED
      BY <1>16, <3>1, GoTypes DEF CopyTail, Written, IInv
  <2>4. head' \in [Bundles -> Content] /\ tail' \in [Bundles -> Content]
    BY <1>16 DEF CopyTail, IInv, TypeOK, Content, Positions, Holding
  <2>5. QED
    BY <1>16, <2>2, <2>3, <2>4
       DEF CopyTail, Written, IInv, TypeOK, text, scan, counters
<1>17. ASSUME NEW b \in Bundles, CopyHead(t, b)
      PROVE  TypeOK'
  <2>1. Target(t) \subseteq Bundles
    BY <1>17, Targets DEF CopyHead
  <2>2. todo' \subseteq Bundles
    BY <1>17, <2>1 DEF CopyHead, Written, IInv, TypeOK
  <2>3. pc' \in [Threads -> PC]
    <3>1. (IF todo = {b} THEN "finish" ELSE pc[t]) \in PC
      BY DEF IInv, TypeOK, PC
    <3>2. QED
      BY <1>17, <3>1, GoTypes DEF CopyHead, Written, IInv
  <2>4. head' \in [Bundles -> Content] /\ tail' \in [Bundles -> Content]
    BY <1>17 DEF CopyHead, IInv, TypeOK, Content, Positions, Holding
  <2>5. QED
    BY <1>17, <2>2, <2>3, <2>4
       DEF CopyHead, Written, IInv, TypeOK, text, scan, counters
<1>18. ASSUME NEW b \in Bundles, HaltHead(t, b)
      PROVE  TypeOK'
  <2>1. Target(t) \subseteq Bundles
    BY <1>18, Targets DEF HaltHead
  <2>2. todo' \subseteq Bundles
    BY <1>18, <2>1 DEF HaltHead, Written, IInv, TypeOK
  <2>3. pc' \in [Threads -> PC]
    <3>1. (IF todo = {b} THEN "mark" ELSE pc[t]) \in PC
      BY DEF IInv, TypeOK, PC
    <3>2. QED
      BY <1>18, <3>1, GoTypes DEF HaltHead, Written, IInv
  <2>4. head' \in [Bundles -> Content] /\ tail' \in [Bundles -> Content]
    BY <1>18 DEF HaltHead, IInv, TypeOK, Content, Positions, Holding
  <2>5. QED
    BY <1>18, <2>2, <2>3, <2>4
       DEF HaltHead, Written, IInv, TypeOK, text, scan, counters
<1>19. CASE MarkDeleted(t)
  <2>1. dynamic_delete_generation' \in 0 .. MaxGeneration
    <3>1. pc[t] = "mark" /\ call[t].op = "delete"
      BY <1>19 DEF MarkDeleted, IInv, Positions
    <3>2. dynamic_delete_generation < MaxGeneration
      BY <3>1 DEF IInv, Claims, Claim
    <3>3. QED
      BY <1>19, <3>2 DEF MarkDeleted, IInv, TypeOK, DynamicCodeAssumption
  <2>2. Deleting(t) \in Region
    BY <1>19, DeletingOwn, RegionFields DEF MarkDeleted, IInv
  <2>3. [Deleting(t) EXCEPT !.delete_generation = dynamic_delete_generation']
          \in Region
    BY <2>1, <2>2 DEF Region
  <2>4. dynamic_regions' \subseteq Region
    BY <1>19, <2>3 DEF MarkDeleted, IInv, TypeOK
  <2>5. pc' \in [Threads -> PC]
    BY <1>19, GoTypes DEF MarkDeleted, IInv, PC
  <2>6. QED
    BY <1>19, <2>1, <2>4, <2>5
       DEF MarkDeleted, ClearCacheIfNeeded, IInv, TypeOK, text, scan, counters
<1>20. CASE SetOwnGeneration(t)
  BY <1>20
     DEF SetOwnGeneration, Go, text, scan, counters, IInv, TypeOK, PC, Op,
         NoCall, Outside, DynamicCodeAssumption, SetThreadGeneration
<1>21. CASE LockThreads(t)
  BY <1>21
     DEF LockThreads, Go, text, scan, counters, IInv, TypeOK, PC, Op, NoCall,
         Outside, DynamicCodeAssumption
<1>22. ASSUME NEW u \in Threads, LookAtThread(t, u)
      PROVE  TypeOK'
  BY <1>22
     DEF LookAtThread, Go, text, scan, counters, IInv, TypeOK, PC, Op, NoCall,
         Outside, DynamicCodeAssumption
<1>23. CASE Decide(t)
  <2>1. call' \in [Threads -> CallSet] /\ pc' \in [Threads -> PC]
    BY <1>23, ReturnTypes DEF Decide, IInv
  <2>2. QED
    BY <1>23, <2>1
       DEF Decide, IInv, TypeOK, CallSet, text, scan, counters, Unlock,
           DynamicCodeAssumption
<1>24. CASE CheckInSet(t)
  BY <1>24
     DEF CheckInSet, Go, text, scan, counters, IInv, TypeOK, PC, Op, NoCall,
         Outside, DynamicCodeAssumption, SetThreadGeneration
<1>25. CASE MapFile(t)
  <2>1. Target(t) \subseteq Bundles /\ PagesOf(Target(t)) \subseteq Pages
    BY <1>25, Targets DEF MapFile
  <2>2. call' \in [Threads -> CallSet] /\ pc' \in [Threads -> PC]
    BY <1>25, ReturnTypes DEF MapFile, IInv
  <2>3. head' \in [Bundles -> Content] /\ tail' \in [Bundles -> Content]
    BY <1>25 DEF MapFile, Overmap, IInv, TypeOK, Content, Positions
  <2>4. QED
    BY <1>25, <2>1, <2>2, <2>3
       DEF MapFile, IInv, TypeOK, CallSet, scan, counters
<1>26. QED
  BY <1>1, <1>2, <1>3, <1>4, <1>5, <1>6, <1>7, <1>8, <1>9, <1>10, <1>11, <1>12,
     <1>13, <1>14, <1>15, <1>16, <1>17, <1>18, <1>19, <1>20, <1>21, <1>22,
     <1>23, <1>24, <1>25
     DEF Acts, Step

(* A step of t changes what the other threads do in no way.                *)
LEMMA OthersKeep ==
    ASSUME IInv, NEW t \in Threads, Acts(t), NEW v \in Threads, v # t
    PROVE  /\ pc'[v] = pc[v] /\ call'[v] = call[v] /\ gen'[v] = gen[v]
           /\ at'[v] = at[v] /\ thread_generation'[v] = thread_generation[v]
<1>1. TypeOK
  BY DEF IInv
<1>2. \A to : Go(t, to) => pc'[v] = pc[v]
  BY <1>1, GoMoves
<1>3. \A op, start, sz, code :
        With(t, op, start, sz, code) => call'[v] = call[v]
  BY <1>1, WithSets
<1>4. Return(t) => pc'[v] = pc[v] /\ call'[v] = call[v]
  BY <1>1, ReturnEnds
<1>5. \A g : SetThreadGeneration(t, g)
        => thread_generation'[v] = thread_generation[v]
  BY <1>1 DEF SetThreadGeneration, TypeOK
<1>6. pc'[v] = pc[v]
  BY <1>1, <1>2, <1>4
     DEF Acts, Step, Spawn, Exit, Leave, Ask, Enter, CreateCall, ModifyCall,
         MmapCall, DeleteCall, CheckInRead, MapHit, MapFails, MapMiss, Protect,
         Finish, CopyTail, CopyHead, HaltHead, Written, MarkDeleted,
         SetOwnGeneration, LockThreads, LookAtThread, Decide, CheckInSet,
         MapFile
<1>7. call'[v] = call[v]
  BY <1>1, <1>3, <1>4
     DEF Acts, Step, Spawn, Exit, Leave, Ask, Enter, CreateCall, ModifyCall,
         MmapCall, DeleteCall, CheckInRead, MapHit, MapFails, MapMiss, Protect,
         Finish, CopyTail, CopyHead, HaltHead, Written, MarkDeleted,
         SetOwnGeneration, LockThreads, LookAtThread, Decide, CheckInSet,
         MapFile
<1>8. gen'[v] = gen[v]
  BY <1>1
     DEF TypeOK, Acts, Step, Spawn, Exit, Leave, Ask, Enter, CreateCall,
         ModifyCall, MmapCall, DeleteCall, CheckInRead, MapHit, MapFails,
         MapMiss, Protect, Finish, CopyTail, CopyHead, HaltHead, Written,
         MarkDeleted, SetOwnGeneration, LockThreads, LookAtThread, Decide,
         CheckInSet, MapFile
<1>9. at'[v] = at[v]
  BY <1>1
     DEF TypeOK, Acts, Step, Spawn, Exit, Leave, Ask, Enter, CreateCall,
         ModifyCall, MmapCall, DeleteCall, CheckInRead, MapHit, MapFails,
         MapMiss, Protect, Finish, CopyTail, CopyHead, HaltHead, Written,
         MarkDeleted, SetOwnGeneration, LockThreads, LookAtThread, Decide,
         CheckInSet, MapFile
<1>10. thread_generation'[v] = thread_generation[v]
  BY <1>1, <1>5
     DEF TypeOK, Acts, Step, Spawn, Exit, Leave, Ask, Enter, CreateCall,
         ModifyCall, MmapCall, DeleteCall, CheckInRead, MapHit, MapFails,
         MapMiss, Protect, Finish, CopyTail, CopyHead, HaltHead, Written,
         MarkDeleted, SetOwnGeneration, LockThreads, LookAtThread, Decide,
         CheckInSet, MapFile
<1>11. QED
  BY <1>6, <1>7, <1>8, <1>9, <1>10

(* Only the thread with dynamic_load_mutex is in a call that holds it.     *)
LEMMA OneHolds ==
    ASSUME IInv, NEW t \in Threads, NEW v \in Threads, v # t,
           pc[t] \in Holding
    PROVE  pc[v] \notin Holding
  BY DEF IInv, Positions

(* Only the marking and the end of a deletion change a region.             *)
LEMMA RegionChanges ==
    ASSUME NEW t \in Threads, Acts(t), ~MarkDeleted(t), ~Decide(t)
    PROVE  /\ dynamic_regions \subseteq dynamic_regions'
           /\ dynamic_delete_generation' = dynamic_delete_generation
  BY DEF Acts, Step, Spawn, Exit, Leave, Ask, Enter, CreateCall, ModifyCall,
         MmapCall, DeleteCall, CheckInRead, MapHit, MapFails, MapMiss, Protect,
         Finish, CopyTail, CopyHead, HaltHead, Written, SetOwnGeneration,
         LockThreads, LookAtThread, CheckInSet, MapFile

(* A claim stays as long as its region does.                               *)
LEMMA ClaimKept ==
    ASSUME NEW v \in Threads, Claim(v), pc'[v] = pc[v], call'[v] = call[v],
           dynamic_regions \subseteq dynamic_regions',
           dynamic_delete_generation' = dynamic_delete_generation
    PROVE  Claim(v)'
<1>1. Target(v)' = Target(v) /\ \A r : Own(v, r)' = Own(v, r)
  BY DEF Target, Own
<1>2. QED
  BY <1>1 DEF Claim

LEMMA ClaimIdle ==
    ASSUME NEW v \in Threads,
           pc'[v] \in {"absent", "run", "ask", "checkin", "finish"}
    PROVE  Claim(v)'
  BY DEF Claim

(* Another thread's claim survives a step of t: regions under deletion     *)
(* belong to the holder of the mutex.                                      *)
LEMMA OtherClaims ==
    ASSUME DynamicCodeAssumption, IInv, NEW t \in Threads, Acts(t),
           NEW v \in Threads, v # t
    PROVE  Claim(v)'
<1>1. pc'[v] = pc[v] /\ call'[v] = call[v] /\ Claim(v)
  BY OthersKeep DEF IInv, Claims
<1>2. CASE ~MarkDeleted(t) /\ ~Decide(t)
  BY <1>1, <1>2, RegionChanges, ClaimKept
<1>3. CASE MarkDeleted(t) \/ Decide(t)
  <2>1. pc[t] \in {"mark", "scan"}
    BY <1>3 DEF MarkDeleted, Decide
  <2>2. pc[v] \notin Holding
    BY <2>1, OneHolds DEF Holding
  <2>3. ~Deleting(t).is_mmap
    BY <2>1, DeletingOwn
  <2>4. \A r \in dynamic_regions : r.is_mmap => r \in dynamic_regions'
    BY <1>3, <2>3 DEF MarkDeleted, Decide
  <2>5. \A r : Own(v, r)' = Own(v, r)
    BY <1>1 DEF Own
  <2>6. QED
    BY <1>1, <2>2, <2>4, <2>5 DEF Claim, Holding
<1>4. QED
  BY <1>2, <1>3

(* What a call that has the mutex knows of its region.                     *)
LEMMA ClaimMapped ==
    ASSUME IInv, NEW t \in Threads, pc[t] \in {"map", "protect"},
           Go(t, AfterMap[call[t].op]), call' = call,
           UNCHANGED <<dynamic_regions, dynamic_delete_generation>>
    PROVE  Claim(t)'
<1>1. call[t].op \in {"create", "modify", "delete"}
  BY DEF IInv, TypeOK, Positions, Op
<1>2. pc'[t] = AfterMap[call[t].op]
  BY GoMoves DEF IInv
<1>3. Claim(t) /\ Target(t)' = Target(t) /\ \A r : Own(t, r)' = Own(t, r)
  BY DEF IInv, Claims, Target, Own
<1>4. CASE call[t].op = "create"
  <2>1. pc'[t] = "tails"
    BY <1>2, <1>4 DEF AfterMap
  <2>2. QED
    BY <1>3, <1>4, <2>1 DEF Claim
<1>5. CASE call[t].op = "modify"
  <2>1. pc'[t] = "finish"
    BY <1>2, <1>5 DEF AfterMap
  <2>2. QED
    BY <2>1, ClaimIdle
<1>6. CASE call[t].op = "delete"
  <2>1. pc'[t] = "halts"
    BY <1>2, <1>6 DEF AfterMap
  <2>2. QED
    BY <1>3, <1>6, <2>1 DEF Claim
<1>7. QED
  BY <1>1, <1>4, <1>5, <1>6

(* Every step of a call leaves a claim behind that fits its next step.     *)
LEMMA OwnClaim ==
    ASSUME DynamicCodeAssumption, IInv, NEW t \in Threads, Acts(t)
    PROVE  Claim(t)'
<1> USE DEF IInv
<1>0. TypeOK /\ Claim(t)
  BY DEF Claims
<1>1. CASE pc'[t] \in {"absent", "run", "ask", "checkin", "finish"}
  BY <1>1, ClaimIdle
<1>2. CASE /\ pc'[t] = pc[t] /\ call'[t] = call[t]
           /\ UNCHANGED <<dynamic_regions, dynamic_delete_generation>>
  BY <1>0, <1>2, ClaimKept
<1>3. CASE \/ Spawn(t) \/ Exit(t) \/ Ask(t) \/ CheckInRead(t) \/ MapFails(t)
           \/ Finish(t) \/ Decide(t) \/ CheckInSet(t) \/ MapFile(t)
  BY <1>0, <1>1, <1>3, GoMoves, ReturnEnds
     DEF Spawn, Exit, Ask, CheckInRead, MapFails, Finish, Decide, CheckInSet,
         MapFile
<1>4. CASE \/ Leave(t) \/ \E b \in Bundles : Enter(t, b)
           \/ \E u \in Threads : LookAtThread(t, u)
  BY <1>2, <1>4 DEF Leave, Enter, LookAtThread
<1>5. ASSUME NEW start \in Bundles, NEW size \in 1 .. MaxSize,
             CreateCall(t, start, size)
      PROVE  Claim(t)'
  <2> DEFINE n == NewRegion(start, size, FALSE)
  <2>1. /\ pc'[t] = "map" /\ call'[t].op = "create"
        /\ call'[t].start = start /\ call'[t].size = size
    BY <1>0, <1>5, GoMoves, WithSets DEF CreateCall
  <2>2. /\ n.start = start /\ n.size = size /\ n.is_mmap = FALSE
        /\ n.delete_generation = -1
    BY DEF NewRegion
  <2>3. n \in dynamic_regions'
    BY <1>5 DEF CreateCall
  <2> HIDE DEF n
  <2>4. Own(t, n)' /\ ~n.is_mmap /\ n.delete_generation < 0
    BY <2>1, <2>2 DEF Own
  <2>5. QED
    BY <2>1, <2>3, <2>4 DEF Claim
<1>6. ASSUME NEW start \in Bundles, NEW size \in 1 .. MaxSize,
             ModifyCall(t, start, size)
      PROVE  Claim(t)'
  <2>1. /\ pc'[t] = "map" /\ call'[t].op = "modify"
        /\ call'[t].start = start /\ call'[t].size = size
    BY <1>0, <1>6, GoMoves, WithSets DEF ModifyCall
  <2>2. Target(t)' = Span(start, size)
    BY <2>1 DEF Target
  <2>3. PICK r \in dynamic_regions :
               Span(start, size) \subseteq Extent(r) /\ ~r.is_mmap
    BY <1>6 DEF ModifyCall, Extent
  <2>4. r \in dynamic_regions'
    BY <1>6 DEF ModifyCall
  <2>5. QED
    BY <2>1, <2>2, <2>3, <2>4 DEF Claim
<1>7. ASSUME NEW start \in Bundles, NEW size \in 1 .. MaxSize,
             MmapCall(t, start, size)
      PROVE  Claim(t)'
  <2> DEFINE n == NewRegion(start, size, TRUE)
  <2>1. /\ pc'[t] = "mapfile"
        /\ call'[t].start = start /\ call'[t].size = size
    BY <1>0, <1>7, GoMoves, WithSets DEF MmapCall
  <2>2. n.start = start /\ n.size = size /\ n.is_mmap = TRUE
    BY DEF NewRegion
  <2>3. n \in dynamic_regions'
    BY <1>7 DEF MmapCall
  <2> HIDE DEF n
  <2>4. Own(t, n)' /\ n.is_mmap
    BY <2>1, <2>2 DEF Own
  <2>5. QED
    BY <2>1, <2>3, <2>4 DEF Claim
<1>8. ASSUME NEW r \in dynamic_regions, DeleteCall(t, r)
      PROVE  Claim(t)'
  <2>1. /\ pc'[t] = (IF r.delete_generation < 0 THEN "map" ELSE "setgen")
        /\ call'[t].op = "delete"
        /\ call'[t].start = r.start /\ call'[t].size = r.size
    BY <1>0, <1>8, GoMoves, WithSets DEF DeleteCall
  <2>2. Own(t, r)' /\ ~r.is_mmap /\ r \in dynamic_regions'
    BY <1>8, <2>1 DEF Own, DeleteCall
  <2>3. r.delete_generation < 0 => dynamic_delete_generation' < MaxGeneration
    BY <1>0, <1>8 DEF DeleteCall, TypeOK, DynamicCodeAssumption
  <2>4. r.delete_generation \in Int
    BY <1>0, RegionFields
  <2>5. QED
    BY <2>1, <2>2, <2>3, <2>4 DEF Claim
<1>9. CASE MapHit(t) \/ Protect(t)
  BY <1>9, ClaimMapped DEF MapHit, Protect
<1>10. CASE MapMiss(t)
  <2>1. /\ pc[t] = "map" /\ pc'[t] = "protect" /\ call' = call
        /\ UNCHANGED <<dynamic_regions, dynamic_delete_generation>>
    BY <1>0, <1>10, GoMoves DEF MapMiss
  <2>2. Target(t)' = Target(t) /\ \A r : Own(t, r)' = Own(t, r)
    BY <2>1 DEF Target, Own
  <2>3. QED
    BY <1>0, <2>1, <2>2 DEF Claim
<1>11. ASSUME NEW b \in Bundles,
              CopyTail(t, b) \/ CopyHead(t, b) \/ HaltHead(t, b)
       PROVE  Claim(t)'
  <2>1. /\ call' = call
        /\ UNCHANGED <<dynamic_regions, dynamic_delete_generation>>
        /\ \/ pc[t] = "tails" /\ pc'[t] \in {"tails", "heads"}
           \/ pc[t] = "heads" /\ pc'[t] \in {"heads", "finish"}
           \/ pc[t] = "halts" /\ pc'[t] \in {"halts", "mark"}
                /\ call[t].op = "delete"
    BY <1>0, <1>11, GoMoves
       DEF CopyTail, CopyHead, HaltHead, Written, Positions
  <2>2. /\ Target(t)' = Target(t) /\ \A r : Own(t, r)' = Own(t, r)
        /\ pc[t] \in {"tails", "heads"} => call[t].op = "create"
    BY <2>1 DEF Target, Own, Positions
  <2>3. QED
    BY <1>0, <2>1, <2>2 DEF Claim
<1>12. CASE MarkDeleted(t)
  <2> DEFINE d == [Deleting(t) EXCEPT !.delete_generation =
                             dynamic_delete_generation']
  <2>1. /\ Deleting(t) \in dynamic_regions
        /\ Own(t, Deleting(t))
        /\ ~Deleting(t).is_mmap
    BY <1>12, DeletingOwn DEF MarkDeleted
  <2>2. Deleting(t) \in Region
    BY <1>0, <2>1, RegionFields
  <2>3. /\ d.start = Deleting(t).start /\ d.size = Deleting(t).size
        /\ d.is_mmap = Deleting(t).is_mmap
        /\ d.delete_generation = dynamic_delete_generation'
    BY <2>2 DEF Region
  <2>4. /\ d \in dynamic_regions' /\ call' = call /\ pc'[t] = "setgen"
        /\ dynamic_delete_generation' = dynamic_delete_generation + 1
    BY <1>0, <1>12, GoMoves DEF MarkDeleted
  <2> HIDE DEF d
  <2>5. PICK e \in dynamic_regions' :
          /\ e.start = Deleting(t).start /\ e.size = Deleting(t).size
          /\ ~e.is_mmap /\ e.delete_generation = dynamic_delete_generation'
    BY <2>1, <2>3, <2>4
  <2>6. Own(t, e)' /\ e.delete_generation >= 0
    BY <1>0, <2>1, <2>4, <2>5 DEF Own, TypeOK
  <2>7. QED
    BY <2>4, <2>5, <2>6 DEF Claim
<1>13. CASE SetOwnGeneration(t) \/ LockThreads(t)
  <2>1. /\ pc[t] \in {"setgen", "lock"}
        /\ pc'[t] \in {"lock", "scan"}
        /\ call' = call
        /\ dynamic_regions' = dynamic_regions
    BY <1>0, <1>13, GoMoves DEF SetOwnGeneration, LockThreads
  <2>2. \A r : Own(t, r)' = Own(t, r)
    BY <2>1 DEF Own
  <2>3. QED
    BY <1>0, <2>1, <2>2 DEF Claim
<1>14. QED
  BY <1>3, <1>4, <1>5, <1>6, <1>7, <1>8, <1>9, <1>10, <1>11, <1>12, <1>13
     DEF Acts, Step

LEMMA ClaimsStep ==
    ASSUME DynamicCodeAssumption, IInv, NEW t \in Threads, Acts(t)
    PROVE  Claims'
  BY OtherClaims, OwnClaim DEF Claims

(* Files are mapped at different places at the same time.                  *)
LEMMA SeparateStep ==
    ASSUME DynamicCodeAssumption, IInv, NEW t \in Threads, Acts(t)
    PROVE  Separate'
<1>1. \A v \in Threads :
        v # t => pc'[v] = pc[v] /\ call'[v] = call[v] /\ Target(v)' = Target(v)
  BY OthersKeep DEF Target
<1>2. ASSUME NEW start \in Bundles, NEW size \in 1 .. MaxSize,
             MmapCall(t, start, size)
      PROVE  Separate'
  <2>1. Target(t)' = Span(start, size)
    BY <1>2, WithSets DEF MmapCall, Target, IInv
  <2>2. ASSUME NEW v \in Threads, pc[v] = "mapfile"
        PROVE  Target(v) \cap Span(start, size) = {}
    <3>1. PICK r \in dynamic_regions : Own(v, r)
      BY <2>2 DEF IInv, Claims, Claim
    <3>2. Span(r.start, r.size) = Target(v)
      BY <3>1 DEF Own, Target
    <3>3. QED
      BY <1>2, <3>2 DEF MmapCall, Overlapping
  <2>3. QED
    BY <1>1, <2>1, <2>2 DEF IInv, Separate
<1>3. CASE pc'[t] # "mapfile"
  BY <1>1, <1>3 DEF IInv, Separate
<1>4. CASE pc'[t] = pc[t] /\ call' = call
  BY <1>1, <1>4 DEF IInv, Separate, Target
<1>5. \/ \E start \in Bundles, size \in 1 .. MaxSize :
            MmapCall(t, start, size)
      \/ pc'[t] # "mapfile"
      \/ pc'[t] = pc[t] /\ call' = call
  <2>1. TypeOK /\ Positions
    BY DEF IInv
  <2>2. \A to : Go(t, to) => pc'[t] = to
    BY <2>1, GoMoves
  <2>3. Return(t) => pc'[t] = "run"
    BY <2>1, ReturnEnds
  <2>4. \A r : (IF r.delete_generation < 0 THEN "map" ELSE "setgen")
          # "mapfile"
    OBVIOUS
  <2>5. pc[t] \in {"map", "protect"} => AfterMap[call[t].op] # "mapfile"
    BY <2>1 DEF TypeOK, Op, Positions, AfterMap
  <2>6. QED
    BY <2>2, <2>3, <2>4, <2>5
       DEF Acts, Step, Spawn, Exit, Leave, Ask, Enter, CreateCall, ModifyCall,
           DeleteCall, CheckInRead, MapHit, MapFails, MapMiss, Protect, Finish,
           CopyTail, CopyHead, HaltHead, Written, MarkDeleted,
           SetOwnGeneration, LockThreads, LookAtThread, Decide, CheckInSet,
           MapFile
<1>6. QED
  BY <1>2, <1>3, <1>4, <1>5

(* Division, as far as the provers need it.                                *)
LEMMA Division ==
    ASSUME NEW P \in Nat \ {0}, NEW a \in Nat
    PROVE  /\ a \div P \in Int /\ a % P \in Int /\ 0 <= a % P /\ a % P < P
           /\ a = P * (a \div P) + (a % P)
  BY SMT

LEMMA Multiples ==
    ASSUME NEW P \in Nat \ {0}, NEW a \in Int, NEW b \in Int, a <= b
    PROVE  P * a <= P * b
<1>1. \A x \in Nat : P * x >= 0
  BY SMT
<1>2. P * (b - a) = P * b - P * a
  BY SMT
<1>3. QED
  BY <1>1, <1>2, SMT

(* A range that begins and ends at pages contains with a bundle its page.  *)
LEMMA WholePages ==
    ASSUME NEW P \in Nat \ {0}, NEW s \in Nat, NEW z \in Nat, NEW b \in Nat,
           NEW c \in Nat, s % P = 0, z % P = 0, s <= b, b < s + z,
           b \div P = c \div P
    PROVE  s <= c /\ c < s + z
<1> DEFINE q == b \div P
           k == s \div P
           m == z \div P
<1>1. /\ q \in Int /\ k \in Int /\ m \in Int
      /\ s = P * k /\ z = P * m
      /\ P * q <= b /\ b < P * q + P /\ P * q <= c /\ c < P * q + P
  <2>1. s = P * k + (s % P) /\ z = P * m + (z % P)
        /\ q \in Int /\ k \in Int /\ m \in Int
    BY Division
  <2>2. b = P * q + (b % P) /\ c = P * q + (c % P)
    BY Division
  <2>3. 0 <= b % P /\ b % P < P /\ 0 <= c % P /\ c % P < P
    BY Division
  <2>4. QED
    BY <2>1, <2>2, <2>3
<1> HIDE DEF q, k, m
<1>2. k <= q
  <2>1. SUFFICES ASSUME q + 1 <= k PROVE FALSE
    BY <1>1
  <2>2. P * (q + 1) <= P * k
    BY <2>1, <1>1, Multiples
  <2>3. P * (q + 1) = P * q + P
    BY <1>1
  <2>4. QED
    BY <2>2, <2>3, <1>1
<1>3. q + 1 <= k + m
  <2>1. SUFFICES ASSUME k + m <= q PROVE FALSE
    BY <1>1
  <2>2. P * (k + m) <= P * q
    BY <2>1, <1>1, Multiples
  <2>3. P * (k + m) = P * k + P * m
    BY <1>1
  <2>4. QED
    BY <2>2, <2>3, <1>1
<1>4. P * k <= P * q /\ P * (q + 1) <= P * (k + m)
  BY <1>1, <1>2, <1>3, Multiples
<1>5. P * (q + 1) = P * q + P /\ P * (k + m) = P * k + P * m
  BY <1>1
<1>6. QED
  BY <1>1, <1>4, <1>5

(* The region of a file contains all bundles of its pages.                 *)
LEMMA PageClosed ==
    ASSUME DynamicCodeAssumption, IInv, NEW r \in dynamic_regions, r.is_mmap,
           NEW b \in Extent(r), NEW c \in Bundles, Page(b) = Page(c)
    PROVE  c \in Extent(r)
<1>1. r.start \in Nat /\ r.size \in Nat
  BY RegionFields DEF IInv
<1>2. r.start % BundlesPerPage = 0 /\ r.size % BundlesPerPage = 0
  BY DEF IInv, Regions
<1>3. b \in Nat /\ c \in Nat /\ r.start <= b /\ b < r.start + r.size
  BY <1>1 DEF Extent, Span, Bundles
<1>4. r.start <= c /\ c < r.start + r.size
  BY <1>1, <1>2, <1>3, WholePages DEF DynamicCodeAssumption, Page
<1>5. QED
  BY <1>1, <1>3, <1>4 DEF Extent, Span

(* The regions that the calls are about.                                   *)
LEMMA WritersRegion ==
    ASSUME DynamicCodeAssumption, IInv, NEW t \in Threads,
           pc[t] \in {"map", "protect", "tails", "heads", "halts", "mark"}
    PROVE  \E r \in dynamic_regions :
             /\ ~r.is_mmap /\ Target(t) \subseteq Extent(r)
             /\ call[t].op # "modify" => r.delete_generation < 0
  BY DEF IInv, Claims, Claim, Own, Target, Extent, Positions

(* A mapped file has a region of its own, which is never deleted, apart    *)
(* from the bundles of any call with the mutex.                            *)
LEMMA FilesRegion ==
    ASSUME DynamicCodeAssumption, IInv, NEW t \in Threads, pc[t] = "mapfile"
    PROVE  \E r \in dynamic_regions :
             r.is_mmap /\ Target(t) = Extent(r) /\ r.delete_generation = -1
  BY DEF IInv, Claims, Claim, Own, Target, Extent, Regions

LEMMA FilesApart ==
    ASSUME DynamicCodeAssumption, IInv, NEW t \in Threads, NEW v \in Threads,
           pc[t] \in {"map", "protect", "tails", "heads", "halts", "mark"},
           pc[v] = "mapfile"
    PROVE  Target(t) \cap Target(v) = {}
<1>1. PICK r \in dynamic_regions : ~r.is_mmap /\ Target(t) \subseteq Extent(r)
  BY WritersRegion
<1>2. PICK s \in dynamic_regions : s.is_mmap /\ Target(v) = Extent(s)
  BY FilesRegion
<1>3. QED
  BY <1>1, <1>2 DEF IInv, Regions

(* A page that is about to be filled was never written to.                 *)
LEMMA FreshPages ==
    ASSUME DynamicCodeAssumption, IInv, NEW t \in Threads, pc[t] = "map",
           NEW b \in Bundles,
           Page(b) \in PagesOf(Target(t)) \ dynamic_page_bitmap
    PROVE  head[b] = FRESH /\ tail[b] = FRESH
<1>1. PICK c \in Target(t) : Page(b) = Page(c)
  BY DEF PagesOf
<1>2. PICK r \in dynamic_regions : ~r.is_mmap /\ Target(t) \subseteq Extent(r)
  BY WritersRegion
<1>3. c \in Bundles
  BY <1>1, Targets
<1>4. ASSUME NEW s \in dynamic_regions, s.is_mmap, b \in Extent(s)
      PROVE  FALSE
  <2>1. c \in Extent(s)
    BY <1>1, <1>3, <1>4, PageClosed
  <2>2. QED
    BY <1>1, <1>2, <1>4, <2>1 DEF IInv, Regions
<1>5. QED
  BY <1>4 DEF IInv, Memory, Known

(* What changes the memory.                                                *)
LEMMA TextChanges ==
    ASSUME NEW t \in Threads, Acts(t)
    PROVE  \/ UNCHANGED text
           \/ MapMiss(t) \/ Protect(t) \/ MapFile(t)
           \/ \E b \in Bundles :
                CopyTail(t, b) \/ CopyHead(t, b) \/ HaltHead(t, b)
  BY DEF Acts, Step, Spawn, Exit, Leave, Ask, Enter, CreateCall, ModifyCall,
         MmapCall, DeleteCall, CheckInRead, MapHit, MapFails, Finish,
         SetOwnGeneration, LockThreads, LookAtThread, CheckInSet, MarkDeleted,
         Decide

(* What is copied is code, and halts are none.                             *)
LEMMA CopiesCode ==
    ASSUME IInv, NEW t \in Threads, pc[t] \in {"tails", "heads", "mapfile"}
    PROVE  call[t].code \in Code
  BY DEF IInv, Positions

LEMMA NoCodeIsFresh == HALT # FRESH /\ HALT \notin Code /\ FRESH \notin Code
  BY DEF HALT, FRESH, Code

(* Pages are filled before they become visible, and stay filled.           *)
LEMMA FilledStep ==
    ASSUME DynamicCodeAssumption, IInv, NEW t \in Threads, Acts(t),
           NEW b \in Bundles
    PROVE  Filled(b)'
<1>0. /\ Filled(b)
      /\ head \in [Bundles -> Content]
      /\ tail \in [Bundles -> Content]
      /\ Page(b)' = Page(b)
  BY DEF IInv, Memory, TypeOK, Page
<1>1. CASE UNCHANGED text
  BY <1>0, <1>1 DEF Filled, text
<1>2. CASE MapMiss(t)
  <2> DEFINE new == PagesOf(Target(t)) \ dynamic_page_bitmap
  <2>1. /\ dynamic_page_bitmap' = dynamic_page_bitmap \cup new
        /\ executable' = executable
        /\ head'[b] = IF Page(b) \in new THEN HALT ELSE head[b]
        /\ tail'[b] = IF Page(b) \in new THEN HALT ELSE tail[b]
    BY <1>2 DEF MapMiss, FillWithHalt
  <2> HIDE DEF new
  <2>2. QED
    BY <1>0, <2>1, NoCodeIsFresh DEF Filled
<1>3. CASE Protect(t)
  <2>1. PagesOf(Target(t)) \subseteq dynamic_page_bitmap
    BY <1>3 DEF Protect, IInv, Writing, WritingOf
  <2>2. QED
    BY <1>0, <1>3, <2>1 DEF Protect, Filled
<1>4. CASE MapFile(t)
  <2>1. ASSUME Page(b) \in PagesOf(Target(t))
        PROVE  b \in Target(t)
    <3>1. PICK r \in dynamic_regions : r.is_mmap /\ Target(t) = Extent(r)
      BY <1>4, FilesRegion DEF MapFile
    <3>2. PICK c \in Target(t) : Page(b) = Page(c)
      BY <2>1 DEF PagesOf
    <3>3. QED
      BY <3>1, <3>2, PageClosed
  <2>2. call[t].code # FRESH
    BY <1>4, CopiesCode, NoCodeIsFresh DEF MapFile
  <2>3. QED
    BY <1>0, <1>4, <2>1, <2>2 DEF MapFile, Overmap, Filled
<1>5. ASSUME NEW c \in Bundles,
             CopyTail(t, c) \/ CopyHead(t, c) \/ HaltHead(t, c)
      PROVE  Filled(b)'
  <2>1. pc[t] \in {"tails", "heads"} => call[t].code # FRESH
    BY CopiesCode, NoCodeIsFresh
  <2>2. QED
    BY <1>0, <1>5, <2>1, NoCodeIsFresh
       DEF CopyTail, CopyHead, HaltHead, Written, Filled
<1>6. QED
  BY <1>1, <1>2, <1>3, <1>4, <1>5, TextChanges

(* Regions of files stay for ever.                                         *)
LEMMA FilesStay ==
    ASSUME DynamicCodeAssumption, IInv, NEW t \in Threads, Acts(t),
           NEW r \in dynamic_regions, r.is_mmap
    PROVE  r \in dynamic_regions'
<1>1. CASE ~MarkDeleted(t) /\ ~Decide(t)
  BY <1>1, RegionChanges
<1>2. CASE MarkDeleted(t) \/ Decide(t)
  <2>1. ~Deleting(t).is_mmap
    BY <1>2, DeletingOwn DEF MarkDeleted, Decide
  <2>2. QED
    BY <1>2, <2>1 DEF MarkDeleted, Decide
<1>3. QED
  BY <1>1, <1>2

(* Nobody writes to a page that is still fresh without allocating it.      *)
LEMMA KnownStep ==
    ASSUME DynamicCodeAssumption, IInv, NEW t \in Threads, Acts(t),
           NEW b \in Bundles
    PROVE  Known(b)'
<1>0. /\ Known(b)
      /\ head \in [Bundles -> Content]
      /\ tail \in [Bundles -> Content]
      /\ Page(b)' = Page(b)
      /\ \A r \in dynamic_regions : r.is_mmap => r \in dynamic_regions'
  BY FilesStay DEF IInv, Memory, TypeOK, Page
<1>1. CASE UNCHANGED text \/ Protect(t)
  BY <1>0, <1>1 DEF Known, text, Protect
<1>2. CASE MapMiss(t)
  <2> DEFINE new == PagesOf(Target(t)) \ dynamic_page_bitmap
  <2>1. /\ dynamic_page_bitmap' = dynamic_page_bitmap \cup new
        /\ head'[b] = IF Page(b) \in new THEN HALT ELSE head[b]
        /\ tail'[b] = IF Page(b) \in new THEN HALT ELSE tail[b]
    BY <1>2 DEF MapMiss, FillWithHalt
  <2> HIDE DEF new
  <2>2. QED
    BY <1>0, <2>1 DEF Known
<1>4. CASE MapFile(t)
  <2>1. PICK r \in dynamic_regions : r.is_mmap /\ Target(t) = Extent(r)
    BY <1>4, FilesRegion DEF MapFile
  <2>3. QED
    BY <1>0, <1>4, <2>1 DEF MapFile, Overmap, Known
<1>5. ASSUME NEW c \in Bundles,
             CopyTail(t, c) \/ CopyHead(t, c) \/ HaltHead(t, c)
      PROVE  Known(b)'
  <2>1. c \in Target(t) /\ PagesOf(Target(t)) \subseteq dynamic_page_bitmap
    BY <1>5 DEF CopyTail, CopyHead, HaltHead, IInv, Writing, WritingOf
  <2>2. /\ Page(c) \in dynamic_page_bitmap
        /\ dynamic_page_bitmap' = dynamic_page_bitmap
    BY <1>5, <2>1 DEF CopyTail, CopyHead, HaltHead, Written, PagesOf
  <2>3. b # c => head'[b] = head[b] /\ tail'[b] = tail[b]
    BY <1>0, <1>5 DEF CopyTail, CopyHead, HaltHead
  <2>4. QED
    BY <1>0, <2>2, <2>3 DEF Known
<1>6. QED
  BY <1>1, <1>2, <1>4, <1>5, TextChanges

(* A region without a deletion is there until its bundles are halted.      *)
LEMMA LiveRegion ==
    ASSUME DynamicCodeAssumption, IInv, NEW t \in Threads, Acts(t),
           NEW b \in Bundles, head[b] \in Code
    PROVE  \E r \in dynamic_regions' :
             b \in Extent(r) /\ r.delete_generation < 0
<1>1. PICK r \in dynamic_regions : b \in Extent(r) /\ r.delete_generation < 0
  BY DEF IInv, Memory, Live
<1>2. r \in dynamic_regions'
  <2>1. CASE ~MarkDeleted(t) /\ ~Decide(t)
    BY <2>1, RegionChanges
  <2>2. CASE MarkDeleted(t)
    <3>1. pc[t] = "mark" /\ Extent(Deleting(t)) = Target(t)
      BY <2>2, DeletingOwn DEF MarkDeleted
    <3>2. b \notin Target(t)
      BY <3>1 DEF IInv, Writing, WritingOf
    <3>3. r # Deleting(t)
      BY <1>1, <3>1, <3>2
    <3>4. QED
      BY <2>2, <3>3 DEF MarkDeleted
  <2>3. CASE Decide(t)
    <3>1. Deleting(t).delete_generation >= 0 /\ Deleting(t) \in dynamic_regions
      BY <2>3, DeletingOwn DEF Decide
    <3>2. r # Deleting(t)
      BY <1>1, <3>1, RegionFields DEF IInv
    <3>3. QED
      BY <2>3, <3>2 DEF Decide
  <2>4. QED
    BY <2>1, <2>2, <2>3
<1>3. QED
  BY <1>1, <1>2

(* A head is written when its tail is there, and halted before its region  *)
(* is marked for deletion.                                                 *)
LEMMA LiveStep ==
    ASSUME DynamicCodeAssumption, IInv, NEW t \in Threads, Acts(t),
           NEW b \in Bundles
    PROVE  Live(b)'
<1>0. /\ Live(b)
      /\ head \in [Bundles -> Content]
      /\ tail \in [Bundles -> Content]
      /\ head[b] \in Code =>
           \E r \in dynamic_regions' :
             b \in Extent(r) /\ r.delete_generation < 0
  BY LiveRegion DEF IInv, Memory, TypeOK
<1>1. CASE UNCHANGED <<head, tail>>
  BY <1>0, <1>1 DEF Live
<1>2. CASE MapMiss(t)
  <2>1. /\ \/ head'[b] = HALT
           \/ head'[b] = head[b] /\ tail'[b] = tail[b]
    BY <1>2 DEF MapMiss, FillWithHalt
  <2>2. QED
    BY <1>0, <2>1, NoCodeIsFresh DEF Live
<1>3. CASE MapFile(t)
  <2>1. PICK r \in dynamic_regions :
          r.is_mmap /\ Target(t) = Extent(r) /\ r.delete_generation = -1
    BY <1>3, FilesRegion DEF MapFile
  <2>2. dynamic_regions' = dynamic_regions
    BY <1>3 DEF MapFile
  <2>3. \/ b \in Target(t) /\ head'[b] = tail'[b]
        \/ head'[b] = head[b] /\ tail'[b] = tail[b]
    BY <1>3 DEF MapFile, Overmap
  <2>4. QED
    BY <1>0, <2>1, <2>2, <2>3 DEF Live
<1>4. ASSUME NEW c \in Bundles, CopyTail(t, c)
      PROVE  Live(b)'
  <2>1. c \in Target(t) /\ Claiming(t)
    BY <1>4 DEF CopyTail, IInv, Writing, WritingOf, Positions, Claiming
  <2>2. head[c] \notin Code
    BY <2>1 DEF IInv, Unused
  <2>3. QED
    BY <1>0, <1>4, <2>2 DEF Live, CopyTail
<1>5. ASSUME NEW c \in Bundles, CopyHead(t, c)
      PROVE  Live(b)'
  <2>1. /\ c \in Target(t) /\ pc[t] = "heads" /\ call[t].op = "create"
        /\ tail[c] = call[t].code
    BY <1>5 DEF CopyHead, IInv, Writing, WritingOf, Positions
  <2>2. PICK r \in dynamic_regions :
          Target(t) \subseteq Extent(r) /\ r.delete_generation < 0
    BY <2>1, WritersRegion
  <2>3. dynamic_regions' = dynamic_regions
    BY <1>5 DEF CopyHead, Written
  <2>4. QED
    BY <1>0, <1>5, <2>1, <2>2, <2>3 DEF Live, CopyHead
<1>6. ASSUME NEW c \in Bundles, HaltHead(t, c)
      PROVE  Live(b)'
  BY <1>0, <1>6, NoCodeIsFresh DEF Live, HaltHead
<1>7. QED
  BY <1>1, <1>2, <1>3, <1>4, <1>5, <1>6, TextChanges DEF text, Protect

(* A mapping is cached only for pages that are accessible.                 *)
LEMMA CacheStep ==
    ASSUME DynamicCodeAssumption, IInv, NEW t \in Threads, Acts(t)
    PROVE  mapcache' \subseteq executable' \cap dynamic_page_bitmap'
<1>1. /\ executable \subseteq executable'
      /\ dynamic_page_bitmap \subseteq dynamic_page_bitmap'
  BY TextChanges
     DEF text, MapMiss, Protect, MapFile, CopyTail, CopyHead, HaltHead, Written
<1>2. mapcache \subseteq executable \cap dynamic_page_bitmap
  BY DEF IInv, Memory
<1>3. CASE Protect(t)
  <2>1. PagesOf(Target(t)) \subseteq dynamic_page_bitmap
    BY <1>3 DEF Protect, IInv, Writing, WritingOf
  <2>2. QED
    BY <1>1, <1>3, <2>1 DEF Protect
<1>4. CASE ~Protect(t)
  <2>1. mapcache' \in {mapcache, {}}
    BY <1>4
       DEF Acts, Step, Spawn, Exit, Leave, Ask, Enter, CreateCall, ModifyCall,
           MmapCall, DeleteCall, CheckInRead, MapHit, MapFails, MapMiss,
           Finish, ClearCacheIfNeeded, CopyTail, CopyHead, HaltHead, Written,
           MarkDeleted, SetOwnGeneration, LockThreads, LookAtThread, Decide,
           CheckInSet, MapFile
  <2>2. QED
    BY <1>1, <1>2, <2>1
<1>5. QED
  BY <1>3, <1>4

LEMMA MemoryStep ==
    ASSUME DynamicCodeAssumption, IInv, NEW t \in Threads, Acts(t)
    PROVE  Memory'
  BY FilledStep, KnownStep, LiveStep, CacheStep DEF Memory, Bundles

(* Nothing is claimed of a thread that does not write.                     *)
LEMMA WritingIdle ==
    ASSUME NEW v \in Threads,
           pc'[v] \notin {"protect", "tails", "heads", "halts", "mark"}
    PROVE  WritingOf(v)'
  BY DEF WritingOf

(* Nobody else writes where the thread with the mutex does.                *)
LEMMA OtherWriting ==
    ASSUME DynamicCodeAssumption, IInv, NEW t \in Threads, Acts(t),
           NEW v \in Threads, v # t
    PROVE  WritingOf(v)'
<1>1. /\ pc'[v] = pc[v] /\ call'[v] = call[v] /\ WritingOf(v)
      /\ Target(v)' = Target(v) /\ PagesOf(Target(v))' = PagesOf(Target(v))
  BY OthersKeep DEF IInv, Writing, Target, PagesOf, Page
<1>2. CASE pc[v] \notin {"protect", "tails", "heads", "halts", "mark"}
  BY <1>1, <1>2, WritingIdle
<1>3. CASE pc[v] \in {"protect", "tails", "heads", "halts", "mark"}
  <2>1. pc[v] \in Holding /\ pc[t] \notin Holding
    BY <1>3, OneHolds DEF Holding
  <2>2. dynamic_load_mutex = v /\ v # NoThread
    BY <2>1 DEF IInv, Positions, DynamicCodeAssumption
  <2>3. UNCHANGED <<todo, dynamic_page_bitmap>>
          /\ (UNCHANGED <<head, tail>> \/ MapFile(t))
    BY <2>1, <2>2
       DEF Acts, Step, Spawn, Exit, Leave, Ask, Enter, CreateCall, ModifyCall,
           MmapCall, DeleteCall, CheckInRead, MapHit, MapFails, MapMiss,
           Protect, Finish, CopyTail, CopyHead, HaltHead, MarkDeleted,
           SetOwnGeneration, LockThreads, LookAtThread, Decide, CheckInSet,
           MapFile, Lock, Holding, text, scan, counters
  <2>4. \A b \in Target(v) : head'[b] = head[b] /\ tail'[b] = tail[b]
    <3>1. CASE UNCHANGED <<head, tail>>
      BY <3>1
    <3>2. CASE MapFile(t)
      <4>1. Target(v) \cap Target(t) = {}
        BY <1>3, <3>2, FilesApart DEF MapFile
      <4>2. Target(v) \subseteq Bundles
        BY <1>3, Targets
      <4>3. QED
        BY <3>2, <4>1, <4>2 DEF MapFile, Overmap
    <3>3. QED
      BY <2>3, <3>1, <3>2
  <2>5. QED
    BY <1>1, <2>3, <2>4 DEF WritingOf
<1>4. QED
  BY <1>2, <1>3

(* A call begins to write when all its pages are there.                    *)
LEMMA WritingBegins ==
    ASSUME DynamicCodeAssumption, IInv, NEW t \in Threads,
           pc[t] \in {"map", "protect"},
           Go(t, AfterMap[call[t].op]), call' = call, todo' = Target(t),
           PagesOf(Target(t)) \subseteq dynamic_page_bitmap,
           UNCHANGED <<dynamic_page_bitmap, head, tail>>
    PROVE  WritingOf(t)'
<1>1. pc'[t] \in {"tails", "finish", "halts"}
  <2>1. pc'[t] = AfterMap[call[t].op]
    BY GoMoves DEF IInv
  <2>2. call[t].op \in {"create", "modify", "delete"}
    BY DEF IInv, TypeOK, Positions, Op
  <2>3. QED
    BY <2>1, <2>2 DEF AfterMap
<1>2. /\ Target(t)' = Target(t)
      /\ PagesOf(Target(t))' = PagesOf(Target(t))
      /\ Target(t) # {}
  BY Targets DEF Target, PagesOf, Page
<1>3. QED
  BY <1>1, <1>2 DEF WritingOf

(* A call writes one bundle after the other and moves on when none is      *)
(* left.                                                                   *)
LEMMA OwnWriting ==
    ASSUME DynamicCodeAssumption, IInv, NEW t \in Threads, Acts(t)
    PROVE  WritingOf(t)'
<1>0. /\ TypeOK /\ WritingOf(t) /\ head \in [Bundles -> Content]
      /\ tail \in [Bundles -> Content]
  BY DEF IInv, Writing, TypeOK
<1>1. CASE MapHit(t)
  <2>1. PagesOf(Target(t)) \subseteq dynamic_page_bitmap
    BY <1>1 DEF MapHit, IInv, Memory
  <2>2. QED
    BY <1>1, <2>1, WritingBegins DEF MapHit, text
<1>2. CASE Protect(t)
  <2>1. PagesOf(Target(t)) \subseteq dynamic_page_bitmap
    BY <1>0, <1>2 DEF Protect, WritingOf
  <2>2. QED
    BY <1>2, <2>1, WritingBegins DEF Protect
<1>3. CASE MapMiss(t)
  <2>1. /\ pc'[t] = "protect"
        /\ dynamic_page_bitmap' = dynamic_page_bitmap
             \cup (PagesOf(Target(t)) \ dynamic_page_bitmap)
        /\ Target(t)' = Target(t) /\ PagesOf(Target(t))' = PagesOf(Target(t))
    BY <1>0, <1>3, GoMoves DEF MapMiss, Target, PagesOf, Page
  <2>2. QED
    BY <2>1 DEF WritingOf
<1>4. ASSUME NEW b \in Bundles, CopyTail(t, b)
      PROVE  WritingOf(t)'
  <2>1. /\ pc[t] = "tails" /\ b \in todo
        /\ pc'[t] = (IF todo = {b} THEN "heads" ELSE "tails")
        /\ todo' = IF todo # {b} THEN todo \ {b} ELSE Target(t)
        /\ call' = call /\ dynamic_page_bitmap' = dynamic_page_bitmap
        /\ tail' = [tail EXCEPT ![b] = call[t].code]
    BY <1>0, <1>4, GoMoves DEF CopyTail, Written
  <2>2. Target(t)' = Target(t) /\ PagesOf(Target(t))' = PagesOf(Target(t))
    BY <2>1 DEF Target, PagesOf, Page
  <2>3. /\ Target(t) \subseteq Bundles
        /\ todo # {} /\ todo \subseteq Target(t)
        /\ PagesOf(Target(t)) \subseteq dynamic_page_bitmap
        /\ \A c \in Target(t) \ todo : tail[c] = call[t].code
    BY <1>0, <2>1, Targets DEF WritingOf
  <2>4. \A c \in Target(t) : c = b \/ c \notin todo => tail'[c] = call'[t].code
    BY <1>0, <2>1, <2>3
  <2>5. CASE todo = {b}
    BY <2>1, <2>2, <2>3, <2>4, <2>5 DEF WritingOf
  <2>6. CASE todo # {b}
    BY <2>1, <2>2, <2>3, <2>4, <2>6 DEF WritingOf
  <2>7. QED
    BY <2>5, <2>6
<1>5. ASSUME NEW b \in Bundles, CopyHead(t, b)
      PROVE  WritingOf(t)'
  <2>1. /\ pc[t] = "heads" /\ b \in todo
        /\ pc'[t] = (IF todo = {b} THEN "finish" ELSE "heads")
        /\ todo # {b} => todo' = todo \ {b}
        /\ call' = call /\ dynamic_page_bitmap' = dynamic_page_bitmap
        /\ tail' = tail
    BY <1>0, <1>5, GoMoves DEF CopyHead, Written
  <2>2. Target(t)' = Target(t) /\ PagesOf(Target(t))' = PagesOf(Target(t))
    BY <2>1 DEF Target, PagesOf, Page
  <2>3. QED
    BY <1>0, <2>1, <2>2 DEF WritingOf
<1>6. ASSUME NEW b \in Bundles, HaltHead(t, b)
      PROVE  WritingOf(t)'
  <2>1. /\ pc[t] = "halts" /\ b \in todo
        /\ pc'[t] = (IF todo = {b} THEN "mark" ELSE "halts")
        /\ todo # {b} => todo' = todo \ {b}
        /\ call' = call /\ dynamic_page_bitmap' = dynamic_page_bitmap
        /\ head' = [head EXCEPT ![b] = HALT]
    BY <1>0, <1>6, GoMoves DEF HaltHead, Written
  <2>2. Target(t)' = Target(t) /\ PagesOf(Target(t))' = PagesOf(Target(t))
    BY <2>1 DEF Target, PagesOf, Page
  <2>3. /\ Target(t) \subseteq Bundles
        /\ todo \subseteq Target(t)
        /\ PagesOf(Target(t)) \subseteq dynamic_page_bitmap
        /\ \A c \in Target(t) \ todo : head[c] \notin Code
    BY <1>0, <2>1, Targets DEF WritingOf
  <2>4. \A c \in Target(t) : c = b \/ c \notin todo => head'[c] \notin Code
    BY <1>0, <2>1, <2>3, NoCodeIsFresh
  <2>5. CASE todo = {b}
    BY <2>1, <2>2, <2>3, <2>4, <2>5 DEF WritingOf
  <2>6. CASE todo # {b}
    BY <2>1, <2>2, <2>3, <2>4, <2>6 DEF WritingOf
  <2>7. QED
    BY <2>5, <2>6
<1>7. CASE \/ Leave(t) \/ \E b \in Bundles : Enter(t, b)
           \/ \E u \in Threads : LookAtThread(t, u)
  <2>1. pc' = pc /\ pc[t] \in {"run", "scan"}
    BY <1>7 DEF Leave, Enter, LookAtThread, OutsideCode, IInv, Positions
  <2>2. QED
    BY <2>1, WritingIdle
<1>8. CASE \/ Spawn(t) \/ Exit(t) \/ Ask(t) \/ CheckInRead(t) \/ MapFails(t)
           \/ Finish(t) \/ Decide(t) \/ CheckInSet(t) \/ MapFile(t)
           \/ MarkDeleted(t) \/ SetOwnGeneration(t) \/ LockThreads(t)
  <2>1. pc'[t]
          \in {"run", "absent", "ask", "checkin", "setgen", "lock", "scan"}
    BY <1>0, <1>8, GoMoves, ReturnEnds
       DEF Spawn, Exit, Ask, CheckInRead, MapFails, Finish, Decide, CheckInSet,
           MapFile, MarkDeleted, SetOwnGeneration, LockThreads
  <2>2. QED
    BY <2>1, WritingIdle
<1>9. CASE \/ \E start \in Bundles, size \in 1 .. MaxSize :
                CreateCall(t, start, size) \/ ModifyCall(t, start, size)
                  \/ MmapCall(t, start, size)
           \/ \E r \in dynamic_regions : DeleteCall(t, r)
  <2>1. pc'[t] \in {"map", "mapfile", "setgen"}
    BY <1>0, <1>9, GoMoves DEF CreateCall, ModifyCall, MmapCall, DeleteCall
  <2>2. QED
    BY <2>1, WritingIdle
<1>10. QED
  BY <1>1, <1>2, <1>3, <1>4, <1>5, <1>6, <1>7, <1>8, <1>9 DEF Acts, Step

LEMMA WritingStep ==
    ASSUME DynamicCodeAssumption, IInv, NEW t \in Threads, Acts(t)
    PROVE  Writing'
  BY OtherWriting, OwnWriting DEF Writing

-----------------------------------------------------------------------------
(* A step of t in which nobody enters anything and no head becomes code    *)
(* where another thread is about to write.                                 *)
LEMMA NoRegionNoCode ==
    ASSUME IInv, NEW start, NEW sz, Overlapping(start, sz) = {},
           NEW b \in Span(start, sz), b \in Bundles
    PROVE  head[b] \notin Code /\ \A u \in Threads : ~Inside(u, b)
<1>1. \A r \in dynamic_regions : b \notin Extent(r)
  BY DEF Overlapping, Extent
<1>2. QED
  BY <1>1 DEF IInv, Memory, Live, Entered

(* The claims of two threads are apart.                                    *)
LEMMA ClaimsApart ==
    ASSUME DynamicCodeAssumption, IInv, NEW t \in Threads, NEW v \in Threads,
           v # t, Claiming(v),
           Claiming(t) \/ pc[t] = "heads"
    PROVE  Target(v) \cap Target(t) = {}
<1>1. CASE pc[v] = "mapfile" /\ pc[t] = "mapfile"
  BY <1>1 DEF IInv, Separate
<1>2. CASE pc[v] = "mapfile" /\ pc[t] # "mapfile"
  BY <1>2, FilesApart DEF Claiming
<1>3. CASE pc[v] # "mapfile" /\ pc[t] = "mapfile"
  BY <1>3, FilesApart DEF Claiming
<1>4. CASE pc[v] # "mapfile" /\ pc[t] # "mapfile"
  BY <1>4, OneHolds DEF Claiming, Holding
<1>5. QED
  BY <1>1, <1>2, <1>3, <1>4

(* A claimed bundle stays unused until the claiming thread writes to it.   *)
LEMMA StaysUnused ==
    ASSUME DynamicCodeAssumption, IInv, NEW t \in Threads, Acts(t),
           NEW v \in Threads, Claiming(v), v # t \/ (~MapFile(t)),
           NEW b \in Target(v)
    PROVE  head'[b] \notin Code /\ \A u \in Threads : ~Inside(u, b)'
<1>0. /\ head[b] \notin Code /\ \A u \in Threads : ~Inside(u, b)
      /\ b \in Bundles /\ head \in [Bundles -> Content]
  BY Targets DEF IInv, Unused, TypeOK, Claiming
<1>1. head'[b] \notin Code
  <2>1. CASE UNCHANGED text
    BY <1>0, <2>1 DEF text
  <2>2. CASE MapMiss(t) \/ Protect(t)
    BY <1>0, <2>2, NoCodeIsFresh DEF MapMiss, FillWithHalt, Protect
  <2>3. CASE MapFile(t)
    <3>1. Target(v) \cap Target(t) = {}
      BY <2>3, ClaimsApart DEF MapFile, Claiming
    <3>2. QED
      BY <1>0, <2>3, <3>1 DEF MapFile, Overmap
  <2>4. ASSUME NEW c \in Bundles, CopyTail(t, c) \/ HaltHead(t, c)
        PROVE  head'[b] \notin Code
    BY <1>0, <2>4, NoCodeIsFresh DEF CopyTail, HaltHead
  <2>5. ASSUME NEW c \in Bundles, CopyHead(t, c)
        PROVE  head'[b] \notin Code
    <3>1. /\ pc[t] = "heads"
          /\ c \in Target(t)
          /\ head' = [head EXCEPT ![c] = call[t].code]
      BY <2>5 DEF CopyHead, IInv, Writing, WritingOf
    <3>2. v # t
      BY <3>1 DEF Claiming
    <3>3. c # b
      BY <3>1, <3>2, ClaimsApart
    <3>4. QED
      BY <1>0, <3>1, <3>3
  <2>6. QED
    BY <2>1, <2>2, <2>3, <2>4, <2>5, TextChanges
<1>2. \A u \in Threads : ~Inside(u, b)'
  <2>1. CASE \E c \in Bundles : Enter(t, c)
    BY <1>0, <2>1 DEF Enter, Inside, IInv, TypeOK
  <2>2. CASE Leave(t)
    BY <1>0, <2>2, NoCodeIsFresh DEF Leave, Inside, Outside, IInv, TypeOK
  <2>3. CASE UNCHANGED at
    BY <1>0, <2>3 DEF Inside
  <2>4. QED
    BY <2>1, <2>2, <2>3
       DEF Acts, Step, Spawn, Exit, Leave, Ask, Enter, CreateCall, ModifyCall,
           MmapCall, DeleteCall, CheckInRead, MapHit, MapFails, MapMiss,
           Protect, Finish, CopyTail, CopyHead, HaltHead, Written, MarkDeleted,
           SetOwnGeneration, LockThreads, LookAtThread, Decide, CheckInSet,
           MapFile
<1>3. QED
  BY <1>1, <1>2

(* No code appears in a claimed bundle, and nobody can enter it there.     *)
LEMMA UnusedStep ==
    ASSUME DynamicCodeAssumption, IInv, NEW t \in Threads, Acts(t)
    PROVE  Unused'
<1> SUFFICES ASSUME NEW v \in Threads, Claiming(v)'
             PROVE  \A b \in Target(v)' :
                      head'[b] \notin Code /\ \A u \in Threads : ~Inside(u, b)'
  BY DEF Unused
<1>0. TypeOK /\ Positions
  BY DEF IInv
<1>1. CASE v # t
  <2>1. Target(v)' = Target(v) /\ Claiming(v)
    BY <1>1, OthersKeep DEF Target, Claiming
  <2>2. QED
    BY <1>1, <2>1, StaysUnused
<1>2. CASE v = t
  <2>1. ASSUME NEW start \in Bundles, NEW size \in 1 .. MaxSize,
               CreateCall(t, start, size) \/ MmapCall(t, start, size)
        PROVE  \A b \in Target(v)' :
                 head'[b] \notin Code /\ \A u \in Threads : ~Inside(u, b)'
    <3>1. /\ Overlapping(start, size) = {}
          /\ Span(start, size) \subseteq Bundles
          /\ head' = head /\ at' = at
      BY <2>1 DEF CreateCall, MmapCall, text
    <3>2. call'[t].start = start /\ call'[t].size = size
      <4>1. \E op, code : With(t, op, start, size, code)
        BY <2>1 DEF CreateCall, MmapCall
      <4>2. QED
        BY <1>0, <4>1, WithSets
    <3>5. Target(t)' = Span(start, size)
      BY <3>2 DEF Target
    <3>3. \A u, b : Inside(u, b)' = Inside(u, b)
      BY <3>1 DEF Inside
    <3>4. QED
      BY <1>2, <3>1, <3>3, <3>5, NoRegionNoCode
  <2>2. CASE Claiming(t) /\ call' = call /\ ~MapFile(t)
    <3>1. Target(t)' = Target(t)
      BY <2>2 DEF Target
    <3>2. QED
      BY <1>2, <2>2, <3>1, StaysUnused
  <2>3. \/ \E start \in Bundles, size \in 1 .. MaxSize :
             CreateCall(t, start, size) \/ MmapCall(t, start, size)
        \/ Claiming(t) /\ call' = call /\ ~MapFile(t)
    <3>1. pc'[t] \in {"map", "protect", "tails", "mapfile"}
            /\ (pc'[t] # "mapfile" => call'[t].op = "create")
      BY <1>2 DEF Claiming
    <3>2. CASE \/ Spawn(t) \/ Exit(t) \/ Ask(t) \/ CheckInRead(t)
               \/ MapFails(t)
               \/ Finish(t) \/ Decide(t) \/ CheckInSet(t) \/ MapFile(t)
               \/ MarkDeleted(t) \/ SetOwnGeneration(t) \/ LockThreads(t)
      <4>1. pc'[t]
              \in {"run", "absent", "ask", "checkin", "setgen", "lock", "scan"}
        BY <1>0, <3>2, GoMoves, ReturnEnds
           DEF Spawn, Exit, Ask, CheckInRead, MapFails, Finish, Decide,
               CheckInSet, MapFile, MarkDeleted, SetOwnGeneration, LockThreads
      <4>2. QED
        BY <3>1, <4>1
    <3>3. CASE \/ Leave(t) \/ \E b \in Bundles : Enter(t, b)
               \/ \E u \in Threads : LookAtThread(t, u)
      <4>1. pc' = pc /\ pc[t] \in {"run", "scan"}
        BY <3>3 DEF Leave, Enter, LookAtThread, OutsideCode, IInv, Positions
      <4>2. QED
        BY <3>1, <4>1
    <3>4. CASE \/ \E start \in Bundles, size \in 1 .. MaxSize :
                    ModifyCall(t, start, size)
               \/ \E r \in dynamic_regions : DeleteCall(t, r)
      <4>1. /\ pc'[t] \in {"map", "setgen"}
            /\ call'[t].op \in {"modify", "delete"}
        BY <1>0, <3>4, GoMoves, WithSets DEF ModifyCall, DeleteCall
      <4>2. QED
        BY <3>1, <4>1
    <3>5. CASE MapHit(t) \/ Protect(t) \/ MapMiss(t)
      <4>1. pc[t] \in {"map", "protect"} /\ call' = call
        BY <3>5 DEF MapHit, Protect, MapMiss
      <4>2. pc'[t] # "mapfile"
        <5>1. pc'[t] \in {"protect", AfterMap[call[t].op]}
          BY <1>0, <3>5, GoMoves DEF MapHit, Protect, MapMiss
        <5>2. call[t].op \in {"create", "modify", "delete"}
          BY <4>1 DEF IInv, TypeOK, Positions, Op
        <5>3. QED
          BY <5>1, <5>2 DEF AfterMap
      <4>3. QED
        BY <3>1, <4>1, <4>2 DEF Claiming, MapFile
    <3>6. ASSUME NEW b \in Bundles,
                 CopyTail(t, b) \/ CopyHead(t, b) \/ HaltHead(t, b)
          PROVE  Claiming(t) /\ call' = call /\ ~MapFile(t)
      <4>1. /\ call' = call
            /\ \/ pc[t] = "tails"
               \/ pc'[t] \in {"heads", "finish", "halts", "mark"}
        BY <1>0, <3>6, GoMoves DEF CopyTail, CopyHead, HaltHead, Written
      <4>2. QED
        BY <1>0, <3>1, <4>1 DEF Positions, Claiming, MapFile
    <3>7. QED
      BY <3>2, <3>3, <3>4, <3>5, <3>6 DEF Acts, Step
  <2>4. QED
    BY <2>1, <2>2, <2>3
<1>3. QED
  BY <1>1, <1>2

(* A thread is inside of code only while it runs sandboxed code.           *)
LEMMA InsideRuns ==
    ASSUME IInv, NEW u \in Threads, NEW b, Inside(u, b)
    PROVE  pc[u] = "run" /\ u \in threads
<1>1. at[u] # Outside
  BY NoCodeIsFresh DEF Inside, Outside
<1>2. QED
  BY <1>1 DEF IInv, Positions

(* Code that a thread is inside of is not overwritten.                     *)
LEMMA TailStays ==
    ASSUME DynamicCodeAssumption, IInv, NEW t \in Threads, Acts(t),
           NEW u \in Threads, NEW b \in Bundles, Inside(u, b)
    PROVE  tail'[b] = tail[b]
<1>0. /\ tail \in [Bundles -> Content]
      /\ \A v \in Threads : Claiming(v) => b \notin Target(v)
  BY DEF IInv, TypeOK, Unused
<1>1. CASE UNCHANGED text
  BY <1>1 DEF text
<1>2. CASE MapMiss(t)
  <2>1. tail[b] # FRESH
    BY NoCodeIsFresh DEF IInv, Entered, Inside
  <2>2. Page(b) \notin PagesOf(Target(t)) \ dynamic_page_bitmap
    BY <1>2, <2>1, FreshPages DEF MapMiss
  <2>3. QED
    BY <1>2, <2>2 DEF MapMiss, FillWithHalt
<1>3. CASE Protect(t)
  BY <1>3 DEF Protect
<1>4. CASE MapFile(t)
  BY <1>0, <1>4 DEF MapFile, Overmap, Claiming
<1>5. ASSUME NEW c \in Bundles, CopyTail(t, c)
      PROVE  tail'[b] = tail[b]
  <2>1. c \in Target(t) /\ Claiming(t)
    BY <1>5 DEF CopyTail, IInv, Writing, WritingOf, Positions, Claiming
  <2>2. QED
    BY <1>0, <1>5, <2>1 DEF CopyTail
<1>6. ASSUME NEW c \in Bundles, CopyHead(t, c) \/ HaltHead(t, c)
      PROVE  tail'[b] = tail[b]
  BY <1>6 DEF CopyHead, HaltHead
<1>7. QED
  BY <1>1, <1>2, <1>3, <1>4, <1>5, <1>6, TextChanges

(* A region stays while a thread is inside of it: its deletion is younger  *)
(* than the last time the thread was outside.                              *)
Holds(u, b) ==
    \E r \in dynamic_regions :
        /\ b \in Extent(r)
        /\ r.delete_generation >= 0
             => thread_generation[u] < r.delete_generation

(* A region stays until all threads have acknowledged its deletion: the    *)
(* minimum of their generations has reached it.                            *)
LEMMA RegionHolds ==
    ASSUME DynamicCodeAssumption, IInv, NEW t \in Threads, Acts(t),
           NEW u \in Threads, NEW b \in Bundles, Inside(u, b)
    PROVE  Holds(u, b)'
<1>1. pc[u] = "run" /\ u \in threads
  BY InsideRuns
<1>2. thread_generation'[u] = thread_generation[u]
  <2>1. CASE u # t
    BY <2>1, OthersKeep
  <2>2. CASE u = t
    BY <1>1, <2>2
       DEF Acts, Step, Spawn, Exit, Leave, Ask, Enter, CreateCall, ModifyCall,
           MmapCall, DeleteCall, CheckInRead, MapHit, MapFails, MapMiss,
           Protect, Finish, CopyTail, CopyHead, HaltHead, Written, MarkDeleted,
           SetOwnGeneration, LockThreads, LookAtThread, Decide, CheckInSet,
           MapFile
  <2>3. QED
    BY <2>1, <2>2
<1>3. PICK r \in dynamic_regions :
        /\ b \in Extent(r)
        /\ r.delete_generation >= 0
             => thread_generation[u] < r.delete_generation
  BY DEF IInv, Entered
<1>4. CASE r \in dynamic_regions'
  BY <1>2, <1>3, <1>4 DEF Holds
<1>5. CASE r \notin dynamic_regions'
  <2>1. MarkDeleted(t) \/ Decide(t)
    BY <1>5, RegionChanges
  <2>2. /\ Deleting(t) \in dynamic_regions
        /\ pc[t] # "mark" => Deleting(t).delete_generation >= 0
    BY <2>1, DeletingOwn DEF MarkDeleted, Decide
  <2>3. r = Deleting(t)
    BY <1>5, <2>1 DEF MarkDeleted, Decide
  <2>4. CASE MarkDeleted(t)
    <3>1. Deleting(t) \in Region
      BY <2>2, RegionFields DEF IInv
    <3>2. PICK d \in dynamic_regions' :
            /\ d.start = r.start /\ d.size = r.size
            /\ d.delete_generation = dynamic_delete_generation + 1
      <4> DEFINE e == [r EXCEPT !.delete_generation =
                             dynamic_delete_generation']
      <4>1. /\ e.start = r.start /\ e.size = r.size
            /\ e.delete_generation = dynamic_delete_generation'
        BY <2>3, <3>1 DEF Region
      <4>2. /\ e \in dynamic_regions'
            /\ dynamic_delete_generation' = dynamic_delete_generation + 1
        BY <2>3, <2>4 DEF MarkDeleted
      <4> HIDE DEF e
      <4>3. QED
        BY <4>1, <4>2
    <3>3. thread_generation[u] < dynamic_delete_generation + 1
      BY DEF IInv, TypeOK, Generations
    <3>4. b \in Extent(d)
      BY <1>3, <3>2 DEF Extent
    <3>5. QED
      BY <1>2, <3>2, <3>3, <3>4 DEF Holds
  <2>5. CASE Decide(t)
    <3>1. pc[t] = "scan" /\ unseen = {} /\ r.delete_generation <= rv
      BY <1>5, <2>3, <2>5 DEF Decide
    <3>2. rv <= thread_generation[u]
      BY <1>1, <3>1 DEF IInv, Generations
    <3>3. r.delete_generation >= 0
      BY <2>2, <2>3, <3>1
    <3>4. /\ r.delete_generation \in Int /\ rv \in Int
          /\ thread_generation[u] \in Int
      BY RegionFields DEF IInv, TypeOK
    <3>5. QED
      BY <1>3, <3>1, <3>2, <3>3, <3>4
  <2>6. QED
    BY <2>1, <2>4, <2>5
<1>6. QED
  BY <1>4, <1>5

(* What a thread is inside of stays as it was.                             *)
LEMMA EnteredStep ==
    ASSUME DynamicCodeAssumption, IInv, NEW t \in Threads, Acts(t)
    PROVE  Entered'
<1> SUFFICES ASSUME NEW u \in Threads, NEW b \in Bundles, Inside(u, b)'
             PROVE  tail'[b] = at'[u].code /\ Holds(u, b)'
  BY DEF Entered, Holds, Bundles
<1>1. CASE Inside(u, b) /\ at'[u] = at[u]
  BY <1>1, TailStays, RegionHolds DEF IInv, Entered
<1>2. CASE \E c \in Bundles : Enter(t, c) /\ u = t
  <2>1. PICK c \in Bundles : Enter(t, c)
    BY <1>2
  <2>2. /\ at'[t] = [bundle |-> c, code |-> head[c]] /\ head[c] \in Code
        /\ tail' = tail /\ dynamic_regions' = dynamic_regions
    BY <2>1 DEF Enter, text, IInv, TypeOK
  <2>3. c = b
    BY <1>2, <2>2 DEF Inside
  <2>4. PICK r \in dynamic_regions : b \in Extent(r) /\ r.delete_generation < 0
    BY <2>2, <2>3 DEF IInv, Memory, Live
  <2>5. tail[b] = head[b]
    BY <2>2, <2>3 DEF IInv, Memory, Live
  <2>6. r.delete_generation \in Int
    BY RegionFields DEF IInv
  <2>7. QED
    BY <1>2, <2>2, <2>3, <2>4, <2>5, <2>6 DEF Holds
<1>3. \/ Inside(u, b) /\ at'[u] = at[u]
      \/ \E c \in Bundles : Enter(t, c) /\ u = t
  <2>1. CASE u # t
    BY <2>1, OthersKeep DEF Inside
  <2>2. CASE u = t /\ ~Leave(t) /\ ~\E c \in Bundles : Enter(t, c)
    <3>1. at' = at
      BY <2>2
         DEF Acts, Step, Spawn, Exit, Ask, CreateCall, ModifyCall, MmapCall,
             DeleteCall, CheckInRead, MapHit, MapFails, MapMiss, Protect,
             Finish, CopyTail, CopyHead, HaltHead, Written, MarkDeleted,
             SetOwnGeneration, LockThreads, LookAtThread, Decide, CheckInSet,
             MapFile
    <3>2. QED
      BY <2>2, <3>1 DEF Inside
  <2>3. CASE u = t /\ Leave(t)
    <3>1. at'[t].code = HALT
      BY <2>3 DEF Leave, Outside, IInv, TypeOK
    <3>2. QED
      BY <2>3, <3>1, NoCodeIsFresh DEF Inside
  <2>4. QED
    BY <2>1, <2>2, <2>3
<1>4. QED
  BY <1>1, <1>2, <1>3

-----------------------------------------------------------------------------
GenerationsOf(v) ==
    /\ thread_generation[v] <= dynamic_delete_generation
    /\ pc[v] = "checkin" => /\ thread_generation[v] <= gen[v]
                            /\ gen[v] <= dynamic_delete_generation

ScanOf(v) ==
    pc[v] = "scan" => \A u \in threads \ unseen : rv <= thread_generation[u]

(* The generations, thread by thread.                                      *)
LEMMA GenerationParts ==
    Generations <=> \A v \in Threads : GenerationsOf(v) /\ ScanOf(v)
  BY DEF Generations, GenerationsOf, ScanOf

(* The generation never goes back.                                         *)
LEMMA GenerationGrows ==
    ASSUME IInv, NEW t \in Threads, Acts(t)
    PROVE  \/ dynamic_delete_generation' = dynamic_delete_generation
           \/ dynamic_delete_generation' = dynamic_delete_generation + 1
  BY RegionChanges DEF MarkDeleted, Decide

(* A thread never takes a generation that is lower than the one it has.    *)
LEMMA GenerationsOfStep ==
    ASSUME DynamicCodeAssumption, IInv, NEW t \in Threads, Acts(t),
           NEW v \in Threads
    PROVE  GenerationsOf(v)'
<1>0. /\ GenerationsOf(v) /\ TypeOK
      /\ dynamic_delete_generation \in Nat
      /\ thread_generation[v] \in Nat
      /\ gen[v] \in Nat
  BY DEF IInv, Generations, GenerationsOf, TypeOK
<1>1. /\ dynamic_delete_generation' \in Nat
      /\ dynamic_delete_generation <= dynamic_delete_generation'
  BY <1>0, GenerationGrows
<1>2. CASE pc'[v] \in {pc[v], "run", "absent"} /\ gen'[v] = gen[v]
             /\ thread_generation'[v] = thread_generation[v]
  BY <1>0, <1>1, <1>2 DEF GenerationsOf
<1>3. CASE v # t
  BY <1>2, <1>3, OthersKeep
<1>4. CASE v = t
  <2>1. CASE Spawn(t) \/ SetOwnGeneration(t) \/ CheckInSet(t) \/ CheckInRead(t)
    BY <1>0, <1>1, <1>4, <2>1, GoMoves
       DEF Spawn, SetOwnGeneration, CheckInSet, CheckInRead,
           SetThreadGeneration, GenerationsOf, TypeOK
  <2>2. CASE ~(Spawn(t) \/ SetOwnGeneration(t) \/ CheckInSet(t)
               \/ CheckInRead(t))
    <3>1. gen' = gen /\ thread_generation' = thread_generation
      BY <2>2
         DEF Acts, Step, Exit, Leave, Ask, Enter, CreateCall, ModifyCall,
             MmapCall, DeleteCall, MapHit, MapFails, MapMiss, Protect, Finish,
             CopyTail, CopyHead, HaltHead, Written, MarkDeleted, LockThreads,
             LookAtThread, Decide, MapFile
    <3>2. pc'[t] # "checkin"
      <4>1. \A to : Go(t, to) => pc'[t] = to
        BY <1>0, GoMoves
      <4>2. Return(t) => pc'[t] = "run"
        BY <1>0, ReturnEnds
      <4>3. pc[t] = "map" \/ pc[t] = "protect"
              => AfterMap[call[t].op] # "checkin"
        BY DEF IInv, TypeOK, Op, Positions, AfterMap
      <4>5. \A r : (IF r.delete_generation < 0 THEN "map" ELSE "setgen")
              # "checkin"
        OBVIOUS
      <4>6. Leave(t) \/ (\E b \in Bundles : Enter(t, b)) \/ Exit(t) \/ Ask(t)
              => pc[t] = "run"
        BY DEF Leave, Enter, Exit, Ask, OutsideCode, IInv, Positions
      <4>4. QED
        BY <2>2, <4>1, <4>2, <4>3, <4>5, <4>6
           DEF Acts, Step, Exit, Leave, Ask, Enter, CreateCall, ModifyCall,
               MmapCall, DeleteCall, MapHit, MapFails, MapMiss, Protect,
               Finish, CopyTail, CopyHead, HaltHead, Written, MarkDeleted,
               LockThreads, LookAtThread, Decide, MapFile, OutsideCode
    <3>3. QED
      BY <1>0, <1>1, <1>4, <3>1, <3>2 DEF GenerationsOf
  <2>3. QED
    BY <2>1, <2>2
<1>5. QED
  BY <1>3, <1>4

(* While a thread looks at the generations, threads neither come nor go    *)
(* and their generations grow.                                             *)
LEMMA ScanOfStep ==
    ASSUME DynamicCodeAssumption, IInv, NEW t \in Threads, Acts(t),
           NEW v \in Threads
    PROVE  ScanOf(v)'
<1> SUFFICES ASSUME pc'[v] = "scan"
             PROVE  \A u \in threads' \ unseen' : rv' <= thread_generation'[u]
  BY DEF ScanOf
<1>0. TypeOK /\ ScanOf(v) /\ \A u \in Threads : GenerationsOf(u)
  BY DEF IInv, Generations, ScanOf, GenerationsOf
<1>1. CASE LockThreads(t)
  BY <1>1 DEF LockThreads
<1>2. ASSUME NEW u \in Threads, LookAtThread(t, u)
      PROVE  \A w \in threads' \ unseen' : rv' <= thread_generation'[w]
  <2>1. /\ unseen' = unseen \ {u}
        /\ threads' = threads
        /\ thread_generation' = thread_generation
        /\ rv' = IF rv > thread_generation[u]
                 THEN thread_generation[u] ELSE rv
        /\ pc[v] = "scan"
    BY <1>2 DEF LookAtThread
  <2>2. rv \in Int /\ \A w \in threads : thread_generation[w] \in Int
    BY <1>0 DEF TypeOK
  <2>3. thread_generation[u] \in Int
    BY <1>0 DEF TypeOK
  <2>4. QED
    BY <1>0, <2>1, <2>2, <2>3 DEF ScanOf
<1>3. CASE ~LockThreads(t) /\ ~\E u \in Threads : LookAtThread(t, u)
  <2>1. pc[v] = "scan"
    <3>1. CASE v # t
      BY <3>1, OthersKeep
    <3>2. CASE v = t
      <4>1. \A to : Go(t, to) => pc'[t] = to
        BY <1>0, GoMoves
      <4>2. Return(t) => pc'[t] = "run"
        BY <1>0, ReturnEnds
      <4>3. pc[t] = "map" \/ pc[t] = "protect" => AfterMap[call[t].op] # "scan"
        BY DEF IInv, TypeOK, Op, Positions, AfterMap
      <4>4. QED
        BY <1>3, <3>2, <4>1, <4>2, <4>3
           DEF Acts, Step, Spawn, Exit, Leave, Ask, Enter, CreateCall,
               ModifyCall, MmapCall, DeleteCall, CheckInRead, MapHit, MapFails,
               MapMiss, Protect, Finish, CopyTail, CopyHead, HaltHead, Written,
               MarkDeleted, SetOwnGeneration, Decide, CheckInSet, MapFile,
               OutsideCode
    <3>3. QED
      BY <3>1, <3>2
  <2>2. ~Spawn(t) /\ ~Exit(t) /\ ~Decide(t) /\ ~SetOwnGeneration(t)
    <3>1. ~Spawn(t) /\ ~Exit(t)
      BY <2>1 DEF Spawn, Exit
    <3>2. ~Decide(t) /\ ~SetOwnGeneration(t)
      <4>1. v = t \/ pc[t] \notin Holding
        BY <2>1, OneHolds DEF Holding
      <4>2. CASE v = t
        BY <1>0, <2>1, <4>2, ReturnEnds DEF Decide, SetOwnGeneration
      <4>3. CASE pc[t] \notin Holding
        BY <4>3 DEF Decide, SetOwnGeneration, Holding
      <4>4. QED
        BY <4>1, <4>2, <4>3
    <3>3. QED
      BY <3>1, <3>2
  <2>3. UNCHANGED <<threads, unseen, rv>>
          /\ (thread_generation' = thread_generation \/ CheckInSet(t))
    BY <1>3, <2>2
       DEF Acts, Step, Leave, Ask, Enter, CreateCall, ModifyCall, MmapCall,
           DeleteCall, CheckInRead, MapHit, MapFails, MapMiss, Protect, Finish,
           CopyTail, CopyHead, HaltHead, Written, MarkDeleted, CheckInSet,
           MapFile, scan
  <2>4. \A u \in Threads :
          thread_generation[u] <= thread_generation'[u]
            /\ thread_generation[u] \in Int /\ thread_generation'[u] \in Int
    <3>1. CASE thread_generation' = thread_generation
      BY <1>0, <3>1 DEF TypeOK
    <3>2. CASE CheckInSet(t)
      BY <1>0, <3>2 DEF CheckInSet, SetThreadGeneration, GenerationsOf, TypeOK
    <3>3. QED
      BY <2>3, <3>1, <3>2
  <2>5. rv \in Int /\ threads \subseteq Threads
    BY <1>0 DEF TypeOK
  <2>6. QED
    BY <1>0, <2>1, <2>3, <2>4, <2>5 DEF ScanOf
<1>4. QED
  BY <1>1, <1>2, <1>3

LEMMA GenerationsStep ==
    ASSUME DynamicCodeAssumption, IInv, NEW t \in Threads, Acts(t)
    PROVE  Generations'
<1>1. \A v \in Threads : GenerationsOf(v)' /\ ScanOf(v)'
  BY GenerationsOfStep, ScanOfStep
<1>2. QED
  BY <1>1 DEF Generations, GenerationsOf, ScanOf

-----------------------------------------------------------------------------
(* At the start the area is empty.                                         *)
LEMMA Initially == DynamicCodeAssumption /\ Init => IInv
<1> SUFFICES ASSUME DynamicCodeAssumption, Init PROVE IInv
  OBVIOUS
<1>0. /\ 0 \in Bundles
      /\ 1 \in 1 .. NumBundles
      /\ 0 \in 0 .. MaxGeneration
      /\ 0 \in 0 .. MaxCode
      /\ 0 \in 0 .. MaxSpawn
  BY DEF Bundles, DynamicCodeAssumption
<1>1. TypeOK
  BY <1>0
     DEF Init, TypeOK, DynamicCodeAssumption, Content, PC, NoCall, Op, Outside
<1>2. Positions
  BY DEF Init, Positions, Holding, DynamicCodeAssumption, NoCall
<1>3. \A t \in Threads :
        pc[t] \in {"run", "absent"} /\ at[t] = Outside
          /\ thread_generation[t] = 0
  BY DEF Init
<1>4. Regions /\ Claims /\ Separate /\ Writing /\ Unused
  BY <1>3
     DEF Init, Regions, Claims, Claim, Separate, Writing, WritingOf, Unused,
         Claiming
<1>5. Memory
  BY NoCodeIsFresh DEF Init, Memory, Filled, Known, Live
<1>6. Entered
  BY <1>3, NoCodeIsFresh DEF Entered, Inside, Outside
<1>7. Generations
  BY <1>3 DEF Init, Generations
<1>8. QED
  BY <1>1, <1>2, <1>4, <1>5, <1>6, <1>7 DEF IInv

LEMMA Stuttering == IInv /\ UNCHANGED vars => IInv'
<1> SUFFICES ASSUME IInv, UNCHANGED vars PROVE IInv'
  OBVIOUS
<1> USE DEF vars, text, scan, counters
<1>1. TypeOK'
  BY DEF IInv, TypeOK
<1>2. Positions' /\ Regions' /\ Separate' /\ Generations'
  BY DEF IInv, Positions, Regions, Separate, Target, Generations
<1>3. Claims'
  BY DEF IInv, Claims, Claim, Target, Own
<1>4. Memory'
  BY DEF IInv, Memory, Filled, Known, Live
<1>5. Writing'
  BY DEF IInv, Writing, WritingOf, Target
<1>6. Unused' /\ Entered'
  BY DEF IInv, Unused, Claiming, Target, Inside, Entered
<1>7. QED
  BY <1>1, <1>2, <1>3, <1>4, <1>5, <1>6 DEF IInv

(* Every step keeps the invariant.                                         *)
LEMMA Invariance == DynamicCodeAssumption /\ IInv /\ [Next]_vars => IInv'
<1> SUFFICES ASSUME DynamicCodeAssumption, IInv, [Next]_vars PROVE IInv'
  OBVIOUS
<1>1. ASSUME NEW t \in Threads, Acts(t) PROVE IInv'
  BY <1>1, TypeStep, PositionsStep, RegionsStep, ClaimsStep, SeparateStep,
     MemoryStep, WritingStep, UnusedStep, EnteredStep, GenerationsStep
     DEF IInv
<1>2. Next => \E t \in Threads : Acts(t)
  BY DEF Next, Acts
<1>3. QED
  BY <1>1, <1>2, Stuttering

(* The invariant implies what the run checks.                              *)
LEMMA Consequences ==
    ASSUME DynamicCodeAssumption, IInv
    PROVE  TypeOK /\ NoTornCode /\ EntryOnlyInRegions /\ SanityChecks
<1>1. NoTornCode
  BY DEF IInv, TypeOK, Entered, Inside, NoTornCode
<1>2. EntryOnlyInRegions
  <2> SUFFICES ASSUME NEW b \in Bundles
               PROVE  /\ Page(b) \in executable
                           => FRESH \notin {head[b], tail[b]}
                      /\ head[b] \in Code =>
                           \E r \in dynamic_regions :
                              /\ b \in Span(r.start, r.size)
                              /\ dynamic_load_mutex = NoThread
                                   => r.delete_generation < 0
    BY DEF EntryOnlyInRegions
  <2>1. Filled(b) /\ Live(b)
    BY DEF IInv, Memory
  <2>2. QED
    BY <2>1 DEF Filled, Live, Extent
<1>3. SanityChecks
  <2>1. mapcache \subseteq executable
    BY DEF IInv, Memory
  <2>2. ASSUME NEW t \in Threads, pc[t] = "map", NEW b \in Bundles,
               Page(b) \in PagesOf(Target(t)) \ dynamic_page_bitmap
        PROVE  head[b] = FRESH /\ tail[b] = FRESH
    BY <2>2, FreshPages
  <2>3. QED
    BY <2>1, <2>2 DEF IInv, Generations, SanityChecks
<1>4. QED
  BY <1>1, <1>2, <1>3 DEF IInv

(* Code is loaded and unloaded under running threads without harm: a       *)
(* thread that has entered a bundle finds the rest of the code it has      *)
(* entered, code can be entered only in regions whose deletion has not     *)
(* been requested and in pages that have been filled, and the CHECKs of    *)
(* nacl_text.c on generations, fresh pages and the cached mapping hold.    *)
THEOREM DynamicCodeCorrect ==
    ASSUME DynamicCodeAssumption
    PROVE  Spec =>
             [](TypeOK /\ NoTornCode /\ EntryOnlyInRegions /\ SanityChecks)
<1>1. Init => IInv
  BY Initially
<1>2. IInv /\ [Next]_vars => IInv'
  BY Invariance
<1>3. IInv => TypeOK /\ NoTornCode /\ EntryOnlyInRegions /\ SanityChecks
  BY Consequences
<1>4. QED
  BY <1>1, <1>2, <1>3, PTL DEF Spec

-----------------------------------------------------------------------------
(***************************************************************************)
(* The threads of nc_thread.c, for any number of them, any stacks and any  *)
(* size of the cache, if each is joined or detached by one caller.         *)
(*                                                                         *)
(* The invariant says which two threads are about each other: a thread     *)
(* that is being created has one creator, and one that somebody waits for  *)
(* is not released by anybody else.  Data are freed exactly when the       *)
(* thread has released them and has been joined or detached.  A stack has  *)
(* one thread on it from pthread_create until thread_exit clears is_used,  *)
(* and lies in the cache only when that thread is about to leave it.       *)
(***************************************************************************)

(* Thread t is being created by thread p.                                  *)
CreatesThread(p, t) == threadPc[p] \in {"start", "undo"} /\ target[p] = t

(* Thread t still needs its data.                                          *)
NeedsData(t) == threadPc[t] \notin {"absent", "released", "gone"}

(* What each thread is about, and who may be about the same thread.        *)
ThreadPositions ==
    /\ threadPc[Main] \in {"run", "start", "undo", "wait", "lastwait",
                           "exited"}
    /\ \A t \in Users : threadPc[t] \notin {"lastwait", "exited"}
    /\ \A p \in Pthread!AllThreads : threadPc[p] \in {"start", "undo"} =>
         /\ target[p] \in Users
         /\ creator[target[p]] = p
         /\ threadPc[target[p]] = "absent"
         /\ basic_data[target[p]] = "live"
         /\ tdb[target[p]]
         /\ ~called[target[p]]
         /\ ~returned[target[p]]
    /\ \A j \in Pthread!AllThreads : threadPc[j] = "wait" =>
         /\ target[j] \in Users
         /\ creator[target[j]] = j
         /\ threadPc[target[j]] # "absent"
         /\ called[target[j]] /\ ~returned[target[j]]
         /\ joinable[target[j]]

(* Who frees the data of a thread, and when.                               *)
ThreadData ==
    \A t \in Pthread!AllThreads :
        /\ NeedsData(t) => basic_data[t] = "live" /\ tdb[t]
        /\ threadPc[t] \in {"released", "gone"} =>
             /\ ~tdb[t]
             /\ returned[t] \/ ~joinable[t] => basic_data[t] = "freed"
        /\ threadPc[t] # "absent" /\ joinable[t] /\ ~returned[t]
             => basic_data[t] = "live"
        /\ threadPc[t] # "absent" /\ tdb[t] /\ returned[t] => ~joinable[t]
        /\ threadStatus[t] => threadPc[t] \in {"released", "gone"}
        /\ join_waiting[t] \/ returned[t] => called[t]
        /\ called[t] => threadPc[t] # "absent"
        /\ basic_data[t] = "none" => threadPc[t] = "absent"

HasStack(t) ==
    \/ t # Main /\ threadPc[t] \notin {"absent", "gone"}
    \/ \E p \in Pthread!AllThreads : CreatesThread(p, t)

(* Which stacks are in use, and by whom.                                   *)
ThreadStacks ==
    /\ \A t \in Pthread!AllThreads : HasStack(t) => stack_node[t] # NoBlock
    /\ \A t \in Pthread!AllThreads :
          basic_data[t] = "none" => stack_node[t] = NoBlock
    /\ \A t \in Pthread!AllThreads : stack_node[t] # NoBlock =>
         is_used[stack_node[t]] /\ stack_node[t] \in allocated
    /\ \A t, u \in Pthread!AllThreads :
         stack_node[t] = stack_node[u] /\ stack_node[t] # NoBlock => t = u
    /\ \A b \in Blocks :
          is_used[b] => \E t \in Pthread!AllThreads : Pthread!OnStack(t, b)
    /\ \A i \in 1 .. Len(stack_blocks) :
         /\ stack_blocks[i] \in allocated
         /\ \A t \in Pthread!AllThreads :
              Pthread!OnStack(t, stack_blocks[i]) => threadPc[t] = "released"
    /\ \A i, k \in 1 .. Len(stack_blocks) :
         stack_blocks[i] = stack_blocks[k] => i = k

ThreadInv ==
    /\ Pthread!TypeOK
    /\ ThreadPositions
    /\ ThreadData
    /\ ThreadStacks
    /\ Pthread!CountNeverLow

-----------------------------------------------------------------------------
(* The instance's finite sets are those that the theorems are about.       *)
LEMMA SameCardinality ==
    \A S : /\ Pthread!Cardinality(S) = Cardinality(S)
           /\ Pthread!IsFiniteSet(S) <=> IsFiniteSet(S)
  BY DEF Pthread!Cardinality, Cardinality, Pthread!IsFiniteSet, IsFiniteSet

(* Only blocks that nobody uses are freed from the cache.                  *)
LEMMA ExcessUnused ==
    ASSUME Pthread!PthreadThreadAssumption, Pthread!TypeOK
    PROVE  /\ Pthread!Excess \in 0 .. Len(stack_blocks)
           /\ \A i \in 1 .. Pthread!Excess : ~is_used[stack_blocks[i]]
<1> DEFINE L == Len(stack_blocks)
           Ok(i) == L - i >= MaxCached /\ ~is_used[stack_blocks[i]]
           S == {n \in 1 .. L : \A i \in 1 .. n : Ok(i)}
           c == Cardinality(S)
<1>1. L \in Nat /\ Pthread!Excess = c
  BY SameCardinality DEF Pthread!TypeOK, Pthread!Excess
<1> HIDE DEF L, Ok
<1>2. /\ IsFiniteSet(1 .. L) /\ Cardinality(1 .. L) = L
      /\ S \in SUBSET (1 .. L)
  BY <1>1, FS_Interval
<1>3. IsFiniteSet(S) /\ c \in Nat /\ c <= L
  BY <1>2, FS_Subset, FS_CardinalityType
<1> HIDE DEF c
<1>4. ASSUME NEW n \in S PROVE n <= c
  <2>1. (1 .. n) \in SUBSET S
    BY <1>1
  <2>2. n \in Nat /\ Cardinality(1 .. n) = n
    BY <1>1, FS_Interval
  <2>3. Cardinality(1 .. n) <= Cardinality(S)
    BY <1>3, <2>1, FS_Subset
  <2>4. QED
    BY <2>2, <2>3 DEF c
<1>5. S \in SUBSET (1 .. c) /\ IsFiniteSet(1 .. c) /\ Cardinality(1 .. c) = c
  <2>1. \A n \in S : n \in 1 .. L
    OBVIOUS
  <2>2. S \in SUBSET (1 .. c)
    BY <1>1, <1>3, <1>4, <2>1
  <2>3. QED
    BY <1>3, <2>2, FS_Interval
<1>6. S = 1 .. c
  BY <1>3, <1>5, FS_Subset DEF c
<1>7. \A i \in 1 .. c : Ok(i)
  BY <1>3, <1>6
<1>8. QED
  BY <1>1, <1>3, <1>7 DEF L, Ok

(* What is left of the cache when it has been trimmed.                     *)
LEMMA TrimmedCache ==
    ASSUME Pthread!PthreadThreadAssumption, Pthread!TypeOK
    PROVE  /\ Pthread!Trimmed \in Seq(Blocks)
           /\ \A i \in 1 .. Len(Pthread!Trimmed) :
                /\ i + Pthread!Excess \in 1 .. Len(stack_blocks)
                /\ Pthread!Trimmed[i] = stack_blocks[i + Pthread!Excess]
           /\ \A b \in Pthread!BlocksOf(stack_blocks)
                      \ Pthread!BlocksOf(Pthread!Trimmed) :
                b \in Blocks /\ ~is_used[b]
<1> DEFINE L == Len(stack_blocks)
<1>1. /\ stack_blocks \in Seq(Blocks) /\ L \in Nat
      /\ Pthread!Excess \in 0 .. L
      /\ \A i \in 1 .. L : stack_blocks[i] \in Blocks
  BY ExcessUnused DEF Pthread!TypeOK
<1>2. /\ Pthread!Trimmed \in Seq(Blocks)
      /\ Len(Pthread!Trimmed) = L - Pthread!Excess
      /\ \A i \in 1 .. L - Pthread!Excess :
            Pthread!Trimmed[i] = stack_blocks[i + Pthread!Excess]
  BY <1>1 DEF Pthread!Trimmed
<1>3. ASSUME NEW b \in Pthread!BlocksOf(stack_blocks)
                        \ Pthread!BlocksOf(Pthread!Trimmed)
      PROVE  b \in Blocks /\ ~is_used[b]
  <2>1. PICK i \in 1 .. L : b = stack_blocks[i]
    BY DEF Pthread!BlocksOf
  <2>2. CASE i > Pthread!Excess
    <3>1. /\ i - Pthread!Excess \in 1 .. L - Pthread!Excess
          /\ (i - Pthread!Excess) + Pthread!Excess = i
      BY <1>1, <2>2
    <3>2. Pthread!Trimmed[i - Pthread!Excess] = b
      BY <1>2, <2>1, <3>1
    <3>3. QED
      BY <1>2, <3>1, <3>2 DEF Pthread!BlocksOf
  <2>3. CASE i <= Pthread!Excess
    BY <1>1, <2>1, <2>3, ExcessUnused
  <2>4. QED
    BY <1>1, <2>2, <2>3
<1>4. QED
  BY <1>1, <1>2, <1>3

-----------------------------------------------------------------------------
LEMMA ThreadInitially ==
    ASSUME Pthread!PthreadThreadAssumption
    PROVE  Pthread!Init => ThreadInv
<1> SUFFICES ASSUME Pthread!Init PROVE ThreadInv
  OBVIOUS
<1>1. /\ IsFiniteSet(Pthread!AllThreads)
      /\ Cardinality(Pthread!AllThreads) \in Nat \ {0}
      /\ Main \in Pthread!AllThreads
  BY SameCardinality, FS_AddElement, FS_CardinalityType, FS_EmptySet
     DEF Pthread!AllThreads, Pthread!PthreadThreadAssumption
<1>2. Pthread!TypeOK
  BY SameCardinality, <1>1
     DEF Pthread!Init, Pthread!TypeOK, Pthread!PC, Pthread!AllThreads,
         Pthread!PthreadThreadAssumption
<1>3. ThreadPositions
  BY DEF Pthread!Init, ThreadPositions, Pthread!AllThreads,
         Pthread!PthreadThreadAssumption
<1>4. ThreadData
  BY DEF Pthread!Init, ThreadData, NeedsData
<1>5. ThreadStacks
  <2>1. \A t \in Pthread!AllThreads : ~HasStack(t)
    BY DEF Pthread!Init, HasStack, CreatesThread, Pthread!AllThreads
  <2>2. stack_blocks = << >> /\ Len(stack_blocks) = 0
    BY DEF Pthread!Init
  <2>3. \A b \in Blocks : ~is_used[b]
    BY DEF Pthread!Init
  <2>4. \A t \in Pthread!AllThreads : stack_node[t] = NoBlock
    BY DEF Pthread!Init
  <2>5. QED
    BY <2>1, <2>2, <2>3, <2>4 DEF ThreadStacks
<1>6. Pthread!CountNeverLow
  <2>1. Pthread!Live = {Main}
    BY <1>1 DEF Pthread!Init, Pthread!Live, Pthread!Exiting
  <2>2. Pthread!Starters = {} /\ running_threads_counter = 1
    BY DEF Pthread!Init, Pthread!Starters
  <2>3. Cardinality({Main}) = 1 /\ Cardinality({}) = 0
    BY FS_Singleton, FS_EmptySet
  <2>4. QED
    BY SameCardinality, <2>1, <2>2, <2>3 DEF Pthread!CountNeverLow
<1>7. QED
  BY <1>2, <1>3, <1>4, <1>5, <1>6 DEF ThreadInv

-----------------------------------------------------------------------------
(* Where a new stack comes from: nobody was on it, and the rest of the     *)
(* cache and of the stacks is what it was.                                 *)
NewStack(t, b) ==
    /\ stack_node' = [stack_node EXCEPT ![t] = b]
    /\ is_used' = [is_used EXCEPT ![b] = TRUE]
    /\ \A u \in Pthread!AllThreads : stack_node[u] # b
    /\ b \in allocated'

CacheShrinks ==
    /\ stack_blocks' \in Seq(Blocks)
    /\ \A i, k \in 1 .. Len(stack_blocks') :
         stack_blocks'[i] = stack_blocks'[k] => i = k
    /\ \A i \in 1 .. Len(stack_blocks') :
         /\ stack_blocks'[i] \in allocated'
         /\ \E k \in 1 .. Len(stack_blocks) :
              stack_blocks'[i] = stack_blocks[k]
    /\ allocated' \subseteq Blocks
    /\ \A b \in allocated : is_used[b] => b \in allocated'

LEMMA TrimShrinks ==
    ASSUME Pthread!PthreadThreadAssumption, Pthread!TypeOK, ThreadStacks,
           stack_blocks' = Pthread!Trimmed,
           NEW new \in SUBSET Blocks,
           allocated' = (allocated \ (Pthread!BlocksOf(stack_blocks)
                                     \ Pthread!BlocksOf(Pthread!Trimmed)))
                        \cup new
    PROVE  CacheShrinks
<1>1. \A i \in 1 .. Len(Pthread!Trimmed) :
         /\ i + Pthread!Excess \in 1 .. Len(stack_blocks)
         /\ Pthread!Trimmed[i] = stack_blocks[i + Pthread!Excess]
  BY TrimmedCache
<1>2. Pthread!Excess \in Nat /\ Len(Pthread!Trimmed) \in Nat
  BY ExcessUnused, TrimmedCache
<1>3. \A i, k \in 1 .. Len(Pthread!Trimmed) :
         Pthread!Trimmed[i] = Pthread!Trimmed[k] => i = k
  <2> TAKE i, k \in 1 .. Len(Pthread!Trimmed)
  <2>1. Pthread!Trimmed[i] = Pthread!Trimmed[k]
          => i + Pthread!Excess = k + Pthread!Excess
    BY <1>1 DEF ThreadStacks
  <2>2. QED
    BY <1>2, <2>1
<1>4. \A i \in 1 .. Len(Pthread!Trimmed) : Pthread!Trimmed[i] \in allocated
  BY <1>1 DEF ThreadStacks
<1>5. QED
  BY <1>1, <1>3, <1>4, TrimmedCache
     DEF CacheShrinks, Pthread!TypeOK, Pthread!BlocksOf

LEMMA CreateStack ==
    ASSUME Pthread!PthreadThreadAssumption, Pthread!TypeOK, ThreadStacks,
           NEW t \in Pthread!AllThreads, NEW n \in Sizes,
           Pthread!Reuse(t, n) \/ Pthread!Malloc(t, n)
    PROVE  /\ CacheShrinks
           /\ stackSize' \in [Blocks -> Sizes \cup {0}]
           /\ \E b \in Blocks : /\ NewStack(t, b)
                                /\ \A i \in 1 .. Len(stack_blocks') :
                                     stack_blocks'[i] # b
<1>1. CASE Pthread!Reuse(t, n)
  <2> DEFINE b == Head(stack_blocks)
  <2>1. /\ stack_blocks \in Seq(Blocks) /\ stack_blocks # << >>
        /\ b = stack_blocks[1] /\ b \in Blocks /\ 1 \in 1 .. Len(stack_blocks)
        /\ ~is_used[b]
    BY <1>1
       DEF Pthread!Reuse, Pthread!FirstFits, Pthread!Oldest, Pthread!TypeOK
  <2>2. /\ stack_blocks' \in Seq(Blocks)
        /\ \A i \in 1 .. Len(stack_blocks') :
             /\ i + 1 \in 2 .. Len(stack_blocks)
             /\ stack_blocks'[i] = stack_blocks[i + 1]
        /\ Len(stack_blocks') \in Nat
    BY <1>1, <2>1 DEF Pthread!Reuse
  <2>3. \A i \in 1 .. Len(stack_blocks') : i + 1 \in 1 .. Len(stack_blocks)
                                             /\ i + 1 # 1
    BY <2>2
  <2>4. CacheShrinks
    <3>1. \A i, k \in 1 .. Len(stack_blocks') :
             stack_blocks'[i] = stack_blocks'[k] => i = k
      <4> TAKE i, k \in 1 .. Len(stack_blocks')
      <4>1. stack_blocks'[i] = stack_blocks'[k] => i + 1 = k + 1
        BY <2>2, <2>3 DEF ThreadStacks
      <4>2. QED
        BY <2>2, <4>1
    <3>2. QED
      BY <1>1, <2>2, <2>3, <3>1
         DEF CacheShrinks, Pthread!Reuse, ThreadStacks, Pthread!TypeOK
  <2>5. \A u \in Pthread!AllThreads : stack_node[u] # b
    BY <2>1 DEF ThreadStacks, Pthread!PthreadThreadAssumption
  <2>6. \A i \in 1 .. Len(stack_blocks') : stack_blocks'[i] # b
    BY <2>1, <2>2, <2>3 DEF ThreadStacks
  <2>7. NewStack(t, b)
    BY <1>1, <2>1, <2>5
       DEF Pthread!Reuse, NewStack, Pthread!Oldest, ThreadStacks
  <2>8. QED
    BY <1>1, <2>1, <2>4, <2>6, <2>7 DEF Pthread!Reuse, Pthread!TypeOK
<1>2. CASE Pthread!Malloc(t, n)
  <2> DEFINE freed == Pthread!BlocksOf(stack_blocks)
                        \ Pthread!BlocksOf(Pthread!Trimmed)
  <2>1. PICK b \in Blocks \ (allocated \ freed) :
          /\ stack_node' = [stack_node EXCEPT ![t] = b]
          /\ stackSize' = [stackSize EXCEPT ![b] = n]
          /\ is_used' = [is_used EXCEPT ![b] = TRUE]
          /\ allocated' = (allocated \ freed) \cup {b}
    BY <1>2 DEF Pthread!Malloc
  <2>2. stack_blocks' = Pthread!Trimmed
    BY <1>2 DEF Pthread!Malloc
  <2>3. CacheShrinks
    BY <2>1, <2>2, TrimShrinks
  <2>4. \A u \in Pthread!AllThreads : stack_node[u] # b
    BY <2>1, TrimmedCache DEF ThreadStacks, Pthread!PthreadThreadAssumption
  <2>5. \A i \in 1 .. Len(stack_blocks') : stack_blocks'[i] # b
    <3>1. b \in freed => b \notin Pthread!BlocksOf(Pthread!Trimmed)
      OBVIOUS
    <3>2. b \notin freed => b \notin allocated
      BY <2>1
    <3>3. \A i \in 1 .. Len(Pthread!Trimmed) :
             Pthread!Trimmed[i] \in Pthread!BlocksOf(Pthread!Trimmed)
      BY DEF Pthread!BlocksOf
    <3>4. \A i \in 1 .. Len(Pthread!Trimmed) : Pthread!Trimmed[i] \in allocated
      BY TrimmedCache DEF ThreadStacks
    <3>5. QED
      BY <2>2, <3>1, <3>2, <3>3, <3>4
  <2>6. QED
    BY <2>1, <2>3, <2>4, <2>5 DEF NewStack, Pthread!TypeOK
<1>3. QED
  BY <1>1, <1>2
(* Who is about which thread.                                              *)
LEMMA ThreadPositionsStep ==
    ASSUME Pthread!PthreadThreadAssumption, Pthread!TypeOK, ThreadPositions,
           ThreadData,
           [Pthread!Next]_(Pthread!vars)
    PROVE  ThreadPositions'
<1> USE DEF ThreadPositions, Pthread!AllThreads, Pthread!TypeOK
<1>1. ASSUME NEW p \in Pthread!AllThreads, NEW u \in Users, NEW b \in BOOLEAN,
              NEW n \in Sizes, Pthread!Create(p, u, b, n)
      PROVE  ThreadPositions'
  BY <1>1 DEF Pthread!Create, Pthread!Go, ThreadData, NeedsData, Pthread!calls
<1>2. ASSUME NEW j \in Pthread!AllThreads, NEW t \in Users,
             Pthread!JoinWaits(j, t)
      PROVE  ThreadPositions'
  BY <1>2
     DEF Pthread!JoinWaits, Pthread!Go, Pthread!Handle, Pthread!Calls,
         ThreadData, NeedsData, Pthread!JoinRefused, Pthread!stacks
<1>3. ASSUME NEW j \in Pthread!AllThreads, NEW t \in Users,
             Pthread!JoinReleases(j, t)
      PROVE  ThreadPositions'
  BY <1>3
     DEF Pthread!JoinReleases, Pthread!Handle, Pthread!Calls, Pthread!Returns,
         Pthread!stacks
<1>4. ASSUME NEW d \in Pthread!AllThreads, NEW t \in Users,
             Pthread!Detach(d, t)
      PROVE  ThreadPositions'
  BY <1>4
     DEF Pthread!Detach, Pthread!Handle, Pthread!Calls, Pthread!Returns,
         Pthread!stacks
<1>5. ASSUME NEW p \in Pthread!AllThreads, NEW n \in Sizes,
             Pthread!CreateFails(p, n)
      PROVE  ThreadPositions'
  BY <1>5 DEF Pthread!CreateFails, Pthread!data, Pthread!calls
<1>6. ASSUME NEW t \in Pthread!AllThreads, Pthread!Exit(t)
      PROVE  ThreadPositions'
  BY <1>6
     DEF Pthread!Exit, Pthread!Go, Pthread!data, Pthread!stacks, Pthread!calls
<1>7. ASSUME NEW j \in Pthread!AllThreads, Pthread!SpuriousWakeup(j)
      PROVE  ThreadPositions'
  BY <1>7
     DEF Pthread!SpuriousWakeup, Pthread!data, Pthread!stacks, Pthread!calls
<1>8. ASSUME NEW p \in Pthread!AllThreads, Pthread!Started(p)
      PROVE  ThreadPositions'
  BY <1>8
     DEF Pthread!Started, Pthread!Go, Pthread!data, Pthread!stacks,
         Pthread!calls
<1>9. ASSUME NEW p \in Pthread!AllThreads, Pthread!StartFails(p)
      PROVE  ThreadPositions'
  BY <1>9
     DEF Pthread!StartFails, Pthread!Go, Pthread!data, Pthread!stacks,
         Pthread!calls
<1>10. ASSUME NEW p \in Pthread!AllThreads, Pthread!Undo(p)
      PROVE  ThreadPositions'
  BY <1>10 DEF Pthread!Undo, Pthread!Go, Pthread!calls
<1>11. ASSUME NEW t \in Pthread!AllThreads, Pthread!Release(t)
      PROVE  ThreadPositions'
  BY <1>11 DEF Pthread!Release, Pthread!Go, Pthread!calls
<1>12. ASSUME NEW t \in Pthread!AllThreads, Pthread!ThreadExit(t)
      PROVE  ThreadPositions'
  BY <1>12 DEF Pthread!ThreadExit, Pthread!Go, Pthread!calls, Pthread!data
<1>13. ASSUME NEW j \in Pthread!AllThreads, Pthread!JoinResumes(j)
      PROVE  ThreadPositions'
  BY <1>13 DEF Pthread!JoinResumes, Pthread!Go, Pthread!Returns, Pthread!stacks
<1>14. ASSUME Pthread!WaitForThreads
      PROVE  ThreadPositions'
  BY <1>14
     DEF Pthread!WaitForThreads, Pthread!Go, Pthread!data, Pthread!stacks,
         Pthread!calls, Pthread!PthreadThreadAssumption
<1>15. ASSUME UNCHANGED Pthread!vars
      PROVE  ThreadPositions'
  BY <1>15 DEF Pthread!vars, Pthread!data, Pthread!stacks, Pthread!calls
<1> HIDE DEF ThreadPositions, Pthread!AllThreads, Pthread!TypeOK
<1>16. QED
  BY <1>1, <1>2, <1>3, <1>4, <1>5, <1>6, <1>7, <1>8, <1>9, <1>10, <1>11, <1>12,
     <1>13, <1>14, <1>15
     DEF Pthread!Next, Pthread!Step, Pthread!Terminated

(* Data are freed once nobody needs them, and at the latest when the       *)
(* thread is gone and joined or detached.                                  *)
LEMMA ThreadDataStep ==
    ASSUME Pthread!PthreadThreadAssumption, Pthread!TypeOK, ThreadPositions,
           ThreadData,
           [Pthread!Next]_(Pthread!vars)
    PROVE  ThreadData'
<1> USE DEF ThreadData, NeedsData, Pthread!TypeOK
<1>1. ASSUME NEW p \in Pthread!AllThreads, NEW u \in Users, NEW b \in BOOLEAN,
              NEW n \in Sizes, Pthread!Create(p, u, b, n)
      PROVE  ThreadData'
  BY <1>1
     DEF Pthread!Create, Pthread!Go, Pthread!calls, ThreadPositions,
         Pthread!AllThreads
<1>2. ASSUME NEW j \in Pthread!AllThreads, NEW t \in Users,
             Pthread!JoinWaits(j, t)
      PROVE  ThreadData'
  BY <1>2
     DEF Pthread!JoinWaits, Pthread!Go, Pthread!Handle, Pthread!Calls,
         Pthread!JoinRefused, Pthread!stacks
<1>3. ASSUME NEW j \in Pthread!AllThreads, NEW t \in Users,
             Pthread!JoinReleases(j, t)
      PROVE  ThreadData'
  BY <1>3
     DEF Pthread!JoinReleases, Pthread!Handle, Pthread!Calls, Pthread!Returns,
         Pthread!stacks, Pthread!AllThreads
<1>4. ASSUME NEW d \in Pthread!AllThreads, NEW t \in Users,
             Pthread!Detach(d, t)
      PROVE  ThreadData'
  BY <1>4
     DEF Pthread!Detach, Pthread!Handle, Pthread!Calls, Pthread!Returns,
         Pthread!stacks, Pthread!AllThreads
<1>5. ASSUME NEW p \in Pthread!AllThreads, NEW n \in Sizes,
             Pthread!CreateFails(p, n)
      PROVE  ThreadData'
  BY <1>5 DEF Pthread!CreateFails, Pthread!data, Pthread!calls
<1>6. ASSUME NEW t \in Pthread!AllThreads, Pthread!Exit(t)
      PROVE  ThreadData'
  BY <1>6
     DEF Pthread!Exit, Pthread!Go, Pthread!data, Pthread!stacks, Pthread!calls
<1>7. ASSUME NEW j \in Pthread!AllThreads, Pthread!SpuriousWakeup(j)
      PROVE  ThreadData'
  BY <1>7
     DEF Pthread!SpuriousWakeup, Pthread!data, Pthread!stacks, Pthread!calls
<1>8. ASSUME NEW p \in Pthread!AllThreads, Pthread!Started(p)
      PROVE  ThreadData'
  BY <1>8
     DEF Pthread!Started, Pthread!Go, Pthread!data, Pthread!stacks,
         Pthread!calls, ThreadPositions
<1>9. ASSUME NEW p \in Pthread!AllThreads, Pthread!StartFails(p)
      PROVE  ThreadData'
  BY <1>9
     DEF Pthread!StartFails, Pthread!Go, Pthread!data, Pthread!stacks,
         Pthread!calls
<1>10. ASSUME NEW p \in Pthread!AllThreads, Pthread!Undo(p)
      PROVE  ThreadData'
  BY <1>10 DEF Pthread!Undo, Pthread!Go, Pthread!calls, ThreadPositions
<1>11. ASSUME NEW t \in Pthread!AllThreads, Pthread!Release(t)
      PROVE  ThreadData'
  BY <1>11 DEF Pthread!Release, Pthread!Go, Pthread!calls
<1>12. ASSUME NEW t \in Pthread!AllThreads, Pthread!ThreadExit(t)
      PROVE  ThreadData'
  BY <1>12 DEF Pthread!ThreadExit, Pthread!Go, Pthread!calls, Pthread!data
<1>13. ASSUME NEW j \in Pthread!AllThreads, Pthread!JoinResumes(j)
      PROVE  ThreadData'
  BY <1>13
     DEF Pthread!JoinResumes, Pthread!Go, Pthread!Returns, Pthread!stacks,
         ThreadPositions
<1>14. ASSUME Pthread!WaitForThreads
      PROVE  ThreadData'
  BY <1>14
     DEF Pthread!WaitForThreads, Pthread!Go, Pthread!data, Pthread!stacks,
         Pthread!calls, Pthread!AllThreads
<1>15. ASSUME UNCHANGED Pthread!vars
      PROVE  ThreadData'
  BY <1>15 DEF Pthread!vars, Pthread!data, Pthread!stacks, Pthread!calls
<1> HIDE DEF ThreadData, NeedsData, Pthread!TypeOK
<1>16. QED
  BY <1>1, <1>2, <1>3, <1>4, <1>5, <1>6, <1>7, <1>8, <1>9, <1>10, <1>11, <1>12,
     <1>13, <1>14, <1>15
     DEF Pthread!Next, Pthread!Step, Pthread!Terminated
(* Stacks are apart, and the cache has only stacks whose threads are about  *)
(* to leave them.                                                          *)
LEMMA ThreadStacksStep ==
    ASSUME Pthread!PthreadThreadAssumption, Pthread!TypeOK, ThreadPositions,
           ThreadData, ThreadStacks,
           [Pthread!Next]_(Pthread!vars)
    PROVE  ThreadStacks'
<1> USE DEF Pthread!TypeOK, Pthread!AllThreads
<1>0. ASSUME UNCHANGED Pthread!stacks,
             \A t \in Pthread!AllThreads :
                /\ HasStack(t)' => HasStack(t)
                /\ basic_data'[t] = "none" => basic_data[t] = "none"
                /\ threadPc[t] = "released" => threadPc'[t] = "released"
      PROVE  ThreadStacks'
  BY <1>0 DEF ThreadStacks, Pthread!stacks, Pthread!OnStack
<1>1. ASSUME NEW p \in Pthread!AllThreads, NEW u \in Users, NEW b \in BOOLEAN,
              NEW n \in Sizes, Pthread!Create(p, u, b, n)
      PROVE  ThreadStacks'
  <2>1. PICK s \in Blocks : /\ NewStack(u, s)
                             /\ \A i \in 1 .. Len(stack_blocks') :
                                  stack_blocks'[i] # s
    BY <1>1, CreateStack DEF Pthread!Create
  <2>2. CacheShrinks
    BY <1>1, CreateStack DEF Pthread!Create
  <2>3. /\ threadPc[u] = "absent" /\ basic_data[u] = "none"
        /\ threadPc' = [threadPc EXCEPT ![p] = "start"]
        /\ target' = [target EXCEPT ![p] = u]
        /\ basic_data' = [basic_data EXCEPT ![u] = "live"]
        /\ threadPc[p] = "run"
    BY <1>1 DEF Pthread!Create, Pthread!Go
  <2>4. stack_node[u] = NoBlock /\ u \in Pthread!AllThreads /\ s # NoBlock
    BY <2>3 DEF ThreadStacks, Pthread!PthreadThreadAssumption
  <2>5. /\ stack_node'[u] = s
        /\ \A t \in Pthread!AllThreads \ {u} : stack_node'[t] = stack_node[t]
        /\ is_used'[s] /\ \A b2 \in Blocks \ {s} : is_used'[b2] = is_used[b2]
        /\ s \in allocated' /\ \A t \in Pthread!AllThreads : stack_node[t] # s
    BY <2>1, <2>4 DEF NewStack
  <2>6. \A t \in Pthread!AllThreads : HasStack(t)' => HasStack(t) \/ t = u
    <3>1. p # u
      BY <2>3
    <3>2. \A t \in Pthread!AllThreads : threadPc'[t] \in {"absent", "gone"} <=>
                                 threadPc[t] \in {"absent", "gone"}
      BY <2>3
    <3>3. \A q, t \in Pthread!AllThreads :
             CreatesThread(q, t)' => CreatesThread(q, t) \/ t = u
      BY <2>3 DEF CreatesThread
    <3>4. QED
      BY <2>3, <3>2, <3>3 DEF HasStack
  <2>7. \A t \in Pthread!AllThreads :
           threadPc[t] = "released" => threadPc'[t] = "released"
    BY <2>3
  <2>8. \A t \in Pthread!AllThreads : basic_data'[t] = "none" =>
                               basic_data[t] = "none" /\ t # u
    BY <2>3, <2>4
  <2>9. \A t \in Pthread!AllThreads : stack_node'[t] # NoBlock =>
          is_used'[stack_node'[t]] /\ stack_node'[t] \in allocated'
    BY <2>2, <2>5 DEF ThreadStacks, CacheShrinks
  <2>10. \A t, v \in Pthread!AllThreads :
           stack_node'[t] = stack_node'[v] /\ stack_node'[t] # NoBlock => t = v
    BY <2>5 DEF ThreadStacks
  <2>11. \A b2 \in Blocks : is_used'[b2] =>
                             \E t \in Pthread!AllThreads : stack_node'[t] = b2
    BY <2>4, <2>5
       DEF ThreadStacks, Pthread!OnStack, Pthread!PthreadThreadAssumption
  <2>12. \A i \in 1 .. Len(stack_blocks') :
           \A t \in Pthread!AllThreads :
              stack_node'[t] = stack_blocks'[i] => threadPc'[t] = "released"
    <3> TAKE i \in 1 .. Len(stack_blocks')
    <3> TAKE t \in Pthread!AllThreads
    <3>1. PICK k \in 1 .. Len(stack_blocks) :
            stack_blocks'[i] = stack_blocks[k]
      BY <2>2 DEF CacheShrinks
    <3>2. stack_node'[t] = stack_blocks[k] => stack_node[t] = stack_blocks[k]
      BY <2>1, <2>5, <3>1
    <3>3. QED
      BY <2>7, <3>1, <3>2 DEF ThreadStacks, Pthread!OnStack
  <2>13. \A t \in Pthread!AllThreads :
           /\ HasStack(t)' => stack_node'[t] # NoBlock
           /\ basic_data'[t] = "none" => stack_node'[t] = NoBlock
    BY <2>4, <2>5, <2>6, <2>8 DEF ThreadStacks
  <2>14. QED
    BY <2>2, <2>9, <2>10, <2>11, <2>12, <2>13
       DEF ThreadStacks, Pthread!OnStack, CacheShrinks
<1>2. ASSUME NEW j \in Pthread!AllThreads, NEW t \in Users,
             Pthread!JoinWaits(j, t)
      PROVE  ThreadStacks'
  <2>1. /\ UNCHANGED Pthread!stacks
        /\ \A u \in Pthread!AllThreads :
             /\ HasStack(u)' => HasStack(u)
             /\ basic_data'[u] = "none" => basic_data[u] = "none"
             /\ threadPc[u] = "released" => threadPc'[u] = "released"
    BY <1>2
       DEF Pthread!JoinWaits, HasStack, CreatesThread, Pthread!stacks,
           Pthread!Go, Pthread!Handle
  <2>2. QED
    BY <1>0, <2>1
<1>3. ASSUME NEW j \in Pthread!AllThreads, NEW t \in Users,
             Pthread!JoinReleases(j, t)
      PROVE  ThreadStacks'
  <2>1. /\ UNCHANGED Pthread!stacks
        /\ \A u \in Pthread!AllThreads :
             /\ HasStack(u)' => HasStack(u)
             /\ basic_data'[u] = "none" => basic_data[u] = "none"
             /\ threadPc[u] = "released" => threadPc'[u] = "released"
    BY <1>3
       DEF Pthread!JoinReleases, HasStack, CreatesThread, Pthread!stacks,
           Pthread!Calls, Pthread!Returns
  <2>2. QED
    BY <1>0, <2>1
<1>4. ASSUME NEW d \in Pthread!AllThreads, NEW t \in Users,
             Pthread!Detach(d, t)
      PROVE  ThreadStacks'
  <2>1. /\ UNCHANGED Pthread!stacks
        /\ \A u \in Pthread!AllThreads :
             /\ HasStack(u)' => HasStack(u)
             /\ basic_data'[u] = "none" => basic_data[u] = "none"
             /\ threadPc[u] = "released" => threadPc'[u] = "released"
    BY <1>4
       DEF Pthread!Detach, HasStack, CreatesThread, Pthread!stacks,
           Pthread!Calls, Pthread!Returns
  <2>2. QED
    BY <1>0, <2>1
<1>5. ASSUME NEW p \in Pthread!AllThreads, NEW n \in Sizes,
             Pthread!CreateFails(p, n)
      PROVE  ThreadStacks'
  <2>1. CacheShrinks
    BY <1>5, TrimShrinks, {} \in SUBSET Blocks DEF Pthread!CreateFails
  <2>2. UNCHANGED <<threadPc, target, basic_data, stack_node, is_used>>
    BY <1>5 DEF Pthread!CreateFails, Pthread!data
  <2>3. QED
    BY <2>1, <2>2
       DEF ThreadStacks, CacheShrinks, Pthread!OnStack, HasStack, CreatesThread
<1>6. ASSUME NEW t \in Pthread!AllThreads, Pthread!Exit(t)
      PROVE  ThreadStacks'
  <2>1. /\ UNCHANGED Pthread!stacks
        /\ \A u \in Pthread!AllThreads :
             /\ HasStack(u)' => HasStack(u)
             /\ basic_data'[u] = "none" => basic_data[u] = "none"
             /\ threadPc[u] = "released" => threadPc'[u] = "released"
    BY <1>6
       DEF Pthread!Exit, HasStack, CreatesThread, Pthread!stacks, Pthread!Go,
           Pthread!data, Pthread!calls
  <2>2. QED
    BY <1>0, <2>1
<1>7. ASSUME NEW j \in Pthread!AllThreads, Pthread!SpuriousWakeup(j)
      PROVE  ThreadStacks'
  <2>1. /\ UNCHANGED Pthread!stacks
        /\ \A u \in Pthread!AllThreads :
             /\ HasStack(u)' => HasStack(u)
             /\ basic_data'[u] = "none" => basic_data[u] = "none"
             /\ threadPc[u] = "released" => threadPc'[u] = "released"
    BY <1>7
       DEF Pthread!SpuriousWakeup, HasStack, CreatesThread, Pthread!stacks,
           Pthread!Go, Pthread!data, Pthread!calls, ThreadPositions
  <2>2. QED
    BY <1>0, <2>1
<1>8. ASSUME NEW p \in Pthread!AllThreads, Pthread!Started(p)
      PROVE  ThreadStacks'
  <2>1. /\ UNCHANGED Pthread!stacks
        /\ \A u \in Pthread!AllThreads :
             /\ HasStack(u)' => HasStack(u)
             /\ basic_data'[u] = "none" => basic_data[u] = "none"
             /\ threadPc[u] = "released" => threadPc'[u] = "released"
    BY <1>8
       DEF Pthread!Started, HasStack, CreatesThread, Pthread!stacks,
           Pthread!Go, Pthread!data, Pthread!calls, ThreadPositions
  <2>2. QED
    BY <1>0, <2>1
<1>9. ASSUME NEW p \in Pthread!AllThreads, Pthread!StartFails(p)
      PROVE  ThreadStacks'
  <2>1. /\ UNCHANGED Pthread!stacks
        /\ \A u \in Pthread!AllThreads :
             /\ HasStack(u)' => HasStack(u)
             /\ basic_data'[u] = "none" => basic_data[u] = "none"
             /\ threadPc[u] = "released" => threadPc'[u] = "released"
    BY <1>9
       DEF Pthread!StartFails, HasStack, CreatesThread, Pthread!stacks,
           Pthread!Go, Pthread!data, Pthread!calls
  <2>2. QED
    BY <1>0, <2>1
<1>10. ASSUME NEW p \in Pthread!AllThreads, Pthread!Undo(p)
      PROVE  ThreadStacks'
  <2> DEFINE t == target[p]
             c == stack_node[t]
  <2>1. /\ threadPc[p] = "undo" /\ t \in Users /\ threadPc[t] = "absent"
        /\ threadPc' = [threadPc EXCEPT ![p] = "run"] /\ target' = target
        /\ basic_data' = [basic_data EXCEPT ![t] = "freed"]
        /\ is_used' = [is_used EXCEPT ![c] = FALSE]
        /\ stack_blocks' = Append(stack_blocks, c)
        /\ stack_node' = [stack_node EXCEPT ![t] = NoBlock]
        /\ allocated' = allocated
    BY <1>10 DEF Pthread!Undo, Pthread!Go, Pthread!Cache, ThreadPositions
  <2>2. HasStack(t) /\ c # NoBlock /\ c \in Blocks /\ c \in allocated
    BY <2>1 DEF HasStack, CreatesThread, ThreadStacks
  <2>3. \A u \in Pthread!AllThreads : u # t => stack_node[u] # c
    BY <2>1, <2>2 DEF ThreadStacks
  <2>4. \A u \in Pthread!AllThreads : HasStack(u)' => HasStack(u) /\ u # t
    BY <2>1 DEF HasStack, CreatesThread, ThreadPositions
  <2>5. \A i \in 1 .. Len(stack_blocks) : stack_blocks[i] # c
    BY <2>1 DEF ThreadStacks, Pthread!OnStack
  <2>6. /\ Len(stack_blocks') = Len(stack_blocks) + 1
        /\ Len(stack_blocks) \in Nat
        /\ \A i \in 1 .. Len(stack_blocks) : stack_blocks'[i] = stack_blocks[i]
        /\ stack_blocks'[Len(stack_blocks) + 1] = c
        /\ \A i \in 1 .. Len(stack_blocks') :
             i \in 1 .. Len(stack_blocks) \/ i = Len(stack_blocks) + 1
    BY <2>1, <2>2
  <2>7. \A u \in Pthread!AllThreads : u # t => stack_node'[u] = stack_node[u]
    BY <2>1
  <2>8. stack_node'[t] = NoBlock
    BY <2>1
  <2>9. /\ ~is_used'[c]
        /\ \A b \in Blocks : b # c => is_used'[b] = is_used[b]
    BY <2>1, <2>2
  <2>10. \A u \in Pthread!AllThreads :
            threadPc[u] = "released" => threadPc'[u] = "released"
    BY <2>1
  <2>11. \A i \in 1 .. Len(stack_blocks') :
           /\ stack_blocks'[i] \in allocated
           /\ stack_blocks'[i] # NoBlock
           /\ \A u \in Pthread!AllThreads :
                stack_node'[u] = stack_blocks'[i] => threadPc'[u] = "released"
    <3>1. \A i \in 1 .. Len(stack_blocks) : stack_blocks[i] # NoBlock
      BY DEF Pthread!PthreadThreadAssumption
    <3>2. \A i \in 1 .. Len(stack_blocks), u \in Pthread!AllThreads :
             stack_node'[u] = stack_blocks[i] => threadPc'[u] = "released"
      BY <2>7, <2>8, <2>10, <3>1 DEF ThreadStacks, Pthread!OnStack
    <3>3. \A u \in Pthread!AllThreads : stack_node'[u] # c
      BY <2>2, <2>3, <2>7, <2>8
    <3> HIDE DEF t, c
    <3>4. QED
      BY <2>2, <2>6, <3>1, <3>2, <3>3 DEF ThreadStacks
  <2>12. \A i, k \in 1 .. Len(stack_blocks') :
           stack_blocks'[i] = stack_blocks'[k] => i = k
    BY <2>5, <2>6 DEF ThreadStacks
  <2>13. \A u \in Pthread!AllThreads :
            basic_data'[u] = "none" => basic_data[u] = "none"
    BY <2>1
  <2>14. \A b \in Blocks : is_used'[b] =>
                            \E u \in Pthread!AllThreads : stack_node'[u] = b
    BY <2>1, <2>7, <2>9 DEF ThreadStacks, Pthread!OnStack
  <2> HIDE DEF t, c
  <2>15. QED
    BY <2>1, <2>2, <2>3, <2>4, <2>7, <2>8, <2>9, <2>11, <2>12, <2>13, <2>14
       DEF ThreadStacks, Pthread!OnStack
<1>11. ASSUME NEW t \in Pthread!AllThreads, Pthread!Release(t)
      PROVE  ThreadStacks'
  <2> DEFINE c == stack_node[t]
  <2>1. /\ threadPc[t] = "counted"
        /\ t # Main
        /\ threadPc' = [threadPc EXCEPT ![t] = "released"]
        /\ target' = target /\ stack_blocks' = Append(stack_blocks, c)
        /\ \A u \in Pthread!AllThreads :
             basic_data'[u] = "none" => basic_data[u] = "none"
        /\ UNCHANGED <<stack_node, is_used, allocated>>
    BY <1>11 DEF Pthread!Release, Pthread!Go, Pthread!Cache, ThreadPositions
  <2>2. HasStack(t) /\ c # NoBlock /\ c \in Blocks /\ c \in allocated
    BY <2>1 DEF HasStack, ThreadStacks
  <2>3. \A u \in Pthread!AllThreads : u # t => stack_node[u] # c
    BY <2>2 DEF ThreadStacks
  <2>4. \A u \in Pthread!AllThreads : HasStack(u)' => HasStack(u)
    BY <2>1 DEF HasStack, CreatesThread
  <2>5. \A i \in 1 .. Len(stack_blocks) : stack_blocks[i] # c
    BY <2>1 DEF ThreadStacks, Pthread!OnStack
  <2>6. /\ Len(stack_blocks') = Len(stack_blocks) + 1
        /\ Len(stack_blocks) \in Nat
        /\ \A i \in 1 .. Len(stack_blocks) : stack_blocks'[i] = stack_blocks[i]
        /\ stack_blocks'[Len(stack_blocks) + 1] = c
        /\ \A i \in 1 .. Len(stack_blocks') :
             i \in 1 .. Len(stack_blocks) \/ i = Len(stack_blocks) + 1
    BY <2>1, <2>2
  <2>7. \A u \in Pthread!AllThreads : threadPc[u] = "released" \/ u = t
                               => threadPc'[u] = "released"
    BY <2>1
  <2>8. \A i \in 1 .. Len(stack_blocks') :
          /\ stack_blocks'[i] \in allocated
          /\ \A u \in Pthread!AllThreads :
               stack_node[u] = stack_blocks'[i] => threadPc'[u] = "released"
    BY <2>2, <2>3, <2>6, <2>7 DEF ThreadStacks, Pthread!OnStack
  <2>9. \A i, k \in 1 .. Len(stack_blocks') :
          stack_blocks'[i] = stack_blocks'[k] => i = k
    BY <2>5, <2>6 DEF ThreadStacks
  <2>10. QED
    BY <2>1, <2>4, <2>8, <2>9 DEF ThreadStacks, Pthread!OnStack
<1>12. ASSUME NEW t \in Pthread!AllThreads, Pthread!ThreadExit(t)
      PROVE  ThreadStacks'
  <2> DEFINE c == stack_node[t]
  <2>1. /\ threadPc[t] = "released"
        /\ threadPc' = [threadPc EXCEPT ![t] = "gone"]
        /\ stack_node' = [stack_node EXCEPT ![t] = NoBlock]
        /\ is_used' = [is_used EXCEPT ![c] = FALSE]
        /\ UNCHANGED <<target, basic_data, stack_blocks, allocated>>
    BY <1>12 DEF Pthread!ThreadExit, Pthread!Go, Pthread!data
  <2>2. t # Main /\ HasStack(t) /\ c # NoBlock /\ c \in Blocks
    BY <2>1 DEF HasStack, ThreadStacks, ThreadPositions
  <2>3. \A u \in Pthread!AllThreads : u # t => stack_node[u] # c
    BY <2>2 DEF ThreadStacks
  <2>4. \A u \in Pthread!AllThreads : HasStack(u)' => HasStack(u) /\ u # t
    BY <2>1 DEF HasStack, CreatesThread, ThreadPositions
  <2>5. /\ ~is_used'[c] /\ \A b \in Blocks : b # c => is_used'[b] = is_used[b]
        /\ stack_node'[t] = NoBlock
        /\ \A u \in Pthread!AllThreads :
              u # t => stack_node'[u] = stack_node[u]
    BY <2>1, <2>2
  <2>6. \A u \in Pthread!AllThreads : threadPc[u] = "released" /\ u # t
                               => threadPc'[u] = "released"
    BY <2>1
  <2>7. \A i \in 1 .. Len(stack_blocks) : stack_blocks[i] # NoBlock
    BY DEF Pthread!PthreadThreadAssumption
  <2>8. \A b \in Blocks : is_used'[b] =>
                           \E u \in Pthread!AllThreads : stack_node'[u] = b
    BY <2>1, <2>5 DEF ThreadStacks, Pthread!OnStack
  <2> HIDE DEF c
  <2>9. QED
    BY <2>1, <2>3, <2>4, <2>5, <2>6, <2>7, <2>8
       DEF ThreadStacks, Pthread!OnStack
<1>13. ASSUME NEW j \in Pthread!AllThreads, Pthread!JoinResumes(j)
      PROVE  ThreadStacks'
  <2>1. /\ UNCHANGED Pthread!stacks
        /\ \A u \in Pthread!AllThreads :
             /\ HasStack(u)' => HasStack(u)
             /\ basic_data'[u] = "none" => basic_data[u] = "none"
             /\ threadPc[u] = "released" => threadPc'[u] = "released"
    BY <1>13
       DEF Pthread!JoinResumes, HasStack, CreatesThread, Pthread!stacks,
           Pthread!Go, ThreadPositions
  <2>2. QED
    BY <1>0, <2>1
<1>14. ASSUME Pthread!WaitForThreads
      PROVE  ThreadStacks'
  <2>1. /\ UNCHANGED Pthread!stacks
        /\ \A u \in Pthread!AllThreads :
             /\ HasStack(u)' => HasStack(u)
             /\ basic_data'[u] = "none" => basic_data[u] = "none"
             /\ threadPc[u] = "released" => threadPc'[u] = "released"
    BY <1>14
       DEF Pthread!WaitForThreads, HasStack, CreatesThread, Pthread!stacks,
           Pthread!Go, Pthread!data, Pthread!calls, ThreadPositions
  <2>2. QED
    BY <1>0, <2>1
<1>15. ASSUME UNCHANGED Pthread!vars
      PROVE  ThreadStacks'
  <2>1. /\ UNCHANGED Pthread!stacks
        /\ \A u \in Pthread!AllThreads :
             /\ HasStack(u)' => HasStack(u)
             /\ basic_data'[u] = "none" => basic_data[u] = "none"
             /\ threadPc[u] = "released" => threadPc'[u] = "released"
    BY <1>15
       DEF Pthread!vars, HasStack, CreatesThread, Pthread!stacks, Pthread!vars,
           Pthread!data, Pthread!calls
  <2>2. QED
    BY <1>0, <2>1
<1> HIDE DEF Pthread!TypeOK, Pthread!AllThreads
<1>16. QED
  BY <1>1, <1>2, <1>3, <1>4, <1>5, <1>6, <1>7, <1>8, <1>9, <1>10, <1>11, <1>12,
     <1>13, <1>14, <1>15
     DEF Pthread!Next, Pthread!Step, Pthread!Terminated
(* Sets of threads are finite.                                             *)
LEMMA FiniteThreads ==
    ASSUME Pthread!PthreadThreadAssumption
    PROVE  /\ IsFiniteSet(Pthread!AllThreads)
           /\ Cardinality(Pthread!AllThreads) \in Nat
           /\ \A S \in SUBSET Pthread!AllThreads :
                IsFiniteSet(S) /\ Cardinality(S) \in Nat
                /\ Cardinality(S) <= Cardinality(Pthread!AllThreads)
<1>1. IsFiniteSet(Pthread!AllThreads)
  BY SameCardinality, FS_AddElement
     DEF Pthread!AllThreads, Pthread!PthreadThreadAssumption
<1>2. QED
  BY <1>1, FS_Subset, FS_CardinalityType

(* The counter counts the threads that run and those that are being        *)
(* started.                                                                *)
LEMMA ThreadCountStep ==
    ASSUME Pthread!PthreadThreadAssumption, Pthread!TypeOK, ThreadPositions,
           ThreadData, Pthread!CountNeverLow,
           [Pthread!Next]_(Pthread!vars)
    PROVE  Pthread!CountNeverLow'
<1> USE DEF Pthread!TypeOK
<1>0. /\ IsFiniteSet(Pthread!Live) /\ IsFiniteSet(Pthread!Starters)
      /\ running_threads_counter \in Nat
      /\ Cardinality(Pthread!Live) \in Nat
      /\ Cardinality(Pthread!Starters) \in Nat
  BY FiniteThreads, Pthread!Live \in SUBSET Pthread!AllThreads,
     Pthread!Starters \in SUBSET Pthread!AllThreads
     DEF Pthread!TypeOK, Pthread!Live, Pthread!Starters
<1>k. ASSUME UNCHANGED running_threads_counter, Pthread!Live' = Pthread!Live,
             Pthread!Starters' = Pthread!Starters
      PROVE  Pthread!CountNeverLow'
  BY <1>k DEF Pthread!CountNeverLow
<1>1. ASSUME NEW p \in Pthread!AllThreads, NEW u \in Users, NEW b \in BOOLEAN,
              NEW n \in Sizes, Pthread!Create(p, u, b, n)
      PROVE  Pthread!CountNeverLow'
  <2>1. /\ running_threads_counter' = running_threads_counter + 1
        /\ Pthread!Live' = Pthread!Live
        /\ Pthread!Starters' = Pthread!Starters \cup {p}
        /\ p \notin Pthread!Starters
    BY <1>1
       DEF Pthread!Create, Pthread!Go, Pthread!Live, Pthread!Starters,
           Pthread!Exiting
  <2>2. Cardinality(Pthread!Starters') = Cardinality(Pthread!Starters) + 1
    BY <1>0, <2>1, FS_AddElement
  <2>3. QED
    BY SameCardinality, <1>0, <2>1, <2>2 DEF Pthread!CountNeverLow
<1>2. ASSUME NEW j \in Pthread!AllThreads, NEW t \in Users,
             Pthread!JoinWaits(j, t)
      PROVE  Pthread!CountNeverLow'
  <2>1. /\ UNCHANGED running_threads_counter
        /\ Pthread!Live' = Pthread!Live /\ Pthread!Starters' = Pthread!Starters
    BY <1>2
       DEF Pthread!JoinWaits, Pthread!Live, Pthread!Starters, Pthread!Exiting,
           Pthread!Go, Pthread!Handle
  <2>2. QED
    BY <1>k, <2>1
<1>3. ASSUME NEW j \in Pthread!AllThreads, NEW t \in Users,
             Pthread!JoinReleases(j, t)
      PROVE  Pthread!CountNeverLow'
  <2>1. /\ UNCHANGED running_threads_counter
        /\ Pthread!Live' = Pthread!Live /\ Pthread!Starters' = Pthread!Starters
    BY <1>3
       DEF Pthread!JoinReleases, Pthread!Live, Pthread!Starters,
           Pthread!Exiting
  <2>2. QED
    BY <1>k, <2>1
<1>4. ASSUME NEW d \in Pthread!AllThreads, NEW t \in Users,
             Pthread!Detach(d, t)
      PROVE  Pthread!CountNeverLow'
  <2>1. /\ UNCHANGED running_threads_counter
        /\ Pthread!Live' = Pthread!Live /\ Pthread!Starters' = Pthread!Starters
    BY <1>4 DEF Pthread!Detach, Pthread!Live, Pthread!Starters, Pthread!Exiting
  <2>2. QED
    BY <1>k, <2>1
<1>5. ASSUME NEW p \in Pthread!AllThreads, NEW n \in Sizes,
             Pthread!CreateFails(p, n)
      PROVE  Pthread!CountNeverLow'
  <2>1. /\ UNCHANGED running_threads_counter
        /\ Pthread!Live' = Pthread!Live /\ Pthread!Starters' = Pthread!Starters
    BY <1>5
       DEF Pthread!CreateFails, Pthread!Live, Pthread!Starters, Pthread!Exiting
  <2>2. QED
    BY <1>k, <2>1
<1>6. ASSUME NEW t \in Pthread!AllThreads, Pthread!Exit(t)
      PROVE  Pthread!CountNeverLow'
  <2>1. /\ running_threads_counter' = running_threads_counter - 1
        /\ Pthread!Live' = Pthread!Live \ {t} /\ t \in Pthread!Live
        /\ Pthread!Starters' = Pthread!Starters
    BY <1>6
       DEF Pthread!Exit, Pthread!Go, Pthread!Live, Pthread!Starters,
           Pthread!Exiting
  <2>2. Cardinality(Pthread!Live') = Cardinality(Pthread!Live) - 1
    BY <1>0, <2>1, FS_RemoveElement
  <2>3. QED
    BY SameCardinality, <1>0, <2>1, <2>2 DEF Pthread!CountNeverLow
<1>7. ASSUME NEW j \in Pthread!AllThreads, Pthread!SpuriousWakeup(j)
      PROVE  Pthread!CountNeverLow'
  <2>1. /\ UNCHANGED running_threads_counter
        /\ Pthread!Live' = Pthread!Live /\ Pthread!Starters' = Pthread!Starters
    BY <1>7
       DEF Pthread!SpuriousWakeup, Pthread!Live, Pthread!Starters,
           Pthread!Exiting
  <2>2. QED
    BY <1>k, <2>1
<1>8. ASSUME NEW p \in Pthread!AllThreads, Pthread!Started(p)
      PROVE  Pthread!CountNeverLow'
  <2>1. /\ running_threads_counter' = running_threads_counter
        /\ target[p] \in Pthread!AllThreads
        /\ threadPc[target[p]] = "absent"
        /\ threadPc[p] = "start"
        /\ threadPc' = [threadPc EXCEPT ![p] = "run", ![target[p]] = "run"]
    BY <1>8 DEF Pthread!Started, ThreadPositions, Pthread!AllThreads
  <2>2. /\ Pthread!Live' = Pthread!Live \cup {target[p]}
        /\ target[p] \notin Pthread!Live
        /\ Pthread!Starters' = Pthread!Starters \ {p} /\ p \in Pthread!Starters
    BY <2>1 DEF Pthread!Live, Pthread!Starters, Pthread!Exiting
  <2>3. /\ Cardinality(Pthread!Live') = Cardinality(Pthread!Live) + 1
        /\ Cardinality(Pthread!Starters') = Cardinality(Pthread!Starters) - 1
    BY <1>0, <2>2, FS_AddElement, FS_RemoveElement
  <2>4. QED
    BY SameCardinality, <1>0, <2>1, <2>3 DEF Pthread!CountNeverLow
<1>9. ASSUME NEW p \in Pthread!AllThreads, Pthread!StartFails(p)
      PROVE  Pthread!CountNeverLow'
  <2>1. /\ running_threads_counter' = running_threads_counter - 1
        /\ Pthread!Live' = Pthread!Live
        /\ Pthread!Starters' = Pthread!Starters \ {p} /\ p \in Pthread!Starters
    BY <1>9
       DEF Pthread!StartFails, Pthread!Go, Pthread!Live, Pthread!Starters,
           Pthread!Exiting
  <2>2. Cardinality(Pthread!Starters') = Cardinality(Pthread!Starters) - 1
    BY <1>0, <2>1, FS_RemoveElement
  <2>3. QED
    BY SameCardinality, <1>0, <2>1, <2>2 DEF Pthread!CountNeverLow
<1>10. ASSUME NEW p \in Pthread!AllThreads, Pthread!Undo(p)
      PROVE  Pthread!CountNeverLow'
  <2>1. /\ UNCHANGED running_threads_counter
        /\ Pthread!Live' = Pthread!Live /\ Pthread!Starters' = Pthread!Starters
    BY <1>10
       DEF Pthread!Undo, Pthread!Live, Pthread!Starters, Pthread!Exiting,
           Pthread!Go
  <2>2. QED
    BY <1>k, <2>1
<1>11. ASSUME NEW t \in Pthread!AllThreads, Pthread!Release(t)
      PROVE  Pthread!CountNeverLow'
  <2>1. /\ UNCHANGED running_threads_counter
        /\ Pthread!Live' = Pthread!Live /\ Pthread!Starters' = Pthread!Starters
    BY <1>11
       DEF Pthread!Release, Pthread!Live, Pthread!Starters, Pthread!Exiting,
           Pthread!Go
  <2>2. QED
    BY <1>k, <2>1
<1>12. ASSUME NEW t \in Pthread!AllThreads, Pthread!ThreadExit(t)
      PROVE  Pthread!CountNeverLow'
  <2>1. /\ UNCHANGED running_threads_counter
        /\ Pthread!Live' = Pthread!Live /\ Pthread!Starters' = Pthread!Starters
    BY <1>12
       DEF Pthread!ThreadExit, Pthread!Live, Pthread!Starters, Pthread!Exiting,
           Pthread!Go
  <2>2. QED
    BY <1>k, <2>1
<1>13. ASSUME NEW j \in Pthread!AllThreads, Pthread!JoinResumes(j)
      PROVE  Pthread!CountNeverLow'
  <2>1. /\ UNCHANGED running_threads_counter
        /\ Pthread!Live' = Pthread!Live /\ Pthread!Starters' = Pthread!Starters
    BY <1>13
       DEF Pthread!JoinResumes, Pthread!Live, Pthread!Starters,
           Pthread!Exiting, Pthread!Go
  <2>2. QED
    BY <1>k, <2>1
<1>14. ASSUME Pthread!WaitForThreads
      PROVE  Pthread!CountNeverLow'
  <2>1. /\ UNCHANGED running_threads_counter
        /\ Pthread!Live' = Pthread!Live /\ Pthread!Starters' = Pthread!Starters
    BY <1>14
       DEF Pthread!WaitForThreads, Pthread!Live, Pthread!Starters,
           Pthread!Exiting, Pthread!Go, ThreadPositions
  <2>2. QED
    BY <1>k, <2>1
<1>15. ASSUME UNCHANGED Pthread!vars
      PROVE  Pthread!CountNeverLow'
  <2>1. /\ UNCHANGED running_threads_counter
        /\ Pthread!Live' = Pthread!Live /\ Pthread!Starters' = Pthread!Starters
    BY <1>15
       DEF Pthread!vars, Pthread!Live, Pthread!Starters, Pthread!Exiting,
           Pthread!vars
  <2>2. QED
    BY <1>k, <2>1
<1> HIDE DEF Pthread!TypeOK
<1>16. QED
  BY <1>1, <1>2, <1>3, <1>4, <1>5, <1>6, <1>7, <1>8, <1>9, <1>10, <1>11, <1>12,
     <1>13, <1>14, <1>15
     DEF Pthread!Next, Pthread!Step, Pthread!Terminated
(* The counter stays between one and the number of threads, since every    *)
(* thread that is being started has one that starts it.                    *)
LEMMA CounterRange ==
    ASSUME Pthread!PthreadThreadAssumption, ThreadPositions',
           Pthread!CountNeverLow'
    PROVE  running_threads_counter' \in 1 .. Cardinality(Pthread!AllThreads)
<1> DEFINE A == Pthread!AllThreads
           L == Pthread!Live'
           S == Pthread!Starters'
           f == [p \in S |-> target'[p]]
<1>1. L \in SUBSET A /\ S \in SUBSET A /\ Main \in L
  BY DEF Pthread!Live, Pthread!Starters, Pthread!Exiting, ThreadPositions,
         Pthread!AllThreads
<1>2. /\ IsFiniteSet(A) /\ Cardinality(A) \in Nat
      /\ IsFiniteSet(L) /\ Cardinality(L) \in Nat
      /\ IsFiniteSet(S) /\ Cardinality(S) \in Nat
  BY <1>1, FiniteThreads
<1>3. Cardinality(L) # 0
  BY <1>1, <1>2, FS_EmptySet
<1>4. /\ IsFiniteSet(A \ L)
      /\ Cardinality(A \ L) = Cardinality(A) - Cardinality(L)
  <2>1. A \cap L = L
    BY <1>1
  <2>2. QED
    BY <1>2, <2>1, FS_Difference
<1>5. f \in [S -> A \ L]
  BY DEF Pthread!Starters, Pthread!Live, ThreadPositions, Pthread!AllThreads
<1>6. \A p, q \in S : f[p] = f[q] => p = q
  BY DEF Pthread!Starters, ThreadPositions
<1> HIDE DEF A, L, S, f
<1>7. ~(Cardinality(A \ L) < Cardinality(S))
  BY <1>2, <1>4, <1>5, <1>6, FS_PigeonHole
<1>8. running_threads_counter' = Cardinality(L) + Cardinality(S)
  BY SameCardinality DEF Pthread!CountNeverLow, L, S
<1>9. QED
  BY <1>2, <1>3, <1>4, <1>7, <1>8 DEF A

(* The types.                                                              *)
LEMMA ThreadTypeStep ==
    ASSUME Pthread!PthreadThreadAssumption, Pthread!TypeOK, ThreadPositions,
           ThreadStacks,
           running_threads_counter' \in 1 .. Cardinality(Pthread!AllThreads),
           [Pthread!Next]_(Pthread!vars)
    PROVE  Pthread!TypeOK'
<1> USE DEF Pthread!TypeOK, Pthread!PC, Pthread!AllThreads
<1>1. ASSUME NEW p \in Pthread!AllThreads, NEW u \in Users, NEW b \in BOOLEAN,
              NEW n \in Sizes, Pthread!Create(p, u, b, n)
      PROVE  Pthread!TypeOK'
  <2>1. /\ CacheShrinks /\ stackSize' \in [Blocks -> Sizes \cup {0}]
        /\ \E s \in Blocks : NewStack(u, s)
    BY <1>1, CreateStack DEF Pthread!Create
  <2>2. QED
    BY SameCardinality, <1>1, <2>1
       DEF Pthread!Create, Pthread!Go, Pthread!calls, CacheShrinks, NewStack
<1>2. ASSUME NEW j \in Pthread!AllThreads, NEW t \in Users,
             Pthread!JoinWaits(j, t)
      PROVE  Pthread!TypeOK'
  BY <1>2
     DEF Pthread!JoinWaits, Pthread!Go, Pthread!Handle, Pthread!Calls,
         Pthread!stacks
<1>3. ASSUME NEW j \in Pthread!AllThreads, NEW t \in Users,
             Pthread!JoinReleases(j, t)
      PROVE  Pthread!TypeOK'
  BY <1>3
     DEF Pthread!JoinReleases, Pthread!Calls, Pthread!Returns, Pthread!stacks
<1>4. ASSUME NEW d \in Pthread!AllThreads, NEW t \in Users,
             Pthread!Detach(d, t)
      PROVE  Pthread!TypeOK'
  BY <1>4 DEF Pthread!Detach, Pthread!Calls, Pthread!Returns, Pthread!stacks
<1>5. ASSUME NEW p \in Pthread!AllThreads, NEW n \in Sizes,
             Pthread!CreateFails(p, n)
      PROVE  Pthread!TypeOK'
  <2>1. CacheShrinks
    BY <1>5, TrimShrinks, {} \in SUBSET Blocks DEF Pthread!CreateFails
  <2>2. QED
    BY <1>5, <2>1
       DEF Pthread!CreateFails, Pthread!data, Pthread!calls, CacheShrinks
<1>6. ASSUME NEW t \in Pthread!AllThreads, Pthread!Exit(t)
      PROVE  Pthread!TypeOK'
  BY SameCardinality, <1>6
     DEF Pthread!Exit, Pthread!Go, Pthread!data, Pthread!stacks, Pthread!calls
<1>7. ASSUME NEW j \in Pthread!AllThreads, Pthread!SpuriousWakeup(j)
      PROVE  Pthread!TypeOK'
  BY <1>7
     DEF Pthread!SpuriousWakeup, Pthread!Go, Pthread!data, Pthread!stacks,
         Pthread!calls
<1>8. ASSUME NEW p \in Pthread!AllThreads, Pthread!Started(p)
      PROVE  Pthread!TypeOK'
  BY <1>8
     DEF Pthread!Started, Pthread!Go, Pthread!data, Pthread!stacks,
         Pthread!calls
<1>9. ASSUME NEW p \in Pthread!AllThreads, Pthread!StartFails(p)
      PROVE  Pthread!TypeOK'
  BY SameCardinality, <1>9
     DEF Pthread!StartFails, Pthread!Go, Pthread!data, Pthread!stacks,
         Pthread!calls
<1>10. ASSUME NEW p \in Pthread!AllThreads, Pthread!Undo(p)
      PROVE  Pthread!TypeOK'
  <2>1. target[p] \in Pthread!AllThreads /\ HasStack(target[p])
    BY <1>10 DEF Pthread!Undo, ThreadPositions, HasStack, CreatesThread
  <2>2. stack_node[target[p]] \in Blocks
    BY <2>1 DEF ThreadStacks
  <2>3. QED
    BY <1>10, <2>1, <2>2
       DEF Pthread!Undo, Pthread!Go, Pthread!Cache, Pthread!calls
<1>11. ASSUME NEW t \in Pthread!AllThreads, Pthread!Release(t)
      PROVE  Pthread!TypeOK'
  <2>1. t # Main /\ HasStack(t)
    BY <1>11 DEF Pthread!Release, ThreadPositions, HasStack
  <2>2. stack_node[t] \in Blocks
    BY <2>1 DEF ThreadStacks
  <2>3. QED
    BY <1>11, <2>2
       DEF Pthread!Release, Pthread!Go, Pthread!Cache, Pthread!calls
<1>12. ASSUME NEW t \in Pthread!AllThreads, Pthread!ThreadExit(t)
      PROVE  Pthread!TypeOK'
  BY <1>12 DEF Pthread!ThreadExit, Pthread!Go, Pthread!data, Pthread!calls
<1>13. ASSUME NEW j \in Pthread!AllThreads, Pthread!JoinResumes(j)
      PROVE  Pthread!TypeOK'
  BY <1>13 DEF Pthread!JoinResumes, Pthread!Go, Pthread!Returns, Pthread!stacks
<1>14. ASSUME Pthread!WaitForThreads
      PROVE  Pthread!TypeOK'
  BY <1>14
     DEF Pthread!WaitForThreads, Pthread!Go, Pthread!data, Pthread!stacks,
         Pthread!calls
<1>15. ASSUME UNCHANGED Pthread!vars
      PROVE  Pthread!TypeOK'
  BY <1>15 DEF Pthread!vars, Pthread!data, Pthread!stacks, Pthread!calls
<1> HIDE DEF Pthread!TypeOK, Pthread!PC, Pthread!AllThreads
<1>16. QED
  BY <1>1, <1>2, <1>3, <1>4, <1>5, <1>6, <1>7, <1>8, <1>9, <1>10, <1>11, <1>12,
     <1>13, <1>14, <1>15
     DEF Pthread!Next, Pthread!Step, Pthread!Terminated

-----------------------------------------------------------------------------
LEMMA ThreadInvariantStep ==
    ASSUME Pthread!PthreadThreadAssumption
    PROVE  ThreadInv /\ [Pthread!Next]_(Pthread!vars) => ThreadInv'
<1> SUFFICES ASSUME ThreadInv, [Pthread!Next]_(Pthread!vars) PROVE ThreadInv'
  OBVIOUS
<1>1. /\ ThreadPositions'
      /\ ThreadData'
      /\ ThreadStacks'
      /\ Pthread!CountNeverLow'
  BY ThreadPositionsStep, ThreadDataStep, ThreadStacksStep, ThreadCountStep
     DEF ThreadInv
<1>2. running_threads_counter' \in 1 .. Cardinality(Pthread!AllThreads)
  BY <1>1, CounterRange
<1>3. Pthread!TypeOK'
  BY <1>2, ThreadTypeStep DEF ThreadInv
<1>4. QED
  BY <1>1, <1>3 DEF ThreadInv

(* The invariant says what a user of threads relies on.                    *)
LEMMA ThreadSuffices ==
    ASSUME Pthread!PthreadThreadAssumption
    PROVE  ThreadInv => /\ Pthread!NoUseAfterFree
                        /\ Pthread!DataReleased
                        /\ Pthread!StacksDisjoint
<1> SUFFICES ASSUME ThreadInv
             PROVE  /\ Pthread!NoUseAfterFree
                    /\ Pthread!DataReleased
                    /\ Pthread!StacksDisjoint
  OBVIOUS
<1> USE DEF ThreadInv
<1>1. Pthread!NoUseAfterFree
  BY DEF Pthread!NoUseAfterFree, ThreadPositions, ThreadData, NeedsData,
         Pthread!AllThreads
<1>2. Pthread!DataReleased
  BY DEF Pthread!DataReleased, ThreadData, Pthread!AllThreads
<1>3. Pthread!StacksDisjoint
  <2> USE DEF Pthread!StacksDisjoint
  <2> TAKE b \in Blocks
  <2>0. b # NoBlock
    BY DEF Pthread!PthreadThreadAssumption
  <2> DEFINE U == {t \in Pthread!AllThreads : Pthread!OnStack(t, b)}
  <2>1. Cardinality(U) <= 1
    <3>1. \A t, u \in U : t = u
      BY <2>0 DEF ThreadStacks, Pthread!OnStack
    <3>2. CASE U = {}
      BY <3>2, FS_EmptySet
    <3>3. CASE \E t \in U : TRUE
      <4>1. \E t : U = {t}
        BY <3>1, <3>3
      <4>2. QED
        BY <4>1, FS_Singleton
    <3>4. QED
      BY <3>2, <3>3
  <2>2. (\E t \in Pthread!AllThreads : Pthread!OnStack(t, b))
          => is_used[b] /\ b \in allocated
    BY <2>0 DEF ThreadStacks, Pthread!OnStack
  <2>3. b \in Pthread!BlocksOf(stack_blocks) =>
          /\ b \in allocated
          /\ \A t \in Pthread!AllThreads :
                Pthread!OnStack(t, b) => threadPc[t] = "released"
    BY DEF Pthread!BlocksOf, ThreadStacks
  <2>4. is_used[b] => \E t \in Pthread!AllThreads : Pthread!OnStack(t, b)
    BY DEF ThreadStacks
  <2>5. QED
    BY SameCardinality, <2>1, <2>2, <2>3, <2>4
<1>4. QED
  BY <1>1, <1>2, <1>3

(* pthread_create, pthread_exit, pthread_join and pthread_detach           *)
(* (nc_thread.c): nobody looks at data that were freed, everything is      *)
(* released in the end, no stack is given to two threads or freed under    *)
(* one, and the count of threads is never too low.                         *)
THEOREM ThreadsAlwaysCorrect ==
    Pthread!Spec => [](/\ Pthread!TypeOK
                      /\ Pthread!NoUseAfterFree
                      /\ Pthread!DataReleased
                      /\ Pthread!StacksDisjoint
                      /\ Pthread!CountNeverLow)
<1>1. ThreadInv => /\ Pthread!TypeOK
                   /\ Pthread!NoUseAfterFree
                   /\ Pthread!DataReleased
                   /\ Pthread!StacksDisjoint
                   /\ Pthread!CountNeverLow
  BY ThreadSuffices, MCThreadsAssumption DEF ThreadInv
<1>2. QED
  BY <1>1, ThreadInitially, ThreadInvariantStep, MCThreadsAssumption, PTL
     DEF Pthread!Spec

-----------------------------------------------------------------------------
(* Beside the other parts, each part takes its own steps or none.          *)

LEMMA CodeRuns == LifeSpec => Spec
<1>1. LifeInit => Init
  BY DEF LifeInit
<1>2. [LifeNext]_lifeVars => [Next]_vars
  BY DEF LifeNext, lifeVars
<1>3. QED
  BY <1>1, <1>2, PTL DEF LifeSpec, Spec

LEMMA TsdRuns == LifeSpec => Tsd!Spec
<1>1. LifeInit => Tsd!Init
  BY DEF LifeInit
<1>2. UNCHANGED tsdVars => UNCHANGED Tsd!vars
  BY DEF tsdVars, Tsd!vars, Tsd!keys, Tsd!mine, Tsd!locals, Tsd!exits
<1>3. [LifeNext]_lifeVars => [Tsd!Next]_(Tsd!vars)
  BY <1>2 DEF LifeNext, lifeVars
<1>4. QED
  BY <1>1, <1>3, PTL DEF LifeSpec, Tsd!Spec

LEMMA OrderedRuns == LifeSpec => Ordered!Spec
<1>1. LifeInit => Ordered!Init
  BY DEF LifeInit
<1>2. UNCHANGED orderedVars => UNCHANGED Ordered!vars
  BY DEF orderedVars, Ordered!vars, Ordered!keys, Ordered!mine,
         Ordered!locals, Ordered!exits
<1>3. [LifeNext]_lifeVars => [Ordered!Next]_(Ordered!vars)
  BY <1>2 DEF LifeNext, lifeVars
<1>4. QED
  BY <1>1, <1>3, PTL DEF LifeSpec, Ordered!Spec

LEMMA ThreadsRun == LifeSpec => Pthread!Spec
<1>1. LifeInit => Pthread!Init
  BY DEF LifeInit
<1>2. UNCHANGED threadVars => UNCHANGED Pthread!vars
  BY DEF threadVars, Pthread!vars, Pthread!data, Pthread!stacks,
         Pthread!calls
<1>3. [LifeNext]_lifeVars => [Pthread!Next]_(Pthread!vars)
  BY <1>2 DEF LifeNext, lifeVars
<1>4. QED
  BY <1>1, <1>3, PTL DEF LifeSpec, Pthread!Spec

(* Code is loaded and unloaded under running threads as nacl_text.c        *)
(* promises, where the run checks it.                                      *)
THEOREM CodeCorrectInSystem == LifeSpec => []CodeCorrect
<1>1. Spec => [](TypeOK /\ NoTornCode /\ EntryOnlyInRegions /\ SanityChecks)
  BY DynamicCodeCorrect, MCThreadsAssumption
<1>2. TypeOK /\ NoTornCode /\ EntryOnlyInRegions /\ SanityChecks
        => CodeCorrect
  BY DEF CodeCorrect
<1>3. QED
  BY <1>1, <1>2, CodeRuns, PTL

(* Keys have one creator, and the values and destructors that a thread     *)
(* sees are of the key's present owner (nc_tsd.c), however keys are        *)
(* created and deleted.                                                    *)
THEOREM TsdCorrectInSystem == LifeSpec => []TsdCorrect
<1>1. Tsd!Spec => []Tsd!TsdCorrect
  BY Tsd!TsdAlwaysCorrect, MCThreadsAssumption
<1>2. Tsd!TsdCorrect => TsdCorrect
  BY DEF TsdCorrect
<1>3. QED
  BY <1>1, <1>2, TsdRuns, PTL

(* An application that creates and deletes one key at a time leaves no     *)
(* value behind, unless destructors have stored new ones in every pass     *)
(* (nc_tsd.c).                                                             *)
THEOREM DestructorsRunInSystem == LifeSpec => []OrderedDestructorsRun
<1>1. Ordered!Spec => []Ordered!DestructorsRun
  BY Ordered!DestructorsAlwaysRun, MCThreadsAssumption
<1>2. Ordered!DestructorsRun => OrderedDestructorsRun
  BY DEF OrderedDestructorsRun
<1>3. QED
  BY <1>1, <1>2, OrderedRuns, PTL

(* Data, stacks and the count of threads are right (nc_thread.c), where    *)
(* the run checks it.                                                      *)
THEOREM ThreadsCorrectInSystem == LifeSpec => []ThreadsCorrect
<1>1. /\ Pthread!TypeOK /\ Pthread!NoUseAfterFree /\ Pthread!DataReleased
      /\ Pthread!StacksDisjoint /\ Pthread!CountNeverLow
      => ThreadsCorrect
  BY DEF ThreadsCorrect
<1>2. QED
  BY <1>1, ThreadsAlwaysCorrect, ThreadsRun, PTL
=============================================================================
