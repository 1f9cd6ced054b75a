---------------------------- MODULE DynamicCode ----------------------------
(***************************************************************************)
(* Loading and unloading code while sandboxed threads run (nacl_text.c and *)
(* the code mappings of NaClSysMmapIntern).  Code is written in bundles.   *)
(* Sandboxed code can jump only to the head of a bundle, so the runtime    *)
(* loads code by writing the tails before the heads, and unloads it by     *)
(* writing halts over the heads and waiting until every thread has called  *)
(* nacl_dyncode_delete since: each call records the generation of the      *)
(* deletions the thread knows of.  Threads run code between any two of     *)
(* these writes.                                                           *)
(*                                                                         *)
(* Addresses count bundles from dynamic_text_start.  The last bundle is    *)
(* the halt sled.  Calls that fail before they change anything (validator, *)
(* alignment, overlap) are not steps.  NaClSysDyncodeModify replaces       *)
(* operands of instructions: the validator makes it keep the instructions, *)
(* so that it changes neither heads nor tails here.                        *)
(***************************************************************************)
EXTENDS Integers, FiniteSets

CONSTANTS
    Threads,         \* threads of the sandbox
    First,           \* the thread that starts
    NoThread,
    NumBundles,      \* size of the dynamic code area
    BundlesPerPage,
    MaxSize,         \* bound: bundles of a region
    MaxGeneration,   \* INT32_MAX
    MaxCode,         \* bound: pieces of code that are loaded
    MaxSpawn         \* bound: threads that are started

DynamicCodeAssumption ==
    /\ First \in Threads
    /\ NoThread \notin Threads
    /\ BundlesPerPage \in Nat \ {0}
    /\ NumBundles \in Nat \ {0}
    /\ NumBundles % BundlesPerPage = 0
    /\ MaxSize \in Nat /\ MaxGeneration \in Nat
    /\ MaxCode \in Nat /\ MaxSpawn \in Nat

Bundles == 0 .. NumBundles - 1
HaltSled == {NumBundles - 1}
Page(b) == b \div BundlesPerPage
Pages == {Page(b) : b \in Bundles}

(* What is in memory: nothing yet, a halt, or the n-th piece of code.      *)
FRESH == -1
HALT == 0
Code == 1 .. MaxCode
Content == {FRESH, HALT} \cup Code

Region == [start : Bundles, size : 1 .. NumBundles,
           delete_generation : -1 .. MaxGeneration, is_mmap : BOOLEAN]

VARIABLES
    dynamic_regions,             \* the regions, see DynamicRegions
    dynamic_delete_generation,   \* of nap
    mapcache,                    \* pages of the cached writable mapping
    dynamic_page_bitmap,         \* pages that have been allocated
    executable,                  \* pages that sandboxed code can run
    head, tail,                  \* what is at the bundles
    dynamic_load_mutex,          \* the thread that has it
    threads,                     \* threads in nap->threads
    thread_generation,           \* natp->dynamic_delete_generation
    pc,                          \* pc[t]: where t is in a system call
    call,                        \* call[t]: its arguments
    gen,                         \* gen[t]: its local variable
    todo,                        \* bundles the mutex holder will write
    unseen, rv,                  \* locals of NaClMinimumThreadGeneration
    at,                          \* at[t]: the bundle t is inside of
    loaded, spawned              \* counters for the bounds

text == <<dynamic_page_bitmap, executable, head, tail>>
scan == <<unseen, rv>>
counters == <<loaded, spawned>>
vars == <<dynamic_regions, dynamic_delete_generation, mapcache, text,
          dynamic_load_mutex, threads, thread_generation, pc, call, gen, todo,
          scan, at, counters>>

Op == {"create", "modify", "delete", "mmap"}

PC == {"absent", "run", "ask", "map", "protect", "tails", "heads", "halts",
       "mark", "setgen", "lock", "scan", "finish", "checkin", "mapfile"}

Outside == [bundle |-> 0, code |-> HALT]
NoCall == [op |-> "create", start |-> 0, size |-> 1, code |-> 0]

TypeOK ==
    /\ dynamic_regions \subseteq Region
    /\ dynamic_delete_generation \in 0 .. MaxGeneration
    /\ mapcache \subseteq Pages
    /\ dynamic_page_bitmap \subseteq Pages
    /\ executable \subseteq Pages
    /\ head \in [Bundles -> Content]
    /\ tail \in [Bundles -> Content]
    /\ dynamic_load_mutex \in Threads \cup {NoThread}
    /\ threads \subseteq Threads
    /\ thread_generation \in [Threads -> 0 .. MaxGeneration]
    /\ pc \in [Threads -> PC]
    /\ call \in [Threads -> [op : Op, start : Bundles, size : 1 .. NumBundles,
                             code : 0 .. MaxCode]]
    /\ gen \in [Threads -> 0 .. MaxGeneration]
    /\ todo \subseteq Bundles
    /\ unseen \subseteq Threads
    /\ rv \in 0 .. MaxGeneration + 1
    /\ at \in [Threads -> [bundle : Bundles, code : {HALT} \cup Code]]
    /\ loaded \in 0 .. MaxCode
    /\ spawned \in 0 .. MaxSpawn

(* NaClMakeDynamicTextShared: the area is reserved but not accessible.     *)
Init ==
    /\ dynamic_regions = {}
    /\ dynamic_delete_generation = 0
    /\ mapcache = {}
    /\ dynamic_page_bitmap = {}
    /\ executable = {}
    /\ head = [b \in Bundles |-> FRESH]
    /\ tail = [b \in Bundles |-> FRESH]
    /\ dynamic_load_mutex = NoThread
    /\ threads = {First}
    /\ thread_generation = [t \in Threads |-> 0]
    /\ pc = [t \in Threads |-> IF t = First THEN "run" ELSE "absent"]
    /\ call = [t \in Threads |-> NoCall]
    /\ gen = [t \in Threads |-> 0]
    /\ todo = {}
    /\ unseen = {}
    /\ rv = MaxGeneration + 1
    /\ at = [t \in Threads |-> Outside]
    /\ loaded = 0
    /\ spawned = 0

Span(start, size) == start .. start + size - 1
Target(t) == Span(call[t].start, call[t].size)
PagesOf(B) == {Page(b) : b \in B}

(* NaClDynamicRegionFind                                                   *)
Overlapping(start, size) ==
    {r \in dynamic_regions :
        Span(r.start, r.size) \cap Span(start, size) # {}}

Go(t, to) == pc' = [pc EXCEPT ![t] = to]
Lock(t) == dynamic_load_mutex = NoThread /\ dynamic_load_mutex' = t
Unlock(t) == dynamic_load_mutex' = NoThread

(* A system call leaves dynamic code: its return address is the head of a  *)
(* bundle.                                                                 *)
OutsideCode(t) == pc[t] = "run" /\ at[t] = Outside

With(t, op, start, size, code) ==
    call' = [call EXCEPT ![t] = [op |-> op, start |-> start, size |-> size,
                                 code |-> code]]

(* The arguments and locals of a call are dead when it returns.            *)
Return(t) == Go(t, "run") /\ call' = [call EXCEPT ![t] = NoCall]

NewRegion(start, size, is_mmap) ==
    [start |-> start, size |-> size, delete_generation |-> -1,
     is_mmap |-> is_mmap]

-----------------------------------------------------------------------------
(* Sandboxed threads                                                       *)

(* A thread is in the table, with generation 0, before it runs.            *)
Spawn(t) ==
    /\ pc[t] = "absent"
    /\ \A u \in Threads : pc[u] # "scan"            \* threads_mu
    /\ spawned < MaxSpawn
    /\ spawned' = spawned + 1
    /\ threads' = threads \cup {t}
    /\ thread_generation' = [thread_generation EXCEPT ![t] = 0]
    /\ Go(t, "run")
    /\ UNCHANGED <<dynamic_regions, dynamic_delete_generation, mapcache, text,
                   dynamic_load_mutex, call, gen, todo, scan, at, loaded>>

Exit(t) ==
    /\ OutsideCode(t)
    /\ t # First
    /\ \A u \in Threads : pc[u] # "scan"            \* threads_mu
    /\ threads' = threads \ {t}
    /\ Go(t, "absent")
    /\ UNCHANGED <<dynamic_regions, dynamic_delete_generation, mapcache, text,
                   dynamic_load_mutex, thread_generation, call, gen, todo,
                   scan, at, counters>>

(* A thread jumps to the head of a bundle; a halt would end it.            *)
Enter(t, b) ==
    /\ OutsideCode(t)
    /\ Page(b) \in executable
    /\ head[b] \in Code
    /\ at' = [at EXCEPT ![t] = [bundle |-> b, code |-> head[b]]]
    /\ UNCHANGED <<dynamic_regions, dynamic_delete_generation, mapcache, text,
                   dynamic_load_mutex, threads, thread_generation, pc, call,
                   gen, todo, scan, counters>>

Leave(t) ==
    /\ at[t] # Outside
    /\ at' = [at EXCEPT ![t] = Outside]
    /\ UNCHANGED <<dynamic_regions, dynamic_delete_generation, mapcache, text,
                   dynamic_load_mutex, threads, thread_generation, pc, call,
                   gen, todo, scan, counters>>

-----------------------------------------------------------------------------
(* A thread makes one of the calls below, which copies the new code to a   *)
(* private buffer, and waits for dynamic_load_mutex.  Which call it is     *)
(* matters only once it has the mutex.                                     *)
Ask(t) ==
    /\ OutsideCode(t)
    /\ Go(t, "ask")
    /\ UNCHANGED <<dynamic_regions, dynamic_delete_generation, mapcache, text,
                   dynamic_load_mutex, threads, thread_generation, call, gen,
                   todo, scan, at, counters>>

(* NaClTextDyncodeCreate, NaClSysDyncodeModify and NaClSysDyncodeDelete up *)
(* to NaClTextMapWrapper                                                   *)

CreateCall(t, start, size) ==
    /\ pc[t] = "ask"
    /\ Lock(t)
    /\ Span(start, size) \subseteq Bundles \ HaltSled
    /\ Overlapping(start, size) = {}
    /\ loaded < MaxCode
    /\ loaded' = loaded + 1
    /\ dynamic_regions' = dynamic_regions \cup {NewRegion(start, size, FALSE)}
    /\ With(t, "create", start, size, loaded')
    /\ Go(t, "map")
    /\ UNCHANGED <<dynamic_delete_generation, mapcache, text, threads,
                   thread_generation, gen, todo, scan, at, spawned>>

(* The bundles to modify are read from the text, which must be mapped.     *)
ModifyCall(t, start, size) ==
    /\ pc[t] = "ask"
    /\ Lock(t)
    /\ \E r \in dynamic_regions :
        /\ Span(start, size) \subseteq Span(r.start, r.size)
        /\ ~r.is_mmap
    /\ With(t, "modify", start, size, 0)
    /\ Go(t, "map")
    /\ UNCHANGED <<dynamic_regions, dynamic_delete_generation, mapcache, text,
                   threads, thread_generation, gen, todo, scan, at, counters>>

(* The first request halts the region; later ones only look whether all    *)
(* threads have checked in.                                                *)
DeleteCall(t, r) ==
    /\ pc[t] = "ask"
    /\ Lock(t)
    /\ ~r.is_mmap
    /\ r.delete_generation < 0 => dynamic_delete_generation # MaxGeneration
    /\ With(t, "delete", r.start, r.size, 0)
    /\ Go(t, IF r.delete_generation < 0 THEN "map" ELSE "setgen")
    /\ UNCHANGED <<dynamic_regions, dynamic_delete_generation, mapcache, text,
                   threads, thread_generation, gen, todo, scan, at, counters>>

-----------------------------------------------------------------------------
(* CachedMapWritableText                                                   *)

AfterMap == [create |-> "tails", modify |-> "finish", delete |-> "halts"]

MapHit(t) ==
    /\ pc[t] = "map"
    /\ mapcache = PagesOf(Target(t))
    /\ Go(t, AfterMap[call[t].op])
    /\ todo' = Target(t)
    /\ UNCHANGED <<dynamic_regions, dynamic_delete_generation, mapcache, text,
                   dynamic_load_mutex, threads, thread_generation, call, gen,
                   scan, at, counters>>

(* A slip: the mapping is recorded although it failed.                     *)
MapFailsCached(t) ==
    /\ pc[t] = "map"
    /\ mapcache # PagesOf(Target(t))
    /\ mapcache' = PagesOf(Target(t))
    /\ Unlock(t)
    /\ Return(t)
    /\ UNCHANGED <<dynamic_regions, dynamic_delete_generation, text, threads,
                   thread_generation, gen, todo, scan, at, counters>>

(* No memory for the mapping: the call fails with ENOMEM.                  *)
MapFails(t) ==
    /\ pc[t] = "map"
    /\ mapcache # PagesOf(Target(t))
    /\ mapcache' = {}
    /\ Unlock(t)
    /\ Return(t)
    /\ UNCHANGED <<dynamic_regions, dynamic_delete_generation, text, threads,
                   thread_generation, gen, todo, scan, at, counters>>

FillWithHalt(P, memory) ==
    [b \in Bundles |-> IF Page(b) \in P THEN HALT ELSE memory[b]]

(* The old mapping is dropped; new pages are marked and filled with halts  *)
(* before sandboxed code can reach them.                                   *)
MapMiss(t) ==
    LET new == PagesOf(Target(t)) \ dynamic_page_bitmap
    IN  /\ pc[t] = "map"
        /\ mapcache # PagesOf(Target(t))
        /\ mapcache' = {}
        /\ dynamic_page_bitmap' = dynamic_page_bitmap \cup new
        /\ head' = FillWithHalt(new, head)
        /\ tail' = FillWithHalt(new, tail)
        /\ Go(t, "protect")
        /\ UNCHANGED <<dynamic_regions, dynamic_delete_generation, executable,
                       dynamic_load_mutex, threads, thread_generation, call,
                       gen, todo, scan, at, counters>>

Protect(t) ==
    /\ pc[t] = "protect"
    /\ executable' = executable \cup PagesOf(Target(t))
    /\ mapcache' = PagesOf(Target(t))
    /\ Go(t, AfterMap[call[t].op])
    /\ todo' = Target(t)
    /\ UNCHANGED <<dynamic_regions, dynamic_delete_generation,
                   dynamic_page_bitmap, head, tail, dynamic_load_mutex,
                   threads, thread_generation, call, gen, scan, at, counters>>

(* NaClTextMapClearCacheIfNeeded: only a single page stays mapped.         *)
ClearCacheIfNeeded(t) ==
    mapcache' = IF Cardinality(PagesOf(Target(t))) > 1 THEN {} ELSE mapcache

Finish(t) ==
    /\ pc[t] = "finish"
    /\ ClearCacheIfNeeded(t)
    /\ Unlock(t)
    /\ Return(t)
    /\ todo' = {}
    /\ UNCHANGED <<dynamic_regions, dynamic_delete_generation, text, threads,
                   thread_generation, gen, scan, at, counters>>

-----------------------------------------------------------------------------
(* Writing bundles, one at a time                                          *)

(* After the last bundle the thread goes on with the next loop, if there   *)
(* is one, over all bundles.                                               *)
Written(t, b, next) ==
    /\ todo' = IF todo # {b} THEN todo \ {b}
               ELSE IF next = "heads" THEN Target(t) ELSE {}
    /\ Go(t, IF todo = {b} THEN next ELSE pc[t])
    /\ UNCHANGED <<dynamic_regions, dynamic_delete_generation, mapcache,
                   dynamic_page_bitmap, executable, dynamic_load_mutex,
                   threads, thread_generation, call, gen, scan, at, counters>>

(* CopyBundleTails                                                         *)
CopyTail(t, b) ==
    /\ pc[t] = "tails"
    /\ b \in todo
    /\ tail' = [tail EXCEPT ![b] = call[t].code]
    /\ UNCHANGED head
    /\ Written(t, b, "heads")

(* CopyBundleHeads                                                         *)
CopyHead(t, b) ==
    /\ pc[t] = "heads"
    /\ b \in todo
    /\ head' = [head EXCEPT ![b] = call[t].code]
    /\ UNCHANGED tail
    /\ Written(t, b, "finish")

(* A slip: only the first bundle of the region is halted.                  *)
HaltFirstHead(t, b) ==
    /\ pc[t] = "halts"
    /\ b \in todo
    /\ head' = IF b = call[t].start THEN [head EXCEPT ![b] = HALT] ELSE head
    /\ UNCHANGED tail
    /\ Written(t, b, "mark")

(* ReplaceBundleHeadsWithHalts                                             *)
HaltHead(t, b) ==
    /\ pc[t] = "halts"
    /\ b \in todo
    /\ head' = [head EXCEPT ![b] = HALT]
    /\ UNCHANGED tail
    /\ Written(t, b, "mark")

-----------------------------------------------------------------------------
(* The rest of NaClSysDyncodeDelete                                        *)

Deleting(t) ==
    CHOOSE r \in dynamic_regions :
        r.start = call[t].start /\ r.size = call[t].size

(* A slip: the generation is recorded before it is incremented.            *)
MarkDeletedTooOld(t) ==
    /\ pc[t] = "mark"
    /\ ClearCacheIfNeeded(t)
    /\ dynamic_delete_generation' = dynamic_delete_generation + 1
    /\ dynamic_regions' = (dynamic_regions \ {Deleting(t)}) \cup
         {[Deleting(t) EXCEPT !.delete_generation = dynamic_delete_generation]}
    /\ Go(t, "setgen")
    /\ UNCHANGED <<text, dynamic_load_mutex, threads, thread_generation, call,
                   gen, todo, scan, at, counters>>

MarkDeleted(t) ==
    /\ pc[t] = "mark"
    /\ ClearCacheIfNeeded(t)
    /\ dynamic_delete_generation' = dynamic_delete_generation + 1
    /\ dynamic_regions' = (dynamic_regions \ {Deleting(t)}) \cup
         {[Deleting(t) EXCEPT
             !.delete_generation = dynamic_delete_generation']}
    /\ Go(t, "setgen")
    /\ UNCHANGED <<text, dynamic_load_mutex, threads, thread_generation, call,
                   gen, todo, scan, at, counters>>

(* NaClSetThreadGeneration                                                 *)
SetThreadGeneration(t, generation) ==
    thread_generation' = [thread_generation EXCEPT ![t] = generation]

SetOwnGeneration(t) ==
    /\ pc[t] = "setgen"
    /\ SetThreadGeneration(t, dynamic_delete_generation)
    /\ Go(t, "lock")
    /\ UNCHANGED <<dynamic_regions, dynamic_delete_generation, mapcache, text,
                   dynamic_load_mutex, threads, call, gen, todo, scan, at,
                   counters>>

(* NaClMinimumThreadGeneration takes threads_mu and looks at one thread at *)
(* a time, while others record their generations.                          *)
LockThreads(t) ==
    /\ pc[t] = "lock"
    /\ unseen' = threads
    /\ rv' = MaxGeneration + 1
    /\ Go(t, "scan")
    /\ UNCHANGED <<dynamic_regions, dynamic_delete_generation, mapcache, text,
                   dynamic_load_mutex, threads, thread_generation, call, gen,
                   todo, at, counters>>

LookAtThread(t, u) ==
    /\ pc[t] = "scan"
    /\ u \in unseen
    /\ unseen' = unseen \ {u}
    /\ rv' = IF rv > thread_generation[u] THEN thread_generation[u] ELSE rv
    /\ UNCHANGED <<dynamic_regions, dynamic_delete_generation, mapcache, text,
                   dynamic_load_mutex, threads, thread_generation, pc, call,
                   gen, todo, at, counters>>

(* The region is removed, or the caller is told to try again.              *)
Decide(t) ==
    /\ pc[t] = "scan"
    /\ unseen = {}
    /\ dynamic_regions' = IF Deleting(t).delete_generation <= rv
                          THEN dynamic_regions \ {Deleting(t)}
                          ELSE dynamic_regions
    /\ Unlock(t)
    /\ Return(t)
    /\ rv' = MaxGeneration + 1
    /\ UNCHANGED <<dynamic_delete_generation, mapcache, text, threads,
                   thread_generation, gen, todo, unseen, at, counters>>

(* A call with size 0: the generation is read under the mutex and recorded *)
(* after it is released.                                                   *)
CheckInRead(t) ==
    /\ pc[t] = "ask"
    /\ dynamic_load_mutex = NoThread
    /\ gen' = [gen EXCEPT ![t] = dynamic_delete_generation]
    /\ Go(t, "checkin")
    /\ UNCHANGED <<dynamic_regions, dynamic_delete_generation, mapcache, text,
                   dynamic_load_mutex, threads, thread_generation, call, todo,
                   scan, at, counters>>

(* A slip: the generation is not recorded.                                 *)
CheckInForgets(t) ==
    /\ pc[t] = "checkin"
    /\ gen' = [gen EXCEPT ![t] = 0]
    /\ Go(t, "run")
    /\ UNCHANGED <<dynamic_regions, dynamic_delete_generation, mapcache, text,
                   dynamic_load_mutex, threads, thread_generation, call, todo,
                   scan, at, counters>>

CheckInSet(t) ==
    /\ pc[t] = "checkin"
    /\ SetThreadGeneration(t, gen[t])
    /\ Go(t, "run")
    /\ gen' = [gen EXCEPT ![t] = 0]
    /\ UNCHANGED <<dynamic_regions, dynamic_delete_generation, mapcache, text,
                   dynamic_load_mutex, threads, call, todo, scan, at,
                   counters>>

-----------------------------------------------------------------------------
(* NaClSysMmapIntern: code from a file.  The region is claimed under the   *)
(* mutex and mapped after it is released, in one step for sandboxed code.  *)

MmapCall(t, start, size) ==
    /\ pc[t] = "ask"
    /\ dynamic_load_mutex = NoThread
    /\ start % BundlesPerPage = 0 /\ size % BundlesPerPage = 0
    /\ Span(start, size) \subseteq Bundles
    /\ Overlapping(start, size) = {}
    /\ loaded < MaxCode
    /\ loaded' = loaded + 1
    /\ dynamic_regions' = dynamic_regions \cup {NewRegion(start, size, TRUE)}
    /\ With(t, "mmap", start, size, loaded')
    /\ Go(t, "mapfile")
    /\ UNCHANGED <<dynamic_delete_generation, mapcache, text,
                   dynamic_load_mutex, threads, thread_generation, gen, todo,
                   scan, at, spawned>>

Overmap(t, memory) ==
    [b \in Bundles |-> IF b \in Target(t) THEN call[t].code ELSE memory[b]]

MapFile(t) ==
    /\ pc[t] = "mapfile"
    /\ head' = Overmap(t, head)
    /\ tail' = Overmap(t, tail)
    /\ executable' = executable \cup PagesOf(Target(t))
    /\ Return(t)
    /\ UNCHANGED <<dynamic_regions, dynamic_delete_generation, mapcache,
                   dynamic_page_bitmap, dynamic_load_mutex, threads,
                   thread_generation, gen, todo, scan, at, counters>>

-----------------------------------------------------------------------------
(* What a thread does inside a system call.                                *)
Step(t) ==
    \/ MapHit(t) \/ MapFails(t) \/ MapMiss(t) \/ Protect(t) \/ Finish(t)
    \/ \E b \in Bundles : CopyTail(t, b) \/ CopyHead(t, b) \/ HaltHead(t, b)
    \/ MarkDeleted(t) \/ SetOwnGeneration(t) \/ LockThreads(t)
    \/ \E u \in Threads : LookAtThread(t, u)
    \/ Decide(t) \/ CheckInSet(t) \/ MapFile(t)

Next ==
    \E t \in Threads :
        \/ Spawn(t) \/ Exit(t) \/ Leave(t) \/ Ask(t)
        \/ \E b \in Bundles : Enter(t, b)
        \/ \E start \in Bundles, size \in 1 .. MaxSize :
            \/ CreateCall(t, start, size)
            \/ ModifyCall(t, start, size)
            \/ MmapCall(t, start, size)
        \/ \E r \in dynamic_regions : DeleteCall(t, r)
        \/ CheckInRead(t)
        \/ Step(t)

Spec == Init /\ [][Next]_vars

(* A deletion that has been requested is retried, as                       *)
(* dyncode_delete_with_retry of the tests does until it succeeds.          *)
Retry(t, r) == r.delete_generation >= 0 /\ DeleteCall(t, r)

-----------------------------------------------------------------------------
(* A thread that has entered a bundle finds the rest of the code it has    *)
(* entered, although other threads load and unload code at the same place: *)
(* tails are written before heads, and a place is not used again before    *)
(* every thread has left it.                                               *)
NoTornCode ==
    \A t \in Threads : at[t].code \in Code => tail[at[t].bundle] = at[t].code

(* Sandboxed code can reach only pages that have been filled, and can      *)
(* enter only code of a region: when no thread is in the middle of a call, *)
(* one whose deletion has not been requested.                              *)
EntryOnlyInRegions ==
    \A b \in Bundles :
        /\ Page(b) \in executable => FRESH \notin {head[b], tail[b]}
        /\ head[b] \in Code =>
             \E r \in dynamic_regions :
                /\ b \in Span(r.start, r.size)
                /\ dynamic_load_mutex = NoThread => r.delete_generation < 0

(* The CHECKs of the code: a thread's generation never goes back, and a    *)
(* page that is allocated was empty.  Also, a cached mapping covers only   *)
(* pages that have been made accessible.                                   *)
SanityChecks ==
    /\ \A t \in Threads :
        /\ pc[t] = "checkin" => thread_generation[t] <= gen[t]
        /\ pc[t] = "setgen" => thread_generation[t] <= dynamic_delete_generation
        /\ pc[t] = "map" =>
             \A b \in Bundles :
                Page(b) \in PagesOf(Target(t)) \ dynamic_page_bitmap =>
                    head[b] = FRESH /\ tail[b] = FRESH
    /\ mapcache \subseteq executable

(* Where regions begin whose deletion has been requested.                  *)
BeingDeleted == {r.start : r \in {s \in dynamic_regions : s.delete_generation >= 0}}

=============================================================================
