--------------------------- MODULE ThreadRegistry ---------------------------
(***************************************************************************)
(* The contexts of one sandbox: how host threads get theirs from           *)
(* getThreadData(), all at once, while sandboxed code may start and end    *)
(* threads of its own and the debug stub looks at all of them.             *)
(*                                                                         *)
(* Shared are the thread table nap->threads, under threads_mu; the map     *)
(* from thread ids to contexts, written under threadCreateMutex and read   *)
(* without a lock; and the debug stub's own map, under its mutex_.  A      *)
(* context (NaClAppThread) has the name of the thread it was made for: a   *)
(* host thread makes one at most, because its entry in the map stays, and  *)
(* a later thread with the same id is the same thread here.  Map_Put() is  *)
(* one step, because a reader looks only for the key that it alone writes. *)
(*                                                                         *)
(* Map_Get() looks through the whole array, also where Map_Put() has not   *)
(* been yet: stale are the threads whose id the memory of the new map      *)
(* happens to hold there.  Sandboxed code that runs on a host thread does  *)
(* not end that thread.                                                    *)
(***************************************************************************)
EXTENDS Naturals, Sequences, FiniteSets

CONSTANTS
    HostThreads,  \* the threads of the host, by NaClThreadId()
    Workers,      \* the threads sandboxed code starts
    NULL,
    MapArrSize,   \* MAP_ARR_SIZE
    MmapMayFail,  \* may the mmap of a stack fail?
    Debugger,     \* is the debug stub there?
    StaleKeys     \* may the memory of a new map hold thread ids?

ASSUME ThreadRegistryAssumption ==
    /\ HostThreads \cap Workers = {}
    /\ NULL \notin HostThreads \cup Workers
    /\ MapArrSize \in Nat \ {0}
    /\ MmapMayFail \in BOOLEAN
    /\ Debugger \in BOOLEAN
    /\ StaleKeys \in BOOLEAN

Contexts == HostThreads \cup Workers

VARIABLES
    pc,                 \* where each thread is
    threads,            \* nap->threads
    num_threads,        \* nap->num_threads
    thread_num,         \* natp->thread_num
    threadCreateMutex,  \* the host thread that holds it, or NULL
    threadDataMap,      \* sandbox->threadDataMap
    stale,              \* thread ids in the unwritten part of the map
    threadData,         \* the context the thread works with
    stack,              \* the thread's sandbox stack is mapped
    tracked,            \* the debug stub's threads_
    stub,               \* the locks the debug stub holds
    deleted,            \* how often destroyDlSandbox() deleted a context
    fatal               \* why the process ended, or "none"

vars == <<pc, threads, num_threads, thread_num, threadCreateMutex,
          threadDataMap, stale, threadData, stack, tracked, stub, deleted,
          fatal>>

table == <<threads, num_threads, thread_num>>
threadMap == <<threadDataMap, stale>>
library == <<threadCreateMutex, threadMap, threadData, stack, deleted>>
debug == <<tracked, stub>>

TypeOK ==
    /\ pc \in [Contexts -> {"idle", "mmap", "lock", "make", "add", "hook",
                            "main", "construct", "put", "use", "exit",
                            "remove"}]
    /\ threads \in Seq(Contexts \cup {NULL})
    /\ num_threads \in Nat
    /\ thread_num \in [Contexts -> Nat]
    /\ threadCreateMutex \in HostThreads \cup {NULL}
    /\ threadDataMap \in Seq([key : HostThreads, value : Contexts])
    /\ Len(threadDataMap) <= MapArrSize
    /\ stale \subseteq HostThreads
    /\ threadData \in [HostThreads -> Contexts \cup {NULL}]
    /\ stack \in [HostThreads -> BOOLEAN]
    /\ tracked \subseteq Contexts
    /\ stub \in {"out", "in", "stopped", "left"}
    /\ deleted \in [Contexts -> Nat]
    /\ fatal \in {"none", "map", "null", "wild", "destroyed"}

(* createDlSandbox() has just returned to thread t.                        *)
Init ==
    \E t \in HostThreads :
      /\ pc = [c \in Contexts |-> "idle"]
      /\ threads = <<t>>
      /\ num_threads = 1
      /\ thread_num = [c \in Contexts |-> IF c = t THEN 1 ELSE 0]
      /\ threadCreateMutex = NULL
      /\ threadDataMap = <<[key |-> t, value |-> t]>>
      /\ stale \in SUBSET (IF StaleKeys THEN HostThreads \ {t} ELSE {})
      /\ threadData = [h \in HostThreads |-> IF h = t THEN t ELSE NULL]
      /\ stack = [h \in HostThreads |-> h = t]
      /\ tracked = IF Debugger THEN {t} ELSE {}
      /\ stub = "out"
      /\ deleted = [c \in Contexts |-> 0]
      /\ fatal = "none"

-----------------------------------------------------------------------------
Running == fatal = "none"

(* Thread c goes from one place to another.                                *)
Move(c, from, to) ==
    /\ Running
    /\ pc[c] = from
    /\ pc' = [pc EXCEPT ![c] = to]

EntriesOf(h) == {i \in 1..Len(threadDataMap) : threadDataMap[i].key = h}

(***************************************************************************)
(* getThreadData().                                                        *)
(***************************************************************************)

(* Map_Get() finds the thread ...                                          *)
MapHit(h) ==
    /\ Move(h, "idle", "use")
    /\ \E i \in EntriesOf(h) :
         /\ \A j \in EntriesOf(h) : i <= j
         /\ threadData' = [threadData EXCEPT ![h] = threadDataMap[i].value]
    /\ UNCHANGED <<table, threadCreateMutex, threadMap, stack, deleted,
                   debug, fatal>>

(* ... or finds it where nothing was written, with a value that is not 0,  *)
(* and the caller dereferences that ...                                    *)
MapStale(h) ==
    /\ Running /\ pc[h] = "idle"
    /\ EntriesOf(h) = {} /\ h \in stale
    /\ fatal' = "wild"
    /\ UNCHANGED <<pc, table, library, debug>>

(* ... or does not find it, or with 0.                                     *)
MapMiss(h) ==
    /\ Move(h, "idle", "mmap")
    /\ EntriesOf(h) = {}
    /\ UNCHANGED <<table, library, debug, fatal>>

(* NaClSysMmapIntern() of the new stack.  Its failure is noticed, and then *)
(* nothing is done about it.                                               *)
MmapStack(h) ==
    /\ Move(h, "mmap", "lock")
    /\ \E ok \in {TRUE, ~MmapMayFail} : stack' = [stack EXCEPT ![h] = ok]
    /\ UNCHANGED <<table, threadCreateMutex, threadMap, threadData,
                   deleted, debug, fatal>>

(* Mutant: goes on without waiting for the mutex.                          *)
LockWithoutWaiting(h) ==
    /\ Move(h, "lock", "make")
    /\ threadCreateMutex' = h
    /\ UNCHANGED <<table, threadMap, threadData, stack, deleted, debug,
                   fatal>>

LockThreadCreate(h) ==
    /\ Move(h, "lock", "make")
    /\ threadCreateMutex = NULL
    /\ threadCreateMutex' = h
    /\ UNCHANGED <<table, threadMap, threadData, stack, deleted, debug,
                   fatal>>

(* NaClAppThreadMake() makes the context.                                  *)
MakeContext(h) ==
    /\ Move(h, "make", "add")
    /\ UNCHANGED <<table, library, debug, fatal>>

(* It fails: getThreadData() returns NULL and its caller dereferences it.  *)
MakeFails(h) ==
    /\ Running /\ pc[h] = "make"
    /\ fatal' = "null"
    /\ UNCHANGED <<pc, table, library, debug>>

(* threadMain() leaves the sandbox at once.                                *)
ThreadMain(h) ==
    /\ Move(h, "main", "construct")
    /\ UNCHANGED <<table, library, debug, fatal>>

(* Mutant: the first entry of the table is taken.                          *)
ConstructFromFirst(h) ==
    /\ Move(h, "construct", "put")
    /\ threads[1] # NULL
    /\ threadData' = [threadData EXCEPT ![h] = threads[1]]
    /\ UNCHANGED <<table, threadCreateMutex, threadMap, stack, deleted,
                   debug, fatal>>

(* constructNaClSandboxThread() takes the last entry of the table.         *)
ConstructThread(h) ==
    /\ Move(h, "construct", "put")
    /\ threads[Len(threads)] # NULL
    /\ threadData' = [threadData EXCEPT ![h] = threads[Len(threads)]]
    /\ UNCHANGED <<table, threadCreateMutex, threadMap, stack, deleted,
                   debug, fatal>>

(* There is no memory, or the thread of the last entry has ended: NULL is  *)
(* dereferenced.                                                           *)
ConstructFails(h) ==
    /\ Running /\ pc[h] = "construct"
    /\ fatal' = "null"
    /\ UNCHANGED <<pc, table, library, debug>>

(* The table is read without threads_mu, while the launcher of a worker    *)
(* has its array moved by DynArraySet().                                   *)
ConstructRaces(h) ==
    /\ Running /\ pc[h] = "construct"
    /\ \E w \in Workers : pc[w] = "add"
    /\ fatal' = "wild"
    /\ UNCHANGED <<pc, table, library, debug>>

(* An entry of the map is written, over what the memory held there.        *)
WriteEntry(h) ==
    /\ threadDataMap' = Append(threadDataMap,
                               [key |-> h, value |-> threadData[h]])
    /\ stale' \in SUBSET stale
    /\ Len(threadDataMap') = MapArrSize => stale' = {}

(* Mutant: the end of the array is not looked at.                          *)
PutUnchecked(h) ==
    /\ Move(h, "put", "use")
    /\ threadDataMap' = Append(threadDataMap,
                               [key |-> h, value |-> threadData[h]])
    /\ threadCreateMutex' = NULL
    /\ UNCHANGED <<table, stale, threadData, stack, deleted, debug, fatal>>

(* Mutant: the mutex is not released.                                      *)
PutKeepsLock(h) ==
    /\ Move(h, "put", "use")
    /\ Len(threadDataMap) < MapArrSize
    /\ WriteEntry(h)
    /\ UNCHANGED <<table, threadCreateMutex, threadData, stack, deleted,
                   debug, fatal>>

(* Map_Put() and the release of the mutex.                                 *)
MapPut(h) ==
    /\ Move(h, "put", "use")
    /\ Len(threadDataMap) < MapArrSize
    /\ WriteEntry(h)
    /\ threadCreateMutex' = NULL
    /\ UNCHANGED <<table, threadData, stack, deleted, debug, fatal>>

MapPutOverflow(h) ==
    /\ Running /\ pc[h] = "put"
    /\ Len(threadDataMap) = MapArrSize
    /\ fatal' = "map"
    /\ UNCHANGED <<pc, table, library, debug>>

(* The call into the sandbox is over.                                      *)
EndCall(h) ==
    /\ Move(h, "use", "idle")
    /\ UNCHANGED <<table, library, debug, fatal>>

(* destroyDlSandbox(), when "threads must be stopped".                     *)
DestroyDlSandbox ==
    /\ Running
    /\ \A c \in Contexts : pc[c] = "idle"
    /\ deleted' = [c \in Contexts |->
                     Cardinality({i \in 1..Len(threadDataMap) :
                                    threadDataMap[i].value = c})]
    /\ fatal' = "destroyed"
    /\ UNCHANGED <<pc, table, threadCreateMutex, threadMap, threadData,
                   stack, debug>>

-----------------------------------------------------------------------------
(***************************************************************************)
(* NaClAppThreadLauncher() and NaClAppThreadTeardown().                    *)
(***************************************************************************)
threads_mu_free == stub \in {"out", "in"}
mutex_free == stub \in {"out", "left"}

(* DynArrayFirstAvail().                                                   *)
FirstAvail(pos) ==
    /\ pos <= Len(threads) => threads[pos] = NULL
    /\ \A i \in 1..(pos - 1) : threads[i] # NULL

(* Mutant: the number of threads is taken for the index of a free entry of *)
(* a table that starts at 0.                                               *)
AddThreadAtCount(c) ==
    /\ Move(c, "add", "hook")
    /\ threads_mu_free
    /\ threads' = [threads EXCEPT ![num_threads] = c]
    /\ thread_num' = [thread_num EXCEPT ![c] = num_threads]
    /\ num_threads' = num_threads + 1
    /\ UNCHANGED <<library, debug, fatal>>

(* NaClAddThreadMu(), under threads_mu.                                    *)
AddThread(c) ==
    /\ Move(c, "add", "hook")
    /\ threads_mu_free
    /\ \E pos \in 1..(Len(threads) + 1) :
         /\ FirstAvail(pos)
         /\ threads' = IF pos > Len(threads) THEN Append(threads, c)
                                             ELSE [threads EXCEPT ![pos] = c]
         /\ thread_num' = [thread_num EXCEPT ![c] = pos]
    /\ num_threads' = num_threads + 1
    /\ UNCHANGED <<library, debug, fatal>>

(* The thread_create_hook, Target::TrackThread(); then the thread enters   *)
(* the sandbox.                                                            *)
TrackThread(c) ==
    /\ Move(c, "hook", IF c \in HostThreads THEN "main" ELSE "use")
    /\ \/ ~Debugger /\ UNCHANGED tracked
       \/ Debugger /\ mutex_free /\ tracked' = tracked \cup {c}
    /\ UNCHANGED <<table, library, stub, fatal>>

(* NaClSysThreadCreate(), by sandboxed code on some thread.                *)
SysThreadCreate(w) ==
    /\ \E c \in Contexts : pc[c] = "use"
    /\ Move(w, "idle", "add")
    /\ UNCHANGED <<table, library, debug, fatal>>

(* Mutant: the debug stub is not told.                                     *)
ThreadExitNoHook(w) ==
    /\ Move(w, "use", "remove")
    /\ UNCHANGED <<table, library, debug, fatal>>

(* NaClSysThreadExit(): the thread_exit_hook comes first ...               *)
SysThreadExit(w) ==
    /\ Move(w, "use", "exit")
    /\ UNCHANGED <<table, library, debug, fatal>>

IgnoreThread(w) ==
    /\ Move(w, "exit", "remove")
    /\ \/ ~Debugger /\ UNCHANGED tracked
       \/ Debugger /\ mutex_free /\ tracked' = tracked \ {w}
    /\ UNCHANGED <<table, library, stub, fatal>>

(* Mutant: the last entry of the table is cleared.                         *)
RemoveLastThread(w) ==
    /\ Move(w, "remove", "idle")
    /\ threads_mu_free
    /\ num_threads' = num_threads - 1
    /\ threads' = [threads EXCEPT ![Len(threads)] = NULL]
    /\ UNCHANGED <<thread_num, library, debug, fatal>>

(* ... then NaClRemoveThreadMu(), and the context is deleted.              *)
RemoveThread(w) ==
    /\ Move(w, "remove", "idle")
    /\ threads_mu_free
    /\ num_threads' = num_threads - 1
    /\ threads' = [threads EXCEPT ![thread_num[w]] = NULL]
    /\ UNCHANGED <<thread_num, library, debug, fatal>>

(***************************************************************************)
(* The debug stub: Target::Run() takes mutex_ around the handling of an    *)
(* event; threads_mu stays taken from SuspendAllThreads() to               *)
(* ResumeAllThreads(), also if the connection is lost in between.          *)
(***************************************************************************)
StubStep ==
    /\ Running /\ Debugger
    /\ \/ stub = "out" /\ stub' = "in"
       \/ stub = "in" /\ stub' \in {"out", "stopped"}
       \/ stub = "stopped" /\ stub' \in {"in", "left"}
       \/ stub = "left" /\ stub' = "stopped"
    /\ UNCHANGED <<pc, table, library, tracked, fatal>>

Ended == ~Running /\ UNCHANGED vars

GetThreadData(h) ==
    \/ MmapStack(h) \/ LockThreadCreate(h) \/ MakeContext(h) \/ MakeFails(h)
    \/ AddThread(h) \/ TrackThread(h) \/ ThreadMain(h) \/ ConstructThread(h)
    \/ ConstructFails(h) \/ ConstructRaces(h) \/ MapPut(h)
    \/ MapPutOverflow(h)

Next ==
    \/ \E h \in HostThreads :
         MapHit(h) \/ MapStale(h) \/ MapMiss(h) \/ GetThreadData(h) \/ EndCall(h)
    \/ \E w \in Workers :
         \/ SysThreadCreate(w) \/ AddThread(w) \/ TrackThread(w)
         \/ SysThreadExit(w) \/ IgnoreThread(w) \/ RemoveThread(w)
    \/ DestroyDlSandbox \/ StubStep \/ Ended

Spec == Init /\ [][Next]_vars

-----------------------------------------------------------------------------
(***************************************************************************)
(* Properties.                                                             *)
(***************************************************************************)

(* Every host thread gets from getThreadData() the context that was made   *)
(* for it, however many of them come at once: the last entry of the thread *)
(* table is still theirs when constructNaClSandboxThread() reads it.       *)
OwnContext ==
    /\ fatal # "wild"
    /\ \A h \in HostThreads : pc[h] \in {"put", "use"} => threadData[h] = h

(* destroyDlSandbox() deletes every context of the thread table, and none  *)
(* twice.                                                                  *)
DeletesEachOnce ==
    fatal = "destroyed" =>
      \A c \in Contexts :
        deleted[c] = Cardinality({i \in 1..Len(threads) : threads[i] = c})

(* The thread table is right: num_threads counts its entries, a context is *)
(* at its thread_num exactly from NaClAddThreadMu() to                     *)
(* NaClRemoveThreadMu(), so that the checks of the latter do not fail.     *)
InTable(c) == \E i \in 1..Len(threads) : threads[i] = c

TableConsistent ==
    /\ num_threads = Cardinality({i \in 1..Len(threads) : threads[i] # NULL})
    /\ \A i \in 1..Len(threads) :
         threads[i] # NULL => thread_num[threads[i]] = i
    /\ \A w \in Workers : InTable(w) <=> pc[w] \notin {"idle", "add"}

(* The debug stub tracks no context that has left the thread table and     *)
(* may be deleted, and its CHECKs hold: no two threads have one id, and a  *)
(* thread that exits is tracked.                                           *)
DebugStubConsistent ==
    /\ \A c \in tracked : InTable(c)
    /\ \A c \in Contexts : pc[c] = "hook" =>
         \A d \in tracked : thread_num[d] # thread_num[c]
    /\ \A w \in Workers : Debugger /\ pc[w] = "exit" => w \in tracked

(* A host thread never works on a stack whose mmap has failed, the case    *)
(* that the empty branch in getThreadData() calls fatal.                   *)
StackMapped ==
    \A h \in HostThreads : pc[h] \in {"main", "use"} => stack[h]

(* The thread table, the debug stub's threads and all the other variables  *)
(* agree, whichever threads come and go (sel_ldr.c, target.cc).            *)
RegistryConsistent == TypeOK /\ TableConsistent /\ DebugStubConsistent

(* Contexts are made, used and deleted by the thread they are for, once.   *)
ContextsCorrect == OwnContext /\ DeletesEachOnce
=============================================================================
