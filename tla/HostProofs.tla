------------------------------ MODULE HostProofs ------------------------------
(***************************************************************************)
(* Proofs about what the host side of a sandbox shares between its         *)
(* threads.  ThreadRegistry, for any number of threads of the host and of  *)
(* sandboxed code: the thread table and the debug stub's map of threads    *)
(* agree with where the threads are; and, when sandboxed code starts no    *)
(* threads of its own, every host thread gets its own context.  Then the   *)
(* callback slots and the session with GDB, each alone and as MCHost runs  *)
(* it beside the rest.                                                     *)
(***************************************************************************)
EXTENDS MCHost, FiniteSetTheorems, SequenceTheorems, TLAPS

-----------------------------------------------------------------------------
(***************************************************************************)
(* The inductive invariant.  A context is in the thread table unless its   *)
(* thread is absent: not yet added, gone, or never here.  A host thread    *)
(* between two calls is told from one that never came by its entry in the  *)
(* map.                                                                    *)
(***************************************************************************)
HasEntry(c) == \E i \in 1..Len(threadDataMap) : threadDataMap[i].key = c

Absent(c) == \/ pc[c] \in {"mmap", "lock", "make", "add"}
             \/ pc[c] = "idle" /\ ~HasEntry(c)

Occupied == {i \in 1..Len(threads) : threads[i] # NULL}

TableInv ==
    /\ Len(threads) >= 1
    /\ \A i \in 1..Len(threads) :
         threads[i] # NULL => thread_num[threads[i]] = i
    /\ \A c \in Contexts : InTable(c) <=> ~Absent(c)

CountInv == num_threads = Cardinality(Occupied)

MapInv ==
    /\ \A h \in HostThreads : pc[h] = "use" => HasEntry(h)
    /\ \A h \in HostThreads : pc[h] = "put" => threadData[h] # NULL
    /\ \A w \in Workers : pc[w] \in {"idle", "add", "hook", "use", "exit",
                                     "remove"}

DebugInv ==
    /\ \A c \in tracked : /\ ~Absent(c)
                          /\ pc[c] # "hook"
                          /\ c \in Workers => pc[c] # "remove"
    /\ \A w \in Workers : Debugger /\ pc[w] \in {"use", "exit"}
                            => w \in tracked
    /\ ~Debugger => tracked = {}

RInv == TypeOK /\ TableInv /\ CountInv /\ MapInv /\ DebugInv

-----------------------------------------------------------------------------
(* The positions of the table that are in use are finitely many.           *)
LEMMA OccupiedFinite ==
  ASSUME TypeOK
  PROVE  IsFiniteSet(Occupied) /\ Cardinality(Occupied) \in Nat
<1>1. Len(threads) \in Nat
  BY DEF TypeOK
<1>2. IsFiniteSet(1..Len(threads))
  BY <1>1, FS_Interval
<1>3. Occupied \subseteq 1..Len(threads)
  BY DEF Occupied
<1> QED
  BY <1>2, <1>3, FS_Subset, FS_CardinalityType

(* NaClAddThreadMu() puts the context at one position that was not in use  *)
(* and touches no other.                                                   *)
LEMMA AddThreadTable ==
  ASSUME ThreadRegistryAssumption, TypeOK, NEW c \in Contexts, AddThread(c)
  PROVE  \E place \in 1..Len(threads') :
           /\ threads' \in Seq(Contexts \cup {NULL})
           /\ Len(threads') >= Len(threads)
           /\ threads'[place] = c
           /\ thread_num' = [thread_num EXCEPT ![c] = place]
           /\ place \notin Occupied
           /\ \A i \in 1..Len(threads') :
                i # place => i \in 1..Len(threads) /\ threads'[i] = threads[i]
           /\ \A i \in 1..Len(threads) : i \in 1..Len(threads')
           /\ Occupied' = Occupied \cup {place}
<1> DEFINE S == Contexts \cup {NULL}
<1>1. threads \in Seq(S) /\ Len(threads) \in Nat /\ c \in S /\ c # NULL
  BY DEF TypeOK, ThreadRegistryAssumption, Contexts
<1>2. PICK place \in 1..(Len(threads) + 1) :
        /\ FirstAvail(place)
        /\ threads' = IF place > Len(threads)
                      THEN Append(threads, c)
                      ELSE [threads EXCEPT ![place] = c]
        /\ thread_num' = [thread_num EXCEPT ![c] = place]
  BY DEF AddThread
<1>3. place \in Nat /\ place \notin Occupied
  BY <1>1, <1>2 DEF FirstAvail, Occupied
<1>4. CASE place > Len(threads)
  <2>1. threads' = Append(threads, c) /\ place = Len(threads) + 1
    BY <1>1, <1>2, <1>4
  <2>2. threads' \in Seq(S) /\ Len(threads') = place /\ threads'[place] = c
    BY <1>1, <2>1
  <2>3. \A i \in 1..Len(threads) : threads'[i] = threads[i]
    BY <1>1, <2>1
  <2>4. \A i \in 1..Len(threads') : i # place => i \in 1..Len(threads)
    BY <1>1, <2>1, <2>2
  <2>5. Occupied' = Occupied \cup {place}
    BY <1>1, <2>1, <2>2, <2>3, <2>4 DEF Occupied
  <2>6. place \in 1..Len(threads')
    BY <1>1, <2>1, <2>2
  <2> WITNESS place \in 1..Len(threads')
  <2> QED
    BY <1>1, <1>2, <1>3, <2>1, <2>2, <2>3, <2>4, <2>5
<1>5. CASE ~(place > Len(threads))
  <2>1. threads' = [threads EXCEPT ![place] = c] /\ place \in 1..Len(threads)
    BY <1>1, <1>2, <1>5
  <2>2. threads' \in Seq(S) /\ Len(threads') = Len(threads)
    BY <1>1, <2>1
  <2>3. threads'[place] = c
    BY <1>1, <2>1
  <2>4. \A i \in 1..Len(threads) : i # place => threads'[i] = threads[i]
    BY <1>1, <2>1
  <2>5. Occupied' = Occupied \cup {place}
    BY <1>1, <2>1, <2>2, <2>3, <2>4 DEF Occupied
  <2>6. place \in 1..Len(threads')
    BY <1>1, <2>1, <2>2
  <2> WITNESS place \in 1..Len(threads')
  <2> QED
    BY <1>1, <1>2, <1>3, <2>1, <2>2, <2>3, <2>4, <2>5
<1> QED
  BY <1>4, <1>5

(* NaClRemoveThreadMu() empties the position of the context.               *)
LEMMA RemoveThreadTable ==
  ASSUME ThreadRegistryAssumption, RInv, NEW w \in Workers, RemoveThread(w)
  PROVE  LET place == thread_num[w] IN
           /\ place \in 1..Len(threads)
           /\ threads[place] = w
           /\ threads' \in Seq(Contexts \cup {NULL})
           /\ Len(threads') = Len(threads)
           /\ threads'[place] = NULL
           /\ \A i \in 1..Len(threads) : i # place => threads'[i] = threads[i]
           /\ place \in Occupied
           /\ Occupied' = Occupied \ {place}
<1> DEFINE place == thread_num[w]
<1>1. /\ threads \in Seq(Contexts \cup {NULL}) /\ Len(threads) \in Nat
      /\ w \in Contexts /\ w # NULL
      /\ pc[w] = "remove"
      /\ threads' = [threads EXCEPT ![place] = NULL]
  BY DEF RInv, TypeOK, ThreadRegistryAssumption, Contexts, RemoveThread, Move
<1>2. InTable(w)
  BY <1>1 DEF RInv, TableInv, Absent
<1>3. place \in 1..Len(threads) /\ threads[place] = w
  BY <1>1, <1>2 DEF InTable, RInv, TableInv
<1>4. threads' \in Seq(Contexts \cup {NULL}) /\ Len(threads') = Len(threads)
  BY <1>1, <1>3
<1>5. /\ threads'[place] = NULL
      /\ \A i \in 1..Len(threads) : i # place => threads'[i] = threads[i]
  BY <1>1, <1>3
<1>6. place \in Occupied /\ Occupied' = Occupied \ {place}
  BY <1>1, <1>3, <1>4, <1>5 DEF Occupied
<1> QED
  BY <1>3, <1>4, <1>5, <1>6

(* The entries of the map are those of host threads.                       *)
LEMMA EntryType ==
  ASSUME TypeOK, NEW i \in 1..Len(threadDataMap)
  PROVE  threadDataMap[i].key \in HostThreads
         /\ threadDataMap[i].value \in Contexts
<1> DEFINE R == [key : HostThreads, value : Contexts]
<1>1. threadDataMap \in Seq(R)
  BY DEF TypeOK
<1> HIDE DEF R
<1>2. threadDataMap[i] \in R
  BY <1>1
<1> QED
  BY <1>2 DEF R

LEMMA NoWorkerEntry ==
  ASSUME ThreadRegistryAssumption, TypeOK, NEW w \in Workers
  PROVE  ~HasEntry(w)
BY EntryType DEF HasEntry, ThreadRegistryAssumption

(* Map_Put() adds an entry and keeps the others.                           *)
LEMMA WriteEntryMap ==
  ASSUME TypeOK, NEW h \in HostThreads, threadData[h] \in Contexts,
         Len(threadDataMap) < MapArrSize, MapArrSize \in Nat, WriteEntry(h)
  PROVE  /\ threadDataMap' \in Seq([key : HostThreads, value : Contexts])
         /\ Len(threadDataMap') <= MapArrSize
         /\ stale' \subseteq stale
         /\ \A c : HasEntry(c)' <=> HasEntry(c) \/ c = h
<1> DEFINE R == [key : HostThreads, value : Contexts]
           e == [key |-> h, value |-> threadData[h]]
           m == threadDataMap
<1>1. m \in Seq(R) /\ Len(m) \in Nat /\ e \in R /\ m' = Append(m, e)
  BY DEF TypeOK, WriteEntry
<1>2. e.key = h
  OBVIOUS
<1> HIDE DEF R, e
<1>3. m' \in Seq(R) /\ Len(m') = Len(m) + 1
  BY <1>1
<1>4. m'[Len(m) + 1] = e /\ \A i \in 1..Len(m) : m'[i] = m[i]
  BY <1>1
<1>5. \A c : HasEntry(c)' <=> HasEntry(c) \/ c = h
  BY <1>1, <1>2, <1>3, <1>4 DEF HasEntry
<1> QED
  BY <1>1, <1>3, <1>5 DEF R, WriteEntry

-----------------------------------------------------------------------------
LEMMA RegistryInit ==
  ASSUME ThreadRegistryAssumption, Init
  PROVE  RInv
<1>1. PICK t \in HostThreads :
        /\ pc = [c \in Contexts |-> "idle"]
        /\ threads = <<t>>
        /\ num_threads = 1
        /\ thread_num = [c \in Contexts |-> IF c = t THEN 1 ELSE 0]
        /\ threadCreateMutex = NULL
        /\ threadDataMap = <<[key |-> t, value |-> t]>>
        /\ stale \in SUBSET (IF StaleKeys THEN HostThreads \ {t} ELSE {})
        /\ threadData = [h \in HostThreads |-> IF h = t THEN t ELSE NULL]
        /\ stack = [h \in HostThreads |-> h = t]
        /\ tracked = (IF Debugger THEN {t} ELSE {})
        /\ stub = "out"
        /\ deleted = [c \in Contexts |-> 0]
        /\ fatal = "none"
  BY DEF Init
<1>2. t \in Contexts /\ t # NULL /\ t \notin Workers
  BY DEF Contexts, ThreadRegistryAssumption
<1>3. Len(threads) = 1 /\ threads[1] = t
  BY <1>1
<1>4. Len(threadDataMap) = 1 /\ threadDataMap[1].key = t
  BY <1>1
<1>5. \A c \in Contexts : Absent(c) <=> c # t
  BY <1>1, <1>4 DEF Absent, HasEntry
<1>6. TypeOK
  <2>1. threads \in Seq(Contexts \cup {NULL})
    BY <1>1, <1>2
  <2>2. threadDataMap \in Seq([key : HostThreads, value : Contexts])
    BY <1>1, <1>2
  <2>3. stack \in [HostThreads -> BOOLEAN]
    BY <1>1
  <2> QED
    BY <1>1, <1>2, <1>4, <2>1, <2>2, <2>3
    DEF TypeOK, ThreadRegistryAssumption, Contexts
<1>7. TableInv
  BY <1>1, <1>2, <1>3, <1>5 DEF TableInv, InTable
<1>8. CountInv
  <2>1. Occupied = {1}
    BY <1>2, <1>3 DEF Occupied
  <2> QED
    BY <1>1, <2>1, FS_Singleton DEF CountInv
<1>9. MapInv
  BY <1>1, <1>4 DEF MapInv, HasEntry, Contexts
<1>10. DebugInv
  BY <1>1, <1>2, <1>5 DEF DebugInv, Contexts
<1> QED
  BY <1>6, <1>7, <1>8, <1>9, <1>10 DEF RInv

(* A step that leaves the table and the map alone, and moves one thread    *)
(* without making it absent or present, keeps the table right.             *)
LEMMA QuietStep ==
  ASSUME RInv, UNCHANGED <<threads, thread_num, num_threads>>,
         \A c \in Contexts : Absent(c)' <=> Absent(c)
  PROVE  TableInv' /\ CountInv'
BY DEF RInv, TableInv, CountInv, InTable, Occupied

(* Every step keeps the invariant, action by action.                       *)
LEMMA RegistryNext ==
  ASSUME ThreadRegistryAssumption, RInv, [Next]_vars
  PROVE  RInv'
<1> USE DEF ThreadRegistryAssumption, Move, Running, table, library, threadMap,
            debug
<1>1. ASSUME NEW h \in HostThreads, MapHit(h)
      PROVE  RInv'
  <2>1. TypeOK'
    <3>1. PICK i \in EntriesOf(h) :
            threadData' = [threadData EXCEPT ![h] = threadDataMap[i].value]
      BY <1>1 DEF MapHit
    <3>2. threadDataMap[i].value \in Contexts
      BY EntryType DEF RInv, EntriesOf
    <3> QED
      BY <1>1, <3>1, <3>2 DEF RInv, TypeOK, Contexts, MapHit
  <2>2. \A c \in Contexts : Absent(c)' <=> Absent(c)
    BY <1>1
    DEF RInv, TypeOK, Contexts, MapHit, MapInv, Absent, HasEntry, EntriesOf
  <2>3. MapInv'
    BY <1>1 DEF RInv, TypeOK, Contexts, MapHit, MapInv, HasEntry, EntriesOf
  <2>4. DebugInv'
    BY <1>1, <2>2 DEF RInv, TypeOK, Contexts, MapHit, DebugInv
  <2>5. UNCHANGED <<threads, thread_num, num_threads>>
    BY <1>1 DEF MapHit, table
  <2> QED
    BY <2>1, <2>2, <2>3, <2>4, <2>5, QuietStep DEF RInv
<1>2. ASSUME NEW h \in HostThreads, MapMiss(h)
      PROVE  RInv'
  <2>1. TypeOK'
    BY <1>2 DEF RInv, TypeOK, Contexts, MapMiss
  <2>2. \A c \in Contexts : Absent(c)' <=> Absent(c)
    BY <1>2
    DEF RInv, TypeOK, Contexts, MapMiss, MapInv, Absent, HasEntry,
        EntriesOf
  <2>3. MapInv'
    BY <1>2 DEF RInv, TypeOK, Contexts, MapMiss, MapInv, HasEntry, EntriesOf
  <2>4. DebugInv'
    BY <1>2, <2>2 DEF RInv, TypeOK, Contexts, MapMiss, DebugInv
  <2>5. UNCHANGED <<threads, thread_num, num_threads>>
    BY <1>2 DEF MapMiss, table
  <2> QED
    BY <2>1, <2>2, <2>3, <2>4, <2>5, QuietStep DEF RInv
<1>3. ASSUME NEW h \in HostThreads, MmapStack(h)
      PROVE  RInv'
  <2>1. TypeOK'
    <3>1. stack' \in [HostThreads -> BOOLEAN]
      BY <1>3 DEF RInv, TypeOK, MmapStack
    <3> QED
      BY <1>3, <3>1 DEF RInv, TypeOK, Contexts, MmapStack
  <2>2. \A c \in Contexts : Absent(c)' <=> Absent(c)
    BY <1>3 DEF RInv, TypeOK, Contexts, MmapStack, MapInv, Absent, HasEntry
  <2>3. MapInv'
    BY <1>3 DEF RInv, TypeOK, Contexts, MmapStack, MapInv, HasEntry
  <2>4. DebugInv'
    BY <1>3, <2>2 DEF RInv, TypeOK, Contexts, MmapStack, DebugInv
  <2>5. UNCHANGED <<threads, thread_num, num_threads>>
    BY <1>3 DEF MmapStack, table
  <2> QED
    BY <2>1, <2>2, <2>3, <2>4, <2>5, QuietStep DEF RInv
<1>4. ASSUME NEW h \in HostThreads, LockThreadCreate(h)
      PROVE  RInv'
  <2>1. TypeOK'
    BY <1>4 DEF RInv, TypeOK, Contexts, LockThreadCreate
  <2>2. \A c \in Contexts : Absent(c)' <=> Absent(c)
    BY <1>4
    DEF RInv, TypeOK, Contexts, LockThreadCreate, MapInv, Absent, HasEntry
  <2>3. MapInv'
    BY <1>4 DEF RInv, TypeOK, Contexts, LockThreadCreate, MapInv, HasEntry
  <2>4. DebugInv'
    BY <1>4, <2>2 DEF RInv, TypeOK, Contexts, LockThreadCreate, DebugInv
  <2>5. UNCHANGED <<threads, thread_num, num_threads>>
    BY <1>4 DEF LockThreadCreate, table
  <2> QED
    BY <2>1, <2>2, <2>3, <2>4, <2>5, QuietStep DEF RInv
<1>5. ASSUME NEW h \in HostThreads, MakeContext(h)
      PROVE  RInv'
  <2>1. TypeOK'
    BY <1>5 DEF RInv, TypeOK, Contexts, MakeContext
  <2>2. \A c \in Contexts : Absent(c)' <=> Absent(c)
    BY <1>5 DEF RInv, TypeOK, Contexts, MakeContext, MapInv, Absent, HasEntry
  <2>3. MapInv'
    BY <1>5 DEF RInv, TypeOK, Contexts, MakeContext, MapInv, HasEntry
  <2>4. DebugInv'
    BY <1>5, <2>2 DEF RInv, TypeOK, Contexts, MakeContext, DebugInv
  <2>5. UNCHANGED <<threads, thread_num, num_threads>>
    BY <1>5 DEF MakeContext, table
  <2> QED
    BY <2>1, <2>2, <2>3, <2>4, <2>5, QuietStep DEF RInv
<1>6. ASSUME NEW h \in HostThreads, ThreadMain(h)
      PROVE  RInv'
  <2>1. TypeOK'
    BY <1>6 DEF RInv, TypeOK, Contexts, ThreadMain
  <2>2. \A c \in Contexts : Absent(c)' <=> Absent(c)
    BY <1>6 DEF RInv, TypeOK, Contexts, ThreadMain, MapInv, Absent, HasEntry
  <2>3. MapInv'
    BY <1>6 DEF RInv, TypeOK, Contexts, ThreadMain, MapInv, HasEntry
  <2>4. DebugInv'
    BY <1>6, <2>2 DEF RInv, TypeOK, Contexts, ThreadMain, DebugInv
  <2>5. UNCHANGED <<threads, thread_num, num_threads>>
    BY <1>6 DEF ThreadMain, table
  <2> QED
    BY <2>1, <2>2, <2>3, <2>4, <2>5, QuietStep DEF RInv
<1>7. ASSUME NEW h \in HostThreads, ConstructThread(h)
      PROVE  RInv'
  <2>1. TypeOK'
    <3>1. threads[Len(threads)] \in Contexts
      <4>1. threads \in Seq(Contexts \cup {NULL}) /\ Len(threads) >= 1
        BY DEF RInv, TypeOK, TableInv
      <4>2. threads[Len(threads)] \in Contexts \cup {NULL}
        BY <4>1
      <4> QED
        BY <1>7, <4>2 DEF ConstructThread
    <3> QED
      BY <1>7, <3>1 DEF RInv, TypeOK, Contexts, ConstructThread
  <2>2. \A c \in Contexts : Absent(c)' <=> Absent(c)
    BY <1>7
    DEF RInv, TypeOK, Contexts, ConstructThread, MapInv, Absent, HasEntry
  <2>3. MapInv'
    BY <1>7 DEF RInv, TypeOK, Contexts, ConstructThread, MapInv, HasEntry
  <2>4. DebugInv'
    BY <1>7, <2>2 DEF RInv, TypeOK, Contexts, ConstructThread, DebugInv
  <2>5. UNCHANGED <<threads, thread_num, num_threads>>
    BY <1>7 DEF ConstructThread, table
  <2> QED
    BY <2>1, <2>2, <2>3, <2>4, <2>5, QuietStep DEF RInv
<1>8. ASSUME NEW h \in HostThreads, MapPut(h)
      PROVE  RInv'
  <2>1. /\ pc[h] = "put" /\ pc' = [pc EXCEPT ![h] = "use"]
        /\ Len(threadDataMap) < MapArrSize
        /\ WriteEntry(h)
        /\ threadCreateMutex' = NULL
        /\ UNCHANGED <<table, threadData, stack, deleted, debug, fatal>>
    BY <1>8 DEF MapPut, Move
  <2>2. TypeOK /\ threadData[h] \in Contexts
    BY <2>1 DEF RInv, TypeOK, MapInv
  <2>3. /\ threadDataMap' \in Seq([key : HostThreads, value : Contexts])
        /\ Len(threadDataMap') <= MapArrSize
        /\ stale' \subseteq stale
        /\ \A c : HasEntry(c)' <=> HasEntry(c) \/ c = h
    BY <2>1, <2>2, WriteEntryMap
  <2>4. TypeOK'
    BY <2>1, <2>2, <2>3 DEF TypeOK, Contexts, table, debug
  <2>5. \A c \in Contexts : Absent(c)' <=> Absent(c)
    BY <2>1, <2>2, <2>3 DEF TypeOK, Absent, Contexts
  <2>6. MapInv'
    BY <2>1, <2>2, <2>3 DEF RInv, TypeOK, MapInv, Contexts
  <2>7. DebugInv'
    BY <2>1, <2>2, <2>5 DEF RInv, TypeOK, DebugInv, Contexts, debug
  <2>8. UNCHANGED <<threads, thread_num, num_threads>>
    BY <2>1 DEF table
  <2> QED
    BY <2>4, <2>5, <2>6, <2>7, <2>8, QuietStep DEF RInv
<1>9. ASSUME NEW h \in HostThreads, EndCall(h)
      PROVE  RInv'
  <2>1. TypeOK'
    BY <1>9 DEF RInv, TypeOK, Contexts, EndCall
  <2>2. \A c \in Contexts : Absent(c)' <=> Absent(c)
    BY <1>9 DEF RInv, TypeOK, Contexts, EndCall, MapInv, Absent, HasEntry
  <2>3. MapInv'
    BY <1>9 DEF RInv, TypeOK, Contexts, EndCall, MapInv, HasEntry
  <2>4. DebugInv'
    BY <1>9, <2>2 DEF RInv, TypeOK, Contexts, EndCall, DebugInv
  <2>5. UNCHANGED <<threads, thread_num, num_threads>>
    BY <1>9 DEF EndCall, table
  <2> QED
    BY <2>1, <2>2, <2>3, <2>4, <2>5, QuietStep DEF RInv
<1>10. ASSUME NEW w \in Workers, SysThreadCreate(w)
      PROVE  RInv'
  <2>1. TypeOK'
    BY <1>10 DEF RInv, TypeOK, Contexts, SysThreadCreate
  <2>2. \A c \in Contexts : Absent(c)' <=> Absent(c)
    BY <1>10, NoWorkerEntry
    DEF RInv, TypeOK, Contexts, SysThreadCreate, MapInv, Absent, HasEntry
  <2>3. MapInv'
    BY <1>10 DEF RInv, TypeOK, Contexts, SysThreadCreate, MapInv, HasEntry
  <2>4. DebugInv'
    BY <1>10, <2>2 DEF RInv, TypeOK, Contexts, SysThreadCreate, DebugInv
  <2>5. UNCHANGED <<threads, thread_num, num_threads>>
    BY <1>10 DEF SysThreadCreate, table
  <2> QED
    BY <2>1, <2>2, <2>3, <2>4, <2>5, QuietStep DEF RInv
<1>11. ASSUME NEW w \in Workers, SysThreadExit(w)
      PROVE  RInv'
  <2>1. TypeOK'
    BY <1>11 DEF RInv, TypeOK, Contexts, SysThreadExit
  <2>2. \A c \in Contexts : Absent(c)' <=> Absent(c)
    BY <1>11
    DEF RInv, TypeOK, Contexts, SysThreadExit, MapInv, Absent, HasEntry
  <2>3. MapInv'
    BY <1>11 DEF RInv, TypeOK, Contexts, SysThreadExit, MapInv, HasEntry
  <2>4. DebugInv'
    BY <1>11, <2>2 DEF RInv, TypeOK, Contexts, SysThreadExit, DebugInv
  <2>5. UNCHANGED <<threads, thread_num, num_threads>>
    BY <1>11 DEF SysThreadExit, table
  <2> QED
    BY <2>1, <2>2, <2>3, <2>4, <2>5, QuietStep DEF RInv
<1>12. ASSUME NEW w \in Workers, IgnoreThread(w)
      PROVE  RInv'
  <2>1. TypeOK'
    BY <1>12 DEF RInv, TypeOK, Contexts, IgnoreThread
  <2>2. \A c \in Contexts : Absent(c)' <=> Absent(c)
    BY <1>12
    DEF RInv, TypeOK, Contexts, IgnoreThread, MapInv, Absent, HasEntry
  <2>3. MapInv'
    BY <1>12 DEF RInv, TypeOK, Contexts, IgnoreThread, MapInv, HasEntry
  <2>4. DebugInv'
    BY <1>12, <2>2 DEF RInv, TypeOK, Contexts, IgnoreThread, DebugInv
  <2>5. UNCHANGED <<threads, thread_num, num_threads>>
    BY <1>12 DEF IgnoreThread, table
  <2> QED
    BY <2>1, <2>2, <2>3, <2>4, <2>5, QuietStep DEF RInv
<1>13. ASSUME DestroyDlSandbox
      PROVE  RInv'
  <2>1. TypeOK'
    <3> DEFINE Values(c) == {i \in 1..Len(threadDataMap) :
                               threadDataMap[i].value = c}
    <3>1. ASSUME NEW c \in Contexts
          PROVE  Cardinality(Values(c)) \in Nat
      <4>1. IsFiniteSet(1..Len(threadDataMap))
        BY FS_Interval DEF RInv, TypeOK
      <4> QED
        BY <4>1, FS_Subset, FS_CardinalityType
    <3>2. deleted' = [c \in Contexts |-> Cardinality(Values(c))]
      BY <1>13 DEF DestroyDlSandbox
    <3> HIDE DEF Values
    <3>3. deleted' \in [Contexts -> Nat]
      BY <3>1, <3>2
    <3> QED
      BY <1>13, <3>3 DEF RInv, TypeOK, Contexts, DestroyDlSandbox
  <2>2. \A c \in Contexts : Absent(c)' <=> Absent(c)
    BY <1>13
    DEF RInv, TypeOK, Contexts, DestroyDlSandbox, MapInv, Absent, HasEntry
  <2>3. MapInv'
    BY <1>13 DEF RInv, TypeOK, Contexts, DestroyDlSandbox, MapInv, HasEntry
  <2>4. DebugInv'
    BY <1>13, <2>2 DEF RInv, TypeOK, Contexts, DestroyDlSandbox, DebugInv
  <2>5. UNCHANGED <<threads, thread_num, num_threads>>
    BY <1>13 DEF DestroyDlSandbox, table
  <2> QED
    BY <2>1, <2>2, <2>3, <2>4, <2>5, QuietStep DEF RInv
<1>14. ASSUME StubStep
      PROVE  RInv'
  <2>1. TypeOK'
    BY <1>14 DEF RInv, TypeOK, Contexts, StubStep
  <2>2. \A c \in Contexts : Absent(c)' <=> Absent(c)
    BY <1>14 DEF RInv, TypeOK, Contexts, StubStep, MapInv, Absent, HasEntry
  <2>3. MapInv'
    BY <1>14 DEF RInv, TypeOK, Contexts, StubStep, MapInv, HasEntry
  <2>4. DebugInv'
    BY <1>14, <2>2 DEF RInv, TypeOK, Contexts, StubStep, DebugInv
  <2>5. UNCHANGED <<threads, thread_num, num_threads>>
    BY <1>14 DEF StubStep, table
  <2> QED
    BY <2>1, <2>2, <2>3, <2>4, <2>5, QuietStep DEF RInv
<1>15. ASSUME NEW h \in HostThreads,
             \/ MapStale(h) \/ MakeFails(h) \/ ConstructFails(h)
             \/ ConstructRaces(h) \/ MapPutOverflow(h)
      PROVE  RInv'
  <2>1. /\ UNCHANGED <<pc, table, library, debug>>
        /\ fatal' \in {"map", "null", "wild"}
    BY <1>15 DEF MapStale, MakeFails, ConstructFails, ConstructRaces,
                MapPutOverflow
  <2> QED
    BY <2>1 DEF RInv, TypeOK, TableInv, CountInv, MapInv, DebugInv,
                Occupied, InTable, Absent, HasEntry
<1>16. ASSUME NEW c \in Contexts, AddThread(c)
      PROVE  RInv'
  <2> DEFINE Changed(place) ==
        /\ threads' \in Seq(Contexts \cup {NULL})
        /\ Len(threads') >= Len(threads)
        /\ threads'[place] = c
        /\ thread_num' = [thread_num EXCEPT ![c] = place]
        /\ place \notin Occupied
        /\ \A i \in 1..Len(threads') :
             i # place => i \in 1..Len(threads) /\ threads'[i] = threads[i]
        /\ \A i \in 1..Len(threads) : i \in 1..Len(threads')
        /\ Occupied' = Occupied \cup {place}
  <2>1. TypeOK
    BY DEF RInv
  <2>2. PICK place \in 1..Len(threads') : Changed(place)
    BY <1>16, <2>1, AddThreadTable
  <2>3. /\ pc[c] = "add" /\ pc' = [pc EXCEPT ![c] = "hook"]
        /\ num_threads' = num_threads + 1
        /\ UNCHANGED <<library, debug, fatal>>
    BY <1>16 DEF AddThread, Move
  <2>4. Absent(c) /\ ~InTable(c) /\ c # NULL
    BY <2>3 DEF RInv, TableInv, Absent, Contexts
  <2>5. place \in Nat /\ Len(threads) \in Nat /\ Len(threads') \in Nat
    BY <2>1, <2>2 DEF TypeOK
  <2>6. TypeOK'
    BY <2>1, <2>2, <2>3, <2>5
    DEF TypeOK, Contexts, library, threadMap, debug
  <2>7. \A d \in Contexts : Absent(d)' <=> Absent(d) /\ d # c
    BY <2>1, <2>3 DEF TypeOK, Absent, HasEntry, library, threadMap
  <2>8. \A d \in Contexts : InTable(d)' <=> InTable(d) \/ d = c
    <3>1. \A i \in 1..Len(threads) : threads[i] # NULL => i # place
      BY <2>2 DEF Occupied
    <3> QED
      BY <2>2, <2>5, <3>1 DEF InTable, ThreadRegistryAssumption, Contexts
  <2>9. TableInv'
    <3>1. \A d \in Contexts : InTable(d)' <=> ~Absent(d)'
      BY <2>4, <2>7, <2>8 DEF RInv, TableInv
    <3>2. Len(threads') >= 1
      BY <2>2, <2>5 DEF RInv, TableInv
    <3>3. ASSUME NEW i \in 1..Len(threads'), threads'[i] # NULL
          PROVE  thread_num'[threads'[i]] = i
      <4>1. CASE i = place
        BY <2>1, <2>2, <4>1 DEF TypeOK
      <4>2. CASE i # place
        <5>1. i \in 1..Len(threads) /\ threads'[i] = threads[i]
          BY <2>2, <4>2
        <5>2. threads[i] # c /\ threads[i] \in Contexts
          BY <2>1, <2>4, <3>3, <5>1 DEF InTable, TypeOK
        <5>3. thread_num[threads[i]] = i
          BY <3>3, <5>1 DEF RInv, TableInv
        <5> QED
          BY <2>1, <2>2, <5>1, <5>2, <5>3 DEF TypeOK
      <4> QED
        BY <4>1, <4>2
    <3> QED
      BY <3>1, <3>2, <3>3 DEF TableInv
  <2>10. CountInv'
    <3>1. IsFiniteSet(Occupied) /\ Cardinality(Occupied) \in Nat
      BY <2>1, OccupiedFinite
    <3>2. Cardinality(Occupied \cup {place}) = Cardinality(Occupied) + 1
      BY <2>2, <3>1, FS_AddElement
    <3> QED
      BY <2>2, <2>3, <3>2 DEF RInv, CountInv
  <2>11. MapInv'
    BY <2>1, <2>3 DEF RInv, TypeOK, MapInv, HasEntry, Contexts, library,
                      threadMap
  <2>12. DebugInv'
    BY <2>1, <2>3, <2>4, <2>7 DEF RInv, TypeOK, DebugInv, Contexts, debug
  <2> QED
    BY <2>6, <2>9, <2>10, <2>11, <2>12 DEF RInv
<1>17. ASSUME NEW c \in Contexts, TrackThread(c),
             c \in HostThreads \/ c \in Workers
      PROVE  RInv'
  <2>1. /\ pc[c] = "hook"
        /\ pc' = [pc EXCEPT ![c] = IF c \in HostThreads THEN "main"
                                                        ELSE "use"]
        /\ tracked' \in {tracked, tracked \cup {c}}
        /\ Debugger => c \in tracked'
        /\ ~Debugger => tracked' = tracked
        /\ UNCHANGED <<table, library, stub, fatal>>
    BY <1>17 DEF TrackThread, Move
  <2>2. TypeOK'
    BY <2>1 DEF RInv, TypeOK, Contexts, table, library, threadMap
  <2>3. \A d \in Contexts : Absent(d)' <=> Absent(d)
    BY <2>1 DEF RInv, TypeOK, Absent, HasEntry, library, threadMap
  <2>4. MapInv'
    BY <2>1 DEF RInv, TypeOK, MapInv, HasEntry, Contexts, library, threadMap
  <2>5. DebugInv'
    <3>1. ~Absent(c)'
      BY <2>1, <2>3 DEF Absent
    <3> QED
      BY <2>1, <2>3, <3>1 DEF RInv, TypeOK, DebugInv, Contexts
  <2>6. UNCHANGED <<threads, thread_num, num_threads>>
    BY <2>1 DEF table
  <2> QED
    BY <2>2, <2>3, <2>4, <2>5, <2>6, QuietStep DEF RInv
<1>18. ASSUME NEW w \in Workers, RemoveThread(w)
      PROVE  RInv'
  <2> DEFINE place == thread_num[w]
  <2>1. /\ place \in 1..Len(threads)
        /\ threads[place] = w
        /\ threads' \in Seq(Contexts \cup {NULL})
        /\ Len(threads') = Len(threads)
        /\ threads'[place] = NULL
        /\ \A i \in 1..Len(threads) : i # place => threads'[i] = threads[i]
        /\ place \in Occupied
        /\ Occupied' = Occupied \ {place}
    BY <1>18, RemoveThreadTable
  <2>2. /\ pc[w] = "remove" /\ pc' = [pc EXCEPT ![w] = "idle"]
        /\ num_threads' = num_threads - 1
        /\ UNCHANGED <<thread_num, library, debug, fatal>>
    BY <1>18 DEF RemoveThread, Move
  <2>3. TypeOK /\ w \in Contexts /\ w # NULL /\ w \notin HostThreads
    BY DEF RInv, Contexts
  <2>4. IsFiniteSet(Occupied) /\ Cardinality(Occupied) \in Nat
    BY <2>3, OccupiedFinite
  <2>5. IsFiniteSet(Occupied') /\ Cardinality(Occupied') \in Nat
    BY <2>1, <2>4, FS_RemoveElement, FS_CardinalityType
  <2>6. CountInv'
    <3>1. Cardinality(Occupied \ {place}) = Cardinality(Occupied) - 1
      BY <2>1, <2>4, FS_RemoveElement
    <3> QED
      BY <2>1, <2>2, <3>1 DEF RInv, CountInv
  <2>7. TypeOK'
    <3>1. num_threads' \in Nat
      BY <2>5, <2>6 DEF CountInv
    <3> QED
      BY <2>1, <2>2, <2>3, <3>1 DEF TypeOK, library, threadMap, debug
  <2>8. ~HasEntry(w)
    BY <2>3, NoWorkerEntry
  <2>9. \A d \in Contexts : Absent(d)' <=> Absent(d) \/ d = w
    BY <2>2, <2>3, <2>8 DEF TypeOK, Absent, HasEntry, library, threadMap
  <2>10. \A d \in Contexts : InTable(d)' <=> InTable(d) /\ d # w
    <3>1. \A i \in 1..Len(threads) : threads[i] = w => i = place
      BY <2>3 DEF RInv, TableInv
    <3> QED
      BY <2>1, <2>3, <3>1 DEF InTable, ThreadRegistryAssumption, Contexts
  <2>11. TableInv'
    <3>1. \A d \in Contexts : InTable(d)' <=> ~Absent(d)'
      BY <2>9, <2>10 DEF RInv, TableInv
    <3>2. \A i \in 1..Len(threads') :
            threads'[i] # NULL => thread_num'[threads'[i]] = i
      BY <2>1, <2>2 DEF RInv, TableInv
    <3> QED
      BY <2>1, <3>1, <3>2 DEF RInv, TableInv
  <2>12. MapInv'
    BY <2>2, <2>3 DEF RInv, TypeOK, MapInv, HasEntry, Contexts, library,
                      threadMap
  <2>13. DebugInv'
    BY <2>2, <2>3, <2>9 DEF RInv, TypeOK, DebugInv, Contexts, debug
  <2> QED
    BY <2>6, <2>7, <2>11, <2>12, <2>13 DEF RInv
<1>19. ASSUME UNCHANGED vars
      PROVE  RInv'
  BY <1>19 DEF vars, RInv, TypeOK, TableInv, CountInv, MapInv, DebugInv,
     Occupied, InTable, Absent, HasEntry, Contexts
<1> QED
  BY <1>1, <1>2, <1>3, <1>4, <1>5, <1>6, <1>7, <1>8, <1>9, <1>10,
     <1>11, <1>12, <1>13, <1>14, <1>15, <1>16, <1>17, <1>18, <1>19
  DEF Next, GetThreadData, Ended, Contexts

(* The invariant holds in every reachable state: the thread table is where *)
(* the threads say they are, and the debug stub's map is within it.        *)
THEOREM RegistryInvariant == Spec => []RInv
<1>1. Init => RInv
  BY RegistryInit, ThreadRegistryAssumption
<1>2. RInv /\ [Next]_vars => RInv'
  BY RegistryNext, ThreadRegistryAssumption
<1> QED
  BY <1>1, <1>2, PTL DEF Spec

(* Type correctness of the registry; with it, Map_Put() never writes past  *)
(* the end of its array and num_threads never wraps below zero.            *)
THEOREM RegistryTypeCorrect == Spec => []TypeOK
<1>1. RInv => TypeOK
  BY DEF RInv
<1> QED
  BY <1>1, RegistryInvariant, PTL

(* NaClAddThreadMu() and NaClRemoveThreadMu() keep num_threads, the table  *)
(* and thread_num consistent, and a thread of sandboxed code is in the     *)
(* table from the one to the other.                                        *)
THEOREM TableAlwaysConsistent == Spec => []TableConsistent
<1>1. ASSUME RInv PROVE TableConsistent
  <2>1. num_threads = Cardinality({i \in 1..Len(threads) : threads[i] # NULL})
    BY <1>1 DEF RInv, CountInv, Occupied
  <2>2. \A w \in Workers : ~HasEntry(w) /\ w \in Contexts
    BY <1>1, NoWorkerEntry, ThreadRegistryAssumption DEF RInv, Contexts
  <2>3. \A w \in Workers : InTable(w) <=> pc[w] \notin {"idle", "add"}
    BY <1>1, <2>2 DEF RInv, TableInv, MapInv, Absent
  <2> QED
    BY <1>1, <2>1, <2>3 DEF TableConsistent, RInv, TableInv
<1> QED
  BY <1>1, RegistryInvariant, PTL

(* The debug stub's thread_create_hook and thread_exit_hook never fail     *)
(* their CHECKs, and the stub never keeps a context that has left the      *)
(* thread table, for any number of threads.                                *)
THEOREM DebugStubAlwaysConsistent == Spec => []DebugStubConsistent
<1>1. ASSUME RInv PROVE DebugStubConsistent
  <2>1. tracked \subseteq Contexts /\ Workers \subseteq Contexts
    BY <1>1 DEF RInv, TypeOK, Contexts
  <2>2. \A c \in tracked : InTable(c)
    BY <1>1, <2>1 DEF RInv, TableInv, DebugInv
  <2>3. ASSUME NEW c \in Contexts, pc[c] = "hook", NEW d \in tracked
        PROVE  thread_num[d] # thread_num[c]
    <3>1. c # d /\ InTable(c) /\ InTable(d)
      BY <1>1, <2>2, <2>3 DEF RInv, TableInv, DebugInv, Absent
    <3>2. PICK i \in 1..Len(threads) : threads[i] = c
      BY <3>1 DEF InTable
    <3>3. PICK j \in 1..Len(threads) : threads[j] = d
      BY <3>1 DEF InTable
    <3>4. c # NULL /\ d # NULL
      BY <2>1, ThreadRegistryAssumption DEF Contexts
    <3>5. thread_num[c] = i /\ thread_num[d] = j
      BY <1>1, <3>2, <3>3, <3>4 DEF RInv, TableInv
    <3> QED
      BY <3>1, <3>2, <3>3, <3>5
  <2>4. \A w \in Workers : Debugger /\ pc[w] = "exit" => w \in tracked
    BY <1>1 DEF RInv, DebugInv
  <2> QED
    BY <2>2, <2>3, <2>4 DEF DebugStubConsistent
<1> QED
  BY <1>1, RegistryInvariant, PTL

-----------------------------------------------------------------------------
(***************************************************************************)
(* When sandboxed code starts no threads and the memory of the map holds   *)
(* no thread's id, threadCreateMutex alone keeps the last entry of the     *)
(* table the caller's own from NaClAddThreadMu() to                        *)
(* constructNaClSandboxThread().                                           *)
(***************************************************************************)
Creating == {"make", "add", "hook", "main", "construct", "put"}

OwnInv ==
    /\ \A w \in Workers : pc[w] = "idle"
    /\ stale = {}
    /\ fatal # "wild"
    /\ \A i \in 1..Len(threads) : threads[i] # NULL
    /\ \A h \in HostThreads : pc[h] \in Creating => threadCreateMutex = h
    /\ \A h \in HostThreads : pc[h] \in {"hook", "main", "construct"}
                                => threads[Len(threads)] = h
    /\ \A h \in HostThreads : pc[h] \in {"put", "use"} => threadData[h] = h

EntriesInv ==
    /\ \A i \in 1..Len(threadDataMap) :
         threadDataMap[i].value = threadDataMap[i].key
    /\ \A i, j \in 1..Len(threadDataMap) :
         threadDataMap[i].key = threadDataMap[j].key => i = j
    /\ \A h \in HostThreads :
         pc[h] \in Creating \cup {"mmap", "lock"} => ~HasEntry(h)

(* At most one position with a property: there is one exactly if there is  *)
(* any.                                                                    *)
LEMMA OneOrNone ==
  ASSUME NEW A, NEW B,
         \A i, j \in A : i = j, \A i, j \in B : i = j,
         A = {} <=> B = {}
  PROVE  Cardinality(A) = Cardinality(B)
<1>1. CASE A = {}
  BY <1>1
<1>2. CASE A # {}
  <2>1. PICK a \in A : TRUE
    BY <1>2
  <2>2. PICK b \in B : TRUE
    BY <1>2
  <2>3. A = {a} /\ B = {b}
    BY <2>1, <2>2
  <2> QED
    BY <2>3, FS_Singleton
<1> QED
  BY <1>1, <1>2

(* It holds when the sandbox has just been made.                           *)
LEMMA OwnInit ==
  ASSUME ThreadRegistryAssumption, stale = {}, Init
  PROVE  OwnInv /\ EntriesInv /\ DeletesEachOnce
<1>1. PICK t \in HostThreads :
        /\ pc = [c \in Contexts |-> "idle"]
        /\ threads = <<t>>
        /\ threadDataMap = <<[key |-> t, value |-> t]>>
        /\ fatal = "none"
  BY DEF Init
<1>2. /\ Len(threads) = 1 /\ threads[1] = t
      /\ Len(threadDataMap) = 1
      /\ threadDataMap[1].key = t /\ threadDataMap[1].value = t
  BY <1>1
<1>3. t # NULL
  BY DEF ThreadRegistryAssumption
<1>4. OwnInv
  BY <1>1, <1>2, <1>3 DEF OwnInv, Creating, Contexts
<1>5. EntriesInv
  BY <1>1, <1>2 DEF EntriesInv, Creating, Contexts
<1> QED
  BY <1>1, <1>4, <1>5 DEF DeletesEachOnce

(* A new map holds no thread ids if it is said to hold none.               *)
LEMMA NoStaleKeys ==
  ASSUME ~StaleKeys, Init
  PROVE  stale = {}
BY DEF Init

(* Every step but that of a thread that sandboxed code starts keeps it,    *)
(* given what the registry's invariant says.                               *)
LEMMA OwnNext ==
  ASSUME ThreadRegistryAssumption, HostsAlone, RInv,
         OwnInv, EntriesInv, DeletesEachOnce, [Next]_vars
  PROVE  OwnInv' /\ EntriesInv' /\ DeletesEachOnce'
<1> USE DEF Move, Running, table, library, threadMap, debug
<1>1. /\ TypeOK /\ HostThreads \subseteq Contexts /\ NULL \notin HostThreads
      /\ Len(threads) \in Nat /\ Len(threads) >= 1
      /\ Len(threadDataMap) \in Nat
      /\ \A w \in Workers : pc[w] = "idle" /\ pc'[w] = "idle"
  BY DEF RInv, TypeOK, TableInv, Contexts, ThreadRegistryAssumption, OwnInv,
         HostsAlone
<1>2. ASSUME NEW h \in HostThreads, MapHit(h)
      PROVE  OwnInv' /\ EntriesInv' /\ DeletesEachOnce'
  <2>1. OwnInv'
    <3>1. PICK i \in EntriesOf(h) :
            threadData' = [threadData EXCEPT ![h] = threadDataMap[i].value]
      BY <1>2 DEF MapHit
    <3>2. threadDataMap[i].value = h
      BY <3>1 DEF EntriesInv, EntriesOf
    <3> QED
      BY <1>1, <1>2, <3>1, <3>2 DEF TypeOK, MapHit, OwnInv, Creating
  <2>2. EntriesInv'
    BY <1>1, <1>2
    DEF TypeOK, MapHit, EntriesInv, EntriesOf, HasEntry, Creating
  <2>3. DeletesEachOnce'
    BY <1>2 DEF MapHit, DeletesEachOnce
  <2> QED
    BY <2>1, <2>2, <2>3
<1>3. ASSUME NEW h \in HostThreads, MapMiss(h)
      PROVE  OwnInv' /\ EntriesInv' /\ DeletesEachOnce'
  <2>1. OwnInv'
    BY <1>1, <1>3 DEF TypeOK, MapMiss, OwnInv, Creating
  <2>2. EntriesInv'
    BY <1>1, <1>3
    DEF TypeOK, MapMiss, EntriesInv, EntriesOf, HasEntry, Creating
  <2>3. DeletesEachOnce'
    BY <1>3 DEF MapMiss, DeletesEachOnce
  <2> QED
    BY <2>1, <2>2, <2>3
<1>4. ASSUME NEW h \in HostThreads, MmapStack(h)
      PROVE  OwnInv' /\ EntriesInv' /\ DeletesEachOnce'
  <2>1. OwnInv'
    BY <1>1, <1>4 DEF TypeOK, MmapStack, OwnInv, Creating
  <2>2. EntriesInv'
    BY <1>1, <1>4 DEF TypeOK, MmapStack, EntriesInv, HasEntry, Creating
  <2>3. DeletesEachOnce'
    BY <1>4 DEF MmapStack, DeletesEachOnce
  <2> QED
    BY <2>1, <2>2, <2>3
<1>5. ASSUME NEW h \in HostThreads, LockThreadCreate(h)
      PROVE  OwnInv' /\ EntriesInv' /\ DeletesEachOnce'
  <2>1. OwnInv'
    BY <1>1, <1>5 DEF TypeOK, LockThreadCreate, OwnInv, Creating
  <2>2. EntriesInv'
    BY <1>1, <1>5
    DEF TypeOK, LockThreadCreate, EntriesInv, HasEntry, Creating
  <2>3. DeletesEachOnce'
    BY <1>5 DEF LockThreadCreate, DeletesEachOnce
  <2> QED
    BY <2>1, <2>2, <2>3
<1>6. ASSUME NEW h \in HostThreads, MakeContext(h)
      PROVE  OwnInv' /\ EntriesInv' /\ DeletesEachOnce'
  <2>1. OwnInv'
    BY <1>1, <1>6 DEF TypeOK, MakeContext, OwnInv, Creating
  <2>2. EntriesInv'
    BY <1>1, <1>6 DEF TypeOK, MakeContext, EntriesInv, HasEntry, Creating
  <2>3. DeletesEachOnce'
    BY <1>6 DEF MakeContext, DeletesEachOnce
  <2> QED
    BY <2>1, <2>2, <2>3
<1>7. ASSUME NEW h \in HostThreads, MakeFails(h)
      PROVE  OwnInv' /\ EntriesInv' /\ DeletesEachOnce'
  <2>1. OwnInv'
    BY <1>1, <1>7 DEF TypeOK, MakeFails, OwnInv, Creating
  <2>2. EntriesInv'
    BY <1>1, <1>7 DEF TypeOK, MakeFails, EntriesInv, HasEntry, Creating
  <2>3. DeletesEachOnce'
    BY <1>7 DEF MakeFails, DeletesEachOnce
  <2> QED
    BY <2>1, <2>2, <2>3
<1>8. ASSUME NEW h \in HostThreads, TrackThread(h)
      PROVE  OwnInv' /\ EntriesInv' /\ DeletesEachOnce'
  <2>1. OwnInv'
    BY <1>1, <1>8 DEF TypeOK, TrackThread, OwnInv, Creating
  <2>2. EntriesInv'
    BY <1>1, <1>8 DEF TypeOK, TrackThread, EntriesInv, HasEntry, Creating
  <2>3. DeletesEachOnce'
    BY <1>8 DEF TrackThread, DeletesEachOnce
  <2> QED
    BY <2>1, <2>2, <2>3
<1>9. ASSUME NEW h \in HostThreads, ThreadMain(h)
      PROVE  OwnInv' /\ EntriesInv' /\ DeletesEachOnce'
  <2>1. OwnInv'
    BY <1>1, <1>9 DEF TypeOK, ThreadMain, OwnInv, Creating
  <2>2. EntriesInv'
    BY <1>1, <1>9 DEF TypeOK, ThreadMain, EntriesInv, HasEntry, Creating
  <2>3. DeletesEachOnce'
    BY <1>9 DEF ThreadMain, DeletesEachOnce
  <2> QED
    BY <2>1, <2>2, <2>3
<1>10. ASSUME NEW h \in HostThreads, ConstructThread(h)
      PROVE  OwnInv' /\ EntriesInv' /\ DeletesEachOnce'
  <2>1. OwnInv'
    BY <1>1, <1>10 DEF TypeOK, ConstructThread, OwnInv, Creating
  <2>2. EntriesInv'
    BY <1>1, <1>10
    DEF TypeOK, ConstructThread, EntriesInv, HasEntry, Creating
  <2>3. DeletesEachOnce'
    BY <1>10 DEF ConstructThread, DeletesEachOnce
  <2> QED
    BY <2>1, <2>2, <2>3
<1>11. ASSUME NEW h \in HostThreads, ConstructFails(h)
      PROVE  OwnInv' /\ EntriesInv' /\ DeletesEachOnce'
  <2>1. OwnInv'
    BY <1>1, <1>11 DEF TypeOK, ConstructFails, OwnInv, Creating
  <2>2. EntriesInv'
    BY <1>1, <1>11 DEF TypeOK, ConstructFails, EntriesInv, HasEntry, Creating
  <2>3. DeletesEachOnce'
    BY <1>11 DEF ConstructFails, DeletesEachOnce
  <2> QED
    BY <2>1, <2>2, <2>3
<1>12. ASSUME NEW h \in HostThreads, MapPutOverflow(h)
      PROVE  OwnInv' /\ EntriesInv' /\ DeletesEachOnce'
  <2>1. OwnInv'
    BY <1>1, <1>12 DEF TypeOK, MapPutOverflow, OwnInv, Creating
  <2>2. EntriesInv'
    BY <1>1, <1>12 DEF TypeOK, MapPutOverflow, EntriesInv, HasEntry, Creating
  <2>3. DeletesEachOnce'
    BY <1>12 DEF MapPutOverflow, DeletesEachOnce
  <2> QED
    BY <2>1, <2>2, <2>3
<1>13. ASSUME NEW h \in HostThreads, EndCall(h)
      PROVE  OwnInv' /\ EntriesInv' /\ DeletesEachOnce'
  <2>1. OwnInv'
    BY <1>1, <1>13 DEF TypeOK, EndCall, OwnInv, Creating
  <2>2. EntriesInv'
    BY <1>1, <1>13 DEF TypeOK, EndCall, EntriesInv, HasEntry, Creating
  <2>3. DeletesEachOnce'
    BY <1>13 DEF EndCall, DeletesEachOnce
  <2> QED
    BY <2>1, <2>2, <2>3
<1>14. ASSUME NEW h \in HostThreads, MapStale(h) \/ ConstructRaces(h)
      PROVE  FALSE
  BY <1>14 DEF MapStale, ConstructRaces, OwnInv
<1>15. ASSUME NEW h \in HostThreads, AddThread(h)
      PROVE  OwnInv' /\ EntriesInv' /\ DeletesEachOnce'
  <2>1. /\ Running /\ pc[h] = "add" /\ pc' = [pc EXCEPT ![h] = "hook"]
        /\ UNCHANGED <<library, debug, fatal>>
    BY <1>15 DEF AddThread, Move
  <2>2. threads' = Append(threads, h)
    <3>1. PICK place \in 1..(Len(threads) + 1) :
            /\ FirstAvail(place)
            /\ threads' = IF place > Len(threads)
                           THEN Append(threads, h)
                           ELSE [threads EXCEPT ![place] = h]
      BY <1>15 DEF AddThread
    <3> QED
      BY <1>1, <3>1 DEF FirstAvail, OwnInv
  <2>3. /\ Len(threads') = Len(threads) + 1 /\ threads'[Len(threads')] = h
        /\ \A i \in 1..Len(threads) : threads'[i] = threads[i]
    BY <1>1, <2>2 DEF TypeOK
  <2>4. OwnInv'
    <3>1. \A i \in 1..Len(threads') : threads'[i] # NULL
      BY <1>1, <2>3 DEF OwnInv
    <3>2. \A g \in HostThreads : pc[g] \in Creating => g = h
      BY <2>1 DEF OwnInv, Creating
    <3> QED
      BY <1>1, <2>1, <2>3, <3>1, <3>2
      DEF TypeOK, OwnInv, Creating, library, threadMap
  <2>5. EntriesInv'
    BY <1>1, <2>1 DEF TypeOK, EntriesInv, HasEntry, Creating, library,
                      threadMap
  <2> QED
    BY <2>1, <2>4, <2>5 DEF Running, DeletesEachOnce
<1>16. ASSUME NEW h \in HostThreads, MapPut(h)
      PROVE  OwnInv' /\ EntriesInv' /\ DeletesEachOnce'
  <2>1. /\ Running /\ pc[h] = "put" /\ pc' = [pc EXCEPT ![h] = "use"]
        /\ Len(threadDataMap) < MapArrSize
        /\ WriteEntry(h)
        /\ threadCreateMutex' = NULL
        /\ UNCHANGED <<table, threadData, stack, deleted, debug, fatal>>
    BY <1>16 DEF MapPut, Move
  <2>2. threadData[h] = h /\ ~HasEntry(h) /\ stale = {}
    BY <2>1 DEF OwnInv, EntriesInv, Creating
  <2>3. \A g \in HostThreads : pc[g] \in Creating => g = h
    BY <2>1 DEF OwnInv, Creating
  <2>4. OwnInv'
    BY <1>1, <2>1, <2>2, <2>3 DEF TypeOK, OwnInv, Creating, WriteEntry, table
  <2>5. EntriesInv'
    <3> DEFINE m == threadDataMap
               e == [key |-> h, value |-> h]
               R == [key : HostThreads, value : Contexts]
    <3>1. m \in Seq(R) /\ m' = Append(m, e) /\ e \in R
      BY <1>1, <2>1, <2>2 DEF TypeOK, WriteEntry
    <3>2. e.key = h /\ e.value = h
      OBVIOUS
    <3> HIDE DEF R, e
    <3>3. /\ Len(m') = Len(m) + 1 /\ m'[Len(m) + 1] = e
          /\ \A i \in 1..Len(m) : m'[i] = m[i] /\ m[i].key # h
      BY <1>1, <2>2, <3>1 DEF HasEntry
    <3>4. \A i \in 1..Len(m') : i \in 1..Len(m) \/ i = Len(m) + 1
      BY <1>1, <3>3
    <3>5. \A i \in 1..Len(m') : m'[i].value = m'[i].key
      BY <3>2, <3>3, <3>4 DEF EntriesInv
    <3>6. \A i, j \in 1..Len(m') : m'[i].key = m'[j].key => i = j
      BY <3>2, <3>3, <3>4 DEF EntriesInv
    <3>7. \A c : HasEntry(c)' => HasEntry(c) \/ c = h
      BY <3>2, <3>3, <3>4 DEF HasEntry
    <3>8. pc'[h] = "use" /\ \A g \in HostThreads : g # h => pc'[g] = pc[g]
      BY <1>1, <2>1 DEF TypeOK
    <3> QED
      BY <3>5, <3>6, <3>7, <3>8 DEF EntriesInv, Creating
  <2> QED
    BY <2>1, <2>4, <2>5 DEF Running, DeletesEachOnce
<1>17. ASSUME DestroyDlSandbox
      PROVE  OwnInv' /\ EntriesInv' /\ DeletesEachOnce'
  <2>1. OwnInv' /\ EntriesInv'
    BY <1>17 DEF DestroyDlSandbox, OwnInv, EntriesInv, HasEntry, table,
                 threadMap
  <2>2. DeletesEachOnce'
    <3> DEFINE M(c) == {i \in 1..Len(threadDataMap) :
                          threadDataMap[i].value = c}
               T(c) == {i \in 1..Len(threads) : threads[i] = c}
    <3>1. ASSUME NEW c \in Contexts PROVE Cardinality(M(c)) = Cardinality(T(c))
      <4>1. \A i, j \in M(c) : i = j
        BY DEF EntriesInv
      <4>2. \A i, j \in T(c) : i = j
        BY <1>1, ThreadRegistryAssumption DEF RInv, TableInv, Contexts
      <4>3. M(c) = {} <=> ~HasEntry(c)
        BY DEF HasEntry, EntriesInv
      <4>4. T(c) = {} <=> ~InTable(c)
        BY DEF InTable
      <4>5. InTable(c) <=> HasEntry(c)
        BY <1>17 DEF DestroyDlSandbox, RInv, TableInv, Absent
      <4> HIDE DEF M, T
      <4> QED
        BY <4>1, <4>2, <4>3, <4>4, <4>5, OneOrNone
    <3>2. /\ deleted' = [c \in Contexts |-> Cardinality(M(c))]
          /\ threads' = threads
      BY <1>17 DEF DestroyDlSandbox, table
    <3> QED
      BY <3>1, <3>2 DEF DeletesEachOnce
  <2> QED
    BY <2>1, <2>2
<1>18. ASSUME StubStep \/ UNCHANGED vars
      PROVE  OwnInv' /\ EntriesInv' /\ DeletesEachOnce'
  <2>1. UNCHANGED <<pc, threads, threadCreateMutex, threadDataMap, stale,
                    threadData, deleted, fatal>>
    BY <1>18 DEF StubStep, vars, table, library, threadMap
  <2> QED
    BY <2>1 DEF OwnInv, EntriesInv, HasEntry, DeletesEachOnce
<1>19. ASSUME NEW w \in Workers,
              \/ SysThreadCreate(w) \/ AddThread(w) \/ TrackThread(w)
              \/ SysThreadExit(w) \/ IgnoreThread(w) \/ RemoveThread(w)
       PROVE  FALSE
  <2>1. /\ pc \in [Contexts -> {"idle", "mmap", "lock", "make", "add", "hook",
                               "main", "construct", "put", "use", "exit",
                               "remove"}]
        /\ w \in Contexts /\ w \notin HostThreads
    BY <1>1 DEF TypeOK, Contexts, ThreadRegistryAssumption
  <2> QED
    BY <1>1, <1>19, <2>1 DEF SysThreadCreate, AddThread, TrackThread,
                             SysThreadExit, IgnoreThread, RemoveThread
<1> QED
  BY <1>2, <1>3, <1>4, <1>5, <1>6, <1>7, <1>8, <1>9, <1>10,
     <1>11, <1>12, <1>13, <1>14, <1>15, <1>16, <1>17, <1>18, <1>19
  DEF Next, GetThreadData, Ended

(* However many host threads enter the sandbox at once, getThreadData()    *)
(* gives each of them the context made for it, provided sandboxed code     *)
(* starts no threads of its own and the unwritten map holds no thread ids. *)
THEOREM EachThreadGetsItsOwnContext ==
  ASSUME Workers = {}, ~StaleKeys
  PROVE  Spec => []OwnContext
<1>1. Init => OwnInv /\ EntriesInv /\ DeletesEachOnce
  BY OwnInit, NoStaleKeys, ThreadRegistryAssumption
<1>2. /\ RInv /\ [Next]_vars
      /\ OwnInv /\ EntriesInv /\ DeletesEachOnce
      => (OwnInv /\ EntriesInv /\ DeletesEachOnce)'
  BY OwnNext, ThreadRegistryAssumption DEF HostsAlone
<1>3. OwnInv => OwnContext
  BY DEF OwnInv, OwnContext
<1> QED
  BY <1>1, <1>2, <1>3, RegistryInvariant, PTL DEF Spec

(* Under the same conditions destroyDlSandbox() deletes each context of    *)
(* the thread table exactly once.                                          *)
THEOREM DestroyDeletesEachOnce ==
  ASSUME Workers = {}, ~StaleKeys
  PROVE  Spec => []DeletesEachOnce
<1>1. Init => OwnInv /\ EntriesInv /\ DeletesEachOnce
  BY OwnInit, NoStaleKeys, ThreadRegistryAssumption
<1>2. /\ RInv /\ [Next]_vars
      /\ OwnInv /\ EntriesInv /\ DeletesEachOnce
      => (OwnInv /\ EntriesInv /\ DeletesEachOnce)'
  BY OwnNext, ThreadRegistryAssumption DEF HostsAlone
<1> QED
  BY <1>1, <1>2, RegistryInvariant, PTL DEF Spec

(* The thread table, its count, every thread_num and the threads that the  *)
(* debug stub tracks stay together, whichever threads come and go          *)
(* (NaClAddThreadMu, NaClRemoveThreadMu and the hooks of target.cc).       *)
THEOREM RegistryAlwaysConsistent == Spec => []RegistryConsistent
<1>1. TypeOK /\ TableConsistent /\ DebugStubConsistent => RegistryConsistent
  BY DEF RegistryConsistent
<1> QED
  BY <1>1, RegistryTypeCorrect, TableAlwaysConsistent,
     DebugStubAlwaysConsistent, PTL

(* If sandboxed code starts no threads and no memory of a new map looks    *)
(* like a thread id, getThreadData() gives every host thread the context   *)
(* made for it, and destroyDlSandbox() deletes each context once.          *)
THEOREM ContextsAlwaysCorrect ==
  ASSUME Workers = {}, ~StaleKeys
  PROVE  Spec => []ContextsCorrect
<1>1. OwnContext /\ DeletesEachOnce => ContextsCorrect
  BY DEF ContextsCorrect
<1>2. Spec => []OwnContext
  BY EachThreadGetsItsOwnContext
<1>3. Spec => []DeletesEachOnce
  BY DestroyDeletesEachOnce
<1> QED
  BY <1>1, <1>2, <1>3, PTL

-----------------------------------------------------------------------------
(* The thread table beside the other things that the host shares, as       *)
(* module MCHost runs it: when the threads of the host are alone, and when *)
(* sandboxed code starts threads as well, table, count and tracked threads *)
(* stay together (sel_ldr.c, nacl_app_thread.c, target.cc).                *)
THEOREM RegistryConsistentInSystem == HostSideSpec => []RegistryConsistent
<1>1. HostSideInit => Init
  BY DEF HostSideInit
<1>2. [HostSideNext]_hostSideVars => [Next]_vars
  BY DEF HostSideNext, hostSideVars
<1>3. HostSideSpec => Spec
  BY <1>1, <1>2, PTL DEF HostSideSpec, Spec
<1> QED
  BY <1>3, RegistryAlwaysConsistent, PTL

(* The contexts as module MCHost runs them (dyn_ldr_lib.c): unless         *)
(* sandboxed code starts threads, getThreadData() gives every host thread  *)
(* the context made for it, and destroyDlSandbox() deletes each once.      *)
THEOREM ContextsCorrectInSystem == HostSideSpec => []HostContextsCorrect
<1> DEFINE AloneInv == OwnInv /\ EntriesInv /\ DeletesEachOnce
           Alone == subject # "crew" => AloneInv
<1>1. HostSideInit => RInv /\ Alone
  BY RegistryInit, OwnInit, ThreadRegistryAssumption DEF HostSideInit
<1>2. RInv /\ Alone /\ [HostSideNext]_hostSideVars => RInv' /\ Alone'
  <2> SUFFICES ASSUME RInv, Alone, [HostSideNext]_hostSideVars
               PROVE  RInv' /\ Alone'
    OBVIOUS
  <2>1. [Next]_vars /\ subject' = subject
    BY DEF HostSideNext, hostSideVars
  <2>2. RInv'
    BY <2>1, RegistryNext, ThreadRegistryAssumption
  <2>3. subject # "crew" => HostsAlone
    BY DEF HostSideNext, hostSideVars, vars, HostsAlone
  <2>4. subject # "crew" => AloneInv'
    BY <2>1, <2>3, OwnNext, ThreadRegistryAssumption
  <2> QED
    BY <2>1, <2>2, <2>4
<1>3. Alone => HostContextsCorrect
  BY DEF HostContextsCorrect, ContextsCorrect, OwnInv, OwnContext
<1> QED
  BY <1>1, <1>2, <1>3, PTL DEF HostSideSpec

-----------------------------------------------------------------------------
(***************************************************************************)
(* The callback slots, for any threads, callbacks and number of slots.     *)
(*                                                                         *)
(* RacingInv holds however slot operations overlap: each slot in use is    *)
(* accounted for, and a call runs through a registration that is still     *)
(* live.  SerialInv is what only holds if the host runs one operation at a *)
(* time: the slots of the live registrations hold just their function and  *)
(* state, and no operation touches them; so the three reads of             *)
(* NaClSysCallback see one registration.                                   *)
(***************************************************************************)

(* A wrapper is called through a registration that stays live meanwhile.   *)
ViaLive == \A g \in Guests : sys[g].pc # "idle" => sys[g].via \in live

(* What a call has read of its slot is what was registered there.          *)
SysOK ==
    \A g \in Guests :
        /\ sys[g].pc \in {"load_state", "run"} => sys[g].func = sys[g].via.fn
        /\ sys[g].pc = "run" => sys[g].state = sys[g].via.fn

(* An operation that stores has a function and a slot that exists.         *)
OpsOK ==
    \A h \in CrewHosts :
        /\ op[h].pc \in {"scan", "store_state", "clear", "clear_state"}
              => op[h].fn # NULL
        /\ op[h].pc \in {"store_state", "clear", "clear_state"}
              => op[h].slot \in Slots!Slot

SlotBusy(h) == op[h].pc # "idle"

OneAtATime == \A h, k \in CrewHosts : SlotBusy(h) /\ SlotBusy(k) => h = k

(* A live registration has its slot to itself, and the operation under way *)
(* is about another slot, which is half written or half cleared.           *)
SlotsExact ==
    /\ \A r \in live : /\ callbackSlot[r.slot] = r.fn
                       /\ callbackSlotState[r.slot] = r.fn
    /\ \A h \in CrewHosts, r \in live :
          op[h].pc \in {"register", "store_state", "clear", "clear_state"}
             => r.slot # op[h].slot
    /\ \A h \in CrewHosts :
         /\ op[h].pc = "clear_state" => callbackSlot[op[h].slot] = NULL
         /\ op[h].pc = "store_state" => callbackSlot[op[h].slot] = op[h].fn

RacingInv == Slots!TypeOK /\ OpsOK /\ ViaLive /\ Slots!NoSlotLeak

SerialInv == SysOK /\ OneAtATime /\ SlotsExact /\ Slots!NoCallbackMissing

SlotsInv == RacingInv /\ (serialised => SerialInv)

-----------------------------------------------------------------------------
(* What an idle thread shows.                                              *)
LEMMA NoneBusy == Slots!NoOp.pc = "idle" /\ Slots!NoOp.fn = NULL
  BY DEF Slots!NoOp

(* createDlSandbox leaves every slot empty and nobody busy.                *)
LEMMA SlotsInitially ==
    ASSUME Slots!CallbackSlotsAssumption
    PROVE  Slots!Init => SlotsInv
<1> SUFFICES ASSUME Slots!Init PROVE SlotsInv
  OBVIOUS
<1>1. Slots!NoOp \in Slots!Op /\ Slots!NoOp.pc = "idle" /\ Slots!NoOp.fn = NULL
  BY DEF Slots!Op, Slots!NoOp, Slots!CallbackSlotsAssumption
<1>2. Slots!NoSys \in Slots!Sys /\ Slots!NoSys.pc = "idle"
  BY DEF Slots!Sys, Slots!NoSys
<1>3. Slots!TypeOK
  BY <1>1, <1>2 DEF Slots!Init, Slots!TypeOK, Slots!Slot
<1>4. OpsOK /\ ViaLive /\ Slots!NoSlotLeak
  BY <1>1, <1>2 DEF Slots!Init, OpsOK, ViaLive, Slots!NoSlotLeak
<1>5. SysOK /\ OneAtATime /\ SlotsExact /\ Slots!NoCallbackMissing
  BY <1>1, <1>2 DEF Slots!Init, SysOK, OneAtATime, SlotBusy, SlotsExact,
                    Slots!NoCallbackMissing
<1>6. QED
  BY <1>3, <1>4, <1>5 DEF RacingInv, SerialInv, SlotsInv

(* Every step keeps the types and gives an operation that stores a         *)
(* function and a slot.                                                    *)
LEMMA SlotsTypeStep ==
    ASSUME Slots!CallbackSlotsAssumption, Slots!TypeOK, OpsOK, ViaLive,
           Slots!Next
    PROVE  Slots!TypeOK' /\ OpsOK'
<1>0. serialised' = serialised /\ Slots!NoOp \in Slots!Op
      /\ Slots!NoOp.pc = "idle" /\ Slots!NoOp.fn = NULL
  BY DEF Slots!Next, Slots!Op, Slots!NoOp, Slots!CallbackSlotsAssumption
<1> USE <1>0 DEF Slots!CallbackSlotsAssumption, Slots!Slot, Slots!LastSlot
<1>1. ASSUME NEW h \in CrewHosts, NEW o \in Slots!Op, Slots!Set(h, o), 
         o.pc \in {"scan", "store_state", "clear", "clear_state"}
              => o.fn # NULL,
         o.pc \in {"store_state", "clear", "clear_state"}
              => o.slot \in Slots!Slot
      PROVE op' \in [CrewHosts -> Slots!Op] /\ OpsOK'
  BY <1>1 DEF Slots!Set, Slots!TypeOK, OpsOK
<1>2. ASSUME NEW h \in CrewHosts,
             Slots!HostStep(h) PROVE Slots!TypeOK' /\ OpsOK'
  <2>0. op[h] \in Slots!Op
    BY DEF Slots!TypeOK
  <2>1. ASSUME NEW f \in Callbacks, Slots!SandboxCallback(h, f)
        PROVE  Slots!TypeOK' /\ OpsOK'
    <3>1. [Slots!NoOp EXCEPT !.pc = "scan", !.fn = f, !.scanned = TRUE]
             \in Slots!Op
      BY <1>0 DEF Slots!Op
    <3>2. /\ [Slots!NoOp EXCEPT !.pc = "scan", !.fn = f,
                         !.scanned = TRUE].fn = f
          /\ [Slots!NoOp EXCEPT !.pc = "scan", !.fn = f,
                         !.scanned = TRUE].pc = "scan"
      BY <1>0 DEF Slots!Op
    <3>3. QED
      BY <1>1, <2>1, <3>1, <3>2 DEF Slots!SandboxCallback, Slots!TypeOK
  <2>2. CASE Slots!ScanFree(h)
    <3>1. /\ [op[h] EXCEPT !.pc = "register"] \in Slots!Op
          /\ [op[h] EXCEPT !.slot = @ + 1] \in Slots!Op
          /\ [op[h] EXCEPT !.slot = @ + 1].pc = "scan"
          /\ [op[h] EXCEPT !.slot = @ + 1].fn = op[h].fn
          /\ [op[h] EXCEPT !.pc = "register"].pc = "register"
      BY <2>0, <2>2 DEF Slots!ScanFree, Slots!Op
    <3>2. QED
      BY <1>1, <2>2, <3>1 DEF Slots!ScanFree, Slots!TypeOK, OpsOK
  <2>3. CASE Slots!ScanExhausted(h)
    BY <2>3 DEF Slots!ScanExhausted, Slots!End, Slots!TypeOK, OpsOK
  <2>4. ASSUME NEW f \in Callbacks \cup {NULL}, NEW i \in 0 .. SlotCount,
         NEW float \in BOOLEAN, Slots!RegisterAt(h, f, i, float)
        PROVE Slots!TypeOK' /\ OpsOK'
    <3>1. [pc |-> "register", fn |-> f, slot |-> i,
               float |-> float, scanned |-> FALSE] \in Slots!Op
      BY DEF Slots!Op
    <3>2. QED
      BY <1>1, <2>4, <3>1 DEF Slots!RegisterAt, Slots!TypeOK
  <2>5. CASE Slots!RegisterNothing(h)
    BY <1>1, <1>0, <2>5 DEF Slots!RegisterNothing, Slots!TypeOK
  <2>6. CASE Slots!RegisterAbort(h)
    BY <2>6 DEF Slots!RegisterAbort, Slots!End, Slots!TypeOK, OpsOK
  <2>7. CASE Slots!StoreCallback(h)
    <3>1. [op[h] EXCEPT !.pc = "store_state"] \in Slots!Op
      BY <2>0 DEF Slots!Op
    <3>2. op[h].fn \in Callbacks /\ op[h].slot \in Slots!Slot
      BY <2>0, <2>7 DEF Slots!StoreCallback, Slots!Op
    <3>3. QED
      BY <1>1, <2>0, <2>7, <3>1, <3>2
         DEF Slots!StoreCallback, Slots!TypeOK, Slots!Op
  <2>8. CASE Slots!StoreState(h)
    <3>2. op[h].fn \in Callbacks /\ op[h].slot \in Slots!Slot
      BY <2>0, <2>8 DEF Slots!StoreState, Slots!Op, OpsOK
    <3>3. QED
      BY <1>0, <1>1, <2>8, <3>2
         DEF Slots!StoreState, Slots!TypeOK, Slots!Registration
  <2>9. ASSUME NEW r \in live,
               Slots!Unregister(h, r) PROVE Slots!TypeOK' /\ OpsOK'
    <3>1. r \in Slots!Registration
      BY DEF Slots!TypeOK
    <3>5. r.fn \in Callbacks /\ r.slot \in 0 .. SlotCount
      BY <3>1 DEF Slots!Registration
    <3>2. [Slots!NoOp EXCEPT !.pc = "clear", !.fn = r.fn, !.slot = r.slot]
             \in Slots!Op
      BY <1>0, <3>5 DEF Slots!Op
    <3>4. /\ [Slots!NoOp EXCEPT !.pc = "clear", !.fn = r.fn,
                         !.slot = r.slot].fn = r.fn
          /\ [Slots!NoOp EXCEPT !.pc = "clear", !.fn = r.fn,
                         !.slot = r.slot].fn = r.fn
          /\ [Slots!NoOp EXCEPT !.pc = "clear", !.fn = r.fn,
                         !.slot = r.slot].slot = r.slot
      BY <1>0 DEF Slots!Op
    <3>3. QED
      BY <1>1, <2>9, <3>1, <3>2, <3>4
         DEF Slots!Unregister, Slots!TypeOK, Slots!Registration
  <2>10. CASE Slots!ClearCallback(h)
    BY <1>1, <2>0, <2>10 DEF Slots!ClearCallback, Slots!TypeOK, Slots!Op, OpsOK
  <2>11. CASE Slots!ClearState(h)
    <3>1. op[h].slot \in Slots!Slot
      BY <2>11 DEF Slots!ClearState, OpsOK
    <3>2. QED
      BY <1>0, <1>1, <2>11, <3>1 DEF Slots!ClearState, Slots!TypeOK
  <2>12. QED
    BY <1>2, <2>1, <2>2, <2>3, <2>4, <2>5, <2>6, <2>7, <2>8, <2>9, <2>10,
       <2>11 DEF Slots!HostStep
<1>3. ASSUME NEW g \in Guests, Slots!GuestStep(g) PROVE Slots!TypeOK' /\ OpsOK'
  <2>0. sys[g] \in Slots!Sys
    BY DEF Slots!TypeOK
  <2>1. CASE Slots!CheckFails(g)
    BY <2>1 DEF Slots!CheckFails, Slots!End, Slots!TypeOK, OpsOK
  <2>2. ASSUME NEW s \in Slots!Sys,
               Slots!Update(g, s) PROVE Slots!TypeOK' /\ OpsOK'
    BY <2>2 DEF Slots!Update, Slots!TypeOK, OpsOK
  <2>3. ASSUME NEW r \in live,
               Slots!CallWrapper(g, r) PROVE Slots!TypeOK' /\ OpsOK'
    BY <2>2, <2>3 DEF Slots!CallWrapper, Slots!Sys, Slots!NoSys, Slots!TypeOK
  <2>4. CASE Slots!CheckSlot(g) \/ Slots!WrapperReturn(g)
    BY <2>0, <2>2, <2>4
       DEF Slots!CheckSlot, Slots!WrapperReturn, Slots!Sys, Slots!NoSys
  <2>5. CASE Slots!LoadCallback(g)
    <3>1. callbackSlot[sys[g].via.slot] \in Callbacks \cup {NULL}
      BY <2>5 DEF Slots!LoadCallback, ViaLive, Slots!TypeOK, Slots!Registration
    <3>2. QED
      BY <2>0, <2>2, <2>5, <3>1 DEF Slots!LoadCallback, Slots!Sys
  <2>6. CASE Slots!LoadState(g)
    <3>1. callbackSlotState[sys[g].via.slot] \in Callbacks \cup {NULL}
      BY <2>6 DEF Slots!LoadState, ViaLive, Slots!TypeOK, Slots!Registration
    <3>2. QED
      BY <2>0, <2>2, <2>6, <3>1 DEF Slots!LoadState, Slots!Sys
  <2>7. CASE Slots!SysReturn(g)
    BY <2>0, <2>2, <2>7 DEF Slots!SysReturn, Slots!Sys
  <2>8. QED
    BY <1>3, <2>1, <2>3, <2>4, <2>5, <2>6, <2>7 DEF Slots!GuestStep
<1>4. QED
  BY <1>2, <1>3 DEF Slots!Next

-----------------------------------------------------------------------------
(* Whatever overlaps, a slot in use is accounted for.                      *)
LEMMA RacingStep ==
    ASSUME Slots!CallbackSlotsAssumption, RacingInv, Slots!Next
    PROVE  RacingInv'
<1> USE DEF RacingInv
<1>1. ViaLive'
  <2>1. ASSUME NEW h \in CrewHosts, Slots!HostStep(h) PROVE ViaLive'
    <3>1. CASE \E r \in live : Slots!Unregister(h, r)
      BY <3>1 DEF Slots!Unregister, ViaLive
    <3>2. CASE Slots!StoreState(h)
      BY <3>2 DEF Slots!StoreState, ViaLive
    <3>3. CASE UNCHANGED <<live, sys>>
      BY <3>3 DEF ViaLive
    <3>4. QED
      BY <2>1, <3>1, <3>2, <3>3
         DEF Slots!HostStep, Slots!SandboxCallback, Slots!ScanFree,
             Slots!ScanExhausted, Slots!End, Slots!RegisterAt,
             Slots!RegisterNothing, Slots!RegisterAbort, Slots!StoreCallback,
             Slots!ClearCallback, Slots!ClearState
  <2>2. ASSUME NEW g \in Guests, Slots!GuestStep(g) PROVE ViaLive'
    <3>1. sys[g] \in Slots!Sys
      BY DEF Slots!TypeOK
    <3>2. ASSUME NEW s, Slots!Update(g, s), s.pc # "idle" => s.via \in live
          PROVE  ViaLive'
      BY <3>2 DEF Slots!Update, ViaLive, Slots!TypeOK
    <3>3. CASE \E r \in live : Slots!CallWrapper(g, r)
      BY <3>2, <3>3 DEF Slots!CallWrapper, Slots!NoSys
    <3>4. CASE Slots!CheckFails(g)
      BY <3>4 DEF Slots!CheckFails, Slots!End, ViaLive
    <3>5. CASE Slots!CheckSlot(g)
      BY <3>1, <3>2, <3>5 DEF Slots!CheckSlot, ViaLive, Slots!Sys
    <3>6. CASE Slots!LoadCallback(g)
      BY <3>1, <3>2, <3>6 DEF Slots!LoadCallback, ViaLive, Slots!Sys
    <3>7. CASE Slots!LoadState(g)
      BY <3>1, <3>2, <3>7 DEF Slots!LoadState, ViaLive, Slots!Sys
    <3>8. CASE Slots!SysReturn(g)
      BY <3>1, <3>2, <3>8 DEF Slots!SysReturn, ViaLive, Slots!Sys
    <3>9. CASE Slots!WrapperReturn(g)
      BY <3>2, <3>9 DEF Slots!WrapperReturn, Slots!NoSys
    <3>10. QED
      BY <2>2, <3>3, <3>4, <3>5, <3>6, <3>7, <3>8, <3>9 DEF Slots!GuestStep
  <2>3. QED
    BY <2>1, <2>2 DEF Slots!Next
<1>2. Slots!NoSlotLeak'
  <2>1. ASSUME NEW h \in CrewHosts, Slots!HostStep(h) PROVE Slots!NoSlotLeak'
    <3>0. op[h] \in Slots!Op
      BY DEF Slots!TypeOK
    <3>1. CASE \E f \in Callbacks : Slots!SandboxCallback(h, f)
      BY <3>1
         DEF Slots!SandboxCallback, Slots!MayStart, Slots!Set,
             Slots!NoSlotLeak, Slots!TypeOK
    <3>2. CASE Slots!ScanFree(h)
      BY <3>0, <3>2
         DEF Slots!ScanFree, Slots!Set, Slots!NoSlotLeak, Slots!TypeOK
    <3>3. CASE Slots!ScanExhausted(h) \/ Slots!RegisterAbort(h)
      BY <3>3
         DEF Slots!ScanExhausted, Slots!RegisterAbort, Slots!End,
             Slots!NoSlotLeak
    <3>4. CASE \E f \in Callbacks \cup {NULL}, i \in 0 .. SlotCount,
                  float \in BOOLEAN : Slots!RegisterAt(h, f, i, float)
      <4>1. op[h].pc = "idle" /\ UNCHANGED <<callbackSlot, live>>
            /\ \A k \in CrewHosts : k # h => op'[k] = op[k]
        BY <3>4 DEF Slots!RegisterAt, Slots!MayStart, Slots!Set, Slots!TypeOK
      <4>2. QED
        BY <4>1 DEF Slots!NoSlotLeak
    <3>5. CASE Slots!RegisterNothing(h)
      BY <3>5
         DEF Slots!RegisterNothing, Slots!Set, Slots!NoSlotLeak, Slots!TypeOK
    <3>6. CASE Slots!StoreCallback(h)
      BY <3>0, <3>6
         DEF Slots!StoreCallback, Slots!Set, Slots!NoSlotLeak, Slots!TypeOK,
             Slots!Op
    <3>7. CASE Slots!StoreState(h)
      BY <3>7 DEF Slots!StoreState, Slots!Set, Slots!NoSlotLeak, Slots!TypeOK
    <3>8. CASE \E r \in live : Slots!Unregister(h, r)
      <4> PICK r \in live : Slots!Unregister(h, r)
        BY <3>8
      <4>1. /\ op'[h].pc = "clear" /\ op'[h].fn = r.fn /\ op'[h].slot = r.slot
            /\ \A k \in CrewHosts : k # h => op'[k] = op[k]
        BY DEF Slots!Unregister, Slots!Set, Slots!TypeOK, Slots!NoOp
      <4>2. /\ op[h].pc = "idle"
            /\ live' = live \ {r}
            /\ callbackSlot' = callbackSlot
        BY DEF Slots!Unregister, Slots!MayStart
      <4>3. \A i \in Slots!Slot : [slot |-> i, fn |-> callbackSlot[i]] = r
                              => r.slot = i /\ r.fn = callbackSlot[i]
        OBVIOUS
      <4>4. QED
        BY <4>1, <4>2, <4>3 DEF Slots!NoSlotLeak
    <3>9. CASE Slots!ClearCallback(h)
      BY <3>0, <3>9
         DEF Slots!ClearCallback, Slots!Set, Slots!NoSlotLeak, Slots!TypeOK,
             Slots!Op
    <3>10. CASE Slots!ClearState(h)
      BY <3>10 DEF Slots!ClearState, Slots!Set, Slots!NoSlotLeak, Slots!TypeOK
    <3>11. QED
      BY <2>1, <3>1, <3>2, <3>3, <3>4, <3>5, <3>6, <3>7, <3>8, <3>9,
         <3>10 DEF Slots!HostStep
  <2>2. ASSUME NEW g \in Guests, Slots!GuestStep(g) PROVE Slots!NoSlotLeak'
    <3>1. UNCHANGED <<callbackSlot, op, live>>
      BY <2>2
         DEF Slots!GuestStep, Slots!End, Slots!Update, Slots!CallWrapper,
             Slots!CheckSlot, Slots!CheckFails, Slots!LoadCallback,
             Slots!LoadState, Slots!SysReturn, Slots!WrapperReturn
    <3>2. QED
      BY <3>1 DEF Slots!NoSlotLeak
  <2>3. QED
    BY <2>1, <2>2 DEF Slots!Next
<1>3. QED
  BY <1>1, <1>2, SlotsTypeStep

-----------------------------------------------------------------------------
(* One slot operation at a time: a live registration keeps its slot.       *)
LEMMA SerialStep ==
    ASSUME Slots!CallbackSlotsAssumption, serialised, RacingInv, SerialInv,
           Slots!Next
    PROVE  SerialInv'
<1> USE DEF SerialInv, RacingInv
<1>0. RacingInv'
  BY RacingStep
<1>1. ASSUME NEW h \in CrewHosts,
             Slots!HostStep(h) PROVE SysOK' /\ Slots!NoCallbackMissing'
  <2>1. CASE Slots!StoreCallback(h)
    <3>1. \A g \in Guests :
            sys[g].pc # "idle" =>
              callbackSlot'[sys[g].via.slot] = callbackSlot[sys[g].via.slot]
      BY <2>1 DEF Slots!StoreCallback, SlotsExact, ViaLive, Slots!TypeOK
    <3>2. QED
      BY <2>1 DEF Slots!StoreCallback, SysOK, Slots!NoCallbackMissing
  <2>2. QED
    BY <1>1, <2>1
       DEF Slots!HostStep, SysOK, Slots!NoCallbackMissing,
           Slots!SandboxCallback, Slots!ScanFree, Slots!ScanExhausted,
           Slots!End, Slots!RegisterAt, Slots!RegisterNothing,
           Slots!RegisterAbort, Slots!StoreState, Slots!Unregister,
           Slots!ClearCallback, Slots!ClearState
<1>2. ASSUME NEW h \in CrewHosts, Slots!HostStep(h) PROVE OneAtATime'
  <2>1. \A k \in CrewHosts : k # h => op'[k] = op[k]
    BY <1>1, <1>2
       DEF Slots!HostStep, Slots!Set, Slots!TypeOK, Slots!SandboxCallback,
           Slots!ScanFree, Slots!ScanExhausted, Slots!End, Slots!RegisterAt,
           Slots!RegisterNothing, Slots!RegisterAbort, Slots!StoreCallback,
           Slots!StoreState, Slots!Unregister, Slots!ClearCallback,
           Slots!ClearState
  <2>2. \A k \in CrewHosts :
           k # h /\ SlotBusy(k) => ~SlotBusy(h) /\ op'[h] = op[h]
    BY <1>2
       DEF OneAtATime, SlotBusy, Slots!HostStep, Slots!MayStart,
           Slots!SandboxCallback, Slots!ScanFree, Slots!ScanExhausted,
           Slots!End, Slots!RegisterAt, Slots!RegisterNothing,
           Slots!RegisterAbort, Slots!StoreCallback, Slots!StoreState,
           Slots!Unregister, Slots!ClearCallback, Slots!ClearState
  <2>3. QED
    BY <2>1, <2>2 DEF OneAtATime, SlotBusy
<1>3. ASSUME NEW h \in CrewHosts, Slots!HostStep(h) PROVE SlotsExact'
  <2>0. op[h] \in Slots!Op
    BY DEF Slots!TypeOK
  <2>1. CASE \E f \in Callbacks : Slots!SandboxCallback(h, f)
    <3>1. /\ op'[h].pc = "scan"
          /\ UNCHANGED <<callbackSlot, callbackSlotState, live>>
          /\ \A k \in CrewHosts : k # h => op'[k] = op[k]
      BY <2>1 DEF Slots!SandboxCallback, Slots!Set, Slots!TypeOK, Slots!NoOp
    <3>2. QED
      BY <3>1 DEF SlotsExact
  <2>2. CASE Slots!ScanFree(h)
    <3>1. \A r \in live : callbackSlot[r.slot] # NULL
      BY DEF SlotsExact, Slots!TypeOK, Slots!Registration,
             Slots!CallbackSlotsAssumption
    <3>2. QED
      BY <2>0, <2>2, <3>1
         DEF Slots!ScanFree, Slots!Set, SlotsExact, Slots!TypeOK, Slots!Op
  <2>3. CASE Slots!ScanExhausted(h) \/ Slots!RegisterAbort(h)
    BY <2>3 DEF Slots!ScanExhausted, Slots!RegisterAbort, Slots!End, SlotsExact
  <2>4. ASSUME NEW f \in Callbacks \cup {NULL}, NEW i \in 0 .. SlotCount,
         NEW float \in BOOLEAN, Slots!RegisterAt(h, f, i, float)
        PROVE SlotsExact'
    BY <2>4 DEF Slots!RegisterAt, Slots!Set, SlotsExact, Slots!TypeOK
  <2>5. CASE Slots!RegisterNothing(h)
    BY NoneBusy, <2>5
       DEF Slots!RegisterNothing, Slots!Set, SlotsExact, Slots!TypeOK
  <2>6. CASE Slots!StoreCallback(h)
    <3>1. \A k \in CrewHosts : k # h => op[k].pc = "idle" /\ op'[k] = op[k]
      BY <2>6
         DEF Slots!StoreCallback, Slots!Set, Slots!TypeOK, OneAtATime, SlotBusy
    <3>2. /\ op'[h].pc = "store_state" /\ op'[h].fn = op[h].fn
          /\ op'[h].slot = op[h].slot
      BY <2>0, <2>6 DEF Slots!StoreCallback, Slots!Set, Slots!TypeOK, Slots!Op
    <3>5. op[h].slot \in Slots!Slot
      BY <2>0, <2>6
         DEF Slots!StoreCallback, Slots!Op, Slots!Slot,
             Slots!CallbackSlotsAssumption
    <3>3. /\ callbackSlot'[op[h].slot] = op[h].fn
          /\ \A r \in live : callbackSlot'[r.slot] = callbackSlot[r.slot]
      BY <2>6, <3>2, <3>5 DEF Slots!StoreCallback, SlotsExact, Slots!TypeOK
    <3>4. QED
      BY <2>6, <3>1, <3>2, <3>3 DEF Slots!StoreCallback, SlotsExact
  <2>7. CASE Slots!StoreState(h)
    BY NoneBusy, <2>0, <2>7
       DEF Slots!StoreState, Slots!Set, SlotsExact, Slots!TypeOK, Slots!Op, 
       OneAtATime, SlotBusy, Slots!Slot, OpsOK
  <2>8. ASSUME NEW r \in live, Slots!Unregister(h, r) PROVE SlotsExact'
      <4>1. /\ op'[h].pc = "clear" /\ op'[h].fn = r.fn /\ op'[h].slot = r.slot
            /\ \A k \in CrewHosts : k # h => op'[k] = op[k]
        BY <2>8 DEF Slots!Unregister, Slots!Set, Slots!TypeOK, Slots!NoOp
      <4>2. /\ op[h].pc = "idle"
            /\ live' = live \ {r}
            /\ UNCHANGED <<callbackSlot, callbackSlotState>>
        BY <2>8 DEF Slots!Unregister, Slots!MayStart
      <4>3. \A q \in live : q.slot = r.slot => q = r
        BY DEF SlotsExact, Slots!TypeOK, Slots!Registration
      <4>4. QED
        BY <4>1, <4>2, <4>3 DEF SlotsExact
  <2>9. CASE Slots!ClearCallback(h)
    BY <2>0, <2>9
       DEF Slots!ClearCallback, Slots!Set, SlotsExact, Slots!TypeOK, Slots!Op,
           OneAtATime, 
       SlotBusy, OpsOK
  <2>10. CASE Slots!ClearState(h)
    BY NoneBusy, <2>0, <2>10
       DEF Slots!ClearState, Slots!Set, SlotsExact, Slots!TypeOK, Slots!Op, 
       OneAtATime, SlotBusy, OpsOK
  <2>11. QED
    BY <1>3, <2>1, <2>2, <2>3, <2>4, <2>5, <2>6, <2>7, <2>8, <2>9,
       <2>10 DEF Slots!HostStep
<1>4. ASSUME NEW g \in Guests, Slots!GuestStep(g) PROVE SerialInv'
  <2>0. /\ sys[g] \in Slots!Sys
        /\ sys[g].pc # "idle" =>
             /\ sys[g].via \in live
             /\ callbackSlot[sys[g].via.slot] = sys[g].via.fn
             /\ callbackSlotState[sys[g].via.slot] = sys[g].via.fn
             /\ sys[g].via.fn # NULL
    BY DEF Slots!TypeOK, ViaLive, SlotsExact, Slots!Registration,
           Slots!CallbackSlotsAssumption
  <2>1. SysOK' /\ Slots!NoCallbackMissing'
    <3>1. CASE Slots!CheckFails(g)
      BY <2>0, <3>1 DEF Slots!CheckFails
    <3>2. ASSUME NEW s, Slots!Update(g, s), 
              s.pc \in {"load_state", "run"} => s.func = s.via.fn,
              s.pc = "run" => s.state = s.via.fn
          PROVE SysOK' /\ Slots!NoCallbackMissing'
      BY <3>2 DEF Slots!Update, SysOK, Slots!NoCallbackMissing, Slots!TypeOK
    <3>3. CASE \E r \in live : Slots!CallWrapper(g, r)
      BY <3>2, <3>3 DEF Slots!CallWrapper, Slots!NoSys
    <3>5. CASE Slots!CheckSlot(g)
      BY <2>0, <3>2, <3>5 DEF Slots!CheckSlot, Slots!Sys
    <3>6. CASE Slots!LoadCallback(g)
      BY <2>0, <3>2, <3>6 DEF Slots!LoadCallback, Slots!Sys
    <3>7. CASE Slots!LoadState(g)
      BY <2>0, <3>2, <3>7 DEF Slots!LoadState, Slots!Sys, SysOK
    <3>8. CASE Slots!SysReturn(g)
      BY <2>0, <3>2, <3>8 DEF Slots!SysReturn, Slots!Sys
    <3>9. CASE Slots!WrapperReturn(g)
      BY <3>2, <3>9 DEF Slots!WrapperReturn, Slots!NoSys
    <3>10. QED
      BY <1>4, <3>1, <3>3, <3>5, <3>6, <3>7, <3>8, <3>9 DEF Slots!GuestStep
  <2>2. UNCHANGED <<callbackSlot, callbackSlotState, op, live>>
    BY <1>4
       DEF Slots!GuestStep, Slots!End, Slots!Update, Slots!CallWrapper,
           Slots!CheckSlot, Slots!CheckFails, Slots!LoadCallback,
           Slots!LoadState, Slots!SysReturn, Slots!WrapperReturn
  <2>3. OneAtATime' /\ SlotsExact'
    BY <2>2 DEF OneAtATime, SlotBusy, SlotsExact
  <2>4. QED
    BY <1>0, <2>1, <2>3
<1>5. QED
  BY <1>0, <1>1, <1>2, <1>3, <1>4 DEF Slots!Next

-----------------------------------------------------------------------------
(* SlotsInv says what sandboxed code and the host rely on.                 *)
LEMMA SerialSuffices ==
    ASSUME Slots!CallbackSlotsAssumption
    PROVE  RacingInv /\ SerialInv =>
             /\ Slots!CallbackReachesOwner
             /\ Slots!NoCallbackMissing
             /\ Slots!SlotsAccounted
<1> SUFFICES ASSUME RacingInv, SerialInv
             PROVE  /\ Slots!CallbackReachesOwner
                    /\ Slots!NoCallbackMissing
                    /\ Slots!SlotsAccounted
  OBVIOUS
<1> USE DEF SerialInv, RacingInv
<1>1. Slots!CallbackReachesOwner
  BY DEF Slots!CallbackReachesOwner, SysOK
<1>2. \A q, r \in live : q.slot = r.slot => q = r
  BY DEF SlotsExact, Slots!TypeOK, Slots!Registration
<1>3. (\A h \in CrewHosts : op[h].pc = "idle") =>
        \A i \in Slots!Slot : callbackSlot[i] # NULL <=>
                             \E r \in live : r.slot = i
  <2>1. ASSUME NEW r \in live PROVE callbackSlot[r.slot] # NULL
    BY DEF SlotsExact, Slots!TypeOK, Slots!Registration,
           Slots!CallbackSlotsAssumption
  <2>2. ASSUME \A h \in CrewHosts : op[h].pc = "idle",
               NEW i \in Slots!Slot, callbackSlot[i] # NULL
        PROVE \E r \in live : r.slot = i
    <3>1. [slot |-> i, fn |-> callbackSlot[i]] \in live
      BY <2>2 DEF Slots!NoSlotLeak
    <3>2. QED
      BY <3>1
  <2>3. QED
    BY <2>1, <2>2
<1>4. QED
  BY <1>1, <1>2, <1>3 DEF Slots!SlotsAccounted

(* The invariant is inductive.                                             *)
LEMMA SlotsInvariantStep ==
    ASSUME Slots!CallbackSlotsAssumption
    PROVE  SlotsInv /\ [Slots!Next]_(Slots!vars) => SlotsInv'
<1>1. SlotsInv /\ UNCHANGED Slots!vars => SlotsInv'
  BY DEF Slots!vars, SlotsInv, RacingInv, Slots!TypeOK, OpsOK, ViaLive,
         Slots!NoSlotLeak, SerialInv, SysOK, OneAtATime, SlotBusy, SlotsExact,
         Slots!NoCallbackMissing
<1>2. ASSUME SlotsInv, Slots!Next PROVE SlotsInv'
  <2>1. serialised' = serialised /\ RacingInv'
    BY <1>2, RacingStep DEF SlotsInv, Slots!Next
  <2>2. QED
    BY <1>2, <2>1, SerialStep DEF SlotsInv
<1>3. QED
  BY <1>1, <1>2

(* However the host threads overlap, no slot is lost for ever.             *)
THEOREM SlotsNeverLeak == Slots!Spec => []Slots!NoSlotLeak
<1>1. SlotsInv => Slots!NoSlotLeak
  BY DEF SlotsInv, RacingInv
<1>2. QED
  BY <1>1, SlotsInitially, SlotsInvariantStep, MCHostAssumption, PTL
     DEF Slots!Spec

(* If the host runs one slot operation at a time, sandboxed code that      *)
(* calls an address it was given reaches the function and the state        *)
(* registered there (dyn_ldr_lib.c, nacl_syscall_common.c), however the    *)
(* three reads of NaClSysCallback fall between the stores of the host.     *)
THEOREM CallbacksReachTheirOwner ==
    Slots!Spec => [](serialised => /\ Slots!CallbackReachesOwner
                                   /\ Slots!NoCallbackMissing
                                   /\ Slots!SlotsAccounted)
<1>1. SlotsInv => (serialised => /\ Slots!CallbackReachesOwner
                                 /\ Slots!NoCallbackMissing
                                 /\ Slots!SlotsAccounted)
  BY SerialSuffices, MCHostAssumption DEF SlotsInv
<1>2. QED
  BY <1>1, SlotsInitially, SlotsInvariantStep, MCHostAssumption, PTL
     DEF Slots!Spec

-----------------------------------------------------------------------------
(* The callback slots beside the other things that the host shares, as     *)
(* module MCHost runs them (dyn_ldr_lib.c, nacl_syscall_common.c): if the  *)
(* host serialises registering and unregistering, a call through a         *)
(* registered address reaches its function and state, and slots in use are *)
(* those of the live registrations; if it does not, no slot is lost for    *)
(* ever.                                                                   *)
THEOREM SlotsCorrectInSystem == HostSideSpec => []SlotsCorrect
<1>1. HostSideInit => SlotsInv
  BY SlotsInitially, MCHostAssumption DEF HostSideInit
<1>2. SlotsInv /\ [HostSideNext]_hostSideVars => SlotsInv'
  <2>1. [HostSideNext]_hostSideVars => [Slots!Next]_(Slots!vars)
    BY DEF HostSideNext, hostSideVars, slotVars, Slots!vars
  <2>2. QED
    BY <2>1, SlotsInvariantStep, MCHostAssumption
<1>3. SlotsInv => SlotsCorrect
  BY SerialSuffices, MCHostAssumption
     DEF SlotsInv, RacingInv, SlotsCorrect
<1>4. QED
  BY <1>1, <1>2, <1>3, PTL DEF HostSideSpec

-----------------------------------------------------------------------------
(***************************************************************************)
(* The session of the debug stub with GDB.  What may be under way between  *)
(* them, character by character, follows from what GDB waits for: its      *)
(* command, the acknowledgement of it, or the answer.                      *)
(***************************************************************************)
Places == {"wait", "event", "toss", "data", "xsum", "execute", "reply",
               "ack", "detach", "accept"}
Kinds == {"cmd", "cont", "detach", "kill"}

(* Types of what TypeOK of RspSession leaves out.                          *)
RspTypes ==
    /\ Rsp!TypeOK
    /\ stubThread \in [pc : Places, data : Rsp!Bodies]
    /\ gdb \in [pc : {"stopped", "ack", "reply", "running", "gone"},
                n : 0 .. MaxCommands, kind : Kinds, intr : BOOLEAN]
    /\ garbled \in Nat /\ connections \in Nat

(* What GDB has sent and the stub has not looked at.                       *)
Incoming == buf \o toStub
Unread == Len(Incoming)

Noise == {Rsp!Plus, Rsp!Minus, Rsp!CtrlC}
Silent(s, k) == \A i \in 1 .. k : s[i] \in Noise

(* Payload and checksum of a packet that was sent as b, when g characters  *)
(* have been damaged: each may be one of these, but they agree only if     *)
(* neither is.                                                             *)
Damaged(g) == {"garbled"} \X {n \in Nat : n < g}
Meant(d, x, b, g) ==
    /\ d \in {b} \cup Damaged(g) /\ x \in {b} \cup Damaged(g)
    /\ d = x => d = b

PacketAt(s, k, b, g) ==
    /\ s[k + 1].c = "$" /\ s[k + 2].c = "data"
    /\ s[k + 3].c = "#" /\ s[k + 4].c = "xsum"
    /\ Meant(s[k + 2].v, s[k + 4].v, b, g)

CommandBody == <<gdb.kind, gdb.n>>
ReplyBody == <<"reply", gdb.n>>
StopBody == <<"stop", 0>>

(* The command of GDB is still on its way.                                 *)
Coming ==
    /\ executed < gdb.n
    /\ \/ /\ stubThread.pc \in {"wait", "event", "toss"}
          /\ Unread >= 4
          /\ Silent(Incoming, Unread - 4)
          /\ PacketAt(Incoming, Unread - 4, CommandBody, garbled)
       \/ /\ stubThread.pc = "ack" /\ stubThread.data[1] = "cmd"
          /\ Unread = 5
          /\ Incoming[1] = Rsp!Plus
          /\ PacketAt(Incoming, 1, CommandBody, garbled)
       \/ /\ stubThread.pc = "data" /\ Unread = 4
          /\ PacketAt(Incoming, 0, CommandBody, garbled)
       \/ /\ stubThread.pc = "data" /\ Unread = 3
          /\ Incoming[1].c = "data" /\ Incoming[2].c = "#"
          /\ Incoming[3].c = "xsum"
          /\ Meant(Incoming[1].v, Incoming[3].v, CommandBody, garbled)
       \/ /\ stubThread.pc = "data" /\ Unread = 2
          /\ Incoming[1].c = "#" /\ Incoming[2].c = "xsum"
          /\ Meant(stubThread.data, Incoming[2].v, CommandBody, garbled)
       \/ /\ stubThread.pc = "xsum" /\ Unread = 1
          /\ Incoming[1].c = "xsum"
          /\ Meant(stubThread.data, Incoming[1].v, CommandBody, garbled)

(* No command is on its way, and the stub awaits one.                      *)
Idle ==
    /\ Silent(Incoming, Unread)
    /\ \/ stubThread.pc \in {"wait", "event", "toss"}
       \/ /\ stubThread.pc = "ack" /\ stubThread.data[1] = "cmd"
          /\ Unread = 1 /\ Incoming[1] = Rsp!Plus

(* What the stub has sent: perhaps a report that it stopped.               *)
Report(k) ==
    \/ Len(toGdb) = k
    \/ Len(toGdb) = k + 4 /\ PacketAt(toGdb, k, StopBody, garbled) /\ suspended

Executing ==
    /\ stubThread.pc = "execute" /\ stubThread.data = CommandBody
    /\ executed < gdb.n
Replying ==
    /\ stubThread.pc \in {"reply", "ack"} /\ stubThread.data = CommandBody
    /\ executed = gdb.n /\ gdb.kind # "cont"

(* Behind the first k characters to GDB, which end with the                *)
(* acknowledgement of its command, comes the answer.                       *)
Answer(k) ==
    \/ Executing /\ Len(toGdb) = k
    \/ /\ gdb.kind = "cont" /\ stubThread.pc \in {"wait", "event", "toss"}
       /\ executed = gdb.n /\ Report(k)
    \/ Replying /\ stubThread.pc = "reply" /\ Len(toGdb) = k
    \/ /\ Replying /\ stubThread.pc = "ack"
       /\ Len(toGdb) = k + 4 /\ PacketAt(toGdb, k, ReplyBody, garbled)

WhenStopped == gdb.pc = "stopped" => Idle /\ Report(0)

WhenAwaitingAck == gdb.pc = "ack" =>
    \/ Coming /\ Report(0)
    \/ /\ executed < gdb.n
       /\ stubThread.pc = "data" /\ Unread = 0
       /\ \/ Len(toGdb) = 1 /\ toGdb[1] = Rsp!Minus
          \/ /\ Len(toGdb) = 5 /\ PacketAt(toGdb, 0, StopBody, garbled)
             /\ toGdb[5] = Rsp!Minus
    \/ /\ Unread = 0
       /\ \/ Len(toGdb) >= 1 /\ toGdb[1] = Rsp!Plus /\ Answer(1)
          \/ /\ Len(toGdb) >= 5 /\ PacketAt(toGdb, 0, StopBody, garbled)
             /\ toGdb[5] = Rsp!Plus /\ Answer(5)

WhenAwaitingReply == gdb.pc = "reply" =>
    /\ gdb.kind # "cont"
    /\ \/ Unread = 0 /\ Answer(0)
       \/ /\ Replying /\ stubThread.pc = "ack"
          /\ Unread = 1 /\ Incoming[1] = Rsp!Minus /\ Len(toGdb) = 0

WhenRunning == gdb.pc = "running" =>
    /\ gdb.kind = "cont" /\ Silent(Incoming, Unread) /\ Answer(0)

WhenGone == gdb.pc = "gone" =>
    /\ Len(toGdb) = 0
    /\ \/ Coming
       \/ /\ Silent(Incoming, Unread)
          /\ stubThread.pc \in {"wait", "event", "toss"}
       \/ stubThread.pc = "data" /\ Unread = 0
       \/ /\ Executing /\ Silent(Incoming, Unread)
          /\ gdb.kind # "cont" => Unread = 0
       \/ /\ stubThread.pc \in {"reply", "ack"}
          /\ \/ Unread = 0
             \/ /\ stubThread.pc = "ack"
                /\ Unread = 1 /\ Incoming[1] \in {Rsp!Plus, Rsp!Minus}
       \/ stubThread.pc \in {"detach", "accept"} /\ Unread = 0

Session ==
    /\ conn <=> stubThread.pc # "accept"
    /\ ~conn => gdb.pc = "gone"
    /\ stubThread.pc = "event" => ~suspended
    /\ executed <= gdb.n
    /\ WhenStopped /\ WhenAwaitingAck /\ WhenAwaitingReply /\ WhenRunning
    /\ WhenGone

SessionInv == exit = "no" => Session

(* Once the program exits, the stub's thread does nothing more than wait,  *)
(* and the one acknowledgement that may be under way is of a continue.     *)
ExitInv == exit # "no" =>
    /\ \/ stubThread.pc \in {"wait", "event"}
       \/ exit = "done" /\ stubThread.pc \in {"toss", "accept"}
    /\ stubThread.pc = "accept" => buf = << >>
    /\ gdb.pc # "reply"
    /\ \A i \in 1 .. Len(toGdb) : toGdb[i].c = "+" =>
          /\ gdb.pc = "ack" /\ gdb.kind = "cont"
          /\ \A k \in 1 .. Len(toGdb) : toGdb[k].c = "+" => i = k

SessionsInv == RspTypes /\ SessionInv /\ ExitInv

-----------------------------------------------------------------------------
(* Acknowledgements, the interrupt and the characters of packets are       *)
(* characters.                                                             *)
LEMMA CharTypes ==
    /\ Rsp!None \in Rsp!Bodies
    /\ Noise \subseteq Rsp!Chars
    /\ \A b \in Rsp!Bodies :
         /\ Rsp!Packet(b) \in Seq(Rsp!Chars) /\ Len(Rsp!Packet(b)) = 4
         /\ Rsp!Packet(b)[1] = Rsp!Char("$", Rsp!None)
         /\ Rsp!Packet(b)[2] = Rsp!Char("data", b)
         /\ Rsp!Packet(b)[3] = Rsp!Char("#", Rsp!None)
         /\ Rsp!Packet(b)[4] = Rsp!Char("xsum", b)
<1>1. Rsp!None \in Rsp!Bodies
  BY DEF Rsp!None, Rsp!Bodies
<1>2. Noise \subseteq Rsp!Chars
  BY <1>1 DEF Noise, Rsp!Plus, Rsp!Minus, Rsp!CtrlC, Rsp!Char, Rsp!Chars
<1>3. ASSUME NEW b \in Rsp!Bodies
      PROVE  /\ Rsp!Packet(b) \in Seq(Rsp!Chars) /\ Len(Rsp!Packet(b)) = 4
             /\ Rsp!Packet(b)[1] = Rsp!Char("$", Rsp!None)
             /\ Rsp!Packet(b)[2] = Rsp!Char("data", b)
             /\ Rsp!Packet(b)[3] = Rsp!Char("#", Rsp!None)
             /\ Rsp!Packet(b)[4] = Rsp!Char("xsum", b)
  <2>1. /\ Rsp!Char("$", Rsp!None) \in Rsp!Chars
        /\ Rsp!Char("data", b) \in Rsp!Chars
        /\ Rsp!Char("#", Rsp!None) \in Rsp!Chars
        /\ Rsp!Char("xsum", b) \in Rsp!Chars
    BY <1>1 DEF Rsp!Char, Rsp!Chars
  <2>2. QED
    BY <2>1 DEF Rsp!Packet
<1>4. QED
  BY <1>1, <1>2, <1>3

(* What the transport and the socket hold are characters; the buffer has   *)
(* room.                                                                   *)
LEMMA ChannelTypes ==
    ASSUME Rsp!RspAssumption, RspTypes
    PROVE  /\ buf \in Seq(Rsp!Chars) /\ toStub \in Seq(Rsp!Chars)
           /\ Len(buf) \in Nat /\ Len(toStub) \in Nat
           /\ Incoming \in Seq(Rsp!Chars)
           /\ Unread = Len(buf) + Len(toStub)
           /\ pos \in Nat /\ (exit = "no" => pos + Len(buf) <= BufSize)
           /\ BufSize \in Nat \ {0}
<1>1. buf \in Seq(Rsp!Chars) /\ toStub \in Seq(Rsp!Chars)
  BY DEF RspTypes, Rsp!TypeOK
<1>2. QED
  BY <1>1, ConcatProperties
     DEF Rsp!RspAssumption, Rsp!size, RspTypes, Rsp!TypeOK, Incoming, Unread

(* Concatenation is associative.                                           *)
LEMMA Associative ==
    \A s, t, u \in Seq(Rsp!Chars) : (s \o t) \o u = s \o (t \o u)
  BY ConcatAssociative

(* Reading a character takes the first one that is unread.                 *)
LEMMA CharRead ==
    ASSUME Rsp!RspAssumption, RspTypes, NEW ch, Rsp!GetChar(ch)
    PROVE  /\ Unread \in Nat \ {0} /\ ch = Incoming[1] /\ ch \in Rsp!Chars
           /\ Unread' = Unread - 1
           /\ \A i \in 1 .. Unread - 1 : Incoming'[i] = Incoming[i + 1]
           /\ buf' \in Seq(Rsp!Chars) /\ toStub' \in Seq(Rsp!Chars)
           /\ pos' \in Nat /\ (exit = "no" => pos' + Len(buf') <= BufSize)
<1>1. /\ Incoming # << >> /\ ch = Head(Incoming) /\ Incoming' = Tail(Incoming)
      /\ buf' \in Seq(Rsp!Chars) /\ toStub' \in Seq(Rsp!Chars)
      /\ pos' \in Nat /\ (exit = "no" => pos' + Len(buf') <= BufSize)
  <2>1. CASE /\ buf # << >> /\ ch = Head(buf) /\ buf' = Tail(buf)
             /\ pos' = pos + 1 /\ toStub' = toStub
    <3>1. /\ buf' \in Seq(Rsp!Chars) /\ toStub' \in Seq(Rsp!Chars)
          /\ Len(buf') = Len(buf) - 1
          /\ pos' \in Nat /\ (exit = "no" => pos' + Len(buf') <= BufSize)
      BY <2>1, ChannelTypes
    <3>2. /\ Incoming # << >> /\ ch = Head(Incoming)
          /\ Tail(Incoming) = Tail(buf) \o toStub
      BY <2>1, ChannelTypes DEF Incoming
    <3>3. QED
      BY <2>1, <3>1, <3>2 DEF Incoming
  <2>2. ASSUME buf = << >>, toStub # << >>, ch = Head(toStub), pos' = 1,
               NEW k \in 1 .. Rsp!Min2(Len(toStub), BufSize),
               buf' = SubSeq(toStub, 2, k),
               toStub' = SubSeq(toStub, k + 1, Len(toStub))
        PROVE  /\ Incoming # << >> /\ ch = Head(Incoming)
               /\ Incoming' = Tail(Incoming)
               /\ buf' \in Seq(Rsp!Chars) /\ toStub' \in Seq(Rsp!Chars)
               /\ pos' \in Nat /\ (exit = "no" => pos' + Len(buf') <= BufSize)
    <3>1. k \in 1 .. Len(toStub) /\ k <= BufSize /\ k \in Nat
      BY <2>2, ChannelTypes DEF Rsp!Min2
    <3>2. /\ buf' \in Seq(Rsp!Chars) /\ Len(buf') = k - 1
          /\ toStub' \in Seq(Rsp!Chars)
      BY <2>2, <3>1, ChannelTypes
    <3>3. buf' \o toStub' = SubSeq(toStub, 2, Len(toStub))
      <4>1. /\ 2 \in 1 .. Len(toStub) + 1 /\ k \in 2 - 1 .. Len(toStub)
            /\ Len(toStub) \in k .. Len(toStub)
        BY <3>1, ChannelTypes
      <4>2. SubSeq(toStub, 2, k) \o SubSeq(toStub, k + 1, Len(toStub))
              = SubSeq(toStub, 2, Len(toStub))
        BY <4>1, ChannelTypes, ConcatAdjacentSubSeq
      <4>3. QED
        BY <2>2, <4>2
    <3>4. Incoming = toStub
      BY <2>2, ChannelTypes, ConcatEmptySeq DEF Incoming
    <3>5. Incoming' = Tail(Incoming)
      BY <2>2, <3>3, <3>4, ChannelTypes, TailIsSubSeq DEF Incoming
    <3>6. QED
      BY <2>2, <3>1, <3>2, <3>4, <3>5, ChannelTypes
  <2>3. QED
    BY <2>1, <2>2 DEF Rsp!GetChar
<1>2. /\ Head(Incoming) = Incoming[1] /\ Incoming[1] \in Rsp!Chars
      /\ Len(Incoming) \in Nat \ {0}
      /\ Len(Tail(Incoming)) = Len(Incoming) - 1
      /\ \A i \in 1 .. Len(Incoming) - 1 : Tail(Incoming)[i] = Incoming[i + 1]
  BY <1>1, ChannelTypes
<1>3. QED
  BY <1>1, <1>2 DEF Unread

(* The next character to be read is the first one that is unread.          *)
LEMMA FirstUnread ==
    ASSUME Rsp!RspAssumption, RspTypes
    PROVE  /\ Unread \in Nat
           /\ Rsp!Readable <=> Unread >= 1
           /\ Unread >= 1 => Rsp!NextChar = Incoming[1]
           /\ \A i \in 1 .. Unread : Incoming[i] \in Rsp!Chars
<1>1. Unread \in Nat /\ \A i \in 1 .. Unread : Incoming[i] \in Rsp!Chars
  BY ChannelTypes DEF Unread
<1>2. Rsp!Readable <=> Unread >= 1
  BY ChannelTypes DEF Rsp!Readable
<1>3. ASSUME Unread >= 1 PROVE Rsp!NextChar = Incoming[1]
  <2>1. CASE buf # << >>
    BY <2>1, ChannelTypes, ConcatProperties DEF Rsp!NextChar, Incoming
  <2>2. CASE buf = << >>
    <3>1. Incoming = toStub
      BY <2>2, ChannelTypes, ConcatEmptySeq DEF Incoming
    <3>2. QED
      BY <1>3, <2>2, <3>1, ChannelTypes DEF Rsp!NextChar
  <2>3. QED
    BY <2>1, <2>2
<1>4. QED
  BY <1>1, <1>2, <1>3

(* What recv appends to the buffer stays unread.                           *)
LEMMA DataBuffered ==
    ASSUME Rsp!RspAssumption, RspTypes, Rsp!ReadSomeData
    PROVE  /\ Incoming' = Incoming
           /\ buf' \in Seq(Rsp!Chars) /\ toStub' \in Seq(Rsp!Chars)
           /\ pos' \in Nat /\ (exit = "no" => pos' + Len(buf') <= BufSize)
<1>1. CASE UNCHANGED <<buf, toStub, pos>>
  BY <1>1, ChannelTypes DEF Incoming
<1>2. ASSUME toStub # << >>, pos' = pos,
             NEW k \in 1 .. Rsp!Min2(Len(toStub), BufSize - Rsp!size),
             buf' = buf \o SubSeq(toStub, 1, k),
             toStub' = SubSeq(toStub, k + 1, Len(toStub))
      PROVE  /\ Incoming' = Incoming
             /\ buf' \in Seq(Rsp!Chars) /\ toStub' \in Seq(Rsp!Chars)
             /\ pos' \in Nat /\ (exit = "no" => pos' + Len(buf') <= BufSize)
  <2>1. /\ k \in 1 .. Len(toStub) /\ pos + Len(buf) + k <= BufSize
        /\ k \in Nat
    BY <1>2, ChannelTypes DEF Rsp!Min2, Rsp!size
  <2> DEFINE front == SubSeq(toStub, 1, k)
  <2>2. /\ front \in Seq(Rsp!Chars) /\ Len(front) = k
        /\ toStub' \in Seq(Rsp!Chars)
    <3>1. toStub \in Seq(Rsp!Chars) /\ Len(toStub) \in Nat
      BY ChannelTypes
    <3>2. \A i \in 1 .. k : toStub[i] \in Rsp!Chars
      BY <2>1, <3>1
    <3>3. front \in Seq(Rsp!Chars) /\ Len(front) = k
      BY <2>1, <3>2, SubSeqProperties
    <3>4. toStub' \in Seq(Rsp!Chars)
      BY <1>2, <2>1, <3>1
    <3>5. QED
      BY <3>3, <3>4
  <2>3. front \o toStub' = toStub
    BY <1>2, <2>1, ChannelTypes, ConcatAdjacentSubSeq, SubSeqFull
  <2> HIDE DEF front
  <2>4. buf' = buf \o front
    BY <1>2 DEF front
  <2>5. buf' \in Seq(Rsp!Chars) /\ Len(buf') = Len(buf) + k
    BY <2>2, <2>4, ChannelTypes, ConcatProperties
  <2>6. (buf \o front) \o toStub' = buf \o (front \o toStub')
    BY <2>2, ChannelTypes, Associative
  <2>7. Incoming' = Incoming
    BY <2>3, <2>4, <2>6 DEF Incoming
  <2>8. QED
    BY <1>2, <2>1, <2>2, <2>5, <2>7, ChannelTypes
<1>3. QED
  BY <1>1, <1>2 DEF Rsp!ReadSomeData

(* What GDB sends comes after what it has sent before.                     *)
LEMMA CharsSent ==
    ASSUME Rsp!RspAssumption, RspTypes, NEW chars \in Seq(Rsp!Chars),
           Rsp!SendToStub(chars), UNCHANGED buf
    PROVE  /\ toStub' \in Seq(Rsp!Chars)
           /\ conn /\ Rsp!Alive =>
                /\ Unread' = Unread + Len(chars)
                /\ \A i \in 1 .. Unread : Incoming'[i] = Incoming[i]
                /\ \A i \in 1 .. Len(chars) : Incoming'[Unread + i] = chars[i]
<1>1. toStub' \in Seq(Rsp!Chars)
  BY ChannelTypes, ConcatProperties DEF Rsp!SendToStub
<1>2. ASSUME conn, Rsp!Alive
      PROVE  /\ Unread' = Unread + Len(chars)
             /\ \A i \in 1 .. Unread : Incoming'[i] = Incoming[i]
             /\ \A i \in 1 .. Len(chars) : Incoming'[Unread + i] = chars[i]
  <2>1. Incoming' = Incoming \o chars
    BY <1>2, ChannelTypes, Associative DEF Rsp!SendToStub, Incoming
  <2>2. \A i \in 1 .. Len(chars) :
           /\ Len(Incoming) + i \in 1 .. Len(Incoming) + Len(chars)
           /\ ~(Len(Incoming) + i <= Len(Incoming))
           /\ Len(Incoming) + i - Len(Incoming) = i
    BY ChannelTypes
  <2>3. \A i \in 1 .. Len(Incoming) :
           i \in 1 .. Len(Incoming) + Len(chars)
    BY ChannelTypes
  <2>4. QED
    BY <2>1, <2>2, <2>3, ChannelTypes, ConcatProperties DEF Unread
<1>3. QED
  BY <1>1, <1>2

(* What kinds of characters acknowledgements and the interrupt are.        *)
LEMMA CharKinds ==
    /\ \A ch \in Noise : ch.c \in {"+", "-", "^C"}
    /\ Rsp!Plus.c = "+" /\ Rsp!Minus.c = "-" /\ Rsp!CtrlC.c = "^C"
    /\ Rsp!Plus # Rsp!Minus
    /\ {Rsp!Plus, Rsp!Minus, Rsp!CtrlC} = Noise
  BY DEF Noise, Rsp!Plus, Rsp!Minus, Rsp!CtrlC, Rsp!Char

(* The bodies of packets are not damaged ones.                             *)
LEMMA BodyTypes ==
    ASSUME Rsp!RspAssumption, RspTypes
    PROVE  /\ CommandBody \in Rsp!Bodies /\ CommandBody[1] = gdb.kind
           /\ CommandBody[2] = gdb.n
           /\ ReplyBody \in Rsp!Bodies /\ StopBody \in Rsp!Bodies
           /\ <<"exit", 0>> \in Rsp!Bodies
           /\ CommandBody[1] # "garbled" /\ ReplyBody[1] # "garbled"
           /\ StopBody[1] # "garbled"
           /\ <<"garbled", garbled>> \in Rsp!Bodies
  BY DEF RspTypes, Kinds, CommandBody, ReplyBody, StopBody, Rsp!Bodies,
         Rsp!RspAssumption

(* The four characters of a packet.                                        *)
LEMMA PacketChars ==
    ASSUME NEW b \in Rsp!Bodies
    PROVE  /\ Rsp!Packet(b) \in Seq(Rsp!Chars) /\ Len(Rsp!Packet(b)) = 4
           /\ Rsp!Packet(b)[1].c = "$"
           /\ Rsp!Packet(b)[2].c = "data" /\ Rsp!Packet(b)[2].v = b
           /\ Rsp!Packet(b)[3].c = "#"
           /\ Rsp!Packet(b)[4].c = "xsum" /\ Rsp!Packet(b)[4].v = b
<1>1. \A c, v : Rsp!Char(c, v).c = c /\ Rsp!Char(c, v).v = v
  BY DEF Rsp!Char
<1>2. QED
  BY <1>1, CharTypes

(* What is written arrives behind what was written before.                 *)
LEMMA CharsWritten ==
    ASSUME Rsp!RspAssumption, RspTypes, NEW chars \in Seq(Rsp!Chars),
           Rsp!Write(chars)
    PROVE  /\ toGdb' \in Seq(Rsp!Chars)
           /\ gdb.pc = "gone" => Len(toGdb') = 0
           /\ gdb.pc # "gone" =>
                /\ Len(toGdb') = Len(toGdb) + Len(chars)
                /\ \A i \in 1 .. Len(toGdb) : toGdb'[i] = toGdb[i]
                /\ \A i \in 1 .. Len(chars) :
                     toGdb'[Len(toGdb) + i] = chars[i]
<1>1. toGdb \in Seq(Rsp!Chars) /\ Len(toGdb) \in Nat /\ Len(chars) \in Nat
  BY DEF RspTypes, Rsp!TypeOK
<1>2. CASE gdb.pc = "gone"
  BY <1>2 DEF Rsp!Write
<1>3. CASE gdb.pc # "gone"
  <2>1. toGdb' = toGdb \o chars
    BY <1>3 DEF Rsp!Write
  <2>2. \A i \in 1 .. Len(chars) :
           /\ Len(toGdb) + i \in 1 .. Len(toGdb) + Len(chars)
           /\ ~(Len(toGdb) + i <= Len(toGdb))
           /\ Len(toGdb) + i - Len(toGdb) = i
    BY <1>1
  <2>3. \A i \in 1 .. Len(toGdb) : i \in 1 .. Len(toGdb) + Len(chars)
    BY <1>1
  <2>4. QED
    BY <1>1, <1>3, <2>1, <2>2, <2>3, ConcatProperties
<1>4. QED
  BY <1>2, <1>3

(* The stub sends a packet: it follows what it has sent before.            *)
LEMMA PacketWritten ==
    ASSUME Rsp!RspAssumption, RspTypes, NEW b \in Rsp!Bodies,
           Rsp!Write(Rsp!Packet(b))
    PROVE  /\ toGdb' \in Seq(Rsp!Chars)
           /\ gdb.pc = "gone" => Len(toGdb') = 0
           /\ gdb.pc # "gone" =>
                /\ Len(toGdb') = Len(toGdb) + 4
                /\ \A i \in 1 .. Len(toGdb) : toGdb'[i] = toGdb[i]
                /\ \A g : PacketAt(toGdb', Len(toGdb), b, g)
                /\ \A i \in 1 .. 4 : toGdb'[Len(toGdb) + i].c # "+"
<1>1. 1 \in 1 .. 4 /\ 2 \in 1 .. 4 /\ 3 \in 1 .. 4 /\ 4 \in 1 .. 4
  OBVIOUS
<1>2. ASSUME gdb.pc # "gone"
      PROVE  /\ \A g : PacketAt(toGdb', Len(toGdb), b, g)
             /\ \A i \in 1 .. 4 : toGdb'[Len(toGdb) + i].c # "+"
  <2>1. /\ toGdb'[Len(toGdb) + 1] = Rsp!Packet(b)[1]
        /\ toGdb'[Len(toGdb) + 2] = Rsp!Packet(b)[2]
        /\ toGdb'[Len(toGdb) + 3] = Rsp!Packet(b)[3]
        /\ toGdb'[Len(toGdb) + 4] = Rsp!Packet(b)[4]
    BY <1>1, <1>2, PacketChars, CharsWritten
  <2>2. \A g : PacketAt(toGdb', Len(toGdb), b, g)
    BY <2>1, PacketChars DEF PacketAt, Meant
  <2>3. \A i \in 1 .. 4 : i = 1 \/ i = 2 \/ i = 3 \/ i = 4
    OBVIOUS
  <2>4. QED
    BY <2>1, <2>2, <2>3, PacketChars
<1>3. /\ toGdb' \in Seq(Rsp!Chars)
      /\ gdb.pc = "gone" => Len(toGdb') = 0
      /\ gdb.pc # "gone" =>
           /\ Len(toGdb') = Len(toGdb) + Len(Rsp!Packet(b))
           /\ \A i \in 1 .. Len(toGdb) : toGdb'[i] = toGdb[i]
  <2>1. Rsp!Packet(b) \in Seq(Rsp!Chars)
    BY PacketChars
  <2>2. QED
    BY <2>1, CharsWritten
<1>4. Len(Rsp!Packet(b)) = 4
  BY PacketChars
<1>5. QED
  BY <1>2, <1>3, <1>4

(* GDB sends a packet: it follows what the stub has not read.              *)
LEMMA PacketSent ==
    ASSUME Rsp!RspAssumption, RspTypes, NEW b \in Rsp!Bodies,
           Rsp!SendToStub(Rsp!Packet(b)), UNCHANGED buf
    PROVE  /\ toStub' \in Seq(Rsp!Chars)
           /\ conn /\ Rsp!Alive =>
                /\ Unread' = Unread + 4
                /\ \A i \in 1 .. Unread : Incoming'[i] = Incoming[i]
                /\ \A g : PacketAt(Incoming', Unread, b, g)
<1>1. 1 \in 1 .. 4 /\ 2 \in 1 .. 4 /\ 3 \in 1 .. 4 /\ 4 \in 1 .. 4
  OBVIOUS
<1>2. ASSUME conn, Rsp!Alive
      PROVE  \A g : PacketAt(Incoming', Unread, b, g)
  <2>1. /\ Incoming'[Unread + 1] = Rsp!Packet(b)[1]
        /\ Incoming'[Unread + 2] = Rsp!Packet(b)[2]
        /\ Incoming'[Unread + 3] = Rsp!Packet(b)[3]
        /\ Incoming'[Unread + 4] = Rsp!Packet(b)[4]
    BY <1>1, <1>2, PacketChars, CharsSent
  <2>2. QED
    BY <2>1, PacketChars DEF PacketAt, Meant
<1>3. QED
  BY <1>2, PacketChars, CharsSent

(* One character is damaged.                                               *)
Hit(s, t, j, b) ==
    /\ j \in 1 .. Len(s) /\ s[j].c \in {"data", "xsum"}
    /\ Len(t) = Len(s)
    /\ t[j].c = s[j].c /\ t[j].v = b
    /\ \A k \in 1 .. Len(s) : k # j => t[k] = s[k]

(* Damage changes the value of one character.                              *)
LEMMA CharDamaged ==
    ASSUME NEW s \in Seq(Rsp!Chars), NEW i \in DOMAIN s,
           NEW b \in Rsp!Bodies, s[i].c \in {"data", "xsum"}
    PROVE  /\ [s EXCEPT ![i].v = b] \in Seq(Rsp!Chars)
           /\ Hit(s, [s EXCEPT ![i].v = b], i, b)
<1>1. /\ i \in 1 .. Len(s) /\ Len(s) \in Nat /\ s[i] \in Rsp!Chars
  OBVIOUS
<1>2. [s[i] EXCEPT !.v = b] \in Rsp!Chars
  BY <1>1 DEF Rsp!Chars
<1>3. /\ [s[i] EXCEPT !.v = b].c = s[i].c /\ [s[i] EXCEPT !.v = b].v = b
  BY <1>1 DEF Rsp!Chars
<1>4. [s EXCEPT ![i].v = b] = [s EXCEPT ![i] = [s[i] EXCEPT !.v = b]]
  OBVIOUS
<1> DEFINE e == [s[i] EXCEPT !.v = b]
           t == [s EXCEPT ![i] = e]
<1> HIDE DEF e
<1>5. /\ t \in Seq(Rsp!Chars) /\ Len(t) = Len(s)
      /\ \A k \in 1 .. Len(s) : t[k] = IF k = i THEN e ELSE s[k]
  BY <1>1, <1>2, ExceptSeq DEF e
<1>6. e.c = s[i].c /\ e.v = b
  BY <1>3 DEF e
<1>7. [s EXCEPT ![i].v = b] = t
  BY <1>4 DEF e
<1> HIDE DEF t
<1>8. Hit(s, t, i, b)
  BY <1>1, <1>5, <1>6 DEF Hit
<1>9. QED
  BY <1>5, <1>7, <1>8

(* Damage on the way to the stub changes one unread character.             *)
LEMMA UnreadDamaged ==
    ASSUME Rsp!RspAssumption, RspTypes, NEW i \in DOMAIN toStub,
           NEW b \in Rsp!Bodies, toStub[i].c \in {"data", "xsum"},
           toStub' = [toStub EXCEPT ![i].v = b], UNCHANGED buf
    PROVE  /\ toStub' \in Seq(Rsp!Chars)
           /\ \E j \in 1 .. Unread : Hit(Incoming, Incoming', j, b)
<1>1. toStub' \in Seq(Rsp!Chars) /\ Hit(toStub, toStub', i, b)
  BY ChannelTypes, CharDamaged
<1>2. /\ Len(toStub') = Len(toStub) /\ i \in 1 .. Len(toStub)
      /\ toStub'[i].c = toStub[i].c /\ toStub'[i].v = b
      /\ \A k \in 1 .. Len(toStub) : k # i => toStub'[k] = toStub[k]
  BY <1>1 DEF Hit
<1>3. /\ Unread = Len(buf) + Len(toStub)
      /\ \A k \in 1 .. Len(buf) + Len(toStub) : Incoming[k] =
           IF k <= Len(buf) THEN buf[k] ELSE toStub[k - Len(buf)]
  BY ChannelTypes, ConcatProperties DEF Incoming, Unread
<1>4. /\ Unread' = Len(buf) + Len(toStub)
      /\ \A k \in 1 .. Len(buf) + Len(toStub) : Incoming'[k] =
           IF k <= Len(buf) THEN buf[k] ELSE toStub'[k - Len(buf)]
  BY <1>1, <1>2, ChannelTypes, ConcatProperties DEF Incoming, Unread
<1>5. PICK j \in 1 .. Unread : j = Len(buf) + i
  BY <1>2, <1>3, ChannelTypes
<1>6. Incoming[j] = toStub[i] /\ Incoming'[j] = toStub'[i]
  <2>1. /\ j \in 1 .. Len(buf) + Len(toStub) /\ ~(j <= Len(buf))
        /\ j - Len(buf) = i
    BY <1>2, <1>3, <1>5, ChannelTypes
  <2>2. QED
    BY <1>3, <1>4, <2>1
<1>7. ASSUME NEW k \in 1 .. Unread, k # j
      PROVE  Incoming'[k] = Incoming[k]
  <2>1. CASE k <= Len(buf)
    BY <1>3, <1>4, <2>1
  <2>2. CASE ~(k <= Len(buf))
    <3>1. k - Len(buf) \in 1 .. Len(toStub) /\ k - Len(buf) # i
      BY <1>3, <1>5, <1>7, <2>2, ChannelTypes
    <3>2. QED
      BY <1>2, <1>3, <1>4, <2>2, <3>1
  <2>3. QED
    BY <2>1, <2>2
<1>8. Hit(Incoming, Incoming', j, b)
  BY <1>2, <1>3, <1>4, <1>5, <1>6, <1>7 DEF Hit, Unread
<1>9. QED
  BY <1>1, <1>8

(* Damage does not make a payload fit a checksum that it did not fit.      *)
LEMMA MeantStays ==
    ASSUME NEW d, NEW x, NEW b, NEW g \in Nat, b[1] # "garbled",
           Meant(d, x, b, g)
    PROVE  /\ Meant(d, x, b, g + 1)
           /\ Meant(<<"garbled", g>>, x, b, g + 1)
           /\ Meant(d, <<"garbled", g>>, b, g + 1)
<1>1. Damaged(g) \subseteq Damaged(g + 1)
  BY DEF Damaged
<1>2. <<"garbled", g>> \in Damaged(g + 1) /\ <<"garbled", g>> \notin Damaged(g)
  BY DEF Damaged
<1>3. <<"garbled", g>> # b
  OBVIOUS
<1>4. QED
  BY <1>1, <1>2, <1>3 DEF Meant

(* A packet stays what it is when something else is damaged.               *)
LEMMA PacketStays ==
    ASSUME NEW s, NEW k \in Nat, NEW b, NEW g \in Nat, b[1] # "garbled",
           PacketAt(s, k, b, g)
    PROVE  PacketAt(s, k, b, g + 1)
  BY MeantStays DEF PacketAt

(* A packet stays the packet that was sent when it is damaged.             *)
LEMMA PacketHit ==
    ASSUME NEW s, NEW t, NEW k \in Nat, NEW b, NEW g \in Nat, NEW j,
           b[1] # "garbled", Len(s) \in Nat, k + 4 <= Len(s),
           PacketAt(s, k, b, g), Hit(s, t, j, <<"garbled", g>>)
    PROVE  PacketAt(t, k, b, g + 1)
<1>1. /\ k + 1 \in 1 .. Len(s) /\ k + 2 \in 1 .. Len(s)
      /\ k + 3 \in 1 .. Len(s) /\ k + 4 \in 1 .. Len(s)
  OBVIOUS
<1>2. /\ t[k + 1].c = "$" /\ t[k + 2].c = "data"
      /\ t[k + 3].c = "#" /\ t[k + 4].c = "xsum"
  BY <1>1 DEF PacketAt, Hit
<1>3. Meant(t[k + 2].v, t[k + 4].v, b, g + 1)
  <2>1. Meant(s[k + 2].v, s[k + 4].v, b, g)
    BY DEF PacketAt
  <2>2. CASE j = k + 2
    <3>1. t[k + 2].v = <<"garbled", g>> /\ t[k + 4] = s[k + 4]
      BY <1>1, <2>2 DEF Hit
    <3>2. QED
      BY <2>1, <3>1, MeantStays
  <2>3. CASE j = k + 4
    <3>1. t[k + 4].v = <<"garbled", g>> /\ t[k + 2] = s[k + 2]
      BY <1>1, <2>3 DEF Hit
    <3>2. QED
      BY <2>1, <3>1, MeantStays
  <2>4. CASE j # k + 2 /\ j # k + 4
    BY <1>1, <2>1, <2>4, MeantStays DEF Hit
  <2>5. QED
    BY <2>2, <2>3, <2>4
<1>4. QED
  BY <1>2, <1>3 DEF PacketAt

(* Damage does not hit acknowledgements and interrupts.                    *)
LEMMA SilentHit ==
    ASSUME NEW s, NEW t, NEW k, NEW j, NEW b, k <= Len(s), k \in Int,
           Len(s) \in Nat, Silent(s, k), Hit(s, t, j, b)
    PROVE  Silent(t, k) /\ ~(j <= k)
<1>1. j \in 1 .. Len(s) /\ s[j] \notin Noise
  BY CharKinds DEF Hit
<1>2. ~(j <= k)
  BY <1>1 DEF Silent
<1>3. QED
  BY <1>1, <1>2 DEF Silent, Hit

(* A channel whose first m characters are gone, and one with more at its   *)
(* end.                                                                    *)
Shifted(s, t, m) ==
    \A i \in 1 .. Len(t) : i + m \in 1 .. Len(s) /\ t[i] = s[i + m]
Extended(s, t) ==
    Len(t) >= Len(s) /\ \A i \in 1 .. Len(s) : t[i] = s[i]

(* A packet comes nearer as what is before it is read.                     *)
LEMMA PacketShifted ==
    ASSUME NEW s, NEW t, NEW m \in Nat, NEW k \in Nat, NEW b, NEW g,
           Len(s) \in Nat, Len(t) = Len(s) - m, Shifted(s, t, m),
           m <= k, k + 4 <= Len(s), PacketAt(s, k, b, g)
    PROVE  PacketAt(t, k - m, b, g)
<1>1. /\ k - m + 1 \in 1 .. Len(t) /\ k - m + 2 \in 1 .. Len(t)
      /\ k - m + 3 \in 1 .. Len(t) /\ k - m + 4 \in 1 .. Len(t)
      /\ k - m + 1 + m = k + 1 /\ k - m + 2 + m = k + 2
      /\ k - m + 3 + m = k + 3 /\ k - m + 4 + m = k + 4
  OBVIOUS
<1>2. /\ t[k - m + 1] = s[k + 1] /\ t[k - m + 2] = s[k + 2]
      /\ t[k - m + 3] = s[k + 3] /\ t[k - m + 4] = s[k + 4]
  BY <1>1 DEF Shifted
<1>3. QED
  BY <1>2 DEF PacketAt

(* What is left of acknowledgements and interrupts when some are read.     *)
LEMMA SilentShifted ==
    ASSUME NEW s, NEW t, NEW m \in Nat, NEW k \in Nat,
           Len(s) \in Nat, Len(t) = Len(s) - m, Shifted(s, t, m),
           k <= Len(s), Silent(s, k)
    PROVE  Silent(t, k - m)
<1>1. SUFFICES ASSUME NEW i \in 1 .. k - m
               PROVE  t[i] \in Noise
  BY DEF Silent
<1>2. i \in 1 .. Len(t) /\ i + m \in 1 .. k
  OBVIOUS
<1>3. t[i] = s[i + m]
  BY <1>2 DEF Shifted
<1>4. QED
  BY <1>2, <1>3 DEF Silent

(* A packet stays where it is when more is sent.                           *)
LEMMA PacketExtended ==
    ASSUME NEW s, NEW t, NEW k \in Nat, NEW b, NEW g, Len(s) \in Nat,
           Extended(s, t), k + 4 <= Len(s), PacketAt(s, k, b, g)
    PROVE  PacketAt(t, k, b, g)
<1>1. /\ k + 1 \in 1 .. Len(s) /\ k + 2 \in 1 .. Len(s)
      /\ k + 3 \in 1 .. Len(s) /\ k + 4 \in 1 .. Len(s)
  OBVIOUS
<1>2. /\ t[k + 1] = s[k + 1] /\ t[k + 2] = s[k + 2]
      /\ t[k + 3] = s[k + 3] /\ t[k + 4] = s[k + 4]
  BY <1>1 DEF Extended
<1>3. QED
  BY <1>2 DEF PacketAt

(* No character of a packet is taken for an acknowledgement.               *)
LEMMA PacketHasNoAck ==
    ASSUME NEW s, NEW k \in Nat, NEW b, NEW g, PacketAt(s, k, b, g)
    PROVE  \A i \in k + 1 .. k + 4 : s[i].c # "+"
<1>1. \A i \in k + 1 .. k + 4 :
         i = k + 1 \/ i = k + 2 \/ i = k + 3 \/ i = k + 4
  OBVIOUS
<1>2. QED
  BY <1>1 DEF PacketAt

(* What the stub's thread works on follows from where it is.               *)
LEMMA StubSituation ==
    ASSUME SessionsInv, Rsp!Alive
    PROVE  /\ stubThread.pc \notin {"wait", "event"} => exit = "no"
           /\ stubThread.pc = "execute" => Executing
           /\ stubThread.pc \in {"detach", "accept"} =>
                gdb.pc = "gone" /\ Unread = 0
           /\ stubThread.pc = "reply" /\ gdb.pc # "gone" => Replying
           /\ stubThread.pc = "reply" => Unread = 0
<1>1. stubThread.pc \notin {"wait", "event"} => exit = "no"
  BY DEF SessionsInv, ExitInv, Rsp!Alive
<1>2. /\ gdb.pc \in {"stopped", "ack", "reply", "running", "gone"}
      /\ exit # "no" \/ (SessionInv /\ exit = "no")
  BY DEF SessionsInv, RspTypes
<1>3. CASE gdb.pc = "stopped"
  BY <1>1, <1>2, <1>3 DEF SessionInv, Session, WhenStopped, Idle
<1>4. CASE gdb.pc = "ack"
  BY <1>1, <1>2, <1>4
     DEF SessionInv, Session, WhenAwaitingAck, Coming, Answer, Executing,
         Replying
<1>5. CASE gdb.pc = "reply"
  BY <1>1, <1>2, <1>5
     DEF SessionInv, Session, WhenAwaitingReply, Answer, Executing, Replying
<1>6. CASE gdb.pc = "running"
  BY <1>1, <1>2, <1>6
     DEF SessionInv, Session, WhenRunning, Answer, Executing, Replying
<1>7. CASE gdb.pc = "gone"
  BY <1>1, <1>2, <1>7 DEF SessionInv, Session, WhenGone, Coming, Executing
<1>8. QED
  BY <1>1, <1>2, <1>3, <1>4, <1>5, <1>6, <1>7

(* Sequences of one character.                                             *)
LEMMA ShortSeqs ==
    /\ <<Rsp!Plus>> \in Seq(Rsp!Chars) /\ <<Rsp!Minus>> \in Seq(Rsp!Chars)
    /\ <<Rsp!CtrlC>> \in Seq(Rsp!Chars)
    /\ Len(<<Rsp!Plus>>) = 1 /\ Len(<<Rsp!Minus>>) = 1
    /\ Len(<<Rsp!CtrlC>>) = 1
    /\ <<Rsp!Plus>>[1] = Rsp!Plus /\ <<Rsp!Minus>>[1] = Rsp!Minus
    /\ <<Rsp!CtrlC>>[1] = Rsp!CtrlC
<1>1. /\ Rsp!Plus \in Rsp!Chars /\ Rsp!Minus \in Rsp!Chars
      /\ Rsp!CtrlC \in Rsp!Chars
  BY CharTypes DEF Noise
<1>2. QED
  BY <1>1

(* The stub's thread keeps the types.                                      *)
LEMMA StubTypesStep ==
    ASSUME Rsp!RspAssumption, SessionsInv, Rsp!StubStep
    PROVE  RspTypes'
<1>0. /\ RspTypes /\ Rsp!TypeOK /\ Rsp!None \in Rsp!Bodies
      /\ stubThread \in [pc : Places, data : Rsp!Bodies]
      /\ toStub \in Seq(Rsp!Chars) /\ toGdb \in Seq(Rsp!Chars)
      /\ buf \in Seq(Rsp!Chars)
  BY CharTypes DEF SessionsInv, RspTypes, Rsp!TypeOK
<1>1. \A place \in Places : Rsp!StubGoto(place) =>
         stubThread' \in [pc : Places, data : Rsp!Bodies]
  BY <1>0 DEF Rsp!StubGoto
<1>2. CASE Rsp!WaitForDebugEvent
  <2>1. stubThread' \in [pc : Places, data : Rsp!Bodies]
    BY <1>1, <1>2 DEF Rsp!WaitForDebugEvent, Places
  <2>2. QED
    BY <1>0, <1>2, <2>1
       DEF Rsp!WaitForDebugEvent, RspTypes, Rsp!TypeOK, Rsp!channels,
           Rsp!target, Rsp!bounds, Rsp!size
<1>3. CASE Rsp!WaitForDebugStubEvent
  <2>1. stubThread' \in [pc : Places, data : Rsp!Bodies]
    BY <1>1, <1>3 DEF Rsp!WaitForDebugStubEvent, Places
  <2>2. CASE Rsp!ReadSomeData
    <3>1. /\ buf' \in Seq(Rsp!Chars) /\ toStub' \in Seq(Rsp!Chars)
          /\ pos' \in Nat /\ (exit = "no" => pos' + Len(buf') <= BufSize)
      BY <1>0, <2>2, DataBuffered
    <3>2. QED
      BY <1>0, <1>3, <2>1, <3>1
         DEF Rsp!WaitForDebugStubEvent, RspTypes, Rsp!TypeOK, Rsp!target,
             Rsp!bounds, Rsp!size
  <2>3. CASE UNCHANGED <<toStub, buf, pos>>
    BY <1>0, <1>3, <2>1, <2>3
       DEF Rsp!WaitForDebugStubEvent, RspTypes, Rsp!TypeOK, Rsp!target,
           Rsp!bounds, Rsp!size
  <2>4. QED
    BY <1>3, <2>2, <2>3 DEF Rsp!WaitForDebugStubEvent
<1>4. CASE Rsp!ProcessDebugEvent
  <2>1. stubThread' \in [pc : Places, data : Rsp!Bodies]
    BY <1>1, <1>4 DEF Rsp!ProcessDebugEvent, Places
  <2>2. toGdb' \in Seq(Rsp!Chars)
    <3>1. CASE Rsp!Write(Rsp!Packet(<<"stop", 0>>))
      BY <1>0, <3>1, PacketWritten, BodyTypes DEF StopBody
    <3>2. CASE toGdb' = toGdb
      BY <1>0, <3>2
    <3>3. QED
      BY <1>4, <3>1, <3>2 DEF Rsp!ProcessDebugEvent
  <2>3. suspended' \in BOOLEAN /\ faulted' \in BOOLEAN
        /\ ignoring' \in {"no", "initial", "step"}
    BY <1>0, <1>4 DEF Rsp!ProcessDebugEvent, Rsp!target, Rsp!TypeOK
  <2>4. QED
    BY <1>0, <1>4, <2>1, <2>2, <2>3
       DEF Rsp!ProcessDebugEvent, RspTypes, Rsp!TypeOK, Rsp!bounds, Rsp!size
<1>5. CASE Rsp!GetPacket
  <2> DEFINE ch == Rsp!NextChar
  <2>1. Rsp!GetChar(ch)
    BY <1>5 DEF Rsp!GetPacket
  <2>2. /\ buf' \in Seq(Rsp!Chars) /\ toStub' \in Seq(Rsp!Chars)
        /\ pos' \in Nat /\ (exit = "no" => pos' + Len(buf') <= BufSize) /\ ch \in Rsp!Chars
    BY <1>0, <2>1, CharRead
  <2>3. stubThread' \in [pc : Places, data : Rsp!Bodies]
    <3>1. ch.v \in Rsp!Bodies
      BY <2>2 DEF Rsp!Chars
    <3>2. CASE stubThread' = [pc |-> "data", data |-> Rsp!None]
      BY <1>0, <3>2 DEF Places
    <3>3. CASE stubThread' = [stubThread EXCEPT !.data = ch.v]
      BY <1>0, <3>1, <3>3
    <3>4. CASE \E place \in {"execute", "toss", "xsum"} : Rsp!StubGoto(place)
      BY <1>1, <3>4 DEF Places
    <3>5. QED
      BY <1>0, <1>5, <3>2, <3>3, <3>4
         DEF Rsp!GetPacket, Rsp!PayloadStep, Rsp!WriteFailed, Rsp!StubGoto
  <2>4. toGdb' \in Seq(Rsp!Chars)
    <3>1. CASE Rsp!Write(<<Rsp!Plus>>)
      BY <1>0, <3>1, CharsWritten, ShortSeqs
    <3>2. CASE Rsp!Write(<<Rsp!Minus>>)
      BY <1>0, <3>2, CharsWritten, ShortSeqs
    <3>3. CASE toGdb' = toGdb
      BY <1>0, <3>3
    <3>4. QED
      BY <1>5, <3>1, <3>2, <3>3 DEF Rsp!GetPacket, Rsp!PayloadStep
  <2>5. UNCHANGED <<conn, Rsp!target, exit, gdb, Rsp!bounds>>
    BY <1>5 DEF Rsp!GetPacket
  <2>6. QED
    BY <1>0, <2>2, <2>3, <2>4, <2>5
       DEF RspTypes, Rsp!TypeOK, Rsp!target, Rsp!bounds, Rsp!size
<1>6. CASE Rsp!ConnectionLost
  <2>1. stubThread' \in [pc : Places, data : Rsp!Bodies]
    BY <1>1, <1>6 DEF Rsp!ConnectionLost, Places
  <2>2. toStub' \in Seq(Rsp!Chars) /\ suspended' \in BOOLEAN
        /\ conn' \in BOOLEAN
        /\ exit' \in {"no", "write", "getchar", "recv", "done"}
    BY <1>0, <1>6 DEF Rsp!ConnectionLost, Rsp!Disconnect, Rsp!TypeOK
  <2>3. QED
    BY <1>0, <1>6, <2>1, <2>2
       DEF Rsp!ConnectionLost, RspTypes, Rsp!TypeOK, Rsp!bounds, Rsp!size
<1>7. CASE Rsp!ProcessPacket
  <2>1. stubThread' \in [pc : Places, data : Rsp!Bodies]
    BY <1>1, <1>7 DEF Rsp!ProcessPacket, Places
  <2>2. executed' \in 0 .. MaxCommands
    <3>1. Executing
      BY <1>7, StubSituation DEF Rsp!ProcessPacket
    <3>2. executed' = gdb.n
      BY <1>7, <3>1, BodyTypes DEF Rsp!ProcessPacket, Executing, CommandBody
    <3>3. QED
      BY <1>0, <3>2 DEF RspTypes
  <2>3. suspended' \in BOOLEAN /\ faulted' \in BOOLEAN
        /\ ignoring' \in {"no", "initial", "step"}
    BY <1>0, <1>7 DEF Rsp!ProcessPacket, Rsp!target, Rsp!TypeOK
  <2>4. QED
    BY <1>0, <1>7, <2>1, <2>2, <2>3
       DEF Rsp!ProcessPacket, RspTypes, Rsp!TypeOK, Rsp!channels, Rsp!size
<1>8. CASE Rsp!SendPacket
  <2>1. stubThread' \in [pc : Places, data : Rsp!Bodies]
    BY <1>1, <1>8 DEF Rsp!SendPacket, Places
  <2>2. toGdb' \in Seq(Rsp!Chars)
    <3>1. <<"reply", stubThread.data[2]>> \in Rsp!Bodies
      BY <1>0 DEF Rsp!Bodies
    <3>2. QED
      BY <1>0, <1>8, <3>1, PacketWritten DEF Rsp!SendPacket
  <2>3. QED
    BY <1>0, <1>8, <2>1, <2>2
       DEF Rsp!SendPacket, RspTypes, Rsp!TypeOK, Rsp!target, Rsp!bounds,
           Rsp!size
<1>9. CASE Rsp!AwaitAck
  <2> DEFINE ch == Rsp!NextChar
  <2>1. Rsp!GetChar(ch)
    BY <1>9 DEF Rsp!AwaitAck
  <2>2. /\ buf' \in Seq(Rsp!Chars) /\ toStub' \in Seq(Rsp!Chars)
        /\ pos' \in Nat /\ (exit = "no" => pos' + Len(buf') <= BufSize)
    BY <1>0, <2>1, CharRead
  <2>3. stubThread' \in [pc : Places, data : Rsp!Bodies]
    <3>1. \E place \in {"reply", "detach", "toss"} : Rsp!StubGoto(place)
      BY <1>9 DEF Rsp!AwaitAck
    <3>2. QED
      BY <1>1, <3>1 DEF Places
  <2>4. /\ exit' \in {"no", "write", "getchar", "recv", "done"}
        /\ exit' \in {exit, "done"}
    BY <1>0, <1>9 DEF Rsp!AwaitAck, Rsp!TypeOK
  <2>5. UNCHANGED <<toGdb, conn, Rsp!target, gdb, Rsp!bounds>>
    BY <1>9 DEF Rsp!AwaitAck
  <2>6. QED
    BY <1>0, <2>2, <2>3, <2>4, <2>5
       DEF RspTypes, Rsp!TypeOK, Rsp!target, Rsp!bounds, Rsp!size
<1>10. CASE Rsp!Detach
  <2>1. stubThread' \in [pc : Places, data : Rsp!Bodies]
    BY <1>1, <1>10 DEF Rsp!Detach, Places
  <2>2. toStub' \in Seq(Rsp!Chars)
    BY <1>10 DEF Rsp!Detach, Rsp!Disconnect
  <2>3. suspended' \in BOOLEAN /\ conn' \in BOOLEAN
    BY <1>10 DEF Rsp!Detach, Rsp!Disconnect
  <2>4. QED
    BY <1>0, <1>10, <2>1, <2>2, <2>3
       DEF Rsp!Detach, RspTypes, Rsp!TypeOK, Rsp!bounds, Rsp!size
<1>11. QED
  BY <1>2, <1>3, <1>4, <1>5, <1>6, <1>7, <1>8, <1>9, <1>10 DEF Rsp!StubStep

(* So do the program, GDB, and what happens to a channel.                  *)
LEMMA OtherTypesStep ==
    ASSUME Rsp!RspAssumption, SessionsInv, Rsp!Next, ~Rsp!StubStep
    PROVE  RspTypes'
<1>0. /\ RspTypes /\ Rsp!TypeOK /\ Rsp!None \in Rsp!Bodies
      /\ stubThread \in [pc : Places, data : Rsp!Bodies]
      /\ gdb \in [pc : {"stopped", "ack", "reply", "running", "gone"},
                  n : 0 .. MaxCommands, kind : Kinds, intr : BOOLEAN]
      /\ toStub \in Seq(Rsp!Chars) /\ toGdb \in Seq(Rsp!Chars)
      /\ buf \in Seq(Rsp!Chars)
      /\ garbled \in Nat /\ connections \in Nat
      /\ pos \in Nat /\ (exit = "no" => pos + Len(buf) <= BufSize)
  BY CharTypes DEF SessionsInv, RspTypes, Rsp!TypeOK, Rsp!size
<1> DEFINE GdbType == [pc : {"stopped", "ack", "reply", "running", "gone"},
                       n : 0 .. MaxCommands, kind : Kinds, intr : BOOLEAN]
<1>1. CASE Rsp!AcceptConnection
  <2>1. stubThread' \in [pc : Places, data : Rsp!Bodies] /\ gdb' \in GdbType
    BY <1>0, <1>1 DEF Rsp!AcceptConnection, Places
  <2>2. toGdb' \in Seq(Rsp!Chars) /\ conn' \in BOOLEAN /\ connections' \in Nat
    BY <1>0, <1>1 DEF Rsp!AcceptConnection
  <2>3. QED
    BY <1>0, <1>1, <2>1, <2>2
       DEF Rsp!AcceptConnection, RspTypes, Rsp!TypeOK, Rsp!target, Rsp!size
<1>2. CASE Rsp!Fault
  <2>1. faulted' \in BOOLEAN
    BY <1>2 DEF Rsp!Fault
  <2>2. QED
    BY <1>0, <1>2, <2>1
       DEF Rsp!Fault, RspTypes, Rsp!TypeOK, Rsp!channels, Rsp!bounds, Rsp!size
<1>3. CASE Rsp!ExitBegins
  <2>1. exit' \in {"no", "write", "getchar", "recv", "done"}
    BY <1>3 DEF Rsp!ExitBegins
  <2>2. QED
    BY <1>0, <1>3, <2>1
       DEF Rsp!ExitBegins, RspTypes, Rsp!TypeOK, Rsp!channels, Rsp!target,
           Rsp!bounds, Rsp!size
<1>4. CASE Rsp!ExitWrites
  <2>1. toGdb' \in Seq(Rsp!Chars)
    BY <1>0, <1>4, PacketWritten, BodyTypes DEF Rsp!ExitWrites
  <2>2. QED
    BY <1>0, <1>4, <2>1
       DEF Rsp!ExitWrites, RspTypes, Rsp!TypeOK, Rsp!target, Rsp!bounds,
           Rsp!size
<1>5. CASE Rsp!ExitGetChar
  <2>1. /\ buf' \in Seq(Rsp!Chars) /\ pos' \in Nat
        /\ exit' \in {"write", "getchar", "recv", "done"}
    <3>1. CASE buf # << >>
      <4>1. buf' \in Seq(Rsp!Chars)
        <5>1. buf' = Tail(buf)
          BY <1>5, <3>1 DEF Rsp!ExitGetChar
        <5>2. QED
          BY <1>0, <3>1, <5>1
      <4>2. pos' = pos + 1 /\ exit' \in {"done", "write"}
        BY <1>5, <3>1 DEF Rsp!ExitGetChar
      <4>3. QED
        BY <1>0, <4>1, <4>2
    <3>2. CASE buf = << >>
      BY <1>0, <1>5, <3>2 DEF Rsp!ExitGetChar, Rsp!RspAssumption
    <3>3. QED
      BY <3>1, <3>2
  <2>2. QED
    BY <1>0, <1>5, <2>1
       DEF Rsp!ExitGetChar, RspTypes, Rsp!TypeOK, Rsp!target, Rsp!bounds,
           Rsp!size
<1>6. CASE Rsp!ExitRecv
  <2>1. exit' \in {"write", "recv", "done"}
    BY <1>6 DEF Rsp!ExitRecv
  <2>2. buf' \in Seq(Rsp!Chars) /\ toStub' \in Seq(Rsp!Chars) /\ pos' \in Nat
    <3>1. CASE UNCHANGED <<toStub, buf, pos>>
      BY <1>0, <3>1
    <3>2. ASSUME pos' = 1,
                 NEW k \in 1 .. Rsp!Min2(Len(toStub), BufSize),
                 NEW left \in Rsp!Leftovers(Rsp!Min2(k, Len(buf))),
                 buf' = SubSeq(toStub, 2, k) \o SubSeq(buf, k + 1, Len(buf)) \o left,
                 toStub' = SubSeq(toStub, k + 1, Len(toStub))
          PROVE  buf' \in Seq(Rsp!Chars) /\ toStub' \in Seq(Rsp!Chars) /\ pos' \in Nat
      <4>1. k \in 1 .. Len(toStub) /\ k \in Nat /\ Len(buf) \in Nat
        BY <1>0, <3>2, ChannelTypes DEF Rsp!Min2
      <4>2. /\ SubSeq(toStub, 2, k) \in Seq(Rsp!Chars)
            /\ SubSeq(buf, k + 1, Len(buf)) \in Seq(Rsp!Chars)
        BY <1>0, <4>1
      <4>3. left \in Seq(Rsp!Chars)
        <5>1. Rsp!Min2(k, Len(buf)) \in Nat
          BY <4>1 DEF Rsp!Min2
        <5>2. left \in [1 .. Rsp!Min2(k, Len(buf)) -> Rsp!Chars]
          BY <3>2, CharTypes DEF Rsp!Leftovers, Noise
        <5>3. QED
          BY <5>1, <5>2
      <4>4. toStub' \in Seq(Rsp!Chars)
        BY <1>0, <3>2, <4>1
      <4>5. QED
        BY <3>2, <4>2, <4>3, <4>4
    <3>3. QED
      BY <1>6, <3>1, <3>2 DEF Rsp!ExitRecv
  <2>3. QED
    BY <1>0, <1>6, <2>1, <2>2
       DEF Rsp!ExitRecv, RspTypes, Rsp!TypeOK, Rsp!target, Rsp!bounds
<1>7. ASSUME gdb' \in GdbType, toGdb' \in Seq(Rsp!Chars),
             toStub' \in Seq(Rsp!Chars),
             UNCHANGED <<buf, pos, conn, stubThread, Rsp!target, exit,
                         Rsp!bounds>>
      PROVE  RspTypes'
  BY <1>0, <1>7
     DEF RspTypes, Rsp!TypeOK, Rsp!target, Rsp!bounds, Rsp!size
<1>8. CASE Rsp!GdbCommand
  <2>1. PICK kind \in {"cmd", "cont", "detach", "kill"} :
           /\ gdb' = [gdb EXCEPT !.pc = "ack", !.n = @ + 1, !.kind = kind]
           /\ Rsp!SendToStub(Rsp!Packet(<<kind, gdb.n + 1>>))
    BY <1>8 DEF Rsp!GdbCommand
  <2>2. gdb' \in GdbType
    <3>1. gdb.n + 1 \in 0 .. MaxCommands /\ kind \in Kinds
      BY <1>0, <1>8 DEF Rsp!GdbCommand, Kinds, Rsp!RspAssumption
    <3>2. QED
      BY <1>0, <2>1, <3>1
  <2>3. <<kind, gdb.n + 1>> \in Rsp!Bodies
    BY <1>0 DEF Rsp!Bodies
  <2>4. toStub' \in Seq(Rsp!Chars)
    BY <1>0, <1>8, <2>1, <2>3, PacketSent DEF Rsp!GdbCommand
  <2>5. QED
    BY <1>0, <1>7, <1>8, <2>2, <2>4 DEF Rsp!GdbCommand
<1>9. CASE Rsp!GdbInterrupt
  <2>1. gdb' \in GdbType
    BY <1>0, <1>9 DEF Rsp!GdbInterrupt
  <2>2. toStub' \in Seq(Rsp!Chars)
    BY <1>0, <1>9, CharsSent, ShortSeqs DEF Rsp!GdbInterrupt
  <2>3. QED
    BY <1>0, <1>7, <1>9, <2>1, <2>2 DEF Rsp!GdbInterrupt
<1>10. CASE Rsp!GdbAwaitsAck
  <2>1. gdb' \in GdbType
    BY <1>0, <1>10 DEF Rsp!GdbAwaitsAck
  <2>2. toGdb' \in Seq(Rsp!Chars)
    <3>1. CASE toGdb' = SubSeq(toGdb, 5, Len(toGdb))
      BY <1>0, <3>1
    <3>2. CASE toGdb' = Tail(toGdb)
      BY <1>0, <1>10, <3>2 DEF Rsp!GdbAwaitsAck
    <3>3. QED
      BY <1>10, <3>1, <3>2 DEF Rsp!GdbAwaitsAck
  <2>3. toStub' \in Seq(Rsp!Chars)
    <3>1. CASE Rsp!SendToStub(Rsp!Packet(<<gdb.kind, gdb.n>>))
      BY <1>0, <1>10, <3>1, PacketSent, BodyTypes
         DEF Rsp!GdbAwaitsAck, CommandBody
    <3>2. CASE toStub' = toStub
      BY <1>0, <3>2
    <3>3. QED
      BY <1>10, <3>1, <3>2 DEF Rsp!GdbAwaitsAck
  <2>4. QED
    BY <1>0, <1>7, <1>10, <2>1, <2>2, <2>3 DEF Rsp!GdbAwaitsAck
<1>11. CASE Rsp!GdbAwaitsPacket
  <2>1. gdb' \in GdbType
    BY <1>0, <1>11 DEF Rsp!GdbAwaitsPacket, Rsp!Gdb
  <2>2. toGdb' \in Seq(Rsp!Chars)
    BY <1>0, <1>11 DEF Rsp!GdbAwaitsPacket, Rsp!PacketArrived
  <2>3. toStub' \in Seq(Rsp!Chars)
    <3>1. CASE Rsp!SendToStub(<<Rsp!Plus>>)
      BY <1>0, <1>11, <3>1, CharsSent, ShortSeqs DEF Rsp!GdbAwaitsPacket
    <3>2. CASE Rsp!SendToStub(<<Rsp!Minus>>)
      BY <1>0, <1>11, <3>2, CharsSent, ShortSeqs DEF Rsp!GdbAwaitsPacket
    <3>3. QED
      BY <1>11, <3>1, <3>2 DEF Rsp!GdbAwaitsPacket
  <2>4. QED
    BY <1>0, <1>7, <1>11, <2>1, <2>2, <2>3 DEF Rsp!GdbAwaitsPacket
<1>12. CASE Rsp!GdbCrash
  <2>1. gdb' \in GdbType
    BY <1>0, <1>12 DEF Rsp!GdbCrash, Rsp!Gdb
  <2>2. toGdb' \in Seq(Rsp!Chars)
    BY <1>12 DEF Rsp!GdbCrash
  <2>3. QED
    BY <1>0, <1>7, <1>12, <2>1, <2>2 DEF Rsp!GdbCrash
<1>13. CASE Rsp!Garble
  <2>1. toStub' \in Seq(Rsp!Chars) /\ toGdb' \in Seq(Rsp!Chars)
    <3>1. <<"garbled", garbled>> \in Rsp!Bodies
      BY <1>0, BodyTypes
    <3>2. ASSUME NEW i \in DOMAIN toStub, toStub[i].c \in {"data", "xsum"},
                 toStub' = [toStub EXCEPT ![i].v = <<"garbled", garbled>>],
                 toGdb' = toGdb
          PROVE  toStub' \in Seq(Rsp!Chars) /\ toGdb' \in Seq(Rsp!Chars)
      BY <1>0, <3>1, <3>2, CharDamaged
    <3>3. ASSUME NEW i \in DOMAIN toGdb, toGdb[i].c \in {"data", "xsum"},
                 toGdb' = [toGdb EXCEPT ![i].v = <<"garbled", garbled>>],
                 toStub' = toStub
          PROVE  toStub' \in Seq(Rsp!Chars) /\ toGdb' \in Seq(Rsp!Chars)
      BY <1>0, <3>1, <3>3, CharDamaged
    <3>4. QED
      BY <1>13, <3>2, <3>3 DEF Rsp!Garble
  <2>2. garbled' \in Nat
    BY <1>0, <1>13 DEF Rsp!Garble
  <2>3. QED
    BY <1>0, <1>13, <2>1, <2>2
       DEF Rsp!Garble, RspTypes, Rsp!TypeOK, Rsp!target, Rsp!size
<1>14. CASE UNCHANGED Rsp!vars
  BY <1>0, <1>14
     DEF RspTypes, Rsp!TypeOK, Rsp!vars, Rsp!channels, Rsp!target,
         Rsp!bounds, Rsp!size
<1>15. QED
  BY <1>1, <1>2, <1>3, <1>4, <1>5, <1>6, <1>8, <1>9, <1>10, <1>11, <1>12,
     <1>13, <1>14
     DEF Rsp!Next, Rsp!ExitStep, Rsp!GdbReads, Rsp!Ended

(* The stub's thread goes between waiting and tossing.                     *)
LEMMA SettledStep ==
    ASSUME Session, stubThread.pc \in {"wait", "event"},
           stubThread'.pc \in {"wait", "event", "toss"},
           stubThread'.pc = "event" => ~suspended, Incoming' = Incoming,
           UNCHANGED <<toGdb, conn, suspended, gdb, executed, garbled>>
    PROVE  Session'
<1>1. /\ conn' <=> stubThread'.pc # "accept"
      /\ ~conn' => gdb'.pc = "gone"
      /\ stubThread'.pc = "event" => ~suspended'
      /\ executed' <= gdb'.n
  BY DEF Session
<1>2. Coming => Coming'
  BY DEF Coming, Unread, CommandBody
<1>3. Idle => Idle'
  BY DEF Idle, Unread
<1>4. Report(0) <=> Report(0)'
  BY DEF Report, StopBody
<1>5. Report(1) <=> Report(1)'
  BY DEF Report, StopBody
<1>6. Report(5) <=> Report(5)'
  BY DEF Report, StopBody
<1>7. Answer(0) => Answer(0)'
  BY <1>4 DEF Answer, Executing, Replying
<1>8. Answer(1) => Answer(1)'
  BY <1>5 DEF Answer, Executing, Replying
<1>9. Answer(5) => Answer(5)'
  BY <1>6 DEF Answer, Executing, Replying
<1>10. WhenStopped'
  BY <1>3, <1>4 DEF Session, WhenStopped
<1>11. WhenAwaitingAck'
  BY <1>2, <1>4, <1>8, <1>9 DEF Session, WhenAwaitingAck, Unread, StopBody
<1>12. WhenAwaitingReply'
  BY <1>7 DEF Session, WhenAwaitingReply, Unread, Replying
<1>13. WhenRunning'
  BY <1>7 DEF Session, WhenRunning, Unread
<1>14. WhenGone'
  BY <1>2 DEF Session, WhenGone, Unread, Executing
<1>15. QED
  BY <1>1, <1>10, <1>11, <1>12, <1>13, <1>14 DEF Session

(* The stop of the program is reported behind all else.                    *)
LEMMA StopReported ==
    ASSUME Rsp!RspAssumption, RspTypes, Session, stubThread.pc = "event",
           stubThread'.pc = "toss", suspended' = TRUE,
           toGdb' = toGdb \/ Rsp!Write(Rsp!Packet(StopBody)),
           UNCHANGED <<toStub, buf, conn, gdb, executed, garbled>>
    PROVE  Session'
<1>0. /\ toGdb \in Seq(Rsp!Chars) /\ Len(toGdb) \in Nat
      /\ StopBody' = StopBody /\ StopBody \in Rsp!Bodies
      /\ ~suspended
  BY BodyTypes DEF RspTypes, Rsp!TypeOK, StopBody, Session
<1>1. /\ conn' <=> stubThread'.pc # "accept"
      /\ ~conn' => gdb'.pc = "gone"
      /\ stubThread'.pc = "event" => ~suspended'
      /\ executed' <= gdb'.n
  BY DEF Session
<1>2. Incoming' = Incoming /\ Unread' = Unread
  BY DEF Incoming, Unread
<1>3. Coming => Coming'
  BY <1>2 DEF Coming, CommandBody
<1>4. Idle => Idle'
  BY <1>2 DEF Idle
<1>5. gdb.pc # "gone" => Extended(toGdb, toGdb')
  BY <1>0, PacketWritten DEF Extended
<1>6. \A k \in Nat : gdb.pc # "gone" /\ Report(k) => Report(k)'
  <2>1. SUFFICES ASSUME NEW k \in Nat, gdb.pc # "gone", Report(k)
                 PROVE  Report(k)'
    OBVIOUS
  <2>2. Len(toGdb) = k
    BY <1>0, <2>1 DEF Report
  <2>3. CASE toGdb' = toGdb
    BY <2>2, <2>3 DEF Report
  <2>4. CASE Rsp!Write(Rsp!Packet(StopBody))
    <3>1. Len(toGdb') = k + 4 /\ PacketAt(toGdb', k, StopBody, garbled)
      BY <1>0, <2>1, <2>2, <2>4, PacketWritten
    <3>2. QED
      BY <1>0, <3>1 DEF Report
  <2>5. QED
    BY <2>3, <2>4
<1>7. \A k \in Nat : gdb.pc # "gone" /\ Answer(k) => Answer(k)'
  BY <1>6 DEF Answer, Executing, Replying
<1>8. WhenStopped'
  BY <1>4, <1>6 DEF Session, WhenStopped
<1>9. WhenAwaitingAck'
  <2>1. SUFFICES ASSUME gdb.pc = "ack" PROVE WhenAwaitingAck'
    BY DEF WhenAwaitingAck
  <2>2. CASE Coming /\ Report(0)
    BY <1>3, <1>6, <2>1, <2>2 DEF WhenAwaitingAck
  <2>3. CASE Unread = 0 /\ Len(toGdb) >= 1 /\ toGdb[1] = Rsp!Plus /\ Answer(1)
    <3>1. Len(toGdb') >= 1 /\ toGdb'[1] = Rsp!Plus
      BY <1>0, <1>5, <2>1, <2>3 DEF Extended
    <3>2. QED
      BY <1>2, <1>7, <2>1, <2>3, <3>1 DEF WhenAwaitingAck
  <2>4. CASE /\ Unread = 0 /\ Len(toGdb) >= 5 /\ toGdb[5] = Rsp!Plus
             /\ PacketAt(toGdb, 0, StopBody, garbled) /\ Answer(5)
    <3>1. /\ Len(toGdb') >= 5 /\ toGdb'[5] = Rsp!Plus
          /\ PacketAt(toGdb', 0, StopBody, garbled)
      BY <1>0, <1>5, <2>1, <2>4, PacketExtended DEF Extended
    <3>2. QED
      BY <1>0, <1>2, <1>7, <2>1, <2>4, <3>1 DEF WhenAwaitingAck
  <2>5. QED
    BY <2>1, <2>2, <2>3, <2>4 DEF Session, WhenAwaitingAck
<1>10. WhenAwaitingReply'
  BY <1>2, <1>7 DEF Session, WhenAwaitingReply, Replying
<1>11. WhenRunning'
  BY <1>2, <1>7 DEF Session, WhenRunning
<1>12. WhenGone'
  <2>1. gdb.pc = "gone" => Len(toGdb) = 0 /\ Len(toGdb') = 0
    BY <1>0, PacketWritten DEF Session, WhenGone
  <2>2. QED
    BY <1>2, <1>3, <2>1 DEF Session, WhenGone, Executing
<1>13. QED
  BY <1>1, <1>8, <1>9, <1>10, <1>11, <1>12 DEF Session

(* The stub reads a character: everything else comes one place nearer.     *)
LEMMA IncomingShifted ==
    ASSUME Rsp!RspAssumption, RspTypes, Rsp!GetChar(Rsp!NextChar)
    PROVE  /\ Unread \in Nat \ {0} /\ Unread' = Unread - 1
           /\ Rsp!NextChar = Incoming[1]
           /\ Shifted(Incoming, Incoming', 1)
           /\ \A k \in Nat : 1 <= k /\ k <= Unread /\ Silent(Incoming, k)
                => Silent(Incoming', k - 1)
           /\ \A k \in Nat : \A b, g :
                1 <= k /\ k + 4 <= Unread /\ PacketAt(Incoming, k, b, g)
                => PacketAt(Incoming', k - 1, b, g)
<1>1. /\ Unread \in Nat \ {0} /\ Unread' = Unread - 1
      /\ Rsp!NextChar = Incoming[1]
      /\ \A i \in 1 .. Unread - 1 : Incoming'[i] = Incoming[i + 1]
  BY CharRead
<1>2. /\ Len(Incoming) \in Nat /\ Len(Incoming') = Len(Incoming) - 1
      /\ Len(Incoming) = Unread
  BY <1>1 DEF Unread
<1>3. Shifted(Incoming, Incoming', 1)
  BY <1>1, <1>2 DEF Shifted
<1>4. \A k \in Nat : 1 <= k /\ k <= Unread /\ Silent(Incoming, k)
         => Silent(Incoming', k - 1)
  BY <1>2, <1>3, SilentShifted
<1>5. \A k \in Nat : \A b, g :
         1 <= k /\ k + 4 <= Unread /\ PacketAt(Incoming, k, b, g)
         => PacketAt(Incoming', k - 1, b, g)
  BY <1>2, <1>3, PacketShifted
<1>6. QED
  BY <1>1, <1>3, <1>4, <1>5

(* Before a packet, the stub passes over acknowledgements and interrupts.  *)
LEMMA NoiseRead ==
    ASSUME Rsp!RspAssumption, RspTypes, Rsp!GetPacket,
           stubThread.pc = "toss", Incoming[1] \in Noise
    PROVE  stubThread' = stubThread /\ toGdb' = toGdb
<1>1. Rsp!NextChar = Incoming[1]
  BY IncomingShifted DEF Rsp!GetPacket
<1>2. Rsp!NextChar.c # "$"
  BY <1>1, CharKinds
<1>3. QED
  BY <1>2 DEF Rsp!GetPacket, Rsp!PayloadStep

(* The stub reads one more character of the command that GDB has sent.     *)
LEMMA CommandRead ==
    ASSUME Rsp!RspAssumption, RspTypes, Rsp!GetPacket, Coming
    PROVE  \/ Coming' /\ toGdb' = toGdb
           \/ /\ Unread' = 0 /\ executed < gdb.n
              /\ \/ /\ Rsp!Write(<<Rsp!Plus>>)
                    /\ \/ /\ stubThread'.pc = "execute"
                          /\ stubThread'.data = CommandBody
                       \/ gdb.pc = "gone" /\ stubThread'.pc = "toss"
                 \/ Rsp!Write(<<Rsp!Minus>>) /\ stubThread'.pc = "data"
<1> DEFINE ch == Rsp!NextChar
<1>0. /\ Unread \in Nat \ {0} /\ Unread' = Unread - 1 /\ ch = Incoming[1]
      /\ Shifted(Incoming, Incoming', 1)
      /\ Len(Incoming') = Unread' /\ Len(Incoming) = Unread
      /\ stubThread \in [pc : Places, data : Rsp!Bodies]
      /\ executed' = executed /\ gdb' = gdb /\ garbled' = garbled
      /\ CommandBody' = CommandBody
      /\ executed < gdb.n
  BY IncomingShifted
     DEF Rsp!GetPacket, RspTypes, Unread, Rsp!bounds, Coming, CommandBody
<1>1. \A i \in Nat : 1 <= i /\ i < Unread => Incoming'[i] = Incoming[i + 1]
  BY <1>0 DEF Shifted
<1>2. ASSUME stubThread.pc = "toss", Unread >= 4,
             Silent(Incoming, Unread - 4),
             PacketAt(Incoming, Unread - 4, CommandBody, garbled)
      PROVE  Coming' /\ toGdb' = toGdb
  <2>1. CASE Unread = 4
    <3>1. /\ ch.c = "$"
          /\ Incoming'[1].c = "data" /\ Incoming'[2].c = "#"
          /\ Incoming'[3].c = "xsum"
          /\ Meant(Incoming'[1].v, Incoming'[3].v, CommandBody, garbled)
      BY <1>0, <1>1, <1>2, <2>1 DEF PacketAt
    <3>2. stubThread'.pc = "data" /\ toGdb' = toGdb
      BY <1>2, <3>1 DEF Rsp!GetPacket, Rsp!PayloadStep
    <3>3. QED
      BY <1>0, <2>1, <3>1, <3>2 DEF Coming
  <2>2. CASE Unread > 4
    <3>1. Unread - 4 \in Nat /\ 1 <= Unread - 4 /\ Unread - 4 <= Unread
      BY <1>0, <2>2
    <3>2. Incoming[1] \in Noise
      BY <1>2, <3>1 DEF Silent
    <3>3. stubThread' = stubThread /\ toGdb' = toGdb
      BY <1>2, <3>2, NoiseRead
    <3>4. Silent(Incoming', Unread - 4 - 1)
      BY <1>2, <3>1, IncomingShifted DEF Rsp!GetPacket
    <3>5. PacketAt(Incoming', Unread - 4 - 1, CommandBody, garbled)
      BY <1>2, <3>1, IncomingShifted DEF Rsp!GetPacket
    <3>6. Unread - 4 - 1 = Unread' - 4 /\ Unread' >= 4
      BY <1>0, <2>2
    <3>7. QED
      BY <1>0, <1>2, <3>3, <3>4, <3>5, <3>6 DEF Coming
  <2>3. QED
    BY <1>0, <1>2, <2>1, <2>2
<1>3. ASSUME stubThread.pc = "data", Unread = 4,
             PacketAt(Incoming, 0, CommandBody, garbled)
      PROVE  Coming' /\ toGdb' = toGdb
  <2>1. /\ ch.c = "$"
        /\ Incoming'[1].c = "data" /\ Incoming'[2].c = "#"
        /\ Incoming'[3].c = "xsum"
        /\ Meant(Incoming'[1].v, Incoming'[3].v, CommandBody, garbled)
    BY <1>0, <1>1, <1>3 DEF PacketAt
  <2>2. stubThread'.pc = "data" /\ toGdb' = toGdb
    BY <1>3, <2>1 DEF Rsp!GetPacket, Rsp!PayloadStep
  <2>3. QED
    BY <1>0, <1>3, <2>1, <2>2 DEF Coming
<1>4. ASSUME stubThread.pc = "data", Unread = 3,
             Incoming[1].c = "data", Incoming[2].c = "#",
             Incoming[3].c = "xsum",
             Meant(Incoming[1].v, Incoming[3].v, CommandBody, garbled)
      PROVE  Coming' /\ toGdb' = toGdb
  <2>1. Incoming'[1] = Incoming[2] /\ Incoming'[2] = Incoming[3]
    BY <1>0, <1>1, <1>4
  <2>2. /\ stubThread' = [stubThread EXCEPT !.data = ch.v]
        /\ toGdb' = toGdb
    BY <1>0, <1>4 DEF Rsp!GetPacket, Rsp!PayloadStep
  <2>3. stubThread'.pc = "data" /\ stubThread'.data = Incoming[1].v
    BY <1>0, <1>4, <2>2
  <2>4. QED
    BY <1>0, <1>4, <2>1, <2>2, <2>3 DEF Coming
<1>5. ASSUME stubThread.pc = "data", Unread = 2,
             Incoming[1].c = "#", Incoming[2].c = "xsum",
             Meant(stubThread.data, Incoming[2].v, CommandBody, garbled)
      PROVE  Coming' /\ toGdb' = toGdb
  <2>1. Incoming'[1] = Incoming[2]
    BY <1>0, <1>1, <1>5
  <2>2. Rsp!StubGoto("xsum") /\ toGdb' = toGdb
    BY <1>0, <1>5 DEF Rsp!GetPacket, Rsp!PayloadStep, Rsp!StubGoto
  <2>3. stubThread'.pc = "xsum" /\ stubThread'.data = stubThread.data
    BY <1>0, <2>2 DEF Rsp!StubGoto
  <2>4. QED
    BY <1>0, <1>5, <2>1, <2>2, <2>3 DEF Coming
<1>6. ASSUME stubThread.pc = "xsum", Unread = 1,
             Meant(stubThread.data, Incoming[1].v, CommandBody, garbled)
      PROVE  \/ /\ Rsp!Write(<<Rsp!Plus>>)
                /\ \/ /\ stubThread'.pc = "execute"
                      /\ stubThread'.data = CommandBody
                   \/ gdb.pc = "gone" /\ stubThread'.pc = "toss"
             \/ Rsp!Write(<<Rsp!Minus>>) /\ stubThread'.pc = "data"
  <2>1. CASE ch.v = stubThread.data
    <3>1. stubThread.data = CommandBody
      BY <1>0, <1>6, <2>1 DEF Meant
    <3>2. /\ Rsp!Write(<<Rsp!Plus>>)
          /\ \E place \in {"execute"} \cup Rsp!WriteFailed : Rsp!StubGoto(place)
      BY <1>6, <2>1 DEF Rsp!GetPacket
    <3>3. \/ stubThread'.pc = "execute" /\ stubThread'.data = CommandBody
          \/ gdb.pc = "gone" /\ stubThread'.pc = "toss"
      BY <1>0, <3>1, <3>2 DEF Rsp!StubGoto, Rsp!WriteFailed
    <3>4. QED
      BY <3>2, <3>3
  <2>2. CASE ch.v # stubThread.data
    BY <1>6, <2>2 DEF Rsp!GetPacket
  <2>3. QED
    BY <2>1, <2>2
<1>7. stubThread.pc \in {"toss", "data", "xsum"}
  BY DEF Rsp!GetPacket
<1>8. QED
  BY <1>0, <1>2, <1>3, <1>4, <1>5, <1>6, <1>7 DEF Coming

(* A character that GetPacket reads keeps the session what it is.          *)
LEMMA GetPacketStep ==
    ASSUME Rsp!RspAssumption, RspTypes, Session, Rsp!GetPacket
    PROVE  Session'
<1>0. /\ Unread \in Nat \ {0} /\ Unread' = Unread - 1
      /\ \A k \in Nat : 1 <= k /\ k <= Unread /\ Silent(Incoming, k)
           => Silent(Incoming', k - 1)
      /\ stubThread.pc \in {"toss", "data", "xsum"}
      /\ stubThread \in [pc : Places, data : Rsp!Bodies]
      /\ UNCHANGED <<conn, suspended, exit, gdb, executed, garbled>>
      /\ CommandBody' = CommandBody /\ StopBody' = StopBody
      /\ toGdb \in Seq(Rsp!Chars) /\ Len(toGdb) \in Nat
      /\ gdb.pc \in {"stopped", "ack", "reply", "running", "gone"}
  BY IncomingShifted
     DEF Rsp!GetPacket, RspTypes, Rsp!TypeOK, Rsp!target, Rsp!bounds,
         CommandBody, StopBody
<1>1. stubThread'.pc \in {"toss", "data", "xsum", "execute"}
  BY <1>0 DEF Rsp!GetPacket, Rsp!PayloadStep, Rsp!StubGoto, Rsp!WriteFailed
<1>2. /\ conn' <=> stubThread'.pc # "accept"
      /\ ~conn' => gdb'.pc = "gone"
      /\ stubThread'.pc = "event" => ~suspended'
      /\ executed' <= gdb'.n
  BY <1>0, <1>1 DEF Session
<1>3. ASSUME Silent(Incoming, Unread), stubThread.pc = "toss"
      PROVE  /\ stubThread' = stubThread /\ toGdb' = toGdb
             /\ Silent(Incoming', Unread')
  <2>1. Incoming[1] \in Noise
    BY <1>0, <1>3 DEF Silent
  <2>2. Silent(Incoming', Unread - 1)
    BY <1>0, <1>3
  <2>3. QED
    BY <1>0, <1>3, <2>1, <2>2, NoiseRead
<1>4. ASSUME toGdb' = toGdb PROVE \A k : Report(k) => Report(k)'
  BY <1>0, <1>4 DEF Report
<1>5. CASE gdb.pc = "stopped"
  <2>1. Idle /\ Report(0) /\ stubThread.pc = "toss"
    BY <1>0, <1>5 DEF Session, WhenStopped, Idle
  <2>2. Idle'
    BY <1>3, <2>1 DEF Idle
  <2>3. Report(0)'
    BY <1>3, <1>4, <2>1 DEF Idle
  <2>4. QED
    BY <1>0, <1>2, <1>5, <2>2, <2>3
       DEF Session, WhenStopped, WhenAwaitingAck, WhenAwaitingReply,
           WhenRunning, WhenGone
<1>6. CASE gdb.pc = "ack"
  <2>1. Coming /\ Report(0)
    BY <1>0, <1>6 DEF Session, WhenAwaitingAck
  <2>2. WhenAwaitingAck'
    <3>1. CASE Coming' /\ toGdb' = toGdb
      BY <1>4, <2>1, <3>1 DEF WhenAwaitingAck
    <3>2. CASE /\ Unread' = 0 /\ executed < gdb.n
               /\ stubThread'.pc = "execute" /\ stubThread'.data = CommandBody
               /\ Rsp!Write(<<Rsp!Plus>>)
      <4>1. /\ Len(toGdb') = Len(toGdb) + 1
            /\ \A i \in 1 .. Len(toGdb) : toGdb'[i] = toGdb[i]
            /\ toGdb'[Len(toGdb) + 1] = Rsp!Plus
        <5>1. 1 \in 1 .. Len(<<Rsp!Plus>>)
          BY ShortSeqs
        <5>2. QED
          BY <1>6, <3>2, <5>1, CharsWritten, ShortSeqs
      <4>2. Executing'
        BY <1>0, <3>2 DEF Executing
      <4>3. CASE Len(toGdb) = 0
        BY <3>2, <4>1, <4>2, <4>3 DEF WhenAwaitingAck, Answer
      <4>4. CASE Len(toGdb) = 4 /\ PacketAt(toGdb, 0, StopBody, garbled)
        <5>0. Extended(toGdb, toGdb') /\ 0 \in Nat /\ 0 + 4 <= Len(toGdb)
          BY <1>0, <4>1, <4>4 DEF Extended
        <5>1. PacketAt(toGdb', 0, StopBody, garbled)
          BY <1>0, <4>4, <5>0, PacketExtended
        <5>2. PacketAt(toGdb', 0, StopBody', garbled')
          BY <1>0, <5>1
        <5>3. QED
          BY <3>2, <4>1, <4>2, <4>4, <5>2 DEF WhenAwaitingAck, Answer
      <4>5. QED
        BY <2>1, <4>3, <4>4 DEF Report
    <3>3. CASE /\ Unread' = 0 /\ executed < gdb.n
               /\ stubThread'.pc = "data" /\ Rsp!Write(<<Rsp!Minus>>)
      <4>1. /\ Len(toGdb') = Len(toGdb) + 1
            /\ \A i \in 1 .. Len(toGdb) : toGdb'[i] = toGdb[i]
            /\ toGdb'[Len(toGdb) + 1] = Rsp!Minus
        <5>1. 1 \in 1 .. Len(<<Rsp!Minus>>)
          BY ShortSeqs
        <5>2. QED
          BY <1>6, <3>3, <5>1, CharsWritten, ShortSeqs
      <4>2. executed' < gdb'.n
        BY <1>0, <3>3
      <4>3. CASE Len(toGdb) = 0
        BY <3>3, <4>1, <4>2, <4>3 DEF WhenAwaitingAck
      <4>4. CASE Len(toGdb) = 4 /\ PacketAt(toGdb, 0, StopBody, garbled)
        <5>0. Extended(toGdb, toGdb') /\ 0 \in Nat /\ 0 + 4 <= Len(toGdb)
          BY <1>0, <4>1, <4>4 DEF Extended
        <5>1. PacketAt(toGdb', 0, StopBody, garbled)
          BY <1>0, <4>4, <5>0, PacketExtended
        <5>2. PacketAt(toGdb', 0, StopBody', garbled')
          BY <1>0, <5>1
        <5>3. QED
          BY <3>3, <4>1, <4>2, <4>4, <5>2 DEF WhenAwaitingAck
      <4>5. QED
        BY <2>1, <4>3, <4>4 DEF Report
    <3>4. QED
      BY <1>6, <2>1, <3>1, <3>2, <3>3, CommandRead
  <2>3. QED
    BY <1>0, <1>2, <1>6, <2>2
       DEF Session, WhenStopped, WhenAwaitingReply, WhenRunning, WhenGone
<1>7. CASE gdb.pc = "reply"
  BY <1>0, <1>7 DEF Session, WhenAwaitingReply, Replying
<1>8. CASE gdb.pc = "running"
  <2>1. /\ gdb.kind = "cont" /\ Silent(Incoming, Unread) /\ Answer(0)
        /\ stubThread.pc = "toss"
    BY <1>0, <1>8
       DEF Session, WhenRunning, Answer, Executing, Replying
  <2>2. Report(0) /\ executed = gdb.n
    BY <1>0, <2>1 DEF Answer, Executing, Replying
  <2>3. Report(0)'
    BY <1>3, <1>4, <2>1, <2>2
  <2>4. Answer(0)' /\ Silent(Incoming, Unread)'
    BY <1>0, <1>3, <2>1, <2>2, <2>3 DEF Answer
  <2>5. QED
    BY <1>0, <1>2, <1>8, <2>1, <2>4
       DEF Session, WhenStopped, WhenAwaitingAck, WhenAwaitingReply,
           WhenRunning, WhenGone
<1>9. CASE gdb.pc = "gone"
  <2>1. Len(toGdb') = 0
    <3>1. Len(toGdb) = 0
      BY <1>9 DEF Session, WhenGone
    <3>2. CASE Rsp!Write(<<Rsp!Plus>>)
      BY <1>9, <3>2, CharsWritten, ShortSeqs
    <3>3. CASE Rsp!Write(<<Rsp!Minus>>)
      BY <1>9, <3>3, CharsWritten, ShortSeqs
    <3>4. QED
      BY <3>1, <3>2, <3>3 DEF Rsp!GetPacket, Rsp!PayloadStep
  <2>2. WhenGone'
    <3>1. CASE Coming
      <4>1. Unread' = 0 => Silent(Incoming', Unread')
        BY DEF Silent
      <4>2. CASE Coming'
        BY <2>1, <4>2 DEF WhenGone
      <4>3. CASE Unread' = 0 /\ stubThread'.pc \in {"toss", "data"}
        BY <2>1, <4>1, <4>3 DEF WhenGone
      <4>4. CASE /\ Unread' = 0 /\ executed < gdb.n
                 /\ stubThread'.pc = "execute"
                 /\ stubThread'.data = CommandBody
        <5>1. Executing'
          BY <1>0, <4>4 DEF Executing
        <5>2. QED
          BY <2>1, <4>1, <4>4, <5>1 DEF WhenGone
      <4>5. QED
        BY <3>1, <4>2, <4>3, <4>4, CommandRead
    <3>2. CASE Silent(Incoming, Unread) /\ stubThread.pc = "toss"
      BY <1>3, <2>1, <3>2 DEF WhenGone
    <3>3. QED
      BY <1>0, <1>9, <3>1, <3>2 DEF Session, WhenGone, Executing
  <2>3. QED
    BY <1>0, <1>2, <1>9, <2>2
       DEF Session, WhenStopped, WhenAwaitingAck, WhenAwaitingReply,
           WhenRunning
<1>10. QED
  BY <1>0, <1>5, <1>6, <1>7, <1>8, <1>9

(* The connection is closed after GDB has gone: nothing is left to read.   *)
LEMMA ConnectionClosed ==
    ASSUME Session, gdb.pc = "gone", Unread' = 0, ~conn',
           stubThread'.pc = "accept", UNCHANGED <<toGdb, gdb, executed>>
    PROVE  Session'
  BY DEF Session, WhenStopped, WhenAwaitingAck, WhenAwaitingReply,
         WhenRunning, WhenGone

(* Nothing is unread once the socket and the buffer are empty.             *)
LEMMA NothingUnread ==
    ASSUME buf' = << >>, toStub' = << >>
    PROVE  Unread' = 0
  BY DEF Unread, Incoming

(* So does the execution of a command.                                     *)
LEMMA ProcessPacketStep ==
    ASSUME RspTypes, Session, Executing, Rsp!ProcessPacket
    PROVE  Session'
<1>0. /\ stubThread \in [pc : Places, data : Rsp!Bodies]
      /\ stubThread.pc = "execute" /\ stubThread.data = CommandBody
      /\ CommandBody[1] = gdb.kind /\ CommandBody[2] = gdb.n
      /\ CommandBody' = CommandBody /\ StopBody' = StopBody
      /\ Incoming' = Incoming /\ Unread' = Unread
      /\ UNCHANGED <<toGdb, conn, gdb, garbled>>
      /\ gdb.pc \in {"stopped", "ack", "reply", "running", "gone"}
      /\ gdb.n \in Nat
  BY DEF RspTypes, Executing, Rsp!ProcessPacket, CommandBody, StopBody,
         Rsp!channels, Incoming, Unread
<1>1. executed' = gdb.n /\ stubThread'.data = CommandBody
  BY <1>0 DEF Rsp!ProcessPacket, Rsp!StubGoto
<1>2. \/ gdb.kind = "cont" /\ stubThread'.pc = "wait" /\ suspended' = FALSE
      \/ gdb.kind # "cont" /\ stubThread'.pc = "reply"
  BY <1>0 DEF Rsp!ProcessPacket, Rsp!StubGoto
<1>3. /\ conn' <=> stubThread'.pc # "accept"
      /\ ~conn' => gdb'.pc = "gone"
      /\ stubThread'.pc = "event" => ~suspended'
      /\ executed' <= gdb'.n
  BY <1>0, <1>1, <1>2 DEF Session
<1>4. \A k : Answer(k) => Len(toGdb) = k
  BY <1>0 DEF Answer, Replying
<1>5. \A k : Len(toGdb) = k => Answer(k)'
  <2>1. CASE gdb.kind = "cont"
    BY <1>0, <1>1, <1>2, <2>1 DEF Answer, Report
  <2>2. CASE gdb.kind # "cont"
    BY <1>0, <1>1, <1>2, <2>2 DEF Answer, Replying
  <2>3. QED
    BY <2>1, <2>2
<1>6. CASE gdb.pc = "stopped"
  BY <1>0, <1>6 DEF Session, WhenStopped, Idle
<1>7. CASE gdb.pc = "ack"
  BY <1>0, <1>3, <1>4, <1>5, <1>7
     DEF Session, WhenStopped, WhenAwaitingAck, WhenAwaitingReply,
         WhenRunning, WhenGone, Coming
<1>8. CASE gdb.pc = "reply"
  BY <1>0, <1>3, <1>4, <1>5, <1>8
     DEF Session, WhenStopped, WhenAwaitingAck, WhenAwaitingReply,
         WhenRunning, WhenGone, Replying
<1>9. CASE gdb.pc = "running"
  BY <1>0, <1>3, <1>4, <1>5, <1>9
     DEF Session, WhenStopped, WhenAwaitingAck, WhenAwaitingReply,
         WhenRunning, WhenGone
<1>10. CASE gdb.pc = "gone"
  <2>1. /\ Len(toGdb) = 0 /\ Silent(Incoming, Unread)
        /\ gdb.kind # "cont" => Unread = 0
    BY <1>0, <1>10 DEF Session, WhenGone, Coming
  <2>2. QED
    BY <1>0, <1>2, <1>3, <1>10, <2>1
       DEF Session, WhenStopped, WhenAwaitingAck, WhenAwaitingReply,
           WhenRunning, WhenGone
<1>11. QED
  BY <1>0, <1>6, <1>7, <1>8, <1>9, <1>10

(* So does the answer.                                                     *)
LEMMA SendPacketStep ==
    ASSUME Rsp!RspAssumption, RspTypes, Session, Unread = 0,
           gdb.pc # "gone" => Replying, Rsp!SendPacket
    PROVE  Session'
<1>0. /\ stubThread \in [pc : Places, data : Rsp!Bodies]
      /\ stubThread.pc = "reply"
      /\ CommandBody' = CommandBody /\ StopBody' = StopBody
      /\ ReplyBody' = ReplyBody
      /\ Unread' = Unread
      /\ UNCHANGED <<conn, suspended, gdb, executed, garbled>>
      /\ gdb.pc \in {"stopped", "ack", "reply", "running", "gone"}
      /\ Len(toGdb) \in Nat
  BY DEF RspTypes, Rsp!TypeOK, Rsp!SendPacket, CommandBody, StopBody,
         ReplyBody, Incoming, Unread, Rsp!target, Rsp!bounds
<1>1. stubThread'.pc = "ack" /\ stubThread'.data = stubThread.data
  BY <1>0 DEF Rsp!SendPacket, Rsp!StubGoto
<1>2. /\ conn' <=> stubThread'.pc # "accept"
      /\ ~conn' => gdb'.pc = "gone"
      /\ stubThread'.pc = "event" => ~suspended'
      /\ executed' <= gdb'.n
  BY <1>0, <1>1 DEF Session
<1>3. ASSUME gdb.pc # "gone"
      PROVE  /\ Replying /\ Replying'
             /\ Len(toGdb') = Len(toGdb) + 4
             /\ \A i \in 1 .. Len(toGdb) : toGdb'[i] = toGdb[i]
             /\ PacketAt(toGdb', Len(toGdb), ReplyBody, garbled)
  <2>1. /\ ReplyBody \in Rsp!Bodies
        /\ <<"reply", stubThread.data[2]>> = ReplyBody
    BY <1>3, BodyTypes DEF Replying, CommandBody, ReplyBody
  <2>2. Rsp!Write(Rsp!Packet(ReplyBody))
    BY <2>1 DEF Rsp!SendPacket
  <2>3. Replying'
    BY <1>0, <1>1, <1>3 DEF Replying
  <2>4. QED
    BY <1>3, <2>1, <2>2, <2>3, PacketWritten
<1>4. ASSUME gdb.pc # "gone"
      PROVE  \A k : Answer(k) => Len(toGdb) = k /\ Answer(k)'
  BY <1>0, <1>1, <1>3, <1>4 DEF Answer, Executing
<1>5. CASE gdb.pc = "stopped"
  BY <1>0, <1>5 DEF Session, WhenStopped, Idle
<1>6. CASE gdb.pc = "ack"
  <2>1. CASE Len(toGdb) >= 1 /\ toGdb[1] = Rsp!Plus /\ Answer(1)
    <3>1. /\ Len(toGdb') >= 1 /\ Answer(1)' /\ toGdb'[1] = Rsp!Plus
      BY <1>0, <1>3, <1>4, <1>6, <2>1
    <3>2. WhenAwaitingAck'
      BY <1>0, <3>1 DEF WhenAwaitingAck
    <3>3. QED
      BY <1>0, <1>2, <1>6, <3>2
         DEF Session, WhenStopped, WhenAwaitingReply, WhenRunning, WhenGone
  <2>2. CASE /\ Len(toGdb) >= 5 /\ toGdb[5] = Rsp!Plus
             /\ PacketAt(toGdb, 0, StopBody, garbled) /\ Answer(5)
    <3>1. /\ Len(toGdb') >= 5 /\ Answer(5)' /\ toGdb'[5] = Rsp!Plus
      BY <1>0, <1>3, <1>4, <1>6, <2>2
    <3>2. Extended(toGdb, toGdb') /\ 0 \in Nat /\ 0 + 4 <= Len(toGdb)
      BY <1>0, <1>3, <1>6, <2>2 DEF Extended
    <3>3. PacketAt(toGdb', 0, StopBody, garbled)
      BY <1>0, <2>2, <3>2, PacketExtended
    <3>4. WhenAwaitingAck'
      BY <1>0, <3>1, <3>3 DEF WhenAwaitingAck
    <3>5. QED
      BY <1>0, <1>2, <1>6, <3>4
         DEF Session, WhenStopped, WhenAwaitingReply, WhenRunning, WhenGone
  <2>3. QED
    BY <1>0, <1>6, <2>1, <2>2 DEF Session, WhenAwaitingAck, Coming
<1>7. CASE gdb.pc = "reply"
  <2>1. gdb.kind # "cont" /\ Answer(0)
    BY <1>0, <1>7 DEF Session, WhenAwaitingReply
  <2>2. Answer(0)'
    BY <1>4, <1>7, <2>1
  <2>3. QED
    BY <1>0, <1>2, <1>7, <2>1, <2>2
       DEF Session, WhenStopped, WhenAwaitingAck, WhenAwaitingReply,
           WhenRunning, WhenGone
<1>8. CASE gdb.pc = "running"
  BY <1>3, <1>8 DEF Session, WhenRunning, Replying
<1>9. CASE gdb.pc = "gone"
  <2>1. Len(toGdb') = 0
    BY <1>9 DEF Rsp!SendPacket, Rsp!Write
  <2>2. QED
    BY <1>0, <1>1, <1>2, <1>9, <2>1
       DEF Session, WhenStopped, WhenAwaitingAck, WhenAwaitingReply,
           WhenRunning, WhenGone
<1>10. QED
  BY <1>0, <1>5, <1>6, <1>7, <1>8, <1>9

(* The stub's thread reads what it takes for an acknowledgement.           *)
LEMMA AwaitAckStep ==
    ASSUME Rsp!RspAssumption, RspTypes, Session, Rsp!AwaitAck
    PROVE  \/ Session' /\ exit' = exit
           \/ /\ exit' = "done" /\ gdb.pc = "gone"
              /\ stubThread'.pc = "toss"
<1>0. /\ Unread \in Nat \ {0} /\ Unread' = Unread - 1
      /\ Rsp!NextChar = Incoming[1]
      /\ \A k \in Nat : \A b, g :
           1 <= k /\ k + 4 <= Unread /\ PacketAt(Incoming, k, b, g)
           => PacketAt(Incoming', k - 1, b, g)
      /\ stubThread.pc = "ack"
      /\ stubThread \in [pc : Places, data : Rsp!Bodies]
      /\ UNCHANGED <<toGdb, conn, suspended, gdb, executed, garbled>>
      /\ CommandBody' = CommandBody /\ StopBody' = StopBody
      /\ gdb.pc \in {"stopped", "ack", "reply", "running", "gone"}
  BY IncomingShifted
     DEF Rsp!AwaitAck, RspTypes, Rsp!target, Rsp!bounds, CommandBody, StopBody
<1>1. /\ stubThread'.data = stubThread.data
      /\ Incoming[1] # Rsp!Plus =>
           stubThread'.pc = "reply" /\ exit' = exit
      /\ Incoming[1] = Rsp!Plus /\ stubThread.data[1] = "kill" =>
           stubThread'.pc = "toss" /\ exit' = "done"
      /\ Incoming[1] = Rsp!Plus /\ stubThread.data[1] = "detach" =>
           stubThread'.pc = "detach" /\ exit' = exit
      /\ Incoming[1] = Rsp!Plus /\ stubThread.data[1] \notin {"kill", "detach"}
           => stubThread'.pc = "toss" /\ exit' = exit
  BY <1>0 DEF Rsp!AwaitAck, Rsp!StubGoto
<1>2. /\ conn' <=> stubThread'.pc # "accept"
      /\ ~conn' => gdb'.pc = "gone"
      /\ stubThread'.pc = "event" => ~suspended'
      /\ executed' <= gdb'.n
  BY <1>0, <1>1 DEF Session
<1>3. Unread' = 0 => Silent(Incoming', Unread')
  BY DEF Silent
<1>4. Report(0) => Report(0)'
  BY <1>0 DEF Report
<1>5. ASSUME Coming PROVE Coming' /\ exit' = exit
  <2>1. /\ stubThread.data[1] = "cmd" /\ Unread = 5
        /\ Incoming[1] = Rsp!Plus
        /\ PacketAt(Incoming, 1, CommandBody, garbled)
        /\ executed < gdb.n
    BY <1>0, <1>5 DEF Coming
  <2>2. PacketAt(Incoming', 1 - 1, CommandBody, garbled)
    BY <1>0, <2>1
  <2>3. stubThread'.pc = "toss" /\ exit' = exit
    BY <1>1, <2>1
  <2>4. Unread' = 4 /\ Unread' - 4 = 0 /\ 1 - 1 = 0
    BY <1>0, <2>1
  <2>5. Silent(Incoming', 0)
    BY DEF Silent
  <2>6. QED
    BY <1>0, <2>1, <2>2, <2>3, <2>4, <2>5 DEF Coming
<1>6. CASE gdb.pc = "stopped"
  <2>1. /\ stubThread.data[1] = "cmd" /\ Unread = 1
        /\ Incoming[1] = Rsp!Plus /\ Report(0)
    BY <1>0, <1>6 DEF Session, WhenStopped, Idle
  <2>2. stubThread'.pc = "toss" /\ exit' = exit /\ Unread' = 0
    BY <1>0, <1>1, <2>1
  <2>3. Idle' /\ Report(0)'
    BY <1>3, <1>4, <2>1, <2>2 DEF Idle
  <2>4. QED
    BY <1>0, <1>2, <1>6, <2>2, <2>3
       DEF Session, WhenStopped, WhenAwaitingAck, WhenAwaitingReply,
           WhenRunning, WhenGone
<1>7. CASE gdb.pc = "ack"
  <2>1. Coming /\ Report(0)
    BY <1>0, <1>7 DEF Session, WhenAwaitingAck
  <2>2. WhenAwaitingAck' /\ exit' = exit
    BY <1>4, <1>5, <2>1 DEF WhenAwaitingAck
  <2>3. QED
    BY <1>0, <1>2, <1>7, <2>2
       DEF Session, WhenStopped, WhenAwaitingReply, WhenRunning, WhenGone
<1>8. CASE gdb.pc = "reply"
  <2>1. /\ gdb.kind # "cont" /\ Replying /\ Len(toGdb) = 0
        /\ Unread = 1 /\ Incoming[1] = Rsp!Minus
    BY <1>0, <1>8 DEF Session, WhenAwaitingReply
  <2>2. stubThread'.pc = "reply" /\ exit' = exit /\ Unread' = 0
    BY <1>0, <1>1, <2>1, CharKinds
  <2>3. Replying'
    BY <1>0, <1>1, <2>1, <2>2 DEF Replying
  <2>4. Answer(0)'
    BY <1>0, <2>1, <2>2, <2>3 DEF Answer
  <2>5. QED
    BY <1>0, <1>2, <1>8, <2>1, <2>2, <2>4
       DEF Session, WhenStopped, WhenAwaitingAck, WhenAwaitingReply,
           WhenRunning, WhenGone
<1>9. CASE gdb.pc = "running"
  BY <1>0, <1>9 DEF Session, WhenRunning, Answer, Executing, Replying
<1>10. CASE gdb.pc = "gone"
  <2>1. Len(toGdb') = 0
    BY <1>0, <1>10 DEF Session, WhenGone
  <2>2. CASE exit' = "done" /\ stubThread'.pc = "toss"
    BY <1>10, <2>2
  <2>3. CASE ~(exit' = "done" /\ stubThread'.pc = "toss")
    <3>1. WhenGone' /\ exit' = exit
      <4>1. CASE Coming
        BY <1>5, <2>1, <4>1 DEF WhenGone
      <4>2. CASE Unread = 1
        <5>1. Unread' = 0
          BY <1>0, <4>2
        <5>2. /\ stubThread'.pc \in {"toss", "detach", "reply"}
              /\ exit' = exit
          BY <1>1, <2>3
        <5>3. QED
          BY <1>3, <2>1, <5>1, <5>2 DEF WhenGone
      <4>3. QED
        BY <1>0, <1>10, <4>1, <4>2 DEF Session, WhenGone, Executing
    <3>2. QED
      BY <1>0, <1>2, <1>10, <3>1
         DEF Session, WhenStopped, WhenAwaitingAck, WhenAwaitingReply,
             WhenRunning
  <2>4. QED
    BY <2>2, <2>3
<1>11. QED
  BY <1>0, <1>6, <1>7, <1>8, <1>9, <1>10

(* GDB connects anew, to a stub that has nothing left to read.             *)
LEMMA AcceptStep ==
    ASSUME Rsp!RspAssumption, RspTypes, Session, Rsp!AcceptConnection,
           Unread = 0
    PROVE  Session'
<1>0. /\ gdb \in [pc : {"stopped", "ack", "reply", "running", "gone"},
                  n : 0 .. MaxCommands, kind : Kinds, intr : BOOLEAN]
      /\ executed <= gdb.n
  BY DEF RspTypes, Session
<1>1. /\ gdb'.pc = "stopped" /\ gdb'.n = gdb.n
      /\ conn' = TRUE /\ stubThread'.pc = "wait" /\ executed' = executed
      /\ Unread' = 0 /\ Len(toGdb') = 0
  BY <1>0 DEF Rsp!AcceptConnection, Unread, Incoming
<1>2. Idle'
  BY <1>1 DEF Idle, Silent
<1>3. Report(0)'
  BY <1>1 DEF Report
<1>4. QED
  BY <1>0, <1>1, <1>2, <1>3
     DEF Session, WhenStopped, WhenAwaitingAck, WhenAwaitingReply,
         WhenRunning, WhenGone

(* Every step of the stub's thread, before the program exits.              *)
LEMMA StubSessionStep ==
    ASSUME Rsp!RspAssumption, SessionsInv, exit = "no", Rsp!StubStep
    PROVE  /\ SessionInv'
           /\ exit' # "no" =>
                /\ exit' = "done" /\ gdb.pc = "gone"
                /\ \/ stubThread'.pc = "toss"
                   \/ stubThread'.pc = "accept" /\ buf' = << >>
<1>0. /\ RspTypes /\ Session /\ Rsp!Alive
      /\ stubThread \in [pc : Places, data : Rsp!Bodies]
  BY DEF SessionsInv, SessionInv, Rsp!Alive, RspTypes
<1>1. \A place : Rsp!StubGoto(place) => stubThread'.pc = place
  BY <1>0 DEF Rsp!StubGoto
<1>2. CASE Rsp!WaitForDebugEvent
  <2>1. Incoming' = Incoming
    BY <1>2 DEF Rsp!WaitForDebugEvent, Rsp!channels, Incoming
  <2>2. Session'
    BY <1>0, <1>1, <1>2, <2>1, SettledStep
       DEF Rsp!WaitForDebugEvent, Rsp!channels, Rsp!target, Rsp!bounds
  <2>3. QED
    BY <1>2, <2>2 DEF SessionInv, Rsp!WaitForDebugEvent
<1>3. CASE Rsp!WaitForDebugStubEvent
  <2>1. Incoming' = Incoming
    BY <1>0, <1>3, DataBuffered DEF Rsp!WaitForDebugStubEvent, Incoming
  <2>2. Session'
    BY <1>0, <1>1, <1>3, <2>1, SettledStep
       DEF Rsp!WaitForDebugStubEvent, Rsp!target, Rsp!bounds
  <2>3. QED
    BY <1>3, <2>2 DEF SessionInv, Rsp!WaitForDebugStubEvent
<1>4. CASE Rsp!ProcessDebugEvent
  <2>1. Incoming' = Incoming
    BY <1>4 DEF Rsp!ProcessDebugEvent, Incoming
  <2>2. Session'
    <3>1. CASE stubThread'.pc = "wait" /\ UNCHANGED <<Rsp!target, toGdb>>
      BY <1>0, <1>4, <2>1, <3>1, SettledStep
         DEF Rsp!ProcessDebugEvent, Rsp!target, Rsp!bounds
    <3>2. CASE /\ suspended' = TRUE /\ stubThread'.pc = "toss"
               /\ toGdb' = toGdb \/ Rsp!Write(Rsp!Packet(StopBody))
      BY <1>0, <1>4, <3>2, StopReported DEF Rsp!ProcessDebugEvent, Rsp!bounds
    <3>3. QED
      BY <1>1, <1>4, <3>1, <3>2 DEF Rsp!ProcessDebugEvent, StopBody
  <2>3. QED
    BY <1>4, <2>2 DEF SessionInv, Rsp!ProcessDebugEvent
<1>5. CASE Rsp!GetPacket
  BY <1>0, <1>5, GetPacketStep DEF SessionInv, Rsp!GetPacket
<1>6. CASE Rsp!ConnectionLost
  <2>1. /\ gdb.pc = "gone" /\ buf' = << >> /\ toStub' = << >> /\ ~conn'
        /\ stubThread'.pc = "accept" /\ UNCHANGED <<toGdb, gdb, executed>>
        /\ exit' \in {"no", "done"}
    BY <1>1, <1>6
       DEF Rsp!ConnectionLost, Rsp!AtEof, Rsp!Disconnect, Rsp!bounds
  <2>2. Session'
    BY <1>0, <2>1, NothingUnread, ConnectionClosed
  <2>3. QED
    BY <2>1, <2>2 DEF SessionInv
<1>7. CASE Rsp!ProcessPacket
  <2>1. Executing
    BY <1>0, <1>7, StubSituation DEF Rsp!ProcessPacket
  <2>2. QED
    BY <1>0, <1>7, <2>1, ProcessPacketStep DEF SessionInv, Rsp!ProcessPacket
<1>8. CASE Rsp!SendPacket
  <2>1. Unread = 0 /\ (gdb.pc # "gone" => Replying)
    BY <1>0, <1>8, StubSituation DEF Rsp!SendPacket
  <2>2. QED
    BY <1>0, <1>8, <2>1, SendPacketStep DEF SessionInv, Rsp!SendPacket
<1>9. CASE Rsp!AwaitAck
  BY <1>0, <1>9, AwaitAckStep DEF SessionInv
<1>10. CASE Rsp!Detach
  <2>1. Unread = 0 /\ gdb.pc = "gone"
    BY <1>0, <1>10, StubSituation DEF Rsp!Detach
  <2>2. buf = << >>
    BY <1>0, <2>1, ChannelTypes
  <2>3. Session'
    BY <1>0, <1>1, <1>10, <2>1, <2>2, NothingUnread, ConnectionClosed
       DEF Rsp!Detach, Rsp!Disconnect, Rsp!bounds
  <2>4. QED
    BY <1>10, <2>3 DEF SessionInv, Rsp!Detach
<1>11. QED
  BY <1>2, <1>3, <1>4, <1>5, <1>6, <1>7, <1>8, <1>9, <1>10 DEF Rsp!StubStep

(* Every step of the stub's thread, once the program exits.                *)
LEMMA StubExitStep ==
    ASSUME Rsp!RspAssumption, SessionsInv, Rsp!StubStep
    PROVE  ExitInv'
<1>0. /\ RspTypes /\ gdb' = gdb
      /\ stubThread \in [pc : Places, data : Rsp!Bodies]
      /\ exit \in {"no", "write", "getchar", "recv", "done"}
      /\ Rsp!Alive
  BY DEF SessionsInv, RspTypes, Rsp!TypeOK, Rsp!StubStep,
         Rsp!WaitForDebugEvent, Rsp!WaitForDebugStubEvent,
         Rsp!ProcessDebugEvent, Rsp!GetPacket, Rsp!ConnectionLost,
         Rsp!ProcessPacket, Rsp!SendPacket, Rsp!AwaitAck, Rsp!Detach
<1>1. CASE exit = "no"
  <2>1. SUFFICES ASSUME exit' # "no" PROVE ExitInv'
    BY DEF ExitInv
  <2>2. /\ exit' = "done" /\ gdb.pc = "gone"
        /\ \/ stubThread'.pc = "toss"
           \/ stubThread'.pc = "accept" /\ buf' = << >>
    BY <1>1, <2>1, StubSessionStep
  <2>3. toGdb' = toGdb
    BY <1>1, <2>1
       DEF Rsp!StubStep, Rsp!WaitForDebugEvent, Rsp!WaitForDebugStubEvent,
           Rsp!ProcessDebugEvent, Rsp!GetPacket, Rsp!ConnectionLost,
           Rsp!ProcessPacket, Rsp!SendPacket, Rsp!AwaitAck, Rsp!Detach
  <2>4. Len(toGdb) = 0
    BY <1>1, <2>2 DEF SessionsInv, SessionInv, Session, WhenGone
  <2>5. QED
    BY <1>0, <2>2, <2>3, <2>4 DEF ExitInv
<1>2. CASE exit # "no"
  <2>1. stubThread.pc \in {"wait", "event"} /\ Rsp!ExitHoldsMutex
    BY <1>0, <1>2 DEF SessionsInv, ExitInv, Rsp!Alive, Rsp!ExitHoldsMutex
  <2>2. Rsp!WaitForDebugStubEvent
    BY <2>1
       DEF Rsp!StubStep, Rsp!WaitForDebugEvent, Rsp!ProcessDebugEvent,
           Rsp!GetPacket, Rsp!ConnectionLost, Rsp!ProcessPacket,
           Rsp!SendPacket, Rsp!AwaitAck, Rsp!Detach
  <2>3. /\ stubThread'.pc = "event"
        /\ UNCHANGED <<toGdb, gdb, exit>>
    BY <1>0, <2>2 DEF Rsp!WaitForDebugStubEvent, Rsp!StubGoto
  <2>4. QED
    BY <1>2, <2>3 DEF SessionsInv, ExitInv
<1>3. QED
  BY <1>1, <1>2

(* GDB sends a command, to which the stub has not come yet.                *)
LEMMA GdbCommandStep ==
    ASSUME Rsp!RspAssumption, RspTypes, Session, Rsp!Alive, Rsp!GdbCommand
    PROVE  Session'
<1>0. /\ gdb \in [pc : {"stopped", "ack", "reply", "running", "gone"},
                  n : 0 .. MaxCommands, kind : Kinds, intr : BOOLEAN]
      /\ gdb.pc = "stopped" /\ conn
      /\ UNCHANGED <<toGdb, buf, conn, stubThread, suspended, executed,
                     garbled>>
      /\ Idle /\ Report(0) /\ executed <= gdb.n
      /\ executed \in Nat /\ gdb.n \in Nat
      /\ Unread \in Nat
  BY FirstUnread
     DEF RspTypes, Rsp!TypeOK, Rsp!GdbCommand, Session, WhenStopped,
         Rsp!target, Rsp!bounds, Rsp!RspAssumption
<1>1. PICK kind \in {"cmd", "cont", "detach", "kill"} :
         /\ gdb' = [gdb EXCEPT !.pc = "ack", !.n = @ + 1, !.kind = kind]
         /\ Rsp!SendToStub(Rsp!Packet(<<kind, gdb.n + 1>>))
  BY DEF Rsp!GdbCommand
<1>2. /\ gdb'.pc = "ack" /\ gdb'.n = gdb.n + 1
      /\ CommandBody' = <<kind, gdb.n + 1>>
      /\ CommandBody' \in Rsp!Bodies
  BY <1>0, <1>1 DEF CommandBody, Rsp!Bodies
<1>3. /\ Unread' = Unread + 4
      /\ \A i \in 1 .. Unread : Incoming'[i] = Incoming[i]
      /\ PacketAt(Incoming', Unread, CommandBody', garbled')
  BY <1>0, <1>1, <1>2, PacketSent
<1>4. executed' < gdb'.n
  BY <1>0, <1>2
<1>5. Coming'
  <2>1. CASE stubThread.pc \in {"wait", "event", "toss"}
    <3>1. Unread' - 4 = Unread /\ Unread' >= 4
      BY <1>0, <1>3
    <3>2. Silent(Incoming', Unread)
      BY <1>0, <1>3 DEF Idle, Silent
    <3>3. QED
      BY <1>0, <1>3, <1>4, <2>1, <3>1, <3>2 DEF Coming
  <2>2. CASE /\ stubThread.pc = "ack" /\ stubThread.data[1] = "cmd"
             /\ Unread = 1 /\ Incoming[1] = Rsp!Plus
    <3>1. Unread' = 5 /\ Incoming'[1] = Rsp!Plus
      BY <1>3, <2>2
    <3>2. QED
      BY <1>0, <1>3, <1>4, <2>2, <3>1 DEF Coming
  <2>3. QED
    BY <1>0, <2>1, <2>2 DEF Idle
<1>6. Report(0)'
  BY <1>0 DEF Report, StopBody
<1>7. QED
  BY <1>0, <1>2, <1>4, <1>5, <1>6
     DEF Session, WhenStopped, WhenAwaitingAck, WhenAwaitingReply,
         WhenRunning, WhenGone

(* So does an interrupt.                                                   *)
LEMMA GdbInterruptStep ==
    ASSUME Rsp!RspAssumption, RspTypes, Session, Rsp!Alive, Rsp!GdbInterrupt
    PROVE  Session'
<1>0. /\ gdb \in [pc : {"stopped", "ack", "reply", "running", "gone"},
                  n : 0 .. MaxCommands, kind : Kinds, intr : BOOLEAN]
      /\ gdb.pc = "running" /\ conn
      /\ UNCHANGED <<toGdb, buf, conn, stubThread, suspended, executed,
                     garbled>>
      /\ gdb.kind = "cont" /\ Silent(Incoming, Unread) /\ Answer(0)
      /\ Unread \in Nat
  BY FirstUnread
     DEF RspTypes, Rsp!GdbInterrupt, Session, WhenRunning, Rsp!target,
         Rsp!bounds
<1>1. /\ gdb'.pc = "running" /\ gdb'.n = gdb.n /\ gdb'.kind = gdb.kind
      /\ Rsp!SendToStub(<<Rsp!CtrlC>>)
  BY <1>0 DEF Rsp!GdbInterrupt
<1>2. /\ Unread' = Unread + 1
      /\ \A i \in 1 .. Unread : Incoming'[i] = Incoming[i]
      /\ Incoming'[Unread + 1] = Rsp!CtrlC
  <2>1. 1 \in 1 .. Len(<<Rsp!CtrlC>>)
    BY ShortSeqs
  <2>2. QED
    BY <1>0, <1>1, <2>1, CharsSent, ShortSeqs
<1>3. Silent(Incoming', Unread')
  BY <1>0, <1>2, CharKinds DEF Silent, Noise
<1>4. Answer(0)'
  BY <1>0, <1>1
     DEF Answer, Executing, Replying, Report, CommandBody, StopBody
<1>5. QED
  BY <1>0, <1>1, <1>3, <1>4
     DEF Session, WhenStopped, WhenAwaitingAck, WhenAwaitingReply,
         WhenRunning, WhenGone

(* What the stub has sent moves on as GDB takes the characters in front.   *)
LEMMA AnswerShifted ==
    ASSUME NEW m \in Nat, NEW k \in Nat, m <= k, Len(toGdb) \in Nat,
           Len(toGdb') = Len(toGdb) - m, Shifted(toGdb, toGdb', m),
           gdb'.n = gdb.n, gdb'.kind = gdb.kind,
           UNCHANGED <<stubThread, suspended, executed, garbled>>
    PROVE  /\ Report(k) => Report(k - m)'
           /\ Answer(k) => Answer(k - m)'
<1>0. /\ CommandBody' = CommandBody /\ ReplyBody' = ReplyBody
      /\ StopBody' = StopBody
  BY DEF CommandBody, ReplyBody, StopBody
<1>1. ASSUME NEW b, Len(toGdb) = k + 4, PacketAt(toGdb, k, b, garbled)
      PROVE  PacketAt(toGdb', k - m, b, garbled)
  BY <1>1, PacketShifted
<1>2. Len(toGdb) = k => Len(toGdb') = k - m
  OBVIOUS
<1>3. Len(toGdb) = k + 4 => Len(toGdb') = (k - m) + 4
  OBVIOUS
<1>4. Report(k) => Report(k - m)'
  BY <1>0, <1>1, <1>2, <1>3 DEF Report
<1>5. Answer(k) => Answer(k - m)'
  BY <1>0, <1>1, <1>2, <1>3, <1>4 DEF Answer, Executing, Replying
<1>6. QED
  BY <1>4, <1>5

(* What GDB takes from its channel is gone from the front of it.           *)
LEMMA GdbTakes ==
    ASSUME RspTypes
    PROVE  /\ Len(toGdb) \in Nat
           /\ toGdb # << >> /\ toGdb' = Tail(toGdb) =>
                /\ Len(toGdb) >= 1 /\ Len(toGdb') = Len(toGdb) - 1
                /\ Shifted(toGdb, toGdb', 1)
           /\ toGdb' = SubSeq(toGdb, 5, Len(toGdb)) =>
                /\ Len(toGdb) >= 4 => Len(toGdb') = Len(toGdb) - 4
                /\ Shifted(toGdb, toGdb', 4)
           /\ toGdb # << >> => Head(toGdb) = toGdb[1]
<1>0. toGdb \in Seq(Rsp!Chars) /\ Len(toGdb) \in Nat
  BY DEF RspTypes, Rsp!TypeOK
<1>1. ASSUME toGdb # << >>, toGdb' = Tail(toGdb)
      PROVE  /\ Len(toGdb) >= 1 /\ Len(toGdb') = Len(toGdb) - 1
             /\ Shifted(toGdb, toGdb', 1)
  BY <1>0, <1>1 DEF Shifted
<1>2. ASSUME toGdb' = SubSeq(toGdb, 5, Len(toGdb))
      PROVE  /\ Len(toGdb) >= 4 => Len(toGdb') = Len(toGdb) - 4
             /\ Shifted(toGdb, toGdb', 4)
  <2>1. CASE Len(toGdb) >= 4
    <3>1. \A i \in 5 .. Len(toGdb) : toGdb[i] \in Rsp!Chars
      BY <1>0
    <3>2. /\ Len(toGdb') = Len(toGdb) - 4
          /\ \A i \in 1 .. Len(toGdb) - 4 : toGdb'[i] = toGdb[i + 4]
      <4>1. /\ Len(SubSeq(toGdb, 5, Len(toGdb)))
                 = IF 5 <= Len(toGdb) THEN Len(toGdb) - 5 + 1 ELSE 0
            /\ \A i \in 1 .. Len(toGdb) - 5 + 1 :
                 SubSeq(toGdb, 5, Len(toGdb))[i] = toGdb[5 + i - 1]
        <5>1. 5 \in Int /\ Len(toGdb) \in Int
          BY <1>0
        <5>2. QED
          BY <3>1, <5>1, SubSeqProperties
      <4>2. /\ Len(toGdb) - 5 + 1 = Len(toGdb) - 4
            /\ \A i \in 1 .. Len(toGdb) - 4 : 5 + i - 1 = i + 4
        BY <1>0
      <4>3. QED
        BY <1>0, <1>2, <2>1, <4>1, <4>2
    <3>3. QED
      BY <1>0, <3>2 DEF Shifted
  <2>2. CASE Len(toGdb) < 4
    <3>1. toGdb' = << >>
      BY <1>0, <1>2, <2>2
    <3>2. QED
      BY <1>0, <2>2, <3>1 DEF Shifted
  <2>3. QED
    BY <1>0, <2>1, <2>2
<1>3. QED
  BY <1>0, <1>1, <1>2

(* GDB looks for the acknowledgement of its command.                       *)
LEMMA GdbAwaitsAckStep ==
    ASSUME Rsp!RspAssumption, RspTypes, Session, Rsp!Alive, Rsp!GdbAwaitsAck
    PROVE  Session'
<1>0. /\ gdb \in [pc : {"stopped", "ack", "reply", "running", "gone"},
                  n : 0 .. MaxCommands, kind : Kinds, intr : BOOLEAN]
      /\ gdb.pc = "ack" /\ conn
      /\ UNCHANGED <<buf, conn, stubThread, suspended, executed, garbled>>
      /\ Len(toGdb) \in Nat /\ toGdb # << >> /\ Len(toGdb) >= 1
      /\ executed <= gdb.n
      /\ stubThread.pc = "event" => ~suspended
      /\ stubThread.pc # "accept"
      /\ Unread \in Nat /\ StopBody' = StopBody
  BY GdbTakes, FirstUnread
     DEF RspTypes, Rsp!TypeOK, Rsp!GdbAwaitsAck, Session, Rsp!target,
         Rsp!bounds, StopBody
<1>1. CASE Head(toGdb).c = "$"
  <2>1. /\ toGdb' = SubSeq(toGdb, 5, Len(toGdb))
        /\ gdb' = gdb /\ toStub' = toStub
    BY <1>1 DEF Rsp!GdbAwaitsAck
  <2>2. /\ Len(toGdb) >= 4 => Len(toGdb') = Len(toGdb) - 4
        /\ Shifted(toGdb, toGdb', 4) /\ toGdb[1].c = "$"
    BY <1>0, <1>1, <2>1, GdbTakes
  <2>3. Incoming' = Incoming /\ Unread' = Unread /\ CommandBody' = CommandBody
    BY <1>0, <2>1 DEF Incoming, Unread, CommandBody
  <2>4. CASE Coming /\ Report(0)
    <3>1. Len(toGdb) = 4
      BY <1>0, <2>4 DEF Report
    <3>2. Report(0)'
      BY <1>0, <2>2, <3>1 DEF Report
    <3>3. Coming'
      BY <1>0, <2>1, <2>3, <2>4 DEF Coming
    <3>4. QED
      BY <1>0, <2>1, <3>2, <3>3
         DEF Session, WhenStopped, WhenAwaitingAck, WhenAwaitingReply,
             WhenRunning, WhenGone
  <2>5. CASE /\ executed < gdb.n
             /\ stubThread.pc = "data" /\ Unread = 0
             /\ Len(toGdb) = 5 /\ PacketAt(toGdb, 0, StopBody, garbled)
             /\ toGdb[5] = Rsp!Minus
    <3>1. Len(toGdb') = 1 /\ toGdb'[1] = Rsp!Minus
      BY <2>2, <2>5 DEF Shifted
    <3>2. QED
      BY <1>0, <2>1, <2>3, <2>5, <3>1
         DEF Session, WhenStopped, WhenAwaitingAck, WhenAwaitingReply,
             WhenRunning, WhenGone
  <2>6. CASE /\ Unread = 0 /\ Len(toGdb) >= 5
             /\ PacketAt(toGdb, 0, StopBody, garbled)
             /\ toGdb[5] = Rsp!Plus /\ Answer(5)
    <3>1. Len(toGdb') >= 1 /\ toGdb'[1] = Rsp!Plus
      BY <1>0, <2>2, <2>6 DEF Shifted
    <3>2. Answer(5 - 4)'
      BY <1>0, <2>1, <2>2, <2>6, AnswerShifted
    <3>3. Answer(1)'
      BY <3>2
    <3>4. QED
      BY <1>0, <2>1, <2>3, <2>6, <3>1, <3>3
         DEF Session, WhenStopped, WhenAwaitingAck, WhenAwaitingReply,
             WhenRunning, WhenGone
  <2>7. QED
    BY <1>0, <2>2, <2>4, <2>5, <2>6, CharKinds DEF Session, WhenAwaitingAck
<1>2. CASE Head(toGdb).c # "$"
  <2>1. /\ Len(toGdb') = Len(toGdb) - 1 /\ Shifted(toGdb, toGdb', 1)
        /\ Head(toGdb) = toGdb[1]
    BY <1>0, <1>2, GdbTakes DEF Rsp!GdbAwaitsAck
  <2>2. CASE /\ Unread = 0 /\ toGdb[1] = Rsp!Plus /\ Answer(1)
    <3>1. /\ gdb' = [gdb EXCEPT !.pc = IF gdb.kind = "cont" THEN "running"
                                       ELSE "reply",
                               !.intr = FALSE]
          /\ toStub' = toStub
      BY <1>2, <2>1, <2>2 DEF Rsp!GdbAwaitsAck
    <3>2. /\ gdb'.pc = IF gdb.kind = "cont" THEN "running" ELSE "reply"
          /\ gdb'.n = gdb.n /\ gdb'.kind = gdb.kind
          /\ Unread' = 0
      BY <1>0, <2>2, <3>1 DEF Unread, Incoming
    <3>3. Answer(1 - 1)'
      BY <1>0, <2>1, <2>2, <3>2, AnswerShifted
    <3>4. Answer(0)'
      BY <3>3
    <3>5. Silent(Incoming, Unread)'
      BY <3>2 DEF Silent
    <3>6. QED
      BY <1>0, <3>2, <3>4, <3>5
         DEF Session, WhenStopped, WhenAwaitingAck, WhenAwaitingReply,
             WhenRunning, WhenGone
  <2>3. CASE /\ executed < gdb.n /\ stubThread.pc = "data" /\ Unread = 0
             /\ Len(toGdb) = 1 /\ toGdb[1] = Rsp!Minus
    <3>1. /\ Rsp!SendToStub(Rsp!Packet(CommandBody)) /\ gdb' = gdb
      BY <1>2, <2>1, <2>3, CharKinds DEF Rsp!GdbAwaitsAck, CommandBody
    <3>2. Unread' = 4 /\ PacketAt(Incoming', 0, CommandBody, garbled)
      BY <1>0, <2>3, <3>1, PacketSent, BodyTypes
    <3>3. CommandBody' = CommandBody
      BY <3>1 DEF CommandBody
    <3>4. Coming'
      BY <1>0, <2>3, <3>1, <3>2, <3>3 DEF Coming
    <3>5. Report(0)'
      BY <2>1, <2>3 DEF Report
    <3>6. QED
      BY <1>0, <3>1, <3>4, <3>5
         DEF Session, WhenStopped, WhenAwaitingAck, WhenAwaitingReply,
             WhenRunning, WhenGone
  <2>4. PacketAt(toGdb, 0, StopBody, garbled) => toGdb[1].c = "$"
    BY DEF PacketAt
  <2>5. ~Report(0)
    BY <1>0, <1>2, <2>1, <2>4 DEF Report
  <2>6. QED
    BY <1>0, <1>2, <2>1, <2>2, <2>3, <2>4, <2>5 DEF Session, WhenAwaitingAck
<1>3. QED
  BY <1>1, <1>2

(* A packet for GDB has arrived.                                           *)
LEMMA GdbAwaitsPacketStep ==
    ASSUME Rsp!RspAssumption, RspTypes, Session, Rsp!Alive,
           Rsp!GdbAwaitsPacket
    PROVE  Session'
<1>0. /\ gdb \in [pc : {"stopped", "ack", "reply", "running", "gone"},
                  n : 0 .. MaxCommands, kind : Kinds, intr : BOOLEAN]
      /\ gdb.pc \in {"reply", "running"} /\ conn
      /\ UNCHANGED <<buf, conn, stubThread, suspended, executed, garbled>>
      /\ Len(toGdb) \in Nat /\ Len(toGdb) >= 4
      /\ Len(toGdb') = Len(toGdb) - 4
      /\ executed <= gdb.n
      /\ stubThread.pc = "event" => ~suspended
      /\ stubThread.pc # "accept"
      /\ Unread \in Nat
      /\ stubThread \in [pc : Places, data : Rsp!Bodies]
  BY GdbTakes, FirstUnread
     DEF RspTypes, Rsp!TypeOK, Rsp!GdbAwaitsPacket, Rsp!PacketArrived,
         Session, Rsp!target, Rsp!bounds
<1>1. ASSUME NEW ch \in Noise, Rsp!SendToStub(<<ch>>)
      PROVE  /\ Unread' = Unread + 1 /\ Incoming'[Unread + 1] = ch
             /\ Silent(Incoming, Unread) => Silent(Incoming', Unread')
  <2>1. <<ch>> \in Seq(Rsp!Chars) /\ Len(<<ch>>) = 1 /\ <<ch>>[1] = ch
    BY <1>1, CharTypes
  <2>2. 1 \in 1 .. Len(<<ch>>)
    BY <2>1
  <2>3. /\ Unread' = Unread + 1 /\ Incoming'[Unread + 1] = ch
        /\ \A i \in 1 .. Unread : Incoming'[i] = Incoming[i]
    BY <1>0, <1>1, <2>1, <2>2, CharsSent
  <2>4. Silent(Incoming, Unread) => Silent(Incoming', Unread')
    BY <1>0, <2>3 DEF Silent
  <2>5. QED
    BY <2>3, <2>4
<1>2. Rsp!Plus \in Noise /\ Rsp!Minus \in Noise
  BY DEF Noise
<1>3. CASE gdb.pc = "reply"
  <2>1. /\ gdb.kind # "cont" /\ Replying /\ stubThread.pc = "ack"
        /\ Unread = 0
        /\ Len(toGdb) = 4 /\ PacketAt(toGdb, 0, ReplyBody, garbled)
    BY <1>0, <1>3 DEF Session, WhenAwaitingReply, Answer
  <2>2. Len(toGdb') = 0
    BY <1>0, <2>1
  <2>3. CASE Rsp!ArrivedGood
    <3>1. Rsp!ArrivedBody = ReplyBody
      BY <2>1, <2>3
         DEF PacketAt, Meant, Rsp!ArrivedGood, Rsp!ArrivedBody
    <3>2. ReplyBody[1] = "reply"
      BY DEF ReplyBody
    <3>3. /\ Rsp!SendToStub(<<Rsp!Plus>>)
          /\ gdb' = [gdb EXCEPT !.pc =
                       IF gdb.kind \in {"detach", "kill"} THEN "gone"
                       ELSE "stopped"]
      BY <2>3, <3>1, <3>2 DEF Rsp!GdbAwaitsPacket, Rsp!Gdb
    <3>4. Unread' = 1 /\ Incoming'[1] = Rsp!Plus
      BY <1>1, <1>2, <2>1, <3>3
    <3>5. gdb'.n = gdb.n /\ gdb'.kind = gdb.kind
      BY <1>0, <3>3
    <3>6. CASE gdb.kind \in {"detach", "kill"}
      <4>1. gdb'.pc = "gone"
        BY <1>0, <3>3, <3>6
      <4>2. QED
        BY <1>0, <2>1, <2>2, <3>4, <3>5, <4>1
           DEF Session, WhenStopped, WhenAwaitingAck, WhenAwaitingReply,
               WhenRunning, WhenGone
    <3>7. CASE gdb.kind \notin {"detach", "kill"}
      <4>1. gdb'.pc = "stopped"
        BY <1>0, <3>3, <3>7
      <4>2. stubThread.data[1] = "cmd"
        BY <1>0, <2>1, <3>7 DEF Replying, CommandBody, Kinds
      <4>3. Silent(Incoming', Unread')
        BY <1>2, <3>4 DEF Silent
      <4>4. Idle'
        BY <1>0, <2>1, <3>4, <4>2, <4>3 DEF Idle
      <4>5. Report(0)'
        BY <2>2 DEF Report
      <4>6. QED
        BY <1>0, <3>5, <4>1, <4>4, <4>5
           DEF Session, WhenStopped, WhenAwaitingAck, WhenAwaitingReply,
               WhenRunning, WhenGone
    <3>8. QED
      BY <3>6, <3>7
  <2>4. CASE ~Rsp!ArrivedGood
    <3>1. Rsp!SendToStub(<<Rsp!Minus>>) /\ gdb' = gdb
      BY <2>4 DEF Rsp!GdbAwaitsPacket
    <3>2. Unread' = 1 /\ Incoming'[1] = Rsp!Minus
      BY <1>1, <1>2, <2>1, <3>1
    <3>3. Replying'
      BY <1>0, <2>1, <3>1 DEF Replying, CommandBody
    <3>4. QED
      BY <1>0, <1>3, <2>1, <2>2, <3>1, <3>2, <3>3
         DEF Session, WhenStopped, WhenAwaitingAck, WhenAwaitingReply,
             WhenRunning, WhenGone
  <2>5. QED
    BY <2>3, <2>4
<1>4. CASE gdb.pc = "running"
  <2>1. /\ gdb.kind = "cont" /\ Silent(Incoming, Unread)
        /\ stubThread.pc \in {"wait", "event", "toss"}
        /\ executed = gdb.n /\ Len(toGdb) = 4
        /\ PacketAt(toGdb, 0, StopBody, garbled)
    BY <1>0, <1>4 DEF Session, WhenRunning, Answer, Replying, Report
  <2>2. Len(toGdb') = 0
    BY <1>0, <2>1
  <2>3. Report(0)'
    BY <2>2 DEF Report
  <2>4. CASE Rsp!ArrivedGood
    <3>1. Rsp!ArrivedBody = StopBody
      BY <2>1, <2>4
         DEF PacketAt, Meant, Rsp!ArrivedGood, Rsp!ArrivedBody
    <3>2. StopBody[1] = "stop"
      BY DEF StopBody
    <3>3. /\ Rsp!SendToStub(<<Rsp!Plus>>)
          /\ gdb' = [gdb EXCEPT !.pc = "stopped"]
      BY <2>1, <2>4, <3>1, <3>2 DEF Rsp!GdbAwaitsPacket, Rsp!Gdb
    <3>4. /\ gdb'.pc = "stopped" /\ gdb'.n = gdb.n
          /\ Silent(Incoming', Unread')
      BY <1>0, <1>1, <1>2, <2>1, <3>3
    <3>5. Idle'
      BY <1>0, <2>1, <3>4 DEF Idle
    <3>6. QED
      BY <1>0, <2>3, <3>4, <3>5
         DEF Session, WhenStopped, WhenAwaitingAck, WhenAwaitingReply,
             WhenRunning, WhenGone
  <2>5. CASE ~Rsp!ArrivedGood
    <3>1. Rsp!SendToStub(<<Rsp!Minus>>) /\ gdb' = gdb
      BY <2>5 DEF Rsp!GdbAwaitsPacket
    <3>2. Silent(Incoming', Unread')
      BY <1>1, <1>2, <2>1, <3>1
    <3>3. Answer(0)'
      BY <1>0, <2>1, <2>3, <3>1 DEF Answer
    <3>4. QED
      BY <1>0, <1>4, <2>1, <3>1, <3>2, <3>3
         DEF Session, WhenStopped, WhenAwaitingAck, WhenAwaitingReply,
             WhenRunning, WhenGone
  <2>6. QED
    BY <2>4, <2>5
<1>5. QED
  BY <1>0, <1>3, <1>4

(* GDB crashes, wherever it is.                                            *)
LEMMA GdbCrashStep ==
    ASSUME Rsp!RspAssumption, RspTypes, Session, Rsp!GdbCrash
    PROVE  Session'
<1>0. /\ gdb \in [pc : {"stopped", "ack", "reply", "running", "gone"},
                  n : 0 .. MaxCommands, kind : Kinds, intr : BOOLEAN]
      /\ gdb.pc # "gone" /\ conn
      /\ UNCHANGED <<buf, toStub, conn, stubThread, suspended, executed,
                     garbled>>
      /\ Len(toGdb') = 0
      /\ executed <= gdb.n
      /\ stubThread.pc = "event" => ~suspended
      /\ stubThread.pc # "accept"
  BY DEF RspTypes, Rsp!GdbCrash, Session, Rsp!target, Rsp!bounds
<1>1. gdb'.pc = "gone" /\ gdb'.n = gdb.n /\ gdb'.kind = gdb.kind
  BY <1>0 DEF Rsp!GdbCrash, Rsp!Gdb
<1>2. /\ Incoming' = Incoming /\ Unread' = Unread
      /\ CommandBody' = CommandBody
  BY <1>0, <1>1 DEF Incoming, Unread, CommandBody
<1>3. Coming => Coming'
  BY <1>0, <1>1, <1>2 DEF Coming
<1>4. Executing => Executing'
  BY <1>0, <1>1, <1>2 DEF Executing
<1>5. Unread = 0 => Silent(Incoming, Unread)
  BY DEF Silent
<1>6. ASSUME NEW k, Answer(k), Unread = 0 PROVE WhenGone'
  BY <1>0, <1>1, <1>2, <1>4, <1>5, <1>6 DEF Answer, Replying, WhenGone
<1>7. WhenGone'
  <2>1. CASE gdb.pc = "stopped"
    BY <1>0, <1>1, <1>2, <2>1 DEF Session, WhenStopped, Idle, WhenGone
  <2>2. CASE gdb.pc = "ack"
    <3>1. CASE Coming
      BY <1>0, <1>1, <1>3, <3>1 DEF WhenGone
    <3>2. CASE stubThread.pc = "data" /\ Unread = 0
      BY <1>0, <1>1, <1>2, <3>2 DEF WhenGone
    <3>3. QED
      BY <1>6, <2>2, <3>1, <3>2 DEF Session, WhenAwaitingAck
  <2>3. CASE gdb.pc = "reply"
    <3>1. CASE Unread = 0 /\ Answer(0)
      BY <1>6, <3>1
    <3>2. CASE stubThread.pc = "ack" /\ Unread = 1 /\ Incoming[1] = Rsp!Minus
      BY <1>0, <1>1, <1>2, <3>2 DEF WhenGone
    <3>3. QED
      BY <2>3, <3>1, <3>2 DEF Session, WhenAwaitingReply
  <2>4. CASE gdb.pc = "running"
    BY <1>0, <1>1, <1>2, <1>4, <2>4
       DEF Session, WhenRunning, Answer, Replying, WhenGone
  <2>5. QED
    BY <1>0, <2>1, <2>2, <2>3, <2>4
<1>8. QED
  BY <1>0, <1>1, <1>7
     DEF Session, WhenStopped, WhenAwaitingAck, WhenAwaitingReply, WhenRunning

(* One character on the way is damaged, or none.                           *)
Touched(s, t, g) == t = s \/ \E j : Hit(s, t, j, <<"garbled", g>>)

(* What damage to one sequence leaves as it was.                           *)
LEMMA TouchedStays ==
    ASSUME NEW s, NEW t, NEW g \in Nat, Len(s) \in Nat, Touched(s, t, g)
    PROVE  /\ Len(t) = Len(s)
           /\ \A k \in Nat : \A b : b[1] # "garbled" /\ k + 4 <= Len(s)
                /\ PacketAt(s, k, b, g) => PacketAt(t, k, b, g + 1)
           /\ \A i \in 1 .. Len(s) : t[i].c = s[i].c
           /\ \A i \in 1 .. Len(s) : s[i].c \notin {"data", "xsum"}
                => t[i] = s[i]
           /\ \A k \in Nat : k <= Len(s) /\ Silent(s, k) => Silent(t, k)
<1>1. CASE t = s
  BY <1>1, PacketStays
<1>2. ASSUME NEW j, Hit(s, t, j, <<"garbled", g>>)
      PROVE  /\ Len(t) = Len(s)
             /\ \A k \in Nat : \A b : b[1] # "garbled" /\ k + 4 <= Len(s)
                  /\ PacketAt(s, k, b, g) => PacketAt(t, k, b, g + 1)
             /\ \A i \in 1 .. Len(s) : t[i].c = s[i].c
             /\ \A i \in 1 .. Len(s) : s[i].c \notin {"data", "xsum"}
                  => t[i] = s[i]
             /\ \A k \in Nat : k <= Len(s) /\ Silent(s, k) => Silent(t, k)
  <2>1. \A k \in Nat : \A b : b[1] # "garbled" /\ k + 4 <= Len(s)
           /\ PacketAt(s, k, b, g) => PacketAt(t, k, b, g + 1)
    BY <1>2, PacketHit
  <2>2. \A k \in Nat : k <= Len(s) /\ Silent(s, k) => Silent(t, k)
    BY <1>2, SilentHit
  <2>3. /\ Len(t) = Len(s)
        /\ \A i \in 1 .. Len(s) : t[i].c = s[i].c
        /\ \A i \in 1 .. Len(s) : s[i].c \notin {"data", "xsum"}
             => t[i] = s[i]
    BY <1>2 DEF Hit
  <2>4. QED
    BY <2>1, <2>2, <2>3
<1>3. QED
  BY <1>1, <1>2 DEF Touched

(* What the channels and the buffer may look like after the damage.        *)
LEMMA GarbleTouches ==
    ASSUME Rsp!RspAssumption, RspTypes, Rsp!Garble
    PROVE  /\ Touched(toGdb, toGdb', garbled)
           /\ Touched(Incoming, Incoming', garbled)
           /\ garbled \in Nat /\ garbled' = garbled + 1
<1>0. /\ toGdb \in Seq(Rsp!Chars) /\ garbled \in Nat
      /\ garbled' = garbled + 1 /\ UNCHANGED buf
      /\ <<"garbled", garbled>> \in Rsp!Bodies
  BY BodyTypes DEF RspTypes, Rsp!TypeOK, Rsp!Garble
<1>1. ASSUME NEW i \in DOMAIN toStub, toStub[i].c \in {"data", "xsum"},
             toStub' = [toStub EXCEPT ![i].v = <<"garbled", garbled>>],
             toGdb' = toGdb
      PROVE  /\ Touched(toGdb, toGdb', garbled)
             /\ Touched(Incoming, Incoming', garbled)
  BY <1>0, <1>1, UnreadDamaged DEF Touched
<1>2. ASSUME NEW i \in DOMAIN toGdb, toGdb[i].c \in {"data", "xsum"},
             toGdb' = [toGdb EXCEPT ![i].v = <<"garbled", garbled>>],
             toStub' = toStub
      PROVE  /\ Touched(toGdb, toGdb', garbled)
             /\ Touched(Incoming, Incoming', garbled)
  <2>1. Hit(toGdb, toGdb', i, <<"garbled", garbled>>)
    BY <1>0, <1>2, CharDamaged
  <2>2. Incoming' = Incoming
    BY <1>0, <1>2 DEF Incoming
  <2>3. QED
    BY <2>1, <2>2 DEF Touched
<1>3. QED
  BY <1>0, <1>1, <1>2 DEF Rsp!Garble

(* The command is still on its way when a character of it is damaged.      *)
LEMMA ComingGarbled ==
    ASSUME Rsp!RspAssumption, RspTypes, Rsp!Garble, Coming
    PROVE  Coming'
<1>0. /\ UNCHANGED <<stubThread, gdb, executed>>
      /\ CommandBody' = CommandBody /\ CommandBody[1] # "garbled"
      /\ garbled \in Nat /\ garbled' = garbled + 1
      /\ Unread \in Nat /\ Len(Incoming) = Unread
      /\ Touched(Incoming, Incoming', garbled)
  BY GarbleTouches, FirstUnread, BodyTypes
     DEF Rsp!Garble, CommandBody, Unread
<1>1. /\ Unread' = Unread
      /\ \A k \in Nat : k + 4 <= Unread
           /\ PacketAt(Incoming, k, CommandBody, garbled)
           => PacketAt(Incoming', k, CommandBody, garbled + 1)
      /\ \A i \in 1 .. Unread : Incoming'[i].c = Incoming[i].c
      /\ \A i \in 1 .. Unread : Incoming[i].c \notin {"data", "xsum"}
           => Incoming'[i] = Incoming[i]
      /\ \A k \in Nat : k <= Unread /\ Silent(Incoming, k)
           => Silent(Incoming', k)
  <2>1. Len(Incoming') = Unread'
    BY DEF Unread
  <2>2. Len(Incoming) \in Nat
    BY <1>0
  <2>3. QED
    BY <1>0, <2>1, <2>2, TouchedStays
<1>2. \A i \in 1 .. Unread :
         \/ Incoming'[i] = Incoming[i]
         \/ Incoming'[i].v = <<"garbled", garbled>>
            /\ \A k \in 1 .. Unread : k # i => Incoming'[k] = Incoming[k]
  BY <1>0 DEF Touched, Hit
<1>3. ASSUME NEW d, NEW x, Meant(d, x, CommandBody, garbled)
      PROVE  /\ Meant(d, x, CommandBody, garbled + 1)
             /\ Meant(<<"garbled", garbled>>, x, CommandBody, garbled + 1)
             /\ Meant(d, <<"garbled", garbled>>, CommandBody, garbled + 1)
  BY <1>0, <1>3, MeantStays
<1>4. CASE /\ stubThread.pc \in {"wait", "event", "toss"}
           /\ Unread >= 4 /\ Silent(Incoming, Unread - 4)
           /\ PacketAt(Incoming, Unread - 4, CommandBody, garbled)
  <2>1. Unread - 4 \in Nat /\ Unread - 4 <= Unread /\ Unread - 4 + 4 <= Unread
    BY <1>0, <1>4
  <2>2. QED
    BY <1>0, <1>1, <1>4, <2>1 DEF Coming
<1>5. CASE /\ stubThread.pc = "ack" /\ stubThread.data[1] = "cmd"
           /\ Unread = 5 /\ Incoming[1] = Rsp!Plus
           /\ PacketAt(Incoming, 1, CommandBody, garbled)
  <2>1. Incoming'[1] = Rsp!Plus
    BY <1>1, <1>5, CharKinds
  <2>2. QED
    BY <1>0, <1>1, <1>5, <2>1 DEF Coming
<1>6. CASE /\ stubThread.pc = "data" /\ Unread = 4
           /\ PacketAt(Incoming, 0, CommandBody, garbled)
  BY <1>0, <1>1, <1>6 DEF Coming
<1>7. CASE /\ stubThread.pc = "data" /\ Unread = 3
           /\ Incoming[1].c = "data" /\ Incoming[2].c = "#"
           /\ Incoming[3].c = "xsum"
           /\ Meant(Incoming[1].v, Incoming[3].v, CommandBody, garbled)
  <2>1. /\ Incoming'[1].c = "data" /\ Incoming'[2].c = "#"
        /\ Incoming'[3].c = "xsum"
    BY <1>1, <1>7
  <2>2. 1 \in 1 .. Unread /\ 3 \in 1 .. Unread
    BY <1>7
  <2>3. Meant(Incoming'[1].v, Incoming'[3].v, CommandBody, garbled + 1)
    BY <1>2, <1>3, <1>7, <2>2
  <2>4. QED
    BY <1>0, <1>1, <1>7, <2>1, <2>3 DEF Coming
<1>8. CASE /\ stubThread.pc = "data" /\ Unread = 2
           /\ Incoming[1].c = "#" /\ Incoming[2].c = "xsum"
           /\ Meant(stubThread.data, Incoming[2].v, CommandBody, garbled)
  <2>1. Incoming'[1].c = "#" /\ Incoming'[2].c = "xsum"
    BY <1>1, <1>8
  <2>2. Meant(stubThread.data, Incoming'[2].v, CommandBody, garbled + 1)
    BY <1>2, <1>3, <1>8
  <2>3. QED
    BY <1>0, <1>1, <1>8, <2>1, <2>2 DEF Coming
<1>9. CASE /\ stubThread.pc = "xsum" /\ Unread = 1
           /\ Incoming[1].c = "xsum"
           /\ Meant(stubThread.data, Incoming[1].v, CommandBody, garbled)
  <2>1. Incoming'[1].c = "xsum"
    BY <1>1, <1>9
  <2>2. Meant(stubThread.data, Incoming'[1].v, CommandBody, garbled + 1)
    BY <1>2, <1>3, <1>9
  <2>3. QED
    BY <1>0, <1>1, <1>9, <2>1, <2>2 DEF Coming
<1>10. QED
  BY <1>4, <1>5, <1>6, <1>7, <1>8, <1>9 DEF Coming

(* So does damage.                                                         *)
LEMMA GarbleStep ==
    ASSUME Rsp!RspAssumption, RspTypes, Session, Rsp!Garble
    PROVE  Session'
<1>0. /\ UNCHANGED <<conn, stubThread, suspended, gdb, executed>>
      /\ CommandBody' = CommandBody /\ StopBody' = StopBody
      /\ ReplyBody' = ReplyBody
      /\ StopBody[1] # "garbled" /\ ReplyBody[1] # "garbled"
      /\ garbled \in Nat /\ garbled' = garbled + 1
      /\ Unread \in Nat /\ Len(toGdb) \in Nat
  BY GarbleTouches, FirstUnread, BodyTypes
     DEF Rsp!Garble, CommandBody, StopBody, ReplyBody, RspTypes, Rsp!TypeOK,
         Rsp!target
<1>1. /\ Unread' = Unread
      /\ \A i \in 1 .. Unread : Incoming[i].c \notin {"data", "xsum"}
           => Incoming'[i] = Incoming[i]
      /\ Silent(Incoming, Unread) => Silent(Incoming', Unread')
  <2>1. /\ Len(Incoming') = Unread' /\ Len(Incoming) = Unread
        /\ Len(Incoming) \in Nat
    BY <1>0 DEF Unread
  <2>2. QED
    BY <1>0, <2>1, GarbleTouches, TouchedStays
<1>2. /\ Len(toGdb') = Len(toGdb)
      /\ \A k \in Nat : \A b : b[1] # "garbled" /\ k + 4 <= Len(toGdb)
           /\ PacketAt(toGdb, k, b, garbled)
           => PacketAt(toGdb', k, b, garbled')
      /\ \A i \in 1 .. Len(toGdb) : toGdb[i].c \notin {"data", "xsum"}
           => toGdb'[i] = toGdb[i]
  BY <1>0, GarbleTouches, TouchedStays
<1>3. \A k \in Nat : Report(k) => Report(k)'
  BY <1>0, <1>2 DEF Report
<1>4. \A k \in Nat : Answer(k) => Answer(k)'
  <2>1. Executing => Executing'
    BY <1>0 DEF Executing
  <2>2. Replying => Replying'
    BY <1>0 DEF Replying
  <2>3. QED
    BY <1>0, <1>2, <1>3, <2>1, <2>2 DEF Answer
<1>5. Coming => Coming'
  BY ComingGarbled
<1>6. \A i \in 1 .. Unread :
         Incoming[i] \in Noise => Incoming'[i] = Incoming[i]
  BY <1>1, CharKinds
<1>7. \A i \in 1 .. Len(toGdb) :
         toGdb[i] \in Noise => toGdb'[i] = toGdb[i]
  BY <1>2, CharKinds
<1>8. Rsp!Plus \in Noise /\ Rsp!Minus \in Noise
  BY DEF Noise
<1>9. WhenStopped'
  BY <1>0, <1>1, <1>3, <1>6, <1>8 DEF Session, WhenStopped, Idle
<1>10. WhenAwaitingAck'
  <2>1. SUFFICES ASSUME gdb.pc = "ack" PROVE WhenAwaitingAck'
    BY <1>0 DEF WhenAwaitingAck
  <2>2. CASE Coming /\ Report(0)
    BY <1>3, <1>5, <2>2 DEF WhenAwaitingAck
  <2>3. CASE /\ executed < gdb.n /\ stubThread.pc = "data" /\ Unread = 0
             /\ \/ Len(toGdb) = 1 /\ toGdb[1] = Rsp!Minus
                \/ /\ Len(toGdb) = 5 /\ PacketAt(toGdb, 0, StopBody, garbled)
                   /\ toGdb[5] = Rsp!Minus
    BY <1>0, <1>1, <1>2, <1>7, <1>8, <2>3 DEF WhenAwaitingAck
  <2>4. CASE Unread = 0 /\ Len(toGdb) >= 1 /\ toGdb[1] = Rsp!Plus /\ Answer(1)
    BY <1>0, <1>1, <1>2, <1>4, <1>7, <1>8, <2>4 DEF WhenAwaitingAck
  <2>5. CASE /\ Unread = 0 /\ Len(toGdb) >= 5 /\ toGdb[5] = Rsp!Plus
             /\ PacketAt(toGdb, 0, StopBody, garbled) /\ Answer(5)
    BY <1>0, <1>1, <1>2, <1>4, <1>7, <1>8, <2>5 DEF WhenAwaitingAck
  <2>6. QED
    BY <2>1, <2>2, <2>3, <2>4, <2>5 DEF Session, WhenAwaitingAck
<1>11. WhenAwaitingReply'
  <2>1. Replying => Replying'
    BY <1>0 DEF Replying
  <2>2. QED
    BY <1>0, <1>1, <1>2, <1>4, <1>6, <1>8, <2>1 DEF Session, WhenAwaitingReply
<1>12. WhenRunning'
  BY <1>0, <1>1, <1>4 DEF Session, WhenRunning
<1>13. WhenGone'
  BY <1>0, <1>1, <1>2, <1>5, <1>6, <1>8
     DEF Session, WhenGone, Executing
<1>14. QED
  BY <1>0, <1>9, <1>10, <1>11, <1>12, <1>13 DEF Session

(* Every other step, before the program exits.                             *)
LEMMA OtherSessionStep ==
    ASSUME Rsp!RspAssumption, SessionsInv, Rsp!Next, ~Rsp!StubStep
    PROVE  SessionInv'
<1>0. /\ RspTypes /\ exit \in {"no", "write", "getchar", "recv", "done"}
      /\ exit = "no" => Session /\ Rsp!Alive
  BY DEF SessionsInv, SessionInv, RspTypes, Rsp!TypeOK, Rsp!Alive
<1>1. CASE Rsp!AcceptConnection
  <2>1. exit = "no" => Unread = 0
    BY <1>0, <1>1, StubSituation DEF Rsp!AcceptConnection
  <2>2. QED
    BY <1>0, <1>1, <2>1, AcceptStep DEF SessionInv, Rsp!AcceptConnection
<1>2. CASE Rsp!Fault \/ UNCHANGED Rsp!vars
  <2>1. /\ UNCHANGED <<toStub, toGdb, buf, conn, stubThread, suspended, gdb,
                       executed, garbled, exit>>
    BY <1>2 DEF Rsp!Fault, Rsp!channels, Rsp!bounds, Rsp!vars, Rsp!target
  <2>2. Session => Session'
    BY <2>1
       DEF Session, WhenStopped, WhenAwaitingAck, WhenAwaitingReply,
           WhenRunning, WhenGone, Idle, Coming, Report, Answer, Executing,
           Replying, Incoming, Unread, CommandBody, ReplyBody, StopBody
  <2>3. QED
    BY <1>0, <2>1, <2>2 DEF SessionInv
<1>3. CASE Rsp!ExitBegins \/ Rsp!ExitStep
  <2>1. exit' # "no"
    BY <1>3
       DEF Rsp!ExitBegins, Rsp!ExitStep, Rsp!ExitWrites, Rsp!ExitGetChar,
           Rsp!ExitRecv
  <2>2. QED
    BY <2>1 DEF SessionInv
<1>4. CASE Rsp!GdbCommand
  BY <1>0, <1>4, GdbCommandStep DEF SessionInv, Rsp!GdbCommand
<1>5. CASE Rsp!GdbInterrupt
  BY <1>0, <1>5, GdbInterruptStep DEF SessionInv, Rsp!GdbInterrupt
<1>6. CASE Rsp!GdbAwaitsAck
  BY <1>0, <1>6, GdbAwaitsAckStep DEF SessionInv, Rsp!GdbAwaitsAck
<1>7. CASE Rsp!GdbAwaitsPacket
  BY <1>0, <1>7, GdbAwaitsPacketStep DEF SessionInv, Rsp!GdbAwaitsPacket
<1>8. CASE Rsp!GdbCrash
  BY <1>0, <1>8, GdbCrashStep DEF SessionInv, Rsp!GdbCrash
<1>9. CASE Rsp!Garble
  BY <1>0, <1>9, GarbleStep DEF SessionInv, Rsp!Garble
<1>10. QED
  BY <1>1, <1>2, <1>3, <1>4, <1>5, <1>6, <1>7, <1>8, <1>9
     DEF Rsp!Next, Rsp!GdbReads, Rsp!Ended

(* The acknowledgements among the characters for GDB.                      *)
AckOfContinue(s, p, kind) ==
    \A i \in 1 .. Len(s) : s[i].c = "+" =>
       /\ p = "ack" /\ kind = "cont"
       /\ \A k \in 1 .. Len(s) : s[k].c = "+" => i = k

(* The program begins to exit while the stub's thread has no mutex.        *)
LEMMA ExitBeginsStep ==
    ASSUME Rsp!RspAssumption, SessionsInv, Rsp!ExitBegins
    PROVE  ExitInv'
<1>0. /\ exit = "no" /\ Session /\ Rsp!Alive /\ RspTypes
      /\ stubThread \in [pc : Places, data : Rsp!Bodies]
      /\ stubThread.pc \in {"wait", "event", "accept"}
      /\ exit' = IF stubThread.pc = "accept" THEN "done" ELSE "write"
      /\ UNCHANGED <<toGdb, buf, stubThread, gdb>>
      /\ Len(toGdb) \in Nat
      /\ gdb.pc \in {"stopped", "ack", "reply", "running", "gone"}
  BY DEF SessionsInv, SessionInv, Rsp!ExitBegins, Rsp!Alive, RspTypes,
         Rsp!StubHoldsMutex, Rsp!channels, Rsp!TypeOK
<1>1. stubThread.pc = "accept" => buf = << >>
  BY <1>0, StubSituation, ChannelTypes
<1>2. gdb.pc # "reply"
  BY <1>0 DEF Session, WhenAwaitingReply, Answer, Executing, Replying
<1>3. \A k \in Nat : Report(k) =>
         \A i \in k + 1 .. Len(toGdb) : toGdb[i].c # "+"
  <2>1. SUFFICES ASSUME NEW k \in Nat, Report(k)
                 PROVE  \A i \in k + 1 .. Len(toGdb) : toGdb[i].c # "+"
    OBVIOUS
  <2>2. CASE Len(toGdb) = k
    BY <2>2
  <2>3. CASE Len(toGdb) = k + 4 /\ PacketAt(toGdb, k, StopBody, garbled)
    <3>1. \A i \in k + 1 .. k + 4 : toGdb[i].c # "+"
      BY <2>3, PacketHasNoAck
    <3>2. QED
      BY <2>3, <3>1
  <2>4. QED
    BY <2>1, <2>2, <2>3 DEF Report
<1>4. \A k \in Nat : Answer(k) => gdb.kind = "cont" /\ Report(k)
  BY <1>0 DEF Answer, Executing, Replying
<1>5. AckOfContinue(toGdb, gdb.pc, gdb.kind)
  <2>1. CASE Report(0)
    BY <1>3, <2>1 DEF AckOfContinue
  <2>2. CASE gdb.pc = "ack" /\ ~Report(0)
    <3>1. CASE Answer(1)
      <4>1. /\ gdb.kind = "cont"
            /\ \A i \in 2 .. Len(toGdb) : toGdb[i].c # "+"
        BY <1>3, <1>4, <3>1
      <4>2. QED
        BY <1>0, <2>2, <4>1 DEF AckOfContinue
    <3>2. CASE Answer(5) /\ PacketAt(toGdb, 0, StopBody, garbled)
      <4>1. /\ gdb.kind = "cont"
            /\ \A i \in 6 .. Len(toGdb) : toGdb[i].c # "+"
            /\ \A i \in 1 .. 4 : toGdb[i].c # "+"
        <5>1. \A i \in 0 + 1 .. 0 + 4 : toGdb[i].c # "+"
          BY <3>2, PacketHasNoAck
        <5>2. QED
          BY <1>3, <1>4, <3>2, <5>1
      <4>2. QED
        BY <1>0, <2>2, <4>1 DEF AckOfContinue
    <3>3. QED
      BY <1>0, <2>2, <3>1, <3>2 DEF Session, WhenAwaitingAck
  <2>3. CASE gdb.pc = "gone"
    BY <1>0, <2>3 DEF Session, WhenGone, AckOfContinue
  <2>4. QED
    BY <1>0, <1>2, <1>4, <2>1, <2>2, <2>3
       DEF Session, WhenStopped, WhenRunning
<1>6. QED
  BY <1>0, <1>1, <1>2, <1>5 DEF ExitInv, AckOfContinue

(* A part of the characters, shifted, has no more acknowledgements.        *)
LEMMA AcksShifted ==
    ASSUME NEW s, NEW t, NEW p, NEW kind, NEW m \in Nat, Len(s) \in Nat,
           Len(t) \in Nat, Shifted(s, t, m), AckOfContinue(s, p, kind)
    PROVE  AckOfContinue(t, p, kind)
<1>1. SUFFICES ASSUME NEW i \in 1 .. Len(t), t[i].c = "+"
               PROVE  /\ p = "ack" /\ kind = "cont"
                      /\ \A k \in 1 .. Len(t) : t[k].c = "+" => i = k
  BY DEF AckOfContinue
<1>2. i + m \in 1 .. Len(s) /\ s[i + m].c = "+"
  BY <1>1 DEF Shifted
<1>3. ASSUME NEW k \in 1 .. Len(t), t[k].c = "+" PROVE i = k
  <2>1. k + m \in 1 .. Len(s) /\ s[k + m].c = "+"
    BY <1>3 DEF Shifted
  <2>2. i + m = k + m
    BY <1>2, <2>1 DEF AckOfContinue
  <2>3. QED
    BY <2>2
<1>4. QED
  BY <1>2, <1>3 DEF AckOfContinue

(* Every other step, once the program exits.                               *)
LEMMA OtherExitStep ==
    ASSUME Rsp!RspAssumption, SessionsInv, Rsp!Next, ~Rsp!StubStep
    PROVE  ExitInv'
<1>0. /\ RspTypes /\ exit \in {"no", "write", "getchar", "recv", "done"}
      /\ gdb \in [pc : {"stopped", "ack", "reply", "running", "gone"},
                  n : 0 .. MaxCommands, kind : Kinds, intr : BOOLEAN]
      /\ Len(toGdb) \in Nat
  BY DEF SessionsInv, RspTypes, Rsp!TypeOK
<1>1. CASE Rsp!ExitBegins
  BY <1>1, ExitBeginsStep
<1>2. CASE ~Rsp!ExitBegins /\ exit = "no"
  <2>1. exit' = "no"
    BY <1>2
       DEF Rsp!Next, Rsp!AcceptConnection, Rsp!Fault, Rsp!ExitStep,
           Rsp!ExitWrites, Rsp!ExitGetChar, Rsp!ExitRecv, Rsp!GdbCommand,
           Rsp!GdbInterrupt, Rsp!GdbReads, Rsp!GdbAwaitsAck,
           Rsp!GdbAwaitsPacket, Rsp!GdbCrash, Rsp!Garble, Rsp!Ended, Rsp!vars
  <2>2. QED
    BY <2>1 DEF ExitInv
<1>3. ASSUME exit # "no" PROVE ExitInv'
  <2>0. /\ \/ stubThread.pc \in {"wait", "event"}
           \/ exit = "done" /\ stubThread.pc \in {"toss", "accept"}
        /\ stubThread.pc = "accept" => buf = << >>
        /\ gdb.pc # "reply"
        /\ AckOfContinue(toGdb, gdb.pc, gdb.kind)
    BY <1>3 DEF SessionsInv, ExitInv, AckOfContinue
  <2>1. CASE Rsp!AcceptConnection
    <3>1. /\ stubThread'.pc = "wait" /\ gdb'.pc = "stopped"
          /\ Len(toGdb') = 0
      BY <1>0, <2>1 DEF Rsp!AcceptConnection
    <3>2. QED
      BY <3>1 DEF ExitInv
  <2>2. ASSUME UNCHANGED <<stubThread, buf, exit>>, gdb'.pc # "reply",
               AckOfContinue(toGdb', gdb'.pc, gdb'.kind)
        PROVE  ExitInv'
    BY <2>0, <2>2 DEF ExitInv, AckOfContinue
  <2>3. CASE Rsp!Fault \/ UNCHANGED Rsp!vars
    <3>1. UNCHANGED <<stubThread, buf, exit, toGdb, gdb>>
      BY <2>3 DEF Rsp!Fault, Rsp!channels, Rsp!vars
    <3>2. QED
      BY <2>0, <2>2, <3>1 DEF AckOfContinue
  <2>4. CASE Rsp!ExitWrites
    <3>1. /\ stubThread.pc \in {"wait", "event"} /\ stubThread' = stubThread
          /\ gdb' = gdb
      BY <2>0, <2>4 DEF Rsp!ExitWrites
    <3>2. /\ gdb.pc = "gone" => Len(toGdb') = 0
          /\ gdb.pc # "gone" =>
               /\ Len(toGdb') = Len(toGdb) + 4
               /\ \A i \in 1 .. Len(toGdb) : toGdb'[i] = toGdb[i]
               /\ \A i \in 1 .. 4 : toGdb'[Len(toGdb) + i].c # "+"
      BY <1>0, <2>4, PacketWritten, BodyTypes DEF Rsp!ExitWrites
    <3>3. AckOfContinue(toGdb', gdb'.pc, gdb'.kind)
      <4>1. CASE gdb.pc = "gone"
        BY <3>1, <3>2, <4>1 DEF AckOfContinue
      <4>2. CASE gdb.pc # "gone"
        <5>1. \A i \in 1 .. Len(toGdb') : i \in 1 .. Len(toGdb)
                 \/ /\ i - Len(toGdb) \in 1 .. 4
                    /\ Len(toGdb) + (i - Len(toGdb)) = i
          BY <1>0, <3>2, <4>2
        <5>2. \A i \in 1 .. Len(toGdb') : toGdb'[i].c = "+" =>
                 i \in 1 .. Len(toGdb) /\ toGdb[i].c = "+"
          BY <3>2, <4>2, <5>1
        <5>3. QED
          BY <2>0, <3>1, <5>2 DEF AckOfContinue
      <4>3. QED
        BY <4>1, <4>2
    <3>4. QED
      BY <2>0, <3>1, <3>3 DEF ExitInv, AckOfContinue
  <2>5. CASE Rsp!ExitGetChar \/ Rsp!ExitRecv
    <3>1. /\ stubThread.pc \in {"wait", "event"} /\ stubThread' = stubThread
          /\ gdb' = gdb /\ toGdb' = toGdb
      BY <2>0, <2>5 DEF Rsp!ExitGetChar, Rsp!ExitRecv
    <3>2. QED
      BY <2>0, <3>1 DEF ExitInv, AckOfContinue
  <2>6. CASE Rsp!GdbCommand
    <3>1. gdb'.pc = "ack" /\ gdb.pc = "stopped"
          /\ UNCHANGED <<stubThread, buf, exit, toGdb>>
      BY <1>0, <2>6 DEF Rsp!GdbCommand
    <3>2. QED
      BY <2>0, <2>2, <3>1 DEF AckOfContinue
  <2>7. CASE Rsp!GdbInterrupt
    <3>1. gdb'.pc = "running" /\ gdb.pc = "running"
          /\ UNCHANGED <<stubThread, buf, exit, toGdb>>
      BY <1>0, <2>7 DEF Rsp!GdbInterrupt
    <3>2. QED
      BY <2>0, <2>2, <3>1 DEF AckOfContinue
  <2>8. CASE Rsp!GdbAwaitsAck
    <3>0. UNCHANGED <<stubThread, buf, exit>> /\ gdb.pc = "ack"
          /\ toGdb # << >> /\ Len(toGdb') \in Nat /\ Len(toGdb) >= 1
      BY <1>0, <2>8, OtherTypesStep, GdbTakes
         DEF Rsp!GdbAwaitsAck, RspTypes, Rsp!TypeOK
    <3>1. CASE gdb' = gdb
      <4>1. Shifted(toGdb, toGdb', 1) \/ Shifted(toGdb, toGdb', 4)
        BY <1>0, <2>8, GdbTakes DEF Rsp!GdbAwaitsAck
      <4>2. AckOfContinue(toGdb', gdb'.pc, gdb'.kind)
        BY <1>0, <2>0, <3>0, <3>1, <4>1, AcksShifted
      <4>3. QED
        BY <2>0, <2>2, <3>0, <3>1, <4>2
    <3>2. CASE gdb' # gdb
      <4>1. /\ toGdb' = Tail(toGdb) /\ Head(toGdb) = Rsp!Plus
            /\ gdb' = [gdb EXCEPT !.pc = IF gdb.kind = "cont" THEN "running"
                                         ELSE "reply",
                                  !.intr = FALSE]
        BY <2>8, <3>2 DEF Rsp!GdbAwaitsAck
      <4>2. /\ toGdb[1].c = "+" /\ Shifted(toGdb, toGdb', 1)
        BY <1>0, <3>0, <4>1, GdbTakes, CharKinds
      <4>3. gdb.kind = "cont" /\ \A k \in 2 .. Len(toGdb) : toGdb[k].c # "+"
        BY <1>0, <2>0, <3>0, <4>2 DEF AckOfContinue
      <4>4. gdb'.pc = "running"
        BY <1>0, <4>1, <4>3
      <4>5. \A i \in 1 .. Len(toGdb') : toGdb'[i].c # "+"
        BY <1>0, <3>0, <4>2, <4>3 DEF Shifted
      <4>6. QED
        BY <2>2, <3>0, <4>4, <4>5 DEF AckOfContinue
    <3>3. QED
      BY <3>1, <3>2
  <2>9. CASE Rsp!GdbAwaitsPacket
    <3>0. UNCHANGED <<stubThread, buf, exit>> /\ gdb.pc = "running"
          /\ Len(toGdb') \in Nat
      BY <2>0, <2>9, OtherTypesStep
         DEF Rsp!GdbAwaitsPacket, RspTypes, Rsp!TypeOK
    <3>1. gdb'.pc \in {"running", "gone", "stopped"}
      BY <1>0, <2>9, <3>0 DEF Rsp!GdbAwaitsPacket, Rsp!Gdb
    <3>2. \A i \in 1 .. Len(toGdb) : toGdb[i].c # "+"
      BY <2>0, <3>0 DEF AckOfContinue
    <3>3. Shifted(toGdb, toGdb', 4)
      BY <1>0, <2>9, GdbTakes DEF Rsp!GdbAwaitsPacket
    <3>4. \A i \in 1 .. Len(toGdb') : toGdb'[i].c # "+"
      BY <1>0, <3>0, <3>2, <3>3 DEF Shifted
    <3>5. QED
      BY <2>2, <3>0, <3>1, <3>4 DEF AckOfContinue
  <2>10. CASE Rsp!GdbCrash
    <3>1. gdb'.pc = "gone" /\ Len(toGdb') = 0
          /\ UNCHANGED <<stubThread, buf, exit>>
      BY <1>0, <2>10 DEF Rsp!GdbCrash, Rsp!Gdb
    <3>2. QED
      BY <2>2, <3>1 DEF AckOfContinue
  <2>11. CASE Rsp!Garble
    <3>1. /\ UNCHANGED <<stubThread, buf, exit, gdb>>
          /\ Len(toGdb') = Len(toGdb)
          /\ \A i \in 1 .. Len(toGdb) : toGdb'[i].c = toGdb[i].c
      BY <1>0, <2>11, GarbleTouches, TouchedStays DEF Rsp!Garble
    <3>2. QED
      BY <1>0, <2>0, <2>2, <3>1 DEF AckOfContinue
  <2>12. QED
    BY <1>1, <2>1, <2>3, <2>4, <2>5, <2>6, <2>7, <2>8, <2>9, <2>10, <2>11
       DEF Rsp!Next, Rsp!ExitStep, Rsp!GdbReads, Rsp!Ended
<1>4. QED
  BY <1>1, <1>2, <1>3

(* The session is in order before anything is sent.                        *)
LEMMA SessionInitially ==
    ASSUME Rsp!RspAssumption, Rsp!Init
    PROVE  SessionsInv
<1>1. /\ toStub = << >> /\ toGdb = << >> /\ buf = << >> /\ pos = 0
      /\ conn = TRUE /\ suspended = FALSE /\ faulted = FALSE
      /\ ignoring = "initial" /\ exit = "no"
      /\ stubThread = [pc |-> "wait", data |-> Rsp!None]
      /\ gdb = [pc |-> "stopped", n |-> 0, kind |-> "cmd", intr |-> FALSE]
      /\ executed = 0 /\ connections = 1 /\ garbled = 0
      /\ MaxCommands \in Nat /\ BufSize \in Nat
  BY DEF Rsp!Init, Rsp!RspAssumption
<1>2. RspTypes
  <2>1. stubThread \in [pc : Places, data : Rsp!Bodies]
    BY <1>1, CharTypes DEF Places
  <2>2. gdb \in [pc : {"stopped", "ack", "reply", "running", "gone"},
                 n : 0 .. MaxCommands, kind : Kinds, intr : BOOLEAN]
    BY <1>1 DEF Kinds
  <2>3. /\ {toStub, toGdb, buf} \subseteq Seq(Rsp!Chars)
        /\ pos \in Nat /\ Rsp!size <= BufSize
    BY <1>1 DEF Rsp!size
  <2>4. conn \in BOOLEAN /\ suspended \in BOOLEAN /\ faulted \in BOOLEAN
    BY <1>1
  <2>5. /\ executed \in 0 .. MaxCommands /\ garbled \in Nat
        /\ connections \in Nat
    BY <1>1
  <2>6. QED
    BY <1>1, <2>1, <2>2, <2>3, <2>4, <2>5 DEF RspTypes, Rsp!TypeOK
<1>3. Session
  <2>1. Unread = 0
    BY <1>1 DEF Unread, Incoming
  <2>2. Idle /\ Report(0)
    BY <1>1, <2>1 DEF Idle, Silent, Report
  <2>3. QED
    BY <1>1, <2>2
       DEF Session, WhenStopped, WhenAwaitingAck, WhenAwaitingReply,
           WhenRunning, WhenGone
<1>4. QED
  BY <1>1, <1>2, <1>3 DEF SessionsInv, SessionInv, ExitInv

(* The invariant is inductive.                                             *)
LEMMA SessionInvariantStep ==
    ASSUME Rsp!RspAssumption
    PROVE  SessionsInv /\ [Rsp!Next]_(Rsp!vars) => SessionsInv'
<1>1. ASSUME SessionsInv, Rsp!StubStep PROVE SessionsInv'
  <2>1. RspTypes' /\ ExitInv'
    BY <1>1, StubTypesStep, StubExitStep
  <2>2. SessionInv'
    <3>1. CASE exit = "no"
      BY <1>1, <3>1, StubSessionStep
    <3>2. CASE exit # "no"
      <4>1. CASE Rsp!ConnectionLost \/ Rsp!AwaitAck
        BY <3>2, <4>1 DEF Rsp!ConnectionLost, Rsp!AwaitAck, SessionInv
      <4>2. CASE exit' = exit
        BY <3>2, <4>2 DEF SessionInv
      <4>3. QED
        BY <1>1, <4>1, <4>2
           DEF Rsp!StubStep, Rsp!WaitForDebugEvent, Rsp!WaitForDebugStubEvent,
               Rsp!ProcessDebugEvent, Rsp!GetPacket, Rsp!ProcessPacket,
               Rsp!SendPacket, Rsp!Detach
    <3>3. QED
      BY <3>1, <3>2
  <2>3. QED
    BY <2>1, <2>2 DEF SessionsInv
<1>2. ASSUME SessionsInv, Rsp!Next, ~Rsp!StubStep PROVE SessionsInv'
  BY <1>2, OtherTypesStep, OtherSessionStep, OtherExitStep DEF SessionsInv
<1>3. ASSUME SessionsInv, UNCHANGED Rsp!vars PROVE SessionsInv'
  <2>1. /\ UNCHANGED <<toStub, toGdb, buf, pos, conn, stubThread, exit, gdb>>
        /\ UNCHANGED <<suspended, ignoring, faulted>>
        /\ UNCHANGED <<executed, connections, garbled>>
    BY <1>3 DEF Rsp!vars, Rsp!channels, Rsp!target, Rsp!bounds
  <2>2. /\ Incoming' = Incoming /\ Unread' = Unread
        /\ UNCHANGED <<CommandBody, ReplyBody, StopBody>>
    BY <2>1 DEF Incoming, Unread, CommandBody, ReplyBody, StopBody
  <2>3. WhenStopped => WhenStopped'
    BY <2>1, <2>2 DEF WhenStopped, Idle, Report
  <2>4. WhenAwaitingAck => WhenAwaitingAck'
    <3>1. Coming => Coming'
      BY <2>1, <2>2 DEF Coming
    <3>2. QED
      BY <2>1, <2>2, <3>1
         DEF WhenAwaitingAck, Report, Answer, Executing, Replying
  <2>5. Session => Session'
    <3>1. WhenAwaitingReply => WhenAwaitingReply'
      BY <2>1, <2>2 DEF WhenAwaitingReply, Answer, Executing, Replying, Report
    <3>2. WhenRunning => WhenRunning'
      BY <2>1, <2>2 DEF WhenRunning, Answer, Executing, Replying, Report
    <3>3. WhenGone => WhenGone'
      <4>1. Coming => Coming'
        BY <2>1, <2>2 DEF Coming
      <4>2. QED
        BY <2>1, <2>2, <4>1 DEF WhenGone, Executing
    <3>4. QED
      BY <2>1, <2>3, <2>4, <3>1, <3>2, <3>3 DEF Session
  <2>6. RspTypes'
    BY <1>3, <2>1 DEF SessionsInv, RspTypes, Rsp!TypeOK, Rsp!size
  <2>7. ExitInv'
    BY <1>3, <2>1 DEF SessionsInv, ExitInv
  <2>8. QED
    BY <1>3, <2>1, <2>5, <2>6, <2>7 DEF SessionsInv, SessionInv
<1>4. QED
  BY <1>1, <1>2, <1>3

(* What the invariant says of a command, an answer and a new connection.   *)
LEMMA SessionSuffices ==
    ASSUME Rsp!RspAssumption, SessionsInv
    PROVE  SessionCorrect
<1>0. /\ RspTypes /\ Rsp!TypeOK
      /\ gdb \in [pc : {"stopped", "ack", "reply", "running", "gone"},
                  n : 0 .. MaxCommands, kind : Kinds, intr : BOOLEAN]
      /\ toGdb \in Seq(Rsp!Chars) /\ Len(toGdb) \in Nat
      /\ exit \in {"no", "write", "getchar", "recv", "done"}
  BY DEF SessionsInv, RspTypes, Rsp!TypeOK
<1>1. Rsp!AtMostOnce
  <2>1. SUFFICES ASSUME stubThread.pc = "execute"
                 PROVE  stubThread.data[2] > executed
    BY DEF Rsp!AtMostOnce
  <2>2. Rsp!Alive
    BY <2>1 DEF SessionsInv, ExitInv, Rsp!Alive
  <2>3. Executing
    BY <2>1, <2>2, StubSituation
  <2>4. stubThread.data[2] = gdb.n /\ executed < gdb.n
    BY <2>3 DEF Executing, CommandBody
  <2>5. executed \in Nat /\ gdb.n \in Nat
    BY <1>0 DEF Rsp!TypeOK, Rsp!RspAssumption
  <2>6. QED
    BY <2>4, <2>5
<1>2. Rsp!ReplyMatches
  <2>1. SUFFICES ASSUME gdb.pc = "reply", Rsp!PacketArrived, Rsp!ArrivedGood
                 PROVE  Rsp!ArrivedBody = ReplyBody /\ executed = gdb.n
    BY DEF Rsp!ReplyMatches, ReplyBody
  <2>2. Session
    BY <2>1 DEF SessionsInv, ExitInv, SessionInv
  <2>3. Replying /\ PacketAt(toGdb, 0, ReplyBody, garbled)
    BY <1>0, <2>1, <2>2
       DEF Session, WhenAwaitingReply, Answer, Rsp!PacketArrived
  <2>4. QED
    BY <2>1, <2>3
       DEF PacketAt, Meant, Rsp!ArrivedGood, Rsp!ArrivedBody, Replying
<1>3. Rsp!NewSessionClean
  <2>1. SUFFICES ASSUME stubThread.pc = "accept" PROVE buf = << >>
    BY DEF Rsp!NewSessionClean
  <2>2. CASE exit = "no"
    <3>1. Unread = 0
      BY <2>1, <2>2, StubSituation DEF Rsp!Alive
    <3>2. QED
      BY <1>0, <3>1, ChannelTypes
  <2>3. CASE exit # "no"
    BY <2>1, <2>3 DEF SessionsInv, ExitInv
  <2>4. QED
    BY <2>2, <2>3
<1>4. QED
  BY <1>0, <1>1, <1>2, <1>3 DEF SessionCorrect

(* The conversation between the debug stub and GDB (session.cc,            *)
(* transport_common.cc, target.cc, nacl_debug.cc): GetPacket, its          *)
(* acknowledgements and the retransmissions execute each command of GDB at *)
(* most once and in order; what GDB takes for the answer of a command      *)
(* answers it; and no byte of a connection is left in the transport when   *)
(* the next begins.                                                        *)
THEOREM SessionAlwaysCorrect == Rsp!Spec => []SessionCorrect
<1>1. Rsp!Init => SessionsInv
  BY SessionInitially, MCHostAssumption
<1>2. SessionsInv /\ [Rsp!Next]_(Rsp!vars) => SessionsInv'
  BY SessionInvariantStep, MCHostAssumption
<1>3. SessionsInv => SessionCorrect
  BY SessionSuffices, MCHostAssumption
<1>4. QED
  BY <1>1, <1>2, <1>3, PTL DEF Rsp!Spec

(* The same of the session as module MCHost runs it beside the threads and *)
(* the callback slots of the host (session.cc, transport_common.cc).       *)
THEOREM SessionCorrectInSystem == HostSideSpec => []SessionCorrect
<1>1. HostSideInit => SessionsInv
  BY SessionInitially, MCHostAssumption DEF HostSideInit
<1>2. SessionsInv /\ [HostSideNext]_hostSideVars => SessionsInv'
  <2>1. [HostSideNext]_hostSideVars => [Rsp!Next]_(Rsp!vars)
    BY DEF HostSideNext, hostSideVars, rspVars, Rsp!vars, Rsp!channels,
           Rsp!target, Rsp!bounds
  <2>2. QED
    BY <2>1, SessionInvariantStep, MCHostAssumption
<1>3. SessionsInv => SessionCorrect
  BY SessionSuffices, MCHostAssumption
<1>4. QED
  BY <1>1, <1>2, <1>3, PTL DEF HostSideSpec
=============================================================================
