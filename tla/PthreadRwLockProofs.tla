------------------------ MODULE PthreadRwLockProofs ------------------------
(***************************************************************************)
(* Proofs about PthreadRwLock, for any finite set of threads, any set of   *)
(* calls, and any bound on the calls of a thread.                          *)
(*                                                                         *)
(* The inductive invariant adds to LockCorrect the positions of the        *)
(* threads, and who has promised what to a thread that waits.  A thread is *)
(* Dormant when nothing but a wake-up brings it back: it sleeps, or it is  *)
(* about to and will still find the sequence number it has read.  While a  *)
(* writer is dormant and the lock is free, somebody is about to wake a     *)
(* writer, or a writer is on its way to test the lock (WriterInv); the     *)
(* same for readers while no writer waits (ReaderInv).                     *)
(***************************************************************************)
EXTENDS PthreadRwLock, FiniteSetTheorems, TLAPS

(* Where a thread can be.                                                  *)
InMutex(t) ==
    pc[t] \in {"test", "give_up", "release", "wake_writer", "wake_readers",
               "unlock"}

Positions ==
    \A t \in Threads :
        /\ InMutex(t) <=> mutex = t
        /\ pc[t] = "sleep" <=> fstate[t] # "out"
        /\ fstate[t] # "EFAULT"
        /\ fstate[t] = "waiting" => faddr[t] = CondOf(t)
        /\ fstate[t] = "ETIMEDOUT" => call[t] \in Timed
        /\ pc[t] = "relock" /\ status[t] = "ETIMEDOUT" => call[t] \in Timed
        /\ call[t] \in Calls \cup {"unlock"}
        /\ pc[t] \in {"test", "wait", "sleep", "relock", "give_up"} =>
              call[t] # "unlock"
        /\ Pending(t) => call[t] \notin TryOnly
        /\ pc[t] \in {"release", "wake_writer", "wake_readers", "unlock"} =>
              call[t] = "unlock"

(* A thread asks for a lock only if it does not have to wait for itself,   *)
(* and it gives back a lock it has.                                        *)
Asks ==
    \A t \in Threads :
        /\ pc[t] = "lock" /\ call[t] = "unlock" => Has(t)
        /\ pc[t] = "release" => Has(t)

(* A waiting thread has seen the sequence number as it is or was; a        *)
(* wake-up has changed it before.                                          *)
Numbers ==
    \A t \in Threads : pc[t] = "wait" =>
        /\ old_value[t] <= word[CondOf(t)]
        /\ ( /\ call[t] \in WriteCall
             /\ \E u \in Threads : pc[u] = "wake_writer" ) =>
              old_value[t] # word["write_possible"]
        /\ ( /\ call[t] \in ReadCall
             /\ \E u \in Threads : pc[u] = "wake_readers" ) =>
              old_value[t] # word["read_possible"]

(* Only a wake-up brings this thread back.                                 *)
Dormant(t) ==
    \/ fstate[t] = "waiting"
    \/ pc[t] = "wait" /\ old_value[t] = word[CondOf(t)]

(* A writer that will look at the lock without another wake-up.            *)
OnItsWay(t) ==
    /\ call[t] \in WriteCall
    /\ \/ pc[t] = "test"
       \/ pc[t] = "relock" /\ status[t] = "ok"
       \/ pc[t] = "sleep" /\ fstate[t] \in {"woken", "ok", "EWOULDBLOCK"}

(* A writer that would otherwise sleep on next to a free lock has somebody *)
(* who wakes it, or another writer is about to take the lock.              *)
WriterInv ==
    (\E t \in Threads : Dormant(t) /\ call[t] \in WriteCall) =>
        \/ ~write_lock_available
        \/ \E u \in Threads : pc[u] = "wake_writer" \/ OnItsWay(u)

(* Readers sleep only while there is a writer, or somebody is about to     *)
(* wake them all or to become one.                                         *)
ReaderInv ==
    (\E t \in Threads : Dormant(t) /\ call[t] \in ReadCall) =>
        \/ writer_thread_id # NoThread
        \/ writers_waiting > 0
        \/ \E u \in Threads : \/ pc[u] = "wake_readers"
                              \/ pc[u] = "test" /\ call[u] = "wrlock"

IInv ==
    /\ TypeOK
    /\ Positions
    /\ Asks
    /\ LockCorrect
    /\ Numbers
    /\ WriterInv
    /\ "timedwrlock" \notin Calls => ReaderInv

(* What a call of futex_wake does to the threads that wait on c.           *)
Woke(c, all) ==
    /\ UNCHANGED <<word, faddr>>
    /\ \E W \in SUBSET Fx!WaitersOn(c) :
        /\ fstate' = [t \in Threads |-> IF t \in W THEN "woken" ELSE fstate[t]]
        /\ W = {} => Fx!WaitersOn(c) = {}
        /\ all => W = Fx!WaitersOn(c)

-----------------------------------------------------------------------------
(* Every set of threads is finite.                                         *)
LEMMA ThreadSet ==
    ASSUME RwLockAssumption, NEW S, S \subseteq Threads
    PROVE  /\ IsFiniteSet(S)
           /\ Cardinality(S) \in Nat
           /\ Cardinality(S) <= Cardinality(Threads)
           /\ Cardinality(S) = Cardinality(Threads) => S = Threads
           /\ S # {} <=> Cardinality(S) > 0
           /\ \A t \in Threads \ S :
                 Cardinality(S \cup {t}) = Cardinality(S) + 1
           /\ \A t \in S : Cardinality(S \ {t}) = Cardinality(S) - 1
<1>1. IsFiniteSet(Threads)
  BY DEF RwLockAssumption
<1>2. /\ IsFiniteSet(S)
      /\ Cardinality(S) <= Cardinality(Threads)
      /\ Cardinality(S) = Cardinality(Threads) => S = Threads
  BY <1>1, FS_Subset
<1>3. Cardinality(S) \in Nat
  BY <1>2, FS_CardinalityType
<1>4. S # {} <=> Cardinality(S) > 0
  BY <1>2, <1>3, FS_EmptySet
<1>5. \A t \in Threads \ S : Cardinality(S \cup {t}) = Cardinality(S) + 1
  BY <1>2, FS_AddElement
<1>6. \A t \in S : Cardinality(S \ {t}) = Cardinality(S) - 1
  BY <1>2, FS_RemoveElement
<1>7. QED
  BY <1>2, <1>3, <1>4, <1>5, <1>6

(* The locks that are meant by numbers of locks.                           *)
LocksOf(f) == UNION {{t} \X (1 .. f[t]) : t \in Threads}

LEMMA LockMember ==
    ASSUME NEW f \in [Threads -> Nat], NEW p
    PROVE  p \in LocksOf(f) <=>
              \E t \in Threads : \E i \in 1 .. f[t] : p = <<t, i>>
  BY DEF LocksOf

LEMMA LocksFinite ==
    ASSUME RwLockAssumption, NEW f \in [Threads -> Nat]
    PROVE  IsFiniteSet(LocksOf(f)) /\ Cardinality(LocksOf(f)) \in Nat
<1> DEFINE g == [t \in Threads |-> {t} \X (1 .. f[t])]
           T == {{t} \X (1 .. f[t]) : t \in Threads}
<1>1. g \in Surjection(Threads, T)
  BY DEF Surjection
<1>2. IsFiniteSet(T)
  BY <1>1, FS_Surjection DEF RwLockAssumption
<1>3. ASSUME NEW t \in Threads
      PROVE  IsFiniteSet({t} \X (1 .. f[t]))
  <2>1. f[t] \in Nat
    OBVIOUS
  <2>2. IsFiniteSet(1 .. f[t])
    BY <2>1, FS_Interval
  <2>3. IsFiniteSet({t})
    BY FS_Singleton
  <2>4. QED
    BY <2>2, <2>3, FS_Product
<1>4. IsFiniteSet(UNION T)
  BY <1>2, <1>3, FS_UNION
<1>5. QED
  BY <1>4, FS_CardinalityType DEF LocksOf

(* One more lock, one lock less, and no lock at all.                       *)
LEMMA LockTaken ==
    ASSUME RwLockAssumption, NEW f \in [Threads -> Nat], NEW t \in Threads
    PROVE  Cardinality(LocksOf([f EXCEPT ![t] = f[t] + 1])) =
              Cardinality(LocksOf(f)) + 1
<1> DEFINE g == [f EXCEPT ![t] = f[t] + 1]
<1>1. g \in [Threads -> Nat]
  OBVIOUS
<1>2. <<t, f[t] + 1>> \notin LocksOf(f)
  BY LockMember
<1>3. ASSUME NEW p
      PROVE  p \in LocksOf(g) <=> p \in LocksOf(f) \cup {<<t, f[t] + 1>>}
  <2>1. p \in LocksOf(g) <=>
            \E u \in Threads : \E i \in 1 .. g[u] : p = <<u, i>>
    BY <1>1, LockMember
  <2>2. p \in LocksOf(f) <=>
            \E u \in Threads : \E i \in 1 .. f[u] : p = <<u, i>>
    BY LockMember
  <2>3. QED
    BY <2>1, <2>2
<1>4. LocksOf(g) = LocksOf(f) \cup {<<t, f[t] + 1>>}
  BY <1>3
<1>5. QED
  BY <1>2, <1>4, LocksFinite, FS_AddElement

LEMMA LockReturned ==
    ASSUME RwLockAssumption, NEW f \in [Threads -> Nat], NEW t \in Threads,
           f[t] > 0
    PROVE  Cardinality(LocksOf([f EXCEPT ![t] = f[t] - 1])) =
              Cardinality(LocksOf(f)) - 1
<1> DEFINE g == [f EXCEPT ![t] = f[t] - 1]
<1>1. g \in [Threads -> Nat]
  OBVIOUS
<1>2. [g EXCEPT ![t] = g[t] + 1] = f
  <2> DEFINE h == [g EXCEPT ![t] = g[t] + 1]
  <2>1. h \in [Threads -> Nat]
    BY <1>1
  <2>2. \A u \in Threads : h[u] = f[u]
    OBVIOUS
  <2>3. QED
    BY <2>1, <2>2
<1>3. Cardinality(LocksOf(f)) = Cardinality(LocksOf(g)) + 1
  BY <1>1, <1>2, LockTaken
<1>4. Cardinality(LocksOf(g)) \in Nat
  BY <1>1, LocksFinite
<1>5. QED
  BY <1>3, <1>4

LEMMA NoLock ==
    ASSUME RwLockAssumption, NEW f \in [Threads -> Nat]
    PROVE  Cardinality(LocksOf(f)) = 0 <=> \A t \in Threads : f[t] = 0
<1>1. Cardinality(LocksOf(f)) = 0 <=> LocksOf(f) = {}
  BY LocksFinite, FS_EmptySet
<1>2. LocksOf(f) = {} => \A t \in Threads : f[t] = 0
  <2> SUFFICES ASSUME NEW t \in Threads, f[t] # 0
               PROVE  LocksOf(f) # {}
    OBVIOUS
  <2>1. 1 \in 1 .. f[t]
    OBVIOUS
  <2>2. <<t, 1>> \in LocksOf(f)
    BY <2>1, LockMember
  <2>3. QED
    BY <2>2
<1>3. (\A t \in Threads : f[t] = 0) => LocksOf(f) = {}
  <2> SUFFICES ASSUME \A t \in Threads : f[t] = 0, NEW p \in LocksOf(f)
               PROVE  FALSE
    OBVIOUS
  <2>1. PICK t \in Threads : \E i \in 1 .. f[t] : p = <<t, i>>
    BY LockMember
  <2>2. QED
    BY <2>1
<1>4. QED
  BY <1>1, <1>2, <1>3

(* futex_wake with a count of one wakes somebody if anybody waits; with a  *)
(* count as high as the number of threads it wakes all.                    *)
LEMMA WakeWakes ==
    ASSUME RwLockAssumption, NEW c
    PROVE  /\ Fx!Wake(c, 1) => Woke(c, FALSE)
           /\ Fx!Wake(c, Cardinality(Threads)) => Woke(c, TRUE)
<1>1. Fx!WaitersOn(c) \subseteq Threads
  BY DEF Fx!WaitersOn
<1>2. ASSUME NEW W PROVE Fx!Cardinality(W) = Cardinality(W)
  BY DEF Cardinality, Fx!Cardinality
<1>3. ASSUME NEW n, Fx!Wake(c, n)
      PROVE  \E W \in SUBSET Fx!WaitersOn(c) :
                /\ fstate' = [t \in Threads |-> IF t \in W THEN "woken"
                                                ELSE fstate[t]]
                /\ Cardinality(W) = n \/ W = Fx!WaitersOn(c)
                /\ UNCHANGED <<word, faddr>>
  BY <1>2, <1>3 DEF Fx!Wake, Fx!WakeSet, Fx!Woken
<1>4. ASSUME Fx!Wake(c, 1) PROVE Woke(c, FALSE)
  <2>1. PICK W \in SUBSET Fx!WaitersOn(c) :
                /\ fstate' = [t \in Threads |-> IF t \in W THEN "woken"
                                                ELSE fstate[t]]
                /\ Cardinality(W) = 1 \/ W = Fx!WaitersOn(c)
                /\ UNCHANGED <<word, faddr>>
    BY <1>3, <1>4
  <2>2. W = {} => Fx!WaitersOn(c) = {}
    BY <2>1, FS_EmptySet
  <2>3. QED
    BY <2>1, <2>2 DEF Woke
<1>5. ASSUME Fx!Wake(c, Cardinality(Threads)) PROVE Woke(c, TRUE)
  <2>1. PICK W \in SUBSET Fx!WaitersOn(c) :
                /\ fstate' = [t \in Threads |-> IF t \in W THEN "woken"
                                                ELSE fstate[t]]
                /\ Cardinality(W) = Cardinality(Threads) \/ W = Fx!WaitersOn(c)
                /\ UNCHANGED <<word, faddr>>
    BY <1>3, <1>5
  <2>2. W = Fx!WaitersOn(c)
    BY <1>1, <2>1, ThreadSet
  <2>3. QED
    BY <2>1, <2>2 DEF Woke
<1>6. QED
  BY <1>4, <1>5

-----------------------------------------------------------------------------
(* No step takes a thread to where it should not be.                       *)
LEMMA PositionsStep ==
    ASSUME RwLockAssumption, IInv, NEW t \in Threads,
           \/ \E c \in Calls : LockCall(t, c)
           \/ UnlockCall(t) \/ Step(t) \/ FutexEnds(t)
    PROVE  Positions'
<1> USE DEF IInv, TypeOK, Positions, InMutex, Pending, ReadCall, WriteCall,
            Timed, TryOnly, Conds, CondOf, Fx!FutexTypeOK, Fx!FState,
            Fx!WaitersOn, NoAddr, futex, fields, local, held
<1>0. /\ NoThread \notin Threads
      /\ Calls \subseteq ReadCall \cup WriteCall
      /\ MaxOps \in Nat
  BY DEF RwLockAssumption
<1>1. ASSUME NEW c \in Calls, LockCall(t, c)
      PROVE  Positions'
  BY <1>1, <1>0 DEF LockCall, Go
<1>2. CASE UnlockCall(t)
  BY <1>2, <1>0 DEF UnlockCall, Go
<1>3. CASE LockMutex(t)
  BY <1>3, <1>0 DEF LockMutex, Go
<1>4. CASE TakeReadLock(t)
  BY <1>4, <1>0 DEF TakeReadLock, Go, Reads, UnlockAndReturn,
     read_lock_available
<1>5. CASE TakeWriteLock(t)
  BY <1>5, <1>0 DEF TakeWriteLock, Go, Writes, UnlockAndReturn,
     write_lock_available
<1>6. CASE Busy(t)
  BY <1>6, <1>0 DEF Busy, Go, UnlockAndReturn, Available,
     read_lock_available, write_lock_available
<1>7. CASE CondWait(t)
  BY <1>7, <1>0 DEF CondWait, Go, Available, read_lock_available,
     write_lock_available
<1>8. CASE CondSleep(t)
  BY <1>8, <1>0 DEF CondSleep, Go, Fx!WaitBlocks, Fx!WaitRefused,
     Fx!WaitTooLate, Fx!Move
<1>9. CASE FutexWakes(t)
  BY <1>9, <1>0 DEF FutexWakes, Fx!WakeUp, Fx!WaitEnds, Fx!Move
<1>10. CASE CondWoken(t)
  BY <1>10, <1>0 DEF CondWoken, Go, Fx!WaitReturn, Fx!Move
<1>11. CASE CondRelock(t)
  BY <1>11, <1>0 DEF CondRelock, Go
<1>12. CASE GiveUp(t)
  BY <1>12, <1>0 DEF GiveUp, Go, UnlockAndReturn
<1>13. CASE ReleaseWrite(t)
  BY <1>13, <1>0 DEF ReleaseWrite, Pulse, Go, Writes
<1>14. CASE ReleaseRead(t)
  BY <1>14, <1>0 DEF ReleaseRead, Pulse, Go, Reads
<1>15. CASE WakeAndReturn(t)
  BY <1>15, WakeWakes, <1>0 DEF WakeAndReturn, Go, UnlockAndReturn, Woke
<1>16. CASE JustReturn(t)
  BY <1>16, <1>0 DEF JustReturn, Go, UnlockAndReturn
<1>17. CASE FutexEnds(t)
  BY <1>17, <1>0 DEF FutexEnds, Fx!TimeOut, Fx!WakeSpuriously, Fx!WaitEnds,
     Fx!Move
<1>18. QED
  BY <1>1, <1>2, <1>3, <1>4, <1>5, <1>6, <1>7, <1>8, <1>9, <1>10, <1>11,
     <1>12, <1>13, <1>14, <1>15, <1>16, <1>17 DEF Step

(* A thread that gives a lock back has one.                                *)
LEMMA AsksStep ==
    ASSUME RwLockAssumption, IInv, NEW t \in Threads,
           \/ \E c \in Calls : LockCall(t, c)
           \/ UnlockCall(t) \/ Step(t) \/ FutexEnds(t)
    PROVE  Asks'
<1> USE DEF IInv, TypeOK, Positions, InMutex, Pending, ReadCall, WriteCall,
            Timed, TryOnly, Conds, CondOf, Fx!FutexTypeOK, Fx!FState,
            Fx!WaitersOn, NoAddr, futex, fields, local, held, Asks, Has
<1>0. /\ NoThread \notin Threads
      /\ Calls \subseteq ReadCall \cup WriteCall
      /\ MaxOps \in Nat
  BY DEF RwLockAssumption
<1>1. ASSUME NEW c \in Calls, LockCall(t, c)
      PROVE  Asks'
  BY <1>1, <1>0 DEF LockCall, Go
<1>2. CASE UnlockCall(t)
  BY <1>2, <1>0 DEF UnlockCall, Go
<1>3. CASE LockMutex(t)
  BY <1>3, <1>0 DEF LockMutex, Go
<1>4. CASE TakeReadLock(t)
  BY <1>4, <1>0 DEF TakeReadLock, Go, Reads, UnlockAndReturn,
     read_lock_available
<1>5. CASE TakeWriteLock(t)
  BY <1>5, <1>0 DEF TakeWriteLock, Go, Writes, UnlockAndReturn,
     write_lock_available
<1>6. CASE Busy(t)
  BY <1>6, <1>0 DEF Busy, Go, UnlockAndReturn, Available,
     read_lock_available, write_lock_available
<1>7. CASE CondWait(t)
  BY <1>7, <1>0 DEF CondWait, Go, Available, read_lock_available,
     write_lock_available
<1>8. CASE CondSleep(t)
  BY <1>8, <1>0 DEF CondSleep, Go, Fx!WaitBlocks, Fx!WaitRefused,
     Fx!WaitTooLate, Fx!Move
<1>9. CASE FutexWakes(t)
  BY <1>9, <1>0 DEF FutexWakes, Fx!WakeUp, Fx!WaitEnds, Fx!Move
<1>10. CASE CondWoken(t)
  BY <1>10, <1>0 DEF CondWoken, Go, Fx!WaitReturn, Fx!Move
<1>11. CASE CondRelock(t)
  BY <1>11, <1>0 DEF CondRelock, Go
<1>12. CASE GiveUp(t)
  BY <1>12, <1>0 DEF GiveUp, Go, UnlockAndReturn
<1>13. CASE ReleaseWrite(t)
  BY <1>13, <1>0 DEF ReleaseWrite, Pulse, Go, Writes
<1>14. CASE ReleaseRead(t)
  BY <1>14, <1>0 DEF ReleaseRead, Pulse, Go, Reads
<1>15. CASE WakeAndReturn(t)
  BY <1>15, WakeWakes, <1>0 DEF WakeAndReturn, Go, UnlockAndReturn, Woke
<1>16. CASE JustReturn(t)
  BY <1>16, <1>0 DEF JustReturn, Go, UnlockAndReturn
<1>17. CASE FutexEnds(t)
  BY <1>17, <1>0 DEF FutexEnds, Fx!TimeOut, Fx!WakeSpuriously, Fx!WaitEnds,
     Fx!Move
<1>18. QED
  BY <1>1, <1>2, <1>3, <1>4, <1>5, <1>6, <1>7, <1>8, <1>9, <1>10, <1>11,
     <1>12, <1>13, <1>14, <1>15, <1>16, <1>17 DEF Step

(* What a step does to the writers that wait, and to the read locks.       *)
LEMMA WaitingWritersStep ==
    ASSUME RwLockAssumption, IInv, NEW t \in Threads,
           \/ \E c \in Calls : LockCall(t, c)
           \/ UnlockCall(t) \/ Step(t) \/ FutexEnds(t)
    PROVE  writers_waiting' = Cardinality(WaitingWriters')
<1> USE DEF IInv, TypeOK, Positions, InMutex, Pending, ReadCall, WriteCall,
            Timed, TryOnly, Conds, CondOf, Fx!FutexTypeOK, Fx!FState,
            Fx!WaitersOn, NoAddr, futex, fields, local, held
<1>0. /\ NoThread \notin Threads
      /\ Calls \subseteq ReadCall \cup WriteCall
      /\ WaitingWriters \subseteq Threads
      /\ writers_waiting = Cardinality(WaitingWriters)
  BY DEF RwLockAssumption, WaitingWriters, LockCorrect
<1>1. ASSUME NEW c \in Calls, LockCall(t, c)
      PROVE  writers_waiting' = Cardinality(WaitingWriters')
  <2>1. WaitingWriters' = WaitingWriters
    BY <1>1, <1>0 DEF LockCall, Go, WaitingWriters
  <2>2. QED
    BY <1>1, <1>0, <2>1 DEF LockCall
<1>2. CASE UnlockCall(t)
  <2>1. WaitingWriters' = WaitingWriters
    BY <1>2, <1>0 DEF UnlockCall, Go, WaitingWriters
  <2>2. QED
    BY <1>2, <1>0, <2>1 DEF UnlockCall
<1>3. CASE LockMutex(t)
  <2>1. WaitingWriters' = WaitingWriters
    BY <1>3, <1>0 DEF LockMutex, Go, WaitingWriters
  <2>2. QED
    BY <1>3, <1>0, <2>1 DEF LockMutex
<1>4. CASE TakeReadLock(t)
  <2>1. WaitingWriters' = WaitingWriters
    BY <1>4, <1>0 DEF TakeReadLock, Go, Reads, UnlockAndReturn,
       read_lock_available, WaitingWriters
  <2>2. QED
    BY <1>4, <1>0, <2>1 DEF TakeReadLock
<1>5. CASE TakeWriteLock(t)
  <2>1. WaitingWriters' = WaitingWriters
    BY <1>5, <1>0 DEF TakeWriteLock, Go, Writes, UnlockAndReturn,
       write_lock_available, WaitingWriters
  <2>2. QED
    BY <1>5, <1>0, <2>1 DEF TakeWriteLock
<1>6. CASE Busy(t)
  <2>1. WaitingWriters' = WaitingWriters
    BY <1>6, <1>0 DEF Busy, Go, UnlockAndReturn, Available,
       read_lock_available, write_lock_available, WaitingWriters
  <2>2. QED
    BY <1>6, <1>0, <2>1 DEF Busy
<1>7. CASE CondWait(t)
  <2>1. CASE call[t] \in WriteCall
    <3>1. t \notin WaitingWriters /\ WaitingWriters' = WaitingWriters \cup {t}
      BY <1>7, <1>0, <2>1 DEF CondWait, Go, WaitingWriters
    <3>2. Cardinality(WaitingWriters \cup {t}) =
          Cardinality(WaitingWriters) + 1
      BY <1>0, <3>1, ThreadSet
    <3>3. QED
      BY <1>7, <1>0, <2>1, <3>1, <3>2 DEF CondWait
  <2>2. CASE call[t] \notin WriteCall
    <3>1. WaitingWriters' = WaitingWriters
      BY <1>7, <1>0, <2>2 DEF CondWait, Go, WaitingWriters
    <3>2. QED
      BY <1>7, <1>0, <2>2, <3>1 DEF CondWait
  <2>3. QED
    BY <2>1, <2>2
<1>8. CASE CondSleep(t)
  <2>1. WaitingWriters' = WaitingWriters
    BY <1>8, <1>0 DEF CondSleep, Go, Fx!WaitBlocks, Fx!WaitRefused,
       Fx!WaitTooLate, Fx!Move, WaitingWriters
  <2>2. QED
    BY <1>8, <1>0, <2>1 DEF CondSleep
<1>9. CASE FutexWakes(t)
  <2>1. WaitingWriters' = WaitingWriters
    BY <1>9, <1>0 DEF FutexWakes, Fx!WakeUp, Fx!WaitEnds, Fx!Move,
       WaitingWriters
  <2>2. QED
    BY <1>9, <1>0, <2>1 DEF FutexWakes
<1>10. CASE CondWoken(t)
  <2>1. WaitingWriters' = WaitingWriters
    BY <1>10, <1>0 DEF CondWoken, Go, Fx!WaitReturn, Fx!Move, WaitingWriters
  <2>2. QED
    BY <1>10, <1>0, <2>1 DEF CondWoken
<1>11. CASE CondRelock(t)
  <2>1. CASE call[t] \in WriteCall
    <3>1. t \in WaitingWriters /\ WaitingWriters' = WaitingWriters \ {t}
      BY <1>11, <1>0, <2>1 DEF CondRelock, Go, WaitingWriters
    <3>2. Cardinality(WaitingWriters \ {t}) = Cardinality(WaitingWriters) - 1
      BY <1>0, <3>1, ThreadSet
    <3>3. QED
      BY <1>11, <1>0, <2>1, <3>1, <3>2 DEF CondRelock
  <2>2. CASE call[t] \notin WriteCall
    <3>1. WaitingWriters' = WaitingWriters
      BY <1>11, <1>0, <2>2 DEF CondRelock, Go, WaitingWriters
    <3>2. QED
      BY <1>11, <1>0, <2>2, <3>1 DEF CondRelock
  <2>3. QED
    BY <2>1, <2>2
<1>12. CASE GiveUp(t)
  <2>1. WaitingWriters' = WaitingWriters
    BY <1>12, <1>0 DEF GiveUp, Go, UnlockAndReturn, WaitingWriters
  <2>2. QED
    BY <1>12, <1>0, <2>1 DEF GiveUp
<1>13. CASE ReleaseWrite(t)
  <2>1. WaitingWriters' = WaitingWriters
    BY <1>13, <1>0 DEF ReleaseWrite, Pulse, Go, Writes, WaitingWriters
  <2>2. QED
    BY <1>13, <1>0, <2>1 DEF ReleaseWrite
<1>14. CASE ReleaseRead(t)
  <2>1. WaitingWriters' = WaitingWriters
    BY <1>14, <1>0 DEF ReleaseRead, Pulse, Go, Reads, WaitingWriters
  <2>2. QED
    BY <1>14, <1>0, <2>1 DEF ReleaseRead
<1>15. CASE WakeAndReturn(t)
  <2>1. WaitingWriters' = WaitingWriters
    BY <1>15, <1>0, WakeWakes DEF WakeAndReturn, Go, UnlockAndReturn, Woke,
       WaitingWriters
  <2>2. QED
    BY <1>15, <1>0, <2>1 DEF WakeAndReturn
<1>16. CASE JustReturn(t)
  <2>1. WaitingWriters' = WaitingWriters
    BY <1>16, <1>0 DEF JustReturn, Go, UnlockAndReturn, WaitingWriters
  <2>2. QED
    BY <1>16, <1>0, <2>1 DEF JustReturn
<1>17. CASE FutexEnds(t)
  <2>1. WaitingWriters' = WaitingWriters
    BY <1>17, <1>0 DEF FutexEnds, Fx!TimeOut, Fx!WakeSpuriously, Fx!WaitEnds,
       Fx!Move, WaitingWriters
  <2>2. QED
    BY <1>17, <1>0, <2>1 DEF FutexEnds
<1>18. QED
  BY <1>1, <1>2, <1>3, <1>4, <1>5, <1>6, <1>7, <1>8, <1>9, <1>10, <1>11,
     <1>12, <1>13, <1>14, <1>15, <1>16, <1>17 DEF Step

LEMMA ReadLocksStep ==
    ASSUME RwLockAssumption, IInv, NEW t \in Threads,
           \/ \E c \in Calls : LockCall(t, c)
           \/ UnlockCall(t) \/ Step(t) \/ FutexEnds(t)
    PROVE  /\ reader_count' = Cardinality(LocksOf(reads'))
           /\ reader_count' \in Nat
<1> USE DEF IInv, TypeOK, Positions, InMutex, Pending, ReadCall, WriteCall,
            Timed, TryOnly, Conds, CondOf, Fx!FutexTypeOK, Fx!FState,
            Fx!WaitersOn, NoAddr, futex, fields, local, held, LockCorrect,
            Asks, Has
<1>0. /\ NoThread \notin Threads
      /\ reader_count = Cardinality(LocksOf(reads))
  BY DEF RwLockAssumption, ReadLocks, LocksOf
<1>a. SUFFICES /\ reader_count' = Cardinality(LocksOf(reads'))
               /\ reads' \in [Threads -> Nat]
  BY <1>a, LocksFinite
<1>1. ASSUME NEW c \in Calls, LockCall(t, c)
      PROVE  /\ reader_count' = Cardinality(LocksOf(reads'))
             /\ reads' \in [Threads -> Nat]
  BY <1>1, <1>0 DEF LockCall, Go
<1>2. CASE UnlockCall(t)
  BY <1>2, <1>0 DEF UnlockCall, Go
<1>3. CASE LockMutex(t)
  BY <1>3, <1>0 DEF LockMutex, Go
<1>4. CASE TakeReadLock(t)
  <2>1. reads' = [reads EXCEPT ![t] = reads[t] + 1]
    BY <1>4 DEF TakeReadLock, Reads
  <2>2. reads \in [Threads -> Nat]
    OBVIOUS
  <2>3. Cardinality(LocksOf(reads')) = Cardinality(LocksOf(reads)) + 1
    BY <2>1, <2>2, LockTaken
  <2>4. QED
    BY <1>4, <1>0, <2>1, <2>3 DEF TakeReadLock
<1>5. CASE TakeWriteLock(t)
  BY <1>5, <1>0 DEF TakeWriteLock, Go, Writes, UnlockAndReturn,
     write_lock_available
<1>6. CASE Busy(t)
  BY <1>6, <1>0 DEF Busy, Go,
     read_lock_available
<1>7. CASE CondWait(t)
  BY <1>7, <1>0 DEF CondWait, Go,
     write_lock_available
<1>8. CASE CondSleep(t)
  BY <1>8, <1>0 DEF CondSleep, Go, Fx!WaitBlocks, Fx!WaitRefused,
     Fx!WaitTooLate, Fx!Move
<1>9. CASE FutexWakes(t)
  BY <1>9, <1>0 DEF FutexWakes, Fx!WakeUp, Fx!WaitEnds, Fx!Move
<1>10. CASE CondWoken(t)
  BY <1>10, <1>0 DEF CondWoken, Go, Fx!WaitReturn, Fx!Move
<1>11. CASE CondRelock(t)
  BY <1>11, <1>0 DEF CondRelock, Go
<1>12. CASE GiveUp(t)
  BY <1>12, <1>0 DEF GiveUp, Go, UnlockAndReturn
<1>13. CASE ReleaseWrite(t)
  BY <1>13, <1>0 DEF ReleaseWrite, Pulse, Go, Writes
<1>14. CASE ReleaseRead(t)
  <2>1. reads' = [reads EXCEPT ![t] = reads[t] - 1] /\ reads[t] > 0
    BY <1>14, <1>0 DEF ReleaseRead, Reads
  <2>2. reads \in [Threads -> Nat]
    OBVIOUS
  <2>3. Cardinality(LocksOf(reads')) = Cardinality(LocksOf(reads)) - 1
    BY <2>1, <2>2, LockReturned
  <2>4. QED
    BY <1>14, <1>0, <2>1, <2>3 DEF ReleaseRead
<1>15. CASE WakeAndReturn(t)
  BY <1>15, WakeWakes, <1>0 DEF WakeAndReturn, Go, UnlockAndReturn, Woke
<1>16. CASE JustReturn(t)
  BY <1>16, <1>0 DEF JustReturn, Go, UnlockAndReturn
<1>17. CASE FutexEnds(t)
  BY <1>17, <1>0 DEF FutexEnds, Fx!TimeOut, Fx!WakeSpuriously, Fx!WaitEnds,
     Fx!Move
<1>18. QED
  BY <1>1, <1>2, <1>3, <1>4, <1>5, <1>6, <1>7, <1>8, <1>9, <1>10, <1>11,
     <1>12, <1>13, <1>14, <1>15, <1>16, <1>17 DEF Step

(* LockCorrect without the two counts.                                     *)
Exclusion ==
    /\ \A t, u \in Threads : writes[t] /\ Has(u) => t = u /\ reads[t] = 0
    /\ \A t \in Threads : writes[t] <=> writer_thread_id = t
    /\ \A t \in Threads : thread_rdlock_count[t] =
          reads[t] + (IF t \in Elsewhere THEN 1 ELSE 0)

(* The fields tell the truth, and a writer excludes all others: the write  *)
(* lock is granted only if reader_count is zero, which means that there is *)
(* no read lock, and no thread is registered as the writer.                *)
LEMMA LockStep ==
    ASSUME RwLockAssumption, IInv, NEW t \in Threads,
           \/ \E c \in Calls : LockCall(t, c)
           \/ UnlockCall(t) \/ Step(t) \/ FutexEnds(t)
    PROVE  LockCorrect'
<1> USE DEF IInv, TypeOK, Positions, InMutex, Pending, ReadCall, WriteCall,
            Timed, TryOnly, Conds, CondOf, Fx!FutexTypeOK, Fx!FState,
            Fx!WaitersOn, NoAddr, futex, fields, local, held, Asks, Has,
            LockCorrect
<1>0. /\ NoThread \notin Threads
      /\ reader_count = 0 => \A u \in Threads : reads[u] = 0
  <2>1. /\ reader_count = Cardinality(LocksOf(reads))
        /\ reads \in [Threads -> Nat]
    BY DEF ReadLocks, LocksOf
  <2>2. QED
    BY <2>1, NoLock DEF RwLockAssumption
<1>a. writers_waiting' = Cardinality(WaitingWriters')
  BY WaitingWritersStep
<1>b. reader_count' = Cardinality(ReadLocks')
  BY ReadLocksStep DEF ReadLocks, LocksOf
<1>c. SUFFICES Exclusion'
  BY <1>a, <1>b DEF Exclusion
<1>1. ASSUME NEW c \in Calls, LockCall(t, c)
      PROVE  Exclusion'
  BY <1>1, <1>0 DEF LockCall, Go, Exclusion
<1>2. CASE UnlockCall(t)
  BY <1>2, <1>0 DEF UnlockCall, Go, Exclusion
<1>3. CASE LockMutex(t)
  BY <1>3, <1>0 DEF LockMutex, Go, Exclusion
<1>4. CASE TakeReadLock(t)
  BY <1>4, <1>0 DEF TakeReadLock, Go, Reads, UnlockAndReturn,
     read_lock_available, Exclusion
<1>5. CASE TakeWriteLock(t)
  BY <1>5, <1>0 DEF TakeWriteLock, Go, Writes, UnlockAndReturn,
     write_lock_available, Exclusion
<1>6. CASE Busy(t)
  BY <1>6, <1>0 DEF Busy, Go, UnlockAndReturn, Available,
     read_lock_available, write_lock_available, Exclusion
<1>7. CASE CondWait(t)
  BY <1>7, <1>0 DEF CondWait, Go, Available, read_lock_available,
     write_lock_available, Exclusion
<1>8. CASE CondSleep(t)
  BY <1>8, <1>0 DEF CondSleep, Go, Fx!WaitBlocks, Fx!WaitRefused,
     Fx!WaitTooLate, Fx!Move, Exclusion
<1>9. CASE FutexWakes(t)
  BY <1>9, <1>0 DEF FutexWakes, Fx!WakeUp, Fx!WaitEnds, Fx!Move, Exclusion
<1>10. CASE CondWoken(t)
  BY <1>10, <1>0 DEF CondWoken, Go, Fx!WaitReturn, Fx!Move, Exclusion
<1>11. CASE CondRelock(t)
  BY <1>11, <1>0 DEF CondRelock, Go, Exclusion
<1>12. CASE GiveUp(t)
  BY <1>12, <1>0 DEF GiveUp, Go, UnlockAndReturn, Exclusion
<1>13. CASE ReleaseWrite(t)
  BY <1>13, <1>0 DEF ReleaseWrite, Pulse, Go, Writes, Exclusion
<1>14. CASE ReleaseRead(t)
  BY <1>14, <1>0 DEF ReleaseRead, Pulse, Go, Reads, Exclusion
<1>15. CASE WakeAndReturn(t)
  BY <1>15, WakeWakes, <1>0 DEF WakeAndReturn, Go, UnlockAndReturn, Woke,
     Exclusion
<1>16. CASE JustReturn(t)
  BY <1>16, <1>0 DEF JustReturn, Go, UnlockAndReturn, Exclusion
<1>17. CASE FutexEnds(t)
  BY <1>17, <1>0 DEF FutexEnds, Fx!TimeOut, Fx!WakeSpuriously, Fx!WaitEnds,
     Fx!Move, Exclusion
<1>18. QED
  BY <1>1, <1>2, <1>3, <1>4, <1>5, <1>6, <1>7, <1>8, <1>9, <1>10, <1>11,
     <1>12, <1>13, <1>14, <1>15, <1>16, <1>17 DEF Step

(* Every step keeps the types: no count goes below zero.                   *)
LEMMA TypeStep ==
    ASSUME RwLockAssumption, IInv, NEW t \in Threads,
           \/ \E c \in Calls : LockCall(t, c)
           \/ UnlockCall(t) \/ Step(t) \/ FutexEnds(t)
    PROVE  TypeOK'
<1> USE DEF IInv, TypeOK, Positions, InMutex, Pending, ReadCall, WriteCall,
            Timed, TryOnly, Conds, CondOf, Fx!FutexTypeOK, Fx!FState,
            Fx!WaitersOn, NoAddr, futex, fields, local, held, Asks, Has,
            LockCorrect
<1>0. /\ NoThread \notin Threads
      /\ Calls \subseteq ReadCall \cup WriteCall
      /\ MaxOps \in Nat
      /\ reader_count' \in Nat
      /\ writers_waiting' \in Nat
  <2>1. reader_count' \in Nat
    BY ReadLocksStep
  <2>2. WaitingWriters' \subseteq Threads
    BY DEF WaitingWriters
  <2>3. writers_waiting' \in Nat
    BY <2>2, WaitingWritersStep, ThreadSet
  <2>4. QED
    BY <2>1, <2>3 DEF RwLockAssumption
<1>1. ASSUME NEW c \in Calls, LockCall(t, c)
      PROVE  TypeOK'
  BY <1>1, <1>0 DEF LockCall, Go
<1>2. CASE UnlockCall(t)
  BY <1>2, <1>0 DEF UnlockCall, Go
<1>3. CASE LockMutex(t)
  BY <1>3, <1>0 DEF LockMutex, Go
<1>4. CASE TakeReadLock(t)
  BY <1>4, <1>0 DEF TakeReadLock, Go, Reads, UnlockAndReturn,
     read_lock_available
<1>5. CASE TakeWriteLock(t)
  BY <1>5, <1>0 DEF TakeWriteLock, Go, Writes, UnlockAndReturn,
     write_lock_available
<1>6. CASE Busy(t)
  BY <1>6, <1>0 DEF Busy, Go, UnlockAndReturn, Available,
     read_lock_available, write_lock_available
<1>7. CASE CondWait(t)
  BY <1>7, <1>0 DEF CondWait, Go, Available, read_lock_available,
     write_lock_available
<1>8. CASE CondSleep(t)
  BY <1>8, <1>0 DEF CondSleep, Go, Fx!WaitBlocks, Fx!WaitRefused,
     Fx!WaitTooLate, Fx!Move
<1>9. CASE FutexWakes(t)
  BY <1>9, <1>0 DEF FutexWakes, Fx!WakeUp, Fx!WaitEnds, Fx!Move
<1>10. CASE CondWoken(t)
  BY <1>10, <1>0 DEF CondWoken, Go, Fx!WaitReturn, Fx!Move
<1>11. CASE CondRelock(t)
  BY <1>11, <1>0 DEF CondRelock, Go
<1>12. CASE GiveUp(t)
  BY <1>12, <1>0 DEF GiveUp, Go, UnlockAndReturn
<1>13. CASE ReleaseWrite(t)
  BY <1>13, <1>0 DEF ReleaseWrite, Pulse, Go, Writes
<1>14. CASE ReleaseRead(t)
  BY <1>14, <1>0 DEF ReleaseRead, Pulse, Go, Reads
<1>15. CASE WakeAndReturn(t)
  BY <1>15, WakeWakes, <1>0 DEF WakeAndReturn, Go, UnlockAndReturn, Woke
<1>16. CASE JustReturn(t)
  BY <1>16, <1>0 DEF JustReturn, Go, UnlockAndReturn
<1>17. CASE FutexEnds(t)
  BY <1>17, <1>0 DEF FutexEnds, Fx!TimeOut, Fx!WakeSpuriously, Fx!WaitEnds,
     Fx!Move
<1>18. QED
  BY <1>1, <1>2, <1>3, <1>4, <1>5, <1>6, <1>7, <1>8, <1>9, <1>10, <1>11,
     <1>12, <1>13, <1>14, <1>15, <1>16, <1>17 DEF Step

(* Sequence numbers only grow, and a thread about to wake others has just  *)
(* incremented theirs.                                                     *)
LEMMA NumbersStep ==
    ASSUME RwLockAssumption, IInv, NEW t \in Threads,
           \/ \E c \in Calls : LockCall(t, c)
           \/ UnlockCall(t) \/ Step(t) \/ FutexEnds(t)
    PROVE  Numbers'
<1> USE DEF IInv, TypeOK, Positions, InMutex, Pending, ReadCall, WriteCall,
            Timed, TryOnly, Conds, CondOf, Fx!FutexTypeOK, Fx!FState,
            Fx!WaitersOn, NoAddr, futex, fields, local, held, Numbers
<1>0. /\ NoThread \notin Threads
      /\ Calls \subseteq ReadCall \cup WriteCall
      /\ MaxOps \in Nat
  BY DEF RwLockAssumption
<1>1. ASSUME NEW c \in Calls, LockCall(t, c)
      PROVE  Numbers'
  BY <1>1, <1>0 DEF LockCall, Go
<1>2. CASE UnlockCall(t)
  BY <1>2, <1>0 DEF UnlockCall, Go
<1>3. CASE LockMutex(t)
  BY <1>3, <1>0 DEF LockMutex, Go
<1>4. CASE TakeReadLock(t)
  BY <1>4, <1>0 DEF TakeReadLock, Go, Reads, UnlockAndReturn,
     read_lock_available
<1>5. CASE TakeWriteLock(t)
  BY <1>5, <1>0 DEF TakeWriteLock, Go, Writes, UnlockAndReturn,
     write_lock_available
<1>6. CASE Busy(t)
  BY <1>6, <1>0 DEF Busy, Go, UnlockAndReturn, Available,
     read_lock_available, write_lock_available
<1>7. CASE CondWait(t)
  BY <1>7, <1>0 DEF CondWait, Go, Available, read_lock_available,
     write_lock_available
<1>8. CASE CondSleep(t)
  BY <1>8, <1>0 DEF CondSleep, Go, Fx!WaitBlocks, Fx!WaitRefused,
     Fx!WaitTooLate, Fx!Move
<1>9. CASE FutexWakes(t)
  BY <1>9, <1>0 DEF FutexWakes, Fx!WakeUp, Fx!WaitEnds, Fx!Move
<1>10. CASE CondWoken(t)
  BY <1>10, <1>0 DEF CondWoken, Go, Fx!WaitReturn, Fx!Move
<1>11. CASE CondRelock(t)
  BY <1>11, <1>0 DEF CondRelock, Go
<1>12. CASE GiveUp(t)
  BY <1>12, <1>0 DEF GiveUp, Go, UnlockAndReturn
<1>13. CASE ReleaseWrite(t)
  BY <1>13, <1>0 DEF ReleaseWrite, Pulse, Go, Writes
<1>14. CASE ReleaseRead(t)
  BY <1>14, <1>0 DEF ReleaseRead, Pulse, Go, Reads
<1>15. CASE WakeAndReturn(t)
  BY <1>15, WakeWakes, <1>0 DEF WakeAndReturn, Go, UnlockAndReturn, Woke
<1>16. CASE JustReturn(t)
  BY <1>16, <1>0 DEF JustReturn, Go, UnlockAndReturn
<1>17. CASE FutexEnds(t)
  BY <1>17, <1>0 DEF FutexEnds, Fx!TimeOut, Fx!WakeSpuriously, Fx!WaitEnds,
     Fx!Move
<1>18. QED
  BY <1>1, <1>2, <1>3, <1>4, <1>5, <1>6, <1>7, <1>8, <1>9, <1>10, <1>11,
     <1>12, <1>13, <1>14, <1>15, <1>16, <1>17 DEF Step

(* A pending writer is counted, so that whoever frees the lock sees it.    *)
LEMMA PendingCounted ==
    ASSUME RwLockAssumption, IInv, NEW u \in Threads, Pending(u),
           call[u] \in WriteCall
    PROVE  writers_waiting > 0
<1>1. u \in WaitingWriters /\ WaitingWriters \subseteq Threads
  BY DEF WaitingWriters
<1>2. QED
  BY <1>1, ThreadSet DEF IInv, LockCorrect

(* No step strands a writer.                                               *)
LEMMA WriterStep ==
    ASSUME RwLockAssumption, IInv, NEW t \in Threads,
           \/ \E c \in Calls : LockCall(t, c)
           \/ UnlockCall(t) \/ Step(t) \/ FutexEnds(t)
    PROVE  WriterInv'
<1> USE DEF IInv, TypeOK, Positions, InMutex, Pending, ReadCall, WriteCall,
            Timed, TryOnly, Conds, CondOf, Fx!FutexTypeOK, Fx!FState,
            Fx!WaitersOn, NoAddr, futex, fields, local, held, Numbers,
            WriterInv, ReaderInv, Dormant, OnItsWay, Asks, Has,
            write_lock_available, LockCorrect
<1>0. /\ NoThread \notin Threads
      /\ Calls \subseteq ReadCall \cup WriteCall
      /\ \A u \in Threads :
            Pending(u) /\ call[u] \in WriteCall => writers_waiting > 0
  BY PendingCounted DEF RwLockAssumption
<1>1. ASSUME NEW c \in Calls, LockCall(t, c)
      PROVE  WriterInv'
  BY <1>1, <1>0 DEF LockCall, Go
<1>2. CASE UnlockCall(t)
  BY <1>2, <1>0 DEF UnlockCall, Go
<1>3. CASE LockMutex(t)
  BY <1>3, <1>0 DEF LockMutex, Go
<1>4. CASE TakeReadLock(t)
  BY <1>4, <1>0 DEF TakeReadLock, Go, Reads, UnlockAndReturn,
     read_lock_available
<1>5. CASE TakeWriteLock(t)
  BY <1>5, <1>0 DEF TakeWriteLock, Go, Writes, UnlockAndReturn,
     write_lock_available
<1>6. CASE Busy(t)
  BY <1>6, <1>0 DEF Busy, Go, UnlockAndReturn, Available,
     read_lock_available, write_lock_available
<1>7. CASE CondWait(t)
  BY <1>7, <1>0 DEF CondWait, Go, Available, read_lock_available,
     write_lock_available
<1>8. CASE CondSleep(t)
  BY <1>8, <1>0 DEF CondSleep, Go, Fx!WaitBlocks, Fx!WaitRefused,
     Fx!WaitTooLate, Fx!Move
<1>9. CASE FutexWakes(t)
  BY <1>9, <1>0 DEF FutexWakes, Fx!WakeUp, Fx!WaitEnds, Fx!Move
<1>10. CASE CondWoken(t)
  BY <1>10, <1>0 DEF CondWoken, Go, Fx!WaitReturn, Fx!Move
<1>11. CASE CondRelock(t)
  BY <1>11, <1>0 DEF CondRelock, Go
<1>12. CASE GiveUp(t)
  BY <1>12, <1>0 DEF GiveUp, Go, UnlockAndReturn
<1>13. CASE ReleaseWrite(t)
  BY <1>13, <1>0 DEF ReleaseWrite, Pulse, Go, Writes
<1>14. CASE ReleaseRead(t)
  BY <1>14, <1>0 DEF ReleaseRead, Pulse, Go, Reads
<1>15. CASE WakeAndReturn(t)
  <2>1. CASE pc[t] = "wake_writer"
    <3>1. Woke("write_possible", FALSE)
      BY <1>15, <2>1, WakeWakes DEF WakeAndReturn
    <3>2. PICK W \in SUBSET Fx!WaitersOn("write_possible") :
              /\ fstate' = [u \in Threads |-> IF u \in W THEN "woken"
                                              ELSE fstate[u]]
              /\ W = {} => Fx!WaitersOn("write_possible") = {}
              /\ UNCHANGED <<word, faddr>>
      BY <3>1 DEF Woke
    <3>3. QED
      BY <1>15, <1>0, <2>1, <3>2 DEF WakeAndReturn, Go, UnlockAndReturn
  <2>2. CASE pc[t] = "wake_readers"
    <3>1. Woke("read_possible", TRUE)
      BY <1>15, <2>2, WakeWakes DEF WakeAndReturn
    <3>2. /\ fstate' = [u \in Threads |->
                          IF u \in Fx!WaitersOn("read_possible")
                          THEN "woken" ELSE fstate[u]]
          /\ UNCHANGED <<word, faddr>>
      BY <3>1 DEF Woke
    <3>3. QED
      BY <1>15, <1>0, <2>2, <3>2 DEF WakeAndReturn, Go, UnlockAndReturn
  <2>3. QED
    BY <1>15, <2>1, <2>2 DEF WakeAndReturn
<1>16. CASE JustReturn(t)
  BY <1>16, <1>0 DEF JustReturn, Go, UnlockAndReturn
<1>17. CASE FutexEnds(t)
  BY <1>17, <1>0 DEF FutexEnds, Fx!TimeOut, Fx!WakeSpuriously, Fx!WaitEnds,
     Fx!Move
<1>18. QED
  BY <1>1, <1>2, <1>3, <1>4, <1>5, <1>6, <1>7, <1>8, <1>9, <1>10, <1>11,
     <1>12, <1>13, <1>14, <1>15, <1>16, <1>17 DEF Step

(* No step strands a reader, unless writers give up.                       *)
LEMMA ReaderStep ==
    ASSUME RwLockAssumption, IInv, NEW t \in Threads,
           "timedwrlock" \notin Calls,
           \/ \E c \in Calls : LockCall(t, c)
           \/ UnlockCall(t) \/ Step(t) \/ FutexEnds(t)
    PROVE  ReaderInv'
<1> USE DEF IInv, TypeOK, Positions, InMutex, Pending, ReadCall, WriteCall,
            Timed, TryOnly, Conds, CondOf, Fx!FutexTypeOK, Fx!FState,
            Fx!WaitersOn, NoAddr, futex, fields, local, held, Numbers,
            WriterInv, ReaderInv, Dormant, OnItsWay, Asks, Has,
            write_lock_available, LockCorrect
<1>0. /\ NoThread \notin Threads
      /\ Calls \subseteq ReadCall \cup WriteCall
      /\ \A u \in Threads :
            Pending(u) /\ call[u] \in WriteCall => writers_waiting > 0
  BY PendingCounted DEF RwLockAssumption
<1>1. ASSUME NEW c \in Calls, LockCall(t, c)
      PROVE  ReaderInv'
  BY <1>1, <1>0 DEF LockCall, Go
<1>2. CASE UnlockCall(t)
  BY <1>2, <1>0 DEF UnlockCall, Go
<1>3. CASE LockMutex(t)
  BY <1>3, <1>0 DEF LockMutex, Go
<1>4. CASE TakeReadLock(t)
  BY <1>4, <1>0 DEF TakeReadLock, Go, Reads, UnlockAndReturn,
     read_lock_available
<1>5. CASE TakeWriteLock(t)
  BY <1>5, <1>0 DEF TakeWriteLock, Go, Writes, UnlockAndReturn,
     write_lock_available
<1>6. CASE Busy(t)
  BY <1>6, <1>0 DEF Busy, Go, UnlockAndReturn, Available,
     read_lock_available, write_lock_available
<1>7. CASE CondWait(t)
  BY <1>7, <1>0 DEF CondWait, Go, Available, read_lock_available,
     write_lock_available
<1>8. CASE CondSleep(t)
  BY <1>8, <1>0 DEF CondSleep, Go, Fx!WaitBlocks, Fx!WaitRefused,
     Fx!WaitTooLate, Fx!Move
<1>9. CASE FutexWakes(t)
  BY <1>9, <1>0 DEF FutexWakes, Fx!WakeUp, Fx!WaitEnds, Fx!Move
<1>10. CASE CondWoken(t)
  BY <1>10, <1>0 DEF CondWoken, Go, Fx!WaitReturn, Fx!Move
<1>11. CASE CondRelock(t)
  BY <1>11, <1>0 DEF CondRelock, Go
<1>12. CASE GiveUp(t)
  BY <1>12, <1>0 DEF GiveUp, Go, UnlockAndReturn
<1>13. CASE ReleaseWrite(t)
  BY <1>13, <1>0 DEF ReleaseWrite, Pulse, Go, Writes
<1>14. CASE ReleaseRead(t)
  BY <1>14, <1>0 DEF ReleaseRead, Pulse, Go, Reads
<1>15. CASE WakeAndReturn(t)
  <2>1. CASE pc[t] = "wake_writer"
    <3>1. Woke("write_possible", FALSE)
      BY <1>15, <2>1, WakeWakes DEF WakeAndReturn
    <3>2. PICK W \in SUBSET Fx!WaitersOn("write_possible") :
              /\ fstate' = [u \in Threads |-> IF u \in W THEN "woken"
                                              ELSE fstate[u]]
              /\ W = {} => Fx!WaitersOn("write_possible") = {}
              /\ UNCHANGED <<word, faddr>>
      BY <3>1 DEF Woke
    <3>3. QED
      BY <1>15, <1>0, <2>1, <3>2 DEF WakeAndReturn, Go, UnlockAndReturn
  <2>2. CASE pc[t] = "wake_readers"
    <3>1. Woke("read_possible", TRUE)
      BY <1>15, <2>2, WakeWakes DEF WakeAndReturn
    <3>2. /\ fstate' = [u \in Threads |->
                          IF u \in Fx!WaitersOn("read_possible")
                          THEN "woken" ELSE fstate[u]]
          /\ UNCHANGED <<word, faddr>>
      BY <3>1 DEF Woke
    <3>3. QED
      BY <1>15, <1>0, <2>2, <3>2 DEF WakeAndReturn, Go, UnlockAndReturn
  <2>3. QED
    BY <1>15, <2>1, <2>2 DEF WakeAndReturn
<1>16. CASE JustReturn(t)
  BY <1>16, <1>0 DEF JustReturn, Go, UnlockAndReturn
<1>17. CASE FutexEnds(t)
  BY <1>17, <1>0 DEF FutexEnds, Fx!TimeOut, Fx!WakeSpuriously, Fx!WaitEnds,
     Fx!Move
<1>18. QED
  BY <1>1, <1>2, <1>3, <1>4, <1>5, <1>6, <1>7, <1>8, <1>9, <1>10, <1>11,
     <1>12, <1>13, <1>14, <1>15, <1>16, <1>17 DEF Step

-----------------------------------------------------------------------------
(* pthread_rwlock_init.                                                    *)
LEMMA Initially ==
    ASSUME RwLockAssumption
    PROVE  Init => IInv
<1> SUFFICES ASSUME Init PROVE IInv
  OBVIOUS
<1>1. WaitingWriters = {}
  BY DEF Init, WaitingWriters, Pending
<1>2. ReadLocks = LocksOf(reads) /\ reads \in [Threads -> Nat]
  BY DEF Init, ReadLocks, LocksOf
<1>3. Cardinality(ReadLocks) = 0 /\ Cardinality(WaitingWriters) = 0
  <2>1. \A t \in Threads : reads[t] = 0
    BY DEF Init
  <2>2. QED
    BY <1>1, <1>2, <2>1, NoLock, FS_EmptySet
<1>4. LockCorrect
  BY <1>3 DEF Init, LockCorrect, Has, RwLockAssumption
<1>5. TypeOK
  BY DEF Init, TypeOK, Fx!FutexTypeOK, Fx!FState, Conds, NoAddr,
         RwLockAssumption
<1>6. Positions /\ Asks /\ Numbers /\ WriterInv /\ ReaderInv
  BY DEF Init, Positions, InMutex, Pending, Asks, Numbers, WriterInv,
         ReaderInv, Dormant, RwLockAssumption
<1>7. QED
  BY <1>4, <1>5, <1>6 DEF IInv

(* Every step keeps the invariant.                                         *)
LEMMA InvariantStep ==
    ASSUME RwLockAssumption, IInv, [Next]_vars
    PROVE  IInv'
<1>1. CASE UNCHANGED vars
  BY <1>1
     DEF vars, futex, fields, local, held, IInv, TypeOK, Positions, InMutex,
         Pending, Asks, Has, Numbers, WriterInv, ReaderInv, Dormant,
         OnItsWay, LockCorrect, WaitingWriters, ReadLocks, CondOf,
         write_lock_available, Fx!FutexTypeOK
<1>2. ASSUME NEW t \in Threads,
             \/ \E c \in Calls : LockCall(t, c)
             \/ UnlockCall(t) \/ Step(t) \/ FutexEnds(t)
      PROVE  IInv'
  BY <1>2, TypeStep, PositionsStep, AsksStep, LockStep, NumbersStep,
     WriterStep, ReaderStep DEF IInv
<1>3. QED
  BY <1>1, <1>2 DEF Next, Finished

(* The invariant holds in every reachable state.                           *)
THEOREM Invariance ==
    ASSUME RwLockAssumption
    PROVE  Spec => []IInv
  BY Initially, InvariantStep, PTL DEF Spec

(* What the invariant says of the lock at any moment.                      *)
LEMMA InvariantSuffices == IInv => RwLockCorrect
<1>1. IInv => WriterNotStranded
  BY DEF IInv, WriterInv, WriterNotStranded, Sleeping, Active, Dormant,
         OnItsWay, Positions
<1>2. IInv /\ "timedwrlock" \notin Calls => ReaderNotStranded
  BY DEF IInv, ReaderInv, ReaderNotStranded, Sleeping, Active, Dormant,
         Positions, WriteCall
<1>3. QED
  BY <1>1, <1>2 DEF IInv, RwLockCorrect

(* The rwlock keeps its promise (nc_rwlock.c), for any threads, calls and  *)
(* timeouts: a writer excludes all others and the fields tell the truth;   *)
(* no writer sleeps next to a free lock with nobody on the way; and if no  *)
(* writer gives up, no reader sleeps with nobody to wake it.               *)
THEOREM RwLockAlwaysCorrect ==
    ASSUME RwLockAssumption
    PROVE  Spec => []RwLockCorrect
  BY InvariantSuffices, Invariance, PTL
=============================================================================
