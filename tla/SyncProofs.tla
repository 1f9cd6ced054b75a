----------------------------- MODULE SyncProofs -----------------------------
(***************************************************************************)
(* Proofs about the synchronisation objects of sandboxed code as module    *)
(* MCSync runs them: the mutex (PthreadMutex), for any finite set of       *)
(* threads, any number of calls and every mutex type; the semaphore        *)
(* (PthreadSemaphore), for any SEM_VALUE_MAX and initial value; the futex  *)
(* (Futex), for any addresses and values, which implements FutexSpec, on   *)
(* which the models and the proofs of the other objects rest; and, from    *)
(* PthreadRwLockProofs, the reader-writer lock beside them.                *)
(*                                                                         *)
(* The mutex: mutual exclusion, the owner field and the absence of lost    *)
(* wake-ups rest on each other: that an unlock decrements a locked mutex   *)
(* needs mutual exclusion, that a thread which holds the mutex does not    *)
(* wait for it needs the owner field, and that a woken thread looks at the *)
(* mutex again needs the positions of the threads in the code.  The        *)
(* inductive invariant is their conjunction with those positions.          *)
(***************************************************************************)
EXTENDS MCSync, Sequences, FiniteSetTheorems, SequenceTheorems, TLAPS

(* Where a thread can be: it sleeps just while it is in a futex call, and  *)
(* only on the mutex; a thread that has been granted the mutex is in no    *)
(* part of the code that waits for it or gives it back.                    *)
Positions ==
    \A t \in Threads :
        /\ pc[t] = "sleep" <=> fstate[t] # "out"
        /\ fstate[t] = "waiting" => faddr[t] = "mutex"
        /\ pc[t] = "mark" => old_state[t] # UNLOCKED
        /\ pc[t] \in {"owner", "clear"} => mutex_type # "FAST"
        /\ depth[t] > 0 =>
            \/ pc[t] \in {"out", "owner"}
            \/ pc[t] = "cas" /\ mutex_type = "FAST" /\ mode[t] = "trylock"

(* OwnerCorrect, with the point from which on the owner is cleared.        *)
OwnerExact ==
    mutex_type # "FAST" =>
        \A t \in Threads :
            /\ owner_thread_id = t => depth[t] > 0 \/ pc[t] = "clear"
            /\ depth[t] > 0 => /\ owner_thread_id = t
                               /\ recursion_counter = depth[t]

IInv ==
    /\ TypeOK
    /\ Positions
    /\ MutualExclusion
    /\ OwnerExact
    /\ NoLostWakeup

(* What futex_wake does to the threads that wait for the mutex.            *)
Woke ==
    /\ UNCHANGED <<word, faddr>>
    /\ \E W \in SUBSET Fx!WaitersOn("mutex") :
        /\ fstate' = [t \in Threads |-> IF t \in W THEN "woken" ELSE fstate[t]]
        /\ W = {} => Fx!WaitersOn("mutex") = {}

-----------------------------------------------------------------------------
(* futex_wake with a count of one wakes somebody if anybody waits.         *)
LEMMA WakeWakes == Fx!Wake("mutex", 1) => Woke
<1> SUFFICES ASSUME Fx!Wake("mutex", 1) PROVE Woke
  OBVIOUS
<1>1. PICK W \in Fx!WakeSet("mutex", 1) : fstate' = Fx!Woken(W)
  BY DEF Fx!Wake
<1>2. UNCHANGED <<word, faddr>>
  BY DEF Fx!Wake
<1>3. W \in SUBSET Fx!WaitersOn("mutex")
  BY DEF Fx!WakeSet
<1>4. IsFiniteSet(Fx!WaitersOn("mutex"))
  <2>1. Fx!WaitersOn("mutex") \subseteq Threads
    BY DEF Fx!WaitersOn
  <2>2. QED
    BY <2>1, MutexAssumption, FS_Subset
<1>5. IsFiniteSet(W)
  BY <1>3, <1>4, FS_Subset
<1>6. W = {} => Fx!WaitersOn("mutex") = {}
  <2>1. Cardinality({}) = 0
    BY FS_EmptySet
  <2>2. Fx!Cardinality(W) = Cardinality(W)
    BY DEF Cardinality, Fx!Cardinality
  <2>3. QED
    BY <1>1, <2>1, <2>2 DEF Fx!WakeSet
<1>7. fstate' = [t \in Threads |-> IF t \in W THEN "woken" ELSE fstate[t]]
  BY <1>1 DEF Fx!Woken
<1>8. QED
  BY <1>2, <1>3, <1>6, <1>7 DEF Woke

(* Every step of a thread keeps the types: the decrement does not go below *)
(* UNLOCKED, the recursion counter not below zero.                         *)
LEMMA TypeStep ==
    ASSUME IInv, NEW t \in Threads,
           \/ \E m \in Mode : LockCall(t, m)
           \/ UnlockCall(t) \/ Step(t) \/ FutexEnds(t)
    PROVE  TypeOK'
<1> USE MutexAssumption DEF IInv, TypeOK, Fx!FutexTypeOK, Fx!FState,
        MutexState, PC, Mode, futex,
           owner, mutex_state, UNLOCKED, LOCKED_WITHOUT_WAITERS,
           LOCKED_WITH_WAITERS, Positions, MutualExclusion,
           OwnerExact, Holds, Type
<1>1. ASSUME NEW m \in Mode, LockCall(t, m) PROVE TypeOK'
  BY <1>1 DEF LockCall, Call, Go
<1>2. CASE UnlockCall(t)
  BY <1>2 DEF UnlockCall, ReleaseCall, Call, Go, Grant
<1>3. CASE IsOwner(t)
  BY <1>3 DEF IsOwner, Go, Grant
<1>4. CASE IsNotOwner(t)
  BY <1>4 DEF IsNotOwner, Go
<1>5. CASE FirstCas(t)
  BY <1>5 DEF FirstCas, Keep, Put, Go
<1>6. CASE Mark(t)
  BY <1>6 DEF Mark, Put, Go
<1>7. CASE Wait(t)
  BY <1>7 DEF Wait, Go, Fx!WaitBlocks, Fx!WaitRefused,
                Fx!WaitTooLate, Fx!Move
<1>8. CASE FutexWakes(t)
  BY <1>8 DEF FutexWakes, Fx!WakeUp, Fx!WaitEnds, Fx!Move
<1>9. CASE FutexEnds(t)
  BY <1>9 DEF FutexEnds, Fx!TimeOut, Fx!WakeSpuriously,
                Fx!WaitEnds, Fx!Move
<1>10. CASE WaitReturns(t)
  BY <1>10 DEF WaitReturns, Go, Fx!WaitReturn, Fx!Move
<1>11. CASE Retry(t)
  BY <1>11 DEF Retry, Keep, Put, Go
<1>12. CASE Got(t)
  BY <1>12 DEF Got, Go, Grant
<1>13. CASE ClearOwner(t)
  BY <1>13 DEF ClearOwner, Go
<1>14. CASE FetchAndSub(t)
  BY <1>14 DEF FetchAndSub, Keep, Put, Go
<1>15. CASE StoreUnlocked(t)
  BY <1>15 DEF StoreUnlocked, Put, Go
<1>16. CASE FutexWake(t)
  BY <1>16, WakeWakes DEF FutexWake, Go, Woke
<1>17. QED
  BY <1>1, <1>2, <1>3, <1>4, <1>5, <1>6, <1>7, <1>8, <1>9,
     <1>10, <1>11, <1>12, <1>13, <1>14, <1>15, <1>16 DEF Step

(* No step takes a thread that holds the mutex to where it waits for it.   *)
LEMMA PositionsStep ==
    ASSUME IInv, NEW t \in Threads,
           \/ \E m \in Mode : LockCall(t, m)
           \/ UnlockCall(t) \/ Step(t) \/ FutexEnds(t)
    PROVE  Positions'
<1> USE MutexAssumption DEF IInv, TypeOK, Fx!FutexTypeOK, Fx!FState,
        MutexState, PC, Mode, futex,
           owner, mutex_state, UNLOCKED, LOCKED_WITHOUT_WAITERS,
           LOCKED_WITH_WAITERS, Positions, OwnerExact,
           Fx!WaitersOn, Type, MutualExclusion, Holds
<1>1. ASSUME NEW m \in Mode, LockCall(t, m) PROVE Positions'
  BY <1>1 DEF LockCall, Call, Go
<1>2. CASE UnlockCall(t)
  BY <1>2 DEF UnlockCall, ReleaseCall, Call, Go, Grant
<1>3. CASE IsOwner(t)
  BY <1>3 DEF IsOwner, Go, Grant
<1>4. CASE IsNotOwner(t)
  BY <1>4 DEF IsNotOwner, Go
<1>5. CASE FirstCas(t)
  BY <1>5 DEF FirstCas, Keep, Put, Go
<1>6. CASE Mark(t)
  BY <1>6 DEF Mark, Put, Go
<1>7. CASE Wait(t)
  BY <1>7 DEF Wait, Go, Fx!WaitBlocks, Fx!WaitRefused,
                Fx!WaitTooLate, Fx!Move
<1>8. CASE FutexWakes(t)
  BY <1>8 DEF FutexWakes, Fx!WakeUp, Fx!WaitEnds, Fx!Move
<1>9. CASE FutexEnds(t)
  BY <1>9 DEF FutexEnds, Fx!TimeOut, Fx!WakeSpuriously,
                Fx!WaitEnds, Fx!Move
<1>10. CASE WaitReturns(t)
  BY <1>10 DEF WaitReturns, Go, Fx!WaitReturn, Fx!Move
<1>11. CASE Retry(t)
  BY <1>11 DEF Retry, Keep, Put, Go
<1>12. CASE Got(t)
  BY <1>12 DEF Got, Go, Grant
<1>13. CASE ClearOwner(t)
  BY <1>13 DEF ClearOwner, Go
<1>14. CASE FetchAndSub(t)
  BY <1>14 DEF FetchAndSub, Keep, Put, Go
<1>15. CASE StoreUnlocked(t)
  BY <1>15 DEF StoreUnlocked, Put, Go
<1>16. CASE FutexWake(t)
  BY <1>16, WakeWakes DEF FutexWake, Go, Woke
<1>17. QED
  BY <1>1, <1>2, <1>3, <1>4, <1>5, <1>6, <1>7, <1>8, <1>9,
     <1>10, <1>11, <1>12, <1>13, <1>14, <1>15, <1>16 DEF Step

(* A compare-and-swap takes the mutex only if nobody has it.               *)
LEMMA ExclusionStep ==
    ASSUME IInv, NEW t \in Threads,
           \/ \E m \in Mode : LockCall(t, m)
           \/ UnlockCall(t) \/ Step(t) \/ FutexEnds(t)
    PROVE  MutualExclusion'
<1> USE MutexAssumption DEF IInv, TypeOK, Fx!FutexTypeOK, Fx!FState,
        MutexState, PC, Mode, futex,
           owner, mutex_state, UNLOCKED, LOCKED_WITHOUT_WAITERS,
           LOCKED_WITH_WAITERS, Positions, MutualExclusion,
           Holds, OwnerExact, Type
<1>1. ASSUME NEW m \in Mode, LockCall(t, m) PROVE MutualExclusion'
  BY <1>1 DEF LockCall, Call, Go
<1>2. CASE UnlockCall(t)
  BY <1>2 DEF UnlockCall, ReleaseCall, Call, Go, Grant
<1>3. CASE IsOwner(t)
  BY <1>3 DEF IsOwner, Go, Grant
<1>4. CASE IsNotOwner(t)
  BY <1>4 DEF IsNotOwner, Go
<1>5. CASE FirstCas(t)
  BY <1>5 DEF FirstCas, Keep, Put, Go
<1>6. CASE Mark(t)
  BY <1>6 DEF Mark, Put, Go
<1>7. CASE Wait(t)
  BY <1>7 DEF Wait, Go, Fx!WaitBlocks, Fx!WaitRefused,
                Fx!WaitTooLate, Fx!Move
<1>8. CASE FutexWakes(t)
  BY <1>8 DEF FutexWakes, Fx!WakeUp, Fx!WaitEnds, Fx!Move
<1>9. CASE FutexEnds(t)
  BY <1>9 DEF FutexEnds, Fx!TimeOut, Fx!WakeSpuriously,
                Fx!WaitEnds, Fx!Move
<1>10. CASE WaitReturns(t)
  BY <1>10 DEF WaitReturns, Go, Fx!WaitReturn, Fx!Move
<1>11. CASE Retry(t)
  BY <1>11 DEF Retry, Keep, Put, Go
<1>12. CASE Got(t)
  BY <1>12 DEF Got, Go, Grant
<1>13. CASE ClearOwner(t)
  BY <1>13 DEF ClearOwner, Go
<1>14. CASE FetchAndSub(t)
  BY <1>14 DEF FetchAndSub, Keep, Put, Go
<1>15. CASE StoreUnlocked(t)
  BY <1>15 DEF StoreUnlocked, Put, Go
<1>16. CASE FutexWake(t)
  BY <1>16, WakeWakes DEF FutexWake, Go, Woke
<1>17. QED
  BY <1>1, <1>2, <1>3, <1>4, <1>5, <1>6, <1>7, <1>8, <1>9,
     <1>10, <1>11, <1>12, <1>13, <1>14, <1>15, <1>16 DEF Step

(* The owner field is written only by the thread that has the mutex.       *)
LEMMA OwnerStep ==
    ASSUME IInv, NEW t \in Threads,
           \/ \E m \in Mode : LockCall(t, m)
           \/ UnlockCall(t) \/ Step(t) \/ FutexEnds(t)
    PROVE  OwnerExact'
<1> USE MutexAssumption DEF IInv, TypeOK, Fx!FutexTypeOK, Fx!FState,
        MutexState, PC, Mode, futex,
           owner, mutex_state, UNLOCKED, LOCKED_WITHOUT_WAITERS,
           LOCKED_WITH_WAITERS, Positions, MutualExclusion,
           Holds, OwnerExact, Type
<1>1. ASSUME NEW m \in Mode, LockCall(t, m) PROVE OwnerExact'
  BY <1>1 DEF LockCall, Call, Go
<1>2. CASE UnlockCall(t)
  BY <1>2 DEF UnlockCall, ReleaseCall, Call, Go, Grant
<1>3. CASE IsOwner(t)
  BY <1>3 DEF IsOwner, Go, Grant
<1>4. CASE IsNotOwner(t)
  BY <1>4 DEF IsNotOwner, Go
<1>5. CASE FirstCas(t)
  BY <1>5 DEF FirstCas, Keep, Put, Go
<1>6. CASE Mark(t)
  BY <1>6 DEF Mark, Put, Go
<1>7. CASE Wait(t)
  BY <1>7 DEF Wait, Go, Fx!WaitBlocks, Fx!WaitRefused,
                Fx!WaitTooLate, Fx!Move
<1>8. CASE FutexWakes(t)
  BY <1>8 DEF FutexWakes, Fx!WakeUp, Fx!WaitEnds, Fx!Move
<1>9. CASE FutexEnds(t)
  BY <1>9 DEF FutexEnds, Fx!TimeOut, Fx!WakeSpuriously,
                Fx!WaitEnds, Fx!Move
<1>10. CASE WaitReturns(t)
  BY <1>10 DEF WaitReturns, Go, Fx!WaitReturn, Fx!Move
<1>11. CASE Retry(t)
  BY <1>11 DEF Retry, Keep, Put, Go
<1>12. CASE Got(t)
  BY <1>12 DEF Got, Go, Grant
<1>13. CASE ClearOwner(t)
  BY <1>13 DEF ClearOwner, Go
<1>14. CASE FetchAndSub(t)
  BY <1>14 DEF FetchAndSub, Keep, Put, Go
<1>15. CASE StoreUnlocked(t)
  BY <1>15 DEF StoreUnlocked, Put, Go
<1>16. CASE FutexWake(t)
  BY <1>16, WakeWakes DEF FutexWake, Go, Woke
<1>17. QED
  BY <1>1, <1>2, <1>3, <1>4, <1>5, <1>6, <1>7, <1>8, <1>9,
     <1>10, <1>11, <1>12, <1>13, <1>14, <1>15, <1>16 DEF Step

(* A thread that could have woken somebody leaves a trace of the waiters.  *)
LEMMA WakeupStep ==
    ASSUME IInv, NEW t \in Threads,
           \/ \E m \in Mode : LockCall(t, m)
           \/ UnlockCall(t) \/ Step(t) \/ FutexEnds(t)
    PROVE  NoLostWakeup'
<1> USE MutexAssumption DEF IInv, TypeOK, Fx!FutexTypeOK, Fx!FState,
        MutexState, PC, Mode, futex,
           owner, mutex_state, UNLOCKED, LOCKED_WITHOUT_WAITERS,
           LOCKED_WITH_WAITERS, Positions, MutualExclusion,
           Holds, NoLostWakeup, Responsible, Fx!WaitersOn
<1>1. ASSUME NEW m \in Mode, LockCall(t, m) PROVE NoLostWakeup'
  BY <1>1 DEF LockCall, Call, Go
<1>2. CASE UnlockCall(t)
  BY <1>2 DEF UnlockCall, ReleaseCall, Call, Go, Grant
<1>3. CASE IsOwner(t)
  BY <1>3 DEF IsOwner, Go, Grant
<1>4. CASE IsNotOwner(t)
  BY <1>4 DEF IsNotOwner, Go
<1>5. CASE FirstCas(t)
  BY <1>5 DEF FirstCas, Keep, Put, Go
<1>6. CASE Mark(t)
  BY <1>6 DEF Mark, Put, Go
<1>7. CASE Wait(t)
  BY <1>7 DEF Wait, Go, Fx!WaitBlocks, Fx!WaitRefused,
                Fx!WaitTooLate, Fx!Move
<1>8. CASE FutexWakes(t)
  BY <1>8 DEF FutexWakes, Fx!WakeUp, Fx!WaitEnds, Fx!Move
<1>9. CASE FutexEnds(t)
  BY <1>9 DEF FutexEnds, Fx!TimeOut, Fx!WakeSpuriously,
                Fx!WaitEnds, Fx!Move
<1>10. CASE WaitReturns(t)
  BY <1>10 DEF WaitReturns, Go, Fx!WaitReturn, Fx!Move
<1>11. CASE Retry(t)
  BY <1>11 DEF Retry, Keep, Put, Go
<1>12. CASE Got(t)
  BY <1>12 DEF Got, Go, Grant
<1>13. CASE ClearOwner(t)
  BY <1>13 DEF ClearOwner, Go
<1>14. CASE FetchAndSub(t)
  BY <1>14 DEF FetchAndSub, Keep, Put, Go
<1>15. CASE StoreUnlocked(t)
  BY <1>15 DEF StoreUnlocked, Put, Go
<1>16. CASE FutexWake(t)
  BY <1>16, WakeWakes DEF FutexWake, Go, Woke
<1>17. QED
  BY <1>1, <1>2, <1>3, <1>4, <1>5, <1>6, <1>7, <1>8, <1>9,
     <1>10, <1>11, <1>12, <1>13, <1>14, <1>15, <1>16 DEF Step

-----------------------------------------------------------------------------
(* pthread_mutex_init establishes the invariant.                           *)
LEMMA InitIInv == Init => IInv
<1> SUFFICES ASSUME Init PROVE IInv
  OBVIOUS
<1> USE MutexAssumption
<1>1. TypeOK
  BY DEF Init, TypeOK, Fx!FutexTypeOK, Fx!FState, MutexState, PC, Mode, NoAddr,
         UNLOCKED, LOCKED_WITHOUT_WAITERS, LOCKED_WITH_WAITERS
<1>2. Positions
  BY DEF Init, Positions, NoAddr
<1>3. MutualExclusion
  BY DEF Init, MutualExclusion, Holds, mutex_state
<1>4. OwnerExact
  BY DEF Init, OwnerExact
<1>5. NoLostWakeup
  BY DEF Init, NoLostWakeup
<1>6. QED
  BY <1>1, <1>2, <1>3, <1>4, <1>5 DEF IInv

(* Nothing that the invariant speaks of changes while nothing happens.     *)
LEMMA StutterIInv == IInv /\ UNCHANGED vars => IInv'
<1> SUFFICES ASSUME IInv, UNCHANGED vars PROVE IInv'
  OBVIOUS
<1> USE DEF vars, futex, owner
<1>1. TypeOK'
  BY DEF IInv, TypeOK, Fx!FutexTypeOK
<1>2. Positions'
  BY DEF IInv, Positions
<1>3. MutualExclusion'
  BY DEF IInv, MutualExclusion, Holds, mutex_state
<1>4. OwnerExact'
  BY DEF IInv, OwnerExact
<1>5. NoLostWakeup'
  BY DEF IInv, NoLostWakeup, Responsible, mutex_state
<1>6. QED
  BY <1>1, <1>2, <1>3, <1>4, <1>5 DEF IInv

LEMMA NextIInv == IInv /\ [Next]_vars => IInv'
<1> SUFFICES ASSUME IInv, [Next]_vars PROVE IInv'
  OBVIOUS
<1>1. CASE UNCHANGED vars
  BY <1>1, StutterIInv
<1>2. CASE Finished
  BY <1>2, StutterIInv DEF Finished
<1>3. ASSUME NEW t \in Threads,
             \/ \E m \in Mode : LockCall(t, m)
             \/ UnlockCall(t) \/ Step(t) \/ FutexEnds(t)
      PROVE  IInv'
  BY <1>3, TypeStep, PositionsStep, ExclusionStep, OwnerStep, WakeupStep
     DEF IInv
<1>4. QED
  BY <1>1, <1>2, <1>3 DEF Next

(* The inductive invariant holds in every reachable state.                 *)
THEOREM Invariance == Spec => []IInv
BY InitIInv, NextIInv, PTL DEF Spec

(* All variables of the mutex, of the futex and of the threads keep their  *)
(* types.                                                                  *)
THEOREM TypeCorrect == Spec => []TypeOK
<1>1. IInv => TypeOK
  BY DEF IInv
<1>2. QED
  BY <1>1, Invariance, PTL

(* No two threads have the mutex at once, and mutex_state tells whether    *)
(* one has it, whatever timeouts and spurious wake-ups do.                 *)
THEOREM Exclusion == Spec => []MutualExclusion
<1>1. IInv => MutualExclusion
  BY DEF IInv
<1>2. QED
  BY <1>1, Invariance, PTL

(* The unsynchronised owner field is right whenever a thread acts on it.   *)
THEOREM OwnerIsCorrect == Spec => []OwnerCorrect
<1>1. IInv => OwnerCorrect
  BY DEF IInv, OwnerExact, OwnerCorrect, Holds
<1>2. QED
  BY <1>1, Invariance, PTL

(* No wake-up is lost: while a thread sleeps, the mutex says so or some    *)
(* thread is on its way to see to it.                                      *)
THEOREM WakeupsKept == Spec => []NoLostWakeup
<1>1. IInv => NoLostWakeup
  BY DEF IInv
<1>2. QED
  BY <1>1, Invariance, PTL

(* One thread has the mutex at a time, whatever the type of the mutex and  *)
(* however calls overlap, and state, owner and recursion counter say so    *)
(* (nc_mutex.c).                                                           *)
THEOREM MutexAlwaysCorrect == Spec => []MutexCorrect
<1>1. TypeOK /\ MutualExclusion /\ OwnerCorrect => MutexCorrect
  BY DEF MutexCorrect
<1>2. QED
  BY <1>1, TypeCorrect, Exclusion, OwnerIsCorrect, PTL

-----------------------------------------------------------------------------
(***************************************************************************)
(* The semaphore.  The inductive invariant is SemaphoreCorrect with the    *)
(* positions of the threads in the code.  The wake-ups are counted: while  *)
(* a thread sleeps, each unit in the count is matched by a thread that is  *)
(* on its way to wake somebody or to look at the count.  A post adds one   *)
(* of each, a sleeper that takes a unit removes one of each, a poster that *)
(* wakes a sleeper hands its place to it; and a poster may leave out the   *)
(* wake call because nwaiters = 0 means that nobody sleeps.                *)
(***************************************************************************)
SemWaiters == {t \in Callers : counted[t]}
SemReady == {t \in Callers : Sem!Responsible(t)}

(* Where a thread can be: it sleeps just while it is in a futex call, it   *)
(* is counted in nwaiters from EnterWaiters to LeaveWaiters, and a         *)
(* compare-and-swap stays between 0 and SEM_VALUE_MAX.                     *)
SemPositions ==
    \A t \in Callers :
        /\ semPc[t] = "sleep" <=> semFstate[t] # "out"
        /\ semFstate[t] \notin {"ETIMEDOUT", "EFAULT"}
        /\ semFstate[t] = "waiting" => semFaddr[t] = "count"
        /\ semPc[t] \in {"wait", "sleep", "leave"} => counted[t]
        /\ counted[t] =>
            /\ semPc[t] \in {"load", "cas", "wait", "sleep", "leave"}
            /\ semCall[t] = "wait"
        /\ semPc[t] = "enter" => semCall[t] = "wait"
        /\ semPc[t] \in {"load", "cas"} => semCall[t] # "post"
        /\ semPc[t] = "cas" => semOld[t] > 0
        /\ semPc[t] = "post_cas" => semOld[t] < SEM_VALUE_MAX

SemIInv == Sem!SemaphoreCorrect /\ SemPositions

(* What futex_wake does to the threads that wait for a unit.               *)
SemWoke ==
    /\ UNCHANGED <<semWord, semFaddr>>
    /\ \E W \in SUBSET Sem!Fx!WaitersOn("count") :
        /\ semFstate' = [t \in Callers |->
                            IF t \in W THEN "woken" ELSE semFstate[t]]
        /\ W = {} => Sem!Fx!WaitersOn("count") = {}

-----------------------------------------------------------------------------
(* The number of threads in a set is the same number in every module.      *)
LEMMA SemCardinality == \A S : Sem!Cardinality(S) = Cardinality(S)
  BY DEF Sem!Cardinality, Cardinality

LEMMA SemFinite == Sem!SemaphoreAssumption => IsFiniteSet(Callers)
  BY DEF Sem!SemaphoreAssumption, Sem!IsFiniteSet, IsFiniteSet

(* Every set of threads is finite.                                         *)
LEMMA SemThreadSet ==
    ASSUME Sem!SemaphoreAssumption, NEW S, S \subseteq Callers
    PROVE  /\ IsFiniteSet(S)
           /\ Cardinality(S) \in Nat
           /\ Cardinality(S) <= Cardinality(Callers)
           /\ Cardinality(Callers) \in Nat
  BY SemFinite, FS_Subset, FS_CardinalityType DEF Sem!SemaphoreAssumption

(* How the number of threads in a set changes when threads join and leave. *)
LEMMA SemGrows ==
    ASSUME Sem!SemaphoreAssumption,
           NEW S, NEW T, S \subseteq T, T \subseteq Callers
    PROVE  Cardinality(S) <= Cardinality(T)
<1>1. IsFiniteSet(T)
  BY SemThreadSet
<1>2. QED
  BY <1>1, FS_Subset

LEMMA SemJoins ==
    ASSUME Sem!SemaphoreAssumption, NEW S, S \subseteq Callers,
           NEW t \in Callers, t \notin S
    PROVE  Cardinality(S \cup {t}) = Cardinality(S) + 1
<1>1. IsFiniteSet(S)
  BY SemThreadSet
<1>2. QED
  BY <1>1, FS_AddElement

LEMMA SemLeaves ==
    ASSUME Sem!SemaphoreAssumption, NEW S, S \subseteq Callers, NEW t \in S
    PROVE  Cardinality(S \ {t}) = Cardinality(S) - 1
<1>1. IsFiniteSet(S)
  BY SemThreadSet
<1>2. QED
  BY <1>1, FS_RemoveElement

LEMMA SemShrinks ==
    ASSUME Sem!SemaphoreAssumption,
           NEW S, NEW T, NEW t, S \ {t} \subseteq T, S \subseteq Callers,
           T \subseteq Callers
    PROVE  Cardinality(T) >= Cardinality(S) - 1
<1>1. Cardinality(S) \in Nat /\ Cardinality(T) \in Nat
  BY SemThreadSet
<1>2. CASE t \in S
  <2>1. Cardinality(S \ {t}) = Cardinality(S) - 1
    BY <1>2, SemLeaves
  <2>2. Cardinality(S \ {t}) <= Cardinality(T)
    BY SemGrows
  <2>3. QED
    BY <1>1, <2>1, <2>2
<1>3. CASE t \notin S
  BY <1>1, <1>3, SemGrows
<1>4. QED
  BY <1>2, <1>3

(* futex_wake with a count of one wakes somebody if anybody waits.         *)
LEMMA SemWakeWakes ==
    ASSUME Sem!SemaphoreAssumption
    PROVE  Sem!Fx!Wake("count", 1) => SemWoke
<1> SUFFICES ASSUME Sem!Fx!Wake("count", 1) PROVE SemWoke
  OBVIOUS
<1>1. PICK W \in Sem!Fx!WakeSet("count", 1) : semFstate' = Sem!Fx!Woken(W)
  BY DEF Sem!Fx!Wake
<1>2. UNCHANGED <<semWord, semFaddr>>
  BY DEF Sem!Fx!Wake
<1>3. W \in SUBSET Sem!Fx!WaitersOn("count")
  BY DEF Sem!Fx!WakeSet
<1>4. W = {} => Sem!Fx!WaitersOn("count") = {}
  <2>1. Cardinality({}) = 0
    BY FS_EmptySet
  <2>2. Sem!Fx!Cardinality(W) = Cardinality(W)
    BY DEF Cardinality, Sem!Fx!Cardinality
  <2>3. QED
    BY <1>1, <2>1, <2>2 DEF Sem!Fx!WakeSet
<1>5. QED
  BY <1>1, <1>2, <1>3, <1>4 DEF Sem!Fx!Woken, SemWoke

-----------------------------------------------------------------------------
(* No step takes a thread to where it should not be.                       *)
LEMMA SemPositionsStep ==
    ASSUME Sem!SemaphoreAssumption, SemIInv, NEW t \in Callers,
           \/ \E c \in {"wait", "trywait", "post"} : Sem!Call(t, c)
           \/ Sem!Step(t) \/ Sem!FutexEnds(t)
    PROVE  SemPositions'
<1> USE Sem!SemaphoreAssumption, SemCardinality
        DEF Sem!SemaphoreAssumption, SemIInv, Sem!SemaphoreCorrect,
            Sem!TypeOK, SemPositions,
            Sem!Fx!FutexTypeOK, Sem!Fx!FState, Sem!Fx!WaitersOn, Sem!count,
            Sem!NoAddr, Sem!futex
<1>1. ASSUME NEW c \in {"wait", "trywait", "post"}, Sem!Call(t, c)
      PROVE  SemPositions'
  BY <1>1 DEF Sem!Call, Sem!Go
<1>2. CASE Sem!DecrementLoad(t)
  BY <1>2 DEF Sem!DecrementLoad, Sem!Go
<1>3. CASE Sem!DecrementCas(t)
  BY <1>3 DEF Sem!DecrementCas, Sem!Go
<1>4. CASE Sem!DecrementFails(t)
  BY <1>4 DEF Sem!DecrementFails, Sem!Go
<1>5. CASE Sem!EnterWaiters(t)
  BY <1>5 DEF Sem!EnterWaiters, Sem!Go
<1>6. CASE Sem!Wait(t)
  BY <1>6 DEF Sem!Wait, Sem!Go, Sem!Fx!WaitBlocks, Sem!Fx!WaitRefused,
     Sem!Fx!Move
<1>7. CASE Sem!FutexWakes(t)
  BY <1>7 DEF Sem!FutexWakes, Sem!Fx!WakeUp, Sem!Fx!WaitEnds, Sem!Fx!Move
<1>8. CASE Sem!WaitReturns(t)
  BY <1>8 DEF Sem!WaitReturns, Sem!Go, Sem!Fx!WaitReturn, Sem!Fx!Move
<1>9. CASE Sem!LeaveWaiters(t)
  BY <1>9 DEF Sem!LeaveWaiters, Sem!Go
<1>10. CASE Sem!PostLoad(t)
  BY <1>10 DEF Sem!PostLoad, Sem!Go
<1>11. CASE Sem!PostCas(t)
  BY <1>11 DEF Sem!PostCas, Sem!Go
<1>12. CASE Sem!PostCheck(t)
  BY <1>12 DEF Sem!PostCheck, Sem!Go
<1>13. CASE Sem!PostWake(t)
  BY <1>13, SemWakeWakes DEF Sem!PostWake, Sem!Go, SemWoke
<1>14. CASE Sem!FutexEnds(t)
  BY <1>14 DEF Sem!FutexEnds, Sem!Fx!WakeSpuriously, Sem!Fx!WaitEnds,
     Sem!Fx!Move
<1>15. QED
  BY <1>1, <1>2, <1>3, <1>4, <1>5, <1>6, <1>7, <1>8, <1>9, <1>10, <1>11,
     <1>12, <1>13, <1>14 DEF Sem!Step

(* A unit is posted or taken where the count changes, and nwaiters follows *)
(* the threads that are counted in it.                                     *)
LEMMA SemUnitsStep ==
    ASSUME Sem!SemaphoreAssumption, SemIInv, NEW t \in Callers,
           \/ \E c \in {"wait", "trywait", "post"} : Sem!Call(t, c)
           \/ Sem!Step(t) \/ Sem!FutexEnds(t)
    PROVE  Sem!UnitsConserved'
<1> USE Sem!SemaphoreAssumption, SemCardinality
        DEF Sem!SemaphoreAssumption, SemIInv, Sem!SemaphoreCorrect,
            Sem!TypeOK, SemPositions,
            Sem!Fx!FutexTypeOK, Sem!Fx!FState, Sem!Fx!WaitersOn, Sem!count,
            Sem!NoAddr, Sem!futex,
            Sem!UnitsConserved
<1>1. ASSUME NEW c \in {"wait", "trywait", "post"}, Sem!Call(t, c)
      PROVE  Sem!UnitsConserved'
  BY <1>1 DEF Sem!Call, Sem!Go
<1>2. CASE Sem!DecrementLoad(t)
  BY <1>2 DEF Sem!DecrementLoad, Sem!Go
<1>3. CASE Sem!DecrementCas(t)
  BY <1>3 DEF Sem!DecrementCas, Sem!Go
<1>4. CASE Sem!DecrementFails(t)
  BY <1>4 DEF Sem!DecrementFails, Sem!Go
<1>5. CASE Sem!EnterWaiters(t)
  <2>1. t \notin SemWaiters /\ SemWaiters' = SemWaiters \cup {t}
    BY <1>5 DEF Sem!EnterWaiters, Sem!Go, SemWaiters
  <2>2. SemWaiters \subseteq Callers
    BY DEF SemWaiters
  <2>3. Cardinality(SemWaiters') = Cardinality(SemWaiters) + 1
    BY <2>1, <2>2, SemJoins
  <2>4. QED
    BY <1>5, <2>3 DEF Sem!EnterWaiters, Sem!UnitsConserved, SemWaiters
<1>6. CASE Sem!Wait(t)
  BY <1>6 DEF Sem!Wait, Sem!Go, Sem!Fx!WaitBlocks, Sem!Fx!WaitRefused,
     Sem!Fx!Move
<1>7. CASE Sem!FutexWakes(t)
  BY <1>7 DEF Sem!FutexWakes, Sem!Fx!WakeUp, Sem!Fx!WaitEnds, Sem!Fx!Move
<1>8. CASE Sem!WaitReturns(t)
  BY <1>8 DEF Sem!WaitReturns, Sem!Go, Sem!Fx!WaitReturn, Sem!Fx!Move
<1>9. CASE Sem!LeaveWaiters(t)
  <2>1. t \in SemWaiters /\ SemWaiters' = SemWaiters \ {t}
    BY <1>9 DEF Sem!LeaveWaiters, Sem!Go, SemWaiters
  <2>2. SemWaiters \subseteq Callers
    BY DEF SemWaiters
  <2>3. Cardinality(SemWaiters') = Cardinality(SemWaiters) - 1
    BY <2>1, <2>2, SemLeaves
  <2>4. QED
    BY <1>9, <2>3 DEF Sem!LeaveWaiters, Sem!UnitsConserved, SemWaiters
<1>10. CASE Sem!PostLoad(t)
  BY <1>10 DEF Sem!PostLoad, Sem!Go
<1>11. CASE Sem!PostCas(t)
  BY <1>11 DEF Sem!PostCas, Sem!Go
<1>12. CASE Sem!PostCheck(t)
  BY <1>12 DEF Sem!PostCheck, Sem!Go
<1>13. CASE Sem!PostWake(t)
  BY <1>13, SemWakeWakes DEF Sem!PostWake, Sem!Go, SemWoke
<1>14. CASE Sem!FutexEnds(t)
  BY <1>14 DEF Sem!FutexEnds, Sem!Fx!WakeSpuriously, Sem!Fx!WaitEnds,
     Sem!Fx!Move
<1>15. QED
  BY <1>1, <1>2, <1>3, <1>4, <1>5, <1>6, <1>7, <1>8, <1>9, <1>10, <1>11,
     <1>12, <1>13, <1>14 DEF Sem!Step

(* Every step keeps the types: the count stays within its bounds, because  *)
(* it is compared with old_value, and nwaiters does not exceed the number  *)
(* of threads.                                                             *)
LEMMA SemTypeStep ==
    ASSUME Sem!SemaphoreAssumption, SemIInv, NEW t \in Callers,
           \/ \E c \in {"wait", "trywait", "post"} : Sem!Call(t, c)
           \/ Sem!Step(t) \/ Sem!FutexEnds(t)
    PROVE  Sem!TypeOK'
<1> USE Sem!SemaphoreAssumption, SemCardinality
        DEF Sem!SemaphoreAssumption, SemIInv, Sem!SemaphoreCorrect,
            Sem!TypeOK, SemPositions,
            Sem!Fx!FutexTypeOK, Sem!Fx!FState, Sem!Fx!WaitersOn, Sem!count,
            Sem!NoAddr, Sem!futex,
            Sem!UnitsConserved
<1> HIDE DEF Sem!SemaphoreAssumption
<1>0. /\ nwaiters' \in 0 .. Cardinality(Callers)
      /\ SEM_VALUE_MAX \in Nat /\ SemCalls \in Nat
  <2>1. nwaiters' = Cardinality(SemWaiters')
    BY SemUnitsStep DEF SemWaiters
  <2>2. SemWaiters' \subseteq Callers
    BY DEF SemWaiters
  <2>3. Cardinality(SemWaiters') \in 0 .. Cardinality(Callers)
    BY <2>2, SemThreadSet
  <2>4. QED
    BY <2>1, <2>3 DEF Sem!SemaphoreAssumption
<1>1. ASSUME NEW c \in {"wait", "trywait", "post"}, Sem!Call(t, c)
      PROVE  Sem!TypeOK'
  BY <1>0, <1>1 DEF Sem!Call, Sem!Go
<1>2. CASE Sem!DecrementLoad(t)
  BY <1>0, <1>2 DEF Sem!DecrementLoad, Sem!Go
<1>3. CASE Sem!DecrementCas(t)
  BY <1>0, <1>3 DEF Sem!DecrementCas, Sem!Go
<1>4. CASE Sem!DecrementFails(t)
  BY <1>0, <1>4 DEF Sem!DecrementFails, Sem!Go
<1>5. CASE Sem!EnterWaiters(t)
  BY <1>0, <1>5 DEF Sem!EnterWaiters, Sem!Go
<1>6. CASE Sem!Wait(t)
  BY <1>0, <1>6 DEF Sem!Wait, Sem!Go, Sem!Fx!WaitBlocks, Sem!Fx!WaitRefused,
     Sem!Fx!Move
<1>7. CASE Sem!FutexWakes(t)
  BY <1>0, <1>7 DEF Sem!FutexWakes, Sem!Fx!WakeUp, Sem!Fx!WaitEnds, Sem!Fx!Move
<1>8. CASE Sem!WaitReturns(t)
  BY <1>0, <1>8 DEF Sem!WaitReturns, Sem!Go, Sem!Fx!WaitReturn, Sem!Fx!Move
<1>9. CASE Sem!LeaveWaiters(t)
  BY <1>0, <1>9 DEF Sem!LeaveWaiters, Sem!Go
<1>10. CASE Sem!PostLoad(t)
  BY <1>0, <1>10 DEF Sem!PostLoad, Sem!Go
<1>11. CASE Sem!PostCas(t)
  BY <1>0, <1>11 DEF Sem!PostCas, Sem!Go
<1>12. CASE Sem!PostCheck(t)
  BY <1>0, <1>12 DEF Sem!PostCheck, Sem!Go
<1>13. CASE Sem!PostWake(t)
  BY <1>0, <1>13, SemWakeWakes DEF Sem!PostWake, Sem!Go, SemWoke
<1>14. CASE Sem!FutexEnds(t)
  BY <1>0, <1>14 DEF Sem!FutexEnds, Sem!Fx!WakeSpuriously, Sem!Fx!WaitEnds,
     Sem!Fx!Move
<1>15. QED
  BY <1>1, <1>2, <1>3, <1>4, <1>5, <1>6, <1>7, <1>8, <1>9, <1>10, <1>11,
     <1>12, <1>13, <1>14 DEF Sem!Step

(* While a thread sleeps, every unit keeps its thread on the way.          *)
LEMMA SemWakeupStep ==
    ASSUME Sem!SemaphoreAssumption, SemIInv, NEW t \in Callers,
           \/ \E c \in {"wait", "trywait", "post"} : Sem!Call(t, c)
           \/ Sem!Step(t) \/ Sem!FutexEnds(t)
    PROVE  Sem!NoLostWakeup'
<1> USE Sem!SemaphoreAssumption, SemCardinality
        DEF Sem!SemaphoreAssumption, SemIInv, Sem!SemaphoreCorrect,
            Sem!TypeOK, SemPositions,
            Sem!Fx!FutexTypeOK, Sem!Fx!FState, Sem!Fx!WaitersOn, Sem!count,
            Sem!NoAddr, Sem!futex
<1> HIDE DEF Sem!SemaphoreAssumption
<1>0. /\ SemReady \subseteq Callers /\ SemReady' \subseteq Callers
      /\ Cardinality(SemReady) \in Nat /\ Cardinality(SemReady') \in Nat
  <2>1. SemReady \subseteq Callers /\ SemReady' \subseteq Callers
    BY DEF SemReady
  <2>2. QED
    BY <2>1, SemThreadSet
<1>1. ASSUME NEW c \in {"wait", "trywait", "post"}, Sem!Call(t, c)
      PROVE  Sem!NoLostWakeup'
  <2>1. SemReady' = SemReady /\ Sem!Sleepers' = Sem!Sleepers
    BY <1>1 DEF Sem!Call, Sem!Go, SemReady, Sem!Responsible, Sem!Sleepers
  <2>2. QED
    BY <1>1, <2>1 DEF Sem!Call, Sem!NoLostWakeup, SemReady
<1>2. CASE Sem!DecrementLoad(t)
  <2>1. SemReady' = SemReady /\ Sem!Sleepers' = Sem!Sleepers
    BY <1>2 DEF Sem!DecrementLoad, Sem!Go, SemReady, Sem!Responsible,
       Sem!Sleepers
  <2>2. QED
    BY <1>2, <2>1 DEF Sem!DecrementLoad, Sem!NoLostWakeup, SemReady
<1>3. CASE Sem!DecrementCas(t)
  <2>1. SemReady \ {t} \subseteq SemReady' /\ Sem!Sleepers' = Sem!Sleepers
    BY <1>3 DEF Sem!DecrementCas, Sem!Go, SemReady, Sem!Responsible,
       Sem!Sleepers
  <2>2. CASE Sem!count = semOld[t]
    <3>1. Sem!count' = Sem!count - 1 /\ Sem!count \in Nat
      BY <1>3, <2>2 DEF Sem!DecrementCas
    <3>2. Cardinality(SemReady') >= Cardinality(SemReady) - 1
      BY <2>1, <1>0, SemShrinks
    <3>3. QED
      BY <2>1, <3>1, <3>2, <1>0 DEF Sem!NoLostWakeup, SemReady
  <2>3. CASE Sem!count # semOld[t]
    <3>1. SemReady \subseteq SemReady' /\ semWord' = semWord
      BY <1>3, <2>3 DEF Sem!DecrementCas, Sem!Go, SemReady, Sem!Responsible
    <3>2. QED
      BY <2>1, <3>1, <1>0, SemGrows DEF Sem!NoLostWakeup, SemReady
  <2>4. QED
    BY <2>2, <2>3
<1>4. CASE Sem!DecrementFails(t)
  <2>1. Sem!count' = 0 /\ Cardinality(SemReady') >= 0
    BY <1>4, SemThreadSet, <1>0 DEF Sem!DecrementFails
  <2>2. QED
    BY <2>1 DEF Sem!NoLostWakeup, SemReady
<1>5. CASE Sem!EnterWaiters(t)
  <2>1. SemReady' = SemReady /\ Sem!Sleepers' = Sem!Sleepers
    BY <1>5 DEF Sem!EnterWaiters, Sem!Go, SemReady, Sem!Responsible,
       Sem!Sleepers
  <2>2. QED
    BY <1>5, <2>1 DEF Sem!EnterWaiters, Sem!NoLostWakeup, SemReady
<1>6. CASE Sem!Wait(t)
  <2>1. CASE Sem!count = 0
    BY <1>6, <2>1, <1>0 DEF Sem!Wait, Sem!NoLostWakeup, SemReady,
       Sem!Fx!WaitBlocks,
       Sem!Fx!WaitRefused
  <2>2. CASE Sem!count # 0
    <3>1. /\ SemReady \subseteq SemReady'
          /\ Sem!Sleepers' = Sem!Sleepers
          /\ semWord' = semWord
      BY <1>6, <2>2 DEF Sem!Wait, Sem!Go, SemReady, Sem!Responsible,
         Sem!Sleepers, Sem!Fx!WaitBlocks,
         Sem!Fx!WaitRefused, Sem!Fx!Move
    <3>2. QED
      BY <3>1, <1>0, SemGrows DEF Sem!NoLostWakeup, SemReady
  <2>3. QED
    BY <2>1, <2>2
<1>7. CASE Sem!FutexWakes(t)
  <2>1. /\ SemReady \subseteq SemReady'
        /\ Sem!Sleepers' \subseteq Sem!Sleepers
        /\ semWord' = semWord
    BY <1>7 DEF Sem!FutexWakes, Sem!Fx!WakeUp, Sem!Fx!WaitEnds, Sem!Fx!Move,
       SemReady,
       Sem!Responsible, Sem!Sleepers
  <2>2. QED
    BY <2>1, <1>0, SemGrows DEF Sem!NoLostWakeup, SemReady
<1>8. CASE Sem!WaitReturns(t)
  <2>1. /\ SemReady \subseteq SemReady'
        /\ Sem!Sleepers' \subseteq Sem!Sleepers
        /\ semWord' = semWord
    BY <1>8 DEF Sem!WaitReturns, Sem!Go, Sem!Fx!WaitReturn, Sem!Fx!Move,
       SemReady, Sem!Responsible,
       Sem!Sleepers
  <2>2. QED
    BY <2>1, <1>0, SemGrows DEF Sem!NoLostWakeup, SemReady
<1>9. CASE Sem!LeaveWaiters(t)
  <2>1. SemReady' = SemReady /\ Sem!Sleepers' = Sem!Sleepers
    BY <1>9 DEF Sem!LeaveWaiters, Sem!Go, SemReady, Sem!Responsible,
       Sem!Sleepers
  <2>2. QED
    BY <1>9, <2>1 DEF Sem!LeaveWaiters, Sem!NoLostWakeup, SemReady
<1>10. CASE Sem!PostLoad(t)
  <2>1. SemReady' = SemReady /\ Sem!Sleepers' = Sem!Sleepers
    BY <1>10 DEF Sem!PostLoad, Sem!Go, SemReady, Sem!Responsible, Sem!Sleepers
  <2>2. QED
    BY <1>10, <2>1 DEF Sem!PostLoad, Sem!NoLostWakeup, SemReady
<1>11. CASE Sem!PostCas(t)
  <2>1. t \notin SemReady /\ Sem!Sleepers' = Sem!Sleepers
    BY <1>11 DEF Sem!PostCas, Sem!Go, SemReady, Sem!Responsible, Sem!Sleepers
  <2>2. CASE Sem!count = semOld[t]
    <3>1. /\ SemReady \cup {t} \subseteq SemReady'
          /\ Sem!count' = Sem!count + 1 /\ Sem!count \in Nat
      BY <1>11, <2>2 DEF Sem!PostCas, Sem!Go, SemReady, Sem!Responsible
    <3>2. Cardinality(SemReady') >= Cardinality(SemReady) + 1
      <4>1. Cardinality(SemReady \cup {t}) = Cardinality(SemReady) + 1
        BY <2>1, <1>0, SemJoins
      <4>2. Cardinality(SemReady \cup {t}) <= Cardinality(SemReady')
        BY <3>1, <1>0, SemGrows
      <4>3. QED
        BY <4>1, <4>2, <1>0
    <3>3. QED
      BY <2>1, <3>1, <3>2, <1>0 DEF Sem!NoLostWakeup, SemReady
  <2>3. CASE Sem!count # semOld[t]
    <3>1. SemReady \subseteq SemReady' /\ semWord' = semWord
      BY <1>11, <2>3 DEF Sem!PostCas, Sem!Go, SemReady, Sem!Responsible
    <3>2. QED
      BY <2>1, <3>1, <1>0, SemGrows DEF Sem!NoLostWakeup, SemReady
  <2>4. QED
    BY <2>2, <2>3
<1>12. CASE Sem!PostCheck(t)
  <2>1. Sem!Sleepers' = Sem!Sleepers /\ semWord' = semWord
    BY <1>12 DEF Sem!PostCheck, Sem!Sleepers
  <2>2. CASE nwaiters = 0
    <3>1. SemWaiters = {}
      <4>1. SemWaiters \subseteq Callers /\ Cardinality(SemWaiters) = 0
        BY <2>2 DEF SemWaiters, Sem!UnitsConserved
      <4>2. QED
        BY <4>1, SemThreadSet, FS_EmptySet
    <3>2. Sem!Sleepers = {}
      BY <3>1 DEF Sem!Sleepers, SemWaiters
    <3>3. QED
      BY <2>1, <3>2 DEF Sem!NoLostWakeup
  <2>3. CASE nwaiters # 0
    <3>1. SemReady' = SemReady
      BY <1>12, <2>3 DEF Sem!PostCheck, Sem!Go, SemReady, Sem!Responsible
    <3>2. QED
      BY <2>1, <3>1 DEF Sem!NoLostWakeup, SemReady
  <2>4. QED
    BY <2>2, <2>3
<1>13. CASE Sem!PostWake(t)
  <2>1. PICK W \in SUBSET Sem!Sleepers :
            /\ semFstate' = [u \in Callers |->
                              IF u \in W THEN "woken" ELSE semFstate[u]]
            /\ W = {} => Sem!Sleepers = {}
    <3>1. Sem!Fx!WaitersOn("count") = Sem!Sleepers
      BY DEF Sem!Sleepers
    <3>2. QED
      BY <1>13, <3>1, SemWakeWakes DEF Sem!PostWake, SemWoke
  <2>2. semWord' = semWord
    BY <1>13, SemWakeWakes DEF Sem!PostWake, SemWoke
  <2>3. CASE W = {}
    BY <2>1, <2>3 DEF Sem!NoLostWakeup, Sem!Sleepers
  <2>4. ASSUME NEW w \in W PROVE Sem!NoLostWakeup'
    <3>1. /\ t \in SemReady /\ w \notin SemReady
          /\ (SemReady \ {t}) \cup {w} \subseteq SemReady'
          /\ Sem!Sleepers # {}
      BY <1>13, <2>1, <2>4 DEF Sem!PostWake, Sem!Go, SemReady,
         Sem!Responsible, Sem!Sleepers
    <3>2. Cardinality(SemReady') >= Cardinality(SemReady)
      <4>1. Cardinality(SemReady \ {t}) = Cardinality(SemReady) - 1
        BY <3>1, <1>0, SemLeaves
      <4>2. Cardinality((SemReady \ {t}) \cup {w})
              = Cardinality(SemReady \ {t}) + 1
        BY <3>1, <1>0, SemJoins
      <4>3. Cardinality((SemReady \ {t}) \cup {w}) <= Cardinality(SemReady')
        BY <3>1, <1>0, SemGrows
      <4>4. QED
        BY <4>1, <4>2, <4>3, <1>0
    <3>3. QED
      BY <2>2, <3>1, <3>2, <1>0 DEF Sem!NoLostWakeup, SemReady
  <2>5. QED
    BY <2>3, <2>4
<1>14. CASE Sem!FutexEnds(t)
  <2>1. /\ SemReady \subseteq SemReady'
        /\ Sem!Sleepers' \subseteq Sem!Sleepers
        /\ semWord' = semWord
    BY <1>14 DEF Sem!FutexEnds, Sem!Fx!WakeSpuriously, Sem!Fx!WaitEnds,
       Sem!Fx!Move, SemReady,
       Sem!Responsible, Sem!Sleepers
  <2>2. QED
    BY <2>1, <1>0, SemGrows DEF Sem!NoLostWakeup, SemReady
<1>15. QED
  BY <1>1, <1>2, <1>3, <1>4, <1>5, <1>6, <1>7, <1>8, <1>9, <1>10, <1>11,
     <1>12, <1>13, <1>14 DEF Sem!Step

-----------------------------------------------------------------------------
(* sem_init.                                                               *)
LEMMA SemInitially ==
    ASSUME Sem!SemaphoreAssumption
    PROVE  Sem!Init => SemIInv
<1> SUFFICES ASSUME Sem!Init PROVE SemIInv
  OBVIOUS
<1>1. {t \in Callers : counted[t]} = {} /\ Sem!Sleepers = {}
  BY DEF Sem!Init, Sem!Sleepers
<1>2. Cardinality({}) = 0
  BY FS_EmptySet
<1>3. Cardinality(Callers) \in Nat
  BY SemFinite, FS_CardinalityType
<1>4. Sem!UnitsConserved
  BY <1>1, <1>2, SemCardinality
     DEF Sem!Init, Sem!UnitsConserved, Sem!count, Sem!SemaphoreAssumption
<1>5. Sem!NoLostWakeup
  BY <1>1 DEF Sem!NoLostWakeup
<1>6. Sem!TypeOK
  BY <1>3, SemCardinality
     DEF Sem!Init, Sem!TypeOK, Sem!Fx!FutexTypeOK, Sem!Fx!FState, Sem!count,
         Sem!NoAddr,
              Sem!SemaphoreAssumption
<1>7. SemPositions
  BY DEF Sem!Init, SemPositions
<1>8. QED
  BY <1>4, <1>5, <1>6, <1>7 DEF SemIInv, Sem!SemaphoreCorrect

(* The invariant holds in every reachable state.                           *)
THEOREM SemInvariance ==
    ASSUME Sem!SemaphoreAssumption
    PROVE  Sem!Spec => []SemIInv
<1>1. SemIInv /\ [Sem!Next]_(Sem!vars) => SemIInv'
  <2> SUFFICES ASSUME SemIInv, [Sem!Next]_(Sem!vars) PROVE SemIInv'
    OBVIOUS
  <2>1. CASE UNCHANGED Sem!vars
    BY <2>1 DEF Sem!vars, Sem!futex, SemIInv, Sem!SemaphoreCorrect,
       Sem!TypeOK, SemPositions,
                Sem!UnitsConserved, Sem!NoLostWakeup, Sem!Sleepers,
                Sem!Responsible, Sem!count,
                Sem!Fx!FutexTypeOK
  <2>2. ASSUME NEW t \in Callers,
               \/ \E c \in {"wait", "trywait", "post"} : Sem!Call(t, c)
               \/ Sem!Step(t) \/ Sem!FutexEnds(t)
        PROVE  SemIInv'
    BY <2>2, SemTypeStep, SemPositionsStep, SemUnitsStep, SemWakeupStep
       DEF SemIInv, Sem!SemaphoreCorrect
  <2>3. QED
    BY <2>1, <2>2 DEF Sem!Next
<1>2. QED
  BY <1>1, SemInitially, PTL DEF Sem!Spec

(* The semaphore keeps its promise (nc_semaphore.c): the count stays       *)
(* within SEM_VALUE_MAX, no unit is lost or taken twice, and no thread     *)
(* sleeps next to a unit that nobody is on the way to bring it.            *)
THEOREM SemaphoreAlwaysCorrect ==
    ASSUME Sem!SemaphoreAssumption
    PROVE  Sem!Spec => []Sem!SemaphoreCorrect
<1>1. SemIInv => Sem!SemaphoreCorrect
  BY DEF SemIInv
<1>2. QED
  BY <1>1, SemInvariance, PTL
-----------------------------------------------------------------------------
(***************************************************************************)
(* The futex.  The inductive invariant adds to ListConsistent what the     *)
(* mutex futex_wait_list_mu protects (FutexSections), what a wake call     *)
(* knows of the threads it has taken from the list (FutexTaken), and how   *)
(* far its scan of the list has come (FutexScanned).                       *)
(***************************************************************************)
(* One thread at a time is between the lock and the unlock of the mutex,   *)
(* and a thread that waits does so on an address it could read.            *)
FutexSections ==
    \A t \in Callers :
        /\ futexCall[t].pc \in {"compare", "add", "unlink", "unlock", "scan",
                                "wake_unlock"} <=> mu = t
        /\ futexCall[t].pc \in {"add", "sleep", "relock", "unlink", "wake_lock",
                                "scan", "wake_unlock"} => futexCall[t].addr \in Addrs
        /\ futexCall[t].pc = "unlock" => futexCall[t].result # "none"

(* The threads a wake call has taken from the list want the mutex it has.  *)
FutexTaken ==
    \A t \in Callers : \A w \in futexCall[t].woken :
        /\ futexCall[t].pc \in {"scan", "wake_unlock"}
        /\ futexCall[w].pc = "relock"
        /\ ~linked[w]
        /\ futexCall[w].addr = futexCall[t].addr

(* Entries that were passed over wait on other addresses, and the scan     *)
(* ends when enough threads are woken or none is left.                     *)
FutexScannedBy(t) ==
    /\ futexCall[t].pc = "scan" =>
          /\ futexCall[t].entry >= 1
          /\ \A j \in 1 .. Len(wait_list) :
                j < futexCall[t].entry =>
                    futex_wait_addr[wait_list[j]] # futexCall[t].addr
    /\ futexCall[t].pc = "wake_lock" => futexCall[t].entry = 1
    /\ futexCall[t].pc = "wake_unlock" =>
          \/ futexCall[t].nwake = 0
          \/ \A j \in 1 .. Len(wait_list) :
                futex_wait_addr[wait_list[j]] # futexCall[t].addr

FutexScanned == \A t \in Callers : FutexScannedBy(t)

FutexIInv ==
    /\ Futex!TypeOK /\ Futex!ListConsistent
    /\ FutexSections /\ FutexTaken /\ FutexScanned
-----------------------------------------------------------------------------
(* What the actions do to the calls, field by field.                       *)
FutexPC == {"out", "wait_lock", "compare", "add", "sleep", "relock", "unlink",
            "unlock", "wake_lock", "scan", "wake_unlock"}

(* The fields of a call have their types.                                  *)
Fields(c) ==
    /\ c.pc \in FutexPC
    /\ c.addr \in Addrs \cup {BadAddr}
    /\ c.value \in Values
    /\ c.timed \in BOOLEAN
    /\ c.status \in {"ok", "ETIMEDOUT"}
    /\ c.result \in {"ok", "EWOULDBLOCK", "ETIMEDOUT", "EFAULT", "none"}
    /\ c.entry \in Nat
    /\ c.nwake \in 0 .. MaxWake
    /\ c.woken \subseteq Callers

(* No call but that of t changes; t goes on, with the arguments it has.    *)
Only(t) ==
    /\ futexCall' \in [Callers -> Futex!Call]
    /\ \A u \in Callers : u # t => futexCall'[u] = futexCall[u]

Moves(t, to) ==
    /\ Only(t)
    /\ futexCall'[t].pc = to
    /\ futexCall'[t].addr = futexCall[t].addr
    /\ futexCall'[t].value = futexCall[t].value
    /\ futexCall'[t].nwake = futexCall[t].nwake
    /\ futexCall'[t].woken = futexCall[t].woken

LEMMA FieldTypes ==
    ASSUME NEW c \in Futex!Call
    PROVE  Fields(c)
  BY DEF Futex!Call, Fields, FutexPC

LEMMA NoCallType ==
    ASSUME Futex!FutexAssumption
    PROVE  Futex!NoCall \in Futex!Call
<1>1. (CHOOSE v \in Values : TRUE) \in Values
  BY DEF Futex!FutexAssumption
<1>2. QED
  BY <1>1 DEF Futex!NoCall, Futex!Call, Futex!FutexAssumption

(* A call of one thread is replaced.                                       *)
LEMMA OneCall ==
    ASSUME Futex!TypeOK, NEW t \in Callers, NEW c \in Futex!Call,
           futexCall' = [futexCall EXCEPT ![t] = c]
    PROVE  Only(t) /\ futexCall'[t] = c
  BY DEF Futex!TypeOK, Only

LEMMA GoMoves ==
    ASSUME Futex!TypeOK, NEW t \in Callers, NEW to \in FutexPC, Futex!Go(t, to)
    PROVE  /\ Moves(t, to)
           /\ futexCall'[t].status = futexCall[t].status
           /\ futexCall'[t].result = futexCall[t].result
           /\ futexCall'[t].entry = futexCall[t].entry
<1> DEFINE c == [futexCall[t] EXCEPT !.pc = to]
<1>1. futexCall[t] \in Futex!Call
  BY DEF Futex!TypeOK
<1>2. c \in Futex!Call
  BY <1>1 DEF Futex!Call, FutexPC
<1>3. futexCall' = [futexCall EXCEPT ![t] = c]
  BY DEF Futex!Go, Futex!TypeOK
<1>4. Only(t) /\ futexCall'[t] = c
  BY <1>2, <1>3, OneCall
<1>5. /\ c.pc = to /\ c.addr = futexCall[t].addr /\ c.value = futexCall[t].value
      /\ c.status = futexCall[t].status /\ c.result = futexCall[t].result
      /\ c.entry = futexCall[t].entry /\ c.nwake = futexCall[t].nwake
      /\ c.woken = futexCall[t].woken
  BY <1>1 DEF Futex!Call
<1>6. QED
  BY <1>4, <1>5 DEF Moves

LEMMA ResultMoves ==
    ASSUME Futex!TypeOK, NEW t \in Callers,
           NEW r \in {"ok", "EWOULDBLOCK", "ETIMEDOUT", "EFAULT"},
           futexCall' = [futexCall EXCEPT ![t].pc = "unlock", ![t].result = r]
    PROVE  Moves(t, "unlock") /\ futexCall'[t].result = r
<1> DEFINE c == [futexCall[t] EXCEPT !.pc = "unlock", !.result = r]
<1>1. futexCall[t] \in Futex!Call
  BY DEF Futex!TypeOK
<1>2. c \in Futex!Call
  BY <1>1 DEF Futex!Call
<1>3. futexCall' = [futexCall EXCEPT ![t] = c]
  BY DEF Futex!TypeOK
<1>4. Only(t) /\ futexCall'[t] = c
  BY <1>2, <1>3, OneCall
<1>5. /\ c.pc = "unlock" /\ c.addr = futexCall[t].addr /\ c.value = futexCall[t].value
      /\ c.nwake = futexCall[t].nwake /\ c.woken = futexCall[t].woken
      /\ c.result = r
  BY <1>1 DEF Futex!Call
<1>6. QED
  BY <1>4, <1>5 DEF Moves

LEMMA TimeoutMoves ==
    ASSUME Futex!TypeOK, NEW t \in Callers, Futex!SleepTimesOut(t)
    PROVE  Moves(t, "relock")
<1> DEFINE c == [futexCall[t] EXCEPT !.pc = "relock", !.status = "ETIMEDOUT"]
<1>1. futexCall[t] \in Futex!Call
  BY DEF Futex!TypeOK
<1>2. c \in Futex!Call
  BY <1>1 DEF Futex!Call
<1>3. futexCall' = [futexCall EXCEPT ![t] = c]
  BY DEF Futex!TypeOK, Futex!SleepTimesOut
<1>4. Only(t) /\ futexCall'[t] = c
  BY <1>2, <1>3, OneCall
<1>5. /\ c.pc = "relock" /\ c.addr = futexCall[t].addr /\ c.value = futexCall[t].value
      /\ c.nwake = futexCall[t].nwake /\ c.woken = futexCall[t].woken
  BY <1>1 DEF Futex!Call
<1>6. QED
  BY <1>4, <1>5 DEF Moves

LEMMA SkipMoves ==
    ASSUME Futex!TypeOK, NEW t \in Callers, Futex!ScanSkips(t)
    PROVE  Moves(t, "scan") /\ futexCall'[t].entry = futexCall[t].entry + 1
<1> DEFINE c == [futexCall[t] EXCEPT !.entry = futexCall[t].entry + 1]
<1>1. futexCall[t] \in Futex!Call /\ futexCall[t].pc = "scan"
  BY DEF Futex!TypeOK, Futex!ScanSkips, Futex!Scanning
<1>2. c \in Futex!Call
  BY <1>1 DEF Futex!Call
<1>3. futexCall' = [futexCall EXCEPT ![t] = c]
  BY DEF Futex!TypeOK, Futex!ScanSkips
<1>4. Only(t) /\ futexCall'[t] = c
  BY <1>2, <1>3, OneCall
<1>5. /\ c.pc = "scan" /\ c.addr = futexCall[t].addr /\ c.value = futexCall[t].value
      /\ c.nwake = futexCall[t].nwake /\ c.woken = futexCall[t].woken
      /\ c.entry = futexCall[t].entry + 1
  BY <1>1 DEF Futex!Call
<1>6. QED
  BY <1>4, <1>5 DEF Moves

(* A call begins, and ends.                                                *)
LEMMA CallBegins ==
    ASSUME Futex!FutexAssumption, Futex!TypeOK, NEW t \in Callers
    PROVE  /\ \A a \in Addrs \cup {BadAddr}, v \in Values, timed \in BOOLEAN :
                 Futex!WaitCall(t, a, v, timed) =>
                    /\ Only(t)
                    /\ futexCall'[t].pc = "wait_lock"
                    /\ futexCall'[t].woken = {}
           /\ \A a \in Addrs, n \in 0 .. MaxWake :
                 Futex!WakeCall(t, a, n) =>
                    /\ Only(t)
                    /\ futexCall'[t].pc = "wake_lock"
                    /\ futexCall'[t].addr = a
                    /\ futexCall'[t].entry = 1
                    /\ futexCall'[t].woken = {}
<1>1. ASSUME NEW a \in Addrs \cup {BadAddr}, NEW v \in Values,
             NEW timed \in BOOLEAN, Futex!WaitCall(t, a, v, timed)
      PROVE  /\ Only(t)
             /\ futexCall'[t].pc = "wait_lock"
             /\ futexCall'[t].woken = {}
  <2> DEFINE c == [Futex!NoCall EXCEPT !.pc = "wait_lock", !.addr = a,
                                       !.value = v, !.timed = timed]
  <2>1. c \in Futex!Call
    BY NoCallType DEF Futex!Call
  <2>2. c.pc = "wait_lock" /\ c.woken = {}
    BY DEF Futex!NoCall
  <2>3. futexCall' = [futexCall EXCEPT ![t] = c]
    BY <1>1 DEF Futex!WaitCall, Futex!Begin
  <2>4. QED
    BY <2>1, <2>2, <2>3, OneCall
<1>2. ASSUME NEW a \in Addrs, NEW n \in 0 .. MaxWake, Futex!WakeCall(t, a, n)
      PROVE  /\ Only(t)
             /\ futexCall'[t].pc = "wake_lock"
             /\ futexCall'[t].addr = a
             /\ futexCall'[t].entry = 1
             /\ futexCall'[t].woken = {}
  <2> DEFINE c == [Futex!NoCall EXCEPT !.pc = "wake_lock", !.addr = a, !.nwake = n]
  <2>1. c \in Futex!Call
    BY NoCallType DEF Futex!Call
  <2>2. c.pc = "wake_lock" /\ c.addr = a /\ c.entry = 1 /\ c.woken = {}
    BY DEF Futex!NoCall
  <2>3. futexCall' = [futexCall EXCEPT ![t] = c]
    BY <1>2 DEF Futex!WakeCall, Futex!Begin
  <2>4. QED
    BY <2>1, <2>2, <2>3, OneCall
<1>3. QED
  BY <1>1, <1>2

LEMMA CallEnds ==
    ASSUME Futex!FutexAssumption, Futex!TypeOK, NEW t \in Callers, NEW from,
           Futex!Unlock(t, from)
    PROVE  Only(t) /\ futexCall'[t].pc = "out" /\ futexCall'[t].woken = {}
<1>1. Only(t) /\ futexCall'[t] = Futex!NoCall
  BY NoCallType, OneCall DEF Futex!Unlock
<1>2. QED
  BY <1>1 DEF Futex!NoCall

(* A wake call takes the thread w from the list.                           *)
Takes(t, w) ==
    /\ w \in Callers /\ w # t
    /\ linked[w]
    /\ w = wait_list[futexCall[t].entry]
    /\ futexCall' \in [Callers -> Futex!Call]
    /\ \A u \in Callers : u # t /\ u # w => futexCall'[u] = futexCall[u]
    /\ futexCall'[t].pc = "scan"
    /\ futexCall'[t].addr = futexCall[t].addr
    /\ futexCall'[t].entry = futexCall[t].entry
    /\ futexCall'[t].nwake = futexCall[t].nwake - 1
    /\ futexCall'[t].woken = futexCall[t].woken \cup {w}
    /\ futexCall[w].pc \in {"sleep", "relock"}
    /\ futexCall'[w].pc = "relock"
    /\ futexCall'[w].addr = futexCall[w].addr
    /\ futexCall'[w].woken = futexCall[w].woken

LEMMA ScanTakes ==
    ASSUME Futex!FutexAssumption, FutexIInv, NEW t \in Callers,
           Futex!ScanWakes(t)
    PROVE  Takes(t, Futex!Entry(t))
<1> DEFINE w == Futex!Entry(t)
           c == [futexCall[t] EXCEPT !.woken = futexCall[t].woken \cup {w},
                                     !.nwake = futexCall[t].nwake - 1]
           d == [futexCall[w] EXCEPT !.pc = "relock"]
<1>1. futexCall[t] \in Futex!Call /\ Fields(futexCall[t]) /\ MaxWake \in Nat
  BY FieldTypes DEF FutexIInv, Futex!TypeOK, Futex!FutexAssumption
<1>2. futexCall[t].pc = "scan" /\ futexCall[t].nwake > 0
      /\ futexCall[t].entry \in 1 .. Len(wait_list)
  BY <1>1 DEF Futex!ScanWakes, Futex!Scanning, Fields, FutexIInv, FutexScanned,
     FutexScannedBy
<1>3. mu = t /\ mu # NoThread
  BY <1>2 DEF FutexIInv, FutexSections, Futex!FutexAssumption
<1>4. w \in Callers /\ linked[w] /\ w = wait_list[futexCall[t].entry]
  BY <1>2 DEF FutexIInv, Futex!TypeOK, Futex!ListConsistent, Futex!Entry
<1>5. futexCall[w].pc \in {"sleep", "relock"} /\ w # t
  BY <1>2, <1>3, <1>4 DEF FutexIInv, Futex!ListConsistent, FutexSections
<1>6. c \in Futex!Call
  <2>1. futexCall[t].nwake - 1 \in 0 .. MaxWake
    BY <1>1, <1>2 DEF Fields
  <2>2. futexCall[t].woken \cup {w} \in SUBSET Callers
    BY <1>1, <1>4 DEF Fields
  <2>3. QED
    BY <1>1, <2>1, <2>2 DEF Futex!Call
<1>7. futexCall[w] \in Futex!Call
  BY <1>4 DEF FutexIInv, Futex!TypeOK
<1>8. d \in Futex!Call
  BY <1>7 DEF Futex!Call
<1>9. futexCall' = [futexCall EXCEPT ![t] = c, ![w] = d]
  BY <1>4, <1>5, <1>7 DEF Futex!ScanWakes, FutexIInv, Futex!TypeOK, Futex!Call
<1>10. /\ c.pc = "scan" /\ c.addr = futexCall[t].addr /\ c.entry = futexCall[t].entry
       /\ c.nwake = futexCall[t].nwake - 1 /\ c.woken = futexCall[t].woken \cup {w}
  BY <1>1, <1>2 DEF Futex!Call
<1>11. d.pc = "relock" /\ d.addr = futexCall[w].addr /\ d.woken = futexCall[w].woken
  BY <1>7 DEF Futex!Call
<1>12. /\ futexCall' \in [Callers -> Futex!Call]
       /\ futexCall'[t] = c /\ futexCall'[w] = d
       /\ \A u \in Callers : u # t /\ u # w => futexCall'[u] = futexCall[u]
  BY <1>4, <1>5, <1>6, <1>8, <1>9 DEF FutexIInv, Futex!TypeOK
<1>13. QED
  BY <1>4, <1>5, <1>10, <1>11, <1>12 DEF Takes

(* One element is taken out of a sequence, the others keep their order.    *)
LEMMA RemovedAt ==
    ASSUME NEW S, NEW s \in Seq(S), NEW k \in 1 .. Len(s)
    PROVE  /\ Futex!RemoveAt(s, k) \in Seq(S)
           /\ Len(Futex!RemoveAt(s, k)) = Len(s) - 1
           /\ \A j \in 1 .. Len(s) - 1 :
                 Futex!RemoveAt(s, k)[j] = IF j < k THEN s[j] ELSE s[j + 1]
<1> DEFINE f == SubSeq(s, 1, k - 1)
           g == SubSeq(s, k + 1, Len(s))
<1>1. Len(s) \in Nat /\ \A i \in 1 .. Len(s) : s[i] \in S
  OBVIOUS
<1>2. /\ f \in Seq(S)
      /\ Len(f) = k - 1
      /\ \A j \in 1 .. k - 1 : f[j] = s[j]
  <2>1. \A i \in 1 .. k - 1 : s[i] \in S
    BY <1>1
  <2>2. /\ f \in Seq(S)
        /\ Len(f) = IF 1 <= k - 1 THEN k - 1 - 1 + 1 ELSE 0
        /\ \A j \in 1 .. k - 1 - 1 + 1 : f[j] = s[1 + j - 1]
    BY <2>1, SubSeqProperties
  <2>3. QED
    BY <2>2
<1>3. /\ g \in Seq(S)
      /\ Len(g) = Len(s) - k
      /\ \A j \in 1 .. Len(s) - k : g[j] = s[k + j]
  <2>1. \A i \in k + 1 .. Len(s) : s[i] \in S
    BY <1>1
  <2>2. /\ g \in Seq(S)
        /\ Len(g) = IF k + 1 <= Len(s) THEN Len(s) - (k + 1) + 1 ELSE 0
        /\ \A j \in 1 .. Len(s) - (k + 1) + 1 : g[j] = s[k + 1 + j - 1]
    BY <1>1, <2>1, SubSeqProperties
  <2>3. \A j \in 1 .. Len(s) - k : k + 1 + j - 1 = k + j
    BY <1>1
  <2>4. QED
    BY <1>1, <2>2, <2>3
<1> HIDE DEF f, g
<1>4. /\ f \o g \in Seq(S)
      /\ Len(f \o g) = Len(f) + Len(g)
      /\ \A i \in 1 .. Len(f) + Len(g) :
            (f \o g)[i] = IF i <= Len(f) THEN f[i] ELSE g[i - Len(f)]
  BY <1>2, <1>3, ConcatProperties
<1>5. Futex!RemoveAt(s, k) = f \o g
  BY DEF Futex!RemoveAt, f, g
<1>6. ASSUME NEW j \in 1 .. Len(s) - 1
      PROVE  (f \o g)[j] = IF j < k THEN s[j] ELSE s[j + 1]
  <2>1. CASE j < k
    BY <1>1, <1>2, <1>3, <1>4, <2>1
  <2>2. CASE j >= k
    <3>1. j - (k - 1) \in 1 .. Len(s) - k /\ k + (j - (k - 1)) = j + 1
      BY <1>1, <2>2
    <3>2. (f \o g)[j] = g[j - (k - 1)]
      BY <1>1, <1>2, <1>3, <1>4, <2>2
    <3>3. QED
      BY <1>3, <2>2, <3>1, <3>2
  <2>3. j < k \/ j >= k
    BY <1>1
  <2>4. QED
    BY <2>1, <2>2, <2>3
<1>7. Len(f \o g) = Len(s) - 1
  BY <1>1, <1>2, <1>3, <1>4
<1>8. QED
  BY <1>4, <1>5, <1>6, <1>7

(* ListRemoveNode takes one node out and leaves the others in order.       *)
LEMMA NodeRemoved ==
    ASSUME Futex!TypeOK, Futex!ListConsistent, NEW t \in Callers, linked[t]
    PROVE  \E k \in 1 .. Len(wait_list) :
              /\ wait_list[k] = t
              /\ Futex!ListRemoveNode(t) \in Seq(Callers)
              /\ Len(Futex!ListRemoveNode(t)) = Len(wait_list) - 1
              /\ \A j \in 1 .. Len(wait_list) - 1 :
                    Futex!ListRemoveNode(t)[j] = IF j < k THEN wait_list[j]
                                                 ELSE wait_list[j + 1]
<1> DEFINE k == CHOOSE i \in DOMAIN wait_list : wait_list[i] = t
<1>1. wait_list \in Seq(Callers) /\ DOMAIN wait_list = 1 .. Len(wait_list)
  BY DEF Futex!TypeOK
<1>2. k \in 1 .. Len(wait_list) /\ wait_list[k] = t
  BY <1>1 DEF Futex!ListConsistent
<1>3. Futex!ListRemoveNode(t) = Futex!RemoveAt(wait_list, k)
  BY DEF Futex!ListRemoveNode
<1> HIDE DEF k
<1>4. QED
  BY <1>1, <1>2, <1>3, RemovedAt

(* A thread leaves the list, with its link.                                *)
LEMMA NodeLeaves ==
    ASSUME Futex!FutexAssumption, Futex!TypeOK, Futex!ListConsistent,
           NEW w \in Callers, linked[w],
           wait_list' = Futex!ListRemoveNode(w),
           linked' = [linked EXCEPT ![w] = FALSE]
    PROVE  /\ \A t \in Callers : linked'[t] <=> \E i \in DOMAIN wait_list' :
                                                 wait_list'[i] = t
           /\ \A i, j \in DOMAIN wait_list' :
                 wait_list'[i] = wait_list'[j] => i = j
<1>1. PICK k \in 1 .. Len(wait_list) :
              /\ wait_list[k] = w
              /\ Futex!ListRemoveNode(w) \in Seq(Callers)
              /\ Len(Futex!ListRemoveNode(w)) = Len(wait_list) - 1
              /\ \A j \in 1 .. Len(wait_list) - 1 :
                    Futex!ListRemoveNode(w)[j] = IF j < k THEN wait_list[j]
                                                 ELSE wait_list[j + 1]
  BY NodeRemoved
<1> DEFINE n == Len(wait_list)
           s == wait_list
           r == wait_list'
<1>2. n \in Nat /\ DOMAIN s = 1 .. n /\ DOMAIN r = 1 .. n - 1
  BY <1>1 DEF Futex!TypeOK
<1>3. \A i, j \in 1 .. n : s[i] = s[j] => i = j
  BY <1>2 DEF Futex!ListConsistent
<1>4. \A j \in 1 .. n - 1 : r[j] = IF j < k THEN s[j] ELSE s[j + 1]
  BY <1>1
<1>5. \A t \in Callers : linked[t] <=> \E i \in 1 .. n : s[i] = t
  BY <1>2 DEF Futex!ListConsistent
<1> HIDE DEF n, s, r
<1>6. k \in 1 .. n /\ s[k] = w
  BY <1>1 DEF n, s
<1>7. \A i, j \in 1 .. n - 1 : r[i] = r[j] => i = j
  BY <1>2, <1>3, <1>4, <1>6
<1>8. ASSUME NEW t \in Callers
      PROVE  linked'[t] <=> \E i \in 1 .. n - 1 : r[i] = t
  <2>1. CASE t = w
    <3>1. ~linked'[t]
      BY <2>1 DEF Futex!TypeOK
    <3>2. \A i \in 1 .. n - 1 : r[i] # w
      BY <1>2, <1>3, <1>4, <1>6
    <3>3. QED
      BY <2>1, <3>1, <3>2
  <2>2. CASE t # w
    <3>1. linked'[t] = linked[t]
      BY <2>2 DEF Futex!TypeOK
    <3>2. ASSUME NEW i \in 1 .. n, s[i] = t
          PROVE  \E j \in 1 .. n - 1 : r[j] = t
      <4>1. CASE i < k
        <5>1. i \in 1 .. n - 1 /\ r[i] = s[i]
          BY <1>2, <1>4, <1>6, <4>1
        <5>2. QED
          BY <3>2, <5>1
      <4>2. CASE i > k
        <5>1. i - 1 \in 1 .. n - 1 /\ ~(i - 1 < k) /\ i - 1 + 1 = i
          BY <1>2, <1>6, <4>2
        <5>2. r[i - 1] = s[i]
          BY <1>4, <5>1
        <5>3. QED
          BY <3>2, <5>1, <5>2
      <4>3. i # k
        BY <1>6, <2>2, <3>2
      <4>4. QED
        BY <1>2, <1>6, <4>1, <4>2, <4>3
    <3>3. ASSUME NEW j \in 1 .. n - 1, r[j] = t
          PROVE  \E i \in 1 .. n : s[i] = t
      <4>1. j \in 1 .. n /\ j + 1 \in 1 .. n
        BY <1>2
      <4>2. r[j] = s[j] \/ r[j] = s[j + 1]
        BY <1>4
      <4>3. QED
        BY <3>3, <4>1, <4>2
    <3>4. QED
      BY <1>5, <3>1, <3>2, <3>3
  <2>3. QED
    BY <2>1, <2>2
<1>9. QED
  BY <1>2, <1>7, <1>8 DEF r

(* A thread joins at the end of the list.                                  *)
LEMMA NodeAdded ==
    ASSUME Futex!FutexAssumption, Futex!TypeOK, Futex!ListConsistent,
           NEW w \in Callers, ~linked[w],
           wait_list' = Append(wait_list, w),
           linked' = [linked EXCEPT ![w] = TRUE]
    PROVE  /\ \A t \in Callers : linked'[t] <=> \E i \in DOMAIN wait_list' :
                                                 wait_list'[i] = t
           /\ \A i, j \in DOMAIN wait_list' :
                 wait_list'[i] = wait_list'[j] => i = j
<1> DEFINE n == Len(wait_list)
           s == wait_list
           r == wait_list'
<1>1. /\ n \in Nat /\ DOMAIN s = 1 .. n /\ DOMAIN r = 1 .. n + 1
      /\ \A i \in 1 .. n : r[i] = s[i]
      /\ r[n + 1] = w
  BY AppendProperties DEF Futex!TypeOK
<1>2. \A i, j \in 1 .. n : s[i] = s[j] => i = j
  BY <1>1 DEF Futex!ListConsistent
<1>3. \A t \in Callers : linked[t] <=> \E i \in 1 .. n : s[i] = t
  BY <1>1 DEF Futex!ListConsistent
<1>4. \A t \in Callers : linked'[t] = IF t = w THEN TRUE ELSE linked[t]
  BY DEF Futex!TypeOK
<1> HIDE DEF n, s, r
<1>5. \A i \in 1 .. n : s[i] # w
  BY <1>3
<1>6. \A i \in 1 .. n + 1 : i \in 1 .. n \/ i = n + 1
  BY <1>1
<1>7. \A i, j \in 1 .. n + 1 : r[i] = r[j] => i = j
  BY <1>1, <1>2, <1>5, <1>6
<1>8. 1 .. n \subseteq 1 .. n + 1 /\ n + 1 \in 1 .. n + 1
  BY <1>1
<1>9. \A t \in Callers : linked'[t] <=> \E i \in 1 .. n + 1 : r[i] = t
  <2>1. ASSUME NEW t \in Callers, linked'[t]
        PROVE  \E i \in 1 .. n + 1 : r[i] = t
    <3>1. CASE t = w
      BY <1>1, <1>8, <3>1
    <3>2. CASE t # w
      BY <1>1, <1>3, <1>4, <1>8, <2>1, <3>2
    <3>3. QED
      BY <3>1, <3>2
  <2>2. ASSUME NEW i \in 1 .. n + 1
        PROVE  r[i] \in Callers => linked'[r[i]]
    <3>1. CASE i \in 1 .. n
      <4>1. r[i] = s[i] /\ (s[i] \in Callers => linked[s[i]])
        BY <1>1, <1>3, <3>1
      <4>2. QED
        BY <1>4, <4>1
    <3>2. CASE i = n + 1
      BY <1>1, <1>4, <3>2
    <3>3. QED
      BY <1>6, <3>1, <3>2
  <2>3. QED
    BY <2>1, <2>2
<1>10. QED
  BY <1>1, <1>7, <1>9 DEF r

(* A thread that goes on keeps its place in the list.                      *)
LEMMA ListKept ==
    ASSUME FutexIInv, NEW t \in Callers, NEW to, Moves(t, to),
           UNCHANGED <<wait_list, futex_wait_addr, linked>>,
           linked[t] => to \in {"relock", "unlink"},
           to # "sleep"
    PROVE  Futex!ListConsistent'
<1>1. \A u \in Callers :
         /\ linked'[u] => /\ futexCall'[u].pc \in {"sleep", "relock", "unlink"}
                           /\ futex_wait_addr'[u] = futexCall'[u].addr
         /\ futexCall'[u].pc = "sleep" => linked'[u]
  BY DEF Moves, Only, FutexIInv, Futex!ListConsistent
<1>2. QED
  BY <1>1 DEF Futex!ListConsistent, FutexIInv

(* While a thread has the mutex, no other scans the list.                  *)
LEMMA OthersScanned ==
    ASSUME Futex!FutexAssumption, FutexIInv, NEW t \in Callers,
           NEW u \in Callers,
           u # t, futexCall'[u] = futexCall[u],
           mu = t \/ UNCHANGED <<wait_list, futex_wait_addr>>
    PROVE  FutexScannedBy(u)'
<1>1. CASE mu = t
  BY <1>1 DEF FutexIInv, FutexSections, FutexScanned, FutexScannedBy
<1>2. CASE UNCHANGED <<wait_list, futex_wait_addr>>
  BY <1>2 DEF FutexIInv, FutexScanned, FutexScannedBy
<1>3. QED
  BY <1>1, <1>2

-----------------------------------------------------------------------------
(* The actions of a thread inside a call.                                  *)
LEMMA Effects ==
    ASSUME Futex!FutexAssumption, FutexIInv, NEW t \in Callers
    PROVE  /\ Futex!Lock(t, "wait_lock", "compare") =>
                 Moves(t, "compare")
           /\ Futex!WaitFault(t) =>
                 Moves(t, "unlock") /\ futexCall'[t].result = "EFAULT"
           /\ Futex!Compare(t) =>
                 IF futexWord[futexCall[t].addr] = futexCall[t].value
                 THEN Moves(t, "add")
                 ELSE Moves(t, "unlock") /\ futexCall'[t].result = "EWOULDBLOCK"
           /\ Futex!AddAndSleep(t) =>
                 Moves(t, "sleep")
           /\ Futex!SleepTimesOut(t) =>
                 Moves(t, "relock")
           /\ Futex!Lock(t, "relock", "unlink") =>
                 Moves(t, "unlink")
           /\ Futex!Unlink(t) =>
                 /\ Moves(t, "unlock")
                 /\ futexCall'[t].result =
                      IF linked[t] THEN futexCall[t].status ELSE "ok"
           /\ Futex!Unlock(t, "unlock") =>
                 Only(t) /\ futexCall'[t].pc = "out" /\ futexCall'[t].woken = {}
           /\ Futex!Lock(t, "wake_lock", "scan") =>
                 Moves(t, "scan") /\ futexCall'[t].entry = futexCall[t].entry
           /\ Futex!ScanSkips(t) =>
                 Moves(t, "scan") /\ futexCall'[t].entry = futexCall[t].entry + 1
           /\ Futex!ScanWakes(t) =>
                 Takes(t, Futex!Entry(t))
           /\ Futex!ScanEnds(t) =>
                 Moves(t, "wake_unlock")
           /\ Futex!Unlock(t, "wake_unlock") =>
                 Only(t) /\ futexCall'[t].pc = "out" /\ futexCall'[t].woken = {}
           /\ Futex!SleepEndsSpuriously(t) =>
                 Moves(t, "relock")
<1> USE DEF FutexIInv
<1>1. ASSUME Futex!Lock(t, "wait_lock", "compare")
      PROVE  Moves(t, "compare")
  BY <1>1, GoMoves DEF Futex!Lock, FutexPC
<1>2. ASSUME Futex!WaitFault(t)
      PROVE  Moves(t, "unlock") /\ futexCall'[t].result = "EFAULT"
  BY <1>2, ResultMoves DEF Futex!WaitFault
<1>3. ASSUME Futex!Compare(t)
      PROVE  IF futexWord[futexCall[t].addr] = futexCall[t].value
             THEN Moves(t, "add")
             ELSE Moves(t, "unlock") /\ futexCall'[t].result = "EWOULDBLOCK"
  <2>1. CASE futexWord[futexCall[t].addr] = futexCall[t].value
    <3>1. Futex!Go(t, "add")
      BY <1>3, <2>1 DEF Futex!Compare, Futex!Go
    <3>2. QED
      BY <2>1, <3>1, GoMoves DEF FutexPC
  <2>2. CASE futexWord[futexCall[t].addr] # futexCall[t].value
    <3>1. futexCall' = [futexCall EXCEPT ![t].pc = "unlock", ![t].result = "EWOULDBLOCK"]
      BY <1>3, <2>2 DEF Futex!Compare
    <3>2. QED
      BY <2>2, <3>1, ResultMoves
  <2>3. QED
    BY <2>1, <2>2
<1>4. ASSUME Futex!AddAndSleep(t)
      PROVE  Moves(t, "sleep")
  BY <1>4, GoMoves DEF Futex!AddAndSleep, FutexPC
<1>5. ASSUME Futex!SleepTimesOut(t)
      PROVE  Moves(t, "relock")
  BY <1>5, TimeoutMoves
<1>6. ASSUME Futex!Lock(t, "relock", "unlink")
      PROVE  Moves(t, "unlink")
  BY <1>6, GoMoves DEF Futex!Lock, FutexPC
<1>7. ASSUME Futex!Unlink(t)
      PROVE  /\ Moves(t, "unlock")
             /\ futexCall'[t].result = IF linked[t] THEN futexCall[t].status ELSE "ok"
  <2>1. futexCall[t].status \in {"ok", "ETIMEDOUT"}
    BY FieldTypes DEF Futex!TypeOK, Fields
  <2>2. CASE linked[t]
    BY <1>7, <2>1, <2>2, ResultMoves DEF Futex!Unlink
  <2>3. CASE ~linked[t]
    BY <1>7, <2>3, ResultMoves DEF Futex!Unlink
  <2>4. QED
    BY <2>2, <2>3
<1>8. ASSUME Futex!Unlock(t, "unlock")
      PROVE  Only(t) /\ futexCall'[t].pc = "out" /\ futexCall'[t].woken = {}
  BY <1>8, CallEnds
<1>9. ASSUME Futex!Lock(t, "wake_lock", "scan")
      PROVE  Moves(t, "scan") /\ futexCall'[t].entry = futexCall[t].entry
  BY <1>9, GoMoves DEF Futex!Lock, FutexPC
<1>10. ASSUME Futex!ScanSkips(t)
      PROVE  Moves(t, "scan") /\ futexCall'[t].entry = futexCall[t].entry + 1
  BY <1>10, SkipMoves
<1>11. ASSUME Futex!ScanWakes(t)
      PROVE  Takes(t, Futex!Entry(t))
  BY <1>11, ScanTakes
<1>12. ASSUME Futex!ScanEnds(t)
      PROVE  Moves(t, "wake_unlock")
  BY <1>12, GoMoves DEF Futex!ScanEnds, FutexPC
<1>13. ASSUME Futex!Unlock(t, "wake_unlock")
      PROVE  Only(t) /\ futexCall'[t].pc = "out" /\ futexCall'[t].woken = {}
  BY <1>13, CallEnds
<1>14. ASSUME Futex!SleepEndsSpuriously(t)
      PROVE  Moves(t, "relock")
  BY <1>14, GoMoves DEF Futex!SleepEndsSpuriously, FutexPC
<1>15. QED
  BY <1>1, <1>2, <1>3, <1>4, <1>5, <1>6, <1>7, <1>8, <1>9, <1>10, <1>11,
     <1>12, <1>13, <1>14

(* Every step keeps the types.                                             *)
LEMMA FutexTypeStep ==
    ASSUME Futex!FutexAssumption, FutexIInv, Futex!Next
    PROVE  Futex!TypeOK'
<1>0. /\ BadAddr \notin Addrs /\ NoThread \notin Callers
      /\ MaxWake \in Nat /\ MaxCalls \in Nat
      /\ wait_list \in Seq(Callers)
      /\ \A u \in Callers : Fields(futexCall[u])
  BY FieldTypes DEF Futex!FutexAssumption, Futex!TypeOK, FutexIInv
<1>1. ASSUME NEW t \in Callers, NEW a \in Addrs \cup {BadAddr},
             NEW v \in Values, NEW timed \in BOOLEAN,
             Futex!WaitCall(t, a, v, timed)
      PROVE  Futex!TypeOK'
  <2>1. Only(t) /\ futexCall'[t].pc = "wait_lock" /\ futexCall'[t].woken = {}
    BY <1>1, CallBegins DEF FutexIInv
  <2>2. QED
    BY <1>1, <1>0, <2>1 DEF Futex!WaitCall, Futex!Begin, Moves, Only,
       Futex!TypeOK, FutexIInv, Fields
<1>2. ASSUME NEW t \in Callers, NEW a \in Addrs, NEW n \in 0 .. MaxWake,
             Futex!WakeCall(t, a, n)
      PROVE  Futex!TypeOK'
  <2>1. /\ Only(t) /\ futexCall'[t].pc = "wake_lock" /\ futexCall'[t].woken = {}
        /\ futexCall'[t].addr = a /\ futexCall'[t].entry = 1
    BY <1>2, CallBegins DEF FutexIInv
  <2>2. QED
    BY <1>2, <1>0, <2>1 DEF Futex!WakeCall, Futex!Begin, Moves, Only,
       Futex!TypeOK, FutexIInv, Fields
<1>3. ASSUME NEW a \in Addrs, NEW v \in Values, Futex!UserStore(a, v)
      PROVE  Futex!TypeOK'
  BY <1>3, <1>0 DEF Futex!UserStore, Moves, Only, Futex!TypeOK, FutexIInv,
     Fields
<1>4. ASSUME NEW t \in Callers, Futex!Lock(t, "wait_lock", "compare")
      PROVE  Futex!TypeOK'
  <2>1. Moves(t, "compare")
    BY <1>4, Effects
  <2>2. QED
    BY <1>4, <1>0, <2>1 DEF Futex!Lock, Moves, Only, Futex!TypeOK, FutexIInv,
       Fields
<1>5. ASSUME NEW t \in Callers, Futex!WaitFault(t)
      PROVE  Futex!TypeOK'
  <2>1. Moves(t, "unlock") /\ futexCall'[t].result = "EFAULT"
    BY <1>5, Effects
  <2>2. QED
    BY <1>5, <1>0, <2>1 DEF Futex!WaitFault, Moves, Only, Futex!TypeOK,
       FutexIInv, Fields
<1>6. ASSUME NEW t \in Callers, Futex!Compare(t)
      PROVE  Futex!TypeOK'
  <2>1. IF futexWord[futexCall[t].addr] = futexCall[t].value
        THEN Moves(t, "add")
        ELSE Moves(t, "unlock") /\ futexCall'[t].result = "EWOULDBLOCK"
    BY <1>6, Effects
  <2>2. QED
    BY <1>6, <1>0, <2>1 DEF Futex!Compare, Moves, Only, Futex!TypeOK,
       FutexIInv, Fields
<1>7. ASSUME NEW t \in Callers, Futex!AddAndSleep(t)
      PROVE  Futex!TypeOK'
  <2>1. Moves(t, "sleep")
    BY <1>7, Effects
  <2>2. wait_list' \in Seq(Callers)
    BY <1>7, <1>0, AppendProperties DEF Futex!AddAndSleep
  <2>3. QED
    BY <1>7, <1>0, <2>1, <2>2 DEF Futex!AddAndSleep, Moves, Only, Futex!TypeOK,
       FutexIInv, Fields
<1>8. ASSUME NEW t \in Callers, Futex!SleepTimesOut(t)
      PROVE  Futex!TypeOK'
  <2>1. Moves(t, "relock")
    BY <1>8, Effects
  <2>2. QED
    BY <1>8, <1>0, <2>1 DEF Futex!SleepTimesOut, Moves, Only, Futex!TypeOK,
       FutexIInv, Fields
<1>9. ASSUME NEW t \in Callers, Futex!Lock(t, "relock", "unlink")
      PROVE  Futex!TypeOK'
  <2>1. Moves(t, "unlink")
    BY <1>9, Effects
  <2>2. QED
    BY <1>9, <1>0, <2>1 DEF Futex!Lock, Moves, Only, Futex!TypeOK, FutexIInv,
       Fields
<1>10. ASSUME NEW t \in Callers, Futex!Unlink(t)
      PROVE  Futex!TypeOK'
  <2>1. /\ Moves(t, "unlock")
        /\ futexCall'[t].result = IF linked[t] THEN futexCall[t].status ELSE "ok"
    BY <1>10, Effects
  <2>2. linked[t] => Futex!ListRemoveNode(t) \in Seq(Callers)
    BY NodeRemoved DEF FutexIInv
  <2>3. QED
    BY <1>10, <1>0, <2>1, <2>2 DEF Futex!Unlink, Moves, Only, Futex!TypeOK,
       FutexIInv
<1>11. ASSUME NEW t \in Callers, Futex!Unlock(t, "unlock")
      PROVE  Futex!TypeOK'
  <2>1. Only(t) /\ futexCall'[t].pc = "out" /\ futexCall'[t].woken = {}
    BY <1>11, Effects
  <2>2. QED
    BY <1>11, <1>0, <2>1 DEF Futex!Unlock, Moves, Only, Futex!TypeOK,
       FutexIInv, Fields
<1>12. ASSUME NEW t \in Callers, Futex!Lock(t, "wake_lock", "scan")
      PROVE  Futex!TypeOK'
  <2>1. Moves(t, "scan") /\ futexCall'[t].entry = futexCall[t].entry
    BY <1>12, Effects
  <2>2. QED
    BY <1>12, <1>0, <2>1 DEF Futex!Lock, Moves, Only, Futex!TypeOK, FutexIInv,
       Fields
<1>13. ASSUME NEW t \in Callers, Futex!ScanSkips(t)
      PROVE  Futex!TypeOK'
  <2>1. Moves(t, "scan") /\ futexCall'[t].entry = futexCall[t].entry + 1
    BY <1>13, Effects
  <2>2. QED
    BY <1>13, <1>0, <2>1 DEF Futex!ScanSkips, Futex!Scanning, Futex!Entry,
       Moves, Only, Futex!TypeOK, FutexIInv, Fields
<1>14. ASSUME NEW t \in Callers, Futex!ScanWakes(t)
      PROVE  Futex!TypeOK'
  <2>1. Takes(t, Futex!Entry(t))
    BY <1>14, Effects
  <2>2. Futex!ListRemoveNode(Futex!Entry(t)) \in Seq(Callers)
    BY <2>1, NodeRemoved DEF Takes, FutexIInv
  <2>3. QED
    BY <1>14, <1>0, <2>1, <2>2 DEF Futex!ScanWakes, Takes, Futex!TypeOK,
       FutexIInv
<1>15. ASSUME NEW t \in Callers, Futex!ScanEnds(t)
      PROVE  Futex!TypeOK'
  <2>1. Moves(t, "wake_unlock")
    BY <1>15, Effects
  <2>2. QED
    BY <1>15, <1>0, <2>1 DEF Futex!ScanEnds, Futex!Scanning, Moves, Only,
       Futex!TypeOK, FutexIInv, Fields
<1>16. ASSUME NEW t \in Callers, Futex!Unlock(t, "wake_unlock")
      PROVE  Futex!TypeOK'
  <2>1. Only(t) /\ futexCall'[t].pc = "out" /\ futexCall'[t].woken = {}
    BY <1>16, Effects
  <2>2. QED
    BY <1>16, <1>0, <2>1 DEF Futex!Unlock, Moves, Only, Futex!TypeOK,
       FutexIInv, Fields
<1>17. ASSUME NEW t \in Callers, Futex!SleepEndsSpuriously(t)
      PROVE  Futex!TypeOK'
  <2>1. Moves(t, "relock")
    BY <1>17, Effects
  <2>2. QED
    BY <1>17, <1>0, <2>1 DEF Futex!SleepEndsSpuriously, Moves, Only,
       Futex!TypeOK, FutexIInv, Fields
<1>18. QED
  BY <1>1, <1>2, <1>3, <1>4, <1>5, <1>6, <1>7, <1>8, <1>9, <1>10, <1>11, <1>12,
     <1>13, <1>14, <1>15, <1>16, <1>17 DEF Futex!Next, Futex!WaitStep,
     Futex!WakeStep

(* Only the thread that has the mutex goes where it is needed.             *)
LEMMA SectionsStep ==
    ASSUME Futex!FutexAssumption, FutexIInv, Futex!Next
    PROVE  FutexSections'
<1>0. /\ BadAddr \notin Addrs /\ NoThread \notin Callers
      /\ MaxWake \in Nat /\ MaxCalls \in Nat
      /\ wait_list \in Seq(Callers)
      /\ \A u \in Callers : Fields(futexCall[u])
  BY FieldTypes DEF Futex!FutexAssumption, Futex!TypeOK, FutexIInv
<1>1. ASSUME NEW t \in Callers, NEW a \in Addrs \cup {BadAddr},
             NEW v \in Values, NEW timed \in BOOLEAN,
             Futex!WaitCall(t, a, v, timed)
      PROVE  FutexSections'
  <2>1. Only(t) /\ futexCall'[t].pc = "wait_lock" /\ futexCall'[t].woken = {}
    BY <1>1, CallBegins DEF FutexIInv
  <2>2. QED
    BY <1>1, <1>0, <2>1 DEF Futex!WaitCall, Futex!Begin, Moves, Only, Takes,
       FutexSections, FutexIInv, Fields
<1>2. ASSUME NEW t \in Callers, NEW a \in Addrs, NEW n \in 0 .. MaxWake,
             Futex!WakeCall(t, a, n)
      PROVE  FutexSections'
  <2>1. /\ Only(t) /\ futexCall'[t].pc = "wake_lock" /\ futexCall'[t].woken = {}
        /\ futexCall'[t].addr = a /\ futexCall'[t].entry = 1
    BY <1>2, CallBegins DEF FutexIInv
  <2>2. QED
    BY <1>2, <1>0, <2>1 DEF Futex!WakeCall, Futex!Begin, Moves, Only, Takes,
       FutexSections, FutexIInv, Fields
<1>3. ASSUME NEW a \in Addrs, NEW v \in Values, Futex!UserStore(a, v)
      PROVE  FutexSections'
  BY <1>3, <1>0 DEF Futex!UserStore, Moves, Only, Takes, FutexSections,
     FutexIInv, Fields
<1>4. ASSUME NEW t \in Callers, Futex!Lock(t, "wait_lock", "compare")
      PROVE  FutexSections'
  <2>1. Moves(t, "compare")
    BY <1>4, Effects
  <2>2. QED
    BY <1>4, <1>0, <2>1 DEF Futex!Lock, Moves, Only, Takes, FutexSections,
       FutexIInv, Fields
<1>5. ASSUME NEW t \in Callers, Futex!WaitFault(t)
      PROVE  FutexSections'
  <2>1. Moves(t, "unlock") /\ futexCall'[t].result = "EFAULT"
    BY <1>5, Effects
  <2>2. QED
    BY <1>5, <1>0, <2>1 DEF Futex!WaitFault, Moves, Only, Takes, FutexSections,
       FutexIInv, Fields
<1>6. ASSUME NEW t \in Callers, Futex!Compare(t)
      PROVE  FutexSections'
  <2>1. IF futexWord[futexCall[t].addr] = futexCall[t].value
        THEN Moves(t, "add")
        ELSE Moves(t, "unlock") /\ futexCall'[t].result = "EWOULDBLOCK"
    BY <1>6, Effects
  <2>2. QED
    BY <1>6, <1>0, <2>1 DEF Futex!Compare, Moves, Only, Takes, FutexSections,
       FutexIInv, Fields
<1>7. ASSUME NEW t \in Callers, Futex!AddAndSleep(t)
      PROVE  FutexSections'
  <2>1. Moves(t, "sleep")
    BY <1>7, Effects
  <2>2. QED
    BY <1>7, <1>0, <2>1 DEF Futex!AddAndSleep, Moves, Only, Takes,
       FutexSections, FutexIInv, Fields
<1>8. ASSUME NEW t \in Callers, Futex!SleepTimesOut(t)
      PROVE  FutexSections'
  <2>1. Moves(t, "relock")
    BY <1>8, Effects
  <2>2. QED
    BY <1>8, <1>0, <2>1 DEF Futex!SleepTimesOut, Moves, Only, Takes,
       FutexSections, FutexIInv, Fields
<1>9. ASSUME NEW t \in Callers, Futex!Lock(t, "relock", "unlink")
      PROVE  FutexSections'
  <2>1. Moves(t, "unlink")
    BY <1>9, Effects
  <2>2. QED
    BY <1>9, <1>0, <2>1 DEF Futex!Lock, Moves, Only, Takes, FutexSections,
       FutexIInv, Fields
<1>10. ASSUME NEW t \in Callers, Futex!Unlink(t)
      PROVE  FutexSections'
  <2>1. /\ Moves(t, "unlock")
        /\ futexCall'[t].result = IF linked[t] THEN futexCall[t].status ELSE "ok"
    BY <1>10, Effects
  <2>2. QED
    BY <1>10, <1>0, <2>1 DEF Futex!Unlink, Moves, Only, Takes, FutexSections,
       FutexIInv, Fields
<1>11. ASSUME NEW t \in Callers, Futex!Unlock(t, "unlock")
      PROVE  FutexSections'
  <2>1. Only(t) /\ futexCall'[t].pc = "out" /\ futexCall'[t].woken = {}
    BY <1>11, Effects
  <2>2. QED
    BY <1>11, <1>0, <2>1 DEF Futex!Unlock, Moves, Only, Takes, FutexSections,
       FutexIInv, Fields
<1>12. ASSUME NEW t \in Callers, Futex!Lock(t, "wake_lock", "scan")
      PROVE  FutexSections'
  <2>1. Moves(t, "scan") /\ futexCall'[t].entry = futexCall[t].entry
    BY <1>12, Effects
  <2>2. QED
    BY <1>12, <1>0, <2>1 DEF Futex!Lock, Moves, Only, Takes, FutexSections,
       FutexIInv, Fields
<1>13. ASSUME NEW t \in Callers, Futex!ScanSkips(t)
      PROVE  FutexSections'
  <2>1. Moves(t, "scan") /\ futexCall'[t].entry = futexCall[t].entry + 1
    BY <1>13, Effects
  <2>2. QED
    BY <1>13, <1>0, <2>1 DEF Futex!ScanSkips, Futex!Scanning, Futex!Entry,
       Moves, Only, Takes, FutexSections, FutexIInv, Fields
<1>14. ASSUME NEW t \in Callers, Futex!ScanWakes(t)
      PROVE  FutexSections'
  <2>1. Takes(t, Futex!Entry(t))
    BY <1>14, Effects
  <2>2. mu' = mu
    BY <1>14 DEF Futex!ScanWakes
  <2>3. mu = t /\ futexCall[t].pc = "scan" /\ futexCall[t].addr \in Addrs
    BY <1>14 DEF Futex!ScanWakes, Futex!Scanning, FutexIInv, FutexSections
  <2>4. futexCall[Futex!Entry(t)].addr \in Addrs
    BY <2>1 DEF Takes, FutexIInv, FutexSections
  <2>5. ASSUME NEW u \in Callers, u # t, u # Futex!Entry(t)
        PROVE  futexCall'[u] = futexCall[u]
    BY <2>1, <2>5 DEF Takes
  <2>6. QED
    BY <2>1, <2>2, <2>3, <2>4, <2>5 DEF Takes, FutexSections, FutexIInv
<1>15. ASSUME NEW t \in Callers, Futex!ScanEnds(t)
      PROVE  FutexSections'
  <2>1. Moves(t, "wake_unlock")
    BY <1>15, Effects
  <2>2. QED
    BY <1>15, <1>0, <2>1 DEF Futex!ScanEnds, Futex!Scanning, Moves, Only,
       Takes, FutexSections, FutexIInv, Fields
<1>16. ASSUME NEW t \in Callers, Futex!Unlock(t, "wake_unlock")
      PROVE  FutexSections'
  <2>1. Only(t) /\ futexCall'[t].pc = "out" /\ futexCall'[t].woken = {}
    BY <1>16, Effects
  <2>2. QED
    BY <1>16, <1>0, <2>1 DEF Futex!Unlock, Moves, Only, Takes, FutexSections,
       FutexIInv, Fields
<1>17. ASSUME NEW t \in Callers, Futex!SleepEndsSpuriously(t)
      PROVE  FutexSections'
  <2>1. Moves(t, "relock")
    BY <1>17, Effects
  <2>2. QED
    BY <1>17, <1>0, <2>1 DEF Futex!SleepEndsSpuriously, Moves, Only, Takes,
       FutexSections, FutexIInv, Fields
<1>18. QED
  BY <1>1, <1>2, <1>3, <1>4, <1>5, <1>6, <1>7, <1>8, <1>9, <1>10, <1>11, <1>12,
     <1>13, <1>14, <1>15, <1>16, <1>17 DEF Futex!Next, Futex!WaitStep,
     Futex!WakeStep

(* A thread that moves on forgets nobody it has taken from the list, and   *)
(* was not taken itself: it would wait for the mutex of another.           *)
LEMMA TakenKept ==
    ASSUME Futex!FutexAssumption, FutexIInv, NEW t \in Callers, NEW to,
           Moves(t, to),
           futexCall[t].pc \in {"scan", "wake_unlock"} =>
                    to \in {"scan", "wake_unlock"},
           futexCall[t].pc = "relock" => mu = NoThread,
           \A u \in Callers : u # t => linked'[u] = linked[u]
    PROVE  FutexTaken'
<1> SUFFICES ASSUME NEW x \in Callers, NEW w \in futexCall'[x].woken
             PROVE  /\ futexCall'[x].pc \in {"scan", "wake_unlock"}
                    /\ futexCall'[w].pc = "relock"
                    /\ ~linked'[w]
                    /\ futexCall'[w].addr = futexCall'[x].addr
  BY DEF FutexTaken
<1>1. w \in futexCall[x].woken
  BY DEF Moves, Only
<1>2. w \in Callers
  BY <1>1, FieldTypes DEF FutexIInv, Futex!TypeOK, Fields
<1>3. /\ futexCall[x].pc \in {"scan", "wake_unlock"}
      /\ futexCall[w].pc = "relock"
      /\ ~linked[w]
      /\ futexCall[w].addr = futexCall[x].addr
  BY <1>1 DEF FutexIInv, FutexTaken
<1>4. mu = x /\ x # NoThread
  BY <1>3 DEF FutexIInv, FutexSections, Futex!FutexAssumption
<1>5. w # t
  BY <1>3, <1>4
<1>6. QED
  BY <1>2, <1>3, <1>5 DEF Moves, Only

(* A thread that was taken from the list waits for the mutex.              *)
LEMMA TakenStep ==
    ASSUME Futex!FutexAssumption, FutexIInv, Futex!Next
    PROVE  FutexTaken'
<1>0. /\ BadAddr \notin Addrs /\ NoThread \notin Callers
      /\ MaxWake \in Nat /\ MaxCalls \in Nat
      /\ wait_list \in Seq(Callers)
      /\ \A u \in Callers : Fields(futexCall[u])
  BY FieldTypes DEF Futex!FutexAssumption, Futex!TypeOK, FutexIInv
<1>1. ASSUME NEW t \in Callers, NEW a \in Addrs \cup {BadAddr},
             NEW v \in Values, NEW timed \in BOOLEAN,
             Futex!WaitCall(t, a, v, timed)
      PROVE  FutexTaken'
  <2>1. Only(t) /\ futexCall'[t].pc = "wait_lock" /\ futexCall'[t].woken = {}
    BY <1>1, CallBegins DEF FutexIInv
  <2>2. QED
    BY <1>1, <1>0, <2>1 DEF Futex!WaitCall, Futex!Begin, Moves, Only,
       FutexTaken, FutexSections, Futex!ListConsistent, Futex!TypeOK,
       FutexIInv, Fields
<1>2. ASSUME NEW t \in Callers, NEW a \in Addrs, NEW n \in 0 .. MaxWake,
             Futex!WakeCall(t, a, n)
      PROVE  FutexTaken'
  <2>1. /\ Only(t) /\ futexCall'[t].pc = "wake_lock" /\ futexCall'[t].woken = {}
        /\ futexCall'[t].addr = a /\ futexCall'[t].entry = 1
    BY <1>2, CallBegins DEF FutexIInv
  <2>2. QED
    BY <1>2, <1>0, <2>1 DEF Futex!WakeCall, Futex!Begin, Moves, Only,
       FutexTaken, FutexSections, Futex!ListConsistent, Futex!TypeOK,
       FutexIInv, Fields
<1>3. ASSUME NEW a \in Addrs, NEW v \in Values, Futex!UserStore(a, v)
      PROVE  FutexTaken'
  BY <1>3, <1>0 DEF Futex!UserStore, Moves, Only, FutexTaken, FutexSections,
     Futex!ListConsistent, Futex!TypeOK, FutexIInv, Fields
<1>4. ASSUME NEW t \in Callers, Futex!Lock(t, "wait_lock", "compare")
      PROVE  FutexTaken'
  <2>1. Moves(t, "compare")
    BY <1>4, Effects
  <2>2. \A u \in Callers : u # t => linked'[u] = linked[u]
    BY <1>4 DEF Futex!Lock, FutexIInv, Futex!TypeOK
  <2>3. QED
    BY <1>4, <2>1, <2>2, TakenKept DEF Futex!Lock
<1>5. ASSUME NEW t \in Callers, Futex!WaitFault(t)
      PROVE  FutexTaken'
  <2>1. Moves(t, "unlock") /\ futexCall'[t].result = "EFAULT"
    BY <1>5, Effects
  <2>2. \A u \in Callers : u # t => linked'[u] = linked[u]
    BY <1>5 DEF Futex!WaitFault, FutexIInv, Futex!TypeOK
  <2>3. QED
    BY <1>5, <2>1, <2>2, TakenKept DEF Futex!WaitFault
<1>6. ASSUME NEW t \in Callers, Futex!Compare(t)
      PROVE  FutexTaken'
  <2>1. IF futexWord[futexCall[t].addr] = futexCall[t].value
        THEN Moves(t, "add")
        ELSE Moves(t, "unlock") /\ futexCall'[t].result = "EWOULDBLOCK"
    BY <1>6, Effects
  <2>2. QED
    BY <1>6, <1>0, <2>1 DEF Futex!Compare, Moves, Only, FutexTaken,
       FutexSections, Futex!ListConsistent, Futex!TypeOK, FutexIInv, Fields
<1>7. ASSUME NEW t \in Callers, Futex!AddAndSleep(t)
      PROVE  FutexTaken'
  <2>1. Moves(t, "sleep")
    BY <1>7, Effects
  <2>2. \A u \in Callers : u # t => linked'[u] = linked[u]
    BY <1>7 DEF Futex!AddAndSleep, FutexIInv, Futex!TypeOK
  <2>3. QED
    BY <1>7, <2>1, <2>2, TakenKept DEF Futex!AddAndSleep
<1>8. ASSUME NEW t \in Callers, Futex!SleepTimesOut(t)
      PROVE  FutexTaken'
  <2>1. Moves(t, "relock")
    BY <1>8, Effects
  <2>2. \A u \in Callers : u # t => linked'[u] = linked[u]
    BY <1>8 DEF Futex!SleepTimesOut, FutexIInv, Futex!TypeOK
  <2>3. QED
    BY <1>8, <2>1, <2>2, TakenKept DEF Futex!SleepTimesOut
<1>9. ASSUME NEW t \in Callers, Futex!Lock(t, "relock", "unlink")
      PROVE  FutexTaken'
  <2>1. Moves(t, "unlink")
    BY <1>9, Effects
  <2>2. \A u \in Callers : u # t => linked'[u] = linked[u]
    BY <1>9 DEF Futex!Lock, FutexIInv, Futex!TypeOK
  <2>3. QED
    BY <1>9, <2>1, <2>2, TakenKept DEF Futex!Lock
<1>10. ASSUME NEW t \in Callers, Futex!Unlink(t)
      PROVE  FutexTaken'
  <2>1. /\ Moves(t, "unlock")
        /\ futexCall'[t].result = IF linked[t] THEN futexCall[t].status ELSE "ok"
    BY <1>10, Effects
  <2>2. \A u \in Callers : u # t => linked'[u] = linked[u]
    BY <1>10 DEF Futex!Unlink, FutexIInv, Futex!TypeOK
  <2>3. QED
    BY <1>10, <2>1, <2>2, TakenKept DEF Futex!Unlink
<1>11. ASSUME NEW t \in Callers, Futex!Unlock(t, "unlock")
      PROVE  FutexTaken'
  <2>1. Only(t) /\ futexCall'[t].pc = "out" /\ futexCall'[t].woken = {}
    BY <1>11, Effects
  <2>2. QED
    BY <1>11, <1>0, <2>1 DEF Futex!Unlock, Moves, Only, FutexTaken,
       FutexSections, Futex!ListConsistent, Futex!TypeOK, FutexIInv, Fields
<1>12. ASSUME NEW t \in Callers, Futex!Lock(t, "wake_lock", "scan")
      PROVE  FutexTaken'
  <2>1. Moves(t, "scan") /\ futexCall'[t].entry = futexCall[t].entry
    BY <1>12, Effects
  <2>2. \A u \in Callers : u # t => linked'[u] = linked[u]
    BY <1>12 DEF Futex!Lock, FutexIInv, Futex!TypeOK
  <2>3. QED
    BY <1>12, <2>1, <2>2, TakenKept DEF Futex!Lock
<1>13. ASSUME NEW t \in Callers, Futex!ScanSkips(t)
      PROVE  FutexTaken'
  <2>1. Moves(t, "scan") /\ futexCall'[t].entry = futexCall[t].entry + 1
    BY <1>13, Effects
  <2>2. \A u \in Callers : u # t => linked'[u] = linked[u]
    BY <1>13 DEF Futex!ScanSkips, Futex!Scanning, Futex!Entry, FutexIInv,
       Futex!TypeOK
  <2>3. QED
    BY <1>13, <2>1, <2>2, TakenKept DEF Futex!ScanSkips, Futex!Scanning,
       Futex!Entry
<1>14. ASSUME NEW t \in Callers, Futex!ScanWakes(t)
      PROVE  FutexTaken'
  <2>1. Takes(t, Futex!Entry(t))
    BY <1>14, Effects
  <2>2. /\ linked' = [linked EXCEPT ![Futex!Entry(t)] = FALSE]
        /\ linked \in [Callers -> BOOLEAN]
    BY <1>14 DEF Futex!ScanWakes, FutexIInv, Futex!TypeOK
  <2>3. futexCall[Futex!Entry(t)].addr = futexCall[t].addr
    BY <1>14, <2>1 DEF Futex!ScanWakes, Takes, FutexIInv, Futex!ListConsistent
  <2>4. \A x \in Callers : x # t => futexCall[x].woken = {}
    <3>1. mu = t
      BY <1>14 DEF Futex!ScanWakes, Futex!Scanning, FutexIInv, FutexSections
    <3>2. QED
      BY <3>1, <1>0 DEF FutexIInv, FutexSections, FutexTaken
  <2>5. ASSUME NEW x \in Callers, NEW w \in futexCall'[x].woken
        PROVE  x = t /\ w \in futexCall[t].woken \cup {Futex!Entry(t)}
    BY <2>1, <2>4, <2>5 DEF Takes
  <2>6. \A w \in futexCall[t].woken : w # t /\ w # Futex!Entry(t) /\ w \in Callers
    <3>1. linked[Futex!Entry(t)] /\ futexCall[t].pc = "scan"
      BY <1>14, <2>1 DEF Futex!ScanWakes, Futex!Scanning, Takes
    <3>2. ASSUME NEW w \in futexCall[t].woken
          PROVE  ~linked[w] /\ futexCall[w].pc = "relock" /\ w \in Callers
      BY <1>0, <3>2 DEF FutexIInv, FutexTaken, Fields
    <3>3. QED
      BY <3>1, <3>2
  <2>7. QED
    BY <2>1, <2>2, <2>3, <2>5, <2>6 DEF Takes, FutexTaken, FutexIInv
<1>15. ASSUME NEW t \in Callers, Futex!ScanEnds(t)
      PROVE  FutexTaken'
  <2>1. Moves(t, "wake_unlock")
    BY <1>15, Effects
  <2>2. \A u \in Callers : u # t => linked'[u] = linked[u]
    BY <1>15 DEF Futex!ScanEnds, Futex!Scanning, FutexIInv, Futex!TypeOK
  <2>3. QED
    BY <1>15, <2>1, <2>2, TakenKept DEF Futex!ScanEnds, Futex!Scanning
<1>16. ASSUME NEW t \in Callers, Futex!Unlock(t, "wake_unlock")
      PROVE  FutexTaken'
  <2>1. Only(t) /\ futexCall'[t].pc = "out" /\ futexCall'[t].woken = {}
    BY <1>16, Effects
  <2>2. QED
    BY <1>16, <1>0, <2>1 DEF Futex!Unlock, Moves, Only, FutexTaken,
       FutexSections, Futex!ListConsistent, Futex!TypeOK, FutexIInv, Fields
<1>17. ASSUME NEW t \in Callers, Futex!SleepEndsSpuriously(t)
      PROVE  FutexTaken'
  <2>1. Moves(t, "relock")
    BY <1>17, Effects
  <2>2. \A u \in Callers : u # t => linked'[u] = linked[u]
    BY <1>17 DEF Futex!SleepEndsSpuriously, FutexIInv, Futex!TypeOK
  <2>3. QED
    BY <1>17, <2>1, <2>2, TakenKept DEF Futex!SleepEndsSpuriously
<1>18. QED
  BY <1>1, <1>2, <1>3, <1>4, <1>5, <1>6, <1>7, <1>8, <1>9, <1>10, <1>11, <1>12,
     <1>13, <1>14, <1>15, <1>16, <1>17 DEF Futex!Next, Futex!WaitStep,
     Futex!WakeStep

(* The scan passes over no thread it should wake.                          *)
LEMMA ScannedStep ==
    ASSUME Futex!FutexAssumption, FutexIInv, Futex!Next
    PROVE  FutexScanned'
<1>0. /\ BadAddr \notin Addrs /\ NoThread \notin Callers
      /\ MaxWake \in Nat /\ MaxCalls \in Nat
      /\ wait_list \in Seq(Callers)
      /\ \A u \in Callers : Fields(futexCall[u])
  BY FieldTypes DEF Futex!FutexAssumption, Futex!TypeOK, FutexIInv
<1>1. ASSUME NEW t \in Callers, NEW a \in Addrs \cup {BadAddr},
             NEW v \in Values, NEW timed \in BOOLEAN,
             Futex!WaitCall(t, a, v, timed)
      PROVE  FutexScanned'
  <2>1. Only(t) /\ futexCall'[t].pc = "wait_lock" /\ futexCall'[t].woken = {}
    BY <1>1, CallBegins DEF FutexIInv
  <2>2. QED
    <3>1. \A u \in Callers : u # t => FutexScannedBy(u)'
      BY <1>1, <2>1, OthersScanned DEF Futex!WaitCall, Futex!Begin, Only
    <3>2. QED
      BY <2>1, <3>1 DEF FutexScanned, FutexScannedBy
<1>2. ASSUME NEW t \in Callers, NEW a \in Addrs, NEW n \in 0 .. MaxWake,
             Futex!WakeCall(t, a, n)
      PROVE  FutexScanned'
  <2>1. /\ Only(t) /\ futexCall'[t].pc = "wake_lock" /\ futexCall'[t].woken = {}
        /\ futexCall'[t].addr = a /\ futexCall'[t].entry = 1
    BY <1>2, CallBegins DEF FutexIInv
  <2>2. QED
    <3>1. \A u \in Callers : u # t => FutexScannedBy(u)'
      BY <1>2, <2>1, OthersScanned DEF Futex!WakeCall, Futex!Begin, Only
    <3>2. QED
      BY <2>1, <3>1 DEF FutexScanned, FutexScannedBy
<1>3. ASSUME NEW a \in Addrs, NEW v \in Values, Futex!UserStore(a, v)
      PROVE  FutexScanned'
  BY <1>3, <1>0 DEF Futex!UserStore, FutexScanned, FutexScannedBy, FutexIInv
<1>4. ASSUME NEW t \in Callers, Futex!Lock(t, "wait_lock", "compare")
      PROVE  FutexScanned'
  <2>1. Moves(t, "compare")
    BY <1>4, Effects
  <2>2. \A u \in Callers : u # t => FutexScannedBy(u)'
    BY <1>4, <2>1, OthersScanned DEF Futex!Lock, Moves, Only, FutexIInv,
       FutexSections
  <2>3. FutexScannedBy(t)'
    BY <1>4, <1>0, <2>1 DEF Futex!Lock, Moves, Only, FutexIInv, FutexScanned,
       FutexScannedBy, Fields
  <2>4. QED
    BY <2>2, <2>3 DEF FutexScanned
<1>5. ASSUME NEW t \in Callers, Futex!WaitFault(t)
      PROVE  FutexScanned'
  <2>1. Moves(t, "unlock") /\ futexCall'[t].result = "EFAULT"
    BY <1>5, Effects
  <2>2. \A u \in Callers : u # t => FutexScannedBy(u)'
    BY <1>5, <2>1, OthersScanned DEF Futex!WaitFault, Moves, Only, FutexIInv,
       FutexSections
  <2>3. FutexScannedBy(t)'
    BY <1>5, <1>0, <2>1 DEF Futex!WaitFault, Moves, Only, FutexIInv,
       FutexScanned, FutexScannedBy, Fields
  <2>4. QED
    BY <2>2, <2>3 DEF FutexScanned
<1>6. ASSUME NEW t \in Callers, Futex!Compare(t)
      PROVE  FutexScanned'
  <2>1. IF futexWord[futexCall[t].addr] = futexCall[t].value
        THEN Moves(t, "add")
        ELSE Moves(t, "unlock") /\ futexCall'[t].result = "EWOULDBLOCK"
    BY <1>6, Effects
  <2>2. \A u \in Callers : u # t => FutexScannedBy(u)'
    BY <1>6, <2>1, OthersScanned DEF Futex!Compare, Moves, Only
  <2>3. futexCall'[t].pc \in {"add", "unlock"}
    BY <2>1 DEF Moves
  <2>4. QED
    BY <2>2, <2>3 DEF FutexScanned, FutexScannedBy
<1>7. ASSUME NEW t \in Callers, Futex!AddAndSleep(t)
      PROVE  FutexScanned'
  <2>1. Moves(t, "sleep")
    BY <1>7, Effects
  <2>2. \A u \in Callers : u # t => FutexScannedBy(u)'
    BY <1>7, <2>1, OthersScanned DEF Futex!AddAndSleep, Moves, Only, FutexIInv,
       FutexSections
  <2>3. FutexScannedBy(t)'
    BY <1>7, <1>0, <2>1 DEF Futex!AddAndSleep, Moves, Only, FutexIInv,
       FutexScanned, FutexScannedBy, Fields
  <2>4. QED
    BY <2>2, <2>3 DEF FutexScanned
<1>8. ASSUME NEW t \in Callers, Futex!SleepTimesOut(t)
      PROVE  FutexScanned'
  <2>1. Moves(t, "relock")
    BY <1>8, Effects
  <2>2. \A u \in Callers : u # t => FutexScannedBy(u)'
    BY <1>8, <2>1, OthersScanned DEF Futex!SleepTimesOut, Moves, Only,
       FutexIInv, FutexSections
  <2>3. FutexScannedBy(t)'
    BY <1>8, <1>0, <2>1 DEF Futex!SleepTimesOut, Moves, Only, FutexIInv,
       FutexScanned, FutexScannedBy, Fields
  <2>4. QED
    BY <2>2, <2>3 DEF FutexScanned
<1>9. ASSUME NEW t \in Callers, Futex!Lock(t, "relock", "unlink")
      PROVE  FutexScanned'
  <2>1. Moves(t, "unlink")
    BY <1>9, Effects
  <2>2. \A u \in Callers : u # t => FutexScannedBy(u)'
    BY <1>9, <2>1, OthersScanned DEF Futex!Lock, Moves, Only, FutexIInv,
       FutexSections
  <2>3. FutexScannedBy(t)'
    BY <1>9, <1>0, <2>1 DEF Futex!Lock, Moves, Only, FutexIInv, FutexScanned,
       FutexScannedBy, Fields
  <2>4. QED
    BY <2>2, <2>3 DEF FutexScanned
<1>10. ASSUME NEW t \in Callers, Futex!Unlink(t)
      PROVE  FutexScanned'
  <2>1. /\ Moves(t, "unlock")
        /\ futexCall'[t].result = IF linked[t] THEN futexCall[t].status ELSE "ok"
    BY <1>10, Effects
  <2>2. mu = t
    BY <1>10 DEF Futex!Unlink, FutexIInv, FutexSections
  <2>3. \A u \in Callers : u # t => FutexScannedBy(u)'
    BY <2>1, <2>2, OthersScanned DEF Moves, Only
  <2>4. futexCall'[t].pc = "unlock"
    BY <2>1 DEF Moves
  <2>5. QED
    BY <2>3, <2>4 DEF FutexScanned, FutexScannedBy
<1>11. ASSUME NEW t \in Callers, Futex!Unlock(t, "unlock")
      PROVE  FutexScanned'
  <2>1. Only(t) /\ futexCall'[t].pc = "out" /\ futexCall'[t].woken = {}
    BY <1>11, Effects
  <2>2. \A u \in Callers : u # t => FutexScannedBy(u)'
    BY <1>11, <2>1, OthersScanned DEF Futex!Unlock, Moves, Only, FutexIInv,
       FutexSections
  <2>3. FutexScannedBy(t)'
    BY <1>11, <1>0, <2>1 DEF Futex!Unlock, Moves, Only, FutexIInv,
       FutexScanned, FutexScannedBy, Fields
  <2>4. QED
    BY <2>2, <2>3 DEF FutexScanned
<1>12. ASSUME NEW t \in Callers, Futex!Lock(t, "wake_lock", "scan")
      PROVE  FutexScanned'
  <2>1. Moves(t, "scan") /\ futexCall'[t].entry = futexCall[t].entry
    BY <1>12, Effects
  <2>2. \A u \in Callers : u # t => FutexScannedBy(u)'
    BY <1>12, <2>1, OthersScanned DEF Futex!Lock, Moves, Only, FutexIInv,
       FutexSections
  <2>3. FutexScannedBy(t)'
    BY <1>12, <1>0, <2>1 DEF Futex!Lock, Moves, Only, FutexIInv, FutexScanned,
       FutexScannedBy, Fields
  <2>4. QED
    BY <2>2, <2>3 DEF FutexScanned
<1>13. ASSUME NEW t \in Callers, Futex!ScanSkips(t)
      PROVE  FutexScanned'
  <2>1. Moves(t, "scan") /\ futexCall'[t].entry = futexCall[t].entry + 1
    BY <1>13, Effects
  <2>2. \A u \in Callers : u # t => FutexScannedBy(u)'
    BY <1>13, <2>1, OthersScanned DEF Futex!ScanSkips, Moves, Only
  <2>3. FutexScannedBy(t)'
    <3>1. /\ futexCall[t].pc = "scan" /\ futexCall[t].entry \in Nat
          /\ futexCall[t].entry >= 1
          /\ futex_wait_addr[wait_list[futexCall[t].entry]] # futexCall[t].addr
          /\ UNCHANGED <<wait_list, futex_wait_addr>>
      BY <1>13, <1>0 DEF Futex!ScanSkips, Futex!Scanning, Futex!Entry, Fields,
         FutexIInv, FutexScanned, FutexScannedBy
    <3>2. ASSUME NEW j \in 1 .. Len(wait_list), j < futexCall[t].entry + 1
          PROVE  futex_wait_addr[wait_list[j]] # futexCall[t].addr
      <4>1. j \in Nat /\ (j < futexCall[t].entry \/ j = futexCall[t].entry)
        BY <3>1, <3>2
      <4>2. QED
        BY <3>1, <4>1 DEF FutexIInv, FutexScanned, FutexScannedBy
    <3>3. QED
      BY <2>1, <3>1, <3>2 DEF Moves, FutexScannedBy
  <2>4. QED
    BY <2>2, <2>3 DEF FutexScanned
<1>14. ASSUME NEW t \in Callers, Futex!ScanWakes(t)
      PROVE  FutexScanned'
  <2>1. Takes(t, Futex!Entry(t))
    BY <1>14, Effects
  <2>2. mu = t /\ futexCall[t].pc = "scan"
    BY <1>14 DEF Futex!ScanWakes, Futex!Scanning, FutexIInv, FutexSections
  <2>3. \A u \in Callers : u # t /\ u # Futex!Entry(t) => FutexScannedBy(u)'
    BY <2>1, <2>2, OthersScanned DEF Takes
  <2>4. \A u \in Callers : u = Futex!Entry(t) => FutexScannedBy(u)'
    BY <2>1 DEF Takes, FutexScannedBy
  <2>5. FutexScannedBy(t)'
    <3>1. PICK k \in 1 .. Len(wait_list) :
              /\ wait_list[k] = Futex!Entry(t)
              /\ Futex!ListRemoveNode(Futex!Entry(t)) \in Seq(Callers)
              /\ Len(Futex!ListRemoveNode(Futex!Entry(t))) = Len(wait_list) - 1
              /\ \A j \in 1 .. Len(wait_list) - 1 :
                    Futex!ListRemoveNode(Futex!Entry(t))[j] = IF j < k THEN wait_list[j]
                                                       ELSE wait_list[j + 1]
      BY <2>1, NodeRemoved DEF Takes, FutexIInv
    <3>a. Len(wait_list) \in Nat /\ DOMAIN wait_list = 1 .. Len(wait_list)
      BY <1>0
    <3>b. futexCall[t].entry \in 1 .. Len(wait_list)
      BY <1>14, <1>0, <3>a DEF Futex!ScanWakes, Futex!Scanning, Fields,
         FutexIInv, FutexScanned, FutexScannedBy
    <3>c. \A i, j \in 1 .. Len(wait_list) :
             wait_list[i] = wait_list[j] => i = j
      BY <3>a DEF FutexIInv, Futex!ListConsistent
    <3>2. k = futexCall[t].entry /\ k \in Nat
      <4>1. wait_list[k] = wait_list[futexCall[t].entry]
        BY <2>1, <3>1 DEF Takes
      <4>2. QED
        BY <3>a, <3>b, <3>c, <4>1
    <3>3. ASSUME NEW j \in 1 .. Len(wait_list'), j < k
          PROVE  futex_wait_addr'[wait_list'[j]] # futexCall[t].addr
      <4>1. wait_list' = Futex!ListRemoveNode(Futex!Entry(t))
        BY <1>14 DEF Futex!ScanWakes
      <4>2. j \in 1 .. Len(wait_list) - 1 /\ j \in 1 .. Len(wait_list)
        BY <1>0, <3>1, <3>3, <4>1
      <4>3. wait_list'[j] = wait_list[j]
        BY <3>1, <3>3, <4>1, <4>2
      <4>4. wait_list[j] # Futex!Entry(t) /\ wait_list[j] \in Callers
        BY <1>0, <3>1, <3>2, <3>3, <3>a, <3>c, <4>2
      <4>5. futex_wait_addr'[wait_list[j]] = futex_wait_addr[wait_list[j]]
        BY <1>14, <4>4 DEF Futex!ScanWakes, FutexIInv, Futex!TypeOK
      <4>6. futex_wait_addr[wait_list[j]] # futexCall[t].addr
        BY <2>2, <3>2, <3>3, <4>2 DEF FutexIInv, FutexScanned, FutexScannedBy
      <4>7. QED
        BY <4>3, <4>5, <4>6
    <3>4. futexCall[t].entry >= 1
      BY <2>2 DEF FutexIInv, FutexScanned, FutexScannedBy
    <3>5. QED
      BY <2>1, <3>2, <3>3, <3>4 DEF Takes, FutexScannedBy
  <2>6. QED
    BY <2>3, <2>4, <2>5 DEF FutexScanned
<1>15. ASSUME NEW t \in Callers, Futex!ScanEnds(t)
      PROVE  FutexScanned'
  <2>1. Moves(t, "wake_unlock")
    BY <1>15, Effects
  <2>2. \A u \in Callers : u # t => FutexScannedBy(u)'
    BY <1>15, <2>1, OthersScanned DEF Futex!ScanEnds, Futex!Scanning, Moves,
       Only, FutexIInv, FutexSections
  <2>3. FutexScannedBy(t)'
    BY <1>15, <1>0, <2>1 DEF Futex!ScanEnds, Futex!Scanning, Moves, Only,
       FutexIInv, FutexScanned, FutexScannedBy, Fields
  <2>4. QED
    BY <2>2, <2>3 DEF FutexScanned
<1>16. ASSUME NEW t \in Callers, Futex!Unlock(t, "wake_unlock")
      PROVE  FutexScanned'
  <2>1. Only(t) /\ futexCall'[t].pc = "out" /\ futexCall'[t].woken = {}
    BY <1>16, Effects
  <2>2. \A u \in Callers : u # t => FutexScannedBy(u)'
    BY <1>16, <2>1, OthersScanned DEF Futex!Unlock, Moves, Only, FutexIInv,
       FutexSections
  <2>3. FutexScannedBy(t)'
    BY <1>16, <1>0, <2>1 DEF Futex!Unlock, Moves, Only, FutexIInv,
       FutexScanned, FutexScannedBy, Fields
  <2>4. QED
    BY <2>2, <2>3 DEF FutexScanned
<1>17. ASSUME NEW t \in Callers, Futex!SleepEndsSpuriously(t)
      PROVE  FutexScanned'
  <2>1. Moves(t, "relock")
    BY <1>17, Effects
  <2>2. \A u \in Callers : u # t => FutexScannedBy(u)'
    BY <1>17, <2>1, OthersScanned DEF Futex!SleepEndsSpuriously, Moves, Only,
       FutexIInv, FutexSections
  <2>3. FutexScannedBy(t)'
    BY <1>17, <1>0, <2>1 DEF Futex!SleepEndsSpuriously, Moves, Only, FutexIInv,
       FutexScanned, FutexScannedBy, Fields
  <2>4. QED
    BY <2>2, <2>3 DEF FutexScanned
<1>18. QED
  BY <1>1, <1>2, <1>3, <1>4, <1>5, <1>6, <1>7, <1>8, <1>9, <1>10, <1>11, <1>12,
     <1>13, <1>14, <1>15, <1>16, <1>17 DEF Futex!Next, Futex!WaitStep,
     Futex!WakeStep

(* The list and the links agree, after every step.                         *)
LEMMA ListStep ==
    ASSUME Futex!FutexAssumption, FutexIInv, Futex!Next
    PROVE  Futex!ListConsistent'
<1>0. /\ BadAddr \notin Addrs /\ NoThread \notin Callers
      /\ MaxWake \in Nat /\ MaxCalls \in Nat
      /\ wait_list \in Seq(Callers)
      /\ \A u \in Callers : Fields(futexCall[u])
  BY FieldTypes DEF Futex!FutexAssumption, Futex!TypeOK, FutexIInv
<1>1. ASSUME NEW t \in Callers, NEW a \in Addrs \cup {BadAddr},
             NEW v \in Values, NEW timed \in BOOLEAN,
             Futex!WaitCall(t, a, v, timed)
      PROVE  Futex!ListConsistent'
  <2>1. Only(t) /\ futexCall'[t].pc = "wait_lock" /\ futexCall'[t].woken = {}
    BY <1>1, CallBegins DEF FutexIInv
  <2>2. QED
    BY <1>1, <1>0, <2>1 DEF Futex!WaitCall, Futex!Begin, Moves, Only,
       Futex!ListConsistent, Futex!TypeOK, FutexIInv
<1>2. ASSUME NEW t \in Callers, NEW a \in Addrs, NEW n \in 0 .. MaxWake,
             Futex!WakeCall(t, a, n)
      PROVE  Futex!ListConsistent'
  <2>1. /\ Only(t) /\ futexCall'[t].pc = "wake_lock" /\ futexCall'[t].woken = {}
        /\ futexCall'[t].addr = a /\ futexCall'[t].entry = 1
    BY <1>2, CallBegins DEF FutexIInv
  <2>2. QED
    BY <1>2, <1>0, <2>1 DEF Futex!WakeCall, Futex!Begin, Moves, Only,
       Futex!ListConsistent, Futex!TypeOK, FutexIInv
<1>3. ASSUME NEW a \in Addrs, NEW v \in Values, Futex!UserStore(a, v)
      PROVE  Futex!ListConsistent'
  BY <1>3, <1>0 DEF Futex!UserStore, Moves, Only, Futex!ListConsistent,
     Futex!TypeOK, FutexIInv
<1>4. ASSUME NEW t \in Callers, Futex!Lock(t, "wait_lock", "compare")
      PROVE  Futex!ListConsistent'
  <2>1. Moves(t, "compare")
    BY <1>4, Effects
  <2>2. linked[t] => futexCall[t].pc \in {"sleep", "relock", "unlink"}
    BY DEF FutexIInv, Futex!ListConsistent
  <2>3. QED
    BY <1>4, <2>1, <2>2, ListKept DEF Futex!Lock
<1>5. ASSUME NEW t \in Callers, Futex!WaitFault(t)
      PROVE  Futex!ListConsistent'
  <2>1. Moves(t, "unlock") /\ futexCall'[t].result = "EFAULT"
    BY <1>5, Effects
  <2>2. linked[t] => futexCall[t].pc \in {"sleep", "relock", "unlink"}
    BY DEF FutexIInv, Futex!ListConsistent
  <2>3. QED
    BY <1>5, <2>1, <2>2, ListKept DEF Futex!WaitFault
<1>6. ASSUME NEW t \in Callers, Futex!Compare(t)
      PROVE  Futex!ListConsistent'
  <2>1. IF futexWord[futexCall[t].addr] = futexCall[t].value
        THEN Moves(t, "add")
        ELSE Moves(t, "unlock") /\ futexCall'[t].result = "EWOULDBLOCK"
    BY <1>6, Effects
  <2>2. ~linked[t]
    BY <1>6 DEF Futex!Compare, FutexIInv, Futex!ListConsistent
  <2>3. Moves(t, "add") \/ Moves(t, "unlock")
    BY <2>1
  <2>4. UNCHANGED <<wait_list, futex_wait_addr, linked>>
    BY <1>6 DEF Futex!Compare
  <2>5. QED
    BY <2>2, <2>3, <2>4, ListKept
<1>7. ASSUME NEW t \in Callers, Futex!AddAndSleep(t)
      PROVE  Futex!ListConsistent'
  <2>1. Moves(t, "sleep")
    BY <1>7, Effects
  <2>2. ~linked[t] /\ futexCall[t].addr \in Addrs
    BY <1>7 DEF Futex!AddAndSleep, FutexIInv, Futex!ListConsistent,
       FutexSections
  <2>3. /\ \A u \in Callers : linked'[u] <=> \E i \in DOMAIN wait_list' :
                                                 wait_list'[i] = u
        /\ \A i, j \in DOMAIN wait_list' :
              wait_list'[i] = wait_list'[j] => i = j
    BY <1>7, <2>2, NodeAdded DEF Futex!AddAndSleep, FutexIInv
  <2>4. \A u \in Callers :
          /\ linked'[u] => /\ futexCall'[u].pc \in {"sleep", "relock", "unlink"}
                            /\ futex_wait_addr'[u] = futexCall'[u].addr
          /\ futexCall'[u].pc = "sleep" => linked'[u]
    BY <1>7, <2>1, <2>2 DEF Futex!AddAndSleep, Moves, Only, FutexIInv,
       Futex!ListConsistent, Futex!TypeOK
  <2>5. QED
    BY <2>3, <2>4 DEF Futex!ListConsistent
<1>8. ASSUME NEW t \in Callers, Futex!SleepTimesOut(t)
      PROVE  Futex!ListConsistent'
  <2>1. Moves(t, "relock")
    BY <1>8, Effects
  <2>2. linked[t] => futexCall[t].pc \in {"sleep", "relock", "unlink"}
    BY DEF FutexIInv, Futex!ListConsistent
  <2>3. QED
    BY <1>8, <2>1, <2>2, ListKept DEF Futex!SleepTimesOut
<1>9. ASSUME NEW t \in Callers, Futex!Lock(t, "relock", "unlink")
      PROVE  Futex!ListConsistent'
  <2>1. Moves(t, "unlink")
    BY <1>9, Effects
  <2>2. linked[t] => futexCall[t].pc \in {"sleep", "relock", "unlink"}
    BY DEF FutexIInv, Futex!ListConsistent
  <2>3. QED
    BY <1>9, <2>1, <2>2, ListKept DEF Futex!Lock
<1>10. ASSUME NEW t \in Callers, Futex!Unlink(t)
      PROVE  Futex!ListConsistent'
  <2>1. /\ Moves(t, "unlock")
        /\ futexCall'[t].result = IF linked[t] THEN futexCall[t].status ELSE "ok"
    BY <1>10, Effects
  <2>2. CASE linked[t]
    <3>1. /\ \A u \in Callers : linked'[u] <=> \E i \in DOMAIN wait_list' :
                                                   wait_list'[i] = u
          /\ \A i, j \in DOMAIN wait_list' :
                wait_list'[i] = wait_list'[j] => i = j
      BY <1>10, <2>2, NodeLeaves DEF Futex!Unlink, FutexIInv
    <3>2. \A u \in Callers :
            /\ linked'[u] => /\ futexCall'[u].pc \in {"sleep", "relock", "unlink"}
                              /\ futex_wait_addr'[u] = futexCall'[u].addr
            /\ futexCall'[u].pc = "sleep" => linked'[u]
      BY <1>10, <2>1 DEF Futex!Unlink, Moves, Only, FutexIInv,
         Futex!ListConsistent, Futex!TypeOK
    <3>3. QED
      BY <3>1, <3>2 DEF Futex!ListConsistent
  <2>3. CASE ~linked[t]
    <3>1. linked' = linked
      BY <1>10, <2>3 DEF Futex!Unlink, FutexIInv, Futex!TypeOK
    <3>2. \A u \in Callers :
            /\ linked'[u] => /\ futexCall'[u].pc \in {"sleep", "relock", "unlink"}
                              /\ futex_wait_addr'[u] = futexCall'[u].addr
            /\ futexCall'[u].pc = "sleep" => linked'[u]
      BY <1>10, <2>1, <2>3 DEF Futex!Unlink, Moves, Only, FutexIInv,
         Futex!ListConsistent, Futex!TypeOK
    <3>3. QED
      BY <1>10, <2>3, <3>1, <3>2 DEF Futex!Unlink, Futex!ListConsistent,
         FutexIInv
  <2>4. QED
    BY <2>2, <2>3
<1>11. ASSUME NEW t \in Callers, Futex!Unlock(t, "unlock")
      PROVE  Futex!ListConsistent'
  <2>1. Only(t) /\ futexCall'[t].pc = "out" /\ futexCall'[t].woken = {}
    BY <1>11, Effects
  <2>2. QED
    BY <1>11, <1>0, <2>1 DEF Futex!Unlock, Moves, Only, Futex!ListConsistent,
       Futex!TypeOK, FutexIInv
<1>12. ASSUME NEW t \in Callers, Futex!Lock(t, "wake_lock", "scan")
      PROVE  Futex!ListConsistent'
  <2>1. Moves(t, "scan") /\ futexCall'[t].entry = futexCall[t].entry
    BY <1>12, Effects
  <2>2. linked[t] => futexCall[t].pc \in {"sleep", "relock", "unlink"}
    BY DEF FutexIInv, Futex!ListConsistent
  <2>3. QED
    BY <1>12, <2>1, <2>2, ListKept DEF Futex!Lock
<1>13. ASSUME NEW t \in Callers, Futex!ScanSkips(t)
      PROVE  Futex!ListConsistent'
  <2>1. Moves(t, "scan") /\ futexCall'[t].entry = futexCall[t].entry + 1
    BY <1>13, Effects
  <2>2. linked[t] => futexCall[t].pc \in {"sleep", "relock", "unlink"}
    BY DEF FutexIInv, Futex!ListConsistent
  <2>3. QED
    BY <1>13, <2>1, <2>2, ListKept DEF Futex!ScanSkips, Futex!Scanning,
       Futex!Entry
<1>14. ASSUME NEW t \in Callers, Futex!ScanWakes(t)
      PROVE  Futex!ListConsistent'
  <2>1. Takes(t, Futex!Entry(t))
    BY <1>14, Effects
  <2>2. linked[Futex!Entry(t)] /\ Futex!Entry(t) \in Callers
    BY <2>1 DEF Takes
  <2>3. /\ \A u \in Callers : linked'[u] <=> \E i \in DOMAIN wait_list' :
                                                 wait_list'[i] = u
        /\ \A i, j \in DOMAIN wait_list' :
              wait_list'[i] = wait_list'[j] => i = j
    BY <1>14, <2>2, NodeLeaves DEF Futex!ScanWakes, FutexIInv
  <2>4. futexCall[t].pc = "scan"
    BY <1>14 DEF Futex!ScanWakes, Futex!Scanning
  <2>5. \A u \in Callers :
          /\ linked'[u] => /\ futexCall'[u].pc \in {"sleep", "relock", "unlink"}
                            /\ futex_wait_addr'[u] = futexCall'[u].addr
          /\ futexCall'[u].pc = "sleep" => linked'[u]
    <3>1. /\ linked' = [linked EXCEPT ![Futex!Entry(t)] = FALSE]
          /\ futex_wait_addr' = [futex_wait_addr EXCEPT ![Futex!Entry(t)] = BadAddr]
      BY <1>14 DEF Futex!ScanWakes
    <3>2. ASSUME NEW u \in Callers
          PROVE  /\ linked'[u] = IF u = Futex!Entry(t) THEN FALSE ELSE linked[u]
                 /\ futex_wait_addr'[u] = IF u = Futex!Entry(t) THEN BadAddr
                                          ELSE futex_wait_addr[u]
      BY <2>2, <3>1 DEF FutexIInv, Futex!TypeOK
    <3>3. /\ ~linked[t] /\ futexCall'[t].pc = "scan"
          /\ futexCall'[Futex!Entry(t)].pc = "relock"
          /\ \A u \in Callers : u # t /\ u # Futex!Entry(t) => futexCall'[u] = futexCall[u]
      BY <2>1, <2>4 DEF Takes, FutexIInv, Futex!ListConsistent
    <3>4. ASSUME NEW u \in Callers
          PROVE  /\ linked'[u] =>
                       /\ futexCall'[u].pc \in {"sleep", "relock", "unlink"}
                       /\ futex_wait_addr'[u] = futexCall'[u].addr
                 /\ futexCall'[u].pc = "sleep" => linked'[u]
      <4>1. CASE u = t
        <5>1. t # Futex!Entry(t)
          BY <2>1 DEF Takes
        <5>2. QED
          BY <3>2, <3>3, <4>1, <5>1
      <4>2. CASE u = Futex!Entry(t)
        <5>1. ~linked'[u] /\ futexCall'[u].pc = "relock"
          BY <3>2, <3>3, <4>2
        <5>2. QED
          BY <5>1
      <4>3. CASE u # t /\ u # Futex!Entry(t)
        <5>1. futexCall'[u] = futexCall[u] /\ linked'[u] = linked[u]
              /\ futex_wait_addr'[u] = futex_wait_addr[u]
          BY <3>2, <3>3, <4>3
        <5>2. QED
          BY <5>1 DEF FutexIInv, Futex!ListConsistent
      <4>4. QED
        BY <4>1, <4>2, <4>3
    <3>5. QED
      BY <3>4
  <2>6. QED
    BY <2>3, <2>5 DEF Futex!ListConsistent
<1>15. ASSUME NEW t \in Callers, Futex!ScanEnds(t)
      PROVE  Futex!ListConsistent'
  <2>1. Moves(t, "wake_unlock")
    BY <1>15, Effects
  <2>2. linked[t] => futexCall[t].pc \in {"sleep", "relock", "unlink"}
    BY DEF FutexIInv, Futex!ListConsistent
  <2>3. QED
    BY <1>15, <2>1, <2>2, ListKept DEF Futex!ScanEnds, Futex!Scanning
<1>16. ASSUME NEW t \in Callers, Futex!Unlock(t, "wake_unlock")
      PROVE  Futex!ListConsistent'
  <2>1. Only(t) /\ futexCall'[t].pc = "out" /\ futexCall'[t].woken = {}
    BY <1>16, Effects
  <2>2. QED
    BY <1>16, <1>0, <2>1 DEF Futex!Unlock, Moves, Only, Futex!ListConsistent,
       Futex!TypeOK, FutexIInv
<1>17. ASSUME NEW t \in Callers, Futex!SleepEndsSpuriously(t)
      PROVE  Futex!ListConsistent'
  <2>1. Moves(t, "relock")
    BY <1>17, Effects
  <2>2. linked[t] => futexCall[t].pc \in {"sleep", "relock", "unlink"}
    BY DEF FutexIInv, Futex!ListConsistent
  <2>3. QED
    BY <1>17, <2>1, <2>2, ListKept DEF Futex!SleepEndsSpuriously
<1>18. QED
  BY <1>1, <1>2, <1>3, <1>4, <1>5, <1>6, <1>7, <1>8, <1>9, <1>10, <1>11, <1>12,
     <1>13, <1>14, <1>15, <1>16, <1>17 DEF Futex!Next, Futex!WaitStep,
     Futex!WakeStep

-----------------------------------------------------------------------------
LEMMA FutexInitially ==
    ASSUME Futex!FutexAssumption, Futex!Init
    PROVE  FutexIInv
<1>1. Futex!NoCall \in Futex!Call
  BY NoCallType
<1>2. Futex!NoCall.pc = "out" /\ Futex!NoCall.woken = {}
  BY DEF Futex!NoCall
<1>3. << >> \in Seq(Callers) /\ DOMAIN wait_list = {}
  BY DEF Futex!Init
<1>4. 0 \in 0 .. MaxCalls
  BY DEF Futex!FutexAssumption
<1>5. Futex!TypeOK
  BY <1>1, <1>3, <1>4 DEF Futex!Init, Futex!TypeOK
<1>6. Futex!ListConsistent
  BY <1>2, <1>3 DEF Futex!Init, Futex!ListConsistent
<1>7. FutexSections
  BY <1>2 DEF Futex!Init, FutexSections, Futex!FutexAssumption
<1>8. FutexTaken /\ FutexScanned
  BY <1>2 DEF Futex!Init, FutexTaken, FutexScanned, FutexScannedBy
<1>9. QED
  BY <1>5, <1>6, <1>7, <1>8 DEF FutexIInv

LEMMA FutexInvariantStep ==
    ASSUME Futex!FutexAssumption, FutexIInv, [Futex!Next]_(Futex!vars)
    PROVE  FutexIInv'
<1>1. CASE Futex!Next
  BY <1>1, FutexTypeStep, ListStep, SectionsStep, TakenStep, ScannedStep DEF
     FutexIInv
<1>2. CASE UNCHANGED Futex!vars
  BY <1>2 DEF Futex!vars, FutexIInv, Futex!TypeOK, Futex!ListConsistent,
     FutexSections, FutexTaken, FutexScanned, FutexScannedBy
<1>3. QED
  BY <1>1, <1>2

(* The mutex, the list, the links and what a wake call has done so far     *)
(* agree in every state.                                                   *)
THEOREM FutexInvariance ==
    ASSUME Futex!FutexAssumption
    PROVE  Futex!Spec => []FutexIInv
<1>1. Futex!Init => FutexIInv
  BY FutexInitially
<1>2. FutexIInv /\ [Futex!Next]_(Futex!vars) => FutexIInv'
  BY FutexInvariantStep
<1>3. QED
  BY <1>1, <1>2, PTL DEF Futex!Spec

(* A wake call takes the oldest waiter of its address.                     *)
LEMMA OldestFirst ==
    ASSUME Futex!FutexAssumption, FutexIInv
    PROVE  Futex!WakesFirst
<1> SUFFICES ASSUME NEW i \in DOMAIN wait_list, NEW t \in Callers,
                    ~linked'[wait_list[i]], Futex!ScanWakes(t),
                    NEW j \in 1 .. i - 1
             PROVE  futex_wait_addr[wait_list[j]] #
                    futex_wait_addr[wait_list[i]]
  BY DEF Futex!WakesFirst
<1>1. /\ Len(wait_list) \in Nat /\ DOMAIN wait_list = 1 .. Len(wait_list)
      /\ Fields(futexCall[t])
  BY FieldTypes DEF FutexIInv, Futex!TypeOK
<1>2. /\ futexCall[t].entry \in 1 .. Len(wait_list)
      /\ futexCall[t].pc = "scan"
      /\ futex_wait_addr[Futex!Entry(t)] = futexCall[t].addr
      /\ linked' = [linked EXCEPT ![Futex!Entry(t)] = FALSE]
  BY <1>1 DEF Futex!ScanWakes, Futex!Scanning, FutexIInv, FutexScanned,
     FutexScannedBy, Fields
<1>3. wait_list[i] \in Callers /\ linked[wait_list[i]]
  BY DEF FutexIInv, Futex!TypeOK, Futex!ListConsistent
<1>4. wait_list[i] = Futex!Entry(t)
  BY <1>2, <1>3 DEF FutexIInv, Futex!TypeOK
<1>5. i = futexCall[t].entry
  BY <1>1, <1>2, <1>4 DEF FutexIInv, Futex!ListConsistent, Futex!Entry
<1>6. j \in 1 .. Len(wait_list) /\ j < futexCall[t].entry
  BY <1>1, <1>5
<1>7. futex_wait_addr[wait_list[j]] # futexCall[t].addr
  BY <1>2, <1>6 DEF FutexIInv, FutexScanned, FutexScannedBy
<1>8. QED
  BY <1>2, <1>4, <1>7

-----------------------------------------------------------------------------
(* The refinement.  Fstate and Faddr are what FutexSpec sees.              *)
AbstractAddr(t) ==
    IF Futex!AbstractState(t) \in {"waiting", "woken"} THEN futexCall[t].addr ELSE BadAddr

Fstate == [t \in Callers |-> Futex!AbstractState(t)]

Faddr == [t \in Callers |-> AbstractAddr(t)]

FutexSame(u) == UNCHANGED Futex!AbstractState(u) /\ UNCHANGED AbstractAddr(u)

(* Where a call is tells its abstract state, before and after a step.      *)
LEMMA StateNow ==
    ASSUME NEW t \in Callers
    PROVE  /\ futexCall[t].pc \in {"out", "wait_lock", "compare", "wake_lock",
                                   "scan", "wake_unlock"} =>
                 Futex!AbstractState(t) = "out"
           /\ futexCall[t].pc = "add" => Futex!AbstractState(t) = "waiting"
           /\ futexCall[t].pc \in {"sleep", "relock", "unlink"} =>
                 Futex!AbstractState(t) = IF linked[t] \/ Futex!BeingWoken(t)
                                          THEN "waiting" ELSE "woken"
           /\ futexCall[t].pc = "unlock" => Futex!AbstractState(t) = futexCall[t].result
  BY DEF Futex!AbstractState

LEMMA StateNext ==
    ASSUME NEW t \in Callers
    PROVE  /\ futexCall'[t].pc \in {"out", "wait_lock", "compare", "wake_lock",
                                    "scan", "wake_unlock"} =>
                 Futex!AbstractState(t)' = "out"
           /\ futexCall'[t].pc = "add" => Futex!AbstractState(t)' = "waiting"
           /\ futexCall'[t].pc \in {"sleep", "relock", "unlink"} =>
                 Futex!AbstractState(t)' = IF linked'[t] \/ Futex!BeingWoken(t)'
                                           THEN "waiting" ELSE "woken"
           /\ futexCall'[t].pc = "unlock" => Futex!AbstractState(t)' = futexCall'[t].result
  BY DEF Futex!AbstractState

(* A thread is being woken while a wake call has it in its set.            *)
LEMMA WokenNow ==
    ASSUME FutexIInv, NEW u \in Callers
    PROVE  Futex!BeingWoken(u) <=> \E v \in Callers : u \in futexCall[v].woken
  BY DEF Futex!BeingWoken, FutexIInv, FutexTaken

LEMMA WokenNext ==
    ASSUME FutexIInv', NEW u \in Callers
    PROVE  Futex!BeingWoken(u)' <=> \E v \in Callers : u \in futexCall'[v].woken
  BY DEF Futex!BeingWoken, FutexIInv, FutexTaken

(* A thread that is not in the step stays as it is.                        *)
LEMMA OthersSame ==
    ASSUME FutexIInv, FutexIInv', NEW t \in Callers, Only(t),
           futexCall'[t].woken = futexCall[t].woken, NEW u \in Callers,
           u # t => linked'[u] = linked[u]
    PROVE  /\ Futex!BeingWoken(u)' <=> Futex!BeingWoken(u)
           /\ u # t => FutexSame(u)
<1>1. \A v \in Callers : futexCall'[v].woken = futexCall[v].woken
  BY DEF Only
<1>2. Futex!BeingWoken(u)' <=> Futex!BeingWoken(u)
  BY <1>1, WokenNow, WokenNext
<1>3. ASSUME u # t
      PROVE  FutexSame(u)
  <2>1. futexCall'[u] = futexCall[u] /\ linked'[u] = linked[u]
    BY <1>3 DEF Only
  <2>2. Futex!AbstractState(u)' = Futex!AbstractState(u)
    BY <1>2, <2>1 DEF Futex!AbstractState
  <2>3. QED
    BY <2>1, <2>2 DEF FutexSame, AbstractAddr
<1>4. QED
  BY <1>2, <1>3

LEMMA MapStutters ==
    ASSUME futexWord' = futexWord, \A u \in Callers : FutexSame(u)
    PROVE  UNCHANGED Futex!F!fvars
  BY DEF Futex!F!fvars, AbstractAddr, FutexSame

LEMMA MapMoves ==
    ASSUME NEW t \in Callers, NEW s, NEW a,
           \A u \in Callers : u # t => FutexSame(u),
           Futex!AbstractState(t)' = s, AbstractAddr(t)' = a
    PROVE  /\ Fstate' = [Fstate EXCEPT ![t] = s]
           /\ Faddr' = [Faddr EXCEPT ![t] = a]
           /\ AbstractAddr(t) = a => Faddr' = Faddr
           /\ Fstate[t] = Futex!AbstractState(t)
  BY DEF Fstate, Faddr, FutexSame

(* Unless it is a step of FutexSpec, a step is invisible there.            *)
LEMMA Invisible ==
    ASSUME FutexIInv, FutexIInv', NEW t \in Callers, Only(t),
           futexCall'[t].woken = futexCall[t].woken, futexWord' = futexWord,
           \A u \in Callers : u # t => linked'[u] = linked[u],
           Futex!AbstractState(t)' = Futex!AbstractState(t),
           Futex!AbstractState(t) = "out" \/ futexCall'[t].addr = futexCall[t].addr
    PROVE  UNCHANGED Futex!F!fvars
<1>1. \A u \in Callers : u # t => FutexSame(u)
  BY OthersSame
<1>2. FutexSame(t)
  BY DEF FutexSame, AbstractAddr
<1>3. QED
  BY <1>1, <1>2, MapStutters

(* The comparison of the word decides whether the thread waits.            *)
LEMMA CompareMaps ==
    ASSUME Futex!FutexAssumption, FutexIInv, FutexIInv', NEW t \in Callers,
           Futex!Compare(t)
    PROVE  Futex!F!FutexNext
<1>1. PICK a \in Addrs, v \in Values :
         /\ a = futexCall[t].addr /\ v = futexCall[t].value
         /\ futexWord' = futexWord /\ linked' = linked
  BY FieldTypes DEF Futex!Compare, FutexIInv, Futex!TypeOK, Fields
<1>2. futexCall[t].pc = "compare" /\ Futex!AbstractState(t) = "out"
  BY StateNow DEF Futex!Compare
<1>3. CASE futexWord[a] = v
  <2>1. Moves(t, "add")
    BY <1>1, <1>3, Effects
  <2>2. \A u \in Callers : u # t => FutexSame(u)
    BY <1>1, <2>1, OthersSame DEF Moves
  <2>3. Futex!AbstractState(t)' = "waiting" /\ AbstractAddr(t)' = a
    BY <1>1, <2>1, StateNext DEF Moves, AbstractAddr
  <2>4. /\ Fstate' = [Fstate EXCEPT ![t] = "waiting"]
        /\ Faddr' = [Faddr EXCEPT ![t] = a]
        /\ Fstate[t] = "out"
    BY <1>2, <2>2, <2>3, MapMoves
  <2>5. Futex!F!WaitBlocks(t, a, v)
    BY <1>1, <1>3, <2>4 DEF Futex!F!WaitBlocks, Futex!F!Move, Fstate, Faddr,
       AbstractAddr
  <2>6. QED
    BY <2>5 DEF Futex!F!FutexNext
<1>4. CASE futexWord[a] # v
  <2>1. Moves(t, "unlock") /\ futexCall'[t].result = "EWOULDBLOCK"
    BY <1>1, <1>4, Effects
  <2>2. \A u \in Callers : u # t => FutexSame(u)
    BY <1>1, <2>1, OthersSame DEF Moves
  <2>3. Futex!AbstractState(t)' = "EWOULDBLOCK" /\ AbstractAddr(t)' = BadAddr
    BY <2>1, StateNext DEF Moves, AbstractAddr
  <2>4. /\ Fstate' = [Fstate EXCEPT ![t] = "EWOULDBLOCK"]
        /\ Faddr' = Faddr
        /\ Fstate[t] = "out"
    BY <1>2, <2>2, <2>3, MapMoves DEF AbstractAddr
  <2>5. Futex!F!WaitRefused(t, a, v)
    BY <1>1, <1>4, <2>4 DEF Futex!F!WaitRefused, Futex!F!Move, Fstate, Faddr,
       AbstractAddr
  <2>6. QED
    BY <2>5 DEF Futex!F!FutexNext
<1>5. QED
  BY <1>3, <1>4

LEMMA FaultMaps ==
    ASSUME Futex!FutexAssumption, FutexIInv, FutexIInv', NEW t \in Callers,
           Futex!WaitFault(t)
    PROVE  Futex!F!FutexNext
<1>1. futexCall[t].value \in Values /\ futexWord' = futexWord /\ linked' = linked
  BY FieldTypes DEF Futex!WaitFault, FutexIInv, Futex!TypeOK, Fields
<1>2. futexCall[t].pc = "compare" /\ Futex!AbstractState(t) = "out"
  BY StateNow DEF Futex!WaitFault
<1>3. Moves(t, "unlock") /\ futexCall'[t].result = "EFAULT"
  BY Effects
<1>4. \A u \in Callers : u # t => FutexSame(u)
  BY <1>1, <1>3, OthersSame DEF Moves
<1>5. Futex!AbstractState(t)' = "EFAULT" /\ AbstractAddr(t)' = BadAddr
  BY <1>3, StateNext DEF Moves, AbstractAddr
<1>6. /\ Fstate' = [Fstate EXCEPT ![t] = "EFAULT"]
      /\ Faddr' = Faddr
      /\ Fstate[t] = "out"
  BY <1>2, <1>4, <1>5, MapMoves DEF AbstractAddr
<1>7. Futex!F!WaitFaults(t, BadAddr)
  BY <1>1, <1>6 DEF Futex!F!WaitFaults, Futex!F!Move, Fstate, Faddr,
     AbstractAddr
<1>8. QED
  BY <1>1, <1>7 DEF Futex!F!FutexNext

(* Back with the mutex, the thread sees how its wait ended.                *)
LEMMA UnlinkMaps ==
    ASSUME Futex!FutexAssumption, FutexIInv, FutexIInv', NEW t \in Callers,
           Futex!Unlink(t)
    PROVE  Futex!F!FutexNext
<1>1. /\ futexWord' = futexWord /\ futexCall[t].pc = "unlink" /\ mu = t
      /\ linked' = [linked EXCEPT ![t] = FALSE]
      /\ linked \in [Callers -> BOOLEAN]
      /\ futexCall[t].status \in {"ok", "ETIMEDOUT"}
  BY FieldTypes DEF Futex!Unlink, FutexIInv, Futex!TypeOK, Fields,
     FutexSections
<1>2. /\ Moves(t, "unlock")
      /\ futexCall'[t].result = IF linked[t] THEN futexCall[t].status ELSE "ok"
  BY Effects
<1>3. \A u \in Callers : u # t => linked'[u] = linked[u]
  BY <1>1
<1>4. \A u \in Callers : u # t => FutexSame(u)
  BY <1>2, <1>3, OthersSame DEF Moves
<1>5. ~Futex!BeingWoken(t)
  BY <1>1, WokenNow DEF FutexIInv, FutexTaken
<1>6. Futex!AbstractState(t) = IF linked[t] THEN "waiting" ELSE "woken"
  BY <1>1, <1>5, StateNow
<1>7. Futex!AbstractState(t)' = IF linked[t] THEN futexCall[t].status ELSE "ok"
  BY <1>2, StateNext DEF Moves
<1>8. AbstractAddr(t)' = BadAddr
  BY <1>1, <1>7 DEF AbstractAddr
<1>9. /\ Fstate' = [Fstate EXCEPT ![t] = IF linked[t] THEN futexCall[t].status
                                         ELSE "ok"]
      /\ Faddr' = [Faddr EXCEPT ![t] = BadAddr]
      /\ Fstate[t] = IF linked[t] THEN "waiting" ELSE "woken"
  BY <1>4, <1>6, <1>7, <1>8, MapMoves
<1>10. CASE linked[t]
  <2>1. Futex!F!TimeOut(t) \/ Futex!F!WakeSpuriously(t)
    BY <1>1, <1>9, <1>10 DEF Futex!F!TimeOut, Futex!F!WakeSpuriously,
       Futex!F!WaitEnds, Futex!F!Move, Fstate, Faddr, AbstractAddr
  <2>2. QED
    BY <2>1 DEF Futex!F!FutexNext
<1>11. CASE ~linked[t]
  <2>1. Futex!F!WakeUp(t)
    BY <1>1, <1>9, <1>11 DEF Futex!F!WakeUp, Futex!F!WaitEnds, Futex!F!Move,
       Fstate, Faddr, AbstractAddr
  <2>2. QED
    BY <2>1 DEF Futex!F!FutexNext
<1>12. QED
  BY <1>10, <1>11

LEMMA ReturnMaps ==
    ASSUME Futex!FutexAssumption, FutexIInv, FutexIInv', NEW t \in Callers,
           Futex!Unlock(t, "unlock")
    PROVE  Futex!F!FutexNext
<1>1. /\ futexWord' = futexWord /\ linked' = linked /\ futexCall[t].pc = "unlock"
      /\ futexCall[t].result \in {"ok", "EWOULDBLOCK", "ETIMEDOUT", "EFAULT"}
  BY FieldTypes DEF Futex!Unlock, FutexIInv, Futex!TypeOK, Fields,
     FutexSections
<1>2. Only(t) /\ futexCall'[t].pc = "out" /\ futexCall'[t].woken = {}
  BY Effects
<1>3. futexCall[t].woken = {}
  BY <1>1 DEF FutexIInv, FutexTaken
<1>4. \A u \in Callers : u # t => FutexSame(u)
  BY <1>1, <1>2, <1>3, OthersSame
<1>5. /\ Futex!AbstractState(t) = futexCall[t].result /\ AbstractAddr(t) = BadAddr
      /\ Futex!AbstractState(t)' = "out" /\ AbstractAddr(t)' = BadAddr
  BY <1>1, <1>2, StateNow, StateNext DEF AbstractAddr
<1>6. /\ Fstate' = [Fstate EXCEPT ![t] = "out"]
      /\ Faddr' = Faddr
      /\ Fstate[t] = futexCall[t].result
  BY <1>4, <1>5, MapMoves
<1>7. Futex!F!WaitReturn(t)
  BY <1>1, <1>6 DEF Futex!F!WaitReturn, Futex!F!Move, Fstate, Faddr,
     AbstractAddr
<1>8. QED
  BY <1>7 DEF Futex!F!FutexNext

(* The scan takes a thread from the list: until the wake call releases the *)
(* mutex nobody can tell.                                                  *)
LEMMA ScanInvisible ==
    ASSUME Futex!FutexAssumption, FutexIInv, FutexIInv', NEW t \in Callers,
           Futex!ScanWakes(t)
    PROVE  UNCHANGED Futex!F!fvars
<1>1. Takes(t, Futex!Entry(t))
  BY Effects
<1>2. /\ futexWord' = futexWord /\ futexCall[t].pc = "scan"
      /\ linked' = [linked EXCEPT ![Futex!Entry(t)] = FALSE]
      /\ linked \in [Callers -> BOOLEAN]
  BY DEF Futex!ScanWakes, Futex!Scanning, FutexIInv, Futex!TypeOK
<1>3. ASSUME NEW w \in Callers, w = Futex!Entry(t)
      PROVE  /\ FutexSame(w)
             /\ \A u \in Callers : u # w =>
                   (Futex!BeingWoken(u)' <=> Futex!BeingWoken(u))
  <2>1. /\ w # t /\ linked[w] /\ futexCall[w].pc \in {"sleep", "relock"}
        /\ futexCall'[w].pc = "relock" /\ futexCall'[w].addr = futexCall[w].addr
        /\ futexCall'[t].woken = futexCall[t].woken \cup {w}
        /\ futexCall'[w].woken = futexCall[w].woken
        /\ \A u \in Callers : u # t /\ u # w => futexCall'[u] = futexCall[u]
    BY <1>1, <1>3 DEF Takes
  <2>2. Futex!BeingWoken(w)'
    BY <2>1, WokenNext
  <2>3. Futex!AbstractState(w) = "waiting" /\ Futex!AbstractState(w)' = "waiting"
    BY <2>1, <2>2, StateNow, StateNext
  <2>4. ASSUME NEW u \in Callers, u # w
        PROVE  Futex!BeingWoken(u)' <=> Futex!BeingWoken(u)
    <3>1. \A v \in Callers : u \in futexCall'[v].woken <=> u \in futexCall[v].woken
      BY <2>1, <2>4
    <3>2. QED
      BY <3>1, WokenNow, WokenNext
  <2>5. QED
    BY <2>1, <2>3, <2>4 DEF FutexSame, AbstractAddr
<1>4. FutexSame(t)
  <2>1. futexCall'[t].pc = "scan"
    BY <1>1 DEF Takes
  <2>2. Futex!AbstractState(t) = "out" /\ Futex!AbstractState(t)' = "out"
    BY <1>2, <2>1, StateNow, StateNext
  <2>3. QED
    BY <2>2 DEF FutexSame, AbstractAddr
<1>5. ASSUME NEW u \in Callers, u # t, u # Futex!Entry(t)
      PROVE  FutexSame(u)
  <2>1. futexCall'[u] = futexCall[u] /\ linked'[u] = linked[u]
    BY <1>1, <1>2, <1>5 DEF Takes
  <2>2. Futex!BeingWoken(u)' <=> Futex!BeingWoken(u)
    BY <1>1, <1>3, <1>5 DEF Takes
  <2>3. Futex!AbstractState(u)' = Futex!AbstractState(u)
    BY <2>1, <2>2 DEF Futex!AbstractState
  <2>4. QED
    BY <2>1, <2>3 DEF FutexSame, AbstractAddr
<1>6. \A u \in Callers : FutexSame(u)
  BY <1>3, <1>4, <1>5
<1>7. QED
  BY <1>2, <1>6, MapStutters

(* When a wake call releases the mutex it has woken the threads in its     *)
(* set: as many as it was asked to, or all there were.                     *)
LEMMA WakeMaps ==
    ASSUME Futex!FutexAssumption, FutexIInv, FutexIInv', NEW t \in Callers,
           Futex!Unlock(t, "wake_unlock")
    PROVE  /\ futexCall[t].addr \in Addrs
           /\ IsFiniteSet(futexCall[t].woken)
           /\ Cardinality(futexCall[t].woken) \in 0 .. Cardinality(Callers)
           /\ Futex!F!Wake(futexCall[t].addr, Cardinality(futexCall[t].woken))
           /\ Futex!F!Wake(futexCall[t].addr,
                           futexCall[t].nwake + Cardinality(futexCall[t].woken))
<1> DEFINE W == futexCall[t].woken
           a == futexCall[t].addr
           n == Cardinality(W)
<1>1. /\ futexWord' = futexWord /\ linked' = linked /\ futexCall[t].pc = "wake_unlock"
      /\ linked \in [Callers -> BOOLEAN]
      /\ W \subseteq Callers /\ futexCall[t].nwake \in Nat /\ a \in Addrs
      /\ mu = t
  BY FieldTypes DEF Futex!Unlock, FutexIInv, Futex!TypeOK, Fields,
     FutexSections, Futex!FutexAssumption
<1>2. Only(t) /\ futexCall'[t].pc = "out" /\ futexCall'[t].woken = {}
  BY Effects
<1>3. /\ IsFiniteSet(W) /\ n \in Nat /\ n <= Cardinality(Callers)
      /\ Cardinality(Callers) \in Nat
  <2>1. IsFiniteSet(Callers)
    BY DEF Futex!FutexAssumption, Futex!IsFiniteSet, IsFiniteSet
  <2> QED
    BY <1>1, <2>1, FS_Subset, FS_CardinalityType
<1>4. \A v \in Callers : v # t => futexCall[v].woken = {}
  BY <1>1 DEF FutexIInv, FutexTaken, FutexSections
<1>5. \A u \in Callers : (Futex!BeingWoken(u) <=> u \in W) /\ ~Futex!BeingWoken(u)'
  <2>1. \A u \in Callers : Futex!BeingWoken(u) <=> u \in W
    BY <1>4, WokenNow
  <2>2. \A v \in Callers : futexCall'[v].woken = {}
    BY <1>2, <1>4 DEF Only
  <2>3. QED
    BY <2>1, <2>2, WokenNext
<1>6. ASSUME NEW w \in W
      PROVE  /\ w \in Callers
             /\ Futex!AbstractState(w) = "waiting" /\ Futex!AbstractState(w)' = "woken"
             /\ AbstractAddr(w) = a /\ AbstractAddr(w)' = a
  <2>1. /\ w \in Callers /\ futexCall[w].pc = "relock" /\ ~linked[w]
        /\ futexCall[w].addr = a
    BY <1>1 DEF FutexIInv, FutexTaken
  <2>2. w # t /\ futexCall'[w] = futexCall[w] /\ ~linked'[w]
    BY <1>1, <1>2, <2>1 DEF Only
  <2>3. Futex!AbstractState(w) = "waiting" /\ Futex!AbstractState(w)' = "woken"
    BY <1>5, <2>1, <2>2, StateNow, StateNext
  <2>4. QED
    BY <2>1, <2>2, <2>3 DEF AbstractAddr
<1>7. ASSUME NEW u \in Callers, u \notin W
      PROVE  FutexSame(u)
  <2>1. CASE u = t
    <3>1. Futex!AbstractState(t) = "out" /\ Futex!AbstractState(t)' = "out"
      BY <1>1, <1>2, StateNow, StateNext
    <3>2. QED
      BY <2>1, <3>1 DEF FutexSame, AbstractAddr
  <2>2. CASE u # t
    <3>1. /\ futexCall'[u] = futexCall[u] /\ linked'[u] = linked[u]
          /\ ~Futex!BeingWoken(u) /\ ~Futex!BeingWoken(u)'
      BY <1>1, <1>2, <1>5, <1>7, <2>2 DEF Only
    <3>2. Futex!AbstractState(u)' = Futex!AbstractState(u)
      BY <3>1 DEF Futex!AbstractState
    <3>3. QED
      BY <3>1, <3>2 DEF FutexSame, AbstractAddr
  <2>3. QED
    BY <2>1, <2>2
<1>8. /\ Fstate' = [u \in Callers |-> IF u \in W THEN "woken" ELSE Fstate[u]]
      /\ Faddr' = Faddr
  BY <1>6, <1>7 DEF Fstate, Faddr, FutexSame
<1>9. W \in SUBSET Futex!F!WaitersOn(a)
  BY <1>6 DEF Futex!F!WaitersOn, AbstractAddr
<1>10. futexCall[t].nwake = 0 \/ W = Futex!F!WaitersOn(a)
  <2>1. SUFFICES ASSUME futexCall[t].nwake # 0, NEW u \in Futex!F!WaitersOn(a), u \notin W
                 PROVE  FALSE
    BY <1>9
  <2>2. /\ u \in Callers /\ Futex!AbstractState(u) = "waiting"
        /\ futexCall[u].addr = a
    BY DEF Futex!F!WaitersOn
  <2>3. ~Futex!BeingWoken(u)
    BY <1>5, <2>1, <2>2
  <2>4. u # t /\ futexCall[u].pc # "add"
    <3>1. u # t
      BY <1>1, <2>2, StateNow
    <3>2. QED
      BY <1>1, <3>1, <2>2 DEF FutexIInv, FutexSections
  <2>5. futexCall[u].pc \in FutexPC /\ futexCall[u].pc # "unlock"
    BY <1>1, <2>2, <2>4, FieldTypes DEF FutexIInv, Futex!TypeOK, FutexSections,
       Fields
  <2>6. linked[u]
    BY <2>2, <2>3, <2>4, <2>5, StateNow DEF FutexPC
  <2>7. futex_wait_addr[u] = a /\ \E i \in DOMAIN wait_list : wait_list[i] = u
    BY <2>2, <2>6 DEF FutexIInv, Futex!ListConsistent
  <2>8. \A i \in DOMAIN wait_list : futex_wait_addr[wait_list[i]] # a
    <3>1. DOMAIN wait_list = 1 .. Len(wait_list)
      BY DEF FutexIInv, Futex!TypeOK
    <3>2. QED
      BY <1>1, <2>1, <3>1 DEF FutexIInv, FutexScanned, FutexScannedBy
  <2>9. QED
    BY <2>7, <2>8
<1>11. Futex!F!Cardinality(W) = n
  BY DEF Cardinality, Futex!F!Cardinality
<1>12. W \in Futex!F!WakeSet(a, n)
  BY <1>9, <1>11 DEF Futex!F!WakeSet
<1>13. W \in Futex!F!WakeSet(a, futexCall[t].nwake + n)
  <2>1. CASE futexCall[t].nwake = 0
    <3>1. futexCall[t].nwake + n = n
      BY <1>3, <2>1
    <3>2. QED
      BY <1>12, <3>1
  <2>2. CASE futexCall[t].nwake # 0
    <3>1. n < futexCall[t].nwake + n
      BY <1>1, <1>3, <2>2
    <3>2. QED
      BY <1>9, <1>10, <1>11, <2>2, <3>1 DEF Futex!F!WakeSet
  <2>3. QED
    BY <2>1, <2>2
<1> HIDE DEF n
<1>14. \A m : W \in Futex!F!WakeSet(a, m) => Futex!F!Wake(a, m)
  BY <1>1, <1>8 DEF Futex!F!Wake, Futex!F!Woken, Fstate, Faddr, AbstractAddr
<1>15. QED
  BY <1>1, <1>3, <1>12, <1>13, <1>14 DEF n

(* Every step of the implementation is a step of FutexSpec, or invisible   *)
(* there.                                                                  *)
LEMMA StepMaps ==
    ASSUME Futex!FutexAssumption, FutexIInv, FutexIInv',
           [Futex!Next]_(Futex!vars)
    PROVE  Futex!F!FutexNext \/ UNCHANGED Futex!F!fvars
<1>1. ASSUME NEW t \in Callers, NEW a \in Addrs \cup {BadAddr},
             NEW v \in Values, NEW timed \in BOOLEAN,
             Futex!WaitCall(t, a, v, timed)
      PROVE  UNCHANGED Futex!F!fvars
  <2>1. Only(t) /\ futexCall'[t].pc = "wait_lock" /\ futexCall'[t].woken = {}
    BY <1>1, CallBegins DEF FutexIInv
  <2>2. /\ futexCall[t].pc = "out" /\ futexCall[t].woken = {}
        /\ futexWord' = futexWord /\ linked' = linked
    BY <1>1 DEF Futex!WaitCall, Futex!Begin, FutexIInv, FutexTaken
  <2>3. QED
    BY <2>1, <2>2, StateNow, StateNext, Invisible
<1>2. ASSUME NEW t \in Callers, NEW a \in Addrs, NEW n \in 0 .. MaxWake,
             Futex!WakeCall(t, a, n)
      PROVE  UNCHANGED Futex!F!fvars
  <2>1. Only(t) /\ futexCall'[t].pc = "wake_lock" /\ futexCall'[t].woken = {}
    BY <1>2, CallBegins DEF FutexIInv
  <2>2. /\ futexCall[t].pc = "out" /\ futexCall[t].woken = {}
        /\ futexWord' = futexWord /\ linked' = linked
    BY <1>2 DEF Futex!WakeCall, Futex!Begin, FutexIInv, FutexTaken
  <2>3. QED
    BY <2>1, <2>2, StateNow, StateNext, Invisible
<1>3. ASSUME NEW a \in Addrs, NEW v \in Values, Futex!UserStore(a, v)
      PROVE  Futex!F!FutexNext
  <2>1. futexWord' = [futexWord EXCEPT ![a] = v] /\ futexCall' = futexCall /\ linked' = linked
    BY <1>3 DEF Futex!UserStore
  <2>2. \A u \in Callers : Futex!AbstractState(u)' = Futex!AbstractState(u)
    BY <2>1 DEF Futex!AbstractState, Futex!BeingWoken
  <2>3. Futex!F!Store(a, v)
    BY <2>1, <2>2 DEF Futex!F!Store
  <2>4. QED
    BY <2>3 DEF Futex!F!FutexNext
<1>4. ASSUME NEW t \in Callers,
             \/ Futex!Lock(t, "wait_lock", "compare")
             \/ Futex!Lock(t, "wake_lock", "scan")
             \/ Futex!ScanSkips(t) \/ Futex!ScanEnds(t)
      PROVE  UNCHANGED Futex!F!fvars
  <2>1. \E to \in {"compare", "scan", "wake_unlock"} : Moves(t, to)
    BY <1>4, Effects
  <2>2. /\ futexCall[t].pc \in {"wait_lock", "wake_lock", "scan"}
        /\ futexWord' = futexWord /\ linked' = linked
    BY <1>4 DEF Futex!Lock, Futex!ScanSkips, Futex!ScanEnds, Futex!Scanning
  <2>3. QED
    BY <2>1, <2>2, StateNow, StateNext, Invisible DEF Moves
<1>5. ASSUME NEW t \in Callers,
             \/ Futex!SleepTimesOut(t) \/ Futex!SleepEndsSpuriously(t)
             \/ Futex!Lock(t, "relock", "unlink")
      PROVE  UNCHANGED Futex!F!fvars
  <2>1. \E to \in {"relock", "unlink"} : Moves(t, to)
    BY <1>5, Effects
  <2>2. /\ futexCall[t].pc \in {"sleep", "relock"}
        /\ futexWord' = futexWord /\ linked' = linked
    BY <1>5 DEF Futex!Lock, Futex!SleepTimesOut, Futex!SleepEndsSpuriously
  <2>3. Futex!BeingWoken(t)' <=> Futex!BeingWoken(t)
    BY <2>1, <2>2, OthersSame DEF Moves
  <2>4. Futex!AbstractState(t)' = Futex!AbstractState(t)
    BY <2>1, <2>2, <2>3, StateNow, StateNext DEF Moves
  <2>5. QED
    BY <2>1, <2>2, <2>4, Invisible DEF Moves
<1>6. ASSUME NEW t \in Callers, Futex!AddAndSleep(t)
      PROVE  UNCHANGED Futex!F!fvars
  <2>1. Moves(t, "sleep")
    BY <1>6, Effects
  <2>2. /\ futexCall[t].pc = "add" /\ futexWord' = futexWord
        /\ linked \in [Callers -> BOOLEAN]
        /\ linked' = [linked EXCEPT ![t] = TRUE]
    BY <1>6 DEF Futex!AddAndSleep, FutexIInv, Futex!TypeOK
  <2>3. linked'[t] /\ \A u \in Callers : u # t => linked'[u] = linked[u]
    BY <2>2
  <2>4. Futex!AbstractState(t)' = Futex!AbstractState(t)
    BY <2>1, <2>2, <2>3, StateNow, StateNext DEF Moves
  <2>5. QED
    BY <2>1, <2>2, <2>3, <2>4, Invisible DEF Moves
<1>7. ASSUME NEW t \in Callers, Futex!Unlock(t, "wake_unlock")
      PROVE  Futex!F!FutexNext
  <2>1. PICK a \in Addrs, n \in 0 .. Cardinality(Callers) : Futex!F!Wake(a, n)
    BY <1>7, WakeMaps
  <2>2. n \in 0 .. Futex!F!Cardinality(Callers)
    BY DEF Cardinality, Futex!F!Cardinality
  <2>3. QED
    BY <2>1, <2>2 DEF Futex!F!FutexNext
<1>8. CASE UNCHANGED Futex!vars
  BY <1>8 DEF Futex!vars, Futex!F!fvars, Futex!AbstractState, Futex!BeingWoken
<1>9. QED
  BY <1>1, <1>2, <1>3, <1>4, <1>5, <1>6, <1>7, <1>8, CompareMaps, FaultMaps,
     UnlinkMaps, ReturnMaps, ScanInvisible DEF Futex!Next, Futex!WaitStep,
     Futex!WakeStep

(* A step of the futex wakes the oldest waiters, and enough of them.       *)
LEMMA WakesRight ==
    ASSUME Futex!FutexAssumption, FutexIInv, Futex!Next
    PROVE  Futex!WakesFirst /\ Futex!WakesEnough
<1>1. FutexIInv'
  BY FutexInvariantStep
<1>2. Futex!WakesEnough
  BY <1>1, WakeMaps DEF Futex!WakesEnough, Futex!Cardinality, Cardinality
<1>3. QED
  BY <1>2, OldestFirst

LEMMA InitMaps ==
    ASSUME Futex!FutexAssumption, Futex!Init
    PROVE  Futex!F!FutexInit
<1>1. \A t \in Callers : Futex!AbstractState(t) = "out"
  BY DEF Futex!Init, Futex!NoCall, Futex!AbstractState
<1>2. QED
  BY <1>1 DEF Futex!Init, Futex!F!FutexInit

(* The futex of the service runtime keeps the promise of FutexSpec: no     *)
(* wake-up is lost between the comparison and the wait, a thread reports a *)
(* timeout only if no wake-up chose it, wake-ups go to the oldest waiters, *)
(* and to as many as were asked for or all there are.                      *)
THEOREM FutexAlwaysImplementsSpec ==
    ASSUME Futex!FutexAssumption
    PROVE  Futex!Spec => Futex!FutexImplementsSpec
<1>1. Futex!Init => Futex!F!FutexInit
  BY InitMaps
<1>2. FutexIInv /\ FutexIInv' /\ [Futex!Next]_(Futex!vars) => [Futex!F!FutexNext]_(Futex!F!fvars)
  BY StepMaps
<1>3. FutexIInv /\ [Futex!Next]_(Futex!vars) => [Futex!WakesFirst /\ Futex!WakesEnough]_(Futex!vars)
  BY WakesRight
<1>4. FutexIInv => Futex!TypeOK /\ Futex!ListConsistent
  BY DEF FutexIInv
<1>5. Futex!Spec => []FutexIInv
  BY FutexInvariance
<1>6. QED
  BY <1>1, <1>2, <1>3, <1>4, <1>5, PTL DEF Futex!Spec,
     Futex!FutexImplementsSpec, Futex!F!FutexSafety

-----------------------------------------------------------------------------
(* The synchronisation objects side by side, as module MCSync runs them.   *)
(* The futex and the semaphore make steps of their own specification or    *)
(* none.                                                                   *)
LEMMA FutexRuns == SyncSpec => Futex!Spec
<1>1. SyncInit => Futex!Init
  BY DEF SyncInit
<1>2. [SyncNext]_syncVars => [Futex!Next]_(Futex!vars)
  BY DEF SyncNext, Rest, syncVars, futexVars, Futex!vars
<1>3. QED
  BY <1>1, <1>2, PTL DEF SyncSpec, Futex!Spec

LEMMA SemRuns == SyncSpec => Sem!Spec
<1>1. SyncInit => Sem!Init
  BY DEF SyncInit
<1>2. [SyncNext]_syncVars => [Sem!Next]_(Sem!vars)
  BY DEF SyncNext, Rest, syncVars, semVars, Sem!vars, Sem!futex
<1>3. QED
  BY <1>1, <1>2, PTL DEF SyncSpec, Sem!Spec

(* The rwlock is the one with all calls or the one without timed writers,  *)
(* and stays that.                                                         *)
LockInv ==
    /\ subject = "rwlock" => RwLock!IInv
    /\ subject = "readers" => Readers!IInv

LEMMA LockInvariant == SyncSpec => []LockInv
<1>1. SyncInit => LockInv
  BY RwLock!Initially, Readers!Initially, MCSyncAssumption
     DEF SyncInit, LockInv
<1>2. LockInv /\ [SyncNext]_syncVars => LockInv'
  <2> SUFFICES ASSUME LockInv, [SyncNext]_syncVars PROVE LockInv'
    OBVIOUS
  <2>1. subject' = subject
    BY DEF SyncNext, Rest, syncVars
  <2>2. CASE subject = "rwlock"
    <3>1. [RwLock!Next]_(RwLock!vars)
      BY <2>2 DEF SyncNext, Rest, syncVars, rwVars, RwLock!vars,
                  RwLock!futex, RwLock!fields, RwLock!local, RwLock!held
    <3>2. QED
      BY <2>1, <2>2, <3>1, RwLock!InvariantStep, MCSyncAssumption
         DEF LockInv
  <2>3. CASE subject = "readers"
    <3>1. [Readers!Next]_(Readers!vars)
      BY <2>3 DEF SyncNext, Rest, syncVars, rwVars, Readers!vars,
                  Readers!futex, Readers!fields, Readers!local, Readers!held
    <3>2. QED
      BY <2>1, <2>3, <3>1, Readers!InvariantStep, MCSyncAssumption
         DEF LockInv
  <2>4. QED
    BY <2>1, <2>2, <2>3 DEF LockInv
<1>3. QED
  BY <1>1, <1>2, PTL DEF SyncSpec

(* The semaphore (nc_semaphore.c) keeps its promise beside the others, for *)
(* any threads and any SEM_VALUE_MAX that MCSyncAssumption admits.         *)
THEOREM SemaphoreCorrectInSystem == SyncSpec => []SemaphoreCorrect
<1>1. Sem!Spec => []Sem!SemaphoreCorrect
  BY SemaphoreAlwaysCorrect, MCSyncAssumption
<1>2. Sem!SemaphoreCorrect => SemaphoreCorrect
  BY DEF SemaphoreCorrect
<1>3. QED
  BY <1>1, <1>2, SemRuns, PTL

(* The reader-writer lock (nc_rwlock.c, nc_condvar.c) keeps its promise,   *)
(* with timed writers and without.                                         *)
THEOREM RwLockCorrectInSystem == SyncSpec => []RwLockCorrect
<1>1. LockInv => RwLockCorrect
  BY RwLock!InvariantSuffices, Readers!InvariantSuffices
     DEF LockInv, RwLockCorrect
<1>2. QED
  BY <1>1, LockInvariant, PTL

(* The wait list of the service runtime (sys_futex.c) implements the       *)
(* atomic futex on which the models of the other objects rest.             *)
THEOREM FutexCorrectInSystem == SyncSpec => FutexImplementsSpec
<1>1. SyncSpec => []FutexIInv /\ Futex!FutexImplementsSpec
  BY FutexRuns, FutexInvariance, FutexAlwaysImplementsSpec,
     MCSyncAssumption, PTL
<1>2. FutexIInv /\ [SyncNext]_syncVars =>
        [subject = "futex" => Futex!WakesFirst /\ Futex!WakesEnough]_syncVars
  BY WakesRight, MCSyncAssumption DEF SyncNext, Rest
<1>3. Futex!F!FutexSafety /\ [][SyncNext]_syncVars =>
        [][subject = "futex" =>
             UNCHANGED Futex!F!fvars \/ Futex!F!FutexNext]_syncVars
  BY PTL DEF Futex!F!FutexSafety
<1>4. FutexIInv => Futex!TypeOK /\ Futex!ListConsistent
  BY DEF FutexIInv
<1>5. QED
  BY <1>1, <1>2, <1>3, <1>4, PTL
     DEF SyncSpec, FutexImplementsSpec, Futex!FutexImplementsSpec,
         Futex!F!FutexSafety
=============================================================================
