------------------------------- MODULE MCSync -------------------------------
(***************************************************************************)
(* The synchronisation objects of sandboxed code, for TLC: the mutex       *)
(* (PthreadMutex, the variables this module extends), the futex of the     *)
(* service runtime they all rest on (Futex), the read-write lock with all  *)
(* calls (RwLock) and without timed writers (Readers), and the semaphore   *)
(* (Sem).  No state is shared between these objects; subject names the one *)
(* a behaviour is about, and the others stay where they start.             *)
(***************************************************************************)
EXTENDS PthreadMutex, TLC

CONSTANTS
    Callers,                   \* threads that use one of the other objects
    Addrs, BadAddr, Values, MaxWake, MaxCalls,
    RwThreads, Elsewhere, RwCalls, ReadersCalls,
    SEM_VALUE_MAX, Initial, SemCalls

VARIABLES
    subject,
    futexWord, mu, wait_list, futex_wait_addr, linked, futexCall, calls,
    rwMutex, rwWord, rwFstate, rwFaddr, writer_thread_id, writers_waiting,
    reader_count, thread_rdlock_count, rwPc, rwCall, rwOld, status, reads,
    writes, rwOps,
    semWord, semFstate, semFaddr, nwaiters, semPc, semCall, counted, semOld,
    posted, taken, semOps

Futex == INSTANCE Futex WITH
    Threads <- Callers, word <- futexWord, call <- futexCall

RwLock == INSTANCE PthreadRwLockProofs WITH
    Threads <- RwThreads, Calls <- RwCalls, Spurious <- TRUE, MaxOps <- 1,
    mutex <- rwMutex, word <- rwWord, fstate <- rwFstate, faddr <- rwFaddr,
    pc <- rwPc, call <- rwCall, old_value <- rwOld, ops <- rwOps

Readers == INSTANCE PthreadRwLockProofs WITH
    Threads <- Callers, Elsewhere <- {}, Calls <- ReadersCalls,
    Spurious <- FALSE, MaxOps <- 2,
    mutex <- rwMutex, word <- rwWord, fstate <- rwFstate, faddr <- rwFaddr,
    pc <- rwPc, call <- rwCall, old_value <- rwOld, ops <- rwOps

Sem == INSTANCE PthreadSemaphore WITH
    Threads <- Callers, MaxOps <- SemCalls,
    word <- semWord, fstate <- semFstate, faddr <- semFaddr,
    pc <- semPc, call <- semCall, old_value <- semOld, ops <- semOps

ASSUME MCSyncAssumption ==
    /\ Futex!FutexAssumption
    /\ RwLock!RwLockAssumption /\ Readers!RwLockAssumption
    /\ Sem!SemaphoreAssumption

futexVars == <<futexWord, mu, wait_list, futex_wait_addr, linked, futexCall,
               calls>>
rwVars == <<rwMutex, rwWord, rwFstate, rwFaddr, writer_thread_id,
            writers_waiting, reader_count, thread_rdlock_count, rwPc, rwCall,
            rwOld, status, reads, writes, rwOps>>
semVars == <<semWord, semFstate, semFaddr, nwaiters, semPc, semCall, counted,
             semOld, posted, taken, semOps>>
syncVars == <<subject, vars, futexVars, rwVars, semVars>>

SyncInit ==
    /\ subject \in {"mutex", "futex", "rwlock", "readers", "semaphore"}
    /\ Init /\ (subject # "mutex" => mutex_type = "FAST")
    /\ Futex!Init
    /\ subject # "futex" => futexWord = [a \in Addrs |-> 0]
    /\ IF subject = "readers" THEN Readers!Init ELSE RwLock!Init
    /\ Sem!Init

(* A thread may wait on a futex or a semaphore for ever.                   *)
Rest == subject \in {"futex", "semaphore"} /\ UNCHANGED syncVars

SyncNext ==
    \/ /\ subject = "mutex" /\ Next
       /\ UNCHANGED <<subject, futexVars, rwVars, semVars>>
    \/ /\ subject = "futex" /\ Futex!Next
       /\ UNCHANGED <<subject, vars, rwVars, semVars>>
    \/ /\ subject = "rwlock" /\ RwLock!Next
       /\ UNCHANGED <<subject, vars, futexVars, semVars>>
    \/ /\ subject = "readers" /\ Readers!Next
       /\ UNCHANGED <<subject, vars, futexVars, semVars>>
    \/ /\ subject = "semaphore" /\ Sem!Next
       /\ UNCHANGED <<subject, vars, futexVars, rwVars>>
    \/ Rest

SyncSpec == SyncInit /\ [][SyncNext]_syncVars

(* Threads that differ in nothing are interchangeable, and so are          *)
(* addresses.                                                              *)
Symmetry == Permutations(Callers) \cup Permutations(Addrs)

-----------------------------------------------------------------------------
(* The futex of the service runtime (sys_futex.c) keeps the promise of     *)
(* FutexSpec, on which the models of the synchronisation objects rest: a   *)
(* wait that a wake-up has ended never reports a timeout, and no wake-up   *)
(* falls between the comparison and the wait.  Its list holds exactly the  *)
(* threads that wait, and it wakes them in the order in which they came,   *)
(* as many as it was asked to.                                             *)
FutexImplementsSpec ==
    /\ Futex!F!FutexInit
    /\ [](subject = "futex" => Futex!TypeOK /\ Futex!ListConsistent)
    /\ [][subject = "futex" =>
            /\ Futex!WakesFirst /\ Futex!WakesEnough
            /\ UNCHANGED Futex!F!fvars \/ Futex!F!FutexNext]_syncVars

(* The read-write lock (nc_rwlock.c, nc_condvar.c): a writer excludes all  *)
(* others and the counters tell the truth, whatever calls time out or      *)
(* fail; a writer never sleeps next to a free lock unless somebody is on   *)
(* the way to wake it or to take the lock; and if no writer gives up, a    *)
(* reader sleeps only while a writer has the lock or waits for it, or      *)
(* until a wake-up under way reaches it.                                   *)
RwLockCorrect ==
    /\ subject = "rwlock" => RwLock!RwLockCorrect
    /\ subject = "readers" => Readers!RwLockCorrect

(* The semaphore (nc_semaphore.c): the count stays within SEM_VALUE_MAX,   *)
(* every unit posted is taken once or still there, and while anybody       *)
(* sleeps, as many threads are on their way as there are units, although   *)
(* sem_post wakes only if it sees waiters.                                 *)
SemaphoreCorrect == subject = "semaphore" => Sem!SemaphoreCorrect
=============================================================================
