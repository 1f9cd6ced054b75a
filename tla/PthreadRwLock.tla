---------------------------- MODULE PthreadRwLock ----------------------------
(***************************************************************************)
(* The reader-writer lock (nc_rwlock.c) and the condition variables        *)
(* (nc_condvar.c) of the pthread library for sandboxed code.               *)
(*                                                                         *)
(* A condition variable is a sequence number that signal and broadcast     *)
(* increment and on which waiters sleep as a futex (FutexSpec): a waiter   *)
(* reads the number while it holds the mutex, releases the mutex and then  *)
(* asks the futex to wait if the number is still the same.  The mutex of   *)
(* the rwlock is taken and released in one step each (module PthreadMutex  *)
(* is about how it does that); what a thread does to the fields while it   *)
(* holds the mutex is one step, up to the next call of the futex.          *)
(*                                                                         *)
(* The sequence number has 32 bits in the code, which its comment (lines   *)
(* 26-31) accepts as a remote source of missed wake-ups; here it does not  *)
(* wrap.                                                                   *)
(***************************************************************************)
EXTENDS Naturals, FiniteSets

CONSTANTS
    Threads,    \* threads of sandboxed code
    NoThread,   \* NACL_PTHREAD_ILLEGAL_THREAD_ID, and the mutex being free
    Elsewhere,  \* threads that hold a read lock of another rwlock
    Calls,      \* the calls threads make
    Spurious,   \* may a wait on the futex end without a wake-up?
    MaxOps      \* bound: lock calls of one thread

ReadCall == {"rdlock", "tryrdlock", "timedrdlock"}
WriteCall == {"wrlock", "trywrlock", "timedwrlock"}
Timed == {"timedrdlock", "timedwrlock"}
TryOnly == {"tryrdlock", "trywrlock"}

RwLockAssumption ==
    /\ IsFiniteSet(Threads)
    /\ NoThread \notin Threads
    /\ Elsewhere \subseteq Threads
    /\ Calls \subseteq ReadCall \cup WriteCall
    /\ Spurious \in BOOLEAN
    /\ MaxOps \in Nat

Conds == {"read_possible", "write_possible"}

VARIABLES
    mutex,                \* the holder of rwlock->mutex
    word,                 \* word[c]: sequence_number of condition c
    fstate, faddr,        \* the state of the futex, see FutexSpec
    writer_thread_id,     \* rwlock->writer_thread_id
    writers_waiting,      \* rwlock->writers_waiting
    reader_count,         \* rwlock->reader_count
    thread_rdlock_count,  \* the thread-local count of read locks
    pc,                   \* pc[t]: where t is in a call; "out": in none
    call,                 \* call[t]: the call t is in
    old_value,            \* old_value[t] of pthread_cond_timedwait_abs
    status,               \* status[t]: what the wait on the condition gave
    reads,                \* reads[t]: read locks t was granted and still has
    writes,               \* writes[t]: does t have the write lock?
    ops                   \* ops[t]: lock calls t has made

futex == <<word, fstate, faddr>>
fields == <<writer_thread_id, writers_waiting, reader_count,
            thread_rdlock_count>>
local == <<call, old_value, status>>
held == <<reads, writes>>
vars == <<mutex, futex, fields, pc, local, held, ops>>

NoAddr == "none"

Fx == INSTANCE FutexSpec WITH
        Addrs <- Conds, BadAddr <- NoAddr, Values <- Nat

CondOf(t) ==
    IF call[t] \in ReadCall THEN "read_possible" ELSE "write_possible"

TypeOK ==
    /\ mutex \in Threads \cup {NoThread}
    /\ Fx!FutexTypeOK
    /\ writer_thread_id \in Threads \cup {NoThread}
    /\ writers_waiting \in Nat
    /\ reader_count \in Nat
    /\ thread_rdlock_count \in [Threads -> Nat]
    /\ pc \in [Threads -> {"out", "lock", "test", "wait", "sleep", "relock",
                           "give_up", "release", "wake_writer",
                           "wake_readers", "unlock"}]
    /\ call \in [Threads -> ReadCall \cup WriteCall \cup {"unlock"}]
    /\ old_value \in [Threads -> Nat]
    /\ status \in [Threads -> {"ok", "ETIMEDOUT"}]
    /\ reads \in [Threads -> Nat]
    /\ writes \in [Threads -> BOOLEAN]
    /\ ops \in [Threads -> 0 .. MaxOps]

(* pthread_rwlock_init.                                                    *)
Init ==
    /\ mutex = NoThread
    /\ word = [c \in Conds |-> 0]
    /\ fstate = [t \in Threads |-> "out"]
    /\ faddr = [t \in Threads |-> NoAddr]
    /\ writer_thread_id = NoThread
    /\ writers_waiting = 0
    /\ reader_count = 0
    /\ thread_rdlock_count = [t \in Threads |-> IF t \in Elsewhere
                                                THEN 1 ELSE 0]
    /\ pc = [t \in Threads |-> "out"]
    /\ call = [t \in Threads |-> "unlock"]
    /\ old_value = [t \in Threads |-> 0]
    /\ status = [t \in Threads |-> "ok"]
    /\ reads = [t \in Threads |-> 0]
    /\ writes = [t \in Threads |-> FALSE]
    /\ ops = [t \in Threads |-> 0]

Go(t, to) == pc' = [pc EXCEPT ![t] = to]
Reads(t, n) == reads' = [reads EXCEPT ![t] = n] /\ UNCHANGED writes
Writes(t, b) == writes' = [writes EXCEPT ![t] = b] /\ UNCHANGED reads
Has(t) == reads[t] > 0 \/ writes[t]

-----------------------------------------------------------------------------
(* The calls.  A thread that has a lock asks only for what cannot make it  *)
(* wait for itself, and a thread unlocks what it has locked.               *)
LockCall(t, c) ==
    /\ pc[t] = "out"
    /\ ops[t] < MaxOps
    /\ ~Has(t) \/ c \in TryOnly \/ (~writes[t] /\ c \in ReadCall)
    /\ ops' = [ops EXCEPT ![t] = @ + 1]
    /\ call' = [call EXCEPT ![t] = c]
    /\ Go(t, "lock")
    /\ UNCHANGED <<mutex, futex, fields, old_value, status, held>>

UnlockCall(t) ==
    /\ pc[t] = "out"
    /\ Has(t)
    /\ call' = [call EXCEPT ![t] = "unlock"]
    /\ Go(t, "lock")
    /\ UNCHANGED <<mutex, futex, fields, old_value, status, held, ops>>

LockMutex(t) ==
    /\ pc[t] = "lock"
    /\ mutex = NoThread
    /\ mutex' = t
    /\ Go(t, IF call[t] = "unlock" THEN "release" ELSE "test")
    /\ UNCHANGED <<futex, fields, local, held, ops>>

(* The mutex is released and the call returns.                             *)
UnlockAndReturn(t) ==
    /\ mutex' = NoThread
    /\ Go(t, "out")

-----------------------------------------------------------------------------
(* rdlock_internal and rwlock_internal.                                    *)

(* A slip: a waiting writer holds back even threads that read already.     *)
read_lock_available_strict(t) ==
    /\ writer_thread_id = NoThread
    /\ writers_waiting = 0

read_lock_available(t) ==
    /\ writer_thread_id = NoThread
    /\ writers_waiting = 0 \/ thread_rdlock_count[t] > 0

write_lock_available ==
    /\ writer_thread_id = NoThread
    /\ reader_count = 0

Available(t) ==
    IF call[t] \in ReadCall THEN read_lock_available(t)
                            ELSE write_lock_available

TakeReadLock(t) ==
    /\ pc[t] = "test"
    /\ call[t] \in ReadCall
    /\ read_lock_available(t)
    /\ reader_count' = reader_count + 1
    /\ thread_rdlock_count' = [thread_rdlock_count EXCEPT ![t] = @ + 1]
    /\ Reads(t, reads[t] + 1)
    /\ UnlockAndReturn(t)
    /\ UNCHANGED <<futex, writer_thread_id, writers_waiting, local, ops>>

TakeWriteLock(t) ==
    /\ pc[t] = "test"
    /\ call[t] \in WriteCall
    /\ write_lock_available
    /\ writer_thread_id' = t
    /\ Writes(t, TRUE)
    /\ UnlockAndReturn(t)
    /\ UNCHANGED <<futex, writers_waiting, reader_count, thread_rdlock_count,
                   local, ops>>

Busy(t) ==
    /\ pc[t] = "test"
    /\ ~Available(t)
    /\ call[t] \in TryOnly
    /\ UnlockAndReturn(t)
    /\ UNCHANGED <<futex, fields, local, held, ops>>

(* A writer counts itself as waiting; then pthread_cond_timedwait_abs      *)
(* reads the sequence number and releases the mutex.                       *)
CondWait(t) ==
    /\ pc[t] = "test"
    /\ ~Available(t)
    /\ call[t] \notin TryOnly
    /\ writers_waiting' = IF call[t] \in WriteCall
                          THEN writers_waiting + 1 ELSE writers_waiting
    /\ old_value' = [old_value EXCEPT ![t] = word[CondOf(t)]]
    /\ mutex' = NoThread
    /\ Go(t, "wait")
    /\ UNCHANGED <<futex, writer_thread_id, reader_count,
                   thread_rdlock_count, call, status, held, ops>>

CondSleep(t) ==
    /\ pc[t] = "wait"
    /\ \/ Fx!WaitBlocks(t, CondOf(t), old_value[t])
       \/ Fx!WaitRefused(t, CondOf(t), old_value[t])
       \/ call[t] \in Timed /\ Fx!WaitTooLate(t)
    /\ Go(t, "sleep")
    /\ UNCHANGED <<mutex, fields, local, held, ops>>

(* Inside the futex call.                                                  *)
FutexEnds(t) ==
    /\ pc[t] = "sleep"
    /\ \/ call[t] \in Timed /\ Fx!TimeOut(t)
       \/ Spurious /\ Fx!WakeSpuriously(t)
    /\ UNCHANGED <<mutex, fields, pc, local, held, ops>>

FutexWakes(t) ==
    /\ pc[t] = "sleep"
    /\ Fx!WakeUp(t)
    /\ UNCHANGED <<mutex, fields, pc, local, held, ops>>

(* EWOULDBLOCK counts as a wake-up.                                        *)
CondWoken(t) ==
    /\ pc[t] = "sleep"
    /\ Fx!WaitReturn(t)
    /\ status' = [status EXCEPT ![t] = IF fstate[t] = "ETIMEDOUT"
                                       THEN "ETIMEDOUT" ELSE "ok"]
    /\ Go(t, "relock")
    /\ UNCHANGED <<mutex, fields, call, old_value, held, ops>>

(* The mutex is taken again, a writer is no longer counted as waiting, and *)
(* the loop goes on or, after a timeout, ends.                             *)
CondRelock(t) ==
    /\ pc[t] = "relock"
    /\ mutex = NoThread
    /\ mutex' = t
    /\ writers_waiting' = IF call[t] \in WriteCall
                          THEN writers_waiting - 1 ELSE writers_waiting
    /\ Go(t, IF status[t] = "ETIMEDOUT" THEN "give_up" ELSE "test")
    /\ UNCHANGED <<futex, writer_thread_id, reader_count,
                   thread_rdlock_count, local, held, ops>>

GiveUp(t) ==
    /\ pc[t] = "give_up"
    /\ UnlockAndReturn(t)
    /\ UNCHANGED <<futex, fields, local, held, ops>>

-----------------------------------------------------------------------------
(* pthread_rwlock_unlock, and pulse of nc_condvar.c.                       *)

(* fetch_and_add on the sequence number of c; the wake call is next.       *)
Pulse(t, c) ==
    /\ word' = [word EXCEPT ![c] = @ + 1]
    /\ Go(t, IF c = "write_possible" THEN "wake_writer" ELSE "wake_readers")

(* A slip: readers are woken even if a writer waits, and the writer not.   *)
ReleaseWriteToReaders(t) ==
    /\ pc[t] = "release"
    /\ writer_thread_id = t
    /\ writer_thread_id' = NoThread
    /\ Pulse(t, "read_possible")
    /\ Writes(t, FALSE)
    /\ UNCHANGED <<mutex, fstate, faddr, writers_waiting, reader_count,
                   thread_rdlock_count, local, ops>>

(* A slip: only a writer is woken.                                         *)
ReleaseWriteToWriter(t) ==
    /\ pc[t] = "release"
    /\ writer_thread_id = t
    /\ writer_thread_id' = NoThread
    /\ Pulse(t, "write_possible")
    /\ Writes(t, FALSE)
    /\ UNCHANGED <<mutex, fstate, faddr, writers_waiting, reader_count,
                   thread_rdlock_count, local, ops>>

ReleaseWrite(t) ==
    /\ pc[t] = "release"
    /\ writer_thread_id = t
    /\ writer_thread_id' = NoThread
    /\ Pulse(t, IF writers_waiting > 0
                THEN "write_possible" ELSE "read_possible")
    /\ Writes(t, FALSE)
    /\ UNCHANGED <<mutex, fstate, faddr, writers_waiting, reader_count,
                   thread_rdlock_count, local, ops>>

(* A slip: every reader that leaves wakes a writer, before the last one.   *)
ReleaseReadUncounted(t) ==
    /\ pc[t] = "release"
    /\ writer_thread_id = NoThread
    /\ thread_rdlock_count' = [thread_rdlock_count EXCEPT ![t] = @ - 1]
    /\ reader_count' = 0
    /\ IF writers_waiting > 0
       THEN Pulse(t, "write_possible")
       ELSE Go(t, "unlock") /\ UNCHANGED word
    /\ Reads(t, reads[t] - 1)
    /\ UNCHANGED <<mutex, fstate, faddr, writer_thread_id, writers_waiting,
                   local, ops>>

ReleaseRead(t) ==
    /\ pc[t] = "release"
    /\ writer_thread_id = NoThread
    /\ reader_count' = reader_count - 1
    /\ thread_rdlock_count' = [thread_rdlock_count EXCEPT ![t] = @ - 1]
    /\ IF reader_count = 1 /\ writers_waiting > 0
       THEN Pulse(t, "write_possible")
       ELSE Go(t, "unlock") /\ UNCHANGED word
    /\ Reads(t, reads[t] - 1)
    /\ UNCHANGED <<mutex, fstate, faddr, writer_thread_id, writers_waiting,
                   local, ops>>

(* futex_wake with a count of 1 for signal and of INT_MAX for broadcast,   *)
(* after which the mutex is released.                                      *)
WakeAndReturn(t) ==
    /\ \/ pc[t] = "wake_writer" /\ Fx!Wake("write_possible", 1)
       \/ pc[t] = "wake_readers"
          /\ Fx!Wake("read_possible", Cardinality(Threads))
    /\ UnlockAndReturn(t)
    /\ UNCHANGED <<fields, local, held, ops>>

JustReturn(t) ==
    /\ pc[t] = "unlock"
    /\ UnlockAndReturn(t)
    /\ UNCHANGED <<futex, fields, local, held, ops>>

-----------------------------------------------------------------------------
Step(t) ==
    \/ LockMutex(t) \/ TakeReadLock(t) \/ TakeWriteLock(t) \/ Busy(t)
    \/ CondWait(t) \/ CondSleep(t) \/ FutexWakes(t) \/ CondWoken(t)
    \/ CondRelock(t) \/ GiveUp(t) \/ ReleaseWrite(t) \/ ReleaseRead(t)
    \/ WakeAndReturn(t) \/ JustReturn(t)

Finished ==
    /\ \A t \in Threads : pc[t] = "out" /\ ~Has(t) /\ ops[t] = MaxOps
    /\ UNCHANGED vars

Next ==
    \/ \E t \in Threads :
        \/ \E c \in Calls : LockCall(t, c)
        \/ UnlockCall(t)
        \/ Step(t)
        \/ FutexEnds(t)
    \/ Finished

Spec == Init /\ [][Next]_vars

-----------------------------------------------------------------------------
Pending(t) == pc[t] \in {"wait", "sleep", "relock"}
WaitingWriters == {t \in Threads : Pending(t) /\ call[t] \in WriteCall}

(* The read locks threads have: the first of t, its second, ...            *)
ReadLocks == UNION {{t} \X (1 .. reads[t]) : t \in Threads}

(* Outside the mutex the fields tell the truth: a writer excludes all      *)
(* others, reader_count is the number of read locks threads have,          *)
(* thread_rdlock_count each thread's own share of it, and writers_waiting  *)
(* the number of writers that wait.                                        *)
LockCorrect ==
    /\ \A t, u \in Threads : writes[t] /\ Has(u) => t = u /\ reads[t] = 0
    /\ \A t \in Threads : writes[t] <=> writer_thread_id = t
    /\ reader_count = Cardinality(ReadLocks)
    /\ \A t \in Threads : thread_rdlock_count[t] =
          reads[t] + (IF t \in Elsewhere THEN 1 ELSE 0)
    /\ writers_waiting = Cardinality(WaitingWriters)

(* A thread that will look at the lock again, or is about to wake others.  *)
Active(t, calls) ==
    \/ pc[t] \in {"lock", "test", "relock"} /\ call[t] \in calls
    \/ /\ pc[t] \in {"wait", "sleep"}
       /\ call[t] \in calls
       /\ fstate[t] # "waiting"
       /\ pc[t] = "wait" => old_value[t] # word[CondOf(t)]
       /\ fstate[t] # "ETIMEDOUT"

Sleeping(calls) ==
    \E t \in Threads : fstate[t] = "waiting" /\ call[t] \in calls

(* A writer never sleeps while the lock is free, unless a wake-up is under *)
(* way or another writer is about to take the lock.                        *)
WriterNotStranded ==
    Sleeping(WriteCall) =>
        \/ ~write_lock_available
        \/ \E t \in Threads : pc[t] \in {"release", "wake_writer"}
        \/ \E t \in Threads : Active(t, WriteCall)

(* A reader sleeps only while a writer has the lock or waits for it        *)
(* ("preventing readers from acquiring the lock while there are waiting    *)
(* writers", nc_rwlock.c:11-12), or until a wake-up under way reaches it.  *)
ReaderNotStranded ==
    Sleeping(ReadCall) =>
        \/ writer_thread_id # NoThread
        \/ writers_waiting > 0
        \/ \E t \in Threads : pc[t] \in {"release", "wake_readers"}
        \/ \E t \in Threads : Active(t, WriteCall)

(* What the rwlock promises (nc_rwlock.c), whatever calls time out or      *)
(* fail; a writer that gives up may leave readers asleep.                  *)
RwLockCorrect ==
    /\ TypeOK
    /\ LockCorrect
    /\ WriterNotStranded
    /\ "timedwrlock" \notin Calls => ReaderNotStranded

=============================================================================
