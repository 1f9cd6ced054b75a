---------------------------- MODULE PthreadMutex ----------------------------
(***************************************************************************)
(* The mutex of the pthread library for sandboxed code (nc_mutex.c): a     *)
(* word that is UNLOCKED, LOCKED_WITHOUT_WAITERS or LOCKED_WITH_WAITERS,   *)
(* changed with atomic operations, on which threads wait as a futex.  The  *)
(* futex is that of FutexSpec: its waits may end spuriously and race with  *)
(* their timeouts.  One step is one access to memory that other threads    *)
(* read or write.                                                          *)
(*                                                                         *)
(* Threads call pthread_mutex_lock, _trylock, _timedlock (with a good or a *)
(* bad time) and _unlock as the mutex type allows: a thread does not wait  *)
(* for a FAST mutex it holds, and unlocks a FAST or RECURSIVE mutex only   *)
(* if it holds it.                                                         *)
(***************************************************************************)
EXTENDS Naturals, FiniteSets

CONSTANTS
    Threads,    \* threads of sandboxed code
    NoThread,   \* NACL_PTHREAD_ILLEGAL_THREAD_ID
    Types,      \* mutex types to consider
    MaxOps      \* bound: calls of one thread, not counting its releases

Type == {"FAST", "RECURSIVE", "ERRORCHECK"}

ASSUME MutexAssumption ==
    /\ IsFiniteSet(Threads)
    /\ NoThread \notin Threads
    /\ Types \subseteq Type
    /\ MaxOps \in Nat

UNLOCKED == 0
LOCKED_WITHOUT_WAITERS == 1
LOCKED_WITH_WAITERS == 2
MutexState == {UNLOCKED, LOCKED_WITHOUT_WAITERS, LOCKED_WITH_WAITERS}

VARIABLES
    mutex_type,          \* mutex->mutex_type
    word,                \* word["mutex"] is mutex->mutex_state
    fstate, faddr,       \* the state of the futex, see FutexSpec
    owner_thread_id,     \* mutex->owner_thread_id
    recursion_counter,   \* mutex->recursion_counter
    pc,                  \* pc[t]: where t is in a call; "out": in none
    mode,                \* mode[t]: how t locks
    old_state,           \* old_state[t]: its local variable
    depth,               \* depth[t]: locks t has been granted and not released
    ops                  \* ops[t]: calls t has made

futex == <<word, fstate, faddr>>
owner == <<owner_thread_id, recursion_counter>>
vars == <<mutex_type, futex, owner, pc, mode, old_state, depth, ops>>

NoAddr == "none"

Fx == INSTANCE FutexSpec WITH
        Addrs <- {"mutex"}, BadAddr <- NoAddr, Values <- MutexState

mutex_state == word["mutex"]

Mode == {"lock", "trylock", "timedlock", "badtime"}

PC == {"out", "owner", "cas", "mark", "wait", "sleep", "retry", "got",
       "clear", "sub", "store", "wake"}

TypeOK ==
    /\ mutex_type \in Types
    /\ Fx!FutexTypeOK
    /\ owner_thread_id \in Threads \cup {NoThread}
    /\ recursion_counter \in Nat
    /\ pc \in [Threads -> PC]
    /\ mode \in [Threads -> Mode]
    /\ old_state \in [Threads -> MutexState]
    /\ depth \in [Threads -> Nat]
    /\ ops \in [Threads -> 0 .. MaxOps]

(* pthread_mutex_init.                                                     *)
Init ==
    /\ mutex_type \in Types
    /\ word = [a \in {"mutex"} |-> UNLOCKED]
    /\ fstate = [t \in Threads |-> "out"]
    /\ faddr = [t \in Threads |-> NoAddr]
    /\ owner_thread_id = NoThread
    /\ recursion_counter = 0
    /\ pc = [t \in Threads |-> "out"]
    /\ mode = [t \in Threads |-> "lock"]
    /\ old_state = [t \in Threads |-> UNLOCKED]
    /\ depth = [t \in Threads |-> 0]
    /\ ops = [t \in Threads |-> 0]

Go(t, to) == pc' = [pc EXCEPT ![t] = to]
Grant(t, n) == depth' = [depth EXCEPT ![t] = n]
Put(s) == word' = [word EXCEPT !["mutex"] = s]
Keep(t) == old_state' = [old_state EXCEPT ![t] = mutex_state]

Call(t) ==
    /\ pc[t] = "out"
    /\ ops[t] < MaxOps
    /\ ops' = [ops EXCEPT ![t] = @ + 1]

(* A thread may always release a mutex it holds; only an ERRORCHECK mutex  *)
(* may be released by a thread that does not hold it.                      *)
ReleaseCall(t) ==
    \/ pc[t] = "out" /\ depth[t] > 0 /\ UNCHANGED ops
    \/ mutex_type = "ERRORCHECK" /\ depth[t] = 0 /\ Call(t)

-----------------------------------------------------------------------------
(* mutex_lock                                                              *)

LockCall(t, m) ==
    /\ Call(t)
    /\ mutex_type = "FAST" /\ depth[t] > 0 => m = "trylock"
    /\ mode' = [mode EXCEPT ![t] = m]
    /\ Go(t, IF mutex_type = "FAST" THEN "cas" ELSE "owner")
    /\ UNCHANGED <<mutex_type, futex, owner, old_state, depth>>

(* The read of owner_thread_id is not synchronised.                        *)
IsOwner(t) ==
    /\ pc[t] = "owner"
    /\ owner_thread_id = t
    /\ IF mutex_type = "ERRORCHECK"
       THEN UNCHANGED <<recursion_counter, depth>>          \* EDEADLK
       ELSE /\ recursion_counter' = recursion_counter + 1
            /\ Grant(t, depth[t] + 1)
    /\ Go(t, "out")
    /\ UNCHANGED <<mutex_type, futex, owner_thread_id, mode, old_state, ops>>

IsNotOwner(t) ==
    /\ pc[t] = "owner"
    /\ owner_thread_id # t
    /\ Go(t, "cas")
    /\ UNCHANGED <<mutex_type, futex, owner, mode, old_state, depth, ops>>

(* A slip: a trylock that fails reports success.                           *)
FirstCasTryGrants(t) ==
    /\ pc[t] = "cas"
    /\ Keep(t)
    /\ IF mutex_state = UNLOCKED
       THEN Put(LOCKED_WITHOUT_WAITERS) /\ Go(t, "got")
       ELSE /\ Go(t, IF mode[t] = "trylock" THEN "got" ELSE "mark")
            /\ UNCHANGED word
    /\ UNCHANGED <<mutex_type, fstate, faddr, owner, mode, depth, ops>>

(* The first compare-and-swap of mutex_lock_nonrecursive succeeds, or      *)
(* fails and trylock gives EBUSY, a bad time EINVAL.                       *)
FirstCas(t) ==
    /\ pc[t] = "cas"
    /\ Keep(t)
    /\ IF mutex_state = UNLOCKED
       THEN Put(LOCKED_WITHOUT_WAITERS) /\ Go(t, "got")
       ELSE /\ Go(t, IF mode[t] \in {"trylock", "badtime"}
                     THEN "out" ELSE "mark")
            /\ UNCHANGED word
    /\ UNCHANGED <<mutex_type, fstate, faddr, owner, mode, depth, ops>>

(* The second compare-and-swap, skipped if there were waiters already.     *)
Mark(t) ==
    /\ pc[t] = "mark"
    /\ IF old_state[t] = LOCKED_WITH_WAITERS
       THEN Go(t, "wait") /\ UNCHANGED word
       ELSE /\ IF mutex_state = LOCKED_WITHOUT_WAITERS
               THEN Put(LOCKED_WITH_WAITERS) ELSE UNCHANGED word
            /\ Go(t, IF mutex_state = UNLOCKED THEN "retry" ELSE "wait")
    /\ UNCHANGED <<mutex_type, fstate, faddr, owner, mode, old_state, depth,
                   ops>>

Wait(t) ==
    /\ pc[t] = "wait"
    /\ \/ Fx!WaitBlocks(t, "mutex", LOCKED_WITH_WAITERS)
       \/ Fx!WaitRefused(t, "mutex", LOCKED_WITH_WAITERS)
       \/ mode[t] = "timedlock" /\ Fx!WaitTooLate(t)
    /\ Go(t, "sleep")
    /\ UNCHANGED <<mutex_type, owner, mode, old_state, depth, ops>>

(* Inside the futex call.                                                  *)
FutexEnds(t) ==
    /\ pc[t] = "sleep"
    /\ \/ mode[t] = "timedlock" /\ Fx!TimeOut(t)
       \/ Fx!WakeSpuriously(t)
    /\ UNCHANGED <<mutex_type, owner, pc, mode, old_state, depth, ops>>

FutexWakes(t) ==
    /\ pc[t] = "sleep"
    /\ Fx!WakeUp(t)
    /\ UNCHANGED <<mutex_type, owner, pc, mode, old_state, depth, ops>>

WaitReturns(t) ==
    /\ pc[t] = "sleep"
    /\ Fx!WaitReturn(t)
    /\ Go(t, IF mode[t] = "timedlock" /\ fstate[t] = "ETIMEDOUT"
             THEN "out" ELSE "retry")
    /\ UNCHANGED <<mutex_type, owner, mode, old_state, depth, ops>>

(* The compare-and-swap at the end of the loop.                            *)
Retry(t) ==
    /\ pc[t] = "retry"
    /\ Keep(t)
    /\ IF mutex_state = UNLOCKED
       THEN Put(LOCKED_WITH_WAITERS) /\ Go(t, "got")
       ELSE UNCHANGED word /\ Go(t, "mark")
    /\ UNCHANGED <<mutex_type, fstate, faddr, owner, mode, depth, ops>>

(* The lock is taken; the owner is recorded unless the type is FAST.       *)
Got(t) ==
    /\ pc[t] = "got"
    /\ IF mutex_type = "FAST"
       THEN UNCHANGED owner
       ELSE owner_thread_id' = t /\ recursion_counter' = 1
    /\ Grant(t, 1)
    /\ Go(t, "out")
    /\ UNCHANGED <<mutex_type, futex, mode, old_state, ops>>

-----------------------------------------------------------------------------
(* pthread_mutex_unlock                                                    *)

(* A slip: an ERRORCHECK mutex is released by any thread.                  *)
UnlockUnchecked(t) ==
    /\ ReleaseCall(t)
    /\ Go(t, IF mutex_type = "FAST" THEN "sub" ELSE "clear")
    /\ Grant(t, 0)
    /\ UNCHANGED <<mutex_type, futex, owner, mode, old_state>>

(* The checks before the owner is cleared.  A RECURSIVE mutex is only      *)
(* counted down while other locks of this thread are left; an ERRORCHECK   *)
(* mutex of another thread gives EPERM.                                    *)
UnlockCall(t) ==
    /\ ReleaseCall(t)
    /\ \/ /\ mutex_type = "FAST"
          /\ Go(t, "sub") /\ Grant(t, 0) /\ UNCHANGED recursion_counter
       \/ /\ mutex_type = "RECURSIVE"
          /\ recursion_counter' = recursion_counter - 1
          /\ Go(t, IF recursion_counter # 1 THEN "out" ELSE "clear")
          /\ Grant(t, IF recursion_counter # 1 THEN depth[t] - 1 ELSE 0)
       \/ /\ mutex_type = "ERRORCHECK"
          /\ UNCHANGED recursion_counter
          /\ IF owner_thread_id # t
             THEN UNCHANGED <<pc, depth>>
             ELSE Go(t, "clear") /\ Grant(t, 0)
    /\ UNCHANGED <<mutex_type, futex, owner_thread_id, mode, old_state>>

ClearOwner(t) ==
    /\ pc[t] = "clear"
    /\ owner_thread_id' = NoThread
    /\ recursion_counter' = 0
    /\ Go(t, "sub")
    /\ UNCHANGED <<mutex_type, futex, mode, old_state, depth, ops>>

(* The atomic decrement.                                                   *)
FetchAndSub(t) ==
    /\ pc[t] = "sub"
    /\ Keep(t)
    /\ Put(mutex_state - 1)
    /\ Go(t, IF mutex_state = LOCKED_WITHOUT_WAITERS THEN "out" ELSE "store")
    /\ UNCHANGED <<mutex_type, fstate, faddr, owner, mode, depth, ops>>

(* A slip: the waiters are not woken.                                      *)
StoreWithoutWake(t) ==
    /\ pc[t] = "store"
    /\ Put(UNLOCKED)
    /\ Go(t, "out")
    /\ UNCHANGED <<mutex_type, fstate, faddr, owner, mode, old_state, depth,
                   ops>>

StoreUnlocked(t) ==
    /\ pc[t] = "store"
    /\ Put(UNLOCKED)
    /\ Go(t, "wake")
    /\ UNCHANGED <<mutex_type, fstate, faddr, owner, mode, old_state, depth,
                   ops>>

FutexWake(t) ==
    /\ pc[t] = "wake"
    /\ Fx!Wake("mutex", 1)
    /\ Go(t, "out")
    /\ UNCHANGED <<mutex_type, owner, mode, old_state, depth, ops>>

-----------------------------------------------------------------------------
Step(t) ==
    \/ IsOwner(t) \/ IsNotOwner(t) \/ FirstCas(t) \/ Mark(t) \/ Wait(t)
    \/ FutexWakes(t) \/ WaitReturns(t) \/ Retry(t) \/ Got(t)
    \/ ClearOwner(t) \/ FetchAndSub(t) \/ StoreUnlocked(t) \/ FutexWake(t)

(* A thread makes no further call once it has made MaxOps.                 *)
Finished ==
    /\ \A t \in Threads : pc[t] = "out" /\ ops[t] = MaxOps /\ depth[t] = 0
    /\ UNCHANGED vars

Next ==
    \/ \E t \in Threads :
        \/ \E m \in Mode : LockCall(t, m)
        \/ UnlockCall(t)
        \/ Step(t)
        \/ FutexEnds(t)
    \/ Finished

Spec == Init /\ [][Next]_vars

-----------------------------------------------------------------------------
(* From the compare-and-swap that took the mutex to the store or decrement *)
(* that gives it back.                                                     *)
Holds(t) == depth[t] > 0 \/ pc[t] \in {"got", "clear", "sub", "store"}

(* No two threads have the mutex at once, and mutex_state says whether one *)
(* has it.                                                                 *)
MutualExclusion ==
    /\ \A t, u \in Threads : Holds(t) /\ Holds(u) => t = u
    /\ mutex_state = UNLOCKED <=> \A t \in Threads : ~Holds(t)

(* owner_thread_id, which mutex_lock reads without synchronisation, names  *)
(* a thread only while it really has the mutex, and recursion_counter is   *)
(* the number of times it has locked it.                                   *)
OwnerCorrect ==
    mutex_type # "FAST" =>
        \A t \in Threads :
            /\ owner_thread_id = t => Holds(t)
            /\ depth[t] > 0 => /\ owner_thread_id = t
                               /\ recursion_counter = depth[t]

(* A thread that looks at mutex_state again after a wait.                  *)
Responsible(t) ==
    \/ pc[t] \in {"store", "wake", "retry"}
    \/ pc[t] = "sleep" /\ fstate[t] \in {"woken", "ok", "EWOULDBLOCK"}
    \/ pc[t] = "mark" /\ old_state[t] = LOCKED_WITHOUT_WAITERS

(* While a thread sleeps, the mutex says that there are waiters, so that   *)
(* the next unlock wakes one, or some thread is on its way to wake one or  *)
(* to set that state again.                                                *)
NoLostWakeup ==
    (\E t \in Threads : fstate[t] = "waiting") =>
        \/ mutex_state = LOCKED_WITH_WAITERS
        \/ \E u \in Threads : Responsible(u)

(* One thread has the mutex, and every field says so.                      *)
MutexCorrect == TypeOK /\ MutualExclusion /\ OwnerCorrect
=============================================================================
