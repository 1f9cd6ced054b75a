-------------------------- MODULE PthreadSemaphore --------------------------
(***************************************************************************)
(* The semaphore of the pthread library for sandboxed code                 *)
(* (nc_semaphore.c): a count changed by compare-and-swap, on which threads *)
(* wait as a futex (FutexSpec), and a number of waiters that lets sem_post *)
(* leave out the wake call.  One step is one access to either word.        *)
(***************************************************************************)
EXTENDS Naturals, FiniteSets

CONSTANTS
    Threads,         \* threads of sandboxed code
    SEM_VALUE_MAX,   \* the largest count
    Initial,         \* the value given to sem_init
    MaxOps           \* bound: calls of one thread

SemaphoreAssumption ==
    /\ IsFiniteSet(Threads)
    /\ SEM_VALUE_MAX \in Nat
    /\ Initial \in 0 .. SEM_VALUE_MAX
    /\ MaxOps \in Nat

VARIABLES
    word,            \* word["count"] is sem->count
    fstate, faddr,   \* the state of the futex, see FutexSpec
    nwaiters,        \* sem->nwaiters
    pc,              \* pc[t]: where t is in a call; "out": in none
    call,            \* call[t]: the call t is in
    counted,         \* counted[t]: t is counted in nwaiters
    old_value,       \* old_value[t]: its local variable
    posted, taken,   \* units added and removed since sem_init
    ops              \* ops[t]: calls t has made

futex == <<word, fstate, faddr>>
vars == <<futex, nwaiters, pc, call, counted, old_value, posted, taken, ops>>

NoAddr == "none"

Fx == INSTANCE FutexSpec WITH
        Addrs <- {"count"}, BadAddr <- NoAddr, Values <- Nat

count == word["count"]

TypeOK ==
    /\ Fx!FutexTypeOK
    /\ count \in 0 .. SEM_VALUE_MAX
    /\ nwaiters \in 0 .. Cardinality(Threads)
    /\ pc \in [Threads -> {"out", "load", "cas", "enter", "wait", "sleep",
                           "leave", "post_load", "post_cas", "post_check",
                           "post_wake"}]
    /\ call \in [Threads -> {"wait", "trywait", "post"}]
    /\ counted \in [Threads -> BOOLEAN]
    /\ old_value \in [Threads -> 0 .. SEM_VALUE_MAX]
    /\ posted \in Nat
    /\ taken \in Nat
    /\ ops \in [Threads -> 0 .. MaxOps]

(* sem_init.                                                               *)
Init ==
    /\ word = [a \in {"count"} |-> Initial]
    /\ fstate = [t \in Threads |-> "out"]
    /\ faddr = [t \in Threads |-> NoAddr]
    /\ nwaiters = 0
    /\ pc = [t \in Threads |-> "out"]
    /\ call = [t \in Threads |-> "post"]
    /\ counted = [t \in Threads |-> FALSE]
    /\ old_value = [t \in Threads |-> 0]
    /\ posted = 0
    /\ taken = 0
    /\ ops = [t \in Threads |-> 0]

Go(t, to) == pc' = [pc EXCEPT ![t] = to]

Call(t, c) ==
    /\ pc[t] = "out"
    /\ ops[t] < MaxOps
    /\ ops' = [ops EXCEPT ![t] = @ + 1]
    /\ call' = [call EXCEPT ![t] = c]
    /\ Go(t, IF c = "post" THEN "post_load" ELSE "load")
    /\ UNCHANGED <<futex, nwaiters, counted, old_value, posted, taken>>

-----------------------------------------------------------------------------
(* decrement_if_positive: load the count; if it is not zero, decrement it  *)
(* by compare-and-swap or start again.                                     *)
DecrementLoad(t) ==
    /\ pc[t] = "load"
    /\ count > 0
    /\ old_value' = [old_value EXCEPT ![t] = count]
    /\ Go(t, "cas")
    /\ UNCHANGED <<futex, nwaiters, call, counted, posted, taken, ops>>

(* A slip: the count is stored without a comparison.                       *)
DecrementStore(t) ==
    /\ pc[t] = "cas"
    /\ word' = [word EXCEPT !["count"] = old_value[t] - 1]
    /\ taken' = taken + 1
    /\ Go(t, IF counted[t] THEN "leave" ELSE "out")
    /\ UNCHANGED <<fstate, faddr, nwaiters, call, counted, old_value, posted,
                   ops>>

DecrementCas(t) ==
    /\ pc[t] = "cas"
    /\ IF count = old_value[t]
       THEN /\ word' = [word EXCEPT !["count"] = @ - 1]
            /\ taken' = taken + 1
            /\ Go(t, IF counted[t] THEN "leave" ELSE "out")
       ELSE Go(t, "load") /\ UNCHANGED <<word, taken>>
    /\ UNCHANGED <<fstate, faddr, nwaiters, call, counted, old_value, posted,
                   ops>>

(* The count was zero: sem_trywait fails, sem_wait counts itself among the *)
(* waiters the first time and waits again after that.                      *)
DecrementFails(t) ==
    /\ pc[t] = "load"
    /\ count = 0
    /\ Go(t, IF call[t] = "trywait" THEN "out"
             ELSE IF counted[t] THEN "wait" ELSE "enter")
    /\ UNCHANGED <<futex, nwaiters, call, counted, old_value, posted, taken,
                   ops>>

(* A slip: the thread is counted only once it has been woken.              *)
EnterUncounted(t) ==
    /\ pc[t] = "enter"
    /\ UNCHANGED <<nwaiters, counted>>
    /\ Go(t, "wait")
    /\ UNCHANGED <<futex, call, old_value, posted, taken, ops>>

EnterWaiters(t) ==
    /\ pc[t] = "enter"
    /\ nwaiters' = nwaiters + 1
    /\ counted' = [counted EXCEPT ![t] = TRUE]
    /\ Go(t, "wait")
    /\ UNCHANGED <<futex, call, old_value, posted, taken, ops>>

Wait(t) ==
    /\ pc[t] = "wait"
    /\ Fx!WaitBlocks(t, "count", 0) \/ Fx!WaitRefused(t, "count", 0)
    /\ Go(t, "sleep")
    /\ UNCHANGED <<nwaiters, call, counted, old_value, posted, taken, ops>>

(* Inside the futex call.                                                  *)
FutexEnds(t) ==
    /\ pc[t] = "sleep"
    /\ Fx!WakeSpuriously(t)
    /\ UNCHANGED <<nwaiters, pc, call, counted, old_value, posted, taken, ops>>

FutexWakes(t) ==
    /\ pc[t] = "sleep"
    /\ Fx!WakeUp(t)
    /\ UNCHANGED <<nwaiters, pc, call, counted, old_value, posted, taken, ops>>

WaitReturns(t) ==
    /\ pc[t] = "sleep"
    /\ Fx!WaitReturn(t)
    /\ Go(t, "load")
    /\ UNCHANGED <<nwaiters, call, counted, old_value, posted, taken, ops>>

LeaveWaiters(t) ==
    /\ pc[t] = "leave"
    /\ nwaiters' = nwaiters - 1
    /\ counted' = [counted EXCEPT ![t] = FALSE]
    /\ Go(t, "out")
    /\ UNCHANGED <<futex, call, old_value, posted, taken, ops>>

-----------------------------------------------------------------------------
(* sem_post                                                                *)

(* A slip: the check for overflow is missing.                              *)
PostLoadUnchecked(t) ==
    /\ pc[t] = "post_load"
    /\ old_value' = [old_value EXCEPT ![t] = count]
    /\ Go(t, "post_cas")
    /\ UNCHANGED <<futex, nwaiters, call, counted, posted, taken, ops>>

(* A full count gives EOVERFLOW.                                           *)
PostLoad(t) ==
    /\ pc[t] = "post_load"
    /\ IF count = SEM_VALUE_MAX
       THEN Go(t, "out") /\ UNCHANGED old_value
       ELSE /\ old_value' = [old_value EXCEPT ![t] = count]
            /\ Go(t, "post_cas")
    /\ UNCHANGED <<futex, nwaiters, call, counted, posted, taken, ops>>

PostCas(t) ==
    /\ pc[t] = "post_cas"
    /\ IF count = old_value[t]
       THEN /\ word' = [word EXCEPT !["count"] = @ + 1]
            /\ posted' = posted + 1
            /\ Go(t, "post_check")
       ELSE Go(t, "post_load") /\ UNCHANGED <<word, posted>>
    /\ UNCHANGED <<fstate, faddr, nwaiters, call, counted, old_value, taken,
                   ops>>

(* The wake call is left out if there are no waiters.                      *)
PostCheck(t) ==
    /\ pc[t] = "post_check"
    /\ Go(t, IF nwaiters # 0 THEN "post_wake" ELSE "out")
    /\ UNCHANGED <<futex, nwaiters, call, counted, old_value, posted, taken,
                   ops>>

PostWake(t) ==
    /\ pc[t] = "post_wake"
    /\ Fx!Wake("count", 1)
    /\ Go(t, "out")
    /\ UNCHANGED <<nwaiters, call, counted, old_value, posted, taken, ops>>

-----------------------------------------------------------------------------
Step(t) ==
    \/ DecrementLoad(t) \/ DecrementCas(t) \/ DecrementFails(t)
    \/ EnterWaiters(t) \/ Wait(t) \/ FutexWakes(t) \/ WaitReturns(t)
    \/ LeaveWaiters(t) \/ PostLoad(t) \/ PostCas(t) \/ PostCheck(t)
    \/ PostWake(t)

Next ==
    \E t \in Threads :
        \/ \E c \in {"wait", "trywait", "post"} : Call(t, c)
        \/ Step(t)
        \/ FutexEnds(t)

Spec == Init /\ [][Next]_vars

-----------------------------------------------------------------------------
(* Every unit posted is taken once or still in the count, and nwaiters is  *)
(* the number of threads between its increment and its decrement.          *)
UnitsConserved ==
    /\ count + taken = Initial + posted
    /\ nwaiters = Cardinality({t \in Threads : counted[t]})

Sleepers == {t \in Threads : fstate[t] = "waiting"}

(* A thread that is about to wake a sleeper, or to look at the count       *)
(* before it sleeps (again).                                               *)
Responsible(t) ==
    \/ pc[t] \in {"post_check", "post_wake"}
    \/ counted[t] /\ pc[t] \in {"load", "cas"}
    \/ pc[t] = "sleep" /\ fstate[t] \in {"woken", "ok", "EWOULDBLOCK"}

(* Wake-ups are not lost: as long as a thread sleeps, at least as many     *)
(* threads are on their way to a look at the count, or to wake somebody,   *)
(* as there are units in it.  sem_post reads nwaiters after it has changed *)
(* the count, and sem_wait increments nwaiters before it compares the      *)
(* count again.                                                            *)
NoLostWakeup ==
    Sleepers # {} => Cardinality({t \in Threads : Responsible(t)}) >= count

(* What the semaphore promises (nc_semaphore.c): the count stays within    *)
(* SEM_VALUE_MAX, every unit posted is taken once or still there, and no   *)
(* wake-up is lost.                                                        *)
SemaphoreCorrect == TypeOK /\ UnitsConserved /\ NoLostWakeup

=============================================================================
