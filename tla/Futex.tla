------------------------------- MODULE Futex -------------------------------
(***************************************************************************)
(* The futex implementation of the service runtime for hosts without       *)
(* futexes (sys_futex.c, the branch that is not Linux): one list of        *)
(* waiting threads per sandbox in FIFO order, the mutex futex_wait_list_mu *)
(* that protects it, and one condition variable per thread.                *)
(*                                                                         *)
(* A step is one access to shared state.  The host's mutex and condition   *)
(* variable are external: waiting releases the mutex and sleeps in one     *)
(* step, and may end without a signal.  The futex words belong to the      *)
(* sandboxed code, which writes them at any time without the mutex.        *)
(***************************************************************************)
EXTENDS Integers, Sequences, SequencesExt, FiniteSets

CONSTANTS
    Threads,    \* threads of sandboxed code
    Addrs,      \* addresses of futex words
    BadAddr,    \* stands for every address that cannot be read
    Values,     \* what a futex word may hold
    NoThread,   \* futex_wait_list_mu is free
    MaxWake,    \* bound: the largest nwake
    MaxCalls    \* bound: futex calls of one thread

FutexAssumption ==
    /\ IsFiniteSet(Threads)
    /\ Values # {}
    /\ BadAddr \notin Addrs
    /\ NoThread \notin Threads
    /\ MaxWake \in Nat
    /\ MaxCalls \in Nat

VARIABLES
    word,              \* the futex words
    mu,                \* the holder of futex_wait_list_mu
    wait_list,         \* futex_wait_list_head: threads, oldest first
    futex_wait_addr,   \* natp->futex_wait_addr; BadAddr stands for 0
    linked,            \* natp->futex_wait_list_node.next is not NULL
    call,              \* call[t]: the futex call thread t is in
    calls              \* calls[t]: how many it has made

vars == <<word, mu, wait_list, futex_wait_addr, linked, call, calls>>

Call == [pc     : {"out", "wait_lock", "compare", "add", "sleep", "relock",
                   "unlink", "unlock", "wake_lock", "scan", "wake_unlock"},
         addr   : Addrs \cup {BadAddr},
         value  : Values,
         timed  : BOOLEAN,                     \* abstime_ptr is not 0
         status : {"ok", "ETIMEDOUT"},         \* sync_status
         result : {"ok", "EWOULDBLOCK", "ETIMEDOUT", "EFAULT", "none"},
         entry  : Nat,                         \* position in wait_list
         nwake  : 0 .. MaxWake,
         woken  : SUBSET Threads]              \* threads this wake removed

NoCall == [pc |-> "out", addr |-> BadAddr, value |-> CHOOSE v \in Values : TRUE,
           timed |-> FALSE, status |-> "ok", result |-> "none", entry |-> 1,
           nwake |-> 0, woken |-> {}]

TypeOK ==
    /\ word \in [Addrs -> Values]
    /\ mu \in Threads \cup {NoThread}
    /\ wait_list \in Seq(Threads)
    /\ futex_wait_addr \in [Threads -> Addrs \cup {BadAddr}]
    /\ linked \in [Threads -> BOOLEAN]
    /\ call \in [Threads -> Call]
    /\ calls \in [Threads -> 0 .. MaxCalls]

Init ==
    /\ word \in [Addrs -> Values]
    /\ mu = NoThread
    /\ wait_list = << >>
    /\ futex_wait_addr = [t \in Threads |-> BadAddr]
    /\ linked = [t \in Threads |-> FALSE]
    /\ call = [t \in Threads |-> NoCall]
    /\ calls = [t \in Threads |-> 0]

Go(t, pc) == call' = [call EXCEPT ![t].pc = pc]

(* The thread takes futex_wait_list_mu; it gives it back and returns.      *)
Lock(t, from, to) ==
    /\ call[t].pc = from
    /\ mu = NoThread
    /\ mu' = t
    /\ Go(t, to)
    /\ UNCHANGED <<word, wait_list, futex_wait_addr, linked, calls>>

Unlock(t, from) ==
    /\ call[t].pc = from
    /\ mu' = NoThread
    /\ call' = [call EXCEPT ![t] = NoCall]
    /\ UNCHANGED <<word, wait_list, futex_wait_addr, linked, calls>>

Begin(t, c) ==
    /\ call[t].pc = "out"
    /\ calls[t] < MaxCalls
    /\ calls' = [calls EXCEPT ![t] = @ + 1]
    /\ call' = [call EXCEPT ![t] = c]
    /\ UNCHANGED <<word, mu, wait_list, futex_wait_addr, linked>>

(* The list without the node of t.                                         *)
ListRemoveNode(t) ==
    RemoveAt(wait_list, CHOOSE i \in DOMAIN wait_list : wait_list[i] = t)

-----------------------------------------------------------------------------
(* NaClSysFutexWaitAbs.                                                    *)

WaitCall(t, a, v, timed) ==
    Begin(t, [NoCall EXCEPT !.pc = "wait_lock", !.addr = a,
                            !.value = v, !.timed = timed])

(* The copy of the timeout or of the word faults.                          *)
WaitFault(t) ==
    /\ call[t].pc = "compare"
    /\ call[t].addr = BadAddr
    /\ call' = [call EXCEPT ![t].pc = "unlock", ![t].result = "EFAULT"]
    /\ UNCHANGED <<word, mu, wait_list, futex_wait_addr, linked, calls>>

Compare(t) ==
    /\ call[t].pc = "compare"
    /\ call[t].addr # BadAddr
    /\ call' = IF word[call[t].addr] = call[t].value
               THEN [call EXCEPT ![t].pc = "add"]
               ELSE [call EXCEPT ![t].pc = "unlock",
                                 ![t].result = "EWOULDBLOCK"]
    /\ UNCHANGED <<word, mu, wait_list, futex_wait_addr, linked, calls>>

(* ListAddNodeAtEnd, and the wait on the condition variable, which         *)
(* releases the mutex.                                                     *)
AddAndSleep(t) ==
    /\ call[t].pc = "add"
    /\ futex_wait_addr' = [futex_wait_addr EXCEPT ![t] = call[t].addr]
    /\ wait_list' = Append(wait_list, t)
    /\ linked' = [linked EXCEPT ![t] = TRUE]
    /\ mu' = NoThread
    /\ Go(t, "sleep")
    /\ UNCHANGED <<word, calls>>

(* The wait on the condition variable ends by its timeout or by itself.    *)
SleepTimesOut(t) ==
    /\ call[t].pc = "sleep"
    /\ call[t].timed
    /\ call' = [call EXCEPT ![t].pc = "relock", ![t].status = "ETIMEDOUT"]
    /\ UNCHANGED <<word, mu, wait_list, futex_wait_addr, linked, calls>>

SleepEndsSpuriously(t) ==
    /\ call[t].pc = "sleep"
    /\ Go(t, "relock")
    /\ UNCHANGED <<word, mu, wait_list, futex_wait_addr, linked, calls>>

(* A slip: the result of the condition variable is returned as it is.      *)
UnlinkReportsTimeout(t) ==
    /\ call[t].pc = "unlink"
    /\ wait_list' = IF linked[t] THEN ListRemoveNode(t) ELSE wait_list
    /\ call' = [call EXCEPT ![t].pc = "unlock", ![t].result = call[t].status]
    /\ linked' = [linked EXCEPT ![t] = FALSE]
    /\ futex_wait_addr' = [futex_wait_addr EXCEPT ![t] = BadAddr]
    /\ UNCHANGED <<word, mu, calls>>

(* A slip: a thread that timed out stays in the list.                      *)
UnlinkForgets(t) ==
    /\ call[t].pc = "unlink"
    /\ call' = [call EXCEPT ![t].pc = "unlock",
                            ![t].result = IF linked[t] THEN call[t].status
                                          ELSE "ok"]
    /\ linked' = [linked EXCEPT ![t] = FALSE]
    /\ futex_wait_addr' = [futex_wait_addr EXCEPT ![t] = BadAddr]
    /\ UNCHANGED <<word, mu, wait_list, calls>>

(* Back with the mutex: NaClSysFutexWake may have removed this thread from *)
(* the list while it timed out, and then the wait succeeded.               *)
Unlink(t) ==
    /\ call[t].pc = "unlink"
    /\ IF linked[t]
       THEN /\ wait_list' = ListRemoveNode(t)
            /\ call' = [call EXCEPT ![t].pc = "unlock",
                                    ![t].result = call[t].status]
       ELSE /\ call' = [call EXCEPT ![t].pc = "unlock", ![t].result = "ok"]
            /\ UNCHANGED wait_list
    /\ linked' = [linked EXCEPT ![t] = FALSE]
    /\ futex_wait_addr' = [futex_wait_addr EXCEPT ![t] = BadAddr]
    /\ UNCHANGED <<word, mu, calls>>

-----------------------------------------------------------------------------
(* NaClSysFutexWake.                                                       *)

WakeCall(t, a, n) ==
    Begin(t, [NoCall EXCEPT !.pc = "wake_lock", !.addr = a, !.nwake = n])

Scanning(t) ==
    /\ call[t].pc = "scan"
    /\ call[t].nwake > 0
    /\ call[t].entry <= Len(wait_list)

Entry(t) == wait_list[call[t].entry]

ScanSkips(t) ==
    /\ Scanning(t)
    /\ futex_wait_addr[Entry(t)] # call[t].addr
    /\ call' = [call EXCEPT ![t].entry = @ + 1]
    /\ UNCHANGED <<word, mu, wait_list, futex_wait_addr, linked, calls>>

(* A slip: the newest waiter is taken.                                     *)
ScanWakesLast(t) ==
    /\ Scanning(t)
    /\ \E w \in Threads :
        /\ linked[w]
        /\ futex_wait_addr[w] = call[t].addr
        /\ \A i \in 1 .. Len(wait_list) :
              futex_wait_addr[wait_list[i]] = call[t].addr =>
                  \E j \in i .. Len(wait_list) : wait_list[j] = w
        /\ wait_list' = ListRemoveNode(w)
        /\ linked' = [linked EXCEPT ![w] = FALSE]
        /\ futex_wait_addr' = [futex_wait_addr EXCEPT ![w] = BadAddr]
        /\ call' = [[call EXCEPT ![t].woken = @ \cup {w}, ![t].nwake = @ - 1]
                    EXCEPT ![w].pc = IF @ = "sleep" THEN "relock" ELSE @]
    /\ UNCHANGED <<word, mu, calls>>

(* The entry waits on this address: it leaves the list and its condition   *)
(* is signalled, which has no effect if its wait on the condition has      *)
(* ended already.                                                          *)
ScanWakes(t) ==
    /\ Scanning(t)
    /\ futex_wait_addr[Entry(t)] = call[t].addr
    /\ LET w == Entry(t) IN
        /\ wait_list' = ListRemoveNode(w)
        /\ linked' = [linked EXCEPT ![w] = FALSE]
        /\ futex_wait_addr' = [futex_wait_addr EXCEPT ![w] = BadAddr]
        /\ call' = [[call EXCEPT ![t].woken = @ \cup {w}, ![t].nwake = @ - 1]
                    EXCEPT ![w].pc = IF @ = "sleep" THEN "relock" ELSE @]
    /\ UNCHANGED <<word, mu, calls>>

ScanEnds(t) ==
    /\ call[t].pc = "scan"
    /\ ~Scanning(t)
    /\ Go(t, "wake_unlock")
    /\ UNCHANGED <<word, mu, wait_list, futex_wait_addr, linked, calls>>

-----------------------------------------------------------------------------
(* Sandboxed code that is in no futex call writes a futex word.            *)
UserStore(a, v) ==
    /\ \E t \in Threads : call[t].pc = "out" /\ calls[t] < MaxCalls
    /\ word' = [word EXCEPT ![a] = v]
    /\ UNCHANGED <<mu, wait_list, futex_wait_addr, linked, call, calls>>

WaitStep(t) ==
    \/ Lock(t, "wait_lock", "compare")
    \/ WaitFault(t)
    \/ Compare(t)
    \/ AddAndSleep(t)
    \/ SleepTimesOut(t)
    \/ Lock(t, "relock", "unlink")
    \/ Unlink(t)
    \/ Unlock(t, "unlock")

WakeStep(t) ==
    \/ Lock(t, "wake_lock", "scan")
    \/ ScanSkips(t)
    \/ ScanWakes(t)
    \/ ScanEnds(t)
    \/ Unlock(t, "wake_unlock")

Next ==
    \/ \E t \in Threads :
        \/ \E a \in Addrs \cup {BadAddr}, v \in Values, timed \in BOOLEAN :
              WaitCall(t, a, v, timed)
        \/ \E a \in Addrs, n \in 0 .. MaxWake : WakeCall(t, a, n)
        \/ WaitStep(t)
        \/ WakeStep(t)
        \/ SleepEndsSpuriously(t)
    \/ \E a \in Addrs, v \in Values : UserStore(a, v)

Spec == Init /\ [][Next]_vars

-----------------------------------------------------------------------------
(* The list holds, once each, exactly the threads that wait and that no    *)
(* wake-up has removed; each of them is asleep or on its way back to the   *)
(* mutex.  Only the holder of the mutex is inside a critical section.      *)
ListConsistent ==
    /\ \A t \in Threads : linked[t] <=> \E i \in DOMAIN wait_list :
                                            wait_list[i] = t
    /\ \A i, j \in DOMAIN wait_list : wait_list[i] = wait_list[j] => i = j
    /\ \A t \in Threads : linked[t] =>
          /\ call[t].pc \in {"sleep", "relock", "unlink"}
          /\ futex_wait_addr[t] = call[t].addr
    /\ \A t \in Threads : call[t].pc = "sleep" => linked[t]

(* Wake-ups are granted in the order in which the waits began: a step of   *)
(* futex_wake removes a thread only if no thread that has waited longer on *)
(* the same address is still in the list ("We process waiting threads in   *)
(* FIFO order", sys_futex.c:257).                                          *)
WakesFirst ==
    \A i \in DOMAIN wait_list : \A t \in Threads :
        (~linked'[wait_list[i]] /\ ScanWakes(t)) =>
            \A j \in 1 .. i - 1 : futex_wait_addr[wait_list[j]] #
                                  futex_wait_addr[wait_list[i]]

(* The implementation keeps the promise of FutexSpec.  A thread waits from *)
(* the comparison on; the threads that a wake-up removes are woken when it *)
(* releases the mutex; the result is decided when the waiter, back with    *)
(* the mutex, looks whether it is still in the list.                       *)
BeingWoken(t) ==
    \E u \in Threads : call[u].pc \in {"scan", "wake_unlock"}
                       /\ t \in call[u].woken

AbstractState(t) ==
    CASE call[t].pc = "add" -> "waiting"
      [] call[t].pc \in {"sleep", "relock", "unlink"} ->
            IF linked[t] \/ BeingWoken(t) THEN "waiting" ELSE "woken"
      [] call[t].pc = "unlock" -> call[t].result
      [] OTHER -> "out"

F == INSTANCE FutexSpec WITH
        fstate <- [t \in Threads |-> AbstractState(t)],
        faddr <- [t \in Threads |->
                    IF AbstractState(t) \in {"waiting", "woken"}
                    THEN call[t].addr ELSE BadAddr]

(* NaClSysFutexWake wakes as many threads as it was asked to, or all there *)
(* are: nwake counts down while threads are taken from the list.           *)
WakesEnough ==
    \A t \in Threads : Unlock(t, "wake_unlock") =>
        F!Wake(call[t].addr, call[t].nwake + Cardinality(call[t].woken))

(* What the futex of the service runtime promises (sys_futex.c).           *)
FutexImplementsSpec ==
    /\ F!FutexSafety
    /\ [](TypeOK /\ ListConsistent)
    /\ [][WakesFirst /\ WakesEnough]_vars

=============================================================================
