----------------------------- MODULE FutexSpec -----------------------------
(***************************************************************************)
(* What a futex promises the code that uses it: futex_wait_abs compares    *)
(* the word with the expected value and starts to wait in one step, and a  *)
(* wake-up is never lost.  A thread that a wake-up chose reports success,  *)
(* even if its timeout passes at the same time; a thread that reports a    *)
(* timeout was not chosen by any wake-up.  A wait may also end by itself,  *)
(* without a wake-up, and report success.                                  *)
(*                                                                         *)
(* The futex implementation (module Futex) implements this specification;  *)
(* the synchronisation objects of the pthread library use its actions.     *)
(***************************************************************************)
EXTENDS Naturals, FiniteSets

CONSTANTS
    Threads,   \* threads of sandboxed code
    Addrs,     \* addresses of futex words
    BadAddr,   \* stands for every address that cannot be read
    Values     \* what a futex word may hold

VARIABLES
    word,      \* word[a]: the value of the futex word at a
    fstate,    \* fstate[t]: where t is in a futex call
    faddr      \* faddr[t]: the address t waits on

fvars == <<word, fstate, faddr>>

(* "out" means not in a futex call, "waiting" and "woken" are inside       *)
(* futex_wait_abs, the others are the result it returned.                  *)
FState == {"out", "waiting", "woken", "ok", "EWOULDBLOCK", "ETIMEDOUT",
           "EFAULT"}

FutexTypeOK ==
    /\ word \in [Addrs -> Values]
    /\ fstate \in [Threads -> FState]
    /\ faddr \in [Threads -> Addrs \cup {BadAddr}]

FutexInit ==
    /\ word \in [Addrs -> Values]
    /\ fstate = [t \in Threads |-> "out"]
    /\ faddr = [t \in Threads |-> BadAddr]

WaitersOn(a) == {t \in Threads : fstate[t] = "waiting" /\ faddr[t] = a}

Move(t, s) == fstate' = [fstate EXCEPT ![t] = s]

(* futex_wait_abs finds the expected value and waits, or finds another     *)
(* value and returns at once.                                              *)
WaitBlocks(t, a, v) ==
    /\ fstate[t] = "out"
    /\ a \in Addrs
    /\ word[a] = v
    /\ Move(t, "waiting")
    /\ faddr' = [faddr EXCEPT ![t] = a]
    /\ UNCHANGED word

WaitRefused(t, a, v) ==
    /\ fstate[t] = "out"
    /\ a \in Addrs
    /\ word[a] # v
    /\ Move(t, "EWOULDBLOCK")
    /\ UNCHANGED <<word, faddr>>

(* The Linux implementation returns at once, without a look at the word,   *)
(* if the time has passed already.                                         *)
WaitTooLate(t) ==
    /\ fstate[t] = "out"
    /\ Move(t, "ETIMEDOUT")
    /\ UNCHANGED <<word, faddr>>

WaitFaults(t, a) ==
    /\ fstate[t] = "out"
    /\ a = BadAddr
    /\ Move(t, "EFAULT")
    /\ UNCHANGED <<word, faddr>>

(* How a wait ends: by its timeout, by itself, or after a wake-up.         *)
WaitEnds(t, from, result) ==
    /\ fstate[t] = from
    /\ Move(t, result)
    /\ faddr' = [faddr EXCEPT ![t] = BadAddr]
    /\ UNCHANGED word

TimeOut(t) == WaitEnds(t, "waiting", "ETIMEDOUT")

WakeSpuriously(t) == WaitEnds(t, "waiting", "ok")

WakeUp(t) == WaitEnds(t, "woken", "ok")

(* The caller has seen the result.                                         *)
WaitReturn(t) ==
    /\ fstate[t] \in {"ok", "EWOULDBLOCK", "ETIMEDOUT", "EFAULT"}
    /\ Move(t, "out")
    /\ UNCHANGED <<word, faddr>>

(* futex_wake chooses up to n waiters, and never fewer than there are.     *)
WakeSet(a, n) ==
    {W \in SUBSET WaitersOn(a) :
        \/ Cardinality(W) = n
        \/ Cardinality(W) < n /\ W = WaitersOn(a)}

Woken(W) == [t \in Threads |-> IF t \in W THEN "woken" ELSE fstate[t]]

Wake(a, n) ==
    /\ \E W \in WakeSet(a, n) : fstate' = Woken(W)
    /\ UNCHANGED <<word, faddr>>

(* Threads write futex words without telling the futex.                    *)
Store(a, v) ==
    /\ word' = [word EXCEPT ![a] = v]
    /\ UNCHANGED <<fstate, faddr>>

FutexNext ==
    \/ \E t \in Threads :
        \/ \E a \in Addrs \cup {BadAddr}, v \in Values :
            \/ WaitBlocks(t, a, v)
            \/ WaitRefused(t, a, v)
            \/ WaitFaults(t, a)
        \/ WaitTooLate(t)
        \/ TimeOut(t)
        \/ WakeSpuriously(t)
        \/ WakeUp(t)
        \/ WaitReturn(t)
    \/ \E a \in Addrs \cup {BadAddr} : \E n \in 0 .. Cardinality(Threads) :
            Wake(a, n)
    \/ \E a \in Addrs, v \in Values : Store(a, v)

FutexSafety == FutexInit /\ [][FutexNext]_fvars
=============================================================================
