---------------------------- MODULE SuspendSpec ----------------------------
(***************************************************************************)
(* What thread suspension promises its user, the debug stub (see           *)
(* thread_suspension.h): after NaClUntrustedThreadsSuspendAll() no thread  *)
(* runs untrusted code, the registers of a stopped thread change only as   *)
(* the debugger asks, and a thread goes on with the registers it then has. *)
(***************************************************************************)
CONSTANTS Threads, Values

VARIABLES
    phase,    \* what the debug stub is doing
    status,   \* status[t]: t is free to run untrusted code, held or leaving
    regs      \* regs[t]: the registers of the untrusted code of t

vars == <<phase, status, regs>>

Init ==
    /\ phase = "running"
    /\ status = [t \in Threads |-> "free"]
    /\ regs \in [Threads -> Values]

Status(t, from, to) ==
    /\ status[t] = from
    /\ status' = [status EXCEPT ![t] = to]

(* Untrusted code runs.                                                    *)
Run(t) ==
    /\ status[t] = "free"
    /\ \E v \in Values : regs' = [regs EXCEPT ![t] = v]
    /\ UNCHANGED <<phase, status>>

(* The stop of the threads begins, holds one thread, and is complete.      *)
Stop ==
    /\ phase = "running"
    /\ phase' = "stopping"
    /\ UNCHANGED <<status, regs>>

Hold(t) ==
    /\ phase = "stopping"
    /\ Status(t, "free", "held")
    /\ UNCHANGED <<phase, regs>>

Stopped ==
    /\ phase = "stopping"
    /\ \A t \in Threads : status[t] = "held"
    /\ phase' = "stopped"
    /\ UNCHANGED <<status, regs>>

(* The debugger changes the registers of a stopped thread.                 *)
Edit(t) ==
    /\ phase = "stopped"
    /\ \E v \in Values : regs' = [regs EXCEPT ![t] = v]
    /\ UNCHANGED <<phase, status>>

(* The debugger continues, and one thread or all threads are released.  A  *)
(* thread that had been interrupted goes on in its own time.               *)
Continue ==
    /\ phase = "stopped"
    /\ phase' = "resuming"
    /\ UNCHANGED <<status, regs>>

Release(t) ==
    /\ phase = "resuming"
    /\ Status(t, "held", "free") \/ Status(t, "held", "leaving")
    /\ UNCHANGED <<phase, regs>>

Resumed ==
    /\ phase = "resuming"
    /\ \E t \in Threads : status[t] # "held"
    /\ phase' = "running"
    /\ UNCHANGED <<status, regs>>

Leave(t) ==
    /\ Status(t, "leaving", "free")
    /\ UNCHANGED <<phase, regs>>

Next ==
    \/ \E t \in Threads : \/ Run(t) \/ Hold(t) \/ Edit(t)
                          \/ Release(t) \/ Leave(t)
    \/ Stop \/ Stopped \/ Continue \/ Resumed

Spec == Init /\ [][Next]_vars
=============================================================================
