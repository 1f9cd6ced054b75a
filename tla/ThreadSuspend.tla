--------------------------- MODULE ThreadSuspend ---------------------------
(***************************************************************************)
(* Thread suspension on Linux: how the debug stub stops and resumes the    *)
(* threads that host untrusted code.  A host thread changes its            *)
(* suspend_state by compare-and-swap when it crosses the sandbox boundary; *)
(* the debug stub asks it to suspend by the same word, by a signal if      *)
(* untrusted code runs, and both sides sleep on that word as a futex.  A   *)
(* fault in untrusted code blocks the thread in its signal handler until   *)
(* the debug stub has suspended and unblocked it.                          *)
(*                                                                         *)
(* suspend_state is the set of its bits.  Each step is one access to       *)
(* shared memory; the non-atomic |= of the handler is two steps.  Signals  *)
(* do not queue, and all of them are masked while a handler runs.          *)
(* NaClTlsGetCurrentThread() is taken to be the thread that gets the       *)
(* signal (SandboxRunsOnItsThread of CallGate).  threads_mu keeps the set  *)
(* of threads fixed between suspend and resume.  Where the code checks a   *)
(* state and aborts the process, the step has the check as its guard and   *)
(* SanityChecks says that the check does not fail.                         *)
(***************************************************************************)
EXTENDS Naturals, FiniteSets, TLC

CONSTANTS
    Threads,   \* the NaClAppThreads of the sandbox
    Values,    \* values of the registers of untrusted code
    Faulty     \* those whose untrusted code may fault

ASSUME ThreadSuspendAssumption ==
    /\ IsFiniteSet(Threads) /\ Threads # {}
    /\ Values # {}
    /\ Faulty \subseteq Threads

U == "UNTRUSTED"
T == "TRUSTED"
SUSPENDING == "SUSPENDING"
SUSPENDED == "SUSPENDED"
SuspendState == SUBSET {U, T, SUSPENDING, SUSPENDED}

VARIABLES
    suspend_state,         \* natp->suspend_state
    pc,                    \* the code of the host thread
    handler,               \* its signal handler, "none" if it is not in one
    faulting,              \* the handler runs for a fault
    seen,                  \* the suspend_state the host thread read last
    hseen,                 \* the one its signal handler read last
    sleeping,              \* the host thread sleeps in FutexWait
    pending,               \* NACL_THREAD_SUSPEND_SIGNAL is pending
    regs,                  \* registers of the untrusted code
    suspended_registers,   \* natp->suspended_registers->context
    fault_signal,          \* natp->fault_signal # 0
    faulted_thread_count,  \* nap->faulted_thread_count
    pipe,                  \* the pipe of faulted_thread_fd_* has data
    ctl,                   \* the code of the debug stub
    todo,                  \* threads left in its loop over nap->threads
    cur,                   \* the thread the loop has reached
    old,                   \* the suspend_state the debug stub read last
    ctlSleeping,           \* the debug stub sleeps in FutexWait
    sig,                   \* sig_thread_, {} for 0
    ret,                   \* where the debug stub goes on after the suspension
    step,                  \* step_over_breakpoint_thread_, {} for 0
    gdb                    \* where an interrupt from GDB waits to be read

hostVars == <<pc, handler, faulting, seen, hseen, sleeping>>
regVars == <<regs, suspended_registers>>
faultVars == <<fault_signal, faulted_thread_count, pipe>>
loopVars == <<todo, cur, old>>
stubVars == <<sig, step, ret, gdb>>
ctlVars == <<ctl, ctlSleeping, loopVars, stubVars>>
vars == <<suspend_state, pending, hostVars, regVars, faultVars, ctlVars>>

TypeOK ==
    /\ suspend_state \in [Threads -> SuspendState]
    /\ pc \in [Threads -> {"untrusted", "enter", "enterWait", "trusted",
                           "leave", "leaveWait"}]
    /\ handler \in [Threads -> {"none", "check", "save", "set", "wake",
                                "test", "futex", "apply", "again", "count",
                                "event", "sigwait"}]
    /\ faulting \in [Threads -> BOOLEAN]
    /\ seen \in [Threads -> SuspendState]
    /\ hseen \in [Threads -> SuspendState]
    /\ sleeping \in [Threads -> BOOLEAN]
    /\ pending \in [Threads -> BOOLEAN]
    /\ regs \in [Threads -> Values]
    /\ suspended_registers \in [Threads -> Values]
    /\ fault_signal \in [Threads -> BOOLEAN]
    /\ faulted_thread_count \in Nat
    /\ pipe \in BOOLEAN
    /\ ctl \in {"wait", "poll", "select", "process", "pick", "read", "cas",
                "dcheck", "kill", "join", "joinWait", "unqueue", "stopped",
                "resume", "resumeRead", "resumeCas", "resumeWake"}
    /\ todo \subseteq Threads
    /\ cur \in Threads
    /\ old \in SuspendState
    /\ ctlSleeping \in BOOLEAN
    /\ sig \subseteq Threads
    /\ step \subseteq sig
    /\ ret \in {"unqueue", "stopped"}
    /\ gdb \in {"none", "socket", "buffer"}

Init ==
    /\ suspend_state = [t \in Threads |-> {T}]
    /\ pc = [t \in Threads |-> "trusted"]
    /\ handler = [t \in Threads |-> "none"]
    /\ faulting = [t \in Threads |-> FALSE]
    /\ seen = [t \in Threads |-> {}]
    /\ hseen = [t \in Threads |-> {}]
    /\ sleeping = [t \in Threads |-> FALSE]
    /\ pending = [t \in Threads |-> FALSE]
    /\ regs \in [Threads -> Values]
    /\ suspended_registers = regs
    /\ fault_signal = [t \in Threads |-> FALSE]
    /\ faulted_thread_count = 0
    /\ pipe = FALSE
    /\ ctl = "wait"
    /\ todo = {}
    /\ cur \in Threads
    /\ old = {}
    /\ ctlSleeping = FALSE
    /\ sig = {}
    /\ step = {}
    /\ ret = "stopped"
    /\ gdb = "none"

-----------------------------------------------------------------------------
(***************************************************************************)
(* The host thread outside its signal handler.                             *)
(***************************************************************************)
Runs(t, place) == handler[t] = "none" /\ pc[t] = place /\ ~sleeping[t]

Goto(t, place) == pc' = [pc EXCEPT ![t] = place]

RunUntrusted(t) ==
    /\ Runs(t, "untrusted")
    /\ \E v \in Values : regs' = [regs EXCEPT ![t] = v]
    /\ UNCHANGED <<suspend_state, pending, suspended_registers, hostVars,
                   faultVars, ctlVars>>

(* A system call begins, or its work is over: the thread comes to          *)
(* NaClAppThreadSetSuspendState().                                         *)
Syscall(t) ==
    /\ \/ Runs(t, "untrusted") /\ Goto(t, "enter")
       \/ Runs(t, "trusted") /\ Goto(t, "leave")
    /\ UNCHANGED <<suspend_state, handler, faulting, seen, hseen, sleeping,
                   pending, regVars, faultVars, ctlVars>>

(* NaClAppThreadSetSuspendState(): the compare-and-swap and the choice     *)
(* that follows from the state it found.                                   *)
SetSuspendState(t, from, to, place, wait) ==
    \/ /\ suspend_state[t] = {from}
       /\ suspend_state' = [suspend_state EXCEPT ![t] = {to}]
       /\ Goto(t, place)
       /\ UNCHANGED seen
    \/ /\ SUSPENDING \in suspend_state[t]
       /\ seen' = [seen EXCEPT ![t] = suspend_state[t]]
       /\ Goto(t, wait)
       /\ UNCHANGED suspend_state

SwitchState(t) ==
    /\ \/ Runs(t, "enter") /\ SetSuspendState(t, U, T, "trusted", "enterWait")
       \/ Runs(t, "leave")
          /\ SetSuspendState(t, T, U, "untrusted", "leaveWait")
    /\ UNCHANGED <<handler, faulting, hseen, sleeping, pending, regVars,
                   faultVars, ctlVars>>

(* FutexWait(): sleep if the word is still what was read, else go on.      *)
FutexReturns(t) ==
    /\ Goto(t, IF pc[t] = "enterWait" THEN "enter" ELSE "leave")
    /\ seen' = [seen EXCEPT ![t] = {}]

(* Mutant: sleeps without looking at the word again.                       *)
SwitchSleep(t) ==
    /\ Runs(t, "enterWait") \/ Runs(t, "leaveWait")
    /\ sleeping' = [sleeping EXCEPT ![t] = TRUE]
    /\ UNCHANGED <<suspend_state, pc, handler, faulting, seen, hseen, pending,
                   regVars, faultVars, ctlVars>>

SwitchWait(t) ==
    /\ Runs(t, "enterWait") \/ Runs(t, "leaveWait")
    /\ \/ /\ suspend_state[t] = seen[t]
          /\ sleeping' = [sleeping EXCEPT ![t] = TRUE]
          /\ UNCHANGED <<pc, seen>>
       \/ /\ suspend_state[t] # seen[t]
          /\ FutexReturns(t)
          /\ UNCHANGED sleeping
    /\ UNCHANGED <<suspend_state, handler, faulting, hseen, pending, regVars,
                   faultVars, ctlVars>>

-----------------------------------------------------------------------------
(***************************************************************************)
(* Its signal handler.                                                     *)
(***************************************************************************)
Handles(t, place) == handler[t] = place /\ ~sleeping[t]

Handler(t, place) == handler' = [handler EXCEPT ![t] = place]

(* The signal arrives; it interrupts the futex call, which is retried.     *)
DeliverSignal(t) ==
    /\ handler[t] = "none" /\ pending[t]
    /\ pending' = [pending EXCEPT ![t] = FALSE]
    /\ Handler(t, "check")
    /\ sleeping' = [sleeping EXCEPT ![t] = FALSE]
    /\ IF sleeping[t] THEN FutexReturns(t) ELSE UNCHANGED <<pc, seen>>
    /\ UNCHANGED <<suspend_state, faulting, hseen, regVars, faultVars,
                   ctlVars>>

(* HandleSuspendSignal(), statement by statement.                          *)
HandlerCheck(t) ==
    /\ Handles(t, "check")
    /\ suspend_state[t] = {U, SUSPENDING}
    /\ Handler(t, "save")
    /\ UNCHANGED <<suspend_state, pc, faulting, seen, hseen, sleeping,
                   pending, regVars, faultVars, ctlVars>>

HandlerSave(t) ==
    /\ Handles(t, "save")
    /\ suspended_registers' = [suspended_registers EXCEPT ![t] = regs[t]]
    /\ hseen' = [hseen EXCEPT ![t] = suspend_state[t]]
    /\ Handler(t, "set")
    /\ UNCHANGED <<suspend_state, pc, faulting, seen, sleeping, pending,
                   regs, faultVars, ctlVars>>

HandlerSet(t) ==
    /\ Handles(t, "set")
    /\ suspend_state' = [suspend_state EXCEPT ![t] = hseen[t] \cup {SUSPENDED}]
    /\ Handler(t, "wake")
    /\ UNCHANGED <<pc, faulting, seen, hseen, sleeping, pending, regVars,
                   faultVars, ctlVars>>

(* FutexWake(): the only other sleeper on this futex is the debug stub.    *)
HandlerWake(t) ==
    /\ Handles(t, "wake")
    /\ ctlSleeping' = (ctlSleeping /\ cur # t)
    /\ Handler(t, "test")
    /\ UNCHANGED <<suspend_state, pc, faulting, seen, hseen, sleeping,
                   pending, ctl, regVars, faultVars, loopVars, stubVars>>

(* Mutant: the state is read once, before the loop.                        *)
HandlerTestsOnce(t) ==
    /\ Handles(t, "test")
    /\ hseen' = [hseen EXCEPT ![t] = IF SUSPENDED \in @ THEN @
                                     ELSE suspend_state[t]]
    /\ Handler(t, IF SUSPENDED \in hseen'[t] THEN "futex" ELSE "apply")
    /\ UNCHANGED <<suspend_state, pc, faulting, seen, sleeping, pending,
                   regVars, faultVars, ctlVars>>

HandlerTest(t) ==
    /\ Handles(t, "test")
    /\ \/ /\ SUSPENDED \in suspend_state[t]
          /\ hseen' = [hseen EXCEPT ![t] = suspend_state[t]]
          /\ Handler(t, "futex")
       \/ /\ SUSPENDED \notin suspend_state[t]
          /\ hseen' = [hseen EXCEPT ![t] = {}]
          /\ Handler(t, "apply")
    /\ UNCHANGED <<suspend_state, pc, faulting, seen, sleeping, pending,
                   regVars, faultVars, ctlVars>>

HandlerFutex(t) ==
    /\ Handles(t, "futex")
    /\ \/ /\ suspend_state[t] = hseen[t]
          /\ sleeping' = [sleeping EXCEPT ![t] = TRUE]
          /\ UNCHANGED handler
       \/ /\ suspend_state[t] # hseen[t]
          /\ Handler(t, "test")
          /\ UNCHANGED sleeping
    /\ UNCHANGED <<suspend_state, pc, faulting, seen, hseen, pending,
                   regVars, faultVars, ctlVars>>

(* Mutant: returns to the registers at the time of the signal.             *)
HandlerDropsRegisters(t) ==
    /\ Handles(t, "apply")
    /\ Handler(t, IF faulting[t] THEN "again" ELSE "none")
    /\ UNCHANGED <<suspend_state, pc, faulting, seen, hseen, sleeping, pending,
                   regVars, faultVars, ctlVars>>

(* Apply register modifications; a fault handler then looks at             *)
(* fault_signal, any other one returns.                                    *)
HandlerApply(t) ==
    /\ Handles(t, "apply")
    /\ regs' = [regs EXCEPT ![t] = suspended_registers[t]]
    /\ Handler(t, IF faulting[t] THEN "again" ELSE "none")
    /\ UNCHANGED <<suspend_state, pc, faulting, seen, hseen, sleeping,
                   pending, suspended_registers, faultVars, ctlVars>>

(* HandleUntrustedFault(): mark the thread, count it, tell the debug stub, *)
(* then take suspend signals until the debug stub has unblocked the thread.*)
Fault(t) ==
    /\ t \in Faulty
    /\ Runs(t, "untrusted")
    /\ U \in suspend_state[t]
    /\ fault_signal' = [fault_signal EXCEPT ![t] = TRUE]
    /\ faulting' = [faulting EXCEPT ![t] = TRUE]
    /\ Handler(t, "count")
    /\ UNCHANGED <<suspend_state, pc, seen, hseen, sleeping, pending,
                   faulted_thread_count, pipe, regVars, ctlVars>>

FaultCount(t) ==
    /\ Handles(t, "count")
    /\ faulted_thread_count' = faulted_thread_count + 1
    /\ Handler(t, "event")
    /\ UNCHANGED <<suspend_state, pc, faulting, seen, hseen, sleeping,
                   pending, fault_signal, pipe, regVars, ctlVars>>

(* Mutant: no event on the pipe.                                           *)
FaultNoEvent(t) ==
    /\ Handles(t, "event")
    /\ Handler(t, "sigwait")
    /\ UNCHANGED <<suspend_state, pc, faulting, seen, hseen, sleeping, pending,
                   regVars, faultVars, ctlVars>>

FaultEvent(t) ==
    /\ Handles(t, "event")
    /\ pipe' = TRUE
    /\ Handler(t, "sigwait")
    /\ UNCHANGED <<suspend_state, pc, faulting, seen, hseen, sleeping,
                   pending, fault_signal, faulted_thread_count, regVars,
                   ctlVars>>

FaultSigwait(t) ==
    /\ Handles(t, "sigwait")
    /\ pending[t]
    /\ pending' = [pending EXCEPT ![t] = FALSE]
    /\ Handler(t, "check")
    /\ UNCHANGED <<suspend_state, pc, faulting, seen, hseen, sleeping,
                   regVars, faultVars, ctlVars>>

FaultAgain(t) ==
    /\ Handles(t, "again")
    /\ Handler(t, IF fault_signal[t] THEN "sigwait" ELSE "none")
    /\ faulting' = [faulting EXCEPT ![t] = fault_signal[t]]
    /\ UNCHANGED <<suspend_state, pc, seen, hseen, sleeping, pending,
                   regVars, faultVars, ctlVars>>

-----------------------------------------------------------------------------
(***************************************************************************)
(* The debug stub: Target::Run() and the functions it calls.               *)
(***************************************************************************)
CtlGoto(place) == ctl' = place

GdbInterrupt ==
    /\ ctl # "stopped" /\ gdb = "none"
    /\ gdb' = "socket"
    /\ UNCHANGED <<suspend_state, pending, ctl, ctlSleeping, sig, step, ret,
                   hostVars, regVars, faultVars, loopVars>>

(* WaitForDebugStubEvent(): choose the timeout of select() ...             *)
WaitForDebugEvent ==
    /\ ctl = "wait"
    /\ CtlGoto(IF faulted_thread_count > 0 \/ (gdb = "buffer" /\ step = {})
               THEN "poll" ELSE "select")
    /\ UNCHANGED <<suspend_state, pending, ctlSleeping, hostVars, regVars,
                   faultVars, loopVars, stubVars>>

(* ... and read what has come.                                             *)
Select ==
    /\ \/ ctl = "poll"
       \/ ctl = "select" /\ (pipe \/ gdb = "socket")
    /\ pipe' = FALSE
    /\ gdb' = IF gdb = "socket" THEN "buffer" ELSE gdb
    /\ CtlGoto("process")
    /\ UNCHANGED <<suspend_state, pending, fault_signal,
                   faulted_thread_count, ctlSleeping, sig, step, ret,
                   hostVars, regVars, loopVars>>

(* ProcessDebugEvent() up to the call that suspends threads.               *)
Suspend(threads, place) ==
    CtlGoto("pick") /\ todo' = threads /\ ret' = place

ProcessDebugEvent ==
    /\ ctl = "process"
    /\ \/ /\ step # {}
          /\ \E t \in step : fault_signal[t]
          /\ Suspend(step, "unqueue")
          /\ UNCHANGED sig
       \/ /\ step = {} /\ faulted_thread_count # 0
          /\ Suspend(Threads, "unqueue")
          /\ UNCHANGED sig
       \/ /\ step = {} /\ faulted_thread_count = 0 /\ gdb # "none"
          /\ Suspend(Threads, "stopped")
          /\ sig' = {}
       \/ /\ IF step # {} THEN \A t \in step : ~fault_signal[t]
             ELSE faulted_thread_count = 0 /\ gdb = "none"
          /\ CtlGoto("wait")
          /\ UNCHANGED <<todo, sig, ret>>
    /\ UNCHANGED <<suspend_state, pending, ctlSleeping, cur, old, step, gdb,
                   hostVars, regVars, faultVars>>

(* NaClUntrustedThreadsSuspendAll() and NaClUntrustedThreadSuspend().      *)
PickThread ==
    /\ ctl = "pick"
    /\ \/ /\ todo # {}
          /\ cur' \in todo
          /\ todo' = todo \ {cur'}
          /\ CtlGoto("read")
       \/ /\ todo = {}
          /\ CtlGoto(ret)
          /\ UNCHANGED <<cur, todo>>
    /\ UNCHANGED <<suspend_state, pending, ctlSleeping, old, hostVars,
                   regVars, faultVars, stubVars>>

ReadState ==
    /\ ctl = "read"
    /\ SUSPENDING \notin suspend_state[cur]
    /\ old' = suspend_state[cur]
    /\ CtlGoto("cas")
    /\ UNCHANGED <<suspend_state, pending, ctlSleeping, todo, cur, hostVars,
                   regVars, faultVars, stubVars>>

(* Mutant: a store in place of the compare-and-swap.                       *)
StoreSuspending ==
    /\ ctl = "cas"
    /\ suspend_state' = [suspend_state EXCEPT ![cur] = old \cup {SUSPENDING}]
    /\ CtlGoto("dcheck")
    /\ UNCHANGED <<pending, ctlSleeping, hostVars, regVars, faultVars,
                   loopVars, stubVars>>

AskToSuspend ==
    /\ ctl = "cas"
    /\ suspend_state[cur] = old
    /\ suspend_state' = [suspend_state EXCEPT ![cur] = old \cup {SUSPENDING}]
    /\ CtlGoto("dcheck")
    /\ UNCHANGED <<pending, ctlSleeping, hostVars, regVars, faultVars,
                   loopVars, stubVars>>

AskAgain ==
    /\ ctl = "cas"
    /\ suspend_state[cur] # old
    /\ CtlGoto("read")
    /\ UNCHANGED <<suspend_state, pending, ctlSleeping, hostVars, regVars,
                   faultVars, loopVars, stubVars>>

CheckState ==
    /\ ctl = "dcheck"
    /\ suspend_state[cur] = old \cup {SUSPENDING}
    /\ CtlGoto(IF old = {U} THEN "kill" ELSE "pick")
    /\ UNCHANGED <<suspend_state, pending, ctlSleeping, hostVars, regVars,
                   faultVars, loopVars, stubVars>>

Kill ==
    /\ ctl = "kill"
    /\ pending' = [pending EXCEPT ![cur] = TRUE]
    /\ CtlGoto("join")
    /\ UNCHANGED <<suspend_state, ctlSleeping, hostVars, regVars, faultVars,
                   loopVars, stubVars>>

(* Mutant: does not wait for the thread to suspend.                        *)
DoNotJoin ==
    /\ ctl = "join" /\ ~ctlSleeping
    /\ CtlGoto("pick")
    /\ UNCHANGED <<suspend_state, pending, ctlSleeping, hostVars, regVars,
                   faultVars, loopVars, stubVars>>

(* Mutant: tests the bits of kBaseState only, and so waits for ever.       *)
JoinTestsBits ==
    /\ ctl = "join" /\ ~ctlSleeping
    /\ {U, SUSPENDING} \subseteq suspend_state[cur]
    /\ CtlGoto("joinWait")
    /\ UNCHANGED <<suspend_state, pending, ctlSleeping, hostVars, regVars,
                   faultVars, loopVars, stubVars>>

(* WaitForUntrustedThreadToSuspend().                                      *)
Join ==
    /\ ctl = "join" /\ ~ctlSleeping
    /\ \/ suspend_state[cur] = {U, SUSPENDING} /\ CtlGoto("joinWait")
       \/ suspend_state[cur] = {U, SUSPENDING, SUSPENDED} /\ CtlGoto("pick")
    /\ UNCHANGED <<suspend_state, pending, ctlSleeping, hostVars, regVars,
                   faultVars, loopVars, stubVars>>

JoinWait ==
    /\ ctl = "joinWait"
    /\ ctlSleeping' = (suspend_state[cur] = {U, SUSPENDING})
    /\ CtlGoto("join")
    /\ UNCHANGED <<suspend_state, pending, hostVars, regVars, faultVars,
                   loopVars, stubVars>>

(* UnqueueFaultedThread(), of a faulted thread or of the stepped one, and  *)
(* NaClAppThreadUnblockIfFaulted(), whose thread must be suspended.        *)
Unqueueable == {t \in IF step = {} THEN Threads ELSE step : fault_signal[t]}

IsSuspended(t) == suspend_state[t] \in {{U, SUSPENDING, SUSPENDED},
                                       {T, SUSPENDING}}

(* Mutant: counts the thread as unblocked but leaves fault_signal set.     *)
UnqueueKeepsSignal ==
    /\ ctl = "unqueue"
    /\ \E t \in Unqueueable :
         /\ IsSuspended(t)
         /\ faulted_thread_count' = faulted_thread_count - 1
         /\ sig' = {t}
    /\ step' = {}
    /\ CtlGoto("stopped")
    /\ UNCHANGED <<suspend_state, pending, fault_signal, pipe, ctlSleeping, ret,
                   gdb, hostVars, regVars, loopVars>>

UnqueueFaultedThread ==
    /\ ctl = "unqueue"
    /\ \E t \in Unqueueable :
         /\ IsSuspended(t)
         /\ fault_signal' = [fault_signal EXCEPT ![t] = FALSE]
         /\ faulted_thread_count' = faulted_thread_count - 1
         /\ sig' = {t}
    /\ step' = {}
    /\ CtlGoto("stopped")
    /\ UNCHANGED <<suspend_state, pending, pipe, ctlSleeping, ret, gdb,
                   hostVars, regVars, loopVars>>

(* The debugger writes registers; they reach the thread at the latest when *)
(* Resume() calls CopyRegistersToAppThread(), and only if untrusted code   *)
(* was interrupted.                                                        *)
EditRegisters(t) ==
    /\ ctl = "stopped"
    /\ U \in suspend_state[t] /\ pc[t] = "untrusted"
    /\ \E v \in Values :
         suspended_registers' = [suspended_registers EXCEPT ![t] = v]
    /\ UNCHANGED <<suspend_state, pending, regs, hostVars, faultVars,
                   ctlVars>>

(* Mutant: lets any thread step over a breakpoint.                         *)
ContinueAnyThread ==
    /\ ctl = "stopped"
    /\ \/ step' = {} /\ todo' = Threads
       \/ \E t \in Threads : step' = {t} /\ todo' = {t}
    /\ gdb' = "none"
    /\ CtlGoto("resume")
    /\ UNCHANGED <<suspend_state, pending, ctlSleeping, cur, old, sig, ret,
                   hostVars, regVars, faultVars>>

(* A continue packet: Target::Resume() of all threads, or of the thread    *)
(* that is to step over a breakpoint.                                      *)
Continue ==
    /\ ctl = "stopped"
    /\ \/ step' = {} /\ todo' = Threads
       \/ sig # {} /\ step' = sig /\ todo' = sig
    /\ gdb' = "none"
    /\ CtlGoto("resume")
    /\ UNCHANGED <<suspend_state, pending, ctlSleeping, cur, old, sig, ret,
                   hostVars, regVars, faultVars>>

(* NaClUntrustedThreadsResumeAll() and NaClUntrustedThreadResume().        *)
ResumePick ==
    /\ ctl = "resume"
    /\ \/ /\ todo # {}
          /\ cur' \in todo
          /\ todo' = todo \ {cur'}
          /\ CtlGoto("resumeRead")
       \/ /\ todo = {}
          /\ CtlGoto("wait")
          /\ UNCHANGED <<cur, todo>>
    /\ UNCHANGED <<suspend_state, pending, ctlSleeping, old, hostVars,
                   regVars, faultVars, stubVars>>

ResumeRead ==
    /\ ctl = "resumeRead"
    /\ SUSPENDING \in suspend_state[cur]
    /\ old' = suspend_state[cur]
    /\ CtlGoto("resumeCas")
    /\ UNCHANGED <<suspend_state, pending, ctlSleeping, todo, cur, hostVars,
                   regVars, faultVars, stubVars>>

ResumeCas ==
    /\ ctl = "resumeCas"
    /\ suspend_state[cur] = old
    /\ suspend_state' = [suspend_state EXCEPT
                            ![cur] = old \ {SUSPENDING, SUSPENDED}]
    /\ CtlGoto("resumeWake")
    /\ UNCHANGED <<pending, ctlSleeping, hostVars, regVars, faultVars,
                   loopVars, stubVars>>

(* FutexWake() lets the thread look at the state again, in                 *)
(* NaClAppThreadSetSuspendState() or in HandleSuspendSignal().             *)
ResumeWake ==
    /\ ctl = "resumeWake"
    /\ sleeping' = [sleeping EXCEPT ![cur] = FALSE]
    /\ IF sleeping[cur] /\ handler[cur] = "none"
       THEN FutexReturns(cur) ELSE UNCHANGED <<pc, seen>>
    /\ IF sleeping[cur] /\ handler[cur] = "futex"
       THEN Handler(cur, "test") ELSE UNCHANGED handler
    /\ CtlGoto("resume")
    /\ UNCHANGED <<suspend_state, faulting, hseen, pending, ctlSleeping,
                   regVars, faultVars, loopVars, stubVars>>

-----------------------------------------------------------------------------
(* The steps a host thread takes whenever it gets a processor ...          *)
HostStep(t) ==
    \/ SwitchState(t) \/ SwitchWait(t) \/ DeliverSignal(t)
    \/ HandlerCheck(t) \/ HandlerSave(t) \/ HandlerSet(t) \/ HandlerWake(t)
    \/ HandlerTest(t) \/ HandlerFutex(t) \/ HandlerApply(t)
    \/ FaultCount(t) \/ FaultEvent(t) \/ FaultSigwait(t) \/ FaultAgain(t)

(* ... and those the debug stub takes.                                     *)
StubStep ==
    \/ WaitForDebugEvent \/ Select \/ ProcessDebugEvent
    \/ PickThread \/ ReadState \/ AskToSuspend \/ AskAgain \/ CheckState
    \/ Kill \/ Join \/ JoinWait \/ UnqueueFaultedThread
    \/ ResumePick \/ ResumeRead \/ ResumeCas \/ ResumeWake

Next ==
    \/ \E t \in Threads : HostStep(t) \/ RunUntrusted(t) \/ Syscall(t)
                           \/ Fault(t) \/ EditRegisters(t)
    \/ StubStep \/ GdbInterrupt \/ Continue

(* A thread that can go on gets a processor; nothing makes untrusted code  *)
(* trap, a system call end or the debugger act.  The compare-and-swap of   *)
(* the debug stub may lose to the boundary crossings of its thread, but    *)
(* not for ever.                                                           *)
Fairness ==
    /\ \A t \in Threads : WF_vars(HostStep(t))
    /\ WF_vars(StubStep)
    /\ SF_vars(AskToSuspend)

Spec == Init /\ [][Next]_vars

FairSpec == Spec /\ Fairness

(* Threads are interchangeable when all of them may fault; so are values.  *)
Symmetry == Permutations(Threads) \cup Permutations(Values)

-----------------------------------------------------------------------------
(***************************************************************************)
(* Properties.                                                             *)
(***************************************************************************)

(* The checks that end the process (LOG_FATAL, NaClAbort, CHECK, DCHECK)   *)
(* do not fail in any interleaving: NaClAppThreadSetSuspendState() finds   *)
(* its own state or a request to suspend, HandleSuspendSignal() the request*)
(* its signal was sent for, HandleUntrustedFault() an untrusted thread,    *)
(* NaClUntrustedThreadSuspend() a thread not yet asked and no race after   *)
(* it asked, WaitForUntrustedThreadToSuspend() one of two states,          *)
(* UnqueueAnyFaultedThread() a suspended faulted thread, and               *)
(* NaClUntrustedThreadResume() a suspended thread that leaves the state    *)
(* alone.  Nothing has taken a value outside its type either.              *)
SanityChecks ==
    /\ TypeOK
    /\ \A t \in Threads :
         /\ Runs(t, "enter") /\ suspend_state[t] # {U}
              => SUSPENDING \in suspend_state[t]
         /\ Runs(t, "leave") /\ suspend_state[t] # {T}
              => SUSPENDING \in suspend_state[t]
         /\ Runs(t, "untrusted") => U \in suspend_state[t]
         /\ Handles(t, "check") => suspend_state[t] = {U, SUSPENDING}
    /\ ctl = "read" => SUSPENDING \notin suspend_state[cur]
    /\ ctl = "dcheck" => suspend_state[cur] = old \cup {SUSPENDING}
    /\ ctl = "join" => suspend_state[cur] \in {{U, SUSPENDING},
                                             {U, SUSPENDING, SUSPENDED}}
    /\ ctl = "unqueue" => /\ Unqueueable # {}
                          /\ \A t \in Unqueueable : IsSuspended(t)
    /\ ctl = "resumeRead" => SUSPENDING \in suspend_state[cur]
    /\ ctl = "resumeCas" => suspend_state[cur] = old

(* After NaClUntrustedThreadsSuspendAll(), and while one thread steps over *)
(* a breakpoint for all others, no thread can execute untrusted code until *)
(* it is resumed: it is in trusted code or in the loop of                  *)
(* HandleSuspendSignal().                                                  *)
CannotRunUntrusted(t) ==
    \/ pc[t] \in {"trusted", "leave", "leaveWait"} /\ handler[t] = "none"
    \/ handler[t] \in {"wake", "test", "futex"}

UntrustedCodeStopped ==
    /\ ctl \in {"unqueue", "stopped"} =>
         \A t \in Threads : CannotRunUntrusted(t)
    /\ \A t \in Threads \ step : step # {} => CannotRunUntrusted(t)

(* faulted_thread_count is the number of threads whose fault_signal is     *)
(* non-zero (its comment in sel_ldr.h), except for a thread between the    *)
(* two statements of HandleUntrustedFault() that keep it so.               *)
FaultCountCorrect ==
    faulted_thread_count =
        Cardinality({t \in Threads : fault_signal[t] /\ handler[t] # "count"})

(* The comment on the |= of HandleSuspendSignal(): no other thread changes *)
(* suspend_state between its read and its write, so no bit is lost.        *)
NoLostUpdate ==
    \A t \in Threads : handler[t] = "set" => hseen[t] = suspend_state[t]

(* No wake-up is lost: a host thread sleeps only while it is asked to      *)
(* suspend, or until NaClUntrustedThreadResume() comes to its FutexWake(); *)
(* the debug stub sleeps only until the handler comes to its own.          *)
NoLostWakeup ==
    /\ \A t \in Threads :
         sleeping[t] => \/ SUSPENDING \in suspend_state[t]
                        \/ ctl = "resumeWake" /\ cur = t
    /\ ctlSleeping => \/ suspend_state[cur] = {U, SUSPENDING}
                      \/ handler[cur] = "wake"

(* NaClUntrustedThreadsSuspendAll() returns, whatever the threads do.      *)
SuspendCompletes == (ctl = "pick") ~> (ctl = "stopped")

(* A fault is reported: the debug stub stops all threads after a fault,    *)
(* unless it waits for another thread to step over a breakpoint.           *)
FaultStops ==
    \A t \in Threads :
        (fault_signal[t] /\ step \subseteq {t}) ~> (ctl = "stopped")

(* A thread that is resumed leaves its signal handler, even if it is asked *)
(* to suspend again before it has noticed that it was resumed; a faulted   *)
(* thread does once it is unblocked.                                       *)
ResumedThreadLeaves ==
    \A t \in Threads :
        (ctl = "resumeWake" /\ cur = t /\ ~fault_signal[t])
            ~> (handler[t] = "none")

(* Thread suspension implements SuspendSpec: the registers of the          *)
(* untrusted code are the saved ones from the time they are saved until    *)
(* they are applied.                                                       *)
Abstract == INSTANCE SuspendSpec WITH
    phase <- CASE ctl \in {"wait", "poll", "select", "process"} -> "running"
               [] ctl = "stopped" -> "stopped"
               [] ctl \in {"resume", "resumeRead", "resumeCas", "resumeWake"}
                    -> "resuming"
               [] OTHER -> "stopping",
    status <- [t \in Threads |->
                 IF IsSuspended(t) THEN "held"
                 ELSE IF handler[t] \in {"wake", "test", "futex", "apply"}
                      THEN "leaving" ELSE "free"],
    regs <- [t \in Threads |->
               IF handler[t] \in {"set", "wake", "test", "futex", "apply"}
               THEN suspended_registers[t] ELSE regs[t]]

ImplementsSuspendSpec == Abstract!Spec

=============================================================================
