------------------------ MODULE ThreadSuspendProofs ------------------------
(***************************************************************************)
(* Proofs about ThreadSuspend, for any finite set of threads, any of which *)
(* may fault, and any registers.                                           *)
(*                                                                         *)
(* Every promise of the code comes down to who may change suspend_state    *)
(* when.  Two facts carry the rest.  Protocol says, for each thread, which *)
(* positions of the thread, of its handler and of the debug stub go with   *)
(* which value of the word; Progress says how far the loops of             *)
(* NaClUntrustedThreadsSuspendAll() and NaClUntrustedThreadsResumeAll()    *)
(* have come: which threads are free, which are held, and which one is in  *)
(* between.                                                                *)
(***************************************************************************)
EXTENDS ThreadSuspend, FiniteSetTheorems, TLAPS

FreeStates == {{U}, {T}}
Asked      == {U, SUSPENDING}
HeldStates == {{U, SUSPENDING, SUSPENDED}, {T, SUSPENDING}}

Free(t) == suspend_state[t] \in FreeStates

InUntrusted == {"untrusted", "enter", "enterWait"}
Answering   == {"check", "save", "set"}
Answered    == {"wake", "test", "futex"}
Joining     == {"join", "joinWait"}

(* What the word of thread t says about where t, its handler and the debug *)
(* stub are.                                                               *)
Word(t) ==
    /\ suspend_state[t] \in FreeStates \cup {Asked} \cup HeldStates
    /\ U \in suspend_state[t] <=> pc[t] \in InUntrusted
    /\ T \in suspend_state[t] => handler[t] = "none"
    /\ SUSPENDED \in suspend_state[t] => handler[t] \in Answered
    /\ suspend_state[t] = Asked =>
         /\ cur = t
         /\ \/ ctl \in {"dcheck", "kill"}
            \/ ctl \in Joining /\ (pending[t] \/ handler[t] \in Answering)

(* A signal is on its way or being answered only while the debug stub      *)
(* waits for this thread.                                                  *)
Signal(t) ==
    /\ pending[t] => suspend_state[t] = Asked /\ ctl \in Joining
    /\ handler[t] \in Answering =>
         suspend_state[t] = Asked /\ ctl \in Joining /\ ~pending[t]
    /\ handler[t] = "set" => hseen[t] = suspend_state[t]
    /\ handler[t] = "futex" => SUSPENDED \in hseen[t]

(* A thread sleeps in one of its two futex calls, and is going to be woken.*)
Sleep(t) ==
    /\ pc[t] \in {"enterWait", "leaveWait"} => SUSPENDING \in seen[t]
    /\ sleeping[t] =>
         /\ \/ handler[t] = "none" /\ pc[t] \in {"enterWait", "leaveWait"}
            \/ handler[t] = "futex"
         /\ \/ SUSPENDING \in suspend_state[t]
            \/ ctl = "resumeWake" /\ cur = t

(* A thread whose fault has not been taken stays in its fault handler.     *)
Faults(t) ==
    /\ fault_signal[t] => faulting[t]
    /\ faulting[t] => handler[t] # "none"
    /\ handler[t] \in {"count", "event"} => fault_signal[t]

Protocol == \A t \in Threads : Word(t) /\ Signal(t) /\ Sleep(t) /\ Faults(t)

(* The threads that a resume or a suspension is about.                     *)
Target(t) == step = {} \/ t \in step

Idle       == {"wait", "poll", "select", "process"}
Suspending == {"pick", "read", "cas", "dcheck", "kill"} \cup Joining
Resuming   == {"resume", "resumeRead", "resumeCas", "resumeWake"}

IdleThread(t) == IF Target(t) THEN Free(t) ELSE IsSuspended(t)

SuspendingThread(t) ==
    /\ t \in todo => Target(t) /\ Free(t)
    /\ t \notin todo /\ (ctl = "pick" \/ t # cur) => IsSuspended(t)

ResumingThread(t) ==
    /\ t \in todo => Target(t) /\ IsSuspended(t)
    /\ t \notin todo /\ (ctl = "resume" \/ t # cur) => IdleThread(t)

Progress ==
    /\ ctl \in Idle => \A t \in Threads : IdleThread(t)
    /\ ctl \in Suspending => \A t \in Threads : SuspendingThread(t)
    /\ ctl \in {"unqueue", "stopped"} => \A t \in Threads : IsSuspended(t)
    /\ ctl \in Resuming => \A t \in Threads : ResumingThread(t)
    /\ ctl \in (Suspending \ {"pick"}) \cup (Resuming \ {"resume"}) =>
         cur \notin todo /\ Target(cur)
    /\ ctl \in {"read", "cas"} => Free(cur)
    /\ ctl = "cas" => old \in FreeStates
    /\ ctl = "dcheck" => /\ old \in FreeStates
                         /\ suspend_state[cur] = old \cup {SUSPENDING}
    /\ ctl = "kill" => suspend_state[cur] = Asked
    /\ ctl \in Joining => \/ suspend_state[cur] = Asked
                          \/ SUSPENDED \in suspend_state[cur]
    /\ ctl = "resumeRead" => IsSuspended(cur)
    /\ ctl = "resumeCas" => IsSuspended(cur) /\ suspend_state[cur] = old
    /\ ctl = "resumeWake" => Free(cur)

(* The debug stub sleeps only in its join, and is going to be woken.       *)
StubSleep ==
    ctlSleeping => /\ ctl = "join"
                   /\ \/ suspend_state[cur] = Asked
                      \/ handler[cur] = "wake"

(* Suspended for a fault, the debug stub will find a faulted thread.       *)
FaultFound ==
    ctl = "unqueue" \/ (ctl \in Suspending /\ ret = "unqueue") =>
        Unqueueable # {}

IInv ==
    /\ TypeOK
    /\ Protocol
    /\ Progress
    /\ StubSleep
    /\ FaultCountCorrect
    /\ FaultFound

-----------------------------------------------------------------------------
(* The values of the word differ in what they contain.                     *)
LEMMA Bits ==
    /\ U # T /\ U # SUSPENDING /\ U # SUSPENDED
    /\ T # SUSPENDING /\ T # SUSPENDED /\ SUSPENDING # SUSPENDED
BY DEF U, T, SUSPENDING, SUSPENDED

(* Abbreviations of the specification that are expanded throughout.        *)
USE DEF Runs, Goto, FutexReturns, Handles, Handler, CtlGoto,
        hostVars, regVars, faultVars, loopVars, stubVars, ctlVars,
        FreeStates, Asked, HeldStates, InUntrusted, Answering, Answered,
        Joining, Idle, Suspending, Resuming

-----------------------------------------------------------------------------
(* The threads that FaultCountCorrect counts.                              *)
Faulted == {t \in Threads : fault_signal[t] /\ handler[t] # "count"}

LEMMA FaultedFinite ==
    IsFiniteSet(Faulted) /\ Cardinality(Faulted) \in Nat
BY ThreadSuspendAssumption, FS_Subset, FS_CardinalityType DEF Faulted

(* A suspended thread whose fault is taken was counted.                    *)
LEMMA CountFalls ==
    ASSUME TypeOK, Protocol, FaultCountCorrect, UnqueueFaultedThread
    PROVE  FaultCountCorrect' /\ faulted_thread_count' \in Nat
<1>1. PICK t \in Threads :
        /\ fault_signal[t] /\ IsSuspended(t)
        /\ fault_signal' = [fault_signal EXCEPT ![t] = FALSE]
        /\ faulted_thread_count' = faulted_thread_count - 1
  BY DEF UnqueueFaultedThread, Unqueueable, TypeOK
<1>2. handler[t] # "count"
  BY <1>1, Bits DEF Protocol, Word, Faults, IsSuspended
<1>3. t \in Faulted /\ Faulted' = Faulted \ {t}
  BY <1>1, <1>2 DEF Faulted, UnqueueFaultedThread, TypeOK
<1>4. Cardinality(Faulted') = Cardinality(Faulted) - 1
  BY <1>3, FaultedFinite, FS_RemoveElement
<1>5. IsFiniteSet(Faulted') /\ Cardinality(Faulted') \in Nat
  BY <1>3, FaultedFinite, FS_RemoveElement, FS_CardinalityType
<1>6. QED
  BY <1>1, <1>4, <1>5 DEF FaultCountCorrect, Faulted

(* A thread that counts its fault was not counted before.                  *)
LEMMA CountRises ==
    ASSUME TypeOK, Protocol, FaultCountCorrect,
           NEW t \in Threads, FaultCount(t)
    PROVE  FaultCountCorrect'
<1>1. t \notin Faulted /\ Faulted' = Faulted \cup {t}
  BY DEF Faulted, FaultCount, Protocol, Faults, TypeOK
<1>2. Cardinality(Faulted') = Cardinality(Faulted) + 1
  BY <1>1, FaultedFinite, FS_AddElement
<1>3. QED
  BY <1>2 DEF FaultCountCorrect, Faulted, FaultCount

(* Nothing else changes which threads are counted.                         *)
LEMMA CountStays ==
    ASSUME FaultCountCorrect, Faulted' = Faulted,
           UNCHANGED faulted_thread_count
    PROVE  FaultCountCorrect'
BY DEF FaultCountCorrect, Faulted

-----------------------------------------------------------------------------
(* Every step keeps the types.                                             *)
LEMMA TypeHost ==
    ASSUME TypeOK,
           NEW t \in Threads,
           HostStep(t) \/ RunUntrusted(t) \/ Syscall(t) \/ Fault(t)
             \/ EditRegisters(t)
    PROVE  TypeOK'
<1>1. CASE RunUntrusted(t)
  BY <1>1 DEF RunUntrusted, TypeOK, SuspendState
<1>2. CASE Syscall(t)
  BY <1>2 DEF Syscall, TypeOK, SuspendState
<1>3. CASE SwitchState(t)
  BY <1>3 DEF SwitchState, SetSuspendState, TypeOK, SuspendState
<1>4. CASE SwitchWait(t)
  <2>1. CASE /\ sleeping' = [sleeping EXCEPT ![t] = TRUE]
             /\ UNCHANGED <<pc, seen>>
    BY <1>4, <2>1 DEF SwitchWait, TypeOK
  <2>2. CASE FutexReturns(t) /\ UNCHANGED sleeping
    <3>1. {} \in SuspendState
      BY DEF SuspendState
    <3>2. QED
      BY <1>4, <2>2, <3>1 DEF SwitchWait, TypeOK
  <2>3. QED
    BY <1>4, <2>1, <2>2 DEF SwitchWait
<1>5. CASE DeliverSignal(t)
  BY <1>5 DEF DeliverSignal, TypeOK, SuspendState
<1>6. CASE HandlerCheck(t)
  BY <1>6 DEF HandlerCheck, TypeOK, SuspendState
<1>7. CASE HandlerSave(t)
  BY <1>7 DEF HandlerSave, TypeOK, SuspendState
<1>8. CASE HandlerSet(t)
  BY <1>8 DEF HandlerSet, TypeOK, SuspendState
<1>9. CASE HandlerWake(t)
  BY <1>9 DEF HandlerWake, TypeOK, SuspendState
<1>10. CASE HandlerTest(t)
  BY <1>10 DEF HandlerTest, TypeOK, SuspendState
<1>11. CASE HandlerFutex(t)
  <2>1. CASE sleeping' = [sleeping EXCEPT ![t] = TRUE] /\ UNCHANGED handler
    BY <1>11, <2>1 DEF HandlerFutex, TypeOK
  <2>2. CASE Handler(t, "test") /\ UNCHANGED sleeping
    BY <1>11, <2>2 DEF HandlerFutex, TypeOK
  <2>3. QED
    BY <1>11, <2>1, <2>2 DEF HandlerFutex
<1>12. CASE HandlerApply(t)
  BY <1>12 DEF HandlerApply, TypeOK, SuspendState
<1>13. CASE Fault(t)
  BY <1>13 DEF Fault, TypeOK, SuspendState
<1>14. CASE FaultCount(t)
  BY <1>14 DEF FaultCount, TypeOK, SuspendState
<1>15. CASE FaultEvent(t)
  BY <1>15 DEF FaultEvent, TypeOK, SuspendState
<1>16. CASE FaultSigwait(t)
  BY <1>16 DEF FaultSigwait, TypeOK, SuspendState
<1>17. CASE FaultAgain(t)
  BY <1>17 DEF FaultAgain, TypeOK, SuspendState
<1>18. CASE EditRegisters(t)
  BY <1>18 DEF EditRegisters, TypeOK, SuspendState
<1> QED
  BY <1>1, <1>2, <1>3, <1>4, <1>5, <1>6, <1>7, <1>8, <1>9, <1>10, <1>11,
     <1>12, <1>13, <1>14, <1>15, <1>16, <1>17, <1>18 DEF HostStep

LEMMA TypeStub ==
    ASSUME TypeOK, Protocol, FaultCountCorrect,
           StubStep \/ GdbInterrupt \/ Continue
    PROVE  TypeOK'
<1>1. CASE GdbInterrupt
  BY <1>1 DEF GdbInterrupt, TypeOK, SuspendState
<1>2. CASE WaitForDebugEvent
  BY <1>2 DEF WaitForDebugEvent, TypeOK, SuspendState
<1>3. CASE Select
  BY <1>3 DEF Select, TypeOK, SuspendState
<1>4. CASE ProcessDebugEvent
  BY <1>4 DEF ProcessDebugEvent, Suspend, TypeOK, SuspendState
<1>5. CASE PickThread
  BY <1>5 DEF PickThread, TypeOK, SuspendState
<1>6. CASE ReadState
  BY <1>6 DEF ReadState, TypeOK, SuspendState
<1>7. CASE AskToSuspend
  BY <1>7 DEF AskToSuspend, TypeOK, SuspendState
<1>8. CASE AskAgain
  BY <1>8 DEF AskAgain, TypeOK, SuspendState
<1>9. CASE CheckState
  BY <1>9 DEF CheckState, TypeOK, SuspendState
<1>10. CASE Kill
  BY <1>10 DEF Kill, TypeOK, SuspendState
<1>11. CASE Join
  BY <1>11 DEF Join, TypeOK, SuspendState
<1>12. CASE JoinWait
  BY <1>12 DEF JoinWait, TypeOK, SuspendState
<1>13. CASE UnqueueFaultedThread
  <2>1. faulted_thread_count' \in Nat
    BY <1>13, CountFalls
  <2>2. QED
    BY <1>13, <2>1 DEF UnqueueFaultedThread, Unqueueable, TypeOK,
       SuspendState
<1>14. CASE Continue
  BY <1>14 DEF Continue, TypeOK, SuspendState
<1>15. CASE ResumePick
  BY <1>15 DEF ResumePick, TypeOK, SuspendState
<1>16. CASE ResumeRead
  BY <1>16 DEF ResumeRead, TypeOK, SuspendState
<1>17. CASE ResumeCas
  BY <1>17 DEF ResumeCas, TypeOK, SuspendState
<1>18. CASE ResumeWake
  BY <1>18 DEF ResumeWake, TypeOK, SuspendState
<1> QED
  BY <1>1, <1>2, <1>3, <1>4, <1>5, <1>6, <1>7, <1>8, <1>9, <1>10, <1>11,
     <1>12, <1>13, <1>14, <1>15, <1>16, <1>17, <1>18 DEF StubStep

-----------------------------------------------------------------------------
(* The count of faulted threads is right after every step. *)
LEMMA CountHost ==
    ASSUME TypeOK, Protocol, FaultCountCorrect,
           NEW t \in Threads,
           HostStep(t) \/ RunUntrusted(t) \/ Syscall(t) \/ Fault(t)
             \/ EditRegisters(t)
    PROVE  FaultCountCorrect'
<1>1. CASE RunUntrusted(t)
  BY <1>1, CountStays DEF RunUntrusted, Faulted, TypeOK, Protocol, Faults
<1>2. CASE Syscall(t)
  BY <1>2, CountStays DEF Syscall, Faulted, TypeOK, Protocol, Faults
<1>3. CASE SwitchState(t)
  BY <1>3, CountStays DEF SwitchState, SetSuspendState, Faulted, TypeOK,
     Protocol, Faults
<1>4. CASE SwitchWait(t)
  BY <1>4, CountStays DEF SwitchWait, Faulted, TypeOK, Protocol, Faults
<1>5. CASE DeliverSignal(t)
  BY <1>5, CountStays DEF DeliverSignal, Faulted, TypeOK, Protocol, Faults
<1>6. CASE HandlerCheck(t)
  BY <1>6, CountStays DEF HandlerCheck, Faulted, TypeOK, Protocol, Faults
<1>7. CASE HandlerSave(t)
  BY <1>7, CountStays DEF HandlerSave, Faulted, TypeOK, Protocol, Faults
<1>8. CASE HandlerSet(t)
  BY <1>8, CountStays DEF HandlerSet, Faulted, TypeOK, Protocol, Faults
<1>9. CASE HandlerWake(t)
  BY <1>9, CountStays DEF HandlerWake, Faulted, TypeOK, Protocol, Faults
<1>10. CASE HandlerTest(t)
  BY <1>10, CountStays DEF HandlerTest, Faulted, TypeOK, Protocol, Faults
<1>11. CASE HandlerFutex(t)
  BY <1>11, CountStays DEF HandlerFutex, Faulted, TypeOK, Protocol, Faults
<1>12. CASE HandlerApply(t)
  BY <1>12, CountStays DEF HandlerApply, Faulted, TypeOK, Protocol, Faults
<1>13. CASE Fault(t)
  BY <1>13, CountStays DEF Fault, Faulted, TypeOK, Protocol, Faults
<1>14. CASE FaultCount(t)
  BY <1>14, CountRises
<1>15. CASE FaultEvent(t)
  BY <1>15, CountStays DEF FaultEvent, Faulted, TypeOK, Protocol, Faults
<1>16. CASE FaultSigwait(t)
  BY <1>16, CountStays DEF FaultSigwait, Faulted, TypeOK, Protocol, Faults
<1>17. CASE FaultAgain(t)
  BY <1>17, CountStays DEF FaultAgain, Faulted, TypeOK, Protocol, Faults
<1>18. CASE EditRegisters(t)
  BY <1>18, CountStays DEF EditRegisters, Faulted, TypeOK, Protocol, Faults
<1> QED
  BY <1>1, <1>2, <1>3, <1>4, <1>5, <1>6, <1>7, <1>8, <1>9, <1>10, <1>11,
     <1>12, <1>13, <1>14, <1>15, <1>16, <1>17, <1>18 DEF HostStep

LEMMA CountStub ==
    ASSUME TypeOK, Protocol, FaultCountCorrect,
           StubStep \/ GdbInterrupt \/ Continue
    PROVE  FaultCountCorrect'
<1>1. CASE GdbInterrupt
  BY <1>1, CountStays DEF GdbInterrupt, Faulted, TypeOK, Protocol, Faults
<1>2. CASE WaitForDebugEvent
  BY <1>2, CountStays DEF WaitForDebugEvent, Faulted, TypeOK, Protocol,
     Faults
<1>3. CASE Select
  BY <1>3, CountStays DEF Select, Faulted, TypeOK, Protocol, Faults
<1>4. CASE ProcessDebugEvent
  BY <1>4, CountStays DEF ProcessDebugEvent, Suspend, Faulted, TypeOK,
     Protocol, Faults
<1>5. CASE PickThread
  BY <1>5, CountStays DEF PickThread, Faulted, TypeOK, Protocol, Faults
<1>6. CASE ReadState
  BY <1>6, CountStays DEF ReadState, Faulted, TypeOK, Protocol, Faults
<1>7. CASE AskToSuspend
  BY <1>7, CountStays DEF AskToSuspend, Faulted, TypeOK, Protocol, Faults
<1>8. CASE AskAgain
  BY <1>8, CountStays DEF AskAgain, Faulted, TypeOK, Protocol, Faults
<1>9. CASE CheckState
  BY <1>9, CountStays DEF CheckState, Faulted, TypeOK, Protocol, Faults
<1>10. CASE Kill
  BY <1>10, CountStays DEF Kill, Faulted, TypeOK, Protocol, Faults
<1>11. CASE Join
  BY <1>11, CountStays DEF Join, Faulted, TypeOK, Protocol, Faults
<1>12. CASE JoinWait
  BY <1>12, CountStays DEF JoinWait, Faulted, TypeOK, Protocol, Faults
<1>13. CASE UnqueueFaultedThread
  BY <1>13, CountFalls
<1>14. CASE Continue
  BY <1>14, CountStays DEF Continue, Faulted, TypeOK, Protocol, Faults
<1>15. CASE ResumePick
  BY <1>15, CountStays DEF ResumePick, Faulted, TypeOK, Protocol, Faults
<1>16. CASE ResumeRead
  BY <1>16, CountStays DEF ResumeRead, Faulted, TypeOK, Protocol, Faults
<1>17. CASE ResumeCas
  BY <1>17, CountStays DEF ResumeCas, Faulted, TypeOK, Protocol, Faults
<1>18. CASE ResumeWake
  BY <1>18, CountStays DEF ResumeWake, Faulted, TypeOK, Protocol, Faults
<1> QED
  BY <1>1, <1>2, <1>3, <1>4, <1>5, <1>6, <1>7, <1>8, <1>9, <1>10, <1>11,
     <1>12, <1>13, <1>14, <1>15, <1>16, <1>17, <1>18 DEF StubStep

-----------------------------------------------------------------------------
(* The word of each thread says the same of every later state. *)
LEMMA ProtocolHost ==
    ASSUME TypeOK, Protocol, Progress,
           NEW t \in Threads,
           HostStep(t) \/ RunUntrusted(t) \/ Syscall(t) \/ Fault(t)
             \/ EditRegisters(t)
    PROVE  Protocol'
<1>1. CASE RunUntrusted(t)
  BY <1>1, Bits DEF RunUntrusted, TypeOK, SuspendState, Word, Signal, Sleep,
     Faults, Protocol, Progress
<1>2. CASE Syscall(t)
  BY <1>2, Bits DEF Syscall, TypeOK, SuspendState, Word, Signal, Sleep,
     Faults, Protocol, Progress
<1>3. CASE SwitchState(t)
  <2> SUFFICES ASSUME NEW u \in Threads
               PROVE  (Word(u) /\ Signal(u) /\ Sleep(u) /\ Faults(u))'
    BY DEF Protocol
  <2>1. CASE u = t
    BY <1>3, <2>1, Bits DEF SwitchState, SetSuspendState, TypeOK,
       SuspendState, Word, Signal, Sleep, Faults, Protocol
  <2>2. CASE u # t
    BY <1>3, <2>2, Bits DEF SwitchState, SetSuspendState, TypeOK,
       SuspendState, Word, Signal, Sleep, Faults, Protocol
  <2>3. QED
    BY <2>1, <2>2
<1>4. CASE SwitchWait(t)
  BY <1>4, Bits DEF SwitchWait, TypeOK, SuspendState, Word, Signal, Sleep,
     Faults, Protocol, Progress
<1>5. CASE DeliverSignal(t)
  BY <1>5, Bits DEF DeliverSignal, TypeOK, SuspendState, Word, Signal,
     Sleep, Faults, Protocol, Progress
<1>6. CASE HandlerCheck(t)
  BY <1>6, Bits DEF HandlerCheck, TypeOK, SuspendState, Word, Signal, Sleep,
     Faults, Protocol, Progress
<1>7. CASE HandlerSave(t)
  BY <1>7, Bits DEF HandlerSave, TypeOK, SuspendState, Word, Signal, Sleep,
     Faults, Protocol, Progress
<1>8. CASE HandlerSet(t)
  BY <1>8, Bits DEF HandlerSet, TypeOK, SuspendState, Word, Signal, Sleep,
     Faults, Protocol, Progress
<1>9. CASE HandlerWake(t)
  BY <1>9, Bits DEF HandlerWake, TypeOK, SuspendState, Word, Signal, Sleep,
     Faults, Protocol, Progress
<1>10. CASE HandlerTest(t)
  BY <1>10, Bits DEF HandlerTest, TypeOK, SuspendState, Word, Signal, Sleep,
     Faults, Protocol, Progress
<1>11. CASE HandlerFutex(t)
  BY <1>11, Bits DEF HandlerFutex, TypeOK, SuspendState, Word, Signal,
     Sleep, Faults, Protocol, Progress
<1>12. CASE HandlerApply(t)
  BY <1>12, Bits DEF HandlerApply, TypeOK, SuspendState, Word, Signal,
     Sleep, Faults, Protocol, Progress
<1>13. CASE Fault(t)
  BY <1>13, Bits DEF Fault, TypeOK, SuspendState, Word, Signal, Sleep,
     Faults, Protocol, Progress
<1>14. CASE FaultCount(t)
  BY <1>14, Bits DEF FaultCount, TypeOK, SuspendState, Word, Signal, Sleep,
     Faults, Protocol, Progress
<1>15. CASE FaultEvent(t)
  BY <1>15, Bits DEF FaultEvent, TypeOK, SuspendState, Word, Signal, Sleep,
     Faults, Protocol, Progress
<1>16. CASE FaultSigwait(t)
  BY <1>16, Bits DEF FaultSigwait, TypeOK, SuspendState, Word, Signal,
     Sleep, Faults, Protocol, Progress
<1>17. CASE FaultAgain(t)
  BY <1>17, Bits DEF FaultAgain, TypeOK, SuspendState, Word, Signal, Sleep,
     Faults, Protocol, Progress
<1>18. CASE EditRegisters(t)
  BY <1>18, Bits DEF EditRegisters, TypeOK, SuspendState, Word, Signal,
     Sleep, Faults, Protocol, Progress
<1> QED
  BY <1>1, <1>2, <1>3, <1>4, <1>5, <1>6, <1>7, <1>8, <1>9, <1>10, <1>11,
     <1>12, <1>13, <1>14, <1>15, <1>16, <1>17, <1>18 DEF HostStep

LEMMA ProtocolStub ==
    ASSUME TypeOK, Protocol, Progress,
           StubStep \/ GdbInterrupt \/ Continue
    PROVE  Protocol'
<1>1. CASE GdbInterrupt
  BY <1>1, Bits DEF GdbInterrupt, TypeOK, SuspendState, Word, Signal, Sleep,
     Faults, Protocol, Progress
<1>2. CASE WaitForDebugEvent
  BY <1>2, Bits DEF WaitForDebugEvent, TypeOK, SuspendState, Word, Signal,
     Sleep, Faults, Protocol, Progress
<1>3. CASE Select
  BY <1>3, Bits DEF Select, TypeOK, SuspendState, Word, Signal, Sleep,
     Faults, Protocol, Progress
<1>4. CASE ProcessDebugEvent
  BY <1>4, Bits DEF ProcessDebugEvent, Suspend, TypeOK, SuspendState, Word,
     Signal, Sleep, Faults, Protocol, Progress
<1>5. CASE PickThread
  BY <1>5, Bits DEF PickThread, TypeOK, SuspendState, Word, Signal, Sleep,
     Faults, Protocol, Progress
<1>6. CASE ReadState
  BY <1>6, Bits DEF ReadState, TypeOK, SuspendState, Word, Signal, Sleep,
     Faults, Protocol, Progress
<1>7. CASE AskToSuspend
  BY <1>7, Bits DEF AskToSuspend, TypeOK, SuspendState, Word, Signal, Sleep,
     Faults, Protocol, Progress
<1>8. CASE AskAgain
  BY <1>8, Bits DEF AskAgain, TypeOK, SuspendState, Word, Signal, Sleep,
     Faults, Protocol, Progress
<1>9. CASE CheckState
  BY <1>9, Bits DEF CheckState, TypeOK, SuspendState, Word, Signal, Sleep,
     Faults, Protocol, Progress
<1>10. CASE Kill
  BY <1>10, Bits DEF Kill, TypeOK, SuspendState, Word, Signal, Sleep,
     Faults, Protocol, Progress
<1>11. CASE Join
  BY <1>11, Bits DEF Join, TypeOK, SuspendState, Word, Signal, Sleep,
     Faults, Protocol, Progress
<1>12. CASE JoinWait
  BY <1>12, Bits DEF JoinWait, TypeOK, SuspendState, Word, Signal, Sleep,
     Faults, Protocol, Progress
<1>13. CASE UnqueueFaultedThread
  BY <1>13, Bits DEF UnqueueFaultedThread, Unqueueable, IsSuspended, TypeOK,
     SuspendState, Word, Signal, Sleep, Faults, Protocol, Progress
<1>14. CASE Continue
  BY <1>14, Bits DEF Continue, TypeOK, SuspendState, Word, Signal, Sleep,
     Faults, Protocol, Progress
<1>15. CASE ResumePick
  BY <1>15, Bits DEF ResumePick, TypeOK, SuspendState, Word, Signal, Sleep,
     Faults, Protocol, Progress
<1>16. CASE ResumeRead
  BY <1>16, Bits DEF ResumeRead, TypeOK, SuspendState, Word, Signal, Sleep,
     Faults, Protocol, Progress
<1>17. CASE ResumeCas
  BY <1>17, Bits DEF ResumeCas, TypeOK, SuspendState, Word, Signal, Sleep,
     Faults, Protocol, Progress
<1>18. CASE ResumeWake
  BY <1>18, Bits DEF ResumeWake, TypeOK, SuspendState, Word, Signal, Sleep,
     Faults, Protocol, Progress
<1> QED
  BY <1>1, <1>2, <1>3, <1>4, <1>5, <1>6, <1>7, <1>8, <1>9, <1>10, <1>11,
     <1>12, <1>13, <1>14, <1>15, <1>16, <1>17, <1>18 DEF StubStep

-----------------------------------------------------------------------------
(* The loops of the debug stub depend on the words of the threads and on   *)
(* where the stub itself is.                                               *)
LEMMA ProgressStays ==
    ASSUME Progress, UNCHANGED <<suspend_state, ctl, cur, todo, old, step>>
    PROVE  Progress'
BY DEF Progress, IdleThread, SuspendingThread, ResumingThread, IsSuspended,
       Target, Free

(* A free thread that crosses the boundary stays free.                     *)
LEMMA ProgressCrosses ==
    ASSUME TypeOK, Progress, NEW t \in Threads,
           Free(t), Free(t)',
           \A u \in Threads \ {t} : suspend_state'[u] = suspend_state[u],
           UNCHANGED <<ctl, cur, todo, old, step>>
    PROVE  Progress'
<1>1. \A u \in Threads : /\ Free(u)' = Free(u)
                         /\ IsSuspended(u)' = IsSuspended(u)
                         /\ u # t => suspend_state'[u] = suspend_state[u]
  BY Bits DEF Free, IsSuspended
<1>2. ctl \in {"dcheck", "kill", "resumeCas"} \cup Joining => cur # t
  BY Bits DEF Progress, Free, IsSuspended
<1>3. QED
  BY <1>1, <1>2 DEF TypeOK, Progress, IdleThread, SuspendingThread,
     ResumingThread, Target

-----------------------------------------------------------------------------
(* Every step keeps the loops of the debug stub in order. *)
LEMMA ProgressHost ==
    ASSUME TypeOK, Protocol, Progress,
           NEW t \in Threads,
           HostStep(t) \/ RunUntrusted(t) \/ Syscall(t) \/ Fault(t)
             \/ EditRegisters(t)
    PROVE  Progress'
<1>1. CASE RunUntrusted(t)
  BY <1>1, ProgressStays DEF RunUntrusted
<1>2. CASE Syscall(t)
  BY <1>2, ProgressStays DEF Syscall
<1>3. CASE SwitchState(t)
  <2>1. CASE UNCHANGED suspend_state
    BY <1>3, <2>1, ProgressStays DEF SwitchState
  <2>2. CASE ~UNCHANGED suspend_state
    <3>1. Free(t) /\ Free(t)'
      BY <1>3, <2>2 DEF SwitchState, SetSuspendState, Free, TypeOK
    <3>2. \A u \in Threads \ {t} : suspend_state'[u] = suspend_state[u]
      BY <1>3, <2>2 DEF SwitchState, SetSuspendState, TypeOK
    <3>3. QED
      BY <1>3, <3>1, <3>2, ProgressCrosses DEF SwitchState
  <2>3. QED
    BY <2>1, <2>2
<1>4. CASE SwitchWait(t)
  BY <1>4, ProgressStays DEF SwitchWait
<1>5. CASE DeliverSignal(t)
  BY <1>5, ProgressStays DEF DeliverSignal
<1>6. CASE HandlerCheck(t)
  BY <1>6, ProgressStays DEF HandlerCheck
<1>7. CASE HandlerSave(t)
  BY <1>7, ProgressStays DEF HandlerSave
<1>8. CASE HandlerSet(t)
  BY <1>8, Bits DEF HandlerSet, TypeOK, SuspendState, Protocol, Word,
     Signal, Progress, IdleThread, SuspendingThread, ResumingThread,
        IsSuspended, Target, Free
<1>9. CASE HandlerWake(t)
  BY <1>9, ProgressStays DEF HandlerWake
<1>10. CASE HandlerTest(t)
  BY <1>10, ProgressStays DEF HandlerTest
<1>11. CASE HandlerFutex(t)
  BY <1>11, ProgressStays DEF HandlerFutex
<1>12. CASE HandlerApply(t)
  BY <1>12, ProgressStays DEF HandlerApply
<1>13. CASE Fault(t)
  BY <1>13, ProgressStays DEF Fault
<1>14. CASE FaultCount(t)
  BY <1>14, ProgressStays DEF FaultCount
<1>15. CASE FaultEvent(t)
  BY <1>15, ProgressStays DEF FaultEvent
<1>16. CASE FaultSigwait(t)
  BY <1>16, ProgressStays DEF FaultSigwait
<1>17. CASE FaultAgain(t)
  BY <1>17, ProgressStays DEF FaultAgain
<1>18. CASE EditRegisters(t)
  BY <1>18, ProgressStays DEF EditRegisters
<1> QED
  BY <1>1, <1>2, <1>3, <1>4, <1>5, <1>6, <1>7, <1>8, <1>9, <1>10, <1>11,
     <1>12, <1>13, <1>14, <1>15, <1>16, <1>17, <1>18 DEF HostStep

LEMMA ProgressStub ==
    ASSUME TypeOK, Protocol, Progress,
           StubStep \/ GdbInterrupt \/ Continue
    PROVE  Progress'
<1>1. CASE GdbInterrupt
  BY <1>1, Bits DEF GdbInterrupt, TypeOK, SuspendState, Protocol, Word,
     Signal, Progress, IdleThread, SuspendingThread, ResumingThread,
        IsSuspended, Target, Free
<1>2. CASE WaitForDebugEvent
  BY <1>2, Bits DEF WaitForDebugEvent, TypeOK, SuspendState, Protocol, Word,
     Signal, Progress, IdleThread, SuspendingThread, ResumingThread,
        IsSuspended, Target, Free
<1>3. CASE Select
  BY <1>3, Bits DEF Select, TypeOK, SuspendState, Protocol, Word, Signal,
     Progress, IdleThread, SuspendingThread, ResumingThread, IsSuspended,
        Target, Free
<1>4. CASE ProcessDebugEvent
  BY <1>4, Bits DEF ProcessDebugEvent, Suspend, TypeOK, SuspendState,
     Protocol, Word, Signal, Progress, IdleThread, SuspendingThread,
        ResumingThread, IsSuspended, Target, Free
<1>5. CASE PickThread
  BY <1>5, Bits DEF PickThread, TypeOK, SuspendState, Protocol, Word,
     Signal, Progress, IdleThread, SuspendingThread, ResumingThread,
        IsSuspended, Target, Free
<1>6. CASE ReadState
  BY <1>6, Bits DEF ReadState, TypeOK, SuspendState, Protocol, Word, Signal,
     Progress, IdleThread, SuspendingThread, ResumingThread, IsSuspended,
        Target, Free
<1>7. CASE AskToSuspend
  BY <1>7, Bits DEF AskToSuspend, TypeOK, SuspendState, Protocol, Word,
     Signal, Progress, IdleThread, SuspendingThread, ResumingThread,
        IsSuspended, Target, Free
<1>8. CASE AskAgain
  BY <1>8, Bits DEF AskAgain, TypeOK, SuspendState, Protocol, Word, Signal,
     Progress, IdleThread, SuspendingThread, ResumingThread, IsSuspended,
        Target, Free
<1>9. CASE CheckState
  BY <1>9, Bits DEF CheckState, TypeOK, SuspendState, Protocol, Word,
     Signal, Progress, IdleThread, SuspendingThread, ResumingThread,
        IsSuspended, Target, Free
<1>10. CASE Kill
  BY <1>10, Bits DEF Kill, TypeOK, SuspendState, Protocol, Word, Signal,
     Progress, IdleThread, SuspendingThread, ResumingThread, IsSuspended,
        Target, Free
<1>11. CASE Join
  BY <1>11, Bits DEF Join, TypeOK, SuspendState, Protocol, Word, Signal,
     Progress, IdleThread, SuspendingThread, ResumingThread, IsSuspended,
        Target, Free
<1>12. CASE JoinWait
  BY <1>12, Bits DEF JoinWait, TypeOK, SuspendState, Protocol, Word, Signal,
     Progress, IdleThread, SuspendingThread, ResumingThread, IsSuspended,
        Target, Free
<1>13. CASE UnqueueFaultedThread
  BY <1>13, Bits DEF UnqueueFaultedThread, Unqueueable, TypeOK,
     SuspendState, Protocol, Word, Signal, Progress, IdleThread,
        SuspendingThread, ResumingThread, IsSuspended, Target, Free
<1>14. CASE Continue
  BY <1>14, Bits DEF Continue, TypeOK, SuspendState, Protocol, Word, Signal,
     Progress, IdleThread, SuspendingThread, ResumingThread, IsSuspended,
        Target, Free
<1>15. CASE ResumePick
  BY <1>15, Bits DEF ResumePick, TypeOK, SuspendState, Protocol, Word,
     Signal, Progress, IdleThread, SuspendingThread, ResumingThread,
        IsSuspended, Target, Free
<1>16. CASE ResumeRead
  BY <1>16, Bits DEF ResumeRead, TypeOK, SuspendState, Protocol, Word,
     Signal, Progress, IdleThread, SuspendingThread, ResumingThread,
        IsSuspended, Target, Free
<1>17. CASE ResumeCas
  BY <1>17, Bits DEF ResumeCas, TypeOK, SuspendState, Protocol, Word,
     Signal, Progress, IdleThread, SuspendingThread, ResumingThread,
        IsSuspended, Target, Free
<1>18. CASE ResumeWake
  BY <1>18, Bits DEF ResumeWake, TypeOK, SuspendState, Protocol, Word,
     Signal, Progress, IdleThread, SuspendingThread, ResumingThread,
        IsSuspended, Target, Free
<1> QED
  BY <1>1, <1>2, <1>3, <1>4, <1>5, <1>6, <1>7, <1>8, <1>9, <1>10, <1>11,
     <1>12, <1>13, <1>14, <1>15, <1>16, <1>17, <1>18 DEF StubStep

-----------------------------------------------------------------------------
(* A wake-up reaches the debug stub after every step. *)
LEMMA StubSleepHost ==
    ASSUME TypeOK, Protocol, Progress, StubSleep,
           NEW t \in Threads,
           HostStep(t) \/ RunUntrusted(t) \/ Syscall(t) \/ Fault(t)
             \/ EditRegisters(t)
    PROVE  StubSleep'
<1>1. CASE RunUntrusted(t)
  BY <1>1, Bits DEF RunUntrusted, TypeOK, Word, Signal, Protocol, Progress,
     StubSleep
<1>2. CASE Syscall(t)
  BY <1>2, Bits DEF Syscall, TypeOK, Word, Signal, Protocol, Progress,
     StubSleep
<1>3. CASE SwitchState(t)
  <2>1. ctlSleeping => cur # t \/ UNCHANGED suspend_state
    BY <1>3, Bits DEF SwitchState, SetSuspendState, StubSleep
  <2>2. QED
    BY <1>3, <2>1 DEF SwitchState, SetSuspendState, TypeOK, StubSleep
<1>4. CASE SwitchWait(t)
  BY <1>4, Bits DEF SwitchWait, TypeOK, Word, Signal, Protocol, Progress,
     StubSleep
<1>5. CASE DeliverSignal(t)
  BY <1>5, Bits DEF DeliverSignal, TypeOK, Word, Signal, Protocol, Progress,
     StubSleep
<1>6. CASE HandlerCheck(t)
  BY <1>6, Bits DEF HandlerCheck, TypeOK, Word, Signal, Protocol, Progress,
     StubSleep
<1>7. CASE HandlerSave(t)
  BY <1>7, Bits DEF HandlerSave, TypeOK, Word, Signal, Protocol, Progress,
     StubSleep
<1>8. CASE HandlerSet(t)
  BY <1>8, Bits DEF HandlerSet, TypeOK, Word, Signal, Protocol, Progress,
     StubSleep
<1>9. CASE HandlerWake(t)
  BY <1>9, Bits DEF HandlerWake, TypeOK, Word, Signal, Protocol, Progress,
     StubSleep
<1>10. CASE HandlerTest(t)
  BY <1>10, Bits DEF HandlerTest, TypeOK, Word, Signal, Protocol, Progress,
     StubSleep
<1>11. CASE HandlerFutex(t)
  BY <1>11, Bits DEF HandlerFutex, TypeOK, Word, Signal, Protocol, Progress,
     StubSleep
<1>12. CASE HandlerApply(t)
  BY <1>12, Bits DEF HandlerApply, TypeOK, Word, Signal, Protocol, Progress,
     StubSleep
<1>13. CASE Fault(t)
  BY <1>13, Bits DEF Fault, TypeOK, Word, Signal, Protocol, Progress,
     StubSleep
<1>14. CASE FaultCount(t)
  BY <1>14, Bits DEF FaultCount, TypeOK, Word, Signal, Protocol, Progress,
     StubSleep
<1>15. CASE FaultEvent(t)
  BY <1>15, Bits DEF FaultEvent, TypeOK, Word, Signal, Protocol, Progress,
     StubSleep
<1>16. CASE FaultSigwait(t)
  BY <1>16, Bits DEF FaultSigwait, TypeOK, Word, Signal, Protocol, Progress,
     StubSleep
<1>17. CASE FaultAgain(t)
  BY <1>17, Bits DEF FaultAgain, TypeOK, Word, Signal, Protocol, Progress,
     StubSleep
<1>18. CASE EditRegisters(t)
  BY <1>18, Bits DEF EditRegisters, TypeOK, Word, Signal, Protocol,
     Progress, StubSleep
<1> QED
  BY <1>1, <1>2, <1>3, <1>4, <1>5, <1>6, <1>7, <1>8, <1>9, <1>10, <1>11,
     <1>12, <1>13, <1>14, <1>15, <1>16, <1>17, <1>18 DEF HostStep

LEMMA StubSleepStub ==
    ASSUME TypeOK, Protocol, Progress, StubSleep,
           StubStep \/ GdbInterrupt \/ Continue
    PROVE  StubSleep'
<1>1. CASE GdbInterrupt
  BY <1>1, Bits DEF GdbInterrupt, TypeOK, Word, Signal, Protocol, Progress,
     StubSleep
<1>2. CASE WaitForDebugEvent
  BY <1>2, Bits DEF WaitForDebugEvent, TypeOK, Word, Signal, Protocol,
     Progress, StubSleep
<1>3. CASE Select
  BY <1>3, Bits DEF Select, TypeOK, Word, Signal, Protocol, Progress,
     StubSleep
<1>4. CASE ProcessDebugEvent
  BY <1>4, Bits DEF ProcessDebugEvent, Suspend, TypeOK, Word, Signal,
     Protocol, Progress, StubSleep
<1>5. CASE PickThread
  BY <1>5, Bits DEF PickThread, TypeOK, Word, Signal, Protocol, Progress,
     StubSleep
<1>6. CASE ReadState
  BY <1>6, Bits DEF ReadState, TypeOK, Word, Signal, Protocol, Progress,
     StubSleep
<1>7. CASE AskToSuspend
  BY <1>7, Bits DEF AskToSuspend, TypeOK, Word, Signal, Protocol, Progress,
     StubSleep
<1>8. CASE AskAgain
  BY <1>8, Bits DEF AskAgain, TypeOK, Word, Signal, Protocol, Progress,
     StubSleep
<1>9. CASE CheckState
  BY <1>9, Bits DEF CheckState, TypeOK, Word, Signal, Protocol, Progress,
     StubSleep
<1>10. CASE Kill
  BY <1>10, Bits DEF Kill, TypeOK, Word, Signal, Protocol, Progress,
     StubSleep
<1>11. CASE Join
  BY <1>11, Bits DEF Join, TypeOK, Word, Signal, Protocol, Progress,
     StubSleep
<1>12. CASE JoinWait
  BY <1>12, Bits DEF JoinWait, TypeOK, Word, Signal, Protocol, Progress,
     StubSleep
<1>13. CASE UnqueueFaultedThread
  BY <1>13, Bits DEF UnqueueFaultedThread, Unqueueable, IsSuspended, TypeOK,
     Word, Signal, Protocol, Progress, StubSleep
<1>14. CASE Continue
  BY <1>14, Bits DEF Continue, TypeOK, Word, Signal, Protocol, Progress,
     StubSleep
<1>15. CASE ResumePick
  BY <1>15, Bits DEF ResumePick, TypeOK, Word, Signal, Protocol, Progress,
     StubSleep
<1>16. CASE ResumeRead
  BY <1>16, Bits DEF ResumeRead, TypeOK, Word, Signal, Protocol, Progress,
     StubSleep
<1>17. CASE ResumeCas
  BY <1>17, Bits DEF ResumeCas, TypeOK, Word, Signal, Protocol, Progress,
     StubSleep
<1>18. CASE ResumeWake
  BY <1>18, Bits DEF ResumeWake, TypeOK, Word, Signal, Protocol, Progress,
     StubSleep
<1> QED
  BY <1>1, <1>2, <1>3, <1>4, <1>5, <1>6, <1>7, <1>8, <1>9, <1>10, <1>11,
     <1>12, <1>13, <1>14, <1>15, <1>16, <1>17, <1>18 DEF StubStep

-----------------------------------------------------------------------------
(* A fault that the debug stub goes for is still there when it comes. *)
LEMMA FaultFoundHost ==
    ASSUME TypeOK, FaultFound, FaultCountCorrect,
           NEW t \in Threads,
           HostStep(t) \/ RunUntrusted(t) \/ Syscall(t) \/ Fault(t)
             \/ EditRegisters(t)
    PROVE  FaultFound'
<1>1. CASE RunUntrusted(t)
  BY <1>1, Bits DEF RunUntrusted, TypeOK, FaultFound, Unqueueable
<1>2. CASE Syscall(t)
  BY <1>2, Bits DEF Syscall, TypeOK, FaultFound, Unqueueable
<1>3. CASE SwitchState(t)
  BY <1>3, Bits DEF SwitchState, SetSuspendState, TypeOK, FaultFound,
     Unqueueable
<1>4. CASE SwitchWait(t)
  BY <1>4, Bits DEF SwitchWait, TypeOK, FaultFound, Unqueueable
<1>5. CASE DeliverSignal(t)
  BY <1>5, Bits DEF DeliverSignal, TypeOK, FaultFound, Unqueueable
<1>6. CASE HandlerCheck(t)
  BY <1>6, Bits DEF HandlerCheck, TypeOK, FaultFound, Unqueueable
<1>7. CASE HandlerSave(t)
  BY <1>7, Bits DEF HandlerSave, TypeOK, FaultFound, Unqueueable
<1>8. CASE HandlerSet(t)
  BY <1>8, Bits DEF HandlerSet, TypeOK, FaultFound, Unqueueable
<1>9. CASE HandlerWake(t)
  BY <1>9, Bits DEF HandlerWake, TypeOK, FaultFound, Unqueueable
<1>10. CASE HandlerTest(t)
  BY <1>10, Bits DEF HandlerTest, TypeOK, FaultFound, Unqueueable
<1>11. CASE HandlerFutex(t)
  BY <1>11, Bits DEF HandlerFutex, TypeOK, FaultFound, Unqueueable
<1>12. CASE HandlerApply(t)
  BY <1>12, Bits DEF HandlerApply, TypeOK, FaultFound, Unqueueable
<1>13. CASE Fault(t)
  BY <1>13, Bits DEF Fault, TypeOK, FaultFound, Unqueueable
<1>14. CASE FaultCount(t)
  BY <1>14, Bits DEF FaultCount, TypeOK, FaultFound, Unqueueable
<1>15. CASE FaultEvent(t)
  BY <1>15, Bits DEF FaultEvent, TypeOK, FaultFound, Unqueueable
<1>16. CASE FaultSigwait(t)
  BY <1>16, Bits DEF FaultSigwait, TypeOK, FaultFound, Unqueueable
<1>17. CASE FaultAgain(t)
  BY <1>17, Bits DEF FaultAgain, TypeOK, FaultFound, Unqueueable
<1>18. CASE EditRegisters(t)
  BY <1>18, Bits DEF EditRegisters, TypeOK, FaultFound, Unqueueable
<1> QED
  BY <1>1, <1>2, <1>3, <1>4, <1>5, <1>6, <1>7, <1>8, <1>9, <1>10, <1>11,
     <1>12, <1>13, <1>14, <1>15, <1>16, <1>17, <1>18 DEF HostStep

LEMMA FaultFoundStub ==
    ASSUME TypeOK, FaultFound, FaultCountCorrect,
           StubStep \/ GdbInterrupt \/ Continue
    PROVE  FaultFound'
<1>1. CASE GdbInterrupt
  BY <1>1, Bits DEF GdbInterrupt, TypeOK, FaultFound, Unqueueable
<1>2. CASE WaitForDebugEvent
  BY <1>2, Bits DEF WaitForDebugEvent, TypeOK, FaultFound, Unqueueable
<1>3. CASE Select
  BY <1>3, Bits DEF Select, TypeOK, FaultFound, Unqueueable
<1>4. CASE ProcessDebugEvent
  <2>1. faulted_thread_count # 0 => \E t \in Threads : fault_signal[t]
    <3>1. faulted_thread_count # 0 => Faulted # {}
      BY FS_EmptySet DEF FaultCountCorrect, Faulted
    <3>2. QED
      BY <3>1 DEF Faulted
  <2>2. QED
    BY <1>4, <2>1 DEF ProcessDebugEvent, Suspend, TypeOK, FaultFound,
       Unqueueable
<1>5. CASE PickThread
  BY <1>5, Bits DEF PickThread, TypeOK, FaultFound, Unqueueable
<1>6. CASE ReadState
  BY <1>6, Bits DEF ReadState, TypeOK, FaultFound, Unqueueable
<1>7. CASE AskToSuspend
  BY <1>7, Bits DEF AskToSuspend, TypeOK, FaultFound, Unqueueable
<1>8. CASE AskAgain
  BY <1>8, Bits DEF AskAgain, TypeOK, FaultFound, Unqueueable
<1>9. CASE CheckState
  BY <1>9, Bits DEF CheckState, TypeOK, FaultFound, Unqueueable
<1>10. CASE Kill
  BY <1>10, Bits DEF Kill, TypeOK, FaultFound, Unqueueable
<1>11. CASE Join
  BY <1>11, Bits DEF Join, TypeOK, FaultFound, Unqueueable
<1>12. CASE JoinWait
  BY <1>12, Bits DEF JoinWait, TypeOK, FaultFound, Unqueueable
<1>13. CASE UnqueueFaultedThread
  BY <1>13, Bits DEF UnqueueFaultedThread, Unqueueable, IsSuspended, TypeOK,
     FaultFound, Unqueueable
<1>14. CASE Continue
  BY <1>14, Bits DEF Continue, TypeOK, FaultFound, Unqueueable
<1>15. CASE ResumePick
  BY <1>15, Bits DEF ResumePick, TypeOK, FaultFound, Unqueueable
<1>16. CASE ResumeRead
  BY <1>16, Bits DEF ResumeRead, TypeOK, FaultFound, Unqueueable
<1>17. CASE ResumeCas
  BY <1>17, Bits DEF ResumeCas, TypeOK, FaultFound, Unqueueable
<1>18. CASE ResumeWake
  BY <1>18, Bits DEF ResumeWake, TypeOK, FaultFound, Unqueueable
<1> QED
  BY <1>1, <1>2, <1>3, <1>4, <1>5, <1>6, <1>7, <1>8, <1>9, <1>10, <1>11,
     <1>12, <1>13, <1>14, <1>15, <1>16, <1>17, <1>18 DEF StubStep

-----------------------------------------------------------------------------
LEMMA InitIInv == Init => IInv
<1> SUFFICES ASSUME Init PROVE IInv
  OBVIOUS
<1>1. TypeOK
  BY DEF Init, TypeOK, SuspendState
<1>2. Protocol
  BY Bits DEF Init, Protocol, Word, Signal, Sleep, Faults
<1>3. Progress
  BY DEF Init, Progress, IdleThread, Target, Free
<1>4. StubSleep /\ FaultFound
  BY DEF Init, StubSleep, FaultFound
<1>5. FaultCountCorrect
  <2>1. Faulted = {}
    BY DEF Init, Faulted
  <2>2. QED
    BY <2>1, FS_EmptySet DEF Init, FaultCountCorrect, Faulted
<1>6. QED
  BY <1>1, <1>2, <1>3, <1>4, <1>5 DEF IInv

LEMMA StutterIInv == IInv /\ UNCHANGED vars => IInv'
<1> SUFFICES ASSUME IInv, UNCHANGED vars PROVE IInv'
  OBVIOUS
<1>1. TypeOK'
  BY DEF IInv, vars, TypeOK
<1>2. Protocol'
  BY DEF IInv, vars, Protocol, Word, Signal, Sleep, Faults
<1>3. Progress'
  BY DEF IInv, vars, Progress, IdleThread, SuspendingThread, ResumingThread,
         IsSuspended, Target, Free
<1>4. StubSleep' /\ FaultCountCorrect' /\ FaultFound'
  BY DEF IInv, vars, StubSleep, FaultCountCorrect, FaultFound, Unqueueable,
         IsSuspended
<1>5. QED
  BY <1>1, <1>2, <1>3, <1>4 DEF IInv

LEMMA NextIInv == IInv /\ [Next]_vars => IInv'
<1> SUFFICES ASSUME IInv, [Next]_vars PROVE IInv'
  OBVIOUS
<1>1. CASE UNCHANGED vars
  BY <1>1, StutterIInv
<1>2. ASSUME NEW t \in Threads,
             HostStep(t) \/ RunUntrusted(t) \/ Syscall(t) \/ Fault(t)
               \/ EditRegisters(t)
      PROVE  IInv'
  BY <1>2, TypeHost, ProtocolHost, ProgressHost, StubSleepHost, CountHost,
     FaultFoundHost DEF IInv
<1>3. CASE StubStep \/ GdbInterrupt \/ Continue
  BY <1>3, TypeStub, ProtocolStub, ProgressStub, StubSleepStub, CountStub,
     FaultFoundStub DEF IInv
<1>4. QED
  BY <1>1, <1>2, <1>3 DEF Next

(* The inductive invariant holds in every reachable state.                 *)
THEOREM Invariance == Spec => []IInv
BY InitIInv, NextIInv, PTL DEF Spec

(* No check that would end the process fails, in NaClAppThreadSetSuspend-  *)
(* State(), HandleSuspendSignal(), HandleUntrustedFault() and the          *)
(* functions of the debug stub, whatever the number of threads and the     *)
(* order of their steps.                                                   *)
THEOREM ChecksNeverFail == Spec => []SanityChecks
<1>1. IInv => SanityChecks
  <2> SUFFICES ASSUME IInv PROVE SanityChecks
    OBVIOUS
  <2>1. TypeOK
    BY DEF IInv
  <2>2. ASSUME NEW t \in Threads
        PROVE  /\ Runs(t, "enter") /\ suspend_state[t] # {U}
                    => SUSPENDING \in suspend_state[t]
               /\ Runs(t, "leave") /\ suspend_state[t] # {T}
                    => SUSPENDING \in suspend_state[t]
               /\ Runs(t, "untrusted") => U \in suspend_state[t]
               /\ Handles(t, "check") => suspend_state[t] = {U, SUSPENDING}
    BY Bits DEF IInv, Protocol, Word, Signal
  <2>3. /\ ctl = "read" => SUSPENDING \notin suspend_state[cur]
        /\ ctl = "dcheck" => suspend_state[cur] = old \cup {SUSPENDING}
        /\ ctl = "resumeRead" => SUSPENDING \in suspend_state[cur]
        /\ ctl = "resumeCas" => suspend_state[cur] = old
    BY Bits DEF IInv, Progress, Free, IsSuspended
  <2>4. ctl = "join" => suspend_state[cur] \in {{U, SUSPENDING},
                                               {U, SUSPENDING, SUSPENDED}}
    BY <2>1, Bits DEF IInv, Progress, Protocol, Word, TypeOK
  <2>5. ctl = "unqueue" => /\ Unqueueable # {}
                           /\ \A t \in Unqueueable : IsSuspended(t)
    BY <2>1 DEF IInv, FaultFound, Progress, Unqueueable, TypeOK
  <2>6. QED
    BY <2>1, <2>2, <2>3, <2>4, <2>5 DEF SanityChecks
<1>2. QED
  BY <1>1, Invariance, PTL

(* Once NaClUntrustedThreadsSuspendAll() has returned, no thread executes  *)
(* untrusted code until it is resumed; while one thread steps over a       *)
(* breakpoint, no other thread does.                                       *)
THEOREM UntrustedCodeStaysStopped == Spec => []UntrustedCodeStopped
<1>1. IInv => UntrustedCodeStopped
  <2> SUFFICES ASSUME IInv PROVE UntrustedCodeStopped
    OBVIOUS
  <2>1. ASSUME NEW t \in Threads, IsSuspended(t)
        PROVE  CannotRunUntrusted(t)
    BY <2>1, Bits DEF IInv, TypeOK, Protocol, Word, IsSuspended,
       CannotRunUntrusted
  <2>2. ASSUME NEW t \in Threads \ step, step # {}
        PROVE  IsSuspended(t)
    BY <2>2 DEF IInv, TypeOK, Progress, IdleThread, SuspendingThread,
       ResumingThread, Target
  <2>3. QED
    BY <2>1, <2>2 DEF IInv, Progress, UntrustedCodeStopped
<1>2. QED
  BY <1>1, Invariance, PTL

(* faulted_thread_count is the number of threads with a fault to report.   *)
THEOREM FaultCountAlwaysCorrect == Spec => []FaultCountCorrect
<1>1. IInv => FaultCountCorrect
  BY DEF IInv
<1>2. QED
  BY <1>1, Invariance, PTL

(* The |= of HandleSuspendSignal(), which is not atomic, loses no bit.     *)
THEOREM UpdatesKept == Spec => []NoLostUpdate
<1>1. IInv => NoLostUpdate
  BY DEF IInv, Protocol, Signal, NoLostUpdate
<1>2. QED
  BY <1>1, Invariance, PTL

(* Neither a host thread nor the debug stub sleeps on a futex that nobody  *)
(* is going to wake.                                                       *)
THEOREM WakeupsKept == Spec => []NoLostWakeup
<1>1. IInv => NoLostWakeup
  BY DEF IInv, Protocol, Sleep, StubSleep, NoLostWakeup
<1>2. QED
  BY <1>1, Invariance, PTL

-----------------------------------------------------------------------------
(***************************************************************************)
(* The refinement.  Phase, StatusOf and RegsOf are the expressions that    *)
(* ThreadSuspend substitutes for the variables of SuspendSpec.             *)
(***************************************************************************)
Phase ==
    CASE ctl \in {"wait", "poll", "select", "process"} -> "running"
      [] ctl = "stopped" -> "stopped"
      [] ctl \in {"resume", "resumeRead", "resumeCas", "resumeWake"}
           -> "resuming"
      [] OTHER -> "stopping"

StatusOf(t) ==
    IF IsSuspended(t) THEN "held"
    ELSE IF handler[t] \in {"wake", "test", "futex", "apply"}
         THEN "leaving" ELSE "free"

RegsOf(t) ==
    IF handler[t] \in {"set", "wake", "test", "futex", "apply"}
    THEN suspended_registers[t] ELSE regs[t]


(* A step that changes the view of no thread is a stutter of SuspendSpec,  *)
(* and a step that changes it for one thread is one of its actions.        *)
SameStatus == \A u \in Threads : StatusOf(u)' = StatusOf(u)
SameRegs   == \A u \in Threads : RegsOf(u)' = RegsOf(u)
StatusMoves(t, from, to) ==
    /\ StatusOf(t) = from /\ StatusOf(t)' = to
    /\ \A u \in Threads \ {t} : StatusOf(u)' = StatusOf(u)
RegsMove(t) ==
    /\ RegsOf(t)' \in Values
    /\ \A u \in Threads \ {t} : RegsOf(u)' = RegsOf(u)

LEMMA AbstractStutter ==
    ASSUME Phase' = Phase, SameStatus, SameRegs
    PROVE  UNCHANGED Abstract!vars
BY DEF Abstract!vars, Phase, SameStatus, StatusOf, SameRegs, RegsOf

LEMMA AbstractRun ==
    ASSUME NEW t \in Threads, StatusOf(t) = "free",
           Phase' = Phase, SameStatus, RegsMove(t)
    PROVE  Abstract!Run(t)
BY DEF Abstract!Run, Phase, SameStatus, StatusOf, RegsOf, RegsMove

LEMMA AbstractHold ==
    ASSUME NEW t \in Threads, Phase = "stopping", Phase' = Phase,
           StatusMoves(t, "free", "held"), SameRegs
    PROVE  Abstract!Hold(t)
BY DEF Abstract!Hold, Abstract!Status, Phase, StatusOf, SameRegs, RegsOf,
   StatusMoves

LEMMA AbstractEdit ==
    ASSUME NEW t \in Threads, Phase = "stopped", Phase' = Phase,
           SameStatus, RegsMove(t)
    PROVE  Abstract!Edit(t)
BY DEF Abstract!Edit, Phase, SameStatus, StatusOf, RegsOf, RegsMove

LEMMA AbstractRelease ==
    ASSUME NEW t \in Threads, Phase = "resuming", Phase' = Phase, SameRegs,
           \/ StatusMoves(t, "held", "free")
           \/ StatusMoves(t, "held", "leaving")
    PROVE  Abstract!Release(t)
BY DEF Abstract!Release, Abstract!Status, Phase, StatusOf, SameRegs, RegsOf,
   StatusMoves

LEMMA AbstractLeave ==
    ASSUME NEW t \in Threads, Phase' = Phase,
           StatusMoves(t, "leaving", "free"), SameRegs
    PROVE  Abstract!Leave(t)
BY DEF Abstract!Leave, Abstract!Status, Phase, StatusOf, SameRegs, RegsOf,
   StatusMoves

LEMMA AbstractPhase ==
    ASSUME SameStatus, SameRegs,
           \/ Phase = "running" /\ Phase' = "stopping"
           \/ /\ Phase = "stopping" /\ Phase' = "stopped"
              /\ \A t \in Threads : StatusOf(t) = "held"
           \/ Phase = "stopped" /\ Phase' = "resuming"
           \/ /\ Phase = "resuming" /\ Phase' = "running"
              /\ \E t \in Threads : StatusOf(t) # "held"
    PROVE  Abstract!Next
BY DEF Abstract!Next, Abstract!Stop, Abstract!Stopped, Abstract!Continue,
       Abstract!Resumed, Phase, SameStatus, StatusOf, SameRegs, RegsOf

LEMMA InitAbstract == Init => Abstract!Init
BY Bits DEF Init, Abstract!Init, IsSuspended

(* A step of a host thread is a step of SuspendSpec or a stutter.          *)
LEMMA HostSimulates ==
    ASSUME IInv, NEW t \in Threads,
           HostStep(t) \/ RunUntrusted(t) \/ Syscall(t) \/ Fault(t)
             \/ EditRegisters(t)
    PROVE  [Abstract!Next]_(Abstract!vars)
<1>1. CASE RunUntrusted(t)
  <2>1. StatusOf(t) = "free" /\ Phase' = Phase /\ SameStatus /\ RegsMove(t)
    BY <1>1, Bits DEF RunUntrusted, IInv, TypeOK, Protocol, Word, Signal,
       IsSuspended, Phase, SameStatus, StatusOf, SameRegs, RegsOf, RegsMove
  <2>2. QED
    BY <2>1, AbstractRun DEF Abstract!Next
<1>2. CASE Syscall(t)
  <2>1. Phase' = Phase /\ SameStatus /\ SameRegs
    BY <1>2, Bits DEF Syscall, IInv, TypeOK, Protocol, Word, Signal,
       IsSuspended, Phase, SameStatus, StatusOf, SameRegs, RegsOf
  <2>2. QED
    BY <2>1, AbstractStutter
<1>3. CASE SwitchState(t)
  <2>1. Phase' = Phase /\ SameRegs
    BY <1>3 DEF SwitchState, Phase, SameRegs, RegsOf
  <2>2. ASSUME NEW u \in Threads
        PROVE  StatusOf(u)' = StatusOf(u)
    <3>1. /\ \A v \in Threads : handler'[v] = handler[v]
          /\ \A v \in Threads : v # t => suspend_state'[v] = suspend_state[v]
      BY <1>3 DEF SwitchState, SetSuspendState, IInv, TypeOK
    <3>2. IsSuspended(t)' <=> IsSuspended(t)
      BY <1>3, Bits DEF SwitchState, SetSuspendState, IsSuspended, IInv, TypeOK
    <3>3. QED
      BY <3>1, <3>2 DEF StatusOf, IsSuspended
  <2>3. QED
    BY <2>1, <2>2, AbstractStutter DEF SameStatus
<1>4. CASE SwitchWait(t)
  <2>1. Phase' = Phase /\ SameStatus /\ SameRegs
    BY <1>4, Bits DEF SwitchWait, IInv, TypeOK, Protocol, Word, Signal,
       IsSuspended, Phase, SameStatus, StatusOf, SameRegs, RegsOf
  <2>2. QED
    BY <2>1, AbstractStutter
<1>5. CASE DeliverSignal(t)
  <2>1. Phase' = Phase /\ SameStatus /\ SameRegs
    BY <1>5, Bits DEF DeliverSignal, IInv, TypeOK, Protocol, Word, Signal,
       IsSuspended, Phase, SameStatus, StatusOf, SameRegs, RegsOf
  <2>2. QED
    BY <2>1, AbstractStutter
<1>6. CASE HandlerCheck(t)
  <2>1. Phase' = Phase /\ SameStatus /\ SameRegs
    BY <1>6, Bits DEF HandlerCheck, IInv, TypeOK, Protocol, Word, Signal,
       IsSuspended, Phase, SameStatus, StatusOf, SameRegs, RegsOf
  <2>2. QED
    BY <2>1, AbstractStutter
<1>7. CASE HandlerSave(t)
  <2>1. Phase' = Phase /\ SameStatus /\ SameRegs
    BY <1>7, Bits DEF HandlerSave, IInv, TypeOK, Protocol, Word, Signal,
       IsSuspended, Phase, SameStatus, StatusOf, SameRegs, RegsOf
  <2>2. QED
    BY <2>1, AbstractStutter
<1>8. CASE HandlerSet(t)
  <2>1. /\ Phase = "stopping" /\ Phase' = Phase
        /\ StatusMoves(t, "free", "held") /\ SameRegs
    BY <1>8, Bits DEF HandlerSet, IInv, TypeOK, Protocol, Word, Signal,
       IsSuspended, Phase, SameStatus, StatusOf, SameRegs, RegsOf,
          StatusMoves
  <2>2. QED
    BY <2>1, AbstractHold DEF Abstract!Next
<1>9. CASE HandlerWake(t)
  <2>1. Phase' = Phase /\ SameStatus /\ SameRegs
    BY <1>9, Bits DEF HandlerWake, IInv, TypeOK, Protocol, Word, Signal,
       IsSuspended, Phase, SameStatus, StatusOf, SameRegs, RegsOf
  <2>2. QED
    BY <2>1, AbstractStutter
<1>10. CASE HandlerTest(t)
  <2>1. Phase' = Phase /\ SameStatus /\ SameRegs
    BY <1>10, Bits DEF HandlerTest, IInv, TypeOK, Protocol, Word, Signal,
       IsSuspended, Phase, SameStatus, StatusOf, SameRegs, RegsOf
  <2>2. QED
    BY <2>1, AbstractStutter
<1>11. CASE HandlerFutex(t)
  <2>1. Phase' = Phase /\ SameStatus /\ SameRegs
    BY <1>11, Bits DEF HandlerFutex, IInv, TypeOK, Protocol, Word, Signal,
       IsSuspended, Phase, SameStatus, StatusOf, SameRegs, RegsOf
  <2>2. QED
    BY <2>1, AbstractStutter
<1>12. CASE HandlerApply(t)
  <2>1. Phase' = Phase /\ StatusMoves(t, "leaving", "free") /\ SameRegs
    BY <1>12, Bits DEF HandlerApply, IInv, TypeOK, Protocol, Word, Signal,
       IsSuspended, Phase, SameStatus, StatusOf, SameRegs, RegsOf,
          StatusMoves
  <2>2. QED
    BY <2>1, AbstractLeave DEF Abstract!Next
<1>13. CASE Fault(t)
  <2>1. Phase' = Phase /\ SameStatus /\ SameRegs
    BY <1>13, Bits DEF Fault, IInv, TypeOK, Protocol, Word, Signal,
       IsSuspended, Phase, SameStatus, StatusOf, SameRegs, RegsOf
  <2>2. QED
    BY <2>1, AbstractStutter
<1>14. CASE FaultCount(t)
  <2>1. Phase' = Phase /\ SameStatus /\ SameRegs
    BY <1>14, Bits DEF FaultCount, IInv, TypeOK, Protocol, Word, Signal,
       IsSuspended, Phase, SameStatus, StatusOf, SameRegs, RegsOf
  <2>2. QED
    BY <2>1, AbstractStutter
<1>15. CASE FaultEvent(t)
  <2>1. Phase' = Phase /\ SameStatus /\ SameRegs
    BY <1>15, Bits DEF FaultEvent, IInv, TypeOK, Protocol, Word, Signal,
       IsSuspended, Phase, SameStatus, StatusOf, SameRegs, RegsOf
  <2>2. QED
    BY <2>1, AbstractStutter
<1>16. CASE FaultSigwait(t)
  <2>1. Phase' = Phase /\ SameStatus /\ SameRegs
    BY <1>16, Bits DEF FaultSigwait, IInv, TypeOK, Protocol, Word, Signal,
       IsSuspended, Phase, SameStatus, StatusOf, SameRegs, RegsOf
  <2>2. QED
    BY <2>1, AbstractStutter
<1>17. CASE FaultAgain(t)
  <2>1. Phase' = Phase /\ SameStatus /\ SameRegs
    BY <1>17, Bits DEF FaultAgain, IInv, TypeOK, Protocol, Word, Signal,
       IsSuspended, Phase, SameStatus, StatusOf, SameRegs, RegsOf
  <2>2. QED
    BY <2>1, AbstractStutter
<1>18. CASE EditRegisters(t)
  <2>1. Phase = "stopped" /\ Phase' = Phase /\ SameStatus /\ RegsMove(t)
    BY <1>18, Bits DEF EditRegisters, IInv, TypeOK, Protocol, Word, Signal,
       IsSuspended, Phase, SameStatus, StatusOf, SameRegs, RegsOf, RegsMove
  <2>2. QED
    BY <2>1, AbstractEdit DEF Abstract!Next
<1> QED
  BY <1>1, <1>2, <1>3, <1>4, <1>5, <1>6, <1>7, <1>8, <1>9, <1>10, <1>11,
     <1>12, <1>13, <1>14, <1>15, <1>16, <1>17, <1>18 DEF HostStep

(* So is a step of the debug stub.                                         *)
LEMMA StubSimulates ==
    ASSUME IInv, StubStep \/ GdbInterrupt \/ Continue
    PROVE  [Abstract!Next]_(Abstract!vars)
<1>1. CASE GdbInterrupt
  <2>1. Phase' = Phase /\ SameStatus /\ SameRegs
    BY <1>1, Bits DEF GdbInterrupt, IInv, TypeOK, Protocol, Word, Signal,
       IsSuspended, Phase, SameStatus, StatusOf, SameRegs, RegsOf
  <2>2. QED
    BY <2>1, AbstractStutter
<1>2. CASE WaitForDebugEvent
  <2>1. Phase' = Phase /\ SameStatus /\ SameRegs
    BY <1>2, Bits DEF WaitForDebugEvent, IInv, TypeOK, Protocol, Word,
       Signal, IsSuspended, Phase, SameStatus, StatusOf, SameRegs, RegsOf
  <2>2. QED
    BY <2>1, AbstractStutter
<1>3. CASE Select
  <2>1. Phase' = Phase /\ SameStatus /\ SameRegs
    BY <1>3, Bits DEF Select, IInv, TypeOK, Protocol, Word, Signal,
       IsSuspended, Phase, SameStatus, StatusOf, SameRegs, RegsOf
  <2>2. QED
    BY <2>1, AbstractStutter
<1>4. CASE ProcessDebugEvent
  <2>1. SameStatus /\ SameRegs
    BY <1>4 DEF ProcessDebugEvent, SameStatus, StatusOf, SameRegs, RegsOf,
       IsSuspended
  <2>2. Phase = "running" /\ Phase' \in {"running", "stopping"}
    BY <1>4 DEF ProcessDebugEvent, Suspend, Phase
  <2>3. QED
    BY <2>1, <2>2, AbstractPhase, AbstractStutter
<1>5. CASE PickThread
  <2>1. SameStatus /\ SameRegs
    BY <1>5 DEF PickThread, SameStatus, StatusOf, SameRegs, RegsOf,
       IsSuspended
  <2>2. Phase = "stopping" /\ Phase' \in {"stopping", "stopped"}
    BY <1>5 DEF PickThread, Phase, IInv, TypeOK
  <2>3. Phase' = "stopped" => \A t \in Threads : StatusOf(t) = "held"
    BY <1>5 DEF PickThread, Phase, StatusOf, IInv, Progress, SuspendingThread
  <2>4. QED
    BY <2>1, <2>2, <2>3, AbstractPhase, AbstractStutter
<1>6. CASE ReadState
  <2>1. Phase' = Phase /\ SameStatus /\ SameRegs
    BY <1>6, Bits DEF ReadState, IInv, TypeOK, Protocol, Word, Signal,
       IsSuspended, Phase, SameStatus, StatusOf, SameRegs, RegsOf
  <2>2. QED
    BY <2>1, AbstractStutter
<1>7. CASE AskToSuspend
  <2>1. Phase = "stopping" /\ Phase' = Phase
    BY <1>7 DEF AskToSuspend, Phase
  <2>2. SameRegs
    BY <1>7 DEF AskToSuspend, SameRegs, RegsOf
  <2>3. CASE old = {U}
    <3>1. SameStatus
      BY <1>7, <2>3, Bits DEF AskToSuspend, SameStatus, StatusOf,
         IsSuspended, IInv, TypeOK
    <3>2. QED
      BY <2>1, <2>2, <3>1, AbstractStutter
  <2>4. CASE old = {T}
    <3>1. cur \in Threads /\ suspend_state'[cur] = {T, SUSPENDING}
      BY <1>7, <2>4 DEF AskToSuspend, IInv, TypeOK
    <3>2. /\ handler' = handler /\ cur' = cur
          /\ \A u \in Threads : u # cur => suspend_state'[u] = suspend_state[u]
      BY <1>7, <2>4 DEF AskToSuspend, IInv, TypeOK
    <3>3. StatusOf(cur) = "free"
      BY <1>7, <2>4, Bits DEF AskToSuspend, StatusOf, IsSuspended, IInv,
         TypeOK, Protocol, Word
    <3>4. StatusMoves(cur, "free", "held")
      BY <3>1, <3>2, <3>3 DEF StatusMoves, StatusOf, IsSuspended
    <3>5. QED
      BY <2>1, <2>2, <3>1, <3>4, AbstractHold DEF Abstract!Next
  <2>5. QED
    BY <1>7, <2>3, <2>4 DEF AskToSuspend, IInv, Progress
<1>8. CASE AskAgain
  <2>1. Phase' = Phase /\ SameStatus /\ SameRegs
    BY <1>8, Bits DEF AskAgain, IInv, TypeOK, Protocol, Word, Signal,
       IsSuspended, Phase, SameStatus, StatusOf, SameRegs, RegsOf
  <2>2. QED
    BY <2>1, AbstractStutter
<1>9. CASE CheckState
  <2>1. Phase' = Phase /\ SameStatus /\ SameRegs
    BY <1>9, Bits DEF CheckState, IInv, TypeOK, Protocol, Word, Signal,
       IsSuspended, Phase, SameStatus, StatusOf, SameRegs, RegsOf
  <2>2. QED
    BY <2>1, AbstractStutter
<1>10. CASE Kill
  <2>1. Phase' = Phase /\ SameStatus /\ SameRegs
    BY <1>10, Bits DEF Kill, IInv, TypeOK, Protocol, Word, Signal,
       IsSuspended, Phase, SameStatus, StatusOf, SameRegs, RegsOf
  <2>2. QED
    BY <2>1, AbstractStutter
<1>11. CASE Join
  <2>1. Phase' = Phase /\ SameStatus /\ SameRegs
    BY <1>11, Bits DEF Join, IInv, TypeOK, Protocol, Word, Signal,
       IsSuspended, Phase, SameStatus, StatusOf, SameRegs, RegsOf
  <2>2. QED
    BY <2>1, AbstractStutter
<1>12. CASE JoinWait
  <2>1. Phase' = Phase /\ SameStatus /\ SameRegs
    BY <1>12, Bits DEF JoinWait, IInv, TypeOK, Protocol, Word, Signal,
       IsSuspended, Phase, SameStatus, StatusOf, SameRegs, RegsOf
  <2>2. QED
    BY <2>1, AbstractStutter
<1>13. CASE UnqueueFaultedThread
  <2>1. Phase = "stopping" /\ Phase' = "stopped" /\ SameStatus /\ SameRegs
    BY <1>13 DEF UnqueueFaultedThread, Phase, SameStatus, StatusOf,
       SameRegs, RegsOf, IsSuspended
  <2>2. \A t \in Threads : StatusOf(t) = "held"
    BY <1>13 DEF UnqueueFaultedThread, StatusOf, IInv, Progress
  <2>3. QED
    BY <2>1, <2>2, AbstractPhase
<1>14. CASE Continue
  <2>1. Phase = "stopped" /\ Phase' = "resuming" /\ SameStatus /\ SameRegs
    BY <1>14 DEF Continue, Phase, SameStatus, StatusOf, SameRegs, RegsOf,
       IsSuspended
  <2>2. QED
    BY <2>1, AbstractPhase
<1>15. CASE ResumePick
  <2>1. SameStatus /\ SameRegs
    BY <1>15 DEF ResumePick, SameStatus, StatusOf, SameRegs, RegsOf,
       IsSuspended
  <2>2. Phase = "resuming" /\ Phase' \in {"resuming", "running"}
    BY <1>15 DEF ResumePick, Phase
  <2>3. ASSUME Phase' = "running"
        PROVE  \E t \in Threads : StatusOf(t) # "held"
    <3>1. PICK t \in Threads : Target(t)
      BY ThreadSuspendAssumption DEF IInv, TypeOK, Target
    <3>2. Free(t)
      BY <1>15, <2>3, <3>1 DEF ResumePick, Phase, IInv, Progress,
         ResumingThread, IdleThread
    <3>3. QED
      BY <3>2, Bits DEF Free, StatusOf, IsSuspended
  <2>4. QED
    BY <2>1, <2>2, <2>3, AbstractPhase, AbstractStutter
<1>16. CASE ResumeRead
  <2>1. Phase' = Phase /\ SameStatus /\ SameRegs
    BY <1>16, Bits DEF ResumeRead, IInv, TypeOK, Protocol, Word, Signal,
       IsSuspended, Phase, SameStatus, StatusOf, SameRegs, RegsOf
  <2>2. QED
    BY <2>1, AbstractStutter
<1>17. CASE ResumeCas
  <2>1. Phase = "resuming" /\ Phase' = Phase /\ SameRegs
    BY <1>17 DEF ResumeCas, Phase, SameRegs, RegsOf
  <2>2. /\ cur \in Threads
        /\ \/ StatusMoves(cur, "held", "free")
           \/ StatusMoves(cur, "held", "leaving")
    BY <1>17, Bits DEF ResumeCas, StatusMoves, StatusOf, IsSuspended, IInv,
       TypeOK, Progress
  <2>3. QED
    BY <2>1, <2>2, AbstractRelease DEF Abstract!Next
<1>18. CASE ResumeWake
  <2>1. Phase' = Phase /\ SameStatus /\ SameRegs
    BY <1>18, Bits DEF ResumeWake, IInv, TypeOK, Protocol, Word, Signal,
       IsSuspended, Phase, SameStatus, StatusOf, SameRegs, RegsOf
  <2>2. QED
    BY <2>1, AbstractStutter
<1> QED
  BY <1>1, <1>2, <1>3, <1>4, <1>5, <1>6, <1>7, <1>8, <1>9, <1>10, <1>11,
     <1>12, <1>13, <1>14, <1>15, <1>16, <1>17, <1>18 DEF StubStep

(* Thread suspension implements SuspendSpec.                               *)
THEOREM ThreadSuspendImplementsSpec == Spec => ImplementsSuspendSpec
<1>1. IInv /\ [Next]_vars => [Abstract!Next]_(Abstract!vars)
  <2> SUFFICES ASSUME IInv, [Next]_vars
               PROVE  [Abstract!Next]_(Abstract!vars)
    OBVIOUS
  <2>1. CASE UNCHANGED vars
    BY <2>1 DEF vars, Abstract!vars, IsSuspended
  <2>2. ASSUME NEW t \in Threads,
               HostStep(t) \/ RunUntrusted(t) \/ Syscall(t) \/ Fault(t)
                 \/ EditRegisters(t)
        PROVE  [Abstract!Next]_(Abstract!vars)
    BY <2>2, HostSimulates
  <2>3. CASE StubStep \/ GdbInterrupt \/ Continue
    BY <2>3, StubSimulates
  <2>4. QED
    BY <2>1, <2>2, <2>3 DEF Next
<1>2. QED
  BY <1>1, InitAbstract, Invariance, PTL
     DEF Spec, ImplementsSuspendSpec, Abstract!Spec
=============================================================================
