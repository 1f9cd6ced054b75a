------------------------------ MODULE CallGate ------------------------------
(***************************************************************************)
(* The call gate of the library sandbox, on Linux x86-64: how ONE host     *)
(* thread enters sandboxes (getThreadData, preFunctionCall,                *)
(* invokeFunctionCall), how sandboxed code leaves them (the exit_sandbox   *)
(* and callback system calls), and how both nest: a callback of sandbox A  *)
(* may call A again, or sandbox B, whose callback may call A, and so on.   *)
(*                                                                         *)
(* The control stack of the host thread is the sequence `frames', oldest   *)
(* first.  A frame is                                                      *)
(*    "pre"       a call prepared by preFunctionCall, not yet invoked      *)
(*    "call"      an active invokeFunctionCall                             *)
(*    "spawn"     an active NaClAppThreadSpawnOnCurrThread                 *)
(*    "callback"  an active NaClSysCallback                                *)
(* The thread runs sandboxed code while its top frame is "call" or         *)
(* "spawn", and host code otherwise.                                       *)
(*                                                                         *)
(* A stack pointer is the distance between it and the base of its stack,   *)
(* so a larger number is a deeper stack.  The base of a sandbox stack is   *)
(* where threadMain() left it.                                             *)
(***************************************************************************)
EXTENDS Naturals, Sequences

CONSTANTS
    Sandboxes,             \* the sandboxes of the process
    NoThread,              \* nacl_current_thread == NULL
    StackArrSize,          \* STACK_ARR_SIZE: jump buffers of one NaClAppThread
    CallAreas,             \* sizes of the area preFunctionCall reserves
    FrameSizes,            \* stack a sandboxed function uses before a syscall
    StackLimit,            \* bound: depth of a sandbox stack
    HostLimit,             \* bound: depth of the trusted stack
    FirstEntryInCallback,  \* may a sandbox be entered first inside a callback?
    NestedMarshalling      \* may a call be made while another is prepared?

ASSUME CallGateAssumption ==
    /\ NoThread \notin Sandboxes
    /\ StackArrSize \in Nat \ {0}
    /\ CallAreas \subseteq Nat \ {0}
    /\ FrameSizes \subseteq Nat
    /\ StackLimit \in Nat
    /\ HostLimit \in Nat
    /\ FirstEntryInCallback \in BOOLEAN
    /\ NestedMarshalling \in BOOLEAN

VARIABLES
    frames,               \* the control stack of the host thread
    nacl_current_thread,  \* the TLS variable the syscall trampoline reads
    registered,           \* registered[s]: s has a NaClSandbox_Thread for us
    suspend_state,        \* natp->suspend_state
    jumpBufferStack,      \* natp->jumpBufferStack: indices into frames
    rsp,                  \* natp->user.rsp
    trusted_stack_ptr,    \* natp->user.trusted_stack_ptr
    saved_stack_ptr,      \* threadData->saved_stack_ptr_forFunctionCall
    fatal                 \* why the process was aborted, or "none"

vars == <<frames, nacl_current_thread, registered, suspend_state,
          jumpBufferStack, rsp, trusted_stack_ptr, saved_stack_ptr, fatal>>

Frame == [kind    : {"pre", "call", "spawn", "callback"},
          sb      : Sandboxes,
          host    : Nat,      \* trusted stack depth of the host code
          base    : Nat,      \* sandbox stack depth below which it may write
          entry   : Nat,      \* sandbox stack depth it leaves to the callee
          restore : Nat,      \* the rsp it puts back when it ends
          prev    : Sandboxes \cup {NoThread}]  \* prevSandboxSavedInTls

TypeOK ==
    /\ frames \in Seq(Frame)
    /\ nacl_current_thread \in Sandboxes \cup {NoThread}
    /\ registered \in [Sandboxes -> BOOLEAN]
    /\ suspend_state \in [Sandboxes -> {"TRUSTED", "UNTRUSTED"}]
    /\ jumpBufferStack \in [Sandboxes -> Seq(Nat \ {0})]
    /\ rsp \in [Sandboxes -> Nat]
    /\ trusted_stack_ptr \in [Sandboxes -> Nat]
    /\ saved_stack_ptr \in [Sandboxes -> Nat]
    /\ fatal \in {"none", "suspend_state", "push", "pop"}

Init ==
    /\ frames = << >>
    /\ nacl_current_thread = NoThread
    /\ registered = [s \in Sandboxes |-> FALSE]
    /\ suspend_state = [s \in Sandboxes |-> "TRUSTED"]
    /\ jumpBufferStack = [s \in Sandboxes |-> << >>]
    /\ rsp = [s \in Sandboxes |-> 0]
    /\ trusted_stack_ptr = [s \in Sandboxes |-> 0]
    /\ saved_stack_ptr = [s \in Sandboxes |-> 0]
    /\ fatal = "none"

-----------------------------------------------------------------------------
(***************************************************************************)
(* Where the thread is.                                                    *)
(***************************************************************************)
Top == frames[Len(frames)]
IsEmpty == frames = << >>
InSandbox == ~IsEmpty /\ Top.kind \in {"call", "spawn"}
Prepared == ~IsEmpty /\ Top.kind = "pre"
InCallback == ~IsEmpty /\ Top.kind = "callback"
InHost == IsEmpty \/ Prepared \/ InCallback

(* Mutant: the trusted stack pointer saved is not that of the caller.      *)
HostSpOfBase == 0
HostSp == IF IsEmpty THEN 0 ELSE Top.host
Running == fatal = "none"

(***************************************************************************)
(* Host code.                                                              *)
(***************************************************************************)

(* getThreadData() misses, or createDlSandbox() starts the main thread: a  *)
(* fresh NaClAppThread is made, a jump buffer pushed, and                  *)
(* NaClAppThreadLauncher makes it the current thread and enters the        *)
(* sandbox.  The old current thread is not saved anywhere.                 *)
SpawnOnCurrThread(s) ==
    /\ Running /\ InHost
    /\ ~registered[s]
    /\ FirstEntryInCallback \/ IsEmpty
    /\ HostSp < HostLimit
    /\ frames' = Append(frames,
                   [kind |-> "spawn", sb |-> s, host |-> HostSp, base |-> 0,
                    entry |-> 0, restore |-> 0, prev |-> NoThread])
    /\ nacl_current_thread' = s
    /\ suspend_state' = [suspend_state EXCEPT ![s] = "UNTRUSTED"]
    /\ jumpBufferStack' = [jumpBufferStack EXCEPT ![s] = <<Len(frames) + 1>>]
    /\ trusted_stack_ptr' = [trusted_stack_ptr EXCEPT ![s] = HostSp + 1]
    /\ rsp' = [rsp EXCEPT ![s] = 0]
    /\ UNCHANGED <<registered, saved_stack_ptr, fatal>>

(* Mutant: the area is reserved on the wrong side of the stack pointer.    *)
PreFunctionCallUpwards(s) ==
    /\ Running /\ InHost
    /\ registered[s]
    /\ NestedMarshalling \/ ~Prepared
    /\ \E area \in CallAreas :
         /\ rsp' = [rsp EXCEPT ![s] = @ - area]
         /\ saved_stack_ptr' = [saved_stack_ptr EXCEPT ![s] = rsp[s]]
         /\ frames' = Append(frames,
                        [kind |-> "pre", sb |-> s, host |-> HostSp,
                         base |-> rsp[s], entry |-> rsp[s] - area,
                         restore |-> rsp[s], prev |-> NoThread])
    /\ UNCHANGED <<nacl_current_thread, registered, suspend_state,
                   jumpBufferStack, trusted_stack_ptr, fatal>>

(* preFunctionCall(): remember the sandbox stack pointer and move it past  *)
(* the area for the arrays, the arguments and the return address.          *)
PreFunctionCall(s) ==
    /\ Running /\ InHost
    /\ registered[s]
    /\ NestedMarshalling \/ ~Prepared
    /\ HostSp < HostLimit
    /\ \E area \in CallAreas :
         /\ rsp[s] + area <= StackLimit
         /\ rsp' = [rsp EXCEPT ![s] = @ + area]
         /\ saved_stack_ptr' = [saved_stack_ptr EXCEPT ![s] = rsp[s]]
         /\ frames' = Append(frames,
                        [kind |-> "pre", sb |-> s, host |-> HostSp,
                         base |-> rsp[s], entry |-> rsp[s] + area,
                         restore |-> rsp[s], prev |-> NoThread])
    /\ UNCHANGED <<nacl_current_thread, registered, suspend_state,
                   jumpBufferStack, trusted_stack_ptr, fatal>>

(* invokeFunctionCall() up to the jump into the sandbox, for the call      *)
(* prepared last: exchange the TLS variable, leave the trusted state, copy *)
(* the saved stack pointer to a local, push a jump buffer and switch.      *)
InvokeFunctionCall ==
    /\ Running
    /\ Prepared
    /\ LET s == Top.sb IN
       /\ suspend_state[s] = "TRUSTED"
       /\ Len(jumpBufferStack[s]) < StackArrSize
       /\ nacl_current_thread' = s
       /\ suspend_state' = [suspend_state EXCEPT ![s] = "UNTRUSTED"]
       /\ jumpBufferStack' =
            [jumpBufferStack EXCEPT ![s] = Append(@, Len(frames))]
       /\ trusted_stack_ptr' = [trusted_stack_ptr EXCEPT ![s] = HostSp + 1]
       /\ frames' = [frames EXCEPT ![Len(frames)] =
                       [kind |-> "call", sb |-> s, host |-> Top.host,
                        base |-> Top.base, entry |-> rsp[s],
                        restore |-> saved_stack_ptr[s],
                        prev |-> nacl_current_thread]]
    /\ UNCHANGED <<registered, rsp, saved_stack_ptr, fatal>>

(* Mutant: the thread goes back to its caller in the trusted state.        *)
CallbackReturnTrusted ==
    /\ Running
    /\ InCallback
    /\ suspend_state[Top.sb] = "TRUSTED"
    /\ rsp' = [rsp EXCEPT ![Top.sb] = Top.restore]
    /\ frames' = SubSeq(frames, 1, Len(frames) - 1)
    /\ UNCHANGED <<nacl_current_thread, registered, suspend_state,
                   jumpBufferStack, trusted_stack_ptr, saved_stack_ptr, fatal>>

(* A callback function of the host returns: the end of NaClSysCallback and *)
(* of NaClSyscallCSegHook.  The saved registers are put back, the thread   *)
(* leaves the trusted state and NaClSwitch resumes the sandboxed caller.   *)
CallbackReturn ==
    /\ Running
    /\ InCallback
    /\ LET s == Top.sb IN
       /\ suspend_state[s] = "TRUSTED"
       /\ rsp' = [rsp EXCEPT ![s] = Top.restore]
       /\ suspend_state' = [suspend_state EXCEPT ![s] = "UNTRUSTED"]
       /\ frames' = SubSeq(frames, 1, Len(frames) - 1)
    /\ UNCHANGED <<nacl_current_thread, registered, jumpBufferStack,
                   trusted_stack_ptr, saved_stack_ptr, fatal>>

(* destroyDlSandbox(): "threads must be stopped".  The NaClAppThread is    *)
(* deleted; nacl_current_thread keeps its value.                           *)
DestroyDlSandbox(s) ==
    /\ Running /\ InHost
    /\ registered[s]
    /\ \A i \in 1..Len(frames) : frames[i].sb # s
    /\ registered' = [registered EXCEPT ![s] = FALSE]
    /\ rsp' = [rsp EXCEPT ![s] = 0]
    /\ UNCHANGED <<frames, nacl_current_thread, suspend_state,
                   jumpBufferStack, trusted_stack_ptr, saved_stack_ptr, fatal>>

-----------------------------------------------------------------------------
(***************************************************************************)
(* Sandboxed code: it can only leave through the syscall trampoline, which *)
(* finds its NaClAppThread in nacl_current_thread, stores rsp there and    *)
(* requires that thread to be in the untrusted state.                      *)
(***************************************************************************)
(* Mutant: the trampoline saves the stack pointer of the call, without the *)
(* arguments and the frames of the callee.                                 *)
SyscallSpOfCall(r) == r = Top.base

SyscallSp(r) ==
    \E size \in FrameSizes : r = Top.entry + size /\ r <= StackLimit

SyscallEntry ==
    /\ Running /\ InSandbox
    /\ nacl_current_thread \in Sandboxes
    /\ suspend_state[nacl_current_thread] = "UNTRUSTED"

(* A system call that returns to its caller and touches no state of ours.  *)
OtherSyscall ==
    /\ SyscallEntry
    /\ \E r \in 0..StackLimit :
         SyscallSp(r) /\ rsp' = [rsp EXCEPT ![nacl_current_thread] = r]
    /\ UNCHANGED <<frames, nacl_current_thread, registered, suspend_state,
                   jumpBufferStack, trusted_stack_ptr, saved_stack_ptr, fatal>>

(* NaClSysCallback() up to the call of the host's function.                *)
SysCallback ==
    /\ SyscallEntry
    /\ Top.kind = "call"
    /\ LET s == nacl_current_thread IN
       /\ trusted_stack_ptr[s] < HostLimit
       /\ \E r \in 0..StackLimit :
            /\ SyscallSp(r)
            /\ rsp' = [rsp EXCEPT ![s] = r]
            /\ frames' = Append(frames,
                           [kind |-> "callback", sb |-> s,
                            host |-> trusted_stack_ptr[s] + 1,
                            base |-> r, entry |-> r, restore |-> r,
                            prev |-> NoThread])
       /\ suspend_state' = [suspend_state EXCEPT ![s] = "TRUSTED"]
    /\ UNCHANGED <<nacl_current_thread, registered, jumpBufferStack,
                   trusted_stack_ptr, saved_stack_ptr, fatal>>

(* Mutant: the jump buffer is used but not removed.                        *)
PeekJumpBuffer(s) == UNCHANGED jumpBufferStack

(* Stack_GetTopPtrForPop().                                                *)
PopJumpBuffer(s) ==
    jumpBufferStack' = [jumpBufferStack EXCEPT ![s] = SubSeq(@, 1, Len(@) - 1)]

(* Mutants: the TLS variable, or the stack pointer, is not put back.       *)
ReturnKeepsTls(f) ==
    /\ rsp' = [rsp EXCEPT ![f.sb] = f.restore]
    /\ registered' = [registered EXCEPT ![f.sb] = TRUE]
    /\ UNCHANGED nacl_current_thread

ReturnKeepsRsp(f) ==
    /\ nacl_current_thread' = IF f.kind = "call" THEN f.prev
                                                ELSE nacl_current_thread
    /\ registered' = [registered EXCEPT ![f.sb] = TRUE]
    /\ UNCHANGED rsp

(* setjmp() returns for the second time in the function of frame f:        *)
(* invokeFunctionCall restores rsp and the TLS variable, getThreadData     *)
(* registers the new thread.                                               *)
ReturnTo(f) ==
    /\ rsp' = [rsp EXCEPT ![f.sb] = f.restore]
    /\ \/ /\ f.kind = "call"
          /\ nacl_current_thread' = f.prev
          /\ UNCHANGED registered
       \/ /\ f.kind = "spawn"
          /\ registered' = [registered EXCEPT ![f.sb] = TRUE]
          /\ UNCHANGED nacl_current_thread

(* NaClSysExitSandbox(): pop a jump buffer of the current thread and       *)
(* longjmp() to it.                                                        *)
SysExitSandbox ==
    /\ SyscallEntry
    /\ LET s == nacl_current_thread
           n == Len(jumpBufferStack[s])
           i == jumpBufferStack[s][n] IN
       /\ n > 0
       /\ suspend_state' = [suspend_state EXCEPT ![s] = "TRUSTED"]
       /\ PopJumpBuffer(s)
       /\ frames' = SubSeq(frames, 1, i - 1)
       /\ ReturnTo(frames[i])
    /\ UNCHANGED <<trusted_stack_ptr, saved_stack_ptr, fatal>>

-----------------------------------------------------------------------------
(***************************************************************************)
(* LOG_FATAL ends the process.  Nothing of an aborted process matters but  *)
(* the reason, so the other variables keep their values.                   *)
(***************************************************************************)
Abort(reason) ==
    /\ fatal' = reason
    /\ UNCHANGED <<frames, nacl_current_thread, registered, suspend_state,
                   jumpBufferStack, rsp, trusted_stack_ptr, saved_stack_ptr>>

(* What NaClAppThreadSetSuspendState() expects at the thread's next         *)
(* transition: on entry to a system call the current thread is untrusted;  *)
(* in invokeFunctionCall and after a callback the thread is trusted.       *)
SuspendStateExpected ==
    IF InSandbox
    THEN nacl_current_thread \in Sandboxes =>
           suspend_state[nacl_current_thread] = "UNTRUSTED"
    ELSE IsEmpty \/ suspend_state[Top.sb] = "TRUSTED"

UnexpectedSuspendState ==
    /\ Running
    /\ ~SuspendStateExpected
    /\ Abort("suspend_state")

(* Stack_GetTopPtrForPush() in invokeFunctionCall finds no free jump        *)
(* buffer, or Stack_GetTopPtrForPop() in NaClSysExitSandbox finds none.    *)
PushFails ==
    /\ Prepared
    /\ suspend_state[Top.sb] = "TRUSTED"
    /\ Len(jumpBufferStack[Top.sb]) = StackArrSize

PopFails ==
    /\ SyscallEntry
    /\ Len(jumpBufferStack[nacl_current_thread]) = 0

NoJumpBuffer ==
    /\ Running
    /\ ~(~PushFails /\ ~PopFails)
    /\ Abort(IF PushFails THEN "push" ELSE "pop")

Aborted == ~Running /\ UNCHANGED vars

Next ==
    \/ \E s \in Sandboxes :
         \/ SpawnOnCurrThread(s)
         \/ PreFunctionCall(s)
         \/ DestroyDlSandbox(s)
    \/ InvokeFunctionCall
    \/ CallbackReturn
    \/ OtherSyscall
    \/ SysCallback
    \/ SysExitSandbox
    \/ UnexpectedSuspendState
    \/ NoJumpBuffer
    \/ Aborted

Spec == Init /\ [][Next]_vars

-----------------------------------------------------------------------------
(***************************************************************************)
(* Properties.                                                             *)
(***************************************************************************)

(* Sandboxed code always runs with nacl_current_thread set to the thread   *)
(* of its own sandbox, so that its system calls reach its own context:     *)
(* invokeFunctionCall "update[s] & restore[s] the value of the tls storage *)
(* after each nested function call", however deep the nesting.             *)
SandboxRunsOnItsThread ==
    InSandbox => nacl_current_thread = Top.sb

(* The suspend_state handshake never meets a state it does not expect and  *)
(* the jump buffer stack is never popped empty: the only fatal error of    *)
(* the call gate is nesting deeper than STACK_ARR_SIZE.                    *)
NoUnexpectedAbort == fatal \in {"none", "push"}

JumpBuffersLiveOf(s) ==
    /\ \A k \in 1..Len(jumpBufferStack[s]) :
         LET i == jumpBufferStack[s][k] IN
         /\ i <= Len(frames)
         /\ frames[i].sb = s
         /\ frames[i].kind \in {"call", "spawn"}
    /\ \A k, l \in 1..Len(jumpBufferStack[s]) :
         k < l => jumpBufferStack[s][k] < jumpBufferStack[s][l]

(* Every jump buffer of a sandbox denotes a live frame of that sandbox,    *)
(* in stack order, so that longjmp() in NaClSysExitSandbox never jumps     *)
(* into a function that has returned.                                      *)
JumpBuffersLive == \A s \in Sandboxes : JumpBuffersLiveOf(s)

(* A call into a sandbox never writes its arguments over the part of the   *)
(* sandbox stack that an older frame still uses: an interrupted caller of  *)
(* a callback, or the arguments of a call that is prepared or active.      *)
StackAreasNested ==
    \A i, j \in 1..Len(frames) :
      i < j /\ frames[i].sb = frames[j].sb => frames[i].entry <= frames[j].base

(* The trusted stack a callback runs on lies beyond every live host frame, *)
(* so that no jump buffer's function loses its frame.                      *)
HostFramesPreserved ==
    \A i, j \in 1..Len(frames) :
      /\ i < j => frames[i].host <= frames[j].host
      /\ i < j /\ frames[j].kind = "callback" => frames[i].host < frames[j].host

(* When no frame of a sandbox is left, its stack pointer is back where the *)
(* first call found it: calls and callbacks do not leak sandbox stack.     *)
StackBalanced ==
    \A s \in Sandboxes :
      registered[s] /\ (\A i \in 1..Len(frames) : frames[i].sb # s)
        => rsp[s] = 0

(* Sandboxed code resumed after a callback makes its next system call on   *)
(* the trusted stack of its own invokeFunctionCall: the context that the   *)
(* nested call "would have destroyed" is restored by NaClSysCallback.      *)
TrustedStackRestored ==
    InSandbox => trusted_stack_ptr[Top.sb] = Top.host + 1
=============================================================================
