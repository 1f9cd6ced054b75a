--------------------------- MODULE CallGateProofs ---------------------------
(***************************************************************************)
(* Proofs about CallGate, for any number of sandboxes and any bounds.      *)
(*                                                                         *)
(* The safety properties are not inductive: what a longjmp() finds on a    *)
(* jump buffer stack depends on the shape of the whole control stack.  The *)
(* invariant GateInv below says what the control stack looks like and how  *)
(* the fields of each NaClAppThread follow from it.                        *)
(***************************************************************************)
EXTENDS CallGate, SequenceTheorems, TLAPS

(* A frame that has entered a sandbox is the top frame or is followed by   *)
(* the callback it made; a callback always follows the call that made it.  *)
ShapeAt(i) ==
    /\ frames[i].kind \in {"call", "spawn"} /\ i < Len(frames)
         => /\ frames[i].kind = "call"
            /\ frames[i + 1].kind = "callback"
            /\ frames[i + 1].sb = frames[i].sb
    /\ frames[i].kind = "callback"
         => /\ i > 1
            /\ frames[i - 1].kind = "call"
            /\ frames[i - 1].sb = frames[i].sb

ShapeInv == \A i \in 1..Len(frames) : ShapeAt(i)

(* A thread is in the untrusted state iff its code is running.             *)
SuspendInv ==
    \A s \in Sandboxes :
      suspend_state[s] = "UNTRUSTED" <=> InSandbox /\ Top.sb = s

(* Only the frame that creates a sandbox thread belongs to a sandbox that  *)
(* is not registered.                                                      *)
RegisteredInv ==
    \A i \in 1..Len(frames) :
      registered[frames[i].sb] <=> frames[i].kind # "spawn"

(* The converse of JumpBuffersLive: every entered frame has a jump buffer. *)
JumpBufferFor(i) ==
    frames[i].kind \in {"call", "spawn"} =>
      \E k \in 1..Len(jumpBufferStack[frames[i].sb]) :
        jumpBufferStack[frames[i].sb][k] = i

JumpBuffersComplete == \A i \in 1..Len(frames) : JumpBufferFor(i)

(* Where the stack pointers of a sandbox stand relative to its frames.     *)
StackAt(i) ==
    /\ frames[i].base <= frames[i].entry
    /\ frames[i].entry <= rsp[frames[i].sb]
    /\ frames[i].kind = "callback" =>
         frames[i].base = frames[i].restore /\ frames[i].entry = frames[i].restore

(* A frame that will restore the stack pointer spares all older frames.    *)
RestoreAbove(j, i) ==
    j < i /\ frames[j].sb = frames[i].sb =>
      /\ frames[i].kind = "call" => frames[j].entry <= frames[i].restore
      /\ frames[i].kind = "pre" =>
           frames[j].entry <= saved_stack_ptr[frames[i].sb]

StackInv ==
    /\ \A i \in 1..Len(frames) : StackAt(i)
    /\ \A i, j \in 1..Len(frames) : RestoreAbove(j, i)

(* The trusted stack of an entered frame starts beyond the frame itself.   *)
HostInv ==
    \A i \in 1..Len(frames) :
      frames[i].kind \in {"call", "spawn"} =>
        frames[i].host < trusted_stack_ptr[frames[i].sb]

GateInv ==
    /\ TypeOK
    /\ ShapeInv
    /\ SuspendInv
    /\ RegisteredInv
    /\ JumpBuffersLive
    /\ JumpBuffersComplete
    /\ StackAreasNested
    /\ StackInv
    /\ HostFramesPreserved
    /\ HostInv

(* The frame whose code nacl_current_thread must describe: the innermost   *)
(* frame that has entered or left a sandbox, seen from position n.         *)
InnermostBelow(i, n) ==
    /\ frames[i].kind # "pre"
    /\ \A j \in 1..Len(frames) : i < j /\ j < n => frames[j].kind = "pre"

(* The TLS variable is that of the innermost frame, and every call knows   *)
(* which thread to put back.                                               *)
TlsInv ==
    /\ \A i \in 1..Len(frames) :
         InnermostBelow(i, Len(frames) + 1) => nacl_current_thread = frames[i].sb
    /\ \A i, n \in 1..Len(frames) :
         i < n /\ frames[n].kind = "call" /\ InnermostBelow(i, n)
           => frames[n].prev = frames[i].sb
    /\ \A i \in 1..Len(frames) : frames[i].kind = "spawn" => i = 1
    /\ NoUnexpectedAbort

(* Without nested marshalling a prepared call keeps its saved stack        *)
(* pointer, because nothing but a thread creation may follow it, and the   *)
(* outermost frame of a sandbox restores the base of its stack.            *)
PreparedAt(i) ==
    frames[i].kind = "pre" =>
      /\ frames[i].restore = saved_stack_ptr[frames[i].sb]
      /\ i < Len(frames) => frames[i + 1].kind = "spawn"

OutermostAt(i) ==
    (\A j \in 1..Len(frames) : j < i => frames[j].sb # frames[i].sb)
      => frames[i].restore = 0

BalanceInv ==
    /\ \A i \in 1..Len(frames) : PreparedAt(i)
    /\ \A i \in 1..Len(frames) : OutermostAt(i)
    /\ StackBalanced

-----------------------------------------------------------------------------
(***************************************************************************)
(* Sequences used as stacks.                                               *)
(***************************************************************************)

(* Pushing an element keeps the others and puts it on top.                 *)
LEMMA PushLemma ==
    ASSUME NEW S, NEW q \in Seq(S), NEW e \in S
    PROVE  /\ Append(q, e) \in Seq(S)
           /\ Len(Append(q, e)) = Len(q) + 1
           /\ Len(q) \in Nat
           /\ \A i \in 1..Len(q) : Append(q, e)[i] = q[i]
           /\ Append(q, e)[Len(q) + 1] = e
  BY AppendProperties, LenProperties

(* Popping an element keeps the others.                                    *)
LEMMA PopLemma ==
    ASSUME NEW S, NEW q \in Seq(S), NEW n \in Nat, n = Len(q), n > 0
    PROVE  /\ SubSeq(q, 1, n - 1) \in Seq(S)
           /\ Len(SubSeq(q, 1, n - 1)) = n - 1
           /\ \A i \in 1..(n - 1) : SubSeq(q, 1, n - 1)[i] = q[i]
  <1>1. /\ 1 \in 1..(Len(q) + 1)
        /\ n - 1 \in (1 - 1)..Len(q)
    OBVIOUS
  <1>2. QED
    BY <1>1, SubSeqProperties

(* Replacing the top element keeps the others.                             *)
LEMMA ReplaceLemma ==
    ASSUME NEW S, NEW q \in Seq(S), NEW e \in S, Len(q) > 0
    PROVE  LET r == [q EXCEPT ![Len(q)] = e] IN
           /\ r \in Seq(S)
           /\ Len(r) = Len(q)
           /\ Len(q) \in Nat
           /\ \A i \in 1..Len(q) : i # Len(q) => r[i] = q[i]
           /\ r[Len(q)] = e
  <1>1. Len(q) \in 1..Len(q) /\ Len(q) \in Nat
    BY LenProperties
  <1>2. QED
    BY <1>1, ExceptSeq, LenProperties

(* A stack is empty exactly when its height is zero.                       *)
LEMMA EmptyLemma ==
    ASSUME NEW S, NEW q \in Seq(S)
    PROVE  q = << >> <=> Len(q) = 0
  BY EmptySeq, LenProperties

(* The elements of a stack have its type, and its height is a number.      *)
LEMMA StackTypeLemma ==
    ASSUME NEW S, NEW q \in Seq(S)
    PROVE  Len(q) \in Nat /\ \A i \in 1..Len(q) : q[i] \in S
  BY LenProperties, ElementOfSeq

-----------------------------------------------------------------------------
(***************************************************************************)
(* Type correctness.                                                       *)
(***************************************************************************)

(* A control stack is empty exactly when it has no top.                    *)
LEMMA TopLemma ==
    ASSUME TypeOK
    PROVE  /\ Len(frames) \in Nat
           /\ IsEmpty <=> Len(frames) = 0
           /\ ~IsEmpty => Top \in Frame /\ Len(frames) \in 1..Len(frames)
           /\ HostSp \in Nat
  <1>1. Len(frames) \in Nat /\ \A i \in 1..Len(frames) : frames[i] \in Frame
    BY StackTypeLemma DEF TypeOK
  <1>2. IsEmpty <=> Len(frames) = 0
    BY EmptySeq, LenProperties DEF TypeOK, IsEmpty
  <1>3. ~IsEmpty => Top \in Frame /\ Len(frames) \in 1..Len(frames)
    BY <1>1, <1>2 DEF Top
  <1>4. HostSp \in Nat
    BY <1>3 DEF HostSp, Frame
  <1>5. QED
    BY <1>1, <1>2, <1>3, <1>4

(* The initial state is well typed.                                        *)
LEMMA TypeInit == Init => TypeOK
  <1>1. << >> \in Seq(Frame) /\ << >> \in Seq(Nat \ {0})
    BY EmptySeq
  <1>2. QED
    BY <1>1 DEF Init, TypeOK

(* NaClSysExitSandbox pops the jump buffer of the top frame, so its        *)
(* longjmp() unwinds exactly that frame.                                   *)
LEMMA ExitLemma ==
    ASSUME TypeOK, SuspendInv, JumpBuffersLive, JumpBuffersComplete,
           SyscallEntry
    PROVE  LET s == nacl_current_thread
               n == Len(jumpBufferStack[s]) IN
           /\ s \in Sandboxes /\ Top.sb = s
           /\ n \in Nat /\ n > 0
           /\ jumpBufferStack[s][n] = Len(frames)
           /\ Len(frames) > 0
           /\ Top.kind \in {"call", "spawn"}
  <1> DEFINE s == nacl_current_thread
             n == Len(jumpBufferStack[s])
  <1>1. s \in Sandboxes /\ InSandbox /\ Top.sb = s
    BY DEF SyscallEntry, SuspendInv
  <1>2. ~IsEmpty /\ Len(frames) \in 1..Len(frames) /\ Len(frames) \in Nat
    BY <1>1, TopLemma DEF InSandbox
  <1>3. jumpBufferStack[s] \in Seq(Nat \ {0})
    BY <1>1 DEF TypeOK
  <1>4. n \in Nat /\ \A k \in 1..n : jumpBufferStack[s][k] \in Nat
    BY <1>3, StackTypeLemma
  <1>5. PICK k \in 1..n : jumpBufferStack[s][k] = Len(frames)
    BY <1>1, <1>2 DEF JumpBuffersComplete, JumpBufferFor, InSandbox, Top
  <1>6. n > 0 /\ n \in 1..n /\ jumpBufferStack[s][n] <= Len(frames)
    BY <1>1, <1>4, <1>5 DEF JumpBuffersLive, JumpBuffersLiveOf
  <1>7. k < n => jumpBufferStack[s][k] < jumpBufferStack[s][n]
    BY <1>1, <1>6 DEF JumpBuffersLive, JumpBuffersLiveOf
  <1>8. k = n
    BY <1>2, <1>4, <1>5, <1>6, <1>7
  <1>9. QED
    BY <1>1, <1>2, <1>4, <1>5, <1>6, <1>8 DEF InSandbox

(* Every step keeps the state well typed.                                  *)
LEMMA TypeNext == GateInv /\ [Next]_vars => TypeOK'
  <1> SUFFICES ASSUME GateInv, [Next]_vars
               PROVE  TypeOK'
    OBVIOUS
  <1> TypeOK
    BY DEF GateInv
  <1> USE CallGateAssumption
  <1>0. /\ Len(frames) \in Nat
        /\ IsEmpty <=> Len(frames) = 0
        /\ ~IsEmpty => Top \in Frame /\ Len(frames) \in 1..Len(frames)
        /\ HostSp \in Nat
    BY TopLemma
  <1>1. ASSUME NEW s \in Sandboxes, SpawnOnCurrThread(s)
        PROVE  TypeOK'
    <2> DEFINE e == [kind |-> "spawn", sb |-> s, host |-> HostSp, base |-> 0,
                     entry |-> 0, restore |-> 0, prev |-> NoThread]
    <2>1. e \in Frame
      BY <1>0 DEF Frame
    <2>2. frames' \in Seq(Frame)
      BY <1>1, <2>1, PushLemma DEF SpawnOnCurrThread, TypeOK
    <2>3. <<Len(frames) + 1>> \in Seq(Nat \ {0})
      BY <1>0
    <2>4. QED
      BY <1>0, <1>1, <2>2, <2>3 DEF SpawnOnCurrThread, TypeOK
  <1>2. ASSUME NEW s \in Sandboxes, PreFunctionCall(s)
        PROVE  TypeOK'
    <2> PICK area \in CallAreas :
          /\ rsp' = [rsp EXCEPT ![s] = @ + area]
          /\ saved_stack_ptr' = [saved_stack_ptr EXCEPT ![s] = rsp[s]]
          /\ frames' = Append(frames,
                         [kind |-> "pre", sb |-> s, host |-> HostSp,
                          base |-> rsp[s], entry |-> rsp[s] + area,
                          restore |-> rsp[s], prev |-> NoThread])
      BY <1>2 DEF PreFunctionCall
    <2>1. area \in Nat /\ rsp[s] \in Nat
      BY DEF TypeOK
    <2> DEFINE e == [kind |-> "pre", sb |-> s, host |-> HostSp,
                     base |-> rsp[s], entry |-> rsp[s] + area,
                     restore |-> rsp[s], prev |-> NoThread]
    <2>2. e \in Frame
      BY <1>0, <2>1 DEF Frame
    <2>3. frames' \in Seq(Frame)
      BY <2>2, PushLemma DEF TypeOK
    <2>4. QED
      BY <1>2, <2>1, <2>3 DEF PreFunctionCall, TypeOK
  <1>3. ASSUME NEW s \in Sandboxes, DestroyDlSandbox(s)
        PROVE  TypeOK'
    BY <1>3 DEF DestroyDlSandbox, TypeOK
  <1>4. ASSUME InvokeFunctionCall
        PROVE  TypeOK'
    <2> DEFINE s == Top.sb
               e == [kind |-> "call", sb |-> s, host |-> Top.host,
                     base |-> Top.base, entry |-> rsp[s],
                     restore |-> saved_stack_ptr[s],
                     prev |-> nacl_current_thread]
    <2>1. ~IsEmpty /\ s \in Sandboxes
      BY <1>0, <1>4 DEF InvokeFunctionCall, Prepared, Frame
    <2>2. e \in Frame
      BY <1>0, <2>1 DEF Frame, TypeOK
    <2>3. frames' \in Seq(Frame)
      BY <1>0, <1>4, <2>1, <2>2, ReplaceLemma DEF InvokeFunctionCall, TypeOK
    <2>4. Append(jumpBufferStack[s], Len(frames)) \in Seq(Nat \ {0})
      BY <1>0, <2>1, PushLemma DEF TypeOK
    <2> HIDE DEF s, e
    <2>5. jumpBufferStack' \in [Sandboxes -> Seq(Nat \ {0})]
      BY <1>4, <2>1, <2>4 DEF InvokeFunctionCall, TypeOK, s
    <2>6. QED
      BY <1>0, <1>4, <2>1, <2>3, <2>5 DEF InvokeFunctionCall, TypeOK, s
  <1>5. ASSUME CallbackReturn
        PROVE  TypeOK'
    <2>1. ~IsEmpty /\ Top.sb \in Sandboxes /\ Top.restore \in Nat
      BY <1>0, <1>5 DEF CallbackReturn, InCallback, Frame
    <2>2. frames' \in Seq(Frame)
      BY <1>0, <1>5, <2>1, PopLemma DEF CallbackReturn, TypeOK
    <2>3. QED
      BY <1>5, <2>1, <2>2 DEF CallbackReturn, TypeOK
  <1>6. CASE OtherSyscall
    <2>1. \A r \in 0..StackLimit : r \in Nat
      OBVIOUS
    <2>2. QED
      BY <1>6, <2>1 DEF OtherSyscall, SyscallEntry, TypeOK
  <1>7. ASSUME SysCallback
        PROVE  TypeOK'
    <2> DEFINE s == nacl_current_thread
               e(r) == [kind |-> "callback", sb |-> s,
                        host |-> trusted_stack_ptr[s] + 1,
                        base |-> r, entry |-> r, restore |-> r,
                        prev |-> NoThread]
    <2>1. s \in Sandboxes
      BY <1>7 DEF SysCallback, SyscallEntry
    <2>2. PICK r \in 0..StackLimit :
            /\ rsp' = [rsp EXCEPT ![s] = r]
            /\ frames' = Append(frames, e(r))
      BY <1>7 DEF SysCallback
    <2>3. e(r) \in Frame
      BY <2>1 DEF Frame, TypeOK
    <2>4. frames' \in Seq(Frame)
      BY <2>2, <2>3, PushLemma DEF TypeOK
    <2>5. QED
      BY <1>7, <2>1, <2>2, <2>4 DEF SysCallback, TypeOK
  <1>8. ASSUME SysExitSandbox
        PROVE  TypeOK'
    <2> DEFINE s == nacl_current_thread
               n == Len(jumpBufferStack[s])
    <2>1. /\ s \in Sandboxes /\ Top.sb = s
          /\ n \in Nat /\ n > 0
          /\ jumpBufferStack[s][n] = Len(frames)
          /\ Len(frames) > 0
      BY <1>8, ExitLemma DEF SysExitSandbox, GateInv
    <2>2. Top \in Frame /\ Top = frames[Len(frames)]
      BY <1>0, <2>1 DEF Top
    <2>3. frames' \in Seq(Frame)
      BY <1>0, <1>8, <2>1, PopLemma DEF SysExitSandbox, TypeOK
    <2>4. SubSeq(jumpBufferStack[s], 1, n - 1) \in Seq(Nat \ {0})
      BY <2>1, PopLemma DEF TypeOK
    <2>5. jumpBufferStack' \in [Sandboxes -> Seq(Nat \ {0})]
      BY <1>8, <2>1, <2>4 DEF SysExitSandbox, PopJumpBuffer, TypeOK
    <2>6. /\ rsp' \in [Sandboxes -> Nat]
          /\ nacl_current_thread' \in Sandboxes \cup {NoThread}
          /\ registered' \in [Sandboxes -> BOOLEAN]
      BY <1>8, <2>1, <2>2 DEF SysExitSandbox, ReturnTo, TypeOK, Frame
    <2>7. QED
      BY <1>8, <2>1, <2>3, <2>5, <2>6 DEF SysExitSandbox, TypeOK
  <1>9. CASE UnexpectedSuspendState \/ NoJumpBuffer
    BY <1>9 DEF UnexpectedSuspendState, NoJumpBuffer, Abort, TypeOK
  <1>10. CASE Aborted \/ UNCHANGED vars
    BY <1>10 DEF Aborted, vars, TypeOK
  <1>11. QED
    BY <1>1, <1>2, <1>3, <1>4, <1>5, <1>6, <1>7, <1>8, <1>9, <1>10
       DEF Next

-----------------------------------------------------------------------------
(***************************************************************************)
(* Each action preserves the invariant of the control stack.               *)
(***************************************************************************)

USE DEF Top

(* The fields of the frames of a control stack.                            *)
LEMMA FrameLemma ==
    ASSUME NEW q \in Seq(Frame)
    PROVE  /\ Len(q) \in Nat
           /\ q = << >> <=> Len(q) = 0
           /\ \A i \in 1..Len(q) :
                /\ q[i].kind \in {"pre", "call", "spawn", "callback"}
                /\ q[i].sb \in Sandboxes
                /\ q[i].host \in Nat /\ q[i].base \in Nat
                /\ q[i].entry \in Nat /\ q[i].restore \in Nat
  <1>1. Len(q) \in Nat /\ \A i \in 1..Len(q) : q[i] \in Frame
    BY StackTypeLemma
  <1>2. QED
    BY <1>1, EmptyLemma DEF Frame

(* Pushing a frame keeps the shape of the control stack if it is a         *)
(* callback exactly where the old top frame allows one.                    *)
LEMMA ShapePush ==
    ASSUME NEW L \in Nat, L = Len(frames), ShapeInv,
           Len(frames') = L + 1,
           \A i \in 1..L : frames'[i] = frames[i],
           L > 0 /\ frames[L].kind \in {"call", "spawn"}
             => frames[L].kind = "call" /\ frames'[L + 1].kind = "callback",
           frames'[L + 1].kind = "callback"
             => L > 0 /\ frames[L].kind = "call" /\ frames'[L + 1].sb = frames[L].sb
    PROVE  ShapeInv'
  <1> SUFFICES ASSUME NEW i \in 1..(L + 1)
               PROVE  ShapeAt(i)'
    BY DEF ShapeInv
  <1>1. CASE i = L + 1
    <2>1. L > 0 => L \in 1..L /\ frames'[L] = frames[L]
      OBVIOUS
    <2>2. QED
      BY <1>1, <2>1 DEF ShapeAt
  <1>2. CASE i \in 1..L
    <2>1. ShapeAt(i)
      BY <1>2 DEF ShapeInv
    <2>2. /\ frames'[i] = frames[i]
          /\ i > 1 => frames'[i - 1] = frames[i - 1]
          /\ i < L => frames'[i + 1] = frames[i + 1]
      BY <1>2
    <2>3. i = L \/ i < L
      BY <1>2
    <2>4. QED
      BY <1>2, <2>1, <2>2, <2>3 DEF ShapeAt
  <1>3. QED
    BY <1>1, <1>2

(* Popping a frame keeps the shape of the control stack.                   *)
LEMMA ShapePop ==
    ASSUME NEW L \in Nat, L = Len(frames), ShapeInv, L > 0,
           Len(frames') = L - 1,
           \A i \in 1..(L - 1) : frames'[i] = frames[i]
    PROVE  ShapeInv'
  <1> SUFFICES ASSUME NEW i \in 1..(L - 1)
               PROVE  ShapeAt(i)'
    BY DEF ShapeInv
  <1>1. ShapeAt(i)
    BY DEF ShapeInv
  <1>2. /\ frames'[i] = frames[i]
        /\ i > 1 => frames'[i - 1] = frames[i - 1]
        /\ i < L - 1 => frames'[i + 1] = frames[i + 1]
    OBVIOUS
  <1>3. QED
    BY <1>1, <1>2 DEF ShapeAt

(* NaClAppThreadSpawnOnCurrThread: the new frame is the only one of its    *)
(* sandbox.                                                                *)
LEMMA GateSpawn ==
    ASSUME GateInv, TypeOK', NEW s \in Sandboxes, SpawnOnCurrThread(s)
    PROVE  GateInv'
  <1> DEFINE L == Len(frames)
             e == [kind |-> "spawn", sb |-> s, host |-> HostSp, base |-> 0,
                   entry |-> 0, restore |-> 0, prev |-> NoThread]
  <1>0. /\ TypeOK /\ ShapeInv /\ SuspendInv /\ RegisteredInv
        /\ JumpBuffersLive /\ JumpBuffersComplete /\ StackAreasNested
        /\ StackInv /\ HostFramesPreserved /\ HostInv
    BY DEF GateInv
  <1>1. /\ L \in Nat /\ HostSp \in Nat
        /\ IsEmpty <=> L = 0
    BY <1>0, TopLemma
  <1>2. \A i \in 1..L :
          /\ frames[i].kind \in {"pre", "call", "spawn", "callback"}
          /\ frames[i].sb \in Sandboxes
          /\ frames[i].host \in Nat /\ frames[i].base \in Nat
          /\ frames[i].entry \in Nat /\ frames[i].restore \in Nat
    BY <1>0, FrameLemma DEF TypeOK
  <1>3. /\ Len(frames') = L + 1
        /\ \A i \in 1..L : frames'[i] = frames[i]
        /\ frames'[L + 1].kind = "spawn" /\ frames'[L + 1].sb = s
        /\ frames'[L + 1].host = HostSp
        /\ frames'[L + 1].base = 0 /\ frames'[L + 1].entry = 0
        /\ frames'[L + 1].restore = 0
    <2>1. e \in Frame
      BY <1>1, CallGateAssumption DEF Frame
    <2>2. frames' = Append(frames, e)
      BY DEF SpawnOnCurrThread
    <2>3. /\ Len(frames') = L + 1
          /\ \A i \in 1..L : frames'[i] = frames[i]
          /\ frames'[L + 1] = e
      BY <1>0, <2>1, <2>2, PushLemma DEF TypeOK
    <2>4. QED
      BY <2>3
  <1>4. L > 0 => frames[L].kind \in {"pre", "callback"}
    BY <1>1 DEF SpawnOnCurrThread, InHost, Prepared, InCallback
  <1>5. \A i \in 1..L : frames[i].sb # s
    <2> SUFFICES ASSUME NEW i \in 1..L, frames[i].sb = s
                 PROVE  FALSE
      OBVIOUS
    <2>1. frames[i].kind = "spawn"
      BY <1>0 DEF SpawnOnCurrThread, RegisteredInv
    <2>2. i = L
      BY <1>0, <1>1, <2>1 DEF ShapeInv, ShapeAt
    <2>3. QED
      BY <1>1, <1>4, <2>1, <2>2
  <1>6. \A i \in 1..L : frames[i].host <= HostSp
    BY <1>0, <1>1, <1>2 DEF HostSp, HostFramesPreserved
  <1>7. InSandbox' /\ Top'.sb = s
    BY <1>1, <1>3, FrameLemma DEF InSandbox, IsEmpty, TypeOK
  <1>8. /\ jumpBufferStack'[s] = <<L + 1>>
        /\ \A t \in Sandboxes \ {s} : jumpBufferStack'[t] = jumpBufferStack[t]
        /\ rsp'[s] = 0
        /\ \A t \in Sandboxes \ {s} : rsp'[t] = rsp[t]
        /\ trusted_stack_ptr'[s] = HostSp + 1
        /\ \A t \in Sandboxes \ {s} : trusted_stack_ptr'[t] = trusted_stack_ptr[t]
        /\ saved_stack_ptr' = saved_stack_ptr
        /\ registered' = registered /\ ~registered[s]
        /\ suspend_state'[s] = "UNTRUSTED"
        /\ \A t \in Sandboxes \ {s} : suspend_state'[t] = suspend_state[t]
    BY <1>0 DEF SpawnOnCurrThread, TypeOK
  <1> HIDE DEF L, e
  <1>9. /\ Len(jumpBufferStack'[s]) = 1
        /\ jumpBufferStack'[s][1] = L + 1
    BY <1>8
  <1>a. ShapeInv'
    BY <1>0, <1>1, <1>3, <1>4, ShapePush DEF L
  <1>b. SuspendInv'
    BY <1>0, <1>1, <1>4, <1>7, <1>8 DEF SuspendInv, InSandbox, L
  <1>c. RegisteredInv'
    BY <1>0, <1>1, <1>2, <1>3, <1>8 DEF RegisteredInv, L
  <1>d. JumpBuffersLive'
    <2> SUFFICES ASSUME NEW t \in Sandboxes
                 PROVE  JumpBuffersLiveOf(t)'
      BY DEF JumpBuffersLive
    <2>1. CASE t = s
      BY <1>1, <1>3, <1>9, <2>1 DEF JumpBuffersLiveOf
    <2>2. CASE t # s
      <3>1. JumpBuffersLiveOf(t)
        BY <1>0 DEF JumpBuffersLive
      <3>2. jumpBufferStack'[t] = jumpBufferStack[t]
        BY <1>8, <2>2
      <3>3. \A k \in 1..Len(jumpBufferStack[t]) : jumpBufferStack[t][k] \in Nat \ {0}
        BY <1>0, StackTypeLemma DEF TypeOK
      <3>4. \A k \in 1..Len(jumpBufferStack[t]) : jumpBufferStack[t][k] \in 1..L
        BY <1>1, <3>1, <3>3 DEF JumpBuffersLiveOf, L
      <3>5. QED
        BY <1>1, <1>3, <3>1, <3>2, <3>4 DEF JumpBuffersLiveOf, L
    <2>3. QED
      BY <2>1, <2>2
  <1>e. JumpBuffersComplete'
    <2> SUFFICES ASSUME NEW i \in 1..(L + 1)
                 PROVE  JumpBufferFor(i)'
      BY <1>3 DEF JumpBuffersComplete
    <2>1. CASE i = L + 1
      BY <1>1, <1>3, <1>9, <2>1 DEF JumpBufferFor
    <2>2. CASE i \in 1..L
      BY <1>0, <1>1, <1>2, <1>3, <1>5, <1>8, <2>2
         DEF JumpBuffersComplete, JumpBufferFor, L
    <2>3. QED
      BY <1>1, <2>1, <2>2
  <1>f. StackAreasNested'
    <2> SUFFICES ASSUME NEW i \in 1..(L + 1), NEW j \in 1..(L + 1), i < j,
                        frames'[i].sb = frames'[j].sb
                 PROVE  frames'[i].entry <= frames'[j].base
      BY <1>3 DEF StackAreasNested
    <2>1. i \in 1..L /\ frames'[i] = frames[i] /\ frames[i].sb # s
      BY <1>1, <1>3, <1>5
    <2>2. j # L + 1
      BY <1>3, <2>1
    <2>3. j \in 1..L /\ frames'[j] = frames[j]
      BY <1>1, <1>3, <2>2
    <2>4. QED
      BY <1>0, <2>1, <2>3 DEF StackAreasNested, L
  <1>g. StackInv'
    <2>1. ASSUME NEW i \in 1..(L + 1)
          PROVE  StackAt(i)'
      BY <1>0, <1>1, <1>2, <1>3, <1>5, <1>8 DEF StackInv, StackAt, L
    <2>2. ASSUME NEW i \in 1..(L + 1), NEW j \in 1..(L + 1)
          PROVE  RestoreAbove(j, i)'
      <3>1. CASE i = L + 1
        BY <1>3, <3>1 DEF RestoreAbove
      <3>2. CASE i \in 1..L /\ j \in 1..L
        <4>1. RestoreAbove(j, i)
          BY <1>0, <3>2 DEF StackInv, L
        <4>2. QED
          BY <1>3, <1>8, <3>2, <4>1 DEF RestoreAbove
      <3>3. CASE i \in 1..L /\ j = L + 1
        BY <1>1, <3>3 DEF RestoreAbove
      <3>4. QED
        BY <1>1, <3>1, <3>2, <3>3
    <2>3. QED
      BY <1>3, <2>1, <2>2 DEF StackInv
  <1>h. HostFramesPreserved'
    <2> SUFFICES ASSUME NEW i \in 1..(L + 1), NEW j \in 1..(L + 1), i < j
                 PROVE  /\ frames'[i].host <= frames'[j].host
                        /\ frames'[j].kind = "callback"
                             => frames'[i].host < frames'[j].host
      BY <1>3 DEF HostFramesPreserved
    <2>1. i \in 1..L /\ frames'[i] = frames[i]
      BY <1>1, <1>3
    <2>2. CASE j = L + 1
      BY <1>3, <1>6, <2>1, <2>2
    <2>3. CASE j \in 1..L
      BY <1>0, <1>3, <2>1, <2>3 DEF HostFramesPreserved, L
    <2>4. QED
      BY <1>1, <2>2, <2>3
  <1>i. HostInv'
    <2> SUFFICES ASSUME NEW i \in 1..(L + 1), frames'[i].kind \in {"call", "spawn"}
                 PROVE  frames'[i].host < trusted_stack_ptr'[frames'[i].sb]
      BY <1>3 DEF HostInv
    <2>1. CASE i = L + 1
      BY <1>1, <1>3, <1>8, <2>1
    <2>2. CASE i \in 1..L
      <3>1. frames'[i] = frames[i] /\ frames[i].sb \in Sandboxes \ {s}
        BY <1>2, <1>3, <1>5, <2>2
      <3>2. QED
        BY <1>0, <1>8, <2>2, <3>1 DEF HostInv, L
    <2>3. QED
      BY <1>1, <2>1, <2>2
  <1>j. QED
    BY <1>a, <1>b, <1>c, <1>d, <1>e, <1>f, <1>g, <1>h, <1>i DEF GateInv

(* Pushing a frame that enters no sandbox keeps the jump buffers and the   *)
(* trusted stack in order if its host code runs beyond all other frames.   *)
LEMMA HostPush ==
    ASSUME TypeOK, JumpBuffersLive, JumpBuffersComplete, HostFramesPreserved,
           HostInv, TypeOK',
           NEW L \in Nat, L = Len(frames), Len(frames') = L + 1,
           \A i \in 1..L : frames'[i] = frames[i],
           frames'[L + 1].kind \in {"pre", "callback"},
           \A i \in 1..L : frames[i].host <= frames'[L + 1].host,
           frames'[L + 1].kind = "callback" =>
             \A i \in 1..L : frames[i].host < frames'[L + 1].host,
           jumpBufferStack' = jumpBufferStack,
           trusted_stack_ptr' = trusted_stack_ptr
    PROVE  /\ JumpBuffersLive' /\ JumpBuffersComplete'
           /\ HostFramesPreserved' /\ HostInv'
  <1>1. \A i \in 1..L : frames[i].host \in Nat
    BY FrameLemma DEF TypeOK
  <1>2. JumpBuffersLive'
    <2> SUFFICES ASSUME NEW t \in Sandboxes
                 PROVE  JumpBuffersLiveOf(t)'
      BY DEF JumpBuffersLive
    <2>1. JumpBuffersLiveOf(t)
      BY DEF JumpBuffersLive
    <2>2. \A k \in 1..Len(jumpBufferStack[t]) : jumpBufferStack[t][k] \in Nat \ {0}
      BY StackTypeLemma DEF TypeOK
    <2>3. \A k \in 1..Len(jumpBufferStack[t]) : jumpBufferStack[t][k] \in 1..L
      BY <2>1, <2>2 DEF JumpBuffersLiveOf
    <2>4. QED
      BY <2>1, <2>3 DEF JumpBuffersLiveOf
  <1>3. JumpBuffersComplete'
    <2> SUFFICES ASSUME NEW i \in 1..(L + 1)
                 PROVE  JumpBufferFor(i)'
      BY DEF JumpBuffersComplete
    <2>1. CASE i = L + 1
      BY <2>1 DEF JumpBufferFor
    <2>2. CASE i \in 1..L
      <3>1. JumpBufferFor(i)
        BY <2>2 DEF JumpBuffersComplete
      <3>2. QED
        BY <2>2, <3>1 DEF JumpBufferFor
    <2>3. QED
      BY <2>1, <2>2
  <1>4. HostFramesPreserved'
    BY <1>1 DEF HostFramesPreserved
  <1>5. HostInv'
    BY DEF HostInv
  <1>6. QED
    BY <1>2, <1>3, <1>4, <1>5

(* Pushing a frame of sandbox s beyond every older frame of s keeps the    *)
(* sandbox stacks in order.                                                *)
LEMMA StackPush ==
    ASSUME TypeOK, TypeOK', StackInv, StackAreasNested,
           NEW s \in Sandboxes,
           NEW L \in Nat, L = Len(frames), Len(frames') = L + 1,
           \A i \in 1..L : frames'[i] = frames[i],
           NEW b \in Nat, NEW e \in Nat, b <= e, e <= rsp'[s],
           frames'[L + 1].kind \in {"pre", "callback"},
           frames'[L + 1].sb = s,
           frames'[L + 1].base = b, frames'[L + 1].entry = e,
           frames'[L + 1].restore = b,
           frames'[L + 1].kind = "callback" => e = b,
           frames'[L + 1].kind = "pre" => saved_stack_ptr'[s] = b,
           saved_stack_ptr'[s] \in {saved_stack_ptr[s], b},
           \A i \in 1..L : frames[i].sb = s => frames[i].entry <= b,
           \A t \in Sandboxes \ {s} :
             rsp'[t] = rsp[t] /\ saved_stack_ptr'[t] = saved_stack_ptr[t]
    PROVE  StackInv' /\ StackAreasNested'
  <1>1. \A i \in 1..L : /\ frames[i].kind \in {"pre", "call", "spawn", "callback"}
                        /\ frames[i].sb \in Sandboxes
                        /\ frames[i].base \in Nat /\ frames[i].entry \in Nat
                        /\ frames[i].restore \in Nat
    BY FrameLemma DEF TypeOK
  <1>2. rsp'[s] \in Nat /\ \A t \in Sandboxes : rsp[t] \in Nat
    BY DEF TypeOK
  <1>3. ASSUME NEW i \in 1..(L + 1)
        PROVE  StackAt(i)'
    <2>1. CASE i = L + 1
      BY <2>1 DEF StackAt
    <2>2. CASE i \in 1..L
      <3>1. StackAt(i) /\ frames'[i] = frames[i]
        BY <2>2 DEF StackInv
      <3>2. frames[i].entry <= rsp'[frames[i].sb]
        <4>1. CASE frames[i].sb = s
          <5>1. frames[i].entry \in Nat /\ frames[i].entry <= b
            BY <1>1, <2>2, <4>1
          <5>2. QED
            BY <1>2, <4>1, <5>1
        <4>2. CASE frames[i].sb # s
          BY <1>1, <2>2, <3>1, <4>2 DEF StackAt
        <4>3. QED
          BY <4>1, <4>2
      <3>3. QED
        BY <3>1, <3>2 DEF StackAt
    <2>3. QED
      BY <2>1, <2>2
  <1>4. ASSUME NEW i \in 1..(L + 1), NEW j \in 1..(L + 1)
        PROVE  RestoreAbove(j, i)'
    <2>1. CASE i = L + 1 /\ j \in 1..L
      BY <2>1 DEF RestoreAbove
    <2>2. CASE i \in 1..L /\ j \in 1..L
      <3>1. RestoreAbove(j, i) /\ frames'[i] = frames[i] /\ frames'[j] = frames[j]
        BY <2>2 DEF StackInv
      <3>2. QED
        BY <1>1, <2>2, <3>1 DEF RestoreAbove
    <2>3. CASE j = L + 1
      BY <2>3 DEF RestoreAbove
    <2>4. QED
      BY <2>1, <2>2, <2>3
  <1>5. ASSUME NEW i \in 1..(L + 1), NEW j \in 1..(L + 1), i < j,
               frames'[i].sb = frames'[j].sb
        PROVE  frames'[i].entry <= frames'[j].base
    <2>1. i \in 1..L /\ frames'[i] = frames[i]
      BY <1>5
    <2>2. CASE j = L + 1
      BY <1>5, <2>1, <2>2
    <2>3. CASE j \in 1..L
      BY <1>5, <2>1, <2>3 DEF StackAreasNested
    <2>4. QED
      BY <2>2, <2>3
  <1>6. QED
    BY <1>3, <1>4, <1>5 DEF StackInv, StackAreasNested

(* The code that runs on top of the control stack uses the deepest part of *)
(* the trusted stack.                                                      *)
LEMMA HostSpLemma ==
    ASSUME TypeOK, HostFramesPreserved
    PROVE  HostSp \in Nat /\ \A i \in 1..Len(frames) : frames[i].host <= HostSp
  <1>1. /\ Len(frames) \in Nat /\ (IsEmpty <=> Len(frames) = 0)
        /\ HostSp \in Nat
    BY TopLemma
  <1>2. \A i \in 1..Len(frames) : frames[i].host \in Nat
    BY FrameLemma DEF TypeOK
  <1>3. ASSUME NEW i \in 1..Len(frames)
        PROVE  frames[i].host <= HostSp
    <2>1. HostSp = frames[Len(frames)].host /\ Len(frames) \in 1..Len(frames)
      BY <1>1, <1>3 DEF HostSp
    <2>2. i = Len(frames) \/ i < Len(frames)
      BY <1>1
    <2>3. QED
      BY <1>2, <2>1, <2>2 DEF HostFramesPreserved
  <1>4. QED
    BY <1>1, <1>3

(* preFunctionCall preserves the invariant.                                *)
LEMMA GatePre ==
    ASSUME GateInv, TypeOK', NEW s \in Sandboxes, PreFunctionCall(s)
    PROVE  GateInv'
  <1> DEFINE L == Len(frames)
  <1>0. /\ TypeOK /\ ShapeInv /\ SuspendInv /\ RegisteredInv
        /\ JumpBuffersLive /\ JumpBuffersComplete /\ StackAreasNested
        /\ StackInv /\ HostFramesPreserved /\ HostInv
    BY DEF GateInv
  <1>1. /\ L \in Nat /\ HostSp \in Nat
        /\ IsEmpty <=> L = 0
        /\ \A i \in 1..L : frames[i].host <= HostSp
    BY <1>0, TopLemma, HostSpLemma
  <1>2. PICK area \in CallAreas :
          /\ rsp' = [rsp EXCEPT ![s] = @ + area]
          /\ saved_stack_ptr' = [saved_stack_ptr EXCEPT ![s] = rsp[s]]
          /\ frames' = Append(frames,
                         [kind |-> "pre", sb |-> s, host |-> HostSp,
                          base |-> rsp[s], entry |-> rsp[s] + area,
                          restore |-> rsp[s], prev |-> NoThread])
    BY DEF PreFunctionCall
  <1>3. area \in Nat /\ area > 0 /\ rsp[s] \in Nat
    BY <1>0, CallGateAssumption DEF TypeOK
  <1>4. /\ Len(frames') = L + 1
        /\ \A i \in 1..L : frames'[i] = frames[i]
        /\ frames'[L + 1].kind = "pre" /\ frames'[L + 1].sb = s
        /\ frames'[L + 1].host = HostSp
        /\ frames'[L + 1].base = rsp[s] /\ frames'[L + 1].entry = rsp[s] + area
        /\ frames'[L + 1].restore = rsp[s]
    <2> DEFINE e == [kind |-> "pre", sb |-> s, host |-> HostSp,
                     base |-> rsp[s], entry |-> rsp[s] + area,
                     restore |-> rsp[s], prev |-> NoThread]
    <2>1. e \in Frame
      BY <1>1, <1>3, CallGateAssumption DEF Frame
    <2>2. /\ Len(frames') = L + 1
          /\ \A i \in 1..L : frames'[i] = frames[i]
          /\ frames'[L + 1] = e
      BY <1>0, <1>2, <2>1, PushLemma DEF TypeOK
    <2>3. QED
      BY <2>2
  <1>5. /\ rsp'[s] = rsp[s] + area /\ saved_stack_ptr'[s] = rsp[s]
        /\ \A t \in Sandboxes \ {s} :
             rsp'[t] = rsp[t] /\ saved_stack_ptr'[t] = saved_stack_ptr[t]
        /\ jumpBufferStack' = jumpBufferStack
        /\ trusted_stack_ptr' = trusted_stack_ptr
        /\ suspend_state' = suspend_state
        /\ registered' = registered /\ registered[s]
    BY <1>0, <1>2 DEF PreFunctionCall, TypeOK
  <1>6. L > 0 => frames[L].kind \in {"pre", "callback"}
    BY <1>1 DEF PreFunctionCall, InHost, Prepared, InCallback
  <1>7. \A i \in 1..L : frames[i].sb = s => frames[i].entry <= rsp[s]
    BY <1>0 DEF StackInv, StackAt
  <1> HIDE DEF L
  <1>a. ShapeInv'
    BY <1>0, <1>1, <1>4, <1>6, ShapePush DEF L
  <1>b. SuspendInv'
    <2>1. ~InSandbox
      BY <1>1, <1>6 DEF InSandbox, L
    <2>2. ~InSandbox'
      BY <1>1, <1>4 DEF InSandbox
    <2>3. QED
      BY <1>0, <1>5, <2>1, <2>2 DEF SuspendInv
  <1>c. RegisteredInv'
    BY <1>0, <1>1, <1>4, <1>5 DEF RegisteredInv, L
  <1>d. /\ JumpBuffersLive' /\ JumpBuffersComplete'
        /\ HostFramesPreserved' /\ HostInv'
    <2>1. /\ frames'[L + 1].kind \in {"pre", "callback"}
          /\ \A i \in 1..L : frames[i].host <= frames'[L + 1].host
          /\ frames'[L + 1].kind # "callback"
      BY <1>1, <1>4
    <2>2. QED
      BY <1>0, <1>1, <1>4, <1>5, <2>1, HostPush DEF L
  <1>e. StackInv' /\ StackAreasNested'
    <2> DEFINE b == rsp[s]
               e == rsp[s] + area
    <2>1. b \in Nat /\ e \in Nat /\ b <= e /\ e <= rsp'[s]
      BY <1>3, <1>5
    <2>2. /\ frames'[L + 1].kind \in {"pre", "callback"}
          /\ frames'[L + 1].kind = "callback" => e = b
          /\ saved_stack_ptr'[s] = b
          /\ frames'[L + 1].base = b /\ frames'[L + 1].entry = e
          /\ frames'[L + 1].restore = b /\ frames'[L + 1].sb = s
      BY <1>4, <1>5
    <2>3. \A i \in 1..L : frames[i].sb = s => frames[i].entry <= b
      BY <1>7
    <2> HIDE DEF b, e
    <2>4. QED
      BY <1>0, <1>1, <1>4, <1>5, <2>1, <2>2, <2>3, StackPush DEF L
  <1>f. QED
    BY <1>a, <1>b, <1>c, <1>d, <1>e DEF GateInv

(* All frames of the running sandbox lie above the stack it now uses.      *)
LEMMA TopEntryLemma ==
    ASSUME TypeOK, StackInv, StackAreasNested, InSandbox
    PROVE  /\ Top.entry \in Nat /\ Top.sb \in Sandboxes
           /\ \A i \in 1..Len(frames) :
                frames[i].sb = Top.sb => frames[i].entry <= Top.entry
  <1>1. /\ Len(frames) \in Nat /\ Len(frames) \in 1..Len(frames)
    BY TopLemma DEF InSandbox
  <1>2. \A i \in 1..Len(frames) : frames[i].sb \in Sandboxes
                                  /\ frames[i].base \in Nat
                                  /\ frames[i].entry \in Nat
    BY FrameLemma DEF TypeOK
  <1>3. Top.base <= Top.entry
    BY <1>1 DEF StackInv, StackAt
  <1>4. ASSUME NEW i \in 1..Len(frames), frames[i].sb = Top.sb
        PROVE  frames[i].entry <= Top.entry
    <2>1. CASE i = Len(frames)
      BY <1>1, <1>2, <2>1
    <2>2. CASE i < Len(frames)
      BY <1>1, <1>2, <1>3, <1>4, <2>2 DEF StackAreasNested
    <2>3. QED
      BY <1>1, <2>1, <2>2
  <1>5. QED
    BY <1>1, <1>2, <1>4

(* NaClSysCallback preserves the invariant.                                *)
LEMMA GateCallback ==
    ASSUME GateInv, TypeOK', SysCallback
    PROVE  GateInv'
  <1> DEFINE L == Len(frames)
             s == nacl_current_thread
             h == trusted_stack_ptr[s] + 1
  <1>0. /\ TypeOK /\ ShapeInv /\ SuspendInv /\ RegisteredInv
        /\ JumpBuffersLive /\ JumpBuffersComplete /\ StackAreasNested
        /\ StackInv /\ HostFramesPreserved /\ HostInv
    BY DEF GateInv
  <1>1. /\ s \in Sandboxes /\ InSandbox /\ Top.sb = s /\ Top.kind = "call"
    BY <1>0 DEF SysCallback, SyscallEntry, SuspendInv
  <1>2. L \in Nat /\ L > 0 /\ L \in 1..L
    BY <1>0, <1>1, TopLemma DEF InSandbox
  <1>3. PICK r \in 0..StackLimit :
          /\ SyscallSp(r)
          /\ rsp' = [rsp EXCEPT ![s] = r]
          /\ frames' = Append(frames,
                         [kind |-> "callback", sb |-> s, host |-> h,
                          base |-> r, entry |-> r, restore |-> r,
                          prev |-> NoThread])
    BY DEF SysCallback
  <1>4. /\ r \in Nat /\ Top.entry \in Nat /\ Top.entry <= r
        /\ \A i \in 1..L : frames[i].sb = s => frames[i].entry <= Top.entry
    BY <1>0, <1>1, <1>3, TopEntryLemma, CallGateAssumption DEF SyscallSp
  <1>5. /\ h \in Nat
        /\ \A i \in 1..L : frames[i].host \in Nat /\ frames[i].host < h
    <2>1. /\ HostSp = Top.host /\ HostSp \in Nat
          /\ \A i \in 1..L : frames[i].host <= HostSp
      BY <1>0, <1>1, HostSpLemma DEF HostSp, InSandbox
    <2>2. Top.host < trusted_stack_ptr[s] /\ trusted_stack_ptr[s] \in Nat
      BY <1>0, <1>1, <1>2 DEF HostInv, TypeOK
    <2>3. \A i \in 1..L : frames[i].host \in Nat
      BY <1>0, FrameLemma DEF TypeOK
    <2>4. QED
      BY <2>1, <2>2, <2>3
  <1>6. /\ Len(frames') = L + 1
        /\ \A i \in 1..L : frames'[i] = frames[i]
        /\ frames'[L + 1].kind = "callback" /\ frames'[L + 1].sb = s
        /\ frames'[L + 1].host = h
        /\ frames'[L + 1].base = r /\ frames'[L + 1].entry = r
        /\ frames'[L + 1].restore = r
    <2> DEFINE e == [kind |-> "callback", sb |-> s, host |-> h,
                     base |-> r, entry |-> r, restore |-> r,
                     prev |-> NoThread]
    <2> HIDE DEF h
    <2>1. e \in Frame
      BY <1>1, <1>4, <1>5, CallGateAssumption DEF Frame
    <2>2. /\ Len(frames') = L + 1
          /\ \A i \in 1..L : frames'[i] = frames[i]
          /\ frames'[L + 1] = e
      BY <1>0, <1>3, <2>1, PushLemma DEF TypeOK
    <2>3. QED
      BY <2>2
  <1>7. /\ rsp'[s] = r
        /\ \A t \in Sandboxes \ {s} : rsp'[t] = rsp[t]
        /\ saved_stack_ptr' = saved_stack_ptr
        /\ jumpBufferStack' = jumpBufferStack
        /\ trusted_stack_ptr' = trusted_stack_ptr
        /\ registered' = registered
        /\ suspend_state'[s] = "TRUSTED"
        /\ \A t \in Sandboxes \ {s} : suspend_state'[t] = suspend_state[t]
    BY <1>0, <1>1, <1>3 DEF SysCallback, TypeOK
  <1> HIDE DEF L, s, h
  <1>a. ShapeInv'
    BY <1>0, <1>1, <1>2, <1>6, ShapePush DEF L
  <1>b. SuspendInv'
    <2>1. ~InSandbox'
      BY <1>2, <1>6 DEF InSandbox
    <2>2. QED
      BY <1>0, <1>1, <1>7, <2>1 DEF SuspendInv
  <1>c. RegisteredInv'
    <2>1. registered[s]
      BY <1>0, <1>1, <1>2 DEF RegisteredInv, L
    <2>2. QED
      BY <1>0, <1>2, <1>6, <1>7, <2>1 DEF RegisteredInv, L
  <1>d. /\ JumpBuffersLive' /\ JumpBuffersComplete'
        /\ HostFramesPreserved' /\ HostInv'
    <2>1. /\ frames'[L + 1].kind \in {"pre", "callback"}
          /\ \A i \in 1..L : /\ frames[i].host <= frames'[L + 1].host
                             /\ frames[i].host < frames'[L + 1].host
      BY <1>2, <1>5, <1>6
    <2>2. QED
      BY <1>0, <1>2, <1>6, <1>7, <2>1, HostPush DEF L
  <1>e. StackInv' /\ StackAreasNested'
    <2>1. r <= r /\ r <= rsp'[s]
      BY <1>4, <1>7
    <2>2. /\ frames'[L + 1].kind \in {"pre", "callback"}
          /\ frames'[L + 1].kind # "pre"
          /\ saved_stack_ptr'[s] = saved_stack_ptr[s]
      BY <1>6, <1>7
    <2>3. \A i \in 1..L : frames[i].sb = s => frames[i].entry <= r
      <3>1. \A i \in 1..L : frames[i].entry \in Nat
        BY <1>0, FrameLemma DEF TypeOK, L
      <3>2. QED
        BY <1>4, <3>1
    <2>4. QED
      BY <1>0, <1>1, <1>2, <1>4, <1>6, <1>7, <2>1, <2>2, <2>3, StackPush DEF L
  <1>f. QED
    BY <1>a, <1>b, <1>c, <1>d, <1>e DEF GateInv

(* Popping the top frame keeps both stacks in order if the stack pointer   *)
(* put back spares the remaining frames.                                   *)
LEMMA StackPop ==
    ASSUME TypeOK, TypeOK', StackInv, StackAreasNested,
           HostFramesPreserved, HostInv,
           NEW s \in Sandboxes,
           NEW L \in Nat, L = Len(frames), L > 0, Len(frames') = L - 1,
           \A i \in 1..(L - 1) : frames'[i] = frames[i],
           \A i \in 1..(L - 1) : frames[i].sb = s => frames[i].entry <= rsp'[s],
           \A t \in Sandboxes \ {s} : rsp'[t] = rsp[t],
           saved_stack_ptr' = saved_stack_ptr,
           trusted_stack_ptr' = trusted_stack_ptr
    PROVE  /\ StackInv' /\ StackAreasNested'
           /\ HostFramesPreserved' /\ HostInv'
  <1>1. \A i \in 1..L : /\ frames[i].sb \in Sandboxes
                        /\ frames[i].base \in Nat /\ frames[i].entry \in Nat
                        /\ frames[i].restore \in Nat /\ frames[i].host \in Nat
    BY FrameLemma DEF TypeOK
  <1>2. ASSUME NEW i \in 1..(L - 1)
        PROVE  StackAt(i)'
    <2>1. i \in 1..L /\ StackAt(i) /\ frames'[i] = frames[i]
      BY DEF StackInv
    <2>2. frames[i].entry <= rsp'[frames[i].sb]
      BY <1>1, <2>1 DEF StackAt
    <2>3. QED
      BY <2>1, <2>2 DEF StackAt
  <1>3. ASSUME NEW i \in 1..(L - 1), NEW j \in 1..(L - 1)
        PROVE  RestoreAbove(j, i)'
    <2>1. RestoreAbove(j, i) /\ frames'[i] = frames[i] /\ frames'[j] = frames[j]
      BY DEF StackInv
    <2>2. QED
      BY <2>1 DEF RestoreAbove
  <1>4. StackAreasNested'
    BY DEF StackAreasNested
  <1>5. HostFramesPreserved'
    BY DEF HostFramesPreserved
  <1>6. HostInv'
    BY DEF HostInv
  <1>7. QED
    BY <1>2, <1>3, <1>4, <1>5, <1>6 DEF StackInv

(* The return of a callback preserves the invariant.                       *)
LEMMA GateCallbackReturn ==
    ASSUME GateInv, TypeOK', CallbackReturn
    PROVE  GateInv'
  <1> DEFINE L == Len(frames)
             s == Top.sb
  <1>0. /\ TypeOK /\ ShapeInv /\ SuspendInv /\ RegisteredInv
        /\ JumpBuffersLive /\ JumpBuffersComplete /\ StackAreasNested
        /\ StackInv /\ HostFramesPreserved /\ HostInv
    BY DEF GateInv
  <1>1. /\ L \in Nat /\ L \in 1..L /\ Top.kind = "callback"
        /\ s \in Sandboxes /\ Top.restore \in Nat
    BY <1>0, TopLemma DEF CallbackReturn, InCallback, Frame
  <1>2. L > 1 /\ frames[L - 1].kind = "call" /\ frames[L - 1].sb = s
    BY <1>0, <1>1 DEF ShapeInv, ShapeAt
  <1>3. /\ Len(frames') = L - 1
        /\ \A i \in 1..(L - 1) : frames'[i] = frames[i]
    <2>1. frames' = SubSeq(frames, 1, L - 1) /\ frames \in Seq(Frame)
      BY <1>0 DEF CallbackReturn, TypeOK
    <2>2. L > 0 /\ L = Len(frames)
      BY <1>1
    <2> HIDE DEF L
    <2>3. QED
      BY <1>1, <2>1, <2>2, PopLemma
  <1>4. /\ rsp'[s] = Top.restore
        /\ \A t \in Sandboxes \ {s} : rsp'[t] = rsp[t]
        /\ saved_stack_ptr' = saved_stack_ptr
        /\ jumpBufferStack' = jumpBufferStack
        /\ trusted_stack_ptr' = trusted_stack_ptr
        /\ registered' = registered
        /\ suspend_state'[s] = "UNTRUSTED" /\ suspend_state[s] = "TRUSTED"
        /\ \A t \in Sandboxes \ {s} : suspend_state'[t] = suspend_state[t]
    BY <1>0, <1>1 DEF CallbackReturn, TypeOK
  <1>5. \A i \in 1..(L - 1) : frames[i].sb = s => frames[i].entry <= rsp'[s]
    BY <1>0, <1>1, <1>4 DEF StackInv, StackAt, StackAreasNested
  <1>6. ~InSandbox
    BY <1>1 DEF InSandbox
  <1> HIDE DEF L, s
  <1>a. ShapeInv'
    BY <1>0, <1>1, <1>2, <1>3, ShapePop DEF L
  <1>b. SuspendInv'
    <2>1. L - 1 \in 1..(L - 1) /\ Top' = frames[L - 1] /\ Len(frames') # 0
      BY <1>1, <1>2, <1>3
    <2>2. InSandbox' /\ Top'.sb = s
      BY <1>2, <2>1, FrameLemma DEF InSandbox, IsEmpty, TypeOK
    <2>3. QED
      BY <1>0, <1>4, <1>6, <2>2 DEF SuspendInv
  <1>c. RegisteredInv'
    BY <1>0, <1>1, <1>3, <1>4 DEF RegisteredInv, L
  <1>d. JumpBuffersLive'
    <2> SUFFICES ASSUME NEW t \in Sandboxes
                 PROVE  JumpBuffersLiveOf(t)'
      BY DEF JumpBuffersLive
    <2>1. JumpBuffersLiveOf(t)
      BY <1>0 DEF JumpBuffersLive
    <2>2. \A k \in 1..Len(jumpBufferStack[t]) : jumpBufferStack[t][k] \in Nat \ {0}
      BY <1>0, StackTypeLemma DEF TypeOK
    <2>3. \A k \in 1..Len(jumpBufferStack[t]) : jumpBufferStack[t][k] \in 1..(L - 1)
      BY <1>1, <2>1, <2>2 DEF JumpBuffersLiveOf, L
    <2>4. QED
      BY <1>1, <1>3, <1>4, <2>1, <2>3 DEF JumpBuffersLiveOf
  <1>e. JumpBuffersComplete'
    <2> SUFFICES ASSUME NEW i \in 1..(L - 1)
                 PROVE  JumpBufferFor(i)'
      BY <1>3 DEF JumpBuffersComplete
    <2>1. JumpBufferFor(i) /\ frames'[i] = frames[i]
      BY <1>0, <1>1, <1>3 DEF JumpBuffersComplete, L
    <2>2. QED
      BY <1>4, <2>1 DEF JumpBufferFor
  <1>f. /\ StackInv' /\ StackAreasNested'
        /\ HostFramesPreserved' /\ HostInv'
    <2>1. s \in Sandboxes /\ L > 0
      BY <1>1, <1>2
    <2>2. QED
      BY <1>0, <1>1, <1>3, <1>4, <1>5, <2>1, StackPop DEF L
  <1>g. QED
    BY <1>a, <1>b, <1>c, <1>d, <1>e, <1>f DEF GateInv

(* NaClSysExitSandbox preserves the invariant.                             *)
LEMMA GateExit ==
    ASSUME GateInv, TypeOK', SysExitSandbox
    PROVE  GateInv'
  <1> DEFINE L == Len(frames)
             s == nacl_current_thread
             n == Len(jumpBufferStack[s])
  <1>0. /\ TypeOK /\ ShapeInv /\ SuspendInv /\ RegisteredInv
        /\ JumpBuffersLive /\ JumpBuffersComplete /\ StackAreasNested
        /\ StackInv /\ HostFramesPreserved /\ HostInv
    BY DEF GateInv
  <1>1. /\ s \in Sandboxes /\ Top.sb = s
        /\ n \in Nat /\ n > 0
        /\ jumpBufferStack[s][n] = L
        /\ L > 0
        /\ Top.kind \in {"call", "spawn"}
    BY <1>0, ExitLemma DEF SysExitSandbox
  <1>2. L \in Nat /\ L \in 1..L
    BY <1>0, <1>1, TopLemma
  <1>3. /\ Len(frames') = L - 1
        /\ \A i \in 1..(L - 1) : frames'[i] = frames[i]
    <2>1. frames' = SubSeq(frames, 1, L - 1) /\ frames \in Seq(Frame)
      BY <1>0, <1>1 DEF SysExitSandbox, TypeOK
    <2>2. L > 0 /\ L = Len(frames)
      BY <1>1
    <2> HIDE DEF L
    <2>3. QED
      BY <1>2, <2>1, <2>2, PopLemma
  <1>4. /\ rsp'[s] = Top.restore
        /\ \A t \in Sandboxes \ {s} : rsp'[t] = rsp[t]
        /\ saved_stack_ptr' = saved_stack_ptr
        /\ trusted_stack_ptr' = trusted_stack_ptr
        /\ Top.kind = "call" => registered' = registered
        /\ Top.kind = "spawn" => registered' = [registered EXCEPT ![s] = TRUE]
        /\ suspend_state'[s] = "TRUSTED"
        /\ \A t \in Sandboxes \ {s} : suspend_state'[t] = suspend_state[t]
    BY <1>0, <1>1 DEF SysExitSandbox, ReturnTo, TypeOK
  <1>5. /\ Len(jumpBufferStack'[s]) = n - 1
        /\ \A k \in 1..(n - 1) : jumpBufferStack'[s][k] = jumpBufferStack[s][k]
        /\ \A t \in Sandboxes \ {s} : jumpBufferStack'[t] = jumpBufferStack[t]
    <2>1. jumpBufferStack[s] \in Seq(Nat \ {0})
      BY <1>0, <1>1 DEF TypeOK
    <2>2. jumpBufferStack'[s] = SubSeq(jumpBufferStack[s], 1, n - 1)
      BY <1>0, <1>1 DEF SysExitSandbox, PopJumpBuffer, TypeOK
    <2>3. \A t \in Sandboxes \ {s} : jumpBufferStack'[t] = jumpBufferStack[t]
      BY <1>0, <1>1 DEF SysExitSandbox, PopJumpBuffer, TypeOK
    <2>4. QED
      BY <1>1, <2>1, <2>2, <2>3, PopLemma
  <1>6. L > 1 => frames[L - 1].kind \notin {"call", "spawn"}
    <2>1. L > 1 => L - 1 \in 1..L /\ ShapeAt(L - 1)
      BY <1>0, <1>2 DEF ShapeInv
    <2>2. QED
      BY <1>1, <1>2, <2>1 DEF ShapeAt
  <1>7. Top.kind = "spawn" => \A i \in 1..(L - 1) : frames[i].sb # s
    BY <1>0, <1>1, <1>2 DEF RegisteredInv, ShapeInv, ShapeAt
  <1>8. \A i \in 1..(L - 1) : frames[i].sb = s => frames[i].entry <= rsp'[s]
    <2> SUFFICES ASSUME NEW i \in 1..(L - 1), frames[i].sb = s
                 PROVE  frames[i].entry <= rsp'[s]
      OBVIOUS
    <2>1. RestoreAbove(i, L) /\ Top.kind = "call"
      BY <1>0, <1>1, <1>2, <1>7 DEF StackInv
    <2>2. QED
      BY <1>1, <1>2, <1>4, <2>1 DEF RestoreAbove
  <1>9. \A i \in 1..(L - 1) : i \in 1..L /\ frames[i].sb \in Sandboxes
    <2>1. \A i \in 1..L : frames[i].sb \in Sandboxes
      BY <1>0, FrameLemma DEF TypeOK
    <2> HIDE DEF L
    <2>2. QED
      BY <1>2, <2>1
  <1> HIDE DEF L, s, n
  <1>a. ShapeInv'
    BY <1>0, <1>1, <1>2, <1>3, ShapePop DEF L
  <1>b. SuspendInv'
    <2>1. ~InSandbox'
      <3>1. CASE L = 1
        BY <1>3, <3>1, FrameLemma DEF InSandbox, IsEmpty, TypeOK
      <3>2. CASE L > 1
        BY <1>2, <1>3, <1>6, <3>2 DEF InSandbox
      <3>3. QED
        BY <1>1, <1>2, <3>1, <3>2
    <2>2. QED
      BY <1>0, <1>1, <1>4, <2>1 DEF SuspendInv
  <1>c. RegisteredInv'
    <2> SUFFICES ASSUME NEW i \in 1..(L - 1)
                 PROVE  registered'[frames[i].sb] <=> frames[i].kind # "spawn"
      BY <1>3 DEF RegisteredInv
    <2>1. registered[frames[i].sb] <=> frames[i].kind # "spawn"
      BY <1>0, <1>2 DEF RegisteredInv, L
    <2>2. frames[i].sb \in Sandboxes
      BY <1>9
    <2>3. QED
      BY <1>0, <1>1, <1>4, <1>7, <2>1, <2>2 DEF TypeOK
  <1>d. JumpBuffersLive'
    <2> SUFFICES ASSUME NEW t \in Sandboxes
                 PROVE  JumpBuffersLiveOf(t)'
      BY DEF JumpBuffersLive
    <2>1. JumpBuffersLiveOf(t)
      BY <1>0 DEF JumpBuffersLive
    <2>2. \A k \in 1..Len(jumpBufferStack[t]) : jumpBufferStack[t][k] \in Nat \ {0}
      BY <1>0, StackTypeLemma DEF TypeOK
    <2>3. CASE t # s
      <3>1. ASSUME NEW k \in 1..Len(jumpBufferStack[t])
            PROVE  jumpBufferStack[t][k] \in 1..(L - 1)
        <4>1. jumpBufferStack[t][k] \in 1..L /\ frames[jumpBufferStack[t][k]].sb = t
          BY <1>2, <2>1, <2>2 DEF JumpBuffersLiveOf, L
        <4>2. jumpBufferStack[t][k] # L
          BY <1>1, <2>3, <4>1 DEF L
        <4>3. QED
          BY <1>2, <4>1, <4>2
      <3>2. jumpBufferStack'[t] = jumpBufferStack[t]
        BY <1>5, <2>3
      <3>3. QED
        BY <1>2, <1>3, <2>1, <3>1, <3>2 DEF JumpBuffersLiveOf
    <2>4. CASE t = s
      <3>1. n = Len(jumpBufferStack[t]) /\ n \in 1..n
        BY <1>1, <2>4 DEF n
      <3>2. ASSUME NEW k \in 1..(n - 1)
            PROVE  /\ k \in 1..n /\ jumpBufferStack[t][k] \in 1..(L - 1)
                   /\ jumpBufferStack'[t][k] = jumpBufferStack[t][k]
        <4>1. k \in 1..n /\ k < n
          BY <1>1
        <4>2. jumpBufferStack[t][k] < jumpBufferStack[t][n]
          BY <2>1, <3>1, <4>1 DEF JumpBuffersLiveOf
        <4>3. jumpBufferStack[t][k] \in Nat \ {0} /\ jumpBufferStack[t][n] = L
          BY <1>1, <2>2, <2>4, <3>1, <4>1
        <4>4. QED
          BY <1>2, <1>5, <2>4, <4>1, <4>2, <4>3
      <3>3. Len(jumpBufferStack'[t]) = n - 1
        BY <1>5, <2>4
      <3>4. ASSUME NEW k \in 1..(n - 1)
            PROVE  /\ jumpBufferStack'[t][k] <= Len(frames')
                   /\ frames'[jumpBufferStack'[t][k]].sb = t
                   /\ frames'[jumpBufferStack'[t][k]].kind \in {"call", "spawn"}
        <4>1. /\ frames[jumpBufferStack[t][k]].sb = t
              /\ frames[jumpBufferStack[t][k]].kind \in {"call", "spawn"}
          BY <2>1, <3>1, <3>2 DEF JumpBuffersLiveOf
        <4>2. QED
          BY <1>2, <1>3, <3>2, <4>1
      <3>5. ASSUME NEW k \in 1..(n - 1), NEW l \in 1..(n - 1), k < l
            PROVE  jumpBufferStack'[t][k] < jumpBufferStack'[t][l]
        BY <2>1, <3>1, <3>2, <3>5 DEF JumpBuffersLiveOf
      <3>6. QED
        BY <3>3, <3>4, <3>5 DEF JumpBuffersLiveOf
    <2>5. QED
      BY <2>3, <2>4
  <1>e. JumpBuffersComplete'
    <2> SUFFICES ASSUME NEW i \in 1..(L - 1), frames[i].kind \in {"call", "spawn"}
                 PROVE  \E k \in 1..Len(jumpBufferStack'[frames[i].sb]) :
                          jumpBufferStack'[frames[i].sb][k] = i
      BY <1>3 DEF JumpBuffersComplete, JumpBufferFor
    <2>1. i \in 1..L /\ i # L /\ frames[i].sb \in Sandboxes
      BY <1>2, <1>9
    <2>2. PICK k \in 1..Len(jumpBufferStack[frames[i].sb]) :
            jumpBufferStack[frames[i].sb][k] = i
      BY <1>0, <2>1 DEF JumpBuffersComplete, JumpBufferFor, L
    <2>3. CASE frames[i].sb # s
      BY <1>5, <2>1, <2>2, <2>3
    <2>4. CASE frames[i].sb = s
      <3>1. k \in 1..n /\ k # n
        BY <1>1, <2>1, <2>2, <2>4 DEF n
      <3>2. k \in 1..(n - 1)
        BY <1>1, <3>1
      <3>3. QED
        BY <1>5, <2>2, <2>4, <3>2
    <2>5. QED
      BY <2>3, <2>4
  <1>f. /\ StackInv' /\ StackAreasNested'
        /\ HostFramesPreserved' /\ HostInv'
    BY <1>0, <1>1, <1>2, <1>3, <1>4, <1>8, StackPop DEF L
  <1>g. QED
    BY <1>a, <1>b, <1>c, <1>d, <1>e, <1>f DEF GateInv

(* The jump into the sandbox by invokeFunctionCall preserves the           *)
(* invariant: the prepared frame becomes an entered one.                   *)
LEMMA GateInvoke ==
    ASSUME GateInv, TypeOK', InvokeFunctionCall
    PROVE  GateInv'
  <1> DEFINE L == Len(frames)
             s == Top.sb
             n == Len(jumpBufferStack[s])
  <1>0. /\ TypeOK /\ ShapeInv /\ SuspendInv /\ RegisteredInv
        /\ JumpBuffersLive /\ JumpBuffersComplete /\ StackAreasNested
        /\ StackInv /\ HostFramesPreserved /\ HostInv
    BY DEF GateInv
  <1>1. /\ L \in Nat /\ L \in 1..L /\ Top.kind = "pre" /\ ~IsEmpty
        /\ s \in Sandboxes
    BY <1>0, TopLemma DEF InvokeFunctionCall, Prepared, Frame
  <1>2. /\ \A i \in 1..L :
             /\ frames[i].kind \in {"pre", "call", "spawn", "callback"}
             /\ frames[i].sb \in Sandboxes
             /\ frames[i].host \in Nat /\ frames[i].base \in Nat
             /\ frames[i].entry \in Nat /\ frames[i].restore \in Nat
        /\ rsp[s] \in Nat /\ saved_stack_ptr[s] \in Nat
    BY <1>0, <1>1, FrameLemma DEF TypeOK
  <1>3. /\ Len(frames') = L
        /\ \A i \in 1..L : i # L => frames'[i] = frames[i]
        /\ frames'[L].kind = "call" /\ frames'[L].sb = s
        /\ frames'[L].host = frames[L].host /\ frames'[L].base = frames[L].base
        /\ frames'[L].entry = rsp[s] /\ frames'[L].restore = saved_stack_ptr[s]
    <2> DEFINE e == [kind |-> "call", sb |-> s, host |-> Top.host,
                     base |-> Top.base, entry |-> rsp[s],
                     restore |-> saved_stack_ptr[s],
                     prev |-> nacl_current_thread]
    <2>1. e \in Frame
      BY <1>0, <1>1, <1>2 DEF Frame, TypeOK
    <2>2. frames' = [frames EXCEPT ![L] = e] /\ frames \in Seq(Frame) /\ L > 0
      BY <1>0, <1>1 DEF InvokeFunctionCall, TypeOK
    <2> HIDE DEF e
    <2>3. /\ Len(frames') = L
          /\ \A i \in 1..L : i # L => frames'[i] = frames[i]
          /\ frames'[L] = e
      BY <2>1, <2>2, ReplaceLemma
    <2>4. QED
      BY <2>3 DEF e
  <1>4. /\ trusted_stack_ptr'[s] = Top.host + 1
        /\ \A t \in Sandboxes \ {s} : trusted_stack_ptr'[t] = trusted_stack_ptr[t]
        /\ rsp' = rsp /\ saved_stack_ptr' = saved_stack_ptr
        /\ registered' = registered
        /\ suspend_state'[s] = "UNTRUSTED"
        /\ \A t \in Sandboxes \ {s} : suspend_state'[t] = suspend_state[t]
    BY <1>0, <1>1 DEF InvokeFunctionCall, TypeOK, HostSp
  <1>5. /\ n \in Nat /\ Len(jumpBufferStack'[s]) = n + 1
        /\ \A k \in 1..n : jumpBufferStack'[s][k] = jumpBufferStack[s][k]
        /\ jumpBufferStack'[s][n + 1] = L
        /\ \A t \in Sandboxes \ {s} : jumpBufferStack'[t] = jumpBufferStack[t]
    <2>1. jumpBufferStack[s] \in Seq(Nat \ {0}) /\ L \in Nat \ {0}
      BY <1>0, <1>1 DEF TypeOK
    <2>2. jumpBufferStack'[s] = Append(jumpBufferStack[s], L)
      BY <1>0, <1>1 DEF InvokeFunctionCall, TypeOK
    <2>3. \A t \in Sandboxes \ {s} : jumpBufferStack'[t] = jumpBufferStack[t]
      BY <1>0, <1>1 DEF InvokeFunctionCall, TypeOK
    <2> HIDE DEF L
    <2>4. QED
      BY <2>1, <2>2, <2>3, PushLemma
  <1> HIDE DEF L, s, n
  (* What is known of a frame below the top. *)
  <1>6. \A i \in 1..L : i = L \/ (i < L /\ frames'[i] = frames[i])
    BY <1>1, <1>3
  <1>a. ShapeInv'
    <2> SUFFICES ASSUME NEW i \in 1..L
                 PROVE  ShapeAt(i)'
      BY <1>3 DEF ShapeInv
    <2>1. ShapeAt(i)
      BY <1>0 DEF ShapeInv, L
    <2>2. CASE i = L
      BY <1>3, <2>2 DEF ShapeAt
    <2>3. CASE i < L
      <3>1. frames'[i] = frames[i] /\ (i > 1 => frames'[i - 1] = frames[i - 1])
        BY <1>1, <1>3, <2>3
      <3>2. i + 1 \in 1..L /\ (i + 1 = L \/ frames'[i + 1] = frames[i + 1])
        BY <1>1, <1>3, <2>3
      <3>3. frames[L].kind = "pre"
        BY <1>1 DEF L
      <3>4. QED
        BY <1>1, <1>3, <2>1, <2>3, <3>1, <3>2, <3>3 DEF ShapeAt, L
    <2>4. QED
      BY <1>1, <2>2, <2>3
  <1>b. SuspendInv'
    <2>1. ~InSandbox
      BY <1>1 DEF InSandbox
    <2>2. InSandbox' /\ Top'.sb = s
      BY <1>1, <1>3, FrameLemma DEF InSandbox, IsEmpty, TypeOK
    <2>3. QED
      BY <1>0, <1>4, <2>1, <2>2 DEF SuspendInv
  <1>c. RegisteredInv'
    <2> SUFFICES ASSUME NEW i \in 1..L
                 PROVE  registered[frames'[i].sb] <=> frames'[i].kind # "spawn"
      BY <1>3, <1>4 DEF RegisteredInv
    <2>1. registered[frames[i].sb] <=> frames[i].kind # "spawn"
      BY <1>0 DEF RegisteredInv, L
    <2>2. CASE i = L
      BY <1>1, <1>3, <2>1, <2>2 DEF L, s
    <2>3. QED
      BY <1>6, <2>1, <2>2
  <1>d. JumpBuffersLive'
    <2> SUFFICES ASSUME NEW t \in Sandboxes
                 PROVE  JumpBuffersLiveOf(t)'
      BY DEF JumpBuffersLive
    <2>1. JumpBuffersLiveOf(t)
      BY <1>0 DEF JumpBuffersLive
    <2>2. ASSUME NEW k \in 1..Len(jumpBufferStack[t])
          PROVE  /\ jumpBufferStack[t][k] \in 1..(L - 1)
                 /\ frames'[jumpBufferStack[t][k]].sb = t
                 /\ frames'[jumpBufferStack[t][k]].kind \in {"call", "spawn"}
      <3>1. jumpBufferStack[t][k] \in Nat \ {0}
        BY <1>0, StackTypeLemma DEF TypeOK
      <3>2. /\ jumpBufferStack[t][k] <= L
            /\ frames[jumpBufferStack[t][k]].sb = t
            /\ frames[jumpBufferStack[t][k]].kind \in {"call", "spawn"}
        BY <2>1 DEF JumpBuffersLiveOf, L
      <3>3. jumpBufferStack[t][k] # L
        BY <1>1, <3>2 DEF L
      <3>4. QED
        BY <1>1, <1>3, <3>1, <3>2, <3>3
    <2>3. CASE t # s
      <3>1. jumpBufferStack'[t] = jumpBufferStack[t]
        BY <1>5, <2>3
      <3>2. QED
        BY <1>1, <1>3, <2>1, <2>2, <3>1 DEF JumpBuffersLiveOf
    <2>4. CASE t = s
      <3>1. n = Len(jumpBufferStack[t])
        BY <2>4 DEF n
      <3>2. ASSUME NEW k \in 1..(n + 1)
            PROVE  /\ jumpBufferStack'[t][k] <= L
                   /\ frames'[jumpBufferStack'[t][k]].sb = t
                   /\ frames'[jumpBufferStack'[t][k]].kind \in {"call", "spawn"}
        <4>1. CASE k = n + 1
          BY <1>1, <1>3, <1>5, <2>4, <4>1
        <4>2. CASE k \in 1..n
          <5>1. jumpBufferStack'[t][k] = jumpBufferStack[t][k]
            BY <1>5, <2>4, <4>2
          <5>2. k \in 1..Len(jumpBufferStack[t])
            BY <3>1, <4>2
          <5>3. jumpBufferStack[t][k] <= L
            BY <1>1, <2>2, <5>2
          <5>4. QED
            BY <2>2, <5>1, <5>2, <5>3
        <4>3. QED
          BY <1>5, <4>1, <4>2
      <3>3. ASSUME NEW k \in 1..(n + 1), NEW l \in 1..(n + 1), k < l
            PROVE  jumpBufferStack'[t][k] < jumpBufferStack'[t][l]
        <4>1. k \in 1..n /\ jumpBufferStack'[t][k] = jumpBufferStack[t][k]
          BY <1>5, <2>4, <3>3
        <4>2. CASE l = n + 1
          BY <1>1, <1>5, <2>2, <2>4, <3>1, <4>1, <4>2
        <4>3. CASE l \in 1..n
          BY <1>5, <2>1, <2>4, <3>1, <3>3, <4>1, <4>3 DEF JumpBuffersLiveOf
        <4>4. QED
          BY <1>5, <4>2, <4>3
      <3>4. Len(jumpBufferStack'[t]) = n + 1
        BY <1>5, <2>4
      <3>5. QED
        BY <1>3, <3>2, <3>3, <3>4 DEF JumpBuffersLiveOf
    <2>5. QED
      BY <2>3, <2>4
  <1>e. JumpBuffersComplete'
    <2> SUFFICES ASSUME NEW i \in 1..L
                 PROVE  JumpBufferFor(i)'
      BY <1>3 DEF JumpBuffersComplete
    <2>1. CASE i = L
      <3>1. n + 1 \in 1..(n + 1)
        BY <1>5
      <3>2. QED
        BY <1>3, <1>5, <2>1, <3>1 DEF JumpBufferFor
    <2>2. CASE i < L
      <3>1. JumpBufferFor(i) /\ frames'[i] = frames[i]
        BY <1>0, <1>6, <2>2 DEF JumpBuffersComplete, L
      <3>2. CASE frames[i].sb # s
        <4>1. frames[i].sb \in Sandboxes \ {s}
          BY <1>2, <3>2
        <4>2. QED
          BY <1>5, <3>1, <4>1 DEF JumpBufferFor
      <3>3. CASE frames[i].sb = s
        <4>1. \A k \in 1..n : k \in 1..(n + 1)
          BY <1>5
        <4>2. QED
          BY <1>5, <3>1, <3>3, <4>1 DEF JumpBufferFor, n
      <3>4. QED
        BY <3>2, <3>3
    <2>3. QED
      BY <1>6, <2>1, <2>2
  <1>f. StackAreasNested'
    <2> SUFFICES ASSUME NEW i \in 1..L, NEW j \in 1..L, i < j,
                        frames'[i].sb = frames'[j].sb
                 PROVE  frames'[i].entry <= frames'[j].base
      BY <1>3 DEF StackAreasNested
    <2>1. i < L /\ frames'[i] = frames[i]
      BY <1>1, <1>3
    <2>2. frames'[j].sb = frames[j].sb /\ frames'[j].base = frames[j].base
      BY <1>1, <1>3, <1>6 DEF L, s
    <2>3. QED
      BY <1>0, <2>1, <2>2 DEF StackAreasNested, L
  <1>g. StackInv'
    <2>1. ASSUME NEW i \in 1..L
          PROVE  StackAt(i)'
      <3>1. StackAt(i)
        BY <1>0 DEF StackInv, L
      <3>2. CASE i = L
        <4>1. frames[L].base <= frames[L].entry /\ frames[L].entry <= rsp[s]
          BY <1>1, <3>1, <3>2 DEF StackAt, L, s
        <4>2. QED
          BY <1>1, <1>2, <1>3, <1>4, <3>2, <4>1 DEF StackAt
      <3>3. CASE i < L
        BY <1>4, <1>6, <3>1, <3>3 DEF StackAt
      <3>4. QED
        BY <1>6, <3>2, <3>3
    <2>2. ASSUME NEW i \in 1..L, NEW j \in 1..L
          PROVE  RestoreAbove(j, i)'
      <3>1. RestoreAbove(j, i)
        BY <1>0 DEF StackInv, L
      <3>2. CASE j < i /\ i = L
        <4>1. frames'[j] = frames[j] /\ frames[L].kind = "pre" /\ frames[L].sb = s
          BY <1>1, <1>6, <3>2 DEF L, s
        <4>2. frames[j].sb = s => frames[j].entry <= saved_stack_ptr[s]
          BY <3>1, <3>2, <4>1 DEF RestoreAbove
        <4>3. QED
          BY <1>3, <3>2, <4>1, <4>2 DEF RestoreAbove
      <3>3. CASE j < i /\ i < L
        <4>1. frames'[i] = frames[i] /\ frames'[j] = frames[j]
          BY <1>1, <1>3, <3>3
        <4>2. QED
          BY <1>4, <3>1, <4>1 DEF RestoreAbove
      <3>4. CASE ~(j < i)
        BY <3>4 DEF RestoreAbove
      <3>5. QED
        BY <1>6, <3>2, <3>3, <3>4
    <2>3. QED
      BY <1>3, <2>1, <2>2 DEF StackInv
  <1>h. HostFramesPreserved'
    <2> SUFFICES ASSUME NEW i \in 1..L, NEW j \in 1..L, i < j
                 PROVE  /\ frames'[i].host <= frames'[j].host
                        /\ frames'[j].kind = "callback"
                             => frames'[i].host < frames'[j].host
      BY <1>3 DEF HostFramesPreserved
    <2>1. i < L /\ frames'[i] = frames[i]
      BY <1>1, <1>3
    <2>2. /\ frames'[j].host = frames[j].host
          /\ frames'[j].kind = "callback" => frames[j].kind = "callback"
      BY <1>3, <1>6
    <2>3. QED
      BY <1>0, <2>1, <2>2 DEF HostFramesPreserved, L
  <1>i. HostInv'
    <2> SUFFICES ASSUME NEW i \in 1..L, frames'[i].kind \in {"call", "spawn"}
                 PROVE  frames'[i].host < trusted_stack_ptr'[frames'[i].sb]
      BY <1>3 DEF HostInv
    <2>1. /\ Top = frames[L] /\ Top.host \in Nat
          /\ \A j \in 1..L : frames[j].host <= Top.host
      <3>1. HostSp = Top.host
        BY <1>1 DEF HostSp
      <3>2. QED
        BY <1>0, <3>1, HostSpLemma DEF L
    <2>2. CASE frames'[i].sb = s
      <3>1. frames'[i].host = frames[i].host /\ frames[i].host \in Nat
        BY <1>2, <1>3, <1>6
      <3>2. QED
        BY <1>4, <2>1, <2>2, <3>1
    <2>3. CASE frames'[i].sb # s
      <3>1. frames'[i] = frames[i] /\ frames[i].sb \in Sandboxes \ {s}
        BY <1>2, <1>3, <1>6, <2>3
      <3>2. QED
        BY <1>0, <1>4, <3>1 DEF HostInv, L
    <2>4. QED
      BY <2>2, <2>3
  <1>j. QED
    BY <1>a, <1>b, <1>c, <1>d, <1>e, <1>f, <1>g, <1>h, <1>i DEF GateInv

(* A system call that returns to its caller preserves the invariant.       *)
LEMMA GateOther ==
    ASSUME GateInv, TypeOK', OtherSyscall
    PROVE  GateInv'
  <1> DEFINE s == nacl_current_thread
  <1>0. /\ TypeOK /\ ShapeInv /\ SuspendInv /\ RegisteredInv
        /\ JumpBuffersLive /\ JumpBuffersComplete /\ StackAreasNested
        /\ StackInv /\ HostFramesPreserved /\ HostInv
    BY DEF GateInv
  <1>1. s \in Sandboxes /\ InSandbox /\ Top.sb = s
    BY <1>0 DEF OtherSyscall, SyscallEntry, SuspendInv
  <1>2. PICK r \in 0..StackLimit : SyscallSp(r) /\ rsp' = [rsp EXCEPT ![s] = r]
    BY DEF OtherSyscall
  <1>3. /\ r \in Nat /\ Top.entry \in Nat /\ Top.entry <= r
        /\ \A i \in 1..Len(frames) : frames[i].sb = s => frames[i].entry <= Top.entry
    BY <1>0, <1>1, <1>2, TopEntryLemma, CallGateAssumption DEF SyscallSp
  <1>4. \A i \in 1..Len(frames) : frames[i].sb \in Sandboxes /\ frames[i].entry \in Nat
    BY <1>0, FrameLemma DEF TypeOK
  <1>5. rsp'[s] = r /\ \A t \in Sandboxes \ {s} : rsp'[t] = rsp[t]
    BY <1>0, <1>1, <1>2 DEF TypeOK
  <1>6. /\ frames' = frames /\ saved_stack_ptr' = saved_stack_ptr
        /\ jumpBufferStack' = jumpBufferStack
        /\ trusted_stack_ptr' = trusted_stack_ptr
        /\ registered' = registered /\ suspend_state' = suspend_state
    BY DEF OtherSyscall
  <1> HIDE DEF s
  <1>7. StackInv'
    <2>1. ASSUME NEW i \in 1..Len(frames)
          PROVE  StackAt(i)'
      <3>1. StackAt(i)
        BY <1>0 DEF StackInv
      <3>2. frames[i].entry <= rsp'[frames[i].sb]
        BY <1>3, <1>4, <1>5, <3>1 DEF StackAt
      <3>3. QED
        BY <1>6, <3>1, <3>2 DEF StackAt
    <2>2. ASSUME NEW i \in 1..Len(frames), NEW j \in 1..Len(frames)
          PROVE  RestoreAbove(j, i)'
      BY <1>0, <1>6 DEF StackInv, RestoreAbove
    <2>3. QED
      BY <1>6, <2>1, <2>2 DEF StackInv
  <1>8. /\ ShapeInv' /\ SuspendInv' /\ RegisteredInv'
    BY <1>0, <1>6 DEF ShapeInv, ShapeAt, SuspendInv, InSandbox, IsEmpty,
                      RegisteredInv
  <1>9. /\ JumpBuffersLive' /\ JumpBuffersComplete' /\ StackAreasNested'
        /\ HostFramesPreserved' /\ HostInv'
    BY <1>0, <1>6 DEF JumpBuffersLive, JumpBuffersLiveOf, JumpBuffersComplete,
                      JumpBufferFor, StackAreasNested, HostFramesPreserved,
                      HostInv
  <1>10. QED
    BY <1>7, <1>8, <1>9 DEF GateInv

(* destroyDlSandbox preserves the invariant: it changes only a sandbox     *)
(* that has no frame.                                                      *)
LEMMA GateDestroy ==
    ASSUME GateInv, TypeOK', NEW s \in Sandboxes, DestroyDlSandbox(s)
    PROVE  GateInv'
  <1>0. /\ TypeOK /\ ShapeInv /\ SuspendInv /\ RegisteredInv
        /\ JumpBuffersLive /\ JumpBuffersComplete /\ StackAreasNested
        /\ StackInv /\ HostFramesPreserved /\ HostInv
    BY DEF GateInv
  <1>1. /\ \A t \in Sandboxes \ {s} : rsp'[t] = rsp[t]
        /\ \A t \in Sandboxes \ {s} : registered'[t] = registered[t]
        /\ frames' = frames /\ saved_stack_ptr' = saved_stack_ptr
        /\ jumpBufferStack' = jumpBufferStack
        /\ trusted_stack_ptr' = trusted_stack_ptr
        /\ suspend_state' = suspend_state
    BY <1>0 DEF DestroyDlSandbox, TypeOK
  <1>2. \A i \in 1..Len(frames) : frames[i].sb \in Sandboxes \ {s}
    BY <1>0, FrameLemma DEF TypeOK, DestroyDlSandbox
  <1>3. StackInv'
    <2>1. ASSUME NEW i \in 1..Len(frames)
          PROVE  StackAt(i)'
      BY <1>0, <1>1, <1>2 DEF StackInv, StackAt
    <2>2. ASSUME NEW i \in 1..Len(frames), NEW j \in 1..Len(frames)
          PROVE  RestoreAbove(j, i)'
      BY <1>0, <1>1 DEF StackInv, RestoreAbove
    <2>3. QED
      BY <1>1, <2>1, <2>2 DEF StackInv
  <1>4. /\ ShapeInv' /\ SuspendInv' /\ RegisteredInv'
    BY <1>0, <1>1, <1>2 DEF ShapeInv, ShapeAt, SuspendInv, InSandbox, IsEmpty,
                            RegisteredInv
  <1>5. /\ JumpBuffersLive' /\ JumpBuffersComplete' /\ StackAreasNested'
        /\ HostFramesPreserved' /\ HostInv'
    BY <1>0, <1>1 DEF JumpBuffersLive, JumpBuffersLiveOf, JumpBuffersComplete,
                      JumpBufferFor, StackAreasNested, HostFramesPreserved,
                      HostInv
  <1>6. QED
    BY <1>3, <1>4, <1>5 DEF GateInv

(* The invariant holds initially: there is no frame.                       *)
LEMMA GateInit == Init => GateInv
  <1> SUFFICES ASSUME Init
               PROVE  GateInv
    OBVIOUS
  <1>1. TypeOK
    BY TypeInit
  <1>2. Len(frames) = 0 /\ IsEmpty /\ ~InSandbox /\ 1..Len(frames) = {}
    <2>1. frames = << >> /\ << >> \in Seq(Frame)
      BY EmptySeq DEF Init
    <2>2. Len(frames) = 0
      BY <2>1, EmptyLemma
    <2>3. QED
      BY <2>1, <2>2 DEF IsEmpty, InSandbox
  <1>3. JumpBuffersLive
    <2> SUFFICES ASSUME NEW s \in Sandboxes
                 PROVE  JumpBuffersLiveOf(s)
      BY DEF JumpBuffersLive
    <2>1. jumpBufferStack[s] = << >> /\ jumpBufferStack[s] \in Seq(Nat \ {0})
      BY <1>1 DEF Init, TypeOK
    <2>2. Len(jumpBufferStack[s]) = 0
      BY <2>1, EmptyLemma
    <2>3. QED
      BY <2>2 DEF JumpBuffersLiveOf
  <1>4. SuspendInv
    BY <1>2 DEF SuspendInv, Init
  <1>5. QED
    BY <1>1, <1>2, <1>3, <1>4
       DEF GateInv, ShapeInv, RegisteredInv, JumpBuffersComplete,
           StackAreasNested, StackInv, HostFramesPreserved, HostInv

(* Every step preserves the invariant.                                     *)
LEMMA GateNext == GateInv /\ [Next]_vars => GateInv'
  <1> SUFFICES ASSUME GateInv, [Next]_vars
               PROVE  GateInv'
    OBVIOUS
  <1>0. TypeOK'
    BY TypeNext
  <1>1. CASE \E s \in Sandboxes : SpawnOnCurrThread(s)
    BY <1>0, <1>1, GateSpawn
  <1>2. CASE \E s \in Sandboxes : PreFunctionCall(s)
    BY <1>0, <1>2, GatePre
  <1>3. CASE \E s \in Sandboxes : DestroyDlSandbox(s)
    BY <1>0, <1>3, GateDestroy
  <1>4. CASE InvokeFunctionCall
    BY <1>0, <1>4, GateInvoke
  <1>5. CASE CallbackReturn
    BY <1>0, <1>5, GateCallbackReturn
  <1>6. CASE OtherSyscall
    BY <1>0, <1>6, GateOther
  <1>7. CASE SysCallback
    BY <1>0, <1>7, GateCallback
  <1>8. CASE SysExitSandbox
    BY <1>0, <1>8, GateExit
  <1>9. CASE UnexpectedSuspendState \/ NoJumpBuffer \/ Aborted \/ UNCHANGED vars
    <2>1. /\ frames' = frames /\ saved_stack_ptr' = saved_stack_ptr
          /\ jumpBufferStack' = jumpBufferStack
          /\ trusted_stack_ptr' = trusted_stack_ptr /\ rsp' = rsp
          /\ registered' = registered /\ suspend_state' = suspend_state
      BY <1>9 DEF UnexpectedSuspendState, NoJumpBuffer, Abort, Aborted, vars
    <2>2. /\ ShapeInv' /\ SuspendInv' /\ RegisteredInv'
      BY <2>1 DEF GateInv, ShapeInv, ShapeAt, SuspendInv, InSandbox, IsEmpty,
                  RegisteredInv
    <2>3. /\ JumpBuffersLive' /\ JumpBuffersComplete' /\ StackAreasNested'
          /\ HostFramesPreserved' /\ HostInv'
      BY <2>1 DEF GateInv, JumpBuffersLive, JumpBuffersLiveOf,
                  JumpBuffersComplete, JumpBufferFor, StackAreasNested,
                  HostFramesPreserved, HostInv
    <2>4. StackInv'
      BY <2>1 DEF GateInv, StackInv, StackAt, RestoreAbove
    <2>5. QED
      BY <1>0, <2>2, <2>3, <2>4 DEF GateInv
  <1>10. QED
    BY <1>1, <1>2, <1>3, <1>4, <1>5, <1>6, <1>7, <1>8, <1>9 DEF Next

-----------------------------------------------------------------------------
(***************************************************************************)
(* The theorems.                                                           *)
(***************************************************************************)

(* GateInv is an invariant of the call gate, however sandboxes nest.       *)
THEOREM GateInvariant == Spec => []GateInv
  BY GateInit, GateNext, PTL DEF Spec

(* The state of the call gate is always well typed.                        *)
THEOREM TypeCorrect == Spec => []TypeOK
  <1>1. GateInv => TypeOK
    BY DEF GateInv
  <1>2. QED
    BY <1>1, GateInvariant, PTL

(* longjmp() in NaClSysExitSandbox never jumps into a function that has    *)
(* returned, even when a sandbox is first entered inside a callback and    *)
(* when calls are prepared while others are.                               *)
THEOREM JumpBuffersAlwaysLive == Spec => []JumpBuffersLive
  <1>1. GateInv => JumpBuffersLive
    BY DEF GateInv
  <1>2. QED
    BY <1>1, GateInvariant, PTL

(* preFunctionCall and its callers never write over sandbox stack that an  *)
(* older call or callback still uses.                                      *)
THEOREM StackAreasAlwaysNested == Spec => []StackAreasNested
  <1>1. GateInv => StackAreasNested
    BY DEF GateInv
  <1>2. QED
    BY <1>1, GateInvariant, PTL

(* The trusted stack of a callback never overlaps a live host frame.       *)
THEOREM HostFramesAlwaysPreserved == Spec => []HostFramesPreserved
  <1>1. GateInv => HostFramesPreserved
    BY DEF GateInv
  <1>2. QED
    BY <1>1, GateInvariant, PTL

-----------------------------------------------------------------------------
(***************************************************************************)
(* The TLS variable.  If no sandbox is first entered inside a callback,    *)
(* exchanging nacl_current_thread in invokeFunctionCall is enough.         *)
(***************************************************************************)

(* Where the invariants hold, every transition finds the suspend_state it  *)
(* expects and every exit finds a jump buffer.                             *)
LEMMA NoAbort ==
    ASSUME GateInv, TlsInv
    PROVE  /\ SuspendStateExpected
           /\ ~PopFails
           /\ InSandbox => nacl_current_thread = Top.sb
  <1>0. TypeOK /\ SuspendInv /\ JumpBuffersLive /\ JumpBuffersComplete
    BY DEF GateInv
  <1>1. ~IsEmpty => /\ Len(frames) \in 1..Len(frames) /\ Len(frames) \in Nat
                    /\ Top.sb \in Sandboxes
    BY <1>0, TopLemma DEF Frame
  <1>2. InSandbox => nacl_current_thread = Top.sb
    <2> HAVE InSandbox
    <2>1. InnermostBelow(Len(frames), Len(frames) + 1)
      BY <1>1 DEF InnermostBelow, InSandbox
    <2>2. QED
      BY <1>1, <2>1 DEF TlsInv, InSandbox
  <1>3. ASSUME InSandbox
        PROVE  SuspendStateExpected
    BY <1>0, <1>2, <1>3 DEF SuspendStateExpected, SuspendInv
  <1>4. ASSUME ~InSandbox, ~IsEmpty
        PROVE  SuspendStateExpected
    <2>1. suspend_state[Top.sb] # "UNTRUSTED"
      BY <1>0, <1>1, <1>4 DEF SuspendInv
    <2>2. suspend_state[Top.sb] \in {"TRUSTED", "UNTRUSTED"}
      BY <1>0, <1>1, <1>4 DEF TypeOK
    <2>3. QED
      BY <1>4, <2>1, <2>2 DEF SuspendStateExpected
  <1>5. SuspendStateExpected
    BY <1>3, <1>4 DEF SuspendStateExpected, InSandbox
  <1>6. ~PopFails
    BY <1>0, ExitLemma DEF PopFails
  <1>7. QED
    BY <1>2, <1>5, <1>6

(* The parts of TlsInv that speak of frames and the TLS variable.          *)
TlsTop == \A i \in 1..Len(frames) :
            InnermostBelow(i, Len(frames) + 1) => nacl_current_thread = frames[i].sb
TlsPrevAt(i, n) ==
    i < n /\ frames[n].kind = "call" /\ InnermostBelow(i, n)
      => frames[n].prev = frames[i].sb
TlsPrev == \A i, n \in 1..Len(frames) : TlsPrevAt(i, n)
SpawnFirst == \A i \in 1..Len(frames) : frames[i].kind = "spawn" => i = 1

(* Popping a frame keeps what the remaining calls put back.                *)
LEMMA TlsPop ==
    ASSUME TlsPrev, SpawnFirst,
           NEW L \in Nat, L = Len(frames), L > 0, Len(frames') = L - 1,
           \A i \in 1..(L - 1) : frames'[i] = frames[i]
    PROVE  TlsPrev' /\ SpawnFirst'
  <1>1. ASSUME NEW i \in 1..(L - 1), NEW n \in 1..(L - 1)
        PROVE  TlsPrevAt(i, n)'
    <2>1. /\ i \in 1..L /\ n \in 1..L /\ TlsPrevAt(i, n)
          /\ frames'[i] = frames[i] /\ frames'[n] = frames[n]
      BY DEF TlsPrev
    <2>2. InnermostBelow(i, n)' => InnermostBelow(i, n)
      BY <2>1 DEF InnermostBelow
    <2>3. QED
      BY <2>1, <2>2 DEF TlsPrevAt
  <1>2. SpawnFirst'
    BY DEF SpawnFirst
  <1>3. QED
    BY <1>1, <1>2 DEF TlsPrev

(* Pushing a frame that is neither a call nor a thread creation keeps what *)
(* the other calls put back.                                               *)
LEMMA TlsPush ==
    ASSUME TlsPrev, SpawnFirst,
           NEW L \in Nat, L = Len(frames), Len(frames') = L + 1,
           \A i \in 1..L : frames'[i] = frames[i],
           frames'[L + 1].kind \in {"pre", "callback"}
    PROVE  TlsPrev' /\ SpawnFirst'
  <1>1. ASSUME NEW i \in 1..(L + 1), NEW n \in 1..(L + 1)
        PROVE  TlsPrevAt(i, n)'
    <2>1. CASE n = L + 1 \/ ~(i < n)
      BY <2>1 DEF TlsPrevAt
    <2>2. CASE n \in 1..L /\ i < n
      <3>1. /\ i \in 1..L /\ TlsPrevAt(i, n)
            /\ frames'[i] = frames[i] /\ frames'[n] = frames[n]
        BY <2>2 DEF TlsPrev
      <3>2. InnermostBelow(i, n)' => InnermostBelow(i, n)
        BY <2>2, <3>1 DEF InnermostBelow
      <3>3. QED
        BY <3>1, <3>2 DEF TlsPrevAt
    <2>3. QED
      BY <2>1, <2>2
  <1>2. SpawnFirst'
    BY DEF SpawnFirst
  <1>3. QED
    BY <1>1, <1>2 DEF TlsPrev

(* Entering a sandbox for the first time happens on an empty stack.        *)
LEMMA TlsSpawn ==
    ASSUME GateInv, FirstEntryInCallback = FALSE,
           NEW s \in Sandboxes, SpawnOnCurrThread(s)
    PROVE  TlsTop' /\ TlsPrev' /\ SpawnFirst'
  <1> DEFINE e == [kind |-> "spawn", sb |-> s, host |-> HostSp, base |-> 0,
                   entry |-> 0, restore |-> 0, prev |-> NoThread]
  <1>1. TypeOK /\ HostSp \in Nat /\ Len(frames) = 0
    BY TopLemma DEF GateInv, SpawnOnCurrThread
  <1>2. e \in Frame
    BY <1>1, CallGateAssumption DEF Frame
  <1>3. frames' = Append(frames, e) /\ nacl_current_thread' = s
    BY DEF SpawnOnCurrThread
  <1>4. Len(frames') = 1 /\ frames'[1] = e
    BY <1>1, <1>2, <1>3, PushLemma DEF TypeOK
  <1>5. frames'[1].sb = s /\ \A i \in 1..Len(frames') : i = 1
    BY <1>4
  <1>6. QED
    BY <1>3, <1>5 DEF TlsTop, TlsPrev, TlsPrevAt, SpawnFirst

(* A prepared call does not change whose code called the host.             *)
LEMMA TlsPre ==
    ASSUME GateInv, TlsTop, TlsPrev, SpawnFirst,
           NEW s \in Sandboxes, PreFunctionCall(s)
    PROVE  TlsTop' /\ TlsPrev' /\ SpawnFirst'
  <1> DEFINE L == Len(frames)
  <1>1. TypeOK /\ HostSp \in Nat /\ L \in Nat
    BY TopLemma DEF GateInv
  <1>2. PICK area \in CallAreas :
          frames' = Append(frames,
                      [kind |-> "pre", sb |-> s, host |-> HostSp,
                       base |-> rsp[s], entry |-> rsp[s] + area,
                       restore |-> rsp[s], prev |-> NoThread])
    BY DEF PreFunctionCall
  <1> DEFINE e == [kind |-> "pre", sb |-> s, host |-> HostSp,
                   base |-> rsp[s], entry |-> rsp[s] + area,
                   restore |-> rsp[s], prev |-> NoThread]
  <1>3. e \in Frame
    BY <1>1, CallGateAssumption DEF Frame, TypeOK
  <1>4. /\ Len(frames') = L + 1 /\ \A i \in 1..L : frames'[i] = frames[i]
        /\ frames'[L + 1] = e
    BY <1>1, <1>2, <1>3, PushLemma DEF TypeOK
  <1>5. frames'[L + 1].kind = "pre" /\ nacl_current_thread' = nacl_current_thread
    BY <1>4 DEF PreFunctionCall
  <1> HIDE DEF L, e
  <1>6. TlsPrev' /\ SpawnFirst'
    BY <1>1, <1>4, <1>5, TlsPush DEF L
  <1>7. ASSUME NEW i \in 1..(L + 1), InnermostBelow(i, Len(frames) + 1)'
        PROVE  nacl_current_thread' = frames'[i].sb
    <2>1. i \in 1..L /\ frames'[i] = frames[i]
      BY <1>1, <1>4, <1>5, <1>7 DEF InnermostBelow
    <2>2. ASSUME NEW j \in 1..L, i < j
          PROVE  frames[j].kind = "pre"
      BY <1>1, <1>4, <1>7, <2>1, <2>2 DEF InnermostBelow
    <2>3. InnermostBelow(i, Len(frames) + 1)
      BY <1>1, <1>4, <1>7, <2>1, <2>2 DEF InnermostBelow, L
    <2>4. QED
      BY <1>5, <2>1, <2>3 DEF TlsTop, L
  <1>8. QED
    BY <1>1, <1>4, <1>6, <1>7 DEF TlsTop

(* invokeFunctionCall exchanges the TLS variable.                          *)
LEMMA TlsInvoke ==
    ASSUME GateInv, TlsTop, TlsPrev, SpawnFirst, InvokeFunctionCall
    PROVE  TlsTop' /\ TlsPrev' /\ SpawnFirst'
  <1> DEFINE L == Len(frames)
             s == Top.sb
             e == [kind |-> "call", sb |-> s, host |-> Top.host,
                   base |-> Top.base, entry |-> rsp[s],
                   restore |-> saved_stack_ptr[s],
                   prev |-> nacl_current_thread]
  <1>1. /\ TypeOK /\ L \in Nat /\ L \in 1..L /\ L > 0 /\ Top.kind = "pre"
        /\ s \in Sandboxes /\ Top.host \in Nat /\ Top.base \in Nat
    BY TopLemma DEF GateInv, InvokeFunctionCall, Prepared, Frame
  <1>2. e \in Frame
    BY <1>1 DEF Frame, TypeOK
  <1>3. frames' = [frames EXCEPT ![L] = e] /\ nacl_current_thread' = s
    BY DEF InvokeFunctionCall
  <1>4. /\ Len(frames') = L /\ frames'[L] = e
        /\ \A i \in 1..L : i # L => frames'[i] = frames[i]
    <2> HIDE DEF e
    <2>1. QED
      BY <1>1, <1>2, <1>3, ReplaceLemma DEF TypeOK
  <1>5. /\ frames'[L].kind = "call" /\ frames'[L].sb = s
        /\ frames'[L].prev = nacl_current_thread /\ frames[L].kind = "pre"
    BY <1>1, <1>4
  <1> HIDE DEF L, s, e
  <1>6. ASSUME NEW i \in 1..L, InnermostBelow(i, Len(frames) + 1)'
        PROVE  nacl_current_thread' = frames'[i].sb
    <2>1. i = L
      BY <1>1, <1>4, <1>5, <1>6 DEF InnermostBelow
    <2>2. QED
      BY <1>3, <1>5, <2>1
  <1>7. ASSUME NEW i \in 1..L, NEW n \in 1..L
        PROVE  TlsPrevAt(i, n)'
    <2> SUFFICES ASSUME i < n, frames'[n].kind = "call", InnermostBelow(i, n)'
                 PROVE  frames'[n].prev = frames'[i].sb
      BY DEF TlsPrevAt
    <2>1. i < L /\ frames'[i] = frames[i]
      BY <1>1, <1>4
    <2>2. CASE n = L
      <3>1. InnermostBelow(i, L + 1)
        BY <1>1, <1>4, <1>5, <2>1, <2>2 DEF InnermostBelow, L
      <3>2. QED
        BY <1>5, <2>1, <2>2, <3>1 DEF TlsTop, L
    <2>3. CASE n < L
      <3>1. frames'[n] = frames[n] /\ TlsPrevAt(i, n)
        BY <1>4, <2>3 DEF TlsPrev, L
      <3>2. InnermostBelow(i, n)
        BY <1>1, <1>4, <2>1, <2>3 DEF InnermostBelow, L
      <3>3. QED
        BY <2>1, <3>1, <3>2 DEF TlsPrevAt
    <2>4. QED
      BY <1>1, <2>2, <2>3
  <1>8. SpawnFirst'
    BY <1>4, <1>5 DEF SpawnFirst, L
  <1>9. QED
    BY <1>4, <1>6, <1>7, <1>8 DEF TlsTop, TlsPrev

(* When a callback returns, the TLS variable is again that of its sandbox. *)
LEMMA TlsCallbackReturn ==
    ASSUME GateInv, TlsTop, TlsPrev, SpawnFirst, CallbackReturn
    PROVE  TlsTop' /\ TlsPrev' /\ SpawnFirst'
  <1> DEFINE L == Len(frames)
  <1>1. /\ TypeOK /\ L \in Nat /\ L \in 1..L /\ frames[L].kind = "callback"
    BY TopLemma DEF GateInv, CallbackReturn, InCallback
  <1>2. L > 1 /\ frames[L - 1].kind = "call" /\ frames[L - 1].sb = frames[L].sb
    BY <1>1 DEF GateInv, ShapeInv, ShapeAt
  <1>3. frames' = SubSeq(frames, 1, L - 1) /\ nacl_current_thread' = nacl_current_thread
    BY DEF CallbackReturn
  <1>4. nacl_current_thread = frames[L].sb
    <2>1. InnermostBelow(L, Len(frames) + 1)
      BY <1>1 DEF InnermostBelow
    <2>2. QED
      BY <1>1, <2>1 DEF TlsTop
  <1>5. L = Len(frames) /\ L > 0
    BY <1>1
  <1>6. frames \in Seq(Frame)
    BY <1>1 DEF TypeOK
  <1> HIDE DEF L
  <1>7. Len(frames') = L - 1 /\ \A i \in 1..(L - 1) : frames'[i] = frames[i]
    BY <1>1, <1>3, <1>5, <1>6, PopLemma
  <1>8. TlsPrev' /\ SpawnFirst'
    BY <1>1, <1>5, <1>7, TlsPop
  <1>9. ASSUME NEW i \in 1..(L - 1), InnermostBelow(i, Len(frames) + 1)'
        PROVE  nacl_current_thread' = frames'[i].sb
    <2>1. L - 1 \in 1..(L - 1) /\ frames'[L - 1] = frames[L - 1]
      BY <1>1, <1>2, <1>7
    <2>2. ~(i < L - 1)
      BY <1>1, <1>2, <1>7, <1>9, <2>1 DEF InnermostBelow
    <2>3. i = L - 1
      BY <1>1, <2>2
    <2>4. QED
      BY <1>2, <1>3, <1>4, <2>1, <2>3
  <1>10. QED
    BY <1>7, <1>8, <1>9 DEF TlsTop

(* A callback leaves the TLS variable as it is.                            *)
LEMMA TlsCallback ==
    ASSUME GateInv, TlsTop, TlsPrev, SpawnFirst, SysCallback
    PROVE  TlsTop' /\ TlsPrev' /\ SpawnFirst'
  <1> DEFINE L == Len(frames)
             s == nacl_current_thread
             e(r) == [kind |-> "callback", sb |-> s,
                      host |-> trusted_stack_ptr[s] + 1,
                      base |-> r, entry |-> r, restore |-> r,
                      prev |-> NoThread]
  <1>1. TypeOK /\ L \in Nat /\ s \in Sandboxes /\ s' = s
    BY TopLemma DEF GateInv, SysCallback, SyscallEntry
  <1>2. PICK r \in 0..StackLimit : frames' = Append(frames, e(r))
    BY DEF SysCallback
  <1>3. e(r) \in Frame
    BY <1>1, CallGateAssumption DEF Frame, TypeOK
  <1>4. /\ Len(frames') = L + 1 /\ \A i \in 1..L : frames'[i] = frames[i]
        /\ frames'[L + 1] = e(r)
    BY <1>1, <1>2, <1>3, PushLemma DEF TypeOK
  <1>5. frames'[L + 1].kind = "callback" /\ frames'[L + 1].sb = nacl_current_thread'
    BY <1>1, <1>4
  <1> HIDE DEF L, s, e
  <1>6. TlsPrev' /\ SpawnFirst'
    BY <1>1, <1>4, <1>5, TlsPush DEF L
  <1>7. ASSUME NEW i \in 1..(L + 1), InnermostBelow(i, Len(frames) + 1)'
        PROVE  nacl_current_thread' = frames'[i].sb
    <2>1. ~(i < L + 1)
      BY <1>1, <1>4, <1>5, <1>7 DEF InnermostBelow
    <2>2. i = L + 1
      BY <1>1, <2>1
    <2>3. QED
      BY <1>5, <2>2
  <1>8. QED
    BY <1>4, <1>6, <1>7 DEF TlsTop

(* Leaving a sandbox puts back the TLS variable of the code below.         *)
LEMMA TlsExit ==
    ASSUME GateInv, TlsTop, TlsPrev, SpawnFirst, SysExitSandbox
    PROVE  TlsTop' /\ TlsPrev' /\ SpawnFirst'
  <1> DEFINE L == Len(frames)
             s == nacl_current_thread
             n == Len(jumpBufferStack[s])
  <1>1. /\ jumpBufferStack[s][n] = L /\ L > 0
        /\ Top.kind \in {"call", "spawn"} /\ TypeOK
    BY ExitLemma DEF SysExitSandbox, GateInv
  <1>2. L \in Nat /\ L \in 1..L /\ L = Len(frames) /\ frames \in Seq(Frame)
    BY <1>1, TopLemma DEF TypeOK
  <1>3. /\ frames' = SubSeq(frames, 1, L - 1)
        /\ frames[L].kind = "call" => nacl_current_thread' = frames[L].prev
        /\ frames[L].kind \in {"call", "spawn"}
    BY <1>1 DEF SysExitSandbox, ReturnTo
  <1> HIDE DEF L, s, n
  <1>4. Len(frames') = L - 1 /\ \A i \in 1..(L - 1) : frames'[i] = frames[i]
    BY <1>1, <1>2, <1>3, PopLemma
  <1>5. TlsPrev' /\ SpawnFirst'
    BY <1>1, <1>2, <1>4, TlsPop
  <1>6. ASSUME NEW i \in 1..(L - 1), InnermostBelow(i, Len(frames) + 1)'
        PROVE  nacl_current_thread' = frames'[i].sb
    <2>1. i \in 1..L /\ i < L /\ L # 1 /\ frames'[i] = frames[i]
      BY <1>2, <1>4
    <2>2. frames[L].kind = "call"
      BY <1>2, <1>3, <2>1 DEF SpawnFirst
    <2>3. ASSUME NEW j \in 1..L, i < j, j < L
          PROVE  frames[j].kind = "pre"
      <3>1. j \in 1..(L - 1) /\ frames'[j] = frames[j]
        BY <1>2, <1>4, <2>3
      <3>2. QED
        BY <1>2, <1>4, <1>6, <2>3, <3>1 DEF InnermostBelow
    <2>4. InnermostBelow(i, L)
      BY <1>2, <1>6, <2>1, <2>3 DEF InnermostBelow
    <2>5. TlsPrevAt(i, L)
      BY <1>2, <2>1 DEF TlsPrev
    <2>6. QED
      BY <1>3, <2>1, <2>2, <2>4, <2>5 DEF TlsPrevAt
  <1>7. QED
    BY <1>4, <1>5, <1>6 DEF TlsTop

(* Every step preserves TlsInv.                                            *)
LEMMA TlsNext ==
    ASSUME FirstEntryInCallback = FALSE
    PROVE  GateInv /\ TlsInv /\ [Next]_vars => TlsInv'
  <1> SUFFICES ASSUME GateInv, TlsInv, [Next]_vars
               PROVE  TlsInv'
    OBVIOUS
  <1>0. TlsTop /\ TlsPrev /\ SpawnFirst /\ NoUnexpectedAbort
    BY DEF TlsInv, TlsTop, TlsPrev, TlsPrevAt, SpawnFirst
  <1>1. CASE \E s \in Sandboxes : SpawnOnCurrThread(s)
    BY <1>0, <1>1, TlsSpawn
       DEF TlsInv, TlsTop, TlsPrev, TlsPrevAt, SpawnFirst, NoUnexpectedAbort,
           SpawnOnCurrThread
  <1>2. CASE \E s \in Sandboxes : PreFunctionCall(s)
    BY <1>0, <1>2, TlsPre
       DEF TlsInv, TlsTop, TlsPrev, TlsPrevAt, SpawnFirst, NoUnexpectedAbort,
           PreFunctionCall
  <1>3. CASE InvokeFunctionCall
    BY <1>0, <1>3, TlsInvoke
       DEF TlsInv, TlsTop, TlsPrev, TlsPrevAt, SpawnFirst, NoUnexpectedAbort,
           InvokeFunctionCall
  <1>4. CASE CallbackReturn
    BY <1>0, <1>4, TlsCallbackReturn
       DEF TlsInv, TlsTop, TlsPrev, TlsPrevAt, SpawnFirst, NoUnexpectedAbort,
           CallbackReturn
  <1>5. CASE SysCallback
    BY <1>0, <1>5, TlsCallback
       DEF TlsInv, TlsTop, TlsPrev, TlsPrevAt, SpawnFirst, NoUnexpectedAbort,
           SysCallback
  <1>6. CASE SysExitSandbox
    BY <1>0, <1>6, TlsExit
       DEF TlsInv, TlsTop, TlsPrev, TlsPrevAt, SpawnFirst, NoUnexpectedAbort,
           SysExitSandbox
  <1>7. CASE \/ \E s \in Sandboxes : DestroyDlSandbox(s)
             \/ OtherSyscall \/ UnexpectedSuspendState \/ NoJumpBuffer
             \/ Aborted \/ UNCHANGED vars
    <2>1. frames' = frames /\ nacl_current_thread' = nacl_current_thread
      BY <1>7 DEF DestroyDlSandbox, OtherSyscall, UnexpectedSuspendState,
                  NoJumpBuffer, Abort, Aborted, vars
    <2>2. fatal' \in {fatal, "push"}
      BY <1>7, NoAbort
         DEF DestroyDlSandbox, OtherSyscall, UnexpectedSuspendState,
             NoJumpBuffer, Abort, Aborted, vars
    <2>3. QED
      BY <2>1, <2>2 DEF TlsInv, InnermostBelow, NoUnexpectedAbort
  <1>8. QED
    BY <1>1, <1>2, <1>3, <1>4, <1>5, <1>6, <1>7 DEF Next

(* A sandbox that is never entered first inside a callback always runs on  *)
(* its own thread, and the call gate aborts only when the nesting exceeds  *)
(* STACK_ARR_SIZE.                                                         *)
THEOREM TlsCorrect ==
    ASSUME FirstEntryInCallback = FALSE
    PROVE  Spec => [](SandboxRunsOnItsThread /\ NoUnexpectedAbort)
  <1>1. Init => TlsInv
    <2> SUFFICES ASSUME Init
                 PROVE  TlsInv
      OBVIOUS
    <2>1. frames = << >> /\ << >> \in Seq(Frame)
      BY EmptySeq DEF Init
    <2>2. Len(frames) = 0
      BY <2>1, EmptyLemma
    <2>3. QED
      BY <2>2 DEF TlsInv, NoUnexpectedAbort, Init
  <1>2. GateInv /\ TlsInv /\ [Next]_vars => TlsInv'
    BY TlsNext
  <1>3. GateInv /\ TlsInv => SandboxRunsOnItsThread /\ NoUnexpectedAbort
    BY NoAbort DEF SandboxRunsOnItsThread, TlsInv
  <1>4. QED
    BY <1>1, <1>2, <1>3, GateInvariant, PTL DEF Spec

(* The aborts of preFunctionCall and of the callback cannot be met by a    *)
(* host that enters each sandbox outside callbacks first, but for the one  *)
(* on calls nested deeper than STACK_ARR_SIZE.                             *)
THEOREM OnlyNestingAborts ==
    ASSUME FirstEntryInCallback = FALSE
    PROVE  Spec => []NoUnexpectedAbort
  BY TlsCorrect, PTL

-----------------------------------------------------------------------------
(***************************************************************************)
(* Sandbox stack accounting.  If no call is made while another one is      *)
(* being prepared, saved_stack_ptr_forFunctionCall survives until          *)
(* invokeFunctionCall copies it, and every call gives its stack back.      *)
(***************************************************************************)

(* The parts of BalanceInv that speak of single frames.                    *)
FrameBalance == \A i \in 1..Len(frames) : PreparedAt(i) /\ OutermostAt(i)

(* Popping a frame keeps the frame balance.                                *)
LEMMA BalancePop ==
    ASSUME FrameBalance,
           NEW L \in Nat, L = Len(frames), L > 0, Len(frames') = L - 1,
           \A i \in 1..(L - 1) : frames'[i] = frames[i],
           saved_stack_ptr' = saved_stack_ptr
    PROVE  FrameBalance'
  <1> SUFFICES ASSUME NEW i \in 1..(L - 1)
               PROVE  PreparedAt(i)' /\ OutermostAt(i)'
    BY DEF FrameBalance
  <1>1. /\ i \in 1..L /\ PreparedAt(i) /\ OutermostAt(i)
        /\ frames'[i] = frames[i]
        /\ i < L - 1 => frames'[i + 1] = frames[i + 1]
    BY DEF FrameBalance
  <1>2. PreparedAt(i)'
    BY <1>1 DEF PreparedAt
  <1>3. OutermostAt(i)'
    BY <1>1 DEF OutermostAt
  <1>4. QED
    BY <1>2, <1>3

(* Pushing a frame keeps the frame balance if no prepared call loses its   *)
(* saved stack pointer and the new frame is balanced itself.               *)
LEMMA BalancePush ==
    ASSUME FrameBalance,
           NEW L \in Nat, L = Len(frames), Len(frames') = L + 1,
           \A i \in 1..L : frames'[i] = frames[i],
           \A i \in 1..L : frames[i].kind = "pre" =>
             /\ saved_stack_ptr' = saved_stack_ptr
             /\ i = L => frames'[L + 1].kind = "spawn",
           frames'[L + 1].kind = "pre" =>
             frames'[L + 1].restore = saved_stack_ptr'[frames'[L + 1].sb],
           (\A j \in 1..L : frames[j].sb # frames'[L + 1].sb)
             => frames'[L + 1].restore = 0
    PROVE  FrameBalance'
  <1> SUFFICES ASSUME NEW i \in 1..(L + 1)
               PROVE  PreparedAt(i)' /\ OutermostAt(i)'
    BY DEF FrameBalance
  <1>1. CASE i = L + 1
    <2>1. PreparedAt(i)'
      BY <1>1 DEF PreparedAt
    <2>2. OutermostAt(i)'
      BY <1>1 DEF OutermostAt
    <2>3. QED
      BY <2>1, <2>2
  <1>2. CASE i \in 1..L
    <2>1. /\ PreparedAt(i) /\ OutermostAt(i)
          /\ frames'[i] = frames[i]
          /\ i < L => frames'[i + 1] = frames[i + 1]
      BY <1>2 DEF FrameBalance
    <2>2. i = L \/ i < L
      BY <1>2
    <2>3. PreparedAt(i)'
      BY <1>2, <2>1, <2>2 DEF PreparedAt
    <2>4. OutermostAt(i)'
      BY <1>2, <2>1 DEF OutermostAt
    <2>5. QED
      BY <2>3, <2>4
  <1>3. QED
    BY <1>1, <1>2

(* A thread creation restores the base of the stack.                       *)
LEMMA BalanceSpawn ==
    ASSUME GateInv, FrameBalance, StackBalanced,
           NEW s \in Sandboxes, SpawnOnCurrThread(s)
    PROVE  FrameBalance' /\ StackBalanced'
  <1> DEFINE L == Len(frames)
             e == [kind |-> "spawn", sb |-> s, host |-> HostSp, base |-> 0,
                   entry |-> 0, restore |-> 0, prev |-> NoThread]
  <1>1. TypeOK /\ HostSp \in Nat /\ L \in Nat
    BY TopLemma DEF GateInv
  <1>2. e \in Frame
    BY <1>1, CallGateAssumption DEF Frame
  <1>3. /\ frames' = Append(frames, e) /\ frames \in Seq(Frame)
        /\ saved_stack_ptr' = saved_stack_ptr /\ registered' = registered
        /\ ~registered[s] /\ \A t \in Sandboxes \ {s} : rsp'[t] = rsp[t]
    BY <1>1 DEF SpawnOnCurrThread, TypeOK
  <1>4. /\ Len(frames') = L + 1 /\ \A i \in 1..L : frames'[i] = frames[i]
        /\ frames'[L + 1] = e
    BY <1>2, <1>3, PushLemma
  <1>5. /\ frames'[L + 1].kind = "spawn" /\ frames'[L + 1].restore = 0
        /\ frames'[L + 1].sb = s
    BY <1>4
  <1> HIDE DEF L, e
  <1>6. FrameBalance'
    BY <1>1, <1>3, <1>4, <1>5, BalancePush DEF L
  <1>7. StackBalanced'
    <2> SUFFICES ASSUME NEW t \in Sandboxes, registered'[t],
                        \A i \in 1..(L + 1) : frames'[i].sb # t
                 PROVE  rsp'[t] = 0
      BY <1>4 DEF StackBalanced
    <2>1. t # s /\ \A i \in 1..L : frames[i].sb # t
      BY <1>1, <1>3, <1>4
    <2>2. QED
      BY <1>3, <2>1 DEF StackBalanced, L
  <1>8. QED
    BY <1>6, <1>7

(* preFunctionCall saves the base of the stack in the outermost call, and  *)
(* clobbers no saved stack pointer because no call is prepared.            *)
LEMMA BalancePre ==
    ASSUME GateInv, FrameBalance, StackBalanced, NestedMarshalling = FALSE,
           NEW s \in Sandboxes, PreFunctionCall(s)
    PROVE  FrameBalance' /\ StackBalanced'
  <1> DEFINE L == Len(frames)
  <1>1. /\ TypeOK /\ HostSp \in Nat /\ L \in Nat /\ ShapeInv
        /\ IsEmpty <=> L = 0
    BY TopLemma DEF GateInv
  <1>2. PICK area \in CallAreas :
          /\ rsp' = [rsp EXCEPT ![s] = @ + area]
          /\ saved_stack_ptr' = [saved_stack_ptr EXCEPT ![s] = rsp[s]]
          /\ frames' = Append(frames,
                      [kind |-> "pre", sb |-> s, host |-> HostSp,
                       base |-> rsp[s], entry |-> rsp[s] + area,
                       restore |-> rsp[s], prev |-> NoThread])
    BY DEF PreFunctionCall
  <1> DEFINE e == [kind |-> "pre", sb |-> s, host |-> HostSp,
                   base |-> rsp[s], entry |-> rsp[s] + area,
                   restore |-> rsp[s], prev |-> NoThread]
  <1>3. e \in Frame
    <2>1. rsp[s] \in Nat /\ area \in Nat
      BY <1>1, CallGateAssumption DEF TypeOK
    <2>2. QED
      BY <1>1, <2>1 DEF Frame
  <1>4. /\ Len(frames') = L + 1 /\ \A i \in 1..L : frames'[i] = frames[i]
        /\ frames'[L + 1] = e
    BY <1>1, <1>2, <1>3, PushLemma DEF TypeOK
  <1>5. /\ frames'[L + 1].kind = "pre" /\ frames'[L + 1].sb = s
        /\ frames'[L + 1].restore = rsp[s] /\ saved_stack_ptr'[s] = rsp[s]
        /\ registered' = registered /\ registered[s]
        /\ \A t \in Sandboxes \ {s} : rsp'[t] = rsp[t]
    BY <1>1, <1>2, <1>4 DEF PreFunctionCall, TypeOK
  <1>6. \A i \in 1..L : frames[i].kind # "pre"
    <2> SUFFICES ASSUME NEW i \in 1..L, frames[i].kind = "pre"
                 PROVE  FALSE
      OBVIOUS
    <2>1. frames[L].kind = "callback" /\ L \in 1..L
      BY <1>1 DEF PreFunctionCall, InHost, Prepared, InCallback
    <2>2. i < L /\ i + 1 \in 1..L
      BY <1>1, <2>1
    <2>3. frames[i + 1].kind = "spawn" /\ ShapeAt(i + 1)
      BY <1>1, <2>2 DEF FrameBalance, PreparedAt, ShapeInv
    <2>4. i + 1 # L
      BY <2>1, <2>3
    <2>5. QED
      BY <1>1, <2>2, <2>3, <2>4 DEF ShapeAt
  <1>7. (\A j \in 1..L : frames[j].sb # s) => rsp[s] = 0
    BY <1>5 DEF StackBalanced
  <1> HIDE DEF L, e
  <1>8. FrameBalance'
    <2>1. (\A j \in 1..L : frames[j].sb # frames'[L + 1].sb)
            => frames'[L + 1].restore = 0
      BY <1>5, <1>7
    <2>2. frames'[L + 1].restore = saved_stack_ptr'[frames'[L + 1].sb]
      BY <1>5
    <2>3. QED
      BY <1>1, <1>4, <1>6, <2>1, <2>2, BalancePush DEF L
  <1>9. StackBalanced'
    <2> SUFFICES ASSUME NEW t \in Sandboxes, registered'[t],
                        \A i \in 1..(L + 1) : frames'[i].sb # t
                 PROVE  rsp'[t] = 0
      BY <1>4 DEF StackBalanced
    <2>1. t # s /\ \A i \in 1..L : frames[i].sb # t
      BY <1>1, <1>4, <1>5
    <2>2. QED
      BY <1>5, <2>1 DEF StackBalanced, L
  <1>10. QED
    BY <1>8, <1>9

(* invokeFunctionCall copies the stack pointer its own preFunctionCall     *)
(* saved.                                                                  *)
LEMMA BalanceInvoke ==
    ASSUME GateInv, FrameBalance, StackBalanced, InvokeFunctionCall
    PROVE  FrameBalance' /\ StackBalanced'
  <1> DEFINE L == Len(frames)
             s == Top.sb
             e == [kind |-> "call", sb |-> s, host |-> Top.host,
                   base |-> Top.base, entry |-> rsp[s],
                   restore |-> saved_stack_ptr[s],
                   prev |-> nacl_current_thread]
  <1>1. /\ TypeOK /\ L \in Nat /\ L \in 1..L /\ L > 0 /\ Top.kind = "pre"
        /\ s \in Sandboxes /\ Top.host \in Nat /\ Top.base \in Nat
    BY TopLemma DEF GateInv, InvokeFunctionCall, Prepared, Frame
  <1>2. e \in Frame
    BY <1>1 DEF Frame, TypeOK
  <1>3. /\ frames' = [frames EXCEPT ![L] = e] /\ saved_stack_ptr' = saved_stack_ptr
        /\ rsp' = rsp /\ registered' = registered
    BY DEF InvokeFunctionCall
  <1>4. /\ Len(frames') = L /\ frames'[L] = e
        /\ \A i \in 1..L : i # L => frames'[i] = frames[i]
    <2> HIDE DEF e
    <2>1. QED
      BY <1>1, <1>2, <1>3, ReplaceLemma DEF TypeOK
  <1>5. saved_stack_ptr[s] = frames[L].restore /\ frames[L].kind = "pre"
    BY <1>1 DEF FrameBalance, PreparedAt
  <1>6. /\ frames'[L].kind = "call" /\ frames'[L].sb = frames[L].sb
        /\ frames'[L].restore = frames[L].restore
    BY <1>4, <1>5
  <1> HIDE DEF L, s, e
  <1>7. \A i \in 1..L :
          /\ frames'[i].sb = frames[i].sb
          /\ frames'[i].restore = frames[i].restore
          /\ frames'[i].kind = "pre" => i < L /\ frames[i].kind = "pre"
    BY <1>1, <1>4, <1>6
  <1>8. ASSUME NEW i \in 1..L
        PROVE  PreparedAt(i)' /\ OutermostAt(i)'
    <2>1. PreparedAt(i) /\ OutermostAt(i)
      BY DEF FrameBalance, L
    <2>2. OutermostAt(i)'
      <3> SUFFICES ASSUME \A j \in 1..L : j < i => frames'[j].sb # frames'[i].sb
                   PROVE  frames'[i].restore = 0
        BY <1>4 DEF OutermostAt
      <3>1. \A j \in 1..L : j < i => frames[j].sb # frames[i].sb
        BY <1>1, <1>7
      <3>2. QED
        BY <1>1, <1>7, <2>1, <3>1 DEF OutermostAt, L
    <2>3. PreparedAt(i)'
      <3> SUFFICES ASSUME frames'[i].kind = "pre"
                   PROVE  PreparedAt(i)'
        BY DEF PreparedAt
      <3>1. i < L /\ frames[i].kind = "pre" /\ frames[i + 1].kind = "spawn"
        <4>1. i < L /\ frames[i].kind = "pre"
          BY <1>1, <1>7
        <4>2. QED
          BY <2>1, <4>1 DEF PreparedAt, L
      <3>2. i + 1 \in 1..L /\ i + 1 # L
        BY <1>1, <1>5, <3>1
      <3>3. frames'[i + 1] = frames[i + 1] /\ frames'[i] = frames[i]
        BY <1>4, <3>1, <3>2
      <3>4. QED
        BY <1>3, <2>1, <3>1, <3>3 DEF PreparedAt
    <2>4. QED
      BY <2>2, <2>3
  <1>9. StackBalanced'
    <2> SUFFICES ASSUME NEW t \in Sandboxes, registered'[t],
                        \A i \in 1..L : frames'[i].sb # t
                 PROVE  rsp'[t] = 0
      BY <1>4 DEF StackBalanced
    <2>1. \A i \in 1..L : frames[i].sb # t
      BY <1>1, <1>7
    <2>2. QED
      BY <1>3, <2>1 DEF StackBalanced, L
  <1>10. QED
    BY <1>4, <1>8, <1>9 DEF FrameBalance

(* A callback always has an older frame of its sandbox.                    *)
LEMMA BalanceCallback ==
    ASSUME GateInv, FrameBalance, StackBalanced, SysCallback
    PROVE  FrameBalance' /\ StackBalanced'
  <1> DEFINE L == Len(frames)
             s == nacl_current_thread
             e(r) == [kind |-> "callback", sb |-> s,
                      host |-> trusted_stack_ptr[s] + 1,
                      base |-> r, entry |-> r, restore |-> r,
                      prev |-> NoThread]
  <1>1. /\ TypeOK /\ L \in Nat /\ s \in Sandboxes /\ InSandbox /\ Top.sb = s
        /\ Top.kind = "call"
    BY TopLemma DEF GateInv, SysCallback, SyscallEntry, SuspendInv
  <1>2. L \in 1..L
    BY <1>1, TopLemma DEF InSandbox
  <1>3. PICK r \in 0..StackLimit : /\ frames' = Append(frames, e(r))
                                   /\ rsp' = [rsp EXCEPT ![s] = r]
    BY DEF SysCallback
  <1>4. e(r) \in Frame
    <2>1. r \in Nat /\ trusted_stack_ptr[s] + 1 \in Nat
      BY <1>1, CallGateAssumption DEF TypeOK
    <2>2. QED
      BY <1>1, <2>1 DEF Frame
  <1>5. /\ Len(frames') = L + 1 /\ \A i \in 1..L : frames'[i] = frames[i]
        /\ frames'[L + 1] = e(r)
    BY <1>1, <1>3, <1>4, PushLemma DEF TypeOK
  <1>6. /\ frames'[L + 1].kind = "callback" /\ frames'[L + 1].sb = s
        /\ registered' = registered /\ saved_stack_ptr' = saved_stack_ptr
        /\ \A t \in Sandboxes \ {s} : rsp'[t] = rsp[t]
        /\ frames[L].kind = "call" /\ frames[L].sb = s
    BY <1>1, <1>3, <1>5 DEF SysCallback, TypeOK
  <1> HIDE DEF L, s, e
  <1>7. FrameBalance'
    BY <1>1, <1>2, <1>5, <1>6, BalancePush DEF L
  <1>8. StackBalanced'
    <2> SUFFICES ASSUME NEW t \in Sandboxes, registered'[t],
                        \A i \in 1..(L + 1) : frames'[i].sb # t
                 PROVE  rsp'[t] = 0
      BY <1>5 DEF StackBalanced
    <2>1. t # s /\ \A i \in 1..L : frames[i].sb # t
      BY <1>1, <1>5, <1>6
    <2>2. QED
      BY <1>6, <2>1 DEF StackBalanced, L
  <1>9. QED
    BY <1>7, <1>8

(* The caller of a callback still has its frame when the callback returns. *)
LEMMA BalanceCallbackReturn ==
    ASSUME GateInv, FrameBalance, StackBalanced, CallbackReturn
    PROVE  FrameBalance' /\ StackBalanced'
  <1> DEFINE L == Len(frames)
             s == Top.sb
  <1>1. /\ TypeOK /\ L \in Nat /\ L \in 1..L /\ frames[L].kind = "callback"
        /\ s \in Sandboxes /\ L = Len(frames) /\ L > 0 /\ frames[L].sb = s
    BY TopLemma DEF GateInv, CallbackReturn, InCallback, Frame
  <1>2. L > 1 /\ frames[L - 1].sb = s
    BY <1>1 DEF GateInv, ShapeInv, ShapeAt
  <1>3. /\ frames' = SubSeq(frames, 1, L - 1) /\ frames \in Seq(Frame)
        /\ saved_stack_ptr' = saved_stack_ptr /\ registered' = registered
        /\ \A t \in Sandboxes \ {s} : rsp'[t] = rsp[t]
    BY <1>1 DEF CallbackReturn, TypeOK
  <1> HIDE DEF L, s
  <1>4. Len(frames') = L - 1 /\ \A i \in 1..(L - 1) : frames'[i] = frames[i]
    BY <1>1, <1>3, PopLemma
  <1>5. FrameBalance'
    BY <1>1, <1>3, <1>4, BalancePop
  <1>6. StackBalanced'
    <2> SUFFICES ASSUME NEW t \in Sandboxes, registered'[t],
                        \A i \in 1..(L - 1) : frames'[i].sb # t
                 PROVE  rsp'[t] = 0
      BY <1>4 DEF StackBalanced
    <2>1. t # s
      BY <1>1, <1>2, <1>4
    <2>2. \A i \in 1..L : frames[i].sb # t
      BY <1>1, <1>4, <2>1
    <2>3. QED
      BY <1>1, <1>3, <2>1, <2>2 DEF StackBalanced
  <1>7. QED
    BY <1>5, <1>6

(* The outermost call of a sandbox gives all of its stack back.            *)
LEMMA BalanceExit ==
    ASSUME GateInv, FrameBalance, StackBalanced, SysExitSandbox
    PROVE  FrameBalance' /\ StackBalanced'
  <1> DEFINE L == Len(frames)
             s == nacl_current_thread
             n == Len(jumpBufferStack[s])
  <1>1. /\ jumpBufferStack[s][n] = L /\ L > 0 /\ TypeOK
        /\ Top.kind \in {"call", "spawn"} /\ s \in Sandboxes /\ Top.sb = s
    BY ExitLemma DEF SysExitSandbox, GateInv
  <1>2. L \in Nat /\ L \in 1..L /\ L = Len(frames) /\ frames \in Seq(Frame)
    BY <1>1, TopLemma DEF TypeOK
  <1>3. /\ frames' = SubSeq(frames, 1, L - 1)
        /\ saved_stack_ptr' = saved_stack_ptr
        /\ rsp'[s] = frames[L].restore /\ frames[L].sb = s
        /\ \A t \in Sandboxes \ {s} : rsp'[t] = rsp[t]
        /\ \A t \in Sandboxes \ {s} : registered'[t] = registered[t]
    BY <1>1 DEF SysExitSandbox, ReturnTo, TypeOK
  <1> HIDE DEF L, s, n
  <1>4. Len(frames') = L - 1 /\ \A i \in 1..(L - 1) : frames'[i] = frames[i]
    BY <1>1, <1>2, <1>3, PopLemma
  <1>5. FrameBalance'
    BY <1>1, <1>2, <1>3, <1>4, BalancePop
  <1>6. StackBalanced'
    <2> SUFFICES ASSUME NEW t \in Sandboxes, registered'[t],
                        \A i \in 1..(L - 1) : frames'[i].sb # t
                 PROVE  rsp'[t] = 0
      BY <1>4 DEF StackBalanced
    <2>1. \A i \in 1..L : i < L => i \in 1..(L - 1) /\ frames[i].sb # t
      BY <1>2, <1>4
    <2>2. CASE t = s
      <3>1. OutermostAt(L)
        BY <1>2 DEF FrameBalance
      <3>2. frames[L].restore = 0
        BY <1>2, <1>3, <2>1, <2>2, <3>1 DEF OutermostAt
      <3>3. QED
        BY <1>3, <2>2, <3>2
    <2>3. CASE t # s
      <3>1. \A i \in 1..L : frames[i].sb # t
        BY <1>2, <1>3, <2>1, <2>3
      <3>2. registered[t] /\ rsp'[t] = rsp[t]
        BY <1>3, <2>3
      <3>3. QED
        BY <1>2, <3>1, <3>2 DEF StackBalanced
    <2>4. QED
      BY <2>2, <2>3
  <1>7. QED
    BY <1>5, <1>6

(* Every step preserves BalanceInv.                                        *)
LEMMA BalanceNext ==
    ASSUME NestedMarshalling = FALSE
    PROVE  GateInv /\ BalanceInv /\ [Next]_vars => BalanceInv'
  <1> SUFFICES ASSUME GateInv, BalanceInv, [Next]_vars
               PROVE  FrameBalance' /\ StackBalanced'
    BY DEF BalanceInv, FrameBalance
  <1>0. FrameBalance /\ StackBalanced
    BY DEF BalanceInv, FrameBalance
  <1>1. CASE \E s \in Sandboxes : SpawnOnCurrThread(s)
    BY <1>0, <1>1, BalanceSpawn
  <1>2. CASE \E s \in Sandboxes : PreFunctionCall(s)
    BY <1>0, <1>2, BalancePre
  <1>3. CASE InvokeFunctionCall
    BY <1>0, <1>3, BalanceInvoke
  <1>4. CASE CallbackReturn
    BY <1>0, <1>4, BalanceCallbackReturn
  <1>5. CASE SysCallback
    BY <1>0, <1>5, BalanceCallback
  <1>6. CASE SysExitSandbox
    BY <1>0, <1>6, BalanceExit
  <1>7. ASSUME NEW s \in Sandboxes, DestroyDlSandbox(s)
        PROVE  FrameBalance' /\ StackBalanced'
    <2>1. /\ frames' = frames /\ saved_stack_ptr' = saved_stack_ptr
          /\ rsp'[s] = 0
          /\ \A t \in Sandboxes \ {s} : rsp'[t] = rsp[t]
          /\ \A t \in Sandboxes \ {s} : registered'[t] = registered[t]
      BY <1>7 DEF DestroyDlSandbox, GateInv, TypeOK
    <2>2. FrameBalance'
      BY <1>0, <2>1 DEF FrameBalance, PreparedAt, OutermostAt
    <2>3. QED
      BY <1>0, <2>1, <2>2 DEF StackBalanced
  <1>8. CASE OtherSyscall
    <2> DEFINE s == nacl_current_thread
    <2>1. s \in Sandboxes /\ InSandbox /\ Top.sb = s
      BY <1>8 DEF OtherSyscall, SyscallEntry, SuspendInv, GateInv
    <2>2. Len(frames) \in 1..Len(frames)
      BY <2>1, TopLemma DEF InSandbox, GateInv
    <2>3. /\ frames' = frames /\ saved_stack_ptr' = saved_stack_ptr
          /\ registered' = registered
          /\ \A t \in Sandboxes \ {s} : rsp'[t] = rsp[t]
      BY <1>8, <2>1 DEF OtherSyscall, GateInv, TypeOK
    <2>4. FrameBalance'
      BY <1>0, <2>3 DEF FrameBalance, PreparedAt, OutermostAt
    <2>5. QED
      BY <1>0, <2>1, <2>2, <2>3, <2>4 DEF StackBalanced
  <1>9. CASE UnexpectedSuspendState \/ NoJumpBuffer \/ Aborted \/ UNCHANGED vars
    <2>1. /\ frames' = frames /\ saved_stack_ptr' = saved_stack_ptr
          /\ rsp' = rsp /\ registered' = registered
      BY <1>9 DEF UnexpectedSuspendState, NoJumpBuffer, Abort, Aborted, vars
    <2>2. QED
      BY <1>0, <2>1 DEF FrameBalance, PreparedAt, OutermostAt, StackBalanced
  <1>10. QED
    BY <1>1, <1>2, <1>3, <1>4, <1>5, <1>6, <1>7, <1>8, <1>9 DEF Next

(* A host that does not call into a sandbox while it marshals another call *)
(* never leaks sandbox stack.                                              *)
THEOREM StackAlwaysBalanced ==
    ASSUME NestedMarshalling = FALSE
    PROVE  Spec => []StackBalanced
  <1>1. Init => BalanceInv
    <2> SUFFICES ASSUME Init
                 PROVE  BalanceInv
      OBVIOUS
    <2>1. frames = << >> /\ << >> \in Seq(Frame)
      BY EmptySeq DEF Init
    <2>2. Len(frames) = 0
      BY <2>1, EmptyLemma
    <2>3. QED
      BY <2>2 DEF BalanceInv, StackBalanced, Init
  <1>2. GateInv /\ BalanceInv /\ [Next]_vars => BalanceInv'
    BY BalanceNext
  <1>3. BalanceInv => StackBalanced
    BY DEF BalanceInv
  <1>4. QED
    BY <1>1, <1>2, <1>3, GateInvariant, PTL DEF Spec

=============================================================================
