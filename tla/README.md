# Verification of the NaCl library sandbox

This directory holds a TLA+ development for Sandboxing_NaCl, a modification of
Native Client that lets a host program run a library inside a sandbox in its own
process and on its own threads.  Paths below are relative to
`native_client/src/trusted/`, except `untrusted/...`, which is next to it.
`PROJECT.json` lists components, runs, mutants, the map from definitions to source
lines, findings, hazards and theorems.

## 1. The system

### Parts, state and operations

| part | source | state | operations |
|---|---|---|---|
| call gate | `dyn_ldr/dyn_ldr_lib.c`, `service_runtime/nacl_syscall_common.c`, `arch/x86_64/*` | TLS variable `nacl_current_thread`; per context (`NaClAppThread`): `suspend_state`, `jumpBufferStack`, `user.rsp`, `user.trusted_stack_ptr`; per thread data: `saved_stack_ptr_forFunctionCall` | `preFunctionCall`, `invokeFunctionCall`, `NaClSysExitSandbox`, `NaClSysCallback`, first entry |
| per-thread contexts | `getThreadData`, `constructNaClSandboxThread`, `ds_map.h`, `nacl_app_thread.c`, `sel_ldr.c` | `threadDataMap`, `nap->threads`, `threadCreateMutex`, `threads_mu` | look up, make, register, tear down |
| callback slots | `dyn_ldr_lib.c`, `nacl_sandbox.h`, `dyn_ldr_sandbox_init.c` | `callbackSlot`, `callbackSlotState` | find free, register, unregister, call |
| thread suspension | `service_runtime/linux/thread_suspension.c`, `thread_suspension_common.c` | `suspend_state` (a futex), `suspended_registers`, `fault_signal`, `faulted_thread_count` | cross the boundary, suspend, resume, fault, unblock |
| debug stub | `debug_stub/target.cc`, `session.cc`, `transport_common.cc` | `sig_thread_`, `all_threads_suspended_`, event pipe, socket, `buf_` | wait, process event, continue, step over; packets, acknowledgements, connections, exit report |
| memory | `service_runtime/sel_mem.c`, `sys_memory.c` | `mem_map`, the host's pages, `break_addr`, pending I/O | `mmap`, `munmap`, `mprotect`, `brk`, I/O on untrusted memory |
| dynamic code | `service_runtime/nacl_text.c` | `dynamic_regions`, generations, page bitmap, cached mapping, the code | create, modify, delete, map a file, thread start |
| descriptors | `sel_ldr.c`, `dyn_array.c`, `sys_fdio.c`, `sys_imc.c`, `nacl_refcount.c` | `desc_tbl`, reference counts | open, dup, dup2, close, use, send, receive, socketpair |
| futex calls | `service_runtime/sys_futex.c` | wait list, a condition variable per thread | wait, wake |
| pthread library | `untrusted/pthread/nc_*.c` | mutex, rwlock, condition variable, semaphore, thread-specific data, thread descriptors, stack cache | their POSIX functions |
| creation, destruction | `createDlSandbox`, `destroyDlSandbox` | everything above | create, destroy |
| marshalling | `nacl_sandbox.h`, `dyn_ldr_lib.h` macros | cursors of parameters | push, read parameters, convert pointers |
| rest of Native Client | loader, `desc`, `validator*` | | ELF loading, host I/O, validators |

### How they interact

The host calls `preFunctionCall`, marshals arguments onto the sandbox stack and
calls `invokeFunctionCall`, which exchanges `nacl_current_thread`, leaves the
trusted state, pushes a jump buffer and switches.  Sandboxed code comes back
only by system calls: the trampoline finds the context in `nacl_current_thread`,
stores `rsp` in it and continues on `trusted_stack_ptr`.  `exit_sandbox` pops a
jump buffer and `longjmp`s to it; `callback` calls a host function on top of the
interrupted code, and that function may call this or another sandbox.  The first
call on a thread makes a context (`getThreadData`) by running `threadMain` in the
sandbox.  The debug stub is a thread of its own; it shares `suspend_state` with
the host threads and stops them by signals.  Sandboxed code is linked with the
pthread library, whose objects sleep and wake by futex system calls, and it asks
the service runtime for memory, code, descriptors and threads; the runtime serves
several of its threads at once.

### What is hard

* nesting: calls, callbacks and sandboxes interleave as a stack, while part of
  the state is per thread (TLS), part per context and part per prepared call;
* shared words without locks: `suspend_state`, the callback slots, mutex state and
  owner, the semaphore's two words, key generations and destructors;
* faults that race with suspension, several faults at once, a request to suspend
  that meets the handler of the previous one;
* tables that are found, filled and read without one lock around all three
  (thread table, thread map, callback slots, descriptor numbers);
* code that is replaced while threads run it, memory that is remapped while system
  calls use it, objects freed by whichever of several threads comes last;
* timeouts that race with wake-ups, packets that are damaged and sent again,
  connections that break in the middle of a packet;
* failures halfway: `mmap`, `thread_create`, `sendmsg`, a full map;
* fixed limits (128 jump buffers, 128 threads, 8 slots, `SEM_VALUE_MAX`, generations)
  and rounding of page numbers.

The list with lines is `hazards` of `PROJECT.json`.

### What makes each part correct

* call gate: sandboxed code runs on the context of its own sandbox; `longjmp`
  reaches a live function; calls overwrite no live part of either stack; stacks
  are balanced; no sanity check fails.
* contexts: each host thread gets the context it made; the tables agree.
* callback slots: a slot has one owner; a callback gets the function and the state
  registered together.
* suspension: no untrusted code runs after a suspension; no bit and no wake-up is
  lost; the abstract stop/edit/continue interface; suspension, fault reports and
  resumption complete.
* session with GDB: at most once, the right answer, a clean start, an answer in the
  end.
* memory: map and host agree; text stays; free space is really free; memory under
  I/O is stable.
* dynamic code: no thread runs half-written or half-deleted code.
* descriptors: the POSIX number table; exact reference counts.
* pthread library: exclusion, exact counts, no lost wake-up, no use after free, no
  stale value.

## 2. Modules

### Call gate, contexts, suspension

`CallGate` models one host thread and any number of sandboxes on Linux x86-64.
`frames` is the control stack of the thread: calls prepared (`pre`), calls
entered (`call`), first entries (`spawn`) and callbacks.  Stack pointers are
distances from the base of their stack.  The other variables are the fields
listed above.  One action per operation:

| action | code |
|---|---|
| `SpawnOnCurrThread` | `getThreadData` (miss), `NaClAppThreadSpawnOnCurrThread`, `NaClAppThreadLauncher`, `NaClStartThreadInApp` |
| `PreFunctionCall` | `preFunctionCall` |
| `InvokeFunctionCall` | `invokeFunctionCall` to the switch, `NaClStartFuncInApp` |
| `OtherSyscall`, `SyscallEntry`, `SyscallSp` | `NaClSyscallSeg`, `NaClSyscallCSegHook` |
| `SysCallback`, `CallbackReturn` | `NaClSysCallback` before and after the host function |
| `SysExitSandbox`, `ReturnTo`, `PopJumpBuffer` | `NaClSysExitSandbox`, the code after `setjmp` returns again |
| `DestroyDlSandbox` | `destroyDlSandbox` |
| `UnexpectedSuspendState`, `NoJumpBuffer` | the `LOG_FATAL` branches of `NaClAppThreadSetSuspendState` and `ds_stack.h` |

Two constants say what the host does: `FirstEntryInCallback` (a sandbox may be
entered for the first time on this thread inside a callback) and
`NestedMarshalling` (a call may be made between `preFunctionCall` and
`invokeFunctionCall` of another).  The API allows both.

`ThreadRegistry` models the contexts of one sandbox: host threads in
`getThreadData` all at once, threads that sandboxed code starts and ends
(`Workers`), the thread table with its holes, the map, and the locks and thread map
of the debug stub.  `pc` says where each thread is.  `getThreadData` is `MapHit`,
`MapStale` or `MapMiss`, then `MmapStack`, `LockThreadCreate`, `MakeContext`,
`AddThread` (`NaClAddThreadMu`), `TrackThread` (the create hook), `ThreadMain`,
`ConstructThread` and `MapPut`; `MakeFails`, `ConstructFails`, `ConstructRaces` and
`MapPutOverflow` end the process.  A worker runs `SysThreadCreate`, `AddThread`,
`TrackThread`, and then `SysThreadExit`, `IgnoreThread` (the exit hook) and
`RemoveThread`.  A `NaClSysThreadCreate` that fails changes nothing and is not a
step.  `StubStep` takes and releases `mutex_` and `threads_mu`.  Constants say
whether the mmap of a stack may fail (`MmapMayFail`), whether there is a debug stub
(`Debugger`) and whether the uninitialised memory of a new map may hold thread ids
(`StaleKeys`).

`ThreadSuspend` models the host threads, their signal handlers and the debug
stub; `suspend_state` is the set of its bits, and each step is one access to
shared memory (the `|=` of the handler is two).  `pc`, `handler` and `ctl` say
where each is.  `FutexWait` is a test of the word and a sleep in one step;
`FutexWake` ends the sleep.  Signals do not queue and are masked in a handler.
Host steps: `Syscall`, `SwitchState`, `SwitchWait`.  Handler steps:
`DeliverSignal`, `HandlerCheck`, `HandlerSave`, `HandlerSet`, `HandlerWake`,
`HandlerTest`, `HandlerFutex`, `HandlerApply`, and for faults `Fault`,
`FaultCount`, `FaultEvent`, `FaultSigwait`, `FaultAgain`.  Debug stub steps:
`WaitForDebugEvent`, `Select`, `ProcessDebugEvent`, then `PickThread` to
`JoinWait` to suspend, `UnqueueFaultedThread`, `EditRegisters`, `Continue`, and
`ResumePick` to `ResumeWake`.  A check that ends the process is the guard of its
step, and the invariant `SanityChecks` says it cannot fail.

`SuspendSpec` is what suspension promises the debugger: after a stop every thread
is held, its registers are its own and can be edited, and it continues with the
edited ones.  It has no signals, no futex and no bits: to hold a thread, to edit it
and to let it go is one step each.

### Callback slots and the session with GDB

`CallbackSlots` makes every read and write of `callbackSlot` and `callbackSlotState`
a step.  `op[h]` is what a host thread does (`SandboxCallback`, `ScanFree`,
`RegisterAt`, `StoreCallback`, `StoreState`, `Unregister`, `ClearCallback`,
`ClearState`), `sys[g]` where a sandboxed thread is in `NaClSysCallback`
(`CallWrapper`, `CheckSlot`, `LoadCallback`, `LoadState`, `SysReturn`).  A function and
its state carry the name of their registration, so that a mixture shows.
`serialised`, fixed at the start, says whether the host runs one slot operation at a time.

`RspSession` models the protocol between debug stub and GDB: the two directions of
the socket as sequences of characters, the transport's buffer (`buf`, `pos`), the
stub's thread, the thread in `Target::Exit`, and GDB.  A packet is start, payload,
`#` and checksum; the checksum carries the payload it was computed from, so that
damage shows.  GDB and the socket are external: `Garble` damages a character,
`GdbCrash` ends a connection at any point, `AcceptConnection` starts the next.
`ExitRecv` is the recv of `Target::Exit`, during which the stub's thread may fill the
same buffer: its data overwrites what that thread has stored, both sizes are added,
and what is counted but not stored (`Leftovers`) may be anything.  The size may then
exceed `BufSize`, so that the bound is claimed only until the program exits.

### Sandboxed threads and their synchronisation

`FutexSpec` is what a futex promises: compare and wait in one step, a chosen thread
reports success, a timeout was chosen by nobody.  `Futex` is the implementation of
`sys_futex.c` for hosts without futexes, one step per access, and implements
`FutexSpec`; on Linux the kernel is taken to.  `PthreadMutex`, `PthreadRwLock` (with
the condition variables of `nc_condvar.c`) and `PthreadSemaphore` use the actions of
`FutexSpec`; a step is one atomic operation on a shared word, or for the rwlock what
happens under its mutex up to the next futex call.  `pc[t]` is the place in the
code; `depth`, `reads`, `writes`, `posted`, `taken` record what was granted.

`PthreadThread` models `pthread_create` (`Create`, `Started`, `StartFails`, `Undo`),
`pthread_exit` (`Exit`, `Release`, `ThreadExit`), the wait of the initial thread
(`WaitForThreads`), join (`JoinWaits`, `JoinResumes`, `JoinReleases`) and `Detach`
with the cache of stacks; sections under `__nc_thread_management_lock` are one step,
and the `thread_exit` system call, which clears `is_used`, is one without the lock.
`OneCaller` is the POSIX obligation that a thread is joined or detached once.

`PthreadTsd` models thread-specific data without locks: generation and destructor of
a key are two words, and every access to either is a step.  Values and destructors
stand for the incarnation of the key they were given for.

### Memory, code, descriptors

`VmMap` has the operations of `sel_mem.c` as operators on a record of the array and
its `is_sorted` flag; page numbers, map units and bytes are different units, as in
the code.  `AddressSpace` has the memory system calls over it and the host's own
page table; each call holds `nap->mu` and is one step with the host calls it makes,
which may fail, and I/O on untrusted memory is two.  What an application calls, with
which addresses, lengths and protections, and what of it the host may fail, is one
record, `app`, chosen at the beginning and never changed.  `MCMemory` has five:
`Maps`, `Search` (holes of many shapes), `Io`, `Brk`, and `Odd` (empty lengths, and an
`mmap` that fails halfway).

`DynamicRegions` is the sorted array with its bisection, growth and shrinking;
`DynamicCode` uses its result, a set of disjoint regions, and models the system
calls on it bundle by bundle, head and tail of a bundle apart, while threads enter
and leave code between any two writes.

`DynArray` is `dyn_array.c` (bits in words, hint, growth); `DescTable` is the
descriptor table in it with the reference counts, and every system call that
touches the table as sections under `desc_mu` and references taken and dropped in
between.  The object that stands for an invalid descriptor in a message is left out;
`sendmsg` and `recvmsg` take and drop it in balance (`sys_imc.c:234`, `466`).  `FdTable`
is the POSIX view: numbers, lowest free, no counts and no locks.

### Modules for TLC and modules of proofs

`MCHost`, `MCSync`, `MCThreads` and `MCMemory` put the modules above side by side with
constants for TLC, some of them in several variants, and `MCProgress` does so with
fairness.  The parts share no state.  The variable `subject` is chosen in the
initial state, names the part that moves, and never changes, so that the run is the
union of the runs of its parts.

| module | subjects |
|---|---|
| `MCHost` | `registry` (4 host threads), `crew` (2 of the host threads beside 2 of sandboxed code, stale keys), `slots` (serialised; or not, with `RacingGuests` and `RacingCallbacks` only), `rsp` |
| `MCSync` | `mutex`, `futex`, `rwlock` (all calls, spurious wake-ups), `readers` (no timed writers), `semaphore` |
| `MCThreads` | `tsd` (racing for a key), `ordered` (keys created and deleted one at a time), `thread`, `code` |
| `MCMemory` | `memory` (under each of the five applications), `desc`, `grow`, `regions` |
| `MCProgress` | `rwlock`, `semaphore`, `thread`, `tsd`, `code`, `registry`, `rsp` |

The theorems stand in modules of their own.  `CallGateProofs`, `ThreadSuspendProofs`,
`PthreadRwLockProofs` and `PthreadTsdProofs` extend the module of the component they are
about.  `HostProofs`, `SyncProofs`, `ThreadsProofs` and `MemoryProofs` extend `MCHost`,
`MCSync`, `MCThreads` and `MCMemory`: they have the theorems about `ThreadRegistry`,
`PthreadMutex`, `DynamicCode` and `AddressSpace`, whose variables those modules extend,
about the slots, the session, the futex system calls, the semaphore, the pthread threads
and the dynamic regions as the instances `Slots`, `Rsp`, `Futex`, `Sem`, `Pthread` and
`Regions`, and the compositions that say of a subject of the MC module what was proved
of its component.  So that the compositions can cite the theorems about locks and keys,
`MCSync` takes `RwLock` and `Readers`, and `MCThreads` takes `Tsd` and `Ordered`, as
instances of the modules of proofs.

## 3. Runs

| run | bounds | shows |
|---|---|---|
| `CallGate` | 2 sandboxes, 2 jump buffers, areas of 1 or 2, sandbox stack 6, trusted stack 8 | context, jump buffers, both stacks and sanity checks, with both host constants `FALSE` |
| `CallGateNested` | areas of 1, sandbox stack 3, trusted stack 5 | jump buffers and stacks with both host constants `TRUE` |
| `CallGateTls`, `CallGateTrustedStack` | as `CallGate`; the first with `FirstEntryInCallback` | violations, see findings |
| `ThreadSuspend` | 2 threads, both may fault, 2 register values | `SanityChecks`, `UntrustedCodeStopped`, `FaultCountCorrect`, `NoLostUpdate`, `NoLostWakeup`, and `SuspendSpec` is implemented |
| `ThreadSuspendLive` | 2 threads, 1 may fault | the three liveness properties of suspension |
| `ThreadRegistryMmap` | 3 host threads, `MmapMayFail` | violation, see findings |
| `MCHost` | map of 3 for 4 host threads; 3 slots; 3 commands, 2 connections, 2 damaged characters | `HostContextsCorrect`, `RegistryConsistent`, `SlotsCorrect`, `SessionCorrect` |
| `MCSync` | 2 threads with 3 mutex calls each; 3 threads elsewhere; 2 futex words | `MutexCorrect`, `NoLostWakeup`, `RwLockCorrect`, `SemaphoreCorrect`, `FutexImplementsSpec` |
| `MCThreads` | 2 threads (and the initial one), 2 stacks, 1 or 2 keys, 3 generations, 4 bundles in 2 pages | `TsdCorrect`, `OrderedDestructorsRun`, `ThreadsCorrect`, `CodeCorrect` |
| `MCMemory` | 7 units of 2 pages, up to 5 calls; 2 threads with 3 descriptor numbers, or 1 with 5; addresses to 7 | `MapAgreesWithHost`, `SpaceFound`, `RegionFound`, `PagesStable`, `DescriptorsImplementFdTable` |
| `MCProgress` | 2 threads; 3 host threads; 1 command, 2 connections, 1 damaged character, a buffer as long as a packet | `CallsReturn`, `EndingsComplete`, `SignalsArrive` |

Why the bounds are enough.  Two sandboxes and two jump buffers give A in B in A, and
the push overflow; a trusted stack of 8 allows three nested callbacks.  Two threads
are needed for a step over a breakpoint with a second faulted thread, and two
register values tell a lost edit from a kept one.  Four host threads are one that
created the sandbox, two that contend for the mutex with the map not yet full, and
one that finds it full; two workers leave a hole below a live entry.  Three slots
are two ordinary ones and the last, which is for floats.  Three threads on a lock or
semaphore are one that has it and two that wait, the least for a wake-up that goes
to the wrong one.  Three generations of a key are one use, its deletion and the next
use.  Two bundles per page and two pages give regions inside a page and across
pages.  In memory a map unit has two pages of four bytes, so that a confusion of
units shows, and the file ends inside a page; the call sequences are as long as it
takes to map, cut the mapping in the middle and cut or cover the rest.  Four bits to
a word leave spare bits in the last word of the descriptor table, as 32 do in the
code, from the start (two entries) and after growth, and five numbers need a second
word.  A buffer as long as a packet is full and read to its end after one command.
The bounds of the call gate (`StackLimit`, `HostLimit`) only cut histories off; the
proofs do not depend on them.  `MCProgress` watches one thread, host and bundle: the others are
interchangeable with them, except for the initial thread, which has its own clause,
and for the first host thread and the retrying thread.

Threads that differ in nothing are symmetric in `ThreadSuspend`, `MCSync`,
`MCThreads` and `MCMemory`; the runs with liveness use no symmetry.  Deadlock is
checked in `CallGate*`, `ThreadSuspend*`, `ThreadRegistryMmap`, `MCSync` (a thread may
wait on a futex or a semaphore for ever, which is the action `Rest`) and `MCThreads`.
It is not checked in `MCHost`, where host and GDB may have nothing more to do within
the bounds, in `MCMemory`, where the calls are used up, and in `MCProgress`, which
contains both and checks progress instead.

### Fairness

`FairSpec` of `ThreadSuspend` assumes weak fairness of each host thread's own steps
and of the debug stub's: a thread that can run is scheduled.  Nothing is assumed of
untrusted code (it may compute for ever), of system calls (they may never return) or
of GDB.  `SF_vars(AskToSuspend)` says that the compare-and-swap loop of
`NaClUntrustedThreadSuspend` does not lose to boundary crossings for ever; the code
has no bound on its retries, so this is an assumption on the scheduler.

`MCProgress` assumes, part by part:

* weak fairness of the next step of every thread inside a call, and of host threads
  inside `getThreadData`: the scheduler.  No host thread waits for
  `threadCreateMutex` again once it is in the map, so weak fairness is enough there;
* that a thread with a read-write lock unlocks it, that threads come to
  `pthread_exit`, and leave dynamic code now and then: the application;
* strong fairness of what competes again and again: getting `dynamic_load_mutex`,
  checking in, and retrying a deletion, as `dyncode_delete_with_retry` of the tests
  does; and that a destructor returns (strong, because it may make other calls);
* that the stub's thread and the exiting thread run, that GDB reads what it is sent,
  and that a thread that runs alone reaches its breakpoint.  Nothing is assumed of
  GDB's commands, of damage or of crashes.

Semaphores are posted by nobody in particular: `SignalsArrive` only says that units
already there reach sleepers.  The rwlock is checked without spurious wake-ups, which
without end could keep its mutex busy for ever, and the mutex for safety only:
`NoLostWakeup` says what progress needs, and nothing keeps the mutex fair.

### Findings

* `CallGateTls`: a sandbox first entered inside another's callback leaves
  `nacl_current_thread` pointing to itself, and the interrupted sandbox goes on
  with the wrong context.  `invokeFunctionCall` restores the variable for nested
  calls, `getThreadData` does not.
* `CallGateTrustedStack`: `NaClSysCallback` restores the registers of the context
  but not `trusted_stack_ptr`, so the trusted stack gets deeper with each callback
  that calls the sandbox, until the outermost call returns.  `HostFramesPreserved`
  shows that this overwrites nothing.
* `ThreadRegistryMmap`: the branch for a failed mmap of the stack is empty, its
  `LOG_FATAL` is commented out, and the thread enters the sandbox on an unmapped
  stack.

### What the preconditions are for

Properties above carry preconditions.  Without them the models, and the code, do the
following; each was seen in TLC with the precondition taken away.

* Callback slots without `Serialised`: two host threads get the same slot from
  `getFreeSandboxCallbackSlot` (`dyn_ldr_lib.c:980`), and the address given to one
  runs the function of the other.  If only the last slot is free it is given out and
  `registerSandboxCallbackWithState` aborts on it (`dyn_ldr_lib.c:919`), and what it
  returns to the sandbox on x86-64 is always 0 (`nacl_syscall_common.c:397`).
* Contexts with threads of sandboxed code or stale keys: the last entry of the table
  may be another thread's, may be empty, and is read without `threads_mu`
  (`dyn_ldr_lib.c:512`); a wild pointer may be found in the map (`ds_map.h:40`).
* Read-write lock with timed writers: a writer that gives up leaves readers asleep
  next to a free lock (`nc_rwlock.c:182`).
* Threads with two callers on one thread (`OneCaller` false, which POSIX leaves
  undefined): the second joiner or a detach looks at freed data (`nc_thread.c:542`).
* Keys that are deleted and created at the same time: `pthread_key_delete` clears the
  destructor of the next owner (`nc_tsd.c:76`).
* Dynamic code: when the writable mapping cannot be made, the region stays in the
  table without code (`nacl_text.c:743`); a file mapping may cover the halt sled
  (`sys_memory.c:241`).
* Memory: `mprotect` that cuts an entry adds pages to a byte offset
  (`sel_mem.c:513`) and has a `CHECK` that fails for length 0 (`sys_memory.c:1290`);
  `mmap` of a file looks for pending I/O only under the part backed by the file
  (`sys_memory.c:609`), and when its second part fails the first has already
  replaced the old pages (`sys_memory.c:901`); `brk` extends an entry the application
  has made read-only (`sys_memory.c:165`), so that the
  application `Brk` changes no protection, and `HostAgrees` and `BrkZeroesWritable` are
  claimed of such applications only; the memset of `brk` faults for others
  (`sys_memory.c:186`).
* Descriptors: the cleanup of a failed socketpair closes numbers that another thread
  may have reused (`sys_imc.c:63`).
* Session with GDB (`GarbleReports`, which `MCHost` sets and `MCProgress` does not):
  nothing wrong is executed or believed when a stop reply or an exit packet is damaged,
  but it is not sent again (`target.cc:430`, `1110`), and GDB waits; `GetChar` waits without a timeout
  (`session.cc:62`).  `WaitForDebugStubEvent` does not watch the socket while its
  buffer is full, although all of it may have been read (`transport_common.cc:286`):
  after a command that fills the buffer exactly and continues the program, an
  interrupt of GDB is never seen, against `transport.h:37`.  `SignalsArrive` therefore
  excepts this state (`Unwatched`), which `MCProgress` reaches.  A lone continue command
  is far shorter than the buffer, but the largest packet the stub announces is as large
  (`target.cc:95`).
* Nested preparations (`NestedMarshalling`): the saved stack pointer of the outer call
  is overwritten (`dyn_ldr_lib.c:709`), and the sandbox stack it took is lost until the
  enclosing call or callback returns, at top level for ever; `StackBalanced` is
  therefore checked without them, `StackAreasNested` with them.

## 4. Proofs

Every theorem holds for all values of the constants that satisfy the assumption of its
module; none of the bounds of section 3 is used.  The assumptions say no more than the
code does: sets of threads are finite where they are counted, bounds are numbers,
`NULL` is no thread.  TLC checks each property below in
the run that names it, before and besides its proof.

| property of a run | theorem | module |
|---|---|---|
| `NoUnexpectedAbort`, `JumpBuffersLive`, `StackAreasNested`, `HostFramesPreserved`, `SandboxRunsOnItsThread`, `StackBalanced`, `TypeOK` | `OnlyNestingAborts`, `JumpBuffersAlwaysLive`, `StackAreasAlwaysNested`, `HostFramesAlwaysPreserved`, `TlsCorrect`, `StackAlwaysBalanced`, `TypeCorrect` | `CallGateProofs` |
| `SanityChecks`, `UntrustedCodeStopped`, `FaultCountCorrect`, `NoLostUpdate`, `NoLostWakeup` | `ChecksNeverFail`, `UntrustedCodeStaysStopped`, `FaultCountAlwaysCorrect`, `UpdatesKept`, `WakeupsKept` | `ThreadSuspendProofs` |
| `ImplementsSuspendSpec` | `ThreadSuspendImplementsSpec` | `ThreadSuspendProofs` |
| `RegistryConsistent`, `HostContextsCorrect`, `SlotsCorrect`, `SessionCorrect` | `RegistryConsistentInSystem`, `ContextsCorrectInSystem`, `SlotsCorrectInSystem`, `SessionCorrectInSystem` | `HostProofs` |
| `MutexCorrect`, `NoLostWakeup` | `MutexAlwaysCorrect`, `WakeupsKept` | `SyncProofs` |
| `RwLockCorrect`, `SemaphoreCorrect`, `FutexImplementsSpec` | `RwLockCorrectInSystem`, `SemaphoreCorrectInSystem`, `FutexCorrectInSystem` | `SyncProofs` |
| `TsdCorrect`, `OrderedDestructorsRun`, `ThreadsCorrect`, `CodeCorrect` | `TsdCorrectInSystem`, `DestructorsRunInSystem`, `ThreadsCorrectInSystem`, `CodeCorrectInSystem` | `ThreadsProofs` |
| `MapAgreesWithHost`, `SpaceFound`, `RegionFound`, `PagesStable` | `MapAgreesInMemory`, `SpaceAlwaysFound`, `RegionAlwaysFound`, `PagesAlwaysStable` | `MemoryProofs` |

### Call gate

`CallGateAssumption` asks for sets of positive areas and natural bounds.  `GateInv` is
inductive.  The properties alone are not: that `longjmp` reaches a live frame needs to
know which frames have a jump buffer at all, and that a call overwrites nothing needs
to know where the stack pointer of a context is between calls.  Its conjuncts:

* `TypeOK`; `ShapeInv`: only the last frame may be sandboxed or prepared code
  may be below another call, a callback stands on a sandboxed frame;
* `SuspendInv`, `RegisteredInv`: what `suspend_state` and `registered` are,
  given the frames of a sandbox;
* `JumpBuffersLive` and `JumpBuffersComplete`: the jump buffers of a sandbox
  are exactly its `call` and `spawn` frames, in order;
* `StackAreasNested` and `StackInv`: the stack pointer of a context is beyond
  every live area of its sandbox;
* `HostFramesPreserved` and `HostInv`: `trusted_stack_ptr` is beyond the host
  frames below the running sandboxed code.

`GateInvariant` proves it; `TypeCorrect`, `JumpBuffersAlwaysLive`,
`StackAreasAlwaysNested` and `HostFramesAlwaysPreserved` follow.  Three theorems
assume something of the host.  `TlsCorrect` and `OnlyNestingAborts`
(`FirstEntryInCallback = FALSE`) strengthen the invariant by `TlsInv`, which relates
`prev` of every active call to the frame below it; then the only abort the gate can
meet is the one on calls nested deeper than the stacks of saved contexts.
`StackAlwaysBalanced` (`NestedMarshalling = FALSE`) adds `BalanceInv`, which says that
each frame restores what it found.  The runs `CallGateTls` and `CallGateNested` show why
the assumptions are needed.

### Thread suspension

For any finite set of threads, any of which may fault, and any register values.  `IInv`
has six conjuncts:

* `TypeOK` and `FaultCountCorrect`, the count of faulted threads with the threads that
  are in it (adding and subtracting are single steps, but a fault is counted after the
  word was read);
* `Protocol`: for each thread, the places of the thread, its handler and the debug stub
  that go with each value of `suspend_state`; the signal is on its way or being answered
  only while the stub waits for this thread; who sleeps is going to be woken;
* `Progress`: how far the loops of `NaClUntrustedThreadsSuspendAll` and
  `NaClUntrustedThreadsResumeAll` have come: which threads are free, which are held and
  which one is in between;
* `StubSleep`, `FaultFound`: the stub sleeps only in its join, and after a stop for a
  fault `UnqueueFaultedThread` has a thread to find.

The five safety properties follow.  None is inductive by itself: that a handler's plain
`|=` loses no bit of the word depends on the stub not writing it then, which depends on
how far the stub's loop is.  `ThreadSuspendImplementsSpec` shows the refinement step by
step, with `IInv` as a fact about both states: the lemmas `Abstract*` say what a step
of `SuspendSpec` does to the mapped state, `HostSimulates` and `StubSimulates` match
every action with one of them or with a stutter.

### Thread registry

For any sets of threads and any size of the map (`ThreadRegistryAssumption`: hosts and
workers are disjoint, NULL is neither).  `RInv` is inductive: `TypeOK`; `TableInv`, a
context is in the table exactly if its thread is not `Absent`, and at its `thread_num`;
`CountInv`, `num_threads` is the number of positions in use; `MapInv`, a thread in a call
has an entry; `DebugInv`, who is tracked.  The history that `TableConsistent` alone does
not know is in `Absent`: a host thread that is idle is in the table if and only if it
has an entry in the map, so `getThreadData` cannot add it twice.
`TableAlwaysConsistent` and `DebugStubAlwaysConsistent` follow from it.

`EachThreadGetsItsOwnContext` and `DestroyDeletesEachOnce` assume `Workers = {}` and
`StaleKeys = FALSE`.  Relative to `RInv`, `OwnInv` says that the table has no holes,
that whoever creates a context holds the mutex and that the last entry is then its
own; `EntriesInv` that each host thread has at most one entry, with its own context.
Their step needs no more than that no thread of sandboxed code moves, so that
`ContextsCorrectInSystem` gets the same for the behaviours of `MCHost` in which there
are such threads but none starts.

### Callback slots

For any threads, callbacks and number of slots.  `RacingInv` holds however slot
operations overlap: `TypeOK`, `OpsOK` (an operation that stores has a function and a slot
that exists), `ViaLive` (a call runs through a registration that stays live) and
`NoSlotLeak`.  `SerialInv` is what only a host that serialises its operations gets:
`OneAtATime`, `SlotsExact` (a live registration has its slot to itself, function and
state, and the operation under way is about another slot) and `SysOK` (what
`NaClSysCallback` has read is what was registered).  `CallbackReachesOwner` needs all of
it: the three reads of the slot fall between stores of other threads, and only
`SlotsExact` says that these go elsewhere.

### Session with GDB

For any number of commands, connections and damaged characters, any size of the buffer,
and damage to every packet, stop replies and exit packets included.  `SessionsInv` has
three conjuncts.  `RspTypes` adds to `TypeOK` what the stub and GDB remember.
`SessionInv` says, as long as the program has not begun to exit, which characters are
under way: `Incoming` is what GDB has sent and the stub has not read, whether it is in
the socket or in the buffer of the transport, and there is one conjunct for each thing
GDB may wait for.

* `WhenStopped`: only acknowledgements and interrupts are unread, and the stub may have
  reported that the program stopped;
* `WhenAwaitingAck`: the command is `Coming`, wherever `GetPacket` is in it; or the stub
  has asked for it again; or it has been acknowledged, and the answer may follow;
* `WhenAwaitingReply`, `WhenRunning`: the command is being executed, or its `Answer` is
  on its way, or GDB has asked for that again;
* `WhenGone`: GDB has crashed, and what it left is a command or noise, which the stub
  reads to its end before `Disconnect`.

`ExitInv` says what is left once the program exits.  None of `AtMostOnce`,
`ReplyMatches` and `NewSessionClean` is inductive: that a command is not executed again
when its answer is asked for again depends on which characters are still in front of it.
`Meant` is what the checksum is good for: payload and checksum may both be damaged, but
each damage is another one, so that they fit only if neither is.

### Mutex

For any finite set of threads, any types and any number of calls (`MutexAssumption`),
over the actions of `FutexSpec`.  The inductive invariant `IInv` adds to the properties
`Positions` (what the word, the futex and the thread's locals are at each `pc`) and
`OwnerExact` (the owner field names a thread exactly from its store to its reset).
Exclusion alone is not inductive because whether the store of `UNLOCKED` may overwrite
`LOCKED_WITH_WAITERS` depends on what the releasing thread read before.

### Semaphore

For any finite set of threads, any `SEM_VALUE_MAX`, initial value and number of calls.
`SemIInv` is `SemaphoreCorrect` with `SemPositions`.  `NoLostWakeup` counts: while
anybody sleeps there are at least as many threads on their way as there are units.  The
weaker statement "some thread is on its way if there is a unit" is not inductive: two
posts and one sleeper that takes a unit break it, so the model states the count.  A post
adds a unit and a poster; a sleeper that takes a unit removes itself and the unit; a wake
call hands the poster's place to the thread it wakes; and a poster that sees
`nwaiters = 0` may leave, because then nobody sleeps.

### Read-write lock

For any finite set of threads, calls and bound, with spurious wake-ups and timeouts.
`IInv` adds to the exclusion and the counters: `Positions`; `Asks` (who unlocks has the
lock); `Numbers` (a thread about to wait has read the sequence number as it is or was,
and a wake-up under way has changed it); `WriterInv` and, if no call is `timedwrlock`,
`ReaderInv`.  These two speak of threads that are `Dormant`, which sleep or are about to
sleep on a number that is still current: a wake-up can be lost only between the two, and
stated for sleepers alone the invariant does not survive the futex call.

### Futex

For any finite set of threads, any addresses and values (at least one), and any number of
calls.  `FutexAlwaysImplementsSpec` shows that `Futex` implements `FutexSpec`.  `FutexIInv` of
`SyncProofs` has `ListConsistent` (the list holds exactly the threads that are linked,
each once), `FutexSections` (one thread at a time between lock and unlock of
`futex_wait_list_mu`), `FutexTaken` (what a wake call knows of threads it has taken off)
and `FutexScanned` (entries that the scan has passed wait elsewhere).  A wake call in
`Futex` takes threads one by one; in `FutexSpec` it is one step, which is its last one,
when the scan is over or the count is used up.  `WakesRight` also proves that it wakes
the threads that came first, and as many as it was asked to if there are as many.

### The components together

`FutexRuns`, `SemRuns` and `LockInvariant` of `SyncProofs` show that a behaviour of
`MCSync` is one of each component, so that the theorems "in the system" state the
properties that the run checks.  `CodeRuns`, `TsdRuns`, `OrderedRuns` and `ThreadsRun`
of `ThreadsProofs` do the same for `MCThreads`, and `SlotsCorrectInSystem` of
`HostProofs` for the slots; its other theorems "in the system" begin with the same step.

### Threads

For any number of threads, stacks and sizes, and any size of the cache of stacks, if
each thread is joined or detached by one caller (`OneCaller`, which POSIX asks for and
`nc_thread.c` relies on; the instance `Pthread` of `MCThreads` has it).  `ThreadInv` of
`ThreadsProofs` has five conjuncts:

* `TypeOK`, in which the counter of threads never leaves its range;
* `ThreadPositions`: a thread that is being created has one creator, which alone knows
  it, and a thread that is waited for has been called about by the one who waits;
* `ThreadData`: the data of a thread are live until it has released them and has been
  joined or detached, whichever comes last, and are then freed once;
* `ThreadStacks`: a stack that is in use has exactly one thread on it, from
  `pthread_create` until `thread_exit` clears `is_used`, and a stack in the cache only a
  thread that is about to leave it;
* `CountNeverLow`: `running_threads_counter` is the number of live threads and of those
  being started, so that the initial thread does not leave while another runs.

`ThreadStacks` is what `StacksDisjoint` needs beside it: a thread leaves its stack after
it has given it to the cache and without the lock, and only `is_used` keeps
`pthread_create` away from it.  How many stacks `nc_allocate_memory_block_mu` frees from
the cache is the operator `Excess`, the length of the longest prefix that may be freed,
as a cardinality: the loop would be a recursive operator, of which nothing can be proved.

### Dynamic code

For any threads, number of bundles, pages and generations, and any sizes of regions.
`IInv` of `ThreadsProofs` has `Positions` (who has `dynamic_load_mutex`, and what each
step knows of its call), `Regions`, `Claims` and `Separate` (the region a call is about,
how far its deletion has gone, and that files are mapped at different places), `Memory`
and `Writing` (what is in the bundles, and how far the writer has got), `Unused` (bundles
claimed for new code hold none, and nobody is inside), `Entered` and `Generations`.
`NoTornCode` needs `Entered`: a thread inside a bundle is covered by a region whose
deletion it has not yet acknowledged.  A region is given away when the minimum that
`NaClMinimumThreadGeneration` found has reached the region's generation; the threads are
read one by one meanwhile, so that `Generations` bounds only those already seen, and
those not seen can only have moved on.

### Thread-specific data

For any threads, number of keys, largest generation (odd) and number of passes.  `IInv`
adds `KeysConsistent` (generation and incarnation of a key count together),
`LocalsConsistent` (a generation a thread has read is one the key has had),
`ValuesConsistent` (a stored value carries the incarnation its generation stands for) and
`ReadsConsistent` (the destructor and generation read one after the other by
`__nc_tsd_exit`, in this order, cannot mix two owners).  That generations stop before
`UINT_MAX` instead of wrapping is needed in every step.

`DestructorsAlwaysRun` assumes that keys are created and deleted one at a time
(`Serialised`); the run `MCThreads` checks it as `Ordered`.  `KeysSerialised` says that a
key in use has the destructor that was asked for it, since no delayed deletion can clear
it, and `PassesComplete` that a value left behind the key a pass has come to is accounted
for by `did_any`: a value stored behind the pass was stored by a destructor of it.

### Memory map

For any layout, map unit, page size and file, any finite set of threads and any
application: `MapAlwaysAgrees` is about every record `app` that `AppOK` admits, not only
about the five of `MCMemory`.  `MemInv` is `State` of the map and of the host's pages,
and `Rest`, which says what is known of the other variables.  `State` has

* `GoodMap`: the entries are well-formed and pairwise apart, none is marked as removed,
  and if `is_sorted` says so they ascend;
* `GoodEntries`: they end inside the address space, and those above the text are what the
  application asks for;
* `GoodHost`, `Floor`: trampolines and text are as loaded, and an entry covers page 0;
* `Agrees`, unless an `mmap` may be left halfway (`Truthful`): each page of an entry is
  what the entry says, and a page of none is inaccessible.

That the entries do not overlap is not inductive without the rest: `NaClVmmapUpdate`
trusts that the array is sorted when it says so, an update marks entries and adds pieces
before it removes the marked ones, and only a well-formed entry is cut into well-formed
pieces.  The operations are reduced to sets: `EntrySet` forgets the order, a `Slice` of an
entry is a run of its pages that shows the same file at no greater an offset, `Kept` says
that an update leaves slices outside its range and loses no other page, and `Part` that
`mprotect` leaves slices with the old protection outside its range and the new one in it.
The lemmas about the array operations of `sel_mem.c` say that they do this, and the
lemmas about the system calls use nothing else.

`SearchesAlwaysAnswer` needs the gaps: a free run of whole units lies between two
neighbours of the sorted array (`InGap`), and in a gap the rounding finds the highest
place (from the top) or the lowest (above a hint).  `PagesAlwaysStable` follows call by
call from `MemInv`: without `MAP_FIXED` what a search returns is free, and a call leaves
pages alone outside the range that it has checked for pending I/O (`Spared`).

### Dynamic regions

For any address space and sizes of regions, any first size of the buffer and any cutoff.
`RegInv` says that the array is `Ordered` (each region ends before the next begins), that
the allocated size is 0 or a doubling of the first size (`Sizes`), and that the array
fits.  The bisection is a recursive function on pairs of bounds.  What it computes would
ordinarily need an induction over the distance of the bounds.  The proof goes another
way: `Answer` says in closed form what is found between two bounds; `AnswerTurns` shows
that it satisfies the equation of the search; and `SearchUnique` that only one function
does, since two of them would differ first at the pair of bounds that is closest
(`LeastExists`), where the equation leads to a closer pair.

### Only model-checked

* `DescriptorsImplementFdTable`: the reference counts are sums over the table and over
  the calls under way, and the table is searched word by word; the proof would need
  lemmas about both that do not exist yet (section 6).
* All liveness: the three properties of `ThreadSuspendLive`, `CallsReturn`,
  `EndingsComplete` and `SignalsArrive`, because fairness and `ENABLED` are outside the
  prover's reach.

## 5. Not modelled

* Values of parameters and results, pointer conversion and the templates of
  `nacl_sandbox.h`; that `sysret` is 32 bits wide (`nacl_syscall_hook.c:97`) is
  therefore not visible.
* Other architectures (the 32-bit gate has no TLS exchange) and Windows; the
  validators, which `createDlSandbox` switches off and which are mostly generated
  tables: they make up most of the repository's own lines, and a model of a decoder
  table would be the table again.
* Loading and the symbol table; host I/O behind descriptors and the encoding of IMC
  messages; time, random, exception and file system calls; breakpoints in memory and
  GDB packets other than those of control; toolchain, tests, vendored code.
* A thread whose 32-bit id is used again is the same thread in `ThreadRegistry`
  (`dyn_ldr_lib.c:613`), and sandboxed code that runs on a host thread does not end
  that thread.
* Wrap-around of the 32-bit sequence number of a condition variable, which
  `nc_condvar.c` accepts; the race between the size of a file and its mapping, which
  `sys_memory.c` calls insoluble.

Memory is sequentially consistent: the code uses full barriers or locked operations
on the shared words; plain reads (owner, dtor, slots) are single steps.

## 6. Plan

1. The refinement of `FdTable` by `DescTable`, as a theorem: lemmas about
   the bits and the hint of `DynArray`, and about the counts as cardinalities.
2. A composition of `CallGate` with several host threads over `ThreadRegistry`.
3. Reference operators for parameter placement (`dyn_ldr_lib.h` macros,
   `getCallbackParam`) and pointer conversion.
