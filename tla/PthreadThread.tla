--------------------------- MODULE PthreadThread ---------------------------
(***************************************************************************)
(* Threads of the pthread library for sandboxed code (nc_thread.c):        *)
(* pthread_create, _exit, _join and _detach, the cache of stacks, and the  *)
(* count of running threads on which the exit of the initial thread waits. *)
(*                                                                         *)
(* All of it runs under __nc_thread_management_lock except the thread_exit *)
(* system call, which clears is_used of the stack the thread has just      *)
(* left.  A section under the lock is one step.  What is freed can be      *)
(* used again at once, so nothing may look at it.                          *)
(*                                                                         *)
(* Each thread is joined or detached by its creator, or detaches itself,   *)
(* and only once; without OneCaller any thread may join or detach any      *)
(* other until a call on it has returned.                                  *)
(***************************************************************************)
EXTENDS Naturals, Sequences, FiniteSets

CONSTANTS
    Main,            \* the initial thread
    Others,          \* threads that can be created, each once
    Blocks,          \* memory blocks for stacks
    NoBlock,
    Sizes,           \* stack sizes that are asked for
    MaxCached,       \* __nc_kMaxCachedMemoryBlocks
    OneCaller

AllThreads == Others \cup {Main}

PthreadThreadAssumption ==
    /\ Main \notin Others
    /\ IsFiniteSet(Others)
    /\ NoBlock \notin Blocks
    /\ Sizes \subseteq Nat
    /\ MaxCached \in Nat
    /\ OneCaller \in BOOLEAN

VARIABLES
    pc,                 \* pc[t]: what t does
    target,             \* target[t]: the thread t creates or joins
    creator,            \* creator[t]: who created t
    basic_data,         \* basic_data[t]: "none", "live" or "freed"
    tdb,                \* tdb[t]: basic_data[t]->tdb is not NULL
    status,             \* basic_data[t]->status is THREAD_TERMINATED
    joinable, join_waiting,           \* fields of the tdb
    woken,              \* woken[t]: the wait of t on a condvar is over
    stack_node,         \* stack_node[t]
    size, is_used,      \* fields of the blocks
    stack_blocks,       \* __nc_thread_stack_blocks
    allocated,          \* blocks that malloc has given out
    running_threads_counter,          \* __nc_running_threads_counter
    called,             \* called[t]: t has been joined or detached
    returned            \* returned[t]: that call has returned

data == <<basic_data, tdb, status, joinable, join_waiting>>
stacks == <<stack_node, size, is_used, stack_blocks, allocated>>
calls == <<called, returned>>
vars == <<pc, target, creator, data, woken, stacks, running_threads_counter,
          calls>>

PC == {"absent", "run", "start", "undo", "counted", "released", "gone",
       "wait", "lastwait", "exited"}

TypeOK ==
    /\ pc \in [AllThreads -> PC]
    /\ target \in [AllThreads -> AllThreads]
    /\ creator \in [AllThreads -> AllThreads]
    /\ basic_data \in [AllThreads -> {"none", "live", "freed"}]
    /\ tdb \in [AllThreads -> BOOLEAN]
    /\ status \in [AllThreads -> BOOLEAN]
    /\ joinable \in [AllThreads -> BOOLEAN]
    /\ join_waiting \in [AllThreads -> BOOLEAN]
    /\ woken \in [AllThreads -> BOOLEAN]
    /\ stack_node \in [AllThreads -> Blocks \cup {NoBlock}]
    /\ size \in [Blocks -> Sizes \cup {0}]
    /\ is_used \in [Blocks -> BOOLEAN]
    /\ stack_blocks \in Seq(Blocks)
    /\ allocated \subseteq Blocks
    /\ running_threads_counter \in 1 .. Cardinality(AllThreads)
    /\ called \in [AllThreads -> BOOLEAN]
    /\ returned \in [AllThreads -> BOOLEAN]

(* __pthread_initialize                                                    *)
Init ==
    /\ pc = [t \in AllThreads |-> IF t = Main THEN "run" ELSE "absent"]
    /\ target = [t \in AllThreads |-> t]
    /\ creator = [t \in AllThreads |-> Main]
    /\ basic_data = [t \in AllThreads |-> IF t = Main THEN "live" ELSE "none"]
    /\ tdb = [t \in AllThreads |-> t = Main]
    /\ status = [t \in AllThreads |-> FALSE]
    /\ joinable = [t \in AllThreads |-> TRUE]
    /\ join_waiting = [t \in AllThreads |-> FALSE]
    /\ woken = [t \in AllThreads |-> FALSE]
    /\ stack_node = [t \in AllThreads |-> NoBlock]
    /\ size = [b \in Blocks |-> 0]
    /\ is_used = [b \in Blocks |-> FALSE]
    /\ stack_blocks = << >>
    /\ allocated = {}
    /\ running_threads_counter = 1
    /\ called = [t \in AllThreads |-> FALSE]
    /\ returned = [t \in AllThreads |-> FALSE]

Go(t, to) == pc' = [pc EXCEPT ![t] = to]

(* exit() ends all threads.                                                *)
Alive == pc[Main] # "exited"

-----------------------------------------------------------------------------
(* nc_allocate_memory_block_mu                                             *)

Oldest == Head(stack_blocks)

(* A slip: a stack is reused although its thread is still on it.           *)
FirstCachedFits(required) ==
    stack_blocks # << >> /\ size[Oldest] >= required

FirstFits(required) ==
    stack_blocks # << >> /\ ~is_used[Oldest] /\ size[Oldest] >= required

(* How many blocks at the head of the cache are freed: one after the       *)
(* other, as long as the cache is too long and the block is not in use.    *)
Excess ==
    Cardinality({n \in 1 .. Len(stack_blocks) :
                   \A i \in 1 .. n : /\ Len(stack_blocks) - i >= MaxCached
                                     /\ ~is_used[stack_blocks[i]]})

Trimmed == SubSeq(stack_blocks, Excess + 1, Len(stack_blocks))

BlocksOf(s) == {s[i] : i \in 1 .. Len(s)}

Reuse(t, required) ==
    /\ FirstFits(required)
    /\ stack_node' = [stack_node EXCEPT ![t] = Oldest]
    /\ is_used' = [is_used EXCEPT ![Oldest] = TRUE]
    /\ stack_blocks' = Tail(stack_blocks)
    /\ UNCHANGED <<size, allocated>>

Malloc(t, required) ==
    LET freed == BlocksOf(stack_blocks) \ BlocksOf(Trimmed)
    IN  /\ ~FirstFits(required)
        /\ \E b \in Blocks \ (allocated \ freed) :
            /\ stack_node' = [stack_node EXCEPT ![t] = b]
            /\ size' = [size EXCEPT ![b] = required]
            /\ is_used' = [is_used EXCEPT ![b] = TRUE]
            /\ allocated' = (allocated \ freed) \cup {b}
        /\ stack_blocks' = Trimmed

(* nc_free_memory_block_mu *)
Cache(b) == stack_blocks' = Append(stack_blocks, b)

-----------------------------------------------------------------------------
(* pthread_create                                                          *)

(* Everything is set up, counted and published before the thread starts.   *)
Create(p, t, j, required) ==
    /\ Alive
    /\ pc[p] = "run"
    /\ pc[t] = "absent" /\ basic_data[t] = "none"
    /\ Reuse(t, required) \/ Malloc(t, required)
    /\ basic_data' = [basic_data EXCEPT ![t] = "live"]
    /\ tdb' = [tdb EXCEPT ![t] = TRUE]
    /\ joinable' = [joinable EXCEPT ![t] = j]
    /\ creator' = [creator EXCEPT ![t] = p]
    /\ target' = [target EXCEPT ![p] = t]
    /\ running_threads_counter' = running_threads_counter + 1
    /\ Go(p, "start")
    /\ UNCHANGED <<status, join_waiting, woken, calls>>

Started(p) ==
    /\ Alive
    /\ pc[p] = "start"
    /\ pc' = [pc EXCEPT ![p] = "run", ![target[p]] = "run"]
    /\ UNCHANGED <<target, creator, data, woken, stacks,
                   running_threads_counter, calls>>

(* malloc has no block for the stack, after the cache was trimmed; what    *)
(* was allocated for the thread is released and nobody has seen it.        *)
CreateFails(p, required) ==
    /\ Alive
    /\ pc[p] = "run"
    /\ ~FirstFits(required)
    /\ allocated' = allocated \ (BlocksOf(stack_blocks) \ BlocksOf(Trimmed))
    /\ stack_blocks' = Trimmed
    /\ UNCHANGED <<pc, target, creator, data, woken, stack_node, size,
                   is_used, running_threads_counter, calls>>

(* A slip: the count is not taken back.                                    *)
StartFailsCounted(p) ==
    /\ Alive
    /\ pc[p] = "start"
    /\ Go(p, "undo")
    /\ UNCHANGED <<target, creator, data, woken, stacks,
                   running_threads_counter, calls>>

(* The system call fails: the count is taken back, and in a second section *)
(* what was allocated is released.                                         *)
StartFails(p) ==
    /\ Alive
    /\ pc[p] = "start"
    /\ running_threads_counter' = running_threads_counter - 1
    /\ Go(p, "undo")
    /\ UNCHANGED <<target, creator, data, woken, stacks, calls>>

(* A slip: the count is taken back in both sections.                       *)
UndoUncounts(p) ==
    LET t == target[p]
    IN  /\ Alive
        /\ pc[p] = "undo"
        /\ tdb' = [tdb EXCEPT ![t] = FALSE]
        /\ basic_data' = [basic_data EXCEPT ![t] = "freed"]
        /\ is_used' = [is_used EXCEPT ![stack_node[t]] = FALSE]
        /\ Cache(stack_node[t])
        /\ stack_node' = [stack_node EXCEPT ![t] = NoBlock]
        /\ running_threads_counter' = running_threads_counter - 1
        /\ Go(p, "run")
        /\ UNCHANGED <<target, creator, status, joinable, join_waiting, woken,
                       size, allocated, calls>>

Undo(p) ==
    LET t == target[p]
    IN  /\ Alive
        /\ pc[p] = "undo"
        /\ tdb' = [tdb EXCEPT ![t] = FALSE]
        /\ basic_data' = [basic_data EXCEPT ![t] = "freed"]
        /\ is_used' = [is_used EXCEPT ![stack_node[t]] = FALSE]
        /\ Cache(stack_node[t])
        /\ stack_node' = [stack_node EXCEPT ![t] = NoBlock]
        /\ Go(p, "run")
        /\ UNCHANGED <<target, creator, status, joinable, join_waiting, woken,
                       size, allocated, running_threads_counter, calls>>

-----------------------------------------------------------------------------
(* pthread_exit                                                            *)

(* After the cleanup handlers and the destructors of thread-specific data. *)
Exit(t) ==
    /\ Alive
    /\ t # Main
    /\ pc[t] = "run"
    /\ running_threads_counter' = running_threads_counter - 1
    /\ Go(t, "counted")
    /\ UNCHANGED <<target, creator, data, woken, stacks, calls>>

(* A signal to the joiner of t, and one to the initial thread if it waits  *)
(* for the last thread.                                                    *)
Signalled(t) ==
    {j \in AllThreads : pc[j] = "wait" /\ target[j] = t /\ joinable[t]} \cup
    (IF running_threads_counter = 1 /\ pc[Main] = "lastwait"
     THEN {Main} ELSE {})

(* A slip: the initial thread is told only if no other thread has exited.  *)
ReleaseSignalsJoiner(t) ==
    /\ Alive
    /\ pc[t] = "counted"
    /\ status' = [status EXCEPT ![t] = joinable[t]]
    /\ tdb' = [tdb EXCEPT ![t] = FALSE]
    /\ basic_data' = [basic_data EXCEPT
                        ![t] = IF joinable[t] THEN @ ELSE "freed"]
    /\ woken' = [j \in AllThreads |-> woken[j] \/ j \in Signalled(t) \ {Main}]
    /\ Cache(stack_node[t])
    /\ Go(t, "released")
    /\ UNCHANGED <<target, creator, joinable, join_waiting, stack_node, size,
                   is_used, allocated, running_threads_counter, calls>>

(* A slip: basic_data is released although the thread can be joined.       *)
ReleaseFrees(t) ==
    /\ Alive
    /\ pc[t] = "counted"
    /\ status' = [status EXCEPT ![t] = joinable[t]]
    /\ tdb' = [tdb EXCEPT ![t] = FALSE]
    /\ basic_data' = [basic_data EXCEPT ![t] = "freed"]
    /\ woken' = [j \in AllThreads |-> woken[j] \/ j \in Signalled(t)]
    /\ Cache(stack_node[t])
    /\ Go(t, "released")
    /\ UNCHANGED <<target, creator, joinable, join_waiting, stack_node, size,
                   is_used, allocated, running_threads_counter, calls>>

(* The second section: the tdb is released, and basic_data if nobody will  *)
(* join; the stack goes to the cache although the thread still runs on it. *)
Release(t) ==
    /\ Alive
    /\ pc[t] = "counted"
    /\ status' = [status EXCEPT ![t] = joinable[t]]
    /\ tdb' = [tdb EXCEPT ![t] = FALSE]
    /\ basic_data' = [basic_data EXCEPT
                        ![t] = IF joinable[t] THEN @ ELSE "freed"]
    /\ woken' = [j \in AllThreads |-> woken[j] \/ j \in Signalled(t)]
    /\ Cache(stack_node[t])
    /\ Go(t, "released")
    /\ UNCHANGED <<target, creator, joinable, join_waiting, stack_node, size,
                   is_used, allocated, running_threads_counter, calls>>

(* NaClSysThreadExit clears is_used when the thread has left its stack.    *)
ThreadExit(t) ==
    /\ Alive
    /\ pc[t] = "released"
    /\ is_used' = [is_used EXCEPT ![stack_node[t]] = FALSE]
    /\ stack_node' = [stack_node EXCEPT ![t] = NoBlock]
    /\ Go(t, "gone")
    /\ UNCHANGED <<target, creator, data, woken, size, stack_blocks,
                   allocated, running_threads_counter, calls>>

(* The initial thread waits until it is alone, and then ends the program.  *)
WaitForThreads ==
    /\ \/ pc[Main] = "run"
       \/ pc[Main] = "lastwait" /\ woken[Main]
    /\ Go(Main, IF running_threads_counter = 1 THEN "exited" ELSE "lastwait")
    /\ woken' = [woken EXCEPT ![Main] = FALSE]
    /\ UNCHANGED <<target, creator, data, stacks, running_threads_counter,
                   calls>>

-----------------------------------------------------------------------------
(* pthread_join and pthread_detach                                         *)

Handle(j, t) ==
    /\ Alive
    /\ pc[j] = "run"
    /\ t # Main /\ pc[t] \notin {"absent"}
    /\ IF OneCaller THEN creator[t] = j /\ ~called[t] /\ joinable[t]
                    ELSE ~returned[t]

Returns(t) == returned' = [returned EXCEPT ![t] = TRUE]
Calls(t) == called' = [called EXCEPT ![t] = TRUE]

JoinRefused(t) == tdb[t] /\ (~joinable[t] \/ join_waiting[t])

(* The thread still runs, and the caller waits for it.                     *)
JoinWaits(j, t) ==
    /\ Handle(j, t) /\ j # t
    /\ tdb[t] /\ ~JoinRefused(t)
    /\ join_waiting' = [join_waiting EXCEPT ![t] = TRUE]
    /\ target' = [target EXCEPT ![j] = t]
    /\ Go(j, "wait")
    /\ Calls(t)
    /\ UNCHANGED <<creator, basic_data, tdb, status, joinable, woken, stacks,
                   running_threads_counter, returned>>

(* The thread has terminated; otherwise pthread_join gives EINVAL, which   *)
(* changes nothing.                                                        *)
JoinReleases(j, t) ==
    /\ Handle(j, t) /\ j # t
    /\ ~tdb[t]
    /\ basic_data' = [basic_data EXCEPT ![t] = "freed"]
    /\ Calls(t) /\ Returns(t)
    /\ UNCHANGED <<pc, target, creator, tdb, status, joinable, join_waiting,
                   woken, stacks, running_threads_counter>>

(* pthread_cond_wait returns, perhaps without a signal.                    *)
SpuriousWakeup(j) ==
    /\ Alive
    /\ pc[j] \in {"wait", "lastwait"} /\ ~woken[j]
    /\ woken' = [woken EXCEPT ![j] = TRUE]
    /\ UNCHANGED <<pc, target, creator, data, stacks, running_threads_counter,
                   calls>>

JoinResumes(j) ==
    LET t == target[j]
    IN  /\ Alive
        /\ pc[j] = "wait" /\ woken[j]
        /\ woken' = [woken EXCEPT ![j] = FALSE]
        /\ IF status[t]
           THEN /\ basic_data' = [basic_data EXCEPT ![t] = "freed"]
                /\ Go(j, "run")
                /\ Returns(t)
           ELSE UNCHANGED <<basic_data, pc, returned>>
        /\ UNCHANGED <<target, creator, tdb, status, joinable, join_waiting,
                       stacks, running_threads_counter, called>>

(* A slip: a thread that has just terminated is marked and not released.   *)
DetachMarks(d, t) ==
    /\ Handle(d, t) \/ (d = t /\ OneCaller /\ Alive /\ pc[t] = "run" /\ t # Main
                          /\ ~called[t] /\ joinable[t])
    /\ joinable' = [joinable EXCEPT ![t] = join_waiting[t]]
    /\ Calls(t) /\ Returns(t)
    /\ UNCHANGED <<pc, target, creator, basic_data, tdb, status, join_waiting,
                   woken, stacks, running_threads_counter>>

(* A thread that has terminated is released; one that somebody waits for   *)
(* is left alone.                                                          *)
Detach(d, t) ==
    /\ Handle(d, t) \/ (d = t /\ OneCaller /\ Alive /\ pc[t] = "run" /\ t # Main
                          /\ ~called[t] /\ joinable[t])
    /\ IF ~tdb[t]
       THEN /\ basic_data' = [basic_data EXCEPT ![t] = "freed"]
            /\ UNCHANGED joinable
       ELSE /\ joinable' = [joinable EXCEPT ![t] = @ /\ join_waiting[t]]
            /\ UNCHANGED basic_data
    /\ Calls(t) /\ Returns(t)
    /\ UNCHANGED <<pc, target, creator, tdb, status, join_waiting, woken,
                   stacks, running_threads_counter>>

-----------------------------------------------------------------------------
Step(t) ==
    \/ Started(t) \/ StartFails(t) \/ Undo(t)
    \/ Release(t) \/ ThreadExit(t) \/ JoinResumes(t)

Terminated == ~Alive /\ UNCHANGED vars

Next ==
    \/ \E t \in AllThreads :
        \/ \E u \in Others :
            \/ \E j \in BOOLEAN, n \in Sizes : Create(t, u, j, n)
            \/ JoinWaits(t, u) \/ JoinReleases(t, u) \/ Detach(t, u)
        \/ \E n \in Sizes : CreateFails(t, n)
        \/ Exit(t) \/ SpuriousWakeup(t) \/ Step(t)
    \/ WaitForThreads
    \/ Terminated

Spec == Init /\ [][Next]_vars

-----------------------------------------------------------------------------
Exiting(t) == pc[t] \in {"counted", "released", "gone"}

(* Nobody looks at basic_data after it has been freed: neither a thread    *)
(* that has yet to store its result there, nor one that waits for it.      *)
NoUseAfterFree ==
    \A t \in AllThreads :
        /\ pc[t] \notin {"absent", "released", "gone"} =>
             basic_data[t] = "live" /\ tdb[t]
        /\ pc[t] = "wait" => basic_data[target[t]] = "live"

(* What belongs to a thread is released in the end whichever of exit, join *)
(* and detach comes last, and never twice.                                 *)
DataReleased ==
    \A t \in Others :
        pc[t] = "gone" /\ (returned[t] \/ ~joinable[t])
            => basic_data[t] = "freed"

OnStack(t, b) == stack_node[t] = b

(* A stack is used by one thread at a time, until that thread has left it  *)
(* for good; a stack that has been freed is used by nobody, and thread_exit *)
(* writes to no freed memory.                                              *)
StacksDisjoint ==
    \A b \in Blocks :
        /\ Cardinality({t \in AllThreads : OnStack(t, b)}) <= 1
        /\ (\E t \in AllThreads : OnStack(t, b)) => is_used[b] /\ b \in allocated
        /\ b \in BlocksOf(stack_blocks) =>
             b \in allocated /\ \A t \in AllThreads :
                OnStack(t, b) => pc[t] = "released"
        /\ is_used[b] => \E t \in AllThreads : OnStack(t, b)

Live == {t \in AllThreads : pc[t] # "absent" /\ ~Exiting(t)}
Starters == {t \in AllThreads : pc[t] = "start"}

(* "The thread count will never be lower than the actual number of         *)
(* threads, but can briefly be higher than that."                          *)
CountNeverLow ==
    running_threads_counter = Cardinality(Live) + Cardinality(Starters)

=============================================================================
