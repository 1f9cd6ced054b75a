----------------------------- MODULE MCProgress -----------------------------
(***************************************************************************)
(* What must happen in the end, for TLC: calls of the synchronisation      *)
(* objects return, threads of sandboxed code exit and are joined, unloaded *)
(* code goes, a host thread gets its context, and GDB gets its answers.    *)
(* As in MCHost, MCSync and MCThreads the parts share no state: subject    *)
(* names the one a behaviour is about, and the others stay where they      *)
(* start.                                                                  *)
(***************************************************************************)
EXTENDS Naturals, Sequences, FiniteSets

CONSTANTS
    Threads, NoThread,                    \* threads of sandboxed code
    SomeThread, SomeHost, SomeBundle,     \* those that are watched
    SEM_VALUE_MAX, Initial,
    Main, Blocks, NoBlock, Sizes,
    UINT_MAX, ITERATIONS,
    First, NumBundles, MaxCode,
    Hosts, FirstHost, Worker, NoContext, MapArrSize,
    MaxCommands, MaxConnections, MaxGarbled, BufSize

VARIABLES
    subject,
    rwMutex, rwWord, rwFstate, rwFaddr, writer_thread_id, writers_waiting,
    reader_count, thread_rdlock_count, rwPc, rwCall, rwOld, rwStatus, reads,
    writes, rwOps,
    sWord, sFstate, sFaddr, nwaiters, sPc, sCall, counted, sOld, posted,
    taken, sOps,
    tPc, target, creator, basic_data, tdb, tStatus, joinable, join_waiting,
    woken, stack_node, size, is_used, stack_blocks, allocated,
    running_threads_counter, called, returned,
    generation, dtor, tsd, value, vgen, dPc, dMode, key, dGen, arg, ekey,
    edtor, evalue, repeat, did_any, incarnation, published, wanted,
    dynamic_regions, dynamic_delete_generation, mapcache,
    dynamic_page_bitmap, executable, head, tail, dynamic_load_mutex,
    cThreads, thread_generation, cPc, cCall, cGen, todo, unseen, rv, at,
    loaded, spawned,
    gPc, gThreads, num_threads, thread_num, threadCreateMutex,
    threadDataMap, stale, threadData, stack, tracked, gStub, deleted, fatal,
    toStub, toGdb, buf, pos, conn, stub, suspended, ignoring, faulted, exit,
    gdb, executed, connections, garbled

RwLock == INSTANCE PthreadRwLock WITH
    Elsewhere <- {}, Calls <- {"rdlock", "wrlock"},
    Spurious <- FALSE, MaxOps <- 2, mutex <- rwMutex, word <- rwWord,
    fstate <- rwFstate, faddr <- rwFaddr, pc <- rwPc, call <- rwCall,
    old_value <- rwOld, status <- rwStatus, ops <- rwOps

Sem == INSTANCE PthreadSemaphore WITH
    MaxOps <- 2, word <- sWord, fstate <- sFstate,
    faddr <- sFaddr, pc <- sPc, call <- sCall, old_value <- sOld, ops <- sOps

Pthread == INSTANCE PthreadThread WITH
    Others <- Threads, MaxCached <- 1, OneCaller <- TRUE, pc <- tPc,
    status <- tStatus

Tsd == INSTANCE PthreadTsd WITH
    KEYS_MAX <- 1, Serialised <- TRUE, pc <- dPc, mode <- dMode, gen <- dGen

Code == INSTANCE DynamicCode WITH
    BundlesPerPage <- 1, MaxSize <- 1, MaxGeneration <- 2, MaxSpawn <- 2,
    threads <- cThreads, pc <- cPc, call <- cCall, gen <- cGen

Registry == INSTANCE ThreadRegistry WITH
    HostThreads <- Hosts, Workers <- {Worker}, NULL <- NoContext,
    MmapMayFail <- FALSE, Debugger <- FALSE, StaleKeys <- FALSE,
    pc <- gPc, threads <- gThreads, stub <- gStub

Rsp == INSTANCE RspSession WITH GarbleReports <- FALSE

ASSUME MCProgressAssumption ==
    /\ RwLock!RwLockAssumption /\ Sem!SemaphoreAssumption
    /\ Pthread!PthreadThreadAssumption /\ Tsd!PthreadTsdAssumption
    /\ Code!DynamicCodeAssumption
    /\ SomeThread \in Threads /\ SomeHost \in Hosts
    /\ SomeBundle \in Code!Bundles
    /\ FirstHost \in Hosts /\ Registry!ThreadRegistryAssumption
    /\ Rsp!RspAssumption

rwVars == <<rwMutex, rwWord, rwFstate, rwFaddr, writer_thread_id,
            writers_waiting, reader_count, thread_rdlock_count, rwPc, rwCall,
            rwOld, rwStatus, reads, writes, rwOps>>
semVars == <<sWord, sFstate, sFaddr, nwaiters, sPc, sCall, counted, sOld,
             posted, taken, sOps>>
threadVars == <<tPc, target, creator, basic_data, tdb, tStatus, joinable,
                join_waiting, woken, stack_node, size, is_used, stack_blocks,
                allocated, running_threads_counter, called, returned>>
tsdVars == <<generation, dtor, tsd, value, vgen, dPc, dMode, key, dGen, arg,
             ekey, edtor, evalue, repeat, did_any, incarnation, published,
             wanted>>
codeVars == <<dynamic_regions, dynamic_delete_generation, mapcache,
              dynamic_page_bitmap, executable, head, tail,
              dynamic_load_mutex, cThreads, thread_generation, cPc, cCall,
              cGen, todo, unseen, rv, at, loaded, spawned>>
registryVars == <<gPc, gThreads, num_threads, thread_num, threadCreateMutex,
                  threadDataMap, stale, threadData, stack, tracked, gStub,
                  deleted, fatal>>
rspVars == <<toStub, toGdb, buf, pos, conn, stub, suspended, ignoring,
             faulted, exit, gdb, executed, connections, garbled>>
lockVars == <<rwVars, semVars>>
lifeVars == <<threadVars, tsdVars, codeVars>>
hostVars == <<registryVars, rspVars>>
progressVars == <<subject, lockVars, lifeVars, hostVars>>

-----------------------------------------------------------------------------
(* Action A of the part s, which leaves the other parts alone.             *)
InRwLock(A) ==
    /\ subject = "rwlock" /\ A
    /\ UNCHANGED <<subject, semVars, lifeVars, hostVars>>
InSem(A) ==
    /\ subject = "semaphore" /\ A
    /\ UNCHANGED <<subject, rwVars, lifeVars, hostVars>>
InThread(A) ==
    /\ subject = "thread" /\ A
    /\ UNCHANGED <<subject, lockVars, tsdVars, codeVars, hostVars>>
InTsd(A) ==
    /\ subject = "tsd" /\ A
    /\ UNCHANGED <<subject, lockVars, threadVars, codeVars, hostVars>>
InCode(A) ==
    /\ subject = "code" /\ A
    /\ UNCHANGED <<subject, lockVars, threadVars, tsdVars, hostVars>>
InRegistry(A) ==
    /\ subject = "registry" /\ A
    /\ UNCHANGED <<subject, lockVars, lifeVars, rspVars>>
InRsp(A) ==
    /\ subject = "rsp" /\ A
    /\ UNCHANGED <<subject, lockVars, lifeVars, registryVars>>

ProgressInit ==
    /\ subject \in {"rwlock", "semaphore", "thread", "tsd", "code",
                    "registry", "rsp"}
    /\ RwLock!Init /\ Sem!Init
    /\ Pthread!Init /\ Tsd!Init /\ Code!Init /\ Registry!Init /\ Rsp!Init
    /\ gThreads = <<FirstHost>>

ProgressNext ==
    \/ InRwLock(RwLock!Next)
    \/ InSem(Sem!Next) \/ InThread(Pthread!Next) \/ InTsd(Tsd!Next)
    \/ InCode(Code!Next) \/ InRegistry(Registry!Next) \/ InRsp(Rsp!Next)

(* Fairness, of corresponding steps of the parts together: subject never   *)
(* changes, so that this is the fairness of each part.  A thread inside a  *)
(* call takes its next step; one that has a lock gives it back, one that   *)
(* is in dynamic code leaves it, and every thread comes to pthread_exit.   *)
(* Spurious wake-ups without end could keep the mutex of a read-write lock *)
(* busy for ever, so that there are none here.                             *)
SandboxFairness ==
    /\ \A t \in Threads :
        /\ WF_progressVars(\/ InRwLock(RwLock!Step(t)) \/ InSem(Sem!Step(t))
                           \/ InThread(Pthread!Step(t)) \/ InTsd(Tsd!Step(t))
                           \/ InCode(Code!Step(t)))
        /\ WF_progressVars(\/ InRwLock(RwLock!UnlockCall(t))
                           \/ InThread(Pthread!Exit(t))
                           \/ InCode(Code!Leave(t)))
    /\ WF_progressVars(InThread(Pthread!Step(Main)))
    /\ WF_progressVars(InThread(Pthread!Exit(Main)))
    /\ WF_progressVars(InThread(Pthread!WaitForThreads))

(* A destructor returns, whatever it calls; a thread gets a mutex it goes  *)
(* on asking for; threads check in again and again, and the first of them  *)
(* retries every deletion, as dyncode_delete_with_retry of the tests does. *)
RetryFairness ==
    /\ \A t \in Threads :
        /\ SF_progressVars(InTsd(Tsd!DtorReturns(t)) \/ InCode(Code!Ask(t)))
        /\ SF_progressVars(InCode(Code!CheckInRead(t)))
    /\ \A b \in Code!Bundles :
        SF_progressVars(InCode(\E r \in dynamic_regions :
                                  r.start = b /\ Code!Retry(First, r)))

(* Host threads inside getThreadData(), the stub's thread and the one that *)
(* exits run, GDB reads what it is sent, and a lone thread comes to its    *)
(* breakpoint.                                                             *)
HostFairness ==
    /\ \A h \in Hosts : WF_progressVars(InRegistry(Registry!GetThreadData(h)))
    /\ WF_progressVars(InRsp(Rsp!StubStep))
    /\ WF_progressVars(InRsp(Rsp!ExitStep))
    /\ WF_progressVars(InRsp(Rsp!GdbReads))
    /\ WF_progressVars(InRsp(Rsp!Fault /\ ignoring # "no"))

ProgressSpec ==
    /\ ProgressInit /\ [][ProgressNext]_progressVars
    /\ SandboxFairness /\ RetryFairness /\ HostFairness

-----------------------------------------------------------------------------
(* What is asked for and not yet given, in the part a behaviour is about,  *)
(* and that it has been given.  One thread and one bundle stand for all:   *)
(* threads are interchangeable, except Main, First and FirstHost.          *)
InCall ==
    \/ subject = "rwlock" /\ rwPc[SomeThread] # "out"
    \/ subject = "thread" /\ tPc[SomeThread] = "wait"
    \/ subject = "tsd" /\ dPc[SomeThread] = "dtorread"
    \/ subject = "registry" /\ gPc[SomeHost] = "mmap"
    \/ subject = "rsp" /\ gdb.pc \in {"ack", "reply"} /\ suspended

CallReturned ==
    \/ subject = "rwlock" /\ rwPc[SomeThread] = "out"
    \/ subject = "thread" /\ (tPc[SomeThread] # "wait" \/ ~Pthread!Alive)
    \/ subject = "tsd" /\ dPc[SomeThread] = "done"
    \/ subject = "registry" /\ (gPc[SomeHost] = "use" \/ fatal # "none")
    \/ subject = "rsp" /\ (gdb.pc \notin {"ack", "reply"} \/ exit # "no")

Ending ==
    \/ subject = "thread" /\ tPc[Main] \in {"wait", "lastwait"}
    \/ subject = "code" /\ SomeBundle \in Code!BeingDeleted
    \/ subject = "rsp" /\ exit = "write" /\ gdb.pc = "running"

Ended ==
    \/ subject = "thread" /\ ~Pthread!Alive
    \/ subject = "code" /\ SomeBundle \notin Code!BeingDeleted
    \/ subject = "rsp" /\ exit = "done"

Interrupted == subject = "rsp" /\ gdb.pc = "running" /\ gdb.intr
Stopped == subject = "rsp" /\ (gdb.pc # "running" \/ exit # "no")

(* The buffer is full and read to its end: the socket is not watched.      *)
Unwatched == subject = "rsp" /\ stub.pc = "wait" /\ buf = << >> /\ pos = BufSize

Signalled ==
    \/ subject = "semaphore" /\ Sem!count > 0 /\ Sem!Sleepers # {}
    \/ Interrupted

Noticed ==
    \/ subject = "semaphore" /\ (Sem!count = 0 \/ Sem!Sleepers = {})
    \/ Stopped \/ Unwatched

(* What a thread or GDB has called returns: every call on a read-write     *)
(* lock, if what is locked is unlocked (nc_rwlock.c); pthread_join, if     *)
(* every thread exits (nc_thread.c); __nc_tsd_exit, although destructors   *)
(* store new values and keys come and go (nc_tsd.c); getThreadData(),      *)
(* whoever else is in it (dyn_ldr_lib.c); and a command sent to a stopped  *)
(* program, although packets are damaged and sent again (session.cc).      *)
CallsReturn == InCall ~> CallReturned

(* What ends comes to its end: the process, once the main thread waits for *)
(* the others in pthread_exit or joins one (nc_thread.c); a deletion of    *)
(* code that is retried, if all threads check in now and then, although    *)
(* new threads inherit old generations (nacl_text.c); a program that exits *)
(* under GDB, although the stub's thread watches the same socket           *)
(* (target.cc).                                                            *)
EndingsComplete == Ending ~> Ended

(* A signal gets through: units posted do not lie in a semaphore for ever  *)
(* while threads sleep on it, although sem_post wakes only one of them     *)
(* (nc_semaphore.c); an interrupt of GDB stops the program (target.cc),    *)
(* unless what came before it has filled the stub's buffer exactly and has *)
(* been read to the end when the stub waits (transport_common.cc:286).     *)
SignalsArrive == Signalled ~> Noticed
=============================================================================
