------------------------------ MODULE MCThreads ------------------------------
(***************************************************************************)
(* The threads of sandboxed code and what comes and goes under them, for   *)
(* TLC: code that is loaded, changed and unloaded while they run           *)
(* (DynamicCode, the variables this module extends); thread-specific data  *)
(* when keys are created and deleted by several threads at once (Tsd) and  *)
(* when the application serialises that (Ordered); creation, exit, join    *)
(* and detach with the cache of stacks (Pthread).  No state is shared      *)
(* between these parts; subject names the one a behaviour is about, and    *)
(* the others stay where they start.                                       *)
(***************************************************************************)
EXTENDS DynamicCode, TLC

CONSTANTS
    Users,                   \* threads that use the pthread library
    KEYS_MAX, UINT_MAX, OrderedKeys, OrderedUintMax, ITERATIONS,
    Main, Blocks, NoBlock, Sizes, MaxCached

VARIABLES
    subject,
    generation, dtor, tsd, value, vgen, tsdPc, mode, key, tsdGen, arg, ekey,
    edtor, evalue, repeat, did_any, incarnation, published, wanted,
    oGeneration, oDtor, oTsd, oValue, oVgen, oPc, oMode, oKey, oGen, oArg,
    oEkey, oEdtor, oEvalue, oRepeat, oDidAny, oIncarnation, oPublished,
    oWanted,
    threadPc, target, creator, basic_data, tdb, threadStatus, joinable,
    join_waiting, woken, stack_node, stackSize, is_used, stack_blocks,
    allocated, running_threads_counter, called, returned

Tsd == INSTANCE PthreadTsdProofs WITH
    Threads <- Users, Serialised <- FALSE, pc <- tsdPc, gen <- tsdGen

Ordered == INSTANCE PthreadTsdProofs WITH
    Threads <- Users, Serialised <- TRUE,
    KEYS_MAX <- OrderedKeys, UINT_MAX <- OrderedUintMax,
    generation <- oGeneration, dtor <- oDtor, tsd <- oTsd, value <- oValue,
    vgen <- oVgen, pc <- oPc, mode <- oMode, key <- oKey, gen <- oGen,
    arg <- oArg, ekey <- oEkey, edtor <- oEdtor, evalue <- oEvalue,
    repeat <- oRepeat, did_any <- oDidAny, incarnation <- oIncarnation,
    published <- oPublished, wanted <- oWanted

Pthread == INSTANCE PthreadThread WITH
    Others <- Users, pc <- threadPc, status <- threadStatus,
    size <- stackSize, OneCaller <- TRUE

ASSUME MCThreadsAssumption ==
    /\ DynamicCodeAssumption
    /\ Tsd!PthreadTsdAssumption /\ Ordered!PthreadTsdAssumption
    /\ Pthread!PthreadThreadAssumption

tsdVars == <<generation, dtor, tsd, value, vgen, tsdPc, mode, key, tsdGen,
             arg, ekey, edtor, evalue, repeat, did_any, incarnation,
             published, wanted>>
orderedVars == <<oGeneration, oDtor, oTsd, oValue, oVgen, oPc, oMode, oKey,
                 oGen, oArg, oEkey, oEdtor, oEvalue, oRepeat, oDidAny,
                 oIncarnation, oPublished, oWanted>>
threadVars == <<threadPc, target, creator, basic_data, tdb, threadStatus,
                joinable, join_waiting, woken, stack_node, stackSize, is_used,
                stack_blocks, allocated, running_threads_counter, called,
                returned>>
lifeVars == <<subject, vars, tsdVars, orderedVars, threadVars>>

LifeInit ==
    /\ subject \in {"tsd", "ordered", "thread", "code"}
    /\ Init /\ Tsd!Init /\ Ordered!Init /\ Pthread!Init

LifeNext ==
    \/ /\ subject = "code" /\ Next
       /\ UNCHANGED <<subject, tsdVars, orderedVars, threadVars>>
    \/ /\ subject = "tsd" /\ Tsd!Next
       /\ UNCHANGED <<subject, vars, orderedVars, threadVars>>
    \/ /\ subject = "ordered" /\ Ordered!Next
       /\ UNCHANGED <<subject, vars, tsdVars, threadVars>>
    \/ /\ subject = "thread" /\ Pthread!Next
       /\ UNCHANGED <<subject, vars, tsdVars, orderedVars>>

LifeSpec == LifeInit /\ [][LifeNext]_lifeVars

(* Threads are interchangeable, and so are blocks.                         *)
LifeSymmetry == Permutations(Users) \cup Permutations(Blocks)

-----------------------------------------------------------------------------
(* However keys are created and deleted under the threads that use them    *)
(* (nc_tsd.c): a key has one creator, and values and destructors belong    *)
(* together.                                                               *)
TsdCorrect == subject = "tsd" => Tsd!TsdCorrect

(* If the application creates and deletes one key at a time, __nc_tsd_exit *)
(* leaves a value behind only when destructors have kept storing new ones  *)
(* in every pass (nc_tsd.c).                                               *)
OrderedDestructorsRun == subject = "ordered" => Ordered!DestructorsRun

(* Threads (nc_thread.c): if each is joined or detached by one caller,     *)
(* nobody looks at its data after they were freed, and they are released   *)
(* in the end whichever of exit, join and detach comes last; a stack that  *)
(* is cached and given to a new thread is one its old thread has left for  *)
(* good; "the thread count will never be lower than the actual number of   *)
(* threads", so that the last thread to exit is known.                     *)
ThreadsCorrect ==
    subject = "thread" =>
        /\ Pthread!TypeOK
        /\ Pthread!NoUseAfterFree
        /\ Pthread!DataReleased
        /\ Pthread!StacksDisjoint
        /\ Pthread!CountNeverLow

(* Dynamic code (nacl_text.c): a thread that has entered a bundle finds    *)
(* the rest of the code it has entered, although others load and unload    *)
(* code there; sandboxed code can enter only code of a region whose        *)
(* deletion has not been requested, and no page that has not been filled;  *)
(* the CHECKs on generations and fresh pages hold, and a cached mapping    *)
(* covers only pages that have been made accessible.                       *)
CodeCorrect ==
    subject = "code" =>
        /\ TypeOK
        /\ NoTornCode
        /\ EntryOnlyInRegions
        /\ SanityChecks
=============================================================================
