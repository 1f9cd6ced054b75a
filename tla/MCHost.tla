------------------------------- MODULE MCHost -------------------------------
(***************************************************************************)
(* What the host side of a sandbox shares between its threads, for TLC:    *)
(* the table and the map of thread contexts (ThreadRegistry, the variables *)
(* this module extends), the callback slots (Slots), and the session of    *)
(* the debug stub with GDB (Rsp).  No state is shared between these parts; *)
(* subject names the one a behaviour is about, and the others stay where   *)
(* they start.  In "registry" the threads of the host are alone, in "crew" *)
(* some of them work beside threads that sandboxed code starts.            *)
(***************************************************************************)
EXTENDS ThreadRegistry

CONSTANTS
    FirstHost,                      \* who made the sandbox, where it is idle
    CrewHosts,                      \* hosts with threads of sandboxed code
    Guests, Callbacks, SlotCount,
    RacingGuests, RacingCallbacks,  \* those of a host that does not
                                    \* serialise its slot operations
    MaxCommands, MaxConnections, MaxGarbled, BufSize

VARIABLES
    subject,
    serialised, callbackSlot, callbackSlotState, op, live, sys, ended,
    toStub, toGdb, buf, pos, conn, stubThread, suspended, ignoring, faulted,
    exit, gdb, executed, connections, garbled

Slots == INSTANCE CallbackSlots WITH Hosts <- CrewHosts

Rsp == INSTANCE RspSession WITH stub <- stubThread, GarbleReports <- TRUE

ASSUME MCHostAssumption ==
    /\ FirstHost \in HostThreads \cap CrewHosts
    /\ Slots!CallbackSlotsAssumption
    /\ Rsp!RspAssumption

slotVars == <<serialised, callbackSlot, callbackSlotState, op, live, sys, ended>>
rspVars == <<toStub, toGdb, buf, pos, conn, stubThread, suspended, ignoring,
             faulted, exit, gdb, executed, connections, garbled>>
hostSideVars == <<subject, vars, slotVars, rspVars>>

HostSideInit ==
    /\ subject \in {"registry", "crew", "slots", "rsp"}
    /\ Init
    /\ subject = "crew" => threads[1] \in CrewHosts /\ stale \subseteq CrewHosts
    /\ subject # "crew" => stale = {}
    /\ subject \notin {"registry", "crew"} => threads = <<FirstHost>>
    /\ Slots!Init
    /\ subject # "slots" => serialised
    /\ Rsp!Init

(* Sandboxed code starts no threads; or it does, and there are fewer       *)
(* threads of the host.                                                    *)
HostsAlone == \A w \in Workers : pc'[w] = pc[w]
CrewBound == \A h \in HostThreads \ CrewHosts : pc'[h] = pc[h]

(* A host that does not serialise its slot operations has more of them     *)
(* under way, and therefore fewer threads and functions.                   *)
RacingBound ==
    /\ \A h \in CrewHosts : op'[h].fn \in RacingCallbacks \cup {NULL}
    /\ \A g \in Guests \ RacingGuests : sys'[g] = sys[g]

HostSideNext ==
    \/ /\ Next
       /\ \/ subject = "registry" /\ HostsAlone
          \/ subject = "crew" /\ CrewBound
       /\ UNCHANGED <<subject, slotVars, rspVars>>
    \/ /\ subject = "slots" /\ Slots!Next /\ (serialised \/ RacingBound)
       /\ UNCHANGED <<subject, vars, rspVars>>
    \/ /\ subject = "rsp" /\ Rsp!Next
       /\ UNCHANGED <<subject, vars, slotVars>>

HostSideSpec == HostSideInit /\ [][HostSideNext]_hostSideVars

-----------------------------------------------------------------------------
(* When sandboxed code starts no threads, every host thread gets its own   *)
(* context, and destruction deletes each once (dyn_ldr_lib.c).             *)
HostContextsCorrect == subject # "crew" => ContextsCorrect

(* Callback slots (dyn_ldr_lib.c, nacl_syscall_common.c): if the host      *)
(* serialises registering and unregistering, sandboxed code that calls an  *)
(* address runs the function registered there with its state, is never     *)
(* told that there is none, and the slots in use are those of the live     *)
(* registrations; even if the host does not, no slot is lost for ever.     *)
SlotsCorrect ==
    /\ Slots!TypeOK /\ Slots!NoSlotLeak
    /\ serialised => /\ Slots!CallbackReachesOwner
                     /\ Slots!NoCallbackMissing
                     /\ Slots!SlotsAccounted

(* The session with GDB (session.cc, transport_common.cc, target.cc): a    *)
(* command is executed at most once and in order, what GDB takes for its   *)
(* answer answers it, and no byte of a connection is left in the buffer    *)
(* for the next, although packets are damaged and sent again, connections  *)
(* break in the middle of one, and Disconnect does not empty the buffer.   *)
SessionCorrect ==
    Rsp!TypeOK /\ Rsp!AtMostOnce /\ Rsp!ReplyMatches /\ Rsp!NewSessionClean
=============================================================================
