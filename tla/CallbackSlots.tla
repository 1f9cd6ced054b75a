--------------------------- MODULE CallbackSlots ---------------------------
(***************************************************************************)
(* The callback slots of one sandbox, on x86-64.  The host registers a     *)
(* function in a slot and hands the sandbox the address of the wrapper of  *)
(* that slot; sandboxed code calls the wrapper, whose system call          *)
(* NaClSysCallback runs what the slot holds.  No lock protects the slots:  *)
(* each read and each write of callbackSlot and callbackSlotState is a     *)
(* step of its own here.                                                   *)
(*                                                                         *)
(* Hosts are host threads that register and unregister; Guests are         *)
(* threads that run sandboxed code.  A registration is named by the        *)
(* function it registers: the address stored in callbackSlot and the value *)
(* stored in callbackSlotState are both that name, so that a mixture of    *)
(* two registrations shows.  `live' is the set of registrations the host   *)
(* holds (sandbox_callback_helper objects).                                *)
(***************************************************************************)
EXTENDS Naturals

CONSTANTS
    Hosts,        \* host threads
    Guests,       \* threads running sandboxed code
    Callbacks,    \* functions the host registers
    NULL,         \* an empty slot
    SlotCount     \* CALLBACK_SLOTS_AVAILABLE

CallbackSlotsAssumption ==
    /\ NULL \notin Callbacks
    /\ SlotCount \in Nat \ {0}

VARIABLES
    serialised,         \* does the host run one slot operation at a time?
    callbackSlot,       \* nap->callbackSlot
    callbackSlotState,  \* nap->callbackSlotState
    op,                 \* op[h]: the slot operation host thread h is in
    live,               \* registrations whose address the sandbox may call
    sys,                \* sys[g]: the NaClSysCallback guest thread g is in
    ended               \* why the process ended, or "no"

vars == <<serialised, callbackSlot, callbackSlotState, op, live, sys, ended>>

Slot == 0 .. SlotCount - 1
LastSlot == SlotCount - 1

Op == [pc      : {"idle", "scan", "register", "store_state",
                  "clear", "clear_state"},
       fn      : Callbacks \cup {NULL},
       slot    : 0 .. SlotCount,
       float   : BOOLEAN,      \* registerSandboxFloatCallbackWithState
       scanned : BOOLEAN]      \* slot found by getFreeSandboxCallbackSlot

Registration == [slot : Slot, fn : Callbacks]

Sys == [pc     : {"idle", "check", "load", "load_state", "run", "returned"},
        via    : Registration \cup {NULL},
        func   : Callbacks \cup {NULL},
        state  : Callbacks \cup {NULL},
        result : Callbacks \cup {NULL}]  \* what the wrapper returns; NULL: 0

NoOp == [pc |-> "idle", fn |-> NULL, slot |-> 0,
         float |-> FALSE, scanned |-> FALSE]

NoSys == [pc |-> "idle", via |-> NULL, func |-> NULL,
          state |-> NULL, result |-> NULL]

TypeOK ==
    /\ serialised \in BOOLEAN
    /\ callbackSlot \in [Slot -> Callbacks \cup {NULL}]
    /\ callbackSlotState \in [Slot -> Callbacks \cup {NULL}]
    /\ op \in [Hosts -> Op]
    /\ live \subseteq Registration
    /\ sys \in [Guests -> Sys]
    /\ ended \in {"no", "last_slot", "float_slot", "no_free_slot",
                  "no_callback"}

(* createDlSandbox clears callbackSlot; callbackSlotState comes zeroed     *)
(* with the NaClApp.  Whether a lock of the host program makes its slot    *)
(* operations run one at a time is settled before the first one.           *)
Init ==
    /\ serialised \in BOOLEAN
    /\ callbackSlot = [i \in Slot |-> NULL]
    /\ callbackSlotState = [i \in Slot |-> NULL]
    /\ op = [h \in Hosts |-> NoOp]
    /\ live = {}
    /\ sys = [g \in Guests |-> NoSys]
    /\ ended = "no"

(***************************************************************************)
(* What the host program does with the interface.                          *)
(***************************************************************************)
MayStart(h) ==
    /\ ended = "no"
    /\ op[h].pc = "idle"
    /\ serialised => \A k \in Hosts : op[k].pc = "idle"

(* A function is registered once at a time, so that its name identifies    *)
(* the registration.                                                       *)
InUse(f) ==
    \/ \E r \in live : r.fn = f
    \/ \E h \in Hosts : op[h].fn = f

End(why) ==
    /\ ended' = why
    /\ UNCHANGED <<callbackSlot, callbackSlotState, op, live, sys>>

Set(h, o) == op' = [op EXCEPT ![h] = o]

(* sandbox_callback: getFreeSandboxCallbackSlot starts at slot 0.          *)
SandboxCallback(h, f) ==
    /\ MayStart(h)
    /\ ~InUse(f)
    /\ Set(h, [NoOp EXCEPT !.pc = "scan", !.fn = f, !.scanned = TRUE])
    /\ UNCHANGED <<callbackSlot, callbackSlotState, live, sys, ended>>

(* A slip: every slot counts as free.                                      *)
ScanFreeMutant(h) ==
    /\ ended = "no"
    /\ op[h].pc = "scan"
    /\ op[h].slot < SlotCount
    /\ Set(h, [op[h] EXCEPT !.pc = "register"])
    /\ UNCHANGED <<callbackSlot, callbackSlotState, live, sys, ended>>

(* One iteration of the loop of getFreeSandboxCallbackSlot; after the last *)
(* one sandbox_callback ends the process through sandbox_error.            *)
ScanFree(h) ==
    /\ ended = "no"
    /\ op[h].pc = "scan"
    /\ op[h].slot < SlotCount
    /\ Set(h, IF callbackSlot[op[h].slot] = NULL
              THEN [op[h] EXCEPT !.pc = "register"]
              ELSE [op[h] EXCEPT !.slot = @ + 1])
    /\ UNCHANGED <<callbackSlot, callbackSlotState, live, sys, ended>>

ScanExhausted(h) ==
    /\ ended = "no"
    /\ op[h].pc = "scan"
    /\ op[h].slot = SlotCount
    /\ End("no_free_slot")

(* The C interface: the caller names the slot.  A slot that holds a        *)
(* registration is left alone by a correct caller; SlotCount stands for    *)
(* every slot number that does not exist, NULL for a null callback.        *)
RegisterAt(h, f, i, float) ==
    /\ MayStart(h)
    /\ f # NULL => ~InUse(f)
    /\ \A r \in live : r.slot # i
    /\ Set(h, [pc |-> "register", fn |-> f, slot |-> i,
               float |-> float, scanned |-> FALSE])
    /\ UNCHANGED <<callbackSlot, callbackSlotState, live, sys, ended>>

(***************************************************************************)
(* registerSandboxCallbackWithState and                                    *)
(* registerSandboxFloatCallbackWithState: the early returns, the aborts,   *)
(* and the two stores.                                                     *)
(***************************************************************************)
RefusesSlot(o) == (o.slot = LastSlot) # o.float

RegisterNothing(h) ==
    /\ ended = "no"
    /\ op[h].pc = "register"
    /\ \/ op[h].fn = NULL
       \/ ~RefusesSlot(op[h]) /\ op[h].slot >= SlotCount
    /\ Set(h, NoOp)
    /\ UNCHANGED <<callbackSlot, callbackSlotState, live, sys, ended>>

RegisterAbort(h) ==
    /\ ended = "no"
    /\ op[h].pc = "register"
    /\ op[h].fn # NULL
    /\ RefusesSlot(op[h])
    /\ End(IF op[h].float THEN "float_slot" ELSE "last_slot")

StoreCallback(h) ==
    /\ ended = "no"
    /\ op[h].pc = "register"
    /\ op[h].fn # NULL
    /\ ~RefusesSlot(op[h])
    /\ op[h].slot < SlotCount
    /\ callbackSlot' = [callbackSlot EXCEPT ![op[h].slot] = op[h].fn]
    /\ Set(h, [op[h] EXCEPT !.pc = "store_state"])
    /\ UNCHANGED <<callbackSlotState, live, sys, ended>>

(* A slip: the state is not stored.                                        *)
StoreStateMutant(h) ==
    /\ ended = "no"
    /\ op[h].pc = "store_state"
    /\ live' = live \cup {[slot |-> op[h].slot, fn |-> op[h].fn]}
    /\ Set(h, NoOp)
    /\ UNCHANGED <<callbackSlot, callbackSlotState, sys, ended>>

(* The second store; the address of the wrapper is returned, and the       *)
(* host may hand it to the sandbox.                                        *)
StoreState(h) ==
    /\ ended = "no"
    /\ op[h].pc = "store_state"
    /\ callbackSlotState' = [callbackSlotState EXCEPT ![op[h].slot] = op[h].fn]
    /\ live' = live \cup {[slot |-> op[h].slot, fn |-> op[h].fn]}
    /\ Set(h, NoOp)
    /\ UNCHANGED <<callbackSlot, sys, ended>>

(***************************************************************************)
(* ~sandbox_callback_helper: unregisterSandboxCallback.  The host ends a   *)
(* registration only when no sandboxed code is calling through it.         *)
(***************************************************************************)
Unregister(h, r) ==
    /\ MayStart(h)
    /\ r \in live
    /\ \A g \in Guests : sys[g].via # r
    /\ live' = live \ {r}
    /\ Set(h, [NoOp EXCEPT !.pc = "clear", !.fn = r.fn, !.slot = r.slot])
    /\ UNCHANGED <<callbackSlot, callbackSlotState, sys, ended>>

(* A slip: the slot is not cleared.                                        *)
ClearCallbackMutant(h) ==
    /\ ended = "no"
    /\ op[h].pc = "clear"
    /\ Set(h, [op[h] EXCEPT !.pc = "clear_state"])
    /\ UNCHANGED <<callbackSlot, callbackSlotState, live, sys, ended>>

ClearCallback(h) ==
    /\ ended = "no"
    /\ op[h].pc = "clear"
    /\ callbackSlot' = [callbackSlot EXCEPT ![op[h].slot] = NULL]
    /\ Set(h, [op[h] EXCEPT !.pc = "clear_state"])
    /\ UNCHANGED <<callbackSlotState, live, sys, ended>>

ClearState(h) ==
    /\ ended = "no"
    /\ op[h].pc = "clear_state"
    /\ callbackSlotState' = [callbackSlotState EXCEPT ![op[h].slot] = NULL]
    /\ Set(h, NoOp)
    /\ UNCHANGED <<callbackSlot, live, sys, ended>>

(***************************************************************************)
(* callbackFunctionWrapperN and NaClSysCallback: the slot is read once for *)
(* the check and once for the call, its state a third time.                *)
(***************************************************************************)
Update(g, s) ==
    /\ ended = "no"
    /\ sys' = [sys EXCEPT ![g] = s]
    /\ UNCHANGED <<callbackSlot, callbackSlotState, op, live, ended>>

CallWrapper(g, r) ==
    /\ sys[g].pc = "idle"
    /\ r \in live
    /\ Update(g, [NoSys EXCEPT !.pc = "check", !.via = r])

CheckSlot(g) ==
    /\ sys[g].pc = "check"
    /\ callbackSlot[sys[g].via.slot] # NULL
    /\ Update(g, [sys[g] EXCEPT !.pc = "load"])

CheckFails(g) ==
    /\ ended = "no"
    /\ sys[g].pc = "check"
    /\ callbackSlot[sys[g].via.slot] = NULL
    /\ End("no_callback")

LoadCallback(g) ==
    /\ sys[g].pc = "load"
    /\ Update(g, [sys[g] EXCEPT !.pc = "load_state",
                                !.func = callbackSlot[sys[g].via.slot]])

LoadState(g) ==
    /\ sys[g].pc = "load_state"
    /\ Update(g, [sys[g] EXCEPT
                     !.pc = "run",
                     !.state = callbackSlotState[sys[g].via.slot]])

(* The callback returns.  The wrapper of the last slot returns the float   *)
(* whose address it passed as floatRetAddr; the x86-64 branch of           *)
(* NaClSysCallback does not write it, so that it is still 0.               *)
SysReturn(g) ==
    /\ sys[g].pc = "run"
    /\ Update(g, [sys[g] EXCEPT
                     !.pc = "returned",
                     !.result = IF sys[g].via.slot = LastSlot
                                THEN NULL ELSE sys[g].func])

WrapperReturn(g) ==
    /\ sys[g].pc = "returned"
    /\ Update(g, NoSys)

HostStep(h) ==
    \/ \E f \in Callbacks : SandboxCallback(h, f)
    \/ ScanFree(h)
    \/ ScanExhausted(h)
    \/ \E f \in Callbacks \cup {NULL}, i \in 0 .. SlotCount,
         float \in BOOLEAN : RegisterAt(h, f, i, float)
    \/ RegisterNothing(h)
    \/ RegisterAbort(h)
    \/ StoreCallback(h)
    \/ StoreState(h)
    \/ \E r \in live : Unregister(h, r)
    \/ ClearCallback(h)
    \/ ClearState(h)

GuestStep(g) ==
    \/ \E r \in live : CallWrapper(g, r)
    \/ CheckSlot(g)
    \/ CheckFails(g)
    \/ LoadCallback(g)
    \/ LoadState(g)
    \/ SysReturn(g)
    \/ WrapperReturn(g)

Next ==
    /\ \/ \E h \in Hosts : HostStep(h)
       \/ \E g \in Guests : GuestStep(g)
    /\ UNCHANGED serialised

Spec == Init /\ [][Next]_vars

-----------------------------------------------------------------------------
(* The address a registration returned is valid: what runs when sandboxed  *)
(* code calls it is the function registered there, with the state          *)
(* registered with it.  NaClSysCallback reads the slot three times while   *)
(* other threads register and unregister (nacl_syscall_common.c:317,       *)
(* 396-397), and getFreeSandboxCallbackSlot and the two stores are         *)
(* separate steps.                                                         *)
CallbackReachesOwner ==
    \A g \in Guests : sys[g].pc = "run" =>
        /\ sys[g].func = sys[g].via.fn
        /\ sys[g].state = sys[g].via.fn

(* Sandboxed code that calls an address it was given never ends the        *)
(* process with "Could not find callback" (nacl_syscall_common.c:420).     *)
NoCallbackMissing == ended # "no_callback"

(* Slots neither leak nor are shared: when no operation is under way, the  *)
(* slots in use are exactly those of the live registrations, one each.     *)
SlotsAccounted ==
    (\A h \in Hosts : op[h].pc = "idle") =>
        /\ \A i \in Slot : callbackSlot[i] # NULL <=>
                              \E r \in live : r.slot = i
        /\ \A q, r \in live : q.slot = r.slot => q = r

(* Even when threads race, no slot is lost for ever: a slot in use belongs *)
(* to the live registration whose function it holds, or to an operation    *)
(* that is about to make it live or to clear it, so that                   *)
(* getFreeSandboxCallbackSlot can find it again once the host has          *)
(* unregistered everything.                                                *)
NoSlotLeak ==
    \A i \in Slot : callbackSlot[i] # NULL =>
        \/ [slot |-> i, fn |-> callbackSlot[i]] \in live
        \/ \E h \in Hosts : /\ op[h].pc \in {"store_state", "clear"}
                            /\ op[h].slot = i
                            /\ op[h].fn = callbackSlot[i]
=============================================================================
