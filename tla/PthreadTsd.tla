----------------------------- MODULE PthreadTsd -----------------------------
(***************************************************************************)
(* Thread-specific data of the pthread library for sandboxed code          *)
(* (nc_tsd.c).  There is no lock: a key is allocated while its generation  *)
(* is odd, and a compare-and-swap moves the generation on.  The destructor *)
(* of a key is a second word, written after the swap, and a thread that    *)
(* exits reads the two words one after the other.                          *)
(*                                                                         *)
(* Every access to a shared word is a step of its own.  A destructor and a *)
(* value stand for the incarnation of the key (the how manieth creation)   *)
(* that they were given for; 0 is NULL.  Applications use a key from the   *)
(* return of pthread_key_create until its deletion, so that a call begins  *)
(* while the key is published; a destructor may make any call.             *)
(***************************************************************************)
EXTENDS Naturals

CONSTANTS
    Threads,
    KEYS_MAX,        \* PTHREAD_KEYS_MAX
    UINT_MAX,        \* the largest generation
    ITERATIONS,      \* PTHREAD_DESTRUCTOR_ITERATIONS
    Serialised       \* the application creates and deletes one key at a time

PthreadTsdAssumption ==
    /\ KEYS_MAX \in Nat \ {0}
    /\ UINT_MAX \in Nat /\ UINT_MAX % 2 = 1
    /\ ITERATIONS \in Nat \ {0}
    /\ Serialised \in BOOLEAN

VARIABLES
    generation, dtor,   \* fields of tsd_keys
    tsd,                \* tsd[t]: tsd is not NULL in thread t
    value, vgen,        \* fields value and generation of tsd->values[k]
    pc,                 \* pc[t]: next step of t, "idle" in application code
    mode,               \* mode[t]: "run", or "dtor" in a destructor
    key, gen,           \* locals of the key and value functions
    arg,                \* the destructor or the value that is passed
    ekey, edtor, evalue, repeat, did_any,     \* locals of __nc_tsd_exit
    incarnation,        \* incarnation[k]: creations of k so far
    published,          \* published[k]: pthread_key_create has returned k
    wanted              \* wanted[k]: k has been created with a destructor

keys == <<generation, dtor, incarnation, published, wanted>>
mine == <<tsd, value, vgen>>
locals == <<key, gen, arg>>
exits == <<mode, ekey, edtor, evalue, repeat, did_any>>
vars == <<keys, mine, pc, locals, exits>>

Keys == 1 .. KEYS_MAX
NULL == 0
Generation == 0 .. UINT_MAX - 1
Pass == 0 .. ITERATIONS - 1
KEY_ALLOCATED(g) == g % 2 = 1
Succ(g) == (g + 1) % (UINT_MAX + 1)

Creating == {"scan", "cas", "store"}
Deleting == {"delcas", "delclear"}

TypeOK ==
    /\ generation \in [Keys -> Generation]
    /\ dtor \in [Keys -> Nat]
    /\ tsd \in [Threads -> BOOLEAN]
    /\ value \in [Threads -> [Keys -> Nat]]
    /\ vgen \in [Threads -> [Keys -> Generation]]
    /\ pc \in [Threads -> {"idle", "set", "dtorread", "genread", "free",
                           "done"} \cup Creating \cup Deleting]
    /\ mode \in [Threads -> {"run", "dtor"}]
    /\ key \in [Threads -> Keys] /\ ekey \in [Threads -> Keys]
    /\ gen \in [Threads -> Generation]
    /\ arg \in [Threads -> Nat]
    /\ edtor \in [Threads -> Nat] /\ evalue \in [Threads -> Nat]
    /\ repeat \in [Threads -> Pass]
    /\ did_any \in [Threads -> BOOLEAN]
    /\ incarnation \in [Keys -> Nat]
    /\ published \in [Keys -> BOOLEAN] /\ wanted \in [Keys -> BOOLEAN]

Init ==
    /\ generation = [k \in Keys |-> 0]
    /\ dtor = [k \in Keys |-> NULL]
    /\ tsd = [t \in Threads |-> FALSE]
    /\ value = [t \in Threads |-> [k \in Keys |-> NULL]]
    /\ vgen = [t \in Threads |-> [k \in Keys |-> 0]]
    /\ pc = [t \in Threads |-> "idle"]
    /\ mode = [t \in Threads |-> "run"]
    /\ key = [t \in Threads |-> 1]
    /\ gen = [t \in Threads |-> 0]
    /\ arg = [t \in Threads |-> 0]
    /\ ekey = [t \in Threads |-> 1]
    /\ edtor = [t \in Threads |-> NULL]
    /\ evalue = [t \in Threads |-> NULL]
    /\ repeat = [t \in Threads |-> 0]
    /\ did_any = [t \in Threads |-> FALSE]
    /\ incarnation = [k \in Keys |-> 0]
    /\ published = [k \in Keys |-> FALSE]
    /\ wanted = [k \in Keys |-> FALSE]

Go(t, to) == pc' = [pc EXCEPT ![t] = to]

(* A function returns to the application, and its locals are gone.         *)
Return(t) ==
    /\ Go(t, "idle")
    /\ key' = [key EXCEPT ![t] = 1]
    /\ gen' = [gen EXCEPT ![t] = 0]
    /\ arg' = [arg EXCEPT ![t] = 0]

(* Nobody else is in pthread_key_create or pthread_key_delete.             *)
MayChangeKeys(t) ==
    Serialised => \A u \in Threads : pc[u] \notin Creating \cup Deleting

-----------------------------------------------------------------------------
(* pthread_key_create                                                      *)

(* arg tells whether a destructor is passed.                               *)
CreateCall(t, withDtor) ==
    /\ pc[t] = "idle" /\ MayChangeKeys(t)
    /\ Go(t, "scan")
    /\ key' = [key EXCEPT ![t] = 1]
    /\ arg' = [arg EXCEPT ![t] = IF withDtor THEN 1 ELSE 0]
    /\ UNCHANGED <<keys, mine, gen, exits>>

(* On to the next key, or EAGAIN.                                          *)
NextScan(t) ==
    IF key[t] < KEYS_MAX
    THEN /\ Go(t, "scan")
         /\ key' = [key EXCEPT ![t] = @ + 1]
         /\ UNCHANGED <<gen, arg>>
    ELSE Return(t)

(* A slip: the last even generation can be used again.                     *)
UsableForEver(g) == ~KEY_ALLOCATED(g)

Usable(g) == ~KEY_ALLOCATED(g) /\ g # UINT_MAX - 1

Scan(t) ==
    LET g == generation[key[t]]
    IN  /\ pc[t] = "scan"
        /\ IF Usable(g)
           THEN /\ Go(t, "cas")
                /\ gen' = [gen EXCEPT ![t] = g]
                /\ UNCHANGED <<key, arg>>
           ELSE NextScan(t)
        /\ UNCHANGED <<keys, mine, exits>>

(* A slip: the generation is stored without looking at it again.           *)
CreateStore(t) ==
    LET k == key[t]
    IN  /\ pc[t] = "cas"
        /\ generation' = [generation EXCEPT ![k] = Succ(gen[t])]
        /\ incarnation' = [incarnation EXCEPT ![k] = @ + 1]
        /\ Go(t, "store")
        /\ UNCHANGED <<dtor, published, wanted, key, mine, gen, arg, exits>>

CreateCas(t) ==
    LET k == key[t]
    IN  /\ pc[t] = "cas"
        /\ IF generation[k] = gen[t]
           THEN /\ generation' = [generation EXCEPT ![k] = Succ(gen[t])]
                /\ incarnation' = [incarnation EXCEPT ![k] = @ + 1]
                /\ Go(t, "store")
                /\ UNCHANGED locals
           ELSE /\ NextScan(t)
                /\ UNCHANGED <<generation, incarnation>>
        /\ UNCHANGED <<dtor, published, wanted, mine, exits>>

CreateReturns(t) ==
    LET k == key[t]
    IN  /\ pc[t] = "store"
        /\ dtor' = [dtor EXCEPT
                    ![k] = IF arg[t] = 1 THEN incarnation[k] ELSE NULL]
        /\ wanted' = [wanted EXCEPT ![k] = arg[t] = 1]
        /\ published' = [published EXCEPT ![k] = TRUE]
        /\ Return(t)
        /\ UNCHANGED <<generation, incarnation, mine, exits>>

-----------------------------------------------------------------------------
(* pthread_key_delete; EINVAL changes nothing                              *)

DeleteCall(t, k) ==
    /\ pc[t] = "idle" /\ MayChangeKeys(t)
    /\ published[k] /\ KEY_ALLOCATED(generation[k])
    /\ key' = [key EXCEPT ![t] = k]
    /\ gen' = [gen EXCEPT ![t] = generation[k]]
    /\ Go(t, "delcas")
    /\ UNCHANGED <<keys, mine, arg, exits>>

(* If the swap fails, somebody else has deleted the key.                   *)
DeleteCas(t) ==
    LET k == key[t]
    IN  /\ pc[t] = "delcas"
        /\ IF generation[k] = gen[t]
           THEN /\ generation' = [generation EXCEPT ![k] = Succ(gen[t])]
                /\ published' = [published EXCEPT ![k] = FALSE]
                /\ Go(t, "delclear")
                /\ UNCHANGED locals
           ELSE Return(t) /\ UNCHANGED <<generation, published>>
        /\ UNCHANGED <<dtor, incarnation, wanted, mine, exits>>

DeleteReturns(t) ==
    /\ pc[t] = "delclear"
    /\ dtor' = [dtor EXCEPT ![key[t]] = NULL]
    /\ Return(t)
    /\ UNCHANGED <<generation, incarnation, published, wanted, mine, exits>>

-----------------------------------------------------------------------------
(* pthread_setspecific and pthread_getspecific                             *)

(* A NULL value does not allocate the array.                               *)
SetCall(t, k, null) ==
    /\ pc[t] = "idle"
    /\ published[k] /\ KEY_ALLOCATED(generation[k])
    /\ tsd[t] \/ ~null
    /\ key' = [key EXCEPT ![t] = k]
    /\ gen' = [gen EXCEPT ![t] = generation[k]]
    /\ arg' = [arg EXCEPT ![t] = IF null THEN NULL ELSE incarnation[k]]
    /\ Go(t, "set")
    /\ UNCHANGED <<keys, mine, exits>>

(* A slip: the generation is read only when the value is stored.           *)
SetReturnsLate(t) ==
    /\ pc[t] = "set"
    /\ tsd' = [tsd EXCEPT ![t] = TRUE]
    /\ vgen' = [vgen EXCEPT ![t][key[t]] = generation[key[t]]]
    /\ value' = [value EXCEPT ![t][key[t]] = arg[t]]
    /\ Return(t)
    /\ UNCHANGED <<keys, exits>>

SetReturns(t) ==
    /\ pc[t] = "set"
    /\ tsd' = [tsd EXCEPT ![t] = TRUE]
    /\ vgen' = [vgen EXCEPT ![t][key[t]] = gen[t]]
    /\ value' = [value EXCEPT ![t][key[t]] = arg[t]]
    /\ Return(t)
    /\ UNCHANGED <<keys, exits>>

GetSpecific(t, k) ==
    IF ~tsd[t] \/ vgen[t][k] # generation[k]
    THEN NULL
    ELSE value[t][k]

-----------------------------------------------------------------------------
(* __nc_tsd_exit                                                           *)

ExitCall(t) ==
    /\ pc[t] = "idle" /\ mode[t] = "run"
    /\ Go(t, IF tsd[t] THEN "dtorread" ELSE "done")
    /\ UNCHANGED <<keys, mine, locals, exits>>

(* A slip: a pass that called a destructor counts as one that did not.     *)
NextKeyOnce(t) ==
    IF ekey[t] < KEYS_MAX
    THEN /\ ekey' = [ekey EXCEPT ![t] = @ + 1]
         /\ Go(t, "dtorread")
         /\ UNCHANGED <<repeat, did_any>>
    ELSE Go(t, "free") /\ did_any' = [did_any EXCEPT ![t] = FALSE]
                       /\ UNCHANGED <<ekey, repeat>>

(* A slip: destructors are called as long as there are values.             *)
NextKeyUnlimited(t) ==
    IF ekey[t] < KEYS_MAX
    THEN /\ ekey' = [ekey EXCEPT ![t] = @ + 1]
         /\ Go(t, "dtorread")
         /\ UNCHANGED <<repeat, did_any>>
    ELSE IF did_any[t]
    THEN /\ ekey' = [ekey EXCEPT ![t] = 1]
         /\ did_any' = [did_any EXCEPT ![t] = FALSE]
         /\ Go(t, "dtorread")
         /\ UNCHANGED repeat
    ELSE Go(t, "free") /\ UNCHANGED <<ekey, repeat, did_any>>

(* The next key, the next pass if this one has called a destructor and     *)
(* there may be another, or the end.                                       *)
NextKey(t) ==
    IF ekey[t] < KEYS_MAX
    THEN /\ ekey' = [ekey EXCEPT ![t] = @ + 1]
         /\ Go(t, "dtorread")
         /\ UNCHANGED <<repeat, did_any>>
    ELSE IF did_any[t] /\ repeat[t] + 1 < ITERATIONS
    THEN /\ ekey' = [ekey EXCEPT ![t] = 1]
         /\ repeat' = [repeat EXCEPT ![t] = @ + 1]
         /\ did_any' = [did_any EXCEPT ![t] = FALSE]
         /\ Go(t, "dtorread")
    ELSE Go(t, "free") /\ UNCHANGED <<ekey, repeat, did_any>>

ReadDtor(t) ==
    /\ pc[t] = "dtorread"
    /\ edtor' = [edtor EXCEPT ![t] = dtor[ekey[t]]]
    /\ Go(t, "genread")
    /\ UNCHANGED <<keys, mine, locals, mode, ekey, evalue, repeat,
                   did_any>>

Destroys(t) ==
    LET k == ekey[t]
    IN  /\ edtor[t] # NULL
        /\ KEY_ALLOCATED(generation[k])
        /\ vgen[t][k] = generation[k]
        /\ value[t][k] # NULL

(* A slip: the generation of the value is looked at, not that of the key.  *)
ReadGenerationFirst(t) ==
    LET k == ekey[t]
    IN  /\ pc[t] = "genread"
        /\ IF /\ dtor[k] # NULL
              /\ vgen[t][k] % 2 = 1
              /\ value[t][k] # NULL
           THEN /\ edtor' = [edtor EXCEPT ![t] = dtor[k]]
                /\ evalue' = [evalue EXCEPT ![t] = value[t][k]]
                /\ value' = [value EXCEPT ![t][k] = NULL]
                /\ did_any' = [did_any EXCEPT ![t] = TRUE]
                /\ mode' = [mode EXCEPT ![t] = "dtor"]
                /\ Go(t, "idle")
                /\ UNCHANGED <<ekey, repeat>>
           ELSE NextKey(t) /\ UNCHANGED <<edtor, evalue, value, mode>>
        /\ UNCHANGED <<keys, tsd, vgen, locals>>

(* The generation is read last, and the destructor called if both words    *)
(* belong to the value.                                                    *)
ReadGeneration(t) ==
    LET k == ekey[t]
    IN  /\ pc[t] = "genread"
        /\ IF Destroys(t)
           THEN /\ evalue' = [evalue EXCEPT ![t] = value[t][k]]
                /\ value' = [value EXCEPT ![t][k] = NULL]
                /\ did_any' = [did_any EXCEPT ![t] = TRUE]
                /\ mode' = [mode EXCEPT ![t] = "dtor"]
                /\ Go(t, "idle")
                /\ UNCHANGED <<ekey, repeat>>
           ELSE NextKey(t) /\ UNCHANGED <<evalue, value, mode>>
        /\ UNCHANGED <<keys, tsd, vgen, locals, edtor>>

DtorReturns(t) ==
    /\ pc[t] = "idle" /\ mode[t] = "dtor"
    /\ mode' = [mode EXCEPT ![t] = "run"]
    /\ evalue' = [evalue EXCEPT ![t] = NULL]
    /\ edtor' = [edtor EXCEPT ![t] = NULL]
    /\ NextKey(t)
    /\ UNCHANGED <<keys, mine, locals>>

Free(t) ==
    /\ pc[t] = "free"
    /\ tsd' = [tsd EXCEPT ![t] = FALSE]
    /\ value' = [value EXCEPT ![t] = [k \in Keys |-> NULL]]
    /\ vgen' = [vgen EXCEPT ![t] = [k \in Keys |-> 0]]
    /\ Go(t, "done")
    /\ UNCHANGED <<keys, locals, exits>>

-----------------------------------------------------------------------------
Step(t) ==
    \/ Scan(t) \/ CreateCas(t) \/ CreateReturns(t)
    \/ DeleteCas(t) \/ DeleteReturns(t) \/ SetReturns(t)
    \/ ReadDtor(t) \/ ReadGeneration(t) \/ Free(t)

Terminated == (\A t \in Threads : pc[t] = "done") /\ UNCHANGED vars

Next ==
    \/ \E t \in Threads :
        \/ \E d \in BOOLEAN : CreateCall(t, d)
        \/ \E k \in Keys : DeleteCall(t, k) \/ \E n \in BOOLEAN : SetCall(t, k, n)
        \/ ExitCall(t) \/ DtorReturns(t) \/ Step(t)
    \/ Terminated

Spec == Init /\ [][Next]_vars

-----------------------------------------------------------------------------
(* A key is in the hands of one creator: pthread_key_create never gives    *)
(* the same key to two callers.                                            *)
KeysUnique ==
    \A t, u \in Threads :
        pc[t] = "store" /\ pc[u] = "store" /\ key[t] = key[u] => t = u

(* pthread_getspecific returns only what the thread has stored under this  *)
(* incarnation of the key, although the number of a deleted key is used    *)
(* again at once and values of deleted keys are left where they are.       *)
NoStaleValue ==
    \A t \in Threads, k \in Keys :
        LET v == GetSpecific(t, k)
        IN  v # NULL => KEY_ALLOCATED(generation[k]) /\ v = incarnation[k]

(* A destructor is called with values of its own key only, although the    *)
(* key may be deleted and created again between the two reads of           *)
(* __nc_tsd_exit.                                                          *)
DtorOwnsValue ==
    \A t \in Threads : mode[t] = "dtor" => edtor[t] = evalue[t]

(* The cleanup function "is called if the thread terminates while the key  *)
(* is still allocated" (pthread.h): a value is left behind only when the   *)
(* destructors have kept storing new ones in every pass.                   *)
DestructorsRun ==
    \A t \in Threads, k \in Keys :
        /\ pc[t] = "free"
        /\ GetSpecific(t, k) # NULL
        /\ published[k] /\ wanted[k]
        => did_any[t]

(* However keys are created and deleted under the threads that use them:   *)
(* a key has one creator, and values and destructors belong together.      *)
TsdCorrect == TypeOK /\ KeysUnique /\ NoStaleValue /\ DtorOwnsValue
=============================================================================
