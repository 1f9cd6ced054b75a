-------------------------- MODULE PthreadTsdProofs --------------------------
(***************************************************************************)
(* Proofs about PthreadTsd, for any number of threads, keys, generations   *)
(* and passes of __nc_tsd_exit.                                            *)
(*                                                                         *)
(* The generation of a key counts its creations and deletions, as long as  *)
(* it does not wrap around.  So whoever has remembered an odd generation,  *)
(* which is the current one, has found the key published and it still is;  *)
(* a published key has its own destructor or none.  This is what makes the *)
(* order of the two reads in __nc_tsd_exit right.                          *)
(***************************************************************************)
EXTENDS PthreadTsd, TLAPS

(* What an incarnation is, and what a key that is in use looks like.       *)
KeysConsistent ==
    \A k \in Keys :
        /\ KEY_ALLOCATED(generation[k]) =>
             generation[k] + 1 = 2 * incarnation[k]
        /\ ~KEY_ALLOCATED(generation[k]) =>
             generation[k] = 2 * incarnation[k]
        /\ published[k] => /\ KEY_ALLOCATED(generation[k])
                           /\ dtor[k] \in {NULL, incarnation[k]}

(* An odd generation that was read while key k was published.              *)
Seen(g, k) ==
    /\ KEY_ALLOCATED(g)
    /\ g <= generation[k]
    /\ g = generation[k] => published[k]

(* What the locals of the functions hold.                                  *)
LocalsOK(t) ==
    /\ pc[t] = "cas" => Usable(gen[t])
    /\ pc[t] = "store" => /\ KEY_ALLOCATED(generation[key[t]])
                          /\ ~published[key[t]]
    /\ pc[t] \in {"delcas", "set"} => Seen(gen[t], key[t])
    /\ pc[t] = "set" /\ arg[t] # NULL => 2 * arg[t] = gen[t] + 1

LocalsConsistent == \A t \in Threads : LocalsOK(t)

(* A value belongs to the incarnation of the generation it is kept with.   *)
ValueOK(t, k) ==
    value[t][k] # NULL => /\ Seen(vgen[t][k], k)
                          /\ 2 * value[t][k] = vgen[t][k] + 1

ValuesConsistent == \A t \in Threads, k \in Keys : ValueOK(t, k)

(* A destructor that was read while the value's key was in use is that of  *)
(* the value.                                                              *)
ReadOK(t, k) ==
    /\ /\ pc[t] = "genread" /\ ekey[t] = k
       /\ value[t][k] # NULL /\ vgen[t][k] = generation[k]
       => edtor[t] \in {NULL, incarnation[k]}
    /\ mode[t] = "dtor" => /\ edtor[t] = evalue[t]
                           /\ pc[t] \notin {"dtorread", "genread", "free"}

ReadsConsistent == \A t \in Threads, k \in Keys : ReadOK(t, k)

IInv ==
    /\ TypeOK
    /\ KeysConsistent
    /\ LocalsConsistent
    /\ ValuesConsistent
    /\ ReadsConsistent
    /\ KeysUnique

(* The steps of one thread.                                                *)
ThreadStep(t) ==
    \/ \E d \in BOOLEAN : CreateCall(t, d)
    \/ \E k \in Keys : DeleteCall(t, k) \/ \E n \in BOOLEAN : SetCall(t, k, n)
    \/ ExitCall(t) \/ DtorReturns(t) \/ Step(t)

(* The outcomes of those steps that have several, one by one.              *)
ScanFinds(t) ==
    /\ pc[t] = "scan" /\ Usable(generation[key[t]])
    /\ pc' = [pc EXCEPT ![t] = "cas"]
    /\ gen' = [gen EXCEPT ![t] = generation[key[t]]]
    /\ UNCHANGED <<keys, mine, key, arg, exits>>

ScanMoves(t) ==
    /\ key[t] + 1 \in Keys
    /\ pc' = [pc EXCEPT ![t] = "scan"]
    /\ key' = [key EXCEPT ![t] = key[t] + 1]
    /\ UNCHANGED <<keys, mine, gen, arg, exits>>

CallFails(t) ==
    /\ pc' = [pc EXCEPT ![t] = "idle"]
    /\ key' = [key EXCEPT ![t] = 1]
    /\ gen' = [gen EXCEPT ![t] = 0]
    /\ arg' = [arg EXCEPT ![t] = 0]
    /\ UNCHANGED <<keys, mine, exits>>

CreateWins(t) ==
    /\ pc[t] = "cas" /\ generation[key[t]] = gen[t]
    /\ ~KEY_ALLOCATED(gen[t]) /\ KEY_ALLOCATED(gen[t] + 1)
    /\ gen[t] + 1 \in Generation
    /\ generation' = [generation EXCEPT ![key[t]] = gen[t] + 1]
    /\ incarnation' = [incarnation EXCEPT ![key[t]] = incarnation[key[t]] + 1]
    /\ pc' = [pc EXCEPT ![t] = "store"]
    /\ UNCHANGED <<dtor, published, wanted, mine, locals, exits>>

DeleteWins(t) ==
    /\ pc[t] = "delcas" /\ generation[key[t]] = gen[t]
    /\ KEY_ALLOCATED(gen[t]) /\ ~KEY_ALLOCATED(gen[t] + 1)
    /\ gen[t] + 1 \in Generation
    /\ generation' = [generation EXCEPT ![key[t]] = gen[t] + 1]
    /\ published' = [published EXCEPT ![key[t]] = FALSE]
    /\ pc' = [pc EXCEPT ![t] = "delclear"]
    /\ UNCHANGED <<dtor, incarnation, wanted, mine, locals, exits>>

CallsDtor(t) ==
    /\ pc[t] = "genread" /\ Destroys(t)
    /\ evalue' = [evalue EXCEPT ![t] = value[t][ekey[t]]]
    /\ value' = [value EXCEPT ![t][ekey[t]] = NULL]
    /\ did_any' = [did_any EXCEPT ![t] = TRUE]
    /\ mode' = [mode EXCEPT ![t] = "dtor"]
    /\ pc' = [pc EXCEPT ![t] = "idle"]
    /\ UNCHANGED <<keys, tsd, vgen, locals, ekey, edtor, repeat>>

MovesOn(t) ==
    /\ \E e \in Keys : ekey' = [ekey EXCEPT ![t] = e]
    /\ \E r \in Pass : repeat' = [repeat EXCEPT ![t] = r]
    /\ \E d \in BOOLEAN : did_any' = [did_any EXCEPT ![t] = d]
    /\ \E p \in {"dtorread", "free"} : pc' = [pc EXCEPT ![t] = p]
    /\ UNCHANGED <<keys, mine, locals>>

Skips(t) ==
    pc[t] = "genread" /\ MovesOn(t) /\ UNCHANGED <<mode, edtor, evalue>>

DtorEnds(t) ==
    /\ MovesOn(t)
    /\ mode' = [mode EXCEPT ![t] = "run"]
    /\ evalue' = [evalue EXCEPT ![t] = NULL]
    /\ edtor' = [edtor EXCEPT ![t] = NULL]

-----------------------------------------------------------------------------
(* Arithmetic: the last generation that a key can have is even, so that it *)
(* is never that of an allocated key.                                      *)
LEMMA Arithmetic ==
    ASSUME PthreadTsdAssumption
    PROVE  /\ 1 \in Keys
           /\ \A k \in Keys : k < KEYS_MAX => k + 1 \in Keys
           /\ 0 \in Pass
           /\ \A p \in Pass : p + 1 < ITERATIONS => p + 1 \in Pass
           /\ 0 \in Generation /\ ~KEY_ALLOCATED(0)
           /\ \A g \in Generation : g \in Nat
           /\ \A g \in Generation :
               Usable(g) => /\ ~KEY_ALLOCATED(g) /\ KEY_ALLOCATED(Succ(g))
                            /\ Succ(g) = g + 1 /\ Succ(g) \in Generation
           /\ \A g \in Generation :
               KEY_ALLOCATED(g) => /\ ~KEY_ALLOCATED(Succ(g))
                                   /\ Succ(g) = g + 1 /\ Succ(g) \in Generation
<1> USE DEF PthreadTsdAssumption, Generation
<1>1. \A g \in Nat : KEY_ALLOCATED(g + 1) <=> ~KEY_ALLOCATED(g)
  BY DEF KEY_ALLOCATED
<1>2. \A g \in Generation : Succ(g) = g + 1
  BY DEF Succ
<1>3. ~KEY_ALLOCATED(UINT_MAX - 1) /\ UINT_MAX # 0 /\ ~KEY_ALLOCATED(0)
  BY DEF KEY_ALLOCATED
<1>4. \A g \in Generation : g # UINT_MAX - 1 => g + 1 \in Generation
  OBVIOUS
<1>5. /\ 1 \in Keys /\ \A k \in Keys : k < KEYS_MAX => k + 1 \in Keys
      /\ 0 \in Pass /\ \A p \in Pass : p + 1 < ITERATIONS => p + 1 \in Pass
  BY DEF Keys, Pass
<1>6. 0 \in Generation /\ \A g \in Generation : g \in Nat
  BY <1>3
<1>7. QED
  BY <1>1, <1>2, <1>3, <1>4, <1>5, <1>6 DEF Usable

(* The generation that a compare-and-swap is about to store.               *)
LEMMA Moves ==
    ASSUME PthreadTsdAssumption, IInv, NEW t \in Threads
    PROVE  /\ key[t] \in Keys /\ gen[t] \in Generation
           /\ pc[t] = "cas" =>
                /\ ~KEY_ALLOCATED(gen[t]) /\ KEY_ALLOCATED(gen[t] + 1)
                /\ Succ(gen[t]) = gen[t] + 1 /\ gen[t] + 1 \in Generation
           /\ pc[t] = "delcas" =>
                /\ KEY_ALLOCATED(gen[t]) /\ ~KEY_ALLOCATED(gen[t] + 1)
                /\ Succ(gen[t]) = gen[t] + 1 /\ gen[t] + 1 \in Generation
<1>1. key[t] \in Keys /\ gen[t] \in Generation
  BY DEF IInv, TypeOK
<1>2. /\ pc[t] = "cas" => Usable(gen[t])
      /\ pc[t] = "delcas" => KEY_ALLOCATED(gen[t])
  BY DEF IInv, LocalsConsistent, LocalsOK, Seen
<1>3. QED
  BY <1>1, <1>2, Arithmetic

LEMMA ScanOutcomes ==
    ASSUME PthreadTsdAssumption, IInv, NEW t \in Threads, Scan(t)
    PROVE  ScanFinds(t) \/ ScanMoves(t) \/ CallFails(t)
<1>1. key[t] \in Keys
  BY DEF IInv, TypeOK
<1>2. CASE Usable(generation[key[t]])
  BY <1>2 DEF Scan, ScanFinds, Go
<1>3. CASE ~Usable(generation[key[t]]) /\ key[t] < KEYS_MAX
  BY <1>1, <1>3, Arithmetic DEF Scan, NextScan, ScanMoves, Go
<1>4. CASE ~Usable(generation[key[t]]) /\ ~(key[t] < KEYS_MAX)
  BY <1>4 DEF Scan, NextScan, Return, CallFails, Go
<1>5. QED
  BY <1>2, <1>3, <1>4

LEMMA CreateOutcomes ==
    ASSUME PthreadTsdAssumption, IInv, NEW t \in Threads, CreateCas(t)
    PROVE  CreateWins(t) \/ ScanMoves(t) \/ CallFails(t)
<1>1. key[t] \in Keys
  BY DEF IInv, TypeOK
<1>2. CASE generation[key[t]] = gen[t]
  BY <1>2, Moves DEF CreateCas, CreateWins, Go
<1>3. CASE generation[key[t]] # gen[t] /\ key[t] < KEYS_MAX
  BY <1>1, <1>3, Arithmetic DEF CreateCas, NextScan, ScanMoves, Go, keys
<1>4. CASE generation[key[t]] # gen[t] /\ ~(key[t] < KEYS_MAX)
  BY <1>4 DEF CreateCas, NextScan, Return, CallFails, Go, keys
<1>5. QED
  BY <1>2, <1>3, <1>4

LEMMA DeleteOutcomes ==
    ASSUME PthreadTsdAssumption, IInv, NEW t \in Threads, DeleteCas(t)
    PROVE  DeleteWins(t) \/ CallFails(t)
<1>1. CASE generation[key[t]] = gen[t]
  BY <1>1, Moves DEF DeleteCas, DeleteWins, Go
<1>2. CASE generation[key[t]] # gen[t]
  BY <1>2 DEF DeleteCas, Return, CallFails, Go, keys
<1>3. QED
  BY <1>1, <1>2

LEMMA NextKeyOutcomes ==
    ASSUME PthreadTsdAssumption, IInv, NEW t \in Threads, NextKey(t),
           UNCHANGED <<keys, mine, locals>>
    PROVE  MovesOn(t)
<1>1. /\ ekey \in [Threads -> Keys] /\ repeat \in [Threads -> Pass]
      /\ did_any \in [Threads -> BOOLEAN]
  BY DEF IInv, TypeOK
<1>2. CASE ekey[t] < KEYS_MAX
  <2>1. ekey' = [ekey EXCEPT ![t] = ekey[t] + 1] /\ ekey[t] + 1 \in Keys
    BY <1>1, <1>2, Arithmetic DEF NextKey
  <2>2. /\ repeat' = [repeat EXCEPT ![t] = repeat[t]]
        /\ did_any' = [did_any EXCEPT ![t] = did_any[t]]
        /\ pc' = [pc EXCEPT ![t] = "dtorread"]
    BY <1>1, <1>2 DEF NextKey, Go
  <2>3. QED
    BY <1>1, <2>1, <2>2 DEF MovesOn
<1>3. CASE ~(ekey[t] < KEYS_MAX) /\ did_any[t] /\ repeat[t] + 1 < ITERATIONS
  <2>1. /\ repeat' = [repeat EXCEPT ![t] = repeat[t] + 1]
        /\ repeat[t] + 1 \in Pass
    BY <1>1, <1>3, Arithmetic DEF NextKey
  <2>2. /\ ekey' = [ekey EXCEPT ![t] = 1] /\ 1 \in Keys
        /\ did_any' = [did_any EXCEPT ![t] = FALSE]
        /\ pc' = [pc EXCEPT ![t] = "dtorread"]
    BY <1>3, Arithmetic DEF NextKey, Go
  <2>3. QED
    BY <2>1, <2>2 DEF MovesOn
<1>4. CASE ~(ekey[t] < KEYS_MAX) /\ ~(did_any[t] /\ repeat[t] + 1 < ITERATIONS)
  <2>1. /\ ekey' = [ekey EXCEPT ![t] = ekey[t]]
        /\ repeat' = [repeat EXCEPT ![t] = repeat[t]]
        /\ did_any' = [did_any EXCEPT ![t] = did_any[t]]
        /\ pc' = [pc EXCEPT ![t] = "free"]
    BY <1>1, <1>4 DEF NextKey, Go
  <2>2. QED
    BY <1>1, <2>1 DEF MovesOn
<1>5. QED
  BY <1>2, <1>3, <1>4

LEMMA ReadOutcomes ==
    ASSUME PthreadTsdAssumption, IInv, NEW t \in Threads, ReadGeneration(t)
    PROVE  CallsDtor(t) \/ Skips(t)
<1>1. CASE Destroys(t)
  BY <1>1 DEF ReadGeneration, CallsDtor, Go
<1>2. CASE ~Destroys(t)
  <2>1. NextKey(t) /\ UNCHANGED <<keys, mine, locals, mode, edtor, evalue>>
    BY <1>2 DEF ReadGeneration, mine
  <2>2. QED
    BY <2>1, NextKeyOutcomes DEF Skips, ReadGeneration
<1>3. QED
  BY <1>1, <1>2

LEMMA DtorOutcomes ==
    ASSUME PthreadTsdAssumption, IInv, NEW t \in Threads, DtorReturns(t)
    PROVE  DtorEnds(t)
BY NextKeyOutcomes DEF DtorReturns, DtorEnds

(* A value whose generation is the current one belongs to the current      *)
(* incarnation of its key.                                                 *)
LEMMA Current ==
    ASSUME PthreadTsdAssumption, IInv, NEW t \in Threads, NEW k \in Keys,
           value[t][k] # NULL, vgen[t][k] = generation[k]
    PROVE  /\ published[k] /\ KEY_ALLOCATED(generation[k])
           /\ value[t][k] = incarnation[k]
           /\ dtor[k] \in {NULL, incarnation[k]}
<1>1. /\ published[k] /\ KEY_ALLOCATED(generation[k])
      /\ 2 * value[t][k] = generation[k] + 1
  BY DEF IInv, ValuesConsistent, ValueOK, Seen
<1>2. /\ generation[k] + 1 = 2 * incarnation[k]
      /\ dtor[k] \in {NULL, incarnation[k]}
  BY <1>1 DEF IInv, KeysConsistent
<1>3. value[t][k] \in Nat /\ incarnation[k] \in Nat /\ generation[k] \in Nat
  BY Arithmetic DEF IInv, TypeOK
<1>4. QED
  BY <1>1, <1>2, <1>3

(* The generation of a key never reaches UINT_MAX and never wraps around.  *)
LEMMA TypeStep ==
    ASSUME PthreadTsdAssumption, IInv, NEW t \in Threads, ThreadStep(t)
    PROVE  TypeOK'
<1> USE Arithmetic DEF IInv, TypeOK, NULL, Creating, Deleting,
    keys, mine, locals, exits
<1>1. ASSUME NEW d \in BOOLEAN, CreateCall(t, d)
      PROVE  TypeOK'
  BY <1>1 DEF CreateCall, Go
<1>2. ASSUME NEW k \in Keys, DeleteCall(t, k)
      PROVE  TypeOK'
  BY <1>2 DEF DeleteCall, Go
<1>3. ASSUME NEW k \in Keys, NEW n \in BOOLEAN, SetCall(t, k, n)
      PROVE  TypeOK'
  BY <1>3 DEF SetCall, Go
<1>4. CASE ExitCall(t)
  BY <1>4 DEF ExitCall, Go
<1>5. CASE ScanFinds(t)
  BY <1>5 DEF ScanFinds
<1>6. CASE ScanMoves(t)
  BY <1>6 DEF ScanMoves
<1>7. CASE CallFails(t)
  BY <1>7 DEF CallFails
<1>8. CASE CreateWins(t)
  BY <1>8 DEF CreateWins
<1>9. CASE CreateReturns(t)
  BY <1>9 DEF CreateReturns, Return, Go
<1>10. CASE DeleteWins(t)
  BY <1>10 DEF DeleteWins
<1>11. CASE DeleteReturns(t)
  BY <1>11 DEF DeleteReturns, Return, Go
<1>12. CASE SetReturns(t)
  BY <1>12 DEF SetReturns, Return, Go
<1>13. CASE ReadDtor(t)
  BY <1>13 DEF ReadDtor, Go
<1>14. CASE CallsDtor(t)
  BY <1>14 DEF CallsDtor, Destroys
<1>15. CASE Skips(t)
  BY <1>15 DEF Skips, MovesOn
<1>16. CASE DtorEnds(t)
  BY <1>16 DEF DtorEnds, MovesOn
<1>17. CASE Free(t)
  BY <1>17 DEF Free, Go
<1> HIDE DEF TypeOK
<1>18. QED
  BY <1>1, <1>2, <1>3, <1>4, <1>5, <1>6, <1>7, <1>8, <1>9,
     <1>10, <1>11, <1>12, <1>13, <1>14, <1>15, <1>16, <1>17,
     ScanOutcomes, CreateOutcomes, DeleteOutcomes, ReadOutcomes, DtorOutcomes
     DEF ThreadStep, Step

(* A key is published by its creator only, with its own destructor.        *)
LEMMA KeysStep ==
    ASSUME PthreadTsdAssumption, IInv, NEW t \in Threads, ThreadStep(t)
    PROVE  KeysConsistent'
<1> USE Arithmetic DEF IInv, KeysConsistent, LocalsConsistent, LocalsOK,
        TypeOK, NULL, Creating, Deleting,
    keys, mine, locals, exits
<1>1. ASSUME NEW d \in BOOLEAN, CreateCall(t, d)
      PROVE  KeysConsistent'
  BY <1>1 DEF CreateCall, Go
<1>2. ASSUME NEW k \in Keys, DeleteCall(t, k)
      PROVE  KeysConsistent'
  BY <1>2 DEF DeleteCall, Go
<1>3. ASSUME NEW k \in Keys, NEW n \in BOOLEAN, SetCall(t, k, n)
      PROVE  KeysConsistent'
  BY <1>3 DEF SetCall, Go
<1>4. CASE ExitCall(t)
  BY <1>4 DEF ExitCall, Go
<1>5. CASE ScanFinds(t)
  BY <1>5 DEF ScanFinds
<1>6. CASE ScanMoves(t)
  BY <1>6 DEF ScanMoves
<1>7. CASE CallFails(t)
  BY <1>7 DEF CallFails
<1>8. CASE CreateWins(t)
  <2> SUFFICES ASSUME NEW q \in Keys
               PROVE  /\ KEY_ALLOCATED(generation'[q]) =>
                           generation'[q] + 1 = 2 * incarnation'[q]
                      /\ ~KEY_ALLOCATED(generation'[q]) =>
                           generation'[q] = 2 * incarnation'[q]
                      /\ published'[q] =>
                           /\ KEY_ALLOCATED(generation'[q])
                           /\ dtor'[q] \in {NULL, incarnation'[q]}
    BY DEF KeysConsistent
  <2>1. CASE q = key[t]
    <3>1. /\ generation'[q] = generation[q] + 1
          /\ incarnation'[q] = incarnation[q] + 1
          /\ published'[q] = published[q]
          /\ ~KEY_ALLOCATED(generation[q]) /\ KEY_ALLOCATED(generation'[q])
          /\ incarnation[q] \in Nat /\ generation[q] \in Nat
      BY <1>8, <2>1 DEF CreateWins
    <3>2. generation[q] = 2 * incarnation[q] /\ ~published[q]
      BY <3>1
    <3>3. QED
      BY <3>1, <3>2
  <2>2. CASE q # key[t]
    BY <1>8, <2>2 DEF CreateWins
  <2>3. QED
    BY <2>1, <2>2
<1>9. CASE CreateReturns(t)
  BY <1>9 DEF CreateReturns, Return, Go
<1>10. CASE DeleteWins(t)
  BY <1>10 DEF DeleteWins
<1>11. CASE DeleteReturns(t)
  BY <1>11 DEF DeleteReturns, Return, Go
<1>12. CASE SetReturns(t)
  BY <1>12 DEF SetReturns, Return, Go
<1>13. CASE ReadDtor(t)
  BY <1>13 DEF ReadDtor, Go
<1>14. CASE CallsDtor(t)
  BY <1>14 DEF CallsDtor, Destroys
<1>15. CASE Skips(t)
  BY <1>15 DEF Skips, MovesOn
<1>16. CASE DtorEnds(t)
  BY <1>16 DEF DtorEnds, MovesOn
<1>17. CASE Free(t)
  BY <1>17 DEF Free, Go
<1>18. QED
  BY <1>1, <1>2, <1>3, <1>4, <1>5, <1>6, <1>7, <1>8, <1>9,
     <1>10, <1>11, <1>12, <1>13, <1>14, <1>15, <1>16, <1>17,
     ScanOutcomes, CreateOutcomes, DeleteOutcomes, ReadOutcomes, DtorOutcomes
     DEF ThreadStep, Step

(* A generation only moves on from one that somebody remembered.           *)
LEMMA LocalsStep ==
    ASSUME PthreadTsdAssumption, IInv, NEW t \in Threads, ThreadStep(t)
    PROVE  LocalsConsistent'
<1> SUFFICES ASSUME NEW u \in Threads
             PROVE  LocalsOK(u)'
  BY DEF LocalsConsistent
<1> USE Arithmetic DEF IInv, KeysConsistent, LocalsConsistent, LocalsOK,
        KeysUnique, Seen, TypeOK, NULL, Creating, Deleting,
    keys, mine, locals, exits
<1>1. ASSUME NEW d \in BOOLEAN, CreateCall(t, d)
      PROVE  LocalsOK(u)'
  BY <1>1 DEF CreateCall, Go
<1>2. ASSUME NEW k \in Keys, DeleteCall(t, k)
      PROVE  LocalsOK(u)'
  BY <1>2 DEF DeleteCall, Go
<1>3. ASSUME NEW k \in Keys, NEW n \in BOOLEAN, SetCall(t, k, n)
      PROVE  LocalsOK(u)'
  BY <1>3 DEF SetCall, Go
<1>4. CASE ExitCall(t)
  BY <1>4 DEF ExitCall, Go
<1>5. CASE ScanFinds(t)
  BY <1>5 DEF ScanFinds
<1>6. CASE ScanMoves(t)
  BY <1>6 DEF ScanMoves
<1>7. CASE CallFails(t)
  BY <1>7 DEF CallFails
<1>8. CASE CreateWins(t)
  BY <1>8 DEF CreateWins
<1>9. CASE CreateReturns(t)
  BY <1>9 DEF CreateReturns, Return, Go
<1>10. CASE DeleteWins(t)
  BY <1>10 DEF DeleteWins
<1>11. CASE DeleteReturns(t)
  BY <1>11 DEF DeleteReturns, Return, Go
<1>12. CASE SetReturns(t)
  BY <1>12 DEF SetReturns, Return, Go
<1>13. CASE ReadDtor(t)
  BY <1>13 DEF ReadDtor, Go
<1>14. CASE CallsDtor(t)
  BY <1>14 DEF CallsDtor, Destroys
<1>15. CASE Skips(t)
  BY <1>15 DEF Skips, MovesOn
<1>16. CASE DtorEnds(t)
  BY <1>16 DEF DtorEnds, MovesOn
<1>17. CASE Free(t)
  BY <1>17 DEF Free, Go
<1>18. QED
  BY <1>1, <1>2, <1>3, <1>4, <1>5, <1>6, <1>7, <1>8, <1>9,
     <1>10, <1>11, <1>12, <1>13, <1>14, <1>15, <1>16, <1>17,
     ScanOutcomes, CreateOutcomes, DeleteOutcomes, ReadOutcomes, DtorOutcomes
     DEF ThreadStep, Step

(* Values are stored under a generation that was read while in use.        *)
LEMMA ValuesStep ==
    ASSUME PthreadTsdAssumption, IInv, NEW t \in Threads, ThreadStep(t)
    PROVE  ValuesConsistent'
<1> SUFFICES ASSUME NEW u \in Threads, NEW q \in Keys
             PROVE  ValueOK(u, q)'
  BY DEF ValuesConsistent
<1> USE Arithmetic DEF IInv, LocalsConsistent, LocalsOK, ValuesConsistent,
        ValueOK, Seen,
    TypeOK, NULL, Creating, Deleting,
    keys, mine, locals, exits
<1>1. ASSUME NEW d \in BOOLEAN, CreateCall(t, d)
      PROVE  ValueOK(u, q)'
  BY <1>1 DEF CreateCall, Go
<1>2. ASSUME NEW k \in Keys, DeleteCall(t, k)
      PROVE  ValueOK(u, q)'
  BY <1>2 DEF DeleteCall, Go
<1>3. ASSUME NEW k \in Keys, NEW n \in BOOLEAN, SetCall(t, k, n)
      PROVE  ValueOK(u, q)'
  BY <1>3 DEF SetCall, Go
<1>4. CASE ExitCall(t)
  BY <1>4 DEF ExitCall, Go
<1>5. CASE ScanFinds(t)
  BY <1>5 DEF ScanFinds
<1>6. CASE ScanMoves(t)
  BY <1>6 DEF ScanMoves
<1>7. CASE CallFails(t)
  BY <1>7 DEF CallFails
<1>8. CASE CreateWins(t)
  BY <1>8 DEF CreateWins
<1>9. CASE CreateReturns(t)
  BY <1>9 DEF CreateReturns, Return, Go
<1>10. CASE DeleteWins(t)
  BY <1>10 DEF DeleteWins
<1>11. CASE DeleteReturns(t)
  BY <1>11 DEF DeleteReturns, Return, Go
<1>12. CASE SetReturns(t)
  BY <1>12 DEF SetReturns, Return, Go
<1>13. CASE ReadDtor(t)
  BY <1>13 DEF ReadDtor, Go
<1>14. CASE CallsDtor(t)
  BY <1>14 DEF CallsDtor, Destroys
<1>15. CASE Skips(t)
  BY <1>15 DEF Skips, MovesOn
<1>16. CASE DtorEnds(t)
  BY <1>16 DEF DtorEnds, MovesOn
<1>17. CASE Free(t)
  BY <1>17 DEF Free, Go
<1>18. QED
  BY <1>1, <1>2, <1>3, <1>4, <1>5, <1>6, <1>7, <1>8, <1>9,
     <1>10, <1>11, <1>12, <1>13, <1>14, <1>15, <1>16, <1>17,
     ScanOutcomes, CreateOutcomes, DeleteOutcomes, ReadOutcomes, DtorOutcomes
     DEF ThreadStep, Step

(* The destructor is read before the generation.                           *)
LEMMA ReadsStep ==
    ASSUME PthreadTsdAssumption, IInv, NEW t \in Threads, ThreadStep(t)
    PROVE  ReadsConsistent'
<1> SUFFICES ASSUME NEW u \in Threads, NEW q \in Keys
             PROVE  ReadOK(u, q)'
  BY DEF ReadsConsistent
<1> USE Arithmetic DEF IInv, KeysConsistent, LocalsConsistent, LocalsOK,
        ValuesConsistent,
    ValueOK, ReadsConsistent, ReadOK, Seen, TypeOK, NULL, Creating, Deleting,
    keys, mine, locals, exits
<1>1. ASSUME NEW d \in BOOLEAN, CreateCall(t, d)
      PROVE  ReadOK(u, q)'
  BY <1>1 DEF CreateCall, Go
<1>2. ASSUME NEW k \in Keys, DeleteCall(t, k)
      PROVE  ReadOK(u, q)'
  BY <1>2 DEF DeleteCall, Go
<1>3. ASSUME NEW k \in Keys, NEW n \in BOOLEAN, SetCall(t, k, n)
      PROVE  ReadOK(u, q)'
  BY <1>3 DEF SetCall, Go
<1>4. CASE ExitCall(t)
  BY <1>4 DEF ExitCall, Go
<1>5. CASE ScanFinds(t)
  BY <1>5 DEF ScanFinds
<1>6. CASE ScanMoves(t)
  BY <1>6 DEF ScanMoves
<1>7. CASE CallFails(t)
  BY <1>7 DEF CallFails
<1>8. CASE CreateWins(t)
  BY <1>8 DEF CreateWins
<1>9. CASE CreateReturns(t)
  BY <1>9 DEF CreateReturns, Return, Go
<1>10. CASE DeleteWins(t)
  BY <1>10 DEF DeleteWins
<1>11. CASE DeleteReturns(t)
  BY <1>11 DEF DeleteReturns, Return, Go
<1>12. CASE SetReturns(t)
  BY <1>12 DEF SetReturns, Return, Go
<1>13. CASE ReadDtor(t)
  <2>1. ASSUME u = t, ekey[t] = q, value[t][q] # NULL,
               vgen[t][q] = generation[q]
        PROVE  dtor[q] \in {NULL, incarnation[q]}
    BY <2>1, Current
  <2>2. edtor' = [edtor EXCEPT ![t] = dtor[ekey[t]]]
    BY <1>13 DEF ReadDtor
  <2>3. QED
    BY <1>13, <2>1, <2>2 DEF ReadDtor, Go
<1>14. CASE CallsDtor(t)
  <2>1. edtor[t] = value[t][ekey[t]]
    <3>1. /\ ekey[t] \in Keys /\ edtor[t] # NULL /\ pc[t] = "genread"
          /\ value[t][ekey[t]] # NULL
          /\ vgen[t][ekey[t]] = generation[ekey[t]]
      BY <1>14 DEF CallsDtor, Destroys
    <3>2. value[t][ekey[t]] = incarnation[ekey[t]]
      BY <3>1, Current
    <3>3. edtor[t] \in {NULL, incarnation[ekey[t]]}
      BY <3>1
    <3>4. QED
      BY <3>1, <3>2, <3>3
  <2>2. QED
    BY <1>14, <2>1 DEF CallsDtor
<1>15. CASE Skips(t)
  BY <1>15 DEF Skips, MovesOn
<1>16. CASE DtorEnds(t)
  BY <1>16 DEF DtorEnds, MovesOn
<1>17. CASE Free(t)
  BY <1>17 DEF Free, Go
<1>18. QED
  BY <1>1, <1>2, <1>3, <1>4, <1>5, <1>6, <1>7, <1>8, <1>9,
     <1>10, <1>11, <1>12, <1>13, <1>14, <1>15, <1>16, <1>17,
     ScanOutcomes, CreateOutcomes, DeleteOutcomes, ReadOutcomes, DtorOutcomes
     DEF ThreadStep, Step

(* The compare-and-swap of a creator fails when another has won.           *)
LEMMA UniqueStep ==
    ASSUME PthreadTsdAssumption, IInv, NEW t \in Threads, ThreadStep(t)
    PROVE  KeysUnique'
<1> USE Arithmetic DEF IInv, LocalsConsistent, LocalsOK, KeysUnique, TypeOK,
        NULL, Creating, Deleting,
    keys, mine, locals, exits
<1>1. ASSUME NEW d \in BOOLEAN, CreateCall(t, d)
      PROVE  KeysUnique'
  BY <1>1 DEF CreateCall, Go
<1>2. ASSUME NEW k \in Keys, DeleteCall(t, k)
      PROVE  KeysUnique'
  BY <1>2 DEF DeleteCall, Go
<1>3. ASSUME NEW k \in Keys, NEW n \in BOOLEAN, SetCall(t, k, n)
      PROVE  KeysUnique'
  BY <1>3 DEF SetCall, Go
<1>4. CASE ExitCall(t)
  BY <1>4 DEF ExitCall, Go
<1>5. CASE ScanFinds(t)
  BY <1>5 DEF ScanFinds
<1>6. CASE ScanMoves(t)
  BY <1>6 DEF ScanMoves
<1>7. CASE CallFails(t)
  BY <1>7 DEF CallFails
<1>8. CASE CreateWins(t)
  BY <1>8 DEF CreateWins
<1>9. CASE CreateReturns(t)
  BY <1>9 DEF CreateReturns, Return, Go
<1>10. CASE DeleteWins(t)
  BY <1>10 DEF DeleteWins
<1>11. CASE DeleteReturns(t)
  BY <1>11 DEF DeleteReturns, Return, Go
<1>12. CASE SetReturns(t)
  BY <1>12 DEF SetReturns, Return, Go
<1>13. CASE ReadDtor(t)
  BY <1>13 DEF ReadDtor, Go
<1>14. CASE CallsDtor(t)
  BY <1>14 DEF CallsDtor, Destroys
<1>15. CASE Skips(t)
  BY <1>15 DEF Skips, MovesOn
<1>16. CASE DtorEnds(t)
  BY <1>16 DEF DtorEnds, MovesOn
<1>17. CASE Free(t)
  BY <1>17 DEF Free, Go
<1>18. QED
  BY <1>1, <1>2, <1>3, <1>4, <1>5, <1>6, <1>7, <1>8, <1>9,
     <1>10, <1>11, <1>12, <1>13, <1>14, <1>15, <1>16, <1>17,
     ScanOutcomes, CreateOutcomes, DeleteOutcomes, ReadOutcomes, DtorOutcomes
     DEF ThreadStep, Step

-----------------------------------------------------------------------------
LEMMA InitIInv ==
    ASSUME PthreadTsdAssumption
    PROVE  Init => IInv
<1> SUFFICES ASSUME Init PROVE IInv
  OBVIOUS
<1> USE Arithmetic DEF Init, NULL
<1>1. TypeOK
  BY DEF TypeOK, Creating, Deleting
<1>2. KeysConsistent
  BY DEF KeysConsistent
<1>3. LocalsConsistent
  BY DEF LocalsConsistent, LocalsOK
<1>4. ValuesConsistent
  BY DEF ValuesConsistent, ValueOK
<1>5. ReadsConsistent /\ KeysUnique
  BY DEF ReadsConsistent, ReadOK, KeysUnique
<1>6. QED
  BY <1>1, <1>2, <1>3, <1>4, <1>5 DEF IInv

LEMMA StutterIInv == IInv /\ UNCHANGED vars => IInv'
<1> SUFFICES ASSUME IInv, UNCHANGED vars PROVE IInv'
  OBVIOUS
<1> USE DEF IInv, vars, keys, mine, locals, exits
<1>1. TypeOK'
  BY DEF TypeOK
<1>2. KeysConsistent'
  BY DEF KeysConsistent
<1>3. LocalsConsistent'
  BY DEF LocalsConsistent, LocalsOK, Seen
<1>4. ValuesConsistent'
  BY DEF ValuesConsistent, ValueOK, Seen
<1>5. ReadsConsistent' /\ KeysUnique'
  BY DEF ReadsConsistent, ReadOK, KeysUnique
<1>6. QED
  BY <1>1, <1>2, <1>3, <1>4, <1>5

LEMMA NextIInv ==
    ASSUME PthreadTsdAssumption
    PROVE  IInv /\ [Next]_vars => IInv'
<1> SUFFICES ASSUME IInv, [Next]_vars PROVE IInv'
  OBVIOUS
<1>1. CASE UNCHANGED vars
  BY <1>1, StutterIInv
<1>2. CASE Terminated
  BY <1>2, StutterIInv DEF Terminated
<1>3. ASSUME NEW t \in Threads, ThreadStep(t)
      PROVE  IInv'
  BY <1>3, TypeStep, KeysStep, LocalsStep, ValuesStep, ReadsStep, UniqueStep
     DEF IInv
<1>4. QED
  BY <1>1, <1>2, <1>3 DEF Next, ThreadStep

(* The inductive invariant holds in every reachable state.                 *)
THEOREM Invariance ==
    ASSUME PthreadTsdAssumption
    PROVE  Spec => []IInv
BY InitIInv, NextIInv, PTL DEF Spec

(* All variables keep their types; no generation reaches UINT_MAX.         *)
THEOREM TypeCorrect ==
    ASSUME PthreadTsdAssumption
    PROVE  Spec => []TypeOK
<1>1. IInv => TypeOK
  BY DEF IInv
<1>2. QED
  BY <1>1, Invariance, PTL

(* pthread_key_create never gives the same key to two callers.             *)
THEOREM KeysAreUnique ==
    ASSUME PthreadTsdAssumption
    PROVE  Spec => []KeysUnique
<1>1. IInv => KeysUnique
  BY DEF IInv
<1>2. QED
  BY <1>1, Invariance, PTL

(* pthread_getspecific never returns a value of an earlier incarnation of  *)
(* the key.                                                                *)
THEOREM ValuesAreFresh ==
    ASSUME PthreadTsdAssumption
    PROVE  Spec => []NoStaleValue
<1>1. IInv => NoStaleValue
  <2> SUFFICES ASSUME IInv, NEW t \in Threads, NEW k \in Keys,
                      GetSpecific(t, k) # NULL
               PROVE  /\ KEY_ALLOCATED(generation[k])
                      /\ GetSpecific(t, k) = incarnation[k]
    BY DEF NoStaleValue
  <2>1. /\ value[t][k] # NULL
        /\ vgen[t][k] = generation[k]
        /\ GetSpecific(t, k) = value[t][k]
    BY DEF GetSpecific
  <2>2. QED
    BY <2>1, Current
<1>2. QED
  BY <1>1, Invariance, PTL

(* __nc_tsd_exit calls a destructor only with values of its own key,       *)
(* whatever other threads do to the key between its reads.                 *)
THEOREM DestructorsOwnValues ==
    ASSUME PthreadTsdAssumption
    PROVE  Spec => []DtorOwnsValue
<1>1. IInv => DtorOwnsValue
  BY Arithmetic DEF IInv, ReadsConsistent, ReadOK, DtorOwnsValue
<1>2. QED
  BY <1>1, Invariance, PTL

(* However keys are created and deleted under the threads that use them, a *)
(* key has one creator, and the values and destructors a thread sees are   *)
(* of the key's present owner (nc_tsd.c).                                  *)
THEOREM TsdAlwaysCorrect ==
    ASSUME PthreadTsdAssumption
    PROVE  Spec => []TsdCorrect
<1>1. TypeOK /\ KeysUnique /\ NoStaleValue /\ DtorOwnsValue => TsdCorrect
  BY DEF TsdCorrect
<1>2. QED
  BY <1>1, TypeCorrect, KeysAreUnique, ValuesAreFresh, DestructorsOwnValues,
     PTL

-----------------------------------------------------------------------------
(* If keys are created and deleted one at a time, a key that is published  *)
(* keeps its destructor.                                                   *)
ChangesKeys(t) == pc[t] \in Creating \cup Deleting

KeysSerialised ==
    /\ \A t, u \in Threads : ChangesKeys(t) /\ ChangesKeys(u) => t = u
    /\ \A t \in Threads : pc[t] = "delclear" => ~published[key[t]]
    /\ \A k \in Keys : published[k] /\ wanted[k] => dtor[k] # NULL

(* Thread t has a value for which a destructor is to run.                  *)
Left(t, k) ==
    value[t][k] # NULL /\ vgen[t][k] = generation[k] /\ wanted[k]

(* A pass of __nc_tsd_exit has called a destructor, or has passed by no    *)
(* such value.                                                             *)
PassOK(t, k) ==
    /\ mode[t] = "dtor" => did_any[t]
    /\ mode[t] = "run" /\ pc[t] \notin {"dtorread", "genread", "free", "done"}
         => ekey[t] = 1
    /\ pc[t] \in {"dtorread", "genread"} /\ k < ekey[t] /\ Left(t, k)
         => did_any[t]
    /\ pc[t] = "genread" /\ k = ekey[t] /\ Left(t, k) => edtor[t] # NULL
    /\ pc[t] = "free" /\ Left(t, k) => did_any[t]

PassesComplete == \A t \in Threads, k \in Keys : PassOK(t, k)

(* The others wait until a change of keys is over.                         *)
LEMMA SerialisedStep ==
    ASSUME PthreadTsdAssumption, Serialised, IInv, KeysSerialised,
           NEW t \in Threads, ThreadStep(t)
    PROVE  KeysSerialised'
<1> USE Arithmetic DEF IInv, KeysConsistent, LocalsConsistent, LocalsOK,
        TypeOK, NULL, Creating, Deleting,
    KeysSerialised, ChangesKeys, keys, mine, locals, exits
<1>1. ASSUME NEW d \in BOOLEAN, CreateCall(t, d)
      PROVE  KeysSerialised'
  BY <1>1 DEF CreateCall, Go, MayChangeKeys
<1>2. ASSUME NEW k \in Keys, DeleteCall(t, k)
      PROVE  KeysSerialised'
  BY <1>2 DEF DeleteCall, Go, MayChangeKeys
<1>3. ASSUME NEW k \in Keys, NEW n \in BOOLEAN, SetCall(t, k, n)
      PROVE  KeysSerialised'
  BY <1>3 DEF SetCall, Go
<1>4. CASE ExitCall(t)
  BY <1>4 DEF ExitCall, Go
<1>5. CASE ScanFinds(t)
  BY <1>5 DEF ScanFinds
<1>6. CASE ScanMoves(t) /\ pc[t] \in Creating
  BY <1>6 DEF ScanMoves
<1>7. CASE CallFails(t)
  BY <1>7 DEF CallFails
<1>8. CASE CreateWins(t)
  BY <1>8 DEF CreateWins
<1>9. CASE CreateReturns(t)
  <2>1. /\ incarnation[key[t]] # 0 /\ incarnation[key[t]] \in Nat
    BY <1>9 DEF CreateReturns
  <2>2. \A k \in Keys : k # key[t] =>
          /\ dtor'[k] = dtor[k] /\ published'[k] = published[k]
          /\ wanted'[k] = wanted[k]
    BY <1>9 DEF CreateReturns
  <2>3. wanted'[key[t]] => dtor'[key[t]] # NULL
    BY <1>9, <2>1 DEF CreateReturns
  <2>4. \A u \in Threads : /\ pc'[u] = IF u = t THEN "idle" ELSE pc[u]
                           /\ u # t => key'[u] = key[u]
    BY <1>9 DEF CreateReturns, Return, Go
  <2>5. \A u \in Threads : u # t => pc[u] # "delclear"
    BY <1>9 DEF CreateReturns
  <2>6. \A u, v \in Threads : ChangesKeys(u)' /\ ChangesKeys(v)' => u = v
    BY <2>4
  <2>7. \A u \in Threads : pc'[u] # "delclear"
    BY <2>4, <2>5
  <2>8. \A k \in Keys : published'[k] /\ wanted'[k] => dtor'[k] # NULL
    BY <2>2, <2>3
  <2>9. QED
    BY <2>6, <2>7, <2>8
<1>10. CASE DeleteWins(t)
  BY <1>10 DEF DeleteWins
<1>11. CASE DeleteReturns(t)
  BY <1>11 DEF DeleteReturns, Return, Go
<1>12. CASE SetReturns(t)
  BY <1>12 DEF SetReturns, Return, Go
<1>13. CASE ReadDtor(t)
  BY <1>13 DEF ReadDtor, Go
<1>14. CASE CallsDtor(t)
  BY <1>14 DEF CallsDtor, Destroys
<1>15. CASE Skips(t)
  BY <1>15 DEF Skips, MovesOn
<1>16. CASE DtorEnds(t)
  BY <1>16 DEF DtorEnds, MovesOn
<1>17. CASE Free(t)
  BY <1>17 DEF Free, Go
<1>18. CASE Scan(t)
  BY <1>5, <1>6, <1>7, <1>18, ScanOutcomes DEF Scan
<1>19. CASE CreateCas(t)
  BY <1>6, <1>7, <1>8, <1>19, CreateOutcomes DEF CreateCas
<1> HIDE DEF KeysSerialised, TypeOK, IInv, KeysConsistent, LocalsConsistent,
             LocalsOK
<1>20. QED
  BY <1>1, <1>2, <1>3, <1>4, <1>7, <1>9, <1>10, <1>11, <1>12, <1>13, <1>14,
     <1>15, <1>16, <1>17, <1>18, <1>19,
     DeleteOutcomes, ReadOutcomes, DtorOutcomes
     DEF ThreadStep, Step

(* What other threads do leaves no value behind.                           *)
LEMMA LeftStays ==
    ASSUME PthreadTsdAssumption, IInv, NEW t \in Threads, ThreadStep(t),
           NEW u \in Threads, NEW k \in Keys,
           value'[u] = value[u], vgen'[u] = vgen[u], Left(u, k)'
    PROVE  Left(u, k)
<1> USE Arithmetic DEF IInv, LocalsConsistent, LocalsOK, ValuesConsistent,
        ValueOK, Seen, TypeOK, NULL, Left, keys, mine, locals, exits
<1>8. CASE CreateWins(t)
  BY <1>8 DEF CreateWins
<1>9. CASE CreateReturns(t)
  <2>1. k # key[t]
    BY <1>9, Current DEF CreateReturns
  <2>2. QED
    BY <1>9, <2>1 DEF CreateReturns
<1>10. CASE DeleteWins(t)
  BY <1>10 DEF DeleteWins
<1>11. CASE UNCHANGED <<generation, wanted>>
  BY <1>11
<1>12. QED
  BY <1>8, <1>9, <1>10, <1>11,
     ScanOutcomes, CreateOutcomes, DeleteOutcomes, ReadOutcomes, DtorOutcomes
     DEF ThreadStep, Step, CreateCall, DeleteCall, SetCall, ExitCall,
         ScanFinds, ScanMoves, CallFails, DeleteReturns, SetReturns, ReadDtor,
         CallsDtor, Skips, MovesOn, DtorEnds, Free

(* What NextKey does to a pass.                                            *)
LEMMA PassMoves ==
    ASSUME PthreadTsdAssumption, IInv, NEW t \in Threads, NextKey(t)
    PROVE  \/ /\ ekey[t] < KEYS_MAX /\ ekey'[t] = ekey[t] + 1
              /\ pc'[t] = "dtorread" /\ did_any'[t] = did_any[t]
           \/ ekey'[t] = 1 /\ pc'[t] = "dtorread"
           \/ /\ ekey[t] = KEYS_MAX /\ pc'[t] = "free"
              /\ did_any'[t] = did_any[t]
<1>1. ekey[t] \in Keys /\ KEYS_MAX \in Nat
  BY DEF PthreadTsdAssumption, IInv, TypeOK
<1>2. ~(ekey[t] < KEYS_MAX) => ekey[t] = KEYS_MAX
  BY <1>1 DEF Keys
<1>3. QED
  BY <1>2 DEF NextKey, Go, IInv, TypeOK

(* A pass goes through the keys one by one.                                *)
LEMMA PassesStep ==
    ASSUME PthreadTsdAssumption, Serialised, IInv, KeysSerialised,
           PassesComplete,
           NEW t \in Threads, ThreadStep(t)
    PROVE  PassesComplete'
<1> SUFFICES ASSUME NEW u \in Threads, NEW q \in Keys
             PROVE  PassOK(u, q)'
  BY DEF PassesComplete
<1>0. PassOK(u, q) /\ TypeOK
  BY DEF IInv, PassesComplete
<1>1. CASE u # t
  <2>1. /\ value'[u] = value[u] /\ vgen'[u] = vgen[u] /\ pc'[u] = pc[u]
        /\ mode'[u] = mode[u] /\ ekey'[u] = ekey[u]
        /\ did_any'[u] = did_any[u] /\ edtor'[u] = edtor[u]
    BY <1>0, <1>1, ScanOutcomes, CreateOutcomes, DeleteOutcomes, ReadOutcomes,
       DtorOutcomes
       DEF TypeOK, ThreadStep, Step, CreateCall, DeleteCall, SetCall,
           ExitCall, ScanFinds, ScanMoves, CallFails, CreateWins, DeleteWins,
           CreateReturns, DeleteReturns, SetReturns, ReadDtor, CallsDtor,
           Skips, MovesOn, DtorEnds, Free, Return, Go, keys, mine, locals,
           exits
  <2>2. Left(u, q)' => Left(u, q)
    BY <2>1, LeftStays
  <2>3. QED
    BY <1>0, <2>1, <2>2 DEF PassOK
<1>2. CASE u = t
  <2>1. CASE ExitCall(t)
    <3>1. /\ pc'[t] \in {"dtorread", "done"}
          /\ ekey'[t] = ekey[t]
          /\ mode'[t] = mode[t]
          /\ pc[t] = "idle" /\ mode[t] = "run"
      BY <1>0, <2>1 DEF ExitCall, Go, exits, TypeOK
    <3>2. ekey[t] = 1 /\ ~(q < 1)
      BY <1>0, <1>2, <3>1 DEF PassOK, Keys
    <3>3. QED
      BY <1>2, <3>1, <3>2 DEF PassOK
  <2>2. CASE ReadDtor(t)
    <3>1. /\ pc[t] = "dtorread" /\ pc'[t] = "genread" /\ ekey'[t] = ekey[t]
          /\ edtor'[t] = dtor[ekey[t]] /\ mode'[t] = mode[t]
          /\ did_any'[t] = did_any[t] /\ Left(t, q)' = Left(t, q)
      BY <1>0, <2>2 DEF ReadDtor, Go, Left, TypeOK, keys, mine
    <3>2. Left(t, q) => published[q]
      BY Current DEF Left
    <3>3. Left(t, q) => dtor[q] # NULL
      BY <3>2 DEF KeysSerialised, Left
    <3>4. QED
      BY <1>0, <1>2, <3>1, <3>3 DEF PassOK
  <2>3. CASE ReadGeneration(t) /\ Destroys(t)
    <3>1. pc'[t] = "idle" /\ mode'[t] = "dtor" /\ did_any'[t] = TRUE
      BY <1>0, <2>3 DEF ReadGeneration, Go, TypeOK
    <3>2. QED
      BY <1>2, <3>1 DEF PassOK
  <2>4. CASE ReadGeneration(t) /\ ~Destroys(t)
    <3>1. /\ NextKey(t)
          /\ UNCHANGED <<edtor, evalue, value, mode, keys, tsd, vgen>>
          /\ pc[t] = "genread"
      BY <2>4 DEF ReadGeneration
    <3>2. Left(t, q)' = Left(t, q) /\ mode'[t] = mode[t]
      BY <3>1 DEF Left, keys
    <3>3. q <= ekey[t] /\ Left(t, q) => did_any[t]
      <4>1. CASE q < ekey[t]
        BY <1>0, <1>2, <3>1, <4>1 DEF PassOK
      <4>2. CASE q = ekey[t] /\ Left(t, q)
        <5>1. edtor[t] # NULL
          BY <1>0, <1>2, <3>1, <4>2 DEF PassOK
        <5>2. KEY_ALLOCATED(generation[q])
          BY <4>2, Current DEF Left
        <5>3. QED
          BY <2>4, <4>2, <5>1, <5>2 DEF Destroys, Left
      <4>3. q \in Nat /\ ekey[t] \in Nat
        BY <1>0 DEF TypeOK, Keys
      <4>4. QED
        BY <4>1, <4>2, <4>3
    <3>4. mode[t] # "dtor"
      BY <3>1 DEF IInv, ReadsConsistent, ReadOK
    <3>5. /\ q \in Nat /\ ekey[t] \in Nat /\ 1 <= q /\ q <= KEYS_MAX
      BY <1>0 DEF TypeOK, Keys
    <3>6. q < ekey'[t] /\ pc'[t] = "dtorread" /\ Left(t, q) => did_any'[t]
      BY <3>1, <3>3, <3>5, PassMoves
    <3>7. pc'[t] = "free" /\ Left(t, q) => did_any'[t]
      BY <3>1, <3>3, <3>5, PassMoves
    <3>8. pc'[t] \in {"dtorread", "free"}
      BY <3>1, PassMoves
    <3>9. QED
      BY <1>2, <3>2, <3>4, <3>6, <3>7, <3>8 DEF PassOK
  <2>5. CASE DtorReturns(t)
    <3>1. did_any[t] /\ mode'[t] = "run" /\ NextKey(t)
      BY <1>0, <1>2, <2>5 DEF DtorReturns, PassOK, TypeOK
    <3>2. q \in Nat /\ 1 <= q
      BY DEF Keys
    <3>3. /\ pc'[t] \in {"dtorread", "free"}
          /\ did_any'[t] \/ (ekey'[t] = 1 /\ pc'[t] = "dtorread")
      BY <3>1, PassMoves
    <3>4. QED
      BY <1>2, <3>1, <3>2, <3>3 DEF PassOK
  <2>6. CASE Free(t)
    <3>1. /\ pc'[t] = "done"
          /\ mode'[t] = mode[t]
          /\ did_any'[t] = did_any[t]
          /\ ekey'[t] = ekey[t]
      BY <1>0, <2>6 DEF Free, Go, TypeOK, exits
    <3>2. QED
      BY <1>0, <1>2, <3>1 DEF PassOK
  <2>7. CASE ~(\/ ExitCall(t) \/ ReadDtor(t) \/ ReadGeneration(t)
               \/ DtorReturns(t) \/ Free(t))
    <3>1. /\ UNCHANGED exits
          /\ pc[t] \in {"idle", "set"} \cup Creating \cup Deleting
      BY <1>0, <2>7 DEF TypeOK, ThreadStep, Step, CreateCall, DeleteCall,
         SetCall, Scan, CreateCas, CreateReturns, DeleteCas, DeleteReturns,
         SetReturns, Creating, Deleting
    <3>2. pc'[t] \in {"idle", "set"} \cup Creating \cup Deleting
      BY <1>0, <2>7, ScanOutcomes, CreateOutcomes, DeleteOutcomes DEF TypeOK,
         ThreadStep, Step, CreateCall, DeleteCall, SetCall, ScanFinds,
         ScanMoves, CallFails, CreateWins, DeleteWins, CreateReturns,
         DeleteReturns, SetReturns, Return, Go, Creating, Deleting
    <3>3. QED
      BY <1>0, <1>2, <3>1, <3>2 DEF PassOK, exits, Creating, Deleting
  <2>8. QED
    BY <2>1, <2>2, <2>3, <2>4, <2>5, <2>6, <2>7
<1>3. QED
  BY <1>1, <1>2

(* If the application creates and deletes one key at a time, a value is    *)
(* left behind only when destructors have stored new ones in every pass.   *)
THEOREM DestructorsAlwaysRun ==
    ASSUME PthreadTsdAssumption, Serialised
    PROVE  Spec => []DestructorsRun
<1> DEFINE DInv == IInv /\ KeysSerialised /\ PassesComplete
<1>1. Init => DInv
  <2> SUFFICES ASSUME Init PROVE KeysSerialised /\ PassesComplete
    BY InitIInv
  <2>1. QED
    BY DEF Init, KeysSerialised, ChangesKeys, Creating, Deleting,
       PassesComplete, PassOK, Left
<1>2. DInv /\ [Next]_vars => DInv'
  <2> SUFFICES ASSUME DInv, [Next]_vars
               PROVE  KeysSerialised' /\ PassesComplete'
    BY NextIInv
  <2>1. CASE UNCHANGED vars
    BY <2>1 DEF vars, keys, mine, locals, exits, KeysSerialised, ChangesKeys,
       PassesComplete, PassOK, Left
  <2>2. ASSUME NEW t \in Threads, ThreadStep(t)
        PROVE  KeysSerialised' /\ PassesComplete'
    BY <2>2, SerialisedStep, PassesStep
  <2>3. QED
    BY <2>1, <2>2 DEF Next, ThreadStep, Terminated
<1>3. DInv => DestructorsRun
  BY DEF PassesComplete, PassOK, Left, DestructorsRun, GetSpecific
<1>4. QED
  BY <1>1, <1>2, <1>3, PTL DEF Spec
=============================================================================
