------------------------------ MODULE DynArray ------------------------------
(***************************************************************************)
(* The growing array of the service runtime (dyn_array.c), which holds the *)
(* descriptor table of a sandbox and its table of threads.  Beside the     *)
(* pointers it keeps a bit for each entry, in words, and the index of a    *)
(* word below which no bit is clear, so that the first free entry is found *)
(* without a scan of the array.                                            *)
(*                                                                         *)
(* The operators take and return the whole struct.  The code's word has 32 *)
(* bits; BitsPerWord is smaller in the runs so that a few entries fill     *)
(* several words.  A word is the set of its bits that are 1.               *)
(***************************************************************************)
EXTENDS Naturals, FiniteSetsExt

CONSTANTS
    BitsPerWord,   \* kBitsPerWord
    NULL           \* the null pointer

DynArrayAssumption == BitsPerWord \in Nat \ {0}

LOCAL Bits == 0 .. BitsPerWord - 1

BitsToAllocWords(nbits) == (nbits + BitsPerWord - 1) \div BitsPerWord

BitsToIndex(nbits) == nbits \div BitsPerWord

BitsToOffset(nbits) == nbits % BitsPerWord

\* A new array; initial_size is not 0 in the calls of the runtime.
DynArrayCtor(initial_size) ==
    [num_entries |-> 0,
     ptr_array   |-> [i \in 0 .. initial_size - 1 |-> NULL],
     available   |-> [w \in 0 .. BitsToAllocWords(initial_size) - 1 |-> {}],
     avail_ix    |-> 0]

\* ptr_array_space: the entries that are allocated.
Space(dap) == Cardinality(DOMAIN dap.ptr_array)

DynArrayGet(dap, idx) ==
    IF idx < dap.num_entries THEN dap.ptr_array[idx] ELSE NULL

\* The space after doubling it until idx fits.
DesiredSpace(dap, idx) ==
    Min({s \in {Space(dap) * 2^k : k \in 0 .. idx + 1} : idx < s})

NeedsToGrow(dap, idx) == idx >= Space(dap)

Grown(dap, idx) ==
    LET desired == DesiredSpace(dap, idx)
        Kept(f, n, zero) == [i \in 0 .. n - 1 |->
                                IF i \in DOMAIN f THEN f[i] ELSE zero]
    IN  [dap EXCEPT
            !.ptr_array = Kept(@, desired, NULL),
            !.available = Kept(@, BitsToAllocWords(desired), {})]

\* Mutants: a bit that stays set, a hint that is not lowered, an entry that
\* the count does not cover.
DynArraySetKeepsBit(dap, idx, ptr) ==
    LET b == IF NeedsToGrow(dap, idx) THEN Grown(dap, idx) ELSE dap
        ix == BitsToIndex(idx)
    IN  [b EXCEPT
            !.ptr_array[idx] = ptr,
            !.available[ix] = @ \cup {BitsToOffset(idx)},
            !.num_entries = IF @ <= idx THEN idx + 1 ELSE @]

DynArraySet(dap, idx, ptr) ==
    LET b == IF NeedsToGrow(dap, idx) THEN Grown(dap, idx) ELSE dap
        ix == BitsToIndex(idx)
        bit == {BitsToOffset(idx)}
    IN  [b EXCEPT
            !.ptr_array[idx] = ptr,
            !.available[ix] = IF ptr # NULL THEN @ \cup bit ELSE @ \ bit,
            !.avail_ix = IF ptr = NULL /\ ix < @ THEN ix ELSE @,
            !.num_entries = IF @ <= idx THEN idx + 1 ELSE @]

\* The words from the hint on that have a clear bit.
NotAllOnes(dap) ==
    {ix \in DOMAIN dap.available : ix >= dap.avail_ix /\ dap.available[ix] # Bits}

\* The position returned, and the array with the hint moved forward.  The
\* position may lie beyond the space: the last word may have spare bits.
FirstAvail(dap) ==
    IF NotAllOnes(dap) = {}
    THEN Space(dap)
    ELSE LET ix == Min(NotAllOnes(dap))
         IN  ix * BitsPerWord + Min(Bits \ dap.available[ix])

AfterFirstAvail(dap) ==
    IF NotAllOnes(dap) = {}
    THEN dap
    ELSE [dap EXCEPT !.avail_ix = Min(NotAllOnes(dap))]

-----------------------------------------------------------------------------

(* What the struct must keep true between calls. *)

\* The bits and the count say exactly which entries are in use.
BitsExact(dap) ==
    /\ DOMAIN dap.available = 0 .. BitsToAllocWords(Space(dap)) - 1
    /\ \A ix \in DOMAIN dap.available :
          dap.available[ix] =
              {b \in Bits : /\ ix * BitsPerWord + b < Space(dap)
                            /\ dap.ptr_array[ix * BitsPerWord + b] # NULL}
    /\ \A i \in DOMAIN dap.ptr_array :
          dap.ptr_array[i] # NULL => i < dap.num_entries

\* No entry below the hinted word is free.
HintExact(dap) ==
    \A i \in DOMAIN dap.ptr_array :
        BitsToIndex(i) < dap.avail_ix => dap.ptr_array[i] # NULL
=============================================================================
