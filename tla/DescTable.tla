------------------------------ MODULE DescTable ------------------------------
(***************************************************************************)
(* The descriptors of a sandbox: the table nap->desc_tbl (sel_ldr.c), the  *)
(* reference counts of the objects in it (nacl_refcount.c) and the system  *)
(* calls that use them (sys_fdio.c, sys_imc.c, sys_filename.c, sys_memory.c*)
(* and nacl_syscall_common.c), run by several threads at once.             *)
(*                                                                         *)
(* The table is only touched under nap->desc_mu, so that a section under   *)
(* that lock is one step.  The count of an object has a lock of its own:   *)
(* taking and dropping a reference outside the table are steps too.  A     *)
(* drop that reaches zero destroys the object in the same step: nobody is  *)
(* left who could look at it in between, which is what RefsExact says.     *)
(*                                                                         *)
(* What a descriptor does (reading, waiting, sending) is not modelled: it  *)
(* takes time, in which the thread has the object and no lock.  A message  *)
(* carries host handles: a received descriptor is a new object.  The one   *)
(* that stands for an invalid descriptor in a message is left out: a call  *)
(* takes it and drops it again (sys_imc.c:234, 466).                       *)
(***************************************************************************)
EXTENDS Naturals, Sequences, FiniteSets, Functions, TLC, DynArray

CONSTANTS
    Threads,
    Objects,       \* addresses at which descriptor objects are allocated
    InitialSpace,  \* the size desc_tbl is constructed with
    NACL_MAX_FD,   \* the first number that dup2 refuses
    MaxOpen,       \* bound: open numbers, those that calls will add included
    MaxGet,        \* bound: descriptors one sendmsg takes
    MaxReceived,   \* bound: descriptors in one message
    MaxMapped      \* bound: mappings of one object

DescTableAssumption ==
    /\ InitialSpace \in Nat \ {0}
    /\ NACL_MAX_FD \in Nat
    /\ {MaxOpen, MaxGet, MaxReceived, MaxMapped} \subseteq Nat

VARIABLES
    desc_tbl,    \* nap->desc_tbl
    ref_count,   \* NaClRefCount.ref_count of each object
    live,        \* the objects that are allocated
    mapped,      \* memory map entries that name an object
    call,        \* the system call each thread is in
    aborted      \* a LOG_FATAL has ended the process

vars == <<desc_tbl, ref_count, live, mapped, call, aborted>>

Kinds == {"none", "use", "accept", "recv", "mmap", "new", "pair"}

\* A thread that is in no system call.
Idle == [pc |-> "idle", kind |-> "none", args |-> << >>, held |-> << >>,
         extra |-> << >>, new |-> << >>, nums |-> << >>]

Init ==
    /\ desc_tbl = DynArrayCtor(InitialSpace)
    /\ ref_count = [x \in Objects |-> 0]
    /\ live = {}
    /\ mapped = [x \in Objects |-> 0]
    /\ call = [t \in Threads |-> Idle]
    /\ aborted = FALSE

Desc(n) == DynArrayGet(desc_tbl, n)

\* All numbers the bounds allow, and some that are not open.
Numbers == 0 .. NACL_MAX_FD + MaxOpen

OpenNumbers == {n \in Numbers : Desc(n) # NULL}

\* The bound leaves room for n more.
Room(n) ==
    Cardinality(OpenNumbers) + n
        + MapThenSumSet(LAMBDA t : Len(call[t].new), Threads) <= MaxOpen

At(t, pc) == ~aborted /\ call[t].pc = pc

Goto(t, c) == call' = [call EXCEPT ![t] = c]

\* A call that still holds references drops them before it returns.
Leave(c) == IF c.held = << >> THEN Idle ELSE [c EXCEPT !.pc = "release"]

\* What follows once all new descriptors are in the table.
Installed(c) == IF c.kind = "pair" THEN [c EXCEPT !.pc = "copyout"] ELSE Leave(c)

-----------------------------------------------------------------------------

(* Reference counts. *)

\* NaClRefCountUnref: the counts and the live objects after one drop of x.
Unref(x, refs, objs) ==
    [refs |-> [refs EXCEPT ![x] = @ - 1],
     objs |-> IF refs[x] = 1 THEN objs \ {x} ELSE objs]

SafeUnref(x, refs, objs) ==
    IF x = NULL THEN [refs |-> refs, objs |-> objs] ELSE Unref(x, refs, objs)

\* Objects that constructors make have one reference.
Construct(xs) ==
    /\ live' = live \cup xs
    /\ ref_count' = [x \in Objects |-> IF x \in xs THEN 1 ELSE ref_count[x]]

\* n new objects, in the order they are made.
Fresh(n) == Injection(1 .. n, Objects \ live)

-----------------------------------------------------------------------------

(* The table. *)

\* NaClAppSetDescMu: the old entry is dropped, then the slot is written.
SetDescMu(tbl, d, ndp, refs, objs) ==
    LET r == SafeUnref(DynArrayGet(tbl, d), refs, objs)
    IN  /\ desc_tbl' = DynArraySet(tbl, d, ndp)
        /\ ref_count' = r.refs
        /\ live' = r.objs

\* A table that must grow and cannot is LOG_FATAL.
OutOfMemory(t) ==
    /\ \/ At(t, "install") /\ NeedsToGrow(desc_tbl, FirstAvail(desc_tbl))
       \/ At(t, "replace") /\ NeedsToGrow(desc_tbl, call[t].nums[1].n)
    /\ aborted' = TRUE
    /\ UNCHANGED <<desc_tbl, ref_count, live, mapped, call>>

-----------------------------------------------------------------------------

(* System calls begin. *)

\* A handler that uses descriptors takes a reference to each in turn.
Begin(t, kind, args) ==
    /\ At(t, "idle")
    /\ Goto(t, [Idle EXCEPT !.pc = "get", !.kind = kind, !.args = args])
    /\ UNCHANGED <<desc_tbl, ref_count, live, mapped, aborted>>

\* read, write, lseek, fstat ... (one), cond_wait (two), sendmsg (several).
UseCall(t) ==
    \E k \in 1 .. MaxGet : \E args \in [1 .. k -> OpenNumbers] :
        Begin(t, "use", args)

\* accept, connect, recvmsg, mmap.
OtherCall(t) ==
    \E kind \in {"accept", "recv", "mmap"}, d \in OpenNumbers :
        Begin(t, kind, <<d>>)

\* open, mem_obj_create, mutex_create ...: the object is made first.
NewCall(t) ==
    /\ At(t, "idle")
    /\ Room(1)
    /\ \E s \in Fresh(1) :
          /\ Construct(Range(s))
          /\ Goto(t, [Idle EXCEPT !.pc = "install", !.kind = "new", !.new = s])
    /\ UNCHANGED <<desc_tbl, mapped, aborted>>

\* socketpair and makeboundsock make two.
PairCall(t) ==
    /\ At(t, "idle")
    /\ Room(2)
    /\ \E s \in Fresh(2) :
          /\ Construct(Range(s))
          /\ Goto(t, [Idle EXCEPT !.pc = "install", !.kind = "pair", !.new = s])
    /\ UNCHANGED <<desc_tbl, mapped, aborted>>

NaClSysDup(t, d) ==
    /\ At(t, "idle")
    /\ Desc(d) # NULL
    /\ Room(1)
    /\ ref_count' = [ref_count EXCEPT ![Desc(d)] = @ + 1]
    /\ Goto(t, [Idle EXCEPT !.pc = "install", !.kind = "new",
                            !.new = <<Desc(d)>>])
    /\ UNCHANGED <<desc_tbl, live, mapped, aborted>>

NaClSysDup2(t, oldfd, newfd) ==
    /\ At(t, "idle")
    /\ newfd < NACL_MAX_FD
    /\ Desc(oldfd) # NULL
    /\ Room(1)
    /\ ref_count' = [ref_count EXCEPT ![Desc(oldfd)] = @ + 1]
    /\ Goto(t, [Idle EXCEPT !.pc = "replace", !.kind = "new",
                            !.new = <<Desc(oldfd)>>,
                            !.nums = <<[n |-> newfd, x |-> Desc(oldfd)]>>])
    /\ UNCHANGED <<desc_tbl, live, mapped, aborted>>

\* Both table accesses of close are in one section; the last drop is not.
NaClSysClose(t, d) ==
    /\ At(t, "idle")
    /\ Desc(d) # NULL
    /\ SetDescMu(desc_tbl, d, NULL, [ref_count EXCEPT ![Desc(d)] = @ + 1], live)
    /\ Goto(t, [Idle EXCEPT !.pc = "release", !.held = <<Desc(d)>>])
    /\ UNCHANGED <<mapped, aborted>>

-----------------------------------------------------------------------------

(* System calls go on. *)

\* NaClAppGetDesc of the next descriptor; EBADF drops those the call has.
NaClAppGetDesc(t) ==
    /\ At(t, "get")
    /\ LET c == call[t]
           x == Desc(Head(c.args))
           left == Tail(c.args)
       IN  IF x = NULL
           THEN Goto(t, Leave(c)) /\ UNCHANGED ref_count
           ELSE /\ ref_count' = [ref_count EXCEPT ![x] = @ + 1]
                /\ Goto(t, [c EXCEPT !.args = left, !.held = Append(@, x),
                                     !.pc = IF left = << >> THEN "use" ELSE "get"])
    /\ UNCHANGED <<desc_tbl, live, mapped, aborted>>

\* The operation is over; any kind may fail, and then makes nothing.
Used(t) ==
    /\ At(t, "use")
    /\ Goto(t, Leave(call[t]))
    /\ UNCHANGED <<desc_tbl, ref_count, live, mapped, aborted>>

\* AcceptConn and ConnectAddr return a new object.
Accepted(t) ==
    /\ At(t, "use")
    /\ call[t].kind = "accept"
    /\ Room(1)
    /\ \E s \in Fresh(1) :
          /\ Construct(Range(s))
          /\ Goto(t, [call[t] EXCEPT !.pc = "install", !.new = s])
    /\ UNCHANGED <<desc_tbl, mapped, aborted>>

\* RecvMsg returned objects; the caller's array has room for some of them.
Received(t) ==
    /\ At(t, "use")
    /\ call[t].kind = "recv"
    /\ \E n \in 1 .. MaxReceived : \E s \in Fresh(n), room \in 0 .. n :
          /\ Room(room)
          /\ Construct(Range(s))
          /\ Goto(t, [call[t] EXCEPT !.pc = IF room < n THEN "truncate" ELSE "install",
                                     !.new = SubSeq(s, 1, room),
                                     !.extra = SubSeq(s, room + 1, n)])
    /\ UNCHANGED <<desc_tbl, mapped, aborted>>

\* Mutant: the descriptors that do not fit are forgotten.
TruncateLeaks(t) ==
    /\ At(t, "truncate")
    /\ LET c == [call[t] EXCEPT !.extra = << >>]
       IN  Goto(t, IF c.new = << >> THEN Leave(c) ELSE [c EXCEPT !.pc = "install"])
    /\ UNCHANGED <<desc_tbl, ref_count, live, mapped, aborted>>

\* Descriptors that do not fit are dropped.
Truncate(t) ==
    /\ At(t, "truncate")
    /\ LET c == [call[t] EXCEPT !.extra = Tail(@)]
           r == Unref(Head(call[t].extra), ref_count, live)
       IN  /\ ref_count' = r.refs
           /\ live' = r.objs
           /\ Goto(t, CASE c.extra # << >> -> c
                        [] c.extra = << >> /\ c.new = << >> -> Leave(c)
                        [] OTHER -> [c EXCEPT !.pc = "install"])
    /\ UNCHANGED <<desc_tbl, mapped, aborted>>

\* mmap enters the mapping into the memory map, with its own reference.
MappedInto(t) ==
    /\ At(t, "use")
    /\ call[t].kind = "mmap"
    /\ LET x == Head(call[t].held)
       IN  /\ mapped[x] < MaxMapped
           /\ mapped' = [mapped EXCEPT ![x] = @ + 1]
           /\ ref_count' = [ref_count EXCEPT ![x] = @ + 1]
    /\ Goto(t, Leave(call[t]))
    /\ UNCHANGED <<desc_tbl, live, aborted>>

\* munmap of the middle of an entry leaves two entries.
SplitMapping(t, x) ==
    /\ At(t, "idle")
    /\ mapped[x] \in 1 .. MaxMapped - 1
    /\ mapped' = [mapped EXCEPT ![x] = @ + 1]
    /\ ref_count' = [ref_count EXCEPT ![x] = @ + 1]
    /\ UNCHANGED <<desc_tbl, live, call, aborted>>

\* munmap, or a mapping over it, frees an entry.
FreeMapping(t, x) ==
    /\ At(t, "idle")
    /\ mapped[x] > 0
    /\ mapped' = [mapped EXCEPT ![x] = @ - 1]
    /\ LET r == Unref(x, ref_count, live)
       IN  ref_count' = r.refs /\ live' = r.objs
    /\ UNCHANGED <<desc_tbl, call, aborted>>

\* Mutant: off by one, the number after the first free one.
NaClAppSetDescAvailSecond(t) ==
    /\ At(t, "install")
    /\ LET pos == FirstAvail(desc_tbl) + 1
           c == [call[t] EXCEPT !.new = Tail(@),
                                !.nums = Append(@, [n |-> pos, x |-> Head(call[t].new)])]
       IN  /\ SetDescMu(AfterFirstAvail(desc_tbl), pos, Head(call[t].new),
                        ref_count, live)
           /\ Goto(t, IF c.new = << >> THEN Installed(c) ELSE c)
    /\ UNCHANGED <<mapped, aborted>>

\* NaClAppSetDescAvail: the reference of the call becomes the table's.
NaClAppSetDescAvail(t) ==
    /\ At(t, "install")
    /\ LET pos == FirstAvail(desc_tbl)
           c == [call[t] EXCEPT !.new = Tail(@),
                                !.nums = Append(@, [n |-> pos, x |-> Head(call[t].new)])]
       IN  /\ SetDescMu(AfterFirstAvail(desc_tbl), pos, Head(call[t].new),
                        ref_count, live)
           /\ Goto(t, IF c.new = << >> THEN Installed(c) ELSE c)
    /\ UNCHANGED <<mapped, aborted>>

\* NaClAppSetDesc of dup2.
NaClAppSetDesc(t) ==
    /\ At(t, "replace")
    /\ SetDescMu(desc_tbl, call[t].nums[1].n, Head(call[t].new), ref_count, live)
    /\ Goto(t, Idle)
    /\ UNCHANGED <<mapped, aborted>>

\* The numbers of a pair are copied out, or the address is bad.
CopyOut(t) ==
    /\ At(t, "copyout")
    /\ \/ Goto(t, Idle)
       \/ Goto(t, [call[t] EXCEPT !.pc = "cleanup",
                                  !.args = [i \in 1 .. 2 |-> call[t].nums[i].n]])
    /\ UNCHANGED <<desc_tbl, ref_count, live, mapped, aborted>>

\* After a failed copy both numbers are closed, whatever they are now.
Cleanup(t) ==
    /\ At(t, "cleanup")
    /\ SetDescMu(desc_tbl, Head(call[t].args), NULL, ref_count, live)
    /\ Goto(t, IF Len(call[t].args) = 1 THEN Idle
               ELSE [call[t] EXCEPT !.args = Tail(@)])
    /\ UNCHANGED <<mapped, aborted>>

Release(t) ==
    /\ At(t, "release")
    /\ LET r == Unref(Head(call[t].held), ref_count, live)
       IN  ref_count' = r.refs /\ live' = r.objs
    /\ Goto(t, Leave([call[t] EXCEPT !.held = Tail(@)]))
    /\ UNCHANGED <<desc_tbl, mapped, aborted>>

Ended == aborted /\ UNCHANGED vars

Next ==
    \/ \E t \in Threads :
          \/ UseCall(t) \/ OtherCall(t) \/ NewCall(t) \/ PairCall(t)
          \/ NaClAppGetDesc(t) \/ Used(t) \/ Accepted(t) \/ Received(t)
          \/ Truncate(t) \/ MappedInto(t) \/ NaClAppSetDescAvail(t)
          \/ NaClAppSetDesc(t) \/ CopyOut(t) \/ Cleanup(t) \/ Release(t)
          \/ OutOfMemory(t)
          \/ \E d \in OpenNumbers : NaClSysDup(t, d) \/ NaClSysClose(t, d)
          \/ \E d \in OpenNumbers, n \in Numbers : NaClSysDup2(t, d, n)
          \/ \E x \in Objects : SplitMapping(t, x) \/ FreeMapping(t, x)
    \/ Ended

Spec == Init /\ [][Next]_vars

\* Threads and objects are interchangeable.
Symmetry == Permutations(Threads) \cup Permutations(Objects)

-----------------------------------------------------------------------------

(* Properties. *)

Numbered == [n : Nat, x : Objects]

TypeOK ==
    /\ \A i \in DOMAIN desc_tbl.ptr_array : desc_tbl.ptr_array[i] \in Objects \cup {NULL}
    /\ ref_count \in [Objects -> Nat]
    /\ live \subseteq Objects
    /\ mapped \in [Objects -> Nat]
    /\ aborted \in BOOLEAN
    /\ \A t \in Threads :
          /\ call[t].kind \in Kinds
          /\ \A s \in {call[t].held, call[t].extra, call[t].new} : Range(s) \subseteq Objects
          /\ Range(call[t].nums) \subseteq Numbered

Occurrences(x, s) == Cardinality({i \in DOMAIN s : s[i] = x})

\* How often thread t will drop x or hand it to the table.
HeldBy(t, x) ==
    Occurrences(x, call[t].held) + Occurrences(x, call[t].extra)
        + Occurrences(x, call[t].new)

\* The count of an object is exactly the number of table entries, memory map
\* entries and running system calls that hold it, and the object is allocated
\* exactly as long as the count is positive.  So no call uses a descriptor
\* that another thread's close, dup2 or munmap has destroyed, the count never
\* drops below zero, and no error path leaks an object.
RefsExact ==
    \A x \in Objects :
        /\ ref_count[x] = Occurrences(x, desc_tbl.ptr_array) + mapped[x]
                              + MapThenSumSet(LAMBDA t : HeldBy(t, x), Threads)
        /\ x \in live <=> ref_count[x] > 0

\* The bits and the count of the table say exactly which numbers are open,
\* and the hint has no free number below it, also across growth, when a
\* number far up is set by dup2, and when low numbers are closed.
TableConsistent == BitsExact(desc_tbl) /\ HintExact(desc_tbl)

\* The table behaves as the descriptor table of FdTable: a call that makes a
\* descriptor gets the lowest number that is not open, sets no other number,
\* and no step destroys an object behind an open number.
Request(c) ==
    CASE c.pc = "install" -> <<"lowest">>
      [] c.pc = "replace" -> <<"number", c.nums[1].n>>
      [] c.pc = "cleanup" -> <<"number", Head(c.args)>>
      [] OTHER -> <<"none">>

Abstract ==
    INSTANCE FdTable WITH
        NoObject <- NULL,
        fd <- [n \in Numbers |-> Desc(n)],
        alive <- live,
        request <- [t \in Threads |-> Request(call[t])]

AbstractUnchanged == UNCHANGED <<live, [n \in Numbers |-> Desc(n)],
                                [t \in Threads |-> Request(call[t])]>>

=============================================================================
