------------------------------- MODULE FdTable -------------------------------
(***************************************************************************)
(* What the threads of a sandbox see of its descriptors, as in POSIX: a    *)
(* table from numbers to objects.  A call that makes a descriptor gets the *)
(* lowest number that is not open at that moment; dup2 chooses its number; *)
(* the object behind an open number is never destroyed.  There is no array,*)
(* no reference count and no lock here.  DescTable implements this module. *)
(***************************************************************************)
EXTENDS Naturals, FiniteSetsExt, Functions

CONSTANTS Threads, Numbers, Objects, NoObject

VARIABLES
    fd,       \* the object behind each number
    alive,    \* the objects that exist
    request   \* the number a thread's call will set: none, the lowest, or one

LOCAL vars == <<fd, alive, request>>

Requests == {<<"none">>, <<"lowest">>} \cup ({"number"} \X Numbers)

Init ==
    /\ fd = [n \in Numbers |-> NoObject]
    /\ alive = {}
    /\ request = [t \in Threads |-> <<"none">>]

Backed == Range(fd) \ {NoObject} \subseteq alive

Asks(t) == \E r \in Requests : request' = [request EXCEPT ![t] = r]

\* A call begins or goes on; it may make new objects.
Proceed(t) == fd' = fd /\ alive \subseteq alive' /\ Asks(t)

Allocate(t) ==
    LET n == Min({k \in Numbers : fd[k] = NoObject})
    IN  /\ request[t] = <<"lowest">>
        /\ \E x \in alive : fd' = [fd EXCEPT ![n] = x]
        /\ alive' = alive
        /\ Asks(t)

\* dup2, and a call that takes a number back; the old object may die.
Set(t) ==
    /\ request[t][1] = "number"
    /\ \E x \in alive \cup {NoObject} : fd' = [fd EXCEPT ![request[t][2]] = x]
    /\ alive' \subseteq alive
    /\ Backed'
    /\ Asks(t)

Close(t) ==
    /\ request[t] = <<"none">>
    /\ \E n \in Numbers : fd[n] # NoObject /\ fd' = [fd EXCEPT ![n] = NoObject]
    /\ alive' \subseteq alive
    /\ Backed'
    /\ Asks(t)

\* The last use of an object that has no number ends.
Destroy(t) ==
    /\ fd' = fd
    /\ alive' \subseteq alive
    /\ Backed'
    /\ Asks(t)

Next ==
    \E t \in Threads :
        Proceed(t) \/ Allocate(t) \/ Set(t) \/ Close(t) \/ Destroy(t)

Spec == Init /\ [][Next]_vars
=============================================================================
