------------------------------ MODULE RspSession ------------------------------
(***************************************************************************)
(* The conversation between the debug stub and GDB: packets, checksums,    *)
(* acknowledgements and retransmission (session.cc), the buffered          *)
(* transport (transport_common.cc), the command loop of the stub's thread  *)
(* (target.cc, nacl_debug.cc), and the exit of the program, which reports  *)
(* to GDB from another thread.                                             *)
(*                                                                         *)
(* A channel is a sequence of characters.  The characters of a packet's    *)
(* payload are one, whose value is the payload, and so are the two digits  *)
(* of its checksum, whose value is the payload it was computed from: a     *)
(* checksum matches if both values are equal.  GDB is external; it follows *)
(* its remote protocol, may crash at any time, and connects again.         *)
(* What suspending and resuming threads takes is in ThreadSuspend.         *)
(***************************************************************************)
EXTENDS Naturals, Sequences

CONSTANTS
    MaxCommands,     \* bound: commands GDB sends, over all connections
    MaxConnections,  \* bound: connections
    MaxGarbled,      \* bound: characters damaged on the way
    GarbleReports,   \* whether stop and exit packets may be damaged, too
    BufSize          \* kBufSize

RspAssumption ==
    /\ {MaxCommands, MaxConnections, MaxGarbled} \subseteq Nat
    /\ GarbleReports \in BOOLEAN
    /\ BufSize \in Nat \ {0}

VARIABLES
    toStub, toGdb,  \* characters in the socket, by direction
    buf,            \* Transport::buf_ from pos_ to size_
    pos,            \* Transport::pos_
    conn,           \* the stub has an open socket
    stub,           \* the stub's thread: where it is, the packet it works on
    suspended,      \* Target::all_threads_suspended_
    ignoring,       \* "initial" breakpoint active, "step" over one, or "no"
    faulted,        \* nap->faulted_thread_count > 0
    exit,           \* where the main thread is in Target::Exit
    gdb,            \* GDB: where it is, its last command, its interrupt
    executed,       \* the number of the last command the stub executed
    connections,    \* connections so far
    garbled         \* characters damaged so far

channels == <<toStub, toGdb, buf, pos>>
target == <<suspended, ignoring, faulted>>
bounds == <<executed, connections, garbled>>
vars == <<channels, conn, stub, target, exit, gdb, bounds>>

None == <<"none", 0>>
Char(c, v) == [c |-> c, v |-> v]
Plus == Char("+", None)
Minus == Char("-", None)
CtrlC == Char("^C", None)

\* SendPacketOnly: what one write puts into the channel.
Packet(body) ==
    <<Char("$", None), Char("data", body), Char("#", None), Char("xsum", body)>>

Init ==
    /\ toStub = << >> /\ toGdb = << >> /\ buf = << >> /\ pos = 0
    /\ conn = TRUE
    /\ stub = [pc |-> "wait", data |-> None]
    /\ suspended = FALSE /\ ignoring = "initial" /\ faulted = FALSE
    /\ exit = "no"
    /\ gdb = [pc |-> "stopped", n |-> 0, kind |-> "cmd", intr |-> FALSE]
    /\ executed = 0 /\ connections = 1 /\ garbled = 0

size == pos + Len(buf)

Alive == exit # "done"

\* Target::mutex_ is free of Exit, or of the stub's thread.
ExitHoldsMutex == exit \in {"write", "getchar", "recv"}
StubHoldsMutex == stub.pc \notin {"wait", "event", "accept"}

AtEof == toStub = << >> /\ gdb.pc = "gone"
SocketReadable == toStub # << >> \/ AtEof

Min2(a, b) == IF a <= b THEN a ELSE b

Write(chars) == toGdb' = IF gdb.pc = "gone" THEN << >> ELSE toGdb \o chars

\* What GetPacket goes back to if its acknowledgement cannot be written.
WriteFailed == IF gdb.pc = "gone" THEN {"toss"} ELSE {}

StubGoto(pc) == stub' = [stub EXCEPT !.pc = pc]

-----------------------------------------------------------------------------

(* The transport. *)

\* Read of one character by the thread that holds the mutex: from the
\* buffer, or the buffer starts over with what one recv returns.
GetChar(ch) ==
    \/ /\ buf # << >>
       /\ ch = Head(buf)
       /\ buf' = Tail(buf)
       /\ pos' = pos + 1
       /\ toStub' = toStub
    \/ /\ buf = << >> /\ toStub # << >>
       /\ ch = Head(toStub)
       /\ \E k \in 1 .. Min2(Len(toStub), BufSize) :
             /\ buf' = SubSeq(toStub, 2, k)
             /\ toStub' = SubSeq(toStub, k + 1, Len(toStub))
       /\ pos' = 1

Readable == buf # << >> \/ toStub # << >>
NextChar == IF buf # << >> THEN Head(buf) ELSE Head(toStub)

\* Mutant: recv is not told how much room is left.
ReadSomeDataUnbounded ==
    /\ SocketReadable
    /\ buf' = buf \o toStub
    /\ toStub' = << >>
    /\ pos' = pos

\* The recv in WaitForDebugStubEvent appends to the buffer.
ReadSomeData ==
    \/ /\ toStub # << >>
       /\ \E k \in 1 .. Min2(Len(toStub), BufSize - size) :
             /\ buf' = buf \o SubSeq(toStub, 1, k)
             /\ toStub' = SubSeq(toStub, k + 1, Len(toStub))
       /\ pos' = pos
    \/ AtEof /\ UNCHANGED <<buf, toStub, pos>>

\* Mutant: the socket is not watched while the buffer holds anything.
WaitForDebugStubEventDeaf ==
    /\ Alive /\ stub.pc = "wait" /\ ~suspended
    /\ \/ /\ faulted
          /\ UNCHANGED <<toStub, buf, pos>>
       \/ /\ size = 0 /\ SocketReadable
          /\ ReadSomeData
    /\ StubGoto("event")
    /\ UNCHANGED <<toGdb, conn, target, exit, gdb, bounds>>

\* Waits for a fault or for input; reads the socket if there is room.
WaitForDebugStubEvent ==
    /\ Alive /\ stub.pc = "wait" /\ ~suspended
    /\ \/ /\ faulted \/ (buf # << >> /\ ignoring = "no")
          /\ UNCHANGED <<toStub, buf, pos>>
       \/ /\ size < BufSize /\ SocketReadable
          /\ ReadSomeData
    /\ StubGoto("event")
    /\ UNCHANGED <<toGdb, conn, target, exit, gdb, bounds>>

-----------------------------------------------------------------------------

(* The stub's thread. *)

\* Suspended threads may be left over from a previous connection.
WaitForDebugEvent ==
    /\ Alive /\ stub.pc = "wait" /\ suspended
    /\ ~ExitHoldsMutex
    /\ StubGoto("toss")
    /\ UNCHANGED <<channels, conn, target, exit, gdb, bounds>>

\* Stops the program on a fault, or on input, which is taken for an
\* interrupt; the stop is reported except for the initial breakpoint.
ProcessDebugEvent ==
    /\ Alive /\ stub.pc = "event" /\ ~ExitHoldsMutex
    /\ IF faulted \/ (ignoring = "no" /\ (buf # << >> \/ SocketReadable))
       THEN /\ suspended' = TRUE /\ ignoring' = "no" /\ faulted' = FALSE
            /\ IF ignoring = "initial" THEN toGdb' = toGdb
               ELSE Write(Packet(<<"stop", 0>>))
            /\ StubGoto("toss")
       ELSE StubGoto("wait") /\ UNCHANGED <<target, toGdb>>
    /\ UNCHANGED <<toStub, buf, pos, conn, exit, gdb, bounds>>

\* Session::Disconnect: the socket is closed, the buffer stays as it is.
Disconnect == conn' = FALSE /\ toStub' = << >>

\* What GetPacket does with a character in front of a packet or inside one:
\* a '$' starts the packet over.
PayloadStep(ch) ==
    /\ stub' = IF ch.c = "$" THEN [pc |-> "data", data |-> None]
               ELSE IF stub.pc = "toss" THEN stub
               ELSE IF ch.c = "#" THEN [stub EXCEPT !.pc = "xsum"]
               ELSE [stub EXCEPT !.data = ch.v]
    /\ toGdb' = toGdb

\* Mutant: the checksum is not compared.
GetPacketTrusting ==
    /\ Alive /\ stub.pc \in {"toss", "data", "xsum"}
    /\ Readable
    /\ LET ch == NextChar
       IN  /\ GetChar(ch)
           /\ \/ stub.pc = "xsum" /\ Write(<<Plus>>) /\ StubGoto("execute")
              \/ stub.pc # "xsum" /\ PayloadStep(ch)
    /\ UNCHANGED <<conn, target, exit, gdb, bounds>>

\* GetPacket, one character at a time.
GetPacket ==
    /\ Alive /\ stub.pc \in {"toss", "data", "xsum"}
    /\ Readable
    /\ LET ch == NextChar
       IN  /\ GetChar(ch)
           /\ \/ /\ stub.pc = "xsum" /\ ch.v = stub.data
                 /\ Write(<<Plus>>)
                 /\ \E pc \in {"execute"} \cup WriteFailed : StubGoto(pc)
              \/ /\ stub.pc = "xsum" /\ ch.v # stub.data
                 /\ Write(<<Minus>>)
                 /\ stub' = [pc |-> "data", data |-> None]
              \/ stub.pc # "xsum" /\ PayloadStep(ch)
    /\ UNCHANGED <<conn, target, exit, gdb, bounds>>

\* Mutant: the end of the connection is noticed before the buffer is read.
ConnectionLostEarly ==
    /\ Alive /\ stub.pc \in {"toss", "data", "xsum", "ack"}
    /\ AtEof
    /\ Disconnect
    /\ suspended' = TRUE
    /\ StubGoto("accept")
    /\ UNCHANGED <<toGdb, buf, pos, ignoring, faulted, exit, gdb, bounds>>

\* The connection ends while a packet or an acknowledgement is awaited.
ConnectionLost ==
    /\ Alive /\ stub.pc \in {"toss", "data", "xsum", "ack"}
    /\ buf = << >> /\ AtEof
    /\ Disconnect
    /\ suspended' = ~(stub.pc = "ack" /\ stub.data[1] = "detach")
    /\ exit' = IF stub.pc = "ack" /\ stub.data[1] = "kill" THEN "done" ELSE exit
    /\ StubGoto("accept")
    /\ UNCHANGED <<toGdb, buf, pos, ignoring, faulted, gdb, bounds>>

\* A continue command resumes the program, perhaps one thread at first, to
\* step over a breakpoint.  Other commands are answered.
ProcessPacket ==
    /\ Alive /\ stub.pc = "execute"
    /\ IF stub.data[1] = "cont"
       THEN /\ suspended' = FALSE
            /\ ignoring' \in {"no", "step"}
            /\ faulted' = faulted
            /\ StubGoto("wait")
       ELSE StubGoto("reply") /\ UNCHANGED target
    /\ executed' = stub.data[2]
    /\ UNCHANGED <<channels, conn, exit, gdb, connections, garbled>>

SendPacket ==
    /\ Alive /\ stub.pc = "reply"
    /\ Write(Packet(<<"reply", stub.data[2]>>))
    /\ StubGoto("ack")
    /\ UNCHANGED <<toStub, buf, pos, conn, target, exit, gdb, bounds>>

\* Mutant: a reply is not repeated.
AwaitAckOnce ==
    /\ Alive /\ stub.pc = "ack" /\ Readable
    /\ GetChar(NextChar)
    /\ StubGoto("toss")
    /\ UNCHANGED <<toGdb, conn, target, exit, gdb, bounds>>

\* Mutant: a negative acknowledgement repeats the command, not its answer.
AwaitAckAgain ==
    /\ Alive /\ stub.pc = "ack" /\ Readable
    /\ LET ch == NextChar
       IN  GetChar(ch) /\ StubGoto(IF ch = Plus THEN "toss" ELSE "execute")
    /\ UNCHANGED <<toGdb, conn, target, exit, gdb, bounds>>

\* Anything but '+' repeats the packet.  After a detach the stub hangs
\* up, and after a kill the process ends.
AwaitAck ==
    /\ Alive /\ stub.pc = "ack" /\ Readable
    /\ LET ch == NextChar
       IN  /\ GetChar(ch)
           /\ StubGoto(CASE ch # Plus -> "reply"
                         [] ch = Plus /\ stub.data[1] = "detach" -> "detach"
                         [] OTHER -> "toss")
           /\ exit' = IF ch = Plus /\ stub.data[1] = "kill" THEN "done" ELSE exit
    /\ UNCHANGED <<toGdb, conn, target, gdb, bounds>>

Detach ==
    /\ Alive /\ stub.pc = "detach"
    /\ Disconnect
    /\ suspended' = FALSE
    /\ StubGoto("accept")
    /\ UNCHANGED <<toGdb, buf, pos, ignoring, faulted, exit, gdb, bounds>>

\* NaClStubThread: the next connection, with the same transport.
AcceptConnection ==
    /\ Alive /\ stub.pc = "accept"
    /\ gdb.pc = "gone" /\ ~conn
    /\ connections < MaxConnections
    /\ connections' = connections + 1
    /\ conn' = TRUE
    /\ toGdb' = << >>
    /\ stub' = [pc |-> "wait", data |-> None]
    /\ gdb' = [gdb EXCEPT !.pc = "stopped", !.intr = FALSE]
    /\ UNCHANGED <<toStub, buf, pos, target, exit, executed, garbled>>

StubStep ==
    \/ WaitForDebugEvent \/ WaitForDebugStubEvent \/ ProcessDebugEvent
    \/ GetPacket \/ ConnectionLost \/ ProcessPacket \/ SendPacket
    \/ AwaitAck \/ Detach

-----------------------------------------------------------------------------

(* The program. *)

\* A running thread gets a signal.
Fault ==
    /\ Alive /\ ~suspended /\ ~faulted
    /\ faulted' = TRUE
    /\ UNCHANGED <<channels, conn, stub, suspended, ignoring, exit, gdb, bounds>>

\* Target::Exit by the main thread: only with a session does it do anything.
ExitBegins ==
    /\ exit = "no" /\ ignoring # "initial"
    /\ ~StubHoldsMutex
    /\ exit' = IF stub.pc = "accept" THEN "done" ELSE "write"
    /\ UNCHANGED <<channels, conn, stub, target, gdb, bounds>>

ExitWrites ==
    /\ exit = "write"
    /\ Write(Packet(<<"exit", 0>>))
    /\ exit' = "getchar"
    /\ UNCHANGED <<toStub, buf, pos, conn, stub, target, gdb, bounds>>

\* Read by the main thread, while the stub's thread may be in its select.
ExitGetChar ==
    /\ exit = "getchar"
    /\ IF buf # << >>
       THEN /\ exit' = IF Head(buf) = Plus THEN "done" ELSE "write"
            /\ buf' = Tail(buf)
            /\ pos' = pos + 1
       ELSE exit' = "recv" /\ pos' = 0 /\ UNCHANGED buf
    /\ UNCHANGED <<toStub, toGdb, conn, stub, target, gdb, bounds>>

\* Mutant: the end of the connection is not an error.
ExitRecvForever ==
    /\ exit = "recv" /\ toStub # << >>
    /\ exit' = IF Head(toStub) = Plus THEN "done" ELSE "write"
    /\ buf' = Tail(toStub) /\ toStub' = << >> /\ pos' = 1
    /\ UNCHANGED <<toGdb, conn, stub, target, gdb, bounds>>

\* n characters that are counted in the buffer but were stored at no time
\* since it started over: to Exit each is '+', or it is not.
Leftovers(n) == [1 .. n -> {Plus, Minus}]

\* recv returns: its data starts at the offset from before it blocked and
\* overwrites what the other thread has stored since, but adds to its size,
\* which may then be more than BufSize.
ExitRecv ==
    /\ exit = "recv" /\ SocketReadable
    /\ IF AtEof
       THEN exit' = "done" /\ UNCHANGED <<toStub, buf, pos>>
       ELSE /\ exit' = IF Head(toStub) = Plus THEN "done" ELSE "write"
            /\ \E k \in 1 .. Min2(Len(toStub), BufSize) :
                  /\ \E left \in Leftovers(Min2(k, Len(buf))) :
                        buf' = SubSeq(toStub, 2, k) \o SubSeq(buf, k + 1, Len(buf)) \o left
                  /\ toStub' = SubSeq(toStub, k + 1, Len(toStub))
            /\ pos' = 1
    /\ UNCHANGED <<toGdb, conn, stub, target, gdb, bounds>>

ExitStep == ExitWrites \/ ExitGetChar \/ ExitRecv

-----------------------------------------------------------------------------

(* GDB (external), and the channel. *)

Gdb(pc) == gdb' = [gdb EXCEPT !.pc = pc]

SendToStub(chars) == toStub' = IF conn /\ Alive THEN toStub \o chars ELSE << >>

GdbCommand ==
    /\ gdb.pc = "stopped" /\ gdb.n < MaxCommands
    /\ \E kind \in {"cmd", "cont", "detach", "kill"} :
          /\ gdb' = [gdb EXCEPT !.pc = "ack", !.n = @ + 1, !.kind = kind]
          /\ SendToStub(Packet(<<kind, gdb.n + 1>>))
    /\ UNCHANGED <<toGdb, buf, pos, conn, stub, target, exit, bounds>>

GdbInterrupt ==
    /\ gdb.pc = "running" /\ ~gdb.intr
    /\ gdb' = [gdb EXCEPT !.intr = TRUE]
    /\ SendToStub(<<CtrlC>>)
    /\ UNCHANGED <<toGdb, buf, pos, conn, stub, target, exit, bounds>>

\* While it waits for '+', GDB ignores packets; any other character makes it
\* send the command again.
GdbAwaitsAck ==
    /\ gdb.pc = "ack" /\ toGdb # << >>
    /\ IF Head(toGdb).c = "$"
       THEN toGdb' = SubSeq(toGdb, 5, Len(toGdb)) /\ UNCHANGED <<gdb, toStub>>
       ELSE /\ toGdb' = Tail(toGdb)
            /\ IF Head(toGdb) = Plus
               THEN /\ gdb' = [gdb EXCEPT !.pc = IF gdb.kind = "cont" THEN "running"
                                                  ELSE "reply",
                                          !.intr = FALSE]
                    /\ UNCHANGED toStub
               ELSE SendToStub(Packet(<<gdb.kind, gdb.n>>)) /\ UNCHANGED gdb
    /\ UNCHANGED <<buf, pos, conn, stub, target, exit, bounds>>

PacketArrived == Len(toGdb) >= 4 /\ Head(toGdb).c = "$"
ArrivedBody == toGdb[2].v
ArrivedGood == toGdb[2].v = toGdb[4].v

GdbAwaitsPacket ==
    /\ gdb.pc \in {"reply", "running"} /\ PacketArrived
    /\ toGdb' = SubSeq(toGdb, 5, Len(toGdb))
    /\ IF ArrivedGood
       THEN /\ SendToStub(<<Plus>>)
            /\ Gdb(IF ArrivedBody[1] = "exit" \/ gdb.kind \in {"detach", "kill"}
                   THEN "gone" ELSE "stopped")
       ELSE SendToStub(<<Minus>>) /\ UNCHANGED gdb
    /\ UNCHANGED <<buf, pos, conn, stub, target, exit, bounds>>

GdbCrash ==
    /\ gdb.pc # "gone"
    /\ connections < MaxConnections
    /\ Gdb("gone")
    /\ toGdb' = << >>
    /\ UNCHANGED <<toStub, buf, pos, conn, stub, target, exit, bounds>>

\* A payload or a checksum is damaged; damage to framing is not modelled.
Garble ==
    /\ garbled < MaxGarbled
    /\ garbled' = garbled + 1
    /\ \/ \E i \in DOMAIN toStub :
             /\ toStub[i].c \in {"data", "xsum"}
             /\ toStub' = [toStub EXCEPT ![i].v = <<"garbled", garbled>>]
             /\ toGdb' = toGdb
       \/ \E i \in DOMAIN toGdb :
             /\ toGdb[i].c \in {"data", "xsum"}
             /\ GarbleReports \/ toGdb[i].v[1] \notin {"stop", "exit"}
             /\ toGdb' = [toGdb EXCEPT ![i].v = <<"garbled", garbled>>]
             /\ toStub' = toStub
    /\ UNCHANGED <<buf, pos, conn, stub, target, exit, gdb, executed, connections>>

GdbReads == GdbAwaitsAck \/ GdbAwaitsPacket

Ended == ~Alive /\ gdb.pc = "gone" /\ UNCHANGED vars

Next ==
    \/ StubStep \/ AcceptConnection
    \/ Fault \/ ExitBegins \/ ExitStep
    \/ GdbCommand \/ GdbInterrupt \/ GdbReads \/ GdbCrash
    \/ Garble
    \/ Ended

Spec == Init /\ [][Next]_vars

-----------------------------------------------------------------------------

(* Properties. *)

Bodies ==
    {"none", "cmd", "cont", "detach", "kill", "reply", "stop", "exit", "garbled"} \X Nat
Chars == [c : {"$", "data", "#", "xsum", "+", "-", "^C"}, v : Bodies]

TypeOK ==
    /\ {toStub, toGdb, buf} \subseteq Seq(Chars)
    /\ pos \in Nat
    /\ exit = "no" => size <= BufSize
    /\ conn \in BOOLEAN /\ suspended \in BOOLEAN /\ faulted \in BOOLEAN
    /\ ignoring \in {"no", "initial", "step"}
    /\ stub.data \in Bodies
    /\ exit \in {"no", "write", "getchar", "recv", "done"}
    /\ executed \in 0 .. MaxCommands

\* A command of GDB is executed at most once, and commands in the order they
\* were sent, although packets are damaged and sent again, characters of
\* earlier exchanges are still in the buffer, and GDB connects anew.
AtMostOnce == stub.pc = "execute" => stub.data[2] > executed

\* The packet that GDB takes for the answer to a command answers that command,
\* not an earlier one, and not the stop that its bytes may have caused.
ReplyMatches ==
    gdb.pc = "reply" /\ PacketArrived /\ ArrivedGood =>
        ArrivedBody = <<"reply", gdb.n>> /\ executed = gdb.n

\* No byte of a connection is left in the transport, which is used again, when
\* the next connection begins: Disconnect does not empty the buffer.
NewSessionClean == stub.pc = "accept" => buf = << >>

=============================================================================
