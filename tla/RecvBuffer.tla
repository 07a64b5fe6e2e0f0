------------------------------ MODULE RecvBuffer -----------------------------
(***************************************************************************)
(* How both ends cut the stream of a connection into packets: recvdata()   *)
(* of the group node, for each client, and of the Raspberry Pi's recv      *)
(* node.  TCP delivers the bytes in pieces of any size; the second-level   *)
(* buffer collects them until there are as many as the header in front     *)
(* announces.                                                              *)
(*                                                                         *)
(* Nothing tests that length, a short.  From Header on, it says what the   *)
(* packet is: the next so many bytes, however many they are, so that any   *)
(* stream is one of packets up to the first length below Header.  There    *)
(* the packets end: the loop moves by less than a header, not at all, or   *)
(* backwards.                                                              *)
(*                                                                         *)
(* A byte is its packet's number and its place in the packet.  What the    *)
(* packets mean is the subject of GroupNode and Readings.                  *)
(***************************************************************************)
EXTENDS Integers, Sequences

CONSTANTS Header,         \* sizeof(header)
          Lengths,        \* what a header may announce, sound or not
          RecvSize,       \* RECV_BUF_SIZE, 4096
          BufSize,        \* size of the second-level buffer, five times that
          MaxPackets      \* bound: packets ever sent

ASSUME ConstantsAssumption ==
  /\ Header \in Nat \ {0} /\ Lengths \subseteq Int
  /\ RecvSize \in Nat \ {0} /\ BufSize \in Nat /\ MaxPackets \in Nat
  /\ RecvSize + Header <= BufSize + 1

VARIABLES side,           \* whose recvdata() it is
          pc,             \* where it is, or what came of the connection
          length,         \* the length that each packet sent announces
          closed,         \* has the peer closed the connection?
          wire,           \* bytes sent and not received
          buf,            \* the second-level buffer, up to its length
          handled         \* history: the packets handled and taken off the buffer

vars == <<side, pc, length, closed, wire, buf, handled>>

Init == /\ side \in {"server", "pi"} /\ pc = "recv"
        /\ length = <<>> /\ closed = FALSE
        /\ wire = <<>> /\ buf = <<>> /\ handled = <<>>

Byte == [pkt : Nat \ {0}, off : Nat \ {0}]
Bytes(p, l) == [k \in 1 .. l |-> [pkt |-> p, off |-> k]]
Drop(s, n) == SubSeq(s, n + 1, Len(s))

-----------------------------------------------------------------------------
(* The peer: send() of a packet, of any length it likes; the end of the    *)
(* connection.                                                             *)

Size(l) == IF l >= Header THEN l ELSE Header
Send(l) == /\ ~closed /\ Len(length) < MaxPackets
           /\ length' = Append(length, l)
           /\ wire' = wire \o Bytes(Len(length) + 1, Size(l))
           /\ UNCHANGED <<side, pc, closed, buf, handled>>

Close == /\ ~closed /\ closed' = TRUE
         /\ UNCHANGED <<side, pc, length, wire, buf, handled>>

-----------------------------------------------------------------------------
(* recvdata(). *)

(* recv() returns some of the bytes that have arrived, which are copied    *)
(* behind those in the buffer, whatever room there is; or it tells of the  *)
(* end, by which bytes may be lost.                                        *)
Recv(n) == /\ pc = "recv" /\ n <= Len(wire)
           /\ buf' = buf \o SubSeq(wire, 1, n)
           /\ wire' = Drop(wire, n)
           /\ pc' = IF Len(buf) + n > BufSize THEN "overflown" ELSE "handle"
           /\ UNCHANGED <<side, length, closed, handled>>
RecvEnd == /\ pc = "recv" /\ closed
           /\ pc' = "quit"
           /\ UNCHANGED <<side, length, closed, wire, buf, handled>>

(* The length in the header at the start of the buffer. *)
PhLength == length[buf[1].pkt]

(* A header, and as many bytes as it says; the mutant wants one byte more. *)
CompleteLate == Len(buf) >= Header /\ Len(buf) > PhLength
Complete == Len(buf) >= Header /\ Len(buf) >= PhLength

Return == /\ pc = "handle" /\ ~Complete
          /\ pc' = "recv"
          /\ UNCHANGED <<side, length, closed, wire, buf, handled>>

(* The server's switch leaves the function at a command that it does not   *)
(* know, and the client is dropped; the Pi's goes on.                      *)
Illegal == /\ pc = "handle" /\ Complete /\ side = "server"
           /\ pc' = "dropped"
           /\ UNCHANGED <<side, length, closed, wire, buf, handled>>

(* A length below a header's: with 0 the packet stays and is handled       *)
(* again, for ever; otherwise the loop goes on in the middle of a header   *)
(* or, backwards, in front of the buffer, and what it reads is no packet.  *)
Astray == /\ pc = "handle" /\ Complete /\ PhLength < Header
          /\ pc' = IF PhLength = 0 THEN "loops" ELSE "astray"
          /\ UNCHANGED <<side, length, closed, wire, buf, handled>>

(* The packet is handled and the rest moved to the front of the buffer, by *)
(* memcpy(), which may do anything when the rest is longer than the packet *)
(* (in most builds it copies upwards, and nothing happens).  The mutants   *)
(* leave the loop after one packet, or move the rest one byte short.       *)
HandleOne ==
  /\ pc = "handle" /\ Complete /\ PhLength >= Header
  /\ handled' = Append(handled, buf[1].pkt)
  /\ buf' = Drop(buf, PhLength)
  /\ pc' = "recv"
  /\ UNCHANGED <<side, length, closed, wire>>
HandleShort ==
  /\ pc = "handle" /\ Complete /\ PhLength >= Header
  /\ handled' = Append(handled, buf[1].pkt)
  /\ buf' = Drop(buf, PhLength - 1)
  /\ UNCHANGED <<side, pc, length, closed, wire>>
Handle ==
  /\ pc = "handle" /\ Complete /\ PhLength >= Header
  /\ handled' = Append(handled, buf[1].pkt)
  /\ buf' = Drop(buf, PhLength)
  /\ pc' \in {pc} \cup (IF Len(buf) > 2 * PhLength THEN {"undefined"} ELSE {})
  /\ UNCHANGED <<side, length, closed, wire>>

-----------------------------------------------------------------------------

Next == \/ \E l \in Lengths : Send(l)
        \/ Close
        \/ \E n \in 1 .. RecvSize : Recv(n)
        \/ RecvEnd \/ Return \/ Illegal \/ Astray \/ Handle

Spec == Init /\ [][Next]_vars

-----------------------------------------------------------------------------

(* Types; and at the start of the buffer there is always a header.         *)
TypeOK ==
  /\ side \in {"server", "pi"}
  /\ pc \in {"recv", "handle", "quit", "dropped", "overflown", "loops", "astray",
             "undefined"}
  /\ length \in Seq(Lengths) /\ closed \in BOOLEAN
  /\ wire \in Seq(Byte) /\ buf \in Seq(Byte) /\ handled \in Seq(Nat)
  /\ buf # <<>> => buf[1].off = 1

(* The second-level buffer only overflows under a packet that announces    *)
(* more than a recv() leaves room for, 16386 bytes or more, however many   *)
(* packets and parts of packets a recv() may return (m_client_node.h:19,   *)
(* m_group_node.cpp:220-232, m_recv_node.cpp:21, 146-157).                 *)
BufferFits == Len(buf) > BufSize => PhLength > BufSize - RecvSize + 1

(* Up to a length below a header's, or an illegal packet at the server,    *)
(* the packets are handled once each and in order, however their bytes are *)
(* cut up (m_group_node.cpp:224-325, m_recv_node.cpp:151-203).             *)
InOrder == \A i \in 1 .. Len(handled) : handled[i] = i

(* A packet whose bytes have all arrived does not wait for the next recv(),*)
(* which may never come: the peer waits for the answer.                    *)
NoneWaits ==
  pc \in {"recv", "quit"} /\ wire = <<>> => Len(handled) = Len(length)

==============================================================================
