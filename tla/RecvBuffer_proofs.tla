-------------------------- MODULE RecvBuffer_proofs --------------------------
(***************************************************************************)
(* Proofs about the receive buffers for packets, buffers and pieces of any *)
(* size: packets are handled once each and in order, none waits once it    *)
(* has arrived, and the buffer overflows only under a packet too long.     *)
(***************************************************************************)
EXTENDS RecvBuffer, SequenceTheorems, TLAPS

(* What the receiver has not handled yet. *)
Stream == buf \o wire

(* It is made of whole packets: after a first byte come the other bytes of *)
(* its packet, and then the first byte of the next packet or the end.      *)
WholePacket(s, i) ==
  LET p == s[i].pkt IN
    /\ p \in 1 .. Len(length)
    /\ i + Size(length[p]) <= Len(s) + 1
    /\ \A k \in 1 .. Size(length[p]) : s[i + k - 1] = [pkt |-> p, off |-> k]
    /\ i + Size(length[p]) <= Len(s) => s[i + Size(length[p])] = [pkt |-> p + 1, off |-> 1]
    /\ i + Size(length[p]) = Len(s) + 1 => p = Len(length)
Whole(s) == \A i \in 1 .. Len(s) : s[i].off = 1 => WholePacket(s, i)

(* It starts with the packet after those handled. *)
FromHandled(s) ==
  /\ Len(s) = 0 => Len(handled) = Len(length)
  /\ Len(s) > 0 => s[1] = [pkt |-> Len(handled) + 1, off |-> 1]

Types ==
  /\ side \in {"server", "pi"}
  /\ pc \in {"recv", "handle", "quit", "dropped", "overflown", "loops", "astray",
             "undefined"}
  /\ length \in Seq(Lengths) /\ closed \in BOOLEAN
  /\ wire \in Seq(Byte) /\ buf \in Seq(Byte) /\ handled \in Seq(Nat)

(* recvdata() only returns when no whole packet is left in the buffer. *)
ReturnsEmpty == pc \in {"recv", "quit"} => ~Complete

(* Until it overflows, the buffer has room for what is in it.              *)
HasRoom == pc # "overflown" => Len(buf) <= BufSize

IInv == /\ Types /\ Whole(Stream) /\ FromHandled(Stream)
        /\ InOrder /\ ReturnsEmpty /\ HasRoom /\ BufferFits

-----------------------------------------------------------------------------
(* Sequences. *)

(* The stream, byte by byte. *)
LEMMA StreamBytes ==
  ASSUME NEW b \in Seq(Byte), NEW w \in Seq(Byte)
  PROVE  /\ b \o w \in Seq(Byte) /\ Len(b) \in Nat /\ Len(w) \in Nat
         /\ Len(b \o w) = Len(b) + Len(w)
         /\ \A i \in 1 .. Len(b) : (b \o w)[i] = b[i]
         /\ \A i \in 1 .. Len(w) : (b \o w)[Len(b) + i] = w[i]
<1>1. /\ b \o w \in Seq(Byte)
      /\ Len(b \o w) = Len(b) + Len(w)
      /\ \A i \in 1 .. Len(b) + Len(w) :
           (b \o w)[i] = IF i <= Len(b) THEN b[i] ELSE w[i - Len(b)]
  BY ConcatProperties
<1>2. Len(b) \in Nat /\ Len(w) \in Nat
  BY LenProperties
<1>3. QED
  BY <1>1, <1>2

(* What is left when n bytes are taken off the front. *)
LEMMA DropBytes ==
  ASSUME NEW s \in Seq(Byte), NEW n \in 0 .. Len(s)
  PROVE  /\ Drop(s, n) \in Seq(Byte) /\ Len(Drop(s, n)) = Len(s) - n
         /\ \A i \in 1 .. Len(s) - n : Drop(s, n)[i] = s[n + i]
<1>1. Len(s) \in Nat /\ \A i \in n + 1 .. Len(s) : s[i] \in Byte
  BY LenProperties, ElementOfSeq
<1>2. /\ SubSeq(s, n + 1, Len(s)) \in Seq(Byte)
      /\ Len(SubSeq(s, n + 1, Len(s))) =
           IF n + 1 <= Len(s) THEN Len(s) - (n + 1) + 1 ELSE 0
      /\ \A i \in 1 .. Len(s) - (n + 1) + 1 :
           SubSeq(s, n + 1, Len(s))[i] = s[n + 1 + i - 1]
  BY <1>1, SubSeqProperties
<1>3. QED
  BY <1>1, <1>2 DEF Drop

(* What is taken. *)
LEMMA TakeBytes ==
  ASSUME NEW s \in Seq(Byte), NEW n \in 0 .. Len(s)
  PROVE  /\ SubSeq(s, 1, n) \in Seq(Byte) /\ Len(SubSeq(s, 1, n)) = n
         /\ \A i \in 1 .. n : SubSeq(s, 1, n)[i] = s[i]
<1>1. Len(s) \in Nat /\ \A i \in 1 .. n : s[i] \in Byte
  BY LenProperties, ElementOfSeq
<1>2. /\ SubSeq(s, 1, n) \in Seq(Byte)
      /\ Len(SubSeq(s, 1, n)) = IF 1 <= n THEN n - 1 + 1 ELSE 0
      /\ \A i \in 1 .. n - 1 + 1 : SubSeq(s, 1, n)[i] = s[1 + i - 1]
  BY <1>1, SubSeqProperties
<1>3. QED
  BY <1>1, <1>2

(* The bytes of a packet. *)
LEMMA BytesOfPacket ==
  ASSUME NEW p \in Nat \ {0}, NEW l \in Nat
  PROVE  /\ Bytes(p, l) \in Seq(Byte) /\ Len(Bytes(p, l)) = l
         /\ \A k \in 1 .. l : Bytes(p, l)[k] = [pkt |-> p, off |-> k]
<1>1. Bytes(p, l) \in [1 .. l -> Byte]
  BY DEF Bytes, Byte
<1>2. QED
  BY <1>1 DEF Bytes

-----------------------------------------------------------------------------
(* What a byte of the stream and a header tell. *)

(* A packet has at least the bytes of its header, and all it announces.    *)
LEMMA SizeOfPacket ==
  ASSUME NEW l \in Int
  PROVE  /\ Size(l) \in Nat /\ Size(l) > 0 /\ Header <= Size(l) /\ l <= Size(l)
         /\ Size(l) = l \/ (Size(l) = Header /\ l < Header)
BY ConstantsAssumption DEF Size

LEMMA PacketLength ==
  ASSUME Types, NEW p \in 1 .. Len(length)
  PROVE  /\ length[p] \in Int /\ Size(length[p]) \in Nat /\ Size(length[p]) > 0
         /\ Header <= Size(length[p]) /\ length[p] <= Size(length[p])
         /\ \/ Size(length[p]) = length[p]
            \/ Size(length[p]) = Header /\ length[p] < Header
<1>1. length[p] \in Lengths
  BY ElementOfSeq DEF Types
<1>2. length[p] \in Int
  BY <1>1, ConstantsAssumption
<1>3. QED
  BY <1>2, SizeOfPacket

(* If anything is in the buffer, it starts with a header, the header is of *)
(* a packet that was sent and says its length.                             *)
LEMMA FrontOfBuffer ==
  ASSUME IInv, Len(buf) > 0
  PROVE  /\ buf[1] = [pkt |-> Len(handled) + 1, off |-> 1]
         /\ Len(handled) + 1 \in 1 .. Len(length)
         /\ PhLength = length[Len(handled) + 1]
         /\ PhLength \in Int
         /\ Complete <=> Len(buf) >= Size(PhLength)
         /\ WholePacket(Stream, 1)
<1> USE DEF IInv, Types
<1>1. /\ Len(Stream) = Len(buf) + Len(wire)
      /\ Len(buf) \in Nat /\ Len(wire) \in Nat
      /\ Stream[1] = buf[1]
  BY StreamBytes DEF Stream
<1>2. buf[1] = [pkt |-> Len(handled) + 1, off |-> 1]
  BY <1>1 DEF FromHandled
<1>3. WholePacket(Stream, 1)
  BY <1>1, <1>2 DEF Whole
<1>4. Len(handled) + 1 \in 1 .. Len(length)
  BY <1>1, <1>2, <1>3 DEF WholePacket
<1>5. PhLength = length[Len(handled) + 1]
  BY <1>2 DEF PhLength
<1>6. PhLength \in Int /\ Header <= Size(PhLength) /\ PhLength <= Size(PhLength)
      /\ Size(PhLength) \in Nat
      /\ (Size(PhLength) = PhLength \/ (Size(PhLength) = Header /\ PhLength < Header))
  BY <1>4, <1>5, PacketLength
<1>7. Complete <=> Len(buf) >= Size(PhLength)
  BY <1>1, <1>6, ConstantsAssumption DEF Complete
<1>8. QED
  BY <1>2, <1>3, <1>4, <1>5, <1>6, <1>7

LEMMA InitIInv == Init => IInv
<1> SUFFICES ASSUME Init PROVE IInv
  OBVIOUS
<1> USE DEF Init
<1>1. Types
  BY EmptySeq DEF Types
<1>2. Stream = <<>> /\ Len(Stream) = 0
  BY DEF Stream
<1>3. Whole(Stream) /\ FromHandled(Stream)
  BY <1>2 DEF Whole, FromHandled
<1>4. InOrder /\ ReturnsEmpty /\ HasRoom /\ BufferFits
  BY ConstantsAssumption DEF InOrder, ReturnsEmpty, Complete, HasRoom, BufferFits
<1>5. QED
  BY <1>1, <1>3, <1>4 DEF IInv

-----------------------------------------------------------------------------
(* The steps. *)

(* A new packet goes to the end of the stream; nothing else changes. *)
LEMMA SendStep ==
  ASSUME IInv, NEW l \in Lengths, Send(l)
  PROVE  IInv'
<1> DEFINE q == Len(length) + 1
           m == Size(l)
           s == Stream
           t == Stream'
<1>1. /\ length' = Append(length, l) /\ wire' = wire \o Bytes(q, m)
      /\ UNCHANGED <<side, pc, closed, buf, handled>>
  BY DEF Send
<1>2. /\ Len(length) \in Nat /\ Len(handled) \in Nat /\ q \in Nat \ {0}
      /\ m \in Nat /\ m > 0
  BY ConstantsAssumption, LenProperties, SizeOfPacket DEF IInv, Types
<1> HIDE DEF m
<1>3. /\ length' \in Seq(Lengths) /\ Len(length') = q /\ length'[q] = l
      /\ Size(length'[q]) = m
      /\ \A p \in 1 .. Len(length) : length'[p] = length[p]
  BY <1>1, AppendProperties DEF IInv, Types, m
<1>4. /\ Bytes(q, m) \in Seq(Byte) /\ Len(Bytes(q, m)) = m
      /\ \A k \in 1 .. m : Bytes(q, m)[k] = [pkt |-> q, off |-> k]
  BY <1>2, BytesOfPacket
<1>5. /\ wire' \in Seq(Byte) /\ Len(wire') = Len(wire) + m
      /\ \A i \in 1 .. Len(wire) : wire'[i] = wire[i]
      /\ \A k \in 1 .. m : wire'[Len(wire) + k] = [pkt |-> q, off |-> k]
  <2>1. wire \in Seq(Byte)
    BY DEF IInv, Types
  <2>2. /\ wire' \in Seq(Byte) /\ Len(wire') = Len(wire) + Len(Bytes(q, m))
        /\ \A i \in 1 .. Len(wire) : wire'[i] = wire[i]
        /\ \A k \in 1 .. Len(Bytes(q, m)) : wire'[Len(wire) + k] = Bytes(q, m)[k]
    BY <2>1, <1>1, <1>4, StreamBytes
  <2>3. QED
    BY <2>2, <1>4
<1>6. Types'
  BY <1>1, <1>3, <1>5 DEF IInv, Types
<1>7. /\ Len(s) \in Nat /\ Len(t) = Len(s) + m
      /\ \A i \in 1 .. Len(s) : t[i] = s[i]
      /\ \A k \in 1 .. m : t[Len(s) + k] = [pkt |-> q, off |-> k]
  <2>1. /\ Len(s) = Len(buf) + Len(wire) /\ Len(buf) \in Nat /\ Len(wire) \in Nat
        /\ \A i \in 1 .. Len(buf) : s[i] = buf[i]
        /\ \A i \in 1 .. Len(wire) : s[Len(buf) + i] = wire[i]
    BY StreamBytes DEF IInv, Types, Stream
  <2>2. /\ t = buf \o wire'
        /\ Len(t) = Len(buf) + Len(wire')
        /\ \A i \in 1 .. Len(buf) : t[i] = buf[i]
        /\ \A i \in 1 .. Len(wire') : t[Len(buf) + i] = wire'[i]
    BY <1>1, <1>5, StreamBytes DEF IInv, Types, Stream
  <2>3. ASSUME NEW i \in 1 .. Len(s)
        PROVE  t[i] = s[i]
    <3>1. CASE i <= Len(buf)
      BY <2>1, <2>2, <3>1
    <3>2. CASE i > Len(buf)
      <4>1. i - Len(buf) \in 1 .. Len(wire) /\ i = Len(buf) + (i - Len(buf))
        BY <2>1, <3>2
      <4>2. QED
        BY <1>5, <2>1, <2>2, <4>1, <1>2, SMTT(30)
    <3>3. QED
      BY <2>1, <3>1, <3>2
  <2>4. ASSUME NEW k \in 1 .. m
        PROVE  t[Len(s) + k] = [pkt |-> q, off |-> k]
    <3>1. Len(wire) + k \in 1 .. Len(wire') /\ Len(s) + k = Len(buf) + (Len(wire) + k)
      BY <1>2, <1>5, <2>1
    <3>2. QED
      BY <1>5, <2>2, <3>1
  <2>5. QED
    BY <1>5, <2>1, <2>2, <2>3, <2>4, <1>2
<1>8. Whole(Stream)'
  <2> SUFFICES ASSUME NEW i \in 1 .. Len(t), t[i].off = 1
               PROVE  WholePacket(Stream, i)'
    BY DEF Whole
  <2>1. CASE i <= Len(s)
    <3>1. i \in 1 .. Len(s) /\ t[i] = s[i]
      BY <1>7, <2>1
    <3>2. WholePacket(s, i)
      BY <3>1 DEF IInv, Whole
    <3> DEFINE p == s[i].pkt
    <3>3. /\ p \in 1 .. Len(length) /\ Size(length'[p]) = Size(length[p])
          /\ Size(length[p]) \in Nat /\ Size(length[p]) > 0
      <4>1. p \in 1 .. Len(length)
        BY <3>2 DEF WholePacket
      <4>2. Size(length[p]) \in Nat /\ Size(length[p]) > 0
        BY <4>1, PacketLength DEF IInv
      <4>3. QED
        BY <4>1, <4>2, <1>3
    <3>4. /\ i + Size(length[p]) <= Len(s) + 1
          /\ \A k \in 1 .. Size(length[p]) : s[i + k - 1] = [pkt |-> p, off |-> k]
          /\ i + Size(length[p]) <= Len(s) => s[i + Size(length[p])] = [pkt |-> p + 1, off |-> 1]
          /\ i + Size(length[p]) = Len(s) + 1 => p = Len(length)
      BY <3>2 DEF WholePacket
    <3>5. ASSUME NEW k \in 1 .. Size(length[p])
          PROVE  t[i + k - 1] = [pkt |-> p, off |-> k]
      <4>1. i + k - 1 \in 1 .. Len(s)
        BY <1>7, <3>1, <3>3, <3>4
      <4>2. QED
        BY <4>1, <1>7, <3>4
    <3>6. i + Size(length[p]) <= Len(t) => t[i + Size(length[p])] = [pkt |-> p + 1, off |-> 1]
      <4>1. CASE i + Size(length[p]) <= Len(s)
        <5>1. i + Size(length[p]) \in 1 .. Len(s)
          BY <4>1, <1>7, <3>1, <3>3
        <5>2. QED
          BY <5>1, <4>1, <1>7, <3>4
      <4>2. CASE i + Size(length[p]) = Len(s) + 1
        <5>1. p + 1 = q /\ t[Len(s) + 1] = [pkt |-> q, off |-> 1]
          BY <4>2, <1>2, <1>7, <3>4
        <5>2. QED
          BY <5>1, <4>2
      <4>3. i + Size(length[p]) \in Nat
        BY <3>1, <3>3
      <4>4. QED
        BY <4>1, <4>2, <4>3, <1>7, <3>4
    <3>7. i + Size(length[p]) <= Len(t) /\ p \in 1 .. Len(length')
      BY <1>2, <1>3, <1>7, <3>1, <3>3, <3>4
    <3>8. QED
      BY <3>1, <3>3, <3>5, <3>6, <3>7, <1>7 DEF WholePacket
  <2>2. CASE i > Len(s)
    <3>1. PICK k \in 1 .. m : i = Len(s) + k
      <4>1. i - Len(s) \in 1 .. m
        BY <1>2, <1>7, <2>2
      <4>2. QED
        BY <4>1, <1>7
    <3>2. t[i] = [pkt |-> q, off |-> k] /\ k = 1
      BY <1>7, <3>1
    <3>3. t[i].pkt = q
      BY <3>2
    <3>4. /\ i = Len(s) + 1 /\ t[i].pkt = q /\ i + Size(length'[q]) = Len(t) + 1
          /\ q \in 1 .. Len(length')
      BY <1>2, <1>3, <1>7, <3>1, <3>2, <3>3
    <3>5. \A j \in 1 .. Size(length'[q]) : t[i + j - 1] = [pkt |-> q, off |-> j]
      <4> SUFFICES ASSUME NEW j \in 1 .. m
                   PROVE  t[i + j - 1] = [pkt |-> q, off |-> j]
        BY <1>3
      <4>1. i + j - 1 = Len(s) + j
        BY <3>4, <1>2, <1>7
      <4>2. QED
        BY <4>1, <1>7
    <3>6. QED
      BY <3>4, <3>5, <1>2, <1>3, <1>7, SMTT(30) DEF WholePacket
  <2>3. QED
    BY <2>1, <2>2, <1>7
<1>9. FromHandled(Stream)'
  <2>1. Len(t) > 0
    BY <1>2, <1>7
  <2>2. t[1] = [pkt |-> Len(handled) + 1, off |-> 1]
    <3>1. CASE Len(s) > 0
      BY <3>1, <1>7 DEF IInv, FromHandled
    <3>2. CASE Len(s) = 0
      <4>1. Len(handled) = Len(length)
        BY <3>2 DEF IInv, FromHandled
      <4>2. t[1] = [pkt |-> q, off |-> 1]
        BY <3>2, <1>2, <1>7
      <4>3. QED
        BY <4>1, <4>2
    <3>3. QED
      BY <3>1, <3>2, <1>7
  <2>3. QED
    BY <2>1, <2>2, <1>1 DEF FromHandled
<1>10. ReturnsEmpty' /\ InOrder' /\ HasRoom' /\ BufferFits'
  <2>1. Len(buf) > 0 => PhLength' = PhLength
    BY FrontOfBuffer, <1>1, <1>3 DEF PhLength
  <2>2. Len(buf) \in Nat
    BY LenProperties DEF IInv, Types
  <2>3. Complete' => Complete
    BY <1>1, <2>1, <2>2, ConstantsAssumption DEF Complete
  <2>4. QED
    BY <1>1, <2>1, <2>2, <2>3, ConstantsAssumption
    DEF IInv, ReturnsEmpty, InOrder, HasRoom, BufferFits
<1>11. QED
  BY <1>6, <1>8, <1>9, <1>10 DEF IInv

(* Bytes move from the wire to the buffer, of which there is room for as   *)
(* many as recv() may return: what was left is less than a packet.         *)
LEMMA RecvStep ==
  ASSUME IInv, NEW n \in 1 .. RecvSize, Recv(n)
  PROVE  IInv'
<1>1. /\ pc = "recv" /\ n <= Len(wire)
      /\ pc' = IF Len(buf) + n > BufSize THEN "overflown" ELSE "handle"
      /\ buf' = buf \o SubSeq(wire, 1, n) /\ wire' = Drop(wire, n)
      /\ UNCHANGED <<side, length, closed, handled>>
  BY DEF Recv
<1>2. /\ buf \in Seq(Byte) /\ wire \in Seq(Byte)
      /\ Len(buf) \in Nat /\ Len(wire) \in Nat /\ n \in 0 .. Len(wire)
  BY <1>1, LenProperties, ConstantsAssumption DEF IInv, Types
<1>3. /\ SubSeq(wire, 1, n) \in Seq(Byte) /\ Len(SubSeq(wire, 1, n)) = n
      /\ \A i \in 1 .. n : SubSeq(wire, 1, n)[i] = wire[i]
  BY <1>2, TakeBytes
<1>4. /\ buf' \in Seq(Byte) /\ Len(buf') = Len(buf) + n
      /\ \A i \in 1 .. Len(buf) : buf'[i] = buf[i]
      /\ \A i \in 1 .. n : buf'[Len(buf) + i] = SubSeq(wire, 1, n)[i]
  BY <1>1, <1>2, <1>3, StreamBytes
<1>5. /\ wire' \in Seq(Byte) /\ Len(wire') = Len(wire) - n
      /\ \A i \in 1 .. Len(wire) - n : wire'[i] = wire[n + i]
  BY <1>1, <1>2, DropBytes
<1>6. Types'
  BY <1>1, <1>4, <1>5 DEF IInv, Types
<1>7. Stream' = Stream
  <2>1. /\ Stream \in Seq(Byte) /\ Len(Stream) = Len(buf) + Len(wire)
        /\ \A i \in 1 .. Len(buf) : Stream[i] = buf[i]
        /\ \A i \in 1 .. Len(wire) : Stream[Len(buf) + i] = wire[i]
    BY <1>2, StreamBytes DEF Stream
  <2>2. /\ Stream' \in Seq(Byte) /\ Len(Stream') = Len(buf') + Len(wire')
        /\ \A i \in 1 .. Len(buf') : Stream'[i] = buf'[i]
        /\ \A i \in 1 .. Len(wire') : Stream'[Len(buf') + i] = wire'[i]
    BY <1>4, <1>5, StreamBytes DEF Stream
  <2>3. Len(Stream') = Len(Stream)
    BY <1>2, <1>4, <1>5, <2>1, <2>2
  <2>4. ASSUME NEW i \in 1 .. Len(Stream)
        PROVE  Stream'[i] = Stream[i]
    <3>1. CASE i <= Len(buf)
      BY <3>1, <1>2, <1>4, <2>1, <2>2
    <3>2. CASE i > Len(buf) /\ i <= Len(buf) + n
      <4>1. i - Len(buf) \in 1 .. n /\ i = Len(buf) + (i - Len(buf))
        BY <3>2, <1>2
      <4>2. buf'[i] = wire[i - Len(buf)] /\ i \in 1 .. Len(buf')
        BY <4>1, <1>2, <1>3, <1>4
      <4>3. Stream[i] = wire[i - Len(buf)]
        BY <4>1, <1>2, <2>1
      <4>4. QED
        BY <4>2, <4>3, <2>2
    <3>3. CASE i > Len(buf) + n
      <4> DEFINE k == i - Len(buf) - n
      <4>1. k \in 1 .. Len(wire) - n /\ i = Len(buf) + (n + k)
        BY <3>3, <1>2, <2>1
      <4>2. Stream[i] = wire[n + k]
        BY <4>1, <1>2, <2>1
      <4>3. i = Len(buf') + k /\ k \in 1 .. Len(wire')
        BY <4>1, <1>2, <1>4, <1>5
      <4>4. Stream'[i] = wire'[k] /\ wire'[k] = wire[n + k]
        BY <4>1, <4>3, <1>5, <2>2
      <4>5. QED
        BY <4>2, <4>4
    <3>4. QED
      BY <3>1, <3>2, <3>3, <1>2, <2>1
  <2>5. QED
    BY <2>1, <2>2, <2>3, <2>4, SeqEqual
<1>8. Whole(Stream)' /\ FromHandled(Stream)'
  BY <1>1, <1>7 DEF IInv, Whole, WholePacket, FromHandled
<1>9. HasRoom' /\ BufferFits'
  <2>1. HasRoom'
    BY <1>1, <1>2, <1>4, ConstantsAssumption DEF HasRoom
  <2> SUFFICES ASSUME Len(buf') > BufSize
               PROVE  PhLength' > BufSize - RecvSize + 1
    BY <2>1 DEF BufferFits
  <2>2. Len(buf) > BufSize - RecvSize /\ Len(buf) > 0
    BY <1>2, <1>4, ConstantsAssumption
  <2>3. ~Complete /\ PhLength \in Int /\ Len(buf) < Size(PhLength)
    <3>1. PhLength \in Int /\ (Complete <=> Len(buf) >= Size(PhLength))
      BY <2>2, FrontOfBuffer
    <3>2. ~Complete
      BY <1>1 DEF IInv, ReturnsEmpty
    <3>3. Size(PhLength) \in Nat
      BY <3>1, SizeOfPacket
    <3>4. QED
      BY <1>2, <3>1, <3>2, <3>3
  <2>4. Size(PhLength) > BufSize - RecvSize + 1
    BY <1>2, <2>2, <2>3, SizeOfPacket, ConstantsAssumption
  <2>5. PhLength > BufSize - RecvSize + 1
    BY <2>3, <2>4, SizeOfPacket, ConstantsAssumption
  <2>6. PhLength' = PhLength
    BY <1>1, <1>2, <1>4, <2>2 DEF PhLength
  <2>7. QED
    BY <2>5, <2>6
<1>10. InOrder' /\ ReturnsEmpty'
  BY <1>1, ConstantsAssumption DEF IInv, InOrder, ReturnsEmpty
<1>11. QED
  BY <1>6, <1>8, <1>9, <1>10 DEF IInv

(* The first packet of the buffer is handled: it is the next one, it is    *)
(* there to its last byte, and what follows it is the one after it.        *)
LEMMA HandleStep ==
  ASSUME IInv, Handle
  PROVE  IInv'
<1> DEFINE l == PhLength
           p == Len(handled) + 1
<1>1. /\ Complete /\ handled' = Append(handled, buf[1].pkt) /\ buf' = Drop(buf, l)
      /\ pc = "handle" /\ pc' \in {"handle", "undefined"}
      /\ l >= Header /\ UNCHANGED <<side, length, closed, wire>>
  BY DEF Handle
<1>2. /\ buf \in Seq(Byte) /\ wire \in Seq(Byte) /\ handled \in Seq(Nat)
      /\ Len(buf) \in Nat /\ Len(wire) \in Nat /\ Len(handled) \in Nat
  BY LenProperties DEF IInv, Types
<1>3. Len(buf) > 0
  BY <1>1, <1>2, ConstantsAssumption DEF Complete
<1>4. /\ buf[1].pkt = p /\ Stream[1].pkt = p /\ p \in 1 .. Len(length)
      /\ l = length[p] /\ WholePacket(Stream, 1)
      /\ l \in Int /\ l = Size(length[p])
  <2>1. /\ buf[1].pkt = p /\ Stream[1].pkt = p /\ p \in 1 .. Len(length)
        /\ l = length[p] /\ WholePacket(Stream, 1) /\ l \in Int
    BY <1>2, <1>3, FrontOfBuffer, StreamBytes DEF Stream
  <2>2. Size(l) = l
    BY <1>1 DEF Size
  <2>3. QED
    BY <2>1, <2>2
<1>5. l \in Nat /\ l > 0 /\ l <= Len(buf)
  BY <1>1, <1>3, <1>4, ConstantsAssumption DEF Complete
<1> HIDE DEF l
<1>6. /\ buf' \in Seq(Byte) /\ Len(buf') = Len(buf) - l
      /\ \A i \in 1 .. Len(buf) - l : buf'[i] = buf[l + i]
  <2>1. l \in 0 .. Len(buf) /\ buf' = Drop(buf, l)
    BY <1>1, <1>2, <1>5
  <2>2. QED
    BY <2>1, <1>2, DropBytes
<1>7. /\ handled' \in Seq(Nat) /\ Len(handled') = p /\ handled'[p] = p
      /\ \A i \in 1 .. Len(handled) : handled'[i] = handled[i]
  BY <1>1, <1>2, <1>4, AppendProperties
<1>8. Types'
  BY <1>1, <1>6, <1>7 DEF IInv, Types
<1>9. /\ Len(Stream) \in Nat /\ l <= Len(Stream) /\ Len(Stream') = Len(Stream) - l
      /\ \A i \in 1 .. Len(Stream) - l : Stream'[i] = Stream[l + i]
  <2>1. /\ Len(Stream) = Len(buf) + Len(wire)
        /\ \A i \in 1 .. Len(buf) : Stream[i] = buf[i]
        /\ \A i \in 1 .. Len(wire) : Stream[Len(buf) + i] = wire[i]
    BY <1>2, StreamBytes DEF Stream
  <2>2. /\ Len(Stream') = Len(buf') + Len(wire)
        /\ \A i \in 1 .. Len(buf') : Stream'[i] = buf'[i]
        /\ \A i \in 1 .. Len(wire) : Stream'[Len(buf') + i] = wire[i]
    BY <1>1, <1>2, <1>6, StreamBytes DEF Stream
  <2>3. ASSUME NEW i \in 1 .. Len(Stream) - l
        PROVE  Stream'[i] = Stream[l + i]
    <3>1. CASE i <= Len(buf) - l
      <4>1. i \in 1 .. Len(buf') /\ l + i \in 1 .. Len(buf)
        BY <3>1, <1>2, <1>5, <1>6, <2>1
      <4>2. buf'[i] = buf[l + i]
        BY <3>1, <1>6
      <4>3. QED
        BY <4>1, <4>2, <2>1, <2>2
    <3>2. CASE i > Len(buf) - l
      <4> DEFINE k == i - (Len(buf) - l)
      <4>1. k \in 1 .. Len(wire) /\ i = Len(buf') + k /\ l + i = Len(buf) + k
        BY <3>2, <1>2, <1>5, <1>6, <2>1
      <4>2. QED
        BY <4>1, <2>1, <2>2
    <3>3. QED
      BY <3>1, <3>2, <1>2, <1>5, <2>1
  <2>4. Len(Stream') = Len(Stream) - l /\ Len(Stream) \in Nat /\ l <= Len(Stream)
    BY <1>2, <1>5, <1>6, <2>1, <2>2
  <2>5. QED
    BY <2>3, <2>4
<1>10. Whole(Stream)'
  <2> SUFFICES ASSUME NEW i \in 1 .. Len(Stream'), Stream'[i].off = 1
               PROVE  WholePacket(Stream, i)'
    BY DEF Whole
  <2>1. l + i \in 1 .. Len(Stream) /\ Stream'[i] = Stream[l + i]
    BY <1>5, <1>9
  <2>2. WholePacket(Stream, l + i)
    BY <2>1 DEF IInv, Whole
  <2> DEFINE q == Stream[l + i].pkt
  <2>3. /\ q \in 1 .. Len(length)
        /\ l + i + Size(length[q]) <= Len(Stream) + 1
        /\ \A k \in 1 .. Size(length[q]) : Stream[l + i + k - 1] = [pkt |-> q, off |-> k]
        /\ l + i + Size(length[q]) <= Len(Stream) =>
             Stream[l + i + Size(length[q])] = [pkt |-> q + 1, off |-> 1]
        /\ l + i + Size(length[q]) = Len(Stream) + 1 => q = Len(length)
    BY <2>2 DEF WholePacket
  <2>4. Size(length[q]) \in Nat /\ Size(length[q]) > 0
    BY <2>3, PacketLength DEF IInv
  <2>5. ASSUME NEW k \in 1 .. Size(length[q])
        PROVE  Stream'[i + k - 1] = [pkt |-> q, off |-> k]
    <3>1. i + k - 1 \in 1 .. Len(Stream) - l /\ l + (i + k - 1) = l + i + k - 1
      BY <1>5, <1>9, <2>3, <2>4
    <3>2. Stream'[i + k - 1] = Stream[l + (i + k - 1)]
      BY <3>1, <1>9
    <3>3. QED
      BY <3>1, <3>2, <2>3
  <2>6. i + Size(length[q]) <= Len(Stream') =>
          Stream'[i + Size(length[q])] = [pkt |-> q + 1, off |-> 1]
    <3> SUFFICES ASSUME i + Size(length[q]) <= Len(Stream')
                 PROVE  Stream'[i + Size(length[q])] = [pkt |-> q + 1, off |-> 1]
      OBVIOUS
    <3>1. /\ i + Size(length[q]) \in 1 .. Len(Stream) - l
          /\ l + (i + Size(length[q])) = l + i + Size(length[q])
          /\ l + i + Size(length[q]) <= Len(Stream)
      BY <1>5, <1>9, <2>4, SMTT(30)
    <3>2. Stream'[i + Size(length[q])] = Stream[l + (i + Size(length[q]))]
      BY <3>1, <1>9
    <3>3. QED
      BY <3>1, <3>2, <2>3
  <2>7. /\ i + Size(length[q]) <= Len(Stream') + 1
        /\ i + Size(length[q]) = Len(Stream') + 1 => q = Len(length)
    <3>1. /\ Len(Stream') = Len(Stream) - l /\ Len(Stream) \in Nat /\ l \in Nat
          /\ i \in Nat /\ Size(length[q]) \in Nat
      BY <1>5, <1>9, <2>4
    <3>2. /\ l + i + Size(length[q]) <= Len(Stream) + 1
          /\ l + i + Size(length[q]) = Len(Stream) + 1 => q = Len(length)
      BY <2>3
    <3> HIDE DEF q
    <3>3. QED
      BY <3>1, <3>2
  <2>8. QED
    BY <2>1, <2>3, <2>5, <2>6, <2>7, <1>1 DEF WholePacket
<1>11. FromHandled(Stream)'
  <2>1. /\ 1 + l <= Len(Stream) => Stream[1 + l] = [pkt |-> p + 1, off |-> 1]
        /\ 1 + l = Len(Stream) + 1 => p = Len(length)
    BY <1>4 DEF WholePacket
  <2>2. CASE Len(Stream') = 0
    BY <2>1, <2>2, <1>1, <1>5, <1>7, <1>9 DEF FromHandled
  <2>3. CASE Len(Stream') > 0
    <3>1. Stream'[1] = Stream[1 + l] /\ 1 + l <= Len(Stream)
      BY <2>3, <1>5, <1>9
    <3>2. QED
      BY <3>1, <2>1, <2>3, <1>7 DEF FromHandled
  <2>4. QED
    BY <2>2, <2>3, <1>5, <1>9
<1>12. InOrder' /\ ReturnsEmpty' /\ HasRoom' /\ BufferFits'
  <2>1. \A i \in 1 .. Len(handled) : handled[i] = i
    BY DEF IInv, InOrder
  <2>2. ASSUME NEW i \in 1 .. Len(handled')
        PROVE  handled'[i] = i
    <3>1. i \in 1 .. Len(handled) \/ i = p
      BY <1>2, <1>7
    <3>2. QED
      BY <3>1, <2>1, <1>7
  <2>3. ReturnsEmpty'
    BY <1>1 DEF ReturnsEmpty
  <2>4. HasRoom' /\ BufferFits'
    <3>1. Len(buf) <= BufSize
      BY <1>1 DEF IInv, HasRoom
    <3>2. Len(buf') <= BufSize /\ Len(buf') \in Nat
      BY <1>2, <1>5, <1>6, <3>1, ConstantsAssumption
    <3>3. QED
      BY <3>2, ConstantsAssumption DEF HasRoom, BufferFits
  <2>5. QED
    BY <2>2, <2>3, <2>4 DEF InOrder
<1>13. QED
  BY <1>8, <1>10, <1>11, <1>12 DEF IInv

LEMMA NextIInv == IInv /\ [Next]_vars => IInv'
<1> SUFFICES ASSUME IInv, [Next]_vars PROVE IInv'
  OBVIOUS
<1>1. ASSUME NEW l \in Lengths, Send(l) PROVE IInv'
  BY <1>1, SendStep
<1>2. ASSUME NEW n \in 1 .. RecvSize, Recv(n) PROVE IInv'
  BY <1>2, RecvStep
<1>3. CASE Handle
  BY <1>3, HandleStep
<1>4. CASE Close \/ RecvEnd \/ Return \/ Illegal \/ Astray \/ UNCHANGED vars
  <2>1. UNCHANGED <<length, wire, buf, handled>>
    BY <1>4 DEF Close, RecvEnd, Return, Illegal, Astray, vars
  <2>2. Stream' = Stream /\ PhLength' = PhLength
    BY <2>1 DEF Stream, PhLength
  <2>3. /\ Whole(Stream)' /\ FromHandled(Stream)' /\ InOrder' /\ BufferFits'
        /\ Complete' = Complete
    BY <2>1, <2>2 DEF IInv, Whole, WholePacket, FromHandled, InOrder, BufferFits, Complete
  <2>7. HasRoom'
    BY <1>4, <2>1 DEF IInv, HasRoom, Close, RecvEnd, Return, Illegal, Astray, vars
  <2>4. Types'
    BY <1>4, <2>1 DEF IInv, Types, Close, RecvEnd, Return, Illegal, Astray, vars
  <2>5. ReturnsEmpty'
    BY <1>4, <2>3 DEF IInv, ReturnsEmpty, Close, RecvEnd, Return, Illegal, Astray, vars
  <2>6. QED
    BY <2>3, <2>4, <2>5, <2>7 DEF IInv
<1>5. QED
  BY <1>1, <1>2, <1>3, <1>4 DEF Next

LEMMA Invariance == Spec => []IInv
<1>1. QED
  BY InitIInv, NextIInv, PTL DEF Spec

-----------------------------------------------------------------------------
(* What is promised. *)

(* recvdata() writes beyond its buffer only while the header in front      *)
(* announces more than a recv() leaves room for, for packets and buffers   *)
(* of any size that leaves room for a header (m_group_node.cpp:220-232).   *)
THEOREM NoOverflow == Spec => []BufferFits
<1>1. IInv => BufferFits
  BY DEF IInv
<1>2. QED
  BY <1>1, Invariance, PTL

(* Packets are handled once each, in the order in which they were sent,    *)
(* into whatever pieces the stream is cut and whatever they announce; at   *)
(* a length below a header's it ends (m_group_node.cpp:224-325).           *)
THEOREM OnceAndInOrder == Spec => []InOrder
<1>1. IInv => InOrder
  BY DEF IInv
<1>2. QED
  BY <1>1, Invariance, PTL

(* Types, and the buffer starts with a header. *)
THEOREM TypeCorrect == Spec => []TypeOK
<1>1. IInv => TypeOK
  <2> SUFFICES ASSUME IInv PROVE TypeOK
    OBVIOUS
  <2>1. buf # <<>> => Len(buf) > 0
    BY EmptySeq DEF IInv, Types
  <2>2. buf # <<>> => buf[1].off = 1
    BY <2>1, FrontOfBuffer
  <2>3. QED
    BY <2>2 DEF IInv, Types, TypeOK
<1>2. QED
  BY <1>1, Invariance, PTL

(* recvdata() does not return while a whole packet is in the buffer.       *)
THEOREM AllHandled == Spec => []NoneWaits
<1>1. IInv => NoneWaits
  <2> SUFFICES ASSUME IInv, pc \in {"recv", "quit"}, wire = <<>>
               PROVE  Len(handled) = Len(length)
    BY DEF NoneWaits
  <2>1. /\ Len(buf) \in Nat /\ Len(Stream) = Len(buf)
    BY StreamBytes, EmptySeq DEF IInv, Types, Stream
  <2>2. CASE Len(buf) = 0
    BY <2>1, <2>2 DEF IInv, FromHandled
  <2>3. CASE Len(buf) > 0
    <3>1. /\ PhLength = length[Len(handled) + 1]
          /\ Complete <=> Len(buf) >= Size(PhLength)
          /\ PhLength \in Int
          /\ buf[1] = [pkt |-> Len(handled) + 1, off |-> 1]
          /\ WholePacket(Stream, 1)
      BY <2>3, FrontOfBuffer
    <3>2. Stream[1] = buf[1]
      BY <2>1, <2>3, StreamBytes DEF IInv, Types, Stream
    <3>3. 1 + Size(PhLength) <= Len(buf) + 1
      BY <2>1, <3>1, <3>2 DEF WholePacket
    <3>4. Complete
      <4>1. Size(PhLength) \in Nat
        BY <3>1, SizeOfPacket
      <4>2. QED
        BY <2>1, <3>1, <3>3, <4>1
    <3>5. QED
      BY <3>4 DEF IInv, ReturnsEmpty
  <2>4. QED
    BY <2>1, <2>2, <2>3
<1>2. QED
  BY <1>1, Invariance, PTL

==============================================================================
