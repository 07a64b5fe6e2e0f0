--------------------------- MODULE Readings_proofs ---------------------------
(***************************************************************************)
(* Proofs about Readings, for any number of PCs and any bounds: a poll is  *)
(* answered with values at least as recent as those acknowledged to the Pi *)
(* when it was sent, and what a client has got never goes back.            *)
(*                                                                         *)
(* A measurement is in the atomics before it is acknowledged, uploads are  *)
(* stored in the order in which they were made, and so the atomics only    *)
(* get more recent: what was acknowledged when a poll was sent bounds them *)
(* from below until the poll is answered.                                  *)
(***************************************************************************)
EXTENDS Readings, SequenceTheorems, TLAPS

Message == [cmd : {"data", "getillu", "getdata", "set"}, v : Nat, pd : Snapshot]

Elems(s) == {s[i] : i \in 1 .. Len(s)}

(* Measurements are uploaded in order. *)
InOrder(s) == \A i, j \in 1 .. Len(s) :
                i < j /\ s[i].cmd = "data" /\ s[j].cmd = "data" => s[i].v <= s[j].v

(* What is in the atomics is not newer than what has not been stored yet,  *)
(* nor older than what has been acknowledged.                              *)
Uploads ==
  /\ InOrder(inbox[Pi])
  /\ \A f \in Measured : data[f] <= measured
  /\ \A m \in Elems(inbox[Pi]) : m.cmd = "data" =>
       m.v <= measured /\ \A f \in Measured : data[f] <= m.v
  /\ \A n \in 1 .. 3 : n <= storing => data[StoreOrder[n]] >= Head(inbox[Pi]).v
Acks ==
  /\ \A f \in Measured : acked <= data[f]
  /\ \A m \in Elems(tasks[Pi]) \cup Elems(outbox[Pi]) : m.cmd = "data" =>
       \A f \in Measured : m.v <= data[f]

(* Polls wait for what the atomics have already.                           *)
Polls ==
  \A p \in PCs :
    /\ \A m \in Elems(inbox[p]) \cup Elems(tasks[p]) : m.cmd = "getdata" =>
         \A f \in Measured : m.v <= data[f]
    /\ Len(loaded[p]) <= 4
    /\ \A n \in 2 .. 4 : n <= Len(loaded[p]) => loaded[p][n] >= Head(tasks[p]).v
    /\ \A m \in Elems(outbox[p]) : m.cmd = "getdata" =>
         \A f \in Measured : m.pd[f] >= m.v

-----------------------------------------------------------------------------
(* Sequences and their elements. *)

LEMMA ElemsAppend ==
  ASSUME NEW S, NEW s \in Seq(S), NEW e \in S
  PROVE  Append(s, e) \in Seq(S) /\ Elems(Append(s, e)) = Elems(s) \cup {e}
<1>1. /\ Append(s, e) \in Seq(S) /\ Len(Append(s, e)) = Len(s) + 1 /\ Len(s) \in Nat
      /\ \A i \in 1 .. Len(s) : Append(s, e)[i] = s[i]
      /\ Append(s, e)[Len(s) + 1] = e
  BY LenProperties
<1>2. ASSUME NEW x \in Elems(Append(s, e)) PROVE x \in Elems(s) \cup {e}
  <2>1. PICK i \in 1 .. Len(s) + 1 : x = Append(s, e)[i]
    BY <1>1, <1>2 DEF Elems
  <2>2. i \in 1 .. Len(s) \/ i = Len(s) + 1
    BY <1>1
  <2> QED
    BY <1>1, <2>1, <2>2 DEF Elems
<1>3. ASSUME NEW x \in Elems(s) \cup {e} PROVE x \in Elems(Append(s, e))
  <2>1. CASE x = e
    BY <1>1, <2>1 DEF Elems
  <2>2. CASE x \in Elems(s)
    <3>1. PICK i \in 1 .. Len(s) : x = s[i]
      BY <2>2 DEF Elems
    <3>2. i \in 1 .. Len(s) + 1 /\ x = Append(s, e)[i]
      BY <1>1, <3>1
    <3> QED
      BY <1>1, <3>2 DEF Elems
  <2> QED
    BY <1>3, <2>1, <2>2
<1> QED
  BY <1>1, <1>2, <1>3

LEMMA ElemsTail ==
  ASSUME NEW S, NEW s \in Seq(S), s # <<>>
  PROVE  /\ Tail(s) \in Seq(S) /\ Elems(Tail(s)) \subseteq Elems(s)
         /\ Head(s) \in S /\ Head(s) \in Elems(s)
<1>1. /\ Head(s) \in S /\ Tail(s) \in Seq(S) /\ Len(Tail(s)) = Len(s) - 1
      /\ \A i \in 1 .. Len(Tail(s)) : Tail(s)[i] = s[i + 1]
  BY HeadTailProperties
<1>2. Len(s) \in Nat \ {0} /\ Head(s) = s[1]
  BY EmptySeq
<1>3. ASSUME NEW x \in Elems(Tail(s)) PROVE x \in Elems(s)
  <2>1. PICK i \in 1 .. Len(Tail(s)) : x = Tail(s)[i]
    BY <1>3 DEF Elems
  <2>2. x = s[i + 1] /\ i + 1 \in 1 .. Len(s)
    BY <1>1, <1>2, <2>1
  <2> QED
    BY <2>2 DEF Elems
<1>4. Head(s) \in Elems(s)
  BY <1>2 DEF Elems
<1> QED
  BY <1>1, <1>3, <1>4

(* Dropping some from the front, as the display does. *)
LEMMA ElemsDrop ==
  ASSUME NEW S, NEW s \in Seq(S), NEW n \in 1 .. Len(s)
  PROVE  /\ SubSeq(s, n + 1, Len(s)) \in Seq(S)
         /\ Elems(SubSeq(s, n + 1, Len(s))) \subseteq Elems(s)
<1> DEFINE t == SubSeq(s, n + 1, Len(s))
<1>1. Len(s) \in Nat /\ \A i \in 1 .. Len(s) : s[i] \in S
  BY LenProperties, ElementOfSeq
<1>2. /\ t \in Seq(S)
      /\ Len(t) = IF n + 1 <= Len(s) THEN Len(s) - (n + 1) + 1 ELSE 0
      /\ \A i \in 1 .. Len(s) - (n + 1) + 1 : t[i] = s[n + 1 + i - 1]
  <2>1. n + 1 \in Int /\ Len(s) \in Int /\ \A i \in n + 1 .. Len(s) : s[i] \in S
    BY <1>1
  <2> QED
    BY <2>1, SubSeqProperties
<1> HIDE DEF t
<1>3. ASSUME NEW x \in Elems(t) PROVE x \in Elems(s)
  <2>1. PICK i \in 1 .. Len(t) : x = t[i]
    BY <1>3 DEF Elems
  <2>2. x = s[n + i] /\ n + i \in 1 .. Len(s)
    BY <1>1, <1>2, <2>1
  <2> QED
    BY <2>2 DEF Elems
<1> QED
  BY <1>2, <1>3 DEF t

LEMMA OrderAppend ==
  ASSUME NEW s \in Seq(Request), InOrder(s), NEW e \in Request,
         e.cmd = "data" => \A m \in Elems(s) : m.cmd = "data" => m.v <= e.v
  PROVE  InOrder(Append(s, e))
<1> DEFINE t == Append(s, e)
<1>1. /\ Len(t) = Len(s) + 1 /\ Len(s) \in Nat
      /\ \A i \in 1 .. Len(s) : t[i] = s[i]
      /\ t[Len(s) + 1] = e
  BY LenProperties
<1> HIDE DEF t
<1>2. ASSUME NEW i \in 1 .. Len(t), NEW j \in 1 .. Len(t),
             i < j, t[i].cmd = "data", t[j].cmd = "data"
      PROVE  t[i].v <= t[j].v
  <2>1. i \in 1 .. Len(s) /\ t[i] = s[i] /\ s[i] \in Elems(s)
    BY <1>1, <1>2 DEF Elems
  <2>2. CASE j = Len(s) + 1
    BY <1>1, <1>2, <2>1, <2>2
  <2>3. CASE j \in 1 .. Len(s)
    BY <1>1, <1>2, <2>1, <2>3 DEF InOrder
  <2> QED
    BY <1>1, <2>2, <2>3
<1> QED
  BY <1>2 DEF InOrder, t

LEMMA OrderTail ==
  ASSUME NEW s \in Seq(Request), InOrder(s), s # <<>>
  PROVE  /\ InOrder(Tail(s))
         /\ Head(s).cmd = "data" => \A m \in Elems(s) : m.cmd = "data" => Head(s).v <= m.v
<1>1. /\ Len(Tail(s)) = Len(s) - 1
      /\ \A i \in 1 .. Len(Tail(s)) : Tail(s)[i] = s[i + 1]
  BY HeadTailProperties
<1>2. Len(s) \in Nat \ {0} /\ Head(s) = s[1]
  BY EmptySeq
<1>3. InOrder(Tail(s))
  BY <1>1, <1>2 DEF InOrder
<1>4. ASSUME Head(s).cmd = "data", NEW i \in 1 .. Len(s), s[i].cmd = "data"
      PROVE  Head(s).v <= s[i].v
  <2>1. s[i].v \in Nat
    <3>1. s[i] \in Request
      BY ElementOfSeq
    <3> QED
      BY <3>1 DEF Request
  <2>2. CASE i = 1
    BY <1>2, <2>1, <2>2
  <2>3. CASE i # 1
    <3>1. 1 \in 1 .. Len(s) /\ 1 < i
      BY <1>2, <2>3
    <3> QED
      BY <1>2, <1>4, <3>1 DEF InOrder
  <2> QED
    BY <2>2, <2>3
<1> QED
  BY <1>3, <1>4 DEF Elems

(* A box of each connection. *)
LEMMA PutRequest ==
  ASSUME NEW box \in [Conns -> Seq(Request)], NEW c \in Conns, NEW m \in Request
  PROVE  /\ Put(box, c, m) \in [Conns -> Seq(Request)]
         /\ Put(box, c, m)[c] = Append(box[c], m)
         /\ \A x \in Elems(Put(box, c, m)[c]) : x \in Elems(box[c]) \/ x = m
         /\ \A d \in Conns : d # c => Put(box, c, m)[d] = box[d]
         /\ box[c] # <<>> => Head(Put(box, c, m)[c]) = Head(box[c])
         /\ Put(box, c, m)[c] # <<>>
<1>1. box[c] \in Seq(Request)
  OBVIOUS
<1>2. Append(box[c], m) \in Seq(Request) /\ Elems(Append(box[c], m)) = Elems(box[c]) \cup {m}
  BY <1>1, ElemsAppend
<1>3. /\ box[c] # <<>> => Head(Append(box[c], m)) = Head(box[c])
      /\ Append(box[c], m) # <<>>
  BY <1>1
<1> QED
  BY <1>1, <1>2, <1>3 DEF Put

LEMMA PutMessage ==
  ASSUME NEW box \in [Conns -> Seq(Message)], NEW c \in Conns, NEW m \in Message
  PROVE  /\ Put(box, c, m) \in [Conns -> Seq(Message)]
         /\ \A x \in Elems(Put(box, c, m)[c]) : x \in Elems(box[c]) \/ x = m
         /\ \A d \in Conns : d # c => Put(box, c, m)[d] = box[d]
<1>1. box[c] \in Seq(Message)
  OBVIOUS
<1>2. Append(box[c], m) \in Seq(Message) /\ Elems(Append(box[c], m)) = Elems(box[c]) \cup {m}
  BY <1>1, ElemsAppend
<1> QED
  BY <1>1, <1>2 DEF Put

LEMMA RestBox ==
  ASSUME NEW S, NEW box \in [Conns -> Seq(S)], NEW c \in Conns, box[c] # <<>>
  PROVE  /\ Rest(box, c) \in [Conns -> Seq(S)]
         /\ Rest(box, c)[c] = Tail(box[c])
         /\ Elems(Rest(box, c)[c]) \subseteq Elems(box[c])
         /\ \A d \in Conns : d # c => Rest(box, c)[d] = box[d]
         /\ Head(box[c]) \in S /\ Head(box[c]) \in Elems(box[c])
<1>1. /\ Tail(box[c]) \in Seq(S) /\ Elems(Tail(box[c])) \subseteq Elems(box[c])
      /\ Head(box[c]) \in S /\ Head(box[c]) \in Elems(box[c])
  BY ElemsTail
<1> QED
  BY <1>1 DEF Rest

-----------------------------------------------------------------------------

(* The parts of the type invariant. *)
Numbers == /\ measured \in Nat /\ pressed \in Nat /\ acked \in Nat /\ piillu \in Nat
           /\ shown \in [PCs -> Snapshot] /\ data \in Snapshot /\ storing \in 0 .. 3
           /\ loaded \in [PCs -> Seq(Nat)] /\ order \in Seq(Nat)
Boxes == /\ inbox \in [Conns -> Seq(Request)] /\ tasks \in [Conns -> Seq(Request)]
         /\ outbox \in [Conns -> Seq(Message)]
Heads == /\ storing > 0 => inbox[Pi] # <<>> /\ Head(inbox[Pi]).cmd = "data"
         /\ \A p \in PCs : loaded[p] # <<>> =>
              tasks[p] # <<>> /\ Head(tasks[p]).cmd = "getdata"

LEMMA TypeParts == TypeOK <=> Numbers /\ Boxes /\ Heads
BY DEF TypeOK, Numbers, Boxes, Heads, Message

IInv == Numbers /\ Boxes /\ Heads /\ Uploads /\ Acks /\ Polls

LEMMA ReadingTypes ==
  ASSUME Numbers
  PROVE  \A f \in Measured : f \in Field /\ data[f] \in Nat
BY DEF Numbers, Snapshot, Measured, Field

LEMMA RequestTypes ==
  ASSUME Boxes, NEW c \in Conns
  PROVE  /\ \A m \in Elems(inbox[c]) \cup Elems(tasks[c]) : m.v \in Nat
         /\ \A m \in Elems(outbox[c]) : m.v \in Nat
<1>1. /\ inbox[c] \in Seq(Request) /\ tasks[c] \in Seq(Request)
      /\ outbox[c] \in Seq(Message)
  BY DEF Boxes
<1>2. /\ \A m \in Elems(inbox[c]) \cup Elems(tasks[c]) : m \in Request
      /\ \A m \in Elems(outbox[c]) : m \in Message
  BY <1>1, ElementOfSeq DEF Elems
<1> QED
  BY <1>2 DEF Request, Message

LEMMA Connections == Pi \in Conns /\ \A p \in PCs : p \in Conns /\ p # Pi
BY ConstantsAssumption DEF Conns

(* The clients. *)
LEMMA MeasureStep ==
  ASSUME IInv, Measure
  PROVE  IInv'
<1>1. /\ measured' = measured + 1 /\ measured \in Nat
      /\ UNCHANGED <<pressed, piillu, shown, acked, inbox, outbox, tasks,
                     data, storing, loaded, order>>
  BY DEF Measure, servervars, IInv, Numbers
<1>2. Numbers' /\ Boxes' /\ Heads'
  BY <1>1 DEF IInv, Numbers, Boxes, Heads
<1>3. Uploads'
  <2>1. \A m \in Elems(inbox[Pi]) : m.v \in Nat
    BY Connections, RequestTypes DEF IInv
  <2>2. \A f \in Measured : data[f] \in Nat
    BY ReadingTypes DEF IInv
  <2> QED
    BY <1>1, <2>1, <2>2 DEF IInv, Uploads
<1>4. Acks' /\ Polls'
  BY <1>1 DEF IInv, Acks, Polls
<1> QED
  BY <1>2, <1>3, <1>4 DEF IInv

LEMMA UploadStep ==
  ASSUME IInv, Upload
  PROVE  IInv'
<1> DEFINE d == [cmd |-> "data", v |-> measured]
           g == [cmd |-> "getillu", v |-> 0]
           s == inbox[Pi]
           a == Append(s, d)
           t == Append(a, g)
<1>1. /\ d \in Request /\ g \in Request /\ Pi \in Conns /\ s \in Seq(Request)
      /\ d.cmd = "data" /\ d.v = measured /\ g.cmd = "getillu"
  BY DEF IInv, Numbers, Request, Conns, Boxes
<1>2. /\ inbox' = [inbox EXCEPT ![Pi] = s \o <<d, g>>]
      /\ UNCHANGED <<measured, pressed, piillu, shown, acked, outbox, tasks,
                     data, storing, loaded, order>>
  BY DEF Upload, clientvars, servervars
<1> HIDE DEF d, g
<1>3. s \o <<d, g>> = t
  BY <1>1
<1>4. /\ Append(s, d) \in Seq(Request) /\ t \in Seq(Request)
      /\ Elems(Append(s, d)) = Elems(s) \cup {d}
      /\ Elems(t) = Elems(s) \cup {d, g}
  <2>1. /\ Append(s, d) \in Seq(Request)
        /\ Elems(Append(s, d)) = Elems(s) \cup {d}
    BY <1>1, ElemsAppend
  <2>2. /\ t \in Seq(Request)
        /\ Elems(t) = Elems(Append(s, d)) \cup {g}
    <3>1. a \in Seq(Request) /\ g \in Request
      BY <1>1, <2>1
    <3> HIDE DEF a
    <3>2. Append(a, g) \in Seq(Request) /\ Elems(Append(a, g)) = Elems(a) \cup {g}
      BY <3>1, ElemsAppend
    <3> QED
      BY <3>2 DEF a
  <2> QED
    BY <2>1, <2>2
<1>5. s # <<>> => Head(t) = Head(s)
  BY <1>1
<1>6. t # <<>>
  BY <1>1
<1> HIDE DEF t
<1>7. InOrder(t)
  <2>1. InOrder(Append(s, d))
    BY <1>1, OrderAppend DEF IInv, Uploads
  <2> QED
    BY <1>1, <1>4, <2>1, OrderAppend DEF t
<1>8. inbox'[Pi] = t /\ \A c \in Conns : c # Pi => inbox'[c] = inbox[c]
  BY <1>1, <1>2, <1>3 DEF IInv, Boxes
<1>9. Numbers' /\ Boxes' /\ Heads'
  <2>1. inbox' \in [Conns -> Seq(Request)]
    BY <1>1, <1>2, <1>3, <1>4 DEF IInv, Boxes
  <2>2. Boxes'
    BY <1>2, <2>1 DEF IInv, Boxes
  <2>3. Heads'
    BY <1>2, <1>5, <1>6, <1>8 DEF IInv, Heads
  <2>4. Numbers'
    BY <1>2 DEF IInv, Numbers
  <2> QED
    BY <2>2, <2>3, <2>4
<1>10. Uploads'
  <2>1. measured \in Nat /\ storing \in 0 .. 3
    BY DEF IInv, Numbers
  <2>2. storing > 0 => Head(inbox'[Pi]) = Head(s)
    BY <1>5, <1>8 DEF IInv, Heads
  <2>3. \A m \in Elems(inbox'[Pi]) : m.cmd = "data" =>
          m.v <= measured /\ \A f \in Measured : data[f] <= m.v
    BY <1>1, <1>4, <1>8, <2>1 DEF IInv, Uploads
  <2>4. \A n \in 1 .. 3 : n <= storing => data[StoreOrder[n]] >= Head(inbox'[Pi]).v
    BY <2>1, <2>2 DEF IInv, Uploads
  <2>5. InOrder(inbox'[Pi]) /\ \A f \in Measured : data[f] <= measured
    BY <1>7, <1>8 DEF IInv, Uploads
  <2> QED
    BY <1>2, <2>3, <2>4, <2>5 DEF Uploads
<1>11. Acks' /\ Polls'
  BY <1>2, <1>8, Connections DEF IInv, Acks, Polls
<1> QED
  BY <1>9, <1>10, <1>11 DEF IInv

LEMMA PiReceiveStep ==
  ASSUME IInv, PiReceive
  PROVE  IInv'
<1> DEFINE m == Head(outbox[Pi])
<1>1. /\ outbox[Pi] # <<>> /\ outbox' = Rest(outbox, Pi)
      /\ acked' = IF m.cmd = "data" THEN m.v ELSE acked
      /\ piillu' = IF m.cmd = "getillu" THEN m.pd.illu ELSE piillu
      /\ UNCHANGED <<measured, pressed, shown, inbox, tasks, data, storing, loaded, order>>
  BY DEF PiReceive, servervars
<1>2. /\ outbox' \in [Conns -> Seq(Message)]
      /\ Elems(outbox'[Pi]) \subseteq Elems(outbox[Pi])
      /\ \A p \in Conns : p # Pi => outbox'[p] = outbox[p]
      /\ m \in Message /\ m \in Elems(outbox[Pi])
  BY <1>1, Connections, RestBox DEF IInv, Boxes
<1> HIDE DEF m
<1>3. Numbers' /\ Boxes' /\ Heads'
  <2>1. m.v \in Nat /\ m.pd \in Snapshot
    BY <1>2 DEF Message
  <2>2. m.pd.illu \in Nat
    BY <2>1 DEF Snapshot, Field
  <2>3. acked' \in Nat /\ piillu' \in Nat
    BY <1>1, <2>1, <2>2 DEF IInv, Numbers
  <2> QED
    BY <1>1, <1>2, <2>3 DEF IInv, Numbers, Boxes, Heads
<1>4. Uploads'
  BY <1>1 DEF IInv, Uploads
<1>5. Acks'
  BY <1>1, <1>2 DEF IInv, Acks
<1>6. Polls'
  BY <1>1, <1>2, Connections DEF IInv, Polls
<1> QED
  BY <1>3, <1>4, <1>5, <1>6 DEF IInv

(* A poll, or a press of the button. *)
LEMMA AskStep ==
  ASSUME IInv, NEW p \in PCs, Poll(p) \/ Press(p)
  PROVE  IInv'
<1> DEFINE q == [cmd |-> "getdata", v |-> acked]
           r == [cmd |-> "set", v |-> pressed + 1]
<1>1. q \in Request /\ r \in Request /\ q.v = acked /\ r.cmd = "set"
  BY DEF IInv, Numbers, Request
<1>2. PICK m \in {q, r} : inbox' = Put(inbox, p, m)
  BY DEF Poll, Press
<1>3. /\ UNCHANGED <<measured, piillu, shown, acked, outbox, tasks, data, storing,
                     loaded, order>>
      /\ pressed' \in Nat
  BY DEF Poll, Press, clientvars, servervars, IInv, Numbers
<1>4. m \in Request /\ (m.cmd = "getdata" => m.v = acked)
  BY <1>1, <1>2
<1> HIDE DEF q, r
<1>5. /\ inbox' \in [Conns -> Seq(Request)]
      /\ \A x \in Elems(inbox'[p]) : x \in Elems(inbox[p]) \/ x = m
      /\ \A d \in Conns : d # p => inbox'[d] = inbox[d]
  <2>1. inbox \in [Conns -> Seq(Request)] /\ p \in Conns
    BY Connections DEF IInv, Boxes
  <2>2. m \in Request
    BY <1>4
  <2>3. Put(inbox, p, m) \in [Conns -> Seq(Request)]
    BY <2>1, <2>2, PutRequest
  <2>4. \A x \in Elems(Put(inbox, p, m)[p]) : x \in Elems(inbox[p]) \/ x = m
    BY <2>1, <2>2, PutRequest
  <2>5. \A d \in Conns : d # p => Put(inbox, p, m)[d] = inbox[d]
    BY <2>1, <2>2, PutRequest
  <2> QED
    BY <1>2, <2>3, <2>4, <2>5
<1>6. inbox'[Pi] = inbox[Pi]
  BY <1>5, Connections
<1>7. Numbers' /\ Boxes' /\ Heads'
  BY <1>3, <1>5, <1>6 DEF IInv, Numbers, Boxes, Heads
<1>8. Uploads' /\ Acks'
  BY <1>3, <1>6 DEF IInv, Uploads, Acks
<1>9. Polls'
  <2>1. \A c \in PCs : \A x \in Elems(inbox'[c]) : x.cmd = "getdata" =>
          \A f \in Measured : x.v <= data[f]
    BY <1>4, <1>5, Connections DEF IInv, Polls, Acks
  <2> QED
    BY <1>3, <2>1 DEF IInv, Polls
<1> QED
  BY <1>7, <1>8, <1>9 DEF IInv

LEMMA PcReceiveStep ==
  ASSUME IInv, NEW p \in PCs, PcReceive(p)
  PROVE  IInv'
<1>1. PICK n \in 1 .. Len(outbox[p]) :
        outbox' = [outbox EXCEPT ![p] = SubSeq(@, n + 1, Len(@))]
  BY DEF PcReceive
<1>2. /\ outbox[p] # <<>> /\ Show(p, Head(outbox[p]))
      /\ UNCHANGED <<measured, pressed, piillu, acked, inbox, tasks, data, storing,
                     loaded, order>>
  BY DEF PcReceive, servervars
<1>3. p \in Conns /\ outbox[p] \in Seq(Message)
  BY Connections DEF IInv, Boxes
<1>4. /\ outbox' \in [Conns -> Seq(Message)]
      /\ Elems(outbox'[p]) \subseteq Elems(outbox[p])
      /\ \A d \in Conns : d # p => outbox'[d] = outbox[d]
  BY <1>1, <1>3, ElemsDrop DEF IInv, Boxes
<1>5. shown' \in [PCs -> Snapshot]
  <2>1. Head(outbox[p]).pd \in Snapshot
    <3>1. Head(outbox[p]) \in Message
      BY <1>2, <1>3, HeadTailProperties
    <3> QED
      BY <3>1 DEF Message
  <2>2. shown[p] \in Snapshot /\ shown \in [PCs -> Snapshot]
    BY DEF IInv, Numbers
  <2>3. [shown[p] EXCEPT !["illu"] = Head(outbox[p]).pd.illu] \in Snapshot
    BY <2>1, <2>2 DEF Snapshot, Field
  <2> QED
    BY <1>2, <2>1, <2>2, <2>3 DEF Show
<1>6. Numbers' /\ Boxes' /\ Heads'
  BY <1>2, <1>4, <1>5 DEF IInv, Numbers, Boxes, Heads
<1>7. Uploads' /\ Acks'
  BY <1>2, <1>4, Connections DEF IInv, Uploads, Acks
<1>8. Polls'
  BY <1>2, <1>4, Connections DEF IInv, Polls
<1> QED
  BY <1>6, <1>7, <1>8 DEF IInv

(* The server. *)
LEMMA StoreStep ==
  ASSUME IInv, Store
  PROVE  IInv'
<1> DEFINE v == Head(inbox[Pi]).v
           g == StoreOrder[storing + 1]
<1>1. /\ inbox[Pi] # <<>> /\ Head(inbox[Pi]).cmd = "data" /\ storing < 3
      /\ data' = [data EXCEPT ![g] = v] /\ storing' = storing + 1
      /\ UNCHANGED <<measured, pressed, piillu, shown, acked, inbox, outbox, tasks,
                     loaded, order>>
  BY DEF Store, clientvars
<1>2. storing \in 0 .. 2 /\ storing' \in 1 .. 3 /\ g \in Measured
  BY <1>1 DEF IInv, Numbers, StoreOrder, Measured
<1>3. inbox[Pi] \in Seq(Request) /\ Head(inbox[Pi]) \in Elems(inbox[Pi]) /\ v \in Nat
  <2>1. inbox[Pi] \in Seq(Request)
    BY Connections DEF IInv, Boxes
  <2> QED
    BY <1>1, <2>1, ElemsTail, Connections, RequestTypes DEF IInv
<1>4. /\ v <= measured
      /\ \A f \in Measured : data[f] <= v
      /\ \A m \in Elems(inbox[Pi]) : m.cmd = "data" => v <= m.v
  BY <1>1, <1>3, OrderTail DEF IInv, Uploads
<1>5. /\ \A f \in Measured : /\ data'[f] = IF f = g THEN v ELSE data[f]
                             /\ data'[f] \in Nat /\ data[f] \in Nat
      /\ data' \in Snapshot
  BY <1>1, <1>2, <1>3, ReadingTypes DEF IInv, Numbers, Snapshot
<1>6. \A f \in Measured : data[f] <= data'[f]
  BY <1>4, <1>5
<1>7. Numbers' /\ Boxes' /\ Heads'
  BY <1>1, <1>2, <1>5 DEF IInv, Numbers, Boxes, Heads
<1>8. Uploads'
  <2>1. \A f \in Measured : data'[f] <= measured /\ data'[f] <= v
    BY <1>3, <1>4, <1>5 DEF IInv, Uploads
  <2>2. \A m \in Elems(inbox[Pi]) : m.cmd = "data" =>
          m.v <= measured /\ \A f \in Measured : data'[f] <= m.v
    BY <1>3, <1>4, <1>5 DEF IInv, Uploads
  <2>3. ASSUME NEW n \in 1 .. 3, n <= storing'
        PROVE  data'[StoreOrder[n]] >= v
    <3>1. StoreOrder[n] \in Measured
      BY DEF StoreOrder, Measured
    <3>2. CASE n = storing + 1
      BY <1>3, <1>5, <3>1, <3>2
    <3>3. CASE n <= storing
      <4>1. data[StoreOrder[n]] >= v
        BY <3>3 DEF IInv, Uploads
      <4> QED
        BY <1>3, <1>5, <1>6, <3>1, <4>1
    <3> QED
      BY <1>1, <1>2, <2>3, <3>2, <3>3
  <2>4. InOrder(inbox[Pi])
    BY DEF IInv, Uploads
  <2> HIDE DEF v, g
  <2> QED
    BY <1>1, <2>1, <2>2, <2>3, <2>4 DEF Uploads, v
<1>9. Acks'
  <2>1. \A m \in Elems(tasks[Pi]) \cup Elems(outbox[Pi]) : m.v \in Nat
    BY Connections, RequestTypes DEF IInv
  <2>2. acked \in Nat
    BY DEF IInv, Numbers
  <2> HIDE DEF v, g
  <2> QED
    BY <1>1, <1>5, <1>6, <2>1, <2>2 DEF IInv, Acks
<1>10. Polls'
  <2>1. \A p \in PCs : \A m \in Elems(inbox[p]) \cup Elems(tasks[p]) : m.v \in Nat
    BY Connections, RequestTypes DEF IInv
  <2>2. \A p \in PCs : \A m \in Elems(inbox[p]) \cup Elems(tasks[p]) : m.cmd = "getdata" =>
          \A f \in Measured : m.v <= data'[f]
    BY <1>5, <1>6, <2>1 DEF IInv, Polls
  <2> HIDE DEF v, g
  <2> QED
    BY <1>1, <2>2 DEF IInv, Polls
<1> QED
  BY <1>7, <1>8, <1>9, <1>10 DEF IInv

(* The head of the Pi's inbox goes, at a time when no store is under way.  *)
LEMMA PiInboxStep ==
  ASSUME IInv, inbox[Pi] # <<>>, inbox' = Rest(inbox, Pi), storing' = 0,
         UNCHANGED measured, \A f \in Measured : data'[f] = data[f]
  PROVE  Uploads'
<1>1. inbox \in [Conns -> Seq(Request)]
  BY DEF IInv, Boxes
<1>2. /\ inbox'[Pi] = Tail(inbox[Pi])
      /\ Elems(inbox'[Pi]) \subseteq Elems(inbox[Pi])
  BY <1>1, Connections, RestBox
<1>3. inbox[Pi] \in Seq(Request)
  BY <1>1, Connections
<1>4. InOrder(inbox'[Pi])
  BY <1>2, <1>3, OrderTail DEF IInv, Uploads
<1> QED
  BY <1>2, <1>4 DEF IInv, Uploads

(* A request moves from the inbox of a connection to its tasks: the effect *)
(* that Stored, Ask and SetIllu have in common.                            *)
LEMMA MoveStep ==
  ASSUME IInv, NEW c \in Conns, inbox[c] # <<>>,
         inbox' = Rest(inbox, c), tasks' = Put(tasks, c, Head(inbox[c])),
         UNCHANGED <<measured, acked, outbox, loaded>>,
         \A f \in Measured : data'[f] = data[f],
         c = Pi => storing' = 0, c # Pi => storing' = storing,
         c = Pi /\ Head(inbox[Pi]).cmd = "data" =>
           \A f \in Measured : Head(inbox[Pi]).v <= data[f]
  PROVE  Boxes' /\ Heads' /\ Uploads' /\ Acks' /\ Polls'
<1> DEFINE m == Head(inbox[c])
<1>1. /\ inbox \in [Conns -> Seq(Request)] /\ tasks \in [Conns -> Seq(Request)]
      /\ outbox \in [Conns -> Seq(Message)]
  BY DEF IInv, Boxes
<1>2. /\ inbox' \in [Conns -> Seq(Request)]
      /\ Elems(inbox'[c]) \subseteq Elems(inbox[c])
      /\ \A d \in Conns : d # c => inbox'[d] = inbox[d]
      /\ m \in Request /\ m \in Elems(inbox[c])
  BY <1>1, RestBox
<1> HIDE DEF m
<1>3. /\ tasks' \in [Conns -> Seq(Request)]
      /\ \A x \in Elems(tasks'[c]) : x \in Elems(tasks[c]) \/ x = m
      /\ \A d \in Conns : d # c => tasks'[d] = tasks[d]
      /\ tasks[c] # <<>> => Head(tasks'[c]) = Head(tasks[c])
      /\ tasks'[c] # <<>>
  <2>1. tasks' = Put(tasks, c, m)
    BY DEF m
  <2>2. tasks \in [Conns -> Seq(Request)] /\ m \in Request
    BY <1>1, <1>2
  <2>3. Put(tasks, c, m) \in [Conns -> Seq(Request)]
    BY <2>2, PutRequest
  <2>4. \A x \in Elems(Put(tasks, c, m)[c]) : x \in Elems(tasks[c]) \/ x = m
    BY <2>2, PutRequest
  <2>5. \A d \in Conns : d # c => Put(tasks, c, m)[d] = tasks[d]
    BY <2>2, PutRequest
  <2>6. /\ tasks[c] # <<>> => Head(Put(tasks, c, m)[c]) = Head(tasks[c])
        /\ Put(tasks, c, m)[c] # <<>>
    BY <2>2, PutRequest
  <2> QED
    BY <2>1, <2>3, <2>4, <2>5, <2>6
<1>4. Boxes'
  BY <1>1, <1>2, <1>3 DEF Boxes
<1>5. \A p \in PCs : tasks[p] # <<>> => tasks'[p] # <<>> /\ Head(tasks'[p]) = Head(tasks[p])
  BY <1>3, Connections
<1>6. Heads'
  <2>1. storing' > 0 => inbox'[Pi] = inbox[Pi] /\ storing' = storing
    BY <1>2, Connections
  <2> QED
    BY <1>5, <2>1 DEF IInv, Heads
<1>7. Uploads'
  <2>1. CASE c = Pi
    BY <2>1, PiInboxStep
  <2>2. CASE c # Pi
    <3>1. inbox'[Pi] = inbox[Pi]
      BY <1>2, <2>2, Connections
    <3>2. \A n \in 1 .. 3 : StoreOrder[n] \in Measured
      BY DEF StoreOrder, Measured
    <3> QED
      BY <2>2, <3>1, <3>2 DEF IInv, Uploads
  <2> QED
    BY <2>1, <2>2
<1>8. Acks'
  <2>1. CASE c = Pi
    BY <1>3, <2>1 DEF IInv, Acks, m
  <2>2. CASE c # Pi
    BY <1>3, <2>2, Connections DEF IInv, Acks
  <2> QED
    BY <2>1, <2>2
<1>9. Polls'
  <2>1. \A p \in PCs : Elems(inbox'[p]) \subseteq Elems(inbox[p])
                       /\ Elems(tasks'[p]) \subseteq Elems(tasks[p]) \cup Elems(inbox[p])
    BY <1>2, <1>3, Connections
  <2>2. \A p \in PCs : \A n \in 2 .. 4 : n <= Len(loaded[p]) =>
          loaded[p][n] >= Head(tasks'[p]).v
    <3> SUFFICES ASSUME NEW p \in PCs, NEW n \in 2 .. 4, n <= Len(loaded[p])
                 PROVE  loaded[p][n] >= Head(tasks'[p]).v
      OBVIOUS
    <3>1. loaded[p] # <<>>
      BY DEF IInv, Numbers
    <3>2. Head(tasks'[p]) = Head(tasks[p])
      BY <1>5, <3>1 DEF IInv, Heads
    <3> QED
      BY <3>2 DEF IInv, Polls
  <2> QED
    BY <2>1, <2>2 DEF IInv, Polls
<1> QED
  BY <1>4, <1>6, <1>7, <1>8, <1>9

LEMMA StoredStep ==
  ASSUME IInv, Stored
  PROVE  IInv'
<1>1. /\ storing = 3 /\ storing' = 0 /\ inbox[Pi] # <<>>
      /\ inbox' = Rest(inbox, Pi) /\ tasks' = Put(tasks, Pi, Head(inbox[Pi]))
      /\ UNCHANGED <<measured, pressed, piillu, shown, acked, outbox, data, loaded, order>>
  BY DEF Stored, clientvars, IInv, Heads
<1>2. \A f \in Measured : Head(inbox[Pi]).v <= data[f]
  <2>1. \A n \in 1 .. 3 : data[StoreOrder[n]] >= Head(inbox[Pi]).v
    BY <1>1 DEF IInv, Uploads
  <2>2. \A f \in Measured : \E n \in 1 .. 3 : f = StoreOrder[n]
    BY DEF Measured, StoreOrder
  <2>3. Head(inbox[Pi]).v \in Nat
    <3>1. inbox \in [Conns -> Seq(Request)]
      BY DEF IInv, Boxes
    <3>2. Head(inbox[Pi]) \in Request
      BY <1>1, <3>1, RestBox, Connections
    <3> QED
      BY <3>2 DEF Request
  <2>4. \A f \in Measured : data[f] \in Nat
    BY ReadingTypes DEF IInv
  <2> QED
    BY <2>1, <2>2, <2>3, <2>4
<1>3. Boxes' /\ Heads' /\ Uploads' /\ Acks' /\ Polls'
  BY <1>1, <1>2, Connections, MoveStep
<1>4. Numbers'
  BY <1>1 DEF IInv, Numbers
<1> QED
  BY <1>3, <1>4 DEF IInv

LEMMA RequestStep ==
  ASSUME IInv, NEW c \in Conns, Ask(c) \/ SetIllu(c)
  PROVE  IInv'
<1>1. /\ inbox[c] # <<>> /\ Head(inbox[c]).cmd # "data"
      /\ inbox' = Rest(inbox, c) /\ tasks' = Put(tasks, c, Head(inbox[c]))
      /\ UNCHANGED <<measured, pressed, piillu, shown, acked, outbox, storing, loaded>>
  BY DEF Ask, SetIllu, clientvars, servervars
<1>2. c = Pi => storing = 0
  BY <1>1 DEF IInv, Heads, Numbers
<1>3. /\ data' \in Snapshot /\ order' \in Seq(Nat)
      /\ \A f \in Measured : data'[f] = data[f]
  <2>1. CASE Ask(c)
    BY <2>1 DEF Ask, servervars, IInv, Numbers
  <2>2. CASE SetIllu(c)
    <3>1. inbox \in [Conns -> Seq(Request)]
      BY DEF IInv, Boxes
    <3>2. Head(inbox[c]) \in Request
      BY <1>1, <3>1, RestBox
    <3>3. Head(inbox[c]).v \in Nat
      BY <3>2 DEF Request
    <3>4. data \in Snapshot /\ order \in Seq(Nat)
      BY DEF IInv, Numbers
    <3> QED
      BY <2>2, <3>3, <3>4 DEF SetIllu, Snapshot, Field, Measured
  <2> QED
    BY <2>1, <2>2
<1>4. Boxes' /\ Heads' /\ Uploads' /\ Acks' /\ Polls'
  BY <1>1, <1>2, <1>3, MoveStep
<1>5. Numbers'
  BY <1>1, <1>3 DEF IInv, Numbers
<1> QED
  BY <1>4, <1>5 DEF IInv

LEMMA LoadStep ==
  ASSUME IInv, NEW p \in PCs, LoadReply(p)
  PROVE  IInv'
<1> DEFINE k == Len(loaded[p]) + 1
           e == data[LoadOrder[k]]
           s == Append(loaded[p], e)
<1>1. /\ tasks[p] # <<>> /\ Head(tasks[p]).cmd = "getdata" /\ Len(loaded[p]) < 4
      /\ loaded' = [loaded EXCEPT ![p] = s]
      /\ UNCHANGED <<measured, pressed, piillu, shown, acked, inbox, outbox, tasks, data,
                     storing, order>>
  BY DEF LoadReply, clientvars
<1>2. loaded[p] \in Seq(Nat) /\ loaded \in [PCs -> Seq(Nat)]
  BY DEF IInv, Numbers
<1>3. k \in 1 .. 4 /\ e \in Nat /\ (k > 1 => LoadOrder[k] \in Measured)
  <2>1. k \in 1 .. 4
    BY <1>1, <1>2
  <2>2. LoadOrder[k] \in Field /\ (k > 1 => LoadOrder[k] \in Measured)
    BY <2>1 DEF LoadOrder, Field, Measured
  <2> QED
    BY <2>1, <2>2 DEF IInv, Numbers, Snapshot
<1> HIDE DEF e
<1>4. /\ s \in Seq(Nat) /\ Len(s) = k /\ s[k] = e
      /\ \A n \in 1 .. Len(loaded[p]) : s[n] = loaded[p][n]
  BY <1>2, <1>3
<1>5. /\ loaded' \in [PCs -> Seq(Nat)] /\ loaded'[p] = s
      /\ \A q \in PCs : q # p => loaded'[q] = loaded[q]
  BY <1>1, <1>2, <1>4
<1>6. Numbers' /\ Boxes' /\ Heads'
  BY <1>1, <1>5 DEF IInv, Numbers, Boxes, Heads
<1>7. Uploads' /\ Acks'
  BY <1>1 DEF IInv, Uploads, Acks
<1>8. Polls'
  <2>1. Head(tasks[p]) \in Elems(tasks[p])
    <3>1. tasks \in [Conns -> Seq(Request)]
      BY DEF IInv, Boxes
    <3> QED
      BY <1>1, <3>1, Connections, RestBox
  <2>2. \A n \in 2 .. 4 : n <= Len(s) => s[n] >= Head(tasks[p]).v
    <3> SUFFICES ASSUME NEW n \in 2 .. 4, n <= Len(s) PROVE s[n] >= Head(tasks[p]).v
      OBVIOUS
    <3>1. CASE n = k
      <4>1. Head(tasks[p]).v <= e
        BY <1>1, <1>3, <2>1, <3>1 DEF IInv, Polls, e
      <4>2. Head(tasks[p]).v \in Nat
        BY <2>1, Connections, RequestTypes DEF IInv
      <4> QED
        BY <1>3, <1>4, <3>1, <4>1, <4>2
    <3>2. CASE n < k
      <4>1. n \in 1 .. Len(loaded[p])
        BY <1>2, <3>2
      <4> QED
        BY <1>4, <4>1 DEF IInv, Polls
    <3> QED
      BY <1>2, <1>4, <3>1, <3>2
  <2>3. Len(s) <= 4
    BY <1>3, <1>4
  <2> QED
    BY <1>1, <1>5, <2>2, <2>3 DEF IInv, Polls
<1> QED
  BY <1>6, <1>7, <1>8 DEF IInv

(* A task is answered with a message m: what SendData and SendOther have   *)
(* in common.                                                              *)
LEMMA AnswerStep ==
  ASSUME IInv, NEW c \in Conns, tasks[c] # <<>>, NEW m \in Message,
         outbox' = Put(outbox, c, m), tasks' = Rest(tasks, c),
         UNCHANGED <<measured, pressed, piillu, shown, acked, inbox, data, storing, order>>,
         loaded' \in [PCs -> Seq(Nat)], c \in PCs => loaded'[c] = <<>>,
         \A p \in PCs : p # c => loaded'[p] = loaded[p],
         c = Pi /\ m.cmd = "data" => \A f \in Measured : m.v <= data[f],
         c \in PCs /\ m.cmd = "getdata" => \A f \in Measured : m.pd[f] >= m.v
  PROVE  IInv'
<1>1. /\ inbox \in [Conns -> Seq(Request)] /\ tasks \in [Conns -> Seq(Request)]
      /\ outbox \in [Conns -> Seq(Message)]
  BY DEF IInv, Boxes
<1>2. /\ tasks' \in [Conns -> Seq(Request)]
      /\ Elems(tasks'[c]) \subseteq Elems(tasks[c])
      /\ \A d \in Conns : d # c => tasks'[d] = tasks[d]
  <2>1. tasks \in [Conns -> Seq(Request)]
    BY <1>1
  <2>2. Rest(tasks, c) \in [Conns -> Seq(Request)]
    BY <2>1, RestBox
  <2>3. Elems(Rest(tasks, c)[c]) \subseteq Elems(tasks[c])
    BY <2>1, RestBox
  <2>4. \A d \in Conns : d # c => Rest(tasks, c)[d] = tasks[d]
    BY <2>1, RestBox, SMTT(30)
  <2> QED
    BY <2>2, <2>3, <2>4
<1>3. outbox' \in [Conns -> Seq(Message)]
  BY <1>1, PutMessage
<1>4. \A x \in Elems(outbox'[c]) : x \in Elems(outbox[c]) \/ x = m
  BY <1>1, PutMessage
<1>5. \A d \in Conns : d # c => outbox'[d] = outbox[d]
  <2>1. outbox \in [Conns -> Seq(Message)]
    BY <1>1
  <2>2. \A d \in Conns : d # c => Put(outbox, c, m)[d] = outbox[d]
    BY <2>1, PutMessage, SMTT(30)
  <2> QED
    BY <2>2
<1>6. Numbers' /\ Boxes' /\ Heads'
  <2>1. Numbers'
    BY DEF IInv, Numbers
  <2>2. Boxes'
    BY <1>1, <1>2, <1>3 DEF Boxes
  <2>3. Heads'
    BY <1>2, Connections DEF IInv, Heads
  <2> QED
    BY <2>1, <2>2, <2>3
<1>7. Uploads'
  BY DEF IInv, Uploads
<1>8. Acks'
  <2>1. CASE c = Pi
    BY <1>2, <1>4, <2>1 DEF IInv, Acks
  <2>2. CASE c # Pi
    BY <1>2, <1>5, <2>2, Connections DEF IInv, Acks
  <2> QED
    BY <2>1, <2>2
<1>9. Polls'
  <2> SUFFICES ASSUME NEW p \in PCs
      PROVE  /\ \A x \in Elems(inbox[p]) \cup Elems(tasks'[p]) : x.cmd = "getdata" =>
                  \A f \in Measured : x.v <= data[f]
             /\ Len(loaded'[p]) <= 4
             /\ \A n \in 2 .. 4 : n <= Len(loaded'[p]) => loaded'[p][n] >= Head(tasks'[p]).v
             /\ \A x \in Elems(outbox'[p]) : x.cmd = "getdata" =>
                  \A f \in Measured : x.pd[f] >= x.v
    BY DEF Polls
  <2>1. CASE p = c
    <3>1. \A x \in Elems(inbox[p]) \cup Elems(tasks'[p]) : x.cmd = "getdata" =>
            \A f \in Measured : x.v <= data[f]
      BY <1>2, <2>1 DEF IInv, Polls
    <3>2. loaded'[p] = <<>>
      BY <2>1
    <3>3. \A x \in Elems(outbox'[p]) : x.cmd = "getdata" =>
            \A f \in Measured : x.pd[f] >= x.v
      BY <1>4, <2>1 DEF IInv, Polls
    <3> QED
      BY <3>1, <3>2, <3>3
  <2>2. CASE p # c
    <3>1. tasks'[p] = tasks[p] /\ outbox'[p] = outbox[p] /\ loaded'[p] = loaded[p]
      BY <1>2, <1>5, <2>2, Connections
    <3> QED
      BY <3>1 DEF IInv, Polls
  <2> QED
    BY <2>1, <2>2
<1> QED
  BY <1>6, <1>7, <1>8, <1>9 DEF IInv

LEMMA SendDataStep ==
  ASSUME IInv, NEW p \in PCs, SendData(p)
  PROVE  IInv'
<1> DEFINE h == Head(tasks[p])
           m == [cmd |-> h.cmd, v |-> h.v, pd |-> Loaded(p)]
<1>1. /\ tasks[p] # <<>> /\ Len(loaded[p]) = 4
      /\ outbox' = Put(outbox, p, m) /\ tasks' = Rest(tasks, p)
      /\ loaded' = [loaded EXCEPT ![p] = <<>>]
      /\ UNCHANGED <<measured, pressed, piillu, shown, acked, inbox, data, storing, order>>
  BY DEF SendData, Reply, clientvars
<1>2. h \in Request
  <2>1. tasks \in [Conns -> Seq(Request)]
    BY DEF IInv, Boxes
  <2> QED
    BY <1>1, <2>1, RestBox, Connections
<1>3. loaded[p] \in Seq(Nat) /\ loaded \in [PCs -> Seq(Nat)]
  BY DEF IInv, Numbers
<1>4. \A n \in 1 .. 4 : loaded[p][n] \in Nat
  BY <1>1, <1>3, ElementOfSeq
<1>5. Loaded(p) \in Snapshot
  <2>1. loaded[p][1] \in Nat /\ loaded[p][2] \in Nat /\ loaded[p][3] \in Nat
        /\ loaded[p][4] \in Nat
    BY <1>4
  <2> DEFINE i == loaded[p][1]
             t == loaded[p][2]
             r == loaded[p][3]
             d == loaded[p][4]
  <2>2. i \in Nat /\ t \in Nat /\ r \in Nat /\ d \in Nat
    BY <2>1
  <2>3. Loaded(p) = [illu |-> i, temp |-> t, rh |-> r, db |-> d]
    BY DEF Loaded
  <2> HIDE DEF i, t, r, d
  <2> QED
    BY <2>2, <2>3 DEF Snapshot, Field
<1>6. \A f \in Measured : Loaded(p)[f] >= h.v
  <2>1. loaded[p][2] >= h.v /\ loaded[p][3] >= h.v /\ loaded[p][4] >= h.v
    BY <1>1 DEF IInv, Polls
  <2> QED
    BY <2>1 DEF Loaded, Measured
<1> HIDE DEF h
<1>7. m \in Message /\ m.v = h.v /\ m.pd = Loaded(p)
  BY <1>2, <1>5 DEF Message, Request
<1>8. /\ loaded' \in [PCs -> Seq(Nat)] /\ loaded'[p] = <<>>
      /\ \A q \in PCs : q # p => loaded'[q] = loaded[q]
  BY <1>1, <1>3
<1> HIDE DEF m
<1> QED
  BY <1>1, <1>6, <1>7, <1>8, AnswerStep, Connections

LEMMA SendOtherStep ==
  ASSUME IInv, NEW c \in Conns, SendOther(c)
  PROVE  IInv'
<1> DEFINE h == Head(tasks[c])
           pd == [Unset EXCEPT !["illu"] = data["illu"]]
           m == [cmd |-> h.cmd, v |-> h.v, pd |-> pd]
<1>1. /\ tasks[c] # <<>> /\ h.cmd # "getdata"
      /\ outbox' = Put(outbox, c, m) /\ tasks' = Rest(tasks, c)
      /\ UNCHANGED <<measured, pressed, piillu, shown, acked, inbox, data, storing, loaded,
                     order>>
  BY DEF SendOther, Reply, clientvars, servervars
<1>2. h \in Request /\ h \in Elems(tasks[c])
  <2>1. tasks \in [Conns -> Seq(Request)]
    BY DEF IInv, Boxes
  <2> QED
    BY <1>1, <2>1, RestBox
<1>3. pd \in Snapshot
  BY DEF IInv, Numbers, Unset, Snapshot, Field
<1> HIDE DEF h, pd
<1>4. m \in Message /\ m.cmd = h.cmd /\ m.v = h.v
  BY <1>2, <1>3 DEF Message, Request
<1> HIDE DEF m
<1>5. c = Pi /\ m.cmd = "data" => \A f \in Measured : m.v <= data[f]
  BY <1>2, <1>4 DEF IInv, Acks
<1>6. c \in PCs => loaded[c] = <<>>
  BY <1>1 DEF IInv, Heads, h
<1>7. loaded \in [PCs -> Seq(Nat)]
  BY DEF IInv, Numbers
<1> QED
  BY <1>1, <1>4, <1>5, <1>6, <1>7, AnswerStep

-----------------------------------------------------------------------------

LEMMA Inductive == Spec => []IInv
<1>1. Init => IInv
  <2> SUFFICES ASSUME Init PROVE IInv
    OBVIOUS
  <2>1. Numbers
    BY DEF Init, Numbers, Unset, Snapshot
  <2>2. Boxes /\ Heads
    BY DEF Init, Boxes, Heads
  <2>3. /\ inbox[Pi] = <<>> /\ tasks[Pi] = <<>> /\ outbox[Pi] = <<>>
        /\ \A p \in PCs : /\ inbox[p] = <<>> /\ tasks[p] = <<>> /\ outbox[p] = <<>>
                          /\ loaded[p] = <<>>
    BY Connections DEF Init
  <2>4. Elems(<<>>) = {}
    BY DEF Elems
  <2>5. \A f \in Measured : data[f] = 0
    BY DEF Init, Unset, Measured, Field
  <2>6. Uploads
    BY <2>3, <2>4, <2>5 DEF Init, Uploads, InOrder
  <2>7. Acks
    BY <2>3, <2>4, <2>5 DEF Init, Acks
  <2>8. Polls
    BY <2>3, <2>4 DEF Polls
  <2> QED
    BY <2>1, <2>2, <2>6, <2>7, <2>8 DEF IInv
<1>2. IInv /\ [Next]_vars => IInv'
  <2> SUFFICES ASSUME IInv, [Next]_vars PROVE IInv'
    OBVIOUS
  <2>1. CASE Measure \/ Upload \/ PiReceive
    BY <2>1, MeasureStep, UploadStep, PiReceiveStep
  <2>2. ASSUME NEW p \in PCs, Poll(p) \/ Press(p) \/ PcReceive(p)
        PROVE  IInv'
    BY <2>2, AskStep, PcReceiveStep
  <2>3. ASSUME NEW c \in Conns, WorkerStep(c)
        PROVE  IInv'
    BY <2>3, RequestStep, StoreStep, StoredStep DEF WorkerStep
  <2>4. ASSUME NEW c \in Conns, TnodeStep(c)
        PROVE  IInv'
    BY <2>4, SendOtherStep, LoadStep, SendDataStep DEF TnodeStep
  <2>5. CASE UNCHANGED vars
    BY <2>5 DEF vars, clientvars, servervars, IInv, Numbers, Boxes, Heads, Uploads, Acks,
                Polls
  <2> QED
    BY <2>1, <2>2, <2>3, <2>4, <2>5 DEF Next
<1> QED
  BY <1>1, <1>2, PTL DEF Spec

(* Every variable keeps its type; and a reply is assembled only for a      *)
(* request that waits for it.                                              *)
THEOREM TypeCorrect == Spec => []TypeOK
<1>1. IInv => TypeOK
  BY TypeParts DEF IInv
<1> QED
  BY <1>1, Inductive, PTL

(* A measurement that was acknowledged to the Pi before a PC sent its poll *)
(* is in the reply, or newer ones are (m_group_node.cpp:252-264,           *)
(* m_server.h:88-110).                                                     *)
THEOREM RepliesAreFresh == Spec => []ReplyIsFresh
<1>1. IInv => ReplyIsFresh
  BY DEF IInv, Polls, Elems, ReplyIsFresh
<1> QED
  BY <1>1, Inductive, PTL

-----------------------------------------------------------------------------
(* That nothing shown goes back.  Along the way from an atomic through the *)
(* values loaded and the replies to what the client has, every value is at *)
(* least as recent as the next one: at any time the atomic has the latest. *)

(* How recent a value is when the presses in ord have been stored, and     *)
(* the values for which that means something.                              *)
Rank(ord, f, v) ==
  IF f = "illu" THEN IF v = 0 THEN 0 ELSE CHOOSE i \in 1 .. Len(ord) : ord[i] = v
  ELSE v
Known(ord, f) == IF f = "illu" THEN {0} \cup Elems(ord) ELSE Nat

(* The fields a client keeps, what it has of one, what has been loaded for *)
(* it, and the replies that bring one.                                     *)
Fields(c) == IF c = Pi THEN {"illu"} ELSE Field
Seen(c, f) == IF c = Pi THEN piillu ELSE shown[c][f]
Half(c) == IF c = Pi THEN <<>> ELSE loaded[c]
Brings(m, f) == f = "illu" \/ m.cmd = "getdata"

(* A value as recent as what the client has seen and as the replies in box.*)
Latest(ord, f, seen, box, v) ==
  /\ v \in Known(ord, f)
  /\ Rank(ord, f, seen) <= Rank(ord, f, v)
  /\ \A i \in 1 .. Len(box) :
       Brings(box[i], f) => Rank(ord, f, box[i].pd[f]) <= Rank(ord, f, v)

Sorted(ord, f, box) ==
  \A i, j \in 1 .. Len(box) : i < j /\ Brings(box[i], f) /\ Brings(box[j], f) =>
    Rank(ord, f, box[i].pd[f]) <= Rank(ord, f, box[j].pd[f])

(* The way of a field from the atomic d to what a client has seen of it.   *)
Stream(ord, f, seen, box, half, d) ==
  /\ seen \in Known(ord, f)
  /\ \A i \in 1 .. Len(box) : Brings(box[i], f) =>
       /\ box[i].pd[f] \in Known(ord, f)
       /\ Rank(ord, f, seen) <= Rank(ord, f, box[i].pd[f])
  /\ Sorted(ord, f, box)
  /\ Latest(ord, f, seen, box, d)
  /\ \A n \in 1 .. Len(half) : LoadOrder[n] = f =>
       Latest(ord, f, seen, box, half[n]) /\ Rank(ord, f, half[n]) <= Rank(ord, f, d)
Streams == \A c \in Conns : \A f \in Fields(c) :
             Stream(order, f, Seen(c, f), outbox[c], Half(c), data[f])

(* Every press is stored once, and has its number for itself.              *)
Distinct(s) == \A i, j \in 1 .. Len(s) : s[i] = s[j] => i = j
Sets(s) == {i \in 1 .. Len(s) : s[i].cmd = "set"}
Presses ==
  /\ Distinct(order) /\ \A v \in Elems(order) : v \in 1 .. pressed
  /\ data["illu"] = IF order = <<>> THEN 0 ELSE order[Len(order)]
  /\ \A c \in Conns : \A i \in Sets(inbox[c]) :
       inbox[c][i].v \in 1 .. pressed /\ inbox[c][i].v \notin Elems(order)
  /\ \A c, d \in Conns : \A i \in Sets(inbox[c]), j \in Sets(inbox[d]) :
       inbox[c][i].v = inbox[d][j].v => c = d /\ i = j

LEMMA RankTypes ==
  ASSUME NEW ord \in Seq(Nat), NEW f, NEW v \in Known(ord, f)
  PROVE  Rank(ord, f, v) \in Nat
<1>1. CASE f = "illu" /\ v # 0
  <2>1. \E i \in 1 .. Len(ord) : ord[i] = v
    BY <1>1 DEF Known, Elems
  <2>2. (CHOOSE i \in 1 .. Len(ord) : ord[i] = v) \in 1 .. Len(ord)
    BY <2>1
  <2> QED
    BY <1>1, <2>2 DEF Rank
<1>2. CASE f # "illu" \/ v = 0
  BY <1>2 DEF Rank, Known
<1> QED
  BY <1>1, <1>2

(* The place of a press among those stored, when they differ. *)
LEMMA RankPlace ==
  ASSUME NEW ord \in Seq(Nat), Distinct(ord), 0 \notin Elems(ord),
         NEW i \in 1 .. Len(ord)
  PROVE  Rank(ord, "illu", ord[i]) = i
<1>1. ord[i] # 0
  BY DEF Elems
<1>2. \A j \in 1 .. Len(ord) : ord[j] = ord[i] => j = i
  BY DEF Distinct
<1>3. (CHOOSE j \in 1 .. Len(ord) : ord[j] = ord[i]) = i
  BY <1>2
<1> QED
  BY <1>1, <1>3 DEF Rank

(* One press more leaves the others where they are, and comes last. *)
LEMMA RankAppend ==
  ASSUME NEW ord \in Seq(Nat), Distinct(ord), 0 \notin Elems(ord),
         NEW e \in Nat, e \notin Elems(ord), e # 0
  PROVE  LET new == Append(ord, e) IN
         /\ Distinct(new)
         /\ \A f, v : v \in Known(ord, f) =>
              v \in Known(new, f) /\ Rank(new, f, v) = Rank(ord, f, v)
         /\ e \in Known(new, "illu")
         /\ \A v \in Known(ord, "illu") : Rank(ord, "illu", v) <= Rank(new, "illu", e)
<1> DEFINE new == Append(ord, e)
<1>1. /\ new \in Seq(Nat) /\ Len(new) = Len(ord) + 1 /\ Len(ord) \in Nat
      /\ \A i \in 1 .. Len(ord) : new[i] = ord[i] /\ ord[i] \in Elems(ord)
      /\ new[Len(ord) + 1] = e
  BY LenProperties, AppendProperties DEF Elems
<1>2. Elems(new) = Elems(ord) \cup {e}
  BY ElemsAppend
<1> HIDE DEF new
<1>3. Distinct(new)
  BY <1>1, SMTT(30) DEF Distinct
<1>4. 0 \notin Elems(new)
  BY <1>2
<1>5. \A i \in 1 .. Len(new) : Rank(new, "illu", new[i]) = i
  BY <1>1, <1>3, <1>4, RankPlace
<1>6. \A i \in 1 .. Len(ord) : Rank(ord, "illu", ord[i]) = i
  BY RankPlace
<1>7. ASSUME NEW v \in Known(ord, "illu")
      PROVE  /\ v \in Known(new, "illu") /\ Rank(new, "illu", v) = Rank(ord, "illu", v)
             /\ Rank(ord, "illu", v) <= Rank(new, "illu", e)
  <2>1. Rank(new, "illu", e) = Len(ord) + 1
    BY <1>1, <1>5
  <2>2. CASE v = 0
    BY <1>1, <2>1, <2>2 DEF Known, Rank
  <2>3. CASE v # 0
    <3>1. PICK i \in 1 .. Len(ord) : v = ord[i]
      BY <1>7, <2>3 DEF Known, Elems
    <3>2. i \in 1 .. Len(new) /\ v = new[i]
      BY <1>1, <3>1
    <3>3. v \in Known(new, "illu")
      BY <3>2 DEF Known, Elems
    <3> QED
      BY <1>1, <1>5, <1>6, <2>1, <3>1, <3>2, <3>3
  <2> QED
    BY <2>2, <2>3
<1>8. \A f, v : f # "illu" /\ v \in Known(ord, f) =>
         v \in Known(new, f) /\ Rank(new, f, v) = Rank(ord, f, v)
  BY DEF Known, Rank
<1>9. \A f, v : v \in Known(ord, f) =>
         v \in Known(new, f) /\ Rank(new, f, v) = Rank(ord, f, v)
  BY <1>7, <1>8
<1>10. e \in Known(new, "illu")
  BY <1>2 DEF Known
<1> QED
  BY <1>3, <1>7, <1>9, <1>10 DEF new

(* Every value on the way is a number, and the atomic has the latest. *)
LEMMA StreamTypes ==
  ASSUME NEW ord \in Seq(Nat), NEW f, NEW seen, NEW box, NEW half, NEW d,
         Stream(ord, f, seen, box, half, d)
  PROVE  /\ Rank(ord, f, seen) \in Nat /\ Rank(ord, f, d) \in Nat
         /\ Rank(ord, f, seen) <= Rank(ord, f, d)
         /\ \A i \in 1 .. Len(box) : Brings(box[i], f) =>
              /\ Rank(ord, f, box[i].pd[f]) \in Nat
              /\ Rank(ord, f, box[i].pd[f]) <= Rank(ord, f, d)
         /\ \A n \in 1 .. Len(half) : LoadOrder[n] = f => Rank(ord, f, half[n]) \in Nat
BY RankTypes DEF Stream, Latest

(* The atomic gets a newer value. *)
LEMMA StreamGrows ==
  ASSUME NEW ord \in Seq(Nat), NEW f, NEW seen, NEW box, NEW half, NEW d,
         Stream(ord, f, seen, box, half, d),
         NEW new \in Seq(Nat),
         \A v \in Known(ord, f) : v \in Known(new, f) /\ Rank(new, f, v) = Rank(ord, f, v),
         NEW e \in Known(new, f), Rank(ord, f, d) <= Rank(new, f, e)
  PROVE  Stream(new, f, seen, box, half, e)
<1>1. Rank(new, f, e) \in Nat
  BY RankTypes
<1>2. /\ seen \in Known(ord, f) /\ d \in Known(ord, f)
      /\ \A i \in 1 .. Len(box) : Brings(box[i], f) => box[i].pd[f] \in Known(ord, f)
      /\ \A n \in 1 .. Len(half) : LoadOrder[n] = f => half[n] \in Known(ord, f)
  BY DEF Stream, Latest
<1>3. Latest(new, f, seen, box, e)
  <2>1. Rank(new, f, seen) = Rank(ord, f, seen) /\ Rank(new, f, seen) <= Rank(new, f, e)
    BY <1>1, <1>2, StreamTypes
  <2>2. ASSUME NEW i \in 1 .. Len(box), Brings(box[i], f)
        PROVE  Rank(new, f, box[i].pd[f]) <= Rank(new, f, e)
    <3>1. Rank(ord, f, box[i].pd[f]) <= Rank(ord, f, d) /\ Rank(ord, f, d) \in Nat
          /\ Rank(ord, f, box[i].pd[f]) \in Nat
      BY <2>2, StreamTypes
    <3>2. Rank(new, f, box[i].pd[f]) = Rank(ord, f, box[i].pd[f])
      BY <1>2, <2>2
    <3> QED
      BY <1>1, <3>1, <3>2
  <2> QED
    BY <2>1, <2>2 DEF Latest
<1>4. Sorted(new, f, box)
  BY <1>2 DEF Stream, Sorted
<1>5. ASSUME NEW n \in 1 .. Len(half), LoadOrder[n] = f
      PROVE  Latest(new, f, seen, box, half[n]) /\ Rank(new, f, half[n]) <= Rank(new, f, e)
  <2>1. /\ Latest(ord, f, seen, box, half[n]) /\ Rank(ord, f, half[n]) <= Rank(ord, f, d)
        /\ Rank(ord, f, half[n]) \in Nat /\ Rank(ord, f, d) \in Nat
    BY <1>5, StreamTypes DEF Stream
  <2>2. Rank(new, f, half[n]) = Rank(ord, f, half[n])
    BY <1>2, <1>5
  <2>3. Latest(new, f, seen, box, half[n])
    BY <1>2, <1>5, <2>1 DEF Latest
  <2> QED
    BY <1>1, <2>1, <2>2, <2>3
<1>6. \A i \in 1 .. Len(box) : Brings(box[i], f) =>
         /\ box[i].pd[f] \in Known(new, f)
         /\ Rank(new, f, seen) <= Rank(new, f, box[i].pd[f])
  BY <1>2 DEF Stream
<1> QED
  BY <1>2, <1>3, <1>4, <1>5, <1>6 DEF Stream

(* The client takes what the first reply brings, or does not, and goes on  *)
(* with the replies after the n-th.                                        *)
Takes(now, seen, box, f) == now = seen \/ (Brings(box[1], f) /\ now = box[1].pd[f])
After(rest, box, n) == Len(rest) = Len(box) - n /\ \A i \in 1 .. Len(rest) : rest[i] = box[n + i]

LEMMA StreamReceive ==
  ASSUME NEW ord \in Seq(Nat), NEW f, NEW seen, NEW box, NEW half, NEW d,
         Stream(ord, f, seen, box, half, d),
         NEW n \in 1 .. Len(box), Len(box) \in Nat,
         NEW now, Takes(now, seen, box, f), NEW rest, After(rest, box, n)
  PROVE  /\ Rank(ord, f, seen) <= Rank(ord, f, now)
         /\ Stream(ord, f, now, rest, half, d)
<1> USE DEF Takes, After
<1>1. /\ now \in Known(ord, f) /\ Rank(ord, f, seen) <= Rank(ord, f, now)
      /\ Rank(ord, f, seen) \in Nat /\ Rank(ord, f, now) \in Nat
  <2>1. now \in Known(ord, f)
    BY DEF Stream
  <2>2. Rank(ord, f, seen) \in Nat /\ Rank(ord, f, now) \in Nat
    BY <2>1, RankTypes DEF Stream
  <2> QED
    BY <2>1, <2>2 DEF Stream
<1>2. \A i \in 1 .. Len(rest) : n + i \in 1 .. Len(box) /\ 1 < n + i
  OBVIOUS
<1>3. \A i \in 1 .. Len(rest) : Brings(rest[i], f) =>
         /\ rest[i].pd[f] \in Known(ord, f)
         /\ Rank(ord, f, now) <= Rank(ord, f, rest[i].pd[f])
  <2> SUFFICES ASSUME NEW i \in 1 .. Len(rest), Brings(rest[i], f)
               PROVE  /\ rest[i].pd[f] \in Known(ord, f)
                      /\ Rank(ord, f, now) <= Rank(ord, f, rest[i].pd[f])
    OBVIOUS
  <2>1. rest[i] = box[n + i] /\ n + i \in 1 .. Len(box)
    BY <1>2
  <2>2. 1 \in 1 .. Len(box)
    OBVIOUS
  <2> QED
    BY <1>2, <2>1, <2>2 DEF Stream, Sorted
<1>4. Sorted(ord, f, rest)
  <2> SUFFICES ASSUME NEW i \in 1 .. Len(rest), NEW j \in 1 .. Len(rest),
                      i < j, Brings(rest[i], f), Brings(rest[j], f)
               PROVE  Rank(ord, f, rest[i].pd[f]) <= Rank(ord, f, rest[j].pd[f])
    BY DEF Sorted
  <2>1. /\ rest[i] = box[n + i] /\ rest[j] = box[n + j] /\ n + i < n + j
        /\ n + i \in 1 .. Len(box) /\ n + j \in 1 .. Len(box)
    BY <1>2
  <2> QED
    BY <2>1 DEF Stream, Sorted
<1>5. ASSUME NEW v, Latest(ord, f, seen, box, v)
      PROVE  Latest(ord, f, now, rest, v)
  <2>1. Rank(ord, f, now) <= Rank(ord, f, v)
    <3>1. 1 \in 1 .. Len(box)
      OBVIOUS
    <3> QED
      BY <1>5, <3>1 DEF Latest
  <2>2. \A i \in 1 .. Len(rest) : Brings(rest[i], f) =>
          Rank(ord, f, rest[i].pd[f]) <= Rank(ord, f, v)
    BY <1>2, <1>5 DEF Latest
  <2> QED
    BY <1>5, <2>1, <2>2 DEF Latest
<1> QED
  BY <1>1, <1>3, <1>4, <1>5 DEF Stream

(* The next field is loaded. *)
LEMMA StreamLoad ==
  ASSUME NEW ord \in Seq(Nat), NEW f, NEW seen, NEW box, NEW half, Len(half) \in Nat, NEW d,
         Stream(ord, f, seen, box, half, d),
         NEW more, Len(more) = Len(half) + 1,
         \A n \in 1 .. Len(half) : more[n] = half[n],
         LoadOrder[Len(more)] = f => more[Len(more)] = d
  PROVE  Stream(ord, f, seen, box, more, d)
<1>1. ASSUME NEW n \in 1 .. Len(more), LoadOrder[n] = f
      PROVE  Latest(ord, f, seen, box, more[n]) /\ Rank(ord, f, more[n]) <= Rank(ord, f, d)
  <2>1. CASE n = Len(more)
    BY <1>1, <2>1, StreamTypes DEF Stream
  <2>2. CASE n # Len(more)
    <3>1. n \in 1 .. Len(half)
      BY <2>2
    <3> QED
      BY <1>1, <3>1 DEF Stream
  <2> QED
    BY <2>1, <2>2
<1> QED
  BY <1>1 DEF Stream

(* A reply is sent. *)
LEMMA StreamAnswer ==
  ASSUME NEW ord \in Seq(Nat), NEW f, NEW seen, NEW box, Len(box) \in Nat, NEW half, NEW d,
         Stream(ord, f, seen, box, half, d),
         NEW m, Brings(m, f) => /\ Latest(ord, f, seen, box, m.pd[f])
                                /\ Rank(ord, f, m.pd[f]) <= Rank(ord, f, d),
         NEW more, Len(more) = Len(box) + 1, more[Len(more)] = m,
         \A n \in 1 .. Len(box) : more[n] = box[n]
  PROVE  Stream(ord, f, seen, more, <<>>, d)
<1>1. \A i \in 1 .. Len(more) : i \in 1 .. Len(box) \/ i = Len(more)
  OBVIOUS
<1>2. \A i \in 1 .. Len(more) : Brings(more[i], f) =>
         /\ more[i].pd[f] \in Known(ord, f)
         /\ Rank(ord, f, seen) <= Rank(ord, f, more[i].pd[f])
         /\ Rank(ord, f, more[i].pd[f]) <= Rank(ord, f, d)
  BY <1>1 DEF Stream, Latest
<1>3. Sorted(ord, f, more)
  <2> SUFFICES ASSUME NEW i \in 1 .. Len(more), NEW j \in 1 .. Len(more),
                      i < j, Brings(more[i], f), Brings(more[j], f)
               PROVE  Rank(ord, f, more[i].pd[f]) <= Rank(ord, f, more[j].pd[f])
    BY DEF Sorted
  <2>1. i \in 1 .. Len(box)
    OBVIOUS
  <2>2. CASE j = Len(more)
    BY <2>1, <2>2 DEF Latest
  <2>3. CASE j \in 1 .. Len(box)
    BY <2>1, <2>3 DEF Stream, Sorted
  <2> QED
    BY <1>1, <2>2, <2>3
<1>4. Latest(ord, f, seen, more, d)
  BY <1>2 DEF Stream, Latest
<1>5. seen \in Known(ord, f) /\ Len(<<>>) = 0
  BY DEF Stream
<1> QED
  BY <1>2, <1>3, <1>4, <1>5 DEF Stream

(* Packets are put behind those in the inboxes or taken from their front,  *)
(* and none of them is a press.                                            *)
LEMMA PressesKept ==
  ASSUME Boxes, Presses, UNCHANGED <<order, pressed>>, data'["illu"] = data["illu"],
         NEW k \in [Conns -> {0, 1}],
         \A c \in Conns : \A i \in Sets(inbox'[c]) :
           i + k[c] \in Sets(inbox[c]) /\ inbox'[c][i].v = inbox[c][i + k[c]].v
  PROVE  Presses'
<1>1. ASSUME NEW c \in Conns, NEW i \in Sets(inbox'[c])
      PROVE  inbox'[c][i].v \in 1 .. pressed /\ inbox'[c][i].v \notin Elems(order)
  BY DEF Presses
<1>2. ASSUME NEW c \in Conns, NEW d \in Conns,
             NEW i \in Sets(inbox'[c]), NEW j \in Sets(inbox'[d]),
             inbox'[c][i].v = inbox'[d][j].v
      PROVE  c = d /\ i = j
  <2>1. c = d /\ i + k[c] = j + k[d]
    BY <1>2 DEF Presses
  <2>2. i \in Int /\ j \in Int /\ k[c] \in Int
    BY DEF Sets
  <2> QED
    BY <2>1, <2>2
<1> QED
  BY <1>1, <1>2 DEF Presses

LEMMA PressesPut ==
  ASSUME Numbers, Boxes, Presses, NEW p \in PCs, Press(p)
  PROVE  Presses'
<1> DEFINE m == [cmd |-> "set", v |-> pressed + 1]
           n == Len(inbox[p]) + 1
<1>1. pressed \in Nat /\ pressed' = pressed + 1 /\ inbox' = Put(inbox, p, m)
      /\ UNCHANGED <<order, data>>
  BY DEF Press, servervars, Numbers
<1>2. p \in Conns /\ inbox \in [Conns -> Seq(Request)] /\ m \in Request
  BY <1>1, Connections DEF Boxes, Request
<1>3. inbox'[p] = Append(inbox[p], m) /\ \A d \in Conns : d # p => inbox'[d] = inbox[d]
  BY <1>1, <1>2 DEF Put
<1>4. /\ Len(inbox[p]) \in Nat /\ Len(inbox'[p]) = n /\ inbox'[p][n] = m
      /\ \A i \in 1 .. Len(inbox[p]) : inbox'[p][i] = inbox[p][i]
  BY <1>2, <1>3
<1>5. \A c \in Conns : \A i \in Sets(inbox'[c]) :
        \/ c = p /\ i = n /\ inbox'[c][i].v = pressed + 1
        \/ /\ i \in Sets(inbox[c]) /\ inbox'[c][i].v = inbox[c][i].v
           /\ inbox[c][i].v \in 1 .. pressed
  <2> SUFFICES ASSUME NEW c \in Conns, NEW i \in Sets(inbox'[c])
      PROVE  \/ c = p /\ i = n /\ inbox'[c][i].v = pressed + 1
             \/ /\ i \in Sets(inbox[c]) /\ inbox'[c][i].v = inbox[c][i].v
                /\ inbox[c][i].v \in 1 .. pressed
    OBVIOUS
  <2>1. CASE c = p /\ i = n
    BY <1>4, <2>1
  <2>2. CASE ~(c = p /\ i = n)
    <3>1. i \in Sets(inbox[c]) /\ inbox'[c][i] = inbox[c][i]
      BY <1>3, <1>4, <2>2 DEF Sets
    <3> QED
      BY <3>1 DEF Presses
  <2> QED
    BY <2>1, <2>2
<1> HIDE DEF m, n
<1>6. Distinct(order) /\ \A v \in Elems(order) : v \in 1 .. pressed
      /\ data["illu"] = IF order = <<>> THEN 0 ELSE order[Len(order)]
  BY DEF Presses
<1>7. \A v \in Elems(order) : v \in 1 .. pressed' /\ v # pressed + 1
  BY <1>1, <1>6
<1>8. \A c \in Conns : \A i \in Sets(inbox'[c]) :
        inbox'[c][i].v \in 1 .. pressed' /\ inbox'[c][i].v \notin Elems(order)
  BY <1>1, <1>5, <1>7 DEF Presses
<1>9. \A c, d \in Conns : \A i \in Sets(inbox'[c]), j \in Sets(inbox'[d]) :
        inbox'[c][i].v = inbox'[d][j].v => c = d /\ i = j
  <2> SUFFICES ASSUME NEW c \in Conns, NEW d \in Conns,
                      NEW i \in Sets(inbox'[c]), NEW j \in Sets(inbox'[d]),
                      inbox'[c][i].v = inbox'[d][j].v
               PROVE  c = d /\ i = j
    OBVIOUS
  <2>1. CASE inbox'[c][i].v = pressed + 1
    <3>1. pressed + 1 \notin 1 .. pressed
      BY <1>1
    <3> QED
      BY <1>5, <2>1, <3>1
  <2>2. CASE inbox'[c][i].v # pressed + 1
    BY <1>5, <2>2 DEF Presses
  <2> QED
    BY <2>1, <2>2
<1> QED
  BY <1>1, <1>6, <1>7, <1>8, <1>9 DEF Presses

(* What is left in the inbox of a connection without its first packet. *)
LEMMA SetsTail ==
  ASSUME NEW s \in Seq(Request), s # <<>>
  PROVE  /\ \A i \in Sets(Tail(s)) : i + 1 \in Sets(s) /\ Tail(s)[i] = s[i + 1]
                                     /\ i + 1 # 1
         /\ Head(s) = s[1] /\ Head(s) \in Request
         /\ Head(s).cmd = "set" => 1 \in Sets(s)
<1>1. /\ Len(s) \in Nat \ {0} /\ Head(s) = s[1] /\ Head(s) \in Request
      /\ Len(Tail(s)) = Len(s) - 1
      /\ \A i \in 1 .. Len(Tail(s)) : Tail(s)[i] = s[i + 1]
  BY EmptySeq, HeadTailProperties
<1> QED
  BY <1>1 DEF Sets

LEMMA PressesSet ==
  ASSUME Numbers, Boxes, Presses, NEW c \in Conns, SetIllu(c)
  PROVE  /\ Presses'
         /\ Head(inbox[c]).v \in Nat \ {0} /\ Head(inbox[c]).v \notin Elems(order)
<1> DEFINE e == Head(inbox[c]).v
<1>1. /\ inbox[c] # <<>> /\ Head(inbox[c]).cmd = "set" /\ inbox' = Rest(inbox, c)
      /\ data' = [data EXCEPT !["illu"] = e] /\ order' = Append(order, e)
      /\ UNCHANGED pressed
  BY DEF SetIllu, clientvars
<1>2. inbox \in [Conns -> Seq(Request)] /\ data \in Snapshot /\ order \in Seq(Nat)
      /\ pressed \in Nat
  BY DEF Boxes, Numbers
<1>3. /\ 1 \in Sets(inbox[c]) /\ e = inbox[c][1].v
      /\ \A i \in Sets(Tail(inbox[c])) :
           /\ i + 1 \in Sets(inbox[c]) /\ Tail(inbox[c])[i] = inbox[c][i + 1]
           /\ i + 1 # 1
  BY <1>1, <1>2, SetsTail
<1>4. e \in 1 .. pressed /\ e \notin Elems(order)
  BY <1>3 DEF Presses
<1>5. inbox'[c] = Tail(inbox[c]) /\ \A d \in Conns : d # c => inbox'[d] = inbox[d]
  BY <1>1, <1>2 DEF Rest
<1> HIDE DEF e
<1>6. e \in Nat \ {0} /\ e \in Nat
  BY <1>2, <1>4
<1>7. Elems(order') = Elems(order) \cup {e}
  BY <1>1, <1>2, <1>6, ElemsAppend
<1>8. 0 \notin Elems(order)
  BY <1>2 DEF Presses
<1>9. Distinct(order')
  BY <1>1, <1>2, <1>4, <1>6, <1>8, RankAppend DEF Presses
<1>10. data'["illu"] = e /\ order' # <<>> /\ order'[Len(order')] = e
  BY <1>1, <1>2, <1>6 DEF Snapshot, Field
<1>11. \A d \in Conns : \A i \in Sets(inbox'[d]) :
         \E j \in Sets(inbox[d]) :
           /\ j = (IF d = c THEN i + 1 ELSE i)
           /\ inbox'[d][i].v = inbox[d][j].v
           /\ ~(d = c /\ j = 1)
  BY <1>3, <1>5
<1>12. \A d \in Conns : \A i \in Sets(inbox'[d]) :
         inbox'[d][i].v \in 1 .. pressed /\ inbox'[d][i].v \notin Elems(order')
  <2> SUFFICES ASSUME NEW d \in Conns, NEW i \in Sets(inbox'[d])
               PROVE  inbox'[d][i].v \in 1 .. pressed /\ inbox'[d][i].v \notin Elems(order')
    OBVIOUS
  <2>1. PICK j \in Sets(inbox[d]) : inbox'[d][i].v = inbox[d][j].v /\ ~(d = c /\ j = 1)
    BY <1>11
  <2>2. inbox[d][j].v \in 1 .. pressed /\ inbox[d][j].v \notin Elems(order)
    BY DEF Presses
  <2>3. inbox[d][j].v # e
    BY <1>3, <2>1 DEF Presses
  <2> QED
    BY <1>7, <2>1, <2>2, <2>3
<1>13. \A a, b \in Conns : \A i \in Sets(inbox'[a]), j \in Sets(inbox'[b]) :
         inbox'[a][i].v = inbox'[b][j].v => a = b /\ i = j
  <2> SUFFICES ASSUME NEW a \in Conns, NEW b \in Conns,
                      NEW i \in Sets(inbox'[a]), NEW j \in Sets(inbox'[b]),
                      inbox'[a][i].v = inbox'[b][j].v
               PROVE  a = b /\ i = j
    OBVIOUS
  <2>1. PICK x \in Sets(inbox[a]) : x = (IF a = c THEN i + 1 ELSE i)
                                    /\ inbox'[a][i].v = inbox[a][x].v
    BY <1>11
  <2>2. PICK y \in Sets(inbox[b]) : y = (IF b = c THEN j + 1 ELSE j)
                                    /\ inbox'[b][j].v = inbox[b][y].v
    BY <1>11
  <2>3. a = b /\ x = y
    <3>1. inbox[a][x].v = inbox[b][y].v
      BY <2>1, <2>2
    <3>2. \A f, g \in Conns : \A m \in Sets(inbox[f]), n \in Sets(inbox[g]) :
            inbox[f][m].v = inbox[g][n].v => f = g /\ m = n
      BY DEF Presses
    <3> QED
      BY <3>1, <3>2
  <2>4. i \in Int /\ j \in Int
    BY DEF Sets
  <2> QED
    BY <2>1, <2>2, <2>3, <2>4
<1>14. \A v \in Elems(order') : v \in 1 .. pressed
  BY <1>4, <1>7 DEF Presses
<1>15. Presses'
  BY <1>1, <1>9, <1>10, <1>12, <1>13, <1>14 DEF Presses
<1> QED
  BY <1>4, <1>6, <1>15 DEF e

LEMMA PressesStep ==
  ASSUME IInv, Presses, Next
  PROVE  Presses'
<1> USE DEF IInv
<1> DEFINE none == [c \in Conns |-> 0]
<1>1. \A c \in Conns : \A i \in Sets(inbox[c]) : i + 0 = i
  BY DEF Sets
<1>2. ASSUME UNCHANGED <<order, pressed, inbox>>, data'["illu"] = data["illu"]
      PROVE  Presses'
  BY <1>2 DEF Presses
<1>3. ASSUME NEW c \in Conns, inbox[c] # <<>>, inbox' = Rest(inbox, c),
             UNCHANGED <<order, pressed, data>>
      PROVE  Presses'
  <2> DEFINE k == [none EXCEPT ![c] = 1]
  <2>1. inbox \in [Conns -> Seq(Request)]
    BY DEF Boxes
  <2>2. inbox'[c] = Tail(inbox[c]) /\ \A d \in Conns : d # c => inbox'[d] = inbox[d]
    BY <1>3, <2>1 DEF Rest
  <2>3. \A i \in Sets(Tail(inbox[c])) :
          i + 1 \in Sets(inbox[c]) /\ Tail(inbox[c])[i] = inbox[c][i + 1]
    BY <1>3, <2>1, SetsTail
  <2>4. /\ k \in [Conns -> {0, 1}] /\ k[c] = 1 /\ \A d \in Conns : d # c => k[d] = 0
    OBVIOUS
  <2> HIDE DEF k
  <2>5. \A d \in Conns : \A i \in Sets(inbox'[d]) :
          i + k[d] \in Sets(inbox[d]) /\ inbox'[d][i].v = inbox[d][i + k[d]].v
    BY <1>1, <2>2, <2>3, <2>4
  <2> QED
    BY <1>3, <2>4, <2>5, PressesKept
<1>4. ASSUME NEW c \in Conns, NEW t \in Seq(Request), \A i \in 1 .. Len(t) : t[i].cmd # "set",
             inbox' = [inbox EXCEPT ![c] = @ \o t], UNCHANGED <<order, pressed, data>>
      PROVE  Presses'
  <2>1. inbox \in [Conns -> Seq(Request)]
    BY DEF Boxes
  <2>2. inbox'[c] = inbox[c] \o t /\ \A d \in Conns : d # c => inbox'[d] = inbox[d]
    BY <1>4, <2>1
  <2>3. /\ Len(inbox[c]) \in Nat /\ Len(t) \in Nat
        /\ Len(inbox[c] \o t) = Len(inbox[c]) + Len(t)
        /\ \A i \in 1 .. Len(inbox[c]) + Len(t) :
             (inbox[c] \o t)[i] = IF i <= Len(inbox[c]) THEN inbox[c][i]
                                                         ELSE t[i - Len(inbox[c])]
    BY <2>1, ConcatProperties, LenProperties
  <2>4. \A d \in Conns : \A i \in Sets(inbox'[d]) :
          i \in Sets(inbox[d]) /\ inbox'[d][i].v = inbox[d][i].v
    <3>1. \A i \in Sets(inbox[c] \o t) :
            i \in Sets(inbox[c]) /\ (inbox[c] \o t)[i] = inbox[c][i]
      <4> SUFFICES ASSUME NEW i \in Sets(inbox[c] \o t)
          PROVE  i \in Sets(inbox[c]) /\ (inbox[c] \o t)[i] = inbox[c][i]
        OBVIOUS
      <4>1. i \in 1 .. Len(inbox[c]) + Len(t) /\ (inbox[c] \o t)[i].cmd = "set"
        BY <2>3 DEF Sets
      <4>2. i <= Len(inbox[c])
        <5>1. ~(i <= Len(inbox[c])) => i - Len(inbox[c]) \in 1 .. Len(t)
          BY <2>3, <4>1
        <5> QED
          BY <1>4, <2>3, <4>1, <5>1
      <4> QED
        BY <2>3, <4>1, <4>2 DEF Sets
    <3> QED
      BY <2>2, <3>1
  <2>5. none \in [Conns -> {0, 1}] /\ \A d \in Conns : none[d] = 0
    OBVIOUS
  <2> HIDE DEF none
  <2>6. \A d \in Conns : \A i \in Sets(inbox'[d]) :
          i + none[d] \in Sets(inbox[d]) /\ inbox'[d][i].v = inbox[d][i + none[d]].v
    BY <1>1, <2>4, <2>5
  <2> QED
    BY <1>4, <2>5, <2>6, PressesKept
<1>5. CASE Upload
  <2> DEFINE t == <<[cmd |-> "data", v |-> measured], [cmd |-> "getillu", v |-> 0]>>
  <2>1. t \in Seq(Request) /\ \A i \in 1 .. Len(t) : t[i].cmd # "set"
    BY DEF Numbers, Request
  <2>2. inbox' = [inbox EXCEPT ![Pi] = @ \o t] /\ UNCHANGED <<order, pressed, data>>
    BY <1>5 DEF Upload, clientvars, servervars
  <2> HIDE DEF t
  <2> QED
    BY <1>4, <2>1, <2>2, Connections
<1>6. ASSUME NEW p \in PCs, Poll(p) PROVE Presses'
  <2> DEFINE t == <<[cmd |-> "getdata", v |-> acked]>>
  <2>1. t \in Seq(Request) /\ \A i \in 1 .. Len(t) : t[i].cmd # "set"
    BY DEF Numbers, Request
  <2>2. inbox' = [inbox EXCEPT ![p] = @ \o t] /\ UNCHANGED <<order, pressed, data>>
    <3>1. inbox' = [inbox EXCEPT ![p] = Append(@, [cmd |-> "getdata", v |-> acked])]
          /\ UNCHANGED <<order, pressed, data>>
      BY <1>6 DEF Poll, Put, clientvars, servervars
    <3>2. inbox \in [Conns -> Seq(Request)] /\ p \in Conns
      BY Connections DEF Boxes
    <3>3. Append(inbox[p], [cmd |-> "getdata", v |-> acked]) = inbox[p] \o t
      BY <3>2 DEF Numbers, Request
    <3> QED
      BY <3>1, <3>2, <3>3
  <2> HIDE DEF t
  <2> QED
    BY <1>4, <2>1, <2>2, Connections
<1>7. CASE Measure \/ PiReceive
  BY <1>2, <1>7 DEF Measure, PiReceive, servervars
<1>8. ASSUME NEW p \in PCs, PcReceive(p) PROVE Presses'
  BY <1>2, <1>8 DEF PcReceive, servervars
<1>9. ASSUME NEW c \in Conns, Ask(c) PROVE Presses'
  BY <1>3, <1>9 DEF Ask, clientvars, servervars
<1>10. CASE Stored
  BY <1>3, <1>10, Connections DEF Stored, clientvars, Heads
<1>11. CASE Store
  <2>1. data'["illu"] = data["illu"]
    BY <1>11 DEF Store, StoreOrder, Numbers, Snapshot, Field
  <2> QED
    BY <1>2, <1>11, <2>1 DEF Store, clientvars
<1>12. ASSUME NEW c \in Conns, TnodeStep(c) PROVE Presses'
  BY <1>2, <1>12 DEF TnodeStep, SendOther, LoadReply, SendData, clientvars, servervars
<1> QED
  BY <1>5, <1>6, <1>7, <1>8, <1>9, <1>10, <1>11, <1>12, PressesPut, PressesSet
  DEF Next, WorkerStep

(* What every client has seen of a field is as recent as before, or newer. *)
Forward == \A c \in Conns : \A f \in Fields(c) :
             Rank(order, f, Seen(c, f)) <= Rank(order, f, Seen(c, f))'

LEMMA FieldTypes ==
  ASSUME Numbers, Boxes, NEW c \in Conns
  PROVE  /\ \A f \in Fields(c) : f \in Field
         /\ outbox[c] \in Seq(Message) /\ Len(outbox[c]) \in Nat
         /\ Half(c) \in Seq(Nat) /\ Len(Half(c)) \in Nat
         /\ c # Pi => c \in PCs
         /\ order \in Seq(Nat)
BY DEF Numbers, Boxes, Fields, Field, Half, Conns

(* Only the atomics change, and the presses stored. *)
LEMMA DataForward ==
  ASSUME Numbers, Boxes, Streams, UNCHANGED <<piillu, shown, outbox, loaded>>,
         order' \in Seq(Nat),
         \A f, v : v \in Known(order, f) =>
           v \in Known(order', f) /\ Rank(order', f, v) = Rank(order, f, v),
         \A f \in Field : /\ data'[f] \in Known(order', f)
                          /\ Rank(order, f, data[f]) <= Rank(order', f, data'[f])
  PROVE  Streams' /\ Forward
<1> SUFFICES ASSUME NEW c \in Conns, NEW f \in Fields(c)
             PROVE  /\ Stream(order', f, Seen(c, f)', outbox'[c], Half(c)', data'[f])
                    /\ Rank(order, f, Seen(c, f)) <= Rank(order', f, Seen(c, f)')
  BY DEF Streams, Forward
<1>1. /\ f \in Field /\ order \in Seq(Nat)
      /\ Seen(c, f)' = Seen(c, f) /\ Half(c)' = Half(c) /\ outbox'[c] = outbox[c]
  BY FieldTypes DEF Seen, Half
<1>2. Stream(order, f, Seen(c, f), outbox[c], Half(c), data[f])
  BY DEF Streams
<1>3. /\ \A v \in Known(order, f) :
           v \in Known(order', f) /\ Rank(order', f, v) = Rank(order, f, v)
      /\ data'[f] \in Known(order', f)
      /\ Rank(order, f, data[f]) <= Rank(order', f, data'[f])
  BY <1>1
<1> DEFINE new == order'
           e == data'[f]
           seen == Seen(c, f)
           half == Half(c)
<1>4. new \in Seq(Nat)
  OBVIOUS
<1>5. Stream(order, f, seen, outbox[c], half, data[f])
  BY <1>2
<1>6. /\ \A v \in Known(order, f) :
           v \in Known(new, f) /\ Rank(new, f, v) = Rank(order, f, v)
      /\ e \in Known(new, f) /\ Rank(order, f, data[f]) <= Rank(new, f, e)
  BY <1>3
<1> HIDE DEF new, e, seen, half
<1>7. Stream(new, f, seen, outbox[c], half, e)
  BY <1>1, <1>4, <1>5, <1>6, StreamGrows
<1>8. seen \in Known(order, f) /\ Rank(order, f, seen) \in Nat
  BY <1>1, <1>5, RankTypes DEF Stream
<1>9. Rank(order, f, seen) <= Rank(new, f, seen)
  BY <1>6, <1>8
<1> QED
  BY <1>1, <1>7, <1>9 DEF new, e, seen, half

LEMMA DataStays ==
  ASSUME Numbers, Boxes, Streams, UNCHANGED <<piillu, shown, outbox, loaded, data, order>>
  PROVE  Streams' /\ Forward
<1>1. /\ order' = order /\ data' = data /\ order \in Seq(Nat)
  BY DEF Numbers
<1>2. ASSUME NEW f \in Field
      PROVE  /\ data'[f] \in Known(order', f)
             /\ Rank(order, f, data[f]) <= Rank(order', f, data'[f])
  <2>1. PICK c \in Conns : c = Pi
    BY Connections
  <2>2. data[f] \in Known(order, f)
    <3>1. CASE f = "illu"
      BY <2>1, <3>1 DEF Streams, Stream, Latest, Fields
    <3>2. CASE f # "illu"
      BY <3>2 DEF Known, Numbers, Snapshot
    <3> QED
      BY <3>1, <3>2
  <2>3. Rank(order, f, data[f]) \in Nat
    BY <1>1, <2>2, RankTypes
  <2> QED
    BY <1>1, <2>2, <2>3
<1> QED
  BY <1>1, <1>2, DataForward

LEMMA StoreForward ==
  ASSUME IInv, Streams, Store
  PROVE  Streams' /\ Forward
<1> DEFINE v == Head(inbox[Pi]).v
           g == StoreOrder[storing + 1]
<1>1. /\ inbox[Pi] # <<>> /\ Head(inbox[Pi]).cmd = "data" /\ storing < 3
      /\ data' = [data EXCEPT ![g] = v]
      /\ UNCHANGED <<piillu, shown, outbox, loaded, order>>
  BY DEF Store, clientvars
<1>2. /\ inbox \in [Conns -> Seq(Request)] /\ storing \in 0 .. 3 /\ data \in Snapshot
      /\ order \in Seq(Nat) /\ Numbers /\ Boxes
  BY DEF IInv, Numbers, Boxes
<1>3. v \in Nat /\ Head(inbox[Pi]) \in Elems(inbox[Pi])
  <2>1. Head(inbox[Pi]) \in Request /\ Head(inbox[Pi]) \in Elems(inbox[Pi])
    BY <1>1, <1>2, Connections, RestBox
  <2> QED
    BY <2>1 DEF Request
<1>4. g \in Measured
  <2>1. storing + 1 \in 1 .. 3
    BY <1>1, <1>2
  <2> QED
    BY <2>1 DEF StoreOrder, Measured
<1>5. \A f \in Measured : data[f] <= v
  BY <1>1, <1>3 DEF IInv, Uploads
<1> HIDE DEF v, g
<1>6. ASSUME NEW f \in Field
      PROVE  /\ data'[f] \in Known(order', f)
             /\ Rank(order, f, data[f]) <= Rank(order', f, data'[f])
  <2>1. CASE f = "illu"
    <3>1. data'[f] = data[f]
      BY <1>1, <1>2, <1>4, <2>1 DEF Snapshot, Measured
    <3>2. data[f] \in Known(order, f)
      BY <2>1, Connections DEF Streams, Stream, Latest, Fields
    <3>3. Rank(order, f, data[f]) \in Nat
      BY <1>2, <3>2, RankTypes
    <3> QED
      BY <1>1, <3>1, <3>2, <3>3
  <2>2. CASE f # "illu"
    <3>1. f \in Measured /\ data[f] \in Nat
      BY <1>2, <2>2 DEF Field, Measured, Snapshot
    <3>2. data'[f] \in Nat /\ data[f] <= data'[f]
      BY <1>1, <1>2, <1>3, <1>5, <3>1 DEF Snapshot
    <3> QED
      BY <2>2, <3>2 DEF Known, Rank
  <2> QED
    BY <2>1, <2>2
<1> QED
  BY <1>1, <1>2, <1>6, DataForward

LEMMA SetForward ==
  ASSUME IInv, Presses, Streams, NEW c \in Conns, SetIllu(c)
  PROVE  Streams' /\ Forward
<1> DEFINE e == Head(inbox[c]).v
<1>1. /\ data' = [data EXCEPT !["illu"] = e] /\ order' = Append(order, e)
      /\ UNCHANGED <<piillu, shown, outbox, loaded>>
  BY DEF SetIllu, clientvars
<1>2. /\ Numbers /\ Boxes /\ order \in Seq(Nat) /\ data \in Snapshot /\ pressed \in Nat
  BY DEF IInv, Numbers
<1>3. e \in Nat \ {0} /\ e \notin Elems(order)
  BY <1>2, PressesSet
<1>4. Distinct(order) /\ 0 \notin Elems(order)
  BY <1>2 DEF Presses
<1> HIDE DEF e
<1>5. /\ order' \in Seq(Nat)
      /\ \A f, v : v \in Known(order, f) =>
           v \in Known(order', f) /\ Rank(order', f, v) = Rank(order, f, v)
      /\ e \in Known(order', "illu")
      /\ \A v \in Known(order, "illu") : Rank(order, "illu", v) <= Rank(order', "illu", e)
  BY <1>1, <1>2, <1>3, <1>4, RankAppend
<1>6. ASSUME NEW f \in Field
      PROVE  /\ data'[f] \in Known(order', f)
             /\ Rank(order, f, data[f]) <= Rank(order', f, data'[f])
  <2>1. CASE f = "illu"
    <3>1. data'[f] = e
      BY <1>1, <1>2, <2>1 DEF Snapshot
    <3>2. data[f] \in Known(order, f)
      BY <2>1, Connections DEF Streams, Stream, Latest, Fields
    <3> QED
      BY <1>5, <2>1, <3>1, <3>2
  <2>2. CASE f # "illu"
    <3>1. data'[f] = data[f] /\ data[f] \in Nat
      BY <1>1, <1>2, <2>2 DEF Snapshot
    <3> QED
      BY <2>2, <3>1 DEF Known, Rank
  <2> QED
    BY <2>1, <2>2
<1> QED
  BY <1>1, <1>2, <1>5, <1>6, DataForward

(* A client receives: what it then has of a field came with the first of   *)
(* the replies that leave its box, or it has it still.                     *)
LEMMA ReceiveForward ==
  ASSUME IInv, Streams, NEW c \in Conns, outbox[c] # <<>>,
         NEW n \in 1 .. Len(outbox[c]),
         outbox' = [outbox EXCEPT ![c] = SubSeq(@, n + 1, Len(@))],
         UNCHANGED <<loaded, data, order>>,
         \A d \in Conns : d # c => \A f \in Fields(d) : Seen(d, f)' = Seen(d, f),
         \A f \in Fields(c) :
           \/ Seen(c, f)' = Seen(c, f)
           \/ Brings(Head(outbox[c]), f) /\ Seen(c, f)' = Head(outbox[c]).pd[f]
  PROVE  Streams' /\ Forward
<1>1. /\ order \in Seq(Nat) /\ outbox \in [Conns -> Seq(Message)]
      /\ Numbers /\ Boxes
  BY DEF IInv, Numbers, Boxes
<1> SUFFICES ASSUME NEW d \in Conns, NEW f \in Fields(d)
             PROVE  /\ Stream(order, f, Seen(d, f)', outbox'[d], Half(d)', data[f])
                    /\ Rank(order, f, Seen(d, f)) <= Rank(order, f, Seen(d, f)')
  BY DEF Streams, Forward
<1>2. Stream(order, f, Seen(d, f), outbox[d], Half(d), data[f])
  BY DEF Streams
<1>3. Half(d)' = Half(d)
  BY DEF Half
<1>4. CASE d # c
  <2>1. outbox'[d] = outbox[d] /\ Seen(d, f)' = Seen(d, f)
    BY <1>1, <1>4
  <2>2. Rank(order, f, Seen(d, f)) \in Nat
    BY <1>1, <1>2, StreamTypes
  <2> QED
    BY <1>2, <1>3, <2>1, <2>2
<1>5. CASE d = c
  <2> DEFINE box == outbox[c]
             rest == SubSeq(box, n + 1, Len(box))
             seen == Seen(c, f)
             now == Seen(c, f)'
             half == Half(c)
             e == data[f]
  <2>1. box \in Seq(Message) /\ outbox'[c] = rest
    BY <1>1
  <2>2. /\ n \in Nat \ {0} /\ n <= Len(box) /\ Len(box) \in Nat
        /\ Head(box) = box[1] /\ \A i \in 1 .. Len(box) : box[i] \in Message
    BY <2>1, EmptySeq, LenProperties, ElementOfSeq
  <2>3. After(rest, box, n)
    <3>1. n + 1 \in Int /\ Len(box) \in Int /\ \A i \in n + 1 .. Len(box) : box[i] \in Message
      BY <2>2
    <3> HIDE DEF box
    <3>2. /\ Len(rest) = IF n + 1 <= Len(box) THEN Len(box) - (n + 1) + 1 ELSE 0
          /\ \A i \in 1 .. Len(box) - (n + 1) + 1 : rest[i] = box[n + 1 + i - 1]
      BY <3>1, SubSeqProperties
    <3>3. Len(rest) = Len(box) - n
      BY <2>2, <3>2
    <3>4. ASSUME NEW i \in 1 .. Len(rest) PROVE rest[i] = box[n + i]
      <4>1. i \in 1 .. Len(box) - (n + 1) + 1 /\ n + 1 + i - 1 = n + i
        BY <2>2, <3>3
      <4> HIDE DEF rest
      <4> QED
        BY <3>2, <4>1
    <3> QED
      BY <3>3, <3>4 DEF After
  <2>4. Takes(now, seen, box, f)
    <3>1. f \in Fields(c)
      BY <1>5
    <3>2. \/ Seen(c, f)' = Seen(c, f)
          \/ Brings(Head(outbox[c]), f) /\ Seen(c, f)' = Head(outbox[c]).pd[f]
      BY <3>1, Zenon
    <3> HIDE DEF now, seen
    <3>3. now = seen \/ (Brings(Head(box), f) /\ now = Head(box).pd[f])
      BY <3>2, Zenon DEF now, seen
    <3>4. Head(box) = box[1]
      BY <2>2
    <3> QED
      BY <3>3, <3>4, Zenon DEF Takes
  <2>5. Stream(order, f, seen, box, half, e)
    BY <1>2, <1>5
  <2>6. order \in Seq(Nat) /\ n \in 1 .. Len(box) /\ Len(box) \in Nat
    BY <1>1, <2>2
  <2> HIDE DEF box, rest, seen, now, half, e
  <2>7. Rank(order, f, seen) <= Rank(order, f, now) /\ Stream(order, f, now, rest, half, e)
    BY <2>3, <2>4, <2>5, <2>6, StreamReceive
  <2> QED
    BY <1>3, <1>5, <2>1, <2>7 DEF seen, now, half, e
<1> QED
  BY <1>4, <1>5

LEMMA PiReceiveForward ==
  ASSUME IInv, Streams, PiReceive
  PROVE  Streams' /\ Forward
<1>1. /\ outbox[Pi] # <<>> /\ outbox' = Rest(outbox, Pi)
      /\ piillu' = IF Head(outbox[Pi]).cmd = "getillu"
                   THEN Head(outbox[Pi]).pd["illu"] ELSE piillu
      /\ UNCHANGED <<shown, loaded, data, order>>
  BY DEF PiReceive, servervars
<1>2. outbox[Pi] \in Seq(Message) /\ Pi \in Conns
  BY Connections DEF IInv, Boxes
<1>3. 1 \in 1 .. Len(outbox[Pi]) /\ Tail(outbox[Pi]) = SubSeq(outbox[Pi], 1 + 1, Len(outbox[Pi]))
  BY <1>1, <1>2
<1>4. outbox' = [outbox EXCEPT ![Pi] = SubSeq(@, 1 + 1, Len(@))]
  BY <1>1, <1>3 DEF Rest
<1>5. \A d \in Conns : d # Pi => \A f \in Fields(d) : Seen(d, f)' = Seen(d, f)
  BY <1>1 DEF Seen
<1>6. \A f \in Fields(Pi) :
        \/ Seen(Pi, f)' = Seen(Pi, f)
        \/ Brings(Head(outbox[Pi]), f) /\ Seen(Pi, f)' = Head(outbox[Pi]).pd[f]
  BY <1>1 DEF Seen, Fields, Brings
<1> QED
  BY <1>1, <1>2, <1>3, <1>4, <1>5, <1>6, ReceiveForward

LEMMA PcReceiveForward ==
  ASSUME IInv, Streams, NEW p \in PCs, PcReceive(p)
  PROVE  Streams' /\ Forward
<1>1. /\ outbox[p] # <<>> /\ Show(p, Head(outbox[p]))
      /\ UNCHANGED <<piillu, loaded, data, order>>
  BY DEF PcReceive, servervars
<1>2. PICK n \in 1 .. Len(outbox[p]) :
        outbox' = [outbox EXCEPT ![p] = SubSeq(@, n + 1, Len(@))]
  BY DEF PcReceive
<1>3. p \in Conns /\ p # Pi /\ shown \in [PCs -> Snapshot]
      /\ \A d \in Conns : d # Pi => d \in PCs
  BY Connections DEF IInv, Numbers, Conns
<1>4. \A q \in PCs : q # p => shown'[q] = shown[q]
  BY <1>1, <1>3 DEF Show
<1>5. \A d \in Conns : d # p => \A f \in Fields(d) : Seen(d, f)' = Seen(d, f)
  BY <1>1, <1>3, <1>4 DEF Seen
<1>6. \A f \in Fields(p) :
        \/ Seen(p, f)' = Seen(p, f)
        \/ Brings(Head(outbox[p]), f) /\ Seen(p, f)' = Head(outbox[p]).pd[f]
  <2> SUFFICES ASSUME NEW f \in Field
      PROVE  \/ shown'[p][f] = shown[p][f]
             \/ Brings(Head(outbox[p]), f) /\ shown'[p][f] = Head(outbox[p]).pd[f]
    BY <1>3 DEF Seen, Fields
  <2>1. CASE Head(outbox[p]).cmd = "getdata"
    BY <1>1, <1>3, <2>1 DEF Show, Brings
  <2>2. CASE Head(outbox[p]).cmd # "getdata"
    <3>1. shown'[p] = [shown[p] EXCEPT !["illu"] = Head(outbox[p]).pd["illu"]]
      BY <1>1, <1>3, <2>2 DEF Show
    <3>2. shown[p] \in [Field -> Nat]
      BY <1>3 DEF Snapshot
    <3> QED
      BY <3>1, <3>2 DEF Brings
  <2> QED
    BY <2>1, <2>2
<1> QED
  BY <1>1, <1>2, <1>3, <1>5, <1>6, ReceiveForward

LEMMA LoadForward ==
  ASSUME IInv, Streams, NEW p \in PCs, LoadReply(p)
  PROVE  Streams' /\ Forward
<1> DEFINE k == Len(loaded[p]) + 1
           more == Append(loaded[p], data[LoadOrder[k]])
<1>1. /\ loaded' = [loaded EXCEPT ![p] = more] /\ Len(loaded[p]) < 4
      /\ UNCHANGED <<piillu, shown, outbox, data, order>>
  BY DEF LoadReply, clientvars
<1>2. /\ order \in Seq(Nat) /\ loaded \in [PCs -> Seq(Nat)] /\ data \in [Field -> Nat]
      /\ Numbers /\ Boxes
  BY DEF IInv, Numbers, Snapshot
<1> SUFFICES ASSUME NEW c \in Conns, NEW f \in Fields(c)
             PROVE  /\ Stream(order, f, Seen(c, f), outbox[c], Half(c)', data[f])
                    /\ Rank(order, f, Seen(c, f)) <= Rank(order, f, Seen(c, f))
  BY <1>1 DEF Streams, Forward, Seen
<1>3. Stream(order, f, Seen(c, f), outbox[c], Half(c), data[f])
  BY DEF Streams
<1>4. Rank(order, f, Seen(c, f)) \in Nat
  BY <1>2, <1>3, StreamTypes
<1>5. CASE c # p
  <2>1. Half(c)' = Half(c)
    BY <1>1, <1>2, <1>5 DEF Half, Conns
  <2> QED
    BY <1>3, <1>4, <2>1
<1>6. CASE c = p
  <2> DEFINE half == loaded[p]
             d == data[f]
             seen == Seen(c, f)
  <2>1. Half(c)' = more /\ Half(c) = half
    BY <1>1, <1>2, <1>6, Connections DEF Half
  <2>2. k \in 1 .. 4 /\ data[LoadOrder[k]] \in Nat /\ half \in Seq(Nat)
    <3>1. k \in 1 .. 4
      BY <1>1, <1>2
    <3>2. LoadOrder[k] \in Field
      BY <3>1 DEF LoadOrder, Field
    <3> QED
      BY <1>2, <3>1, <3>2
  <2>3. /\ Len(half) \in Nat /\ Len(more) = Len(half) + 1 /\ more[k] = data[LoadOrder[k]]
        /\ \A n \in 1 .. Len(half) : more[n] = half[n]
    BY <2>2
  <2>4. LoadOrder[Len(more)] = f => more[Len(more)] = d
    BY <2>3
  <2>5. Stream(order, f, seen, outbox[c], half, d)
    BY <1>3, <2>1
  <2> HIDE DEF half, more, d, seen, k
  <2>6. Stream(order, f, seen, outbox[c], more, d)
    BY <1>2, <2>3, <2>4, <2>5, StreamLoad
  <2> QED
    BY <1>4, <2>1, <2>6 DEF seen, d
<1> QED
  BY <1>5, <1>6

LEMMA AnswerForward ==
  ASSUME IInv, Streams, NEW c \in Conns, NEW m \in Message,
         outbox' = Put(outbox, c, m), UNCHANGED <<piillu, shown, data, order>>,
         Half(c)' = <<>>, \A d \in Conns : d # c => Half(d)' = Half(d),
         \A f \in Fields(c) : Brings(m, f) =>
           /\ Latest(order, f, Seen(c, f), outbox[c], m.pd[f])
           /\ Rank(order, f, m.pd[f]) <= Rank(order, f, data[f])
  PROVE  Streams' /\ Forward
<1>1. /\ order \in Seq(Nat) /\ outbox \in [Conns -> Seq(Message)]
      /\ Numbers /\ Boxes
  BY DEF IInv, Numbers, Boxes
<1> SUFFICES ASSUME NEW d \in Conns, NEW f \in Fields(d)
             PROVE  /\ Stream(order, f, Seen(d, f), outbox'[d], Half(d)', data[f])
                    /\ Rank(order, f, Seen(d, f)) <= Rank(order, f, Seen(d, f))
  BY DEF Streams, Forward, Seen
<1>2. Stream(order, f, Seen(d, f), outbox[d], Half(d), data[f])
  BY DEF Streams
<1>3. Rank(order, f, Seen(d, f)) \in Nat
  BY <1>1, <1>2, StreamTypes
<1>4. CASE d # c
  <2>1. outbox'[d] = outbox[d] /\ Half(d)' = Half(d)
    BY <1>1, <1>4 DEF Put
  <2> QED
    BY <1>2, <1>3, <2>1
<1>5. CASE d = c
  <2> DEFINE box == outbox[c]
             more == Append(box, m)
             seen == Seen(c, f)
             half == Half(c)
             e == data[f]
  <2>1. outbox'[c] = more /\ box \in Seq(Message)
    BY <1>1 DEF Put
  <2>2. /\ Len(box) \in Nat /\ Len(more) = Len(box) + 1 /\ more[Len(more)] = m
        /\ \A n \in 1 .. Len(box) : more[n] = box[n]
    BY <2>1
  <2>3. Brings(m, f) => /\ Latest(order, f, seen, box, m.pd[f])
                        /\ Rank(order, f, m.pd[f]) <= Rank(order, f, e)
    BY <1>5
  <2>4. Stream(order, f, seen, box, half, e)
    BY <1>2, <1>5
  <2> HIDE DEF box, more, seen, half, e
  <2>5. Stream(order, f, seen, more, <<>>, e)
    BY <1>1, <2>2, <2>3, <2>4, StreamAnswer
  <2> QED
    BY <1>3, <1>5, <2>1, <2>5 DEF seen, e
<1> QED
  BY <1>4, <1>5

LEMMA SendDataForward ==
  ASSUME IInv, Streams, NEW p \in PCs, SendData(p)
  PROVE  Streams' /\ Forward
<1> DEFINE h == Head(tasks[p])
           m == [cmd |-> h.cmd, v |-> h.v, pd |-> Loaded(p)]
<1>1. /\ tasks[p] # <<>> /\ Len(loaded[p]) = 4 /\ outbox' = Put(outbox, p, m)
      /\ loaded' = [loaded EXCEPT ![p] = <<>>]
      /\ UNCHANGED <<piillu, shown, data, order>>
  BY DEF SendData, Reply, clientvars
<1>2. p \in Conns /\ p # Pi /\ loaded \in [PCs -> Seq(Nat)]
      /\ tasks \in [Conns -> Seq(Request)]
  BY Connections DEF IInv, Numbers, Boxes
<1>3. Half(p) = loaded[p] /\ Half(p)' = <<>> /\ \A d \in Conns : d # p => Half(d)' = Half(d)
  BY <1>1, <1>2 DEF Half, Conns
<1>4. \A f \in Field : \E n \in 1 .. 4 : LoadOrder[n] = f /\ Loaded(p)[f] = loaded[p][n]
  BY DEF Field, LoadOrder, Loaded
<1>5. \A f \in Fields(p) : /\ Latest(order, f, Seen(p, f), outbox[p], m.pd[f])
                           /\ Rank(order, f, m.pd[f]) <= Rank(order, f, data[f])
  <2> SUFFICES ASSUME NEW f \in Fields(p)
               PROVE  /\ Latest(order, f, Seen(p, f), outbox[p], m.pd[f])
                      /\ Rank(order, f, m.pd[f]) <= Rank(order, f, data[f])
    OBVIOUS
  <2>1. PICK n \in 1 .. 4 : LoadOrder[n] = f /\ Loaded(p)[f] = loaded[p][n]
    BY <1>2, <1>4, FieldTypes DEF IInv
  <2>2. Stream(order, f, Seen(p, f), outbox[p], Half(p), data[f])
    BY <1>2 DEF Streams
  <2> QED
    BY <1>1, <1>3, <2>1, <2>2 DEF Stream
<1>6. m \in Message
  <2>1. h \in Request
    BY <1>1, <1>2, RestBox
  <2>2. \A n \in 1 .. 4 : loaded[p][n] \in Nat
    BY <1>1, <1>2, ElementOfSeq
  <2>3. \A f \in Field : Loaded(p)[f] \in Nat
    BY <1>4, <2>2
  <2>4. Loaded(p) \in Snapshot
    <3>1. Loaded(p) = [f \in Field |-> Loaded(p)[f]]
      BY DEF Loaded, Field
    <3> QED
      BY <2>3, <3>1 DEF Snapshot
  <2> QED
    BY <2>1, <2>4 DEF Message, Request
<1> HIDE DEF m
<1> QED
  BY <1>1, <1>2, <1>3, <1>5, <1>6, AnswerForward

LEMMA SendOtherForward ==
  ASSUME IInv, Streams, NEW c \in Conns, SendOther(c)
  PROVE  Streams' /\ Forward
<1> DEFINE h == Head(tasks[c])
           pd == [Unset EXCEPT !["illu"] = data["illu"]]
           m == [cmd |-> h.cmd, v |-> h.v, pd |-> pd]
<1>1. /\ tasks[c] # <<>> /\ h.cmd # "getdata" /\ outbox' = Put(outbox, c, m)
      /\ UNCHANGED <<piillu, shown, loaded, data, order>>
  BY DEF SendOther, Reply, clientvars, servervars
<1>2. /\ tasks \in [Conns -> Seq(Request)] /\ data \in [Field -> Nat]
      /\ order \in Seq(Nat)
  BY DEF IInv, Numbers, Boxes, Snapshot
<1>3. Half(c)' = <<>> /\ \A d \in Conns : d # c => Half(d)' = Half(d)
  <2>1. c # Pi => loaded[c] = <<>>
    BY <1>1 DEF IInv, Heads, Conns
  <2> QED
    BY <1>1, <2>1 DEF Half
<1>4. pd \in Snapshot /\ pd["illu"] = data["illu"]
  BY <1>2 DEF Unset, Snapshot, Field
<1>5. h \in Request
  BY <1>1, <1>2, RestBox
<1> HIDE DEF h, pd
<1>6. m \in Message /\ m.cmd = h.cmd /\ m.pd = pd
  BY <1>4, <1>5 DEF Message, Request
<1> HIDE DEF m
<1>7. \A f \in Fields(c) : Brings(m, f) =>
        /\ Latest(order, f, Seen(c, f), outbox[c], m.pd[f])
        /\ Rank(order, f, m.pd[f]) <= Rank(order, f, data[f])
  <2> SUFFICES ASSUME NEW f \in Fields(c), f = "illu"
               PROVE  /\ Latest(order, f, Seen(c, f), outbox[c], data[f])
                      /\ Rank(order, f, data[f]) <= Rank(order, f, data[f])
    BY <1>1, <1>4, <1>6 DEF Brings
  <2>1. Stream(order, f, Seen(c, f), outbox[c], Half(c), data[f])
    BY DEF Streams
  <2>2. Rank(order, f, data[f]) \in Nat
    BY <1>2, <2>1, StreamTypes
  <2> QED
    BY <2>1, <2>2 DEF Stream
<1> QED
  BY <1>1, <1>3, <1>6, <1>7, AnswerForward

LEMMA StreamsStep ==
  ASSUME IInv, Presses, Streams, [Next]_vars
  PROVE  Streams' /\ Forward
<1>1. Numbers /\ Boxes
  BY DEF IInv
<1>2. CASE UNCHANGED vars
  BY <1>1, <1>2, DataStays DEF vars, clientvars, servervars
<1>3. CASE Measure \/ Upload
  BY <1>1, <1>3, DataStays DEF Measure, Upload, clientvars, servervars
<1>4. ASSUME NEW p \in PCs, Poll(p) \/ Press(p) \/ PcReceive(p)
      PROVE  Streams' /\ Forward
  <2>1. CASE Poll(p) \/ Press(p)
    BY <1>1, <2>1, DataStays DEF Poll, Press, clientvars, servervars
  <2>2. CASE PcReceive(p)
    BY <2>2, PcReceiveForward
  <2> QED
    BY <1>4, <2>1, <2>2
<1>5. ASSUME NEW c \in Conns, WorkerStep(c)
      PROVE  Streams' /\ Forward
  <2>1. CASE Ask(c) \/ Stored
    BY <1>1, <2>1, DataStays DEF Ask, Stored, clientvars, servervars
  <2>2. CASE SetIllu(c)
    BY <2>2, SetForward
  <2>3. CASE Store
    BY <2>3, StoreForward
  <2> QED
    BY <1>5, <2>1, <2>2, <2>3 DEF WorkerStep
<1>6. ASSUME NEW c \in Conns, TnodeStep(c)
      PROVE  Streams' /\ Forward
  BY <1>6, SendOtherForward, LoadForward, SendDataForward DEF TnodeStep
<1>7. CASE PiReceive
  BY <1>7, PiReceiveForward
<1> QED
  BY <1>2, <1>3, <1>4, <1>5, <1>6, <1>7 DEF Next

LEMMA StreamsInit == Init => Presses /\ Streams
<1> SUFFICES ASSUME Init PROVE Presses /\ Streams
  OBVIOUS
<1>1. /\ \A f \in Field : data[f] = 0
      /\ order = <<>> /\ piillu = 0 /\ \A p \in PCs : \A f \in Field : shown[p][f] = 0
      /\ \A c \in Conns : inbox[c] = <<>> /\ outbox[c] = <<>>
      /\ \A p \in PCs : loaded[p] = <<>>
  BY DEF Init, Unset
<1>2. Len(<<>>) = 0 /\ Elems(<<>>) = {} /\ Sets(<<>>) = {}
  BY DEF Elems, Sets
<1>3. Presses
  BY <1>1, <1>2 DEF Presses, Distinct, Field
<1>4. ASSUME NEW c \in Conns, NEW f \in Fields(c)
      PROVE  Stream(order, f, Seen(c, f), outbox[c], Half(c), data[f])
  <2>1. f \in Field /\ (c # Pi => c \in PCs)
    BY DEF Fields, Field, Conns
  <2>2. /\ Seen(c, f) = 0 /\ outbox[c] = <<>> /\ Half(c) = <<>> /\ data[f] = 0
    BY <1>1, <2>1 DEF Seen, Half
  <2>3. 0 \in Known(order, f) /\ Rank(order, f, 0) = 0
    BY DEF Known, Rank
  <2> QED
    BY <1>1, <1>2, <2>2, <2>3 DEF Stream, Latest, Sorted
<1> QED
  BY <1>3, <1>4 DEF Streams

(* What a PC shows never goes back to an older value, whatever the order   *)
(* of replies of two kinds, of stores by other connections and of packets  *)
(* the display skips (m_group_node.cpp:283-310, pi_net.cpp:112-155); nor   *)
(* does the illumination the Pi works with.                                *)
THEOREM ShownGoesForward == Spec => NeverGoesBack
<1> DEFINE Inv == IInv /\ Presses /\ Streams
<1>1. Spec => []Inv
  <2>1. Init => Presses /\ Streams
    BY StreamsInit
  <2>2. IInv /\ Presses /\ Streams /\ [Next]_vars => (Presses /\ Streams)'
    <3> SUFFICES ASSUME IInv, Presses, Streams, [Next]_vars
                 PROVE  Presses' /\ Streams'
      OBVIOUS
    <3>1. CASE UNCHANGED vars
      BY <3>1, StreamsStep DEF vars, clientvars, servervars, Presses
    <3> QED
      BY <3>1, PressesStep, StreamsStep
  <2> QED
    BY <2>1, <2>2, Inductive, PTL DEF Spec
<1>2. Inv /\ [Next]_vars =>
        [/\ \A p \in PCs : /\ \A f \in Measured : shown[p][f] <= shown'[p][f]
                           /\ Pos(shown[p]["illu"]) <= Pos(shown[p]["illu"])'
         /\ Pos(piillu) <= Pos(piillu)']_vars
  <2> SUFFICES ASSUME Inv, [Next]_vars
      PROVE  /\ \A p \in PCs : /\ \A f \in Measured : shown[p][f] <= shown'[p][f]
                               /\ Pos(shown[p]["illu"]) <= Pos(shown[p]["illu"])'
             /\ Pos(piillu) <= Pos(piillu)'
    OBVIOUS
  <2>1. Forward
    BY StreamsStep
  <2>2. ASSUME NEW p \in PCs, NEW f \in Measured
        PROVE  shown[p][f] <= shown'[p][f]
    <3>1. p \in Conns /\ p # Pi /\ f \in Fields(p) /\ f # "illu"
      BY Connections DEF Fields, Field, Measured
    <3> QED
      BY <2>1, <3>1 DEF Forward, Seen, Rank
  <2>3. ASSUME NEW p \in PCs
        PROVE  Pos(shown[p]["illu"]) <= Pos(shown[p]["illu"])'
    <3>1. p \in Conns /\ p # Pi /\ "illu" \in Fields(p)
      BY Connections DEF Fields, Field
    <3>2. Rank(order, "illu", shown[p]["illu"]) <= Rank(order', "illu", shown'[p]["illu"])
      BY <2>1, <3>1 DEF Forward, Seen
    <3> QED
      BY <3>2 DEF Rank, Pos
  <2>4. Pos(piillu) <= Pos(piillu)'
    <3>1. Pi \in Conns /\ "illu" \in Fields(Pi)
      BY Connections DEF Fields
    <3>2. Rank(order, "illu", piillu) <= Rank(order', "illu", piillu')
      BY <2>1, <3>1 DEF Forward, Seen
    <3> QED
      BY <3>2 DEF Rank, Pos
  <2> QED
    BY <2>2, <2>3, <2>4
<1> QED
  BY <1>1, <1>2, PTL DEF Spec, NeverGoesBack
==============================================================================
