--------------------------- MODULE Clients_proofs ---------------------------
(***************************************************************************)
(* Proofs about the two clients, for every bound of their models: the      *)
(* invariants that MCPcClient and MCPiClient check.                        *)
(*                                                                         *)
(* The window on the PC: readings only grow older on their way from the    *)
(* server to the chart (Chain), in whatever pieces they arrive, and the    *)
(* socket goes only after the label says so (CutFirst).                    *)
(*                                                                         *)
(* The program on the Pi: PiInv relates where the main thread is to what   *)
(* the nodes do.  The main thread comes past the close of a node when its  *)
(* thread is done, or when its flag was reset by the thread itself, which  *)
(* is about to end the process then; that second case needs a receive node *)
(* that has learned that there is no connection (late).                    *)
(***************************************************************************)
EXTENDS PiClient, PcClient, SequenceTheorems, TLAPS

-----------------------------------------------------------------------------
(* Sequences.                                                              *)

(* What Keep leaves of points to which one was added: all of them, or all  *)
(* but the first.                                                          *)
AddedFrom(k, s, x, d) ==
  \A i \in 1 .. Len(k) : /\ i + d \in 1 .. Len(s) + 1
                         /\ k[i] = IF i + d = Len(s) + 1 THEN x ELSE s[i + d]

LEMMA KeptPoints ==
  ASSUME NEW S, NEW s \in Seq(S), NEW x \in S, Len(s) <= MaxPoints
  PROVE  /\ Keep(Append(s, x)) \in Seq(S)
         /\ Len(Keep(Append(s, x))) <= MaxPoints
         /\ \E d \in {0, 1} : AddedFrom(Keep(Append(s, x)), s, x, d)
<1> DEFINE a == Append(s, x)
<1>1. /\ Len(s) \in Nat /\ MaxPoints \in Nat \ {0}
      /\ a \in Seq(S) /\ Len(a) = Len(s) + 1
      /\ \A i \in 1 .. Len(s) : a[i] = s[i]
      /\ a[Len(s) + 1] = x
  BY PcAssumption, LenProperties, AppendProperties
<1>2. a # <<>>
  BY <1>1, EmptySeq
<1>3. /\ Tail(a) \in Seq(S) /\ Len(Tail(a)) = Len(a) - 1
      /\ \A i \in 1 .. Len(Tail(a)) : Tail(a)[i] = a[i + 1]
  BY <1>1, <1>2, HeadTailProperties
<1> HIDE DEF a
<1>4. CASE Len(a) > MaxPoints
  <2>1. Keep(a) = Tail(a)
    BY <1>4 DEF Keep
  <2>2. AddedFrom(Tail(a), s, x, 1)
    BY <1>1, <1>3 DEF AddedFrom
  <2>3. QED
    BY <1>1, <1>3, <2>1, <2>2 DEF a
<1>5. CASE ~(Len(a) > MaxPoints)
  <2>1. Keep(a) = a
    BY <1>5 DEF Keep
  <2>2. AddedFrom(a, s, x, 0)
    BY <1>1 DEF AddedFrom
  <2>3. QED
    BY <1>1, <1>5, <2>1, <2>2 DEF a
<1>6. QED
  BY <1>4, <1>5

-----------------------------------------------------------------------------
(* PcClient: types.                                                        *)

Point == Value \cup {Garbage}
Request == [cmd : {"get-data", "set-illu"}, illu : Value]
Reply == [cmd : {"data", "illu"}, reading : Value, illu : Value, whole : {FALSE}]
Packet == [cmd : {"nothing", "middle", "data", "illu"}, reading : Value,
           illu : Value, whole : BOOLEAN]

(* With what the types alone do not say: the chart has room for its        *)
(* points, and half a reply is of one that has not arrived.                *)
PcTypes == PcTypeOK /\ Len(chart) <= MaxPoints /\ (half => replies # <<>>)

(* The readings are numbers, and a reply may be an unread packet. *)
LEMMA Values == /\ 0 \in Value /\ Value \subseteq Int /\ Garbage \notin Value
                /\ Reply \subseteq Packet /\ Nothing \in Packet /\ Middle \in Packet
                /\ Nothing.cmd = "nothing" /\ Middle.cmd = "middle"
<1>1. 0 \in Value /\ Value \subseteq Int /\ Garbage \notin Value
  BY PcAssumption DEF Value, Garbage
<1>2. QED
  BY <1>1 DEF Reply, Packet, Nothing, Middle

(* The start.                                                              *)
LEMMA PcTypesInit == PcInit => PcTypes
<1> SUFFICES ASSUME PcInit PROVE PcTypes
  OBVIOUS
<1>1. /\ chart \in Seq(Point) /\ Len(chart) = 0
      /\ requests \in Seq(Request) /\ replies \in Seq(Reply)
  BY DEF PcInit
<1>2. /\ 0 <= MaxPoints /\ presses \in 0 .. MaxPresses
      /\ server \in [reading : Value, illu : Value] /\ unread \in Packet
  BY PcAssumption, Values DEF PcInit
<1>3. shown \in [reading : Value \cup {Garbage, Dashes},
                 illu : Value \cup {Garbage, Dashes}]
  BY DEF PcInit
<1>4. QED
  BY <1>1, <1>2, <1>3
     DEF PcInit, PcTypes, PcTypeOK, Point, Request, Reply, Packet

(* The timer or the button writes a request. *)
LEMMA PcTypesWrite ==
  ASSUME PcTypes, NEW r \in Request, Write(r), presses' \in 0 .. MaxPresses
  PROVE  PcTypes'
<1>1. requests \in Seq(Request)
  BY DEF PcTypes, PcTypeOK, Request
<1>2. requests' \in Seq(Request)
  <2>1. requests' = Append(requests, r) \/ requests' = requests
    BY DEF Write
  <2>2. QED
    BY <1>1, <2>1, AppendProperties
<1>3. crashed' \in BOOLEAN
  BY DEF Write, PcTypes, PcTypeOK
<1>4. QED
  BY <1>2, <1>3 DEF Write, PcTypes, PcTypeOK, Request, display

(* A reply is shown. *)
LEMMA PcTypesShow ==
  ASSUME PcTypes, SlotRecvmessage
  PROVE  PcTypes'
<1> DEFINE Of(value) == IF Understood THEN value ELSE Garbage
           x == Of(unread.reading)
           y == Of(unread.illu)
<1>1. unread \in Packet /\ chart \in Seq(Point) /\ Len(chart) <= MaxPoints
  BY DEF PcTypes, PcTypeOK, Point, Packet
<1>2. x \in Point /\ y \in Point
  BY <1>1 DEF Point, Packet
<1>3. /\ times' \in {0, 1} /\ chart' \in Seq(Point) /\ Len(chart') <= MaxPoints
      /\ shown' \in [reading : Value \cup {Garbage, Dashes},
                     illu : Value \cup {Garbage, Dashes}]
  <2>1. \/ ShowData(x, y) \/ ShowIllu(y) \/ UNCHANGED display
    BY DEF SlotRecvmessage
  <2> HIDE DEF x, y
  <2>2. CASE ShowData(x, y)
    <3>1. /\ Keep(Append(chart, x)) \in Seq(Point)
          /\ Len(Keep(Append(chart, x))) <= MaxPoints
      BY <1>1, <1>2, KeptPoints
    <3>2. times' \in {0, 1}
      BY <2>2 DEF ShowData, PcTypes, PcTypeOK
    <3>3. chart' = Keep(Append(chart, x)) \/ chart' = chart
      BY <2>2 DEF ShowData
    <3>4. shown' = [reading |-> x, illu |-> y]
      BY <2>2 DEF ShowData
    <3>5. QED
      BY <1>1, <1>2, <3>1, <3>2, <3>3, <3>4 DEF Point
  <2>3. CASE ShowIllu(y)
    BY <1>1, <1>2, <2>3 DEF ShowIllu, PcTypes, PcTypeOK, Point
  <2>4. CASE UNCHANGED display
    BY <1>1, <2>4 DEF display, PcTypes, PcTypeOK
  <2>5. QED
    BY <2>1, <2>2, <2>3, <2>4
<1>4. unread' \in Packet
  BY Values DEF SlotRecvmessage
<1>5. QED
  BY <1>3, <1>4 DEF SlotRecvmessage, PcTypes, PcTypeOK, Point, Packet, outside

(* The server answers. *)
LEMMA PcTypesServe ==
  ASSUME PcTypes, Serve
  PROVE  PcTypes'
<1>1. requests \in Seq(Request) /\ requests # <<>> /\ replies \in Seq(Reply)
  BY DEF PcTypes, PcTypeOK, Request, Reply, Serve
<1>2. Head(requests) \in Request /\ Tail(requests) \in Seq(Request)
  BY <1>1, HeadTailProperties
<1>3. server' \in [reading : Value, illu : Value]
  BY <1>2 DEF Serve, PcTypes, PcTypeOK, Request
<1>4. PICK r \in Reply : replies' = Append(replies, r)
  BY <1>3 DEF Serve, Reply
<1>5. replies' \in Seq(Reply) /\ replies' # <<>>
  BY <1>1, <1>4, AppendProperties, EmptySeq, LenProperties
<1>6. QED
  BY <1>2, <1>3, <1>5 DEF Serve, PcTypes, PcTypeOK, Request, Reply, display

(* A reply arrives, in two halves. *)
LEMMA PcTypesArrive ==
  ASSUME PcTypes, ArriveHalf \/ ArriveRest
  PROVE  PcTypes'
<1>1. replies \in Seq(Reply) /\ replies # <<>> /\ unread \in Packet
  BY DEF PcTypes, PcTypeOK, Reply, Packet, ArriveHalf, ArriveRest
<1>2. Head(replies) \in Reply /\ Tail(replies) \in Seq(Reply)
  BY <1>1, HeadTailProperties
<1>3. unread' \in Packet
  <2>1. CASE ArriveHalf
    BY <1>1, <1>2, <2>1, Values DEF ArriveHalf
  <2>2. CASE ArriveRest
    <3>1. unread' \in {Middle, unread, [unread EXCEPT !.whole = TRUE]}
      BY <2>2 DEF ArriveRest
    <3>2. [unread EXCEPT !.whole = TRUE] \in Packet
      BY <1>1 DEF Packet
    <3>3. QED
      BY <1>1, <3>1, <3>2, Values
  <2>3. QED
    BY <2>1, <2>2
<1>4. QED
  BY <1>1, <1>2, <1>3
     DEF ArriveHalf, ArriveRest, PcTypes, PcTypeOK, Reply, Packet, display, outside

LEMMA PcTypesStep == PcTypes /\ [PcNext]_pcvars => PcTypes'
<1> SUFFICES ASSUME PcTypes, [PcNext]_pcvars PROVE PcTypes'
  OBVIOUS
<1>1. ASSUME SlotConnected \/ Refused \/ SlotDisconnect \/ Delete PROVE PcTypes'
  BY <1>1 DEF SlotConnected, Refused, SlotDisconnect, Delete, PcTypes, PcTypeOK,
              display, stream, outside
<1>2. ASSUME SlotSendmessage PROVE PcTypes'
  <2>1. [cmd |-> "get-data", illu |-> 0] \in Request
    BY Values DEF Request
  <2>2. QED
    BY <1>2, <2>1, PcTypesWrite DEF SlotSendmessage, PcTypes, PcTypeOK
<1>3. ASSUME NEW v \in Value, BottonSend(v) PROVE PcTypes'
  <2>1. [cmd |-> "set-illu", illu |-> v] \in Request
    BY DEF Request
  <2>2. presses' \in 0 .. MaxPresses
    BY <1>3, PcAssumption DEF BottonSend, PcTypes, PcTypeOK
  <2>3. QED
    BY <1>3, <2>1, <2>2, PcTypesWrite DEF BottonSend
<1>4. ASSUME NewReading \/ SetElsewhere PROVE PcTypes'
  <2>1. server' \in [reading : Value, illu : Value]
    <3>1. \A n \in Value : n < MaxValue => n + 1 \in Value
      BY PcAssumption DEF Value
    <3>2. server \in [reading : Value, illu : Value]
      BY DEF PcTypes, PcTypeOK
    <3>3. CASE NewReading
      <4>1. server.reading + 1 \in Value
        BY <3>1, <3>2, <3>3 DEF NewReading
      <4>2. QED
        BY <3>2, <3>3, <4>1 DEF NewReading
    <3>4. CASE SetElsewhere
      <4>1. server.illu + 1 \in Value
        BY <3>1, <3>2, <3>4 DEF SetElsewhere
      <4>2. QED
        BY <3>2, <3>4, <4>1 DEF SetElsewhere
    <3>5. QED
      BY <1>4, <3>3, <3>4
  <2>2. QED
    BY <1>4, <2>1 DEF NewReading, SetElsewhere, PcTypes, PcTypeOK, display, stream
<1>5. CASE UNCHANGED pcvars
  BY <1>5 DEF pcvars, display, stream, outside, PcTypes, PcTypeOK
<1>6. QED
  BY <1>1, <1>2, <1>3, <1>4, <1>5, PcTypesShow, PcTypesServe, PcTypesArrive
     DEF PcNext

(* Types.                                                                  *)
THEOREM PcTypeCorrect == PcSpec => []PcTypeOK
<1>1. PcTypes => PcTypeOK
  BY DEF PcTypes
<1>2. QED
  BY <1>1, PcTypesInit, PcTypesStep, PTL DEF PcSpec

-----------------------------------------------------------------------------
(* PcClient: what takes the process down.                                  *)

(* The socket goes only after slot_disconnect(), and the label stays.      *)
CutFirst == /\ socket \in {"unconnected-to-delete", "deleted"} => label = "disconnected"
            /\ CrashNeedsCut

LEMMA CutFirstStep == CutFirst /\ [PcNext]_pcvars => CutFirst'
<1> SUFFICES ASSUME CutFirst, [PcNext]_pcvars PROVE CutFirst'
  OBVIOUS
<1> USE DEF CutFirst, CrashNeedsCut
<1>1. ASSUME NEW r, Write(r) PROVE CutFirst'
  <2>1. socket' = socket /\ label' = label /\ ~crashed
    BY <1>1 DEF Write
  <2>2. crashed' => socket = "deleted"
    BY <1>1, <2>1 DEF Write
  <2>3. QED
    BY <2>1, <2>2
<1>2. CASE SlotSendmessage
  BY <1>1, <1>2 DEF SlotSendmessage
<1>3. ASSUME NEW v \in Value, BottonSend(v) PROVE CutFirst'
  BY <1>1, <1>3 DEF BottonSend
<1>4. CASE SlotConnected \/ Refused \/ SlotDisconnect \/ Delete
  BY <1>4 DEF SlotConnected, Refused, SlotDisconnect, Delete
<1>5. CASE \/ SlotRecvmessage \/ Serve \/ ArriveHalf \/ ArriveRest
           \/ NewReading \/ SetElsewhere
  BY <1>5 DEF SlotRecvmessage, Serve, ArriveHalf, ArriveRest, NewReading, SetElsewhere
<1>6. CASE UNCHANGED pcvars
  BY <1>6 DEF pcvars
<1>7. QED
  BY <1>2, <1>3, <1>4, <1>5, <1>6 DEF PcNext

(* However late or often the timer and the button write, only a connection *)
(* that has been cut takes the window down.                                *)
THEOREM OnlyCutCrashes == PcSpec => []CrashNeedsCut
<1>1. PcInit => CutFirst
  BY DEF PcInit, CutFirst, CrashNeedsCut
<1>2. CutFirst => CrashNeedsCut
  BY DEF CutFirst
<1>3. QED
  BY <1>1, <1>2, CutFirstStep, PTL DEF PcSpec

-----------------------------------------------------------------------------
(* PcClient: the order of the chart.  The readings go up along the way     *)
(* from the server to the chart: what is behind on the way is not newer    *)
(* than what is before it, wherever replies are skipped or misread.        *)

(* Points and replies in order, and all of them up to, or from, v on.      *)
Sorted(s) == \A i, j \in 1 .. Len(s) :
               i < j /\ s[i] # Garbage /\ s[j] # Garbage => s[i] <= s[j]
UpTo(s, v) == \A i \in 1 .. Len(s) : s[i] # Garbage => s[i] <= v
Ascending(r) == \A i, j \in 1 .. Len(r) : i <= j => r[i].reading <= r[j].reading
RepliesUpTo(r, v) == \A i \in 1 .. Len(r) : r[i].reading <= v
RepliesFrom(r, v) == \A i \in 1 .. Len(r) : v <= r[i].reading
Before(s, r) == \A i \in 1 .. Len(r) : UpTo(s, r[i].reading)

(* The unread bytes begin with a packet, whole or not. *)
Begins == unread.cmd \in {"data", "illu"}

Chain == /\ Sorted(chart) /\ Ascending(replies)
         /\ Before(chart, replies) /\ UpTo(chart, server.reading)
         /\ RepliesUpTo(replies, server.reading)
         /\ Begins => /\ UpTo(chart, unread.reading)
                      /\ RepliesFrom(replies, unread.reading)
                      /\ unread.reading <= server.reading

(* A point is added that is not older than any. *)
LEMMA PointAdded ==
  ASSUME NEW s \in Seq(Point), Len(s) <= MaxPoints, NEW x \in Point,
         x # Garbage => UpTo(s, x), Sorted(s)
  PROVE  /\ Sorted(Keep(Append(s, x)))
         /\ \A v \in Value : UpTo(s, v) /\ (x # Garbage => x <= v)
                           => UpTo(Keep(Append(s, x)), v)
<1> DEFINE k == Keep(Append(s, x))
<1>1. PICK d \in {0, 1} : AddedFrom(k, s, x, d)
  BY KeptPoints
<1>2. k \in Seq(Point) /\ Len(k) \in Nat /\ Len(s) \in Nat
  BY KeptPoints, LenProperties
<1> HIDE DEF k
<1>3. Sorted(k)
  <2> SUFFICES ASSUME NEW i \in 1 .. Len(k), NEW j \in 1 .. Len(k), i < j,
                      k[i] # Garbage, k[j] # Garbage
               PROVE  k[i] <= k[j]
    BY DEF Sorted
  <2>1. /\ i + d \in 1 .. Len(s) /\ k[i] = s[i + d]
        /\ j + d \in 1 .. Len(s) + 1
        /\ k[j] = IF j + d = Len(s) + 1 THEN x ELSE s[j + d]
        /\ i + d < j + d
    BY <1>1, <1>2 DEF AddedFrom
  <2>2. CASE j + d = Len(s) + 1
    BY <2>1, <2>2 DEF UpTo
  <2>3. CASE j + d # Len(s) + 1
    <3>1. j + d \in 1 .. Len(s) /\ k[j] = s[j + d]
      BY <1>2, <2>1, <2>3
    <3>2. QED
      BY <2>1, <3>1 DEF Sorted
  <2>4. QED
    BY <2>2, <2>3
<1>4. ASSUME NEW v \in Value, UpTo(s, v), x # Garbage => x <= v
      PROVE  UpTo(k, v)
  <2> SUFFICES ASSUME NEW i \in 1 .. Len(k), k[i] # Garbage
               PROVE  k[i] <= v
    BY DEF UpTo
  <2>1. CASE i + d = Len(s) + 1
    BY <1>1, <1>4, <2>1 DEF AddedFrom
  <2>2. CASE i + d # Len(s) + 1
    <3>1. i + d \in 1 .. Len(s) /\ k[i] = s[i + d]
      BY <1>1, <1>2, <2>2 DEF AddedFrom
    <3>2. QED
      BY <1>4, <3>1 DEF UpTo
  <2>3. QED
    BY <2>1, <2>2
<1>5. QED
  BY <1>3, <1>4 DEF k

(* What goes up to a reading goes up to a later one.                       *)
LEMMA UpToLater ==
  ASSUME NEW s \in Seq(Point), NEW v \in Value, NEW w \in Value, UpTo(s, v), v <= w
  PROVE  UpTo(s, w)
<1>1. \A i \in 1 .. Len(s) : s[i] \in Point
  BY ElementOfSeq
<1>2. v \in Int /\ w \in Int
  BY Values
<1>3. Point \subseteq Int
  BY Values DEF Point, Garbage
<1>4. ASSUME NEW i \in 1 .. Len(s), s[i] # Garbage PROVE s[i] <= w
  <2>1. s[i] <= v /\ s[i] \in Int
    BY <1>1, <1>3, <1>4 DEF UpTo
  <2>2. QED
    BY <1>2, <2>1
<1>5. QED
  BY <1>4 DEF UpTo

(* A reply is added that is not older than any.                            *)
LEMMA ReplyAdded ==
  ASSUME NEW r \in Seq(Reply), NEW q \in Reply, Ascending(r), RepliesUpTo(r, q.reading)
  PROVE  /\ Ascending(Append(r, q)) /\ RepliesUpTo(Append(r, q), q.reading)
         /\ \A v \in Value : RepliesFrom(r, v) /\ v <= q.reading
                           => RepliesFrom(Append(r, q), v)
         /\ \A s : Before(s, r) /\ UpTo(s, q.reading) => Before(s, Append(r, q))
<1> DEFINE a == Append(r, q)
<1>1. /\ Len(r) \in Nat /\ Len(a) = Len(r) + 1
      /\ \A i \in 1 .. Len(r) : a[i] = r[i]
      /\ a[Len(r) + 1] = q
  BY LenProperties, AppendProperties
<1>2. q.reading \in Int
  BY Values DEF Reply
<1> HIDE DEF a
<1>3. \A i \in 1 .. Len(a) : i \in 1 .. Len(r) \/ i = Len(r) + 1
  BY <1>1
<1>4. Ascending(a)
  <2> SUFFICES ASSUME NEW i \in 1 .. Len(a), NEW j \in 1 .. Len(a), i <= j
               PROVE  a[i].reading <= a[j].reading
    BY DEF Ascending
  <2>1. CASE j \in 1 .. Len(r)
    <3>1. i \in 1 .. Len(r)
      BY <1>1, <2>1
    <3>2. QED
      BY <1>1, <2>1, <3>1 DEF Ascending
  <2>2. CASE j = Len(r) + 1 /\ i \in 1 .. Len(r)
    BY <1>1, <2>2 DEF RepliesUpTo
  <2>3. CASE j = Len(r) + 1 /\ i = Len(r) + 1
    BY <1>1, <1>2, <2>3
  <2>4. QED
    BY <1>3, <2>1, <2>2, <2>3
<1>5. RepliesUpTo(a, q.reading)
  BY <1>1, <1>2, <1>3 DEF RepliesUpTo
<1>6. ASSUME NEW v \in Value, RepliesFrom(r, v), v <= q.reading
      PROVE  RepliesFrom(a, v)
  BY <1>1, <1>3, <1>6 DEF RepliesFrom
<1>7. ASSUME NEW s, Before(s, r), UpTo(s, q.reading)
      PROVE  Before(s, a)
  BY <1>1, <1>3, <1>7 DEF Before
<1>8. QED
  BY <1>4, <1>5, <1>6, <1>7 DEF a

(* The first reply is gone.                                                *)
LEMMA ReplyGone ==
  ASSUME NEW r \in Seq(Reply), r # <<>>
  PROVE  /\ Ascending(r) => Ascending(Tail(r))
         /\ \A v : RepliesUpTo(r, v) => RepliesUpTo(Tail(r), v)
         /\ \A v : RepliesFrom(r, v) => RepliesFrom(Tail(r), v)
         /\ \A s : Before(s, r) => Before(s, Tail(r))
<1>1. /\ Len(r) \in Nat /\ Len(Tail(r)) = Len(r) - 1
      /\ \A i \in 1 .. Len(Tail(r)) : Tail(r)[i] = r[i + 1]
  BY LenProperties, HeadTailProperties
<1>2. \A i \in 1 .. Len(Tail(r)) : i + 1 \in 1 .. Len(r)
  BY <1>1
<1>3. Ascending(r) => Ascending(Tail(r))
  <2> SUFFICES ASSUME Ascending(r), NEW i \in 1 .. Len(Tail(r)),
                      NEW j \in 1 .. Len(Tail(r)), i <= j
               PROVE  Tail(r)[i].reading <= Tail(r)[j].reading
    BY DEF Ascending
  <2>1. i + 1 <= j + 1
    BY <1>1
  <2>2. QED
    BY <1>1, <1>2, <2>1 DEF Ascending
<1>4. QED
  BY <1>1, <1>2, <1>3 DEF RepliesUpTo, RepliesFrom, Before

(* What the types say of the readings.                                     *)
LEMMA ChainTypes ==
  ASSUME PcTypes
  PROVE  /\ chart \in Seq(Point) /\ Len(chart) <= MaxPoints
         /\ replies \in Seq(Reply) /\ unread \in Packet /\ unread.reading \in Value
         /\ server.reading \in Value /\ (half => replies # <<>>)
         /\ \A i \in 1 .. Len(replies) : replies[i].reading \in Value
<1>1. replies \in Seq(Reply)
  BY DEF PcTypes, PcTypeOK, Reply
<1>2. \A i \in 1 .. Len(replies) : replies[i] \in Reply
  BY <1>1, ElementOfSeq
<1>3. \A q \in Reply : q.reading \in Value
  BY DEF Reply
<1>4. QED
  BY <1>1, <1>2, <1>3 DEF PcTypes, PcTypeOK, Point, Packet

(* A reply is shown: a point is its reading, or garbage.                   *)
LEMMA ChainShow ==
  ASSUME PcTypes, Chain, SlotRecvmessage
  PROVE  Chain'
<1> DEFINE Of(value) == IF Understood THEN value ELSE Garbage
           x == Of(unread.reading)
<1>1. x \in Point /\ unread.cmd \in {"nothing", "middle", "data", "illu"}
  BY ChainTypes DEF Point, Packet
<1>2. \/ chart' = chart
      \/ unread.cmd \in {"data", "middle"} /\ chart' = Keep(Append(chart, x))
  BY DEF SlotRecvmessage, ShowData, ShowIllu, display
<1>3. ~Begins'
  BY Values DEF SlotRecvmessage, Begins
<1>4. CASE unread.cmd \in {"data", "middle"} /\ chart' = Keep(Append(chart, x))
  <2>1. x # Garbage => Begins /\ x = unread.reading
    BY <1>4 DEF Understood, Begins
  <2>2. /\ x # Garbage => UpTo(chart, x)
        /\ x # Garbage => x <= server.reading
        /\ \A i \in 1 .. Len(replies) : x # Garbage => x <= replies[i].reading
    BY <2>1 DEF Chain, RepliesFrom
  <2> HIDE DEF x
  <2>3. /\ Sorted(chart')
        /\ \A v \in Value : UpTo(chart, v) /\ (x # Garbage => x <= v)
                          => UpTo(chart', v)
    BY <1>1, <1>4, <2>2, ChainTypes, PointAdded DEF Chain
  <2>4. UpTo(chart', server.reading) /\ Before(chart', replies)
    BY <2>2, <2>3, ChainTypes DEF Chain, Before
  <2>5. QED
    BY <1>3, <2>3, <2>4 DEF Chain, SlotRecvmessage, outside
<1>5. CASE chart' = chart
  BY <1>3, <1>5 DEF Chain, SlotRecvmessage, outside
<1>6. QED
  BY <1>2, <1>4, <1>5

(* The server answers with the reading it holds.                           *)
LEMMA ChainServe ==
  ASSUME PcTypes, Chain, Serve
  PROVE  Chain'
<1>1. /\ requests \in Seq(Request) /\ requests # <<>>
      /\ server \in [reading : Value, illu : Value]
  BY DEF PcTypes, PcTypeOK, Request, Serve
<1>2. Head(requests) \in Request
  BY <1>1, HeadTailProperties
<1>3. server'.reading = server.reading /\ server'.illu \in Value
  BY <1>1, <1>2 DEF Serve, Request
<1>4. PICK q \in Reply : replies' = Append(replies, q) /\ q.reading = server.reading
  <2> DEFINE q == [cmd |-> IF Head(requests).cmd = "set-illu" THEN "illu" ELSE "data",
                   reading |-> server'.reading, illu |-> server'.illu, whole |-> FALSE]
  <2>1. q \in Reply
    BY <1>1, <1>3 DEF Reply
  <2>2. q.reading = server.reading
    BY <1>3
  <2>3. replies' = Append(replies, q)
    BY DEF Serve
  <2>4. QED
    BY <2>1, <2>2, <2>3
<1>5. /\ Ascending(replies') /\ RepliesUpTo(replies', server.reading)
      /\ \A v \in Value : RepliesFrom(replies, v) /\ v <= server.reading
                        => RepliesFrom(replies', v)
      /\ Before(chart, replies')
  BY <1>4, ReplyAdded, ChainTypes DEF Chain
<1>6. UNCHANGED <<chart, unread>>
  BY DEF Serve, display
<1>7. QED
  BY <1>3, <1>5, <1>6, ChainTypes DEF Chain, Begins

(* Half a reply arrives.                                                   *)
LEMMA ChainHalf ==
  ASSUME PcTypes, Chain, ArriveHalf
  PROVE  Chain'
<1>1. Len(replies) \in Nat /\ Len(replies) > 0 /\ Head(replies) = replies[1]
  BY ChainTypes, LenProperties, HeadTailProperties, EmptySeq DEF ArriveHalf
<1>2. /\ UpTo(chart, replies[1].reading)
      /\ RepliesFrom(replies, replies[1].reading)
      /\ replies[1].reading <= server.reading
  BY <1>1 DEF Chain, Before, Ascending, RepliesFrom, RepliesUpTo
<1>3. unread' = replies[1] \/ unread' = unread
  BY <1>1 DEF ArriveHalf
<1>4. QED
  BY <1>2, <1>3 DEF ArriveHalf, Chain, Begins, display, outside

(* The rest of it arrives.                                                 *)
LEMMA ChainRest ==
  ASSUME PcTypes, Chain, ArriveRest
  PROVE  Chain'
<1>1. replies # <<>> /\ replies' = Tail(replies) /\ UNCHANGED <<chart, server>>
  BY ChainTypes DEF ArriveRest, display, outside
<1>2. Begins' => Begins /\ unread'.reading = unread.reading
  <2>1. unread' \in {Middle, unread, [unread EXCEPT !.whole = TRUE]}
    BY DEF ArriveRest
  <2>2. CASE unread' = [unread EXCEPT !.whole = TRUE]
    BY <2>2, ChainTypes DEF Begins, Packet
  <2>3. QED
    BY <2>1, <2>2, Values DEF Begins
<1>3. QED
  BY <1>1, <1>2, ChainTypes, ReplyGone DEF Chain

(* A new reading is not older than the last.                               *)
LEMMA ChainNewReading ==
  ASSUME PcTypes, Chain, NewReading
  PROVE  Chain'
<1>1. server \in [reading : Value, illu : Value]
  BY DEF PcTypes, PcTypeOK
<1>2. server'.reading = server.reading + 1 /\ server.reading < MaxValue
  BY <1>1 DEF NewReading
<1>3. server'.reading \in Value /\ server.reading <= server'.reading
  BY <1>1, <1>2, PcAssumption DEF Value
<1>4. UpTo(chart, server'.reading)
  BY <1>3, ChainTypes, UpToLater DEF Chain
<1> DEFINE new == server'.reading
<1>5. new \in Value /\ server.reading \in Value /\ server.reading <= new
  BY <1>1, <1>3
<1> HIDE DEF new
<1>6. \A v \in Value : v <= server.reading => v <= new
  <2>1. \A u, v, w \in Value : v <= u /\ u <= w => v <= w
    BY PcAssumption DEF Value
  <2>2. QED
    BY <1>5, <2>1
<1>7. RepliesUpTo(replies, new) /\ (Begins => unread.reading <= new)
  BY <1>6, ChainTypes DEF Chain, RepliesUpTo
<1>8. QED
  BY <1>4, <1>7 DEF Chain, NewReading, Begins, display, stream, new

LEMMA ChainStep == PcTypes /\ Chain /\ [PcNext]_pcvars => Chain'
<1> SUFFICES ASSUME PcTypes, Chain, [PcNext]_pcvars PROVE Chain'
  OBVIOUS
<1>1. ASSUME UNCHANGED <<chart, replies, unread>>, server'.reading = server.reading
      PROVE  Chain'
  BY <1>1 DEF Chain, Begins
<1>2. ASSUME NEW r, Write(r) PROVE Chain'
  BY <1>1, <1>2 DEF Write, display
<1>3. CASE SlotSendmessage
  BY <1>2, <1>3 DEF SlotSendmessage
<1>4. ASSUME NEW v \in Value, BottonSend(v) PROVE Chain'
  BY <1>2, <1>4 DEF BottonSend
<1>5. CASE SlotConnected \/ Refused \/ SlotDisconnect \/ Delete
  BY <1>1, <1>5 DEF SlotConnected, Refused, SlotDisconnect, Delete, display, stream,
                    outside
<1>6. CASE SetElsewhere
  <2>1. server'.reading = server.reading
    BY <1>6 DEF SetElsewhere, PcTypes, PcTypeOK
  <2>2. QED
    BY <1>1, <1>6, <2>1 DEF SetElsewhere, display, stream
<1>7. CASE UNCHANGED pcvars
  BY <1>1, <1>7 DEF pcvars, display, stream, outside
<1>8. QED
  BY <1>3, <1>4, <1>5, <1>6, <1>7, ChainShow, ChainServe, ChainHalf, ChainRest,
     ChainNewReading DEF PcNext

(* Whatever the pieces in which replies arrive, the points of the chart    *)
(* are in the order of the readings and not too many.                      *)
THEOREM ChartStaysInOrder == PcSpec => []ChartInOrder
<1>1. PcInit => Chain
  BY PcAssumption, Values
     DEF PcInit, Chain, Sorted, Ascending, Before, UpTo, RepliesUpTo, Begins
<1>2. PcTypes /\ Chain => ChartInOrder
  <2>1. ASSUME PcTypes PROVE DOMAIN chart = 1 .. Len(chart)
    BY <2>1, ChainTypes, LenProperties
  <2>2. QED
    BY <2>1, ChainTypes DEF Chain, Sorted, ChartInOrder
<1>3. QED
  BY <1>1, <1>2, PcTypesInit, PcTypesStep, ChainStep, PTL DEF PcSpec

-----------------------------------------------------------------------------
(* PiClient: the parts of the invariant.                                   *)

Waits == main \in {"close-recv", "close-send", "free-recv", "free-send"}
Closing == Waits \/ main \in {"close-sock", "end"}
Closed(n) == \/ main \in {"free-recv", "free-send", "close-sock", "end"}
             \/ main = "close-send" /\ n = "recv"

(* Without a process there is nothing of it; a node that was not started   *)
(* does nothing.                                                           *)
Down == /\ fate # "up" => main = "none" /\ waiting = "none" /\ link = "none"
        /\ main \in {"none", "init", "connect", "tried", "start-recv"}
             => \A n \in Nodes : pc[n] = "off"
        /\ main = "start-send" => pc["send"] = "off"

(* Only the receive node ends the process, and only it runs with its flag  *)
(* reset when nobody waits for it.                                         *)
FlagsKept == /\ pc["send"] \notin {"exit", "quit"}
             /\ \A n \in Nodes : ~flag[n] => pc[n] \in {"off", "quit"} \/ waiting = n

(* The main thread waits only where it closes a node, and for that one; it *)
(* goes there only without a connection, and comes past it only when the   *)
(* node is done, if the receive node did not find out that there is none.  *)
ClosedInOrder ==
  /\ waiting # "none" => Waits /\ waiting = NodeOf(main)
  /\ Closing => link = "none"
  /\ ~late => /\ link = "none" => pc["recv"] \notin {"exit", "quit"}
              /\ \A n \in Nodes : Closed(n) => pc[n] = "off"

(* Without a connection the socket was closed by connect()'s failure.      *)
SockClosed ==
  main \notin {"none", "init", "connect", "tried"} /\ link = "none"
    => sock = 0 \/ holder[sock] # "sock"

PiInv == TypeOK /\ EpollClosed /\ Down /\ FlagsKept /\ ClosedInOrder /\ SockClosed

(* The process is over, or it is started.                                  *)
LEMMA OverStep ==
  ASSUME PiInv, NEW how \in {"ended", "lost", "aborted", "killed"}, Over(how)
  PROVE  PiInv'
<1> USE DEF Over, Nodes, filevars, counters
<1>1. TypeOK' /\ EpollClosed'
  <2>1. /\ holder' \in [Fds -> {"free", "sock", "epoll"}]
        /\ \A f \in Fds : holder'[f] # "epoll"
        /\ flag' \in [Nodes -> BOOLEAN] /\ answers' \in Seq(Illus)
        /\ pc' \in [Nodes -> {"off", "begin", "loop", "wait", "write", "exit", "quit",
                             "good", "bad", "poll"}]
    OBVIOUS
  <2>2. QED
    BY <2>1 DEF PiInv, TypeOK, EpollClosed
<1>2. Down' /\ FlagsKept' /\ ClosedInOrder' /\ SockClosed'
  BY DEF Down, FlagsKept, ClosedInOrder, SockClosed, Closing, Waits, Closed
<1>3. QED
  BY <1>1, <1>2 DEF PiInv

LEMMA LaunchStep ==
  ASSUME PiInv, Launch
  PROVE  PiInv'
<1> USE DEF Launch, Main, Nodes, netvars, filevars
<1>1. TypeOK' /\ EpollClosed'
  <2>1. illu' \in Illus /\ starts' \in 0 .. MaxStarts
    BY ConstantsAssumption DEF PiInv, TypeOK, EpollClosed, Illus
  <2>2. /\ fate' = "up" /\ main' = "init" /\ sock' = 0 /\ late' = FALSE
        /\ UNCHANGED <<waiting, holder, flag, pc, netvars, filevars, errors>>
    OBVIOUS
  <2> HIDE DEF Launch, Main, Nodes
  <2>3. /\ main' \in {"none", "init"} /\ sock' \in Fds \cup {0} /\ late' \in BOOLEAN
        /\ setting' \in Illus /\ answers' \in Seq(Illus)
    BY <2>2 DEF PiInv, TypeOK, EpollClosed
  <2>4. QED
    BY <2>1, <2>2, <2>3 DEF PiInv, TypeOK, EpollClosed
<1>2. Down' /\ FlagsKept' /\ ClosedInOrder' /\ SockClosed'
  BY DEF PiInv, Down, FlagsKept, ClosedInOrder, SockClosed, Closing, Waits, Closed
<1>3. QED
  BY <1>1, <1>2 DEF PiInv

(* The main thread up to the nodes' start.                                 *)
LEMMA ConnectStep ==
  ASSUME PiInv, MInit \/ MRetry \/ MConnect
  PROVE  PiInv'
<1> USE DEF MInit, MRetry, MConnect, Main, Nodes, nodevars, netvars, filevars,
            counters
<1>1. TypeOK' /\ EpollClosed'
  <2>1. /\ holder' \in [Fds -> {"free", "sock", "epoll"}] /\ sock' \in Fds \cup {0}
        /\ \A f \in Fds : holder'[f] = "epoll" => holder[f] = "epoll"
    BY DEF PiInv, TypeOK, EpollClosed, Socket, Open, CloseFd
  <2>2. QED
    BY <2>1 DEF PiInv, TypeOK, EpollClosed
<1>2. Down' /\ FlagsKept' /\ ClosedInOrder'
  BY DEF PiInv, Down, FlagsKept, ClosedInOrder, Closing, Waits, Closed
<1>3. SockClosed'
  BY DEF PiInv, TypeOK, EpollClosed, SockClosed, CloseFd
<1>4. QED
  BY <1>1, <1>2, <1>3 DEF PiInv

LEMMA StartStep ==
  ASSUME PiInv, NEW n \in Nodes, MStart(n)
  PROVE  PiInv'
<1> USE DEF MStart, Main, Nodes, netvars, filevars, counters
<1>1. TypeOK' /\ EpollClosed'
  BY DEF PiInv, TypeOK, EpollClosed, Down
<1>2. Down' /\ FlagsKept' /\ ClosedInOrder' /\ SockClosed'
  BY DEF PiInv, TypeOK, EpollClosed, Down, FlagsKept, ClosedInOrder, SockClosed,
         Closing, Waits, Closed
<1>3. QED
  BY <1>1, <1>2 DEF PiInv

(* The main thread afterwards.                                             *)
LEMMA WorkStep ==
  ASSUME PiInv, MWork \/ MCloseSock
  PROVE  PiInv'
<1> USE DEF MWork, MCloseSock, Main, Connected, Nodes, nodevars, netvars, filevars,
            counters
<1>1. TypeOK' /\ EpollClosed'
  BY DEF PiInv, TypeOK, EpollClosed, CloseFd
<1>2. Down' /\ FlagsKept' /\ ClosedInOrder'
  BY DEF PiInv, Down, FlagsKept, ClosedInOrder, Closing, Waits, Closed
<1>3. SockClosed'
  BY DEF PiInv, TypeOK, EpollClosed, SockClosed, CloseFd
<1>4. QED
  BY <1>1, <1>2, <1>3 DEF PiInv

LEMMA CloseNodeStep ==
  ASSUME PiInv, CloseNode
  PROVE  PiInv'
<1> USE DEF Nodes, netvars, filevars, counters
<1>1. Waits /\ NodeOf(main) \in Nodes /\ main' \in {main, After(main)}
  BY DEF CloseNode, Waits, NodeOf
<1>2. TypeOK' /\ EpollClosed'
  <2>1. main' \in {"close-recv", "close-send", "free-recv", "free-send", "close-sock"}
    BY <1>1 DEF Waits, After
  <2>2. /\ flag' \in [Nodes -> BOOLEAN] /\ waiting' \in Nodes \cup {"none"}
        /\ UNCHANGED <<fate, sock, holder, pc, illu, netvars, filevars, counters>>
    BY <1>1 DEF PiInv, TypeOK, EpollClosed, CloseNode
  <2>3. QED
    BY <2>1, <2>2 DEF PiInv, TypeOK, EpollClosed
<1>3. Down' /\ SockClosed'
  BY <1>1 DEF PiInv, TypeOK, EpollClosed, Down, SockClosed, CloseNode, Waits, After
<1>4. FlagsKept'
  BY <1>1 DEF PiInv, TypeOK, EpollClosed, FlagsKept, ClosedInOrder, CloseNode
<1>5. ClosedInOrder'
  <2>1. waiting' # "none" => Waits' /\ waiting' = NodeOf(main')
    BY <1>1 DEF CloseNode, PiInv, ClosedInOrder, Waits
  <2>2. link = "none" /\ UNCHANGED <<link, late, pc>>
    BY <1>1 DEF CloseNode, PiInv, ClosedInOrder, Closing
  <2>3. CASE main' = main
    BY <2>1, <2>2, <2>3 DEF PiInv, ClosedInOrder, Closed
  <2>4. CASE main' = After(main)
    <3>1. ~late => pc[NodeOf(main)] = "off"
      BY <1>1, <2>2, <2>4 DEF CloseNode, PiInv, ClosedInOrder, FlagsKept, Waits, After
    <3>2. \A n \in Nodes : Closed(n)' => Closed(n) \/ n = NodeOf(main)
      BY <1>1, <2>4 DEF Waits, After, Closed, NodeOf
    <3>3. ~late => \A n \in Nodes : Closed(n)' => pc[n] = "off"
      BY <3>1, <3>2 DEF PiInv, ClosedInOrder
    <3>4. QED
      BY <2>1, <2>2, <3>3 DEF PiInv, ClosedInOrder
  <2>5. QED
    BY <1>1, <2>3, <2>4
<1>6. QED
  BY <1>2, <1>3, <1>4, <1>5 DEF PiInv

(* A worker moves: what the rest of the invariant asks of it.              *)
LEMMA WorkerMoves ==
  ASSUME PiInv, NEW n \in Nodes, NEW from, NEW to, Goes(n, from, to),
         from \notin {"off", "quit"}, to # "quit", n = "send" => to # "exit",
         UNCHANGED <<fate, main, waiting, sock, flag>>,
         link' = "none" <=> link = "none", late => late',
         to = "exit" => link # "none" \/ late',
         \A f \in Fds : holder'[f] = "sock" => holder[f] = "sock"
  PROVE  Down' /\ FlagsKept' /\ ClosedInOrder' /\ SockClosed'
<1>1. /\ pc[n] = from /\ pc'[n] = to /\ pc[n] # "off"
      /\ \A m \in Nodes : m # n => pc'[m] = pc[m]
  BY DEF Goes, PiInv, TypeOK, EpollClosed
<1>2. Down'
  BY <1>1 DEF PiInv, Down, Nodes
<1>3. FlagsKept'
  BY <1>1 DEF PiInv, FlagsKept, Nodes
<1>4. ClosedInOrder'
  BY <1>1 DEF PiInv, ClosedInOrder, Waits, Closing, Closed, Nodes
<1>5. SockClosed'
  BY DEF PiInv, TypeOK, EpollClosed, SockClosed
<1>6. QED
  BY <1>2, <1>3, <1>4, <1>5

(* And what the types ask.                                                 *)
Places == {"off", "begin", "loop", "wait", "write", "exit", "quit", "good", "bad", "poll"}
LEMMA WorkerTypes ==
  ASSUME TypeOK, EpollClosed, NEW n \in Nodes, NEW from, NEW to \in Places,
         Goes(n, from, to),
         UNCHANGED <<fate, main, waiting, sock, setting, file, script, missed, starts>>,
         flag' \in [Nodes -> BOOLEAN], holder' \in [Fds -> {"free", "sock", "epoll"}],
         n = "recv" /\ to \in {"off", "begin"} => \A f \in Fds : holder'[f] # "epoll",
         n = "send" => holder' = holder,
         link' \in {"none", "up", "closed", "reset", "down"}, asked' \in BOOLEAN,
         illu' \in Illus, answers' \in Seq(Illus),
         illufile' \in Illus \cup {Empty, Missing}, unwritten' \in BOOLEAN,
         errors' \in 0 .. MaxErrors, late' \in BOOLEAN
  PROVE  TypeOK' /\ EpollClosed'
<1>1. /\ pc' \in [Nodes -> Places]
      /\ pc'["recv"] \in {"off", "begin"} => \A f \in Fds : holder'[f] # "epoll"
  BY DEF Goes, TypeOK, EpollClosed, Places, Nodes
<1>2. QED
  BY <1>1 DEF TypeOK, EpollClosed, Places

-----------------------------------------------------------------------------
(* PiClient: the receive node.                                             *)

(* It finds nothing, finishes a file, or finds that it is alone.           *)
LEMMA RecvQuiet ==
  ASSUME PiInv, RNothing \/ RLost \/ RWrite \/ RSilent
  PROVE  PiInv'
<1>1. PICK from \in {"wait", "loop", "write"}, to \in {"loop", "exit"} :
        /\ Goes("recv", from, to)
        /\ to = "exit" => link # "none" \/ late'
  BY DEF RNothing, RLost, RWrite, RSilent, LostLink
<1>2. /\ UNCHANGED <<procvars, flag, illu, netvars, file, script, missed, starts, errors>>
      /\ late' \in BOOLEAN /\ (late => late')
      /\ illufile' \in Illus \cup {Empty, Missing} /\ unwritten' \in BOOLEAN
  BY DEF RNothing, RLost, RWrite, RSilent, filevars, counters, PiInv, TypeOK,
         EpollClosed
<1>3. TypeOK' /\ EpollClosed'
  BY <1>1, <1>2, WorkerTypes DEF PiInv, TypeOK, EpollClosed, procvars, netvars,
                                 Nodes, Places
<1>4. QED
  BY <1>1, <1>2, <1>3, WorkerMoves DEF PiInv, procvars, netvars, Nodes

(* Where its run function begins and ends, it opens and closes its epoll   *)
(* descriptor.                                                             *)
LEMMA RecvEpoll ==
  ASSUME PiInv, RBegin \/ RLoop \/ RFails
  PROVE  PiInv'
<1>1. PICK from \in {"begin", "loop", "wait"}, to \in {"loop", "wait", "off"} :
        /\ Goes("recv", from, to)
        /\ \/ holder' = holder /\ (to = "off" => from = "begin")
           \/ to # "off" /\ \E f \in Fds : Open(f, "epoll")
           \/ CloseEpoll
  BY DEF RBegin, RLoop, RFails
<1>2. /\ UNCHANGED <<fate, main, waiting, sock, flag, illu, netvars, filevars,
                    starts, late>>
      /\ errors' \in 0 .. MaxErrors
  BY ConstantsAssumption DEF RBegin, RLoop, RFails, counters, PiInv, TypeOK,
                             EpollClosed
<1>3. /\ holder' \in [Fds -> {"free", "sock", "epoll"}]
      /\ to = "off" => \A f \in Fds : holder'[f] # "epoll"
      /\ \A f \in Fds : holder'[f] = "sock" => holder[f] = "sock"
  <2>1. CASE holder' = holder /\ (to = "off" => from = "begin")
    BY <1>1, <2>1 DEF PiInv, TypeOK, EpollClosed, Goes
  <2>2. CASE to # "off" /\ \E f \in Fds : Open(f, "epoll")
    BY <2>2 DEF PiInv, TypeOK, EpollClosed, Open
  <2>3. CASE CloseEpoll
    BY <2>3 DEF PiInv, TypeOK, EpollClosed, CloseEpoll
  <2>4. QED
    BY <1>1, <2>1, <2>2, <2>3
<1>4. TypeOK' /\ EpollClosed'
  BY <1>1, <1>2, <1>3, WorkerTypes DEF PiInv, TypeOK, EpollClosed, netvars,
                                       filevars, Nodes, Places
<1>5. QED
  BY <1>1, <1>2, <1>3, <1>4, WorkerMoves DEF PiInv, netvars, Nodes

(* It receives an illumination.                                            *)
LEMMA RecvAnswer ==
  ASSUME PiInv, RAnswer
  PROVE  PiInv'
<1>1. PICK to \in {"loop", "write"} : Goes("recv", "wait", to)
  BY DEF RAnswer, Opened, NotOpened
<1>2. UNCHANGED <<procvars, flag, link, asked, setting, file, script, missed, counters>>
  BY DEF RAnswer
<1>3. Head(answers) \in Illus /\ answers' \in Seq(Illus)
  BY HeadTailProperties DEF RAnswer, PiInv, TypeOK, EpollClosed
<1>4. /\ illu' \in Illus /\ illufile' \in Illus \cup {Empty, Missing}
      /\ unwritten' \in BOOLEAN
  BY <1>3 DEF RAnswer, Opened, NotOpened, PiInv, TypeOK, EpollClosed
<1>5. TypeOK' /\ EpollClosed'
  BY <1>1, <1>2, <1>3, <1>4, WorkerTypes
     DEF PiInv, TypeOK, EpollClosed, procvars, counters, Nodes, Places
<1>6. QED
  BY <1>1, <1>2, <1>5, WorkerMoves DEF PiInv, procvars, counters, Nodes

(* It ends the process.                                                    *)
LEMMA RecvExit ==
  ASSUME PiInv, RExit
  PROVE  PiInv'
<1>1. /\ Goes("recv", "exit", "quit")
      /\ flag' = [flag EXCEPT !["recv"] = FALSE]
      /\ UNCHANGED <<procvars, illu, netvars, filevars, counters>>
  BY DEF RExit
<1>2. TypeOK' /\ EpollClosed'
  BY <1>1, WorkerTypes
     DEF PiInv, TypeOK, EpollClosed, procvars, netvars, filevars, counters, Nodes, Places
<1>3. /\ pc["recv"] = "exit" /\ pc'["recv"] = "quit" /\ pc'["send"] = pc["send"]
      /\ flag'["send"] = flag["send"]
  BY <1>1 DEF Goes, PiInv, TypeOK, EpollClosed, Nodes
<1>4. Down' /\ FlagsKept' /\ SockClosed'
  BY <1>1, <1>3 DEF PiInv, Down, FlagsKept, SockClosed, procvars, netvars, Nodes
<1>5. ClosedInOrder'
  BY <1>1, <1>3 DEF PiInv, ClosedInOrder, Waits, Closing, Closed, procvars, netvars,
                    counters, Nodes
<1>6. QED
  BY <1>2, <1>4, <1>5 DEF PiInv

LEMMA RecvQuit ==
  ASSUME PiInv, RQuit
  PROVE  PiInv'
BY OverStep DEF RQuit

-----------------------------------------------------------------------------
(* PiClient: the send node.                                                *)

LEMMA SendSteps ==
  ASSUME PiInv, SendStep \/ ReadT
  PROVE  PiInv'
<1>1. ASSUME NEW from \in {"loop", "good", "poll"}, NEW to \in {"loop", "poll"},
             Send(from, to), asked' \in BOOLEAN
      PROVE  PiInv'
  <2>1. /\ UNCHANGED <<procvars, flag, illu, answers, setting, filevars, counters>>
        /\ Goes("send", from, to)
        /\ link' \in {"none", "up", "closed", "reset", "down"}
        /\ link' = "none" <=> link = "none"
    BY <1>1 DEF Send, PiInv, TypeOK, EpollClosed
  <2>2. TypeOK' /\ EpollClosed'
    BY <1>1, <2>1, WorkerTypes
       DEF PiInv, TypeOK, EpollClosed, procvars, filevars, counters, Nodes, Places
  <2>3. QED
    BY <2>1, <2>2, WorkerMoves DEF PiInv, procvars, counters, Nodes
<1>2. ASSUME NEW from, Killed(from) PROVE PiInv'
  BY <1>2, OverStep DEF Killed
<1>3. ASSUME NEW from \in {"begin", "loop"}, NEW to \in {"loop", "off", "good", "bad"},
             Goes("send", from, to),
             UNCHANGED <<procvars, flag, illu, netvars, filevars, counters>>
      PROVE  PiInv'
  <2>1. TypeOK' /\ EpollClosed'
    BY <1>3, WorkerTypes
       DEF PiInv, TypeOK, EpollClosed, procvars, netvars, filevars, counters, Nodes, Places
  <2>2. QED
    BY <1>3, <2>1, WorkerMoves DEF PiInv, procvars, netvars, counters, Nodes
<1>4. asked \in BOOLEAN
  BY DEF PiInv, TypeOK, EpollClosed
<1>5. CASE SBegin \/ SStop \/ ReadT
  BY <1>3, <1>5 DEF SBegin, SStop, ReadT
<1>6. CASE Heart
  BY <1>1, <1>2, <1>4, <1>6 DEF Heart
<1>7. CASE Upload
  BY <1>1, <1>2, <1>4, <1>7, OverStep DEF Upload
<1>8. CASE Poll
  BY <1>1, <1>2, <1>4, <1>8 DEF Poll
<1>9. QED
  BY <1>5, <1>6, <1>7, <1>8 DEF SendStep

-----------------------------------------------------------------------------
(* PiClient: the server, the network and the sensors' scripts.             *)

LEMMA OutsideStep ==
  ASSUME PiInv, SetIllu \/ Answer \/ LinkBreaks \/ ScriptStep
  PROVE  PiInv'
<1>1. UNCHANGED <<procvars, nodevars, counters>>
  BY DEF SetIllu, Answer, LinkBreaks, ScriptStep, Truncate, Fill, NothingMeasured,
         CatIllu, Show
<1>2. /\ link' \in {"none", "up", "closed", "reset", "down"}
      /\ link' = "none" <=> link = "none"
  BY DEF SetIllu, Answer, LinkBreaks, ScriptStep, Truncate, Fill, NothingMeasured,
         CatIllu, Show, netvars, PiInv, TypeOK, EpollClosed
<1>3. TypeOK' /\ EpollClosed'
  <2>1. /\ setting' \in Illus /\ asked' \in BOOLEAN /\ answers' \in Seq(Illus)
        /\ UNCHANGED <<illufile, unwritten>>
    <3>1. setting \in Illus /\ asked \in BOOLEAN /\ answers \in Seq(Illus)
      BY DEF PiInv, TypeOK, EpollClosed
    <3>2. <<setting>> \in Seq(Illus)
      BY <3>1
    <3>3. CASE ScriptStep
      BY <3>1, <3>3 DEF ScriptStep, Truncate, Fill, NothingMeasured, CatIllu, Show,
                        netvars
    <3>4. QED
      BY <3>1, <3>2, <3>3 DEF SetIllu, Answer, LinkBreaks, filevars
  <2>2. /\ file' \in [DataFiles -> {"missing", "empty", "whole"}]
        /\ script' \in {"db", "data_db", "illu", "t", "data", "show", "dead"}
        /\ missed' \in BOOLEAN
    <3>1. /\ file \in [DataFiles -> {"missing", "empty", "whole"}]
          /\ script \in {"db", "data_db", "illu", "t", "data", "show", "dead"}
          /\ missed \in BOOLEAN
      BY DEF PiInv, TypeOK, EpollClosed
    <3>2. ASSUME NEW f \in DataFiles, Truncate(f) \/ Fill(f) \/ NothingMeasured(f)
          PROVE  /\ file' \in [DataFiles -> {"missing", "empty", "whole"}]
                 /\ script' \in {"data_db", "illu", "data", "show"}
                 /\ missed' \in BOOLEAN
      BY <3>1, <3>2 DEF Truncate, Fill, NothingMeasured, Script, Rest, DataFiles
    <3>3. CASE CatIllu \/ Show
      BY <3>1, <3>3 DEF CatIllu, Show, Script
    <3>4. CASE SetIllu \/ Answer \/ LinkBreaks
      BY <3>1, <3>4 DEF SetIllu, Answer, LinkBreaks, filevars
    <3>5. QED
      BY <3>2, <3>3, <3>4 DEF ScriptStep
  <2>3. QED
    BY <1>1, <1>2, <2>1, <2>2 DEF PiInv, TypeOK, EpollClosed, procvars, nodevars,
                                  counters
<1>4. Down' /\ FlagsKept' /\ ClosedInOrder' /\ SockClosed'
  BY <1>1, <1>2 DEF PiInv, Down, FlagsKept, ClosedInOrder, SockClosed, Waits, Closing,
                    Closed, procvars, nodevars, counters
<1>5. QED
  BY <1>3, <1>4 DEF PiInv

LEMMA PiStep == PiInv /\ [Next]_vars => PiInv'
<1> SUFFICES ASSUME PiInv, [Next]_vars PROVE PiInv'
  OBVIOUS
<1>1. CASE MainStep
  BY <1>1, ConnectStep, StartStep, WorkStep, CloseNodeStep, OverStep DEF MainStep,
                                                                         MEnd
<1>2. CASE RecvStep \/ RSilent \/ RFails
  BY <1>2, RecvQuiet, RecvEpoll, RecvAnswer, RecvExit, RecvQuit DEF RecvStep
<1>3. CASE UNCHANGED vars
  BY <1>3 DEF vars, procvars, nodevars, netvars, filevars, counters, PiInv, TypeOK,
              EpollClosed, Down,
              FlagsKept, ClosedInOrder, SockClosed, Waits, Closing, Closed
<1>4. QED
  BY <1>1, <1>2, <1>3, LaunchStep, SendSteps, OutsideStep DEF Next

LEMMA PiInit == Init => PiInv
<1> SUFFICES ASSUME Init PROVE PiInv
  OBVIOUS
<1>1. TypeOK /\ EpollClosed
  <2>1. /\ 0 \in Illus /\ starts \in 0 .. MaxStarts /\ errors \in 0 .. MaxErrors
        /\ answers \in Seq(Illus)
    BY ConstantsAssumption DEF Init, Illus
  <2>2. /\ holder \in [Fds -> {"free", "sock", "epoll"}]
        /\ \A f \in Fds : holder[f] # "epoll"
        /\ flag \in [Nodes -> BOOLEAN] /\ pc \in [Nodes -> Places]
        /\ file \in [DataFiles -> {"missing", "empty", "whole"}]
    BY DEF Init, Places
  <2>3. QED
    BY <2>1, <2>2 DEF Init, TypeOK, EpollClosed, Places
<1>2. QED
  BY <1>1 DEF Init, PiInv, Down, FlagsKept, ClosedInOrder, SockClosed, Waits, Closing,
              Closed, Nodes

(* Types.                                                                  *)
THEOREM PiTypeCorrect == Spec => []TypeOK
<1>1. PiInv => TypeOK
  BY DEF PiInv
<1>2. QED
  BY <1>1, PiInit, PiStep, PTL DEF Spec

(* However the receive node's run function returns, its epoll descriptor   *)
(* is closed.                                                              *)
THEOREM EpollIsClosed == Spec => []EpollClosed
<1>1. PiInv => EpollClosed
  BY DEF PiInv
<1>2. QED
  BY <1>1, PiInit, PiStep, PTL DEF Spec

(* close() waits for no thread that waits for it: without a connection the *)
(* receive node learns nothing that makes it exit, unless it is late.      *)
THEOREM CloseIsAwaited == Spec => []CloseNotStuck
<1>1. PiInv => CloseNotStuck
  <2> SUFFICES ASSUME PiInv, ~late, waiting # "none"
               PROVE  pc[waiting] \notin {"exit", "quit"}
    BY DEF CloseNotStuck
  <2>1. Waits /\ waiting \in Nodes
    BY DEF PiInv, TypeOK, ClosedInOrder
  <2>2. link = "none"
    BY <2>1 DEF PiInv, ClosedInOrder, Closing
  <2>3. pc["recv"] \notin {"exit", "quit"} /\ pc["send"] \notin {"exit", "quit"}
    BY <2>2 DEF PiInv, ClosedInOrder, FlagsKept
  <2>4. QED
    BY <2>1, <2>3 DEF Nodes
<1>2. QED
  BY <1>1, PiInit, PiStep, PTL DEF Spec

(* A node is freed when its thread is done, and the second close() of the  *)
(* socket closes no other descriptor, for any number of them.              *)
THEOREM FreedInTime == Spec => []FreedIsUnused
<1>1. PiInv => FreedIsUnused
  <2> SUFFICES ASSUME PiInv, ~late PROVE
        /\ \A n \in Nodes : Freed(n) => pc[n] = "off"
        /\ main = "close-sock" => sock = 0 \/ holder[sock] = "free"
    BY DEF FreedIsUnused
  <2>1. \A n \in Nodes : Closed(n) => pc[n] = "off"
    BY DEF PiInv, ClosedInOrder
  <2>2. \A n \in Nodes : Freed(n) => pc[n] = "off"
    BY <2>1 DEF Freed, Closed
  <2>3. main = "close-sock" => sock = 0 \/ holder[sock] = "free"
    <3>1. main = "close-sock" => pc["recv"] = "off" /\ link = "none"
      BY <2>1 DEF Closed, Closing, Nodes, PiInv, ClosedInOrder
    <3>2. QED
      BY <3>1 DEF PiInv, TypeOK, EpollClosed, SockClosed
  <2>4. QED
    BY <2>2, <2>3
<1>2. QED
  BY <1>1, PiInit, PiStep, PTL DEF Spec

-----------------------------------------------------------------------------
(* PiClient: the file of the illumination.                                 *)

(* The receive node takes an illumination and writes it, and it alone.     *)
LEMMA IlluStep ==
  ASSUME PiInv, LearnedIsWritten, [Next]_vars
  PROVE  LearnedIsWritten'
<1> USE DEF LearnedIsWritten
<1>1. ASSUME NEW how \in {"ended", "lost", "aborted", "killed"}, Over(how)
      PROVE  LearnedIsWritten'
  BY <1>1 DEF Over
<1>2. pc \in [Nodes -> Places]
  BY DEF PiInv, TypeOK, EpollClosed, Places
<1>3. ASSUME UNCHANGED <<fate, illu, illufile, unwritten>>,
             pc'["recv"] # "write" => pc["recv"] # "write"
      PROVE  LearnedIsWritten'
  BY <1>3
<1>4. ASSUME NEW n \in Nodes, MStart(n) PROVE LearnedIsWritten'
  <2>1. pc[n] = "off" /\ pc'["recv"] \in {pc["recv"], "begin"}
        /\ (pc'["recv"] = pc["recv"] \/ n = "recv")
    BY <1>2, <1>4 DEF MStart, Main, PiInv, Down, Nodes
  <2>2. QED
    BY <1>3, <1>4, <2>1 DEF MStart, filevars
<1>5. CASE MainStep
  <2>1. CASE MInit \/ MRetry \/ MConnect \/ MWork \/ CloseNode \/ MCloseSock
    BY <1>3, <2>1 DEF MInit, MRetry, MConnect, MWork, CloseNode, MCloseSock, nodevars,
                      filevars
  <2>2. QED
    BY <1>1, <1>4, <1>5, <2>1 DEF MainStep, MEnd
<1>6. CASE RAnswer \/ RWrite
  <2>1. fate' = fate /\ "recv" \in Nodes
    BY <1>6 DEF RAnswer, RWrite, procvars, Nodes
  <2>2. CASE RAnswer
    BY <1>2, <2>1, <2>2 DEF RAnswer, Opened, NotOpened, Goes
  <2>3. CASE RWrite
    BY <1>2, <2>1, <2>3 DEF RWrite, Goes
  <2>4. QED
    BY <1>6, <2>2, <2>3
<1>7. ASSUME NEW n \in Nodes, NEW from, NEW to, Goes(n, from, to),
             n = "recv" => from # "write", UNCHANGED <<fate, illu, illufile, unwritten>>
      PROVE  LearnedIsWritten'
  BY <1>2, <1>3, <1>7 DEF Goes, Nodes
<1>8. CASE RBegin \/ RLoop \/ RNothing \/ RLost \/ RExit \/ RSilent \/ RFails
  BY <1>7, <1>8 DEF RBegin, RLoop, RNothing, RLost, RExit, RSilent, RFails, procvars,
                    filevars, Nodes
<1>9. CASE SendStep \/ ReadT
  <2>1. ASSUME NEW from, NEW to, Send(from, to) PROVE LearnedIsWritten'
    BY <1>7, <2>1 DEF Send, procvars, filevars, Nodes
  <2>2. ASSUME NEW from, Killed(from) PROVE LearnedIsWritten'
    BY <1>1, <2>2 DEF Killed
  <2>3. CASE SBegin \/ SStop \/ ReadT
    BY <1>7, <2>3 DEF SBegin, SStop, ReadT, procvars, filevars, Nodes
  <2>4. QED
    BY <1>1, <1>9, <2>1, <2>2, <2>3 DEF SendStep, Heart, Upload, Poll
<1>10. CASE SetIllu \/ Answer \/ LinkBreaks \/ ScriptStep \/ UNCHANGED vars
  BY <1>10 DEF SetIllu, Answer, LinkBreaks, ScriptStep, Truncate, Fill,
               NothingMeasured,
               CatIllu, Show, vars, procvars, nodevars, filevars
<1>11. CASE Launch
  BY <1>11 DEF Launch
<1>12. QED
  BY <1>1, <1>5, <1>6, <1>8, <1>9, <1>10, <1>11 DEF Next, RecvStep, RQuit

(* Whatever a client that was killed before has left in data_illu, what    *)
(* this one has learned of the illumination is what the file says, unless  *)
(* the open or the writing failed then.                                    *)
THEOREM LearnedOnFile == Spec => []LearnedIsWritten
<1>1. Init => LearnedIsWritten
  BY DEF Init, LearnedIsWritten
<1>2. QED
  BY <1>1, IlluStep, PiInit, PiStep, PTL DEF Spec

=============================================================================
