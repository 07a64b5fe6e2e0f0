---------------------------- MODULE Heartbeat_proofs ---------------------------
(***************************************************************************)
(* What the timers of both sides make of silence, proved for all periods,  *)
(* limits and bounds and for a link that fails as often as it likes.       *)
(*                                                                         *)
(* A timer's sum and what has passed since its beginning are compared with *)
(* the time since the other side was really heard: ahead of it by at most  *)
(* a pass, for a sum set to zero in the middle of a pass gets all of it,   *)
(* and behind it by at most what was lost in gaps.                         *)
(***************************************************************************)
EXTENDS Heartbeat, SequenceTheorems, TLAPS

Types == /\ looked \subseteq Thread /\ gap \subseteq Thread /\ looked \cap gap = {}
         /\ begin \in [Thread -> 0 .. Pass]
         /\ silent \in Nat /\ hb \in Nat
         /\ alive \in BOOLEAN /\ client \in {"new", "in", "gone"}
         /\ heard \in [Way -> Nat] /\ lost \in 0 .. MaxLost

(* The server's side: the sum of the client node, as of the next check. *)
HbSum == hb + begin["work"]
ServerInv == /\ client = "new" => hb = 0
             /\ client = "in" => /\ hb <= HbLimit
                                 /\ HbSum <= heard["up"] + Pass
                                 /\ heard["up"] <= HbSum + lost

(* The Pi's side: the sum already has the pass when it is about to be      *)
(* tested.                                                                 *)
PiSum == IF "recv" \in gap THEN silent ELSE silent + begin["recv"]
PiInv == alive => /\ "recv" \notin gap => silent < PiLimit
                  /\ silent < PiLimit + Pass
                  /\ PiSum <= heard["down"] + Pass
                  /\ heard["down"] <= PiSum + lost

IInv == Types /\ ServerInv /\ PiInv

-----------------------------------------------------------------------------

LEMMA InitIInv == Init => IInv
<1> SUFFICES ASSUME Init PROVE IInv
  OBVIOUS
<1> USE ConstantsAssumption DEF Init, Thread, Way
<1>1. PICK n \in 0 .. Pass : begin = [t \in Thread |-> IF t = "work" THEN n ELSE 0]
  OBVIOUS
<1>2. Types
  BY <1>1 DEF Types
<1>3. ServerInv
  BY <1>1 DEF ServerInv
<1>4. PiInv
  BY <1>1 DEF PiInv, PiSum
<1> QED
  BY <1>2, <1>3, <1>4 DEF IInv

(* Steps of the three threads, of the network, and of time. *)
LEMMA SendStep ==
  ASSUME IInv, SendRead \/ Send
  PROVE  IInv'
<1> USE ConstantsAssumption DEF IInv, Types, ServerInv, PiInv, HbSum, PiSum, Thread, Way
<1>1. CASE SendRead
  BY <1>1 DEF SendRead, Read
<1>2. CASE Send
  <2>1. alive' \in BOOLEAN /\ (alive' => alive)
    BY <1>2 DEF Send
  <2> QED
    BY <1>2, <2>1 DEF Send, Update
<1> QED
  BY <1>1, <1>2

LEMMA RecvStep ==
  ASSUME IInv, RecvNothing \/ RecvData \/ RecvEnd \/ RecvRead \/ RecvTest
  PROVE  IInv'
<1> USE ConstantsAssumption DEF IInv, Types, ServerInv, PiInv, HbSum, PiSum, Thread, Way
<1>1. CASE RecvNothing
  BY <1>1 DEF RecvNothing, Look, Waits
<1>2. CASE RecvData
  BY <1>2 DEF RecvData, Look, Waits
<1>3. CASE RecvEnd
  BY <1>3 DEF RecvEnd
<1>5. CASE RecvRead
  BY <1>5 DEF RecvRead, Read
<1>4. CASE RecvTest
  <2>1. /\ "recv" \in gap /\ gap' = gap \ {"recv"}
        /\ begin' = [begin EXCEPT !["recv"] = 0]
        /\ UNCHANGED <<looked, silent, hb, client, heard, lost>>
    BY <1>4 DEF RecvTest, Update
  <2>2. alive /\ alive' \in BOOLEAN /\ (alive' => silent < PiLimit)
    <3>1. alive /\ alive' = ~TooSilent
      BY <1>4 DEF RecvTest
    <3>2. ~TooSilent => silent < PiLimit
      BY DEF TooSilent
    <3> QED
      BY <3>1, <3>2, Zenon
  <2> QED
    BY <2>1, <2>2
<1> QED
  BY <1>1, <1>2, <1>3, <1>4, <1>5

LEMMA WorkStep ==
  ASSUME IInv, Join \/ WorkNothing \/ WorkData \/ WorkEnd \/ WorkRead \/ CheckHb
  PROVE  IInv'
<1> USE ConstantsAssumption DEF IInv, Types, ServerInv, PiInv, HbSum, PiSum, Thread, Way
<1>1. CASE Join
  BY <1>1 DEF Join
<1>2. CASE WorkNothing
  BY <1>2 DEF WorkNothing, Look, Waits
<1>3. CASE WorkData
  BY <1>3 DEF WorkData, Look, Waits, Beats
<1>4. CASE WorkEnd
  BY <1>4 DEF WorkEnd, Look, Waits
<1>5. CASE CheckHb
  BY <1>5 DEF CheckHb, Update, TooOld
<1>6. CASE WorkRead
  BY <1>6 DEF WorkRead, Read
<1> QED
  BY <1>1, <1>2, <1>3, <1>4, <1>5, <1>6

LEMMA NetworkStep ==
  ASSUME IInv, (\E w \in Way : Arrive(w)) \/ Fail \/ Heal
  PROVE  IInv'
<1>1. UNCHANGED <<looked, gap, begin, silent, hb, alive, client, heard, lost>>
  BY DEF Arrive, Fail, Heal
<1> QED
  BY <1>1 DEF IInv, Types, ServerInv, PiInv, HbSum, PiSum

(* While time goes on, a sum and the silence grow together, but in a gap   *)
(* only the silence does, and what is lost.                                *)
LEMMA TickStep ==
  ASSUME IInv, Tick
  PROVE  IInv'
<1> USE ConstantsAssumption DEF IInv, Types, Thread, Way
<1>1. /\ client = "in" => "work" \in Timed
      /\ alive => "recv" \in Timed
  BY DEF Timed
<1>2. \A t \in Thread : begin'[t] = IF t \in Timed \ gap THEN begin[t] + 1 ELSE begin[t]
  BY DEF Tick
<1>3. \A t \in Timed \ gap : begin[t] < Pass
  BY DEF Tick
<1>4. /\ lost' \in 0 .. MaxLost /\ lost <= lost'
      /\ Timed \cap gap # {} => lost' = lost + 1
  BY DEF Tick
<1>5. /\ heard'["up"] = IF "work" \in Timed THEN heard["up"] + 1 ELSE heard["up"]
      /\ heard'["down"] = IF alive THEN heard["down"] + 1 ELSE heard["down"]
      /\ heard' \in [Way -> Nat]
  BY DEF Tick, Listens
<1>6. UNCHANGED <<looked, gap, silent, hb, alive, client>>
  BY DEF Tick
<1>7. begin' \in [Thread -> 0 .. Pass]
  BY <1>3 DEF Tick
<1>8. Types'
  BY <1>4, <1>5, <1>6, <1>7
<1>9. ServerInv'
  BY <1>1, <1>2, <1>4, <1>5, <1>6 DEF ServerInv, HbSum
<1>10. PiInv'
  BY <1>1, <1>2, <1>4, <1>5, <1>6 DEF PiInv, PiSum
<1> QED
  BY <1>8, <1>9, <1>10

LEMMA Inductive == Spec => []IInv
<1>1. Init => IInv
  BY InitIInv
<1>2. IInv /\ [Next]_vars => IInv'
  <2>1. CASE UNCHANGED vars
    BY <2>1 DEF vars, IInv, Types, ServerInv, PiInv, HbSum, PiSum
  <2>2. CASE Next
    BY <2>2, SendStep, RecvStep, WorkStep, NetworkStep, TickStep DEF Next
  <2> QED
    BY <2>1, <2>2
<1> QED
  BY <1>1, <1>2, PTL DEF Spec

-----------------------------------------------------------------------------

(* check_hb() finds dead only a client whose heart has not been heard for  *)
(* the limit, less a pass (m_client_node.cpp:28-38).                       *)
THEOREM DroppedWereSilent == Spec => OnlyTheSilent
<1>1. IInv /\ [Next]_vars =>
        [CheckHb /\ client = "in" /\ client' = "gone" => heard["up"] + Pass > HbLimit]_vars
  BY ConstantsAssumption
  DEF IInv, Types, ServerInv, HbSum, CheckHb, Update, TooOld, Thread, Way
<1> QED
  BY <1>1, Inductive, PTL DEF Spec, OnlyTheSilent

(* A client whose heart is not heard is dropped, by the worker's pass at   *)
(* the latest that ends a pass and the gaps after the limit                *)
(* (m_group_node.cpp:163-187).                                             *)
THEOREM SilentGo == Spec => []SilentAreDropped
<1>1. IInv => SilentAreDropped
  BY ConstantsAssumption
  DEF IInv, Types, ServerInv, HbSum, SilentAreDropped, Thread, Way
<1> QED
  BY <1>1, Inductive, PTL

(* The Pi gives up only when it has heard nothing for its patience, less a *)
(* pass (m_recv_node.cpp:95-103).                                          *)
THEOREM PiWaits == Spec => PiIsPatient
<1>1. IInv /\ [Next]_vars =>
        [RecvTest /\ ~alive' => heard["down"] + Pass >= PiLimit]_vars
  BY ConstantsAssumption
  DEF IInv, Types, PiInv, PiSum, RecvTest, Update, TooSilent, Thread, Way
<1> QED
  BY <1>1, Inductive, PTL DEF Spec, PiIsPatient

(* The Pi does not outlive a server that it hears nothing from by more     *)
(* than a pass and the gaps (m_recv_node.cpp:98).                          *)
THEOREM PiGivesUp == Spec => []PiNotices
<1>1. IInv => PiNotices
  BY ConstantsAssumption
  DEF IInv, Types, PiInv, PiSum, PiNotices, Thread, Way
<1> QED
  BY <1>1, Inductive, PTL

-----------------------------------------------------------------------------
(* The types, with the bounds of the sums.  A packet is on its way for no  *)
(* longer than Delay because the first one is the oldest.                  *)

Packet == [heart : BOOLEAN, age : 0 .. Delay]
OldestFirst(s) == \A i, j \in 1 .. Len(s) : i < j => s[j].age <= s[i].age
Wires == \A w \in Way : wire[w] \in Seq(Packet) /\ OldestFirst(wire[w])

(* The sums of the send node are below their periods between the passes.   *)
Sums == "send" \notin gap => beat < Beat /\ data < DataEvery

LEMMA PutPacket ==
  ASSUME NEW s \in Seq(Packet), OldestFirst(s), NEW heart \in BOOLEAN
  PROVE  Put(s, heart) \in Seq(Packet) /\ OldestFirst(Put(s, heart))
<1>1. \A h \in BOOLEAN : [heart |-> h, age |-> 0] \in Packet
  BY ConstantsAssumption DEF Packet
<1>2. CASE link = "down" /\ s # <<>>
  <2>1. (heart \/ s[1].heart) \in BOOLEAN
    BY Zenon
  <2> DEFINE p == [heart |-> heart \/ s[1].heart, age |-> 0]
  <2>2. Put(s, heart) = <<p>> /\ p \in Packet
    BY <1>1, <1>2, <2>1 DEF Put
  <2> HIDE DEF p
  <2> QED
    BY <2>2 DEF OldestFirst
<1>3. CASE ~(link = "down" /\ s # <<>>)
  <2> DEFINE p == [heart |-> heart, age |-> 0]
             t == Append(s, p)
  <2>1. Put(s, heart) = t /\ p \in Packet /\ p.age = 0
    BY <1>1, <1>3 DEF Put
  <2>2. t \in Seq(Packet) /\ Len(t) = Len(s) + 1
        /\ (\A i \in 1 .. Len(s) : t[i] = s[i]) /\ t[Len(s) + 1] = p
    BY <2>1
  <2>3. \A i \in 1 .. Len(s) : s[i] \in Packet
    BY ElementOfSeq
  <2>4. Len(s) \in Nat
    BY LenProperties
  <2>5. ASSUME NEW i \in 1 .. Len(t), NEW j \in 1 .. Len(t), i < j
        PROVE  t[j].age <= t[i].age
    <3>1. i \in 1 .. Len(s) /\ t[i] = s[i] /\ s[i].age \in Nat
      BY <2>2, <2>3, <2>4, <2>5 DEF Packet
    <3>2. CASE j = Len(s) + 1
      BY <2>1, <2>2, <3>1, <3>2
    <3>3. CASE j \in 1 .. Len(s)
      BY <2>2, <2>5, <3>1, <3>3 DEF OldestFirst
    <3> QED
      BY <2>2, <2>4, <3>2, <3>3
  <2> QED
    BY <2>1, <2>2, <2>5 DEF OldestFirst
<1> QED
  BY <1>2, <1>3

LEMMA TakePacket ==
  ASSUME NEW s \in Seq(Packet), OldestFirst(s), s # <<>>
  PROVE  /\ Tail(s) \in Seq(Packet) /\ OldestFirst(Tail(s))
         /\ Head(s).heart \in BOOLEAN
<1>1. /\ Head(s) \in Packet /\ Tail(s) \in Seq(Packet)
      /\ Len(Tail(s)) = Len(s) - 1
      /\ \A i \in 1 .. Len(Tail(s)) : Tail(s)[i] = s[i + 1]
  BY HeadTailProperties
<1>2. Len(s) \in Nat
  BY LenProperties
<1> QED
  BY <1>1, <1>2 DEF OldestFirst, Packet

LEMMA MergePackets ==
  ASSUME NEW s \in Seq(Packet)
  PROVE  Merged(s) \in Seq(Packet) /\ OldestFirst(Merged(s))
<1> DEFINE p == [heart |-> \E n \in DOMAIN s : s[n].heart, age |-> 0]
<1>1. p \in Packet
  BY ConstantsAssumption DEF Packet
<1>2. Merged(s) = IF s = <<>> THEN <<>> ELSE <<p>>
  BY DEF Merged
<1> HIDE DEF p
<1> QED
  BY <1>1, <1>2 DEF OldestFirst

LEMMA AgePackets ==
  ASSUME NEW s \in Seq(Packet), OldestFirst(s), s # <<>> => Head(s).age < Delay
  PROVE  Older(s) \in Seq(Packet) /\ OldestFirst(Older(s))
<1>1. Len(s) \in Nat /\ DOMAIN s = 1 .. Len(s) /\ \A i \in 1 .. Len(s) : s[i] \in Packet
  BY LenProperties, ElementOfSeq
<1>2. \A i \in 1 .. Len(s) : s[i].age < Delay
  <2> SUFFICES ASSUME NEW i \in 1 .. Len(s) PROVE s[i].age < Delay
    OBVIOUS
  <2>1. s # <<>> /\ Head(s) = s[1] /\ 1 \in 1 .. Len(s)
    BY <1>1
  <2>2. s[i].age <= s[1].age
    BY <1>1, <2>1 DEF OldestFirst, Packet
  <2> QED
    BY <1>1, <2>1, <2>2, ConstantsAssumption DEF Packet
<1>3. \A i \in 1 .. Len(s) : /\ [s[i] EXCEPT !.age = @ + 1] \in Packet
                             /\ [s[i] EXCEPT !.age = @ + 1].age = s[i].age + 1
  BY <1>1, <1>2, ConstantsAssumption, SMTT(30) DEF Packet
<1>4. Older(s) \in [1 .. Len(s) -> Packet]
      /\ \A i \in 1 .. Len(s) : Older(s)[i].age = s[i].age + 1
  BY <1>1, <1>3 DEF Older
<1>5. Older(s) \in Seq(Packet) /\ Len(Older(s)) = Len(s)
  BY <1>1, <1>4
<1> QED
  BY <1>1, <1>4, <1>5 DEF OldestFirst, Packet

Typed == TypeOK /\ Wires /\ Sums

LEMMA InitTyped == Init => Typed
<1> SUFFICES ASSUME Init PROVE Typed
  OBVIOUS
<1> USE ConstantsAssumption
<1>1. PICK n \in 0 .. Pass : begin = [t \in Thread |-> IF t = "work" THEN n ELSE 0]
  BY DEF Init
<1>2. begin \in [Thread -> 0 .. Pass]
  BY <1>1
<1>3. wire \in [Way -> Seq(Packet)] /\ Wires
  BY DEF Init, Wires, OldestFirst
<1>4. arrived \in [{"up", "down", "heart"} -> BOOLEAN]
  BY DEF Init
<1>5. heard \in [Way -> Nat]
  BY DEF Init
<1>6. /\ looked \subseteq Thread /\ gap \subseteq Thread /\ looked \cap gap = {}
      /\ beat \in 0 .. Beat + Pass - 1
      /\ data \in 0 .. DataEvery + Pass - 1 /\ silent \in 0 .. PiLimit + Pass - 1
      /\ hb \in 0 .. HbLimit /\ alive \in BOOLEAN /\ client \in {"new", "in", "gone"}
      /\ lost \in 0 .. MaxLost /\ link \in {"up", "down"} /\ outages \in 0 .. MaxOutages
      /\ Sums
  BY DEF Init, Sums
<1> QED
  BY <1>2, <1>3, <1>4, <1>5, <1>6 DEF Typed, TypeOK, Packet

(* The threads. *)
LEMMA SendTyped ==
  ASSUME IInv, Typed, SendRead \/ Send
  PROVE  Typed'
<1> USE ConstantsAssumption
<1>1. CASE SendRead
  <2>1. begin["send"] \in 0 .. Pass
    BY DEF Typed, TypeOK, Thread
  <2>2. TypeOK'
    <3>1. Types'
      BY SendStep, <1>1 DEF IInv
    <3>2. beat' \in 0 .. Beat + Pass - 1 /\ data' \in 0 .. DataEvery + Pass - 1
      BY <1>1, <2>1 DEF Typed, TypeOK, Sums, SendRead, Read
    <3>3. UNCHANGED <<silent, hb, wire, arrived, link, outages>>
      BY <1>1 DEF SendRead, net
    <3> QED
      BY <3>1, <3>2, <3>3 DEF Typed, TypeOK, Types
  <2>3. Wires' /\ Sums'
    BY <1>1 DEF Typed, Wires, Sums, SendRead, Read
  <2> QED
    BY <2>2, <2>3 DEF Typed
<1>2. CASE Send
  <2>1. looked' \subseteq Thread /\ gap' \subseteq Thread /\ looked' \cap gap' = {}
        /\ begin' \in [Thread -> 0 .. Pass]
    BY <1>2 DEF Send, Update, Typed, TypeOK
  <2>2. alive' \in BOOLEAN
    BY <1>2 DEF Send
  <2>3. /\ beat' \in 0 .. Beat + Pass - 1 /\ data' \in 0 .. DataEvery + Pass - 1
        /\ beat' < Beat /\ data' < DataEvery
    BY <1>2 DEF Send, HeartDue, DataDue, Typed, TypeOK
  <2>4. wire' \in [Way -> Seq(Packet)] /\ Wires'
    <3>1. wire["up"] \in Seq(Packet) /\ OldestFirst(wire["up"]) /\ HeartDue \in BOOLEAN
      BY DEF Typed, Wires, Way, HeartDue
    <3>2. Put(wire["up"], HeartDue) \in Seq(Packet)
          /\ OldestFirst(Put(wire["up"], HeartDue))
      BY <3>1, PutPacket
    <3>3. wire' = wire \/ wire' = [wire EXCEPT !["up"] = Put(@, HeartDue)]
      BY <1>2 DEF Send
    <3>4. wire \in [Way -> Seq(Packet)]
      BY DEF Typed, TypeOK, Packet
    <3> QED
      BY <3>2, <3>3, <3>4 DEF Typed, Wires, Way
  <2>5. UNCHANGED <<silent, hb, client, arrived, heard, lost, link, outages>>
    BY <1>2 DEF Send, net
  <2> QED
    BY <2>1, <2>2, <2>3, <2>4, <2>5 DEF Typed, TypeOK, Sums, Packet
<1> QED
  BY <1>1, <1>2

LEMMA RecvTyped ==
  ASSUME IInv, Typed, RecvNothing \/ RecvData \/ RecvEnd \/ RecvRead \/ RecvTest
  PROVE  Typed'
<1> USE ConstantsAssumption
<1>1. Wires' /\ Sums'
  BY DEF Typed, Wires, Sums, RecvNothing, RecvData, RecvEnd, RecvRead, RecvTest, Look, Read, Update
<1>2. Types'
  BY RecvStep DEF IInv
<1>3. silent' \in 0 .. PiLimit + Pass - 1
  <2>1. /\ begin["recv"] \in 0 .. Pass /\ silent \in 0 .. PiLimit + Pass - 1
        /\ alive /\ "recv" \notin gap => silent < PiLimit
    BY DEF Typed, TypeOK, Thread, IInv, PiInv
  <2>2. \/ silent' = silent \/ silent' = 0
        \/ alive /\ "recv" \notin gap /\ silent' = silent + begin["recv"]
    BY DEF RecvNothing, RecvData, RecvEnd, RecvRead, RecvTest, Read
  <2> QED
    BY <2>1, <2>2
<1>4. arrived' \in [{"up", "down", "heart"} -> BOOLEAN]
  <2>1. arrived' = arrived \/ arrived' = [arrived EXCEPT !.down = FALSE]
    BY DEF RecvNothing, RecvData, RecvEnd, RecvRead, RecvTest
  <2> QED
    BY <2>1 DEF Typed, TypeOK
<1>5. UNCHANGED <<beat, data, hb, wire, link, outages>>
  BY DEF RecvNothing, RecvData, RecvEnd, RecvRead, RecvTest, net
<1> QED
  BY <1>1, <1>2, <1>3, <1>4, <1>5 DEF Typed, TypeOK, Types

LEMMA WorkTyped ==
  ASSUME IInv, Typed, Join \/ WorkNothing \/ WorkData \/ WorkEnd \/ WorkRead \/ CheckHb
  PROVE  Typed'
<1> USE ConstantsAssumption
<1>1. Sums'
  BY DEF Typed, Sums, Join, WorkNothing, WorkData, WorkEnd, WorkRead, CheckHb, Look, Read, Update
<1>2. wire' \in [Way -> Seq(Packet)] /\ Wires'
  <2>1. wire \in [Way -> Seq(Packet)] /\ wire["down"] \in Seq(Packet)
        /\ OldestFirst(wire["down"])
    BY DEF Typed, TypeOK, Wires, Way, Packet
  <2>2. Put(wire["down"], FALSE) \in Seq(Packet) /\ OldestFirst(Put(wire["down"], FALSE))
    BY <2>1, PutPacket
  <2>3. wire' = wire \/ wire' = [wire EXCEPT !["down"] = Put(@, FALSE)]
    BY DEF Join, WorkNothing, WorkData, WorkEnd, WorkRead, CheckHb
  <2> QED
    BY <2>1, <2>2, <2>3 DEF Typed, Wires, Way
<1>3. Types'
  BY WorkStep DEF IInv
<1>4. hb' \in 0 .. HbLimit
  <2>1. begin["work"] \in Nat /\ hb \in 0 .. HbLimit
    BY DEF Typed, TypeOK, Thread
  <2>2. hb' = hb \/ hb' = 0 \/ (hb' = hb + begin["work"] /\ ~(hb' > HbLimit))
    BY DEF Join, WorkNothing, WorkData, WorkEnd, WorkRead, CheckHb, TooOld
  <2> QED
    BY <2>1, <2>2
<1>5. arrived' \in [{"up", "down", "heart"} -> BOOLEAN]
  <2>1. \/ arrived' = arrived
        \/ arrived' = [arrived EXCEPT !.up = FALSE, !.heart = FALSE]
    BY DEF Join, WorkNothing, WorkData, WorkEnd, WorkRead, CheckHb
  <2> QED
    BY <2>1 DEF Typed, TypeOK
<1>6. UNCHANGED <<beat, data, silent, link, outages>>
  BY DEF Join, WorkNothing, WorkData, WorkEnd, WorkRead, CheckHb, net
<1> QED
  BY <1>1, <1>2, <1>3, <1>4, <1>5, <1>6 DEF Typed, TypeOK, Types, Packet

(* The network. *)
LEMMA NetworkTyped ==
  ASSUME IInv, Typed, (\E w \in Way : Arrive(w)) \/ Fail \/ Heal
  PROVE  Typed'
<1> USE ConstantsAssumption
<1>0. /\ UNCHANGED <<looked, gap, begin, beat, data, silent, hb, alive, client, heard, lost>>
      /\ wire \in [Way -> Seq(Packet)] /\ Wires /\ Sums
  BY DEF Arrive, Fail, Heal, Typed, TypeOK, Packet
<1>1. ASSUME NEW w \in Way, Arrive(w)
      PROVE  Typed'
  <2>1. wire[w] \in Seq(Packet) /\ OldestFirst(wire[w]) /\ wire[w] # <<>>
    BY <1>0, <1>1 DEF Wires, Arrive
  <2>2. Tail(wire[w]) \in Seq(Packet) /\ OldestFirst(Tail(wire[w]))
        /\ Head(wire[w]).heart \in BOOLEAN
    BY <2>1, TakePacket
  <2>3. wire' \in [Way -> Seq(Packet)] /\ Wires'
    BY <1>0, <1>1, <2>2 DEF Arrive, Wires
  <2>4. arrived' \in [{"up", "down", "heart"} -> BOOLEAN]
    BY <1>1, <2>2 DEF Arrive, Typed, TypeOK
  <2>5. UNCHANGED <<link, outages>>
    BY <1>1 DEF Arrive, net
  <2> QED
    BY <1>0, <2>3, <2>4, <2>5 DEF Typed, TypeOK, Packet, Sums
<1>2. CASE Fail
  <2>1. \A w \in Way : /\ Merged(wire[w]) \in Seq(Packet)
                       /\ OldestFirst(Merged(wire[w]))
    BY <1>0, MergePackets DEF Wires
  <2>2. wire' \in [Way -> Seq(Packet)] /\ Wires'
    BY <1>2, <2>1 DEF Fail, Wires
  <2>3. link' \in {"up", "down"} /\ outages' \in 0 .. MaxOutages /\ arrived' = arrived
    BY <1>2 DEF Fail, Typed, TypeOK
  <2> QED
    BY <1>0, <2>2, <2>3 DEF Typed, TypeOK, Packet, Sums
<1>3. CASE Heal
  BY <1>0, <1>3 DEF Heal, Typed, TypeOK, Packet, Sums, Wires
<1> QED
  BY <1>1, <1>2, <1>3

(* Time. *)
LEMMA TickTyped ==
  ASSUME IInv, Typed, Tick
  PROVE  Typed'
<1> USE ConstantsAssumption
<1>1. begin' \in [Thread -> 0 .. Pass] /\ lost' \in 0 .. MaxLost /\ heard' \in [Way -> Nat]
  <2>1. Types'
    BY TickStep DEF IInv
  <2> QED
    BY <2>1 DEF Types
<1>2. wire' \in [Way -> Seq(Packet)] /\ Wires'
  <2>1. wire \in [Way -> Seq(Packet)] /\ Wires
    BY DEF Typed, TypeOK, Packet
  <2>2. CASE link = "up"
    <3>1. \A w \in Way : wire[w] # <<>> => Head(wire[w]).age < Delay
      BY <2>2 DEF Tick, InTime
    <3>2. \A w \in Way : Older(wire[w]) \in Seq(Packet) /\ OldestFirst(Older(wire[w]))
      BY <2>1, <3>1, AgePackets DEF Wires
    <3> QED
      BY <2>2, <3>2 DEF Tick, Wires
  <2>3. CASE link # "up"
    BY <2>1, <2>3 DEF Tick, Wires
  <2> QED
    BY <2>2, <2>3
<1>3. UNCHANGED <<looked, gap, beat, data, silent, hb, alive, client, arrived, link,
                  outages>>
  BY DEF Tick, net
<1> QED
  BY <1>1, <1>2, <1>3 DEF Typed, TypeOK, Packet, Sums

LEMMA AlwaysTyped == Spec => []Typed
<1>1. IInv /\ Typed /\ [Next]_vars => Typed'
  <2>1. CASE UNCHANGED vars
    BY <2>1 DEF vars, Typed, TypeOK, Wires, Sums
  <2>2. ASSUME IInv, Typed, Next PROVE Typed'
    BY <2>2, SendTyped, RecvTyped, WorkTyped, NetworkTyped, TickTyped DEF Next
  <2> QED
    BY <2>1, <2>2
<1> QED
  BY <1>1, InitTyped, Inductive, PTL DEF Spec

(* Types, with the bounds of the sums: no timer counts further than its    *)
(* limit and a pass (m_timer.h:26-39).                                     *)
THEOREM TypeCorrect == Spec => []TypeOK
<1>1. Typed => TypeOK
  BY DEF Typed
<1> QED
  BY <1>1, AlwaysTyped, PTL

-----------------------------------------------------------------------------
(* That neither side gives up on a connection in order.  A heart is        *)
(* followed from the send node to the worker and its answer back to the    *)
(* recv node; at every station there is a bound for the silence so far,    *)
(* and it grows from one station to the next by what the way between them  *)
(* may take.                                                               *)

SinceBeat == IF "send" \in gap THEN beat ELSE beat + begin["send"]

(* What has arrived since the worker last looked waits no longer than this *)
(* so far: the rest of the pass in which it came, and the next one up to   *)
(* the look.                                                               *)
InPass == IF "work" \in looked \cup gap THEN begin["work"] ELSE Pass + begin["work"]

(* Whenever a heart is sent, it is this long after the one before at most. *)
Sent == Beat + Pass - 1 + lost

(* A silence of x is accounted for: a heart on its way breaks it, and it   *)
(* was no longer than k when that was sent, or the next heart will, since  *)
(* the silence is no longer than s, the time since the last one.           *)
Due(x, packets, s, k) ==
  \/ x <= s /\ \A n \in DOMAIN packets : ~packets[n].heart
  \/ \E n \in DOMAIN packets : packets[n].heart /\ x <= packets[n].age + k

(* The silence the worker hears, up to a heart. *)
UpTrip ==
  IF arrived.heart
  THEN client = "in" => heard["up"] <= Delay + Sent + InPass
  ELSE Due(heard["up"], wire["up"], SinceBeat + lost, Sent)

(* The silence the recv node counts, up to the answer.  It counts the      *)
(* whole pass in which the last answer came, and the answer that comes     *)
(* after the look of a pass does not stop that pass's test.                *)
DownTrip ==
  IF arrived.down
  THEN "recv" \in looked => PiSum <= 2 * Delay + Sent + 3 * Pass + begin["recv"]
  ELSE
    IF wire["down"] # <<>>
    THEN PiSum <= Head(wire["down"]).age + Delay + Sent + 3 * Pass
    ELSE IF arrived.up
         THEN client = "in" => PiSum <= Delay + Sent + Pass + InPass
         ELSE Due(PiSum, wire["up"], SinceBeat + Pass + lost, Sent + Pass)

(* Before the worker knows the client nothing is answered.                 *)
Waiting == /\ wire["down"] = <<>> /\ ~arrived.down
           /\ PiSum <= heard["up"] /\ heard["up"] <= Joining

Calm == /\ link = "up" /\ alive /\ client # "gone"
        /\ \A n \in DOMAIN wire["down"] : ~wire["down"][n].heart
        /\ arrived.heart => arrived.up
        /\ "recv" \in gap => silent < PiLimit
        /\ client = "new" => Waiting
        /\ UpTrip /\ DownTrip
InOrder == outages = 0 => Calm

LEMMA Packets ==
  ASSUME NEW wu \in Seq(Packet)
  PROVE  /\ DOMAIN wu = 1 .. Len(wu) /\ Len(wu) \in Nat
         /\ \A n \in DOMAIN wu : /\ wu[n].age \in Nat /\ wu[n].age <= Delay
                                /\ wu[n] \in Packet
<1>1. DOMAIN wu = 1 .. Len(wu) /\ Len(wu) \in Nat
      /\ \A n \in 1 .. Len(wu) : wu[n] \in Packet
  BY LenProperties, ElementOfSeq
<1>2. \A p \in Packet : p.age \in Nat /\ p.age <= Delay
  BY ConstantsAssumption DEF Packet
<1> QED
  BY <1>1, <1>2

(* What Due becomes when a packet is sent, arrives, or gets older. *)
LEMMA DueWeaker ==
  ASSUME NEW wu \in Seq(Packet), NEW x \in Nat, NEW s \in Nat, NEW k \in Nat,
         NEW y \in Nat, NEW t \in Nat, NEW l \in Nat,
         Due(x, wu, s, k), y <= x, s <= t, k <= l
  PROVE  Due(y, wu, t, l)
BY Packets DEF Due

LEMMA DueBound ==
  ASSUME NEW wu \in Seq(Packet), NEW x \in Nat, NEW s \in Nat, NEW k \in Nat,
         Due(x, wu, s, k)
  PROVE  x <= s \/ x <= Delay + k
BY Packets, ConstantsAssumption DEF Due

LEMMA DueNow ==
  ASSUME NEW wu \in Seq(Packet), NEW x \in Nat, NEW s \in Nat, NEW k \in Nat,
         x <= s, x <= k
  PROVE  Due(x, wu, s, k)
BY Packets DEF Due

LEMMA DueSent ==
  ASSUME NEW wu \in Seq(Packet), NEW x \in Nat, NEW s \in Nat, NEW k \in Nat,
         NEW heart \in BOOLEAN, NEW t \in Nat,
         Due(x, wu, s, k), s <= k, heart \/ t = s
  PROVE  Due(x, Append(wu, [heart |-> heart, age |-> 0]), t, k)
<1> DEFINE p == [heart |-> heart, age |-> 0]
           v == Append(wu, p)
<1>1. DOMAIN wu = 1 .. Len(wu) /\ Len(wu) \in Nat
  BY Packets
<1>2. p \in Packet /\ p.heart = heart /\ p.age = 0
  BY ConstantsAssumption DEF Packet
<1>3. DOMAIN v = 1 .. Len(wu) + 1 /\ v[Len(wu) + 1] = p
      /\ \A n \in 1 .. Len(wu) : v[n] = wu[n]
  <2> HIDE DEF p
  <2> QED
    BY <1>1, <1>2
<1> HIDE DEF p, v
<1>4. Due(x, v, t, k)
  <2>1. CASE \E n \in DOMAIN wu : wu[n].heart /\ x <= wu[n].age + k
    <3>1. PICK n \in DOMAIN wu : wu[n].heart /\ x <= wu[n].age + k
      BY <2>1
    <3>2. n \in DOMAIN v /\ v[n] = wu[n]
      BY <1>1, <1>3
    <3> QED
      BY <3>1, <3>2 DEF Due
  <2>2. CASE x <= s /\ \A n \in DOMAIN wu : ~wu[n].heart
    <3>1. CASE heart
      <4> DEFINE m == Len(wu) + 1
      <4>1. m \in DOMAIN v /\ v[m] = p
        BY <1>1, <1>3
      <4>2. v[m].heart
        BY <1>2, <3>1, <4>1
      <4>3. x <= v[m].age + k
        BY <1>2, <2>2, <4>1
      <4> QED
        BY <4>1, <4>2, <4>3 DEF Due
    <3>2. CASE ~heart
      <4>1. \A n \in DOMAIN v : ~v[n].heart
        BY <1>1, <1>2, <1>3, <2>2, <3>2
      <4> QED
        BY <2>2, <3>2, <4>1 DEF Due
    <3> QED
      BY <3>1, <3>2
  <2> QED
    BY <2>1, <2>2 DEF Due
<1> QED
  BY <1>4 DEF p, v

LEMMA DueArrived ==
  ASSUME NEW wu \in Seq(Packet), NEW x \in Nat, NEW s \in Nat, NEW k \in Nat,
         Due(x, wu, s, k), wu # <<>>, ~Head(wu).heart
  PROVE  Due(x, Tail(wu), s, k)
<1>1. /\ DOMAIN wu = 1 .. Len(wu) /\ Len(wu) \in Nat \ {0} /\ Head(wu) = wu[1]
      /\ DOMAIN Tail(wu) = 1 .. Len(wu) - 1
      /\ \A n \in 1 .. Len(wu) - 1 : Tail(wu)[n] = wu[n + 1]
  BY HeadTailProperties
<1>2. CASE x <= s /\ \A n \in DOMAIN wu : ~wu[n].heart
  <2>1. \A n \in DOMAIN Tail(wu) : ~Tail(wu)[n].heart
    BY <1>1, <1>2
  <2> QED
    BY <1>2, <2>1 DEF Due
<1>3. CASE \E n \in DOMAIN wu : wu[n].heart /\ x <= wu[n].age + k
  <2>1. PICK n \in DOMAIN wu : wu[n].heart /\ x <= wu[n].age + k
    BY <1>3
  <2>2. n # 1
    BY <1>1, <2>1
  <2>3. n - 1 \in DOMAIN Tail(wu) /\ Tail(wu)[n - 1] = wu[n]
    BY <1>1, <2>1, <2>2
  <2> QED
    BY <2>1, <2>3 DEF Due
<1> QED
  BY <1>2, <1>3 DEF Due

(* The answers that the Pi hears are not hearts. *)
LEMMA HeartlessPut ==
  ASSUME NEW s \in Seq(Packet), NEW p \in Packet, ~p.heart,
         \A n \in DOMAIN s : ~s[n].heart
  PROVE  \A n \in DOMAIN Append(s, p) : ~Append(s, p)[n].heart
<1>1. DOMAIN s = 1 .. Len(s) /\ Len(s) \in Nat
  BY Packets
<1>2. DOMAIN Append(s, p) = 1 .. Len(s) + 1 /\ Append(s, p)[Len(s) + 1] = p
      /\ \A n \in 1 .. Len(s) : Append(s, p)[n] = s[n]
  BY <1>1
<1> QED
  BY <1>1, <1>2

LEMMA HeartlessTake ==
  ASSUME NEW s \in Seq(Packet), s # <<>>, \A n \in DOMAIN s : ~s[n].heart
  PROVE  \A n \in DOMAIN Tail(s) : ~Tail(s)[n].heart
<1>1. /\ DOMAIN s = 1 .. Len(s) /\ Len(s) \in Nat \ {0}
      /\ DOMAIN Tail(s) = 1 .. Len(s) - 1
      /\ \A n \in 1 .. Len(s) - 1 : Tail(s)[n] = s[n + 1]
  BY HeadTailProperties
<1> QED
  BY <1>1

LEMMA DueOlder ==
  ASSUME NEW wu \in Seq(Packet), NEW x \in Nat, NEW s \in Nat, NEW k \in Nat,
         NEW l \in Nat, Due(x, wu, s, k), k <= l
  PROVE  Due(x + 1, Older(wu), s + 1, l)
<1>1. DOMAIN wu = 1 .. Len(wu)
      /\ \A n \in DOMAIN wu : wu[n] \in Packet /\ wu[n].age \in Nat
  BY Packets
<1>2. DOMAIN Older(wu) = DOMAIN wu
      /\ \A n \in DOMAIN wu : /\ Older(wu)[n].heart = wu[n].heart
                               /\ Older(wu)[n].age = wu[n].age + 1
                               /\ wu[n].age \in Nat
  BY <1>1 DEF Older, Packet
<1>3. CASE x <= s /\ \A n \in DOMAIN wu : ~wu[n].heart
  BY <1>2, <1>3 DEF Due
<1>4. CASE \E n \in DOMAIN wu : wu[n].heart /\ x <= wu[n].age + k
  <2>1. PICK n \in DOMAIN wu : wu[n].heart /\ x <= wu[n].age + k
    BY <1>4
  <2>2. Older(wu)[n].heart = wu[n].heart /\ n \in DOMAIN Older(wu)
    BY <1>2, <2>1
  <2>3. x + 1 <= Older(wu)[n].age + l
    BY <1>2, <2>1
  <2> QED
    BY <2>1, <2>2, <2>3 DEF Due
<1> QED
  BY <1>3, <1>4 DEF Due

(* The numbers in these bounds. *)
Numbers ==
  /\ Beat \in Nat /\ Beat >= 1 /\ Pass \in Nat /\ Pass >= 1 /\ Delay \in Nat
  /\ PiLimit \in Nat /\ HbLimit \in Nat /\ Joining \in Nat /\ MaxLost \in Nat
  /\ beat \in Nat /\ silent \in Nat /\ hb \in Nat /\ lost \in Nat /\ lost <= MaxLost
  /\ begin["send"] \in Nat /\ begin["recv"] \in Nat /\ begin["work"] \in Nat
  /\ begin["recv"] <= Pass /\ begin["work"] <= Pass
  /\ heard["up"] \in Nat /\ heard["down"] \in Nat
  /\ SinceBeat \in Nat /\ SinceBeat + lost <= Sent
  /\ InPass \in Nat /\ InPass <= 2 * Pass /\ PiSum \in Nat
  /\ Sent \in Nat /\ Sent = Beat + Pass - 1 + lost

LEMMA CalmTypes ==
  ASSUME IInv, Typed
  PROVE  Numbers /\ wire["up"] \in Seq(Packet) /\ wire["down"] \in Seq(Packet)
<1> USE ConstantsAssumption
<1>1. /\ beat \in Nat /\ silent \in Nat /\ hb \in Nat /\ lost \in Nat /\ lost <= MaxLost
      /\ begin \in [Thread -> 0 .. Pass] /\ heard \in [Way -> Nat]
  BY DEF Typed, TypeOK
<1>2. /\ begin["send"] \in 0 .. Pass /\ begin["recv"] \in 0 .. Pass
      /\ begin["work"] \in 0 .. Pass /\ heard["up"] \in Nat /\ heard["down"] \in Nat
  BY <1>1 DEF Thread, Way
<1>3. wire["up"] \in Seq(Packet) /\ wire["down"] \in Seq(Packet)
  BY DEF Typed, Wires, Way
<1>4. SinceBeat \in Nat /\ SinceBeat <= Beat + Pass - 1
  BY <1>1, <1>2 DEF SinceBeat, Typed, TypeOK, Sums
<1>5. InPass \in Nat /\ InPass <= 2 * Pass /\ PiSum \in Nat
  BY <1>1, <1>2 DEF InPass, PiSum
<1>6. Sent \in Nat /\ SinceBeat + lost <= Sent /\ Sent = Beat + Pass - 1 + lost
  BY <1>1, <1>4 DEF Sent
<1> QED
  BY <1>1, <1>2, <1>3, <1>4, <1>5, <1>6 DEF Numbers

(* What Calm says of the two tests: neither finds the silence too long.    *)
LEMMA NotTooLong ==
  ASSUME IInv, Typed, Calm, Roomy
  PROVE  /\ client = "in" => hb + begin["work"] <= HbLimit
         /\ "recv" \in looked \/ ~arrived.down => PiSum < PiLimit
<1>0. Numbers /\ wire["up"] \in Seq(Packet) /\ wire["down"] \in Seq(Packet)
  BY CalmTypes
<1> USE <1>0 DEF Numbers
<1>1. ASSUME client = "in" PROVE hb + begin["work"] <= HbLimit
  <2>1. hb + begin["work"] <= heard["up"] + Pass
    BY <1>1 DEF IInv, ServerInv, HbSum
  <2>2. heard["up"] <= Delay + Sent + 2 * Pass
    <3>1. CASE arrived.heart
      BY <1>1, <3>1 DEF Calm, UpTrip, Way
    <3>2. CASE ~arrived.heart
      <4>1. heard["up"] <= SinceBeat + lost \/ heard["up"] <= Delay + Sent
        BY <3>2, DueBound DEF Calm, UpTrip, Way
      <4> QED
        BY <4>1 DEF Way
    <3> QED
      BY <3>1, <3>2
  <2> QED
    BY <2>1, <2>2 DEF Sent, Roomy, RoundTrip, Way, Thread
<1>2. ASSUME "recv" \in looked \/ ~arrived.down PROVE PiSum < PiLimit
  <2>1. PiSum <= 2 * Delay + Sent + 4 * Pass
    <3>0. CASE arrived.down
      BY <1>2, <3>0 DEF Calm, DownTrip
    <3>1. CASE ~arrived.down /\ wire["down"] # <<>>
      <4> DEFINE d == Head(wire["down"]).age
      <4>1. d \in Nat /\ d <= Delay
        <5>1. Head(wire["down"]) = wire["down"][1] /\ 1 \in DOMAIN wire["down"]
          BY <3>1
        <5> QED
          BY <5>1, Packets
      <4>2. PiSum <= d + Delay + Sent + 3 * Pass
        BY <3>1 DEF Calm, DownTrip
      <4> HIDE DEF d
      <4> QED
        BY <4>1, <4>2
    <3>2. CASE ~arrived.down /\ wire["down"] = <<>> /\ arrived.up /\ client = "in"
      BY <3>2 DEF Calm, DownTrip
    <3>3. CASE ~arrived.down /\ wire["down"] = <<>> /\ arrived.up /\ client # "in"
      <4>1. PiSum <= heard["up"] /\ heard["up"] <= Joining
        BY <3>3 DEF Calm, Waiting, IInv, Types
      <4> QED
        BY <4>1 DEF Roomy, Sent, Way
    <3>4. CASE ~arrived.down /\ wire["down"] = <<>> /\ ~arrived.up
      <4>1. \/ PiSum <= SinceBeat + Pass + lost
            \/ PiSum <= Delay + (Sent + Pass)
        BY <3>4, DueBound DEF Calm, DownTrip
      <4> QED
        BY <4>1
    <3> QED
      BY <3>0, <3>1, <3>2, <3>3, <3>4
  <2> QED
    BY <2>1 DEF Sent, Roomy, RoundTrip
<1> QED
  BY <1>1, <1>2

(* Steps that neither move a packet nor change a sum. *)
LEMMA CalmSame ==
  ASSUME Calm, UNCHANGED <<alive, client, link, wire, arrived, heard, lost>>,
         SinceBeat' = SinceBeat, InPass <= InPass', PiSum' = PiSum,
         InPass \in Nat, InPass' \in Nat, Numbers,
         "recv" \in looked' => "recv" \in looked /\ begin'["recv"] = begin["recv"],
         "recv" \in gap' => silent' < PiLimit
  PROVE  Calm'
<1>1. UpTrip'
  BY DEF Calm, UpTrip, Sent, Numbers
<1>2. DownTrip'
  <2>1. Sent' = Sent /\ DownTrip
    BY DEF Calm, Sent
  <2>2. CASE arrived.down
    BY <2>1, <2>2 DEF DownTrip
  <2>3. CASE ~arrived.down /\ wire["down"] # <<>>
    BY <2>1, <2>3 DEF DownTrip
  <2>4. CASE ~arrived.down /\ wire["down"] = <<>> /\ arrived.up
    <3>1. client = "in" => PiSum <= Delay + Sent + Pass + InPass
      BY <2>1, <2>4 DEF DownTrip
    <3>2. client = "in" => PiSum <= Delay + Sent + Pass + InPass'
      <4> DEFINE i == InPass'
      <4>1. /\ i \in Nat /\ InPass <= i /\ InPass \in Nat
            /\ Delay \in Nat /\ Sent \in Nat /\ Pass \in Nat /\ PiSum \in Nat
        BY DEF Numbers
      <4> HIDE DEF i
      <4>2. client = "in" => PiSum <= Delay + Sent + Pass + i
        BY <3>1, <4>1
      <4> QED
        BY <4>2 DEF i
    <3> QED
      BY <2>1, <2>4, <3>2 DEF DownTrip
  <2>5. CASE ~arrived.down /\ wire["down"] = <<>> /\ ~arrived.up
    BY <2>1, <2>5 DEF DownTrip
  <2> QED
    BY <2>2, <2>3, <2>4, <2>5
<1> QED
  BY <1>1, <1>2 DEF Calm, Waiting

LEMMA SendCalm ==
  ASSUME IInv, Typed, Calm, SendRead \/ Send
  PROVE  Calm'
<1>0. Numbers /\ wire["up"] \in Seq(Packet) /\ wire["down"] \in Seq(Packet)
  BY CalmTypes
<1> USE <1>0 DEF Numbers
<1>1. CASE SendRead
  <2>1. UNCHANGED <<alive, client, link, wire, arrived, heard, lost, silent>>
    BY <1>1 DEF SendRead, net
  <2>2. SinceBeat' = SinceBeat
    BY <1>1 DEF SendRead, Read, SinceBeat
  <2>3. InPass' = InPass /\ PiSum' = PiSum /\ ("recv" \in gap' <=> "recv" \in gap)
        /\ ("recv" \in looked' <=> "recv" \in looked) /\ begin'["recv"] = begin["recv"]
    BY <1>1 DEF SendRead, Read, InPass, PiSum
  <2> QED
    BY <2>1, <2>2, <2>3, CalmSame DEF Calm
<1>2. CASE Send
  <2>1. UNCHANGED <<client, link, arrived, heard, lost, silent>>
    BY <1>2 DEF Send, net
  <2>2. alive'
    BY <1>2 DEF Send, Calm
  <2>3. InPass' = InPass /\ PiSum' = PiSum /\ ("recv" \in gap' <=> "recv" \in gap)
        /\ ("recv" \in looked' <=> "recv" \in looked) /\ begin'["recv"] = begin["recv"]
    BY <1>2 DEF Send, Update, InPass, PiSum, Typed, TypeOK, Thread
  <2>4. SinceBeat = beat /\ SinceBeat' = beat'
    BY <1>2 DEF Send, Update, SinceBeat, Typed, TypeOK, Thread
  <2>5. CASE ~(HeartDue \/ DataDue)
    <3>1. UNCHANGED <<alive, wire, beat>>
      BY <1>2, <2>5 DEF Send
    <3> QED
      BY <2>1, <2>3, <2>4, <3>1, CalmSame DEF Calm
  <2>6. CASE HeartDue \/ DataDue
    <3> DEFINE p == [heart |-> HeartDue, age |-> 0]
    <3>1. wire' = [wire EXCEPT !["up"] = Append(@, p)]
      BY <1>2, <2>6 DEF Send, Put, Calm
    <3>2. wire'["up"] = Append(wire["up"], p) /\ wire'["down"] = wire["down"]
      BY <3>1 DEF Typed, TypeOK, Way
    <3>3. HeartDue \/ SinceBeat' = SinceBeat
      BY <1>2, <2>4 DEF Send
    <3>7. SinceBeat' \in Nat
      BY <1>2, <2>4 DEF Send
    <3>4. HeartDue \in BOOLEAN
      BY DEF HeartDue
    <3> HIDE DEF p
    <3>5. UpTrip'
      <4>1. CASE arrived.heart
        BY <2>1, <2>3, <4>1 DEF Calm, UpTrip, Sent
      <4>2. CASE ~arrived.heart
        <5>1. Due(heard["up"], wire["up"], SinceBeat + lost, Sent)
          BY <4>2 DEF Calm, UpTrip
        <5>2. Due(heard["up"], Append(wire["up"], p), SinceBeat' + lost, Sent)
          BY <3>3, <3>4, <3>7, <5>1, DueSent, SMTT(30) DEF p, Way
        <5> QED
          BY <2>1, <3>2, <4>2, <5>2 DEF UpTrip, Sent
      <4> QED
        BY <4>1, <4>2
    <3>6. DownTrip'
      <4>1. CASE arrived.down \/ arrived.up \/ wire["down"] # <<>>
        BY <2>1, <2>3, <3>2, <4>1 DEF Calm, DownTrip, Sent
      <4>2. CASE ~arrived.down /\ ~arrived.up /\ wire["down"] = <<>>
        <5>1. Due(PiSum, wire["up"], SinceBeat + Pass + lost, Sent + Pass)
          BY <4>2 DEF Calm, DownTrip
        <5> DEFINE s == SinceBeat + Pass + lost
                   t == SinceBeat' + Pass + lost
                   k == Sent + Pass
        <5>2. s \in Nat /\ k \in Nat /\ s <= k
          OBVIOUS
        <5>3. t \in Nat
          <6>1. \A a \in Nat : a + Pass + lost \in Nat
            OBVIOUS
          <6> QED
            BY <3>7, <6>1, Zenon
        <5>4. HeartDue \/ t = s
          BY <3>3, Zenon
        <5> HIDE DEF s, t, k
        <5>5. Due(PiSum, Append(wire["up"], p), t, k)
          <6>1. Due(PiSum, wire["up"], s, k)
            BY <5>1 DEF s, k
          <6> QED
            BY <3>4, <5>2, <5>3, <5>4, <6>1, DueSent DEF p
        <5>6. Due(PiSum', wire'["up"], SinceBeat' + Pass + lost', Sent' + Pass)
          BY <2>1, <2>3, <3>2, <5>5 DEF Sent, t, k
        <5>7. ~arrived'.down /\ ~arrived'.up /\ wire'["down"] = <<>>
          BY <2>1, <3>2, <4>2
        <5> QED
          BY <5>6, <5>7 DEF DownTrip
      <4> QED
        BY <4>1, <4>2
    <3> QED
      BY <2>1, <2>2, <2>3, <3>2, <3>5, <3>6 DEF Calm, Waiting
  <2> QED
    BY <2>5, <2>6
<1> QED
  BY <1>1, <1>2

LEMMA RecvCalm ==
  ASSUME IInv, Typed, Calm, Roomy, RecvNothing \/ RecvData \/ RecvEnd \/ RecvRead \/ RecvTest
  PROVE  Calm'
<1>0. Numbers /\ wire["up"] \in Seq(Packet) /\ wire["down"] \in Seq(Packet)
  BY CalmTypes
<1> USE <1>0 DEF Numbers
<1>1. CASE RecvNothing
  <2>1. UNCHANGED <<alive, client, link, wire, arrived, heard, lost, beat, silent, gap,
                    begin>>
        /\ ~arrived.down
    BY <1>1 DEF RecvNothing, Look, net
  <2>2. SinceBeat' = SinceBeat /\ PiSum' = PiSum /\ Sent' = Sent
    BY <2>1 DEF SinceBeat, PiSum, Sent
  <2>3. InPass' = InPass
    BY <1>1 DEF RecvNothing, Look, InPass
  <2>4. UpTrip' /\ DownTrip'
    BY <2>1, <2>2, <2>3 DEF Calm, UpTrip, DownTrip
  <2> QED
    BY <2>1, <2>2, <2>4 DEF Calm, Waiting
<1>2. CASE RecvData
  <2>1. UNCHANGED <<alive, client, link, wire, lost>>
    BY <1>2 DEF RecvData, net
  <2>2. SinceBeat' = SinceBeat /\ InPass' = InPass /\ Sent' = Sent
    BY <1>2, <2>1 DEF RecvData, Look, SinceBeat, InPass, Sent
  <2>3. PiSum' \in Nat /\ PiSum' <= Pass
    <3>1. silent' = 0 /\ begin' = begin /\ gap' = gap /\ "recv" \notin gap
      BY <1>2 DEF RecvData, Look, Waits
    <3>2. PiSum' = 0 + begin["recv"]
      BY <3>1 DEF PiSum
    <3> QED
      BY <3>2
  <2>4. "recv" \notin gap'
    BY <1>2 DEF RecvData, Look, Waits
  <2>5. ~arrived'.down /\ arrived'.up = arrived.up /\ arrived'.heart = arrived.heart /\ heard'["up"] = heard["up"]
    <3>1. arrived' = [arrived EXCEPT !.down = FALSE] /\ heard' = [heard EXCEPT !["down"] = 0]
      BY <1>2 DEF RecvData
    <3> QED
      BY <3>1 DEF Typed, TypeOK, Way
  <2>6. UpTrip'
    BY <2>1, <2>2, <2>5 DEF Calm, UpTrip
  <2>7. DownTrip'
    <3>1. CASE wire["down"] # <<>>
      <4> DEFINE d == Head(wire["down"]).age
      <4>1. d \in Nat
        <5>1. Head(wire["down"]) = wire["down"][1] /\ 1 \in DOMAIN wire["down"]
          BY <3>1
        <5> QED
          BY <5>1, Packets
      <4>2. PiSum' <= d + Delay + Sent + 3 * Pass
        <5> HIDE DEF d
        <5> QED
          BY <2>3, <4>1
      <4> QED
        BY <2>1, <2>2, <2>5, <3>1, <4>2 DEF DownTrip
    <3>2. CASE wire["down"] = <<>> /\ arrived.up
      <4>1. PiSum' <= Delay + Sent + Pass + InPass
        BY <2>3
      <4> QED
        BY <2>1, <2>2, <2>5, <3>2, <4>1 DEF DownTrip
    <3>3. CASE wire["down"] = <<>> /\ ~arrived.up
      <4> DEFINE s == SinceBeat + Pass + lost
                 k == Sent + Pass
      <4>1. s \in Nat /\ k \in Nat /\ PiSum' <= s /\ PiSum' <= k
        BY <2>3
      <4> HIDE DEF s, k
      <4>2. Due(PiSum', wire["up"], s, k)
        BY <2>3, <4>1, DueNow
      <4> QED
        BY <2>1, <2>2, <2>5, <3>3, <4>2 DEF DownTrip, s, k
    <3> QED
      BY <3>1, <3>2, <3>3
  <2>8. client # "new"
    BY <1>2 DEF RecvData, Calm, Waiting
  <2> QED
    BY <2>1, <2>4, <2>5, <2>6, <2>7, <2>8 DEF Calm
<1>3. CASE RecvEnd
  BY <1>3 DEF RecvEnd, Calm
<1>5. CASE RecvRead
  <2>1. UNCHANGED <<alive, client, link, wire, arrived, heard, lost>>
    BY <1>5 DEF RecvRead, net
  <2>2. SinceBeat' = SinceBeat /\ InPass' = InPass /\ "recv" \notin looked'
    BY <1>5 DEF RecvRead, Read, SinceBeat, InPass
  <2>3. PiSum' = PiSum /\ silent' = PiSum
    BY <1>5 DEF RecvRead, Read, PiSum
  <2>4. silent' < PiLimit
    BY <1>5, <2>3, NotTooLong DEF RecvRead
  <2> QED
    BY <2>1, <2>2, <2>3, <2>4, CalmSame
<1>4. CASE RecvTest
  <2>1. UNCHANGED <<client, link, wire, arrived, heard, lost, silent>>
    BY <1>4 DEF RecvTest, net
  <2>2. "recv" \in gap /\ silent < PiLimit
    BY <1>4 DEF RecvTest, Update, Calm
  <2>3. alive' = alive
    <3>1. ~TooSilent
      BY <2>2 DEF TooSilent
    <3>2. alive' = ~TooSilent /\ alive \in BOOLEAN /\ alive
      BY <1>4 DEF RecvTest, Calm, Typed, TypeOK
    <3> QED
      BY <3>1, <3>2
  <2>4. gap' = gap \ {"recv"} /\ begin' = [begin EXCEPT !["recv"] = 0]
        /\ begin \in [Thread -> 0 .. Pass]
    BY <1>4 DEF RecvTest, Update, Typed, TypeOK
  <2>5. SinceBeat' = SinceBeat
    BY <1>4, <2>4 DEF RecvTest, SinceBeat, Thread
  <2>6. InPass' = InPass /\ "recv" \notin looked'
    BY <1>4, <2>2, <2>4 DEF RecvTest, Update, InPass, Thread, Typed, TypeOK
  <2>7. PiSum' = PiSum
    BY <2>1, <2>2, <2>4 DEF PiSum, Thread
  <2> QED
    BY <2>1, <2>2, <2>3, <2>4, <2>5, <2>6, <2>7, CalmSame
<1> QED
  BY <1>1, <1>2, <1>3, <1>4, <1>5

LEMMA WorkCalm ==
  ASSUME IInv, Typed, Calm, Roomy,
         Join \/ WorkNothing \/ WorkData \/ WorkEnd \/ WorkRead \/ CheckHb
  PROVE  Calm'
<1>0. Numbers /\ wire["up"] \in Seq(Packet) /\ wire["down"] \in Seq(Packet)
  BY CalmTypes
<1> USE <1>0 DEF Numbers
<1>1. CASE Join
  <2>1. UNCHANGED <<alive, link, wire, arrived, lost, looked, gap, silent, beat, begin>>
        /\ client = "new" /\ client' = "in"
    BY <1>1 DEF Join, net
  <2>2. SinceBeat' = SinceBeat /\ InPass' = InPass /\ Sent' = Sent /\ PiSum' = PiSum
    BY <2>1 DEF SinceBeat, InPass, Sent, PiSum
  <2>3. heard'["up"] = 0
    BY <1>1 DEF Join, Typed, TypeOK, Way
  <2>4. wire["down"] = <<>> /\ ~arrived.down /\ PiSum <= heard["up"] /\ heard["up"] <= Joining
    BY <2>1 DEF Calm, Waiting
  <2>5. UpTrip'
    <3> DEFINE s == SinceBeat + lost
    <3>1. s \in Nat
      OBVIOUS
    <3> HIDE DEF s
    <3>2. Due(0, wire["up"], s, Sent)
      BY <3>1, DueNow
    <3>3. Due(heard'["up"], wire'["up"], SinceBeat' + lost', Sent')
      BY <2>1, <2>2, <2>3, <3>2 DEF s
    <3>4. heard'["up"] <= Delay + Sent' + InPass'
      BY <2>2, <2>3
    <3> QED
      BY <3>3, <3>4 DEF UpTrip
  <2>6. DownTrip'
    <3>1. CASE arrived.up
      <4>0. PiSum <= Beat
        BY <2>4 DEF Roomy
      <4>1. PiSum <= Delay + Sent + Pass + InPass
        BY <4>0
      <4> QED
        BY <2>1, <2>2, <2>4, <3>1, <4>1 DEF DownTrip
    <3>2. CASE ~arrived.up
      <4>1. Due(PiSum, wire["up"], SinceBeat + Pass + lost, Sent + Pass)
        BY <2>4, <3>2 DEF Calm, DownTrip
      <4> QED
        BY <2>1, <2>2, <2>4, <3>2, <4>1 DEF DownTrip
    <3> QED
      BY <3>1, <3>2
  <2> QED
    BY <2>1, <2>5, <2>6 DEF Calm
<1>2. CASE WorkNothing
  <2>1. UNCHANGED <<alive, client, link, wire, arrived, heard, lost, silent, beat, begin,
                    gap>>
        /\ looked' = looked \cup {"work"} /\ ~(client = "in" /\ arrived.up)
    BY <1>2 DEF WorkNothing, Look, net
  <2>2. SinceBeat' = SinceBeat /\ Sent' = Sent /\ PiSum' = PiSum
        /\ ("recv" \in looked' <=> "recv" \in looked)
    BY <2>1 DEF SinceBeat, Sent, PiSum
  <2>3. UpTrip'
    BY <2>1, <2>2 DEF Calm, UpTrip
  <2>4. DownTrip'
    BY <2>1, <2>2 DEF Calm, DownTrip
  <2> QED
    BY <2>1, <2>2, <2>3, <2>4 DEF Calm, Waiting
<1>3. CASE WorkData
  <2> DEFINE p == [heart |-> FALSE, age |-> 0]
  <2>1. UNCHANGED <<alive, client, link, lost, silent, beat, begin, gap>>
        /\ looked' = looked \cup {"work"} /\ client = "in" /\ arrived.up
    BY <1>3 DEF WorkData, Look, net
  <2>2. SinceBeat' = SinceBeat /\ Sent' = Sent /\ PiSum' = PiSum
        /\ ("recv" \in looked' <=> "recv" \in looked)
    BY <2>1 DEF SinceBeat, Sent, PiSum
  <2>3. wire' = [wire EXCEPT !["down"] = Append(@, p)]
    BY <1>3 DEF WorkData, Put, Calm
  <2>4. wire'["up"] = wire["up"] /\ wire'["down"] = Append(wire["down"], p)
    BY <2>3 DEF Typed, TypeOK, Way
  <2>5. ~arrived'.heart /\ ~arrived'.up /\ arrived'.down = arrived.down
    BY <1>3 DEF WorkData, Typed, TypeOK
  <2>6. heard'["up"] = IF arrived.heart THEN 0 ELSE heard["up"]
    BY <1>3 DEF WorkData, Typed, TypeOK, Way
  <2>7. UpTrip'
    <3> DEFINE s == SinceBeat + lost
    <3>1. s \in Nat
      OBVIOUS
    <3> HIDE DEF s
    <3>2. Due(0, wire["up"], s, Sent)
      BY <3>1, DueNow
    <3>3. ~arrived.heart => Due(heard["up"], wire["up"], s, Sent)
      BY DEF Calm, UpTrip, s
    <3>4. Due(heard'["up"], wire'["up"], SinceBeat' + lost', Sent')
      BY <2>1, <2>2, <2>4, <2>6, <3>2, <3>3 DEF s
    <3> QED
      BY <2>5, <3>4 DEF UpTrip
  <2>8. Append(wire["down"], p) # <<>> /\ \A n \in DOMAIN wire'["down"] : ~wire'["down"][n].heart
    <3>1. p \in Packet /\ ~p.heart
      BY ConstantsAssumption DEF Packet
    <3>2. \A n \in DOMAIN wire["down"] : ~wire["down"][n].heart
      BY DEF Calm
    <3> HIDE DEF p
    <3>3. \A n \in DOMAIN Append(wire["down"], p) : ~Append(wire["down"], p)[n].heart
      BY <3>1, <3>2, HeartlessPut
    <3>4. Append(wire["down"], p) # <<>>
      BY <3>1
    <3> QED
      BY <2>4, <3>3, <3>4
  <2>9. DownTrip'
    <3>1. CASE arrived.down
      BY <2>1, <2>2, <2>5, <3>1 DEF Calm, DownTrip
    <3>2. CASE ~arrived.down /\ wire["down"] # <<>>
      <4>1. Head(wire'["down"]) = Head(wire["down"])
        <5> HIDE DEF p
        <5> QED
          BY <2>4, <3>2
      <4>2. PiSum <= Head(wire["down"]).age + Delay + Sent + 3 * Pass
        BY <3>2 DEF Calm, DownTrip
      <4> HIDE DEF p
      <4>3. PiSum' <= Head(wire'["down"]).age + Delay + Sent' + 3 * Pass
        BY <2>2, <4>1, <4>2
      <4>4. ~arrived'.down /\ wire'["down"] # <<>>
        BY <2>4, <2>5, <2>8, <3>2
      <4> QED
        BY <4>3, <4>4 DEF DownTrip
    <3>3. CASE ~arrived.down /\ wire["down"] = <<>>
      <4>1. Head(wire'["down"]) = p /\ p.age = 0
        BY <2>4, <3>3
      <4>2. PiSum <= Delay + Sent + Pass + InPass
        BY <2>1, <3>3 DEF Calm, DownTrip
      <4>3. PiSum <= 0 + Delay + Sent + 3 * Pass
        BY <4>2
      <4> HIDE DEF p
      <4> QED
        BY <2>5, <3>3, <2>1, <2>2, <2>4, <2>8, <4>1, <4>3 DEF DownTrip
    <3> QED
      BY <3>1, <3>2, <3>3
  <2> QED
    BY <2>1, <2>2, <2>5, <2>7, <2>8, <2>9 DEF Calm
<1>4. CASE WorkEnd
  BY <1>4 DEF WorkEnd, Calm
<1>5. CASE CheckHb
  <2>1. UNCHANGED <<alive, link, wire, arrived, heard, lost, silent, beat>>
    BY <1>5 DEF CheckHb, net
  <2>2. "work" \in gap /\ gap' = gap \ {"work"} /\ begin' = [begin EXCEPT !["work"] = 0]
        /\ begin \in [Thread -> 0 .. Pass]
    BY <1>5 DEF CheckHb, Update, Typed, TypeOK
  <2>3. client' = client
    <3>1. client = "in" => ~TooOld(hb + begin["work"])
      <4>1. client = "in" => hb + begin["work"] <= HbLimit
        BY NotTooLong
      <4> QED
        BY <4>1 DEF TooOld
    <3> QED
      BY <1>5, <3>1 DEF CheckHb
  <2>4. SinceBeat' = SinceBeat
    BY <2>1, <2>2 DEF SinceBeat, Thread
  <2>5. InPass' \in Nat /\ InPass <= InPass'
    <3>1. InPass = begin["work"]
      BY <2>2 DEF InPass
    <3>2. "work" \notin looked'
      BY <1>5, <2>2 DEF CheckHb, Update, Typed, TypeOK
    <3>3. InPass' = Pass
      BY <2>2, <3>2 DEF InPass, Thread
    <3> QED
      BY <3>1, <3>3
  <2>6. PiSum' = PiSum /\ ("recv" \in gap' <=> "recv" \in gap)
        /\ looked' = looked /\ begin'["recv"] = begin["recv"]
    BY <1>5, <2>1, <2>2 DEF CheckHb, Update, PiSum, Thread
  <2> QED
    BY <2>1, <2>3, <2>4, <2>5, <2>6, CalmSame DEF Calm
<1>6. CASE WorkRead
  <2>1. UNCHANGED <<alive, client, link, wire, arrived, heard, lost, silent, beat, begin>>
    BY <1>6 DEF WorkRead, Read, net
  <2>2. SinceBeat' = SinceBeat /\ InPass' = InPass /\ PiSum' = PiSum
        /\ ("recv" \in gap' <=> "recv" \in gap) /\ ("recv" \in looked' => "recv" \in looked)
    BY <1>6, <2>1 DEF WorkRead, Read, SinceBeat, InPass, PiSum
  <2> QED
    BY <2>1, <2>2, CalmSame DEF Calm
<1> QED
  BY <1>1, <1>2, <1>3, <1>4, <1>5, <1>6

LEMMA ArriveCalm ==
  ASSUME IInv, Typed, Calm, NEW w \in Way, Arrive(w)
  PROVE  Calm'
<1>1. UNCHANGED <<looked, gap, begin, beat, data, silent, hb, alive, client, heard, lost,
                  net>>
  BY Zenon DEF Arrive
<1>2. UNCHANGED <<looked, gap, begin, beat, silent, alive, client, heard, lost, link>>
  BY <1>1 DEF net
<1>3. wire[w] # <<>> /\ wire' = [wire EXCEPT ![w] = Tail(@)]
  BY Zenon DEF Arrive
<1>4. arrived' = [arrived EXCEPT ![w] = TRUE, !["heart"] = @ \/ Head(wire[w]).heart]
  BY Zenon DEF Arrive
<1>5. /\ DOMAIN wire = {"up", "down"}
      /\ arrived \in [{"up", "down", "heart"} -> BOOLEAN]
  BY DEF Typed, TypeOK, Way
<1>6. Numbers /\ wire["up"] \in Seq(Packet) /\ wire["down"] \in Seq(Packet)
  BY CalmTypes
<1> USE <1>6 DEF Numbers
<1>7. SinceBeat' = SinceBeat /\ InPass' = InPass /\ PiSum' = PiSum /\ Sent' = Sent
  BY <1>2 DEF SinceBeat, InPass, PiSum, Sent
<1>8. CASE w = "up"
  <2> DEFINE h == Head(wire["up"]).heart
  <2>1. /\ wire'["up"] = Tail(wire["up"]) /\ wire'["down"] = wire["down"]
        /\ wire["up"] # <<>>
    BY <1>3, <1>5, <1>8
  <2>2. /\ arrived' = [arrived EXCEPT !["up"] = TRUE, !["heart"] = @ \/ h]
        /\ arrived \in [{"up", "down", "heart"} -> BOOLEAN]
    BY <1>4, <1>5, <1>8, Zenon
  <2>3. arrived'.up /\ arrived'.down = arrived.down /\ arrived'.heart = (arrived.heart \/ h)
    <3> HIDE DEF h
    <3> QED
      BY <2>2
  <2>4. UpTrip'
    <3>1. CASE arrived.heart
      BY <1>2, <1>7, <2>3, <3>1 DEF Calm, UpTrip
    <3>2. CASE ~arrived.heart /\ h
      <4> DEFINE s == SinceBeat + lost
      <4>1. s \in Nat /\ s <= Sent
        OBVIOUS
      <4>2. Due(heard["up"], wire["up"], s, Sent)
        BY <3>2 DEF Calm, UpTrip
      <4> HIDE DEF s
      <4>3. heard["up"] <= s \/ heard["up"] <= Delay + Sent
        BY <4>1, <4>2, DueBound
      <4>4. heard["up"] <= Delay + Sent + InPass
        BY <4>1, <4>3
      <4> QED
        BY <1>2, <1>7, <2>3, <3>2, <4>4 DEF UpTrip
    <3>3. CASE ~arrived.heart /\ ~h
      <4> DEFINE s == SinceBeat + lost
      <4>1. s \in Nat
        OBVIOUS
      <4>2. Due(heard["up"], wire["up"], s, Sent)
        BY <3>3 DEF Calm, UpTrip
      <4> HIDE DEF s
      <4>3. Due(heard["up"], Tail(wire["up"]), s, Sent)
        BY <2>1, <3>3, <4>1, <4>2, DueArrived
      <4> QED
        BY <1>2, <1>7, <2>1, <2>3, <3>3, <4>3 DEF UpTrip, s
    <3> QED
      BY <3>1, <3>2, <3>3
  <2>5. DownTrip'
    <3>1. CASE arrived.down \/ wire["down"] # <<>>
      BY <1>2, <1>7, <2>1, <2>3, <3>1 DEF Calm, DownTrip
    <3>2. CASE ~arrived.down /\ wire["down"] = <<>> /\ arrived.up
      BY <1>2, <1>7, <2>1, <2>3, <3>2 DEF Calm, DownTrip
    <3>3. CASE ~arrived.down /\ wire["down"] = <<>> /\ ~arrived.up
      <4> DEFINE s == SinceBeat + Pass + lost
                 k == Sent + Pass
      <4>1. s \in Nat /\ k \in Nat /\ s <= k
        OBVIOUS
      <4>2. Due(PiSum, wire["up"], s, k)
        BY <3>3 DEF Calm, DownTrip
      <4>3. PiSum <= s \/ PiSum <= Delay + k
        <5> HIDE DEF s, k
        <5> QED
          BY <4>1, <4>2, DueBound
      <4>4. PiSum <= Delay + Sent + Pass + InPass
        BY <4>3
      <4> QED
        BY <1>2, <1>7, <2>1, <2>3, <3>3, <4>4 DEF DownTrip
    <3> QED
      BY <3>1, <3>2, <3>3
  <2>6. /\ \A n \in DOMAIN wire'["down"] : ~wire'["down"][n].heart
        /\ client' = "new" => Waiting'
    BY <1>2, <1>7, <2>1, <2>3 DEF Calm, Waiting
  <2> QED
    BY <1>2, <2>3, <2>4, <2>5, <2>6 DEF Calm
<1>9. CASE w = "down"
  <2> DEFINE h == Head(wire["down"]).heart
  <2>1. /\ wire'["down"] = Tail(wire["down"]) /\ wire'["up"] = wire["up"]
        /\ wire["down"] # <<>>
    BY <1>3, <1>5, <1>9
  <2>2. ~h
    <3>1. Head(wire["down"]) = wire["down"][1] /\ 1 \in DOMAIN wire["down"]
      BY <2>1
    <3> QED
      BY <3>1 DEF Calm
  <2>3. arrived'.down /\ arrived'.up = arrived.up /\ arrived'.heart = arrived.heart
    <3>1. /\ arrived' = [arrived EXCEPT !["down"] = TRUE, !["heart"] = @ \/ h]
          /\ arrived \in [{"up", "down", "heart"} -> BOOLEAN]
      BY <1>4, <1>5, <1>9, Zenon
    <3> HIDE DEF h
    <3> QED
      BY <2>2, <3>1
  <2>4. UpTrip'
    BY <1>2, <1>7, <2>1, <2>3 DEF Calm, UpTrip
  <2>5. DownTrip'
    <3> DEFINE d == Head(wire["down"]).age
    <3>1. d \in Nat /\ d <= Delay
      <4>1. Head(wire["down"]) = wire["down"][1] /\ 1 \in DOMAIN wire["down"]
        BY <2>1
      <4> QED
        BY <4>1, Packets
    <3>2. CASE arrived.down
      BY <1>2, <1>7, <2>3, <3>2 DEF Calm, DownTrip
    <3>3. CASE ~arrived.down
      <4>1. PiSum <= d + Delay + Sent + 3 * Pass
        BY <2>1, <3>3 DEF Calm, DownTrip
      <4> HIDE DEF d
      <4>2. PiSum <= 2 * Delay + Sent + 3 * Pass + begin["recv"]
        BY <3>1, <4>1
      <4> QED
        BY <1>2, <1>7, <2>3, <4>2 DEF DownTrip
    <3> QED
      BY <3>2, <3>3
  <2>6. \A n \in DOMAIN wire'["down"] : ~wire'["down"][n].heart
    <3>1. \A n \in DOMAIN wire["down"] : ~wire["down"][n].heart
      BY DEF Calm
    <3> QED
      BY <2>1, <3>1, HeartlessTake
  <2>7. client # "new"
    BY <2>1 DEF Calm, Waiting
  <2> QED
    BY <1>2, <2>3, <2>4, <2>5, <2>6, <2>7 DEF Calm
<1> QED
  BY <1>8, <1>9 DEF Way

LEMMA TickCalm ==
  ASSUME IInv, Typed, Calm, outages = 0, Tick
  PROVE  Calm'
<1>1. Numbers /\ wire["up"] \in Seq(Packet) /\ wire["down"] \in Seq(Packet)
  BY CalmTypes
<1>2. /\ beat \in Nat /\ begin["send"] \in Nat /\ silent \in Nat /\ begin["recv"] \in Nat
      /\ begin["work"] \in Nat /\ lost \in Nat
  BY <1>1 DEF Numbers
<1>3. UNCHANGED <<looked, gap, beat, silent, alive, client, arrived, link>> /\ link = "up"
  BY DEF Tick, net, Calm
<1>4. Timed = Thread
  BY DEF Timed, Thread, Calm, IInv, Types
<1>5. /\ begin'["send"] = IF "send" \in gap THEN begin["send"] ELSE begin["send"] + 1
      /\ begin'["recv"] = IF "recv" \in gap THEN begin["recv"] ELSE begin["recv"] + 1
      /\ begin'["work"] = IF "work" \in gap THEN begin["work"] ELSE begin["work"] + 1
      /\ gap \subseteq Thread /\ looked \cap gap = {}
  BY <1>4 DEF Tick, Thread, Typed, TypeOK
<1>6. lost' \in Nat /\ lost <= lost' /\ (gap # {} => lost' = lost + 1)
  <2>1. /\ lost \in Nat /\ Thread \cap gap = gap
        /\ IF Thread \cap gap = {} THEN UNCHANGED lost ELSE lost < MaxLost /\ lost' = lost + 1
    BY <1>4, <1>5, <1>2 DEF Tick
  <2> QED
    BY <2>1
<1>7. SinceBeat' \in Nat /\ lost' \in Nat /\ SinceBeat + lost + 1 <= SinceBeat' + lost'
  <2>1. CASE "send" \in gap
    <3>1. SinceBeat = beat /\ SinceBeat' = beat /\ lost' = lost + 1
      BY <1>3, <1>6, <2>1 DEF SinceBeat
    <3> QED
      BY <1>2, <1>6, <3>1
  <2>2. CASE "send" \notin gap
    <3>1. SinceBeat = beat + begin["send"] /\ SinceBeat' = beat + begin["send"] + 1
      BY <1>2, <1>3, <1>5, <2>2 DEF SinceBeat
    <3> QED
      BY <1>2, <1>6, <3>1
  <2> QED
    BY <2>1, <2>2
<1>8. InPass' \in Nat /\ InPass + lost + 1 <= InPass' + lost'
  <2>0. Pass \in Nat
    BY ConstantsAssumption
  <2>1. CASE "work" \in gap
    <3>1. InPass = begin["work"] /\ InPass' = begin["work"] /\ lost' = lost + 1
      BY <1>3, <1>5, <1>6, <2>1 DEF InPass
    <3> QED
      BY <1>2, <1>6, <3>1
  <2>2. CASE "work" \in looked
    <3>1. InPass = begin["work"] /\ InPass' = begin["work"] + 1
      BY <1>2, <1>3, <1>5, <2>2 DEF InPass
    <3> QED
      BY <1>2, <1>6, <3>1
  <2>3. CASE "work" \notin looked \cup gap
    <3>1. InPass = Pass + begin["work"] /\ InPass' = Pass + (begin["work"] + 1)
      BY <1>2, <1>3, <1>5, <2>3 DEF InPass
    <3> QED
      BY <1>2, <1>6, <2>0, <3>1
  <2> QED
    BY <2>1, <2>2, <2>3
<1>9. PiSum' \in Nat /\ PiSum' <= PiSum + 1
  <2>1. CASE "recv" \in gap
    <3>1. PiSum = silent /\ PiSum' = silent
      BY <1>3, <2>1 DEF PiSum
    <3> QED
      BY <1>2, <3>1
  <2>2. CASE "recv" \notin gap
    <3>1. PiSum = silent + begin["recv"] /\ PiSum' = silent + begin["recv"] + 1
      BY <1>2, <1>3, <1>5, <2>2 DEF PiSum
    <3> QED
      BY <1>2, <3>1
  <2> QED
    BY <2>1, <2>2
<1>10. heard'["up"] = heard["up"] + 1
  BY <1>4 DEF Tick, Listens, Way, Thread
<1>11. Sent' \in Nat /\ Sent' = Beat + Pass - 1 + lost'
  <2>1. Beat + Pass - 1 \in Nat
    BY ConstantsAssumption
  <2>2. Sent' = Beat + Pass - 1 + lost'
    BY DEF Sent
  <2> QED
    BY <1>6, <2>1, <2>2
<1> USE <1>1 DEF Numbers
<1>12. wire'["up"] = Older(wire["up"]) /\ wire'["down"] = Older(wire["down"])
  BY <1>3 DEF Tick, Way
<1>13. \A s \in Seq(Packet) :
         /\ DOMAIN Older(s) = DOMAIN s
         /\ \A n \in DOMAIN s : /\ Older(s)[n].heart = s[n].heart
                                /\ Older(s)[n].age = s[n].age + 1
  <2> SUFFICES ASSUME NEW s \in Seq(Packet)
               PROVE  /\ DOMAIN Older(s) = DOMAIN s
                      /\ \A n \in DOMAIN s : /\ Older(s)[n].heart = s[n].heart
                                             /\ Older(s)[n].age = s[n].age + 1
    OBVIOUS
  <2>1. \A n \in DOMAIN s : s[n] \in Packet
    BY Packets
  <2> QED
    BY <2>1 DEF Older, Packet
<1> DEFINE late == lost'
           since == SinceBeat'
           inpass == InPass'
           sum == PiSum'
           sent == Sent'
<1>14. /\ late \in Nat /\ since \in Nat /\ inpass \in Nat /\ sum \in Nat /\ sent \in Nat
      /\ lost <= late /\ SinceBeat + lost + 1 <= since + late
      /\ InPass + lost + 1 <= inpass + late /\ sum <= PiSum + 1
      /\ sent = Beat + Pass - 1 + late
  BY <1>6, <1>7, <1>8, <1>9, <1>11, Zenon
<1> HIDE DEF late, since, inpass, sum, sent
<1>15. Older(wire["up"]) \in Seq(Packet) /\ Older(wire["down"]) \in Seq(Packet)
  BY TickTyped, <1>12 DEF Typed, Wires, Way
<1>16. UpTrip'
  <2>1. CASE arrived.heart
    <3>1. client = "in" => heard["up"] <= Delay + Sent + InPass
      BY <2>1 DEF Calm, UpTrip
    <3>2. client = "in" => heard["up"] + 1 <= Delay + sent + inpass
      BY <1>14, <3>1
    <3> QED
      BY <1>3, <1>10, <2>1, <3>2 DEF UpTrip, sent, inpass
  <2>2. CASE ~arrived.heart
    <3> DEFINE s == SinceBeat + lost
               t == since + late
               h == heard["up"]
               g == heard'["up"]
    <3>1. Due(h, wire["up"], s, Sent)
      BY <2>2 DEF Calm, UpTrip
    <3>2. s \in Nat /\ t \in Nat /\ s + 1 \in Nat /\ s + 1 <= t /\ Sent <= sent
      BY <1>14
    <3>3. h \in Nat
      OBVIOUS
    <3>4. g = h + 1
      BY <1>10
    <3> HIDE DEF s, t, h, g
    <3>5. Due(h + 1, Older(wire["up"]), s + 1, sent)
      BY <1>14, <3>1, <3>2, <3>3, DueOlder
    <3>6. Due(g, Older(wire["up"]), s + 1, sent)
      BY <3>4, <3>5
    <3>7. g \in Nat /\ g <= g
      BY <3>3, <3>4
    <3>8. Due(g, Older(wire["up"]), t, sent)
      BY <1>14, <1>15, <3>2, <3>6, <3>7, DueWeaker
    <3> QED
      BY <1>3, <1>12, <2>2, <3>8 DEF UpTrip, g, t, since, late, sent
  <2> QED
    BY <2>1, <2>2
<1>17. DownTrip'
  <2>1. CASE arrived.down
    <3>1. ASSUME "recv" \in looked
          PROVE  sum <= 2 * Delay + sent + 3 * Pass + begin'["recv"]
      <4>1. PiSum <= 2 * Delay + Sent + 3 * Pass + begin["recv"]
        BY <2>1, <3>1 DEF Calm, DownTrip
      <4>2. begin'["recv"] = begin["recv"] + 1
        BY <1>5, <3>1
      <4> QED
        BY <1>14, <4>1, <4>2
    <3> QED
      BY <1>3, <2>1, <3>1 DEF DownTrip, sum, sent
  <2>2. CASE ~arrived.down /\ wire["down"] # <<>>
    <3> DEFINE d == Head(wire["down"]).age
               e == Head(wire'["down"]).age
    <3>1. d \in Nat /\ e = d + 1 /\ wire'["down"] # <<>>
      <4>1. /\ Head(wire["down"]) = wire["down"][1] /\ 1 \in DOMAIN wire["down"]
            /\ wire["down"][1].age \in Nat
        BY <2>2, Packets
      <4>2. /\ DOMAIN wire'["down"] = DOMAIN wire["down"]
            /\ wire'["down"][1].age = wire["down"][1].age + 1
        BY <1>12, <1>13, <4>1
      <4>3. wire'["down"] # <<>> /\ Head(wire'["down"]) = wire'["down"][1]
        BY <4>1, <4>2, <1>15
      <4> QED
        BY <4>1, <4>2, <4>3
    <3>2. PiSum <= d + Delay + Sent + 3 * Pass
      BY <2>2 DEF Calm, DownTrip
    <3>3. sum <= e + Delay + sent + 3 * Pass
      <4>1. d \in Nat /\ e = d + 1
        BY <3>1
      <4>2. sum <= PiSum + 1 /\ Sent <= sent /\ sum \in Nat /\ sent \in Nat
        BY <1>14
      <4>3. PiSum \in Nat /\ Sent \in Nat /\ Delay \in Nat /\ Pass \in Nat
        OBVIOUS
      <4> HIDE DEF d, e
      <4> QED
        BY <3>2, <4>1, <4>2, <4>3
    <3> QED
      BY <1>3, <2>2, <3>1, <3>3 DEF DownTrip, sum, sent
  <2>3. CASE ~arrived.down /\ wire["down"] = <<>> /\ arrived.up
    <3>1. client = "in" => PiSum <= Delay + Sent + Pass + InPass
      BY <2>3 DEF Calm, DownTrip
    <3>2. client = "in" => sum <= Delay + sent + Pass + inpass
      BY <1>14, <3>1
    <3>3. wire'["down"] = <<>>
      BY <1>12, <2>3 DEF Older
    <3> QED
      BY <1>3, <2>3, <3>2, <3>3 DEF DownTrip, sum, sent, inpass
  <2>4. CASE ~arrived.down /\ wire["down"] = <<>> /\ ~arrived.up
    <3> DEFINE s == SinceBeat + Pass + lost
               t == since + Pass + late
               k == Sent + Pass
               l == sent + Pass
    <3>1. Due(PiSum, wire["up"], s, k)
      BY <2>4 DEF Calm, DownTrip
    <3>2. s \in Nat /\ t \in Nat /\ k \in Nat /\ l \in Nat /\ s + 1 \in Nat /\ s + 1 <= t /\ k <= l
      BY <1>14
    <3> HIDE DEF s, t, k, l
    <3>3. Due(PiSum + 1, Older(wire["up"]), s + 1, l)
      BY <3>1, <3>2, DueOlder
    <3>4. PiSum + 1 \in Nat /\ sum \in Nat /\ sum <= PiSum + 1
      BY <1>14
    <3>5. Due(sum, Older(wire["up"]), t, l)
      BY <1>15, <3>2, <3>3, <3>4, DueWeaker
    <3>6. wire'["down"] = <<>>
      BY <1>12, <2>4 DEF Older
    <3> QED
      BY <1>3, <1>12, <2>4, <3>5, <3>6 DEF DownTrip, t, l, since, late, sum, sent
  <2> QED
    BY <2>1, <2>2, <2>3, <2>4
<1>18. \A n \in DOMAIN wire'["down"] : ~wire'["down"][n].heart
  BY <1>12, <1>13 DEF Calm
<1>19. client = "new" => Waiting'
  <2> SUFFICES ASSUME client = "new" PROVE Waiting'
    OBVIOUS
  <2> DEFINE p == PiSum
             h == heard["up"]
  <2>1. wire["down"] = <<>> /\ ~arrived.down
    BY DEF Calm, Waiting
  <2>2. p <= h /\ h < Joining
    BY DEF Calm, Waiting, Tick, InTime
  <2>3. wire'["down"] = <<>>
    BY <1>12, <2>1 DEF Older
  <2>4. sum \in Nat /\ p \in Nat /\ h \in Nat /\ Joining \in Nat /\ sum <= p + 1
    BY <1>14
  <2> HIDE DEF p, h
  <2>5. sum <= h + 1 /\ h + 1 <= Joining
    BY <2>2, <2>4
  <2> QED
    BY <1>3, <1>10, <2>1, <2>3, <2>5 DEF Waiting, sum, h
<1> QED
  BY <1>3, <1>16, <1>17, <1>18, <1>19 DEF Calm

LEMMA InitCalm == Init => Calm
<1> SUFFICES ASSUME Init PROVE Calm
  OBVIOUS
<1>1. /\ gap = {} /\ beat = 0 /\ silent = 0 /\ lost = 0 /\ alive = TRUE
      /\ client = "new" /\ link = "up"
      /\ wire["up"] = <<>> /\ wire["down"] = <<>> /\ heard["up"] = 0
      /\ ~arrived.up /\ ~arrived.down /\ ~arrived.heart
  BY DEF Init, Way
<1>2. begin["send"] = 0 /\ begin["recv"] = 0
  BY DEF Init, Thread
<1>3. PiSum = 0 /\ SinceBeat = 0
  BY <1>1, <1>2 DEF PiSum, SinceBeat
<1>4. Due(0, <<>>, 0 + 0, Sent) /\ Due(0, <<>>, 0 + Pass + 0, Sent + Pass)
  BY ConstantsAssumption DEF Due
<1>5. UpTrip
  BY <1>1, <1>3, <1>4 DEF UpTrip
<1>6. DownTrip
  BY <1>1, <1>3, <1>4 DEF DownTrip
<1>7. Waiting
  BY <1>1, <1>3, ConstantsAssumption DEF Waiting
<1> QED
  BY <1>1, <1>5, <1>6, <1>7 DEF Calm

(* Where the Pi's patience leaves room for the way there and back, neither *)
(* the Pi nor the server gives up before the link has failed, whatever the *)
(* periods and however the passes fall (m_client_node.h:21).               *)
THEOREM NobodyGivesUp == Spec => []NoFalseAlarm
<1> DEFINE Inv == Roomy => InOrder
<1>1. Init => Inv
  BY InitCalm DEF InOrder
<1>2. IInv /\ Typed /\ Inv /\ [Next]_vars => Inv'
  <2> SUFFICES ASSUME IInv, Typed, Inv, [Next]_vars, Roomy, outages' = 0
               PROVE  Calm'
    BY DEF InOrder
  <2>1. CASE UNCHANGED vars
    <3>1. Calm
      BY <2>1 DEF vars, InOrder
    <3> QED
      BY <2>1, <3>1 DEF vars, Calm, Waiting, UpTrip, DownTrip, Sent, SinceBeat, InPass, PiSum
  <2>2. CASE Next
    <3>1. ~Fail /\ outages = 0
      <4>1. outages \in Nat
        BY ConstantsAssumption DEF Typed, TypeOK
      <4>2. ~Fail
        BY <4>1 DEF Fail
      <4>3. UNCHANGED outages
        <5>1. ASSUME NEW w \in Way, Arrive(w) PROVE UNCHANGED outages
          BY <5>1, Zenon DEF Arrive, net
        <5> QED
          BY <2>2, <4>2, <5>1
          DEF Next, SendRead, Send, RecvNothing, RecvData, RecvEnd, RecvRead, RecvTest, Join,
              WorkNothing, WorkData, WorkEnd, WorkRead, CheckHb, Heal, Tick, net
      <4> QED
        BY <4>2, <4>3
    <3>2. Calm
      BY <3>1 DEF InOrder
    <3>3. ~Heal
      BY <3>2 DEF Heal, Calm
    <3> QED
      BY <2>2, <3>1, <3>2, <3>3, SendCalm, RecvCalm, WorkCalm, ArriveCalm, TickCalm DEF Next
  <2> QED
    BY <2>1, <2>2
<1>3. Inv => NoFalseAlarm
  BY DEF InOrder, Calm, NoFalseAlarm
<1> QED
  BY <1>1, <1>2, <1>3, Inductive, AlwaysTyped, PTL DEF Spec
==============================================================================
