------------------------------- MODULE Heartbeat -------------------------------
(***************************************************************************)
(* The clocks of one connection: the Pi's send node, which sends a heart   *)
(* and an upload every so often, the Pi's recv node, which gives up when   *)
(* nothing comes back, and the worker of the client's group, which drops   *)
(* clients whose heart is not heard.                                       *)
(*                                                                         *)
(* Each thread adds up the lengths of its passes with an m_timer: it reads *)
(* the time since the timer's beginning and then, in a call of its own,    *)
(* lets the timer begin again.  What passes between the two calls is in    *)
(* no sum.  The recv node and the worker also look for what has arrived    *)
(* once in a pass, at the return of epoll_wait(), and what arrives after   *)
(* that has to wait for the next pass.  So a pass has up to three steps:   *)
(* the look, later the reading, and, after that gap, the new beginning     *)
(* with the test.  Time goes on before each, by a unit at a time, in Tick. *)
(***************************************************************************)
EXTENDS Naturals, Sequences

CONSTANTS Beat, DataEvery,  \* periods of the send node (2 s, 10 s)
          PiLimit,          \* the recv node's patience (5 s)
          HbLimit,          \* CLIENT_HREAT_TIME_LOGINED (20 s)
          Pass,             \* bound: the longest pass of a thread
          Joining,          \* bound: from connect() to the worker's list
          Delay,            \* bound: a packet's way, a task node included
          MaxLost,          \* bound: the time in gaps, all in all
          MaxOutages        \* bound: how often the link fails

ASSUME ConstantsAssumption ==
  /\ Beat \in Nat \ {0} /\ DataEvery \in Nat \ {0}
  /\ PiLimit \in Nat \ {0} /\ HbLimit \in Nat \ {0} /\ Pass \in Nat \ {0}
  /\ Joining \in Nat /\ Delay \in Nat /\ MaxLost \in Nat
  /\ MaxOutages \in Nat

Thread == {"send", "recv", "work"}
Way == {"up", "down"}            \* to the server, to the Pi

VARIABLES looked,       \* threads between epoll_wait() and get_sec()
          gap,          \* threads between get_sec() and update()
          begin,        \* the time since each m_timer's _begin
          beat, data,   \* mytimer and datatimer of the send node
          silent,       \* _mytimer of the recv node
          hb,           \* _hb_time of the client node
          alive,        \* is the Pi's process running?
          client,       \* the connection, as the group sees it
          wire,         \* what is on its way, with its age
          arrived,      \* has anything arrived?  has a heart?
          heard,        \* history: time since each side really heard the other
          lost,         \* history: time that no timer saw
          link,         \* "up", or "down": nothing arrives
          outages       \* how often it has been down

vars == <<looked, gap, begin, beat, data, silent, hb, alive, client, wire, arrived, heard,
          lost, link, outages>>

(* The worker may be anywhere in a pass when the client comes.             *)
Init == /\ looked = {} /\ gap = {}
        /\ \E n \in 0 .. Pass : begin = [t \in Thread |-> IF t = "work" THEN n ELSE 0]
        /\ beat = 0 /\ data = 0 /\ silent = 0 /\ hb = 0
        /\ alive = TRUE /\ client = "new"
        /\ wire = [w \in Way |-> <<>>]
        /\ arrived = [a \in {"up", "down", "heart"} |-> FALSE]
        /\ heard = [w \in Way |-> 0]
        /\ lost = 0 /\ link = "up" /\ outages = 0

net == <<link, outages>>

(* What is sent while nothing arrives comes together later. *)
Put(packets, heart) ==
  IF link = "down" /\ packets # <<>>
  THEN <<[heart |-> heart \/ packets[1].heart, age |-> 0]>>
  ELSE Append(packets, [heart |-> heart, age |-> 0])

(* epoll_wait(), m_timer::get_sec() and m_timer::update(). *)
Waits(t) == t \notin looked \cup gap
Look(t) == /\ Waits(t)
           /\ looked' = looked \cup {t}
           /\ UNCHANGED <<gap, begin>>
Read(t) == /\ t \notin gap
           /\ looked' = looked \ {t}
           /\ gap' = gap \cup {t}
           /\ UNCHANGED begin
Update(t) == /\ t \in gap
             /\ gap' = gap \ {t}
             /\ begin' = [begin EXCEPT ![t] = 0]
             /\ UNCHANGED looked

-----------------------------------------------------------------------------
(* The send node of the Pi.  addtask() has no caller, so the rest of the   *)
(* loop only sleeps.                                                       *)

SendRead == /\ alive /\ Read("send")
            /\ beat' = beat + begin["send"]
            /\ data' = data + begin["send"]
            /\ UNCHANGED <<silent, hb, alive, client, wire, arrived, heard, lost, net>>

(* Packets sent together are one.  A socket that the server has closed may *)
(* kill the process (SIGPIPE).  The mutant has a late heart.               *)
HeartDueLate == beat > Beat
HeartDue == beat >= Beat
DataDue == data >= DataEvery
Send == /\ alive /\ Update("send")
        /\ beat' = IF HeartDue THEN 0 ELSE beat
        /\ data' = IF DataDue THEN 0 ELSE data
        /\ IF HeartDue \/ DataDue
           THEN /\ wire' = [wire EXCEPT !["up"] = Put(@, HeartDue)]
                /\ alive' \in IF client = "gone" THEN BOOLEAN ELSE {TRUE}
           ELSE UNCHANGED <<wire, alive>>
        /\ UNCHANGED <<silent, hb, client, arrived, heard, lost, net>>

-----------------------------------------------------------------------------
(* The recv node of the Pi: epoll_wait() and recvdata(), at the top of the *)
(* next pass the reading, and then the test, whatever has arrived since.   *)
(* m_exit() ends the process.                                              *)

RecvNothing == /\ alive /\ ~arrived.down /\ Look("recv")
               /\ UNCHANGED <<beat, data, silent, hb, alive, client, wire, arrived,
                              heard, lost, net>>
RecvData == /\ alive /\ arrived.down /\ Look("recv")
            /\ arrived' = [arrived EXCEPT !.down = FALSE]
            /\ silent' = 0
            /\ heard' = [heard EXCEPT !["down"] = 0]
            /\ UNCHANGED <<beat, data, hb, alive, client, wire, lost, net>>
RecvEnd == /\ alive /\ ~arrived.down /\ Waits("recv")
           /\ client = "gone" /\ link = "up"
           /\ alive' = FALSE
           /\ UNCHANGED <<looked, gap, begin, beat, data, silent, hb, client, wire,
                          arrived, heard, lost, net>>

(* The mutant forgets the silence so far. *)
RecvReadForgetful ==
  /\ alive /\ "recv" \in looked /\ Read("recv")
  /\ silent' = begin["recv"]
  /\ UNCHANGED <<beat, data, hb, alive, client, wire, arrived, heard, lost, net>>
RecvRead == /\ alive /\ "recv" \in looked /\ Read("recv")
            /\ silent' = silent + begin["recv"]
            /\ UNCHANGED <<beat, data, hb, alive, client, wire, arrived, heard, lost,
                           net>>
TooSilent == silent >= PiLimit
RecvTest == /\ alive /\ Update("recv")
            /\ alive' = ~TooSilent
            /\ UNCHANGED <<beat, data, silent, hb, client, wire, arrived, heard, lost, net>>

-----------------------------------------------------------------------------
(* The worker of the client's group. *)

(* The drain at the top of the pass: the client takes part in the check at *)
(* its end, whatever the time it had.                                      *)
Join == /\ client = "new" /\ Waits("work")
        /\ client' = "in"
        /\ heard' = [heard EXCEPT !["up"] = 0]
        /\ UNCHANGED <<looked, gap, begin, beat, data, silent, hb, alive, wire, arrived,
                       lost, net>>

WorkNothing == /\ ~(client = "in" /\ arrived.up) /\ Look("work")
               /\ UNCHANGED <<beat, data, silent, hb, alive, client, wire, arrived, heard,
                              lost, net>>

(* recvdata(): every packet is answered, but only a heart resets the time. *)
(* The mutants take any packet for a heart, or none.                       *)
BeatsAlways == TRUE
BeatsNever == FALSE
Beats == arrived.heart
WorkData == /\ client = "in" /\ arrived.up /\ Look("work")
            /\ arrived' = [arrived EXCEPT !.up = FALSE, !.heart = FALSE]
            /\ hb' = IF Beats THEN 0 ELSE hb
            /\ heard' = IF arrived.heart THEN [heard EXCEPT !["up"] = 0] ELSE heard
            /\ wire' = [wire EXCEPT !["down"] = Put(@, FALSE)]
            /\ UNCHANGED <<beat, data, silent, alive, client, lost, net>>
WorkEnd == /\ client = "in" /\ ~arrived.up /\ Look("work")
           /\ ~alive /\ link = "up"
           /\ client' = "gone" /\ hb' = 0
           /\ UNCHANGED <<beat, data, silent, alive, wire, arrived, heard, lost, net>>

WorkRead == /\ "work" \in looked /\ Read("work")
            /\ UNCHANGED <<beat, data, silent, hb, alive, client, wire, arrived, heard,
                           lost, net>>

(* m_client_node::check_hb(), with the length of the pass. *)
TooOld(time) == time > HbLimit
CheckHb == /\ Update("work")
           /\ IF client = "in"
              THEN LET time == hb + begin["work"] IN
                   /\ hb' = IF TooOld(time) THEN 0 ELSE time
                   /\ client' = IF TooOld(time) THEN "gone" ELSE "in"
              ELSE UNCHANGED <<hb, client>>
           /\ UNCHANGED <<beat, data, silent, alive, wire, arrived, heard, lost, net>>

-----------------------------------------------------------------------------
(* The network and the time. *)

Arrive(w) ==
  /\ link = "up" /\ wire[w] # <<>>
  /\ wire' = [wire EXCEPT ![w] = Tail(@)]
  /\ arrived' = [arrived EXCEPT ![w] = TRUE, !.heart = @ \/ Head(wire[w]).heart]
  /\ UNCHANGED <<looked, gap, begin, beat, data, silent, hb, alive, client, heard, lost,
                 net>>

(* The link fails and comes back. *)
Merged(packets) ==
  IF packets = <<>> THEN <<>>
  ELSE <<[heart |-> \E n \in DOMAIN packets : packets[n].heart, age |-> 0]>>
Fail == /\ link = "up" /\ link' = "down"
        /\ outages < MaxOutages /\ outages' = outages + 1
        /\ wire' = [w \in Way |-> Merged(wire[w])]
        /\ UNCHANGED <<looked, gap, begin, beat, data, silent, hb, alive, client, arrived,
                       heard, lost>>
Heal == /\ link = "down" /\ link' = "up"
        /\ UNCHANGED <<looked, gap, begin, beat, data, silent, hb, alive, client, wire,
                       arrived, heard, lost, outages>>

(* Whose time matters. *)
Timed == (IF alive THEN {"send", "recv"} ELSE {})
         \cup (IF client = "in" \/ (client = "new" /\ alive) THEN {"work"} ELSE {})
Listens(w) == IF w = "up" THEN "work" \in Timed ELSE alive
InTime == /\ link = "up" => \A w \in Way : wire[w] # <<>> => Head(wire[w]).age < Delay
          /\ client = "new" /\ outages = 0 => heard["up"] < Joining
Older(packets) == [n \in DOMAIN packets |->
                     [packets[n] EXCEPT !.age = @ + 1]]
Tick ==
  /\ Timed # {}
  /\ \A t \in Timed \ gap : begin[t] < Pass
  /\ IF Timed \cap gap = {} THEN UNCHANGED lost ELSE lost < MaxLost /\ lost' = lost + 1
  /\ InTime
  /\ begin' = [t \in Thread |-> IF t \in Timed \ gap THEN begin[t] + 1 ELSE begin[t]]
  /\ wire' = IF link = "up" THEN [w \in Way |-> Older(wire[w])] ELSE wire
  /\ heard' = [w \in Way |-> IF Listens(w) THEN heard[w] + 1 ELSE heard[w]]
  /\ UNCHANGED <<looked, gap, beat, data, silent, hb, alive, client, arrived, net>>

-----------------------------------------------------------------------------

Next == \/ SendRead \/ Send
        \/ RecvNothing \/ RecvData \/ RecvEnd \/ RecvRead \/ RecvTest
        \/ Join \/ WorkNothing \/ WorkData \/ WorkEnd \/ WorkRead \/ CheckHb
        \/ \E w \in Way : Arrive(w)
        \/ Fail \/ Heal \/ Tick

Spec == Init /\ [][Next]_vars

-----------------------------------------------------------------------------

(* Types, with the bounds of the sums. *)
TypeOK ==
  /\ looked \subseteq Thread /\ gap \subseteq Thread /\ looked \cap gap = {}
  /\ begin \in [Thread -> 0 .. Pass]
  /\ beat \in 0 .. Beat + Pass - 1 /\ data \in 0 .. DataEvery + Pass - 1
  /\ silent \in 0 .. PiLimit + Pass - 1 /\ hb \in 0 .. HbLimit
  /\ alive \in BOOLEAN /\ client \in {"new", "in", "gone"}
  /\ wire \in [Way -> Seq([heart : BOOLEAN, age : 0 .. Delay])]
  /\ arrived \in [{"up", "down", "heart"} -> BOOLEAN]
  /\ heard \in [Way -> Nat] /\ lost \in 0 .. MaxLost
  /\ link \in {"up", "down"} /\ outages \in 0 .. MaxOutages

(* The Pi's patience leaves room for the way there and back: the pass of   *)
(* the send node that the heart is late by; the rest of the worker's pass  *)
(* in which it comes, and the next one up to the look; the whole pass of   *)
(* the recv node in which the last answer came, and the one in which this  *)
(* one comes after the look; the network twice; what no timer saw.  One    *)
(* unit less, and the Pi gives up on a connection in order.                *)
RoundTrip == 5 * Pass + 2 * Delay + MaxLost
Roomy == Beat + RoundTrip <= PiLimit /\ PiLimit <= HbLimit /\ Joining <= Beat

(* "The client sends hearts by itself: with a connection in order it does  *)
(* not time out" (m_client_node.h:21): neither side gives up before the    *)
(* link has failed.                                                        *)
NoFalseAlarm == Roomy /\ outages = 0 => alive /\ client # "gone"

(* Whatever the network does, only a client whose heart was not heard for  *)
(* the limit, less a pass, is dropped (m_client_node.cpp:28-38).           *)
OnlyTheSilent ==
  [][CheckHb /\ client = "in" /\ client' = "gone" => heard["up"] + Pass > HbLimit]_vars

(* And such a client is dropped, at most a pass after the limit, not       *)
(* counting time that no timer saw.                                        *)
SilentAreDropped == client = "in" => heard["up"] <= HbLimit + Pass + MaxLost

(* The Pi gives up only when it has heard nothing for its patience, less a *)
(* pass (m_recv_node.cpp:95-103).                                          *)
PiIsPatient == [][RecvTest /\ ~alive' => heard["down"] + Pass >= PiLimit]_vars

(* And it does not outlive a server that it hears nothing from by more     *)
(* than a pass.                                                            *)
PiNotices == alive => heard["down"] < PiLimit + Pass + MaxLost
==============================================================================
