------------------------------ MODULE Readings ------------------------------
(***************************************************************************)
(* The way of a reading through the system: the Raspberry Pi uploads       *)
(* temperature, humidity and noise, the PCs poll them and set the          *)
(* illumination and the Pi polls that.  On the server they are four        *)
(* atomics with no lock around them: setdata_tr() stores three one after   *)
(* the other, getdata() loads four one after the other.  Server has the    *)
(* main thread, which saves them to the database.                          *)
(*                                                                         *)
(* Every connection is served by a group of its own, whose worker handles  *)
(* packets in order and whose task node (a TaskQueue) answers in order;    *)
(* GroupNode has what happens when groups start and stop.  Connections are *)
(* streams of packets; heartbeats carry no data and are left out.  A value *)
(* is the number of the measurement, or of the press of the button, that   *)
(* made it; 0 is the -1 the constructor puts in.                           *)
(***************************************************************************)
EXTENDS Naturals, Sequences

CONSTANTS Pi, PCs,        \* the connections
          MaxMeasured,    \* bound: different measurements
          MaxPressed,     \* bound: presses of the button, on all PCs
          MaxFlight       \* bound: packets and tasks under way per connection

ASSUME ConstantsAssumption ==
  /\ Pi \notin PCs
  /\ MaxMeasured \in Nat /\ MaxPressed \in Nat /\ MaxFlight \in Nat

Conns == {Pi} \cup PCs
Field == {"illu", "temp", "rh", "db"}

VARIABLES measured,       \* the current measurement, in the Pi's data files
          pressed,        \* presses so far
          piillu,         \* _illu of the Pi's recv node (its file: PiClient)
          shown,          \* what each PC displays
          inbox,          \* packets to the server
          outbox,         \* packets to the client
          tasks,          \* the task node of the connection's group
          data,           \* the atomics _data_illu, _data_temp, ...
          storing,        \* stores of setdata_tr() done
          loaded,         \* what getdata() has loaded so far, for each PC
          acked,          \* history: the last measurement acknowledged
          order           \* history: presses in the order they were stored

clientvars == <<measured, pressed, piillu, shown, acked>>
servervars == <<data, storing, loaded, order>>
vars == <<clientvars, inbox, outbox, tasks, servervars>>

Unset == [f \in Field |-> 0]

(* The sensor scripts have run before the Pi's client starts. *)
Init == /\ measured = 1 /\ pressed = 0 /\ acked = 0
        /\ piillu = 0
        /\ shown = [p \in PCs |-> Unset]
        /\ inbox = [c \in Conns |-> <<>>]
        /\ outbox = [c \in Conns |-> <<>>]
        /\ tasks = [c \in Conns |-> <<>>]
        /\ data = Unset
        /\ storing = 0
        /\ loaded = [p \in PCs |-> <<>>]
        /\ order = <<>>

InFlight(c) == Len(inbox[c]) + Len(tasks[c]) + Len(outbox[c])
PutFirst(box, c, m) == [box EXCEPT ![c] = <<m>> \o @]
Put(box, c, m) == [box EXCEPT ![c] = Append(@, m)]
Rest(box, c) == [box EXCEPT ![c] = Tail(@)]

-----------------------------------------------------------------------------
(* The clients. *)

(* The sensor scripts write new data files. *)
Measure == /\ measured < MaxMeasured
           /\ measured' = measured + 1
           /\ UNCHANGED <<pressed, piillu, shown, acked, inbox, outbox, tasks,
                          servervars>>

(* Every ten seconds the Pi's send node uploads the data files and asks    *)
(* for the illumination.                                                   *)
UploadOnly == /\ InFlight(Pi) + 2 <= MaxFlight
              /\ inbox' = Put(inbox, Pi, [cmd |-> "data", v |-> measured])
              /\ UNCHANGED <<clientvars, outbox, tasks, servervars>>
Upload == /\ InFlight(Pi) + 2 <= MaxFlight
          /\ inbox' = [inbox EXCEPT ![Pi] = @ \o <<[cmd |-> "data", v |-> measured],
                                                   [cmd |-> "getillu", v |-> 0]>>]
          /\ UNCHANGED <<clientvars, outbox, tasks, servervars>>

(* The Pi's recv node: only a new illumination is written to the file. *)
PiReceive ==
  /\ outbox[Pi] # <<>>
  /\ LET m == Head(outbox[Pi]) IN
       /\ acked' = IF m.cmd = "data" THEN m.v ELSE acked
       /\ piillu' = IF m.cmd = "getillu" THEN m.pd.illu ELSE piillu
  /\ outbox' = Rest(outbox, Pi)
  /\ UNCHANGED <<measured, pressed, shown, inbox, tasks, servervars>>

(* A PC polls by timer; v remembers what had been acknowledged by then. *)
Poll(p) == /\ InFlight(p) < MaxFlight
           /\ inbox' = Put(inbox, p, [cmd |-> "getdata", v |-> acked])
           /\ UNCHANGED <<clientvars, outbox, tasks, servervars>>

(* The button. *)
Press(p) == /\ InFlight(p) < MaxFlight /\ pressed < MaxPressed
            /\ pressed' = pressed + 1
            /\ inbox' = Put(inbox, p, [cmd |-> "set", v |-> pressed + 1])
            /\ UNCHANGED <<measured, piillu, shown, acked, outbox, tasks, servervars>>

(* slot_recvmessage(): readAll() takes the n packets that have arrived,    *)
(* and only the first is looked at.                                        *)
Show(p, m) == shown' = [shown EXCEPT ![p] =
                          IF m.cmd = "getdata" THEN m.pd
                          ELSE [@ EXCEPT !["illu"] = m.pd.illu]]
PcReceive(p) ==
  /\ outbox[p] # <<>>
  /\ Show(p, Head(outbox[p]))
  /\ \E n \in 1 .. Len(outbox[p]) :
       outbox' = [outbox EXCEPT ![p] = SubSeq(@, n + 1, Len(@))]
  /\ UNCHANGED <<measured, pressed, piillu, acked, inbox, tasks, servervars>>

-----------------------------------------------------------------------------
(* The server: recvdata() of the worker of a connection. *)

(* An upload is stored field by field, then the reply is queued. *)
StoreOrder == <<"temp", "rh", "db">>
Store ==
  /\ inbox[Pi] # <<>> /\ Head(inbox[Pi]).cmd = "data" /\ storing < 3
  /\ data' = [data EXCEPT ![StoreOrder[storing + 1]] = Head(inbox[Pi]).v]
  /\ storing' = storing + 1
  /\ UNCHANGED <<clientvars, inbox, outbox, tasks, loaded, order>>
StoredEarly ==
  /\ storing = 2
  /\ storing' = 0
  /\ inbox' = Rest(inbox, Pi)
  /\ tasks' = Put(tasks, Pi, Head(inbox[Pi]))
  /\ UNCHANGED <<clientvars, outbox, data, loaded, order>>
Stored ==
  /\ storing = 3
  /\ storing' = 0
  /\ inbox' = Rest(inbox, Pi)
  /\ tasks' = Put(tasks, Pi, Head(inbox[Pi]))
  /\ UNCHANGED <<clientvars, outbox, data, loaded, order>>

(* The requests that only lead to a reply, and the one that sets the       *)
(* illumination.                                                           *)
Ask(c) ==
  /\ inbox[c] # <<>> /\ Head(inbox[c]).cmd \in {"getillu", "getdata"}
  /\ inbox' = Rest(inbox, c)
  /\ tasks' = Put(tasks, c, Head(inbox[c]))
  /\ UNCHANGED <<clientvars, outbox, servervars>>
SetIllu(c) ==
  /\ inbox[c] # <<>> /\ Head(inbox[c]).cmd = "set"
  /\ data' = [data EXCEPT !["illu"] = Head(inbox[c]).v]
  /\ order' = Append(order, Head(inbox[c]).v)
  /\ inbox' = Rest(inbox, c)
  /\ tasks' = Put(tasks, c, Head(inbox[c]))
  /\ UNCHANGED <<clientvars, outbox, storing, loaded>>

(* The task node of a connection answers.  A poll loads field by field; of *)
(* the values loaded for the other replies only the illumination matters.  *)
LoadOrder == <<"illu", "temp", "rh", "db">>
LoadReply(p) ==
  /\ tasks[p] # <<>> /\ Head(tasks[p]).cmd = "getdata" /\ Len(loaded[p]) < 4
  /\ loaded' = [loaded EXCEPT ![p] = Append(@, data[LoadOrder[Len(@) + 1]])]
  /\ UNCHANGED <<clientvars, inbox, outbox, tasks, data, storing, order>>
Loaded(p) == [illu |-> loaded[p][1], temp |-> loaded[p][2],
              rh |-> loaded[p][3], db |-> loaded[p][4]]
Reply(c, pd) ==
  /\ outbox' = Put(outbox, c, [cmd |-> Head(tasks[c]).cmd, v |-> Head(tasks[c]).v,
                               pd |-> pd])
  /\ tasks' = Rest(tasks, c)
SendData(p) ==
  /\ tasks[p] # <<>> /\ Len(loaded[p]) = 4
  /\ Reply(p, Loaded(p))
  /\ loaded' = [loaded EXCEPT ![p] = <<>>]
  /\ UNCHANGED <<clientvars, inbox, data, storing, order>>
SendOther(c) ==
  /\ tasks[c] # <<>> /\ Head(tasks[c]).cmd # "getdata"
  /\ Reply(c, [Unset EXCEPT !["illu"] = data["illu"]])
  /\ UNCHANGED <<clientvars, inbox, servervars>>

-----------------------------------------------------------------------------

WorkerStep(c) == Ask(c) \/ SetIllu(c) \/ (c = Pi /\ (Store \/ Stored))
TnodeStep(c) == SendOther(c) \/ (c \in PCs /\ (LoadReply(c) \/ SendData(c)))

Next == \/ Measure \/ Upload \/ PiReceive
        \/ \E p \in PCs : Poll(p) \/ Press(p) \/ PcReceive(p)
        \/ \E c \in Conns : WorkerStep(c) \/ TnodeStep(c)

Spec == Init /\ [][Next]_vars

(* The threads of the server are scheduled, the timers of the clients go   *)
(* off and what has arrived is received.  Nobody has to measure or press.  *)
FairSpec == /\ Spec
            /\ WF_vars(Upload) /\ WF_vars(PiReceive)
            /\ \A p \in PCs : WF_vars(Poll(p)) /\ WF_vars(PcReceive(p))
            /\ \A c \in Conns : WF_vars(WorkerStep(c)) /\ WF_vars(TnodeStep(c))

-----------------------------------------------------------------------------

Snapshot == [Field -> Nat]
Request == [cmd : {"data", "getillu", "getdata", "set"}, v : Nat]

(* Types; and a reply is assembled only for a request that waits for it. *)
TypeOK ==
  /\ measured \in Nat /\ pressed \in Nat /\ acked \in Nat /\ piillu \in Nat
  /\ shown \in [PCs -> Snapshot]
  /\ inbox \in [Conns -> Seq(Request)]
  /\ tasks \in [Conns -> Seq(Request)]
  /\ outbox \in [Conns -> Seq([cmd : {"data", "getillu", "getdata", "set"}, v : Nat,
                               pd : Snapshot])]
  /\ data \in Snapshot
  /\ storing \in 0 .. 3
  /\ loaded \in [PCs -> Seq(Nat)]
  /\ order \in Seq(Nat)
  /\ storing > 0 => inbox[Pi] # <<>> /\ Head(inbox[Pi]).cmd = "data"
  /\ \A p \in PCs : loaded[p] # <<>> =>
       tasks[p] # <<>> /\ Head(tasks[p]).cmd = "getdata"

(* How recent a value is: measurements count up, presses are compared by   *)
(* the order in which the server stored them.                              *)
Measured == {"temp", "rh", "db"}
Pos(v) == IF v = 0 THEN 0 ELSE CHOOSE i \in 1 .. Len(order) : order[i] = v

(* What a PC shows never goes back to an older value, whatever the order   *)
(* of replies of two kinds, of stores by other connections and of packets  *)
(* the display skips (m_group_node.cpp:283-310, pi_net.cpp:112-155); nor   *)
(* does the illumination the Pi works with.                                *)
NeverGoesBack ==
  [][/\ \A p \in PCs : /\ \A f \in Measured : shown[p][f] <= shown'[p][f]
                       /\ Pos(shown[p]["illu"]) <= Pos(shown[p]["illu"])'
     /\ Pos(piillu) <= Pos(piillu)']_vars

(* A measurement that was acknowledged to the Pi before a PC sent its poll *)
(* is in the reply, or newer ones are, in every one of the three fields    *)
(* (m_group_node.cpp:252-264, m_server.h:88-110).                          *)
ReplyIsFresh ==
  \A p \in PCs : \A i \in 1 .. Len(outbox[p]) :
    outbox[p][i].cmd = "getdata" =>
      \A f \in Measured : outbox[p][i].pd[f] >= outbox[p][i].v

(* When presses come to an end the Pi comes to work with the illumination  *)
(* last set by a PC, although the reply to a set and _illu are made at     *)
(* other times than the value is stored (m_recv_node.cpp:179-182).         *)
PiCatchesUp == <>[](piillu = data["illu"])
==============================================================================
