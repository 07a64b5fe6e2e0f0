------------------------------ MODULE PcClient ------------------------------
(***************************************************************************)
(* The window on a PC (client4PC/pi_net.cpp): slots called by Qt's event   *)
(* loop, one after the other.  A timer polls the server every five         *)
(* seconds, a button sets the illumination, the replies go to the labels   *)
(* and, every other one, into the chart.                                   *)
(*                                                                         *)
(* TCP is a stream: a reply may arrive in two halves, and readAll() takes  *)
(* whatever has arrived.  The slot looks only at the packet that begins    *)
(* there, whole or not, so what counts of the unread bytes is how they     *)
(* begin.  Readings has the same display with unbroken packets and a       *)
(* connection that lasts; here are the halves, the connection and its end. *)
(***************************************************************************)
EXTENDS Integers, Sequences

CONSTANTS MaxPoints,      \* points of the chart, 12
          MaxValue,       \* bound: the values of the reading, and of the button
          MaxPresses,     \* bound: presses of the button
          MaxFlight       \* bound: requests and replies under way

ASSUME PcAssumption ==
  /\ MaxPoints \in Nat \ {0} /\ MaxValue \in Nat
  /\ MaxPresses \in Nat /\ MaxFlight \in Nat

VARIABLES socket,         \* state of *client_pc
          label,          \* text1
          crashed,        \* has the process gone down?
          shown,          \* text_Temp, text_Rh and text_db as one; text_illu
          times,          \* the static counter, as far as it is tested
          chart,          \* _list_t, _list_r and _list_d, which go together
          requests,       \* written and not yet handled by the server
          replies,        \* sent by the server and not yet arrived
          half,           \* has the first half of the first of them arrived?
          unread,         \* how the unread bytes begin
          server,         \* the reading and the illumination there
          presses         \* counter for the bound

display == <<shown, times, chart>>
stream == <<requests, replies, half, unread>>
outside == <<server, presses>>
pcvars == <<socket, label, crashed, display, stream, outside>>

(* A value is numbered; what is read where there is no such field, and the *)
(* dashes of the labels at the start, are no value.                        *)
Value == 0 .. MaxValue
Garbage == -1
Dashes == -2
Nothing == [cmd |-> "nothing", reading |-> 0, illu |-> 0, whole |-> FALSE]
Middle == [Nothing EXCEPT !.cmd = "middle"]

(* The constructor: connectToHost() and the timer, which does not wait for *)
(* the connection.                                                         *)
PcInit == /\ socket = "connecting" /\ label = "connecting" /\ crashed = FALSE
          /\ shown = [reading |-> Dashes, illu |-> Dashes]
          /\ times = 0 /\ chart = <<>>
          /\ requests = <<>> /\ replies = <<>> /\ half = FALSE /\ unread = Nothing
          /\ server = [reading |-> 0, illu |-> 0] /\ presses = 0

-----------------------------------------------------------------------------
(* The connection.  One that is refused gives no disconnected(): the label *)
(* stays, the socket too; the mutant deletes it.                           *)

SlotConnected == /\ ~crashed /\ socket = "connecting"
                 /\ socket' = "connected" /\ label' = "connected"
                 /\ UNCHANGED <<crashed, display, stream, outside>>
RefusedDeletes == /\ ~crashed /\ socket = "connecting"
                  /\ socket' = "unconnected-to-delete"
                  /\ UNCHANGED <<label, crashed, display, stream, outside>>
Refused == /\ ~crashed /\ socket = "connecting"
           /\ socket' = "unconnected"
           /\ UNCHANGED <<label, crashed, display, stream, outside>>

(* slot_disconnect(): what had arrived was read before; the socket is      *)
(* deleted when the event loop comes to it, the timer and the button are   *)
(* left as they are.                                                       *)
SlotDisconnect == /\ ~crashed /\ socket = "connected" /\ unread = Nothing
                  /\ socket' = "unconnected-to-delete" /\ label' = "disconnected"
                  /\ UNCHANGED <<crashed, display, stream, outside>>
Delete == /\ ~crashed /\ socket = "unconnected-to-delete"
          /\ socket' = "deleted"
          /\ UNCHANGED <<label, crashed, display, stream, outside>>

(* write(): kept until there is a connection, refused by a socket that has *)
(* none; through the pointer to the deleted socket anything may happen.    *)
Writable == socket \in {"connecting", "connected"}
Write(request) ==
  /\ ~crashed
  /\ \/ Writable /\ Len(requests) + Len(replies) < MaxFlight
        /\ requests' = Append(requests, request) /\ UNCHANGED crashed
     \/ ~Writable /\ UNCHANGED requests
        /\ crashed' \in IF socket = "deleted" THEN BOOLEAN ELSE {FALSE}
  /\ UNCHANGED <<socket, label, display, replies, half, unread, server>>

SlotSendmessage == Write([cmd |-> "get-data", illu |-> 0]) /\ UNCHANGED presses
BottonSend(v) == /\ presses < MaxPresses /\ presses' = presses + 1
                 /\ Write([cmd |-> "set-illu", illu |-> v])

-----------------------------------------------------------------------------
(* slot_recvmessage().  Every other data reply makes a point.  Mutants:    *)
(* points put in front, an illumination left out.                          *)

Keep(points) == IF Len(points) > MaxPoints THEN Tail(points) ELSE points
ShowDataInFront(reading, illu) ==
  /\ shown' = [reading |-> reading, illu |-> illu]
  /\ times' = 1 - times
  /\ chart' = IF times' = 1 THEN Keep(<<reading>> \o chart) ELSE chart
ShowDataPartly(reading, illu) ==
  /\ shown' = [shown EXCEPT !.reading = reading]
  /\ times' = 1 - times
  /\ chart' = IF times' = 1 THEN Keep(Append(chart, reading)) ELSE chart
ShowData(reading, illu) ==
  /\ shown' = [reading |-> reading, illu |-> illu]
  /\ times' = 1 - times
  /\ chart' = IF times' = 1 THEN Keep(Append(chart, reading)) ELSE chart
ShowIllu(illu) == shown' = [shown EXCEPT !.illu = illu] /\ UNCHANGED <<times, chart>>

(* The rest of a packet may look like any packet.                          *)
Understood == unread.cmd # "middle" /\ unread.whole
SlotRecvmessage ==
  /\ ~crashed /\ socket = "connected" /\ unread # Nothing
  /\ LET Of(value) == IF Understood THEN value ELSE Garbage IN
       \/ unread.cmd \in {"data", "middle"} /\ ShowData(Of(unread.reading), Of(unread.illu))
       \/ unread.cmd \in {"illu", "middle"} /\ ShowIllu(Of(unread.illu))
       \/ unread.cmd = "middle" /\ UNCHANGED display
  /\ unread' = Nothing
  /\ UNCHANGED <<socket, label, crashed, requests, replies, half, outside>>

-----------------------------------------------------------------------------
(* The network and the server. *)

Live == ~crashed /\ socket = "connected"

Serve ==
  /\ Live /\ requests # <<>>
  /\ LET r == Head(requests)
         set == r.cmd = "set-illu" IN
       /\ server' = IF set THEN [server EXCEPT !.illu = r.illu] ELSE server
       /\ replies' = Append(replies, [cmd |-> IF set THEN "illu" ELSE "data",
                                      reading |-> server'.reading,
                                      illu |-> server'.illu, whole |-> FALSE])
  /\ requests' = Tail(requests)
  /\ UNCHANGED <<socket, label, crashed, display, half, unread, presses>>

ArriveHalf == /\ Live /\ replies # <<>> /\ ~half
              /\ half' = TRUE
              /\ unread' = IF unread = Nothing THEN Head(replies) ELSE unread
              /\ UNCHANGED <<socket, label, crashed, display, requests, replies, outside>>
(* unread is this packet unless something before it is there. *)
ArriveRest == /\ Live /\ half
              /\ half' = FALSE /\ replies' = Tail(replies)
              /\ unread' = CASE unread = Nothing -> Middle
                             [] unread.cmd = "middle" -> unread
                             [] OTHER -> [unread EXCEPT !.whole = TRUE]
              /\ UNCHANGED <<socket, label, crashed, display, requests, outside>>

(* The Pi uploads a new reading, another PC sets the illumination. *)
NewReading == /\ server.reading < MaxValue
              /\ server' = [server EXCEPT !.reading = @ + 1]
              /\ UNCHANGED <<socket, label, crashed, display, stream, presses>>
SetElsewhere == /\ server.illu < MaxValue
                /\ server' = [server EXCEPT !.illu = @ + 1]
                /\ UNCHANGED <<socket, label, crashed, display, stream, presses>>

-----------------------------------------------------------------------------

PcNext == \/ SlotConnected \/ Refused \/ SlotDisconnect \/ Delete
          \/ SlotSendmessage \/ SlotRecvmessage
          \/ \E v \in Value : BottonSend(v)
          \/ Serve \/ ArriveHalf \/ ArriveRest \/ NewReading \/ SetElsewhere

PcSpec == PcInit /\ [][PcNext]_pcvars

(* The timer goes off, what has arrived is read, the server answers and    *)
(* its answers arrive.                                                     *)
PcFairSpec == /\ PcSpec
              /\ WF_pcvars(SlotConnected \/ Refused) /\ WF_pcvars(SlotSendmessage)
              /\ WF_pcvars(SlotRecvmessage)
              /\ WF_pcvars(Serve) /\ WF_pcvars(ArriveHalf \/ ArriveRest)

-----------------------------------------------------------------------------

(* Types. *)
PcTypeOK ==
  /\ socket \in {"connecting", "connected", "unconnected", "unconnected-to-delete",
                 "deleted"}
  /\ label \in {"connecting", "connected", "disconnected"}
  /\ crashed \in BOOLEAN /\ half \in BOOLEAN /\ times \in {0, 1}
  /\ shown \in [reading : Value \cup {Garbage, Dashes}, illu : Value \cup {Garbage, Dashes}]
  /\ chart \in Seq(Value \cup {Garbage})
  /\ requests \in Seq([cmd : {"get-data", "set-illu"}, illu : Value])
  /\ replies \in Seq([cmd : {"data", "illu"}, reading : Value, illu : Value,
                      whole : {FALSE}])
  /\ unread \in [cmd : {"nothing", "middle", "data", "illu"}, reading : Value,
                 illu : Value, whole : BOOLEAN]
  /\ server \in [reading : Value, illu : Value] /\ presses \in 0 .. MaxPresses

(* Only a connection that has been cut takes the process down: neither a   *)
(* refused one nor a slow one does, whatever the timer and the button      *)
(* write meanwhile (pi_net.cpp:104-110, 157-172).                          *)
CrashNeedsCut == crashed => label = "disconnected"

(* The chart has room for its points, and they are in the order of the     *)
(* readings, whichever replies were skipped or misread and whichever       *)
(* points have gone (pi_net.cpp:127-139).                                  *)
ChartInOrder ==
  /\ Len(chart) <= MaxPoints
  /\ \A i, j \in DOMAIN chart :
       i < j /\ chart[i] # Garbage /\ chart[j] # Garbage => chart[i] <= chart[j]

(* When readings and presses come to an end, labels and chart come to say  *)
(* what the server holds, and garbage goes, although replies are skipped   *)
(* and have been misread: as long as the connection lasts and halves do    *)
(* not meet the slot for ever (pi_net.cpp:112-155).                        *)
DisplayRecovers ==
  \/ []<>(socket # "connected")
  \/ []<><<SlotRecvmessage /\ ~Understood>>_pcvars
  \/ <>[](shown = server /\ \A i \in DOMAIN chart : chart[i] = server.reading)
==============================================================================
