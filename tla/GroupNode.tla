------------------------------ MODULE GroupNode -----------------------------
(***************************************************************************)
(* Class m_group_node (server/m_group_node.cpp): the main thread hands     *)
(* accepted connections to the group, a worker thread that exists only     *)
(* while there are clients reads their packets, and the group's task node  *)
(* sends the replies.                                                      *)
(*                                                                         *)
(* The worker goes away by itself: it reads _client_num, calls exit() on   *)
(* its own m_thread and close_node() on the task node, none of it under    *)
(* the group's _mutex, which addclient() holds.  What can happen between   *)
(* those steps is the subject of this module.                              *)
(*                                                                         *)
(* The worker reads the table of clients, and the buffer of the group that *)
(* every recv() fills, without the mutex, which it takes only to delete a  *)
(* client.  That is sound as long as it is alone; where two workers meet   *)
(* in such accesses is recorded in "raced", and from then on the program   *)
(* may also crash at any moment.                                           *)
(*                                                                         *)
(* A packet is a request, which leads to exactly one reply task whatever   *)
(* its command is, or it is bad.  The values it carries are not modelled,  *)
(* nor the bytes it is cut into, nor the clock: the heartbeat of a client  *)
(* may run out at any pass, and does in the end if the peer is silent.     *)
(***************************************************************************)
EXTENDS Integers, Sequences, FiniteSets

CONSTANTS Conns,          \* connections ever made
          Workers,        \* bound: worker threads of the group alive at once
          MaxFd,          \* bound: descriptors, so connections open at once
          MaxPackets,     \* bound: packets a peer sends on one connection
          MaxErrors,      \* bound: epoll_wait() calls that fail
          None            \* no connection

ASSUME ConstantsAssumption ==
  /\ MaxFd \in Nat /\ MaxPackets \in Nat /\ MaxErrors \in Nat
  /\ None \notin Conns

Fds == 1 .. MaxFd

VARIABLES state,          \* _thread._state
          pc,             \* where each worker is in func_run
          epoll,          \* descriptors registered with each worker's epollfd
          events,         \* what each worker's last epoll_wait() returned
          fd,             \* the descriptor each worker is busy with, or 0
          recvbuf,        \* _recv_buf, shared: the packet, and whose it is
          clientbuf,      \* _clientbuf, as the descriptors of its clients
          clients,        \* _clients, likewise
          num,            \* _client_num
          phase,          \* _tnode: the phase of its thread
          pending,        \* _tnode: tasks not run yet
          main,           \* where the main thread is in addclient(), or
                          \* "dead" after a crash
          owner,          \* which connection a descriptor of the server is
          peer,           \* the other end of each connection
          inbox,          \* packets sent by the peer and not received yet
          sent,           \* how many packets the peer has sent
          got,            \* replies that reached the peer: whom each is for
          errors,         \* epoll_wait() failures so far
          overlapped,     \* history: a connection has arrived while a worker
                          \* was winding down
          raced           \* history: a worker has changed what another one
                          \* was using without the mutex

tnodevars == <<phase, pending>>
workervars == <<pc, epoll, events, fd, recvbuf>>
tablevars == <<clientbuf, clients, num, owner>>
peervars == <<peer, inbox, sent, got>>
faults == <<errors, overlapped, raced>>
vars == <<state, workervars, tablevars, tnodevars, main, peervars, faults>>

(* A packet, and the connection it comes from. *)
Packet == [packet : {"request", "bad"}, from : Conns]
ASSUME NoneAssumption == None \notin Packet

(* The reply to a request: the lambda given to addtask() captures the      *)
(* descriptor; "to" is the connection that asked.                          *)
Reply == [fd : Fds, to : Conns]
Tnode == INSTANCE TaskQueue WITH Task <- Reply

Init == /\ state = FALSE
        /\ pc = [w \in Workers |-> "off"]
        /\ epoll = [w \in Workers |-> {}]
        /\ events = [w \in Workers |-> {}]
        /\ fd = [w \in Workers |-> 0]
        /\ recvbuf = None
        /\ clientbuf = {} /\ clients = {} /\ num = 0
        /\ owner = [f \in Fds |-> None]
        /\ Tnode!Init
        /\ main = "idle"
        /\ peer = [c \in Conns |-> "away"]
        /\ inbox = [c \in Conns |-> <<>>]
        /\ sent = [c \in Conns |-> 0]
        /\ got = [c \in Conns |-> <<>>]
        /\ errors = 0 /\ overlapped = FALSE /\ raced = FALSE

Live == {w \in Workers : pc[w] # "off"}

(* Between reading _client_num = 0 and leaving the loop. *)
WindingDown(w) == \/ pc[w] \in {"exit", "closetnode", "closing"}
                  \/ pc[w] # "off" /\ ~state

-----------------------------------------------------------------------------
(* The main thread.  Only addclient() keeps _mutex from one step to the    *)
(* next, so it is free when the main thread is idle.                       *)

MutexFree == main = "idle"

(* accept() gives the lowest free descriptor; addclient() takes the mutex, *)
(* buffers the client and counts it.                                       *)
AddClient(c) ==
  /\ main = "idle" /\ peer[c] = "away"
  /\ overlapped' = (overlapped \/ \E w \in Workers : WindingDown(w))
  /\ \E f \in Fds :
       /\ owner[f] = None /\ \A g \in 1 .. f - 1 : owner[g] # None
       /\ owner' = [owner EXCEPT ![f] = c]
       /\ clientbuf' = clientbuf \cup {f}
  /\ num' = num + 1
  /\ peer' = [peer EXCEPT ![c] = "up"]
  /\ main' = "test"
  /\ UNCHANGED <<state, workervars, clients, tnodevars, inbox, sent, got, errors,
                 raced>>

(* The unlocked is_run(): a group that runs needs no start. *)
TestRunReversed ==
  /\ main = "test"
  /\ main' = IF state THEN "start" ELSE "idle"
  /\ UNCHANGED <<state, workervars, tablevars, tnodevars, peervars, faults>>
TestRun ==
  /\ main = "test"
  /\ main' = IF state THEN "idle" ELSE "start"
  /\ UNCHANGED <<state, workervars, tablevars, tnodevars, peervars, faults>>

(* _thread.start(), see MThread: a new thread if the flag is clear.  Which *)
(* of the free worker slots it gets makes no difference.  The mutant skips *)
(* both tests of the flag.                                                 *)
NewWorker == /\ Live # Workers
             /\ state' = TRUE
             /\ pc' = [pc EXCEPT ![CHOOSE w \in Workers \ Live : TRUE] = "loop"]
StartUntested ==
  /\ main \in {"test", "start"} /\ main' = "starttnode"
  /\ NewWorker
  /\ UNCHANGED <<epoll, events, fd, recvbuf, tablevars, tnodevars, peervars, faults>>
StartWorker ==
  /\ main = "start" /\ main' = "starttnode"
  /\ \/ ~state /\ NewWorker
     \/ state /\ UNCHANGED <<state, pc>>
  /\ UNCHANGED <<epoll, events, fd, recvbuf, tablevars, tnodevars, peervars, faults>>

(* _tnode.start(): waits while another thread is closing the task node.    *)
StartTnodeForgotten ==
  /\ main = "starttnode" /\ main' = "idle"
  /\ UNCHANGED <<state, workervars, tablevars, tnodevars, peervars, faults>>
StartTnode ==
  /\ main = "starttnode" /\ main' = "idle"
  /\ \/ Tnode!Start
     \/ phase = "on" /\ UNCHANGED tnodevars
  /\ UNCHANGED <<state, workervars, tablevars, peervars, faults>>

-----------------------------------------------------------------------------
(* A worker. *)

Goes(w, from, to) == pc[w] = from /\ pc' = [pc EXCEPT ![w] = to]
BusyWith(w, f) == fd' = [fd EXCEPT ![w] = f]

(* The worker has handled its events and is in the heartbeat pass. *)
Beating(w) == pc[w] = "events" /\ events[w] = {}

(* Without the mutex a worker holds on to a client in recvdata(), and to   *)
(* an iterator of the table in the heartbeat pass.                         *)
InTable(w) == pc[w] \in {"parse", "reap"} \/ Beating(w)
OthersInTable(w) == \E v \in Workers \ {w} : InTable(v)
RacesIf(meet) == /\ raced' = (raced \/ meet)
                 /\ UNCHANGED <<errors, overlapped>>

(* The process dies, and with it all it holds. *)
Die == /\ main' = "dead" /\ phase' = "off" /\ pending' = <<>>
       /\ pc' = [w \in Workers |-> "off"]
       /\ epoll' = [w \in Workers |-> {}] /\ events' = [w \in Workers |-> {}]
       /\ fd' = [w \in Workers |-> 0] /\ recvbuf' = None
       /\ clientbuf' = {} /\ clients' = {} /\ owner' = [f \in Fds |-> None]
       /\ UNCHANGED <<state, num, faults>>

(* is_run(), then the unlocked test of the buffer. *)
Leave(w) ==
  /\ ~state
  /\ Goes(w, "loop", "off")
  /\ epoll' = [epoll EXCEPT ![w] = {}]
  /\ UNCHANGED <<state, events, fd, recvbuf, tablevars, tnodevars, main, peervars,
                 faults>>
Loop(w) ==
  /\ state
  /\ Goes(w, "loop", IF clientbuf = {} THEN "wait" ELSE "drain")
  /\ UNCHANGED <<state, epoll, events, fd, recvbuf, tablevars, tnodevars, main,
                 peervars, faults>>

(* New clients are registered and move to the table. *)
DrainUnregistered(w) ==
  /\ MutexFree
  /\ Goes(w, "drain", "wait")
  /\ clients' = clients \cup clientbuf
  /\ clientbuf' = {}
  /\ RacesIf(OthersInTable(w))
  /\ UNCHANGED <<state, epoll, events, fd, recvbuf, num, owner, tnodevars, main,
                 peervars>>
Drain(w) ==
  /\ MutexFree
  /\ Goes(w, "drain", "wait")
  /\ epoll' = [epoll EXCEPT ![w] = @ \cup clientbuf]
  /\ clients' = clients \cup clientbuf
  /\ clientbuf' = {}
  /\ RacesIf(OthersInTable(w))
  /\ UNCHANGED <<state, events, fd, recvbuf, num, owner, tnodevars, main, peervars>>

(* epoll_wait(): the descriptors with data, or whose peer has closed.      *)
Readable(f) == /\ owner[f] # None
               /\ inbox[owner[f]] # <<>> \/ peer[owner[f]] = "closed"
Wait(w) ==
  /\ Goes(w, "wait", "events")
  /\ events' = [events EXCEPT ![w] = {f \in epoll[w] : Readable(f)}]
  /\ UNCHANGED <<state, epoll, fd, recvbuf, tablevars, tnodevars, main, peervars,
                 faults>>

(* epoll_wait() fails, for instance interrupted by a signal: the worker    *)
(* clears the flag with exit() and leaves; its epollfd is closed.          *)
WaitFails(w) ==
  /\ errors < MaxErrors
  /\ Goes(w, "wait", "off")
  /\ errors' = errors + 1
  /\ state' = FALSE
  /\ epoll' = [epoll EXCEPT ![w] = {}]
  /\ UNCHANGED <<events, fd, recvbuf, tablevars, tnodevars, main, peervars,
                 overlapped, raced>>

(* recvdata() of an event: the client is looked up (a null pointer is put  *)
(* into the table if it has none) and recv() puts the data into the        *)
(* group's buffer, over what another worker still has to read there.  A    *)
(* recv() that returns several packets is a sequence of such steps.  Where *)
(* there is nothing to receive, and the peer is still there, it blocks.    *)
Recv(w, f) ==
  /\ Goes(w, "events", "parse") /\ f \in events[w]
  /\ owner[f] # None
  /\ LET c == owner[f] IN
       /\ inbox[c] # <<>>
       /\ recvbuf' = [packet |-> Head(inbox[c]), from |-> c]
       /\ inbox' = [inbox EXCEPT ![c] = Tail(@)]
  /\ BusyWith(w, f) /\ events' = [events EXCEPT ![w] = @ \ {f}]
  /\ RacesIf(recvbuf # None \/ (f \notin clients /\ OthersInTable(w)))
  /\ UNCHANGED <<state, epoll, tablevars, tnodevars, main, peer, sent, got>>

(* recv() returns nothing: the peer has closed, or the descriptor has been *)
(* closed by another worker meanwhile.  The mutants take the end of the    *)
(* stream for no data, or keep the event.                                  *)
RecvEndIgnored(w, f) ==
  /\ pc[w] = "events" /\ f \in events[w]
  /\ owner[f] # None => inbox[owner[f]] = <<>> /\ peer[owner[f]] = "closed"
  /\ events' = [events EXCEPT ![w] = @ \ {f}]
  /\ RacesIf(f \notin clients /\ OthersInTable(w))
  /\ UNCHANGED <<state, pc, epoll, fd, recvbuf, tablevars, tnodevars, main, peervars>>
RecvEndKeeping(w, f) ==
  /\ Goes(w, "events", "refused") /\ f \in events[w]
  /\ owner[f] # None => inbox[owner[f]] = <<>> /\ peer[owner[f]] = "closed"
  /\ BusyWith(w, f)
  /\ RacesIf(f \notin clients /\ OthersInTable(w))
  /\ UNCHANGED <<state, epoll, events, recvbuf, tablevars, tnodevars, main, peervars>>
RecvEnd(w, f) ==
  /\ Goes(w, "events", "refused") /\ f \in events[w]
  /\ owner[f] # None => inbox[owner[f]] = <<>> /\ peer[owner[f]] = "closed"
  /\ BusyWith(w, f) /\ events' = [events EXCEPT ![w] = @ \ {f}]
  /\ RacesIf(f \notin clients /\ OthersInTable(w))
  /\ UNCHANGED <<state, epoll, recvbuf, tablevars, tnodevars, main, peervars>>

(* The packet, as the buffer has it by now, is copied to the client and    *)
(* handled: a request is handed to the task node.  (What nobody else is to *)
(* read in the buffer is forgotten.)  The mutant captures the loop's       *)
(* variable by reference.                                                  *)
ReadBuffer(w) ==
  recvbuf' = IF \E v \in Workers \ {w} : pc[v] = "parse" THEN recvbuf ELSE None
RequestByReference(w) ==
  /\ Goes(w, "parse", "events") /\ (fd[w] \in clients \/ raced)
  /\ recvbuf.packet = "request" /\ ReadBuffer(w)
  /\ \E f \in events[w] \cup {fd[w]} : Tnode!Add([fd |-> f, to |-> recvbuf.from])
  /\ BusyWith(w, 0)
  /\ UNCHANGED <<state, epoll, events, tablevars, main, peervars, faults>>
Request(w) ==
  /\ Goes(w, "parse", "events") /\ (fd[w] \in clients \/ raced)
  /\ recvbuf.packet = "request" /\ ReadBuffer(w)
  /\ Tnode!Add([fd |-> fd[w], to |-> recvbuf.from])
  /\ BusyWith(w, 0)
  /\ UNCHANGED <<state, epoll, events, tablevars, main, peervars, faults>>
Illegal(w) ==
  /\ Goes(w, "parse", "refused") /\ (fd[w] \in clients \/ raced)
  /\ recvbuf.packet = "bad" /\ ReadBuffer(w)
  /\ UNCHANGED <<state, epoll, events, fd, tablevars, tnodevars, main, peervars,
                 faults>>

(* There was no client, or another worker has deleted it: the copy goes    *)
(* through a null or a dangling pointer (the latter need not be noticed).  *)
CopyToNobody(w) ==
  /\ pc[w] = "parse" /\ fd[w] \notin clients
  /\ Die /\ UNCHANGED peervars

(* A client is deleted: its socket is closed, which also takes it out of   *)
(* every epollfd, and ends the connection with what was not received.      *)
Delete(f) == /\ clients' = clients \ {f}
             /\ owner' = [owner EXCEPT ![f] = None]
             /\ epoll' = [w \in Workers |-> epoll[w] \ {f}]
             /\ num' = num - 1
             /\ peer' = [c \in Conns |-> IF c = owner[f] THEN "closed" ELSE peer[c]]
             /\ inbox' = [c \in Conns |-> IF c = owner[f] THEN <<>> ELSE inbox[c]]

(* recvdata() has returned -1: under the mutex the descriptor's client, as *)
(* the table has it by now, is deleted.                                    *)
DropUnclosed(w) ==
  /\ MutexFree
  /\ Goes(w, "refused", "events") /\ fd[w] \in clients
  /\ clients' = clients \ {fd[w]} /\ num' = num - 1
  /\ BusyWith(w, 0)
  /\ RacesIf(OthersInTable(w))
  /\ UNCHANGED <<state, epoll, events, recvbuf, clientbuf, owner, tnodevars, main,
                 peervars>>
Drop(w) ==
  /\ MutexFree
  /\ Goes(w, "refused", "events") /\ fd[w] \in clients
  /\ Delete(fd[w])
  /\ BusyWith(w, 0)
  /\ RacesIf(OthersInTable(w))
  /\ UNCHANGED <<state, events, recvbuf, clientbuf, tnodevars, main, sent, got>>

(* Another worker has deleted it: there is a null pointer to delete, and   *)
(* the client is counted again.                                            *)
DropAgain(w) ==
  /\ MutexFree
  /\ Goes(w, "refused", "events") /\ fd[w] \notin clients
  /\ num' = num - 1
  /\ BusyWith(w, 0)
  /\ RacesIf(OthersInTable(w))
  /\ UNCHANGED <<state, epoll, events, recvbuf, clientbuf, clients, owner, tnodevars,
                 main, peervars>>

(* The heartbeat pass, after the events: any client may be found dead.  A  *)
(* null pointer that another worker's lookup has left is met here.         *)
MeetsNull(w) == \E v \in Workers \ {w} : pc[v] = "refused" /\ fd[v] \notin clients
Expire(w, f) ==
  /\ Beating(w) /\ Goes(w, "events", "reap")
  /\ f \in clients /\ BusyWith(w, f)
  /\ RacesIf(MeetsNull(w))
  /\ UNCHANGED <<state, epoll, events, recvbuf, tablevars, tnodevars, main, peervars>>

(* Under the mutex what the iterator points to is deleted.  If another     *)
(* worker has done so before, its descriptor is closed once more, whatever *)
(* that is by now.                                                         *)
Reap(w) ==
  /\ MutexFree
  /\ Goes(w, "reap", "events")
  /\ Delete(fd[w])
  /\ BusyWith(w, 0)
  /\ RacesIf(OthersInTable(w))
  /\ UNCHANGED <<state, events, recvbuf, clientbuf, tnodevars, main, sent, got>>
BeatEnd(w) ==
  /\ Beating(w) /\ Goes(w, "events", "count")
  /\ RacesIf(MeetsNull(w))
  /\ UNCHANGED <<state, epoll, events, fd, recvbuf, tablevars, tnodevars, main,
                 peervars>>

(* The unlocked test of _client_num. *)
NeverEmpty == FALSE
NoClients == num = 0
Count(w) ==
  /\ Goes(w, "count", IF NoClients THEN "exit" ELSE "loop")
  /\ UNCHANGED <<state, epoll, events, fd, recvbuf, tablevars, tnodevars, main,
                 peervars, faults>>

(* _thread.exit(). *)
ExitThread(w) ==
  /\ Goes(w, "exit", "closetnode")
  /\ state' = FALSE
  /\ UNCHANGED <<epoll, events, fd, recvbuf, tablevars, tnodevars, main,
                 peervars, faults>>

(* _tnode.close_node(): nothing to do when it is off, otherwise wait.  The *)
(* mutants do not wait, or take the group's mutex to finish.               *)
CloseUnawaited(w) ==
  /\ \/ phase = "on" /\ Tnode!BeginClose
     \/ phase = "off" /\ UNCHANGED tnodevars
  /\ Goes(w, "closetnode", "loop")
  /\ UNCHANGED <<state, epoll, events, fd, recvbuf, tablevars, main, peervars,
                 faults>>
CloseTnode(w) ==
  /\ \/ phase = "on" /\ Tnode!BeginClose /\ Goes(w, "closetnode", "closing")
     \/ phase = "off" /\ UNCHANGED tnodevars /\ Goes(w, "closetnode", "loop")
  /\ UNCHANGED <<state, epoll, events, fd, recvbuf, tablevars, main, peervars,
                 faults>>
TnodeClosedLocked(w) ==
  /\ MutexFree
  /\ Tnode!EndClose
  /\ Goes(w, "closing", "loop")
  /\ UNCHANGED <<state, epoll, events, fd, recvbuf, tablevars, main, peervars,
                 faults>>
TnodeClosed(w) ==
  /\ Tnode!EndClose
  /\ Goes(w, "closing", "loop")
  /\ UNCHANGED <<state, epoll, events, fd, recvbuf, tablevars, main, peervars,
                 faults>>

-----------------------------------------------------------------------------
(* The worker of the task node runs the oldest task: send() on whatever    *)
(* the descriptor is by now.                                               *)
RunTask ==
  /\ Tnode!Run
  /\ LET r == Head(pending) IN
       got' = IF owner[r.fd] = None THEN got
              ELSE [got EXCEPT ![owner[r.fd]] = Append(@, r.to)]
  /\ UNCHANGED <<state, workervars, tablevars, main, peer, inbox, sent, faults>>

(* The peers: clients on the Raspberry Pi or on a PC.                      *)
Send(c) ==
  /\ peer[c] = "up" /\ sent[c] < MaxPackets
  /\ \E p \in {"request", "bad"} : inbox' = [inbox EXCEPT ![c] = Append(@, p)]
  /\ sent' = [sent EXCEPT ![c] = @ + 1]
  /\ UNCHANGED <<state, workervars, tablevars, tnodevars, main, peer, got, faults>>
GoAway(c) ==
  /\ peer[c] = "up"
  /\ \E s \in {"closed", "silent"} : peer' = [peer EXCEPT ![c] = s]
  /\ UNCHANGED <<state, workervars, tablevars, tnodevars, main, inbox, sent, got, faults>>

-----------------------------------------------------------------------------

MainStep == TestRun \/ StartWorker \/ StartTnode

WorkerStep(w) ==
  \/ Leave(w) \/ Loop(w) \/ Drain(w) \/ Wait(w)
  \/ \E f \in events[w] : Recv(w, f) \/ RecvEnd(w, f)
  \/ Request(w) \/ Illegal(w) \/ CopyToNobody(w)
  \/ Drop(w) \/ DropAgain(w)
  \/ \E f \in clients : Expire(w, f)
  \/ Reap(w) \/ BeatEnd(w)
  \/ Count(w) \/ ExitThread(w) \/ CloseTnode(w) \/ TnodeClosed(w)

(* Two threads have used the same memory at once: what that has damaged    *)
(* may bring the process down later.                                       *)
Crash == raced /\ main # "dead" /\ Die /\ UNCHANGED peervars

Next == \/ \E c \in Conns : AddClient(c) \/ Send(c) \/ GoAway(c)
        \/ MainStep
        \/ \E w \in Workers : WorkerStep(w) \/ WaitFails(w)
        \/ RunTask
        \/ Crash

Spec == Init /\ [][Next]_vars

(* The threads are scheduled; the clock runs, so that a silent peer is     *)
(* found dead in the end.  Peers do what they like.                        *)
Expires(w, c) ==
  peer[c] = "silent" /\ \E f \in clients : owner[f] = c /\ Expire(w, f)
FairSpec == /\ Spec
            /\ WF_vars(MainStep)
            /\ \A w \in Workers : WF_vars(WorkerStep(w))
            /\ \A w \in Workers, c \in Conns : SF_vars(Expires(w, c))
            /\ WF_vars(RunTask)

-----------------------------------------------------------------------------

(* No connection has arrived while a worker was winding down.  After that  *)
(* two workers may run, and most of what follows is lost for good.         *)
Undisturbed == ~overlapped
Orderly == Undisturbed /\ errors = 0

Places == {"off", "loop", "drain", "wait", "events", "parse", "refused", "reap",
           "count", "exit", "closetnode", "closing"}

(* Types; and the task node is being closed exactly while one worker waits *)
(* for it inside close_node(), so that no other thread starts it.          *)
TypeOK ==
  /\ state \in BOOLEAN
  /\ pc \in [Workers -> Places]
  /\ epoll \in [Workers -> SUBSET Fds]
  /\ events \in [Workers -> SUBSET Fds]
  /\ fd \in [Workers -> 0 .. MaxFd]
  /\ recvbuf \in Packet \cup {None}
  /\ clientbuf \subseteq Fds /\ clients \subseteq Fds
  /\ num \in Int
  /\ phase \in {"off", "on", "closing"}
  /\ pending \in Seq(Reply)
  /\ main \in {"idle", "test", "start", "starttnode", "dead"}
  /\ owner \in [Fds -> Conns \cup {None}]
  /\ peer \in [Conns -> {"away", "up", "silent", "closed"}]
  /\ inbox \in [Conns -> Seq({"request", "bad"})]
  /\ sent \in [Conns -> 0 .. MaxPackets]
  /\ got \in [Conns -> Seq(Conns)]
  /\ errors \in 0 .. MaxErrors /\ overlapped \in BOOLEAN /\ raced \in BOOLEAN
  /\ \A w \in Workers : /\ pc[w] \in {"parse", "refused", "reap"} => fd[w] \in Fds
                        /\ pc[w] = "parse" => recvbuf # None
  /\ phase = "closing" <=> \E w \in Workers : pc[w] = "closing"
  /\ \A v, w \in Workers : pc[v] = "closing" /\ pc[w] = "closing" => v = w

(* Until two workers meet in the table (after that one of them may close a *)
(* descriptor that the other has closed), every descriptor the server      *)
(* holds belongs to one client, in the buffer or in the table, no          *)
(* registration outlives its client, and the client that a worker has      *)
(* found dead is still there when it has the mutex: nothing leaks and      *)
(* nothing is closed twice (m_group_node.cpp:115-187).                     *)
NoLeak ==
  ~raced => /\ clientbuf \cap clients = {}
            /\ clientbuf \cup clients = {f \in Fds : owner[f] # None}
            /\ \A w \in Workers : epoll[w] \subseteq clients
            /\ \A f, g \in Fds : owner[f] = owner[g] /\ owner[f] # None => f = g
            /\ \A w \in Workers : pc[w] = "reap" => fd[w] \in clients

(* _client_num counts the clients in the buffer and in the table, although *)
(* two threads change it (m_group_node.cpp:52, 158, 183).                  *)
CountMatches ==
  Undisturbed => num = Cardinality(clientbuf) + Cardinality(clients)

(* "When there are client nodes the worker thread must be running"         *)
(* (m_group_node.cpp:51), once addclient() has done its part.              *)
WorkerForClients == num > 0 /\ main = "idle" => state /\ Live # {}

(* It is so until a connection overlaps or epoll_wait() fails. *)
WorkerUntilFault == Orderly => WorkerForClients

(* Whenever the worker runs the task node does, or replies pile up unsent  *)
(* ("the task node is responsible for the sending tasks of its group",     *)
(* server/readme.md:10), even after a failed epoll_wait().                 *)
TnodeForWorker == Undisturbed /\ state /\ main = "idle" => phase = "on"

(* "A node contains one processing thread" (m_base_node.h:4).  What the    *)
(* worker does without the mutex to _clients and _recv_buf                 *)
(* (m_group_node.cpp:166-169, 210-220) relies on that: it meets nobody.    *)
OneWorker == Undisturbed => ~raced /\ \A v, w \in Live : v = w

(* recvdata() finds the client of the event it is called for, and has it   *)
(* until the packet is copied: no event outlives its client for long       *)
(* enough that a new client, not registered yet, has the descriptor.       *)
(* (_clients[sockfd], m_group_node.cpp:210, would be null and the packet    *)
(* written through it.)                                                    *)
ClientOfEvent ==
  Undisturbed => \A w \in Workers :
    /\ pc[w] = "parse" => fd[w] \in clients
    /\ pc[w] = "events" =>
         \A f \in events[w] \ clients : owner[f] # None => inbox[owner[f]] = <<>>

Holds(c) == \E f \in Fds : owner[f] = c

(* A reply that waits is aimed at the descriptor of the client that asked, *)
(* as long as that client is not dropped (m_group_node.cpp:235-311); only  *)
(* after that may another connection have the number and get the reply.    *)
(* So it is with two workers too, until one of them receives into the      *)
(* group's buffer while the other has not yet read it.                     *)
AimedAtAsker ==
  ~raced => \A i \in 1 .. Len(pending) :
              Holds(pending[i].to) => owner[pending[i].fd] = pending[i].to
Answers(c) == Cardinality({i \in 1 .. Len(got[c]) : got[c][i] = c})

(* Every packet a client sends is answered, unless the client is dropped   *)
(* or the group disturbed.                                                 *)
Answered(c) == \A n \in 1 .. MaxPackets :
                 sent[c] >= n ~> Answers(c) >= n \/ ~Holds(c) \/ ~Orderly

(* A client that closes or goes silent is dropped in the end. *)
GoneIsDropped(c) ==
  peer[c] \in {"closed", "silent"} ~> ~Holds(c) \/ ~Orderly

(* "When no connection is left the group stops its worker thread"          *)
(* (server/readme.md:6), and the task node with it (m_group_node.cpp:190), *)
(* even after a failed epoll_wait().                                       *)
IdleStops ==
  (main = "idle" /\ num = 0)
    ~> (num # 0 \/ (~state /\ Live = {} /\ phase = "off") \/ ~Undisturbed)

(* addclient() comes back to the accept loop: neither the group's mutex    *)
(* nor a task node being closed holds the main thread forever, also with   *)
(* two workers, until they race.                                           *)
AddReturns == main # "idle" ~> main = "idle" \/ raced \/ main = "dead"
==============================================================================
