-------------------------- MODULE GroupNode_proofs --------------------------
(***************************************************************************)
(* Proofs about m_group_node for any number of connections, workers,       *)
(* descriptors and packets.  First what holds also while two workers that  *)
(* should not both be there do not race: they leak no descriptor, and      *)
(* replies are aimed at the asker.  Then what holds until a connection     *)
(* arrives while a worker winds down: one worker, which meets nobody, with *)
(* the task node started, as long as there are clients, and the count of   *)
(* them.  Last what a group is for the server, whatever overlaps or races. *)
(***************************************************************************)
EXTENDS GroupNode, FiniteSetTheorems, TLAPS

(* The part of the state that the main thread and the workers hand clients *)
(* around in is well typed.                                                *)
TableOK ==
  /\ pc \in [Workers -> Places]
  /\ epoll \in [Workers -> SUBSET Fds]
  /\ fd = [w \in Workers |-> fd[w]]
  /\ clientbuf \subseteq Fds /\ clients \subseteq Fds
  /\ owner \in [Fds -> Conns \cup {None}]
  /\ peer \in [Conns -> {"away", "up", "silent", "closed"}]
  /\ raced \in BOOLEAN

(* The owner of a descriptor is a connection that was made: it cannot be   *)
(* made a second time and get a second descriptor.                         *)
OwnersArrived == \A f \in Fds : owner[f] # None => peer[owner[f]] # "away"

IInv == TableOK /\ OwnersArrived /\ NoLeak

LEMMA FdsInRange == Fds \subseteq 0 .. MaxFd /\ 0 \in 0 .. MaxFd /\ 0 \notin Fds
BY ConstantsAssumption DEF Fds

LEMMA InitIInv == Init => IInv
<1> SUFFICES ASSUME Init PROVE IInv
  OBVIOUS
<1>1. /\ clientbuf = {} /\ clients = {}
      /\ owner = [f \in Fds |-> None]
      /\ epoll = [w \in Workers |-> {}]
      /\ fd = [w \in Workers |-> 0]
      /\ pc = [w \in Workers |-> "off"]
      /\ peer = [c \in Conns |-> "away"]
      /\ raced = FALSE
  BY DEF Init
<1>2. QED
  BY <1>1, FdsInRange DEF IInv, TableOK, OwnersArrived, NoLeak, Places

(* A new client takes a free descriptor into the buffer. *)
LEMMA AddClientStep ==
  ASSUME IInv, NEW c \in Conns, AddClient(c)
  PROVE  IInv'
<1> USE DEF IInv, TableOK, OwnersArrived, NoLeak
<1>1. PICK f \in Fds : /\ owner[f] = None
                       /\ owner' = [owner EXCEPT ![f] = c]
                       /\ clientbuf' = clientbuf \cup {f}
  BY DEF AddClient
<1>2. /\ UNCHANGED <<pc, epoll, fd, clients, raced>>
      /\ peer[c] = "away" /\ peer' = [peer EXCEPT ![c] = "up"]
      /\ c # None
  BY ConstantsAssumption DEF AddClient, workervars
<1>3. TableOK'
  BY <1>1, <1>2
<1>4. OwnersArrived'
  BY <1>1, <1>2
<1>5. NoLeak'
  BY <1>1, <1>2
<1>6. QED
  BY <1>3, <1>4, <1>5

(* The buffer moves to the table and is registered. *)
LEMMA DrainStep ==
  ASSUME IInv, NEW w \in Workers, Drain(w)
  PROVE  IInv'
<1>1. /\ epoll' = [epoll EXCEPT ![w] = @ \cup clientbuf]
      /\ clients' = clients \cup clientbuf
      /\ clientbuf' = {}
      /\ pc' = [pc EXCEPT ![w] = "wait"]
      /\ raced' \in BOOLEAN /\ (raced => raced')
      /\ UNCHANGED <<owner, peer, fd>>
  BY DEF Drain, Goes, peervars, RacesIf, OthersInTable, InTable, Beating, IInv, TableOK
<1> USE DEF IInv, TableOK, OwnersArrived, NoLeak
<1>2. TableOK'
  BY <1>1 DEF Places
<1>3. OwnersArrived'
  BY <1>1
<1>4. NoLeak'
  BY <1>1
<1>5. QED
  BY <1>2, <1>3, <1>4

(* A deletion closes the descriptor of one client. *)
LEMMA DeleteStep ==
  ASSUME IInv, NEW w \in Workers, Drop(w) \/ Reap(w)
  PROVE  IInv'
<1> DEFINE f == fd[w]
<1> USE DEF IInv, TableOK
<1>1. /\ Delete(f) /\ pc' = [pc EXCEPT ![w] = "events"]
      /\ fd' = [fd EXCEPT ![w] = 0] /\ UNCHANGED clientbuf
      /\ raced' = (raced \/ OthersInTable(w))
  BY DEF Drop, Reap, Goes, BusyWith, RacesIf
<1>2. \A g \in Fds : owner'[g] = IF g = f THEN None ELSE owner[g]
  BY <1>1 DEF Delete
<1>3. peer' \in [Conns -> {"away", "up", "silent", "closed"}]
      /\ \A c \in Conns : peer'[c] = IF c = owner[f] THEN "closed" ELSE peer[c]
  BY <1>1 DEF Delete
<1>4. TableOK'
  <2>1. OthersInTable(w) \in BOOLEAN
    BY DEF OthersInTable, InTable, Beating
  <2>2. pc' \in [Workers -> Places] /\ fd' = [v \in Workers |-> fd'[v]]
    BY <1>1 DEF Places
  <2>3. epoll' \in [Workers -> SUBSET Fds] /\ clients' \subseteq Fds
    BY <1>1 DEF Delete
  <2>4. owner' \in [Fds -> Conns \cup {None}]
    BY <1>1 DEF Delete
  <2>5. QED
    BY <1>1, <1>3, <2>1, <2>2, <2>3, <2>4
<1>5. OwnersArrived'
  BY <1>2, <1>3 DEF OwnersArrived
<1>6. ASSUME ~raced' PROVE NoLeak'
  <2>1. ~raced /\ \A v \in Workers : v # w => pc[v] # "reap"
    BY <1>1, <1>6 DEF OthersInTable, InTable
  <2>2. f \in clients
    BY <2>1 DEF Drop, Reap, Goes, NoLeak
  <2>3. \A v \in Workers : pc'[v] # "reap"
    BY <1>1, <2>1
  <2>4. /\ clients' = clients \ {f}
        /\ \A v \in Workers : epoll'[v] = epoll[v] \ {f}
    BY <1>1 DEF Delete
  <2>5. QED
    BY <1>1, <1>2, <2>1, <2>2, <2>3, <2>4 DEF NoLeak
<1>7. NoLeak'
  BY <1>6 DEF NoLeak
<1>8. QED
  BY <1>4, <1>5, <1>7

(* A process that dies has no clients any more. *)
LEMMA DieStep ==
  ASSUME IInv, Die, UNCHANGED peervars
  PROVE  IInv'
<1>1. /\ pc' = [w \in Workers |-> "off"] /\ epoll' = [w \in Workers |-> {}]
      /\ fd' = [w \in Workers |-> 0]
      /\ clientbuf' = {} /\ clients' = {} /\ owner' = [f \in Fds |-> None]
      /\ UNCHANGED <<peer, raced>>
  BY DEF Die, peervars, faults
<1>2. QED
  BY <1>1, FdsInRange DEF IInv, TableOK, OwnersArrived, NoLeak, Places

(* Everything else leaves the clients where they are; a worker that ends   *)
(* takes its registrations with it, a peer that was there stays one that   *)
(* was there, and a client found dead is one of the table.                 *)
LEMMA OtherStep ==
  ASSUME IInv,
         UNCHANGED <<clientbuf, clients, owner>>,
         pc' \in [Workers -> Places], fd' = [w \in Workers |-> fd'[w]],
         epoll' = epoll \/ \E w \in Workers : epoll' = [epoll EXCEPT ![w] = {}],
         peer' = peer \/ \E c \in Conns, s \in {"closed", "silent"} :
                           peer' = [peer EXCEPT ![c] = s],
         raced' \in BOOLEAN, raced => raced',
         \A w \in Workers : pc'[w] = "reap" =>
           (pc[w] = "reap" /\ fd'[w] = fd[w]) \/ fd'[w] \in clients
  PROVE  IInv'
<1> USE DEF IInv, TableOK, OwnersArrived, NoLeak
<1>1. epoll' \in [Workers -> SUBSET Fds] /\ \A w \in Workers : epoll'[w] \subseteq epoll[w]
  OBVIOUS
<1>2. /\ peer' \in [Conns -> {"away", "up", "silent", "closed"}]
      /\ \A c \in Conns : peer[c] # "away" => peer'[c] # "away"
  OBVIOUS
<1>3. TableOK'
  BY <1>1, <1>2
<1>4. OwnersArrived'
  BY <1>2
<1>5. NoLeak'
  BY <1>1
<1>6. QED
  BY <1>3, <1>4, <1>5

(* Steps within the worker's loop that only change where it is, and what   *)
(* descriptor it is busy with.                                             *)
LEMMA WalkStep ==
  ASSUME IInv, NEW w \in Workers, NEW to \in Places,
         UNCHANGED <<clientbuf, clients, owner, epoll, peer>>,
         pc' = [pc EXCEPT ![w] = to],
         NEW g, fd' = fd \/ fd' = [fd EXCEPT ![w] = g],
         to = "reap" => fd'[w] \in clients,
         raced' \in BOOLEAN, raced => raced'
  PROVE  IInv'
<1>1. /\ pc \in [Workers -> Places] /\ fd = [v \in Workers |-> fd[v]]
  BY DEF IInv, TableOK
<1>2. pc' \in [Workers -> Places] /\ fd' = [v \in Workers |-> fd'[v]]
  BY <1>1
<1>3. \A v \in Workers : pc'[v] = "reap" =>
        (pc[v] = "reap" /\ fd'[v] = fd[v]) \/ fd'[v] \in clients
  <2>1. TAKE v \in Workers
  <2>2. CASE v = w
    BY <1>1, <2>2
  <2>3. CASE v # w
    BY <1>1, <2>3
  <2>4. QED
    BY <2>2, <2>3
<1>4. QED
  BY <1>2, <1>3, OtherStep

LEMMA RacesIfTyped ==
  ASSUME IInv, NEW meet \in BOOLEAN, RacesIf(meet)
  PROVE  raced' \in BOOLEAN /\ (raced => raced')
BY DEF RacesIf, IInv, TableOK

LEMMA Meetings ==
  ASSUME NEW w \in Workers
  PROVE  OthersInTable(w) \in BOOLEAN /\ MeetsNull(w) \in BOOLEAN
BY DEF OthersInTable, InTable, Beating, MeetsNull

LEMMA Invariance == Spec => []IInv
<1>1. Init => IInv
  BY InitIInv
<1>2. IInv /\ [Next]_vars => IInv'
  <2> SUFFICES ASSUME IInv, [Next]_vars PROVE IInv'
    OBVIOUS
  <2>0. /\ pc \in [Workers -> Places] /\ fd = [w \in Workers |-> fd[w]]
        /\ raced \in BOOLEAN
    BY DEF IInv, TableOK
  <2> USE <2>0 DEF workervars, tablevars, peervars, tnodevars, faults, Goes
  <2>1. CASE MainStep
    <3>1. UNCHANGED <<clientbuf, clients, owner, epoll, peer, fd, raced>>
      BY <2>1 DEF MainStep, TestRun, StartWorker, StartTnode
    <3>2. CASE UNCHANGED pc
      BY <3>1, <3>2, OtherStep
    <3>3. ASSUME NEW w \in Workers, pc' = [pc EXCEPT ![w] = "loop"] PROVE IInv'
      BY <3>1, <3>3, WalkStep DEF Places
    <3>4. UNCHANGED pc \/ \E w \in Workers : pc' = [pc EXCEPT ![w] = "loop"]
      BY <2>1 DEF MainStep, TestRun, StartWorker, StartTnode, NewWorker, Live
    <3>5. QED
      BY <3>2, <3>3, <3>4
  <2>2. ASSUME NEW c \in Conns, AddClient(c) \/ Send(c) \/ GoAway(c)
        PROVE  IInv'
    BY <2>2, AddClientStep, OtherStep DEF Send, GoAway
  <2>3. ASSUME NEW w \in Workers, Leave(w) \/ WaitFails(w)
        PROVE  IInv'
    <3>1. /\ pc' = [pc EXCEPT ![w] = "off"] /\ epoll' = [epoll EXCEPT ![w] = {}]
          /\ UNCHANGED <<clientbuf, clients, owner, peer, fd, raced>>
      BY <2>3 DEF Leave, WaitFails
    <3>2. pc' \in [Workers -> Places]
          /\ \A v \in Workers : pc'[v] = "reap" => pc[v] = "reap"
      BY <3>1 DEF Places
    <3>3. QED
      BY <3>1, <3>2, OtherStep
  <2>4. ASSUME NEW w \in Workers, Loop(w) \/ Wait(w) \/ Count(w) \/ ExitThread(w)
        PROVE  IInv'
    <3>1. PICK to \in Places \ {"reap"} : pc' = [pc EXCEPT ![w] = to]
      BY <2>4 DEF Loop, Wait, Count, ExitThread, Places
    <3>2. UNCHANGED <<clientbuf, clients, owner, epoll, peer, fd, raced>>
      BY <2>4 DEF Loop, Wait, Count, ExitThread
    <3>3. QED
      BY <3>1, <3>2, WalkStep
  <2>5. ASSUME NEW w \in Workers, CloseTnode(w) \/ TnodeClosed(w)
        PROVE  IInv'
    <3>1. PICK to \in Places \ {"reap"} : pc' = [pc EXCEPT ![w] = to]
      BY <2>5 DEF CloseTnode, TnodeClosed, Places
    <3>2. UNCHANGED <<clientbuf, clients, owner, epoll, peer, fd, raced>>
      BY <2>5 DEF CloseTnode, TnodeClosed
    <3>3. QED
      BY <3>1, <3>2, WalkStep
  <2>6. ASSUME NEW w \in Workers, Drain(w)
        PROVE  IInv'
    BY <2>6, DrainStep
  <2>7. ASSUME NEW w \in Workers, NEW f \in events[w], Recv(w, f) \/ RecvEnd(w, f)
        PROVE  IInv'
    <3>1. PICK to \in Places \ {"reap"} : pc' = [pc EXCEPT ![w] = to]
      BY <2>7 DEF Recv, RecvEnd, Places
    <3>2. fd' = [fd EXCEPT ![w] = f] /\ UNCHANGED <<clientbuf, clients, owner, epoll, peer>>
      BY <2>7 DEF Recv, RecvEnd, BusyWith
    <3>3. raced' \in BOOLEAN /\ (raced => raced')
      BY <2>7, Meetings DEF Recv, RecvEnd, RacesIf
    <3>4. QED
      BY <3>1, <3>2, <3>3, WalkStep
  <2>8. ASSUME NEW w \in Workers, Request(w) \/ Illegal(w) PROVE IInv'
    <3>1. PICK to \in Places \ {"reap"} : pc' = [pc EXCEPT ![w] = to]
      BY <2>8 DEF Request, Illegal, Places
    <3>2. /\ fd' = fd \/ fd' = [fd EXCEPT ![w] = 0]
          /\ UNCHANGED <<clientbuf, clients, owner, epoll, peer, raced>>
      BY <2>8 DEF Request, Illegal, BusyWith
    <3>3. QED
      BY <3>1, <3>2, WalkStep
  <2>9. ASSUME NEW w \in Workers, DropAgain(w) \/ BeatEnd(w) PROVE IInv'
    <3>1. PICK to \in Places \ {"reap"} : pc' = [pc EXCEPT ![w] = to]
      BY <2>9 DEF DropAgain, BeatEnd, Places
    <3>2. /\ fd' = fd \/ fd' = [fd EXCEPT ![w] = 0]
          /\ UNCHANGED <<clientbuf, clients, owner, epoll, peer>>
      BY <2>9 DEF DropAgain, BeatEnd, BusyWith
    <3>3. raced' \in BOOLEAN /\ (raced => raced')
      BY <2>9, Meetings DEF DropAgain, BeatEnd, RacesIf
    <3>4. QED
      BY <3>1, <3>2, <3>3, WalkStep
  <2>10. ASSUME NEW w \in Workers, NEW f \in clients, Expire(w, f) PROVE IInv'
    <3>1. /\ pc' = [pc EXCEPT ![w] = "reap"] /\ fd' = [fd EXCEPT ![w] = f]
          /\ UNCHANGED <<clientbuf, clients, owner, epoll, peer>>
      BY <2>10 DEF Expire, BusyWith
    <3>2. raced' \in BOOLEAN /\ (raced => raced')
      BY <2>10, Meetings DEF Expire, RacesIf
    <3>3. fd'[w] \in clients
      BY <2>0, <3>1
    <3>4. QED
      BY <3>1, <3>2, <3>3, WalkStep DEF Places
  <2>11. ASSUME NEW w \in Workers, Drop(w) \/ Reap(w) PROVE IInv'
    BY <2>11, DeleteStep
  <2>12. CASE Crash \/ \E w \in Workers : CopyToNobody(w)
    BY <2>12, DieStep DEF Crash, CopyToNobody
  <2>13. CASE RunTask
    BY <2>13, OtherStep DEF RunTask
  <2>14. CASE UNCHANGED vars
    BY <2>14, OtherStep DEF vars
  <2>15. QED
    BY <2>1, <2>2, <2>3, <2>4, <2>5, <2>6, <2>7, <2>8, <2>9, <2>10, <2>11, <2>12,
       <2>13, <2>14
    DEF Next, WorkerStep
<1>3. QED
  BY <1>1, <1>2, PTL DEF Spec

(* Until two workers race no descriptor leaks and none is closed twice,    *)
(* whatever the interleaving of addclient() with the workers.              *)
THEOREM NothingLeaks == Spec => []NoLeak
<1>1. IInv => NoLeak
  BY DEF IInv
<1>2. QED
  BY <1>1, Invariance, PTL

-----------------------------------------------------------------------------
(* Types. *)

LEMMA FiniteFds == /\ IsFiniteSet(Fds)
                   /\ \A S \in SUBSET Fds : /\ IsFiniteSet(S)
                                            /\ Cardinality(S) \in Nat
<1>1. IsFiniteSet(Fds)
  BY FS_Interval, ConstantsAssumption DEF Fds
<1>2. QED
  BY <1>1, FS_Subset, FS_CardinalityType

(* The places of the workers, and what they are busy with. *)
PlacesOK ==
  /\ \A w \in Workers : /\ pc[w] \in {"parse", "refused", "reap"} => fd[w] \in Fds
                        /\ pc[w] = "parse" => recvbuf # None
  /\ phase = "closing" <=> \E w \in Workers : pc[w] = "closing"
  /\ \A v, w \in Workers : pc[v] = "closing" /\ pc[w] = "closing" => v = w

(* A worker goes to another place, away from those of close_node(). *)
LEMMA WalkPlaces ==
  ASSUME TypeOK, NEW w \in Workers,
         NEW to \in Places \ {"closing"}, pc[w] # "closing",
         pc' = [pc EXCEPT ![w] = to],
         NEW f \in 0 .. MaxFd, fd' = fd \/ fd' = [fd EXCEPT ![w] = f],
         to \in {"parse", "refused", "reap"} => fd'[w] \in Fds,
         to = "parse" => recvbuf' # None,
         \A v \in Workers : v # w /\ pc[v] = "parse" => recvbuf' # None,
         phase' = phase
  PROVE  PlacesOK' /\ pc' \in [Workers -> Places] /\ fd' \in [Workers -> 0 .. MaxFd]
<1>1. /\ pc \in [Workers -> Places] /\ fd \in [Workers -> 0 .. MaxFd]
      /\ PlacesOK
  BY DEF TypeOK, PlacesOK
<1>2. pc' \in [Workers -> Places] /\ fd' \in [Workers -> 0 .. MaxFd]
  BY <1>1
<1>3. ASSUME NEW v \in Workers
      PROVE  /\ pc'[v] \in {"parse", "refused", "reap"} => fd'[v] \in Fds
             /\ pc'[v] = "parse" => recvbuf' # None
  <2>1. CASE v = w
    BY <1>1, <2>1
  <2>2. CASE v # w
    <3>1. pc'[v] = pc[v] /\ fd'[v] = fd[v]
      BY <1>1, <2>2
    <3>2. QED
      BY <1>1, <2>2, <3>1 DEF PlacesOK
  <2>3. QED
    BY <2>1, <2>2
<1>4. \A v \in Workers : pc'[v] = "closing" <=> pc[v] = "closing"
  BY <1>1
<1>5. QED
  BY <1>1, <1>2, <1>3, <1>4 DEF PlacesOK

(* The rest of what the type invariant says. *)
RestOK ==
  /\ state \in BOOLEAN
  /\ epoll \in [Workers -> SUBSET Fds] /\ events \in [Workers -> SUBSET Fds]
  /\ recvbuf \in Packet \cup {None}
  /\ clientbuf \subseteq Fds /\ clients \subseteq Fds /\ num \in Int
  /\ phase \in {"off", "on", "closing"} /\ pending \in Seq(Reply)
  /\ main \in {"idle", "test", "start", "starttnode", "dead"}
  /\ owner \in [Fds -> Conns \cup {None}]
  /\ peer \in [Conns -> {"away", "up", "silent", "closed"}]
  /\ inbox \in [Conns -> Seq({"request", "bad"})]
  /\ sent \in [Conns -> 0 .. MaxPackets] /\ got \in [Conns -> Seq(Conns)]
  /\ errors \in 0 .. MaxErrors /\ overlapped \in BOOLEAN /\ raced \in BOOLEAN

LEMMA TypeOKParts ==
  TypeOK <=> /\ RestOK /\ PlacesOK
             /\ pc \in [Workers -> Places] /\ fd \in [Workers -> 0 .. MaxFd]
BY DEF TypeOK, RestOK, PlacesOK

LEMMA PlacesUnchanged ==
  ASSUME TypeOK, UNCHANGED <<pc, fd, recvbuf, phase>>
  PROVE  PlacesOK' /\ pc' \in [Workers -> Places] /\ fd' \in [Workers -> 0 .. MaxFd]
BY DEF TypeOK, PlacesOK

LEMMA BufferRead ==
  ASSUME TypeOK, NEW w \in Workers, ReadBuffer(w)
  PROVE  /\ recvbuf' \in Packet \cup {None}
         /\ \A v \in Workers : v # w /\ pc[v] = "parse" => recvbuf' # None
BY DEF TypeOK, ReadBuffer

LEMMA DeleteTyped ==
  ASSUME TypeOK, NEW f, Delete(f)
  PROVE  /\ clients' \subseteq Fds /\ num' \in Int
         /\ epoll' \in [Workers -> SUBSET Fds]
         /\ owner' \in [Fds -> Conns \cup {None}]
         /\ peer' \in [Conns -> {"away", "up", "silent", "closed"}]
         /\ inbox' \in [Conns -> Seq({"request", "bad"})]
<1>1. /\ clients \subseteq Fds /\ num \in Int
      /\ epoll \in [Workers -> SUBSET Fds]
      /\ owner \in [Fds -> Conns \cup {None}]
      /\ peer \in [Conns -> {"away", "up", "silent", "closed"}]
      /\ inbox \in [Conns -> Seq({"request", "bad"})]
  BY DEF TypeOK
<1>2. /\ clients' \subseteq Fds
      /\ num' \in Int
      /\ owner' \in [Fds -> Conns \cup {None}]
  <2>1. clients' \subseteq Fds
    BY <1>1 DEF Delete
  <2>2. num' \in Int
    BY <1>1 DEF Delete
  <2>3. owner' = [owner EXCEPT ![f] = None]
    BY DEF Delete
  <2>4. owner' \in [Fds -> Conns \cup {None}]
    BY <1>1, <2>3
  <2>5. QED
    BY <2>1, <2>2, <2>4
<1>6. epoll' \in [Workers -> SUBSET Fds]
  BY <1>1 DEF Delete
<1>3. peer' \in [Conns -> {"away", "up", "silent", "closed"}]
  BY <1>1 DEF Delete
<1>4. inbox' \in [Conns -> Seq({"request", "bad"})]
  <2>1. <<>> \in Seq({"request", "bad"})
    OBVIOUS
  <2>2. QED
    BY <1>1, <2>1 DEF Delete
<1>5. QED
  BY <1>2, <1>3, <1>6, <1>4

(* Every reachable state is well typed, and the task node is being closed  *)
(* exactly while one worker waits for it.                                  *)
THEOREM TypeCorrect == Spec => []TypeOK
<1>1. Init => TypeOK
  <2> SUFFICES ASSUME Init PROVE TypeOK
    OBVIOUS
  <2>1. 0 \in 0 .. MaxPackets /\ 0 \in 0 .. MaxErrors /\ 0 \in 0 .. MaxFd
    BY ConstantsAssumption
  <2>2. phase = "off" /\ pending \in Seq(Reply)
    BY DEF Init, Tnode!Init
  <2>3. /\ inbox \in [Conns -> Seq({"request", "bad"})]
        /\ got \in [Conns -> Seq(Conns)]
    BY DEF Init
  <2>4. \A w \in Workers : pc[w] = "off"
    BY DEF Init
  <2>5. /\ sent \in [Conns -> 0 .. MaxPackets] /\ errors \in 0 .. MaxErrors
        /\ overlapped \in BOOLEAN /\ raced \in BOOLEAN
    BY <2>1 DEF Init
  <2>6. /\ state \in BOOLEAN /\ main = "idle" /\ num = 0 /\ recvbuf = None
        /\ epoll = [w \in Workers |-> {}] /\ events = [w \in Workers |-> {}]
        /\ clientbuf = {} /\ clients = {}
        /\ owner = [f \in Fds |-> None] /\ peer = [c \in Conns |-> "away"]
    BY DEF Init
  <2>7. RestOK
    BY <2>2, <2>3, <2>5, <2>6 DEF RestOK
  <2>8. PlacesOK
    BY <2>2, <2>4 DEF PlacesOK
  <2>9. pc \in [Workers -> Places] /\ fd \in [Workers -> 0 .. MaxFd]
    BY <2>1 DEF Init, Places
  <2>10. QED
    BY <2>7, <2>8, <2>9, TypeOKParts
<1>2. TypeOK /\ [Next]_vars => TypeOK'
  <2> SUFFICES ASSUME TypeOK, [Next]_vars
               PROVE  /\ RestOK' /\ PlacesOK'
                      /\ pc' \in [Workers -> Places] /\ fd' \in [Workers -> 0 .. MaxFd]
    BY TypeOKParts DEF TypeOK, RestOK, PlacesOK
  <2>0. RestOK /\ pc \in [Workers -> Places] /\ fd \in [Workers -> 0 .. MaxFd]
    BY TypeOKParts
  <2> USE <2>0 DEF workervars, tablevars, peervars, tnodevars, faults, Goes
  <2>1. CASE TestRun
    BY <2>1, PlacesUnchanged DEF TestRun, RestOK
  <2>2. CASE StartWorker
    <3>1. RestOK' /\ UNCHANGED <<fd, recvbuf, phase>>
      BY <2>2 DEF StartWorker, NewWorker, RestOK
    <3>2. CASE UNCHANGED pc
      BY <3>1, <3>2, PlacesUnchanged
    <3>3. CASE NewWorker
      <4>1. PICK w \in Workers : pc[w] = "off" /\ pc' = [pc EXCEPT ![w] = "loop"]
        BY <3>3 DEF NewWorker, Live
      <4>2. \A v \in Workers : pc[v] = "parse" => recvbuf' # None
        BY <3>1 DEF TypeOK
      <4>3. "loop" \in Places \ {"closing"}
        BY DEF Places
      <4>4. QED
        BY <3>1, <4>1, <4>2, <4>3, FdsInRange, WalkPlaces
    <3>4. QED
      BY <2>2, <3>2, <3>3 DEF StartWorker
  <2>3. CASE StartTnode
    <3>1. RestOK' /\ UNCHANGED <<pc, fd, recvbuf>>
      BY <2>3 DEF StartTnode, Tnode!Start, Tnode!Goes, RestOK
    <3>2. phase # "closing" /\ phase' # "closing"
      BY <2>3 DEF StartTnode, Tnode!Start, Tnode!Goes
    <3>3. PlacesOK'
      BY <3>1, <3>2 DEF PlacesOK, TypeOK
    <3>4. QED
      BY <3>1, <3>3
  <2>4. ASSUME NEW c \in Conns, AddClient(c)
        PROVE  RestOK' /\ UNCHANGED <<pc, fd, recvbuf, phase>>
    BY <2>4 DEF AddClient, RestOK, WindingDown
  <2>5. ASSUME NEW c \in Conns, Send(c)
        PROVE  RestOK' /\ UNCHANGED <<pc, fd, recvbuf, phase>>
    <3>1. PICK p \in {"request", "bad"} : inbox' = [inbox EXCEPT ![c] = Append(@, p)]
      BY <2>5 DEF Send
    <3>2. Append(inbox[c], p) \in Seq({"request", "bad"})
      BY DEF RestOK
    <3>3. inbox' \in [Conns -> Seq({"request", "bad"})]
      BY <3>1, <3>2 DEF RestOK
    <3>4. sent' \in [Conns -> 0 .. MaxPackets]
      BY <2>5, ConstantsAssumption DEF Send, RestOK
    <3>5. QED
      BY <2>5, <3>3, <3>4 DEF Send, RestOK
  <2>6. ASSUME NEW c \in Conns, GoAway(c)
        PROVE  RestOK' /\ UNCHANGED <<pc, fd, recvbuf, phase>>
    BY <2>6 DEF GoAway, RestOK
  <2>7. CASE RunTask
    <3>1. /\ pending # <<>> /\ pending' = Tail(pending)
          /\ UNCHANGED <<state, pc, epoll, events, fd, recvbuf, clientbuf, clients, num,
                         owner, main, peer, inbox, sent, errors, overlapped, raced,
                         phase>>
      BY <2>7 DEF RunTask, Tnode!Run
    <3>2. pending' \in Seq(Reply) /\ Head(pending) \in Reply
      BY <3>1 DEF RestOK
    <3>3. PICK f \in Fds, c \in Conns :
            got' = IF owner[f] = None THEN got
                   ELSE [got EXCEPT ![owner[f]] = Append(@, c)]
      BY <2>7, <3>2 DEF RunTask, Reply
    <3>4. got' \in [Conns -> Seq(Conns)]
      <4>1. CASE owner[f] = None
        BY <3>3, <4>1 DEF RestOK
      <4>2. CASE owner[f] \in Conns
        <5>1. Append(got[owner[f]], c) \in Seq(Conns)
          BY <4>2 DEF RestOK
        <5>2. QED
          BY <3>3, <4>2, <5>1, ConstantsAssumption DEF RestOK
      <4>3. QED
        BY <4>1, <4>2 DEF RestOK
    <3>5. RestOK'
      BY <3>1, <3>2, <3>4 DEF RestOK
    <3>6. QED
      BY <3>1, <3>5, PlacesUnchanged
  <2>8. ASSUME Die, UNCHANGED peervars
        PROVE  /\ RestOK' /\ PlacesOK'
               /\ pc' \in [Workers -> Places] /\ fd' \in [Workers -> 0 .. MaxFd]
    <3>1. RestOK'
      BY <2>8 DEF Die, RestOK
    <3>2. PlacesOK'
      BY <2>8 DEF Die, PlacesOK
    <3>3. QED
      BY <2>8, <3>1, <3>2, FdsInRange DEF Die, Places
  <2> DEFINE Fine == /\ RestOK' /\ PlacesOK'
                     /\ pc' \in [Workers -> Places] /\ fd' \in [Workers -> 0 .. MaxFd]
  <2>10. /\ \A w \in Workers : pc[w] = "parse" => recvbuf # None
         /\ \A w \in Workers : pc[w] \in {"parse", "refused", "reap"} => fd[w] \in Fds
    BY DEF TypeOK
  <2>9. ASSUME NEW w \in Workers, NEW to \in Places \ {"closing", "parse"},
               pc[w] # "closing", pc' = [pc EXCEPT ![w] = to],
               UNCHANGED <<phase, recvbuf>>, RestOK',
               NEW f \in 0 .. MaxFd, fd' = fd \/ fd' = [fd EXCEPT ![w] = f],
               to \in {"refused", "reap"} => fd'[w] \in Fds
        PROVE  Fine
    BY <2>9, <2>10, WalkPlaces
  <2>11. ASSUME NEW w \in Workers, Leave(w) \/ Loop(w) \/ Drain(w) PROVE Fine
    <3>1. RestOK'
      <4>1. CASE Leave(w)
        BY <4>1 DEF Leave, RestOK
      <4>2. CASE Loop(w)
        BY <4>2 DEF Loop, RestOK
      <4>3. CASE Drain(w)
        BY <4>3, Meetings DEF Drain, RacesIf, RestOK
      <4>4. QED
        BY <2>11, <4>1, <4>2, <4>3
    <3>2. /\ pc[w] \in {"loop", "drain"} /\ UNCHANGED <<phase, fd, recvbuf>>
      BY <2>11 DEF Leave, Loop, Drain
    <3>3. PICK to \in {"off", "wait", "drain"} : pc' = [pc EXCEPT ![w] = to]
      BY <2>11 DEF Leave, Loop, Drain
    <3>4. QED
      BY <2>9, <3>1, <3>2, <3>3, FdsInRange DEF Places
  <2>12. ASSUME NEW w \in Workers, Wait(w) \/ WaitFails(w) PROVE Fine
    <3>1. RestOK'
      <4>1. CASE Wait(w)
        BY <4>1 DEF Wait, RestOK
      <4>2. CASE WaitFails(w)
        <5>1. errors' \in 0 .. MaxErrors
          BY <4>2, ConstantsAssumption DEF WaitFails, RestOK
        <5>2. QED
          BY <4>2, <5>1 DEF WaitFails, RestOK
      <4>3. QED
        BY <2>12, <4>1, <4>2
    <3>2. /\ pc[w] = "wait" /\ UNCHANGED <<phase, fd, recvbuf>>
      BY <2>12 DEF Wait, WaitFails
    <3>3. PICK to \in {"off", "events"} : pc' = [pc EXCEPT ![w] = to]
      BY <2>12 DEF Wait, WaitFails
    <3>4. QED
      BY <2>9, <3>1, <3>2, <3>3, FdsInRange DEF Places
  <2>13. ASSUME NEW w \in Workers, Count(w) \/ ExitThread(w) PROVE Fine
    <3>1. RestOK'
      BY <2>13 DEF Count, ExitThread, RestOK
    <3>2. /\ pc[w] \in {"count", "exit"} /\ UNCHANGED <<phase, fd, recvbuf>>
      BY <2>13 DEF Count, ExitThread
    <3>3. PICK to \in {"exit", "loop", "closetnode"} : pc' = [pc EXCEPT ![w] = to]
      BY <2>13 DEF Count, ExitThread
    <3>4. QED
      BY <2>9, <3>1, <3>2, <3>3, FdsInRange DEF Places
  <2>14. ASSUME NEW w \in Workers, CloseTnode(w)
         PROVE  RestOK' /\ PlacesOK' /\ pc' \in [Workers -> Places] /\ fd' = fd
    <3>1. RestOK'
      BY <2>14 DEF CloseTnode, Tnode!BeginClose, Tnode!Goes, RestOK
    <3>2. pc[w] = "closetnode" /\ UNCHANGED <<fd, recvbuf>>
      BY <2>14 DEF CloseTnode
    <3>3. CASE phase = "on" /\ phase' = "closing" /\ pc' = [pc EXCEPT ![w] = "closing"]
      BY <2>10, <3>1, <3>2, <3>3 DEF PlacesOK, Places, TypeOK
    <3>4. CASE phase = "off" /\ phase' = phase /\ pc' = [pc EXCEPT ![w] = "loop"]
      BY <2>10, <3>1, <3>2, <3>4 DEF PlacesOK, Places, TypeOK
    <3>5. QED
      BY <2>14, <3>3, <3>4 DEF CloseTnode, Tnode!BeginClose, Tnode!Goes
  <2>15. ASSUME NEW w \in Workers, TnodeClosed(w)
         PROVE  RestOK' /\ PlacesOK' /\ pc' \in [Workers -> Places] /\ fd' = fd
    <3>1. RestOK'
      BY <2>15 DEF TnodeClosed, Tnode!EndClose, Tnode!Goes, RestOK
    <3>2. /\ pc[w] = "closing" /\ pc' = [pc EXCEPT ![w] = "loop"]
          /\ phase' = "off" /\ UNCHANGED <<fd, recvbuf>>
      BY <2>15 DEF TnodeClosed, Tnode!EndClose, Tnode!Goes
    <3>3. QED
      BY <2>10, <3>1, <3>2 DEF PlacesOK, Places, TypeOK
  <2>16. ASSUME NEW w \in Workers, NEW f \in events[w], Recv(w, f) PROVE Fine
    <3>1. f \in Fds /\ f \in 0 .. MaxFd
      BY FdsInRange DEF RestOK
    <3>2. PICK c \in Conns : /\ owner[f] = c /\ inbox[c] # <<>>
                             /\ recvbuf' = [packet |-> Head(inbox[c]), from |-> c]
                             /\ inbox' = [inbox EXCEPT ![c] = Tail(@)]
      BY <2>16, <3>1 DEF Recv, RestOK
    <3>3. recvbuf' \in Packet /\ inbox' \in [Conns -> Seq({"request", "bad"})]
      BY <3>2 DEF RestOK, Packet
    <3>4. recvbuf' # None
      BY <3>3, NoneAssumption
    <3>5. RestOK'
      BY <2>16, <3>3, Meetings DEF Recv, RacesIf, RestOK
    <3>6. /\ pc[w] = "events" /\ pc' = [pc EXCEPT ![w] = "parse"]
          /\ fd' = [fd EXCEPT ![w] = f] /\ phase' = phase
      BY <2>16 DEF Recv, BusyWith
    <3>7. fd'[w] \in Fds
      BY <3>1, <3>6
    <3>8. QED
      BY <3>1, <3>4, <3>5, <3>6, <3>7, WalkPlaces DEF Places
  <2>17. ASSUME NEW w \in Workers, NEW f \in events[w], RecvEnd(w, f) PROVE Fine
    <3>1. f \in Fds /\ f \in 0 .. MaxFd
      BY FdsInRange DEF RestOK
    <3>2. RestOK'
      BY <2>17, Meetings DEF RecvEnd, RacesIf, RestOK
    <3>3. /\ pc[w] = "events" /\ pc' = [pc EXCEPT ![w] = "refused"]
          /\ fd' = [fd EXCEPT ![w] = f] /\ UNCHANGED <<phase, recvbuf>>
      BY <2>17 DEF RecvEnd, BusyWith
    <3>4. fd'[w] \in Fds
      BY <3>1, <3>3
    <3>5. QED
      BY <2>9, <3>1, <3>2, <3>3, <3>4 DEF Places
  <2>18. ASSUME NEW w \in Workers, Request(w) PROVE Fine
    <3>1. [fd |-> fd[w], to |-> recvbuf.from] \in Reply
      <4>1. pc[w] = "parse"
        BY <2>18 DEF Request
      <4>2. fd[w] \in Fds /\ recvbuf \in Packet
        BY <2>10, <4>1 DEF RestOK
      <4>3. QED
        BY <4>2 DEF Packet, Reply
    <3>2. pending' \in Seq(Reply) /\ phase' = phase
      BY <2>18, <3>1 DEF Request, Tnode!Add, RestOK
    <3>3. RestOK'
      BY <2>18, <3>2, BufferRead DEF Request, RestOK
    <3>4. /\ pc[w] = "parse" /\ pc' = [pc EXCEPT ![w] = "events"]
          /\ fd' = [fd EXCEPT ![w] = 0] /\ ReadBuffer(w)
      BY <2>18 DEF Request, BusyWith
    <3>5. /\ \A v \in Workers : v # w /\ pc[v] = "parse" => recvbuf' # None
          /\ "events" \in Places \ {"closing"}
      BY <3>4, BufferRead DEF Places
    <3>6. QED
      BY <3>2, <3>3, <3>4, <3>5, FdsInRange, WalkPlaces
  <2>19. ASSUME NEW w \in Workers, Illegal(w) PROVE Fine
    <3>1. RestOK'
      BY <2>19, BufferRead DEF Illegal, RestOK
    <3>2. /\ pc[w] = "parse" /\ pc' = [pc EXCEPT ![w] = "refused"]
          /\ UNCHANGED <<fd, phase>> /\ ReadBuffer(w)
      BY <2>19 DEF Illegal
    <3>3. fd'[w] \in Fds
      BY <2>10, <3>2
    <3>4. /\ \A v \in Workers : v # w /\ pc[v] = "parse" => recvbuf' # None
          /\ "refused" \in Places \ {"closing"}
      BY <3>2, BufferRead DEF Places
    <3>5. QED
      BY <3>1, <3>2, <3>3, <3>4, FdsInRange, WalkPlaces
  <2>20. ASSUME NEW w \in Workers, Drop(w) \/ Reap(w) PROVE Fine
    <3>1. /\ Delete(fd[w]) /\ RacesIf(OthersInTable(w))
          /\ UNCHANGED <<state, events, recvbuf, clientbuf, phase, pending, main, sent,
                         got>>
      BY <2>20 DEF Drop, Reap
    <3>2. RestOK'
      BY <3>1, DeleteTyped, Meetings DEF RacesIf, RestOK
    <3>3. /\ pc[w] \in {"refused", "reap"} /\ pc' = [pc EXCEPT ![w] = "events"]
          /\ fd' = [fd EXCEPT ![w] = 0]
      BY <2>20 DEF Drop, Reap, BusyWith
    <3>4. "events" \in Places \ {"closing", "parse"}
      BY DEF Places
    <3>5. UNCHANGED <<phase, recvbuf>> /\ pc[w] # "closing"
      BY <3>1, <3>3
    <3>6. QED
      BY <2>9, <3>2, <3>3, <3>4, <3>5, FdsInRange
  <2>21. ASSUME NEW w \in Workers, DropAgain(w) \/ BeatEnd(w) PROVE Fine
    <3>1. RestOK'
      <4>1. CASE DropAgain(w)
        BY <4>1, Meetings DEF DropAgain, RacesIf, RestOK
      <4>2. CASE BeatEnd(w)
        BY <4>2, Meetings DEF BeatEnd, RacesIf, RestOK
      <4>3. QED
        BY <2>21, <4>1, <4>2
    <3>2. /\ pc[w] \in {"refused", "events"} /\ UNCHANGED <<phase, recvbuf>>
          /\ fd' = fd \/ fd' = [fd EXCEPT ![w] = 0]
      BY <2>21 DEF DropAgain, BeatEnd, BusyWith
    <3>3. PICK to \in {"events", "count"} : pc' = [pc EXCEPT ![w] = to]
      BY <2>21 DEF DropAgain, BeatEnd
    <3>4. QED
      BY <2>9, <3>1, <3>2, <3>3, FdsInRange DEF Places
  <2>22. ASSUME NEW w \in Workers, NEW f \in clients, Expire(w, f) PROVE Fine
    <3>1. f \in Fds /\ f \in 0 .. MaxFd
      BY FdsInRange DEF RestOK
    <3>2. RestOK'
      BY <2>22, Meetings DEF Expire, RacesIf, RestOK
    <3>3. /\ pc[w] = "events" /\ pc' = [pc EXCEPT ![w] = "reap"]
          /\ fd' = [fd EXCEPT ![w] = f] /\ UNCHANGED <<phase, recvbuf>>
      BY <2>22 DEF Expire, BusyWith
    <3>4. fd'[w] \in Fds
      BY <3>1, <3>3
    <3>5. QED
      BY <2>9, <3>1, <3>2, <3>3, <3>4 DEF Places
  <2>23. CASE UNCHANGED vars
    BY <2>23, PlacesUnchanged DEF vars, RestOK
  <2>24. QED
    BY <2>1, <2>2, <2>3, <2>4, <2>5, <2>6, <2>7, <2>8, <2>11, <2>12, <2>13, <2>14,
       <2>15, <2>16, <2>17, <2>18, <2>19, <2>20, <2>21, <2>22, <2>23, PlacesUnchanged
    DEF Next, MainStep, WorkerStep, Crash, CopyToNobody
<1>3. QED
  BY <1>1, <1>2, PTL DEF Spec

-----------------------------------------------------------------------------
(* Replies.  Whoever waits for one has arrived, so that no new connection  *)
(* is the asker; and so has who sent what is in the group's buffer, which  *)
(* a worker that has not copied it yet has from its own client, if nobody  *)
(* has written over it.                                                    *)

AskersArrived == \A i \in 1 .. Len(pending) : peer[pending[i].to] # "away"
SenderArrived == recvbuf # None => peer[recvbuf.from] # "away"
OwnBytes ==
  ~raced => \A w \in Workers : pc[w] = "parse" => owner[fd[w]] = recvbuf.from
Aimed == AskersArrived /\ SenderArrived /\ OwnBytes /\ AimedAtAsker

LEMMA PendingTyped ==
  ASSUME TypeOK
  PROVE  /\ pending \in Seq(Reply)
         /\ \A i \in 1 .. Len(pending) : /\ pending[i].to \in Conns
                                         /\ pending[i].fd \in Fds
         /\ recvbuf # None => recvbuf.from \in Conns
         /\ \A w \in Workers : pc[w] = "parse" => recvbuf # None /\ fd[w] \in Fds
<1>1. pending \in Seq(Reply) /\ recvbuf \in Packet \cup {None}
  BY DEF TypeOK
<1>2. \A i \in 1 .. Len(pending) : pending[i] \in Reply
  BY <1>1
<1>3. \A w \in Workers : pc[w] = "parse" => recvbuf # None /\ fd[w] \in Fds
  BY DEF TypeOK
<1>4. QED
  BY <1>1, <1>2, <1>3 DEF Reply, Packet

(* What leaves the replies, the clients and the buffer alone. *)
LEMMA AimedOtherStep ==
  ASSUME TypeOK, Aimed, UNCHANGED <<pending, owner, recvbuf>>,
         \A c \in Conns : peer[c] # "away" => peer'[c] # "away",
         raced => raced',
         \A w \in Workers : pc'[w] = "parse" => pc[w] = "parse" /\ fd'[w] = fd[w]
  PROVE  Aimed'
BY PendingTyped
DEF Aimed, AskersArrived, SenderArrived, OwnBytes, AimedAtAsker, Holds

LEMMA AimedDeleteStep ==
  ASSUME TypeOK, NoLeak, Aimed, NEW w \in Workers, Drop(w) \/ Reap(w)
  PROVE  Aimed'
<1> DEFINE f == fd[w]
<1>1. /\ Delete(f) /\ pc' = [pc EXCEPT ![w] = "events"] /\ fd' = [fd EXCEPT ![w] = 0]
      /\ raced' = (raced \/ OthersInTable(w))
      /\ UNCHANGED <<pending, recvbuf>>
  BY DEF Drop, Reap, Goes, BusyWith, RacesIf, tnodevars
<1>2. \A g \in Fds : owner'[g] = IF g = f THEN None ELSE owner[g]
  BY <1>1 DEF Delete, TypeOK
<1>3. \A c \in Conns : peer[c] # "away" => peer'[c] # "away"
  BY <1>1 DEF Delete
<1>4. AskersArrived' /\ SenderArrived'
  BY <1>1, <1>3, PendingTyped DEF Aimed, AskersArrived, SenderArrived
<1>5. ASSUME ~raced' PROVE \A v \in Workers : pc'[v] # "parse"
  BY <1>1, <1>5 DEF OthersInTable, InTable, TypeOK
<1>6. ASSUME ~raced', NEW i \in 1 .. Len(pending), Holds(pending[i].to)'
      PROVE  owner'[pending[i].fd] = pending[i].to
  <2>1. pending[i].to \in Conns /\ pending[i].fd \in Fds
    BY PendingTyped
  <2>2. PICK g \in Fds : owner'[g] = pending[i].to
    BY <1>1, <1>6 DEF Holds
  <2>3. g # f /\ owner[g] = pending[i].to
    BY <1>2, <2>1, <2>2, ConstantsAssumption
  <2>4. owner[pending[i].fd] = pending[i].to
    BY <1>1, <1>6, <2>3 DEF Aimed, AimedAtAsker, Holds
  <2>5. pending[i].fd = g
    BY <1>1, <1>6, <2>1, <2>3, <2>4, ConstantsAssumption DEF NoLeak
  <2>6. QED
    BY <2>2, <2>5
<1>7. QED
  BY <1>1, <1>4, <1>5, <1>6 DEF Aimed, OwnBytes, AimedAtAsker

LEMMA AimedAddClientStep ==
  ASSUME TypeOK, Aimed, NEW c \in Conns, AddClient(c)
  PROVE  Aimed'
<1>1. PICK f \in Fds : owner[f] = None /\ owner' = [owner EXCEPT ![f] = c]
  BY DEF AddClient
<1>2. /\ peer[c] = "away" /\ peer' = [peer EXCEPT ![c] = "up"]
      /\ UNCHANGED <<pending, pc, fd, recvbuf, raced>>
  BY DEF AddClient, tnodevars, workervars
<1>3. \A i \in 1 .. Len(pending) : pending[i].to \in Conns /\ pending[i].fd \in Fds
  BY PendingTyped
<1>4. AskersArrived' /\ SenderArrived'
  BY <1>2, <1>3, PendingTyped DEF Aimed, AskersArrived, SenderArrived, TypeOK
<1>5. ASSUME ~raced, NEW i \in 1 .. Len(pending), Holds(pending[i].to)'
      PROVE  owner'[pending[i].fd] = pending[i].to
  <2>1. pending[i].to # c
    BY <1>2 DEF Aimed, AskersArrived
  <2>2. PICK g \in Fds : owner'[g] = pending[i].to
    BY <1>2, <1>5 DEF Holds
  <2>3. owner[g] = pending[i].to
    BY <1>1, <2>1, <2>2 DEF TypeOK
  <2>4. owner[pending[i].fd] = pending[i].to
    BY <1>5, <2>3 DEF Aimed, AimedAtAsker, Holds
  <2>5. QED
    BY <1>1, <1>3, <2>4, ConstantsAssumption DEF TypeOK
<1>6. ASSUME ~raced, NEW w \in Workers, pc[w] = "parse"
      PROVE  owner'[fd[w]] = recvbuf.from
  <2>1. fd[w] \in Fds /\ recvbuf.from \in Conns
    BY <1>6, PendingTyped
  <2>2. owner[fd[w]] = recvbuf.from
    BY <1>6 DEF Aimed, OwnBytes
  <2>3. QED
    BY <1>1, <2>1, <2>2, ConstantsAssumption DEF TypeOK
<1>7. QED
  BY <1>2, <1>4, <1>5, <1>6 DEF Aimed, OwnBytes, AimedAtAsker

(* The buffer is filled from the client the worker goes on with; if        *)
(* another one had yet to read it, that is a race.                         *)
LEMMA AimedRecvStep ==
  ASSUME TypeOK, OwnersArrived, Aimed, NEW w \in Workers, NEW f \in events[w], Recv(w, f)
  PROVE  Aimed'
<1>1. f \in Fds /\ owner[f] \in Conns /\ owner[f] # None
  BY DEF TypeOK, Recv
<1>2. /\ recvbuf' = [packet |-> Head(inbox[owner[f]]), from |-> owner[f]]
      /\ pc' = [pc EXCEPT ![w] = "parse"] /\ fd' = [fd EXCEPT ![w] = f]
      /\ recvbuf # None \/ raced => raced'
      /\ UNCHANGED <<pending, owner, peer>>
  BY DEF Recv, Goes, BusyWith, RacesIf, tablevars, tnodevars
<1>3. recvbuf'.from = owner[f]
  BY <1>2
<1>4. SenderArrived'
  BY <1>1, <1>2, <1>3 DEF SenderArrived, OwnersArrived
<1>5. ASSUME ~raced', NEW v \in Workers, pc'[v] = "parse"
      PROVE  owner[fd'[v]] = recvbuf'.from
  <2>1. v = w
    BY <1>2, <1>5, PendingTyped DEF TypeOK
  <2>2. fd'[v] = f
    BY <1>2, <2>1 DEF TypeOK
  <2>3. QED
    BY <1>3, <2>2
<1>6. QED
  BY <1>2, <1>4, <1>5 DEF Aimed, AskersArrived, OwnBytes, AimedAtAsker, Holds

LEMMA AimedRequestStep ==
  ASSUME TypeOK, Aimed, NEW w \in Workers, Request(w)
  PROVE  Aimed'
<1> DEFINE r == [fd |-> fd[w], to |-> recvbuf.from]
<1>1. /\ pc[w] = "parse" /\ pc' = [pc EXCEPT ![w] = "events"]
      /\ fd' = [fd EXCEPT ![w] = 0]
      /\ pending' = Append(pending, r) /\ ReadBuffer(w)
      /\ UNCHANGED <<owner, peer, raced>>
  BY DEF Request, Goes, BusyWith, Tnode!Add, tablevars, peervars, faults
<1>2. /\ fd[w] \in Fds /\ recvbuf # None /\ recvbuf.from \in Conns
  BY <1>1, PendingTyped
<1>3. peer[r.to] # "away" /\ (~raced => owner[r.fd] = r.to)
  BY <1>1, <1>2 DEF Aimed, SenderArrived, OwnBytes
<1>4. ASSUME NEW i \in 1 .. Len(pending')
      PROVE  (i \in 1 .. Len(pending) /\ pending'[i] = pending[i]) \/ pending'[i] = r
  <2>1. pending \in Seq(Reply) /\ r \in Reply
    BY <1>2, PendingTyped DEF Reply
  <2>2. Len(pending') = Len(pending) + 1 /\ Len(pending) \in Nat
    BY <1>1, <2>1
  <2>3. CASE i = Len(pending) + 1
    BY <1>1, <2>1, <2>2, <2>3
  <2>4. CASE i \in 1 .. Len(pending)
    BY <1>1, <2>1, <2>2, <2>4
  <2>5. QED
    BY <2>2, <2>3, <2>4
<1>5. AskersArrived' /\ AimedAtAsker'
  BY <1>1, <1>3, <1>4 DEF Aimed, AskersArrived, AimedAtAsker, Holds
<1>6. SenderArrived'
  BY <1>1 DEF Aimed, SenderArrived, ReadBuffer
<1>7. OwnBytes'
  <2>1. SUFFICES ASSUME ~raced, NEW v \in Workers, pc'[v] = "parse"
                 PROVE  owner[fd'[v]] = recvbuf'.from
    BY <1>1 DEF OwnBytes
  <2>2. v # w /\ pc[v] = "parse" /\ fd'[v] = fd[v]
    BY <1>1, <2>1 DEF TypeOK
  <2>3. recvbuf' = recvbuf
    BY <1>1, <2>2 DEF ReadBuffer
  <2>4. QED
    BY <2>1, <2>2, <2>3 DEF Aimed, OwnBytes
<1>8. QED
  BY <1>5, <1>6, <1>7 DEF Aimed

(* A reply is aimed at the descriptor of the client that asked as long as  *)
(* the server holds that client, with two workers too, until they race.    *)
THEOREM RepliesAreAimed == Spec => []AimedAtAsker
<1>1. Init => Aimed
  BY DEF Init, Tnode!Init, Aimed, AskersArrived, SenderArrived, OwnBytes, AimedAtAsker
<1>2. TypeOK /\ OwnersArrived /\ NoLeak /\ Aimed /\ [Next]_vars => Aimed'
  <2> SUFFICES ASSUME TypeOK, OwnersArrived, NoLeak, Aimed, [Next]_vars PROVE Aimed'
    OBVIOUS
  <2> USE DEF tablevars, peervars, tnodevars, workervars, faults, Goes
  <2>0. /\ pc \in [Workers -> Places]
        /\ \A c \in Conns : \A s \in {"closed", "silent"} :
              peer' = [peer EXCEPT ![c] = s]
                => \A d \in Conns : peer[d] # "away" => peer'[d] # "away"
    BY DEF TypeOK
  <2>1. CASE MainStep
    <3>1. /\ UNCHANGED <<pending, owner, recvbuf, peer, raced, fd>>
          /\ UNCHANGED pc \/ \E w \in Workers : pc' = [pc EXCEPT ![w] = "loop"]
      BY <2>1 DEF MainStep, TestRun, StartWorker, StartTnode, NewWorker, Live,
                  Tnode!Start, Tnode!Goes
    <3>2. \A w \in Workers : pc'[w] = "parse" => pc[w] = "parse"
      BY <2>0, <3>1
    <3>3. QED
      BY <3>1, <3>2, AimedOtherStep
  <2>2. ASSUME NEW c \in Conns, AddClient(c) \/ Send(c) \/ GoAway(c) PROVE Aimed'
    BY <2>0, <2>2, AimedAddClientStep, AimedOtherStep DEF Send, GoAway
  <2>3. ASSUME NEW w \in Workers, NEW to \in Places \ {"parse"},
               pc' = [pc EXCEPT ![w] = to],
               UNCHANGED <<pending, owner, recvbuf, peer>>, raced => raced',
               \A v \in Workers : v # w => fd'[v] = fd[v]
        PROVE  Aimed'
    <3>1. \A v \in Workers : pc'[v] = "parse" => pc[v] = "parse" /\ fd'[v] = fd[v]
      BY <2>0, <2>3
    <3>2. QED
      BY <2>3, <3>1, AimedOtherStep
  <2>4. ASSUME NEW w \in Workers,
               \/ Leave(w) \/ Loop(w) \/ Wait(w) \/ WaitFails(w)
               \/ Count(w) \/ ExitThread(w)
        PROVE  Aimed'
    <3>1. UNCHANGED <<pending, owner, recvbuf, peer, raced, fd>>
      BY <2>4 DEF Leave, Loop, Wait, WaitFails, Count, ExitThread
    <3>2. PICK to \in Places \ {"parse"} : pc' = [pc EXCEPT ![w] = to]
      BY <2>4 DEF Leave, Loop, Wait, WaitFails, Count, ExitThread, Places
    <3>3. QED
      BY <2>3, <3>1, <3>2
  <2>5. ASSUME NEW w \in Workers, CloseTnode(w) \/ TnodeClosed(w) PROVE Aimed'
    <3>1. UNCHANGED <<pending, owner, recvbuf, peer, raced, fd>>
      BY <2>5 DEF CloseTnode, TnodeClosed, Tnode!BeginClose, Tnode!EndClose, Tnode!Goes
    <3>2. PICK to \in Places \ {"parse"} : pc' = [pc EXCEPT ![w] = to]
      BY <2>5 DEF CloseTnode, TnodeClosed, Places
    <3>3. QED
      BY <2>3, <3>1, <3>2
  <2>6. ASSUME NEW w \in Workers,
               \/ Drain(w) \/ DropAgain(w) \/ BeatEnd(w)
               \/ \E f \in events[w] : RecvEnd(w, f)
               \/ \E f \in clients : Expire(w, f)
        PROVE  Aimed'
    <3>1. UNCHANGED <<pending, owner, recvbuf, peer>> /\ (raced => raced')
      BY <2>6 DEF Drain, DropAgain, BeatEnd, RecvEnd, Expire, RacesIf
    <3>2. PICK to \in Places \ {"parse"} : pc' = [pc EXCEPT ![w] = to]
      BY <2>6 DEF Drain, DropAgain, BeatEnd, RecvEnd, Expire, Places
    <3>3. \A v \in Workers : v # w => fd'[v] = fd[v]
      BY <2>6 DEF Drain, DropAgain, BeatEnd, RecvEnd, Expire, BusyWith, TypeOK
    <3>4. QED
      BY <2>3, <3>1, <3>2, <3>3
  <2>7. ASSUME NEW w \in Workers, NEW f \in events[w], Recv(w, f) PROVE Aimed'
    BY <2>7, AimedRecvStep
  <2>8. ASSUME NEW w \in Workers, Request(w) PROVE Aimed'
    BY <2>8, AimedRequestStep
  <2>9. ASSUME NEW w \in Workers, Illegal(w) PROVE Aimed'
    <3>1. /\ UNCHANGED <<pending, owner, peer, raced, fd>> /\ ReadBuffer(w)
          /\ pc' = [pc EXCEPT ![w] = "refused"]
      BY <2>9 DEF Illegal
    <3>2. CASE recvbuf' = recvbuf
      BY <2>3, <3>1, <3>2 DEF Places
    <3>3. CASE recvbuf' = None /\ \A v \in Workers \ {w} : pc[v] # "parse"
      <4>1. \A v \in Workers : pc'[v] # "parse"
        BY <2>0, <3>1, <3>3
      <4>2. QED
        BY <3>1, <3>3, <4>1
        DEF Aimed, AskersArrived, SenderArrived, OwnBytes, AimedAtAsker, Holds
    <3>4. QED
      BY <3>1, <3>2, <3>3 DEF ReadBuffer
  <2>10. ASSUME NEW w \in Workers, Drop(w) \/ Reap(w) PROVE Aimed'
    BY <2>10, AimedDeleteStep
  <2>11. CASE RunTask
    <3>1. /\ pending # <<>> /\ pending' = Tail(pending)
          /\ UNCHANGED <<owner, peer, recvbuf, pc, fd, raced>>
      BY <2>11 DEF RunTask, Tnode!Run
    <3>2. \A i \in 1 .. Len(pending') : i + 1 \in 1 .. Len(pending)
                                        /\ pending'[i] = pending[i + 1]
      BY <3>1, PendingTyped
    <3>3. QED
      BY <3>1, <3>2
      DEF Aimed, AskersArrived, SenderArrived, OwnBytes, AimedAtAsker, Holds
  <2>12. CASE Crash \/ \E w \in Workers : CopyToNobody(w)
    <3>1. pending' = <<>> /\ recvbuf' = None /\ \A w \in Workers : pc'[w] = "off"
      BY <2>12 DEF Crash, CopyToNobody, Die
    <3>2. QED
      BY <3>1 DEF Aimed, AskersArrived, SenderArrived, OwnBytes, AimedAtAsker
  <2>13. CASE UNCHANGED vars
    BY <2>13, AimedOtherStep DEF vars
  <2>14. QED
    BY <2>1, <2>2, <2>4, <2>5, <2>6, <2>7, <2>8, <2>9, <2>10, <2>11, <2>12, <2>13
    DEF Next, WorkerStep
<1>3. IInv => OwnersArrived /\ NoLeak
  BY DEF IInv
<1>4. Aimed => AimedAtAsker
  BY DEF Aimed
<1>5. QED
  BY <1>1, <1>2, <1>3, <1>4, Invariance, TypeCorrect, PTL DEF Spec

-----------------------------------------------------------------------------
(* From here on: until a connection arrives while a worker winds down.     *)

(* One worker at most, which has the flag set until it winds down. *)
OneAtWork ==
  /\ \A v, w \in Live : v = w
  /\ state => Live # {}
  /\ \A w \in Live : pc[w] \notin {"loop", "closetnode", "closing"} => state
  /\ \A w \in Live : pc[w] \in {"closetnode", "closing"} => ~state

(* A worker that winds down has no clients left and gets none, and it      *)
(* leaves with the task node closed.                                       *)
Winding ==
  \A w \in Live : WindingDown(w) => /\ num = 0 /\ main = "idle"
                                    /\ pc[w] = "loop" => phase = "off"

(* While addclient() goes on, its client stays in the buffer; start() finds *)
(* no worker, and the task node is on when it is done.                      *)
Starting == /\ main # "idle" => clientbuf # {}
            /\ main = "start" => ~state
            /\ state /\ main # "starttnode" => phase = "on"

(* Events are those of the worker's own clients, and so is the client it   *)
(* is busy with.                                                           *)
EventsKnown ==
  \A w \in Workers :
    /\ events[w] \subseteq clients
    /\ pc[w] \notin {"events", "parse", "refused", "reap"} => events[w] = {}
    /\ pc[w] \in {"parse", "refused", "reap"} => fd[w] \in clients \ events[w]

(* Nobody has been met, and nobody but a worker that reads it has left     *)
(* something in the group's buffer.                                        *)
NobodyMet == /\ ~raced
             /\ recvbuf # None => \E w \in Workers : pc[w] = "parse"

Served == errors = 0 /\ num > 0 /\ main \in {"idle", "starttnode"} => state
Counted == num = Cardinality(clientbuf) + Cardinality(clients)

CInv == /\ OneAtWork /\ Winding /\ Starting /\ EventsKnown /\ NobodyMet /\ Served
        /\ Counted
Calm == Undisturbed => CInv

(* What the count says about the two places clients are in. *)
LEMMA CountSays ==
  ASSUME TypeOK, Counted
  PROVE  /\ num \in Nat
         /\ num = 0 => clientbuf = {} /\ clients = {}
         /\ clientbuf # {} => num > 0
<1>1. /\ IsFiniteSet(clientbuf) /\ IsFiniteSet(clients)
      /\ Cardinality(clientbuf) \in Nat /\ Cardinality(clients) \in Nat
  BY FiniteFds DEF TypeOK
<1>2. /\ Cardinality(clientbuf) = 0 => clientbuf = {}
      /\ Cardinality(clients) = 0 => clients = {}
  BY <1>1, FS_EmptySet
<1>3. QED
  BY <1>1, <1>2 DEF Counted

LEMMA CalmAddClient ==
  ASSUME TypeOK, NoLeak, CInv, NEW c \in Conns, AddClient(c), Undisturbed'
  PROVE  CInv'
<1>1. PICK f \in Fds : owner[f] = None /\ clientbuf' = clientbuf \cup {f}
  BY DEF AddClient
<1>2. /\ num' = num + 1 /\ main = "idle" /\ main' = "test"
      /\ \A w \in Workers : ~WindingDown(w)
      /\ UNCHANGED <<state, pc, events, fd, recvbuf, clients, phase, errors, raced>>
  BY DEF AddClient, Undisturbed, workervars, tnodevars
<1>3. Counted'
  <2>1. f \notin clientbuf /\ f \notin clients
    BY <1>1 DEF NoLeak, CInv, NobodyMet
  <2>2. Cardinality(clientbuf') = Cardinality(clientbuf) + 1
    BY <1>1, <2>1, FiniteFds, FS_AddElement DEF TypeOK
  <2>3. Cardinality(clientbuf) \in Nat /\ Cardinality(clients) \in Nat
    BY FiniteFds DEF TypeOK
  <2>4. QED
    BY <1>2, <2>2, <2>3 DEF CInv, Counted
<1>4. OneAtWork'
  BY <1>2 DEF CInv, OneAtWork, Live
<1>5. Winding'
  BY <1>2 DEF CInv, Winding, Live, WindingDown
<1>6. Starting'
  BY <1>1, <1>2 DEF CInv, Starting
<1>7. EventsKnown' /\ NobodyMet' /\ Served'
  BY <1>2 DEF CInv, EventsKnown, NobodyMet, Served
<1>8. QED
  BY <1>3, <1>4, <1>5, <1>6, <1>7 DEF CInv

LEMMA CalmMain ==
  ASSUME TypeOK, CInv, MainStep
  PROVE  CInv'
<1> USE DEF tablevars, faults, workervars
<1>1. main # "idle" /\ clientbuf # {} /\ num > 0
  BY CountSays DEF MainStep, TestRun, StartWorker, StartTnode, CInv, Starting
<1>2. \A w \in Live : ~WindingDown(w)
  BY <1>1 DEF CInv, Winding
<1>3. UNCHANGED <<clientbuf, clients, num, events, fd, recvbuf, errors, raced>>
  BY DEF MainStep, TestRun, StartWorker, StartTnode
<1>4. Counted'
  BY <1>3 DEF Counted, CInv
<1>5. CASE TestRun
  <2>1. /\ main = "test" /\ main' = IF state THEN "idle" ELSE "start"
        /\ UNCHANGED <<state, pc, phase>>
    BY <1>5 DEF TestRun, tnodevars
  <2>2. OneAtWork'
    BY <2>1 DEF CInv, OneAtWork, Live
  <2>3. Winding'
    BY <1>2, <2>1 DEF Winding, Live, WindingDown
  <2>4. Starting' /\ EventsKnown' /\ NobodyMet' /\ Served'
    BY <1>1, <1>3, <2>1 DEF CInv, Starting, EventsKnown, NobodyMet, Served
  <2>5. QED
    BY <1>4, <2>2, <2>3, <2>4 DEF CInv
<1>6. CASE StartWorker
  <2>1. /\ main = "start" /\ main' = "starttnode" /\ ~state
        /\ UNCHANGED phase
    BY <1>6 DEF StartWorker, CInv, Starting, tnodevars
  <2>2. Live = {}
    BY <1>2, <2>1 DEF WindingDown, Live
  <2>3. state' = TRUE
    BY <1>6, <2>1 DEF StartWorker, NewWorker
  <2>4. PICK w \in Workers : pc' = [pc EXCEPT ![w] = "loop"]
    BY <1>6, <2>1 DEF StartWorker, NewWorker, Live
  <2>5. Live' = {w} /\ pc'[w] = "loop"
    BY <2>2, <2>4 DEF Live, TypeOK
  <2>6. OneAtWork'
    BY <2>3, <2>5 DEF OneAtWork
  <2>7. Winding'
    BY <2>3, <2>5 DEF Winding, WindingDown
  <2>8. EventsKnown' /\ NobodyMet'
    <3>1. \A v \in Workers : pc[v] = "off"
      BY <2>2 DEF Live
    <3>2. \A v \in Workers : pc'[v] \in {"off", "loop"} /\ events'[v] = {}
      BY <1>3, <2>4, <3>1 DEF CInv, EventsKnown, TypeOK
    <3>3. QED
      BY <1>3, <3>1, <3>2 DEF CInv, EventsKnown, NobodyMet
  <2>9. Starting' /\ Served'
    BY <1>1, <1>3, <2>1, <2>3 DEF Starting, Served
  <2>10. QED
    BY <1>4, <2>6, <2>7, <2>8, <2>9 DEF CInv
<1>7. CASE StartTnode
  <2>1. /\ main = "starttnode" /\ main' = "idle" /\ UNCHANGED <<state, pc>>
        /\ phase' = "on"
    BY <1>7 DEF StartTnode, Tnode!Start, Tnode!Goes, tnodevars
  <2>2. OneAtWork'
    BY <2>1 DEF CInv, OneAtWork, Live
  <2>3. Winding'
    BY <1>2, <2>1 DEF Winding, Live, WindingDown
  <2>4. Starting' /\ EventsKnown' /\ NobodyMet' /\ Served'
    BY <1>1, <1>3, <2>1 DEF CInv, Starting, EventsKnown, NobodyMet, Served
  <2>5. QED
    BY <1>4, <2>2, <2>3, <2>4 DEF CInv
<1>8. QED
  BY <1>5, <1>6, <1>7 DEF MainStep

(* A worker that makes a step is the only one. *)
LEMMA Alone ==
  ASSUME CInv, NEW w \in Workers, pc[w] # "off"
  PROVE  /\ Live = {w}
         /\ \A v \in Workers : v # w => pc[v] = "off" /\ events[v] = {}
         /\ ~OthersInTable(w) /\ ~MeetsNull(w)
         /\ pc[w] # "parse" => recvbuf = None
<1>1. Live = {w} /\ \A v \in Workers : v # w => pc[v] = "off"
  BY DEF CInv, OneAtWork, Live
<1>2. QED
  BY <1>1 DEF CInv, EventsKnown, NobodyMet, OthersInTable, InTable, Beating, MeetsNull

(* A step of a worker that neither ends nor touches the flag or the buffer *)
(* of clients.                                                             *)
LEMMA CalmGoes ==
  ASSUME TypeOK, CInv, NEW w \in Workers, NEW to, Goes(w, pc[w], to),
         pc[w] # "off", to \notin {"off", "loop", "closetnode", "closing"},
         to = "exit" => num' = 0 /\ main = "idle",
         state,
         UNCHANGED <<state, clientbuf, phase, main, errors>>,
         EventsKnown', NobodyMet', Counted'
  PROVE  CInv'
<1>1. Live' = {w} /\ pc'[w] = to
  BY Alone DEF Goes, Live, TypeOK
<1>2. OneAtWork'
  BY <1>1 DEF OneAtWork
<1>4. Winding'
  BY <1>1 DEF Winding, WindingDown
<1>5. Starting' /\ Served'
  BY DEF CInv, Starting, Served
<1>6. QED
  BY <1>2, <1>4, <1>5 DEF CInv

LEMMA CalmDelete ==
  ASSUME TypeOK, CInv, NEW f \in clients, Delete(f), UNCHANGED clientbuf
  PROVE  Counted'
<1>1. clients' = clients \ {f} /\ num' = num - 1
  BY DEF Delete
<1>2. /\ IsFiniteSet(clients) /\ Cardinality(clients) \in Nat
      /\ Cardinality(clientbuf) \in Nat
  BY FiniteFds DEF TypeOK
<1>3. Cardinality(clients') = Cardinality(clients) - 1
  BY <1>1, <1>2, FS_RemoveElement
<1>4. QED
  BY <1>1, <1>2, <1>3 DEF CInv, Counted

LEMMA CalmDrain ==
  ASSUME TypeOK, NoLeak, CInv, NEW w \in Workers, Drain(w)
  PROVE  CInv'
<1>1. /\ pc[w] = "drain" /\ pc' = [pc EXCEPT ![w] = "wait"] /\ main = "idle"
      /\ clients' = clients \cup clientbuf /\ clientbuf' = {}
      /\ UNCHANGED <<state, events, fd, recvbuf, num, phase, main, errors>>
      /\ raced' = (raced \/ OthersInTable(w))
  BY DEF Drain, Goes, MutexFree, tnodevars, RacesIf
<1>2. Live' = {w} /\ pc'[w] = "wait" /\ state
  BY <1>1, Alone DEF Live, TypeOK, CInv, OneAtWork
<1>3. OneAtWork' /\ Winding'
  BY <1>1, <1>2 DEF OneAtWork, Winding, WindingDown
<1>4. Starting' /\ Served'
  BY <1>1 DEF CInv, Starting, Served
<1>5. EventsKnown' /\ NobodyMet'
  BY <1>1, Alone DEF CInv, EventsKnown, NobodyMet, TypeOK
<1>6. Counted'
  <2>1. /\ IsFiniteSet(clients) /\ IsFiniteSet(clientbuf)
        /\ Cardinality(clients) \in Nat /\ Cardinality(clientbuf) \in Nat
    BY FiniteFds DEF TypeOK
  <2>2. clients \cap clientbuf = {}
    BY DEF NoLeak, CInv, NobodyMet
  <2>3. Cardinality(clients \cup clientbuf) =
          Cardinality(clients) + Cardinality(clientbuf)
          - Cardinality(clients \cap clientbuf)
    BY <2>1, FS_Union
  <2>4. Cardinality(clients') = Cardinality(clients) + Cardinality(clientbuf)
    <3>1. Cardinality(clients \cap clientbuf) = 0
      BY <2>2, FS_EmptySet
    <3>2. QED
      BY <1>1, <2>1, <2>3, <3>1
  <2>5. Cardinality(clientbuf') = 0
    BY <1>1, FS_EmptySet
  <2>6. QED
    BY <1>1, <2>1, <2>4, <2>5 DEF CInv, Counted
<1>7. QED
  BY <1>3, <1>4, <1>5, <1>6 DEF CInv

(* A packet is received, or the end of the stream is. *)
LEMMA CalmRecv ==
  ASSUME TypeOK, CInv, NEW w \in Workers, NEW f \in events[w],
         Recv(w, f) \/ RecvEnd(w, f)
  PROVE  CInv'
<1>1. PICK to \in {"parse", "refused"} : Goes(w, "events", to)
  BY DEF Recv, RecvEnd
<1>2. /\ UNCHANGED <<state, clientbuf, clients, num, phase, main, errors>>
      /\ events' = [events EXCEPT ![w] = @ \ {f}]
      /\ fd' = [fd EXCEPT ![w] = f]
      /\ to = "refused" => recvbuf' = recvbuf
      /\ raced' = (raced \/ recvbuf # None \/ (f \notin clients /\ OthersInTable(w)))
         \/ raced' = (raced \/ (f \notin clients /\ OthersInTable(w)))
  BY <1>1 DEF Recv, RecvEnd, Goes, BusyWith, RacesIf, tablevars, tnodevars, TypeOK
<1>3. /\ pc[w] = "events" /\ state /\ f \in clients /\ f \in Fds
      /\ recvbuf = None /\ ~OthersInTable(w)
      /\ \A v \in Workers : v # w => pc[v] = "off" /\ events[v] = {}
  BY <1>1, Alone DEF Goes, CInv, OneAtWork, EventsKnown, Live, TypeOK
<1>4. NobodyMet'
  <2>1. ~raced'
    BY <1>2, <1>3 DEF CInv, NobodyMet
  <2>2. pc'[w] = to
    BY <1>1 DEF Goes, TypeOK
  <2>3. QED
    BY <1>2, <1>3, <2>1, <2>2 DEF NobodyMet
<1>5. EventsKnown'
  <2>1. ASSUME NEW v \in Workers, v # w
        PROVE  pc'[v] = "off" /\ events'[v] = {}
    BY <1>1, <1>2, <1>3, <2>1 DEF Goes, TypeOK
  <2>2. pc'[w] = to /\ fd'[w] = f /\ events'[w] = events[w] \ {f}
    BY <1>1, <1>2 DEF Goes, TypeOK
  <2>3. events[w] \subseteq clients
    BY DEF CInv, EventsKnown
  <2>4. QED
    BY <1>1, <1>2, <1>3, <2>1, <2>2, <2>3 DEF EventsKnown
<1>6. Counted'
  BY <1>2 DEF CInv, Counted
<1>7. QED
  BY <1>1, <1>2, <1>3, <1>4, <1>5, <1>6, CalmGoes DEF Goes

(* The packet is handled, or it is bad. *)
LEMMA CalmParse ==
  ASSUME TypeOK, CInv, NEW w \in Workers, Request(w) \/ Illegal(w)
  PROVE  CInv'
<1>1. PICK to \in {"events", "refused"} : Goes(w, "parse", to)
  BY DEF Request, Illegal
<1>2. /\ UNCHANGED <<state, events, clientbuf, clients, num, phase, main, errors, raced>>
      /\ to = "refused" => fd' = fd
      /\ ReadBuffer(w)
  BY <1>1 DEF Request, Illegal, Goes, Tnode!Add, tablevars, tnodevars, faults, TypeOK
<1>3. /\ pc[w] = "parse" /\ state
      /\ \A v \in Workers : v # w => pc[v] = "off" /\ events[v] = {}
  BY <1>1, Alone DEF Goes, CInv, OneAtWork, Live
<1>4. NobodyMet'
  BY <1>2, <1>3 DEF ReadBuffer, CInv, NobodyMet
<1>5. EventsKnown'
  <2>1. ASSUME NEW v \in Workers, v # w
        PROVE  pc'[v] = "off" /\ events'[v] = {}
    BY <1>1, <1>2, <1>3, <2>1 DEF Goes, TypeOK
  <2>2. pc'[w] = to
    BY <1>1 DEF Goes, TypeOK
  <2>3. events[w] \subseteq clients /\ fd[w] \in clients \ events[w]
    BY <1>3 DEF CInv, EventsKnown
  <2>4. QED
    BY <1>1, <1>2, <2>1, <2>2, <2>3 DEF EventsKnown
<1>6. Counted'
  BY <1>2 DEF CInv, Counted
<1>7. QED
  BY <1>1, <1>2, <1>3, <1>4, <1>5, <1>6, CalmGoes DEF Goes

(* A client is deleted. *)
LEMMA CalmDrop ==
  ASSUME TypeOK, CInv, NEW w \in Workers, Drop(w) \/ Reap(w)
  PROVE  CInv'
<1>1. /\ pc[w] \in {"refused", "reap"} /\ Goes(w, pc[w], "events")
      /\ UNCHANGED <<state, events, clientbuf, phase, main, errors, recvbuf>>
      /\ Delete(fd[w]) /\ raced' = (raced \/ OthersInTable(w))
  BY DEF Drop, Reap, Goes, RacesIf, tnodevars
<1>2. /\ state /\ fd[w] \in clients \ events[w] /\ events[w] \subseteq clients
      /\ ~OthersInTable(w) /\ recvbuf = None
      /\ \A v \in Workers : v # w => pc[v] = "off" /\ events[v] = {}
  BY <1>1, Alone DEF CInv, OneAtWork, EventsKnown, Live
<1>3. Counted'
  BY <1>1, <1>2, CalmDelete
<1>4. NobodyMet'
  BY <1>1, <1>2 DEF CInv, NobodyMet
<1>5. EventsKnown'
  <2>1. ASSUME NEW v \in Workers, v # w
        PROVE  pc'[v] = "off" /\ events'[v] = {}
    BY <1>1, <1>2, <2>1 DEF Goes, TypeOK
  <2>2. pc'[w] = "events" /\ events'[w] \subseteq clients'
    BY <1>1, <1>2 DEF Goes, Delete, TypeOK
  <2>3. QED
    BY <2>1, <2>2 DEF EventsKnown
<1>6. QED
  BY <1>1, <1>2, <1>3, <1>4, <1>5, CalmGoes DEF Goes

(* The client of a refused packet is still there. *)
LEMMA NoneAgain ==
  ASSUME CInv, NEW w \in Workers
  PROVE  ~DropAgain(w) /\ ~CopyToNobody(w)
BY DEF CInv, EventsKnown, DropAgain, CopyToNobody, Goes

(* The heartbeat pass goes on, or it ends. *)
LEMMA CalmBeat ==
  ASSUME TypeOK, CInv, NEW w \in Workers,
         BeatEnd(w) \/ \E f \in clients : Expire(w, f)
  PROVE  CInv'
<1>1. PICK to \in {"reap", "count"} : Goes(w, "events", to)
  BY DEF BeatEnd, Expire
<1>2. /\ events[w] = {}
      /\ UNCHANGED <<state, events, clientbuf, clients, num, phase, main, errors,
                     recvbuf>>
      /\ to = "reap" => fd'[w] \in clients
      /\ raced' = (raced \/ MeetsNull(w))
  BY <1>1 DEF BeatEnd, Expire, Beating, BusyWith, Goes, RacesIf, tablevars, tnodevars,
              TypeOK
<1>3. /\ pc[w] = "events" /\ state /\ ~MeetsNull(w) /\ recvbuf = None
      /\ \A v \in Workers : v # w => pc[v] = "off" /\ events[v] = {}
  BY <1>1, Alone DEF Goes, CInv, OneAtWork, Live
<1>4. NobodyMet'
  BY <1>2, <1>3 DEF CInv, NobodyMet
<1>5. EventsKnown'
  <2>1. ASSUME NEW v \in Workers, v # w
        PROVE  pc'[v] = "off" /\ events'[v] = {}
    BY <1>1, <1>2, <1>3, <2>1 DEF Goes, TypeOK
  <2>2. pc'[w] = to
    BY <1>1 DEF Goes, TypeOK
  <2>3. QED
    BY <1>1, <1>2, <2>1, <2>2 DEF EventsKnown
<1>6. Counted'
  BY <1>2 DEF CInv, Counted
<1>7. QED
  BY <1>1, <1>2, <1>3, <1>4, <1>5, <1>6, CalmGoes DEF Goes

(* The worker leaves its loop, after winding down or because epoll_wait()  *)
(* has failed.                                                             *)
LEMMA CalmEnds ==
  ASSUME TypeOK, CInv, NEW w \in Workers, Leave(w) \/ WaitFails(w)
  PROVE  CInv'
<1>1. /\ pc[w] \in {"loop", "wait"} /\ pc' = [pc EXCEPT ![w] = "off"]
      /\ ~state'
      /\ UNCHANGED <<events, fd, recvbuf, clientbuf, clients, num, phase, main, raced>>
  BY DEF Leave, WaitFails, Goes, tnodevars, tablevars, faults
<1>2. Live' = {}
  BY <1>1, Alone DEF Live, TypeOK
<1>3. OneAtWork' /\ Winding'
  BY <1>1, <1>2 DEF OneAtWork, Winding
<1>4. Starting' /\ Counted'
  BY <1>1 DEF CInv, Starting, Counted
<1>5. EventsKnown' /\ NobodyMet'
  BY <1>1, Alone DEF CInv, EventsKnown, NobodyMet, TypeOK
<1>6. Served'
  <2>1. CASE Leave(w)
    <3>1. WindingDown(w) /\ w \in Live
      BY <2>1 DEF Leave, Goes, WindingDown, Live
    <3>2. num = 0
      BY <3>1 DEF CInv, Winding
    <3>3. QED
      BY <1>1, <3>2 DEF Served
  <2>2. CASE WaitFails(w)
    BY <2>2 DEF WaitFails, Served, TypeOK
  <2>3. QED
    BY <2>1, <2>2
<1>7. QED
  BY <1>3, <1>4, <1>5, <1>6 DEF CInv

(* Winding down: the flag, then the task node. *)
LEMMA CalmWind ==
  ASSUME TypeOK, CInv, NEW w \in Workers,
         ExitThread(w) \/ CloseTnode(w) \/ TnodeClosed(w)
  PROVE  CInv'
<1>1. /\ pc[w] \in {"exit", "closetnode", "closing"}
      /\ UNCHANGED <<events, fd, recvbuf, clientbuf, clients, num, main, errors, raced>>
  BY DEF ExitThread, CloseTnode, TnodeClosed, Goes, tablevars, faults
<1>2. Live = {w} /\ num = 0 /\ main = "idle"
  BY <1>1, Alone DEF CInv, Winding, WindingDown
<1>3. ~state'
  BY <1>2 DEF ExitThread, CloseTnode, TnodeClosed, Goes, CInv, OneAtWork
<1>4. PICK to \in {"closetnode", "closing", "loop"} :
        /\ pc' = [pc EXCEPT ![w] = to]
        /\ to = "loop" => phase' = "off"
  BY DEF ExitThread, CloseTnode, TnodeClosed, Goes, Tnode!BeginClose,
         Tnode!EndClose, Tnode!Goes, tnodevars
<1>5. Live' = {w} /\ pc'[w] = to
  BY <1>2, <1>4 DEF Live, TypeOK
<1>6. OneAtWork' /\ Winding'
  BY <1>1, <1>2, <1>3, <1>4, <1>5 DEF OneAtWork, Winding
<1>7. EventsKnown' /\ NobodyMet'
  BY <1>1, <1>4, Alone DEF CInv, EventsKnown, NobodyMet, TypeOK
<1>8. Starting' /\ Served' /\ Counted'
  BY <1>1, <1>2, <1>3 DEF CInv, Starting, Served, Counted
<1>9. QED
  BY <1>6, <1>7, <1>8 DEF CInv

LEMMA CalmLoop ==
  ASSUME TypeOK, NoLeak, CInv, NEW w \in Workers, Loop(w) \/ Wait(w) \/ Count(w)
  PROVE  CInv'
<1> USE DEF tnodevars, tablevars, faults
<1>1. /\ UNCHANGED <<state, fd, recvbuf, clientbuf, clients, num, phase, main, errors,
                     raced>>
      /\ pc[w] \in {"loop", "wait", "count"}
  BY DEF Loop, Wait, Count, Goes
<1>2. state /\ pc[w] # "off"
  <2>1. CASE Loop(w)
    BY <1>1, <2>1 DEF Loop
  <2>2. CASE Wait(w) \/ Count(w)
    BY <1>1, <2>2 DEF Wait, Count, Goes, CInv, OneAtWork, Live
  <2>3. QED
    BY <2>1, <2>2
<1>2a. ~raced /\ recvbuf = None /\ NobodyMet' /\ Counted'
  BY <1>1, <1>2, Alone DEF CInv, NobodyMet, Counted
<1>3. CASE Loop(w)
  <2>1. EventsKnown'
    BY <1>1, <1>3 DEF Loop, Goes, CInv, EventsKnown, TypeOK
  <2>2. QED
    BY <1>1, <1>2, <1>2a, <1>3, <2>1, CalmGoes DEF Loop, Goes
<1>4. CASE Wait(w)
  <2>1. EventsKnown'
    BY <1>1, <1>2a, <1>4 DEF Wait, Goes, CInv, EventsKnown, NoLeak, TypeOK
  <2>2. QED
    BY <1>1, <1>2, <1>2a, <1>4, <2>1, CalmGoes DEF Wait, Goes
<1>5. CASE Count(w) /\ num = 0
  <2>1. EventsKnown' /\ Goes(w, pc[w], "exit")
    BY <1>1, <1>5 DEF Count, NoClients, Goes, CInv, EventsKnown, TypeOK
  <2>2. QED
    <3>1. main = "idle"
      BY <1>5, CountSays DEF CInv, Starting
    <3>2. QED
      BY <1>1, <1>2, <1>2a, <1>5, <2>1, <3>1, CalmGoes
<1>6. CASE Count(w) /\ num # 0
  <2>1. /\ pc[w] = "count" /\ pc' = [pc EXCEPT ![w] = "loop"]
        /\ UNCHANGED events
    BY <1>6 DEF Count, NoClients, Goes
  <2>2. Live' = {w} /\ pc'[w] = "loop"
    BY <2>1, Alone DEF Live, TypeOK
  <2>3. OneAtWork' /\ Winding'
    BY <1>1, <1>2, <2>2 DEF OneAtWork, Winding, WindingDown
  <2>4. EventsKnown'
    BY <1>1, <2>1 DEF CInv, EventsKnown, TypeOK
  <2>5. Starting' /\ Served'
    BY <1>1 DEF CInv, Starting, Served
  <2>6. QED
    BY <1>2a, <2>3, <2>4, <2>5 DEF CInv
<1>7. QED
  BY <1>3, <1>4, <1>5, <1>6

LEMMA Calmness == Spec => []Calm
<1>1. Init => Calm
  <2> SUFFICES ASSUME Init PROVE CInv
    BY DEF Calm
  <2>1. /\ state = FALSE /\ main = "idle" /\ num = 0
        /\ clientbuf = {} /\ clients = {}
        /\ recvbuf = None /\ raced = FALSE
        /\ \A w \in Workers : pc[w] = "off" /\ events[w] = {}
    BY DEF Init
  <2>2. Live = {} /\ Counted
    BY <2>1, FS_EmptySet DEF Live, Counted
  <2>3. QED
    BY <2>1, <2>2 DEF CInv, OneAtWork, Winding, Starting, EventsKnown, NobodyMet, Served
<1>2. TypeOK /\ NoLeak /\ Calm /\ [Next]_vars => Calm'
  <2> SUFFICES ASSUME TypeOK, NoLeak, Calm, [Next]_vars, Undisturbed'
               PROVE  CInv'
    BY DEF Calm
  <2>0. Undisturbed /\ CInv
    <3>1. overlapped => overlapped'
      <4>1. CASE MainStep \/ RunTask \/ Crash \/ UNCHANGED vars
        BY <4>1 DEF MainStep, TestRun, StartWorker, StartTnode, RunTask, Crash, Die,
                    faults, vars
      <4>2. ASSUME NEW c \in Conns, AddClient(c) \/ Send(c) \/ GoAway(c)
            PROVE  overlapped => overlapped'
        BY <4>2 DEF AddClient, Send, GoAway, faults
      <4>3. ASSUME NEW w \in Workers, WorkerStep(w) \/ WaitFails(w)
            PROVE  UNCHANGED overlapped
        BY <4>3 DEF WorkerStep, Leave, Loop, Drain, Wait, WaitFails, Recv, RecvEnd,
                    Request, Illegal, CopyToNobody, Die, Drop, DropAgain, Expire,
                    Reap, BeatEnd, Count, ExitThread, CloseTnode, TnodeClosed,
                    RacesIf, faults
      <4>4. QED
        BY <4>1, <4>2, <4>3 DEF Next
    <3>2. QED
      BY <3>1 DEF Calm, Undisturbed
  <2> USE <2>0
  <2>1. CASE MainStep
    BY <2>1, CalmMain
  <2>2. ASSUME NEW c \in Conns, AddClient(c) PROVE CInv'
    BY <2>2, CalmAddClient
  <2>3. ASSUME UNCHANGED <<state, pc, events, fd, recvbuf, clientbuf, clients, num,
                           phase, main, errors, raced>>
        PROVE  CInv'
    BY <2>3 DEF CInv, OneAtWork, Winding, WindingDown, Live, Starting,
                EventsKnown, NobodyMet, Served, Counted
  <2>4. ASSUME NEW c \in Conns, Send(c) \/ GoAway(c) PROVE CInv'
    BY <2>3, <2>4 DEF Send, GoAway, workervars, tablevars, tnodevars, faults
  <2>5. ASSUME NEW w \in Workers, WorkerStep(w) \/ WaitFails(w) PROVE CInv'
    BY <2>5, CalmLoop, CalmDrain, CalmRecv, CalmParse, CalmDrop, NoneAgain, CalmBeat,
       CalmEnds, CalmWind
    DEF WorkerStep
  <2>6. CASE RunTask
    BY <2>3, <2>6 DEF RunTask, Tnode!Run, workervars, tablevars, faults
  <2>7. CASE UNCHANGED vars
    BY <2>3, <2>7 DEF vars, workervars, tablevars, tnodevars, faults
  <2>8. ~Crash
    BY DEF Crash, CInv, NobodyMet
  <2>9. QED
    BY <2>1, <2>2, <2>4, <2>5, <2>6, <2>7, <2>8 DEF Next
<1>3. QED
  BY <1>1, <1>2, NothingLeaks, TypeCorrect, PTL DEF Spec

(* _client_num is the number of clients. *)
THEOREM CountIsRight == Spec => []CountMatches
<1>1. Calm => CountMatches
  BY DEF Calm, CInv, Counted, CountMatches
<1>2. QED
  BY <1>1, Calmness, PTL

(* The group has one worker at a time, and it meets nobody in what it does *)
(* without the mutex.                                                      *)
THEOREM WorkerIsAlone == Spec => []OneWorker
<1>1. Calm => OneWorker
  BY DEF Calm, CInv, OneAtWork, NobodyMet, OneWorker
<1>2. QED
  BY <1>1, Calmness, PTL

(* Clients have a worker, unless its epoll_wait() fails. *)
THEOREM ClientsAreServed == Spec => []WorkerUntilFault
<1>1. Calm => WorkerUntilFault
  BY DEF Calm, CInv, OneAtWork, Served, Orderly, WorkerUntilFault, WorkerForClients
<1>2. QED
  BY <1>1, Calmness, PTL

(* A worker that runs has a task node that runs. *)
THEOREM RepliesAreSent == Spec => []TnodeForWorker
<1>1. Calm => TnodeForWorker
  BY DEF Calm, CInv, Starting, TnodeForWorker
<1>2. QED
  BY <1>1, Calmness, PTL

(* Events find their client in the table, and it stays there. *)
THEOREM EventsFindClients == Spec => []ClientOfEvent
<1>1. Calm => ClientOfEvent
  BY DEF Calm, CInv, EventsKnown, ClientOfEvent
<1>2. QED
  BY <1>1, Calmness, PTL

-----------------------------------------------------------------------------
(* The group as the main thread's load balancing has it, in Server.        *)

(* A step takes a client from the count or leaves it, or it is an          *)
(* addclient() that adds one.                                              *)
Counts == \/ num' \in {num - 1, num}
          \/ num' = num + 1 /\ \E c \in Conns : AddClient(c)

(* Seen from outside, a group is a counter to which only addclient() adds, *)
(* and from which a step takes no more than one (m_group_node.cpp:52, 158, *)
(* 183), whatever overlaps, races or fails.  That it does not fall below   *)
(* zero is CountIsRight, as long as nothing overlaps.                      *)
CountSteps == [][Counts]_vars

(* Every step of a group is one that Server's groups may take: AddClient,  *)
(* Drop, or none.                                                          *)
THEOREM CountGoesAsServerSees == Spec => CountSteps
<1>1. ASSUME Next PROVE Counts
  <2>1. CASE MainStep \/ RunTask \/ Crash
    BY <2>1 DEF MainStep, TestRun, StartWorker, StartTnode, RunTask, Crash, Die,
                tablevars, Counts
  <2>2. ASSUME NEW c \in Conns, AddClient(c) \/ Send(c) \/ GoAway(c) PROVE Counts
    BY <2>2 DEF AddClient, Send, GoAway, tablevars, Counts
  <2>3. ASSUME NEW w \in Workers, WorkerStep(w) \/ WaitFails(w)
        PROVE  num' \in {num - 1, num}
    BY <2>3 DEF WorkerStep, Leave, Loop, Drain, Wait, WaitFails, Recv, RecvEnd,
                Request, Illegal, CopyToNobody, Die, Drop, DropAgain, Delete, Expire,
                Reap, BeatEnd, Count, ExitThread, CloseTnode, TnodeClosed, tablevars
  <2>4. QED
    BY <1>1, <2>1, <2>2, <2>3 DEF Next, Counts
<1>2. [Next]_vars => [Counts]_vars
  BY <1>1
<1>3. QED
  BY <1>2, PTL DEF Spec, CountSteps

=============================================================================
