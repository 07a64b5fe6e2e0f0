------------------------------- MODULE Server -------------------------------
(***************************************************************************)
(* The main thread of the server (server/pi_net.cpp, m_server.cpp): it     *)
(* starts up, whatever its steps return, then accepts connections, gives   *)
(* each to the group with the fewest clients and saves the readings every  *)
(* so often.  Meanwhile the workers of the groups lose clients and store   *)
(* uploads.                                                                *)
(*                                                                         *)
(* What addclient() does inside a group is the subject of GroupNode; here  *)
(* a group is its _client_num, read without a lock, and it may be too low  *)
(* where two workers of the group have raced.  One client uploads, so one  *)
(* upload is stored at a time.  The database is the outcome of each call.  *)
(* Values are numbered as in Readings, where the replies are; here are the *)
(* rows.                                                                   *)
(***************************************************************************)
EXTENDS Integers, Sequences

CONSTANTS Groups,         \* number of groups, the argument of m_start()
          Period,         \* passes of the loop in sixty seconds
          MaxConns,       \* bound: connections ever made
          MaxDrift,       \* bound: clients counted out once too often
          MaxUploads      \* bound: uploads ever received

ASSUME ConstantsAssumption ==
  /\ Groups \in Nat \ {0} /\ Period \in Nat \ {0}
  /\ MaxConns \in Nat /\ MaxDrift \in Nat /\ MaxUploads \in Nat

Group == 1 .. Groups
Field == {"illu", "temp", "rh", "db"}

VARIABLES pc,             \* where the main thread is
          sock,           \* _sock
          mysql,          \* _db._mysql
          dbinit,         \* history: what m_db_mgr::init() came to
          waiting, made,  \* connections waiting for accept(), made so far
          num,            \* _client_num of each group
          best, next,     \* the two iterators of addclient_main()
          seen,           \* history: the counts as addclient_main() read them
          mytimer,        \* the persistence timer
          data, storing,  \* the atomics; stores of setdata_tr() done
          uploads,        \* uploads received, the last possibly half stored
          loaded,         \* what savedata() has loaded
          base,           \* history: the uploads complete when it began
          row             \* history: the last row given to insert_data()

startvars == <<sock, mysql, dbinit>>
scanvars == <<best, next, seen>>
datavars == <<data, storing, uploads>>
savevars == <<mytimer, loaded, base, row>>
vars == <<pc, startvars, waiting, made, num, scanvars, datavars, savevars>>

Unset == [f \in Field |-> 0]

Init == /\ pc = "init"
        /\ sock = "none"
        /\ mysql \in {"handle", "null"} /\ dbinit = "untried"
        /\ waiting = 0 /\ made = 0
        /\ num = [g \in Group |-> 0]
        /\ best = 1 /\ next = 1 /\ seen = [g \in Group |-> 0]
        /\ data = Unset /\ storing = 0 /\ uploads = 0
        /\ mytimer = 0 /\ loaded = <<>> /\ base = 0 /\ row = Unset

Running == pc \notin {"ended", "crashed"}

-----------------------------------------------------------------------------
(* Start-up.  main() looks at no result. *)

(* m_db::connect() needs the handle of mysql_init() and loses it when it   *)
(* fails.  m_db::exec() uses the connection without a test.                *)
Connected(ok) == mysql = "handle" /\ mysql' = IF ok THEN "connected" ELSE "null"
ExecCrashes == mysql = "null"

(* m_db_mgr::init(): a failing count of the tables leaves no row to read,  *)
(* and it is read all the same; too many tables are an error, but the      *)
(* connection stays.                                                       *)
InitDb(to) ==
  \/ /\ \/ mysql = "null" /\ UNCHANGED mysql
        \/ Connected(FALSE)
     /\ dbinit' = "failed" /\ pc' = to
  \/ /\ Connected(TRUE)
     /\ \/ dbinit' \in {"ok", "failed"} /\ pc' = to
        \/ dbinit' = "failed" /\ pc' = "crashed"

(* m_init(), called by main() and, if it gave no socket, by m_bind(). *)
MInit(from, to) ==
  /\ pc = from
  /\ \/ sock' = "open" /\ InitDb(to)
     \/ pc' = to /\ UNCHANGED startvars
  /\ UNCHANGED <<waiting, made, num, scanvars, datavars, savevars>>

MBind ==
  /\ pc = "bind"
  /\ \/ sock = "none" /\ pc' = "reinit" /\ UNCHANGED sock
     \/ sock # "none" /\ pc' = "dobind" /\ UNCHANGED sock
  /\ UNCHANGED <<mysql, dbinit, waiting, made, num, scanvars, datavars,
                 savevars>>
DoBind ==
  /\ pc = "dobind" /\ pc' = "listen"
  /\ \/ sock = "open" /\ sock' = "bound"
     \/ sock' = "none"
  /\ UNCHANGED <<mysql, dbinit, waiting, made, num, scanvars, datavars,
                 savevars>>

(* The mutant closes the socket and keeps its number. *)
ListenKeeping ==
  /\ pc = "listen" /\ pc' = "start"
  /\ \/ sock = "none" /\ UNCHANGED sock
     \/ sock = "bound" /\ sock' \in {"listening", "closed"}
  /\ UNCHANGED <<mysql, dbinit, waiting, made, num, scanvars, datavars,
                 savevars>>
MListen ==
  /\ pc = "listen" /\ pc' = "start"
  /\ \/ sock = "none" /\ UNCHANGED sock
     \/ sock = "bound" /\ sock' \in {"listening", "none"}
  /\ UNCHANGED <<mysql, dbinit, waiting, made, num, scanvars, datavars,
                 savevars>>

(* m_start() creates the groups; m_work() starts or gives up. *)
MStart ==
  /\ pc = "start"
  /\ pc' = IF sock = "none" THEN "ended" ELSE "loop"
  /\ UNCHANGED <<startvars, waiting, made, num, scanvars, datavars, savevars>>

-----------------------------------------------------------------------------
(* m_work(). *)

(* A failing epoll_wait() ends the loop, and the program. *)
WaitFails ==
  /\ pc = "loop" /\ pc' = "ended"
  /\ UNCHANGED <<startvars, waiting, made, num, scanvars, datavars, savevars>>

(* Nothing arrived within a millisecond, or accept() failed. *)
NoClient ==
  /\ pc = "loop" /\ pc' = "timer"
  /\ \/ waiting = 0 /\ UNCHANGED waiting
     \/ waiting > 0 /\ waiting' = waiting - 1
  /\ UNCHANGED <<startvars, made, num, scanvars, datavars, savevars>>

Accept ==
  /\ pc = "loop" /\ waiting > 0 /\ pc' = "scan"
  /\ waiting' = waiting - 1
  /\ UNCHANGED <<startvars, made, num, scanvars, datavars, savevars>>

(* addclient_main(), with its locals: one comparison per group.  The       *)
(* mutant prefers the fuller group.                                        *)
FullerThan(g, h) == num[g] < num[h]
MoreThan(g, h) == num[g] > num[h]
Scan(g) == /\ pc = "scan" /\ g = next
           /\ best' = IF MoreThan(best, g) THEN g ELSE best
           /\ next' = next + 1
           /\ seen' = [seen EXCEPT ![g] = num[g]]
           /\ UNCHANGED <<pc, startvars, waiting, made, num, datavars, savevars>>

AddClient ==
  /\ pc = "scan" /\ next > Groups
  /\ num' = [num EXCEPT ![best] = @ + 1]
  /\ pc' = "timer"
  /\ best' = 1 /\ next' = 1 /\ seen' = [g \in Group |-> 0]
  /\ UNCHANGED <<startvars, waiting, made, datavars, savevars>>

(* The timer: a pass may be long.  The mutant does not add up the passes.  *)
TickForgetful ==
  /\ pc = "timer"
  /\ \E d \in 1 .. Period :
       pc' = IF d >= Period THEN "save" ELSE "loop"
  /\ base' = uploads - (IF storing > 0 THEN 1 ELSE 0)
  /\ UNCHANGED <<startvars, waiting, made, num, scanvars, datavars, mytimer,
                 loaded, row>>
Tick ==
  /\ pc = "timer"
  /\ \E d \in 1 .. Period :
       /\ pc' = IF mytimer + d >= Period THEN "save" ELSE "loop"
       /\ mytimer' = IF mytimer + d >= Period THEN 0 ELSE mytimer + d
  /\ base' = uploads - (IF storing > 0 THEN 1 ELSE 0)
  /\ UNCHANGED <<startvars, waiting, made, num, scanvars, datavars, loaded, row>>

(* savedata(): four loads, then a row unless the temperature is unset.     *)
(* The result of exec() is dropped.                                        *)
LoadOrder == <<"illu", "temp", "rh", "db">>
Load ==
  /\ pc = "save" /\ Len(loaded) < 4
  /\ loaded' = Append(loaded, data[LoadOrder[Len(loaded) + 1]])
  /\ UNCHANGED <<pc, startvars, waiting, made, num, scanvars, datavars, mytimer,
                 base, row>>
Row == [illu |-> loaded[1], temp |-> loaded[2], rh |-> loaded[3], db |-> loaded[4]]
InsertLosing ==
  /\ pc = "save" /\ Len(loaded) = 4
  /\ \/ Row.temp = 0 /\ pc' = "loop" /\ UNCHANGED <<row, mysql>>
     \/ Row.temp > 0 /\ ExecCrashes /\ pc' = "crashed" /\ UNCHANGED <<row, mysql>>
     \/ Row.temp > 0 /\ ~ExecCrashes /\ pc' = "loop" /\ row' = Row
        /\ mysql' \in {mysql, "null"}
  /\ loaded' = <<>>
  /\ UNCHANGED <<sock, dbinit, waiting, made, num, scanvars, datavars, mytimer,
                 base>>
Insert ==
  /\ pc = "save" /\ Len(loaded) = 4
  /\ \/ Row.temp = 0 /\ pc' = "loop" /\ UNCHANGED row
     \/ Row.temp > 0 /\ ExecCrashes /\ pc' = "crashed" /\ UNCHANGED row
     \/ Row.temp > 0 /\ ~ExecCrashes /\ pc' = "loop" /\ row' = Row
  /\ loaded' = <<>>
  /\ UNCHANGED <<startvars, waiting, made, num, scanvars, datavars, mytimer, base>>

-----------------------------------------------------------------------------
(* Everybody else, as long as the process lives. *)

Connect ==
  /\ Running /\ sock = "listening" /\ made < MaxConns
  /\ made' = made + 1 /\ waiting' = waiting + 1
  /\ UNCHANGED <<pc, startvars, num, scanvars, datavars, savevars>>

(* A worker drops a client of its group; one that was dropped by another   *)
(* worker at once is counted out twice (DropAgain and Reap of GroupNode).  *)
Drop(g) ==
  /\ Running /\ num[g] > -MaxDrift
  /\ num' = [num EXCEPT ![g] = @ - 1]
  /\ UNCHANGED <<pc, startvars, waiting, made, scanvars, datavars, savevars>>

(* A worker stores an upload field by field, or an illumination. *)
StoreOrder == <<"temp", "rh", "db">>
LastEarly == 2
Last == 3
Store ==
  /\ Running
  /\ \/ storing = 0 /\ uploads < MaxUploads /\ uploads' = uploads + 1
        /\ \E g \in Group : num[g] # 0
     \/ storing > 0 /\ UNCHANGED uploads
  /\ data' = [data EXCEPT ![StoreOrder[storing + 1]] = uploads']
  /\ storing' = (storing + 1) % Last
  /\ UNCHANGED <<pc, startvars, waiting, made, num, scanvars, savevars>>
SetIllu ==
  /\ Running /\ \E g \in Group : num[g] # 0
  /\ data' = [data EXCEPT !["illu"] = 1]
  /\ UNCHANGED <<pc, startvars, waiting, made, num, scanvars, storing, uploads,
                 savevars>>

-----------------------------------------------------------------------------

MainStep == \/ MInit("init", "bind") \/ MBind \/ MInit("reinit", "dobind") \/ DoBind
            \/ MListen \/ MStart
            \/ WaitFails \/ NoClient \/ Accept \/ AddClient
            \/ \E g \in Group : Scan(g)
            \/ Tick \/ Load \/ Insert

Next == \/ MainStep
        \/ Connect \/ Store \/ SetIllu
        \/ \E g \in Group : Drop(g)

Spec == Init /\ [][Next]_vars

(* The main thread is scheduled. *)
FairSpec == Spec /\ WF_vars(MainStep)

-----------------------------------------------------------------------------

(* Types; and the iterators stay in the vector of groups. *)
TypeOK ==
  /\ pc \in {"init", "bind", "reinit", "dobind", "listen", "start", "loop", "scan",
             "timer", "save", "ended", "crashed"}
  /\ sock \in {"none", "open", "bound", "listening"}
  /\ mysql \in {"handle", "connected", "null"}
  /\ dbinit \in {"untried", "ok", "failed"}
  /\ waiting \in Nat /\ made \in Nat /\ waiting <= made
  /\ num \in [Group -> Int] /\ seen \in [Group -> Int]
  /\ best \in Group /\ next \in 1 .. Groups + 1
  /\ mytimer \in 0 .. Period - 1
  /\ data \in [Field -> Nat] /\ row \in [Field -> Nat]
  /\ storing \in 0 .. 2 /\ uploads \in Nat /\ base \in Nat
  /\ loaded \in Seq(Nat) /\ Len(loaded) <= 4

(* The loop is only entered with a listening socket, whichever of the      *)
(* steps before it failed, although nobody looks at their results          *)
(* (pi_net.cpp:17-22, m_server.cpp:59-109).                                *)
LoopListens == pc \in {"loop", "scan", "timer", "save"} => sock = "listening"

(* Only a database that could not be initialised makes the server crash    *)
(* (m_db.cpp:33-38, m_db_mgr.cpp:56-57): one that fails later does not.    *)
CrashNeedsFailedInit == pc = "crashed" => dbinit = "failed"

(* The group chosen has no more clients than any group had when it was     *)
(* looked at, although clients leave meanwhile and counts may have drifted *)
(* (m_server.cpp:213-222).                                                 *)
FewestClients == [][AddClient => \A g \in Group : num[best] <= seen[g]]_vars

(* A row is at least as recent, in all three columns, as the last upload   *)
(* that was complete when savedata() began (m_server.cpp:226-236).         *)
RowIsFresh == \A n \in 2 .. Len(loaded) : loaded[n] >= base

(* "Record it if it is normal data" (m_server.cpp:233): every column of a  *)
(* row to be inserted has a value.                                         *)
RowIsNormal == row # Unset => \A f \in Field : row[f] > 0

(* While the loop runs the readings are saved again and again, however     *)
(* many clients arrive (m_server.cpp:194-203).                             *)
SavesGoOn == pc = "loop" ~> pc \in {"save", "ended", "crashed"}
==============================================================================
