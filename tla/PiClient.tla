------------------------------ MODULE PiClient ------------------------------
(***************************************************************************)
(* The program on the Raspberry Pi (client4PI/) from its start to its end, *)
(* with the data files it shares with the sensor scripts (hardware4PI/).   *)
(*                                                                         *)
(* The main thread connects, starts the two nodes and sleeps; the receive  *)
(* node ends the whole process with exit(1) when the server is gone; the   *)
(* send node dies of what it finds in a file or of a send().  When the     *)
(* connection fails the main thread takes everything down in order.  The   *)
(* process is started again by hand, and finds the files as it left them.  *)
(*                                                                         *)
(* A thread of a node is an m_thread, of which close() waits for the       *)
(* worker with the mutex taken (see MThread).  Time is not modelled: that  *)
(* the receive node takes no connection in order for silent is             *)
(* NoFalseAlarm of Heartbeat.                                              *)
(***************************************************************************)
EXTENDS Integers, Sequences

CONSTANTS MaxFd,          \* bound: descriptors
          MaxStarts,      \* bound: times the program is started
          MaxErrors,      \* bound: epoll_wait() calls that fail
          MaxIllu         \* bound: the illuminations that are set

ASSUME ConstantsAssumption ==
  /\ MaxFd \in Nat \ {0}
  /\ MaxStarts \in Nat /\ MaxErrors \in Nat /\ MaxIllu \in Nat

VARIABLES fate,           \* "up", or how the process has ended
          main,           \* where the main thread is
          waiting,        \* the node whose thread it waits for in close()
          sock,           \* _sock: a descriptor, or 0 for INVALID_SOCKET
          holder,         \* what each descriptor of the process is
          flag,           \* _thread._state of each node
          pc,             \* where each node's worker is
          illu,           \* _illu of the receive node; 0 is its initial -1
          link,           \* the connection, as the Pi's kernel sees it
          asked,          \* a poll is on its way
          answers,        \* answers arrived and not received yet
          setting,        \* the illumination on the server; 0 is -1, none yet
          file,           \* the data files of the sensors
          illufile,       \* data_illu, which the client writes
          unwritten,      \* history: that failed when _illu was last set
          script,         \* where getData.sh is
          missed,         \* has a line been missing in this round?
          starts, errors, \* counters for the bounds
          late            \* history: main left the nodes 5 s without a connection

Nodes == {"recv", "send"}
Fds == 1 .. MaxFd
Illus == 0 .. MaxIllu
DataFiles == {"data", "data_db"}
Missing == -2
Empty == -1

procvars == <<fate, main, waiting, sock, holder>>
nodevars == <<flag, pc, illu>>
netvars == <<link, asked, answers, setting>>
filevars == <<file, illufile, unwritten, script, missed>>
counters == <<starts, errors, late>>
vars == <<procvars, nodevars, netvars, filevars, counters>>

Init == /\ fate = "none" /\ main = "none" /\ waiting = "none" /\ sock = 0
        /\ holder = [f \in Fds |-> "free"]
        /\ flag = [n \in Nodes |-> FALSE] /\ pc = [n \in Nodes |-> "off"]
        /\ illu = 0
        /\ link = "none" /\ asked = FALSE /\ answers = <<>> /\ setting = 0
        /\ file = [f \in DataFiles |-> "missing"] /\ illufile = Missing
        /\ unwritten = FALSE
        /\ script = "db" /\ missed = FALSE
        /\ starts = 0 /\ errors = 0 /\ late = FALSE

(* The process is over: its threads, its descriptors and its connection    *)
(* are gone; the files stay as they are.                                   *)
Over(how) == /\ fate' = how
             /\ main' = "none" /\ waiting' = "none"
             /\ holder' = [f \in Fds |-> "free"]
             /\ flag' = [n \in Nodes |-> FALSE]
             /\ pc' = [n \in Nodes |-> "off"]
             /\ link' = "none" /\ asked' = FALSE /\ answers' = <<>>
             /\ UNCHANGED <<sock, illu, setting, filevars, counters>>

(* The lowest free descriptor becomes h. *)
Lowest(f) == holder[f] = "free" /\ \A g \in 1 .. f - 1 : holder[g] # "free"
Open(f, h) == Lowest(f) /\ holder' = [holder EXCEPT ![f] = h]
CloseFd(f) == holder' = IF f \in Fds THEN [holder EXCEPT ![f] = "free"] ELSE holder

-----------------------------------------------------------------------------
(* The main thread.  A client that is started knows no illumination, and so *)
(* writes the first one it learns; the mutant remembers the last one.      *)

Main(from, to) == main = from /\ main' = to

LaunchRemembering == /\ fate # "up" /\ starts < MaxStarts
                     /\ fate' = "up" /\ Main("none", "init")
                     /\ sock' = 0 /\ starts' = starts + 1 /\ late' = FALSE
                     /\ UNCHANGED <<waiting, holder, nodevars, netvars, filevars, errors>>
Launch == /\ fate # "up" /\ starts < MaxStarts
          /\ fate' = "up" /\ Main("none", "init")
          /\ sock' = 0 /\ illu' = 0
          /\ starts' = starts + 1 /\ late' = FALSE
          /\ UNCHANGED <<waiting, holder, flag, pc, netvars, filevars, errors>>

(* socket() works or fails, in m_init() and again in m_connect(). *)
Socket == \/ \E f \in Fds : Open(f, "sock") /\ sock' = f
          \/ UNCHANGED <<sock, holder>>
MInit == /\ Main("init", "connect")
         /\ Socket
         /\ UNCHANGED <<fate, waiting, nodevars, netvars, filevars, counters>>
MRetry == /\ Main("connect", "tried")
          /\ IF sock = 0 THEN Socket ELSE UNCHANGED <<sock, holder>>
          /\ UNCHANGED <<fate, waiting, nodevars, netvars, filevars, counters>>

(* connect(): a socket that does not connect is closed, but _sock keeps    *)
(* its number.                                                             *)
MConnect == /\ Main("tried", "start-recv")
            /\ \/ sock # 0 /\ link' = "up" /\ UNCHANGED holder
               \/ CloseFd(sock) /\ UNCHANGED link
            /\ UNCHANGED <<fate, waiting, sock, nodevars, asked, answers, setting,
                           filevars, counters>>

(* m_start() starts both nodes whether or not there is a connection. *)
MStart(n) == /\ Main(IF n = "recv" THEN "start-recv" ELSE "start-send",
                     IF n = "recv" THEN "start-send" ELSE "work")
             /\ flag' = [flag EXCEPT ![n] = TRUE]
             /\ pc' = [pc EXCEPT ![n] = "begin"]
             /\ UNCHANGED <<fate, waiting, sock, holder, illu, netvars, filevars,
                            counters>>

(* m_work() waits for good, unless _status says that there is no           *)
(* connection: then ~m_client follows.  The nodes have ended the process   *)
(* or not by then.  The mutant does not wait.                              *)
Connected == link # "none"
MWorkUnblocked == /\ Main("work", "close-recv")
                  /\ UNCHANGED <<fate, waiting, sock, holder, nodevars, netvars,
                                 filevars, counters>>
MWork == /\ Main("work", IF Connected THEN "blocked" ELSE "close-recv")
         /\ UNCHANGED <<fate, waiting, sock, holder, nodevars, netvars, filevars,
                        counters>>

(* close_node(): from m_close(), and once more from the node's destructor. *)
(* The mutant does not wait for the thread.                                *)
After(m) == CASE m = "close-recv" -> "close-send" [] m = "close-send" -> "free-recv"
              [] m = "free-recv" -> "free-send"   [] m = "free-send" -> "close-sock"
NodeOf(m) == IF m \in {"close-recv", "free-recv"} THEN "recv" ELSE "send"
CloseUnawaited == /\ main \in {"close-recv", "close-send", "free-recv", "free-send"}
                  /\ flag' = [flag EXCEPT ![NodeOf(main)] = FALSE]
                  /\ main' = After(main)
                  /\ UNCHANGED <<fate, sock, holder, waiting, pc, illu, netvars,
                                 filevars, counters>>
CloseNode ==
  /\ main \in {"close-recv", "close-send", "free-recv", "free-send"}
  /\ LET n == NodeOf(main) IN
       \/ /\ flag[n]
          /\ flag' = [flag EXCEPT ![n] = FALSE]
          /\ waiting' = n
          /\ UNCHANGED main
       \/ /\ ~flag[n] /\ waiting = "none"
          /\ main' = After(main)
          /\ UNCHANGED <<flag, waiting>>
       \/ /\ waiting = n /\ pc[n] = "off"
          /\ waiting' = "none"
          /\ main' = After(main)
          /\ UNCHANGED flag
  /\ UNCHANGED <<fate, sock, holder, pc, illu, netvars, filevars, counters>>

(* close(_sock), for the second time, and the end of main(). *)
MCloseSock == /\ Main("close-sock", "end")
              /\ CloseFd(sock)
              /\ UNCHANGED <<fate, waiting, sock, nodevars, netvars, filevars, counters>>
MEnd == main = "end" /\ Over("ended")

MainStep == MInit \/ MRetry \/ MConnect \/ (\E n \in Nodes : MStart(n)) \/ MWork
            \/ CloseNode \/ MCloseSock \/ MEnd

-----------------------------------------------------------------------------
(* The receive node. *)

Goes(n, from, to) == pc[n] = from /\ pc' = [pc EXCEPT ![n] = to]

(* Without a socket it returns at once, and the flag stays set. *)
RBegin == /\ \/ sock = 0 /\ Goes("recv", "begin", "off") /\ UNCHANGED holder
             \/ /\ sock # 0 /\ Goes("recv", "begin", "loop")
                /\ \E f \in Fds : Open(f, "epoll")
          /\ UNCHANGED <<fate, main, waiting, sock, flag, illu, netvars, filevars,
                         counters>>

CloseEpoll == holder' = [f \in Fds |-> IF holder[f] = "epoll" THEN "free" ELSE holder[f]]
RLoopForever == /\ Goes("recv", "loop", "wait")
                /\ UNCHANGED <<procvars, flag, illu, netvars, filevars, counters>>
RLoop == /\ \/ flag["recv"] /\ Goes("recv", "loop", "wait") /\ UNCHANGED holder
            \/ ~flag["recv"] /\ Goes("recv", "loop", "off") /\ CloseEpoll
         /\ UNCHANGED <<fate, main, waiting, sock, flag, illu, netvars, filevars,
                        counters>>

(* Five seconds without a packet. *)
RSilent == /\ flag["recv"]
           /\ link \in {"none", "down"}
           /\ late' = (late \/ link = "none")
           /\ Goes("recv", "loop", "exit")
           /\ UNCHANGED <<procvars, flag, illu, netvars, filevars, starts, errors>>

(* epoll_wait() finds nothing, fails, or recvdata() has something to read. *)
LostLink == link \in {"closed", "reset"}
RNothing == /\ answers = <<>> /\ ~LostLink
            /\ Goes("recv", "wait", "loop")
            /\ UNCHANGED <<procvars, flag, illu, netvars, filevars, counters>>
RFailsLeaking == /\ errors < MaxErrors /\ errors' = errors + 1
                 /\ Goes("recv", "wait", "off")
                 /\ UNCHANGED <<procvars, flag, illu, netvars, filevars, starts, late>>
RFails == /\ errors < MaxErrors /\ errors' = errors + 1
          /\ Goes("recv", "wait", "off") /\ CloseEpoll
          /\ UNCHANGED <<fate, main, waiting, sock, flag, illu, netvars, filevars,
                         starts, late>>
(* A new illumination is remembered and goes into the file, which the open *)
(* truncates ...  When the open fails nothing is written: what follows goes *)
(* to a stream that is not open, and later answers find _illu up to date.  *)
Opened == /\ unwritten' = FALSE /\ illufile' = Empty
          /\ Goes("recv", "wait", "write")
NotOpened == /\ unwritten' = TRUE /\ UNCHANGED illufile
             /\ Goes("recv", "wait", "loop")
RAnswer == /\ answers # <<>>
           /\ answers' = Tail(answers)
           /\ illu' = Head(answers)
           /\ IF illu # Head(answers)
              THEN Opened \/ NotOpened
              ELSE Goes("recv", "wait", "loop") /\ UNCHANGED <<illufile, unwritten>>
           /\ UNCHANGED <<procvars, flag, link, asked, setting, file, script, missed,
                          counters>>
(* ... and then written, which may fail too: nobody looks at the stream.   *)
RWrite == /\ Goes("recv", "write", "loop")
          /\ \/ illufile' = illu /\ UNCHANGED unwritten
             \/ unwritten' = TRUE /\ UNCHANGED illufile
          /\ UNCHANGED <<procvars, flag, illu, netvars, file, script, missed, counters>>
RLost == /\ answers = <<>> /\ LostLink
         /\ Goes("recv", "wait", "exit")
         /\ UNCHANGED <<procvars, flag, illu, netvars, filevars, counters>>

(* _thread.exit(), which needs the mutex, then m_exit() and exit(1). *)
RExit == /\ waiting # "recv"
         /\ Goes("recv", "exit", "quit")
         /\ flag' = [flag EXCEPT !["recv"] = FALSE]
         /\ UNCHANGED <<procvars, illu, netvars, filevars, counters>>
RQuit == pc["recv"] = "quit" /\ Over("lost")

RecvStep == RBegin \/ RLoop \/ RNothing \/ RAnswer \/ RWrite \/ RLost \/ RExit \/ RQuit

-----------------------------------------------------------------------------
(* The send node.  addtask() has no caller, so its list stays empty. *)

(* send(): the first one after the peer has closed draws a reset, the next *)
(* raises SIGPIPE, which nobody handles; the mutant survives it.           *)
Send(from, to) ==
  /\ Goes("send", from, to)
  /\ link # "reset"
  /\ link' = IF link = "closed" THEN "reset" ELSE link
  /\ UNCHANGED <<procvars, flag, illu, answers, setting, filevars, counters>>
KilledNot(from) == /\ link = "reset" /\ Goes("send", from, "loop")
                   /\ UNCHANGED <<procvars, flag, illu, netvars, filevars, counters>>
Killed(from) == pc["send"] = from /\ link = "reset" /\ Over("killed")

SBegin == /\ Goes("send", "begin", "loop")
          /\ UNCHANGED <<procvars, flag, illu, netvars, filevars, counters>>
SStop == /\ ~flag["send"]
         /\ Goes("send", "loop", "off")
         /\ UNCHANGED <<procvars, flag, illu, netvars, filevars, counters>>
Heart == /\ flag["send"]
         /\ \/ Send("loop", "loop") /\ UNCHANGED asked
            \/ Killed("loop")

(* send_data_to_server() comes 10 s after the start, so that there is a    *)
(* connection.  It reads one file, then the other; stoi() of what is not   *)
(* there throws, and nobody catches it.                                    *)
ReadT == /\ flag["send"] /\ Connected
         /\ Goes("send", "loop", IF file["data"] = "whole" THEN "good" ELSE "bad")
         /\ UNCHANGED <<procvars, flag, illu, netvars, filevars, counters>>
Readable == pc["send"] = "good" /\ file["data_db"] = "whole"
Upload == \/ pc["send"] \in {"good", "bad"} /\ ~Readable /\ Over("aborted")
          \/ Readable /\ Send("good", "poll") /\ UNCHANGED asked
          \/ Readable /\ Killed("good")

(* get_illu_from_server() *)
PollForgotten == \/ Send("poll", "loop") /\ UNCHANGED asked
                 \/ Killed("poll")
Poll == \/ Send("poll", "loop") /\ asked' = (link = "up")
        \/ Killed("poll")

SendStep == SBegin \/ SStop \/ Heart \/ Upload \/ Poll

-----------------------------------------------------------------------------
(* The server and the network. *)

SetIllu == /\ setting' \in Illus \ {setting}
           /\ UNCHANGED <<procvars, nodevars, link, asked, answers, filevars, counters>>
Answer == /\ asked /\ link = "up" /\ answers = <<>>
          /\ answers' = <<setting>> /\ asked' = FALSE
          /\ UNCHANGED <<procvars, nodevars, link, setting, filevars, counters>>
LinkBreaks == /\ link = "up"
              /\ link' \in {"closed", "down"}
              /\ asked' = FALSE
              /\ UNCHANGED <<procvars, nodevars, answers, setting, filevars, counters>>

-----------------------------------------------------------------------------
(* getData.sh, run again and again by getData.py: a sensor's script puts   *)
(* what it measures into its file and prints it; without a measurement it  *)
(* prints the file.  ">" truncates, echo writes.                           *)

Script(from, to) == script = from /\ script' = to
LineOf(f) == IF f = "data_db" THEN "db" ELSE "t"
Rest(f) == IF f = "data_db" THEN "illu" ELSE "show"
Truncate(f) == /\ Script(LineOf(f), f)
               /\ file' = [file EXCEPT ![f] = "empty"]
               /\ UNCHANGED <<procvars, nodevars, netvars, illufile, unwritten, missed,
                              counters>>
Fill(f) == /\ Script(f, Rest(f))
           /\ file' = [file EXCEPT ![f] = "whole"]
           /\ UNCHANGED <<procvars, nodevars, netvars, illufile, unwritten, missed,
                              counters>>
NothingMeasured(f) ==
  /\ Script(LineOf(f), Rest(f))
  /\ missed' = (missed \/ file[f] # "whole")
  /\ UNCHANGED <<procvars, nodevars, netvars, file, illufile, unwritten, counters>>
(* The illumination, or -1 if there is no file. *)
CatIllu == /\ Script("illu", "t")
           /\ missed' = (missed \/ illufile = Empty)
           /\ UNCHANGED <<procvars, nodevars, netvars, file, illufile, unwritten, counters>>
(* getData.py shows four lines; with fewer it ends with an IndexError. *)
Show == /\ Script("show", IF missed THEN "dead" ELSE "db")
        /\ UNCHANGED <<procvars, nodevars, netvars, file, illufile, unwritten, missed,
                       counters>>

ScriptStep == \/ \E f \in DataFiles : Truncate(f) \/ Fill(f) \/ NothingMeasured(f)
              \/ CatIllu \/ Show

-----------------------------------------------------------------------------

Next == \/ Launch \/ MainStep
        \/ RecvStep \/ RSilent \/ RFails
        \/ SendStep \/ ReadT
        \/ SetIllu \/ Answer \/ LinkBreaks
        \/ ScriptStep

Spec == Init /\ [][Next]_vars

(* The threads are scheduled, the timers of the send node go off, silence  *)
(* is noticed in the end, the server answers.  Nobody has to start the     *)
(* program, and nothing has to fail.                                       *)
FairSpec == /\ Spec
            /\ WF_vars(MainStep)
            /\ WF_vars(RecvStep)
            /\ SF_vars(link = "down" /\ RSilent)
            /\ WF_vars(SendStep)
            /\ SF_vars(ReadT)
            /\ WF_vars(Answer)

-----------------------------------------------------------------------------

(* Types. *)
TypeOK ==
  /\ fate \in {"none", "up", "ended", "lost", "aborted", "killed"}
  /\ main \in {"none", "init", "connect", "tried", "start-recv", "start-send",
               "work", "blocked", "close-recv", "close-send", "free-recv",
               "free-send", "close-sock", "end"}
  /\ waiting \in Nodes \cup {"none"}
  /\ sock \in Fds \cup {0}
  /\ holder \in [Fds -> {"free", "sock", "epoll"}]
  /\ flag \in [Nodes -> BOOLEAN]
  /\ pc \in [Nodes -> {"off", "begin", "loop", "wait", "write", "exit", "quit",
                       "good", "bad", "poll"}]
  /\ illu \in Illus /\ setting \in Illus
  /\ link \in {"none", "up", "closed", "reset", "down"}
  /\ asked \in BOOLEAN /\ answers \in Seq(Illus)
  /\ file \in [DataFiles -> {"missing", "empty", "whole"}]
  /\ illufile \in Illus \cup {Empty, Missing} /\ unwritten \in BOOLEAN
  /\ script \in {"db", "data_db", "illu", "t", "data", "show", "dead"}
  /\ missed \in BOOLEAN
  /\ starts \in 0 .. MaxStarts /\ errors \in 0 .. MaxErrors /\ late \in BOOLEAN

(* The run function of the receive node leaves no epoll descriptor behind, *)
(* however it returns (m_recv_node.cpp:86, 111, 125).                      *)
EpollClosed == pc["recv"] \in {"off", "begin"} => \A f \in Fds : holder[f] # "epoll"

(* The thread that close() waits for with the mutex taken is on its way to *)
(* its end: it does not ask for the mutex itself, in an exit() of its own, *)
(* and does not end the process meanwhile (m_client.cpp:96-112,            *)
(* m_recv_node.cpp:98-103, 115-120).                                       *)
CloseNotStuck == ~late /\ waiting # "none" => pc[waiting] \notin {"exit", "quit"}

(* ~m_client frees a node only when no thread uses it any more, and the    *)
(* second close(_sock) (m_client.cpp:30) hits nothing: the number of the   *)
(* closed socket, which epoll_create() may get meanwhile, is free again.   *)
Freed(n) == \/ main \in {"close-sock", "end"}
            \/ main = "free-send" /\ n = "recv"
FreedIsUnused ==
  ~late => /\ \A n \in Nodes : Freed(n) => pc[n] = "off"
           /\ main = "close-sock" => sock = 0 \/ holder[sock] = "free"

(* What the client has learned of the illumination is what data_illu says, *)
(* once it has written it, also when a client before was killed between    *)
(* truncating the file and writing it (m_recv_node.cpp:185-188).  But it   *)
(* tries only once: when the open or the writing failed, the file stays as *)
(* it is until another illumination is learned (m_recv_node.cpp:179).      *)
LearnedIsWritten ==
  fate = "up" /\ illu # 0 /\ pc["recv"] # "write" /\ ~unwritten => illufile = illu

(* A server that closes the connection ends the client, even one whose     *)
(* receive node has gone: then the second heart does.  One that falls      *)
(* silent ends it too, unless the receive node left when epoll_wait()      *)
(* failed (m_recv_node.cpp:108-111): then nobody watches.                  *)
Deaf == pc["recv"] = "off"
CutEnds == /\ LostLink ~> fate # "up"
           /\ link = "down" ~> fate # "up" \/ Deaf

(* A client that cannot connect ends: close() does not wait for ever       *)
(* (m_client.cpp:96-100), although the nodes run.                          *)
UnconnectedEnds == main = "work" /\ ~Connected ~> fate # "up" \/ late

(* What is set on the server gets into the file while the client runs and  *)
(* is not deaf, whatever a client that died before has left there, unless  *)
(* the file could not be written when this illumination was learned.       *)
IlluCatchesUp ==
  \A v \in 1 .. MaxIllu :
    link = "up" /\ setting = v
      ~> \/ illufile = v \/ (unwritten /\ illu = v)
         \/ link # "up" \/ setting # v \/ Deaf
==============================================================================
