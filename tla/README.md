# Verification of the environmental monitoring system

TLA+ models of the server, the threads it is built from and its clients, TLC
runs that check them on small instances, and TLAPS proofs of what holds for
every instance. Source paths are relative to the repository.

## The system

A server (`server/`) collects readings from a Raspberry Pi (`client4PI/`) and
shows them to PCs (`client4PC/`), over TCP with packets `{cmd, length, ...}`
(`public/m_datagram.h`). The server has a main thread and a fixed number of
groups; each group has a worker thread that exists only while the group has
clients, and a task node with a thread of its own that sends the replies.

| component | state | operations | hard behaviour | what makes it correct |
|---|---|---|---|---|
| semaphore (`public/m_semaphore`) | two counters, mutex, condition variable | `wait`, `wakeup` | spurious wakeups, a late caller stealing a wakeup | counters account for sleepers; no lost wakeup; it is a counting semaphore |
| thread (`public/m_thread`) | flag, mutex, semaphore, detached worker | `start`, `close`, `exit`, `is_run`, `work` | `close` waits holding the mutex; `exit` does not wait | one worker; `close` returns, and only when the worker is gone |
| task node (`server/m_task_node`) | buffer under a lock, worker's own list | `addtask`, `start`, `close_node`, loop | unlocked test of the buffer; tasks left behind by a close | FIFO, each task once, none after `close_node` |
| group node (`server/m_group_node`) | client buffer, client table, count, epoll set, worker, task node | `addclient`, worker loop, `recvdata`, heartbeat, wind-down | the worker decides to leave without the lock `addclient` holds; descriptors are reused | no leak, the count, a worker and a task node while there are clients, replies to whom they are for |
| client node (`server/m_client_node`) | socket, receive buffer, heartbeat time | create, delete, `check_hb` | the time added is that of the whole pass | silent clients go, talking clients stay |
| receive buffers (`recvdata` in server and Pi) | bytes not handled yet | append, parse, shift | half packets, lengths that nothing tests, overlapping `memcpy` | packets handled once, in order; which packets the buffer has room for |
| server (`server/m_server`) | listening socket, groups, four atomics, timer | start-up, accept, least-loaded group, `savedata` | errors of start-up ignored; unlocked counts; torn snapshots | clients reach a group; rows and replies hold real values |
| database (`m_db_mgr`, `m_db`) | connection | `init`, `insert_data`, `exec` | results dropped, null connection | a reading is stored or the failure reported |
| Pi client (`client4PI/`) | socket, recv node, send node, data files | connect, upload, poll, silence timeout, `exit(1)`, orderly end | the nodes start without a connection; `exit()` races `close()`; files read while rewritten | it ends when it is of no use; nothing freed is used; the illumination gets back |
| PC client (`client4PC/`) | socket, timer, labels, chart | poll, button, `slot_recvmessage`, disconnect | `readAll` of several packets or half of one; a deleted socket used by the timer | the display follows the server |
| sensor scripts (`hardware4PI/`) | data files | measure, rewrite, show | truncated before they are rewritten | the client reads what was measured, the display what the client learned |
| timers (`m_timer`), log | clock; log file | `get_sec`, `update` | time between the two calls is in no sum | bounds on what a sum leaves out |

How they interact: the main thread calls `addclient` of a group (shared state
under the group's mutex, a flag and a count read without it); the worker hands
closures to the task node (a queue under a lock); workers store into and task
nodes and the main thread load from the server's four atomics; `close` is the
only wait of one thread for another; clients and server exchange packets.
`PROJECT.json` lists the hazards at their lines.

## Modules

Each line says what the variables and actions stand for; the map in
`PROJECT.json` has the line ranges.

* **Semaphore**: the abstract counting semaphore (`permits`, `blocked`).
* **MSemaphore**: `m_semaphore`. `wait` and `wakeup` are `_wait` and
  `_wakeup`; the condition variable is the set of sleeping threads and those
  already notified. `Wait`, `Resume` and `Wakeup` are the stretches of code
  between taking and releasing the mutex. It implements Semaphore with
  `permits = _wakeup + max(_wait, 0)`.
* **SafeThread**: what `start` and `close` promise: one worker, and a `close`
  that returns when it is gone.
* **MThread**: `m_thread` over the abstract semaphore. Callers queue for the
  mutex with an operation in `call`; `close` keeps the mutex while it sleeps,
  so the mutex is free when nobody is `blocked`. Workers go through
  `run` (and `exit`, when the run function calls `exit()` on its own thread) to
  `end` and the final `wakeup()`. `Return` is a run function that returns with
  the flag still set. The history `before` is what the object looked like when
  somebody first used `exit()`; until then it implements SafeThread.
* **TaskQueue**: what a task node promises: a FIFO that is worked on only
  between start and the return of close.
* **TaskNode**: `m_task_node` over SafeThread: the unlocked test of the buffer
  (`LookAhead`), the drain under the lock, the run of the list, its clearing.
  Implements TaskQueue.
* **GroupNode**: `m_group_node` with a TaskQueue as its task node: `addclient`
  in its steps (`AddClient`, `TestRun`, `StartWorker`, `StartTnode`), the worker
  loop (`Loop`, `Drain`, `Wait`, the events, the heartbeat pass, `Count`) and its
  wind-down (`ExitThread`, `CloseTnode`, `TnodeClosed`, `Leave`), peers that send
  requests or bad packets, close or go silent. What the code does in several steps
  without the mutex is several actions: `Recv` (or `RecvEnd`) looks the client up
  and receives into the group's one `_recv_buf`, `Request` or `Illegal` handles what
  is in that buffer by then, and only later, with the mutex, `Drop` or `DropAgain`
  deletes the descriptor's client, if there still is one; `Expire` finds a dead
  client, and only later, with the mutex, `Reap` deletes what the iterator points to.
  So two workers can receive over each other's bytes, find the same client dead,
  close its descriptor twice, also when it is somebody else's by then, and count it
  twice. Where a worker changes what another one is using without the mutex, the
  history `raced` is set, and from there on the process may also `Crash`.
  Descriptors are the lowest free number, as the kernel gives them, and replies hold
  the descriptor. Connections arrive at any moment and `epoll_wait` may fail; two
  more histories say what has happened: `overlapped` that a connection arrived while
  a worker was winding down, without which there are no two workers, `errors` how
  often `epoll_wait` failed. What holds only until then says so.
* **RecvBuffer**: the loop that both `recvdata` functions share, byte by byte, for
  headers that announce anything at all: `Recv` is `recv` and the append to the
  second-level buffer, whatever room there is, `Handle` one round of the loop with
  its shift, `Return` and `RecvEnd` the two ways out, `Illegal` the server's return
  in the middle of the loop. A byte is its packet's number and its place in the
  packet. From the length of a header on, any announced length makes what follows a
  packet; `Astray` is a smaller one, where the loop spins (0) or leaves the stream.
  The shift is a `memcpy` onto itself; where source and destination overlap, the
  outcome `undefined` is possible too. After `overflown`, `astray`, `loops` and
  `undefined` nothing more is modelled: what the code does then depends on the
  memory around the buffer.
* **Readings**: the way of a value from the Pi's files to the PC's display and
  of the illumination from the PC's button to the Pi's file, through the
  server's four atomics, one load or store at a time, with the reply tasks of
  `recvdata`. Every client has a group of its own here, as the load balancer
  gives the first clients of an empty server. One Pi uploads: `setdata_tr` has no
  lock, and with two uploaders the fields of two uploads could mix. `piillu` is
  `_illu`; the file it is written to, and that this may fail, is in PiClient.
* **Server**: the main thread. Start-up (`MInit` with the database, `MBind`,
  `DoBind`, `MListen`, `MStart`) with every step failing or not, since `main`
  looks at no result; then the loop: `Accept`, the unlocked scan of the groups'
  counts (`Scan`, `AddClient`), the timer (`Tick`) and `savedata` (`Load`,
  `Insert`). The groups are their counts, which workers lower (`Drop`), also below
  the truth where two workers have counted a client out twice; one upload at a time
  is stored field by field (`Store`), since one Pi uploads.
* **Heartbeat**: one connection in discrete time. Every thread has an `m_timer`.
  A pass is the return of `epoll_wait()` with what had arrived by then (`RecvNothing`,
  `RecvData`, `WorkNothing`, `WorkData`; the thread is then in `looked`), later `get_sec()`
  (`RecvRead`, `WorkRead`), later `update()` with the tests (`RecvTest`, `CheckHb`). What arrives after the look waits for the next
  pass; what passes between `get_sec()` and `update()` is in no sum (`gap`, `lost`).
  The Pi's send node beats and uploads (`SendRead`, `Send`). `Tick` lets a unit of time pass unless a
  thread or a packet has used up its bound; the link may `Fail` and `Heal`.
* **PiClient**: the Pi's process from start to end and over restarts. The main
  thread (`MInit` to `MStart`, `MWork`, then `CloseNode` and the rest of
  `~m_client`), the receive node up to `exit(1)`, the send node with the files it
  reads, the descriptors of socket and epoll, and `getData.sh` with the scripts it
  runs. `Over` ends the process: by `exit(1)`, by an exception, by SIGPIPE. A new
  illumination is remembered first; then the file is truncated, if it can be opened,
  and written, if it can be; nobody tries again (history `unwritten`). The
  server is the answers it gives; the values have their own module, Readings.
* **PcClient**: the window's slots, one after the other. Replies arrive whole or
  in halves and `SlotRecvmessage` takes for a packet whatever comes first; the
  chart keeps every other reading; the socket connects, is refused, is cut and is
  deleted, while the timer and the button go on writing.

How they fit together: MThread uses Semaphore, TaskNode uses SafeThread and
GroupNode uses TaskQueue, each the abstract specification that the one below is
shown to implement. RecvBuffer, Readings and Heartbeat look closer at what
GroupNode has without bytes, values and time (a packet received, a request served, a
client found dead); Server has a group as the count that GroupNode keeps. PiClient and PcClient
are the two ends that Readings and Heartbeat have as a client that lasts.

`MC*` modules and `.cfg` files instantiate these; `*_proofs` modules hold the
theorems.

## Runs

| run | bounds | what it shows |
|---|---|---|
| `semaphore` | 4 threads, 2 surplus wakeups | no wakeup is lost or invented: it implements Semaphore |
| `thread` | 3 callers, 2 of them and the worker may `exit()`, 2 worker slots | a `close` never waits for a wakeup nobody owes; until `exit()` is used, SafeThread is implemented |
| `task_node` | 4 tasks of 2 kinds | nothing lost, reordered, or run late; tasks run; implements TaskQueue |
| `group` | 2 connections, 2 workers, 2 descriptors, 1 packet each, 1 failing `epoll_wait` | until two workers meet in the table: nothing leaks or is closed twice, replies go to the asker, `addclient` returns; until a connection overlaps, one worker with its task node, clients served and dropped, an idle group stops |
| `group_unserved` (violation) | the same, no failing `epoll_wait` | a client left without a worker |
| `recvbuffer` | 5 packets of 6 lengths: -1, 0, three sound ones up to the longest the buffer has room for, and one more; either end | packets once, in order, as soon as complete; only the packet announced too long overflows the buffer |
| `readings` | 1 Pi, 1 PC, 2 measurements, 1 press, 2 packets in flight | replies hold what was acknowledged; no client sees older values again; the Pi catches up |
| `server` | 3 groups, 3 connections, 1 counted out once too often, 2 uploads, a save every 2 units | the loop listens, the emptiest group chosen, rows fresh, saves go on, no crash but after a failed start |
| `server_abnormal` (violation) | the same | rows with values that were never set |
| `heartbeat` | heart every 2 units, upload 3, both limits 8; passes and gaps of 1, no delay; 1 outage | no false alarm on a connection in order; silence noticed in time and not before |
| `pi_client` | 2 descriptors, 2 starts, 1 failing `epoll_wait`, 1 illumination | no epoll descriptor is left; `close` does not wait for a node that needs the mutex; nothing freed is in use; the file holds the illumination learned, if it could be written; the client ends when it cannot connect or the server is gone; the illumination reaches the file |
| `pc_client` | chart of 2 points, values 0 to 2, 1 press, 2 packets in flight | no crash but after a cut; the chart bounded and in order; the display recovers from skipped and misread replies |

What is proved for every instance is not always checked again. Theorems and in no
run are the type invariants of all modules, `Balance` and
`NoLostWakeup` of MSemaphore, `ExactWakeups`, `AtMostOneWorker` and `SafeClose` of
MThread, `NoTaskAfterClose` of TaskNode, `CountMatches` of GroupNode and
`PiIsPatient` of Heartbeat.

Why the bounds are enough. A third and fourth thread are what a stolen wakeup
needs; more only repeat it. Three callers give `close` a waiter and two queuing
for the mutex; the second worker slot is there so that a second worker would be
seen. Four tasks allow a batch of two with two more arriving while it runs and
a close in between. Two connections on two descriptors allow one to be dropped
and its descriptor reused while the other stays; a second worker slot shows a
second worker, and one packet is enough for a reply task to outlive its asker.
Five packets of three sound lengths give pieces that end in a header, in a body and
between packets, with whole packets before and after; a length one above the bound
overflows, and the two below a header's lead astray. A count that is one too low is
enough for the scan to choose another group. One measurement against
the initial values is enough for every torn snapshot of three fields, since the
fields only tell "before" from "after"; the second lets displays lag behind.
Three groups make the choice compare with a best that is neither the first nor
the last. In `heartbeat` the Pi's patience is exactly heart + 5 passes + 2 delays +
gap; with one unit less the Pi gives up on a connection in order. The five: the pass
of the send node, the rest of the worker's pass in which the heart comes and the next
one up to its look, and the recv node's pass of the last answer and the one in which
the next answer comes too late for the look. The run has a delay of 0; the same with
delays of 1 and limits of 10 passes too, in four minutes, and the theorem has any. In
the program's units (2 s and 5 s) the five passes, two delays and gaps have 3 s.
Two descriptors are the socket and the epoll set, so that the number of a socket
whose `connect` failed is the next to be given out; a second start finds the files
as the first left them. A chart of two points drops its first one, and two packets
in flight are what `readAll` needs to skip one and to begin in the middle of one.

Deadlock is checked where every thread can always call something. It is not in
`thread` (the self-exit deadlock below is reachable), in
the group runs (all connections gone and the worker stopped is a rest state of
the bounded model),
where the bounded clients have nothing left to send (`readings`, `recvbuffer`),
and where the program may end or crash (the server's runs, `pi_client`,
`pc_client`). It is checked in
`heartbeat`: no bound on time can stop the clock while a thread could still move.

**Fairness.** Threads that can run are scheduled (weak fairness per thread, so
one thread's progress does not stand for another's); a notified thread wakes;
client timers go off and arrived data is read. The clock runs: a silent client
is found dead by some heartbeat pass (strong fairness of `Expires`, because the
pass is reached again and again). The server's main thread is one process and has weak
fairness as such. In PiClient the main thread and the two nodes are scheduled and
the server answers; a silence is noticed by some pass of the receive node, and the
ten seconds of the send node end, again and again (strong fairness of both, since
the passes in between disable them). In PcClient a connection attempt ends, the
timer goes off, Qt's event loop calls the slots, the server answers and what it
sends arrives. RecvBuffer and Heartbeat have safety only: what must happen in
time is an invariant over the clocks there. No fairness for connecting, sending,
pressing, starting, closing, spurious wakeups, or the order in which a mutex is
handed out.

## What the checks found

* `group_unserved`: the worker tests `_client_num` and calls `exit()` without
  the mutex (`m_group_node.cpp:190-193`). A client added in between sees the
  flag still set, nobody starts a worker, and the client is never read.
* `server_abnormal`: `savedata` tests only the temperature. Until a PC sets
  the illumination every row carries -1 for an unsigned column; a save in the
  middle of the first upload also has no humidity.

The two workers of `group_unserved`'s situation can also meet: both then work on
`_clients` and `_recv_buf` without the mutex. The model goes through it: a packet
handled as another client's, a client deleted by both, a descriptor closed a second
time when it belongs to somebody else, a count below the number of clients, a null or
dangling pointer. No property claims anything after `raced`. What is
still proved there is `TypeCorrect` and `CountGoesAsServerSees`. Other consequences of the same code show when the condition is taken out of a
property. Without `Undisturbed`, `OneWorker` fails (a new worker starts, and the flag
it sets keeps the old one going), `TnodeForWorker` fails (the old worker closes the
task node the new start found running), and with three connections
`ClientOfEvent` fails (an event for a descriptor that the other worker closed
and a new client got). `WorkerForClients` alone fails after a failed `epoll_wait`
too: clients have no worker. Without `~ExitUsed`, `SafeClose` fails (`exit` leaves a
wakeup that a later `close` takes for its own), and so does `ImplementsSafeThread`
when the run function exits by itself (the worker needs the mutex that `close`
holds). `m_thread.h:37` calls `exit` unsafe; `m_group_node` and `m_recv_node`
use it on their own thread. A reply task holds a descriptor number, and although
it is aimed at the connection that asked (`AimedAtAsker`, until `raced`), that connection
may be dropped before the task runs; the reply then goes to whoever `accept`
gave the number to.

`ph->length` is tested nowhere. `BufferFits` is exact: with a bound of one more it is
violated. Behind a header that announces 16386 bytes or more the 20480 bytes of the
second-level buffer may be too short when the rest comes, 0 keeps the loop on
the same packet, and a negative one makes the rest grow. No packet of the repository's
clients does that.

In PiClient, without `~late`, `CloseNotStuck`, `FreedIsUnused` and `UnconnectedEnds` fail: a main thread
held up for five seconds between starting the nodes and closing them lets the
receive node find silence and call `exit()` while `close()` holds the mutex, or
leave a wakeup that a later `close()` takes for its own. A receive node that left
because `epoll_wait` failed leaves the client deaf (`Deaf`): it goes on uploading and
does not notice silence. A send to a closed connection kills the client by SIGPIPE.
The client does not write the illumination -1, so after a restart of the server
the file keeps the old one until a PC sets it. When `data_illu` cannot be opened it keeps the
old one too, although `_illu` is the new one, until yet another is set; without
`~unwritten`, `LearnedIsWritten` fails. In PcClient half a reply is shown as
garbage until the next whole one, any write after a disconnect goes through a
deleted socket, and a refused connection leaves the label "connecting" for good.

## Proofs

TLAPS checks these for all values of the constants; the only assumptions are the
named ones in the modules (`ConstantsAssumption`; `SemaphoreAssumption` in
MSemaphore, `PcAssumption` in PcClient, `NoneAssumption` in GroupNode). They say
that bounds are natural numbers and sets are what their names say, and, in RecvBuffer,
that the buffer has room for a `recv` and a header less one byte; TLC evaluates
them on every run.

* **MThread_proofs**, for the semaphore and the thread on top of it.
  `SemaphoreInvariance`: `MSemTypeOK`, `Balance` and `NoLostWakeup`
  are together inductive: the number of sleepers is `_wakeup` plus the debt in
  `_wait`, and there are as many notified sleepers as undelivered wakeups; the
  second needs the first to know that an owed wakeup has somebody to notify.
  `SemaphoreRefinement`: every step is a Semaphore step, which needs `Balance` for
  `wakeup()`, where a permit must not appear out of nothing.
  Then `TypeCorrect`; `WakeupsSuffice`: live workers plus
  permits cover the flag plus the waiters, in spite of `exit()`. `WakeupsExact`:
  until `exit()` is used they are equal, and nobody waits while the flag is set.
  From it `OneWorker`, `CloseIsSafe` and `Refinement` (steps of SafeThread, which
  stops where `before` was taken).
* **TaskNode_proofs**. `TypeCorrect`, with the places where the worker's list is
  empty (what makes a second drain harmless), then `NoTaskLost`, `NoLateTask`
  and `Refinement` (steps of TaskQueue).
* **GroupNode_proofs**. Until two workers meet (`raced`): `NothingLeaks`, every
  descriptor belongs to one client, in the buffer or the table, registrations do not
  outlive it, and a client found dead is still there when the worker has the mutex
  (the strengthening says that the owner of a descriptor has arrived and so cannot
  arrive again); `RepliesAreAimed`. `TypeCorrect`, whatever happens. Until a
  connection overlaps, which includes that no two workers meet: `CountIsRight`, `WorkerIsAlone`, `ClientsAreServed`, `RepliesAreSent` and
  `EventsFindClients`, from one invariant that ties the flag, the places of workers
  and main thread, the task node's phase and the count together: a live worker that
  has left its loop has an empty table, and none is started until it is gone. And
  `CountGoesAsServerSees`, whatever overlaps, races or crashes: only an `AddClient` raises the
  count, by one, and no step lowers it by more than one, which is all that Server assumes of a group (its `AddClient` and `Drop`,
  which may take the count below zero too).
* **RecvBuffer_proofs**. The inductive invariant says that the buffer followed
  by the wire is a stream of whole packets, numbered on from the last one handled, each
  as long as its header says. From it `NoOverflow`: when `recv` is called the buffer
  holds less than the packet in front announces, so only a packet that announces more
  than `BufSize - RecvSize + 1` can overflow it (for 20480 and 4096: 16386 or more;
  those of `m_datagram.h` have a few dozen bytes); `OnceAndInOrder`, `AllHandled` and
  `TypeCorrect`, for whatever is announced and however the stream is cut.
* **Heartbeat_proofs**. A timer's sum, with what has passed since its beginning,
  is ahead of the real silence by at most a pass, because a sum set to zero in the
  middle of a pass gets all of it, and behind it by at most what was lost in gaps.
  From these two bounds for either side: `DroppedWereSilent`, `SilentGo`,
  `PiWaits` and `PiGivesUp`, whatever the link does. `TypeCorrect` bounds every sum
  and the age of packets, which needs that the first of a way is the oldest.
  `NobodyGivesUp`: for all bounds that are `Roomy`, which is a hypothesis inside
  `NoFalseAlarm` and not an assumption, neither side gives up before the link
  has failed. The strengthening follows a heart all the way round: either the last
  one was sent not long ago, or a younger one is under way, has arrived, or is on its
  way back, and each place adds a pass or a delay to how long the silence can be.
* **Server_proofs**. `LoopStartsListening` and `OnlyFailedInitCrashes` from an
  invariant that says what the socket and the connection can be at every place of
  the start-up; `ChoiceIsFewest` from one over the part of the scan that is done,
  which a client leaving only helps; `RowsAreFresh` from one that says that the
  atomics hold at least the last complete upload; `TypeCorrect`.
* **Readings_proofs**. `RepliesAreFresh`: uploads are stored in the order they were
  made, so the atomics only get more recent and bound what was acknowledged and what
  waits to be: the inductive invariant says this of every box and of a store under
  way. `TypeCorrect`. `ShownGoesForward`: what a PC shows and the illumination the Pi
  works with only get more recent. Everything between a value and its display is a
  stream (`Streams`): what is shown, the replies under way, the half-loaded reply and
  the atomic itself hold, in this order, values that never get older; a skipped packet
  leaves a stream one. For the illumination "older" is the order in which the server
  stored the presses, so that `Presses` says that each is stored once.
* **Clients_proofs**, for both clients. PcClient: `PcTypeCorrect`; `OnlyCutCrashes`,
  because the socket is deleted only after `slot_disconnect()`; `ChartStaysInOrder`
  from `Chain`: readings only get older on the way from the server through the replies
  and the unread bytes to the chart, also when a reply is skipped or is read from the
  middle on, since garbage is no reading. PiClient: `PiTypeCorrect`, `EpollIsClosed`,
  `CloseIsAwaited` and `FreedInTime` from one invariant `PiInv`: only the receive node
  ends the process (`FlagsKept`); the main thread waits only where it closes a node, for
  that node and without a connection, and has come past a node only when it is done
  (`ClosedInOrder`); a socket whose `connect` failed is closed already (`SockClosed`).
  `LearnedOnFile`: since the client last learned an illumination the file was not
  touched but by its own writing, and a client that is started knows none, so that it
  does not rely on what a killed one has left.

So every safety property a run expects to hold is also a theorem. Only model-checked
is liveness: the fairness parts of the three
refinements, which are where `close` returning and tasks being run are said, and
`SomeoneAnswered`, `SomeoneDropped`, `IdleStops`, `AddReturns`, `SavesGoOn`,
`PiCatchesUp`, `DisplayRecovers`, `CutEnds`, `UnconnectedEnds` and `IlluCatchesUp`.
Liveness and ENABLED are beyond the prover.

## Not modelled

* The log: output only. Its instance is deleted when a process exits while other
  threads may still write (`log.h:93`); no state of the program depends on it.
* Destructors that matter to nobody: `~m_server` and `m_close` run only after the loop
  has ended, and `~m_group_node` and a group's `close_node` have no caller;
  `m_client_node` and `m_client` have theirs in GroupNode and PiClient.
* Signals other than SIGPIPE in PiClient and Heartbeat. On the server a send to a
  closed connection is lost in GroupNode; that SIGPIPE would end the process is a
  hazard without a property, as nothing in the repository says what should happen.
* Functions without a caller: `addtask` of the send node, the locked timers,
  `m_clock`.
* Layout and painting of the PC client, reading sensors and drawing on the Pi's
  display (hardware access), and MySQL itself, which is the outcome of each call.

What would come next: several groups composed under Server, so that its `Drop` is
GroupNode's; `CountGoesAsServerSees` is the part of it that is proved.
