------------------------------ MODULE MThread ------------------------------
(***************************************************************************)
(* Class m_thread (public/m_thread.cpp): a flag _state, a mutex and an     *)
(* m_semaphore around detached worker threads.                             *)
(*                                                                         *)
(* start(), close() and exit() run under _mutex.  close() keeps the mutex  *)
(* while it waits on the semaphore, so the mutex is free exactly when      *)
(* nobody is blocked in close().  The semaphore is the abstract one; that  *)
(* m_semaphore implements it is checked in MSemaphore.                     *)
(***************************************************************************)
EXTENDS Naturals, Sequences, FiniteSets

CONSTANTS Callers,        \* threads that own the m_thread object and call it
          Workers,        \* bound: worker threads alive at the same time
          Exiters,        \* the callers that use exit()
          SelfExit,       \* TRUE iff the run function may call exit() itself
          MaxPermits      \* bound: wakeups left over by exit()

ASSUME ConstantsAssumption ==
  /\ IsFiniteSet(Callers) /\ IsFiniteSet(Workers)
  /\ Callers \cap Workers = {}
  /\ Exiters \subseteq Callers
  /\ SelfExit \in BOOLEAN
  /\ MaxPermits \in Nat

VARIABLES state,          \* _state
          call,           \* what each caller is executing, or about to
          worker,         \* where each worker is in work()
          permits,        \* _semaphore: wakeups not consumed yet
          blocked,        \* _semaphore: callers asleep in close()
          before          \* history: <<>> until somebody uses exit(), then
                          \* what the object looked like before that

vars == <<state, call, worker, permits, blocked, before>>

Sem == INSTANCE Semaphore WITH Threads <- Callers \cup Workers

Init == /\ state = FALSE
        /\ call = [c \in Callers |-> "idle"]
        /\ worker = [w \in Workers |-> "off"]
        /\ Sem!Init
        /\ before = <<>>

Live == {w \in Workers : worker[w] # "off"}
MutexFree == blocked = {}
Returns(c) == call' = [call EXCEPT ![c] = "idle"]

(* What a user of the object sees of it, and the history of it. *)
Phase == IF state THEN "on" ELSE IF blocked # {} THEN "closing" ELSE "off"
Remember == before' = IF before = <<>>
                      THEN <<[phase |-> Phase, alive |-> Live # {}]>> ELSE before
ExitUsed == before # <<>>

(* A caller enters one of the three operations and queues for the mutex. *)
Ops(c) == {"start", "close"} \cup (IF c \in Exiters THEN {"exit"} ELSE {})
Enter(c) == /\ call[c] = "idle"
            /\ \E op \in Ops(c) :
                 /\ call' = [call EXCEPT ![c] = op]
                 /\ IF op = "exit" THEN Remember ELSE UNCHANGED before
            /\ UNCHANGED <<state, worker, permits, blocked>>

(* start(): only a thread that is not running is started. *)
MayStart == ~state
Start(c) ==
  /\ call[c] = "start" /\ MutexFree
  /\ \/ /\ MayStart
        /\ permits < MaxPermits
        /\ state' = TRUE
        /\ \E w \in Workers \ Live : worker' = [worker EXCEPT ![w] = "run"]
     \/ /\ ~MayStart
        /\ UNCHANGED <<state, worker>>
  /\ Returns(c)
  /\ UNCHANGED <<permits, blocked, before>>

(* close(): a running thread is told to stop and waited for. *)
CloseWithoutWait(c) ==
  /\ call[c] = "close" /\ MutexFree /\ state
  /\ state' = FALSE
  /\ Returns(c)
  /\ UNCHANGED <<worker, permits, blocked, before>>
Close(c) ==
  /\ call[c] = "close" /\ MutexFree /\ state
  /\ state' = FALSE
  /\ \/ Sem!Take(c) /\ Returns(c)
     \/ Sem!Block(c) /\ UNCHANGED call
  /\ UNCHANGED <<worker, before>>

CloseStopped(c) ==
  /\ call[c] = "close" /\ MutexFree /\ ~state
  /\ Returns(c)
  /\ UNCHANGED <<state, worker, permits, blocked, before>>

(* The blocked close() gets its permit, releases the mutex and returns. *)
CloseGranted(c) ==
  /\ Sem!Grant(c)
  /\ Returns(c)
  /\ UNCHANGED <<state, worker, before>>

(* exit(), from outside: the flag is cleared and nobody waits. *)
Exit(c) ==
  /\ call[c] = "exit" /\ MutexFree
  /\ state' = FALSE
  /\ Returns(c)
  /\ UNCHANGED <<worker, permits, blocked, before>>

-----------------------------------------------------------------------------

WorkerGoes(w, from, to) == /\ worker[w] = from
                           /\ worker' = [worker EXCEPT ![w] = to]

(* exit(), called by the run function: the worker needs the mutex too. *)
EnterExit(w) == /\ SelfExit
                /\ WorkerGoes(w, "run", "exit")
                /\ Remember
                /\ UNCHANGED <<state, call, permits, blocked>>
ExitOwn(w) == /\ MutexFree
              /\ WorkerGoes(w, "exit", "run")
              /\ state' = FALSE
              /\ UNCHANGED <<call, permits, blocked, before>>

(* The run function polls is_run() and returns when it is FALSE. *)
Stop(w) == /\ ~state
           /\ WorkerGoes(w, "run", "end")
           /\ UNCHANGED <<state, call, permits, blocked, before>>

(* The run function returns early, with _state still TRUE. *)
Return(w) == /\ state
             /\ WorkerGoes(w, "run", "end")
             /\ UNCHANGED <<state, call, permits, blocked, before>>

(* work() ends with _semaphore.wakeup(). *)
FinishSilently(w) == /\ WorkerGoes(w, "end", "off")
                     /\ UNCHANGED <<state, call, permits, blocked, before>>
Finish(w) == /\ WorkerGoes(w, "end", "off")
             /\ Sem!Post(w)
             /\ UNCHANGED <<state, call, before>>

WorkerStep(w) == ExitOwn(w) \/ Stop(w) \/ Finish(w)

Next == \/ \E c \in Callers : \/ Enter(c) \/ Start(c) \/ Close(c)
                              \/ CloseStopped(c) \/ CloseGranted(c) \/ Exit(c)
        \/ \E w \in Workers : EnterExit(w) \/ Return(w) \/ WorkerStep(w)

Spec == Init /\ [][Next]_vars

(* The scheduler runs every worker, and every caller whose permit is       *)
(* there.  Nothing is assumed about callers entering operations, about a   *)
(* run function calling exit() or returning early, nor about the order in  *)
(* which the mutex is handed out.                                          *)
FairSpec == /\ Spec
            /\ \A w \in Workers : WF_vars(WorkerStep(w))
            /\ \A c \in Callers : WF_vars(CloseGranted(c))

-----------------------------------------------------------------------------

(* Types, and the mutex: at most one caller is asleep inside close(), and  *)
(* it is one that called close().                                          *)
TypeOK ==
  /\ state \in BOOLEAN
  /\ call \in [Callers -> {"idle", "start", "close", "exit"}]
  /\ worker \in [Workers -> {"off", "run", "exit", "end"}]
  /\ permits \in Nat
  /\ blocked \subseteq {c \in Callers : call[c] = "close"}
  /\ \A c, d \in blocked : c = d
  /\ ExitUsed => before[1].phase \in {"on", "closing", "off"}

(* A close() that waits, or may still come for a running thread, waits for *)
(* a wakeup that exists or that a live worker owes (m_thread.cpp:46,79);   *)
(* exit() only ever leaves too many.                                       *)
Owed == (IF state THEN 1 ELSE 0) + Cardinality(blocked)
EnoughWakeups == Cardinality(Live) + permits >= Owed

(* Until exit() is used the wakeups are neither too few nor too many. *)
ExactWakeups == ~ExitUsed => /\ Cardinality(Live) + permits = Owed
                             /\ blocked # {} => ~state

(* Until exit() is used two workers never run at the same time: the object *)
(* drives one thread (m_thread.h:14, m_base_node.h:4 "contains one         *)
(* processing thread").                                                    *)
AtMostOneWorker == ~ExitUsed => \A v, w \in Live : v = w

(* When close() has stopped the thread and returns, no worker is left: the *)
(* owner may free what the worker uses (m_thread.h:34).  After an exit()   *)
(* a close() may take the wakeup that nobody waited for.                   *)
Closes(c) == (Close(c) /\ c \notin blocked') \/ CloseGranted(c)
SafeClose == [][\A c \in Callers : Closes(c) /\ ~ExitUsed => Live' = {}]_vars

(* Until exit() is used m_thread implements SafeThread; in particular      *)
(* close() returns, since the worker's last act wakes it and the worker    *)
(* gets there whatever it is doing (public/readme.md:27).                  *)
Safe == INSTANCE SafeThread
        WITH phase <- IF ExitUsed THEN before[1].phase ELSE Phase,
             alive <- IF ExitUsed THEN before[1].alive ELSE Live # {}
ImplementsSafeThread == Safe!Spec /\ (<>ExitUsed \/ Safe!Fairness)
==============================================================================
