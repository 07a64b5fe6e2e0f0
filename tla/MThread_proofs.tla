--------------------------- MODULE MThread_proofs ---------------------------
(***************************************************************************)
(* Proofs about m_semaphore and m_thread, for every finite set of threads  *)
(* and every number of callers and workers.                                *)
(*                                                                         *)
(* m_semaphore: SemaphoreIInv is inductive.  The two counters account for  *)
(* the sleeping threads, and from that follows that notify_one always      *)
(* finds somebody to pick when the wakeup it announces needs somebody.     *)
(*                                                                         *)
(* m_thread, the counting argument: a worker turns into a permit when it   *)
(* finishes, and a permit is used up by the close() that returns.  So what *)
(* is live plus what is permitted stays equal to what close() will ask     *)
(* for, until exit() lets a worker go that nobody asks for.                *)
(***************************************************************************)
EXTENDS MSemaphore, MThread, FiniteSetTheorems, TLAPS

(* m_semaphore. *)

SemaphoreIInv == MSemTypeOK /\ Balance /\ NoLostWakeup

LEMMA FiniteThreadSets ==
  ASSUME MSemTypeOK
  PROVE  /\ IsFiniteSet(sleeping) /\ Cardinality(sleeping) \in Nat
         /\ IsFiniteSet(notified) /\ Cardinality(notified) \in Nat
         /\ Cardinality(notified) <= Cardinality(sleeping)
<1>1. IsFiniteSet(sleeping)
  BY SemaphoreAssumption, FS_Subset DEF MSemTypeOK
<1>2. IsFiniteSet(notified) /\ Cardinality(notified) <= Cardinality(sleeping)
  BY <1>1, FS_Subset DEF MSemTypeOK
<1>3. QED
  BY <1>1, <1>2, FS_CardinalityType

(* wait() up to its return or its first sleep. *)
LEMMA WaitStep ==
  ASSUME SemaphoreIInv, NEW t \in Threads, Wait(t)
  PROVE  SemaphoreIInv'
<1> USE FiniteThreadSets DEF SemaphoreIInv, MSemTypeOK, Balance, Debt, NoLostWakeup
<1>1. CASE ~NoPermit /\ UNCHANGED <<wakeup, sleeping>>
  BY <1>1 DEF Wait, NoPermit
<1>2. CASE NoPermit /\ MayReturn /\ wakeup' = wakeup - 1 /\ UNCHANGED sleeping
  BY <1>2 DEF Wait, NoPermit, MayReturn
<1>3. CASE /\ NoPermit /\ ~MayReturn
           /\ sleeping' = sleeping \cup {t} /\ UNCHANGED wakeup
  <2>1. Cardinality(sleeping') = Cardinality(sleeping) + 1
    BY <1>3, FS_AddElement DEF Wait
  <2>2. QED
    BY <1>3, <2>1 DEF Wait, NoPermit, MayReturn
<1>4. QED
  BY <1>1, <1>2, <1>3 DEF Wait

(* A sleeping thread wakes, notified or not. *)
LEMMA ResumeStep ==
  ASSUME SemaphoreIInv, NEW t \in Threads, Resume(t)
  PROVE  SemaphoreIInv'
<1> USE FiniteThreadSets DEF SemaphoreIInv, MSemTypeOK, Balance, Debt, NoLostWakeup
<1>1. Cardinality(notified') >= Cardinality(notified) - 1
  <2>1. notified' = notified \ {t} /\ IsFiniteSet(notified)
    BY DEF Resume
  <2>2. Cardinality(notified \ {t}) = IF t \in notified
                                      THEN Cardinality(notified) - 1
                                      ELSE Cardinality(notified)
    BY <2>1, FS_RemoveElement
  <2>3. QED
    BY <2>1, <2>2
<1>2. Cardinality(notified') \in Nat
  <2>1. IsFiniteSet(notified')
    BY FS_RemoveElement DEF Resume
  <2>2. QED
    BY <2>1, FS_CardinalityType
<1>3. CASE MayReturn
  <2>1. Cardinality(sleeping') = Cardinality(sleeping) - 1
    BY <1>3, FS_RemoveElement DEF Resume
  <2>2. QED
    BY <1>1, <1>2, <1>3, <2>1 DEF Resume, MayReturn
<1>4. CASE ~MayReturn
  BY <1>2, <1>4 DEF Resume, MayReturn
<1>5. QED
  BY <1>3, <1>4

(* wakeup(). *)
LEMMA WakeupStep ==
  ASSUME SemaphoreIInv, NEW t \in Threads, Wakeup(t)
  PROVE  SemaphoreIInv'
<1> USE FiniteThreadSets DEF SemaphoreIInv, MSemTypeOK, Balance, Debt, NoLostWakeup
<1>1. CASE ~WaiterOwed
  BY <1>1 DEF Wakeup, WaiterOwed
<1>2. CASE WaiterOwed
  <2>1. MSemTypeOK' /\ Balance'
    <3>1. notified' \subseteq sleeping
      BY <1>2 DEF Wakeup, NotifyOne
    <3>2. QED
      BY <1>2, <3>1 DEF Wakeup, WaiterOwed
  <2>2. CASE sleeping \subseteq notified
    <3>1. sleeping = notified /\ notified' = notified
      BY <1>2, <2>2 DEF Wakeup, NotifyOne
    <3>2. QED
      BY <1>2, <2>1, <3>1 DEF Wakeup, WaiterOwed
  <2>3. CASE ~(sleeping \subseteq notified)
    <3>1. PICK u \in sleeping \ notified : notified' = notified \cup {u}
      BY <1>2, <2>3 DEF Wakeup, NotifyOne
    <3>2. Cardinality(notified') = Cardinality(notified) + 1
      BY <3>1, FS_AddElement
    <3>3. QED
      BY <1>2, <2>1, <3>2 DEF Wakeup
  <2>4. QED
    BY <2>2, <2>3
<1>3. QED
  BY <1>1, <1>2

(* The types, the balance of the counters with the sleeping threads, and   *)
(* that no notification is lost hold in every reachable state.             *)
THEOREM SemaphoreInvariance == MSemSpec => [](MSemTypeOK /\ Balance /\ NoLostWakeup)
<1>1. MSemInit => SemaphoreIInv
  BY FS_EmptySet DEF MSemInit, SemaphoreIInv, MSemTypeOK, Balance, Debt, NoLostWakeup
<1>2. SemaphoreIInv /\ [MSemNext]_msemvars => SemaphoreIInv'
  <2> SUFFICES ASSUME SemaphoreIInv, [MSemNext]_msemvars PROVE SemaphoreIInv'
    OBVIOUS
  <2>1. CASE UNCHANGED msemvars
    BY <2>1 DEF msemvars, SemaphoreIInv, MSemTypeOK, Balance, Debt, NoLostWakeup
  <2>2. QED
    BY <2>1, WaitStep, ResumeStep, WakeupStep DEF MSemNext
<1>3. SemaphoreIInv => MSemTypeOK /\ Balance /\ NoLostWakeup
  BY DEF SemaphoreIInv
<1>4. QED
  BY <1>1, <1>2, <1>3, PTL DEF MSemSpec

(* m_semaphore implements the counting semaphore (its safety part; that a  *)
(* permit reaches a blocked thread is a liveness property, left to TLC).   *)
THEOREM SemaphoreRefinement == MSemSpec => Counting!Spec
<1>1. MSemInit => Counting!Init
  BY DEF MSemInit, Counting!Init, Permits
<1>2. MSemTypeOK /\ [MSemNext]_msemvars => [Counting!Next]_Counting!semvars
  <2> SUFFICES ASSUME MSemTypeOK, [MSemNext]_msemvars
               PROVE  Counting!Next \/ UNCHANGED Counting!semvars
    BY DEF Counting!semvars
  <2> USE DEF MSemTypeOK, Permits
  <2>1. ASSUME NEW t \in Threads, Wait(t)
        PROVE  Counting!Take(t) \/ Counting!Block(t)
    BY <2>1 DEF Wait, NoPermit, MayReturn, Counting!Take, Counting!Block
  <2>2. ASSUME NEW t \in Threads, Resume(t)
        PROVE  Counting!Grant(t) \/ UNCHANGED Counting!semvars
    BY <2>2 DEF Resume, MayReturn, Counting!Grant, Counting!semvars
  <2>3. ASSUME NEW t \in Threads, Wakeup(t)
        PROVE  Counting!Post(t)
    BY <2>3 DEF Wakeup, WaiterOwed, Counting!Post
  <2>4. CASE UNCHANGED msemvars
    BY <2>4 DEF msemvars, Counting!semvars
  <2>5. QED
    BY <2>1, <2>2, <2>3, <2>4 DEF MSemNext, Counting!Next, Counting!GrantSome
<1>3. QED
  BY <1>1, <1>2, SemaphoreInvariance, PTL DEF MSemSpec, Counting!Spec

-----------------------------------------------------------------------------
(* m_thread. *)

(* Every reachable state is well typed, and the mutex excludes a second    *)
(* caller while one waits inside close().                                  *)
THEOREM TypeCorrect == Spec => []TypeOK
<1>1. Init => TypeOK
  <2> SUFFICES ASSUME Init PROVE TypeOK
    OBVIOUS
  <2>1. /\ state \in BOOLEAN
        /\ call \in [Callers -> {"idle", "start", "close", "exit"}]
        /\ worker \in [Workers -> {"off", "run", "exit", "end"}]
    BY DEF Init
  <2>2. permits \in Nat /\ blocked = {} /\ ~ExitUsed
    BY DEF Init, Sem!Init, ExitUsed
  <2>3. QED
    BY <2>1, <2>2 DEF TypeOK
<1>2. TypeOK /\ [Next]_vars => TypeOK'
  <2> SUFFICES ASSUME TypeOK, [Next]_vars PROVE TypeOK'
    OBVIOUS
  <2> USE DEF TypeOK, Returns, MutexFree, ExitUsed
  <2>1. ASSUME NEW c \in Callers, Enter(c) PROVE TypeOK'
    <3>1. CASE Remember
      <4>1. ExitUsed' => before'[1].phase \in {"on", "closing", "off"}
        BY <3>1 DEF Remember, Phase
      <4>2. QED
        BY <2>1, <4>1 DEF Enter, Ops
    <3>2. CASE UNCHANGED before
      BY <2>1, <3>2 DEF Enter, Ops
    <3>3. QED
      BY <2>1, <3>1, <3>2 DEF Enter
  <2>2. ASSUME NEW c \in Callers, Start(c) PROVE TypeOK'
    BY <2>2 DEF Start
  <2>3. ASSUME NEW c \in Callers, Close(c) PROVE TypeOK'
    <3>1. CASE Sem!Take(c) /\ Returns(c)
      <4>1. permits' \in Nat /\ blocked' = {}
        BY <2>3, <3>1 DEF Close, Sem!Take
      <4>2. QED
        BY <2>3, <3>1, <4>1 DEF Close
    <3>2. CASE Sem!Block(c) /\ UNCHANGED call
      BY <2>3, <3>2 DEF Close, Sem!Block
    <3>3. QED
      BY <2>3, <3>1, <3>2 DEF Close
  <2>4. ASSUME NEW c \in Callers, CloseStopped(c) PROVE TypeOK'
    BY <2>4 DEF CloseStopped
  <2>5. ASSUME NEW c \in Callers, CloseGranted(c) PROVE TypeOK'
    BY <2>5 DEF CloseGranted, Sem!Grant
  <2>6. ASSUME NEW c \in Callers, Exit(c) PROVE TypeOK'
    BY <2>6 DEF Exit
  <2>7. ASSUME NEW w \in Workers, EnterExit(w) \/ Return(w) PROVE TypeOK'
    <3>1. CASE EnterExit(w)
      <4>1. ExitUsed' => before'[1].phase \in {"on", "closing", "off"}
        BY <3>1 DEF EnterExit, Remember, Phase
      <4>2. QED
        BY <3>1, <4>1 DEF EnterExit, WorkerGoes
    <3>2. CASE Return(w)
      BY <3>2 DEF Return, WorkerGoes
    <3>3. QED
      BY <2>7, <3>1, <3>2
  <2>8. ASSUME NEW w \in Workers, WorkerStep(w) PROVE TypeOK'
    <3>1. CASE ExitOwn(w) \/ Stop(w)
      BY <3>1 DEF ExitOwn, Stop, WorkerGoes
    <3>2. CASE Finish(w)
      BY <3>2 DEF Finish, WorkerGoes, Sem!Post
    <3>3. QED
      BY <2>8, <3>1, <3>2 DEF WorkerStep
  <2>9. CASE UNCHANGED vars
    BY <2>9 DEF vars
  <2>10. QED
    BY <2>1, <2>2, <2>3, <2>4, <2>5, <2>6, <2>7, <2>8, <2>9 DEF Next
<1>3. QED
  BY <1>1, <1>2, PTL DEF Spec

(* The sets that the accounting counts are finite. *)
LEMMA FiniteCounts ==
  ASSUME TypeOK
  PROVE  /\ IsFiniteSet(Live) /\ Cardinality(Live) \in Nat
         /\ IsFiniteSet(blocked) /\ Cardinality(blocked) \in Nat
<1>1. IsFiniteSet(Live)
  BY ConstantsAssumption, FS_Subset, Live \subseteq Workers DEF Live
<1>2. IsFiniteSet(blocked)
  BY ConstantsAssumption, FS_Subset, blocked \subseteq Callers DEF TypeOK
<1>3. QED
  BY <1>1, <1>2, FS_CardinalityType

(* How each step moves the live workers and the blocked callers. *)
LEMMA Moves ==
  ASSUME TypeOK
  PROVE  /\ \A w \in Workers, from \in {"run", "exit", "end"},
               to \in {"run", "exit", "end"} :
              WorkerGoes(w, from, to) => Live' = Live
         /\ \A w \in Workers :
              WorkerGoes(w, "end", "off") =>
                /\ Live' = Live \ {w}
                /\ Cardinality(Live') = Cardinality(Live) - 1
         /\ \A w \in Workers \ Live :
              worker' = [worker EXCEPT ![w] = "run"] =>
                /\ Live' = Live \cup {w}
                /\ Cardinality(Live') = Cardinality(Live) + 1
         /\ \A c \in Callers :
              /\ Sem!Block(c) => Cardinality(blocked') = Cardinality(blocked) + 1
              /\ Sem!Grant(c) => Cardinality(blocked') = Cardinality(blocked) - 1
<1> USE FiniteCounts
<1>1. ASSUME NEW w \in Workers, NEW from \in {"run", "exit", "end"},
             NEW to \in {"run", "exit", "end"}, WorkerGoes(w, from, to)
      PROVE  Live' = Live
  BY <1>1 DEF WorkerGoes, Live, TypeOK
<1>2. ASSUME NEW w \in Workers, WorkerGoes(w, "end", "off")
      PROVE  /\ Live' = Live \ {w}
             /\ Cardinality(Live') = Cardinality(Live) - 1
  <2>1. Live' = Live \ {w} /\ w \in Live
    BY <1>2 DEF WorkerGoes, Live, TypeOK
  <2>2. QED
    BY <2>1, FS_RemoveElement
<1>3. ASSUME NEW w \in Workers \ Live, worker' = [worker EXCEPT ![w] = "run"]
      PROVE  /\ Live' = Live \cup {w}
             /\ Cardinality(Live') = Cardinality(Live) + 1
  <2>1. Live' = Live \cup {w}
    BY <1>3 DEF Live, TypeOK
  <2>2. QED
    BY <2>1, FS_AddElement
<1>4. ASSUME NEW c \in Callers, Sem!Block(c)
      PROVE  Cardinality(blocked') = Cardinality(blocked) + 1
  BY <1>4, FS_AddElement DEF Sem!Block
<1>5. ASSUME NEW c \in Callers, Sem!Grant(c)
      PROVE  Cardinality(blocked') = Cardinality(blocked) - 1
  BY <1>5, FS_RemoveElement DEF Sem!Grant
<1>6. QED
  BY <1>1, <1>2, <1>3, <1>4, <1>5

(* A close() that waits, and the close() of a running thread that may      *)
(* still come, find a wakeup or a live worker that owes one: whatever      *)
(* callers and workers do with exit(), the semaphore never runs dry.       *)
THEOREM WakeupsSuffice == Spec => []EnoughWakeups
<1>1. Init => EnoughWakeups
  <2> SUFFICES ASSUME Init PROVE EnoughWakeups
    OBVIOUS
  <2>1. /\ Live = {} /\ blocked = {} /\ permits = 0
        /\ ~state
    BY DEF Init, Sem!Init, Live
  <2>2. QED
    BY <2>1, FS_EmptySet DEF EnoughWakeups, Owed
<1>2. TypeOK /\ EnoughWakeups /\ [Next]_vars => EnoughWakeups'
  <2> SUFFICES ASSUME TypeOK, EnoughWakeups, [Next]_vars
               PROVE  EnoughWakeups'
    OBVIOUS
  <2> USE FiniteCounts, Moves
  <2>0. /\ state \in BOOLEAN /\ permits \in Nat
    BY DEF TypeOK
  <2> USE <2>0 DEF EnoughWakeups, Owed
  <2>1. ASSUME UNCHANGED <<state, worker, permits, blocked>>
        PROVE  EnoughWakeups'
    BY <2>1 DEF Live
  <2>2. ASSUME NEW c \in Callers, Start(c) PROVE EnoughWakeups'
    <3>1. CASE MayStart
      BY <2>2, <3>1 DEF Start, MayStart
    <3>2. CASE ~MayStart
      BY <2>1, <2>2, <3>2 DEF Start
    <3>3. QED
      BY <3>1, <3>2
  <2>3. ASSUME NEW c \in Callers, Close(c) PROVE EnoughWakeups'
    <3>1. state /\ ~state' /\ Live' = Live
      BY <2>3 DEF Close, Live
    <3>2. CASE Sem!Take(c)
      BY <3>1, <3>2 DEF Sem!Take
    <3>3. CASE Sem!Block(c)
      <4>1. permits' = permits
        BY <3>3 DEF Sem!Block
      <4>2. QED
        BY <3>1, <3>3, <4>1
    <3>4. QED
      BY <2>3, <3>2, <3>3 DEF Close
  <2>4. ASSUME NEW c \in Callers, CloseGranted(c) PROVE EnoughWakeups'
    <3>1. /\ state' = state /\ Live' = Live /\ permits' = permits - 1
          /\ Sem!Grant(c)
      BY <2>4 DEF CloseGranted, Live, Sem!Grant
    <3>2. QED
      BY <3>1
  <2>5. ASSUME NEW c \in Callers, Exit(c) PROVE EnoughWakeups'
    BY <2>5 DEF Exit, Live
  <2>6. ASSUME NEW w \in Workers, EnterExit(w) \/ Return(w) \/ Stop(w)
        PROVE  EnoughWakeups'
    BY <2>6 DEF EnterExit, Return, Stop
  <2>7. ASSUME NEW w \in Workers, ExitOwn(w) PROVE EnoughWakeups'
    BY <2>7 DEF ExitOwn
  <2>8. ASSUME NEW w \in Workers, Finish(w) PROVE EnoughWakeups'
    <3>1. permits' = permits + 1 /\ blocked' = blocked /\ state' = state
      BY <2>8 DEF Finish, Sem!Post
    <3>2. QED
      BY <2>8, <3>1 DEF Finish
  <2>9. QED
    BY <2>1, <2>2, <2>3, <2>4, <2>5, <2>6, <2>7, <2>8
    DEF Next, vars, Enter, CloseStopped, WorkerStep
<1>3. QED
  BY <1>1, <1>2, TypeCorrect, PTL DEF Spec

-----------------------------------------------------------------------------

(* From here on: what the object promises until exit() is used. *)
NobodyExiting == /\ \A c \in Callers : call[c] # "exit"
                 /\ \A w \in Workers : worker[w] # "exit"
Accounted == (~ExitUsed => NobodyExiting) /\ ExactWakeups

(* The history is kept once it is there, and every step that uses exit()   *)
(* begins it.                                                              *)
LEMMA History ==
  ASSUME TypeOK, [Next]_vars
  PROVE  /\ ExitUsed => ExitUsed' /\ before' = before
         /\ Remember => ExitUsed'
         /\ \A c \in Callers : Enter(c) =>
              Remember \/ (before' = before /\ call'[c] # "exit")
         /\ \A w \in Workers : EnterExit(w) => Remember
<1> USE DEF ExitUsed, Remember
<1>1. ASSUME ExitUsed PROVE ExitUsed' /\ before' = before
  BY <1>1 DEF Next, vars, Enter, Start, Close, CloseStopped, CloseGranted, Exit,
              EnterExit, Return, WorkerStep, ExitOwn, Stop, Finish
<1>2. ASSUME Remember PROVE ExitUsed'
  BY <1>2
<1>3. ASSUME NEW c \in Callers, Enter(c)
      PROVE  Remember \/ (before' = before /\ call'[c] # "exit")
  BY <1>3 DEF Enter, TypeOK
<1>4. ASSUME NEW w \in Workers, EnterExit(w) PROVE Remember
  BY <1>4 DEF EnterExit
<1>5. QED
  BY <1>1, <1>2, <1>3, <1>4

(* Until exit() is used, wakeups and closes balance exactly. *)
THEOREM WakeupsExact == Spec => []Accounted
<1>1. Init => Accounted
  <2> SUFFICES ASSUME Init PROVE Accounted
    OBVIOUS
  <2>1. /\ Live = {} /\ blocked = {} /\ permits = 0
        /\ ~state
    BY DEF Init, Sem!Init, Live
  <2>2. NobodyExiting
    BY DEF Init, NobodyExiting
  <2>3. QED
    BY <2>1, <2>2, FS_EmptySet DEF Accounted, ExactWakeups, Owed
<1>2. TypeOK /\ Accounted /\ [Next]_vars => Accounted'
  <2> SUFFICES ASSUME TypeOK, Accounted, [Next]_vars
               PROVE  Accounted'
    OBVIOUS
  <2>0. CASE ExitUsed'
    BY <2>0 DEF Accounted, ExactWakeups
  <2> SUFFICES ASSUME ~ExitUsed' PROVE NobodyExiting' /\ ExactWakeups'
    BY <2>0 DEF Accounted
  <2>3. ~ExitUsed /\ NobodyExiting /\ ~Remember
    BY History DEF Accounted
  <2>1. NobodyExiting'
    <3> USE <2>3 DEF NobodyExiting, TypeOK, Returns, WorkerGoes
    <3>1. ASSUME NEW c \in Callers, Enter(c) PROVE NobodyExiting'
      <4>1. call'[c] # "exit"
        BY <3>1, History
      <4>2. QED
        BY <3>1, <4>1 DEF Enter
    <3>2. ASSUME NEW c \in Callers,
                 \/ Start(c) \/ Close(c) \/ CloseStopped(c)
                 \/ CloseGranted(c) \/ Exit(c)
          PROVE  NobodyExiting'
      BY <3>2 DEF Start, Close, CloseStopped, CloseGranted, Exit
    <3>3. ASSUME NEW w \in Workers, Return(w) \/ WorkerStep(w)
          PROVE  NobodyExiting'
      BY <3>3 DEF Return, WorkerStep, ExitOwn, Stop, Finish
    <3>4. ASSUME NEW w \in Workers, EnterExit(w) PROVE FALSE
      BY <3>4, History
    <3>5. CASE UNCHANGED vars
      BY <3>5 DEF vars
    <3>6. QED
      BY <3>1, <3>2, <3>3, <3>4, <3>5 DEF Next
  <2>2. ExactWakeups'
    <3> USE FiniteCounts, Moves
    <3>0. /\ state \in BOOLEAN /\ permits \in Nat
          /\ Cardinality(Live) + permits = Owed /\ (blocked # {} => ~state)
      BY <2>3 DEF TypeOK, Accounted, ExactWakeups
    <3> USE <3>0 DEF ExactWakeups, Owed
    <3>1. ASSUME UNCHANGED <<state, worker, permits, blocked>>
          PROVE  ExactWakeups'
      BY <3>1 DEF Live
    <3>2. ASSUME NEW c \in Callers, Start(c) PROVE ExactWakeups'
      <4>1. CASE MayStart
        BY <3>2, <4>1 DEF Start, MayStart, MutexFree
      <4>2. CASE ~MayStart
        BY <3>1, <3>2, <4>2 DEF Start
      <4>3. QED
        BY <4>1, <4>2
    <3>3. ASSUME NEW c \in Callers, Close(c) PROVE ExactWakeups'
      <4>1. state /\ ~state' /\ Live' = Live
        BY <3>3 DEF Close, Live
      <4>2. CASE Sem!Take(c)
        BY <4>1, <4>2 DEF Sem!Take
      <4>3. CASE Sem!Block(c)
        <5>1. permits' = permits
          BY <4>3 DEF Sem!Block
        <5>2. QED
          BY <4>1, <4>3, <5>1
      <4>4. QED
        BY <3>3, <4>2, <4>3 DEF Close
    <3>4. ASSUME NEW c \in Callers, CloseGranted(c) PROVE ExactWakeups'
      <4>1. /\ state' = state /\ Live' = Live /\ permits' = permits - 1
            /\ Sem!Grant(c) /\ blocked # {}
        BY <3>4 DEF CloseGranted, Live, Sem!Grant
      <4>2. QED
        BY <4>1
    <3>5. ASSUME NEW c \in Callers, Exit(c) PROVE FALSE
      BY <2>3, <3>5 DEF Exit, NobodyExiting
    <3>6. ASSUME NEW w \in Workers, EnterExit(w) \/ Return(w) \/ Stop(w)
          PROVE  ExactWakeups'
      BY <3>6 DEF EnterExit, Return, Stop
    <3>7. ASSUME NEW w \in Workers, ExitOwn(w) PROVE FALSE
      BY <2>3, <3>7 DEF ExitOwn, WorkerGoes, NobodyExiting
    <3>8. ASSUME NEW w \in Workers, Finish(w) PROVE ExactWakeups'
      <4>1. permits' = permits + 1 /\ blocked' = blocked /\ state' = state
        BY <3>8 DEF Finish, Sem!Post
      <4>2. QED
        BY <3>8, <4>1 DEF Finish
    <3>9. QED
      BY <3>1, <3>2, <3>3, <3>4, <3>5, <3>6, <3>7, <3>8
      DEF Next, vars, Enter, CloseStopped, WorkerStep
  <2>4. QED
    BY <2>1, <2>2
<1>3. QED
  BY <1>1, <1>2, TypeCorrect, PTL DEF Spec

(* A set of at most one element. *)
LEMMA Lone ==
  ASSUME NEW S, IsFiniteSet(S), Cardinality(S) <= 1
  PROVE  \A v, w \in S : v = w
<1> SUFFICES ASSUME NEW v \in S, NEW w \in S PROVE v = w
  OBVIOUS
<1>1. /\ IsFiniteSet(S \ {v})
      /\ Cardinality(S \ {v}) = Cardinality(S) - 1
      /\ Cardinality(S) \in Nat
  BY FS_RemoveElement, FS_CardinalityType
<1>2. Cardinality(S \ {v}) \in Nat
  BY <1>1, FS_CardinalityType
<1>3. S \ {v} = {}
  BY <1>1, <1>2, FS_EmptySet
<1>4. QED
  BY <1>3

(* What the exact account says about the number of live workers: one while *)
(* the thread runs or is being closed, at most, and none when the permit   *)
(* is already there.                                                       *)
LEMMA LiveCount ==
  ASSUME TypeOK, ExactWakeups, ~ExitUsed
  PROVE  /\ Cardinality(Live) + permits <= 1
         /\ AtMostOneWorker
         /\ permits > 0 => Live = {}
         /\ ~state /\ blocked = {} => Live = {} /\ permits = 0
<1> USE FiniteCounts
<1>1. Cardinality(blocked) <= 1
  <2>1. CASE blocked = {}
    BY <2>1, FS_EmptySet
  <2>2. CASE blocked # {}
    <3>1. PICK c \in blocked : TRUE
      BY <2>2
    <3>2. \A d, e \in blocked : d = e
      BY DEF TypeOK
    <3>3. blocked = {c}
      BY <3>2
    <3>4. Cardinality({c}) = 1
      BY FS_Singleton, Zenon
    <3>5. QED
      BY <3>3, <3>4
  <2>3. QED
    BY <2>1, <2>2
<1>2. permits \in Nat
  BY DEF TypeOK
<1>3. Cardinality(Live) + permits <= 1
  <2>1. CASE blocked = {}
    BY <1>2, <2>1, FS_EmptySet DEF ExactWakeups, Owed
  <2>2. CASE blocked # {}
    BY <1>1, <1>2, <2>2 DEF ExactWakeups, Owed
  <2>3. QED
    BY <2>1, <2>2
<1>4. AtMostOneWorker
  <2>1. Cardinality(Live) <= 1
    BY <1>2, <1>3
  <2>2. QED
    BY <2>1, Lone DEF AtMostOneWorker
<1>5. permits > 0 => Live = {}
  <2>1. permits > 0 => Cardinality(Live) = 0
    BY <1>2, <1>3
  <2>2. QED
    BY <2>1, FS_EmptySet
<1>6. ~state /\ blocked = {} => Live = {} /\ permits = 0
  <2>1. ~state /\ blocked = {} => Cardinality(Live) = 0 /\ permits = 0
    BY <1>2, FS_EmptySet DEF ExactWakeups, Owed
  <2>2. QED
    BY <2>1, FS_EmptySet
<1>7. QED
  BY <1>3, <1>4, <1>5, <1>6

(* Until exit() is used, two workers never run at the same time. *)
THEOREM OneWorker == Spec => []AtMostOneWorker
<1>1. TypeOK /\ Accounted => AtMostOneWorker
  BY LiveCount DEF Accounted, AtMostOneWorker
<1>2. QED
  BY <1>1, TypeCorrect, WakeupsExact, PTL

(* Until exit() is used, close() returns only when no worker is left. *)
THEOREM CloseIsSafe == Spec => SafeClose
<1>1. TypeOK /\ Accounted /\ [Next]_vars
        => [\A c \in Callers : Closes(c) /\ ~ExitUsed => Live' = {}]_vars
  <2> SUFFICES ASSUME TypeOK, Accounted, ~ExitUsed,
                      NEW c \in Callers, Closes(c)
               PROVE  Live' = {}
    OBVIOUS
  <2>1. CASE Close(c) /\ c \notin blocked'
    <3>1. permits > 0 /\ Live' = Live
      BY <2>1 DEF Close, Live, Sem!Take, Sem!Block
    <3>2. QED
      BY <3>1, LiveCount DEF Accounted
  <2>2. CASE CloseGranted(c)
    <3>1. permits > 0 /\ Live' = Live
      BY <2>2 DEF CloseGranted, Live, Sem!Grant
    <3>2. QED
      BY <3>1, LiveCount DEF Accounted
  <2>3. QED
    BY <2>1, <2>2 DEF Closes
<1>2. QED
  BY <1>1, TypeCorrect, WakeupsExact, PTL DEF Spec, SafeClose

(* Until exit() is used, every behaviour of m_thread is one of SafeThread  *)
(* (its safety part: the fairness of SafeThread is left to TLC).           *)
THEOREM Refinement == Spec => Safe!Spec
<1>1. Init => Safe!Init
  BY DEF Init, Sem!Init, Safe!Init, Phase, Live, ExitUsed
<1>2. TypeOK /\ Accounted /\ [Next]_vars => [Safe!Next]_Safe!safevars
  <2> SUFFICES ASSUME TypeOK, Accounted, [Next]_vars
               PROVE  Safe!Next \/ UNCHANGED Safe!safevars
    BY DEF Safe!safevars
  <2>a. CASE ExitUsed
    BY <2>a, History DEF Safe!safevars
  <2>b. CASE ~ExitUsed /\ ExitUsed'
    <3>1. Remember
      BY <2>b DEF Next, vars, ExitUsed, Enter, Start, Close, CloseStopped,
                  CloseGranted, Exit, EnterExit, Return, WorkerStep, ExitOwn,
                  Stop, Finish
    <3>2. before'[1] = [phase |-> Phase, alive |-> Live # {}]
      BY <2>b, <3>1 DEF Remember, ExitUsed
    <3>3. QED
      BY <2>b, <3>2 DEF Safe!safevars
  <2> SUFFICES ASSUME ~ExitUsed, ~ExitUsed'
               PROVE  Safe!Next \/ UNCHANGED Safe!safevars
    BY <2>a, <2>b
  <2> USE LiveCount, Moves
  <2>0. /\ state \in BOOLEAN /\ ExactWakeups /\ (blocked # {} => ~state)
        /\ \A c, d \in blocked : c = d
        /\ NobodyExiting
    BY DEF TypeOK, Accounted, ExactWakeups
  <2> USE <2>0 DEF Safe!Next, Safe!safevars, Phase
  <2>1. ASSUME UNCHANGED <<state, blocked>>, Live' = Live
        PROVE  UNCHANGED Safe!safevars
    BY <2>1
  <2>2. ASSUME NEW c \in Callers, Start(c)
        PROVE  Safe!Next \/ UNCHANGED Safe!safevars
    <3>1. CASE MayStart
      <4>1. Phase = "off" /\ Phase' = "on" /\ Live' # {}
        BY <2>2, <3>1 DEF Start, MayStart, MutexFree
      <4>2. QED
        BY <4>1 DEF Safe!Start
    <3>2. CASE ~MayStart
      BY <2>1, <2>2, <3>2 DEF Start, Live
    <3>3. QED
      BY <3>1, <3>2
  <2>3. ASSUME NEW c \in Callers, Close(c)
        PROVE  Safe!Next
    <3>1. Phase = "on" /\ ~state' /\ Live' = Live
      BY <2>3 DEF Close, Live
    <3>2. CASE Sem!Take(c)
      <4>1. Live = {} /\ Phase' = "off"
        BY <2>3, <3>1, <3>2 DEF Close, MutexFree, Sem!Take
      <4>2. QED
        BY <3>1, <4>1 DEF Safe!CloseAtOnce
    <3>3. CASE Sem!Block(c)
      <4>1. Phase' = "closing"
        BY <3>1, <3>3 DEF Sem!Block
      <4>2. QED
        BY <3>1, <4>1 DEF Safe!BeginClose
    <3>4. QED
      BY <2>3, <3>2, <3>3 DEF Close
  <2>4. ASSUME NEW c \in Callers, CloseGranted(c)
        PROVE  Safe!Next
    <3>1. /\ Phase = "closing" /\ Phase' = "off"
          /\ Live = {} /\ Live' = Live
      BY <2>4 DEF CloseGranted, Sem!Grant, Live
    <3>2. QED
      BY <3>1 DEF Safe!EndClose
  <2>5. ASSUME NEW c \in Callers, Exit(c) PROVE FALSE
    BY <2>5 DEF Exit, NobodyExiting
  <2>6. ASSUME NEW w \in Workers, EnterExit(w) \/ Return(w) \/ Stop(w)
        PROVE  UNCHANGED Safe!safevars
    <3>1. Live' = Live
      BY <2>6 DEF EnterExit, Return, Stop
    <3>2. QED
      BY <2>1, <2>6, <3>1 DEF EnterExit, Return, Stop
  <2>7. ASSUME NEW w \in Workers, ExitOwn(w) PROVE FALSE
    BY <2>7 DEF ExitOwn, WorkerGoes, NobodyExiting
  <2>8. ASSUME NEW w \in Workers, Finish(w)
        PROVE  Safe!Next
    <3>1. w \in Live /\ Live' = Live \ {w} /\ Phase' = Phase
      BY <2>8 DEF Finish, WorkerGoes, Live, Sem!Post
    <3>2. Live # {} /\ Live' = {}
      BY <3>1 DEF AtMostOneWorker
    <3>3. QED
      BY <3>1, <3>2 DEF Safe!WorkerEnds
  <2>9. ASSUME UNCHANGED <<state, worker, permits, blocked>>
        PROVE  UNCHANGED Safe!safevars
    BY <2>1, <2>9 DEF Live
  <2>10. QED
    BY <2>2, <2>3, <2>4, <2>5, <2>6, <2>7, <2>8, <2>9
    DEF Next, vars, Enter, CloseStopped, WorkerStep
<1>3. QED
  BY <1>1, <1>2, TypeCorrect, WakeupsExact, PTL DEF Spec, Safe!Spec

=============================================================================
