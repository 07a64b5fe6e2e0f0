----------------------------- MODULE MSemaphore -----------------------------
(***************************************************************************)
(* Class m_semaphore (public/m_semaphore.cpp): two counters guarded by one *)
(* mutex and a condition variable.                                         *)
(*                                                                         *)
(* Every access to the counters happens with the mutex held, and the mutex *)
(* is given up inside wait() only while the thread sleeps on the condition *)
(* variable, so each stretch between two sleeps is one atomic step.  The   *)
(* condition variable is the set of sleeping threads and the subset of     *)
(* them that notify_one has already picked; C++ lets a sleeping thread     *)
(* wake without being notified, and Resume allows that too.                *)
(***************************************************************************)
EXTENDS Integers, FiniteSets

CONSTANTS Threads,        \* the threads that call wait() and wakeup()
          MaxSurplus      \* bound: wakeups that may be ahead of the waits

ASSUME SemaphoreAssumption == IsFiniteSet(Threads) /\ MaxSurplus \in Nat

VARIABLES wait,           \* _wait: wakeups minus waits, as called so far
          wakeup,         \* _wakeup: wakeups addressed to sleeping threads
          sleeping,       \* threads inside _cv.wait
          notified        \* sleeping threads picked by notify_one

msemvars == <<wait, wakeup, sleeping, notified>>

MSemInit == /\ wait = 0
            /\ wakeup = 0
            /\ sleeping = {}
            /\ notified = {}

(* The tests of the two counters (m_semaphore.cpp:20, 25 and 35), each     *)
(* preceded by a slip that the run shows to break a property.              *)
NoPermitOffByOne   == wait - 1 <= 0
NoPermit           == wait - 1 < 0
MayReturn          == wakeup > 0
WaiterOwedOffByOne == wait + 1 < 0
WaiterOwed         == wait + 1 <= 0

(* wait(), up to its return or its first sleep.  _cv.wait(lock, pred)      *)
(* evaluates the predicate _wakeup > 0 before it sleeps, so a late caller  *)
(* may take a wakeup that was addressed to a thread already sleeping.      *)
Wait(t) ==
  /\ t \notin sleeping
  /\ wait' = wait - 1
  /\ \/ /\ ~NoPermit
        /\ UNCHANGED <<wakeup, sleeping>>
     \/ /\ NoPermit /\ MayReturn
        /\ wakeup' = wakeup - 1
        /\ UNCHANGED sleeping
     \/ /\ NoPermit /\ ~MayReturn
        /\ sleeping' = sleeping \cup {t}
        /\ UNCHANGED wakeup
  /\ UNCHANGED notified

(* A sleeping thread wakes, gets the mutex back and evaluates the          *)
(* predicate: it returns from wait(), or goes back to sleep.               *)
Resume(t) ==
  /\ t \in sleeping
  /\ \/ /\ MayReturn
        /\ wakeup' = wakeup - 1
        /\ sleeping' = sleeping \ {t}
     \/ /\ ~MayReturn
        /\ UNCHANGED <<wakeup, sleeping>>
  /\ notified' = notified \ {t}
  /\ UNCHANGED wait

(* _cv.notify_one(): one sleeping thread that was not picked yet, if any.  *)
NotifyOne ==
  IF sleeping \subseteq notified
  THEN UNCHANGED notified
  ELSE \E u \in sleeping \ notified : notified' = notified \cup {u}

(* wakeup(). *)
Wakeup(t) ==
  /\ t \notin sleeping
  /\ wait < MaxSurplus
  /\ wait' = wait + 1
  /\ \/ /\ WaiterOwed
        /\ wakeup' = wakeup + 1
        /\ NotifyOne
     \/ /\ ~WaiterOwed
        /\ UNCHANGED <<wakeup, notified>>
  /\ UNCHANGED sleeping

MSemNext == \E t \in Threads : Wait(t) \/ Resume(t) \/ Wakeup(t)

MSemSpec == MSemInit /\ [][MSemNext]_msemvars

(* The only progress assumed: a thread that was notified gets to run.      *)
(* Nothing is assumed about threads calling wait() or wakeup(), nor about  *)
(* spurious wakeups.                                                       *)
MSemFairSpec == MSemSpec /\ \A t \in Threads : WF_msemvars(t \in notified /\ Resume(t))

-----------------------------------------------------------------------------

MSemTypeOK == /\ wait \in Int
              /\ wakeup \in Nat
              /\ sleeping \subseteq Threads
              /\ notified \subseteq sleeping

(* The two counters account for every sleeping thread: the threads asleep  *)
(* are those a wakeup is on its way to plus those _wait says are owed one. *)
(* If the counters drifted (an off-by-one in either comparison of          *)
(* m_semaphore.cpp:20,35) some wait() would sleep forever or return early. *)
Debt == IF wait < 0 THEN -wait ELSE 0
Balance == Cardinality(sleeping) = wakeup + Debt

(* There are always at least as many notified threads as undelivered       *)
(* wakeups, although late callers of wait() steal wakeups and sleepers     *)
(* wake spuriously: no notification is lost (m_semaphore.cpp:37-39).       *)
NoLostWakeup == wakeup <= Cardinality(notified)

(* The implementation of Semaphore: the permits are the surplus of wakeups *)
(* together with the wakeups on their way to a sleeping thread.            *)
Permits == wakeup + (IF wait > 0 THEN wait ELSE 0)

Counting == INSTANCE Semaphore WITH permits <- Permits, blocked <- sleeping

(* m_semaphore implements the counting semaphore of Semaphore, including   *)
(* its promise that an available permit reaches a blocked thread.          *)
ImplementsSemaphore == Counting!FairSpec
==============================================================================
