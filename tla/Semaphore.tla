------------------------------ MODULE Semaphore ------------------------------
(***************************************************************************)
(* What class m_semaphore promises its users: a counting semaphore.  A     *)
(* call of wait() consumes one permit, or blocks the caller until another  *)
(* thread has supplied one with wakeup().  How the permit reaches the      *)
(* blocked thread (two counters, a mutex and a condition variable) is the  *)
(* subject of MSemaphore, which implements this specification.             *)
(***************************************************************************)
EXTENDS Naturals

CONSTANT Threads          \* the threads that call wait() and wakeup()

VARIABLES permits,        \* wakeups that no wait has consumed yet
          blocked         \* the threads blocked inside wait()

semvars == <<permits, blocked>>

Init == permits = 0 /\ blocked = {}

(* wait() finds a permit and returns without blocking. *)
Take(t) == /\ t \notin blocked
           /\ permits > 0
           /\ permits' = permits - 1
           /\ UNCHANGED blocked

(* wait() finds no permit and blocks. *)
Block(t) == /\ t \notin blocked
            /\ permits = 0
            /\ blocked' = blocked \cup {t}
            /\ UNCHANGED permits

(* A blocked wait() consumes a permit and returns. *)
Grant(t) == /\ t \in blocked
            /\ permits > 0
            /\ permits' = permits - 1
            /\ blocked' = blocked \ {t}

(* wakeup(). *)
Post(t) == /\ t \notin blocked
           /\ permits' = permits + 1
           /\ UNCHANGED blocked

GrantSome == \E t \in Threads : Grant(t)

Next == \/ \E t \in Threads : Take(t) \/ Block(t) \/ Post(t)
        \/ GrantSome

Spec == Init /\ [][Next]_semvars

(* A permit that stays available while a thread is blocked is consumed by  *)
(* some blocked thread: no wakeup is lost.                                 *)
FairSpec == Spec /\ WF_semvars(GrantSome)
==============================================================================
