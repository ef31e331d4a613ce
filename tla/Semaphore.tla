------------------------------ MODULE Semaphore ------------------------------
(***************************************************************************)
(* Semaphore, BoundedSemaphore and Lock of src/locks.c.                    *)
(*                                                                         *)
(* Greenlets run one at a time and keep control until they switch, so that *)
(* acquire() up to loop_switch, what follows when the greenlet is switched *)
(* back to, and release() are one step each.  Between the steps anything   *)
(* may run.  release() does not wake a waiter itself: it schedules a call  *)
(* of _notify_waiter in the event loop, and whoever runs first may take    *)
(* the permit meanwhile.                                                   *)
(*                                                                         *)
(* Nothing in the code looks at who holds a permit, so a greenlet is taken *)
(* to hold at most one here.  A callback that the loop runs in its own     *)
(* greenlet is not among the greenlets: acquire() would switch to main.    *)
(***************************************************************************)
EXTENDS Integers, FiniteSets

CONSTANTS
  Greenlet,
  Value,       \* the argument of the constructor, 1 for Lock
  Bounded,     \* whether it is a BoundedSemaphore
  MaxExtra,    \* bound: releases by a greenlet that did not acquire
  MaxNotifies  \* bound: calls of _notify_waiter in the loop's queue

(* What is assumed of the constants, wherever it matters.                  *)
SemaphoreAssumption ==
  /\ Value \in Int /\ Bounded \in BOOLEAN
  /\ MaxExtra \in Nat /\ MaxNotifies \in Nat
  /\ IsFiniteSet(Greenlet)

VARIABLES
  counter,   \* self->counter
  waiters,   \* self->waiters
  notifies,  \* scheduled calls of _notify_waiter
  armed,     \* greenlets with a timeout timer that is not cancelled
  place,     \* of each greenlet: "out", "waiting" in loop_switch, or "in"
  extra      \* history: the releases by a greenlet that did not acquire

vars == <<counter, waiters, notifies, armed, place, extra>>

Init ==
  /\ counter = Value
  /\ waiters = {}
  /\ notifies = 0
  /\ armed = {}
  /\ place = [g \in Greenlet |-> "out"]
  /\ extra = 0
-----------------------------------------------------------------------------
(* acquire() that finds a permit.  With blocking=False and no permit it    *)
(* changes nothing.                                                        *)
AcquireAtOnce(g) ==
  /\ place[g] = "out"
  /\ counter > 0
  /\ counter' = counter - 1
  /\ place' = [place EXCEPT ![g] = "in"]
  /\ UNCHANGED <<waiters, notifies, armed, extra>>

(* acquire() that has to wait, with a timeout or without.                  *)
AcquireWaits(g, timed) ==
  /\ place[g] = "out"
  /\ counter <= 0
  /\ armed' = IF timed THEN armed \cup {g} ELSE armed
  /\ waiters' = waiters \cup {g}
  /\ place' = [place EXCEPT ![g] = "waiting"]
  /\ UNCHANGED <<counter, notifies, extra>>

(* The label fin of semaphore_acquire, on every way out of the wait.       *)
Fin(g, result) ==
  /\ armed' = armed \ {g}
  /\ waiters' = waiters \ {g}
  /\ place' = [place EXCEPT ![g] = result]

(* Mutant: a greenlet that had to wait does not count its permit.          *)
WokenUncounted(g) ==
  \/ /\ counter > 0
     /\ Fin(g, "in")
     /\ UNCHANGED counter
  \/ /\ counter <= 0
     /\ UNCHANGED <<counter, armed, waiters, place>>

(* The waiter is switched back to: it takes the permit if there is one and *)
(* goes on waiting otherwise.                                              *)
Woken(g) ==
  \/ /\ counter > 0
     /\ counter' = counter - 1
     /\ Fin(g, "in")
  \/ /\ counter <= 0
     /\ UNCHANGED <<counter, armed, waiters, place>>

(* Mutant: release() calls _notify_waiter only for the first permit.       *)
AnnounceFirst ==
  notifies' = IF waiters # {} /\ counter = 0 THEN notifies + 1 ELSE notifies

Announce == notifies' = IF waiters # {} THEN notifies + 1 ELSE notifies

(* release(), which a BoundedSemaphore refuses with a ValueError when all  *)
(* permits are back.                                                       *)
ReleaseAllowed == Bounded => counter < Value

Release(g) ==
  /\ place[g] = "in"
  /\ ReleaseAllowed
  /\ notifies < MaxNotifies
  /\ counter' = counter + 1
  /\ Announce
  /\ place' = [place EXCEPT ![g] = "out"]
  /\ UNCHANGED <<waiters, armed, extra>>

ReleaseByOther ==
  /\ extra < MaxExtra
  /\ ReleaseAllowed
  /\ notifies < MaxNotifies
  /\ counter' = counter + 1
  /\ Announce
  /\ extra' = extra + 1
  /\ UNCHANGED <<waiters, armed, place>>

(* _notify_waiter: any waiter is popped and switched to.  One that is not  *)
(* in loop_switch of semaphore_acquire, if there could be any, would be    *)
(* resumed wherever it is.                                                 *)
NotifyWaiter ==
  /\ notifies > 0
  /\ notifies' = notifies - 1
  /\ \/ /\ waiters # {} /\ counter > 0
        /\ \E g \in waiters :
             IF place[g] = "waiting" THEN Woken(g)
             ELSE waiters' = waiters \ {g} /\ UNCHANGED <<counter, armed, place>>
     \/ /\ waiters = {} \/ counter <= 0
        /\ UNCHANGED <<counter, armed, waiters, place>>
  /\ UNCHANGED extra

(* The timer throws its TimeoutException into the greenlet, which gives up *)
(* if it is waiting and is disturbed in whatever else it does otherwise.   *)
Timeout(g) ==
  /\ g \in armed
  /\ IF place[g] = "waiting" THEN Fin(g, "out")
     ELSE armed' = armed \ {g} /\ UNCHANGED <<waiters, place>>
  /\ UNCHANGED <<counter, notifies, extra>>

(* Another exception is thrown into a waiting greenlet: the timeout of an  *)
(* enclosing set_timeout, or the abort of the loop.                        *)
Thrown(g) ==
  /\ place[g] = "waiting"
  /\ Fin(g, "out")
  /\ UNCHANGED <<counter, notifies, extra>>

(* Something else switches to a waiting greenlet: a handle that a future   *)
(* or an executor scheduled for it and that comes late.                    *)
SpuriousSwitch(g) ==
  /\ place[g] = "waiting"
  /\ Woken(g)
  /\ UNCHANGED <<notifies, extra>>

Next ==
  \/ NotifyWaiter \/ ReleaseByOther
  \/ \E g \in Greenlet :
       \/ AcquireAtOnce(g) \/ Release(g) \/ Timeout(g) \/ Thrown(g) \/ SpuriousSwitch(g)
       \/ \E timed \in BOOLEAN : AcquireWaits(g, timed)

Spec == Init /\ [][Next]_vars

(* The event loop reaches every handle that is in its queue.               *)
FairSpec == Spec /\ WF_vars(NotifyWaiter)
-----------------------------------------------------------------------------
TypeOK ==
  /\ counter \in Int
  /\ waiters \in SUBSET Greenlet
  /\ notifies \in 0 .. MaxNotifies
  /\ armed \in SUBSET Greenlet
  /\ place \in [Greenlet -> {"out", "waiting", "in"}]
  /\ extra \in 0 .. MaxExtra

Inside == {g \in Greenlet : place[g] = "in"}

(* No permit is lost or made up, whichever way the waits end: timeouts,    *)
(* exceptions, late and spurious switches included.                        *)
PermitsConserved == counter + Cardinality(Inside) = Value + extra

(* A Lock, or any semaphore of one permit whose users release only what    *)
(* they acquired, lets one greenlet in at a time.                          *)
MutualExclusion ==
  Value = 1 /\ extra = 0 => \A g, h \in Inside : g = h

(* The waiters are the greenlets that are waiting: _notify_waiter never    *)
(* resumes a greenlet in the middle of something else.                     *)
WaitersAreWaiting == waiters = {g \in Greenlet : place[g] = "waiting"}

(* No timeout is thrown into a greenlet that has got its permit or given   *)
(* up, even if the timer was already due when that happened.               *)
OnlyWaitersTimeOut == armed \subseteq waiters

(* The wake-up calls under way suffice for the permits or for the waiters, *)
(* whatever newcomers took and whoever gave up since they were scheduled.  *)
NoLostWakeup == notifies >= counter \/ notifies >= Cardinality(waiters)

Abstract == INSTANCE Permits WITH permits <- counter

(* The semaphore keeps the promise of Permits.tla, fairness included.      *)
ImplementsPermits == Abstract!Spec
=============================================================================
