------------------------------ MODULE Condition ------------------------------
(***************************************************************************)
(* RLock and Condition of src/locks.c.  A Condition is made on an RLock    *)
(* (the default) or on a Lock, whose methods it then completes by its own. *)
(*                                                                         *)
(* Of the semaphores inside (the block of an RLock or the Lock itself, and *)
(* one for each wait()) only what Permits.tla promises is used: whoever    *)
(* waits in acquire() may get a permit when there is one, and may be made  *)
(* to give up.  Greenlets run one at a time and keep control until they    *)
(* wait, so each operation is a step up to where it has to wait.           *)
(*                                                                         *)
(* Greenlets use the lock in `with' blocks: an exception leaves all of     *)
(* them, and a Lock is not acquired twice.                                 *)
(***************************************************************************)
EXTENDS Greenlets, Integers, Sequences, FiniteSets

CONSTANTS
  Waiter,     \* bound: the waiters' semaphores that exist at a time
  MaxDepth,   \* bound: nested acquisitions
  MaxStray    \* bound: releases of a Lock by a greenlet that lost it

ASSUME BoundAssumption == MaxDepth \in Nat \ {0} /\ MaxStray \in Nat
ASSUME GreenletAssumption == IsFiniteSet(Greenlet)
ASSUME WaiterAssumption == Nobody \notin Waiter

VARIABLES
  reentrant, \* whether the Condition was made on an RLock
  permits,   \* counter of the lock's semaphore
  owner,     \* self->owner of the RLock, Nobody for None
  count,     \* self->count of the RLock
  waiters,   \* self->waiters of the Condition
  released,  \* the waiters' semaphores that notify() has released
  place,     \* of each greenlet: "run", "acquire", "wait" or "restore"
  waiter,    \* of a greenlet in wait(): its semaphore
  saved,     \* of a greenlet in wait(): what _release_save returned
  depth,     \* history: the `with' blocks each greenlet is in
  robbed,    \* history: those whose wait() ended without the lock
  stray      \* history: releases of a Lock by a greenlet in robbed

lockVars == <<permits, owner, count>>
waitVars == <<waiters, released, waiter, saved>>
histVars == <<depth, robbed, stray>>
vars == <<reentrant, lockVars, waitVars, place, histVars>>

Init ==
  /\ reentrant \in BOOLEAN
  /\ permits = 1 /\ owner = Nobody /\ count = 0
  /\ waiters = <<>> /\ released = {}
  /\ place = [g \in Greenlet |-> "run"]
  /\ waiter = [g \in Greenlet |-> Nobody]
  /\ saved = [g \in Greenlet |-> 0]
  /\ depth = [g \in Greenlet |-> 0]
  /\ robbed = {}
  /\ stray = 0
-----------------------------------------------------------------------------
(* The lock's semaphore gives a permit, and an RLock notes whose it is.    *)
Take(g, n) ==
  /\ permits > 0
  /\ permits' = permits - 1
  /\ IF reentrant THEN owner' = g /\ count' = n ELSE UNCHANGED <<owner, count>>

Give ==
  /\ permits' = permits + 1
  /\ IF reentrant THEN owner' = Nobody /\ count' = 0 ELSE UNCHANGED <<owner, count>>

Nest(g, d) == depth' = [depth EXCEPT ![g] = @ + d]

GoTo(g, where) == place' = [place EXCEPT ![g] = where]

(* rlock_acquire by the owner.                                             *)
AcquireAgain(g) ==
  /\ place[g] = "run" /\ depth[g] < MaxDepth
  /\ reentrant /\ owner = g
  /\ count' = count + 1
  /\ Nest(g, 1)
  /\ UNCHANGED <<permits, owner, waitVars, place, robbed, stray>>

(* acquire() by anybody else, at once or after a wait.                     *)
Acquire(g) ==
  /\ place[g] = "run" /\ depth[g] = 0
  /\ \/ Take(g, 1) /\ Nest(g, 1) /\ UNCHANGED place
     \/ permits = 0 /\ GoTo(g, "acquire") /\ UNCHANGED <<lockVars, depth>>
  /\ UNCHANGED <<waitVars, robbed, stray>>

Acquired(g) ==
  /\ place[g] = "acquire"
  /\ Take(g, 1)
  /\ Nest(g, 1)
  /\ GoTo(g, "run")
  /\ UNCHANGED <<waitVars, robbed, stray>>

(* The timeout of acquire(), or another exception.                         *)
AcquireEnds(g) ==
  /\ place[g] = "acquire"
  /\ GoTo(g, "run")
  /\ UNCHANGED <<lockVars, waitVars, histVars>>

(* rlock_release counts down, release() of a Lock does not look at who it  *)
(* is that releases.                                                       *)
GiveCounted ==
  IF reentrant /\ count > 1
  THEN count' = count - 1 /\ UNCHANGED <<permits, owner>>
  ELSE Give

(* release(), at the end of a block.  For who is not the owner of an RLock *)
(* it raises RuntimeError.                                                 *)
Release(g) ==
  /\ place[g] = "run" /\ depth[g] > 0
  /\ IF reentrant /\ owner # g THEN UNCHANGED lockVars ELSE GiveCounted
  /\ stray' = IF ~reentrant /\ g \in robbed THEN stray + 1 ELSE stray
  /\ stray' <= MaxStray
  /\ Nest(g, -1)
  /\ robbed' = IF depth[g] = 1 THEN robbed \ {g} ELSE robbed
  /\ UNCHANGED <<waitVars, place>>
-----------------------------------------------------------------------------
(* Mutant: whoever calls it is taken to be the owner.                      *)
IsOwnedAlways(g) == TRUE

(* rlock_is_owned, and the Condition's own _is_owned: a Lock that cannot   *)
(* be acquired is taken to be the caller's.                                *)
IsOwned(g) == IF reentrant THEN owner = g ELSE permits = 0

InUse == {waiter[g] : g \in Greenlet} \cup {waiters[i] : i \in DOMAIN waiters}

(* wait() up to where it waits for a notification: a new semaphore that is *)
(* acquired once is appended to the waiters, and _release_save gives the   *)
(* lock back however often it was acquired.                                *)
Wait(g) ==
  /\ place[g] = "run" /\ g \notin robbed /\ depth[g] > 0
  /\ IsOwned(g)
  /\ \E w \in Waiter \ InUse :
       /\ waiter' = [waiter EXCEPT ![g] = w]
       /\ waiters' = Append(waiters, w)
       /\ released' = released \ {w}
  /\ saved' = [saved EXCEPT ![g] = count]
  /\ Give
  /\ GoTo(g, "wait")
  /\ UNCHANGED histVars

(* Mutant: notify() releases the oldest waiters and removes the newest.    *)
WakeWrong(n) ==
  /\ released' = released \cup {waiters[i] : i \in 1 .. n}
  /\ waiters' = SubSeq(waiters, 1, Len(waiters) - n)

WakeFirst(n) ==
  /\ released' = released \cup {waiters[i] : i \in 1 .. n}
  /\ waiters' = SubSeq(waiters, n + 1, Len(waiters))

(* notify(), with n up to the length of the list, and notify_all().  Who   *)
(* left its wait() by a timeout is still in the list.                      *)
Notify(g) ==
  /\ place[g] = "run" /\ g \notin robbed
  /\ IsOwned(g)
  /\ \E n \in 1 .. Len(waiters) : WakeFirst(n)
  /\ UNCHANGED <<lockVars, waiter, saved, place, histVars>>

(* _acquire_restore, at once or after a wait.                              *)
Restore(g) ==
  \/ Take(g, saved[g]) /\ GoTo(g, "run") /\ UNCHANGED saved
  \/ permits = 0 /\ GoTo(g, "restore") /\ UNCHANGED <<lockVars, saved>>

(* The wait for a notification ends: by one, or by a timeout or another    *)
(* exception, even if a notification is under way.                         *)
Notified(g) ==
  /\ place[g] = "wait"
  /\ waiter[g] \in released
  /\ waiter' = [waiter EXCEPT ![g] = Nobody]
  /\ Restore(g)
  /\ UNCHANGED <<waiters, released, histVars>>

WaitEnds(g) ==
  /\ place[g] = "wait"
  /\ waiter' = [waiter EXCEPT ![g] = Nobody]
  /\ Restore(g)
  /\ UNCHANGED <<waiters, released, histVars>>

Restored(g) ==
  /\ place[g] = "restore"
  /\ Take(g, saved[g])
  /\ GoTo(g, "run")
  /\ UNCHANGED <<waitVars, histVars>>

(* An exception ends wait() while it waits for the lock.  The greenlet     *)
(* leaves its blocks without having the lock.                              *)
RestoreEnds(g) ==
  /\ place[g] = "restore"
  /\ GoTo(g, "run")
  /\ robbed' = robbed \cup {g}
  /\ UNCHANGED <<lockVars, waitVars, depth, stray>>

Step(g) ==
  \/ AcquireAgain(g) \/ Acquire(g) \/ Acquired(g) \/ AcquireEnds(g) \/ Release(g)
  \/ Wait(g) \/ Notify(g) \/ Notified(g) \/ WaitEnds(g) \/ Restored(g) \/ RestoreEnds(g)

Next == UNCHANGED reentrant /\ \E g \in Greenlet : Step(g)

Spec == Init /\ [][Next]_vars
-----------------------------------------------------------------------------
Entries(s) == {s[i] : i \in DOMAIN s}

TypeOK ==
  /\ reentrant \in BOOLEAN
  /\ permits \in 0 .. 1 + MaxStray
  /\ owner \in Greenlet \cup {Nobody}
  /\ count \in 0 .. MaxDepth
  /\ waiters \in Seq(Waiter)
  /\ released \in SUBSET Waiter
  /\ place \in [Greenlet -> {"run", "acquire", "wait", "restore"}]
  /\ waiter \in [Greenlet -> Waiter \cup {Nobody}]
  /\ saved \in [Greenlet -> 0 .. MaxDepth]
  /\ depth \in [Greenlet -> 0 .. MaxDepth]
  /\ robbed \in SUBSET Greenlet
  /\ stray \in 0 .. MaxStray

(* The greenlets that are in a block and are right to think so.            *)
Holding == {g \in Greenlet : place[g] = "run" /\ depth[g] > 0 /\ g \notin robbed}

(* One greenlet at a time is in the blocks, through waits that time out    *)
(* and whatever exceptions.  For a Lock this ends when a greenlet leaves   *)
(* wait() by an exception without the lock and releases it all the same.   *)
Exclusion ==
  reentrant \/ stray = 0 => \A g, h \in Holding : g = h

(* The RLock belongs to the greenlet in the blocks, with the number of its *)
(* blocks, also after a wait() that gave up several levels.                *)
OwnerExact ==
  reentrant =>
    /\ Holding = {owner} \ {Nobody}
    /\ \A g \in Holding : count = depth[g]
    /\ permits = 0 <=> owner # Nobody

Waiting == {g \in Greenlet : place[g] = "wait"}

(* notify_all() reaches everybody that waits: the semaphore each of them   *)
(* waits for is in the list or released, not both, and nobody else's.      *)
WaitersReachable ==
  /\ \A g \in Waiting : (waiter[g] \in Entries(waiters)) # (waiter[g] \in released)
  /\ \A g, h \in Waiting : waiter[g] = waiter[h] => g = h
  /\ \A i, j \in DOMAIN waiters : waiters[i] = waiters[j] => i = j

Unnotified == {g \in Waiting : waiter[g] \notin released}
Returning == {g \in Greenlet : place[g] = "restore" \/ (g \in Waiting /\ g \notin Unnotified)}

(* The map leaves out a Condition on a Lock, which has no owner.            *)
Abstract == INSTANCE Monitor WITH
  holder <- owner,
  waiting <- IF reentrant THEN Unnotified ELSE {},
  returning <- IF reentrant THEN Returning ELSE {}

(* A Condition on an RLock is a monitor (Monitor.tla).                     *)
ImplementsMonitor == Abstract!Spec
=============================================================================
