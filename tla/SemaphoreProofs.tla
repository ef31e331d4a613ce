--------------------------- MODULE SemaphoreProofs ---------------------------
(***************************************************************************)
(* The semaphore conserves its permits, excludes, and never loses a        *)
(* wake-up, for any number of greenlets and any number of permits.         *)
(***************************************************************************)
EXTENDS Semaphore, FiniteSetTheorems, TLAPS

(* What every step keeps by itself.                                        *)
Kept ==
  /\ TypeOK /\ PermitsConserved /\ WaitersAreWaiting
  /\ OnlyWaitersTimeOut /\ NoLostWakeup

(* Permits are taken only when there are some.                             *)
Floor == Value >= 0 => counter >= 0

(* The inductive invariant: but for the floor, the properties need nothing *)
(* more than each other.                                                   *)
IInv == Floor /\ Kept

(* What the steps have in common: at most one greenlet changes its place.  *)
Moves(g, to) == place' = [place EXCEPT ![g] = to]

LEMMA SetsFinite ==
  ASSUME SemaphoreAssumption, TypeOK
  PROVE  /\ IsFiniteSet(waiters) /\ Cardinality(waiters) \in Nat
         /\ IsFiniteSet(Inside) /\ Cardinality(Inside) \in Nat
<1>1. waiters \subseteq Greenlet /\ Inside \subseteq Greenlet
  BY DEF TypeOK, Inside
<1> QED
  BY <1>1, FS_Subset, FS_CardinalityType DEF SemaphoreAssumption

(* A greenlet that gets a permit is one more inside, one that gives its    *)
(* permit back is one less.                                                *)
LEMMA MoveIn ==
  ASSUME SemaphoreAssumption,
         TypeOK, NEW g \in Greenlet, place[g] # "in", Moves(g, "in")
  PROVE  Cardinality(Inside') = Cardinality(Inside) + 1
<1>1. Inside' = Inside \cup {g} /\ g \notin Inside
  BY DEF TypeOK, Moves, Inside
<1> QED
  BY <1>1, SetsFinite, FS_AddElement

LEMMA MoveOut ==
  ASSUME SemaphoreAssumption,
         TypeOK, NEW g \in Greenlet, place[g] = "in", Moves(g, "out")
  PROVE  Cardinality(Inside') = Cardinality(Inside) - 1
<1>1. Inside' = Inside \ {g} /\ g \in Inside
  BY DEF TypeOK, Moves, Inside
<1> QED
  BY <1>1, SetsFinite, FS_RemoveElement

(* The end of a wait takes the greenlet out of the waiters.                *)
LEMMA FinWaiters ==
  ASSUME SemaphoreAssumption, IInv, NEW g \in Greenlet, place[g] = "waiting",
         NEW to \in {"in", "out"}, Fin(g, to)
  PROVE  /\ Moves(g, to) /\ g \in waiters
         /\ WaitersAreWaiting' /\ OnlyWaitersTimeOut'
         /\ waiters' \in SUBSET Greenlet /\ armed' \in SUBSET Greenlet
         /\ place' \in [Greenlet -> {"out", "waiting", "in"}]
         /\ Cardinality(waiters') = Cardinality(waiters) - 1
<1>1. /\ armed' = armed \ {g} /\ waiters' = waiters \ {g} /\ Moves(g, to)
      /\ place \in [Greenlet -> {"out", "waiting", "in"}]
      /\ waiters \in SUBSET Greenlet /\ armed \in SUBSET Greenlet /\ armed \subseteq waiters
      /\ waiters = {h \in Greenlet : place[h] = "waiting"}
  BY DEF Fin, Moves, IInv, Kept, TypeOK, OnlyWaitersTimeOut, WaitersAreWaiting
<1>2. g \in waiters
  BY <1>1
<1>3. Cardinality(waiters') = Cardinality(waiters) - 1
  BY <1>1, <1>2, SetsFinite, FS_RemoveElement DEF IInv, Kept
<1>4. \A h \in Greenlet : place'[h] = IF h = g THEN to ELSE place[h]
  BY <1>1 DEF Moves
<1>5. WaitersAreWaiting'
  BY <1>1, <1>4 DEF WaitersAreWaiting
<1> QED
  BY <1>1, <1>2, <1>3, <1>5 DEF OnlyWaitersTimeOut, Moves

(* A waiter that is switched back to either takes a permit, or nothing     *)
(* changes.                                                                *)
LEMMA WokenStep ==
  ASSUME SemaphoreAssumption,
         IInv, NEW g \in Greenlet, place[g] = "waiting", Woken(g), UNCHANGED extra
  PROVE  /\ counter' \in Int /\ waiters' \in SUBSET Greenlet /\ armed' \in SUBSET Greenlet
         /\ place' \in [Greenlet -> {"out", "waiting", "in"}]
         /\ PermitsConserved' /\ WaitersAreWaiting' /\ OnlyWaitersTimeOut'
         /\ \/ /\ counter > 0 /\ counter' = counter - 1
               /\ Cardinality(waiters') = Cardinality(waiters) - 1
            \/ counter <= 0 /\ UNCHANGED <<counter, waiters>>
<1>1. CASE counter > 0 /\ counter' = counter - 1 /\ Fin(g, "in")
  <2>1. Cardinality(Inside') = Cardinality(Inside) + 1
    BY <1>1, FinWaiters, MoveIn DEF IInv, Kept
  <2>2. Cardinality(Inside) \in Nat /\ counter \in Int /\ extra \in Nat
    BY SetsFinite DEF IInv, Kept, TypeOK
  <2>3. PermitsConserved'
    BY <1>1, <2>1, <2>2 DEF SemaphoreAssumption, IInv, Kept, PermitsConserved
  <2> QED
    BY <1>1, <2>2, <2>3, FinWaiters
<1>2. CASE counter <= 0 /\ UNCHANGED <<counter, armed, waiters, place>>
  BY <1>2 DEF IInv, Kept, TypeOK, PermitsConserved, Inside, WaitersAreWaiting, OnlyWaitersTimeOut
<1> QED
  BY <1>1, <1>2 DEF Woken

(* One more permit, and a call of _notify_waiter if somebody waits.        *)
LEMMA AnnounceStep ==
  ASSUME SemaphoreAssumption,
         IInv, notifies < MaxNotifies, counter' = counter + 1, Announce, UNCHANGED waiters
  PROVE  counter' \in Int /\ notifies' \in 0 .. MaxNotifies /\ NoLostWakeup'
<1>1. /\ Cardinality(waiters) \in Nat /\ counter \in Int /\ notifies \in Nat
      /\ notifies < MaxNotifies /\ MaxNotifies \in Nat
  BY SetsFinite DEF SemaphoreAssumption, IInv, Kept, TypeOK
<1>2. CASE waiters # {}
  BY <1>1, <1>2 DEF Announce, IInv, Kept, NoLostWakeup
<1>3. CASE waiters = {}
  <2>1. Cardinality(waiters) = 0
    BY <1>3, FS_EmptySet
  <2> QED
    BY <1>1, <1>3, <2>1 DEF Announce, NoLostWakeup
<1> QED
  BY <1>2, <1>3
-----------------------------------------------------------------------------
(* The steps, one lemma each.                                              *)
LEMMA AcquireAtOnceStep ==
  ASSUME SemaphoreAssumption, IInv, NEW g \in Greenlet, AcquireAtOnce(g)
  PROVE  Kept'
<1>1. /\ Moves(g, "in") /\ place[g] = "out" /\ counter > 0 /\ counter' = counter - 1
      /\ UNCHANGED <<waiters, notifies, armed, extra>>
      /\ counter \in Int /\ notifies \in Nat /\ Cardinality(waiters) \in Nat
      /\ place \in [Greenlet -> {"out", "waiting", "in"}]
      /\ Cardinality(Inside) \in Nat /\ extra \in Nat
  BY SetsFinite DEF SemaphoreAssumption, AcquireAtOnce, Moves, IInv, Kept, TypeOK
<1>2. Cardinality(Inside') = Cardinality(Inside) + 1
  BY <1>1, MoveIn DEF IInv, Kept
<1>3. TypeOK'
  BY <1>1 DEF IInv, Kept, TypeOK, Moves
<1>4. PermitsConserved'
  BY <1>1, <1>2 DEF SemaphoreAssumption, IInv, Kept, PermitsConserved
<1>5. WaitersAreWaiting' /\ OnlyWaitersTimeOut'
  BY <1>1 DEF IInv, Kept, WaitersAreWaiting, OnlyWaitersTimeOut, Moves
<1>6. NoLostWakeup'
  BY <1>1 DEF IInv, Kept, NoLostWakeup
<1> QED
  BY <1>3, <1>4, <1>5, <1>6 DEF IInv, Kept

LEMMA AcquireWaitsStep ==
  ASSUME SemaphoreAssumption,
         IInv, NEW g \in Greenlet, NEW timed \in BOOLEAN, AcquireWaits(g, timed)
  PROVE  Kept'
<1>1. /\ Moves(g, "waiting") /\ place[g] = "out" /\ counter <= 0
      /\ waiters' = waiters \cup {g}
      /\ armed' = armed \/ armed' = armed \cup {g}
      /\ UNCHANGED <<counter, notifies, extra>>
      /\ counter \in Int /\ notifies \in Nat
      /\ place \in [Greenlet -> {"out", "waiting", "in"}]
  BY DEF SemaphoreAssumption, AcquireWaits, Moves, IInv, Kept, TypeOK
<1>2. Inside' = Inside
  BY <1>1 DEF Inside, Moves
<1>3. TypeOK'
  BY <1>1 DEF IInv, Kept, TypeOK, Moves
<1>4. PermitsConserved'
  BY <1>1, <1>2 DEF IInv, Kept, PermitsConserved
<1>5. WaitersAreWaiting' /\ OnlyWaitersTimeOut'
  BY <1>1 DEF IInv, Kept, WaitersAreWaiting, OnlyWaitersTimeOut, Moves
<1>6. NoLostWakeup'
  BY <1>1 DEF NoLostWakeup
<1> QED
  BY <1>3, <1>4, <1>5, <1>6 DEF IInv, Kept

LEMMA ReleaseStep ==
  ASSUME SemaphoreAssumption, IInv, NEW g \in Greenlet, Release(g)
  PROVE  Kept'
<1>1. /\ Moves(g, "out") /\ place[g] = "in" /\ counter' = counter + 1
      /\ notifies < MaxNotifies /\ Announce
      /\ UNCHANGED <<waiters, armed, extra>>
      /\ counter \in Int /\ place \in [Greenlet -> {"out", "waiting", "in"}]
      /\ Cardinality(Inside) \in Nat /\ extra \in Nat
  BY SetsFinite DEF SemaphoreAssumption, Release, Moves, IInv, Kept, TypeOK
<1>2. Cardinality(Inside') = Cardinality(Inside) - 1
  BY <1>1, MoveOut DEF IInv, Kept
<1>3. counter' \in Int /\ notifies' \in 0 .. MaxNotifies /\ NoLostWakeup'
  BY <1>1, AnnounceStep
<1>4. TypeOK'
  BY <1>1, <1>3 DEF IInv, Kept, TypeOK, Moves
<1>5. PermitsConserved'
  BY <1>1, <1>2 DEF SemaphoreAssumption, IInv, Kept, PermitsConserved
<1>6. WaitersAreWaiting' /\ OnlyWaitersTimeOut'
  BY <1>1 DEF IInv, Kept, WaitersAreWaiting, OnlyWaitersTimeOut, Moves
<1> QED
  BY <1>3, <1>4, <1>5, <1>6 DEF IInv, Kept

LEMMA ReleaseByOtherStep ==
  ASSUME SemaphoreAssumption, IInv, ReleaseByOther
  PROVE  Kept'
<1>1. /\ counter' = counter + 1 /\ extra < MaxExtra /\ extra' = extra + 1
      /\ notifies < MaxNotifies /\ Announce
      /\ UNCHANGED <<waiters, armed, place>>
      /\ counter \in Int /\ extra \in Nat /\ MaxExtra \in Nat
      /\ Cardinality(Inside) \in Nat
  BY SetsFinite DEF SemaphoreAssumption, ReleaseByOther, IInv, Kept, TypeOK
<1>2. Inside' = Inside
  BY <1>1 DEF Inside
<1>3. counter' \in Int /\ notifies' \in 0 .. MaxNotifies /\ NoLostWakeup'
  BY <1>1, AnnounceStep
<1>4. TypeOK'
  BY <1>1, <1>3 DEF IInv, Kept, TypeOK
<1>5. PermitsConserved'
  BY <1>1, <1>2 DEF SemaphoreAssumption, IInv, Kept, PermitsConserved
<1>6. WaitersAreWaiting' /\ OnlyWaitersTimeOut'
  BY <1>1 DEF IInv, Kept, WaitersAreWaiting, OnlyWaitersTimeOut
<1> QED
  BY <1>3, <1>4, <1>5, <1>6 DEF IInv, Kept

LEMMA NotifyWaiterStep ==
  ASSUME SemaphoreAssumption, IInv, NotifyWaiter
  PROVE  Kept'
<1>1. /\ notifies > 0 /\ notifies' = notifies - 1 /\ extra' = extra
      /\ notifies \in 0 .. MaxNotifies /\ extra \in 0 .. MaxExtra /\ MaxNotifies \in Nat
      /\ counter \in Int /\ Cardinality(waiters) \in Nat
  BY SetsFinite DEF SemaphoreAssumption, NotifyWaiter, IInv, Kept, TypeOK
<1>2. CASE waiters # {} /\ counter > 0
  <2>1. PICK g \in waiters :
          IF place[g] = "waiting" THEN Woken(g)
          ELSE waiters' = waiters \ {g} /\ UNCHANGED <<counter, armed, place>>
    BY <1>1, <1>2 DEF NotifyWaiter
  <2>2. g \in Greenlet /\ place[g] = "waiting" /\ Woken(g)
    BY <2>1 DEF IInv, Kept, WaitersAreWaiting
  <2>3. NoLostWakeup'
    BY <1>1, <1>2, <2>2, WokenStep DEF IInv, Kept, NoLostWakeup
  <2> QED
    BY <1>1, <2>2, <2>3, WokenStep DEF IInv, Kept, TypeOK
<1>3. CASE waiters = {} \/ counter <= 0
  <2>1. UNCHANGED <<counter, armed, waiters, place>>
    BY <1>1, <1>3 DEF NotifyWaiter
  <2>2. NoLostWakeup'
    <3>1. Cardinality(waiters) = 0 \/ counter <= 0
      BY <1>3, FS_EmptySet
    <3> QED
      BY <1>1, <2>1, <3>1 DEF NoLostWakeup
  <2> QED
    BY <1>1, <2>1, <2>2
       DEF IInv, Kept, TypeOK, PermitsConserved, Inside, WaitersAreWaiting, OnlyWaitersTimeOut
<1> QED
  BY <1>1, <1>2, <1>3 DEF IInv, Kept, TypeOK

LEMMA GiveUpStep ==
  ASSUME SemaphoreAssumption,
         IInv, NEW g \in Greenlet, place[g] = "waiting", Fin(g, "out"),
         UNCHANGED <<counter, notifies, extra>>
  PROVE  Kept'
<1>1. /\ counter \in Int /\ notifies \in Nat /\ Cardinality(waiters) \in Nat
      /\ place \in [Greenlet -> {"out", "waiting", "in"}]
  BY SetsFinite DEF SemaphoreAssumption, IInv, Kept, TypeOK
<1>2. Inside' = Inside
  BY <1>1, FinWaiters DEF Inside, Moves
<1>3. PermitsConserved' /\ TypeOK'
  BY <1>2, FinWaiters DEF IInv, Kept, TypeOK, PermitsConserved
<1>4. NoLostWakeup'
  BY <1>1, FinWaiters DEF IInv, Kept, NoLostWakeup
<1> QED
  BY <1>3, <1>4, FinWaiters DEF IInv, Kept

LEMMA TimeoutStep ==
  ASSUME SemaphoreAssumption, IInv, NEW g \in Greenlet, Timeout(g) \/ Thrown(g)
  PROVE  /\ place[g] = "waiting" /\ Fin(g, "out") /\ UNCHANGED <<counter, notifies, extra>>
         /\ Kept'
<1>1. place[g] = "waiting" /\ Fin(g, "out") /\ UNCHANGED <<counter, notifies, extra>>
  BY DEF Timeout, Thrown, IInv, Kept, OnlyWaitersTimeOut, WaitersAreWaiting
<1> QED
  BY <1>1, GiveUpStep

LEMMA SpuriousSwitchStep ==
  ASSUME SemaphoreAssumption, IInv, NEW g \in Greenlet, SpuriousSwitch(g)
  PROVE  Kept'
<1>1. place[g] = "waiting" /\ Woken(g) /\ UNCHANGED <<notifies, extra>>
  BY DEF SpuriousSwitch
<1>2. counter \in Int /\ notifies \in Nat /\ Cardinality(waiters) \in Nat
  BY SetsFinite DEF SemaphoreAssumption, IInv, Kept, TypeOK
<1>3. NoLostWakeup'
  BY <1>1, <1>2, WokenStep DEF IInv, Kept, NoLostWakeup
<1> QED
  BY <1>1, <1>3, WokenStep DEF IInv, Kept, TypeOK
-----------------------------------------------------------------------------
LEMMA InitIInv ==
  ASSUME SemaphoreAssumption
  PROVE  Init => IInv
<1> SUFFICES ASSUME Init PROVE IInv
  OBVIOUS
<1>1. Inside = {} /\ waiters = {g \in Greenlet : place[g] = "waiting"}
  BY DEF Init, Inside
<1>2. Cardinality({}) = 0
  BY FS_EmptySet
<1>3. TypeOK
  BY DEF SemaphoreAssumption, Init, TypeOK
<1>4. PermitsConserved
  BY <1>1, <1>2 DEF SemaphoreAssumption, Init, PermitsConserved
<1>5. WaitersAreWaiting /\ OnlyWaitersTimeOut /\ NoLostWakeup
  BY <1>1, <1>2 DEF Init, WaitersAreWaiting, OnlyWaitersTimeOut, NoLostWakeup
<1>6. Floor
  BY DEF SemaphoreAssumption, Init, Floor
<1> QED
  BY <1>3, <1>4, <1>5, <1>6 DEF IInv, Kept

LEMMA FloorStep ==
  ASSUME SemaphoreAssumption, IInv, [Next]_vars
  PROVE  Floor'
<1>1. Floor /\ counter \in Int
  BY DEF IInv, Kept, TypeOK
<1>2. counter' = counter \/ counter' = counter + 1 \/ (counter > 0 /\ counter' = counter - 1)
  BY DEF Next, vars, AcquireAtOnce, AcquireWaits, Release, ReleaseByOther, NotifyWaiter,
         Woken, Timeout, Thrown, SpuriousSwitch
<1> QED
  BY <1>1, <1>2 DEF SemaphoreAssumption, Floor

LEMMA NextIInv ==
  ASSUME SemaphoreAssumption
  PROVE  IInv /\ [Next]_vars => IInv'
<1> SUFFICES ASSUME IInv, [Next]_vars PROVE IInv'
  OBVIOUS
<1>1. ASSUME UNCHANGED vars PROVE Kept'
  BY <1>1 DEF vars, IInv, Kept, TypeOK, PermitsConserved, Inside, WaitersAreWaiting,
              OnlyWaitersTimeOut, NoLostWakeup
<1>2. Kept'
  BY <1>1, AcquireAtOnceStep, AcquireWaitsStep, ReleaseStep, ReleaseByOtherStep,
     NotifyWaiterStep, TimeoutStep, SpuriousSwitchStep, Zenon DEF Next
<1> QED
  BY <1>2, FloorStep DEF IInv

LEMMA IInvAlways ==
  ASSUME SemaphoreAssumption
  PROVE  Spec => []IInv
BY InitIInv, NextIInv, PTL DEF Spec

(* No permit is lost or made up, however the waits end.                    *)
THEOREM SemaphoreConserves ==
  ASSUME SemaphoreAssumption
  PROVE  Spec => [](TypeOK /\ PermitsConserved)
<1>1. IInv => TypeOK /\ PermitsConserved
  BY DEF IInv, Kept
<1> QED
  BY IInvAlways, <1>1, PTL

(* Timeouts and wake-ups reach waiting greenlets only.                     *)
THEOREM WaitsEndCleanly ==
  ASSUME SemaphoreAssumption
  PROVE  Spec => [](WaitersAreWaiting /\ OnlyWaitersTimeOut)
<1>1. IInv => WaitersAreWaiting /\ OnlyWaitersTimeOut
  BY DEF IInv, Kept
<1> QED
  BY IInvAlways, <1>1, PTL

(* The wake-up calls under way suffice.                                    *)
THEOREM WakeupsKept ==
  ASSUME SemaphoreAssumption
  PROVE  Spec => []NoLostWakeup
<1>1. IInv => NoLostWakeup
  BY DEF IInv, Kept
<1> QED
  BY IInvAlways, <1>1, PTL

(* One permit and no release but by those who acquired: one greenlet       *)
(* inside at a time.                                                       *)
THEOREM LockExcludes ==
  ASSUME SemaphoreAssumption
  PROVE  Spec => []MutualExclusion
<1>1. ASSUME IInv, Value = 1, extra = 0, NEW g \in Inside, NEW h \in Inside, g # h
      PROVE  FALSE
  <2>1. /\ IsFiniteSet(Inside) /\ Cardinality(Inside) \in Nat /\ Cardinality(Inside) <= 1
    BY <1>1, SetsFinite DEF IInv, Kept, Floor, TypeOK, PermitsConserved
  <2>2. IsFiniteSet({g}) /\ Cardinality({g}) = 1
    BY FS_Singleton, Zenon
  <2>3. Cardinality({g} \cup {h}) = 2
    BY <1>1, <2>2, FS_AddElement
  <2>4. {g} \cup {h} \subseteq Inside
    OBVIOUS
  <2>5. Cardinality({g} \cup {h}) <= Cardinality(Inside)
    BY <2>1, <2>4, FS_Subset
  <2> QED
    BY <2>1, <2>3, <2>5
<1>2. IInv => MutualExclusion
  BY <1>1 DEF MutualExclusion
<1> QED
  BY IInvAlways, <1>2, PTL
-----------------------------------------------------------------------------
LEMMA WokenEnters ==
  ASSUME NEW g \in Greenlet, place[g] = "waiting", Woken(g)
  PROVE  Abstract!Enter(g) \/ UNCHANGED Abstract!vars
BY DEF Woken, Fin, Abstract!Enter, Abstract!vars

LEMMA AbstractStep ==
  ASSUME SemaphoreAssumption, IInv, [Next]_vars
  PROVE  [Abstract!Next]_(Abstract!vars)
<1>1. ASSUME NEW g \in Greenlet, AcquireAtOnce(g) PROVE Abstract!Enter(g)
  BY <1>1 DEF AcquireAtOnce, Abstract!Enter
<1>2. ASSUME NEW g \in Greenlet, NEW timed \in BOOLEAN, AcquireWaits(g, timed)
      PROVE  Abstract!Wait(g)
  BY <1>2, Zenon DEF AcquireWaits, Abstract!Wait
<1>3. ASSUME NEW g \in Greenlet, Release(g) PROVE Abstract!Leave(g)
  BY <1>3 DEF Release, Abstract!Leave
<1>4. CASE ReleaseByOther
  BY <1>4 DEF ReleaseByOther, Abstract!AddPermit, Abstract!Next
<1>5. CASE NotifyWaiter
  <2>1. (\E g \in Greenlet : place[g] = "waiting" /\ Woken(g)) \/ UNCHANGED <<counter, place>>
    <3>1. \A g \in waiters : g \in Greenlet /\ place[g] = "waiting"
      BY DEF IInv, Kept, WaitersAreWaiting
    <3> QED
      BY <1>5, <3>1, Zenon DEF NotifyWaiter
  <2>2. UNCHANGED <<counter, place>> => UNCHANGED Abstract!vars
    BY DEF Abstract!vars
  <2> QED
    BY <2>1, <2>2, WokenEnters, Zenon DEF Abstract!Next
<1>6. ASSUME NEW g \in Greenlet, Timeout(g) \/ Thrown(g) PROVE Abstract!GiveUp(g)
  BY <1>6, TimeoutStep DEF Fin, Abstract!GiveUp
<1>7. ASSUME NEW g \in Greenlet, SpuriousSwitch(g)
      PROVE  Abstract!Enter(g) \/ UNCHANGED Abstract!vars
  BY <1>7, WokenEnters DEF SpuriousSwitch
<1>8. CASE UNCHANGED vars
  BY <1>8 DEF vars, Abstract!vars
<1> QED
  BY <1>1, <1>2, <1>3, <1>4, <1>5, <1>6, <1>7, <1>8, Zenon DEF Next, Abstract!Next

(* The semaphore implements the safety part of Permits.tla: it lets in,    *)
(* makes wait and gives up only as the abstract semaphore may.             *)
THEOREM SemaphoreImplementsPermits ==
  ASSUME SemaphoreAssumption
  PROVE  Spec => Abstract!Safe
<1>1. Init => Abstract!Init
  BY DEF Init, Abstract!Init
<1>2. IInv /\ [Next]_vars => [Abstract!Next]_(Abstract!vars)
  BY AbstractStep, Zenon
<1> QED
  BY IInvAlways, <1>1, <1>2, PTL DEF Spec, Abstract!Safe
=============================================================================
