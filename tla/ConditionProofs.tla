--------------------------- MODULE ConditionProofs ---------------------------
(***************************************************************************)
(* The lock of a Condition excludes through every wait(), an RLock is its  *)
(* owner's with the right count, and notify() reaches those that wait, for *)
(* any number of greenlets and any depth of nesting.                       *)
(***************************************************************************)
EXTENDS Condition, FiniteSetTheorems, TLAPS

(* Nobody but a releaser without the lock makes up a permit.               *)
PermitsExact == permits + Cardinality(Holding) = 1 + stray

(* Where a greenlet is says how it stands to the lock.                     *)
Standing ==
  \A g \in Greenlet :
    /\ place[g] \in {"wait", "restore"} =>
         depth[g] > 0 /\ g \notin robbed /\ (reentrant => saved[g] = depth[g])
    /\ place[g] = "acquire" => depth[g] = 0
    /\ g \in robbed => place[g] = "run" /\ depth[g] > 0
    /\ place[g] = "wait" <=> waiter[g] # Nobody
    /\ ~reentrant => depth[g] <= 1

Strays == stray > 0 => ~reentrant

LockInv == TypeOK /\ PermitsExact /\ Standing /\ Strays /\ OwnerExact

IInv == LockInv /\ WaitersReachable
-----------------------------------------------------------------------------
LEMMA HoldingFinite ==
  /\ IsFiniteSet(Holding) /\ Cardinality(Holding) \in Nat
<1>1. Holding \subseteq Greenlet
  BY DEF Holding
<1> QED
  BY <1>1, FS_Subset, FS_CardinalityType, GreenletAssumption

LEMMA MoveIn ==
  ASSUME NEW g, g \notin Holding, Holding' = Holding \cup {g}
  PROVE  Cardinality(Holding') = Cardinality(Holding) + 1
  BY HoldingFinite, FS_AddElement

LEMMA MoveOut ==
  ASSUME NEW g \in Holding, Holding' = Holding \ {g}
  PROVE  Cardinality(Holding') = Cardinality(Holding) - 1
  BY HoldingFinite, FS_RemoveElement

(* What an operation of a greenlet cannot do to the others.                *)
OnlyFor(g) ==
  \A h \in Greenlet \ {g} :
    /\ place'[h] = place[h] /\ depth'[h] = depth[h] /\ saved'[h] = saved[h]
    /\ waiter'[h] = waiter[h] /\ (h \in robbed' <=> h \in robbed)

(* A greenlet comes into the blocks with a permit: for the first time, or  *)
(* back from wait().                                                       *)
LEMMA TakeStep ==
  ASSUME LockInv, UNCHANGED reentrant, NEW g \in Greenlet, OnlyFor(g), NEW n \in 1 .. MaxDepth,
         Take(g, n), place[g] # "run" \/ depth[g] = 0,
         place'[g] = "run", depth'[g] = n, ~reentrant => n = 1,
         g \notin robbed', waiter'[g] = Nobody, stray' = stray, TypeOK'
  PROVE  LockInv'
<1>1. /\ permits \in Nat /\ permits > 0 /\ permits' = permits - 1 /\ stray \in Nat
      /\ stray' = stray /\ MaxStray \in Nat
  BY BoundAssumption DEF Take, LockInv, TypeOK
<1>2. g \notin Holding /\ Holding' = Holding \cup {g}
  BY DEF OnlyFor, Holding
<1>3. PermitsExact'
  <2>1. /\ permits + Cardinality(Holding) = 1 + stray /\ Cardinality(Holding) \in Nat
        /\ Cardinality(Holding') = Cardinality(Holding) + 1
    BY <1>2, MoveIn, HoldingFinite DEF LockInv, PermitsExact
  <2> QED
    BY <1>1, <2>1 DEF PermitsExact
<1>4. Standing'
  BY DEF OnlyFor, LockInv, Standing
<1>5. OwnerExact'
  <2>1. SUFFICES ASSUME reentrant
                 PROVE  /\ Holding' = {owner'} \ {Nobody}
                        /\ \A h \in Holding' : count' = depth'[h]
                        /\ permits' = 0 <=> owner' # Nobody
    BY DEF OwnerExact
  <2>2. owner' = g /\ count' = n /\ owner = Nobody /\ Holding = {}
    BY <1>1, <2>1 DEF Take, LockInv, OwnerExact
  <2>3. stray = 0
    BY <1>1, <2>1 DEF LockInv, Strays
  <2>4. permits = 1
    BY <1>1, <2>2, <2>3, FS_EmptySet DEF LockInv, PermitsExact
  <2> QED
    BY <1>1, <1>2, <2>2, <2>4, NobodyAssumption, WaiterAssumption
<1> QED
  BY <1>1, <1>3, <1>4, <1>5 DEF LockInv, Strays

(* Steps that leave the lock and who has it alone.                         *)
LEMMA SameLock ==
  ASSUME LockInv, UNCHANGED reentrant, NEW g \in Greenlet, OnlyFor(g), UNCHANGED <<permits, owner, count, stray>>,
         g \notin Holding, ~(place'[g] = "run" /\ depth'[g] > 0 /\ g \notin robbed'),
         Standing', TypeOK'
  PROVE  LockInv'
<1>1. Holding' = Holding
  BY DEF OnlyFor, Holding
<1>2. \A h \in Holding : depth'[h] = depth[h]
  BY DEF OnlyFor, Holding
<1> QED
  BY <1>1, <1>2 DEF LockInv, PermitsExact, Strays, OwnerExact

(* The greenlet that has the lock lets go of it.                           *)
LEMMA GiveStep ==
  ASSUME LockInv, UNCHANGED reentrant, NEW g \in Greenlet, OnlyFor(g), Give, g \in Holding,
         place'[g] # "run" \/ depth'[g] = 0, stray' = stray, Standing', TypeOK'
  PROVE  LockInv'
<1>1. /\ permits \in Nat /\ permits' = permits + 1 /\ stray \in Nat /\ stray' = stray
      /\ MaxStray \in Nat
  BY BoundAssumption DEF Give, LockInv, TypeOK
<1>2. Holding' = Holding \ {g}
  BY DEF OnlyFor, Holding, TypeOK
<1>3. PermitsExact'
  <2>1. /\ permits + Cardinality(Holding) = 1 + stray /\ Cardinality(Holding) \in Nat
        /\ Cardinality(Holding') = Cardinality(Holding) - 1
    BY <1>2, MoveOut, HoldingFinite DEF LockInv, PermitsExact
  <2> QED
    BY <1>1, <2>1 DEF PermitsExact
<1>4. OwnerExact'
  <2>1. SUFFICES ASSUME reentrant
                 PROVE  /\ Holding' = {owner'} \ {Nobody}
                        /\ \A h \in Holding' : count' = depth'[h]
                        /\ permits' = 0 <=> owner' # Nobody
    BY DEF OwnerExact
  <2>2. owner' = Nobody /\ Holding = {owner} \ {Nobody}
    BY <2>1 DEF Give, LockInv, OwnerExact
  <2>3. Holding' = {}
    BY <1>2, <2>2
  <2> QED
    BY <1>1, <2>2, <2>3
<1> QED
  BY <1>1, <1>3, <1>4 DEF LockInv, Strays

(* A greenlet that has the lock left less than one permit for each stray   *)
(* release.                                                                *)
LEMMA PermitsBound ==
  ASSUME LockInv
  PROVE  /\ permits \in Nat /\ stray \in 0 .. MaxStray /\ MaxStray \in Nat
         /\ permits <= 1 + stray
         /\ Holding # {} => permits <= stray
<1>1. /\ permits \in Nat /\ stray \in 0 .. MaxStray /\ MaxStray \in Nat
      /\ Cardinality(Holding) \in Nat /\ permits + Cardinality(Holding) = 1 + stray
  BY HoldingFinite, BoundAssumption DEF LockInv, TypeOK, PermitsExact
<1>2. Holding # {} => Cardinality(Holding) # 0
  BY HoldingFinite, FS_EmptySet
<1> QED
  BY <1>1, <1>2
-----------------------------------------------------------------------------
(* The steps, one lemma each.                                              *)
LEMMA AcquireAgainStep ==
  ASSUME LockInv, UNCHANGED reentrant, NEW g \in Greenlet, AcquireAgain(g)
  PROVE  LockInv'
<1>1. /\ place[g] = "run" /\ depth[g] < MaxDepth /\ reentrant /\ owner = g
      /\ count' = count + 1 /\ depth' = [depth EXCEPT ![g] = depth[g] + 1]
      /\ UNCHANGED <<permits, owner, waiters, released, waiter, saved, place, robbed, stray>>
  BY DEF AcquireAgain, Nest, waitVars
<1>2. /\ Holding = {g} /\ count = depth[g] /\ depth[g] \in Nat /\ depth[g] > 0
      /\ MaxDepth \in Nat /\ depth'[g] = depth[g] + 1
      /\ \A h \in Greenlet \ {g} : depth'[h] = depth[h]
  BY <1>1, NobodyAssumption, WaiterAssumption, BoundAssumption DEF LockInv, OwnerExact, TypeOK, Holding
<1>3. TypeOK'
  BY <1>1, <1>2 DEF LockInv, TypeOK
<1>4. Holding' = Holding
  BY <1>1, <1>2 DEF Holding
<1>5. Standing'
  BY <1>1, <1>2 DEF LockInv, Standing
<1>6. PermitsExact' /\ Strays'
  BY <1>1, <1>4 DEF LockInv, PermitsExact, Strays
<1>7. OwnerExact'
  BY <1>1, <1>2, <1>4 DEF LockInv, OwnerExact
<1> QED
  BY <1>3, <1>5, <1>6, <1>7 DEF LockInv

(* What TakeStep asks of each way to get the lock.                         *)
LEMMA TakeTypes ==
  ASSUME TypeOK, NEW g \in Greenlet, NEW n \in 1 .. MaxDepth, Take(g, n)
  PROVE  /\ permits' \in 0 .. 1 + MaxStray
         /\ owner' \in Greenlet \cup {Nobody} /\ count' \in 0 .. MaxDepth
  BY BoundAssumption DEF Take, TypeOK

LEMMA AcquireStep ==
  ASSUME LockInv, UNCHANGED reentrant, NEW g \in Greenlet, Acquire(g)
  PROVE  LockInv'
<1>1. /\ place[g] = "run" /\ depth[g] = 0 /\ waiter[g] = Nobody
      /\ UNCHANGED <<waiters, released, waiter, saved, robbed, stray>>
      /\ g \notin robbed /\ g \notin Holding /\ TypeOK /\ 1 \in 1 .. MaxDepth
  BY BoundAssumption DEF Acquire, waitVars, LockInv, Standing, Holding
<1>2. CASE Take(g, 1) /\ Nest(g, 1) /\ UNCHANGED place
  <2>1. /\ depth' = [depth EXCEPT ![g] = 1] /\ depth' \in [Greenlet -> 0 .. MaxDepth]
        /\ depth'[g] = 1 /\ \A h \in Greenlet \ {g} : depth'[h] = depth[h]
    BY <1>1, <1>2, BoundAssumption DEF Nest, TypeOK
  <2>2. TypeOK'
    BY <1>1, <1>2, <2>1, TakeTypes DEF TypeOK
  <2>3. OnlyFor(g)
    BY <1>1, <1>2, <2>1 DEF OnlyFor
  <2> QED
    BY <1>1, <1>2, <2>1, <2>2, <2>3, TakeStep
<1>3. CASE permits = 0 /\ GoTo(g, "acquire") /\ UNCHANGED <<lockVars, depth>>
  <2>1. /\ UNCHANGED <<permits, owner, count, depth>>
        /\ place' \in [Greenlet -> {"run", "acquire", "wait", "restore"}]
        /\ place'[g] = "acquire" /\ \A h \in Greenlet \ {g} : place'[h] = place[h]
    BY <1>1, <1>3 DEF GoTo, lockVars, TypeOK
  <2>2. TypeOK' /\ OnlyFor(g)
    BY <1>1, <2>1 DEF TypeOK, OnlyFor
  <2>3. Standing'
    BY <1>1, <2>1 DEF LockInv, Standing
  <2> QED
    BY <1>1, <2>1, <2>2, <2>3, SameLock
<1> QED
  BY <1>2, <1>3 DEF Acquire

LEMMA AcquiredStep ==
  ASSUME LockInv, UNCHANGED reentrant, NEW g \in Greenlet, Acquired(g)
  PROVE  LockInv'
<1>1. /\ place[g] = "acquire" /\ depth[g] = 0 /\ waiter[g] = Nobody
      /\ UNCHANGED <<waiters, released, waiter, saved, robbed, stray>>
      /\ g \notin robbed /\ TypeOK /\ 1 \in 1 .. MaxDepth /\ Take(g, 1)
  BY BoundAssumption DEF Acquired, waitVars, LockInv, Standing
<1>2. /\ depth' \in [Greenlet -> 0 .. MaxDepth] /\ depth'[g] = 1
      /\ \A h \in Greenlet \ {g} : depth'[h] = depth[h]
  BY <1>1, BoundAssumption DEF Acquired, Nest, TypeOK
<1>3. /\ place' \in [Greenlet -> {"run", "acquire", "wait", "restore"}] /\ place'[g] = "run"
      /\ \A h \in Greenlet \ {g} : place'[h] = place[h]
  BY <1>1 DEF Acquired, GoTo, TypeOK
<1>4. TypeOK'
  BY <1>1, <1>2, <1>3, TakeTypes DEF TypeOK
<1>5. OnlyFor(g)
  BY <1>1, <1>2, <1>3 DEF OnlyFor
<1> QED
  BY <1>1, <1>2, <1>3, <1>4, <1>5, TakeStep

LEMMA AcquireEndsStep ==
  ASSUME LockInv, UNCHANGED reentrant, NEW g \in Greenlet, AcquireEnds(g)
  PROVE  LockInv'
<1>1. /\ place[g] = "acquire" /\ depth[g] = 0 /\ waiter[g] = Nobody /\ g \notin robbed
      /\ UNCHANGED <<permits, owner, count, waiters, released, waiter, saved,
                     depth, robbed, stray>>
      /\ TypeOK /\ g \notin Holding
  BY DEF AcquireEnds, lockVars, waitVars, histVars, LockInv, Standing, Holding
<1>2. /\ place' \in [Greenlet -> {"run", "acquire", "wait", "restore"}] /\ place'[g] = "run"
      /\ \A h \in Greenlet \ {g} : place'[h] = place[h]
  BY <1>1 DEF AcquireEnds, GoTo, TypeOK
<1>3. TypeOK' /\ OnlyFor(g)
  BY <1>1, <1>2 DEF TypeOK, OnlyFor
<1>4. Standing'
  BY <1>1, <1>2 DEF LockInv, Standing
<1>5. ~(place'[g] = "run" /\ depth'[g] > 0 /\ g \notin robbed')
  BY <1>1
<1> QED
  BY <1>1, <1>3, <1>4, <1>5, SameLock

(* The end of a block either counts down, gives the lock back, or finds    *)
(* that the greenlet had lost it.                                          *)
LEMMA ReleaseStep ==
  ASSUME LockInv, UNCHANGED reentrant, NEW g \in Greenlet, Release(g)
  PROVE  LockInv'
<1>1. /\ place[g] = "run" /\ depth[g] \in Nat /\ depth[g] > 0 /\ depth[g] <= MaxDepth
      /\ MaxDepth \in Nat /\ MaxStray \in Nat
      /\ UNCHANGED <<waiters, released, waiter, saved, place>>
      /\ depth' \in [Greenlet -> 0 .. MaxDepth] /\ depth'[g] = depth[g] - 1
      /\ \A h \in Greenlet \ {g} : depth'[h] = depth[h]
      /\ robbed' = IF depth[g] = 1 THEN robbed \ {g} ELSE robbed
      /\ robbed' \in SUBSET Greenlet
      /\ stray' = IF ~reentrant /\ g \in robbed THEN stray + 1 ELSE stray
      /\ stray' <= MaxStray /\ TypeOK
  BY BoundAssumption DEF Release, waitVars, Nest, LockInv, TypeOK
<1>2. OnlyFor(g)
  BY <1>1 DEF OnlyFor
<1>3. Standing'
  BY <1>1 DEF LockInv, Standing
<1>4. CASE reentrant /\ owner # g
  <2>1. UNCHANGED <<permits, owner, count, stray>>
    BY <1>1, <1>4 DEF Release, lockVars
  <2>2. g \notin Holding
    BY <1>4 DEF LockInv, OwnerExact
  <2>3. ~(place'[g] = "run" /\ depth'[g] > 0 /\ g \notin robbed')
    BY <1>1, <2>2 DEF Holding
  <2>4. TypeOK'
    BY <1>1, <2>1 DEF TypeOK
  <2> QED
    BY <1>2, <1>3, <2>1, <2>2, <2>3, <2>4, SameLock
<1>5. CASE reentrant /\ owner = g
  <2>1. g \in Holding /\ g \notin robbed /\ count = depth[g] /\ Holding = {g}
    BY <1>5, NobodyAssumption, WaiterAssumption DEF LockInv, OwnerExact, Holding
  <2>2. CASE count > 1
    <3>1. count' = count - 1 /\ UNCHANGED <<permits, owner, stray>>
      BY <1>1, <1>5, <2>2 DEF Release, GiveCounted
    <3>2. Holding' = Holding
      BY <1>1, <2>1, <2>2, <3>1 DEF Holding
    <3>3. TypeOK'
      BY <1>1, <2>1, <2>2, <3>1 DEF TypeOK
    <3>4. PermitsExact' /\ Strays'
      BY <3>1, <3>2 DEF LockInv, PermitsExact, Strays
    <3>5. OwnerExact'
      BY <1>1, <2>1, <3>1, <3>2 DEF LockInv, OwnerExact
    <3> QED
      BY <1>3, <3>3, <3>4, <3>5 DEF LockInv
  <2>3. CASE ~(count > 1)
    <3>1. Give /\ stray' = stray
      BY <1>1, <1>5, <2>3 DEF Release, GiveCounted
    <3>2. depth'[g] = 0
      BY <1>1, <2>1, <2>3
    <3>3. permits' \in 0 .. 1 + MaxStray
      BY <2>1, <3>1, PermitsBound DEF Give
    <3>4. owner' = Nobody /\ count' = 0
      BY <1>5, <3>1 DEF Give
    <3>5. TypeOK'
      BY <1>1, <3>1, <3>3, <3>4 DEF TypeOK
    <3> QED
      BY <1>2, <1>3, <2>1, <3>1, <3>2, <3>5, GiveStep
  <2> QED
    BY <2>2, <2>3
<1>6. CASE ~reentrant
  <2>1. Give /\ depth[g] = 1 /\ depth'[g] = 0
    BY <1>1, <1>6 DEF Release, GiveCounted, LockInv, Standing
  <2>2. permits' = permits + 1 /\ UNCHANGED <<owner, count>>
    BY <1>6, <2>1 DEF Give
  <2>3. CASE g \in robbed
    <3>1. stray' = stray + 1
      BY <1>1, <1>6, <2>3
    <3>2. permits' \in 0 .. 1 + MaxStray /\ stray' \in 0 .. MaxStray
      BY <1>1, <2>2, <3>1, PermitsBound
    <3>3. TypeOK'
      BY <1>1, <2>2, <3>2 DEF TypeOK
    <3>4. Holding' = Holding
      BY <1>1, <2>1, <2>3 DEF Holding
    <3>5. PermitsExact'
      BY <2>2, <3>1, <3>4, PermitsBound, HoldingFinite DEF LockInv, PermitsExact
    <3> QED
      BY <1>3, <1>6, <3>3, <3>5 DEF LockInv, Strays, OwnerExact
  <2>4. CASE g \notin robbed
    <3>1. stray' = stray /\ g \in Holding
      BY <1>1, <2>4 DEF Holding
    <3>2. permits' \in 0 .. 1 + MaxStray
      BY <2>2, <3>1, PermitsBound
    <3>3. TypeOK'
      BY <1>1, <2>2, <3>1, <3>2 DEF TypeOK
    <3> QED
      BY <1>2, <1>3, <2>1, <3>1, <3>3, GiveStep
  <2> QED
    BY <2>3, <2>4
<1> QED
  BY <1>4, <1>5, <1>6

LEMMA WaitStep ==
  ASSUME LockInv, UNCHANGED reentrant, NEW g \in Greenlet, Wait(g)
  PROVE  LockInv'
<1>1. PICK w \in Waiter \ InUse :
        /\ waiter' = [waiter EXCEPT ![g] = w]
        /\ waiters' = Append(waiters, w)
        /\ released' = released \ {w}
  BY DEF Wait
<1>2. /\ place[g] = "run" /\ g \notin robbed /\ depth[g] > 0 /\ g \in Holding
      /\ Give /\ IsOwned(g) /\ TypeOK
      /\ saved' = [saved EXCEPT ![g] = count] /\ place' = [place EXCEPT ![g] = "wait"]
      /\ UNCHANGED <<depth, robbed, stray>>
  BY DEF Wait, GoTo, histVars, Holding, LockInv
<1>3. /\ waiters' \in Seq(Waiter) /\ released' \in SUBSET Waiter
      /\ waiter' \in [Greenlet -> Waiter \cup {Nobody}]
      /\ waiter'[g] = w /\ w # Nobody
      /\ \A h \in Greenlet \ {g} : waiter'[h] = waiter[h]
  BY <1>1, <1>2, NobodyAssumption, WaiterAssumption DEF TypeOK
<1>4. /\ saved' \in [Greenlet -> 0 .. MaxDepth] /\ saved'[g] = count
      /\ place' \in [Greenlet -> {"run", "acquire", "wait", "restore"}] /\ place'[g] = "wait"
      /\ \A h \in Greenlet \ {g} : saved'[h] = saved[h] /\ place'[h] = place[h]
  BY <1>2 DEF TypeOK
<1>5. reentrant => count = depth[g]
  BY <1>2 DEF LockInv, OwnerExact
<1>6. OnlyFor(g)
  BY <1>2, <1>3, <1>4 DEF OnlyFor
<1>7. Standing'
  BY <1>2, <1>3, <1>4, <1>5 DEF LockInv, Standing
<1>8. permits' \in 0 .. 1 + MaxStray
  BY <1>2, PermitsBound DEF Give
<1>9. owner' \in Greenlet \cup {Nobody} /\ count' \in 0 .. MaxDepth
  BY <1>2, BoundAssumption DEF Give, TypeOK
<1>10. TypeOK'
  BY <1>2, <1>3, <1>4, <1>8, <1>9 DEF TypeOK
<1> QED
  BY <1>2, <1>4, <1>6, <1>7, <1>10, GiveStep

LEMMA NotifyStep ==
  ASSUME LockInv, UNCHANGED reentrant, NEW g \in Greenlet, Notify(g)
  PROVE  LockInv'
<1>1. UNCHANGED <<permits, owner, count, waiter, saved, place, depth, robbed, stray>>
  BY DEF Notify, lockVars, histVars
<1>2. PICK n \in 1 .. Len(waiters) : WakeFirst(n)
  BY DEF Notify
<1>3. waiters' \in Seq(Waiter) /\ released' \in SUBSET Waiter
  BY <1>2 DEF WakeFirst, LockInv, TypeOK
<1>4. TypeOK' /\ Standing'
  BY <1>1, <1>3 DEF LockInv, TypeOK, Standing
<1> QED
  BY <1>1, <1>4 DEF LockInv, PermitsExact, Strays, OwnerExact, Holding

(* The lock taken back, at once or after wait() has waited for it.         *)
LEMMA RestoreStep ==
  ASSUME LockInv, UNCHANGED reentrant, NEW g \in Greenlet, place[g] \in {"wait", "restore"},
         Take(g, saved[g]), GoTo(g, "run"),
         waiter' \in [Greenlet -> Waiter \cup {Nobody}], waiter'[g] = Nobody,
         \A h \in Greenlet \ {g} : waiter'[h] = waiter[h],
         UNCHANGED <<waiters, released, saved, depth, robbed, stray>>
  PROVE  LockInv'
<1>1. /\ depth[g] > 0 /\ g \notin robbed /\ (reentrant => saved[g] = depth[g])
      /\ (~reentrant => depth[g] = 1) /\ TypeOK /\ depth[g] \in 1 .. MaxDepth
  BY BoundAssumption DEF LockInv, Standing, TypeOK
<1>2. Take(g, depth[g])
  BY <1>1 DEF Take
<1>3. /\ place' \in [Greenlet -> {"run", "acquire", "wait", "restore"}] /\ place'[g] = "run"
      /\ \A h \in Greenlet \ {g} : place'[h] = place[h]
  BY <1>1 DEF GoTo, TypeOK
<1>4. OnlyFor(g)
  BY <1>3 DEF OnlyFor
<1>5. TypeOK'
  BY <1>1, <1>2, <1>3, TakeTypes DEF TypeOK
<1> QED
  BY <1>1, <1>2, <1>3, <1>4, <1>5, TakeStep

LEMMA EndOfWaitStep ==
  ASSUME LockInv, UNCHANGED reentrant, NEW g \in Greenlet, Notified(g) \/ WaitEnds(g)
  PROVE  LockInv'
<1>1. /\ place[g] = "wait" /\ Restore(g) /\ waiter' = [waiter EXCEPT ![g] = Nobody]
      /\ UNCHANGED <<waiters, released, depth, robbed, stray>>
  BY DEF Notified, WaitEnds, histVars
<1>2. /\ waiter' \in [Greenlet -> Waiter \cup {Nobody}] /\ waiter'[g] = Nobody
      /\ \A h \in Greenlet \ {g} : waiter'[h] = waiter[h]
  BY <1>1 DEF LockInv, TypeOK
<1>3. CASE Take(g, saved[g]) /\ GoTo(g, "run") /\ UNCHANGED saved
  BY <1>1, <1>2, <1>3, RestoreStep
<1>4. CASE permits = 0 /\ GoTo(g, "restore") /\ UNCHANGED <<lockVars, saved>>
  <2>1. UNCHANGED <<permits, owner, count, saved>>
    BY <1>4 DEF lockVars
  <2>2. /\ place' \in [Greenlet -> {"run", "acquire", "wait", "restore"}] /\ place'[g] = "restore"
        /\ \A h \in Greenlet \ {g} : place'[h] = place[h]
    BY <1>4 DEF GoTo, LockInv, TypeOK
  <2>3. TypeOK' /\ OnlyFor(g)
    BY <1>1, <1>2, <2>1, <2>2 DEF LockInv, TypeOK, OnlyFor
  <2>4. Standing'
    BY <1>1, <1>2, <2>1, <2>2 DEF LockInv, Standing
  <2>5. g \notin Holding
    BY <1>1 DEF Holding
  <2> QED
    BY <1>1, <2>1, <2>2, <2>3, <2>4, <2>5, SameLock
<1> QED
  BY <1>1, <1>3, <1>4 DEF Restore

LEMMA RestoredStep ==
  ASSUME LockInv, UNCHANGED reentrant, NEW g \in Greenlet, Restored(g)
  PROVE  LockInv'
<1>1. /\ place[g] = "restore" /\ Take(g, saved[g]) /\ GoTo(g, "run")
      /\ UNCHANGED <<waiters, released, waiter, saved, depth, robbed, stray>>
  BY DEF Restored, waitVars, histVars
<1>2. waiter' \in [Greenlet -> Waiter \cup {Nobody}] /\ waiter'[g] = Nobody
  BY <1>1 DEF LockInv, TypeOK, Standing
<1> QED
  BY <1>1, <1>2, RestoreStep

LEMMA RestoreEndsStep ==
  ASSUME LockInv, UNCHANGED reentrant, NEW g \in Greenlet, RestoreEnds(g)
  PROVE  LockInv'
<1>1. /\ place[g] = "restore" /\ robbed' = robbed \cup {g} /\ depth[g] > 0
      /\ UNCHANGED <<permits, owner, count, waiters, released, waiter, saved, depth, stray>>
      /\ TypeOK /\ g \notin Holding
  BY DEF RestoreEnds, lockVars, waitVars, LockInv, Standing, Holding
<1>2. /\ place' \in [Greenlet -> {"run", "acquire", "wait", "restore"}] /\ place'[g] = "run"
      /\ \A h \in Greenlet \ {g} : place'[h] = place[h]
  BY <1>1 DEF RestoreEnds, GoTo, TypeOK
<1>3. TypeOK' /\ OnlyFor(g)
  BY <1>1, <1>2 DEF TypeOK, OnlyFor
<1>4. Standing'
  BY <1>1, <1>2 DEF LockInv, Standing
<1>5. ~(place'[g] = "run" /\ depth'[g] > 0 /\ g \notin robbed')
  BY <1>1
<1> QED
  BY <1>1, <1>3, <1>4, <1>5, SameLock

LEMMA LockStep ==
  ASSUME LockInv, [Next]_vars
  PROVE  LockInv'
<1>1. ASSUME NEW g \in Greenlet, Step(g), UNCHANGED reentrant
      PROVE  LockInv'
  BY <1>1, AcquireAgainStep, AcquireStep, AcquiredStep, AcquireEndsStep, ReleaseStep,
     WaitStep, NotifyStep, EndOfWaitStep, RestoredStep, RestoreEndsStep DEF Step
<1>2. CASE UNCHANGED vars
  BY <1>2 DEF vars, lockVars, waitVars, histVars, LockInv, TypeOK, PermitsExact, Standing,
              Strays, OwnerExact, Holding
<1> QED
  BY <1>1, <1>2 DEF Next
-----------------------------------------------------------------------------
(* The waiters' list.  Most steps do not touch it.                         *)
LEMMA SameWaiters ==
  ASSUME WaitersReachable, UNCHANGED <<waiters, released>>,
         \A h \in Waiting' : h \in Waiting /\ waiter'[h] = waiter[h]
  PROVE  WaitersReachable'
  BY DEF WaitersReachable, Entries

LEMMA WaitReachable ==
  ASSUME IInv, NEW g \in Greenlet, Wait(g)
  PROVE  WaitersReachable'
<1>1. PICK w \in Waiter \ InUse :
        /\ waiter' = [waiter EXCEPT ![g] = w]
        /\ waiters' = Append(waiters, w)
        /\ released' = released \ {w}
  BY DEF Wait
<1>2. /\ waiter'[g] = w /\ \A h \in Greenlet \ {g} : waiter'[h] = waiter[h] /\ waiter[h] # w
      /\ \A i \in DOMAIN waiters : waiters[i] # w
  BY <1>1 DEF InUse, IInv, LockInv, TypeOK
<1>3. \A h \in Waiting' : h = g \/ h \in Waiting \ {g}
  BY DEF Wait, GoTo, Waiting, IInv, LockInv, TypeOK
<1>4. /\ DOMAIN waiters = 1 .. Len(waiters) /\ Len(waiters) \in Nat
      /\ DOMAIN waiters' = 1 .. Len(waiters) + 1
      /\ \A i \in 1 .. Len(waiters) : waiters'[i] = waiters[i]
      /\ waiters'[Len(waiters) + 1] = w
  BY <1>1 DEF IInv, LockInv, TypeOK
<1>5. Entries(waiters') = Entries(waiters) \cup {w}
  BY <1>4 DEF Entries
<1>6. /\ \A h \in Waiting' : (waiter'[h] \in Entries(waiters')) # (waiter'[h] \in released')
      /\ \A h, k \in Waiting' : waiter'[h] = waiter'[k] => h = k
  BY <1>1, <1>2, <1>3, <1>5 DEF IInv, WaitersReachable, Waiting
<1>7. \A i, j \in DOMAIN waiters' : waiters'[i] = waiters'[j] => i = j
  BY <1>2, <1>4 DEF IInv, WaitersReachable
<1> QED
  BY <1>6, <1>7 DEF WaitersReachable

(* The first n leave the list and are released.                            *)
LEMMA NotifyReachable ==
  ASSUME IInv, NEW g \in Greenlet, Notify(g)
  PROVE  WaitersReachable'
<1>1. PICK n \in 1 .. Len(waiters) : WakeFirst(n)
  BY DEF Notify
<1>2. /\ DOMAIN waiters = 1 .. Len(waiters) /\ Len(waiters) \in Nat /\ n \in Nat
      /\ DOMAIN waiters' = 1 .. Len(waiters) - n
      /\ \A i \in 1 .. Len(waiters) - n : waiters'[i] = waiters[n + i]
  BY <1>1 DEF WakeFirst, IInv, LockInv, TypeOK
<1>3. released' = released \cup {waiters[i] : i \in 1 .. n}
  BY <1>1 DEF WakeFirst
<1>4. \A i, j \in 1 .. Len(waiters) : waiters[i] = waiters[j] => i = j
  BY <1>2 DEF IInv, WaitersReachable
<1>5. /\ Entries(waiters') = {waiters[i] : i \in (n + 1) .. Len(waiters)}
      /\ Entries(waiters) = {waiters[i] : i \in 1 .. Len(waiters)}
  <2>1. \A i \in (n + 1) .. Len(waiters) :
          i - n \in 1 .. Len(waiters) - n /\ n + (i - n) = i
    BY <1>2
  <2>2. \A i \in 1 .. Len(waiters) - n : n + i \in (n + 1) .. Len(waiters)
    BY <1>2
  <2>3. Entries(waiters') = {waiters[n + i] : i \in 1 .. Len(waiters) - n}
    BY <1>2 DEF Entries
  <2>4. {waiters[n + i] : i \in 1 .. Len(waiters) - n}
          = {waiters[i] : i \in (n + 1) .. Len(waiters)}
    BY <2>1, <2>2
  <2>5. Entries(waiters) = {waiters[i] : i \in 1 .. Len(waiters)}
    BY <1>2 DEF Entries
  <2> QED
    BY <2>3, <2>4, <2>5
<1>6. \A w : (w \in Entries(waiters)) # (w \in released)
              => (w \in Entries(waiters')) # (w \in released')
  <2>1. (1 .. n) \cup ((n + 1) .. Len(waiters)) = 1 .. Len(waiters)
    BY <1>2
  <2>2. \A i \in 1 .. n, j \in (n + 1) .. Len(waiters) : waiters[i] # waiters[j]
    BY <1>2, <1>4, <2>1
  <2> QED
    BY <1>3, <1>5, <2>1, <2>2
<1>7. Waiting' = Waiting /\ waiter' = waiter
  BY DEF Notify, Waiting
<1>8. \A i, j \in DOMAIN waiters' : waiters'[i] = waiters'[j] => i = j
  BY <1>2, <1>4
<1> QED
  BY <1>6, <1>7, <1>8 DEF IInv, WaitersReachable

LEMMA StepHolds ==
  ASSUME IInv, [Next]_vars
  PROVE  IInv'
<1>1. LockInv'
  BY LockStep DEF IInv
<1>2. ASSUME NEW g \in Greenlet, Step(g)
      PROVE  WaitersReachable'
  <2>1. CASE Wait(g)
    BY <2>1, WaitReachable
  <2>2. CASE Notify(g)
    BY <2>2, NotifyReachable
  <2>3. CASE AcquireAgain(g) \/ Release(g)
    <3>1. UNCHANGED <<waiters, released, waiter, place>>
      BY <2>3 DEF AcquireAgain, Release, waitVars
    <3> QED
      BY <3>1, SameWaiters DEF IInv, Waiting
  <2>4. CASE Acquire(g) \/ Acquired(g) \/ AcquireEnds(g)
    <3>1. UNCHANGED <<waiters, released, waiter>>
      BY <2>4 DEF Acquire, Acquired, AcquireEnds, waitVars
    <3>2. \A h \in Greenlet : place'[h] = "wait" => place[h] = "wait"
      BY <2>4 DEF Acquire, Acquired, AcquireEnds, GoTo, IInv, LockInv, TypeOK
    <3> QED
      BY <3>1, <3>2, SameWaiters DEF IInv, Waiting
  <2>5. CASE Notified(g) \/ WaitEnds(g)
    <3>1. /\ UNCHANGED <<waiters, released>> /\ waiter' = [waiter EXCEPT ![g] = Nobody]
          /\ GoTo(g, "run") \/ GoTo(g, "restore")
      BY <2>5 DEF Notified, WaitEnds, Restore
    <3>2. \A h \in Waiting' : h \in Waiting /\ waiter'[h] = waiter[h]
      BY <3>1 DEF GoTo, Waiting, IInv, LockInv, TypeOK
    <3> QED
      BY <3>1, <3>2, SameWaiters DEF IInv
  <2>6. CASE Restored(g) \/ RestoreEnds(g)
    <3>1. UNCHANGED <<waiters, released, waiter>> /\ GoTo(g, "run")
      BY <2>6 DEF Restored, RestoreEnds, waitVars
    <3>2. \A h \in Waiting' : h \in Waiting
      BY <3>1 DEF GoTo, Waiting, IInv, LockInv, TypeOK
    <3> QED
      BY <3>1, <3>2, SameWaiters DEF IInv
  <2> QED
    BY <1>2, <2>1, <2>2, <2>3, <2>4, <2>5, <2>6 DEF Step
<1>3. CASE UNCHANGED vars
  <2>1. UNCHANGED <<waiters, released, waiter, place>>
    BY <1>3 DEF vars, waitVars
  <2>2. WaitersReachable'
    BY <2>1, SameWaiters DEF IInv, Waiting
  <2> QED
    BY <1>1, <2>2 DEF IInv
<1> QED
  BY <1>1, <1>2, <1>3 DEF IInv, Next

LEMMA InitHolds ==
  ASSUME Init
  PROVE  IInv
<1>1. TypeOK /\ Standing /\ Strays
  BY BoundAssumption DEF Init, TypeOK, Standing, Strays
<1>2. Holding = {} /\ Waiting = {}
  BY DEF Init, Holding, Waiting
<1>3. PermitsExact /\ OwnerExact
  BY <1>2, FS_EmptySet DEF Init, PermitsExact, OwnerExact
<1>4. WaitersReachable
  BY <1>2 DEF Init, WaitersReachable
<1> QED
  BY <1>1, <1>3, <1>4 DEF IInv, LockInv

LEMMA Inductive == Spec => []IInv
<1>1. Init => IInv
  BY InitHolds
<1>2. IInv /\ [Next]_vars => IInv'
  BY StepHolds
<1> QED
  BY <1>1, <1>2, PTL DEF Spec

(* rlock_acquire, rlock_release, _release_save and _acquire_restore keep   *)
(* owner and count to the greenlet in the blocks, waits included.          *)
THEOREM OwnerIsExact == Spec => [](TypeOK /\ OwnerExact)
<1>1. IInv => TypeOK /\ OwnerExact
  BY DEF IInv, LockInv
<1> QED
  BY <1>1, Inductive, PTL

(* One greenlet at a time is in the blocks of a Condition's lock.          *)
THEOREM LockExcludes == Spec => []Exclusion
<1>1. ASSUME IInv
      PROVE  Exclusion
  <2>1. CASE reentrant
    BY <1>1, <2>1 DEF IInv, LockInv, OwnerExact, Exclusion
  <2>2. CASE stray = 0
    <3>1. SUFFICES ASSUME NEW g \in Holding, NEW h \in Holding, g # h
                   PROVE  FALSE
      BY <2>2 DEF Exclusion
    <3>2. /\ IsFiniteSet({g, h}) /\ Cardinality({g, h}) = 2
          /\ Cardinality({g, h}) <= Cardinality(Holding)
      <4>1. IsFiniteSet({g}) /\ Cardinality({g}) = 1
        BY FS_Singleton
      <4>2. IsFiniteSet({g} \cup {h}) /\ Cardinality({g} \cup {h}) = 2
        BY <3>1, <4>1, FS_AddElement
      <4>3. {g} \cup {h} = {g, h} /\ {g, h} \subseteq Holding
        OBVIOUS
      <4> QED
        BY <4>2, <4>3, HoldingFinite, FS_Subset
    <3> QED
      BY <1>1, <2>2, <3>2, PermitsBound, HoldingFinite DEF IInv, LockInv, PermitsExact
  <2> QED
    BY <2>1, <2>2 DEF Exclusion
<1> QED
  BY <1>1, Inductive, PTL

(* Whoever waits and is not notified yet is in the list that notify()      *)
(* works on, under a semaphore of its own.                                 *)
THEOREM NotifyReachesWaiters == Spec => []WaitersReachable
<1>1. IInv => WaitersReachable
  BY DEF IInv
<1> QED
  BY <1>1, Inductive, PTL
-----------------------------------------------------------------------------
(* The monitor.  A permit of an RLock means that nobody has it.            *)
LEMMA FreeToTake ==
  ASSUME IInv, reentrant, NEW g, NEW n, Take(g, n)
  PROVE  owner = Nobody /\ owner' = g
<1>1. permits > 0 /\ permits \in Nat /\ owner' = g
  BY BoundAssumption DEF Take, IInv, LockInv, TypeOK
<1> QED
  BY <1>1 DEF IInv, LockInv, OwnerExact

(* Steps that concern the lock only.                                       *)
LEMMA SameSets ==
  ASSUME UNCHANGED <<released, waiter>>,
         \A h \in Greenlet : (place'[h] = "wait") <=> (place[h] = "wait"),
         \A h \in Greenlet : (place'[h] = "restore") <=> (place[h] = "restore")
  PROVE  UNCHANGED <<Unnotified, Returning>>
<1>1. ASSUME NEW h \in Greenlet
      PROVE  /\ h \in Waiting' <=> h \in Waiting
             /\ h \in Unnotified' <=> h \in Unnotified
             /\ h \in Returning' <=> h \in Returning
  <2>1. h \in Waiting' <=> h \in Waiting
    BY DEF Waiting
  <2>2. h \in Unnotified' <=> h \in Unnotified
    BY <2>1 DEF Unnotified, Waiting
  <2>3. h \in Returning' <=> h \in Returning
    BY <2>1, <2>2 DEF Returning
  <2> QED
    BY <2>1, <2>2, <2>3
<1>2. /\ Unnotified' \subseteq Greenlet /\ Unnotified \subseteq Greenlet
      /\ Returning' \subseteq Greenlet /\ Returning \subseteq Greenlet
  BY DEF Returning, Unnotified, Waiting
<1> QED
  BY <1>1, <1>2

LEMMA WaitIsWait ==
  ASSUME IInv, reentrant, UNCHANGED reentrant, NEW g \in Greenlet, Wait(g)
  PROVE  Abstract!Wait
<1>1. PICK w \in Waiter \ InUse :
        waiter' = [waiter EXCEPT ![g] = w] /\ released' = released \ {w}
  BY DEF Wait
<1>2. /\ owner = g /\ owner' = Nobody /\ place[g] = "run"
      /\ place' = [place EXCEPT ![g] = "wait"]
  BY DEF Wait, IsOwned, Give, GoTo
<1>3. /\ place'[g] = "wait" /\ waiter'[g] \notin released'
      /\ \A h \in Greenlet \ {g} :
           /\ place'[h] = place[h] /\ waiter'[h] = waiter[h]
           /\ waiter[h] \in released' <=> waiter[h] \in released
  BY <1>1, <1>2 DEF InUse, IInv, LockInv, TypeOK
<1>4. Unnotified' = Unnotified \cup {g}
  BY <1>2, <1>3 DEF Unnotified, Waiting
<1>5. Returning' = Returning
  BY <1>2, <1>3 DEF Returning, Unnotified, Waiting
<1> QED
  BY <1>2, <1>4, <1>5, NobodyAssumption, WaiterAssumption DEF Abstract!Wait

LEMMA NotifyIsNotify ==
  ASSUME IInv, reentrant, UNCHANGED reentrant, NEW g \in Greenlet, Notify(g)
  PROVE  Abstract!Notify
<1>1. owner = g /\ UNCHANGED <<owner, place, waiter>>
  BY DEF Notify, IsOwned, lockVars
<1>2. released \subseteq released'
  BY DEF Notify, WakeFirst
<1> DEFINE woken == {h \in Unnotified : waiter[h] \in released'}
<1>3. Unnotified' = Unnotified \ woken
  BY <1>1, <1>2 DEF Unnotified, Waiting
<1>4. Returning' = Returning \cup woken
  BY <1>1, <1>2 DEF Returning, Unnotified, Waiting
<1>5. woken \in SUBSET Unnotified
  OBVIOUS
<1> QED
  BY <1>1, <1>3, <1>4, <1>5, NobodyAssumption, WaiterAssumption DEF Abstract!Notify

(* The end of a wait, and the return from it.                              *)
LEMMA EndIsReturn ==
  ASSUME IInv, reentrant, UNCHANGED reentrant, NEW g \in Greenlet, Notified(g) \/ WaitEnds(g)
  PROVE  Abstract!GiveUp(g) \/ Abstract!Return(g) \/ UNCHANGED Abstract!vars
<1>1. /\ place[g] = "wait" /\ Restore(g) /\ waiter' = [waiter EXCEPT ![g] = Nobody]
      /\ UNCHANGED released
  BY DEF Notified, WaitEnds
<1>2. \A h \in Greenlet \ {g} : waiter'[h] = waiter[h]
  BY <1>1 DEF IInv, LockInv, TypeOK
<1>3. g \in Unnotified \/ g \in Returning
  BY <1>1 DEF Returning, Unnotified, Waiting
<1>4. Unnotified \cap Returning = {}
  BY DEF Returning, Unnotified, Waiting
<1>5. CASE Take(g, saved[g]) /\ GoTo(g, "run")
  <2>1. owner = Nobody /\ owner' = g
    BY <1>5, FreeToTake
  <2>2. place'[g] = "run" /\ \A h \in Greenlet \ {g} : place'[h] = place[h]
    BY <1>5 DEF GoTo, IInv, LockInv, TypeOK
  <2>3. Unnotified' = Unnotified \ {g}
    BY <1>1, <1>2, <2>2 DEF Unnotified, Waiting
  <2>4. Returning' = Returning \ {g}
    BY <1>1, <1>2, <2>2 DEF Returning, Unnotified, Waiting
  <2> QED
    BY <1>3, <1>4, <2>1, <2>3, <2>4 DEF Abstract!GiveUp, Abstract!Return
<1>6. CASE permits = 0 /\ GoTo(g, "restore") /\ UNCHANGED <<lockVars, saved>>
  <2>1. owner # Nobody /\ owner' = owner
    BY <1>6 DEF lockVars, IInv, LockInv, OwnerExact
  <2>2. place'[g] = "restore" /\ \A h \in Greenlet \ {g} : place'[h] = place[h]
    BY <1>6 DEF GoTo, IInv, LockInv, TypeOK
  <2>3. Unnotified' = Unnotified \ {g}
    BY <1>1, <1>2, <2>2 DEF Unnotified, Waiting
  <2>4. Returning' = Returning \cup {g}
    BY <1>1, <1>2, <2>2 DEF Returning, Unnotified, Waiting
  <2>5. CASE g \in Unnotified
    BY <2>1, <2>3, <2>4, <2>5 DEF Abstract!GiveUp
  <2>6. CASE g \in Returning
    BY <1>4, <2>1, <2>3, <2>4, <2>6 DEF Abstract!vars
  <2> QED
    BY <1>3, <2>5, <2>6
<1> QED
  BY <1>1, <1>5, <1>6 DEF Restore

LEMMA StepIsStep ==
  ASSUME IInv, reentrant, UNCHANGED reentrant, NEW g \in Greenlet, Step(g)
  PROVE  [Abstract!Next]_(Abstract!vars)
<1>1. place \in [Greenlet -> {"run", "acquire", "wait", "restore"}]
  BY DEF IInv, LockInv, TypeOK
<1>2. CASE AcquireAgain(g)
  <2>1. UNCHANGED <<owner, released, waiter, place>>
    BY <1>2 DEF AcquireAgain, waitVars
  <2> QED
    BY <2>1, SameSets DEF Abstract!vars
<1>3. CASE Acquire(g) \/ Acquired(g) \/ AcquireEnds(g)
  <2>1. /\ UNCHANGED <<released, waiter>> /\ place[g] \in {"run", "acquire"}
        /\ \/ GoTo(g, "run") \/ GoTo(g, "acquire") \/ UNCHANGED place
        /\ Take(g, 1) \/ UNCHANGED owner
    BY <1>3 DEF Acquire, Acquired, AcquireEnds, waitVars, lockVars
  <2>2. UNCHANGED <<Unnotified, Returning>>
    BY <1>1, <2>1, SameSets DEF GoTo
  <2>3. g \notin Unnotified \cup Returning
    BY <2>1 DEF Unnotified, Returning, Waiting
  <2>4. CASE Take(g, 1)
    BY <2>2, <2>3, <2>4, FreeToTake DEF Abstract!Next, Abstract!Enter
  <2>5. CASE UNCHANGED owner
    BY <2>2, <2>5 DEF Abstract!vars
  <2> QED
    BY <2>1, <2>4, <2>5
<1>4. CASE Release(g)
  <2>1. /\ UNCHANGED <<released, waiter, place>>
        /\ UNCHANGED owner \/ (owner = g /\ owner' = Nobody)
    BY <1>4 DEF Release, GiveCounted, Give, waitVars, lockVars
  <2>2. UNCHANGED <<Unnotified, Returning>>
    BY <2>1, SameSets
  <2> QED
    BY <2>1, <2>2, NobodyAssumption, WaiterAssumption DEF Abstract!Next, Abstract!Exit, Abstract!vars
<1>5. CASE Wait(g)
  BY <1>5, WaitIsWait DEF Abstract!Next
<1>6. CASE Notify(g)
  BY <1>6, NotifyIsNotify DEF Abstract!Next
<1>7. CASE Notified(g) \/ WaitEnds(g)
  BY <1>7, EndIsReturn DEF Abstract!Next
<1>8. CASE Restored(g) \/ RestoreEnds(g)
  <2>1. /\ UNCHANGED <<released, waiter>> /\ place[g] = "restore" /\ GoTo(g, "run")
        /\ Take(g, saved[g]) \/ UNCHANGED owner
    BY <1>8 DEF Restored, RestoreEnds, waitVars, lockVars
  <2>2. place'[g] = "run" /\ \A h \in Greenlet \ {g} : place'[h] = place[h]
    BY <1>1, <2>1 DEF GoTo
  <2>3. Unnotified' = Unnotified
    BY <2>1, <2>2 DEF Unnotified, Waiting
  <2>4. Returning' = Returning \ {g} /\ g \in Returning
    BY <2>1, <2>2 DEF Returning, Unnotified, Waiting
  <2>5. CASE Take(g, saved[g])
    BY <2>3, <2>4, <2>5, FreeToTake DEF Abstract!Next, Abstract!Return
  <2>6. CASE UNCHANGED owner
    BY <2>3, <2>4, <2>6 DEF Abstract!Next, Abstract!Abandon
  <2> QED
    BY <2>1, <2>5, <2>6
<1> QED
  BY <1>2, <1>3, <1>4, <1>5, <1>6, <1>7, <1>8 DEF Step

(* A Lock leaves the owner alone.                                          *)
LEMMA LockHasNoOwner ==
  ASSUME ~reentrant, UNCHANGED reentrant, NEW g \in Greenlet, Step(g)
  PROVE  UNCHANGED owner
<1>1. CASE AcquireAgain(g)
  BY <1>1 DEF AcquireAgain
<1>2. CASE Acquire(g) \/ Acquired(g) \/ AcquireEnds(g) \/ Release(g)
  BY <1>2 DEF Acquire, Acquired, AcquireEnds, Release, GiveCounted, Give, Take, lockVars
<1>3. CASE Wait(g) \/ Notify(g) \/ Notified(g) \/ WaitEnds(g)
  BY <1>3 DEF Wait, Notify, Notified, WaitEnds, Restore, Give, Take, lockVars
<1>4. CASE Restored(g) \/ RestoreEnds(g)
  BY <1>4 DEF Restored, RestoreEnds, Take, lockVars
<1> QED
  BY <1>1, <1>2, <1>3, <1>4 DEF Step

(* A Condition on an RLock is a monitor: what wait() gives up and takes    *)
(* back, and whom notify() wakes, is what Monitor.tla says.                *)
THEOREM ConditionIsMonitor == Spec => ImplementsMonitor
<1>1. Init => Abstract!Init
  BY DEF Init, Abstract!Init, Unnotified, Returning, Waiting
<1>2. IInv /\ [Next]_vars => [Abstract!Next]_(Abstract!vars)
  <2>1. SUFFICES ASSUME IInv, [Next]_vars
                 PROVE  [Abstract!Next]_(Abstract!vars)
    OBVIOUS
  <2>2. CASE Next /\ reentrant
    BY <2>1, <2>2, StepIsStep DEF Next
  <2>3. CASE Next /\ ~reentrant
    BY <2>1, <2>3, LockHasNoOwner DEF Next, Abstract!vars
  <2>4. CASE UNCHANGED vars
    <3>1. UNCHANGED <<reentrant, owner, released, waiter, place>>
      BY <2>4 DEF vars, lockVars, waitVars
    <3> QED
      BY <3>1, SameSets DEF Abstract!vars
  <2> QED
    BY <2>1, <2>2, <2>3, <2>4
<1> QED
  BY <1>1, <1>2, Inductive, PTL DEF Spec, ImplementsMonitor, Abstract!Spec
=============================================================================
