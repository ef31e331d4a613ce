---------------------------- MODULE ExecutorProofs ----------------------------
(***************************************************************************)
(* The executor and its futures, for any number of greenlets, futures,     *)
(* callbacks and limits: no item is stranded, a callback is scheduled      *)
(* once, and result() goes on when there is a result.  And what has no     *)
(* actors: the heap of src/heapq.c, for all timers; and of c-ares the      *)
(* names that ares_expand_name reads, for every message, and ares_mkquery  *)
(* writes, for every text, the addresses that it takes from a reply and    *)
(* sorts, for every conforming reply and sort list, what lookups find      *)
(* without servers, for every world, and the settings of a channel and of  *)
(* its duplicate, for all surroundings.  They share the lemmas on counting *)
(* up a loop.                                                              *)
(***************************************************************************)
EXTENDS Executor, HeapQueue, Messages, Settings, Lookups,
        FiniteSetTheorems, SequenceTheorems, WellFoundedInduction, TLAPS

(* Clients, workers and the loop's greenlet are different greenlets, none  *)
(* of them is a future, and the workers can be counted.                    *)
Separate ==
  /\ Client \cap Worker = {} /\ Loop \notin Client \cup Worker \cup Future
  /\ IsFiniteSet(Worker)

Places ==
  {"none", "away", "run", "result", "back", "fresh", "next", "idle", "fn", "parked", "over", "dead"}
States == {"new", "PENDING", "CANCELLED", "FINISHED"}

TypeOK ==
  /\ max_workers \in Nat /\ cut \in Nat /\ alive \in BOOLEAN /\ pendings \in Seq(Future)
  /\ state \in [Future -> States]
  /\ callbacks \in [Future -> SUBSET Callback]
  /\ calls \in [Future -> [Callback -> Nat]]
  /\ waiters \in [Future -> SUBSET Client]
  /\ place \in [Greenlet -> Places]
  /\ on \in [Greenlet -> Future \cup {Loop}]

(* Who is in back_waiter() is there for a future that has its result, and  *)
(* who runs a function has one.                                            *)
HasFuture ==
  \A g \in Greenlet :
    /\ place[g] = "back" => on[g] \in settled
    /\ place[g] \in {"fn", "parked", "back"} => on[g] \in Future

(* A callback that is in the list has not been scheduled.                  *)
Uncalled ==
  \A f \in Future, k \in Callback : k \in callbacks[f] => calls[f][k] = 0

(* The items go with the executor.                                         *)
Dropped == alive = FALSE => pendings = <<>>

IInv == TypeOK /\ HasFuture /\ Uncalled /\ CallbacksOnce /\ ItemsCovered /\ Dropped

(* The workers that will look for an item.                                 *)
Coming == {w \in Worker : place[w] \in {"fresh", "next"}}
-----------------------------------------------------------------------------
LEMMA InitIInv == ASSUME Separate, Init PROVE IInv
<1> USE DEF Init, Greenlet, Separate
<1>1. TypeOK
  BY LimitsAssumption DEF TypeOK, Places, States
<1>2. HasFuture
  BY DEF HasFuture
<1>3. Uncalled /\ CallbacksOnce /\ Dropped
  BY DEF Uncalled, CallbacksOnce, Dropped
<1>4. ItemsCovered
  <2>1. Coming \subseteq Worker
    BY DEF Coming
  <2>2. Cardinality(Coming) \in Nat
    BY <2>1, FS_Subset, FS_CardinalityType
  <2>3. Len(pendings) = 0
    OBVIOUS
  <2> QED
    BY <2>2, <2>3 DEF ItemsCovered, Coming
<1> QED
  BY <1>1, <1>2, <1>3, <1>4 DEF IInv
-----------------------------------------------------------------------------
(* What a switch does to the places: the greenlet that is resumed is where *)
(* it was, or goes on; nobody comes into back_waiter() by it.              *)
LEMMA SwitchMoves ==
  ASSUME TypeOK, HasFuture, NEW v, SwitchTo(v), settled' = settled
  PROVE  /\ place' \in [Greenlet -> Places]
         /\ on' \in [Greenlet -> Future \cup {Loop}]
         /\ HasFuture'
         /\ Coming \subseteq Coming'
<1>1. place' \in [Greenlet -> Places] /\ on' \in [Greenlet -> Future \cup {Loop}]
  BY DEF SwitchTo, Resumed, TypeOK, Places
<1>2. \A g \in Greenlet : /\ place'[g] = IF g = v THEN Resumed(place[g]) ELSE place[g]
                          /\ on'[g] = IF g = v /\ place[g] = "result" THEN Loop ELSE on[g]
  BY DEF SwitchTo, TypeOK
<1>3. HasFuture'
  BY <1>2 DEF HasFuture, Resumed
<1>4. Coming \subseteq Coming'
  BY <1>2 DEF Coming, Resumed, Greenlet
<1> QED
  BY <1>1, <1>3, <1>4

(* The callbacks of a future go from the list into the loop's queue.       *)
LEMMA CallbacksAreCalled ==
  ASSUME TypeOK, Uncalled, CallbacksOnce, NEW f \in Future, CallCallbacks(f),
         state' \in [Future -> States],
         \A e \in Future : e # f => state'[e] = state[e]
  PROVE  /\ calls' \in [Future -> [Callback -> Nat]]
         /\ callbacks' \in [Future -> SUBSET Callback]
         /\ Uncalled' /\ CallbacksOnce'
<1>1. /\ calls' \in [Future -> [Callback -> Nat]]
      /\ callbacks' \in [Future -> SUBSET Callback]
  BY DEF CallCallbacks, TypeOK
<1>2. \A e \in Future : callbacks'[e] = IF e = f THEN {} ELSE callbacks[e]
  BY DEF CallCallbacks, TypeOK
<1>3. \A e \in Future, k \in Callback :
        calls'[e][k] = IF e = f /\ k \in callbacks[e] THEN calls[e][k] + 1 ELSE calls[e][k]
  BY DEF CallCallbacks, TypeOK
<1>4. Uncalled'
  BY <1>2, <1>3 DEF Uncalled
<1>5. \A e \in Future, k \in Callback : calls'[e][k] <= 1
  <2> SUFFICES ASSUME NEW e \in Future, NEW k \in Callback PROVE calls'[e][k] <= 1
    OBVIOUS
  <2>1. calls[e][k] \in Nat /\ calls[e][k] <= 1
    BY DEF TypeOK, CallbacksOnce
  <2> QED
    BY <1>3, <2>1 DEF Uncalled
<1>6. \A e \in Future : state'[e] \in {"CANCELLED", "FINISHED"} => callbacks'[e] = {}
  BY <1>2 DEF CallbacksOnce
<1>7. CallbacksOnce'
  BY <1>5, <1>6 DEF CallbacksOnce
<1> QED
  BY <1>1, <1>4, <1>7

(* What no worker that will look for an item is lost by.                   *)
LEMMA CoverageKept ==
  ASSUME Separate, TypeOK, ItemsCovered,
         UNCHANGED <<pendings, cut, max_workers>>, Coming \subseteq Coming'
  PROVE  ItemsCovered'
<1>1. Coming' \subseteq Worker /\ Coming \subseteq Worker
  BY DEF Coming
<1>2. IsFiniteSet(Coming')
  BY <1>1, FS_Subset DEF Separate
<1>3. Cardinality(Coming) <= Cardinality(Coming') /\ Cardinality(Coming') \in Nat /\ Cardinality(Coming) \in Nat
  BY <1>1, <1>2, FS_Subset, FS_CardinalityType DEF Separate
<1> QED
  BY <1>3 DEF ItemsCovered, Coming, TypeOK
-----------------------------------------------------------------------------
(* Each part of the invariant, and the actions that can disturb it.        *)
LEMMA TypeStep ==
  ASSUME Separate, IInv, [Next]_vars
  PROVE  TypeOK'
<1> USE DEF IInv
<1>1. ASSUME NEW g \in Greenlet, NEW f \in Future, Submit(g, f) PROVE TypeOK'
  <2>1. place' \in [Greenlet -> Places]
    BY <1>1 DEF Submit, AdjustThreadCount, TypeOK, Places
  <2>2. state' \in [Future -> States] /\ pendings' \in Seq(Future)
    BY <1>1 DEF Submit, NewFuture, TypeOK, States
  <2> QED
    BY <1>1, <2>1, <2>2 DEF Submit, NewFuture, TypeOK
<1>2. ASSUME NEW g \in Greenlet, NEW f \in Future, Cancel(g, f) PROVE TypeOK'
  <2>1. state' \in [Future -> States] /\ \A e \in Future : e # f => state'[e] = state[e]
    BY <1>2 DEF Cancel, TypeOK, States
  <2>2. CallCallbacks(f)
    BY <1>2 DEF Cancel
  <2> QED
    BY <1>2, <2>1, <2>2, CallbacksAreCalled DEF Cancel, TypeOK, queueVars, controlVars
<1>3. ASSUME NEW g \in Greenlet, NEW f \in Future, SetResult(g, f) PROVE TypeOK'
  <2>1. state' = state /\ CallCallbacks(f) /\ state' \in [Future -> States]
    BY <1>3 DEF SetResult, TypeOK
  <2>2. place' \in [Greenlet -> Places] /\ on' \in [Greenlet -> Future \cup {Loop}]
    BY <1>3 DEF SetResult, BackWaiter, TypeOK, Places
  <2> QED
    BY <1>3, <2>1, <2>2, CallbacksAreCalled DEF SetResult, TypeOK, queueVars
<1>4. ASSUME NEW g \in Greenlet, NEW f \in Future, NEW k \in Callback,
             AddDoneCallback(g, f, k) \/ RemoveDoneCallback(g, f, k)
      PROVE  TypeOK'
  <2>1. callbacks' \in [Future -> SUBSET Callback]
    BY <1>4 DEF AddDoneCallback, RemoveDoneCallback, TypeOK
  <2>2. calls' \in [Future -> [Callback -> Nat]]
    <3>1. CASE calls' = calls
      BY <3>1 DEF TypeOK
    <3>2. CASE calls' = [calls EXCEPT ![f][k] = @ + 1]
      <4>1. calls[f] \in [Callback -> Nat]
        BY DEF TypeOK
      <4>2. [calls[f] EXCEPT ![k] = @ + 1] \in [Callback -> Nat]
        BY <4>1
      <4> QED
        BY <3>2, <4>2 DEF TypeOK
    <3> QED
      BY <1>4, <3>1, <3>2 DEF AddDoneCallback, RemoveDoneCallback
  <2> QED
    BY <1>4, <2>1, <2>2 DEF AddDoneCallback, RemoveDoneCallback, TypeOK, queueVars, controlVars
<1>5. ASSUME NEW c \in Client, Yield(c) \/ Drop(c) PROVE TypeOK'
  <2>1. CASE Yield(c)
    BY <2>1 DEF Yield, Leave, TypeOK, Places, futureVars, queueVars
  <2>2. CASE Drop(c)
    <3>1. pendings' \in Seq(Future) /\ alive' \in BOOLEAN
      <4>1. pendings' = <<>> /\ alive' = FALSE
        BY <2>2, Zenon DEF Drop
      <4>2. <<>> \in Seq(Future)
        OBVIOUS
      <4> QED
        BY <4>1, <4>2
    <3> QED
      BY <2>2, <3>1 DEF Drop, TypeOK, futureVars, controlVars
  <2> QED
    BY <1>5, <2>1, <2>2
<1>6. ASSUME NEW c \in Client, NEW f \in Future, Result(c, f) PROVE TypeOK'
  BY <1>6 DEF Result, Leave, TypeOK, Places, queueVars
<1>7. ASSUME NEW w \in Worker, NextItem(w) PROVE TypeOK'
  <2>1. place' \in [Greenlet -> Places]
    BY <1>7 DEF NextItem, End, Leave, TypeOK, Places, controlVars
  <2>2. pendings' \in Seq(Future) /\ on' \in [Greenlet -> Future \cup {Loop}]
    <3>1. CASE pendings' = pendings /\ on' = on
      BY <3>1 DEF TypeOK
    <3>2. CASE pendings # <<>> /\ pendings' = Tail(pendings)
      <4>1. pendings' \in Seq(Future) /\ Head(pendings) \in Future
        BY <3>2 DEF TypeOK
      <4>2. on' = on \/ on' = [on EXCEPT ![w] = Head(pendings)]
        BY <1>7 DEF NextItem, controlVars
      <4> QED
        BY <4>1, <4>2 DEF TypeOK
    <3> QED
      BY <1>7, <3>1, <3>2 DEF NextItem, controlVars
  <2>3. cut' \in Nat
    BY <1>7 DEF NextItem, TypeOK
  <2> QED
    BY <1>7, <2>1, <2>2, <2>3 DEF NextItem, TypeOK
<1>8. ASSUME NEW w \in Worker, NotRun(w) PROVE TypeOK'
  BY <1>8 DEF NotRun, AfterItem, End, Leave, TypeOK, Places, futureVars, queueVars
<1>9. ASSUME NEW w \in Worker, FnEnds(w) PROVE TypeOK'
  <2>1. on[w] \in Future
    BY <1>9 DEF FnEnds, HasFuture, Greenlet
  <2>2. state' \in [Future -> States] /\ \A e \in Future : e # on[w] => state'[e] = state[e]
    BY <1>9 DEF FnEnds, TypeOK, States
  <2>3. place' \in [Greenlet -> Places] /\ on' \in [Greenlet -> Future \cup {Loop}]
    BY <1>9, <2>1 DEF FnEnds, BackWaiter, TypeOK, Places
  <2>4. CallCallbacks(on[w])
    BY <1>9 DEF FnEnds
  <2> QED
    BY <1>9, <2>1, <2>2, <2>3, <2>4, CallbacksAreCalled DEF FnEnds, TypeOK, queueVars
<1>10. ASSUME NEW g \in Greenlet, PopWaiter(g) PROVE TypeOK'
  <2>1. PICK v \in waiters[on[g]] :
          waiters' = [waiters EXCEPT ![on[g]] = @ \ {v}] /\ SwitchTo(v)
    BY <1>10 DEF PopWaiter
  <2>2. settled' = settled
    BY <1>10 DEF PopWaiter
  <2>3. place' \in [Greenlet -> Places] /\ on' \in [Greenlet -> Future \cup {Loop}]
    BY <2>1, <2>2, SwitchMoves
  <2>4. waiters' \in [Future -> SUBSET Client]
    BY <2>1 DEF TypeOK
  <2> QED
    BY <1>10, <2>3, <2>4 DEF PopWaiter, TypeOK, queueVars
<1>11. ASSUME NEW g \in Greenlet, BackDone(g) PROVE TypeOK'
  BY <1>11 DEF BackDone, AfterItem, End, Leave, TypeOK, Places, futureVars, queueVars
<1>12. ASSUME NEW w \in Worker, Park(w) PROVE TypeOK'
  BY <1>12 DEF Park, Leave, TypeOK, Places, futureVars, queueVars
<1>13. ASSUME NEW g \in Greenlet, Wake(g) \/ (g \in Worker /\ Fire(g)) PROVE TypeOK'
  <2>1. SwitchTo(g) /\ settled' = settled
    BY <1>13 DEF Wake, Fire, futureVars
  <2>2. place' \in [Greenlet -> Places] /\ on' \in [Greenlet -> Future \cup {Loop}]
    BY <2>1, SwitchMoves
  <2> QED
    BY <1>13, <2>2 DEF Wake, Fire, TypeOK, futureVars, queueVars
<1>14. ASSUME NEW c \in Client, Disturb(c) PROVE TypeOK'
  BY <1>14 DEF Disturb, TypeOK, Places, futureVars, queueVars
<1>15. CASE Signal \/ Stop \/ UNCHANGED vars
  BY <1>15 DEF Signal, Stop, TypeOK, vars, futureVars, queueVars, controlVars
<1>16. Worker \subseteq Greenlet
  BY DEF Greenlet
<1> QED
  BY <1>1, <1>2, <1>3, <1>4, <1>5, <1>6, <1>7, <1>8, <1>9, <1>10, <1>11, <1>12, <1>13, <1>14,
     <1>15, <1>16, Zenon DEF Next, UserCode, WorkerStep, BackStep

LEMMA FutureStep ==
  ASSUME Separate, IInv, TypeOK', [Next]_vars
  PROVE  HasFuture'
<1> USE DEF IInv
<1>1. ASSUME NEW g \in Greenlet, NEW f \in Future, Submit(g, f) PROVE HasFuture'
  BY <1>1 DEF Submit, NewFuture, AdjustThreadCount, HasFuture, TypeOK
<1>2. ASSUME NEW g \in Greenlet, NEW f \in Future, Cancel(g, f) PROVE HasFuture'
  BY <1>2 DEF Cancel, HasFuture, controlVars
<1>3. ASSUME NEW g \in Greenlet, NEW f \in Future, SetResult(g, f) PROVE HasFuture'
  BY <1>3 DEF SetResult, BackWaiter, HasFuture, TypeOK
<1>4. ASSUME NEW g \in Greenlet, NEW f \in Future, NEW k \in Callback,
             AddDoneCallback(g, f, k) \/ RemoveDoneCallback(g, f, k)
      PROVE  HasFuture'
  BY <1>4 DEF AddDoneCallback, RemoveDoneCallback, HasFuture, controlVars
<1>5. ASSUME NEW c \in Client, Yield(c) \/ Drop(c) PROVE HasFuture'
  BY <1>5 DEF Yield, Drop, Leave, HasFuture, TypeOK, futureVars, controlVars
<1>6. ASSUME NEW c \in Client, NEW f \in Future, Result(c, f) PROVE HasFuture'
  BY <1>6 DEF Result, Leave, HasFuture, TypeOK
<1>7. ASSUME NEW w \in Worker, NextItem(w) PROVE HasFuture'
  <2>1. pendings # <<>> => Head(pendings) \in Future
    BY DEF TypeOK
  <2> QED
    BY <1>7, <2>1 DEF NextItem, End, Leave, HasFuture, TypeOK, controlVars, Greenlet
<1>8. ASSUME NEW w \in Worker, NotRun(w) PROVE HasFuture'
  BY <1>8 DEF NotRun, AfterItem, End, Leave, HasFuture, TypeOK, futureVars, Greenlet
<1>9. ASSUME NEW w \in Worker, FnEnds(w) PROVE HasFuture'
  <2>1. on[w] \in Future
    BY <1>9 DEF FnEnds, HasFuture, Greenlet
  <2> QED
    BY <1>9, <2>1 DEF FnEnds, BackWaiter, HasFuture, TypeOK, Greenlet
<1>10. ASSUME NEW g \in Greenlet, PopWaiter(g) PROVE HasFuture'
  BY <1>10, SwitchMoves DEF PopWaiter
<1>11. ASSUME NEW g \in Greenlet, BackDone(g) PROVE HasFuture'
  BY <1>11 DEF BackDone, AfterItem, End, Leave, HasFuture, TypeOK, futureVars
<1>12. ASSUME NEW w \in Worker, Park(w) PROVE HasFuture'
  BY <1>12 DEF Park, Leave, HasFuture, TypeOK, futureVars, Greenlet
<1>13. ASSUME NEW g \in Greenlet, Wake(g) \/ (g \in Worker /\ Fire(g)) PROVE HasFuture'
  BY <1>13, SwitchMoves DEF Wake, Fire, futureVars
<1>14. ASSUME NEW c \in Client, Disturb(c) PROVE HasFuture'
  BY <1>14 DEF Disturb, HasFuture, TypeOK, futureVars
<1>15. CASE Signal \/ Stop \/ UNCHANGED vars
  BY <1>15 DEF Signal, Stop, HasFuture, vars, futureVars, controlVars
<1>16. Worker \subseteq Greenlet
  BY DEF Greenlet
<1> QED
  BY <1>1, <1>2, <1>3, <1>4, <1>5, <1>6, <1>7, <1>8, <1>9, <1>10, <1>11, <1>12, <1>13, <1>14,
     <1>15, <1>16, Zenon DEF Next, UserCode, WorkerStep, BackStep

LEMMA CallbackStep ==
  ASSUME Separate, IInv, TypeOK', [Next]_vars
  PROVE  Uncalled' /\ CallbacksOnce'
<1> USE DEF IInv
<1>1. ASSUME NEW g \in Greenlet, NEW f \in Future, Submit(g, f) PROVE Uncalled' /\ CallbacksOnce'
  BY <1>1 DEF Submit, NewFuture, Uncalled, CallbacksOnce, TypeOK
<1>2. ASSUME NEW g \in Greenlet, NEW f \in Future, Cancel(g, f) PROVE Uncalled' /\ CallbacksOnce'
  <2>1. CallCallbacks(f) /\ \A e \in Future : e # f => state'[e] = state[e]
    BY <1>2 DEF Cancel, TypeOK
  <2> QED
    BY <2>1, CallbacksAreCalled DEF TypeOK
<1>3. ASSUME NEW g \in Greenlet, NEW f \in Future, SetResult(g, f) PROVE Uncalled' /\ CallbacksOnce'
  <2>1. CallCallbacks(f) /\ state' = state
    BY <1>3 DEF SetResult
  <2> QED
    BY <2>1, CallbacksAreCalled DEF TypeOK
<1>4. ASSUME NEW g \in Greenlet, NEW f \in Future, NEW k \in Callback, AddDoneCallback(g, f, k)
      PROVE  Uncalled' /\ CallbacksOnce'
  <2>1. state' = state /\ k \notin callbacks[f] /\ calls[f][k] = 0
    BY <1>4 DEF AddDoneCallback
  <2>2. CASE state[f] = "PENDING"
    <3>1. calls' = calls
      BY <1>4, <2>2 DEF AddDoneCallback
    <3>2. \A e \in Future : callbacks'[e] = IF e = f THEN callbacks[f] \cup {k} ELSE callbacks[e]
      BY <1>4, <2>2 DEF AddDoneCallback, TypeOK
    <3> QED
      BY <2>1, <2>2, <3>1, <3>2 DEF Uncalled, CallbacksOnce
  <2>3. CASE state[f] # "PENDING"
    <3>1. callbacks' = callbacks
      BY <1>4, <2>3 DEF AddDoneCallback
    <3>2. \A e \in Future, j \in Callback :
            calls'[e][j] = IF e = f /\ j = k THEN calls[e][j] + 1 ELSE calls[e][j]
      BY <1>4, <2>3 DEF AddDoneCallback, TypeOK
    <3> QED
      BY <2>1, <3>1, <3>2 DEF Uncalled, CallbacksOnce
  <2> QED
    BY <2>2, <2>3
<1>5. ASSUME NEW g \in Greenlet, NEW f \in Future, NEW k \in Callback, RemoveDoneCallback(g, f, k)
      PROVE  Uncalled' /\ CallbacksOnce'
  <2>1. \A e \in Future : callbacks'[e] = IF e = f THEN callbacks[f] \ {k} ELSE callbacks[e]
    BY <1>5 DEF RemoveDoneCallback, TypeOK
  <2> QED
    BY <1>5, <2>1 DEF RemoveDoneCallback, Uncalled, CallbacksOnce
<1>6. ASSUME NEW w \in Worker, FnEnds(w) PROVE Uncalled' /\ CallbacksOnce'
  <2>1. on[w] \in Future
    BY <1>6 DEF FnEnds, HasFuture, Greenlet
  <2>2. CallCallbacks(on[w]) /\ \A e \in Future : e # on[w] => state'[e] = state[e]
    BY <1>6 DEF FnEnds, TypeOK
  <2> QED
    BY <2>1, <2>2, CallbacksAreCalled DEF TypeOK
<1>7. CASE UNCHANGED <<state, callbacks, calls>>
  BY <1>7 DEF Uncalled, CallbacksOnce
<1>8. ASSUME \/ \E c \in Client : Yield(c) \/ Drop(c) \/ Disturb(c) \/ \E f \in Future : Result(c, f)
             \/ \E w \in Worker : NextItem(w) \/ NotRun(w) \/ Park(w) \/ Fire(w)
             \/ \E g \in Greenlet : PopWaiter(g) \/ BackDone(g) \/ Wake(g)
             \/ Signal \/ Stop \/ UNCHANGED vars
      PROVE  UNCHANGED <<state, callbacks, calls>>
  BY <1>8 DEF Yield, Drop, Disturb, Result, NextItem, NotRun, Park, Fire, PopWaiter, BackDone, Wake,
              Signal, Stop, vars, futureVars
<1> QED
  BY <1>1, <1>2, <1>3, <1>4, <1>5, <1>6, <1>7, <1>8, Zenon
     DEF Next, UserCode, WorkerStep, BackStep
-----------------------------------------------------------------------------
(* A worker that will look for an item keeps to it until it looks; a new   *)
(* item comes with a new worker, and looking takes an item away, or is cut *)
(* short by a signal.                                                      *)
LEMMA SubmitCovers ==
  ASSUME Separate, IInv, NEW g \in Greenlet, NEW f \in Future, Submit(g, f)
  PROVE  ItemsCovered'
<1> SUFFICES ASSUME max_workers = 0 PROVE ItemsCovered'
  BY DEF Submit, ItemsCovered
<1>1. WantsWorker
  BY DEF WantsWorker
<1>2. PICK w \in Worker : place[w] = "none" /\ place' = [place EXCEPT ![w] = "fresh"]
  BY <1>1 DEF Submit, AdjustThreadCount
<1>3. Coming \subseteq Worker /\ w \notin Coming
  BY <1>2 DEF Coming
<1>4. Coming' = Coming \cup {w}
  BY <1>2 DEF Coming, IInv, TypeOK, Greenlet
<1>5. IsFiniteSet(Coming)
  BY <1>3, FS_Subset DEF Separate
<1>6. Cardinality(Coming') = Cardinality(Coming) + 1 /\ Cardinality(Coming) \in Nat
  BY <1>3, <1>4, <1>5, FS_AddElement, FS_CardinalityType
<1>7. Len(pendings') = Len(pendings) + 1 /\ cut' = cut /\ Len(pendings) \in Nat
  BY DEF Submit, IInv, TypeOK
<1>8. cut \in Nat /\ Len(pendings) <= Cardinality(Coming) + cut
  BY DEF IInv, TypeOK, ItemsCovered, Coming
<1>9. Len(pendings') <= Cardinality(Coming') + cut'
  BY <1>6, <1>7, <1>8
<1> QED
  BY <1>9 DEF ItemsCovered, Coming

LEMMA NextItemCovers ==
  ASSUME Separate, IInv, NEW w \in Worker, NextItem(w)
  PROVE  ItemsCovered'
<1> USE DEF IInv
<1>1. Coming \subseteq Worker /\ w \in Coming /\ w \in Greenlet
  BY DEF Coming, NextItem, Greenlet
<1>2. IsFiniteSet(Coming) /\ IsFiniteSet(Coming \ {w})
  BY <1>1, FS_Subset DEF Separate
<1>3. /\ Cardinality(Coming) \in Nat /\ Cardinality(Coming \ {w}) \in Nat
      /\ Cardinality(Coming \ {w}) = Cardinality(Coming) - 1
  BY <1>1, <1>2, FS_RemoveElement, FS_CardinalityType
<1>4. Coming \ {w} \subseteq Coming'
  BY <1>1 DEF Coming, NextItem, End, Leave, TypeOK, controlVars, Greenlet
<1>5. Coming' \subseteq Worker /\ IsFiniteSet(Coming')
  <2>1. Coming' \subseteq Worker
    BY DEF Coming
  <2> QED
    BY <2>1, FS_Subset DEF Separate
<1>6. Cardinality(Coming \ {w}) <= Cardinality(Coming') /\ Cardinality(Coming') \in Nat
  BY <1>4, <1>5, FS_Subset, FS_CardinalityType
<1>7. max_workers' = max_workers
  BY DEF NextItem
<1>8. cut \in Nat /\ Len(pendings) \in Nat /\ max_workers \in Nat
  BY DEF TypeOK
<1>9. CASE pendings' = pendings /\ cut' = cut + 1
  BY <1>3, <1>6, <1>7, <1>8, <1>9 DEF ItemsCovered, Coming
<1>10. CASE pendings = <<>> /\ pendings' = pendings /\ cut' = cut
  <2>1. Len(pendings') = 0
    BY <1>10
  <2> QED
    BY <1>6, <1>7, <1>8, <1>10, <2>1 DEF ItemsCovered, Coming
<1>11. CASE pendings # <<>> /\ pendings' = Tail(pendings) /\ cut' = cut
  <2>1. Len(pendings') = Len(pendings) - 1
    BY <1>11 DEF TypeOK
  <2> QED
    BY <1>3, <1>6, <1>7, <1>8, <1>11, <2>1 DEF ItemsCovered, Coming
<1>12. CASE alive = FALSE /\ pendings' = pendings /\ cut' = cut
  <2>1. Len(pendings') = 0
    BY <1>12 DEF Dropped
  <2> QED
    BY <1>6, <1>7, <1>8, <1>12, <2>1 DEF ItemsCovered, Coming
<1> QED
  BY <1>9, <1>10, <1>11, <1>12 DEF NextItem, TypeOK

LEMMA CoverStep ==
  ASSUME Separate, IInv, TypeOK', [Next]_vars
  PROVE  ItemsCovered'
<1> USE DEF IInv
<1>1. ASSUME NEW g \in Greenlet, NEW f \in Future, Submit(g, f) PROVE ItemsCovered'
  BY <1>1, SubmitCovers
<1>2. ASSUME NEW w \in Worker, NextItem(w) PROVE ItemsCovered'
  BY <1>2, NextItemCovers
<1>3. ASSUME NEW c \in Client, Drop(c) PROVE ItemsCovered'
  <2>1. Len(pendings') = 0 /\ cut' = cut /\ max_workers' = max_workers /\ cut \in Nat
    BY <1>3 DEF Drop, TypeOK
  <2>2. Coming' \subseteq Worker
    BY DEF Coming
  <2>3. Cardinality(Coming') \in Nat
    BY <2>2, FS_Subset, FS_CardinalityType DEF Separate
  <2> QED
    BY <2>1, <2>3 DEF ItemsCovered, Coming
<1>4. ASSUME NEW g \in Greenlet, NEW f \in Future, Cancel(g, f) \/ SetResult(g, f)
      PROVE  ItemsCovered'
  <2>1. Coming \subseteq Coming'
    BY <1>4 DEF Cancel, SetResult, BackWaiter, Coming, TypeOK, Greenlet, controlVars
  <2>2. UNCHANGED <<pendings, cut, max_workers>>
    BY <1>4 DEF Cancel, SetResult, queueVars
  <2> QED
    BY <2>1, <2>2, CoverageKept
<1>5. ASSUME NEW g \in Greenlet, NEW f \in Future, NEW k \in Callback,
             AddDoneCallback(g, f, k) \/ RemoveDoneCallback(g, f, k)
      PROVE  ItemsCovered'
  BY <1>5 DEF AddDoneCallback, RemoveDoneCallback, ItemsCovered, queueVars, controlVars
<1>6. ASSUME NEW c \in Client, Yield(c) \/ Disturb(c) \/ \E f \in Future : Result(c, f)
      PROVE  ItemsCovered'
  <2>1. Coming \subseteq Coming'
    BY <1>6 DEF Yield, Disturb, Result, Leave, Coming, TypeOK, Greenlet, Separate
  <2>2. UNCHANGED <<pendings, cut, max_workers>>
    BY <1>6 DEF Yield, Disturb, Result, queueVars
  <2> QED
    BY <2>1, <2>2, CoverageKept
<1>7. ASSUME NEW w \in Worker, NotRun(w) \/ FnEnds(w) \/ Park(w) PROVE ItemsCovered'
  <2>1. Coming \subseteq Coming'
    BY <1>7 DEF NotRun, AfterItem, End, Leave, FnEnds, BackWaiter, Park, Coming, TypeOK, Greenlet
  <2>2. UNCHANGED <<pendings, cut, max_workers>>
    BY <1>7 DEF NotRun, FnEnds, Park, queueVars
  <2> QED
    BY <2>1, <2>2, CoverageKept
<1>8. ASSUME NEW g \in Greenlet, PopWaiter(g) \/ Wake(g) \/ (g \in Worker /\ Fire(g))
      PROVE  ItemsCovered'
  <2>1. (\E v : SwitchTo(v)) /\ UNCHANGED <<pendings, cut, max_workers, settled>>
    BY <1>8 DEF PopWaiter, Wake, Fire, queueVars, futureVars
  <2>2. Coming \subseteq Coming'
    BY <2>1, SwitchMoves
  <2> QED
    BY <2>1, <2>2, CoverageKept
<1>9. ASSUME NEW g \in Greenlet, BackDone(g) PROVE ItemsCovered'
  <2>1. Coming \subseteq Coming'
    BY <1>9 DEF BackDone, AfterItem, End, Leave, Coming, TypeOK, Greenlet
  <2>2. UNCHANGED <<pendings, cut, max_workers>>
    BY <1>9 DEF BackDone, queueVars
  <2> QED
    BY <2>1, <2>2, CoverageKept
<1>10. CASE Signal \/ Stop \/ UNCHANGED vars
  BY <1>10 DEF Signal, Stop, ItemsCovered, vars, queueVars, controlVars
<1>11. Worker \subseteq Greenlet
  BY DEF Greenlet
<1> QED
  BY <1>1, <1>2, <1>3, <1>4, <1>5, <1>6, <1>7, <1>8, <1>9, <1>10, <1>11, Zenon
     DEF Next, UserCode, WorkerStep, BackStep

LEMMA DropStep ==
  ASSUME IInv, [Next]_vars
  PROVE  Dropped'
<1> USE DEF IInv, Dropped
<1>1. CASE \/ \E g \in Greenlet, f \in Future : Submit(g, f)
           \/ \E w \in Worker : NextItem(w)
           \/ \E c \in Client : Drop(c)
  BY <1>1 DEF Submit, NextItem, Drop, TypeOK
<1>2. CASE UNCHANGED <<alive, pendings>>
  BY <1>2
<1>3. ASSUME \/ \E g \in Greenlet, f \in Future : Cancel(g, f) \/ SetResult(g, f)
             \/ \E g \in Greenlet, f \in Future, k \in Callback :
                  AddDoneCallback(g, f, k) \/ RemoveDoneCallback(g, f, k)
             \/ \E c \in Client : Yield(c) \/ Disturb(c) \/ \E f \in Future : Result(c, f)
             \/ \E w \in Worker : NotRun(w) \/ FnEnds(w) \/ Park(w) \/ Fire(w)
             \/ \E g \in Greenlet : PopWaiter(g) \/ BackDone(g) \/ Wake(g)
             \/ Signal \/ Stop \/ UNCHANGED vars
      PROVE  UNCHANGED <<alive, pendings>>
  BY <1>3 DEF Cancel, SetResult, AddDoneCallback, RemoveDoneCallback, Yield, Disturb, Result, NotRun,
              FnEnds, Park, Fire, PopWaiter, BackDone, Wake, Signal, Stop, vars, queueVars
<1> QED
  BY <1>1, <1>2, <1>3, Zenon DEF Next, UserCode, WorkerStep, BackStep

LEMMA NextIInv == ASSUME Separate, IInv, [Next]_vars PROVE IInv'
BY TypeStep, FutureStep, CallbackStep, CoverStep, DropStep DEF IInv

LEMMA Inductive == ASSUME Separate PROVE Spec => []IInv
<1>1. Init => IInv
  BY InitIInv
<1>2. IInv /\ [Next]_vars => IInv'
  BY NextIInv
<1> QED
  BY <1>1, <1>2, PTL DEF Spec
-----------------------------------------------------------------------------
(* No item of an executor without limit is stranded, adjust_thread_count   *)
(* and _worker of src/executor.c: there are as many workers to come as     *)
(* there are items, but for those that met Ctrl-C.                         *)
THEOREM NoItemStranded == ASSUME Separate PROVE Spec => []ItemsCovered
BY Inductive, PTL DEF IInv

(* A done callback is scheduled at most once, call_callbacks and           *)
(* add_done_callback of src/futures.c, whatever order the result, cancel() *)
(* and the callback come in.                                               *)
THEOREM CallbacksCalledOnce == ASSUME Separate PROVE Spec => []CallbacksOnce
BY Inductive, PTL DEF IInv

(* Who is in result() is resumed by back_waiter() of its own future only   *)
(* with the result.                                                        *)
LEMMA ResultStep ==
  ASSUME Separate, IInv, [Next]_vars, NEW c \in Client,
         place[c] = "result", place'[c] = "run", on[c] \notin settled
  PROVE  Disturb(c) \/ \E f \in Future \ {on[c]} : c \in waiters[f] \ waiters'[f]
<1> USE DEF IInv
<1>1. c \in Greenlet /\ c \notin Worker /\ c # Loop
  BY DEF Greenlet, Separate
<1>2. ASSUME NEW g \in Greenlet, PopWaiter(g) PROVE \E f \in Future \ {on[c]} : c \in waiters[f] \ waiters'[f]
  <2>1. PICK v \in waiters[on[g]] :
          waiters' = [waiters EXCEPT ![on[g]] = @ \ {v}] /\ SwitchTo(v)
    BY <1>2 DEF PopWaiter
  <2>2. on[g] \in settled /\ on[g] \in Future
    BY <1>2 DEF PopWaiter, HasFuture
  <2>3. v = c
    BY <1>1, <2>1 DEF SwitchTo, TypeOK
  <2>4. waiters'[on[g]] = waiters[on[g]] \ {c}
    BY <2>1, <2>2, <2>3 DEF TypeOK
  <2> QED
    BY <2>1, <2>2, <2>3, <2>4
<1>3. ASSUME NEW d \in Client, Disturb(d) PROVE d = c
  BY <1>1, <1>3 DEF Disturb, TypeOK
<1>4. ASSUME NEW g \in Greenlet, Wake(g) \/ BackDone(g) PROVE FALSE
  BY <1>1, <1>4 DEF Wake, BackDone, AfterItem, End, Leave, SwitchTo, TypeOK
<1>5. ASSUME NEW w \in Worker, Fire(w) \/ NextItem(w) \/ NotRun(w) \/ FnEnds(w) \/ Park(w) PROVE FALSE
  BY <1>1, <1>5 DEF Fire, SwitchTo, NextItem, End, Leave, NotRun, AfterItem, FnEnds, BackWaiter, Park,
                    TypeOK, controlVars
<1>6. ASSUME NEW g \in Greenlet, NEW f \in Future, Submit(g, f) \/ Cancel(g, f) \/ SetResult(g, f)
      PROVE  FALSE
  BY <1>1, <1>6 DEF Submit, AdjustThreadCount, Cancel, SetResult, BackWaiter, TypeOK, controlVars
<1>7. ASSUME NEW g \in Greenlet, NEW f \in Future, NEW k \in Callback,
             AddDoneCallback(g, f, k) \/ RemoveDoneCallback(g, f, k)
      PROVE  FALSE
  BY <1>1, <1>7 DEF AddDoneCallback, RemoveDoneCallback, controlVars
<1>8. ASSUME NEW d \in Client, Yield(d) \/ Drop(d) \/ \E f \in Future : Result(d, f) PROVE FALSE
  BY <1>1, <1>8 DEF Yield, Drop, Result, Leave, TypeOK, controlVars
<1>9. CASE Signal \/ Stop \/ UNCHANGED vars
  BY <1>9 DEF Signal, Stop, vars, controlVars
<1> QED
  BY <1>2, <1>3, <1>4, <1>5, <1>6, <1>7, <1>8, <1>9, Zenon
     DEF Next, UserCode, WorkerStep, BackStep

(* result() of src/futures.c goes on without a result only by an exception *)
(* or by a stale entry among the waiters of another future.                *)
THEOREM ResultsAreThere == ASSUME Separate PROVE Spec => ResultIsThere
<1>1. IInv /\ [Next]_vars =>
        [\A c \in Client :
           place[c] = "result" /\ place'[c] = "run" /\ on[c] \notin settled =>
             Disturb(c) \/ \E f \in Future \ {on[c]} : c \in waiters[f] \ waiters'[f]]_vars
  BY ResultStep
<1> QED
  BY <1>1, Inductive, PTL DEF Spec, ResultIsThere
-----------------------------------------------------------------------------
(* Sequences.                                                              *)
LEMMA FunctionIsSeq ==
  ASSUME NEW S, NEW n \in Nat, NEW f \in [1 .. n -> S]
  PROVE  f \in Seq(S) /\ Len(f) = n
BY SMT

LEMMA IsAppend ==
  ASSUME NEW S, NEW s \in Seq(S), NEW t \in Seq(S), NEW x \in S,
         Len(t) = Len(s) + 1, t[Len(t)] = x,
         \A i \in 1 .. Len(s) : t[i] = s[i]
  PROVE  t = Append(s, x)
<1> DEFINE u == Append(s, x)
<1>1. /\ u \in Seq(S) /\ Len(u) = Len(s) + 1 /\ u[Len(s) + 1] = x
      /\ \A i \in 1 .. Len(s) : u[i] = s[i]
  BY AppendProperties
<1>2. Len(s) \in Nat
  BY LenProperties
<1> HIDE DEF u
<1>3. \A i \in 1 .. Len(t) : t[i] = u[i]
  BY <1>1, <1>2, SMT
<1> QED
  BY <1>1, <1>3, SeqEqual DEF u
-----------------------------------------------------------------------------
(* The timer heap.  A loop of src/heapq.c is a function from the number of *)
(* turns to the state after them; that it exists, that it keeps what every *)
(* turn keeps and that it has come to its end are shown once for both.     *)

(* What is in 0, and in k whenever it is in k - 1, is in all of 0 .. n.    *)
LEMMA CountsUp ==
  ASSUME NEW n \in Nat, NEW K, 0 \in K, \A k \in 1 .. n : k - 1 \in K => k \in K
  PROVE  0 .. n \subseteq K
<1> DEFINE T == (0 .. n) \ K
<1> SUFFICES ASSUME T # {} PROVE FALSE
  OBVIOUS
<1>1. IsWellFoundedOn(OpToRel(<, Nat), Nat)
  BY NatLessThanWellFounded
<1>2. T \subseteq Nat
  OBVIOUS
<1>3. PICK k \in T : \A j \in T : ~ (<<j, k>> \in OpToRel(<, Nat))
  BY <1>1, <1>2, WFMin, Zenon
<1>4. k \in 1 .. n
  OBVIOUS
<1>5. k - 1 \in K
  <2>1. k - 1 \in 0 .. n /\ k - 1 < k
    BY <1>4
  <2>2. k - 1 \in T => <<k - 1, k>> \in OpToRel(<, Nat)
    BY <1>2, <2>1 DEF OpToRel
  <2> QED BY <1>3, <2>1, <2>2
<1> QED BY <1>4, <1>5

(* A loop of n turns, each of which does step to the state, exists.        *)
Loops(S, step, s, n) ==
  {t \in [0 .. n -> S] : t[0] = s /\ \A k \in 1 .. n : t[k] = step[t[k - 1]]}

LEMMA LoopExists ==
  ASSUME NEW S, NEW step \in [S -> S], NEW s \in S, NEW n \in Nat
  PROVE  Loops(S, step, s, n) # {}
<1> DEFINE K == {k \in 0 .. n : Loops(S, step, s, k) # {}}
<1>1. 0 \in K
  <2>1. [j \in 0 .. 0 |-> s] \in Loops(S, step, s, 0)
    BY DEF Loops
  <2> QED BY <2>1
<1>2. ASSUME NEW k \in 1 .. n, k - 1 \in K PROVE k \in K
  <2>1. PICK t \in [0 .. k - 1 -> S] : t[0] = s /\ \A j \in 1 .. k - 1 : t[j] = step[t[j - 1]]
    BY <1>2 DEF Loops
  <2> DEFINE u == [j \in 0 .. k |-> IF j = k THEN step[t[k - 1]] ELSE t[j]]
  <2>2. u \in [0 .. k -> S]
    BY <2>1
  <2>3. u[0] = s /\ \A j \in 1 .. k : u[j] = step[u[j - 1]]
    BY <2>1
  <2>4. u \in Loops(S, step, s, k)
    BY <2>2, <2>3 DEF Loops
  <2> QED BY <2>4
<1> HIDE DEF K
<1>3. 0 .. n \subseteq K
  BY <1>1, <1>2, CountsUp
<1>4. n \in K
  BY <1>3
<1> QED BY <1>4 DEF K

(* A loop whose every turn either changes nothing or lowers a measure ends *)
(* within as many turns as the measure was at first: the next one would    *)
(* change nothing.                                                         *)
LEMMA LoopEnds ==
  ASSUME NEW S, NEW step \in [S -> S], NEW s \in S, NEW n \in Nat,
         NEW measure \in [S -> Nat], measure[s] <= n,
         \A x \in S : step[x] = x \/ measure[step[x]] < measure[x],
         NEW t, t[0] = s, \A k \in 1 .. n : t[k - 1] \in S => t[k] = step[t[k - 1]]
  PROVE  t[n] \in S /\ step[t[n]] = t[n]
<1> DEFINE K == {k \in 0 .. n : /\ t[k] \in S
                                /\ step[t[k]] = t[k] \/ measure[t[k]] + k <= n}
<1>1. 0 \in K
  OBVIOUS
<1>2. ASSUME NEW k \in 1 .. n, k - 1 \in K PROVE k \in K
  <2> DEFINE x == t[k - 1]
  <2>2. x \in S /\ (step[x] = x \/ measure[x] + (k - 1) <= n)
    BY <1>2
  <2>1. t[k] = step[x]
    BY <2>2
  <2> HIDE DEF x
  <2>3. t[k] \in S
    BY <2>1, <2>2
  <2>4. CASE step[x] = x
    BY <2>1, <2>3, <2>4
  <2>5. CASE step[x] # x
    <3>1. measure[step[x]] < measure[x] /\ measure[x] + (k - 1) <= n
      BY <2>2, <2>5
    <3>2. measure[step[x]] \in Nat /\ measure[x] \in Nat
      BY <2>2
    <3> QED BY <2>1, <2>3, <3>1, <3>2
  <2> QED BY <2>4, <2>5
<1> HIDE DEF K
<1>3. 0 .. n \subseteq K
  BY <1>1, <1>2, CountsUp
<1> USE DEF K
<1>4. t[n] \in S /\ (step[t[n]] = t[n] \/ measure[t[n]] + n <= n)
  BY <1>3
<1>5. step[t[n]] \in S /\ measure[t[n]] \in Nat /\ measure[step[t[n]]] \in Nat
  BY <1>4
<1> QED BY <1>4, <1>5

(* The parent of an item is in front of it, and the item one of its        *)
(* parent's two children.                                                  *)
LEMMA Parents ==
  ASSUME NEW i \in Nat \ {0}
  PROVE  /\ Parent(i) \in Nat /\ Parent(i) < i
         /\ i = 2 * Parent(i) + 1 \/ i = 2 * Parent(i) + 2
BY DEF Parent

(* What the turns of both loops keep: the first n slots of the array hold  *)
(* the timers of C, each of them once.                                     *)
Arrays(m, n, C) ==
  {p \in [0 .. m - 1 -> Timer \cup {NULL, Unwritten}] :
     /\ Within(p, n) = C /\ C \subseteq Timer
     /\ \A i, j \in 0 .. n - 1 : p[i] = p[j] => i = j}

Ordered(p, n) == \A i \in 1 .. n - 1 : seconds[p[Parent(i)]] <= seconds[p[i]]

(* Exchanging two of the first n items loses none and doubles none.        *)
LEMMA SwapKeeps ==
  ASSUME NEW m \in Nat, NEW n \in 0 .. m, NEW C, NEW p \in Arrays(m, n, C),
         NEW i \in 0 .. n - 1, NEW j \in 0 .. n - 1, i # j
  PROVE  /\ Swapped(p, i, j) \in Arrays(m, n, C)
         /\ Swapped(p, i, j)[i] = p[j] /\ Swapped(p, i, j)[j] = p[i]
         /\ \A k \in 0 .. m - 1 : k # i /\ k # j => Swapped(p, i, j)[k] = p[k]
<1> DEFINE q == Swapped(p, i, j)
<1>1. p \in [0 .. m - 1 -> Timer \cup {NULL, Unwritten}]
  BY DEF Arrays
<1>2. i \in 0 .. m - 1 /\ j \in 0 .. m - 1
  OBVIOUS
<1>3. /\ q \in [0 .. m - 1 -> Timer \cup {NULL, Unwritten}]
      /\ q[i] = p[j] /\ q[j] = p[i]
      /\ \A k \in 0 .. m - 1 : k # i /\ k # j => q[k] = p[k]
  BY <1>1, <1>2 DEF Swapped
<1> HIDE DEF q
<1>4. Within(q, n) = Within(p, n)
  <2>1. \A k \in 0 .. n - 1 : k \in 0 .. m - 1
    OBVIOUS
  <2>2. ASSUME NEW k \in 0 .. n - 1 PROVE q[k] \in Within(p, n)
    BY <1>3, <2>1 DEF Within
  <2>3. ASSUME NEW k \in 0 .. n - 1 PROVE p[k] \in Within(q, n)
    <3>1. CASE k = i
      BY <1>3, <3>1 DEF Within
    <3>2. CASE k = j
      BY <1>3, <3>2 DEF Within
    <3>3. CASE k # i /\ k # j
      BY <1>3, <2>1, <3>3 DEF Within
    <3> QED BY <3>1, <3>2, <3>3
  <2> QED BY <2>2, <2>3 DEF Within
<1>5. \A k, l \in 0 .. n - 1 : q[k] = q[l] => k = l
  <2>1. \A k, l \in 0 .. n - 1 : p[k] = p[l] => k = l
    BY DEF Arrays
  <2>2. \A k \in 0 .. n - 1 : k \in 0 .. m - 1
    OBVIOUS
  <2> QED BY <1>3, <2>1, <2>2
<1> QED BY <1>3, <1>4, <1>5 DEF Arrays, q

(* The states of the loop of _siftdown: only the item at pos may be due    *)
(* before its parent, and nothing under it is due before that parent.      *)
Rising(m, n, C) ==
  {s \in [p : Arrays(m, n, C), pos : 0 .. n - 1] :
     /\ \A i \in 1 .. n - 1 : i # s.pos => seconds[s.p[Parent(i)]] <= seconds[s.p[i]]
     /\ \A i \in 1 .. n - 1 :
          s.pos > 0 /\ Parent(i) = s.pos => seconds[s.p[Parent(s.pos)]] <= seconds[s.p[i]]}

LEMMA Deadlines ==
  ASSUME NEW m \in Nat, NEW n \in 0 .. m, NEW C, NEW p \in Arrays(m, n, C)
  PROVE  \A i \in 0 .. n - 1 : p[i] \in Timer /\ seconds[p[i]] \in Int
BY HeapAssumption DEF Arrays, Within

LEMMA RiseKeeps ==
  ASSUME NEW m \in Nat, NEW n \in 0 .. m, NEW C, NEW s \in Rising(m, n, C)
  PROVE  /\ Rise(s, 0) \in Rising(m, n, C)
         /\ \/ Rise(s, 0) = s /\ Ordered(s.p, n)
            \/ Rise(s, 0).pos < s.pos
<1> DEFINE p == s.p
           j == s.pos
           u == Parent(j)
<1>1. p \in Arrays(m, n, C) /\ j \in 0 .. n - 1
  BY DEF Rising
<1>2. \A i \in 1 .. n - 1 : i # j => seconds[p[Parent(i)]] <= seconds[p[i]]
  BY DEF Rising
<1>3. \A i \in 1 .. n - 1 : j > 0 /\ Parent(i) = j => seconds[p[u]] <= seconds[p[i]]
  BY DEF Rising
<1>0. s = [p |-> p, pos |-> j]
  BY DEF Rising
<1>4. \A i \in 0 .. n - 1 : p[i] \in Timer /\ seconds[p[i]] \in Int
  BY <1>1, Deadlines
<1>5. \A i \in 1 .. n - 1 : Parent(i) \in 0 .. n - 1 /\ Parent(i) < i
  BY Parents
<1>6. CASE ~(j > 0 /\ seconds[p[j]] < seconds[p[u]])
  <2>1. Rise(s, 0) = s
    BY <1>6 DEF Rise
  <2>2. Ordered(p, n)
    BY <1>1, <1>2, <1>4, <1>5, <1>6 DEF Ordered
  <2> QED BY <2>1, <2>2
<1>7. CASE j > 0 /\ seconds[p[j]] < seconds[p[u]]
  <2> DEFINE q == Swapped(p, j, u)
  <2>1. Rise(s, 0) = [p |-> q, pos |-> u]
    BY <1>7 DEF Rise
  <2>2. u \in 0 .. n - 1 /\ u < j /\ j \in 1 .. n - 1
    BY <1>1, <1>5, <1>7
  <2> HIDE DEF p, j, u
  <2>0. j \in 0 .. n - 1 /\ u \in 0 .. n - 1 /\ j # u /\ \A k \in 0 .. n - 1 : k \in 0 .. m - 1
    BY <1>1, <2>2
  <2>3. q \in Arrays(m, n, C) /\ q[j] = p[u] /\ q[u] = p[j]
    BY <1>1, <2>0, SwapKeeps, SMTT(30)
  <2>4. \A k \in 0 .. n - 1 : k # j /\ k # u => q[k] = p[k]
    BY <1>1, <2>0, SwapKeeps, SMTT(30)
  <2> HIDE DEF q
  <2>5. ASSUME NEW i \in 1 .. n - 1, i # u PROVE seconds[q[Parent(i)]] <= seconds[q[i]]
    <3>1. Parent(i) \in 0 .. n - 1 /\ Parent(i) < i
      BY <1>5
    <3>2. CASE i = j
      BY <1>7, <1>4, <2>2, <2>3, <3>2 DEF u
    <3>3. CASE i # j /\ Parent(i) = j
      BY <1>3, <2>2, <2>3, <2>4, <2>5, <3>1, <3>3
    <3>4. CASE i # j /\ Parent(i) = u
      <4>1. seconds[p[u]] <= seconds[p[i]]
        BY <1>2, <3>4
      <4> QED BY <1>4, <1>7, <2>2, <2>3, <2>4, <2>5, <3>1, <3>4, <4>1
    <3>5. CASE i # j /\ Parent(i) # j /\ Parent(i) # u
      BY <1>2, <2>4, <2>5, <3>1, <3>5
    <3> QED BY <3>2, <3>3, <3>4, <3>5
  <2>6. ASSUME NEW i \in 1 .. n - 1, u > 0, Parent(i) = u
        PROVE  seconds[q[Parent(u)]] <= seconds[q[i]]
    <3>1. u \in 1 .. n - 1 /\ Parent(u) \in 0 .. n - 1 /\ Parent(u) < u
      BY <1>5, <2>2, <2>6
    <3>2. seconds[p[Parent(u)]] <= seconds[p[u]]
      BY <1>2, <2>2, <3>1
    <3>3. q[Parent(u)] = p[Parent(u)]
      BY <2>2, <2>4, <3>1
    <3>4. CASE i = j
      BY <2>3, <3>2, <3>3, <3>4
    <3>5. CASE i # j
      <4>1. i # u /\ i \in 0 .. n - 1
        BY <1>5, <2>6
      <4>2. seconds[p[u]] <= seconds[p[i]]
        BY <1>2, <2>6, <3>5
      <4> QED BY <1>4, <2>2, <2>4, <3>1, <3>2, <3>3, <3>5, <4>1, <4>2
    <3> QED BY <3>4, <3>5
  <2>7. [p |-> q, pos |-> u] \in Rising(m, n, C)
    BY <2>2, <2>3, <2>5, <2>6 DEF Rising
  <2> QED BY <2>1, <2>2, <2>7 DEF j
<1> QED BY <1>6, <1>7

(* _siftdown(startpos = 0) orders what is in order but for one item.       *)
LEMMA SiftDownOrders ==
  ASSUME NEW m \in Nat, NEW n \in 0 .. m, NEW C, NEW p, NEW pos,
         [p |-> p, pos |-> pos] \in Rising(m, n, C)
  PROVE  SiftDown(p, 0, pos) \in Arrays(m, n, C) /\ Ordered(SiftDown(p, 0, pos), n)
<1> DEFINE S == Rising(m, n, C)
           s == [p |-> p, pos |-> pos]
           step == [x \in S |-> Rise(x, 0)]
           measure == [x \in S |-> x.pos]
           TurnsOf(t) == [k \in 0 .. pos |-> IF k = 0 THEN s ELSE Rise(t[k - 1], 0)]
           turn == CHOOSE t : t = TurnsOf(t)
<1>1. pos \in Nat
  BY DEF Rising
<1>2. \A x \in S : (Rise(x, 0) = x /\ Ordered(x.p, n)) \/ Rise(x, 0).pos < x.pos
  BY RiseKeeps, Zenon
<1>10. \A x \in S : Rise(x, 0) \in S
  BY RiseKeeps, Zenon
<1>0. s \in S
  OBVIOUS
<1>3. step \in [S -> S] /\ \A x \in S : step[x] = Rise(x, 0)
  <2> HIDE DEF S
  <2> QED BY <1>10
<1>4. measure \in [S -> Nat]
  BY DEF Rising
<1>5. turn = TurnsOf(turn)
  <2>0. Loops(S, step, s, pos) # {}
    <3> HIDE DEF step, S, s
    <3> QED BY <1>0, <1>1, <1>3, LoopExists, Zenon
  <2> HIDE DEF step, S, s
  <2>1. PICK t \in [0 .. pos -> S] : t[0] = s /\ \A k \in 1 .. pos : t[k] = step[t[k - 1]]
    BY <2>0 DEF Loops
  <2>2. \A k \in 1 .. pos : step[t[k - 1]] = Rise(t[k - 1], 0)
    BY <1>1, <1>3
  <2>3. t = TurnsOf(t)
    BY <1>1, <2>1, <2>2
  <2> QED BY <2>3
<1>6. turn[0] = s /\ \A k \in 1 .. pos : turn[k] = Rise(turn[k - 1], 0)
  <2> HIDE DEF turn, s
  <2> QED BY <1>1, <1>5
<1>7. turn[pos] \in S /\ step[turn[pos]] = turn[pos]
  <2>1. \A k \in 1 .. pos : turn[k - 1] \in S => turn[k] = step[turn[k - 1]]
    <3> HIDE DEF turn, step, S, s
    <3> QED BY <1>3, <1>6
  <2>2. \A x \in S : step[x] = x \/ measure[step[x]] < measure[x]
    <3> HIDE DEF S, step
    <3> QED BY <1>2, <1>3
  <2>3. measure[s] <= pos /\ s \in S
    BY <1>1
  <2> HIDE DEF turn, step, measure, S, s
  <2> QED BY <1>1, <1>3, <1>4, <1>6, <2>1, <2>2, <2>3, LoopEnds, SMTT(30)
<1>8. turn[pos] \in S /\ Ordered(turn[pos].p, n)
  <2> HIDE DEF turn
  <2> QED BY <1>2, <1>7 DEF Rising
<1>9. SiftDown(p, 0, pos) = turn[pos].p
  BY DEF SiftDown
<1> HIDE DEF turn
<1> QED BY <1>8, <1>9 DEF Rising

(* The states of the loop of _siftup: only the item at pos may be due      *)
(* after one of its children, and nothing under it is due before its       *)
(* parent.                                                                 *)
Sinking(m, n, C) ==
  {s \in [p : Arrays(m, n, C), pos : 0 .. n - 1] :
     /\ \A i \in 1 .. n - 1 :
          i # s.pos /\ Parent(i) # s.pos => seconds[s.p[Parent(i)]] <= seconds[s.p[i]]
     /\ \A i \in 1 .. n - 1 :
          s.pos > 0 /\ Parent(i) = s.pos => seconds[s.p[Parent(s.pos)]] <= seconds[s.p[i]]}

LEMMA SinkKeeps ==
  ASSUME NEW m \in Nat, NEW n \in 0 .. m, NEW C, NEW s \in Sinking(m, n, C)
  PROVE  /\ Sink(s, n) \in Sinking(m, n, C)
         /\ \/ Sink(s, n) = s /\ s \in Rising(m, n, C)
            \/ n - Sink(s, n).pos < n - s.pos
<1> DEFINE p == s.p
           j == s.pos
           c == SmallerChild(p, n, j)
<1>1. p \in Arrays(m, n, C) /\ j \in 0 .. n - 1
  BY DEF Sinking
<1>2. \A i \in 1 .. n - 1 : i # j /\ Parent(i) # j => seconds[p[Parent(i)]] <= seconds[p[i]]
  BY DEF Sinking
<1>3. \A i \in 1 .. n - 1 : j > 0 /\ Parent(i) = j => seconds[p[Parent(j)]] <= seconds[p[i]]
  BY DEF Sinking
<1>0. s = [p |-> p, pos |-> j]
  BY DEF Sinking
<1>4. \A i \in 0 .. n - 1 : p[i] \in Timer /\ seconds[p[i]] \in Int
  BY <1>1, Deadlines
<1>5. \A i \in 1 .. n - 1 : Parent(i) \in 0 .. n - 1 /\ Parent(i) < i
  BY Parents
<1>8. \A i \in 1 .. n - 1 : i = 2 * Parent(i) + 1 \/ i = 2 * Parent(i) + 2
  BY Parents
<1>6. CASE ~(2 * j + 1 < n)
  <2>1. Sink(s, n) = s
    BY <1>6 DEF Sink
  <2>2. \A i \in 1 .. n - 1 : Parent(i) # j
    <3> HIDE DEF j
    <3> QED BY <1>1, <1>6, <1>8
  <2>3. s \in Rising(m, n, C)
    BY <1>0, <1>1, <1>2, <2>2 DEF Rising
  <2> QED BY <2>1, <2>3
<1>7. CASE 2 * j + 1 < n
  <2> DEFINE q == Swapped(p, j, c)
  <2>1. Sink(s, n) = [p |-> q, pos |-> c]
    BY <1>7 DEF Sink
  <2>2. c \in 1 .. n - 1 /\ j < c /\ Parent(c) = j
    BY <1>1, <1>7 DEF SmallerChild, Parent
  <2>8. \A i \in 1 .. n - 1 : Parent(i) = j => seconds[p[c]] <= seconds[p[i]]
    <3>1. ASSUME NEW i \in 1 .. n - 1, Parent(i) = j PROVE seconds[p[c]] <= seconds[p[i]]
      <4>1. i = 2 * j + 1 \/ i = 2 * j + 2
        BY <1>8, <3>1
      <4>2. seconds[p[i]] \in Int /\ seconds[p[2 * j + 1]] \in Int
        BY <1>1, <1>4, <1>7
      <4>3. 2 * j + 2 < n => seconds[p[2 * j + 2]] \in Int
        BY <1>1, <1>4
      <4> HIDE DEF p, j
      <4> QED BY <1>1, <1>7, <4>1, <4>2, <4>3 DEF SmallerChild
    <3> QED BY <3>1
  <2> HIDE DEF p, j, c
  <2>0. j \in 0 .. n - 1 /\ c \in 0 .. n - 1 /\ j # c /\ \A k \in 0 .. n - 1 : k \in 0 .. m - 1
    BY <1>1, <2>2
  <2>3. q \in Arrays(m, n, C) /\ q[j] = p[c] /\ q[c] = p[j]
    BY <1>1, <2>0, SwapKeeps, SMTT(30)
  <2>4. \A k \in 0 .. n - 1 : k # j /\ k # c => q[k] = p[k]
    BY <1>1, <2>0, SwapKeeps, SMTT(30)
  <2> HIDE DEF q
  <2>5. ASSUME NEW i \in 1 .. n - 1, i # c, Parent(i) # c
        PROVE  seconds[q[Parent(i)]] <= seconds[q[i]]
    <3>1. Parent(i) \in 0 .. n - 1 /\ Parent(i) < i
      BY <1>5
    <3>2. CASE i = j
      <4>1. q[Parent(i)] = p[Parent(i)]
        BY <2>4, <2>5, <3>1, <3>2
      <4>2. seconds[p[Parent(j)]] <= seconds[p[c]]
        BY <1>3, <2>2, <3>2
      <4> QED BY <2>3, <3>2, <4>1, <4>2
    <3>3. CASE i # j /\ Parent(i) = j
      <4>1. q[i] = p[i]
        BY <2>4, <2>5, <3>3
      <4> QED BY <2>3, <2>8, <3>3, <4>1
    <3>4. CASE i # j /\ Parent(i) # j
      BY <1>2, <2>4, <2>5, <3>1, <3>4
    <3> QED BY <3>2, <3>3, <3>4
  <2>6. ASSUME NEW i \in 1 .. n - 1, Parent(i) = c
        PROVE  seconds[q[Parent(c)]] <= seconds[q[i]]
    <3>1. i # j /\ i # c /\ Parent(i) # j
      BY <1>5, <2>2, <2>6
    <3>2. seconds[p[c]] <= seconds[p[i]]
      BY <1>2, <2>6, <3>1
    <3>3. q[i] = p[i]
      BY <2>4, <3>1
    <3> QED BY <2>2, <2>3, <3>2, <3>3
  <2>7. [p |-> q, pos |-> c] \in Sinking(m, n, C)
    BY <2>2, <2>3, <2>5, <2>6 DEF Sinking
  <2>9. n - c < n - j
    BY <1>1, <2>2
  <2> QED BY <2>1, <2>7, <2>9 DEF j
<1> QED BY <1>6, <1>7

(* _siftup(pos = 0) orders what is in order but for the root.              *)
LEMMA SiftUpOrders ==
  ASSUME NEW m \in Nat, NEW n \in 1 .. m, NEW C, NEW p,
         [p |-> p, pos |-> 0] \in Sinking(m, n, C)
  PROVE  SiftUp(p, n) \in Arrays(m, n, C) /\ Ordered(SiftUp(p, n), n)
<1> DEFINE S == Sinking(m, n, C)
           s == [p |-> p, pos |-> 0]
           step == [x \in S |-> Sink(x, n)]
           measure == [x \in S |-> n - x.pos]
           TurnsOf(t) == [k \in 0 .. n |-> IF k = 0 THEN s ELSE Sink(t[k - 1], n)]
           turn == CHOOSE t : t = TurnsOf(t)
<1>1. n \in 0 .. m
  OBVIOUS
<1>2. \A x \in S : (Sink(x, n) = x /\ x \in Rising(m, n, C)) \/ n - Sink(x, n).pos < n - x.pos
  BY <1>1, SinkKeeps, Zenon
<1>11. \A x \in S : Sink(x, n) \in S
  BY <1>1, SinkKeeps, Zenon
<1>0. s \in S
  OBVIOUS
<1>3. step \in [S -> S] /\ \A x \in S : step[x] = Sink(x, n)
  <2> HIDE DEF S
  <2> QED BY <1>11
<1>4. measure \in [S -> Nat]
  BY DEF Sinking
<1>5. turn = TurnsOf(turn)
  <2>0. Loops(S, step, s, n) # {}
    <3> HIDE DEF step, S, s
    <3>1. n \in Nat
      OBVIOUS
    <3> QED BY <1>0, <1>3, <3>1, LoopExists, Zenon
  <2> HIDE DEF step, S, s
  <2>1. PICK t \in [0 .. n -> S] : t[0] = s /\ \A k \in 1 .. n : t[k] = step[t[k - 1]]
    BY <2>0 DEF Loops
  <2>2. \A k \in 1 .. n : step[t[k - 1]] = Sink(t[k - 1], n)
    BY <1>3
  <2>3. t = TurnsOf(t)
    BY <2>1, <2>2
  <2> QED BY <2>3
<1>6. turn[0] = s /\ \A k \in 1 .. n : turn[k] = Sink(turn[k - 1], n)
  <2> HIDE DEF turn, s
  <2> QED BY <1>5
<1>7. turn[n] \in S /\ step[turn[n]] = turn[n]
  <2>1. \A k \in 1 .. n : turn[k - 1] \in S => turn[k] = step[turn[k - 1]]
    <3> HIDE DEF turn, step, S, s
    <3> QED BY <1>3, <1>6
  <2>2. \A x \in S : step[x] = x \/ measure[step[x]] < measure[x]
    <3> HIDE DEF S, step
    <3> QED BY <1>2, <1>3
  <2>3. measure[s] <= n /\ s \in S
    OBVIOUS
  <2> HIDE DEF turn, step, measure, S, s
  <2>4. n \in Nat
    OBVIOUS
  <2> QED BY <1>3, <1>4, <1>6, <2>1, <2>2, <2>3, <2>4, LoopEnds, SMTT(30)
<1>8. turn[n] \in Rising(m, n, C)
  <2> HIDE DEF turn
  <2> QED BY <1>2, <1>7 DEF Sinking
<1>9. SiftUp(p, n) = SiftDown(turn[n].p, 0, turn[n].pos)
  BY DEF SiftUp
<1>10. turn[n] = [p |-> turn[n].p, pos |-> turn[n].pos]
  <2> HIDE DEF turn
  <2> QED BY <1>8 DEF Rising
<1> HIDE DEF turn
<1> QED BY <1>8, <1>9, <1>10, SiftDownOrders

(* The root is due first.                                                  *)
LEMMA RootIsEarliest ==
  ASSUME NEW m \in Nat, NEW n \in 1 .. m, NEW C, NEW p \in Arrays(m, n, C), Ordered(p, n)
  PROVE  p[0] \in C /\ \A t \in C : seconds[p[0]] <= seconds[t]
<1> DEFINE K == {k \in 0 .. n - 1 : \A i \in 0 .. k : seconds[p[0]] <= seconds[p[i]]}
<1>1. \A i \in 0 .. n - 1 : p[i] \in Timer /\ seconds[p[i]] \in Int
  BY Deadlines
<1>2. 0 \in K
  BY <1>1
<1>3. ASSUME NEW k \in 1 .. n - 1, k - 1 \in K PROVE k \in K
  <2>1. Parent(k) \in 0 .. k - 1
    BY Parents
  <2>2. seconds[p[0]] <= seconds[p[Parent(k)]]
    BY <1>3, <2>1
  <2>3. seconds[p[Parent(k)]] <= seconds[p[k]]
    BY DEF Ordered
  <2>4. seconds[p[0]] <= seconds[p[k]]
    BY <1>1, <2>1, <2>2, <2>3
  <2> QED BY <1>3, <2>4
<1> HIDE DEF K
<1>4. 0 .. n - 1 \subseteq K
  BY <1>2, <1>3, CountsUp
<1>5. n - 1 \in K
  BY <1>4
<1> QED BY <1>5 DEF K, Arrays, Within

HeapInv == HeapTypeOK /\ HeapOrder /\ NoDuplicates

LEMMA HeapInvIs ==
  ASSUME HeapTypeOK
  PROVE  HeapOrder /\ NoDuplicates <=> heap \in Arrays(heapmax, heapsize, InHeap) /\ Ordered(heap, heapsize)
<1>1. InHeap \subseteq Timer
  BY DEF HeapTypeOK, InHeap, Within
<1> QED BY <1>1 DEF HeapTypeOK, HeapOrder, NoDuplicates, Arrays, Ordered, InHeap

LEMMA HeapInvBecomes ==
  ASSUME NEW C, heapmax' \in Nat \ {0}, heapsize' \in 0 .. heapmax', popped' \in Timer \cup {NULL},
         heap' \in Arrays(heapmax', heapsize', C), Ordered(heap', heapsize')
  PROVE  HeapInv' /\ InHeap' = C
<1>1. InHeap' = C
  BY DEF InHeap, Arrays
<1>2. \A i \in 0 .. heapsize' - 1 : heap'[i] \in Timer
  BY Deadlines
<1>3. HeapTypeOK'
  BY <1>2 DEF HeapTypeOK, Arrays
<1> QED BY <1>1, <1>3 DEF HeapInv, HeapOrder, NoDuplicates, Arrays, Ordered

LEMMA PushKeepsHeap ==
  ASSUME HeapInv, NEW val \in Timer, Heappush(val)
  PROVE  HeapInv' /\ InHeap' = InHeap \cup {val} /\ heapsize' > 0
<1> DEFINE p == IF AtCapacity THEN Grown ELSE heap
           q == [p EXCEPT ![heapsize] = val]
           m == heapmax'
           n == heapsize + 1
           C == InHeap \cup {val}
<1>0. /\ heapmax \in Nat \ {0} /\ heapsize \in 0 .. heapmax
      /\ heap \in [0 .. heapmax - 1 -> Timer \cup {NULL, Unwritten}]
      /\ popped \in Timer \cup {NULL}
      /\ \A i \in 0 .. heapsize - 1 : heap[i] \in Timer
  BY DEF HeapInv, HeapTypeOK
<1>1. m \in Nat \ {0} /\ n \in 1 .. m /\ heapsize' = n /\ popped' = popped
  BY <1>0 DEF Heappush, AtCapacity
<1>2. /\ p \in [0 .. m - 1 -> Timer \cup {NULL, Unwritten}]
      /\ \A i \in 0 .. heapsize - 1 : p[i] = heap[i]
  <2>1. CASE AtCapacity
    <3>1. m = 2 * heapmax /\ p = Grown
      BY <2>1 DEF Heappush
    <3>2. \A i \in 0 .. heapsize - 1 : i \in 0 .. 2 * heapmax - 1 /\ i < heapmax
      BY <1>0
    <3>3. Grown \in [0 .. 2 * heapmax - 1 -> Timer \cup {NULL, Unwritten}]
      BY <1>0 DEF Grown
    <3>4. \A i \in 0 .. heapsize - 1 : Grown[i] = heap[i]
      BY <3>2 DEF Grown
    <3> HIDE DEF p, m
    <3> QED BY <3>1, <3>3, <3>4
  <2>2. CASE ~AtCapacity
    BY <1>0, <2>2 DEF Heappush
  <2> QED BY <2>1, <2>2
<1>3. heap' = SiftDown(q, 0, heapsize) /\ val \notin InHeap
  BY DEF Heappush
<1> HIDE DEF p, m
<1>4. /\ q \in [0 .. m - 1 -> Timer \cup {NULL, Unwritten}]
      /\ q[heapsize] = val
      /\ \A i \in 0 .. heapsize - 1 : q[i] = heap[i]
  BY <1>0, <1>1, <1>2
<1> HIDE DEF q
<1>5. \A i \in 0 .. n - 1 : i \in 0 .. heapsize - 1 \/ i = heapsize
  BY <1>0
<1>6. q \in Arrays(m, n, C)
  <2>1. Within(q, n) = C
    <3>1. ASSUME NEW i \in 0 .. n - 1 PROVE q[i] \in C
      BY <1>4, <1>5 DEF InHeap, Within
    <3>2. ASSUME NEW t \in C PROVE t \in Within(q, n)
      <4>1. heapsize \in 0 .. n - 1 /\ \A i \in 0 .. heapsize - 1 : i \in 0 .. n - 1
        BY <1>0
      <4> QED BY <1>4, <4>1 DEF InHeap, Within
    <3> QED BY <3>1, <3>2 DEF Within
  <2>2. C \subseteq Timer
    BY <1>0 DEF InHeap, Within
  <2>3. \A i, j \in 0 .. n - 1 : q[i] = q[j] => i = j
    <3>1. \A i, j \in 0 .. heapsize - 1 : heap[i] = heap[j] => i = j
      BY DEF HeapInv, NoDuplicates
    <3>2. \A i \in 0 .. heapsize - 1 : heap[i] # val
      BY <1>3 DEF InHeap, Within
    <3> QED BY <1>4, <1>5, <3>1, <3>2
  <2> QED BY <1>4, <2>1, <2>2, <2>3 DEF Arrays
<1>7. [p |-> q, pos |-> heapsize] \in Rising(m, n, C)
  <2>1. ASSUME NEW i \in 1 .. n - 1, i # heapsize PROVE seconds[q[Parent(i)]] <= seconds[q[i]]
    <3>1. i \in 1 .. heapsize - 1 /\ Parent(i) \in 0 .. heapsize - 1
      BY <1>0, <2>1, Parents
    <3>2. seconds[heap[Parent(i)]] <= seconds[heap[i]]
      BY <3>1 DEF HeapInv, HeapOrder
    <3> QED BY <1>4, <3>1, <3>2
  <2>2. \A i \in 1 .. n - 1 : Parent(i) # heapsize
    <3>1. \A i \in 1 .. n - 1 : Parent(i) < i
      BY <1>0, Parents
    <3> QED BY <1>0, <3>1
  <2>3. heapsize \in 0 .. n - 1
    BY <1>0
  <2> HIDE DEF n, C
  <2> QED BY <1>6, <2>1, <2>2, <2>3 DEF Rising
<1>8. heap' \in Arrays(m, n, C) /\ Ordered(heap', n)
  <2>1. m \in Nat /\ n \in 0 .. m
    BY <1>1
  <2> HIDE DEF n, C
  <2> QED BY <1>3, <1>7, <2>1, SiftDownOrders
<1>9. HeapInv' /\ InHeap' = C
  <2> HIDE DEF C, n
  <2> QED BY <1>0, <1>1, <1>8, HeapInvBecomes DEF m
<1> QED BY <1>1, <1>9

LEMMA PopKeepsHeap ==
  ASSUME HeapInv, Heappop
  PROVE  /\ HeapInv' /\ popped' = heap[0] /\ heap[0] \in Timer
         /\ InHeap' = InHeap \ {heap[0]}
         /\ heapsize' = 0 => InHeap' = {}
<1> DEFINE p == [heap EXCEPT ![heapsize - 1] = NULL]
           q == [p EXCEPT ![0] = heap[heapsize - 1]]
           n == heapsize - 1
           C == InHeap \ {heap[0]}
<1>0. /\ heapmax \in Nat \ {0} /\ heapsize \in 1 .. heapmax
      /\ heap \in [0 .. heapmax - 1 -> Timer \cup {NULL, Unwritten}]
      /\ \A i \in 0 .. heapsize - 1 : heap[i] \in Timer
      /\ \A i, j \in 0 .. heapsize - 1 : heap[i] = heap[j] => i = j
  BY DEF HeapInv, HeapTypeOK, NoDuplicates, Heappop
<1>1. heapmax' = heapmax /\ heapsize' = n /\ popped' = heap[0] /\ heap[0] \in Timer
  BY <1>0 DEF Heappop
<1>2. C \subseteq Timer
  BY <1>0 DEF InHeap, Within
<1>3. p \in [0 .. heapmax - 1 -> Timer \cup {NULL, Unwritten}]
      /\ \A i \in 0 .. n - 1 : p[i] = heap[i]
  BY <1>0
<1>4. CASE n = 0
  <2>1. heap' = p
    BY <1>4 DEF Heappop
  <2>2. C = {}
    BY <1>0, <1>4 DEF InHeap, Within
  <2>3. p \in Arrays(heapmax, 0, {}) /\ Ordered(p, 0)
    BY <1>3 DEF Arrays, Ordered, Within
  <2>4. HeapInv' /\ InHeap' = {}
    <3> HIDE DEF p, n
    <3> QED BY <1>0, <1>1, <1>4, <2>1, <2>3, HeapInvBecomes
  <2> QED BY <1>1, <2>2, <2>4
<1>5. CASE n > 0
  <2>1. heap' = SiftUp(q, n)
    BY <1>0, <1>5 DEF Heappop
  <2> HIDE DEF p
  <2>2. /\ q \in [0 .. heapmax - 1 -> Timer \cup {NULL, Unwritten}]
        /\ q[0] = heap[n] /\ \A i \in 1 .. n - 1 : q[i] = heap[i]
    BY <1>0, <1>3, <1>5
  <2> HIDE DEF q
  <2>3. q \in Arrays(heapmax, n, C)
    <3>1. \A i \in 0 .. n - 1 : i = 0 \/ i \in 1 .. n - 1
      BY <1>0
    <3>2. \A i \in 1 .. n : i \in 0 .. heapsize - 1 /\ heap[i] # heap[0]
      BY <1>0
    <3>3. n \in 0 .. heapsize - 1 /\ n \in 1 .. n /\ \A i \in 1 .. n - 1 : i \in 1 .. n /\ i \in 0 .. n - 1 /\ i # n
      BY <1>0, <1>5
    <3>4. \A i \in 0 .. heapsize - 1 : i = 0 \/ i = n \/ i \in 1 .. n - 1
      BY <1>0
    <3>5. 0 \in 0 .. n - 1
      BY <1>0, <1>5
    <3>6. Within(q, n) = C
      <4>1. ASSUME NEW i \in 0 .. n - 1 PROVE q[i] \in C
        <5>1. CASE i = 0
          BY <2>2, <3>2, <3>3, <5>1 DEF InHeap, Within
        <5>2. CASE i \in 1 .. n - 1
          BY <2>2, <3>2, <3>3, <5>2 DEF InHeap, Within
        <5> QED BY <3>1, <5>1, <5>2
      <4>2. ASSUME NEW t \in C PROVE t \in Within(q, n)
        <5>1. PICK i \in 0 .. heapsize - 1 : t = heap[i]
          BY DEF InHeap, Within
        <5>2. i # 0
          BY <5>1
        <5>3. CASE i = n
          BY <2>2, <3>5, <5>1, <5>3 DEF Within
        <5>4. CASE i \in 1 .. n - 1
          BY <2>2, <3>3, <5>1, <5>4 DEF Within
        <5> QED BY <3>4, <5>2, <5>3, <5>4
      <4> QED BY <4>1, <4>2 DEF Within
    <3>7. \A i, j \in 0 .. n - 1 : q[i] = q[j] => i = j
      <4>1. ASSUME NEW i \in 1 .. n - 1, NEW j \in 1 .. n - 1, q[i] = q[j] PROVE i = j
        BY <1>0, <2>2, <3>2, <3>3, <4>1
      <4>2. ASSUME NEW i \in 1 .. n - 1 PROVE q[i] # q[0]
        BY <1>0, <2>2, <3>2, <3>3
      <4> QED BY <3>1, <4>1, <4>2
    <3> QED BY <1>2, <2>2, <3>6, <3>7 DEF Arrays
  <2>4. [p |-> q, pos |-> 0] \in Sinking(heapmax, n, C)
    <3>1. ASSUME NEW i \in 1 .. n - 1, Parent(i) # 0 PROVE seconds[q[Parent(i)]] <= seconds[q[i]]
      <4>1. i \in 1 .. heapsize - 1 /\ Parent(i) \in 1 .. n - 1
        BY <1>0, <3>1, Parents
      <4>2. seconds[heap[Parent(i)]] <= seconds[heap[i]]
        BY <4>1 DEF HeapInv, HeapOrder
      <4> QED BY <2>2, <4>1, <4>2
    <3>2. 0 \in 0 .. n - 1
      BY <1>0, <1>5
    <3> HIDE DEF n, C
    <3> QED BY <2>3, <3>1, <3>2 DEF Sinking
  <2>5. heap' \in Arrays(heapmax, n, C) /\ Ordered(heap', n)
    <3>1. heapmax \in Nat /\ n \in 1 .. heapmax
      BY <1>0, <1>5
    <3> HIDE DEF n, C
    <3> QED BY <2>1, <2>4, <3>1, SiftUpOrders
  <2>6. HeapInv' /\ InHeap' = C
    <3>1. heapmax' \in Nat \ {0} /\ heapsize' \in 0 .. heapmax' /\ popped' \in Timer \cup {NULL}
      BY <1>0, <1>1
    <3> HIDE DEF C, n
    <3> QED BY <1>1, <2>5, <3>1, HeapInvBecomes
  <2> QED BY <1>1, <1>5, <2>6
<1> QED BY <1>0, <1>4, <1>5

LEMMA InitialHeap == InitHeap => HeapInv /\ InHeap = {}
BY HeapAssumption
   DEF InitHeap, HeapInv, HeapTypeOK, HeapOrder, NoDuplicates, InHeap, Within

LEMMA HeapStepKeepsHeap ==
  ASSUME HeapInv, [HeapStep]_heapVars
  PROVE  HeapInv'
<1>1. CASE HeappopEmpty
  BY <1>1 DEF HeappopEmpty, HeapInv, HeapTypeOK, HeapOrder, NoDuplicates
<1>2. CASE Heappop
  BY <1>2, PopKeepsHeap
<1>3. ASSUME NEW t \in Timer, Heappush(t) PROVE HeapInv'
  BY <1>3, PushKeepsHeap
<1>4. CASE UNCHANGED heapVars
  BY <1>4 DEF heapVars, HeapInv, HeapTypeOK, HeapOrder, NoDuplicates
<1> QED BY <1>1, <1>2, <1>3, <1>4 DEF HeapStep

(* src/heapq.c: whatever is pushed and popped, no timer is due before its  *)
(* parent in the array and none is in the array twice.                     *)
THEOREM HeapIsOrdered == HeapSpec => [](HeapTypeOK /\ HeapOrder /\ NoDuplicates)
<1>1. HeapInv <=> HeapTypeOK /\ HeapOrder /\ NoDuplicates
  BY DEF HeapInv
<1> QED BY <1>1, InitialHeap, HeapStepKeepsHeap, PTL DEF HeapSpec

LEMMA TopIsEarliest ==
  ASSUME NEW m \in Nat, NEW n \in 0 .. m, NEW C, NEW p \in Arrays(m, n, C), Ordered(p, n)
  PROVE  (IF n = 0 THEN NULL ELSE p[0]) \in Schedule!Earliest(C)
<1>1. CASE n = 0
  <2>1. C = {}
    BY <1>1 DEF Arrays, Within
  <2> QED BY <1>1, <2>1 DEF Schedule!Earliest
<1>2. CASE n # 0
  <2>1. n \in 1 .. m
    BY <1>2
  <2>2. p[0] \in C /\ \A t \in C : seconds[p[0]] <= seconds[t]
    BY <2>1, RootIsEarliest
  <2> QED BY <1>2, <2>2 DEF Schedule!Earliest
<1> QED BY <1>1, <1>2

(* src/heapq.c: the array with its two sifts is a priority queue: nothing  *)
(* is lost or doubled, and heappop returns a timer with the earliest       *)
(* deadline of those that were pushed and not popped, for any number of    *)
(* timers with any deadlines.                                              *)
THEOREM HeapImplementsPriorityQueue == HeapSpec => ImplementsPriorityQueue
<1>1. InitHeap => Schedule!Init
  BY InitialHeap DEF InitHeap, Schedule!Init
<1>2. ASSUME HeapInv, HeapInv', [HeapStep]_heapVars
      PROVE  [Schedule!Next]_Schedule!vars
  <2> DEFINE top == IF heapsize = 0 THEN NULL ELSE heap[0]
  <2>1. top' \in Schedule!Earliest(InHeap')
    <3>1. /\ heapmax' \in Nat /\ heapsize' \in 0 .. heapmax'
          /\ heap' \in [0 .. heapmax' - 1 -> Timer \cup {NULL, Unwritten}]
          /\ InHeap' \subseteq Timer
      BY <1>2 DEF HeapInv, HeapTypeOK, InHeap, Within
    <3>2. heap' \in Arrays(heapmax', heapsize', InHeap') /\ Ordered(heap', heapsize')
      BY <1>2, <3>1 DEF HeapInv, HeapOrder, NoDuplicates, Arrays, Ordered, InHeap
    <3> QED BY <3>1, <3>2, TopIsEarliest
  <2>2. CASE HeappopEmpty
    <3>1. InHeap = {} /\ InHeap' = {} /\ top = NULL /\ popped' = NULL
      BY <2>2 DEF HeappopEmpty, InHeap, Within
    <3> QED BY <2>1, <3>1 DEF Schedule!Next, Schedule!Pop
  <2>3. CASE Heappop
    <3>1. heapsize > 0
      BY <1>2, <2>3 DEF Heappop
    <3>2. top = heap[0] /\ popped' = heap[0] /\ InHeap' = InHeap \ {heap[0]}
      BY <1>2, <2>3, <3>1, PopKeepsHeap
    <3> QED BY <2>1, <3>2 DEF Schedule!Next, Schedule!Pop
  <2>4. ASSUME NEW t \in Timer, Heappush(t) PROVE Schedule!Push(t)
    <3>1. InHeap' = InHeap \cup {t} /\ t \notin InHeap /\ UNCHANGED popped
      BY <1>2, <2>4, PushKeepsHeap DEF Heappush
    <3> QED BY <2>1, <3>1 DEF Schedule!Push
  <2>5. CASE UNCHANGED heapVars
    BY <2>5 DEF heapVars, InHeap, Schedule!vars
  <2> QED BY <1>2, <2>2, <2>3, <2>4, <2>5 DEF HeapStep, Schedule!Next
<1>3. HeapSpec => []HeapInv
  BY InitialHeap, HeapStepKeepsHeap, PTL DEF HeapSpec
<1> QED BY <1>1, <1>2, <1>3, PTL DEF HeapSpec, ImplementsPriorityQueue, Schedule!Spec
-----------------------------------------------------------------------------
(* Names of messages.  Both passes of ares_expand_name, and those over a   *)
(* label, are loops as Looped describes them: that these exist, what they  *)
(* keep and when they are over is shown once for all.                      *)

(* The loop of Looped, from the number of turns to what they do.           *)
LoopOf(turn, n) ==
  CHOOSE t : t = [k \in 0 .. n |->
                    [s \in DOMAIN turn |->
                       IF k = 0 \/ turn[s] = s THEN s ELSE t[k - 1][turn[s]]]]

(* It exists; and that it is over when a turn changes nothing is the same  *)
(* as if it went on.                                                       *)
LEMMA LoopedIs ==
  ASSUME NEW n \in Nat, NEW turn
  PROVE  /\ Looped(turn, n) = LoopOf(turn, n)[n]
         /\ \A s \in DOMAIN turn : LoopOf(turn, n)[0][s] = s
         /\ \A k \in 1 .. n : \A s \in DOMAIN turn :
              LoopOf(turn, n)[k][s] = LoopOf(turn, n)[k - 1][turn[s]]
<1> DEFINE S == DOMAIN turn
           First == [s \in S |-> s]
           Later(f) == [s \in S |-> IF turn[s] = s THEN s ELSE f[turn[s]]]
           Row(t, k) == IF k = 0 THEN First ELSE Later(t[k - 1])
           IsLoop(t, m) == t = [k \in 0 .. m |-> Row(t, k)]
           K == {k \in 0 .. n : \E t : IsLoop(t, k)}
           loop == LoopOf(turn, n)
<1>0. ASSUME NEW t, NEW k \in 0 .. n
      PROVE  [s \in S |-> IF k = 0 \/ turn[s] = s THEN s ELSE t[k - 1][turn[s]]] = Row(t, k)
  BY <1>0
<1>1. 0 \in K
  <2> DEFINE t == [k \in 0 .. 0 |-> First]
  <2> HIDE DEF First, Later
  <2>1. IsLoop(t, 0)
    OBVIOUS
  <2>2. 0 \in 0 .. n
    OBVIOUS
  <2> HIDE DEF t, IsLoop
  <2> QED BY <2>1, <2>2, Zenon
<1>2. ASSUME NEW k \in 1 .. n, k - 1 \in K PROVE k \in K
  <2>1. PICK t : IsLoop(t, k - 1)
    <3> HIDE DEF IsLoop
    <3> QED BY <1>2, Zenon
  <2> DEFINE u == [j \in 0 .. k |-> Row(t, j)]
  <2> HIDE DEF First, Later
  <2>2. ASSUME NEW j \in 0 .. k - 1 PROVE u[j] = t[j]
    BY <2>1
  <2>3. ASSUME NEW j \in 0 .. k PROVE Row(u, j) = Row(t, j)
    <3>1. CASE j = 0
      BY <3>1
    <3>2. CASE j # 0
      <4>1. j - 1 \in 0 .. k - 1
        BY <3>2
      <4> HIDE DEF u
      <4> QED BY <2>2, <3>2, <4>1
    <3> QED BY <3>1, <3>2
  <2>4. IsLoop(u, k)
    BY <2>3
  <2>5. k \in 0 .. n
    OBVIOUS
  <2> HIDE DEF u, IsLoop
  <2> QED BY <2>4, <2>5, Zenon
<1>3. n \in K
  <2> HIDE DEF K
  <2> QED BY <1>1, <1>2, CountsUp
<1>4. IsLoop(loop, n)
  <2>1. PICK t : IsLoop(t, n)
    <3> HIDE DEF IsLoop
    <3> QED BY <1>3, Zenon
  <2>2. ASSUME NEW v
        PROVE  [k \in 0 .. n |-> [s \in DOMAIN turn |->
                                    IF k = 0 \/ turn[s] = s THEN s ELSE v[k - 1][turn[s]]]]
               = [k \in 0 .. n |-> Row(v, k)]
    <3> HIDE DEF Row
    <3> QED BY <1>0
  <2>3. \E v : v = [k \in 0 .. n |-> [s \in DOMAIN turn |->
                                    IF k = 0 \/ turn[s] = s THEN s ELSE v[k - 1][turn[s]]]]
    <3> HIDE DEF Row
    <3>1. t = [k \in 0 .. n |-> [s \in DOMAIN turn |->
                                    IF k = 0 \/ turn[s] = s THEN s ELSE t[k - 1][turn[s]]]]
      BY <2>1, <2>2
    <3> QED BY <3>1, Zenon
  <2>4. loop = [k \in 0 .. n |-> [s \in DOMAIN turn |->
                                    IF k = 0 \/ turn[s] = s THEN s ELSE loop[k - 1][turn[s]]]]
    BY <2>3, Zenon DEF LoopOf
  <2> HIDE DEF loop, Row
  <2> QED BY <2>2, <2>4
<1> HIDE DEF loop
<1>5. /\ \A s \in S : loop[0][s] = s
      /\ \A k \in 1 .. n : \A s \in S :
           loop[k][s] = IF turn[s] = s THEN s ELSE loop[k - 1][turn[s]]
  <2>1. loop[0] = First /\ \A k \in 1 .. n : loop[k] = Later(loop[k - 1])
    <3> HIDE DEF First, Later
    <3> QED BY <1>4
  <2>2. ASSUME NEW s \in S PROVE loop[0][s] = s
    BY <2>1
  <2>3. ASSUME NEW k \in 1 .. n, NEW s \in S
        PROVE  loop[k][s] = IF turn[s] = s THEN s ELSE loop[k - 1][turn[s]]
    <3>1. loop[k] = Later(loop[k - 1])
      BY <2>1
    <3> QED BY <3>1
  <2> QED BY <2>2, <2>3
<1>6. ASSUME NEW k \in 0 .. n, NEW s \in S, turn[s] = s PROVE loop[k][s] = s
  BY <1>5, <1>6
<1>7. Looped(turn, n) = LoopOf(turn, n)[n]
  BY DEF Looped, LoopOf
<1>8. ASSUME NEW k \in 1 .. n, NEW s \in S PROVE loop[k][s] = loop[k - 1][turn[s]]
  <2>1. CASE turn[s] = s
    <3>1. k - 1 \in 0 .. n /\ k \in 0 .. n
      OBVIOUS
    <3> QED BY <1>6, <2>1, <3>1
  <2>2. CASE turn[s] # s
    BY <1>5, <2>2
  <2> QED BY <2>1, <2>2
<1> QED BY <1>5, <1>7, <1>8 DEF loop

(* What both of two loops keep together when each does a turn, they keep.  *)
LEMMA LoopsKeep ==
  ASSUME NEW n \in Nat, NEW f, NEW g, NEW R \in SUBSET ((DOMAIN f) \X (DOMAIN g)),
         \A x \in DOMAIN f : \A y \in DOMAIN g : <<x, y>> \in R => <<f[x], g[y]>> \in R,
         NEW s \in DOMAIN f, NEW t \in DOMAIN g, <<s, t>> \in R
  PROVE  <<Looped(f, n)[s], Looped(g, n)[t]>> \in R
<1> DEFINE S == DOMAIN f
           T == DOMAIN g
           lf == LoopOf(f, n)
           lg == LoopOf(g, n)
           K == {k \in 0 .. n : \A x \in S : \A y \in T : <<x, y>> \in R => <<lf[k][x], lg[k][y]>> \in R}
<1>1. /\ \A x \in S : lf[0][x] = x
      /\ \A k \in 1 .. n : \A x \in S : lf[k][x] = lf[k - 1][f[x]]
      /\ Looped(f, n) = lf[n]
  BY LoopedIs, Zenon
<1>2. /\ \A y \in T : lg[0][y] = y
      /\ \A k \in 1 .. n : \A y \in T : lg[k][y] = lg[k - 1][g[y]]
      /\ Looped(g, n) = lg[n]
  BY LoopedIs, Zenon
<1>3. \A x, y : <<x, y>> \in R => x \in S /\ y \in T
  OBVIOUS
<1>0. \A x \in S : \A y \in T : <<x, y>> \in R => <<f[x], g[y]>> \in R
  OBVIOUS
<1> HIDE DEF lf, lg, S, T
<1>4. 0 \in K
  BY <1>1, <1>2
<1>5. ASSUME NEW k \in 1 .. n, k - 1 \in K PROVE k \in K
  <2>1. ASSUME NEW x \in S, NEW y \in T, <<x, y>> \in R PROVE <<lf[k][x], lg[k][y]>> \in R
    <3>1. <<f[x], g[y]>> \in R /\ f[x] \in S /\ g[y] \in T
      BY <1>0, <1>3, <2>1
    <3>2. <<lf[k - 1][f[x]], lg[k - 1][g[y]]>> \in R
      BY <1>5, <3>1
    <3> QED BY <1>1, <1>2, <3>2
  <2> QED BY <2>1
<1>6. n \in K
  <2> HIDE DEF K
  <2> QED BY <1>4, <1>5, CountsUp
<1> QED BY <1>1, <1>2, <1>6 DEF S, T

(* A loop stays where its turns stay; and it was where it has come to, if  *)
(* a turn cannot have gone there from elsewhere.                           *)
LEMMA LoopKeeps ==
  ASSUME NEW n \in Nat, NEW f, NEW I \in SUBSET (DOMAIN f), \A x \in I : f[x] \in I, NEW s \in I
  PROVE  Looped(f, n)[s] \in I
<1> DEFINE R == {p \in I \X I : p[1] = p[2]}
           t == Looped(f, n)[s]
<1>1. R \in SUBSET ((DOMAIN f) \X (DOMAIN f))
  OBVIOUS
<1>2. \A x \in DOMAIN f : \A y \in DOMAIN f : <<x, y>> \in R => <<f[x], f[y]>> \in R
  OBVIOUS
<1>3. s \in DOMAIN f /\ <<s, s>> \in R
  OBVIOUS
<1> HIDE DEF R
<1>4. <<Looped(f, n)[s], Looped(f, n)[s]>> \in R
  BY <1>1, <1>2, <1>3, LoopsKeep, Zenon
<1>5. <<t, t>> \in R
  BY <1>4
<1> HIDE DEF t
<1>6. t \in I
  BY <1>5 DEF R
<1> QED BY <1>6 DEF t

LEMMA LoopComesFrom ==
  ASSUME NEW n \in Nat, NEW f, NEW I \in SUBSET (DOMAIN f), \A x \in I : f[x] \in I,
         NEW G, \A x \in I : f[x] \in G => x \in G,
         NEW s \in I, Looped(f, n)[s] \in G
  PROVE  s \in G
<1> DEFINE loop == LoopOf(f, n)
           K == {k \in 0 .. n : \A x \in I : loop[k][x] \in G => x \in G}
<1>1. /\ \A x \in I : loop[0][x] = x
      /\ \A k \in 1 .. n : \A x \in I : loop[k][x] = loop[k - 1][f[x]]
      /\ Looped(f, n) = loop[n]
  BY LoopedIs
<1>2. 0 \in K
  BY <1>1
<1> HIDE DEF loop
<1>3. ASSUME NEW k \in 1 .. n, k - 1 \in K PROVE k \in K
  <2>1. ASSUME NEW x \in I, loop[k][x] \in G PROVE x \in G
    BY <1>1, <1>3, <2>1
  <2> QED BY <2>1
<1>4. n \in K
  <2> HIDE DEF K
  <2> QED BY <1>2, <1>3, CountsUp
<1> QED BY <1>1, <1>4

(* A loop is over within as many turns as a measure allows that they all   *)
(* lower: the next one would change nothing.                               *)
LEMMA LoopIsOver ==
  ASSUME NEW n \in Nat, NEW f, NEW I \in SUBSET (DOMAIN f), \A x \in I : f[x] \in I,
         NEW measure \in [I -> Nat],
         \A x \in I : f[x] = x \/ measure[f[x]] < measure[x],
         NEW s \in I, measure[s] <= n
  PROVE  f[Looped(f, n)[s]] = Looped(f, n)[s] /\ Looped(f, n)[f[s]] = Looped(f, n)[s]
<1> DEFINE loop == LoopOf(f, n)
           K == {k \in 0 .. n : \A x \in I : measure[x] <= k => f[loop[k][x]] = loop[k][x]}
<1>1. /\ \A x \in I : loop[0][x] = x
      /\ \A k \in 1 .. n : \A x \in I : loop[k][x] = loop[k - 1][f[x]]
      /\ Looped(f, n) = loop[n]
  BY LoopedIs
<1> HIDE DEF loop
<1>2. 0 \in K
  <2>1. ASSUME NEW x \in I, measure[x] <= 0 PROVE f[x] = x
    <3>1. measure[x] \in Nat /\ measure[f[x]] \in Nat
      OBVIOUS
    <3> QED BY <2>1, <3>1
  <2> QED BY <1>1, <2>1
<1>3. ASSUME NEW k \in 1 .. n, k - 1 \in K PROVE k \in K
  <2>1. ASSUME NEW x \in I, measure[x] <= k PROVE f[loop[k][x]] = loop[k][x]
    <3>1. measure[x] \in Nat /\ measure[f[x]] \in Nat /\ f[x] \in I
      OBVIOUS
    <3>2. CASE f[x] = x
      <4>1. ASSUME NEW j \in 0 .. n PROVE loop[j][x] = x
        <5> DEFINE J == {i \in 0 .. n : loop[i][x] = x}
        <5>1. 0 \in J
          BY <1>1
        <5>2. \A i \in 1 .. n : i - 1 \in J => i \in J
          BY <1>1, <3>2
        <5> HIDE DEF J
        <5>3. 0 .. n \subseteq J
          BY <5>1, <5>2, CountsUp
        <5> QED BY <5>3 DEF J
      <4> QED BY <3>2, <4>1
    <3>3. CASE measure[f[x]] < measure[x]
      <4>1. measure[f[x]] <= k - 1
        BY <2>1, <3>1, <3>3
      <4> QED BY <1>1, <1>3, <3>1, <4>1
    <3> QED BY <3>2, <3>3
  <2> QED BY <2>1
<1>4. n \in K
  <2> HIDE DEF K
  <2> QED BY <1>2, <1>3, CountsUp
<1>5. f[loop[n][s]] = loop[n][s]
  BY <1>4
<1>6. loop[n][f[s]] = f[loop[n][s]]
  <2> DEFINE J == {k \in 0 .. n : \A x \in I : loop[k][f[x]] = f[loop[k][x]]}
  <2>1. 0 \in J
    BY <1>1
  <2>2. ASSUME NEW k \in 1 .. n, k - 1 \in J PROVE k \in J
    BY <1>1, <2>2
  <2>3. n \in J
    <3> HIDE DEF J
    <3> QED BY <2>1, <2>2, CountsUp
  <2> QED BY <2>3
<1> QED BY <1>1, <1>5, <1>6

(* What a label is written as has the length that was counted for it.      *)
Bytes == 0 .. 255

LEMMA EscapedIs ==
  ASSUME NEW label \in Seq(Bytes)
  PROVE  /\ Escaped(label) \in Seq(Nat) /\ EscapedLength(label) \in Nat
         /\ Len(Escaped(label)) = EscapedLength(label)
<1> DEFINE S == [i : Nat, q : Seq(Nat)]
           T == [i : Nat, n : Nat]
           f == [s \in S |-> CopyByte(label, s)]
           g == [t \in T |-> CountByte(label, t)]
           n == Len(label)
           R == {p \in S \X T : /\ p[1].i = p[2].i /\ p[1].i <= n
                               /\ Len(p[1].q) = p[2].n}
           s == [i |-> 0, q |-> <<>>]
           t == [i |-> 0, n |-> 0]
<1>1. n \in Nat /\ R \in SUBSET ((DOMAIN f) \X (DOMAIN g))
  OBVIOUS
<1>2. ASSUME NEW x \in S, NEW y \in T, <<x, y>> \in R PROVE <<f[x], g[y]>> \in R
  <2>1. x.i \in Nat /\ y.i = x.i /\ x.i <= n /\ Len(x.q) = y.n /\ x.q \in Seq(Nat) /\ y.n \in Nat
    BY <1>2
  <2>2. f[x] = CopyByte(label, x) /\ g[y] = CountByte(label, y)
    OBVIOUS
  <2>3. CASE x.i = n
    BY <1>2, <2>1, <2>2, <2>3 DEF CopyByte, CountByte
  <2>4. CASE x.i # n
    <3> DEFINE c == At(label, x.i)
               more == EscapedByte(c)
               long == IF c \in {Dot, Backslash} THEN 2 ELSE 1
               q == x.q
    <3>1. c \in Nat
      <4>1. x.i + 1 \in 1 .. Len(label)
        BY <1>1, <2>1, <2>4
      <4>2. label[x.i + 1] \in Bytes
        BY <4>1, ElementOfSeq
      <4>3. c = label[x.i + 1]
        BY DEF At
      <4>4. Bytes \subseteq Nat
        BY DEF Bytes
      <4> HIDE DEF c
      <4> QED BY <4>2, <4>3, <4>4, Zenon
    <3>2. more \in Seq(Nat) /\ Len(more) = long
      <4> HIDE DEF c
      <4> QED BY <3>1 DEF EscapedByte, Dot, Backslash
    <3>3. /\ CopyByte(label, x) = [i |-> x.i + 1, q |-> q \o more]
          /\ CountByte(label, y) = [i |-> x.i + 1, n |-> y.n + long]
      BY <2>1, <2>4 DEF CopyByte, CountByte
    <3>0. q \in Seq(Nat) /\ long \in Nat /\ Len(q) = y.n
      BY <2>1
    <3> HIDE DEF more, c, long, q
    <3>4. q \o more \in Seq(Nat) /\ Len(q \o more) = Len(q) + Len(more)
      BY <3>0, <3>2, ConcatProperties, Zenon
    <3>5. x.i + 1 \in Nat /\ y.n + long \in Nat /\ x.i + 1 <= n /\ Len(q \o more) = y.n + long
      BY <1>1, <2>1, <2>4, <3>0, <3>2, <3>4
    <3>6. <<[i |-> x.i + 1, q |-> q \o more], [i |-> x.i + 1, n |-> y.n + long]>> \in R
      BY <3>4, <3>5
    <3> HIDE DEF R
    <3> QED BY <2>2, <3>3, <3>6
  <2> QED BY <2>3, <2>4
<1>3. s \in DOMAIN f /\ t \in DOMAIN g /\ <<s, t>> \in R
  <2>1. <<>> \in Seq(Nat) /\ Len(<<>>) = 0
    BY EmptySeq
  <2>2. s \in S /\ t \in T
    BY <2>1
  <2>3. /\ <<s, t>>[1].i = 0 /\ <<s, t>>[2].i = 0
        /\ <<s, t>>[1].q = <<>> /\ <<s, t>>[2].n = 0
    OBVIOUS
  <2>4. <<s, t>> \in S \X T /\ DOMAIN f = S /\ DOMAIN g = T
    BY <2>2
  <2> HIDE DEF s, t, S, T, f, g
  <2> QED BY <1>1, <2>1, <2>2, <2>3, <2>4
<1>4. Escaped(label) = Looped(f, n)[s].q /\ EscapedLength(label) = Looped(g, n)[t].n
  BY DEF Escaped, EscapedLength
<1>0. DOMAIN f = S /\ DOMAIN g = T
  OBVIOUS
<1> HIDE DEF f, g, R, s, t
<1>5. \A x \in DOMAIN f : \A y \in DOMAIN g : <<x, y>> \in R => <<f[x], g[y]>> \in R
  BY <1>0, <1>2, Zenon
<1>6. <<Looped(f, n)[s], Looped(g, n)[t]>> \in R
  BY <1>1, <1>3, <1>5, LoopsKeep, Zenon
<1> QED BY <1>4, <1>6 DEF R

(* The first pass.  Its states in a message, and where it comes from each. *)
MeasureState == [p : Nat, n : Nat, indir : Nat, ok : BOOLEAN]
MeasureTurn(abuf) == [s \in MeasureState |-> Measure(abuf, s)]
Reading(abuf) == {s \in MeasureState : s.p \in 0 .. Len(abuf) - 1 /\ s.indir <= Len(abuf)}
Final(abuf, s) == Looped(MeasureTurn(abuf), Turns(abuf))[s]

(* What stands at p is whole, and goes on inside of the message.           *)
GoesOn(abuf, p) ==
  /\ At(abuf, p) # 0
  /\ IsIndirect(At(abuf, p)) => p + 1 < Len(abuf)
  /\ Onward(abuf, p) \in 0 .. Len(abuf) - 1

LEMMA OnwardIs ==
  ASSUME NEW abuf \in Seq(Bytes), NEW p \in 0 .. Len(abuf) - 1
  PROVE  /\ At(abuf, p) \in Nat
         /\ ~IsIndirect(At(abuf, p)) => After(abuf, p) \in Nat /\ After(abuf, p) > p
         /\ IsIndirect(At(abuf, p)) /\ p + 1 < Len(abuf) => Offset(abuf, p) \in Nat
         /\ ~IsIndirect(At(abuf, p)) /\ After(abuf, p) < Len(abuf) =>
              LabelAt(abuf, p) \in Seq(Bytes)
<1>0. Len(abuf) \in Nat /\ p + 1 \in 1 .. Len(abuf)
  BY LenProperties
<1>1. At(abuf, p) \in Bytes
  BY <1>0, ElementOfSeq DEF At
<1>9. Bytes \subseteq Nat
  BY DEF Bytes
<1>2. At(abuf, p) \in Nat
  BY <1>1, <1>9, Zenon
<1> DEFINE b == At(abuf, p)
<1> HIDE DEF b
<1>3. b \in Nat
  BY <1>2 DEF b
<1>4. After(abuf, p) = p + 1 + b
  BY DEF After, b
<1>5. ASSUME p + 1 < Len(abuf), IsIndirect(b) PROVE Offset(abuf, p) \in Nat
  <2>1. p + 2 \in 1 .. Len(abuf)
    BY <1>0, <1>5
  <2>2. At(abuf, p + 1) \in Nat
    <3>1. abuf[p + 2] \in Bytes
      BY <2>1, ElementOfSeq
    <3>2. At(abuf, p + 1) = abuf[p + 2]
      BY DEF At
    <3> QED BY <1>9, <3>1, <3>2, Zenon
  <2> DEFINE c == At(abuf, p + 1)
  <2>3. Offset(abuf, p) = (b - 192) * 256 + c
    BY DEF Offset, b, IndirMask
  <2>4. b >= 192
    BY <1>5 DEF IsIndirect, IndirMask
  <2> HIDE DEF c
  <2> QED BY <1>3, <2>2, <2>3, <2>4 DEF c
<1>6. ASSUME After(abuf, p) < Len(abuf) PROVE LabelAt(abuf, p) \in Seq(Bytes)
  <2> DEFINE e == After(abuf, p)
  <2>1. e \in Int /\ e < Len(abuf) /\ p + 2 \in Int
    BY <1>0, <1>3, <1>4, <1>6
  <2> HIDE DEF e
  <2>2. \A i \in p + 2 .. e : i \in 1 .. Len(abuf)
    BY <1>0, <2>1
  <2>3. \A i \in p + 2 .. e : abuf[i] \in Bytes
    BY <2>2, ElementOfSeq
  <2>4. SubSeq(abuf, p + 2, e) \in Seq(Bytes)
    BY <2>1, <2>3, SubSeqProperties
  <2> QED BY <2>4 DEF LabelAt, e
<1> QED BY <1>3, <1>4, <1>5, <1>6 DEF b

(* A turn of the first pass: it is over, refuses, or goes on.              *)
LEMMA MeasureIs ==
  ASSUME NEW abuf \in Seq(Bytes), NEW s \in Reading(abuf)
  PROVE  /\ Measure(abuf, s) \in Reading(abuf)
         /\ ~s.ok \/ At(abuf, s.p) = 0 => Measure(abuf, s) = s
         /\ s.ok /\ At(abuf, s.p) # 0 =>
              \/ ~Measure(abuf, s).ok
              \/ /\ GoesOn(abuf, s.p)
                 /\ Measure(abuf, s).ok /\ Measure(abuf, s).p = Onward(abuf, s.p)
                 /\ IF IsIndirect(At(abuf, s.p))
                    THEN Measure(abuf, s).indir = s.indir + 1 /\ Measure(abuf, s).n = s.n
                    ELSE /\ Measure(abuf, s).indir = s.indir /\ Measure(abuf, s).p > s.p
                         /\ Measure(abuf, s).n = s.n + EscapedLength(LabelAt(abuf, s.p)) + 1
         /\ s.ok /\ GoesOn(abuf, s.p) /\ s.indir < Len(abuf) => Measure(abuf, s).ok
<1> DEFINE m == Measure(abuf, s)
           b == At(abuf, s.p)
           alen == Len(abuf)
           to == Offset(abuf, s.p)
           next == After(abuf, s.p)
           more == EscapedLength(LabelAt(abuf, s.p))
<1>1. /\ s.p \in 0 .. alen - 1 /\ s.indir <= alen /\ alen \in Nat
      /\ s = [p |-> s.p, n |-> s.n, indir |-> s.indir, ok |-> s.ok]
      /\ s.p \in Nat /\ s.n \in Nat /\ s.indir \in Nat /\ s.ok \in BOOLEAN
  BY LenProperties DEF Reading, MeasureState
<1>2. /\ b \in Nat
      /\ ~IsIndirect(b) => next \in Nat /\ next > s.p
      /\ IsIndirect(b) /\ s.p + 1 < alen => to \in Nat
      /\ ~IsIndirect(b) /\ next < alen => more \in Nat
  BY <1>1, OnwardIs, EscapedIs
<1>3. CASE ~s.ok \/ b = 0
  BY <1>3 DEF Measure, GoesOn
<1>4. CASE s.ok /\ b # 0 /\ IsIndirect(b)
  <2>1. CASE s.p + 1 >= alen \/ to >= alen \/ s.indir + 1 > alen
    <3>1. m = [s EXCEPT !.ok = FALSE]
      BY <1>4, <2>1 DEF Measure
    <3>2. m = [p |-> s.p, n |-> s.n, indir |-> s.indir, ok |-> FALSE]
      BY <1>1, <3>1
    <3>3. GoesOn(abuf, s.p) => s.p + 1 < alen /\ to < alen
      BY <1>1, <1>4 DEF GoesOn, Onward
    <3> HIDE DEF m, to
    <3> QED BY <1>1, <1>2, <1>4, <2>1, <3>2, <3>3 DEF Reading, MeasureState, m
  <2>2. CASE ~(s.p + 1 >= alen \/ to >= alen \/ s.indir + 1 > alen)
    <3>1. m = [s EXCEPT !.p = to, !.indir = @ + 1]
      BY <1>4, <2>2 DEF Measure
    <3>2. m = [p |-> to, n |-> s.n, indir |-> s.indir + 1, ok |-> TRUE]
      BY <1>1, <1>4, <3>1
    <3>3. Onward(abuf, s.p) = to
      BY <1>4 DEF Onward
    <3>4. s.p + 1 < alen /\ to \in 0 .. alen - 1 /\ s.indir + 1 <= alen
      BY <1>1, <1>2, <1>4, <2>2
    <3> HIDE DEF m, to, b, next, more
    <3> QED BY <1>1, <1>4, <3>2, <3>3, <3>4 DEF Reading, MeasureState, GoesOn, m, b
  <2> QED BY <2>1, <2>2
<1>5. CASE s.ok /\ b # 0 /\ ~IsIndirect(b)
  <2>1. CASE next >= alen
    <3>1. m = [s EXCEPT !.ok = FALSE]
      BY <1>5, <2>1 DEF Measure
    <3>2. m = [p |-> s.p, n |-> s.n, indir |-> s.indir, ok |-> FALSE]
      BY <1>1, <3>1
    <3>3. GoesOn(abuf, s.p) => next < alen
      BY <1>1, <1>5 DEF GoesOn, Onward
    <3> HIDE DEF m, next
    <3> QED BY <1>1, <1>2, <1>5, <2>1, <3>2, <3>3 DEF Reading, MeasureState, m
  <2>2. CASE ~(next >= alen)
    <3>1. m = [s EXCEPT !.p = next, !.n = @ + more + 1]
      BY <1>5, <2>2 DEF Measure
    <3>2. m = [p |-> next, n |-> s.n + more + 1, indir |-> s.indir, ok |-> TRUE]
      BY <1>1, <1>5, <3>1
    <3>3. Onward(abuf, s.p) = next
      BY <1>5 DEF Onward
    <3>4. next \in 0 .. alen - 1 /\ next > s.p /\ more \in Nat
      BY <1>1, <1>2, <1>5, <2>2
    <3> HIDE DEF m, to, b, next, more
    <3> QED BY <1>1, <1>5, <3>2, <3>3, <3>4 DEF Reading, MeasureState, GoesOn, m, b, more
  <2> QED BY <2>1, <2>2
<1> QED BY <1>1, <1>3, <1>4, <1>5

(* A name of a message that the first pass reads from s: where it comes to *)
(* is the same a turn later, it is over there, and what it has refused it  *)
(* has not read to the end.                                                *)
LEMMA FinalIs ==
  ASSUME NEW abuf \in Seq(Bytes), NEW s \in Reading(abuf)
  PROVE  /\ Final(abuf, s) \in Reading(abuf)
         /\ Final(abuf, Measure(abuf, s)) = Final(abuf, s)
         /\ ~s.ok \/ At(abuf, s.p) = 0 => Final(abuf, s) = s
         /\ Final(abuf, s).ok => At(abuf, Final(abuf, s).p) = 0
<1> DEFINE n == Turns(abuf)
           I == Reading(abuf)
           f == MeasureTurn(abuf)
           alen == Len(abuf)
           M(x) == IF x.ok THEN 1 + ((alen - x.indir) * alen + (alen - 1 - x.p)) ELSE 0
           measure == [x \in I |-> M(x)]
<1>0. alen \in Nat
  BY LenProperties
<1>1. \A x \in I : /\ x \in DOMAIN f /\ f[x] = Measure(abuf, x)
                  /\ x.p \in 0 .. alen - 1 /\ x.indir \in 0 .. alen /\ x.ok \in BOOLEAN
  BY <1>0 DEF Reading, MeasureTurn, MeasureState
<1>2. \A x \in I : f[x] \in I
  BY <1>1, MeasureIs
<1>3. n \in Nat /\ n = alen * alen + alen
  BY <1>0 DEF Turns
<1>4. ASSUME NEW x \in I PROVE M(x) \in Nat /\ M(x) <= n
  <2>1. CASE x.ok
    <3> DEFINE j == alen - x.indir
    <3>1. j \in 0 .. alen /\ x.p \in 0 .. alen - 1
      BY <1>0, <1>1
    <3> HIDE DEF j
    <3>2. j * alen \in Nat /\ j * alen <= alen * alen
      BY <1>0, <3>1
    <3>3. M(x) = 1 + (j * alen + (alen - 1 - x.p))
      BY <2>1 DEF j
    <3> DEFINE y == j * alen
               z == alen * alen
    <3> HIDE DEF y, z
    <3>4. z \in Nat
      BY <1>0 DEF z
    <3> HIDE DEF M, alen, n
    <3> QED BY <1>0, <1>3, <3>1, <3>2, <3>3, <3>4, SMTT(30) DEF y, z
  <2>2. CASE ~x.ok
    BY <1>3, <2>2
  <2> QED BY <2>1, <2>2
<1>5. ASSUME NEW x \in I PROVE f[x] = x \/ M(f[x]) < M(x)
  <2> DEFINE m == Measure(abuf, x)
  <2>0. f[x] = m /\ m \in I /\ m.p \in 0 .. alen - 1 /\ m.indir \in 0 .. alen
    BY <1>1, MeasureIs
  <2>1. CASE ~x.ok \/ At(abuf, x.p) = 0
    BY <2>0, <2>1, MeasureIs
  <2>2. CASE x.ok /\ At(abuf, x.p) # 0
    <3>1. CASE ~m.ok
      <4>1. M(m) = 0 /\ M(x) = 1 + ((alen - x.indir) * alen + (alen - 1 - x.p))
        BY <2>2, <3>1
      <4> DEFINE j == alen - x.indir
      <4>2. j \in Nat /\ alen - 1 - x.p \in Nat
        BY <1>0, <1>1
      <4>3. j * alen \in Nat
        <5> HIDE DEF j
        <5> QED BY <1>0, <4>2
      <4> QED BY <2>0, <4>1, <4>2, <4>3
    <3>2. CASE m.ok
      <4> DEFINE j == alen - x.indir
      <4>1. \/ m.indir = x.indir + 1
            \/ m.indir = x.indir /\ m.p > x.p
        BY <2>2, <3>2, MeasureIs
      <4>2. /\ M(x) = 1 + (j * alen + (alen - 1 - x.p))
            /\ M(m) = 1 + ((alen - m.indir) * alen + (alen - 1 - m.p))
        BY <2>2, <3>2
      <4>3. j \in Nat
        BY <1>0, <1>1
      <4>4. CASE m.indir = x.indir + 1
        <5>1. alen - m.indir = j - 1 /\ j - 1 \in Nat
          BY <1>0, <1>1, <2>0, <4>4
        <5> HIDE DEF j, M, m
        <5>2. (j - 1) * alen = j * alen - alen
          BY <1>0, <4>3
        <5> DEFINE y == j * alen
        <5>3. y \in Nat
          BY <1>0, <4>3
        <5> HIDE DEF y
        <5>4. M(m) = 1 + ((y - alen) + (alen - 1 - m.p)) /\ M(x) = 1 + (y + (alen - 1 - x.p))
          BY <4>2, <5>1, <5>2 DEF y
        <5> HIDE DEF alen
        <5> QED BY <1>0, <1>1, <2>0, <5>3, <5>4
      <4>5. CASE m.indir = x.indir /\ m.p > x.p
        <5> DEFINE y == j * alen
        <5> HIDE DEF M, m
        <5>1. M(m) = 1 + (y + (alen - 1 - m.p)) /\ M(x) = 1 + (y + (alen - 1 - x.p))
          BY <4>2, <4>5
        <5> HIDE DEF j
        <5>2. y \in Nat
          BY <1>0, <4>3
        <5> HIDE DEF y, alen
        <5> QED BY <1>0, <1>1, <2>0, <4>5, <5>1, <5>2
      <4> QED BY <4>1, <4>4, <4>5
    <3> QED BY <3>1, <3>2
  <2> QED BY <2>1, <2>2
<1>6. /\ measure \in [I -> Nat] /\ measure[s] <= n
      /\ \A x \in I : f[x] = x \/ measure[f[x]] < measure[x]
  <2> HIDE DEF M, f
  <2> QED BY <1>2, <1>4, <1>5
<1>7. I \in SUBSET (DOMAIN f)
  BY <1>1
<1>8. f[Looped(f, n)[s]] = Looped(f, n)[s] /\ Looped(f, n)[f[s]] = Looped(f, n)[s]
  <2>1. s \in I
    OBVIOUS
  <2> HIDE DEF f, I, n, measure
  <2> QED BY <1>2, <1>3, <1>6, <1>7, <2>1, LoopIsOver, ZenonT(60)
<1>9. Looped(f, n)[s] \in I
  <2> HIDE DEF f, n
  <2> QED BY <1>2, <1>3, <1>7, LoopKeeps
<1>10. ASSUME ~s.ok \/ At(abuf, s.p) = 0 PROVE Looped(f, n)[s] = s
  <2>1. f[s] = s
    BY <1>1, <1>10, MeasureIs
  <2>2. {s} \in SUBSET (DOMAIN f) /\ \A x \in {s} : f[x] \in {s}
    BY <1>1, <2>1
  <2> HIDE DEF f, n
  <2>3. Looped(f, n)[s] \in {s}
    BY <1>3, <2>2, LoopKeeps
  <2> QED BY <2>3
<1>11. Final(abuf, s) = Looped(f, n)[s] /\ Final(abuf, Measure(abuf, s)) = Looped(f, n)[f[s]]
  BY <1>1 DEF Final
<1>12. ASSUME Final(abuf, s).ok PROVE At(abuf, Final(abuf, s).p) = 0
  <2> DEFINE l == Final(abuf, s)
  <2>1. l \in I /\ Measure(abuf, l) = l
    BY <1>1, <1>8, <1>9, <1>11
  <2> HIDE DEF l
  <2>2. SUFFICES ASSUME l.ok, At(abuf, l.p) # 0 PROVE FALSE
    BY <1>12 DEF l
  <2>3. \/ Measure(abuf, l).indir = l.indir + 1
        \/ Measure(abuf, l).p > l.p
    BY <2>1, <2>2, MeasureIs
  <2>4. l.indir \in Nat /\ l.p \in Nat
    BY <2>1 DEF Reading, MeasureState
  <2> QED BY <2>1, <2>3, <2>4
<1> QED BY <1>8, <1>9, <1>10, <1>11, <1>12

(* What the first pass reads to its end is in every set that has its ends. *)
LEMMA AcceptedIsName ==
  ASSUME NEW abuf \in Seq(Bytes), NEW s \in Reading(abuf), Final(abuf, s).ok,
         NEW P, HasEnds(abuf, P)
  PROVE  s.p \in P
<1> DEFINE n == Turns(abuf)
           I == Reading(abuf)
           f == MeasureTurn(abuf)
           G == {x \in I : x.ok /\ x.p \in P}
           l == Final(abuf, s)
<1>1. /\ n \in Nat /\ I \in SUBSET (DOMAIN f)
      /\ \A x \in I : f[x] = Measure(abuf, x) /\ x.p \in 0 .. Len(abuf) - 1
  BY LenProperties DEF Turns, Reading, MeasureTurn
<1>2. \A x \in I : f[x] \in I
  BY <1>1, MeasureIs
<1>3. ASSUME NEW x \in I, f[x] \in G PROVE x \in G
  <2>1. Measure(abuf, x).ok /\ Measure(abuf, x).p \in P
    BY <1>1, <1>3
  <2>2. CASE ~x.ok \/ At(abuf, x.p) = 0
    BY <2>1, <2>2, <1>3, MeasureIs
  <2>3. CASE x.ok /\ At(abuf, x.p) # 0
    <3>1. GoesOn(abuf, x.p) /\ Measure(abuf, x).p = Onward(abuf, x.p)
      BY <2>1, <2>3, MeasureIs
    <3>2. x.p \in P
      BY <1>1, <2>1, <3>1 DEF HasEnds, GoesOn
    <3> QED BY <2>3, <3>2
  <2> QED BY <2>2, <2>3
<1>4. l \in G
  <2>1. l \in I /\ At(abuf, l.p) = 0
    BY FinalIs
  <2>2. l.p \in P
    BY <1>1, <2>1 DEF HasEnds
  <2> QED BY <2>1, <2>2
<1>5. s \in G
  <2>1. Looped(f, n)[s] \in G
    BY <1>4 DEF Final
  <2> HIDE DEF f, n, I, G
  <2> QED BY <1>1, <1>2, <1>3, <2>1, LoopComesFrom DEF I
<1> QED BY <1>5

(* All that the first pass reads to its end from P, with k pointers left.  *)
ReadFrom(abuf, P, k) ==
  \A x \in Reading(abuf) : x.p \in P /\ x.ok /\ x.indir + k <= Len(abuf) => Final(abuf, x).ok

(* A walk of a name comes by no position twice: as many pointers are left  *)
(* as it may need.  Sets from which the first pass reads with 0, 1, 2 ...  *)
(* pointers left grow until one of them has its ends, and they cannot grow *)
(* more often than there are positions.                                    *)
LEMMA NameIsAccepted ==
  ASSUME NEW abuf \in Seq(Bytes), NEW s \in Reading(abuf), s.ok, s.indir = 0,
         s.p \in NamesIn(abuf)
  PROVE  Final(abuf, s).ok
<1> DEFINE alen == Len(abuf)
           Pos == 0 .. alen - 1
           Enough(P, k) == HasEnds(abuf, P) /\ ReadFrom(abuf, P, k)
           Reached(k) == \E P \in SUBSET Pos : ReadFrom(abuf, P, k) /\ Cardinality(P) >= k
           K == {k \in 0 .. alen + 1 : Reached(k)}
<1>0. alen \in Nat /\ IsFiniteSet(Pos) /\ Cardinality(Pos) = alen
  <2>1. alen \in Nat
    BY LenProperties
  <2> DEFINE top == alen - 1
  <2>2. 0 \in Int /\ top \in Int
    BY <2>1
  <2>3. IF 0 > top THEN alen = 0 ELSE top - 0 + 1 = alen
    <3> HIDE DEF alen
    <3> QED BY <2>1
  <2> HIDE DEF top
  <2>4. IsFiniteSet(0 .. top) /\ Cardinality(0 .. top) = IF 0 > top THEN 0 ELSE top - 0 + 1
    BY <2>2, FS_Interval, Zenon
  <2>5. Cardinality(0 .. top) = alen
    <3> HIDE DEF alen
    <3> QED BY <2>3, <2>4, Zenon
  <2> QED BY <2>1, <2>4, <2>5, Zenon DEF top
<1>1. \E P \in SUBSET Pos : \E k \in 0 .. alen : Enough(P, k)
  <2> SUFFICES ASSUME \A P \in SUBSET Pos : \A k \in 0 .. alen : ~Enough(P, k)
               PROVE  FALSE
    OBVIOUS
  <2>1. 0 \in K
    <3>1. ReadFrom(abuf, {}, 0) /\ Cardinality({}) = 0
      BY FS_EmptySet DEF ReadFrom
    <3>2. Reached(0)
      BY <3>1
    <3> QED BY <1>0, <3>2
  <2>2. ASSUME NEW k \in 1 .. alen + 1, k - 1 \in K PROVE k \in K
    <3>1. PICK P \in SUBSET Pos : ReadFrom(abuf, P, k - 1) /\ Cardinality(P) >= k - 1
      BY <2>2
    <3>2. k - 1 \in 0 .. alen
      BY <1>0
    <3>3. ~HasEnds(abuf, P)
      BY <3>1, <3>2
    <3>4. PICK p \in Pos :
            /\ \/ At(abuf, p) = 0
               \/ (IsIndirect(At(abuf, p)) => p + 1 < Len(abuf)) /\ Onward(abuf, p) \in P
            /\ p \notin P
      BY <3>3 DEF HasEnds
    <3> DEFINE Q == P \cup {p}
    <3>5. Q \in SUBSET Pos /\ Cardinality(Q) >= k
      <4>1. IsFiniteSet(P) /\ Cardinality(P) \in Nat
        BY <1>0, FS_Subset, FS_CardinalityType
      <4>2. Cardinality(Q) = Cardinality(P) + 1
        BY <3>4, <4>1, FS_AddElement
      <4> QED BY <3>1, <3>4, <4>1, <4>2
    <3>6. ReadFrom(abuf, Q, k)
      <4>1. SUFFICES ASSUME NEW x \in Reading(abuf), x.p \in Q, x.ok, x.indir + k <= alen
                     PROVE  Final(abuf, x).ok
        BY DEF ReadFrom
      <4>2. x.indir \in Nat /\ x.indir < alen /\ x.indir + (k - 1) <= alen
        BY <1>0, <4>1 DEF Reading, MeasureState
      <4>3. CASE x.p \in P
        BY <3>1, <4>1, <4>2, <4>3 DEF ReadFrom
      <4>4. CASE x.p = p /\ At(abuf, p) = 0
        BY <4>1, <4>4, FinalIs
      <4>5. CASE x.p = p /\ At(abuf, p) # 0
        <5> DEFINE m == Measure(abuf, x)
        <5>1. GoesOn(abuf, p) /\ Onward(abuf, p) \in P
          BY <3>4, <4>5 DEF GoesOn
        <5>2. m \in Reading(abuf) /\ m.ok
          BY <4>1, <4>2, <4>5, <5>1, MeasureIs
        <5>3. m.p = Onward(abuf, p) /\ (m.indir = x.indir \/ m.indir = x.indir + 1)
          BY <4>1, <4>5, <5>2, MeasureIs
        <5>4. Final(abuf, x) = Final(abuf, m)
          BY FinalIs
        <5> HIDE DEF m
        <5>5. m.indir + (k - 1) <= alen
          BY <1>0, <4>1, <4>2, <5>3
        <5>6. Final(abuf, m).ok
          BY <3>1, <5>1, <5>2, <5>3, <5>5 DEF ReadFrom
        <5> QED BY <5>4, <5>6
      <4> QED BY <4>1, <4>3, <4>4, <4>5
    <3>7. k \in 0 .. alen + 1
      BY <1>0
    <3> HIDE DEF Q
    <3> QED BY <3>5, <3>6, <3>7
  <2>3. alen + 1 \in K
    <3> HIDE DEF K
    <3>1. alen + 1 \in Nat
      BY <1>0
    <3> DEFINE a == alen + 1
    <3> HIDE DEF alen, a
    <3>2. 0 .. a \subseteq K
      BY <2>1, <2>2, <3>1, CountsUp DEF a
    <3> QED BY <3>1, <3>2 DEF a
  <2>4. PICK P \in SUBSET Pos : Cardinality(P) >= alen + 1
    BY <2>3
  <2>5. Cardinality(P) \in Nat /\ Cardinality(P) <= alen
    <3> HIDE DEF Pos, alen
    <3>1. IsFiniteSet(P) /\ Cardinality(P) <= Cardinality(Pos)
      BY <1>0, FS_Subset, Zenon
    <3>2. Cardinality(P) \in Nat
      BY <3>1, FS_CardinalityType, Zenon
    <3> QED BY <1>0, <3>1, <3>2
  <2> HIDE DEF Pos, alen
  <2> QED BY <1>0, <2>4, <2>5
<1>2. PICK P \in SUBSET Pos, k \in 0 .. alen : HasEnds(abuf, P) /\ ReadFrom(abuf, P, k)
  BY <1>1
<1>3. s.p \in P
  BY <1>2 DEF NamesIn
<1>4. s.indir + k <= alen
  BY <1>0
<1> QED BY <1>2, <1>3, <1>4 DEF ReadFrom

(* The second pass, and how its state y goes with that of the first, x.    *)
ExpandState == [p : Nat, q : Seq(Nat), enclen : Nat]
ExpandTurn(abuf, encoded) == [y \in ExpandState |-> Expand(abuf, encoded, y)]

Together(abuf, encoded) ==
  {pair \in MeasureState \X ExpandState :
     LET x == pair[1]
         y == pair[2]
     IN /\ x \in Reading(abuf) /\ Final(abuf, x).ok
        /\ y.p = x.p /\ Len(y.q) = x.n
        /\ IF y.enclen = 0 THEN encoded <= y.p ELSE encoded + y.enclen <= Len(abuf)}

LEMMA OkBefore ==
  ASSUME NEW abuf \in Seq(Bytes), NEW s \in Reading(abuf), Final(abuf, s).ok
  PROVE  s.ok /\ Measure(abuf, s).ok
<1>1. s.ok
  BY FinalIs
<1>2. Measure(abuf, s) \in Reading(abuf) /\ Final(abuf, Measure(abuf, s)).ok
  BY MeasureIs, FinalIs
<1>3. Measure(abuf, s).ok
  BY <1>2, FinalIs
<1> QED BY <1>1, <1>3

LEMMA ExpandFollows ==
  ASSUME NEW abuf \in Seq(Bytes), NEW encoded \in Nat,
         NEW x \in MeasureState, NEW y \in ExpandState, <<x, y>> \in Together(abuf, encoded)
  PROVE  <<Measure(abuf, x), Expand(abuf, encoded, y)>> \in Together(abuf, encoded)
<1> DEFINE m == Measure(abuf, x)
           e == Expand(abuf, encoded, y)
           b == At(abuf, y.p)
           alen == Len(abuf)
<1>1. /\ x \in Reading(abuf) /\ Final(abuf, x).ok /\ x.ok /\ m.ok
      /\ y.p = x.p /\ Len(y.q) = x.n
      /\ IF y.enclen = 0 THEN encoded <= y.p ELSE encoded + y.enclen <= alen
  BY OkBefore DEF Together
<1>2. /\ y = [p |-> y.p, q |-> y.q, enclen |-> y.enclen]
      /\ y.p \in Nat /\ y.q \in Seq(Nat) /\ y.enclen \in Nat /\ alen \in Nat
  BY LenProperties DEF ExpandState
<1>3. m \in Reading(abuf) /\ m \in MeasureState /\ Final(abuf, m).ok
  BY <1>1, MeasureIs, FinalIs DEF Reading
<1>4. CASE b = 0
  <2>1. m = x /\ e = y
    BY <1>1, <1>4, MeasureIs DEF Expand
  <2> QED BY <2>1
<1>5. CASE b # 0 /\ IsIndirect(b)
  <2>1. GoesOn(abuf, y.p) /\ m.p = Offset(abuf, y.p) /\ m.n = x.n
    BY <1>1, <1>5, MeasureIs DEF Onward
  <2>2. y.p + 1 < alen /\ m.p \in Nat
    BY <1>3, <1>5, <2>1 DEF GoesOn, MeasureState
  <2> DEFINE len == IF y.enclen = 0 THEN y.p + 2 - encoded ELSE y.enclen
  <2>3. e = [y EXCEPT !.p = Offset(abuf, y.p), !.enclen = len]
    BY <1>5 DEF Expand
  <2>4. e = [p |-> m.p, q |-> y.q, enclen |-> len]
    BY <1>2, <2>1, <2>3
  <2>5. len \in Nat /\ len # 0 /\ encoded + len <= alen
    BY <1>1, <1>2, <2>2
  <2> HIDE DEF m, e, len
  <2>6. e \in ExpandState /\ e.p = m.p /\ e.q = y.q /\ e.enclen = len
    BY <1>2, <2>2, <2>4, <2>5 DEF ExpandState
  <2>7. <<m, e>> \in Together(abuf, encoded)
    BY <1>1, <1>3, <2>1, <2>5, <2>6 DEF Together
  <2> QED BY <2>7 DEF m, e
<1>6. CASE b # 0 /\ ~IsIndirect(b)
  <2> DEFINE label == LabelAt(abuf, y.p)
             q == y.q \o Escaped(label) \o <<Dot>>
  <2>1. GoesOn(abuf, y.p) /\ m.p = After(abuf, y.p) /\ m.n = x.n + EscapedLength(label) + 1 /\ m.p > x.p
    BY <1>1, <1>6, MeasureIs DEF Onward
  <2>2. After(abuf, y.p) < alen /\ y.p \in 0 .. alen - 1 /\ m.p \in Nat
    BY <1>1, <1>2, <1>3, <1>6, <2>1 DEF GoesOn, Onward, Reading, MeasureState
  <2>3. label \in Seq(Bytes)
    BY <1>6, <2>2, OnwardIs
  <2>4. /\ Escaped(label) \in Seq(Nat) /\ EscapedLength(label) \in Nat
        /\ Len(Escaped(label)) = EscapedLength(label)
    BY <2>3, EscapedIs
  <2>5. q \in Seq(Nat) /\ Len(q) = m.n
    <3> DEFINE u == y.q
               v == Escaped(label)
    <3>1. u \in Seq(Nat) /\ v \in Seq(Nat) /\ <<Dot>> \in Seq(Nat) /\ Len(<<Dot>>) = 1
      BY <1>2, <2>4 DEF Dot
    <3> HIDE DEF u, v, label, m
    <3>2. u \o v \in Seq(Nat) /\ Len(u \o v) = Len(u) + Len(v)
      BY <3>1, ConcatProperties, Zenon
    <3>3. (u \o v) \o <<Dot>> \in Seq(Nat) /\ Len((u \o v) \o <<Dot>>) = Len(u \o v) + Len(<<Dot>>)
      BY <3>1, <3>2, ConcatProperties, Zenon
    <3>4. Len((u \o v) \o <<Dot>>) = m.n
      BY <1>1, <2>1, <2>4, <3>1, <3>2, <3>3 DEF u, v
    <3> QED BY <3>3, <3>4 DEF u, v
  <2>6. e = [y EXCEPT !.p = After(abuf, y.p), !.q = q]
    BY <1>6 DEF Expand
  <2>7. e = [p |-> m.p, q |-> q, enclen |-> y.enclen]
    BY <1>2, <2>1, <2>6
  <2> HIDE DEF m, e, q, label
  <2>8. e \in ExpandState /\ e.p = m.p /\ e.q = q /\ e.enclen = y.enclen
    BY <1>2, <2>2, <2>5, <2>7 DEF ExpandState
  <2>9. IF e.enclen = 0 THEN encoded <= e.p ELSE encoded + e.enclen <= alen
    BY <1>1, <1>2, <2>1, <2>2, <2>8
  <2>10. <<m, e>> \in Together(abuf, encoded)
    BY <1>3, <2>5, <2>8, <2>9 DEF Together
  <2> QED BY <2>10 DEF m, e
<1> QED BY <1>4, <1>5, <1>6

(* What a message's name is read as, from the two passes.                  *)
LEMMA PassesAgree ==
  ASSUME NEW abuf \in Seq(Bytes), NEW encoded \in 0 .. Len(abuf) - 1, Measured(abuf, encoded).ok
  PROVE  <<Measured(abuf, encoded), Expanded(abuf, encoded)>> \in Together(abuf, encoded)
<1> DEFINE s == [p |-> encoded, n |-> 0, indir |-> 0, ok |-> TRUE]
           t == [p |-> encoded, q |-> <<>>, enclen |-> 0]
           f == MeasureTurn(abuf)
           g == ExpandTurn(abuf, encoded)
           n == Turns(abuf)
           R == Together(abuf, encoded)
<1>1. Len(abuf) \in Nat /\ encoded \in Nat /\ n \in Nat
  BY LenProperties DEF Turns
<1>2. Measured(abuf, encoded) = Looped(f, n)[s] /\ Measured(abuf, encoded) = Final(abuf, s)
  BY DEF Measured, MeasureTurn, MeasureState, Final
<1>3. Expanded(abuf, encoded) = Looped(g, n)[t]
  BY DEF Expanded, ExpandTurn, ExpandState
<1>4. s \in Reading(abuf) /\ s \in MeasureState /\ Final(abuf, s).ok
  BY <1>1, <1>2 DEF Reading, MeasureState
<1>5. t \in ExpandState /\ t.p = s.p /\ t.enclen = 0 /\ t.p = encoded /\ Len(t.q) = s.n
  <2>1. <<>> \in Seq(Nat) /\ Len(<<>>) = 0
    BY EmptySeq
  <2> QED BY <1>1, <2>1 DEF ExpandState
<1> HIDE DEF s, t
<1>6. <<s, t>> \in R
  <2>1. <<s, t>> \in MeasureState \X ExpandState /\ <<s, t>>[1] = s /\ <<s, t>>[2] = t
    BY <1>4, <1>5
  <2>2. IF t.enclen = 0 THEN encoded <= t.p ELSE encoded + t.enclen <= Len(abuf)
    BY <1>1, <1>5
  <2> QED BY <1>4, <1>5, <2>1, <2>2, Zenon DEF Together
<1>7. /\ DOMAIN f = MeasureState /\ \A x \in MeasureState : f[x] = Measure(abuf, x)
      /\ DOMAIN g = ExpandState /\ \A y \in ExpandState : g[y] = Expand(abuf, encoded, y)
  BY DEF MeasureTurn, ExpandTurn
<1> HIDE DEF f, g, n
<1>8. R \in SUBSET ((DOMAIN f) \X (DOMAIN g))
  BY <1>7 DEF Together
<1>9. \A x \in DOMAIN f : \A y \in DOMAIN g : <<x, y>> \in R => <<f[x], g[y]>> \in R
  BY <1>1, <1>7, ExpandFollows
<1> HIDE DEF R
<1>10. <<Looped(f, n)[s], Looped(g, n)[t]>> \in R
  BY <1>1, <1>4, <1>5, <1>6, <1>7, <1>8, <1>9, LoopsKeep, Zenon
<1> QED BY <1>2, <1>3, <1>10 DEF R

LEMMA NamesAreRead == ASSUME NEW abuf \in Seq(Bytes) PROVE ReadsNames(abuf)
<1> SUFFICES ASSUME NEW p \in 0 .. Len(abuf)
             PROVE  LET name == ExpandName(abuf, p)
                        nlen == NameLength(abuf, p)
                        end == Measured(abuf, p)
                    IN /\ name.status = "SUCCESS" <=> p \in NamesIn(abuf)
                       /\ p < Len(abuf) /\ end.ok => At(abuf, end.p) = 0
                       /\ name.status = "SUCCESS" =>
                            /\ Len(name.s) = nlen
                            /\ nlen > 0 => Expanded(abuf, p).p = end.p
                            /\ p + name.enclen <= Len(abuf)
  BY DEF ReadsNames
<1> DEFINE name == ExpandName(abuf, p)
           nlen == NameLength(abuf, p)
           end == Measured(abuf, p)
           whole == Expanded(abuf, p)
           alen == Len(abuf)
           s == [p |-> p, n |-> 0, indir |-> 0, ok |-> TRUE]
<1>0. alen \in Nat /\ p \in Nat
  BY LenProperties
<1>1. CASE p = alen
  <2>1. nlen = -1 /\ name = EBADNAME
    BY <1>1 DEF NameLength, ExpandName
  <2>2. p \notin NamesIn(abuf)
    BY <1>0, <1>1 DEF NamesIn
  <2> QED BY <1>0, <1>1, <2>1, <2>2 DEF EBADNAME
<1>2. CASE p # alen
  <2>0. p \in 0 .. alen - 1
    BY <1>0, <1>2
  <2>1. s \in Reading(abuf) /\ s.ok /\ s.indir = 0 /\ s.p = p
    BY <1>0, <2>0 DEF Reading, MeasureState
  <2>2. end = Final(abuf, s)
    BY DEF Measured, MeasureTurn, MeasureState, Final
  <2> HIDE DEF s
  <2>3. end \in Reading(abuf) /\ (end.ok => At(abuf, end.p) = 0)
    BY <2>1, <2>2, FinalIs
  <2>4. end.ok <=> p \in NamesIn(abuf)
    <3>1. ASSUME end.ok PROVE p \in NamesIn(abuf)
      <4>1. \A P : HasEnds(abuf, P) => p \in P
        BY <2>1, <2>2, <3>1, AcceptedIsName
      <4> QED BY <2>0, <4>1 DEF NamesIn
    <3>2. ASSUME p \in NamesIn(abuf) PROVE end.ok
      BY <2>1, <2>2, <3>2, NameIsAccepted
    <3> QED BY <3>1, <3>2
  <2>5. CASE ~end.ok
    <3>1. nlen = -1 /\ name = EBADNAME
      BY <2>5 DEF NameLength, ExpandName
    <3> QED BY <2>4, <2>5, <3>1 DEF EBADNAME
  <2>6. CASE end.ok
    <3>1. nlen = IF end.n = 0 THEN 0 ELSE end.n - 1
      BY <1>2, <2>6 DEF NameLength
    <3>2. end.n \in Nat /\ end.p \in 0 .. alen - 1
      BY <2>3 DEF Reading, MeasureState
    <3>3. <<end, whole>> \in Together(abuf, p)
      BY <2>0, <2>6, PassesAgree
    <3>4. /\ whole.p = end.p /\ Len(whole.q) = end.n /\ whole.q \in Seq(Nat) /\ whole.enclen \in Nat
          /\ IF whole.enclen = 0 THEN p <= whole.p ELSE p + whole.enclen <= alen
      BY <3>3 DEF Together, ExpandState
    <3>5. CASE nlen = 0
      <4>1. name = [status |-> "SUCCESS", s |-> <<>>,
                    enclen |-> IF IsIndirect(At(abuf, p)) THEN 2 ELSE 1]
        BY <3>5 DEF ExpandName
      <4>2. IsIndirect(At(abuf, p)) => p + 1 < alen
        <5>1. Measure(abuf, s).ok
          BY <2>1, <2>2, <2>6, OkBefore
        <5>2. IsIndirect(At(abuf, p)) => At(abuf, p) # 0
          BY DEF IsIndirect, IndirMask
        <5> QED BY <2>1, <5>1, <5>2, MeasureIs DEF GoesOn
      <4> HIDE DEF nlen, end, whole
      <4>3. p + name.enclen <= alen
        BY <1>0, <2>0, <4>1, <4>2
      <4>4. name.status = "SUCCESS" /\ Len(name.s) = 0
        BY <4>1
      <4> HIDE DEF name
      <4> QED BY <2>3, <2>4, <2>6, <3>5, <4>3, <4>4 DEF name, nlen, end, whole
    <3>6. CASE nlen # 0
      <4>1. nlen > 0 /\ nlen = end.n - 1 /\ end.n \in Nat /\ end.n > 1
        BY <3>1, <3>2, <3>6
      <4>2. name = [status |-> "SUCCESS", s |-> SubSeq(whole.q, 1, Len(whole.q) - 1),
                    enclen |-> IF whole.enclen = 0 THEN whole.p + 1 - p ELSE whole.enclen]
        BY <4>1 DEF ExpandName
      <4> HIDE DEF nlen, end, whole
      <4>3. p + name.enclen <= alen
        BY <1>0, <3>2, <3>4, <4>2
      <4>4. Len(SubSeq(whole.q, 1, Len(whole.q) - 1)) = nlen
        <5> DEFINE q == whole.q
        <5>1. q \in Seq(Nat) /\ Len(q) \in Nat /\ Len(q) > 1
          BY <3>4, <4>1
        <5> HIDE DEF q
        <5>2. \A i \in 1 .. Len(q) - 1 : q[i] \in Nat
          BY <5>1
        <5>3. Len(SubSeq(q, 1, Len(q) - 1)) = Len(q) - 1
          BY <5>1, <5>2, SubSeqProperties
        <5> QED BY <3>4, <4>1, <5>3 DEF q
      <4>5. name.status = "SUCCESS" /\ Len(name.s) = nlen
        BY <4>2, <4>4
      <4> HIDE DEF name
      <4> QED BY <2>3, <2>4, <2>6, <3>4, <4>3, <4>5 DEF name, nlen, end, whole
    <3> QED BY <3>5, <3>6
  <2> QED BY <2>5, <2>6
<1> QED BY <1>1, <1>2

(* A message is bytes, whatever has been received.                         *)
MessageInv == message \in Seq(Bytes)

LEMMA MessageIsBytes == MessageSpec => []MessageInv
<1>1. InitMessage => MessageInv
  BY EmptySeq DEF InitMessage, MessageInv
<1>2. MessageInv /\ [MessageStep]_message => MessageInv'
  <2> SUFFICES ASSUME MessageInv, [MessageStep]_message PROVE MessageInv'
    OBVIOUS
  <2> USE DEF MessageInv
  <2>1. CASE Receive
    <3> PICK byte \in Byte : message' = Append(message, byte)
      BY <2>1 DEF Receive
    <3>1. byte \in Bytes
      BY ByteAssumption DEF Bytes
    <3>2. Append(message, byte) \in Seq(Bytes)
      BY <3>1, AppendProperties
    <3> QED BY <3>2
  <2>2. CASE Discard
    <3>1. message' = <<>>
      BY <2>2 DEF Discard
    <3> QED BY <3>1, EmptySeq
  <2>3. CASE UNCHANGED message
    BY <2>3
  <2> QED BY <2>1, <2>2, <2>3 DEF MessageStep
<1> QED BY <1>1, <1>2, PTL DEF MessageSpec

(* ares_expand_name, for every message of any bytes: a name is read if and *)
(* only if it ends inside of the message, both passes end, within the      *)
(* turns that the limit on the pointers allows, and at the same byte, and  *)
(* the text is as long as the room that was made for it.                   *)
THEOREM NamesAreExpanded == MessageSpec => []ExpandsNames
<1>1. MessageInv => ExpandsNames
  BY NamesAreRead DEF ExpandsNames, MessageInv
<1> QED BY <1>1, MessageIsBytes, PTL
-----------------------------------------------------------------------------
(* Names as text and as bytes of a message.  What a sequence has at p.     *)
HasAt(s, p, piece) ==
  p + Len(piece) <= Len(s) /\ \A i \in 1 .. Len(piece) : s[p + i] = piece[i]

LEMMA HasBoth ==
  ASSUME NEW s \in Seq(Bytes), NEW p \in Nat, NEW a \in Seq(Bytes), NEW b \in Seq(Bytes)
  PROVE  HasAt(s, p, a \o b) <=> (HasAt(s, p, a) /\ HasAt(s, p + Len(a), b))
<1> DEFINE m == Len(a)
           n == Len(b)
           c == a \o b
<1>1. m \in Nat /\ n \in Nat /\ Len(s) \in Nat
  BY LenProperties
<1>2. Len(c) = m + n /\ \A i \in 1 .. m + n : c[i] = IF i <= m THEN a[i] ELSE b[i - m]
  BY ConcatProperties
<1> HIDE DEF c
<1>3. ASSUME HasAt(s, p, c) PROVE HasAt(s, p, a) /\ HasAt(s, p + m, b)
  <2>1. p + (m + n) <= Len(s) /\ \A i \in 1 .. m + n : s[p + i] = c[i]
    BY <1>2, <1>3 DEF HasAt
  <2>2. \A i \in 1 .. m : s[p + i] = a[i]
    BY <1>1, <1>2, <2>1
  <2>3. ASSUME NEW i \in 1 .. n PROVE s[(p + m) + i] = b[i]
    <3>1. m + i \in 1 .. m + n /\ ~ (m + i <= m) /\ (m + i) - m = i /\ p + (m + i) = (p + m) + i
      BY <1>1
    <3>2. s[p + (m + i)] = c[m + i] /\ c[m + i] = b[(m + i) - m]
      BY <1>2, <2>1, <3>1
    <3> QED BY <3>1, <3>2
  <2> QED BY <1>1, <2>1, <2>2, <2>3 DEF HasAt
<1>4. ASSUME HasAt(s, p, a), HasAt(s, p + m, b) PROVE HasAt(s, p, c)
  <2>1. \A i \in 1 .. m : s[p + i] = a[i]
    BY <1>4 DEF HasAt
  <2>2. (p + m) + n <= Len(s) /\ \A i \in 1 .. n : s[(p + m) + i] = b[i]
    BY <1>4 DEF HasAt
  <2>3. ASSUME NEW i \in 1 .. m + n PROVE s[p + i] = c[i]
    <3>1. CASE i <= m
      BY <1>1, <1>2, <2>1, <3>1
    <3>2. CASE ~ (i <= m)
      <4>1. i - m \in 1 .. n /\ (p + m) + (i - m) = p + i
        BY <1>1, <3>2
      <4>2. s[(p + m) + (i - m)] = b[i - m]
        BY <2>2, <4>1
      <4> QED BY <1>2, <3>2, <4>1, <4>2
    <3> QED BY <3>1, <3>2
  <2>4. p + (m + n) <= Len(s)
    BY <1>1, <2>2
  <2> QED BY <1>2, <2>3, <2>4 DEF HasAt
<1> QED BY <1>3, <1>4 DEF c

(* A label and its text: the fewest pairs with the empty label, and with   *)
(* every label to which a byte is added.                                   *)
AddsBytes(P) ==
  /\ <<<<>>, <<>>>> \in P
  /\ \A l, e \in Seq(Bytes), c \in Bytes :
       <<l, e>> \in P => <<Append(l, c), e \o EscapedByte(c)>> \in P

SpelledLabel(l, e) == \A P : AddsBytes(P) => <<l, e>> \in P

LEMMA ByteIsEscaped ==
  ASSUME NEW c \in Bytes
  PROVE  /\ EscapedByte(c) \in Seq(Bytes) /\ c \in Nat
         /\ c \in {Dot, Backslash} => Len(EscapedByte(c)) = 2 /\ EscapedByte(c)[1] = Backslash /\ EscapedByte(c)[2] = c
         /\ c \notin {Dot, Backslash} => EscapedByte(c) = <<c>> /\ Len(EscapedByte(c)) = 1 /\ EscapedByte(c)[1] = c
<1>1. c \in Nat /\ Backslash \in Bytes
  BY DEF Bytes, Backslash
<1>2. CASE c \in {Dot, Backslash}
  <2>1. EscapedByte(c) = <<Backslash, c>>
    BY <1>2 DEF EscapedByte
  <2> QED BY <1>1, <1>2, <2>1
<1>3. CASE c \notin {Dot, Backslash}
  <2>1. EscapedByte(c) = <<c>>
    BY <1>3 DEF EscapedByte
  <2> QED BY <1>1, <1>3, <2>1
<1> QED BY <1>2, <1>3

LEMMA LabelGrows ==
  ASSUME NEW l \in Seq(Bytes), NEW e \in Seq(Bytes), NEW c \in Bytes, SpelledLabel(l, e)
  PROVE  SpelledLabel(Append(l, c), e \o EscapedByte(c))
BY DEF SpelledLabel, AddsBytes

(* What the loop over a label writes is its text.                          *)
LEMMA EscapedIsSpelled ==
  ASSUME NEW label \in Seq(Bytes)
  PROVE  Escaped(label) \in Seq(Bytes) /\ SpelledLabel(label, Escaped(label))
<1> DEFINE S == [i : Nat, q : Seq(Nat)]
           f == [s \in S |-> CopyByte(label, s)]
           n == Len(label)
           I == {s \in S : s.i <= n /\ s.q \in Seq(Bytes) /\ SpelledLabel(SubSeq(label, 1, s.i), s.q)}
           measure == [s \in I |-> n - s.i]
           s0 == [i |-> 0, q |-> <<>>]
<1>1. n \in Nat /\ \A i \in 1 .. n : label[i] \in Bytes
  BY LenProperties, ElementOfSeq
<1>2. ASSUME NEW s \in I, s.i # n
      PROVE  f[s] \in I /\ f[s].i = s.i + 1
  <2> DEFINE i == s.i
             q == s.q
             c == label[i + 1]
             u == q \o EscapedByte(c)
             l == SubSeq(label, 1, i)
  <2>1. /\ i \in Nat /\ i <= n /\ q \in Seq(Bytes) /\ SpelledLabel(l, q) /\ s \in S
    OBVIOUS
  <2>2. i + 1 \in 1 .. n /\ c \in Bytes
    BY <1>1, <1>2, <2>1
  <2>3. f[s] = [i |-> i + 1, q |-> u]
    BY <1>2, <2>1 DEF CopyByte, At
  <2>4. SubSeq(label, 1, i + 1) = Append(l, c) /\ l \in Seq(Bytes)
    <3>1. SubSeq(label, 1, i + 1) = SubSeq(label, 1, (i + 1) - 1) \o <<label[i + 1]>>
      <4>1. 1 \in 1 .. Len(label) /\ i + 1 \in 1 .. Len(label)
        BY <1>1, <2>1, <2>2
      <4> QED BY <4>1, SubSeqRecursiveSecond, Zenon
    <3>2. (i + 1) - 1 = i
      BY <2>1
    <3>3. l \in Seq(Bytes)
      <4>1. \A j \in 1 .. i : label[j] \in Bytes
        BY <1>1, <2>1
      <4> QED BY <2>1, <4>1, SubSeqProperties
    <3>4. Append(l, c) = l \o <<c>>
      BY <2>2, <3>3, AppendIsConcat
    <3> QED BY <3>1, <3>2, <3>3, <3>4
  <2> HIDE DEF l, c
  <2>5. u \in Seq(Bytes)
    BY <2>1, <2>2, ByteIsEscaped, ConcatProperties
  <2>6. SpelledLabel(SubSeq(label, 1, i + 1), u)
    BY <2>1, <2>2, <2>4, LabelGrows
  <2>7. u \in Seq(Nat)
    <3>1. Bytes \subseteq Nat
      BY DEF Bytes
    <3> HIDE DEF u
    <3> QED BY <2>5, <3>1, SeqMonotonic, Zenon
  <2> HIDE DEF u, i, f
  <2>8. [i |-> i + 1, q |-> u] \in I
    BY <1>1, <2>1, <2>2, <2>5, <2>6, <2>7
  <2> HIDE DEF I
  <2> QED BY <2>3, <2>8 DEF i
<1>3. ASSUME NEW s \in I, s.i = n PROVE f[s] = s
  BY <1>3 DEF CopyByte
<1>4. s0 \in I
  <2>1. SpelledLabel(<<>>, <<>>)
    BY DEF SpelledLabel, AddsBytes
  <2>2. SubSeq(label, 1, 0) = <<>>
    BY SubSeqEmpty
  <2>3. <<>> \in Seq(Bytes) /\ <<>> \in Seq(Nat)
    BY EmptySeq
  <2>4. s0 \in S /\ s0.i = 0 /\ s0.q = <<>> /\ 0 <= n
    BY <1>1, <2>3
  <2> HIDE DEF s0, S
  <2>5. SpelledLabel(SubSeq(label, 1, s0.i), s0.q)
    BY <2>1, <2>2, <2>4
  <2> QED BY <2>3, <2>4, <2>5
<1>5. measure \in [I -> Nat] /\ \A s \in I : measure[s] = n - s.i
  BY <1>1
<1>6. I \in SUBSET (DOMAIN f)
  OBVIOUS
<1>7. \A s \in I : s.i \in Nat /\ s.i <= n /\ s.q \in Seq(Bytes) /\ SpelledLabel(SubSeq(label, 1, s.i), s.q)
  OBVIOUS
<1>8. Escaped(label) = Looped(f, n)[s0].q
  BY DEF Escaped
<1>0. s0.i = 0
  OBVIOUS
<1> HIDE DEF I, f, measure, s0
<1>9. \A s \in I : f[s] \in I
  BY <1>2, <1>3
<1>10. \A s \in I : f[s] = s \/ measure[f[s]] < measure[s]
  BY <1>1, <1>2, <1>3, <1>5, <1>7, <1>9, SMTT(30)
<1>11. measure[s0] <= n
  BY <1>0, <1>1, <1>4, <1>5
<1> DEFINE r == Looped(f, n)[s0]
<1>12. f[r] = r
  BY <1>1, <1>4, <1>5, <1>6, <1>9, <1>10, <1>11, LoopIsOver, ZenonT(60)
<1>13. r \in I
  BY <1>1, <1>4, <1>6, <1>9, LoopKeeps, Zenon
<1> HIDE DEF r
<1>14. r.i = n
  <2>1. SUFFICES ASSUME r.i # n PROVE FALSE
    OBVIOUS
  <2>2. r.i = r.i + 1
    BY <1>2, <1>12, <1>13, <2>1
  <2> QED BY <1>7, <1>13, <2>2
<1>15. SubSeq(label, 1, n) = label
  BY SubSeqFull
<1> QED BY <1>7, <1>8, <1>13, <1>14, <1>15 DEF r

(* A label that is not empty has a text that does not begin with a dot, and*)
(* one without dots and backslashes is its own text.                       *)
TextFacts(l, e) ==
  /\ Len(l) > 0 => Len(e) > 0 /\ e[1] # Dot
  /\ (\A i \in 1 .. Len(l) : l[i] \notin {Dot, Backslash}) => e = l

LEMMA EscapedSays ==
  ASSUME NEW label \in Seq(Bytes)
  PROVE  TextFacts(label, Escaped(label))
<1> DEFINE P == {pair \in Seq(Bytes) \X Seq(Bytes) : TextFacts(pair[1], pair[2])}
<1>1. <<<<>>, <<>>>> \in P
  <2>1. <<>> \in Seq(Bytes) /\ Len(<<>>) = 0
    BY EmptySeq
  <2>2. TextFacts(<<>>, <<>>)
    BY <2>1 DEF TextFacts
  <2> QED BY <2>1, <2>2
<1>2. ASSUME NEW l \in Seq(Bytes), NEW e \in Seq(Bytes), NEW c \in Bytes, TextFacts(l, e)
      PROVE  /\ Append(l, c) \in Seq(Bytes) /\ e \o EscapedByte(c) \in Seq(Bytes)
             /\ TextFacts(Append(l, c), e \o EscapedByte(c))
  <2> DEFINE m == Append(l, c)
             b == EscapedByte(c)
             f == e \o b
  <2>1. /\ m \in Seq(Bytes) /\ Len(m) = Len(l) + 1 /\ m[Len(l) + 1] = c
        /\ \A i \in 1 .. Len(l) : m[i] = l[i]
    BY AppendProperties
  <2>2. Len(l) \in Nat /\ Len(e) \in Nat
    BY LenProperties
  <2>3. b \in Seq(Bytes) /\ Len(b) \in {1, 2} /\ b[1] # Dot
    BY ByteIsEscaped DEF Dot, Backslash
  <2> HIDE DEF b
  <2>4. /\ f \in Seq(Bytes) /\ Len(f) = Len(e) + Len(b)
        /\ \A i \in 1 .. Len(e) + Len(b) : f[i] = IF i <= Len(e) THEN e[i] ELSE b[i - Len(e)]
    BY <2>3, ConcatProperties
  <2>5. Len(f) > 0 /\ f[1] # Dot
    <3>1. Len(f) > 0
      BY <2>2, <2>3, <2>4
    <3>2. CASE Len(e) > 0
      <4>1. Len(l) > 0
        <5>1. SUFFICES ASSUME Len(l) = 0 PROVE FALSE
          BY <2>2
        <5>2. e = l
          BY <1>2, <5>1 DEF TextFacts
        <5> QED BY <3>2, <5>1, <5>2
      <4>2. e[1] # Dot
        BY <1>2, <4>1 DEF TextFacts
      <4> QED BY <2>2, <2>3, <2>4, <3>1, <3>2, <4>2
    <3>3. CASE Len(e) = 0
      <4>1. f[1] = b[1]
        BY <2>3, <2>4, <3>3
      <4> QED BY <2>3, <3>1, <4>1
    <3> QED BY <2>2, <3>2, <3>3
  <2>6. ASSUME \A i \in 1 .. Len(m) : m[i] \notin {Dot, Backslash} PROVE f = m
    <3>1. c \notin {Dot, Backslash}
      BY <2>1, <2>2, <2>6
    <3>2. \A i \in 1 .. Len(l) : l[i] \notin {Dot, Backslash}
      BY <2>1, <2>2, <2>6
    <3>3. e = l
      BY <1>2, <3>2 DEF TextFacts
    <3>4. b = <<c>>
      BY <3>1, ByteIsEscaped DEF b
    <3> QED BY <3>3, <3>4, AppendIsConcat
  <2> HIDE DEF f, m
  <2>7. TextFacts(m, f)
    BY <2>5, <2>6 DEF TextFacts
  <2> QED BY <2>1, <2>4, <2>7 DEF f, m, b
<1>3. AddsBytes(P)
  <2>1. ASSUME NEW l \in Seq(Bytes), NEW e \in Seq(Bytes), NEW c \in Bytes, <<l, e>> \in P
        PROVE  <<Append(l, c), e \o EscapedByte(c)>> \in P
    <3>1. TextFacts(l, e)
      BY <2>1
    <3>2. /\ Append(l, c) \in Seq(Bytes) /\ e \o EscapedByte(c) \in Seq(Bytes)
          /\ TextFacts(Append(l, c), e \o EscapedByte(c))
      BY <1>2, <3>1
    <3> QED BY <3>2
  <2> HIDE DEF P
  <2> QED BY <1>1, <2>1 DEF AddsBytes
<1>4. <<label, Escaped(label)>> \in P
  <2> HIDE DEF P
  <2> QED BY <1>3, EscapedIsSpelled DEF SpelledLabel
<1> QED BY <1>4

-----------------------------------------------------------------------------
(* The loop over the characters of a label.                                *)
CopyState == [p : Nat, bytes : Seq(Nat)]
CopyTurn(text) == [s \in CopyState |-> CopyChar(text, s)]
Copying(text) == {s \in CopyState : s.p <= Len(text) /\ s.bytes \in Seq(Bytes)}
CopiedFrom(text, s) == Looped(CopyTurn(text), Len(text))[s]

InLabel(text, p) == p < Len(text) /\ At(text, p) # Dot

LEMMA CopyIs ==
  ASSUME NEW text \in Seq(Bytes), NEW s \in Copying(text)
  PROVE  /\ CopyChar(text, s) \in Copying(text)
         /\ s.p \in Nat /\ s.p <= Len(text) /\ s.bytes \in Seq(Bytes)
         /\ ~InLabel(text, s.p) => CopyChar(text, s) = s
         /\ InLabel(text, s.p) =>
              /\ CopyChar(text, s) = [p |-> CharAt(text, s.p) + 1,
                                      bytes |-> Append(s.bytes, At(text, CharAt(text, s.p)))]
              /\ CharAt(text, s.p) \in s.p .. Len(text) - 1
              /\ At(text, CharAt(text, s.p)) \in Bytes
<1> DEFINE p == s.p
           c == CharAt(text, p)
           n == Len(text)
           t == CopyChar(text, s)
<1>1. /\ p \in Nat /\ p <= n /\ n \in Nat /\ s.bytes \in Seq(Bytes)
      /\ s = [p |-> s.p, bytes |-> s.bytes] /\ s \in CopyState
  BY LenProperties DEF Copying, CopyState
<1>2. CASE ~InLabel(text, p)
  BY <1>1, <1>2 DEF CopyChar, InLabel
<1>3. CASE InLabel(text, p)
  <2>1. p < n /\ At(text, p) # Dot
    BY <1>3 DEF InLabel
  <2>2. c \in p .. n - 1
    BY <1>1, <2>1 DEF CharAt
  <2>3. t = [p |-> c + 1, bytes |-> Append(s.bytes, At(text, c))]
    BY <1>1, <2>1 DEF CopyChar
  <2> HIDE DEF c, t
  <2>4. At(text, c) \in Bytes
    <3>1. c + 1 \in 1 .. n
      BY <1>1, <2>2
    <3> QED BY <3>1, ElementOfSeq DEF At
  <2> DEFINE b == At(text, c)
             u == Append(s.bytes, b)
  <2>5. u \in Seq(Bytes)
    <3> HIDE DEF b
    <3> QED BY <1>1, <2>4, AppendProperties DEF b
  <2>6. u \in Seq(Nat)
    <3>1. Bytes \subseteq Nat
      BY DEF Bytes
    <3> HIDE DEF u
    <3> QED BY <2>5, <3>1, SeqMonotonic, Zenon
  <2> HIDE DEF u
  <2>7. t.p = c + 1 /\ t.bytes = u /\ t \in CopyState
    BY <1>1, <2>2, <2>3, <2>6 DEF CopyState, u
  <2>8. t \in Copying(text)
    BY <1>1, <2>2, <2>5, <2>7 DEF Copying
  <2> QED BY <1>1, <1>3, <2>2, <2>3, <2>4, <2>8 DEF c, t
<1> QED BY <1>2, <1>3

LEMMA CopiedIs ==
  ASSUME NEW text \in Seq(Bytes), NEW s \in Copying(text)
  PROVE  /\ CopiedFrom(text, s) \in Copying(text)
         /\ CopiedFrom(text, CopyChar(text, s)) = CopiedFrom(text, s)
         /\ ~InLabel(text, CopiedFrom(text, s).p)
         /\ ~InLabel(text, s.p) => CopiedFrom(text, s) = s
<1> DEFINE n == Len(text)
           I == Copying(text)
           f == CopyTurn(text)
           measure == [x \in I |-> n - x.p]
           r == Looped(f, n)[s]
<1>0. n \in Nat
  BY LenProperties
<1>1. \A x \in I : /\ x \in DOMAIN f /\ f[x] = CopyChar(text, x)
                  /\ x.p \in Nat /\ x.p <= n
  BY DEF Copying, CopyTurn, CopyState
<1>2. \A x \in I : f[x] \in I
  BY <1>1, CopyIs
<1>3. \A x \in I : InLabel(text, x.p) => f[x].p > x.p
  <2> SUFFICES ASSUME NEW x \in I, InLabel(text, x.p) PROVE f[x].p > x.p
    OBVIOUS
  <2>1. CharAt(text, x.p) \in x.p .. n - 1 /\ f[x].p = CharAt(text, x.p) + 1
    BY <1>1, CopyIs
  <2> QED BY <1>0, <1>1, <2>1
<1>4. \A x \in I : ~InLabel(text, x.p) => f[x] = x
  BY <1>1, CopyIs
<1>5. measure \in [I -> Nat] /\ \A x \in I : measure[x] = n - x.p
  BY <1>0, <1>1
<1>6. I \in SUBSET (DOMAIN f) /\ s \in I
  BY <1>1
<1>11. CopiedFrom(text, s) = r /\ CopiedFrom(text, CopyChar(text, s)) = Looped(f, n)[f[s]]
  BY <1>1 DEF CopiedFrom
<1> HIDE DEF f, I, measure, n
<1>7. \A x \in I : f[x] = x \/ measure[f[x]] < measure[x]
  <2> SUFFICES ASSUME NEW x \in I, f[x] # x PROVE measure[f[x]] < measure[x]
    OBVIOUS
  <2>1. f[x].p > x.p /\ f[x] \in I
    BY <1>2, <1>3, <1>4
  <2> QED BY <1>0, <1>1, <1>5, <2>1
<1>8. measure[s] <= n
  BY <1>0, <1>1, <1>5, <1>6
<1>9. f[r] = r /\ Looped(f, n)[f[s]] = r
  BY <1>0, <1>2, <1>5, <1>6, <1>7, <1>8, LoopIsOver, Zenon
<1>10. r \in I
  BY <1>0, <1>2, <1>6, LoopKeeps, Zenon
<1>12. ~InLabel(text, r.p)
  <2> HIDE DEF r
  <2>1. SUFFICES ASSUME InLabel(text, r.p) PROVE FALSE
    OBVIOUS
  <2>2. f[r].p > r.p /\ r.p \in Nat
    BY <1>1, <1>3, <1>10, <2>1
  <2> QED BY <1>9, <2>2
<1>13. ASSUME ~InLabel(text, s.p) PROVE r = s
  <2>1. f[s] = s
    BY <1>4, <1>6, <1>13
  <2>2. {s} \in SUBSET (DOMAIN f) /\ \A x \in {s} : f[x] \in {s}
    BY <1>6, <2>1
  <2>3. Looped(f, n)[s] \in {s}
    BY <1>0, <2>2, LoopKeeps
  <2> QED BY <2>3
<1> QED BY <1>9, <1>10, <1>11, <1>12, <1>13 DEF I

Plain(s) == \A i \in 1 .. Len(s) : s[i] # Backslash

(* The label at p of a text has a byte at least, and ends at a dot or at   *)
(* the end of the text; without backslashes it is what stands there.       *)
LEMMA LabelIs ==
  ASSUME NEW text \in Seq(Bytes), NEW p \in Nat, InLabel(text, p)
  PROVE  LET label == Label(text, p) IN
         /\ label.bytes \in Seq(Bytes) /\ Len(label.bytes) > 0
         /\ label.p \in p + 1 .. Len(text)
         /\ label.p < Len(text) => At(text, label.p) = Dot
         /\ Plain(text) => /\ label.bytes = SubSeq(text, p + 1, label.p)
                           /\ Escaped(label.bytes) = label.bytes
<1> DEFINE n == Len(text)
           I == Copying(text)
           f == CopyTurn(text)
           s0 == [p |-> p, bytes |-> <<>>]
           r == CopiedFrom(text, s0)
           Copies(s) == /\ s.bytes = SubSeq(text, p + 1, s.p)
                        /\ \A i \in 1 .. Len(s.bytes) : s.bytes[i] \notin {Dot, Backslash}
           J == {s \in I : s.p >= p /\ (s.p > p => Len(s.bytes) > 0) /\ (Plain(text) => Copies(s))}
<1>0. n \in Nat /\ p < n
  BY LenProperties DEF InLabel
<1>1. s0 \in J
  <2>1. <<>> \in Seq(Nat) /\ <<>> \in Seq(Bytes) /\ Len(<<>>) = 0
    BY EmptySeq
  <2>2. SubSeq(text, p + 1, p) = <<>>
    BY SubSeqEmpty
  <2>3. s0.p = p /\ s0.bytes = <<>> /\ s0 \in CopyState
    BY <2>1 DEF CopyState
  <2> HIDE DEF s0
  <2>4. s0 \in I
    <3>1. s0.p <= Len(text) /\ s0.bytes \in Seq(Bytes)
      BY <1>0, <2>1, <2>3
    <3> QED BY <2>3, <3>1, Zenon DEF Copying
  <2>5. Copies(s0)
    BY <2>1, <2>2, <2>3
  <2> HIDE DEF I, Copies
  <2> QED BY <2>3, <2>4, <2>5
<1>2. ASSUME NEW s \in J PROVE CopyChar(text, s) \in J
  <2>1. s \in I /\ s.p >= p /\ (s.p > p => Len(s.bytes) > 0) /\ (Plain(text) => Copies(s))
    OBVIOUS
  <2>2. s.p \in Nat /\ s.p <= n /\ s.bytes \in Seq(Bytes) /\ Len(s.bytes) \in Nat
    BY <2>1, CopyIs, LenProperties
  <2>3. CASE ~InLabel(text, s.p)
    BY <2>1, <2>3, CopyIs
  <2>4. CASE InLabel(text, s.p)
    <3> DEFINE c == CharAt(text, s.p)
               b == At(text, c)
               t == CopyChar(text, s)
               u == Append(s.bytes, b)
    <3>1. t \in I /\ t = [p |-> c + 1, bytes |-> u] /\ c \in s.p .. n - 1 /\ b \in Bytes
      BY <2>1, <2>4, CopyIs
    <3>2. /\ u \in Seq(Bytes) /\ Len(u) = Len(s.bytes) + 1 /\ u[Len(s.bytes) + 1] = b
          /\ \A i \in 1 .. Len(s.bytes) : u[i] = s.bytes[i]
      BY <2>2, <3>1, AppendProperties
    <3>3. t.p = c + 1 /\ t.bytes = u
      BY <3>1
    <3>4. ASSUME Plain(text) PROVE Copies(t)
      <4>1. s.p + 1 \in 1 .. n
        BY <2>2, <2>4, <1>0 DEF InLabel
      <4>2. At(text, s.p) \notin {Dot, Backslash}
        BY <2>4, <3>4, <4>1 DEF Plain, InLabel, At
      <4>3. c = s.p /\ b = text[s.p + 1] /\ b \notin {Dot, Backslash}
        BY <4>2 DEF CharAt, At
      <4> HIDE DEF c, b, t
      <4>4. \A i \in 1 .. Len(u) : u[i] \notin {Dot, Backslash}
        <5>1. Copies(s)
          BY <2>1, <3>4
        <5>2. \A i \in 1 .. Len(s.bytes) : s.bytes[i] \notin {Dot, Backslash}
          BY <5>1
        <5> HIDE DEF u, J, Copies, I
        <5>3. ASSUME NEW i \in 1 .. Len(u) PROVE u[i] \notin {Dot, Backslash}
          <6>1. i \in 1 .. Len(s.bytes) \/ i = Len(s.bytes) + 1
            BY <2>2, <3>2
          <6> QED BY <3>2, <4>3, <5>2, <6>1, Zenon
        <5> QED BY <5>3
      <4>5. u = SubSeq(text, p + 1, c + 1)
        <5>1. p + 1 \in 1 .. n /\ s.p + 1 \in p + 1 .. n
          BY <1>0, <2>1, <2>2, <4>1
        <5>2. SubSeq(text, p + 1, s.p + 1) = SubSeq(text, p + 1, (s.p + 1) - 1) \o <<text[s.p + 1]>>
          BY <5>1, SubSeqRecursiveSecond, Zenon
        <5>3. (s.p + 1) - 1 = s.p
          BY <2>2
        <5>4. s.bytes = SubSeq(text, p + 1, s.p)
          BY <2>1, <3>4
        <5>5. u = s.bytes \o <<b>>
          BY <2>2, <3>1, AppendIsConcat
        <5> QED BY <4>3, <5>2, <5>3, <5>4, <5>5
      <4> HIDE DEF u
      <4> QED BY <3>3, <4>4, <4>5
    <3> HIDE DEF c, b, t, u, Copies, I
    <3>5. t.p > p /\ Len(t.bytes) > 0
      BY <2>1, <2>2, <3>1, <3>2, <3>3
    <3>6. t \in J
      BY <2>2, <3>1, <3>4, <3>5
    <3> QED BY <3>6 DEF t
  <2> QED BY <2>3, <2>4
<1>3. r \in J
  <2>1. J \in SUBSET (DOMAIN f) /\ \A s \in J : f[s] = CopyChar(text, s)
    BY DEF CopyTurn, Copying
  <2> HIDE DEF f, J
  <2>2. \A s \in J : f[s] \in J
    BY <1>2, <2>1
  <2>3. Looped(f, n)[s0] \in J
    BY <1>0, <1>1, <2>1, <2>2, LoopKeeps
  <2> QED BY <2>3 DEF f, CopiedFrom
<1>4. Label(text, p) = r
  BY DEF Label, CopiedFrom, CopyTurn, CopyState
<1>5. /\ r \in I /\ ~InLabel(text, r.p) /\ r.p >= p /\ (r.p > p => Len(r.bytes) > 0)
      /\ Plain(text) => Copies(r)
  BY <1>1, <1>3, CopiedIs
<1>6. r.p \in Nat /\ r.p <= n /\ r.bytes \in Seq(Bytes)
  BY <1>5, CopyIs
<1>7. Plain(text) => /\ r.bytes = SubSeq(text, p + 1, r.p)
                     /\ \A i \in 1 .. Len(r.bytes) : r.bytes[i] \notin {Dot, Backslash}
  BY <1>5
<1>8. Plain(text) => Escaped(r.bytes) = r.bytes
  BY <1>6, <1>7, EscapedSays DEF TextFacts
<1> HIDE DEF r, J
<1>9. r.p # p /\ r.p > p
  BY <1>5, <1>6
<1>10. r.p \in p + 1 .. n /\ Len(r.bytes) > 0
  BY <1>0, <1>5, <1>6, <1>9
<1>11. r.p < n => At(text, r.p) = Dot
  BY <1>5 DEF InLabel
<1> QED BY <1>4, <1>6, <1>7, <1>8, <1>10, <1>11

(* A label's text is read as that label.                                   *)
LEMMA LabelReadsBack ==
  ASSUME NEW text \in Seq(Bytes), NEW p \in Nat, NEW label \in Seq(Bytes),
         HasAt(text, p, Escaped(label)), ~InLabel(text, p + Len(Escaped(label)))
  PROVE  Label(text, p) = [p |-> p + Len(Escaped(label)), bytes |-> label]
<1> DEFINE s0 == [p |-> p, bytes |-> <<>>]
           Comes(l, e) == /\ Len(e) \in Nat
                          /\ HasAt(text, p, e) =>
                               /\ [p |-> p + Len(e), bytes |-> l] \in Copying(text)
                               /\ CopiedFrom(text, [p |-> p + Len(e), bytes |-> l]) = CopiedFrom(text, s0)
           P == {pair \in Seq(Bytes) \X Seq(Bytes) : Comes(pair[1], pair[2])}
<1>0. Len(text) \in Nat /\ \A i \in 1 .. Len(text) : text[i] \in Bytes
  BY LenProperties, ElementOfSeq
<1>1. <<<<>>, <<>>>> \in P
  <2>1. <<>> \in Seq(Bytes) /\ <<>> \in Seq(Nat) /\ Len(<<>>) = 0
    BY EmptySeq
  <2>2. HasAt(text, p, <<>>) => p <= Len(text)
    BY <1>0, <2>1 DEF HasAt
  <2>3. s0 \in CopyState /\ s0.p = p /\ s0.bytes = <<>>
    BY <2>1 DEF CopyState
  <2>4. [p |-> p + Len(<<>>), bytes |-> <<>>] = s0
    BY <2>1
  <2> HIDE DEF s0
  <2>5. p <= Len(text) => s0 \in Copying(text)
    BY <2>1, <2>3 DEF Copying
  <2>6. Comes(<<>>, <<>>)
    BY <2>1, <2>2, <2>4, <2>5
  <2> HIDE DEF Comes
  <2> QED BY <2>1, <2>6
<1>2. ASSUME NEW l \in Seq(Bytes), NEW e \in Seq(Bytes), NEW c \in Bytes, Comes(l, e)
      PROVE  Comes(Append(l, c), e \o EscapedByte(c))
  <2> DEFINE b == EscapedByte(c)
             m == Append(l, c)
             s == [p |-> p + Len(e), bytes |-> l]
             q == p + Len(e)
             f == e \o b
  <2>1. b \in Seq(Bytes) /\ Len(b) \in {1, 2} /\ Len(e) \in Nat /\ q \in Nat
    BY ByteIsEscaped, LenProperties
  <2>2. f \in Seq(Bytes) /\ Len(f) = Len(e) + Len(b)
    BY <2>1, ConcatProperties
  <2>3. ASSUME HasAt(text, p, f)
        PROVE  [p |-> q + Len(b), bytes |-> m] = CopyChar(text, s) /\ HasAt(text, p, e)
    <3>1. HasAt(text, p, e) /\ HasAt(text, q, b)
      <4> HIDE DEF b
      <4> QED BY <2>1, <2>3, HasBoth
    <3>2. q + Len(b) <= Len(text) /\ \A i \in 1 .. Len(b) : text[q + i] = b[i]
      BY <3>1 DEF HasAt
    <3>3. CASE c \in {Dot, Backslash}
      <4>1. Len(b) = 2 /\ b[1] = Backslash /\ b[2] = c
        BY <3>3, ByteIsEscaped
      <4> HIDE DEF b
      <4>2. At(text, q) = Backslash /\ At(text, q + 1) = c /\ q + 1 < Len(text)
        <5>1. text[q + 1] = Backslash /\ text[q + 2] = c /\ q + 2 <= Len(text)
          BY <3>2, <4>1
        <5>2. (q + 1) + 1 = q + 2
          BY <2>1
        <5> HIDE DEF q
        <5> QED BY <1>0, <2>1, <5>1, <5>2 DEF At
      <4>3. CharAt(text, q) = q + 1
        BY <4>2 DEF CharAt
      <4>4. ~ (q >= Len(text)) /\ At(text, q) # Dot
        BY <1>0, <2>1, <4>2 DEF Dot, Backslash
      <4>5. s.p = q /\ s.bytes = l /\ (q + 1) + 1 = q + 2
        BY <2>1
      <4> HIDE DEF s, q
      <4>6. CopyChar(text, s) = [p |-> (q + 1) + 1, bytes |-> Append(l, At(text, q + 1))]
        BY <4>3, <4>4, <4>5 DEF CopyChar
      <4>7. CopyChar(text, s) = [p |-> q + 2, bytes |-> m]
        BY <4>2, <4>5, <4>6 DEF m
      <4> QED BY <3>1, <4>1, <4>7
    <3>4. CASE c \notin {Dot, Backslash}
      <4>1. Len(b) = 1 /\ b[1] = c
        BY <3>4, ByteIsEscaped
      <4> HIDE DEF b
      <4>2. At(text, q) = c /\ q < Len(text)
        BY <1>0, <2>1, <3>2, <4>1 DEF At
      <4>3. CharAt(text, q) = q
        BY <3>4, <4>2 DEF CharAt
      <4>4. ~ (q >= Len(text)) /\ At(text, q) # Dot
        BY <1>0, <2>1, <3>4, <4>2
      <4>5. CopyChar(text, s) = [p |-> q + 1, bytes |-> m]
        BY <4>2, <4>3, <4>4 DEF CopyChar
      <4> QED BY <3>1, <4>1, <4>5
    <3> QED BY <3>3, <3>4
  <2> HIDE DEF b, m, f
  <2>4. ASSUME HasAt(text, p, f)
        PROVE  /\ [p |-> p + Len(f), bytes |-> m] \in Copying(text)
               /\ CopiedFrom(text, [p |-> p + Len(f), bytes |-> m]) = CopiedFrom(text, s0)
    <3>1. s \in Copying(text) /\ CopiedFrom(text, s) = CopiedFrom(text, s0)
      BY <1>2, <2>3, <2>4
    <3>2. p + Len(f) = q + Len(b)
      BY <2>1, <2>2
    <3> HIDE DEF s, q, s0
    <3>3. CopyChar(text, s) \in Copying(text) /\ CopiedFrom(text, CopyChar(text, s)) = CopiedFrom(text, s)
      BY <3>1, CopyIs, CopiedIs
    <3> QED BY <2>3, <2>4, <3>1, <3>2, <3>3
  <2>5. Len(f) \in Nat
    BY <2>2, LenProperties
  <2> QED BY <2>4, <2>5 DEF f, m, b
<1>3. AddsBytes(P)
  <2>1. ASSUME NEW l \in Seq(Bytes), NEW e \in Seq(Bytes), NEW c \in Bytes, <<l, e>> \in P
        PROVE  <<Append(l, c), e \o EscapedByte(c)>> \in P
    <3>1. Comes(l, e)
      BY <2>1
    <3> HIDE DEF Comes
    <3>2. Comes(Append(l, c), e \o EscapedByte(c))
      BY <1>2, <3>1
    <3>3. Append(l, c) \in Seq(Bytes) /\ e \o EscapedByte(c) \in Seq(Bytes)
      BY ByteIsEscaped, AppendProperties, ConcatProperties
    <3> QED BY <3>2, <3>3
  <2> HIDE DEF P
  <2> QED BY <1>1, <2>1 DEF AddsBytes
<1>4. Comes(label, Escaped(label))
  <2>1. <<label, Escaped(label)>> \in P
    <3> HIDE DEF P
    <3> QED BY <1>3, EscapedIsSpelled DEF SpelledLabel
  <2> HIDE DEF Comes
  <2> QED BY <2>1
<1> DEFINE t == [p |-> p + Len(Escaped(label)), bytes |-> label]
<1>5. t \in Copying(text) /\ CopiedFrom(text, t) = CopiedFrom(text, s0) /\ t.p = p + Len(Escaped(label))
  BY <1>4
<1>6. Label(text, p) = CopiedFrom(text, s0)
  BY DEF Label, CopiedFrom, CopyTurn, CopyState
<1> HIDE DEF t, s0
<1>7. CopiedFrom(text, t) = t
  BY <1>5, CopiedIs
<1> QED BY <1>5, <1>6, <1>7 DEF t

-----------------------------------------------------------------------------
(* A name, as bytes and as text: the fewest pairs with the empty name, and *)
(* with every name to which a label is added.                              *)
Labels == {l \in Seq(Bytes) : Len(l) \in 1 .. MaxLabel}

AddsLabels(P) ==
  /\ <<<<>>, <<>>>> \in P
  /\ \A w, t \in Seq(Bytes), l \in Labels :
       <<w, t>> \in P => <<w \o <<Len(l)>> \o l, t \o Escaped(l) \o <<Dot>>>> \in P

Spelled(w, t) == \A P : AddsLabels(P) => <<w, t>> \in P

Growth(w, t, l) ==
  LET n == Len(l)
      e == Escaped(l)
  IN /\ l \in Seq(Bytes) /\ n \in 1 .. MaxLabel /\ e \in Seq(Bytes)
     /\ <<n>> \in Seq(Bytes) /\ Len(<<n>>) = 1 /\ <<Dot>> \in Seq(Bytes) /\ Len(<<Dot>>) = 1
     /\ w \o <<n>> \in Seq(Bytes) /\ Len(w \o <<n>>) = Len(w) + 1
     /\ t \o e \in Seq(Bytes) /\ Len(t \o e) = Len(t) + Len(e)
     /\ w \o <<n>> \o l \in Seq(Bytes) /\ Len(w \o <<n>> \o l) = Len(w) + 1 + Len(l)
     /\ t \o e \o <<Dot>> \in Seq(Bytes) /\ Len(t \o e \o <<Dot>>) = Len(t) + Len(e) + 1
     /\ Spelled(w, t) => Spelled(w \o <<n>> \o l, t \o e \o <<Dot>>)

LEMMA NameGrows ==
  ASSUME NEW w \in Seq(Bytes), NEW t \in Seq(Bytes), NEW l \in Labels
  PROVE  Growth(w, t, l)
<1> DEFINE n == Len(l)
           e == Escaped(l)
<1>1. l \in Seq(Bytes) /\ n \in 1 .. MaxLabel /\ e \in Seq(Bytes)
  BY EscapedIsSpelled DEF Labels
<1>2. n \in Bytes /\ Dot \in Bytes
  <2> HIDE DEF n
  <2>1. MaxLabel \in 1 .. 192 - 1
    BY LabelAssumption DEF IndirMask
  <2> QED BY <1>1, <2>1 DEF Bytes, Dot
<1> HIDE DEF n, e
<1>3. <<n>> \in Seq(Bytes) /\ Len(<<n>>) = 1 /\ <<Dot>> \in Seq(Bytes) /\ Len(<<Dot>>) = 1
  BY <1>2
<1>4. /\ w \o <<n>> \in Seq(Bytes) /\ Len(w \o <<n>>) = Len(w) + 1
      /\ t \o e \in Seq(Bytes) /\ Len(t \o e) = Len(t) + Len(e)
  <2>1. w \o <<n>> \in Seq(Bytes) /\ Len(w \o <<n>>) = Len(w) + Len(<<n>>)
    BY <1>3, ConcatProperties, Zenon
  <2>2. t \o e \in Seq(Bytes) /\ Len(t \o e) = Len(t) + Len(e)
    BY <1>1, ConcatProperties, Zenon
  <2> QED BY <1>3, <2>1, <2>2
<1>5. /\ (w \o <<n>>) \o l \in Seq(Bytes) /\ Len((w \o <<n>>) \o l) = Len(w) + 1 + Len(l)
      /\ (t \o e) \o <<Dot>> \in Seq(Bytes) /\ Len((t \o e) \o <<Dot>>) = Len(t) + Len(e) + 1
  <2>1. (w \o <<n>>) \o l \in Seq(Bytes) /\ Len((w \o <<n>>) \o l) = Len(w \o <<n>>) + Len(l)
    BY <1>1, <1>4, ConcatProperties, Zenon
  <2>2. (t \o e) \o <<Dot>> \in Seq(Bytes) /\ Len((t \o e) \o <<Dot>>) = Len(t \o e) + Len(<<Dot>>)
    BY <1>3, <1>4, ConcatProperties, Zenon
  <2> QED BY <1>3, <1>4, <2>1, <2>2
<1>6. ASSUME Spelled(w, t) PROVE Spelled(w \o <<n>> \o l, t \o e \o <<Dot>>)
  <2>1. ASSUME NEW P, AddsLabels(P) PROVE <<w \o <<n>> \o l, t \o e \o <<Dot>>>> \in P
    <3>1. <<w, t>> \in P
      BY <1>6, <2>1 DEF Spelled
    <3> QED BY <2>1, <3>1 DEF AddsLabels, n, e
  <2> QED BY <2>1 DEF Spelled
<1> QED BY <1>1, <1>3, <1>4, <1>5, <1>6 DEF n, e, Growth

(* A name that is not empty has a text that ends with a dot and does not   *)
(* begin with one.                                                         *)
NameFacts(w, t) ==
  /\ Len(w) = 0 <=> Len(t) = 0
  /\ Len(t) > 0 => Len(t) > 1 /\ t[1] # Dot /\ t[Len(t)] = Dot

LEMMA SpelledSays ==
  ASSUME NEW w \in Seq(Bytes), NEW t \in Seq(Bytes), Spelled(w, t)
  PROVE  NameFacts(w, t)
<1> DEFINE P == {pair \in Seq(Bytes) \X Seq(Bytes) : NameFacts(pair[1], pair[2])}
<1>1. <<<<>>, <<>>>> \in P
  <2>1. <<>> \in Seq(Bytes) /\ Len(<<>>) = 0
    BY EmptySeq
  <2>2. NameFacts(<<>>, <<>>)
    BY <2>1 DEF NameFacts
  <2> QED BY <2>1, <2>2
<1>2. ASSUME NEW v \in Seq(Bytes), NEW u \in Seq(Bytes), NEW l \in Labels, NameFacts(v, u)
      PROVE  NameFacts(v \o <<Len(l)>> \o l, u \o Escaped(l) \o <<Dot>>)
  <2> DEFINE e == Escaped(l)
             ue == u \o e
             x == ue \o <<Dot>>
             y == v \o <<Len(l)>> \o l
  <2>1. /\ e \in Seq(Bytes) /\ ue \in Seq(Bytes) /\ <<Dot>> \in Seq(Bytes)
        /\ Len(ue) = Len(u) + Len(e) /\ Len(x) = Len(u) + Len(e) + 1 /\ Len(y) = Len(v) + 1 + Len(l)
        /\ l \in Seq(Bytes) /\ Len(l) \in 1 .. MaxLabel
    <3>1. Growth(v, u, l)
      BY NameGrows
    <3> QED BY <3>1 DEF Growth
  <2>2. Len(l) \in Nat /\ Len(l) > 0 /\ Len(v) \in Nat /\ Len(u) \in Nat /\ Len(e) \in Nat
    <3>1. Len(l) > 0
      BY <2>1
    <3> HIDE DEF e
    <3> QED BY <2>1, <3>1, LenProperties
  <2>3. Len(e) > 0 /\ e[1] # Dot
    <3>1. TextFacts(l, e)
      BY <2>1, EscapedSays
    <3> QED BY <2>2, <3>1 DEF TextFacts
  <2> HIDE DEF e
  <2>4. \A i \in 1 .. Len(u) + Len(e) : ue[i] = IF i <= Len(u) THEN u[i] ELSE e[i - Len(u)]
    BY <2>1, ConcatProperties
  <2> HIDE DEF ue
  <2>5. \A i \in 1 .. Len(ue) + Len(<<Dot>>) : x[i] = IF i <= Len(ue) THEN ue[i] ELSE <<Dot>>[i - Len(ue)]
    BY <2>1, ConcatProperties
  <2> HIDE DEF x, y
  <2>6. x[Len(x)] = Dot
    <3>1. Len(x) \in 1 .. Len(ue) + Len(<<Dot>>) /\ ~ (Len(x) <= Len(ue)) /\ Len(x) - Len(ue) = 1
      BY <2>1, <2>2
    <3>2. x[Len(x)] = <<Dot>>[1]
      BY <2>5, <3>1
    <3> QED BY <3>2
  <2>7. ue[1] # Dot
    <3>1. CASE Len(u) > 0
      <4>1. u[1] # Dot
        BY <1>2, <3>1 DEF NameFacts
      <4> QED BY <2>2, <2>3, <2>4, <3>1, <4>1
    <3>2. CASE Len(u) = 0
      <4>1. ue[1] = e[1]
        BY <2>2, <2>3, <2>4, <3>2
      <4> QED BY <2>3, <4>1
    <3> QED BY <2>2, <3>1, <3>2
  <2>8. x[1] = ue[1]
    <3>1. 1 \in 1 .. Len(ue) + Len(<<Dot>>) /\ 1 <= Len(ue)
      BY <2>1, <2>2, <2>3
    <3> QED BY <2>5, <3>1
  <2>9. Len(x) > 1 /\ Len(y) # 0
    BY <2>1, <2>2, <2>3
  <2>10. NameFacts(y, x)
    BY <2>6, <2>7, <2>8, <2>9 DEF NameFacts
  <2> QED BY <2>10 DEF y, x, ue, e
<1>3. AddsLabels(P)
  <2>1. ASSUME NEW v \in Seq(Bytes), NEW u \in Seq(Bytes), NEW l \in Labels, <<v, u>> \in P
        PROVE  <<v \o <<Len(l)>> \o l, u \o Escaped(l) \o <<Dot>>>> \in P
    <3>1. NameFacts(v, u)
      BY <2>1
    <3>2. NameFacts(v \o <<Len(l)>> \o l, u \o Escaped(l) \o <<Dot>>)
      BY <1>2, <3>1
    <3>3. Growth(v, u, l)
      BY NameGrows
    <3> QED BY <3>2, <3>3 DEF Growth
  <2> HIDE DEF P
  <2> QED BY <1>1, <2>1 DEF AddsLabels
<1>4. <<w, t>> \in P
  <2> HIDE DEF P
  <2> QED BY <1>3 DEF Spelled
<1> QED BY <1>4

(* The loop over the labels.                                               *)
WriteState == [p : Nat, q : Seq(Nat), ok : BOOLEAN]
WriteTurn(text) == [s \in WriteState |-> WriteLabel(text, s)]
Writing(text) == {s \in WriteState : s.p <= Len(text) + 1 /\ s.q \in Seq(Bytes)}
WrittenFrom(text, s) == Looped(WriteTurn(text), Len(text))[s]

Writes(text, s) ==
  s.ok /\ InLabel(text, s.p) /\ Len(Label(text, s.p).bytes) <= MaxLabel

Onwards(text, s) ==
  [p |-> Label(text, s.p).p + 1,
   q |-> s.q \o <<Len(Label(text, s.p).bytes)>> \o Label(text, s.p).bytes, ok |-> TRUE]

LEMMA WriteIs ==
  ASSUME NEW text \in Seq(Bytes), NEW s \in Writing(text)
  PROVE  LET next == WriteLabel(text, s) IN
         /\ next \in Writing(text)
         /\ s.p \in Nat /\ s.q \in Seq(Bytes) /\ s.ok \in BOOLEAN
         /\ ~s.ok \/ s.p >= Len(text) => next = s
         /\ s.ok /\ s.p < Len(text) =>
              IF Writes(text, s) THEN next = Onwards(text, s) /\ next.p > s.p
                                      /\ Label(text, s.p).bytes \in Labels
              ELSE ~next.ok /\ next.p = s.p /\ next.q = s.q
<1> DEFINE n == Len(text)
           label == Label(text, s.p)
           next == WriteLabel(text, s)
<1>1. /\ n \in Nat /\ s.p \in Nat /\ s.p <= n + 1 /\ s.q \in Seq(Bytes) /\ s.ok \in BOOLEAN
      /\ s = [p |-> s.p, q |-> s.q, ok |-> s.ok] /\ s.q \in Seq(Nat) /\ s \in WriteState
  BY LenProperties DEF Writing, WriteState
<1>2. CASE ~s.ok \/ s.p >= n
  <2>1. next = s
    BY <1>2 DEF WriteLabel
  <2> QED BY <1>1, <1>2, <2>1
<1>3. CASE s.ok /\ s.p < n /\ ~Writes(text, s)
  <2>1. At(text, s.p) = Dot \/ ~ (Len(label.bytes) <= MaxLabel)
    BY <1>3 DEF Writes, InLabel
  <2>2. At(text, s.p) = Dot \/ Len(label.bytes) > MaxLabel
    <3>1. CASE At(text, s.p) # Dot
      <4>1. label.bytes \in Seq(Bytes)
        BY <1>1, <1>3, <3>1, LabelIs DEF InLabel
      <4>2. Len(label.bytes) \in Nat /\ MaxLabel \in Nat
        BY <4>1, LenProperties, LabelAssumption DEF IndirMask
      <4> QED BY <2>1, <3>1, <4>2
    <3> QED BY <3>1
  <2>3. next = [s EXCEPT !.ok = FALSE]
    BY <1>1, <1>3, <2>2 DEF WriteLabel
  <2> HIDE DEF next
  <2>4. next = [p |-> s.p, q |-> s.q, ok |-> FALSE]
    BY <1>1, <2>3
  <2>5. next.p = s.p /\ next.q = s.q /\ next.ok = FALSE /\ next \in WriteState
    BY <1>1, <2>4 DEF WriteState
  <2>6. next \in Writing(text)
    BY <1>1, <2>5 DEF Writing
  <2> QED BY <1>1, <1>3, <2>5, <2>6 DEF next
<1>4. CASE s.ok /\ s.p < n /\ Writes(text, s)
  <2> DEFINE q == s.q \o <<Len(label.bytes)>> \o label.bytes
  <2>1. /\ label.bytes \in Seq(Bytes) /\ Len(label.bytes) > 0 /\ label.p \in s.p + 1 .. n
    BY <1>1, <1>4, LabelIs DEF Writes
  <2>2. At(text, s.p) # Dot /\ Len(label.bytes) <= MaxLabel
    BY <1>4 DEF Writes, InLabel
  <2>3. Len(label.bytes) \in Nat /\ MaxLabel \in Nat
    BY <2>1, LenProperties, LabelAssumption DEF IndirMask
  <2>4. label.bytes \in Labels
    BY <2>1, <2>2, <2>3 DEF Labels
  <2>5. next = [s EXCEPT !.p = label.p + 1, !.q = q]
    BY <1>1, <1>4, <2>2, <2>3 DEF WriteLabel
  <2>6. q \in Seq(Bytes)
    <3>1. Growth(s.q, <<>>, label.bytes)
      BY <1>1, <2>4, EmptySeq, NameGrows
    <3> QED BY <3>1 DEF Growth
  <2>7. q \in Seq(Nat)
    <3>1. Bytes \subseteq Nat
      BY DEF Bytes
    <3> HIDE DEF q
    <3> QED BY <2>6, <3>1, SeqMonotonic, Zenon
  <2> HIDE DEF next, q
  <2>8. next = [p |-> label.p + 1, q |-> q, ok |-> TRUE]
    BY <1>1, <1>4, <2>5
  <2>9. next.p = label.p + 1 /\ next.q = q /\ next \in WriteState /\ next.p > s.p
    <3> HIDE DEF label
    <3> QED BY <1>1, <2>1, <2>7, <2>8 DEF WriteState
  <2>10. next \in Writing(text)
    <3> HIDE DEF label
    <3> QED BY <1>1, <2>1, <2>6, <2>9 DEF Writing
  <2>11. next = Onwards(text, s)
    BY <2>8 DEF Onwards, q
  <2> QED BY <1>1, <1>4, <2>4, <2>9, <2>10, <2>11 DEF next
<1> QED BY <1>2, <1>3, <1>4, <1>1

LEMMA WrittenFromIs ==
  ASSUME NEW text \in Seq(Bytes), NEW s \in Writing(text)
  PROVE  LET r == WrittenFrom(text, s) IN
         /\ r \in Writing(text)
         /\ WrittenFrom(text, WriteLabel(text, s)) = r
         /\ ~r.ok \/ r.p >= Len(text)
         /\ ~s.ok \/ s.p >= Len(text) => r = s
<1> DEFINE n == Len(text)
           I == Writing(text)
           f == WriteTurn(text)
           Left(x) == IF x.ok /\ x.p < n THEN n - x.p ELSE 0
           measure == [x \in I |-> Left(x)]
           r == Looped(f, n)[s]
<1>0. n \in Nat
  BY LenProperties
<1>1. \A x \in I : x \in DOMAIN f /\ f[x] = WriteLabel(text, x) /\ x.p \in Nat /\ x.ok \in BOOLEAN
  BY DEF Writing, WriteTurn, WriteState
<1>2. \A x \in I : f[x] \in I
  BY <1>1, WriteIs
<1>3. ASSUME NEW x \in I, x.ok, x.p < n PROVE ~f[x].ok \/ f[x].p > x.p
  BY <1>1, <1>3, WriteIs
<1>4. \A x \in I : ~x.ok \/ x.p >= n => f[x] = x
  BY <1>1, WriteIs
<1>5. measure \in [I -> Nat] /\ \A x \in I : measure[x] = Left(x)
  BY <1>0, <1>1
<1>6. I \in SUBSET (DOMAIN f) /\ s \in I
  BY <1>1
<1>11. WrittenFrom(text, s) = r /\ WrittenFrom(text, WriteLabel(text, s)) = Looped(f, n)[f[s]]
  BY <1>1 DEF WrittenFrom
<1> HIDE DEF f, I, measure, n
<1>7. \A x \in I : f[x] = x \/ measure[f[x]] < measure[x]
  <2> SUFFICES ASSUME NEW x \in I, f[x] # x PROVE measure[f[x]] < measure[x]
    OBVIOUS
  <2>1. x.ok /\ x.p < n /\ x.p \in Nat
    BY <1>0, <1>1, <1>4
  <2>2. f[x] \in I /\ (~f[x].ok \/ f[x].p > x.p) /\ f[x].p \in Nat
    BY <1>1, <1>2, <1>3, <2>1
  <2>3. Left(x) = n - x.p
    BY <2>1
  <2>4. Left(f[x]) = 0 \/ (Left(f[x]) = n - f[x].p /\ f[x].p > x.p)
    BY <2>2
  <2> HIDE DEF Left
  <2> QED BY <1>0, <1>5, <2>1, <2>2, <2>3, <2>4
<1>8. measure[s] <= n
  BY <1>0, <1>1, <1>5, <1>6
<1>9. f[r] = r /\ Looped(f, n)[f[s]] = r
  BY <1>0, <1>2, <1>5, <1>6, <1>7, <1>8, LoopIsOver, Zenon
<1>10. r \in I
  BY <1>0, <1>2, <1>6, LoopKeeps, Zenon
<1>12. ~r.ok \/ r.p >= n
  <2> HIDE DEF r
  <2>1. SUFFICES ASSUME r.ok, ~ (r.p >= n) PROVE FALSE
    OBVIOUS
  <2>2. ~f[r].ok \/ f[r].p > r.p
    BY <1>0, <1>1, <1>3, <1>10, <2>1
  <2>3. r.p \in Nat
    BY <1>1, <1>10
  <2> QED BY <1>9, <2>1, <2>2, <2>3
<1>13. ASSUME ~s.ok \/ s.p >= n PROVE r = s
  <2>1. f[s] = s
    BY <1>4, <1>6, <1>13
  <2>2. {s} \in SUBSET (DOMAIN f) /\ \A x \in {s} : f[x] \in {s}
    BY <1>6, <2>1
  <2>3. Looped(f, n)[s] \in {s}
    BY <1>0, <2>2, LoopKeeps
  <2> QED BY <2>3
<1> QED BY <1>9, <1>10, <1>11, <1>12, <1>13 DEF I, n

(* What is written for a text spells a name; for a text without            *)
(* backslashes it is the text, with a dot at its end.                      *)
Started == [p |-> 0, q |-> <<>>, ok |-> TRUE]

LEMMA StartedIs ==
  ASSUME NEW text \in Seq(Bytes)
  PROVE  /\ Started \in Writing(text) /\ Started.p = 0 /\ Started.q = <<>> /\ Started.ok
         /\ Written(text) = WrittenFrom(text, Started)
         /\ Written(text) \in Writing(text) /\ Written(text).q \in Seq(Bytes)
<1>1. <<>> \in Seq(Nat) /\ <<>> \in Seq(Bytes) /\ Len(text) \in Nat
  BY EmptySeq, LenProperties
<1>2. Started.p = 0 /\ Started.q = <<>> /\ Started.ok /\ Started \in WriteState
  BY <1>1 DEF Started, WriteState
<1>3. Started \in Writing(text)
  <2>1. Started.p <= Len(text) + 1 /\ Started.q \in Seq(Bytes)
    BY <1>1, <1>2
  <2> QED BY <1>2, <2>1, Zenon DEF Writing
<1>4. Written(text) = WrittenFrom(text, Started)
  BY DEF Written, WrittenFrom, WriteTurn, WriteState, Started
<1> QED BY <1>2, <1>3, <1>4, WrittenFromIs DEF Writing

LEMMA WrittenIs ==
  ASSUME NEW text \in Seq(Bytes)
  PROVE  \E t \in Seq(Bytes) :
           /\ Spelled(Written(text).q, t)
           /\ Plain(text) /\ Written(text).ok => t \in {text, Append(text, Dot)}
<1> DEFINE n == Len(text)
           I == Writing(text)
           f == WriteTurn(text)
           Reached(p, t) == /\ p <= n => t = SubSeq(text, 1, p)
                            /\ p = n + 1 => t = Append(text, Dot)
           Says(s, t) == Spelled(s.q, t) /\ (Plain(text) => Reached(s.p, t))
           J == {s \in I : \E t \in Seq(Bytes) : Says(s, t)}
<1>0. n \in Nat /\ \A i \in 1 .. n : text[i] \in Bytes
  BY LenProperties, ElementOfSeq
<1>1. Started \in J
  <2>1. Started \in I /\ Started.p = 0 /\ Started.q = <<>>
    BY StartedIs
  <2>2. Spelled(<<>>, <<>>)
    BY DEF Spelled, AddsLabels
  <2>3. SubSeq(text, 1, 0) = <<>> /\ <<>> \in Seq(Bytes)
    BY SubSeqEmpty, EmptySeq
  <2>4. Says(Started, <<>>)
    BY <1>0, <2>1, <2>2, <2>3
  <2> HIDE DEF Says, I
  <2> QED BY <2>1, <2>3, <2>4
<1>2. ASSUME NEW s \in J PROVE WriteLabel(text, s) \in J
  <2> DEFINE next == WriteLabel(text, s)
             label == Label(text, s.p)
             l == label.bytes
  <2> HIDE DEF Says
  <2>1. PICK t \in Seq(Bytes) : Says(s, t)
    OBVIOUS
  <2>2. s \in I /\ s.p \in Nat /\ s.q \in Seq(Bytes) /\ s.ok \in BOOLEAN
    BY WriteIs
  <2>3. next \in I
    BY <2>2, WriteIs
  <2>4. CASE ~s.ok \/ s.p >= n
    <3>1. next = s
      BY <2>2, <2>4, WriteIs
    <3> QED BY <3>1
  <2>5. CASE s.ok /\ s.p < n /\ ~Writes(text, s)
    <3>1. next.p = s.p /\ next.q = s.q
      BY <2>2, <2>5, WriteIs
    <3> HIDE DEF next
    <3>2. Says(next, t)
      BY <2>1, <3>1 DEF Says
    <3> HIDE DEF I
    <3> QED BY <2>3, <3>2 DEF next
  <2>6. CASE s.ok /\ s.p < n /\ Writes(text, s)
    <3> DEFINE e == Escaped(l)
               u == t \o e \o <<Dot>>
               w == s.q \o <<Len(l)>> \o l
               p == s.p
               to == label.p
    <3>1. next = Onwards(text, s) /\ l \in Labels
      BY <2>2, <2>6, WriteIs
    <3>2. next.p = to + 1 /\ next.q = w
      <4>1. Onwards(text, s).p = to + 1 /\ Onwards(text, s).q = w
        BY DEF Onwards
      <4> HIDE DEF next
      <4> QED BY <3>1, <4>1, Zenon
    <3>3. Growth(s.q, t, l)
      BY <2>2, <3>1, NameGrows
    <3>4. Spelled(w, u) /\ u \in Seq(Bytes) /\ t \o e \in Seq(Bytes)
      BY <2>1, <3>3 DEF Growth, Says
    <3>5. /\ to \in p + 1 .. n /\ (to < n => At(text, to) = Dot)
          /\ Plain(text) => l = SubSeq(text, p + 1, to) /\ e = l
      BY <2>2, <2>6, LabelIs DEF Writes
    <3> HIDE DEF next, label
    <3>6. ASSUME Plain(text) PROVE Reached(to + 1, u)
      <4>1. t = SubSeq(text, 1, p)
        BY <1>0, <2>1, <2>2, <2>6, <3>6 DEF Says
      <4>2. t \o e = SubSeq(text, 1, to)
        <5>1. 1 \in 1 .. n + 1 /\ p \in 1 - 1 .. n /\ to \in p .. n
          BY <1>0, <2>2, <2>6, <3>5
        <5>2. SubSeq(text, 1, p) \o SubSeq(text, p + 1, to) = SubSeq(text, 1, to)
          BY <5>1, ConcatAdjacentSubSeq, Zenon
        <5> QED BY <3>5, <3>6, <4>1, <5>2
      <4>3. CASE to < n
        <5>1. to + 1 \in 1 .. n /\ 1 \in 1 .. n /\ text[to + 1] = Dot /\ (to + 1) - 1 = to
          BY <1>0, <2>2, <3>5, <4>3 DEF At
        <5>2. SubSeq(text, 1, to + 1) = SubSeq(text, 1, (to + 1) - 1) \o <<text[to + 1]>>
          BY <5>1, SubSeqRecursiveSecond, Zenon
        <5>3. u = SubSeq(text, 1, to + 1)
          BY <4>2, <5>1, <5>2
        <5>4. to + 1 # n + 1
          BY <1>0, <5>1
        <5> QED BY <5>3, <5>4
      <4>4. CASE to = n
        <5>1. t \o e = text
          BY <4>2, <4>4, SubSeqFull
        <5>2. Append(text, Dot) = text \o <<Dot>>
          <6>1. Dot \in Bytes
            BY DEF Dot, Bytes
          <6> QED BY <6>1, AppendIsConcat
        <5>3. u = Append(text, Dot)
          BY <5>1, <5>2
        <5>4. ~ (to + 1 <= n)
          BY <1>0, <4>4
        <5> QED BY <5>3, <5>4
      <4> QED BY <1>0, <2>2, <3>5, <4>3, <4>4, SMTT(30)
    <3> HIDE DEF u, w, to, Reached
    <3>7. Says(next, u)
      BY <3>2, <3>4, <3>6 DEF Says
    <3> HIDE DEF I
    <3> QED BY <2>3, <3>4, <3>7 DEF next
  <2> QED BY <1>0, <2>2, <2>4, <2>5, <2>6
<1>3. Written(text) \in J
  <2>1. J \in SUBSET (DOMAIN f) /\ \A s \in J : f[s] = WriteLabel(text, s)
    BY DEF WriteTurn, Writing
  <2> HIDE DEF f, J
  <2>2. \A s \in J : f[s] \in J
    BY <1>2, <2>1
  <2>3. Looped(f, n)[Started] \in J
    BY <1>0, <1>1, <2>1, <2>2, LoopKeeps
  <2> QED BY <2>3, StartedIs DEF f, WrittenFrom
<1> DEFINE r == Written(text)
<1>4. PICK t \in Seq(Bytes) : Says(r, t)
  <2> HIDE DEF Says, I
  <2> QED BY <1>3
<1>5. Spelled(r.q, t) /\ (Plain(text) => Reached(r.p, t))
  BY <1>4
<1>6. r \in I /\ r.p \in Nat /\ r.p <= n + 1
  BY StartedIs DEF Writing, WriteState
<1>7. ~r.ok \/ r.p >= n
  BY StartedIs, WrittenFromIs
<1> HIDE DEF r
<1>8. ASSUME Plain(text), r.ok PROVE t \in {text, Append(text, Dot)}
  <2>1. r.p = n \/ r.p = n + 1
    BY <1>0, <1>6, <1>7, <1>8
  <2>2. SubSeq(text, 1, n) = text
    BY SubSeqFull
  <2> QED BY <1>0, <1>5, <1>8, <2>1, <2>2
<1> QED BY <1>5, <1>8 DEF r

(* The text of a name, without the dot at its end, is written as that name.*)
LEMMA WritesBack ==
  ASSUME NEW text \in Seq(Bytes), NEW w \in Seq(Bytes), NEW t \in Seq(Bytes), Spelled(w, t),
         HasAt(Append(text, Dot), 0, t), Len(t) >= Len(text)
  PROVE  Written(text) = [p |-> Len(t), q |-> w, ok |-> TRUE]
<1> DEFINE n == Len(text)
           D == Append(text, Dot)
           Stage(v, u) == [p |-> Len(u), q |-> v, ok |-> TRUE]
           Gets(v, u) == HasAt(D, 0, u) =>
                           /\ Stage(v, u) \in Writing(text)
                           /\ WrittenFrom(text, Stage(v, u)) = WrittenFrom(text, Started)
           P == {pair \in Seq(Bytes) \X Seq(Bytes) : Gets(pair[1], pair[2])}
<1>0. n \in Nat /\ \A i \in 1 .. n : text[i] \in Bytes
  BY LenProperties, ElementOfSeq
<1>1. D \in Seq(Bytes) /\ Len(D) = n + 1 /\ D[n + 1] = Dot /\ \A i \in 1 .. n : D[i] = text[i]
  <2>1. Dot \in Bytes
    BY DEF Dot, Bytes
  <2> QED BY <2>1, AppendProperties
<1>2. <<<<>>, <<>>>> \in P
  <2>1. <<>> \in Seq(Bytes) /\ Len(<<>>) = 0
    BY EmptySeq
  <2>2. Stage(<<>>, <<>>) = Started
    BY <2>1 DEF Started
  <2> HIDE DEF Stage
  <2>3. Gets(<<>>, <<>>)
    BY <2>2, StartedIs
  <2> HIDE DEF Gets
  <2> QED BY <2>1, <2>3
<1> HIDE DEF D
<1>3. ASSUME NEW v \in Seq(Bytes), NEW u \in Seq(Bytes), NEW l \in Labels, Gets(v, u)
      PROVE  Gets(v \o <<Len(l)>> \o l, u \o Escaped(l) \o <<Dot>>)
  <2> DEFINE e == Escaped(l)
             ue == u \o e
             u2 == ue \o <<Dot>>
             v2 == v \o <<Len(l)>> \o l
             s == Stage(v, u)
             p == Len(u)
  <2>1. SUFFICES ASSUME HasAt(D, 0, u2)
                 PROVE  Stage(v2, u2) \in Writing(text) /\ WrittenFrom(text, Stage(v2, u2)) = WrittenFrom(text, Started)
    OBVIOUS
  <2>2. /\ l \in Seq(Bytes) /\ Len(l) \in 1 .. MaxLabel /\ e \in Seq(Bytes) /\ ue \in Seq(Bytes)
        /\ <<Dot>> \in Seq(Bytes) /\ Len(<<Dot>>) = 1 /\ u2 \in Seq(Bytes)
        /\ Len(ue) = p + Len(e) /\ Len(u2) = p + Len(e) + 1
    <3>1. Growth(v, u, l)
      BY NameGrows
    <3> QED BY <3>1 DEF Growth
  <2>3. p \in Nat /\ Len(e) \in Nat /\ Len(l) \in Nat /\ Len(l) > 0 /\ Len(l) <= MaxLabel
    <3>1. Len(l) \in Nat /\ Len(l) > 0 /\ Len(l) <= MaxLabel
      BY <2>2, LabelAssumption DEF IndirMask
    <3> HIDE DEF e
    <3> QED BY <2>2, <3>1, LenProperties
  <2>4. Len(e) > 0 /\ e[1] # Dot
    <3>1. TextFacts(l, e)
      BY <2>2, EscapedSays
    <3> QED BY <2>3, <3>1 DEF TextFacts
  <2> HIDE DEF e
  <2>5. HasAt(D, 0, ue) /\ HasAt(D, 0 + Len(ue), <<Dot>>)
    <3> HIDE DEF ue
    <3>1. 0 \in Nat
      OBVIOUS
    <3> QED BY <1>1, <2>1, <2>2, <3>1, HasBoth
  <2>6. HasAt(D, 0, u) /\ HasAt(D, 0 + p, e)
    <3>1. 0 \in Nat
      OBVIOUS
    <3> QED BY <1>1, <2>2, <2>5, <3>1, HasBoth
  <2>7. D[p + Len(e) + 1] = Dot /\ p + Len(e) + 1 <= n + 1
    <3> DEFINE m == p + Len(e)
    <3>1. 0 + Len(ue) = m /\ m \in Nat
      BY <2>2, <2>3
    <3> HIDE DEF m
    <3>2. m + 1 <= Len(D) /\ \A i \in 1 .. 1 : D[m + i] = <<Dot>>[i]
      BY <2>2, <2>5, <3>1 DEF HasAt
    <3>3. D[m + 1] = Dot
      BY <3>2
    <3> QED BY <1>1, <3>1, <3>2, <3>3 DEF m
  <2>8. HasAt(text, p, e)
    <3>1. \A i \in 1 .. Len(e) : D[p + i] = e[i]
      BY <2>3, <2>6 DEF HasAt
    <3>2. p + Len(e) <= n
      BY <1>0, <2>3, <2>7
    <3>3. ASSUME NEW i \in 1 .. Len(e) PROVE text[p + i] = e[i]
      <4>1. p + i \in 1 .. n
        BY <1>0, <2>3, <3>2
      <4> QED BY <1>1, <3>1, <4>1
    <3> QED BY <3>2, <3>3 DEF HasAt
  <2>9. InLabel(text, p) /\ ~InLabel(text, p + Len(e))
    <3>1. p + Len(e) <= n /\ text[p + 1] = e[1]
      BY <2>3, <2>4, <2>8 DEF HasAt
    <3>2. InLabel(text, p)
      BY <1>0, <2>3, <2>4, <3>1 DEF InLabel, At
    <3>3. ASSUME p + Len(e) < n PROVE At(text, p + Len(e)) = Dot
      <4>1. p + Len(e) + 1 \in 1 .. n
        BY <1>0, <2>3, <3>3
      <4> QED BY <1>1, <2>7, <4>1 DEF At
    <3> QED BY <3>2, <3>3 DEF InLabel
  <2>10. Label(text, p) = [p |-> p + Len(e), bytes |-> l]
    BY <2>2, <2>3, <2>8, <2>9, LabelReadsBack DEF e
  <2>11. s \in Writing(text) /\ WrittenFrom(text, s) = WrittenFrom(text, Started)
    BY <1>3, <2>6
  <2>12. s.p = p /\ s.q = v /\ s.ok
    OBVIOUS
  <2>13. Writes(text, s)
    BY <2>3, <2>9, <2>10, <2>12 DEF Writes
  <2>14. WriteLabel(text, s) = Onwards(text, s)
    BY <2>9, <2>11, <2>12, <2>13, WriteIs DEF InLabel
  <2>15. Onwards(text, s) = Stage(v2, u2)
    <3>1. Label(text, p).p = p + Len(e) /\ Label(text, p).bytes = l
      BY <2>10
    <3> HIDE DEF s
    <3> QED BY <2>2, <2>12, <3>1 DEF Onwards
  <2> HIDE DEF s, Stage, u2, v2
  <2>16. /\ WriteLabel(text, s) \in Writing(text)
         /\ WrittenFrom(text, WriteLabel(text, s)) = WrittenFrom(text, s)
    BY <2>11, WriteIs, WrittenFromIs
  <2> QED BY <2>11, <2>14, <2>15, <2>16
<1>4. AddsLabels(P)
  <2>1. ASSUME NEW v \in Seq(Bytes), NEW u \in Seq(Bytes), NEW l \in Labels, <<v, u>> \in P
        PROVE  <<v \o <<Len(l)>> \o l, u \o Escaped(l) \o <<Dot>>>> \in P
    <3>1. Gets(v, u)
      BY <2>1
    <3> HIDE DEF Gets
    <3>2. Gets(v \o <<Len(l)>> \o l, u \o Escaped(l) \o <<Dot>>)
      BY <1>3, <3>1
    <3>3. Growth(v, u, l)
      BY NameGrows
    <3> QED BY <3>2, <3>3 DEF Growth
  <2> HIDE DEF P
  <2> QED BY <1>2, <2>1 DEF AddsLabels
<1>5. Gets(w, t)
  <2>1. <<w, t>> \in P
    <3> HIDE DEF P
    <3> QED BY <1>4 DEF Spelled
  <2> HIDE DEF Gets
  <2> QED BY <2>1
<1>6. Stage(w, t) \in Writing(text) /\ WrittenFrom(text, Stage(w, t)) = WrittenFrom(text, Started)
  BY <1>5 DEF D
<1>7. Stage(w, t).p >= Len(text)
  OBVIOUS
<1> HIDE DEF Stage
<1>8. WrittenFrom(text, Stage(w, t)) = Stage(w, t)
  BY <1>6, <1>7, WrittenFromIs
<1> QED BY <1>6, <1>8, StartedIs DEF Stage

-----------------------------------------------------------------------------
(* The loop over the characters of a text, which counts them.              *)
CountState == [p : Nat, n : Nat]
CountTurn(text) == [s \in CountState |-> CountChar(text, s)]
Counting(text) == {s \in CountState : s.p <= Len(text)}
CountedFrom(text, p, n) == Looped(CountTurn(text), Len(text))[[p |-> p, n |-> n]]

LEMMA CountIs ==
  ASSUME NEW text \in Seq(Bytes), NEW s \in Counting(text)
  PROVE  /\ CountChar(text, s) \in Counting(text)
         /\ s.p \in Nat /\ s.p <= Len(text) /\ s.n \in Nat
         /\ s.p = Len(text) => CountChar(text, s) = s
         /\ s.p < Len(text) => /\ CountChar(text, s) = [p |-> CharAt(text, s.p) + 1, n |-> s.n + 1]
                               /\ CharAt(text, s.p) \in s.p .. Len(text) - 1
<1> DEFINE n == Len(text)
           c == CharAt(text, s.p)
           t == CountChar(text, s)
<1>1. s.p \in Nat /\ s.p <= n /\ n \in Nat /\ s.n \in Nat /\ s = [p |-> s.p, n |-> s.n]
  BY LenProperties DEF Counting, CountState
<1>2. CASE s.p = n
  BY <1>1, <1>2 DEF CountChar
<1>3. CASE s.p < n
  <2>1. c \in s.p .. n - 1
    BY <1>1, <1>3 DEF CharAt
  <2>2. t = [p |-> c + 1, n |-> s.n + 1]
    BY <1>1, <1>3 DEF CountChar
  <2> HIDE DEF c, t
  <2>3. t.p = c + 1 /\ t \in CountState
    BY <1>1, <2>1, <2>2 DEF CountState
  <2>4. t \in Counting(text)
    BY <1>1, <2>1, <2>3 DEF Counting
  <2> QED BY <1>1, <1>3, <2>1, <2>2, <2>4 DEF c, t
<1> QED BY <1>1, <1>2, <1>3

(* The count does not depend on where it is begun.                         *)
LEMMA CountGoesOn ==
  ASSUME NEW text \in Seq(Bytes), NEW p \in Nat, NEW m \in Nat, p <= Len(text)
  PROVE  /\ p = Len(text) => CountedFrom(text, p, m) = [p |-> p, n |-> m]
         /\ p < Len(text) => /\ CharAt(text, p) \in p .. Len(text) - 1
                             /\ CountedFrom(text, CharAt(text, p) + 1, m + 1) = CountedFrom(text, p, m)
<1> DEFINE n == Len(text)
           I == Counting(text)
           f == CountTurn(text)
           s == [p |-> p, n |-> m]
           measure == [x \in I |-> n - x.p]
<1>0. n \in Nat
  BY LenProperties
<1>1. \A x \in I : x \in DOMAIN f /\ f[x] = CountChar(text, x) /\ x.p \in Nat /\ x.p <= n
  BY DEF Counting, CountTurn, CountState
<1>2. \A x \in I : f[x] \in I
  BY <1>1, CountIs
<1>3. \A x \in I : x.p = n => f[x] = x
  BY <1>1, CountIs
<1>4. ASSUME NEW x \in I, x.p < n PROVE f[x].p > x.p
  <2>1. CharAt(text, x.p) \in x.p .. n - 1 /\ f[x].p = CharAt(text, x.p) + 1
    BY <1>1, <1>4, CountIs
  <2> QED BY <1>0, <1>1, <2>1
<1>5. measure \in [I -> Nat] /\ \A x \in I : measure[x] = n - x.p
  BY <1>0, <1>1
<1>6. s \in I /\ s.p = p /\ s.n = m
  BY DEF Counting, CountState
<1>7. CountedFrom(text, p, m) = Looped(f, n)[s]
  BY DEF CountedFrom
<1>8. p < n => /\ CharAt(text, p) \in p .. n - 1
               /\ f[s] = [p |-> CharAt(text, p) + 1, n |-> m + 1]
               /\ CountedFrom(text, CharAt(text, p) + 1, m + 1) = Looped(f, n)[f[s]]
  <2>1. p < n => CharAt(text, p) \in p .. n - 1 /\ f[s] = [p |-> CharAt(text, p) + 1, n |-> m + 1]
    <3> HIDE DEF s, f, I
    <3> QED BY <1>1, <1>6, CountIs DEF I
  <2> HIDE DEF s
  <2> QED BY <2>1 DEF CountedFrom
<1> HIDE DEF f, I, measure, n, s
<1>9. \A x \in I : f[x] = x \/ measure[f[x]] < measure[x]
  <2> SUFFICES ASSUME NEW x \in I, f[x] # x PROVE measure[f[x]] < measure[x]
    OBVIOUS
  <2>1. x.p < n
    BY <1>0, <1>1, <1>3
  <2>2. f[x].p > x.p /\ f[x] \in I
    BY <1>2, <1>4, <2>1
  <2> QED BY <1>0, <1>1, <1>5, <2>2
<1>10. I \in SUBSET (DOMAIN f)
  BY <1>1
<1>13. s \in I
  BY <1>6
<1>14. measure[s] <= n
  BY <1>0, <1>1, <1>5, <1>6
<1> DEFINE r == Looped(f, n)[s]
<1>11. f[r] = r /\ Looped(f, n)[f[s]] = r
  <2>1. measure \in [I -> Nat]
    BY <1>5
  <2> HIDE DEF r
  <2>2. f[Looped(f, n)[s]] = Looped(f, n)[s] /\ Looped(f, n)[f[s]] = Looped(f, n)[s]
    BY <1>0, <1>2, <1>9, <1>10, <1>13, <1>14, <2>1, LoopIsOver, ZenonT(60)
  <2> QED BY <2>2 DEF r
<1>12. ASSUME p = n PROVE Looped(f, n)[s] = s
  <2>1. f[s] = s
    BY <1>3, <1>6, <1>12
  <2>2. {s} \in SUBSET (DOMAIN f) /\ \A x \in {s} : f[x] \in {s}
    BY <1>6, <1>10, <2>1
  <2>3. Looped(f, n)[s] \in {s}
    BY <1>0, <2>2, LoopKeeps
  <2> QED BY <2>3
<1> QED BY <1>7, <1>8, <1>11, <1>12 DEF n, s

LEMMA CountBegins ==
  ASSUME NEW text
  PROVE  Characters(text) = CountedFrom(text, 0, 0).n
BY DEF Characters, CountedFrom, CountTurn, CountState

LEMMA DotIsCounted == Counted(<<Dot>>) = 2
<1> DEFINE text == <<Dot>>
<1>1. text \in Seq(Bytes) /\ Len(text) = 1 /\ At(text, 0) = Dot /\ text # <<>> /\ Len(text) - 1 = 0
  BY DEF At, Dot, Bytes
<1> HIDE DEF text
<1>2. CharAt(text, 0) = 0
  BY <1>1 DEF CharAt, Dot, Backslash
<1>3. CountedFrom(text, 1, 1) = CountedFrom(text, 0, 0)
  <2>1. CountedFrom(text, CharAt(text, 0) + 1, 0 + 1) = CountedFrom(text, 0, 0)
    BY <1>1, CountGoesOn
  <2>2. CharAt(text, 0) + 1 = 1 /\ 0 + 1 = 1
    BY <1>2
  <2> QED BY <2>1, <2>2
<1>4. CountedFrom(text, 1, 1) = [p |-> 1, n |-> 1]
  <2> DEFINE one == 1
  <2>1. one \in Nat /\ one <= Len(text) /\ one = Len(text)
    BY <1>1
  <2> HIDE DEF one
  <2>2. CountedFrom(text, one, one) = [p |-> one, n |-> one]
    BY <1>1, <2>1, CountGoesOn
  <2> QED BY <2>2 DEF one
<1>5. Characters(text) = 1
  BY <1>3, <1>4, CountBegins
<1> QED BY <1>1, <1>5 DEF Counted, text

(* Which characters are escaped.                                           *)
Escapes(e, text) ==
  /\ ~e[0]
  /\ \A k \in 1 .. Len(text) : e[k] <=> (At(text, k - 1) = Backslash /\ ~e[k - 1])

LEMMA EscapesExist ==
  ASSUME NEW text \in Seq(Bytes)
  PROVE  \E e : /\ Escapes(e, text)
                /\ EndsEscaped(text) <=> (text # <<>> /\ At(text, Len(text) - 1) = Dot /\ e[Len(text) - 1])
<1> DEFINE n == Len(text)
           Put(x, k) == At(text, k - 1) = Backslash /\ ~x
           IsRun(t, m) == t = [k \in 0 .. m |-> IF k = 0 THEN FALSE ELSE Put(t[k - 1], k)]
           t == CHOOSE t : IsRun(t, n)
<1>1. n \in Nat
  BY LenProperties
<1>2. EndsEscaped(text) <=> (text # <<>> /\ At(text, n - 1) = Dot /\ t[n - 1])
  BY Zenon DEF EndsEscaped
<1>3. \A x, k : Put(x, k) <=> (At(text, k - 1) = Backslash /\ ~x)
  OBVIOUS
<1> HIDE DEF Put
<1>4. \E u : IsRun(u, n)
  <2> DEFINE K == {k \in 0 .. n : \E u : IsRun(u, k)}
  <2>1. 0 \in K
    <3>1. IsRun([k \in 0 .. 0 |-> FALSE], 0)
      OBVIOUS
    <3> HIDE DEF IsRun
    <3> QED BY <1>1, <3>1
  <2>2. ASSUME NEW k \in 1 .. n, k - 1 \in K PROVE k \in K
    <3>1. PICK u : IsRun(u, k - 1)
      <4> HIDE DEF IsRun
      <4> QED BY <2>2
    <3> DEFINE v == [j \in 0 .. k |-> IF j = k THEN Put(u[k - 1], k) ELSE u[j]]
    <3>2. \A j \in 0 .. k - 1 : u[j] = IF j = 0 THEN FALSE ELSE Put(u[j - 1], j)
      BY <3>1, Zenon
    <3>3. ASSUME NEW j \in 0 .. k PROVE v[j] = IF j = 0 THEN FALSE ELSE Put(v[j - 1], j)
      <4>1. k \in Nat /\ k # 0 /\ k \in 0 .. k /\ (j = k \/ j \in 0 .. k - 1)
        BY <1>1
      <4>2. \A i \in 0 .. k - 1 : v[i] = u[i]
        BY <4>1
      <4>3. v[k] = Put(u[k - 1], k)
        BY <4>1
      <4>4. j # 0 => j - 1 \in 0 .. k - 1
        BY <4>1
      <4> HIDE DEF v
      <4> QED BY <3>2, <4>1, <4>2, <4>3, <4>4, Zenon
    <3>4. v = [j \in 0 .. k |-> v[j]]
      OBVIOUS
    <3> HIDE DEF v
    <3>5. IsRun(v, k)
      BY <3>3, <3>4
    <3> HIDE DEF IsRun
    <3> QED BY <3>5
  <2> HIDE DEF K
  <2>3. 0 .. n \subseteq K
    BY <1>1, <2>1, <2>2, CountsUp
  <2>4. n \in K
    BY <1>1, <2>3
  <2> HIDE DEF IsRun
  <2> QED BY <2>4 DEF K
<1>5. IsRun(t, n)
  <2> HIDE DEF IsRun
  <2> QED BY <1>4
<1> HIDE DEF t
<1>6. ~t[0] /\ \A k \in 1 .. n : t[k] = Put(t[k - 1], k)
  <2>1. \A k \in 0 .. n : t[k] = IF k = 0 THEN FALSE ELSE Put(t[k - 1], k)
    BY <1>5, Zenon
  <2>2. 0 \in 0 .. n /\ \A k \in 1 .. n : k \in 0 .. n /\ k # 0
    BY <1>1
  <2> QED BY <2>1, <2>2, Zenon
<1>7. Escapes(t, text)
  BY <1>3, <1>6, Zenon DEF Escapes
<1> QED BY <1>2, <1>7

(* A label has as many bytes as there are characters counted from its      *)
(* beginning to its end, where no escaped dot is, and at the end of the    *)
(* text a last dot is escaped.                                             *)
LEMMA LabelIsCounted ==
  ASSUME NEW text \in Seq(Bytes), NEW e, Escapes(e, text),
         NEW p \in Nat, InLabel(text, p), ~e[p], NEW m \in Nat
  PROVE  LET label == Label(text, p) IN
         /\ CountedFrom(text, label.p, m + Len(label.bytes)) = CountedFrom(text, p, m)
         /\ label.p = Len(text) /\ At(text, Len(text) - 1) = Dot => e[Len(text) - 1]
<1> DEFINE n == Len(text)
           I == Copying(text)
           f == CopyTurn(text)
           s0 == [p |-> p, bytes |-> <<>>]
           Counts(s) == CountedFrom(text, s.p, m + Len(s.bytes)) = CountedFrom(text, p, m)
           Stays(s) == /\ s.p < n => ~e[s.p]
                       /\ s.p > p /\ At(text, s.p - 1) = Dot => e[s.p - 1]
           J == {s \in I : s.p >= p /\ Counts(s) /\ Stays(s)}
<1>0. n \in Nat /\ p < n
  BY LenProperties DEF InLabel
<1>1. s0 \in J
  <2>1. <<>> \in Seq(Nat) /\ <<>> \in Seq(Bytes) /\ Len(<<>>) = 0 /\ m + 0 = m
    BY EmptySeq
  <2>2. s0.p = p /\ s0.bytes = <<>> /\ s0 \in CopyState
    BY <2>1 DEF CopyState
  <2> HIDE DEF s0
  <2>3. s0 \in I
    <3>1. s0.p <= Len(text) /\ s0.bytes \in Seq(Bytes)
      BY <1>0, <2>1, <2>2
    <3> QED BY <2>2, <3>1, Zenon DEF Copying
  <2>4. Counts(s0) /\ Stays(s0)
    BY <2>1, <2>2
  <2> HIDE DEF I, Counts, Stays
  <2> QED BY <2>2, <2>3, <2>4
<1>2. ASSUME NEW s \in J PROVE CopyChar(text, s) \in J
  <2>1. s \in I /\ s.p >= p /\ Counts(s) /\ Stays(s)
    OBVIOUS
  <2>2. s.p \in Nat /\ s.p <= n /\ s.bytes \in Seq(Bytes) /\ Len(s.bytes) \in Nat
    BY <2>1, CopyIs, LenProperties
  <2>3. CASE ~InLabel(text, s.p)
    BY <2>1, <2>3, CopyIs
  <2>4. CASE InLabel(text, s.p)
    <3> DEFINE c == CharAt(text, s.p)
               b == At(text, c)
               t == CopyChar(text, s)
               u == Append(s.bytes, b)
    <3>1. t \in I /\ t = [p |-> c + 1, bytes |-> u] /\ c \in s.p .. n - 1 /\ b \in Bytes
      BY <2>1, <2>4, CopyIs
    <3>2. Len(u) = Len(s.bytes) + 1
      BY <2>2, <3>1, AppendProperties
    <3>3. t.p = c + 1 /\ t.bytes = u
      BY <3>1
    <3>4. s.p < n /\ At(text, s.p) # Dot /\ ~e[s.p]
      BY <2>1, <2>4 DEF InLabel
    <3>5. Counts(t)
      <4>1. CountedFrom(text, c + 1, (m + Len(s.bytes)) + 1) = CountedFrom(text, s.p, m + Len(s.bytes))
        <5> DEFINE k == m + Len(s.bytes)
                   x == s.p
        <5>1. k \in Nat /\ x \in Nat /\ x <= n /\ x < n
          BY <2>2, <3>4
        <5> HIDE DEF k, x
        <5>2. CountedFrom(text, CharAt(text, x) + 1, k + 1) = CountedFrom(text, x, k)
          BY <5>1, CountGoesOn
        <5> QED BY <5>2 DEF k, x
      <4>2. (m + Len(s.bytes)) + 1 = m + Len(u)
        BY <2>2, <3>2
      <4> HIDE DEF c, t, u
      <4> QED BY <2>1, <3>3, <4>1, <4>2
    <3>6. Stays(t)
      <4>1. \A k \in 1 .. n : e[k] <=> (At(text, k - 1) = Backslash /\ ~e[k - 1])
        BY DEF Escapes
      <4>2. CASE At(text, s.p) = Backslash /\ s.p + 1 < n
        <5>1. t.p = s.p + 2
          <6>1. c = s.p + 1
            BY <4>2 DEF CharAt
          <6> HIDE DEF c, t
          <6> QED BY <2>2, <3>3, <6>1
        <5>2. s.p + 1 \in 1 .. n /\ s.p + 2 \in 1 .. n /\ (s.p + 1) - 1 = s.p /\ (s.p + 2) - 1 = s.p + 1
          BY <1>0, <2>2, <4>2
        <5>3. e[s.p + 1]
          BY <3>4, <4>1, <4>2, <5>2, Zenon
        <5>4. ~e[s.p + 2]
          BY <4>1, <5>2, <5>3, Zenon
        <5> HIDE DEF t
        <5> QED BY <5>1, <5>2, <5>3, <5>4, Zenon
      <4>3. CASE ~(At(text, s.p) = Backslash /\ s.p + 1 < n)
        <5>1. t.p = s.p + 1
          <6>1. c = s.p
            BY <4>3 DEF CharAt
          <6> HIDE DEF c, t
          <6> QED BY <2>2, <3>3, <6>1
        <5>2. s.p + 1 \in 1 .. n /\ (s.p + 1) - 1 = s.p
          BY <1>0, <2>2, <3>4
        <5>3. s.p + 1 < n => ~e[s.p + 1]
          BY <4>1, <4>3, <5>2, Zenon
        <5> HIDE DEF t
        <5> QED BY <3>4, <5>1, <5>2, <5>3, Zenon
      <4> QED BY <4>2, <4>3
    <3> HIDE DEF c, t, u, Counts, Stays
    <3>7. t.p >= p
      BY <2>1, <2>2, <3>1, <3>3
    <3> HIDE DEF I
    <3> QED BY <3>1, <3>5, <3>6, <3>7 DEF t
  <2> QED BY <2>3, <2>4
<1> DEFINE r == CopiedFrom(text, s0)
<1>3. r \in J
  <2>1. J \in SUBSET (DOMAIN f) /\ \A s \in J : f[s] = CopyChar(text, s)
    BY DEF CopyTurn, Copying
  <2> HIDE DEF f, J
  <2>2. \A s \in J : f[s] \in J
    BY <1>2, <2>1
  <2>3. Looped(f, n)[s0] \in J
    BY <1>0, <1>1, <2>1, <2>2, LoopKeeps
  <2> QED BY <2>3 DEF f, CopiedFrom
<1>4. Label(text, p) = r
  BY DEF Label, CopiedFrom, CopyTurn, CopyState
<1>5. r.p \in p + 1 .. n
  BY <1>4, LabelIs
<1>6. Counts(r) /\ Stays(r)
  <2> HIDE DEF r, I, Counts, Stays
  <2> QED BY <1>3
<1> HIDE DEF r
<1>7. r.p > p
  BY <1>0, <1>5
<1> QED BY <1>4, <1>6, <1>7

LEMMA AllAreLong ==
  ASSUME NEW q \in Seq(Bytes), NEW b \in Bytes, NEW l \in Seq(Bytes)
  PROVE  Len(q \o <<b>> \o l) = Len(q) + 1 + Len(l)
<1> DEFINE x == <<b>>
<1>1. x \in Seq(Bytes) /\ Len(x) = 1
  OBVIOUS
<1> HIDE DEF x
<1>2. q \o x \in Seq(Bytes) /\ Len(q \o x) = Len(q) + 1
  <2>1. q \o x \in Seq(Bytes) /\ Len(q \o x) = Len(q) + Len(x)
    BY <1>1, ConcatProperties
  <2> QED BY <1>1, <2>1
<1>3. Len(q \o x \o l) = Len(q \o x) + Len(l)
  BY <1>2, ConcatProperties
<1> QED BY <1>2, <1>3 DEF x

(* And as many bytes are written as were counted, for the characters and   *)
(* the lengths of labels.                                                  *)
LEMMA CountedIs ==
  ASSUME NEW text \in Seq(Bytes), Written(text).ok, ~EndsEscaped(text)
  PROVE  Counted(text) = Len(Written(text).q) + 1
<1> DEFINE n == Len(text)
           I == Writing(text)
           f == WriteTurn(text)
           all == CountedFrom(text, 0, 0)
<1>0. n \in Nat
  BY LenProperties
<1>1. PICK e : /\ Escapes(e, text)
               /\ EndsEscaped(text) <=> (text # <<>> /\ At(text, n - 1) = Dot /\ e[n - 1])
  BY EscapesExist
<1> DEFINE Inside(s) == /\ CountedFrom(text, s.p, Len(s.q)) = all
                        /\ s.p < n => ~e[s.p]
                        /\ s.p > 0 => At(text, s.p - 1) = Dot
           Behind(s) == /\ CountedFrom(text, n, Len(s.q) - 1) = all /\ Len(s.q) > 0
                        /\ At(text, n - 1) = Dot => e[n - 1]
           Counts(s) == (s.p <= n => Inside(s)) /\ (s.p = n + 1 => Behind(s))
           J == {s \in I : s.ok => Counts(s)}
<1>2. Started \in J
  <2>1. Started \in I /\ Started.p = 0 /\ Started.q = <<>> /\ Len(<<>>) = 0
    BY StartedIs, EmptySeq
  <2>2. ~e[0]
    BY <1>1 DEF Escapes
  <2>3. Inside(Started) /\ Started.p # n + 1
    BY <1>0, <2>1, <2>2
  <2> HIDE DEF I, Inside, Behind
  <2> QED BY <2>1, <2>3
<1>3. ASSUME NEW s \in J PROVE WriteLabel(text, s) \in J
  <2> DEFINE next == WriteLabel(text, s)
             label == Label(text, s.p)
             l == label.bytes
             to == label.p
  <2> HIDE DEF Counts
  <2>1. s \in I /\ (s.ok => Counts(s))
    OBVIOUS
  <2>2. s.p \in Nat /\ s.q \in Seq(Bytes) /\ s.ok \in BOOLEAN /\ next \in I /\ Len(s.q) \in Nat
    BY <2>1, WriteIs, LenProperties
  <2>3. CASE ~s.ok \/ s.p >= n
    <3>1. next = s
      BY <2>1, <2>3, WriteIs
    <3> QED BY <3>1
  <2>4. CASE s.ok /\ s.p < n /\ ~Writes(text, s)
    <3>1. ~next.ok
      BY <2>1, <2>4, WriteIs
    <3> HIDE DEF next, I
    <3> QED BY <2>2, <3>1 DEF next
  <2>5. CASE s.ok /\ s.p < n /\ Writes(text, s)
    <3>1. next = Onwards(text, s) /\ l \in Labels
      BY <2>1, <2>5, WriteIs
    <3>2. next.p = to + 1 /\ next.q = s.q \o <<Len(l)>> \o l
      <4>1. Onwards(text, s).p = to + 1 /\ Onwards(text, s).q = s.q \o <<Len(l)>> \o l
        BY DEF Onwards
      <4> HIDE DEF next
      <4> QED BY <3>1, <4>1, Zenon
    <3>3. /\ l \in Seq(Bytes) /\ to \in s.p + 1 .. n /\ (to < n => At(text, to) = Dot)
          /\ InLabel(text, s.p)
      BY <2>2, <2>5, LabelIs DEF Writes
    <3>4. Len(l) \in Nat /\ Len(next.q) = Len(s.q) + Len(l) + 1
      <4>1. Len(l) \in Nat /\ Len(l) <= MaxLabel
        BY <2>5, <3>3, LenProperties DEF Writes
      <4>2. Len(l) \in Bytes
        <5> DEFINE k == Len(l)
        <5>1. MaxLabel \in Nat /\ MaxLabel <= 255
          BY LabelAssumption DEF IndirMask
        <5>2. k \in Nat /\ k <= MaxLabel
          BY <4>1
        <5> HIDE DEF k
        <5>3. k \in Bytes
          BY <5>1, <5>2 DEF Bytes
        <5> QED BY <5>3 DEF k
      <4>3. Len(s.q \o <<Len(l)>> \o l) = Len(s.q) + 1 + Len(l)
        BY <2>2, <3>3, <4>2, AllAreLong
      <4> HIDE DEF next, l
      <4>4. Len(next.q) = Len(s.q) + 1 + Len(l)
        BY <3>2, <4>3
      <4> QED BY <2>2, <4>1, <4>4
    <3>5. CountedFrom(text, s.p, Len(s.q)) = all /\ ~e[s.p]
      <4>1. Inside(s)
        BY <1>0, <2>1, <2>2, <2>5 DEF Counts
      <4> QED BY <2>5, <4>1
    <3>6. /\ CountedFrom(text, to, Len(s.q) + Len(l)) = all
          /\ to = n /\ At(text, n - 1) = Dot => e[n - 1]
      <4>1. /\ CountedFrom(text, to, Len(s.q) + Len(l)) = CountedFrom(text, s.p, Len(s.q))
            /\ to = n /\ At(text, n - 1) = Dot => e[n - 1]
        BY <1>1, <2>2, <3>3, <3>5, LabelIsCounted
      <4> QED BY <3>5, <4>1
    <3> HIDE DEF next, l, to, label, all
    <3>7. CASE to = n
      <4>1. Len(next.q) - 1 = Len(s.q) + Len(l) /\ Len(next.q) > 0
        BY <2>2, <3>4
      <4>2. Behind(next)
        BY <3>6, <3>7, <4>1
      <4>3. ~(next.p <= n)
        BY <1>0, <3>2, <3>7
      <4>4. Counts(next)
        BY <4>2, <4>3 DEF Counts
      <4> HIDE DEF I
      <4> QED BY <2>2, <4>4 DEF next
    <3>8. CASE to < n
      <4>1. to \in Nat /\ At(text, to) = Dot /\ Dot # Backslash
        BY <2>2, <3>3, <3>8 DEF Dot, Backslash
      <4>2. CharAt(text, to) = to
        BY <4>1 DEF CharAt
      <4>3. CountedFrom(text, to + 1, Len(s.q) + Len(l) + 1) = all
        <5> DEFINE m == Len(s.q) + Len(l)
        <5>1. m \in Nat /\ to <= n
          BY <1>0, <2>2, <3>4, <3>8, <4>1
        <5> HIDE DEF m
        <5>2. CountedFrom(text, CharAt(text, to) + 1, m + 1) = CountedFrom(text, to, m)
          BY <3>8, <4>1, <5>1, CountGoesOn
        <5> QED BY <3>6, <4>2, <5>2 DEF m
      <4>4. ~e[to + 1]
        <5>1. to + 1 \in 1 .. n /\ (to + 1) - 1 = to
          BY <1>0, <3>8, <4>1
        <5>2. e[to + 1] <=> (At(text, (to + 1) - 1) = Backslash /\ ~e[(to + 1) - 1])
          BY <1>1, <5>1, Zenon DEF Escapes
        <5> QED BY <4>1, <5>1, <5>2, Zenon
      <4>5. Inside(next)
        <5>1. (to + 1) - 1 = to
          BY <4>1
        <5> QED BY <3>2, <3>4, <4>1, <4>3, <4>4, <5>1
      <4>6. next.p # n + 1
        BY <1>0, <3>2, <3>8, <4>1
      <4>7. Counts(next)
        BY <4>5, <4>6 DEF Counts
      <4> HIDE DEF I
      <4> QED BY <2>2, <4>7 DEF next
    <3> QED BY <1>0, <2>2, <3>3, <3>7, <3>8
  <2> QED BY <1>0, <2>2, <2>3, <2>4, <2>5
<1>4. Written(text) \in J
  <2>1. J \in SUBSET (DOMAIN f) /\ \A s \in J : f[s] = WriteLabel(text, s)
    BY DEF WriteTurn, Writing
  <2> HIDE DEF f, J
  <2>2. \A s \in J : f[s] \in J
    BY <1>3, <2>1
  <2>3. Looped(f, n)[Started] \in J
    BY <1>0, <1>2, <2>1, <2>2, LoopKeeps
  <2> QED BY <2>3, StartedIs DEF f, WrittenFrom
<1> DEFINE r == Written(text)
<1>5. Counts(r)
  <2> HIDE DEF Counts, I
  <2> QED BY <1>4
<1>6. r.p \in Nat /\ r.p <= n + 1 /\ r.p >= n /\ Len(r.q) \in Nat
  <2>1. r \in I /\ r.q \in Seq(Bytes)
    BY StartedIs
  <2>2. ~r.ok \/ r.p >= n
    BY StartedIs, WrittenFromIs
  <2> QED BY <2>1, <2>2, LenProperties DEF Writing, WriteState
<1> HIDE DEF r
<1>7. Characters(text) = all.n
  BY CountBegins
<1>8. n = 0 <=> text = <<>>
  BY EmptySeq
<1>9. CASE r.p = n
  <2>1. Inside(r)
    BY <1>0, <1>5, <1>9
  <2>2. CountedFrom(text, n, Len(r.q)) = [p |-> n, n |-> Len(r.q)]
    BY <1>0, <1>6, CountGoesOn
  <2>3. Characters(text) = Len(r.q)
    BY <1>7, <1>9, <2>1, <2>2
  <2>4. text # <<>> => At(text, n - 1) = Dot
    BY <1>0, <1>8, <1>9, <2>1
  <2>5. (IF text # <<>> /\ At(text, n - 1) # Dot THEN 1 ELSE 0) = 0
    BY <2>4
  <2>6. Counted(text) = 1 + Characters(text) + 0
    BY <2>5 DEF Counted
  <2> QED BY <1>6, <2>3, <2>6 DEF r
<1>10. CASE r.p = n + 1
  <2>1. Behind(r)
    BY <1>5, <1>10
  <2>2. CountedFrom(text, n, Len(r.q) - 1) = [p |-> n, n |-> Len(r.q) - 1]
    BY <1>0, <1>6, <2>1, CountGoesOn
  <2>3. Characters(text) = Len(r.q) - 1
    BY <1>7, <2>1, <2>2
  <2>4. text # <<>>
    <3>1. SUFFICES ASSUME text = <<>> PROVE FALSE
      OBVIOUS
    <3>2. n = 0 /\ Started.p = 0 /\ Started \in Writing(text) /\ r = WrittenFrom(text, Started)
      BY <1>8, <3>1, StartedIs DEF r
    <3>3. r = Started
      <4>1. Started.p >= Len(text)
        BY <3>2
      <4> QED BY <3>2, <4>1, WrittenFromIs
    <3> HIDE DEF n
    <3> QED BY <1>10, <3>2, <3>3
  <2>5. At(text, n - 1) # Dot
    BY <1>1, <2>1, <2>4
  <2>6. (IF text # <<>> /\ At(text, n - 1) # Dot THEN 1 ELSE 0) = 1
    BY <2>4, <2>5
  <2>7. Counted(text) = 1 + Characters(text) + 1
    BY <2>6 DEF Counted
  <2> QED BY <1>6, <2>3, <2>7 DEF r
<1> QED BY <1>0, <1>6, <1>9, <1>10

-----------------------------------------------------------------------------
(* A turn may be done before the loop or after it.                         *)
LEMMA LoopCommutes ==
  ASSUME NEW n \in Nat, NEW f, NEW I \in SUBSET (DOMAIN f), \A x \in I : f[x] \in I, NEW s \in I
  PROVE  Looped(f, n)[f[s]] = f[Looped(f, n)[s]]
<1> DEFINE R == {p \in I \X I : p[2] = f[p[1]]}
<1>1. R \in SUBSET ((DOMAIN f) \X (DOMAIN f))
  OBVIOUS
<1>2. \A x \in DOMAIN f : \A y \in DOMAIN f : <<x, y>> \in R => <<f[x], f[y]>> \in R
  OBVIOUS
<1>3. s \in DOMAIN f /\ f[s] \in DOMAIN f /\ <<s, f[s]>> \in R
  OBVIOUS
<1>4. \A x, y : <<x, y>> \in R => y = f[x]
  OBVIOUS
<1> HIDE DEF R
<1>5. <<Looped(f, n)[s], Looped(f, n)[f[s]]>> \in R
  BY <1>1, <1>2, <1>3, LoopsKeep, Zenon
<1> QED BY <1>4, <1>5

(* The second pass from any of its states, next to the first.              *)
ExpandedFrom(abuf, encoded, y) == Looped(ExpandTurn(abuf, encoded), Turns(abuf))[y]

LEMMA PassesFrom ==
  ASSUME NEW abuf \in Seq(Bytes), NEW encoded \in Nat,
         NEW x \in MeasureState, NEW y \in ExpandState, <<x, y>> \in Together(abuf, encoded)
  PROVE  /\ <<Final(abuf, x), ExpandedFrom(abuf, encoded, y)>> \in Together(abuf, encoded)
         /\ ExpandedFrom(abuf, encoded, Expand(abuf, encoded, y)) = ExpandedFrom(abuf, encoded, y)
         /\ At(abuf, y.p) = 0 => ExpandedFrom(abuf, encoded, y) = y
<1> DEFINE f == MeasureTurn(abuf)
           g == ExpandTurn(abuf, encoded)
           n == Turns(abuf)
           R == Together(abuf, encoded)
           I == {z \in ExpandState : \E s \in MeasureState : <<s, z>> \in R}
           r == Looped(g, n)[y]
           e == Looped(f, n)[x]
<1>1. n \in Nat
  BY LenProperties DEF Turns
<1>2. /\ DOMAIN f = MeasureState /\ \A s \in MeasureState : f[s] = Measure(abuf, s)
      /\ DOMAIN g = ExpandState /\ \A z \in ExpandState : g[z] = Expand(abuf, encoded, z)
  BY DEF MeasureTurn, ExpandTurn
<1>3. /\ Final(abuf, x) = e /\ ExpandedFrom(abuf, encoded, y) = r
      /\ ExpandedFrom(abuf, encoded, Expand(abuf, encoded, y)) = Looped(g, n)[g[y]]
  BY <1>2 DEF Final, ExpandedFrom
<1> HIDE DEF f, g, n
<1>4. R \in SUBSET ((DOMAIN f) \X (DOMAIN g)) /\ \A s, z : <<s, z>> \in R => s \in MeasureState /\ z \in ExpandState
  BY <1>2 DEF Together
<1>5. \A s \in DOMAIN f : \A z \in DOMAIN g : <<s, z>> \in R => <<f[s], g[z]>> \in R
  BY <1>2, ExpandFollows
<1>6. \A s, z : <<s, z>> \in R => s \in Reading(abuf) /\ Final(abuf, s).ok /\ z.p = s.p
  BY DEF Together
<1>0. <<x, y>> \in R
  OBVIOUS
<1> HIDE DEF R, e, r
<1>7. <<e, r>> \in R
  BY <1>0, <1>1, <1>2, <1>4, <1>5, LoopsKeep, Zenon DEF e, r
<1>8. I \in SUBSET (DOMAIN g) /\ y \in I
  BY <1>0, <1>2
<1>9. \A z \in I : g[z] \in I
  BY <1>2, <1>4, <1>5
<1> HIDE DEF I
<1>10. Looped(g, n)[g[y]] = g[r]
  BY <1>1, <1>8, <1>9, LoopCommutes DEF r
<1>11. g[r] = r
  <2>1. e.ok /\ At(abuf, e.p) = 0 /\ r.p = e.p /\ r \in ExpandState
    <3>1. x \in Reading(abuf) /\ Final(abuf, x).ok
      BY <1>0, <1>6
    <3>2. r.p = e.p /\ r \in ExpandState
      BY <1>4, <1>6, <1>7
    <3> QED BY <1>3, <3>1, <3>2, FinalIs
  <2> QED BY <1>2, <2>1 DEF Expand
<1>12. ASSUME At(abuf, y.p) = 0 PROVE r = y
  <2>1. g[y] = y
    BY <1>2, <1>12 DEF Expand
  <2>2. {y} \in SUBSET (DOMAIN g) /\ \A z \in {y} : g[z] \in {y}
    BY <1>2, <2>1
  <2>3. Looped(g, n)[y] \in {y}
    BY <1>1, <2>2, LoopKeeps
  <2> QED BY <2>3 DEF r
<1> QED BY <1>3, <1>7, <1>10, <1>11, <1>12 DEF R

(* A label that stands at p is what is read there.                         *)
LEMMA LabelStands ==
  ASSUME NEW abuf \in Seq(Bytes), NEW p \in Nat, NEW l \in Labels,
         HasAt(abuf, p, <<Len(l)>>), HasAt(abuf, p + 1, l), p + 1 + Len(l) < Len(abuf)
  PROVE  /\ At(abuf, p) # 0 /\ ~IsIndirect(At(abuf, p))
         /\ After(abuf, p) = p + 1 + Len(l) /\ LabelAt(abuf, p) = l
<1> DEFINE n == Len(l)
           piece == SubSeq(abuf, p + 2, p + 1 + n)
<1>1. l \in Seq(Bytes) /\ n \in Nat /\ n > 0 /\ n < 192 /\ Len(abuf) \in Nat
  <2>1. MaxLabel \in 1 .. 192 - 1
    BY LabelAssumption DEF IndirMask
  <2>2. l \in Seq(Bytes) /\ n \in 1 .. MaxLabel /\ Len(abuf) \in Nat
    BY LenProperties DEF Labels
  <2> HIDE DEF n
  <2> QED BY <2>1, <2>2
<1>2. At(abuf, p) = n
  <2>1. Len(<<n>>) = 1 /\ <<n>>[1] = n
    OBVIOUS
  <2>2. abuf[p + 1] = n
    BY <2>1 DEF HasAt
  <2> QED BY <2>2 DEF At
<1>3. \A i \in 1 .. n : abuf[(p + 1) + i] = l[i]
  BY DEF HasAt
<1> HIDE DEF n
<1>0. p + 1 + n < Len(abuf)
  BY DEF n
<1>4. After(abuf, p) = p + 1 + n /\ ~IsIndirect(At(abuf, p)) /\ At(abuf, p) # 0
  BY <1>1, <1>2 DEF After, IsIndirect, IndirMask
<1>5. piece \in Seq(Bytes) /\ Len(piece) = n /\ \A i \in 1 .. n : piece[i] = abuf[(p + 2) + i - 1]
  <2>1. p + 2 \in Int /\ p + 1 + n \in Int
    BY <1>1
  <2>2. \A i \in p + 2 .. p + 1 + n : abuf[i] \in Bytes
    <3>1. \A i \in p + 2 .. p + 1 + n : i \in 1 .. Len(abuf)
      BY <1>0, <1>1
    <3> QED BY <3>1, ElementOfSeq
  <2>3. /\ piece \in Seq(Bytes)
        /\ Len(piece) = IF p + 2 <= p + 1 + n THEN (p + 1 + n) - (p + 2) + 1 ELSE 0
        /\ \A i \in 1 .. (p + 1 + n) - (p + 2) + 1 : piece[i] = abuf[(p + 2) + i - 1]
    BY <2>1, <2>2, SubSeqProperties
  <2> HIDE DEF piece
  <2> QED BY <1>1, <2>3
<1>6. \A i \in 1 .. n : piece[i] = l[i]
  <2> SUFFICES ASSUME NEW i \in 1 .. n PROVE piece[i] = l[i]
    OBVIOUS
  <2>1. (p + 2) + i - 1 = (p + 1) + i
    OBVIOUS
  <2> HIDE DEF piece
  <2> QED BY <1>3, <1>5, <2>1
<1>7. piece = l
  <2> HIDE DEF piece
  <2> QED BY <1>1, <1>5, <1>6, SeqEqual DEF n
<1> QED BY <1>4, <1>7 DEF LabelAt, n

(* The two passes when they have walked along a name.                      *)
Walked(x, w, t) == [p |-> x.p + Len(w), n |-> x.n + Len(t), indir |-> x.indir, ok |-> x.ok]
WalkedText(y, w, t) == [p |-> y.p + Len(w), q |-> y.q \o t, enclen |-> y.enclen]

Stands(abuf, p, w) == HasAt(abuf, p, w) /\ p + Len(w) < Len(abuf)

(* A label stands behind a name: what both passes make of it in one turn.  *)
LEMMA StandsBehind ==
  ASSUME NEW abuf \in Seq(Bytes), NEW p \in Nat,
         NEW v \in Seq(Bytes), NEW u \in Seq(Bytes), NEW l \in Labels,
         Stands(abuf, p, v \o <<Len(l)>> \o l)
  PROVE  LET e == Escaped(l)
             at == p + Len(v)
         IN /\ Stands(abuf, p, v) /\ at \in Nat
            /\ At(abuf, at) # 0 /\ ~IsIndirect(At(abuf, at))
            /\ After(abuf, at) = p + Len(v \o <<Len(l)>> \o l) /\ After(abuf, at) < Len(abuf)
            /\ LabelAt(abuf, at) = l
            /\ Len(u \o e \o <<Dot>>) = Len(u) + EscapedLength(l) + 1
            /\ EscapedLength(l) \in Nat /\ Len(u) \in Nat
<1> DEFINE n == Len(l)
           e == Escaped(l)
           vn == v \o <<n>>
           v2 == vn \o l
           at == p + Len(v)
<1>1. Growth(v, u, l)
  BY NameGrows
<1>2. /\ l \in Seq(Bytes) /\ e \in Seq(Bytes) /\ <<n>> \in Seq(Bytes) /\ vn \in Seq(Bytes)
      /\ Len(vn) = Len(v) + 1 /\ Len(v2) = Len(v) + 1 + n
      /\ Len(u \o e \o <<Dot>>) = Len(u) + Len(e) + 1
  BY <1>1 DEF Growth
<1>3. n \in Nat /\ Len(v) \in Nat /\ Len(u) \in Nat /\ Len(abuf) \in Nat
  BY <1>2, LenProperties
<1>4. Len(e) = EscapedLength(l) /\ EscapedLength(l) \in Nat
  BY <1>2, EscapedIs
<1> HIDE DEF n, e
<1>5. HasAt(abuf, p, v2) /\ p + Len(v2) < Len(abuf)
  BY DEF Stands, n
<1>6. HasAt(abuf, p, vn) /\ HasAt(abuf, p + Len(vn), l)
  <2> HIDE DEF vn
  <2> QED BY <1>2, <1>5, HasBoth
<1>7. HasAt(abuf, p, v) /\ HasAt(abuf, at, <<n>>)
  <2>1. HasAt(abuf, p, v) /\ HasAt(abuf, p + Len(v), <<n>>)
    BY <1>2, <1>6, HasBoth
  <2> QED BY <2>1
<1> HIDE DEF vn, v2
<1>8. at \in Nat /\ p + Len(vn) = at + 1 /\ at + 1 + n = p + Len(v2) /\ at < Len(abuf)
  BY <1>2, <1>3, <1>5
<1> HIDE DEF at
<1>9. /\ At(abuf, at) # 0 /\ ~IsIndirect(At(abuf, at))
      /\ After(abuf, at) = at + 1 + n /\ LabelAt(abuf, at) = l
  <2>1. HasAt(abuf, at + 1, l) /\ HasAt(abuf, at, <<n>>) /\ at + 1 + n < Len(abuf)
    BY <1>5, <1>6, <1>7, <1>8
  <2> QED BY <1>8, <2>1, LabelStands DEF n
<1>10. Stands(abuf, p, v)
  BY <1>7, <1>8 DEF Stands, at
<1> QED BY <1>2, <1>3, <1>4, <1>5, <1>8, <1>9, <1>10 DEF at, v2, vn, n, e

LEMMA WalksOn ==
  ASSUME NEW abuf \in Seq(Bytes), NEW x \in Reading(abuf), x.ok,
         NEW w \in Seq(Bytes), NEW t \in Seq(Bytes), Spelled(w, t), Stands(abuf, x.p, w)
  PROVE  Walked(x, w, t) \in Reading(abuf) /\ Final(abuf, Walked(x, w, t)) = Final(abuf, x)
<1> DEFINE Walks(v, u) == Stands(abuf, x.p, v) =>
                            /\ Walked(x, v, u) \in Reading(abuf)
                            /\ Final(abuf, Walked(x, v, u)) = Final(abuf, x)
           P == {pair \in Seq(Bytes) \X Seq(Bytes) : Walks(pair[1], pair[2])}
<1>0. /\ x = [p |-> x.p, n |-> x.n, indir |-> x.indir, ok |-> x.ok]
      /\ x.p \in Nat /\ x.n \in Nat /\ x.indir \in Nat /\ x.ok \in BOOLEAN /\ Len(abuf) \in Nat
  BY LenProperties DEF Reading, MeasureState
<1>1. <<<<>>, <<>>>> \in P
  <2>1. <<>> \in Seq(Bytes) /\ Len(<<>>) = 0
    BY EmptySeq
  <2>2. x.p + 0 = x.p /\ x.n + 0 = x.n
    BY <1>0
  <2>3. Walked(x, <<>>, <<>>) = x
    BY <1>0, <2>1, <2>2 DEF Walked
  <2>4. Walks(<<>>, <<>>)
    BY <2>3
  <2> HIDE DEF Walks
  <2> QED BY <2>1, <2>4
<1>2. ASSUME NEW v \in Seq(Bytes), NEW u \in Seq(Bytes), NEW l \in Labels, Walks(v, u)
      PROVE  Walks(v \o <<Len(l)>> \o l, u \o Escaped(l) \o <<Dot>>)
  <2> DEFINE v2 == v \o <<Len(l)>> \o l
             u2 == u \o Escaped(l) \o <<Dot>>
             s == Walked(x, v, u)
             m == EscapedLength(l)
             at == x.p + Len(v)
  <2>1. SUFFICES ASSUME Stands(abuf, x.p, v2)
                 PROVE  Walked(x, v2, u2) \in Reading(abuf) /\ Final(abuf, Walked(x, v2, u2)) = Final(abuf, x)
    OBVIOUS
  <2>2. /\ Stands(abuf, x.p, v) /\ at \in Nat
        /\ At(abuf, at) # 0 /\ ~IsIndirect(At(abuf, at))
        /\ After(abuf, at) = x.p + Len(v2) /\ After(abuf, at) < Len(abuf)
        /\ LabelAt(abuf, at) = l /\ Len(u2) = Len(u) + m + 1 /\ m \in Nat /\ Len(u) \in Nat
    BY <1>0, <2>1, StandsBehind
  <2>3. s \in Reading(abuf) /\ Final(abuf, s) = Final(abuf, x)
    BY <1>2, <2>2
  <2>4. s = [p |-> at, n |-> x.n + Len(u), indir |-> x.indir, ok |-> x.ok]
    BY DEF Walked
  <2>5. s.p = at /\ s.n = x.n + Len(u) /\ s.ok
    BY <2>4
  <2> HIDE DEF s, v2, u2, m, at
  <2>6. Measure(abuf, s) = [s EXCEPT !.p = After(abuf, at), !.n = @ + m + 1]
    BY <1>0, <2>2, <2>5 DEF Measure, m
  <2>7. Measure(abuf, s) = [p |-> x.p + Len(v2), n |-> (x.n + Len(u)) + m + 1, indir |-> x.indir, ok |-> x.ok]
    BY <2>2, <2>4, <2>6
  <2>8. (x.n + Len(u)) + m + 1 = x.n + Len(u2)
    BY <1>0, <2>2, SMTT(30)
  <2>9. Measure(abuf, s) = Walked(x, v2, u2)
    BY <2>7, <2>8 DEF Walked
  <2>10. Measure(abuf, s) \in Reading(abuf) /\ Final(abuf, Measure(abuf, s)) = Final(abuf, s)
    BY <2>3, MeasureIs, FinalIs
  <2> QED BY <2>3, <2>9, <2>10
<1>3. AddsLabels(P)
  <2>1. ASSUME NEW v \in Seq(Bytes), NEW u \in Seq(Bytes), NEW l \in Labels, <<v, u>> \in P
        PROVE  <<v \o <<Len(l)>> \o l, u \o Escaped(l) \o <<Dot>>>> \in P
    <3>1. Walks(v, u)
      BY <2>1
    <3> HIDE DEF Walks
    <3>2. Walks(v \o <<Len(l)>> \o l, u \o Escaped(l) \o <<Dot>>)
      BY <1>2, <3>1
    <3>3. Growth(v, u, l)
      BY NameGrows
    <3> QED BY <3>2, <3>3 DEF Growth
  <2> HIDE DEF P
  <2> QED BY <1>1, <2>1 DEF AddsLabels
<1>4. <<w, t>> \in P
  <2> HIDE DEF P
  <2> QED BY <1>3 DEF Spelled
<1>5. Walks(w, t)
  <2> HIDE DEF Walks
  <2> QED BY <1>4
<1> QED BY <1>5

Regrouped(q, u, e, d) == q \o u \o e \o d = q \o (u \o e \o d)

LEMMA Associates ==
  ASSUME NEW q \in Seq(Nat), NEW u \in Seq(Nat), NEW e \in Seq(Nat), NEW d \in Seq(Nat)
  PROVE  Regrouped(q, u, e, d)
<1>1. u \o e \in Seq(Nat) /\ q \o u \in Seq(Nat)
  BY ConcatProperties
<1>2. (q \o u) \o e = q \o (u \o e)
  BY ConcatAssociative, SMTT(30)
<1> DEFINE ue == u \o e
<1>3. (q \o ue) \o d = q \o (ue \o d)
  <2>1. ue \in Seq(Nat)
    BY <1>1
  <2> HIDE DEF ue
  <2> QED BY <2>1, ConcatAssociative, SMTT(30)
<1> QED BY <1>2, <1>3 DEF Regrouped

LEMMA TextIsWalked ==
  ASSUME NEW abuf \in Seq(Bytes), NEW encoded \in Nat, NEW x, NEW y, <<x, y>> \in Together(abuf, encoded),
         NEW w \in Seq(Bytes), NEW t \in Seq(Bytes), Spelled(w, t), Stands(abuf, x.p, w)
  PROVE  /\ <<Walked(x, w, t), WalkedText(y, w, t)>> \in Together(abuf, encoded)
         /\ ExpandedFrom(abuf, encoded, WalkedText(y, w, t)) = ExpandedFrom(abuf, encoded, y)
<1> DEFINE R == Together(abuf, encoded)
           Ending(z) == ExpandedFrom(abuf, encoded, z)
           Walks(v, u) == Stands(abuf, x.p, v) =>
                            /\ <<Walked(x, v, u), WalkedText(y, v, u)>> \in R
                            /\ Ending(WalkedText(y, v, u)) = Ending(y)
           P == {pair \in Seq(Bytes) \X Seq(Bytes) : Walks(pair[1], pair[2])}
<1>0. /\ x = [p |-> x.p, n |-> x.n, indir |-> x.indir, ok |-> x.ok]
      /\ x.p \in Nat /\ x.n \in Nat /\ x.indir \in Nat /\ x.ok \in BOOLEAN /\ Len(abuf) \in Nat
      /\ y = [p |-> y.p, q |-> y.q, enclen |-> y.enclen] /\ y.q \in Seq(Nat) /\ y.p = x.p
      /\ x \in Reading(abuf) /\ x.ok
  <2>1. x \in MeasureState /\ y \in ExpandState /\ x \in Reading(abuf) /\ Final(abuf, x).ok /\ y.p = x.p
    BY DEF Together
  <2>2. x.ok
    BY <2>1, OkBefore
  <2> QED BY <2>1, <2>2, LenProperties DEF MeasureState, ExpandState
<1>1. <<<<>>, <<>>>> \in P
  <2>1. <<>> \in Seq(Bytes) /\ Len(<<>>) = 0 /\ y.q \o <<>> = y.q
    BY <1>0, EmptySeq, ConcatEmptySeq
  <2>2. x.p + 0 = x.p /\ x.n + 0 = x.n
    BY <1>0
  <2>3. Walked(x, <<>>, <<>>) = x /\ WalkedText(y, <<>>, <<>>) = y
    BY <1>0, <2>1, <2>2 DEF Walked, WalkedText
  <2> HIDE DEF R, Ending
  <2>4. Walks(<<>>, <<>>)
    BY <2>3 DEF R
  <2> HIDE DEF Walks
  <2> QED BY <2>1, <2>4
<1>2. ASSUME NEW v \in Seq(Bytes), NEW u \in Seq(Bytes), NEW l \in Labels, Walks(v, u)
      PROVE  Walks(v \o <<Len(l)>> \o l, u \o Escaped(l) \o <<Dot>>)
  <2> DEFINE v2 == v \o <<Len(l)>> \o l
             e == Escaped(l)
             u2 == u \o e \o <<Dot>>
             s == Walked(x, v, u)
             z == WalkedText(y, v, u)
             m == EscapedLength(l)
             at == x.p + Len(v)
  <2>1. SUFFICES ASSUME Stands(abuf, x.p, v2)
                 PROVE  <<Walked(x, v2, u2), WalkedText(y, v2, u2)>> \in R /\ Ending(WalkedText(y, v2, u2)) = Ending(y)
    OBVIOUS
  <2>2. /\ Stands(abuf, x.p, v) /\ at \in Nat
        /\ At(abuf, at) # 0 /\ ~IsIndirect(At(abuf, at))
        /\ After(abuf, at) = x.p + Len(v2) /\ After(abuf, at) < Len(abuf)
        /\ LabelAt(abuf, at) = l /\ Len(u2) = Len(u) + m + 1 /\ m \in Nat /\ Len(u) \in Nat
    BY <1>0, <2>1, StandsBehind
  <2>3. <<s, z>> \in R /\ Ending(z) = Ending(y)
    BY <1>2, <2>2
  <2>4. /\ s = [p |-> at, n |-> x.n + Len(u), indir |-> x.indir, ok |-> x.ok]
        /\ z = [p |-> at, q |-> y.q \o u, enclen |-> y.enclen]
    BY <1>0 DEF Walked, WalkedText
  <2>5. s.p = at /\ s.n = x.n + Len(u) /\ s.ok /\ z.p = at /\ z.q = y.q \o u
    <3> HIDE DEF s, z, at
    <3> QED BY <1>0, <2>4
  <2>0. Growth(v, u, l)
    BY NameGrows
  <2>6. e \in Seq(Bytes) /\ u \o e \in Seq(Bytes) /\ <<Dot>> \in Seq(Bytes)
    BY <2>0 DEF Growth
  <2> HIDE DEF s, v2, m, at, z, e
  <2>7. Measure(abuf, s) = Walked(x, v2, u2)
    <3> HIDE DEF u2
    <3>1. Measure(abuf, s) = [s EXCEPT !.p = After(abuf, at), !.n = @ + m + 1]
      BY <1>0, <2>2, <2>5, SMTT(30) DEF Measure, m
    <3>2. Measure(abuf, s) = [p |-> x.p + Len(v2), n |-> (x.n + Len(u)) + m + 1, indir |-> x.indir, ok |-> x.ok]
      BY <2>2, <2>4, <3>1
    <3>3. (x.n + Len(u)) + m + 1 = x.n + Len(u2)
      BY <1>0, <2>2, SMTT(30)
    <3> QED BY <3>2, <3>3 DEF Walked
  <2>8. Expand(abuf, encoded, z) = WalkedText(y, v2, u2)
    <3>1. Expand(abuf, encoded, z) = [z EXCEPT !.p = After(abuf, at), !.q = @ \o e \o <<Dot>>]
      BY <2>2, <2>5 DEF Expand, e
    <3>2. Expand(abuf, encoded, z) = [p |-> x.p + Len(v2), q |-> ((y.q \o u) \o e) \o <<Dot>>, enclen |-> y.enclen]
      BY <2>2, <2>4, <3>1
    <3>3. ((y.q \o u) \o e) \o <<Dot>> = y.q \o ((u \o e) \o <<Dot>>)
      <4>1. Bytes \subseteq Nat
        BY DEF Bytes
      <4>2. /\ y.q \in Seq(Nat) /\ u \in Seq(Nat) /\ e \in Seq(Nat)
            /\ <<Dot>> \in Seq(Nat) /\ u \o e \in Seq(Nat)
        BY <1>0, <2>6, <4>1, SeqMonotonic
      <4> DEFINE q == y.q
                 d == <<Dot>>
      <4>3. q \in Seq(Nat) /\ d \in Seq(Nat)
        BY <4>2
      <4> HIDE DEF q, d
      <4>4. Regrouped(q, u, e, d)
        BY <4>2, <4>3, Associates
      <4> QED BY <4>4 DEF q, d, Regrouped
    <3> QED BY <1>0, <3>2, <3>3 DEF WalkedText
  <2> HIDE DEF u2
  <2>9. s \in MeasureState /\ z \in ExpandState
    BY <2>3 DEF Together
  <2>10. /\ <<Measure(abuf, s), Expand(abuf, encoded, z)>> \in R
         /\ Ending(Expand(abuf, encoded, z)) = Ending(z)
    BY <2>3, <2>9, ExpandFollows, PassesFrom
  <2> QED BY <2>3, <2>7, <2>8, <2>10
<1>3. AddsLabels(P)
  <2>1. ASSUME NEW v \in Seq(Bytes), NEW u \in Seq(Bytes), NEW l \in Labels, <<v, u>> \in P
        PROVE  <<v \o <<Len(l)>> \o l, u \o Escaped(l) \o <<Dot>>>> \in P
    <3>1. Walks(v, u)
      BY <2>1
    <3> HIDE DEF Walks
    <3>2. Walks(v \o <<Len(l)>> \o l, u \o Escaped(l) \o <<Dot>>)
      BY <1>2, <3>1
    <3>3. Growth(v, u, l)
      BY NameGrows
    <3> QED BY <3>2, <3>3 DEF Growth
  <2> HIDE DEF P
  <2> QED BY <1>1, <2>1 DEF AddsLabels
<1>4. <<w, t>> \in P
  <2> HIDE DEF P
  <2> QED BY <1>3 DEF Spelled
<1>5. Walks(w, t)
  <2> HIDE DEF Walks
  <2> QED BY <1>4
<1> QED BY <1>5

Begins(abuf, encoded, x, y) ==
  /\ x \in Reading(abuf) /\ y \in ExpandState /\ x.ok /\ y.p = x.p /\ Len(y.q) = x.n
  /\ IF y.enclen = 0 THEN encoded <= y.p ELSE encoded + y.enclen <= Len(abuf)

Ends(abuf, p, w) == Stands(abuf, p, w) /\ At(abuf, p + Len(w)) = 0

ComesTo(abuf, encoded, x, y, w, t) ==
  /\ Final(abuf, x) = Walked(x, w, t) /\ <<x, y>> \in Together(abuf, encoded)
  /\ ExpandedFrom(abuf, encoded, y) = WalkedText(y, w, t)

(* A name that stands in a message, with a zero byte behind it, is what    *)
(* both passes come to.                                                    *)
LEMMA NameIsWalked ==
  ASSUME NEW abuf \in Seq(Bytes), NEW encoded \in Nat,
         NEW x, NEW y, Begins(abuf, encoded, x, y),
         NEW w \in Seq(Bytes), NEW t \in Seq(Bytes), Spelled(w, t), Ends(abuf, x.p, w)
  PROVE  ComesTo(abuf, encoded, x, y, w, t)
<1> DEFINE s == Walked(x, w, t)
           z == WalkedText(y, w, t)
<1>0. /\ x \in Reading(abuf) /\ y \in ExpandState /\ x.ok /\ y.p = x.p /\ Len(y.q) = x.n
      /\ Stands(abuf, x.p, w) /\ At(abuf, x.p + Len(w)) = 0
  BY DEF Begins, Ends
<1>1. s \in Reading(abuf) /\ Final(abuf, s) = Final(abuf, x)
  BY <1>0, WalksOn
<1>2. s.p = x.p + Len(w) /\ s.ok /\ z.p = x.p + Len(w)
  BY <1>0 DEF Walked, WalkedText
<1> HIDE DEF s, z
<1>3. Final(abuf, s) = s
  BY <1>0, <1>1, <1>2, FinalIs
<1>4. <<x, y>> \in Together(abuf, encoded)
  <2>1. Final(abuf, x).ok /\ x \in MeasureState
    BY <1>0, <1>1, <1>2, <1>3 DEF Reading
  <2> QED BY <1>0, <2>1 DEF Together, Begins
<1>5. <<s, z>> \in Together(abuf, encoded) /\ ExpandedFrom(abuf, encoded, z) = ExpandedFrom(abuf, encoded, y)
  BY <1>0, <1>4, TextIsWalked DEF s, z
<1>6. s \in MeasureState /\ z \in ExpandState
  BY <1>5 DEF Together
<1>7. ExpandedFrom(abuf, encoded, z) = z
  BY <1>0, <1>2, <1>5, <1>6, PassesFrom
<1>8. Final(abuf, x) = Walked(x, w, t) /\ ExpandedFrom(abuf, encoded, y) = WalkedText(y, w, t)
  BY <1>1, <1>3, <1>5, <1>7 DEF s, z
<1> QED BY <1>4, <1>8 DEF ComesTo

LEMMA PassesBegin ==
  ASSUME NEW abuf \in Seq(Bytes), NEW p \in Nat, p < Len(abuf)
  PROVE  LET x == [p |-> p, n |-> 0, indir |-> 0, ok |-> TRUE]
             y == [p |-> p, q |-> <<>>, enclen |-> 0]
         IN /\ x \in Reading(abuf) /\ y \in ExpandState /\ Len(y.q) = x.n
            /\ Measured(abuf, p) = Final(abuf, x) /\ Expanded(abuf, p) = ExpandedFrom(abuf, p, y)
<1> DEFINE x == [p |-> p, n |-> 0, indir |-> 0, ok |-> TRUE]
           y == [p |-> p, q |-> <<>>, enclen |-> 0]
<1>1. Len(abuf) \in Nat /\ <<>> \in Seq(Nat) /\ Len(<<>>) = 0
  BY LenProperties, EmptySeq
<1>2. x \in MeasureState /\ x.p = p /\ x.indir = 0 /\ y \in ExpandState /\ Len(y.q) = x.n
  BY <1>1 DEF MeasureState, ExpandState
<1>3. Measured(abuf, p) = Final(abuf, x) /\ Expanded(abuf, p) = ExpandedFrom(abuf, p, y)
  BY DEF Measured, Final, MeasureTurn, MeasureState, Expanded, ExpandedFrom, ExpandTurn, ExpandState
<1> HIDE DEF x, y
<1>4. x \in Reading(abuf)
  BY <1>1, <1>2 DEF Reading
<1> QED BY <1>2, <1>3, <1>4 DEF x, y

(* The text of a name, without the dot at its end.                         *)
TextOf(t) == SubSeq(t, 1, Len(t) - 1)
Read(t, enclen) == [status |-> "SUCCESS", s |-> TextOf(t), enclen |-> enclen]

LEMMA NameIsRead ==
  ASSUME NEW abuf \in Seq(Bytes), NEW p \in Nat,
         NEW w \in Seq(Bytes), NEW t \in Seq(Bytes), Spelled(w, t),
         Ends(abuf, p, w)
  PROVE  ExpandName(abuf, p) = Read(t, Len(w) + 1)
<1> DEFINE x == [p |-> p, n |-> 0, indir |-> 0, ok |-> TRUE]
           y == [p |-> p, q |-> <<>>, enclen |-> 0]
           end == Measured(abuf, p)
           whole == Expanded(abuf, p)
           nlen == NameLength(abuf, p)
<1>1. Len(abuf) \in Nat /\ Len(w) \in Nat /\ Len(t) \in Nat /\ p < Len(abuf)
  BY LenProperties DEF Stands, Ends
<1>2. /\ x \in Reading(abuf) /\ y \in ExpandState /\ Len(y.q) = x.n
      /\ end = Final(abuf, x) /\ whole = ExpandedFrom(abuf, p, y)
  BY <1>1, PassesBegin
<1>3. x.p = p /\ x.ok /\ x.n = 0 /\ y.p = p /\ y.enclen = 0 /\ y.q = <<>>
  OBVIOUS
<1> HIDE DEF x, y, end, whole
<1>4. end = Walked(x, w, t) /\ whole = WalkedText(y, w, t)
  <2>1. Begins(abuf, p, x, y) /\ Ends(abuf, x.p, w)
    BY <1>2, <1>3 DEF Begins, Ends
  <2>2. Final(abuf, x) = Walked(x, w, t) /\ ExpandedFrom(abuf, p, y) = WalkedText(y, w, t)
    <3>1. ComesTo(abuf, p, x, y, w, t)
      BY <2>1, NameIsWalked
    <3> QED BY <3>1 DEF ComesTo
  <2> QED BY <1>2, <2>2
<1>5. /\ end.n = Len(t) /\ end.ok
      /\ whole.p = p + Len(w) /\ whole.q = t /\ whole.enclen = 0
  <2>1. <<>> \o t = t /\ 0 + Len(t) = Len(t)
    BY <1>1, ConcatEmptySeq
  <2> QED BY <1>3, <1>4, <2>1 DEF Walked, WalkedText
<1>6. NameFacts(w, t)
  BY SpelledSays
<1>7. nlen = IF Len(t) = 0 THEN 0 ELSE Len(t) - 1
  BY <1>1, <1>5 DEF NameLength, end
<1>8. CASE Len(t) = 0
  <2>1. Len(w) = 0 /\ At(abuf, p) = 0
    BY <1>6, <1>8 DEF NameFacts, Ends
  <2>2. ~IsIndirect(At(abuf, p))
    BY <2>1 DEF IsIndirect, IndirMask
  <2>3. TextOf(t) = <<>>
    BY <1>8, SubSeqEmpty DEF TextOf
  <2>4. nlen = 0
    BY <1>7, <1>8
  <2> HIDE DEF nlen
  <2>5. ExpandName(abuf, p) = [status |-> "SUCCESS", s |-> <<>>, enclen |-> 1]
    BY <2>2, <2>4 DEF ExpandName, nlen
  <2> QED BY <2>1, <2>3, <2>5 DEF Read
<1>9. CASE Len(t) # 0
  <2>1. nlen \in Nat /\ nlen > 0
    BY <1>1, <1>6, <1>7, <1>9 DEF NameFacts
  <2> HIDE DEF nlen
  <2>2. (p + Len(w)) + 1 - p = Len(w) + 1
    BY <1>1
  <2>3. ~ (nlen < 0) /\ nlen # 0
    BY <2>1
  <2>4. ExpandName(abuf, p) = [status |-> "SUCCESS", s |-> SubSeq(t, 1, Len(t) - 1), enclen |-> Len(w) + 1]
    BY <1>5, <2>2, <2>3 DEF ExpandName, nlen, whole
  <2> QED BY <2>4 DEF Read, TextOf
<1> QED BY <1>8, <1>9

(* The name at the front of a message, through a pointer to it.            *)
LEMMA PointerIsRead ==
  ASSUME NEW abuf \in Seq(Bytes), NEW p \in Nat, p + 1 < Len(abuf),
         At(abuf, p) = IndirMask, At(abuf, p + 1) = 0,
         NEW w \in Seq(Bytes), NEW t \in Seq(Bytes), Spelled(w, t),
         Ends(abuf, 0, w)
  PROVE  ExpandName(abuf, p) = Read(t, 2)
<1> DEFINE x == [p |-> p, n |-> 0, indir |-> 0, ok |-> TRUE]
           y == [p |-> p, q |-> <<>>, enclen |-> 0]
           x2 == [p |-> 0, n |-> 0, indir |-> 1, ok |-> TRUE]
           y2 == [p |-> 0, q |-> <<>>, enclen |-> 2]
           end == Measured(abuf, p)
           whole == Expanded(abuf, p)
           nlen == NameLength(abuf, p)
<1>1. Len(abuf) \in Nat /\ Len(w) \in Nat /\ Len(t) \in Nat /\ p < Len(abuf) /\ Len(abuf) > 1
  BY LenProperties
<1>2. /\ x \in Reading(abuf) /\ y \in ExpandState /\ Len(y.q) = x.n
      /\ end = Final(abuf, x) /\ whole = ExpandedFrom(abuf, p, y)
  BY <1>1, PassesBegin
<1>3. At(abuf, p) # 0 /\ IsIndirect(At(abuf, p)) /\ Offset(abuf, p) = 0
  BY DEF IsIndirect, Offset, IndirMask
<1>4. Measure(abuf, x) = x2
  <2>1. ~ (p + 1 >= Len(abuf)) /\ ~ (0 >= Len(abuf)) /\ ~ (0 + 1 > Len(abuf))
    BY <1>1
  <2>2. x.p = p /\ x.n = 0 /\ x.indir = 0 /\ x.ok /\ x \in MeasureState
    BY DEF MeasureState
  <2>3. x2 = [p |-> 0, n |-> x.n, indir |-> 1, ok |-> x.ok]
    OBVIOUS
  <2> HIDE DEF x, x2
  <2>4. x.indir + 1 = 1 /\ ~ (x.indir + 1 > Len(abuf)) /\ ~ (x.p + 1 >= Len(abuf))
    BY <1>1, <2>1, <2>2
  <2>5. Measure(abuf, x) = [x EXCEPT !.p = 0, !.indir = x.indir + 1]
    BY <1>3, <2>1, <2>2, <2>4 DEF Measure
  <2>6. Measure(abuf, x) = [x EXCEPT !.p = 0, !.indir = 1]
    BY <2>4, <2>5
  <2> DEFINE s2 == Measure(abuf, x)
  <2>7. s2 = [x EXCEPT !.p = 0, !.indir = 1]
    BY <2>6
  <2> HIDE DEF s2
  <2>8. s2 = [p |-> 0, n |-> x.n, indir |-> 1, ok |-> x.ok]
    BY <2>2, <2>7 DEF MeasureState
  <2> QED BY <2>3, <2>8 DEF s2
<1>5. Expand(abuf, p, y) = y2
  <2>1. p + 2 - p = 2
    OBVIOUS
  <2>2. Expand(abuf, p, y) = [y EXCEPT !.p = 0, !.enclen = p + 2 - p]
    BY <1>3 DEF Expand
  <2> QED BY <2>1, <2>2
<1>6. x2 \in Reading(abuf) /\ y2 \in ExpandState /\ Final(abuf, x2) = end
  <2>1. x2 \in Reading(abuf) /\ Final(abuf, x2) = end
    BY <1>2, <1>4, MeasureIs, FinalIs
  <2>2. <<>> \in Seq(Nat)
    BY EmptySeq
  <2>3. y2 \in ExpandState
    BY <2>2 DEF ExpandState
  <2> QED BY <2>1, <2>3
<1>7. /\ x2.p = 0 /\ x2.ok /\ x2.n = 0 /\ y2.p = 0 /\ y2.enclen = 2 /\ y2.q = <<>> /\ Len(<<>>) = 0
      /\ y.p = x.p /\ y.enclen = 0 /\ y.p = p
  BY EmptySeq
<1> HIDE DEF x, y, x2, y2, end, whole
<1>8. Final(abuf, x2) = Walked(x2, w, t) /\ ExpandedFrom(abuf, p, y2) = WalkedText(y2, w, t)
  <2>1. x2.p + Len(w) = Len(w) /\ p + 2 <= Len(abuf)
    BY <1>1, <1>7
  <2>2. Begins(abuf, p, x2, y2) /\ Ends(abuf, x2.p, w)
    BY <1>6, <1>7, <2>1 DEF Begins, Ends
  <2>3. ComesTo(abuf, p, x2, y2, w, t)
    BY <2>2, NameIsWalked
  <2> QED BY <2>3 DEF ComesTo
<1>9. whole = ExpandedFrom(abuf, p, y2)
  <2>1. end.ok /\ x \in MeasureState
    BY <1>2, <1>6, <1>7, <1>8 DEF Walked, Reading
  <2>2. <<x, y>> \in Together(abuf, p)
    <3>1. IF y.enclen = 0 THEN p <= y.p ELSE p + y.enclen <= Len(abuf)
      BY <1>7
    <3> QED BY <1>2, <1>7, <2>1, <3>1 DEF Together
  <2> QED BY <1>2, <1>5, <2>1, <2>2, PassesFrom
<1>10. end.n = Len(t) /\ end.ok /\ whole.q = t /\ whole.enclen = 2
  <2>1. <<>> \o t = t /\ 0 + Len(t) = Len(t)
    BY <1>1, ConcatEmptySeq
  <2> QED BY <1>6, <1>7, <1>8, <1>9, <2>1 DEF Walked, WalkedText
<1>11. NameFacts(w, t)
  BY SpelledSays
<1>12. nlen = IF Len(t) = 0 THEN 0 ELSE Len(t) - 1
  BY <1>1, <1>10 DEF NameLength, end
<1>13. CASE Len(t) = 0
  <2>1. TextOf(t) = <<>>
    BY <1>13, SubSeqEmpty DEF TextOf
  <2>2. nlen = 0
    BY <1>12, <1>13
  <2> HIDE DEF nlen
  <2>3. ExpandName(abuf, p) = [status |-> "SUCCESS", s |-> <<>>, enclen |-> 2]
    BY <1>3, <2>2 DEF ExpandName, nlen
  <2> QED BY <2>1, <2>3 DEF Read
<1>14. CASE Len(t) # 0
  <2>1. nlen \in Nat /\ nlen > 0
    BY <1>1, <1>11, <1>12, <1>14 DEF NameFacts
  <2> HIDE DEF nlen
  <2>2. ~ (nlen < 0) /\ nlen # 0
    BY <2>1
  <2>3. ExpandName(abuf, p) = [status |-> "SUCCESS", s |-> SubSeq(t, 1, Len(t) - 1), enclen |-> 2]
    BY <1>10, <2>2 DEF ExpandName, nlen, whole
  <2> QED BY <2>3 DEF Read, TextOf
<1> QED BY <1>13, <1>14

(* A question, of a name that is read, and what is kept of it.             *)
Asks(buf, p, t, type, next) ==
  Question(buf, p) = [status |-> "SUCCESS", s |-> TextOf(t), next |-> next,
                      type |-> type, dnsclass |-> 1]

Entry(t, type) == [s |-> TextOf(t), type |-> type, dnsclass |-> 1]

LEMMA QuestionIs ==
  ASSUME NEW buf \in Seq(Bytes), NEW p \in Nat, NEW t, NEW n \in Nat, NEW type \in Bytes,
         ExpandName(buf, p) = Read(t, n), HasAt(buf, p + n, <<type, 1>>)
  PROVE  Asks(buf, p, t, type, p + n + 2)
<1>1. Len(<<type, 1>>) = 2 /\ <<type, 1>>[1] = type /\ <<type, 1>>[2] = 1 /\ Len(buf) \in Nat
  BY LenProperties
<1>2. /\ p + n + 2 <= Len(buf)
      /\ At(buf, p + n) = type /\ At(buf, p + n + 1) = 1
  <2>1. p + n + 2 <= Len(buf) /\ \A i \in 1 .. 2 : buf[p + n + i] = <<type, 1>>[i]
    BY <1>1 DEF HasAt
  <2>2. p + n + 1 + 1 = p + n + 2 /\ 1 \in 1 .. 2 /\ 2 \in 1 .. 2
    OBVIOUS
  <2>3. buf[p + n + 1] = type /\ buf[p + n + 2] = 1
    BY <1>1, <2>1, <2>2
  <2> QED BY <2>1, <2>2, <2>3 DEF At
<1> DEFINE name == ExpandName(buf, p)
<1>3. name.status = "SUCCESS" /\ name.s = TextOf(t) /\ name.enclen = n
  BY DEF Read
<1>4. ~ (name.status # "SUCCESS" \/ p + name.enclen + 2 > Len(buf))
  <2> HIDE DEF name
  <2> QED BY <1>1, <1>2, <1>3
<1>5. Question(buf, p) =
        [status |-> "SUCCESS", s |-> name.s, next |-> p + name.enclen + 2,
         type |-> At(buf, p + name.enclen), dnsclass |-> At(buf, p + name.enclen + 1)]
  BY <1>4 DEF Question, name
<1> HIDE DEF name
<1> QED BY <1>2, <1>3, <1>5 DEF Asks

LEMMA QuestionsAre ==
  ASSUME NEW buf, NEW t, NEW type, NEW next, Asks(buf, 0, t, type, next)
  PROVE  /\ Questions(buf, 0, 1) = <<Entry(t, type)>>
         /\ \A other, end : Asks(buf, next, t, other, end) =>
              Questions(buf, 0, 2) = <<Entry(t, type), Entry(t, other)>>
<1> DEFINE Put(list, question) ==
             IF question.status # "SUCCESS"
             THEN [list |-> Append(list, EBADNAME), next |-> Len(buf), over |-> TRUE]
             ELSE [list |-> Append(list, [s |-> question.s, type |-> question.type,
                                          dnsclass |-> question.dnsclass]),
                   next |-> question.next, over |-> FALSE]
           begin == [list |-> <<>>, next |-> 0, over |-> FALSE]
           begun == [list |-> <<Entry(t, type)>>, next |-> next, over |-> FALSE]
           Then(r) == IF r.over THEN r ELSE Put(r.list, Question(buf, r.next))
           IsRun(f, n) == f = [k \in 0 .. n |-> IF k = 0 THEN begin
                                                ELSE IF f[k - 1].over THEN f[k - 1]
                                                ELSE Put(f[k - 1].list, Question(buf, f[k - 1].next))]
           Run(n) == CHOOSE f : IsRun(f, n)
<1>1. Questions(buf, 0, 1) = Run(1)[1].list /\ Questions(buf, 0, 2) = Run(2)[2].list
  BY DEF Questions
<1>2. Then(begin) = begun
  <2> DEFINE question == Question(buf, 0)
  <2>1. /\ question.status = "SUCCESS" /\ question.s = TextOf(t) /\ question.next = next
        /\ question.type = type /\ question.dnsclass = 1
    BY DEF Asks
  <2>2. begin.next = 0 /\ ~begin.over /\ begin.list = <<>>
    OBVIOUS
  <2>3. Then(begin) = Put(<<>>, question)
    BY <2>2
  <2> HIDE DEF question
  <2>4. Put(<<>>, question) = begun
    BY <2>1 DEF Entry
  <2> QED BY <2>3, <2>4
<1> HIDE DEF begun, begin, Put
<1>3. ASSUME NEW n \in {1, 2} PROVE \E f : IsRun(f, n)
  <2> DEFINE g == [k \in 0 .. n |-> IF k = 0 THEN begin ELSE IF k = 1 THEN Then(begin) ELSE Then(Then(begin))]
  <2>1. /\ 0 \in 0 .. n /\ 1 \in 0 .. n
        /\ \A k \in 0 .. n : (k = 0) \/ (k = 1 /\ k - 1 = 0) \/ (k = 2 /\ k - 1 = 1)
    OBVIOUS
  <2>2. /\ g[0] = begin /\ g[1] = Then(begin) /\ \A k \in 0 .. n : k = 2 => g[k] = Then(Then(begin))
        /\ g = [k \in 0 .. n |-> g[k]]
    <3> HIDE DEF Then
    <3> QED BY <2>1
  <2> HIDE DEF g
  <2>3. \A k \in 0 .. n : g[k] = IF k = 0 THEN begin ELSE Then(g[k - 1])
    <3> HIDE DEF Then
    <3> QED BY <2>1, <2>2
  <2>4. g = [k \in 0 .. n |-> IF k = 0 THEN begin ELSE Then(g[k - 1])]
    <3> HIDE DEF Then
    <3> QED BY <2>2, <2>3
  <2>5. IsRun(g, n)
    BY <2>4
  <2> QED BY <2>5
<1>4. ASSUME NEW n \in {1, 2}, NEW f, IsRun(f, n)
      PROVE  f[1] = Then(begin) /\ (n = 2 => f[2] = Then(Then(begin)))
  <2>1. \A k \in 0 .. n : f[k] = IF k = 0 THEN begin ELSE Then(f[k - 1])
    BY <1>4
  <2>2. 0 \in 0 .. n /\ 1 \in 0 .. n /\ 1 - 1 = 0 /\ 1 # 0 /\ (n = 2 => 2 \in 0 .. n) /\ 2 - 1 = 1 /\ 2 # 0
    OBVIOUS
  <2> HIDE DEF Then, IsRun
  <2>3. f[0] = begin /\ f[1] = Then(f[0])
    BY <2>1, <2>2
  <2>4. n = 2 => f[2] = Then(f[1])
    BY <2>1, <2>2
  <2> QED BY <2>3, <2>4
<1>5. Run(1)[1] = begun /\ Run(2)[2] = Then(begun)
  <2>1. 1 \in {1, 2} /\ 2 \in {1, 2}
    OBVIOUS
  <2> HIDE DEF IsRun, Then
  <2>2. IsRun(Run(1), 1) /\ IsRun(Run(2), 2)
    BY <1>3, <2>1
  <2> HIDE DEF Run
  <2> QED BY <1>2, <1>4, <2>1, <2>2
<1>6. ASSUME NEW other, NEW end, Asks(buf, next, t, other, end)
      PROVE  Then(begun).list = <<Entry(t, type), Entry(t, other)>>
  <2> DEFINE question == Question(buf, next)
             kept == <<Entry(t, type)>>
  <2>1. /\ question.status = "SUCCESS" /\ question.s = TextOf(t)
        /\ question.type = other /\ question.dnsclass = 1
    BY <1>6 DEF Asks
  <2>2. begun.next = next /\ ~begun.over /\ begun.list = kept
    BY DEF begun
  <2>3. Then(begun) = Put(kept, question)
    <3> HIDE DEF question, kept
    <3> QED BY <2>2 DEF question
  <2>4. Put(kept, question).list = Append(kept, Entry(t, other))
    <3> HIDE DEF question, kept
    <3> QED BY <2>1 DEF Entry, Put
  <2>5. Append(kept, Entry(t, other)) = <<Entry(t, type), Entry(t, other)>>
    <3>1. ASSUME NEW a, NEW b PROVE Append(<<a>>, b) = <<a, b>>
      <4>1. <<a>> \in Seq({a, b}) /\ Len(<<a>>) = 1 /\ <<a, b>> \in Seq({a, b})
        OBVIOUS
      <4> DEFINE one == <<a>>
                 c == Append(one, b)
                 d == <<a, b>>
      <4>2. one[1] = a /\ d[1] = a /\ d[2] = b /\ Len(d) = 2
        OBVIOUS
      <4> HIDE DEF one
      <4>3. c \in Seq({a, b}) /\ Len(c) = 2 /\ c[1] = one[1] /\ c[2] = b
        BY <4>1, AppendProperties DEF one
      <4> HIDE DEF c, d
      <4>4. \A i \in 1 .. 2 : c[i] = d[i]
        BY <4>2, <4>3
      <4>5. d \in Seq({a, b})
        BY <4>1 DEF d
      <4>6. c = d
        BY <4>2, <4>3, <4>4, <4>5, SeqEqual
      <4> QED BY <4>6 DEF c, d, one
    <3> QED BY <3>1
  <2> QED BY <2>3, <2>4, <2>5
<1>7. begun.list = <<Entry(t, type)>>
  BY DEF begun
<1> HIDE DEF Then
<1> QED BY <1>1, <1>5, <1>6, <1>7

LEMMA NameAsks ==
  ASSUME NEW buf \in Seq(Bytes), NEW p \in Nat, NEW w \in Seq(Bytes), NEW t \in Seq(Bytes), Spelled(w, t),
         NEW type \in Bytes, HasAt(buf, p, Append(w, 0) \o <<type, 1>>)
  PROVE  Asks(buf, p, t, type, p + Len(w) + 3) /\ HasAt(buf, p, Append(w, 0))
<1> DEFINE q == Append(w, 0)
           m == Len(w)
<1>1. /\ m \in Nat /\ 0 \in Bytes /\ 1 \in Bytes /\ q \in Seq(Bytes) /\ Len(q) = m + 1 /\ q = w \o <<0>>
      /\ <<0>> \in Seq(Bytes) /\ <<type, 1>> \in Seq(Bytes) /\ Len(<<0>>) = 1 /\ <<0>>[1] = 0
  <2>1. m \in Nat /\ 0 \in Bytes /\ 1 \in Bytes
    BY LenProperties DEF Bytes
  <2>2. q \in Seq(Bytes) /\ Len(q) = m + 1 /\ q = w \o <<0>>
    BY <2>1, AppendProperties, AppendIsConcat
  <2>3. <<0>> \in Seq(Bytes) /\ <<type, 1>> \in Seq(Bytes) /\ Len(<<0>>) = 1 /\ <<0>>[1] = 0
    BY <2>1
  <2> QED BY <2>1, <2>2, <2>3
<1>2. HasAt(buf, p, q) /\ HasAt(buf, p + (m + 1), <<type, 1>>)
  <2> HIDE DEF q
  <2>1. HasAt(buf, p, q \o <<type, 1>>)
    BY DEF q
  <2> QED BY <1>1, <2>1, HasBoth
<1> HIDE DEF q
<1>3. HasAt(buf, p, w) /\ HasAt(buf, p + m, <<0>>)
  <2>1. HasAt(buf, p, w \o <<0>>)
    BY <1>1, <1>2
  <2> QED BY <1>1, <2>1, HasBoth
<1>4. Ends(buf, p, w)
  <2>1. (p + m) + 1 <= Len(buf) /\ buf[(p + m) + 1] = 0
    <3>1. 1 \in 1 .. 1
      OBVIOUS
    <3> QED BY <1>1, <1>3, <3>1 DEF HasAt
  <2>2. p + m < Len(buf) /\ At(buf, p + m) = 0
    BY <1>1, <2>1, LenProperties DEF At
  <2> QED BY <1>3, <2>2 DEF Ends, Stands
<1>5. ExpandName(buf, p) = Read(t, m + 1)
  BY <1>4, NameIsRead
<1>6. Asks(buf, p, t, type, p + (m + 1) + 2)
  <2>1. m + 1 \in Nat
    BY <1>1
  <2> QED BY <1>2, <1>5, <2>1, QuestionIs
<1>7. p + (m + 1) + 2 = p + m + 3
  BY <1>1
<1> QED BY <1>2, <1>6, <1>7 DEF q

LEMMA PointerAsks ==
  ASSUME NEW buf \in Seq(Bytes), NEW p \in Nat, NEW w \in Seq(Bytes), NEW t \in Seq(Bytes), Spelled(w, t),
         HasAt(buf, 0, Append(w, 0)), HasAt(buf, p, <<IndirMask, 0, 2, 1>>)
  PROVE  Asks(buf, p, t, 2, p + 4)
<1> DEFINE pointer == <<IndirMask, 0>>
           class == <<2, 1>>
           m == Len(w)
<1>1. /\ m \in Nat /\ pointer \in Seq(Bytes) /\ class \in Seq(Bytes) /\ Len(pointer) = 2
      /\ pointer[1] = IndirMask /\ pointer[2] = 0 /\ <<IndirMask, 0, 2, 1>> = pointer \o class
      /\ 2 \in Bytes /\ 0 \in Bytes /\ Len(buf) \in Nat
  BY LenProperties DEF Bytes, IndirMask
<1> HIDE DEF pointer
<1>2. HasAt(buf, p, pointer) /\ HasAt(buf, p + 2, class)
  <2> HIDE DEF class
  <2>1. HasAt(buf, p, pointer \o class)
    BY <1>1
  <2> QED BY <1>1, <2>1, HasBoth
<1>3. p + 1 < Len(buf) /\ At(buf, p) = IndirMask /\ At(buf, p + 1) = 0
  <2>1. p + 2 <= Len(buf) /\ \A i \in 1 .. 2 : buf[p + i] = pointer[i]
    BY <1>1, <1>2 DEF HasAt
  <2>2. 1 \in 1 .. 2 /\ 2 \in 1 .. 2 /\ p + 1 + 1 = p + 2
    OBVIOUS
  <2>3. buf[p + 1] = IndirMask /\ buf[p + 2] = 0
    BY <1>1, <2>1, <2>2
  <2> QED BY <1>1, <2>1, <2>2, <2>3 DEF At
<1>4. Ends(buf, 0, w)
  <2>1. Append(w, 0) = w \o <<0>> /\ <<0>> \in Seq(Bytes) /\ Len(<<0>>) = 1 /\ <<0>>[1] = 0
    BY <1>1, AppendIsConcat
  <2>2. HasAt(buf, 0, w) /\ HasAt(buf, 0 + m, <<0>>)
    <3>1. HasAt(buf, 0, w \o <<0>>) /\ 0 \in Nat
      BY <2>1
    <3> QED BY <2>1, <3>1, HasBoth
  <2>3. (0 + m) + 1 <= Len(buf) /\ buf[(0 + m) + 1] = 0
    <3>1. 1 \in 1 .. 1
      OBVIOUS
    <3> QED BY <2>1, <2>2, <3>1 DEF HasAt
  <2>4. 0 + m < Len(buf) /\ At(buf, 0 + m) = 0
    BY <1>1, <2>3 DEF At
  <2> QED BY <2>2, <2>4 DEF Ends, Stands
<1>5. ExpandName(buf, p) = Read(t, 2)
  BY <1>3, <1>4, PointerIsRead
<1>6. Asks(buf, p, t, 2, p + 2 + 2)
  BY <1>1, <1>2, <1>5, QuestionIs
<1>7. p + 2 + 2 = p + 4
  OBVIOUS
<1> QED BY <1>6, <1>7

(* The question for a name, and with another behind it that points to it.  *)
Query(w, type) == Append(w, 0) \o <<type, 1>>
Pointed(w, type) == Query(w, type) \o <<IndirMask, 0, 2, 1>>

LEMMA QueryIs ==
  ASSUME NEW w \in Seq(Bytes), NEW type \in Bytes
  PROVE  /\ Query(w, type) \in Seq(Bytes) /\ Len(Query(w, type)) = Len(w) + 3
         /\ \A buf \in Seq(Bytes) : HasAt(buf, 0, buf)
<1> DEFINE q == Append(w, 0)
           class == <<type, 1>>
<1>1. Len(w) \in Nat /\ 0 \in Bytes /\ 1 \in Bytes
  BY LenProperties DEF Bytes
<1>2. q \in Seq(Bytes) /\ Len(q) = Len(w) + 1 /\ class \in Seq(Bytes) /\ Len(class) = 2
  BY <1>1, AppendProperties
<1> HIDE DEF q, class
<1>3. q \o class \in Seq(Bytes) /\ Len(q \o class) = Len(q) + Len(class)
  BY <1>2, ConcatProperties
<1>4. (Len(w) + 1) + 2 = Len(w) + 3
  BY <1>1
<1>5. \A buf \in Seq(Bytes) : HasAt(buf, 0, buf)
  BY LenProperties DEF HasAt
<1> QED BY <1>2, <1>3, <1>4, <1>5 DEF Query, q, class

(* One question is read, whatever is behind it.                            *)
LEMMA OneIsAsked ==
  ASSUME NEW w \in Seq(Bytes), NEW t \in Seq(Bytes), Spelled(w, t), NEW type \in Bytes,
         NEW buf \in Seq(Bytes), HasAt(buf, 0, Query(w, type))
  PROVE  Questions(buf, 0, 1) = <<Entry(t, type)>>
<1>1. Asks(buf, 0, t, type, 0 + Len(w) + 3)
  BY NameAsks DEF Query
<1> QED BY <1>1, QuestionsAre

LEMMA TwoAreAsked ==
  ASSUME NEW w \in Seq(Bytes), NEW t \in Seq(Bytes), Spelled(w, t), NEW type \in Bytes
  PROVE  Questions(Pointed(w, type), 0, 2) = <<Entry(t, type), Entry(t, 2)>>
<1> DEFINE buf == Pointed(w, type)
           one == Query(w, type)
           behind == <<IndirMask, 0, 2, 1>>
<1>1. one \in Seq(Bytes) /\ Len(one) = Len(w) + 3 /\ behind \in Seq(Bytes) /\ Len(w) \in Nat
  <2>1. IndirMask \in Bytes /\ 0 \in Bytes /\ 1 \in Bytes /\ 2 \in Bytes
    BY DEF Bytes, IndirMask
  <2> QED BY <2>1, QueryIs, LenProperties
<1>2. buf = one \o behind
  BY DEF Pointed
<1>3. buf \in Seq(Bytes)
  <2> HIDE DEF one, behind, buf
  <2> QED BY <1>1, <1>2, ConcatProperties
<1>4. HasAt(buf, 0, one \o behind)
  BY <1>2, <1>3, QueryIs
<1> HIDE DEF buf, one
<1>5. HasAt(buf, 0, one) /\ HasAt(buf, 0 + Len(one), behind)
  <2> HIDE DEF behind
  <2> QED BY <1>1, <1>3, <1>4, HasBoth
<1>6. Asks(buf, 0, t, type, 0 + Len(w) + 3) /\ HasAt(buf, 0, Append(w, 0))
  <2>1. HasAt(buf, 0, Append(w, 0) \o <<type, 1>>)
    BY <1>5 DEF one, Query
  <2> QED BY <1>3, <2>1, NameAsks
<1>7. Asks(buf, 0 + Len(w) + 3, t, 2, 0 + Len(w) + 3 + 4)
  <2>1. 0 + Len(one) = 0 + Len(w) + 3 /\ 0 + Len(w) + 3 \in Nat
    BY <1>1
  <2>2. HasAt(buf, 0 + Len(w) + 3, behind)
    BY <1>5, <2>1
  <2> DEFINE p == 0 + Len(w) + 3
  <2>3. p \in Nat /\ HasAt(buf, p, behind)
    BY <2>1, <2>2
  <2> HIDE DEF p
  <2>4. Asks(buf, p, t, 2, p + 4)
    BY <1>3, <1>6, <2>3, PointerAsks
  <2> QED BY <2>4 DEF p
<1>8. Questions(buf, 0, 2) = <<Entry(t, type), Entry(t, 2)>>
  BY <1>6, <1>7, QuestionsAre
<1> QED BY <1>8 DEF buf

LEMMA BothAreAsked ==
  ASSUME NEW w \in Seq(Bytes), NEW t \in Seq(Bytes), Spelled(w, t)
  PROVE  Questions(Query(w, 2) \o Query(w, 2), 0, 2) = <<Entry(t, 2), Entry(t, 2)>>
<1> DEFINE one == Query(w, 2)
           buf == one \o one
           p == 0 + Len(w) + 3
<1>1. one \in Seq(Bytes) /\ Len(one) = Len(w) + 3 /\ 2 \in Bytes /\ Len(w) \in Nat
  <2>1. 2 \in Bytes
    BY DEF Bytes
  <2> QED BY <2>1, QueryIs, LenProperties
<1>2. one = Append(w, 0) \o <<2, 1>>
  BY DEF Query
<1> HIDE DEF one
<1>3. buf \in Seq(Bytes)
  BY <1>1, ConcatProperties
<1>4. HasAt(buf, 0, one \o one)
  BY <1>1, <1>3, QueryIs
<1> HIDE DEF buf
<1>5. HasAt(buf, 0, one) /\ HasAt(buf, p, one) /\ p \in Nat
  <2>1. 0 + Len(one) = p /\ p \in Nat
    BY <1>1
  <2>2. HasAt(buf, 0, one) /\ HasAt(buf, 0 + Len(one), one)
    BY <1>1, <1>3, <1>4, HasBoth
  <2> QED BY <2>1, <2>2
<1>6. Asks(buf, 0, t, 2, p)
  BY <1>1, <1>2, <1>3, <1>5, NameAsks
<1>7. Asks(buf, p, t, 2, p + Len(w) + 3)
  <2> HIDE DEF p
  <2> QED BY <1>1, <1>2, <1>3, <1>5, NameAsks
<1>8. Questions(buf, 0, 2) = <<Entry(t, 2), Entry(t, 2)>>
  BY <1>6, <1>7, QuestionsAre
<1> QED BY <1>8 DEF buf, one

(* What same_questions finds: every question among those of the answer.    *)
Repeats(asked, repeated) ==
  \A i \in DOMAIN asked :
    /\ asked[i] # EBADNAME
    /\ \E j \in DOMAIN repeated :
         /\ repeated[j] = asked[i]
         /\ \A k \in 1 .. j : repeated[k] # EBADNAME

LEMMA OneRepeats ==
  ASSUME NEW a, NEW b, a # EBADNAME, b # EBADNAME
  PROVE  Repeats(<<a>>, <<b>>) <=> a = b
<1> DEFINE u == <<a>>
           v == <<b>>
<1>1. DOMAIN u = {1} /\ u[1] = a /\ DOMAIN v = {1} /\ v[1] = b
  OBVIOUS
<1>2. 1 .. 1 = {1}
  OBVIOUS
<1> HIDE DEF u, v
<1>3. Repeats(u, v) <=> a = b
  BY <1>1, <1>2 DEF Repeats
<1> QED BY <1>3 DEF u, v

LEMMA TwoRepeat ==
  ASSUME NEW a, NEW b, NEW c, NEW d, a # EBADNAME, b # EBADNAME, c # EBADNAME, d # EBADNAME
  PROVE  Repeats(<<a, b>>, <<c, d>>) <=> {a, b} \subseteq {c, d}
<1> DEFINE u == <<a, b>>
           v == <<c, d>>
<1>1. DOMAIN u = {1, 2} /\ u[1] = a /\ u[2] = b /\ DOMAIN v = {1, 2} /\ v[1] = c /\ v[2] = d
  OBVIOUS
<1>2. 1 .. 1 = {1} /\ 1 .. 2 = {1, 2}
  OBVIOUS
<1> HIDE DEF u, v
<1>3. \A j \in {1, 2} : \A k \in 1 .. j : v[k] # EBADNAME
  BY <1>1, <1>2
<1>4. Repeats(u, v) <=> \A i \in {1, 2} : \E j \in {1, 2} : v[j] = u[i]
  BY <1>1, <1>3 DEF Repeats
<1> QED BY <1>1, <1>4 DEF u, v

LEMMA SameIs ==
  ASSUME NEW m, NEW n, NEW buf, NEW other
  PROVE  SameQuestions([qdcount |-> m, buf |-> buf], [qdcount |-> n, buf |-> other]) <=>
           (m = n /\ Repeats(Questions(buf, 0, m), Questions(other, 0, n)))
<1> DEFINE query == [qdcount |-> m, buf |-> buf]
           answer == [qdcount |-> n, buf |-> other]
<1>1. query.qdcount = m /\ query.buf = buf /\ answer.qdcount = n /\ answer.buf = other
  OBVIOUS
<1> HIDE DEF query, answer
<1>2. SameQuestions(query, answer) <=>
        (/\ query.qdcount = answer.qdcount
         /\ Repeats(Questions(query.buf, 0, query.qdcount), Questions(answer.buf, 0, answer.qdcount)))
  BY Zenon DEF SameQuestions, Repeats
<1>3. SameQuestions(query, answer) <=> (m = n /\ Repeats(Questions(buf, 0, m), Questions(other, 0, n)))
  BY <1>1, <1>2
<1> QED BY <1>3 DEF query, answer

LEMMA EntriesDiffer ==
  ASSUME NEW t
  PROVE  /\ Entry(t, 1) # Entry(t, 2)
         /\ Entry(t, 1) # EBADNAME /\ Entry(t, 2) # EBADNAME
<1>1. Entry(t, 1).type = 1 /\ Entry(t, 2).type = 2
  BY DEF Entry
<1>2. "s" \in DOMAIN Entry(t, 1) /\ "s" \in DOMAIN Entry(t, 2) /\ "s" \notin DOMAIN EBADNAME
  BY DEF Entry, EBADNAME
<1> QED BY <1>1, <1>2

(* What has a piece at its beginning begins with it.                       *)
LEMMA BeginsWith ==
  ASSUME NEW buf \in Seq(Bytes), NEW piece \in Seq(Bytes), HasAt(buf, 0, piece)
  PROVE  SubSeq(buf, 1, Len(piece)) = piece
<1> DEFINE n == Len(piece)
           u == SubSeq(buf, 1, n)
<1>1. n \in Nat /\ n <= Len(buf) /\ Len(buf) \in Nat /\ \A i \in 1 .. n : buf[i] = piece[i]
  <2>1. n \in Nat /\ Len(buf) \in Nat
    BY LenProperties
  <2>2. 0 + n <= Len(buf) /\ \A i \in 1 .. n : buf[0 + i] = piece[i]
    BY DEF HasAt
  <2>3. \A i \in 1 .. n : 0 + i = i
    BY <2>1
  <2> QED BY <2>1, <2>2, <2>3
<1>2. \A i \in 1 .. n : buf[i] \in Bytes
  BY <1>1, ElementOfSeq
<1>3. u \in Seq(Bytes) /\ Len(u) = n /\ \A i \in 1 .. n : u[i] = buf[i]
  <2>1. /\ u \in Seq(Bytes) /\ Len(u) = IF 1 <= n THEN n - 1 + 1 ELSE 0
        /\ \A i \in 1 .. n - 1 + 1 : u[i] = buf[1 + i - 1]
    BY <1>1, <1>2, SubSeqProperties
  <2>2. n - 1 + 1 = n /\ (1 <= n \/ n = 0) /\ \A i \in 1 .. n : 1 + i - 1 = i
    BY <1>1
  <2> HIDE DEF u, n
  <2> QED BY <2>1, <2>2
<1> HIDE DEF u
<1>4. u = piece
  BY <1>1, <1>3, SeqEqual
<1> QED BY <1>4 DEF u

(* The comparisons of WritesName.                                          *)
LEMMA QuestionsCompare ==
  ASSUME NEW w \in Seq(Bytes), NEW t \in Seq(Bytes), Spelled(w, t), NEW query,
         \A type \in {1, 2} : query[type].bytes \in Seq(Bytes) /\ HasAt(query[type].bytes, 0, Query(w, type))
  PROVE  Compares(query, Len(w) + 3)
<1> DEFINE Message(count, buf) == [qdcount |-> count, buf |-> buf]
           Entire(type) == SubSeq(query[type].bytes, 1, Len(w) + 3)
           Asking(type) == Message(1, query[type].bytes)
           AskingTwice(type) == Message(2, Entire(type) \o <<IndirMask, 0, 2, 1>>)
           Two == Message(2, Entire(2) \o Entire(2))
           Pointing(type) == Message(2, Pointed(w, type))
           Both == Message(2, Query(w, 2) \o Query(w, 2))
<1>0. \A type \in {1, 2} : Entire(type) = Query(w, type) /\ type \in Bytes
  <2> SUFFICES ASSUME NEW type \in {1, 2} PROVE Entire(type) = Query(w, type) /\ type \in Bytes
    OBVIOUS
  <2>1. type \in Bytes
    BY DEF Bytes
  <2>2. Query(w, type) \in Seq(Bytes) /\ Len(Query(w, type)) = Len(w) + 3
    BY <2>1, QueryIs
  <2>3. SubSeq(query[type].bytes, 1, Len(Query(w, type))) = Query(w, type)
    BY <2>2, BeginsWith
  <2> QED BY <2>1, <2>2, <2>3
<1>1. ASSUME NEW type \in {1, 2}
      PROVE  /\ SameQuestions(Asking(1), Asking(type)) <=> type = 1
             /\ SameQuestions(Pointing(1), Pointing(type)) <=> type = 1
             /\ SameQuestions(Both, Pointing(type))
             /\ ~SameQuestions(Asking(1), Pointing(type))
  <2> DEFINE e1 == Entry(t, 1)
             e2 == Entry(t, 2)
             e == Entry(t, type)
             one == query[1].bytes
             other == query[type].bytes
  <2>1. type \in Bytes /\ 1 \in Bytes
    BY DEF Bytes
  <2>2. /\ Questions(one, 0, 1) = <<e1>> /\ Questions(other, 0, 1) = <<e>>
        /\ Questions(Pointed(w, 1), 0, 2) = <<e1, e2>>
        /\ Questions(Pointed(w, type), 0, 2) = <<e, e2>>
        /\ Questions(Query(w, 2) \o Query(w, 2), 0, 2) = <<e2, e2>>
    <3>1. /\ one \in Seq(Bytes) /\ HasAt(one, 0, Query(w, 1))
          /\ other \in Seq(Bytes) /\ HasAt(other, 0, Query(w, type))
      OBVIOUS
    <3> HIDE DEF one, other
    <3> QED BY <2>1, <3>1, OneIsAsked, TwoAreAsked, BothAreAsked
  <2>3. e1 # EBADNAME /\ e2 # EBADNAME /\ e # EBADNAME /\ (e = e1 <=> type = 1) /\ e1 # e2 /\ e \in {e1, e2}
    BY EntriesDiffer
  <2> HIDE DEF e1, e2, e
  <2>4. SameQuestions(Asking(1), Asking(type)) <=> type = 1
    <3>0. SameQuestions(Asking(1), Asking(type)) <=>
            (1 = 1 /\ Repeats(Questions(one, 0, 1), Questions(other, 0, 1)))
      BY SameIs
    <3>1. SameQuestions(Asking(1), Asking(type)) <=> Repeats(<<e1>>, <<e>>)
      <4> HIDE DEF Asking, one, other
      <4> QED BY <2>2, <3>0
    <3>2. Repeats(<<e1>>, <<e>>) <=> e1 = e
      BY <2>3, OneRepeats
    <3> QED BY <2>3, <3>1, <3>2
  <2>5. SameQuestions(Pointing(1), Pointing(type)) <=> type = 1
    <3>0. SameQuestions(Pointing(1), Pointing(type)) <=>
            (2 = 2 /\ Repeats(Questions(Pointed(w, 1), 0, 2), Questions(Pointed(w, type), 0, 2)))
      BY SameIs
    <3>1. SameQuestions(Pointing(1), Pointing(type)) <=> Repeats(<<e1, e2>>, <<e, e2>>)
      <4> HIDE DEF Pointing
      <4> QED BY <2>2, <3>0
    <3>2. Repeats(<<e1, e2>>, <<e, e2>>) <=> {e1, e2} \subseteq {e, e2}
      BY <2>3, TwoRepeat
    <3>3. ({e1, e2} \subseteq {e, e2}) <=> e = e1
      BY <2>3
    <3> QED BY <2>3, <3>1, <3>2, <3>3
  <2>6. SameQuestions(Both, Pointing(type))
    <3>0. SameQuestions(Both, Pointing(type)) <=>
            (2 = 2 /\ Repeats(Questions(Query(w, 2) \o Query(w, 2), 0, 2), Questions(Pointed(w, type), 0, 2)))
      BY SameIs
    <3>1. SameQuestions(Both, Pointing(type)) <=> Repeats(<<e2, e2>>, <<e, e2>>)
      <4> HIDE DEF Both, Pointing
      <4> QED BY <2>2, <3>0
    <3>2. Repeats(<<e2, e2>>, <<e, e2>>) <=> {e2, e2} \subseteq {e, e2}
      BY <2>3, TwoRepeat
    <3> QED BY <3>1, <3>2
  <2>7. ~SameQuestions(Asking(1), Pointing(type))
    <3>1. 1 # 2
      OBVIOUS
    <3> QED BY <3>1, SameIs
  <2> QED BY <2>4, <2>5, <2>6, <2>7
<1> DEFINE S(type) == {<<Asking(1), Asking(type), type = 1>>,
                       <<AskingTwice(1), AskingTwice(type), type = 1>>,
                       <<Two, AskingTwice(type), TRUE>>,
                       <<Asking(1), AskingTwice(type), FALSE>>}
<1>2. Two = Both /\ \A type \in {1, 2} : AskingTwice(type) = Pointing(type)
  <2> HIDE DEF Entire, Message
  <2> QED BY <1>0 DEF Pointed
<1>3. \A type \in {1, 2} : \A same \in S(type) : SameQuestions(same[1], same[2]) <=> same[3]
  <2> SUFFICES ASSUME NEW type \in {1, 2}, NEW same \in S(type)
               PROVE  SameQuestions(same[1], same[2]) <=> same[3]
    OBVIOUS
  <2> HIDE DEF Message, Asking, AskingTwice, Both, Two, Pointing, Entire
  <2>0. AskingTwice(1) = Pointing(1) /\ AskingTwice(type) = Pointing(type)
    BY <1>2
  <2>1. CASE same = <<Asking(1), Asking(type), type = 1>>
    BY <1>1, <2>1
  <2>2. CASE same = <<AskingTwice(1), AskingTwice(type), type = 1>>
    BY <1>1, <2>0, <2>2
  <2>3. CASE same = <<Two, AskingTwice(type), TRUE>>
    BY <1>1, <1>2, <2>0, <2>3
  <2>4. CASE same = <<Asking(1), AskingTwice(type), FALSE>>
    BY <1>1, <2>0, <2>4
  <2> QED BY <2>1, <2>2, <2>3, <2>4
<1> QED BY <1>3, Zenon DEF Compares

LEMMA TextOfIs ==
  ASSUME NEW w \in Seq(Bytes), NEW t \in Seq(Bytes), Spelled(w, t)
  PROVE  LET s == TextOf(t)
         IN /\ s \in Seq(Bytes) /\ s # <<Dot>> /\ Len(t) >= Len(s)
            /\ IF t = <<>> THEN s = <<>> ELSE Append(s, Dot) = t
            /\ HasAt(Append(s, Dot), 0, t)
<1> DEFINE s == TextOf(t)
           n == Len(t)
           D == Append(s, Dot)
<1>1. n \in Nat /\ NameFacts(w, t) /\ Dot \in Bytes /\ <<>> \in Seq(Bytes) /\ Len(<<>>) = 0
  BY LenProperties, SpelledSays, EmptySeq DEF Bytes, Dot
<1>2. CASE n = 0
  <2>1. t = <<>> /\ s = <<>>
    <3>1. t = <<>>
      BY <1>1, <1>2, EmptySeq
    <3>2. SubSeq(t, 1, Len(t) - 1) = <<>>
      BY <1>1, <1>2, SubSeqEmpty
    <3> QED BY <3>1, <3>2 DEF TextOf
  <2>2. <<>> # <<Dot>>
    OBVIOUS
  <2> HIDE DEF s
  <2>3. Len(D) = 1
    BY <1>1, <2>1, AppendProperties
  <2> HIDE DEF D
  <2>4. HasAt(D, 0, t)
    BY <1>2, <2>3 DEF HasAt
  <2>5. s \in Seq(Bytes) /\ s # <<Dot>> /\ n >= Len(s) /\ t = <<>> /\ s = <<>>
    BY <1>1, <1>2, <2>1, <2>2
  <2> QED BY <2>4, <2>5 DEF s, D
<1>3. CASE n # 0
  <2>1. n > 1 /\ t[1] # Dot /\ t[n] = Dot /\ t # <<>>
    BY <1>1, <1>3 DEF NameFacts
  <2>2. s \in Seq(Bytes) /\ Len(s) = n - 1 /\ \A i \in 1 .. n - 1 : s[i] = t[i]
    <3>1. 1 \in 1 .. n + 1 /\ n - 1 \in 0 .. n /\ (n - 1) - 1 + 1 = n - 1 /\ \A i \in 1 .. n - 1 : 1 + i - 1 = i
      BY <1>1, <2>1
    <3> QED BY <1>1, <2>1, <3>1, SubSeqProperties DEF TextOf
  <2> HIDE DEF s
  <2>3. D \in Seq(Bytes) /\ Len(D) = n /\ D[n] = Dot /\ \A i \in 1 .. n - 1 : D[i] = s[i]
    <3>1. /\ D \in Seq(Bytes) /\ Len(D) = Len(s) + 1 /\ D[Len(s) + 1] = Dot
          /\ \A i \in 1 .. Len(s) : D[i] = s[i]
      BY <1>1, <2>2, AppendProperties
    <3>2. Len(s) + 1 = n
      BY <1>1, <2>2
    <3> QED BY <2>2, <3>1, <3>2
  <2> HIDE DEF D
  <2>4. \A i \in 1 .. n : D[i] = t[i]
    <3> SUFFICES ASSUME NEW i \in 1 .. n PROVE D[i] = t[i]
      OBVIOUS
    <3>1. CASE i = n
      BY <2>1, <2>3, <3>1
    <3>2. CASE i # n
      <4>1. i \in 1 .. n - 1
        BY <1>1, <3>2
      <4> QED BY <2>2, <2>3, <4>1
    <3> QED BY <3>1, <3>2
  <2>5. D = t
    BY <2>3, <2>4, SeqEqual
  <2>6. HasAt(D, 0, t)
    BY <1>1, <2>3, <2>4 DEF HasAt
  <2>7. s # <<Dot>>
    <3>1. s[1] = t[1]
      BY <1>1, <2>1, <2>2
    <3>2. <<Dot>>[1] = Dot
      OBVIOUS
    <3> QED BY <2>1, <3>1, <3>2
  <2>8. n >= Len(s)
    BY <1>1, <2>2
  <2> QED BY <2>1, <2>2, <2>5, <2>6, <2>7, <2>8 DEF s, D
<1> QED BY <1>2, <1>3

(* But for an escaped dot at the end, the query has the whole question, and*)
(* nothing else unless the text is but a dot.                              *)
Unspelled(text) == IF text = <<Dot>> THEN <<>> ELSE text

LEMMA MkqueryIs ==
  ASSUME NEW text \in Seq(Bytes), NEW type \in Bytes, NEW memory \in Bytes, ~EndsEscaped(text)
  PROVE  LET w == Written(Unspelled(text)).q
             query == Mkquery(text, 1, type, memory)
             bytes == IF text = <<Dot>> THEN Append(Query(w, type), memory) ELSE Query(w, type)
         IN /\ w \in Seq(Bytes) /\ bytes \in Seq(Bytes) /\ HasAt(bytes, 0, Query(w, type))
            /\ Len(bytes) = IF text = <<Dot>> THEN Len(w) + 4 ELSE Len(w) + 3
            /\ IF Counted(text) > MaxCdName \/ ~Written(Unspelled(text)).ok THEN query = EBADNAME
               ELSE query = [status |-> "SUCCESS", bytes |-> bytes]
<1> DEFINE whole == Unspelled(text)
           w == Written(whole).q
           q == Query(w, type)
           query == Mkquery(text, 1, type, memory)
           bytes == IF text = <<Dot>> THEN Append(q, memory) ELSE q
           buflen == Counted(text) + 2
           blank == [i \in 1 .. buflen |-> memory]
           encoded == Encoded(text, 1, type)
<1>1. whole \in Seq(Bytes) /\ w \in Seq(Bytes) /\ Len(w) \in Nat
  <2>1. whole \in Seq(Bytes)
    BY EmptySeq DEF Unspelled
  <2> HIDE DEF whole
  <2> QED BY <2>1, StartedIs, LenProperties
<1>2. q \in Seq(Bytes) /\ Len(q) = Len(w) + 3 /\ HasAt(q, 0, q)
  <2> HIDE DEF w
  <2> QED BY <1>1, QueryIs
<1>3. text = <<Dot>> => w = <<>> /\ Len(w) = 0
  <2> SUFFICES ASSUME text = <<Dot>> PROVE w = <<>> /\ Len(w) = 0
    OBVIOUS
  <2>1. whole = <<>> /\ Len(<<>>) = 0
    BY EmptySeq DEF Unspelled
  <2> HIDE DEF whole
  <2>2. Written(whole) = Started
    <3>1. Written(whole) = WrittenFrom(whole, Started) /\ Started \in Writing(whole) /\ Started.p = 0
      BY <1>1, StartedIs
    <3>2. Started.p >= Len(whole)
      BY <2>1, <3>1
    <3> QED BY <1>1, <3>1, <3>2, WrittenFromIs
  <2> QED BY <2>1, <2>2, StartedIs
<1>4. encoded = IF ~Written(whole).ok THEN EBADNAME ELSE [status |-> "SUCCESS", bytes |-> q]
  BY Zenon DEF Encoded, Query, Unspelled
<1>5. query = IF Counted(text) > MaxCdName \/ encoded.status # "SUCCESS" THEN EBADNAME
              ELSE [status |-> "SUCCESS", bytes |-> SubSeq(encoded.bytes \o blank, 1, buflen)]
  BY Zenon DEF Mkquery
<1>6. EBADNAME.status # "SUCCESS"
  BY DEF EBADNAME
<1>7. Written(whole).ok => buflen = IF text = <<Dot>> THEN Len(w) + 4 ELSE Len(w) + 3
  <2>1. CASE text = <<Dot>>
    BY <1>3, <2>1, DotIsCounted
  <2>2. CASE text # <<Dot>>
    <3>1. whole = text
      BY <2>2 DEF Unspelled
    <3>2. Written(whole).ok => Counted(text) = Len(w) + 1
      BY <3>1, CountedIs
    <3> QED BY <1>1, <2>2, <3>2
  <2> QED BY <2>1, <2>2
<1> HIDE DEF encoded, query, q, w, whole
<1>8. /\ bytes \in Seq(Bytes) /\ HasAt(bytes, 0, q)
      /\ Len(bytes) = IF text = <<Dot>> THEN Len(w) + 4 ELSE Len(w) + 3
  <2>1. CASE text # <<Dot>>
    BY <1>2, <2>1
  <2>2. CASE text = <<Dot>>
    <3>1. /\ Append(q, memory) \in Seq(Bytes) /\ Len(Append(q, memory)) = Len(q) + 1
          /\ \A i \in 1 .. Len(q) : Append(q, memory)[i] = q[i]
      BY <1>2, AppendProperties
    <3> DEFINE u == Append(q, memory)
    <3> HIDE DEF u
    <3>2. HasAt(u, 0, q)
      <4>1. Len(q) \in Nat /\ \A i \in 1 .. Len(q) : 0 + i = i
        BY <1>1, <1>2
      <4> QED BY <3>1, <4>1 DEF HasAt, u
    <3> QED BY <1>1, <1>2, <2>2, <3>1, <3>2 DEF u
  <2> QED BY <2>1, <2>2
<1>9. ASSUME Written(whole).ok PROVE SubSeq(q \o blank, 1, buflen) = bytes
  <2> DEFINE k == buflen
             u == q \o blank
             m == Len(q)
  <2>1. k \in Nat /\ k >= 1 /\ m \in Nat /\ k = Len(bytes) /\ (k = m \/ (k = m + 1 /\ text = <<Dot>>))
    BY <1>1, <1>2, <1>7, <1>8, <1>9
  <2> HIDE DEF k, m
  <2> DEFINE z == [i \in 1 .. k |-> memory]
  <2>2. blank = z
    BY DEF k
  <2> HIDE DEF blank
  <2>3. blank \in Seq(Bytes) /\ Len(blank) = k /\ blank[1] = memory
    <3>1. z \in Seq(Bytes) /\ Len(z) = k /\ z[1] = memory
      BY <2>1
    <3> QED BY <2>2, <3>1
  <2>4. /\ u \in Seq(Bytes) /\ Len(u) = m + k
        /\ \A i \in 1 .. m + k : u[i] = IF i <= m THEN q[i] ELSE blank[i - m]
    <3> HIDE DEF blank
    <3> QED BY <1>2, <2>3, ConcatProperties DEF m
  <2> HIDE DEF u
  <2>5. HasAt(u, 0, bytes)
    <3>1. \A i \in 1 .. k : 0 + i = i /\ i \in 1 .. m + k
      BY <2>1
    <3>2. CASE k = m
      <4>1. bytes = q
        <5>1. text # <<Dot>>
          BY <1>1, <1>2, <1>7, <1>9, <3>2 DEF k, m
        <5> QED BY <5>1
      <4>2. \A i \in 1 .. k : i <= m
        BY <2>1, <3>2
      <4> HIDE DEF bytes
      <4> QED BY <2>1, <2>4, <3>1, <4>1, <4>2 DEF HasAt
    <3>3. CASE k = m + 1 /\ text = <<Dot>>
      <4>1. bytes = Append(q, memory)
        BY <3>3
      <4> HIDE DEF bytes
      <4>2. \A i \in 1 .. m : bytes[i] = q[i] /\ i <= m
        BY <1>2, <2>1, <4>1, AppendProperties DEF m
      <4>3. bytes[m + 1] = memory
        BY <1>2, <4>1, AppendProperties DEF m
      <4>4. blank[1] = memory /\ (m + 1) - m = 1 /\ m + 1 \in 1 .. m + k /\ ~(m + 1 <= m)
        BY <2>1, <2>3, <3>3
      <4>5. u[m + 1] = memory
        BY <2>4, <4>4
      <4>6. \A i \in 1 .. k : i \in 1 .. m \/ i = m + 1
        BY <2>1, <3>3
      <4>7. \A i \in 1 .. k : u[i] = bytes[i]
        BY <2>4, <3>1, <4>2, <4>3, <4>5, <4>6
      <4> QED BY <2>1, <2>4, <3>1, <4>7 DEF HasAt
    <3> QED BY <2>1, <3>2, <3>3
  <2>6. SubSeq(u, 1, Len(bytes)) = bytes
    BY <1>8, <2>4, <2>5, BeginsWith
  <2> QED BY <2>1, <2>6 DEF u, k
<1>10. IF Counted(text) > MaxCdName \/ ~Written(whole).ok THEN query = EBADNAME
       ELSE query = [status |-> "SUCCESS", bytes |-> bytes]
  <2>1. CASE Written(whole).ok
    <3>1. encoded.status = "SUCCESS" /\ encoded.bytes = q
      BY <1>4, <2>1
    <3> HIDE DEF blank, buflen, bytes
    <3> QED BY <1>5, <1>9, <2>1, <3>1
  <2>2. CASE ~Written(whole).ok
    <3>1. encoded = EBADNAME
      BY <1>4, <2>2
    <3> HIDE DEF blank, buflen, bytes
    <3> QED BY <1>5, <1>6, <2>2, <3>1
  <2> QED BY <2>1, <2>2
<1> QED BY <1>1, <1>8, <1>10 DEF query, q, w, whole

LEMMA NameIsWritten ==
  ASSUME NEW text \in Seq(Bytes), NEW memory \in Bytes
  PROVE  WritesName(text, memory)
<1> DEFINE whole == Unspelled(text)
           written == Written(whole)
           w == written.q
           query == <<Mkquery(text, 1, 1, memory), Mkquery(text, 1, 2, memory)>>
           name == ExpandName(query[1].bytes, 0)
           n == name.enclen + 2
<1>1. SUFFICES ASSUME query[1].status = "SUCCESS", ~EndsEscaped(text)
               PROVE  /\ name.status = "SUCCESS"
                      /\ Len(query[1].bytes) = IF text = <<Dot>> THEN n + 1 ELSE n
                      /\ (\A i \in DOMAIN text : text[i] # Backslash) => text \in {name.s, Append(name.s, Dot)}
                      /\ \/ text = <<Dot>> \/ EndsEscaped(name.s) \/ Counted(name.s) > MaxCdName
                         \/ Mkquery(name.s, 1, 1, memory) = query[1]
                      /\ Compares(query, n)
  BY Zenon DEF WritesName, IsWhole
<1>2. whole \in Seq(Bytes) /\ w \in Seq(Bytes) /\ 0 \in Bytes /\ 1 \in Bytes /\ 2 \in Bytes /\ Dot \in Bytes
      /\ Len(w) \in Nat
  <2>1. whole \in Seq(Bytes)
    BY EmptySeq DEF Unspelled
  <2> HIDE DEF whole
  <2> QED BY <2>1, StartedIs, LenProperties DEF Bytes, Dot
<1> DEFINE bytes(type) == IF text = <<Dot>> THEN Append(Query(w, type), memory) ELSE Query(w, type)
<1>3. /\ ~(Counted(text) > MaxCdName) /\ written.ok
      /\ query[1] = [status |-> "SUCCESS", bytes |-> bytes(1)]
      /\ query[2] = [status |-> "SUCCESS", bytes |-> bytes(2)]
  <2>1. EBADNAME.status # "SUCCESS"
    BY DEF EBADNAME
  <2>2. query[1] = Mkquery(text, 1, 1, memory) /\ query[2] = Mkquery(text, 1, 2, memory)
    OBVIOUS
  <2>3. \A type \in {1, 2} : IF Counted(text) > MaxCdName \/ ~written.ok
                             THEN Mkquery(text, 1, type, memory) = EBADNAME
                             ELSE Mkquery(text, 1, type, memory) = [status |-> "SUCCESS", bytes |-> bytes(type)]
    BY <1>1, <1>2, MkqueryIs
  <2> HIDE DEF query, written, w, bytes
  <2> QED BY <1>1, <2>1, <2>2, <2>3
<1>4. \A type \in {1, 2} : /\ bytes(type) \in Seq(Bytes) /\ HasAt(bytes(type), 0, Query(w, type))
                           /\ Len(bytes(type)) = IF text = <<Dot>> THEN Len(w) + 4 ELSE Len(w) + 3
  BY <1>1, <1>2, MkqueryIs
<1>5. PICK t \in Seq(Bytes) : Spelled(w, t) /\ (Plain(whole) /\ written.ok => t \in {whole, Append(whole, Dot)})
  <2> HIDE DEF whole
  <2> QED BY <1>2, WrittenIs
<1> HIDE DEF written, w, query
<1>13. query[1].bytes = bytes(1) /\ query[2].bytes = bytes(2)
  <2> HIDE DEF bytes
  <2> QED BY <1>3
<1> HIDE DEF bytes
<1> DEFINE s == TextOf(t)
<1>6. /\ s \in Seq(Bytes) /\ s # <<Dot>> /\ Len(t) >= Len(s)
      /\ IF t = <<>> THEN s = <<>> ELSE Append(s, Dot) = t
      /\ HasAt(Append(s, Dot), 0, t)
  BY <1>2, <1>5, TextOfIs
<1>7. name = Read(t, Len(w) + 1)
  <2>1. Asks(bytes(1), 0, t, 1, 0 + Len(w) + 3) /\ HasAt(bytes(1), 0, Append(w, 0))
    BY <1>2, <1>4, <1>5, NameAsks DEF Query
  <2> DEFINE q == Append(w, 0)
  <2>2. q = w \o <<0>> /\ <<0>> \in Seq(Bytes) /\ Len(<<0>>) = 1 /\ <<0>>[1] = 0 /\ 0 \in Nat
    BY <1>2, AppendIsConcat
  <2>3. bytes(1) \in Seq(Bytes)
    BY <1>4
  <2>4. HasAt(bytes(1), 0, w) /\ HasAt(bytes(1), 0 + Len(w), <<0>>)
    <3>1. HasAt(bytes(1), 0, w \o <<0>>)
      BY <2>1, <2>2
    <3> QED BY <1>2, <2>2, <2>3, <3>1, HasBoth
  <2>5. (0 + Len(w)) + 1 <= Len(bytes(1)) /\ bytes(1)[(0 + Len(w)) + 1] = 0
    <3>1. 1 \in 1 .. 1
      OBVIOUS
    <3> QED BY <2>2, <2>4, <3>1 DEF HasAt
  <2>6. 0 + Len(w) < Len(bytes(1)) /\ At(bytes(1), 0 + Len(w)) = 0
    <3>1. Len(bytes(1)) \in Nat
      BY <2>3, LenProperties
    <3> QED BY <1>2, <2>5, <3>1 DEF At
  <2>7. Ends(bytes(1), 0, w)
    BY <2>4, <2>6 DEF Ends, Stands
  <2>8. ExpandName(bytes(1), 0) = Read(t, Len(w) + 1)
    BY <1>2, <1>5, <2>3, <2>7, NameIsRead
  <2> QED BY <1>13, <2>8
<1> HIDE DEF name
<1>8. name.status = "SUCCESS" /\ name.s = s /\ n = Len(w) + 3
  <2>1. name.status = "SUCCESS" /\ name.s = s /\ name.enclen = Len(w) + 1
    BY <1>7 DEF Read
  <2> QED BY <1>2, <2>1
<1>9. Len(query[1].bytes) = IF text = <<Dot>> THEN n + 1 ELSE n
  <2>1. (Len(w) + 3) + 1 = Len(w) + 4
    BY <1>2
  <2>2. Len(bytes(1)) = IF text = <<Dot>> THEN Len(w) + 4 ELSE Len(w) + 3
    BY <1>4
  <2> HIDE DEF n
  <2> QED BY <1>8, <1>13, <2>1, <2>2
<1> HIDE DEF s, n
<1>10. ASSUME \A i \in DOMAIN text : text[i] # Backslash
       PROVE  text \in {s, Append(s, Dot)}
  <2>1. Plain(whole)
    <3>1. DOMAIN text = 1 .. Len(text) /\ Len(<<>>) = 0
      BY LenProperties
    <3> QED BY <1>10, <3>1 DEF Plain, Unspelled
  <2>2. t \in {whole, Append(whole, Dot)}
    BY <1>3, <1>5, <2>1
  <2>3. CASE text = <<Dot>>
    <3>1. whole = <<>> /\ Append(<<>>, Dot) = <<Dot>> /\ Len(<<Dot>>) = 1 /\ Len(<<>>) = 0
      BY <2>3 DEF Unspelled
    <3>2. NameFacts(w, t)
      BY <1>2, <1>5, SpelledSays
    <3>3. t = <<>>
      BY <2>2, <3>1, <3>2 DEF NameFacts
    <3> QED BY <1>6, <2>3, <3>1, <3>3
  <2>4. CASE text # <<Dot>>
    <3>1. whole = text
      BY <2>4 DEF Unspelled
    <3>2. CASE t = text
      BY <1>6, <3>2
    <3>3. CASE t = Append(text, Dot)
      <4>1. t # <<>>
        BY <1>2, <3>3, AppendProperties
      <4>2. Append(s, Dot) = Append(text, Dot)
        BY <1>6, <3>3, <4>1
      <4>3. s = text
        BY <1>2, <1>6, <4>2, AppendInjective
      <4> QED BY <4>3
    <3> QED BY <2>2, <3>1, <3>2, <3>3
  <2> QED BY <2>3, <2>4
<1>11. text = <<Dot>> \/ EndsEscaped(s) \/ Counted(s) > MaxCdName \/ Mkquery(s, 1, 1, memory) = query[1]
  <2> SUFFICES ASSUME text # <<Dot>>, ~EndsEscaped(s), ~ (Counted(s) > MaxCdName)
               PROVE  Mkquery(s, 1, 1, memory) = query[1]
    OBVIOUS
  <2>1. Written(s) = [p |-> Len(t), q |-> w, ok |-> TRUE]
    BY <1>2, <1>5, <1>6, WritesBack
  <2>2. Written(s).ok /\ Written(s).q = w /\ Unspelled(s) = s
    BY <1>6, <2>1 DEF Unspelled
  <2>3. Mkquery(s, 1, 1, memory) = [status |-> "SUCCESS", bytes |-> Query(w, 1)]
    BY <1>2, <1>6, <2>2, MkqueryIs
  <2>4. bytes(1) = Query(w, 1)
    BY DEF bytes
  <2> QED BY <1>3, <2>3, <2>4
<1>12. Compares(query, n)
  <2>1. \A type \in {1, 2} : query[type].bytes = bytes(type)
    BY <1>13
  <2>2. Compares(query, Len(w) + 3)
    BY <1>2, <1>4, <1>5, <2>1, QuestionsCompare
  <2> QED BY <1>8, <2>2
<1> QED BY <1>8, <1>9, <1>10, <1>11, <1>12

(* ares_mkquery: the query for a text that does not end in an escaped dot, *)
(* of any bytes and any length, has the whole question and the length that *)
(* was counted; its name is read again as the text, what is read makes the *)
(* same query, and same_questions finds the question in answers that have  *)
(* it, and in no others.                                                   *)
THEOREM NamesAreWritten == MessageSpec => []WritesNames
<1>1. MessageInv => WritesNames
  <2> SUFFICES ASSUME MessageInv, message # <<>>
               PROVE  WritesName(SubSeq(message, 1, Len(message) - 1), message[Len(message)])
    BY Zenon DEF WritesNames
  <2> DEFINE n == Len(message)
             text == SubSeq(message, 1, n - 1)
  <2>1. message \in Seq(Bytes) /\ n \in Nat /\ n # 0
    BY LenProperties, EmptySeq DEF MessageInv
  <2>2. message[n] \in Bytes /\ \A i \in 1 .. n - 1 : message[i] \in Bytes
    <3>1. \A i \in 1 .. n : message[i] \in Bytes
      BY <2>1, ElementOfSeq
    <3>2. n \in 1 .. n /\ \A i \in 1 .. n - 1 : i \in 1 .. n
      BY <2>1
    <3> HIDE DEF n
    <3> QED BY <3>1, <3>2
  <2>3. text \in Seq(Bytes)
    <3>1. 1 \in Int /\ n - 1 \in Int
      BY <2>1
    <3> QED BY <2>2, <3>1, SubSeqProperties
  <2> HIDE DEF text, n
  <2>4. WritesName(text, message[n])
    BY <2>2, <2>3, NameIsWritten
  <2> QED BY <2>4 DEF text, n
<1> QED BY <1>1, MessageIsBytes, PTL
-----------------------------------------------------------------------------
(* Replies.  A loop over a sequence is a sequence of states, each made of  *)
(* the one before; the next lemma says that there is one.                  *)
IsRunOf(t, n, S, s, step) ==
  /\ t \in [0 .. n -> S]
  /\ t[0] = s
  /\ \A k \in 1 .. n : t[k] = step[k][t[k - 1]]

LEMMA StatesExist ==
  ASSUME NEW n \in Nat, NEW S, NEW s \in S, NEW step \in [1 .. n -> [S -> S]]
  PROVE  \E t : IsRunOf(t, n, S, s, step)
<1> DEFINE IsRun(t, m) == /\ t \in [0 .. m -> S] /\ t[0] = s
                          /\ \A k \in 1 .. m : t[k] = step[k][t[k - 1]]
           K == {k \in 0 .. n : \E t : IsRun(t, k)}
<1>1. 0 \in K
  <2>1. IsRun([j \in 0 .. 0 |-> s], 0)
    OBVIOUS
  <2> HIDE DEF IsRun
  <2> QED BY <2>1
<1>2. ASSUME NEW k \in 1 .. n, k - 1 \in K PROVE k \in K
  <2>1. PICK t : IsRun(t, k - 1)
    <3> HIDE DEF IsRun
    <3> QED BY <1>2
  <2> DEFINE u == [j \in 0 .. k |-> IF j = k THEN step[k][t[k - 1]] ELSE t[j]]
  <2>2. step[k][t[k - 1]] \in S
    BY <2>1
  <2>3. u \in [0 .. k -> S]
    BY <2>1, <2>2
  <2>4. u[0] = s /\ \A j \in 1 .. k : u[j] = step[j][u[j - 1]]
    BY <2>1
  <2>5. IsRun(u, k)
    BY <2>3, <2>4
  <2> HIDE DEF IsRun, u
  <2> QED BY <2>5
<1> HIDE DEF K
<1>3. 0 .. n \subseteq K
  BY <1>1, <1>2, CountsUp
<1>4. n \in K
  BY <1>3
<1>5. \A t : IsRun(t, n) => IsRunOf(t, n, S, s, step)
  BY DEF IsRunOf
<1> HIDE DEF IsRun
<1> QED BY <1>4, <1>5 DEF K

LEMMA LeastExists ==
  ASSUME NEW T, T \subseteq Nat, T # {}
  PROVE  \E k \in T : \A j \in T : k <= j
<1>1. IsWellFoundedOn(OpToRel(<, Nat), Nat)
  BY NatLessThanWellFounded
<1>2. PICK k \in T : \A j \in T : ~ (<<j, k>> \in OpToRel(<, Nat))
  BY <1>1, WFMin, Zenon
<1>3. ASSUME NEW j \in T, j < k PROVE FALSE
  BY <1>2, <1>3 DEF OpToRel
<1> QED BY <1>3

(* The sort list.  An address has a place in it, which is all that the     *)
(* sort looks at.                                                          *)
LEMMA IndexIsNumber ==
  ASSUME NEW sortlist \in Seq(SUBSET Address), NEW a
  PROVE  AddressIndex(a, sortlist) \in Nat
<1> DEFINE matching == {i \in DOMAIN sortlist : a \in sortlist[i]}
<1>1. Len(sortlist) \in Nat /\ matching \subseteq Nat
  BY LenProperties
<1>2. CASE matching = {}
  BY <1>1, <1>2 DEF AddressIndex
<1>3. CASE matching # {}
  <2> HIDE DEF matching
  <2>1. \E i \in matching : \A j \in matching : i <= j
    BY <1>1, <1>3, LeastExists
  <2>2. (CHOOSE i \in matching : \A j \in matching : i <= j) \in matching
    BY <2>1
  <2>3. AddressIndex(a, sortlist) = CHOOSE i \in matching : \A j \in matching : i <= j
    BY <1>3 DEF AddressIndex, matching
  <2> QED BY <1>1, <2>2, <2>3
<1> QED BY <1>2, <1>3

(* An address is moved back behind the last one that it does not precede.  *)
LEMMA PlaceIs ==
  ASSUME NEW addrs, NEW sortlist \in Seq(SUBSET Address), NEW a, Len(addrs) \in Nat
  PROVE  LET n == Place(addrs, a, sortlist)
             Index(x) == AddressIndex(x, sortlist)
         IN /\ n \in 0 .. Len(addrs)
            /\ n > 0 => Index(addrs[n]) <= Index(a)
            /\ \A m \in n + 1 .. Len(addrs) : Index(addrs[m]) > Index(a)
<1> DEFINE Index(x) == AddressIndex(x, sortlist)
           Before(x) == Index(x) <= Index(a)
           Fits(n) == /\ n > 0 => Before(addrs[n])
                      /\ \A m \in n + 1 .. Len(addrs) : ~Before(addrs[m])
           T == {n \in 0 .. Len(addrs) : \A m \in n + 1 .. Len(addrs) : ~Before(addrs[m])}
<1>1. Len(addrs) \in T /\ T \subseteq Nat
  OBVIOUS
<1>2. PICK n \in T : \A j \in T : n <= j
  <2> HIDE DEF T
  <2> QED BY <1>1, LeastExists
<1> HIDE DEF Before
<1>3. Fits(n)
  <2>1. ASSUME n > 0, ~Before(addrs[n]) PROVE FALSE
    <3>1. n - 1 \in T
      BY <2>1
    <3> HIDE DEF T
    <3> QED BY <1>1, <1>2, <2>1, <3>1
  <2> QED BY <2>1
<1>4. Place(addrs, a, sortlist) = CHOOSE x \in 0 .. Len(addrs) : Fits(x)
  BY DEF Place, Before
<1>5. \A x : Index(x) \in Nat
  BY IndexIsNumber
<1>6. n \in 0 .. Len(addrs)
  OBVIOUS
<1> DEFINE spot == Place(addrs, a, sortlist)
<1>7. spot \in 0 .. Len(addrs) /\ Fits(spot)
  <2> HIDE DEF Fits
  <2> QED BY <1>3, <1>4, <1>6
<1>8. ASSUME NEW m \in spot + 1 .. Len(addrs) PROVE Index(addrs[m]) > Index(a)
  <2>1. ~Before(addrs[m])
    BY <1>7
  <2> HIDE DEF Index
  <2> QED BY <1>5, <2>1 DEF Before
<1> QED BY <1>7, <1>8 DEF Before

(* The first k of the addresses have been sorted.                          *)
SortedUpTo(sorted, addrs, k, sortlist) ==
  /\ sorted \in [1 .. k -> Address]
  /\ \E h \in [1 .. k -> 1 .. k] :
       /\ \A i \in 1 .. k : sorted[i] = addrs[h[i]]
       /\ \A j \in 1 .. k : \E i \in 1 .. k : h[i] = j
       /\ \A i, j \in 1 .. k :
            i < j =>
              \/ AddressIndex(sorted[i], sortlist) < AddressIndex(sorted[j], sortlist)
              \/ AddressIndex(sorted[i], sortlist) = AddressIndex(sorted[j], sortlist) /\ h[i] < h[j]

LEMMA InsertedKeeps ==
  ASSUME NEW sortlist \in Seq(SUBSET Address), NEW addrs \in Seq(Address),
         NEW k \in 1 .. Len(addrs), NEW sorted, SortedUpTo(sorted, addrs, k - 1, sortlist)
  PROVE  SortedUpTo(Inserted(sorted, addrs[k], Place(sorted, addrs[k], sortlist)), addrs, k, sortlist)
<1> DEFINE a == addrs[k]
           n == Place(sorted, a, sortlist)
           next == Inserted(sorted, a, n)
           Index(x) == AddressIndex(x, sortlist)
<1>1. PICK h \in [1 .. k - 1 -> 1 .. k - 1] :
        /\ \A i \in 1 .. k - 1 : sorted[i] = addrs[h[i]]
        /\ \A j \in 1 .. k - 1 : \E i \in 1 .. k - 1 : h[i] = j
        /\ \A i, j \in 1 .. k - 1 :
             i < j =>
               \/ Index(sorted[i]) < Index(sorted[j])
               \/ Index(sorted[i]) = Index(sorted[j]) /\ h[i] < h[j]
  BY DEF SortedUpTo
<1>2. k \in Nat /\ k - 1 \in Nat /\ a \in Address
  BY LenProperties
<1>3. sorted \in [1 .. k - 1 -> Address] /\ Len(sorted) = k - 1
  BY <1>2, FunctionIsSeq DEF SortedUpTo
<1>4. \A x : Index(x) \in Nat
  BY IndexIsNumber
<1>5. /\ n \in 0 .. k - 1
      /\ n > 0 => Index(sorted[n]) <= Index(a)
      /\ \A m \in n + 1 .. k - 1 : Index(sorted[m]) > Index(a)
  BY <1>2, <1>3, PlaceIs
<1>6. next = [i \in 1 .. k |-> IF i <= n THEN sorted[i] ELSE IF i = n + 1 THEN a ELSE sorted[i - 1]]
  BY <1>2, <1>3 DEF Inserted
<1> DEFINE g == [i \in 1 .. k |-> IF i <= n THEN h[i] ELSE IF i = n + 1 THEN k ELSE h[i - 1]]
<1> HIDE DEF a, n, next, Index
<1>7. next \in [1 .. k -> Address]
  BY <1>2, <1>3, <1>5, <1>6
<1>8. g \in [1 .. k -> 1 .. k]
  <2> SUFFICES ASSUME NEW i \in 1 .. k
               PROVE  (IF i <= n THEN h[i] ELSE IF i = n + 1 THEN k ELSE h[i - 1]) \in 1 .. k
    BY Zenon
  <2>1. CASE i <= n
    <3>1. i \in 1 .. k - 1
      BY <1>2, <1>5, <2>1
    <3>2. h[i] \in 1 .. k - 1
      BY <3>1
    <3> QED BY <1>2, <2>1, <3>2
  <2>2. CASE i = n + 1
    BY <1>2, <1>5, <2>2
  <2>3. CASE i > n + 1
    <3>1. i - 1 \in 1 .. k - 1
      BY <1>2, <1>5, <2>3
    <3>2. h[i - 1] \in 1 .. k - 1
      BY <3>1
    <3>3. ~ (i <= n) /\ i # n + 1
      BY <1>5, <2>3
    <3> QED BY <1>2, <3>2, <3>3
  <2> QED BY <1>5, <2>1, <2>2, <2>3
<1>10. ASSUME NEW j \in 1 .. k PROVE \E i \in 1 .. k : g[i] = j
  <2>1. CASE j = k
    <3>1. n + 1 \in 1 .. k /\ g[n + 1] = k
      BY <1>2, <1>5
    <3> QED BY <2>1, <3>1
  <2>2. CASE j # k
    <3>1. PICK i \in 1 .. k - 1 : h[i] = j
      BY <1>1, <2>2
    <3>2. CASE i <= n
      <4>1. i \in 1 .. k /\ g[i] = j
        BY <3>1, <3>2
      <4> QED BY <4>1
    <3>3. CASE i > n
      <4>1. i + 1 \in 1 .. k /\ g[i + 1] = j
        BY <1>2, <1>5, <3>1, <3>3
      <4> QED BY <4>1
    <3> QED BY <1>5, <3>2, <3>3
  <2> QED BY <2>1, <2>2
<1>12. ASSUME NEW i \in 1 .. k - 1, NEW j \in 1 .. k - 1, i < j
       PROVE  \/ Index(sorted[i]) < Index(sorted[j])
              \/ Index(sorted[i]) = Index(sorted[j]) /\ h[i] < h[j]
  BY <1>1, <1>12
<1>13. ASSUME NEW i \in 1 .. k
       PROVE  /\ i <= n => next[i] = sorted[i] /\ g[i] = h[i] /\ i \in 1 .. k - 1
              /\ i = n + 1 => next[i] = a /\ g[i] = k
              /\ i > n + 1 => next[i] = sorted[i - 1] /\ g[i] = h[i - 1] /\ i - 1 \in 1 .. k - 1
  BY <1>2, <1>5, <1>6
<1> HIDE DEF g
<1>9. ASSUME NEW i \in 1 .. k PROVE next[i] = addrs[g[i]]
  <2>1. CASE i <= n
    BY <1>1, <1>13, <2>1
  <2>2. CASE i = n + 1
    BY <1>13, <2>2 DEF a
  <2>3. CASE i > n + 1
    <3>1. next[i] = sorted[i - 1] /\ g[i] = h[i - 1] /\ i - 1 \in 1 .. k - 1
      BY <1>13, <2>3
    <3> DEFINE j == i - 1
    <3>2. sorted[j] = addrs[h[j]]
      <4> HIDE DEF j
      <4> QED BY <1>1, <3>1 DEF j
    <3> QED BY <3>1, <3>2
  <2> QED BY <1>5, <2>1, <2>2, <2>3
<1>11. ASSUME NEW i \in 1 .. k, NEW j \in 1 .. k, i < j
       PROVE  \/ Index(next[i]) < Index(next[j])
              \/ Index(next[i]) = Index(next[j]) /\ g[i] < g[j]
  <2>1. CASE j <= n
    <3>1. i <= n
      BY <1>5, <1>11, <2>1
    <3> QED BY <1>11, <1>12, <1>13, <2>1, <3>1, SMTT(30)
  <2>2. CASE j = n + 1
    <3>1. /\ next[i] = sorted[i] /\ next[j] = a /\ g[i] = h[i] /\ g[j] = k
          /\ i \in 1 .. k - 1 /\ i <= n /\ n \in 1 .. k - 1 /\ n > 0
      <4>1. i <= n /\ n > 0
        BY <1>5, <1>11, <2>2
      <4>2. next[i] = sorted[i] /\ g[i] = h[i] /\ i \in 1 .. k - 1
        BY <1>13, <4>1, Zenon
      <4>3. next[j] = a /\ g[j] = k
        BY <1>13, <2>2, Zenon
      <4>4. n \in 1 .. k - 1
        BY <1>5, <4>1
      <4> QED BY <4>1, <4>2, <4>3, <4>4
    <3>2. h[i] < k
      BY <1>2, <3>1
    <3>3. Index(sorted[i]) <= Index(sorted[n])
      <4>1. CASE i = n
        BY <1>4, <4>1
      <4>2. CASE i < n
        <5>1. Index(sorted[i]) < Index(sorted[n]) \/ Index(sorted[i]) = Index(sorted[n])
          BY <1>12, <3>1, <4>2
        <5> QED BY <1>4, <5>1
      <4> QED BY <3>1, <4>1, <4>2
    <3>4. Index(sorted[i]) <= Index(a)
      BY <1>4, <1>5, <3>1, <3>3
    <3> QED BY <1>4, <3>1, <3>2, <3>4
  <2>3. CASE i = n + 1
    <3>1. next[i] = a /\ next[j] = sorted[j - 1] /\ j - 1 \in n + 1 .. k - 1
      BY <1>5, <1>11, <1>13, <2>3
    <3> QED BY <1>4, <1>5, <3>1
  <2>4. CASE i <= n /\ j > n + 1
    <3>1. /\ next[i] = sorted[i] /\ next[j] = sorted[j - 1] /\ g[i] = h[i] /\ g[j] = h[j - 1]
          /\ i \in 1 .. k - 1 /\ j - 1 \in 1 .. k - 1 /\ i < j - 1
      <4>1. next[i] = sorted[i] /\ g[i] = h[i] /\ i \in 1 .. k - 1
        BY <1>13, <2>4, Zenon
      <4>2. next[j] = sorted[j - 1] /\ g[j] = h[j - 1] /\ j - 1 \in 1 .. k - 1
        BY <1>13, <2>4, Zenon
      <4>3. i < j - 1
        BY <1>5, <2>4
      <4> QED BY <4>1, <4>2, <4>3
    <3> QED BY <1>12, <3>1
  <2>5. CASE i > n + 1
    <3>1. j > n + 1 /\ i - 1 < j - 1
      BY <1>5, <1>11, <2>5
    <3>2. /\ next[i] = sorted[i - 1] /\ next[j] = sorted[j - 1] /\ g[i] = h[i - 1] /\ g[j] = h[j - 1]
          /\ i - 1 \in 1 .. k - 1 /\ j - 1 \in 1 .. k - 1
      BY <1>13, <2>5, <3>1
    <3> QED BY <1>12, <3>1, <3>2
  <2> QED BY <1>5, <1>11, <2>1, <2>2, <2>3, <2>4, <2>5
<1> QED BY <1>7, <1>8, <1>9, <1>10, <1>11 DEF SortedUpTo, a, n, next, Index

(* sort_addresses sorts, and keeps the order of what the list does not     *)
(* tell apart.                                                             *)
LEMMA AddressesAreSorted ==
  ASSUME NEW sortlist \in Seq(SUBSET Address), NEW addrs \in Seq(Address)
  PROVE  SortsStably(addrs, sortlist)
<1> DEFINE n == Len(addrs)
           Put(x, k) == Inserted(x, addrs[k], Place(x, addrs[k], sortlist))
           IsRun(t) == t = [k \in 0 .. n |-> IF k = 0 THEN <<>> ELSE Put(t[k - 1], k)]
<1>1. n \in Nat /\ DOMAIN addrs = 1 .. n
  BY LenProperties
<1>2. ASSUME NEW x \in Seq(Address), NEW k \in 1 .. n PROVE Put(x, k) \in Seq(Address)
  <2> DEFINE m == Place(x, addrs[k], sortlist)
  <2>1. Len(x) \in Nat /\ addrs[k] \in Address /\ x \in [1 .. Len(x) -> Address]
    BY LenProperties
  <2>2. m \in 0 .. Len(x)
    BY <2>1, PlaceIs
  <2> HIDE DEF m
  <2>3. Inserted(x, addrs[k], m) \in [1 .. Len(x) + 1 -> Address]
    BY <2>1, <2>2 DEF Inserted
  <2>4. Len(x) + 1 \in Nat
    BY <2>1
  <2> QED BY <2>3, <2>4, FunctionIsSeq DEF m
<1> HIDE DEF Put
<1>3. \E t : IsRun(t)
  <2> DEFINE S == Seq(Address)
             step == [k \in 1 .. n |-> [x \in S |-> Put(x, k)]]
             s == <<>>
  <2>2. s \in S /\ \A x \in S, k \in 1 .. n : Put(x, k) \in S
    BY <1>2
  <2> HIDE DEF S, s, n
  <2>1. step \in [1 .. n -> [S -> S]]
    BY <2>2
  <2>3. \A k \in 1 .. n, x \in S : step[k][x] = Put(x, k)
    OBVIOUS
  <2> HIDE DEF step
  <2>4. PICK t \in [0 .. n -> S] : t[0] = s /\ \A k \in 1 .. n : t[k] = step[k][t[k - 1]]
    <3>1. n \in Nat
      BY <1>1
    <3>2. s \in S
      BY <2>2
    <3>3. \E t : IsRunOf(t, n, S, s, step)
      BY <2>1, <3>1, <3>2, StatesExist
    <3> QED BY <3>3 DEF IsRunOf
  <2>5. ASSUME NEW k \in 0 .. n PROVE t[k] = IF k = 0 THEN <<>> ELSE Put(t[k - 1], k)
    BY <1>1, <2>3, <2>4 DEF s
  <2>6. IsRun(t)
    BY <2>4, <2>5 DEF n
  <2> HIDE DEF IsRun
  <2> QED BY <2>6
<1> DEFINE t == CHOOSE t : IsRun(t)
<1>6. SortAddresses(addrs, sortlist) = t[n]
  BY DEF SortAddresses, Put
<1>7. IsRun(t)
  <2> HIDE DEF IsRun
  <2> QED BY <1>3
<1> HIDE DEF t
<1>8. t[0] = <<>> /\ \A k \in 1 .. n : t[k] = Put(t[k - 1], k)
  <2>1. \A k \in 0 .. n : t[k] = IF k = 0 THEN <<>> ELSE Put(t[k - 1], k)
    BY <1>7, Zenon
  <2>2. 0 \in 0 .. n /\ \A k \in 1 .. n : k \in 0 .. n /\ k # 0
    BY <1>1
  <2> QED BY <2>1, <2>2, Zenon
<1> USE DEF Put
<1>4. SortedUpTo(t[n], addrs, n, sortlist)
  <2> DEFINE K == {k \in 0 .. n : SortedUpTo(t[k], addrs, k, sortlist)}
  <2>1. 0 \in K
    <3>1. t[0] \in [1 .. 0 -> Address] /\ [i \in 1 .. 0 |-> i] \in [1 .. 0 -> 1 .. 0]
      BY <1>8
    <3> QED BY <1>1, <3>1 DEF SortedUpTo
  <2>2. ASSUME NEW k \in 1 .. n, k - 1 \in K PROVE k \in K
    BY <1>8, <2>2, InsertedKeeps
  <2> HIDE DEF K
  <2>3. 0 .. n \subseteq K
    BY <1>1, <2>1, <2>2, CountsUp
  <2>4. n \in K
    BY <1>1, <2>3
  <2> QED BY <2>4 DEF K
<1> HIDE DEF n, Put, IsRun
<1>5. t[n] \in [1 .. n -> Address]
  BY <1>4 DEF SortedUpTo
<1> DEFINE sorted == SortAddresses(addrs, sortlist)
<1>10. DOMAIN sorted = DOMAIN addrs
  BY <1>1, <1>5, <1>6
<1>9. SortedUpTo(sorted, addrs, n, sortlist)
  BY <1>4, <1>6
<1> HIDE DEF sorted
<1>11. \E h \in [1 .. n -> 1 .. n] :
         /\ \A i \in 1 .. n : sorted[i] = addrs[h[i]]
         /\ \A k \in 1 .. n : \E i \in 1 .. n : h[i] = k
         /\ \A i, j \in 1 .. n :
              i < j =>
                \/ AddressIndex(sorted[i], sortlist) < AddressIndex(sorted[j], sortlist)
                \/ AddressIndex(sorted[i], sortlist) = AddressIndex(sorted[j], sortlist) /\ h[i] < h[j]
  BY <1>9, Zenon DEF SortedUpTo
<1> QED
  BY <1>1, <1>10, <1>11, Zenon DEF SortsStably, sorted
-----------------------------------------------------------------------------
(* What parsing a reply keeps while it goes through the records.           *)
Reply == [question : Name, rrs : Seq(Record)]

Parse == [hostname : Name, aliases : Seq(Name), addrs : Seq(Address)]

IsParse(t, type, r) ==
  /\ t \in [0 .. Len(r.rrs) -> Parse]
  /\ t[0] = [hostname |-> r.question, aliases |-> <<>>, addrs |-> <<>>]
  /\ \A k \in 1 .. Len(r.rrs) : t[k] = AddressRecord(type, t[k - 1], r.rrs[k])

LEMMA RecordIsRead ==
  ASSUME NEW type \in {"A", "AAAA"}, NEW x \in Parse, NEW rr \in Record
  PROVE  LET y == AddressRecord(type, x, rr)
         IN /\ y \in Parse
            /\ rr.type = type /\ rr.owner = x.hostname =>
                 /\ y.hostname = x.hostname /\ y.aliases = x.aliases
                 /\ y.addrs = Append(x.addrs, rr.data)
            /\ rr.type = "CNAME" =>
                 /\ y.hostname = rr.data /\ y.aliases = Append(x.aliases, rr.owner)
                 /\ y.addrs = x.addrs
            /\ ~ (rr.type = type /\ rr.owner = x.hostname) /\ rr.type # "CNAME" => y = x
<1>1. CASE rr.type = type /\ rr.owner = x.hostname
  <2>1. rr.type # "CNAME" /\ rr.data \in Address
    BY <1>1 DEF Record
  <2>2. AddressRecord(type, x, rr) = [x EXCEPT !.addrs = Append(@, rr.data)]
    BY <1>1 DEF AddressRecord
  <2>3. Append(x.addrs, rr.data) \in Seq(Address)
    BY <2>1, AppendProperties DEF Parse
  <2> QED BY <1>1, <2>1, <2>2, <2>3 DEF Parse
<1>2. CASE rr.type = "CNAME"
  <2>1. rr.type # type /\ rr.data \in Name /\ rr.owner \in Name
    BY <1>2 DEF Record
  <2>2. AddressRecord(type, x, rr)
          = [x EXCEPT !.aliases = Append(@, rr.owner), !.hostname = rr.data]
    BY <1>2, <2>1 DEF AddressRecord
  <2>3. Append(x.aliases, rr.owner) \in Seq(Name)
    BY <2>1, AppendProperties DEF Parse
  <2> QED BY <1>2, <2>1, <2>2, <2>3 DEF Parse
<1>3. CASE ~ (rr.type = type /\ rr.owner = x.hostname) /\ rr.type # "CNAME"
  BY <1>3 DEF AddressRecord
<1> QED BY <1>1, <1>2, <1>3

LEMMA ParseExists ==
  ASSUME NEW type \in {"A", "AAAA"}, NEW r \in Reply
  PROVE  \E t : IsParse(t, type, r) /\ AddressRecords(type, r) = t[Len(r.rrs)]
<1> DEFINE n == Len(r.rrs)
           s == [hostname |-> r.question, aliases |-> <<>>, addrs |-> <<>>]
           Put(x, k) == AddressRecord(type, x, r.rrs[k])
           IsRun(t) == t = [k \in 0 .. n |-> IF k = 0 THEN s ELSE Put(t[k - 1], k)]
<1>1. n \in Nat /\ \A k \in 1 .. n : r.rrs[k] \in Record
  BY LenProperties DEF Reply
<1>2. s \in Parse
  BY EmptySeq DEF Reply, Parse
<1>3. \A x \in Parse, k \in 1 .. n : Put(x, k) \in Parse
  BY <1>1, RecordIsRead
<1> HIDE DEF n, s, Put
<1> DEFINE step == [k \in 1 .. n |-> [x \in Parse |-> Put(x, k)]]
<1>4. step \in [1 .. n -> [Parse -> Parse]]
  BY <1>3
<1>5. \A k \in 1 .. n, x \in Parse : step[k][x] = Put(x, k)
  OBVIOUS
<1> HIDE DEF step
<1>6. \E t : IsRunOf(t, n, Parse, s, step)
  BY <1>1, <1>2, <1>4, StatesExist
<1>7. ASSUME NEW t, IsRunOf(t, n, Parse, s, step) PROVE IsRun(t)
  <2>1. /\ t \in [0 .. n -> Parse] /\ t[0] = s
        /\ \A k \in 1 .. n : t[k] = step[k][t[k - 1]]
    BY <1>7 DEF IsRunOf
  <2>2. ASSUME NEW k \in 0 .. n PROVE t[k] = IF k = 0 THEN s ELSE Put(t[k - 1], k)
    BY <1>1, <1>5, <2>1
  <2> QED BY <2>1, <2>2
<1> DEFINE t == CHOOSE t : IsRun(t)
<1>8. AddressRecords(type, r) = t[n]
  BY DEF AddressRecords, n, s, Put
<1>9. IsRun(t)
  <2> HIDE DEF IsRun
  <2> QED BY <1>6, <1>7
<1> HIDE DEF t
<1>10. DOMAIN t = 0 .. n /\ t[0] = s /\ \A k \in 1 .. n : t[k] = Put(t[k - 1], k)
  <2>1. DOMAIN t = 0 .. n /\ \A k \in 0 .. n : t[k] = IF k = 0 THEN s ELSE Put(t[k - 1], k)
    BY <1>9, Zenon
  <2>2. 0 \in 0 .. n /\ \A k \in 1 .. n : k \in 0 .. n /\ k # 0
    BY <1>1
  <2> QED BY <2>1, <2>2, Zenon
<1>11. t \in [0 .. n -> Parse]
  <2> DEFINE K == {k \in 0 .. n : t[k] \in Parse}
  <2>1. 0 \in K
    BY <1>1, <1>2, <1>10
  <2>2. ASSUME NEW k \in 1 .. n, k - 1 \in K PROVE k \in K
    <3>1. t[k - 1] \in Parse
      BY <2>2, Zenon
    <3>2. t[k] \in Parse
      BY <1>3, <1>10, <3>1, Zenon
    <3>3. k \in 0 .. n
      BY <1>1
    <3> QED BY <3>2, <3>3, Zenon
  <2> HIDE DEF K
  <2>3. 0 .. n \subseteq K
    BY <1>1, <2>1, <2>2, CountsUp
  <2>4. t = [k \in 0 .. n |-> t[k]]
    BY <1>9, Zenon
  <2>5. \A k \in 0 .. n : t[k] \in Parse
    BY <2>3 DEF K
  <2> QED BY <2>4, <2>5
<1> QED BY <1>8, <1>10, <1>11 DEF IsParse, n, s, Put

(* The next of the records is one of these, or is none of them.            *)
LEMMA DataIsAdded ==
  ASSUME NEW addrs \in Seq(Address), NEW rrs, NEW k \in Nat, NEW these, these \subseteq 1 .. k,
         rrs[k + 1].data \in Address, HasData(addrs, rrs, these)
  PROVE  HasData(Append(addrs, rrs[k + 1].data), rrs, these \cup {k + 1})
<1> DEFINE next == Append(addrs, rrs[k + 1].data)
           n == Len(addrs)
<1>1. PICK h \in [DOMAIN addrs -> these] :
        /\ \A i, j \in DOMAIN addrs : i < j => h[i] < h[j]
        /\ \A l \in these : \E i \in DOMAIN addrs : h[i] = l
        /\ \A i \in DOMAIN addrs : addrs[i] = rrs[h[i]].data
  BY DEF HasData
<1>2. n \in Nat /\ DOMAIN addrs = 1 .. n
  BY LenProperties
<1>3. /\ next \in Seq(Address) /\ DOMAIN next = 1 .. n + 1 /\ next[n + 1] = rrs[k + 1].data
      /\ \A i \in 1 .. n : next[i] = addrs[i]
  BY AppendProperties, LenProperties
<1> HIDE DEF next, n
<1> DEFINE g == [i \in 1 .. n + 1 |-> IF i = n + 1 THEN k + 1 ELSE h[i]]
<1>4. \A i \in 1 .. n : i \in 1 .. n + 1 /\ i # n + 1 /\ g[i] = h[i] /\ h[i] \in these
  BY <1>1, <1>2
<1>5. n + 1 \in 1 .. n + 1 /\ g[n + 1] = k + 1 /\ \A i \in 1 .. n + 1 : i # n + 1 => i \in 1 .. n
  BY <1>2
<1>6. g \in [1 .. n + 1 -> these \cup {k + 1}]
  BY <1>1, <1>2
<1> HIDE DEF g
<1>7. ASSUME NEW i \in 1 .. n + 1, NEW j \in 1 .. n + 1, i < j PROVE g[i] < g[j]
  <2>1. i \in 1 .. n
    BY <1>2, <1>7
  <2>2. CASE j = n + 1
    <3>1. g[i] \in 1 .. k /\ g[j] = k + 1
      BY <1>4, <1>5, <2>1, <2>2
    <3> QED BY <3>1
  <2>3. CASE j # n + 1
    <3>1. j \in 1 .. n
      BY <1>5, <2>3
    <3>2. h[i] < h[j]
      BY <1>1, <1>2, <1>7, <2>1, <3>1
    <3> QED BY <1>4, <2>1, <3>1, <3>2
  <2> QED BY <2>2, <2>3
<1>8. ASSUME NEW l \in these \cup {k + 1} PROVE \E i \in 1 .. n + 1 : g[i] = l
  <2>1. CASE l = k + 1
    BY <1>5, <2>1
  <2>2. CASE l \in these
    <3>1. PICK i \in 1 .. n : h[i] = l
      BY <1>1, <1>2, <2>2
    <3> QED BY <1>4, <3>1
  <2> QED BY <2>1, <2>2
<1>9. ASSUME NEW i \in 1 .. n + 1 PROVE next[i] = rrs[g[i]].data
  <2>1. CASE i = n + 1
    BY <1>3, <1>5, <2>1
  <2>2. CASE i # n + 1
    <3>1. i \in 1 .. n
      BY <1>5, <2>2
    <3>2. next[i] = addrs[i] /\ g[i] = h[i]
      BY <1>3, <1>4, <3>1
    <3>3. addrs[i] = rrs[h[i]].data
      BY <1>1, <1>2, <3>1
    <3> QED BY <3>2, <3>3
  <2> QED BY <2>1, <2>2
<1> DEFINE all == these \cup {k + 1}
<1>10. /\ g \in [DOMAIN next -> all]
       /\ \A i, j \in DOMAIN next : i < j => g[i] < g[j]
       /\ \A l \in all : \E i \in DOMAIN next : g[i] = l
       /\ \A i \in DOMAIN next : next[i] = rrs[g[i]].data
  <2>1. g \in [DOMAIN next -> all]
    BY <1>3, <1>6
  <2> HIDE DEF all
  <2>2. \A l \in all : \E i \in DOMAIN next : g[i] = l
    BY <1>3, <1>8, Zenon DEF all
  <2>3. \A i \in DOMAIN next : next[i] = rrs[g[i]].data
    BY <1>3, <1>9, Zenon
  <2>4. \A i, j \in DOMAIN next : i < j => g[i] < g[j]
    BY <1>3, <1>7, Zenon
  <2> QED BY <2>1, <2>2, <2>3, <2>4
<1> HIDE DEF all
<1>11. HasData(next, rrs, all)
  BY <1>10, Zenon DEF HasData
<1> QED BY <1>11 DEF next, all

LEMMA HasNoData ==
  ASSUME NEW rrs, NEW these, NEW addrs \in Seq(Address), HasData(addrs, rrs, these)
  PROVE  addrs = <<>> <=> these = {}
<1>1. PICK h \in [DOMAIN addrs -> these] : \A k \in these : \E i \in DOMAIN addrs : h[i] = k
  BY DEF HasData
<1>2. Len(addrs) \in Nat /\ DOMAIN addrs = 1 .. Len(addrs) /\ (addrs = <<>> <=> Len(addrs) = 0)
  BY LenProperties, EmptySeq
<1>3. ASSUME these = {} PROVE Len(addrs) = 0
  <2>1. DOMAIN addrs = {}
    BY <1>1, <1>3
  <2> QED BY <1>2, <2>1
<1>4. ASSUME Len(addrs) = 0 PROVE these = {}
  <2>1. DOMAIN addrs = {}
    BY <1>2, <1>4
  <2> QED BY <1>1, <2>1
<1> QED BY <1>2, <1>3, <1>4
-----------------------------------------------------------------------------
(* What the records tell, of which m lead to the name that has addresses,  *)
(* and the first k have been read.                                         *)
Matching(type, r, m, k) ==
  {i \in 1 .. k : r.rrs[i].type = type /\ r.rrs[i].owner = Canonical(r, m)}

HasRead(type, r, m, k, x) ==
  LET c == IF k <= m THEN k ELSE m
  IN /\ x.hostname = Canonical(r, c)
     /\ x.aliases = [i \in 1 .. c |-> r.rrs[i].owner]
     /\ HasData(x.addrs, r.rrs, Matching(type, r, m, k))

LEMMA ReadsRecords ==
  ASSUME NEW type \in {"A", "AAAA"}, NEW r \in Reply, NEW m \in 0 .. Len(r.rrs), Leads(r, m),
         NEW t, IsParse(t, type, r)
  PROVE  HasRead(type, r, m, Len(r.rrs), t[Len(r.rrs)])
<1> DEFINE n == Len(r.rrs)
           K == {k \in 0 .. n : HasRead(type, r, m, k, t[k])}
<1>1. n \in Nat /\ DOMAIN r.rrs = 1 .. n /\ \A k \in 1 .. n : r.rrs[k] \in Record
  BY LenProperties DEF Reply
<1>2. \A i \in 1 .. n : r.rrs[i].type = "CNAME" <=> i <= m
  BY <1>1 DEF Leads
<1>3. /\ \A k \in 0 .. n : t[k] \in Parse
      /\ t[0] = [hostname |-> r.question, aliases |-> <<>>, addrs |-> <<>>]
      /\ \A k \in 1 .. n : t[k] = AddressRecord(type, t[k - 1], r.rrs[k])
  BY DEF IsParse
<1>4. 0 \in K
  <2>1. t[0].hostname = Canonical(r, 0) /\ t[0].aliases = [i \in 1 .. 0 |-> r.rrs[i].owner]
    BY <1>3 DEF Canonical
  <2>2. HasData(t[0].addrs, r.rrs, {})
    <3>1. [i \in {} |-> i] \in [DOMAIN t[0].addrs -> {}]
      BY <1>3
    <3>2. DOMAIN t[0].addrs = {}
      BY <1>3
    <3> QED BY <3>1, <3>2 DEF HasData
  <2>3. Matching(type, r, m, 0) = {}
    BY DEF Matching
  <2>4. 0 <= m /\ 0 \in 0 .. n
    BY <1>1
  <2>5. HasRead(type, r, m, 0, t[0])
    BY <2>1, <2>2, <2>3, <2>4, Zenon DEF HasRead
  <2> QED BY <2>4, <2>5
<1>5. ASSUME NEW k \in 1 .. n, k - 1 \in K PROVE k \in K
  <2> DEFINE x == t[k - 1]
             y == t[k]
             rr == r.rrs[k]
             c == IF k - 1 <= m THEN k - 1 ELSE m
             d == IF k <= m THEN k ELSE m
             old == Matching(type, r, m, k - 1)
             new == Matching(type, r, m, k)
  <2>1. /\ x \in Parse /\ rr \in Record /\ y = AddressRecord(type, x, rr)
        /\ m \in Nat /\ k \in Nat /\ k - 1 \in Nat
    BY <1>1, <1>3
  <2>2. /\ x.hostname = Canonical(r, c)
        /\ x.aliases = [i \in 1 .. c |-> r.rrs[i].owner]
        /\ HasData(x.addrs, r.rrs, old)
    BY <1>5 DEF HasRead
  <2>3. /\ rr.type = type /\ rr.owner = Canonical(r, m) => new = old \cup {k}
        /\ ~ (rr.type = type /\ rr.owner = Canonical(r, m)) => new = old
    BY <2>1 DEF Matching
  <2>4. rr.type = "CNAME" <=> k <= m
    BY <1>2
  <2> HIDE DEF x, y, K
  <2>5. /\ y.hostname = Canonical(r, d)
        /\ y.aliases = [i \in 1 .. d |-> r.rrs[i].owner]
        /\ HasData(y.addrs, r.rrs, new)
    <3>1. CASE k <= m
      <4>1. /\ y.hostname = rr.data /\ y.aliases = Append(x.aliases, rr.owner)
            /\ y.addrs = x.addrs
        BY <2>1, <2>4, <3>1, RecordIsRead
      <4>2. d = k /\ c = k - 1 /\ Canonical(r, k) = rr.data
        BY <2>1, <3>1 DEF Canonical
      <4>3. y.aliases = [i \in 1 .. k |-> r.rrs[i].owner]
        <5> DEFINE aliases == [i \in 1 .. k |-> r.rrs[i].owner]
        <5>1. \A i \in 1 .. k : r.rrs[i].owner \in Name
          <6>1. \A q \in Record : q.owner \in Name
            BY DEF Record
          <6>2. \A i \in 1 .. k : i \in 1 .. n
            BY <1>1
          <6> QED BY <1>1, <6>1, <6>2, Zenon
        <5>2. aliases \in [1 .. k -> Name] /\ x.aliases \in Seq(Name) /\ rr.owner \in Name
          BY <2>1, <5>1 DEF Parse
        <5>3. Len(x.aliases) = k - 1
          BY <2>1, <2>2, <4>2, FunctionIsSeq, <5>1
        <5>4. aliases[k] = rr.owner /\ \A i \in 1 .. k - 1 : aliases[i] = x.aliases[i]
          BY <2>1, <2>2, <4>2
        <5> HIDE DEF aliases, rr
        <5>5. aliases \in Seq(Name) /\ Len(aliases) = k
          BY <2>1, <5>2, FunctionIsSeq
        <5>6. aliases = Append(x.aliases, rr.owner)
          BY <2>1, <5>2, <5>3, <5>4, <5>5, IsAppend
        <5> QED BY <4>1, <5>6 DEF aliases
      <4>4. new = old
        BY <2>3, <2>4, <3>1
      <4> QED BY <2>2, <4>1, <4>2, <4>3, <4>4
    <3>2. CASE k > m
      <4>1. rr.type # "CNAME" /\ c = m /\ d = m
        BY <2>1, <2>4, <3>2
      <4>2. CASE rr.type = type /\ rr.owner = Canonical(r, m)
        <5>1. /\ y.hostname = x.hostname /\ y.aliases = x.aliases
              /\ y.addrs = Append(x.addrs, rr.data)
          <6>1. rr.type = type /\ rr.owner = x.hostname
            BY <2>2, <4>1, <4>2
          <6> HIDE DEF rr
          <6> QED BY <2>1, <6>1, RecordIsRead, SMTT(30)
        <5>2. rr.data \in Address /\ x.addrs \in Seq(Address)
          BY <2>1, <4>1 DEF Record, Parse
        <5>3. HasData(Append(x.addrs, rr.data), r.rrs, old \cup {k})
          <6>1. old \subseteq 1 .. k - 1 /\ k - 1 + 1 = k
            BY <2>1 DEF Matching
          <6> HIDE DEF old
          <6> DEFINE j == k - 1
          <6>2. j \in Nat /\ j + 1 = k
            BY <2>1
          <6> HIDE DEF j
          <6>3. r.rrs[j + 1].data \in Address
            BY <5>2, <6>2
          <6>4. old \subseteq 1 .. j
            BY <6>1 DEF j
          <6>5. HasData(Append(x.addrs, r.rrs[j + 1].data), r.rrs, old \cup {j + 1})
            BY <2>2, <5>2, <6>2, <6>3, <6>4, DataIsAdded
          <6> QED BY <6>2, <6>5
        <5> QED BY <2>2, <2>3, <4>1, <4>2, <5>1, <5>3
      <4>3. CASE ~ (rr.type = type /\ rr.owner = Canonical(r, m))
        <5>1. y = x
          BY <2>1, <2>2, <4>1, <4>3, RecordIsRead
        <5> QED BY <2>2, <2>3, <4>1, <4>3, <5>1
      <4> QED BY <4>2, <4>3
    <3> QED BY <2>1, <3>1, <3>2
  <2> QED BY <2>1, <2>5 DEF HasRead, y, K
<1> HIDE DEF K
<1>6. 0 .. n \subseteq K
  BY <1>1, <1>4, <1>5, CountsUp
<1>7. n \in K
  BY <1>1, <1>6
<1> QED BY <1>7 DEF K

LEMMA AddressesAreFound ==
  ASSUME NEW type \in {"A", "AAAA"}, NEW r \in Reply
  PROVE  FindsAddresses(type, r)
<1> DEFINE n == Len(r.rrs)
<1>1. n \in Nat /\ DOMAIN r.rrs = 1 .. n
  BY LenProperties DEF Reply
<1>2. PICK t : IsParse(t, type, r) /\ AddressRecords(type, r) = t[n]
  BY ParseExists
<1> DEFINE x == t[n]
           parsed == ParseAddressReply(type, r)
<1>3. x \in Parse
  BY <1>1, <1>2 DEF IsParse
<1> SUFFICES ASSUME NEW m \in 0 .. n, Whole(r.rrs), Leads(r, m)
             PROVE  LET these == {i \in DOMAIN r.rrs :
                                    r.rrs[i].type = type /\ r.rrs[i].owner = Canonical(r, m)}
                    IN IF these = {} /\ (type = "AAAA" \/ m = 0) THEN parsed = Failed("ENODATA")
                       ELSE /\ parsed.status = "SUCCESS"
                            /\ parsed.host =
                                 Host(Canonical(r, m), [i \in 1 .. m |-> r.rrs[i].owner],
                                      FamilyOf(type), parsed.host.h_addr_list)
                            /\ HasData(parsed.host.h_addr_list, r.rrs, these)
  BY Zenon DEF FindsAddresses
<1> DEFINE these == Matching(type, r, m, n)
           aliases == [i \in 1 .. m |-> r.rrs[i].owner]
<1>4. HasRead(type, r, m, n, x)
  BY <1>2, ReadsRecords
<1>5. m = (IF n <= m THEN n ELSE m)
  BY <1>1
<1>6. x.hostname = Canonical(r, m) /\ x.aliases = aliases /\ HasData(x.addrs, r.rrs, these)
  BY <1>4, <1>5 DEF HasRead
<1>7. x.addrs = <<>> <=> these = {}
  BY <1>3, <1>6, HasNoData DEF Parse
<1>8. x.aliases = <<>> <=> m = 0
  <2>1. CASE m = 0
    BY <1>6, <2>1
  <2>2. CASE m # 0
    <3>1. 1 \in DOMAIN aliases
      BY <1>1, <2>2
    <3> QED BY <1>6, <2>2, <3>1
  <2> QED BY <2>1, <2>2
<1>9. these = {i \in DOMAIN r.rrs : r.rrs[i].type = type /\ r.rrs[i].owner = Canonical(r, m)}
  BY <1>1 DEF Matching
<1>10. parsed = IF x.addrs = <<>> /\ (x.aliases = <<>> \/ type = "AAAA") THEN Failed("ENODATA")
                ELSE Found(Host(x.hostname, x.aliases, FamilyOf(type), x.addrs))
  BY <1>2 DEF ParseAddressReply
<1> HIDE DEF these, x, parsed, aliases
<1>11. CASE these = {} /\ (type = "AAAA" \/ m = 0)
  BY <1>7, <1>8, <1>9, <1>10, <1>11
<1>12. CASE ~ (these = {} /\ (type = "AAAA" \/ m = 0))
  <2>1. parsed = Found(Host(x.hostname, x.aliases, FamilyOf(type), x.addrs))
    BY <1>7, <1>8, <1>10, <1>12
  <2>2. /\ parsed.status = "SUCCESS"
        /\ parsed.host = Host(x.hostname, x.aliases, FamilyOf(type), x.addrs)
    BY <2>1 DEF Found
  <2>3. parsed.host.h_addr_list = x.addrs
    BY <2>2 DEF Host
  <2> QED BY <1>6, <1>9, <1>12, <2>2, <2>3, Zenon DEF aliases
<1> QED BY <1>11, <1>12

(* What has been found is of the addresses that records hold.              *)
LEMMA FoundAreAddresses ==
  ASSUME NEW type \in {"A", "AAAA"}, NEW r \in Reply, ParseAddressReply(type, r).status = "SUCCESS"
  PROVE  ParseAddressReply(type, r).host.h_addr_list \in Seq(Address)
<1> DEFINE n == Len(r.rrs)
<1>1. n \in Nat
  BY LenProperties DEF Reply
<1>2. PICK t : IsParse(t, type, r) /\ AddressRecords(type, r) = t[n]
  BY ParseExists
<1> DEFINE x == t[n]
           parsed == ParseAddressReply(type, r)
<1>3. x.addrs \in Seq(Address)
  BY <1>1, <1>2 DEF IsParse, Parse
<1>4. \/ parsed = Failed("EBADRESP")
      \/ parsed = Failed("ENODATA")
      \/ parsed = Found(Host(x.hostname, x.aliases, FamilyOf(type), x.addrs))
  BY <1>2 DEF ParseAddressReply
<1> HIDE DEF parsed, x
<1>5. parsed.status = "SUCCESS"
  BY DEF parsed
<1>6. parsed = Found(Host(x.hostname, x.aliases, FamilyOf(type), x.addrs))
  BY <1>4, <1>5 DEF Failed
<1>7. parsed.host.h_addr_list = x.addrs
  BY <1>6 DEF Found, Host
<1> QED BY <1>3, <1>7 DEF parsed

(* ares_parse_a_reply, ares_parse_aaaa_reply and sort_addresses: from      *)
(* every reply of a conforming server the addresses of the last alias are  *)
(* taken, all and no other, and any sort list orders them stably.          *)
THEOREM AliasesAreFollowed == ReplySpec => []FollowsAliases
<1> DEFINE Inv == reply \in Reply
<1>1. InitReply => Inv
  BY ReplyAssumption, EmptySeq DEF InitReply, Reply
<1>2. ASSUME Inv, [ReplyStep]_reply PROVE Inv'
  <2>1. CASE Answer
    <3>1. PICK rr \in Record : reply' = [reply EXCEPT !.rrs = Append(@, rr)]
      BY <2>1 DEF Answer
    <3>2. Append(reply.rrs, rr) \in Seq(Record)
      BY <1>2, AppendProperties DEF Reply
    <3> QED BY <1>2, <3>1, <3>2 DEF Reply
  <2>2. CASE AskAgain
    BY <1>2, <2>2, EmptySeq DEF AskAgain, Reply
  <2>3. CASE UNCHANGED reply
    BY <1>2, <2>3
  <2> QED BY <1>2, <2>1, <2>2, <2>3 DEF ReplyStep
<1>3. ASSUME Inv PROVE FollowsAliases
  <2>1. ASSUME NEW type \in {"A", "AAAA"} PROVE FindsAddresses(type, reply)
    BY <1>3, <2>1, AddressesAreFound
  <2>2. ASSUME NEW type \in {"A", "AAAA"}, ParseAddressReply(type, reply).status = "SUCCESS",
               NEW sortlist \in SortLists
        PROVE  SortsStably(ParseAddressReply(type, reply).host.h_addr_list, sortlist)
    <3>1. sortlist \in Seq(SUBSET Address)
      BY ReplyAssumption
    <3>2. ParseAddressReply(type, reply).host.h_addr_list \in Seq(Address)
      BY <1>3, <2>2, FoundAreAddresses
    <3> QED BY <3>1, <3>2, AddressesAreSorted
  <2> QED BY <2>1, <2>2, Zenon DEF FollowsAliases
<1> QED BY <1>1, <1>2, <1>3, PTL DEF ReplySpec
-----------------------------------------------------------------------------
(* Settings.  A channel has each of them.                                  *)
IsChannel(c) == c = [f \in Setting |-> c[f]]

LEMMA InSequence ==
  ASSUME NEW T, NEW x \in Seq(T)
  PROVE  IsSequence(x)
<1>1. Len(x) \in Nat /\ x \in [1 .. Len(x) -> T] /\ DOMAIN x = 1 .. Len(x)
  BY LenProperties
<1> DEFINE n == Len(x)
           S == {x[i] : i \in DOMAIN x}
<1>2. x \in [1 .. n -> S]
  BY <1>1
<1> HIDE DEF S, n
<1>3. x \in Seq(S)
  BY <1>1, <1>2, FunctionIsSeq DEF n
<1> QED BY <1>3 DEF IsSequence, S

LEMMA HasLength ==
  ASSUME NEW x, IsSequence(x)
  PROVE  Len(x) \in Nat /\ DOMAIN x = 1 .. Len(x)
BY LenProperties DEF IsSequence

(* What is picked from a sequence is a sequence of the same things, and    *)
(* all of it if nothing is left out.                                       *)
LEMMA PickedIs ==
  ASSUME NEW T, NEW seq, IsSequence(seq), NEW places,
         \A i \in DOMAIN seq : i \in places => seq[i] \in T
  PROVE  /\ Picked(seq, places) \in Seq(T)
         /\ DOMAIN seq \subseteq places => Picked(seq, places) = seq
<1> DEFINE n == Len(seq)
           Put(x, k) == IF k \in places THEN Append(x, seq[k]) ELSE x
           IsRun(t) == t = [k \in 0 .. n |-> IF k = 0 THEN <<>> ELSE Put(t[k - 1], k)]
           S == Seq(T)
           step == [k \in 1 .. n |-> [x \in S |-> Put(x, k)]]
<1>1. n \in Nat /\ DOMAIN seq = 1 .. n /\ \A k \in 1 .. n : k \in places => seq[k] \in T
  BY HasLength
<1>2. <<>> \in S
  BY EmptySeq
<1>3. \A x \in S, k \in 1 .. n : Put(x, k) \in S
  BY <1>1, AppendProperties
<1>13. seq = [i \in 1 .. n |-> seq[i]]
  BY LenProperties DEF IsSequence
<1> HIDE DEF n, S, Put
<1>4. step \in [1 .. n -> [S -> S]]
  BY <1>3
<1>5. \A k \in 1 .. n, x \in S : step[k][x] = Put(x, k)
  OBVIOUS
<1> HIDE DEF step
<1> DEFINE s == <<>>
<1>14. s \in S
  BY <1>2
<1> HIDE DEF s
<1>6. \E t : IsRunOf(t, n, S, s, step)
  BY <1>1, <1>14, <1>4, StatesExist
<1>7. ASSUME NEW t, IsRunOf(t, n, S, s, step) PROVE IsRun(t)
  <2>1. /\ t \in [0 .. n -> S] /\ t[0] = <<>>
        /\ \A k \in 1 .. n : t[k] = step[k][t[k - 1]]
    BY <1>7 DEF IsRunOf, s
  <2>2. ASSUME NEW k \in 0 .. n PROVE t[k] = IF k = 0 THEN <<>> ELSE Put(t[k - 1], k)
    BY <1>1, <1>5, <2>1
  <2> QED BY <2>1, <2>2
<1> DEFINE t == CHOOSE t : IsRun(t)
<1>8. Picked(seq, places) = t[n]
  BY DEF Picked, n, Put
<1>9. IsRun(t)
  <2> HIDE DEF IsRun
  <2> QED BY <1>6, <1>7
<1> HIDE DEF t
<1>10. t[0] = <<>> /\ \A k \in 1 .. n : t[k] = Put(t[k - 1], k)
  <2>1. \A k \in 0 .. n : t[k] = IF k = 0 THEN <<>> ELSE Put(t[k - 1], k)
    BY <1>9, Zenon
  <2>2. 0 \in 0 .. n /\ \A k \in 1 .. n : k \in 0 .. n /\ k # 0
    BY <1>1
  <2> QED BY <2>1, <2>2, Zenon
<1> HIDE DEF IsRun
<1>11. t[n] \in S
  <2> DEFINE K == {k \in 0 .. n : t[k] \in S}
  <2>1. 0 \in K
    BY <1>1, <1>2, <1>10
  <2>2. ASSUME NEW k \in 1 .. n, k - 1 \in K PROVE k \in K
    BY <1>3, <1>10, <2>2
  <2> HIDE DEF K
  <2>3. 0 .. n \subseteq K
    BY <1>1, <2>1, <2>2, CountsUp
  <2>4. n \in K
    BY <1>1, <2>3
  <2> QED BY <2>4 DEF K
<1>12. ASSUME DOMAIN seq \subseteq places PROVE t[n] = seq
  <2> DEFINE K == {k \in 0 .. n : t[k] = [i \in 1 .. k |-> seq[i]]}
  <2>1. 0 \in K
    BY <1>1, <1>10
  <2>2. ASSUME NEW k \in 1 .. n, k - 1 \in K PROVE k \in K
    <3> DEFINE u == [i \in 1 .. k |-> seq[i]]
               v == [i \in 1 .. k - 1 |-> seq[i]]
    <3>0. k \in places /\ k - 1 \in Nat /\ k \in Nat
      BY <1>1, <1>12
    <3>9. t[k] = Append(t[k - 1], seq[k])
      BY <1>10, <3>0 DEF Put
    <3>1. t[k - 1] = v /\ t[k] = Append(v, seq[k]) /\ k - 1 \in Nat /\ k \in Nat
      BY <2>2, <3>0, <3>9
    <3>2. u \in [1 .. k -> T] /\ v \in [1 .. k - 1 -> T] /\ seq[k] \in T
      <4>1. \A i \in 1 .. k : i \in 1 .. n
        BY <1>1
      <4>2. \A i \in 1 .. k : seq[i] \in T
        BY <1>1, <1>12, <4>1
      <4> QED BY <1>1, <4>2
    <3>3. u[k] = seq[k] /\ \A i \in 1 .. k - 1 : u[i] = v[i]
      BY <3>1
    <3> HIDE DEF u, v
    <3>4. u \in Seq(T) /\ Len(u) = k /\ v \in Seq(T) /\ Len(v) = k - 1
      BY <3>1, <3>2, FunctionIsSeq
    <3>5. u = Append(v, seq[k])
      BY <3>1, <3>2, <3>3, <3>4, IsAppend
    <3>6. t[k] = u
      BY <3>1, <3>5
    <3>7. k \in 0 .. n
      BY <1>1
    <3> QED BY <3>6, <3>7, Zenon DEF u
  <2> HIDE DEF K
  <2>3. 0 .. n \subseteq K
    BY <1>1, <2>1, <2>2, CountsUp
  <2>4. n \in K
    BY <1>1, <2>3
  <2>5. t[n] = [i \in 1 .. n |-> seq[i]]
    BY <2>4 DEF K
  <2> QED BY <1>13, <2>5
<1> QED BY <1>8, <1>11, <1>12 DEF S
-----------------------------------------------------------------------------
(* What is first known of several things stays, if each is put only where  *)
(* nothing is known yet.                                                   *)
LEMMA FirstStays ==
  ASSUME NEW n \in Nat, NEW v, DOMAIN v = 1 .. n, NEW x,
         \A k \in 1 .. n : x[k] = IF x[k - 1] # Unset THEN x[k - 1] ELSE v[k]
  PROVE  x[n] = IF x[0] # Unset THEN x[0] ELSE FirstKnown(v)
<1> DEFINE Stays(k) ==
             IF x[0] # Unset THEN x[k] = x[0]
             ELSE \/ x[k] = Unset /\ \A j \in 1 .. k : v[j] = Unset
                  \/ \E i \in 1 .. k : /\ v[i] # Unset /\ x[k] = v[i]
                                       /\ \A j \in 1 .. i - 1 : v[j] = Unset
           K == {k \in 0 .. n : Stays(k)}
<1>1. 0 \in K
  OBVIOUS
<1>2. ASSUME NEW k \in 1 .. n, k - 1 \in K PROVE k \in K
  <2>1. Stays(k - 1) /\ x[k] = IF x[k - 1] # Unset THEN x[k - 1] ELSE v[k]
    BY <1>2
  <2>2. CASE x[k - 1] # Unset
    BY <2>1, <2>2
  <2>3. CASE x[k - 1] = Unset
    <3>1. x[0] = Unset /\ x[k] = v[k] /\ \A j \in 1 .. k - 1 : v[j] = Unset
      BY <2>1, <2>3
    <3>2. CASE v[k] = Unset
      <4>1. \A j \in 1 .. k : v[j] = Unset
        BY <3>1, <3>2
      <4> QED BY <3>1, <3>2, <4>1
    <3>3. CASE v[k] # Unset
      <4>1. k \in 1 .. k
        OBVIOUS
      <4> QED BY <3>1, <3>3, <4>1
    <3> QED BY <3>2, <3>3
  <2> QED BY <2>2, <2>3
<1> HIDE DEF K
<1>3. 0 .. n \subseteq K
  BY <1>1, <1>2, CountsUp
<1>4. Stays(n)
  <2>1. n \in K
    BY <1>3
  <2> QED BY <2>1 DEF K
<1> DEFINE known == {i \in DOMAIN v : v[i] # Unset}
<1>5. CASE x[0] # Unset
  BY <1>4, <1>5
<1>6. CASE x[0] = Unset /\ x[n] = Unset /\ \A j \in 1 .. n : v[j] = Unset
  BY <1>6 DEF FirstKnown
<1>7. ASSUME x[0] = Unset, NEW i \in 1 .. n, v[i] # Unset, x[n] = v[i],
             \A j \in 1 .. i - 1 : v[j] = Unset
      PROVE  x[n] = FirstKnown(v)
  <2>1. i \in known /\ \A j \in known : i <= j
    BY <1>7
  <2>2. \A k \in known : k \in Nat /\ (i <= k /\ k <= i => k = i)
    BY <1>7
  <2>3. FirstKnown(v) = IF known = {} THEN Unset
                        ELSE v[CHOOSE k \in known : \A j \in known : k <= j]
    BY DEF FirstKnown
  <2> HIDE DEF known
  <2>4. (CHOOSE k \in known : \A j \in known : k <= j) = i
    BY <2>1, <2>2
  <2> QED BY <1>7, <2>1, <2>3, <2>4
<1> QED BY <1>4, <1>5, <1>6, <1>7

(* What is put last stays, if it is put whatever is known.                 *)
LastOf(places) == CHOOSE i \in places : \A j \in places : j <= i

Puts(x, n, places, v) ==
  /\ \A j \in places : j \in 1 .. n
  /\ \A k \in 1 .. n : x[k] = IF k \in places THEN v[k] ELSE x[k - 1]

LEMMA LastStays ==
  ASSUME NEW n \in Nat, NEW places, NEW v, NEW x, Puts(x, n, places, v)
  PROVE  /\ x[n] = IF places = {} THEN x[0] ELSE v[LastOf(places)]
         /\ places # {} => LastOf(places) \in places
<1> DEFINE Last(i, k) == i <= k /\ \A j \in places : j <= k => j <= i
           Stays(k) == \/ x[k] = x[0] /\ \A j \in places : ~(j <= k)
                       \/ \E i \in places : x[k] = v[i] /\ Last(i, k)
           K == {k \in 0 .. n : Stays(k)}
<1>1. /\ \A j \in places : j \in 1 .. n
      /\ \A k \in 1 .. n : x[k] = IF k \in places THEN v[k] ELSE x[k - 1]
  BY DEF Puts
<1>2. 0 \in K
  BY <1>1
<1>3. ASSUME NEW k \in 1 .. n, k - 1 \in K PROVE k \in K
  <2>1. Stays(k - 1) /\ x[k] = IF k \in places THEN v[k] ELSE x[k - 1]
    BY <1>1, <1>3
  <2>2. CASE k \in places
    <3>1. Last(k, k) /\ x[k] = v[k]
      BY <1>1, <2>1, <2>2
    <3> QED BY <2>2, <3>1
  <2>3. CASE k \notin places
    <3>1. \A j \in places : (j <= k <=> j <= k - 1) /\ j \in Nat
      BY <1>1, <2>3
    <3>2. x[k] = x[k - 1]
      BY <2>1, <2>3
    <3>3. CASE x[k - 1] = x[0] /\ \A j \in places : ~(j <= k - 1)
      BY <3>1, <3>2, <3>3
    <3>4. ASSUME NEW i \in places, x[k - 1] = v[i], Last(i, k - 1) PROVE k \in K
      <4>1. x[k] = v[i] /\ Last(i, k)
        BY <3>1, <3>2, <3>4
      <4>2. Stays(k)
        BY <4>1
      <4> QED BY <4>2
    <3> QED BY <2>1, <3>3, <3>4
  <2> QED BY <2>2, <2>3
<1> HIDE DEF K
<1>4. 0 .. n \subseteq K
  BY <1>2, <1>3, CountsUp
<1>5. Stays(n)
  <2>1. n \in K
    BY <1>4
  <2> QED BY <2>1 DEF K
<1>7. ASSUME NEW i \in places, x[n] = v[i], Last(i, n)
      PROVE  x[n] = v[LastOf(places)] /\ LastOf(places) \in places
  <2>1. \A j \in places : j <= i
    BY <1>1, <1>7
  <2>2. \A k \in places : (\A j \in places : j <= k) => k = i
    BY <1>1, <2>1
  <2>3. LastOf(places) = i
    BY <2>1, <2>2 DEF LastOf
  <2> QED BY <1>7, <2>3
<1>8. CASE x[n] = x[0] /\ places = {}
  BY <1>8
<1>9. \A j \in places : j <= n
  BY <1>1
<1> QED BY <1>5, <1>7, <1>8, <1>9

LEMMA NothingIsKnown ==
  ASSUME NEW v, \A i \in DOMAIN v : v[i] = Unset
  PROVE  FirstKnown(v) = Unset
BY DEF FirstKnown

LEMMA FirstOfFour ==
  ASSUME NEW p, NEW q, NEW r, NEW s
  PROVE  FirstKnown(<<p, q, r, s>>) = IF p # Unset THEN p ELSE IF q # Unset THEN q
                                      ELSE IF r # Unset THEN r ELSE s
<1> DEFINE v == <<p, q, r, s>>
           Or(x, y) == IF x # Unset THEN x ELSE y
           x == [k \in 0 .. 4 |-> IF k = 0 THEN Unset ELSE IF k = 1 THEN p
                                 ELSE IF k = 2 THEN Or(p, q)
                                 ELSE IF k = 3 THEN Or(Or(p, q), r)
                                 ELSE Or(Or(Or(p, q), r), s)]
<1>1. DOMAIN v = 1 .. 4 /\ v[1] = p /\ v[2] = q /\ v[3] = r /\ v[4] = s
  OBVIOUS
<1>2. /\ x[0] = Unset /\ x[1] = p /\ x[2] = Or(p, q) /\ x[3] = Or(Or(p, q), r)
      /\ x[4] = Or(Or(Or(p, q), r), s)
  OBVIOUS
<1> HIDE DEF v, x
<1>3. ASSUME NEW k \in 1 .. 4 PROVE x[k] = IF x[k - 1] # Unset THEN x[k - 1] ELSE v[k]
  <2>1. k = 1 \/ k = 2 \/ k = 3 \/ k = 4
    OBVIOUS
  <2> QED BY <1>1, <1>2, <2>1
<1>4. x[4] = IF x[0] # Unset THEN x[0] ELSE FirstKnown(v)
  <2> DEFINE n == 4
  <2>1. n \in Nat /\ DOMAIN v = 1 .. n
    BY <1>1
  <2>2. \A k \in 1 .. n : x[k] = IF x[k - 1] # Unset THEN x[k - 1] ELSE v[k]
    BY <1>3
  <2> HIDE DEF n
  <2>3. x[n] = IF x[0] # Unset THEN x[0] ELSE FirstKnown(v)
    BY <2>1, <2>2, FirstStays
  <2> QED BY <2>3 DEF n
<1> QED BY <1>2, <1>4 DEF v
-----------------------------------------------------------------------------
LEMMA SetKeeps ==
  ASSUME NEW c, IsChannel(c), NEW f, NEW value
  PROVE  LET d == Set(c, f, value)
         IN IsChannel(d) /\ \A g \in Setting : g # f \/ Given(c, g) => d[g] = c[g]
BY DEF Set, IsChannel, Given

(* The words of options set what is not known.                             *)
ByWords == {"ndots", "timeout", "tries", "rotate"}

LEMMA OptionKeeps ==
  ASSUME NEW c, IsChannel(c), NEW word
  PROVE  LET d == SetOption(c, word)
         IN IsChannel(d) /\ \A g \in Setting : g \notin ByWords \/ Given(c, g) => d[g] = c[g]
<1>1. CASE word.key \in {"ndots", "retrans", "retry", "rotate"}
  <2>1. SettingOf(word.key) \in ByWords
    BY <1>1 DEF SettingOf, ByWords
  <2>2. SetOption(c, word) = Set(c, SettingOf(word.key), word.value)
    BY <1>1 DEF SetOption
  <2> QED BY <2>1, <2>2, SetKeeps
<1>2. CASE word.key \notin {"ndots", "retrans", "retry", "rotate"}
  BY <1>2 DEF SetOption
<1> QED BY <1>1, <1>2

LEMMA OptionSets ==
  ASSUME NEW c, IsChannel(c), NEW word, NEW f \in ByWords
  PROVE  SetOption(c, word)[f] =
           IF c[f] # Unset THEN c[f]
           ELSE IF f \in DOMAIN WordFor /\ word.key = WordFor[f] THEN word.value ELSE Unset
<1>1. /\ f \in Setting /\ f \in DOMAIN WordFor
      /\ WordFor[f] \in {"ndots", "retrans", "retry", "rotate"}
      /\ \A key \in {"ndots", "retrans", "retry", "rotate"} : SettingOf(key) = f <=> key = WordFor[f]
  BY DEF ByWords, Setting, WordFor, SettingOf
<1>2. CASE word.key \in {"ndots", "retrans", "retry", "rotate"}
  BY <1>1, <1>2 DEF SetOption, Set, Given, IsChannel
<1>3. CASE word.key \notin {"ndots", "retrans", "retry", "rotate"}
  BY <1>1, <1>3 DEF SetOption
<1> QED BY <1>2, <1>3

(* One word after another is taken.                                        *)
TakesWords(t, c, words) ==
  /\ t[0] = c /\ SetOptions(c, words) = t[Len(words)]
  /\ \A k \in 1 .. Len(words) : t[k] = SetOption(t[k - 1], words[k])

LEMMA WordsAreTaken ==
  ASSUME NEW c, NEW words, IsSequence(words)
  PROVE  \E t : TakesWords(t, c, words)
<1> DEFINE n == Len(words)
           Put(x, k) == SetOption(x, words[k])
           IsRun(t, m) == t = [k \in 0 .. m |-> IF k = 0 THEN c ELSE Put(t[k - 1], k)]
           t == CHOOSE t : IsRun(t, n)
<1>1. n \in Nat
  BY HasLength
<1>2. SetOptions(c, words) = t[n]
  BY DEF SetOptions
<1>3. \A x, k : Put(x, k) = SetOption(x, words[k])
  OBVIOUS
<1> HIDE DEF n, Put
<1>4. \E u : IsRun(u, n)
  <2> DEFINE K == {k \in 0 .. n : \E u : IsRun(u, k)}
  <2>1. 0 \in K
    <3>1. IsRun([k \in 0 .. 0 |-> c], 0)
      OBVIOUS
    <3> HIDE DEF IsRun
    <3> QED BY <1>1, <3>1
  <2>2. ASSUME NEW k \in 1 .. n, k - 1 \in K PROVE k \in K
    <3>1. PICK u : IsRun(u, k - 1)
      <4> HIDE DEF IsRun
      <4> QED BY <2>2
    <3> DEFINE v == [j \in 0 .. k |-> IF j = k THEN Put(u[k - 1], k) ELSE u[j]]
    <3>2. \A j \in 0 .. k - 1 : u[j] = IF j = 0 THEN c ELSE Put(u[j - 1], j)
      BY <3>1, Zenon
    <3>3. ASSUME NEW j \in 0 .. k PROVE v[j] = IF j = 0 THEN c ELSE Put(v[j - 1], j)
      BY <3>2
    <3>4. v = [j \in 0 .. k |-> v[j]]
      OBVIOUS
    <3> HIDE DEF v
    <3>5. IsRun(v, k)
      BY <3>3, <3>4
    <3> HIDE DEF IsRun
    <3> QED BY <3>5
  <2> HIDE DEF K
  <2>3. 0 .. n \subseteq K
    BY <1>1, <2>1, <2>2, CountsUp
  <2>4. n \in K
    BY <1>1, <2>3
  <2> HIDE DEF IsRun
  <2> QED BY <2>4 DEF K
<1>5. IsRun(t, n)
  <2> HIDE DEF IsRun
  <2> QED BY <1>4
<1> HIDE DEF t
<1>6. t[0] = c /\ \A k \in 1 .. n : t[k] = Put(t[k - 1], k)
  <2>1. \A k \in 0 .. n : t[k] = IF k = 0 THEN c ELSE Put(t[k - 1], k)
    BY <1>5, Zenon
  <2>2. 0 \in 0 .. n /\ \A k \in 1 .. n : k \in 0 .. n /\ k # 0
    BY <1>1
  <2> QED BY <2>1, <2>2, Zenon
<1>7. TakesWords(t, c, words)
  BY <1>2, <1>3, <1>6 DEF TakesWords, n
<1> HIDE DEF IsRun
<1> QED BY <1>7

LEMMA OptionsKeep ==
  ASSUME NEW c, IsChannel(c), NEW words, IsSequence(words)
  PROVE  LET d == SetOptions(c, words)
         IN /\ IsChannel(d)
            /\ \A g \in Setting : g \notin ByWords \/ Given(c, g) => d[g] = c[g]
            /\ \A f \in ByWords : d[f] = IF Given(c, f) THEN c[f] ELSE InWords(words, f)
<1> DEFINE n == Len(words)
<1>1. n \in Nat /\ DOMAIN words = 1 .. n
  BY HasLength
<1>2. PICK t : TakesWords(t, c, words)
  BY WordsAreTaken
<1>3. /\ t[0] = c /\ SetOptions(c, words) = t[n]
      /\ \A k \in 1 .. n : t[k] = SetOption(t[k - 1], words[k])
  BY <1>2 DEF TakesWords
<1> HIDE DEF n
<1> DEFINE Keeps(d) == IsChannel(d) /\ \A g \in Setting : g \notin ByWords \/ Given(c, g) => d[g] = c[g]
           K == {k \in 0 .. n : Keeps(t[k])}
<1>4. 0 \in K
  BY <1>1, <1>3
<1>5. ASSUME NEW k \in 1 .. n, k - 1 \in K PROVE k \in K
  <2> DEFINE x == t[k - 1]
  <2>1. Keeps(x) /\ t[k] = SetOption(x, words[k])
    BY <1>3, <1>5
  <2> HIDE DEF x
  <2>2. Keeps(t[k])
    BY <2>1, OptionKeeps DEF Given
  <2> QED BY <2>2
<1> HIDE DEF K, Keeps
<1>6. 0 .. n \subseteq K
  BY <1>1, <1>4, <1>5, CountsUp
<1>7. \A k \in 0 .. n : Keeps(t[k])
  BY <1>6 DEF K
<1>8. ASSUME NEW f \in ByWords
      PROVE  t[n][f] = IF Given(c, f) THEN c[f] ELSE InWords(words, f)
  <2> DEFINE v == [k \in DOMAIN words |->
                     IF f \in DOMAIN WordFor /\ words[k].key = WordFor[f] THEN words[k].value ELSE Unset]
             x == [k \in 0 .. n |-> t[k][f]]
  <2>1. InWords(words, f) = FirstKnown(v) /\ DOMAIN v = 1 .. n
    BY <1>1 DEF InWords
  <2>2. ASSUME NEW k \in 1 .. n PROVE x[k] = IF x[k - 1] # Unset THEN x[k - 1] ELSE v[k]
    <3>1. k \in 0 .. n /\ k - 1 \in 0 .. n /\ k \in DOMAIN words
      BY <1>1
    <3>2. x[k] = SetOption(t[k - 1], words[k])[f] /\ x[k - 1] = t[k - 1][f] /\ IsChannel(t[k - 1])
      BY <1>3, <1>7, <3>1 DEF Keeps
    <3>3. v[k] = IF f \in DOMAIN WordFor /\ words[k].key = WordFor[f] THEN words[k].value ELSE Unset
      BY <3>1
    <3> HIDE DEF x, v
    <3> QED BY <3>2, <3>3, OptionSets
  <2>3. x[0] = c[f] /\ x[n] = t[n][f]
    BY <1>1, <1>3
  <2> HIDE DEF v, x
  <2>4. x[n] = IF x[0] # Unset THEN x[0] ELSE FirstKnown(v)
    BY <1>1, <2>1, <2>2, FirstStays
  <2> QED BY <2>1, <2>3, <2>4 DEF Given
<1>9. n \in 0 .. n
  BY <1>1
<1> QED BY <1>3, <1>7, <1>8, <1>9 DEF Keeps
-----------------------------------------------------------------------------
(* What is known when resolv.conf has been read up to a line.              *)
IsConf(r) ==
  /\ r = [channel |-> r.channel, servers |-> r.servers, sortlist |-> r.sortlist, status |-> r.status]
  /\ IsChannel(r.channel) /\ r.servers \in Seq(Server) /\ r.sortlist \in Seq(Pattern) /\ r.status = "EOF"

(* Nothing of resolv.conf is for these.                                    *)
Elsewhere == {"flags", "udp_port", "tcp_port"}

(* A line leaves what is known, but for the domains.                       *)
LineKeeps(r, d) ==
  /\ \A f \in Setting \ {"domains"} :
       f \in Elsewhere \cup {"servers", "sortlist"} \/ Given(r.channel, f) => d.channel[f] = r.channel[f]
  /\ Given(r.channel, "servers") => d.servers = r.servers
  /\ Given(r.channel, "sortlist") => d.sortlist = r.sortlist

(* What a line says of the domains and adds to the sort list of a channel  *)
(* that has none does not depend on the channel.                           *)
LineSays(r, line, d) ==
  /\ d.channel.domains = IF line.key \in {"domain", "search"} THEN NamesOf(line) ELSE r.channel.domains
  /\ ~Given(r.channel, "sortlist") =>
       d.sortlist = IF line.key = "sortlist" THEN r.sortlist \o Readable(line.value) ELSE r.sortlist

LEMMA ReadableIs ==
  ASSUME NEW T, NEW x \in Seq(T \cup {"garbled"})
  PROVE  Readable(x) \in Seq(T)
<1>1. IsSequence(x)
  BY InSequence
<1>2. \A i \in DOMAIN x : x[i] \in T \cup {"garbled"}
  BY LenProperties
<1> DEFINE places == {i \in DOMAIN x : x[i] # "garbled"}
<1>3. \A i \in DOMAIN x : i \in places => x[i] \in T
  BY <1>2
<1>4. Readable(x) = Picked(x, places)
  BY DEF Readable
<1> HIDE DEF places
<1> QED BY <1>1, <1>3, <1>4, PickedIs

LEMMA LineIsRead ==
  ASSUME NEW r, IsConf(r), NEW line \in Line
  PROVE  LET d == ConfLine(r, line) IN IsConf(d) /\ LineKeeps(r, d) /\ LineSays(r, line, d)
<1> DEFINE c == r.channel
           d == ConfLine(r, line)
           key == line.key
<1>1. /\ r = [channel |-> c, servers |-> r.servers, sortlist |-> r.sortlist, status |-> "EOF"]
      /\ IsChannel(c) /\ r.servers \in Seq(Server) /\ r.sortlist \in Seq(Pattern)
  BY DEF IsConf
<1>9. \A f \in Setting : f \in Elsewhere \cup {"servers", "sortlist"} =>
                           f \notin {"domains", "lookups"} \cup ByWords
  BY DEF Elsewhere, ByWords
<1> DEFINE With(e) == [channel |-> e, servers |-> r.servers, sortlist |-> r.sortlist, status |-> "EOF"]
<1>2. CASE key \in {"domain", "search"}
  <2> DEFINE e == SetSearch(c, NamesOf(line))
  <2>1. d = [r EXCEPT !.channel = e]
    BY <1>2 DEF ConfLine, Sets, NamesOf
  <2>2. IsChannel(e) /\ e.domains = NamesOf(line) /\ \A f \in Setting \ {"domains"} : e[f] = c[f]
    BY <1>1 DEF IsChannel, SetSearch, Setting
  <2> HIDE DEF e
  <2>3. d = With(e)
    BY <1>1, <2>1
  <2> QED BY <1>1, <1>2, <2>2, <2>3 DEF IsConf, LineKeeps, LineSays, Given
<1>3. CASE key = "lookup"
  <2> DEFINE value == LookupsOf(line.value, "bind", "file")
             e == Set(c, "lookups", value)
  <2>1. d = [r EXCEPT !.channel = e]
    BY <1>3 DEF ConfLine, Sets
  <2> HIDE DEF value
  <2>2. IsChannel(e) /\ \A f \in Setting : f # "lookups" \/ Given(c, f) => e[f] = c[f]
    BY <1>1, SetKeeps
  <2> HIDE DEF e
  <2>3. d = With(e)
    BY <1>1, <2>1
  <2>4. e.domains = c.domains
    BY <2>2 DEF Setting
  <2>5. LineKeeps(r, d)
    BY <1>1, <1>9, <2>2, <2>3 DEF LineKeeps
  <2> QED BY <1>1, <1>3, <2>2, <2>3, <2>4, <2>5 DEF IsConf, LineSays
<1>4. CASE key = "options"
  <2> DEFINE e == SetOptions(c, line.value)
  <2>1. d = [r EXCEPT !.channel = e]
    BY <1>4 DEF ConfLine, Sets
  <2>2. IsChannel(e) /\ \A f \in Setting : f \notin ByWords \/ Given(c, f) => e[f] = c[f]
    BY <1>1, <1>4, LineAssumption, OptionsKeep
  <2> HIDE DEF e
  <2>3. d = With(e)
    BY <1>1, <2>1
  <2>4. e.domains = c.domains
    BY <2>2 DEF Setting, ByWords
  <2>5. LineKeeps(r, d)
    BY <1>1, <1>9, <2>2, <2>3 DEF LineKeeps
  <2> QED BY <1>1, <1>4, <2>2, <2>3, <2>4, <2>5 DEF IsConf, LineSays
<1>5. CASE key = "nameserver" /\ ~Given(c, "servers")
  <2> DEFINE x == Readable(line.value)
  <2>1. d = [r EXCEPT !.servers = @ \o x]
    BY <1>5 DEF ConfLine, Sets
  <2>2. x \in Seq(Server)
    BY <1>5, LineAssumption, ReadableIs
  <2> HIDE DEF x
  <2> DEFINE y == r.servers \o x
  <2>3. y \in Seq(Server) /\ d = [r EXCEPT !.servers = y]
    BY <1>1, <2>1, <2>2, ConcatProperties
  <2> HIDE DEF y
  <2>4. d = [channel |-> c, servers |-> y, sortlist |-> r.sortlist, status |-> "EOF"]
    BY <1>1, <2>3
  <2> QED BY <1>1, <1>5, <2>3, <2>4 DEF IsConf, LineKeeps, LineSays
<1>6. CASE key = "sortlist" /\ ~Given(c, "sortlist")
  <2> DEFINE x == Readable(line.value)
  <2>1. d = [r EXCEPT !.sortlist = @ \o x]
    BY <1>6 DEF ConfLine, Sets
  <2>2. x \in Seq(Pattern)
    BY <1>6, LineAssumption, ReadableIs
  <2>3. x = Readable(line.value)
    OBVIOUS
  <2> HIDE DEF x
  <2> DEFINE y == r.sortlist \o x
  <2>5. y \in Seq(Pattern) /\ d = [r EXCEPT !.sortlist = y]
    BY <1>1, <2>1, <2>2, ConcatProperties
  <2>6. y = r.sortlist \o Readable(line.value)
    BY <2>3
  <2> HIDE DEF y
  <2>4. d = [channel |-> c, servers |-> r.servers, sortlist |-> y, status |-> "EOF"]
    BY <1>1, <2>5
  <2> QED BY <1>1, <1>6, <2>4, <2>5, <2>6 DEF IsConf, LineKeeps, LineSays
<1>7. CASE /\ key \notin {"domain", "search", "lookup", "options"}
           /\ ~ (key = "nameserver" /\ ~Given(c, "servers"))
           /\ ~ (key = "sortlist" /\ ~Given(c, "sortlist"))
  <2>1. d = r
    BY <1>7 DEF ConfLine, Sets
  <2> QED BY <1>1, <1>7, <2>1 DEF IsConf, LineKeeps, LineSays
<1> QED BY <1>2, <1>3, <1>4, <1>5, <1>6, <1>7
(* What a line gives a channel that has it not.                            *)
LineGives(r, line, d) ==
  LET c == r.channel IN
  /\ \A f \in ByWords :
       d.channel[f] = IF c[f] # Unset THEN c[f]
                      ELSE IF line.key = "options" THEN InWords(line.value, f) ELSE Unset
  /\ d.channel.lookups = IF c.lookups # Unset THEN c.lookups
                         ELSE IF line.key = "lookup" THEN LookupsOf(line.value, "bind", "file") ELSE Unset
  /\ ~Given(c, "servers") =>
       d.servers = r.servers \o (IF line.key = "nameserver" THEN Readable(line.value) ELSE <<>>)
  /\ ~Given(c, "sortlist") =>
       d.sortlist = r.sortlist \o (IF line.key = "sortlist" THEN Readable(line.value) ELSE <<>>)

LEMMA LineIsTaken ==
  ASSUME NEW r, IsConf(r), NEW line \in Line
  PROVE  LineGives(r, line, ConfLine(r, line))
<1> DEFINE c == r.channel
           d == ConfLine(r, line)
           key == line.key
<1>1. /\ r = [channel |-> c, servers |-> r.servers, sortlist |-> r.sortlist, status |-> "EOF"]
      /\ IsChannel(c) /\ r.servers \in Seq(Server) /\ r.sortlist \in Seq(Pattern)
  BY DEF IsConf
<1>2. r.servers \o <<>> = r.servers /\ r.sortlist \o <<>> = r.sortlist
  BY <1>1, ConcatEmptySeq
<1>3. ByWords \subseteq Setting \ {"domains", "lookups"} /\ "lookups" \in Setting
  BY DEF ByWords, Setting
<1>4. ASSUME NEW e, d = [r EXCEPT !.channel = e] PROVE d.channel = e /\ d.servers = r.servers /\ d.sortlist = r.sortlist
  BY <1>1, <1>4
<1>5. CASE key \in {"domain", "search"}
  <2> DEFINE e == SetSearch(c, NamesOf(line))
  <2>1. d = [r EXCEPT !.channel = e]
    BY <1>5 DEF ConfLine, Sets, NamesOf
  <2>2. \A f \in Setting \ {"domains"} : e[f] = c[f]
    BY <1>1 DEF IsChannel, SetSearch
  <2> HIDE DEF e
  <2> QED BY <1>2, <1>3, <1>4, <1>5, <2>1, <2>2 DEF LineGives
<1>6. CASE key = "lookup"
  <2> DEFINE value == LookupsOf(line.value, "bind", "file")
             e == Set(c, "lookups", value)
  <2>1. d = [r EXCEPT !.channel = e]
    BY <1>6 DEF ConfLine, Sets
  <2>2. value = LookupsOf(line.value, "bind", "file")
    OBVIOUS
  <2> HIDE DEF value
  <2>3. /\ \A f \in Setting \ {"lookups"} : e[f] = c[f]
        /\ e.lookups = IF c.lookups # Unset THEN c.lookups ELSE value
    BY <1>1, <1>3 DEF IsChannel, Set, Given
  <2> HIDE DEF e
  <2> QED BY <1>2, <1>3, <1>4, <1>6, <2>1, <2>2, <2>3 DEF LineGives
<1>7. CASE key = "options"
  <2> DEFINE e == SetOptions(c, line.value)
  <2>1. d = [r EXCEPT !.channel = e]
    BY <1>7 DEF ConfLine, Sets
  <2>2. /\ \A f \in Setting : f \notin ByWords \/ Given(c, f) => e[f] = c[f]
        /\ \A f \in ByWords : e[f] = IF Given(c, f) THEN c[f] ELSE InWords(line.value, f)
    BY <1>1, <1>7, LineAssumption, OptionsKeep
  <2> HIDE DEF e
  <2>3. "lookups" \notin ByWords
    BY <1>3
  <2> QED BY <1>2, <1>3, <1>4, <1>7, <2>1, <2>2, <2>3 DEF LineGives, Given
<1>8. CASE key = "nameserver" /\ ~Given(c, "servers")
  <2> DEFINE y == r.servers \o Readable(line.value)
  <2>1. d = [r EXCEPT !.servers = y]
    BY <1>8 DEF ConfLine, Sets
  <2>2. y = r.servers \o Readable(line.value)
    OBVIOUS
  <2> HIDE DEF y, d
  <2>3. d.channel = c /\ d.servers = y /\ d.sortlist = r.sortlist
    BY <1>1, <2>1
  <2> QED BY <1>2, <1>3, <1>8, <2>2, <2>3 DEF LineGives, d
<1>9. CASE key = "sortlist" /\ ~Given(c, "sortlist")
  <2> DEFINE y == r.sortlist \o Readable(line.value)
  <2>1. d = [r EXCEPT !.sortlist = y]
    BY <1>9 DEF ConfLine, Sets
  <2>2. y = r.sortlist \o Readable(line.value)
    OBVIOUS
  <2> HIDE DEF y, d
  <2>3. d.channel = c /\ d.servers = r.servers /\ d.sortlist = y
    BY <1>1, <2>1
  <2> QED BY <1>2, <1>3, <1>9, <2>2, <2>3 DEF LineGives, d
<1>10. CASE /\ key \notin {"domain", "search", "lookup", "options"}
            /\ ~ (key = "nameserver" /\ ~Given(c, "servers"))
            /\ ~ (key = "sortlist" /\ ~Given(c, "sortlist"))
  <2>1. d = r
    BY <1>10 DEF ConfLine, Sets
  <2> QED BY <1>2, <1>3, <1>10, <2>1 DEF LineGives
<1> QED BY <1>5, <1>6, <1>7, <1>8, <1>9, <1>10

-----------------------------------------------------------------------------
(* The reading of resolv.conf, line by line.                               *)
Unread(c) == [channel |-> c, servers |-> <<>>, sortlist |-> <<>>, status |-> "EOF"]

IsReadingOf(t, c, lines) ==
  /\ t[0] = Unread(c) /\ ReadConf(c, lines) = t[Len(lines)]
  /\ \A k \in 1 .. Len(lines) : t[k] = ConfLine(t[k - 1], lines[k])

LEMMA ReadingExists ==
  ASSUME NEW c, NEW lines \in Seq(Line)
  PROVE  \E t : IsReadingOf(t, c, lines)
<1> DEFINE n == Len(lines)
           start == [channel |-> c, servers |-> <<>>, sortlist |-> <<>>, status |-> "EOF"]
           Put(x, k) == ConfLine(x, lines[k])
           IsRun(t, m) == t = [k \in 0 .. m |-> IF k = 0 THEN start ELSE Put(t[k - 1], k)]
           t == CHOOSE t : IsRun(t, n)
<1>1. n \in Nat
  BY LenProperties
<1>2. ReadConf(c, lines) = t[n]
  BY DEF ReadConf
<1>3. start = Unread(c) /\ \A x, k : Put(x, k) = ConfLine(x, lines[k])
  BY DEF Unread
<1> HIDE DEF n, Put, start
<1>4. \E u : IsRun(u, n)
  <2> DEFINE K == {k \in 0 .. n : \E u : IsRun(u, k)}
  <2>1. 0 \in K
    <3>1. IsRun([k \in 0 .. 0 |-> start], 0)
      OBVIOUS
    <3> HIDE DEF IsRun
    <3> QED BY <1>1, <3>1
  <2>2. ASSUME NEW k \in 1 .. n, k - 1 \in K PROVE k \in K
    <3>1. PICK u : IsRun(u, k - 1)
      <4> HIDE DEF IsRun
      <4> QED BY <2>2
    <3> DEFINE v == [j \in 0 .. k |-> IF j = k THEN Put(u[k - 1], k) ELSE u[j]]
    <3>2. \A j \in 0 .. k - 1 : u[j] = IF j = 0 THEN start ELSE Put(u[j - 1], j)
      BY <3>1, Zenon
    <3>3. ASSUME NEW j \in 0 .. k PROVE v[j] = IF j = 0 THEN start ELSE Put(v[j - 1], j)
      BY <3>2
    <3>4. v = [j \in 0 .. k |-> v[j]]
      OBVIOUS
    <3> HIDE DEF v
    <3>5. IsRun(v, k)
      BY <3>3, <3>4
    <3> HIDE DEF IsRun
    <3> QED BY <3>5
  <2> HIDE DEF K
  <2>3. 0 .. n \subseteq K
    BY <1>1, <2>1, <2>2, CountsUp
  <2>4. n \in K
    BY <1>1, <2>3
  <2> HIDE DEF IsRun
  <2> QED BY <2>4 DEF K
<1>5. IsRun(t, n)
  <2> HIDE DEF IsRun
  <2> QED BY <1>4
<1> HIDE DEF t
<1>6. t[0] = start /\ \A k \in 1 .. n : t[k] = Put(t[k - 1], k)
  <2>1. \A k \in 0 .. n : t[k] = IF k = 0 THEN start ELSE Put(t[k - 1], k)
    BY <1>5, Zenon
  <2>2. 0 \in 0 .. n /\ \A k \in 1 .. n : k \in 0 .. n /\ k # 0
    BY <1>1
  <2> QED BY <2>1, <2>2, Zenon
<1>7. IsReadingOf(t, c, lines)
  BY <1>2, <1>3, <1>6 DEF IsReadingOf, n
<1> HIDE DEF IsRun
<1> QED BY <1>7

(* The file leaves what is known, but for the domains.                     *)
LEMMA ConfKeeps ==
  ASSUME NEW c, IsChannel(c), NEW lines \in Seq(Line), NEW t, IsReadingOf(t, c, lines)
  PROVE  \A k \in 0 .. Len(lines) : IsConf(t[k]) /\ LineKeeps(Unread(c), t[k])
<1> DEFINE n == Len(lines)
           K == {k \in 0 .. n : IsConf(t[k]) /\ LineKeeps(Unread(c), t[k])}
<1>1. n \in Nat /\ \A k \in 1 .. n : lines[k] \in Line
  BY LenProperties
<1>2. t[0] = Unread(c) /\ \A k \in 1 .. n : t[k] = ConfLine(t[k - 1], lines[k])
  BY DEF IsReadingOf
<1> HIDE DEF n
<1>3. 0 \in K
  <2>1. <<>> \in Seq(Server) /\ <<>> \in Seq(Pattern)
    BY EmptySeq
  <2>2. IsConf(Unread(c)) /\ LineKeeps(Unread(c), Unread(c))
    BY <2>1 DEF IsConf, LineKeeps, Unread
  <2> QED BY <1>1, <1>2, <2>2
<1>4. ASSUME NEW k \in 1 .. n, k - 1 \in K PROVE k \in K
  <2> DEFINE r == t[k - 1]
             d == t[k]
             line == lines[k]
  <2>1. IsConf(r) /\ LineKeeps(Unread(c), r) /\ line \in Line /\ d = ConfLine(r, line)
    BY <1>1, <1>2, <1>4
  <2> HIDE DEF r, d, line
  <2>2. IsConf(d) /\ LineKeeps(r, d)
    BY <2>1, LineIsRead
  <2>3. LineKeeps(Unread(c), d)
    BY <2>1, <2>2 DEF LineKeeps, Given, Setting
  <2> QED BY <2>2, <2>3 DEF d
<1> HIDE DEF K
<1>5. 0 .. n \subseteq K
  BY <1>1, <1>3, <1>4, CountsUp
<1> QED BY <1>5 DEF K, n

(* All entries of a file are those of its lines, one after another.        *)
Gathers(x, lines, key) ==
  /\ x[0] = <<>>
  /\ \A k \in 1 .. Len(lines) :
       x[k] = x[k - 1] \o (IF lines[k].key = key THEN Readable(lines[k].value) ELSE <<>>)

LEMMA EntriesAre ==
  ASSUME NEW lines, IsSequence(lines), NEW key, NEW x, Gathers(x, lines, key)
  PROVE  AllEntries(lines, key) = IF x[Len(lines)] = <<>> THEN Unset ELSE x[Len(lines)]
<1> DEFINE n == Len(lines)
           Put(e, k) == e \o (IF lines[k].key = key THEN Readable(lines[k].value) ELSE <<>>)
           IsRun(t) == t = [k \in 0 .. n |-> IF k = 0 THEN <<>> ELSE Put(t[k - 1], k)]
           t == CHOOSE t : IsRun(t)
           u == [k \in 0 .. n |-> x[k]]
<1>1. n \in Nat
  BY HasLength
<1>2. AllEntries(lines, key) = IF t[n] = <<>> THEN Unset ELSE t[n]
  BY DEF AllEntries
<1>3. x[0] = <<>> /\ \A k \in 1 .. n : x[k] = Put(x[k - 1], k)
  BY DEF Gathers
<1> HIDE DEF n, Put
<1>4. IsRun(u)
  <2>1. u = [k \in 0 .. n |-> u[k]]
    OBVIOUS
  <2>2. ASSUME NEW k \in 0 .. n PROVE u[k] = IF k = 0 THEN <<>> ELSE Put(u[k - 1], k)
    BY <1>1, <1>3
  <2> HIDE DEF u
  <2> QED BY <2>1, <2>2
<1>5. IsRun(t)
  <2> HIDE DEF IsRun, u
  <2> QED BY <1>4
<1> HIDE DEF t
<1>6. t[0] = <<>> /\ \A k \in 1 .. n : t[k] = Put(t[k - 1], k)
  <2>1. \A k \in 0 .. n : t[k] = IF k = 0 THEN <<>> ELSE Put(t[k - 1], k)
    BY <1>5, Zenon
  <2>2. 0 \in 0 .. n /\ \A k \in 1 .. n : k \in 0 .. n /\ k # 0
    BY <1>1
  <2> QED BY <2>1, <2>2, Zenon
<1> HIDE DEF IsRun
<1> DEFINE K == {k \in 0 .. n : t[k] = x[k]}
<1>7. 0 \in K
  BY <1>1, <1>3, <1>6
<1>8. ASSUME NEW k \in 1 .. n, k - 1 \in K PROVE k \in K
  BY <1>3, <1>6, <1>8
<1> HIDE DEF K
<1>9. 0 .. n \subseteq K
  BY <1>1, <1>7, <1>8, CountsUp
<1>10. n \in K
  BY <1>1, <1>9
<1> QED BY <1>2, <1>10 DEF K, n

(* What the whole file gives.                                              *)
LEMMA ConfGives ==
  ASSUME NEW c, IsChannel(c), NEW lines \in Seq(Line)
  PROVE  LET r == ReadConf(c, lines) IN
         /\ \A f \in ByWords :
              r.channel[f] = IF c[f] # Unset THEN c[f] ELSE InOptionLines(lines, f)
         /\ r.channel.lookups = IF c.lookups # Unset THEN c.lookups
                                ELSE InOrders(lines, "lookup", "bind", "file")
         /\ r.channel.domains = IF InNames(lines) # Unset THEN InNames(lines) ELSE c.domains
         /\ ~Given(c, "servers") =>
              AllEntries(lines, "nameserver") = IF r.servers = <<>> THEN Unset ELSE r.servers
         /\ ~Given(c, "sortlist") =>
              AllEntries(lines, "sortlist") = IF r.sortlist = <<>> THEN Unset ELSE r.sortlist
<1> DEFINE n == Len(lines)
<1>1. PICK t : IsReadingOf(t, c, lines)
  BY ReadingExists
<1>2. n \in Nat /\ DOMAIN lines = 1 .. n /\ IsSequence(lines) /\ \A k \in 1 .. n : lines[k] \in Line
  BY LenProperties, InSequence
<1>3. t[0] = Unread(c) /\ ReadConf(c, lines) = t[n]
  BY <1>1 DEF IsReadingOf
<1>4. \A k \in 0 .. n : IsConf(t[k]) /\ LineKeeps(Unread(c), t[k])
  BY <1>1, ConfKeeps
<1>5. ASSUME NEW k \in 1 .. n
      PROVE  LineGives(t[k - 1], lines[k], t[k]) /\ LineSays(t[k - 1], lines[k], t[k])
  <2>1. k - 1 \in 0 .. n /\ t[k] = ConfLine(t[k - 1], lines[k])
    BY <1>1, <1>2 DEF IsReadingOf
  <2>2. IsConf(t[k - 1]) /\ lines[k] \in Line
    BY <1>2, <1>4, <2>1
  <2> QED BY <2>1, <2>2, LineIsTaken, LineIsRead
<1>6. /\ t[0].channel = c /\ t[0].servers = <<>> /\ t[0].sortlist = <<>>
      /\ \A k \in 1 .. n : k \in 0 .. n /\ k - 1 \in 0 .. n
      /\ 0 \in 0 .. n /\ n \in 0 .. n
  BY <1>2, <1>3 DEF Unread
<1> HIDE DEF n
<1>7. ASSUME NEW f \in ByWords
      PROVE  t[n].channel[f] = IF c[f] # Unset THEN c[f] ELSE InOptionLines(lines, f)
  <2> DEFINE v == [k \in DOMAIN lines |->
                     IF lines[k].key = "options" THEN InWords(lines[k].value, f) ELSE Unset]
             x == [k \in 0 .. n |-> t[k].channel[f]]
  <2>1. InOptionLines(lines, f) = FirstKnown(v) /\ DOMAIN v = 1 .. n
    BY <1>2 DEF InOptionLines
  <2>2. ASSUME NEW k \in 1 .. n PROVE x[k] = IF x[k - 1] # Unset THEN x[k - 1] ELSE v[k]
    <3>1. x[k] = t[k].channel[f] /\ x[k - 1] = t[k - 1].channel[f]
      BY <1>6
    <3>2. v[k] = IF lines[k].key = "options" THEN InWords(lines[k].value, f) ELSE Unset
      BY <1>2
    <3> HIDE DEF x, v
    <3> QED BY <1>5, <3>1, <3>2 DEF LineGives
  <2>3. x[0] = c[f] /\ x[n] = t[n].channel[f]
    BY <1>6
  <2> HIDE DEF v, x
  <2>4. x[n] = IF x[0] # Unset THEN x[0] ELSE FirstKnown(v)
    BY <1>2, <2>1, <2>2, FirstStays
  <2> QED BY <2>1, <2>3, <2>4
<1>8. t[n].channel.lookups = IF c.lookups # Unset THEN c.lookups
                             ELSE InOrders(lines, "lookup", "bind", "file")
  <2> DEFINE v == [k \in DOMAIN lines |->
                     IF lines[k].key = "lookup" THEN LookupsOf(lines[k].value, "bind", "file") ELSE Unset]
             x == [k \in 0 .. n |-> t[k].channel.lookups]
  <2>1. InOrders(lines, "lookup", "bind", "file") = FirstKnown(v) /\ DOMAIN v = 1 .. n
    BY <1>2 DEF InOrders
  <2>2. ASSUME NEW k \in 1 .. n PROVE x[k] = IF x[k - 1] # Unset THEN x[k - 1] ELSE v[k]
    <3>1. x[k] = t[k].channel.lookups /\ x[k - 1] = t[k - 1].channel.lookups
      BY <1>6
    <3>2. v[k] = IF lines[k].key = "lookup" THEN LookupsOf(lines[k].value, "bind", "file") ELSE Unset
      BY <1>2
    <3> HIDE DEF x, v
    <3> QED BY <1>5, <3>1, <3>2 DEF LineGives
  <2>3. x[0] = c.lookups /\ x[n] = t[n].channel.lookups
    BY <1>6
  <2> HIDE DEF v, x
  <2>4. x[n] = IF x[0] # Unset THEN x[0] ELSE FirstKnown(v)
    BY <1>2, <2>1, <2>2, FirstStays
  <2> QED BY <2>1, <2>3, <2>4
<1>9. ASSUME ~Given(c, "servers")
      PROVE  AllEntries(lines, "nameserver") = IF t[n].servers = <<>> THEN Unset ELSE t[n].servers
  <2> DEFINE x == [k \in 0 .. n |-> t[k].servers]
  <2>1. ASSUME NEW k \in 1 .. n
        PROVE  x[k] = x[k - 1] \o (IF lines[k].key = "nameserver" THEN Readable(lines[k].value) ELSE <<>>)
    <3>1. x[k] = t[k].servers /\ x[k - 1] = t[k - 1].servers /\ k - 1 \in 0 .. n
      BY <1>6
    <3>2. ~Given(t[k - 1].channel, "servers")
      BY <1>4, <1>9, <3>1 DEF LineKeeps, Unread, Given, Setting
    <3> HIDE DEF x
    <3> QED BY <1>5, <3>1, <3>2 DEF LineGives
  <2>2. x[0] = <<>> /\ x[n] = t[n].servers
    BY <1>6
  <2> DEFINE key == "nameserver"
  <2> HIDE DEF x
  <2>3. Gathers(x, lines, key)
    BY <2>1, <2>2 DEF Gathers, n
  <2>4. AllEntries(lines, key) = IF x[n] = <<>> THEN Unset ELSE x[n]
    <3> HIDE DEF key
    <3> QED BY <1>2, <2>3, EntriesAre DEF n
  <2> QED BY <2>2, <2>4
<1>10. ASSUME ~Given(c, "sortlist")
       PROVE  AllEntries(lines, "sortlist") = IF t[n].sortlist = <<>> THEN Unset ELSE t[n].sortlist
  <2> DEFINE x == [k \in 0 .. n |-> t[k].sortlist]
  <2>1. ASSUME NEW k \in 1 .. n
        PROVE  x[k] = x[k - 1] \o (IF lines[k].key = "sortlist" THEN Readable(lines[k].value) ELSE <<>>)
    <3>1. x[k] = t[k].sortlist /\ x[k - 1] = t[k - 1].sortlist /\ k - 1 \in 0 .. n
      BY <1>6
    <3>2. ~Given(t[k - 1].channel, "sortlist")
      BY <1>4, <1>10, <3>1 DEF LineKeeps, Unread, Given, Setting
    <3> HIDE DEF x
    <3> QED BY <1>5, <3>1, <3>2 DEF LineGives
  <2>2. x[0] = <<>> /\ x[n] = t[n].sortlist
    BY <1>6
  <2> DEFINE key == "sortlist"
  <2> HIDE DEF x
  <2>3. Gathers(x, lines, key)
    BY <2>1, <2>2 DEF Gathers, n
  <2>4. AllEntries(lines, key) = IF x[n] = <<>> THEN Unset ELSE x[n]
    <3> HIDE DEF key
    <3> QED BY <1>2, <2>3, EntriesAre DEF n
  <2> QED BY <2>2, <2>4
<1>11. t[n].channel.domains = IF InNames(lines) # Unset THEN InNames(lines) ELSE c.domains
  <2> DEFINE places == {k \in DOMAIN lines : lines[k].key \in {"domain", "search"}}
             v == [k \in 1 .. n |-> NamesOf(lines[k])]
             x == [k \in 0 .. n |-> t[k].channel.domains]
  <2>1. \A j \in places : j \in 1 .. n
    BY <1>2
  <2>2. ASSUME NEW k \in 1 .. n PROVE x[k] = IF k \in places THEN v[k] ELSE x[k - 1]
    <3>1. x[k] = t[k].channel.domains /\ x[k - 1] = t[k - 1].channel.domains /\ v[k] = NamesOf(lines[k])
      BY <1>6
    <3>2. k \in places <=> lines[k].key \in {"domain", "search"}
      BY <1>2
    <3> HIDE DEF x, v, places
    <3> QED BY <1>5, <3>1, <3>2 DEF LineSays
  <2>3. x[0] = c.domains /\ x[n] = t[n].channel.domains
    BY <1>6
  <2>4. InNames(lines) = IF places = {} THEN Unset ELSE NamesOf(lines[LastOf(places)])
    BY DEF InNames, LastOf
  <2>5. \A k \in places : v[k] = NamesOf(lines[k]) /\ v[k] # Unset
    BY <1>2, LineAssumption
  <2> HIDE DEF v, x, places
  <2>6. x[n] = (IF places = {} THEN x[0] ELSE v[LastOf(places)]) /\ (places # {} => LastOf(places) \in places)
    <3>1. Puts(x, n, places, v)
      BY <2>1, <2>2 DEF Puts
    <3> QED BY <1>2, <3>1, LastStays
  <2> QED BY <2>3, <2>4, <2>5, <2>6
<1> QED BY <1>3, <1>7, <1>8, <1>9, <1>10, <1>11

(* Two channels without sort lists find the same one there, and the same   *)
(* domains if any are to be found.                                         *)
SameFound(c, r, d, s) ==
  /\ r.sortlist = s.sortlist
  /\ \/ r.channel.domains = c.domains /\ s.channel.domains = d.domains
     \/ r.channel.domains = s.channel.domains

LEMMA ConfsAreSame ==
  ASSUME NEW c, IsChannel(c), NEW d, IsChannel(d), NEW lines \in Seq(Line),
         ~Given(c, "sortlist"), ~Given(d, "sortlist")
  PROVE  SameFound(c, ReadConf(c, lines), d, ReadConf(d, lines))
<1> DEFINE n == Len(lines)
<1>1. PICK t : IsReadingOf(t, c, lines)
  BY ReadingExists
<1>2. PICK u : IsReadingOf(u, d, lines)
  BY ReadingExists
<1>3. n \in Nat /\ \A k \in 1 .. n : lines[k] \in Line
  BY LenProperties
<1>4. /\ t[0] = Unread(c) /\ \A k \in 1 .. n : t[k] = ConfLine(t[k - 1], lines[k])
      /\ u[0] = Unread(d) /\ \A k \in 1 .. n : u[k] = ConfLine(u[k - 1], lines[k])
      /\ ReadConf(c, lines) = t[n] /\ ReadConf(d, lines) = u[n]
  BY <1>1, <1>2 DEF IsReadingOf
<1>5. \A k \in 0 .. n : IsConf(t[k]) /\ ~Given(t[k].channel, "sortlist")
  <2>1. \A k \in 0 .. n : IsConf(t[k]) /\ LineKeeps(Unread(c), t[k])
    BY <1>1, ConfKeeps
  <2> QED BY <2>1 DEF LineKeeps, Unread, Given, Setting
<1>6. \A k \in 0 .. n : IsConf(u[k]) /\ ~Given(u[k].channel, "sortlist")
  <2>1. \A k \in 0 .. n : IsConf(u[k]) /\ LineKeeps(Unread(d), u[k])
    BY <1>2, ConfKeeps
  <2> QED BY <2>1 DEF LineKeeps, Unread, Given, Setting
<1> HIDE DEF n
<1> DEFINE K == {k \in 0 .. n : SameFound(c, t[k], d, u[k])}
<1>7. 0 \in K
  BY <1>3, <1>4 DEF SameFound, Unread
<1>8. ASSUME NEW k \in 1 .. n, k - 1 \in K PROVE k \in K
  <2> DEFINE r == t[k - 1]
             s == u[k - 1]
             line == lines[k]
  <2>1. /\ IsConf(r) /\ ~Given(r.channel, "sortlist") /\ t[k] = ConfLine(r, line)
        /\ IsConf(s) /\ ~Given(s.channel, "sortlist") /\ u[k] = ConfLine(s, line)
        /\ line \in Line /\ SameFound(c, r, d, s)
    BY <1>3, <1>4, <1>5, <1>6, <1>8
  <2> HIDE DEF r, s, line
  <2>2. LineSays(r, line, t[k])
    BY <2>1, LineIsRead
  <2>3. LineSays(s, line, u[k])
    BY <2>1, LineIsRead
  <2>4. SameFound(c, t[k], d, u[k])
    BY <2>1, <2>2, <2>3 DEF LineSays, SameFound
  <2> QED BY <2>4
<1> HIDE DEF K
<1>9. 0 .. n \subseteq K
  BY <1>3, <1>7, <1>8, CountsUp
<1>10. n \in K
  BY <1>3, <1>9
<1> QED BY <1>4, <1>10 DEF K
-----------------------------------------------------------------------------
(* The environment sets what is not known.                                 *)
LEMMA EnvironmentAdds ==
  ASSUME NEW c, IsChannel(c), NEW env, env.RES_OPTIONS # Unset => IsSequence(env.RES_OPTIONS)
  PROVE  LET d == InitByEnvironment(c, env)
         IN /\ IsChannel(d)
            /\ \A f \in Setting : f \notin ByWords \cup {"domains"} \/ Given(c, f) => d[f] = c[f]
            /\ \A s : s.env = env =>
                 \A f \in Setting : d[f] = IF Given(c, f) THEN c[f] ELSE InEnvironment(s, f)
<1> DEFINE e == IF env.LOCALDOMAIN # Unset /\ ~Given(c, "domains")
                THEN SetSearch(c, env.LOCALDOMAIN) ELSE c
           d == IF env.RES_OPTIONS # Unset THEN SetOptions(e, env.RES_OPTIONS) ELSE e
<1>1. InitByEnvironment(c, env) = d
  BY DEF InitByEnvironment
<1>2. /\ IsChannel(e) /\ \A f \in Setting : f # "domains" \/ Given(c, f) => e[f] = c[f]
      /\ e.domains = IF Given(c, "domains") THEN c.domains ELSE env.LOCALDOMAIN
  BY DEF SetSearch, IsChannel, Given, Setting
<1> HIDE DEF e
<1>3. \A f \in Setting : f \in ByWords <=> f \in DOMAIN WordFor
  BY DEF ByWords, WordFor
<1>4. \A words, f : f \notin DOMAIN WordFor => InWords(words, f) = Unset
  BY NothingIsKnown DEF InWords
<1>5. "domains" \notin ByWords /\ "domains" \in Setting
  BY DEF ByWords, Setting
<1>6. CASE env.RES_OPTIONS # Unset
  <2> DEFINE x == SetOptions(e, env.RES_OPTIONS)
  <2>1. /\ IsChannel(x) /\ \A f \in Setting : f \notin ByWords \/ Given(e, f) => x[f] = e[f]
        /\ \A f \in ByWords : x[f] = IF Given(e, f) THEN e[f] ELSE InWords(env.RES_OPTIONS, f)
    BY <1>2, <1>6, OptionsKeep
  <2>2. d = x
    BY <1>6
  <2> HIDE DEF x, d
  <2>3. ASSUME NEW s, s.env = env, NEW f \in Setting
        PROVE  x[f] = IF Given(c, f) THEN c[f] ELSE InEnvironment(s, f)
    <3>1. CASE f = "domains"
      BY <1>2, <1>5, <2>1, <2>3, <3>1 DEF InEnvironment
    <3>2. CASE f # "domains"
      <4>1. InEnvironment(s, f) = InWords(env.RES_OPTIONS, f) /\ e[f] = c[f]
        BY <1>2, <1>6, <2>3, <3>2 DEF InEnvironment
      <4> QED BY <1>3, <1>4, <2>1, <4>1 DEF Given
    <3> QED BY <3>1, <3>2
  <2>4. \A f \in Setting : f \notin ByWords \cup {"domains"} \/ Given(c, f) => x[f] = c[f]
    BY <1>2, <2>1 DEF Given
  <2> QED BY <1>1, <2>1, <2>2, <2>3, <2>4
<1>7. CASE env.RES_OPTIONS = Unset
  <2>1. ASSUME NEW s, s.env = env, NEW f \in Setting
        PROVE  e[f] = IF Given(c, f) THEN c[f] ELSE InEnvironment(s, f)
    BY <1>2, <1>7, <2>1 DEF InEnvironment, Given
  <2> QED BY <1>1, <1>2, <1>7, <2>1
<1> QED BY <1>6, <1>7

(* The other files set the order of the lookups, if it is not known.       *)
Follows(r, d) ==
  /\ IsConf(d) /\ d.servers = r.servers /\ d.sortlist = r.sortlist
  /\ \A f \in Setting : f # "lookups" \/ Given(r.channel, f) => d.channel[f] = r.channel[f]

(* One line after another of such a file.                                  *)
TakesOrder(c, line, key, dns, names) ==
  IF line.key = key THEN Set(c, "lookups", LookupsOf(line.value, dns, names)) ELSE c

TakesOrders(t, r, file, key, dns, names) ==
  /\ t[0] = r.channel
  /\ \A k \in 1 .. Len(file.lines) : t[k] = TakesOrder(t[k - 1], file.lines[k], key, dns, names)
  /\ LookupFile(r, file, key, dns, names) =
       IF Given(r.channel, "lookups") THEN r ELSE [r EXCEPT !.channel = t[Len(file.lines)]]

LEMMA OrdersAreTaken ==
  ASSUME NEW r, IsConf(r), NEW file, IsSequence(file.lines), file.state = "read",
         NEW key, NEW dns, NEW names
  PROVE  \E t : TakesOrders(t, r, file, key, dns, names)
<1> DEFINE c == r.channel
           n == Len(file.lines)
           Put(x, k) == TakesOrder(x, file.lines[k], key, dns, names)
           Order(k) == LookupsOf(file.lines[k].value, dns, names)
           IsRun(t) == t = [k \in 0 .. n |-> IF k = 0 THEN c ELSE Put(t[k - 1], k)]
           S == {c} \cup {[c EXCEPT !.lookups = Order(k)] : k \in 1 .. n}
           step == [k \in 1 .. n |-> [x \in S |-> Put(x, k)]]
           t == CHOOSE t : IsRun(t)
<1>1. n \in Nat /\ IsChannel(c) /\ r.status = "EOF"
  BY HasLength DEF IsConf
<1>2. LookupFile(r, file, key, dns, names) =
        IF Given(c, "lookups") THEN r ELSE [r EXCEPT !.channel = t[n]]
  BY <1>1 DEF LookupFile, TakesOrder, Sets
<1>3. ASSUME NEW x \in S, NEW k \in 1 .. n PROVE Put(x, k) \in S
  <2>1. Put(x, k) \in {x, [x EXCEPT !.lookups = Order(k)]}
    BY DEF TakesOrder, Set
  <2>2. [x EXCEPT !.lookups = Order(k)] = [c EXCEPT !.lookups = Order(k)]
    BY <1>1 DEF IsChannel
  <2> QED BY <2>1, <2>2
<1>4. c \in S
  OBVIOUS
<1>5. \A x, k : Put(x, k) = TakesOrder(x, file.lines[k], key, dns, names)
  OBVIOUS
<1> HIDE DEF n, S, Put, c, Order
<1>6. step \in [1 .. n -> [S -> S]]
  BY <1>3
<1>7. \A k \in 1 .. n, x \in S : step[k][x] = Put(x, k)
  OBVIOUS
<1> HIDE DEF step
<1>8. \E u : IsRunOf(u, n, S, c, step)
  BY <1>1, <1>4, <1>6, StatesExist
<1>9. ASSUME NEW u, IsRunOf(u, n, S, c, step) PROVE IsRun(u)
  <2>1. /\ u \in [0 .. n -> S] /\ u[0] = c
        /\ \A k \in 1 .. n : u[k] = step[k][u[k - 1]]
    BY <1>9 DEF IsRunOf
  <2>2. ASSUME NEW k \in 0 .. n PROVE u[k] = IF k = 0 THEN c ELSE Put(u[k - 1], k)
    BY <1>1, <1>7, <2>1
  <2> QED BY <2>1, <2>2
<1>10. IsRun(t)
  <2> HIDE DEF IsRun
  <2> QED BY <1>8, <1>9
<1> HIDE DEF t
<1>11. t[0] = c /\ \A k \in 1 .. n : t[k] = Put(t[k - 1], k)
  <2>1. \A k \in 0 .. n : t[k] = IF k = 0 THEN c ELSE Put(t[k - 1], k)
    BY <1>10, Zenon
  <2>2. 0 \in 0 .. n /\ \A k \in 1 .. n : k \in 0 .. n /\ k # 0
    BY <1>1
  <2> QED BY <2>1, <2>2, Zenon
<1> HIDE DEF IsRun
<1>12. TakesOrders(t, r, file, key, dns, names)
  BY <1>2, <1>5, <1>11 DEF TakesOrders, n, c
<1> QED BY <1>12

LEMMA LookupFollows ==
  ASSUME NEW r, IsConf(r), NEW file, IsSequence(file.lines), file.state = "read",
         NEW key, NEW dns, NEW names
  PROVE  LET d == LookupFile(r, file, key, dns, names) IN
         /\ Follows(r, d)
         /\ d.channel.lookups = IF Given(r.channel, "lookups") THEN r.channel.lookups
                                ELSE InOrders(file.lines, key, dns, names)
<1> DEFINE lines == file.lines
           n == Len(lines)
           c == r.channel
           d == LookupFile(r, file, key, dns, names)
<1>0. PICK t : TakesOrders(t, r, file, key, dns, names)
  BY OrdersAreTaken
<1>1. /\ t[0] = c /\ \A k \in 1 .. n : t[k] = TakesOrder(t[k - 1], lines[k], key, dns, names)
      /\ d = IF Given(c, "lookups") THEN r ELSE [r EXCEPT !.channel = t[n]]
  BY <1>0 DEF TakesOrders
<1>2. n \in Nat /\ DOMAIN lines = 1 .. n
  BY HasLength
<1>3. /\ IsChannel(c) /\ r.servers \in Seq(Server) /\ r.sortlist \in Seq(Pattern)
      /\ r = [channel |-> c, servers |-> r.servers, sortlist |-> r.sortlist, status |-> "EOF"]
  BY DEF IsConf
<1> HIDE DEF n, c, d
<1> DEFINE Keeps(x) == IsChannel(x) /\ \A f \in Setting \ {"lookups"} : x[f] = c[f]
           K == {k \in 0 .. n : Keeps(t[k])}
<1>4. 0 \in K
  BY <1>1, <1>2, <1>3
<1>5. ASSUME NEW k \in 1 .. n, k - 1 \in K PROVE k \in K
  <2> DEFINE x == t[k - 1]
  <2>1. Keeps(x) /\ t[k] = TakesOrder(x, lines[k], key, dns, names)
    BY <1>1, <1>5
  <2> HIDE DEF x
  <2>2. Keeps(t[k])
    BY <2>1, SetKeeps DEF TakesOrder
  <2> QED BY <2>2
<1> HIDE DEF K, Keeps
<1>6. 0 .. n \subseteq K
  BY <1>2, <1>4, <1>5, CountsUp
<1>7. \A k \in 0 .. n : Keeps(t[k])
  BY <1>6 DEF K
<1>8. t[n].lookups = IF c.lookups # Unset THEN c.lookups ELSE InOrders(lines, key, dns, names)
  <2> DEFINE v == [k \in DOMAIN lines |->
                     IF lines[k].key = key THEN LookupsOf(lines[k].value, dns, names) ELSE Unset]
             x == [k \in 0 .. n |-> t[k].lookups]
  <2>1. InOrders(lines, key, dns, names) = FirstKnown(v) /\ DOMAIN v = 1 .. n
    BY <1>2 DEF InOrders
  <2>2. ASSUME NEW k \in 1 .. n PROVE x[k] = IF x[k - 1] # Unset THEN x[k - 1] ELSE v[k]
    <3>1. k \in 0 .. n /\ k - 1 \in 0 .. n /\ k \in DOMAIN lines
      BY <1>2
    <3>2. x[k] = t[k].lookups /\ x[k - 1] = t[k - 1].lookups
      BY <3>1
    <3>3. v[k] = IF lines[k].key = key THEN LookupsOf(lines[k].value, dns, names) ELSE Unset
      BY <3>1
    <3>4. t[k] = TakesOrder(t[k - 1], lines[k], key, dns, names) /\ IsChannel(t[k - 1])
      BY <1>1, <1>7, <3>1 DEF Keeps
    <3>5. "lookups" \in Setting
      BY DEF Setting
    <3> HIDE DEF x, v
    <3> QED BY <3>2, <3>3, <3>4, <3>5 DEF TakesOrder, Set, Given, IsChannel
  <2>3. x[0] = c.lookups /\ x[n] = t[n].lookups
    BY <1>1, <1>2
  <2> HIDE DEF v, x
  <2>4. x[n] = IF x[0] # Unset THEN x[0] ELSE FirstKnown(v)
    BY <1>2, <2>1, <2>2, FirstStays
  <2> QED BY <2>1, <2>3, <2>4
<1>9. CASE Given(c, "lookups")
  BY <1>1, <1>3, <1>9 DEF Follows, c, d
<1>10. CASE ~Given(c, "lookups")
  <2>1. d = [r EXCEPT !.channel = t[n]] /\ Keeps(t[n])
    BY <1>1, <1>2, <1>7, <1>10
  <2>2. d = [channel |-> t[n], servers |-> r.servers, sortlist |-> r.sortlist, status |-> "EOF"]
    BY <1>3, <2>1
  <2>3. Follows(r, d)
    BY <1>3, <1>10, <2>1, <2>2 DEF Follows, IsConf, Keeps, c
  <2>4. d.channel.lookups = InOrders(lines, key, dns, names)
    BY <1>8, <1>10, <2>2 DEF Given
  <2> QED BY <1>10, <2>3, <2>4 DEF c, d
<1> QED BY <1>9, <1>10

(* A file that cannot be read ends the search for it, if it is not known.  *)
GivesUp(r, d) == ~Given(r.channel, "lookups") /\ d = [r EXCEPT !.status = "EFILE"]

LEMMA LookupEnds ==
  ASSUME NEW r, IsConf(r), NEW file, IsSequence(file.lines), file.state \in {"read", "unreadable"},
         NEW key, NEW dns, NEW names
  PROVE  LET d == LookupFile(r, file, key, dns, names) IN
         \/ /\ Follows(r, d)
            /\ d.channel.lookups = IF Given(r.channel, "lookups") THEN r.channel.lookups
                                   ELSE InOrders(file.lines, key, dns, names)
         \/ GivesUp(r, d) /\ file.state = "unreadable"
<1>1. CASE file.state = "read"
  BY <1>1, LookupFollows
<1>2. CASE Given(r.channel, "lookups")
  <2>1. LookupFile(r, file, key, dns, names) = r
    BY <1>2 DEF LookupFile
  <2> QED BY <1>2, <2>1 DEF Follows
<1>3. CASE file.state = "unreadable" /\ ~Given(r.channel, "lookups")
  BY <1>3 DEF LookupFile, GivesUp, IsConf
<1> QED BY <1>1, <1>2, <1>3

(* What is known when all of the files have been read, or one could not.   *)
LookedThrough(c, files) ==
  LET nsswitch == LookupFile(ReadConf(c, files.resolv_conf.lines), files.nsswitch, "hosts:", "dns", "files")
      host == LookupFile(nsswitch, files.host_conf, "order", "bind", "hosts")
  IN LookupFile(host, files.svc_conf, "hosts=", "bind", "local")

AreFiles(files) ==
  /\ DOMAIN files = DOMAIN Bare.files
  /\ \A f \in DOMAIN files : files[f].state \in {"read", "unreadable"} /\ IsSequence(files[f].lines)
  /\ files.resolv_conf.lines \in Seq(Line)

LEMMA ConfIsRead ==
  ASSUME NEW c, IsChannel(c), NEW lines \in Seq(Line)
  PROVE  IsConf(ReadConf(c, lines)) /\ LineKeeps(Unread(c), ReadConf(c, lines))
<1>1. PICK t : IsReadingOf(t, c, lines)
  BY ReadingExists
<1>2. Len(lines) \in 0 .. Len(lines)
  BY LenProperties
<1>3. IsConf(t[Len(lines)]) /\ LineKeeps(Unread(c), t[Len(lines)])
  BY <1>1, <1>2, ConfKeeps
<1> QED BY <1>1, <1>3 DEF IsReadingOf

(* Either every file is read, or the channel has what resolv.conf says,    *)
(* without the lookups.                                                    *)
LEMMA FilesFollow ==
  ASSUME NEW c, IsChannel(c), NEW files, AreFiles(files)
  PROVE  LET conf == ReadConf(c, files.resolv_conf.lines)
             svc == LookedThrough(c, files)
             orders == InOrders(files.nsswitch.lines, "hosts:", "dns", "files")
             hosts == InOrders(files.host_conf.lines, "order", "bind", "hosts")
             others == InOrders(files.svc_conf.lines, "hosts=", "bind", "local")
         IN \/ /\ Follows(conf, svc)
               /\ svc.channel.lookups =
                    IF conf.channel.lookups # Unset THEN conf.channel.lookups
                    ELSE IF orders # Unset THEN orders ELSE IF hosts # Unset THEN hosts ELSE others
            \/ /\ \E r : Follows(conf, r) /\ GivesUp(r, svc)
               /\ \E f \in DOMAIN files : files[f].state = "unreadable"
<1> DEFINE conf == ReadConf(c, files.resolv_conf.lines)
           nsswitch == LookupFile(conf, files.nsswitch, "hosts:", "dns", "files")
           host == LookupFile(nsswitch, files.host_conf, "order", "bind", "hosts")
           svc == LookupFile(host, files.svc_conf, "hosts=", "bind", "local")
           orders == InOrders(files.nsswitch.lines, "hosts:", "dns", "files")
           hosts == InOrders(files.host_conf.lines, "order", "bind", "hosts")
           others == InOrders(files.svc_conf.lines, "hosts=", "bind", "local")
           LookupsAre(x, y, lookups) ==
             y.channel.lookups = IF Given(x.channel, "lookups") THEN x.channel.lookups ELSE lookups
           Unreadable == \E f \in DOMAIN files : files[f].state = "unreadable"
<1>1. \A f \in {"nsswitch", "host_conf", "svc_conf"} :
        f \in DOMAIN files /\ IsSequence(files[f].lines) /\ files[f].state \in {"read", "unreadable"}
  BY DEF AreFiles, Bare
<1>2. IsConf(conf)
  BY ConfIsRead DEF AreFiles
<1>3. LookedThrough(c, files) = svc
  BY DEF LookedThrough
<1> HIDE DEF conf
<1>4. \/ Follows(conf, nsswitch) /\ LookupsAre(conf, nsswitch, orders)
      \/ GivesUp(conf, nsswitch) /\ Unreadable
  BY <1>1, <1>2, LookupEnds
<1>5. \A r, file, key, dns, names : r.status = "EFILE" => LookupFile(r, file, key, dns, names) = r
  BY DEF LookupFile
<1>6. \A r, d : IsConf(r) /\ GivesUp(r, d) => d.status = "EFILE"
  BY DEF GivesUp, IsConf
<1>7. CASE GivesUp(conf, nsswitch) /\ Unreadable
  <2>1. svc = nsswitch
    <3>1. host = nsswitch
      BY <1>2, <1>5, <1>6, <1>7
    <3> QED BY <1>2, <1>5, <1>6, <1>7, <3>1
  <2>2. Follows(conf, conf)
    BY <1>2 DEF Follows
  <2> QED BY <1>3, <1>7, <2>1, <2>2 DEF conf
<1>8. CASE Follows(conf, nsswitch) /\ LookupsAre(conf, nsswitch, orders)
  <2> HIDE DEF nsswitch, orders
  <2>1. IsConf(nsswitch)
    BY <1>8 DEF Follows
  <2>2. \/ Follows(nsswitch, host) /\ LookupsAre(nsswitch, host, hosts)
        \/ GivesUp(nsswitch, host) /\ Unreadable
    BY <1>1, <2>1, LookupEnds
  <2>3. CASE GivesUp(nsswitch, host) /\ Unreadable
    <3>1. svc = host
      BY <1>5, <1>6, <2>1, <2>3
    <3> QED BY <1>3, <1>8, <2>3, <3>1 DEF conf
  <2>4. CASE Follows(nsswitch, host) /\ LookupsAre(nsswitch, host, hosts)
    <3> HIDE DEF host, hosts
    <3>1. IsConf(host) /\ Follows(conf, host)
      BY <1>8, <2>4 DEF Follows, Given
    <3>2. \/ Follows(host, svc) /\ LookupsAre(host, svc, others)
          \/ GivesUp(host, svc) /\ Unreadable
      BY <1>1, <3>1, LookupEnds
    <3>3. CASE GivesUp(host, svc) /\ Unreadable
      BY <1>3, <3>1, <3>3 DEF conf
    <3>4. CASE Follows(host, svc) /\ LookupsAre(host, svc, others)
      <4> HIDE DEF svc, others
      <4>1. Follows(conf, svc)
        BY <3>1, <3>4 DEF Follows, Given
      <4>2. svc.channel.lookups =
              IF conf.channel.lookups # Unset THEN conf.channel.lookups
              ELSE IF orders # Unset THEN orders ELSE IF hosts # Unset THEN hosts ELSE others
        BY <1>8, <2>4, <3>4 DEF Given
      <4> QED BY <1>3, <4>1, <4>2 DEF conf, orders, hosts, others
    <3> QED BY <3>2, <3>3, <3>4
  <2> QED BY <2>2, <2>3, <2>4
<1> QED BY <1>4, <1>7, <1>8

(* Files that can be read add what is not known, but for the domains.      *)
Adds(c, lines, d) ==
  LET r == ReadConf(c, lines) IN
  /\ IsChannel(d)
  /\ d.domains = r.channel.domains
  /\ \A f \in Setting \ {"domains"} :
       f \in Elsewhere \/ (Given(c, f) /\ f # "sortlist") => d[f] = c[f]
  /\ d.servers = c.servers \/ d.servers \in Seq(Server)
  /\ r.sortlist \in Seq(Pattern)
  /\ d.sortlist = (IF r.sortlist = <<>> THEN c.sortlist ELSE r.sortlist)

LEMMA FilesAdd ==
  ASSUME NEW c, IsChannel(c), ~Complete(c), NEW files, AreFiles(files),
         files.resolv_conf.state = "read", LookedThrough(c, files).status = "EOF"
  PROVE  LET d == InitByResolvConf(c, files) IN
         /\ Adds(c, files.resolv_conf.lines, d)
         /\ c.sortlist # <<>> =>
              \A f \in Setting \ {"domains"} : d[f] = IF c[f] # Unset THEN c[f] ELSE InFiles(files, f)
         /\ d.domains = IF InFiles(files, "domains") # Unset THEN InFiles(files, "domains") ELSE c.domains
<1> DEFINE lines == files.resolv_conf.lines
           conf == ReadConf(c, lines)
           svc == LookedThrough(c, files)
           Filled(x, f, value) == IF value = <<>> THEN x ELSE [x EXCEPT ![f] = value]
           d == Filled(Filled(svc.channel, "servers", svc.servers), "sortlist", svc.sortlist)
           orders == InOrders(files.nsswitch.lines, "hosts:", "dns", "files")
           hosts == InOrders(files.host_conf.lines, "order", "bind", "hosts")
           others == InOrders(files.svc_conf.lines, "hosts=", "bind", "local")
<1>1. lines \in Seq(Line)
  BY DEF AreFiles
<1>2. InitByResolvConf(c, files) = d
  BY DEF InitByResolvConf, LookedThrough
<1>3. IsConf(conf) /\ LineKeeps(Unread(c), conf)
  BY <1>1, ConfIsRead
<1>9. /\ Follows(conf, svc)
      /\ svc.channel.lookups =
           IF conf.channel.lookups # Unset THEN conf.channel.lookups
           ELSE IF orders # Unset THEN orders ELSE IF hosts # Unset THEN hosts ELSE others
  <2>1. \A r : Follows(conf, r) => ~GivesUp(r, svc)
    BY DEF Follows, GivesUp, IsConf
  <2> QED BY <2>1, FilesFollow
<1> HIDE DEF conf, svc, orders, hosts, others
<1>10. InitByResolvConf(c, files) = d /\ IsChannel(svc.channel) /\ svc.servers \in Seq(Server)
  BY <1>2, <1>9 DEF Follows, IsConf
<1>11. Given(c, "servers") => svc.servers = <<>>
  BY <1>3, <1>9 DEF Follows, LineKeeps, Unread
<1>12. /\ IsChannel(d)
       /\ d.servers = IF svc.servers = <<>> THEN svc.channel.servers ELSE svc.servers
       /\ d.sortlist = IF svc.sortlist = <<>> THEN svc.channel.sortlist ELSE svc.sortlist
       /\ \A f \in Setting \ {"servers", "sortlist"} : d[f] = svc.channel[f]
  BY <1>10 DEF IsChannel, Setting
<1> HIDE DEF d
<1>13. /\ svc.sortlist = conf.sortlist
       /\ svc.channel.domains = conf.channel.domains
       /\ svc.channel.servers = c.servers /\ svc.channel.sortlist = c.sortlist
  BY <1>3, <1>9 DEF Follows, LineKeeps, Unread, Setting
<1>14. \A f \in Setting \ {"domains"} : f \in Elsewhere \/ Given(c, f) => svc.channel[f] = c[f]
  BY <1>3, <1>9 DEF Follows, LineKeeps, Unread, Elsewhere, Given
<1>15. d.domains = conf.channel.domains
  BY <1>12, <1>13 DEF Setting
<1>16. \A f \in Setting \ {"domains"} :
         f \in Elsewhere \/ (Given(c, f) /\ f # "sortlist") => d[f] = c[f]
  BY <1>11, <1>12, <1>13, <1>14 DEF Elsewhere
<1>17. conf.sortlist \in Seq(Pattern)
  BY <1>3 DEF IsConf
<1>18. Adds(c, files.resolv_conf.lines, InitByResolvConf(c, files))
  BY <1>10, <1>12, <1>13, <1>15, <1>16, <1>17 DEF Adds, conf
<1> DEFINE said == InOrders(lines, "lookup", "bind", "file")
<1>19. /\ \A f \in ByWords :
            conf.channel[f] = IF c[f] # Unset THEN c[f] ELSE InOptionLines(lines, f)
       /\ conf.channel.lookups = IF c.lookups # Unset THEN c.lookups ELSE said
       /\ conf.channel.domains = IF InNames(lines) # Unset THEN InNames(lines) ELSE c.domains
       /\ ~Given(c, "servers") =>
            AllEntries(lines, "nameserver") = IF conf.servers = <<>> THEN Unset ELSE conf.servers
       /\ ~Given(c, "sortlist") =>
            AllEntries(lines, "sortlist") = IF conf.sortlist = <<>> THEN Unset ELSE conf.sortlist
  BY <1>1, ConfGives DEF conf
<1>20. /\ InFiles(files, "lookups") = FirstKnown(<<said, orders, hosts, others>>)
       /\ InFiles(files, "domains") = InNames(lines)
  BY DEF InFiles, orders, hosts, others
<1> HIDE DEF lines, said
<1>21. svc.channel.lookups = IF c.lookups # Unset THEN c.lookups ELSE InFiles(files, "lookups")
  BY <1>9, <1>19, <1>20, FirstOfFour
<1>22. ASSUME c.sortlist # <<>>, NEW f \in Setting \ {"domains"}
       PROVE  d[f] = IF c[f] # Unset THEN c[f] ELSE InFiles(files, f)
  <2>1. CASE f = "lookups"
    BY <1>12, <1>21, <2>1
  <2>2. CASE f = "servers"
    <3>1. InFiles(files, f) = AllEntries(lines, "nameserver") /\ svc.servers = conf.servers
      BY <1>9, <2>2 DEF InFiles, Follows, lines
    <3> QED BY <1>11, <1>12, <1>13, <1>19, <2>2, <3>1 DEF Given
  <2>3. CASE f = "sortlist"
    <3>1. InFiles(files, f) = AllEntries(lines, "sortlist")
      BY <2>3 DEF InFiles, lines
    <3>2. Given(c, "sortlist") => svc.sortlist = <<>>
      BY <1>3, <1>13 DEF LineKeeps, Unread
    <3> QED BY <1>12, <1>13, <1>19, <2>3, <3>1, <3>2 DEF Given
  <2>4. CASE f \in ByWords
    <3>1. InFiles(files, f) = InOptionLines(lines, f) /\ f \notin {"servers", "sortlist", "lookups"}
      BY <2>4 DEF InFiles, ByWords, lines
    <3>2. svc.channel[f] = conf.channel[f]
      BY <1>9, <2>4, <3>1 DEF Follows
    <3> QED BY <1>12, <1>19, <2>4, <3>1, <3>2
  <2>5. CASE f \in Elsewhere
    <3>1. /\ InFiles(files, f) = InOptionLines(lines, f)
          /\ f \notin DOMAIN WordFor /\ f \notin {"servers", "sortlist", "lookups"}
      BY <2>5 DEF InFiles, Elsewhere, WordFor, lines
    <3>2. \A words : InWords(words, f) = Unset
      BY <3>1, NothingIsKnown DEF InWords
    <3>3. InOptionLines(lines, f) = Unset
      BY <3>2, NothingIsKnown DEF InOptionLines
    <3>4. svc.channel[f] = c[f]
      BY <1>14, <2>5
    <3> QED BY <1>12, <3>1, <3>3, <3>4
  <2> QED BY <1>22, <2>1, <2>2, <2>3, <2>4, <2>5 DEF Setting, ByWords, Elsewhere
<1>23. InitByResolvConf(c, files) = d
  BY <1>10
<1> QED BY <1>15, <1>18, <1>19, <1>20, <1>22, <1>23

(* If a file cannot be read, the channel is left with what resolv.conf has *)
(* said, but for its servers, its sort list and the lookups.               *)
Loses(c, lines, d) ==
  /\ IsChannel(d)
  /\ c.lookups = Unset /\ d.lookups = Unset
  /\ \A f \in Setting \ {"lookups"} : d[f] = ReadConf(c, lines).channel[f]

LEMMA FilesLose ==
  ASSUME NEW c, IsChannel(c), ~Complete(c), NEW files, AreFiles(files),
         files.resolv_conf.state = "read", LookedThrough(c, files).status # "EOF"
  PROVE  /\ Loses(c, files.resolv_conf.lines, InitByResolvConf(c, files))
         /\ \E f \in DOMAIN files : files[f].state = "unreadable"
<1> DEFINE lines == files.resolv_conf.lines
           conf == ReadConf(c, lines)
           svc == LookedThrough(c, files)
<1>1. InitByResolvConf(c, files) = svc.channel
  BY DEF InitByResolvConf, LookedThrough
<1>2. IsConf(conf) /\ LineKeeps(Unread(c), conf)
  BY ConfIsRead DEF AreFiles
<1>3. \A r : IsConf(r) => r.status = "EOF"
  BY DEF IsConf
<1>4. /\ \E r : Follows(conf, r) /\ GivesUp(r, svc)
      /\ \E f \in DOMAIN files : files[f].state = "unreadable"
  <2>1. ~Follows(conf, svc)
    BY <1>3 DEF Follows
  <2> QED BY <2>1, FilesFollow
<1>5. PICK r : Follows(conf, r) /\ GivesUp(r, svc)
  BY <1>4
<1> HIDE DEF svc, conf
<1>6. IsConf(r) /\ svc.channel = r.channel /\ r.channel.lookups = Unset
  BY <1>5 DEF Follows, GivesUp, IsConf, Given
<1>7. \A f \in Setting \ {"lookups"} : r.channel[f] = conf.channel[f]
  BY <1>5 DEF Follows
<1>8. conf.channel.lookups = Unset /\ "lookups" \in Setting
  BY <1>5, <1>6 DEF Follows, Given, Setting
<1>9. c.lookups = Unset
  BY <1>2, <1>8 DEF LineKeeps, Unread, Given
<1>10. Loses(c, lines, svc.channel)
  BY <1>6, <1>7, <1>9 DEF Loses, IsConf, conf
<1> QED BY <1>1, <1>4, <1>10

(* Files that can be read are read.                                        *)
LEMMA FilesEnd ==
  ASSUME NEW c, IsChannel(c), NEW files, AreFiles(files), \A f \in DOMAIN files : files[f].state = "read"
  PROVE  LookedThrough(c, files).status = "EOF"
<1>1. Follows(ReadConf(c, files.resolv_conf.lines), LookedThrough(c, files))
  BY FilesFollow
<1> QED BY <1>1 DEF Follows, IsConf
-----------------------------------------------------------------------------
(* A channel made in some surroundings: what it found in them, and what    *)
(* the defaults made of it.                                                *)
Sought(s) == InitByEnvironment(InitByOptions(Blank, s.options), s.env)

Sourced(s) == InitByResolvConf(Sought(s), s.files)

Made(s) == InitByDefaults(Sourced(s), s.hostdomain)

LEMMA IsInitOptions ==
  ASSUME NEW s
  PROVE  InitOptions(s) = IF Made(s).flags = "PRIMARY"
                          THEN [Made(s) EXCEPT !.servers = FirstOf(@)] ELSE Made(s)
BY DEF InitOptions, TrimServers, Made, Sourced, Sought

LEMMA EmptyIsGiven == Unset # <<>> /\ \A x \in Seq(Server) \cup Seq(Pattern) : x # Unset
<1>1. <<>> \in Seq(Server)
  BY EmptySeq
<1>2. Unset \notin Seq(Server) /\ Unset \notin Seq(Pattern)
  BY ServerAssumption
<1> QED BY <1>1, <1>2

LEMMA SoughtIs ==
  ASSUME NEW s, AreSurroundings(s)
  PROVE  /\ IsChannel(Sought(s))
         /\ Sought(s).servers \in Seq(Server) \cup {Unset}
         /\ Sought(s).sortlist # <<>>
<1> DEFINE asked == InitByOptions(Blank, s.options)
<1>1. IsChannel(asked)
  BY DEF IsChannel, InitByOptions
<1>2. asked.servers \in Seq(Server) \cup {Unset}
  BY DEF InitByOptions, AreSurroundings, Setting, Blank
<1>3. asked.sortlist # <<>>
  BY EmptyIsGiven DEF InitByOptions, Setting, Blank, Given
<1>4. s.env.RES_OPTIONS # Unset => IsSequence(s.env.RES_OPTIONS)
  BY DEF AreSurroundings
<1>5. Sought(s) = InitByEnvironment(asked, s.env)
  BY DEF Sought
<1> HIDE DEF asked
<1>6. /\ IsChannel(Sought(s))
      /\ \A f \in Setting : f \notin ByWords \cup {"domains"} => Sought(s)[f] = asked[f]
  BY <1>1, <1>4, <1>5, EnvironmentAdds
<1> QED BY <1>2, <1>3, <1>6 DEF ByWords, Setting

(* What the files come to: nothing without resolv.conf, or all, or less.   *)
LEMMA SourcedIs ==
  ASSUME NEW s, AreSurroundings(s)
  PROVE  LET c == Sought(s)
             d == Sourced(s)
             conf == s.files.resolv_conf
         IN /\ IsChannel(d)
            /\ d.servers \in Seq(Server) \cup {Unset}
            /\ d.sortlist # <<>>
            /\ Complete(c) => d = c
            /\ conf.state # "read" => d = c
            /\ ~Complete(c) /\ conf.state = "read" =>
                 \/ Adds(c, conf.lines, d) /\ LookedThrough(c, s.files).status = "EOF"
                 \/ Loses(c, conf.lines, d) /\ ~FilesAreRead(s)
<1> DEFINE c == Sought(s)
           d == Sourced(s)
           files == s.files
           conf == files.resolv_conf
<1>1. IsChannel(c) /\ c.servers \in Seq(Server) \cup {Unset} /\ c.sortlist # <<>>
  BY SoughtIs
<1>2. AreFiles(files)
  BY DEF AreSurroundings, AreFiles
<1>3. d = InitByResolvConf(c, files)
  BY DEF Sourced
<1> HIDE DEF c, d
<1>4. CASE Complete(c)
  <2>1. d = c
    BY <1>3, <1>4 DEF InitByResolvConf
  <2> QED BY <1>1, <1>4, <2>1 DEF c, d
<1>5. CASE ~Complete(c) /\ conf.state # "read"
  <2>1. conf.state = "unreadable"
    BY <1>2, <1>5 DEF AreFiles, Bare
  <2> DEFINE start == ReadConf(c, <<>>)
             failed == [start EXCEPT !.status = "EFILE"]
  <2>2. IsConf(start) /\ start.channel = c
    <3>1. <<>> \in Seq(Line) /\ Len(<<>>) = 0
      BY EmptySeq
    <3>2. PICK t : IsReadingOf(t, c, <<>>)
      BY <1>1, <3>1, ReadingExists
    <3>3. start = Unread(c)
      BY <3>1, <3>2 DEF IsReadingOf
    <3>4. IsConf(start)
      BY <1>1, <3>1, ConfIsRead
    <3> HIDE DEF start
    <3> QED BY <3>3, <3>4 DEF Unread
  <2> HIDE DEF start
  <2>3. failed.status = "EFILE" /\ failed.channel = c
    BY <2>2 DEF IsConf
  <2>4. \A file, key, dns, names : LookupFile(failed, file, key, dns, names) = failed
    BY <2>3 DEF LookupFile
  <2>5. InitByResolvConf(c, files) = failed.channel
    <3>1. failed = [ReadConf(c, <<>>) EXCEPT !.status = "EFILE"]
      BY DEF start
    <3> HIDE DEF failed
    <3> DEFINE read == IF conf.state = "unreadable" THEN [ReadConf(c, <<>>) EXCEPT !.status = "EFILE"]
                       ELSE ReadConf(c, conf.lines)
               nsswitch == LookupFile(read, files.nsswitch, "hosts:", "dns", "files")
               host == LookupFile(nsswitch, files.host_conf, "order", "bind", "hosts")
               svc == LookupFile(host, files.svc_conf, "hosts=", "bind", "local")
    <3>2. read = failed
      BY <2>1, <3>1
    <3> HIDE DEF read
    <3>3. nsswitch = failed
      BY <2>4, <3>2
    <3> HIDE DEF nsswitch
    <3>4. host = failed
      BY <2>4, <3>3
    <3> HIDE DEF host
    <3>5. svc = failed
      BY <2>4, <3>4
    <3>6. ~Complete(c) /\ svc.status # "EOF" => InitByResolvConf(c, files) = svc.channel
      BY DEF InitByResolvConf, read, nsswitch, host
    <3> HIDE DEF svc
    <3> QED BY <1>5, <2>3, <3>5, <3>6
  <2>6. d = c
    BY <1>3, <2>3, <2>5
  <2> QED BY <1>1, <1>5, <2>6 DEF c, d
<1>6. CASE ~Complete(c) /\ conf.state = "read" /\ LookedThrough(c, files).status = "EOF"
  <2>1. Adds(c, conf.lines, d)
    BY <1>1, <1>2, <1>3, <1>6, FilesAdd
  <2> QED BY <1>1, <1>6, <2>1 DEF Adds, c, d
<1>7. CASE ~Complete(c) /\ conf.state = "read" /\ LookedThrough(c, files).status # "EOF"
  <2>1. Loses(c, conf.lines, d) /\ ~FilesAreRead(s)
    BY <1>1, <1>2, <1>3, <1>7, FilesLose DEF FilesAreRead
  <2>2. /\ ReadConf(c, conf.lines).channel.servers = c.servers
        /\ ReadConf(c, conf.lines).channel.sortlist = c.sortlist
    BY <1>1, <1>2, ConfIsRead DEF AreFiles, LineKeeps, Unread, Setting
  <2>3. d.servers = c.servers /\ d.sortlist = c.sortlist
    BY <2>1, <2>2 DEF Loses, Setting
  <2> QED BY <1>1, <1>7, <2>1, <2>3 DEF Loses, c, d
<1> QED BY <1>4, <1>5, <1>6, <1>7

LEMMA MadeIs ==
  ASSUME NEW s, AreSurroundings(s), IsChannel(Sourced(s)),
         Sourced(s).servers \in Seq(Server) \cup {Unset}
  PROVE  /\ IsChannel(Made(s)) /\ \A f \in Setting : Given(Made(s), f)
         /\ Made(s).servers \in Seq(Server)
<1>1. Made(s) = [f \in Setting |-> IF Given(Sourced(s), f) THEN Sourced(s)[f]
                                   ELSE Default(f, s.hostdomain)]
  BY DEF Made, InitByDefaults
<1>2. \A f \in Setting : Default(f, s.hostdomain) # Unset
  BY DEF AreSurroundings
<1>3. Default("servers", s.hostdomain) \in Seq(Server)
  <2> DEFINE local == "127.0.0.1"
  <2>1. Default("servers", s.hostdomain) = <<local>>
    BY DEF Default
  <2>2. local \in Server
    BY ServerAssumption
  <2> HIDE DEF local
  <2>3. <<local>> \in Seq(Server)
    BY <2>2
  <2> QED BY <2>1, <2>3
<1> QED BY <1>1, <1>2, <1>3 DEF IsChannel, Given, Setting

LEMMA FirstOfIs ==
  ASSUME NEW x \in Seq(Server)
  PROVE  FirstOf(x) \in Seq(Server) /\ FirstOf(FirstOf(x)) = FirstOf(x)
<1>1. CASE x = <<>>
  BY <1>1 DEF FirstOf
<1>2. CASE x # <<>>
  <2> DEFINE y == <<Head(x)>>
  <2>1. Head(x) \in Server
    BY <1>2, HeadTailProperties
  <2>2. y \in Seq(Server) /\ y # <<>> /\ Head(y) = Head(x)
    BY <2>1
  <2>3. FirstOf(x) = y /\ FirstOf(y) = y
    BY <1>2, <2>2 DEF FirstOf
  <2> QED BY <2>2, <2>3
<1> QED BY <1>1, <1>2

(* What is known of the channel that is duplicated.                        *)
IsMade(s, c) ==
  /\ IsChannel(c) /\ c.servers \in Seq(Server)
  /\ \A f \in Setting : Given(c, f) /\ (f # "servers" => c[f] = Made(s)[f])
  /\ c.flags = "PRIMARY" => FirstOf(c.servers) = c.servers

LEMMA ChannelIsMade ==
  ASSUME NEW s, AreSurroundings(s)
  PROVE  IsMade(s, InitOptions(s))
<1> DEFINE m == Made(s)
           c == InitOptions(s)
           x == FirstOf(m.servers)
<1>1. /\ IsChannel(m) /\ \A f \in Setting : Given(m, f)
      /\ m.servers \in Seq(Server)
  BY SourcedIs, MadeIs
<1>2. c = IF m.flags = "PRIMARY" THEN [m EXCEPT !.servers = x] ELSE m
  BY IsInitOptions
<1>3. x \in Seq(Server) /\ FirstOf(x) = x
  BY <1>1, FirstOfIs
<1>4. m = Made(s)
  OBVIOUS
<1> HIDE DEF m, x, c
<1>5. "servers" \in Setting /\ "flags" \in Setting
  BY DEF Setting
<1>6. CASE m.flags = "PRIMARY"
  <2>1. c = [m EXCEPT !.servers = x]
    BY <1>2, <1>6
  <2>2. IsChannel(c) /\ c.servers = x /\ \A f \in Setting \ {"servers"} : c[f] = m[f]
    BY <1>1, <1>5, <2>1 DEF IsChannel
  <2>3. Unset # x
    BY <1>3, EmptyIsGiven
  <2> QED BY <1>1, <1>3, <1>4, <2>2, <2>3 DEF IsMade, Given, c
<1>7. CASE m.flags # "PRIMARY"
  BY <1>1, <1>2, <1>4, <1>5, <1>7 DEF IsMade, c
<1> QED BY <1>6, <1>7

(* The duplicate finds what its options, those of the channel, leave open: *)
(* a sort list where the channel has an empty one.                         *)
LEMMA SoughtAgain ==
  ASSUME NEW s, AreSurroundings(s), NEW c, IsMade(s, c), NEW t, NEW p \in Seq(Server),
         t.options = Saved(c, s.options), t.options.servers = p, t.env = s.env
  PROVE  LET d == Sought(t)
         IN /\ IsChannel(d) /\ d.servers = p
            /\ d.sortlist = IF c.sortlist = <<>> THEN Unset ELSE c.sortlist
            /\ \A f \in Setting \ {"rotate", "servers", "sortlist"} : d[f] = c[f]
<1> DEFINE asked == InitByOptions(Blank, t.options)
           d == Sought(t)
<1>1. /\ IsChannel(c) /\ p # Unset
      /\ \A f \in Setting : c[f] # Unset
  BY EmptyIsGiven DEF IsMade, Given
<1>2. /\ Setting \ {"rotate"} \subseteq DOMAIN t.options
      /\ t.options.servers = p
      /\ \A f \in Setting \ {"rotate", "servers"} : t.options[f] = c[f]
  BY DEF Saved, Setting
<1>3. /\ IsChannel(asked) /\ asked.servers = p
      /\ asked.sortlist = IF c.sortlist = <<>> THEN Unset ELSE c.sortlist
      /\ \A f \in Setting \ {"rotate", "servers", "sortlist"} : asked[f] = c[f]
  BY <1>2 DEF InitByOptions, Blank, Given, IsChannel, Setting
<1>4. s.env.RES_OPTIONS # Unset => IsSequence(s.env.RES_OPTIONS)
  BY DEF AreSurroundings
<1>5. d = InitByEnvironment(asked, s.env)
  BY DEF Sought
<1> HIDE DEF asked, d
<1>6. /\ IsChannel(d)
      /\ \A f \in Setting : f \notin ByWords \cup {"domains"} \/ Given(asked, f) => d[f] = asked[f]
  BY <1>3, <1>4, <1>5, EnvironmentAdds
<1>7. d.servers = p /\ d.sortlist = asked.sortlist
  BY <1>3, <1>6 DEF ByWords, Setting
<1>8. \A f \in Setting \ {"rotate", "servers", "sortlist"} : d[f] = c[f]
  BY <1>1, <1>3, <1>6 DEF Given
<1> QED BY <1>3, <1>6, <1>7, <1>8 DEF d

LEMMA SourcedAgain ==
  ASSUME NEW s, AreSurroundings(s), NEW c, IsMade(s, c), NEW t,
         NEW p \in Seq(Server), t.options = Saved(c, s.options), t.options.servers = p,
         t.env = s.env, t.files = s.files, AreSurroundings(t)
  PROVE  LET d == Sourced(t)
         IN /\ IsChannel(d) /\ d.servers = p
            /\ FilesAreRead(s) => d.sortlist = IF c.sortlist = <<>> THEN Unset ELSE c.sortlist
            /\ d.domains \in {c.domains, Sourced(s).domains}
            /\ \A f \in Setting \ {"rotate", "servers", "sortlist", "domains"} : d[f] = c[f]
<1> DEFINE conf == s.files.resolv_conf
           lines == conf.lines
           a == Sought(s)
           b == Sourced(s)
           e == Sought(t)
           d == Sourced(t)
           r == ReadConf(a, lines)
           q == ReadConf(e, lines)
<1>1. /\ IsChannel(c) /\ p # Unset /\ Unset # <<>>
      /\ \A f \in Setting : c[f] # Unset
  BY EmptyIsGiven DEF IsMade, Given
<1>2. /\ IsChannel(e) /\ e.servers = p
      /\ e.sortlist = IF c.sortlist = <<>> THEN Unset ELSE c.sortlist
      /\ \A f \in Setting \ {"rotate", "servers", "sortlist"} : e[f] = c[f]
  BY SoughtAgain
<1>3. /\ lines \in Seq(Line)
      /\ FilesAreRead(s) => conf.state = "read"
  BY DEF FilesAreRead, AreSurroundings, Bare
<1>4. /\ IsChannel(d)
      /\ Complete(e) \/ conf.state # "read" => d = e
      /\ ~Complete(e) /\ conf.state = "read" => Adds(e, lines, d)
  <2>1. e.lookups # Unset
    BY <1>1, <1>2 DEF Setting
  <2>2. ~Loses(e, lines, d)
    BY <2>1 DEF Loses
  <2> QED BY <2>2, SourcedIs
<1>5. /\ IsChannel(a) /\ a.sortlist # <<>>
      /\ Complete(a) => b = a
      /\ ~Complete(a) /\ conf.state = "read" =>
           Adds(a, lines, b) \/ (Loses(a, lines, b) /\ ~FilesAreRead(s))
  BY SoughtIs, SourcedIs
<1>6. c.sortlist = IF Given(b, "sortlist") THEN b.sortlist ELSE <<>>
  BY DEF IsMade, Made, InitByDefaults, Default, Setting
<1> HIDE DEF a, b, d, e, lines, conf
<1>7. CASE Complete(e) \/ conf.state # "read"
  <2>1. d = e
    BY <1>4, <1>7
  <2>2. d.domains = c.domains
    BY <1>2, <2>1 DEF Setting
  <2> QED BY <1>2, <2>1, <2>2 DEF b, d
<1>8. CASE ~Complete(e) /\ conf.state = "read"
  <2>1. c.sortlist = <<>> /\ ~Given(e, "sortlist") /\ Adds(e, lines, d)
    BY <1>1, <1>2, <1>4, <1>8 DEF Complete, Given, Setting
  <2>2. b.sortlist \in {Unset, <<>>}
    BY <1>6, <2>1 DEF Given
  <2>3. ~Complete(a)
    BY <1>5, <2>2 DEF Complete, Given
  <2>4. Adds(a, lines, b) \/ (Loses(a, lines, b) /\ ~FilesAreRead(s))
    BY <1>5, <1>8, <2>3
  <2>5. ASSUME FilesAreRead(s) PROVE d.sortlist = Unset
    <3>1. Adds(a, lines, b)
      BY <2>4, <2>5
    <3>2. b.sortlist = IF r.sortlist = <<>> THEN a.sortlist ELSE r.sortlist
      BY <3>1 DEF Adds
    <3>3. r.sortlist = <<>> /\ ~Given(a, "sortlist")
      <4>1. CASE r.sortlist = <<>>
        BY <1>5, <2>2, <3>2, <4>1 DEF Given
      <4>2. CASE r.sortlist # <<>>
        <5>1. r.sortlist = Unset
          BY <2>2, <3>2, <4>2
        <5>2. r.sortlist # Unset
          BY <3>1, EmptyIsGiven DEF Adds
        <5> QED BY <5>1, <5>2
      <4> QED BY <4>1, <4>2
    <3>4. SameFound(a, r, e, q)
      BY <1>2, <1>3, <1>5, <2>1, <3>3, ConfsAreSame DEF lines
    <3> QED BY <1>2, <2>1, <3>3, <3>4 DEF Adds, SameFound
  <2>6. d.domains \in {c.domains, b.domains}
    <3>1. d.domains = q.channel.domains /\ b.domains = r.channel.domains
      BY <2>1, <2>4 DEF Adds, Loses, Setting
    <3>2. e.domains = c.domains
      BY <1>2 DEF Setting
    <3>3. /\ q.channel.domains = IF InNames(lines) # Unset THEN InNames(lines) ELSE e.domains
          /\ r.channel.domains = IF InNames(lines) # Unset THEN InNames(lines) ELSE a.domains
      BY <1>2, <1>3, <1>5, ConfGives DEF lines
    <3> QED BY <3>1, <3>2, <3>3
  <2>7. d.servers = p
    BY <1>1, <1>2, <2>1 DEF Adds, Given, Setting
  <2>8. \A f \in Setting \ {"rotate", "servers", "sortlist", "domains"} : d[f] = c[f]
    BY <1>1, <1>2, <2>1 DEF Adds, Given, Elsewhere
  <2> QED BY <1>4, <2>1, <2>5, <2>6, <2>7, <2>8 DEF b, d
<1> QED BY <1>7, <1>8

(* A channel duplicated in its surroundings is the same but for rotation,  *)
(* and for the sort list if a file cannot be read.                         *)
LEMMA DuplicateIsSame ==
  ASSUME NEW s, AreSurroundings(s)
  PROVE  IsKept(s)
<1> SUFFICES ASSUME NEW g \in Setting \ {"rotate"}, g = "sortlist" => FilesAreRead(s)
             PROVE  Dup(InitOptions(s), s)[g] = InitOptions(s)[g]
  BY DEF IsKept
<1> DEFINE c == InitOptions(s)
           t == [s EXCEPT !.options = Saved(c, s.options)]
           p == t.options.servers
           places == {i \in DOMAIN c.servers : IsIPv4(c.servers[i])}
           m == Made(t)
           made == InitOptions(t)
           x == FirstOf(m.servers)
<1>1. IsMade(s, c) /\ c.servers \in Seq(Server)
  <2>1. IsMade(s, c)
    BY ChannelIsMade
  <2> QED BY <2>1 DEF IsMade
<1>2. /\ t.options = Saved(c, s.options) /\ t.env = s.env /\ t.files = s.files
      /\ t.hostdomain = s.hostdomain /\ DOMAIN t = DOMAIN s
  BY DEF AreSurroundings, Bare
<1>3. p = Picked(c.servers, places)
  BY <1>2 DEF Saved, Setting
<1>4. p \in Seq(Server) /\ (DOMAIN c.servers \subseteq places => p = c.servers)
  <2>1. IsSequence(c.servers)
    BY <1>1, InSequence
  <2>2. \A i \in DOMAIN c.servers : c.servers[i] \in Server
    BY <1>1, LenProperties
  <2> HIDE DEF c, p, places
  <2> QED BY <1>3, <2>1, <2>2, PickedIs
<1>5. Dup(c, s) = IF ~ (DOMAIN c.servers \subseteq places)
                  THEN [made EXCEPT !.servers = c.servers] ELSE made
  BY DEF Dup, SetServers
<1>6. made = IF m.flags = "PRIMARY" THEN [m EXCEPT !.servers = x] ELSE m
  BY IsInitOptions
<1> HIDE DEF c, t, places, made
<1>7. AreSurroundings(t)
  BY <1>2, <1>4 DEF AreSurroundings
<1> DEFINE d == Sourced(t)
<1>8. /\ IsChannel(d) /\ d.servers = p
      /\ FilesAreRead(s) => d.sortlist = IF c.sortlist = <<>> THEN Unset ELSE c.sortlist
      /\ d.domains \in {c.domains, Sourced(s).domains}
      /\ \A f \in Setting \ {"rotate", "servers", "sortlist", "domains"} : d[f] = c[f]
  BY <1>1, <1>2, <1>4, <1>7, SourcedAgain
<1>9. m = [f \in Setting |-> IF Given(d, f) THEN d[f] ELSE Default(f, s.hostdomain)]
  BY <1>2 DEF Made, InitByDefaults
<1> HIDE DEF d, m, p
<1>10. \A f \in Setting : c[f] # Unset
  BY <1>1 DEF IsMade, Given
<1>11. m.servers = p
  BY <1>4, <1>8, <1>9, EmptyIsGiven DEF Given, Setting
<1>12. \A f \in Setting \ {"rotate", "servers", "sortlist", "domains"} : m[f] = c[f]
  BY <1>8, <1>9, <1>10 DEF Given
<1>13. FilesAreRead(s) => m.sortlist = c.sortlist
  BY <1>8, <1>9, <1>10, EmptyIsGiven DEF Given, Default, Setting
<1>14. m.domains = c.domains
  <2>1. CASE d.domains = c.domains
    BY <1>9, <1>10, <2>1 DEF Given, Setting
  <2>2. CASE d.domains = Sourced(s).domains
    <3>1. c.domains = IF Given(Sourced(s), "domains") THEN Sourced(s).domains
                      ELSE Default("domains", s.hostdomain)
      BY <1>1 DEF IsMade, Made, InitByDefaults, Setting
    <3>2. m.domains = IF Given(d, "domains") THEN d.domains ELSE Default("domains", s.hostdomain)
      BY <1>9 DEF Setting
    <3> QED BY <2>2, <3>1, <3>2 DEF Given
  <2> QED BY <1>8, <2>1, <2>2
<1> DEFINE Kept == Setting \ ({"rotate", "servers"} \cup IF FilesAreRead(s) THEN {} ELSE {"sortlist"})
<1>15. "flags" \in Kept /\ \A f \in Kept : m[f] = c[f]
  BY <1>12, <1>13, <1>14 DEF Setting
<1> HIDE DEF Kept
<1>16. IsChannel(m)
  BY <1>9 DEF IsChannel
<1>17. made.servers = (IF c.flags = "PRIMARY" THEN FirstOf(p) ELSE p) /\ IsChannel(made)
  BY <1>6, <1>11, <1>15, <1>16 DEF IsChannel, Setting
<1>18. \A f \in Kept : made[f] = c[f]
  BY <1>6, <1>15, <1>16 DEF IsChannel, Kept
<1>19. CASE DOMAIN c.servers \subseteq places
  <2>1. Dup(c, s) = made /\ p = c.servers
    BY <1>4, <1>5, <1>19
  <2>2. made.servers = c.servers
    BY <1>1, <1>17, <2>1 DEF IsMade
  <2> QED BY <1>18, <2>1, <2>2 DEF c, Kept
<1>20. CASE ~ (DOMAIN c.servers \subseteq places)
  <2>1. Dup(c, s) = [made EXCEPT !.servers = c.servers]
    BY <1>5, <1>20
  <2>2. \A f \in Kept \cup {"servers"} : Dup(c, s)[f] = c[f]
    BY <1>17, <1>18, <2>1 DEF IsChannel, Kept, Setting
  <2> QED BY <2>2 DEF c, Kept
<1> QED BY <1>19, <1>20

-----------------------------------------------------------------------------
(* What is known of a setting when one source after another was asked.     *)
LEMMA SoughtSays ==
  ASSUME NEW s, AreSurroundings(s)
  PROVE  /\ \A f \in Setting : Sought(s)[f] = IF InOptions(s, f) # Unset THEN InOptions(s, f)
                                             ELSE InEnvironment(s, f)
         /\ NeedsFiles(s) <=> ~Complete(Sought(s))
<1> DEFINE asked == InitByOptions(Blank, s.options)
<1>1. IsChannel(asked) /\ \A f \in Setting : asked[f] = InOptions(s, f)
  BY DEF IsChannel, InitByOptions, Blank, Given, InOptions
<1>2. s.env.RES_OPTIONS # Unset => IsSequence(s.env.RES_OPTIONS)
  BY DEF AreSurroundings
<1>3. Sought(s) = InitByEnvironment(asked, s.env)
  BY DEF Sought
<1> HIDE DEF asked
<1>4. \A f \in Setting : Sought(s)[f] = IF Given(asked, f) THEN asked[f] ELSE InEnvironment(s, f)
  BY <1>1, <1>2, <1>3, EnvironmentAdds
<1>5. \A f \in Setting : Sought(s)[f] = IF InOptions(s, f) # Unset THEN InOptions(s, f)
                                        ELSE InEnvironment(s, f)
  BY <1>1, <1>4 DEF Given
<1>6. {"lookups", "sortlist", "servers", "domains", "ndots", "timeout", "tries"} \subseteq Setting
  BY DEF Setting
<1>7. NeedsFiles(s) <=> ~Complete(Sought(s))
  BY <1>5, <1>6 DEF NeedsFiles, Complete, Given
<1> QED BY <1>5, <1>7

(* What the files may take with them if one of them cannot be read.        *)
Losable == {"servers", "sortlist", "lookups"}

(* What the files have to say of a setting.                                *)
Filed(s, f) ==
  IF NeedsFiles(s) /\ s.files.resolv_conf.state = "read" THEN InFiles(s.files, f) ELSE Unset

Or(x, y) == IF x # Unset THEN x ELSE y

LEMMA SourcedSays ==
  ASSUME NEW s, AreSurroundings(s), NEW f \in Setting
  PROVE  \/ f # "domains" /\ Sourced(s)[f] = Or(Sought(s)[f], Filed(s, f))
         \/ f = "domains" /\ Sourced(s)[f] = Or(Filed(s, f), Sought(s)[f])
         \/ f \in Losable /\ ~FilesAreRead(s) /\ Sourced(s)[f] = Sought(s)[f]
<1> DEFINE c == Sought(s)
           d == Sourced(s)
           files == s.files
           lines == files.resolv_conf.lines
           conf == ReadConf(c, lines)
<1>1. IsChannel(c) /\ c.sortlist # <<>> /\ (NeedsFiles(s) <=> ~Complete(c))
  BY SoughtIs, SoughtSays
<1>2. AreFiles(files) /\ lines \in Seq(Line)
  BY DEF AreSurroundings, AreFiles
<1>3. d = InitByResolvConf(c, files)
  BY DEF Sourced
<1>4. /\ Complete(c) \/ files.resolv_conf.state # "read" => d = c
      /\ ~Complete(c) /\ files.resolv_conf.state = "read" =>
           \/ Adds(c, lines, d) /\ LookedThrough(c, files).status = "EOF"
           \/ Loses(c, lines, d) /\ ~FilesAreRead(s)
  BY SourcedIs
<1> HIDE DEF c, d, files
<1>5. CASE ~NeedsFiles(s) \/ files.resolv_conf.state # "read"
  <2>1. Filed(s, f) = Unset
    BY <1>5 DEF Filed, files
  <2>2. d = c
    BY <1>1, <1>4, <1>5, Zenon
  <2> QED BY <2>1, <2>2 DEF c, d, Or
<1>6. CASE NeedsFiles(s) /\ files.resolv_conf.state = "read"
  <2>1. Filed(s, f) = InFiles(files, f)
    BY <1>6 DEF Filed, files
  <2>2. ~Complete(c)
    BY <1>1, <1>6, Zenon
  <2>3. CASE LookedThrough(c, files).status = "EOF"
    <3>1. /\ \A g \in Setting \ {"domains"} : d[g] = IF c[g] # Unset THEN c[g] ELSE InFiles(files, g)
          /\ d.domains = IF InFiles(files, "domains") # Unset THEN InFiles(files, "domains") ELSE c.domains
      BY <1>1, <1>2, <1>3, <1>6, <2>2, <2>3, FilesAdd
    <3> QED BY <2>1, <3>1 DEF c, d, Or
  <2>4. CASE Loses(c, lines, d) /\ ~FilesAreRead(s)
    <3>1. LineKeeps(Unread(c), conf)
      BY <1>1, <1>2, ConfIsRead
    <3>2. /\ \A g \in ByWords :
               conf.channel[g] = IF c[g] # Unset THEN c[g] ELSE InOptionLines(lines, g)
          /\ conf.channel.domains = IF InNames(lines) # Unset THEN InNames(lines) ELSE c.domains
      BY <1>1, <1>2, ConfGives
    <3>3. /\ c.lookups = Unset /\ d.lookups = Unset
          /\ \A g \in Setting \ {"lookups"} : d[g] = conf.channel[g]
      BY <2>4 DEF Loses
    <3> HIDE DEF conf
    <3>4. \A g \in Elsewhere \cup {"servers", "sortlist"} : g \in Setting /\ conf.channel[g] = c[g]
      BY <3>1 DEF LineKeeps, Unread, Elsewhere, Setting
    <3>5. CASE f \in Losable
      <4>1. d[f] = c[f]
        BY <3>3, <3>4, <3>5 DEF Losable
      <4> QED BY <2>4, <3>5, <4>1 DEF c, d
    <3>6. CASE f = "domains"
      <4>1. InFiles(files, f) = InNames(lines) /\ d[f] = conf.channel[f]
        BY <3>3, <3>6 DEF InFiles
      <4> QED BY <2>1, <3>2, <3>6, <4>1 DEF c, d, Or
    <3>7. CASE f \in ByWords
      <4>1. InFiles(files, f) = InOptionLines(lines, f) /\ d[f] = conf.channel[f] /\ f # "domains"
        BY <3>3, <3>7 DEF InFiles, ByWords
      <4> QED BY <2>1, <3>2, <3>7, <4>1 DEF c, d, Or
    <3>8. CASE f \in Elsewhere
      <4>1. /\ InFiles(files, f) = InOptionLines(lines, f)
            /\ f \notin DOMAIN WordFor /\ f # "domains" /\ d[f] = c[f]
        BY <3>3, <3>4, <3>8 DEF InFiles, Elsewhere, WordFor
      <4>2. \A words : InWords(words, f) = Unset
        BY <4>1, NothingIsKnown DEF InWords
      <4>3. InOptionLines(lines, f) = Unset
        BY <4>2, NothingIsKnown DEF InOptionLines
      <4> QED BY <2>1, <4>1, <4>3 DEF c, d, Or
    <3> QED BY <3>5, <3>6, <3>7, <3>8 DEF Setting, ByWords, Elsewhere, Losable
  <2> QED BY <1>4, <1>6, <2>2, <2>3, <2>4
<1> QED BY <1>5, <1>6

LEMMA FirstIsTaken ==
  ASSUME NEW s, AreSurroundings(s)
  PROVE  TakesFirst(s)
<1> DEFINE channel == InitOptions(s)
           m == Made(s)
           p(f) == InOptions(s, f)
           q(f) == InEnvironment(s, f)
           default(f) == Default(f, s.hostdomain)
           Wanted(f, filed) == FirstKnown(<<p(f), q(f), filed, default(f)>>)
           Taken(f, filed) ==
             channel[f] = IF f = "servers" /\ channel.flags = "PRIMARY" THEN FirstOf(Wanted(f, filed))
                          ELSE Wanted(f, filed)
<1> SUFFICES ASSUME NEW f \in Setting
             PROVE  \/ Taken(f, Filed(s, f))
                    \/ f \in Losable /\ ~FilesAreRead(s) /\ Taken(f, Unset)
                    \/ f = "domains" /\ Filed(s, f) # Unset /\ AskedDomains(s) # Unset
  BY DEF TakesFirst, Filed, Losable
<1>1. Sought(s)[f] = Or(p(f), q(f))
  BY SoughtSays DEF Or
<1>2. m[f] = Or(Sourced(s)[f], default(f)) /\ IsChannel(m)
  BY DEF Made, InitByDefaults, Given, IsChannel, Or
<1>3. channel = IF m.flags = "PRIMARY" THEN [m EXCEPT !.servers = FirstOf(@)] ELSE m
  BY IsInitOptions
<1>4. f = "domains" => AskedDomains(s) = Sought(s)[f]
  BY <1>1 DEF AskedDomains, Or
<1> HIDE DEF channel, m, p, q, default
<1>5. \A filed : Wanted(f, filed) = Or(Or(Sought(s)[f], filed), default(f))
  BY <1>1, FirstOfFour DEF Or
<1> HIDE DEF Wanted
<1>6. ASSUME NEW filed, m[f] = Wanted(f, filed) PROVE Taken(f, filed)
  <2>1. channel.flags = m.flags
    BY <1>2, <1>3 DEF IsChannel, Setting
  <2>2. channel[f] = IF f = "servers" /\ m.flags = "PRIMARY" THEN FirstOf(m[f]) ELSE m[f]
    BY <1>2, <1>3 DEF IsChannel
  <2> QED BY <1>6, <2>1, <2>2
<1> HIDE DEF Taken
<1>7. CASE f # "domains" /\ Sourced(s)[f] = Or(Sought(s)[f], Filed(s, f))
  BY <1>2, <1>5, <1>6, <1>7
<1>8. CASE f = "domains" /\ Sourced(s)[f] = Or(Filed(s, f), Sought(s)[f])
  <2>1. CASE Filed(s, f) = Unset \/ Sought(s)[f] = Unset
    <3>1. Or(Filed(s, f), Sought(s)[f]) = Or(Sought(s)[f], Filed(s, f))
      BY <2>1 DEF Or
    <3> QED BY <1>2, <1>5, <1>6, <1>8, <3>1
  <2>2. CASE Filed(s, f) # Unset /\ Sought(s)[f] # Unset
    BY <1>4, <1>8, <2>2
  <2> QED BY <2>1, <2>2
<1>9. CASE f \in Losable /\ ~FilesAreRead(s) /\ Sourced(s)[f] = Sought(s)[f]
  <2>1. Or(Sought(s)[f], Unset) = Sought(s)[f]
    BY DEF Or
  <2> QED BY <1>2, <1>5, <1>6, <1>9, <2>1
<1> QED BY <1>7, <1>8, <1>9, SourcedSays

(* Whatever the surroundings are made of, they are such as settings can be *)
(* taken from.                                                             *)
LEMMA SurroundingsStepKeeps ==
  ASSUME AreSurroundings(surroundings), SurroundingsStep
  PROVE  AreSurroundings(surroundings')
<1> DEFINE s == surroundings
<1>1. CASE Arrange
  BY <1>1, SurroundingsAssumption DEF Arrange
<1>2. CASE AddLine
  <2>1. PICK line \in Line :
          s' = [s EXCEPT !.files.resolv_conf.lines = Append(@, line)]
    BY <1>2 DEF AddLine
  <2> DEFINE lines == Append(s.files.resolv_conf.lines, line)
             f == [s.files EXCEPT !.resolv_conf.lines = lines]
  <2>2. s' = [s EXCEPT !.files = f]
    BY <2>1
  <2>3. lines \in Seq(Line)
    BY AppendProperties DEF AreSurroundings
  <2> HIDE DEF lines
  <2>4. IsSequence(lines)
    BY <2>3, InSequence
  <2>5. /\ DOMAIN f = DOMAIN s.files
        /\ \A k \in DOMAIN f :
             DOMAIN f[k] = {"state", "lines"} /\ IsSequence(f[k].lines) /\ f[k].state = s.files[k].state
    BY <2>4 DEF AreSurroundings, Bare
  <2>6. f.resolv_conf.lines = lines
    BY DEF AreSurroundings, Bare
  <2> HIDE DEF f
  <2>7. /\ s'.options = s.options /\ s'.env = s.env /\ s'.hostdomain = s.hostdomain
        /\ DOMAIN s' = DOMAIN s /\ s'.files = f
    BY <2>2 DEF AreSurroundings, Bare
  <2> QED BY <2>3, <2>5, <2>6, <2>7 DEF AreSurroundings
<1>3. CASE Clear
  BY <1>3, SurroundingsAssumption DEF Clear
<1> QED BY <1>1, <1>2, <1>3 DEF SurroundingsStep

(* ares_init_options: whatever the options, the environment and the lines  *)
(* of the files, each setting is that of the first source that gives one:  *)
(* the options, the environment, then resolv.conf and for the order of the *)
(* lookups the files after it, each by its first line that says so, and    *)
(* the defaults.  A file that cannot be read takes no more with it than    *)
(* the servers, the sort list and the lookups.  The exception is domains   *)
(* that are asked for and in resolv.conf too.                              *)
THEOREM PrecedenceIsKept == SurroundingsSpec => []Precedence
<1> DEFINE Inv == AreSurroundings(surroundings)
<1>1. InitSurroundings => Inv
  BY SurroundingsAssumption DEF InitSurroundings
<1>2. Inv /\ [SurroundingsStep]_surroundings => Inv'
  BY SurroundingsStepKeeps
<1>3. Inv => Precedence
  BY FirstIsTaken DEF Precedence
<1> QED BY <1>1, <1>2, <1>3, PTL DEF SurroundingsSpec

(* A channel duplicated where nothing has changed is the same, but for its *)
(* rotation, and for its sort list if a file cannot be read.               *)
THEOREM DuplicatesKeep == SurroundingsSpec => []DupKeeps
<1> DEFINE Inv == AreSurroundings(surroundings)
<1>1. InitSurroundings => Inv
  BY SurroundingsAssumption DEF InitSurroundings
<1>2. Inv /\ [SurroundingsStep]_surroundings => Inv'
  BY SurroundingsStepKeeps
<1>3. Inv => DupKeeps
  BY DuplicateIsSame DEF DupKeeps
<1> QED BY <1>1, <1>2, <1>3, PTL DEF SurroundingsSpec
-----------------------------------------------------------------------------
(* One lookup after another.                                               *)
Turn(x, lookup, file, query) ==
  IF x.over THEN x
  ELSE IF lookup = "b" THEN query
  ELSE IF file.status = "SUCCESS" THEN [over |-> TRUE, result |-> file]
  ELSE x

LooksUp(t, lookups, status, file, query) ==
  /\ t[0] = [over |-> FALSE, result |-> Failed(status)]
  /\ NextLookup(lookups, status, file, query) = t[Len(lookups)].result
  /\ \A k \in 1 .. Len(lookups) : t[k] = Turn(t[k - 1], lookups[k], file, query)

LEMMA LookingUpExists ==
  ASSUME NEW T, NEW lookups \in Seq(T), NEW status, NEW file, NEW query
  PROVE  \E t : LooksUp(t, lookups, status, file, query)
<1> DEFINE n == Len(lookups)
           s == [over |-> FALSE, result |-> Failed(status)]
           found == [over |-> TRUE, result |-> file]
           S == {s, found, query}
           Put(x, k) == IF x.over THEN x
                        ELSE IF lookups[k] = "b" THEN query
                        ELSE IF file.status = "SUCCESS" THEN found ELSE x
           IsRun(t) == t = [k \in 0 .. n |-> IF k = 0 THEN s ELSE Put(t[k - 1], k)]
           t == CHOOSE t : IsRun(t)
<1>1. n \in Nat
  BY LenProperties
<1>2. NextLookup(lookups, status, file, query) = t[n].result
  BY DEF NextLookup
<1>3. \A x, k : Put(x, k) = Turn(x, lookups[k], file, query)
  BY DEF Turn
<1>4. s \in S /\ \A x \in S, k \in 1 .. n : Put(x, k) \in S
  OBVIOUS
<1> HIDE DEF n, Put, S, s
<1> DEFINE step == [k \in 1 .. n |-> [x \in S |-> Put(x, k)]]
<1>5. step \in [1 .. n -> [S -> S]] /\ \A k \in 1 .. n, x \in S : step[k][x] = Put(x, k)
  BY <1>4
<1> HIDE DEF step
<1>6. \E u : IsRunOf(u, n, S, s, step)
  BY <1>1, <1>4, <1>5, StatesExist
<1>7. ASSUME NEW u, IsRunOf(u, n, S, s, step) PROVE IsRun(u)
  <2>1. /\ u \in [0 .. n -> S] /\ u[0] = s
        /\ \A k \in 1 .. n : u[k] = step[k][u[k - 1]]
    BY <1>7 DEF IsRunOf
  <2>2. ASSUME NEW k \in 0 .. n PROVE u[k] = IF k = 0 THEN s ELSE Put(u[k - 1], k)
    BY <1>1, <1>5, <2>1
  <2> QED BY <2>1, <2>2
<1>8. IsRun(t)
  <2> HIDE DEF IsRun
  <2> QED BY <1>6, <1>7
<1> HIDE DEF t
<1>9. t[0] = s /\ \A k \in 1 .. n : t[k] = Put(t[k - 1], k)
  <2>1. \A k \in 0 .. n : t[k] = IF k = 0 THEN s ELSE Put(t[k - 1], k)
    BY <1>8, Zenon
  <2>2. 0 \in 0 .. n /\ \A k \in 1 .. n : k \in 0 .. n /\ k # 0
    BY <1>1
  <2> QED BY <2>1, <2>2, Zenon
<1>10. LooksUp(t, lookups, status, file, query)
  BY <1>2, <1>3, <1>9 DEF LooksUp, n, s
<1> QED BY <1>10

(* What is in the file is found there if the file comes first.             *)
LEMMA FileIsFirst ==
  ASSUME NEW T, NEW lookups \in Seq(T), lookups # <<>>, Head(lookups) = "f",
         NEW status, NEW file, file.status = "SUCCESS", NEW query
  PROVE  NextLookup(lookups, status, file, query) = file
<1> DEFINE n == Len(lookups)
           found == [over |-> TRUE, result |-> file]
<1>1. n \in Nat \ {0} /\ lookups[1] = "f"
  BY LenProperties, EmptySeq
<1>2. PICK t : LooksUp(t, lookups, status, file, query)
  BY LookingUpExists
<1>3. t[1] = found
  <2>1. t[0].over = FALSE /\ t[1] = Turn(t[1 - 1], lookups[1], file, query)
    BY <1>1, <1>2 DEF LooksUp
  <2> QED BY <1>1, <2>1 DEF Turn
<1> DEFINE K == {k \in 0 .. n : k # 0 => t[k] = found}
<1>4. 0 \in K
  BY <1>1
<1>5. ASSUME NEW k \in 1 .. n, k - 1 \in K PROVE k \in K
  <2>1. CASE k = 1
    BY <1>3, <2>1
  <2>2. CASE k # 1
    <3>1. t[k - 1] = found /\ t[k] = Turn(t[k - 1], lookups[k], file, query)
      BY <1>1, <1>2, <1>5, <2>2 DEF LooksUp
    <3> QED BY <3>1 DEF Turn
  <2> QED BY <2>1, <2>2
<1> HIDE DEF K
<1>6. 0 .. n \subseteq K
  BY <1>1, <1>4, <1>5, CountsUp
<1> HIDE DEF n
<1>7. n \in K
  BY <1>1, <1>6
<1>8. t[n] = found
  BY <1>1, <1>7 DEF K
<1> QED BY <1>2, <1>8 DEF LooksUp, n

(* And in any order it is what one of them comes to, or nothing.           *)
LEMMA ResultIsOneOf ==
  ASSUME NEW T, NEW lookups \in Seq(T), NEW status, NEW file, NEW query
  PROVE  LET result == NextLookup(lookups, status, file, query)
         IN \/ result = Failed(status) \/ result = query.result
            \/ result = file /\ file.status = "SUCCESS"
<1> DEFINE n == Len(lookups)
           start == [over |-> FALSE, result |-> Failed(status)]
           found == [over |-> TRUE, result |-> file]
           OneOf(x) == x = start \/ x = query \/ (x = found /\ file.status = "SUCCESS")
<1>1. n \in Nat
  BY LenProperties
<1>2. PICK t : LooksUp(t, lookups, status, file, query)
  BY LookingUpExists
<1> DEFINE K == {k \in 0 .. n : OneOf(t[k])}
<1>3. 0 \in K
  BY <1>1, <1>2 DEF LooksUp
<1>4. ASSUME NEW k \in 1 .. n, k - 1 \in K PROVE k \in K
  <2>1. OneOf(t[k - 1]) /\ t[k] = Turn(t[k - 1], lookups[k], file, query)
    BY <1>2, <1>4 DEF LooksUp
  <2> QED BY <2>1 DEF Turn
<1> HIDE DEF K
<1>5. 0 .. n \subseteq K
  BY <1>1, <1>3, <1>4, CountsUp
<1> HIDE DEF n
<1>6. n \in K
  BY <1>1, <1>5
<1>7. OneOf(t[n])
  BY <1>6 DEF K
<1> QED BY <1>2, <1>7 DEF LooksUp, n
-----------------------------------------------------------------------------
(* The name of an address is one of the names that the records have.       *)
LEMMA NameIsAnswered ==
  ASSUME NEW r, NEW N, Len(r.rrs) \in Nat, \A i \in 1 .. Len(r.rrs) : r.rrs[i].data \in N
  PROVE  LET p == PtrRecords(r) IN p.aliases = <<>> \/ p.hostname \in N
<1> DEFINE n == Len(r.rrs)
           s == [ptrname |-> r.question, hostname |-> "none", aliases |-> <<>>]
           D == N \cup {r.question, "none"}
           S == {x \in [ptrname : D, hostname : D, aliases : Seq(N)] :
                   x.aliases = <<>> \/ x.hostname \in N}
           Put(x, k) == PtrRecord(x, r.rrs[k])
           IsRun(t) == t = [k \in 0 .. n |-> IF k = 0 THEN s ELSE Put(t[k - 1], k)]
           t == CHOOSE t : IsRun(t)
<1>1. n \in Nat /\ \A k \in 1 .. n : r.rrs[k].data \in N
  OBVIOUS
<1>2. PtrRecords(r) = t[n]
  BY DEF PtrRecords
<1>3. s \in S
  BY EmptySeq
<1>4. ASSUME NEW x \in S, NEW k \in 1 .. n PROVE Put(x, k) \in S
  <2> DEFINE rr == r.rrs[k]
  <2>1. rr.data \in N /\ rr.data \in D /\ x.aliases \in Seq(N)
    BY <1>1
  <2> HIDE DEF rr, D
  <2>2. CASE rr.type = "PTR" /\ rr.owner = x.ptrname
    <3>1. Put(x, k) = [x EXCEPT !.hostname = rr.data, !.aliases = Append(@, rr.data)]
      BY <2>2 DEF PtrRecord, rr
    <3>2. Append(x.aliases, rr.data) \in Seq(N)
      BY <2>1, AppendProperties
    <3> QED BY <2>1, <3>1, <3>2
  <2>3. CASE ~ (rr.type = "PTR" /\ rr.owner = x.ptrname) /\ rr.type = "CNAME"
    <3>1. Put(x, k) = [x EXCEPT !.ptrname = rr.data]
      BY <2>3 DEF PtrRecord, rr
    <3> QED BY <2>1, <3>1
  <2>4. CASE ~ (rr.type = "PTR" /\ rr.owner = x.ptrname) /\ rr.type # "CNAME"
    BY <2>4 DEF PtrRecord, rr
  <2> QED BY <2>2, <2>3, <2>4
<1>5. \A x \in S : x.aliases = <<>> \/ x.hostname \in N
  OBVIOUS
<1> HIDE DEF n, Put, S, s
<1> DEFINE step == [k \in 1 .. n |-> [x \in S |-> Put(x, k)]]
<1>6. step \in [1 .. n -> [S -> S]] /\ \A k \in 1 .. n, x \in S : step[k][x] = Put(x, k)
  BY <1>4
<1> HIDE DEF step
<1>7. \E u : IsRunOf(u, n, S, s, step)
  BY <1>1, <1>3, <1>6, StatesExist
<1>8. ASSUME NEW u, IsRunOf(u, n, S, s, step) PROVE IsRun(u)
  <2>1. /\ u \in [0 .. n -> S] /\ u[0] = s
        /\ \A k \in 1 .. n : u[k] = step[k][u[k - 1]]
    BY <1>8 DEF IsRunOf
  <2>2. ASSUME NEW k \in 0 .. n PROVE u[k] = IF k = 0 THEN s ELSE Put(u[k - 1], k)
    BY <1>1, <1>6, <2>1
  <2> QED BY <2>1, <2>2
<1>9. IsRun(t)
  <2> HIDE DEF IsRun
  <2> QED BY <1>7, <1>8
<1> HIDE DEF t
<1>10. t[0] = s /\ \A k \in 1 .. n : t[k] = Put(t[k - 1], k)
  <2>1. \A k \in 0 .. n : t[k] = IF k = 0 THEN s ELSE Put(t[k - 1], k)
    BY <1>9, Zenon
  <2>2. 0 \in 0 .. n /\ \A k \in 1 .. n : k \in 0 .. n /\ k # 0
    BY <1>1
  <2> QED BY <2>1, <2>2, Zenon
<1> HIDE DEF IsRun
<1> DEFINE K == {k \in 0 .. n : t[k] \in S}
<1>11. 0 \in K
  BY <1>1, <1>3, <1>10
<1>12. ASSUME NEW k \in 1 .. n, k - 1 \in K PROVE k \in K
  BY <1>4, <1>10, <1>12
<1> HIDE DEF K
<1>13. 0 .. n \subseteq K
  BY <1>1, <1>11, <1>12, CountsUp
<1>14. t[n] \in S
  BY <1>1, <1>13 DEF K
<1> QED BY <1>2, <1>5, <1>14
-----------------------------------------------------------------------------
Firsts(f, S) == f \in S /\ \A j \in S : f <= j

LEMMA FirstExists ==
  ASSUME NEW S, S \subseteq Nat, S # {}
  PROVE  \E f : Firsts(f, S)
<1>1. PICK f \in S : \A j \in S : ~ (<<j, f>> \in OpToRel(<, Nat))
  BY NatLessThanWellFounded, WFMin, Zenon
<1>2. \A j \in S : ~ (j < f)
  BY <1>1 DEF OpToRel
<1>3. \A j \in S : f <= j
  BY <1>2
<1>4. Firsts(f, S)
  BY <1>3 DEF Firsts
<1> QED BY <1>4

(* The first line that fits is the one whose host is found.                *)
LEMMA FileHas ==
  ASSUME NEW hosts \in Seq(HostsLine), NEW S \in SUBSET (DOMAIN hosts), S # {}
  PROVE  \E f : /\ Firsts(f, S)
                /\ FileLookup(hosts, S) = Found(HostOf(hosts[f]))
<1>1. S \subseteq Nat
  BY LenProperties
<1> DEFINE f == CHOOSE i \in S : \A j \in S : i <= j
<1>2. \E g : Firsts(g, S)
  BY <1>1, FirstExists
<1>3. Firsts(f, S)
  BY <1>2 DEF Firsts
<1> HIDE DEF f
<1>4. FileLookup(hosts, S) = Found(HostOf(hosts[f]))
  BY DEF FileLookup, f
<1> QED BY <1>3, <1>4

(* The data that Python gets of a line's host: its address.                *)
LEMMA LineIsData ==
  ASSUME NEW line \in HostsLine
  PROVE  LET data == GethostData(Found(HostOf(line)))
         IN data.status = "SUCCESS" /\ data.addrs = <<line.address>>
<1> DEFINE host == HostOf(line)
           l == <<line.address.is>>
           addrs == [i \in DOMAIN host.h_addr_list |->
                       AddressText(host.h_addr_list[i], host.h_addrtype)]
<1>1. line.address = AddressText(line.address.is, line.address.kind)
  BY HostsAssumption
<1>2. host.h_addr_list = l /\ host.h_addrtype = line.address.kind
  BY DEF HostOf, Host
<1>3. Found(host).status = "SUCCESS" /\ Found(host).host = host
  BY DEF Found
<1>4. addrs = <<line.address>>
  BY <1>1, <1>2
<1> HIDE DEF host
<1>5. /\ GethostData(Found(host)).status = "SUCCESS"
      /\ GethostData(Found(host)).addrs = addrs
  BY <1>3 DEF GethostData
<1> QED BY <1>4, <1>5 DEF host

LEMMA HostsFound ==
  ASSUME NEW w, IsWorld(w)
  PROVE  HostsAreFound(w)
<1> SUFFICES ASSUME w.lookups # <<>>, Head(w.lookups) = "f",
                    NEW i \in DOMAIN w.hosts, NEW k \in DOMAIN w.hosts[i].names,
                    LinesWith(w.hosts, w.hosts[i].names[k]) # {}
             PROVE  LET name == w.hosts[i].names[k]
                        found == GetHostByAddr(w, name)
                    IN /\ found.status = "SUCCESS"
                       /\ \E m \in LinesWith(w.hosts, name) :
                            /\ \A j \in LinesWith(w.hosts, name) : m <= j
                            /\ found.addrs = <<w.hosts[m].address>>
  BY DEF HostsAreFound
<1> DEFINE hosts == w.hosts
           name == hosts[i].names[k]
           lines == LinesWith(hosts, name)
<1>1. hosts \in Seq(HostsLine) /\ w.lookups \in Seq({"f", "b"})
  BY DEF IsWorld
<1>2. \A j \in DOMAIN hosts : hosts[j] \in HostsLine
  BY <1>1, LenProperties
<1>3. name.kind = "name"
  <2>1. hosts[i].names \in Seq(HostName)
    BY <1>2, HostsAssumption
  <2>2. name \in HostName
    BY <2>1, LenProperties
  <2> QED BY <2>2, NameAssumption
<1> HIDE DEF name
<1>4. lines = {j \in GetHostents(hosts, "unspec") :
                 \E m \in DOMAIN hosts[j].names : hosts[j].names[m] = name}
  <2>1. ASSUME NEW j \in DOMAIN hosts, NEW m \in DOMAIN hosts[j].names PROVE hosts[j].names # <<>>
    BY <2>1, EmptySeq
  <2> QED BY <2>1 DEF LinesWith, LooksLikeNone, GetHostents, InetAddr, IsAddress
<1>5. PICK f : Firsts(f, lines) /\ FileLookup(hosts, lines) = Found(HostOf(hosts[f]))
  <2>1. lines \in SUBSET (DOMAIN hosts) /\ lines # {}
    BY DEF LinesWith, name
  <2> HIDE DEF lines
  <2> QED BY <1>1, <2>1, FileHas
<1>6. f \in DOMAIN hosts /\ hosts[f] \in HostsLine /\ hosts[f].address.kind \in {"inet", "inet6"}
      /\ hosts[f].names # <<>> /\ f \in lines
  BY <1>2, <1>4, <1>5 DEF Firsts, GetHostents, LinesWith
<1> DEFINE line == hosts[f]
           byname == FileByName(hosts, name, "unspec")
<1>7. byname = Found(HostOf(line))
  BY <1>4, <1>5 DEF FileByName
<1>8. AresGetHostByName(w, name, "unspec") = Found(HostOf(line))
  <2>1. FakeHostent(name, "unspec").status # "SUCCESS"
    BY DEF FakeHostent, Failed
  <2>2. byname.status = "SUCCESS"
    BY <1>7 DEF Found
  <2>3. NextLookup(w.lookups, "ECONNREFUSED", byname, HostCallback(w, "unspec")) = byname
    <3> HIDE DEF byname
    <3> QED BY <1>1, <2>2, FileIsFirst
  <2> QED BY <1>7, <2>1, <2>3 DEF AresGetHostByName
<1>9. /\ GethostData(Found(HostOf(line))).status = "SUCCESS"
      /\ GethostData(Found(HostOf(line))).addrs = <<line.address>>
  BY <1>6, LineIsData
<1>10. GetHostByName(w, name, "unspec") = [status |-> "SUCCESS", text |-> line.address]
  <2> DEFINE data == GethostData(Found(HostOf(line)))
  <2>1. data.addrs # <<>> /\ Head(data.addrs) = line.address
    BY <1>9
  <2> HIDE DEF data
  <2> QED BY <1>8, <1>9, <2>1 DEF GetHostByName, data
<1> DEFINE text == line.address
<1>11. GetHostByAddr(w, name) = AsyncGetHostByAddr(w, text)
  BY <1>3, <1>10 DEF GetHostByAddr
<1> DEFINE S == {j \in GetHostents(hosts, text.kind) : hosts[j].address = AddressText(text.is, text.kind)}
           byaddr == FileByAddr(hosts, text.is, text.kind)
<1>12. text = AddressText(text.is, text.kind)
  BY <1>6, HostsAssumption
<1>13. PICK g : Firsts(g, S) /\ FileLookup(hosts, S) = Found(HostOf(hosts[g]))
  <2>1. f \in S
    BY <1>6, <1>12 DEF GetHostents, LinesWith, LooksLikeNone, InetAddr, IsAddress
  <2>2. S \in SUBSET (DOMAIN hosts)
    BY DEF GetHostents
  <2> HIDE DEF S
  <2> QED BY <1>1, <2>1, <2>2, FileHas
<1>14. hosts[g] \in HostsLine /\ hosts[g].address = text
  BY <1>2, <1>12, <1>13 DEF Firsts, GetHostents
<1>15. byaddr = Found(HostOf(hosts[g]))
  BY <1>13 DEF FileByAddr
<1>16. AresGetHostByAddr(w, text.is, text.kind) = Found(HostOf(hosts[g]))
  <2>1. byaddr.status = "SUCCESS"
    BY <1>15 DEF Found
  <2>2. NextLookup(w.lookups, "ENOTFOUND", byaddr, AddrCallback(w, text.is, text.kind)) = byaddr
    <3> HIDE DEF byaddr
    <3> QED BY <1>1, <2>1, FileIsFirst
  <2> QED BY <1>15, <2>2 DEF AresGetHostByAddr
<1>17. /\ GetHostByAddr(w, name).status = "SUCCESS"
       /\ GetHostByAddr(w, name).addrs = <<text>>
  BY <1>11, <1>14, <1>16, LineIsData DEF AsyncGetHostByAddr
<1> QED BY <1>5, <1>6, <1>17 DEF Firsts, name
-----------------------------------------------------------------------------
(* A host that a lookup for an address finds has a name.                   *)
LEMMA AddressHasName ==
  ASSUME NEW w, IsWorld(w), NEW address, NEW family \in {"inet", "inet6"}
  PROVE  LET found == AresGetHostByAddr(w, address, family)
         IN found.status = "SUCCESS" => found.host.h_name.kind = "name"
<1> DEFINE file == FileByAddr(w.hosts, address, family)
           query == AddrCallback(w, address, family)
           found == AresGetHostByAddr(w, address, family)
           S == {j \in GetHostents(w.hosts, family) : w.hosts[j].address = AddressText(address, family)}
<1>1. w.hosts \in Seq(HostsLine) /\ w.lookups \in Seq({"f", "b"})
  BY DEF IsWorld
<1>2. \/ found = Failed("ENOTFOUND") \/ found = query.result
      \/ found = file /\ file.status = "SUCCESS"
  <2>1. found = NextLookup(w.lookups, "ENOTFOUND", file, query)
    BY DEF AresGetHostByAddr
  <2> HIDE DEF found, file, query
  <2> QED BY <1>1, <2>1, ResultIsOneOf
<1>3. Failed("ENOTFOUND").status # "SUCCESS"
  BY DEF Failed
<1>4. ASSUME file.status = "SUCCESS" PROVE file.host.h_name.kind = "name"
  <2>1. file = FileLookup(w.hosts, S)
    BY DEF FileByAddr
  <2>2. S # {}
    BY <1>3, <1>4, <2>1 DEF FileLookup
  <2>3. S \in SUBSET (DOMAIN w.hosts)
    BY DEF GetHostents
  <2>4. \A j \in S : w.hosts[j].names # <<>>
    BY DEF GetHostents
  <2> HIDE DEF S
  <2>5. PICK f : Firsts(f, S) /\ FileLookup(w.hosts, S) = Found(HostOf(w.hosts[f]))
    BY <1>1, <2>2, <2>3, FileHas
  <2> DEFINE line == w.hosts[f]
  <2>6. line \in HostsLine /\ line.names # <<>>
    BY <1>1, <2>3, <2>4, <2>5, LenProperties DEF Firsts
  <2>7. line.names \in Seq(HostName)
    BY <2>6, HostsAssumption
  <2>8. Head(line.names) \in HostName
    BY <2>6, <2>7, HeadTailProperties
  <2>9. file.host.h_name = Head(line.names)
    BY <2>1, <2>5 DEF Found, HostOf, Host
  <2> QED BY <2>8, <2>9, NameAssumption
<1>5. ASSUME query.result.status = "SUCCESS" PROVE query.result.host.h_name.kind = "name"
  <2> DEFINE answer == w.answers["PTR"].reply
             parsed == ParsePtrReply(answer, address, family)
             p == PtrRecords(answer)
  <2>1. w.answers["PTR"].status = "SUCCESS" /\ query.result = parsed
    BY <1>3, <1>5 DEF AddrCallback
  <2>2. /\ Len(answer.rrs) \in Nat
        /\ \A j \in 1 .. Len(answer.rrs) : answer.rrs[j].data \in HostName
    BY <2>1 DEF IsWorld
  <2>3. p.aliases = <<>> \/ p.hostname \in HostName
    <3> HIDE DEF answer
    <3> QED BY <2>2, NameIsAnswered
  <2> HIDE DEF answer, p
  <2>4. /\ p.aliases # <<>>
        /\ parsed = Found(Host(p.hostname, p.aliases, family, <<address>>))
    BY <1>5, <2>1 DEF ParsePtrReply, Failed, p
  <2>5. parsed.host.h_name = p.hostname
    BY <2>4 DEF Found, Host
  <2> QED BY <2>1, <2>3, <2>4, <2>5, NameAssumption
<1> HIDE DEF found, file, query
<1>6. found.status = "SUCCESS" => found.host.h_name.kind = "name"
  BY <1>2, <1>3, <1>4, <1>5
<1> QED BY <1>6 DEF found

LEMMA PeersFound ==
  ASSUME NEW w, IsWorld(w), NEW number, NEW port, NEW flags \in SUBSET {"NAMEREQD", "NUMERICHOST"}
  PROVE  PeersAreFound(w, Peer(number, port), flags)
<1> DEFINE sa == Peer(number, port)
           text == AddressText(number, "inet")
           numeric == [status |-> "SUCCESS", name |-> text]
<1>1. sa = [family |-> "inet", address |-> number, port |-> port, scope |-> 0]
  BY DEF Peer
<1>2. text = [kind |-> "inet", is |-> number]
  BY DEF AddressText
<1>3. NumericHost(sa) = text
  BY <1>1 DEF NumericHost
<1>4. AresGetNameInfo(w, sa, {"NUMERICHOST"}) = numeric
  BY <1>3 DEF AresGetNameInfo
<1>5. AddrTuple(w, sa) = <<text, port>>
  BY <1>1, <1>4 DEF AddrTuple
<1>6. SockAddr(w, <<text, port>>, "inet") = [status |-> "SUCCESS", sa |-> sa]
  BY <1>1, <1>2 DEF SockAddr, IsAddress
<1>7. NameinfoSockaddr(text, sa.port, sa.scope) = [status |-> "SUCCESS", sa |-> sa]
  BY <1>1, <1>2 DEF NameinfoSockaddr
<1> DEFINE info == GetNameInfo(w, text, sa.port, sa.scope, flags)
           host == AresGetNameInfo(w, sa, flags)
<1>8. info.status = "SUCCESS" => host.status = "SUCCESS" /\ info.name = host.name
  BY <1>7 DEF GetNameInfo
<1>9. ASSUME host.status = "SUCCESS" PROVE host.name = text \/ host.name.kind = "name"
  <2> DEFINE found == AresGetHostByAddr(w, sa.address, sa.family)
  <2>1. CASE "NUMERICHOST" \in flags
    BY <1>3, <1>9, <2>1 DEF AresGetNameInfo, Failed
  <2>2. CASE "NUMERICHOST" \notin flags
    <3>1. host = NameinfoCallback(sa, flags, found)
      BY <2>2 DEF AresGetNameInfo
    <3>2. found.status = "SUCCESS" => found.host.h_name.kind = "name"
      BY <1>1, AddressHasName
    <3> HIDE DEF found
    <3> QED BY <1>3, <1>9, <3>1, <3>2 DEF NameinfoCallback, Failed
  <2> QED BY <2>1, <2>2
<1> HIDE DEF info, host
<1>10. info.status = "SUCCESS" /\ info.name.kind = "inet" => info.name = text
  BY <1>8, <1>9
<1> QED BY <1>3, <1>5, <1>6, <1>10 DEF PeersAreFound, info
-----------------------------------------------------------------------------
LEMMA AppendedOnce ==
  ASSUME NEW x
  PROVE  AppendNew(<<x>>, <<x>>) = <<x>>
<1> DEFINE list == <<x>>
           Put(l, k) == IF \E i \in DOMAIN l : l[i] = list[k] THEN l ELSE Append(l, list[k])
           n == Len(list)
           IsRun(t) == t = [k \in 0 .. n |-> IF k = 0 THEN list ELSE Put(t[k - 1], k)]
           t == CHOOSE t : IsRun(t)
           u == [k \in 0 .. 1 |-> list]
<1>1. n = 1
  OBVIOUS
<1>2. AppendNew(list, list) = t[n]
  BY DEF AppendNew
<1>3. Put(list, 1) = list
  OBVIOUS
<1> HIDE DEF Put, list, n
<1>4. IsRun(u)
  <2>1. u = [k \in 0 .. n |-> u[k]]
    BY <1>1
  <2>2. ASSUME NEW k \in 0 .. n PROVE u[k] = IF k = 0 THEN list ELSE Put(u[k - 1], k)
    <3>1. k = 0 \/ k = 1
      BY <1>1
    <3> QED BY <1>3, <3>1
  <2> HIDE DEF u
  <2> QED BY <2>1, <2>2
<1>5. IsRun(t)
  <2> HIDE DEF IsRun, u
  <2> QED BY <1>4
<1> HIDE DEF t
<1>6. t[1] = Put(t[0], 1) /\ t[0] = list
  BY <1>1, <1>5
<1> QED BY <1>1, <1>2, <1>3, <1>6 DEF list

(* An address is its own host, in its own family and, for an IPv4 address, *)
(* in the other as well.                                                   *)
LEMMA AddressIsHost ==
  ASSUME NEW w, NEW text, text = AddressText(text.is, text.kind), ~LooksLikeNone(text), NEW family,
         \/ text.kind = "inet" /\ family \in {"inet", "inet6"}
         \/ text.kind = "inet6" /\ family = "inet6"
  PROVE  LET data == GetHostByNameEx(w, text, family)
         IN data.status = "SUCCESS" /\ data.addrs = <<text>> /\ "addrs" \in DOMAIN data
<1> DEFINE host == Host(text, <<>>, text.kind, <<text.is>>)
           addrs == [i \in DOMAIN host.h_addr_list |->
                       AddressText(host.h_addr_list[i], host.h_addrtype)]
           data == GethostData(Found(host))
<1>1. FakeHostent(text, family) = Found(host)
  BY DEF FakeHostent, InetAddr, IsAddress, LooksLikeNone
<1>2. Found(host).status = "SUCCESS" /\ Found(host).host = host
  BY DEF Found
<1>3. AresGetHostByName(w, text, family) = Found(host)
  <2> HIDE DEF host
  <2> QED BY <1>1, <1>2 DEF AresGetHostByName
<1>4. host.h_addr_list = <<text.is>> /\ host.h_addrtype = text.kind
  BY DEF Host
<1>5. addrs = <<text>>
  BY <1>4
<1> HIDE DEF host
<1>6. data.status = "SUCCESS" /\ data.addrs = addrs /\ "addrs" \in DOMAIN data
  BY <1>2 DEF GethostData
<1>7. GetHostByNameEx(w, text, family) = data
  BY <1>3 DEF GetHostByNameEx
<1> HIDE DEF data
<1> QED BY <1>5, <1>6, <1>7

LEMMA OneAddress ==
  ASSUME NEW w, NEW text, text = AddressText(text.is, text.kind), ~LooksLikeNone(text), NEW family,
         \/ text.kind = "inet" /\ family \in {"unspec", "inet"}
         \/ text.kind = "inet6" /\ family = "inet6"
  PROVE  LET hosts == Addrinfohosts(w, text, family)
         IN hosts.status = "SUCCESS" /\ hosts.addrs = <<text>>
<1> DEFINE v4 == GetHostByNameEx(w, text, "inet")
           v6 == GetHostByNameEx(w, text, "inet6")
           both == [v4 EXCEPT !.addrs = AppendNew(@, v6.addrs)]
<1>1. v6.status = "SUCCESS" /\ v6.addrs = <<text>>
  BY AddressIsHost
<1>2. text.kind # "empty"
  OBVIOUS
<1>3. CASE family = "inet6"
  <2>1. Addrinfohosts(w, text, family) = v6
    BY <1>2, <1>3 DEF Addrinfohosts
  <2> QED BY <1>1, <2>1
<1>4. CASE text.kind = "inet" /\ family \in {"unspec", "inet"}
  <2>1. v4.status = "SUCCESS" /\ v4.addrs = <<text>> /\ "addrs" \in DOMAIN v4
    BY <1>4, AddressIsHost
  <2> HIDE DEF v4, v6
  <2>2. both.status = "SUCCESS" /\ both.addrs = <<text>>
    BY <1>1, <2>1, AppendedOnce
  <2>3. CASE family = "inet"
    <3>1. Addrinfohosts(w, text, family) = v4
      BY <1>2, <2>3 DEF Addrinfohosts, v4
    <3> QED BY <2>1, <3>1
  <2>4. CASE family = "unspec"
    <3>1. Addrinfohosts(w, text, family) = both
      BY <1>1, <1>2, <2>1, <2>4 DEF Addrinfohosts, v4, v6
    <3> QED BY <2>2, <3>1
  <2> QED BY <1>4, <2>3, <2>4
<1> QED BY <1>3, <1>4

LEMMA AddressListed ==
  ASSUME NEW w, NEW number, NEW host \in Texts(number), NEW family, NEW socktype \in 0 .. 2
  PROVE  ListedOnce(w, host, family, socktype)
<1> SUFFICES ASSUME \/ host.kind = "inet" /\ ~LooksLikeNone(host) /\ family \in {"unspec", "inet"}
                    \/ host.kind = "inet6" /\ family = "inet6"
             PROVE  LET info == GetAddrInfo(w, host, Port(80), family, socktype, 0)
                    IN /\ info.status = "SUCCESS"
                       /\ Len(info.list) = Len(SocktypeList(socktype, 0))
                       /\ \A i \in DOMAIN info.list : info.list[i].sockaddr = <<host, 80>>
  BY DEF ListedOnce
<1> DEFINE hosts == Addrinfohosts(w, host, family)
           types == SocktypeList(socktype, 0)
           list == Entries(hosts.addrs, types, 80, family)
<1>1. host = AddressText(host.is, host.kind)
  BY DEF Texts, AddressText
<1>2. hosts.status = "SUCCESS" /\ hosts.addrs = <<host>>
  <2>1. ~LooksLikeNone(host)
    BY DEF LooksLikeNone
  <2> QED BY <1>1, <2>1, OneAddress
<1>3. Supported(socktype, 0)
  BY DEF Supported
<1>4. Len(types) \in {1, 3}
  BY DEF SocktypeList
<1> HIDE DEF hosts, types
<1>5. GetAddrInfo(w, host, Port(80), family, socktype, 0) = [status |-> "SUCCESS", list |-> list]
  BY <1>2, <1>3 DEF GetAddrInfo, Port, hosts, types
<1>6. Len(list) = Len(types) /\ DOMAIN list = 1 .. Len(types)
  BY <1>2, <1>4 DEF Entries
<1>7. ASSUME NEW i \in 1 .. Len(types) PROVE list[i].sockaddr = <<host, 80>>
  <2>1. (i - 1) \div Len(types) = 0
    BY <1>4
  <2>2. Len(hosts.addrs) = 1 /\ hosts.addrs[1] = host
    BY <1>2
  <2> QED BY <1>4, <2>1, <2>2 DEF Entries
<1> QED BY <1>5, <1>6, <1>7 DEF types
-----------------------------------------------------------------------------
InWorld == IsWorld(world)

LEMMA StaysWorld == WorldSpec => []InWorld
<1>1. InitWorld => InWorld
  BY EmptySeq DEF InWorld, InitWorld, Nowhere, IsWorld, Failed
<1>2. InWorld /\ [WorldStep]_world => InWorld'
  <2> SUFFICES ASSUME IsWorld(world), [WorldStep]_world PROVE IsWorld(world')
    BY DEF InWorld
  <2>1. CASE Enter
    BY <2>1, WorldAssumption DEF Enter
  <2>2. CASE AddHost
    <3>1. PICK line \in HostsLine : world' = [world EXCEPT !.hosts = Append(@, line)]
      BY <2>2 DEF AddHost
    <3>2. Append(world.hosts, line) \in Seq(HostsLine)
      BY AppendProperties DEF IsWorld
    <3> QED BY <3>1, <3>2 DEF IsWorld, Nowhere
  <2>3. CASE Depart
    BY <2>3, EmptySeq DEF Depart, Nowhere, IsWorld, Failed
  <2>4. CASE UNCHANGED world
    BY <2>4 DEF IsWorld
  <2> QED BY <2>1, <2>2, <2>3, <2>4 DEF WorldStep
<1> QED BY <1>1, <1>2, PTL DEF WorldSpec

(* KnownWithoutServers: in every world.                                    *)
THEOREM KnownIsFound == WorldSpec => []KnownWithoutServers
<1>1. InWorld => KnownWithoutServers
  BY HostsFound, PeersFound, AddressListed DEF InWorld, KnownWithoutServers
<1> QED BY <1>1, StaysWorld, PTL
=============================================================================
