------------------------------- MODULE Executor -------------------------------
(***************************************************************************)
(* TaskExecutor of src/executor.c with the futures of src/futures.c.       *)
(*                                                                         *)
(* Everything runs in one thread: greenlets and the loop, itself one,      *)
(* hand control to each other by switching.  submit() queues an item and   *)
(* may make a worker greenlet for it; a future that gets its result        *)
(* switches to whoever waits for it, one after the other, from inside of   *)
(* back_waiter(), and goes on only when something switches back to it.     *)
(*                                                                         *)
(* Of the loop's queue only what this component puts there is kept, and    *)
(* not its order: how often a worker's handle is in it.  Callbacks count   *)
(* as called when they are put there (EventLoop.tla says what happens to   *)
(* them).  What the clients and the functions do with the executor and its *)
(* futures is UserCode.                                                    *)
(***************************************************************************)
EXTENDS Naturals, Sequences, FiniteSets

CONSTANTS
  Client,      \* greenlets that use the executor
  Worker,      \* bound: the worker greenlets there may be
  Future,      \* bound: the futures that are submitted
  Loop,        \* the loop's greenlet
  Callback,    \* callables given to add_done_callback
  Touched,     \* bound: the futures that are given callbacks and results
  Limits,      \* the max_workers executors are made with, 0 for no limit
  MaxSignals   \* bound: how many workers meet Ctrl-C

ASSUME LimitsAssumption == Limits \subseteq Nat /\ Touched \subseteq Future

Greenlet == Client \cup Worker \cup {Loop}

VARIABLES
  max_workers, run_workers,
  alive,      \* whether the executor is referenced
  pendings,   \* self->pendings, by the items' futures
  state,      \* future->state
  settled,    \* the futures with a result or an exception
  callbacks,  \* future->callbacks
  waiters,    \* future->waiters
  handled,    \* the workers that have run a future: its handle is theirs
  scheduled,  \* how many times a worker's handle is in the loop's queue
  active,     \* the greenlet that runs
  place,      \* where each greenlet is
  on,         \* the future a greenlet waits for, runs or wakes the waiters of,
              \* and Loop when it does none of these
  signal,     \* "none", "caught" (catch_signal) or "stop" (the loop's state)
  calls,      \* history: the callbacks put into the loop's queue
  cut         \* history: how many workers left because of a signal

futureVars == <<state, settled, callbacks, waiters, handled>>
queueVars == <<max_workers, run_workers, alive, pendings>>
controlVars == <<active, place, on>>
vars == <<futureVars, queueVars, controlVars, scheduled, signal, calls, cut>>

Init ==
  /\ max_workers \in Limits /\ run_workers = 0
  /\ alive = TRUE
  /\ pendings = <<>>
  /\ state = [f \in Future |-> "new"]
  /\ settled = {}
  /\ callbacks = [f \in Future |-> {}]
  /\ waiters = [f \in Future |-> {}]
  /\ handled = [f \in Future |-> {}]
  /\ scheduled = [w \in Worker |-> 0]
  /\ active = Loop
  /\ place = [g \in Greenlet |-> IF g \in Client THEN "away"
                                 ELSE IF g = Loop THEN "run" ELSE "none"]
  /\ on = [g \in Greenlet |-> Loop]
  /\ signal = "none"
  /\ calls = [f \in Future |-> [k \in Callback |-> 0]]
  /\ cut = 0
-----------------------------------------------------------------------------
(* Where a greenlet goes on that is switched to: a client in its own code, *)
(* out of result() too, a worker in its loop or in the function.  One that *)
(* is in back_waiter() is still there, and one that is dead or runs the    *)
(* switch itself does not move.                                            *)
Resumed(p) ==
  CASE p \in {"away", "result"} -> "run"
    [] p \in {"fresh", "idle"}  -> "next"
    [] p = "parked"             -> "fn"
    [] OTHER                    -> p

(* greenlet_switch to g.                                                   *)
SwitchTo(g) ==
  /\ active' = IF place[g] = "dead" THEN active ELSE g
  /\ place' = [place EXCEPT ![g] = Resumed(@)]
  /\ on' = [on EXCEPT ![g] = IF place[g] = "result" THEN Loop ELSE @]

(* The running greenlet gives control to the loop.                         *)
Leave(g, where) == active' = Loop /\ place' = [place EXCEPT ![g] = where]

(* Mutant: the list is not cleared after its callbacks were scheduled.     *)
CallCallbacksKept(f) ==
  /\ calls' = [calls EXCEPT ![f] = [k \in Callback |->
                 IF k \in callbacks[f] THEN @[k] + 1 ELSE @[k]]]
  /\ UNCHANGED callbacks

CallCallbacks(f) ==
  /\ calls' = [calls EXCEPT ![f] = [k \in Callback |->
                 IF k \in callbacks[f] THEN @[k] + 1 ELSE @[k]]]
  /\ callbacks' = [callbacks EXCEPT ![f] = {}]

(* Mutant: who wakes several waiters is not scheduled to go on.            *)
BackWaiterOnce(g, f) ==
  /\ place' = [place EXCEPT ![g] = "back"]
  /\ on' = [on EXCEPT ![g] = f]
  /\ UNCHANGED scheduled

(* back_waiter up to its loop: the worker's handle is put into the loop's  *)
(* queue, once, so that control comes back.                                *)
BackWaiter(g, f) ==
  /\ place' = [place EXCEPT ![g] = "back"]
  /\ on' = [on EXCEPT ![g] = f]
  /\ scheduled' = [w \in Worker |-> IF waiters[f] # {} /\ w \in handled'[f]
                                    THEN scheduled[w] + 1 ELSE scheduled[w]]

(* The loop of back_waiter: PySet_Pop takes any waiter.                    *)
PopWaiter(g) ==
  /\ active = g /\ place[g] = "back"
  /\ \E v \in waiters[on[g]] :
       /\ waiters' = [waiters EXCEPT ![on[g]] = @ \ {v}]
       /\ SwitchTo(v)
  /\ UNCHANGED <<queueVars, state, settled, callbacks, handled, scheduled, signal, calls, cut>>

(* check_interrupted, which uses the signal up.                            *)
Interrupted == signal # "none"

(* A worker ends, and its parent, the loop, goes on.                       *)
End(w) == Leave(w, "dead")

(* back_waiter is left when nobody waits.  A worker then ends or, when the *)
(* executor has a limit, is scheduled once more and looks for the next     *)
(* item.                                                                   *)
AfterItem(w) ==
  \/ /\ ~alive \/ Interrupted \/ max_workers = 0
     /\ End(w)
     /\ signal' = IF alive /\ Interrupted THEN "stop" ELSE signal
     /\ UNCHANGED scheduled
  \/ /\ alive /\ ~Interrupted /\ max_workers > 0
     /\ scheduled' = [scheduled EXCEPT ![w] = @ + 1]
     /\ place' = [place EXCEPT ![w] = "next"]
     /\ UNCHANGED <<active, signal>>

BackDone(g) ==
  /\ active = g /\ place[g] = "back" /\ waiters[on[g]] = {}
  /\ on' = [on EXCEPT ![g] = Loop]
  /\ IF g \in Worker THEN AfterItem(g)
     ELSE place' = [place EXCEPT ![g] = "run"] /\ UNCHANGED <<active, scheduled, signal>>
  /\ UNCHANGED <<futureVars, queueVars, calls, cut>>
-----------------------------------------------------------------------------
(* What user code may do: a client, a function or a callback of the loop.  *)
InUserCode(g) == active = g /\ place[g] \in {"run", "fn"}

(* Mutant: a worker is made for the first of several items only.           *)
WantsWorkerIfEmpty == pendings = <<>> /\ (max_workers = 0 \/ run_workers < max_workers)

WantsWorker == max_workers = 0 \/ run_workers < max_workers

(* adjust_thread_count.  Nothing wakes a worker that is idle.              *)
AdjustThreadCount ==
  IF WantsWorker
  THEN \E w \in Worker :
         /\ place[w] = "none"
         /\ \A v \in Worker : v < w => place[v] # "none"
         /\ place' = [place EXCEPT ![w] = "fresh"]
         /\ scheduled' = [scheduled EXCEPT ![w] = 1]
         /\ run_workers' = run_workers + 1
  ELSE UNCHANGED <<place, scheduled, run_workers>>

(* A future is made for an item: pending, with nothing of its own.         *)
NewFuture(f) ==
  /\ state' = [state EXCEPT ![f] = "PENDING"]
  /\ UNCHANGED <<settled, callbacks, waiters, handled>>

(* submit().                                                               *)
Submit(g, f) ==
  /\ InUserCode(g) /\ alive
  /\ state[f] = "new" /\ \A e \in Future : e < f => state[e] # "new"
  /\ NewFuture(f)
  /\ pendings' = Append(pendings, f)
  /\ AdjustThreadCount
  /\ UNCHANGED <<max_workers, alive, active, on,
                 signal, calls, cut>>

(* Mutant: cancel() switches to those that wait for the future.            *)
CancelAndWake(g, f) ==
  /\ InUserCode(g) /\ state[f] # "new" /\ f \in Touched
  /\ state' = [state EXCEPT ![f] = "CANCELLED"]
  /\ CallCallbacks(f)
  /\ UNCHANGED <<settled, waiters, handled, queueVars, active, signal, cut>>
  /\ BackWaiter(g, f)

(* cancel(), whatever the state.  Those that wait for the result go on     *)
(* waiting.                                                                *)
Cancel(g, f) ==
  /\ InUserCode(g) /\ state[f] # "new" /\ f \in Touched
  /\ state' = [state EXCEPT ![f] = "CANCELLED"]
  /\ CallCallbacks(f)
  /\ UNCHANGED <<settled, waiters, handled, queueVars, controlVars, scheduled, signal,
                 cut>>

(* set_result() and set_exception(): the state stays what it is.  Bound: a *)
(* future is given a result once.                                          *)
SetResult(g, f) ==
  /\ active = g /\ place[g] = "run" /\ state[f] # "new"
  /\ f \in Touched \ settled
  /\ settled' = settled \cup {f}
  /\ CallCallbacks(f)
  /\ UNCHANGED <<state, waiters, handled, queueVars, active, signal, cut>>
  /\ BackWaiter(g, f)

(* add_done_callback().                                                    *)
AddDoneCallback(g, f, k) ==
  /\ InUserCode(g) /\ state[f] # "new" /\ f \in Touched
  /\ k \notin callbacks[f] /\ calls[f][k] = 0
  /\ IF state[f] = "PENDING"
     THEN callbacks' = [callbacks EXCEPT ![f] = @ \cup {k}] /\ UNCHANGED calls
     ELSE calls' = [calls EXCEPT ![f][k] = @ + 1] /\ UNCHANGED callbacks
  /\ UNCHANGED <<state, settled, waiters, handled, queueVars, controlVars, scheduled, signal,
                 cut>>

RemoveDoneCallback(g, f, k) ==
  /\ InUserCode(g) /\ k \in callbacks[f]
  /\ callbacks' = [callbacks EXCEPT ![f] = @ \ {k}]
  /\ UNCHANGED <<state, settled, waiters, handled, queueVars, controlVars, scheduled, signal,
                 calls, cut>>

(* result() and exception() of a future that is not finished or cancelled. *)
Result(c, f) ==
  /\ active = c /\ place[c] = "run"
  /\ state[f] = "PENDING"
  /\ waiters' = [waiters EXCEPT ![f] = @ \cup {c}]
  /\ on' = [on EXCEPT ![c] = f]
  /\ Leave(c, "result")
  /\ UNCHANGED <<state, settled, callbacks, handled, queueVars, scheduled, signal, calls, cut>>

(* A client waits for something else.                                      *)
Yield(c) ==
  /\ active = c /\ place[c] = "run"
  /\ Leave(c, "away")
  /\ UNCHANGED <<futureVars, queueVars, on, scheduled, signal, calls, cut>>

(* The last reference to the executor goes, while items are waiting        *)
(* (bound): ExecutorObject_clear drops them.                               *)
Drop(c) ==
  /\ active = c /\ place[c] = "run" /\ alive
  /\ pendings # <<>>
  /\ alive' = FALSE
  /\ pendings' = <<>>
  /\ UNCHANGED <<max_workers, run_workers, futureVars, controlVars, scheduled, signal, calls, cut>>
-----------------------------------------------------------------------------
(* The states in which _worker and run_worker go on with an item.          *)
Runnable(f) == state[f] = "PENDING"

(* The head of _worker's loop.                                             *)
NextItem(w) ==
  /\ active = w /\ place[w] = "next"
  /\ \/ /\ ~alive \/ Interrupted
        /\ End(w)
        /\ signal' = IF alive THEN "stop" ELSE signal
        /\ cut' = IF alive THEN cut + 1 ELSE cut
        /\ UNCHANGED <<pendings, handled, on>>
     \/ /\ alive /\ ~Interrupted
        /\ UNCHANGED <<signal, cut>>
        /\ \/ /\ pendings = <<>>
              /\ Leave(w, "idle")
              /\ UNCHANGED <<pendings, handled, on>>
           \/ /\ pendings # <<>> /\ ~Runnable(Head(pendings))
              /\ pendings' = Tail(pendings)
              /\ UNCHANGED <<controlVars, handled>>
           \/ /\ pendings # <<>> /\ Runnable(Head(pendings))
              /\ pendings' = Tail(pendings)
              /\ handled' = [handled EXCEPT ![Head(pendings)] = {w}]
              /\ on' = [on EXCEPT ![w] = Head(pendings)]
              /\ place' = [place EXCEPT ![w] = IF Head(pendings) \in settled
                                                THEN "over" ELSE "fn"]
              /\ UNCHANGED active
  /\ UNCHANGED <<state, settled, callbacks, waiters, max_workers, run_workers, alive,
                 scheduled, calls>>

(* run_worker leaves alone a future that has a result already.             *)
NotRun(w) ==
  /\ active = w /\ place[w] = "over"
  /\ on' = [on EXCEPT ![w] = Loop]
  /\ AfterItem(w)
  /\ UNCHANGED <<futureVars, queueVars, calls, cut>>

(* The function waits for something, in the loop.                          *)
Park(w) ==
  /\ active = w /\ place[w] = "fn"
  /\ Leave(w, "parked")
  /\ UNCHANGED <<futureVars, queueVars, on, scheduled, signal, calls, cut>>

(* The function returns or raises.  A future that was cancelled meanwhile  *)
(* is finished all the same.                                               *)
FnEnds(w) ==
  /\ active = w /\ place[w] = "fn"
  /\ state' = [state EXCEPT ![on[w]] = "FINISHED"]
  /\ settled' = settled \cup {on[w]}
  /\ CallCallbacks(on[w])
  /\ UNCHANGED <<waiters, handled, queueVars, active, signal, cut>>
  /\ BackWaiter(w, on[w])
-----------------------------------------------------------------------------
LoopRuns == active = Loop /\ place[Loop] = "run"

(* fire_handle of a worker's handle.                                       *)
Fire(w) ==
  /\ LoopRuns /\ signal # "stop"
  /\ scheduled[w] > 0
  /\ scheduled' = [scheduled EXCEPT ![w] = @ - 1]
  /\ SwitchTo(w)
  /\ UNCHANGED <<futureVars, queueVars, signal, calls, cut>>

(* What a client or a function waited for elsewhere has come.              *)
Wake(g) ==
  /\ LoopRuns /\ signal # "stop"
  /\ place[g] \in {"away", "parked"}
  /\ SwitchTo(g)
  /\ UNCHANGED <<futureVars, queueVars, scheduled, signal, calls, cut>>

(* A timeout or another exception ends result().  The client stays among   *)
(* the waiters.                                                            *)
Disturb(c) ==
  /\ LoopRuns
  /\ place[c] = "result"
  /\ active' = c
  /\ place' = [place EXCEPT ![c] = "run"]
  /\ on' = [on EXCEPT ![c] = Loop]
  /\ UNCHANGED <<futureVars, queueVars, scheduled, signal, calls, cut>>

(* Ctrl-C, pressed while a worker has yet to start (bound), and the end of *)
(* a run of the loop and the beginning of another.                         *)
Signal ==
  /\ signal = "none" /\ cut < MaxSignals
  /\ \E w \in Worker : place[w] = "fresh"
  /\ signal' = "caught"
  /\ UNCHANGED <<futureVars, queueVars, controlVars, scheduled, calls, cut>>

Stop ==
  /\ LoopRuns /\ signal # "none"
  /\ signal' = IF signal = "caught" THEN "stop" ELSE "none"
  /\ UNCHANGED <<futureVars, queueVars, controlVars, scheduled, calls, cut>>

UserCode ==
  \/ \E g \in Greenlet, f \in Future :
       \/ Submit(g, f) \/ Cancel(g, f) \/ SetResult(g, f)
       \/ \E k \in Callback : AddDoneCallback(g, f, k) \/ RemoveDoneCallback(g, f, k)
  \/ \E c \in Client : Yield(c) \/ Drop(c) \/ \E f \in Future : Result(c, f)

WorkerStep == \E w \in Worker : NextItem(w) \/ NotRun(w) \/ FnEnds(w)

BackStep == \E g \in Greenlet : PopWaiter(g) \/ BackDone(g)

Next ==
  \/ UserCode \/ WorkerStep \/ BackStep
  \/ \E w \in Worker : Park(w) \/ Fire(w)
  \/ \E g \in Greenlet : Wake(g)
  \/ \E c \in Client : Disturb(c)
  \/ Signal \/ Stop

Spec == Init /\ [][Next]_vars

(* A greenlet that runs gives control back, what back_waiter and a worker  *)
(* do is done, and the loop serves the handles in its queue.               *)
FairSpec ==
  /\ Spec
  /\ WF_vars(BackStep) /\ WF_vars(WorkerStep \/ \E w \in Worker : Park(w))
  /\ \A c \in Client : SF_vars(Yield(c))
  /\ \A w \in Worker : SF_vars(Fire(w))
-----------------------------------------------------------------------------
(* Every item of an executor without limit has a worker that has not had   *)
(* an item yet: nothing strands in pendings, but for one item for every    *)
(* worker that meets Ctrl-C instead.                                       *)
ItemsCovered ==
  max_workers = 0 =>
    Len(pendings) <= Cardinality({w \in Worker : place[w] \in {"fresh", "next"}})
                     + cut

(* A callback is scheduled at most once, whichever of the result, cancel() *)
(* and a late add_done_callback() come, and never before one of them.      *)
CallbacksOnce ==
  \A f \in Future : /\ \A k \in Callback : calls[f][k] <= 1
                    /\ state[f] \in {"CANCELLED", "FINISHED"} => callbacks[f] = {}

(* result() goes on only when there is a result: whatever else is done     *)
(* with the future, only an exception, or the client's stale entry among   *)
(* the waiters of another future, brings it back without one.              *)
ResultIsThere ==
  [][\A c \in Client :
       place[c] = "result" /\ place'[c] = "run" /\ on[c] \notin settled =>
         Disturb(c) \/ \E f \in Future \ {on[c]} : c \in waiters[f] \ waiters'[f]]_vars

(* With at most two waiters, all of them are told of a result, although    *)
(* the first one that is told leaves the worker inside of back_waiter.     *)
ResultArrives ==
  \A c \in Client, f \in Future :
    (place[c] = "result" /\ on[c] = f /\ state[f] = "FINISHED" /\ Cardinality(Client) <= 2)
      ~> (place[c] # "result" \/ on[c] # f \/ signal = "stop")
=============================================================================
