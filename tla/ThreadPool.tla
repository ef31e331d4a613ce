------------------------------ MODULE ThreadPool ------------------------------
(***************************************************************************)
(* ThreadPoolExecutor of jega/futures/_thread.py with the futures and the  *)
(* wait functions of jega/futures/_base.py.                                *)
(*                                                                         *)
(* The workers are threads; everything else, the futures included, is done *)
(* in the loop's thread, by its greenlets and by callbacks that a worker   *)
(* hands over with call_soon_threadsafe.  A greenlet's call is a step, as  *)
(* no lock of a future is held across a switch; one that waits is resumed  *)
(* by a step of its own.                                                   *)
(*                                                                         *)
(* Left out: done callbacks, what a result is, and map().                  *)
(***************************************************************************)
EXTENDS Naturals, Sequences, FiniteSets

CONSTANTS
  Worker,     \* the threads of _max_workers
  Greenlet,   \* greenlets that use the pool
  Future,     \* bound: the futures that are submitted
  Modes       \* the return_when of wait() and _AS_COMPLETED

ModesAssumption == Modes \subseteq {"ALL", "FIRST", "EXCEPTION", "AS"}
ASSUME ModesAssumption

VARIABLES
  open,       \* neither _shutdown, the module's or the executor's, is set
  queue,      \* _work_queue
  place,      \* of each thread
  item,       \* the futures whose item a thread has, none or one
  state,      \* future._state
  calls,      \* what was given to call_soon_threadsafe: <<step, future>>
  event,      \* the items whose _event is set
  cancelled,  \* the items with _cancelled
  kept,       \* the items whose InfiniteHandler keeps the loop running
  looping,    \* run() of the loop is under way
  joining,    \* the loop's thread is in shutdown(wait=True)
  gplace,     \* of each greenlet: "out", or in "result", "wait", or "yield" of
              \* as_completed()
  fs,         \* the futures it waits for
  mode,       \* its return_when
  pending,    \* waiter.num_pending_calls
  finished,   \* waiter.finished_futures
  taken,      \* what as_completed() took from there to yield it
  left,       \* as_completed()'s own set of pending futures
  flag        \* the greenlets whose waiter.event is set, or that are notified

poolVars == <<open, queue, place, item, kept, joining>>
itemVars == <<event, cancelled>>
waitVars == <<gplace, fs, mode, pending, finished, taken, left, flag>>
vars == <<poolVars, itemVars, waitVars, state, calls, looping>>

Init ==
  /\ open = TRUE /\ queue = <<>> /\ kept = {} /\ joining = FALSE
  /\ place = [w \in Worker |-> "none"] /\ item = [w \in Worker |-> {}]
  /\ state = [f \in Future |-> "new"]
  /\ calls = <<>> /\ event = {} /\ cancelled = {} /\ looping = FALSE
  /\ gplace = [g \in Greenlet |-> "out"]
  /\ fs = [g \in Greenlet |-> {}] /\ mode = [g \in Greenlet |-> "none"]
  /\ pending = [g \in Greenlet |-> 0] /\ finished = [g \in Greenlet |-> {}]
  /\ taken = [g \in Greenlet |-> {}] /\ left = [g \in Greenlet |-> {}]
  /\ flag = {}

(* What wait() calls done: a future that was only cancelled is not.        *)
Done(f) == state[f] \in {"CANCELLED_AND_NOTIFIED", "FINISHED"}

Free(g) == ~joining /\ gplace[g] = "out"
-----------------------------------------------------------------------------
(* submit(), with a thread if there are not yet as many as there may be.   *)
Submit(f) ==
  /\ ~joining /\ open
  /\ state[f] = "new" /\ \A e \in Future : e < f => state[e] # "new"
  /\ state' = [state EXCEPT ![f] = "PENDING"]
  /\ queue' = Append(queue, f)
  /\ kept' = kept \cup {f}
  /\ IF \E w \in Worker : place[w] = "none"
     THEN \E w \in Worker :
            /\ place[w] = "none" /\ \A v \in Worker : v < w => place[v] # "none"
            /\ place' = [place EXCEPT ![w] = "get"]
     ELSE UNCHANGED place
  /\ UNCHANGED <<open, item, joining, itemVars, waitVars, calls, looping>>

(* shutdown(), or the interpreter's exit, which always waits.  The join    *)
(* ends when every thread has ended.                                       *)
Shutdown(wait) ==
  /\ ~joining
  /\ open' = FALSE
  /\ joining' = wait
  /\ UNCHANGED <<queue, place, item, kept, itemVars, waitVars, state, calls, looping>>

Joined ==
  /\ joining /\ \A w \in Worker : place[w] \in {"none", "gone"}
  /\ joining' = FALSE
  /\ UNCHANGED <<open, queue, place, item, kept, itemVars, waitVars, state, calls, looping>>
-----------------------------------------------------------------------------
(* A thread takes an item, whose run() asks the loop to call _set_running. *)
Get(w) ==
  /\ place[w] = "get" /\ queue # <<>>
  /\ queue' = Tail(queue)
  /\ item' = [item EXCEPT ![w] = {Head(queue)}]
  /\ place' = [place EXCEPT ![w] = "event"]
  /\ calls' = Append(calls, <<"set_running", Head(queue)>>)
  /\ UNCHANGED <<open, kept, joining, itemVars, waitVars, state, looping>>

(* get() raises queue.Empty; what _worker looks at next may have changed   *)
(* since.                                                                  *)
Empty(w) ==
  /\ place[w] = "get" /\ queue = <<>>
  /\ place' = [place EXCEPT ![w] = "empty"]
  /\ UNCHANGED <<open, queue, item, kept, joining, itemVars, waitVars, state, calls, looping>>

(* Mutant: _worker does not look at _shutdown.                             *)
AfterEmptyStays(w) ==
  /\ place[w] = "empty"
  /\ place' = [place EXCEPT ![w] = "get"]
  /\ UNCHANGED <<open, queue, item, kept, joining, itemVars, waitVars, state, calls, looping>>

(* A thread that found nothing ends when the pool is shut down.            *)
AfterEmpty(w) ==
  /\ place[w] = "empty"
  /\ place' = [place EXCEPT ![w] = IF open THEN "get" ELSE "gone"]
  /\ UNCHANGED <<open, queue, item, kept, joining, itemVars, waitVars, state, calls, looping>>

(* Mutant: run() does not look at _cancelled.                              *)
AfterEventUnchecked(w, f) ==
  place' = [place EXCEPT ![w] = "fn"] /\ UNCHANGED item

AfterEvent(w, f) ==
  IF f \in cancelled
  THEN place' = [place EXCEPT ![w] = "get"] /\ item' = [item EXCEPT ![w] = {}]
  ELSE place' = [place EXCEPT ![w] = "fn"] /\ UNCHANGED item

(* run() goes on when _event is set.                                       *)
Proceed(w) ==
  /\ place[w] = "event"
  /\ \E f \in item[w] \cap event : AfterEvent(w, f)
  /\ UNCHANGED <<open, queue, kept, joining, itemVars, waitVars, state, calls, looping>>

(* Mutant: the handler is released first.                                  *)
ReportReleased(w) == <<"release", "set_result">>

(* What run() hands over after the function, one after the other.          *)
Report(w) == <<"set_result", "release">>

(* The function returns, or it raises, and the result is handed over.      *)
FnEnds(w) ==
  /\ place[w] = "fn"
  /\ \E f \in item[w] : calls' = Append(calls, <<Report(w)[1], f>>)
  /\ place' = [place EXCEPT ![w] = "report"]
  /\ UNCHANGED <<open, queue, item, kept, joining, itemVars, waitVars, state, looping>>

(* run()'s finally clause.                                                 *)
Finally(w) ==
  /\ place[w] = "report"
  /\ \E f \in item[w] : calls' = Append(calls, <<Report(w)[2], f>>)
  /\ place' = [place EXCEPT ![w] = "get"]
  /\ item' = [item EXCEPT ![w] = {}]
  /\ UNCHANGED <<open, queue, kept, joining, itemVars, waitVars, state, looping>>
-----------------------------------------------------------------------------
(* The waiters of a future.                                                *)
Waiters(f) == {g \in Greenlet : gplace[g] \in {"wait", "yield"} /\ f \in fs[g]}

(* The events that lower num_pending_calls.                                *)
Counts(g, how) ==
  \/ mode[g] = "ALL"
  \/ mode[g] = "EXCEPTION" /\ how # "exception"

(* waiter.add_result, add_exception and add_cancelled of every waiter.     *)
Tell(f, how) ==
  /\ finished' = [g \in Greenlet |-> IF g \in Waiters(f) THEN finished[g] \cup {f}
                                     ELSE finished[g]]
  /\ pending' = [g \in Greenlet |-> IF g \in Waiters(f) /\ Counts(g, how)
                                    THEN pending[g] - 1 ELSE pending[g]]
  /\ flag' = flag
       \cup {g \in Waiters(f) : IF Counts(g, how) THEN pending'[g] = 0
                                ELSE mode[g] \in {"FIRST", "AS", "EXCEPTION"}}
       \cup {g \in Greenlet : how # "cancelled" /\ gplace[g] = "result" /\ fs[g] = {f}}
  /\ UNCHANGED <<gplace, fs, mode, taken, left>>

(* _set_running.  An item asks for it once, so that the third case of      *)
(* set_running_or_notify_cancel, which raises, is not met.                 *)
SetRunning(f) ==
  \/ /\ state[f] = "CANCELLED"
     /\ state' = [state EXCEPT ![f] = "CANCELLED_AND_NOTIFIED"]
     /\ Tell(f, "cancelled")
     /\ kept' = kept \ {f}
     /\ cancelled' = cancelled \cup {f}
     /\ event' = event \cup {f}
  \/ /\ state[f] = "PENDING"
     /\ state' = [state EXCEPT ![f] = "RUNNING"]
     /\ event' = event \cup {f}
     /\ UNCHANGED <<kept, cancelled, waitVars>>

(* future.set_result and set_exception.                                    *)
SetResult(f) ==
  /\ state' = [state EXCEPT ![f] = "FINISHED"]
  /\ \E how \in {"result", "exception"} : Tell(f, how)
  /\ UNCHANGED <<kept, itemVars>>

(* handler.cancel.                                                         *)
Release(f) ==
  /\ kept' = kept \ {f}
  /\ UNCHANGED <<state, itemVars, waitVars>>

LoopStep ==
  /\ looping /\ ~joining /\ calls # <<>>
  /\ calls' = Tail(calls)
  /\ LET step == Head(calls)[1]
         f == Head(calls)[2]
     IN \/ step = "set_running" /\ SetRunning(f)
        \/ step = "set_result" /\ SetResult(f)
        \/ step = "release" /\ Release(f)
  /\ UNCHANGED <<open, queue, place, item, joining, looping>>

(* run() is called.  It returns when nothing is left for it, which a live  *)
(* InfiniteHandler prevents, or when Ctrl-C is pressed.                    *)
Run ==
  /\ ~looping /\ ~joining
  /\ looping' = TRUE
  /\ UNCHANGED <<poolVars, itemVars, waitVars, state, calls>>

Ends ==
  /\ looping /\ ~joining /\ calls = <<>> /\ kept = {}
  /\ \A g \in flag : gplace[g] \notin {"result", "wait"}
  /\ looping' = FALSE
  /\ UNCHANGED <<poolVars, itemVars, waitVars, state, calls>>

Interrupt ==
  /\ looping /\ ~joining
  /\ looping' = FALSE
  /\ UNCHANGED <<poolVars, itemVars, waitVars, state, calls>>
-----------------------------------------------------------------------------
(* cancel() of a future that does not run yet wakes those in result().     *)
Cancel(f) ==
  /\ ~joining /\ state[f] = "PENDING"
  /\ state' = [state EXCEPT ![f] = "CANCELLED"]
  /\ flag' = flag \cup {g \in Greenlet : gplace[g] = "result" /\ fs[g] = {f}}
  /\ UNCHANGED <<poolVars, itemVars, calls, looping, gplace, fs, mode, pending, finished,
                 taken, left>>

(* result() and exception() of a future that has none yet.                 *)
Result(g, f) ==
  /\ Free(g) /\ state[f] \in {"PENDING", "RUNNING"}
  /\ gplace' = [gplace EXCEPT ![g] = "result"]
  /\ fs' = [fs EXCEPT ![g] = {f}]
  /\ looping' = TRUE
  /\ UNCHANGED <<poolVars, itemVars, state, calls, mode, pending, finished, taken, left, flag>>

(* Mutant: a cancelled future is taken for a done one.                     *)
OutstandingUncancelled(s) == {f \in s : ~Done(f) /\ state[f] # "CANCELLED"}

(* The futures a waiter is told of later.                                  *)
Outstanding(s) == {f \in s : ~Done(f)}

(* When wait() returns, or raises for want of a method, before it waits.   *)
ReturnsAtOnce(s, m) ==
  \/ \A f \in s : Done(f)
  \/ m \in {"FIRST", "EXCEPTION"} /\ \E f \in s : Done(f)

(* wait(), and as_completed() up to its first yield, if there is one.      *)
Wait(g, s, m) ==
  /\ Free(g)
  /\ \A f \in s : state[f] # "new"
  /\ ~ReturnsAtOnce(s, m)
  /\ gplace' = [gplace EXCEPT ![g] = IF m = "AS" THEN "yield" ELSE "wait"]
  /\ fs' = [fs EXCEPT ![g] = s]
  /\ mode' = [mode EXCEPT ![g] = m]
  /\ pending' = [pending EXCEPT ![g] = IF m \in {"AS", "FIRST"} THEN 0
                                      ELSE Cardinality(Outstanding(s))]
  /\ finished' = [finished EXCEPT ![g] = {}]
  /\ taken' = [taken EXCEPT ![g] = IF m = "AS" THEN s \ Outstanding(s) ELSE {}]
  /\ left' = [left EXCEPT ![g] = IF m = "AS" THEN Outstanding(s) ELSE {}]
  /\ flag' = flag \ {g}
  /\ looping' = TRUE
  /\ UNCHANGED <<poolVars, itemVars, state, calls>>

(* Every waiter is removed from its futures.                               *)
Return(g) ==
  /\ gplace' = [gplace EXCEPT ![g] = "out"]
  /\ fs' = [fs EXCEPT ![g] = {}]
  /\ mode' = [mode EXCEPT ![g] = "none"]
  /\ pending' = [pending EXCEPT ![g] = 0]
  /\ finished' = [finished EXCEPT ![g] = {}]
  /\ taken' = [taken EXCEPT ![g] = {}]
  /\ left' = [left EXCEPT ![g] = {}]
  /\ flag' = flag \ {g}

(* The loop resumes a greenlet whose future or whose waiter is done.       *)
Resume(g) ==
  /\ looping /\ ~joining
  /\ gplace[g] \in {"result", "wait"} /\ g \in flag /\ mode[g] # "AS"
  /\ Return(g)
  /\ UNCHANGED <<poolVars, itemVars, state, calls, looping>>

(* The timeout comes first.  as_completed() has none, as it hands a float  *)
(* to wait(), which raises.                                                *)
TimesOut(g) ==
  /\ looping /\ ~joining
  /\ gplace[g] \in {"result", "wait"} /\ mode[g] # "AS"
  /\ Return(g)
  /\ UNCHANGED <<poolVars, itemVars, state, calls, looping>>

(* as_completed() takes what its waiter has collected, and clears the      *)
(* event.                                                                  *)
Take(g) ==
  /\ taken' = [taken EXCEPT ![g] = finished[g]]
  /\ finished' = [finished EXCEPT ![g] = {}]
  /\ flag' = flag \ {g}

Collect(g) ==
  /\ looping /\ ~joining
  /\ gplace[g] = "wait" /\ mode[g] = "AS" /\ g \in flag
  /\ Take(g)
  /\ gplace' = [gplace EXCEPT ![g] = "yield"]
  /\ UNCHANGED <<poolVars, itemVars, state, calls, looping, fs, mode, pending, left>>

(* A future is yielded; the next one is when the greenlet comes back.      *)
Yield(g) ==
  /\ ~joining /\ gplace[g] = "yield"
  /\ \E f \in taken[g] :
       /\ taken' = [taken EXCEPT ![g] = @ \ {f}]
       /\ left' = [left EXCEPT ![g] = @ \ {f}]
  /\ UNCHANGED <<poolVars, itemVars, state, calls, looping, gplace, fs, mode, pending,
                 finished, flag>>

(* The head of as_completed()'s loop, after the last one.                  *)
Again(g) ==
  /\ ~joining /\ gplace[g] = "yield" /\ taken[g] = {} /\ left[g] # {}
  /\ gplace' = [gplace EXCEPT ![g] = "wait"]
  /\ looping' = TRUE
  /\ UNCHANGED <<poolVars, itemVars, state, calls, fs, mode, pending, finished, taken, left,
                 flag>>

(* as_completed() ends, or its caller wants no more.                       *)
Close(g) ==
  /\ ~joining /\ gplace[g] = "yield"
  /\ Return(g)
  /\ UNCHANGED <<poolVars, itemVars, state, calls, looping>>
-----------------------------------------------------------------------------
WorkerStep(w) ==
  Get(w) \/ Empty(w) \/ AfterEmpty(w) \/ Proceed(w) \/ FnEnds(w) \/ Finally(w)

GreenletStep(g) ==
  \/ Resume(g) \/ TimesOut(g) \/ Collect(g) \/ Yield(g) \/ Again(g) \/ Close(g)
  \/ \E f \in Future : Result(g, f)
  \/ \E s \in SUBSET Future, m \in Modes : Wait(g, s, m)

Next ==
  \/ \E w \in Worker : WorkerStep(w)
  \/ \E g \in Greenlet : GreenletStep(g)
  \/ \E f \in Future : Submit(f) \/ Cancel(f)
  \/ \E wait \in BOOLEAN : Shutdown(wait)
  \/ Joined \/ LoopStep \/ Run \/ Ends \/ Interrupt

Spec == Init /\ [][Next]_vars

(* Threads run, functions return, and run() serves what was handed over.   *)
FairSpec ==
  /\ Spec
  /\ \A w \in Worker : WF_vars(WorkerStep(w))
  /\ WF_vars(LoopStep) /\ WF_vars(Joined)
-----------------------------------------------------------------------------
(* Whatever is not done keeps the loop running, so that run() does not     *)
(* return before the result is there.                                      *)
KeptAlive == \A f \in Future : state[f] # "new" /\ ~Done(f) => f \in kept

(* A waiter that has not been told to go on knows how many of its futures  *)
(* it still has to hear of, whichever of them are done or cancelled when   *)
(* and while it waits; and as_completed() loses none of them.              *)
CountExact(g) ==
  gplace[g] = "wait" /\ mode[g] \in {"ALL", "EXCEPTION"} /\ g \notin flag =>
    pending[g] > 0 /\ pending[g] = Cardinality({f \in fs[g] : ~Done(f)})

YieldsExact(g) ==
  mode[g] = "AS" =>
    /\ left[g] = {f \in fs[g] : ~Done(f)} \cup finished[g] \cup (taken[g] \cap left[g])
    /\ finished[g] # {} => g \in flag

WaiterExact == \A g \in Greenlet : CountExact(g) /\ YieldsExact(g)

(* A function runs only while its future is running: not when it was       *)
(* cancelled first, not again, and in one thread.                          *)
RunsInState ==
  /\ \A w \in Worker : place[w] = "fn" => \A f \in item[w] : state[f] = "RUNNING"
  /\ \A v, w \in Worker : v # w => item[v] \cap item[w] = {}

(* shutdown(wait=True) returns if no item is left that has to ask the loop *)
(* to start it: the loop's thread, which is in shutdown(), does not answer.*)
JoinEnds ==
  (joining /\ queue = <<>> /\ \A w \in Worker : item[w] \subseteq event) ~> ~joining

(* "tells the workers to exit when their work queues are empty" (comment   *)
(* of jega/futures/_thread.py): when all threads have ended, the queue is. *)
ExitsWhenEmpty ==
  (\A w \in Worker : place[w] \in {"none", "gone"}) => queue = <<>>
=============================================================================
