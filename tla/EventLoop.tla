------------------------------ MODULE EventLoop ------------------------------
(***************************************************************************)
(* The scheduler of jega: LoopObject of src/loop.c with the handles and    *)
(* timers of src/timer.c.                                                  *)
(*                                                                         *)
(* The loop runs in a greenlet of its own.  It is started by the main      *)
(* greenlet, and hands control back either for good, when the run is over  *)
(* ("dead"), or for a while, when something it fires switches to the main  *)
(* greenlet: loop.stop() in a callback, a timer that wakes the main        *)
(* greenlet from loop.sleep(), an I/O timeout.  In the second case the     *)
(* loop is suspended in the middle of fire_pendings or of the poll, with   *)
(* the popped item still in its hands, while the main greenlet goes on     *)
(* using the loop's API; the next run() continues it where it was.         *)
(*                                                                         *)
(* heapq.c is the set scheduled, with the contract HeapQueue.tla checks;   *)
(* queue.c is the sequence pendings, with the contract of Fifo.tla.        *)
(***************************************************************************)
EXTENDS Integers, FiniteSets, Sequences

CONSTANTS
  Handle,     \* the handles call_soon may create (HandleObject)
  Timer,      \* the timers call_later and call_repeatedly may create
  Interval,   \* the seconds callers ask for
  Fd,         \* file descriptors, the self-pipe's excluded
  Nothing,    \* NULL
  MaxNow,     \* bound: the clock stops there
  MaxPendings \* bound: a signal handler adds no callback beyond this length

ASSUME IntervalAssumption == Interval \subseteq Nat \ {0}
ASSUME ObjectAssumption == /\ Handle \cap Timer = {}
                           /\ Nothing \notin Handle \cup Timer
ASSUME MaxNowAssumption == MaxNow \in Nat

Object == Handle \cup Timer

VARIABLES
  state,        \* self->state: "STOP" or "RUNNING"
  pendings,     \* self->pendings
  scheduled,    \* self->scheduled
  activecnt,    \* self->activecnt
  ioactivecnt,  \* self->ioactivecnt, which counts the self-pipe too
  postfork,     \* self->postfork
  catch_signal, \* "none", "INT" or "TERM"
  made,         \* the objects that exist
  cancelled,    \* the fields of the same names of every object
  called, seconds, interval, repeat,
  fds,          \* descriptors registered with picoev, the self-pipe's excluded
  ready,        \* descriptors the last epoll_wait reported and not yet served
  clock,        \* what time(NULL) returns
  now,          \* the local variable of fire_timers, 0 outside of it
  pc,           \* where the loop greenlet is
  item,         \* the local variable of fire_pendings while it fires
  active,       \* the greenlet that has control, "main" or "loop"
  once,         \* whether the loop greenlet runs _run_once rather than _run
  err,          \* the Python exception that is set: "none", "abort" or "error"
  outcome       \* how the last run ended

loopVars == <<state, pendings, scheduled, activecnt>>
timerVars == <<made, cancelled, called, seconds, interval, repeat>>
ioVars == <<ioactivecnt, fds, ready, postfork>>
flowVars == <<pc, item, active, once, err, outcome>>
vars == <<loopVars, timerVars, ioVars, flowVars, catch_signal, clock, now>>

Init ==
  /\ state = "STOP"
  /\ pendings = <<>>
  /\ scheduled = {}
  /\ activecnt = 0
  /\ ioactivecnt = 1
  /\ postfork = FALSE
  /\ catch_signal = "none"
  /\ made = {}
  /\ cancelled = [o \in Object |-> FALSE]
  /\ called = [t \in Timer |-> FALSE]
  /\ seconds = [t \in Timer |-> 0]
  /\ interval = [t \in Timer |-> 0]
  /\ repeat = [t \in Timer |-> FALSE]
  /\ fds = {}
  /\ ready = {}
  /\ clock = 0
  /\ now = 0
  /\ pc = "dead"
  /\ item = Nothing
  /\ active = "main"
  /\ once = FALSE
  /\ err = "none"
  /\ outcome = "none"

Queued(o) == \E i \in 1 .. Len(pendings) : pendings[i] = o
-----------------------------------------------------------------------------
(* The API, called by the main greenlet or by what the loop is firing.     *)
UserCode == active = "main" \/ pc \in {"firing", "iocb"}

(* schedule_timer: a handle goes to the queue, a timer to the heap.         *)
ScheduleHandle(h) ==
  /\ pendings' = Append(pendings, h)
  /\ activecnt' = activecnt + 1
  /\ UNCHANGED scheduled

ScheduleTimer(t) ==
  /\ scheduled' = scheduled \cup {t}
  /\ activecnt' = activecnt + 1
  /\ UNCHANGED pendings

(* TimerObject_new.                                                        *)
NewTimer(t, s, rep) ==
  /\ made' = made \cup {t}
  /\ seconds' = [seconds EXCEPT ![t] = clock + s]
  /\ interval' = [interval EXCEPT ![t] = s]
  /\ repeat' = [repeat EXCEPT ![t] = rep]
  /\ UNCHANGED <<cancelled, called>>

(* call_soon; and call_soon_threadsafe, whose thread can only get the GIL  *)
(* from user code or while the loop is in epoll_wait.  set_timeout(0)      *)
(* makes a handle too, already cancelled.                                  *)
CallSoon(h, dead) ==
  /\ UserCode \/ (pc = "poll" /\ ~dead)
  /\ h \in Handle \ made
  /\ made' = made \cup {h}
  /\ cancelled' = [cancelled EXCEPT ![h] = dead]
  /\ ScheduleHandle(h)
  /\ UNCHANGED <<state, called, seconds, interval, repeat, ioVars, flowVars,
                 catch_signal, clock, now>>

(* Mutant: the callback is put in front of the queue.                      *)
AddCallbackFirst(h) ==
  /\ UserCode
  /\ h \in Handle \cap made
  /\ Len(pendings) < MaxPendings
  /\ pendings' = <<h>> \o pendings
  /\ activecnt' = activecnt + 1
  /\ UNCHANGED <<state, scheduled, timerVars, ioVars, flowVars, catch_signal,
                 clock, now>>

(* _add_callback, from the handler add_signal_handler installs: the same   *)
(* handle each time the signal comes.                                      *)
AddCallback(h) ==
  /\ UserCode
  /\ h \in Handle \cap made
  /\ Len(pendings) < MaxPendings
  /\ ScheduleHandle(h)
  /\ UNCHANGED <<state, timerVars, ioVars, flowVars, catch_signal, clock, now>>

(* call_later, set_timeout and sleep of s seconds; call_repeatedly when    *)
(* rep.                                                                    *)
CallLater(t, s, rep) ==
  /\ UserCode
  /\ t \in Timer \ made
  /\ NewTimer(t, s, rep)
  /\ ScheduleTimer(t)
  /\ UNCHANGED <<state, ioVars, flowVars, catch_signal, clock, now>>

Cancel(t) ==
  /\ UserCode
  /\ t \in Timer \cap made
  /\ cancelled' = [cancelled EXCEPT ![t] = TRUE]
  /\ UNCHANGED <<loopVars, made, called, seconds, interval, repeat, ioVars,
                 flowVars, catch_signal, clock, now>>

(* Mutant: destroy_main_loop does not reset ioactivecnt.                   *)
CallForkLoopKeepsCount ==
  /\ postfork' = FALSE
  /\ fds' = IF postfork THEN {} ELSE fds
  /\ ioactivecnt' = IF postfork THEN ioactivecnt + 1 ELSE ioactivecnt

(* call_fork_loop: in the child of a fork, a fresh picoev loop that has    *)
(* only the self-pipe.                                                     *)
CallForkLoop ==
  /\ postfork' = FALSE
  /\ fds' = IF postfork THEN {} ELSE fds
  /\ ioactivecnt' = IF postfork THEN 1 ELSE ioactivecnt

(* add_reader of a descriptor that has no callback yet.  Not modelled: a   *)
(* reset from a callback of the very poll that the reset tears down.       *)
AddReader(fd) ==
  /\ UserCode
  /\ ~(postfork /\ pc = "iocb")
  /\ postfork \/ fd \notin fds
  /\ postfork' = FALSE
  /\ fds' = IF postfork THEN {fd} ELSE fds \cup {fd}
  /\ ioactivecnt' = IF postfork THEN 2 ELSE ioactivecnt + 1
  /\ UNCHANGED <<loopVars, timerVars, ready, flowVars, catch_signal, clock, now>>

RemoveReader(fd) ==
  /\ UserCode
  /\ fd \in fds
  /\ fds' = fds \ {fd}
  /\ ioactivecnt' = ioactivecnt - 1
  /\ UNCHANGED <<loopVars, timerVars, ready, postfork, flowVars, catch_signal,
                 clock, now>>

(* The process goes on as the child of a fork(2).                          *)
Fork ==
  /\ UserCode /\ pc # "iocb"
  /\ ~postfork
  /\ postfork' = TRUE
  /\ UNCHANGED <<loopVars, timerVars, ioactivecnt, fds, ready, flowVars,
                 catch_signal, clock, now>>
-----------------------------------------------------------------------------
(* check_stop_signal: only SIGINT counts, and only if no other signal came *)
(* first, since sigint_cb keeps the first one.                             *)
Interrupted == state = "STOP" \/ catch_signal = "INT"

TakeSignal ==
  catch_signal' = IF state # "STOP" /\ catch_signal = "INT" THEN "none"
                  ELSE catch_signal

(* The loop greenlet is over and the call that started it returns.         *)
Leave(out) ==
  /\ state' = "STOP"
  /\ pc' = "dead"
  /\ active' = "main"
  /\ once' = FALSE
  /\ err' = "none"
  /\ outcome' = out

GoOn(where) == pc' = where /\ UNCHANGED <<state, active, once, err, outcome>>

(* run and run_once when the loop greenlet is dead.                        *)
Run(o) ==
  /\ active = "main" /\ pc = "dead"
  /\ state' = "RUNNING"
  /\ pc' = IF o THEN "begin" ELSE "check"
  /\ active' = "loop"
  /\ once' = o
  /\ outcome' = "none"
  /\ UNCHANGED <<pendings, scheduled, activecnt, timerVars, ioVars, item, err,
                 catch_signal, clock, now>>

(* loop_switch, from the main greenlet's sleep or lock wait, when the loop *)
(* greenlet is dead: _run is entered but switches straight back to         *)
(* suspend_thread, so the caller returns without having waited.            *)
StartSuspended ==
  /\ active = "main" /\ pc = "dead"
  /\ state' = "RUNNING"
  /\ pc' = "start"
  /\ outcome' = "none"
  /\ UNCHANGED <<pendings, scheduled, activecnt, timerVars, ioVars, item, active,
                 once, err, catch_signal, clock, now>>

(* The main greenlet switches back to the suspended loop: run() declares   *)
(* it running again, loop_switch does not.                                 *)
Resume(run) ==
  /\ active = "main" /\ pc # "dead"
  /\ active' = "loop"
  /\ state' = IF run THEN "RUNNING" ELSE state
  /\ pc' = IF pc = "start" THEN "check" ELSE pc
  /\ UNCHANGED <<pendings, scheduled, activecnt, timerVars, ioVars, item, once,
                 err, outcome, catch_signal, clock, now>>

(* What the loop is firing switches to the main greenlet.                  *)
Suspend ==
  /\ active = "loop" /\ pc \in {"firing", "iocb"}
  /\ active' = "main"
  /\ UNCHANGED <<loopVars, timerVars, ioVars, pc, item, once, err, outcome,
                 catch_signal, clock, now>>

(* internal_loop_handle_error in the loop greenlet: an I/O timeout, or an  *)
(* error in a channel's callback, stops the loop and is thrown to main.    *)
ThrowToMain ==
  /\ active = "loop" /\ pc \in {"firing", "iocb"}
  /\ state' = "STOP"
  /\ active' = "main"
  /\ UNCHANGED <<pendings, scheduled, activecnt, timerVars, ioVars, pc, item,
                 once, err, outcome, catch_signal, clock, now>>
-----------------------------------------------------------------------------
(* Mutant: registered descriptors do not keep the loop running.            *)
CheckTimersOnly ==
  /\ active = "loop" /\ pc = "check"
  /\ IF state # "STOP" /\ activecnt > 0 THEN GoOn("begin") ELSE Leave("normal")
  /\ UNCHANGED <<pendings, scheduled, activecnt, timerVars, ioVars, item,
                 catch_signal, clock, now>>

(* The while condition of LoopObject_run.                                  *)
Check ==
  /\ active = "loop" /\ pc = "check"
  /\ IF state # "STOP" /\ (activecnt > 0 \/ ioactivecnt > 1)
       THEN GoOn("begin") ELSE Leave("normal")
  /\ UNCHANGED <<pendings, scheduled, activecnt, timerVars, ioVars, item,
                 catch_signal, clock, now>>

(* internal_run_once up to the call of fire_timers, which reads the clock. *)
Begin ==
  /\ active = "loop" /\ pc = "begin"
  /\ CallForkLoop
  /\ now' = clock
  /\ GoOn("timers")
  /\ UNCHANGED <<pendings, scheduled, activecnt, timerVars, ready, item,
                 catch_signal, clock>>

(* q->heap[0]: any timer with the earliest deadline may be at the top.     *)
Top(t) == t \in scheduled /\ \A u \in scheduled : seconds[t] <= seconds[u]

InTimers == active = "loop" /\ pc = "timers" /\ state = "RUNNING"

DropTimer(t) ==
  /\ InTimers /\ Top(t) /\ cancelled[t]
  /\ scheduled' = scheduled \ {t}
  /\ activecnt' = activecnt - 1
  /\ UNCHANGED <<state, pendings, timerVars, ioVars, flowVars, catch_signal,
                 clock, now>>

(* Mutant: a timer is late by one second.                                  *)
DueLate(t) == seconds[t] < now

Due(t) == seconds[t] <= now

ExpireTimer(t) ==
  /\ InTimers /\ Top(t) /\ ~cancelled[t] /\ Due(t)
  /\ scheduled' = scheduled \ {t}
  /\ pendings' = Append(pendings, t)
  /\ UNCHANGED <<state, activecnt, timerVars, ioVars, flowVars, catch_signal,
                 clock, now>>

TimersDone ==
  /\ active = "loop" /\ pc = "timers"
  /\ \/ scheduled = {} \/ state # "RUNNING"
     \/ \E t \in Timer : Top(t) /\ ~cancelled[t] /\ ~Due(t)
  /\ now' = 0
  /\ GoOn("pendings")
  /\ UNCHANGED <<pendings, scheduled, activecnt, timerVars, ioVars, item,
                 catch_signal, clock>>

(* Mutant: fire_pendings does not look at the signal.                      *)
AfterItemUnchecked(e) ==
  /\ IF e # "none" THEN Leave(e) ELSE GoOn("pendings")
  /\ UNCHANGED catch_signal

(* The end of an iteration of fire_pendings, with e the exception set.     *)
AfterItem(e) ==
  \/ /\ e # "none"
     /\ Leave(e)
     /\ UNCHANGED catch_signal
  \/ /\ e = "none" /\ Interrupted
     /\ Leave("interrupt")
     /\ TakeSignal
  \/ /\ e = "none" /\ ~Interrupted
     /\ GoOn("pendings")
     /\ UNCHANGED catch_signal

InPendings == active = "loop" /\ pc = "pendings" /\ state # "STOP" /\ pendings # <<>>

(* Mutant: a timer cancelled after it was popped from the heap is fired.   *)
FiresCancelled(o) == o \in Timer => ~called[o]

Fires(o) == ~cancelled[o] /\ (o \in Timer => ~called[o])

(* Mutant: skipping a cancelled item does not count it off.                *)
SkipItemUncounted ==
  /\ InPendings /\ ~Fires(Head(pendings))
  /\ pendings' = Tail(pendings)
  /\ AfterItem("none")
  /\ UNCHANGED <<scheduled, activecnt, timerVars, ioVars, item, clock, now>>

SkipItem ==
  /\ InPendings /\ ~Fires(Head(pendings))
  /\ pendings' = Tail(pendings)
  /\ activecnt' = activecnt - 1
  /\ AfterItem("none")
  /\ UNCHANGED <<scheduled, timerVars, ioVars, item, clock, now>>

(* fire_handle and fire_timer up to the callback or the greenlet switch.   *)
FireItem ==
  /\ InPendings /\ Fires(Head(pendings))
  /\ pendings' = Tail(pendings)
  /\ item' = Head(pendings)
  /\ called' = [t \in Timer |-> called[t] \/ t = Head(pendings)]
  /\ GoOn("firing")
  /\ UNCHANGED <<scheduled, activecnt, made, cancelled, seconds, interval,
                 repeat, ioVars, catch_signal, clock, now>>

Rearms(o) == o \in Timer /\ repeat[o]

(* The callback returns, or the greenlet comes back to the loop; a timer   *)
(* of call_repeatedly goes back to the heap, not called and not cancelled, *)
(* whatever happened to it since it was popped.                            *)
FinishItem(e) ==
  /\ active = "loop" /\ pc = "firing"
  /\ IF Rearms(item)
       THEN /\ called' = [called EXCEPT ![item] = FALSE]
            /\ cancelled' = [cancelled EXCEPT ![item] = FALSE]
            /\ seconds' = [seconds EXCEPT ![item] = clock + interval[item]]
            /\ scheduled' = scheduled \cup {item}
            /\ UNCHANGED activecnt
       ELSE /\ activecnt' = activecnt - 1
            /\ UNCHANGED <<called, cancelled, seconds, scheduled>>
  /\ item' = Nothing
  /\ AfterItem(e)
  /\ UNCHANGED <<pendings, made, interval, repeat, ioVars, clock, now>>

PendingsDone ==
  /\ active = "loop" /\ pc = "pendings"
  /\ state = "STOP" \/ pendings = <<>>
  /\ GoOn(IF scheduled # {} \/ ioactivecnt > 1 THEN "poll" ELSE "end")
  /\ UNCHANGED <<pendings, scheduled, activecnt, timerVars, ioVars, item,
                 catch_signal, clock, now>>

(* picoev_loop_once: wait, then call back each descriptor that was         *)
(* reported and is still registered.  internal_run_once read main_loop     *)
(* before CallForkLoop; after a fork it polls what it read.                *)
Poll ==
  /\ active = "loop" /\ pc = "poll"
  /\ ready' \in SUBSET fds
  /\ GoOn("events")
  /\ UNCHANGED <<pendings, scheduled, activecnt, timerVars, ioactivecnt, fds,
                 postfork, item, catch_signal, clock, now>>

(* fd_callback; what it does for PICOEV_ERR is to remove the reader and    *)
(* return with an error.                                                   *)
Dispatch(fd) ==
  /\ active = "loop" /\ pc = "events"
  /\ fd \in ready
  /\ ready' = ready \ {fd}
  /\ GoOn(IF fd \in fds THEN "iocb" ELSE "events")
  /\ UNCHANGED <<pendings, scheduled, activecnt, timerVars, ioactivecnt, fds,
                 postfork, item, catch_signal, clock, now>>

(* fd_callback does not look at the exception its callback raised.         *)
IoReturn(e) ==
  /\ active = "loop" /\ pc = "iocb"
  /\ pc' = "events"
  /\ err' = IF e = "none" THEN err ELSE e
  /\ UNCHANGED <<loopVars, timerVars, ioVars, item, active, once, outcome,
                 catch_signal, clock, now>>

PollDone ==
  /\ active = "loop" /\ pc = "events"
  /\ ready = {}
  /\ GoOn("end")
  /\ UNCHANGED <<pendings, scheduled, activecnt, timerVars, ioVars, item,
                 catch_signal, clock, now>>

(* The end of internal_run_once and, in _run, the checks that follow it.   *)
End ==
  /\ active = "loop" /\ pc = "end"
  /\ CallForkLoop
  /\ \/ /\ once
        /\ Leave(IF err = "none" THEN "normal" ELSE err)
        /\ UNCHANGED catch_signal
     \/ /\ ~once
        /\ TakeSignal
        /\ IF err # "none" THEN Leave(err)
           ELSE IF Interrupted THEN Leave("interrupt")
           ELSE GoOn("check")
  /\ UNCHANGED <<pendings, scheduled, activecnt, timerVars, ready, item, clock, now>>
-----------------------------------------------------------------------------
(* The environment.                                                        *)
Signal(s) ==
  /\ catch_signal = "none"
  /\ catch_signal' = s
  /\ UNCHANGED <<loopVars, timerVars, ioVars, flowVars, clock, now>>

Tick ==
  /\ clock < MaxNow
  /\ clock' = clock + 1
  /\ UNCHANGED <<loopVars, timerVars, ioVars, flowVars, catch_signal, now>>

Main == \E b \in BOOLEAN : Run(b) \/ Resume(b)

User ==
  \/ \E h \in Handle, b \in BOOLEAN : CallSoon(h, b)
  \/ \E h \in Handle : AddCallback(h)
  \/ \E t \in Timer, s \in Interval, b \in BOOLEAN : CallLater(t, s, b)
  \/ \E t \in Timer : Cancel(t)
  \/ \E fd \in Fd : AddReader(fd) \/ RemoveReader(fd)
  \/ Fork

Switches == StartSuspended \/ Suspend \/ ThrowToMain

LoopStep ==
  \/ Check \/ Begin \/ TimersDone \/ SkipItem \/ FireItem \/ PendingsDone
  \/ \E t \in Timer : DropTimer(t) \/ ExpireTimer(t)
  \/ \E e \in {"none", "abort", "error"} : FinishItem(e)
  \/ Poll \/ PollDone \/ End
  \/ \E fd \in Fd : \/ Dispatch(fd)
                    \/ \E e \in {"none", "abort", "error"} : IoReturn(e)

Environment == Tick \/ \E s \in {"INT", "TERM"} : Signal(s)

Next == Main \/ User \/ Switches \/ LoopStep \/ Environment

Spec == Init /\ [][Next]_vars

(* Callbacks return and the loop's own code goes on; nothing says that the *)
(* main greenlet ever switches back, that time passes or that a signal     *)
(* comes.                                                                  *)
FairSpec == Spec /\ WF_vars(LoopStep)
-----------------------------------------------------------------------------
TypeOK ==
  /\ state \in {"STOP", "RUNNING"}
  /\ pendings \in Seq(Object)
  /\ scheduled \in SUBSET Timer
  /\ activecnt \in Nat
  /\ ioactivecnt \in Nat
  /\ postfork \in BOOLEAN
  /\ catch_signal \in {"none", "INT", "TERM"}
  /\ made \in SUBSET Object
  /\ cancelled \in [Object -> BOOLEAN]
  /\ called \in [Timer -> BOOLEAN]
  /\ seconds \in [Timer -> Nat]
  /\ interval \in [Timer -> Nat]
  /\ repeat \in [Timer -> BOOLEAN]
  /\ fds \in SUBSET Fd
  /\ ready \in SUBSET Fd
  /\ clock \in Nat
  /\ now \in Nat
  /\ pc \in {"dead", "start", "check", "begin", "timers", "pendings", "firing",
            "poll", "events", "iocb", "end"}
  /\ item \in Object \cup {Nothing}
  /\ active \in {"main", "loop"}
  /\ once \in BOOLEAN
  /\ err \in {"none", "abort", "error"}
  /\ outcome \in {"none", "normal", "abort", "error", "interrupt"}

(* activecnt is what keeps _run running: it counts every queued or heaped  *)
(* object and the one that is being fired, through every early return of   *)
(* fire_pendings, re-arming and suspension.  Were it too small, run()      *)
(* would return with work left; too big, it would never return.            *)
ActiveCountExact ==
  activecnt = Len(pendings) + Cardinality(scheduled)
                + (IF item = Nothing THEN 0 ELSE 1)

(* ioactivecnt, the other half of that condition, counts the registered    *)
(* descriptors and the self-pipe, also after the reset in a forked child.  *)
IoCountExact == ioactivecnt = 1 + Cardinality(fds)

(* A timer is in the heap, in the queue or being fired, never in two of    *)
(* them or twice in the queue; and one that is neither cancelled nor fired *)
(* is somewhere: no early return loses it.                                 *)
TimerInOnePlace ==
  /\ \A i, j \in 1 .. Len(pendings) :
       pendings[i] \in Timer /\ pendings[i] = pendings[j] => i = j
  /\ \A t \in Timer :
       /\ ~(t \in scheduled /\ Queued(t))
       /\ t \in scheduled \/ Queued(t) => t \in made /\ item # t /\ ~called[t]
       /\ t \in made /\ item # t /\ ~cancelled[t] /\ ~called[t]
            => t \in scheduled \/ Queued(t)

(* The timers in the queue were due when they were put there, are in the   *)
(* order of their deadlines, and are due before those still in the heap,   *)
(* even when an exception or a signal left them there for a later run.     *)
QueueInDeadlineOrder ==
  \A i \in 1 .. Len(pendings) : pendings[i] \in Timer =>
    /\ seconds[pendings[i]] <= clock
    /\ \A t \in scheduled : seconds[pendings[i]] <= seconds[t]
    /\ \A j \in i .. Len(pendings) : pendings[j] \in Timer =>
         seconds[pendings[i]] <= seconds[pendings[j]]

(* run() returns of its own accord only when nothing is left to do.        *)
NormalReturnIsDrained ==
  [][outcome' = "normal" /\ pc = "check"
       => pendings = <<>> /\ scheduled = {} /\ fds = {} /\ item = Nothing]_vars

Phase(t) ==
  IF t \notin made THEN "new"
  ELSE IF item = t THEN "running"
  ELSE IF called[t] THEN "done"
  ELSE IF cancelled[t] THEN "cancelled"
  ELSE "armed"

Service == INSTANCE TimerService WITH
  phase <- [t \in Timer |-> Phase(t)],
  deadline <- seconds,
  period <- [t \in Timer |-> IF repeat[t] THEN interval[t] ELSE 0],
  time <- clock

(* Heap, queue and firing together keep the promise of TimerService.tla.   *)
ImplementsTimerService == Service!Spec

(* cancel() outside of the timer's own callback is final.                  *)
CancelledNeverFires ==
  \A t \in Timer : [](cancelled[t] /\ item # t => [](item # t))

(* Ctrl-C ends the run, or at least gives control back to main, even while *)
(* callbacks keep scheduling callbacks.                                    *)
SigintStopsLoop == catch_signal = "INT" /\ active = "loop" ~> active = "main"

(* What is in the queue is reached while the loop keeps control.           *)
QueuedIsServed ==
  \A o \in Object : Queued(o) /\ active = "loop"
                       ~> ~Queued(o) \/ item = o \/ active = "main"

(* A due timer gets out of the heap while the loop keeps control, provided *)
(* that the queue is drained again and again: fire_pendings runs until the *)
(* queue is empty, so callbacks that always schedule another one starve    *)
(* the timers.                                                             *)
DueTimerIsServed ==
  []<>(pc \notin {"pendings", "firing"}) =>
    \A t \in Timer : t \in scheduled /\ seconds[t] <= clock /\ active = "loop"
                        ~> t \notin scheduled \/ active = "main"
=============================================================================
