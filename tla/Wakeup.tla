-------------------------------- MODULE Wakeup --------------------------------
(***************************************************************************)
(* How a thread or a signal gets the attention of a loop that waits in     *)
(* epoll_wait: call_soon_threadsafe(), the self-pipe and the signal        *)
(* handlers of jega/loop.py, next to those that src/loop.c installs for    *)
(* itself and installs again after a fork.                                 *)
(*                                                                         *)
(* The loop is in run_forever(), whose timer makes it wait for events each *)
(* time around.  Of its callbacks those count that threads and signals     *)
(* hand in; none is due otherwise, so that no other Python code runs.      *)
(* Threads and the loop's own take turns at the interpreter: a step of a   *)
(* thread comes while the loop waits or in the middle of Python code.      *)
(***************************************************************************)
EXTENDS Naturals, Sequences, FiniteSets, SequencesExt

CONSTANTS
  Thread,       \* threads that call call_soon_threadsafe()
  Signum,       \* the signals that arrive, by their numbers
  Room,         \* bound: the bytes the self-pipe holds
  MaxPendings,  \* bound: nobody hands in more while there are so many
  MaxForks      \* bound: how often the process forks

VARIABLES
  pc,               \* where the loop's thread is: "out" of run(), in
                    \* "pendings", "callback" or "poll"
  item,             \* whose callback it is in: a thread, a signal or nobody
  pendings,         \* loop->pendings
  pipe,             \* the bytes _ssock has not received
  placed,           \* the threads between call_soon() and _write_to_self()
  signal_handlers,  \* the signals with a handle in _signal_handlers
  handler,          \* of the process: the "loop"'s, "python"'s, or "default"
  wakeup_fd,        \* whether signal.set_wakeup_fd() has been given _csock
  tripped,          \* the signals Python has noted and not handled
  catch_signal,     \* the signal sigint_cb has noted, or 0
  postfork,
  forks             \* how many forks there were

loopVars == <<pc, item>>
signalVars == <<signal_handlers, handler, wakeup_fd>>
forkVars == <<postfork, forks>>
vars == <<loopVars, pendings, pipe, placed, signalVars, tripped, catch_signal, forkVars>>

INT == 2
TERM == 15

Nobody == <<"nobody">>

(* init_loop_module takes SIGINT and SIGTERM.                              *)
LoopsOwn(handlers) == [s \in Signum |-> IF s \in {INT, TERM} THEN "loop" ELSE handlers[s]]

Init ==
  /\ pc = "out" /\ item = Nobody
  /\ pendings = <<>> /\ pipe = 0 /\ placed = {}
  /\ signal_handlers = {} /\ wakeup_fd = FALSE
  /\ handler = LoopsOwn([s \in Signum |-> "default"])
  /\ tripped = {} /\ catch_signal = 0
  /\ postfork = FALSE /\ forks = 0
-----------------------------------------------------------------------------
(* _write_to_self, and the C handler of Python: a full pipe takes no byte. *)
Written(bytes, n) == IF bytes + n > Room THEN Room ELSE bytes + n

(* The handler that remove_signal_handler leaves for SIGINT is called: it  *)
(* raises KeyboardInterrupt, and ends run().                               *)
Interrupts == INT \in tripped \ signal_handlers

Noted == IF Interrupts THEN {} ELSE tripped \cap signal_handlers

(* When Python code runs, it calls the handlers of the signals that were   *)
(* noted first, in order of their numbers.  _handle_signal queues a handle *)
(* and writes to the pipe.                                                 *)
HandleSignals(queue) ==
  LET order == SetToSortSeq(Noted, <)
  IN /\ pendings' = queue \o [i \in DOMAIN order |-> <<"signal", order[i]>>]
     /\ tripped' = IF Interrupts THEN tripped \ {INT} ELSE {}

BytesAfter(bytes) == Written(bytes, Cardinality(Noted))

Leave == pc' = "out" /\ item' = Nobody

InPython == pc \in {"out", "callback"}
-----------------------------------------------------------------------------
(* call_soon_threadsafe() of a thread, in two steps.                       *)
TakesTurn == pc = "poll" \/ InPython

CallSoon(t) ==
  /\ TakesTurn /\ t \notin placed /\ Len(pendings) < MaxPendings
  /\ pendings' = Append(pendings, <<"call", t>>)
  /\ placed' = placed \cup {t}
  /\ UNCHANGED <<loopVars, pipe, signalVars, tripped, catch_signal, forkVars>>

(* Mutant: only the first callback of the queue needs a byte.              *)
WriteForFirst(t) ==
  /\ TakesTurn /\ t \in placed
  /\ pipe' = IF Len(pendings) > 1 THEN pipe ELSE Written(pipe, 1)
  /\ placed' = placed \ {t}
  /\ UNCHANGED <<loopVars, pendings, signalVars, tripped, catch_signal, forkVars>>

WriteToSelf(t) ==
  /\ TakesTurn /\ t \in placed
  /\ pipe' = Written(pipe, 1)
  /\ placed' = placed \ {t}
  /\ UNCHANGED <<loopVars, pendings, signalVars, tripped, catch_signal, forkVars>>
-----------------------------------------------------------------------------
(* A signal arrives.  The one that sigint_cb noted first hides the others, *)
(* and the default handler ends the process, which is left out.            *)
Deliver(s) ==
  /\ handler[s] # "default"
  /\ handler[s] = "python" => s \notin tripped /\ Len(pendings) < MaxPendings
  /\ IF handler[s] = "loop"
     THEN /\ catch_signal' = IF catch_signal = 0 THEN s ELSE catch_signal
          /\ UNCHANGED <<tripped, pipe>>
     ELSE /\ tripped' = tripped \cup {s}
          /\ pipe' = IF wakeup_fd THEN Written(pipe, 1) ELSE pipe
          /\ UNCHANGED catch_signal
  /\ UNCHANGED <<loopVars, pendings, placed, signalVars, forkVars>>

(* Python code, which there is outside of run() and in callbacks, handles  *)
(* the signals that come meanwhile.                                        *)
HandleTripped ==
  /\ InPython /\ tripped # {}
  /\ HandleSignals(pendings) /\ pipe' = BytesAfter(pipe)
  /\ IF Interrupts THEN Leave ELSE UNCHANGED loopVars
  /\ UNCHANGED <<placed, signalVars, catch_signal, forkVars>>

AddSignalHandler(s) ==
  /\ InPython /\ tripped = {}
  /\ signal_handlers' = signal_handlers \cup {s}
  /\ handler' = [handler EXCEPT ![s] = "python"]
  /\ wakeup_fd' = TRUE
  /\ UNCHANGED <<loopVars, pendings, pipe, placed, tripped, catch_signal, forkVars>>

(* Mutant: whether handlers are left is not asked.                         *)
NeverWakes(left) == FALSE

StillWakes(left) == IF left = {} THEN FALSE ELSE wakeup_fd

(* The handlers from before, the loop's own too, do not come back.         *)
RemoveSignalHandler(s) ==
  /\ InPython /\ tripped = {} /\ s \in signal_handlers
  /\ signal_handlers' = signal_handlers \ {s}
  /\ handler' = [handler EXCEPT ![s] = IF s = INT THEN "python" ELSE "default"]
  /\ wakeup_fd' = StillWakes(signal_handlers')
  /\ UNCHANGED <<loopVars, pendings, pipe, placed, tripped, catch_signal, forkVars>>
-----------------------------------------------------------------------------
(* os.fork(): what follows is the child, which has one thread and shares   *)
(* the self-pipe with its parent until the loop notices.                   *)
Fork ==
  /\ InPython /\ forks < MaxForks
  /\ postfork' = TRUE /\ forks' = forks + 1
  /\ placed' = {}
  /\ UNCHANGED <<loopVars, pendings, pipe, signalVars, tripped, catch_signal>>

Parent ==
  /\ postfork
  /\ pipe' \in 0 .. Room
  /\ UNCHANGED <<loopVars, pendings, placed, signalVars, tripped, catch_signal, forkVars>>

(* call_fork_loop: reset() makes a new pipe, whose descriptors are the old *)
(* one's again, and reset_loop takes SIGINT and SIGTERM once more.         *)
CallForkLoop(bytes) ==
  /\ postfork' = FALSE
  /\ pipe' = IF postfork THEN 0 ELSE bytes
  /\ handler' = IF postfork THEN LoopsOwn(handler) ELSE handler

Run ==
  /\ pc = "out"
  /\ pc' = "pendings"
  /\ CallForkLoop(pipe)
  /\ UNCHANGED <<item, pendings, placed, signal_handlers, wakeup_fd, tripped, catch_signal, forks>>

(* fire_pendings takes an item and calls it back.                          *)
FireItem ==
  /\ pc = "pendings" /\ pendings # <<>>
  /\ HandleSignals(Tail(pendings)) /\ pipe' = BytesAfter(pipe)
  /\ IF Interrupts THEN Leave ELSE pc' = "callback" /\ item' = Head(pendings)
  /\ UNCHANGED <<placed, signalVars, catch_signal, forkVars>>

(* check_stop_signal: of the signals sigint_cb takes, SIGINT ends run(),   *)
(* as an exception does.                                                   *)
CheckStopSignal(raised) ==
  /\ IF raised \/ catch_signal = INT THEN Leave ELSE pc' = "pendings" /\ item' = Nobody
  /\ catch_signal' = IF catch_signal = INT THEN 0 ELSE catch_signal

Return ==
  /\ pc = "callback"
  /\ CheckStopSignal(FALSE)
  /\ UNCHANGED <<pendings, pipe, placed, signalVars, tripped, forkVars>>

(* A callback raises an exception, stop()'s among them.                    *)
Raise ==
  /\ pc = "callback"
  /\ Leave
  /\ UNCHANGED <<pendings, pipe, placed, signalVars, tripped, catch_signal, forkVars>>

Poll ==
  /\ pc = "pendings" /\ pendings = <<>>
  /\ pc' = "poll"
  /\ UNCHANGED <<item, pendings, pipe, placed, signalVars, tripped, catch_signal, forkVars>>

(* epoll_wait reports the pipe, of which _read_from_self takes a byte.     *)
ReadFromSelf ==
  /\ pc = "poll" /\ pipe > 0
  /\ HandleSignals(pendings)
  /\ CallForkLoop(BytesAfter(pipe - 1))
  /\ CheckStopSignal(Interrupts)
  /\ UNCHANGED <<placed, signal_handlers, wakeup_fd, forks>>

(* It returns without: after the second it waits, or for a signal.         *)
PollEnds ==
  /\ pc = "poll"
  /\ CallForkLoop(pipe)
  /\ CheckStopSignal(FALSE)
  /\ UNCHANGED <<pendings, placed, signal_handlers, wakeup_fd, tripped, forks>>

LoopStep == FireItem \/ Return \/ Poll \/ ReadFromSelf \/ PollEnds

Next ==
  \/ LoopStep \/ Run \/ Raise \/ HandleTripped \/ Fork \/ Parent
  \/ \E t \in Thread : CallSoon(t) \/ WriteToSelf(t)
  \/ \E s \in Signum : Deliver(s) \/ AddSignalHandler(s) \/ RemoveSignalHandler(s)

Spec == Init /\ [][Next]_vars

(* Callbacks return, and epoll_wait does not forever overlook a byte.      *)
FairSpec == Spec /\ WF_vars(LoopStep) /\ SF_vars(ReadFromSelf)
-----------------------------------------------------------------------------
(* The loop does not wait while a thread's call is queued, unless there is *)
(* a byte that wakes it, or the thread has yet to write one.  (A child     *)
(* that has not made its own pipe may find the byte gone.)                 *)
WokenForWork ==
  pc = "poll" /\ pendings # <<>> /\ ~postfork => pipe > 0 \/ placed # {}

(* A signal that comes while the loop runs has its handle called, unless   *)
(* run() ends or the handler is removed, even if nothing else ever happens *)
(* in the loop.  (In a child the pipe may be replaced with its byte.)      *)
SignalIsServed ==
  \A s \in Signum :
    (s \in tripped \cap signal_handlers /\ pc # "out" /\ forks = 0)
      ~> \/ item = <<"signal", s>> \/ pc = "out"
         \/ s \notin signal_handlers \/ forks > 0
=============================================================================
