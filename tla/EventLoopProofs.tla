--------------------------- MODULE EventLoopProofs ---------------------------
(***************************************************************************)
(* The counters of the event loop are exact, no timer is lost or queued    *)
(* twice, and the queue is in the order of the deadlines, for any sets of  *)
(* handles, timers, intervals and descriptors and any clock.  At the end:  *)
(* the loop does not sleep over what another thread has handed to it.      *)
(***************************************************************************)
EXTENDS WokenLoop, FiniteSetTheorems, SequenceTheorems, TLAPS

(* TypeOK, in three parts.  That the counters, which are decremented, stay *)
(* natural numbers is part of what their being exact gives.                *)
ObjectsOK ==
  /\ pendings \in Seq(Object)
  /\ scheduled \in SUBSET Timer
  /\ activecnt \in Int
  /\ made \in SUBSET Object
  /\ cancelled \in [Object -> BOOLEAN]
  /\ called \in [Timer -> BOOLEAN]
  /\ seconds \in [Timer -> Nat]
  /\ interval \in [Timer -> Nat]
  /\ repeat \in [Timer -> BOOLEAN]
  /\ clock \in Nat
  /\ now \in Nat
  /\ item \in Object \cup {Nothing}

ControlOK ==
  /\ state \in {"STOP", "RUNNING"}
  /\ catch_signal \in {"none", "INT", "TERM"}
  /\ pc \in {"dead", "start", "check", "begin", "timers", "pendings", "firing",
            "poll", "events", "iocb", "end"}
  /\ active \in {"main", "loop"}
  /\ once \in BOOLEAN
  /\ err \in {"none", "abort", "error"}
  /\ outcome \in {"none", "normal", "abort", "error", "interrupt"}

IoOK ==
  /\ ioactivecnt \in Int
  /\ postfork \in BOOLEAN
  /\ fds \in SUBSET Fd
  /\ ready \in SUBSET Fd

(* What the counters rest on: an item is in the hands of fire_pendings     *)
(* exactly while it fires, and the heap and the set of registered          *)
(* descriptors are finite.                                                 *)
Firing == pc = "firing" <=> item # Nothing
FiniteHeap == IsFiniteSet(scheduled)
FiniteFds == IsFiniteSet(fds)

(* A timer that fires is marked as called, so that when it is over it need *)
(* not be anywhere; and only timers that exist are marked.                 *)
Marked ==
  /\ item \in Timer => called[item]
  /\ \A t \in Timer : called[t] \/ cancelled[t] => t \in made

(* fire_timers compares with a time that is never ahead of the clock.      *)
NotAhead == now <= clock

(* A run that has not ended has no outcome yet, and the while condition of *)
(* _run is never reached in a loop that was stopped.                       *)
Entering ==
  /\ pc # "dead" => outcome = "none"
  /\ pc \in {"start", "check"} => state = "RUNNING"

(* No timer has a period of zero.                                          *)
Periodic == \A t \in Timer : t \in made => interval[t] > 0

(* The inductive invariant.                                                *)
IInv ==
  /\ ObjectsOK /\ ControlOK /\ IoOK
  /\ Firing /\ Entering /\ Marked /\ Periodic /\ FiniteHeap /\ FiniteFds /\ NotAhead
  /\ ActiveCountExact /\ IoCountExact
  /\ TimerInOnePlace /\ QueueInDeadlineOrder

(* The steps that leave the queue, the heap, the timers and the item in    *)
(* hand alone: all but nine.                                               *)
coreVars == <<pendings, scheduled, activecnt, timerVars, item>>

Busy ==
  \/ \E h \in Handle, b \in BOOLEAN : CallSoon(h, b)
  \/ \E h \in Handle : AddCallback(h)
  \/ \E t \in Timer, s \in Interval, b \in BOOLEAN : CallLater(t, s, b)
  \/ \E t \in Timer : Cancel(t) \/ DropTimer(t) \/ ExpireTimer(t)
  \/ SkipItem \/ FireItem
  \/ \E e \in {"none", "abort", "error"} : FinishItem(e)

LEMMA QuietOrBusy ==
  ASSUME [Next]_vars
  PROVE  Busy \/ UNCHANGED coreVars
<1> USE DEF coreVars, loopVars, timerVars, ioVars, flowVars
<1>1. CASE Main
  BY <1>1 DEF Main, Run, Resume
<1>2. CASE User
  <2>1. ASSUME NEW fd \in Fd, AddReader(fd) \/ RemoveReader(fd) PROVE UNCHANGED coreVars
    BY <2>1 DEF AddReader, RemoveReader
  <2>2. CASE Fork
    BY <2>2 DEF Fork
  <2> QED
    BY <1>2, <2>1, <2>2, Zenon DEF User, Busy
<1>3. CASE Switches
  BY <1>3 DEF Switches, StartSuspended, Suspend, ThrowToMain
<1>4. CASE LoopStep
  <2>1. CASE Check \/ Begin \/ TimersDone \/ PendingsDone \/ Poll \/ PollDone \/ End
    BY <2>1 DEF Check, Begin, TimersDone, PendingsDone, Poll, PollDone, End
  <2>2. ASSUME NEW fd \in Fd, Dispatch(fd) PROVE UNCHANGED coreVars
    BY <2>2 DEF Dispatch
  <2>3. ASSUME NEW e \in {"none", "abort", "error"}, IoReturn(e) PROVE UNCHANGED coreVars
    BY <2>3 DEF IoReturn
  <2> QED
    BY <1>4, <2>1, <2>2, <2>3, Zenon DEF LoopStep, Busy
<1>5. CASE Environment
  BY <1>5 DEF Environment, Tick, Signal
<1>6. CASE UNCHANGED vars
  BY <1>6 DEF vars
<1> QED
  BY <1>1, <1>2, <1>3, <1>4, <1>5, <1>6, Zenon DEF Next
-----------------------------------------------------------------------------
(* Where the loop is, and that it has an item in hand only while it fires. *)
LEMMA AfterItemControl ==
  ASSUME ControlOK, NEW e \in {"none", "abort", "error"}, AfterItem(e)
  PROVE  ControlOK' /\ pc' # "firing"
BY DEF ControlOK, AfterItem, Leave, GoOn, TakeSignal

LEMMA ControlStep ==
  ASSUME IInv, [Next]_vars
  PROVE  ControlOK' /\ Firing'
<1> USE DEF loopVars, timerVars, ioVars, flowVars
<1>0. ControlOK /\ Firing
  BY DEF IInv
<1>1. CASE Main
  BY <1>0, <1>1 DEF Main, Run, Resume, ControlOK, Firing
<1>2. CASE User
  BY <1>0, <1>2 DEF User, CallSoon, ScheduleHandle, AddCallback,
        CallLater, NewTimer, ScheduleTimer, Cancel, AddReader,
                    RemoveReader, Fork, ControlOK, Firing
<1>3. CASE Switches
  BY <1>0, <1>3 DEF Switches, StartSuspended, Suspend, ThrowToMain, ControlOK, Firing
<1>4. CASE LoopStep
  <2>1. CASE Check \/ Begin \/ TimersDone \/ PendingsDone \/ Poll \/ PollDone
    BY <1>0, <2>1 DEF Check, Begin, TimersDone, PendingsDone, Poll, PollDone,
                      GoOn, Leave, ControlOK, Firing
  <2>2. CASE End
    <3>1. TakeSignal \/ UNCHANGED catch_signal
      BY <2>2 DEF End
    <3>2. catch_signal' \in {"none", "INT", "TERM"}
      BY <1>0, <3>1 DEF TakeSignal, ControlOK
    <3> QED
      BY <1>0, <2>2, <3>2 DEF End, GoOn, Leave, ControlOK, Firing
  <2>3. ASSUME NEW fd \in Fd, Dispatch(fd) PROVE ControlOK' /\ Firing'
    BY <1>0, <2>3 DEF Dispatch, GoOn, ControlOK, Firing
  <2>4. ASSUME NEW e \in {"none", "abort", "error"}, IoReturn(e)
        PROVE  ControlOK' /\ Firing'
    BY <1>0, <2>4 DEF IoReturn, ControlOK, Firing
  <2>5. ASSUME NEW t \in Timer, DropTimer(t) \/ ExpireTimer(t)
        PROVE  ControlOK' /\ Firing'
    BY <1>0, <2>5 DEF DropTimer, ExpireTimer, ControlOK, Firing
  <2>6. CASE SkipItem
    BY <1>0, <2>6, AfterItemControl DEF SkipItem, InPendings, Firing
  <2>7. CASE FireItem
    <3>1. Head(pendings) # Nothing
      BY <2>7, ObjectAssumption, SMT DEF FireItem, InPendings, IInv, ObjectsOK, Object
    <3> QED
      BY <1>0, <2>7, <3>1 DEF FireItem, GoOn, ControlOK, Firing
  <2>8. ASSUME NEW e \in {"none", "abort", "error"}, FinishItem(e)
        PROVE  ControlOK' /\ Firing'
    <3>1. AfterItem(e) /\ item' = Nothing
      BY <2>8 DEF FinishItem
    <3> QED
      BY <1>0, <3>1, AfterItemControl DEF Firing
  <2> QED
    BY <1>4, <2>1, <2>2, <2>3, <2>4, <2>5, <2>6, <2>7, <2>8, Zenon DEF LoopStep
<1>5. CASE Environment
  BY <1>0, <1>5 DEF Environment, Tick, Signal, ControlOK, Firing
<1>6. CASE UNCHANGED vars
  BY <1>0, <1>6 DEF vars, ControlOK, Firing
<1> QED
  BY <1>1, <1>2, <1>3, <1>4, <1>5, <1>6, Zenon DEF Next
LEMMA EnteringStep ==
  ASSUME IInv, [Next]_vars
  PROVE  Entering'
<1> USE DEF loopVars, timerVars, ioVars, flowVars
<1>0. ControlOK /\ Entering
  BY DEF IInv
<1>1. CASE Main
  BY <1>0, <1>1 DEF Main, Run, Resume, ControlOK, Entering
<1>2. CASE User
  BY <1>0, <1>2 DEF User, CallSoon, ScheduleHandle, AddCallback,
        CallLater, NewTimer, ScheduleTimer, Cancel, AddReader,
                    RemoveReader, Fork, Entering
<1>3. CASE Switches
  BY <1>0, <1>3 DEF Switches, StartSuspended, Suspend, ThrowToMain, Entering
<1>4. CASE LoopStep
  <2>1. CASE Check \/ Begin \/ TimersDone \/ PendingsDone \/ Poll \/ PollDone
    BY <1>0, <2>1 DEF Check, Begin, TimersDone, PendingsDone, Poll, PollDone,
                      GoOn, Leave, Entering
  <2>2. CASE End
    BY <1>0, <2>2 DEF End, GoOn, Leave, Interrupted, ControlOK, Entering
  <2>3. ASSUME NEW fd \in Fd, Dispatch(fd) PROVE Entering'
    BY <1>0, <2>3 DEF Dispatch, GoOn, Entering
  <2>4. ASSUME NEW e \in {"none", "abort", "error"}, IoReturn(e) PROVE Entering'
    BY <1>0, <2>4 DEF IoReturn, Entering
  <2>5. ASSUME NEW t \in Timer, DropTimer(t) \/ ExpireTimer(t) PROVE Entering'
    BY <1>0, <2>5 DEF DropTimer, ExpireTimer, Entering
  <2>6. ASSUME NEW e, AfterItem(e), pc # "dead" PROVE Entering'
    BY <1>0, <2>6 DEF AfterItem, Leave, GoOn, Entering
  <2>7. CASE SkipItem \/ FireItem
    BY <1>0, <2>6, <2>7 DEF SkipItem, FireItem, InPendings, GoOn, Entering
  <2>8. ASSUME NEW e \in {"none", "abort", "error"}, FinishItem(e) PROVE Entering'
    <3>1. AfterItem(e) /\ pc # "dead"
      BY <2>8 DEF FinishItem
    <3> QED
      BY <2>6, <3>1
  <2> QED
    BY <1>4, <2>1, <2>2, <2>3, <2>4, <2>5, <2>7, <2>8, Zenon DEF LoopStep
<1>5. CASE Environment
  BY <1>0, <1>5 DEF Environment, Tick, Signal, Entering
<1>6. CASE UNCHANGED vars
  BY <1>0, <1>6 DEF vars, Entering
<1> QED
  BY <1>1, <1>2, <1>3, <1>4, <1>5, <1>6, Zenon DEF Next
-----------------------------------------------------------------------------
(* The registered descriptors and their count.                             *)
LEMMA AddReaderIo ==
  ASSUME IoOK, FiniteFds, IoCountExact, NEW fd \in Fd, AddReader(fd)
  PROVE  IoOK' /\ FiniteFds' /\ IoCountExact'
<1>0. postfork \in BOOLEAN /\ postfork' \in BOOLEAN /\ ready' \in SUBSET Fd
  <2>1. postfork' = FALSE /\ ready' = ready
    BY Zenon DEF AddReader
  <2> QED
    BY <2>1, Zenon DEF IoOK
<1>1. CASE postfork
  <2>1. fds' = {fd} /\ ioactivecnt' = 2
    BY <1>1, Zenon DEF AddReader
  <2>2. IsFiniteSet({fd}) /\ Cardinality({fd}) = 1
    BY FS_Singleton, Zenon
  <2> QED
    BY <1>0, <2>1, <2>2 DEF IoOK, FiniteFds, IoCountExact
<1>2. CASE ~postfork
  <2>1. fd \notin fds /\ fds' = fds \cup {fd} /\ ioactivecnt' = ioactivecnt + 1
    BY <1>2, Zenon DEF AddReader
  <2>2. /\ IsFiniteSet(fds \cup {fd})
        /\ Cardinality(fds \cup {fd}) = Cardinality(fds) + 1
    BY <2>1, FS_AddElement DEF FiniteFds
  <2>3. Cardinality(fds) \in Nat
    BY FS_CardinalityType DEF FiniteFds
  <2> QED
    BY <1>0, <2>1, <2>2, <2>3 DEF IoOK, FiniteFds, IoCountExact
<1> QED
  BY <1>0, <1>1, <1>2, Zenon

LEMMA RemoveReaderIo ==
  ASSUME IoOK, FiniteFds, IoCountExact, NEW fd \in Fd, RemoveReader(fd)
  PROVE  IoOK' /\ FiniteFds' /\ IoCountExact'
<1>1. IoOK' /\ fd \in fds /\ fds' = fds \ {fd} /\ ioactivecnt' = ioactivecnt - 1
  BY DEF IoOK, RemoveReader, ioVars
<1>2. /\ IsFiniteSet(fds \ {fd})
      /\ Cardinality(fds \ {fd}) = Cardinality(fds) - 1
  BY <1>1, FS_RemoveElement DEF FiniteFds
<1>3. Cardinality(fds) \in Nat
  BY FS_CardinalityType DEF FiniteFds
<1> QED
  BY <1>1, <1>2, <1>3 DEF FiniteFds, IoCountExact

LEMMA CallForkLoopIo ==
  ASSUME IoOK, FiniteFds, IoCountExact, CallForkLoop, UNCHANGED ready
  PROVE  IoOK' /\ FiniteFds' /\ IoCountExact'
<1>1. postfork' \in BOOLEAN /\ ready' \in SUBSET Fd /\ postfork \in BOOLEAN
  <2>1. postfork' = FALSE /\ ready' = ready
    BY Zenon DEF CallForkLoop
  <2> QED
    BY <2>1, Zenon DEF IoOK
<1>2. CASE postfork
  <2>1. fds' = {} /\ ioactivecnt' = 1
    BY <1>2, Zenon DEF CallForkLoop
  <2>2. IsFiniteSet({}) /\ Cardinality({}) = 0
    BY FS_EmptySet, Zenon
  <2> QED
    BY <1>1, <2>1, <2>2 DEF IoOK, FiniteFds, IoCountExact
<1>3. CASE ~postfork
  <2>1. fds' = fds /\ ioactivecnt' = ioactivecnt
    BY <1>3, Zenon DEF CallForkLoop
  <2> QED
    BY <1>1, <2>1 DEF IoOK, FiniteFds, IoCountExact
<1> QED
  BY <1>1, <1>2, <1>3, Zenon

LEMMA IoStep ==
  ASSUME IInv, [Next]_vars
  PROVE  IoOK' /\ FiniteFds' /\ IoCountExact'
<1>0. IoOK /\ FiniteFds /\ IoCountExact
  BY DEF IInv
<1>q. ASSUME UNCHANGED ioVars PROVE IoOK' /\ FiniteFds' /\ IoCountExact'
  BY <1>0, <1>q DEF ioVars, IoOK, FiniteFds, IoCountExact
<1>1. CASE Main
  BY <1>q, <1>1 DEF Main, Run, Resume
<1>2. CASE User
  <2>1. ASSUME NEW fd \in Fd, AddReader(fd) \/ RemoveReader(fd)
        PROVE  IoOK' /\ FiniteFds' /\ IoCountExact'
    BY <1>0, <2>1, AddReaderIo, RemoveReaderIo
  <2>2. CASE Fork
    BY <1>0, <2>2 DEF Fork, ioVars, IoOK, FiniteFds, IoCountExact
  <2>3. ASSUME NEW h \in Handle, NEW b \in BOOLEAN, CallSoon(h, b) PROVE UNCHANGED ioVars
    BY <2>3 DEF CallSoon, ScheduleHandle
  <2>4. ASSUME NEW h \in Handle, AddCallback(h) PROVE UNCHANGED ioVars
    BY <2>4 DEF AddCallback, ScheduleHandle
  <2>5. ASSUME NEW t \in Timer, NEW s \in Interval, NEW b \in BOOLEAN, CallLater(t, s, b)
        PROVE  UNCHANGED ioVars
    BY <2>5 DEF CallLater, NewTimer, ScheduleTimer
  <2>6. ASSUME NEW t \in Timer, Cancel(t) PROVE UNCHANGED ioVars
    BY <2>6 DEF Cancel
  <2> QED
    BY <1>2, <1>q, <2>1, <2>2, <2>3, <2>4, <2>5, <2>6, Zenon DEF User
<1>3. CASE Switches
  BY <1>q, <1>3 DEF Switches, StartSuspended, Suspend, ThrowToMain
<1>4. CASE LoopStep
  <2>1. CASE Check \/ TimersDone \/ PendingsDone \/ PollDone
    BY <1>q, <2>1 DEF Check, TimersDone, PendingsDone, PollDone
  <2>2. CASE Begin \/ End
    <3>1. CallForkLoop /\ UNCHANGED ready
      BY <2>2 DEF Begin, End
    <3> QED
      BY <1>0, <3>1, CallForkLoopIo
  <2>3. CASE Poll
    BY <1>0, <2>3 DEF Poll, IoOK, FiniteFds, IoCountExact
  <2>4. ASSUME NEW fd \in Fd, Dispatch(fd)
        PROVE  IoOK' /\ FiniteFds' /\ IoCountExact'
    BY <1>0, <2>4 DEF Dispatch, IoOK, FiniteFds, IoCountExact
  <2>5. ASSUME NEW e \in {"none", "abort", "error"}, FinishItem(e) \/ IoReturn(e)
        PROVE  UNCHANGED ioVars
    BY <2>5 DEF FinishItem, IoReturn
  <2>6. ASSUME NEW t \in Timer, DropTimer(t) \/ ExpireTimer(t)
        PROVE  UNCHANGED ioVars
    BY <2>6 DEF DropTimer, ExpireTimer
  <2>7. CASE SkipItem \/ FireItem
    BY <1>q, <2>7 DEF SkipItem, FireItem
  <2> QED
    BY <1>4, <1>q, <2>1, <2>2, <2>3, <2>4, <2>5, <2>6, <2>7, Zenon DEF LoopStep
<1>5. CASE Environment
  BY <1>q, <1>5 DEF Environment, Tick, Signal
<1>6. CASE UNCHANGED vars
  BY <1>q, <1>6 DEF vars
<1> QED
  BY <1>1, <1>2, <1>3, <1>4, <1>5, <1>6, Zenon DEF Next

(* The clock does not go back, and fire_timers reads it at its start.      *)
LEMMA ClockStep ==
  ASSUME IInv, [Next]_vars
  PROVE  /\ clock \in Nat /\ clock' \in Nat /\ clock <= clock'
         /\ now' \in Nat /\ NotAhead'
<1> USE DEF loopVars, timerVars, ioVars, flowVars
<1>0. clock \in Nat /\ now \in Nat /\ now <= clock
  BY DEF IInv, ObjectsOK, NotAhead
<1>q. ASSUME UNCHANGED <<clock, now>>
      PROVE  /\ clock' \in Nat /\ clock <= clock'
             /\ now' \in Nat /\ NotAhead'
  BY <1>0, <1>q DEF NotAhead
<1>1. CASE Busy
  <2>1. UNCHANGED <<clock, now>>
    BY <1>1, Zenon DEF Busy, CallSoon, ScheduleHandle, AddCallback,
          CallLater, NewTimer, ScheduleTimer, Cancel, DropTimer, ExpireTimer,
                SkipItem, FireItem, FinishItem
  <2> QED
    BY <1>0, <1>q, <2>1
<1>2. CASE Begin \/ TimersDone
  BY <1>0, <1>2 DEF Begin, TimersDone, NotAhead
<1>3. CASE Tick
  BY <1>0, <1>3 DEF Tick, NotAhead
<1>4. CASE Main \/ Switches
  BY <1>0, <1>q, <1>4 DEF Main, Run, Resume, Switches, StartSuspended, Suspend, ThrowToMain
<1>5. CASE Check \/ PendingsDone \/ Poll \/ PollDone \/ End
  BY <1>0, <1>q, <1>5 DEF Check, PendingsDone, Poll, PollDone, End
<1>6. ASSUME NEW fd \in Fd, AddReader(fd) \/ RemoveReader(fd) \/ Dispatch(fd)
      PROVE  UNCHANGED <<clock, now>>
  BY <1>6 DEF AddReader, RemoveReader, Dispatch
<1>7. ASSUME NEW e \in {"none", "abort", "error"}, IoReturn(e)
      PROVE  UNCHANGED <<clock, now>>
  BY <1>7 DEF IoReturn
<1>8. CASE Fork \/ \E s \in {"INT", "TERM"} : Signal(s)
  BY <1>0, <1>q, <1>8 DEF Fork, Signal
<1>9. CASE UNCHANGED vars
  BY <1>0, <1>q, <1>9 DEF vars
<1> QED
  BY <1>0, <1>q, <1>1, <1>2, <1>3, <1>4, <1>5, <1>6, <1>7, <1>8, <1>9, Zenon
     DEF Next, User, LoopStep, Environment, Busy
-----------------------------------------------------------------------------
(* What the queue holds after an append and after a shift.                 *)
LEMMA AppendQueued ==
  ASSUME NEW o \in Object, pendings \in Seq(Object), pendings' = Append(pendings, o)
  PROVE  /\ Len(pendings) \in Nat
         /\ Len(pendings') = Len(pendings) + 1
         /\ \A i \in 1 .. Len(pendings) : pendings'[i] = pendings[i]
         /\ pendings'[Len(pendings) + 1] = o
         /\ \A x : Queued(x)' <=> Queued(x) \/ x = o
<1>1. /\ Len(pendings) \in Nat
      /\ Len(pendings') = Len(pendings) + 1
      /\ \A i \in 1 .. Len(pendings) : pendings'[i] = pendings[i]
      /\ pendings'[Len(pendings) + 1] = o
  BY AppendProperties, LenProperties
<1>2. ASSUME NEW x PROVE Queued(x)' <=> Queued(x) \/ x = o
  BY <1>1 DEF Queued
<1> QED
  BY <1>1, <1>2

LEMMA TailQueued ==
  ASSUME pendings \in Seq(Object), pendings # <<>>, pendings' = Tail(pendings)
  PROVE  /\ Len(pendings) \in Nat
         /\ Len(pendings') = Len(pendings) - 1
         /\ \A i \in 1 .. Len(pendings') : pendings'[i] = pendings[i + 1]
         /\ Head(pendings) = pendings[1]
         /\ 1 \in 1 .. Len(pendings)
         /\ Head(pendings) \in Object
         /\ \A x : Queued(x) <=> Queued(x)' \/ x = Head(pendings)
<1>1. /\ Len(pendings) \in Nat
      /\ Len(pendings') = Len(pendings) - 1
      /\ \A i \in 1 .. Len(pendings') : pendings'[i] = pendings[i + 1]
      /\ Head(pendings) = pendings[1]
      /\ 1 \in 1 .. Len(pendings)
      /\ Head(pendings) \in Object
  BY HeadTailProperties, EmptySeq, LenProperties
<1>2. ASSUME NEW x PROVE Queued(x) <=> Queued(x)' \/ x = Head(pendings)
  <2>1. ASSUME NEW i \in 1 .. Len(pendings) PROVE pendings[i] = x => Queued(x)' \/ x = Head(pendings)
    <3>1. CASE i = 1
      BY <1>1, <3>1
    <3>2. CASE i # 1
      <4>1. i - 1 \in 1 .. Len(pendings') /\ pendings'[i - 1] = pendings[i]
        BY <1>1, <3>2
      <4> QED
        BY <4>1 DEF Queued
    <3> QED
      BY <3>1, <3>2
  <2>2. ASSUME NEW i \in 1 .. Len(pendings') PROVE pendings'[i] = x => Queued(x)
    <3>1. i + 1 \in 1 .. Len(pendings) /\ pendings[i + 1] = pendings'[i]
      BY <1>1
    <3> QED
      BY <3>1 DEF Queued
  <2>3. Head(pendings) = x => Queued(x)
    BY <1>1 DEF Queued
  <2> QED
    BY <2>1, <2>2, <2>3 DEF Queued
<1> QED
  BY <1>1, <1>2

(* The types of the objects' fields.                                       *)
LEMMA ObjectsStep ==
  ASSUME IInv, [Next]_vars
  PROVE  ObjectsOK'
<1> USE DEF loopVars, timerVars, ioVars, flowVars, ObjectsOK
<1>0. ObjectsOK /\ Firing /\ clock \in Nat /\ clock' \in Nat /\ now' \in Nat
  BY ClockStep DEF IInv
<1>1. CASE UNCHANGED coreVars
  BY <1>0, <1>1 DEF coreVars
<1>2. ASSUME NEW h \in Handle, NEW b \in BOOLEAN, CallSoon(h, b) PROVE ObjectsOK'
  BY <1>0, <1>2 DEF CallSoon, ScheduleHandle, Object
<1>3. ASSUME NEW h \in Handle, AddCallback(h) PROVE ObjectsOK'
  BY <1>0, <1>3 DEF AddCallback, ScheduleHandle, Object
<1>4. ASSUME NEW t \in Timer, NEW s \in Interval, NEW b \in BOOLEAN, CallLater(t, s, b)
      PROVE  ObjectsOK'
  <2>1. s \in Nat /\ clock + s \in Nat
    BY <1>0, IntervalAssumption
  <2> QED
    BY <1>0, <1>4, <2>1 DEF CallLater, NewTimer, ScheduleTimer, Object
<1>5. ASSUME NEW t \in Timer, Cancel(t) PROVE ObjectsOK'
  BY <1>0, <1>5 DEF Cancel, Object
<1>6. ASSUME NEW t \in Timer, DropTimer(t) \/ ExpireTimer(t) PROVE ObjectsOK'
  <2>1. CASE DropTimer(t)
    BY <1>0, <2>1 DEF DropTimer
  <2>2. CASE ExpireTimer(t)
    <3>1. pendings' \in Seq(Object)
      BY <1>0, <2>2 DEF ExpireTimer, Object
    <3> QED
      BY <1>0, <2>2, <3>1 DEF ExpireTimer
  <2> QED
    BY <1>6, <2>1, <2>2
<1>7. CASE SkipItem
  BY <1>0, <1>7, TailQueued, HeadTailProperties DEF SkipItem, InPendings
<1>8. CASE FireItem
  <2>1. /\ called' \in [Timer -> BOOLEAN] /\ pendings' \in Seq(Object)
        /\ item' \in Object
    <3>1. called' = [t \in Timer |-> called[t] \/ t = Head(pendings)]
      BY <1>8 DEF FireItem
    <3>2. called' \in [Timer -> BOOLEAN]
      BY <1>0, <3>1, Zenon
    <3> QED
      BY <1>0, <1>8, <3>2, TailQueued, HeadTailProperties DEF FireItem, InPendings
  <2> QED
    BY <1>0, <1>8, <2>1 DEF FireItem
<1>9. ASSUME NEW e \in {"none", "abort", "error"}, FinishItem(e) PROVE ObjectsOK'
  <2>1. CASE Rearms(item)
    <3>1. item \in Timer /\ clock + interval[item] \in Nat
      BY <1>0, <2>1 DEF Rearms
    <3> QED
      BY <1>0, <1>9, <2>1, <3>1 DEF FinishItem, Object
  <2>2. CASE ~Rearms(item)
    BY <1>0, <1>9, <2>2 DEF FinishItem
  <2> QED
    BY <2>1, <2>2
<1> QED
  BY <1>1, <1>2, <1>3, <1>4, <1>5, <1>6, <1>7, <1>8, <1>9, QuietOrBusy, Zenon DEF Busy
-----------------------------------------------------------------------------
(* The heap, the queue and the item in hand, one lemma per busy action.    *)
Placing ==
  Marked /\ FiniteHeap /\ ActiveCountExact /\ TimerInOnePlace /\ QueueInDeadlineOrder

HeapSize == Cardinality(scheduled)

(* A handle joins the queue.                                               *)
LEMMA EnqueueStep ==
  ASSUME IInv, ObjectsOK', NEW h \in Handle,
         pendings' = Append(pendings, h), activecnt' = activecnt + 1,
         UNCHANGED <<scheduled, item, called, seconds, clock>>,
         made \subseteq made', \A t \in Timer : t \in made' <=> t \in made,
         \A t \in Timer : cancelled'[t] = cancelled[t]
  PROVE  Placing'
<1>0. /\ pendings \in Seq(Object) /\ h \in Object /\ h \notin Timer
      /\ scheduled \in SUBSET Timer
  BY ObjectAssumption DEF IInv, ObjectsOK, Object
<1>q. /\ Len(pendings) \in Nat
      /\ Len(pendings') = Len(pendings) + 1
      /\ \A i \in 1 .. Len(pendings) : pendings'[i] = pendings[i]
      /\ pendings'[Len(pendings) + 1] = h
      /\ \A x : Queued(x)' <=> Queued(x) \/ x = h
  BY <1>0, AppendQueued
<1>1. Marked' /\ FiniteHeap'
  BY DEF IInv, Marked, FiniteHeap
<1>2. ActiveCountExact'
  <2>1. HeapSize \in Nat /\ HeapSize' = HeapSize
    BY FS_CardinalityType DEF IInv, FiniteHeap, HeapSize
  <2> QED
    BY <1>q, <2>1 DEF IInv, ActiveCountExact, HeapSize
<1>3. TimerInOnePlace'
  <2>1. ASSUME NEW i \in 1 .. Len(pendings'), NEW j \in 1 .. Len(pendings'),
               pendings'[i] \in Timer, pendings'[i] = pendings'[j]
        PROVE  i = j
    BY <1>0, <1>q, <2>1 DEF IInv, TimerInOnePlace
  <2>2. ASSUME NEW t \in Timer
        PROVE  /\ ~(t \in scheduled' /\ Queued(t)')
               /\ t \in scheduled' \/ Queued(t)' => t \in made' /\ item' # t /\ ~called'[t]
               /\ t \in made' /\ item' # t /\ ~cancelled'[t] /\ ~called'[t]
                    => t \in scheduled' \/ Queued(t)'
    <3>1. Queued(t)' <=> Queued(t)
      BY <1>0, <1>q
    <3> QED
      BY <3>1 DEF IInv, TimerInOnePlace
  <2> QED
    BY <2>1, <2>2 DEF TimerInOnePlace
<1>4. QueueInDeadlineOrder'
  BY <1>0, <1>q DEF IInv, QueueInDeadlineOrder
<1> QED
  BY <1>1, <1>2, <1>3, <1>4 DEF Placing

LEMMA CallLaterStep ==
  ASSUME IInv, ObjectsOK', NEW t \in Timer, NEW s \in Interval, NEW b \in BOOLEAN,
         CallLater(t, s, b)
  PROVE  Placing'
<1>0. /\ pendings \in Seq(Object) /\ scheduled \in SUBSET Timer
      /\ seconds \in [Timer -> Nat] /\ clock \in Nat /\ s \in Nat
      /\ Len(pendings) \in Nat
  BY IntervalAssumption, LenProperties DEF IInv, ObjectsOK
<1>e. /\ t \notin made /\ made' = made \cup {t} /\ scheduled' = scheduled \cup {t}
      /\ activecnt' = activecnt + 1
      /\ seconds' = [seconds EXCEPT ![t] = clock + s]
      /\ UNCHANGED <<pendings, item, cancelled, called, clock>>
  BY DEF CallLater, NewTimer, ScheduleTimer, flowVars
<1>f. t \notin scheduled /\ ~Queued(t) /\ item # t
  BY <1>e DEF IInv, TimerInOnePlace, Marked
<1>g. \A x : Queued(x)' <=> Queued(x)
  BY <1>e DEF Queued
<1>1. Marked' /\ FiniteHeap'
  BY <1>e, FS_AddElement DEF IInv, Marked, FiniteHeap
<1>2. ActiveCountExact'
  <2>1. HeapSize \in Nat /\ HeapSize' = HeapSize + 1
    BY <1>e, <1>f, FS_AddElement, FS_CardinalityType DEF IInv, FiniteHeap, HeapSize
  <2> QED
    BY <1>0, <1>e, <2>1 DEF IInv, ActiveCountExact, HeapSize
<1>3. TimerInOnePlace'
  <2>1. called'[t] = FALSE
    BY <1>e DEF IInv, Marked, ObjectsOK
  <2> QED
    BY <1>e, <1>f, <1>g, <2>1 DEF IInv, TimerInOnePlace
<1>4. QueueInDeadlineOrder'
  <2>1. \A i \in 1 .. Len(pendings) : pendings[i] # t
    BY <1>f DEF Queued
  <2> QED
    BY <1>0, <1>e, <2>1 DEF IInv, QueueInDeadlineOrder
<1> QED
  BY <1>1, <1>2, <1>3, <1>4 DEF Placing

LEMMA CancelStep ==
  ASSUME IInv, NEW t \in Timer, Cancel(t)
  PROVE  Placing'
<1>e. /\ t \in made
      /\ cancelled' = [cancelled EXCEPT ![t] = TRUE]
      /\ UNCHANGED <<pendings, scheduled, activecnt, item, made, called, seconds, clock>>
  BY DEF Cancel, flowVars, loopVars
<1>1. cancelled \in [Object -> BOOLEAN] /\ Timer \subseteq Object
  BY DEF IInv, ObjectsOK, Object
<1>2. \A u \in Timer : cancelled'[u] <=> cancelled[u] \/ u = t
  BY <1>e, <1>1
<1>3. \A x : Queued(x)' <=> Queued(x)
  BY <1>e DEF Queued
<1>4. Marked' /\ FiniteHeap' /\ ActiveCountExact' /\ QueueInDeadlineOrder'
  BY <1>e, <1>2 DEF IInv, Marked, FiniteHeap, ActiveCountExact, QueueInDeadlineOrder
<1>5. TimerInOnePlace'
  BY <1>e, <1>2, <1>3 DEF IInv, TimerInOnePlace
<1> QED
  BY <1>4, <1>5 DEF Placing

LEMMA DropTimerStep ==
  ASSUME IInv, NEW t \in Timer, DropTimer(t)
  PROVE  Placing'
<1>e. /\ t \in scheduled /\ cancelled[t]
      /\ scheduled' = scheduled \ {t}
      /\ activecnt' = activecnt - 1
      /\ UNCHANGED <<pendings, item, made, called, cancelled, seconds, clock>>
  BY DEF DropTimer, Top, flowVars, timerVars
<1>1. \A x : Queued(x)' <=> Queued(x)
  BY <1>e DEF Queued
<1>2. ActiveCountExact' /\ FiniteHeap'
  <2>1. HeapSize \in Nat /\ HeapSize' = HeapSize - 1 /\ FiniteHeap'
    BY <1>e, FS_RemoveElement, FS_CardinalityType DEF IInv, FiniteHeap, HeapSize
  <2>2. Len(pendings) \in Nat
    BY LenProperties DEF IInv, ObjectsOK
  <2> QED
    BY <1>e, <2>1, <2>2 DEF IInv, ActiveCountExact, HeapSize
<1>3. TimerInOnePlace'
  BY <1>e, <1>1 DEF IInv, TimerInOnePlace
<1>4. Marked' /\ QueueInDeadlineOrder'
  BY <1>e DEF IInv, Marked, QueueInDeadlineOrder
<1> QED
  BY <1>2, <1>3, <1>4 DEF Placing

LEMMA ExpireTimerStep ==
  ASSUME IInv, NEW t \in Timer, ExpireTimer(t)
  PROVE  Placing'
<1>0. /\ pendings \in Seq(Object) /\ t \in Object /\ scheduled \in SUBSET Timer
      /\ seconds \in [Timer -> Nat] /\ clock \in Nat /\ now \in Nat /\ now <= clock
  BY DEF IInv, ObjectsOK, NotAhead, Object
<1>e. /\ t \in scheduled /\ seconds[t] <= now
      /\ \A u \in scheduled : seconds[t] <= seconds[u]
      /\ scheduled' = scheduled \ {t}
      /\ pendings' = Append(pendings, t)
      /\ UNCHANGED <<activecnt, item, made, called, cancelled, seconds, clock>>
  BY DEF ExpireTimer, Top, Due, flowVars, timerVars
<1>q. /\ Len(pendings) \in Nat
      /\ Len(pendings') = Len(pendings) + 1
      /\ \A i \in 1 .. Len(pendings) : pendings'[i] = pendings[i]
      /\ pendings'[Len(pendings) + 1] = t
      /\ \A x : Queued(x)' <=> Queued(x) \/ x = t
  BY <1>0, <1>e, AppendQueued
<1>f. ~Queued(t) /\ t \in made /\ item # t /\ ~called[t]
  BY <1>e DEF IInv, TimerInOnePlace
<1>1. ActiveCountExact' /\ FiniteHeap'
  <2>1. HeapSize \in Nat /\ HeapSize' = HeapSize - 1 /\ FiniteHeap'
    BY <1>e, FS_RemoveElement, FS_CardinalityType DEF IInv, FiniteHeap, HeapSize
  <2> QED
    BY <1>e, <1>q, <2>1 DEF IInv, ActiveCountExact, HeapSize
<1>2. TimerInOnePlace'
  <2>1. ASSUME NEW i \in 1 .. Len(pendings'), NEW j \in 1 .. Len(pendings'),
               pendings'[i] \in Timer, pendings'[i] = pendings'[j]
        PROVE  i = j
    <3>1. \A k \in 1 .. Len(pendings) : pendings'[k] # t
      BY <1>q, <1>f DEF Queued
    <3>2. CASE i \in 1 .. Len(pendings) /\ j \in 1 .. Len(pendings)
      BY <1>q, <2>1, <3>2 DEF IInv, TimerInOnePlace
    <3>3. CASE i = Len(pendings) + 1 \/ j = Len(pendings) + 1
      BY <1>q, <2>1, <3>1, <3>3
    <3> QED
      BY <1>q, <3>2, <3>3
  <2>2. ASSUME NEW u \in Timer
        PROVE  /\ ~(u \in scheduled' /\ Queued(u)')
               /\ u \in scheduled' \/ Queued(u)' => u \in made' /\ item' # u /\ ~called'[u]
               /\ u \in made' /\ item' # u /\ ~cancelled'[u] /\ ~called'[u]
                    => u \in scheduled' \/ Queued(u)'
    <3>1. Queued(u)' <=> Queued(u) \/ u = t
      BY <1>q
    <3> QED
      BY <1>e, <1>f, <3>1 DEF IInv, TimerInOnePlace
  <2> QED
    BY <2>1, <2>2 DEF TimerInOnePlace
<1>3. QueueInDeadlineOrder'
  <2>1. ASSUME NEW i \in 1 .. Len(pendings'), pendings'[i] \in Timer
        PROVE  /\ seconds[pendings'[i]] <= clock
               /\ \A u \in scheduled : seconds[pendings'[i]] <= seconds[u]
    <3>1. CASE i \in 1 .. Len(pendings)
      BY <1>q, <2>1, <3>1 DEF IInv, QueueInDeadlineOrder
    <3>2. CASE i = Len(pendings) + 1
      BY <1>0, <1>e, <1>q, <3>2
    <3> QED
      BY <1>q, <3>1, <3>2
  <2>2. ASSUME NEW i \in 1 .. Len(pendings'), pendings'[i] \in Timer,
               NEW j \in i .. Len(pendings'), pendings'[j] \in Timer
        PROVE  seconds[pendings'[i]] <= seconds[pendings'[j]]
    <3>1. CASE j \in 1 .. Len(pendings)
      <4>1. i \in 1 .. Len(pendings) /\ j \in i .. Len(pendings)
        BY <1>q, <3>1
      <4>2. pendings'[i] = pendings[i] /\ pendings'[j] = pendings[j]
        BY <1>q, <4>1, <3>1
      <4> QED
        BY <2>2, <4>1, <4>2 DEF IInv, QueueInDeadlineOrder
    <3>2. CASE j = Len(pendings) + 1
      BY <1>e, <1>q, <2>1, <2>2, <3>2
    <3> QED
      BY <1>q, <3>1, <3>2
  <2> QED
    BY <1>e, <2>1, <2>2 DEF QueueInDeadlineOrder
<1>4. Marked'
  BY <1>e DEF IInv, Marked
<1> QED
  BY <1>1, <1>2, <1>3, <1>4 DEF Placing

(* The head of the queue leaves it, skipped or to be fired.                *)
LEMMA ShiftOrder ==
  ASSUME IInv, pendings # <<>>, pendings' = Tail(pendings),
         UNCHANGED <<scheduled, seconds, clock>>
  PROVE  /\ QueueInDeadlineOrder'
         /\ \A i, j \in 1 .. Len(pendings') :
              pendings'[i] \in Timer /\ pendings'[i] = pendings'[j] => i = j
         /\ \A t \in Timer : t = Head(pendings) => ~Queued(t)'
<1>0. pendings \in Seq(Object)
  BY DEF IInv, ObjectsOK
<1>q. /\ Len(pendings) \in Nat
      /\ Len(pendings') = Len(pendings) - 1
      /\ \A i \in 1 .. Len(pendings') : pendings'[i] = pendings[i + 1]
      /\ Head(pendings) = pendings[1]
      /\ 1 \in 1 .. Len(pendings)
  BY <1>0, TailQueued
<1>1. \A i \in 1 .. Len(pendings') : i + 1 \in 1 .. Len(pendings)
  BY <1>q
<1>2. QueueInDeadlineOrder'
  <2>1. ASSUME NEW i \in 1 .. Len(pendings'), pendings'[i] \in Timer
        PROVE  /\ seconds[pendings'[i]] <= clock
               /\ \A u \in scheduled : seconds[pendings'[i]] <= seconds[u]
    BY <1>q, <1>1, <2>1 DEF IInv, QueueInDeadlineOrder
  <2>2. ASSUME NEW i \in 1 .. Len(pendings'), pendings'[i] \in Timer,
               NEW j \in i .. Len(pendings'), pendings'[j] \in Timer
        PROVE  seconds[pendings'[i]] <= seconds[pendings'[j]]
    <3>1. j \in 1 .. Len(pendings') /\ j + 1 \in (i + 1) .. Len(pendings)
      BY <1>q
    <3>2. pendings'[i] = pendings[i + 1] /\ pendings'[j] = pendings[j + 1]
      BY <1>q, <3>1
    <3> QED
      BY <1>1, <2>2, <3>1, <3>2 DEF IInv, QueueInDeadlineOrder
  <2> QED
    BY <2>1, <2>2 DEF QueueInDeadlineOrder
<1>3. ASSUME NEW i \in 1 .. Len(pendings'), NEW j \in 1 .. Len(pendings'),
             pendings'[i] \in Timer, pendings'[i] = pendings'[j]
      PROVE  i = j
  <2>1. i + 1 = j + 1
    BY <1>q, <1>1, <1>3 DEF IInv, TimerInOnePlace
  <2> QED
    BY <1>q, <2>1
<1>4. ASSUME Head(pendings) \in Timer, NEW i \in 1 .. Len(pendings'),
             pendings'[i] = Head(pendings)
      PROVE  FALSE
  <2>1. i + 1 = 1
    BY <1>q, <1>1, <1>4 DEF IInv, TimerInOnePlace
  <2> QED
    BY <1>q, <2>1
<1>5. \A t \in Timer : t = Head(pendings) => ~Queued(t)'
  BY <1>4 DEF Queued
<1> QED
  BY <1>2, <1>3, <1>5

LEMMA SkipItemStep ==
  ASSUME IInv, SkipItem
  PROVE  Placing'
<1>e. /\ pendings # <<>> /\ ~Fires(Head(pendings))
      /\ pendings' = Tail(pendings)
      /\ activecnt' = activecnt - 1
      /\ UNCHANGED <<scheduled, item, made, called, cancelled, seconds, clock>>
  BY DEF SkipItem, InPendings, timerVars
<1>0. pendings \in Seq(Object)
  BY DEF IInv, ObjectsOK
<1>q. /\ Len(pendings) \in Nat
      /\ Len(pendings') = Len(pendings) - 1
      /\ \A x : Queued(x) <=> Queued(x)' \/ x = Head(pendings)
  BY <1>0, <1>e, TailQueued
<1>1. Marked' /\ FiniteHeap'
  BY <1>e DEF IInv, Marked, FiniteHeap
<1>2. ActiveCountExact'
  <2>1. HeapSize \in Nat /\ HeapSize' = HeapSize
    BY <1>e, FS_CardinalityType DEF IInv, FiniteHeap, HeapSize
  <2> QED
    BY <1>e, <1>q, <2>1 DEF IInv, ActiveCountExact, HeapSize
<1>3. TimerInOnePlace'
  <2>1. ASSUME NEW t \in Timer
        PROVE  /\ ~(t \in scheduled' /\ Queued(t)')
               /\ t \in scheduled' \/ Queued(t)' => t \in made' /\ item' # t /\ ~called'[t]
               /\ t \in made' /\ item' # t /\ ~cancelled'[t] /\ ~called'[t]
                    => t \in scheduled' \/ Queued(t)'
    <3>1. CASE t = Head(pendings)
      <4>1. cancelled[t] \/ called[t]
        BY <1>e, <3>1 DEF Fires
      <4> QED
        BY <1>e, <1>q, <3>1, <4>1, ShiftOrder DEF IInv, TimerInOnePlace
    <3>2. CASE t # Head(pendings)
      <4>1. Queued(t)' <=> Queued(t)
        BY <1>q, <3>2
      <4> QED
        BY <1>e, <4>1 DEF IInv, TimerInOnePlace
    <3> QED
      BY <3>1, <3>2
  <2> QED
    BY <1>e, <2>1, ShiftOrder DEF TimerInOnePlace
<1> QED
  BY <1>1, <1>2, <1>3, <1>e, ShiftOrder DEF Placing

LEMMA FireItemStep ==
  ASSUME IInv, FireItem
  PROVE  Placing'
<1>0. pendings \in Seq(Object) /\ called \in [Timer -> BOOLEAN] /\ activecnt \in Int
  BY DEF IInv, ObjectsOK
<1>e. /\ pendings # <<>> /\ Fires(Head(pendings))
      /\ pendings' = Tail(pendings)
      /\ item' = Head(pendings)
      /\ called' = [t \in Timer |-> called[t] \/ t = Head(pendings)]
      /\ item = Nothing
      /\ UNCHANGED <<scheduled, activecnt, made, cancelled, seconds, clock>>
  BY DEF FireItem, InPendings, IInv, Firing
<1>q. /\ Len(pendings) \in Nat
      /\ Len(pendings') = Len(pendings) - 1
      /\ Head(pendings) \in Object
      /\ \A x : Queued(x) <=> Queued(x)' \/ x = Head(pendings)
  BY <1>0, <1>e, TailQueued
<1>c. \A t \in Timer : called'[t] <=> called[t] \/ t = Head(pendings)
  BY <1>e, Zenon
<1>h. Head(pendings) # Nothing /\ (Head(pendings) \in Timer => Head(pendings) \in made)
  <2>1. Queued(Head(pendings))
    BY <1>q
  <2> QED
    BY <1>q, <2>1, ObjectAssumption DEF IInv, TimerInOnePlace, Object
<1>1. Marked' /\ FiniteHeap'
  BY <1>e, <1>c, <1>h DEF IInv, Marked, FiniteHeap
<1>2. ActiveCountExact'
  <2>1. HeapSize \in Nat /\ HeapSize' = HeapSize
    BY <1>e, FS_CardinalityType DEF IInv, FiniteHeap, HeapSize
  <2> QED
    BY <1>e, <1>h, <1>q, <2>1 DEF IInv, ActiveCountExact, HeapSize
<1>3. TimerInOnePlace'
  <2>1. ASSUME NEW t \in Timer
        PROVE  /\ ~(t \in scheduled' /\ Queued(t)')
               /\ t \in scheduled' \/ Queued(t)' => t \in made' /\ item' # t /\ ~called'[t]
               /\ t \in made' /\ item' # t /\ ~cancelled'[t] /\ ~called'[t]
                    => t \in scheduled' \/ Queued(t)'
    <3>1. CASE t = Head(pendings)
      <4>0. ~Queued(t)'
        BY <1>e, <3>1, ShiftOrder
      <4>1. ~Queued(t)' /\ Queued(t) /\ called'[t] /\ item' = t
        BY <1>e, <1>c, <1>q, <3>1, <4>0
      <4> QED
        BY <1>e, <4>1 DEF IInv, TimerInOnePlace
    <3>2. CASE t # Head(pendings)
      <4>1. /\ Queued(t)' <=> Queued(t)
            /\ called'[t] <=> called[t]
            /\ item # t /\ item' # t
        BY <1>q, <1>c, <1>e, <3>2, ObjectAssumption DEF Object
      <4> QED
        BY <1>e, <4>1 DEF IInv, TimerInOnePlace
    <3> QED
      BY <3>1, <3>2
  <2> QED
    BY <1>e, <2>1, ShiftOrder DEF TimerInOnePlace
<1> QED
  BY <1>1, <1>2, <1>3, <1>e, ShiftOrder DEF Placing

LEMMA FinishItemStep ==
  ASSUME IInv, ObjectsOK', NEW e \in {"none", "abort", "error"}, FinishItem(e)
  PROVE  Placing'
<1>0. /\ pendings \in Seq(Object) /\ called \in [Timer -> BOOLEAN]
      /\ cancelled \in [Object -> BOOLEAN] /\ Timer \subseteq Object
      /\ scheduled \in SUBSET Timer /\ seconds \in [Timer -> Nat]
      /\ interval \in [Timer -> Nat] /\ clock \in Nat /\ activecnt \in Int
      /\ Len(pendings) \in Nat /\ HeapSize \in Nat
  BY LenProperties, FS_CardinalityType DEF IInv, ObjectsOK, Object, HeapSize, FiniteHeap
<1>e. /\ item # Nothing /\ item' = Nothing
      /\ UNCHANGED <<pendings, made, clock>>
  BY DEF FinishItem, IInv, Firing
<1>g. \A x : Queued(x)' <=> Queued(x)
  BY <1>e DEF Queued
<1>n. Nothing \notin Timer
  BY ObjectAssumption
<1>1. CASE Rearms(item)
  <2>e. /\ item \in Timer
        /\ called' = [called EXCEPT ![item] = FALSE]
        /\ cancelled' = [cancelled EXCEPT ![item] = FALSE]
        /\ seconds' = [seconds EXCEPT ![item] = clock + interval[item]]
        /\ scheduled' = scheduled \cup {item}
        /\ activecnt' = activecnt
    BY <1>1 DEF FinishItem, Rearms
  <2>f. item \in made /\ item \notin scheduled /\ ~Queued(item)
    BY <2>e DEF IInv, Marked, TimerInOnePlace
  <2>1. Marked' /\ FiniteHeap'
    <3>1. FiniteHeap'
      BY <2>e, FS_AddElement DEF IInv, FiniteHeap
    <3> QED
      BY <1>0, <1>e, <1>n, <2>e, <2>f, <3>1 DEF IInv, Marked
  <2>2. ActiveCountExact'
    <3>1. HeapSize' = HeapSize + 1
      BY <2>e, <2>f, FS_AddElement DEF IInv, FiniteHeap, HeapSize
    <3> QED
      BY <1>0, <1>e, <2>e, <3>1 DEF IInv, ActiveCountExact, HeapSize
  <2>3. TimerInOnePlace'
    <3>1. ASSUME NEW t \in Timer
          PROVE  /\ ~(t \in scheduled' /\ Queued(t)')
                 /\ t \in scheduled' \/ Queued(t)' => t \in made' /\ item' # t /\ ~called'[t]
                 /\ t \in made' /\ item' # t /\ ~cancelled'[t] /\ ~called'[t]
                      => t \in scheduled' \/ Queued(t)'
      <4>1. CASE t = item
        BY <1>0, <1>e, <1>g, <1>n, <2>e, <2>f, <4>1
      <4>2. CASE t # item
        <5>1. /\ called'[t] = called[t] /\ cancelled'[t] = cancelled[t]
              /\ t \in scheduled' <=> t \in scheduled
              /\ item' # t
          BY <1>0, <1>e, <1>n, <2>e, <4>2
        <5> QED
          BY <1>e, <1>g, <4>2, <5>1 DEF IInv, TimerInOnePlace
      <4> QED
        BY <4>1, <4>2
    <3>2. \A i, j \in 1 .. Len(pendings') :
            pendings'[i] \in Timer /\ pendings'[i] = pendings'[j] => i = j
      BY <1>e DEF IInv, TimerInOnePlace
    <3> QED
      BY <3>1, <3>2 DEF TimerInOnePlace
  <2>4. QueueInDeadlineOrder'
    <3>1. \A i \in 1 .. Len(pendings) : pendings[i] # item
      BY <2>f DEF Queued
    <3>2. \A i \in 1 .. Len(pendings) : pendings[i] \in Timer =>
            /\ seconds'[pendings[i]] = seconds[pendings[i]]
            /\ seconds[pendings[i]] <= seconds'[item]
      BY <1>0, <2>e, <3>1 DEF IInv, QueueInDeadlineOrder
    <3>3. \A u \in scheduled : seconds'[u] = seconds[u]
      BY <1>0, <2>e, <2>f
    <3> QED
      BY <1>0, <1>e, <2>e, <3>2, <3>3 DEF IInv, QueueInDeadlineOrder
  <2> QED
    BY <2>1, <2>2, <2>3, <2>4 DEF Placing
<1>2. CASE ~Rearms(item)
  <2>e. activecnt' = activecnt - 1 /\ UNCHANGED <<called, cancelled, seconds, scheduled>>
    BY <1>2 DEF FinishItem
  <2>1. Marked' /\ FiniteHeap' /\ QueueInDeadlineOrder'
    BY <1>e, <1>n, <2>e DEF IInv, Marked, FiniteHeap, QueueInDeadlineOrder
  <2>2. ActiveCountExact'
    BY <1>0, <1>e, <2>e DEF IInv, ActiveCountExact, HeapSize
  <2>3. TimerInOnePlace'
    BY <1>e, <1>g, <1>n, <2>e DEF IInv, Marked, TimerInOnePlace
  <2> QED
    BY <2>1, <2>2, <2>3 DEF Placing
<1> QED
  BY <1>1, <1>2

LEMMA PlacingStep ==
  ASSUME IInv, [Next]_vars
  PROVE  Placing'
<1>0. ObjectsOK' /\ clock \in Nat /\ clock' \in Nat /\ clock <= clock'
  BY ObjectsStep, ClockStep
<1>1. CASE UNCHANGED coreVars
  <2>1. UNCHANGED <<pendings, scheduled, activecnt, item, made, called, cancelled, seconds>>
    BY <1>1 DEF coreVars, timerVars
  <2>2. \A x : Queued(x)' <=> Queued(x)
    BY <2>1 DEF Queued
  <2>3. TimerInOnePlace'
    BY <2>1, <2>2 DEF IInv, TimerInOnePlace
  <2>4. Marked' /\ FiniteHeap' /\ ActiveCountExact'
    BY <2>1 DEF IInv, Marked, FiniteHeap, ActiveCountExact
  <2>5. QueueInDeadlineOrder'
    <3>1. \A i \in 1 .. Len(pendings) : pendings[i] \in Timer => seconds[pendings[i]] <= clock'
      BY <1>0 DEF IInv, ObjectsOK, QueueInDeadlineOrder
    <3> QED
      BY <2>1, <3>1 DEF IInv, QueueInDeadlineOrder
  <2> QED
    BY <2>3, <2>4, <2>5 DEF Placing
<1>2. ASSUME NEW h \in Handle, NEW b \in BOOLEAN, CallSoon(h, b) PROVE Placing'
  <2>1. /\ pendings' = Append(pendings, h) /\ activecnt' = activecnt + 1
        /\ UNCHANGED <<scheduled, item, called, seconds, clock>>
        /\ made' = made \cup {h}
        /\ cancelled' = [cancelled EXCEPT ![h] = b]
    BY <1>2 DEF CallSoon, ScheduleHandle, flowVars
  <2>2. \A t \in Timer : t # h /\ (t \in made' <=> t \in made) /\ cancelled'[t] = cancelled[t]
    BY <2>1, ObjectAssumption DEF IInv, ObjectsOK, Object
  <2> QED
    BY <1>0, <2>1, <2>2, EnqueueStep
<1>3. ASSUME NEW h \in Handle, AddCallback(h) PROVE Placing'
  <2>1. /\ pendings' = Append(pendings, h) /\ activecnt' = activecnt + 1
        /\ UNCHANGED <<scheduled, item, made, cancelled, called, seconds, clock>>
    BY <1>3 DEF AddCallback, ScheduleHandle, flowVars, timerVars
  <2> QED
    BY <1>0, <2>1, EnqueueStep
<1>4. ASSUME NEW t \in Timer, NEW s \in Interval, NEW b \in BOOLEAN, CallLater(t, s, b)
      PROVE  Placing'
  BY <1>0, <1>4, CallLaterStep
<1>5. ASSUME NEW t \in Timer, Cancel(t) \/ DropTimer(t) \/ ExpireTimer(t) PROVE Placing'
  BY <1>5, CancelStep, DropTimerStep, ExpireTimerStep
<1>6. CASE SkipItem \/ FireItem
  BY <1>6, SkipItemStep, FireItemStep
<1>7. ASSUME NEW e \in {"none", "abort", "error"}, FinishItem(e) PROVE Placing'
  BY <1>0, <1>7, FinishItemStep
<1> QED
  BY <1>1, <1>2, <1>3, <1>4, <1>5, <1>6, <1>7, QuietOrBusy, Zenon DEF Busy

LEMMA PeriodicStep ==
  ASSUME IInv, [Next]_vars
  PROVE  Periodic'
<1> USE DEF loopVars, timerVars, ioVars, flowVars
<1>0. Periodic /\ interval \in [Timer -> Nat]
  BY DEF IInv, ObjectsOK
<1>1. CASE UNCHANGED coreVars
  BY <1>0, <1>1 DEF coreVars, Periodic
<1>2. ASSUME NEW h \in Handle, NEW b \in BOOLEAN, CallSoon(h, b) PROVE Periodic'
  BY <1>0, <1>2, ObjectAssumption DEF CallSoon, ScheduleHandle, Periodic
<1>3. ASSUME NEW t \in Timer, NEW s \in Interval, NEW b \in BOOLEAN, CallLater(t, s, b)
      PROVE  Periodic'
  BY <1>0, <1>3, IntervalAssumption DEF CallLater, NewTimer, ScheduleTimer, Periodic
<1>4. ASSUME NEW h \in Handle, AddCallback(h) PROVE Periodic'
  BY <1>0, <1>4 DEF AddCallback, ScheduleHandle, Periodic
<1>5. ASSUME NEW t \in Timer, Cancel(t) \/ DropTimer(t) \/ ExpireTimer(t) PROVE Periodic'
  BY <1>0, <1>5 DEF Cancel, DropTimer, ExpireTimer, Periodic
<1>6. CASE SkipItem \/ FireItem
  BY <1>0, <1>6 DEF SkipItem, FireItem, Periodic
<1>7. ASSUME NEW e \in {"none", "abort", "error"}, FinishItem(e) PROVE Periodic'
  BY <1>0, <1>7 DEF FinishItem, Periodic
<1> QED
  BY <1>1, <1>2, <1>3, <1>4, <1>5, <1>6, <1>7, QuietOrBusy, Zenon DEF Busy
-----------------------------------------------------------------------------
LEMMA InitIInv == Init => IInv
<1> SUFFICES ASSUME Init PROVE IInv
  OBVIOUS
<1> USE DEF Init
<1>1. IsFiniteSet({}) /\ Cardinality({}) = 0
  BY FS_EmptySet, Zenon
<1>2. pendings = <<>> /\ pendings \in Seq(Object) /\ Len(pendings) = 0
  BY EmptySeq
<1>3. \A t \in Timer : ~called[t] /\ t \in Object /\ ~cancelled[t]
  BY DEF Object
<1>4. ObjectsOK
  BY <1>2 DEF ObjectsOK
<1>b. once \in BOOLEAN /\ postfork \in BOOLEAN
  BY Zenon
<1>5. ControlOK /\ IoOK /\ Firing /\ Entering /\ NotAhead
  BY <1>b DEF ControlOK, IoOK, Firing, Entering, NotAhead
<1>6. FiniteHeap /\ FiniteFds /\ ActiveCountExact /\ IoCountExact
  BY <1>1, <1>2 DEF FiniteHeap, FiniteFds, ActiveCountExact, IoCountExact
<1>7. Marked /\ Periodic
  BY <1>3, ObjectAssumption DEF Marked, Periodic
<1>8. TimerInOnePlace /\ QueueInDeadlineOrder
  BY <1>2, <1>3 DEF TimerInOnePlace, QueueInDeadlineOrder, Queued
<1> QED
  BY <1>4, <1>5, <1>6, <1>7, <1>8 DEF IInv

LEMMA NextIInv == IInv /\ [Next]_vars => IInv'
<1> SUFFICES ASSUME IInv, [Next]_vars PROVE IInv'
  OBVIOUS
<1>1. ObjectsOK' /\ ControlOK' /\ Firing' /\ Entering' /\ NotAhead'
  BY ObjectsStep, ControlStep, EnteringStep, ClockStep
<1>2. IoOK' /\ FiniteFds' /\ IoCountExact'
  BY IoStep
<1>3. Placing' /\ Periodic'
  BY PlacingStep, PeriodicStep
<1> QED
  BY <1>1, <1>2, <1>3, Zenon DEF IInv, Placing

LEMMA IInvTypes == IInv => TypeOK
<1> SUFFICES ASSUME IInv PROVE TypeOK
  OBVIOUS
<1>1. activecnt \in Nat
  BY LenProperties, FS_CardinalityType DEF IInv, ObjectsOK, FiniteHeap, ActiveCountExact
<1>2. ioactivecnt \in Nat
  BY FS_CardinalityType DEF IInv, IoOK, FiniteFds, IoCountExact
<1> QED
  BY <1>1, <1>2 DEF IInv, ObjectsOK, ControlOK, IoOK, TypeOK

(* The inductive invariant holds throughout every run of the loop.         *)
LEMMA IInvAlways == Spec => []IInv
BY InitIInv, NextIInv, PTL DEF Spec

(* Every field keeps its type; in particular the counters, which the code  *)
(* decrements on six paths, never fall below zero.                         *)
THEOREM TypeCorrect == Spec => []TypeOK
BY IInvAlways, IInvTypes, PTL

(* activecnt counts what is queued, heaped or being fired: with the next   *)
(* theorem, what the while condition of _run tests is exactly whether      *)
(* there is work.                                                          *)
THEOREM CountersExact == Spec => []ActiveCountExact
<1>1. IInv => ActiveCountExact
  BY DEF IInv
<1> QED
  BY IInvAlways, <1>1, PTL

(* ioactivecnt counts the registered descriptors.                          *)
THEOREM IoCounterExact == Spec => []IoCountExact
<1>1. IInv => IoCountExact
  BY DEF IInv
<1> QED
  BY IInvAlways, <1>1, PTL

(* A timer is in one place at most, and an armed one is somewhere.         *)
THEOREM TimersKept == Spec => []TimerInOnePlace
<1>1. IInv => TimerInOnePlace
  BY DEF IInv
<1> QED
  BY IInvAlways, <1>1, PTL

(* Timers are queued once they are due, in the order of their deadlines.   *)
THEOREM DeadlineOrder == Spec => []QueueInDeadlineOrder
<1>1. IInv => QueueInDeadlineOrder
  BY DEF IInv
<1> QED
  BY IInvAlways, <1>1, PTL

LEMMA EmptySequence ==
  ASSUME NEW S, NEW q \in Seq(S), Len(q) = 0
  PROVE  q = <<>>
BY EmptySeq, SeqEqual

(* Whether the run ends is decided in Check alone, and from exact counters *)
(* nothing to do means that everything is empty.                           *)
LEMMA NormalReturnStep ==
  ASSUME IInv, [Next]_vars, outcome' = "normal", pc = "check"
  PROVE  pendings = <<>> /\ scheduled = {} /\ fds = {} /\ item = Nothing
<1>0. outcome = "none" /\ state = "RUNNING" /\ item = Nothing /\ pc = "check"
  BY DEF IInv, Entering, Firing
<1>1. Check
  <2> USE DEF flowVars, loopVars
  <2>1. ~Main /\ ~Switches
    BY <1>0 DEF Main, Run, Resume, Switches, StartSuspended, Suspend, ThrowToMain
  <2>2. ~User
    BY <1>0 DEF User, CallSoon, ScheduleHandle, AddCallback,
          CallLater, NewTimer, ScheduleTimer, Cancel, AddReader, RemoveReader, Fork
  <2>3. ~Environment /\ ~UNCHANGED vars
    BY <1>0 DEF Environment, Tick, Signal, vars
  <2>4. ~(Begin \/ TimersDone \/ SkipItem \/ FireItem \/ PendingsDone \/ Poll \/ PollDone \/ End)
    BY <1>0 DEF Begin, TimersDone, SkipItem, FireItem, PendingsDone, Poll, PollDone, End, InPendings
  <2>5. \A t \in Timer : ~DropTimer(t) /\ ~ExpireTimer(t)
    BY <1>0 DEF DropTimer, ExpireTimer, InTimers
  <2>6. \A e \in {"none", "abort", "error"} : ~FinishItem(e) /\ ~IoReturn(e)
    BY <1>0 DEF FinishItem, IoReturn
  <2>7. \A fd \in Fd : ~Dispatch(fd)
    BY <1>0 DEF Dispatch
  <2> QED
    BY <2>1, <2>2, <2>3, <2>4, <2>5, <2>6, <2>7, Zenon DEF Next, LoopStep
<1>2. ~(activecnt > 0 \/ ioactivecnt > 1)
  BY <1>0, <1>1 DEF Check, GoOn
<1>3. Len(pendings) = 0 /\ Cardinality(scheduled) = 0 /\ Cardinality(fds) = 0
  BY <1>2, LenProperties, FS_CardinalityType
     DEF IInv, ObjectsOK, IoOK, FiniteHeap, FiniteFds, ActiveCountExact, IoCountExact
<1>4. scheduled = {} /\ fds = {}
  BY <1>3, FS_EmptySet DEF IInv, FiniteHeap, FiniteFds
<1> QED
  BY <1>0, <1>3, <1>4, EmptySequence DEF IInv, ObjectsOK

(* run() returns of its own accord only when queue, heap and descriptors   *)
(* are empty and no item is half-fired.                                    *)
THEOREM NormalReturn == Spec => NormalReturnIsDrained
<1>1. IInv /\ [Next]_vars =>
        [outcome' = "normal" /\ pc = "check"
           => pendings = <<>> /\ scheduled = {} /\ fds = {} /\ item = Nothing]_vars
  BY NormalReturnStep, Zenon
<1> QED
  BY IInvAlways, <1>1, PTL DEF Spec, NormalReturnIsDrained
-----------------------------------------------------------------------------
(* The refinement of TimerService.tla.                                     *)
LEMMA PhaseChange ==
  ASSUME NEW t \in Timer, NEW p,
         \A u \in Timer : Phase(u)' = IF u = t THEN p ELSE Phase(u)
  PROVE  [u \in Timer |-> Phase(u)]' = [[u \in Timer |-> Phase(u)] EXCEPT ![t] = p]
BY Zenon

LEMMA PeriodSame ==
  ASSUME UNCHANGED <<repeat, interval>>
  PROVE  UNCHANGED [t \in Timer |-> IF repeat[t] THEN interval[t] ELSE 0]
OBVIOUS

(* Nothing the service can see happens.                                    *)
LEMMA ServiceStutter ==
  ASSUME UNCHANGED <<repeat, interval, seconds, clock>>,
         \A t \in Timer : Phase(t)' = Phase(t)
  PROVE  UNCHANGED Service!vars
BY PeriodSame, Zenon DEF Service!vars

LEMMA CallLaterArms ==
  ASSUME IInv, NEW t \in Timer, NEW s \in Interval, NEW b \in BOOLEAN, CallLater(t, s, b)
  PROVE  \E p \in {0, s} : Service!Arm(t, s, p)
<1>e. /\ t \notin made /\ made' = made \cup {t}
      /\ seconds' = [seconds EXCEPT ![t] = clock + s]
      /\ interval' = [interval EXCEPT ![t] = s]
      /\ repeat' = [repeat EXCEPT ![t] = b]
      /\ UNCHANGED <<item, cancelled, called, clock>>
  BY DEF CallLater, NewTimer, ScheduleTimer, flowVars
<1>f. /\ item # t /\ ~called[t] /\ ~cancelled[t]
      /\ interval \in [Timer -> Nat] /\ repeat \in [Timer -> BOOLEAN]
  BY <1>e DEF IInv, Marked, ObjectsOK
<1>1. \A u \in Timer : Phase(u)' = IF u = t THEN "armed" ELSE Phase(u)
  BY <1>e, <1>f DEF Phase
<1>2. Phase(t) = "new"
  BY <1>e DEF Phase
<1>3. [u \in Timer |-> IF repeat[u] THEN interval[u] ELSE 0]'
        = [[u \in Timer |-> IF repeat[u] THEN interval[u] ELSE 0]
             EXCEPT ![t] = IF b THEN s ELSE 0]
  <2>1. \A u \in Timer : (IF repeat[u] THEN interval[u] ELSE 0)'
           = IF u = t THEN (IF b THEN s ELSE 0) ELSE (IF repeat[u] THEN interval[u] ELSE 0)
    <3>1. ASSUME NEW u \in Timer
          PROVE  /\ repeat'[u] = IF u = t THEN b ELSE repeat[u]
                 /\ interval'[u] = IF u = t THEN s ELSE interval[u]
      BY <1>e, <1>f, Zenon
    <3> QED
      BY <3>1, Zenon
  <2> QED
    BY <2>1, Zenon
<1>4. [u \in Timer |-> Phase(u)]' = [[u \in Timer |-> Phase(u)] EXCEPT ![t] = "armed"]
  BY <1>1, PhaseChange
<1>5. (IF b THEN s ELSE 0) \in {0, s}
  OBVIOUS
<1> QED
  BY <1>2, <1>3, <1>4, <1>5, <1>e, Zenon DEF Service!Arm

LEMMA CancelCancels ==
  ASSUME IInv, NEW t \in Timer, Cancel(t)
  PROVE  Service!Cancel(t) \/ UNCHANGED Service!vars
<1>e. /\ t \in made
      /\ cancelled' = [cancelled EXCEPT ![t] = TRUE]
      /\ UNCHANGED <<item, made, called, seconds, interval, repeat, clock>>
  BY DEF Cancel, flowVars
<1>f. \A u \in Timer : cancelled'[u] <=> cancelled[u] \/ u = t
  BY <1>e DEF IInv, ObjectsOK, Object
<1>1. CASE Phase(t) = "armed"
  <2>1. \A u \in Timer : Phase(u)' = IF u = t THEN "cancelled" ELSE Phase(u)
    BY <1>1, <1>e, <1>f DEF Phase
  <2> QED
    BY <1>1, <1>e, <2>1, PhaseChange, PeriodSame, Zenon DEF Service!Cancel
<1>2. CASE Phase(t) # "armed"
  <2>1. \A u \in Timer : Phase(u)' = Phase(u)
    BY <1>2, <1>e, <1>f DEF Phase
  <2> QED
    BY <1>e, <2>1, ServiceStutter
<1> QED
  BY <1>1, <1>2

LEMMA FireItemStarts ==
  ASSUME IInv, FireItem
  PROVE  (\E t \in Timer : Service!Start(t)) \/ UNCHANGED Service!vars
<1>0. pendings \in Seq(Object) /\ called \in [Timer -> BOOLEAN]
  BY DEF IInv, ObjectsOK
<1>e. /\ pendings # <<>> /\ Fires(Head(pendings))
      /\ pendings' = Tail(pendings)
      /\ item' = Head(pendings)
      /\ called' = [t \in Timer |-> called[t] \/ t = Head(pendings)]
      /\ item = Nothing
      /\ UNCHANGED <<made, cancelled, seconds, interval, repeat, clock>>
  BY DEF FireItem, InPendings, IInv, Firing
<1>q. /\ Len(pendings) \in Nat
      /\ Head(pendings) = pendings[1]
      /\ 1 \in 1 .. Len(pendings)
      /\ Head(pendings) \in Object
      /\ Queued(Head(pendings))
  BY <1>0, <1>e, TailQueued
<1>c. \A t \in Timer : called'[t] <=> called[t] \/ t = Head(pendings)
  BY <1>e, Zenon
<1>n. Nothing \notin Timer
  BY ObjectAssumption
<1>1. CASE Head(pendings) \in Timer
  <2> DEFINE t == Head(pendings)
  <2>1. t \in Timer /\ t \in made /\ ~cancelled[t] /\ ~called[t]
    BY <1>1, <1>e, <1>q DEF Fires, IInv, TimerInOnePlace
  <2>2. Phase(t) = "armed"
    BY <2>1, <1>e, <1>n DEF Phase
  <2>3. seconds[t] <= clock
    BY <1>q, <2>1 DEF IInv, QueueInDeadlineOrder
  <2>4. ASSUME NEW u \in Timer
        PROVE  Phase(u) # "running" /\ (Phase(u) = "armed" => seconds[t] <= seconds[u])
    <3>1. Phase(u) # "running"
      BY <1>e, <1>n DEF Phase
    <3>2. CASE Phase(u) = "armed"
      <4>1. u \in scheduled \/ Queued(u)
        BY <1>e, <1>n, <3>2 DEF Phase, IInv, TimerInOnePlace
      <4>2. u \in scheduled => seconds[t] <= seconds[u]
        BY <1>q, <2>1 DEF IInv, QueueInDeadlineOrder
      <4>3. Queued(u) => seconds[t] <= seconds[u]
        <5>1. \A j \in 1 .. Len(pendings) : pendings[j] = u => seconds[t] <= seconds[u]
          BY <1>q, <2>1 DEF IInv, QueueInDeadlineOrder
        <5> QED
          BY <5>1 DEF Queued
      <4> QED
        BY <3>1, <4>1, <4>2, <4>3
    <3> QED
      BY <3>1, <3>2
  <2>5. \A u \in Timer : Phase(u)' = IF u = t THEN "running" ELSE Phase(u)
    <3>1. \A u \in Timer : u # t => item # u /\ item' # u
      BY <1>e, <1>n
    <3> QED
      BY <1>e, <1>c, <2>1, <3>1 DEF Phase
  <2>6. [u \in Timer |-> Phase(u)]' = [[u \in Timer |-> Phase(u)] EXCEPT ![t] = "running"]
    <3> HIDE DEF t
    <3> QED
      BY <2>1, <2>5, PhaseChange
  <2> HIDE DEF t
  <2> QED
    BY <1>e, <2>1, <2>2, <2>3, <2>4, <2>6, PeriodSame, Zenon DEF Service!Start
<1>2. CASE Head(pendings) \notin Timer
  <2>1. \A u \in Timer : item # u /\ item' # u /\ (called'[u] <=> called[u])
    BY <1>2, <1>e, <1>c, <1>n
  <2>2. \A u \in Timer : Phase(u)' = Phase(u)
    BY <1>e, <2>1 DEF Phase
  <2> QED
    BY <1>e, <2>2, ServiceStutter
<1> QED
  BY <1>1, <1>2

LEMMA FinishItemFinishes ==
  ASSUME IInv, NEW e \in {"none", "abort", "error"}, FinishItem(e)
  PROVE  (\E t \in Timer : Service!Finish(t)) \/ UNCHANGED Service!vars
<1>0. /\ called \in [Timer -> BOOLEAN] /\ cancelled \in [Object -> BOOLEAN]
      /\ interval \in [Timer -> Nat] /\ seconds \in [Timer -> Nat]
      /\ Timer \subseteq Object
  BY DEF IInv, ObjectsOK, Object
<1>e. /\ item # Nothing /\ item' = Nothing
      /\ UNCHANGED <<made, interval, repeat, clock>>
  BY DEF FinishItem, IInv, Firing
<1>n. Nothing \notin Timer
  BY ObjectAssumption
<1>1. CASE item \in Timer /\ repeat[item]
  <2>1. /\ called' = [called EXCEPT ![item] = FALSE]
        /\ cancelled' = [cancelled EXCEPT ![item] = FALSE]
        /\ seconds' = [seconds EXCEPT ![item] = clock + interval[item]]
    BY <1>1 DEF FinishItem, Rearms
  <2>2. item \in made /\ interval[item] > 0
    BY <1>1 DEF IInv, Marked, Periodic
  <2>3. \A u \in Timer : /\ item' # u
                         /\ called'[u] <=> called[u] /\ u # item
                         /\ cancelled'[u] <=> cancelled[u] /\ u # item
    BY <1>0, <1>e, <1>n, <2>1
  <2>4. \A u \in Timer : Phase(u)' = IF u = item THEN "armed" ELSE Phase(u)
    BY <1>e, <2>2, <2>3 DEF Phase
  <2>5. Phase(item) = "running"
    BY <2>2 DEF Phase
  <2>6. [u \in Timer |-> Phase(u)]' = [[u \in Timer |-> Phase(u)] EXCEPT ![item] = "armed"]
    BY <2>4, Zenon
  <2>7. interval[item] # 0
    BY <1>0, <1>1, <2>2
  <2>8. [t \in Timer |-> IF repeat[t] THEN interval[t] ELSE 0][item] = interval[item]
    BY <1>1
  <2> QED
    BY <1>1, <1>e, <2>1, <2>5, <2>6, <2>7, <2>8, PeriodSame, Zenon DEF Service!Finish
<1>2. CASE item \in Timer /\ ~repeat[item]
  <2>1. UNCHANGED <<called, cancelled, seconds>>
    BY <1>2 DEF FinishItem, Rearms
  <2>2. item \in made /\ called[item]
    BY <1>2 DEF IInv, Marked
  <2>4. \A u \in Timer : Phase(u)' = IF u = item THEN "done" ELSE Phase(u)
    BY <1>e, <1>n, <2>1, <2>2 DEF Phase
  <2>5. Phase(item) = "running"
    BY <2>2 DEF Phase
  <2>6. [u \in Timer |-> Phase(u)]' = [[u \in Timer |-> Phase(u)] EXCEPT ![item] = "done"]
    BY <2>4, Zenon
  <2>8. [t \in Timer |-> IF repeat[t] THEN interval[t] ELSE 0][item] = 0
    BY <1>2
  <2> QED
    BY <1>2, <1>e, <2>1, <2>5, <2>6, <2>8, PeriodSame, Zenon DEF Service!Finish
<1>3. CASE item \notin Timer
  <2>1. UNCHANGED <<called, cancelled, seconds>>
    BY <1>3 DEF FinishItem, Rearms
  <2>2. \A u \in Timer : Phase(u)' = Phase(u)
    BY <1>3, <1>e, <1>n, <2>1 DEF Phase
  <2> QED
    BY <1>e, <2>1, <2>2, ServiceStutter
<1> QED
  BY <1>1, <1>2, <1>3

LEMMA ServiceInit == Init => Service!Init
<1> SUFFICES ASSUME Init PROVE Service!Init
  OBVIOUS
<1>1. \A t \in Timer : Phase(t) = "new" /\ ~repeat[t]
  BY DEF Init, Phase
<1>2. [t \in Timer |-> Phase(t)] = [t \in Timer |-> "new"]
  BY <1>1, Zenon
<1>3. [t \in Timer |-> IF repeat[t] THEN interval[t] ELSE 0] = [t \in Timer |-> 0]
  BY <1>1, Zenon
<1> QED
  BY <1>2, <1>3, Zenon DEF Init, Service!Init

LEMMA ServiceStep ==
  ASSUME IInv, [Next]_vars
  PROVE  [Service!Next]_(Service!vars)
<1> USE DEF loopVars, timerVars, ioVars, flowVars
<1>q. ASSUME UNCHANGED coreVars PROVE \A t \in Timer : Phase(t)' = Phase(t)
  BY <1>q DEF coreVars, Phase
<1>1. CASE UNCHANGED coreVars
  <2>1. CASE Tick
    <3>1. UNCHANGED [t \in Timer |-> Phase(t)]
      BY <1>1, <1>q, Zenon
    <3>2. clock' = clock + 1 /\ UNCHANGED <<seconds, repeat, interval>>
      BY <2>1 DEF Tick
    <3>3. Service!Tick
      BY <3>1, <3>2, PeriodSame, Zenon DEF Service!Tick
    <3> QED
      BY <3>3, Zenon DEF Service!Next
  <2>2. CASE ~Tick
    <3>1. clock' = clock
      <4>1. CASE Main \/ Switches
        BY <4>1 DEF Main, Run, Resume, Switches, StartSuspended, Suspend, ThrowToMain
      <4>2. CASE User
        BY <4>2 DEF User, CallSoon, ScheduleHandle, AddCallback,
              CallLater, NewTimer, ScheduleTimer, Cancel, AddReader, RemoveReader, Fork
      <4>3. CASE LoopStep
        BY <4>3 DEF LoopStep, Check, Begin, TimersDone, SkipItem, FireItem, PendingsDone,
                    DropTimer, ExpireTimer, FinishItem, IoReturn, Poll, PollDone, End, Dispatch
      <4>4. CASE UNCHANGED vars \/ \E s \in {"INT", "TERM"} : Signal(s)
        BY <4>4 DEF vars, Signal
      <4> QED
        BY <2>2, <4>1, <4>2, <4>3, <4>4, Zenon DEF Next, Environment
    <3>2. UNCHANGED <<repeat, interval, seconds>>
      BY <1>1 DEF coreVars
    <3> QED
      BY <1>1, <1>q, <3>1, <3>2, ServiceStutter
  <2> QED
    BY <2>1, <2>2
<1>2. ASSUME NEW h \in Handle, NEW b \in BOOLEAN, CallSoon(h, b) PROVE UNCHANGED Service!vars
  <2>1. /\ made' = made \cup {h} /\ cancelled' = [cancelled EXCEPT ![h] = b]
        /\ UNCHANGED <<called, item, seconds, interval, repeat, clock>>
    BY <1>2 DEF CallSoon, ScheduleHandle
  <2>2. \A t \in Timer : t # h /\ (t \in made' <=> t \in made) /\ cancelled'[t] = cancelled[t]
    BY <2>1, ObjectAssumption DEF IInv, ObjectsOK, Object
  <2>3. \A t \in Timer : Phase(t)' = Phase(t)
    BY <2>1, <2>2 DEF Phase
  <2> QED
    BY <2>1, <2>3, ServiceStutter
<1>3. ASSUME NEW h \in Handle, AddCallback(h) PROVE UNCHANGED Service!vars
  BY <1>3, ServiceStutter DEF AddCallback, ScheduleHandle, Phase
<1>4. ASSUME NEW t \in Timer, DropTimer(t) \/ ExpireTimer(t) PROVE UNCHANGED Service!vars
  BY <1>4, ServiceStutter DEF DropTimer, ExpireTimer, Phase
<1>5. CASE SkipItem
  BY <1>5, ServiceStutter DEF SkipItem, Phase
<1>6. ASSUME NEW t \in Timer, NEW s \in Interval, NEW b \in BOOLEAN, CallLater(t, s, b)
      PROVE  Service!Next
  BY <1>6, CallLaterArms, Zenon DEF Service!Next
<1>7. ASSUME NEW t \in Timer, Cancel(t) PROVE Service!Next \/ UNCHANGED Service!vars
  BY <1>7, CancelCancels, Zenon DEF Service!Next
<1>8. CASE FireItem
  BY <1>8, FireItemStarts, Zenon DEF Service!Next
<1>9. ASSUME NEW e \in {"none", "abort", "error"}, FinishItem(e)
      PROVE  Service!Next \/ UNCHANGED Service!vars
  BY <1>9, FinishItemFinishes, Zenon DEF Service!Next
<1> QED
  BY <1>1, <1>2, <1>3, <1>4, <1>5, <1>6, <1>7, <1>8, <1>9, QuietOrBusy, Zenon DEF Busy

(* The loop keeps the promise of TimerService.tla: heap, queue and the     *)
(* firing of one item together behave as one service that runs the armed   *)
(* timer with the earliest deadline, never too early and never cancelled.  *)
THEOREM LoopImplementsTimerService == Spec => ImplementsTimerService
<1>1. IInv /\ [Next]_vars => [Service!Next]_(Service!vars)
  BY ServiceStep, Zenon
<1> QED
  BY IInvAlways, ServiceInit, <1>1, PTL DEF Spec, ImplementsTimerService, Service!Spec
-----------------------------------------------------------------------------
(* Once cancelled, and not firing, a timer stays so.                       *)
LEMMA CancelledStep ==
  ASSUME NEW t \in Timer, IInv, [Next]_vars, cancelled[t], item # t
  PROVE  cancelled'[t] /\ item' # t
<1> USE DEF loopVars, timerVars, ioVars, flowVars
<1>0. cancelled \in [Object -> BOOLEAN] /\ t \in Object /\ t # Nothing
  BY ObjectAssumption DEF IInv, ObjectsOK, Object
<1>1. CASE UNCHANGED coreVars
  BY <1>1 DEF coreVars
<1>2. ASSUME NEW h \in Handle, NEW b \in BOOLEAN, CallSoon(h, b)
      PROVE  cancelled'[t] /\ item' # t
  BY <1>0, <1>2, ObjectAssumption DEF CallSoon, ScheduleHandle
<1>3. ASSUME NEW u \in Timer, NEW s \in Interval, NEW b \in BOOLEAN, CallLater(u, s, b)
      PROVE  cancelled'[t] /\ item' # t
  BY <1>3 DEF CallLater, NewTimer, ScheduleTimer
<1>4. ASSUME NEW h \in Handle, AddCallback(h) PROVE cancelled'[t] /\ item' # t
  BY <1>4 DEF AddCallback, ScheduleHandle
<1>5. ASSUME NEW u \in Timer, Cancel(u) PROVE cancelled'[t] /\ item' # t
  BY <1>0, <1>5 DEF Cancel
<1>6. ASSUME NEW u \in Timer, DropTimer(u) \/ ExpireTimer(u)
      PROVE  cancelled'[t] /\ item' # t
  BY <1>6 DEF DropTimer, ExpireTimer
<1>7. CASE SkipItem
  BY <1>7 DEF SkipItem
<1>8. CASE FireItem
  BY <1>8 DEF FireItem, Fires
<1>9. ASSUME NEW e \in {"none", "abort", "error"}, FinishItem(e)
      PROVE  cancelled'[t] /\ item' # t
  BY <1>0, <1>9 DEF FinishItem
<1> QED
  BY <1>1, <1>2, <1>3, <1>4, <1>5, <1>6, <1>7, <1>8, <1>9, QuietOrBusy, Zenon DEF Busy

(* cancel() of a timer that is not firing is final: no state from which it *)
(* could fire is reachable any more.                                       *)
THEOREM CancelIsFinal == Spec => CancelledNeverFires
<1> SUFFICES ASSUME NEW t \in Timer
             PROVE  Spec => [](cancelled[t] /\ item # t => [](item # t))
  BY DEF CancelledNeverFires
<1>1. IInv /\ [Next]_vars => (cancelled[t] /\ item # t => (cancelled[t] /\ item # t)')
  BY CancelledStep
<1> QED
  BY IInvAlways, <1>1, PTL DEF Spec
-----------------------------------------------------------------------------
(* How the loop is woken, with Wakeup.tla next to the loop's own state: it *)
(* does not sleep over what another thread has handed to it, for any       *)
(* number of threads and signals and a self-pipe of any size.              *)

(* A pipe has room for a byte, and the signals can be counted.             *)
PipeOK == Room \in Nat \ {0} /\ IsFiniteSet(Signum)

(* The inductive invariant: what is in the pipe is a number of bytes, and  *)
(* otherwise the property needs nothing but itself, as a thread's entry    *)
(* in the queue comes with one in placed, and the loop begins to wait with *)
(* an empty queue.                                                         *)
WInv ==
  /\ pipe \in 0 .. Room /\ tripped \subseteq Signum
  /\ Wk!WokenForWork

(* What is written fits, and wakes the loop.                               *)
LEMMA WrittenFits ==
  ASSUME PipeOK, NEW bytes \in 0 .. Room, NEW n \in Nat
  PROVE  /\ Wk!Written(bytes, n) \in 0 .. Room
         /\ n > 0 \/ bytes > 0 => Wk!Written(bytes, n) > 0
BY DEF Wk!Written, PipeOK

LEMMA BytesAfterFit ==
  ASSUME PipeOK, tripped \subseteq Signum, NEW bytes \in 0 .. Room
  PROVE  Wk!BytesAfter(bytes) \in 0 .. Room
<1>1. Wk!Noted \subseteq Signum
  BY DEF Wk!Noted
<1>2. Cardinality(Wk!Noted) \in Nat
  BY <1>1, FS_Subset, FS_CardinalityType DEF PipeOK
<1>3. Wk!Cardinality(Wk!Noted) = Cardinality(Wk!Noted)
  BY DEF Wk!Cardinality, Cardinality
<1> QED
  BY <1>2, <1>3, WrittenFits DEF Wk!BytesAfter

LEMMA HandledFit ==
  ASSUME NEW queue, tripped \subseteq Signum, Wk!HandleSignals(queue)
  PROVE  tripped' \subseteq Signum
BY DEF Wk!HandleSignals

LEMMA ForkLoopFits ==
  ASSUME PipeOK, NEW bytes \in 0 .. Room, Wk!CallForkLoop(bytes)
  PROVE  pipe' \in 0 .. Room
BY DEF Wk!CallForkLoop, PipeOK

LEMMA InitWInv == ASSUME PipeOK, Wk!Init PROVE WInv
BY DEF Wk!Init, WInv, Wk!WokenForWork, PipeOK

LEMMA NextWInv ==
  ASSUME PipeOK, WInv, [Wk!Next]_(Wk!vars)
  PROVE  WInv'
<1> USE DEF WInv
<1>1. ASSUME NEW t \in Thread, Wk!CallSoon(t) PROVE WInv'
  BY <1>1 DEF Wk!CallSoon, Wk!WokenForWork, Wk!loopVars, Wk!signalVars, Wk!forkVars
<1>2. ASSUME NEW t \in Thread, Wk!WriteToSelf(t) PROVE WInv'
  <2>1. pipe' \in 0 .. Room /\ pipe' > 0
    BY <1>2, WrittenFits DEF Wk!WriteToSelf
  <2> QED
    BY <1>2, <2>1 DEF Wk!WriteToSelf, Wk!WokenForWork
<1>3. ASSUME NEW s \in Signum, Wk!Deliver(s) PROVE WInv'
  <2>1. pipe' \in 0 .. Room /\ (pipe > 0 => pipe' > 0)
    BY <1>3, WrittenFits DEF Wk!Deliver, PipeOK
  <2>2. tripped' \subseteq Signum
    BY <1>3 DEF Wk!Deliver
  <2> QED
    BY <1>3, <2>1, <2>2 DEF Wk!Deliver, Wk!WokenForWork, Wk!loopVars, Wk!forkVars
<1>4. CASE Wk!HandleTripped
  <2>1. pipe' \in 0 .. Room /\ tripped' \subseteq Signum
    BY <1>4, BytesAfterFit, HandledFit DEF Wk!HandleTripped
  <2>2. wpc' # "poll"
    BY <1>4 DEF Wk!HandleTripped, Wk!InPython, Wk!Leave, Wk!loopVars
  <2> QED
    BY <2>1, <2>2 DEF Wk!WokenForWork
<1>5. ASSUME NEW s \in Signum, Wk!AddSignalHandler(s) \/ Wk!RemoveSignalHandler(s) PROVE WInv'
  BY <1>5
     DEF Wk!AddSignalHandler, Wk!RemoveSignalHandler, Wk!WokenForWork, Wk!loopVars, Wk!forkVars
<1>6. CASE Wk!Fork \/ Wk!Parent
  BY <1>6
     DEF Wk!Fork, Wk!Parent, Wk!InPython, Wk!WokenForWork, Wk!loopVars, Wk!forkVars, Wk!signalVars
<1>7. CASE Wk!Run
  BY <1>7, ForkLoopFits DEF Wk!Run, Wk!WokenForWork
<1>8. CASE Wk!FireItem
  <2>1. pipe' \in 0 .. Room /\ tripped' \subseteq Signum
    BY <1>8, BytesAfterFit, HandledFit DEF Wk!FireItem
  <2> QED
    BY <1>8, <2>1 DEF Wk!FireItem, Wk!WokenForWork, Wk!Leave
<1>9. CASE Wk!Return \/ Wk!Raise
  BY <1>9 DEF Wk!Return, Wk!Raise, Wk!CheckStopSignal, Wk!Leave, Wk!WokenForWork
<1>10. CASE Wk!Poll
  BY <1>10 DEF Wk!Poll, Wk!WokenForWork
<1>11. CASE Wk!ReadFromSelf
  <2>1. pipe - 1 \in 0 .. Room
    BY <1>11 DEF Wk!ReadFromSelf, PipeOK
  <2>2. pipe' \in 0 .. Room /\ tripped' \subseteq Signum
    BY <1>11, <2>1, BytesAfterFit, ForkLoopFits, HandledFit DEF Wk!ReadFromSelf
  <2> QED
    BY <1>11, <2>2 DEF Wk!ReadFromSelf, Wk!CheckStopSignal, Wk!Leave, Wk!WokenForWork
<1>12. CASE Wk!PollEnds
  BY <1>12, ForkLoopFits DEF Wk!PollEnds, Wk!CheckStopSignal, Wk!Leave, Wk!WokenForWork
<1>13. CASE UNCHANGED Wk!vars
  BY <1>13 DEF Wk!vars, Wk!WokenForWork, Wk!loopVars, Wk!signalVars, Wk!forkVars
<1> QED
  BY <1>1, <1>2, <1>3, <1>4, <1>5, <1>6, <1>7, <1>8, <1>9, <1>10, <1>11, <1>12, <1>13
     DEF Wk!Next, Wk!LoopStep

(* The loop waits only while its queue is empty, or while a byte is in the *)
(* self-pipe or about to be written there (call_soon_threadsafe).          *)
THEOREM LoopIsWoken ==
  ASSUME PipeOK
  PROVE  Wk!Spec => []WokenForWork
<1>1. Wk!Init => WInv
  BY InitWInv
<1>2. WInv /\ [Wk!Next]_(Wk!vars) => WInv'
  BY NextWInv
<1>3. WInv => WokenForWork
  BY DEF WInv, WokenForWork
<1> QED
  BY <1>1, <1>2, <1>3, PTL DEF Wk!Spec
=============================================================================
