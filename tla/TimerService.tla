---------------------------- MODULE TimerService ----------------------------
(***************************************************************************)
(* What the event loop promises about the timers of call_later,            *)
(* call_repeatedly, set_timeout and sleep, whatever else it is asked to do *)
(* and however its runs are suspended, interrupted and started again:      *)
(* never before the deadline, the earliest deadline first, one at a time,  *)
(* never once cancelled, and a repeated one again a period after it        *)
(* returned.  EventLoop.tla is shown to implement it.                      *)
(***************************************************************************)
EXTENDS Naturals

CONSTANTS Timer, Interval

VARIABLES
  phase,     \* of each timer
  deadline,  \* when each timer is due
  period,    \* the period of a repeated timer, 0 for the others
  time       \* in seconds

vars == <<phase, deadline, period, time>>

Init ==
  /\ phase = [t \in Timer |-> "new"]
  /\ deadline = [t \in Timer |-> 0]
  /\ period = [t \in Timer |-> 0]
  /\ time = 0

Arm(t, s, p) ==
  /\ phase[t] = "new"
  /\ phase' = [phase EXCEPT ![t] = "armed"]
  /\ deadline' = [deadline EXCEPT ![t] = time + s]
  /\ period' = [period EXCEPT ![t] = p]
  /\ UNCHANGED time

(* Cancelling does nothing to a timer that is running or has run.          *)
Cancel(t) ==
  /\ phase[t] = "armed"
  /\ phase' = [phase EXCEPT ![t] = "cancelled"]
  /\ UNCHANGED <<deadline, period, time>>

Start(t) ==
  /\ phase[t] = "armed"
  /\ deadline[t] <= time
  /\ \A u \in Timer : /\ phase[u] # "running"
                      /\ phase[u] = "armed" => deadline[t] <= deadline[u]
  /\ phase' = [phase EXCEPT ![t] = "running"]
  /\ UNCHANGED <<deadline, period, time>>

Finish(t) ==
  /\ phase[t] = "running"
  /\ \/ /\ period[t] = 0
        /\ phase' = [phase EXCEPT ![t] = "done"]
        /\ UNCHANGED deadline
     \/ /\ period[t] # 0
        /\ phase' = [phase EXCEPT ![t] = "armed"]
        /\ deadline' = [deadline EXCEPT ![t] = time + period[t]]
  /\ UNCHANGED <<period, time>>

Tick == time' = time + 1 /\ UNCHANGED <<phase, deadline, period>>

Next ==
  \/ \E t \in Timer, s \in Interval : \E p \in {0, s} : Arm(t, s, p)
  \/ \E t \in Timer : Cancel(t) \/ Start(t) \/ Finish(t)
  \/ Tick

Spec == Init /\ [][Next]_vars
=============================================================================
