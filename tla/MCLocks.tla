------------------------------- MODULE MCLocks -------------------------------
(* A condition, a semaphore, an event and a channel side by side.  None    *)
(* reads the state of another, so each is explored while nobody has used   *)
(* the others, the condition on an RLock and on a Lock, the channel with   *)
(* both sizes of its buffer.                                               *)
EXTENDS Condition, Channel
CONSTANTS g1, g2, g3, g4, w1, w2, w3
MCGreenlet == {g1, g2, g3}
MCWaiter == {w1, w2, w3}

VARIABLES
  counter, queued, notifies, armed, seat, extra,
  flag, spot, timed

S == INSTANCE Semaphore WITH
  Greenlet <- {g1, g2, g3, g4}, Value <- 1, Bounded <- FALSE,
  MaxExtra <- 2, MaxNotifies <- 3,
  waiters <- queued, place <- seat

E == INSTANCE Event WITH place <- spot

semaphoreVars == <<counter, queued, notifies, armed, seat, extra>>
eventVars == <<flag, spot, timed>>

ASSUME S!SemaphoreAssumption

MCInit ==
  /\ Init /\ S!Init /\ E!Init /\ InitChannel
  /\ ~reentrant \/ bufsize = 0

ConditionAtRest == Init /\ ~reentrant
SemaphoreAtRest == S!Init
EventAtRest == E!Init
ChannelAtRest == InitChannel /\ bufsize = 0

ConditionStep ==
  /\ SemaphoreAtRest /\ EventAtRest /\ ChannelAtRest
  /\ Next
  /\ UNCHANGED <<semaphoreVars, eventVars, channelVars>>

SemaphoreStep ==
  /\ ConditionAtRest /\ EventAtRest /\ ChannelAtRest
  /\ S!Next
  /\ UNCHANGED <<vars, eventVars, channelVars>>

EventStep ==
  /\ ConditionAtRest /\ SemaphoreAtRest /\ ChannelAtRest
  /\ E!Next
  /\ UNCHANGED <<vars, semaphoreVars, channelVars>>

MessageStep ==
  /\ ConditionAtRest /\ SemaphoreAtRest /\ EventAtRest
  /\ ChannelStep
  /\ UNCHANGED <<vars, semaphoreVars, eventVars>>

MCNext == ConditionStep \/ SemaphoreStep \/ EventStep \/ MessageStep

(* The fairness is that of FairSpec and FairChannelSpec; a condition needs *)
(* none.                                                                   *)
MCSpec ==
  /\ MCInit /\ [][MCNext]_<<vars, semaphoreVars, eventVars, channelVars>>
  /\ WF_semaphoreVars(S!NotifyWaiter)
  /\ \A g \in Greenlet : WF_eventVars(E!Notified(g))
  /\ WF_channelVars(GreenletStep) /\ WF_channelVars(NotifyNext)
  /\ WF_channelVars(NotifyCaller) /\ SF_channelVars(NotifyStart)
-----------------------------------------------------------------------------
(* No permit is lost or made up, whichever way the waits for a semaphore   *)
(* end.                                                                    *)
PermitsConserved == S!PermitsConserved

(* The semaphore keeps the promise of Permits.tla, fairness included.      *)
ImplementsPermits == S!ImplementsPermits

(* Whoever waits for the event when its flag is set returns, even if       *)
(* clear() comes before it is resumed.                                     *)
SetReleasesAll == E!SetReleasesAll
=============================================================================
