------------------------------- MODULE Monitor -------------------------------
(***************************************************************************)
(* What Condition of src/locks.c promises when it is made on an RLock: one *)
(* greenlet at a time is in the monitor; only that greenlet waits, which   *)
(* lets go of the monitor in the same step, or notifies; and one that has  *)
(* stopped waiting is in the monitor again before its wait() returns.      *)
(* Timeouts end a wait at any time.                                        *)
(***************************************************************************)
CONSTANTS Greenlet, Nobody

VARIABLES
  holder,    \* the greenlet in the monitor
  waiting,   \* those that wait for a notification
  returning  \* those that have stopped waiting and are not in yet

vars == <<holder, waiting, returning>>

Init == holder = Nobody /\ waiting = {} /\ returning = {}

Enter(g) ==
  /\ holder = Nobody
  /\ g \notin waiting \cup returning
  /\ holder' = g
  /\ UNCHANGED <<waiting, returning>>

Exit ==
  /\ holder # Nobody
  /\ holder' = Nobody
  /\ UNCHANGED <<waiting, returning>>

Wait ==
  /\ holder # Nobody
  /\ waiting' = waiting \cup {holder}
  /\ holder' = Nobody
  /\ UNCHANGED returning

(* A notification for greenlets that wait, of which each may miss it by    *)
(* giving up.                                                              *)
Notify ==
  /\ holder # Nobody
  /\ \E woken \in SUBSET waiting :
       /\ waiting' = waiting \ woken
       /\ returning' = returning \cup woken
  /\ UNCHANGED holder

GiveUp(g) ==
  /\ g \in waiting
  /\ waiting' = waiting \ {g}
  /\ \/ holder = Nobody /\ holder' = g /\ UNCHANGED returning
     \/ holder # Nobody /\ returning' = returning \cup {g} /\ UNCHANGED holder

Return(g) ==
  /\ g \in returning
  /\ holder = Nobody
  /\ holder' = g
  /\ returning' = returning \ {g}
  /\ UNCHANGED waiting

(* An exception ends a wait() that is about to return.                     *)
Abandon(g) ==
  /\ g \in returning
  /\ returning' = returning \ {g}
  /\ UNCHANGED <<holder, waiting>>

Next ==
  \/ Exit \/ Wait \/ Notify
  \/ \E g \in Greenlet : Enter(g) \/ GiveUp(g) \/ Return(g) \/ Abandon(g)

Spec == Init /\ [][Next]_vars
=============================================================================
