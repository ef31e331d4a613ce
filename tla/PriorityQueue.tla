---------------------------- MODULE PriorityQueue ----------------------------
(***************************************************************************)
(* What loop.c relies on when it uses heapq.c: the timers that were pushed *)
(* and not popped are all there, a timer with the earliest deadline is on  *)
(* top, and heappop returns the one that was on top.                       *)
(***************************************************************************)
EXTENDS Naturals

CONSTANTS Timer, NULL,
          seconds \* the deadline of every timer

VARIABLES scheduled, top, popped

vars == <<scheduled, top, popped>>

Earliest(S) ==
  IF S = {} THEN {NULL} ELSE {t \in S : \A u \in S : seconds[t] <= seconds[u]}

Init == scheduled = {} /\ top = NULL /\ popped = NULL

Push(t) ==
  /\ t \notin scheduled
  /\ scheduled' = scheduled \cup {t}
  /\ top' \in Earliest(scheduled')
  /\ UNCHANGED popped

Pop ==
  /\ popped' = top
  /\ scheduled' = scheduled \ {top}
  /\ top' \in Earliest(scheduled')

Next == Pop \/ \E t \in Timer : Push(t)

Spec == Init /\ [][Next]_vars
=============================================================================
