-------------------------------- MODULE Event --------------------------------
(***************************************************************************)
(* Event of src/event.c: a flag and a Condition on a Lock.                 *)
(*                                                                         *)
(* No method of an Event switches greenlets between acquire() and          *)
(* release() of the lock but in wait(), which gives the lock up meanwhile. *)
(* So the lock is free whenever a method starts or is resumed, and each    *)
(* method is a step, wait() one before it waits and one after.  Of the     *)
(* Condition it is used that notify_all() reaches everybody that waits     *)
(* (WaitersReachable of Condition.tla).                                    *)
(***************************************************************************)
CONSTANT Greenlet

VARIABLES
  flag,    \* self->flag
  place,   \* of each greenlet: "out", or in wait(): "waiting" or "notified"
  timed    \* the greenlets whose wait() has a timeout

vars == <<flag, place, timed>>

Init ==
  /\ flag = FALSE
  /\ place = [g \in Greenlet |-> "out"]
  /\ timed = {}
-----------------------------------------------------------------------------
(* set(), by a greenlet or by a callback of the loop.                      *)
Set ==
  /\ flag' = TRUE
  /\ place' = [g \in Greenlet |-> IF place[g] = "waiting" THEN "notified" ELSE place[g]]
  /\ UNCHANGED timed

Clear ==
  /\ flag' = FALSE
  /\ UNCHANGED <<place, timed>>

Return(g) ==
  /\ place' = [place EXCEPT ![g] = "out"]
  /\ timed' = timed \ {g}

(* A wait() with the flag set returns at once, with None, and changes      *)
(* nothing.                                                                *)
WaitStarts(g, hasTimeout) ==
  /\ place[g] = "out"
  /\ ~flag
  /\ place' = [place EXCEPT ![g] = "waiting"]
  /\ timed' = IF hasTimeout THEN timed \cup {g} ELSE timed
  /\ UNCHANGED flag

(* Mutant: a greenlet that is woken looks at the flag again.               *)
NotifiedIfSet(g) ==
  /\ place[g] = "notified"
  /\ flag
  /\ Return(g)
  /\ UNCHANGED flag

Notified(g) ==
  /\ place[g] = "notified"
  /\ Return(g)
  /\ UNCHANGED flag

(* The timeout is thrown, perhaps when the notification is under way.      *)
TimedOut(g) ==
  /\ g \in timed
  /\ Return(g)
  /\ UNCHANGED flag

(* Another exception ends wait().                                          *)
Thrown(g) ==
  /\ place[g] # "out"
  /\ Return(g)
  /\ UNCHANGED flag

Next ==
  \/ Set \/ Clear
  \/ \E g \in Greenlet :
       \/ Notified(g) \/ TimedOut(g) \/ Thrown(g)
       \/ \E hasTimeout \in BOOLEAN : WaitStarts(g, hasTimeout)

Spec == Init /\ [][Next]_vars

(* The loop resumes a greenlet whose semaphore was released.               *)
FairSpec == Spec /\ \A g \in Greenlet : WF_vars(Notified(g))
-----------------------------------------------------------------------------
(* Whoever waits when the flag is set returns, even if clear() comes       *)
(* before it is resumed.                                                   *)
SetReleasesAll ==
  \A g \in Greenlet : flag /\ place[g] # "out" ~> place[g] = "out"
=============================================================================
