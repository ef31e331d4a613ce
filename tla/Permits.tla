------------------------------- MODULE Permits -------------------------------
(***************************************************************************)
(* What Semaphore, BoundedSemaphore and Lock of src/locks.c promise: as    *)
(* many greenlets are in as there are permits, one that has to wait may    *)
(* give up, and as long as there is a permit and somebody waiting for it,  *)
(* somebody will be let in.  Who it is, is not promised: the waiters are a *)
(* Python set, and newcomers may overtake them.                            *)
(***************************************************************************)
EXTENDS Integers

CONSTANTS Greenlet, Value

VARIABLES
  permits,
  place     \* of each greenlet: "out", "waiting" or "in"

vars == <<permits, place>>

Init == permits = Value /\ place = [g \in Greenlet |-> "out"]

Enter(g) ==
  /\ place[g] # "in"
  /\ permits > 0
  /\ permits' = permits - 1
  /\ place' = [place EXCEPT ![g] = "in"]

Wait(g) ==
  /\ place[g] = "out"
  /\ permits <= 0
  /\ place' = [place EXCEPT ![g] = "waiting"]
  /\ UNCHANGED permits

GiveUp(g) ==
  /\ place[g] = "waiting"
  /\ place' = [place EXCEPT ![g] = "out"]
  /\ UNCHANGED permits

Leave(g) ==
  /\ place[g] = "in"
  /\ permits' = permits + 1
  /\ place' = [place EXCEPT ![g] = "out"]

AddPermit == permits' = permits + 1 /\ UNCHANGED place

Next == AddPermit \/ \E g \in Greenlet : Enter(g) \/ Wait(g) \/ GiveUp(g) \/ Leave(g)

Admit == \E g \in Greenlet : place[g] = "waiting" /\ Enter(g)

Safe == Init /\ [][Next]_vars

Spec == Safe /\ WF_vars(Admit)
=============================================================================
