--------------------------- MODULE MCEventLoopLive ---------------------------
(* The event loop with a descriptor and, side by side with it, the way in  *)
(* which threads and signals wake a loop that waits.  Neither reads the    *)
(* other's state, so each is explored while nothing has used the other.    *)
EXTENDS WokenLoop
CONSTANTS h1, t1, f1, a, b
MCHandle == {h1}
MCTimer == {t1}
MCInterval == {1}
MCFd == {f1}
MCThread == {a, b}
MCSignum == {2, 15}

MCInit == Init /\ Wk!Init

MCNext ==
  \/ Wk!Init /\ Next /\ UNCHANGED wvars
  \/ Init /\ Wk!Next /\ UNCHANGED vars

(* Neither loop has a step to take before something uses it, so that the   *)
(* fairness asked of the one is not taken from the other.                  *)
MCSpec ==
  /\ MCInit /\ [][MCNext]_<<vars, wvars>>
  /\ WF_vars(LoopStep)
  /\ WF_wvars(Wk!LoopStep) /\ SF_wvars(Wk!ReadFromSelf)
=============================================================================
