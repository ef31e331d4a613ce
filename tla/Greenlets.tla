------------------------------ MODULE Greenlets ------------------------------
(* The greenlets of a program, and what stands for none of them.           *)
CONSTANTS Greenlet, Nobody

ASSUME NobodyAssumption == Nobody \notin Greenlet
=============================================================================
