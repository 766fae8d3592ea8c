---------------------------- MODULE MCJobScheduler ----------------------------
(* The scheduler on a few processes, with the shortest lease its timeout allows. *)
EXTENDS JobScheduler

CONSTANTS none, p1, p2
===============================================================================
