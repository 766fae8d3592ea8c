------------------------------- MODULE MCJobRole -------------------------------
(* One Job process. *)
EXTENDS JobRole

CONSTANTS none, p1
===============================================================================
