------------------------------- MODULE MCOutbox -------------------------------
(* Outbox with three callers: two goroutines of one relay and one of another *)
(* process, which may die.                                                   *)
EXTENDS Outbox

CONSTANTS run, one, other, job, api

Owners == [c \in Caller |-> IF c = other THEN api ELSE job]
===============================================================================
