------------------------------- MODULE Requests -------------------------------
(* The requests the API serves at once.  A handler asks the database one      *)
(* question after the other and then writes; in between, other requests, of   *)
(* this process or of another replica, do the same.  A request is a record of *)
(* its operation, of the step it has come to, and of what it was told or has  *)
(* read.                                                                      *)
EXTENDS Naturals

CONSTANT Client          \* the requests that may be under way at once

VARIABLES request,       \* what each client's request is doing
          left,          \* bound: requests that may still begin
          stale,         \* clients whose reads another commit has outdated
          raced          \* a client has written what an old read, or none, told it

requestVars == <<request, left, stale, raced>>

Idle == [op |-> "none", step |-> "none"]
Active(p) == request[p] # Idle
At(p, op, step) == request[p].op = op /\ request[p].step = step

(* A request begins with its first read, or with the first lock it takes.     *)
Begins(p, form) ==
  /\ ~Active(p) /\ left > 0
  /\ request' = [request EXCEPT ![p] = form]
  /\ left' = left - 1
  /\ UNCHANGED <<stale, raced>>

(* A request that is one statement or one transaction.                       *)
Once(p) ==
  /\ ~Active(p) /\ left > 0 /\ left' = left - 1
  /\ UNCHANGED <<request, stale, raced>>

Reads(p, form) ==
  /\ request' = [request EXCEPT ![p] = form]
  /\ UNCHANGED <<left, stale, raced>>

To(p, step) == [request[p] EXCEPT !.step = step]

(* The answer.  What the client had read no longer matters.                   *)
Ends(p) == request' = [request EXCEPT ![p] = Idle] /\ UNCHANGED left
Forgets(p) == stale' = stale \ {p} /\ UNCHANGED raced

(* What p commits makes old what these clients' requests have read.           *)
Outdates(p, clients) == stale' = (stale \cup clients) \ {p}
Doing(operations) == {q \in Client : request[q].op \in operations}

(* What p commits is right only if what it has read still is.                 *)
Relies(p) == raced' = (raced \/ p \in stale)

IsPerClient(f) == f = [p \in Client |-> f[p]]
RequestsInit(bound) ==
  /\ request = [p \in Client |-> Idle] /\ left = bound
  /\ stale = {} /\ raced = FALSE
=============================================================================
