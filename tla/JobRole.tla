-------------------------------- MODULE JobRole --------------------------------
(***************************************************************************)
(* The Job Role's scheduler service (bootstrap/job.go) started by the      *)
(* lifecycle manager (foundation/lifecycle/manager.go): the scheduler is   *)
(* created with the context of its start function, and callWithTimeout     *)
(* cancels that context when the function returns.                         *)
(***************************************************************************)
EXTENDS JobScheduler

VARIABLES
  starting  \* the scheduler service's start function has not returned

roleVars == <<vars, starting>>

\* Types of the scheduler and of its service.
RoleTypeOK == TypeOK /\ starting \in [Process -> BOOLEAN]

\* The start function has called New(startCtx), Register and Start.
RoleInit ==
  /\ Init
  /\ starting = [p \in Process |-> TRUE]

\* The start function returns nil and callWithTimeout's deferred cancel runs.
StartReturns(p) ==
  /\ starting[p] /\ at[p] # "dead"
  /\ starting' = [starting EXCEPT ![p] = FALSE]
  /\ BaseCancelled(p)

RoleStep ==
  /\ \/ Tick
     \/ \E p \in Process : Run(p) \/ Renew(p) \/ RenewFails(p) \/ Dies(p)
  /\ UNCHANGED starting

RoleNext == RoleStep \/ \E p \in Process : StartReturns(p)

\* The start function does not block.
RoleSafety == RoleInit /\ [][RoleNext]_roleVars
RoleSpec ==
  /\ RoleSafety
  /\ Fairness
  /\ \A p \in Process : WF_roleVars(StartReturns(p))

-------------------------------------------------------------------------------
\* "The Job Role retries unpublished rows" (docs/architecture.md:55): while a Job
\* process lives, the outbox-relay job is run again and again.
RelayKeepsRunning ==
  (\E p \in Process : <>[](at[p] # "dead")) => []<>(\E q \in Process : at[q] = "run")

\* What the Role makes of it: once the start function has returned, the scheduler's
\* context is done, and so is that of every run (bootstrap/job.go:83, scheduler.go:107).
StartedIsCancelled == \A p \in Process : ~starting[p] => ~base[p] /\ ~live[p]

\* A job starts, if ever, while the start function is still running.
RunsOnlyWhileStarting ==
  [][\A p \in Process : at[p] # "run" /\ at'[p] = "run" => starting[p]]_roleVars
===============================================================================
