---------------------------------- MODULE Role ----------------------------------
(***************************************************************************)
(* The process of a Job or Consumer Role (bootstrap/job.go,                *)
(* bootstrap/task_consumer.go): it starts its services, sets the readiness *)
(* flag (foundation/health/health.go), serves the management port          *)
(* (foundation/server/server.go) until it is signalled, and stops the      *)
(* services.  A goroutine of its own clears the flag when the signal comes.*)
(***************************************************************************)
EXTENDS Lifecycle

VARIABLES
  program,   \* how far the role's function is
  cancelled, \* the process has been signalled: its context is done
  ready,     \* Registry.ready
  watcher,   \* the goroutine of markNotReadyWhenDone
  busy,      \* a /readyz handler is using the clients
  abandoned  \* history: the server returned without waiting for handlers

roleVars == <<program, cancelled, ready, watcher, busy, abandoned>>
vars == <<managerVars, roleVars>>

\* Types: the manager never turns to a layer that does not exist (manager.go:96,
\* 173), and the program is at a step of job.go.
TypeOK ==
  /\ ManagerTypeOK
  /\ program \in {"starting", "announced", "listening", "serving", "draining", "leaving",
                  "stopping", "exited"}
  /\ cancelled \in BOOLEAN
  /\ ready \in BOOLEAN
  /\ watcher \in {"none", "waiting", "done"}
  /\ busy \in BOOLEAN
  /\ abandoned \in BOOLEAN

Init ==
  /\ ManagerInit
  /\ program = "starting"
  /\ cancelled = FALSE /\ ready = FALSE /\ watcher = "none"
  /\ busy = FALSE /\ abandoned = FALSE

Goto(from, to) == program = from /\ program' = to

\* manager.Start and manager.Stop are called, and do their work.
Manager ==
  /\ \/ program = "starting" /\ StartCalled
     \/ program = "stopping" /\ StopCalled
     \/ Proceeds
  /\ UNCHANGED roleVars

\* SIGTERM.
Cancelled ==
  /\ ~cancelled /\ cancelled' = TRUE
  /\ UNCHANGED <<managerVars, program, ready, watcher, busy, abandoned>>

\* manager.Start has failed and the role's function returns.
StartFailed ==
  /\ at = "down" /\ Goto("starting", "exited")
  /\ UNCHANGED <<managerVars, cancelled, ready, watcher, busy, abandoned>>

\* Fault: the goroutine that clears the flag starts before the flag is set.
SetReadyWatched ==
  /\ at = "up" /\ program = "starting"
  /\ \/ watcher = "none" /\ watcher' = "waiting" /\ UNCHANGED <<program, ready>>
     \/ watcher # "none" /\ program' = "announced" /\ ready' = TRUE /\ UNCHANGED watcher
  /\ UNCHANGED <<managerVars, cancelled, busy, abandoned>>

\* registry.SetReady(true).
SetReady ==
  /\ at = "up" /\ Goto("starting", "announced")
  /\ ready' = TRUE
  /\ UNCHANGED <<managerVars, cancelled, watcher, busy, abandoned>>

MarkNotReadyWhenDone ==
  /\ Goto("announced", "listening")
  /\ watcher' = "waiting"
  /\ UNCHANGED <<managerVars, cancelled, ready, busy, abandoned>>

\* <-ctx.Done() and registry.SetReady(false).
WatcherClears ==
  /\ watcher = "waiting" /\ cancelled
  /\ watcher' = "done" /\ ready' = FALSE
  /\ UNCHANGED <<managerVars, program, cancelled, busy, abandoned>>

\* net.Listen, which fails when the port is taken.
Listen ==
  /\ Goto("listening", "serving") \/ Goto("listening", "leaving")
  /\ UNCHANGED <<managerVars, cancelled, ready, watcher, busy, abandoned>>

\* A /readyz request that finds the flag set starts the checks.
RequestArrives ==
  /\ program = "serving" /\ ready
  /\ busy' = TRUE
  /\ UNCHANGED <<managerVars, program, cancelled, ready, watcher, abandoned>>

\* It answers: the checks are back, or its 750 ms are over.  A check that the
\* handler has stopped waiting for is no longer a handler's.
RequestEnds ==
  /\ busy /\ busy' = FALSE
  /\ UNCHANGED <<managerVars, program, cancelled, ready, watcher, abandoned>>

\* Serve fails: Run returns as it is.
ServeFails ==
  /\ Goto("serving", "leaving")
  /\ abandoned' = TRUE
  /\ UNCHANGED <<managerVars, cancelled, ready, watcher, busy>>

\* ctx.Done: Shutdown stops accepting.
ShutsServer ==
  /\ cancelled /\ Goto("serving", "draining")
  /\ UNCHANGED <<managerVars, cancelled, ready, watcher, busy, abandoned>>

\* Fault: Shutdown is not waited for.
DrainedAtOnce ==
  /\ Goto("draining", "leaving")
  /\ UNCHANGED <<managerVars, cancelled, ready, watcher, busy, abandoned>>

\* Shutdown returns nil.
Drained ==
  /\ ~busy /\ Goto("draining", "leaving")
  /\ UNCHANGED <<managerVars, cancelled, ready, watcher, busy, abandoned>>

\* Fault: Shutdown has no deadline.
DrainNeverTimesOut == FALSE /\ UNCHANGED vars

\* Shutdown's deadline passes first.
DrainTimesOut ==
  /\ busy /\ Goto("draining", "leaving")
  /\ abandoned' = TRUE
  /\ UNCHANGED <<managerVars, cancelled, ready, watcher, busy>>

\* Fault: the services stop before the flag is cleared.
ClearReadyLate ==
  /\ \/ Goto("leaving", "stopping") /\ UNCHANGED ready
     \/ Goto("stopping", "stopping") /\ at = "down" /\ ready' = FALSE
  /\ UNCHANGED <<managerVars, cancelled, watcher, busy, abandoned>>

\* The deferred registry.SetReady(false), before the deferred manager.Stop.
ClearReady ==
  /\ Goto("leaving", "stopping")
  /\ ready' = FALSE
  /\ UNCHANGED <<managerVars, cancelled, watcher, busy, abandoned>>

\* manager.Stop has returned, and the role's function returns.
Exits ==
  /\ at = "down" /\ Goto("stopping", "exited")
  /\ UNCHANGED <<managerVars, cancelled, ready, watcher, busy, abandoned>>

Next ==
  \/ Manager \/ Cancelled \/ StartFailed
  \/ SetReady \/ MarkNotReadyWhenDone \/ WatcherClears \/ Listen
  \/ RequestArrives \/ RequestEnds
  \/ ServeFails \/ ShutsServer \/ Drained \/ DrainTimesOut
  \/ ClearReady \/ Exits

Spec == Init /\ [][Next]_vars

\* Start and stop functions return: those of the roles honour their timeout or
\* have one of their own.  The goroutines and the role's function are scheduled.
\* A handler need not end, nor the port be free.
Fairness ==
  /\ WF_vars(Manager)
  /\ WF_vars(StartFailed \/ SetReady \/ MarkNotReadyWhenDone \/ Listen)
  /\ WF_vars(ShutsServer \/ Drained \/ DrainTimesOut)
  /\ WF_vars(ClearReady \/ Exits)

FairSpec == Spec /\ Fairness

-------------------------------------------------------------------------------
(* Properties. *)

\* While the flag says ready every service is ready, whichever of the two
\* places that clear it comes first (job.go:128-135, lifecycle.go:23-28).
ReadyMeansUp == ready => at = "up" /\ \A s \in Service : state[s] = "ready"

\* Once the signal has cleared the flag nothing sets it again, not even when the
\* signal came while the services were starting (runbook.md:15).
ClearedForGood == watcher = "done" => ~ready

\* No client is closed under a handler that uses it, unless the server has
\* returned without waiting for that handler ("external clients are closed only
\* after the management/application servers have stopped accepting work").
HandlersHaveClients == busy /\ ~abandoned => \A s \in Service : open[s]

\* A signalled process stops its services and exits, whatever it was doing, and
\* whether or not start, stop and the draining of the server succeed.
ShutsDown == cancelled ~> (program = "exited")

\* The inductive strengthening: the manager's own invariant, and what the
\* program's place says of the manager.
ProgramFollowsManager ==
  /\ program \in {"announced", "listening", "serving", "draining", "leaving"} => at = "up"
  /\ program = "stopping" => at \in {"up", "stop", "down"}
  /\ ready => program \in {"announced", "listening", "serving", "draining", "leaving"}
  /\ busy /\ ~abandoned => program \in {"serving", "draining"}
  /\ watcher # "none" => program \notin {"starting", "announced"}

IInv ==
  /\ TypeOK
  /\ LayersInOrder
  /\ OpenUsesOpen
  /\ ProgramFollowsManager
  /\ ClearedForGood
===============================================================================
