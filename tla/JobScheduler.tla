----------------------------- MODULE JobScheduler -----------------------------
(***************************************************************************)
(* One scheduled job on several Job processes: run, its heartbeat and its  *)
(* defers in adapters/scheduler/gocron/scheduler.go, and the lock row and  *)
(* run records of adapters/mysql/scheduler/store.go.                       *)
(*                                                                         *)
(* gocron (external) calls run again and again and, in singleton mode,     *)
(* never twice at once in one process.  Every process has its own owner    *)
(* UUID; a restarted one is another member of Process.  Time is discrete   *)
(* and kept as what is left of the lease, of each run's context and until  *)
(* each heartbeat: MySQL's clock and the processes' run at the same rate.  *)
(* A MySQL call may succeed, fail, or take effect and lose its reply, but  *)
(* takes effect, if at all, before the call returns.                       *)
(***************************************************************************)
EXTENDS Integers

CONSTANTS
  Process,   \* Job processes
  NoProcess, \* the empty lease_owner
  Timeout,   \* Job.Timeout
  Lease      \* Job.Lease

\* Register refuses a job whose lease does not exceed its timeout.
ASSUME SchedulerAssumption ==
  /\ NoProcess \notin Process
  /\ Timeout \in Nat \ {0}
  /\ Lease \in Nat /\ Lease > Timeout

VARIABLES
  owner,     \* lease_owner
  leaseLeft, \* time until lease_until, 0 when it has passed
  at,        \* where run is in each process
  live,      \* the run's context is not done
  ctxLeft,   \* time until the run's deadline
  heartbeat, \* the heartbeat goroutine runs
  beatLeft,  \* time until its ticker fires
  record,    \* the process's latest scheduler_job_run row: running, or ended
  base,      \* the context given to New is not cancelled
  prompt     \* history: no heartbeat has been late or failed

lockVars == <<owner, leaseLeft>>
runVars == <<at, live, ctxLeft, heartbeat, beatLeft, record, base, prompt>>
vars == <<owner, leaseLeft, at, live, ctxLeft, heartbeat, beatLeft, record, base, prompt>>

\* Fault: a heartbeat only when the lease is over.
IntervalTooLong == Lease

\* The ticker's period, job.Lease / 3; one unit stands for the second it is
\* replaced by when that is zero.
Interval == IF Lease \div 3 = 0 THEN 1 ELSE Lease \div 3

Control == {"idle", "acquire", "start", "run", "finish", "stop", "release", "dead"}

\* Types: the lease is never longer than Job.Lease, nor a context than Job.Timeout
\* (scheduler.go, store.go).
TypeOK ==
  /\ owner \in Process \cup {NoProcess}
  /\ leaseLeft \in 0 .. Lease
  /\ at \in [Process -> Control]
  /\ live \in [Process -> BOOLEAN]
  /\ ctxLeft \in [Process -> 0 .. Timeout]
  /\ heartbeat \in [Process -> BOOLEAN]
  /\ beatLeft \in [Process -> 0 .. Interval]
  /\ record \in [Process -> {"none", "running", "ended"}]
  /\ base \in [Process -> BOOLEAN]
  /\ prompt \in BOOLEAN

Init ==
  /\ owner = NoProcess /\ leaseLeft = 0
  /\ at = [p \in Process |-> "idle"]
  /\ live = [p \in Process |-> FALSE]
  /\ ctxLeft = [p \in Process |-> 0]
  /\ heartbeat = [p \in Process |-> FALSE]
  /\ beatLeft = [p \in Process |-> 0]
  /\ record = [p \in Process |-> "none"]
  /\ base = [p \in Process |-> TRUE]
  /\ prompt = TRUE

Goto(p, here) == at' = [at EXCEPT ![p] = here]

Less(n) == IF n > 0 THEN n - 1 ELSE 0

-------------------------------------------------------------------------------
(* Time and contexts. *)

HeartbeatDue(p) == heartbeat[p] /\ beatLeft[p] = 0

\* Time passes; a context whose deadline comes is done.
Tick ==
  /\ prompt' = (prompt /\ \A p \in Process : ~HeartbeatDue(p))
  /\ leaseLeft' = Less(leaseLeft)
  /\ ctxLeft' = [p \in Process |-> Less(ctxLeft[p])]
  /\ live' = [p \in Process |-> live[p] /\ ctxLeft[p] > 1]
  /\ beatLeft' = [p \in Process |-> Less(beatLeft[p])]
  /\ UNCHANGED <<owner, at, heartbeat, record, base>>

Cancel(p) == live' = [live EXCEPT ![p] = FALSE]

\* The context given to New is cancelled, and the run's with it.
BaseCancelled(p) ==
  /\ base[p]
  /\ base' = [base EXCEPT ![p] = FALSE]
  /\ Cancel(p)
  /\ UNCHANGED <<lockVars, at, ctxLeft, heartbeat, beatLeft, record, prompt>>

\* The process dies: lock and record stay as they are.
Dies(p) ==
  /\ at[p] # "dead"
  /\ Goto(p, "dead")
  /\ Cancel(p)
  /\ ctxLeft' = [ctxLeft EXCEPT ![p] = 0]
  /\ heartbeat' = [heartbeat EXCEPT ![p] = FALSE]
  /\ beatLeft' = [beatLeft EXCEPT ![p] = 0]
  /\ UNCHANGED <<lockVars, record, base, prompt>>

-------------------------------------------------------------------------------
(* run. *)

\* gocron calls run, which derives its context from the one given to New.
Begin(p) ==
  /\ at[p] = "idle"
  /\ Goto(p, "acquire")
  /\ live' = [live EXCEPT ![p] = base[p]]
  /\ ctxLeft' = [ctxLeft EXCEPT ![p] = Timeout]
  /\ UNCHANGED <<lockVars, heartbeat, beatLeft, record, base, prompt>>

\* Faults: a lock taken whoever holds it, and one never taken from a dead owner.
FreeAlways(p) == TRUE
FreeWhenReleased(p) == owner \in {NoProcess, p}

Free(p) == leaseLeft = 0 \/ owner = p

TakeLock(p) == owner' = p /\ leaseLeft' = Lease

\* TryAcquire updates the row and its reply arrives; the heartbeat starts.
Acquired(p) ==
  /\ at[p] = "acquire" /\ live[p]
  /\ Free(p)
  /\ TakeLock(p)
  /\ Goto(p, "start")
  /\ heartbeat' = [heartbeat EXCEPT ![p] = TRUE]
  /\ beatLeft' = [beatLeft EXCEPT ![p] = Interval]
  /\ UNCHANGED <<live, ctxLeft, record, base, prompt>>

\* TryAcquire finds the lease held by another process, or fails; when only the
\* reply was lost the row is taken and nobody will release it.
NotAcquired(p) ==
  /\ at[p] = "acquire"
  /\ \/ UNCHANGED lockVars
     \/ live[p] /\ Free(p) /\ TakeLock(p)
  /\ Goto(p, "idle")
  /\ UNCHANGED <<live, ctxLeft, heartbeat, beatLeft, record, base, prompt>>

\* Started inserts the record and its reply arrives: the job starts.
Started(p) ==
  /\ at[p] = "start" /\ live[p]
  /\ record' = [record EXCEPT ![p] = "running"]
  /\ Goto(p, "run")
  /\ UNCHANGED <<lockVars, live, ctxLeft, heartbeat, beatLeft, base, prompt>>

\* Started fails, perhaps with the row inserted, and run returns.
NotStarted(p) ==
  /\ at[p] = "start"
  /\ \/ UNCHANGED record
     \/ live[p] /\ record' = [record EXCEPT ![p] = "running"]
  /\ Goto(p, "stop")
  /\ UNCHANGED <<lockVars, live, ctxLeft, heartbeat, beatLeft, base, prompt>>

\* job.Run returns; it may well do so long after its context is done.
RunReturns(p) ==
  /\ at[p] = "run"
  /\ Goto(p, "finish")
  /\ UNCHANGED <<lockVars, live, ctxLeft, heartbeat, beatLeft, record, base, prompt>>

\* Finished writes the outcome, or fails and the row says running for ever.
Finish(p) ==
  /\ at[p] = "finish"
  /\ UNCHANGED record \/ record' = [record EXCEPT ![p] = "ended"]
  /\ Goto(p, "stop")
  /\ UNCHANGED <<lockVars, live, ctxLeft, heartbeat, beatLeft, base, prompt>>

\* The first defer: the heartbeat is stopped and waited for.
StopHeartbeat(p) ==
  /\ at[p] = "stop"
  /\ Goto(p, "release")
  /\ heartbeat' = [heartbeat EXCEPT ![p] = FALSE]
  /\ UNCHANGED <<lockVars, live, ctxLeft, beatLeft, record, base, prompt>>

\* Fault: Release frees the lock whoever holds it.
ReleaseAny(p) ==
  /\ at[p] = "release"
  /\ owner' = NoProcess /\ leaseLeft' = 0
  /\ Goto(p, "idle")
  /\ Cancel(p)
  /\ UNCHANGED <<ctxLeft, heartbeat, beatLeft, record, base, prompt>>

\* The other defers: Release, which needs the row to be the process's, and the
\* cancel of the run's context.
Release(p) ==
  /\ at[p] = "release"
  /\ \/ owner = p /\ owner' = NoProcess /\ leaseLeft' = 0
     \/ UNCHANGED lockVars
  /\ Goto(p, "idle")
  /\ Cancel(p)
  /\ UNCHANGED <<ctxLeft, heartbeat, beatLeft, record, base, prompt>>

-------------------------------------------------------------------------------
(* The heartbeat. *)

Renews(p) == owner = p /\ leaseLeft' = Lease /\ UNCHANGED owner

\* The ticker fires and Renew succeeds, even past the end of the lease if nobody
\* has taken the row since.
Renew(p) ==
  /\ HeartbeatDue(p)
  /\ Renews(p)
  /\ beatLeft' = [beatLeft EXCEPT ![p] = Interval]
  /\ UNCHANGED <<at, live, ctxLeft, heartbeat, record, base, prompt>>

\* Renew fails, with or without effect, or finds the lease lost: it cancels
\* the run's context and there is no further heartbeat.
RenewFails(p) ==
  /\ HeartbeatDue(p)
  /\ \/ prompt' = FALSE /\ (UNCHANGED lockVars \/ Renews(p))
     \/ owner # p /\ UNCHANGED <<lockVars, prompt>>
  /\ Cancel(p)
  /\ heartbeat' = [heartbeat EXCEPT ![p] = FALSE]
  /\ UNCHANGED <<at, ctxLeft, beatLeft, record, base>>

-------------------------------------------------------------------------------
Run(p) ==
  \/ Begin(p) \/ Acquired(p) \/ NotAcquired(p) \/ Started(p) \/ NotStarted(p)
  \/ RunReturns(p) \/ Finish(p) \/ StopHeartbeat(p) \/ Release(p)

Next ==
  \/ Tick
  \/ \E p \in Process :
       Run(p) \/ Renew(p) \/ RenewFails(p) \/ BaseCancelled(p) \/ Dies(p)

Spec == Init /\ [][Next]_vars

\* Time passes, gocron calls run again and again, jobs return (they are short
\* and have a context), and an attempt made for ever succeeds in the end.
Fairness ==
  /\ WF_vars(Tick)
  /\ \A p \in Process :
       /\ WF_vars(Begin(p))
       /\ SF_vars(Acquired(p))
       /\ WF_vars(NotAcquired(p))
       /\ SF_vars(Started(p))
       /\ WF_vars(NotStarted(p))
       /\ WF_vars(RunReturns(p))
       /\ WF_vars(Finish(p))
       /\ WF_vars(StopHeartbeat(p))
       /\ WF_vars(Release(p))
       /\ WF_vars(Renew(p) \/ RenewFails(p))

FairSpec == Spec /\ Fairness

-------------------------------------------------------------------------------
(* Properties. *)

\* run is between a successful TryAcquire and its Release.
Holding(p) == at[p] \in {"start", "run", "finish", "stop", "release"}

\* A run whose context is live owns the lease, and the lease outlasts the
\* context: the timeout counts from before TryAcquire and Lease > Timeout, so
\* neither a pause of the process, nor a lost heartbeat, nor a lost reply
\* lets another process in while this one may still act (scheduler.go:67, 107).
LiveOwnsLease ==
  \A p \in Process : Holding(p) /\ live[p] => owner = p /\ ctxLeft[p] < leaseLeft

\* No two processes work on the job at a time.
OneLiveRun ==
  \A p, q \in Process :
    (Holding(p) /\ live[p] /\ Holding(q) /\ live[q]) => p = q

\* The job never runs unseen: while it does, a row says running, whatever became
\* of the replies to Started and Finished (scheduler.go:152-156).
RunIsRecorded ==
  \A p \in Process : at[p] = "run" => record[p] = "running"

\* With heartbeats on time the lease is kept until they are stopped, even by a
\* job that overruns its timeout (scheduler.go:125-147).
HeartbeatKeepsLease ==
  prompt => \A p \in Process : heartbeat[p] => owner = p /\ leaseLeft > 0

\* What makes the last one inductive: heartbeats run only while the process holds
\* the lease, and the next one comes before the lease ends.
HeartbeatInTime ==
  \A p \in Process : heartbeat[p] =>
    /\ at[p] \in {"start", "run", "finish", "stop"}
    /\ prompt => owner = p /\ beatLeft[p] < leaseLeft

IInv ==
  /\ TypeOK
  /\ LiveOwnsLease
  /\ RunIsRecorded
  /\ HeartbeatInTime

\* The lock left by dead processes, lost replies and failed releases never stops
\* the job for good: as long as some process lives with a live base context, the
\* job is run again and again.
JobKeepsRunning ==
  (\E p \in Process : <>[](at[p] # "dead" /\ base[p])) =>
    []<>(\E q \in Process : at[q] = "run")
===============================================================================
