-------------------------- MODULE JobSchedulerProofs --------------------------
(***************************************************************************)
(* Theorems about JobScheduler, for every set of processes and every       *)
(* timeout and lease that Register accepts, and about JobRole, in which    *)
(* they hold too.                                                          *)
(***************************************************************************)
EXTENDS JobRole, TLAPS

\* The ticker fires before the lease it renews has run out.
LEMMA IntervalFits == Interval \in Nat /\ 0 < Interval /\ Interval < Lease /\ Lease \in Nat
BY SchedulerAssumption DEF Interval

\* What a countdown does in one unit of time.
LEMMA LessFacts ==
  ASSUME NEW n \in Nat
  PROVE  /\ Less(n) \in Nat /\ Less(n) <= n
         /\ n > 0 => Less(n) = n - 1
BY DEF Less

\* A free lock row and idle processes satisfy the invariant.
LEMMA Initial == Init => IInv
<1>. SUFFICES ASSUME Init PROVE IInv
  OBVIOUS
<1>1. TypeOK
  BY SchedulerAssumption, IntervalFits DEF Init, TypeOK, Control
<1>2. LiveOwnsLease /\ RunIsRecorded /\ HeartbeatInTime
  BY DEF Init, LiveOwnsLease, RunIsRecorded, HeartbeatInTime, Holding
<1>3. QED
  BY <1>1, <1>2 DEF IInv

\* Steps of one process that leave the lock alone.
LEMMA LockKept ==
  ASSUME IInv, NEW p \in Process,
         Begin(p) \/ Started(p) \/ NotStarted(p) \/ RunReturns(p) \/ Finish(p)
           \/ StopHeartbeat(p) \/ BaseCancelled(p) \/ Dies(p)
  PROVE  IInv'
<1>. USE SchedulerAssumption, IntervalFits
<1>. USE DEF IInv
<1>1. CASE Begin(p)
  <2>1. TypeOK'
    BY <1>1 DEF Begin, TypeOK, Goto, Control, lockVars
  <2>2. LiveOwnsLease' /\ RunIsRecorded' /\ HeartbeatInTime'
    BY <1>1 DEF Begin, TypeOK, Goto, lockVars, Holding, LiveOwnsLease,
         RunIsRecorded, HeartbeatInTime
  <2>3. QED
    BY <2>1, <2>2
<1>2. CASE Started(p) \/ NotStarted(p) \/ RunReturns(p) \/ Finish(p) \/ StopHeartbeat(p)
  <2>1. TypeOK'
    BY <1>2 DEF Started, NotStarted, RunReturns, Finish, StopHeartbeat, TypeOK, Goto,
         Control, lockVars
  <2>2. LiveOwnsLease'
    BY <1>2 DEF Started, NotStarted, RunReturns, Finish, StopHeartbeat, TypeOK, Goto,
         lockVars, Holding, LiveOwnsLease
  <2>3. RunIsRecorded'
    BY <1>2 DEF Started, NotStarted, RunReturns, Finish, StopHeartbeat, TypeOK, Goto,
         RunIsRecorded
  <2>4. HeartbeatInTime'
    BY <1>2 DEF Started, NotStarted, RunReturns, Finish, StopHeartbeat, TypeOK, Goto,
         lockVars, HeartbeatInTime
  <2>5. QED
    BY <2>1, <2>2, <2>3, <2>4
<1>3. CASE BaseCancelled(p)
  BY <1>3 DEF BaseCancelled, Cancel, lockVars, TypeOK, Holding, LiveOwnsLease,
       RunIsRecorded, HeartbeatInTime
<1>4. CASE Dies(p)
  <2>1. TypeOK'
    BY <1>4 DEF Dies, Cancel, Goto, Control, lockVars, TypeOK
  <2>2. LiveOwnsLease' /\ RunIsRecorded' /\ HeartbeatInTime'
    BY <1>4 DEF Dies, Cancel, Goto, lockVars, TypeOK, Holding, LiveOwnsLease,
         RunIsRecorded, HeartbeatInTime
  <2>3. QED
    BY <2>1, <2>2
<1>5. QED
  BY <1>1, <1>2, <1>3, <1>4

\* A process may take the lock only when no other has a live run, nor a heartbeat
\* that is on time.
LEMMA FreeMeansNobody ==
  ASSUME IInv, NEW p \in Process, Free(p), NEW q \in Process, q # p
  PROVE  /\ ~(Holding(q) /\ live[q])
         /\ ~(prompt /\ heartbeat[q])
<1>1. /\ ctxLeft[q] \in Nat /\ beatLeft[q] \in Nat /\ leaseLeft \in Nat
  BY SchedulerAssumption, IntervalFits DEF IInv, TypeOK
<1>2. leaseLeft = 0 \/ owner # q
  BY DEF Free
<1>3. QED
  BY <1>1, <1>2 DEF IInv, LiveOwnsLease, HeartbeatInTime

\* store.go TryAcquire, answered or not: the new lease outlasts the context, which
\* started earlier, and no other live run can lose its lease by it.
LEMMA TryAcquireKeeps ==
  ASSUME IInv, NEW p \in Process, Acquired(p) \/ NotAcquired(p)
  PROVE  IInv'
<1>. USE SchedulerAssumption, IntervalFits
<1>. USE DEF IInv
<1>1. CASE Acquired(p)
  <2>1. TypeOK'
    BY <1>1 DEF Acquired, TakeLock, Goto, Control, TypeOK
  <2>2. \A q \in Process \ {p} :
          /\ ~(Holding(q) /\ live[q]) /\ ~(prompt /\ heartbeat[q])
          /\ at'[q] = at[q] /\ live'[q] = live[q] /\ heartbeat'[q] = heartbeat[q]
    BY <1>1, FreeMeansNobody DEF Acquired, Goto, TypeOK
  <2>3. owner' = p /\ leaseLeft' = Lease /\ at'[p] = "start" /\ beatLeft'[p] = Interval
        /\ ctxLeft'[p] \in 0 .. Timeout /\ record' = record /\ prompt' = prompt
    BY <1>1 DEF Acquired, TakeLock, Goto, TypeOK
  <2>4. LiveOwnsLease'
    BY <2>2, <2>3 DEF LiveOwnsLease, Holding
  <2>5. RunIsRecorded'
    BY <2>2, <2>3 DEF RunIsRecorded
  <2>6. HeartbeatInTime'
    BY <2>2, <2>3 DEF HeartbeatInTime
  <2>7. QED
    BY <2>1, <2>4, <2>5, <2>6
<1>2. CASE NotAcquired(p)
  <2>1. TypeOK'
    BY <1>2 DEF NotAcquired, TakeLock, Goto, Control, TypeOK, lockVars
  <2>2. /\ at'[p] = "idle" /\ at[p] = "acquire"
        /\ \A q \in Process \ {p} : at'[q] = at[q]
        /\ UNCHANGED <<live, ctxLeft, heartbeat, beatLeft, record, base, prompt>>
    BY <1>2 DEF NotAcquired, Goto, TypeOK
  <2>3. UNCHANGED lockVars \/
          \A q \in Process \ {p} : ~(Holding(q) /\ live[q]) /\ ~(prompt /\ heartbeat[q])
    BY <1>2, FreeMeansNobody DEF NotAcquired
  <2>4. LiveOwnsLease'
    BY <2>2, <2>3 DEF LiveOwnsLease, Holding, lockVars
  <2>5. RunIsRecorded'
    BY <2>2 DEF RunIsRecorded
  <2>6. HeartbeatInTime'
    BY <2>2, <2>3 DEF HeartbeatInTime, lockVars
  <2>7. QED
    BY <2>1, <2>4, <2>5, <2>6
<1>3. QED
  BY <1>1, <1>2

\* store.go Release: only the owner frees the row, and its run is over by then.
LEMMA ReleaseKeeps ==
  ASSUME IInv, NEW p \in Process, Release(p)
  PROVE  IInv'
<1>. USE SchedulerAssumption, IntervalFits
<1>. USE DEF IInv
<1>1. TypeOK'
  BY DEF Release, Cancel, Goto, Control, TypeOK, lockVars
<1>2. /\ at[p] = "release" /\ at'[p] = "idle"
      /\ \A q \in Process \ {p} : at'[q] = at[q] /\ live'[q] = live[q]
      /\ UNCHANGED <<ctxLeft, heartbeat, beatLeft, record, base, prompt>>
      /\ owner # p => UNCHANGED lockVars
  BY DEF Release, Cancel, Goto, TypeOK
<1>3. LiveOwnsLease'
  BY <1>2 DEF LiveOwnsLease, Holding, lockVars
<1>4. RunIsRecorded'
  BY <1>2 DEF RunIsRecorded
<1>5. HeartbeatInTime'
  BY <1>2 DEF HeartbeatInTime, lockVars
<1>6. QED
  BY <1>1, <1>3, <1>4, <1>5

\* store.go Renew: the lease only grows, or the run is cancelled.
LEMMA HeartbeatKeeps ==
  ASSUME IInv, NEW p \in Process, Renew(p) \/ RenewFails(p)
  PROVE  IInv'
<1>. USE SchedulerAssumption, IntervalFits
<1>. USE DEF IInv
<1>1. TypeOK'
  <2>1. leaseLeft' \in 0 .. Lease /\ owner' = owner
    BY DEF Renew, RenewFails, Renews, TypeOK, lockVars
  <2>2. beatLeft' \in [Process -> 0 .. Interval]
    BY DEF Renew, RenewFails, TypeOK
  <2>3. live' \in [Process -> BOOLEAN] /\ heartbeat' \in [Process -> BOOLEAN]
    BY DEF Renew, RenewFails, Cancel, TypeOK
  <2>4. UNCHANGED <<at, ctxLeft, record, base>> /\ prompt' \in BOOLEAN
    BY DEF Renew, RenewFails, TypeOK
  <2>5. QED
    BY <2>1, <2>2, <2>3, <2>4 DEF TypeOK
<1>2. /\ UNCHANGED <<at, ctxLeft, record, base, owner>> /\ (prompt' => prompt)
      /\ leaseLeft' = leaseLeft \/ (owner = p /\ leaseLeft' = Lease)
      /\ \A q \in Process : live'[q] => live[q]
      /\ \A q \in Process : heartbeat'[q] =>
           heartbeat[q] /\ (beatLeft'[q] = beatLeft[q] \/ (q = p /\ leaseLeft' = Lease /\ beatLeft'[q] = Interval))
  BY DEF Renew, RenewFails, Renews, Cancel, TypeOK, lockVars
<1>3. \A q \in Process : ctxLeft[q] \in 0 .. Timeout /\ beatLeft[q] \in 0 .. Interval
  BY DEF TypeOK
<1>4. LiveOwnsLease'
  BY <1>2, <1>3 DEF LiveOwnsLease, Holding
<1>5. RunIsRecorded'
  BY <1>2 DEF RunIsRecorded
<1>6. HeartbeatInTime'
  BY <1>2, <1>3 DEF HeartbeatInTime
<1>7. QED
  BY <1>1, <1>4, <1>5, <1>6

\* Time passes for the lease and the contexts alike, so the lease stays ahead.
LEMMA TickKeeps == ASSUME IInv, Tick PROVE IInv'
<1>. USE SchedulerAssumption, IntervalFits
<1>. USE DEF IInv
<1>1. TypeOK'
  BY DEF Tick, TypeOK, Less
<1>2. /\ UNCHANGED <<owner, at, heartbeat, record, base>>
      /\ leaseLeft \in Nat /\ leaseLeft' = Less(leaseLeft)
      /\ \A p \in Process :
           /\ ctxLeft[p] \in Nat /\ ctxLeft'[p] = Less(ctxLeft[p])
           /\ beatLeft[p] \in Nat /\ beatLeft'[p] = Less(beatLeft[p])
           /\ live'[p] = (live[p] /\ ctxLeft[p] > 1)
  BY DEF Tick, TypeOK
<1>3. prompt' => prompt /\ \A p \in Process : ~HeartbeatDue(p)
  BY DEF Tick
<1>4. LiveOwnsLease'
  <2>. SUFFICES ASSUME NEW p \in Process, Holding(p)', live'[p]
                PROVE  owner' = p /\ ctxLeft'[p] < leaseLeft'
    BY DEF LiveOwnsLease
  <2>1. owner = p /\ ctxLeft[p] < leaseLeft /\ ctxLeft[p] > 1
    BY <1>2 DEF LiveOwnsLease, Holding
  <2>2. QED
    BY <1>2, <2>1, LessFacts
<1>5. RunIsRecorded'
  BY <1>2 DEF RunIsRecorded
<1>6. HeartbeatInTime'
  <2>. SUFFICES ASSUME NEW p \in Process, heartbeat'[p], prompt'
                PROVE  beatLeft'[p] < leaseLeft'
    BY <1>2, <1>3 DEF HeartbeatInTime
  <2>1. beatLeft[p] > 0 /\ beatLeft[p] < leaseLeft
    BY <1>2, <1>3 DEF Tick, HeartbeatDue, HeartbeatInTime
  <2>2. QED
    BY <1>2, <2>1, LessFacts
<1>7. QED
  BY <1>1, <1>4, <1>5, <1>6

\* Every step keeps the strengthened invariant.
LEMMA Inductive == IInv /\ [Next]_vars => IInv'
<1>. SUFFICES ASSUME IInv, [Next]_vars PROVE IInv'
  OBVIOUS
<1>1. CASE Tick
  BY <1>1, TickKeeps
<1>2. ASSUME NEW p \in Process, Run(p) PROVE IInv'
  BY <1>2, LockKept, TryAcquireKeeps, ReleaseKeeps DEF Run
<1>3. ASSUME NEW p \in Process, Renew(p) \/ RenewFails(p) PROVE IInv'
  BY <1>3, HeartbeatKeeps
<1>4. ASSUME NEW p \in Process, BaseCancelled(p) \/ Dies(p) PROVE IInv'
  BY <1>4, LockKept
<1>5. CASE UNCHANGED vars
  BY <1>5 DEF vars, IInv, TypeOK, LiveOwnsLease, RunIsRecorded, HeartbeatInTime, Holding
<1>6. QED
  BY <1>1, <1>2, <1>3, <1>4, <1>5 DEF Next

\* The strengthened invariant holds for all processes, timeouts and leases.
THEOREM InvariantHolds == Spec => []IInv
BY Initial, Inductive, PTL DEF Spec

\* The lock row and the runs keep their types.
THEOREM TypeCorrect == Spec => []TypeOK
<1>1. IInv => TypeOK
  BY DEF IInv
<1>2. QED
  BY InvariantHolds, <1>1, PTL

\* A live run owns a lease that outlasts it, because Register demands a lease
\* longer than the timeout and the timeout starts first.
THEOREM LiveRunOwnsLease == Spec => []LiveOwnsLease
<1>1. IInv => LiveOwnsLease
  BY DEF IInv
<1>2. QED
  BY InvariantHolds, <1>1, PTL

\* Mutual exclusion: no two processes have a live run of the job.
THEOREM MutualExclusion == Spec => []OneLiveRun
<1>1. IInv => OneLiveRun
  BY DEF IInv, LiveOwnsLease, OneLiveRun
<1>2. QED
  BY InvariantHolds, <1>1, PTL

\* While the job runs, its process has a row that says running.
THEOREM RunsAreRecorded == Spec => []RunIsRecorded
<1>1. IInv => RunIsRecorded
  BY DEF IInv
<1>2. QED
  BY InvariantHolds, <1>1, PTL

\* With prompt heartbeats, one third of the lease apart, the lease never runs out.
THEOREM PromptHeartbeatsSuffice == Spec => []HeartbeatKeepsLease
<1>1. IInv => HeartbeatKeepsLease
  BY SchedulerAssumption, IntervalFits DEF IInv, TypeOK, HeartbeatInTime, HeartbeatKeepsLease
<1>2. QED
  BY InvariantHolds, <1>1, PTL

-------------------------------------------------------------------------------
(* The Job Role. *)

\* The Role runs the scheduler as it is: each step is one of the scheduler's, the
\* return of the start function a cancel of the base context.  So whatever is proved
\* above of JobScheduler's behaviours is so in a Job Role, mutual exclusion included.
THEOREM RoleImplementsScheduler == RoleSafety => Spec
<1>1. RoleInit => Init
  BY DEF RoleInit
<1>2. [RoleNext]_roleVars => [Next]_vars
  <2>1. SUFFICES ASSUME [RoleNext]_roleVars PROVE [Next]_vars
    OBVIOUS
  <2>2. CASE RoleStep
    BY <2>2 DEF RoleStep, Next
  <2>3. ASSUME NEW p \in Process, StartReturns(p) PROVE Next
    BY <2>3 DEF StartReturns, Next
  <2>4. CASE UNCHANGED roleVars
    BY <2>4 DEF roleVars
  <2>. QED  BY <2>1, <2>2, <2>3, <2>4 DEF RoleNext
<1>. QED  BY <1>1, <1>2, PTL DEF RoleSafety, Spec

\* What is proved of the scheduler and what the Role adds to it.
RoleIInv == IInv /\ starting \in [Process -> BOOLEAN] /\ StartedIsCancelled

\* The cancelled context of a start function that has returned stays cancelled, and
\* a run that begins later derives its own from it.
LEMMA StaysCancelled == RoleIInv /\ [RoleNext]_roleVars => StartedIsCancelled'
<1>. SUFFICES ASSUME RoleIInv, [RoleNext]_roleVars, NEW q \in Process, ~starting'[q]
     PROVE  ~base'[q] /\ ~live'[q]
  BY DEF StartedIsCancelled
<1>0. base \in [Process -> BOOLEAN] /\ live \in [Process -> BOOLEAN] /\ starting \in [Process -> BOOLEAN]
  BY DEF RoleIInv, IInv, TypeOK
<1>1. CASE UNCHANGED starting
  <2>0. ~base[q] /\ ~live[q]
    BY <1>1 DEF RoleIInv, StartedIsCancelled
  <2>1. CASE Tick
    BY <2>0, <2>1 DEF Tick
  <2>2. ASSUME NEW p \in Process, Run(p) PROVE ~base'[q] /\ ~live'[q]
    <3>1. CASE Begin(p)
      BY <1>0, <2>0, <3>1 DEF Begin
    <3>2. CASE Acquired(p) \/ NotAcquired(p) \/ Started(p) \/ NotStarted(p) \/ RunReturns(p)
                 \/ Finish(p) \/ StopHeartbeat(p)
      BY <2>0, <3>2 DEF Acquired, NotAcquired, Started, NotStarted, RunReturns, Finish, StopHeartbeat
    <3>3. CASE Release(p)
      BY <1>0, <2>0, <3>3 DEF Release, Cancel
    <3>. QED  BY <2>2, <3>1, <3>2, <3>3 DEF Run
  <2>3. ASSUME NEW p \in Process, Renew(p) \/ RenewFails(p) \/ Dies(p)
        PROVE  ~base'[q] /\ ~live'[q]
    BY <1>0, <2>0, <2>3 DEF Renew, RenewFails, Dies, Cancel
  <2>4. ASSUME NEW p \in Process, StartReturns(p) PROVE FALSE
    BY <1>0, <1>1, <2>4 DEF StartReturns
  <2>5. CASE UNCHANGED roleVars
    BY <2>0, <2>5 DEF roleVars, vars
  <2>. QED  BY <2>1, <2>2, <2>3, <2>4, <2>5 DEF RoleNext, RoleStep
<1>2. ASSUME NEW p \in Process, StartReturns(p) PROVE ~base'[q] /\ ~live'[q]
  <2>1. CASE p = q
    BY <1>0, <1>2, <2>1 DEF StartReturns, BaseCancelled, Cancel
  <2>2. CASE p # q
    BY <1>0, <1>2, <2>2 DEF StartReturns, BaseCancelled, Cancel, RoleIInv, StartedIsCancelled
  <2>. QED  BY <2>1, <2>2
<1>. QED  BY <1>1, <1>2 DEF RoleNext, RoleStep, roleVars

\* The Role's invariant is inductive.
LEMMA RoleInductive == RoleIInv /\ [RoleNext]_roleVars => RoleIInv'
<1>. SUFFICES ASSUME RoleIInv, [RoleNext]_roleVars PROVE RoleIInv'
  OBVIOUS
<1>1. [Next]_vars
  BY DEF RoleNext, RoleStep, StartReturns, Next, roleVars
<1>2. IInv'
  BY <1>1, Inductive DEF RoleIInv
<1>3. (starting \in [Process -> BOOLEAN])'
  BY DEF RoleIInv, RoleNext, RoleStep, StartReturns, roleVars
<1>. QED  BY <1>2, <1>3, StaysCancelled DEF RoleIInv

\* So it holds in every behaviour of the Role.
LEMMA RoleInvariant == RoleSafety => []RoleIInv
<1>1. RoleInit => RoleIInv
  BY Initial DEF RoleInit, RoleIInv, StartedIsCancelled
<1>. QED  BY <1>1, RoleInductive, PTL DEF RoleSafety

\* Why the outbox relay never runs in a Job Role, however many processes there are:
\* once a start function has returned, nothing in that process has a live context.
THEOREM StartedRolesAreCancelled == RoleSafety => []StartedIsCancelled
<1>1. RoleIInv => StartedIsCancelled
  BY DEF RoleIInv
<1>. QED  BY <1>1, RoleInvariant, PTL

\* Then no process starts a job any more, whatever runs gocron begins.
THEOREM JobsStartOnlyWithTheRole == RoleSafety => RunsOnlyWhileStarting
<1>1. RoleIInv /\ [RoleNext]_roleVars
        => [\A p \in Process : at[p] # "run" /\ at'[p] = "run" => starting[p]]_roleVars
  <2>1. SUFFICES ASSUME RoleIInv, RoleNext, NEW q \in Process, at[q] # "run", at'[q] = "run"
                 PROVE  starting[q]
    BY DEF roleVars
  <2>2. at \in [Process -> Control]
    BY <2>1 DEF RoleIInv, IInv, TypeOK
  <2>3. CASE Tick
    BY <2>1, <2>3 DEF Tick
  <2>4. ASSUME NEW p \in Process, Run(p) PROVE starting[q]
    <3>1. CASE Started(p)
      BY <2>1, <2>2, <3>1 DEF Started, Goto, RoleIInv, StartedIsCancelled
    <3>2. CASE ~Started(p)
      BY <2>1, <2>2, <2>4, <3>2 DEF Run, Begin, Acquired, NotAcquired, NotStarted, RunReturns,
         Finish, StopHeartbeat, Release, Goto
    <3>. QED  BY <3>1, <3>2
  <2>5. ASSUME NEW p \in Process, Renew(p) \/ RenewFails(p) \/ Dies(p) \/ StartReturns(p)
        PROVE  starting[q]
    <3>1. CASE Dies(p)
      BY <2>1, <2>2, <3>1 DEF Dies, Goto
    <3>2. CASE ~Dies(p)
      BY <2>1, <2>5, <3>2 DEF Renew, RenewFails, StartReturns, BaseCancelled
    <3>. QED  BY <3>1, <3>2
  <2>. QED  BY <2>1, <2>3, <2>4, <2>5 DEF RoleNext, RoleStep
<1>. QED  BY <1>1, RoleInvariant, PTL DEF RoleSafety, RunsOnlyWhileStarting
===============================================================================
