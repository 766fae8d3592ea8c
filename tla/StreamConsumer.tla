---------------------------- MODULE StreamConsumer ----------------------------
(***************************************************************************)
(* adapters/messaging/redisstream/consumer.go: instances of a consumer in  *)
(* one group of one Redis stream.  Each has a goroutine that reads new     *)
(* entries, one that reclaims idle ones, and workers that take entries     *)
(* from an unbuffered channel, claim the task in MySQL, acknowledge the    *)
(* entry and execute.                                                      *)
(*                                                                         *)
(* The stream, its group and the handlers' task table are not in this      *)
(* repository: they are modelled from the commands and calls consumer.go   *)
(* makes, the test's claimOnceHandler and ADR 0006 (a claim is a           *)
(* conditional update).  Any call may succeed, fail, or take effect and    *)
(* lose its reply.                                                         *)
(***************************************************************************)
EXTENDS Integers, FiniteSets

CONSTANTS
  Entry,      \* stream ids, in stream order
  Task,
  TaskOf,     \* the task an entry is about
  Unreadable, \* entries that do not decode or have no handler
  Instance,   \* consumer processes
  Worker,     \* their worker goroutines
  InstanceOf, \* the process of each worker
  ScanLimit,  \* pending entries one XAUTOCLAIM COUNT 1 looks at (10 in Redis)
  MaxLosses   \* bound on how often Redis loses data, for TLC only

ASSUME ConsumerAssumption ==
  /\ Entry \subseteq Nat \ {0}
  /\ TaskOf \in [Entry -> Task]
  /\ Unreadable \subseteq Entry
  /\ InstanceOf \in [Worker -> Instance]
  /\ ScanLimit \in Nat \ {0}

VARIABLES
  entries,       \* Redis: the entries of the stream
  group,         \* Redis: the consumer group exists
  lastAdded,     \* Redis: the largest id used so far
  lastDelivered, \* Redis: the group's last delivered id
  pending,       \* Redis: the group's pending entries
  idle,          \* Redis: pending for ClaimMinIdle since last delivered
  losses,        \* how often Redis has lost data
  claimed,       \* MySQL: tasks whose execution somebody owns
  phase,         \* each instance: new, running, closing, closed or dead
  reader,        \* goroutine readNew of each instance
  reclaimer,     \* goroutine reclaimPending of each instance
  worker,        \* worker goroutines
  executions     \* how often Execute was called for each task, up to 2

redisVars == <<entries, lastAdded, group, lastDelivered, pending, idle, losses>>
goVars == <<phase, reader, reclaimer, worker>>
vars == <<redisVars, claimed, goVars, executions>>

\* 0 stands for no entry, and for the id 0-0.
EntryOrZero == Entry \cup {0}

\* Types: deliveries, cursors and goroutines only name ids of the stream, and what
\* XAUTOCLAIM may hand out is pending (consumer.go).
TypeOK ==
  /\ entries \in SUBSET Entry
  /\ group \in BOOLEAN
  /\ lastAdded \in EntryOrZero
  /\ lastDelivered \in EntryOrZero
  /\ pending \in SUBSET Entry
  /\ idle \in SUBSET pending
  /\ losses \in Nat
  /\ claimed \in SUBSET Task
  /\ phase \in [Instance -> {"new", "running", "closing", "closed", "dead"}]
  /\ reader \in [Instance ->
       [at : {"read", "ensure", "send", "gone"}, entry : EntryOrZero]]
  /\ reclaimer \in [Instance ->
       [at : {"tick", "scan", "ensure", "send", "gone"}, entry : EntryOrZero, next : EntryOrZero]]
  /\ worker \in [Worker ->
       [at : {"idle", "claim", "ack", "execute", "gone"}, entry : EntryOrZero, acquired : BOOLEAN]]
  /\ executions \in [Task -> 0 .. 2]

ReaderAt(p, e) == [at |-> p, entry |-> e]
ReclaimerAt(p, e, next) == [at |-> p, entry |-> e, next |-> next]
WorkerAt(p, e, acquired) == [at |-> p, entry |-> e, acquired |-> acquired]

Init ==
  /\ entries = {} /\ lastAdded = 0 /\ group = FALSE /\ lastDelivered = 0
  /\ pending = {} /\ idle = {} /\ losses = 0
  /\ claimed = {}
  /\ phase = [x \in Instance |-> "new"]
  /\ reader = [x \in Instance |-> ReaderAt("gone", 0)]
  /\ reclaimer = [x \in Instance |-> ReclaimerAt("gone", 0, 0)]
  /\ worker = [w \in Worker |-> WorkerAt("gone", 0, FALSE)]
  /\ executions = [t \in Task |-> 0]

WorkersOf(x) == {w \in Worker : InstanceOf[w] = x}
Live(x) == phase[x] \in {"running", "closing"}
Cancelled(x) == phase[x] = "closing"

-------------------------------------------------------------------------------
(* Redis. *)

\* Some relay's XADD: ids grow.
Add(e) ==
  /\ e > lastAdded
  /\ lastAdded' = e
  /\ entries' = entries \cup {e}
  /\ UNCHANGED <<group, lastDelivered, pending, idle, losses, claimed, goVars, executions>>

\* Redis loses the group, or the stream with it.
LosesData ==
  /\ group /\ losses < MaxLosses
  /\ losses' = losses + 1
  /\ entries' \in {entries, {}}
  /\ group' = FALSE /\ lastDelivered' = 0 /\ pending' = {} /\ idle' = {}
  /\ UNCHANGED <<lastAdded, claimed, goVars, executions>>

\* An entry has been pending for ClaimMinIdle.
BecomesIdle(e) ==
  /\ e \in pending \ idle
  /\ idle' = idle \cup {e}
  /\ UNCHANGED <<entries, lastAdded, group, lastDelivered, pending, losses, claimed, goVars, executions>>

\* ensureGroup: XGROUP CREATE ... 0 MKSTREAM; BUSYGROUP is not an error.
CreateGroup ==
  /\ group' = TRUE
  /\ UNCHANGED <<entries, lastAdded, lastDelivered, pending, idle, losses>>

\* XREADGROUP ... > COUNT 1 delivers e.
Delivers(e) ==
  /\ group
  /\ e \in entries /\ e > lastDelivered
  /\ \A other \in entries : other > lastDelivered => e <= other
  /\ lastDelivered' = e
  /\ pending' = pending \cup {e}
  /\ UNCHANGED <<entries, lastAdded, group, idle, losses>>

\* The pending entries XAUTOCLAIM looks at from id start, in order.
Scanned(start) ==
  {e \in pending : e >= start
     /\ Cardinality({f \in pending : start <= f /\ f < e}) < ScanLimit}

\* The cursor after a scan that stopped at e: the next pending id, or 0-0.
NextCursor(e) ==
  LET rest == {f \in pending : f > e}
  IN  IF rest = {} THEN 0 ELSE CHOOSE f \in rest : \A g \in rest : f <= g

\* XAUTOCLAIM gives e, the first idle entry it looks at, to this consumer.
Reclaims(e, start) ==
  /\ group
  /\ e \in Scanned(start) \cap idle
  /\ \A other \in Scanned(start) \cap idle : e <= other
  /\ idle' = idle \ {e}
  /\ UNCHANGED <<entries, lastAdded, group, lastDelivered, pending, losses>>

-------------------------------------------------------------------------------
(* An instance. *)

\* Start: the group is ensured, then the goroutines start.
Start(x) ==
  /\ phase[x] = "new"
  /\ CreateGroup
  /\ phase' = [phase EXCEPT ![x] = "running"]
  /\ reader' = [reader EXCEPT ![x] = ReaderAt("read", 0)]
  /\ reclaimer' = [reclaimer EXCEPT ![x] = ReclaimerAt("tick", 0, 0)]
  /\ worker' = [w \in Worker |->
       IF InstanceOf[w] = x THEN WorkerAt("idle", 0, FALSE) ELSE worker[w]]
  /\ UNCHANGED <<claimed, executions>>

\* Close cancels the goroutines' context.
Close(x) ==
  /\ phase[x] = "running"
  /\ phase' = [phase EXCEPT ![x] = "closing"]
  /\ UNCHANGED <<redisVars, claimed, reader, reclaimer, worker, executions>>

\* The wait group is down to zero: done is closed and Close returns nil.
Closed(x) ==
  /\ phase[x] = "closing"
  /\ reader[x].at = "gone" /\ reclaimer[x].at = "gone"
  /\ \A w \in WorkersOf(x) : worker[w].at = "gone"
  /\ phase' = [phase EXCEPT ![x] = "closed"]
  /\ UNCHANGED <<redisVars, claimed, reader, reclaimer, worker, executions>>

\* The process ends: killed, or Close gave up at its deadline.
Dies(x) ==
  /\ Live(x)
  /\ phase' = [phase EXCEPT ![x] = "dead"]
  /\ reader' = [reader EXCEPT ![x] = ReaderAt("gone", 0)]
  /\ reclaimer' = [reclaimer EXCEPT ![x] = ReclaimerAt("gone", 0, 0)]
  /\ worker' = [w \in Worker |->
       IF InstanceOf[w] = x THEN WorkerAt("gone", 0, FALSE) ELSE worker[w]]
  /\ UNCHANGED <<redisVars, claimed, executions>>

SetReader(x, r) ==
  /\ reader' = [reader EXCEPT ![x] = r]
  /\ UNCHANGED <<phase, reclaimer, worker>>

\* readNew: XREADGROUP answers with e, or its reply is lost and the loop goes on.
ReadNew(x, e) ==
  /\ reader[x].at = "read"
  /\ Delivers(e)
  /\ SetReader(x, ReaderAt("send", e))
  /\ UNCHANGED <<claimed, executions>>

ReadLost(x, e) ==
  /\ reader[x].at = "read"
  /\ Delivers(e)
  /\ UNCHANGED <<claimed, goVars, executions>>

\* readNew: NOGROUP, then ensureGroup, which may fail too.
ReadNoGroup(x) ==
  /\ reader[x].at = "read" /\ ~group
  /\ SetReader(x, ReaderAt("ensure", 0))
  /\ UNCHANGED <<redisVars, claimed, executions>>

ReadEnsures(x) ==
  /\ reader[x].at = "ensure"
  /\ CreateGroup \/ UNCHANGED redisVars
  /\ SetReader(x, ReaderAt("read", 0))
  /\ UNCHANGED <<claimed, executions>>

\* Fault: a send that does not watch the context.
ReaderReturnsUnlessSending(x) ==
  /\ Cancelled(x)
  /\ reader[x].at \in {"read", "ensure"}
  /\ SetReader(x, ReaderAt("gone", 0))
  /\ UNCHANGED <<redisVars, claimed, executions>>

\* readNew returns once cancelled, dropping an entry no worker took.
ReaderReturns(x) ==
  /\ Cancelled(x)
  /\ reader[x].at \in {"read", "send", "ensure"}
  /\ SetReader(x, ReaderAt("gone", 0))
  /\ UNCHANGED <<redisVars, claimed, executions>>

SetReclaimer(x, r) ==
  /\ reclaimer' = [reclaimer EXCEPT ![x] = r]
  /\ UNCHANGED <<phase, reader, worker>>

\* reclaimPending: the ticker fires.
Tick(x) ==
  /\ reclaimer[x].at = "tick"
  /\ SetReclaimer(x, ReclaimerAt("scan", 0, 0))
  /\ UNCHANGED <<redisVars, claimed, executions>>

\* reclaim: XAUTOCLAIM answers with e and a cursor.
Reclaim(x, e) ==
  /\ reclaimer[x].at = "scan"
  /\ Reclaims(e, reclaimer[x].next)
  /\ SetReclaimer(x, ReclaimerAt("send", e, NextCursor(e)))
  /\ UNCHANGED <<claimed, executions>>

\* reclaim: the reply is lost after e was claimed, and reclaim returns.
ReclaimLost(x, e) ==
  /\ reclaimer[x].at = "scan"
  /\ Reclaims(e, reclaimer[x].next)
  /\ SetReclaimer(x, ReclaimerAt("tick", 0, 0))
  /\ UNCHANGED <<claimed, executions>>

\* reclaim: no entry claimed, which ends the pass even if the cursor says that
\* there are more; or an error.
ReclaimEnds(x) ==
  /\ reclaimer[x].at = "scan"
  /\ SetReclaimer(x, ReclaimerAt("tick", 0, 0))
  /\ UNCHANGED <<redisVars, claimed, executions>>

ReclaimNoGroup(x) ==
  /\ reclaimer[x].at = "scan" /\ ~group
  /\ SetReclaimer(x, ReclaimerAt("ensure", 0, 0))
  /\ UNCHANGED <<redisVars, claimed, executions>>

ReclaimEnsures(x) ==
  /\ reclaimer[x].at = "ensure"
  /\ CreateGroup \/ UNCHANGED redisVars
  /\ SetReclaimer(x, ReclaimerAt("tick", 0, 0))
  /\ UNCHANGED <<claimed, executions>>

ReclaimerReturns(x) ==
  /\ Cancelled(x)
  /\ reclaimer[x].at # "gone"
  /\ SetReclaimer(x, ReclaimerAt("gone", 0, 0))
  /\ UNCHANGED <<redisVars, claimed, executions>>

\* sendWork: a worker at its select receives the entry.
ReaderSends(w) ==
  LET x == InstanceOf[w] IN
  /\ worker[w].at = "idle" /\ reader[x].at = "send"
  /\ worker' = [worker EXCEPT ![w] = WorkerAt("claim", reader[x].entry, FALSE)]
  /\ reader' = [reader EXCEPT ![x] = ReaderAt("read", 0)]
  /\ UNCHANGED <<redisVars, claimed, phase, reclaimer, executions>>

\* Fault: one entry per tick, always from the start.
AfterSendOnce(r) == ReclaimerAt("tick", 0, 0)

AfterSend(r) ==
  IF r.next = 0 THEN ReclaimerAt("tick", 0, 0) ELSE ReclaimerAt("scan", 0, r.next)

ReclaimerSends(w) ==
  LET x == InstanceOf[w] IN
  /\ worker[w].at = "idle" /\ reclaimer[x].at = "send"
  /\ worker' = [worker EXCEPT ![w] = WorkerAt("claim", reclaimer[x].entry, FALSE)]
  /\ reclaimer' = [reclaimer EXCEPT ![x] = AfterSend(@)]
  /\ UNCHANGED <<redisVars, claimed, phase, reader, executions>>

SetWorker(w, r) ==
  /\ worker' = [worker EXCEPT ![w] = r]
  /\ UNCHANGED <<phase, reader, reclaimer>>

WorkerReturns(w) ==
  /\ Cancelled(InstanceOf[w])
  /\ worker[w].at = "idle"
  /\ SetWorker(w, WorkerAt("gone", 0, FALSE))
  /\ UNCHANGED <<redisVars, claimed, executions>>

Readable(w) == worker[w].entry \notin Unreadable
TaskAt(w) == TaskOf[worker[w].entry]

\* handle: an entry it cannot decode or has no handler for stays pending.
SkipUnreadable(w) ==
  /\ worker[w].at = "claim" /\ ~Readable(w)
  /\ SetWorker(w, WorkerAt("idle", 0, FALSE))
  /\ UNCHANGED <<redisVars, claimed, executions>>

\* handle: handler.Claim answers ClaimAcquired to the first, ClaimIgnored to others.
Claim(w) ==
  /\ worker[w].at = "claim" /\ Readable(w)
  /\ claimed' = claimed \cup {TaskAt(w)}
  /\ SetWorker(w, WorkerAt("ack", worker[w].entry, TaskAt(w) \notin claimed))
  /\ UNCHANGED <<redisVars, executions>>

\* Fault: the entry is acknowledged although Claim failed.
ClaimFailsAcked(w) ==
  /\ worker[w].at = "claim" /\ Readable(w)
  /\ claimed' \in {claimed, claimed \cup {TaskAt(w)}}
  /\ pending' = pending \ {worker[w].entry}
  /\ idle' = idle \ {worker[w].entry}
  /\ SetWorker(w, WorkerAt("idle", 0, FALSE))
  /\ UNCHANGED <<entries, lastAdded, group, lastDelivered, losses, executions>>

\* handle: Claim fails, possibly after its effect, and the entry stays pending.
ClaimFails(w) ==
  /\ worker[w].at = "claim" /\ Readable(w)
  /\ claimed' \in {claimed, claimed \cup {TaskAt(w)}}
  /\ SetWorker(w, WorkerAt("idle", 0, FALSE))
  /\ UNCHANGED <<redisVars, executions>>

\* Fault: ClaimIgnored is treated like ClaimAcquired.
AfterAckAlways(w) ==
  /\ SetWorker(w, WorkerAt("execute", worker[w].entry, TRUE))
  /\ executions' = [executions EXCEPT ![TaskAt(w)] = IF @ < 2 THEN @ + 1 ELSE 2]

\* The execution, or the return, that follows the acknowledgement.
AfterAck(w) ==
  IF worker[w].acquired
  THEN /\ SetWorker(w, WorkerAt("execute", worker[w].entry, TRUE))
       /\ executions' = [executions EXCEPT ![TaskAt(w)] = IF @ < 2 THEN @ + 1 ELSE 2]
  ELSE /\ SetWorker(w, WorkerAt("idle", 0, FALSE))
       /\ UNCHANGED executions

\* handle: XACK; what it answers is only logged.
Ack(w) ==
  /\ worker[w].at = "ack"
  /\ pending' = pending \ {worker[w].entry}
  /\ idle' = idle \ {worker[w].entry}
  /\ AfterAck(w)
  /\ UNCHANGED <<entries, lastAdded, group, lastDelivered, losses, claimed>>

AckFails(w) ==
  /\ worker[w].at = "ack"
  /\ AfterAck(w)
  /\ UNCHANGED <<redisVars, claimed>>

\* handle: Execute returns, with or without an error.
ExecuteReturns(w) ==
  /\ worker[w].at = "execute"
  /\ SetWorker(w, WorkerAt("idle", 0, FALSE))
  /\ UNCHANGED <<redisVars, claimed, executions>>

-------------------------------------------------------------------------------
InstanceStep(x) ==
  \/ Start(x) \/ Close(x) \/ Closed(x) \/ Dies(x)
  \/ ReadNoGroup(x) \/ ReadEnsures(x) \/ ReaderReturns(x)
  \/ Tick(x) \/ ReclaimEnds(x) \/ ReclaimNoGroup(x) \/ ReclaimEnsures(x)
  \/ ReclaimerReturns(x)
  \/ \E e \in Entry : ReadNew(x, e) \/ ReadLost(x, e) \/ Reclaim(x, e) \/ ReclaimLost(x, e)

WorkerStep(w) ==
  \/ ReaderSends(w) \/ ReclaimerSends(w) \/ WorkerReturns(w)
  \/ SkipUnreadable(w) \/ Claim(w) \/ ClaimFails(w)
  \/ Ack(w) \/ AckFails(w) \/ ExecuteReturns(w)

Redis == LosesData \/ \E e \in Entry : Add(e) \/ BecomesIdle(e)

Next ==
  \/ Redis
  \/ \E x \in Instance : InstanceStep(x)
  \/ \E w \in Worker : WorkerStep(w)

Spec == Init /\ [][Next]_vars

\* Time passes, goroutines are scheduled, and a call that is made for ever is
\* answered in the end: losing every reply to XREADGROUP is allowed, because the
\* entry is pending then, but not losing every reply to XAUTOCLAIM or every Claim.
\* Blocked senders on one channel are served in order, so none is passed over for ever.
Fairness ==
  /\ \A e \in Entry : WF_vars(BecomesIdle(e))
  /\ \A x \in Instance :
       /\ WF_vars(\E e \in Entry : ReadNew(x, e) \/ ReadLost(x, e))
       /\ WF_vars(ReadNoGroup(x))
       /\ SF_vars(ReadEnsures(x) /\ group')
       /\ WF_vars(Tick(x))
       /\ WF_vars(ReclaimEnds(x) \/ \E e \in Entry : Reclaim(x, e))
       /\ WF_vars(ReclaimEnsures(x))
       /\ \A e \in Entry : SF_vars(Reclaim(x, e))
       /\ SF_vars(\E w \in WorkersOf(x) : ReaderSends(w))
       /\ SF_vars(\E w \in WorkersOf(x) : ReclaimerSends(w))
       /\ WF_vars(ReaderReturns(x)) /\ WF_vars(ReclaimerReturns(x)) /\ WF_vars(Closed(x))
  /\ \A w \in Worker :
       /\ WF_vars(SkipUnreadable(w))
       /\ WF_vars(ClaimFails(w))
       /\ \A e \in Entry : SF_vars(worker[w].entry = e /\ Claim(w))
       /\ WF_vars(Ack(w) \/ AckFails(w))
       /\ WF_vars(ExecuteReturns(w))
       /\ SF_vars(WorkerReturns(w))

FairSpec == Spec /\ Fairness

-------------------------------------------------------------------------------
(* Properties. *)

Undelivered(e) == ~group \/ e > lastDelivered

\* No wake-up is lost between Redis and MySQL: an entry of the stream is still
\* to be delivered, or pending and so to be reclaimed, or its task has been
\* claimed.  It is never acknowledged before that, and never at all when it
\* cannot be read (consumer.go:238-292).
NoLostWakeUp ==
  \A e \in entries :
    \/ Undelivered(e)
    \/ e \in pending
    \/ e \notin Unreadable /\ TaskOf[e] \in claimed

\* Redelivery, reclaiming by another instance, lost acknowledgements and a group
\* recreated at 0 never make a task execute twice
\* (TestConsumerExecutesDuplicateTaskOnlyOnce).
ExecutedOnce ==
  \A t \in Task :
    /\ executions[t] <= 1
    /\ executions[t] + Cardinality({w \in Worker :
         worker[w].at = "ack" /\ worker[w].acquired /\ TaskAt(w) = t}) <= 1
    /\ executions[t] = 1 => t \in claimed

\* As long as some instance keeps running, every readable entry leads to its task
\* being claimed, unless Redis loses it first: unreadable entries that stay
\* pending for ever do not keep XAUTOCLAIM from the ones behind them.
EntryLeadsToClaim ==
  \A x \in Instance :
    <>[](phase[x] = "running") =>
      \A e \in Entry \ Unreadable :
        (e \in entries) ~> (e \notin entries \/ TaskOf[e] \in claimed)

\* Close returns in the end unless the process dies first: every goroutine leaves
\* whatever it waits on, a send without a receiver included.
CloseReturns ==
  \A x \in Instance : (phase[x] = "closing") ~> (phase[x] \in {"closed", "dead"})

-------------------------------------------------------------------------------
(* Why the two hold: the inductive invariant. *)

\* What a goroutine has in hand is an entry.
HandsHoldEntries ==
  /\ \A x \in Instance : reader[x].at = "send" => reader[x].entry \in Entry
  /\ \A x \in Instance : reclaimer[x].at = "send" => reclaimer[x].entry \in Entry
  /\ \A w \in Worker : worker[w].at \in {"claim", "ack"} => worker[w].entry \in Entry

\* An entry that is added comes after whatever was delivered, and a group that is
\* created delivers from the start.
DeliveredIsPast ==
  /\ \A e \in entries : e <= lastAdded
  /\ lastDelivered <= lastAdded
  /\ ~group => lastDelivered = 0

\* The acknowledgement comes after the claim.
AckIsClaimed ==
  \A w \in Worker : worker[w].at = "ack" => Readable(w) /\ TaskAt(w) \in claimed

\* Who will execute is the only one, and nobody has before.
WillExecute(w) == worker[w].at = "ack" /\ worker[w].acquired
OwnerIsAlone ==
  /\ \A t \in Task : executions[t] <= 1 /\ (executions[t] = 1 => t \in claimed)
  /\ \A w \in Worker : WillExecute(w) => executions[TaskAt(w)] = 0
  /\ \A w, v \in Worker : WillExecute(w) /\ WillExecute(v) /\ TaskAt(w) = TaskAt(v) => w = v

IInv ==
  TypeOK /\ HandsHoldEntries /\ DeliveredIsPast /\ AckIsClaimed /\ OwnerIsAlone /\ NoLostWakeUp
===============================================================================
