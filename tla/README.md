# Verification of go-service-main

TLA+ specifications of the concurrent and failure-prone core of this service,
the TLC configurations that check them on small instances, and TLAPS proofs for
every value of their constants. Every definition is translated from the Go
source; `PROJECT.json` ("map") names the lines each one stands for. Paths below
are relative to the repository; `internal/` is left off.

Run a model with `tlc -config X.cfg M`, a proof with `tlapm M.tla`.

## 1. The system

One binary, started in a Role (`bootstrap/`): the **API Role** (administration
HTTP API, realtime events, sessions), the **Job Role** (scheduled jobs, among
them the Outbox relay) and **Task Consumer Roles** (one Redis Stream consumer
each). MySQL holds what must not be lost, Redis holds streams, caches and
sessions. Any number of processes of a Role run at once.

| Component | State | Operations | Interacts with |
|---|---|---|---|
| Transactional Outbox (`adapters/mysql/taskdispatch`) | table rows: status, attempts, next attempt, lease owner and end | Enqueue (in the business transaction), Claim, ClaimOne, MarkPublished, MarkRetry, CleanupPublished | relay; business transactions |
| Relay (`foundation/taskdispatch`) | owner UUID; batch in hand | Run (from cron), PublishOne (right after a commit) | Outbox, producer |
| Producer (`adapters/messaging/redisstream/producer.go`) | readiness flag | Publish, Ready, Close | breaker, Redis |
| Circuit breaker (`foundation/resilience/circuitbreaker`) | state, generation, counters, permits | Execute (acquire, operation, complete), State, Ready | producer |
| Consumer (`redisstream/consumer.go`) | goroutines, unbuffered channel; in Redis: group, pending entries | Start, readNew, reclaimPending, handle, Close | Redis, the handlers' task table |
| Job scheduler (`adapters/scheduler/gocron`, `adapters/mysql/scheduler`) | lock row, run records; context and heartbeat of each run | Register, Start, run, heartbeat, Shutdown, CleanupRuns | MySQL, jobs |
| Service lifecycle (`foundation/lifecycle`) | service states, layers | Start, rollback, Stop | every Role |
| Roles (`bootstrap/`, `foundation/health`, `foundation/server`) | readiness flag, servers, watcher goroutine | start, serve, signal, drain, stop | lifecycle, health probes |
| Configuration (`features/configuration`, its MySQL and Redis adapters) | rows; cache generation and entries | Create, Update, Delete, DeleteMany, Refresh, RefreshKey, GetByKey | MySQL, Redis |
| Identity and sessions (`features/identity`, `adapters/redis/identity`) | accounts; tokens, token families, families of a user, captchas, login counters | Login, Refresh, Logout, Verify, password and status changes, InvalidateUser | MySQL, Redis |
| Organization (`features/organization`, `adapters/mysql/organization`) | department tree: parent and path of each row | Create, Update (moves), Delete | MySQL; accounts and roles refer to it |
| Access control (`features/accesscontrol`, `adapters/mysql/accesscontrol`) | menu tree, roles, grants of menus and departments | SaveMenu, DeleteMenu, SaveRole, SetRoleMenus, SetRoleDepartments, DeleteRoles | MySQL row locks; ends sessions of a role's holders |
| Accounts (`features/identity`, `adapters/mysql/identity`) | accounts, their departments and roles | Save, Delete, Import, Bootstrap | MySQL row locks; ends sessions |
| Dictionary (`features/dictionary`) | dictionaries, items that name them by code | Save (renames), Delete, SaveItem, DeleteItems | change events |
| Notices (`features/notice`) | status and audience of each notice, read marks | Save, Publish, Revoke, Delete, Get, ReadAll | realtime events |
| Realtime (`adapters/realtime/sse`) | connections and their queues; presence in Redis | Connect, Disconnect, Dispatch, heartbeat, Close | notices, dictionary, Redis Pub/Sub |
| Operation audit (`adapters/http/middleware/audit_async.go`) | bounded queue | Record, run, Close | MySQL |
| Rate limiter (`adapters/http/middleware/rate_limit.go`) | token buckets | Allow, eviction | in front of every request |

**How they interact.** A business transaction commits a row of the Outbox; its
creator calls PublishOne, and the Job Role's `outbox-relay` job calls Run every
minute under the scheduler's lease. Both go through the producer and its
breaker to a Redis Stream; a Consumer Role delivers the entry to a handler,
which claims the task in MySQL, and only the claim decides who executes. A
request to the API passes the rate limiter (a login also its window and a
captcha), works on MySQL question by question while other requests do the same,
and after its commit ends sessions in Redis, announces a change to the realtime
bus, and leaves an entry with the audit recorder. All of these are services that the lifecycle manager starts by layers, and that
readiness answers for.

**What is hard.** Nothing in Go's type system or a unit test holds these apart:

- two relays, two Job processes, two consumers at work on the same row, lock or
  entry, each able to outlive its lease without noticing;
- calls to MySQL and Redis that take effect and lose their reply;
- processes that die between any two steps, leaving leases, locks, pending
  entries and half-started services behind;
- completions that arrive after the state they belong to is gone (the breaker's
  permits, a reader's cache fill, a heartbeat, a readiness watcher);
- handlers that read, decide and write in separate statements, next to others
  that lock what they read, and what must then hold between their tables;
- what is sent, marked or invalidated only after the commit it tells of;
- queues that are full, and clients that come and go while they are written to;
- shutdown while all of this is under way.

**What makes each part correct** (all stated in the modules named in section 3):
a committed dispatch is signalled or given up explicitly, never forgotten; a
lease protects its row; half-open places are neither lost nor granted twice, and
readiness recovers; no wake-up is lost and no task executes twice; no two live
runs of a job, and the job goes on; clients outlive their users at start,
rollback and stop; readiness is never claimed falsely; a cache hit is what MySQL
says once the generation has advanced; what refers to a role, a menu or an
account refers to a live one; an item has its dictionary and every change is
announced; what is told of a notice is true; no client misses unnoticed an event
that reached its instance's hub, or gets two of one instance in the wrong order;
an audit entry that was taken is written; no client gets more guesses or tokens
than it is due, and fewer only if its own refused requests overlap.

`PROJECT.json` lists the hazards at their lines, with the properties that cover
them, or why none does yet.

## 2. Layout and plan

| Module | What it is |
|---|---|
| `DurableDispatch` | abstract: what the Outbox promises |
| `Outbox`, `OutboxProofs`, `MCOutbox` | table and relays; implements `DurableDispatch` |
| `CircuitBreaker`, `CircuitBreakerProofs` | the breaker alone |
| `StreamProducer`, `MCStreamProducer` | producer around the breaker (EXTENDS it) |
| `StreamConsumer`, `StreamConsumerProofs`, `MCStreamConsumer` | group, goroutines, claim and acknowledgement |
| `Pipeline` | Outbox, stream and consumers together (EXTENDS `Outbox`, INSTANCE of the consumer) |
| `TaskDelivery` | abstract: what a transaction may rely on for its task; `Pipeline` implements it |
| `JobScheduler`, `JobSchedulerProofs`, `MCJobScheduler` | one job on several processes |
| `JobRole`, `MCJobRole` | the scheduler as the Job Role creates it (EXTENDS `JobScheduler`) |
| `ConfigCache`, `ConfigCacheProofs`, `MCConfigCache` | configuration rows and versioned cache |
| `Sessions`, `SessionsProofs`, `MCSessions` | sessions in Redis under changes of accounts |
| `Lifecycle` | the service manager |
| `Role`, `RoleProofs`, `MCRole` | a Role's process (EXTENDS `Lifecycle`) |
| `Requests` | what every service of the API has in common: requests in steps |
| `Hierarchy` | the two trees with their textual paths (operators only) |
| `Tables` | the tables of the administration, row locks, what follows a commit |
| `Organization`, `AccessControl`, `Accounts` | the three services over `Tables` |
| `Administration`, `MCDepartments` | their composition |
| `Dictionary`, `Notices` | the two services with their events |
| `Realtime` | hub, bus, presence and connections of one instance |
| `ApiRole` | the API's process: servers, readiness, audit recorder, shutdown |
| `Admission` | rate limiter, login window and captchas |
| `MCApi`, `ApiProofs` | all of the API, area by area |

The order was: the path of a task (Outbox, breaker and producer, consumer), who
runs it (scheduler, Job Role), what carries it (lifecycle, roles), the
configuration cache and the sessions, and then the API: the administration's
tables, what it announces, and the process around it. What is left:

1. **The two races of departments** as runs of their own: moves that together
   make a cycle, and the deletion of a department that is being filled (section
   4, known gaps). The invariants except them through `raced`.
2. **Reading side of access control**: how permissions and data scopes of
   several roles are merged.

## 3. The modules and the code

Conventions. An action is a whole handler or the stretch of it between two
points where something else can happen: a call to MySQL or Redis, a channel
operation, a lock. A call that may *fail* is modelled with its three outcomes:
done and answered, not done, done but the answer lost. A definition marked
`Fault:` is not part of any specification: it is a plausible wrong version of
the definition after it, kept to show that the properties notice it
(`PROJECT.json`, "mutants").

### Outbox (and DurableDispatch)

`outbox.go` and `relay.go`. A row is `status`, `attempts`, `due`
(`next_attempt_at <= now`), `leaseOwner`, `leased` (`lease_until > now`); these
two comparisons are all the statements do with time, so the clock is the two
actions `LeaseExpires` and `BackoffElapses`. A caller is a goroutine in
`Relay.Run` or `Relay.PublishOne`: `StartRun`, `Claim` and the loop over the
batch, or `StartPublishOne` and `ClaimOne`; `XAddAnswered`, `XAddUnanswered`
(the Redis client sends again), `PublishFails`; `MarkPublished`, `MarkRetry`,
and `MarkFails`, after which Run gives up with the rest of the batch leased.
`locked` is what `SKIP LOCKED` skips. The claim counts an attempt for every row,
well-formed or not, as the UPDATE does; a row whose message does not decode goes
dead in the same transaction. `CleanupPublished` is the retention job. A crash
takes the callers of one owner away and leaves the rows.

`DurableDispatch` keeps of this a stage per dispatch and the set that has been
signalled; the refinement mapping is `StageOf` and `InStream`.

### CircuitBreaker and StreamProducer

`breaker.go` holds its mutex through `acquire`, `complete` and `State`, so each
is one action; the operation between the first two is not. A permit remembers
state and generation and may be completed many generations later. The producer
adds the readiness flag, stored after `Execute` in a step of its own
(`producer.go:90`), and the health of Redis.

### StreamConsumer

`consumer.go`: per instance a goroutine that reads, one that reclaims, and
workers, with the unbuffered channel between them as a rendezvous
(`ReaderSends`, `ReclaimerSends`). The consumer group is modelled from the
commands the code sends (XGROUP CREATE, XREADGROUP >, XAUTOCLAIM with its
cursor, its COUNT 1 and Redis's limit of entries scanned per call, XACK), the
handlers' task table from the handler interface and ADR 0006; both are external.
`reclaim` stops its pass at the first reply without an entry, and so does
`ReclaimEnds`; the reply to any command may be lost; Redis may lose the group or
the stream, and `ensureGroup` creates it again at id 0. The count of executions
stops at two, which is enough to see the second.

### Pipeline

The whole path of a task: `Outbox` and `StreamConsumer` go their own ways but for
the XADD of a relay, which is one step of both (`Signals`). The dispatches of
`Here` go to the stream in question (`stream_name`), the others to other Roles'
streams; the stream may also get entries of other programs. `TaskOf` says
beforehand of every id what an entry that gets it will be about; since XADD may
skip ids, that excludes nothing. `kept` remembers whether Redis has ever lost
entries: `docs/adr/0006` leaves those to a compensation scan that no feature of
this repository implements. It has no run: it adds no state to its parts but
`kept`, which the runs of the parts cover, and what it says is proved; TLC found
its invariants to hold for one dispatch, one relay that may crash, two entries and
one worker (1.3 M states) before.

`TaskDelivery` is the view of the feature that commits a task: it knows the tasks
committed and how often each has begun to execute, and says that a task begins
only after the commit and once. `Delivery` maps the rows that exist and the workers'
counts to these (`ImplementsTaskDelivery`). That needs something the parts do not
say, that entries about the tasks in question come from relays alone
(`OthersStayApart`): in the code `Relay.publish` (`relay.go:61`) is the only caller
of the producer, and task ids are not shared between programs. Without it TLC has
a counterexample of two steps, an entry from elsewhere and its execution; with it
the refinement holds in all 0.8 M states of an instance of that size.

### JobScheduler and JobRole

`scheduler.go` `run` with its defers and heartbeat, and the statements of
`store.go`. Time is discrete because the timeout, the lease and the heartbeat
period are compared with one another: `leaseLeft`, `ctxLeft`, `beatLeft` count
down together in `Tick`. A job may ignore its context and overrun. The ticker's
period is `Lease \div 3`. `JobRole` adds only what `bootstrap/job.go` does: the
context given to `New` is the start function's, cancelled when it returns.

### Lifecycle and Role

`manager.go`: `Spawn`, the goroutine of each service, `StartReceived`,
`LayerStarted`/`LayerFailed`, `StopLayer` and its way down. A service is seen as
open or not; a start that fails may leave it open, a stop that fails too
(`leaked` remembers those). `Role` is the process of `job.go` and
`task_consumer.go`: readiness flag, `markNotReadyWhenDone`, listen, serve,
drain, defers in their order. A /readyz handler that has timed out no longer
counts as a handler, although its checks may still run; their context is done
and their results are discarded.

### ConfigCache

`service.go`, `repository.go`, `cache.go`. The three tries of INCR and the
request's context are `tries`; `Fill` is the script that compares generations.
A hit ends a request and is not an action: what it would return is `At(k)`, and
the properties speak of that.

### Sessions

`store.go` and the part of `service.go` that calls it. An access and a refresh
token are issued together, so a `Pair` stands for both and a `Family` for the
pairs of one session. What a token's value says (account, family) never changes
and is `accountOf`, `familyOf`; what Redis has is the rest: `accessLeft`,
`refreshLeft`, `familyLeft`, `listLeft` are the lives of the four kinds of keys,
`current` the family's hash, `familiesOf` the account's set, `used` the
tombstone. Each script and the MULTI of `createFamily` is an action: `Create`,
`Rotate`, `Revoke`, `InvalidateUser`. The GETs before them (`Refresh`, `Recheck`,
`Logout`, `VerifyAccount`) are actions of their own, and so is the read of the
row (`Login`, `AccountRead`), since anything may happen in between. A script
whose reply is lost is sent again: a rotation then meets its own tombstone and
ends the family. Changes of accounts commit (`Change`) before their
invalidations, one per id, which may fail unnoticed (`InvalidateFails`). Three
history variables say what the properties are about: `outdated`, `missed`,
`ended`. A family counts as known only once the login that draws it is over;
that is why an invalidation in the middle of a login does not count as ending
it, and the session of such a login survives, as the code allows.

### Requests, and the administration

A handler of the API asks MySQL one question after the other and then writes;
each question and each write is a step of `request[p]`, a record of the
operation, the step it has come to and what it has read, and the requests of two
clients interleave at every step. `Once` is a request of a single statement or
transaction. `stale` and `raced` are the history variables that say when a
request wrote on the strength of a read that another commit had made old; `raced`
also says that a bootstrap named department 1, which it never asks for, when there
was none.

`Tables` has the rows as far as they refer to one another. A transaction is one
step from its first write to its commit; a lock that it takes earlier is held
from a step of its own: `shared` for FOR SHARE, `exclusive` for FOR UPDATE, and
`Rows("grants of menu", {id})` for the range of the index on `menu_id` that
DeleteMenu's first DELETE locks, into which nobody can insert then. A statement
that has to wait is a step that is not enabled. `given` keeps AUTO_INCREMENT from
giving an id twice. `AdminFails` is every refusal and rollback at any step, so
names, codes and status checks, which can only refuse, are left out.

`Hierarchy` keeps `tree_path` as the sequence of its numbers, and MySQL's
REPLACE as what it does to the text: an occurrence may begin at the last digit of
a number and end within one (`Replace`, from the starts that `Occurs` finds and the
entries `Inner` of one occurrence). `Organization`, `AccessControl` and
`Accounts` follow their services step by step: `UpdateDepartment`,
`CheckDescendant`, `PrepareDepartment`, `MoveDepartment`; `UpdateMenu`,
`PrepareMenu`, `ReadMenu`, `MoveMenu`; `LockAssociations` or `LockReferences` and
the write under their locks; an import, which locks nothing (`imported`). A
change of a role goes on, after its commit, to look up the holders (`FindHolders`)
and to end their sessions one by one (`EndSession`, which may fail unnoticed);
DeleteMenu and DeleteRoles, which change grants too, end none, and neither do
their actions. These are steps of the request and no more: a session carries no
grants, VerifyAccount reads them from MySQL for every request
(`features/identity/application/service.go:209`), so nothing is promised about
sessions and grants. What ending an account's sessions does, and when it may come
too late, is in `Sessions`.

### Dictionary and Notices

An item names its dictionary by its code. A rename reads the row twice, once in
Get and once in its transaction, without a lock, and moves the items of the code
it has read; then it announces both codes, one by one (`PublishChanged`).
`dirty` are the codes that have changed since they were last announced, `unsaid`
those whose announcer has failed.

A change of a notice is a transaction that locks the row and looks at its state
again (`Expected` is `lockExpectedState`); what was looked at before it
(`SaveNotice`), the event after it (`Announce`) and the mark after a look
(`MarkRead`) are steps of their own. An audience stands for all that an edit may
change.

### Realtime

`hub.go`, `bus.go` and the handler of a connection: `Connect`, `Touch`, the loop
(`WriteMessage`, `HeartbeatSent`), and the deferred `CheckOnline` and
`UserDisconnected`, between which a new connection may come (`overtaken`). A
dispatch takes a snapshot of the clients and then reaches them one by one
(`Deliver`), with the connections going on in between; a slow client is
disconnected. `publish` delivers here first, then to Redis (`SendRemote`). PUBLISH
is a command that go-redis sends again when its reply is lost, up to `Retries`
times (`adapters/redis/redis.go` leaves MaxRetries at its default), and the envelope carries
no id (`SendUnanswered`): the subscription may hold an event several times, and a
client of another instance then gets it several times, which nothing in the code
prevents and no property denies. The subscription gives back this instance's own
messages as well, which `Consume` skips, and may lose any of them: an event that
Pub/Sub loses is missed silently, and `NoSilentGap` speaks of those that reached
this instance's hub. A presence member lives 45 s and is renewed every 15 s, so `Expire` is
possible only when no open connection renews it: that is an assumption about
time. `owed` and `before` are history.

### ApiRole

RunAPI's `stage`, and in each stage what can happen: the two servers and the
callback they share, which looks at the context and sets the flag in two steps
(`OnServerReady`, `SetsReady`); the watcher; handlers and the recorder's queue
(`OperationAudit`, `TakeEntry`, `Persist`, `StopsDraining`); shutdown, where a
server may leave handlers behind and Close may stop waiting for the recorder
(`gaveUp`). What `Lifecycle` and `Realtime` model in full is here the variables
`clients` and `realtime`.

### Admission

The token bucket of an address, kept by one instance, and the window of a
login key and the captchas, kept by Redis. The limiter's mutex is held by `forKey`
alone, and the bucket has one of its own that ReserveN and CancelAt each take, so
`Allow` is three steps with those of other requests in between: `LooksUp`, with
the cleaning of old buckets; `Reserve`, which takes a token even if there is none;
and `Cancel`, which gives it back unless a reservation made later still stands
(`Returned`, from the library's `restoreTokens`). So refused requests of one
client that overlap lose tokens and leave its bucket below 0: two that reserve at
0 leave it at -1 when the earlier one cancels first. `overlapped` remembers for
which clients a request made its reservation before a refused one had cancelled
its own. A tick is the time in which a bucket gets a token, and none passes within
one `Allow`, whose steps all use the time read at its start; a request that is
held up between these for longer would hand its bucket an older time.
Both scripts are atomic, and go-redis may send one again whose reply was lost
(`AllowLoginUnanswered`, `VerifyUnanswered`). What comes after, the password and
the session, is in `Sessions`. `fair` is what a bucket would hold that is never
dropped and from which only requests that are let in take a token; `passed` and `compared` count what was let through.

## 4. What is checked

| Run | Instance | States | What it shows |
|---|---|---|---|
| `outbox` | 2 rows, 3 callers: `Run` and `PublishOne` of one relay, `Run` of another process that may die; 2 attempts; stream of 2; batch of 2 | 1.7 M | `PublishedWasAdded`, `DeadIsExhausted`, `LeaseProtects`, `ImplementsDurableDispatch` |
| `outbox_live` | 2 rows, the first malformed; batch of 1; two callers | 4 k | `EventuallySettled` |
| `producer` | 3 calls, threshold 2, 2 half-open places, 5 generations | 11 k | `InFlightIsExact`, `ReadinessRecovers` |
| `consumer` | 2 instances with a worker each, 2 entries about one task, 1 loss of data, symmetry between the instances | 4.6 M | `NoLostWakeUp`, `ExecutedOnce` |
| `consumer_live` | 1 instance, an unreadable entry before a readable one, scan of 1 | 12 k | `EntryLeadsToClaim`, `CloseReturns` |
| `scheduler` | 2 processes, timeout 2, lease 3 | 129 k | `LiveOwnsLease`, `OneLiveRun`, `HeartbeatKeepsLease`, `JobKeepsRunning` |
| `job_role` | 1 process | violation | finding 1 |
| `config` | 2 keys, 2 values, a reader, a writer, 2 generations, 1 loss | 1.0 M | `CacheIsFresh`, `StaleEntriesGo` |
| `role` | the Job Role's four services in three layers | 7 k | start, rollback, readiness, draining, stop; `ShutsDown` |
| `sessions` | 2 accounts, 2 sessions, 3 pairs, 2 requests; access time 1, refresh time 2; symmetry in all four sets | 0.6 M | `UsableIsCurrent`, `EndedStaysEnded`, `SessionsMatchAccount` |
| `api` | six areas, below | 1.7 M | `ReferencesAreLive`, `TreesAreSound`; `ItemsHaveDictionary`, `ChangesAreAnnounced`; `PublishedIsFixed`, `WhatIsToldIsTrue`; `NoSilentGap`, `OriginOrder`, `PresenceHolds`; `AuditIsComplete`, `ReadyMeansOpen`; `NeverTooOften`, `KeptOutOnlyByOverlap`, `GuessesAreLimited` |
| `departments` | departments 1, 2, 10, 11, 12; one administrator, two changes | violation | finding 2 |

**Why the bounds are enough.** Two rows give a batch with a rest, an order
between rows and a row that one relay retries while another claims it; three
callers give two goroutines that share an owner (so that the owner column alone
does not tell them apart) and one that does not. With two attempts a row passes
through retry once before it dies. The stream's bound (`MaxStream`) only keeps
behaviours finite: a caller that cannot XADD any more can still fail, so no
behaviour stops there. Five generations are two full rounds of the breaker, so
permits two rounds old exist; with two places and three calls one call always
meets a full half-open breaker. Two instances and two entries about one task are
the case of a repeated XADD, a reclaim and a lost acknowledgement at once. Lease
3 and timeout 2 are the shortest pair `Register` accepts, hence the tightest
race; the heartbeat's period is then 1. `MaxGeneration` in `ConfigCache` lets a
reader span two invalidations. Every liveness run keeps its bounds from blocking
what fairness asks for: no operation fails at `MaxGeneration` in
`CircuitBreaker`, and rows need not change for ever in `StaleEntriesGo`.

Three pairs in two sessions are a login, its rotation and a second login of
the same or another account; two requests are any two of them in a race; with
times 1 and 2 an access token expires before its refresh token, and a family
that was just rotated outlives the account's set unless that is renewed.

**The areas of `api`.** No step of the administration, the dictionaries, the
notices, the realtime side, the process or the admission reads or writes what the
properties of another are about, so the run chooses one of them in its first
state (`area`) and explores it alone: the sum of their states instead of the
product. Two clients are the requests that race, with symmetry between them.

- *Administration*: two requests, each of any operation, on three departments
  and two menus below one another and three roles, two of them held, or on tables
  without an account, where two processes bootstrap; one free id of each kind.
  Two requests are enough for every race between two operations, each of which
  has its own locks and reads; with lists of one id a lock is that of one row.
- *Dictionary*: three requests, two at once, on three codes: a rename in the
  middle of another's steps, and a third request after both.
- *Notices*: four requests, the number it takes to draft, publish and revoke a
  notice while someone reads it; the readers are two.
- *Realtime*: two connections of one user and an event, or one connection and
  two events of this instance or another, each of which may be sent twice. Two
  events are what an order is about. A queue of one is full after one message, so
  the slow client is there at once.
- *Process*: three audited requests and a queue of one, so that one entry is
  being written, one waits and one is shed.
- *Admission*: two addresses, a captcha, four requests, two at once, and three
  ticks; a burst of two and a TTL of two ticks, the shortest in which a bucket
  fills up, a window of two ticks with one login in it. Four requests are two that
  empty a bucket and two refusals that overlap at it; two addresses, one client
  whose request drops the other's bucket.

Their type invariants (`AdmissionTypeOK`, `ApiTypeOK`, `RealtimeTypeOK`,
`NoticesTypeOK`, `DictionaryTypeOK`) are parts of invariants that are proved, and
no run repeats them.

**Deadlock** is checked except where the system may stop: consumer runs, in
which all instances may have closed, `role`, whose process exits, and `api` and
`departments`, where requests are bounded (`left`) and the process exits.

### Fairness

Each specification states its fairness next to the reason. In short: time
passes (leases end, backoffs elapse, timeouts come); goroutines that can go on
are scheduled (weak fairness); cron calls a job again and again
(`StartRun`, `Begin`); a call that is made for ever is answered in the end
(strong fairness of `Claim`, `MarkPublished`, `Acquired`, `Started`, `Reclaim`,
the handler's `Claim`), because otherwise MySQL or Redis would be down for ever
and nothing could be promised; blocked senders on a channel are served in order
(Go's runtime). Nothing obliges a process to die, a business transaction to
come, Redis to accept an XADD, a listener to find its port free or a handler to
end. `EventuallySettled` has the premise that one relay ends up working alone,
because two relays that keep outliving each other's leases can pass a row back
and forth for ever; the scheduler's lease on the job is there to ensure it.
`ReadinessRecovers` presumes that the relay goes on publishing, which it does as
long as rows are left: an idle producer stays not ready, as the runbook says.

### Findings

1. **The scheduler's context is cancelled right after start-up**
   (`bootstrap/job.go:83`; run `job_role`). The scheduler keeps the context of
   the start function that created it; the manager cancels that context when the
   function returns, so every later run's context is done before it starts and no job
   is run. docs/architecture.md:55 says that the Job Role retries unpublished
   rows. `JobScheduler`'s own `JobKeepsRunning` has a live base context as its
   premise; `JobRole` shows that the Role does not
   provide one, and `JobsStartOnlyWithTheRole` that no job can start once the
   start function has returned, in any number of processes.
2. **Moves of departments corrupt the paths below them**
   (`adapters/mysql/organization/repository.go:113`; run `departments`). The
   second UPDATE of a move applies REPLACE to `tree_path` as text, and `0,1` also
   occurs at the 0 of 10 in `0,1,10,11`. With ids 10, 11 and 12 below each other
   under 1, two moves leave 12 with a path that names 2, under which it is not:
   then a move of 2 under 12 is refused although the service means to refuse only
   descendants (`features/organization/application/service.go:90`), and whoever
   may see the departments under 2 sees 12's accounts. The run `api` has ids
   below 10, where `TreesAreSound` holds; section 5 proves it, and
   `DescendantsAreBelow`, for trees of any size in which no digits mislead REPLACE
   that way (`NoDigitsMislead`).

**Known gaps**, which the properties name as exceptions and no run shows. Two
moves of departments that each pass the descendant check may together make a
cycle, and a department found empty may be filled before it is deleted
(`service.go:85`, `:107`): neither holds a lock between its questions and its
write. A bootstrap puts its administrator into department 1 without asking whether
there is one. So `TreesAreSound`, `ItemsHaveDictionary` and `ChangesAreAnnounced`
except a request that has written what another commit had outdated, and that
bootstrap (`raced`); an
import, which looks its roles up without a lock, may leave an assignment of a
deleted role (`imported`). Refused requests of one client that overlap cost it
tokens (`adapters/http/middleware/rate_limit.go:53`), so it waits longer than its
rate asks; `KeptOutOnlyByOverlap` says that nothing else makes it wait. A revocation's
event may be sent before the publication's: `WhatIsToldIsTrue` is about what marks
and events say and to whom, not about their order.
`docs/configuration.md:32` says that every mutation advances the cache
generation: the code logs a failed invalidation and reports success, and a commit
whose reply is lost skips it, which is why `CacheIsFresh` speaks of advanced
generations and `StaleEntriesGo` of the hour after which entries expire.

## 5. What is proved

All proofs are in `*Proofs` modules; assumptions are the named ASSUMEs of the
component modules, which are what constructors and configuration loading
enforce (a positive threshold, `Lease > Timeout`, a graph that `resolveLayers`
accepts; ids that are numbers, capacities that are not negative), but for
`BucketsFillUp`: a bucket's TTL is at least the time in which it fills up, which
is so by default (2 s and 10 minutes) and not validated. They hold for every
number of rows, callers, processes, services, keys and requests and every limit.
The properties are the ones the runs check, and a few that only serve an
invariant (`PermitsStayDated`, `ThresholdsTrip`, `ProbesClose`, `RunsAreRecorded`,
the type invariants).

| Module | Theorems |
|---|---|
| `OutboxProofs` | `TypeCorrect`, `NothingPublishedUnsent`, `NothingDeadEarly`, `LeaseIsRespected`, `OutboxImplementsDurableDispatch`; of the pipeline `PipelineImplementsParts`, `PipelineLosesNothing`, `PipelineExecutesOnce`, `PipelineImplementsDelivery` |
| `CircuitBreakerProofs` | `ProbesAreCounted`, `PermitsStayDated`, `ThresholdsTrip`, `ProbesClose`; `ProducerUsesBreaker` and `ProducerProbesAreCounted` carry them into the producer |
| `JobSchedulerProofs` | `TypeCorrect`, `LiveRunOwnsLease`, `MutualExclusion`, `RunsAreRecorded`, `PromptHeartbeatsSuffice`; of the Job Role `RoleImplementsScheduler`, `StartedRolesAreCancelled`, `JobsStartOnlyWithTheRole` |
| `ConfigCacheProofs` | `TypeCorrect`, `HitsAreFresh` |
| `StreamConsumerProofs` | `TypeCorrect`, `NoWakeUpIsLost`, `NothingExecutesTwice` |
| `SessionsProofs` | `TypeCorrect`, `EveryTokenIsReachable`, `EndIsFinal`, `ChangesEndSessions` |
| `RoleProofs` | `TypeCorrect`, `ClientsOutliveUsers`, `ShutdownIsComplete`, `ReadinessIsHonest`, `ReadinessStaysCleared`, `HandlersKeepClients` |
| `ApiProofs`, administration | `AdminInvariant`, `ReferencesStayLive`; the trees: `TreesInvariant`, `TreesStaySound`, `OtherTreesStaySound`, `DescendantsStayBelow` |
| `ApiProofs`, realtime | `NoGapIsSilent`, `PresenceIsHeld`, `OrderIsKept` |
| `ApiProofs`, notices | `NoticesInvariant`, `WhatIsToldStaysTrue`, `PublishedStaysFixed` |
| `ApiProofs`, dictionary | `ItemsKeepDictionary`, `ChangesStayAnnounced` |
| `ApiProofs`, process | `ReadyStaysOpen`, `AuditStaysComplete` |
| `ApiProofs`, admission | `ClientsStayWithinRate`, `OverlapAloneKeepsOut`, `GuessesStayLimited` |

**Arguments.** Each module states its inductive invariant `IInv` as a
conjunction of named parts, after the properties.

- *Outbox.* `PublishedWasAdded` is not inductive: MarkPublished relies on what
  its caller has seen (`AnsweredIsInStream`: past a successful Publish the
  message in hand is on the stream). `DeadIsExhausted` compares the row's
  counter with the one read at the claim, hence `TakenIsCounted`. The refinement
  needs `InHandIsCommitted` besides: a signal is for a committed dispatch. Each
  action then maps to one of `DurableDispatch` or to a stutter; a claim is a
  stutter except for the malformed rows it gives up.
- *Pipeline.* Each of its steps is one of the Outbox's or a stutter, and one of the
  consumer's or a stutter, so the invariants of both hold. They meet in the stream:
  whatever was XADDed has an entry (`SignalsArrived`). So a row that is neither
  outstanding nor given up is on the stream (`PublishedWasAdded`), and its entry is
  undelivered, pending, or its task claimed (`NoLostWakeUp`): nothing is lost on the
  way (`NothingCommittedIsLost`). The premise `PipelineAssumption` is the
  consumers' ASSUME and the types of the two constants that tie the parts.
- *Delivery.* What the workers hold or have claimed came from the stream: every
  entry in a goroutine's hands and the task of every claim is of the set `S` the
  stream's entries are in (`HeldIn(S)`, kept by every step of an instance or worker
  for any `S`). With the entries for which a dispatch was XADDed for `S`
  (`Rightful`), who executes a task does so after the XADD, and as relays signal
  committed dispatches only (`SignalledIsCommitted`, from the durable list that the
  Outbox implements) after the commit. No row becomes absent again, a
  deleted one is `deleted`, so a commit stays visible (`CommitsStay`). Only the owner of a claim
  executes, and there is one (`ExecutesOne`): so each step maps to `Commit`,
  `Execute` or a stutter. `OthersStayApart` is a premise on the steps of other
  programs, none on those of relays and consumers.
- *Breaker.* The counter equals the cardinality of the probes' set; the key is
  that a transition leaves no permit of the new generation behind
  (`PermitsAreDated`), so the set is empty just when the counter is reset, and
  that Acquire adds, Complete removes exactly one element.
- *Scheduler.* `LiveOwnsLease` is nearly inductive: at TryAcquire the context
  has at most Timeout left and the lease exactly Lease; both shrink together, a
  renewal only lengthens the lease, and nobody else takes a lease that is not
  over. Mutual exclusion follows. `HeartbeatInTime` bounds the next heartbeat by
  the lease. The Role's steps are the scheduler's, so all of this holds in it;
  what it adds is that a start function that has returned leaves no live context
  (`StartedIsCancelled`): a later run derives its own from the cancelled one, and
  `Started` needs a live one.
- *Cache.* `ReadersAreFresh` is what a reader's fill relies on: a reader that
  carries the current generation read its row after the last change;
  `GenerationsArePast` keeps a new generation empty.
- *Sessions.* `UsableIsCurrent` holds only because keys expire in order, tokens
  no later than the hash, the hash no later than the account's set
  (`KeysExpireInOrder`), which assumes `AccessTTL <= RefreshTTL`: the default
  configuration says so (2 hours and 7 days), `Validate` asks for positive times
  only. What two scripts write and delete is proved once (`WritesKeepOrder`,
  `DeletesKeepOrder`) for login and rotation, revocation and invalidation.
  `EndedStaysEnded` follows: a rotation finds its token fresh, so its family was
  not ended; a creation writes a family that nobody else can have ended
  (`CreationIsPrivate`). For `SessionsMatchAccount`, whatever is usable of an
  account is in its set, so one invalidation ends it all.
- *Role.* `LayersInOrder` says where every service stands relative to the layer
  the manager is at; `ProgramFollowsManager` ties the program to the manager.
- *Consumer.* A wake-up is safe because an entry is acknowledged only once its
  task is claimed (`AckIsClaimed`), an entry behind the group's position has
  been delivered (`DeliveredIsPast`), and only the worker that the table made the
  owner executes (`OwnerIsAlone`).
- *Administration.* What a transaction has locked exclusively no other shares
  (`LocksExclude`), and a request about to write holds the locks on what it
  looked up, which is therefore still there (`HoldsItsLocks`). So a reference is
  never written to a row that is gone, and a row goes only when nothing refers to
  it or together with what does. Each operation has a lemma; the operations of
  others leave locked rows alone.
- *Trees.* `TreesKnown` says of both tables that the path of each row is that of
  its parent followed by the parent (`IsExact`). Nothing more is needed of the
  rows: the ancestors of a row are then the prefixes of its path, each number
  stands in it once and never that of the row itself, and whatever is under a row
  is reached from it by its parents (`UnderIsBelow`). A move sets the row's own
  path and applies REPLACE to those of all rows below it. The old prefix occurs in
  them at the start; a second occurrence would have to begin at the last digit of
  a number that ends in 0 and to end in one that begins like the top row above it,
  and that is what `NoDigitsMislead` excludes. So REPLACE exchanges the prefix and
  nothing else, and as the new parent is none of these rows (the descendant
  check), the table is exact again (`MoveIsExact`; `InsertIsExact`,
  `RemoveIsExact` for the other writes). `Replace` and the closure `Below` are
  recursive functions: what they return is shown with the least position or row
  at which it would be wrong (`LeastNumber`), where an induction would take an
  operator as parameter. The other half is the protocol: what a request that
  nobody has outdated has read is still so when it writes (`TreeReadsHold`), and
  the department of an account that is being saved is locked
  (`HoldsDepartment`). TLC checked `TreesIInv` on the administration's area before.

  The premises: `TreesStart`, the tables are exact and finite and accounts have
  live departments when the API starts, as the migrations leave them; and
  `DigitsAreClear` throughout, `NoDigitsMislead` of both tables. The latter is a
  property of the ids that MySQL gives out, which no code looks at: it fails only
  in a tree with a row below one whose id ends in 0. `OtherTreesStaySound` does
  without it where no id ends in 0.
- *Dictionary.* What a request that nobody has outdated has read is still so when
  it writes (`ReadsHold`), and codes are unique (`CodesAreUnique`).
- *Notices.* What has been published keeps its audience, so what a pending mark
  or event says stays true (`PendingHolds`).
- *Realtime.* Whoever is about to remove a presence member found nobody
  registered, so who is registered by now has overtaken it
  (`LateComersAreOvertaken`). The order of events is that of the wire
  (`WireKeepsOrder`), repetitions included: an instance ends the sending of one
  event before it begins the next (`BeforeIsSent`), so what came before an event
  that was consumed is no longer to come. A client gets an event of its own
  instance once because it is delivered by `publish` alone, which takes one
  snapshot. The order needs that a dispatch starts only when the one before has
  reached its clients (`ForeignIsConsumed`), and a copy may reach a client that is
  owed it already, so gap and order are proved with one invariant.
- *Process.* Every entry is in one place, the queue, the recorder's hand or the
  database (`EntriesAreInOnePlace`), and servers and recorder follow the stage
  (`ServersFollowStage`, `RecorderFollowsStage`).
- *Admission.* A bucket never holds more than is fair, and what is fair has grown
  from 0 to the full burst by the time the bucket may be dropped
  (`BucketsAreBounded`): so a bucket that comes back full gives nobody too much,
  even if it was below 0. That it holds no less where no requests overlapped
  (`LastIsReturned`) needs to know of the one refused request that has not
  cancelled yet: its reservation was the last, so it will get its token back. A
  reservation in `Allow` finds its bucket in use (`AllowIsShort`). Whoever is let
  in to its captcha was counted (`PassesAreCounted`), and a captcha that was
  compared is gone (`ComparedIsGone`).

**Only model-checked:** all liveness (`EventuallySettled`, `ReadinessRecovers`,
`EntryLeadsToClaim`, `CloseReturns`, `JobKeepsRunning`, `StaleEntriesGo`,
`ShutsDown`), which is out of the prover's reach. Every safety invariant and
action property of a passing run is a theorem; that of the trees has the premises
above, without which it is false (finding 2). There is no liveness of the API: its requests are bounded,
its shutdown has deadlines that the model takes for choices.

## 6. What is not modelled, and why

- gocron, Redis, MySQL and the task handlers are external: modelled from how the
  code uses them. MySQL transactions are atomic; Redis commands and scripts are. A
  command of which the reply is lost may have taken effect, but one that the client
  has given up takes no effect any more later on. Clocks run at one rate.
- Redis loses session keys only by expiry: eviction and a lost data set, which
  end sessions early or hide them from invalidation, are not modelled.
- Message contents, validation and encoding, batch error texts, logging, paging,
  lists, HTTP decoding and responses: data without shared state.
- File storage (pure I/O under random names), the HTML sanitizer and password
  hashing (library wrappers), build information.
- Configuration loading: what it validates appears as assumptions on constants.
- HTTP adapters: routing, decoding, authentication headers and permission checks
  of one request each.
- Of access control, the reading side: merging the permissions and data scopes of
  several roles, which every request reads afresh; so a change of grants takes
  effect whether or not a session was ended for it. Grants of departments that are deleted stay in `sys_role_dept`;
  the scope queries join live departments.
- Of accounts, changes of a profile's texts; that Delete asks IsRoot before its
  transaction is modelled, but a role granted in between is not a property.
- Of health, the checks that a timed-out /readyz handler leaves running
  (`foundation/health/health.go:100`): their results are discarded.
- The parts listed under the plan.
