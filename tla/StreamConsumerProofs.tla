------------------------- MODULE StreamConsumerProofs -------------------------
(* For any entries, tasks, instances and workers: no wake-up is lost between   *)
(* the stream and the task table, and no task executes twice.                  *)
EXTENDS StreamConsumer, FiniteSetTheorems, WellFoundedInduction, TLAPS

(* The invariant by what its parts are about: Redis and what it has delivered, *)
(* the goroutines, and the tasks.                                              *)
RedisTypeOK ==
  /\ entries \in SUBSET Entry /\ group \in BOOLEAN
  /\ lastAdded \in EntryOrZero /\ lastDelivered \in EntryOrZero
  /\ pending \in SUBSET Entry /\ idle \in SUBSET pending /\ losses \in Nat
RedisInv == RedisTypeOK /\ DeliveredIsPast /\ NoLostWakeUp

GoTypeOK ==
  /\ phase \in [Instance -> {"new", "running", "closing", "closed", "dead"}]
  /\ reader \in [Instance ->
       [at : {"read", "ensure", "send", "gone"}, entry : EntryOrZero]]
  /\ reclaimer \in [Instance ->
       [at : {"tick", "scan", "ensure", "send", "gone"}, entry : EntryOrZero, next : EntryOrZero]]
  /\ worker \in [Worker ->
       [at : {"idle", "claim", "ack", "execute", "gone"}, entry : EntryOrZero, acquired : BOOLEAN]]
GoInv == GoTypeOK /\ HandsHoldEntries

TaskInv ==
  /\ claimed \in SUBSET Task /\ executions \in [Task -> 0 .. 2]
  /\ AckIsClaimed /\ OwnerIsAlone

\* The three parts are the invariant.
LEMMA InvParts == IInv <=> RedisInv /\ GoInv /\ TaskInv
BY DEF IInv, TypeOK, RedisInv, RedisTypeOK, GoInv, GoTypeOK, TaskInv

-----------------------------------------------------------------------------
(* The helpers. *)

Precedes == {pair \in Nat \X Nat : pair[1] < pair[2]}

\* The order of the ids has no infinite descent.
LEMMA PrecedesIsFounded == IsWellFoundedOn(Precedes, Nat)
BY NatLessThanWellFounded DEF OpToRel, Precedes

\* Among any ids there is a first one.
LEMMA FirstId ==
  ASSUME NEW S \in SUBSET Nat, S # {}
  PROVE  \E x \in S : \A y \in S : x <= y
<1>1. PICK x \in S : \A y \in S : ~(<<y, x>> \in Precedes)
  BY PrecedesIsFounded, WFMin
<1>2. ASSUME NEW y \in S PROVE x <= y
  <2>1. x \in Nat /\ y \in Nat /\ <<y, x>> \in Nat \X Nat  OBVIOUS
  <2>2. ~(y < x)  BY <1>1, <2>1 DEF Precedes
  <2>. QED  BY <2>1, <2>2
<1>. QED  BY <1>2

\* XAUTOCLAIM's cursor is 0-0 or the id of a pending entry.
LEMMA CursorIsId ==
  ASSUME ConsumerAssumption, pending \in SUBSET Entry, NEW e
  PROVE  NextCursor(e) \in EntryOrZero
<1>. DEFINE rest == {f \in pending : f > e}
<1>1. rest \in SUBSET Entry /\ rest \in SUBSET Nat
  BY DEF ConsumerAssumption
<1>2. CASE rest = {}
  BY <1>2 DEF NextCursor, EntryOrZero
<1>3. CASE rest # {}
  <2>1. \E f \in rest : \A g \in rest : f <= g
    <3>. HIDE DEF rest
    <3>. QED  BY <1>1, <1>3, FirstId
  <2>2. (CHOOSE f \in rest : \A g \in rest : f <= g) \in rest
    <3>. HIDE DEF rest
    <3>. QED  BY <2>1
  <2>3. NextCursor(e) \in rest
    BY <1>3, <2>2 DEF NextCursor
  <2>. QED  BY <1>1, <2>3 DEF EntryOrZero
<1>. QED  BY <1>2, <1>3

\* A set without two different members has at most one.
LEMMA AtMostOne ==
  ASSUME NEW S, \A w, v \in S : w = v
  PROVE  Cardinality(S) <= 1 /\ (Cardinality(S) # 0 => S # {}) /\ Cardinality(S) \in Nat
<1>1. CASE S = {}
  BY <1>1, FS_EmptySet
<1>2. CASE S # {}
  <2>1. PICK w : S = {w}  BY <1>2
  <2>. QED  BY <2>1, FS_Singleton
<1>. QED  BY <1>1, <1>2

-----------------------------------------------------------------------------
(* Redis. *)

\* What leaves the commands' state alone keeps its part, since claims only grow.
LEMMA RedisStands ==
  ASSUME RedisInv, UNCHANGED redisVars, claimed \subseteq claimed'
  PROVE  RedisInv'
BY DEF RedisInv, RedisTypeOK, DeliveredIsPast, NoLostWakeUp, Undelivered, redisVars, EntryOrZero

\* A group that is created again delivers every entry again.
LEMMA CreateGroupKeeps ==
  ASSUME RedisInv, ConsumerAssumption, CreateGroup, UNCHANGED claimed
  PROVE  RedisInv'
BY DEF RedisInv, RedisTypeOK, DeliveredIsPast, NoLostWakeUp, Undelivered, CreateGroup, EntryOrZero,
       ConsumerAssumption

\* What XREADGROUP delivers is pending, and it passes nothing over.
LEMMA DeliversKeeps ==
  ASSUME RedisInv, ConsumerAssumption, NEW e \in Entry, Delivers(e), UNCHANGED claimed
  PROVE  RedisInv'
<1>1. RedisTypeOK'
  BY DEF RedisInv, RedisTypeOK, Delivers, EntryOrZero
<1>2. DeliveredIsPast'
  BY DEF RedisInv, RedisTypeOK, DeliveredIsPast, Delivers, EntryOrZero, ConsumerAssumption
<1>3. NoLostWakeUp'
  BY DEF RedisInv, RedisTypeOK, NoLostWakeUp, Undelivered, Delivers, EntryOrZero, ConsumerAssumption
<1>. QED  BY <1>1, <1>2, <1>3 DEF RedisInv
\* What XAUTOCLAIM hands out stays pending.
LEMMA ReclaimsKeeps ==
  ASSUME RedisInv, NEW e \in Entry, NEW start, Reclaims(e, start), UNCHANGED claimed
  PROVE  RedisInv'
BY DEF RedisInv, RedisTypeOK, DeliveredIsPast, NoLostWakeUp, Undelivered, Reclaims, EntryOrZero

\* What Redis does by itself.
LEMMA RedisKeeps ==
  ASSUME RedisInv, ConsumerAssumption, Redis
  PROVE  RedisInv'
<1>1. ASSUME NEW e \in Entry, Add(e) PROVE RedisInv'
  <2>1. RedisTypeOK'
    BY <1>1 DEF RedisInv, RedisTypeOK, Add, EntryOrZero
  <2>2. DeliveredIsPast' /\ e > lastDelivered
    BY <1>1 DEF RedisInv, RedisTypeOK, DeliveredIsPast, Add, EntryOrZero, ConsumerAssumption
  <2>3. NoLostWakeUp'
    BY <1>1, <2>2 DEF RedisInv, NoLostWakeUp, Undelivered, Add
  <2>. QED  BY <2>1, <2>2, <2>3 DEF RedisInv
<1>2. ASSUME LosesData PROVE RedisInv'
  <2>1. entries' \subseteq entries
    BY <1>2 DEF LosesData
  <2>2. RedisTypeOK'
    <3>1. losses' \in Nat /\ UNCHANGED lastAdded
      BY <1>2 DEF RedisInv, RedisTypeOK, LosesData
    <3>2. group' = FALSE /\ lastDelivered' = 0 /\ pending' = {} /\ idle' = {}
      BY <1>2 DEF LosesData
    <3>. QED  BY <2>1, <3>1, <3>2 DEF RedisInv, RedisTypeOK, EntryOrZero
  <2>3. 0 <= lastAdded
    BY DEF RedisInv, RedisTypeOK, EntryOrZero, ConsumerAssumption
  <2>4. DeliveredIsPast'
    BY <1>2, <2>1, <2>3 DEF RedisInv, DeliveredIsPast, LosesData
  <2>5. NoLostWakeUp'
    BY <1>2 DEF NoLostWakeUp, Undelivered, LosesData
  <2>. QED  BY <2>2, <2>4, <2>5 DEF RedisInv
<1>3. ASSUME NEW e \in Entry, BecomesIdle(e) PROVE RedisInv'
  BY <1>3 DEF RedisInv, RedisTypeOK, DeliveredIsPast, NoLostWakeUp, Undelivered, BecomesIdle,
              EntryOrZero
<1>. QED  BY <1>1, <1>2, <1>3 DEF Redis

-----------------------------------------------------------------------------
(* The tasks. *)

\* While no worker comes to hold a new answer to its claim, and nobody executes,
\* more tasks may be claimed.
LEMMA MoreIsClaimed ==
  ASSUME TaskInv, claimed \subseteq claimed', claimed' \in SUBSET Task, UNCHANGED executions,
         \A w \in Worker : worker'[w].at = "ack" => worker'[w] = worker[w]
  PROVE  TaskInv'
<1>1. \A w \in Worker : worker'[w].at = "ack" =>
        /\ worker[w].at = "ack" /\ (WillExecute(w)' <=> WillExecute(w))
        /\ TaskAt(w)' = TaskAt(w) /\ (Readable(w)' <=> Readable(w))
  BY DEF WillExecute, TaskAt, Readable
<1>2. AckIsClaimed'
  BY <1>1 DEF TaskInv, AckIsClaimed
<1>3. \A w \in Worker : WillExecute(w)' => WillExecute(w) /\ TaskAt(w)' = TaskAt(w)
  BY ONLY <1>1 DEF WillExecute
<1>4. OwnerIsAlone'
  <2>1. \A t \in Task : executions'[t] <= 1 /\ (executions'[t] = 1 => t \in claimed')
    BY DEF TaskInv, OwnerIsAlone
  <2>2. \A w \in Worker : WillExecute(w)' => executions'[TaskAt(w)'] = 0
    BY <1>3 DEF TaskInv, OwnerIsAlone
  <2>3. \A w, v \in Worker :
          WillExecute(w)' /\ WillExecute(v)' /\ TaskAt(w)' = TaskAt(v)' => w = v
    BY <1>3 DEF TaskInv, OwnerIsAlone
  <2>. QED  BY ONLY <2>1, <2>2, <2>3 DEF OwnerIsAlone
<1>. QED  BY <1>2, <1>4 DEF TaskInv

\* What neither claims nor executes leaves the tasks as they are.
LEMMA TasksStand ==
  ASSUME TaskInv, UNCHANGED <<claimed, executions>>,
         \A w \in Worker : worker'[w].at = "ack" => worker'[w] = worker[w]
  PROVE  TaskInv'
<1>1. claimed \subseteq claimed' /\ claimed' \in SUBSET Task
  BY DEF TaskInv
<1>. QED  BY <1>1, MoreIsClaimed

\* The first claim of a task makes its caller the only one who will execute it.
LEMMA ClaimKeeps ==
  ASSUME TaskInv, GoInv, ConsumerAssumption, NEW w \in Worker, Claim(w)
  PROVE  TaskInv'
<1>. DEFINE t == TaskAt(w)
<1>1. /\ worker[w].entry \in Entry /\ t \in Task
      /\ claimed' = claimed \cup {t} /\ executions' = executions
      /\ worker' = [worker EXCEPT ![w] = WorkerAt("ack", worker[w].entry, t \notin claimed)]
      /\ worker[w].entry \notin Unreadable
  BY DEF GoInv, HandsHoldEntries, ConsumerAssumption, Claim, TaskAt, SetWorker, Readable
<1>2. /\ worker'[w] = WorkerAt("ack", worker[w].entry, t \notin claimed)
      /\ \A v \in Worker \ {w} : worker'[v] = worker[v]
  BY <1>1 DEF GoInv, GoTypeOK
<1>3. /\ worker'[w].at = "ack" /\ worker'[w].entry = worker[w].entry
      /\ worker'[w].acquired = (t \notin claimed)
  BY <1>2 DEF WorkerAt
<1>4. AckIsClaimed'
  BY <1>1, <1>2, <1>3 DEF TaskInv, AckIsClaimed, Readable, TaskAt
<1>5. OwnerIsAlone'
  <2>1. \A s \in Task : executions'[s] <= 1 /\ (executions'[s] = 1 => s \in claimed')
    BY <1>1 DEF TaskInv, OwnerIsAlone
  <2>2. \A v \in Worker \ {w} : TaskAt(v)' = TaskAt(v) /\ (WillExecute(v)' <=> WillExecute(v))
    BY <1>2 DEF TaskAt, WillExecute
  <2>3. TaskAt(w)' = t /\ (WillExecute(w)' => t \notin claimed)
    BY <1>3 DEF TaskAt, WillExecute
  <2>4. t \notin claimed => executions[t] = 0
    BY <1>1 DEF TaskInv, OwnerIsAlone
  <2>5. \A v \in Worker : WillExecute(v) => TaskAt(v) \in claimed
    BY DEF TaskInv, AckIsClaimed, WillExecute
  <2>6. \A v \in Worker : WillExecute(v)' => executions'[TaskAt(v)'] = 0
    BY <1>1, <2>2, <2>3, <2>4 DEF TaskInv, OwnerIsAlone
  <2>7. \A v, u \in Worker :
          WillExecute(v)' /\ WillExecute(u)' /\ TaskAt(v)' = TaskAt(u)' => v = u
    BY <2>2, <2>3, <2>5 DEF TaskInv, OwnerIsAlone
  <2>. QED  BY <2>1, <2>6, <2>7 DEF OwnerIsAlone
<1>6. claimed' \in SUBSET Task /\ executions' \in [Task -> 0 .. 2]
  BY <1>1 DEF TaskInv
<1>. QED  BY <1>4, <1>5, <1>6 DEF TaskInv

\* Whoever executes was alone with it, and is through then.
LEMMA AfterAckKeeps ==
  ASSUME TaskInv, GoInv, ConsumerAssumption, NEW w \in Worker,
         worker[w].at = "ack", AfterAck(w), UNCHANGED claimed
  PROVE  TaskInv'
<1>. DEFINE t == TaskAt(w)
<1>1. worker[w].entry \in Entry /\ t \in Task /\ t \in claimed
  BY DEF GoInv, HandsHoldEntries, ConsumerAssumption, TaskAt, TaskInv, AckIsClaimed
<1>2. CASE worker[w].acquired
  <2>1. /\ worker' = [worker EXCEPT ![w] = WorkerAt("execute", worker[w].entry, TRUE)]
        /\ executions' = [executions EXCEPT ![t] = IF @ < 2 THEN @ + 1 ELSE 2]
    BY <1>2 DEF AfterAck, SetWorker
  <2>2. /\ worker'[w] = WorkerAt("execute", worker[w].entry, TRUE)
        /\ \A v \in Worker \ {w} : worker'[v] = worker[v]
    BY <2>1 DEF GoInv, GoTypeOK
  <2>3. worker'[w].at # "ack"
    BY <2>2 DEF WorkerAt
  <2>4. executions[t] = 0
    BY <1>2 DEF TaskInv, OwnerIsAlone, WillExecute
  <2>5. executions'[t] = 1 /\ \A s \in Task \ {t} : executions'[s] = executions[s]
    BY <1>1, <2>1, <2>4 DEF TaskInv
  <2>6. AckIsClaimed'
    BY <2>2, <2>3 DEF TaskInv, AckIsClaimed, Readable, TaskAt
  <2>7. \A v \in Worker \ {w} : TaskAt(v)' = TaskAt(v) /\ (WillExecute(v)' <=> WillExecute(v))
    BY <2>2 DEF TaskAt, WillExecute
  <2>8. ~WillExecute(w)'
    BY <2>3 DEF WillExecute
  <2>9. \A v \in Worker \ {w} : WillExecute(v) => TaskAt(v) # t /\ TaskAt(v) \in Task
    BY <1>2 DEF TaskInv, OwnerIsAlone, WillExecute, AckIsClaimed
  <2>10. OwnerIsAlone'
    BY <1>1, <2>5, <2>7, <2>8, <2>9 DEF TaskInv, OwnerIsAlone
  <2>11. executions' \in [Task -> 0 .. 2]
    <3>1. executions' = [executions EXCEPT ![t] = 1]
      BY <2>1, <2>4
    <3>2. executions \in [Task -> 0 .. 2] /\ 1 \in 0 .. 2
      BY DEF TaskInv
    <3>. HIDE DEF t
    <3>. QED  BY <3>1, <3>2
  <2>. QED  BY <2>6, <2>10, <2>11 DEF TaskInv
<1>3. CASE ~worker[w].acquired
  <2>1. /\ worker' = [worker EXCEPT ![w] = WorkerAt("idle", 0, FALSE)] /\ UNCHANGED executions
    BY <1>3 DEF AfterAck, SetWorker
  <2>2. \A v \in Worker : worker'[v].at = "ack" => worker'[v] = worker[v]
    BY <2>1 DEF GoInv, GoTypeOK, WorkerAt
  <2>. QED  BY <2>1, <2>2, TasksStand
<1>. QED  BY <1>2, <1>3

\* A claim whose answer is lost may have been the first.
LEMMA ClaimFailsKeeps ==
  ASSUME TaskInv, GoInv, ConsumerAssumption, NEW w \in Worker, ClaimFails(w)
  PROVE  TaskInv'
<1>1. /\ worker[w].entry \in Entry /\ TaskAt(w) \in Task
      /\ claimed \subseteq claimed' /\ claimed' \subseteq claimed \cup {TaskAt(w)}
      /\ executions' = executions
      /\ worker' = [worker EXCEPT ![w] = WorkerAt("idle", 0, FALSE)]
  BY DEF GoInv, HandsHoldEntries, ConsumerAssumption, ClaimFails, TaskAt, SetWorker
<1>2. \A v \in Worker : worker'[v].at = "ack" => worker'[v] = worker[v]
  BY <1>1 DEF GoInv, GoTypeOK, WorkerAt
<1>3. claimed' \in SUBSET Task
  BY <1>1 DEF TaskInv
<1>. QED  BY <1>1, <1>2, <1>3, MoreIsClaimed

-----------------------------------------------------------------------------
(* The goroutines.  What an instance or a worker does changes only its own     *)
(* place, and what it takes over from another is an entry.                     *)

\* Where the reader, the reclaimer and the workers of one instance may go.
ReaderGoes(x) ==
  \E at \in {"read", "ensure", "send", "gone"}, e \in EntryOrZero :
    /\ reader' = [reader EXCEPT ![x] = ReaderAt(at, e)]
    /\ at = "send" => e \in Entry
ReclaimerGoes(x) ==
  \E at \in {"tick", "scan", "ensure", "send", "gone"}, e, next \in EntryOrZero :
    /\ reclaimer' = [reclaimer EXCEPT ![x] = ReclaimerAt(at, e, next)]
    /\ at = "send" => e \in Entry
WorkerGoes(w) ==
  \E at \in {"idle", "claim", "ack", "execute", "gone"}, e \in EntryOrZero, acquired \in BOOLEAN :
    /\ worker' = [worker EXCEPT ![w] = WorkerAt(at, e, acquired)]
    /\ at \in {"claim", "ack"} => e \in Entry
PhaseGoes(x) ==
  \E p \in {"new", "running", "closing", "closed", "dead"} : phase' = [phase EXCEPT ![x] = p]
WorkersGo(x, p) ==
  worker' = [w \in Worker |-> IF InstanceOf[w] = x THEN WorkerAt(p, 0, FALSE) ELSE worker[w]]

\* Every such step keeps the goroutines' part.
LEMMA GoKeeps ==
  ASSUME GoInv, NEW x \in Instance,
         UNCHANGED phase \/ PhaseGoes(x),
         UNCHANGED reader \/ ReaderGoes(x),
         UNCHANGED reclaimer \/ ReclaimerGoes(x),
         \/ UNCHANGED worker \/ \E w \in Worker : WorkerGoes(w)
         \/ WorkersGo(x, "idle") \/ WorkersGo(x, "gone")
  PROVE  GoInv'
<1>1. /\ phase' \in [Instance -> {"new", "running", "closing", "closed", "dead"}]
  BY DEF GoInv, GoTypeOK, PhaseGoes
<1>2. /\ reader' \in [Instance -> [at : {"read", "ensure", "send", "gone"}, entry : EntryOrZero]]
      /\ \A y \in Instance : reader'[y].at = "send" => reader'[y].entry \in Entry
  BY DEF GoInv, GoTypeOK, HandsHoldEntries, ReaderGoes, ReaderAt
<1>3. /\ reclaimer' \in [Instance -> [at : {"tick", "scan", "ensure", "send", "gone"},
                                      entry : EntryOrZero, next : EntryOrZero]]
      /\ \A y \in Instance : reclaimer'[y].at = "send" => reclaimer'[y].entry \in Entry
  <2>1. CASE UNCHANGED reclaimer
    BY <2>1 DEF GoInv, GoTypeOK, HandsHoldEntries
  <2>2. CASE ReclaimerGoes(x)
    <3>1. PICK at \in {"tick", "scan", "ensure", "send", "gone"}, e \in EntryOrZero,
               next \in EntryOrZero :
            /\ reclaimer' = [reclaimer EXCEPT ![x] = ReclaimerAt(at, e, next)]
            /\ at = "send" => e \in Entry
      BY <2>2 DEF ReclaimerGoes
    <3>2. /\ ReclaimerAt(at, e, next) \in [at : {"tick", "scan", "ensure", "send", "gone"},
                                           entry : EntryOrZero, next : EntryOrZero]
          /\ ReclaimerAt(at, e, next).at = at /\ ReclaimerAt(at, e, next).entry = e
      BY DEF ReclaimerAt
    <3>. QED  BY <3>1, <3>2 DEF GoInv, GoTypeOK, HandsHoldEntries
  <2>. QED  BY <2>1, <2>2
<1>. DEFINE WorkersFine ==
       /\ worker \in [Worker -> [at : {"idle", "claim", "ack", "execute", "gone"},
                                 entry : EntryOrZero, acquired : BOOLEAN]]
       /\ \A w \in Worker : worker[w].at \in {"claim", "ack"} => worker[w].entry \in Entry
<1>4. WorkersFine'
  <2>1. ASSUME NEW w \in Worker, WorkerGoes(w)
        PROVE WorkersFine'
    <3>1. PICK at \in {"idle", "claim", "ack", "execute", "gone"}, e \in EntryOrZero,
               acquired \in BOOLEAN :
            /\ worker' = [worker EXCEPT ![w] = WorkerAt(at, e, acquired)]
            /\ at \in {"claim", "ack"} => e \in Entry
      BY <2>1 DEF WorkerGoes
    <3>2. /\ WorkerAt(at, e, acquired) \in [at : {"idle", "claim", "ack", "execute", "gone"},
                                            entry : EntryOrZero, acquired : BOOLEAN]
          /\ WorkerAt(at, e, acquired).at = at /\ WorkerAt(at, e, acquired).entry = e
      BY DEF WorkerAt
    <3>. QED  BY <3>1, <3>2 DEF GoInv, GoTypeOK, HandsHoldEntries
  <2>2. ASSUME NEW p \in {"idle", "gone"}, WorkersGo(x, p)
        PROVE WorkersFine'
    BY <2>2 DEF GoInv, GoTypeOK, HandsHoldEntries, WorkersGo, WorkerAt, EntryOrZero
  <2>3. CASE UNCHANGED worker
    BY <2>3 DEF GoInv, GoTypeOK, HandsHoldEntries
  <2>. QED  BY <2>1, <2>2, <2>3
<1>. QED  BY <1>1, <1>2, <1>3, <1>4 DEF GoInv, GoTypeOK, HandsHoldEntries
\* What a step of an instance that reads or writes no task table keeps: all of it.
LEMMA InstanceKeeps ==
  ASSUME IInv, RedisInv', GoInv', UNCHANGED <<claimed, executions>>,
         \A w \in Worker : worker'[w].at = "ack" => worker'[w] = worker[w]
  PROVE  IInv'
BY TasksStand, InvParts DEF IInv, TypeOK, RedisInv, RedisTypeOK, GoInv, GoTypeOK, TaskInv

\* Start, Close, and the end of an instance.
LEMMA PhaseKeeps ==
  ASSUME IInv, ConsumerAssumption, NEW x \in Instance,
         Start(x) \/ Close(x) \/ Closed(x) \/ Dies(x)
  PROVE  IInv'
<1>. USE InvParts
<1>1. RedisInv'
  BY CreateGroupKeeps, RedisStands DEF Start, Close, Closed, Dies, redisVars
<1>2. PhaseGoes(x)
  BY DEF Start, Close, Closed, Dies, PhaseGoes
<1>3. UNCHANGED reader \/ ReaderGoes(x)
  BY DEF Start, Close, Closed, Dies, ReaderGoes, EntryOrZero
<1>4. UNCHANGED reclaimer \/ ReclaimerGoes(x)
  BY DEF Start, Close, Closed, Dies, ReclaimerGoes, EntryOrZero
<1>5. UNCHANGED worker \/ WorkersGo(x, "idle") \/ WorkersGo(x, "gone")
  BY DEF Start, Close, Closed, Dies, WorkersGo
<1>6. GoInv'
  BY <1>2, <1>3, <1>4, <1>5, GoKeeps
<1>7. \A w \in Worker : worker'[w].at = "ack" => worker'[w] = worker[w]
  BY <1>5 DEF WorkersGo, WorkerAt
<1>8. UNCHANGED <<claimed, executions>>
  BY DEF Start, Close, Closed, Dies
<1>. QED  BY <1>1, <1>6, <1>7, <1>8, InstanceKeeps

\* The goroutine that reads.
LEMMA ReaderKeeps ==
  ASSUME IInv, ConsumerAssumption, NEW x \in Instance,
         \/ ReadNoGroup(x) \/ ReadEnsures(x) \/ ReaderReturns(x)
         \/ \E e \in Entry : ReadNew(x, e) \/ ReadLost(x, e)
  PROVE  IInv'
<1>. USE InvParts
<1>1. RedisInv'
  BY CreateGroupKeeps, RedisStands, DeliversKeeps
     DEF ReadNoGroup, ReadEnsures, ReaderReturns, ReadNew, ReadLost, redisVars
<1>2. UNCHANGED <<phase, reclaimer, worker, claimed, executions>>
  BY DEF ReadNoGroup, ReadEnsures, ReaderReturns, ReadNew, ReadLost, SetReader, goVars
<1>3. UNCHANGED reader \/ ReaderGoes(x)
  BY DEF ReadNoGroup, ReadEnsures, ReaderReturns, ReadNew, ReadLost, SetReader, ReaderGoes, EntryOrZero,
         goVars
<1>4. GoInv'
  BY <1>2, <1>3, GoKeeps
<1>. QED  BY <1>1, <1>2, <1>4, InstanceKeeps

\* The goroutine that reclaims.
LEMMA ReclaimerKeeps ==
  ASSUME IInv, ConsumerAssumption, NEW x \in Instance,
         \/ Tick(x) \/ ReclaimEnds(x) \/ ReclaimNoGroup(x) \/ ReclaimEnsures(x)
         \/ ReclaimerReturns(x)
         \/ \E e \in Entry : Reclaim(x, e) \/ ReclaimLost(x, e)
  PROVE  IInv'
<1>. USE InvParts
<1>1. RedisInv'
  BY CreateGroupKeeps, RedisStands, ReclaimsKeeps
     DEF Tick, ReclaimEnds, ReclaimNoGroup, ReclaimEnsures, ReclaimerReturns, Reclaim, ReclaimLost,
         redisVars
<1>2. UNCHANGED <<phase, reader, worker, claimed, executions>>
  BY DEF Tick, ReclaimEnds, ReclaimNoGroup, ReclaimEnsures, ReclaimerReturns, Reclaim, ReclaimLost,
         SetReclaimer
<1>3. ReclaimerGoes(x)
  <2>1. \A e : NextCursor(e) \in EntryOrZero
    BY CursorIsId DEF RedisInv, RedisTypeOK
  <2>. QED
    BY <2>1 DEF Tick, ReclaimEnds, ReclaimNoGroup, ReclaimEnsures, ReclaimerReturns, Reclaim,
                ReclaimLost, SetReclaimer, ReclaimerGoes, EntryOrZero
<1>4. GoInv'
  BY <1>2, <1>3, GoKeeps
<1>. QED  BY <1>1, <1>2, <1>4, InstanceKeeps

\* An entry goes to a worker, or a worker to its select.
LEMMA HandOverKeeps ==
  ASSUME IInv, ConsumerAssumption, NEW w \in Worker,
         \/ ReaderSends(w) \/ ReclaimerSends(w) \/ WorkerReturns(w) \/ SkipUnreadable(w)
         \/ ExecuteReturns(w)
  PROVE  IInv'
<1>. DEFINE x == InstanceOf[w]
<1>. USE InvParts
<1>1. x \in Instance
  BY DEF ConsumerAssumption
<1>2. UNCHANGED <<redisVars, claimed, phase, executions>>
  BY DEF ReaderSends, ReclaimerSends, WorkerReturns, SkipUnreadable, ExecuteReturns, SetWorker
<1>3. RedisInv'
  BY <1>2, RedisStands
<1>4. WorkerGoes(w)
  BY <1>1 DEF ReaderSends, ReclaimerSends, WorkerReturns, SkipUnreadable, ExecuteReturns, SetWorker,
              WorkerGoes, EntryOrZero, GoInv, HandsHoldEntries
<1>5. UNCHANGED reader \/ ReaderGoes(x)
  BY DEF ReaderSends, ReclaimerSends, WorkerReturns, SkipUnreadable, ExecuteReturns, SetWorker,
         ReaderGoes, EntryOrZero
<1>6. UNCHANGED reclaimer \/ ReclaimerGoes(x)
  BY <1>1 DEF ReaderSends, ReclaimerSends, WorkerReturns, SkipUnreadable, ExecuteReturns, SetWorker,
              ReclaimerGoes, AfterSend, EntryOrZero, GoInv, GoTypeOK
<1>7. GoInv'
  BY <1>1, <1>2, <1>4, <1>5, <1>6, GoKeeps
<1>8. \A v \in Worker : worker'[v].at = "ack" => worker'[v] = worker[v]
  BY DEF ReaderSends, ReclaimerSends, WorkerReturns, SkipUnreadable, ExecuteReturns, SetWorker,
         WorkerAt, GoInv, GoTypeOK
<1>. QED  BY <1>2, <1>3, <1>7, <1>8, InstanceKeeps

\* A worker asks for its task, and acknowledges its entry once the task is claimed.
LEMMA HandleKeeps ==
  ASSUME IInv, ConsumerAssumption, NEW w \in Worker,
         Claim(w) \/ ClaimFails(w) \/ Ack(w) \/ AckFails(w)
  PROVE  IInv'
<1>. USE InvParts
<1>1. InstanceOf[w] \in Instance
  BY DEF ConsumerAssumption
<1>2. TaskInv'
  BY ClaimKeeps, ClaimFailsKeeps, AfterAckKeeps DEF Ack, AckFails
<1>3. RedisInv'
  <2>1. CASE Claim(w) \/ ClaimFails(w) \/ AckFails(w)
    BY <2>1, RedisStands DEF Claim, ClaimFails, AckFails
  <2>2. CASE Ack(w)
    <3>1. Readable(w) /\ TaskAt(w) \in claimed
      BY <2>2 DEF Ack, TaskInv, AckIsClaimed
    <3>. QED
      BY <2>2, <3>1 DEF RedisInv, RedisTypeOK, DeliveredIsPast, NoLostWakeUp, Undelivered, Ack,
                        Readable, TaskAt, EntryOrZero
  <2>. QED  BY <2>1, <2>2
<1>4. UNCHANGED <<phase, reader, reclaimer>>
  BY DEF Claim, ClaimFails, Ack, AckFails, AfterAck, SetWorker
<1>5. WorkerGoes(w)
  BY DEF Claim, ClaimFails, Ack, AckFails, AfterAck, SetWorker, WorkerGoes, WorkerAt, EntryOrZero,
         GoInv, GoTypeOK, HandsHoldEntries
<1>6. GoInv'
  BY <1>1, <1>4, <1>5, GoKeeps
<1>. QED  BY <1>2, <1>3, <1>6 DEF IInv, TypeOK, RedisInv, RedisTypeOK, GoInv, GoTypeOK, TaskInv
-----------------------------------------------------------------------------
(* The theorems. *)

\* Nothing is added, delivered or claimed at the start.
LEMMA InitIInv == Init /\ ConsumerAssumption => IInv
<1>. SUFFICES ASSUME Init, ConsumerAssumption PROVE IInv
  OBVIOUS
<1>1. RedisInv
  <2>1. /\ entries = {} /\ group = FALSE /\ lastAdded = 0 /\ lastDelivered = 0
        /\ pending = {} /\ idle = {} /\ losses = 0
    BY DEF Init
  <2>2. RedisTypeOK
    BY <2>1 DEF RedisTypeOK, EntryOrZero
  <2>3. DeliveredIsPast /\ NoLostWakeUp
    BY <2>1 DEF DeliveredIsPast, NoLostWakeUp
  <2>. QED  BY <2>2, <2>3 DEF RedisInv
<1>2. GoInv
  BY DEF Init, GoInv, GoTypeOK, HandsHoldEntries, ReaderAt, ReclaimerAt, WorkerAt, EntryOrZero
<1>3. TaskInv
  BY DEF Init, TaskInv, AckIsClaimed, OwnerIsAlone, WillExecute, WorkerAt
<1>. QED  BY <1>1, <1>2, <1>3, InvParts

\* Every step keeps the invariant.
LEMMA NextIInv == IInv /\ ConsumerAssumption /\ [Next]_vars => IInv'
<1>. SUFFICES ASSUME IInv, ConsumerAssumption, [Next]_vars PROVE IInv'
  OBVIOUS
<1>1. CASE UNCHANGED vars
  BY <1>1 DEF vars, redisVars, goVars, IInv, TypeOK, HandsHoldEntries, DeliveredIsPast, AckIsClaimed,
              OwnerIsAlone, WillExecute, NoLostWakeUp, Undelivered, Readable, TaskAt
<1>2. CASE Redis
  <2>1. RedisInv' /\ UNCHANGED <<claimed, goVars, executions>>
    BY <1>2, RedisKeeps, InvParts DEF Redis, LosesData, Add, BecomesIdle
  <2>2. GoInv' /\ \A w \in Worker : worker'[w] = worker[w]
    BY <2>1, InvParts DEF goVars, GoInv, GoTypeOK, HandsHoldEntries
  <2>. QED  BY <2>1, <2>2, InstanceKeeps
<1>3. ASSUME NEW x \in Instance, InstanceStep(x) PROVE IInv'
  BY <1>3, PhaseKeeps, ReaderKeeps, ReclaimerKeeps DEF InstanceStep
<1>4. ASSUME NEW w \in Worker, WorkerStep(w) PROVE IInv'
  BY <1>4, HandOverKeeps, HandleKeeps DEF WorkerStep
<1>. QED  BY <1>1, <1>2, <1>3, <1>4 DEF Next

\* Whatever instances do and Redis loses, the invariant holds.
THEOREM InvariantHolds == Spec => []IInv
<1>1. Init => IInv  BY ConsumerAssumption, InitIInv
<1>2. IInv /\ [Next]_vars => IInv'  BY ConsumerAssumption, NextIInv
<1>. QED  BY <1>1, <1>2, PTL DEF Spec

\* Redis, goroutines and tasks keep their types.
THEOREM TypeCorrect == Spec => []TypeOK
<1>1. IInv => TypeOK  BY DEF IInv
<1>. QED  BY <1>1, InvariantHolds, PTL

\* An entry of the stream is to be delivered, or pending, or its task is claimed
\* (consumer.go:238-292), for any number of instances, entries and losses.
THEOREM NoWakeUpIsLost == Spec => []NoLostWakeUp
<1>1. IInv => NoLostWakeUp  BY DEF IInv
<1>. QED  BY <1>1, InvariantHolds, PTL

\* Who will execute a task is alone with it, so the count never passes one.
LEMMA AloneIsOnce ==
  ASSUME IInv, NEW t \in Task
  PROVE  /\ executions[t] <= 1
         /\ executions[t] + Cardinality({w \in Worker :
              worker[w].at = "ack" /\ worker[w].acquired /\ TaskAt(w) = t}) <= 1
         /\ executions[t] = 1 => t \in claimed
<1>. DEFINE owners == {w \in Worker : worker[w].at = "ack" /\ worker[w].acquired /\ TaskAt(w) = t}
<1>1. /\ executions[t] \in Nat /\ executions[t] <= 1 /\ (executions[t] = 1 => t \in claimed)
  BY DEF IInv, TypeOK, OwnerIsAlone
<1>2. \A w, v \in owners : w = v
  BY DEF IInv, OwnerIsAlone, WillExecute
<1>3. owners # {} => executions[t] = 0
  BY DEF IInv, OwnerIsAlone, WillExecute
<1>4. Cardinality(owners) <= 1 /\ (Cardinality(owners) # 0 => owners # {}) /\ Cardinality(owners) \in Nat
  <2>. HIDE DEF owners
  <2>. QED  BY <1>2, AtMostOne
<1>5. executions[t] + Cardinality(owners) <= 1
  <2>. HIDE DEF owners
  <2>. QED  BY <1>1, <1>3, <1>4
<1>. QED  BY <1>1, <1>5

\* However often an entry is delivered, reclaimed or added again, its task executes
\* at most once (TestConsumerExecutesDuplicateTaskOnlyOnce).
THEOREM NothingExecutesTwice == Spec => []ExecutedOnce
<1>1. IInv => ExecutedOnce  BY AloneIsOnce DEF ExecutedOnce
<1>. QED  BY <1>1, InvariantHolds, PTL

-----------------------------------------------------------------------------
(* What workers hold comes out of the stream, whatever becomes of the stream.  *)

\* All that is in the stream, pending, or in somebody's hands is one of the entries
\* S, and a claimed task is one of theirs.
HandsIn(S) ==
  /\ \A x \in Instance :
       /\ reader[x].at = "send" => reader[x].entry \in S
       /\ reclaimer[x].at = "send" => reclaimer[x].entry \in S
  /\ \A w \in Worker : worker[w].at \in {"claim", "ack"} => worker[w].entry \in S
ClaimedIn(S) == \A t \in claimed : \E e \in S : TaskOf[e] = t
HeldIn(S) == entries \subseteq S /\ pending \subseteq S /\ HandsIn(S) /\ ClaimedIn(S)

\* The places' fields.
LEMMA Fields ==
  /\ \A at, e : ReaderAt(at, e).at = at /\ ReaderAt(at, e).entry = e
  /\ \A at, e, next : ReclaimerAt(at, e, next).at = at /\ ReclaimerAt(at, e, next).entry = e
  /\ \A at, e, acquired : WorkerAt(at, e, acquired).at = at /\ WorkerAt(at, e, acquired).entry = e
BY DEF ReaderAt, ReclaimerAt, WorkerAt

\* One step of an instance, seen from its goroutines: whoever comes to hold an entry
\* has got it from S.
LEMMA HandsTake ==
  ASSUME GoInv, NEW S, HandsIn(S), NEW x \in Instance,
         \/ UNCHANGED reader
         \/ \E r : reader' = [reader EXCEPT ![x] = r] /\ (r.at = "send" => r.entry \in S),
         \/ UNCHANGED reclaimer
         \/ \E r : reclaimer' = [reclaimer EXCEPT ![x] = r] /\ (r.at = "send" => r.entry \in S),
         \/ UNCHANGED worker \/ WorkersGo(x, "idle") \/ WorkersGo(x, "gone")
         \/ \E w \in Worker : \E r :
              worker' = [worker EXCEPT ![w] = r] /\ (r.at \in {"claim", "ack"} => r.entry \in S)
  PROVE  HandsIn(S)'
<1>1. \A y \in Instance : reader'[y].at = "send" => reader'[y].entry \in S
  BY DEF HandsIn, GoInv, GoTypeOK
<1>2. \A y \in Instance : reclaimer'[y].at = "send" => reclaimer'[y].entry \in S
  BY DEF HandsIn, GoInv, GoTypeOK
<1>3. \A w \in Worker : worker'[w].at \in {"claim", "ack"} => worker'[w].entry \in S
  <2>1. CASE WorkersGo(x, "idle") \/ WorkersGo(x, "gone")
    BY <2>1 DEF HandsIn, WorkersGo, WorkerAt
  <2>2. CASE UNCHANGED worker
    BY <2>2 DEF HandsIn
  <2>3. ASSUME NEW v \in Worker, NEW r, worker' = [worker EXCEPT ![v] = r],
               r.at \in {"claim", "ack"} => r.entry \in S
        PROVE  \A w \in Worker : worker'[w].at \in {"claim", "ack"} => worker'[w].entry \in S
    BY <2>3 DEF HandsIn, GoInv, GoTypeOK
  <2>. QED  BY <2>1, <2>2, <2>3
<1>. QED  BY <1>1, <1>2, <1>3 DEF HandsIn

\* What an instance does: what it reads or reclaims is in the stream or pending.
LEMMA InstanceHolds ==
  ASSUME IInv, NEW S, HeldIn(S), NEW x \in Instance, InstanceStep(x)
  PROVE  HeldIn(S)'
<1>1. GoInv
  BY InvParts
<1>2. CASE Start(x) \/ Close(x) \/ Closed(x) \/ Dies(x)
  <2>1. UNCHANGED <<entries, pending, claimed>>
    BY <1>2 DEF Start, Close, Closed, Dies, CreateGroup, redisVars
  <2>2. UNCHANGED reader \/ \E at \in {"read", "gone"} : reader' = [reader EXCEPT ![x] = ReaderAt(at, 0)]
    BY <1>2 DEF Start, Close, Closed, Dies
  <2>3. \/ UNCHANGED reclaimer
        \/ \E at \in {"tick", "gone"} : reclaimer' = [reclaimer EXCEPT ![x] = ReclaimerAt(at, 0, 0)]
    BY <1>2 DEF Start, Close, Closed, Dies
  <2>4. UNCHANGED worker \/ WorkersGo(x, "idle") \/ WorkersGo(x, "gone")
    BY <1>2 DEF Start, Close, Closed, Dies, WorkersGo
  <2>5. UNCHANGED reader \/ \E r : reader' = [reader EXCEPT ![x] = r] /\ (r.at = "send" => r.entry \in S)
    BY ONLY <2>2, Fields
  <2>6. \/ UNCHANGED reclaimer
        \/ \E r : reclaimer' = [reclaimer EXCEPT ![x] = r] /\ (r.at = "send" => r.entry \in S)
    BY ONLY <2>3, Fields
  <2>7. HandsIn(S)'
    BY <1>1, <2>4, <2>5, <2>6, HandsTake DEF HeldIn
  <2>. QED  BY <2>1, <2>7 DEF HeldIn, ClaimedIn
<1>3. CASE \/ ReadNoGroup(x) \/ ReadEnsures(x) \/ ReaderReturns(x)
           \/ \E e \in Entry : ReadNew(x, e) \/ ReadLost(x, e)
  <2>1. UNCHANGED <<entries, claimed, reclaimer, worker>> /\ pending' \subseteq pending \cup entries
    BY <1>3 DEF ReadNoGroup, ReadEnsures, ReaderReturns, ReadNew, ReadLost, Delivers, CreateGroup, SetReader,
                redisVars, goVars
  <2>2. \/ UNCHANGED reader
        \/ \E at \in {"read", "ensure", "gone"} : reader' = [reader EXCEPT ![x] = ReaderAt(at, 0)]
        \/ \E e \in entries : reader' = [reader EXCEPT ![x] = ReaderAt("send", e)]
    BY <1>3 DEF ReadNoGroup, ReadEnsures, ReaderReturns, ReadNew, ReadLost, Delivers, SetReader, goVars
  <2>3. UNCHANGED reader \/ \E r : reader' = [reader EXCEPT ![x] = r] /\ (r.at = "send" => r.entry \in S)
    BY <2>2, Fields DEF HeldIn
  <2>4. HandsIn(S)'
    BY <1>1, <2>1, <2>3, HandsTake DEF HeldIn
  <2>. QED  BY <2>1, <2>4 DEF HeldIn, ClaimedIn
<1>4. CASE \/ Tick(x) \/ ReclaimEnds(x) \/ ReclaimNoGroup(x) \/ ReclaimEnsures(x)
           \/ ReclaimerReturns(x)
           \/ \E e \in Entry : Reclaim(x, e) \/ ReclaimLost(x, e)
  <2>1. UNCHANGED <<entries, pending, claimed, reader, worker>>
    BY <1>4 DEF Tick, ReclaimEnds, ReclaimNoGroup, ReclaimEnsures, ReclaimerReturns, Reclaim, ReclaimLost,
                Reclaims, CreateGroup, SetReclaimer, redisVars
  <2>2. \/ \E at \in {"tick", "scan", "ensure", "gone"} :
             reclaimer' = [reclaimer EXCEPT ![x] = ReclaimerAt(at, 0, 0)]
        \/ \E e \in pending : \E next : reclaimer' = [reclaimer EXCEPT ![x] = ReclaimerAt("send", e, next)]
    BY <1>4 DEF Tick, ReclaimEnds, ReclaimNoGroup, ReclaimEnsures, ReclaimerReturns, Reclaim, ReclaimLost,
                Reclaims, Scanned, SetReclaimer
  <2>3. \E r : reclaimer' = [reclaimer EXCEPT ![x] = r] /\ (r.at = "send" => r.entry \in S)
    BY <2>2, Fields DEF HeldIn
  <2>4. HandsIn(S)'
    BY <1>1, <2>1, <2>3, HandsTake DEF HeldIn
  <2>. QED  BY <2>1, <2>4 DEF HeldIn, ClaimedIn
<1>. QED  BY <1>2, <1>3, <1>4 DEF InstanceStep

\* What a worker does: it takes over what its instance holds, and claims its task.
LEMMA WorkerHolds ==
  ASSUME IInv, ConsumerAssumption, NEW S, HeldIn(S), NEW w \in Worker, WorkerStep(w)
  PROVE  HeldIn(S)'
<1>. DEFINE x == InstanceOf[w]
<1>1. GoInv /\ x \in Instance
  BY InvParts DEF ConsumerAssumption
<1>. HIDE DEF x
<1>2. CASE ReaderSends(w) \/ ReclaimerSends(w)
  <2>1. UNCHANGED <<entries, pending, claimed>>
    BY <1>2 DEF ReaderSends, ReclaimerSends, redisVars
  <2>2. \E e \in S : worker' = [worker EXCEPT ![w] = WorkerAt("claim", e, FALSE)]
    BY <1>1, <1>2 DEF ReaderSends, ReclaimerSends, HeldIn, HandsIn, x
  <2>3. UNCHANGED reader \/ reader' = [reader EXCEPT ![x] = ReaderAt("read", 0)]
    BY <1>2 DEF ReaderSends, ReclaimerSends, x
  <2>4. UNCHANGED reclaimer \/ reclaimer' = [reclaimer EXCEPT ![x] = AfterSend(reclaimer[x])]
    BY <1>1, <1>2 DEF ReaderSends, ReclaimerSends, x
  <2>5. ReaderAt("read", 0).at # "send" /\ AfterSend(reclaimer[x]).at # "send"
    BY DEF ReaderAt, AfterSend, ReclaimerAt
  <2>6. \E r : worker' = [worker EXCEPT ![w] = r] /\ (r.at \in {"claim", "ack"} => r.entry \in S)
    <3>1. PICK e \in S : worker' = [worker EXCEPT ![w] = WorkerAt("claim", e, FALSE)]
      BY ONLY <2>2
    <3>2. WorkerAt("claim", e, FALSE).entry \in S
      BY <3>1 DEF WorkerAt
    <3>. QED  BY ONLY <3>1, <3>2
  <2>7. HandsIn(S)'
    <3>1. UNCHANGED reader \/ \E r : reader' = [reader EXCEPT ![x] = r] /\ (r.at = "send" => r.entry \in S)
      BY ONLY <2>3, <2>5
    <3>2. \/ UNCHANGED reclaimer
          \/ \E r : reclaimer' = [reclaimer EXCEPT ![x] = r] /\ (r.at = "send" => r.entry \in S)
      BY ONLY <2>4, <2>5
    <3>. QED  BY <1>1, <2>6, <3>1, <3>2, HandsTake DEF HeldIn
  <2>. QED  BY <2>1, <2>7 DEF HeldIn, ClaimedIn
<1>3. CASE \/ WorkerReturns(w) \/ SkipUnreadable(w) \/ Claim(w) \/ ClaimFails(w)
           \/ Ack(w) \/ AckFails(w) \/ ExecuteReturns(w)
  <2>1. UNCHANGED <<entries, reader, reclaimer>> /\ pending' \subseteq pending
    BY <1>3 DEF WorkerReturns, SkipUnreadable, Claim, ClaimFails, Ack, AckFails, AfterAck, ExecuteReturns,
                SetWorker, redisVars
  <2>2. \/ \E at \in {"idle", "gone", "execute"} : \E e, acquired :
             worker' = [worker EXCEPT ![w] = WorkerAt(at, e, acquired)]
        \/ /\ worker[w].at = "claim"
           /\ \E acquired : worker' = [worker EXCEPT ![w] = WorkerAt("ack", worker[w].entry, acquired)]
    BY <1>3 DEF WorkerReturns, SkipUnreadable, Claim, ClaimFails, Ack, AckFails, AfterAck, ExecuteReturns,
                SetWorker
  <2>3. worker[w].at = "claim" => worker[w].entry \in S
    BY DEF HeldIn, HandsIn
  <2>5. HandsIn(S)'
    <3>1. \E r : worker' = [worker EXCEPT ![w] = r] /\ (r.at \in {"claim", "ack"} => r.entry \in S)
      BY ONLY <2>2, <2>3, Fields
    <3>. QED  BY <1>1, <2>1, <3>1, HandsTake DEF HeldIn
  <2>6. claimed' \subseteq claimed \/ (worker[w].at = "claim" /\ claimed' \subseteq claimed \cup {TaskAt(w)})
    BY <1>3 DEF WorkerReturns, SkipUnreadable, Claim, ClaimFails, Ack, AckFails, ExecuteReturns
  <2>7. ClaimedIn(S)'
    BY <2>3, <2>6 DEF HeldIn, ClaimedIn, TaskAt
  <2>. QED  BY <2>1, <2>5, <2>7 DEF HeldIn
<1>. QED  BY <1>2, <1>3 DEF WorkerStep

\* Whatever S the entries of the stream stay in, workers hold and claim nothing else.
LEMMA HeldStays ==
  ASSUME IInv, ConsumerAssumption, NEW S, HeldIn(S), [Next]_vars, entries' \subseteq S
  PROVE  HeldIn(S)'
<1>1. CASE Redis \/ UNCHANGED vars
  <2>1. pending' \subseteq pending /\ UNCHANGED <<claimed, reader, reclaimer, worker>>
    BY <1>1 DEF Redis, LosesData, Add, BecomesIdle, vars, redisVars, goVars
  <2>. QED  BY <2>1 DEF HeldIn, HandsIn, ClaimedIn
<1>. QED  BY <1>1, InstanceHolds, WorkerHolds DEF Next

\* A step begins to execute at most one task, one that is claimed and has not been
\* executed before.
LEMMA ExecutesOne ==
  ASSUME IInv, ConsumerAssumption, [Next]_vars
  PROVE  \/ UNCHANGED executions
         \/ \E t \in claimed : executions[t] = 0 /\ executions' = [executions EXCEPT ![t] = 1]
<1>1. ASSUME NEW w \in Worker, worker[w].at = "ack", AfterAck(w)
      PROVE  \/ UNCHANGED executions
             \/ \E t \in claimed : executions[t] = 0 /\ executions' = [executions EXCEPT ![t] = 1]
  <2>1. TaskAt(w) \in claimed /\ (worker[w].acquired => executions[TaskAt(w)] = 0)
    BY <1>1 DEF IInv, AckIsClaimed, OwnerIsAlone, WillExecute
  <2>2. CASE worker[w].acquired
    BY <1>1, <2>1, <2>2 DEF AfterAck
  <2>3. CASE ~worker[w].acquired
    BY <1>1, <2>3 DEF AfterAck
  <2>. QED  BY <2>2, <2>3
<1>2. CASE Redis \/ UNCHANGED vars
  BY <1>2 DEF Redis, LosesData, Add, BecomesIdle, vars
<1>3. ASSUME NEW x \in Instance, InstanceStep(x) PROVE UNCHANGED executions
  BY <1>3 DEF InstanceStep, Start, Close, Closed, Dies, ReadNoGroup, ReadEnsures, ReaderReturns, ReadNew,
              ReadLost, Tick, ReclaimEnds, ReclaimNoGroup, ReclaimEnsures, ReclaimerReturns, Reclaim,
              ReclaimLost
<1>4. ASSUME NEW w \in Worker, WorkerStep(w) PROVE UNCHANGED executions \/ (worker[w].at = "ack" /\ AfterAck(w))
  BY <1>4 DEF WorkerStep, ReaderSends, ReclaimerSends, WorkerReturns, SkipUnreadable, Claim, ClaimFails,
              Ack, AckFails, ExecuteReturns
<1>. QED  BY <1>1, <1>2, <1>3, <1>4 DEF Next
=============================================================================
