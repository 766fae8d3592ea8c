-------------------------------- MODULE Outbox --------------------------------
(***************************************************************************)
(* The transactional Outbox and the relays that empty it:                  *)
(* adapters/mysql/taskdispatch/outbox.go (the table and its statements)    *)
(* and foundation/taskdispatch/relay.go (the publish loop).                *)
(*                                                                         *)
(* A caller is a goroutine inside Relay.Run or Relay.PublishOne.  Callers  *)
(* of one Relay share its owner UUID (OwnerOf); another process has        *)
(* another owner, and a restarted process never reuses one.                *)
(*                                                                         *)
(* Time is abstracted to the two comparisons the statements make: `due` is *)
(* next_attempt_at <= now and `leased` is lease_until > now.  Nothing in   *)
(* the relay compares its own progress with the lease, so a lease may run  *)
(* out between any two of its steps.  Each MySQL or Redis call may succeed,*)
(* fail, or take effect and lose its reply; an expired job context is the  *)
(* case in which it fails.                                                 *)
(***************************************************************************)
EXTENDS Integers, FiniteSets, Sequences

CONSTANTS
  Dispatch,     \* row ids in insertion order, each standing for its dispatch_id
  Malformed,    \* rows whose message or stream name Claim rejects
  Caller,       \* goroutines that use a relay
  Scheduled,    \* those the scheduler runs; the others publish what they commit
  Owner,        \* relay owner UUIDs
  OwnerOf,      \* the relay each caller uses
  NoOwner,      \* the empty lease_owner
  Crashing,     \* owners whose process may die
  BatchLimit,   \* rows per Claim (100 in Run)
  MaxAttempts,  \* attempts after which a failed publish is dead (20)
  MaxStream     \* bound on the stream's length, for TLC only

ASSUME OutboxAssumption ==
  /\ Dispatch \subseteq Nat
  /\ Malformed \subseteq Dispatch
  /\ Scheduled \subseteq Caller
  /\ OwnerOf \in [Caller -> Owner]
  /\ NoOwner \notin Owner
  /\ Crashing \subseteq Owner
  /\ BatchLimit \in Nat \ {0}
  /\ MaxAttempts \in Nat \ {0}

VARIABLES
  status,     \* row status; "absent" before the insert, "deleted" after cleanup
  attempts,   \* attempts column, counted up to MaxAttempts
  due,        \* next_attempt_at has passed
  leaseOwner, \* lease_owner column
  leased,     \* lease_until lies in the future
  stream,     \* the Redis stream: the dispatch ids XADDed, in order
  pc,         \* where each caller is
  batch,      \* rows a caller has claimed and not yet dealt with
  taken,      \* Outbound.Attempts of the rows in its batch
  full        \* the last claim of Run returned BatchLimit messages

rowVars == <<status, attempts, due, leaseOwner, leased>>
callerVars == <<pc, batch, taken, full>>
vars == <<status, attempts, due, leaseOwner, leased, stream, pc, batch, taken, full>>

Status == {"absent", "pending", "publishing", "published", "dead", "deleted"}
Control == {"idle", "loop", "claim_one", "publish", "mark_published", "mark_retry", "down"}

\* Types: a row's status is one the statements of outbox.go know, and a caller is
\* at a step of relay.go.
TypeOK ==
  /\ status \in [Dispatch -> Status]
  /\ attempts \in [Dispatch -> 0 .. MaxAttempts]
  /\ due \in [Dispatch -> BOOLEAN]
  /\ leaseOwner \in [Dispatch -> Owner \cup {NoOwner}]
  /\ leased \in [Dispatch -> BOOLEAN]
  /\ stream \in Seq(Dispatch)
  /\ pc \in [Caller -> Control]
  /\ batch \in [Caller -> SUBSET Dispatch]
  /\ taken \in [Caller -> [Dispatch -> 0 .. MaxAttempts]]
  /\ full \in [Caller -> BOOLEAN]

Init ==
  /\ status = [d \in Dispatch |-> "absent"]
  /\ attempts = [d \in Dispatch |-> 0]
  /\ due = [d \in Dispatch |-> FALSE]
  /\ leaseOwner = [d \in Dispatch |-> NoOwner]
  /\ leased = [d \in Dispatch |-> FALSE]
  /\ stream = <<>>
  /\ pc = [c \in Caller |-> "idle"]
  /\ batch = [c \in Caller |-> {}]
  /\ taken = [c \in Caller |-> [d \in Dispatch |-> 0]]
  /\ full = [c \in Caller |-> FALSE]

-------------------------------------------------------------------------------
(* The clock. *)

\* lease_until <= now becomes true.
LeaseExpires(d) ==
  /\ leased[d]
  /\ leased' = [leased EXCEPT ![d] = FALSE]
  /\ UNCHANGED <<status, attempts, due, leaseOwner, stream, callerVars>>

\* next_attempt_at <= now becomes true.
BackoffElapses(d) ==
  /\ status[d] = "pending"
  /\ ~due[d]
  /\ due' = [due EXCEPT ![d] = TRUE]
  /\ UNCHANGED <<status, attempts, leaseOwner, leased, stream, callerVars>>

-------------------------------------------------------------------------------
(* The store. *)

\* The business transaction that holds the INSERT commits.  Enqueue refuses a
\* malformed message; such a row can only come from another writer.
Enqueue(d) ==
  /\ status[d] = "absent"
  /\ status' = [status EXCEPT ![d] = "pending"]
  /\ due' = [due EXCEPT ![d] = TRUE]
  /\ UNCHANGED <<attempts, leaseOwner, leased, stream, callerVars>>

\* Fault: a claim that leaves rows whose relay gave up to their old owner.
ClaimableUnlessTaken(d) == status[d] = "pending" /\ due[d] /\ ~leased[d]

Claimable(d) ==
  /\ status[d] \in {"pending", "publishing"}
  /\ due[d]
  /\ ~leased[d]

\* ORDER BY id LIMIT limit.
Oldest(rows, limit) ==
  {d \in rows : Cardinality({e \in rows : e < d}) < limit}

\* The rows a claim selects when other transactions have `locked` locked.
Selected(locked) ==
  Oldest({d \in Dispatch : Claimable(d)} \ locked, BatchLimit)

Saturated(n) == IF n < MaxAttempts THEN n + 1 ELSE MaxAttempts

\* The claim transaction commits for the selected rows: well-formed ones are
\* leased to the owner, malformed ones go dead inside the same transaction.
ClaimCommits(owner, rows) ==
  /\ status' = [d \in Dispatch |->
       IF d \notin rows THEN status[d]
       ELSE IF d \in Malformed THEN "dead" ELSE "publishing"]
  /\ attempts' = [d \in Dispatch |->
       IF d \in rows THEN Saturated(attempts[d]) ELSE attempts[d]]
  /\ leaseOwner' = [d \in Dispatch |->
       IF d \notin rows THEN leaseOwner[d]
       ELSE IF d \in Malformed THEN NoOwner ELSE owner]
  /\ leased' = [d \in Dispatch |->
       IF d \in rows THEN d \notin Malformed ELSE leased[d]]
  /\ UNCHANGED due

\* Fault: a mark that checks the status alone.
HoldsAnyRow(c, d) == status[d] = "publishing"

\* WHERE status='publishing' AND lease_owner=?
HoldsRow(c, d) == status[d] = "publishing" /\ leaseOwner[d] = OwnerOf[c]

\* The UPDATE of MarkPublished or MarkRetry.
Settle(d, to, dueNow) ==
  /\ status' = [status EXCEPT ![d] = to]
  /\ due' = [due EXCEPT ![d] = dueNow]
  /\ leaseOwner' = [leaseOwner EXCEPT ![d] = NoOwner]
  /\ leased' = [leased EXCEPT ![d] = FALSE]
  /\ UNCHANGED attempts

-------------------------------------------------------------------------------
(* The relay. *)

\* Run or PublishOne returns; whatever is left of the batch stays leased.
Return(c) ==
  /\ pc' = [pc EXCEPT ![c] = "idle"]
  /\ batch' = [batch EXCEPT ![c] = {}]
  /\ taken' = [taken EXCEPT ![c] = [d \in Dispatch |-> 0]]
  /\ full' = [full EXCEPT ![c] = FALSE]

\* The caller receives the claimed messages and starts publishing them.
Receive(c, rows, limited) ==
  LET messages == rows \ Malformed IN
  IF messages = {} THEN Return(c)
  ELSE /\ pc' = [pc EXCEPT ![c] = "publish"]
       /\ batch' = [batch EXCEPT ![c] = messages]
       /\ taken' = [taken EXCEPT ![c] =
            [d \in Dispatch |-> IF d \in messages THEN Saturated(attempts[d]) ELSE 0]]
       /\ full' = [full EXCEPT ![c] = limited /\ Cardinality(messages) = BatchLimit]

\* The scheduler calls Run.
StartRun(c) ==
  /\ c \in Scheduled
  /\ pc[c] = "idle"
  /\ pc' = [pc EXCEPT ![c] = "loop"]
  /\ UNCHANGED <<rowVars, stream, batch, taken, full>>

\* Run: Claim(ctx, owner, 100, 30s) answers.
Claim(c, locked) ==
  /\ pc[c] = "loop"
  /\ ClaimCommits(OwnerOf[c], Selected(locked))
  /\ Receive(c, Selected(locked), TRUE)
  /\ UNCHANGED stream

\* Run: Claim fails, its transaction rolled back or, when the reply to COMMIT
\* was lost, committed; the context check of the loop head is the first case.
ClaimFails(c, locked) ==
  /\ pc[c] = "loop"
  /\ UNCHANGED rowVars \/ ClaimCommits(OwnerOf[c], Selected(locked))
  /\ Return(c)
  /\ UNCHANGED stream

\* The batch is published in id order.
IsNext(c, d) == d \in batch[c] /\ \A e \in batch[c] : d <= e

\* The creator calls PublishOne after its business transaction.
StartPublishOne(c, d) ==
  /\ c \notin Scheduled
  /\ pc[c] = "idle" /\ status[d] # "absent"
  /\ pc' = [pc EXCEPT ![c] = "claim_one"]
  /\ batch' = [batch EXCEPT ![c] = {d}]
  /\ UNCHANGED <<rowVars, stream, taken, full>>

\* PublishOne: ClaimOne finds the row, and answers or loses its reply; or it
\* finds nothing, or fails, and PublishOne returns.
ClaimOne(c, d) ==
  /\ pc[c] = "claim_one" /\ IsNext(c, d)
  /\ \/ /\ Claimable(d)
        /\ ClaimCommits(OwnerOf[c], {d})
        /\ Receive(c, {d}, FALSE) \/ Return(c)
     \/ UNCHANGED rowVars /\ Return(c)
  /\ UNCHANGED stream

\* XADD takes effect but its reply is lost: the Redis client sends it again.
XAddUnanswered(c, d) ==
  /\ pc[c] = "publish" /\ IsNext(c, d)
  /\ Len(stream) < MaxStream
  /\ stream' = Append(stream, d)
  /\ UNCHANGED <<rowVars, callerVars>>

\* Publish returns nil.
XAddAnswered(c, d) ==
  /\ pc[c] = "publish" /\ IsNext(c, d)
  /\ Len(stream) < MaxStream
  /\ stream' = Append(stream, d)
  /\ pc' = [pc EXCEPT ![c] = "mark_published"]
  /\ UNCHANGED <<rowVars, batch, taken, full>>

\* Fault: an error of Publish that is not returned.
PublishFailsUnnoticed(c, d) ==
  /\ pc[c] = "publish" /\ IsNext(c, d)
  /\ pc' = [pc EXCEPT ![c] = "mark_published"]
  /\ UNCHANGED <<rowVars, stream, batch, taken, full>>

\* Publish returns an error: Redis refused, the breaker is open, or ctx ended.
PublishFails(c, d) ==
  /\ pc[c] = "publish" /\ IsNext(c, d)
  /\ pc' = [pc EXCEPT ![c] = "mark_retry"]
  /\ UNCHANGED <<rowVars, stream, batch, taken, full>>

\* The loop moves on: to the next message, to the next Claim, or out of Run.
Advance(c, d) ==
  IF batch[c] # {d}
  THEN /\ pc' = [pc EXCEPT ![c] = "publish"]
       /\ batch' = [batch EXCEPT ![c] = @ \ {d}]
       /\ UNCHANGED <<taken, full>>
  ELSE IF full[c]
  THEN /\ pc' = [pc EXCEPT ![c] = "loop"]
       /\ batch' = [batch EXCEPT ![c] = {}]
       /\ UNCHANGED <<taken, full>>
  ELSE Return(c)

\* MarkPublished affects the row and its reply arrives.
MarkPublished(c, d) ==
  /\ pc[c] = "mark_published" /\ IsNext(c, d)
  /\ HoldsRow(c, d)
  /\ Settle(d, "published", due[d])
  /\ Advance(c, d)
  /\ UNCHANGED stream

\* Fault: the last attempt is not made.
RetryStatusTooSoon(c, d) == IF taken[c][d] + 1 >= MaxAttempts THEN "dead" ELSE "pending"



RetryStatus(c, d) == IF taken[c][d] >= MaxAttempts THEN "dead" ELSE "pending"

\* MarkRetry affects the row and its reply arrives.
MarkRetry(c, d) ==
  /\ pc[c] = "mark_retry" /\ IsNext(c, d)
  /\ HoldsRow(c, d)
  /\ Settle(d, RetryStatus(c, d), FALSE)
  /\ Advance(c, d)
  /\ UNCHANGED stream

\* MarkPublished or MarkRetry returns an error and the caller gives up: the
\* lease is lost, the statement failed, or it took effect and the reply is lost.
MarkFails(c, d) ==
  /\ IsNext(c, d)
  /\ \/ pc[c] \in {"mark_published", "mark_retry"} /\ UNCHANGED rowVars
     \/ /\ pc[c] = "mark_published" /\ HoldsRow(c, d)
        /\ Settle(d, "published", due[d])
     \/ /\ pc[c] = "mark_retry" /\ HoldsRow(c, d)
        /\ Settle(d, RetryStatus(c, d), FALSE)
  /\ Return(c)
  /\ UNCHANGED stream

\* Fault: retention by age alone, whatever became of the row.
CleanupSettled(c) ==
  /\ c \in Scheduled
  /\ pc[c] # "down"
  /\ \E rows \in SUBSET {d \in Dispatch : status[d] \in {"published", "dead"}} :
       /\ rows # {}
       /\ status' = [d \in Dispatch |-> IF d \in rows THEN "deleted" ELSE status[d]]
  /\ UNCHANGED <<attempts, due, leaseOwner, leased, stream, callerVars>>

\* task-dispatch-retention: rows published long enough ago are deleted.
CleanupPublished(c) ==
  /\ c \in Scheduled
  /\ pc[c] # "down"
  /\ \E rows \in SUBSET {d \in Dispatch : status[d] = "published"} :
       /\ rows # {}
       /\ status' = [d \in Dispatch |-> IF d \in rows THEN "deleted" ELSE status[d]]
  /\ UNCHANGED <<attempts, due, leaseOwner, leased, stream, callerVars>>

\* A process dies with its callers; its rows stay as the last commit left them.
Crash(o) ==
  /\ o \in Crashing
  /\ \E c \in Caller : OwnerOf[c] = o /\ pc[c] # "down"
  /\ pc' = [c \in Caller |-> IF OwnerOf[c] = o THEN "down" ELSE pc[c]]
  /\ batch' = [c \in Caller |-> IF OwnerOf[c] = o THEN {} ELSE batch[c]]
  /\ taken' = [c \in Caller |->
       IF OwnerOf[c] = o THEN [d \in Dispatch |-> 0] ELSE taken[c]]
  /\ full' = [c \in Caller |-> IF OwnerOf[c] = o THEN FALSE ELSE full[c]]
  /\ UNCHANGED <<rowVars, stream>>

-------------------------------------------------------------------------------
Clock == \E d \in Dispatch : LeaseExpires(d) \/ BackoffElapses(d)

Step(c) ==
  \/ StartRun(c)
  \/ CleanupPublished(c)
  \/ \E locked \in SUBSET Dispatch : Claim(c, locked) \/ ClaimFails(c, locked)
  \/ \E d \in Dispatch :
       \/ StartPublishOne(c, d)
       \/ ClaimOne(c, d)
       \/ XAddUnanswered(c, d)
       \/ XAddAnswered(c, d)
       \/ PublishFails(c, d)
       \/ MarkPublished(c, d)
       \/ MarkRetry(c, d)
       \/ MarkFails(c, d)

Next ==
  \/ Clock
  \/ \E d \in Dispatch : Enqueue(d)
  \/ \E c \in Caller : Step(c)
  \/ \E o \in Owner : Crash(o)

Spec == Init /\ [][Next]_vars

\* Time passes; a process that does not die is scheduled again and again
\* (cron starts Run every minute and the goroutine runs to its end); a call
\* that is tried for ever is answered in the end.  Nothing obliges a business
\* transaction to come, a process to die or Redis to accept an entry.
Fairness ==
  /\ \A d \in Dispatch : WF_vars(LeaseExpires(d)) /\ WF_vars(BackoffElapses(d))
  /\ \A c \in Caller :
       /\ WF_vars(StartRun(c))
       /\ WF_vars(ClaimFails(c, {}))
       /\ \A d \in Dispatch :
            /\ SF_vars(d \in Selected({}) /\ Claim(c, {}))
            /\ WF_vars(ClaimOne(c, d))
            /\ WF_vars(XAddAnswered(c, d) \/ PublishFails(c, d))
            /\ SF_vars(MarkPublished(c, d))
            /\ SF_vars(MarkRetry(c, d))
            /\ WF_vars(MarkFails(c, d))

FairSpec == Spec /\ Fairness

-------------------------------------------------------------------------------
(* Properties. *)

InStream(d) == \E i \in 1 .. Len(stream) : stream[i] = d

\* A row is recorded as published, and later deleted by retention, only if its
\* XADD took effect: no wake-up is lost between MySQL and Redis, whichever
\* relay marked the row and however its lease changed hands (relay.go publish).
PublishedWasAdded ==
  \A d \in Dispatch : status[d] \in {"published", "deleted"} => InStream(d)

\* A well-formed row goes dead only when its attempts are used up, even when
\* the relay that gives it up claimed it long before others did (relay.go:64).
DeadIsExhausted ==
  \A d \in Dispatch \ Malformed : status[d] = "dead" => attempts[d] = MaxAttempts

\* While a lease is live nobody but its owner changes the row: neither a claim
\* nor a late mark of a relay that held it before (outbox.go WHERE clauses).
LeaseProtects ==
  [][\A d \in Dispatch :
       (status[d] = "publishing" /\ leased[d] /\ <<status[d], leaseOwner[d], attempts[d]>>'
            # <<status[d], leaseOwner[d], attempts[d]>>)
         => \E c \in Caller : /\ OwnerOf[c] = leaseOwner[d]
                              /\ pc[c] \in {"mark_published", "mark_retry"}
                              /\ IsNext(c, d)]_vars

\* The inductive strengthening.  An Outbound was counted when it was claimed;
\* a row in hand has been committed; and past a successful Publish the message
\* in hand is on the stream.
TakenIsCounted ==
  \A c \in Caller, d \in Dispatch : taken[c][d] <= attempts[d]

InHandIsCommitted ==
  \A c \in Caller : \A d \in batch[c] : status[d] # "absent"

AnsweredIsInStream ==
  \A c \in Caller, d \in Dispatch :
    pc[c] = "mark_published" /\ IsNext(c, d) => InStream(d)

IInv ==
  /\ TypeOK
  /\ PublishedWasAdded
  /\ DeadIsExhausted
  /\ TakenIsCounted
  /\ InHandIsCommitted
  /\ AnsweredIsInStream

Alone(c) == \A other \in Caller \ {c} : pc[other] \in {"idle", "down"}

\* Once one scheduled relay works alone, which the scheduler's lease on outbox-relay is
\* there to ensure, every committed row ends published (perhaps cleaned up
\* since) or dead.  Two relays that keep outliving each other's leases may
\* pass a row back and forth for ever, so the premise is needed.
EventuallySettled ==
  \A c \in {r \in Scheduled : OwnerOf[r] \notin Crashing} :
    <>[]Alone(c) =>
      \A d \in Dispatch :
        (status[d] = "pending") ~> (status[d] \in {"published", "deleted", "dead"})

\* The refinement mapping: what the row and the stream say of a dispatch.
StageOf(d) ==
  CASE status[d] = "absent" -> "none"
    [] status[d] \in {"pending", "publishing"} -> "outstanding"
    [] status[d] = "published" -> "confirmed"
    [] status[d] = "dead" -> "abandoned"
    [] status[d] = "deleted" -> "forgotten"

Durable == INSTANCE DurableDispatch WITH
  stage <- [d \in Dispatch |-> StageOf(d)],
  signalled <- {d \in Dispatch : InStream(d)}

\* Whatever the relays, leases, retries and crashes do, the table behaves as a
\* durable list of dispatches (ADR 0006: commit atomically, retry unpublished).
ImplementsDurableDispatch == Durable!Spec
===============================================================================
