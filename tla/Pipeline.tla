-------------------------------- MODULE Pipeline --------------------------------
(***************************************************************************)
(* The path of a task from the transaction that commits its dispatch to    *)
(* its execution: the Outbox, whose XADDs make the entries that a group of *)
(* Consumers reads.  Each part goes its own way but for that one call      *)
(* (adapters/messaging/redisstream/producer.go:80).                        *)
(***************************************************************************)
EXTENDS Outbox

CONSTANTS
  Here,       \* the dispatches that go to this stream; other rows name other ones
  TaskFor,    \* the task_id a dispatch carries
  Entry, Task, TaskOf, Unreadable, Instance, Worker, InstanceOf, ScanLimit, MaxLosses

VARIABLES
  entries, group, lastAdded, lastDelivered, pending, idle, losses, claimed,
  phase, reader, reclaimer, worker, executions,
  kept        \* history: Redis has never lost an entry of the stream

\* The consumers and what is proved of them.
Consumer == INSTANCE StreamConsumerProofs

consumerVars == <<entries, group, lastAdded, lastDelivered, pending, idle, losses, claimed,
                  phase, reader, reclaimer, worker, executions>>
pipelineVars == <<vars, consumerVars, kept>>

\* TaskOf says of every id what an entry that gets it will be about; as XADD may
\* skip ids, this leaves open which entries come and in which order.
PipelineAssumption ==
  /\ Consumer!ConsumerAssumption
  /\ Here \subseteq Dispatch
  /\ TaskFor \in [Here -> Task]

PipelineInit == Init /\ Consumer!Init /\ kept = TRUE

\* The entry that an XADD for this dispatch makes.
Arrives(d) == \E e \in Entry : TaskOf[e] = TaskFor[d] /\ Consumer!Add(e)

\* A relay's XADD to this stream, whether or not its reply arrives.
Signals(d) ==
  /\ \E c \in Caller : XAddUnanswered(c, d) \/ XAddAnswered(c, d)
  /\ Arrives(d)

\* Every other step of a relay, and its XADDs to other streams.
RelaySteps ==
  /\ Next
  /\ stream' = stream \/ \E d \in Dispatch \ Here : stream' = Append(stream, d)
  /\ UNCHANGED consumerVars

\* A step of Redis or of a consumer; an entry it adds is another program's.
ConsumerSteps == Consumer!Next /\ UNCHANGED vars

PipelineNext ==
  /\ (\E d \in Here : Signals(d)) \/ RelaySteps \/ ConsumerSteps
  /\ kept' = (kept /\ entries \subseteq entries')

PipelineSpec == PipelineInit /\ [][PipelineNext]_pipelineVars

-------------------------------------------------------------------------------
(* Properties. *)

\* A task has been claimed, or there is an entry that will bring it to a worker.
OnItsWay(t) ==
  \/ t \in claimed
  \/ \E e \in entries : TaskOf[e] = t /\ (Consumer!Undelivered(e) \/ e \in pending)

\* From the commit on no dispatch is lost, whatever relays and consumers crash, time
\* out or do twice: its row is still to be published, or was given up after
\* MaxAttempts, or its task is on its way - unless Redis has lost the stream
\* (docs/adr/0006: commit atomically, publish at least once, claim once).
NothingCommittedIsLost ==
  kept => \A d \in Here :
    \/ status[d] \in {"absent", "pending", "publishing"}
    \/ status[d] = "dead" /\ (d \in Malformed \/ attempts[d] = MaxAttempts)
    \/ OnItsWay(TaskFor[d])

\* What ties the two parts: an entry for each dispatch of this stream that was XADDed.
SignalsArrived ==
  kept => \A d \in Here : InStream(d) => \E e \in entries : TaskOf[e] = TaskFor[d]

\* The tasks of these dispatches, and the entries that are rightly in the stream or
\* in a worker's hands: if about one of these tasks, a dispatch of it was XADDed.
Ours == {TaskFor[d] : d \in Here}
Rightful == {e \in Entry : TaskOf[e] \in Ours => \E d \in Here : InStream(d) /\ TaskFor[d] = TaskOf[e]}

\* Nobody but a relay writes an entry about one of these tasks: task ids are not
\* shared, and Publish has no other caller (foundation/taskdispatch/relay.go:61).
OthersStayApart == ConsumerSteps => \A e \in entries' \ entries : TaskOf[e] \notin Ours

\* The refinement mapping: what the rows and the workers say of the tasks.
Delivery == INSTANCE TaskDelivery WITH
  Task <- Ours,
  committed <- {TaskFor[d] : d \in {x \in Here : status[x] # "absent"}},
  begun <- [t \in Ours |-> executions[t]]

\* No task executes before the transaction that creates it has committed, nor a
\* second time, whatever is crashed, lost or repeated in between
\* (docs/adr/0006: commit atomically, publish at least once, claim once).
ImplementsTaskDelivery == Delivery!Spec
===============================================================================
