------------------------------- MODULE Realtime -------------------------------
(* One API instance's realtime side: the hub with its connected clients, the   *)
(* bus that carries events between instances through Redis Pub/Sub and keeps   *)
(* the presence members, and the handler goroutine of every connection.  The   *)
(* other instances are only their events.  go-redis sends a PUBLISH again of    *)
(* which the reply was lost, and envelopes have no id: an event may come from  *)
(* Redis several times.  What an event says is left out; the online counts     *)
(* that are broadcast as users come and go are events like all others.         *)
EXTENDS Naturals, Sequences, SequencesExt

CONSTANTS
  Conn, Owner,       \* connections, and the user of each
  Event,             \* bound: events ever published
  Target,            \* the users an event is for; {} for all
  Capacity,          \* clientQueueSize
  Retries            \* MaxRetries of go-redis, 3 by default

Beat == "beat"
ASSUME BeatIsNoEvent == Beat \notin Event
ASSUME CapacityIsNatural == Capacity \in Nat
ASSUME RetriesAreNatural == Retries \in Nat

VARIABLES
  phase,             \* where the handler of each connection is
  registered,        \* hub.clients
  shut,              \* clients that have been closed
  queue, got,        \* messages queued for a client, and events written to it
  hubOpen, busOpen,
  presence,          \* users with a presence member of this instance
  origin,            \* of each event: "here" if this instance publishes it
  sending,           \* "unsent", "sending" while its instance is in publish, "sent"
  repeats,           \* of each event: how often its PUBLISH has been sent again
  todo,              \* clients a dispatch of the event has still to reach
  wire, consumed,    \* messages the subscription holds, and the last one taken
  owed, before,      \* history: the clients each snapshot named; events of one
                     \* origin of which the first was sent when the second began
  overtaken          \* history: connections made while the member of their user
                     \* was about to be removed

realtimeVars == <<phase, registered, shut, queue, got, hubOpen, busOpen, presence, origin, sending,
                  repeats, todo, wire, consumed, owed, before, overtaken>>
clientVars == <<registered, shut, queue, got>>
eventVars == <<origin, sending, repeats, todo, wire, consumed, owed, before>>

Users == {Owner[c] : c \in Conn}
OpenAt(c) == phase[c] = "open" /\ c \in registered /\ c \notin shut

(* The connections and events that are yet to come; the others are over.       *)
RealtimeInit(conns, events) ==
  /\ phase = [c \in Conn |-> IF c \in conns THEN "new" ELSE "gone"] /\ registered = {} /\ shut = {}
  /\ queue = [c \in Conn |-> <<>>] /\ got = [c \in Conn |-> <<>>]
  /\ hubOpen = TRUE /\ busOpen = TRUE /\ presence = {}
  /\ origin \in [Event -> {"here", "there"}]
  /\ sending = [e \in Event |-> IF e \in events THEN "unsent" ELSE "sent"]
  /\ repeats = [e \in Event |-> 0] /\ todo = [e \in Event |-> {}]
  /\ wire = <<>> /\ consumed = {}
  /\ owed = [e \in Event |-> {}] /\ before = {} /\ overtaken = {}

-----------------------------------------------------------------------------
(* The hub. *)

(* Fault: the hub is not asked.                                                *)
UserOnlineNever(u) == FALSE
UserOnline(u) == \E c \in registered : Owner[c] = u

Disconnect(c) == shut' = shut \cup {c} /\ registered' = registered \ {c}

Snapshot(e) == {c \in registered : Target[e] = {} \/ Owner[c] \in Target[e]}

(* Fault: what does not fit is dropped.                                        *)
EnqueuesOrDrops(c, message) ==
  /\ queue' = IF c \in shut \/ Len(queue[c]) = Capacity THEN queue
              ELSE [queue EXCEPT ![c] = Append(@, message)]
  /\ UNCHANGED <<shut, registered>>

(* enqueue and dispatch: a client that is closed or slow is disconnected.      *)
Enqueues(c, message) ==
  IF c \in shut \/ Len(queue[c]) = Capacity THEN Disconnect(c) /\ UNCHANGED queue
  ELSE queue' = [queue EXCEPT ![c] = Append(@, message)] /\ UNCHANGED <<shut, registered>>

Deliver(e, c) ==
  /\ c \in todo[e]
  /\ Enqueues(c, e)
  /\ todo' = [todo EXCEPT ![e] = @ \ {c}]
  /\ UNCHANGED <<phase, got, hubOpen, busOpen, presence, origin, sending, repeats, wire, consumed,
                 owed, before, overtaken>>

-----------------------------------------------------------------------------
(* The handler of a connection: Connect, UserConnected, the loop, and the      *)
(* deferred Disconnect, UserOnline and UserDisconnected.                       *)
Goes(c, place) == phase' = [phase EXCEPT ![c] = place]
Leaving(u) == \E c \in Conn : phase[c] = "removing" /\ Owner[c] = u

Connect(c) ==
  /\ phase[c] = "new" /\ hubOpen
  /\ Goes(c, "touching")
  /\ registered' = registered \cup {c}
  /\ overtaken' = IF Leaving(Owner[c]) THEN overtaken \cup {c} ELSE overtaken
  /\ UNCHANGED <<shut, queue, got, hubOpen, busOpen, presence, eventVars>>

Touch(c) ==
  /\ phase[c] = "touching"
  /\ Goes(c, "open")
  /\ presence' = presence \cup {Owner[c]}
  /\ UNCHANGED <<clientVars, hubOpen, busOpen, eventVars, overtaken>>

(* ZADD or the online count fails: nothing removes a member that was added.    *)
TouchFails(c) ==
  /\ phase[c] = "touching"
  /\ Goes(c, "gone") /\ Disconnect(c)
  /\ presence' \in {presence, presence \cup {Owner[c]}}
  /\ UNCHANGED <<queue, got, hubOpen, busOpen, eventVars, overtaken>>

WriteMessage(c) ==
  /\ phase[c] = "open" /\ c \notin shut /\ queue[c] # <<>>
  /\ queue' = [queue EXCEPT ![c] = Tail(@)]
  /\ got' = IF Head(queue[c]) = Beat THEN got ELSE [got EXCEPT ![c] = Append(@, Head(queue[c]))]
  /\ UNCHANGED <<phase, registered, shut, hubOpen, busOpen, presence, eventVars, overtaken>>

(* Bus.Heartbeat, whose error is ignored, and Client.heartbeat.                *)
HeartbeatSent(c) ==
  /\ phase[c] = "open"
  /\ \/ /\ presence' = presence \cup {Owner[c]}
        /\ overtaken' = IF Leaving(Owner[c]) THEN overtaken ELSE overtaken \ {c}
     \/ UNCHANGED <<presence, overtaken>>
  /\ IF c \in shut \/ Len(queue[c]) = Capacity
       THEN Goes(c, "left") /\ Disconnect(c) /\ UNCHANGED queue
       ELSE Enqueues(c, Beat) /\ UNCHANGED phase
  /\ UNCHANGED <<got, hubOpen, busOpen, eventVars>>

(* The request's context or the client is done, or a write fails.              *)
Leaves(c) ==
  /\ phase[c] = "open"
  /\ Goes(c, "left") /\ Disconnect(c)
  /\ UNCHANGED <<queue, got, hubOpen, busOpen, presence, eventVars, overtaken>>

CheckOnline(c) ==
  /\ phase[c] = "left"
  /\ Goes(c, IF UserOnline(Owner[c]) THEN "gone" ELSE "removing")
  /\ UNCHANGED <<clientVars, hubOpen, busOpen, presence, eventVars, overtaken>>

(* ZREM; its error is ignored too.                                             *)
UserDisconnected(c) ==
  /\ phase[c] = "removing"
  /\ Goes(c, "gone")
  /\ presence' \in {presence, presence \ {Owner[c]}}
  /\ UNCHANGED <<clientVars, hubOpen, busOpen, eventVars, overtaken>>

(* A member lives 45 s, three heartbeats: it expires when nobody renews it.    *)
Expire(u) ==
  /\ u \in presence /\ ~\E c \in Conn : Owner[c] = u /\ OpenAt(c)
  /\ presence' = presence \ {u}
  /\ UNCHANGED <<phase, clientVars, hubOpen, busOpen, eventVars, overtaken>>

-----------------------------------------------------------------------------
(* The bus. *)
Dispatches(e) ==
  /\ todo' = [todo EXCEPT ![e] = Snapshot(e)]
  /\ owed' = [owed EXCEPT ![e] = @ \cup Snapshot(e)]
Follows(e) ==
  before' = before \cup {<<d, e>> : d \in {x \in Event : sending[x] = "sent" /\ origin[x] = origin[e]}}

(* publish: first to the clients here, if this is the event's instance.        *)
Publish(e) ==
  /\ origin[e] = "here" /\ sending[e] = "unsent"
  /\ sending' = [sending EXCEPT ![e] = "sending"]
  /\ Dispatches(e) /\ Follows(e)
  /\ UNCHANGED <<phase, clientVars, hubOpen, busOpen, presence, origin, repeats, wire, consumed,
                 overtaken>>

OthersPublish(e) ==
  /\ origin[e] # "here" /\ sending[e] = "unsent"
  /\ sending' = [sending EXCEPT ![e] = "sending"]
  /\ Follows(e)
  /\ UNCHANGED <<phase, clientVars, hubOpen, busOpen, presence, origin, repeats, todo, wire, consumed,
                 owed, overtaken>>

(* Then to Redis.  A PUBLISH reaches this subscription or does not.            *)
InPublish(e) == sending[e] = "sending" /\ (origin[e] = "here" => todo[e] = {})
Sends(e) == wire' \in {wire, Append(wire, e)}

(* Its reply is lost: it is sent again.                                        *)
SendUnanswered(e) ==
  /\ InPublish(e) /\ repeats[e] < Retries
  /\ repeats' = [repeats EXCEPT ![e] = @ + 1]
  /\ Sends(e)
  /\ UNCHANGED <<phase, clientVars, hubOpen, busOpen, presence, origin, sending, todo, consumed, owed,
                 before, overtaken>>

(* It is answered or given up.                                                 *)
SendRemote(e) ==
  /\ InPublish(e)
  /\ sending' = [sending EXCEPT ![e] = "sent"]
  /\ Sends(e)
  /\ UNCHANGED <<phase, clientVars, hubOpen, busOpen, presence, origin, repeats, todo, consumed, owed,
                 before, overtaken>>

(* Fault: this instance's events are delivered again.                          *)
IsForeignAlways(e) == TRUE
IsForeign(e) == origin[e] # "here"

(* consume takes one message after the other, skipping this instance's own.    *)
Consume ==
  /\ wire # <<>> /\ busOpen /\ \A e \in consumed : todo[e] = {}
  /\ wire' = Tail(wire)
  /\ IF IsForeign(Head(wire)) THEN consumed' = {Head(wire)} /\ Dispatches(Head(wire))
     ELSE UNCHANGED <<consumed, todo, owed>>
  /\ UNCHANGED <<phase, clientVars, hubOpen, busOpen, presence, origin, sending, repeats, before,
                 overtaken>>

-----------------------------------------------------------------------------
(* stopRealtime: Hub.Close forgets the clients and closes them one by one;     *)
(* Bus.Close removes the members it finds, if Redis lets it.  It is called     *)
(* twice, and the second call may overtake the first between the two.          *)
HubClose ==
  /\ hubOpen /\ hubOpen' = FALSE
  /\ registered' = {}
  /\ UNCHANGED <<phase, shut, queue, got, busOpen, presence, eventVars, overtaken>>

CloseClient(c) ==
  /\ ~hubOpen /\ phase[c] \in {"touching", "open"} /\ c \notin shut
  /\ shut' = shut \cup {c}
  /\ UNCHANGED <<phase, registered, queue, got, hubOpen, busOpen, presence, eventVars, overtaken>>

BusClose ==
  /\ ~hubOpen /\ busOpen
  /\ busOpen' = FALSE
  /\ presence' \in SUBSET presence
  /\ UNCHANGED <<phase, clientVars, hubOpen, eventVars, overtaken>>

RealtimeNext ==
  \/ \E c \in Conn :
       \/ Connect(c) \/ Touch(c) \/ TouchFails(c) \/ WriteMessage(c) \/ HeartbeatSent(c)
       \/ Leaves(c) \/ CheckOnline(c) \/ UserDisconnected(c) \/ CloseClient(c)
       \/ \E e \in Event : Deliver(e, c)
  \/ \E u \in Users : Expire(u)
  \/ \E e \in Event : Publish(e) \/ OthersPublish(e) \/ SendUnanswered(e) \/ SendRemote(e)
  \/ Consume \/ HubClose \/ BusClose

-----------------------------------------------------------------------------
(* A client whose queue is full is dropped, never the message alone (README    *)
(* line 77): a client that is connected has, or is about to get, every event   *)
(* that was for it when the event came to this instance.                       *)
NoSilentGap ==
  \A e \in Event : \A c \in owed[e] :
    c \in shut \cup todo[e] \/ e \in ToSet(got[c]) \cup ToSet(queue[c])

(* Of two events that one instance published one after the other, a client     *)
(* gets no copy of the second before one of the first; and none of an event of *)
(* this instance twice, although these come back from Redis too.  Another      *)
(* instance's event it gets once more for every PUBLISH that is repeated.      *)
Comes(seq, d, e) == \E i, j \in 1..Len(seq) : i < j /\ seq[i] = d /\ seq[j] = e
Messages(c) == got[c] \o queue[c]
OriginOrder ==
  \A c \in Conn, d, e \in Event :
    Comes(Messages(c), d, e) => (d = e => IsForeign(d)) /\ <<e, d>> \notin before

(* A user with a connection here counts as online, although one member stands  *)
(* for all connections: who leaves asks the hub first.  Only a connection made *)
(* between that question and the ZREM loses its member until it next beats.    *)
PresenceHolds ==
  busOpen => \A c \in Conn : OpenAt(c) => Owner[c] \in presence \/ c \in overtaken

(* Handlers, clients and events are of their kinds, and queues bounded.        *)
RealtimeTypeOK ==
  /\ phase \in [Conn -> {"new", "touching", "open", "left", "removing", "gone"}]
  /\ registered \subseteq Conn /\ shut \subseteq Conn
  /\ queue \in [Conn -> Seq(Event \cup {Beat})] /\ \A c \in Conn : Len(queue[c]) <= Capacity
  /\ got \in [Conn -> Seq(Event)]
  /\ presence \subseteq Users
  /\ sending \in [Event -> {"unsent", "sending", "sent"}] /\ wire \in Seq(Event)
  /\ repeats \in [Event -> 0..Retries]
  /\ todo \in [Event -> SUBSET Conn] /\ owed \in [Event -> SUBSET Conn]

(* Why presence holds: who is about to remove a member has found nobody else   *)
(* of the user registered, so whoever is by now has come since.                *)
LateComersAreOvertaken ==
  \A c \in registered :
    phase[c] \in {"touching", "open"} /\ Leaving(Owner[c]) => c \in overtaken

(* Why the order holds.  An instance sends an event before it begins the next, *)
(* and what a client has or is to get, has begun.                              *)
Has(c, e) == e \in ToSet(got[c]) \cup ToSet(queue[c])
BeforeIsSent ==
  /\ before \subseteq Event \X Event
  /\ \A d, e \in Event : <<d, e>> \in before =>
       sending[d] = "sent" /\ sending[e] # "unsent" /\ origin[d] = origin[e] /\ d # e
DeliveredHasBegun ==
  \A c \in Conn, e \in Event : Has(c, e) => sending[e] # "unsent" /\ (IsForeign(e) \/ c \notin todo[e])

(* An event of this instance is on its way here while it is published, and one *)
(* of another while it is the last one consumed ...                            *)
OwnIsLocal ==
  \A e \in Event : ~IsForeign(e) /\ sending[e] # "sending" => todo[e] = {}
ForeignIsConsumed ==
  /\ consumed \subseteq Event
  /\ \A e \in Event : IsForeign(e) /\ todo[e] # {} => e \in consumed

(* ... and the wire keeps the order: what came before an event that has been   *)
(* consumed is no longer to come.                                              *)
Seen(e) == e \in consumed \/ \E c \in Conn : Has(c, e)
WireKeepsOrder ==
  /\ \A e \in Event : IsForeign(e) /\ (Seen(e) \/ e \in ToSet(wire)) => sending[e] # "unsent"
  /\ \A d, e \in Event : IsForeign(e) /\ Seen(e) /\ <<d, e>> \in before =>
       d \notin ToSet(wire) /\ d \notin consumed
  /\ \A d, e \in Event : IsForeign(d) /\ IsForeign(e) /\ Comes(wire, d, e) => <<e, d>> \notin before

OrderIInv ==
  BeforeIsSent /\ DeliveredHasBegun /\ OwnIsLocal /\ ForeignIsConsumed /\ WireKeepsOrder /\ OriginOrder
RealtimeIInv == RealtimeTypeOK /\ NoSilentGap /\ PresenceHolds /\ LateComersAreOvertaken
RealtimeSpec ==
  (\E conns, events : RealtimeInit(conns, events)) /\ [][RealtimeNext]_realtimeVars
=============================================================================
