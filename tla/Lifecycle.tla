------------------------------- MODULE Lifecycle -------------------------------
(***************************************************************************)
(* foundation/lifecycle/manager.go: services start layer by layer, those   *)
(* of a layer in goroutines of their own, and stop in the reverse order.   *)
(*                                                                         *)
(* What a service's functions do is seen as one thing: whether it is open, *)
(* that is, holds connections or runs goroutines.  A start function that   *)
(* fails may leave it open, and a stop function that fails may too; either *)
(* may ignore its context.  A cancelled or expired context is a case of a  *)
(* function that fails.                                                    *)
(***************************************************************************)
EXTENDS Integers

CONSTANTS
  Service,
  DependsOn, \* the dependencies of each service
  Depth,     \* how many layers there are
  LayerOf    \* the layer of each service

\* What resolveLayers ensures when it accepts the graph.
ASSUME LayerAssumption ==
  /\ Depth \in Nat \ {0}
  /\ DependsOn \in [Service -> SUBSET Service]
  /\ LayerOf \in [Service -> 1 .. Depth]
  /\ \A s \in Service : \A d \in DependsOn[s] : LayerOf[d] < LayerOf[s]

VARIABLES
  at,      \* the manager: new, start, rollback, up, stop or down
  layer,   \* the layer it starts or stops
  started, \* Manager.started
  state,   \* Manager.states
  call,    \* each service's goroutine, and the result it has sent
  open,    \* the service is open
  leaked   \* history: services whose stop function failed

managerVars == <<at, layer, started, state, call, open, leaked>>

Control == {"new", "start", "rollback", "up", "stop", "down"}
State == {"stopped", "starting", "ready", "failed", "stopping"}
Call == {"none", "spawned", "starting", "start_ok", "start_error", "stopping", "stop_done"}

\* Types of the manager's fields (manager.go:21-41).
ManagerTypeOK ==
  /\ at \in Control
  /\ layer \in 0 .. Depth
  /\ started \in BOOLEAN
  /\ state \in [Service -> State]
  /\ call \in [Service -> Call]
  /\ open \in [Service -> BOOLEAN]
  /\ leaked \in SUBSET Service

ManagerInit ==
  /\ at = "new" /\ layer = 0 /\ started = FALSE
  /\ state = [s \in Service |-> "stopped"]
  /\ call = [s \in Service |-> "none"]
  /\ open = [s \in Service |-> FALSE]
  /\ leaked = {}

InLayer(n) == {s \in Service : LayerOf[s] = n}

\* Fault: one result is enough.
LayerIsDoneOnFirst == \E s \in InLayer(layer) : call[s] = "none"

\* Every result of the layer has been received.
LayerIsDone == \A s \in InLayer(layer) : call[s] = "none"

-------------------------------------------------------------------------------
(* Start. *)

Spawn(n) ==
  /\ layer' = n
  /\ call' = [s \in Service |-> IF LayerOf[s] = n THEN "spawned" ELSE call[s]]
  /\ UNCHANGED <<state, open, leaked>>

StartCalled ==
  /\ at = "new"
  /\ at' = "start"
  /\ Spawn(1)
  /\ UNCHANGED started

\* The goroutine of s: stateStarting, then the service's start function.
StartBegins(s) ==
  /\ call[s] = "spawned"
  /\ call' = [call EXCEPT ![s] = "starting"]
  /\ state' = [state EXCEPT ![s] = "starting"]
  /\ UNCHANGED <<at, layer, started, open, leaked>>

StartSucceeds(s) ==
  /\ call[s] = "starting"
  /\ call' = [call EXCEPT ![s] = "start_ok"]
  /\ open' = [open EXCEPT ![s] = TRUE]
  /\ UNCHANGED <<at, layer, started, state, leaked>>

StartFails(s) ==
  /\ call[s] = "starting"
  /\ call' = [call EXCEPT ![s] = "start_error"]
  /\ \E left \in BOOLEAN : open' = [open EXCEPT ![s] = left]
  /\ UNCHANGED <<at, layer, started, state, leaked>>

\* startLayer receives the result of s.
StartReceived(s) ==
  /\ call[s] \in {"start_ok", "start_error"}
  /\ call' = [call EXCEPT ![s] = "none"]
  /\ state' = [state EXCEPT ![s] = IF call[s] = "start_ok" THEN "ready" ELSE "failed"]
  /\ UNCHANGED <<at, layer, started, open, leaked>>

\* Fault: what failed to start is not stopped.
ToStopIfReady(s) == state[s] = "ready"

\* transitionToStopping.
ToStop(s) == state[s] \in {"ready", "failed"}

\* stopStarted turns to layer n.
StopLayer(n) ==
  /\ layer' = n
  /\ state' = [s \in Service |-> IF LayerOf[s] = n /\ ToStop(s) THEN "stopping" ELSE state[s]]
  /\ call' = [s \in Service |-> IF LayerOf[s] = n /\ ToStop(s) THEN "stopping" ELSE call[s]]
  /\ UNCHANGED <<open, leaked>>

\* startLayer returns: the next layer starts, or Start is done.
LayerStarted ==
  /\ at = "start" /\ LayerIsDone
  /\ \A s \in InLayer(layer) : state[s] # "failed"
  /\ \/ layer < Depth /\ Spawn(layer + 1) /\ UNCHANGED <<at, started>>
     \/ /\ layer = Depth
        /\ at' = "up" /\ started' = TRUE
        /\ UNCHANGED <<layer, state, call, open, leaked>>

\* startLayer returns an error: what has started is stopped, from the top layer.
LayerFailed ==
  /\ at = "start" /\ LayerIsDone
  /\ \E s \in InLayer(layer) : state[s] = "failed"
  /\ at' = "rollback" /\ started' = FALSE
  /\ StopLayer(Depth)

-------------------------------------------------------------------------------
(* Stop. *)

StopCalled ==
  /\ at = "up"
  /\ at' = "stop" /\ started' = FALSE
  /\ StopLayer(Depth)

StopSucceeds(s) ==
  /\ call[s] = "stopping"
  /\ call' = [call EXCEPT ![s] = "stop_done"]
  /\ open' = [open EXCEPT ![s] = FALSE]
  /\ UNCHANGED <<at, layer, started, state, leaked>>

StopFails(s) ==
  /\ call[s] = "stopping"
  /\ call' = [call EXCEPT ![s] = "stop_done"]
  /\ \E left \in BOOLEAN : open' = [open EXCEPT ![s] = open[s] /\ left]
  /\ leaked' = leaked \cup {s}
  /\ UNCHANGED <<at, layer, started, state>>

\* stopStarted receives the result of s; an error is only reported.
StopReceived(s) ==
  /\ call[s] = "stop_done"
  /\ call' = [call EXCEPT ![s] = "none"]
  /\ state' = [state EXCEPT ![s] = "stopped"]
  /\ UNCHANGED <<at, layer, started, open, leaked>>

\* The layer has stopped: the one below is next, or stopStarted is done.
LayerStopped ==
  /\ at \in {"rollback", "stop"} /\ LayerIsDone
  /\ \/ layer > 1 /\ StopLayer(layer - 1) /\ UNCHANGED at
     \/ /\ layer = 1
        /\ at' = "down"
        /\ UNCHANGED <<layer, state, call, open, leaked>>
  /\ UNCHANGED started

-------------------------------------------------------------------------------
Goroutine(s) ==
  \/ StartBegins(s) \/ StartSucceeds(s) \/ StartFails(s)
  \/ StopSucceeds(s) \/ StopFails(s)

\* What the manager does once Start or Stop has been called.
Proceeds ==
  \/ \E s \in Service : Goroutine(s) \/ StartReceived(s) \/ StopReceived(s)
  \/ LayerStarted \/ LayerFailed \/ LayerStopped

ManagerNext == StartCalled \/ StopCalled \/ Proceeds

ManagerSpec == ManagerInit /\ [][ManagerNext]_managerVars

-------------------------------------------------------------------------------
(* Properties. *)

\* Nothing is open without what it depends on: neither does a service start
\* before its dependencies have, nor do they stop before it, whichever start
\* function failed half-way and in whatever order the others return, unless its
\* own stop function failed (manager.go:96-99, 173-202).
OpenUsesOpen ==
  \A s \in Service : open[s] /\ s \notin leaked => \A d \in DependsOn[s] : open[d]

\* After a failed Start or after Stop nothing is open any more, half-started
\* services included, unless its stop function failed.
DownIsClosed ==
  at = "down" => \A s \in Service : open[s] => s \in leaked

\* What makes them inductive: where the layers stand around the current one.
Untouched(s) == state[s] = "stopped" /\ call[s] = "none" /\ ~open[s]
IsUp(s) == state[s] = "ready" /\ call[s] = "none" /\ open[s]
IsDown(s) == state[s] = "stopped" /\ call[s] = "none" /\ (open[s] => s \in leaked)
IsToStop(s) == Untouched(s) \/ IsUp(s) \/ (state[s] = "failed" /\ call[s] = "none")

IsStarting(s) ==
  \/ call[s] = "spawned" /\ state[s] = "stopped" /\ ~open[s]
  \/ call[s] = "starting" /\ state[s] = "starting" /\ ~open[s]
  \/ call[s] = "start_ok" /\ state[s] = "starting" /\ open[s]
  \/ call[s] = "start_error" /\ state[s] = "starting"
  \/ call[s] = "none" /\ state[s] = "failed"
  \/ IsUp(s)

IsStopping(s) ==
  \/ call[s] = "stopping" /\ state[s] = "stopping"
  \/ call[s] = "stop_done" /\ state[s] = "stopping" /\ (open[s] => s \in leaked)
  \/ IsDown(s)

LayersInOrder ==
  \A s \in Service :
    /\ at = "new" => Untouched(s)
    /\ at = "start" =>
         /\ layer > 0
         /\ LayerOf[s] < layer => IsUp(s)
         /\ LayerOf[s] = layer => IsStarting(s)
         /\ LayerOf[s] > layer => Untouched(s)
    /\ at = "up" => IsUp(s)
    /\ at \in {"rollback", "stop"} =>
         /\ layer > 0
         /\ LayerOf[s] < layer => IsToStop(s)
         /\ LayerOf[s] = layer => IsStopping(s)
         /\ LayerOf[s] > layer => IsDown(s)
    /\ at = "down" => IsDown(s)
===============================================================================
