------------------------------- MODULE RoleProofs -------------------------------
(***************************************************************************)
(* Proofs about Role and the manager it runs, for every dependency graph   *)
(* that has layers.  The inductive invariant says of each layer, seen from *)
(* the one the manager is at, what its services may be.                    *)
(***************************************************************************)
EXTENDS Role, TLAPS

\* What starting or stopping a layer writes has the right type (manager.go:142, 181).
LEMMA LayersAreTyped ==
  ASSUME ManagerTypeOK, NEW n \in 1 .. Depth, Spawn(n) \/ StopLayer(n)
  PROVE  /\ layer' \in 0 .. Depth
         /\ state' \in [Service -> State]
         /\ call' \in [Service -> Call]
         /\ open' \in [Service -> BOOLEAN]
         /\ leaked' \in SUBSET Service
<1>1. layer' \in 0 .. Depth
  BY LayerAssumption DEF Spawn, StopLayer
<1>2. state' \in [Service -> State]
  BY DEF Spawn, StopLayer, ManagerTypeOK, State
<1>3. call' \in [Service -> Call]
  BY DEF Spawn, StopLayer, ManagerTypeOK, Call
<1>4. open' \in [Service -> BOOLEAN] /\ leaked' \in SUBSET Service
  BY DEF Spawn, StopLayer, ManagerTypeOK
<1>5. QED
  BY <1>1, <1>2, <1>3, <1>4

\* A step of the manager keeps its variables in their types (manager.go).
LEMMA ManagerKeepsTypes ==
  ASSUME ManagerTypeOK, ManagerNext
  PROVE  ManagerTypeOK'
<1> USE LayerAssumption
<1>1. CASE StartCalled
  BY <1>1, LayersAreTyped DEF StartCalled, ManagerTypeOK, Control
<1>2. CASE StopCalled
  <2>1. Depth \in 1 .. Depth
    OBVIOUS
  <2>2. StopLayer(Depth) /\ at' \in Control /\ started' \in BOOLEAN
    BY <1>2 DEF StopCalled, Control
  <2>3. QED
    BY <2>1, <2>2, LayersAreTyped DEF ManagerTypeOK
<1>3. ASSUME NEW s \in Service, Goroutine(s)
      PROVE  ManagerTypeOK'
  <2>1. at' \in Control /\ layer' \in 0 .. Depth /\ started' \in BOOLEAN
    BY <1>3 DEF Goroutine, StartBegins, StartSucceeds, StartFails, StopSucceeds, StopFails,
                ManagerTypeOK
  <2>2. state' \in [Service -> State]
    BY <1>3 DEF Goroutine, StartBegins, StartSucceeds, StartFails, StopSucceeds, StopFails,
                ManagerTypeOK, State
  <2>3. call' \in [Service -> Call]
    BY <1>3 DEF Goroutine, StartBegins, StartSucceeds, StartFails, StopSucceeds, StopFails,
                ManagerTypeOK, Call
  <2>4. open' \in [Service -> BOOLEAN]
    BY <1>3 DEF Goroutine, StartBegins, StartSucceeds, StartFails, StopSucceeds, StopFails,
                ManagerTypeOK
  <2>5. leaked' \in SUBSET Service
    BY <1>3 DEF Goroutine, StartBegins, StartSucceeds, StartFails, StopSucceeds, StopFails,
                ManagerTypeOK
  <2>6. QED
    BY <2>1, <2>2, <2>3, <2>4, <2>5 DEF ManagerTypeOK
<1>4. ASSUME NEW s \in Service, StartReceived(s) \/ StopReceived(s)
      PROVE  ManagerTypeOK'
  BY <1>4 DEF StartReceived, StopReceived, ManagerTypeOK, Call, State
<1>5. CASE LayerStarted
  <2>1. layer < Depth => layer + 1 \in 1 .. Depth
    BY DEF ManagerTypeOK
  <2>2. QED
    BY <1>5, <2>1, LayersAreTyped DEF LayerStarted, ManagerTypeOK, Control
<1>6. CASE LayerFailed
  <2>1. Depth \in 1 .. Depth
    OBVIOUS
  <2>2. StopLayer(Depth) /\ at' \in Control /\ started' \in BOOLEAN
    BY <1>6 DEF LayerFailed, Control
  <2>3. QED
    BY <2>1, <2>2, LayersAreTyped DEF ManagerTypeOK
<1>7. CASE LayerStopped
  <2>1. layer > 1 => layer - 1 \in 1 .. Depth
    BY DEF ManagerTypeOK
  <2>2. QED
    BY <1>7, <2>1, LayersAreTyped DEF LayerStopped, ManagerTypeOK, Control
<1>8. QED
  BY <1>1, <1>2, <1>3, <1>4, <1>5, <1>6, <1>7 DEF ManagerNext, Proceeds

\* A goroutine that starts or stops a service belongs to the manager's layer.
LEMMA GoroutinesAreInLayer ==
  ASSUME ManagerTypeOK, LayersInOrder, NEW s \in Service, call[s] # "none"
  PROVE  /\ LayerOf[s] = layer
         /\ \/ at = "start" /\ IsStarting(s)
            \/ at \in {"rollback", "stop"} /\ IsStopping(s)
<1>1. LayerOf[s] < layer \/ LayerOf[s] = layer \/ LayerOf[s] > layer
  BY LayerAssumption DEF ManagerTypeOK
<1>2. at \in Control
  BY DEF ManagerTypeOK
<1>3. QED
  BY <1>1, <1>2 DEF LayersInOrder, Control, Untouched, IsUp, IsDown, IsToStop

\* A step of the manager keeps the layers in order (manager.go:96-104, 173-202).
LEMMA ManagerKeepsOrder ==
  ASSUME ManagerTypeOK, LayersInOrder, ManagerNext
  PROVE  LayersInOrder'
<1> USE LayerAssumption
<1>1. CASE StartCalled
  BY <1>1 DEF StartCalled, Spawn, ManagerTypeOK, LayersInOrder, Untouched, IsStarting
<1>2. CASE StopCalled
  BY <1>2 DEF StopCalled, StopLayer, ToStop, ManagerTypeOK, LayersInOrder, IsUp, IsToStop,
              IsStopping, IsDown
<1>3. ASSUME NEW s \in Service, Goroutine(s) \/ StartReceived(s) \/ StopReceived(s)
      PROVE  LayersInOrder'
  <2>1. call[s] # "none"
    BY <1>3 DEF Goroutine, StartBegins, StartSucceeds, StartFails, StopSucceeds, StopFails,
                StartReceived, StopReceived
  <2>2. /\ LayerOf[s] = layer
        /\ \/ at = "start" /\ IsStarting(s)
           \/ at \in {"rollback", "stop"} /\ IsStopping(s)
    BY <2>1, GoroutinesAreInLayer
  <2>3. /\ at' = at /\ layer' = layer
        /\ \A t \in Service \ {s} :
             state'[t] = state[t] /\ call'[t] = call[t] /\ open'[t] = open[t]
        /\ leaked \subseteq leaked'
    BY <1>3 DEF Goroutine, StartBegins, StartSucceeds, StartFails, StopSucceeds, StopFails,
                StartReceived, StopReceived, ManagerTypeOK
  <2>4. at = "start" => IsStarting(s)'
    BY <1>3, <2>2 DEF Goroutine, StartBegins, StartSucceeds, StartFails, StopSucceeds, StopFails,
                StartReceived, StopReceived, ManagerTypeOK, IsStarting, IsUp
  <2>5. at \in {"rollback", "stop"} => IsStopping(s)'
    BY <1>3, <2>2 DEF Goroutine, StartBegins, StartSucceeds, StartFails, StopSucceeds, StopFails,
                StartReceived, StopReceived, ManagerTypeOK, IsStopping, IsDown
  <2>6. \A t \in Service \ {s} :
          /\ Untouched(t) => Untouched(t)'
          /\ IsUp(t) => IsUp(t)'
          /\ IsDown(t) => IsDown(t)'
          /\ IsToStop(t) => IsToStop(t)'
          /\ IsStarting(t) => IsStarting(t)'
          /\ IsStopping(t) => IsStopping(t)'
    BY <2>3 DEF Untouched, IsUp, IsDown, IsToStop, IsStarting, IsStopping
  <2>7. QED
    BY <2>2, <2>3, <2>4, <2>5, <2>6 DEF LayersInOrder, ManagerTypeOK
<1>4. CASE LayerStarted
  <2>1. CASE layer < Depth /\ Spawn(layer + 1) /\ UNCHANGED <<at, started>>
    BY <1>4, <2>1 DEF LayerStarted, Spawn, ManagerTypeOK, LayersInOrder, LayerIsDone, InLayer,
                      Untouched, IsUp, IsStarting
  <2>2. CASE layer = Depth /\ at' = "up" /\ UNCHANGED <<layer, state, call, open, leaked>>
    BY <1>4, <2>2 DEF LayerStarted, ManagerTypeOK, LayersInOrder, LayerIsDone, InLayer,
                      IsUp, IsStarting
  <2>3. QED
    BY <1>4, <2>1, <2>2 DEF LayerStarted
<1>5. CASE LayerFailed
  <2> SUFFICES ASSUME NEW s \in Service
               PROVE  IF LayerOf[s] = Depth THEN IsStopping(s)' ELSE IsToStop(s)'
    BY <1>5 DEF LayerFailed, StopLayer, ManagerTypeOK, LayersInOrder
  <2>1. Untouched(s) \/ IsUp(s) \/ (state[s] = "failed" /\ call[s] = "none")
    BY <1>5 DEF LayerFailed, ManagerTypeOK, LayersInOrder, LayerIsDone, InLayer,
                IsStarting
  <2>2. QED
    BY <1>5, <2>1 DEF LayerFailed, StopLayer, ToStop, ManagerTypeOK, Untouched, IsUp,
                      IsToStop, IsStopping, IsDown
<1>6. CASE LayerStopped
  <2>1. \A s \in Service : LayerOf[s] >= layer => IsDown(s)
    BY <1>6 DEF LayerStopped, ManagerTypeOK, LayersInOrder, LayerIsDone, InLayer, IsStopping
  <2>2. CASE layer > 1 /\ StopLayer(layer - 1) /\ UNCHANGED at
    <3> SUFFICES ASSUME NEW s \in Service
                 PROVE  /\ LayerOf[s] < layer - 1 => IsToStop(s)'
                        /\ LayerOf[s] = layer - 1 => IsStopping(s)'
                        /\ LayerOf[s] > layer - 1 => IsDown(s)'
      BY <1>6, <2>2 DEF LayerStopped, StopLayer, ManagerTypeOK, LayersInOrder
    <3>1. LayerOf[s] < layer => IsToStop(s)
      BY <1>6 DEF LayerStopped, LayersInOrder
    <3>2. LayerOf[s] > layer - 1 => IsDown(s)'
      BY <2>1, <2>2 DEF StopLayer, ManagerTypeOK, IsDown
    <3>3. LayerOf[s] = layer - 1 => IsStopping(s)'
      BY <2>2, <3>1 DEF StopLayer, ToStop, ManagerTypeOK, Untouched, IsUp, IsToStop,
                        IsStopping, IsDown
    <3>4. LayerOf[s] < layer - 1 => IsToStop(s)'
      BY <2>2, <3>1 DEF StopLayer, ManagerTypeOK, Untouched, IsUp, IsToStop
    <3>5. QED
      BY <3>2, <3>3, <3>4
  <2>3. CASE layer = 1 /\ at' = "down" /\ UNCHANGED <<layer, state, call, open, leaked>>
    BY <2>1, <2>3 DEF LayersInOrder, IsDown, ManagerTypeOK
  <2>4. QED
    BY <1>6, <2>2, <2>3 DEF LayerStopped
<1>7. QED
  BY <1>1, <1>2, <1>3, <1>4, <1>5, <1>6 DEF ManagerNext, Proceeds

\* A step of the manager opens a service only over open dependencies and closes
\* one only under closed dependents (manager.go:96-99, 173-202).
LEMMA ManagerKeepsUse ==
  ASSUME ManagerTypeOK, LayersInOrder, OpenUsesOpen, ManagerNext
  PROVE  OpenUsesOpen'
<1> USE LayerAssumption
<1> SUFFICES ASSUME NEW s \in Service, open'[s], s \notin leaked', NEW d \in DependsOn[s]
             PROVE  open'[d]
  BY DEF OpenUsesOpen
<1>1. d \in Service /\ LayerOf[d] < LayerOf[s]
  OBVIOUS
<1>2. CASE UNCHANGED <<open, leaked>>
  BY <1>2 DEF OpenUsesOpen
<1>3. ASSUME NEW t \in Service, StartSucceeds(t) \/ StartFails(t)
      PROVE  open'[d]
  <2>1. at = "start" /\ LayerOf[t] = layer /\ leaked' = leaked
    BY <1>3, GoroutinesAreInLayer DEF StartSucceeds, StartFails, IsStopping, IsDown
  <2>2. \A u \in Service \ {t} : open'[u] = open[u]
    BY <1>3 DEF StartSucceeds, StartFails, ManagerTypeOK
  <2>3. CASE s = t
    BY <1>1, <2>1, <2>2, <2>3 DEF LayersInOrder, IsUp
  <2>4. CASE s # t
    <3>1. open[d]
      BY <2>1, <2>2, <2>4 DEF OpenUsesOpen
    <3>2. d # t
      BY <1>1, <2>1, <2>2, <2>4 DEF LayersInOrder, Untouched, ManagerTypeOK
    <3>3. QED
      BY <1>1, <2>2, <3>1, <3>2
  <2>5. QED
    BY <2>3, <2>4
<1>4. ASSUME NEW t \in Service, StopSucceeds(t) \/ StopFails(t)
      PROVE  open'[d]
  <2>1. at \in {"rollback", "stop"} /\ LayerOf[t] = layer
    BY <1>4, GoroutinesAreInLayer DEF StopSucceeds, StopFails, IsStarting, IsUp
  <2>2. /\ \A u \in Service \ {t} : open'[u] = open[u]
        /\ open'[t] => open[t]
        /\ leaked \subseteq leaked'
    BY <1>4 DEF StopSucceeds, StopFails, ManagerTypeOK
  <2>3. open[s] /\ s \notin leaked
    BY <2>2
  <2>4. LayerOf[s] <= layer
    BY <2>1, <2>3 DEF LayersInOrder, IsDown, ManagerTypeOK
  <2>5. d # t
    BY <1>1, <2>1, <2>4 DEF ManagerTypeOK
  <2>6. QED
    BY <1>1, <2>2, <2>3, <2>5 DEF OpenUsesOpen
<1>5. QED
  BY <1>2, <1>3, <1>4 DEF ManagerNext, Proceeds, Goroutine, StartCalled, StopCalled, Spawn,
     StopLayer, StartBegins, StartReceived, StopReceived, LayerStarted, LayerFailed, LayerStopped

\* The rest of the program leaves the manager alone.
LEMMA ManagerStutters ==
  ASSUME ManagerTypeOK, LayersInOrder, OpenUsesOpen, UNCHANGED managerVars
  PROVE  ManagerTypeOK' /\ LayersInOrder' /\ OpenUsesOpen'
<1>1. ManagerTypeOK'
  BY DEF managerVars, ManagerTypeOK
<1>2. LayersInOrder'
  BY DEF managerVars, LayersInOrder, Untouched, IsUp, IsDown, IsToStop, IsStarting, IsStopping
<1>3. OpenUsesOpen'
  BY DEF managerVars, OpenUsesOpen
<1>4. QED
  BY <1>1, <1>2, <1>3

\* The invariant is inductive.
THEOREM InvariantHolds == Spec => []IInv
<1>1. Init => IInv
  <2> SUFFICES ASSUME Init
               PROVE  IInv
    OBVIOUS
  <2>1. TypeOK
    <3>1. layer \in 0 .. Depth
      BY LayerAssumption DEF Init, ManagerInit
    <3>2. at \in Control /\ state \in [Service -> State] /\ call \in [Service -> Call]
      BY DEF Init, ManagerInit, Control, State, Call
    <3>3. /\ started \in BOOLEAN /\ open \in [Service -> BOOLEAN] /\ leaked \in SUBSET Service
          /\ cancelled \in BOOLEAN /\ ready \in BOOLEAN /\ busy \in BOOLEAN
          /\ abandoned \in BOOLEAN
      BY Zenon DEF Init, ManagerInit
    <3>4. QED
      BY <3>1, <3>2, <3>3 DEF Init, TypeOK, ManagerTypeOK
  <2>2. LayersInOrder /\ OpenUsesOpen
    BY DEF Init, ManagerInit, LayersInOrder, OpenUsesOpen, Untouched
  <2>3. ProgramFollowsManager /\ ClearedForGood
    BY DEF Init, ProgramFollowsManager, ClearedForGood
  <2>4. QED
    BY <2>1, <2>2, <2>3 DEF IInv
<1>2. IInv /\ [Next]_vars => IInv'
  <2> SUFFICES ASSUME IInv, [Next]_vars
               PROVE  IInv'
    OBVIOUS
  <2> USE DEF IInv
  <2>1. CASE Manager
    <3>1. ManagerNext
      BY <2>1 DEF Manager, ManagerNext
    <3>2. ManagerTypeOK' /\ LayersInOrder' /\ OpenUsesOpen'
      BY <3>1, ManagerKeepsTypes, ManagerKeepsOrder, ManagerKeepsUse DEF TypeOK
    <3>3. TypeOK' /\ ClearedForGood'
      BY <2>1, <3>2 DEF Manager, roleVars, TypeOK, ClearedForGood
    <3>4. ProgramFollowsManager'
      <4>1. CASE program = "starting" /\ StartCalled
        BY <2>1, <4>1 DEF Manager, roleVars, ProgramFollowsManager
      <4>2. CASE program = "stopping" /\ StopCalled
        BY <2>1, <4>2 DEF Manager, roleVars, ProgramFollowsManager, StopCalled
      <4>3. CASE Proceeds
        <5>1. at = "up" => at' = "up"
          <6> SUFFICES ASSUME at = "up"
                       PROVE  at' = "up"
            OBVIOUS
          <6>1. CASE \E s \in Service : Goroutine(s) \/ StartReceived(s) \/ StopReceived(s)
            BY <6>1 DEF Goroutine, StartBegins, StartSucceeds, StartFails, StopSucceeds,
                        StopFails, StartReceived, StopReceived
          <6>2. QED
            BY <4>3, <6>1 DEF Proceeds, LayerStarted, LayerFailed, LayerStopped
        <5>2. at \in {"stop", "down"} => at' \in {"stop", "down"}
          BY <4>3 DEF Proceeds, LayerStarted, LayerFailed, LayerStopped, Goroutine, StartBegins,
                      StartSucceeds, StartFails, StopSucceeds, StopFails, StartReceived,
                      StopReceived
        <5>3. QED
          BY <2>1, <5>1, <5>2 DEF Manager, roleVars, ProgramFollowsManager
      <4>4. QED
        BY <2>1, <4>1, <4>2, <4>3 DEF Manager
    <3>5. QED
      BY <3>2, <3>3, <3>4
  <2>2. ASSUME UNCHANGED managerVars, TypeOK', ProgramFollowsManager', ClearedForGood'
        PROVE  IInv'
    BY <2>2, ManagerStutters DEF TypeOK
  <2>3. CASE UNCHANGED vars
    BY <2>2, <2>3 DEF vars, managerVars, roleVars, TypeOK, ManagerTypeOK, ProgramFollowsManager,
                      ClearedForGood
  <2> DEFINE Rest ==
    \/ Cancelled \/ StartFailed \/ SetReady \/ MarkNotReadyWhenDone \/ WatcherClears \/ Listen
    \/ RequestArrives \/ RequestEnds \/ ServeFails \/ ShutsServer \/ Drained \/ DrainTimesOut
    \/ ClearReady \/ Exits
  <2>4. CASE Rest
    <3> USE DEF Goto
    <3>1. UNCHANGED managerVars
      BY <2>4 DEF Cancelled, StartFailed, SetReady, MarkNotReadyWhenDone, WatcherClears, Listen,
         RequestArrives, RequestEnds, ServeFails, ShutsServer, Drained, DrainTimesOut, ClearReady,
         Exits
    <3>2. TypeOK'
      <4>1. ManagerTypeOK'
        BY <3>1 DEF TypeOK, ManagerTypeOK, managerVars
      <4>2. program' \in {"starting", "announced", "listening", "serving", "draining", "leaving",
                          "stopping", "exited"}
        BY <2>4 DEF TypeOK, Cancelled, StartFailed, SetReady, MarkNotReadyWhenDone, WatcherClears,
           Listen, RequestArrives, RequestEnds, ServeFails, ShutsServer, Drained, DrainTimesOut,
           ClearReady, Exits
      <4>3. cancelled' \in BOOLEAN /\ ready' \in BOOLEAN /\ busy' \in BOOLEAN
              /\ abandoned' \in BOOLEAN
        BY <2>4 DEF TypeOK, Cancelled, StartFailed, SetReady, MarkNotReadyWhenDone, WatcherClears,
           Listen, RequestArrives, RequestEnds, ServeFails, ShutsServer, Drained, DrainTimesOut,
           ClearReady, Exits
      <4>4. watcher' \in {"none", "waiting", "done"}
        BY <2>4 DEF TypeOK, Cancelled, StartFailed, SetReady, MarkNotReadyWhenDone, WatcherClears,
           Listen, RequestArrives, RequestEnds, ServeFails, ShutsServer, Drained, DrainTimesOut,
           ClearReady, Exits
      <4>5. QED
        BY <4>1, <4>2, <4>3, <4>4 DEF TypeOK
    <3>3. ProgramFollowsManager'
      BY <2>4, <3>1 DEF TypeOK, managerVars, ProgramFollowsManager, Cancelled, StartFailed,
         SetReady, MarkNotReadyWhenDone, WatcherClears, Listen, RequestArrives, RequestEnds,
         ServeFails, ShutsServer, Drained, DrainTimesOut, ClearReady, Exits
    <3>4. ClearedForGood'
      BY <2>4 DEF TypeOK, ProgramFollowsManager, ClearedForGood, Cancelled, StartFailed,
         SetReady, MarkNotReadyWhenDone, WatcherClears, Listen, RequestArrives, RequestEnds,
         ServeFails, ShutsServer, Drained, DrainTimesOut, ClearReady, Exits
    <3>5. QED
      BY <2>2, <3>1, <3>2, <3>3, <3>4
  <2>5. QED
    BY <2>1, <2>3, <2>4 DEF Next
<1>3. QED
  BY <1>1, <1>2, PTL DEF Spec

\* Every variable keeps its type.
THEOREM TypeCorrect == Spec => []TypeOK
<1>1. IInv => TypeOK
  BY DEF IInv
<1>2. QED
  BY <1>1, InvariantHolds, PTL

\* For every dependency graph with layers, no client is closed under an open
\* service that was given it, and none is used before it is open.
THEOREM ClientsOutliveUsers == Spec => []OpenUsesOpen
<1>1. IInv => OpenUsesOpen
  BY DEF IInv
<1>2. QED
  BY <1>1, InvariantHolds, PTL

\* Rollback and Stop leave nothing open but what failed to stop.
THEOREM ShutdownIsComplete == Spec => []DownIsClosed
<1>1. IInv => DownIsClosed
  BY DEF IInv, LayersInOrder, IsDown, DownIsClosed
<1>2. QED
  BY <1>1, InvariantHolds, PTL

\* The readiness flag never promises more than the services do.
THEOREM ReadinessIsHonest == Spec => []ReadyMeansUp
<1>1. IInv => ReadyMeansUp
  BY DEF IInv, LayersInOrder, IsUp, ProgramFollowsManager, ReadyMeansUp
<1>2. QED
  BY <1>1, InvariantHolds, PTL

\* Nothing sets the flag once the signal has cleared it.
THEOREM ReadinessStaysCleared == Spec => []ClearedForGood
<1>1. IInv => ClearedForGood
  BY DEF IInv
<1>2. QED
  BY <1>1, InvariantHolds, PTL

\* Handlers that the server waits for never see a closed client.
THEOREM HandlersKeepClients == Spec => []HandlersHaveClients
<1>1. IInv => HandlersHaveClients
  BY DEF IInv, LayersInOrder, IsUp, ProgramFollowsManager, HandlersHaveClients
<1>2. QED
  BY <1>1, InvariantHolds, PTL
===============================================================================
