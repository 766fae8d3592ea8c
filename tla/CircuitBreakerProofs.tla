------------------------- MODULE CircuitBreakerProofs -------------------------
(***************************************************************************)
(* Theorems about CircuitBreaker, for every finite set of concurrent calls *)
(* and every threshold.                                                    *)
(***************************************************************************)
EXTENDS StreamProducer, FiniteSetTheorems, TLAPS

\* The probes are finitely many, and counting them one more or one less is
\* adding or removing one call.
LEMMA CountProbes ==
  ASSUME NEW S \in SUBSET Call, NEW c \in Call
  PROVE  /\ IsFiniteSet(S) /\ Cardinality(S) \in Nat
         /\ c \notin S => Cardinality(S \cup {c}) = Cardinality(S) + 1
         /\ c \in S => Cardinality(S \ {c}) = Cardinality(S) - 1
         /\ c \in S => Cardinality(S) > 0
         /\ Cardinality({c}) = 1
<1>1. IsFiniteSet(S) /\ Cardinality(S) \in Nat
  BY BreakerAssumption, FS_Subset, FS_CardinalityType
<1>2. c \notin S => Cardinality(S \cup {c}) = Cardinality(S) + 1
  BY <1>1, FS_AddElement
<1>3. c \in S => Cardinality(S \ {c}) = Cardinality(S) - 1
  BY <1>1, FS_RemoveElement
<1>4. c \in S => Cardinality(S) > 0
  BY <1>1, FS_EmptySet
<1>5. Cardinality({c}) = 1
  BY FS_Singleton
<1>6. QED
  BY <1>1, <1>2, <1>3, <1>4, <1>5

\* Without a current half-open permit the count is zero.
LEMMA NoProbes == Cardinality({}) = 0
BY FS_EmptySet

\* A new breaker is closed and nobody holds a permit (breaker.go New).
LEMMA Initial == Init => IInv
<1>. SUFFICES ASSUME Init PROVE IInv
  OBVIOUS
<1>1. Probes = {}
  BY DEF Init, Probes
<1>2. InFlightIsExact
  BY <1>1, NoProbes, BreakerAssumption DEF Init, InFlightIsExact
<1>3. TypeOK
  BY DEF Init, TypeOK, State
<1>4. PermitsAreDated
  BY DEF Init, PermitsAreDated, Holds
<1>5. CountersBelowThreshold
  BY BreakerAssumption DEF Init, CountersBelowThreshold
<1>6. QED
  BY <1>2, <1>3, <1>4, <1>5 DEF IInv

\* A new generation leaves every permit behind.
LEMMA NewGeneration ==
  ASSUME IInv, generation' = generation + 1, UNCHANGED permit \/
         (\E c \in Call : permit' = [permit EXCEPT ![c] = NoPermit])
  PROVE  /\ PermitsAreDated'
         /\ Probes' = {}
<1>1. \A c \in Call : Holds(c)' => permit'[c] = permit[c] /\ Holds(c)
  BY DEF IInv, TypeOK, Holds
<1>2. \A c \in Call : Holds(c) => permit[c].generation \in Nat /\ permit[c].generation <= generation
  BY DEF IInv, TypeOK, Permit, Holds, PermitsAreDated
<1>3. \A c \in Call : Holds(c)' => permit'[c].generation < generation'
  BY <1>1, <1>2 DEF IInv, TypeOK
<1>4. PermitsAreDated'
  <2>. SUFFICES ASSUME NEW c \in Call, Holds(c)'
                PROVE  /\ permit'[c].generation <= generation'
                       /\ permit'[c].generation = generation' => permit'[c].state = state'
    BY DEF PermitsAreDated
  <2>1. permit'[c].generation \in Nat /\ generation' \in Nat
    BY <1>1, <1>2 DEF IInv, TypeOK
  <2>2. QED
    BY <1>3, <2>1
<1>5. \A c \in Call : ~Current(c)' \/ state' # "half_open"
  <2>. SUFFICES ASSUME NEW c \in Call, Current(c)', state' = "half_open"
                PROVE  FALSE
    OBVIOUS
  <2>1. permit'[c].state = "half_open" /\ permit'[c].generation = generation'
    BY DEF Current
  <2>2. Holds(c)'
    BY <2>1 DEF Holds, NoPermit
  <2>3. generation' \in Nat
    BY DEF IInv, TypeOK
  <2>4. QED
    BY <1>3, <2>1, <2>2, <2>3
<1>6. QED
  BY <1>4, <1>5 DEF Probes

\* In one generation, every permit but those of c keeps its standing.
LEMMA OtherProbes ==
  ASSUME TypeOK, TypeOK', NEW c \in Call, NEW p, UNCHANGED <<state, generation>>,
         permit' = [permit EXCEPT ![c] = p]
  PROVE  /\ \A e \in Call \ {c} : permit'[e] = permit[e]
         /\ permit'[c] = p
         /\ Probes' \ {c} = Probes \ {c}
<1>1. \A e \in Call \ {c} : permit'[e] = permit[e]
  BY DEF TypeOK
<1>2. permit'[c] = p
  BY DEF TypeOK
<1>3. QED
  BY <1>1, <1>2 DEF Probes, Current

\* The three ways to get a permit.
LEMMA AcquireKeeps ==
  ASSUME IInv, NEW c \in Call, Acquire(c)
  PROVE  IInv'
<1>. USE BreakerAssumption
<1>1. CASE state = "closed"
  <2>1. /\ permit' = [permit EXCEPT ![c] = [state |-> "closed", generation |-> generation]]
        /\ UNCHANGED breakerVars
    BY <1>1 DEF Acquire, Grant, HalfOpens
  <2>2. TypeOK'
    BY <2>1 DEF IInv, TypeOK, breakerVars, Permit
  <2>3. PermitsAreDated'
    BY <1>1, <2>1, <2>2 DEF IInv, TypeOK, PermitsAreDated, Holds, breakerVars
  <2>4. Probes = {} /\ Probes' = {}
    BY <1>1, <2>1 DEF Probes, breakerVars
  <2>5. InFlightIsExact'
    BY <2>1, <2>4 DEF IInv, InFlightIsExact, breakerVars
  <2>6. QED
    BY <2>1, <2>2, <2>3, <2>5 DEF IInv, CountersBelowThreshold, breakerVars
<1>2. CASE state = "half_open"
  <2>1. /\ permit' = [permit EXCEPT ![c] = [state |-> "half_open", generation |-> generation]]
        /\ inFlight < HalfOpenMax
        /\ inFlight' = inFlight + 1
        /\ UNCHANGED <<state, generation, failures, elapsed, succeeded>>
    BY <1>2 DEF Acquire, Grant, HalfOpens
  <2>2. TypeOK'
    BY <2>1 DEF IInv, TypeOK, Permit
  <2>3. PermitsAreDated'
    BY <1>2, <2>1, <2>2 DEF IInv, TypeOK, PermitsAreDated, Holds
  <2>4. Probes' = Probes \cup {c} /\ c \notin Probes
    <3>1. Probes' \ {c} = Probes \ {c} /\ permit'[c] = [state |-> "half_open", generation |-> generation]
      BY <2>1, <2>2, OtherProbes DEF IInv
    <3>2. c \in Probes'
      BY <1>2, <2>1, <3>1 DEF Probes, Current
    <3>3. c \notin Probes
      BY <1>2 DEF Acquire, Holds, NoPermit, Probes, Current
    <3>4. QED
      BY <3>1, <3>2, <3>3
  <2>5. Probes \in SUBSET Call
    BY DEF Probes
  <2>6. Cardinality(Probes') = Cardinality(Probes) + 1
    BY <2>4, <2>5, CountProbes
  <2>7. InFlightIsExact'
    BY <2>1, <2>6 DEF IInv, InFlightIsExact, TypeOK
  <2>8. QED
    BY <2>1, <2>2, <2>3, <2>7 DEF IInv, CountersBelowThreshold
<1>3. CASE state = "open"
  <2>1. /\ permit' = [permit EXCEPT ![c] = [state |-> "half_open", generation |-> generation + 1]]
        /\ inFlight' = 1
        /\ HalfOpens
    BY <1>3 DEF Acquire, Grant
  <2>2. TypeOK'
    BY <2>1 DEF IInv, TypeOK, Permit, HalfOpens, State
  <2>3. \A e \in Call \ {c} : permit'[e] = permit[e]
    BY <2>1 DEF IInv, TypeOK
  <2>4. permit'[c] = [state |-> "half_open", generation |-> generation + 1]
    BY <2>1 DEF IInv, TypeOK
  <2>5. \A e \in Call : Holds(e) =>
          permit[e].generation \in Nat /\ permit[e].generation <= generation
    BY DEF IInv, TypeOK, Permit, Holds, PermitsAreDated
  <2>6. generation \in Nat /\ generation' = generation + 1 /\ state' = "half_open"
    BY <2>1 DEF IInv, TypeOK, HalfOpens
  <2>7. PermitsAreDated'
    <3>. SUFFICES ASSUME NEW e \in Call, Holds(e)'
                  PROVE  /\ permit'[e].generation <= generation'
                         /\ permit'[e].generation = generation' => permit'[e].state = state'
      BY DEF PermitsAreDated
    <3>1. CASE e = c
      BY <3>1, <2>4, <2>6
    <3>2. CASE e # c
      BY <3>2, <2>3, <2>5, <2>6 DEF Holds
    <3>3. QED
      BY <3>1, <3>2
  <2>8. Probes' = {c}
    <3>1. c \in Probes'
      BY <2>4, <2>6 DEF Probes, Current
    <3>2. ASSUME NEW e \in Call \ {c} PROVE ~Current(e)'
      <4>. SUFFICES ASSUME Current(e)' PROVE FALSE
        OBVIOUS
      <4>1. permit[e] = [state |-> "half_open", generation |-> generation + 1]
        BY <2>3, <2>6 DEF Current
      <4>2. Holds(e)
        BY <4>1 DEF Holds, NoPermit
      <4>3. QED
        BY <4>1, <4>2, <2>5, <2>6
    <3>3. QED
      BY <3>1, <3>2 DEF Probes
  <2>9. InFlightIsExact'
    <3>1. Cardinality({c}) = 1
      BY FS_Singleton
    <3>2. QED
      BY <2>1, <2>8, <3>1 DEF InFlightIsExact
  <2>10. CountersBelowThreshold'
    BY <2>1 DEF HalfOpens, IInv, CountersBelowThreshold
  <2>11. QED
    BY <2>2, <2>7, <2>9, <2>10 DEF IInv
<1>4. QED
  BY <1>1, <1>2, <1>3 DEF IInv, TypeOK, State

\* No half-open state, no probe.
LEMMA ProbesOnlyHalfOpen ==
  ASSUME state' # "half_open" PROVE Probes' = {}
BY DEF Probes

\* open and close start a generation without permits.
LEMMA TripKeeps ==
  ASSUME IInv, open \/ close,
         \E c \in Call : permit' = [permit EXCEPT ![c] = NoPermit]
  PROVE  IInv'
<1>1. /\ generation' = generation + 1 /\ state' \in {"open", "closed"}
      /\ failures' = 0 /\ inFlight' = 0 /\ succeeded' = 0 /\ elapsed' \in BOOLEAN
  BY DEF open, close, IInv, TypeOK
<1>2. TypeOK'
  BY <1>1 DEF IInv, TypeOK, State
<1>3. PermitsAreDated' /\ Probes' = {}
  BY <1>1, NewGeneration
<1>4. InFlightIsExact'
  BY <1>1, <1>3, NoProbes, BreakerAssumption DEF InFlightIsExact
<1>5. CountersBelowThreshold'
  BY <1>1, BreakerAssumption DEF CountersBelowThreshold
<1>6. QED
  BY <1>2, <1>3, <1>4, <1>5 DEF IInv

\* State and Ready.
LEMMA ObserveKeeps ==
  ASSUME IInv, Observe PROVE IInv'
<1>1. /\ state' = "half_open" /\ generation' = generation + 1 /\ succeeded' = 0
      /\ inFlight' = 0 /\ UNCHANGED <<failures, elapsed, permit>>
  BY DEF Observe, HalfOpens
<1>2. TypeOK'
  BY <1>1 DEF IInv, TypeOK, State
<1>3. PermitsAreDated' /\ Probes' = {}
  BY <1>1, NewGeneration
<1>4. InFlightIsExact'
  BY <1>1, <1>3, NoProbes, BreakerAssumption DEF InFlightIsExact
<1>5. CountersBelowThreshold'
  BY <1>1, BreakerAssumption DEF IInv, CountersBelowThreshold
<1>6. QED
  BY <1>2, <1>3, <1>4, <1>5 DEF IInv

\* A permit goes and the generation stays.
LEMMA DroppedPermit ==
  ASSUME IInv, NEW c \in Call, permit' = [permit EXCEPT ![c] = NoPermit],
         UNCHANGED <<state, generation>>
  PROVE  /\ permit' \in [Call -> Permit \cup {NoPermit}]
         /\ PermitsAreDated'
         /\ Probes' = Probes \ {c}
<1>1. permit' \in [Call -> Permit \cup {NoPermit}]
  BY DEF IInv, TypeOK
<1>2. /\ \A e \in Call \ {c} : permit'[e] = permit[e]
      /\ permit'[c] = NoPermit
  BY DEF IInv, TypeOK
<1>3. PermitsAreDated'
  BY <1>2 DEF IInv, PermitsAreDated, Holds
<1>4. c \notin Probes'
  BY <1>2 DEF Probes, Current, NoPermit
<1>5. Probes' = Probes \ {c}
  BY <1>2, <1>4 DEF Probes, Current
<1>6. QED
  BY <1>1, <1>3, <1>5

\* complete: a stale permit, a call of the closed breaker, a probe.
LEMMA CompleteKeeps ==
  ASSUME IInv, NEW c \in Call, NEW ok \in BOOLEAN, Complete(c, ok)
  PROVE  IInv'
<1>. USE BreakerAssumption
<1>1. permit' = [permit EXCEPT ![c] = NoPermit]
  BY DEF Complete
<1>2. Probes \in SUBSET Call
  BY DEF Probes
<1>3. CASE ~Current(c)
  <2>1. UNCHANGED breakerVars
    BY <1>3 DEF Complete
  <2>2. /\ permit' \in [Call -> Permit \cup {NoPermit}]
        /\ PermitsAreDated' /\ Probes' = Probes \ {c}
    BY <1>1, <2>1, DroppedPermit DEF breakerVars
  <2>3. Probes' = Probes
    BY <1>3, <2>2 DEF Probes
  <2>4. QED
    BY <2>1, <2>2, <2>3
       DEF IInv, TypeOK, InFlightIsExact, CountersBelowThreshold, breakerVars
<1>4. CASE Current(c) /\ state = "closed"
  <2>1. CompleteClosed(ok)
    BY <1>4 DEF Complete
  <2>2. CASE open
    BY <1>1, <2>2, TripKeeps
  <2>3. CASE UNCHANGED <<state, generation, elapsed, inFlight, succeeded>>
             /\ failures' \in {0, failures + 1} /\ failures' < FailureThreshold
    <3>1. /\ permit' \in [Call -> Permit \cup {NoPermit}]
          /\ PermitsAreDated' /\ Probes' = Probes \ {c}
      BY <1>1, <2>3, DroppedPermit
    <3>2. Probes = {} /\ Probes' = {}
      BY <1>4, <2>3 DEF Probes
    <3>3. TypeOK'
      BY <2>3, <3>1 DEF IInv, TypeOK
    <3>4. InFlightIsExact' /\ CountersBelowThreshold'
      BY <2>3, <3>2 DEF IInv, InFlightIsExact, CountersBelowThreshold
    <3>5. QED
      BY <3>1, <3>3, <3>4 DEF IInv
  <2>4. QED
    BY <2>1, <2>2, <2>3 DEF CompleteClosed
<1>5. CASE Current(c) /\ state = "half_open"
  <2>1. CompleteHalfOpen(ok)
    BY <1>5 DEF Complete
  <2>2. CASE open \/ close
    BY <1>1, <2>2, TripKeeps
  <2>3. CASE /\ succeeded + 1 < HalfOpenMax
             /\ succeeded' = succeeded + 1
             /\ inFlight' = IF inFlight > 0 THEN inFlight - 1 ELSE 0
             /\ UNCHANGED <<state, generation, failures, elapsed>>
    <3>1. /\ permit' \in [Call -> Permit \cup {NoPermit}]
          /\ PermitsAreDated' /\ Probes' = Probes \ {c}
      BY <1>1, <2>3, DroppedPermit
    <3>2. c \in Probes
      BY <1>5 DEF Probes
    <3>3. /\ Cardinality(Probes \ {c}) = Cardinality(Probes) - 1
          /\ Cardinality(Probes) > 0 /\ Cardinality(Probes) \in Nat
      BY <1>2, <3>2, CountProbes
    <3>4. inFlight' = inFlight - 1 /\ inFlight' \in Nat
      BY <2>3, <3>3 DEF IInv, InFlightIsExact
    <3>5. TypeOK'
      BY <2>3, <3>1, <3>4 DEF IInv, TypeOK
    <3>6. InFlightIsExact'
      BY <3>1, <3>3, <3>4 DEF IInv, InFlightIsExact
    <3>7. CountersBelowThreshold'
      BY <2>3 DEF IInv, CountersBelowThreshold
    <3>8. QED
      BY <3>1, <3>5, <3>6, <3>7 DEF IInv
  <2>4. QED
    BY <2>1, <2>2, <2>3 DEF CompleteHalfOpen
<1>6. QED
  BY <1>3, <1>4, <1>5 DEF Complete

\* Every step keeps the strengthened invariant.
LEMMA Inductive == IInv /\ [Next]_vars => IInv'
<1>. SUFFICES ASSUME IInv, [Next]_vars PROVE IInv'
  OBVIOUS
<1>1. CASE TimeoutElapses
  <2>1. Probes' = Probes
    BY <1>1 DEF TimeoutElapses, Probes, Current
  <2>2. QED
    BY <1>1, <2>1 DEF TimeoutElapses, IInv, TypeOK, InFlightIsExact,
         PermitsAreDated, Holds, CountersBelowThreshold
<1>2. CASE Observe
  BY <1>2, ObserveKeeps
<1>3. ASSUME NEW c \in Call, Acquire(c) PROVE IInv'
  BY <1>3, AcquireKeeps
<1>4. ASSUME NEW c \in Call, NEW ok \in BOOLEAN, Complete(c, ok) PROVE IInv'
  BY <1>4, CompleteKeeps
<1>5. CASE UNCHANGED vars
  <2>1. Probes' = Probes
    BY <1>5 DEF vars, Probes, Current
  <2>2. QED
    BY <1>5, <2>1 DEF vars, IInv, TypeOK, InFlightIsExact,
         PermitsAreDated, Holds, CountersBelowThreshold
<1>6. QED
  BY <1>1, <1>2, <1>3, <1>4, <1>5 DEF Next

\* The strengthened invariant holds for every set of calls and every threshold.
THEOREM InvariantHolds == Spec => []IInv
BY Initial, Inductive, PTL DEF Spec

\* The breaker's fields keep their types.
THEOREM TypeCorrect == Spec => []TypeOK
<1>1. IInv => TypeOK
  BY DEF IInv
<1>2. QED
  BY InvariantHolds, <1>1, PTL

\* halfOpenInFlight counts the probes on their way, whatever calls of earlier
\* generations are still running (breaker.go acquire and complete).
THEOREM ProbesAreCounted == Spec => []InFlightIsExact
<1>1. IInv => InFlightIsExact
  BY DEF IInv
<1>2. QED
  BY InvariantHolds, <1>1, PTL

\* A permit of the current generation was granted in the current state.
THEOREM PermitsStayDated == Spec => []PermitsAreDated
<1>1. IInv => PermitsAreDated
  BY DEF IInv
<1>2. QED
  BY InvariantHolds, <1>1, PTL

\* No transition is missed: both counters stay below their thresholds.
THEOREM ThresholdsTrip == Spec => []CountersBelowThreshold
<1>1. IInv => CountersBelowThreshold
  BY DEF IInv
<1>2. QED
  BY InvariantHolds, <1>1, PTL

\* The breaker closes only when a probe of the current generation returns.
THEOREM ProbesClose == Spec => ClosesOnlyByProbe
<1>1. ASSUME IInv, [Next]_vars, state # "closed", state' = "closed"
      PROVE  \E c \in Probes : permit'[c] = NoPermit
  <2>1. PICK c \in Call, ok \in BOOLEAN : Complete(c, ok)
    BY <1>1 DEF Next, vars, TimeoutElapses, Observe, HalfOpens, Acquire, breakerVars
  <2>2. Current(c) /\ state = "half_open"
    BY <1>1, <2>1 DEF Complete, breakerVars
  <2>3. permit'[c] = NoPermit
    BY <1>1, <2>1 DEF Complete, IInv, TypeOK
  <2>4. QED
    BY <2>2, <2>3 DEF Probes
<1>2. IInv /\ [Next]_vars =>
        [state # "closed" /\ state' = "closed"
           => \E c \in Probes : permit'[c] = NoPermit]_vars
  BY <1>1
<1>3. QED
  BY InvariantHolds, <1>2, PTL DEF Spec, ClosesOnlyByProbe

\* The producer drives the breaker only as it may be driven, so all of the above
\* holds inside it too (producer.go:81-91).
THEOREM ProducerUsesBreaker == ProducerSpec => Spec
<1>1. ProducerInit => Init
  BY DEF ProducerInit
<1>2. ASSUME [ProducerNext]_allVars PROVE [Next]_vars
  <2>1. CASE \E c \in Call : Publish(c) \/ Rejected(c) \/ Store(c)
    BY <2>1 DEF Publish, Rejected, Store, Next
  <2>2. CASE \E c \in Call : Answered(c, TRUE)
                \/ (generation < MaxGeneration /\ Answered(c, FALSE))
    BY <2>2 DEF Answered, Next
  <2>3. CASE HealthChanges \/ Breaker
    BY <2>3 DEF HealthChanges, Breaker, Next
  <2>4. CASE UNCHANGED allVars
    BY <2>4 DEF allVars
  <2>5. QED
    BY <1>2, <2>1, <2>2, <2>3, <2>4 DEF ProducerNext
<1>3. QED
  BY <1>1, <1>2, PTL DEF ProducerSpec, Spec

\* The probe counter is exact in the producer.
COROLLARY ProducerProbesAreCounted == ProducerSpec => []InFlightIsExact
BY ProducerUsesBreaker, ProbesAreCounted, PTL
===============================================================================
