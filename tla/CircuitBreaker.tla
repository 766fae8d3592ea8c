---------------------------- MODULE CircuitBreaker ----------------------------
(***************************************************************************)
(* foundation/resilience/circuitbreaker/breaker.go: the breaker around the *)
(* producer's XADD.  Every method holds the mutex for its whole body, so   *)
(* acquire, complete and State are one action each; the operation itself   *)
(* runs between acquire and complete without the mutex, so completions come*)
(* in any order and possibly many state changes after their acquire.       *)
(***************************************************************************)
EXTENDS Integers, FiniteSets

CONSTANTS
  Call,              \* goroutines that call Execute
  FailureThreshold,  \* Config.FailureThreshold
  HalfOpenMax,       \* Config.HalfOpenMaxRequests
  MaxGeneration      \* bound for TLC only: no operation fails from then on

\* New rejects a zero threshold and a zero half-open limit.
ASSUME BreakerAssumption ==
  /\ IsFiniteSet(Call)
  /\ FailureThreshold \in Nat \ {0}
  /\ HalfOpenMax \in Nat \ {0}

VARIABLES
  state,      \* closed, open or half_open
  generation, \* counts state changes
  failures,   \* consecutive failures while closed
  elapsed,    \* OpenTimeout has passed since openedAt
  inFlight,   \* halfOpenInFlight
  succeeded,  \* halfOpenSucceeded
  permit      \* the permit each call holds between acquire and complete

breakerVars == <<state, generation, failures, elapsed, inFlight, succeeded>>
vars == <<state, generation, failures, elapsed, inFlight, succeeded, permit>>

State == {"closed", "open", "half_open"}
Permit == [state : {"closed", "half_open"}, generation : Nat]
NoPermit == [state |-> "none", generation |-> 0]

\* Types of the breaker's fields (breaker.go:36-52): a permit is granted closed or
\* half-open, never open.
TypeOK ==
  /\ state \in State
  /\ generation \in Nat
  /\ failures \in Nat
  /\ elapsed \in BOOLEAN
  /\ inFlight \in Nat
  /\ succeeded \in Nat
  /\ permit \in [Call -> Permit \cup {NoPermit}]

Init ==
  /\ state = "closed"
  /\ generation = 0
  /\ failures = 0
  /\ elapsed = FALSE
  /\ inFlight = 0
  /\ succeeded = 0
  /\ permit = [c \in Call |-> NoPermit]

Holds(c) == permit[c] # NoPermit
Current(c) == permit[c] = [state |-> state, generation |-> generation]

\* now() reaches openedAt + OpenTimeout.
TimeoutElapses ==
  /\ state = "open" /\ ~elapsed
  /\ elapsed' = TRUE
  /\ UNCHANGED <<state, generation, failures, inFlight, succeeded, permit>>

\* transitionFromOpenIfElapsed, when it has something to do.
HalfOpens ==
  /\ state = "open" /\ elapsed
  /\ state' = "half_open"
  /\ generation' = generation + 1
  /\ succeeded' = 0
  /\ UNCHANGED <<failures, elapsed>>

\* State or Ready looks at an open breaker whose timeout has passed.
Observe ==
  /\ HalfOpens
  /\ inFlight' = 0
  /\ UNCHANGED permit

Grant(c, s, g) == permit' = [permit EXCEPT ![c] = [state |-> s, generation |-> g]]

\* acquire, when it grants a permit: closed, half-open with a place left, or
\* open past its timeout, which makes it half-open first.
Acquire(c) ==
  /\ ~Holds(c)
  /\ \/ /\ state = "closed"
        /\ Grant(c, "closed", generation)
        /\ UNCHANGED breakerVars
     \/ /\ state = "half_open" /\ inFlight < HalfOpenMax
        /\ inFlight' = inFlight + 1
        /\ Grant(c, "half_open", generation)
        /\ UNCHANGED <<state, generation, failures, elapsed, succeeded>>
     \/ /\ HalfOpens
        /\ inFlight' = 1
        /\ Grant(c, "half_open", generation + 1)

\* acquire, when it answers ErrOpen: nothing changes.
Refuses ==
  \/ state = "open" /\ ~elapsed
  \/ state = "half_open" /\ inFlight >= HalfOpenMax

open ==
  /\ state' = "open"
  /\ generation' = generation + 1
  /\ elapsed' = FALSE
  /\ failures' = 0 /\ inFlight' = 0 /\ succeeded' = 0

close ==
  /\ state' = "closed"
  /\ generation' = generation + 1
  /\ failures' = 0 /\ inFlight' = 0 /\ succeeded' = 0
  /\ UNCHANGED elapsed

CompleteClosed(ok) ==
  \/ /\ ok
     /\ failures' = 0
     /\ UNCHANGED <<state, generation, elapsed, inFlight, succeeded>>
  \/ /\ ~ok /\ failures + 1 < FailureThreshold
     /\ failures' = failures + 1
     /\ UNCHANGED <<state, generation, elapsed, inFlight, succeeded>>
  \/ ~ok /\ failures + 1 >= FailureThreshold /\ open

CompleteHalfOpen(ok) ==
  \/ ~ok /\ open
  \/ /\ ok /\ succeeded + 1 < HalfOpenMax
     /\ succeeded' = succeeded + 1
     /\ inFlight' = IF inFlight > 0 THEN inFlight - 1 ELSE 0
     /\ UNCHANGED <<state, generation, failures, elapsed>>
  \/ ok /\ succeeded + 1 >= HalfOpenMax /\ close

\* Fault: a permit is compared by its state alone.
CompleteAnyGeneration(c, ok) ==
  /\ Holds(c)
  /\ permit' = [permit EXCEPT ![c] = NoPermit]
  /\ \/ permit[c].state # state /\ UNCHANGED breakerVars
     \/ permit[c].state = state /\ state = "closed" /\ CompleteClosed(ok)
     \/ permit[c].state = state /\ state = "half_open" /\ CompleteHalfOpen(ok)

\* complete: a permit of another generation or state is dropped without effect.
Complete(c, ok) ==
  /\ Holds(c)
  /\ permit' = [permit EXCEPT ![c] = NoPermit]
  /\ \/ ~Current(c) /\ UNCHANGED breakerVars
     \/ Current(c) /\ state = "closed" /\ CompleteClosed(ok)
     \/ Current(c) /\ state = "half_open" /\ CompleteHalfOpen(ok)

Next ==
  \/ TimeoutElapses
  \/ Observe
  \/ \E c \in Call :
       \/ Acquire(c)
       \/ Complete(c, TRUE)
       \/ generation < MaxGeneration /\ Complete(c, FALSE)

Spec == Init /\ [][Next]_vars

-------------------------------------------------------------------------------
(* Properties. *)

Probes == {c \in Call : Current(c) /\ state = "half_open"}

\* The half-open counter is exactly the number of probes on their way, so the
\* places it grants are neither lost nor granted twice, however late the calls
\* of earlier generations return (breaker.go:106-111, 120, 134).
InFlightIsExact == inFlight = Cardinality(Probes) /\ inFlight <= HalfOpenMax

\* A permit never outlives its state: one of the current generation was granted
\* in the current state, so the two tests of complete never disagree.
PermitsAreDated ==
  \A c \in Call : Holds(c) =>
    /\ permit[c].generation <= generation
    /\ permit[c].generation = generation => permit[c].state = state

\* A half-open breaker has not had its quota of successes yet, and a closed one
\* is below its failure threshold: no transition is missed.
CountersBelowThreshold ==
  /\ failures < FailureThreshold
  /\ succeeded < HalfOpenMax

\* The breaker closes only on the success of a probe admitted after the timeout.
ClosesOnlyByProbe ==
  [][state # "closed" /\ state' = "closed"
       => \E c \in Probes : permit'[c] = NoPermit]_vars

\* The properties above are inductive together.
IInv ==
  /\ TypeOK
  /\ InFlightIsExact
  /\ PermitsAreDated
  /\ CountersBelowThreshold
===============================================================================
