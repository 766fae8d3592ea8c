---------------------------- MODULE StreamProducer ----------------------------
(***************************************************************************)
(* adapters/messaging/redisstream/producer.go: Publish runs one XADD       *)
(* through the breaker and then stores, in a step of its own, whether it   *)
(* succeeded; Ready reads that flag and the breaker.  A message Publish    *)
(* rejects before it reaches the breaker changes nothing and is left out.  *)
(***************************************************************************)
EXTENDS CircuitBreaker

VARIABLES
  ready,    \* Producer.ready
  outcome,  \* what a call got from Execute and has not stored yet
  healthy   \* Redis answers every XADD in time

producerVars == <<ready, outcome, healthy>>
allVars == <<vars, producerVars>>

\* Types of the producer's and its breaker's fields (producer.go:17-24).
ProducerTypeOK ==
  /\ TypeOK
  /\ ready \in BOOLEAN
  /\ outcome \in [Call -> {"none", "ok", "failed"}]
  /\ healthy \in BOOLEAN

ProducerInit ==
  /\ Init
  /\ ready = TRUE
  /\ outcome = [c \in Call |-> "none"]
  /\ healthy = TRUE

\* Redis goes down or comes back.
HealthChanges ==
  /\ healthy' = ~healthy
  /\ generation < MaxGeneration
  /\ UNCHANGED <<vars, ready, outcome>>

\* Execute gets a permit and starts the XADD.
Publish(c) ==
  /\ outcome[c] = "none"
  /\ Acquire(c)
  /\ UNCHANGED producerVars

Returns(c, result) == outcome' = [outcome EXCEPT ![c] = result]

\* Execute answers ErrOpen without calling Redis.
Rejected(c) ==
  /\ outcome[c] = "none" /\ ~Holds(c)
  /\ Refuses
  /\ Returns(c, "failed")
  /\ UNCHANGED <<vars, ready, healthy>>

\* The XADD ends and Execute completes; an unhealthy Redis may still answer.
Answered(c, ok) ==
  /\ ok \/ ~healthy
  /\ Complete(c, ok)
  /\ Returns(c, IF ok THEN "ok" ELSE "failed")
  /\ UNCHANGED <<ready, healthy>>

\* Fault: a failure is latched, and no success lifts it.
StoreFailureOnly(c) ==
  /\ outcome[c] # "none"
  /\ ready' = (ready /\ outcome[c] = "ok")
  /\ Returns(c, "none")
  /\ UNCHANGED <<vars, healthy>>

\* p.ready.Store.
Store(c) ==
  /\ outcome[c] # "none"
  /\ ready' = (outcome[c] = "ok")
  /\ Returns(c, "none")
  /\ UNCHANGED <<vars, healthy>>

\* The breaker's clock, and Ready looking at it.
Breaker ==
  /\ TimeoutElapses \/ Observe
  /\ UNCHANGED producerVars

ProducerNext ==
  \/ HealthChanges
  \/ Breaker
  \/ \E c \in Call :
       \/ Publish(c)
       \/ Rejected(c)
       \/ Answered(c, TRUE)
       \/ generation < MaxGeneration /\ Answered(c, FALSE)
       \/ Store(c)

\* Time passes, a started XADD ends (go-redis has timeouts), and a relay run
\* publishes again as long as there are rows: each failed one is retried.
ProducerFairness ==
  /\ WF_allVars(TimeoutElapses /\ UNCHANGED producerVars)
  /\ \A c \in Call :
       /\ WF_allVars(Publish(c) \/ Rejected(c))
       /\ WF_allVars(Answered(c, TRUE) \/ Answered(c, FALSE))
       /\ WF_allVars(Store(c))

ProducerSpec == ProducerInit /\ [][ProducerNext]_allVars /\ ProducerFairness

-------------------------------------------------------------------------------
(* Properties. *)

IsReady == ready /\ state = "closed"

\* Once Redis stays healthy and the relay keeps publishing, the producer becomes
\* ready for good: no probe place is lost to a call of an earlier generation,
\* and neither a late failure nor a refused call leaves the flag down for ever
\* (runbook.md:20, "until a later half-open publish succeeds").
ReadinessRecovers == <>[]healthy => <>[]IsReady
===============================================================================
