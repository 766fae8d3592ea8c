----------------------------- MODULE OutboxProofs -----------------------------
(***************************************************************************)
(* Theorems about Outbox, for every set of dispatches, callers and owners, *)
(* every batch limit and every attempt limit.                              *)
(***************************************************************************)
EXTENDS Pipeline, TLAPS

(* What a step may do to the rows, and to the callers, without harm: the two   *)
(* halves of IInv' as facts about one step.                                    *)

RowTyped ==
  /\ status \in [Dispatch -> Status]
  /\ attempts \in [Dispatch -> 0 .. MaxAttempts]
  /\ due \in [Dispatch -> BOOLEAN]
  /\ leaseOwner \in [Dispatch -> Owner \cup {NoOwner}]
  /\ leased \in [Dispatch -> BOOLEAN]

CallerTyped ==
  /\ pc \in [Caller -> Control]
  /\ batch \in [Caller -> SUBSET Dispatch]
  /\ taken \in [Caller -> [Dispatch -> 0 .. MaxAttempts]]
  /\ full \in [Caller -> BOOLEAN]

RowSound ==
  /\ RowTyped'
  /\ \A d \in Dispatch :
       /\ attempts[d] <= attempts'[d]
       /\ status[d] # "absent" => status'[d] # "absent"
       /\ status'[d] \in {"published", "deleted"} =>
            status[d] \in {"published", "deleted"} \/ InStream(d)
       /\ d \notin Malformed /\ status'[d] = "dead" =>
            attempts'[d] = MaxAttempts

CallerSound ==
  /\ CallerTyped'
  /\ \A c \in Caller :
       /\ \A d \in batch'[c] : d \in batch[c] \/ status'[d] # "absent"
       /\ \A d \in Dispatch :
            taken'[c][d] <= taken[c][d] \/ taken'[c][d] <= attempts'[d]
       /\ pc'[c] = "mark_published" =>
            pc[c] = "mark_published" /\ batch'[c] = batch[c]

\* A sound step that leaves the stream alone preserves the invariant.
LEMMA SoundStep ==
  ASSUME IInv, RowSound, CallerSound, UNCHANGED stream
  PROVE  IInv'
<1>. USE DEF RowSound, CallerSound, RowTyped, CallerTyped
<1>1. TypeOK'
  BY DEF IInv, TypeOK
<1>2. PublishedWasAdded'
  BY DEF IInv, PublishedWasAdded, InStream
<1>3. DeadIsExhausted'
  BY DEF DeadIsExhausted
<1>4. TakenIsCounted'
  <2>. SUFFICES ASSUME NEW c \in Caller, NEW d \in Dispatch
                PROVE  taken'[c][d] <= attempts'[d]
    BY DEF TakenIsCounted
  <2>1. /\ taken[c][d] <= attempts[d]
        /\ attempts[d] <= attempts'[d]
        /\ taken'[c][d] <= taken[c][d] \/ taken'[c][d] <= attempts'[d]
    BY DEF IInv, TakenIsCounted
  <2>2. /\ taken[c][d] \in Int /\ taken'[c][d] \in Int
        /\ attempts[d] \in Int /\ attempts'[d] \in Int
    BY DEF IInv, TypeOK
  <2>3. QED
    BY <2>1, <2>2
<1>5. InHandIsCommitted'
  BY DEF IInv, TypeOK, InHandIsCommitted
<1>6. AnsweredIsInStream'
  BY DEF IInv, AnsweredIsInStream, InStream, IsNext
<1>7. QED
  BY <1>1, <1>2, <1>3, <1>4, <1>5, <1>6 DEF IInv

\* Leaving the rows alone is sound.
LEMMA RowsUnchanged ==
  ASSUME IInv, UNCHANGED rowVars
  PROVE  RowSound
<1>. DEFINE A == attempts
<1>1. \A d \in Dispatch : attempts[d] \in Int
  BY DEF IInv, TypeOK
<1>2. RowTyped'
  BY DEF IInv, TypeOK, RowTyped, rowVars
<1>3. QED
  BY <1>1, <1>2 DEF IInv, DeadIsExhausted, RowSound, rowVars

\* The attempts column, counted up to its bound, never goes down.
LEMMA SaturatedBounds ==
  ASSUME NEW n \in 0 .. MaxAttempts
  PROVE  Saturated(n) \in 0 .. MaxAttempts /\ n <= Saturated(n)
BY OutboxAssumption DEF Saturated

\* A claim transaction only takes rows that are pending or publishing.
LEMMA ClaimIsSound ==
  ASSUME NEW o \in Owner, NEW rows \in SUBSET Dispatch,
         IInv, ClaimCommits(o, rows), \A d \in rows : Claimable(d)
  PROVE  /\ RowSound
         /\ \A d \in rows : status'[d] # "absent" /\ attempts'[d] = Saturated(attempts[d])
<1>1. \A d \in rows : status[d] \in {"pending", "publishing"}
  BY DEF Claimable
<1>2. RowTyped
  BY DEF IInv, TypeOK, RowTyped
<1>3. /\ status' \in [Dispatch -> Status]
      /\ \A d \in Dispatch : status[d] # "absent" => status'[d] # "absent"
      /\ \A d \in rows : status'[d] # "absent"
      /\ \A d \in Dispatch : status'[d] \in {"published", "deleted"} => status'[d] = status[d]
      /\ \A d \in Dispatch \ Malformed :
           status'[d] = "dead" => status[d] = "dead" /\ d \notin rows
  BY <1>1, <1>2 DEF ClaimCommits, RowTyped, Status
<1>4. /\ attempts' \in [Dispatch -> 0 .. MaxAttempts]
      /\ \A d \in Dispatch : attempts[d] <= attempts'[d]
      /\ \A d \in Dispatch \ rows : attempts'[d] = attempts[d]
      /\ \A d \in rows : attempts'[d] = Saturated(attempts[d])
  BY <1>2, SaturatedBounds DEF ClaimCommits, RowTyped
<1>5. /\ leaseOwner' \in [Dispatch -> Owner \cup {NoOwner}]
      /\ leased' \in [Dispatch -> BOOLEAN]
      /\ due' \in [Dispatch -> BOOLEAN]
  BY <1>2 DEF ClaimCommits, RowTyped
<1>6. RowTyped'
  BY <1>3, <1>4, <1>5 DEF RowTyped
<1>7. QED
  BY <1>3, <1>4, <1>6 DEF IInv, DeadIsExhausted, RowSound

\* A mark is sound: "published" only past an answered XADD, "dead" only when
\* the attempt in hand was the last one.
LEMMA SettleIsSound ==
  ASSUME NEW d \in Dispatch, NEW to \in {"published", "pending", "dead"},
         NEW b \in BOOLEAN, IInv, Settle(d, to, b),
         to = "published" => InStream(d),
         to = "dead" => attempts[d] = MaxAttempts
  PROVE  RowSound
<1>1. RowTyped
  BY DEF IInv, TypeOK, RowTyped
<1>2. RowTyped'
  BY <1>1 DEF Settle, RowTyped, Status
<1>3. \A e \in Dispatch : attempts[e] \in Int
  BY <1>1 DEF RowTyped
<1>4. QED
  BY <1>1, <1>2, <1>3 DEF IInv, DeadIsExhausted, RowSound, Settle, RowTyped

\* A caller that returns gives its batch up and changes no row (relay.go Run).
LEMMA ReturnIsSound ==
  ASSUME NEW c \in Caller, IInv, Return(c)
  PROVE  CallerSound
<1>1. CallerTyped
  BY DEF IInv, TypeOK, CallerTyped
<1>2. CallerTyped'
  BY <1>1, OutboxAssumption DEF CallerTyped, Return, Control
<1>3. \A x \in Caller, d \in Dispatch : taken'[x][d] <= taken[x][d]
  BY <1>1, OutboxAssumption DEF CallerTyped, Return
<1>4. QED
  BY <1>1, <1>2, <1>3 DEF CallerSound, Return, CallerTyped

\* A received message was counted and committed by the claim that returned it.
LEMMA ReceiveIsSound ==
  ASSUME NEW c \in Caller, NEW rows \in SUBSET Dispatch, NEW b \in BOOLEAN,
         IInv, Receive(c, rows, b), RowSound,
         \A d \in rows : status'[d] # "absent" /\ attempts'[d] = Saturated(attempts[d])
  PROVE  CallerSound
<1>. DEFINE messages == rows \ Malformed
<1>1. CASE messages = {}
  BY <1>1, ReturnIsSound DEF Receive
<1>2. CASE messages # {}
  <2>1. CallerTyped /\ RowTyped
    BY DEF IInv, TypeOK, CallerTyped, RowTyped
  <2>2. /\ pc' = [pc EXCEPT ![c] = "publish"]
        /\ batch' = [batch EXCEPT ![c] = messages]
        /\ taken' = [taken EXCEPT ![c] =
             [d \in Dispatch |-> IF d \in messages THEN Saturated(attempts[d]) ELSE 0]]
        /\ full' = [full EXCEPT ![c] = b /\ Cardinality(messages) = BatchLimit]
    BY <1>2 DEF Receive
  <2>3. [d \in Dispatch |-> IF d \in messages THEN Saturated(attempts[d]) ELSE 0]
          \in [Dispatch -> 0 .. MaxAttempts]
    BY <2>1, SaturatedBounds, OutboxAssumption DEF RowTyped
  <2>4. CallerTyped'
    <3>1. pc' \in [Caller -> Control] /\ batch' \in [Caller -> SUBSET Dispatch]
      BY <2>1, <2>2 DEF CallerTyped, Control
    <3>2. taken' \in [Caller -> [Dispatch -> 0 .. MaxAttempts]]
      BY <2>1, <2>2, <2>3 DEF CallerTyped
    <3>3. (b /\ Cardinality(messages) = BatchLimit) \in BOOLEAN
      OBVIOUS
    <3>4. full' \in [Caller -> BOOLEAN]
      BY <2>1, <2>2, <3>3 DEF CallerTyped
    <3>5. QED
      BY <3>1, <3>2, <3>4 DEF CallerTyped
  <2>5. \A x \in Caller, d \in Dispatch :
          taken'[x][d] <= taken[x][d] \/ taken'[x][d] <= attempts'[d]
    <3>. SUFFICES ASSUME NEW x \in Caller, NEW d \in Dispatch
                  PROVE  taken'[x][d] <= taken[x][d] \/ taken'[x][d] <= attempts'[d]
      OBVIOUS
    <3>1. CASE x # c
      BY <2>1, <2>2, <3>1 DEF CallerTyped
    <3>2. CASE x = c /\ d \in messages
      BY <2>1, <2>2, <3>2, SaturatedBounds DEF CallerTyped, RowTyped
    <3>3. CASE x = c /\ d \notin messages
      BY <2>1, <2>2, <3>3 DEF CallerTyped
    <3>4. QED
      BY <3>1, <3>2, <3>3
  <2>6. QED
    BY <2>1, <2>2, <2>4, <2>5 DEF CallerSound, CallerTyped
<1>3. QED
  BY <1>1, <1>2

\* The loop moves on to a message that it still holds, or to none (relay.go Run).
LEMMA AdvanceIsSound ==
  ASSUME NEW c \in Caller, NEW d \in Dispatch, IInv, Advance(c, d)
  PROVE  CallerSound
<1>1. CASE Return(c)
  BY <1>1, ReturnIsSound
<1>2. CASE /\ \E to \in {"publish", "loop"} : pc' = [pc EXCEPT ![c] = to]
           /\ \E left \in SUBSET batch[c] : batch' = [batch EXCEPT ![c] = left]
           /\ UNCHANGED <<taken, full>>
  <2>1. CallerTyped
    BY DEF IInv, TypeOK, CallerTyped
  <2>2. CallerTyped'
    BY <1>2, <2>1 DEF CallerTyped, Control
  <2>3. \A x \in Caller, e \in Dispatch : taken'[x][e] <= taken[x][e]
    BY <1>2, <2>1 DEF CallerTyped
  <2>4. QED
    BY <1>2, <2>1, <2>2, <2>3 DEF CallerSound, CallerTyped
<1>3. QED
  BY <1>1, <1>2 DEF Advance

-------------------------------------------------------------------------------
\* A claim selects rows whose lease is over (outbox.go:71-81).
LEMMA SelectedIsClaimable ==
  ASSUME NEW locked
  PROVE  /\ Selected(locked) \in SUBSET Dispatch
         /\ \A d \in Selected(locked) : Claimable(d)
BY DEF Selected, Oldest

\* Every step of the table, the clock and the relays preserves the invariant.
LEMMA Inductive == IInv /\ [Next]_vars => IInv'
<1>. SUFFICES ASSUME IInv, [Next]_vars PROVE IInv'
  OBVIOUS
<1>0. TypeOK /\ RowTyped /\ CallerTyped
  BY DEF IInv, TypeOK, RowTyped, CallerTyped
<1>a. \A e \in Dispatch : attempts[e] <= attempts[e]
  BY <1>0 DEF RowTyped
<1>1. ASSUME UNCHANGED callerVars PROVE CallerSound
  BY <1>0, <1>1 DEF CallerSound, CallerTyped, callerVars
<1>2. CASE UNCHANGED vars
  BY <1>1, <1>2, RowsUnchanged, SoundStep DEF vars, rowVars, callerVars
<1>3. CASE Clock
  <2>1. PICK d \in Dispatch : LeaseExpires(d) \/ BackoffElapses(d)
    BY <1>3 DEF Clock
  <2>2. RowSound
    <3>1. RowTyped'
      BY <1>0, <2>1 DEF LeaseExpires, BackoffElapses, RowTyped
    <3>2. UNCHANGED <<status, attempts>>
      BY <2>1 DEF LeaseExpires, BackoffElapses
    <3>3. QED
      BY <1>0, <1>a, <3>1, <3>2 DEF RowSound, IInv, DeadIsExhausted
  <2>3. QED
    BY <1>1, <2>1, <2>2, SoundStep DEF LeaseExpires, BackoffElapses
<1>4. ASSUME NEW d \in Dispatch, Enqueue(d) PROVE IInv'
  <2>1. RowSound
    <3>1. RowTyped'
      BY <1>0, <1>4 DEF Enqueue, RowTyped, Status
    <3>2. /\ UNCHANGED attempts
          /\ status' = [status EXCEPT ![d] = "pending"]
      BY <1>4 DEF Enqueue
    <3>3. QED
      BY <1>0, <1>a, <3>1, <3>2 DEF RowSound, RowTyped, IInv, DeadIsExhausted
  <2>2. QED
    BY <1>1, <1>4, <2>1, SoundStep DEF Enqueue
<1>5. ASSUME NEW o \in Owner, Crash(o) PROVE IInv'
  <2>1. CallerTyped'
    <3>1. pc' \in [Caller -> Control] /\ full' \in [Caller -> BOOLEAN]
      BY <1>0, <1>5 DEF Crash, CallerTyped, Control
    <3>2. batch' \in [Caller -> SUBSET Dispatch]
      BY <1>0, <1>5 DEF Crash, CallerTyped
    <3>3. taken' \in [Caller -> [Dispatch -> 0 .. MaxAttempts]]
      BY <1>0, <1>5, OutboxAssumption DEF Crash, CallerTyped
    <3>4. QED
      BY <3>1, <3>2, <3>3 DEF CallerTyped
  <2>2. \A c \in Caller, d \in Dispatch : taken'[c][d] <= taken[c][d]
    BY <1>0, <1>5, OutboxAssumption DEF Crash, CallerTyped
  <2>3. CallerSound
    BY <1>0, <1>5, <2>1, <2>2 DEF Crash, CallerSound, CallerTyped
  <2>4. QED
    BY <1>5, <2>3, RowsUnchanged, SoundStep DEF Crash
<1>6. ASSUME NEW c \in Caller, Step(c) PROVE IInv'
  <2>. OwnerOf[c] \in Owner
    BY OutboxAssumption
  <2>1. CASE StartRun(c)
    <3>1. CallerSound
      BY <1>0, <2>1 DEF StartRun, CallerSound, CallerTyped, Control
    <3>2. QED
      BY <2>1, <3>1, RowsUnchanged, SoundStep DEF StartRun
  <2>2. ASSUME NEW locked, Claim(c, locked) PROVE IInv'
    <3>1. /\ RowSound
          /\ \A d \in Selected(locked) :
               status'[d] # "absent" /\ attempts'[d] = Saturated(attempts[d])
      BY <2>2, SelectedIsClaimable, ClaimIsSound DEF Claim
    <3>2. CallerSound
      BY <2>2, <3>1, SelectedIsClaimable, ReceiveIsSound DEF Claim
    <3>3. QED
      BY <2>2, <3>1, <3>2, SoundStep DEF Claim
  <2>3. ASSUME NEW locked, ClaimFails(c, locked) PROVE IInv'
    <3>1. RowSound
      BY <2>3, SelectedIsClaimable, ClaimIsSound, RowsUnchanged DEF ClaimFails
    <3>2. QED
      BY <2>3, <3>1, ReturnIsSound, SoundStep DEF ClaimFails
  <2>4. CASE CleanupPublished(c)
    <3>1. PICK rows \in SUBSET {d \in Dispatch : status[d] = "published"} :
            status' = [d \in Dispatch |-> IF d \in rows THEN "deleted" ELSE status[d]]
      BY <2>4 DEF CleanupPublished
    <3>2. RowSound
      BY <1>0, <2>4, <3>1 DEF CleanupPublished, RowSound, RowTyped, Status, IInv,
                              DeadIsExhausted
    <3>3. QED
      BY <1>1, <2>4, <3>2, SoundStep DEF CleanupPublished
  <2>5. ASSUME NEW d \in Dispatch, StartPublishOne(c, d) PROVE IInv'
    <3>1. CallerSound
      BY <1>0, <2>5 DEF StartPublishOne, CallerSound, CallerTyped, Control, rowVars
    <3>2. QED
      BY <2>5, <3>1, RowsUnchanged, SoundStep DEF StartPublishOne
  <2>6. ASSUME NEW d \in Dispatch, ClaimOne(c, d) PROVE IInv'
    <3>1. CASE UNCHANGED rowVars /\ Return(c)
      BY <2>6, <3>1, RowsUnchanged, ReturnIsSound, SoundStep DEF ClaimOne
    <3>2. CASE /\ Claimable(d) /\ ClaimCommits(OwnerOf[c], {d})
               /\ Receive(c, {d}, FALSE) \/ Return(c)
      <4>1. /\ RowSound
            /\ \A e \in {d} :
                 status'[e] # "absent" /\ attempts'[e] = Saturated(attempts[e])
        <5>1. {d} \in SUBSET Dispatch /\ \A e \in {d} : Claimable(e)
          BY <3>2
        <5>2. QED
          BY <3>2, <5>1, ClaimIsSound
      <4>2. CallerSound
        <5>1. CASE Receive(c, {d}, FALSE)
          <6>1. {d} \in SUBSET Dispatch /\ FALSE \in BOOLEAN
            OBVIOUS
          <6>2. QED
            BY <4>1, <5>1, <6>1, ReceiveIsSound
        <5>2. QED
          BY <3>2, <5>1, ReturnIsSound
      <4>3. QED
        BY <2>6, <4>1, <4>2, SoundStep DEF ClaimOne
    <3>3. QED
      BY <2>6, <3>1, <3>2 DEF ClaimOne
  <2>7. ASSUME NEW d \in Dispatch, XAddUnanswered(c, d) \/ XAddAnswered(c, d)
        PROVE  IInv'
    <3>1. /\ stream' = Append(stream, d)
          /\ UNCHANGED <<status, attempts, due, leaseOwner, leased, batch, taken, full>>
          /\ pc' = pc \/ pc' = [pc EXCEPT ![c] = "mark_published"]
          /\ IsNext(c, d) /\ pc[c] = "publish"
      BY <2>7 DEF XAddUnanswered, XAddAnswered, rowVars, callerVars
    <3>2. stream' \in Seq(Dispatch) /\ InStream(d)'
      <4>1. /\ stream' \in Seq(Dispatch)
            /\ Len(stream') = Len(stream) + 1 /\ Len(stream) \in Nat
            /\ stream'[Len(stream) + 1] = d
        BY <1>0, <3>1 DEF TypeOK
      <4>2. Len(stream) + 1 \in 1 .. Len(stream')
        BY <4>1
      <4>3. QED
        BY <4>1, <4>2 DEF InStream
    <3>3. \A e \in Dispatch : InStream(e) => InStream(e)'
      BY <1>0, <3>1 DEF TypeOK, InStream
    <3>4. TypeOK'
      BY <1>0, <3>1, <3>2 DEF TypeOK, Control
    <3>5. \A e \in Dispatch : IsNext(c, e) => e = d
      BY <3>1, OutboxAssumption DEF IsNext
    <3>6. AnsweredIsInStream'
      BY <1>0, <3>1, <3>2, <3>3, <3>5 DEF IInv, AnsweredIsInStream, IsNext, CallerTyped
    <3>7. PublishedWasAdded'
      BY <3>1, <3>3 DEF IInv, PublishedWasAdded
    <3>8. DeadIsExhausted' /\ TakenIsCounted' /\ InHandIsCommitted'
      BY <3>1 DEF IInv, DeadIsExhausted, TakenIsCounted, InHandIsCommitted
    <3>9. QED
      BY <3>4, <3>6, <3>7, <3>8 DEF IInv
  <2>8. ASSUME NEW d \in Dispatch, PublishFails(c, d) PROVE IInv'
    <3>1. CallerSound
      BY <1>0, <2>8 DEF PublishFails, CallerSound, CallerTyped, Control
    <3>2. QED
      BY <2>8, <3>1, RowsUnchanged, SoundStep DEF PublishFails
  <2>9. ASSUME NEW d \in Dispatch,
               MarkPublished(c, d) \/ MarkRetry(c, d) \/ MarkFails(c, d)
        PROVE  IInv'
    <3>1. pc[c] = "mark_published" /\ IsNext(c, d) => InStream(d)
      BY DEF IInv, AnsweredIsInStream
    <3>2. RetryStatus(c, d) = "dead" => attempts[d] = MaxAttempts
      <4>1. /\ taken[c][d] \in 0 .. MaxAttempts /\ attempts[d] \in 0 .. MaxAttempts
            /\ taken[c][d] <= attempts[d]
        BY <1>0 DEF IInv, TakenIsCounted, CallerTyped, RowTyped
      <4>2. RetryStatus(c, d) = "dead" => taken[c][d] >= MaxAttempts
        BY DEF RetryStatus
      <4>3. QED
        BY <4>1, <4>2, OutboxAssumption
    <3>3. RetryStatus(c, d) \in {"published", "pending", "dead"}
          /\ RetryStatus(c, d) # "published"
      BY DEF RetryStatus
    <3>4. due[d] \in BOOLEAN
      BY <1>0 DEF RowTyped
    <3>5. RowSound
      BY <2>9, <3>1, <3>2, <3>3, <3>4, SettleIsSound, RowsUnchanged
         DEF MarkPublished, MarkRetry, MarkFails
    <3>6. CallerSound
      BY <2>9, AdvanceIsSound, ReturnIsSound DEF MarkPublished, MarkRetry, MarkFails
    <3>7. QED
      BY <2>9, <3>5, <3>6, SoundStep DEF MarkPublished, MarkRetry, MarkFails
  <2>10. QED
    BY <1>6, <2>1, <2>2, <2>3, <2>4, <2>5, <2>6, <2>7, <2>8, <2>9 DEF Step
<1>7. QED
  BY <1>2, <1>3, <1>4, <1>5, <1>6 DEF Next

\* An empty table, an empty stream and idle callers satisfy the invariant.
LEMMA Initial == Init => IInv
BY OutboxAssumption
   DEF Init, IInv, TypeOK, Status, Control, PublishedWasAdded, DeadIsExhausted,
       TakenIsCounted, InHandIsCommitted, AnsweredIsInStream

\* The invariant that the following theorems rest on holds in every behaviour.
THEOREM InvariantHolds == Spec => []IInv
BY Initial, Inductive, PTL DEF Spec

\* Type correctness of the table, the stream and the relays' callers.
THEOREM TypeCorrect == Spec => []TypeOK
<1>1. IInv => TypeOK
  BY DEF IInv
<1>2. QED
  BY InvariantHolds, <1>1, PTL

\* No wake-up is lost: a row counts as published only after an XADD took effect.
THEOREM NothingPublishedUnsent == Spec => []PublishedWasAdded
<1>1. IInv => PublishedWasAdded
  BY DEF IInv
<1>2. QED
  BY InvariantHolds, <1>1, PTL

\* No dispatch is given up before its attempts are used up.
THEOREM NothingDeadEarly == Spec => []DeadIsExhausted
<1>1. IInv => DeadIsExhausted
  BY DEF IInv
<1>2. QED
  BY InvariantHolds, <1>1, PTL
-------------------------------------------------------------------------------
(* The lease: only its owner changes a row while it is live.                   *)

Frozen(d) ==
  status[d] = "publishing" /\ leased[d] =>
    <<status[d], leaseOwner[d], attempts[d]>>' = <<status[d], leaseOwner[d], attempts[d]>>

DecidedByOwner(d) ==
  \E c \in Caller : /\ OwnerOf[c] = leaseOwner[d]
                    /\ pc[c] \in {"mark_published", "mark_retry"}
                    /\ IsNext(c, d)

\* A claim leaves a leased row as it is.
LEMMA ClaimFreezes ==
  ASSUME NEW o, NEW rows \in SUBSET Dispatch, IInv, ClaimCommits(o, rows),
         \A d \in rows : Claimable(d)
  PROVE  \A d \in Dispatch : Frozen(d)
BY DEF IInv, TypeOK, ClaimCommits, Claimable, Frozen

\* A mark by caller c changes no row but the one in hand, which its relay holds.
LEMMA MarkIsOwners ==
  ASSUME NEW c \in Caller, NEW d \in Dispatch, NEW e \in Dispatch, NEW to, NEW b,
         IInv, Settle(d, to, b), HoldsRow(c, d), IsNext(c, d),
         pc[c] \in {"mark_published", "mark_retry"}
  PROVE  Frozen(e) \/ DecidedByOwner(e)
<1>1. CASE e = d
  BY <1>1 DEF DecidedByOwner, HoldsRow
<1>2. CASE e # d
  BY <1>2 DEF IInv, TypeOK, Settle, Frozen
<1>3. QED
  BY <1>1, <1>2

\* No single step breaks the lease (outbox.go WHERE clauses).
LEMMA LeaseStep ==
  ASSUME IInv, [Next]_vars, NEW e \in Dispatch
  PROVE  Frozen(e) \/ DecidedByOwner(e)
<1>1. CASE UNCHANGED <<status, leaseOwner, attempts>>
  BY <1>1 DEF Frozen
<1>2. ASSUME NEW d \in Dispatch, Enqueue(d) PROVE Frozen(e)
  BY <1>2 DEF Enqueue, Frozen, IInv, TypeOK
<1>3. ASSUME NEW c \in Caller, Step(c) PROVE Frozen(e) \/ DecidedByOwner(e)
  <2>1. CASE CleanupPublished(c)
    BY <2>1 DEF CleanupPublished, Frozen, IInv, TypeOK
  <2>2. ASSUME NEW locked, Claim(c, locked) \/ ClaimFails(c, locked)
        PROVE  Frozen(e)
    <3>1. CASE UNCHANGED rowVars
      BY <3>1 DEF rowVars, Frozen
    <3>2. CASE ClaimCommits(OwnerOf[c], Selected(locked))
      BY <3>2, SelectedIsClaimable, ClaimFreezes
    <3>3. QED
      BY <2>2, <3>1, <3>2 DEF Claim, ClaimFails
  <2>3. ASSUME NEW d \in Dispatch, ClaimOne(c, d) PROVE Frozen(e)
    <3>1. CASE UNCHANGED rowVars
      BY <1>1, <3>1 DEF rowVars, Frozen
    <3>2. CASE Claimable(d) /\ ClaimCommits(OwnerOf[c], {d})
      <4>1. {d} \in SUBSET Dispatch /\ \A x \in {d} : Claimable(x)
        BY <3>2
      <4>2. QED
        BY <3>2, <4>1, ClaimFreezes
    <3>3. QED
      BY <2>3, <3>1, <3>2 DEF ClaimOne
  <2>4. ASSUME NEW d \in Dispatch,
               MarkPublished(c, d) \/ MarkRetry(c, d) \/ MarkFails(c, d)
        PROVE  Frozen(e) \/ DecidedByOwner(e)
    BY <1>1, <2>4, MarkIsOwners DEF MarkPublished, MarkRetry, MarkFails, rowVars
  <2>5. ASSUME NEW d \in Dispatch,
               \/ StartRun(c) \/ StartPublishOne(c, d) \/ XAddUnanswered(c, d)
               \/ XAddAnswered(c, d) \/ PublishFails(c, d)
        PROVE  Frozen(e)
    BY <1>1, <2>5 DEF StartRun, StartPublishOne, XAddUnanswered, XAddAnswered,
                      PublishFails, rowVars, Frozen
  <2>6. QED
    BY <1>3, <2>1, <2>2, <2>3, <2>4, <2>5 DEF Step
<1>4. CASE UNCHANGED vars \/ Clock \/ \E o \in Owner : Crash(o)
  BY <1>1, <1>4 DEF vars, Clock, LeaseExpires, BackoffElapses, Crash, rowVars, Frozen
<1>5. QED
  BY <1>2, <1>3, <1>4 DEF Next

\* A relay whose lease was taken over, or that never had it, cannot decide a row.
THEOREM LeaseIsRespected == Spec => LeaseProtects
<1>1. IInv /\ [Next]_vars =>
        [\A d \in Dispatch :
           (status[d] = "publishing" /\ leased[d]
              /\ <<status[d], leaseOwner[d], attempts[d]>>'
                   # <<status[d], leaseOwner[d], attempts[d]>>)
           => \E c \in Caller : /\ OwnerOf[c] = leaseOwner[d]
                                /\ pc[c] \in {"mark_published", "mark_retry"}
                                /\ IsNext(c, d)]_vars
  BY LeaseStep DEF Frozen, DecidedByOwner
<1>2. QED
  BY InvariantHolds, <1>1, PTL DEF Spec, LeaseProtects

-------------------------------------------------------------------------------
(* The refinement of DurableDispatch.                                          *)

stageMap == [d \in Dispatch |-> StageOf(d)]
signalledMap == {d \in Dispatch : InStream(d)}

\* A step that keeps every row's stage and the set of signalled rows stutters.
LEMMA Stutters ==
  ASSUME \A d \in Dispatch : StageOf(d)' = StageOf(d), UNCHANGED stream
  PROVE  [Durable!Next]_(Durable!vars)
BY DEF Durable!vars, InStream

\* A claim gives up the malformed rows it selected and leaves the others outstanding.
LEMMA ClaimRefines ==
  ASSUME NEW o, NEW rows \in SUBSET Dispatch, IInv, ClaimCommits(o, rows),
         \A d \in rows : Claimable(d), UNCHANGED stream
  PROVE  [Durable!Next]_(Durable!vars)
<1>. DEFINE lost == rows \cap Malformed
<1>1. \A d \in rows : status[d] \in {"pending", "publishing"}
  BY DEF Claimable
<1>2. \A d \in Dispatch : status'[d] =
        IF d \notin rows THEN status[d] ELSE IF d \in Malformed THEN "dead" ELSE "publishing"
  BY DEF ClaimCommits
<1>3. \A d \in lost : StageOf(d) = "outstanding" /\ StageOf(d)' = "abandoned"
  BY <1>1, <1>2 DEF StageOf
<1>4. \A d \in Dispatch \ lost : StageOf(d)' = StageOf(d)
  BY <1>1, <1>2 DEF StageOf
<1>5. lost \in SUBSET Dispatch
  OBVIOUS
<1>6. Durable!Abandon(lost)
  BY <1>3, <1>4, <1>5 DEF Durable!Abandon, Durable!Move, InStream
<1>7. QED
  BY <1>5, <1>6 DEF Durable!Next

\* A mark confirms a signalled dispatch, abandons one, or keeps it outstanding.
LEMMA SettleRefines ==
  ASSUME NEW d \in Dispatch, NEW to \in {"published", "pending", "dead"}, NEW b,
         IInv, Settle(d, to, b), status[d] = "publishing", UNCHANGED stream,
         to = "published" => InStream(d)
  PROVE  [Durable!Next]_(Durable!vars)
<1>1. status' = [status EXCEPT ![d] = to] /\ status \in [Dispatch -> Status]
  BY DEF Settle, IInv, TypeOK
<1>2. \A e \in Dispatch \ {d} : StageOf(e)' = StageOf(e)
  BY <1>1 DEF StageOf
<1>3. StageOf(d) = "outstanding"
  BY DEF StageOf
<1>4. StageOf(d)' = IF to = "published" THEN "confirmed"
                    ELSE IF to = "dead" THEN "abandoned" ELSE "outstanding"
  BY <1>1 DEF StageOf
<1>5. signalledMap' = signalledMap
  BY DEF signalledMap, InStream
<1>6. CASE to = "pending"
  BY <1>2, <1>3, <1>4, <1>6, Stutters
<1>7. CASE to = "published"
  <2>1. Durable!Confirm(d)
    BY <1>2, <1>3, <1>4, <1>5, <1>7 DEF Durable!Confirm, Durable!Move, signalledMap
  <2>2. QED
    BY <2>1 DEF Durable!Next
<1>8. CASE to = "dead"
  <2>1. Durable!Abandon({d})
    BY <1>2, <1>3, <1>4, <1>5, <1>8 DEF Durable!Abandon, Durable!Move, signalledMap
  <2>2. QED
    BY <2>1 DEF Durable!Next
<1>9. QED
  BY <1>6, <1>7, <1>8

\* Every step is a step of the durable list, or none.
LEMMA StepRefines ==
  ASSUME IInv, [Next]_vars
  PROVE  [Durable!Next]_(Durable!vars)
<1>. TypeOK
  BY DEF IInv
<1>1. CASE UNCHANGED <<status, stream>>
  BY <1>1, Stutters DEF StageOf
<1>2. ASSUME NEW d \in Dispatch, Enqueue(d) PROVE [Durable!Next]_(Durable!vars)
  <2>1. StageOf(d) = "none" /\ StageOf(d)' = "outstanding"
    BY <1>2 DEF Enqueue, StageOf, TypeOK
  <2>2. \A e \in Dispatch \ {d} : StageOf(e)' = StageOf(e)
    BY <1>2 DEF Enqueue, StageOf, TypeOK
  <2>3. Durable!Commit(d)
    BY <1>2, <2>1, <2>2 DEF Enqueue, Durable!Commit, Durable!Move, InStream
  <2>4. QED
    BY <2>3 DEF Durable!Next
<1>3. ASSUME NEW c \in Caller, Step(c) PROVE [Durable!Next]_(Durable!vars)
  <2>1. CASE CleanupPublished(c)
    <3>1. PICK rows \in SUBSET {d \in Dispatch : status[d] = "published"} :
            status' = [d \in Dispatch |-> IF d \in rows THEN "deleted" ELSE status[d]]
      BY <2>1 DEF CleanupPublished
    <3>2. \A d \in rows : StageOf(d) = "confirmed" /\ StageOf(d)' = "forgotten"
      BY <3>1 DEF StageOf
    <3>3. \A d \in Dispatch \ rows : StageOf(d)' = StageOf(d)
      BY <3>1 DEF StageOf
    <3>4. Durable!Forget(rows) /\ rows \in SUBSET Dispatch
      BY <2>1, <3>1, <3>2, <3>3
         DEF CleanupPublished, Durable!Forget, Durable!Move, InStream
    <3>5. QED
      BY <3>4 DEF Durable!Next
  <2>2. ASSUME NEW locked, Claim(c, locked) \/ ClaimFails(c, locked)
        PROVE  [Durable!Next]_(Durable!vars)
    BY <1>1, <2>2, SelectedIsClaimable, ClaimRefines DEF Claim, ClaimFails, rowVars
  <2>3. ASSUME NEW d \in Dispatch, ClaimOne(c, d)
        PROVE  [Durable!Next]_(Durable!vars)
    <3>1. CASE Claimable(d) /\ ClaimCommits(OwnerOf[c], {d})
      <4>1. {d} \in SUBSET Dispatch /\ \A x \in {d} : Claimable(x)
        BY <3>1
      <4>2. QED
        BY <2>3, <3>1, <4>1, ClaimRefines DEF ClaimOne
    <3>2. QED
      BY <1>1, <2>3, <3>1 DEF ClaimOne, rowVars
  <2>4. ASSUME NEW d \in Dispatch, XAddUnanswered(c, d) \/ XAddAnswered(c, d)
        PROVE  [Durable!Next]_(Durable!vars)
    <3>1. /\ stream' = Append(stream, d)
          /\ UNCHANGED status
          /\ status[d] # "absent"
      BY <2>4 DEF XAddUnanswered, XAddAnswered, rowVars, IsNext, IInv, InHandIsCommitted
    <3>2. StageOf(d) # "none"
      BY <3>1 DEF TypeOK, Status, StageOf
    <3>3. signalledMap' = signalledMap \cup {d}
      <4>1. /\ Len(stream') = Len(stream) + 1 /\ Len(stream) \in Nat
            /\ stream'[Len(stream) + 1] = d
            /\ \A i \in 1 .. Len(stream) : stream'[i] = stream[i]
        BY <3>1 DEF TypeOK
      <4>2. InStream(d)'
        BY <4>1 DEF InStream
      <4>3. \A e \in Dispatch : InStream(e)' <=> InStream(e) \/ e = d
        BY <4>1, <4>2 DEF InStream
      <4>4. QED
        BY <4>3 DEF signalledMap
    <3>4. Durable!Signal(d)
      <4>1. \A e \in Dispatch : StageOf(e)' = StageOf(e)
        BY <3>1 DEF StageOf
      <4>2. QED
        BY <3>2, <3>3, <4>1 DEF Durable!Signal, signalledMap
    <3>5. QED
      BY <3>4 DEF Durable!Next
  <2>5. ASSUME NEW d \in Dispatch,
               MarkPublished(c, d) \/ MarkRetry(c, d) \/ MarkFails(c, d)
        PROVE  [Durable!Next]_(Durable!vars)
    <3>1. pc[c] = "mark_published" /\ IsNext(c, d) => InStream(d)
      BY DEF IInv, AnsweredIsInStream
    <3>2. RetryStatus(c, d) \in {"pending", "dead"}
      BY DEF RetryStatus
    <3>3. QED
      BY <1>1, <2>5, <3>1, <3>2, SettleRefines
         DEF MarkPublished, MarkRetry, MarkFails, HoldsRow, rowVars
  <2>6. CASE StartRun(c) \/ \E d \in Dispatch : StartPublishOne(c, d) \/ PublishFails(c, d)
    BY <1>1, <2>6 DEF StartRun, StartPublishOne, PublishFails, rowVars
  <2>7. QED
    BY <1>3, <2>1, <2>2, <2>3, <2>4, <2>5, <2>6 DEF Step
<1>4. CASE UNCHANGED vars \/ Clock \/ \E o \in Owner : Crash(o)
  BY <1>1, <1>4 DEF vars, Clock, LeaseExpires, BackoffElapses, Crash, rowVars
<1>5. QED
  BY <1>2, <1>3, <1>4 DEF Next

\* The Outbox is a durable dispatch list, for every number of relays and rows.
THEOREM OutboxImplementsDurableDispatch == Spec => ImplementsDurableDispatch
<1>1. Init => Durable!Init
  BY DEF Init, Durable!Init, StageOf, InStream
<1>2. IInv /\ [Next]_vars => [Durable!Next]_(Durable!vars)
  BY StepRefines
<1>3. QED
  BY InvariantHolds, <1>1, <1>2, PTL DEF Spec, Durable!Spec, ImplementsDurableDispatch

-------------------------------------------------------------------------------
(* The pipeline: what is proved of its parts, and what they give together.    *)

\* Every step of the pipeline is one of the Outbox's, or leaves it alone.
LEMMA PipelineStepOfOutbox ==
  ASSUME PipelineAssumption, [PipelineNext]_pipelineVars
  PROVE  [Next]_vars
<1>1. CASE \E d \in Here : Signals(d)
  BY <1>1 DEF PipelineAssumption, Signals, Next, Step
<1>2. CASE RelaySteps \/ ConsumerSteps \/ UNCHANGED pipelineVars
  BY <1>2 DEF RelaySteps, ConsumerSteps, pipelineVars
<1>. QED  BY <1>1, <1>2 DEF PipelineNext

\* The same for the consumers.
LEMMA PipelineStepOfConsumers ==
  ASSUME [PipelineNext]_pipelineVars
  PROVE  [Consumer!Next]_(Consumer!vars)
<1>1. ASSUME NEW d \in Here, Signals(d) PROVE Consumer!Next
  BY <1>1 DEF Signals, Arrives, Consumer!Next, Consumer!Redis
<1>2. ASSUME UNCHANGED consumerVars PROVE UNCHANGED Consumer!vars
  BY <1>2 DEF consumerVars, Consumer!vars, Consumer!redisVars, Consumer!goVars
<1>3. CASE RelaySteps \/ ConsumerSteps \/ UNCHANGED pipelineVars
  BY <1>2, <1>3 DEF RelaySteps, ConsumerSteps, pipelineVars
<1>. QED  BY <1>1, <1>3 DEF PipelineNext

\* What the pipeline's relays do is what the Outbox allows, and what its consumers do
\* is what StreamConsumer allows: everything proved of either holds in the pipeline.
THEOREM PipelineImplementsParts ==
  ASSUME PipelineAssumption
  PROVE  PipelineSpec => Spec /\ Consumer!Spec
<1>1. PipelineInit => Init /\ Consumer!Init
  BY DEF PipelineInit
<1>2. [PipelineNext]_pipelineVars => [Next]_vars /\ [Consumer!Next]_(Consumer!vars)
  BY PipelineAssumption, PipelineStepOfOutbox, PipelineStepOfConsumers
<1>. QED  BY <1>1, <1>2, PTL DEF PipelineSpec, Spec, Consumer!Spec

\* An XADD makes its entry; as long as Redis keeps the stream, it stays.
LEMMA SignalsKeepArriving ==
  ASSUME PipelineAssumption, TypeOK, SignalsArrived, [PipelineNext]_pipelineVars
  PROVE  SignalsArrived'
<1>. SUFFICES ASSUME kept', NEW d \in Here, InStream(d)'
     PROVE  \E e \in entries' : TaskOf[e] = TaskFor[d]
  BY DEF SignalsArrived
<1>1. kept /\ entries \subseteq entries'
  BY DEF PipelineNext, pipelineVars, consumerVars
<1>2. CASE InStream(d)
  BY <1>1, <1>2 DEF SignalsArrived
<1>3. CASE ~InStream(d)
  <2>1. ASSUME NEW x, stream' = Append(stream, x) PROVE x = d
    BY <1>3, <2>1 DEF TypeOK, InStream
  <2>2. stream' # stream
    BY <1>3 DEF InStream
  <2>3. ASSUME NEW x \in Here, Signals(x) PROVE \E e \in entries' : TaskOf[e] = TaskFor[d]
    BY <2>1, <2>3 DEF Signals, XAddUnanswered, XAddAnswered, Arrives, Consumer!Add
  <2>4. CASE RelaySteps
    BY <2>1, <2>2, <2>4 DEF RelaySteps
  <2>5. CASE ConsumerSteps \/ UNCHANGED pipelineVars
    BY <2>2, <2>5 DEF ConsumerSteps, pipelineVars, vars
  <2>. QED  BY <2>3, <2>4, <2>5 DEF PipelineNext
<1>. QED  BY <1>2, <1>3

\* From the commit of a dispatch to the claim of its task nothing is lost, for any
\* relays, consumers, leases, crashes and repetitions: a row that is no longer to be
\* published was given up after MaxAttempts or has an entry, which no consumer
\* acknowledges before the task is claimed.
THEOREM PipelineLosesNothing ==
  ASSUME PipelineAssumption
  PROVE  PipelineSpec => []NothingCommittedIsLost
<1>1. PipelineSpec => []IInv
  BY PipelineAssumption, PipelineImplementsParts, InvariantHolds, PTL
<1>2. PipelineSpec => []Consumer!NoLostWakeUp
  BY PipelineAssumption, PipelineImplementsParts, Consumer!NoWakeUpIsLost, PTL DEF PipelineAssumption
<1>3. PipelineInit => SignalsArrived
  BY DEF PipelineInit, Init, SignalsArrived, InStream
<1>4. IInv /\ SignalsArrived /\ [PipelineNext]_pipelineVars => SignalsArrived'
  BY PipelineAssumption, SignalsKeepArriving DEF IInv
<1>5. IInv /\ SignalsArrived /\ Consumer!NoLostWakeUp => NothingCommittedIsLost
  <2>1. SUFFICES ASSUME IInv, SignalsArrived, Consumer!NoLostWakeUp, kept, NEW d \in Here,
                        status[d] \notin {"absent", "pending", "publishing"},
                        ~(status[d] = "dead" /\ (d \in Malformed \/ attempts[d] = MaxAttempts))
                 PROVE  OnItsWay(TaskFor[d])
    BY DEF NothingCommittedIsLost
  <2>2. d \in Dispatch /\ status[d] \in {"published", "deleted"}
    BY <2>1, PipelineAssumption DEF PipelineAssumption, IInv, TypeOK, Status, DeadIsExhausted
  <2>3. PICK e \in entries : TaskOf[e] = TaskFor[d]
    BY <2>1, <2>2 DEF IInv, PublishedWasAdded, SignalsArrived
  <2>. QED  BY <2>1, <2>3 DEF Consumer!NoLostWakeUp, OnItsWay
<1>. QED  BY <1>1, <1>2, <1>3, <1>4, <1>5, PTL DEF PipelineSpec

\* And however often relays repeat their XADDs, no task is executed twice.
THEOREM PipelineExecutesOnce ==
  ASSUME PipelineAssumption
  PROVE  PipelineSpec => []Consumer!ExecutedOnce
BY PipelineAssumption, PipelineImplementsParts, Consumer!NothingExecutesTwice, PTL DEF PipelineAssumption

\* The durable list signals nothing that has not been committed; so neither do relays.
SignalledIsCommitted == \A d \in signalledMap : stageMap[d] # "none"

LEMMA ListSignalsCommitted ==
  ASSUME SignalledIsCommitted, [Durable!Next]_(Durable!vars)
  PROVE  SignalledIsCommitted'
<1>. DEFINE Kept(rows, to) == /\ stageMap' = [d \in Dispatch |-> IF d \in rows THEN to ELSE stageMap[d]]
                             /\ signalledMap' = signalledMap
<1>1. CASE UNCHANGED <<stageMap, signalledMap>>
  BY <1>1 DEF SignalledIsCommitted
<1>2. ASSUME NEW rows, NEW to \in Durable!Stage \ {"none"}, Kept(rows, to) PROVE SignalledIsCommitted'
  BY <1>2 DEF SignalledIsCommitted, signalledMap
<1>3. ASSUME NEW d \in Dispatch, stageMap[d] # "none", stageMap' = stageMap, signalledMap' = signalledMap \cup {d}
      PROVE  SignalledIsCommitted'
  BY <1>3 DEF SignalledIsCommitted
<1>4. CASE Durable!Next
  <2>1. ASSUME NEW rows, NEW from, NEW to \in Durable!Stage \ {"none"}, Durable!Move(rows, from, to)
        PROVE  SignalledIsCommitted'
    <3>1. Kept(rows, to)
      BY <2>1 DEF Durable!Move, stageMap, signalledMap
    <3>. QED  BY <1>2, <3>1
  <2>2. ASSUME NEW d \in Dispatch, Durable!Signal(d) PROVE SignalledIsCommitted'
    <3>1. stageMap[d] # "none" /\ stageMap' = stageMap /\ signalledMap' = signalledMap \cup {d}
      BY <2>2 DEF Durable!Signal, stageMap, signalledMap
    <3>. QED  BY <1>3, <3>1
  <2>3. ASSUME NEW d \in Dispatch, Durable!Commit(d) \/ Durable!Confirm(d) PROVE SignalledIsCommitted'
    BY <2>1, <2>3 DEF Durable!Commit, Durable!Confirm, Durable!Stage
  <2>4. ASSUME NEW rows \in SUBSET Dispatch, Durable!Abandon(rows) \/ Durable!Forget(rows)
        PROVE  SignalledIsCommitted'
    BY <2>1, <2>4 DEF Durable!Abandon, Durable!Forget, Durable!Stage
  <2>. QED  BY <1>4, <2>2, <2>3, <2>4 DEF Durable!Next
<1>5. CASE UNCHANGED Durable!vars
  BY <1>1, <1>5 DEF Durable!vars, stageMap, signalledMap
<1>. QED  BY <1>4, <1>5

\* A dispatch that has been put on the stream stays there: XADD appends.
LEMMA StreamGrows ==
  ASSUME TypeOK, [Next]_vars
  PROVE  \A d : InStream(d) => InStream(d)'
<1>1. UNCHANGED stream \/ \E d \in Dispatch : stream' = Append(stream, d)
  <2>1. ASSUME NEW c \in Caller, Step(c) PROVE UNCHANGED stream \/ \E d \in Dispatch : stream' = Append(stream, d)
    <3>1. ASSUME NEW d \in Dispatch, XAddUnanswered(c, d) \/ XAddAnswered(c, d)
          PROVE  stream' = Append(stream, d)
      BY <3>1 DEF XAddUnanswered, XAddAnswered
    <3>2. ASSUME NEW d \in Dispatch,
                 \/ StartPublishOne(c, d) \/ ClaimOne(c, d) \/ PublishFails(c, d)
                 \/ MarkPublished(c, d) \/ MarkRetry(c, d) \/ MarkFails(c, d)
          PROVE  UNCHANGED stream
      BY <3>2 DEF StartPublishOne, ClaimOne, PublishFails, MarkPublished, MarkRetry, MarkFails
    <3>3. CASE StartRun(c) \/ CleanupPublished(c) \/ \E locked : Claim(c, locked) \/ ClaimFails(c, locked)
      BY <3>3 DEF StartRun, CleanupPublished, Claim, ClaimFails
    <3>. QED  BY <2>1, <3>1, <3>2, <3>3 DEF Step
  <2>2. CASE Clock \/ (\E d \in Dispatch : Enqueue(d)) \/ (\E o \in Owner : Crash(o)) \/ UNCHANGED vars
    BY <2>2 DEF Clock, LeaseExpires, BackoffElapses, Enqueue, Crash, vars
  <2>. QED  BY <2>1, <2>2 DEF Next
<1>2. CASE UNCHANGED stream
  BY <1>2 DEF InStream
<1>3. ASSUME NEW x \in Dispatch, stream' = Append(stream, x) PROVE \A d : InStream(d) => InStream(d)'
  <2>1. /\ Len(stream') = Len(stream) + 1 /\ Len(stream) \in Nat
        /\ \A i \in 1 .. Len(stream) : stream'[i] = stream[i]
    BY <1>3 DEF TypeOK
  <2>. QED  BY <2>1 DEF InStream
<1>. QED  BY <1>1, <1>2, <1>3

\* A step either commits one row or leaves it at which rows have been committed.
LEMMA CommitsStay ==
  ASSUME IInv, [Next]_vars
  PROVE  \/ \A d \in Dispatch : status'[d] = "absent" <=> status[d] = "absent"
         \/ \E d \in Dispatch : status' = [status EXCEPT ![d] = "pending"]
<1>1. TypeOK
  BY DEF IInv
<1>. DEFINE Same == \A d \in Dispatch : status'[d] = "absent" <=> status[d] = "absent"
<1>2. ASSUME NEW o, NEW rows \in SUBSET Dispatch, ClaimCommits(o, rows), \A d \in rows : Claimable(d)
      PROVE  Same
  BY <1>2 DEF ClaimCommits, Claimable
<1>3. ASSUME NEW d \in Dispatch, NEW to \in {"published", "pending", "dead"}, NEW b, Settle(d, to, b),
             status[d] = "publishing"
      PROVE  Same
  BY <1>1, <1>3 DEF Settle, TypeOK
<1>4. ASSUME NEW c \in Caller, Step(c) PROVE Same
  <2>1. CASE CleanupPublished(c)
    BY <2>1 DEF CleanupPublished
  <2>2. ASSUME NEW locked, Claim(c, locked) \/ ClaimFails(c, locked) PROVE Same
    BY <1>2, <2>2, SelectedIsClaimable DEF Claim, ClaimFails, rowVars
  <2>3. ASSUME NEW d \in Dispatch, ClaimOne(c, d) PROVE Same
    <3>1. CASE Claimable(d) /\ ClaimCommits(OwnerOf[c], {d})
      BY <1>2, <3>1
    <3>. QED  BY <2>3, <3>1 DEF ClaimOne, rowVars
  <2>4. ASSUME NEW d \in Dispatch, MarkPublished(c, d) \/ MarkRetry(c, d) \/ MarkFails(c, d) PROVE Same
    <3>1. RetryStatus(c, d) \in {"pending", "dead"}
      BY DEF RetryStatus
    <3>. QED  BY <1>3, <2>4, <3>1 DEF MarkPublished, MarkRetry, MarkFails, HoldsRow, rowVars
  <2>5. CASE \/ StartRun(c)
             \/ \E d \in Dispatch : \/ StartPublishOne(c, d) \/ PublishFails(c, d)
                                    \/ XAddUnanswered(c, d) \/ XAddAnswered(c, d)
    BY <2>5 DEF StartRun, StartPublishOne, PublishFails, XAddUnanswered, XAddAnswered, rowVars
  <2>. QED  BY <1>4, <2>1, <2>2, <2>3, <2>4, <2>5 DEF Step
<1>5. CASE Clock \/ (\E o \in Owner : Crash(o)) \/ UNCHANGED vars
  BY <1>5 DEF Clock, LeaseExpires, BackoffElapses, Crash, rowVars, vars
<1>6. ASSUME NEW d \in Dispatch, Enqueue(d) PROVE status' = [status EXCEPT ![d] = "pending"]
  BY <1>6 DEF Enqueue
<1>. QED  BY <1>4, <1>5, <1>6 DEF Next

\* As only relays write entries about the tasks of these dispatches, whatever is in the
\* stream or in a worker's hands is there rightfully, and stays so.
LEMMA RightfulStays ==
  ASSUME PipelineAssumption, TypeOK, Consumer!IInv, Consumer!HeldIn(Rightful), OthersStayApart,
         [PipelineNext]_pipelineVars
  PROVE  Consumer!HeldIn(Rightful)'
<1>1. [Next]_vars /\ [Consumer!Next]_(Consumer!vars)
  BY PipelineStepOfOutbox, PipelineStepOfConsumers
<1>2. Rightful \subseteq Rightful'
  BY <1>1, StreamGrows DEF Rightful
<1>3. entries' \subseteq Rightful'
  <2>1. entries \subseteq Rightful'
    BY <1>2 DEF Consumer!HeldIn
  <2>2. ASSUME NEW d \in Here, Signals(d) PROVE entries' \subseteq Rightful'
    <3>1. PICK e \in Entry : TaskOf[e] = TaskFor[d] /\ entries' = entries \cup {e}
      BY <2>2 DEF Signals, Arrives, Consumer!Add
    <3>2. InStream(d)'
      <4>1. stream' = Append(stream, d) /\ d \in Dispatch
        BY <2>2 DEF Signals, XAddUnanswered, XAddAnswered, PipelineAssumption
      <4>2. Len(stream') = Len(stream) + 1 /\ Len(stream) \in Nat /\ stream'[Len(stream) + 1] = d
        BY <4>1 DEF TypeOK
      <4>. QED  BY <4>2 DEF InStream
    <3>3. e \in Rightful'
      BY <3>1, <3>2 DEF Rightful
    <3>. QED  BY <2>1, <3>1, <3>3
  <2>3. CASE ConsumerSteps
    <3>1. \A e \in entries' \ entries : e \in Entry /\ TaskOf[e] \notin Ours
      <4>1. entries' \subseteq Entry
        BY <1>1, Consumer!NextIInv DEF PipelineAssumption, Consumer!IInv, Consumer!TypeOK
      <4>. QED  BY <2>3, <4>1 DEF OthersStayApart
    <3>2. \A e \in entries' \ entries : e \in Rightful'
      BY <3>1 DEF Rightful
    <3>. QED  BY <2>1, <3>2
  <2>4. CASE RelaySteps \/ UNCHANGED pipelineVars
    BY <2>1, <2>4 DEF RelaySteps, pipelineVars, consumerVars
  <2>. QED  BY <2>2, <2>3, <2>4 DEF PipelineNext
<1>4. PICK S : S = Rightful'
  OBVIOUS
<1>5. Consumer!HeldIn(S)
  BY <1>2, <1>4 DEF Consumer!HeldIn, Consumer!HandsIn, Consumer!ClaimedIn
<1>6. Consumer!HeldIn(S)'
  BY <1>1, <1>3, <1>4, <1>5, Consumer!HeldStays DEF PipelineAssumption
<1>. QED  BY <1>4, <1>6 DEF Consumer!HeldIn, Consumer!HandsIn, Consumer!ClaimedIn

\* A step of the pipeline commits a task, or begins to execute one that has been
\* committed and not executed, or does neither.
LEMMA PipelineDelivers ==
  ASSUME PipelineAssumption, IInv, Consumer!IInv, SignalledIsCommitted, Consumer!HeldIn(Rightful),
         [PipelineNext]_pipelineVars
  PROVE  [Delivery!Next]_(Delivery!vars)
<1>. DEFINE committed == {TaskFor[d] : d \in {x \in Here : status[x] # "absent"}}
            begun == [t \in Ours |-> executions[t]]
<1>1. [Next]_vars /\ [Consumer!Next]_(Consumer!vars)
  BY PipelineStepOfOutbox, PipelineStepOfConsumers
<1>2. Here \subseteq Dispatch /\ Ours \subseteq Task
  BY DEF PipelineAssumption, Ours
<1>3. CASE UNCHANGED executions
  <2>1. begun' = begun
    BY <1>3
  <2>2. CASE \A d \in Dispatch : status'[d] = "absent" <=> status[d] = "absent"
    <3>1. committed' = committed
      BY <1>2, <2>2
    <3>. QED  BY <2>1, <3>1 DEF Delivery!vars
  <2>3. ASSUME NEW d \in Dispatch, status' = [status EXCEPT ![d] = "pending"]
        PROVE  [Delivery!Next]_(Delivery!vars)
    <3>1. status'[d] # "absent" /\ \A x \in Dispatch \ {d} : status'[x] = status[x]
      BY <2>3 DEF IInv, TypeOK
    <3>2. CASE d \in Here
      <4>1. committed' = committed \cup {TaskFor[d]} /\ TaskFor[d] \in Ours
        BY <1>2, <3>1, <3>2 DEF Ours
      <4>2. Delivery!Commit(TaskFor[d])
        BY <2>1, <4>1 DEF Delivery!Commit
      <4>. QED  BY <4>1, <4>2 DEF Delivery!Next
    <3>3. CASE d \notin Here
      <4>1. committed' = committed
        BY <1>2, <3>1, <3>3
      <4>. QED  BY <2>1, <4>1 DEF Delivery!vars
    <3>. QED  BY <3>2, <3>3
  <2>. QED  BY <1>1, <2>2, <2>3, CommitsStay
<1>4. ASSUME NEW t \in claimed, executions[t] = 0, executions' = [executions EXCEPT ![t] = 1]
      PROVE  [Delivery!Next]_(Delivery!vars)
  <2>1. executions \in [Task -> 0 .. 2] /\ t \in Task
    BY DEF Consumer!IInv, Consumer!TypeOK
  <2>2. executions'[t] = 1 /\ \A s \in Task \ {t} : executions'[s] = executions[s]
    BY <1>4, <2>1
  <2>3. UNCHANGED status
    BY <2>1, <2>2, <1>4 DEF PipelineNext, Signals, Arrives, Consumer!Add, RelaySteps, ConsumerSteps,
                            pipelineVars, consumerVars, vars
  <2>4. committed' = committed
    BY <2>3
  <2>5. CASE t \in Ours
    <3>1. PICK d \in Here : InStream(d) /\ TaskFor[d] = t
      BY <2>5 DEF Consumer!HeldIn, Consumer!ClaimedIn, Rightful
    <3>2. status[d] # "absent"
      <4>1. d \in Dispatch /\ StageOf(d) # "none"
        BY <1>2, <3>1 DEF SignalledIsCommitted, signalledMap, stageMap
      <4>. QED  BY <4>1 DEF StageOf
    <3>3. t \in committed /\ begun[t] = 0
      <4>1. t \in committed
        BY <3>1, <3>2
      <4>2. begun[t] = 0
        BY <1>4, <2>5
      <4>. QED  BY <4>1, <4>2
    <3>4. begun' = [begun EXCEPT ![t] = 1]
      BY <1>2, <2>2, <2>5
    <3>5. Delivery!Execute(t)
      BY <2>4, <3>3, <3>4 DEF Delivery!Execute
    <3>. QED  BY <2>5, <3>5 DEF Delivery!Next
  <2>6. CASE t \notin Ours
    <3>1. begun' = begun
      BY <1>2, <2>2, <2>6
    <3>. QED  BY <2>4, <3>1 DEF Delivery!vars
  <2>. QED  BY <2>5, <2>6
<1>. QED  BY <1>1, <1>3, <1>4, Consumer!ExecutesOne DEF PipelineAssumption

\* From the transaction to the worker: a task begins to execute only after a dispatch
\* of it has been committed, and at most once, for any relays, consumers, leases,
\* crashes, losses and repetitions, provided that nobody else writes entries about it.
THEOREM PipelineImplementsDelivery ==
  ASSUME PipelineAssumption
  PROVE  PipelineSpec /\ [][OthersStayApart]_pipelineVars => ImplementsTaskDelivery
<1>1. PipelineSpec => []IInv
  BY PipelineAssumption, PipelineImplementsParts, InvariantHolds, PTL
<1>2. PipelineSpec => []Consumer!IInv
  BY PipelineAssumption, PipelineImplementsParts, Consumer!InvariantHolds, PTL DEF PipelineAssumption
<1>3. PipelineInit => SignalledIsCommitted /\ Consumer!HeldIn(Rightful) /\ Delivery!Init
  <2>. SUFFICES ASSUME PipelineInit PROVE SignalledIsCommitted /\ Consumer!HeldIn(Rightful) /\ Delivery!Init
    OBVIOUS
  <2>1. stream = <<>> /\ \A d \in Dispatch : status[d] = "absent"
    BY DEF PipelineInit, Init
  <2>2. SignalledIsCommitted
    BY <2>1 DEF SignalledIsCommitted, signalledMap, InStream
  <2>3. Consumer!HeldIn(Rightful)
    BY DEF PipelineInit, Consumer!Init, Consumer!HeldIn, Consumer!HandsIn, Consumer!ClaimedIn,
           Consumer!ReaderAt, Consumer!ReclaimerAt, Consumer!WorkerAt
  <2>4. Delivery!Init
    <3>1. {d \in Here : status[d] # "absent"} = {}
      BY <2>1 DEF PipelineAssumption
    <3>2. [t \in Ours |-> executions[t]] = [t \in Ours |-> 0]
      BY DEF PipelineInit, Consumer!Init, PipelineAssumption, Ours
    <3>. QED  BY <3>1, <3>2 DEF Delivery!Init
  <2>. QED  BY <2>2, <2>3, <2>4
<1>4. IInv /\ SignalledIsCommitted /\ [PipelineNext]_pipelineVars => SignalledIsCommitted'
  BY PipelineAssumption, PipelineStepOfOutbox, StepRefines, ListSignalsCommitted
<1>5. IInv /\ Consumer!IInv /\ Consumer!HeldIn(Rightful) /\ [PipelineNext]_pipelineVars
        /\ [OthersStayApart]_pipelineVars => Consumer!HeldIn(Rightful)'
  <2>. SUFFICES ASSUME IInv, Consumer!IInv, Consumer!HeldIn(Rightful), [PipelineNext]_pipelineVars,
                       [OthersStayApart]_pipelineVars
                PROVE  Consumer!HeldIn(Rightful)'
    OBVIOUS
  <2>1. OthersStayApart
    BY DEF OthersStayApart, pipelineVars, consumerVars
  <2>. QED  BY <2>1, PipelineAssumption, RightfulStays DEF IInv
<1>6. IInv /\ Consumer!IInv /\ SignalledIsCommitted /\ Consumer!HeldIn(Rightful) /\ [PipelineNext]_pipelineVars
        => [Delivery!Next]_(Delivery!vars)
  BY PipelineAssumption, PipelineDelivers
<1>. QED  BY <1>1, <1>2, <1>3, <1>4, <1>5, <1>6, PTL DEF PipelineSpec, Delivery!Spec, ImplementsTaskDelivery
===============================================================================
