--------------------------- MODULE ConfigCacheProofs ---------------------------
(***************************************************************************)
(* Theorems about ConfigCache, for every set of keys, values, readers and  *)
(* writers.                                                                *)
(***************************************************************************)
EXTENDS ConfigCache, TLAPS

\* What a request that is not under way carries.
LEMMA IdleState == Idle \in ReaderState /\ Idle.at = "idle" /\ Idle.generation = 0
BY DEF Idle, ReaderState

\* No rows, no entries, no requests: the invariant holds at the start.
LEMMA Initial == Init => IInv
<1>. SUFFICES ASSUME Init PROVE IInv
  OBVIOUS
<1>1. TypeOK
  <2>1. reader \in [Reader -> ReaderState]
    BY IdleState DEF Init
  <2>2. cached \in SUBSET Entry
    BY DEF Init
  <2>3. row \in [Key -> Value \cup {NoValue}] /\ tries \in [Writer -> 0 .. 3]
    BY DEF Init
  <2>4. generation \in Nat /\ losses \in Nat /\ changed \in BOOLEAN
    BY DEF Init
  <2>5. QED
    BY <2>1, <2>2, <2>3, <2>4 DEF TypeOK
<1>2. CacheIsFresh /\ GenerationsArePast /\ ReadersAreFresh
  BY DEF Init, CacheIsFresh, Fresh, At, GenerationsArePast, ReadersAreFresh, Idle
<1>4. ReadersCarryRows
  BY DEF Init, ReadersCarryRows, Idle
<1>5. QED
  BY <1>1, <1>2, <1>4 DEF IInv

\* Redis loses entries one by one, or its data at once.
LEMMA RedisKeeps ==
  ASSUME IInv, LosesData \/ \E e \in cached : Expires(e)
  PROVE  IInv'
<1>1. CASE LosesData
  <2>1. UNCHANGED reader /\ losses' = losses + 1 /\ generation' = 0 /\ cached' \in SUBSET Entry
    BY <1>1 DEF LosesData, IInv, TypeOK
  <2>2. losses' \in Nat \ {0}
    BY <2>1 DEF IInv, TypeOK
  <2>3. TypeOK'
    BY <1>1, <2>1, <2>2 DEF LosesData, IInv, TypeOK
  <2>4. QED
    BY <2>1, <2>2, <2>3 DEF IInv, CacheIsFresh, GenerationsArePast, ReadersAreFresh,
         ReadersCarryRows
<1>2. CASE \E e \in cached : Expires(e)
  <2>1. cached' \subseteq cached /\ UNCHANGED <<row, generation, losses, reader, tries, changed>>
    BY <1>2 DEF Expires
  <2>2. TypeOK'
    BY <2>1 DEF IInv, TypeOK
  <2>3. CacheIsFresh' /\ GenerationsArePast' /\ ReadersAreFresh' /\ ReadersCarryRows'
    BY <2>1 DEF IInv, CacheIsFresh, Fresh, At, GenerationsArePast, ReadersAreFresh,
         ReadersCarryRows
  <2>4. QED
    BY <2>2, <2>3 DEF IInv
<1>3. QED
  BY <1>1, <1>2

\* A reader's own state changes; others keep theirs.
LEMMA ReaderSet ==
  ASSUME TypeOK, NEW r \in Reader, NEW s \in ReaderState, SetReader(r, s)
  PROVE  /\ reader' \in [Reader -> ReaderState]
         /\ reader'[r] = s
         /\ \A q \in Reader \ {r} : reader'[q] = reader[q]
BY DEF TypeOK, SetReader

\* Lookup, Query and a failure change one reader only.
LEMMA ReadKeeps ==
  ASSUME IInv, NEW r \in Reader,
         (\E k \in Key : Lookup(r, k)) \/ Query(r) \/ ReaderFails(r)
  PROVE  IInv'
<1>1. UNCHANGED <<row, generation, cached, losses, tries, changed>>
  BY DEF Lookup, Query, ReaderFails
<1>2. PICK s \in ReaderState :
        /\ SetReader(r, s)
        /\ s.generation <= generation \/ s.generation = reader[r].generation
        /\ s.at = "fill" => s.value = row[s.key]
        /\ s.at # "idle" => s.key \in Key
        /\ s.at = "fill" => s.value \in Value
  <2>1. CASE \E k \in Key : Lookup(r, k)
    <3>1. PICK k \in Key : Lookup(r, k)
      BY <2>1
    <3>. DEFINE s == [at |-> "query", key |-> k, generation |-> generation, value |-> NoValue]
    <3>2. s \in ReaderState /\ s.generation <= generation
      BY DEF ReaderState, IInv, TypeOK
    <3>3. QED
      BY <3>1, <3>2 DEF Lookup
  <2>2. CASE Ends(r)
    <3>1. Idle.generation <= generation
      BY IdleState DEF IInv, TypeOK
    <3>2. QED
      BY <2>2, <3>1, IdleState DEF Ends
  <2>3. CASE Query(r) /\ ~Ends(r)
    <3>. DEFINE s == [reader[r] EXCEPT !.at = "fill", !.value = row[reader[r].key]]
    <3>1. SetReader(r, s) /\ row[reader[r].key] # NoValue
      BY <2>3 DEF Query
    <3>2. reader[r] \in ReaderState
      BY DEF IInv, TypeOK
    <3>3. reader[r].key \in Key
      BY <2>3 DEF Query, IInv, ReadersCarryRows
    <3>4. row[reader[r].key] \in Value
      BY <3>1, <3>3 DEF IInv, TypeOK
    <3>5. s.generation = reader[r].generation /\ s.key = reader[r].key
          /\ s.value = row[reader[r].key]
      BY <3>2 DEF ReaderState
    <3>6. s \in ReaderState
      BY <3>2, <3>4 DEF ReaderState
    <3>7. QED
      BY <3>1, <3>3, <3>4, <3>5, <3>6
  <2>4. QED
    BY <2>1, <2>2, <2>3 DEF ReaderFails
<1>3. /\ reader' \in [Reader -> ReaderState] /\ reader'[r] = s
      /\ \A q \in Reader \ {r} : reader'[q] = reader[q]
  BY <1>2, ReaderSet DEF IInv
<1>4. TypeOK'
  BY <1>1, <1>3 DEF IInv, TypeOK
<1>5. CacheIsFresh'
  BY <1>1 DEF IInv, CacheIsFresh, Fresh, At
<1>6. GenerationsArePast'
  BY <1>1, <1>2, <1>3 DEF IInv, GenerationsArePast
<1>7. ReadersAreFresh'
  BY <1>1, <1>2, <1>3 DEF IInv, ReadersAreFresh
<1>8. ReadersCarryRows'
  BY <1>2, <1>3 DEF IInv, ReadersCarryRows
<1>9. QED
  BY <1>4, <1>5, <1>6, <1>7, <1>8 DEF IInv

\* setIfCurrentVersionScript: what enters the current generation was read in it.
LEMMA FillKeeps ==
  ASSUME IInv, NEW r \in Reader, Fill(r)
  PROVE  IInv'
<1>. DEFINE new == [generation |-> generation, key |-> reader[r].key, value |-> reader[r].value]
<1>1. UNCHANGED <<row, generation, losses, tries, changed>> /\ SetReader(r, Idle)
  BY DEF Fill, Ends
<1>2. /\ reader' \in [Reader -> ReaderState] /\ reader'[r] = Idle
      /\ \A q \in Reader \ {r} : reader'[q] = reader[q]
  BY <1>1, IdleState, ReaderSet DEF IInv
<1>3. cached' \subseteq cached \/
        (reader[r].generation = generation /\ cached' = (cached \ At(reader[r].key)) \cup {new})
  BY DEF Fill
<1>4. reader[r].key \in Key /\ reader[r].value \in Value /\ generation \in Nat
  BY DEF Fill, IInv, TypeOK, ReadersCarryRows
<1>5. new \in Entry
  BY <1>4 DEF Entry
<1>6. TypeOK'
  BY <1>1, <1>2, <1>3, <1>5 DEF IInv, TypeOK
<1>7. CacheIsFresh'
  <2>. SUFFICES ASSUME ~changed, losses = 0, NEW k \in Key, NEW e \in cached',
                       e.generation = generation, e.key = k
                PROVE  e.value = row[k]
    BY <1>1 DEF CacheIsFresh, Fresh, At
  <2>1. CASE e \in cached
    BY <2>1 DEF IInv, CacheIsFresh, Fresh, At
  <2>2. CASE e = new /\ reader[r].generation = generation
    BY <2>2 DEF Fill, IInv, ReadersAreFresh
  <2>3. QED
    BY <1>3, <2>1, <2>2
<1>8. GenerationsArePast'
  <2>1. ASSUME losses = 0, NEW e \in cached' PROVE e.generation <= generation
    <3>1. CASE e \in cached
      BY <3>1, <2>1 DEF IInv, GenerationsArePast
    <3>2. CASE e = new
      BY <3>2, <1>4
    <3>3. QED
      BY <1>3, <2>1, <3>1, <3>2
  <2>2. Idle.generation <= generation
    BY <1>4, IdleState
  <2>3. QED
    BY <1>1, <1>2, <2>1, <2>2 DEF IInv, GenerationsArePast
<1>9. ReadersAreFresh'
  BY <1>1, <1>2, IdleState DEF IInv, ReadersAreFresh
<1>10. ReadersCarryRows'
  BY <1>1, <1>2, IdleState DEF IInv, ReadersCarryRows
<1>11. QED
  BY <1>6, <1>7, <1>8, <1>9, <1>10 DEF IInv

\* A mutation makes the history say so; a refresh changes no row.
LEMMA WriteKeeps ==
  ASSUME IInv, NEW w \in Writer, Mutate(w) \/ Refresh(w)
  PROVE  IInv'
<1>1. CASE Mutate(w)
  <2>1. changed' /\ UNCHANGED <<generation, cached, losses, reader>>
    BY <1>1 DEF Mutate
  <2>2. row' \in [Key -> Value \cup {NoValue}]
    BY <1>1 DEF Mutate, Put, Rename, Remove, IInv, TypeOK
  <2>3. tries' \in [Writer -> 0 .. 3] /\ changed' \in BOOLEAN
    BY <1>1 DEF Mutate, IInv, TypeOK
  <2>4. TypeOK'
    BY <2>1, <2>2, <2>3 DEF IInv, TypeOK
  <2>5. QED
    BY <2>1, <2>4 DEF IInv, CacheIsFresh, GenerationsArePast, ReadersAreFresh, ReadersCarryRows
<1>2. CASE Refresh(w)
  <2>1. /\ UNCHANGED <<row, generation, cached, losses, reader, changed>>
        /\ tries' \in [Writer -> 0 .. 3]
    BY <1>2 DEF Refresh, IInv, TypeOK
  <2>2. QED
    BY <2>1 DEF IInv, TypeOK, CacheIsFresh, Fresh, At, GenerationsArePast,
         ReadersAreFresh, ReadersCarryRows
<1>3. QED
  BY <1>1, <1>2

\* INCR leaves the entries and the readers of every earlier generation behind.
LEMMA InvalidateKeeps ==
  ASSUME IInv, NEW w \in Writer, Incr(w) \/ IncrFails(w)
  PROVE  IInv'
<1>1. UNCHANGED <<row, cached, losses, reader>> /\ tries' \in [Writer -> 0 .. 3]
  <2>1. \A left \in {0, tries[w] - 1} : tries[w] > 0 => left \in 0 .. 3
    BY DEF IInv, TypeOK
  <2>2. QED
    BY <2>1 DEF Incr, IncrFails, IInv, TypeOK
<1>2. CASE UNCHANGED <<generation, changed>>
  BY <1>1, <1>2 DEF IInv, TypeOK, CacheIsFresh, Fresh, At, GenerationsArePast,
       ReadersAreFresh, ReadersCarryRows
<1>3. CASE Advances
  <2>1. generation' = generation + 1 /\ changed' = FALSE /\ generation \in Nat
    BY <1>3 DEF Advances, IInv, TypeOK
  <2>2. TypeOK'
    <3>1. generation' \in Nat
      BY <2>1
    <3>2. changed' \in BOOLEAN
      BY <2>1
    <3>3. row' \in [Key -> Value \cup {NoValue}] /\ losses' \in Nat
      BY <1>1 DEF IInv, TypeOK
    <3>4. cached' \in SUBSET Entry /\ reader' \in [Reader -> ReaderState]
      BY <1>1 DEF IInv, TypeOK
    <3>5. QED
      BY <1>1, <3>1, <3>2, <3>3, <3>4 DEF TypeOK
  <2>3. \A e \in cached : e.generation \in Nat
    BY DEF IInv, TypeOK, Entry
  <2>4. \A r \in Reader : reader[r].generation \in Nat
    BY DEF IInv, TypeOK, ReaderState
  <2>5. GenerationsArePast'
    BY <1>1, <2>1, <2>3, <2>4 DEF IInv, GenerationsArePast
  <2>6. CacheIsFresh'
    <3>1. losses = 0 => \A k \in Key : At(k)' = {}
      BY <1>1, <2>1, <2>3 DEF IInv, GenerationsArePast, At
    <3>2. QED
      BY <1>1, <3>1 DEF CacheIsFresh, Fresh
  <2>7. ReadersAreFresh'
    BY <1>1, <2>1, <2>4 DEF IInv, GenerationsArePast, ReadersAreFresh
  <2>8. ReadersCarryRows'
    BY <1>1 DEF IInv, ReadersCarryRows
  <2>9. QED
    BY <2>2, <2>5, <2>6, <2>7, <2>8 DEF IInv
<1>4. QED
  BY <1>2, <1>3 DEF Incr, IncrFails

\* Every step keeps the strengthened invariant.
LEMMA Inductive == IInv /\ [Next]_vars => IInv'
<1>. SUFFICES ASSUME IInv, [Next]_vars PROVE IInv'
  OBVIOUS
<1>1. CASE UNCHANGED vars
  BY <1>1 DEF vars, IInv, TypeOK, CacheIsFresh, Fresh, At, GenerationsArePast,
       ReadersAreFresh, ReadersCarryRows
<1>2. QED
  BY <1>1, RedisKeeps, ReadKeeps, FillKeeps, WriteKeeps, InvalidateKeeps DEF Next

\* The strengthened invariant holds for all keys, values and requests.
THEOREM InvariantHolds == Spec => []IInv
BY Initial, Inductive, PTL DEF Spec

\* Rows, entries and requests keep their types.
THEOREM TypeCorrect == Spec => []TypeOK
<1>1. IInv => TypeOK
  BY DEF IInv
<1>2. QED
  BY InvariantHolds, <1>1, PTL

\* The cache never contradicts MySQL once the generation has advanced past the
\* last change: the script's comparison keeps every earlier read out.
THEOREM HitsAreFresh == Spec => []CacheIsFresh
<1>1. IInv => CacheIsFresh
  BY DEF IInv
<1>2. QED
  BY InvariantHolds, <1>1, PTL
================================================================================
