------------------------------ MODULE ConfigCache ------------------------------
(***************************************************************************)
(* System configuration and its versioned Redis cache:                     *)
(* features/configuration/application/service.go over                      *)
(* adapters/mysql/configuration/repository.go and                          *)
(* adapters/redis/configuration/cache.go.                                  *)
(*                                                                         *)
(* A row is known by its key; what else it says is its value.  Requests    *)
(* run concurrently, on any number of API processes.  A MySQL or Redis     *)
(* call may succeed, fail, or take effect and lose its reply; a request    *)
(* whose client has gone fails every call from then on.                    *)
(***************************************************************************)
EXTENDS Integers

CONSTANTS
  Key,           \* configuration keys
  Value,         \* what a row may say
  NoValue,       \* there is no row, or no key
  Reader,        \* requests that read by key
  Writer,        \* requests that change or refresh
  MaxGeneration, \* bound on the generation, for TLC only
  MaxLosses      \* bound on how often Redis loses data, for TLC only

ASSUME CacheAssumption == NoValue \notin Value /\ NoValue \notin Key

VARIABLES
  row,        \* MySQL: the value of each key
  generation, \* Redis: system:config:version
  cached,     \* Redis: the entries system:config:data:<generation>:<key>
  losses,     \* how often Redis has lost data
  reader,     \* each reader: where GetByKey is and what it has learnt
  tries,      \* INCRs each writer may still send; 0 when it is not invalidating
  changed     \* history: a row changed after the generation last advanced

vars == <<row, generation, cached, losses, reader, tries, changed>>

Entry == [generation : Nat, key : Key, value : Value]
ReaderState == [at : {"idle", "query", "fill"}, key : Key \cup {NoValue}, generation : Nat,
                value : Value \cup {NoValue}]

Idle == [at |-> "idle", key |-> NoValue, generation |-> 0, value |-> NoValue]

\* Types: what requests carry between their calls, and at most three tries of INCR
\* (cache.go:86-109).
TypeOK ==
  /\ row \in [Key -> Value \cup {NoValue}]
  /\ generation \in Nat
  /\ cached \in SUBSET Entry
  /\ losses \in Nat
  /\ reader \in [Reader -> ReaderState]
  /\ tries \in [Writer -> 0 .. 3]
  /\ changed \in BOOLEAN

Init ==
  /\ row = [k \in Key |-> NoValue]
  /\ generation = 0
  /\ cached = {}
  /\ losses = 0
  /\ reader = [r \in Reader |-> Idle]
  /\ tries = [w \in Writer |-> 0]
  /\ changed = FALSE

At(k) == {e \in cached : e.generation = generation /\ e.key = k}

-------------------------------------------------------------------------------
(* Redis. *)

\* Fault: entries are stored without an expiry.
NeverExpires(e) == FALSE /\ UNCHANGED vars

\* PX: an entry's hour is over.
Expires(e) ==
  /\ cached' = cached \ {e}
  /\ UNCHANGED <<row, generation, losses, reader, tries, changed>>

\* Redis loses everything, or evicts the version key alone, which has no expiry.
LosesData ==
  /\ losses < MaxLosses
  /\ losses' = losses + 1
  /\ generation' = 0
  /\ cached' \in {cached, {}}
  /\ UNCHANGED <<row, reader, tries, changed>>

-------------------------------------------------------------------------------
(* Readers. *)

SetReader(r, state) == reader' = [reader EXCEPT ![r] = state]
Ends(r) == SetReader(r, Idle)

\* GetByKey: cache.Get finds no entry in the current generation.  A hit ends the
\* request, and after an error nothing will be cached.
Lookup(r, k) ==
  /\ reader[r].at = "idle"
  /\ At(k) = {}
  /\ SetReader(r, [at |-> "query", key |-> k, generation |-> generation, value |-> NoValue])
  /\ UNCHANGED <<row, generation, cached, losses, tries, changed>>

\* GetByKey: repository.GetByKey answers; without a row nothing is cached.
Query(r) ==
  /\ reader[r].at = "query"
  /\ IF row[reader[r].key] = NoValue THEN Ends(r)
     ELSE SetReader(r, [reader[r] EXCEPT !.at = "fill", !.value = row[reader[r].key]])
  /\ UNCHANGED <<row, generation, cached, losses, tries, changed>>

\* Fault: Set asks Redis for the generation again instead of comparing its own.
FillAnyway(r) ==
  /\ reader[r].at = "fill"
  /\ cached' = (cached \ At(reader[r].key)) \cup
       {[generation |-> generation, key |-> reader[r].key, value |-> reader[r].value]}
  /\ Ends(r)
  /\ UNCHANGED <<row, generation, losses, tries, changed>>

\* setIfCurrentVersionScript.
Fill(r) ==
  /\ reader[r].at = "fill"
  /\ IF reader[r].generation = generation
     THEN cached' = (cached \ At(reader[r].key)) \cup
            {[generation |-> generation, key |-> reader[r].key, value |-> reader[r].value]}
     ELSE UNCHANGED cached
  /\ Ends(r)
  /\ UNCHANGED <<row, generation, losses, tries, changed>>

\* A call fails without effect, and GetByKey ends without caching.
ReaderFails(r) ==
  /\ reader[r].at # "idle"
  /\ Ends(r)
  /\ UNCHANGED <<row, generation, cached, losses, tries, changed>>

-------------------------------------------------------------------------------
(* Writers. *)

\* Create, or Update without a new key.
Put(k, v) == row' = [row EXCEPT ![k] = v]

\* Update with a new key, which the unique index requires to be free.
Rename(k, k2, v) ==
  /\ row[k] # NoValue /\ row[k2] = NoValue
  /\ row' = [row EXCEPT ![k] = NoValue, ![k2] = v]

\* Delete or DeleteMany: all rows or none.
Remove(keys) ==
  /\ keys # {} /\ \A k \in keys : row[k] # NoValue
  /\ row' = [k \in Key |-> IF k \in keys THEN NoValue ELSE row[k]]

\* Save, Delete or DeleteMany: the mutation commits.  If its reply is lost the
\* request reports an error and does not invalidate.
Mutate(w) ==
  /\ tries[w] = 0
  /\ \/ \E k \in Key, v \in Value : Put(k, v) \/ \E k2 \in Key : Rename(k, k2, v)
     \/ \E keys \in SUBSET Key : Remove(keys)
  /\ changed' = TRUE
  /\ \/ tries' = [tries EXCEPT ![w] = 3]
     \/ UNCHANGED tries
  /\ UNCHANGED <<generation, cached, losses, reader>>

\* Refresh or RefreshKey, whose GetByKey afterwards is a reader.
Refresh(w) ==
  /\ tries[w] = 0
  /\ tries' = [tries EXCEPT ![w] = 3]
  /\ UNCHANGED <<row, generation, cached, losses, reader, changed>>

Advances ==
  /\ generation < MaxGeneration
  /\ generation' = generation + 1
  /\ changed' = FALSE

\* InvalidateAll: INCR answers.
Incr(w) ==
  /\ tries[w] > 0
  /\ Advances
  /\ tries' = [tries EXCEPT ![w] = 0]
  /\ UNCHANGED <<row, cached, losses, reader>>

\* InvalidateAll: INCR fails, with or without effect.  It is sent three times at
\* most, and no more once the request's context is done; the mutation still
\* reports success.
IncrFails(w) ==
  /\ tries[w] > 0
  /\ Advances \/ UNCHANGED <<generation, changed>>
  /\ \E left \in {0, tries[w] - 1} : tries' = [tries EXCEPT ![w] = left]
  /\ UNCHANGED <<row, cached, losses, reader>>

-------------------------------------------------------------------------------
Next ==
  \/ \E e \in cached : Expires(e)
  \/ LosesData
  \/ \E r \in Reader :
       (\E k \in Key : Lookup(r, k)) \/ Query(r) \/ Fill(r) \/ ReaderFails(r)
  \/ \E w \in Writer : Mutate(w) \/ Refresh(w) \/ Incr(w) \/ IncrFails(w)

Spec == Init /\ [][Next]_vars

\* An hour passes, and a reader's calls return.
Fairness ==
  /\ \A g \in 0 .. MaxGeneration, k \in Key, v \in Value :
       LET e == [generation |-> g, key |-> k, value |-> v]
       IN  WF_vars(e \in cached /\ Expires(e))
  /\ \A r \in Reader : WF_vars(Query(r)) /\ WF_vars(Fill(r))

FairSpec == Spec /\ Fairness

-------------------------------------------------------------------------------
(* Properties. *)

Fresh == \A k \in Key : \A e \in At(k) : e.value = row[k]

\* If no row has changed since the generation advanced, a hit returns what MySQL
\* says, whatever readers were under way across how many mutations, and unless
\* Redis has lost its generation: a stale read cannot enter the current one
\* (cache.go:27-34, docs/configuration.md:32).
CacheIsFresh == ~changed /\ losses = 0 => Fresh

\* What makes it inductive: entries and readers belong to generations that have
\* been, and a reader of the current one carries a row that is still there.
GenerationsArePast ==
  losses = 0 =>
    /\ \A e \in cached : e.generation <= generation
    /\ \A r \in Reader : reader[r].generation <= generation

ReadersAreFresh ==
  ~changed /\ losses = 0 => \A r \in Reader :
    reader[r].at = "fill" /\ reader[r].generation = generation
      => reader[r].value = row[reader[r].key]

ReadersCarryRows ==
  \A r \in Reader :
    /\ reader[r].at # "idle" => reader[r].key \in Key
    /\ reader[r].at = "fill" => reader[r].value \in Value

IInv ==
  /\ TypeOK
  /\ CacheIsFresh
  /\ GenerationsArePast
  /\ ReadersAreFresh
  /\ ReadersCarryRows

\* Every stale entry goes in the end, those included that a failed invalidation
\* or a loss of the generation left behind, once the rows change no more.
StaleEntriesGo == <>[][FALSE]_row => <>[]Fresh
===============================================================================
