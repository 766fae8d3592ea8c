-------------------------------- MODULE Sessions --------------------------------
(***************************************************************************)
(* Sessions and the account changes that end them:                         *)
(* adapters/redis/identity/store.go under                                  *)
(* features/identity/application/service.go.                               *)
(*                                                                         *)
(* An access and a refresh token are always issued together: a Pair stands *)
(* for both, and a family for the pairs that follow one another in one     *)
(* session.  Tokens and families are random and never drawn twice.  Each   *)
(* script, and the MULTI of createFamily, is one step of Redis.  Redis     *)
(* keeps what has not expired; what is left of each key's life is counted. *)
(* A call may succeed, fail, or take effect and lose its reply, in which   *)
(* case the Redis client sends it again or the request ends.               *)
(***************************************************************************)
EXTENDS Integers

CONSTANTS
  Account,
  Family,     \* session families
  Pair,       \* token pairs
  Request,    \* requests under way, on any number of API processes
  NoAccount, NoFamily, NoPair,
  AccessTTL,  \* Identity.AccessTokenTTL
  RefreshTTL  \* Identity.RefreshTokenTTL

\* Validate asks for positive times only; that no access token outlives its
\* refresh token holds for the default configuration.
ASSUME SessionAssumption ==
  /\ NoAccount \notin Account /\ NoFamily \notin Family /\ NoPair \notin Pair
  /\ AccessTTL \in Nat \ {0} /\ RefreshTTL \in Nat \ {0}
  /\ AccessTTL <= RefreshTTL

VARIABLES
  status,      \* MySQL: active, disabled or deleted
  accountOf,   \* the account a family was drawn for: part of every token's value
  familyOf,    \* the family a pair was drawn for: part of its tokens' value
  accessLeft,  \* Redis: time until the access token expires, 0 without it
  refreshLeft, \* Redis: the same for the refresh token
  used,        \* Redis: the refresh token's value is the tombstone
  current,     \* Redis: the pair in the family's hash
  familyLeft,  \* Redis: time until the hash expires
  familiesOf,  \* Redis: the account's set of families
  listLeft,    \* Redis: time until that set expires
  request,     \* where each request is, the pair it works on, accounts to invalidate
  outdated,    \* history: families opened before their account was changed
  missed,      \* history: changed accounts whose invalidation failed since
  ended        \* history: families that were revoked or invalidated

drawnVars == <<accountOf, familyOf>>
redisVars == <<accessLeft, refreshLeft, used, current, familyLeft, familiesOf, listLeft>>
historyVars == <<outdated, missed, ended>>
vars == <<status, drawnVars, redisVars, request, historyVars>>

Status == {"active", "disabled", "deleted"}
Control == {"idle", "create", "rotate", "recheck", "revoke", "verify", "invalidate"}
RequestState == [at : Control, pair : Pair \cup {NoPair}, accounts : SUBSET Account]

\* Types: no key lives longer than its TTL (store.go:150-159, 35-45), and a
\* request works on one pair or on accounts.
TypeOK ==
  /\ status \in [Account -> Status]
  /\ accountOf \in [Family -> Account \cup {NoAccount}]
  /\ familyOf \in [Pair -> Family \cup {NoFamily}]
  /\ accessLeft \in [Pair -> 0 .. AccessTTL]
  /\ refreshLeft \in [Pair -> 0 .. RefreshTTL]
  /\ used \in [Pair -> BOOLEAN]
  /\ current \in [Family -> Pair \cup {NoPair}]
  /\ familyLeft \in [Family -> 0 .. RefreshTTL]
  /\ familiesOf \in [Account -> SUBSET Family]
  /\ listLeft \in [Account -> 0 .. RefreshTTL]
  /\ request \in [Request -> RequestState]
  /\ outdated \in SUBSET Family
  /\ missed \in SUBSET Account
  /\ ended \in SUBSET Family

Idle == [at |-> "idle", pair |-> NoPair, accounts |-> {}]
On(here, p) == [at |-> here, pair |-> p, accounts |-> {}]
For(here, as) == [at |-> here, pair |-> NoPair, accounts |-> as]

Init ==
  /\ status = [a \in Account |-> "active"]
  /\ accountOf = [f \in Family |-> NoAccount]
  /\ familyOf = [p \in Pair |-> NoFamily]
  /\ accessLeft = [p \in Pair |-> 0]
  /\ refreshLeft = [p \in Pair |-> 0]
  /\ used = [p \in Pair |-> FALSE]
  /\ current = [f \in Family |-> NoPair]
  /\ familyLeft = [f \in Family |-> 0]
  /\ familiesOf = [a \in Account |-> {}]
  /\ listLeft = [a \in Account |-> 0]
  /\ request = [r \in Request |-> Idle]
  /\ outdated = {} /\ missed = {} /\ ended = {}

At(r, here) == request[r].at = here
Becomes(r, state) == request' = [request EXCEPT ![r] = state]

\* The request that opens f has not answered: nobody knows its tokens yet.
InCreation(f) == \E r \in Request : At(r, "create") /\ familyOf[request[r].pair] = f

\* The refresh token exists and has not been rotated.
Fresh(p) == refreshLeft[p] > 0 /\ ~used[p]
Tombstone(p) == refreshLeft[p] > 0 /\ used[p]

-------------------------------------------------------------------------------
(* Redis. *)

Less(n) == IF n > 0 THEN n - 1 ELSE 0

\* Time passes; a key whose time is over is gone.
Tick ==
  /\ accessLeft' = [p \in Pair |-> Less(accessLeft[p])]
  /\ refreshLeft' = [p \in Pair |-> Less(refreshLeft[p])]
  /\ used' = [p \in Pair |-> used[p] /\ refreshLeft[p] > 1]
  /\ familyLeft' = [f \in Family |-> Less(familyLeft[f])]
  /\ current' = [f \in Family |-> IF familyLeft[f] > 1 THEN current[f] ELSE NoPair]
  /\ listLeft' = [a \in Account |-> Less(listLeft[a])]
  /\ familiesOf' = [a \in Account |-> IF listLeft[a] > 1 THEN familiesOf[a] ELSE {}]
  /\ UNCHANGED <<status, drawnVars, request, historyVars>>

\* Fault: the account's set keeps the expiry of the login.
WritesKeepingList(p, f) ==
  LET a == accountOf[f] IN
  /\ accessLeft' = [q \in Pair |->
       IF q = p THEN AccessTTL ELSE IF q = current[f] THEN 0 ELSE accessLeft[q]]
  /\ current' = [current EXCEPT ![f] = p]
  /\ familyLeft' = [familyLeft EXCEPT ![f] = RefreshTTL]
  /\ familiesOf' = [familiesOf EXCEPT ![a] = @ \cup {f}]
  /\ listLeft' = [listLeft EXCEPT ![a] = IF @ = 0 THEN RefreshTTL ELSE @]

\* What createFamily and rotateSessionScript write for a new pair p of f, except
\* for the refresh tokens.
Writes(p, f) ==
  LET a == accountOf[f] IN
  /\ accessLeft' = [q \in Pair |->
       IF q = p THEN AccessTTL ELSE IF q = current[f] THEN 0 ELSE accessLeft[q]]
  /\ current' = [current EXCEPT ![f] = p]
  /\ familyLeft' = [familyLeft EXCEPT ![f] = RefreshTTL]
  /\ familiesOf' = [familiesOf EXCEPT ![a] = @ \cup {f}]
  /\ listLeft' = [listLeft EXCEPT ![a] = RefreshTTL]

\* What revokeFamilyScript and invalidateUserScript delete for the families fs.
Deletes(fs) ==
  /\ accessLeft' = [p \in Pair |->
       IF \E f \in fs : current[f] = p THEN 0 ELSE accessLeft[p]]
  /\ refreshLeft' = [p \in Pair |->
       IF \E f \in fs : current[f] = p THEN 0 ELSE refreshLeft[p]]
  /\ used' = [p \in Pair |-> used[p] /\ ~\E f \in fs : current[f] = p]
  /\ current' = [f \in Family |-> IF f \in fs THEN NoPair ELSE current[f]]
  /\ familyLeft' = [f \in Family |-> IF f \in fs THEN 0 ELSE familyLeft[f]]

\* SREM f from its account's set; Redis drops an empty set.
Forgets(f) ==
  LET a == accountOf[f]
      rest == familiesOf[a] \ {f}
  IN  /\ familiesOf' = [familiesOf EXCEPT ![a] = rest]
      /\ listLeft' = [listLeft EXCEPT ![a] = IF rest = {} THEN 0 ELSE @]

-------------------------------------------------------------------------------
(* Login. *)

\* Login: captcha and password are right and the account is active, as one read
\* of its row says; Create draws a family and its first tokens.  A login that
\* fails any of these ends without effect.
Login(r, a, f, p) ==
  /\ At(r, "idle") /\ status[a] = "active"
  /\ accountOf[f] = NoAccount /\ familyOf[p] = NoFamily
  /\ accountOf' = [accountOf EXCEPT ![f] = a]
  /\ familyOf' = [familyOf EXCEPT ![p] = f]
  /\ Becomes(r, On("create", p))
  /\ UNCHANGED <<status, redisVars, historyVars>>

\* createFamily: the MULTI takes effect, and is sent again if its reply is lost.
\* The session of a login that was under way while its account changed is the
\* one that no invalidation ends: it does not count as outdated.
Create(r) ==
  LET p == request[r].pair
      f == familyOf[p]
  IN  /\ At(r, "create")
      /\ Writes(p, f)
      /\ refreshLeft' = [refreshLeft EXCEPT ![p] = RefreshTTL]
      /\ used' = [used EXCEPT ![p] = FALSE]
      /\ outdated' = outdated \ {f}
      /\ Becomes(r, Idle) \/ UNCHANGED request
      /\ UNCHANGED <<status, drawnVars, missed, ended>>

-------------------------------------------------------------------------------
(* Refresh and logout. *)

\* Somebody has the tokens of p.
Known(p) == familyOf[p] # NoFamily /\ ~InCreation(familyOf[p])

\* Refresh: GET finds the token; its value says whether it has been used.
Refresh(r, p) ==
  /\ At(r, "idle") /\ Known(p)
  /\ \/ Fresh(p) /\ Becomes(r, On("rotate", p))
     \/ Tombstone(p) /\ Becomes(r, On("revoke", p))
  /\ UNCHANGED <<status, drawnVars, redisVars, historyVars>>

\* Fault: the script trusts what GET has said before.
StillFreshUnchecked(p) == TRUE

\* The script's first test: the value is still the one GET found.
StillFresh(p) == Fresh(p)

TombstoneLife(f) == IF familyLeft[f] = 0 THEN RefreshTTL ELSE familyLeft[f]

\* rotateSessionScript replaces the pair by q, and is sent again if its reply is
\* lost: then it meets its own tombstone.
Rotate(r, q) ==
  LET p == request[r].pair
      f == familyOf[p]
  IN  /\ At(r, "rotate") /\ StillFresh(p)
      /\ familyOf[q] = NoFamily
      /\ familyOf' = [familyOf EXCEPT ![q] = f]
      /\ Writes(q, f)
      /\ refreshLeft' = [refreshLeft EXCEPT ![p] = TombstoneLife(f), ![q] = RefreshTTL]
      /\ used' = [used EXCEPT ![p] = TRUE]
      /\ Becomes(r, Idle) \/ UNCHANGED request
      /\ UNCHANGED <<status, accountOf, historyVars>>

\* rotateSessionScript answers 0.
RotateRefused(r) ==
  /\ At(r, "rotate") /\ ~StillFresh(request[r].pair)
  /\ Becomes(r, On("recheck", request[r].pair))
  /\ UNCHANGED <<status, drawnVars, redisVars, historyVars>>

\* The second GET: a tombstone means reuse, anything else that the session is gone.
Recheck(r) ==
  /\ At(r, "recheck")
  /\ Becomes(r, IF Tombstone(request[r].pair) THEN On("revoke", request[r].pair) ELSE Idle)
  /\ UNCHANGED <<status, drawnVars, redisVars, historyVars>>

\* Logout: RevokeAccess finds the access token.
Logout(r, p) ==
  /\ At(r, "idle") /\ Known(p) /\ accessLeft[p] > 0
  /\ Becomes(r, On("revoke", p))
  /\ UNCHANGED <<status, drawnVars, redisVars, historyVars>>

\* revokeFamilyScript deletes the family with whatever pair it has by now.
Revoke(r) ==
  LET f == familyOf[request[r].pair] IN
  /\ At(r, "revoke")
  /\ Deletes({f}) /\ Forgets(f)
  /\ ended' = ended \cup {f}
  /\ Becomes(r, Idle) \/ UNCHANGED request
  /\ UNCHANGED <<status, drawnVars, outdated, missed>>

-------------------------------------------------------------------------------
(* Accounts. *)

\* Save of an existing account, SetStatus, ResetPassword and ChangePassword (s is
\* then what it was) change one account, Delete any number in one transaction.
Sets(as, s) ==
  /\ as # {} /\ \A a \in as : status[a] # "deleted"
  /\ s = "deleted" \/ \A a, b \in as : a = b
  /\ status' = [a \in Account |-> IF a \in as THEN s ELSE status[a]]
  /\ outdated' = outdated \cup {f \in Family : accountOf[f] \in as}

\* Fault: a mutation that leaves the sessions alone.
ChangeOnly(r, as) ==
  /\ At(r, "idle")
  /\ \E s \in Status : Sets(as, s)
  /\ UNCHANGED <<drawnVars, redisVars, request, missed, ended>>

\* The mutation commits; if its reply is lost the request ends with an error.
Change(r, as) ==
  /\ At(r, "idle")
  /\ \E s \in Status : Sets(as, s)
  /\ \/ Becomes(r, For("invalidate", as)) /\ UNCHANGED missed
     \/ UNCHANGED request /\ missed' = missed \cup as
  /\ UNCHANGED <<drawnVars, redisVars, ended>>

\* VerifyAccount: AccountID finds the access token; then Get reads the account.
VerifyAccount(r, p) ==
  /\ At(r, "idle") /\ Known(p) /\ accessLeft[p] > 0
  /\ Becomes(r, For("verify", {accountOf[familyOf[p]]}))
  /\ UNCHANGED <<status, drawnVars, redisVars, historyVars>>

AccountRead(r) ==
  /\ At(r, "verify")
  /\ Becomes(r, IF \A a \in request[r].accounts : status[a] = "active" THEN Idle
                ELSE For("invalidate", request[r].accounts))
  /\ UNCHANGED <<status, drawnVars, redisVars, historyVars>>

\* The request has dealt with a.
After(r, a) ==
  Becomes(r, IF request[r].accounts = {a} THEN Idle
             ELSE For("invalidate", request[r].accounts \ {a}))

\* InvalidateUser: invalidateUserScript deletes the families the account's set has.
InvalidateUser(r, a) ==
  /\ At(r, "invalidate") /\ a \in request[r].accounts
  /\ Deletes(familiesOf[a])
  /\ familiesOf' = [familiesOf EXCEPT ![a] = {}]
  /\ listLeft' = [listLeft EXCEPT ![a] = 0]
  /\ missed' = missed \ {a}
  /\ ended' = ended \cup {f \in Family : accountOf[f] = a /\ ~InCreation(f)}
  /\ After(r, a) \/ UNCHANGED request
  /\ UNCHANGED <<status, drawnVars, outdated>>

\* InvalidateUser fails, which the service ignores.
InvalidateFails(r, a) ==
  /\ At(r, "invalidate") /\ a \in request[r].accounts
  /\ missed' = missed \cup {a}
  /\ After(r, a)
  /\ UNCHANGED <<status, drawnVars, redisVars, outdated, ended>>

\* Any other call fails, and the request ends with an error.
Fails(r) ==
  /\ request[r].at \notin {"idle", "invalidate"}
  /\ Becomes(r, Idle)
  /\ UNCHANGED <<status, drawnVars, redisVars, historyVars>>

-------------------------------------------------------------------------------
Step(r) ==
  \/ \E a \in Account, f \in Family, p \in Pair : Login(r, a, f, p)
  \/ Create(r)
  \/ \E p \in Pair : Refresh(r, p) \/ Rotate(r, p) \/ Logout(r, p) \/ VerifyAccount(r, p)
  \/ RotateRefused(r) \/ Recheck(r) \/ Revoke(r) \/ AccountRead(r) \/ Fails(r)
  \/ \E as \in SUBSET Account : Change(r, as)
  \/ \E a \in Account : InvalidateUser(r, a) \/ InvalidateFails(r, a)

Next == Tick \/ \E r \in Request : Step(r)

Spec == Init /\ [][Next]_vars

-------------------------------------------------------------------------------
(* Properties. *)

\* A token of f opens something.
Usable(f) ==
  \E p \in Pair : familyOf[p] = f /\ (accessLeft[p] > 0 \/ Fresh(p))

\* Whatever can still be used can be found: a usable pair is the one in its
\* family's hash, and the family is in its account's set, so rotation, logout and
\* InvalidateUser reach every token whichever key would expire first, and no
\* family has two usable pairs (store.go:24-94).
UsableIsCurrent ==
  \A p \in Pair : accessLeft[p] > 0 \/ Fresh(p) =>
    /\ current[familyOf[p]] = p
    /\ familyOf[p] \in familiesOf[accountOf[familyOf[p]]]

\* A session that has been revoked or invalidated is over for good: neither a
\* refresh under way, nor a repeated script, nor a late login of the same
\* account brings a token of it back (store_integration_test.go:
\* "invalidation must revoke a concurrently refreshed session").
EndedStaysEnded == \A f \in ended : ~Usable(f)

\* No session outlives a change of its account (password, status, deletion),
\* unless the invalidation is still to come or failed; the session of a login
\* that was under way is not counted (service.go:324, 349, 371, 386).
SessionsMatchAccount ==
  \A f \in outdated : Usable(f) =>
    \/ accountOf[f] \in missed
    \/ \E r \in Request : At(r, "invalidate") /\ accountOf[f] \in request[r].accounts

\* What makes them inductive.  The keys of a session expire in the order in which
\* the properties need them: tokens no later than the hash, the hash no later
\* than the account's set.
KeysExpireInOrder ==
  /\ \A p \in Pair : accessLeft[p] > 0 \/ Fresh(p) =>
       /\ familyOf[p] \in Family
       /\ accessLeft[p] <= familyLeft[familyOf[p]]
       /\ Fresh(p) => refreshLeft[p] <= familyLeft[familyOf[p]]
  /\ \A a \in Account : \A f \in familiesOf[a] :
       accountOf[f] = a /\ familyLeft[f] <= listLeft[a]

\* Tokens are drawn for families that have been drawn for an account.
DrawnInOrder ==
  /\ \A p \in Pair : familyOf[p] \in Family => accountOf[familyOf[p]] \in Account
  /\ \A f \in Family : current[f] \in Pair => familyOf[current[f]] = f
  /\ \A f \in ended : accountOf[f] \in Account

\* A family in creation has one pair, which only its login knows, and nobody has
\* ended it.
CreationIsPrivate ==
  \A r \in Request :
    LET p == request[r].pair IN
    /\ At(r, "create") =>
         /\ p \in Pair /\ familyOf[p] \in Family /\ familyOf[p] \notin ended
         /\ \A q \in Pair : familyOf[q] = familyOf[p] => q = p
    /\ request[r].at \in {"rotate", "recheck", "revoke"} =>
         p \in Pair /\ familyOf[p] \in Family /\ ~InCreation(familyOf[p])

IInv ==
  /\ TypeOK
  /\ UsableIsCurrent
  /\ EndedStaysEnded
  /\ SessionsMatchAccount
  /\ KeysExpireInOrder
  /\ DrawnInOrder
  /\ CreationIsPrivate
===============================================================================
