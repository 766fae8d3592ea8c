----------------------------- MODULE SessionsProofs -----------------------------
(***************************************************************************)
(* Sessions: every usable token can be found and an ended session stays    *)
(* ended, for any number of accounts, sessions and requests and for any    *)
(* times with AccessTTL <= RefreshTTL.                                     *)
(***************************************************************************)
EXTENDS Sessions, TLAPS

\* The initial state satisfies the inductive invariant.
LEMMA InitIInv == Init => IInv
<1> SUFFICES ASSUME Init PROVE IInv
  OBVIOUS
<1> USE SessionAssumption DEF Init
<1>1. TypeOK
  <2>1. /\ status \in [Account -> Status]
        /\ accountOf \in [Family -> Account \cup {NoAccount}]
        /\ familyOf \in [Pair -> Family \cup {NoFamily}]
        /\ current \in [Family -> Pair \cup {NoPair}]
        /\ familiesOf \in [Account -> SUBSET Family]
    BY DEF Status
  <2>2. /\ accessLeft \in [Pair -> 0 .. AccessTTL]
        /\ refreshLeft \in [Pair -> 0 .. RefreshTTL]
        /\ familyLeft \in [Family -> 0 .. RefreshTTL]
        /\ listLeft \in [Account -> 0 .. RefreshTTL]
    OBVIOUS
  <2>3. used \in [Pair -> BOOLEAN]
    OBVIOUS
  <2>4. request \in [Request -> RequestState]
    BY DEF Idle, RequestState, Control
  <2>5. QED  BY <2>1, <2>2, <2>3, <2>4 DEF TypeOK
<1>2. UsableIsCurrent /\ KeysExpireInOrder
  BY DEF UsableIsCurrent, KeysExpireInOrder, Fresh
<1>3. EndedStaysEnded /\ SessionsMatchAccount /\ DrawnInOrder
  BY DEF EndedStaysEnded, SessionsMatchAccount, DrawnInOrder
<1>4. CreationIsPrivate
  BY DEF CreationIsPrivate, At, Idle
<1>5. QED  BY <1>1, <1>2, <1>3, <1>4 DEF IInv

-------------------------------------------------------------------------------
(* What the keys of Redis are after each script. *)

\* Counting down keeps a time within its bound.
LEMMA LessIsLess ==
  ASSUME NEW n \in Nat
  PROVE  Less(n) \in 0 .. n /\ (Less(n) > 0 => Less(n) = n - 1)
BY DEF Less

\* The types of what createFamily and the rotation write.
LEMMA WritesTyped ==
  ASSUME TypeOK, NEW p \in Pair, NEW f \in Family, Writes(p, f)
  PROVE  /\ accessLeft' \in [Pair -> 0 .. AccessTTL]
         /\ current' \in [Family -> Pair \cup {NoPair}]
         /\ familyLeft' \in [Family -> 0 .. RefreshTTL]
         /\ familiesOf' \in [Account -> SUBSET Family]
         /\ listLeft' \in [Account -> 0 .. RefreshTTL]
<1> USE SessionAssumption DEF TypeOK, Writes
<1>1. accessLeft' \in [Pair -> 0 .. AccessTTL]
  OBVIOUS
<1>2. current' \in [Family -> Pair \cup {NoPair}]
  OBVIOUS
<1>. RefreshTTL \in 0 .. RefreshTTL
  OBVIOUS
<1>3. familyLeft' \in [Family -> 0 .. RefreshTTL]
  OBVIOUS
<1>4. familiesOf' \in [Account -> SUBSET Family]
  OBVIOUS
<1>5. listLeft' \in [Account -> 0 .. RefreshTTL]
  OBVIOUS
<1>6. QED  BY <1>1, <1>2, <1>3, <1>4, <1>5

\* The types of what revocation and invalidation leave.
LEMMA DeletesTyped ==
  ASSUME TypeOK, NEW fs \in SUBSET Family, Deletes(fs)
  PROVE  /\ accessLeft' \in [Pair -> 0 .. AccessTTL]
         /\ refreshLeft' \in [Pair -> 0 .. RefreshTTL]
         /\ used' \in [Pair -> BOOLEAN]
         /\ current' \in [Family -> Pair \cup {NoPair}]
         /\ familyLeft' \in [Family -> 0 .. RefreshTTL]
<1> USE SessionAssumption DEF TypeOK, Deletes
<1>1. accessLeft' \in [Pair -> 0 .. AccessTTL]
  OBVIOUS
<1>2. refreshLeft' \in [Pair -> 0 .. RefreshTTL]
  OBVIOUS
<1>3. used' \in [Pair -> BOOLEAN]
  OBVIOUS
<1>4. current' \in [Family -> Pair \cup {NoPair}]
  OBVIOUS
<1>5. familyLeft' \in [Family -> 0 .. RefreshTTL]
  OBVIOUS
<1>6. QED  BY <1>1, <1>2, <1>3, <1>4, <1>5

\* Writing a new pair for a family keeps the order of the keys, provided that no
\* other token of the family stays fresh.
LEMMA WritesKeepOrder ==
  ASSUME TypeOK, UsableIsCurrent, KeysExpireInOrder, DrawnInOrder,
         NEW p \in Pair, NEW f \in Family, Writes(p, f),
         accountOf[f] \in Account, UNCHANGED accountOf,
         familyOf[p] \in {NoFamily, f}, familyOf' = [familyOf EXCEPT ![p] = f],
         refreshLeft' \in [Pair -> 0 .. RefreshTTL],
         \A q \in Pair : q # p /\ Fresh(q)' =>
           Fresh(q) /\ familyOf[q] # f /\ refreshLeft'[q] = refreshLeft[q]
  PROVE  /\ UsableIsCurrent'
         /\ KeysExpireInOrder'
         /\ \A g \in Family : current'[g] \in Pair => familyOf'[current'[g]] = g
         /\ \A g \in Family : Usable(g)' => g = f \/ Usable(g)
<1> DEFINE Live(q) == accessLeft[q] > 0 \/ Fresh(q)
<1>1. /\ familyOf'[p] = f /\ current'[f] = p /\ familyLeft'[f] = RefreshTTL
      /\ accessLeft'[p] = AccessTTL
      /\ f \in familiesOf'[accountOf[f]] /\ listLeft'[accountOf[f]] = RefreshTTL
  BY DEF TypeOK, Writes
<1>. refreshLeft'[p] <= RefreshTTL
  BY SessionAssumption
<1>2. ASSUME NEW g \in Family, g # f
      PROVE  current'[g] = current[g] /\ familyLeft'[g] = familyLeft[g]
  BY <1>2 DEF TypeOK, Writes
<1>3. ASSUME NEW q \in Pair, q # p, accessLeft'[q] > 0 \/ Fresh(q)'
      PROVE  /\ Live(q) /\ familyOf[q] \in Family /\ familyOf[q] # f
             /\ familyOf'[q] = familyOf[q]
             /\ accessLeft'[q] <= accessLeft[q]
             /\ Fresh(q)' => Fresh(q) /\ refreshLeft'[q] = refreshLeft[q]
  <2>1. accessLeft'[q] = IF q = current[f] THEN 0 ELSE accessLeft[q]
    BY <1>3 DEF TypeOK, Writes
  <2>2. accessLeft[q] \in Nat /\ familyOf'[q] = familyOf[q]
    BY <1>3 DEF TypeOK
  <2>3. Live(q)
    BY <1>3, <2>1, <2>2
  <2>4. familyOf[q] \in Family /\ current[familyOf[q]] = q
    BY <2>3 DEF UsableIsCurrent, KeysExpireInOrder
  <2>5. familyOf[q] # f
    BY <1>3, <2>1, <2>4
  <2>6. QED  BY <1>3, <2>1, <2>2, <2>3, <2>4, <2>5
<1>4. ASSUME NEW q \in Pair, q # p, accessLeft'[q] > 0 \/ Fresh(q)'
      PROVE  accountOf[familyOf[q]] \in Account /\ familyOf[q] \in familiesOf'[accountOf[familyOf[q]]]
  <2>1. Live(q) /\ familyOf[q] \in Family
    BY <1>3, <1>4
  <2>2. accountOf[familyOf[q]] \in Account
    BY <2>1 DEF DrawnInOrder
  <2>3. familyOf[q] \in familiesOf[accountOf[familyOf[q]]]
    BY <2>1 DEF UsableIsCurrent
  <2>4. QED  BY <2>2, <2>3 DEF TypeOK, Writes
<1>5. UsableIsCurrent'
  <2> SUFFICES ASSUME NEW q \in Pair, accessLeft'[q] > 0 \/ Fresh(q)'
               PROVE  current'[familyOf'[q]] = q /\ familyOf'[q] \in familiesOf'[accountOf[familyOf'[q]]]
    BY DEF UsableIsCurrent
  <2>1. CASE q = p
    BY <1>1, <2>1
  <2>2. CASE q # p
    <3>1. current[familyOf[q]] = q
      BY <1>3, <2>2 DEF UsableIsCurrent
    <3>2. QED  BY <1>2, <1>3, <1>4, <2>2, <3>1
  <2>3. QED  BY <2>1, <2>2
<1>6. KeysExpireInOrder'
  <2>1. ASSUME NEW q \in Pair, accessLeft'[q] > 0 \/ Fresh(q)'
        PROVE  /\ familyOf'[q] \in Family
               /\ accessLeft'[q] <= familyLeft'[familyOf'[q]]
               /\ Fresh(q)' => refreshLeft'[q] <= familyLeft'[familyOf'[q]]
    <3>1. CASE q = p
      BY <1>1, <3>1, SessionAssumption
    <3>2. CASE q # p
      <4>1. /\ familyOf[q] \in Family /\ familyOf'[q] = familyOf[q]
            /\ familyLeft'[familyOf[q]] = familyLeft[familyOf[q]]
            /\ accessLeft'[q] <= accessLeft[q]
            /\ Fresh(q)' => Fresh(q) /\ refreshLeft'[q] = refreshLeft[q]
        BY <1>2, <1>3, <2>1, <3>2
      <4>2. /\ accessLeft[q] <= familyLeft[familyOf[q]]
            /\ Fresh(q) => refreshLeft[q] <= familyLeft[familyOf[q]]
        BY <1>3, <2>1, <3>2 DEF KeysExpireInOrder
      <4>3. accessLeft'[q] \in Int /\ accessLeft[q] \in Int /\ familyLeft[familyOf[q]] \in Int
        BY <4>1, WritesTyped DEF TypeOK
      <4>4. QED  BY <4>1, <4>2, <4>3
    <3>3. QED  BY <3>1, <3>2
  <2>2. ASSUME NEW a \in Account, NEW g \in familiesOf'[a]
        PROVE  accountOf[g] = a /\ familyLeft'[g] <= listLeft'[a]
    <3>1. CASE a = accountOf[f]
      <4>1. familiesOf'[a] = familiesOf[a] \cup {f}
        BY <3>1 DEF TypeOK, Writes
      <4>2. accountOf[g] = a
        BY <2>2, <3>1, <4>1 DEF KeysExpireInOrder
      <4>3. familyLeft'[g] <= RefreshTTL
        BY <2>2, <4>1, WritesTyped, SessionAssumption DEF TypeOK
      <4>4. QED  BY <1>1, <3>1, <4>2, <4>3
    <3>2. CASE a # accountOf[f]
      <4>1. familiesOf'[a] = familiesOf[a] /\ listLeft'[a] = listLeft[a]
        BY <3>2 DEF TypeOK, Writes
      <4>2. accountOf[g] = a /\ familyLeft[g] <= listLeft[a]
        BY <2>2, <4>1 DEF KeysExpireInOrder
      <4>3. g \in Family /\ g # f
        BY <2>2, <3>2, <4>1, <4>2 DEF TypeOK
      <4>4. QED  BY <1>2, <4>1, <4>2, <4>3
    <3>3. QED  BY <3>1, <3>2
  <2>3. QED  BY <2>1, <2>2 DEF KeysExpireInOrder
<1>7. ASSUME NEW g \in Family, current'[g] \in Pair
      PROVE  familyOf'[current'[g]] = g
  <2>1. CASE g = f
    BY <1>1, <2>1
  <2>2. CASE g # f
    <3>1. familyOf[current[g]] = g /\ current[g] # p
      BY <1>2, <1>7, <2>2, SessionAssumption DEF DrawnInOrder
    <3>2. QED  BY <1>2, <1>7, <2>2, <3>1 DEF TypeOK
  <2>3. QED  BY <2>1, <2>2
<1>8. ASSUME NEW g \in Family, Usable(g)', g # f
      PROVE  Usable(g)
  <2>1. PICK q \in Pair : familyOf'[q] = g /\ (accessLeft'[q] > 0 \/ Fresh(q)')
    BY <1>8 DEF Usable
  <2>2. q # p
    BY <1>1, <1>8, <2>1
  <2>3. QED  BY <1>3, <2>1, <2>2 DEF Usable
<1>9. QED  BY <1>5, <1>6, <1>7, <1>8

\* Deleting families keeps the order of the keys and leaves nothing usable of them.
LEMMA DeletesKeepOrder ==
  ASSUME TypeOK, UsableIsCurrent, KeysExpireInOrder, DrawnInOrder,
         NEW fs \in SUBSET Family, Deletes(fs), UNCHANGED drawnVars,
         \A a \in Account : \A g \in familiesOf'[a] :
           g \in familiesOf[a] /\ listLeft'[a] = listLeft[a],
         \A a \in Account : \A g \in familiesOf[a] \ fs : g \in familiesOf'[a]
  PROVE  /\ UsableIsCurrent'
         /\ KeysExpireInOrder'
         /\ \A g \in Family : current'[g] \in Pair => familyOf'[current'[g]] = g
         /\ \A g \in Family : Usable(g)' => g \notin fs /\ Usable(g)
<1>1. ASSUME NEW q \in Pair, accessLeft'[q] > 0 \/ Fresh(q)'
      PROVE  /\ accessLeft[q] > 0 \/ Fresh(q)
             /\ Fresh(q)' => Fresh(q)
             /\ accessLeft'[q] = accessLeft[q] /\ refreshLeft'[q] = refreshLeft[q]
             /\ familyOf[q] \in Family \ fs /\ current'[familyOf[q]] = q
             /\ familyLeft'[familyOf[q]] = familyLeft[familyOf[q]]
  <2>1. ~\E f \in fs : current[f] = q
    BY <1>1 DEF TypeOK, Deletes, Fresh
  <2>2. /\ accessLeft'[q] = accessLeft[q] /\ refreshLeft'[q] = refreshLeft[q]
        /\ used'[q] = used[q]
    BY <2>1 DEF TypeOK, Deletes
  <2>3. accessLeft[q] > 0 \/ Fresh(q)
    BY <1>1, <2>2 DEF Fresh
  <2>4. familyOf[q] \in Family /\ current[familyOf[q]] = q
    BY <2>3 DEF UsableIsCurrent, KeysExpireInOrder
  <2>5. familyOf[q] \notin fs
    BY <2>1, <2>4
  <2>6. QED  BY <2>2, <2>3, <2>4, <2>5 DEF TypeOK, Deletes, Fresh
<1>2. UsableIsCurrent'
  <2> SUFFICES ASSUME NEW q \in Pair, accessLeft'[q] > 0 \/ Fresh(q)'
               PROVE  current'[familyOf[q]] = q /\ familyOf[q] \in familiesOf'[accountOf[familyOf[q]]]
    BY DEF UsableIsCurrent, drawnVars
  <2>1. familyOf[q] \in familiesOf[accountOf[familyOf[q]]] /\ accountOf[familyOf[q]] \in Account
    BY <1>1 DEF UsableIsCurrent, DrawnInOrder
  <2>2. QED  BY <1>1, <2>1
<1>3. KeysExpireInOrder'
  <2>1. ASSUME NEW q \in Pair, accessLeft'[q] > 0 \/ Fresh(q)'
        PROVE  /\ familyOf'[q] \in Family
               /\ accessLeft'[q] <= familyLeft'[familyOf'[q]]
               /\ Fresh(q)' => refreshLeft'[q] <= familyLeft'[familyOf'[q]]
    BY <1>1, <2>1 DEF KeysExpireInOrder, drawnVars
  <2>2. ASSUME NEW a \in Account, NEW g \in familiesOf'[a]
        PROVE  accountOf'[g] = a /\ familyLeft'[g] <= listLeft'[a]
    <3>1. g \in Family /\ accountOf[g] = a /\ familyLeft[g] <= listLeft[a] /\ listLeft'[a] = listLeft[a]
      BY DEF KeysExpireInOrder, TypeOK
    <3>2. familyLeft'[g] = familyLeft[g] \/ familyLeft'[g] = 0
      BY <3>1 DEF TypeOK, Deletes
    <3>3. listLeft[a] >= 0
      BY DEF TypeOK
    <3>4. QED  BY <3>1, <3>2, <3>3 DEF drawnVars
  <2>3. QED  BY <2>1, <2>2 DEF KeysExpireInOrder
<1>4. ASSUME NEW g \in Family, current'[g] \in Pair
      PROVE  familyOf'[current'[g]] = g
  BY <1>4, SessionAssumption DEF Deletes, DrawnInOrder, drawnVars, TypeOK
<1>5. ASSUME NEW g \in Family, Usable(g)'
      PROVE  g \notin fs /\ Usable(g)
  BY <1>1, <1>5 DEF Usable, drawnVars
<1>6. QED  BY <1>2, <1>3, <1>4, <1>5

-------------------------------------------------------------------------------
(* What the steps of a request leave as it was. *)

\* A request that moves on to tokens that are known, or that stays where it was,
\* keeps the families in creation private.
LEMMA CreationStaysPrivate ==
  ASSUME TypeOK, CreationIsPrivate,
         NEW r \in Request, NEW s \in RequestState,
         request' = [request EXCEPT ![r] = s],
         \/ s = request[r]
         \/ /\ s.at # "create"
            /\ s.at \in {"rotate", "recheck", "revoke"} => s.pair \in Pair /\ Known(s.pair),
         UNCHANGED familyOf,
         \A f \in ended' : f \in ended \/ ~InCreation(f)
  PROVE  CreationIsPrivate'
<1>1. request'[r] = s /\ \A q \in Request : q # r => request'[q] = request[q]
  BY DEF TypeOK
<1>2. ASSUME NEW q \in Request, request'[q].at = "create"
      PROVE  request'[q] = request[q]
  BY <1>1, <1>2
<1>3. ASSUME NEW f, InCreation(f)'
      PROVE  InCreation(f)
  BY <1>2, <1>3 DEF InCreation, At
<1>4. ASSUME NEW q \in Request, At(q, "create")'
      PROVE  LET p == request'[q].pair IN
             /\ p \in Pair /\ familyOf[p] \in Family /\ familyOf[p] \notin ended'
             /\ \A t \in Pair : familyOf[t] = familyOf[p] => t = p
  <2>1. request'[q] = request[q] /\ At(q, "create")
    BY <1>2, <1>4 DEF At
  <2>2. InCreation(familyOf[request[q].pair])
    BY <2>1 DEF InCreation
  <2>3. QED  BY <2>1, <2>2 DEF CreationIsPrivate
<1>5. ASSUME NEW q \in Request, request'[q].at \in {"rotate", "recheck", "revoke"}
      PROVE  LET p == request'[q].pair IN
             p \in Pair /\ familyOf[p] \in Family /\ ~InCreation(familyOf[p])
  <2>1. CASE request'[q] = request[q]
    BY <1>5, <2>1 DEF CreationIsPrivate
  <2>2. CASE q = r /\ s # request[r]
    <3>1. s.pair \in Pair /\ Known(s.pair)
      BY <1>1, <1>5, <2>2
    <3>2. QED  BY <1>1, <2>2, <3>1 DEF Known, TypeOK
  <2>3. QED  BY <1>1, <2>1, <2>2
<1>6. QED  BY <1>3, <1>4, <1>5 DEF CreationIsPrivate

\* A step that only moves a request, and not out of an invalidation.
LEMMA QuietStep ==
  ASSUME IInv, NEW r \in Request, NEW s \in RequestState,
         request' = [request EXCEPT ![r] = s],
         request[r].at # "invalidate", s.at # "create",
         s.at \in {"rotate", "recheck", "revoke"} => s.pair \in Pair /\ Known(s.pair),
         UNCHANGED <<status, drawnVars, redisVars, historyVars>>
  PROVE  IInv'
<1> USE DEF IInv, drawnVars, redisVars, historyVars
<1>1. TypeOK'
  BY DEF TypeOK
<1>2. UsableIsCurrent' /\ KeysExpireInOrder' /\ DrawnInOrder' /\ EndedStaysEnded'
  BY DEF UsableIsCurrent, KeysExpireInOrder, DrawnInOrder, EndedStaysEnded, Fresh, Usable
<1>3. CreationIsPrivate'
  BY CreationStaysPrivate
<1>4. SessionsMatchAccount'
  <2> SUFFICES ASSUME NEW f \in outdated, Usable(f), accountOf[f] \notin missed
               PROVE  \E q \in Request : At(q, "invalidate")' /\ accountOf[f] \in request'[q].accounts
    BY DEF SessionsMatchAccount, Usable, Fresh
  <2>1. PICK q \in Request : At(q, "invalidate") /\ accountOf[f] \in request[q].accounts
    BY DEF SessionsMatchAccount
  <2>2. q # r
    BY <2>1 DEF At
  <2>3. request'[q] = request[q]
    BY <2>2 DEF TypeOK
  <2>4. QED  BY <2>1, <2>3 DEF At
<1>5. QED  BY <1>1, <1>2, <1>3, <1>4

\* The states a request can be given.
LEMMA RequestStates ==
  /\ Idle \in RequestState
  /\ \A here \in Control, p \in Pair : On(here, p) \in RequestState
  /\ \A here \in Control, as \in SUBSET Account : For(here, as) \in RequestState
BY DEF Idle, On, For, RequestState, Control

\* The same for a step onto a known token.
LEMMA QuietStepOn ==
  ASSUME IInv, NEW r \in Request, NEW p \in Pair,
         NEW here \in {"rotate", "recheck", "revoke"},
         Becomes(r, On(here, p)), Known(p), request[r].at # "invalidate",
         UNCHANGED <<status, drawnVars, redisVars, historyVars>>
  PROVE  IInv'
<1> DEFINE s == On(here, p)
<1>1. s \in RequestState /\ s.at = here /\ s.pair = p
  BY RequestStates DEF On, Control
<1>2. request' = [request EXCEPT ![r] = s]
  BY DEF Becomes
<1> HIDE DEF s
<1>3. QED  BY <1>1, <1>2, QuietStep

\* And for a step that ends the request or leads it from its token to accounts.
LEMMA QuietStepOff ==
  ASSUME IInv, NEW r \in Request,
         NEW here \in {"verify", "invalidate"}, NEW as \in SUBSET Account,
         Becomes(r, Idle) \/ Becomes(r, For(here, as)), request[r].at # "invalidate",
         UNCHANGED <<status, drawnVars, redisVars, historyVars>>
  PROVE  IInv'
<1>1. Idle \in RequestState /\ Idle.at = "idle"
  BY RequestStates DEF Idle
<1>2. CASE Becomes(r, Idle)
  BY <1>1, <1>2, QuietStep DEF Becomes
<1> DEFINE s == For(here, as)
<1>3. s \in RequestState /\ s.at = here
  BY RequestStates DEF For, Control
<1>4. CASE request' = [request EXCEPT ![r] = s]
  <2> HIDE DEF s
  <2>1. QED  BY <1>3, <1>4, QuietStep
<1>5. QED  BY <1>2, <1>4 DEF Becomes

\* The steps of a request under way that change nothing but the request.
LEMMA QuietStepsAlone ==
  ASSUME IInv, NEW r \in Request,
         RotateRefused(r) \/ Recheck(r) \/ AccountRead(r) \/ Fails(r)
  PROVE  IInv'
<1> USE DEF At
<1>1. request[r].accounts \in SUBSET Account
  BY DEF IInv, TypeOK, RequestState
<1>2. request[r].at \in {"rotate", "recheck"} => request[r].pair \in Pair /\ Known(request[r].pair)
  BY SessionAssumption DEF IInv, CreationIsPrivate, Known
<1>3. CASE RotateRefused(r)
  BY <1>2, <1>3, QuietStepOn DEF RotateRefused
<1>4. CASE Recheck(r)
  <2>1. Becomes(r, Idle) \/ Becomes(r, On("revoke", request[r].pair))
    BY <1>4 DEF Recheck
  <2>2. QED  BY <1>2, <1>4, <2>1, QuietStepOn, QuietStepOff DEF Recheck
<1>5. CASE AccountRead(r)
  <2>1. Becomes(r, Idle) \/ Becomes(r, For("invalidate", request[r].accounts))
    BY <1>5 DEF AccountRead
  <2>2. QED  BY <1>1, <1>5, <2>1, QuietStepOff DEF AccountRead
<1>6. CASE Fails(r)
  BY <1>6, QuietStepOff DEF Fails
<1>7. QED  BY <1>3, <1>4, <1>5, <1>6

\* The first step of a refresh, a logout and a verification.
LEMMA QuietSteps ==
  ASSUME IInv, NEW r \in Request, NEW p \in Pair,
         Refresh(r, p) \/ Logout(r, p) \/ VerifyAccount(r, p)
  PROVE  IInv'
<1> USE DEF At
<1>1. CASE Refresh(r, p)
  BY <1>1, QuietStepOn DEF Refresh
<1>2. CASE Logout(r, p)
  BY <1>2, QuietStepOn DEF Logout
<1>3. CASE VerifyAccount(r, p)
  <2>1. {accountOf[familyOf[p]]} \in SUBSET Account
    BY <1>3 DEF IInv, KeysExpireInOrder, DrawnInOrder, VerifyAccount
  <2>2. QED  BY <1>3, <2>1, QuietStepOff DEF VerifyAccount
<1>4. QED  BY <1>1, <1>2, <1>3

-------------------------------------------------------------------------------
(* The steps that change Redis or MySQL. *)

\* Time passing keeps the invariant: what a key depends on lives longer.
LEMMA TickStep == IInv /\ Tick => IInv'
<1> SUFFICES ASSUME IInv, Tick PROVE IInv'
  OBVIOUS
<1> USE DEF IInv, drawnVars, historyVars
<1>1. TypeOK'
  <2> USE SessionAssumption DEF TypeOK, Tick, Less
  <2>1. accessLeft' \in [Pair -> 0 .. AccessTTL] /\ refreshLeft' \in [Pair -> 0 .. RefreshTTL]
    OBVIOUS
  <2>2. used' \in [Pair -> BOOLEAN]
    OBVIOUS
  <2>3. familyLeft' \in [Family -> 0 .. RefreshTTL] /\ current' \in [Family -> Pair \cup {NoPair}]
    OBVIOUS
  <2>4. listLeft' \in [Account -> 0 .. RefreshTTL] /\ familiesOf' \in [Account -> SUBSET Family]
    OBVIOUS
  <2>5. QED  BY <2>1, <2>2, <2>3, <2>4
<1>2. ASSUME NEW q \in Pair
      PROVE  /\ accessLeft'[q] > 0 => accessLeft[q] > 1 /\ accessLeft'[q] = accessLeft[q] - 1
             /\ Fresh(q)' => Fresh(q) /\ refreshLeft[q] > 1 /\ refreshLeft'[q] = refreshLeft[q] - 1
  <2>1. accessLeft[q] \in Nat /\ refreshLeft[q] \in Nat
    BY DEF TypeOK
  <2>2. accessLeft'[q] = Less(accessLeft[q]) /\ refreshLeft'[q] = Less(refreshLeft[q])
    BY DEF TypeOK, Tick
  <2>3. used'[q] <=> used[q] /\ refreshLeft[q] > 1
    BY DEF Tick
  <2>4. refreshLeft'[q] > 0 => refreshLeft[q] > 1
    BY <2>1, <2>2 DEF Less
  <2>5. Fresh(q)' => refreshLeft'[q] > 0 /\ refreshLeft[q] > 1 /\ ~used[q]
    BY <2>3, <2>4 DEF Fresh
  <2>6. QED  BY <2>1, <2>2, <2>5 DEF Less, Fresh
<1>3. ASSUME NEW q \in Pair, accessLeft'[q] > 0 \/ Fresh(q)'
      PROVE  LET f == familyOf[q] IN
             /\ f \in Family /\ current[f] = q /\ familyLeft[f] > 1
             /\ familyLeft'[f] = familyLeft[f] - 1 /\ current'[f] = q
             /\ f \in familiesOf'[accountOf[f]]
             /\ accessLeft'[q] <= familyLeft'[f]
             /\ Fresh(q)' => refreshLeft'[q] <= familyLeft'[f]
  <2> DEFINE f == familyOf[q]
             a == accountOf[f]
  <2>1. f \in Family /\ current[f] = q /\ f \in familiesOf[a] /\ a \in Account
    BY <1>2, <1>3 DEF UsableIsCurrent, KeysExpireInOrder, DrawnInOrder, TypeOK
  <2>2. /\ accessLeft[q] <= familyLeft[f]
        /\ Fresh(q) => refreshLeft[q] <= familyLeft[f]
        /\ familyLeft[f] <= listLeft[a]
    BY <1>2, <1>3, <2>1 DEF KeysExpireInOrder, TypeOK
  <2>3. accessLeft[q] \in Nat /\ refreshLeft[q] \in Nat /\ familyLeft[f] \in Nat /\ listLeft[a] \in Nat
    BY <2>1 DEF TypeOK
  <2>4. familyLeft[f] > 1 /\ listLeft[a] > 1
    BY <1>2, <1>3, <2>2, <2>3
  <2>5. familyLeft'[f] = familyLeft[f] - 1 /\ current'[f] = q /\ familiesOf'[a] = familiesOf[a]
    BY <2>1, <2>3, <2>4 DEF Tick, Less
  <2>6. accessLeft'[q] = Less(accessLeft[q])
    BY DEF Tick
  <2>7. accessLeft'[q] <= familyLeft'[f]
    BY <2>2, <2>3, <2>4, <2>5, <2>6 DEF Less
  <2>8. Fresh(q)' => refreshLeft'[q] <= familyLeft'[f]
    BY <1>2, <2>2, <2>3, <2>5
  <2>9. QED  BY <2>1, <2>4, <2>5, <2>7, <2>8
<1>4. UsableIsCurrent'
  BY <1>3 DEF UsableIsCurrent, Tick
<1>5. KeysExpireInOrder'
  <2>1. ASSUME NEW a \in Account, NEW g \in familiesOf'[a]
        PROVE  accountOf[g] = a /\ familyLeft'[g] <= listLeft'[a]
    <3>1. g \in familiesOf[a] /\ g \in Family
      BY DEF Tick, TypeOK
    <3>2. accountOf[g] = a /\ familyLeft[g] <= listLeft[a]
      BY <3>1 DEF KeysExpireInOrder
    <3>3. familyLeft[g] \in Nat /\ listLeft[a] \in Nat
      BY <3>1 DEF TypeOK
    <3>4. familyLeft'[g] = Less(familyLeft[g]) /\ listLeft'[a] = Less(listLeft[a])
      BY <3>1 DEF Tick
    <3>5. QED  BY <3>2, <3>3, <3>4 DEF Less
  <2>2. QED  BY <1>3, <2>1 DEF KeysExpireInOrder, Tick
<1>6. DrawnInOrder'
  BY SessionAssumption DEF DrawnInOrder, Tick, TypeOK
<1>7. \A f : Usable(f)' => Usable(f)
  BY <1>2 DEF Usable, Tick, TypeOK
<1>8. EndedStaysEnded' /\ SessionsMatchAccount'
  BY <1>7 DEF EndedStaysEnded, SessionsMatchAccount, At, Tick
<1>9. CreationIsPrivate'
  BY DEF CreationIsPrivate, InCreation, At, Tick
<1>10. QED  BY <1>1, <1>4, <1>5, <1>6, <1>8, <1>9

\* A login draws a family and tokens that nobody has seen.
LEMMA LoginStep ==
  ASSUME IInv, NEW r \in Request, NEW a \in Account, NEW f \in Family, NEW p \in Pair,
         Login(r, a, f, p)
  PROVE  IInv'
<1> USE DEF IInv, redisVars, historyVars
<1>1. /\ accountOf[f] = NoAccount /\ familyOf[p] = NoFamily
      /\ accountOf' = [accountOf EXCEPT ![f] = a]
      /\ familyOf' = [familyOf EXCEPT ![p] = f]
      /\ request' = [request EXCEPT ![r] = On("create", p)]
      /\ request[r].at = "idle"
      /\ UNCHANGED <<status, redisVars, historyVars>>
  BY DEF Login, Becomes, At
<1>2. On("create", p) \in RequestState /\ On("create", p).at = "create" /\ On("create", p).pair = p
  BY RequestStates DEF On, Control
<1>3. TypeOK'
  BY <1>1, <1>2 DEF TypeOK
<1>4. \A q \in Pair : familyOf[q] # f
  BY <1>1, SessionAssumption DEF DrawnInOrder
<1>5. /\ \A q \in Pair : q # p => familyOf'[q] = familyOf[q]
      /\ \A g \in Family : g # f => accountOf'[g] = accountOf[g]
      /\ familyOf'[p] = f /\ accountOf'[f] = a
      /\ \A q \in Request : q # r => request'[q] = request[q]
      /\ request'[r] = On("create", p)
  BY <1>1 DEF TypeOK
<1>6. \A q \in Pair : accessLeft[q] > 0 \/ Fresh(q) => q # p /\ familyOf[q] \in Family /\ familyOf[q] # f
  BY <1>1, <1>4, SessionAssumption DEF KeysExpireInOrder
<1>7. \A q : Fresh(q)' <=> Fresh(q)
  BY <1>1 DEF Fresh
<1>8. UsableIsCurrent'
  BY <1>1, <1>5, <1>6, <1>7 DEF UsableIsCurrent
<1>9. KeysExpireInOrder'
  <2>1. \A b \in Account : \A g \in familiesOf[b] : g # f /\ g \in Family
    BY <1>1, SessionAssumption DEF KeysExpireInOrder, TypeOK
  <2>2. QED  BY <1>1, <1>5, <1>6, <1>7, <2>1 DEF KeysExpireInOrder
<1>10. f \notin ended
  BY <1>1, SessionAssumption DEF DrawnInOrder
<1>11. DrawnInOrder'
  <2>1. ASSUME NEW q \in Pair, familyOf'[q] \in Family
        PROVE  accountOf'[familyOf'[q]] \in Account
    BY <1>4, <1>5, <2>1 DEF DrawnInOrder
  <2>2. ASSUME NEW g \in Family, current[g] \in Pair
        PROVE  familyOf'[current[g]] = g
    BY <1>1, <1>5, <2>2, SessionAssumption DEF DrawnInOrder
  <2>3. ASSUME NEW g \in ended
        PROVE  accountOf'[g] \in Account
    BY <1>5, <1>10 DEF DrawnInOrder, TypeOK
  <2>4. QED  BY <1>1, <2>1, <2>2, <2>3 DEF DrawnInOrder
<1>12. \A g : Usable(g)' => Usable(g) /\ g # f
  BY <1>1, <1>5, <1>6, <1>7 DEF Usable
<1>13. EndedStaysEnded'
  BY <1>1, <1>12 DEF EndedStaysEnded
<1>14. SessionsMatchAccount'
  <2> SUFFICES ASSUME NEW g \in outdated, Usable(g)', accountOf'[g] \notin missed
               PROVE  \E q \in Request : At(q, "invalidate")' /\ accountOf'[g] \in request'[q].accounts
    BY <1>1 DEF SessionsMatchAccount
  <2>1. Usable(g) /\ g # f /\ g \in Family
    BY <1>12 DEF TypeOK
  <2>2. PICK q \in Request : At(q, "invalidate") /\ accountOf[g] \in request[q].accounts
    BY <1>5, <2>1 DEF SessionsMatchAccount
  <2>3. q # r
    BY <1>1, <2>2 DEF At
  <2>4. QED  BY <1>5, <2>1, <2>2, <2>3 DEF At
<1>15. CreationIsPrivate'
  <2>1. \A q \in Request : request[q].at \in {"create", "rotate", "recheck", "revoke"} =>
          request[q].pair \in Pair /\ familyOf[request[q].pair] \in Family
    BY DEF CreationIsPrivate, At
  <2>2. \A q \in Request : q # r /\ request[q].at \in {"create", "rotate", "recheck", "revoke"} =>
          /\ request'[q] = request[q]
          /\ familyOf'[request[q].pair] = familyOf[request[q].pair]
          /\ familyOf[request[q].pair] # f
    BY <1>1, <1>4, <1>5, <2>1, SessionAssumption
  <2>3. ASSUME NEW q \in Request, At(q, "create")'
        PROVE  LET t == request'[q].pair IN
               /\ t \in Pair /\ familyOf'[t] \in Family /\ familyOf'[t] \notin ended'
               /\ \A u \in Pair : familyOf'[u] = familyOf'[t] => u = t
    <3>1. CASE q = r
      BY <1>1, <1>2, <1>4, <1>5, <1>10, <3>1
    <3>2. CASE q # r
      <4>1. At(q, "create") /\ request'[q] = request[q]
        BY <1>5, <2>3, <3>2 DEF At
      <4>2. /\ request[q].pair \in Pair /\ familyOf[request[q].pair] \in Family
            /\ familyOf[request[q].pair] \notin ended
            /\ \A u \in Pair : familyOf[u] = familyOf[request[q].pair] => u = request[q].pair
        BY <4>1 DEF CreationIsPrivate
      <4>3. familyOf'[request[q].pair] = familyOf[request[q].pair] /\ familyOf[request[q].pair] # f
        BY <2>2, <3>2, <4>1 DEF At
      <4>4. QED  BY <1>1, <1>5, <4>1, <4>2, <4>3
    <3>3. QED  BY <3>1, <3>2
  <2>4. ASSUME NEW q \in Request, request'[q].at \in {"rotate", "recheck", "revoke"}
        PROVE  LET t == request'[q].pair IN
               /\ t \in Pair /\ familyOf'[t] \in Family
               /\ \A u \in Request : At(u, "create")' => familyOf'[request'[u].pair] # familyOf'[t]
    <3>1. q # r /\ request'[q] = request[q]
      BY <1>2, <1>5, <2>4
    <3>2. /\ request[q].pair \in Pair /\ familyOf[request[q].pair] \in Family
          /\ ~InCreation(familyOf[request[q].pair])
      BY <2>4, <3>1 DEF CreationIsPrivate
    <3>3. ASSUME NEW u \in Request, At(u, "create")'
          PROVE  familyOf'[request'[u].pair] # familyOf[request[q].pair]
      <4>1. CASE u = r
        BY <1>2, <1>5, <2>2, <2>4, <3>1, <4>1
      <4>2. CASE u # r
        BY <1>5, <2>2, <3>2, <3>3, <4>2 DEF InCreation, At
      <4>3. QED  BY <4>1, <4>2
    <3>4. QED  BY <2>2, <2>4, <3>1, <3>2, <3>3
  <2>5. QED  BY <2>3, <2>4 DEF CreationIsPrivate, InCreation
<1>16. QED  BY <1>3, <1>8, <1>9, <1>11, <1>13, <1>14, <1>15

\* createFamily writes a family that nobody knows, once or again.
LEMMA CreateStep == ASSUME IInv, NEW r \in Request, Create(r) PROVE IInv'
<1> USE DEF IInv
<1> DEFINE p == request[r].pair
           f == familyOf[p]
<1>1. /\ At(r, "create") /\ Writes(p, f)
      /\ refreshLeft' = [refreshLeft EXCEPT ![p] = RefreshTTL]
      /\ used' = [used EXCEPT ![p] = FALSE]
      /\ outdated' = outdated \ {f}
      /\ UNCHANGED <<status, accountOf, familyOf, missed, ended>>
  BY DEF Create, drawnVars
<1>2. /\ p \in Pair /\ f \in Family /\ f \notin ended
      /\ \A q \in Pair : familyOf[q] = f => q = p
  BY <1>1 DEF CreationIsPrivate
<1>3. accountOf[f] \in Account
  BY <1>2 DEF DrawnInOrder
<1>4. PICK s \in RequestState : request' = [request EXCEPT ![r] = s] /\ (s = request[r] \/ s.at = "idle")
  <2>1. CASE request' = request
    <3>1. request[r] \in RequestState /\ request' = [request EXCEPT ![r] = request[r]]
      BY <2>1 DEF TypeOK
    <3>2. QED  BY <3>1
  <2>2. CASE Becomes(r, Idle)
    BY <2>2, RequestStates DEF Becomes, Idle
  <2>3. QED  BY <2>1, <2>2 DEF Create
<1> HIDE DEF p, f
<1>5. refreshLeft' \in [Pair -> 0 .. RefreshTTL] /\ used' \in [Pair -> BOOLEAN]
  <2>1. RefreshTTL \in 0 .. RefreshTTL
    BY SessionAssumption
  <2>2. refreshLeft' \in [Pair -> 0 .. RefreshTTL]
    BY <1>1, <2>1 DEF TypeOK
  <2>3. used' \in [Pair -> BOOLEAN]
    BY <1>1 DEF TypeOK
  <2>4. QED  BY <2>2, <2>3
<1>6. TypeOK'
  <2>1. request' \in [Request -> RequestState]
    BY <1>4 DEF TypeOK
  <2>2. QED  BY <1>1, <1>2, <1>5, <2>1, WritesTyped DEF TypeOK
<1>7. \A q \in Pair : q # p => (Fresh(q)' <=> Fresh(q)) /\ refreshLeft'[q] = refreshLeft[q]
  BY <1>1 DEF TypeOK, Fresh
<1>8. familyOf' = [familyOf EXCEPT ![p] = f] /\ familyOf[p] = f
  BY <1>1, <1>2 DEF TypeOK, f
<1>9. \A q \in Pair : q # p /\ Fresh(q)' => Fresh(q) /\ familyOf[q] # f /\ refreshLeft'[q] = refreshLeft[q]
  BY <1>2, <1>7
<1>10. /\ UsableIsCurrent' /\ KeysExpireInOrder'
       /\ \A g \in Family : current'[g] \in Pair => familyOf'[current'[g]] = g
       /\ \A g \in Family : Usable(g)' => g = f \/ Usable(g)
  <2>1. Writes(p, f) /\ UNCHANGED accountOf /\ p \in Pair /\ f \in Family
    BY ONLY <1>1, <1>2
  <2>2. familyOf[p] \in {NoFamily, f} /\ familyOf' = [familyOf EXCEPT ![p] = f]
    BY ONLY <1>8
  <2>3. TypeOK /\ UsableIsCurrent /\ KeysExpireInOrder /\ DrawnInOrder
    OBVIOUS
  <2>. QED  BY ONLY <2>1, <2>2, <2>3, <1>3, <1>5, <1>9, WritesKeepOrder
<1>11. DrawnInOrder'
  BY <1>1, <1>10 DEF DrawnInOrder
<1>12. EndedStaysEnded'
  BY <1>1, <1>2, <1>10 DEF EndedStaysEnded, TypeOK
<1>13. SessionsMatchAccount'
  <2> SUFFICES ASSUME NEW g \in outdated', Usable(g)', accountOf[g] \notin missed
               PROVE  \E q \in Request : At(q, "invalidate")' /\ accountOf[g] \in request'[q].accounts
    BY <1>1 DEF SessionsMatchAccount
  <2>1. g \in outdated /\ Usable(g)
    BY <1>1, <1>10 DEF TypeOK
  <2>2. PICK q \in Request : At(q, "invalidate") /\ accountOf[g] \in request[q].accounts
    BY <2>1 DEF SessionsMatchAccount
  <2>3. request'[q] = request[q]
    BY <1>1, <1>4, <2>2 DEF At, TypeOK
  <2>4. QED  BY <2>2, <2>3 DEF At
<1>14. CreationIsPrivate'
  BY <1>1, <1>4, CreationStaysPrivate
<1>15. QED  BY <1>6, <1>10, <1>11, <1>12, <1>13, <1>14

\* A rotation moves its family from one known pair to a new one.
LEMMA RotateStep == ASSUME IInv, NEW r \in Request, NEW q \in Pair, Rotate(r, q) PROVE IInv'
<1> USE DEF IInv
<1> DEFINE p == request[r].pair
           f == familyOf[p]
<1>1. /\ At(r, "rotate") /\ Fresh(p) /\ familyOf[q] = NoFamily
      /\ familyOf' = [familyOf EXCEPT ![q] = f]
      /\ Writes(q, f)
      /\ refreshLeft' = [refreshLeft EXCEPT ![p] = TombstoneLife(f), ![q] = RefreshTTL]
      /\ used' = [used EXCEPT ![p] = TRUE]
      /\ UNCHANGED <<status, accountOf, outdated, missed, ended>>
  BY DEF Rotate, StillFresh, historyVars
<1>2. p \in Pair /\ f \in Family /\ ~InCreation(f)
  BY <1>1 DEF CreationIsPrivate, At
<1>3. accountOf[f] \in Account /\ current[f] = p /\ q # p
  BY <1>1, <1>2, SessionAssumption DEF DrawnInOrder, UsableIsCurrent
<1>4. PICK s \in RequestState : request' = [request EXCEPT ![r] = s] /\ (s = request[r] \/ s.at = "idle")
  <2>1. CASE request' = request
    <3>1. request[r] \in RequestState /\ request' = [request EXCEPT ![r] = request[r]]
      BY <2>1 DEF TypeOK
    <3>2. QED  BY <3>1
  <2>2. CASE Becomes(r, Idle)
    BY <2>2, RequestStates DEF Becomes, Idle
  <2>3. QED  BY <2>1, <2>2 DEF Rotate
<1> HIDE DEF p, f
<1>5. refreshLeft' \in [Pair -> 0 .. RefreshTTL] /\ used' \in [Pair -> BOOLEAN]
  <2>1. RefreshTTL \in 0 .. RefreshTTL /\ TombstoneLife(f) \in 0 .. RefreshTTL
    BY <1>2, SessionAssumption DEF TombstoneLife, TypeOK
  <2>2. refreshLeft' \in [Pair -> 0 .. RefreshTTL]
    BY <1>1, <2>1 DEF TypeOK
  <2>3. used' \in [Pair -> BOOLEAN]
    BY <1>1 DEF TypeOK
  <2>4. QED  BY <2>2, <2>3
<1>6. TypeOK'
  <2>1. request' \in [Request -> RequestState]
    BY <1>4 DEF TypeOK
  <2>2. familyOf' \in [Pair -> Family \cup {NoFamily}]
    BY <1>1, <1>2 DEF TypeOK
  <2>3. QED  BY <1>1, <1>2, <1>5, <2>1, <2>2, WritesTyped DEF TypeOK
<1>7. used'[p]
  BY <1>1, <1>2 DEF TypeOK
<1>8. ASSUME NEW t \in Pair, t # q, Fresh(t)'
      PROVE  Fresh(t) /\ familyOf[t] # f /\ refreshLeft'[t] = refreshLeft[t]
  <2>1. t # p
    BY <1>7, <1>8 DEF Fresh
  <2>2. refreshLeft'[t] = refreshLeft[t] /\ used'[t] = used[t]
    BY <1>1, <1>8, <2>1 DEF TypeOK
  <2>3. Fresh(t)
    BY <1>8, <2>2 DEF Fresh
  <2>4. familyOf[t] # f
    BY <1>3, <2>1, <2>3 DEF UsableIsCurrent
  <2>5. QED  BY <2>2, <2>3, <2>4
<1>9. /\ UsableIsCurrent' /\ KeysExpireInOrder'
      /\ \A g \in Family : current'[g] \in Pair => familyOf'[current'[g]] = g
      /\ \A g \in Family : Usable(g)' => g = f \/ Usable(g)
  <2>1. \A t \in Pair : t # q /\ Fresh(t)' =>
          Fresh(t) /\ familyOf[t] # f /\ refreshLeft'[t] = refreshLeft[t]
    BY <1>8
  <2>2. /\ familyOf[q] \in {NoFamily, f} /\ UNCHANGED accountOf
        /\ Writes(q, f) /\ familyOf' = [familyOf EXCEPT ![q] = f]
        /\ f \in Family /\ accountOf[f] \in Account
        /\ refreshLeft' \in [Pair -> 0 .. RefreshTTL]
    BY <1>1, <1>2, <1>3, <1>5
  <2>3. TypeOK /\ UsableIsCurrent /\ KeysExpireInOrder /\ DrawnInOrder
    OBVIOUS
  <2> HIDE DEF IInv
  <2>4. QED  BY <2>1, <2>2, <2>3, WritesKeepOrder
<1>10. Usable(f)
  BY <1>1, <1>2 DEF Usable, f
<1>11. \A t \in Pair : t # q => familyOf'[t] = familyOf[t]
  BY <1>1 DEF TypeOK
<1>12. familyOf'[q] = f
  BY <1>1 DEF TypeOK
<1>13. DrawnInOrder'
  BY <1>1, <1>3, <1>9, <1>11, <1>12 DEF DrawnInOrder
<1>14. \A g \in Family : Usable(g)' => Usable(g)
  BY <1>9, <1>10
<1>15. EndedStaysEnded'
  BY <1>1, <1>14 DEF EndedStaysEnded, TypeOK
<1>16. SessionsMatchAccount'
  <2> SUFFICES ASSUME NEW g \in outdated, Usable(g)', accountOf[g] \notin missed
               PROVE  \E u \in Request : At(u, "invalidate")' /\ accountOf[g] \in request'[u].accounts
    BY <1>1 DEF SessionsMatchAccount
  <2>1. Usable(g)
    BY <1>14 DEF TypeOK
  <2>2. PICK u \in Request : At(u, "invalidate") /\ accountOf[g] \in request[u].accounts
    BY <2>1 DEF SessionsMatchAccount
  <2>3. request'[u] = request[u]
    BY <1>1, <1>4, <2>2 DEF At, TypeOK
  <2>4. QED  BY <2>2, <2>3 DEF At
<1>17. CreationIsPrivate'
  <2>1. ASSUME NEW u \in Request, request'[u].at # "idle"
        PROVE  request'[u] = request[u]
    BY <1>4, <2>1 DEF TypeOK
  <2>2. ASSUME NEW u \in Request, request[u].at \in {"create", "rotate", "recheck", "revoke"}
        PROVE  /\ request[u].pair \in Pair /\ familyOf[request[u].pair] \in Family
               /\ request[u].pair # q
               /\ familyOf'[request[u].pair] = familyOf[request[u].pair]
    <3>1. request[u].pair \in Pair /\ familyOf[request[u].pair] \in Family
      BY <2>2 DEF CreationIsPrivate, At
    <3>2. request[u].pair # q
      BY <1>1, <3>1, SessionAssumption
    <3>3. QED  BY <1>11, <3>1, <3>2
  <2>3. ASSUME NEW u \in Request, At(u, "create")'
        PROVE  LET t == request'[u].pair IN
               /\ t \in Pair /\ familyOf'[t] \in Family /\ familyOf'[t] \notin ended'
               /\ \A v \in Pair : familyOf'[v] = familyOf'[t] => v = t
    <3>1. request'[u] = request[u] /\ At(u, "create")
      BY <2>1, <2>3 DEF At
    <3>2. /\ request[u].pair \in Pair /\ familyOf[request[u].pair] \in Family
          /\ familyOf[request[u].pair] \notin ended
          /\ \A v \in Pair : familyOf[v] = familyOf[request[u].pair] => v = request[u].pair
      BY <3>1 DEF CreationIsPrivate
    <3>3. familyOf'[request[u].pair] = familyOf[request[u].pair] /\ familyOf[request[u].pair] # f
      BY <1>2, <2>2, <3>1 DEF At, InCreation
    <3>4. QED  BY <1>1, <1>11, <1>12, <3>1, <3>2, <3>3
  <2>4. ASSUME NEW u \in Request, request'[u].at \in {"rotate", "recheck", "revoke"}
        PROVE  LET t == request'[u].pair IN
               /\ t \in Pair /\ familyOf'[t] \in Family
               /\ \A v \in Request : At(v, "create")' => familyOf'[request'[v].pair] # familyOf'[t]
    <3>1. request'[u] = request[u]
      BY <2>1, <2>4
    <3>2. ~InCreation(familyOf[request[u].pair])
      BY <2>4, <3>1 DEF CreationIsPrivate
    <3>3. ASSUME NEW v \in Request, At(v, "create")'
          PROVE  familyOf'[request'[v].pair] # familyOf[request[u].pair]
      <4>1. request'[v] = request[v] /\ At(v, "create")
        BY <2>1, <3>3 DEF At
      <4>2. familyOf[request[v].pair] # familyOf[request[u].pair]
        BY <3>2, <4>1 DEF InCreation
      <4>3. QED  BY <2>2, <4>1, <4>2 DEF At
    <3>4. QED  BY <2>2, <2>4, <3>1, <3>3
  <2>5. QED  BY <2>3, <2>4 DEF CreationIsPrivate, InCreation
<1>18. QED  BY <1>6, <1>9, <1>13, <1>15, <1>16, <1>17

\* The history of ended sessions may grow by what nothing usable is left of.
LEMMA EndsAreKept ==
  ASSUME EndedStaysEnded,
         NEW fs, \A g \in Family : Usable(g)' => g \notin fs /\ Usable(g),
         ended' \in SUBSET Family, ended' \subseteq ended \cup fs
  PROVE  EndedStaysEnded'
BY DEF EndedStaysEnded

\* Sessions only become fewer, and whoever was to invalidate an account still is.
LEMMA MatchIsKept ==
  ASSUME SessionsMatchAccount, UNCHANGED <<accountOf, outdated, missed>>,
         outdated \in SUBSET Family,
         \A g \in Family : Usable(g)' => Usable(g),
         \A q \in Request : At(q, "invalidate") => request'[q] = request[q]
  PROVE  SessionsMatchAccount'
<1> SUFFICES ASSUME NEW g \in outdated, Usable(g)', accountOf[g] \notin missed
             PROVE  \E q \in Request : At(q, "invalidate")' /\ accountOf[g] \in request'[q].accounts
  BY DEF SessionsMatchAccount
<1>1. PICK q \in Request : At(q, "invalidate") /\ accountOf[g] \in request[q].accounts
  BY DEF SessionsMatchAccount
<1>2. QED  BY <1>1 DEF At

\* Revocation removes one known family, whatever pair it has by now.
LEMMA RevokeStep == ASSUME IInv, NEW r \in Request, Revoke(r) PROVE IInv'
<1> USE DEF IInv
<1> DEFINE p == request[r].pair
           f == familyOf[p]
<1>1. /\ At(r, "revoke") /\ Deletes({f}) /\ Forgets(f)
      /\ ended' = ended \cup {f}
      /\ UNCHANGED <<status, accountOf, familyOf, outdated, missed>>
  BY DEF Revoke, drawnVars
<1>2. p \in Pair /\ f \in Family /\ ~InCreation(f)
  BY <1>1 DEF CreationIsPrivate, At
<1>3. accountOf[f] \in Account
  BY <1>2 DEF DrawnInOrder
<1>4. PICK s \in RequestState : request' = [request EXCEPT ![r] = s] /\ (s = request[r] \/ s.at = "idle")
  <2>1. CASE request' = request
    <3>1. request[r] \in RequestState /\ request' = [request EXCEPT ![r] = request[r]]
      BY <2>1 DEF TypeOK
    <3>2. QED  BY <3>1
  <2>2. CASE Becomes(r, Idle)
    BY <2>2, RequestStates DEF Becomes, Idle
  <2>3. QED  BY <2>1, <2>2 DEF Revoke
<1> HIDE DEF p, f
<1>5. familiesOf' \in [Account -> SUBSET Family] /\ listLeft' \in [Account -> 0 .. RefreshTTL]
  <2>1. familiesOf' \in [Account -> SUBSET Family]
    BY <1>1, <1>3 DEF Forgets, TypeOK
  <2>2. listLeft' \in [Account -> 0 .. RefreshTTL]
    BY <1>1, <1>3, SessionAssumption DEF Forgets, TypeOK
  <2>3. QED  BY <2>1, <2>2
<1>6. /\ \A a \in Account : \A g \in familiesOf'[a] : g \in familiesOf[a] /\ listLeft'[a] = listLeft[a]
      /\ \A a \in Account : \A g \in familiesOf[a] \ {f} : g \in familiesOf'[a]
  BY <1>1, <1>3 DEF Forgets, TypeOK
<1>7. TypeOK'
  <2>1. request' \in [Request -> RequestState] /\ ended' \in SUBSET Family
    BY <1>1, <1>2, <1>4 DEF TypeOK
  <2>2. QED  BY <1>1, <1>2, <1>5, <2>1, DeletesTyped DEF TypeOK
<1>8. /\ UsableIsCurrent' /\ KeysExpireInOrder'
      /\ \A g \in Family : current'[g] \in Pair => familyOf'[current'[g]] = g
      /\ \A g \in Family : Usable(g)' => g \notin {f} /\ Usable(g)
  <2>1. {f} \in SUBSET Family /\ UNCHANGED drawnVars
    BY <1>1, <1>2 DEF drawnVars
  <2>2. TypeOK /\ UsableIsCurrent /\ KeysExpireInOrder /\ DrawnInOrder /\ Deletes({f})
    BY <1>1
  <2> HIDE DEF IInv
  <2>3. QED  BY <1>6, <2>1, <2>2, DeletesKeepOrder
<1>9. DrawnInOrder'
  BY <1>1, <1>3, <1>8 DEF DrawnInOrder
<1>10. EndedStaysEnded'
  BY <1>1, <1>7, <1>8, EndsAreKept DEF TypeOK
<1>11. SessionsMatchAccount'
  <2>1. \A q \in Request : At(q, "invalidate") => request'[q] = request[q]
    BY <1>1, <1>4 DEF At, TypeOK
  <2>2. QED  BY <1>1, <1>8, <2>1, MatchIsKept DEF TypeOK
<1>12. CreationIsPrivate'
  BY <1>1, <1>2, <1>4, CreationStaysPrivate
<1>13. QED  BY <1>7, <1>8, <1>9, <1>10, <1>11, <1>12

\* A change of accounts leaves its sessions to the invalidation that follows, or
\* to the one that is missed.
LEMMA ChangeStep ==
  ASSUME IInv, NEW r \in Request, NEW as \in SUBSET Account, Change(r, as)
  PROVE  IInv'
<1> USE DEF IInv
<1>1. /\ At(r, "idle") /\ outdated' = outdated \cup {f \in Family : accountOf[f] \in as}
      /\ UNCHANGED <<drawnVars, redisVars, ended>>
  BY DEF Change, Sets
<1>2. PICK s \in RequestState :
        /\ request' = [request EXCEPT ![r] = s]
        /\ \/ s = For("invalidate", as) /\ missed' = missed
           \/ s = request[r] /\ missed' = missed \cup as
  <2>1. CASE Becomes(r, For("invalidate", as)) /\ UNCHANGED missed
    BY <2>1, RequestStates DEF Becomes, Control
  <2>2. CASE UNCHANGED request /\ missed' = missed \cup as
    <3>1. request[r] \in RequestState /\ request' = [request EXCEPT ![r] = request[r]]
      BY <2>2 DEF TypeOK
    <3>2. QED  BY <2>2, <3>1
  <2>3. QED  BY <2>1, <2>2 DEF Change
<1>3. TypeOK'
  <2>1. status' \in [Account -> Status]
    BY DEF Change, Sets, TypeOK
  <2>2. request' \in [Request -> RequestState] /\ missed' \in SUBSET Account
    BY <1>2 DEF TypeOK
  <2>3. QED  BY <1>1, <2>1, <2>2 DEF TypeOK, drawnVars, redisVars
<1>4. UsableIsCurrent' /\ KeysExpireInOrder' /\ DrawnInOrder' /\ EndedStaysEnded'
  BY <1>1 DEF UsableIsCurrent, KeysExpireInOrder, DrawnInOrder, EndedStaysEnded, Fresh, Usable,
              drawnVars, redisVars
<1>5. SessionsMatchAccount'
  <2> SUFFICES ASSUME NEW g \in outdated', Usable(g)', accountOf[g] \notin missed'
               PROVE  \E q \in Request : At(q, "invalidate")' /\ accountOf[g] \in request'[q].accounts
    BY <1>1 DEF SessionsMatchAccount, drawnVars
  <2>1. Usable(g) /\ accountOf[g] \notin missed
    BY <1>1, <1>2 DEF Usable, Fresh, drawnVars, redisVars
  <2>2. CASE accountOf[g] \in as
    <3>1. s = For("invalidate", as)
      BY <1>2, <2>2
    <3>2. At(r, "invalidate")' /\ request'[r].accounts = as
      BY <1>2, <3>1 DEF At, For, TypeOK
    <3>3. QED  BY <2>2, <3>2
  <2>3. CASE accountOf[g] \notin as
    <3>1. PICK q \in Request : At(q, "invalidate") /\ accountOf[g] \in request[q].accounts
      BY <1>1, <2>1, <2>3 DEF SessionsMatchAccount
    <3>2. request'[q] = request[q]
      BY <1>1, <1>2, <3>1 DEF At, TypeOK
    <3>3. QED  BY <3>1, <3>2 DEF At
  <2>4. QED  BY <2>2, <2>3
<1>6. CreationIsPrivate'
  <2>1. For("invalidate", as).at = "invalidate"
    BY DEF For
  <2>2. s = request[r] \/ s.at = "invalidate"
    BY <1>2, <2>1
  <2>3. QED  BY <1>1, <1>2, <2>2, CreationStaysPrivate DEF drawnVars
<1>7. QED  BY <1>3, <1>4, <1>5, <1>6

\* What a request that has dealt with a goes on to.
LEMMA AfterOne ==
  ASSUME TypeOK, NEW r \in Request, NEW a \in Account, At(r, "invalidate"),
         After(r, a) \/ UNCHANGED request
  PROVE  \E s \in RequestState :
           /\ request' = [request EXCEPT ![r] = s]
           /\ s = request[r] \/ s.at \in {"idle", "invalidate"}
           /\ \A b \in request[r].accounts : b # a => s.at = "invalidate" /\ b \in s.accounts
<1>1. request[r].accounts \in SUBSET Account /\ request[r] \in RequestState
  BY DEF TypeOK, RequestState
<1>2. CASE UNCHANGED request
  <2>1. request' = [request EXCEPT ![r] = request[r]]
    BY <1>2 DEF TypeOK
  <2>2. QED  BY <1>1, <2>1 DEF At
<1>3. CASE After(r, a) /\ request[r].accounts = {a}
  BY <1>3, RequestStates DEF After, Becomes, Idle
<1>4. CASE After(r, a) /\ request[r].accounts # {a}
  <2> DEFINE s == For("invalidate", request[r].accounts \ {a})
  <2>1. /\ s \in RequestState /\ s.at = "invalidate"
        /\ s.accounts = request[r].accounts \ {a}
    BY <1>1, RequestStates DEF For, Control
  <2>2. request' = [request EXCEPT ![r] = s]
    BY <1>4 DEF After, Becomes
  <2> HIDE DEF s
  <2>3. QED  BY <2>1, <2>2
<1>5. QED  BY <1>2, <1>3, <1>4

\* InvalidateUser finds every family of its account that anything usable is left of.
LEMMA InvalidateUserStep ==
  ASSUME IInv, NEW r \in Request, NEW a \in Account, InvalidateUser(r, a)
  PROVE  IInv'
<1> USE DEF IInv
<1> DEFINE fs == familiesOf[a]
           gone == {f \in Family : accountOf[f] = a /\ ~InCreation(f)}
<1>1. /\ At(r, "invalidate") /\ Deletes(fs)
      /\ familiesOf' = [familiesOf EXCEPT ![a] = {}]
      /\ listLeft' = [listLeft EXCEPT ![a] = 0]
      /\ missed' = missed \ {a}
      /\ ended' = ended \cup gone
      /\ UNCHANGED <<status, accountOf, familyOf, outdated>>
  BY DEF InvalidateUser, drawnVars
<1>2. PICK s \in RequestState :
        /\ request' = [request EXCEPT ![r] = s]
        /\ s = request[r] \/ s.at \in {"idle", "invalidate"}
        /\ \A b \in request[r].accounts : b # a => s.at = "invalidate" /\ b \in s.accounts
  BY <1>1, AfterOne DEF InvalidateUser
<1>3. fs \in SUBSET Family
  BY DEF TypeOK
<1> HIDE DEF fs
<1>4. TypeOK'
  <2>1. familiesOf' \in [Account -> SUBSET Family]
    BY <1>1 DEF TypeOK
  <2>2. listLeft' \in [Account -> 0 .. RefreshTTL]
    BY <1>1, SessionAssumption DEF TypeOK
  <2>3. request' \in [Request -> RequestState] /\ ended' \in SUBSET Family /\ missed' \in SUBSET Account
    BY <1>1, <1>2 DEF TypeOK
  <2>4. QED  BY <1>1, <1>3, <2>1, <2>2, <2>3, DeletesTyped DEF TypeOK
<1>5. /\ UsableIsCurrent' /\ KeysExpireInOrder'
      /\ \A g \in Family : current'[g] \in Pair => familyOf'[current'[g]] = g
      /\ \A g \in Family : Usable(g)' => g \notin fs /\ Usable(g)
  <2>1. \A b \in Account : \A g \in familiesOf'[b] : g \in familiesOf[b] /\ listLeft'[b] = listLeft[b]
    BY <1>1 DEF TypeOK
  <2>2. \A b \in Account : \A g \in familiesOf[b] \ fs : g \in familiesOf'[b]
    BY <1>1 DEF TypeOK, fs
  <2>3. TypeOK /\ UsableIsCurrent /\ KeysExpireInOrder /\ DrawnInOrder /\ Deletes(fs) /\ UNCHANGED drawnVars
    BY <1>1 DEF drawnVars
  <2> HIDE DEF IInv
  <2>4. QED  BY <1>3, <2>1, <2>2, <2>3, DeletesKeepOrder
<1>6. ASSUME NEW g \in Family, Usable(g)'
      PROVE  accountOf[g] # a /\ g \notin gone /\ Usable(g)
  <2>1. g \notin fs /\ Usable(g)
    BY <1>5, <1>6
  <2>2. g \in familiesOf[accountOf[g]]
    BY <2>1 DEF Usable, UsableIsCurrent
  <2>3. QED  BY <2>1, <2>2 DEF fs
<1>7. DrawnInOrder'
  BY <1>1, <1>5 DEF DrawnInOrder
<1> HIDE DEF gone
<1>8. EndedStaysEnded'
  BY <1>1, <1>4, <1>6, EndsAreKept DEF TypeOK
<1>9. SessionsMatchAccount'
  <2> SUFFICES ASSUME NEW g \in outdated, Usable(g)', accountOf[g] \notin missed'
               PROVE  \E q \in Request : At(q, "invalidate")' /\ accountOf[g] \in request'[q].accounts
    BY <1>1 DEF SessionsMatchAccount
  <2>1. accountOf[g] # a /\ Usable(g) /\ accountOf[g] \notin missed
    BY <1>1, <1>6 DEF TypeOK
  <2>2. PICK q \in Request : At(q, "invalidate") /\ accountOf[g] \in request[q].accounts
    BY <2>1 DEF SessionsMatchAccount
  <2>3. CASE q = r
    BY <1>2, <2>1, <2>2, <2>3 DEF At, TypeOK
  <2>4. CASE q # r
    BY <1>2, <2>2, <2>4 DEF At, TypeOK
  <2>5. QED  BY <2>3, <2>4
<1>10. CreationIsPrivate'
  BY <1>1, <1>2, CreationStaysPrivate DEF gone
<1>11. QED  BY <1>4, <1>5, <1>7, <1>8, <1>9, <1>10

\* An invalidation that fails is missed from then on.
LEMMA InvalidateFailsStep ==
  ASSUME IInv, NEW r \in Request, NEW a \in Account, InvalidateFails(r, a)
  PROVE  IInv'
<1> USE DEF IInv, drawnVars, redisVars
<1>1. /\ At(r, "invalidate") /\ missed' = missed \cup {a}
      /\ UNCHANGED <<status, drawnVars, redisVars, outdated, ended>>
  BY DEF InvalidateFails
<1>2. PICK s \in RequestState :
        /\ request' = [request EXCEPT ![r] = s]
        /\ s = request[r] \/ s.at \in {"idle", "invalidate"}
        /\ \A b \in request[r].accounts : b # a => s.at = "invalidate" /\ b \in s.accounts
  BY <1>1, AfterOne DEF InvalidateFails
<1>3. TypeOK'
  BY <1>1, <1>2 DEF TypeOK
<1>4. UsableIsCurrent' /\ KeysExpireInOrder' /\ DrawnInOrder' /\ EndedStaysEnded'
  BY <1>1 DEF UsableIsCurrent, KeysExpireInOrder, DrawnInOrder, EndedStaysEnded, Fresh, Usable
<1>5. SessionsMatchAccount'
  <2> SUFFICES ASSUME NEW g \in outdated, Usable(g)', accountOf[g] \notin missed'
               PROVE  \E q \in Request : At(q, "invalidate")' /\ accountOf[g] \in request'[q].accounts
    BY <1>1 DEF SessionsMatchAccount
  <2>1. accountOf[g] # a /\ Usable(g) /\ accountOf[g] \notin missed
    BY <1>1 DEF Usable, Fresh
  <2>2. PICK q \in Request : At(q, "invalidate") /\ accountOf[g] \in request[q].accounts
    BY <2>1 DEF SessionsMatchAccount
  <2>3. CASE q = r
    BY <1>2, <2>1, <2>2, <2>3 DEF At, TypeOK
  <2>4. CASE q # r
    BY <1>2, <2>2, <2>4 DEF At, TypeOK
  <2>5. QED  BY <2>3, <2>4
<1>6. CreationIsPrivate'
  BY <1>1, <1>2, CreationStaysPrivate
<1>7. QED  BY <1>3, <1>4, <1>5, <1>6

-------------------------------------------------------------------------------
(* The theorems. *)

\* Every step keeps the inductive invariant.
LEMMA StepKeepsIInv == IInv /\ [Next]_vars => IInv'
<1> SUFFICES ASSUME IInv, [Next]_vars PROVE IInv'
  OBVIOUS
<1>1. CASE Tick
  BY <1>1, TickStep
<1>2. ASSUME NEW r \in Request, Step(r) PROVE IInv'
  <2>1. ASSUME NEW a \in Account, NEW f \in Family, NEW p \in Pair, Login(r, a, f, p) PROVE IInv'
    BY <2>1, LoginStep
  <2>2. CASE Create(r)
    BY <2>2, CreateStep
  <2>3. ASSUME NEW p \in Pair, Refresh(r, p) \/ Logout(r, p) \/ VerifyAccount(r, p) PROVE IInv'
    BY <2>3, QuietSteps
  <2>4. ASSUME NEW p \in Pair, Rotate(r, p) PROVE IInv'
    BY <2>4, RotateStep
  <2>5. CASE RotateRefused(r) \/ Recheck(r) \/ AccountRead(r) \/ Fails(r)
    BY <2>5, QuietStepsAlone
  <2>6. CASE Revoke(r)
    BY <2>6, RevokeStep
  <2>7. ASSUME NEW as \in SUBSET Account, Change(r, as) PROVE IInv'
    BY <2>7, ChangeStep
  <2>8. ASSUME NEW a \in Account, InvalidateUser(r, a) PROVE IInv'
    BY <2>8, InvalidateUserStep
  <2>9. ASSUME NEW a \in Account, InvalidateFails(r, a) PROVE IInv'
    BY <2>9, InvalidateFailsStep
  <2>10. QED
    BY <1>2, <2>1, <2>2, <2>3, <2>4, <2>5, <2>6, <2>7, <2>8, <2>9 DEF Step
<1>3. CASE UNCHANGED vars
  BY <1>3 DEF vars, drawnVars, redisVars, historyVars, IInv, TypeOK, UsableIsCurrent, EndedStaysEnded,
              SessionsMatchAccount, KeysExpireInOrder, DrawnInOrder, CreationIsPrivate, InCreation,
              Usable, Fresh, At
<1>4. QED  BY <1>1, <1>2, <1>3 DEF Next

\* The inductive invariant holds in every reachable state.
LEMMA InductiveInvariant == Spec => []IInv
<1>1. Init => IInv
  BY InitIInv
<1>2. IInv /\ [Next]_vars => IInv'
  BY StepKeepsIInv
<1>3. QED  BY <1>1, <1>2, PTL DEF Spec

\* Every key, history and request stays within its type, and no key lives longer
\* than its TTL.
THEOREM TypeCorrect == Spec => []TypeOK
<1>1. IInv => TypeOK
  BY DEF IInv
<1>2. QED  BY <1>1, InductiveInvariant, PTL

\* Whatever token can be used is the one its family's hash names, in a family
\* that its account's set has: logout, reuse detection and InvalidateUser miss
\* none, whatever expires, races or is sent again.
THEOREM EveryTokenIsReachable == Spec => []UsableIsCurrent
<1>1. IInv => UsableIsCurrent
  BY DEF IInv
<1>2. QED  BY <1>1, InductiveInvariant, PTL

\* No refresh under way, repeated script or later login brings an ended session back.
THEOREM EndIsFinal == Spec => []EndedStaysEnded
<1>1. IInv => EndedStaysEnded
  BY DEF IInv
<1>2. QED  BY <1>1, InductiveInvariant, PTL

\* A session opened before its account changed is over, is about to be ended, or
\* the invalidation that should have ended it failed.
THEOREM ChangesEndSessions == Spec => []SessionsMatchAccount
<1>1. IInv => SessionsMatchAccount
  BY DEF IInv
<1>2. QED  BY <1>1, InductiveInvariant, PTL
===============================================================================
