------------------------------ MODULE Admission ------------------------------
(* What a login has to pass before its password is compared: the token bucket  *)
(* of its address, which one instance keeps (rate_limit.go), then the window   *)
(* of its address and user name and its captcha, which Redis keeps (store.go). *)
(* The map of buckets and each bucket have a mutex of their own, so the three  *)
(* steps of Allow may interleave with those of other requests.  A tick is the  *)
(* time in which a bucket gets a token, 10 ms by default; none passes between  *)
(* the steps of one Allow.  The two scripts are atomic; go-redis sends one     *)
(* again whose reply was lost.                                                 *)
EXTENDS Requests, Integers

CONSTANTS
  Address, Captcha,
  Burst, ClientTTL,  \* of the buckets
  LoginLimit, LoginWindow,
  MaxClock           \* bound

(* By default a bucket fills up in 2 s and is kept for 10 minutes; config.go   *)
(* asks only that both are positive.                                           *)
ASSUME BucketsFillUp ==
  Burst \in Nat \ {0} /\ ClientTTL \in Nat \ {0} /\ Burst <= ClientTTL
ASSUME LimitsArePositive == LoginLimit \in Nat \ {0} /\ LoginWindow \in Nat \ {0}

VARIABLES
  clock,
  buckets,           \* limiter.clients: when each was last seen, and what it has held since
  cleaned,           \* when those not used for long were last dropped
  attempts,          \* of each login key: its count, and how long it will live
  captcha,           \* "unborn", "live" or "gone"
  fair,              \* history: what a bucket would hold that is never dropped and
                     \* that only requests which are let in take a token from
  overlapped,        \* history: addresses of which a request made its reservation
                     \* before a refused one had cancelled its own
  passed, compared   \* history: logins let in in this window; answers to a captcha

admissionVars == <<clock, buckets, cleaned, attempts, captcha, fair, overlapped, passed, compared>>
loginVars == <<attempts, captcha, passed, compared>>
limiterVars == <<buckets, cleaned, fair, overlapped>>

None == [count |-> 0, left |-> 0]
AdmissionInit ==
  /\ clock = 0 /\ buckets = [a \in {} |-> 0] /\ cleaned = -ClientTTL
  /\ attempts = [a \in Address |-> None] /\ captcha = [c \in Captcha |-> "unborn"]
  /\ fair = [a \in Address |-> Burst] /\ overlapped = {}
  /\ passed = [a \in Address |-> 0] /\ compared = [c \in Captcha |-> 0]

Filled(tokens, time) == IF tokens + time < Burst THEN tokens + time ELSE Burst

(* What a request carries through Allow, and a login beyond it.                *)
Other(a) == [op |-> "other", step |-> "reserve", address |-> a, level |-> 0]
Login(a, c, right) ==
  [op |-> "login", step |-> "reserve", address |-> a, level |-> 0, captcha |-> c, right |-> right]
InAllow(p) == request[p].step \in {"reserve", "cancel"}
Refused(a) == {p \in Client : request[p].step = "cancel" /\ request[p].address = a}

Tick ==
  /\ clock < MaxClock /\ clock' = clock + 1
  /\ \A p \in Client : ~InAllow(p)
  /\ fair' = [a \in Address |-> Filled(fair[a], 1)]
  /\ attempts' = [a \in Address |-> IF attempts[a].left <= 1 THEN None
                                    ELSE [attempts[a] EXCEPT !.left = @ - 1]]
  /\ passed' = [a \in Address |-> IF attempts[a].left <= 1 THEN 0 ELSE passed[a]]
  /\ UNCHANGED <<buckets, cleaned, overlapped, captcha, compared, requestVars>>

-----------------------------------------------------------------------------
(* ClientRateLimiter. *)

(* Fault: what has not been used since the last cleaning is dropped.           *)
KeptSinceCleaning == {a \in DOMAIN buckets : clock - buckets[a].used < ClientTTL \div 2}
Kept ==
  IF clock - cleaned < ClientTTL \div 2 THEN DOMAIN buckets
  ELSE {a \in DOMAIN buckets : clock - buckets[a].used < ClientTTL}

(* What a request that came now would find.                                    *)
Found(a) ==
  IF a \in Kept THEN Filled(buckets[a].tokens, clock - buckets[a].used) ELSE Burst

(* forKey.  Since no time passes until then, the tokens that ReserveN would    *)
(* add are added here.                                                         *)
LooksUp(p, form) ==
  LET a == form.address
  IN  /\ Begins(p, form)
      /\ buckets' = [b \in Kept \cup {a} |->
                       IF b = a THEN [used |-> clock, tokens |-> Found(a)] ELSE buckets[b]]
      /\ cleaned' = IF clock - cleaned < ClientTTL \div 2 THEN cleaned ELSE clock
      /\ overlapped' = overlapped \cap Kept
      /\ UNCHANGED <<clock, fair, loginVars>>

(* ReserveN takes a token even if there is none; level is what it leaves.  A   *)
(* login that is let in goes on, and any other request is none of this.        *)
Reserve(p) ==
  LET a == request[p].address
      tokens == buckets[a].tokens
  IN  /\ request[p].step = "reserve"
      /\ buckets' = [buckets EXCEPT ![a].tokens = tokens - 1]
      /\ overlapped' = IF Refused(a) = {} THEN overlapped ELSE overlapped \cup {a}
      /\ IF tokens <= 0
           THEN Reads(p, [To(p, "cancel") EXCEPT !.level = tokens - 1]) /\ UNCHANGED fair
           ELSE /\ fair' = [fair EXCEPT ![a] = @ - 1]
                /\ IF request[p].op = "login" THEN Reads(p, To(p, "count"))
                   ELSE Ends(p) /\ Forgets(p)
      /\ UNCHANGED <<clock, cleaned, loginVars>>

(* Fault: the reservation of a refused request is not cancelled.               *)
ReturnedNever(p) == buckets

(* CancelAt gives nothing back while a reservation made after this one stands. *)
Returned(p) ==
  LET a == request[p].address
  IN  IF buckets[a].tokens = request[p].level THEN [buckets EXCEPT ![a].tokens = @ + 1] ELSE buckets

Cancel(p) ==
  /\ request[p].step = "cancel"
  /\ buckets' = Returned(p)
  /\ Ends(p) /\ Forgets(p)
  /\ UNCHANGED <<clock, cleaned, fair, overlapped, loginVars>>

-----------------------------------------------------------------------------
(* Logins. *)
GenerateCaptcha(c) ==
  /\ captcha[c] = "unborn"
  /\ captcha' = [captcha EXCEPT ![c] = "live"]
  /\ UNCHANGED <<clock, limiterVars, attempts, passed, compared, requestVars>>

CaptchaExpires(c) ==
  /\ captcha[c] = "live"
  /\ captcha' = [captcha EXCEPT ![c] = "gone"]
  /\ UNCHANGED <<clock, limiterVars, attempts, passed, compared, requestVars>>

(* loginRateScript.  A count past the limit is as good as one by one.          *)
Counted(a) ==
  IF attempts[a].left = 0 THEN [count |-> 1, left |-> LoginWindow]
  ELSE [attempts[a] EXCEPT !.count = IF @ > LoginLimit THEN @ ELSE @ + 1]

Counts(a) == attempts' = [attempts EXCEPT ![a] = Counted(a)]

AllowLogin(p) ==
  LET a == request[p].address
  IN  /\ At(p, "login", "count")
      /\ Counts(a)
      /\ IF Counted(a).count > LoginLimit
           THEN Ends(p) /\ Forgets(p) /\ UNCHANGED passed
           ELSE Reads(p, To(p, "captcha")) /\ passed' = [passed EXCEPT ![a] = @ + 1]
      /\ UNCHANGED <<clock, limiterVars, captcha, compared>>

AllowLoginUnanswered(p) ==
  /\ At(p, "login", "count")
  /\ Counts(request[p].address)
  /\ UNCHANGED <<clock, limiterVars, captcha, passed, compared, requestVars>>

(* Fault: a captcha stays until it is answered rightly.                        *)
ConsumesIfRight(p) ==
  captcha' = IF request[p].right THEN [captcha EXCEPT ![request[p].captcha] = "gone"] ELSE captcha
Consumes(p) == captcha' = [captcha EXCEPT ![request[p].captcha] = "gone"]

(* Verify.  A login that passes goes on in Sessions.                           *)
Verify(p) ==
  LET c == request[p].captcha
  IN  /\ At(p, "login", "captcha")
      /\ IF captcha[c] = "live"
           THEN Consumes(p) /\ compared' = [compared EXCEPT ![c] = @ + 1]
           ELSE UNCHANGED <<captcha, compared>>
      /\ Ends(p) /\ Forgets(p)
      /\ UNCHANGED <<clock, limiterVars, attempts, passed>>

VerifyUnanswered(p) ==
  /\ At(p, "login", "captcha") /\ captcha[request[p].captcha] = "live"
  /\ Consumes(p)
  /\ UNCHANGED <<clock, limiterVars, attempts, passed, compared, requestVars>>

LoginFails(p) ==
  /\ request[p].op = "login" /\ ~InAllow(p)
  /\ Ends(p) /\ Forgets(p)
  /\ UNCHANGED admissionVars

AdmissionNext ==
  \/ Tick
  \/ \E c \in Captcha : GenerateCaptcha(c) \/ CaptchaExpires(c)
  \/ \E p \in Client :
       \/ \E a \in Address : LooksUp(p, Other(a))
       \/ \E a \in Address, c \in Captcha, right \in BOOLEAN : LooksUp(p, Login(a, c, right))
       \/ Reserve(p) \/ Cancel(p)
       \/ AllowLogin(p) \/ AllowLoginUnanswered(p)
       \/ Verify(p) \/ VerifyUnanswered(p) \/ LoginFails(p)

-----------------------------------------------------------------------------
(* However requests overlap, and although buckets are dropped and come back    *)
(* full, a client is let in only when a bucket of its own would have a token,  *)
(* and whoever comes finds at most what that holds.                            *)
NeverTooOften == \A a \in Address : fair[a] >= 0 /\ Found(a) <= fair[a]

(* A client is kept out only as long as such a bucket would keep it out,       *)
(* unless requests of its own overlapped a refused one: the tokens of refused  *)
(* requests come back, and whatever others do costs it none.                   *)
KeptOutOnlyByOverlap ==
  \A a \in Address : a \in overlapped \/ Refused(a) # {} \/ Found(a) = fair[a]

(* However logins race and whatever reply is lost, no more of one client get   *)
(* to their captcha in a window than the limit, and the code of a captcha is   *)
(* compared once.                                                              *)
GuessesAreLimited ==
  /\ \A a \in Address : passed[a] <= LoginLimit
  /\ \A c \in Captcha : compared[c] <= 1

(* What the requests of this part are.                                         *)
LoginForm ==
  [op : {"login"}, step : {"reserve", "cancel", "count", "captcha"}, address : Address, level : Int,
   captcha : Captcha, right : BOOLEAN]
OtherForm == [op : {"other"}, step : {"reserve", "cancel"}, address : Address, level : Int]
AdmissionTypeOK ==
  /\ clock \in Nat /\ cleaned \in Int
  /\ DOMAIN buckets \subseteq Address
  /\ buckets \in [DOMAIN buckets -> [used : Nat, tokens : Int]]
  /\ attempts \in [Address -> [count : Nat, left : Nat]]
  /\ captcha \in [Captcha -> {"unborn", "live", "gone"}]
  /\ fair \in [Address -> 0..Burst]
  /\ passed \in [Address -> Nat] /\ compared \in [Captcha -> Nat]
  /\ request \in [Client -> {Idle} \cup LoginForm \cup OtherForm]

(* Why: a bucket never holds more than is fair, and what is fair has filled up *)
(* by the time it may be dropped; a reservation that fails finds at most 0.    *)
BucketsAreBounded ==
  \A a \in Address :
    IF a \in DOMAIN buckets
      THEN LET away == clock - buckets[a].used
           IN  /\ away >= 0 /\ buckets[a].tokens <= Burst
               /\ Filled(buckets[a].tokens, away) <= fair[a] /\ Filled(0, away) <= fair[a]
      ELSE fair[a] = Burst
RefusalsAreBelow == \A p \in Client : request[p].step = "cancel" => request[p].level < 0

(* The bucket of a request in Allow is in use, and the one refused request of  *)
(* an address at which none has overlapped made the last reservation.          *)
AllowIsShort ==
  \A p \in Client : InAllow(p) =>
    request[p].address \in DOMAIN buckets /\ buckets[request[p].address].used = clock
LastIsReturned ==
  \A a \in DOMAIN buckets \ overlapped :
    /\ Refused(a) = {} => Filled(buckets[a].tokens, clock - buckets[a].used) = fair[a]
    /\ \A p \in Refused(a) :
         Refused(a) = {p} /\ request[p].level = buckets[a].tokens /\ fair[a] = request[p].level + 1

(* A login that passes has been counted, and a captcha that is compared goes.  *)
PassesAreCounted ==
  \A a \in Address : /\ passed[a] <= attempts[a].count /\ passed[a] <= LoginLimit
                     /\ attempts[a].left = 0 => passed[a] = 0
ComparedIsGone == \A c \in Captcha : compared[c] = 0 \/ (compared[c] = 1 /\ captcha[c] = "gone")

BucketsIInv == BucketsAreBounded /\ RefusalsAreBelow /\ AllowIsShort /\ LastIsReturned
AdmissionIInv == AdmissionTypeOK /\ BucketsIInv /\ PassesAreCounted /\ ComparedIsGone
AdmissionSpec ==
  (\E bound : AdmissionInit /\ RequestsInit(bound)) /\ [][AdmissionNext]_<<admissionVars, requestVars>>
=============================================================================
