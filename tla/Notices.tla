-------------------------------- MODULE Notices --------------------------------
(* Notices: drafts that are edited, published to an audience, read, revoked    *)
(* and deleted.  Every change of a notice locks its row FOR UPDATE, checks the *)
(* state it expects and forgets who has read it, in one transaction; what was  *)
(* checked before the transaction, and the event sent after it, are not        *)
(* protected by the lock.                                                      *)
(* An audience stands for all that an edit may change in a notice; TargetAll   *)
(* is the audience of every user.  Whether the targets are accounts, and what  *)
(* else is validated, can only refuse a request (NoticeFails).                 *)
EXTENDS Requests

CONSTANTS Notice, User      \* ids; those of notices are positive numbers

VARIABLES
  notices,     \* sys_notice; status "none" until the row is inserted
  marks,       \* sys_user_notice, pairs of a notice and a user
  shown,       \* history: who has been shown the notice, as it was published last
  announced    \* history: the events handed to the realtime bus

noticeVars == <<notices, marks, shown, announced>>

Audience == (SUBSET User) \ {{}}
NoNotice == [status |-> "none", audience |-> {}]
WithoutMarks(id) == {mark \in marks : mark[1] # id}
(* Fault: whom the notice is for is not asked.                                 *)
VisibleToAll(id, u) == notices[id].status = "published"
VisibleTo(id, u) == notices[id].status = "published" /\ u \in notices[id].audience

NoticesInit ==
  /\ notices = [id \in Notice |-> NoNotice]
  /\ marks = {} /\ shown = {} /\ announced = {}

(* Save: a new notice, or one whose state is looked at without a lock.         *)
SaveNotice(p, id, audience, publish) ==
  /\ id # 0 => notices[id].status = "draft"
  /\ Begins(p, [op |-> "save notice", step |-> "write", id |-> id, audience |-> audience,
                publish |-> publish])
  /\ UNCHANGED noticeVars

(* A commit puts the notice into this state.  If clients are to be told, the   *)
(* request goes on with what the transaction has written or locked.            *)
Writes(p, id, row, event) ==
  /\ notices' = [notices EXCEPT ![id] = row]
  /\ marks' = WithoutMarks(id)
  /\ IF event = "none" THEN Ends(p)
     ELSE Reads(p, [op |-> event, step |-> "announce", id |-> id, audience |-> row.audience])

(* Fault: the row is locked, but its state not looked at again.                *)
ExpectedAny(id, status) == notices[id].status \notin {"none", "deleted"}

(* lockExpectedState: the row FOR UPDATE, in the state the change starts from. *)
Expected(id, status) == notices[id].status = status

StoreNotice(p, id) ==
  LET form == request[p]
      row == [status |-> IF form.publish THEN "published" ELSE "draft", audience |-> form.audience]
  IN  /\ At(p, "save notice", "write")
      /\ IF form.id = 0 THEN notices[id] = NoNotice ELSE id = form.id /\ Expected(id, "draft")
      /\ Writes(p, id, row, IF form.publish THEN "publish" ELSE "none")
      /\ UNCHANGED <<stale, raced, shown, announced>>

(* Publish and Revoke are one transaction; the event is made of the row as the *)
(* transaction has locked it.                                                  *)
Transition(p, id, from, to, event) ==
  /\ ~Active(p) /\ left > 0 /\ left' = left - 1
  /\ Expected(id, from)
  /\ notices' = [notices EXCEPT ![id].status = to]
  /\ marks' = WithoutMarks(id)
  /\ request' = [request EXCEPT ![p] = [op |-> event, step |-> "announce", id |-> id,
                                        audience |-> notices[id].audience]]
  /\ UNCHANGED <<stale, raced, shown, announced>>
PublishNotice(p, id) == Transition(p, id, "draft", "published", "publish")
RevokeNotice(p, id) == Transition(p, id, "published", "revoked", "revoke")

Announce(p) ==
  LET form == request[p]
  IN  /\ \E kind \in {"publish", "revoke"} : At(p, kind, "announce")
      /\ announced' = announced \cup {[kind |-> form.op, id |-> form.id, audience |-> form.audience]}
      /\ Ends(p) /\ Forgets(p)
      /\ UNCHANGED <<notices, marks, shown>>

(* Delete: all of them there, none of them published.                          *)
DeleteNotices(p, ids) ==
  /\ Once(p)
  /\ ids # {} /\ \A id \in ids : notices[id].status \in {"draft", "revoked"}
  /\ notices' = [id \in Notice |-> IF id \in ids THEN [notices[id] EXCEPT !.status = "deleted"]
                                   ELSE notices[id]]
  /\ marks' = {mark \in marks : mark[1] \notin ids}
  /\ UNCHANGED <<shown, announced>>

(* Get by a reader: GetVisible, and in a second statement MarkRead, which asks *)
(* nothing of the notice any more.                                             *)
GetNotice(p, u, id) ==
  /\ VisibleTo(id, u)
  /\ Begins(p, [op |-> "get notice", step |-> "mark", id |-> id, user |-> u])
  /\ shown' = shown \cup {<<id, u>>}
  /\ UNCHANGED <<notices, marks, announced>>

MarkRead(p) ==
  /\ At(p, "get notice", "mark")
  /\ marks' = marks \cup {<<request[p].id, request[p].user>>}
  /\ Ends(p) /\ Forgets(p)
  /\ UNCHANGED <<notices, shown, announced>>

(* INSERT ... SELECT of all the user may see now, in one statement.            *)
ReadAll(p, u) ==
  LET seen == {id \in Notice : VisibleTo(id, u)} \X {u}
  IN  /\ Once(p)
      /\ marks' = marks \cup seen /\ shown' = shown \cup seen
      /\ UNCHANGED <<notices, announced>>

NoticeFails(p) ==
  /\ Active(p)
  /\ Ends(p) /\ Forgets(p)
  /\ UNCHANGED noticeVars

NoticesNext ==
  \E p \in Client :
    \/ \E id \in Notice \cup {0}, audience \in Audience, publish \in BOOLEAN :
         SaveNotice(p, id, audience, publish)
    \/ \E id \in Notice : StoreNotice(p, id)
    \/ Announce(p) \/ MarkRead(p) \/ NoticeFails(p)
    \/ \E id \in Notice : PublishNotice(p, id) \/ RevokeNotice(p, id)
    \/ \E ids \in SUBSET Notice : DeleteNotices(p, ids)
    \/ \E u \in User : ReadAll(p, u) \/ \E id \in Notice : GetNotice(p, u, id)

-----------------------------------------------------------------------------
(* A published notice is never edited again, whoever looked at it while it was *)
(* a draft, and a revoked one is not published again (service.go:134, :188).   *)
PublishedIsFixed ==
  [][\A id \in Notice :
       /\ notices[id].status \in {"published", "revoked", "deleted"}
            => notices'[id].audience = notices[id].audience
       /\ notices[id].status = "published" => notices'[id].status \in {"published", "revoked"}
       /\ notices[id].status = "revoked" => notices'[id].status \in {"revoked", "deleted"}]_noticeVars

(* Who a published notice counts as read by is among those it is for and has   *)
(* been shown it, although a mark may be written long after the look at the    *)
(* notice, when it has been revoked or deleted.                                *)
MarksAreTrue ==
  \A mark \in marks :
    notices[mark[1]].status = "published" => mark \in shown /\ mark[2] \in notices[mark[1]].audience

(* An event, sent when the lock is gone, still tells the truth: its notice has *)
(* been published, for the audience the event goes to, and one told as revoked *)
(* is published no more.                                                       *)
EventsAreTrue ==
  \A event \in announced :
    /\ notices[event.id].status \notin {"none", "draft"}
    /\ event.audience = notices[event.id].audience
    /\ event.kind = "revoke" => notices[event.id].status # "published"

(* What the marks and the events say of a notice is so (README line 77).       *)
WhatIsToldIsTrue == MarksAreTrue /\ EventsAreTrue

(* Rows, marks and events are of their kinds.                                  *)
NoticesTypeOK ==
  /\ notices \in [Notice -> [status : {"none", "draft", "published", "revoked", "deleted"},
                             audience : SUBSET User]]
  /\ marks \subseteq Notice \X User /\ shown \subseteq Notice \X User
  /\ announced \subseteq [kind : {"publish", "revoke"}, id : Notice, audience : SUBSET User]

(* Why what is told is so: it is when a request has looked, and what makes it  *)
(* so - the audience, and having been published - does not change any more.    *)
Past == {"published", "revoked", "deleted"}
MarkHolds(id, u) == <<id, u>> \in shown /\ notices[id].status \in Past /\ u \in notices[id].audience
EventHolds(kind, id, audience) ==
  /\ notices[id].status \in Past /\ audience = notices[id].audience
  /\ kind = "revoke" => notices[id].status # "published"
PendingHolds(p) ==
  LET form == request[p]
  IN  /\ At(p, "save notice", "write") => form.audience \in Audience
      /\ At(p, "get notice", "mark") => MarkHolds(form.id, form.user)
      /\ form.step = "announce" /\ form.op \in {"publish", "revoke"} =>
           form.id \in Notice /\ EventHolds(form.op, form.id, form.audience)
NoticesIInv ==
  /\ NoticesTypeOK /\ IsPerClient(request)
  /\ \A mark \in marks : MarkHolds(mark[1], mark[2])
  /\ \A event \in announced : EventHolds(event.kind, event.id, event.audience)
  /\ \A p \in Client : PendingHolds(p)
NoticesSpec ==
  (\E bound : NoticesInit /\ RequestsInit(bound)) /\ [][NoticesNext]_<<noticeVars, requestVars>>
=============================================================================
