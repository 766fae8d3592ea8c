-------------------------------- MODULE Tables --------------------------------
(* The tables the administration API writes - departments, menus, roles, the  *)
(* grants of roles, accounts and their roles - with the row locks InnoDB      *)
(* holds for a transaction, and the requests that work on them.  A statement  *)
(* outside a transaction, and the part of a transaction from its first write  *)
(* to its commit, is one step; a lock taken earlier (FOR SHARE, FOR UPDATE,   *)
(* the index range of a DELETE) is held from a step of its own.               *)
(*                                                                            *)
(* Names, codes, usernames, status flags and what else a row carries are left *)
(* out: a check of theirs can only refuse a request, and AdminFails lets one *)
(* end without effect at any step.  Soft-deleted rows leave their table.      *)
EXTENDS Hierarchy, Requests

CONSTANTS Department, Menu, Role, Account,     \* ids, positive numbers
          Root,          \* the role with the code ROOT
          MaxListed      \* bound: ids in one list of a command

ASSUME IdsAreNumbers ==
  /\ Department \cup Menu \cup Role \cup Account \subseteq Nat \ {0}
  /\ Root \in Role
ASSUME ListBound == MaxListed \in Nat

VARIABLES
  departments, menus,    \* live rows: id -> [parent, path]
  roles,                 \* ids of the live roles
  menuGrants,            \* sys_role_menu, pairs of a role and a menu
  departmentGrants,      \* sys_role_dept, pairs of a role and a department
  accounts,              \* live accounts: id -> its department, or 0
  assignments,           \* sys_user_role, pairs of an account and a role
  given,                 \* rows ever inserted: AUTO_INCREMENT gives no id twice
  shared, exclusive,     \* rows each client's transaction has locked
  imported               \* accounts that came from a file

tables == <<departments, menus, roles, menuGrants, departmentGrants, accounts, assignments>>
locks == <<shared, exclusive>>
adminVars == <<tables, given, locks, imported>>

Rows(kind, ids) == {kind} \X ids
Fresh(kind, id) == <<kind, id>> \notin given
Lists(ids) == {list \in SUBSET ids : Cardinality(list) <= MaxListed}

(* No transaction of another client holds these rows in a way that excludes   *)
(* the lock asked for; if one does, the statement waits.                      *)
MayShare(p, rows) == \A q \in Client \ {p} : exclusive[q] \cap rows = {}
MayLock(p, rows) == MayShare(p, rows) /\ \A q \in Client \ {p} : shared[q] \cap rows = {}

(* What a request of these services carries; each uses its part of it.        *)
Form(op, step) ==
  [op |-> op, step |-> step, id |-> 0, parent |-> 0, path |-> <<>>, old |-> <<>>,
   menus |-> {}, departments |-> {}, roles |-> {}, accounts |-> {}]

(* Everyone but the bootstrap acts for an account that has logged in.         *)
SomeoneIsIn == DOMAIN accounts # {}

(* prepare: the parent is read, and the new path made from what it says.      *)
Prepared(table, form) ==
  [form EXCEPT !.path = PathUnder(table, form.parent), !.step = "store"]

(* COMMIT or ROLLBACK.                                                        *)
Releases(p) ==
  /\ shared' = [shared EXCEPT ![p] = {}]
  /\ exclusive' = [exclusive EXCEPT ![p] = {}]

(* The end of a transaction, and the answer.                                  *)
Commits(p) == Ends(p) /\ Releases(p)

Holders(role) == {a \in Account : <<a, role>> \in assignments}

(* A commit after which the service invalidates the sessions of the role's    *)
(* holders, whom it has to look up.  What that does to them is Sessions'.     *)
ThenEndsRoleSessions(p, role) ==
  /\ Reads(p, [Form("end sessions", "find") EXCEPT !.id = role])
  /\ Releases(p)

(* A commit after which the service invalidates the sessions of this account. *)
ThenEndsSessions(p, account) ==
  /\ request' = [request EXCEPT ![p] = [Form("end sessions", "end") EXCEPT !.accounts = {account}]]
  /\ UNCHANGED left
  /\ Releases(p)

(* invalidateRoleSessions: whoever has the role by now.                       *)
FindHolders(p) ==
  /\ At(p, "end sessions", "find")
  /\ Reads(p, [To(p, "end") EXCEPT !.accounts = Holders(request[p].id)])
  /\ UNCHANGED adminVars

(* One InvalidateUser of the loop; if it fails, that is ignored.              *)
EndSession(p, a) ==
  /\ At(p, "end sessions", "end") /\ a \in request[p].accounts
  /\ Reads(p, [request[p] EXCEPT !.accounts = @ \ {a}])
  /\ UNCHANGED adminVars

SessionsEnded(p) ==
  /\ At(p, "end sessions", "end") /\ request[p].accounts = {}
  /\ Ends(p) /\ UNCHANGED <<stale, raced, adminVars>>

(* A check fails, a name is taken, the row is gone, the connection or a lock  *)
(* wait is lost, a deadlock is resolved against it: the transaction rolls     *)
(* back and the client is told so.  A request that dies after its commit      *)
(* leaves the sessions it has not come to.                                    *)
AdminFails(p) ==
  /\ Active(p)
  /\ Commits(p) /\ Forgets(p)
  /\ UNCHANGED <<tables, given, imported>>
=============================================================================
