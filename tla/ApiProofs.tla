------------------------------- MODULE ApiProofs -------------------------------
(* What holds of the API for any number of rows, requests, connections and     *)
(* events: the administration of departments, menus, roles and accounts, the   *)
(* realtime hub and bus, the notices, the process itself, the dictionaries, and *)
(* what a login has to pass.                                                   *)
EXTENDS Administration, Dictionary, Notices, Realtime, ApiRole, Admission,
        FiniteSetTheorems, SequenceTheorems, WellFoundedInduction, TLAPS

-----------------------------------------------------------------------------
(* The administration. *)


(* Only p's own request and locks change.                                     *)
OnlyOf(p) ==
  /\ request' = [request EXCEPT ![p] = request'[p]]
  /\ shared' = [shared EXCEPT ![p] = shared'[p]]
  /\ exclusive' = [exclusive EXCEPT ![p] = exclusive'[p]]

(* What the others have locked stays where it is.                             *)
KeepsShared(p) ==
  \A q \in Client \ {p} : \A id :
    /\ id \in roles /\ <<"role", id>> \in shared[q] => id \in roles'
    /\ id \in DOMAIN menus /\ <<"menu", id>> \in shared[q] => id \in DOMAIN menus'

(* p's new locks are granted only if no other holds them against it.          *)
LocksGranted(p) ==
  /\ \A row \in shared'[p] : row[1] # "grants of menu" /\ \A q \in Client \ {p} : row \notin exclusive[q]
  /\ \A row \in exclusive'[p] : \A q \in Client \ {p} : row \notin shared[q]

Locking ==
  /\ IsPerClient(request) /\ IsPerClient(shared) /\ IsPerClient(exclusive)
  /\ \A p \in Client : IsForm(request[p]) /\ HoldsItsLocks(p)
  /\ LocksExclude

(* The locks are in order after a step of p if p's own are.                   *)
LEMMA LockingStep ==
  ASSUME NEW p \in Client, Locking, OnlyOf(p), IsForm(request'[p]), HoldsItsLocks(p)',
         LocksGranted(p), KeepsShared(p)
  PROVE  Locking'
<1>1. IsPerClient(request)' /\ IsPerClient(shared)' /\ IsPerClient(exclusive)'
  BY DEF Locking, OnlyOf, IsPerClient
<1>2. \A q \in Client \ {p} : request'[q] = request[q] /\ shared'[q] = shared[q]
                                /\ exclusive'[q] = exclusive[q]
  BY DEF OnlyOf, Locking, IsPerClient
<1>3. ASSUME NEW q \in Client, q # p PROVE IsForm(request'[q]) /\ HoldsItsLocks(q)'
  <2>1. request'[q] = request[q] /\ shared'[q] = shared[q] /\ exclusive'[q] = exclusive[q]
    BY <1>2, <1>3
  <2>2. IsForm(request[q]) /\ HoldsItsLocks(q)
    BY DEF Locking
  <2>3. \A ids : ids \subseteq roles /\ Rows("role", ids) \subseteq shared[q] => ids \subseteq roles'
    BY <1>3 DEF KeepsShared, Rows
  <2>4. \A ids : ids \subseteq DOMAIN menus /\ Rows("menu", ids) \subseteq shared[q]
                   => ids \subseteq DOMAIN menus'
    BY <1>3 DEF KeepsShared, Rows
  <2>5. \A id : id \in roles /\ <<"role", id>> \in shared[q] => id \in roles'
    BY <1>3 DEF KeepsShared
  <2>. QED  BY <2>1, <2>2, <2>3, <2>4, <2>5 DEF HoldsItsLocks, At
<1>4. LocksExclude'
  <2>1. ASSUME NEW r \in Client, NEW q \in Client, r # q PROVE exclusive'[r] \cap shared'[q] = {}
    <3>1. CASE r = p
      <4>. shared'[q] = shared[q]
        BY <1>2, <2>1, <3>1
      <4>. QED  BY <2>1, <3>1 DEF LocksGranted
    <3>2. CASE q = p
      <4>. exclusive'[r] = exclusive[r]
        BY <1>2, <2>1, <3>2
      <4>. QED  BY <2>1, <3>2 DEF LocksGranted
    <3>3. CASE r # p /\ q # p
      BY <1>2, <2>1, <3>3 DEF LocksExclude, Locking
    <3>. QED  BY <3>1, <3>2, <3>3
  <2>2. ASSUME NEW q \in Client, NEW row \in shared'[q] PROVE row[1] # "grants of menu"
    <3>1. CASE q = p
      BY <2>2, <3>1 DEF LocksGranted
    <3>2. CASE q # p
      BY <1>2, <2>2, <3>2 DEF LocksExclude, Locking
    <3>. QED  BY <3>1, <3>2
  <2>. QED  BY <2>1, <2>2 DEF LocksExclude
<1>. QED  BY <1>1, <1>3, <1>4 DEF Locking

(* What the properties speak of does not change, or only grows.               *)
TablesStand ==
  /\ UNCHANGED <<roles, menuGrants, departmentGrants, accounts, assignments, imported>>
  /\ DOMAIN menus \subseteq DOMAIN menus' /\ given \subseteq given'

\* The parts of the invariant the steps are proved from.
LEMMA InvParts == AdminIInv => Locking /\ IsPerClient(request) /\ ReferencesAreLive
BY DEF AdminIInv, Locking

\* A step of p that writes no table keeps the invariant, if p holds the locks it relies on.
LEMMA QuietStep ==
  ASSUME NEW p \in Client, AdminIInv, OnlyOf(p), IsForm(request'[p]), HoldsItsLocks(p)',
         LocksGranted(p), TablesStand
  PROVE  AdminIInv'
<1>1. Locking'
  BY LockingStep, InvParts DEF KeepsShared, TablesStand
<1>2. ReferencesAreLive'
  BY DEF AdminIInv, ReferencesAreLive, AssignmentsAreLive, GrantsAreLive, TablesStand
<1>3. \A a \in DOMAIN accounts' : <<"account", a>> \in given'
  BY DEF AdminIInv, TablesStand
<1>. QED  BY <1>1, <1>2, <1>3 DEF AdminIInv, Locking

(* The steps at which a request relies on its locks.                          *)
RelyingSteps ==
  {"save account", "save role", "set menus", "set departments", "delete roles"}

\* A request's record after its step.
LEMMA Becomes ==
  ASSUME NEW p \in Client, IsPerClient(request), NEW form, request' = [request EXCEPT ![p] = form]
  PROVE  request'[p] = form /\ request' = [request EXCEPT ![p] = request'[p]]
BY DEF IsPerClient

(* A step that reads, and goes to a step that relies on no lock.              *)
LEMMA ReadingStep ==
  ASSUME NEW p \in Client, AdminIInv, NEW form, request' = [request EXCEPT ![p] = form],
         IsForm(form), form.step # "write" \/ form.op \notin RelyingSteps,
         UNCHANGED adminVars
  PROVE  AdminIInv'
<1>1. request'[p] = form /\ request' = [request EXCEPT ![p] = request'[p]]
  BY Becomes, InvParts
<1>2. UNCHANGED <<shared, exclusive>> /\ TablesStand
  BY DEF adminVars, locks, tables, TablesStand
<1>3. OnlyOf(p)
  BY <1>1, <1>2 DEF OnlyOf, AdminIInv, IsPerClient
<1>4. HoldsItsLocks(p)'
  BY <1>1 DEF HoldsItsLocks, At, RelyingSteps
<1>5. LocksGranted(p)
  BY <1>2 DEF LocksGranted, AdminIInv, LocksExclude
<1>6. IsForm(request'[p])
  BY <1>1
<1>. QED  BY QuietStep, <1>2, <1>3, <1>4, <1>5, <1>6

(* The end of a transaction, whatever it has changed.                         *)
LEMMA Released ==
  ASSUME NEW p \in Client, AdminIInv, NEW form, request' = [request EXCEPT ![p] = form],
         form.step # "write", Releases(p)
  PROVE  request'[p] = form /\ OnlyOf(p) /\ HoldsItsLocks(p)' /\ LocksGranted(p)
<1>1. request'[p] = form /\ request' = [request EXCEPT ![p] = request'[p]]
  BY Becomes, InvParts
<1>2. shared'[p] = {} /\ exclusive'[p] = {}
  BY DEF Releases, AdminIInv, IsPerClient
<1>3. OnlyOf(p)
  BY <1>1, <1>2 DEF OnlyOf, Releases
<1>4. HoldsItsLocks(p)'
  BY <1>1 DEF HoldsItsLocks, At
<1>5. LocksGranted(p)
  BY <1>2 DEF LocksGranted
<1>. QED  BY <1>1, <1>3, <1>4, <1>5

\* After a commit a request relies on nothing and holds nothing.
LEMMA CommitStep ==
  ASSUME NEW p \in Client, AdminIInv, Commits(p)
  PROVE  OnlyOf(p) /\ IsForm(request'[p]) /\ HoldsItsLocks(p)' /\ LocksGranted(p)
<1>1. request' = [request EXCEPT ![p] = Idle] /\ Releases(p) /\ Idle.step # "write"
  BY DEF Commits, Ends, Idle
<1>2. request'[p] = Idle
  BY <1>1, Released
<1>3. IsForm(request'[p])
  BY <1>2 DEF IsForm
<1>. QED  BY <1>1, <1>3, Released

(* A commit that changes nothing the properties speak of.                     *)
LEMMA QuietCommit ==
  ASSUME NEW p \in Client, AdminIInv, Commits(p), TablesStand
  PROVE  AdminIInv'
BY CommitStep, QuietStep
-----------------------------------------------------------------------------
(* What a request carries on to its next step. *)

LEMMA FormOf ==
  ASSUME NEW p \in Client, AdminIInv, Active(p)
  PROVE  DOMAIN request[p] = DOMAIN Form("none", "none")
BY DEF AdminIInv, IsForm, Active

\* A client without a request.
LEMMA IdleIs == Idle.op = "none" /\ Idle.step = "none"
BY DEF Idle

\* A request's next step carries what the one before carried.
LEMMA ToIsForm ==
  ASSUME NEW p \in Client, AdminIInv, Active(p), NEW step
  PROVE  /\ IsForm(To(p, step))
         /\ To(p, step).step = step /\ To(p, step).op = request[p].op
         /\ To(p, step).id = request[p].id /\ To(p, step).roles = request[p].roles
         /\ To(p, step).menus = request[p].menus
         /\ To(p, step).departments = request[p].departments
BY FormOf DEF To, IsForm, Form

\* A request begins without relying on a lock.
LEMMA BeginStep ==
  ASSUME NEW p \in Client, AdminIInv, NEW form, Begins(p, form), IsForm(form),
         form.step # "write" \/ form.op \notin RelyingSteps, UNCHANGED adminVars
  PROVE  AdminIInv'
<1>1. request' = [request EXCEPT ![p] = form]
  BY DEF Begins
<1>. QED  BY <1>1, ReadingStep

\* A read without a lock.
LEMMA ReadStep ==
  ASSUME NEW p \in Client, AdminIInv, NEW form, Reads(p, form), IsForm(form),
         form.step # "write" \/ form.op \notin RelyingSteps, UNCHANGED adminVars
  PROVE  AdminIInv'
BY ReadingStep DEF Reads

\* A request moves on to a step that is not its write.
LEMMA ToStep ==
  ASSUME NEW p \in Client, AdminIInv, Active(p), NEW step, step # "write", Reads(p, To(p, step)), UNCHANGED adminVars
  PROVE  AdminIInv'
<1>1. IsForm(To(p, step)) /\ To(p, step).step = step
  BY ToIsForm
<1>. QED  BY <1>1, ReadStep

-----------------------------------------------------------------------------
(* Departments. *)

LEMMA OrganizationBeginsStep ==
  ASSUME NEW p \in Client, AdminIInv, OrganizationBegins(p)
  PROVE  AdminIInv'
<1>1. ASSUME NEW parent \in Department \cup {0}, CreateDepartment(p, parent) PROVE AdminIInv'
  <2>. DEFINE form == Prepared(departments, [Form("save department", "prepare") EXCEPT !.parent = parent])
  <2>1. IsForm(form) /\ form.step # "write"
    BY DEF Prepared, Form, IsForm
  <2>2. Begins(p, form) /\ UNCHANGED adminVars
    BY <1>1 DEF CreateDepartment
  <2>. HIDE DEF form
  <2>. QED  BY <2>1, <2>2, BeginStep
<1>2. ASSUME NEW parent \in Department \cup {0}, NEW id \in Department, UpdateDepartment(p, id, parent)
      PROVE  AdminIInv'
  <2>. DEFINE form == [Form("save department", IF parent # 0 THEN "descendant" ELSE "prepare")
                         EXCEPT !.id = id, !.parent = parent, !.old = departments[id].path]
  <2>1. IsForm(form) /\ form.step # "write"
    BY DEF Form, IsForm
  <2>2. Begins(p, form) /\ UNCHANGED adminVars
    BY <1>2 DEF UpdateDepartment
  <2>. HIDE DEF form
  <2>. QED  BY <2>1, <2>2, BeginStep
<1>3. ASSUME NEW id \in Department, DeleteDepartment(p, id) PROVE AdminIInv'
  <2>. DEFINE form == [Form("delete department", "accounts") EXCEPT !.id = id]
  <2>1. IsForm(form) /\ form.step # "write"
    BY DEF Form, IsForm
  <2>2. Begins(p, form) /\ UNCHANGED adminVars
    BY <1>3 DEF DeleteDepartment
  <2>. HIDE DEF form
  <2>. QED  BY <2>1, <2>2, BeginStep
<1>. QED  BY <1>1, <1>2, <1>3 DEF OrganizationBegins

\* Departments: their requests rely on no lock.
LEMMA OrganizationStepStep ==
  ASSUME NEW p \in Client, AdminIInv, OrganizationStep(p)
  PROVE  AdminIInv'
<1>1. ASSUME NEW id \in Department, InsertDepartment(p, id) PROVE AdminIInv'
  <2>1. TablesStand
    BY <1>1 DEF InsertDepartment, TablesStand
  <2>2. Commits(p)
    BY <1>1 DEF InsertDepartment, At
  <2>. QED  BY <2>1, <2>2, QuietCommit
<1>2. CASE CheckDescendant(p)
  <2>1. Active(p)
    BY <1>2, IdleIs DEF CheckDescendant, At, Active
  <2>2. Reads(p, To(p, "prepare")) /\ UNCHANGED adminVars
    BY <1>2 DEF CheckDescendant
  <2>. QED  BY <2>1, <2>2, ToStep
<1>3. CASE PrepareDepartment(p)
  <2>. DEFINE form == Prepared(departments, request[p])
  <2>1. Active(p)
    BY <1>3, IdleIs DEF PrepareDepartment, At, Active
  <2>2. IsForm(form) /\ form.step # "write"
    BY <2>1, FormOf DEF Prepared, IsForm, Form
  <2>3. Reads(p, form) /\ UNCHANGED adminVars
    BY <1>3 DEF PrepareDepartment
  <2>. HIDE DEF form
  <2>. QED  BY <2>1, <2>2, <2>3, ReadStep
<1>4. CASE MoveDepartment(p)
  <2>1. TablesStand
    BY <1>4 DEF MoveDepartment, TablesStand
  <2>2. Commits(p)
    BY <1>4 DEF MoveDepartment, At
  <2>. QED  BY <2>1, <2>2, QuietCommit
<1>5. CASE CheckAccounts(p)
  <2>1. Active(p)
    BY <1>5, IdleIs DEF CheckAccounts, At, Active
  <2>2. Reads(p, To(p, "delete")) /\ UNCHANGED adminVars
    BY <1>5 DEF CheckAccounts
  <2>. QED  BY <2>1, <2>2, ToStep
<1>6. CASE RemoveDepartment(p)
  <2>1. TablesStand
    BY <1>6 DEF RemoveDepartment, TablesStand
  <2>2. Commits(p)
    BY <1>6 DEF RemoveDepartment, At
  <2>. QED  BY <2>1, <2>2, QuietCommit
<1>. QED  BY <1>1, <1>2, <1>3, <1>4, <1>5, <1>6 DEF OrganizationStep

-----------------------------------------------------------------------------
(* Steps that take locks, and steps that write. *)

LEMMA Shares ==
  ASSUME NEW p \in Client, AdminIInv, NEW form, NEW rows, request' = [request EXCEPT ![p] = form],
         shared' = [shared EXCEPT ![p] = rows], exclusive' = exclusive
  PROVE  request'[p] = form /\ shared'[p] = rows /\ exclusive'[p] = exclusive[p] /\ OnlyOf(p)
<1>1. request'[p] = form /\ request' = [request EXCEPT ![p] = request'[p]]
  BY Becomes, InvParts
<1>2. shared'[p] = rows /\ shared' = [shared EXCEPT ![p] = shared'[p]]
  BY DEF AdminIInv, IsPerClient
<1>3. exclusive'[p] = exclusive[p] /\ exclusive' = [exclusive EXCEPT ![p] = exclusive'[p]]
  BY DEF AdminIInv, IsPerClient
<1>. QED  BY <1>1, <1>2, <1>3 DEF OnlyOf

\* A request that has taken exclusive locks.
LEMMA Excludes ==
  ASSUME NEW p \in Client, AdminIInv, NEW form, NEW rows, request' = [request EXCEPT ![p] = form],
         exclusive' = [exclusive EXCEPT ![p] = rows], shared' = shared
  PROVE  request'[p] = form /\ exclusive'[p] = rows /\ shared'[p] = shared[p] /\ OnlyOf(p)
<1>1. request'[p] = form /\ request' = [request EXCEPT ![p] = request'[p]]
  BY Becomes, InvParts
<1>2. exclusive'[p] = rows /\ exclusive' = [exclusive EXCEPT ![p] = exclusive'[p]]
  BY DEF AdminIInv, IsPerClient
<1>3. shared'[p] = shared[p] /\ shared' = [shared EXCEPT ![p] = shared'[p]]
  BY DEF AdminIInv, IsPerClient
<1>. QED  BY <1>1, <1>2, <1>3 DEF OnlyOf

\* A step that takes locks and writes nothing.
LEMMA LockingRead ==
  ASSUME NEW p \in Client, AdminIInv, OnlyOf(p), IsForm(request'[p]),
         HoldsItsLocks(p)', LocksGranted(p), UNCHANGED <<tables, given, imported>>
  PROVE  AdminIInv'
<1>1. TablesStand
  BY DEF TablesStand, tables
<1>. QED  BY <1>1, QuietStep

\* A write: its lemma shows that references stay live, the rest is here.
LEMMA WriteStep ==
  ASSUME NEW p \in Client, AdminIInv, OnlyOf(p), IsForm(request'[p]), HoldsItsLocks(p)',
         LocksGranted(p), KeepsShared(p), ReferencesAreLive',
         \A a \in DOMAIN accounts' : <<"account", a>> \in given'
  PROVE  AdminIInv'
<1>1. Locking'
  BY LockingStep, InvParts
<1>. QED  BY <1>1 DEF AdminIInv, Locking

(* A commit after which no session has to end.                                *)
LEMMA PlainCommit ==
  ASSUME NEW p \in Client, AdminIInv, Commits(p), KeepsShared(p), ReferencesAreLive',
         \A a \in DOMAIN accounts' : <<"account", a>> \in given'
  PROVE  AdminIInv'
BY CommitStep, WriteStep

(* A commit after which the sessions of a role's holders have to end.         *)
LEMMA RoleCommit ==
  ASSUME NEW p \in Client, AdminIInv, NEW role, ThenEndsRoleSessions(p, role),
         KeepsShared(p), ReferencesAreLive', \A a \in DOMAIN accounts' : <<"account", a>> \in given'
  PROVE  AdminIInv'
<1>. DEFINE form == [Form("end sessions", "find") EXCEPT !.id = role]
<1>1. IsForm(form) /\ form.step = "find"
  BY DEF Form, IsForm
<1>2. request' = [request EXCEPT ![p] = form] /\ Releases(p)
  BY DEF ThenEndsRoleSessions, Reads
<1>. HIDE DEF form
<1>3. request'[p] = form /\ OnlyOf(p) /\ HoldsItsLocks(p)' /\ LocksGranted(p)
  BY <1>1, <1>2, Released
<1>. QED  BY <1>1, <1>3, WriteStep

(* A commit after which the sessions of an account have to end.               *)
LEMMA AccountCommit ==
  ASSUME NEW p \in Client, AdminIInv, NEW account, ThenEndsSessions(p, account),
         KeepsShared(p), ReferencesAreLive', \A a \in DOMAIN accounts' : <<"account", a>> \in given'
  PROVE  AdminIInv'
<1>. DEFINE form == [Form("end sessions", "end") EXCEPT !.accounts = {account}]
<1>1. IsForm(form) /\ form.step = "end"
  BY DEF Form, IsForm
<1>2. request' = [request EXCEPT ![p] = form] /\ Releases(p)
  BY DEF ThenEndsSessions
<1>. HIDE DEF form
<1>3. request'[p] = form /\ OnlyOf(p) /\ HoldsItsLocks(p)' /\ LocksGranted(p)
  BY <1>1, <1>2, Released
<1>. QED  BY <1>1, <1>3, WriteStep

-----------------------------------------------------------------------------
(* Menus and roles. *)

LEMMA SetGrantsStep ==
  ASSUME NEW p \in Client, AdminIInv, NEW op \in {"set menus", "set departments"},
         NEW id, NEW ms, NEW ds, SetGrants(p, op, id, ms, ds), op = "set departments" => ms = {}
  PROVE  AdminIInv'
<1>. DEFINE form == [Form(op, "write") EXCEPT !.id = id, !.menus = ms, !.departments = ds]
            rows == Rows("role", {id}) \cup Rows("menu", ms) \cup Rows("department", ds)
<1>1. IsForm(form) /\ form.op = op /\ form.step = "write" /\ form.id = id /\ form.menus = ms
  BY DEF Form, IsForm
<1>2. /\ request' = [request EXCEPT ![p] = form]
      /\ shared' = [shared EXCEPT ![p] = rows]
      /\ UNCHANGED <<tables, given, exclusive, imported>>
  BY IdleIs DEF SetGrants, Begins, Active
<1>3. id \in roles /\ ms \subseteq DOMAIN menus /\ roles' = roles /\ menus' = menus
  BY DEF SetGrants, AssociationsExist, tables
<1>4. \A q \in Client \ {p} : exclusive[q] \cap rows = {}
  BY DEF SetGrants, AssociationsExist, MayShare
<1>5. \A row \in rows : row[1] # "grants of menu"
  BY DEF Rows
<1>6. Rows("menu", ms) \subseteq rows /\ <<"role", id>> \in rows
  BY DEF Rows
<1>. HIDE DEF form, rows
<1>7. request'[p] = form /\ shared'[p] = rows /\ exclusive'[p] = exclusive[p] /\ OnlyOf(p)
  BY <1>2, Shares
<1>8. HoldsItsLocks(p)'
  BY <1>1, <1>3, <1>6, <1>7 DEF HoldsItsLocks, At
<1>9. LocksGranted(p)
  BY <1>2, <1>4, <1>5, <1>7 DEF LocksGranted, AdminIInv, LocksExclude
<1>. QED  BY <1>1, <1>2, <1>7, <1>8, <1>9, LockingRead

\* DeleteRoles locks the roles for itself.
LEMMA DeleteRolesStep ==
  ASSUME NEW p \in Client, AdminIInv, NEW ids, DeleteRoles(p, ids)
  PROVE  AdminIInv'
<1>. DEFINE form == [Form("delete roles", "write") EXCEPT !.roles = ids]
<1>1. IsForm(form) /\ form.op = "delete roles" /\ form.step = "write" /\ form.roles = ids
  BY DEF Form, IsForm
<1>2. /\ request' = [request EXCEPT ![p] = form]
      /\ exclusive' = [exclusive EXCEPT ![p] = Rows("role", ids)]
      /\ UNCHANGED <<tables, given, shared, imported>>
  BY IdleIs DEF DeleteRoles, Begins, Active
<1>3. \A q \in Client \ {p} : shared[q] \cap Rows("role", ids) = {}
                                /\ exclusive[q] \cap Rows("role", ids) = {}
  BY DEF DeleteRoles, MayLock, MayShare
<1>. HIDE DEF form
<1>4. request'[p] = form /\ exclusive'[p] = Rows("role", ids) /\ shared'[p] = shared[p] /\ OnlyOf(p)
  BY <1>2, Excludes
<1>5. HoldsItsLocks(p)'
  BY <1>1, <1>4 DEF HoldsItsLocks, At
<1>6. LocksGranted(p)
  BY <1>2, <1>3, <1>4 DEF LocksGranted, AdminIInv, LocksExclude
<1>. QED  BY <1>1, <1>2, <1>4, <1>5, <1>6, LockingRead

\* The requests about menus, roles and grants begin.
LEMMA AccessControlBeginsStep ==
  ASSUME NEW p \in Client, AdminIInv, AccessControlBegins(p)
  PROVE  AdminIInv'
<1>1. ASSUME NEW parent \in Menu \cup {0}, CreateMenu(p, parent) PROVE AdminIInv'
  <2>. DEFINE form == Prepared(menus, [Form("save menu", "prepare") EXCEPT !.parent = parent])
  <2>1. IsForm(form) /\ form.step # "write"
    BY DEF Prepared, Form, IsForm
  <2>2. Begins(p, form) /\ UNCHANGED adminVars
    BY <1>1 DEF CreateMenu
  <2>. HIDE DEF form
  <2>. QED  BY <2>1, <2>2, BeginStep
<1>2. ASSUME NEW parent \in Menu \cup {0}, NEW id \in Menu, UpdateMenu(p, id, parent) PROVE AdminIInv'
  <2>. DEFINE form == [Form("save menu", "prepare") EXCEPT !.id = id, !.parent = parent]
  <2>1. IsForm(form) /\ form.step # "write"
    BY DEF Form, IsForm
  <2>2. Begins(p, form) /\ UNCHANGED adminVars
    BY <1>2 DEF UpdateMenu
  <2>. HIDE DEF form
  <2>. QED  BY <2>1, <2>2, BeginStep
<1>3. ASSUME NEW id \in Menu, DeleteMenu(p, id) PROVE AdminIInv'
  <2>. DEFINE form == [Form("delete menu", "grants") EXCEPT !.id = id]
  <2>1. IsForm(form) /\ form.step # "write"
    BY DEF Form, IsForm
  <2>2. Begins(p, form) /\ UNCHANGED adminVars
    BY <1>3 DEF DeleteMenu
  <2>. HIDE DEF form
  <2>. QED  BY <2>1, <2>2, BeginStep
<1>4. ASSUME NEW ms, NEW ds, NEW id, SaveRole(p, id, ms, ds) PROVE AdminIInv'
  <2>. DEFINE form == [Form("save role", "associations") EXCEPT !.id = id, !.menus = ms, !.departments = ds]
  <2>1. IsForm(form) /\ form.step # "write"
    BY DEF Form, IsForm
  <2>2. Begins(p, form) /\ UNCHANGED adminVars
    BY <1>4 DEF SaveRole
  <2>. HIDE DEF form
  <2>. QED  BY <2>1, <2>2, BeginStep
<1>5. ASSUME NEW id, NEW ms, SetRoleMenus(p, id, ms) PROVE AdminIInv'
  BY <1>5, SetGrantsStep DEF SetRoleMenus
<1>6. ASSUME NEW id, NEW ds, SetRoleDepartments(p, id, ds) PROVE AdminIInv'
  BY <1>6, SetGrantsStep DEF SetRoleDepartments
<1>7. ASSUME NEW ids, DeleteRoles(p, ids) PROVE AdminIInv'
  BY <1>7, DeleteRolesStep
<1>. QED  BY <1>1, <1>2, <1>3, <1>4, <1>5, <1>6, <1>7 DEF AccessControlBegins

\* A menu is inserted, prepared, read or moved.
LEMMA MenuStep ==
  ASSUME NEW p \in Client, AdminIInv,
         \/ \E id \in Menu : InsertMenu(p, id)
         \/ PrepareMenu(p) \/ ReadMenu(p) \/ MoveMenu(p)
  PROVE  AdminIInv'
<1>1. ASSUME NEW id \in Menu, InsertMenu(p, id) PROVE AdminIInv'
  <2>1. TablesStand
    BY <1>1 DEF InsertMenu, TablesStand
  <2>2. Commits(p)
    BY <1>1 DEF InsertMenu, At
  <2>. QED  BY <2>1, <2>2, QuietCommit
<1>2. CASE PrepareMenu(p)
  <2>. DEFINE form == [Prepared(menus, request[p]) EXCEPT !.step = "current"]
  <2>1. Active(p)
    BY <1>2, IdleIs DEF PrepareMenu, At, Active
  <2>2. IsForm(form) /\ form.step # "write"
    BY <2>1, FormOf DEF Prepared, IsForm, Form
  <2>3. Reads(p, form) /\ UNCHANGED adminVars
    BY <1>2 DEF PrepareMenu
  <2>. HIDE DEF form
  <2>. QED  BY <2>1, <2>2, <2>3, ReadStep
<1>3. CASE ReadMenu(p)
  <2>. DEFINE form == [To(p, "store") EXCEPT !.old = menus[request[p].id].path]
  <2>1. Active(p)
    BY <1>3, IdleIs DEF ReadMenu, At, Active
  <2>2. IsForm(form) /\ form.step # "write"
    BY <2>1, FormOf DEF To, IsForm, Form
  <2>3. Reads(p, form) /\ UNCHANGED adminVars
    BY <1>3 DEF ReadMenu
  <2>. HIDE DEF form
  <2>. QED  BY <2>1, <2>2, <2>3, ReadStep
<1>4. CASE MoveMenu(p)
  <2>1. DOMAIN menus' = DOMAIN menus
    BY <1>4 DEF MoveMenu, UpdateTree
  <2>2. TablesStand
    BY <1>4, <2>1 DEF MoveMenu, TablesStand
  <2>3. Commits(p)
    BY <1>4 DEF MoveMenu, At
  <2>. QED  BY <2>2, <2>3, QuietCommit
<1>. QED  BY <1>1, <1>2, <1>3, <1>4

(* A menu that is removed is in nobody's shared locks, and takes its grants.  *)
LEMMA RemoveMenuStep ==
  ASSUME NEW p \in Client, AdminIInv, LockGrants(p) \/ RemoveMenu(p)
  PROVE  AdminIInv'
<1>1. CASE LockGrants(p)
  <2>1. Active(p) /\ request[p].op = "delete menu"
    BY <1>1, IdleIs DEF LockGrants, At, Active
  <2>2. IsForm(To(p, "delete")) /\ To(p, "delete").step = "delete"
    BY <2>1, ToIsForm
  <2>. DEFINE rows == Rows("grants of menu", {request[p].id})
  <2>3. /\ request' = [request EXCEPT ![p] = To(p, "delete")]
        /\ exclusive' = [exclusive EXCEPT ![p] = rows]
        /\ UNCHANGED <<tables, given, shared, imported>>
    BY <1>1 DEF LockGrants, Reads
  <2>4. \A row \in rows : row[1] = "grants of menu"
    BY DEF Rows
  <2>. HIDE DEF rows
  <2>5. request'[p] = To(p, "delete") /\ exclusive'[p] = rows /\ shared'[p] = shared[p] /\ OnlyOf(p)
    BY <2>3, Excludes
  <2>6. HoldsItsLocks(p)'
    BY <2>2, <2>5 DEF HoldsItsLocks, At
  <2>7. LocksGranted(p)
    BY <2>3, <2>4, <2>5 DEF LocksGranted, AdminIInv, LocksExclude
  <2>. QED  BY <2>1, <2>2, <2>3, <2>5, <2>6, <2>7, LockingRead
<1>2. CASE RemoveMenu(p)
  <2>. DEFINE id == request[p].id
  <2>1. Commits(p)
    BY <1>2 DEF RemoveMenu, At
  <2>2. /\ DOMAIN menus' = DOMAIN menus \ {id}
        /\ menuGrants' = {grant \in menuGrants : grant[2] # id}
        /\ UNCHANGED <<roles, departmentGrants, accounts, assignments, given, imported>>
    BY <1>2 DEF RemoveMenu
  <2>3. \A q \in Client \ {p} : <<"menu", id>> \notin shared[q]
    <3>1. <<"menu", id>> \in Rows("menu", {id})
      BY DEF Rows
    <3>2. MayLock(p, Rows("menu", {id}))
      BY <1>2 DEF RemoveMenu
    <3>. HIDE DEF id
    <3>. QED  BY <3>1, <3>2 DEF MayLock
  <2>. HIDE DEF id
  <2>4. KeepsShared(p)
    BY <2>2, <2>3 DEF KeepsShared
  <2>5. ReferencesAreLive'
    BY <2>2 DEF AdminIInv, ReferencesAreLive, AssignmentsAreLive, GrantsAreLive
  <2>6. \A a \in DOMAIN accounts' : <<"account", a>> \in given'
    BY <2>2 DEF AdminIInv
  <2>. QED  BY <2>1, <2>4, <2>5, <2>6, PlainCommit
<1>. QED  BY <1>1, <1>2

(* What a request has locked FOR SHARE is still there when it writes.         *)
LEMMA StoreRoleStep ==
  ASSUME NEW p \in Client, AdminIInv, NEW role, StoreRole(p, role)
  PROVE  AdminIInv'
<1>. DEFINE form == request[p]
<1>1. At(p, "save role", "write")
  BY DEF StoreRole
<1>2. form.menus \subseteq DOMAIN menus
  BY <1>1 DEF AdminIInv, HoldsItsLocks
<1>3. /\ roles' = roles \cup {role} /\ given \subseteq given'
      /\ menuGrants' = Replaced(menuGrants, role, form.menus)
      /\ departmentGrants' = Replaced(departmentGrants, role, form.departments)
      /\ UNCHANGED <<menus, accounts, assignments, imported>>
  BY DEF StoreRole
<1>4. Commits(p) \/ ThenEndsRoleSessions(p, role)
  BY DEF StoreRole
<1>. HIDE DEF form
<1>5. KeepsShared(p)
  BY <1>3 DEF KeepsShared
<1>6. GrantsAreLive'
  BY <1>2, <1>3 DEF AdminIInv, ReferencesAreLive, GrantsAreLive, Replaced
<1>7. ReferencesAreLive'
  BY <1>3, <1>6 DEF AdminIInv, ReferencesAreLive, AssignmentsAreLive
<1>8. \A a \in DOMAIN accounts' : <<"account", a>> \in given'
  BY <1>3 DEF AdminIInv
<1>. QED  BY <1>4, <1>5, <1>7, <1>8, PlainCommit, RoleCommit

\* The grants of a role are stored while role and menus are locked.
LEMMA StoreGrantsStep ==
  ASSUME NEW p \in Client, AdminIInv, StoreRoleMenus(p) \/ StoreRoleDepartments(p)
  PROVE  AdminIInv'
<1>. DEFINE form == request[p]
<1>1. form.id \in roles
  <2>1. At(p, "set menus", "write") \/ At(p, "set departments", "write")
    BY DEF StoreRoleMenus, StoreRoleDepartments
  <2>. QED  BY <2>1 DEF AdminIInv, HoldsItsLocks
<1>2. /\ ThenEndsRoleSessions(p, form.id)
      /\ UNCHANGED <<menus, roles, accounts, assignments, given, imported>>
  BY DEF StoreRoleMenus, StoreRoleDepartments
<1>3. GrantsAreLive'
  <2>1. CASE StoreRoleMenus(p)
    <3>1. form.menus \subseteq DOMAIN menus
      BY <2>1 DEF StoreRoleMenus, AdminIInv, HoldsItsLocks
    <3>2. menuGrants' = Replaced(menuGrants, form.id, form.menus)
          /\ departmentGrants' = departmentGrants
      BY <2>1 DEF StoreRoleMenus
    <3>. HIDE DEF form
    <3>. QED  BY <1>1, <1>2, <3>1, <3>2 DEF AdminIInv, ReferencesAreLive, GrantsAreLive, Replaced
  <2>2. CASE StoreRoleDepartments(p)
    <3>1. departmentGrants' = Replaced(departmentGrants, form.id, form.departments)
          /\ menuGrants' = menuGrants
      BY <2>2 DEF StoreRoleDepartments
    <3>. HIDE DEF form
    <3>. QED  BY <1>1, <1>2, <3>1 DEF AdminIInv, ReferencesAreLive, GrantsAreLive, Replaced
  <2>. QED  BY <2>1, <2>2
<1>. HIDE DEF form
<1>4. ReferencesAreLive'
  BY <1>2, <1>3 DEF AdminIInv, ReferencesAreLive, AssignmentsAreLive
<1>5. KeepsShared(p)
  BY <1>2 DEF KeepsShared
<1>6. \A a \in DOMAIN accounts' : <<"account", a>> \in given'
  BY <1>2 DEF AdminIInv
<1>. QED  BY <1>2, <1>4, <1>5, <1>6, RoleCommit

(* Nobody else shares a role that is deleted, and no account has it.          *)
LEMMA RemoveRolesStep ==
  ASSUME NEW p \in Client, AdminIInv, RemoveRoles(p)
  PROVE  AdminIInv'
<1>. DEFINE ids == request[p].roles
<1>1. At(p, "delete roles", "write")
  BY DEF RemoveRoles
<1>2. Rows("role", ids) \subseteq exclusive[p]
  BY <1>1 DEF AdminIInv, HoldsItsLocks
<1>3. /\ \A assignment \in assignments : assignment[2] \notin ids
      /\ roles' = roles \ ids
      /\ menuGrants' = {grant \in menuGrants : grant[1] \notin ids}
      /\ departmentGrants' = {grant \in departmentGrants : grant[1] \notin ids}
      /\ Commits(p)
      /\ UNCHANGED <<menus, accounts, assignments, given, imported>>
  BY DEF RemoveRoles
<1>. HIDE DEF ids
<1>4. KeepsShared(p)
  <2>1. ASSUME NEW q \in Client \ {p}, NEW id \in roles, <<"role", id>> \in shared[q]
        PROVE  id \in roles'
    <3>1. <<"role", id>> \notin exclusive[p]
      BY <2>1 DEF AdminIInv, LocksExclude
    <3>2. id \in ids => <<"role", id>> \in Rows("role", ids)
      BY DEF Rows
    <3>. QED  BY <1>2, <1>3, <3>1, <3>2
  <2>. QED  BY <1>3, <2>1 DEF KeepsShared
<1>5. AssignmentsAreLive'
  BY <1>3 DEF AdminIInv, ReferencesAreLive, AssignmentsAreLive
<1>6. GrantsAreLive'
  BY <1>3 DEF AdminIInv, ReferencesAreLive, GrantsAreLive
<1>7. \A a \in DOMAIN accounts' : <<"account", a>> \in given'
  BY <1>3 DEF AdminIInv
<1>. QED  BY <1>3, <1>4, <1>5, <1>6, <1>7, PlainCommit DEF ReferencesAreLive

\* Saving a role locks the menus and departments it is to be granted.
LEMMA LockAssociationsStep ==
  ASSUME NEW p \in Client, AdminIInv, LockAssociations(p)
  PROVE  AdminIInv'
<1>. DEFINE rows == Rows("menu", request[p].menus) \cup Rows("department", request[p].departments)
            form == To(p, "write")
<1>1. Active(p) /\ request[p].op = "save role"
  BY IdleIs DEF LockAssociations, At, Active
<1>2. IsForm(form) /\ form.op = "save role" /\ form.step = "write" /\ form.menus = request[p].menus
  BY <1>1, ToIsForm
<1>3. /\ request' = [request EXCEPT ![p] = form]
      /\ shared' = [shared EXCEPT ![p] = rows]
      /\ UNCHANGED <<tables, given, exclusive, imported>>
  BY DEF LockAssociations, Reads
<1>4. /\ request[p].menus \subseteq DOMAIN menus /\ menus' = menus
      /\ \A q \in Client \ {p} : exclusive[q] \cap rows = {}
  BY DEF LockAssociations, AssociationsExist, MayShare, tables
<1>5. Rows("menu", request[p].menus) \subseteq rows /\ \A row \in rows : row[1] # "grants of menu"
  BY DEF Rows
<1>. HIDE DEF rows, form
<1>6. request'[p] = form /\ shared'[p] = rows /\ exclusive'[p] = exclusive[p] /\ OnlyOf(p)
  BY <1>3, Shares
<1>7. HoldsItsLocks(p)'
  BY <1>2, <1>4, <1>5, <1>6 DEF HoldsItsLocks, At
<1>8. LocksGranted(p)
  BY <1>3, <1>4, <1>5, <1>6 DEF LocksGranted, AdminIInv, LocksExclude
<1>. QED  BY <1>1, <1>2, <1>3, <1>6, <1>7, <1>8, LockingRead

\* All steps about menus, roles and grants.
LEMMA AccessControlStepStep ==
  ASSUME NEW p \in Client, AdminIInv, AccessControlStep(p)
  PROVE  AdminIInv'
BY MenuStep, RemoveMenuStep, LockAssociationsStep, StoreRoleStep, StoreGrantsStep, RemoveRolesStep
   DEF AccessControlStep

-----------------------------------------------------------------------------
(* Accounts. *)

LEMMA AccountsBeginsStep ==
  ASSUME NEW p \in Client, AdminIInv, AccountsBegins(p)
  PROVE  AdminIInv'
<1>1. ASSUME NEW id, NEW department, NEW ids, SaveAccount(p, id, department, ids) PROVE AdminIInv'
  <2>. DEFINE form == [Form("save account", "associations") EXCEPT !.id = id,
                         !.parent = department, !.roles = ids]
  <2>1. IsForm(form) /\ form.step # "write"
    BY DEF Form, IsForm
  <2>2. Begins(p, form) /\ UNCHANGED adminVars
    BY <1>1 DEF SaveAccount
  <2>. HIDE DEF form
  <2>. QED  BY <2>1, <2>2, BeginStep
<1>2. ASSUME NEW id, DeleteAccounts(p, id) PROVE AdminIInv'
  <2>. DEFINE form == [Form("delete accounts", "write") EXCEPT !.id = id]
  <2>1. IsForm(form) /\ form.op \notin RelyingSteps
    BY DEF Form, IsForm, RelyingSteps
  <2>2. Begins(p, form) /\ UNCHANGED adminVars
    BY <1>2 DEF DeleteAccounts
  <2>. HIDE DEF form
  <2>. QED  BY <2>1, <2>2, BeginStep
<1>3. ASSUME NEW ids, Import(p, ids) PROVE AdminIInv'
  <2>. DEFINE form == [Form("import", "departments") EXCEPT !.roles = ids]
  <2>1. IsForm(form) /\ form.step # "write"
    BY DEF Form, IsForm
  <2>2. Begins(p, form) /\ UNCHANGED adminVars
    BY <1>3 DEF Import
  <2>. HIDE DEF form
  <2>. QED  BY <2>1, <2>2, BeginStep
<1>4. CASE Bootstrap(p)
  <2>. DEFINE form == [Form("bootstrap", "write") EXCEPT !.parent = 1]
  <2>1. IsForm(form) /\ form.op \notin RelyingSteps
    BY DEF Form, IsForm, RelyingSteps
  <2>2. Begins(p, form) /\ UNCHANGED adminVars
    BY <1>4 DEF Bootstrap
  <2>. HIDE DEF form
  <2>. QED  BY <2>1, <2>2, BeginStep
<1>. QED  BY <1>1, <1>2, <1>3, <1>4 DEF AccountsBegins

\* Saving an account locks its roles for reading.
LEMMA LockReferencesStep ==
  ASSUME NEW p \in Client, AdminIInv, LockReferences(p)
  PROVE  AdminIInv'
<1>. DEFINE rows == Rows("department", {request[p].parent} \ {0}) \cup Rows("role", request[p].roles)
            form == To(p, "write")
<1>1. Active(p) /\ request[p].op = "save account"
  BY IdleIs DEF LockReferences, At, Active
<1>2. IsForm(form) /\ form.op = "save account" /\ form.step = "write" /\ form.roles = request[p].roles
  BY <1>1, ToIsForm
<1>3. /\ request' = [request EXCEPT ![p] = form]
      /\ shared' = [shared EXCEPT ![p] = rows]
      /\ UNCHANGED <<tables, given, exclusive, imported>>
  BY DEF LockReferences, Reads
<1>4. /\ request[p].roles \subseteq roles /\ roles' = roles
      /\ \A q \in Client \ {p} : exclusive[q] \cap rows = {}
  BY DEF LockReferences, MayShare, tables
<1>5. Rows("role", request[p].roles) \subseteq rows /\ \A row \in rows : row[1] # "grants of menu"
  BY DEF Rows
<1>. HIDE DEF rows, form
<1>6. request'[p] = form /\ shared'[p] = rows /\ exclusive'[p] = exclusive[p] /\ OnlyOf(p)
  BY <1>3, Shares
<1>7. HoldsItsLocks(p)'
  BY <1>2, <1>4, <1>5, <1>6 DEF HoldsItsLocks, At
<1>8. LocksGranted(p)
  BY <1>3, <1>4, <1>5, <1>6 DEF LocksGranted, AdminIInv, LocksExclude
<1>. QED  BY <1>1, <1>2, <1>3, <1>6, <1>7, <1>8, LockingRead

\* An account is stored with roles that are locked, and so alive.
LEMMA StoreAccountStep ==
  ASSUME NEW p \in Client, AdminIInv, NEW account, StoreAccount(p, account)
  PROVE  AdminIInv'
<1>. DEFINE form == request[p]
<1>1. At(p, "save account", "write")
  BY DEF StoreAccount
<1>2. form.roles \subseteq roles
  BY <1>1 DEF AdminIInv, HoldsItsLocks
<1>3. /\ DOMAIN accounts' = DOMAIN accounts \cup {account}
      /\ assignments' = {held \in assignments : held[1] # account} \cup ({account} \X form.roles)
      /\ given' = given \cup {<<"account", account>>} /\ imported' = imported \ {account}
      /\ UNCHANGED <<menus, roles, menuGrants, departmentGrants>>
  BY DEF StoreAccount, Stored, WithoutRoles, HasRoles
<1>4. Commits(p) \/ ThenEndsSessions(p, account)
  BY DEF StoreAccount
<1>. HIDE DEF form
<1>5. KeepsShared(p)
  BY <1>3 DEF KeepsShared
<1>6. AssignmentsAreLive'
  BY <1>2, <1>3 DEF AdminIInv, ReferencesAreLive, AssignmentsAreLive
<1>7. GrantsAreLive'
  BY <1>3 DEF AdminIInv, ReferencesAreLive, GrantsAreLive
<1>8. \A a \in DOMAIN accounts' : <<"account", a>> \in given'
  BY <1>3 DEF AdminIInv
<1>. QED  BY <1>4, <1>5, <1>6, <1>7, <1>8, PlainCommit, AccountCommit DEF ReferencesAreLive

\* An account is deleted with its roles.
LEMMA RemoveAccountsStep ==
  ASSUME NEW p \in Client, AdminIInv, RemoveAccounts(p)
  PROVE  AdminIInv'
<1>. DEFINE id == request[p].id
<1>1. ThenEndsSessions(p, id)
  BY DEF RemoveAccounts
<1>2. /\ DOMAIN accounts' = DOMAIN accounts \ {id}
      /\ assignments' = {held \in assignments : held[1] # id}
      /\ UNCHANGED <<menus, roles, menuGrants, departmentGrants, given, imported>>
  BY DEF RemoveAccounts, WithoutRoles
<1>. HIDE DEF id
<1>3. KeepsShared(p)
  BY <1>2 DEF KeepsShared
<1>4. ReferencesAreLive'
  BY <1>2 DEF AdminIInv, ReferencesAreLive, AssignmentsAreLive, GrantsAreLive
<1>5. \A a \in DOMAIN accounts' : <<"account", a>> \in given'
  BY <1>2 DEF AdminIInv
<1>. QED  BY <1>1, <1>3, <1>4, <1>5, AccountCommit

(* The accounts of a file, and the first one.                                 *)
LEMMA AddAccountStep ==
  ASSUME NEW p \in Client, AdminIInv, NEW account, StoreImported(p, account) \/ StoreFirst(p, account)
  PROVE  AdminIInv'
<1>1. PICK ids : /\ assignments' = assignments \cup ({account} \X ids)
                 /\ imported' = imported \cup {account} \/ (imported' = imported /\ ids \subseteq roles)
  <2>1. CASE StoreImported(p, account)
    <3>1. assignments' = assignments \cup ({account} \X request[p].roles)
          /\ imported' = imported \cup {account}
      BY <2>1 DEF StoreImported, HasRoles
    <3>. QED  BY <3>1
  <2>2. CASE StoreFirst(p, account)
    <3>1. assignments' = assignments \cup ({account} \X {Root}) /\ imported' = imported
          /\ {Root} \subseteq roles
      BY <2>2 DEF StoreFirst, HasRoles
    <3>. QED  BY <3>1
  <2>. QED  BY <2>1, <2>2
<1>2. Commits(p)
  BY DEF StoreImported, StoreFirst
<1>3. /\ DOMAIN accounts' = DOMAIN accounts \cup {account}
      /\ given' = given \cup {<<"account", account>>}
      /\ UNCHANGED <<menus, roles, menuGrants, departmentGrants>>
  BY DEF StoreImported, StoreFirst, Stored
<1>4. KeepsShared(p)
  BY <1>3 DEF KeepsShared
<1>5. AssignmentsAreLive'
  BY <1>1, <1>3 DEF AdminIInv, ReferencesAreLive, AssignmentsAreLive
<1>6. GrantsAreLive'
  BY <1>3 DEF AdminIInv, ReferencesAreLive, GrantsAreLive
<1>7. \A a \in DOMAIN accounts' : <<"account", a>> \in given'
  BY <1>3 DEF AdminIInv
<1>. QED  BY <1>2, <1>4, <1>5, <1>6, <1>7, PlainCommit DEF ReferencesAreLive

\* All steps about accounts.
LEMMA AccountsStepStep ==
  ASSUME NEW p \in Client, AdminIInv, AccountsStep(p)
  PROVE  AdminIInv'
<1>1. ASSUME NEW department, ImportDepartments(p, department) PROVE AdminIInv'
  <2>. DEFINE form == [To(p, "write") EXCEPT !.parent = department]
  <2>1. Active(p) /\ request[p].op = "import"
    BY <1>1, IdleIs DEF ImportDepartments, At, Active
  <2>2. IsForm(form) /\ form.op = "import"
    BY <2>1, FormOf DEF To, IsForm, Form
  <2>3. Reads(p, form) /\ UNCHANGED adminVars
    BY <1>1 DEF ImportDepartments
  <2>4. "import" \notin RelyingSteps
    BY DEF RelyingSteps
  <2>. HIDE DEF form
  <2>. QED  BY <2>1, <2>2, <2>3, <2>4, ReadStep
<1>. QED  BY <1>1, LockReferencesStep, StoreAccountStep, RemoveAccountsStep, AddAccountStep
          DEF AccountsStep

-----------------------------------------------------------------------------
(* The end of sessions, and of requests. *)

LEMMA FindHoldersStep ==
  ASSUME NEW p \in Client, AdminIInv, FindHolders(p)
  PROVE  AdminIInv'
<1>. DEFINE form == [To(p, "end") EXCEPT !.accounts = Holders(request[p].id)]
<1>1. Active(p)
  BY IdleIs DEF FindHolders, At, Active
<1>2. IsForm(form) /\ form.step = "end"
  BY <1>1, FormOf DEF To, IsForm, Form
<1>3. Reads(p, form) /\ UNCHANGED adminVars
  BY DEF FindHolders
<1>. HIDE DEF form
<1>. QED  BY <1>2, <1>3, ReadStep

(* One account less to reach.                                                 *)
LEMMA EndSessionStep ==
  ASSUME NEW p \in Client, AdminIInv, NEW account, EndSession(p, account)
  PROVE  AdminIInv'
<1>. DEFINE form == [request[p] EXCEPT !.accounts = @ \ {account}]
<1>1. Active(p) /\ At(p, "end sessions", "end")
  BY IdleIs DEF EndSession, At, Active
<1>2. IsForm(form) /\ form.step = "end"
  BY <1>1, FormOf DEF IsForm, Form, At
<1>3. Reads(p, form) /\ UNCHANGED adminVars
  BY DEF EndSession
<1>. HIDE DEF form
<1>. QED  BY <1>2, <1>3, ReadStep

\* The loop over sessions has ended.
LEMMA SessionsEndedStep ==
  ASSUME NEW p \in Client, AdminIInv, SessionsEnded(p)
  PROVE  AdminIInv'
<1>1. request' = [request EXCEPT ![p] = Idle] /\ UNCHANGED adminVars
  BY DEF SessionsEnded, Ends
<1>2. request'[p] = Idle /\ request' = [request EXCEPT ![p] = request'[p]]
  BY <1>1, Becomes, InvParts
<1>3. UNCHANGED <<shared, exclusive>> /\ TablesStand
  BY <1>1 DEF adminVars, locks, tables, TablesStand
<1>4. OnlyOf(p)
  BY <1>2, <1>3 DEF OnlyOf, AdminIInv, IsPerClient
<1>5. HoldsItsLocks(p)' /\ IsForm(request'[p])
  BY <1>2, IdleIs DEF HoldsItsLocks, At, IsForm
<1>6. LocksGranted(p)
  BY <1>3 DEF LocksGranted, AdminIInv, LocksExclude
<1>. QED  BY <1>3, <1>4, <1>5, <1>6, QuietStep

(* A request that fails changes nothing but lets its locks go.                *)
LEMMA AdminFailsStep ==
  ASSUME NEW p \in Client, AdminIInv, AdminFails(p)
  PROVE  AdminIInv'
<1>1. Commits(p) /\ TablesStand
  BY DEF AdminFails, tables, TablesStand
<1>. QED  BY <1>1, QuietCommit

-----------------------------------------------------------------------------
(* Any tables whose references are live will do to begin with.                *)
LEMMA AdminStarts ==
  ASSUME AdminStart
  PROVE  AdminIInv
<1>1. PICK tree, forest, some, grants, views, people, held, bound :
        /\ AdminInit(tree, forest, some, grants, views, people, held) /\ RequestsInit(bound)
        /\ held \subseteq (DOMAIN people) \X some
        /\ grants \subseteq some \X (DOMAIN forest) /\ views \subseteq some \X Department
        /\ DOMAIN people \subseteq Account
  BY DEF AdminStart
<1>2. IsPerClient(request) /\ IsPerClient(shared) /\ IsPerClient(exclusive)
  BY <1>1 DEF IsPerClient, AdminInit, RequestsInit
<1>3. \A p \in Client : request[p] = Idle /\ shared[p] = {} /\ exclusive[p] = {}
  BY <1>1 DEF AdminInit, RequestsInit
<1>4. \A p \in Client : IsForm(request[p]) /\ HoldsItsLocks(p)
  BY <1>3, IdleIs DEF IsForm, HoldsItsLocks, At
<1>5. LocksExclude
  BY <1>3 DEF LocksExclude
<1>6. \A a \in DOMAIN accounts : <<"account", a>> \in given
  BY <1>1 DEF AdminInit, Rows
<1>7. ReferencesAreLive
  BY <1>1 DEF AdminInit, ReferencesAreLive, AssignmentsAreLive, GrantsAreLive
<1>. QED  BY <1>2, <1>4, <1>5, <1>6, <1>7 DEF AdminIInv

\* Every step, and none, keeps the invariant.
LEMMA AdminSteps ==
  ASSUME AdminIInv, [AdminNext]_<<adminVars, requestVars>>
  PROVE  AdminIInv'
<1>1. CASE AdminNext
  <2>1. PICK p \in Client :
          \/ OrganizationBegins(p) \/ AccessControlBegins(p) \/ AccountsBegins(p)
          \/ RequestStep(p)
    BY <1>1 DEF AdminNext
  <2>2. CASE OrganizationBegins(p) \/ AccessControlBegins(p) \/ AccountsBegins(p)
    BY <2>2, OrganizationBeginsStep, AccessControlBeginsStep, AccountsBeginsStep
  <2>3. CASE RequestStep(p)
    BY <2>3, OrganizationStepStep, AccessControlStepStep, AccountsStepStep, FindHoldersStep,
       EndSessionStep, SessionsEndedStep, AdminFailsStep DEF RequestStep
  <2>. QED  BY <2>1, <2>2, <2>3
<1>2. CASE UNCHANGED <<adminVars, requestVars>>
  <2>1. UNCHANGED <<request, shared, exclusive, menus, roles, menuGrants, departmentGrants,
                    accounts, assignments, given, imported>>
    BY <1>2 DEF adminVars, requestVars, tables, locks
  <2>2. \A p \in Client : HoldsItsLocks(p)'
    BY <2>1 DEF AdminIInv, HoldsItsLocks, At
  <2>. QED  BY <2>1, <2>2 DEF AdminIInv, IsPerClient, LocksExclude, ReferencesAreLive,
            AssignmentsAreLive, GrantsAreLive
<1>. QED  BY <1>1, <1>2

\* Whatever administrators do at once, and wherever they fail: locks exclude each other, and
\* what a write relies on is locked; so references stay live.
THEOREM AdminInvariant == AdminSpec => []AdminIInv
BY AdminStarts, AdminSteps, PTL DEF AdminSpec

(* However many requests of the three services run at once, in whatever order *)
(* their statements come, wherever one of them fails: a role that an account  *)
(* holds, a role that is granted something, and a menu that is granted, are   *)
(* live, unless the account came from a file.                                 *)
THEOREM ReferencesStayLive == AdminSpec => []ReferencesAreLive
BY AdminInvariant, PTL DEF AdminIInv
-----------------------------------------------------------------------------
(* The trees of departments and menus. *)

\* Some number of a set is the least; what is shown of all rows is shown by
\* looking at the shortest path that would refute it.
LEMMA LeastNumber ==
  ASSUME NEW T, T \subseteq Nat, T # {}
  PROVE  \E n \in T : \A m \in T : n <= m
<1>. DEFINE Less == OpToRel(<, Nat)
<1>1. IsWellFoundedOn(Less, Nat)
  BY NatLessThanWellFounded
<1>2. \A m, n \in Nat : <<m, n>> \in Less <=> m < n
  BY DEF OpToRel
<1>. HIDE DEF Less
<1>3. PICK n \in T : \A m \in T : ~(<<m, n>> \in Less)
  BY <1>1, WFMin
<1>4. \A m \in T : m \in Nat
  OBVIOUS
<1>5. \A m \in T : ~(m < n)
  BY <1>2, <1>3, <1>4, Zenon
<1>. QED  BY <1>4, <1>5

\* What a number at the end of a sequence adds to it.
LEMMA OneMore ==
  ASSUME NEW s \in Seq(Nat), NEW e \in Nat, NEW t, t = Append(s, e)
  PROVE  /\ t \in Seq(Nat) /\ Len(s) \in Nat /\ Len(t) = Len(s) + 1 /\ Len(t) \in Nat \ {0}
         /\ \A i \in 1..Len(s) : t[i] = s[i]
         /\ t[Len(t)] = e
<1>1. Len(s) \in Nat
  BY LenProperties
<1>2. t \in Seq(Nat) /\ Len(t) = Len(s) + 1 /\ (\A i \in 1..Len(s) : t[i] = s[i]) /\ t[Len(s) + 1] = e
  BY AppendProperties
<1>. QED  BY <1>1, <1>2

\* The numbers of a sequence from one place to another.
LEMMA Part ==
  ASSUME NEW s \in Seq(Nat), NEW m \in Nat \ {0}, NEW n \in Nat, n <= Len(s), m <= n + 1
  PROVE  /\ SubSeq(s, m, n) \in Seq(Nat) /\ Len(SubSeq(s, m, n)) = n + 1 - m
         /\ \A i \in 1..n + 1 - m : SubSeq(s, m, n)[i] = s[m + i - 1]
<1>1. Len(s) \in Nat /\ \A i \in m..n : s[i] \in Nat
  BY LenProperties, ElementOfSeq
<1>2. /\ SubSeq(s, m, n) \in Seq(Nat)
      /\ Len(SubSeq(s, m, n)) = IF m <= n THEN n - m + 1 ELSE 0
      /\ \A i \in 1..n - m + 1 : SubSeq(s, m, n)[i] = s[m + i - 1]
  BY <1>1, SubSeqProperties
<1>. QED  BY <1>2

\* Sequences that agree on their first numbers have the same first part.
LEMMA SamePart ==
  ASSUME NEW s \in Seq(Nat), NEW t \in Seq(Nat), NEW j \in Nat, j <= Len(s), j <= Len(t),
         \A i \in 1..j : s[i] = t[i]
  PROVE  SubSeq(s, 1, j) = SubSeq(t, 1, j)
<1>. DEFINE u == SubSeq(s, 1, j)
            v == SubSeq(t, 1, j)
<1>1. u \in Seq(Nat) /\ Len(u) = j /\ \A i \in 1..j : u[i] = s[i]
  BY Part
<1>2. v \in Seq(Nat) /\ Len(v) = j /\ \A i \in 1..j : v[i] = t[i]
  BY Part
<1>. HIDE DEF u, v
<1>3. u = v
  BY <1>1, <1>2, SeqEqual
<1>. QED  BY <1>3 DEF u, v

\* A row's path ends with its parent, and goes on from its parent's path.
LEMMA PathOfRow ==
  ASSUME NEW table, IsTable(table), IsExact(table), NEW row \in DOMAIN table
  PROVE  LET path == table[row].path
             parent == table[row].parent
         IN  /\ path \in Seq(Nat) /\ Len(path) \in Nat \ {0}
             /\ path[Len(path)] = parent
             /\ parent = 0 => path = <<0>> /\ Len(path) = 1
             /\ parent # 0 => /\ parent \in DOMAIN table
                              /\ path = Append(table[parent].path, parent)
                              /\ Len(path) = Len(table[parent].path) + 1
                              /\ Len(table[parent].path) \in Nat \ {0}
                              /\ \A i \in 1..Len(table[parent].path) : path[i] = table[parent].path[i]
<1>. DEFINE path == table[row].path
            parent == table[row].parent
<1>1. path \in Seq(Nat) /\ parent \in Nat /\ path = PathUnder(table, parent)
      /\ (parent # 0 => parent \in DOMAIN table)
  BY DEF IsTable, IsExact
<1>2. ASSUME NEW r \in DOMAIN table, table[r].parent # 0
      PROVE  LET q == table[r].parent
             IN  /\ q \in DOMAIN table /\ table[q].path \in Seq(Nat) /\ q \in Nat
                 /\ table[r].path = Append(table[q].path, q)
  BY <1>2 DEF PathUnder, IsTable, IsExact
<1>3. ASSUME NEW r \in DOMAIN table
      PROVE  Len(table[r].path) \in Nat \ {0}
  <2>1. CASE table[r].parent = 0
    <3>1. table[r].path = PathUnder(table, table[r].parent)
      BY DEF IsExact
    <3>2. table[r].path = <<0>>
      BY <2>1, <3>1 DEF PathUnder
    <3>. QED  BY <3>2
  <2>2. CASE table[r].parent # 0
    BY <2>2, <1>2, OneMore
  <2>. QED  BY <2>1, <2>2
<1>4. ASSUME parent = 0
      PROVE  path = <<0>> /\ Len(path) = 1 /\ path[Len(path)] = parent
  BY <1>1, <1>4 DEF PathUnder
<1>5. ASSUME parent # 0
      PROVE  /\ path = Append(table[parent].path, parent)
             /\ Len(path) = Len(table[parent].path) + 1
             /\ \A i \in 1..Len(table[parent].path) : path[i] = table[parent].path[i]
             /\ path[Len(path)] = parent
  <2>1. parent \in Nat /\ table[parent].path \in Seq(Nat) /\ path = Append(table[parent].path, parent)
    BY <1>5, <1>2
  <2>. HIDE DEF path, parent
  <2>. QED  BY <2>1, OneMore
<1>. QED  BY <1>1, <1>2, <1>3, <1>4, <1>5

\* The numbers of a path after the first are the live rows above its row, each
\* with the path that stands before it.
LEMMA AncestorsOfRow ==
  ASSUME NEW table, IsTable(table), IsExact(table), NEW row \in DOMAIN table
  PROVE  LET path == table[row].path
         IN  /\ path[1] = 0
             /\ \A i \in 2..Len(path) :
                  path[i] \in DOMAIN table /\ table[path[i]].path = SubSeq(path, 1, i - 1)
<1>. DEFINE path(r) == table[r].path
            parent(r) == table[r].parent
            Fine(r) == /\ path(r)[1] = 0
                       /\ \A i \in 2..Len(path(r)) :
                            path(r)[i] \in DOMAIN table /\ path(path(r)[i]) = SubSeq(path(r), 1, i - 1)
            Wrong == {r \in DOMAIN table : ~Fine(r)}
            T == {Len(path(r)) : r \in Wrong}
<1>1. SUFFICES ASSUME Wrong # {} PROVE FALSE
  OBVIOUS
<1>2. ASSUME NEW r \in DOMAIN table
      PROVE  /\ path(r) \in Seq(Nat) /\ Len(path(r)) \in Nat \ {0}
             /\ path(r)[Len(path(r))] = parent(r)
             /\ parent(r) = 0 => path(r) = <<0>> /\ Len(path(r)) = 1
             /\ parent(r) # 0 =>
                  /\ parent(r) \in DOMAIN table /\ Len(path(r)) = Len(path(parent(r))) + 1
                  /\ \A i \in 1..Len(path(parent(r))) : path(r)[i] = path(parent(r))[i]
  BY PathOfRow
<1>. HIDE DEF path, parent
<1>3. T \subseteq Nat /\ T # {}
  <2>. HIDE DEF Fine
  <2>1. \A r \in Wrong : Len(path(r)) \in Nat
    BY ONLY <1>2
  <2>. HIDE DEF Wrong
  <2>2. T \subseteq Nat
    BY ONLY <2>1
  <2>3. T # {}
    BY ONLY <1>1
  <2>. QED  BY ONLY <2>2, <2>3
<1>4. PICK n \in T : \A m \in T : n <= m
  BY <1>3, LeastNumber
<1>5. PICK r \in Wrong : n = Len(path(r))
  BY <1>4
<1>6. ASSUME NEW q \in DOMAIN table, Len(path(q)) < n PROVE Fine(q)
  <2>1. Len(path(q)) \in Nat /\ n \in Nat
    BY <1>2, <1>3
  <2>2. Len(path(q)) \notin T
    BY <1>4, <1>6, <2>1
  <2>. QED  BY <2>2
<1>7. parent(r) # 0
  <2>1. ASSUME parent(r) = 0 PROVE Fine(r)
    <3>1. path(r) = <<0>> /\ Len(path(r)) = 1
      BY <2>1, <1>5, <1>2
    <3>. QED  BY <3>1
  <2>. QED  BY <2>1, <1>5
<1>. DEFINE q == parent(r)
            s == path(r)
            above == path(q)
<1>8. /\ q \in DOMAIN table /\ Len(s) = Len(above) + 1 /\ Len(above) \in Nat \ {0}
      /\ \A i \in 1..Len(above) : s[i] = above[i]
      /\ s[Len(s)] = q /\ s \in Seq(Nat) /\ above \in Seq(Nat)
  BY <1>7, <1>5, <1>2
<1>9. Len(above) < n
  BY <1>8, <1>5
<1>10. Fine(q)
  BY <1>6, <1>8, <1>9
<1>11. /\ above[1] = 0
       /\ \A i \in 2..Len(above) :
            above[i] \in DOMAIN table /\ path(above[i]) = SubSeq(above, 1, i - 1)
  BY <1>10
<1>12. ~Fine(r)
  BY <1>5
<1>. HIDE DEF Fine, Wrong, T, q, s, above
<1>13. s[1] = 0
  BY <1>8, <1>11
<1>14. ASSUME NEW j \in 1..Len(above) PROVE SubSeq(s, 1, j) = SubSeq(above, 1, j)
  BY <1>8, SamePart
<1>15. ASSUME NEW i \in 2..Len(s)
       PROVE  s[i] \in DOMAIN table /\ path(s[i]) = SubSeq(s, 1, i - 1)
  <2>1. CASE i = Len(s)
    <3>1. i - 1 = Len(above) /\ Len(above) \in 1..Len(above) /\ s[i] = q
      BY <2>1, <1>8
    <3>2. SubSeq(s, 1, i - 1) = SubSeq(above, 1, Len(above))
      BY <1>14, <3>1
    <3>3. SubSeq(above, 1, Len(above)) = above
      BY <1>8, SubSeqFull
    <3>4. path(s[i]) = above
      BY <3>1 DEF above
    <3>. QED  BY <3>1, <3>2, <3>3, <3>4, <1>8
  <2>2. CASE i # Len(s)
    <3>0. Len(s) = Len(above) + 1 /\ Len(above) \in Nat \ {0}
      BY ONLY <1>8
    <3>a. i \in 2..Len(above) /\ i - 1 \in 1..Len(above)
      BY ONLY <3>0, <2>2, <1>15
    <3>b. i \in 1..Len(above)
      BY ONLY <3>0, <3>a
    <3>1. i \in 2..Len(above) /\ s[i] = above[i] /\ i - 1 \in 1..Len(above)
      BY ONLY <3>a, <3>b, <1>8
    <3>2. SubSeq(s, 1, i - 1) = SubSeq(above, 1, i - 1)
      BY <3>1, <1>14
    <3>. QED  BY <3>1, <3>2, <1>11
  <2>. QED  BY <2>1, <2>2
<1>. QED  BY <1>12, <1>13, <1>15 DEF Fine, s

\* No number is twice on a path, nor is the row itself.
LEMMA PathsAreDistinct ==
  ASSUME NEW table, IsTable(table), IsExact(table), NEW row \in DOMAIN table
  PROVE  /\ \A i, j \in 2..Len(table[row].path) :
              table[row].path[i] = table[row].path[j] => i = j
         /\ \A i \in 1..Len(table[row].path) : table[row].path[i] # row
         /\ \A i \in 2..Len(table[row].path) : table[row].path[i] # 0
<1>. DEFINE path == table[row].path
<1>1. path \in Seq(Nat) /\ Len(path) \in Nat /\ \A i \in 1..Len(path) : path[i] \in Nat
  BY PathOfRow, ElementOfSeq
<1>. DEFINE depth(r) == Len(table[r].path)
<1>2. ASSUME NEW i \in 2..Len(path) PROVE depth(path[i]) = i - 1
  <2>1. table[path[i]].path = SubSeq(path, 1, i - 1)
    BY AncestorsOfRow
  <2>2. i - 1 \in Nat /\ i - 1 <= Len(path)
    BY <1>1
  <2>3. Len(SubSeq(path, 1, i - 1)) = i - 1
    BY <2>2, <1>1, Part
  <2>. QED  BY <2>1, <2>3
<1>3. depth(row) = Len(path)
  OBVIOUS
<1>4. path[1] = 0 /\ row # 0 /\ \A i \in 2..Len(path) : path[i] # 0
  BY AncestorsOfRow DEF IsTable
<1>. HIDE DEF path, depth
<1>5. \A i, j \in 2..Len(path) : path[i] = path[j] => i = j
  BY <1>2, <1>1
<1>6. \A i \in 2..Len(path) : path[i] # row
  BY <1>2, <1>1, <1>3
<1>7. \A i \in 1..Len(path) : path[i] # row
  BY <1>4, <1>6, <1>1
<1>. QED  BY <1>4, <1>5, <1>7 DEF path

\* REPLACE where the text occurs only at the start, or again from the last digit
\* of that occurrence: the prefix is exchanged, and what follows it stays.
LEMMA ReplaceOnce ==
  ASSUME NEW path \in Seq(Nat), NEW old \in Seq(Nat), NEW new,
         Len(old) >= 2, Len(old) <= Len(path), path[Len(old)] = old[Len(old)],
         Occurs(path, old, 1),
         \A i \in 1..Len(path) : Occurs(path, old, i) => i = 1 \/ (i = 2 /\ Len(old) = 2)
  PROVE  Replace(path, old, new) =
           <<path[1]>> \o (Append(Inner(new), path[Len(old)])
                              \o SubSeq(path, Len(old) + 1, Len(path)))
<1>. DEFINE n == Len(old)
            D == 1..Len(path)
            start(i) == Append(Inner(new), path[i])
            After(text, j) == IF j = Len(path) THEN <<>> ELSE <<path[j + 1]>> \o text[j + 1]
            Body(text, i) == IF ~Occurs(path, old, i) THEN After(text, i)
                             ELSE start(i + n - 1)
                                    \o IF path[i + n - 1] = old[n] THEN After(text, i + n - 1)
                                       ELSE text[i + n - 1]
            IsText(text) == text = [i \in D |-> Body(text, i)]
            Rest(i) == SubSeq(path, i + 1, Len(path))
            result == [i \in D |-> IF Occurs(path, old, i) THEN start(i + n - 1) \o Rest(i + n - 1)
                                   ELSE Rest(i)]
<1>0. \A i \in 1..Len(path) : Occurs(path, old, i) => i = 1 \/ (i = 2 /\ Len(old) = 2)
  OBVIOUS
<1>1. Replace(path, old, new) = <<path[1]>> \o (CHOOSE text : IsText(text))[1]
  BY DEF Replace
<1>2. n \in Nat /\ Len(path) \in Nat /\ n \in D /\ n # 1 /\ 1 \in D
  BY LenProperties
<1>3. Rest(Len(path)) = <<>>
  BY <1>2, SubSeqEmpty
<1>4. ASSUME NEW i \in D, i # Len(path) PROVE Rest(i) = <<path[i + 1]>> \o Rest(i + 1)
  <2>1. i + 1 \in 1..Len(path) /\ Len(path) \in i + 1..Len(path)
    BY <1>2, <1>4
  <2>. QED  BY <2>1, SubSeqRecursiveFirst
<1>. HIDE DEF start, Rest
<1>5. IsText(result)
  <2>1. ASSUME NEW i \in D, i + 1 \in D => ~Occurs(path, old, i + 1)
        PROVE  After(result, i) = Rest(i)
    <3>1. i = Len(path) \/ i + 1 \in D
      BY <1>2
    <3>. QED  BY <1>3, <1>4, <2>1, <3>1
  <2>2. ASSUME NEW i \in D PROVE result[i] = Body(result, i)
    <3>1. CASE Occurs(path, old, i)
      <4>. DEFINE last == i + n - 1
      <4>1. last \in D
        BY <3>1, <1>2 DEF Occurs
      <4>2. last + 1 \in D => ~Occurs(path, old, last + 1)
        BY <3>1, <1>2
      <4>3. After(result, last) = Rest(last)
        BY <4>1, <4>2, <2>1
      <4>4. ASSUME path[last] # old[n] PROVE ~Occurs(path, old, last)
        <5>1. n \in Nat /\ n >= 2 /\ path[n] = old[n] /\ i \in Nat /\ i >= 1
          BY <1>2
        <5>2. last # n
          BY ONLY <5>1, <4>4
        <5>3. last > 2
          BY ONLY <5>1, <5>2
        <5>. QED  BY ONLY <1>0, <4>1, <5>3
      <4>5. ASSUME path[last] # old[n] PROVE result[last] = Rest(last)
        BY <4>5, <4>4, <4>1
      <4>6. result[i] = start(last) \o Rest(last)
        BY <3>1
      <4>7. Body(result, i) = start(last) \o IF path[last] = old[n] THEN After(result, last) ELSE result[last]
        BY <3>1
      <4>. HIDE DEF last, result, Body, After
      <4>. QED  BY <4>3, <4>5, <4>6, <4>7
    <3>2. CASE ~Occurs(path, old, i)
      <4>1. i # 1
        BY <3>2
      <4>2. i + 1 \in D => ~Occurs(path, old, i + 1)
        BY <4>1, <1>2
      <4>. QED  BY <3>2, <4>2, <2>1
    <3>. QED  BY <3>1, <3>2
  <2>. QED  BY <2>2
<1>6. PICK text : IsText(text) /\ (CHOOSE t : IsText(t)) = text
  BY <1>5
<1>7. \A i \in D : text[i] = Body(text, i)
  BY <1>6
<1>8. ASSUME NEW i \in D, i > n PROVE text[i] = After(text, i)
  <2>1. ~Occurs(path, old, i)
    BY <1>2, <1>8
  <2>. QED  BY <1>7, <2>1
<1>9. text[1] = start(n) \o After(text, n)
  <2>1. Occurs(path, old, 1) /\ 1 + n - 1 = n
    BY <1>2
  <2>2. text[1] = Body(text, 1)
    BY <1>7, <1>2
  <2>. QED  BY <2>1, <2>2
<1>10. ASSUME NEW i \in D, i > n PROVE text[i] = Rest(i)
  <2>. DEFINE Wrong == {j \in D : j > n /\ text[j] # Rest(j)}
              T == {Len(path) - j : j \in Wrong}
  <2>1. SUFFICES ASSUME Wrong # {} PROVE FALSE
    BY <1>10
  <2>2. T \subseteq Nat /\ T # {}
    <3>1. \A j \in Wrong : Len(path) - j \in Nat
      BY ONLY <1>2
    <3>. HIDE DEF Wrong
    <3>2. T \subseteq Nat
      BY ONLY <3>1
    <3>3. T # {}
      BY ONLY <2>1
    <3>. QED  BY ONLY <3>2, <3>3
  <2>3. PICK m \in T : \A k \in T : m <= k
    BY <2>2, LeastNumber
  <2>4. PICK j \in Wrong : m = Len(path) - j
    BY <2>3
  <2>5. j # Len(path)
    BY <2>4, <1>3, <1>8
  <2>6. j + 1 \in D /\ j + 1 > n
    <3>1. j \in D /\ j > n
      BY ONLY <2>4
    <3>. QED  BY ONLY <3>1, <2>5, <1>2
  <2>7. j + 1 \notin Wrong
    <3>1. SUFFICES ASSUME Len(path) - (j + 1) \in T PROVE FALSE
      BY <3>1
    <3>2. Len(path) - j <= Len(path) - (j + 1)
      BY <3>1, <2>3, <2>4
    <3>3. j \in Nat
      OBVIOUS
    <3>. QED  BY <3>2, <3>3, <1>2
  <2>8. text[j + 1] = Rest(j + 1)
    BY <2>6, <2>7
  <2>9. j \in D /\ j > n /\ text[j] # Rest(j)
    BY <2>4
  <2>10. text[j] = <<path[j + 1]>> \o Rest(j + 1)
    BY <2>9, <2>8, <2>5, <1>8
  <2>. QED  BY <2>9, <2>10, <2>5, <1>4
<1>11. After(text, n) = Rest(n)
  <2>1. CASE n = Len(path)
    BY <2>1, <1>3
  <2>2. CASE n # Len(path)
    <3>1. n + 1 \in D /\ n + 1 > n
      BY <2>2, <1>2
    <3>. QED  BY <3>1, <2>2, <1>10, <1>4, <1>2
  <2>. QED  BY <2>1, <2>2
<1>12. Replace(path, old, new) = <<path[1]>> \o text[1]
  BY <1>1, <1>6
<1>. QED  BY <1>12, <1>9, <1>11 DEF start, Rest

\* Three sequences one after the other.
LEMMA JoinedInTurn ==
  ASSUME NEW a \in Seq(Nat), NEW b \in Seq(Nat), NEW c \in Seq(Nat)
  PROVE  (a \o b) \o c = a \o (b \o c)
BY ConcatAssociative

\* A sequence of at least two numbers is its first, its inner and its last.
LEMMA InnerOf ==
  ASSUME NEW s \in Seq(Nat), Len(s) >= 2, NEW rest \in Seq(Nat)
  PROVE  <<s[1]>> \o (Append(Inner(s), s[Len(s)]) \o rest) = s \o rest
<1>. DEFINE n == Len(s)
            inner == SubSeq(s, 2, n - 1)
            body == Append(inner, s[n])
<1>1. n \in Nat /\ \A i \in 1..n : s[i] \in Nat
  BY LenProperties, ElementOfSeq
<1>2. inner \in Seq(Nat) /\ Len(inner) = n - 2 /\ \A i \in 1..n - 2 : inner[i] = s[i + 1]
  <2>. DEFINE m == n - 1
              two == 2
  <2>1. m \in Nat /\ m <= Len(s) /\ two \in Nat \ {0} /\ two <= m + 1
    BY <1>1
  <2>. HIDE DEF m, two
  <2>2. /\ SubSeq(s, two, m) \in Seq(Nat) /\ Len(SubSeq(s, two, m)) = m + 1 - two
        /\ \A i \in 1..m + 1 - two : SubSeq(s, two, m)[i] = s[two + i - 1]
    BY <2>1, Part
  <2>. QED  BY <2>2, <1>1 DEF m, two
<1>3. s[n] \in Nat /\ s[1] \in Nat
  BY <1>1
<1>. HIDE DEF inner
<1>4. /\ body \in Seq(Nat) /\ Len(body) = n - 1
      /\ (\A i \in 1..n - 2 : body[i] = s[i + 1]) /\ body[n - 1] = s[n]
  BY <1>1, <1>2, <1>3, OneMore
<1>. HIDE DEF body
<1>5. ASSUME NEW i \in 1..n - 1 PROVE body[i] = s[i + 1]
  <2>1. CASE i = n - 1
    BY ONLY <2>1, <1>1, <1>4
  <2>2. CASE i # n - 1
    <3>1. i \in 1..n - 2
      BY ONLY <2>2, <1>1, i \in 1..n - 1
    <3>. QED  BY ONLY <3>1, <1>4
  <2>. QED  BY <2>1, <2>2
<1>. DEFINE first == <<s[1]>>
            whole == first \o body
<1>6. first \in Seq(Nat) /\ Len(first) = 1 /\ first[1] = s[1]
  BY <1>3
<1>. HIDE DEF first
<1>7. /\ whole \in Seq(Nat) /\ Len(whole) = Len(first) + Len(body)
      /\ \A i \in 1..Len(first) + Len(body) :
           whole[i] = IF i <= Len(first) THEN first[i] ELSE body[i - Len(first)]
  <2>1. first \in Seq(Nat) /\ body \in Seq(Nat)
    BY <1>4, <1>6
  <2>. QED  BY <2>1, ConcatProperties
<1>9. (first \o body) \o rest = first \o (body \o rest)
  <2>1. first \in Seq(Nat) /\ body \in Seq(Nat)
    BY <1>4, <1>6
  <2>. QED  BY <2>1, JoinedInTurn
<1>. HIDE DEF whole
<1>8. Len(whole) = n /\ \A i \in 1..n : whole[i] = s[i]
  <2>1. Len(whole) = n /\ \A i \in 1..n : whole[i] = IF i <= 1 THEN first[i] ELSE body[i - 1]
    BY <1>1, <1>4, <1>6, <1>7
  <2>2. ASSUME NEW i \in 1..n, i # 1 PROVE whole[i] = s[i]
    <3>1. i - 1 \in 1..n - 1 /\ ~(i <= 1) /\ (i - 1) + 1 = i
      BY <2>2, <1>1
    <3>2. whole[i] = body[i - 1] /\ body[i - 1] = s[(i - 1) + 1]
      BY <3>1, <2>1, <1>5
    <3>. QED  BY <3>1, <3>2
  <2>3. whole[1] = s[1]
    BY <2>1, <1>1, <1>6
  <2>. QED  BY <2>1, <2>2, <2>3
<1>10. whole = s
  BY <1>7, <1>8, SeqEqual
<1>. QED  BY <1>9, <1>10 DEF whole, first, body, inner, Inner

\* A row below another has that row's path as the start of its own, and the text
\* of that start occurs nowhere else where REPLACE would take it.
LEMMA PrefixOfRow ==
  ASSUME NEW table, IsTable(table), IsExact(table), NEW row \in DOMAIN table,
         NEW id \in DOMAIN table, IsUnder(table[row].path, id),
         NEW old, old = PathUnder(table, id)
  PROVE  /\ old \in Seq(Nat) /\ Len(old) \in Nat /\ Len(old) >= 2
         /\ Len(old) <= Len(table[row].path)
         /\ old[Len(old)] = id /\ table[row].path[Len(old)] = id
         /\ \A i \in 1..Len(old) : old[i] = table[row].path[i]
<1>. DEFINE path == table[row].path
            start == table[id].path
<1>1. path \in Seq(Nat) /\ Len(path) \in Nat /\ id \in Nat \ {0} /\ start \in Seq(Nat)
      /\ Len(start) \in Nat \ {0}
  BY PathOfRow DEF IsTable
<1>2. PICK k \in 1..Len(path) : path[k] = id
  BY DEF IsUnder
<1>3. path[1] = 0
  BY AncestorsOfRow
<1>4. k \in 2..Len(path)
  BY <1>1, <1>2, <1>3
<1>5. start = SubSeq(path, 1, k - 1)
  BY <1>2, <1>4, AncestorsOfRow
<1>. HIDE DEF path, start
<1>6. Len(start) = k - 1 /\ \A i \in 1..k - 1 : start[i] = path[i]
  <2>. DEFINE j == k - 1
  <2>1. j \in Nat /\ j <= Len(path) /\ 1 <= j + 1
    BY <1>1, <1>4
  <2>. HIDE DEF j
  <2>2. Len(SubSeq(path, 1, j)) = j + 1 - 1 /\ \A i \in 1..j + 1 - 1 : SubSeq(path, 1, j)[i] = path[1 + i - 1]
    BY <2>1, <1>1, Part
  <2>3. \A i \in 1..j : 1 + i - 1 = i
    OBVIOUS
  <2>4. j + 1 - 1 = j
    BY <2>1
  <2>5. Len(SubSeq(path, 1, j)) = j /\ \A i \in 1..j : SubSeq(path, 1, j)[i] = path[i]
    BY <2>2, <2>3, <2>4
  <2>. QED  BY <2>5, <1>5 DEF j
<1>7. /\ old \in Seq(Nat) /\ Len(old) = k /\ old[Len(old)] = id
      /\ \A i \in 1..k - 1 : old[i] = start[i]
  <2>1. /\ old \in Seq(Nat) /\ Len(old) = Len(start) + 1 /\ old[Len(old)] = id
        /\ \A i \in 1..Len(start) : old[i] = start[i]
    <3>1. old = Append(start, id) /\ id \in Nat
      BY <1>1 DEF start, PathUnder
    <3>. QED  BY <3>1, <1>1, OneMore
  <2>. QED  BY <2>1, <1>6, <1>4
<1>8. \A i \in 1..k : old[i] = path[i]
  BY <1>6, <1>7, <1>2, <1>4
<1>9. k \in Nat /\ k >= 2 /\ k <= Len(path)
  BY <1>4
<1>. QED  BY <1>2, <1>7, <1>8, <1>9 DEF path

\* The numbers between the first and the last of a part.
LEMMA InnerOfPart ==
  ASSUME NEW s \in Seq(Nat), NEW i \in Nat \ {0}, NEW last \in Nat, last <= Len(s), i + 2 <= last
  PROVE  Inner(SubSeq(s, i, last))[1] = s[i + 1]
<1>. DEFINE part == SubSeq(s, i, last)
            m == Len(part) - 1
            two == 2
<1>1. /\ part \in Seq(Nat) /\ Len(part) = last + 1 - i
      /\ \A j \in 1..last + 1 - i : part[j] = s[i + j - 1]
  BY Part
<1>. HIDE DEF part
<1>2. Len(part) \in Nat /\ Len(part) >= 3
  BY <1>1
<1>7. m \in Nat /\ m <= Len(part) /\ two \in Nat \ {0} /\ two <= m + 1 /\ 1 \in 1..(m + 1 - two)
  BY <1>2
<1>8. two + 1 - 1 = 2
  OBVIOUS
<1>. HIDE DEF m, two
<1>3. SubSeq(part, two, m)[1] = part[two + 1 - 1]
  BY <1>1, <1>7, Part
<1>4. 2 \in 1..last + 1 - i /\ i + 2 - 1 = i + 1
  OBVIOUS
<1>5. part[2] = s[i + 1]
  BY <1>1, <1>4
<1>6. SubSeq(part, 2, Len(part) - 1)[1] = part[2]
  BY <1>3, <1>8 DEF m, two
<1>. QED  BY <1>5, <1>6 DEF part, Inner

\* So the text of a row's path occurs in that of a row below it at the start, and
\* once more at most: from the last digit of the 0, where the row is a top one.
LEMMA OccursOnlyAtStart ==
  ASSUME NEW table, IsTable(table), IsExact(table), NoDigitsMislead(table),
         NEW row \in DOMAIN table, NEW id \in DOMAIN table, IsUnder(table[row].path, id),
         NEW old, old = PathUnder(table, id)
  PROVE  /\ Occurs(table[row].path, old, 1)
         /\ \A i \in 1..Len(table[row].path) :
              Occurs(table[row].path, old, i) => i = 1 \/ (i = 2 /\ Len(old) = 2)
<1>. DEFINE path == table[row].path
            n == Len(old)
<1>1. /\ old \in Seq(Nat) /\ n \in Nat /\ n >= 2 /\ n <= Len(path) /\ old[n] = id /\ path[n] = id
      /\ \A i \in 1..n : old[i] = path[i]
      /\ path \in Seq(Nat) /\ Len(path) \in Nat /\ path[1] = 0
  <2>1. path \in Seq(Nat) /\ Len(path) \in Nat /\ path[1] = 0
    BY PathOfRow, AncestorsOfRow
  <2>2. /\ old \in Seq(Nat) /\ Len(old) \in Nat /\ Len(old) >= 2
        /\ Len(old) <= Len(table[row].path)
        /\ old[Len(old)] = id /\ table[row].path[Len(old)] = id
        /\ \A i \in 1..Len(old) : old[i] = table[row].path[i]
    BY ONLY PrefixOfRow, IsTable(table), IsExact(table), row \in DOMAIN table, id \in DOMAIN table,
            IsUnder(table[row].path, id), old = PathUnder(table, id)
  <2>. QED  BY <2>1, <2>2
<1>2. /\ \A i \in 2..Len(path) : path[i] # 0 /\ path[i] \in DOMAIN table
      /\ \A i \in 2..Len(path) : table[path[i]].path = SubSeq(path, 1, i - 1)
      /\ \A i, j \in 2..Len(path) : path[i] = path[j] => i = j
  BY AncestorsOfRow, PathsAreDistinct
<1>. HIDE DEF path
<1>3. SubSeq(old, 1, n) = old
  BY <1>1, SubSeqFull
<1>4. SubSeq(path, 1, n) = old
  <2>1. SubSeq(path, 1, n) = SubSeq(old, 1, n)
    BY <1>1, SamePart
  <2>. QED  BY <2>1, <1>3
<1>5. Occurs(path, old, 1)
  <2>1. 1 + n - 1 = n /\ 0 % 10 = 0
    BY <1>1
  <2>2. path[n] = id
    BY <1>1
  <2>3. BeginsWith(id, id)
    BY DEF BeginsWith
  <2>. QED  BY <2>1, <2>2, <2>3, <1>1, <1>4 DEF Occurs
<1>6. ASSUME NEW i \in 2..Len(path), Occurs(path, old, i), ~(i = 2 /\ n = 2)
      PROVE  FALSE
  <2>. DEFINE last == i + n - 1
  <2>1. /\ last \in Nat /\ last <= Len(path) /\ path[i] % 10 = 0
        /\ Inner(SubSeq(path, i, last)) = Inner(old) /\ BeginsWith(path[last], old[n])
    BY <1>1, <1>6 DEF Occurs
  <2>2. CASE n > 2
    <3>1. i \in Nat \ {0} /\ i + 2 <= last /\ i + 1 \in 2..Len(path) /\ 2 \in 2..Len(path)
      <4>1. i \in Nat /\ i >= 2 /\ i <= Len(path) /\ Len(path) \in Nat
        BY <1>1
      <4>2. n \in Nat /\ n >= 3 /\ i + n - 1 <= Len(path)
        BY <1>1, <2>1, <2>2
      <4>. HIDE DEF n
      <4>. QED  BY <4>1, <4>2
    <3>2. Inner(SubSeq(path, i, last))[1] = path[i + 1]
      BY <1>1, <2>1, <3>1, InnerOfPart
    <3>3. Inner(SubSeq(old, 1, n))[1] = old[1 + 1]
      <4>1. 1 \in Nat \ {0} /\ n \in Nat /\ n <= Len(old) /\ 1 + 2 <= n
        BY <1>1, <2>2
      <4>. QED  BY <1>1, <4>1, InnerOfPart
    <3>4. old[2] = path[2]
      BY <1>1
    <3>7. 1 + 1 = 2
      OBVIOUS
    <3>. HIDE DEF last
    <3>5. path[i + 1] = path[2]
      BY <2>1, <3>2, <3>3, <3>4, <1>3, <3>7
    <3>6. i + 1 = 2
      BY <3>1, <3>5, <1>2
    <3>. QED  BY <3>6
  <2>3. CASE n = 2
    <3>. DEFINE child == path[i + 1]
    <3>1. i > 2 /\ last = i + 1 /\ i \in Nat /\ i \in 2..Len(path) /\ i + 1 \in 2..Len(path)
          /\ 2 \in 2..Len(path) /\ i + 1 - 1 = i
      BY <1>1, <1>6, <2>1, <2>3
    <3>2. child \in DOMAIN table /\ table[child].path = SubSeq(path, 1, i)
      BY <1>2, <3>1
    <3>3. /\ Len(SubSeq(path, 1, i)) = i + 1 - 1
          /\ \A j \in 1..(i + 1 - 1) : SubSeq(path, 1, i)[j] = path[1 + j - 1]
      BY <1>1, <3>1, Part
    <3>4. Len(table[child].path) = i /\ table[child].path[i] = path[i] /\ table[child].path[2] = path[2]
      BY <3>1, <3>2, <3>3
    <3>5. table[child].parent = path[i]
      BY <3>2, <3>4, PathOfRow
    <3>6. path[i] # 0 /\ path[i] # path[2]
      BY <3>1, <1>2
    <3>7. path[2] = id
      BY <1>1, <2>3
    <3>8. ~BeginsWith(child, id)
      BY <3>2, <3>4, <3>5, <3>6, <3>7, <2>1 DEF NoDigitsMislead
    <3>. QED  BY <3>8, <3>1, <2>1, <1>1
  <2>4. n = 2 \/ n > 2
    <3>1. n \in Nat /\ n >= 2
      BY <1>1
    <3>. HIDE DEF n
    <3>. QED  BY <3>1
  <2>. QED  BY <2>2, <2>3, <2>4
<1>7. \A i \in 1..Len(path) : i = 1 \/ i \in 2..Len(path)
  BY <1>1
<1>8. \A i \in 1..Len(path) : Occurs(path, old, i) => i = 1 \/ (i = 2 /\ n = 2)
  BY <1>6, <1>7
<1>. QED  BY <1>5, <1>8 DEF path

\* What REPLACE makes of a path when the text is its prefix: the new one and,
\* after it, what stood after the old one.
LEMMA ReplacePrefix ==
  ASSUME NEW path \in Seq(Nat), NEW old \in Seq(Nat), NEW new \in Seq(Nat),
         Len(old) >= 2, Len(old) <= Len(path), path[Len(old)] = old[Len(old)],
         Len(new) >= 2, new[1] = path[1], new[Len(new)] = old[Len(old)],
         Occurs(path, old, 1),
         \A i \in 1..Len(path) : Occurs(path, old, i) => i = 1 \/ (i = 2 /\ Len(old) = 2)
  PROVE  Replace(path, old, new) = new \o SubSeq(path, Len(old) + 1, Len(path))
<1>. DEFINE n == Len(old)
            rest == SubSeq(path, n + 1, Len(path))
<1>1. Replace(path, old, new) = <<path[1]>> \o (Append(Inner(new), path[n]) \o rest)
  BY ReplaceOnce
<1>2. rest \in Seq(Nat)
  <2>. DEFINE m == n + 1
              l == Len(path)
  <2>1. m \in Nat \ {0} /\ m <= l + 1 /\ l \in Nat /\ l <= Len(path)
    <3>1. l \in Nat /\ n \in Nat
      BY LenProperties
    <3>2. n <= l
      OBVIOUS
    <3>. QED  BY ONLY <3>1, <3>2
  <2>. HIDE DEF m, l
  <2>2. SubSeq(path, m, l) \in Seq(Nat)
    BY <2>1, Part
  <2>. QED  BY <2>2 DEF m, l
<1>. HIDE DEF rest
<1>3. <<new[1]>> \o (Append(Inner(new), new[Len(new)]) \o rest) = new \o rest
  BY <1>2, InnerOf
<1>. QED  BY <1>1, <1>3 DEF rest

\* A number added to a sequence is added to each of its last parts.
LEMMA LastPart ==
  ASSUME NEW s \in Seq(Nat), NEW e \in Nat, NEW t, t = Append(s, e), NEW m \in Nat \ {0}, m <= Len(s) + 1
  PROVE  SubSeq(t, m, Len(t)) = Append(SubSeq(s, m, Len(s)), e)
<1>. DEFINE l == Len(s)
            k == Len(t)
            u == SubSeq(t, m, k)
            v == SubSeq(s, m, l)
            w == Append(v, e)
<1>1. /\ t \in Seq(Nat) /\ l \in Nat /\ k = l + 1 /\ k \in Nat \ {0} /\ t[k] = e
      /\ \A i \in 1..l : t[i] = s[i]
  BY OneMore
<1>2. l <= Len(s) /\ k <= Len(t) /\ m <= l + 1 /\ m <= k + 1
  BY <1>1
<1>. HIDE DEF l, k
<1>0. m \in Nat \ {0}
  OBVIOUS
<1>3. u \in Seq(Nat) /\ Len(u) = k + 1 - m /\ \A i \in 1..k + 1 - m : u[i] = t[m + i - 1]
  <2>1. t \in Seq(Nat) /\ k \in Nat /\ k <= Len(t) /\ m <= k + 1
    BY ONLY <1>1, <1>2
  <2>2. /\ SubSeq(t, m, k) \in Seq(Nat) /\ Len(SubSeq(t, m, k)) = k + 1 - m
        /\ \A i \in 1..k + 1 - m : SubSeq(t, m, k)[i] = t[m + i - 1]
    BY ONLY <1>0, <2>1, Part
  <2>. QED  BY ONLY <2>2
<1>4. v \in Seq(Nat) /\ Len(v) = l + 1 - m /\ \A i \in 1..l + 1 - m : v[i] = s[m + i - 1]
  <2>1. s \in Seq(Nat) /\ l \in Nat /\ l <= Len(s) /\ m <= l + 1
    BY <1>1, <1>2
  <2>2. /\ SubSeq(s, m, l) \in Seq(Nat) /\ Len(SubSeq(s, m, l)) = l + 1 - m
        /\ \A i \in 1..l + 1 - m : SubSeq(s, m, l)[i] = s[m + i - 1]
    BY ONLY <1>0, <2>1, Part
  <2>. QED  BY ONLY <2>2
<1>. HIDE DEF u, v
<1>5. w \in Seq(Nat) /\ Len(w) = Len(v) + 1 /\ w[Len(w)] = e /\ \A i \in 1..Len(v) : w[i] = v[i]
  BY <1>4, OneMore
<1>. HIDE DEF w
<1>6. ASSUME NEW i \in 1..Len(u) PROVE u[i] = w[i]
  <2>1. CASE i = Len(u)
    <3>1. i \in 1..k + 1 - m /\ m + i - 1 = k /\ i = Len(w)
      BY <2>1, <1>1, <1>3, <1>4, <1>5
    <3>. QED  BY <3>1, <1>1, <1>3, <1>5
  <2>2. CASE i # Len(u)
    <3>1. i \in 1..k + 1 - m /\ i \in 1..l + 1 - m /\ m + i - 1 \in 1..l
      BY <2>2, <1>1, <1>3
    <3>2. u[i] = t[m + i - 1] /\ t[m + i - 1] = s[m + i - 1] /\ v[i] = s[m + i - 1]
      BY <3>1, <1>1, <1>3, <1>4
    <3>3. w[i] = v[i]
      BY <3>1, <1>4, <1>5
    <3>. QED  BY <3>2, <3>3
  <2>. QED  BY <2>1, <2>2
<1>7. Len(u) = Len(w)
  BY <1>1, <1>3, <1>4, <1>5
<1>8. u = w
  BY <1>3, <1>5, <1>6, <1>7, SeqEqual
<1>. QED  BY <1>8 DEF u, v, w, l, k

\* Adding a number to the second of two sequences adds it to both together.
LEMMA AppendJoins ==
  ASSUME NEW a \in Seq(Nat), NEW b \in Seq(Nat), NEW e \in Nat
  PROVE  a \o Append(b, e) = Append(a \o b, e)
<1>. DEFINE one == <<e>>
<1>1. one \in Seq(Nat)
  OBVIOUS
<1>. HIDE DEF one
<1>2. (a \o b) \o one = a \o (b \o one)
  BY <1>1, JoinedInTurn
<1>3. a \o b \in Seq(Nat)
  BY ConcatProperties
<1>4. Append(b, e) = b \o one
  BY AppendIsConcat DEF one
<1>5. Append(a \o b, e) = (a \o b) \o one
  BY <1>3, AppendIsConcat DEF one
<1>. QED  BY <1>2, <1>4, <1>5

\* A path made under a row is a sequence that starts with 0 and ends with the row.
LEMMA PathUnderRow ==
  ASSUME NEW table, IsTable(table), IsExact(table), NEW parent \in Nat,
         parent # 0 => parent \in DOMAIN table
  PROVE  /\ PathUnder(table, parent) \in Seq(Nat) /\ Len(PathUnder(table, parent)) \in Nat \ {0}
         /\ PathUnder(table, parent)[1] = 0
         /\ PathUnder(table, parent)[Len(PathUnder(table, parent))] = parent
         /\ \A id \in Nat \ {0} :
              IsUnder(PathUnder(table, parent), id) <=>
                parent # 0 /\ (id = parent \/ IsUnder(table[parent].path, id))
<1>. DEFINE path == PathUnder(table, parent)
<1>1. CASE parent = 0
  <2>1. path = <<0>>
    BY <1>1 DEF PathUnder
  <2>. HIDE DEF path
  <2>2. Len(path) = 1 /\ path[1] = 0 /\ path \in Seq(Nat)
    BY <2>1
  <2>3. path \in Seq(Nat) /\ Len(path) \in Nat \ {0} /\ path[1] = 0 /\ path[Len(path)] = parent
    BY <2>2, <1>1
  <2>4. \A id \in Nat \ {0} : ~IsUnder(path, id)
    BY <2>2 DEF IsUnder
  <2>. QED  BY <2>3, <2>4, <1>1 DEF path
<1>2. CASE parent # 0
  <2>. DEFINE s == table[parent].path
  <2>1. path = Append(s, parent) /\ s \in Seq(Nat) /\ Len(s) \in Nat \ {0} /\ s[1] = 0
    BY <1>2, PathOfRow, AncestorsOfRow DEF PathUnder
  <2>. HIDE DEF path, s
  <2>2. /\ path \in Seq(Nat) /\ Len(path) = Len(s) + 1 /\ Len(path) \in Nat \ {0}
        /\ \A i \in 1..Len(s) : path[i] = s[i]
        /\ path[Len(path)] = parent
    BY <2>1, OneMore
  <2>3. path[1] = 0
    BY <2>1, <2>2
  <2>4. ASSUME NEW id PROVE IsUnder(path, id) <=> id = parent \/ IsUnder(s, id)
    <3>1. ASSUME NEW i \in 1..Len(path), path[i] = id PROVE id = parent \/ IsUnder(s, id)
      <4>1. i = Len(path) \/ i \in 1..Len(s)
        BY <2>1, <2>2
      <4>. QED  BY <4>1, <3>1, <2>2 DEF IsUnder
    <3>2. ASSUME NEW i \in 1..Len(s), s[i] = id PROVE IsUnder(path, id)
      <4>1. i \in 1..Len(path) /\ path[i] = id
        BY <3>2, <2>1, <2>2
      <4>. QED  BY <4>1 DEF IsUnder
    <3>3. ASSUME id = parent PROVE IsUnder(path, id)
      <4>1. Len(path) \in 1..Len(path)
        BY <2>2
      <4>. QED  BY <4>1, <3>3, <2>2 DEF IsUnder
    <3>. QED  BY <3>1, <3>2, <3>3 DEF IsUnder
  <2>. QED  BY <2>2, <2>3, <2>4, <1>2 DEF path, s
<1>. QED  BY <1>1, <1>2

\* A move keeps the tree exact: the row goes under a live one that is not below
\* it, and every row that is below it follows, as long as no digits mislead.
LEMMA MoveIsExact ==
  ASSUME NEW table, IsTable(table), IsExact(table), NoDigitsMislead(table),
         NEW id \in DOMAIN table, NEW parent \in Nat, parent # id,
         parent # 0 => parent \in DOMAIN table, ~IsDescendant(table, parent, id),
         NEW after,
         after = UpdateTree(table, id, parent, PathUnder(table, parent), table[id].path)
  PROVE  IsTable(after) /\ IsExact(after) /\ DOMAIN after = DOMAIN table
<1>. DEFINE newPath == PathUnder(table, parent)
            old == PathUnder(table, id)
            new == Append(newPath, id)
            n == Len(old)
            path(r) == table[r].path
            Rest(r) == SubSeq(path(r), n + 1, Len(path(r)))
            Path(r) == IF r = id THEN newPath
                       ELSE IF IsUnder(path(r), id) THEN new \o Rest(r) ELSE path(r)
            Parent(r) == IF r = id THEN parent ELSE table[r].parent
<1>1. id \in Nat \ {0} /\ old = Append(table[id].path, id)
  BY DEF IsTable, PathUnder
<1>2. /\ newPath \in Seq(Nat) /\ Len(newPath) \in Nat \ {0} /\ newPath[1] = 0
      /\ ~IsUnder(newPath, id)
  <2>1. IsUnder(newPath, id) => parent # 0 /\ (id = parent \/ IsUnder(table[parent].path, id))
    BY PathUnderRow, <1>1
  <2>2. ~IsUnder(newPath, id)
    BY <2>1 DEF IsDescendant
  <2>. QED  BY <2>2, PathUnderRow
<1>. HIDE DEF newPath
<1>3. new \in Seq(Nat) /\ Len(new) >= 2 /\ new[1] = 0 /\ new[Len(new)] = id
  BY <1>1, <1>2, OneMore
<1>. HIDE DEF old, new, n
<1>4. ASSUME NEW r \in DOMAIN table, IsUnder(path(r), id)
      PROVE  /\ old \in Seq(Nat) /\ n \in Nat /\ n >= 2 /\ n <= Len(path(r)) /\ old[n] = id
             /\ path(r)[n] = id /\ path(r) \in Seq(Nat) /\ path(r)[1] = 0 /\ Len(path(r)) \in Nat
  <2>1. path(r) \in Seq(Nat) /\ path(r)[1] = 0 /\ Len(path(r)) \in Nat
    BY PathOfRow, AncestorsOfRow
  <2>2. /\ old \in Seq(Nat) /\ Len(old) \in Nat /\ Len(old) >= 2
        /\ Len(old) <= Len(table[r].path)
        /\ old[Len(old)] = id /\ table[r].path[Len(old)] = id
    BY <1>4, PrefixOfRow DEF old
  <2>. QED  BY <2>1, <2>2 DEF n
<1>5. ASSUME NEW r \in DOMAIN table, IsUnder(path(r), id)
      PROVE  Replace(path(r), old, new) = new \o Rest(r)
  <2>1. /\ Occurs(path(r), old, 1)
        /\ \A i \in 1..Len(path(r)) : Occurs(path(r), old, i) => i = 1 \/ (i = 2 /\ Len(old) = 2)
    BY <1>5, OccursOnlyAtStart DEF old
  <2>2. /\ path(r) \in Seq(Nat) /\ old \in Seq(Nat) /\ Len(old) >= 2 /\ Len(old) <= Len(path(r))
        /\ path(r)[Len(old)] = old[Len(old)] /\ new[1] = path(r)[1] /\ new[Len(new)] = old[Len(old)]
    BY <1>4, <1>5, <1>3 DEF n
  <2>. HIDE DEF path
  <2>3. Replace(path(r), old, new) = new \o SubSeq(path(r), Len(old) + 1, Len(path(r)))
    BY <2>1, <2>2, <1>3, ReplacePrefix
  <2>. QED  BY <2>3 DEF n
<1>6. after = [r \in DOMAIN table |-> [parent |-> Parent(r), path |-> Path(r)]]
  <2>. DEFINE moved == [table EXCEPT ![id] = [parent |-> parent, path |-> newPath]]
              Row(r) == IF IsUnder(moved[r].path, id)
                          THEN [moved[r] EXCEPT !.path = Replace(@, old, new)]
                          ELSE moved[r]
  <2>1. after = [r \in DOMAIN moved |-> Row(r)]
    BY <1>1 DEF UpdateTree, newPath, new
  <2>2. DOMAIN moved = DOMAIN table
    OBVIOUS
  <2>3. ASSUME NEW r \in DOMAIN table PROVE Row(r) = [parent |-> Parent(r), path |-> Path(r)]
    <3>1. CASE r = id
      <4>1. moved[r] = [parent |-> parent, path |-> newPath]
        BY <3>1
      <4>. QED  BY <4>1, <3>1, <1>2
    <3>2. CASE r # id
      <4>1. moved[r] = table[r] /\ table[r] = [parent |-> table[r].parent, path |-> path(r)]
        BY <3>2 DEF IsTable
      <4>2. CASE IsUnder(path(r), id)
        <5>1. Row(r) = [table[r] EXCEPT !.path = new \o Rest(r)]
          BY <4>1, <4>2, <1>5
        <5>2. Row(r) = [parent |-> table[r].parent, path |-> new \o Rest(r)]
          BY <4>1, <5>1
        <5>. QED  BY <5>2, <4>2, <3>2
      <4>3. CASE ~IsUnder(path(r), id)
        BY <4>1, <4>3, <3>2
      <4>. QED  BY <4>2, <4>3
    <3>. QED  BY <3>1, <3>2
  <2>. HIDE DEF moved, Row, Parent, Path
  <2>. QED  BY <2>1, <2>2, <2>3
<1>7. ASSUME NEW r \in DOMAIN table, IsUnder(path(r), id)
      PROVE  Rest(r) \in Seq(Nat) /\ new \o Rest(r) \in Seq(Nat)
  <2>. DEFINE m == n + 1
              l == Len(path(r))
  <2>1. m \in Nat \ {0} /\ m <= l + 1 /\ l \in Nat /\ l <= Len(path(r)) /\ path(r) \in Seq(Nat)
    BY <1>4, <1>7
  <2>. HIDE DEF m, l, path
  <2>2. SubSeq(path(r), m, l) \in Seq(Nat)
    BY <2>1, Part
  <2>3. Rest(r) \in Seq(Nat)
    BY <2>2 DEF m, l
  <2>. QED  BY <2>3, <1>3, ConcatProperties
<1>8. ASSUME NEW r \in DOMAIN table PROVE Parent(r) \in Nat /\ Path(r) \in Seq(Nat)
  BY <1>2, <1>7 DEF IsTable
<1>9. IsTable(after) /\ DOMAIN after = DOMAIN table
  <2>1. \A r \in DOMAIN table : r \in Nat \ {0}
    BY DEF IsTable
  <2>. HIDE DEF Parent, Path
  <2>. QED  BY <1>6, <1>8, <2>1 DEF IsTable
<1>10. ASSUME NEW r \in DOMAIN table
       PROVE  /\ Parent(r) # 0 => Parent(r) \in DOMAIN table
              /\ Path(r) = IF Parent(r) = 0 THEN <<0>> ELSE Append(Path(Parent(r)), Parent(r))
  <2>. DEFINE q == table[r].parent
  <2>1. CASE r = id
    <3>1. Parent(r) = parent /\ Path(r) = newPath
      BY <2>1
    <3>2. ASSUME parent # 0 PROVE Path(parent) = table[parent].path
      BY <3>2 DEF IsDescendant
    <3>. QED  BY <3>1, <3>2 DEF newPath, PathUnder
  <2>2. CASE r # id /\ q = 0
    <3>1. path(r) = <<0>>
      BY <2>2, PathOfRow
    <3>2. ~IsUnder(path(r), id)
      <4>1. path(r)[1] = 0 /\ Len(path(r)) = 1
        BY <3>1
      <4>. QED  BY <4>1, <1>1 DEF IsUnder
    <3>. QED  BY <2>2, <3>1, <3>2
  <2>3. CASE r # id /\ q = id
    <3>1. path(r) = old
      BY <2>3, <1>1, PathOfRow
    <3>2. IsUnder(path(r), id)
      <4>1. path(r) = PathUnder(table, id) /\ id # 0
        BY <3>1, <1>1 DEF old
      <4>. QED  BY <4>1, <1>1, PathUnderRow
    <3>3. Rest(r) = <<>>
      <4>1. n + 1 \in Int /\ n \in Int /\ n < n + 1
        BY <1>4, <3>2
      <4>2. Rest(r) = SubSeq(path(r), n + 1, n)
        BY <3>1 DEF n
      <4>. QED  BY <4>1, <4>2, SubSeqEmpty
    <3>4. new \o Rest(r) = new
      BY <3>3, <1>3, ConcatEmptySeq
    <3>5. Path(r) = new /\ Parent(r) = id /\ Path(id) = newPath
      BY ONLY <2>3, <3>2, <3>4
    <3>. HIDE DEF Path, Parent
    <3>. QED  BY ONLY <3>5, <1>1 DEF new
  <2>4. CASE r # id /\ q # id /\ q # 0
    <3>1. q \in DOMAIN table /\ path(r) = Append(path(q), q) /\ path(q) \in Seq(Nat) /\ q \in Nat
      <4>1. q \in DOMAIN table /\ path(r) = Append(path(q), q)
        BY <2>4, PathOfRow
      <4>. HIDE DEF q
      <4>2. path(q) \in Seq(Nat) /\ q \in Nat
        BY <4>1 DEF IsTable
      <4>. QED  BY ONLY <4>1, <4>2
    <3>2. IsUnder(path(r), id) <=> IsUnder(path(q), id)
      <4>1. path(r) = PathUnder(table, q)
        BY <3>1, <2>4 DEF PathUnder
      <4>2. IsUnder(PathUnder(table, q), id) <=> q # 0 /\ (id = q \/ IsUnder(table[q].path, id))
        <5>1. q \in Nat /\ (q # 0 => q \in DOMAIN table)
          BY <3>1
        <5>. HIDE DEF q
        <5>2. \A x \in Nat \ {0} :
                IsUnder(PathUnder(table, q), x) <=> q # 0 /\ (x = q \/ IsUnder(table[q].path, x))
          BY <5>1, PathUnderRow
        <5>. QED  BY <5>2, <1>1
      <4>. QED  BY <4>1, <4>2, <2>4
    <3>3. CASE ~IsUnder(path(r), id)
      BY <2>4, <3>1, <3>2, <3>3
    <3>4. CASE IsUnder(path(r), id)
      <4>. DEFINE m == n + 1
      <4>1. m \in Nat \ {0} /\ m <= Len(path(q)) + 1
        <5>1. q \in DOMAIN table /\ IsUnder(path(q), id)
          BY ONLY <3>1, <3>2, <3>4
        <5>. HIDE DEF q
        <5>2. n \in Nat /\ n <= Len(path(q)) /\ Len(path(q)) \in Nat
          BY ONLY <5>1, <1>4
        <5>. QED  BY ONLY <5>2
      <4>6. Rest(q) \in Seq(Nat)
        BY <3>1, <3>2, <3>4, <1>7
      <4>. HIDE DEF m, path
      <4>2. SubSeq(path(r), m, Len(path(r))) = Append(SubSeq(path(q), m, Len(path(q))), q)
        BY <4>1, <3>1, LastPart
      <4>3. Rest(r) = Append(Rest(q), q)
        BY <4>2 DEF m
      <4>. HIDE DEF Rest
      <4>4. new \o Rest(r) = Append(new \o Rest(q), q)
        <5>1. new \in Seq(Nat) /\ q \in Nat
          BY ONLY <1>3, <3>1
        <5>. HIDE DEF q
        <5>2. new \o Append(Rest(q), q) = Append(new \o Rest(q), q)
          BY ONLY <5>1, <4>6, AppendJoins
        <5>. QED  BY ONLY <5>2, <4>3
      <4>5. Path(r) = new \o Rest(r) /\ Path(q) = new \o Rest(q) /\ Parent(r) = q
        BY <2>4, <3>2, <3>4
      <4>. QED  BY <4>4, <4>5, <3>1, <2>4
    <3>. QED  BY <3>3, <3>4
  <2>. QED  BY <2>1, <2>2, <2>3, <2>4
<1>11. IsExact(after)
  <2>. HIDE DEF Parent, Path
  <2>1. \A r \in DOMAIN table : after[r].parent = Parent(r) /\ after[r].path = Path(r)
    BY <1>6
  <2>2. ASSUME NEW r \in DOMAIN after
        PROVE  /\ after[r].parent # 0 => after[r].parent \in DOMAIN after
               /\ after[r].path = PathUnder(after, after[r].parent)
    <3>1. r \in DOMAIN table /\ after[r].parent = Parent(r) /\ after[r].path = Path(r)
      BY <1>9, <2>1
    <3>2. CASE Parent(r) = 0
      BY <3>1, <3>2, <1>10 DEF PathUnder
    <3>3. CASE Parent(r) # 0
      <4>1. Parent(r) \in DOMAIN table /\ Path(r) = Append(Path(Parent(r)), Parent(r))
        BY <3>1, <3>3, <1>10
      <4>2. after[Parent(r)].path = Path(Parent(r))
        BY <4>1, <2>1
      <4>. QED  BY <3>1, <3>3, <4>1, <4>2, <1>9 DEF PathUnder
    <3>. QED  BY <3>2, <3>3
  <2>. QED  BY <2>2 DEF IsExact
<1>. QED  BY <1>9, <1>11

\* A new row under a live one, or at the top, keeps the tree exact.
LEMMA InsertIsExact ==
  ASSUME NEW table, IsTable(table), IsExact(table), NEW id \in Nat \ {0}, id \notin DOMAIN table,
         NEW parent \in Nat, parent # 0 => parent \in DOMAIN table,
         NEW path, path = PathUnder(table, parent),
         NEW after, after = [row \in DOMAIN table \cup {id} |->
                               IF row = id THEN [parent |-> parent, path |-> path] ELSE table[row]]
  PROVE  IsTable(after) /\ IsExact(after) /\ DOMAIN after = DOMAIN table \cup {id}
<1>1. path \in Seq(Nat)
  BY PathUnderRow
<1>2. \A row \in DOMAIN table : after[row] = table[row] /\ row # id
  OBVIOUS
<1>3. after[id] = [parent |-> parent, path |-> path] /\ DOMAIN after = DOMAIN table \cup {id}
  OBVIOUS
<1>4. IsTable(after)
  <2>1. ASSUME NEW row \in DOMAIN after
        PROVE  /\ after[row] = [parent |-> after[row].parent, path |-> after[row].path]
               /\ row \in Nat \ {0} /\ after[row].parent \in Nat /\ after[row].path \in Seq(Nat)
    <3>1. CASE row = id
      BY <3>1, <1>1, <1>3
    <3>2. CASE row \in DOMAIN table
      BY <3>2, <1>2 DEF IsTable
    <3>. QED  BY <3>1, <3>2, <1>3
  <2>2. IsFiniteSet(DOMAIN after)
    BY <1>3, FS_AddElement DEF IsTable
  <2>3. after = [row \in DOMAIN after |-> after[row]]
    BY ONLY after = [row \in DOMAIN table \cup {id} |->
                       IF row = id THEN [parent |-> parent, path |-> path] ELSE table[row]]
  <2>4. after = [row \in DOMAIN after |-> [parent |-> after[row].parent, path |-> after[row].path]]
    BY ONLY <2>1, <2>3
  <2>. QED  BY ONLY <2>1, <2>2, <2>4 DEF IsTable
<1>5. ASSUME NEW row \in DOMAIN after
      PROVE  /\ after[row].parent # 0 => after[row].parent \in DOMAIN after
             /\ after[row].path = PathUnder(after, after[row].parent)
  <2>1. CASE row = id
    BY <2>1, <1>2, <1>3 DEF PathUnder
  <2>2. CASE row \in DOMAIN table
    <3>. DEFINE q == table[row].parent
    <3>1. after[row].parent = q /\ after[row].path = PathUnder(table, q) /\ (q # 0 => q \in DOMAIN table)
      BY <2>2, <1>2 DEF IsExact
    <3>2. PathUnder(table, q) = PathUnder(after, q)
      BY <3>1, <1>2 DEF PathUnder
    <3>. QED  BY <3>1, <3>2, <1>3
  <2>. QED  BY <2>1, <2>2, <1>3
<1>. QED  BY <1>3, <1>4, <1>5 DEF IsExact

\* So does the removal of a row that is nobody's parent.
LEMMA RemoveIsExact ==
  ASSUME NEW table, IsTable(table), IsExact(table), NEW id, ~HasChildren(table, id),
         NEW after, after = [row \in DOMAIN table \ {id} |-> table[row]]
  PROVE  IsTable(after) /\ IsExact(after) /\ DOMAIN after = DOMAIN table \ {id}
<1>1. DOMAIN after = DOMAIN table \ {id} /\ \A row \in DOMAIN after : after[row] = table[row]
  OBVIOUS
<1>2. IsTable(after)
  <2>1. IsFiniteSet(DOMAIN after)
    BY <1>1, FS_RemoveElement DEF IsTable
  <2>. QED  BY <1>1, <2>1 DEF IsTable
<1>3. ASSUME NEW row \in DOMAIN after
      PROVE  /\ after[row].parent # 0 => after[row].parent \in DOMAIN after
             /\ after[row].path = PathUnder(after, after[row].parent)
  <2>. DEFINE q == table[row].parent
  <2>1. after[row].parent = q /\ after[row].path = PathUnder(table, q) /\ (q # 0 => q \in DOMAIN table)
    BY <1>1 DEF IsExact
  <2>2. q # id
    BY <1>1 DEF HasChildren
  <2>3. PathUnder(table, q) = PathUnder(after, q)
    BY <2>1, <2>2, <1>1 DEF PathUnder
  <2>. QED  BY <2>1, <2>2, <2>3, <1>1
<1>. QED  BY <1>1, <1>2, <1>3 DEF IsExact

\* The rows a question about tree_path finds are those the parents lead up from, one by one:
\* a row that is n steps below another has it on its path, n places from the end.
LEMMA UnderIsBelow ==
  ASSUME NEW table, IsTable(table), IsExact(table), NEW id \in DOMAIN table, NEW r
  PROVE  IsDescendant(table, r, id) <=> r \in Below(table, id)
<1>. DEFINE rows == DOMAIN table
            length(row) == Len(table[row].path)
            Near(row, n) == \E i \in 2..length(row) : table[row].path[i] = id /\ length(row) < n + i
            Body(f, n) == IF n = 0 THEN {id} ELSE f[n - 1] \cup {row \in rows : table[row].parent \in f[n - 1]}
            IsWithin(f) == f = [n \in Nat |-> Body(f, n)]
            result == [n \in Nat |-> {id} \cup {row \in rows : Near(row, n)}]
<1>1. Below(table, id) = (CHOOSE f : IsWithin(f))[Cardinality(rows)] \ {id}
  BY DEF Below
<1>2. \A row \in rows : length(row) \in Nat \ {0}
  BY PathOfRow
<1>3. ASSUME NEW row \in rows PROVE ~Near(row, 0)
  BY <1>2
<1>4. ASSUME NEW row \in rows, NEW n \in Nat \ {0}
      PROVE  Near(row, n) <=> \/ table[row].parent = id
                              \/ table[row].parent \in rows /\ Near(table[row].parent, n - 1)
  <2>. DEFINE q == table[row].parent
              l == length(row)
              k == length(q)
  <2>1. CASE q = 0
    <3>1. l = 1 /\ q # id /\ q \notin rows
      BY <2>1, PathOfRow DEF IsTable
    <3>. QED  BY <3>1
  <2>2. CASE q # 0
    <3>1. /\ q \in rows /\ l = k + 1 /\ k \in Nat \ {0} /\ table[row].path[l] = q
          /\ \A i \in 1..k : table[row].path[i] = table[q].path[i]
      BY <2>2, PathOfRow
    <3>2. ASSUME q = id PROVE Near(row, n)
      <4>1. l \in 2..l /\ l < n + l
        BY <3>1
      <4>. QED  BY <3>1, <3>2, <4>1
    <3>3. ASSUME Near(q, n - 1) PROVE Near(row, n)
      <4>1. PICK i \in 2..k : table[q].path[i] = id /\ k < n - 1 + i
        BY <3>3
      <4>2. i \in 2..l /\ l < n + i /\ i \in 1..k
        BY <3>1, <4>1
      <4>. QED  BY <3>1, <4>1, <4>2
    <3>4. ASSUME Near(row, n), q # id PROVE Near(q, n - 1)
      <4>1. PICK i \in 2..l : table[row].path[i] = id /\ l < n + i
        BY <3>4
      <4>2. i # l
        BY <3>1, <3>4, <4>1
      <4>3. i \in 2..k /\ k < n - 1 + i /\ i \in 1..k
        BY <3>1, <4>1, <4>2
      <4>. QED  BY <3>1, <4>1, <4>3
    <3>. QED  BY <3>1, <3>2, <3>3, <3>4
  <2>. QED  BY <2>1, <2>2
<1>5. ASSUME NEW row \in rows, NEW n \in Nat \ {0}, Near(row, n - 1) PROVE Near(row, n)
  <2>1. PICK i \in 2..length(row) : table[row].path[i] = id /\ length(row) < n - 1 + i
    BY <1>5
  <2>2. length(row) < n + i
    BY <1>2, <2>1
  <2>. QED  BY <2>1, <2>2
<1>. HIDE DEF Near
<1>6. ASSUME NEW n \in Nat \ {0}
      PROVE  result[n] = result[n - 1] \cup {row \in rows : table[row].parent \in result[n - 1]}
  <2>1. n - 1 \in Nat
    OBVIOUS
  <2>2. /\ result[n] = {id} \cup {row \in rows : Near(row, n)}
        /\ result[n - 1] = {id} \cup {row \in rows : Near(row, n - 1)}
    BY <2>1
  <2>3. \A row \in rows : Near(row, n) <=> \/ Near(row, n - 1) \/ table[row].parent = id
                                           \/ table[row].parent \in rows /\ Near(table[row].parent, n - 1)
    BY <1>4, <1>5
  <2>. HIDE DEF result
  <2>. QED  BY <2>2, <2>3
<1>7. IsWithin(result)
  <2>1. result[0] = {id}
    BY <1>3
  <2>2. \A n \in Nat : result[n] = Body(result, n)
    BY <1>6, <2>1
  <2>3. result = [n \in Nat |-> result[n]]
    OBVIOUS
  <2>. HIDE DEF result, Body
  <2>. QED  BY <2>2, <2>3
<1>8. PICK f : IsWithin(f) /\ (CHOOSE g : IsWithin(g)) = f
  BY <1>7
<1>9. \A n \in Nat : f[n] = Body(f, n) /\ result[n] = Body(result, n)
  BY <1>7, <1>8
<1>. HIDE DEF result
<1>10. \A n \in Nat : f[n] = result[n]
  <2>. DEFINE T == {n \in Nat : f[n] # result[n]}
  <2>1. SUFFICES ASSUME T # {} PROVE FALSE
    OBVIOUS
  <2>2. PICK n \in T : \A m \in T : n <= m
    BY <2>1, LeastNumber
  <2>3. n # 0
    BY <1>9, <2>2
  <2>4. n - 1 \in Nat /\ n - 1 \notin T
    BY <2>2, <2>3
  <2>5. f[n - 1] = result[n - 1]
    BY <2>4
  <2>6. f[n] = Body(f, n) /\ result[n] = Body(result, n) /\ f[n] # result[n]
    BY <1>9, <2>2
  <2>7. Body(f, n) = Body(result, n)
    BY <2>3, <2>5
  <2>. HIDE DEF Body
  <2>. QED  BY <2>6, <2>7
<1>11. ASSUME NEW row \in rows PROVE Near(row, Cardinality(rows)) <=> IsUnder(table[row].path, id)
  <2>. DEFINE l == length(row)
              place == [i \in 2..l |-> table[row].path[i]]
              size == Cardinality(rows)
  <2>1. l \in Nat \ {0} /\ table[row].path[1] = 0 /\ id # 0
    <3>1. id # 0
      BY DEF IsTable
    <3>2. table[row].path[1] = 0
      BY AncestorsOfRow
    <3>. QED  BY <1>2, <3>1, <3>2
  <2>2. place \in Injection(2..l, rows)
    <3>1. place \in [2..l -> rows]
      BY AncestorsOfRow
    <3>2. \A i, j \in 2..l : place[i] = place[j] => i = j
      BY PathsAreDistinct
    <3>. QED  BY <3>1, <3>2 DEF Injection, IsInjective
  <2>3. IsFiniteSet(rows) /\ Cardinality(2..l) <= size /\ size \in Nat
    BY <2>2, FS_Injection, FS_CardinalityType DEF IsTable
  <2>4. l - 1 <= size
    <3>1. 2 \in Int /\ l \in Int
      BY <2>1
    <3>2. Cardinality(2..l) = IF 2 > l THEN 0 ELSE l - 2 + 1
      BY <3>1, FS_Interval, Zenon
    <3>. QED  BY <2>1, <2>3, <3>2
  <2>. HIDE DEF size
  <2>5. ASSUME NEW i \in 1..l, table[row].path[i] = id PROVE i \in 2..l /\ l < size + i
    BY <2>1, <2>3, <2>4, <2>5
  <2>6. IsUnder(table[row].path, id) => Near(row, size)
    BY <2>5 DEF IsUnder, Near
  <2>7. Near(row, size) => IsUnder(table[row].path, id)
    BY <2>1 DEF IsUnder, Near
  <2>. QED  BY <2>6, <2>7 DEF size
<1>12. Cardinality(rows) \in Nat
  BY FS_CardinalityType DEF IsTable
<1>13. Below(table, id) = result[Cardinality(rows)] \ {id}
  BY <1>1, <1>8, <1>10, <1>12
<1>14. result[Cardinality(rows)] = {id} \cup {row \in rows : Near(row, Cardinality(rows))}
  BY <1>12 DEF result
<1>15. ~IsUnder(table[id].path, id)
  BY PathsAreDistinct DEF IsUnder
<1>. QED  BY <1>11, <1>13, <1>14, <1>15 DEF IsDescendant

-----------------------------------------------------------------------------
(* The trees, and the requests that read them. *)

(* What the others have read p changes only if it makes them know.            *)
LeavesReads(p) ==
  \A q \in Client \ {p} : q \notin stale' =>
    /\ q \notin stale
    /\ request[q].op \in TreeReaders => departments' = departments
    /\ request[q].op = "delete department" => accounts' = accounts
    /\ request[q].op \in MenuReaders => menus' = menus

(* A department another transaction shares stays.                             *)
LeavesDepartments(p) ==
  \A q \in Client \ {p} : \A id :
    <<"department", id>> \in shared[q] /\ id \in DOMAIN departments => id \in DOMAIN departments'

\* The operations that read a tree, and those that do not.
LEMMA ReadersAre ==
  /\ TreeReaders = {"save department", "delete department", "import"}
  /\ MenuReaders = {"save menu", "delete menu"}
BY DEF TreeReaders, MenuReaders

\* What a request knows of the trees depends on its record, on the tables it reads and on its locks.
LEMMA OthersKnow ==
  ASSUME NEW p \in Client, AdminIInv, TreesKnown, OnlyOf(p), LeavesReads(p), LeavesDepartments(p),
         NEW q \in Client, q # p
  PROVE  KnowsTrees(q)'
<1>1. request'[q] = request[q] /\ shared'[q] = shared[q]
  BY DEF OnlyOf, AdminIInv, IsPerClient
<1>2. KnowsTrees(q)
  BY DEF TreesKnown
<1>3. Active(q)' => request'[q].parent \in Nat
  BY <1>1, <1>2 DEF KnowsTrees, Active
<1>4. HoldsDepartment(q)'
  BY <1>1, <1>2 DEF KnowsTrees, HoldsDepartment, At, LeavesDepartments
<1>5. ASSUME q \notin stale' PROVE TreeReadsHold(q)'
  <2>1. TreeReadsHold(q)
    BY <1>2, <1>5 DEF KnowsTrees, LeavesReads
  <2>2. CASE request[q].op \in TreeReaders
    <3>1. departments' = departments
      BY <1>5, <2>2 DEF LeavesReads
    <3>2. CASE request[q].op = "save department"
      BY <1>1, <2>1, <3>1, <3>2
         DEF TreeReadsHold, HasOldPath, MayGoThere, IsPrepared, IsDescendant, PathUnder, At
    <3>3. CASE request[q].op = "delete department"
      <4>1. accounts' = accounts
        BY <1>5, <3>3 DEF LeavesReads
      <4>. QED  BY <1>1, <2>1, <3>1, <3>3, <4>1 DEF TreeReadsHold, HasChildren, At
    <3>4. CASE request[q].op = "import"
      BY <1>1, <2>1, <3>1, <3>4 DEF TreeReadsHold, At
    <3>. QED  BY <2>2, <3>2, <3>3, <3>4, ReadersAre
  <2>3. CASE request[q].op \in MenuReaders
    <3>1. menus' = menus
      BY <1>5, <2>3 DEF LeavesReads
    <3>2. CASE request[q].op = "save menu"
      BY <1>1, <2>1, <3>1, <3>2
         DEF TreeReadsHold, HasOldPath, MayGoThere, IsPrepared, IsDescendant, PathUnder, At
    <3>3. CASE request[q].op = "delete menu"
      BY <1>1, <2>1, <3>1, <3>3 DEF TreeReadsHold, HasChildren, At
    <3>. QED  BY <2>3, <3>2, <3>3, ReadersAre
  <2>4. CASE request[q].op \notin TreeReaders \cup MenuReaders
    BY <1>1, <2>4, ReadersAre DEF TreeReadsHold, At
  <2>. QED  BY <2>2, <2>3, <2>4
<1>. QED  BY <1>3, <1>4, <1>5 DEF KnowsTrees

\* After a step of p, what it has left is still known to the others.
LEMMA TreesStep ==
  ASSUME NEW p \in Client, AdminIInv, TreesKnown, OnlyOf(p), LeavesReads(p), LeavesDepartments(p),
         TreesNow', KnowsTrees(p)'
  PROVE  TreesKnown'
<1>1. \A q \in Client : KnowsTrees(q)'
  BY OthersKnow
<1>. QED  BY <1>1 DEF TreesKnown

\* A step that writes neither the trees nor the accounts.
LEMMA TreesStand ==
  ASSUME NEW p \in Client, AdminIInv, TreesKnown, OnlyOf(p), stale \subseteq stale' \cup {p},
         UNCHANGED <<departments, menus, accounts>>, given \subseteq given', KnowsTrees(p)'
  PROVE  TreesKnown'
<1>1. TreesNow'
  BY DEF TreesKnown, TreesNow, DepartmentsAreLive
<1>2. LeavesReads(p) /\ LeavesDepartments(p)
  BY DEF LeavesReads, LeavesDepartments
<1>. QED  BY <1>1, <1>2, TreesStep

(* The operations that rely on what they have read.                           *)
NeedsToKnow ==
  {"save department", "delete department", "import", "save menu", "delete menu", "save account"}

\* A request of any other kind, and one that is over, knows enough.
LEMMA KnowsNothing ==
  ASSUME NEW p \in Client, Active(p)' => request'[p].parent \in Nat,
         request'[p].op \notin NeedsToKnow
  PROVE  KnowsTrees(p)'
BY DEF NeedsToKnow, KnowsTrees, TreeReadsHold, HoldsDepartment, At

\* Whoever has committed waits for no lock and has read nothing.
LEMMA TreesCommit ==
  ASSUME NEW p \in Client, AdminIInv, Commits(p)
  PROVE  OnlyOf(p) /\ KnowsTrees(p)'
<1>1. request' = [request EXCEPT ![p] = Idle] /\ OnlyOf(p)
  BY CommitStep DEF Commits, Ends
<1>2. request'[p] = Idle
  BY <1>1, Becomes, InvParts
<1>3. ~Active(p)' /\ request'[p].op = "none"
  BY <1>2, IdleIs DEF Active
<1>. QED  BY <1>1, <1>3, KnowsNothing DEF NeedsToKnow

\* So has a request that only ends sessions.
LEMMA TreesEndSessions ==
  ASSUME NEW p \in Client, AdminIInv, NEW account, ThenEndsSessions(p, account)
  PROVE  OnlyOf(p) /\ KnowsTrees(p)'
<1>. DEFINE form == [Form("end sessions", "end") EXCEPT !.accounts = {account}]
<1>1. form.op = "end sessions" /\ form.step # "write" /\ form.parent \in Nat
  BY DEF Form
<1>2. request' = [request EXCEPT ![p] = form] /\ Releases(p)
  BY DEF ThenEndsSessions
<1>. HIDE DEF form
<1>3. request'[p] = form /\ OnlyOf(p)
  BY <1>1, <1>2, Released
<1>4. request'[p].op = "end sessions" /\ request'[p].parent \in Nat
  BY <1>1, <1>3
<1>5. KnowsTrees(p)'
  BY <1>4, KnowsNothing DEF NeedsToKnow
<1>. QED  BY <1>3, <1>5

\* And one that first has to find whose.
LEMMA TreesEndRoleSessions ==
  ASSUME NEW p \in Client, AdminIInv, NEW role, ThenEndsRoleSessions(p, role)
  PROVE  OnlyOf(p) /\ KnowsTrees(p)' /\ UNCHANGED <<stale, raced>>
<1>. DEFINE form == [Form("end sessions", "find") EXCEPT !.id = role]
<1>1. form.op = "end sessions" /\ form.step # "write" /\ form.parent \in Nat
  BY DEF Form
<1>2. request' = [request EXCEPT ![p] = form] /\ Releases(p) /\ UNCHANGED <<stale, raced>>
  BY DEF ThenEndsRoleSessions, Reads
<1>. HIDE DEF form
<1>3. request'[p] = form /\ OnlyOf(p)
  BY <1>1, <1>2, Released
<1>4. request'[p].op = "end sessions" /\ request'[p].parent \in Nat
  BY <1>1, <1>3
<1>5. KnowsTrees(p)'
  BY <1>4, KnowsNothing DEF NeedsToKnow
<1>. QED  BY <1>2, <1>3, <1>5

\* A request that begins, or reads, without a lock.
LEMMA TreesRead ==
  ASSUME NEW p \in Client, AdminIInv, TreesKnown, NEW form, request' = [request EXCEPT ![p] = form],
         UNCHANGED adminVars, stale' = stale,
         request'[p] = form => KnowsTrees(p)'
  PROVE  TreesKnown'
<1>1. request'[p] = form /\ request' = [request EXCEPT ![p] = request'[p]]
  BY Becomes, InvParts
<1>2. UNCHANGED <<shared, exclusive, departments, menus, accounts, given>>
  BY DEF adminVars, locks, tables
<1>3. OnlyOf(p)
  BY <1>1, <1>2 DEF OnlyOf, AdminIInv, IsPerClient
<1>. QED  BY <1>1, <1>2, <1>3, TreesStand


-----------------------------------------------------------------------------
(* Departments. *)

\* The ids of rows are numbers, and so is 0.
LEMMA IdsAre ==
  /\ \A id \in Department \cup {0} : id \in Nat
  /\ \A id \in Menu \cup {0} : id \in Nat
  /\ \A id \in Department \cup Menu : id \in Nat \ {0}
BY IdsAreNumbers

\* What else a request carries to its next step.
LEMMA ToKeeps ==
  ASSUME NEW p \in Client, AdminIInv, Active(p), NEW step
  PROVE  /\ To(p, step).parent = request[p].parent
         /\ To(p, step).path = request[p].path /\ To(p, step).old = request[p].old
BY FormOf DEF To, Form

\* A request that is at some step of an operation is under way.
LEMMA AtIsActive ==
  ASSUME NEW p \in Client, NEW op, NEW step, At(p, op, step), op # "none"
  PROVE  Active(p)
BY IdleIs DEF At, Active

\* The department requests begin.
LEMMA OrganizationBeginsKnow ==
  ASSUME NEW p \in Client, AdminIInv, TreesKnown, OrganizationBegins(p)
  PROVE  TreesKnown'
<1>1. ASSUME NEW parent \in Department \cup {0}, CreateDepartment(p, parent) PROVE TreesKnown'
  <2>. DEFINE form == Prepared(departments, [Form("save department", "prepare") EXCEPT !.parent = parent])
  <2>1. /\ form.op = "save department" /\ form.step = "store" /\ form.id = 0
        /\ form.parent = parent /\ form.path = PathUnder(departments, parent)
    BY DEF Prepared, Form
  <2>2. request' = [request EXCEPT ![p] = form] /\ stale' = stale /\ UNCHANGED adminVars
    BY <1>1 DEF CreateDepartment, Begins
  <2>3. departments' = departments /\ (parent # 0 => parent \in DOMAIN departments)
    BY <1>1 DEF CreateDepartment, adminVars, tables
  <2>. HIDE DEF form
  <2>4. ASSUME request'[p] = form PROVE KnowsTrees(p)'
    <3>1. form.parent \in Nat
      BY <2>1, IdsAre
    <3>2. TreeReadsHold(p)'
      BY <2>1, <2>3, <2>4
         DEF TreeReadsHold, HasOldPath, MayGoThere, IsPrepared, PathUnder, At
    <3>. QED  BY <2>1, <2>4, <3>1, <3>2 DEF KnowsTrees, HoldsDepartment, At
  <2>. QED  BY <2>2, <2>4, TreesRead
<1>2. ASSUME NEW parent \in Department \cup {0}, NEW id \in Department, UpdateDepartment(p, id, parent)
      PROVE  TreesKnown'
  <2>. DEFINE form == [Form("save department", IF parent # 0 THEN "descendant" ELSE "prepare")
                         EXCEPT !.id = id, !.parent = parent, !.old = departments[id].path]
  <2>1. /\ form.op = "save department" /\ form.step = IF parent # 0 THEN "descendant" ELSE "prepare"
        /\ form.id = id /\ form.parent = parent /\ form.old = departments[id].path
    BY DEF Form
  <2>2. request' = [request EXCEPT ![p] = form] /\ stale' = stale /\ UNCHANGED adminVars
    BY <1>2 DEF UpdateDepartment, Begins
  <2>3. departments' = departments /\ parent # id /\ id \in DOMAIN departments
    BY <1>2 DEF UpdateDepartment, adminVars, tables
  <2>4. 0 \notin DOMAIN departments
    BY DEF TreesKnown, TreesNow, IsTable
  <2>. HIDE DEF form
  <2>5. ASSUME request'[p] = form PROVE KnowsTrees(p)'
    <3>1. form.parent \in Nat
      BY <2>1, IdsAre
    <3>2. TreeReadsHold(p)'
      BY <2>1, <2>3, <2>4, <2>5
         DEF TreeReadsHold, HasOldPath, MayGoThere, IsDescendant, At
    <3>. QED  BY <2>1, <2>5, <3>1, <3>2 DEF KnowsTrees, HoldsDepartment, At
  <2>. QED  BY <2>2, <2>5, TreesRead
<1>3. ASSUME NEW id \in Department, DeleteDepartment(p, id) PROVE TreesKnown'
  <2>. DEFINE form == [Form("delete department", "accounts") EXCEPT !.id = id]
  <2>1. /\ form.op = "delete department" /\ form.step = "accounts" /\ form.id = id
        /\ form.parent \in Nat
    BY DEF Form
  <2>2. request' = [request EXCEPT ![p] = form] /\ stale' = stale /\ UNCHANGED adminVars
    BY <1>3 DEF DeleteDepartment, Begins
  <2>3. departments' = departments /\ ~HasChildren(departments, id)
    BY <1>3 DEF DeleteDepartment, adminVars, tables
  <2>. HIDE DEF form
  <2>4. ASSUME request'[p] = form PROVE KnowsTrees(p)'
    <3>1. TreeReadsHold(p)'
      BY <2>1, <2>3, <2>4 DEF TreeReadsHold, HasChildren, At
    <3>. QED  BY <2>1, <2>4, <3>1 DEF KnowsTrees, HoldsDepartment, At
  <2>. QED  BY <2>2, <2>4, TreesRead
<1>. QED  BY <1>1, <1>2, <1>3 DEF OrganizationBegins

\* A change of the departments makes every request that has read them know.
LEMMA OutdatesTrees ==
  ASSUME NEW p \in Client, Outdates(p, Doing(TreeReaders)), menus' = menus
  PROVE  LeavesReads(p)
<1>1. ASSUME NEW q \in Client \ {p}, q \notin stale'
      PROVE  q \notin stale /\ request[q].op \notin TreeReaders
  BY <1>1 DEF Outdates, Doing
<1>. QED  BY <1>1, ReadersAre DEF LeavesReads

\* So does one of the menus.
LEMMA OutdatesMenus ==
  ASSUME NEW p \in Client, Outdates(p, Doing(MenuReaders)), UNCHANGED <<departments, accounts>>
  PROVE  LeavesReads(p)
<1>1. ASSUME NEW q \in Client \ {p}, q \notin stale'
      PROVE  q \notin stale /\ request[q].op \notin MenuReaders
  BY <1>1 DEF Outdates, Doing
<1>. QED  BY <1>1 DEF LeavesReads

\* A change of the accounts matters to the deletion of a department.
LEMMA OutdatesDeletions ==
  ASSUME NEW p \in Client, Outdates(p, Doing({"delete department"})), UNCHANGED <<departments, menus>>
  PROVE  LeavesReads(p)
<1>1. ASSUME NEW q \in Client \ {p}, q \notin stale'
      PROVE  q \notin stale /\ request[q].op # "delete department"
  BY <1>1 DEF Outdates, Doing
<1>. QED  BY <1>1 DEF LeavesReads

\* What is written on the strength of reads that still hold.
LEMMA WriterKnows ==
  ASSUME NEW p \in Client, TreesKnown, Relies(p), ~raced'
  PROVE  TreeReadsHold(p)
<1>1. p \notin stale
  BY DEF Relies
<1>. QED  BY <1>1 DEF TreesKnown, KnowsTrees

\* A department is inserted under a live one.
LEMMA InsertDepartmentKnows ==
  ASSUME NEW p \in Client, AdminIInv, TreesKnown, ~raced', NEW id \in Department,
         InsertDepartment(p, id)
  PROVE  TreesKnown'
<1>. DEFINE form == request[p]
<1>1. /\ At(p, "save department", "store") /\ form.id = 0 /\ <<"department", id>> \notin given
      /\ departments' = [row \in DOMAIN departments \cup {id} |->
                           IF row = id THEN [parent |-> form.parent, path |-> form.path]
                           ELSE departments[row]]
      /\ given' = given \cup {<<"department", id>>} /\ UNCHANGED <<menus, accounts>>
  BY DEF InsertDepartment, Fresh
<1>2. Commits(p) /\ Relies(p) /\ Outdates(p, Doing(TreeReaders))
  BY DEF InsertDepartment
<1>3. form.parent \in Nat
  BY <1>1, AtIsActive DEF TreesKnown, KnowsTrees
<1>4. IsPrepared(departments, form)
  BY <1>1, <1>2, WriterKnows DEF TreeReadsHold, At
<1>5. id \in Nat \ {0} /\ id \notin DOMAIN departments
  BY <1>1, IdsAre DEF TreesKnown, TreesNow
<1>6. IsTable(departments') /\ IsExact(departments') /\ DOMAIN departments' = DOMAIN departments \cup {id}
  <2>. DEFINE parent == form.parent
              path == form.path
              after == departments'
  <2>1. IsTable(departments) /\ IsExact(departments)
    BY DEF TreesKnown, TreesNow
  <2>2. parent \in Nat /\ (parent # 0 => parent \in DOMAIN departments)
        /\ path = PathUnder(departments, parent)
    BY <1>3, <1>4 DEF IsPrepared
  <2>3. after = [row \in DOMAIN departments \cup {id} |->
                   IF row = id THEN [parent |-> parent, path |-> path] ELSE departments[row]]
    BY <1>1
  <2>. HIDE DEF parent, path, after
  <2>4. IsTable(after) /\ IsExact(after) /\ DOMAIN after = DOMAIN departments \cup {id}
    BY <1>5, <2>1, <2>2, <2>3, InsertIsExact
  <2>. QED  BY <2>4 DEF after
<1>7. TreesNow'
  BY <1>1, <1>6 DEF TreesKnown, TreesNow, DepartmentsAreLive
<1>8. LeavesReads(p) /\ LeavesDepartments(p)
  BY <1>1, <1>2, <1>6, OutdatesTrees DEF LeavesDepartments
<1>. QED  BY <1>2, <1>7, <1>8, TreesCommit, TreesStep

\* A department is moved, with all that is below it.
LEMMA MoveDepartmentKnows ==
  ASSUME NEW p \in Client, AdminIInv, TreesKnown, ~raced', NoDigitsMislead(departments),
         MoveDepartment(p)
  PROVE  TreesKnown'
<1>. DEFINE form == request[p]
<1>1. /\ At(p, "save department", "store") /\ form.id \in DOMAIN departments
      /\ departments' = UpdateTree(departments, form.id, form.parent, form.path, form.old)
      /\ UNCHANGED <<menus, accounts, given>>
  BY DEF MoveDepartment
<1>2. Commits(p) /\ Relies(p) /\ Outdates(p, Doing(TreeReaders))
  BY DEF MoveDepartment
<1>3. form.parent \in Nat
  BY <1>1, AtIsActive DEF TreesKnown, KnowsTrees
<1>4. form.id \in Nat \ {0}
  BY <1>1 DEF TreesKnown, TreesNow, IsTable
<1>5. HasOldPath(departments, form) /\ MayGoThere(departments, form) /\ IsPrepared(departments, form)
  BY <1>1, <1>2, WriterKnows DEF TreeReadsHold, At
<1>6. IsTable(departments') /\ IsExact(departments') /\ DOMAIN departments' = DOMAIN departments
  <2>. DEFINE id == form.id
              parent == form.parent
              after == departments'
  <2>1. IsTable(departments) /\ IsExact(departments)
    BY DEF TreesKnown, TreesNow
  <2>2. /\ parent \in Nat /\ (parent # 0 => parent \in DOMAIN departments)
        /\ form.path = PathUnder(departments, parent)
    BY <1>3, <1>5 DEF IsPrepared
  <2>3. /\ id \in DOMAIN departments /\ parent # id /\ ~IsDescendant(departments, parent, id)
        /\ form.old = departments[id].path
    BY <1>1, <1>4, <1>5 DEF MayGoThere, HasOldPath
  <2>4. after = UpdateTree(departments, id, parent, PathUnder(departments, parent), departments[id].path)
    BY <1>1, <2>2, <2>3
  <2>. HIDE DEF id, parent, after
  <2>5. IsTable(after) /\ IsExact(after) /\ DOMAIN after = DOMAIN departments
    BY <2>1, <2>2, <2>3, <2>4, MoveIsExact
  <2>. QED  BY <2>5 DEF after
<1>7. TreesNow'
  BY <1>1, <1>6 DEF TreesKnown, TreesNow, DepartmentsAreLive
<1>8. LeavesReads(p) /\ LeavesDepartments(p)
  BY <1>1, <1>2, <1>6, OutdatesTrees DEF LeavesDepartments
<1>. QED  BY <1>2, <1>7, <1>8, TreesCommit, TreesStep

\* A department is removed that has neither children nor accounts.
LEMMA RemoveDepartmentKnows ==
  ASSUME NEW p \in Client, AdminIInv, TreesKnown, ~raced', RemoveDepartment(p)
  PROVE  TreesKnown'
<1>. DEFINE id == request[p].id
<1>1. /\ At(p, "delete department", "delete") /\ id \in DOMAIN departments
      /\ MayLock(p, Rows("department", {id}))
      /\ departments' = [row \in DOMAIN departments \ {id} |-> departments[row]]
      /\ UNCHANGED <<menus, accounts, given>>
  BY DEF RemoveDepartment
<1>2. Commits(p) /\ Relies(p) /\ Outdates(p, Doing(TreeReaders))
  BY DEF RemoveDepartment
<1>3. id # 0
  BY <1>1 DEF TreesKnown, TreesNow, IsTable
<1>4. ~HasChildren(departments, id) /\ \A a \in DOMAIN accounts : accounts[a] # id
  BY <1>1, <1>2, WriterKnows DEF TreeReadsHold, At
<1>5. \A q \in Client \ {p} : <<"department", id>> \notin shared[q]
  <2>1. <<"department", id>> \in Rows("department", {id})
    BY DEF Rows
  <2>. QED  BY <1>1, <2>1 DEF MayLock
<1>. HIDE DEF id
<1>6. IsTable(departments') /\ IsExact(departments') /\ DOMAIN departments' = DOMAIN departments \ {id}
  <2>1. IsTable(departments) /\ IsExact(departments)
    BY DEF TreesKnown, TreesNow
  <2>. QED  BY <1>1, <1>4, <2>1, RemoveIsExact
<1>7. TreesNow'
  <2>1. DepartmentsAreLive'
    BY <1>1, <1>4, <1>6 DEF TreesKnown, TreesNow, DepartmentsAreLive
  <2>. QED  BY <1>1, <1>6, <2>1 DEF TreesKnown, TreesNow
<1>8. LeavesReads(p)
  BY <1>1, <1>2, OutdatesTrees
<1>9. LeavesDepartments(p)
  BY <1>5, <1>6 DEF LeavesDepartments
<1>. QED  BY <1>2, <1>7, <1>8, <1>9, TreesCommit, TreesStep

\* The department requests go on.
LEMMA OrganizationStepKnows ==
  ASSUME NEW p \in Client, AdminIInv, TreesKnown, ~raced', NoDigitsMislead(departments),
         OrganizationStep(p)
  PROVE  TreesKnown'
<1>1. CASE CheckDescendant(p)
  <2>1. At(p, "save department", "descendant") /\ ~IsDescendant(departments, request[p].parent, request[p].id)
    BY <1>1 DEF CheckDescendant
  <2>2. Active(p) /\ KnowsTrees(p)
    BY <2>1, AtIsActive DEF TreesKnown
  <2>. DEFINE form == To(p, "prepare")
  <2>3. /\ form.op = "save department" /\ form.step = "prepare" /\ form.id = request[p].id
        /\ form.parent = request[p].parent /\ form.old = request[p].old
    BY <2>1, <2>2, ToIsForm, ToKeeps DEF At
  <2>4. request' = [request EXCEPT ![p] = form] /\ stale' = stale /\ UNCHANGED adminVars
        /\ departments' = departments
    BY <1>1 DEF CheckDescendant, Reads, adminVars, tables
  <2>. HIDE DEF form
  <2>5. ASSUME request'[p] = form PROVE KnowsTrees(p)'
    <3>1. p \notin stale' => TreeReadsHold(p)'
      BY <2>1, <2>2, <2>3, <2>4, <2>5
         DEF KnowsTrees, TreeReadsHold, HasOldPath, MayGoThere, IsDescendant, At
    <3>2. request'[p].parent \in Nat
      BY <2>2, <2>3, <2>5 DEF KnowsTrees
    <3>. QED  BY <2>3, <2>5, <3>1, <3>2 DEF KnowsTrees, HoldsDepartment, At
  <2>. QED  BY <2>4, <2>5, TreesRead
<1>2. CASE PrepareDepartment(p)
  <2>1. /\ At(p, "save department", "prepare")
        /\ request[p].parent # 0 => request[p].parent \in DOMAIN departments
    BY <1>2 DEF PrepareDepartment
  <2>2. Active(p) /\ KnowsTrees(p)
    BY <2>1, AtIsActive DEF TreesKnown
  <2>. DEFINE form == Prepared(departments, request[p])
  <2>3. /\ form.op = "save department" /\ form.step = "store" /\ form.id = request[p].id
        /\ form.parent = request[p].parent /\ form.old = request[p].old
        /\ form.path = PathUnder(departments, request[p].parent)
    BY <2>1, <2>2, FormOf DEF At, Prepared, Form
  <2>4. request' = [request EXCEPT ![p] = form] /\ stale' = stale /\ UNCHANGED adminVars
        /\ departments' = departments
    BY <1>2 DEF PrepareDepartment, Reads, adminVars, tables
  <2>. HIDE DEF form
  <2>5. ASSUME request'[p] = form PROVE KnowsTrees(p)'
    <3>1. p \notin stale' => TreeReadsHold(p)'
      BY <2>1, <2>2, <2>3, <2>4, <2>5
         DEF KnowsTrees, TreeReadsHold, HasOldPath, MayGoThere, IsPrepared, IsDescendant, PathUnder, At
    <3>2. request'[p].parent \in Nat
      BY <2>2, <2>3, <2>5 DEF KnowsTrees
    <3>. QED  BY <2>3, <2>5, <3>1, <3>2 DEF KnowsTrees, HoldsDepartment, At
  <2>. QED  BY <2>4, <2>5, TreesRead
<1>3. CASE CheckAccounts(p)
  <2>1. At(p, "delete department", "accounts") /\ \A a \in DOMAIN accounts : accounts[a] # request[p].id
    BY <1>3 DEF CheckAccounts
  <2>2. Active(p) /\ KnowsTrees(p)
    BY <2>1, AtIsActive DEF TreesKnown
  <2>. DEFINE form == To(p, "delete")
  <2>3. /\ form.op = "delete department" /\ form.step = "delete" /\ form.id = request[p].id
        /\ form.parent = request[p].parent
    BY <2>1, <2>2, ToIsForm, ToKeeps DEF At
  <2>4. request' = [request EXCEPT ![p] = form] /\ stale' = stale /\ UNCHANGED adminVars
        /\ departments' = departments /\ accounts' = accounts
    BY <1>3 DEF CheckAccounts, Reads, adminVars, tables
  <2>. HIDE DEF form
  <2>5. ASSUME request'[p] = form PROVE KnowsTrees(p)'
    <3>1. p \notin stale' => TreeReadsHold(p)'
      BY <2>1, <2>2, <2>3, <2>4, <2>5 DEF KnowsTrees, TreeReadsHold, HasChildren, At
    <3>2. request'[p].parent \in Nat
      BY <2>2, <2>3, <2>5 DEF KnowsTrees
    <3>. QED  BY <2>3, <2>5, <3>1, <3>2 DEF KnowsTrees, HoldsDepartment, At
  <2>. QED  BY <2>4, <2>5, TreesRead
<1>. QED  BY <1>1, <1>2, <1>3, InsertDepartmentKnows, MoveDepartmentKnows, RemoveDepartmentKnows
         DEF OrganizationStep

-----------------------------------------------------------------------------
(* Menus and roles. *)

\* A menu is inserted under a live one.
LEMMA InsertMenuKnows ==
  ASSUME NEW p \in Client, AdminIInv, TreesKnown, ~raced', NEW id \in Menu,
         InsertMenu(p, id)
  PROVE  TreesKnown'
<1>. DEFINE form == request[p]
<1>1. /\ At(p, "save menu", "store") /\ form.id = 0 /\ <<"menu", id>> \notin given
      /\ menus' = [row \in DOMAIN menus \cup {id} |->
                           IF row = id THEN [parent |-> form.parent, path |-> form.path]
                           ELSE menus[row]]
      /\ given' = given \cup {<<"menu", id>>} /\ UNCHANGED <<departments, accounts>>
  BY DEF InsertMenu, Fresh
<1>2. Commits(p) /\ Relies(p) /\ Outdates(p, Doing(MenuReaders))
  BY DEF InsertMenu
<1>3. form.parent \in Nat
  BY <1>1, AtIsActive DEF TreesKnown, KnowsTrees
<1>4. IsPrepared(menus, form)
  BY <1>1, <1>2, WriterKnows DEF TreeReadsHold, At
<1>5. id \in Nat \ {0} /\ id \notin DOMAIN menus
  BY <1>1, IdsAre DEF TreesKnown, TreesNow
<1>6. IsTable(menus') /\ IsExact(menus') /\ DOMAIN menus' = DOMAIN menus \cup {id}
  <2>. DEFINE parent == form.parent
              path == form.path
              after == menus'
  <2>1. IsTable(menus) /\ IsExact(menus)
    BY DEF TreesKnown, TreesNow
  <2>2. parent \in Nat /\ (parent # 0 => parent \in DOMAIN menus)
        /\ path = PathUnder(menus, parent)
    BY <1>3, <1>4 DEF IsPrepared
  <2>3. after = [row \in DOMAIN menus \cup {id} |->
                   IF row = id THEN [parent |-> parent, path |-> path] ELSE menus[row]]
    BY <1>1
  <2>. HIDE DEF parent, path, after
  <2>4. IsTable(after) /\ IsExact(after) /\ DOMAIN after = DOMAIN menus \cup {id}
    BY <1>5, <2>1, <2>2, <2>3, InsertIsExact
  <2>. QED  BY <2>4 DEF after
<1>7. TreesNow'
  BY <1>1, <1>6 DEF TreesKnown, TreesNow, DepartmentsAreLive
<1>8. LeavesReads(p) /\ LeavesDepartments(p)
  BY <1>1, <1>2, <1>6, OutdatesMenus DEF LeavesDepartments
<1>. QED  BY <1>2, <1>7, <1>8, TreesCommit, TreesStep

\* A menu is moved, with all that is below it.
LEMMA MoveMenuKnows ==
  ASSUME NEW p \in Client, AdminIInv, TreesKnown, ~raced', NoDigitsMislead(menus),
         MoveMenu(p)
  PROVE  TreesKnown'
<1>. DEFINE form == request[p]
<1>1. /\ At(p, "save menu", "store") /\ form.id \in DOMAIN menus
      /\ menus' = UpdateTree(menus, form.id, form.parent, form.path, form.old)
      /\ UNCHANGED <<departments, accounts, given>>
  BY DEF MoveMenu
<1>2. Commits(p) /\ Relies(p) /\ Outdates(p, Doing(MenuReaders))
  BY DEF MoveMenu
<1>3. form.parent \in Nat
  BY <1>1, AtIsActive DEF TreesKnown, KnowsTrees
<1>4. form.id \in Nat \ {0}
  BY <1>1 DEF TreesKnown, TreesNow, IsTable
<1>5. HasOldPath(menus, form) /\ MayGoThere(menus, form) /\ IsPrepared(menus, form)
  BY <1>1, <1>2, WriterKnows DEF TreeReadsHold, At
<1>6. IsTable(menus') /\ IsExact(menus') /\ DOMAIN menus' = DOMAIN menus
  <2>. DEFINE id == form.id
              parent == form.parent
              after == menus'
  <2>1. IsTable(menus) /\ IsExact(menus)
    BY DEF TreesKnown, TreesNow
  <2>2. /\ parent \in Nat /\ (parent # 0 => parent \in DOMAIN menus)
        /\ form.path = PathUnder(menus, parent)
    BY <1>3, <1>5 DEF IsPrepared
  <2>3. /\ id \in DOMAIN menus /\ parent # id /\ ~IsDescendant(menus, parent, id)
        /\ form.old = menus[id].path
    BY <1>1, <1>4, <1>5 DEF MayGoThere, HasOldPath
  <2>4. after = UpdateTree(menus, id, parent, PathUnder(menus, parent), menus[id].path)
    BY <1>1, <2>2, <2>3
  <2>. HIDE DEF id, parent, after
  <2>5. IsTable(after) /\ IsExact(after) /\ DOMAIN after = DOMAIN menus
    BY <2>1, <2>2, <2>3, <2>4, MoveIsExact
  <2>. QED  BY <2>5 DEF after
<1>7. TreesNow'
  BY <1>1, <1>6 DEF TreesKnown, TreesNow, DepartmentsAreLive
<1>8. LeavesReads(p) /\ LeavesDepartments(p)
  BY <1>1, <1>2, <1>6, OutdatesMenus DEF LeavesDepartments
<1>. QED  BY <1>2, <1>7, <1>8, TreesCommit, TreesStep

\* A menu is removed that has no children.
LEMMA RemoveMenuKnows ==
  ASSUME NEW p \in Client, AdminIInv, TreesKnown, ~raced', RemoveMenu(p)
  PROVE  TreesKnown'
<1>. DEFINE id == request[p].id
<1>1. /\ At(p, "delete menu", "delete") /\ id \in DOMAIN menus
      /\ menus' = [row \in DOMAIN menus \ {id} |-> menus[row]]
      /\ UNCHANGED <<departments, accounts, given>>
  BY DEF RemoveMenu
<1>2. Commits(p) /\ Relies(p) /\ Outdates(p, Doing(MenuReaders))
  BY DEF RemoveMenu
<1>3. ~HasChildren(menus, id)
  BY <1>1, <1>2, WriterKnows DEF TreeReadsHold, At
<1>. HIDE DEF id
<1>4. IsTable(menus') /\ IsExact(menus') /\ DOMAIN menus' = DOMAIN menus \ {id}
  <2>1. IsTable(menus) /\ IsExact(menus)
    BY DEF TreesKnown, TreesNow
  <2>. QED  BY <1>1, <1>3, <2>1, RemoveIsExact
<1>5. TreesNow'
  BY <1>1, <1>4 DEF TreesKnown, TreesNow, DepartmentsAreLive
<1>6. LeavesReads(p) /\ LeavesDepartments(p)
  BY <1>1, <1>2, OutdatesMenus DEF LeavesDepartments
<1>. QED  BY <1>2, <1>5, <1>6, TreesCommit, TreesStep

\* A deletion has locked the grants of its menu.
LEMMA LockGrantsKnow ==
  ASSUME NEW p \in Client, AdminIInv, TreesKnown, LockGrants(p)
  PROVE  TreesKnown'
<1>. DEFINE form == To(p, "delete")
            rows == Rows("grants of menu", {request[p].id})
<1>1. At(p, "delete menu", "grants")
  BY DEF LockGrants
<1>2. Active(p) /\ KnowsTrees(p)
  BY <1>1, AtIsActive DEF TreesKnown
<1>3. /\ form.op = "delete menu" /\ form.step = "delete" /\ form.id = request[p].id
      /\ form.parent = request[p].parent
  BY <1>1, <1>2, ToIsForm, ToKeeps DEF At
<1>4. /\ request' = [request EXCEPT ![p] = form] /\ stale' = stale
      /\ exclusive' = [exclusive EXCEPT ![p] = rows] /\ shared' = shared
      /\ UNCHANGED <<departments, menus, accounts, given>>
  BY DEF LockGrants, Reads, tables
<1>. HIDE DEF form, rows
<1>5. request'[p] = form /\ OnlyOf(p)
  BY <1>4, Excludes
<1>6. p \notin stale' => TreeReadsHold(p)'
  BY <1>1, <1>2, <1>3, <1>4, <1>5 DEF KnowsTrees, TreeReadsHold, HasChildren, At
<1>7. request'[p].parent \in Nat
  BY <1>2, <1>3, <1>5 DEF KnowsTrees
<1>8. KnowsTrees(p)'
  BY <1>3, <1>5, <1>6, <1>7 DEF KnowsTrees, HoldsDepartment, At
<1>. QED  BY <1>4, <1>5, <1>8, TreesStand

\* The requests about menus go on.
LEMMA MenuStepKnows ==
  ASSUME NEW p \in Client, AdminIInv, TreesKnown, ~raced', NoDigitsMislead(menus),
         \/ \E id \in Menu : InsertMenu(p, id)
         \/ PrepareMenu(p) \/ ReadMenu(p) \/ MoveMenu(p) \/ LockGrants(p) \/ RemoveMenu(p)
  PROVE  TreesKnown'
<1>1. CASE PrepareMenu(p)
  <2>1. /\ At(p, "save menu", "prepare")
        /\ request[p].parent # 0 => request[p].parent \in DOMAIN menus
    BY <1>1 DEF PrepareMenu
  <2>2. Active(p) /\ KnowsTrees(p)
    BY <2>1, AtIsActive DEF TreesKnown
  <2>. DEFINE form == [Prepared(menus, request[p]) EXCEPT !.step = "current"]
  <2>3. /\ form.op = "save menu" /\ form.step = "current" /\ form.id = request[p].id
        /\ form.parent = request[p].parent /\ form.path = PathUnder(menus, request[p].parent)
    BY <2>1, <2>2, FormOf DEF At, Prepared, Form
  <2>4. request' = [request EXCEPT ![p] = form] /\ stale' = stale /\ UNCHANGED adminVars
        /\ menus' = menus
    BY <1>1 DEF PrepareMenu, Reads, adminVars, tables
  <2>. HIDE DEF form
  <2>5. ASSUME request'[p] = form PROVE KnowsTrees(p)'
    <3>1. p \notin stale' => TreeReadsHold(p)'
      BY <2>1, <2>2, <2>3, <2>4, <2>5
         DEF KnowsTrees, TreeReadsHold, MayGoThere, IsPrepared, IsDescendant, PathUnder, At
    <3>2. request'[p].parent \in Nat
      BY <2>2, <2>3, <2>5 DEF KnowsTrees
    <3>. QED  BY <2>3, <2>5, <3>1, <3>2 DEF KnowsTrees, HoldsDepartment, At
  <2>. QED  BY <2>4, <2>5, TreesRead
<1>2. CASE ReadMenu(p)
  <2>1. At(p, "save menu", "current") /\ request[p].id \in DOMAIN menus
    BY <1>2 DEF ReadMenu
  <2>2. Active(p) /\ KnowsTrees(p)
    BY <2>1, AtIsActive DEF TreesKnown
  <2>. DEFINE form == [To(p, "store") EXCEPT !.old = menus[request[p].id].path]
  <2>3. /\ form.op = "save menu" /\ form.step = "store" /\ form.id = request[p].id
        /\ form.parent = request[p].parent /\ form.path = request[p].path
        /\ form.old = menus[request[p].id].path
    BY <2>1, <2>2, FormOf DEF At, To, Form
  <2>4. request' = [request EXCEPT ![p] = form] /\ stale' = stale /\ UNCHANGED adminVars
        /\ menus' = menus
    BY <1>2 DEF ReadMenu, Reads, adminVars, tables
  <2>. HIDE DEF form
  <2>5. ASSUME request'[p] = form PROVE KnowsTrees(p)'
    <3>1. p \notin stale' => TreeReadsHold(p)'
      BY <2>1, <2>2, <2>3, <2>4, <2>5
         DEF KnowsTrees, TreeReadsHold, HasOldPath, MayGoThere, IsPrepared, IsDescendant, PathUnder, At
    <3>2. request'[p].parent \in Nat
      BY <2>2, <2>3, <2>5 DEF KnowsTrees
    <3>. QED  BY <2>3, <2>5, <3>1, <3>2 DEF KnowsTrees, HoldsDepartment, At
  <2>. QED  BY <2>4, <2>5, TreesRead
<1>. QED  BY <1>1, <1>2, InsertMenuKnows, MoveMenuKnows, LockGrantsKnow, RemoveMenuKnows

\* A request that begins without having read a tree.
LEMMA TreesBegin ==
  ASSUME NEW p \in Client, AdminIInv, TreesKnown, NEW form, Begins(p, form), UNCHANGED adminVars,
         form.parent \in Nat, form.op \notin NeedsToKnow
  PROVE  TreesKnown'
<1>1. request' = [request EXCEPT ![p] = form] /\ stale' = stale
  BY DEF Begins
<1>2. ASSUME request'[p] = form PROVE KnowsTrees(p)'
  BY <1>2, KnowsNothing
<1>. QED  BY <1>1, <1>2, TreesRead

\* The grants of a role are to be replaced; it and its new targets are locked.
LEMMA SetGrantsKnows ==
  ASSUME NEW p \in Client, AdminIInv, TreesKnown, NEW op \in {"set menus", "set departments"},
         NEW id, NEW ms, NEW ds, SetGrants(p, op, id, ms, ds)
  PROVE  TreesKnown'
<1>. DEFINE form == [Form(op, "write") EXCEPT !.id = id, !.menus = ms, !.departments = ds]
            rows == Rows("role", {id}) \cup Rows("menu", ms) \cup Rows("department", ds)
<1>1. form.op = op /\ form.parent \in Nat
  BY DEF Form
<1>2. /\ request' = [request EXCEPT ![p] = form] /\ stale' = stale
      /\ shared' = [shared EXCEPT ![p] = rows] /\ exclusive' = exclusive
      /\ UNCHANGED <<departments, menus, accounts, given>>
  BY DEF SetGrants, Begins, tables
<1>. HIDE DEF form, rows
<1>3. request'[p] = form /\ OnlyOf(p)
  BY <1>2, Shares
<1>4. KnowsTrees(p)'
  BY <1>1, <1>3, KnowsNothing DEF NeedsToKnow
<1>. QED  BY <1>2, <1>3, <1>4, TreesStand

\* The requests about menus, roles and grants begin.
LEMMA AccessControlBeginsKnow ==
  ASSUME NEW p \in Client, AdminIInv, TreesKnown, AccessControlBegins(p)
  PROVE  TreesKnown'
<1>1. ASSUME NEW parent \in Menu \cup {0}, CreateMenu(p, parent) PROVE TreesKnown'
  <2>. DEFINE form == Prepared(menus, [Form("save menu", "prepare") EXCEPT !.parent = parent])
  <2>1. /\ form.op = "save menu" /\ form.step = "store" /\ form.id = 0
        /\ form.parent = parent /\ form.path = PathUnder(menus, parent)
    BY DEF Prepared, Form
  <2>2. request' = [request EXCEPT ![p] = form] /\ stale' = stale /\ UNCHANGED adminVars
    BY <1>1 DEF CreateMenu, Begins
  <2>3. menus' = menus /\ (parent # 0 => parent \in DOMAIN menus)
    BY <1>1 DEF CreateMenu, adminVars, tables
  <2>. HIDE DEF form
  <2>4. ASSUME request'[p] = form PROVE KnowsTrees(p)'
    <3>1. form.parent \in Nat
      BY <2>1, IdsAre
    <3>2. TreeReadsHold(p)'
      BY <2>1, <2>3, <2>4 DEF TreeReadsHold, HasOldPath, MayGoThere, IsPrepared, PathUnder, At
    <3>. QED  BY <2>1, <2>4, <3>1, <3>2 DEF KnowsTrees, HoldsDepartment, At
  <2>. QED  BY <2>2, <2>4, TreesRead
<1>2. ASSUME NEW parent \in Menu \cup {0}, NEW id \in Menu, UpdateMenu(p, id, parent) PROVE TreesKnown'
  <2>. DEFINE form == [Form("save menu", "prepare") EXCEPT !.id = id, !.parent = parent]
  <2>1. form.op = "save menu" /\ form.step = "prepare" /\ form.id = id /\ form.parent = parent
    BY DEF Form
  <2>2. request' = [request EXCEPT ![p] = form] /\ stale' = stale /\ UNCHANGED adminVars
    BY <1>2 DEF UpdateMenu, Begins
  <2>3. menus' = menus /\ parent # id /\ (parent # 0 => ~IsDescendant(menus, parent, id))
    BY <1>2 DEF UpdateMenu, adminVars, tables
  <2>4. 0 \notin DOMAIN menus
    BY DEF TreesKnown, TreesNow, IsTable
  <2>. HIDE DEF form
  <2>5. ASSUME request'[p] = form PROVE KnowsTrees(p)'
    <3>1. form.parent \in Nat
      BY <2>1, IdsAre
    <3>2. TreeReadsHold(p)'
      BY <2>1, <2>3, <2>4, <2>5 DEF TreeReadsHold, MayGoThere, IsDescendant, At
    <3>. QED  BY <2>1, <2>5, <3>1, <3>2 DEF KnowsTrees, HoldsDepartment, At
  <2>. QED  BY <2>2, <2>5, TreesRead
<1>3. ASSUME NEW id \in Menu, DeleteMenu(p, id) PROVE TreesKnown'
  <2>. DEFINE form == [Form("delete menu", "grants") EXCEPT !.id = id]
  <2>1. form.op = "delete menu" /\ form.step = "grants" /\ form.id = id /\ form.parent \in Nat
    BY DEF Form
  <2>2. request' = [request EXCEPT ![p] = form] /\ stale' = stale /\ UNCHANGED adminVars
    BY <1>3 DEF DeleteMenu, Begins
  <2>3. menus' = menus /\ ~HasChildren(menus, id)
    BY <1>3 DEF DeleteMenu, adminVars, tables
  <2>. HIDE DEF form
  <2>4. ASSUME request'[p] = form PROVE KnowsTrees(p)'
    <3>1. TreeReadsHold(p)'
      BY <2>1, <2>3, <2>4 DEF TreeReadsHold, HasChildren, At
    <3>. QED  BY <2>1, <2>4, <3>1 DEF KnowsTrees, HoldsDepartment, At
  <2>. QED  BY <2>2, <2>4, TreesRead
<1>4. ASSUME NEW ms, NEW ds, NEW id, SaveRole(p, id, ms, ds) PROVE TreesKnown'
  <2>. DEFINE form == [Form("save role", "associations") EXCEPT !.id = id, !.menus = ms, !.departments = ds]
  <2>1. form.op \notin NeedsToKnow /\ form.parent \in Nat
    BY DEF Form, NeedsToKnow
  <2>2. Begins(p, form) /\ UNCHANGED adminVars
    BY <1>4 DEF SaveRole
  <2>. HIDE DEF form
  <2>. QED  BY <2>1, <2>2, TreesBegin
<1>5. ASSUME NEW id, NEW ms, SetRoleMenus(p, id, ms) PROVE TreesKnown'
  BY <1>5, SetGrantsKnows DEF SetRoleMenus
<1>6. ASSUME NEW id, NEW ds, SetRoleDepartments(p, id, ds) PROVE TreesKnown'
  BY <1>6, SetGrantsKnows DEF SetRoleDepartments
<1>7. ASSUME NEW ids, DeleteRoles(p, ids) PROVE TreesKnown'
  <2>. DEFINE form == [Form("delete roles", "write") EXCEPT !.roles = ids]
  <2>1. form.op \notin NeedsToKnow /\ form.parent \in Nat
    BY DEF Form, NeedsToKnow
  <2>2. /\ request' = [request EXCEPT ![p] = form] /\ stale' = stale
        /\ exclusive' = [exclusive EXCEPT ![p] = Rows("role", ids)] /\ shared' = shared
        /\ UNCHANGED <<departments, menus, accounts, given>>
    BY <1>7 DEF DeleteRoles, Begins, tables
  <2>. HIDE DEF form
  <2>3. request'[p] = form /\ OnlyOf(p)
    BY <2>2, Excludes
  <2>4. KnowsTrees(p)'
    BY <2>1, <2>3, KnowsNothing
  <2>. QED  BY <2>2, <2>3, <2>4, TreesStand
<1>. QED  BY <1>1, <1>2, <1>3, <1>4, <1>5, <1>6, <1>7 DEF AccessControlBegins

\* The requests about roles and grants go on.
LEMMA RoleStepKnows ==
  ASSUME NEW p \in Client, AdminIInv, TreesKnown,
         \/ LockAssociations(p) \/ \E role \in Role : StoreRole(p, role)
         \/ StoreRoleMenus(p) \/ StoreRoleDepartments(p) \/ RemoveRoles(p)
  PROVE  TreesKnown'
<1>1. CASE LockAssociations(p)
  <2>. DEFINE form == To(p, "write")
              rows == Rows("menu", request[p].menus) \cup Rows("department", request[p].departments)
  <2>1. At(p, "save role", "associations")
    BY <1>1 DEF LockAssociations
  <2>2. Active(p) /\ request[p].parent \in Nat
    BY <2>1, AtIsActive DEF TreesKnown, KnowsTrees
  <2>3. form.op = "save role" /\ form.parent = request[p].parent
    BY <2>1, <2>2, ToIsForm, ToKeeps DEF At
  <2>4. /\ request' = [request EXCEPT ![p] = form] /\ stale' = stale
        /\ shared' = [shared EXCEPT ![p] = rows] /\ exclusive' = exclusive
        /\ UNCHANGED <<departments, menus, accounts, given>>
    BY <1>1 DEF LockAssociations, Reads, tables
  <2>. HIDE DEF form, rows
  <2>5. request'[p] = form /\ OnlyOf(p)
    BY <2>4, Shares
  <2>6. KnowsTrees(p)'
    BY <2>2, <2>3, <2>5, KnowsNothing DEF NeedsToKnow
  <2>. QED  BY <2>4, <2>5, <2>6, TreesStand
<1>2. ASSUME NEW role \in Role, StoreRole(p, role) PROVE TreesKnown'
  <2>1. /\ (Commits(p) /\ Forgets(p)) \/ ThenEndsRoleSessions(p, role)
        /\ given \subseteq given' /\ UNCHANGED <<departments, menus, accounts>>
    BY <1>2 DEF StoreRole
  <2>2. stale \subseteq stale' \cup {p} /\ OnlyOf(p) /\ KnowsTrees(p)'
    BY <2>1, TreesCommit, TreesEndRoleSessions DEF Forgets
  <2>. QED  BY <2>1, <2>2, TreesStand
<1>3. CASE StoreRoleMenus(p) \/ StoreRoleDepartments(p)
  <2>1. /\ ThenEndsRoleSessions(p, request[p].id)
        /\ given' = given /\ UNCHANGED <<departments, menus, accounts>>
    BY <1>3 DEF StoreRoleMenus, StoreRoleDepartments
  <2>2. stale' = stale /\ OnlyOf(p) /\ KnowsTrees(p)'
    BY <2>1, TreesEndRoleSessions
  <2>. QED  BY <2>1, <2>2, TreesStand
<1>4. CASE RemoveRoles(p)
  <2>1. /\ Commits(p) /\ Forgets(p)
        /\ given' = given /\ UNCHANGED <<departments, menus, accounts>>
    BY <1>4 DEF RemoveRoles
  <2>2. stale \subseteq stale' \cup {p} /\ OnlyOf(p) /\ KnowsTrees(p)'
    BY <2>1, TreesCommit DEF Forgets
  <2>. QED  BY <2>1, <2>2, TreesStand
<1>. QED  BY <1>1, <1>2, <1>3, <1>4

-----------------------------------------------------------------------------
(* Accounts. *)

\* The requests about accounts begin.
LEMMA AccountsBeginsKnow ==
  ASSUME NEW p \in Client, AdminIInv, TreesKnown, AccountsBegins(p)
  PROVE  TreesKnown'
<1>1. ASSUME NEW id, NEW department \in Department \cup {0}, NEW ids, SaveAccount(p, id, department, ids)
      PROVE  TreesKnown'
  <2>. DEFINE form == [Form("save account", "associations") EXCEPT !.id = id, !.parent = department,
                         !.roles = ids]
  <2>1. form.op = "save account" /\ form.step = "associations" /\ form.parent = department
    BY DEF Form
  <2>2. request' = [request EXCEPT ![p] = form] /\ stale' = stale /\ UNCHANGED adminVars
    BY <1>1 DEF SaveAccount, Begins
  <2>. HIDE DEF form
  <2>3. ASSUME request'[p] = form PROVE KnowsTrees(p)'
    <3>1. request'[p].parent \in Nat
      BY <2>1, <2>3, IdsAre
    <3>. QED  BY <2>1, <2>3, <3>1 DEF KnowsTrees, TreeReadsHold, HoldsDepartment, At
  <2>. QED  BY <2>2, <2>3, TreesRead
<1>2. ASSUME NEW id, DeleteAccounts(p, id) PROVE TreesKnown'
  <2>. DEFINE form == [Form("delete accounts", "write") EXCEPT !.id = id]
  <2>1. form.op \notin NeedsToKnow /\ form.parent \in Nat
    BY DEF Form, NeedsToKnow
  <2>2. Begins(p, form) /\ UNCHANGED adminVars
    BY <1>2 DEF DeleteAccounts
  <2>. HIDE DEF form
  <2>. QED  BY <2>1, <2>2, TreesBegin
<1>3. ASSUME NEW ids, Import(p, ids) PROVE TreesKnown'
  <2>. DEFINE form == [Form("import", "departments") EXCEPT !.roles = ids]
  <2>1. form.op = "import" /\ form.step = "departments" /\ form.parent \in Nat
    BY DEF Form
  <2>2. request' = [request EXCEPT ![p] = form] /\ stale' = stale /\ UNCHANGED adminVars
    BY <1>3 DEF Import, Begins
  <2>. HIDE DEF form
  <2>3. ASSUME request'[p] = form PROVE KnowsTrees(p)'
    BY <2>1, <2>3 DEF KnowsTrees, TreeReadsHold, HoldsDepartment, At
  <2>. QED  BY <2>2, <2>3, TreesRead
<1>4. CASE Bootstrap(p)
  <2>. DEFINE form == [Form("bootstrap", "write") EXCEPT !.parent = 1]
  <2>1. form.op \notin NeedsToKnow /\ form.parent \in Nat
    BY DEF Form, NeedsToKnow
  <2>2. Begins(p, form) /\ UNCHANGED adminVars
    BY <1>4 DEF Bootstrap
  <2>. HIDE DEF form
  <2>. QED  BY <2>1, <2>2, TreesBegin
<1>. QED  BY <1>1, <1>2, <1>3, <1>4 DEF AccountsBegins

\* The department of an account that is being saved is locked.
LEMMA LockReferencesKnows ==
  ASSUME NEW p \in Client, AdminIInv, TreesKnown, LockReferences(p)
  PROVE  TreesKnown'
<1>. DEFINE form == To(p, "write")
            rows == Rows("department", {request[p].parent} \ {0}) \cup Rows("role", request[p].roles)
<1>1. /\ At(p, "save account", "associations")
      /\ request[p].parent # 0 => request[p].parent \in DOMAIN departments
  BY DEF LockReferences
<1>2. Active(p) /\ request[p].parent \in Nat
  BY <1>1, AtIsActive DEF TreesKnown, KnowsTrees
<1>3. form.op = "save account" /\ form.step = "write" /\ form.parent = request[p].parent
  BY <1>1, <1>2, ToIsForm, ToKeeps DEF At
<1>4. /\ request' = [request EXCEPT ![p] = form] /\ stale' = stale
      /\ shared' = [shared EXCEPT ![p] = rows] /\ exclusive' = exclusive
      /\ UNCHANGED <<departments, menus, accounts, given>>
  BY DEF LockReferences, Reads, tables
<1>5. request[p].parent # 0 => <<"department", request[p].parent>> \in rows
  BY DEF Rows
<1>. HIDE DEF form, rows
<1>6. request'[p] = form /\ shared'[p] = rows /\ OnlyOf(p)
  BY <1>4, Shares
<1>7. HoldsDepartment(p)'
  BY <1>1, <1>3, <1>4, <1>5, <1>6 DEF HoldsDepartment
<1>8. KnowsTrees(p)'
  BY <1>2, <1>3, <1>6, <1>7 DEF KnowsTrees, TreeReadsHold, At
<1>. QED  BY <1>4, <1>6, <1>8, TreesStand

\* An account stored with a live department, or with none.
LEMMA AccountStored ==
  ASSUME NEW p \in Client, AdminIInv, TreesKnown, NEW account, NEW department,
         department # 0 => department \in DOMAIN departments,
         accounts' = Stored(account, department),
         UNCHANGED <<departments, menus>>, given \subseteq given',
         Outdates(p, Doing({"delete department"})), OnlyOf(p), KnowsTrees(p)'
  PROVE  TreesKnown'
<1>1. DepartmentsAreLive'
  BY DEF TreesKnown, TreesNow, DepartmentsAreLive, Stored
<1>2. TreesNow'
  BY <1>1 DEF TreesKnown, TreesNow
<1>3. LeavesReads(p) /\ LeavesDepartments(p)
  BY OutdatesDeletions DEF LeavesDepartments
<1>. QED  BY <1>2, <1>3, TreesStep

\* The requests about accounts go on.
LEMMA AccountsStepKnow ==
  ASSUME NEW p \in Client, AdminIInv, TreesKnown, ~raced', AccountsStep(p)
  PROVE  TreesKnown'
<1>1. CASE RemoveAccounts(p)
  <2>1. /\ ThenEndsSessions(p, request[p].id) /\ Outdates(p, Doing({"delete department"}))
        /\ accounts' = [a \in DOMAIN accounts \ {request[p].id} |-> accounts[a]]
        /\ UNCHANGED <<departments, menus, given>>
    BY <1>1 DEF RemoveAccounts
  <2>2. DepartmentsAreLive'
    BY <2>1 DEF TreesKnown, TreesNow, DepartmentsAreLive
  <2>3. TreesNow'
    BY <2>1, <2>2 DEF TreesKnown, TreesNow
  <2>4. LeavesReads(p) /\ LeavesDepartments(p)
    BY <2>1, OutdatesDeletions DEF LeavesDepartments
  <2>5. OnlyOf(p) /\ KnowsTrees(p)'
    BY <2>1, TreesEndSessions
  <2>. QED  BY <2>3, <2>4, <2>5, TreesStep
<1>2. ASSUME NEW account \in Account, StoreAccount(p, account) PROVE TreesKnown'
  <2>1. /\ At(p, "save account", "write") /\ accounts' = Stored(account, request[p].parent)
        /\ UNCHANGED <<departments, menus>> /\ given \subseteq given'
        /\ Outdates(p, Doing({"delete department"}))
        /\ Commits(p) \/ ThenEndsSessions(p, account)
    BY <1>2 DEF StoreAccount
  <2>2. request[p].parent # 0 => request[p].parent \in DOMAIN departments
    BY <2>1 DEF TreesKnown, KnowsTrees, HoldsDepartment
  <2>3. OnlyOf(p) /\ KnowsTrees(p)'
    BY <2>1, TreesCommit, TreesEndSessions
  <2>. QED  BY <2>1, <2>2, <2>3, AccountStored
<1>3. ASSUME NEW account \in Account, StoreImported(p, account) PROVE TreesKnown'
  <2>1. /\ At(p, "import", "write") /\ accounts' = Stored(account, request[p].parent)
        /\ UNCHANGED <<departments, menus>> /\ given \subseteq given'
        /\ Outdates(p, Doing({"delete department"})) /\ Commits(p) /\ Relies(p)
    BY <1>3 DEF StoreImported
  <2>2. request[p].parent # 0 => request[p].parent \in DOMAIN departments
    BY <2>1, WriterKnows DEF TreeReadsHold, At
  <2>3. OnlyOf(p) /\ KnowsTrees(p)'
    BY <2>1, TreesCommit
  <2>. QED  BY <2>1, <2>2, <2>3, AccountStored
<1>4. ASSUME NEW account \in Account, StoreFirst(p, account) PROVE TreesKnown'
  <2>1. /\ accounts' = Stored(account, request[p].parent)
        /\ raced' = (raced \/ request[p].parent \notin DOMAIN departments)
        /\ UNCHANGED <<departments, menus>> /\ given \subseteq given'
        /\ Outdates(p, Doing({"delete department"})) /\ Commits(p)
    BY <1>4 DEF StoreFirst
  <2>2. request[p].parent \in DOMAIN departments
    BY <2>1
  <2>3. OnlyOf(p) /\ KnowsTrees(p)'
    BY <2>1, TreesCommit
  <2>. QED  BY <2>1, <2>2, <2>3, AccountStored
<1>5. ASSUME NEW department \in Department \cup {0}, ImportDepartments(p, department) PROVE TreesKnown'
  <2>. DEFINE form == [To(p, "write") EXCEPT !.parent = department]
  <2>1. At(p, "import", "departments") /\ (department # 0 => department \in DOMAIN departments)
    BY <1>5 DEF ImportDepartments
  <2>2. Active(p)
    BY <2>1, AtIsActive
  <2>3. form.op = "import" /\ form.step = "write" /\ form.parent = department
    BY <2>1, <2>2, FormOf DEF At, To, Form
  <2>4. request' = [request EXCEPT ![p] = form] /\ stale' = stale /\ UNCHANGED adminVars
        /\ departments' = departments
    BY <1>5 DEF ImportDepartments, Reads, adminVars, tables
  <2>. HIDE DEF form
  <2>5. ASSUME request'[p] = form PROVE KnowsTrees(p)'
    <3>1. request'[p].parent \in Nat
      BY <2>3, <2>5, IdsAre
    <3>2. TreeReadsHold(p)'
      BY <2>1, <2>3, <2>4, <2>5 DEF TreeReadsHold, At
    <3>. QED  BY <2>3, <2>5, <3>1, <3>2 DEF KnowsTrees, HoldsDepartment, At
  <2>. QED  BY <2>4, <2>5, TreesRead
<1>. QED  BY <1>1, <1>2, <1>3, <1>4, <1>5, LockReferencesKnows DEF AccountsStep

-----------------------------------------------------------------------------
(* All of them. *)

\* What happened under a race is not undone.
LEMMA RacedStays ==
  ASSUME raced, NEW p \in Client,
         \/ OrganizationBegins(p) \/ AccessControlBegins(p) \/ AccountsBegins(p)
         \/ RequestStep(p)
  PROVE  raced'
<1>1. CASE OrganizationBegins(p)
  BY <1>1 DEF OrganizationBegins, CreateDepartment, UpdateDepartment, DeleteDepartment, Begins
<1>2. CASE AccessControlBegins(p)
  BY <1>2 DEF AccessControlBegins, CreateMenu, UpdateMenu, DeleteMenu, SaveRole, SetRoleMenus,
              SetRoleDepartments, SetGrants, DeleteRoles, Begins
<1>3. CASE AccountsBegins(p)
  BY <1>3 DEF AccountsBegins, SaveAccount, DeleteAccounts, Import, Bootstrap, Begins
<1>4. CASE OrganizationStep(p)
  BY <1>4 DEF OrganizationStep, InsertDepartment, CheckDescendant, PrepareDepartment, MoveDepartment,
              CheckAccounts, RemoveDepartment, Reads, Relies
<1>5. CASE AccessControlStep(p)
  BY <1>5 DEF AccessControlStep, InsertMenu, PrepareMenu, ReadMenu, MoveMenu, LockGrants, RemoveMenu,
              LockAssociations, StoreRole, StoreRoleMenus, StoreRoleDepartments, RemoveRoles, Reads,
              Relies, Forgets, ThenEndsRoleSessions
<1>6. CASE AccountsStep(p)
  BY <1>6 DEF AccountsStep, LockReferences, StoreAccount, RemoveAccounts, ImportDepartments,
              StoreImported, StoreFirst, Reads, Relies
<1>7. CASE FindHolders(p) \/ SessionsEnded(p) \/ AdminFails(p) \/ \E a \in Account : EndSession(p, a)
  BY <1>7 DEF FindHolders, SessionsEnded, AdminFails, EndSession, Reads, Forgets
<1>. QED  BY <1>1, <1>2, <1>3, <1>4, <1>5, <1>6, <1>7 DEF RequestStep

\* Nor by a step that is nobody's.
LEMMA RacedRemains ==
  ASSUME raced, [AdminNext]_<<adminVars, requestVars>>
  PROVE  raced'
<1>1. CASE AdminNext
  <2>1. PICK p \in Client :
          \/ OrganizationBegins(p) \/ AccessControlBegins(p) \/ AccountsBegins(p)
          \/ RequestStep(p)
    BY <1>1 DEF AdminNext
  <2>. QED  BY <2>1, RacedStays
<1>2. CASE UNCHANGED <<adminVars, requestVars>>
  BY <1>2 DEF requestVars
<1>. QED  BY <1>1, <1>2

\* The ending of sessions, and a failure, have nothing to do with the trees.
LEMMA EndingKnows ==
  ASSUME NEW p \in Client, AdminIInv, TreesKnown,
         \/ FindHolders(p) \/ SessionsEnded(p) \/ AdminFails(p)
         \/ \E a \in Account : EndSession(p, a)
  PROVE  TreesKnown'
<1>1. CASE FindHolders(p)
  <2>. DEFINE form == [To(p, "end") EXCEPT !.accounts = Holders(request[p].id)]
  <2>1. At(p, "end sessions", "find")
    BY <1>1 DEF FindHolders
  <2>2. Active(p) /\ request[p].parent \in Nat
    BY <2>1, AtIsActive DEF TreesKnown, KnowsTrees
  <2>3. form.op = "end sessions" /\ form.parent = request[p].parent
    BY <2>1, <2>2, FormOf DEF At, To, Form
  <2>4. request' = [request EXCEPT ![p] = form] /\ stale' = stale /\ UNCHANGED adminVars
    BY <1>1 DEF FindHolders, Reads
  <2>. HIDE DEF form
  <2>5. ASSUME request'[p] = form PROVE KnowsTrees(p)'
    BY <2>2, <2>3, <2>5, KnowsNothing DEF NeedsToKnow
  <2>. QED  BY <2>4, <2>5, TreesRead
<1>2. CASE SessionsEnded(p)
  <2>1. request' = [request EXCEPT ![p] = Idle] /\ stale' = stale /\ UNCHANGED adminVars
    BY <1>2 DEF SessionsEnded, Ends
  <2>2. ASSUME request'[p] = Idle PROVE KnowsTrees(p)'
    <3>1. ~Active(p)' /\ request'[p].op = "none"
      BY <2>2, IdleIs DEF Active
    <3>. QED  BY <3>1, KnowsNothing DEF NeedsToKnow
  <2>. QED  BY <2>1, <2>2, TreesRead
<1>3. CASE AdminFails(p)
  <2>1. Commits(p) /\ Forgets(p) /\ UNCHANGED <<departments, menus, accounts, given>>
    BY <1>3 DEF AdminFails, tables
  <2>2. stale \subseteq stale' \cup {p} /\ OnlyOf(p) /\ KnowsTrees(p)'
    BY <2>1, TreesCommit DEF Forgets
  <2>. QED  BY <2>1, <2>2, TreesStand
<1>4. ASSUME NEW a \in Account, EndSession(p, a) PROVE TreesKnown'
  <2>. DEFINE form == [request[p] EXCEPT !.accounts = @ \ {a}]
  <2>1. At(p, "end sessions", "end")
    BY <1>4 DEF EndSession
  <2>2. Active(p) /\ request[p].parent \in Nat
    BY <2>1, AtIsActive DEF TreesKnown, KnowsTrees
  <2>3. form.op = "end sessions" /\ form.parent = request[p].parent
    BY <2>1, <2>2, FormOf DEF At, Form
  <2>4. request' = [request EXCEPT ![p] = form] /\ stale' = stale /\ UNCHANGED adminVars
    BY <1>4 DEF EndSession, Reads
  <2>. HIDE DEF form
  <2>5. ASSUME request'[p] = form PROVE KnowsTrees(p)'
    BY <2>2, <2>3, <2>5, KnowsNothing DEF NeedsToKnow
  <2>. QED  BY <2>4, <2>5, TreesRead
<1>. QED  BY <1>1, <1>2, <1>3, <1>4

\* Nothing is read and nothing written at first.
LEMMA TreesStartKnown ==
  ASSUME AdminStart, TreesStart
  PROVE  TreesIInv
<1>1. PICK tree, forest, some, grants, views, people, held, bound :
        AdminInit(tree, forest, some, grants, views, people, held) /\ RequestsInit(bound)
  BY DEF AdminStart
<1>2. \A id : (id \in DOMAIN departments => <<"department", id>> \in given)
               /\ (id \in DOMAIN menus => <<"menu", id>> \in given)
  BY <1>1 DEF AdminInit, Rows
<1>3. \A p \in Client : request[p] = Idle
  BY <1>1 DEF RequestsInit
<1>4. \A p \in Client : KnowsTrees(p)
  BY <1>3, IdleIs DEF KnowsTrees, Active, TreeReadsHold, HoldsDepartment, At
<1>. QED  BY <1>2, <1>4 DEF TreesStart, TreesIInv, TreesKnown, TreesNow

\* Every step, and none, keeps what is known of the trees.
LEMMA TreesSteps ==
  ASSUME AdminIInv, TreesIInv, DigitsAreClear, [AdminNext]_<<adminVars, requestVars>>
  PROVE  TreesIInv'
<1>1. CASE AdminNext
  <2>1. PICK p \in Client :
          \/ OrganizationBegins(p) \/ AccessControlBegins(p) \/ AccountsBegins(p)
          \/ RequestStep(p)
    BY <1>1 DEF AdminNext
  <2>2. CASE raced
    BY <2>1, <2>2, RacedStays DEF TreesIInv
  <2>3. CASE raced'
    BY <2>3 DEF TreesIInv
  <2>4. CASE ~raced /\ ~raced'
    <3>1. TreesKnown
      BY <2>4 DEF TreesIInv, TreesKnown
    <3>2. NoDigitsMislead(departments) /\ NoDigitsMislead(menus)
      BY DEF DigitsAreClear
    <3>3. CASE OrganizationBegins(p) \/ AccessControlBegins(p) \/ AccountsBegins(p)
      <4>1. TreesKnown'
        BY <3>1, <3>3, OrganizationBeginsKnow, AccessControlBeginsKnow, AccountsBeginsKnow
      <4>. QED  BY <4>1 DEF TreesIInv, TreesKnown
    <3>4. CASE RequestStep(p)
      <4>1. ASSUME OrganizationStep(p) \/ AccountsStep(p) PROVE TreesKnown'
        BY <2>4, <3>1, <3>2, <4>1, OrganizationStepKnows, AccountsStepKnow
      <4>2. ASSUME AccessControlStep(p) PROVE TreesKnown'
        BY <2>4, <3>1, <3>2, <4>2, MenuStepKnows, RoleStepKnows DEF AccessControlStep
      <4>3. TreesKnown'
        BY <3>1, <3>4, <4>1, <4>2, EndingKnows DEF RequestStep
      <4>. QED  BY <4>3 DEF TreesIInv, TreesKnown
    <3>. QED  BY <2>1, <3>3, <3>4
  <2>. QED  BY <2>2, <2>3, <2>4
<1>2. CASE UNCHANGED <<adminVars, requestVars>>
  <2>1. UNCHANGED <<departments, menus, accounts, given, shared, request, stale, raced>>
    BY ONLY <1>2 DEF adminVars, requestVars, tables, locks
  <2>2. TreesNow => TreesNow'
    BY ONLY <2>1 DEF TreesNow, DepartmentsAreLive
  <2>3. ASSUME NEW p \in Client, KnowsTrees(p) PROVE KnowsTrees(p)'
    <3>1. TreeReadsHold(p) => TreeReadsHold(p)'
      BY ONLY <2>1 DEF TreeReadsHold, HasOldPath, MayGoThere, IsPrepared, IsDescendant, HasChildren,
                       PathUnder, At
    <3>2. HoldsDepartment(p) => HoldsDepartment(p)'
      BY ONLY <2>1 DEF HoldsDepartment, At
    <3>. QED  BY ONLY <2>1, <2>3, <3>1, <3>2 DEF KnowsTrees, Active
  <2>. QED  BY <2>1, <2>2, <2>3 DEF TreesIInv, TreesKnown
<1>. QED  BY <1>1, <1>2

\* What is known of the trees is so in every behaviour.
THEOREM TreesInvariant == AdminSpec /\ TreesStart /\ []DigitsAreClear => []TreesIInv
<1>1. AdminSpec => AdminStart /\ [][AdminNext]_<<adminVars, requestVars>>
  BY DEF AdminSpec
<1>. QED  BY <1>1, AdminInvariant, TreesStartKnown, TreesSteps, PTL

(* However many requests of the three services run at once: as long as no     *)
(* commit relies on a read that another one has made old, every parent is a   *)
(* live row, every tree_path says where its row is - also after a move, which *)
(* rewrites those of all rows below it with REPLACE - and every account's     *)
(* department is live.  The trees may have any size and shape, provided that  *)
(* no ids mislead REPLACE: where they do, it is wrong without any race.       *)
THEOREM TreesStaySound == AdminSpec /\ TreesStart /\ []DigitsAreClear => []TreesAreSound
<1>1. TreesIInv => TreesAreSound
  BY DEF TreesIInv, TreesKnown, TreesNow, TreesAreSound
<1>. QED  BY <1>1, TreesInvariant, PTL

(* Then IsDescendant, which refuses moves and scopes the sight of accounts by *)
(* tree_path alone, says of no row that it is below another unless its        *)
(* parents lead up to that one, in a tree of any depth.                       *)
THEOREM DescendantsStayBelow == AdminSpec /\ TreesStart /\ []DigitsAreClear => []DescendantsAreBelow
<1>1. TreesIInv => DescendantsAreBelow
  BY UnderIsBelow DEF TreesIInv, TreesKnown, TreesNow, DescendantsAreBelow
<1>. QED  BY <1>1, TreesInvariant, PTL

(* The rows are among those the tables can hold.                              *)
RowsAreKnown == DOMAIN departments \subseteq Department /\ DOMAIN menus \subseteq Menu

\* Rows come and go, but no other ones.
LEMMA RowsStayKnown ==
  ASSUME RowsAreKnown, [AdminNext]_<<adminVars, requestVars>>
  PROVE  RowsAreKnown'
<1>1. SUFFICES ASSUME NEW p \in Client,
                      \/ OrganizationBegins(p) \/ AccessControlBegins(p) \/ AccountsBegins(p)
                      \/ RequestStep(p)
               PROVE  RowsAreKnown'
  BY DEF AdminNext, adminVars, tables, RowsAreKnown
<1>. USE DEF RowsAreKnown
<1>3. CASE OrganizationBegins(p) \/ AccountsBegins(p)
  BY <1>3 DEF OrganizationBegins, CreateDepartment, UpdateDepartment, DeleteDepartment,
              AccountsBegins, SaveAccount, DeleteAccounts, Import, Bootstrap, adminVars, tables
<1>4. CASE AccessControlBegins(p)
  BY <1>4 DEF AccessControlBegins, CreateMenu, UpdateMenu, DeleteMenu, SaveRole, SetRoleMenus,
              SetRoleDepartments, SetGrants, DeleteRoles, adminVars, tables
<1>5. CASE OrganizationStep(p)
  <2>1. ASSUME NEW id \in Department, InsertDepartment(p, id) PROVE RowsAreKnown'
    BY <2>1 DEF InsertDepartment
  <2>2. CASE MoveDepartment(p)
    <3>. DEFINE form == request[p]
    <3>1. departments' = UpdateTree(departments, form.id, form.parent, form.path, form.old) /\ menus' = menus
      BY <2>2 DEF MoveDepartment
    <3>. HIDE DEF form
    <3>2. DOMAIN departments' = DOMAIN departments
      BY <3>1 DEF UpdateTree
    <3>. QED  BY <3>1, <3>2
  <2>3. CASE RemoveDepartment(p)
    BY <2>3 DEF RemoveDepartment
  <2>4. CASE CheckDescendant(p) \/ PrepareDepartment(p) \/ CheckAccounts(p)
    BY <2>4 DEF CheckDescendant, PrepareDepartment, CheckAccounts, adminVars, tables
  <2>. QED  BY <1>5, <2>1, <2>2, <2>3, <2>4 DEF OrganizationStep
<1>6. CASE AccessControlStep(p)
  <2>1. ASSUME NEW id \in Menu, InsertMenu(p, id) PROVE RowsAreKnown'
    BY <2>1 DEF InsertMenu
  <2>2. CASE MoveMenu(p)
    <3>. DEFINE form == request[p]
    <3>1. menus' = UpdateTree(menus, form.id, form.parent, form.path, form.old) /\ departments' = departments
      BY <2>2 DEF MoveMenu
    <3>. HIDE DEF form
    <3>2. DOMAIN menus' = DOMAIN menus
      BY <3>1 DEF UpdateTree
    <3>. QED  BY <3>1, <3>2
  <2>3. CASE RemoveMenu(p)
    BY <2>3 DEF RemoveMenu
  <2>4. CASE PrepareMenu(p) \/ ReadMenu(p) \/ LockGrants(p) \/ LockAssociations(p)
    BY <2>4 DEF PrepareMenu, ReadMenu, LockGrants, LockAssociations, adminVars, tables
  <2>5. ASSUME (\E role \in Role : StoreRole(p, role)) \/ StoreRoleMenus(p) \/ StoreRoleDepartments(p)
               \/ RemoveRoles(p)
        PROVE  RowsAreKnown'
    BY <2>5 DEF StoreRole, StoreRoleMenus, StoreRoleDepartments, RemoveRoles
  <2>. QED  BY <1>6, <2>1, <2>2, <2>3, <2>4, <2>5 DEF AccessControlStep
<1>7. CASE AccountsStep(p)
  BY <1>7 DEF AccountsStep, LockReferences, StoreAccount, RemoveAccounts, ImportDepartments,
              StoreImported, StoreFirst, adminVars, tables
<1>8. CASE FindHolders(p) \/ SessionsEnded(p) \/ AdminFails(p) \/ \E a \in Account : EndSession(p, a)
  BY <1>8 DEF FindHolders, SessionsEnded, AdminFails, EndSession, adminVars, tables
<1>. QED  BY <1>1, <1>3, <1>4, <1>5, <1>6, <1>7, <1>8 DEF RequestStep

\* Where no id ends in 0, no text of old paths starts inside another number.
LEMMA NoDigitsOfSmall ==
  ASSUME NEW table, IsTable(table), IsExact(table), \A id \in DOMAIN table : id % 10 # 0
  PROVE  NoDigitsMislead(table)
BY DEF NoDigitsMislead, IsExact

(* With ids of which none ends in 0 there is nothing more to ask of the       *)
(* tables: no move, insertion or removal breaks a tree by itself, only a race *)
(* or a bootstrap without department 1 can.                                   *)
THEOREM OtherTreesStaySound ==
  ASSUME \A id \in Department \cup Menu : id % 10 # 0
  PROVE  AdminSpec /\ TreesStart /\ RowsAreKnown => []TreesAreSound
<1>. DEFINE Inv == TreesIInv /\ RowsAreKnown
<1>1. AdminStart /\ TreesStart /\ RowsAreKnown => Inv
  BY TreesStartKnown
<1>2. Inv /\ ~raced => DigitsAreClear
  BY NoDigitsOfSmall DEF TreesIInv, TreesKnown, TreesNow, DigitsAreClear, RowsAreKnown
<1>3. AdminIInv /\ Inv /\ [AdminNext]_<<adminVars, requestVars>> => Inv'
  <2>1. SUFFICES ASSUME AdminIInv, Inv, [AdminNext]_<<adminVars, requestVars>> PROVE TreesIInv'
    BY RowsStayKnown
  <2>2. CASE raced
    BY <2>1, <2>2, RacedRemains DEF TreesIInv
  <2>3. CASE ~raced
    BY <2>1, <2>3, <1>2, TreesSteps
  <2>. QED  BY <2>2, <2>3
<1>4. Inv => TreesAreSound
  BY DEF TreesIInv, TreesKnown, TreesNow, TreesAreSound
<1>. HIDE DEF Inv
<1>. QED  BY <1>1, <1>3, <1>4, AdminInvariant, PTL DEF AdminSpec

-----------------------------------------------------------------------------
(* The realtime hub and bus. *)

\* What a sequence holds when something is appended to it.
LEMMA ToSetOfAppend ==
  ASSUME NEW S, NEW s \in Seq(S), NEW x
  PROVE  ToSet(Append(s, x)) = ToSet(s) \cup {x}
<1>1. DOMAIN Append(s, x) = 1..(Len(s) + 1) /\ DOMAIN s = 1..Len(s) /\ Len(s) \in Nat
  OBVIOUS
<1>2. \A i \in 1..Len(s) : Append(s, x)[i] = s[i]
  OBVIOUS
<1>3. Append(s, x)[Len(s) + 1] = x
  OBVIOUS
<1>. QED  BY <1>1, <1>2, <1>3 DEF ToSet

\* What a sequence holds is its head and what its tail holds.
LEMMA ToSetOfTail ==
  ASSUME NEW S, NEW s \in Seq(S), s # <<>>
  PROVE  /\ Head(s) \in S /\ Tail(s) \in Seq(S) /\ Len(Tail(s)) = Len(s) - 1
         /\ ToSet(s) = {Head(s)} \cup ToSet(Tail(s))
<1>1. Len(s) \in Nat \ {0} /\ DOMAIN s = 1..Len(s)
  OBVIOUS
<1>2. Head(s) \in S /\ Tail(s) \in Seq(S) /\ Len(Tail(s)) = Len(s) - 1 /\ Head(s) = s[1]
  OBVIOUS
<1>3. \A i \in 1..(Len(s) - 1) : Tail(s)[i] = s[i + 1]
  OBVIOUS
<1>4. DOMAIN Tail(s) = 1..(Len(s) - 1)
  BY <1>1, <1>2
<1>5. ToSet(s) \subseteq {Head(s)} \cup ToSet(Tail(s))
  <2>1. ASSUME NEW i \in DOMAIN s PROVE s[i] \in {Head(s)} \cup ToSet(Tail(s))
    <3>1. CASE i = 1
      BY <1>2, <3>1
    <3>2. CASE i # 1
      <4>1. i - 1 \in 1..(Len(s) - 1) /\ (i - 1) + 1 = i
        BY <1>1, <2>1, <3>2
      <4>2. s[i] = Tail(s)[i - 1]
        BY <1>3, <4>1
      <4>. QED  BY <1>4, <4>1, <4>2 DEF ToSet
    <3>. QED  BY <3>1, <3>2
  <2>. QED  BY <2>1 DEF ToSet
<1>6. {Head(s)} \cup ToSet(Tail(s)) \subseteq ToSet(s)
  <2>1. ASSUME NEW i \in DOMAIN Tail(s) PROVE Tail(s)[i] \in ToSet(s)
    <3>1. i \in 1..(Len(s) - 1) /\ i + 1 \in DOMAIN s
      BY <1>1, <1>4, <2>1
    <3>. QED  BY <1>3, <3>1 DEF ToSet
  <2>2. Head(s) \in ToSet(s)
    BY <1>1, <1>2 DEF ToSet
  <2>. QED  BY <2>1, <2>2 DEF ToSet
<1>. QED  BY <1>2, <1>5, <1>6

\* An empty sequence holds nothing.
LEMMA ToSetOfEmpty == ToSet(<<>>) = {}
BY DEF ToSet

-----------------------------------------------------------------------------
(* The hub: types. *)

LEMMA QueueGrows ==
  ASSUME RealtimeTypeOK, NEW c \in Conn, NEW m \in Event \cup {Beat}, Len(queue[c]) # Capacity,
         queue' = [queue EXCEPT ![c] = Append(@, m)]
  PROVE  /\ queue' \in [Conn -> Seq(Event \cup {Beat})]
         /\ \A d \in Conn : Len(queue'[d]) <= Capacity
         /\ ToSet(queue'[c]) = ToSet(queue[c]) \cup {m}
         /\ \A d \in Conn : ToSet(queue[d]) \subseteq ToSet(queue'[d])
<1>1. queue \in [Conn -> Seq(Event \cup {Beat})] /\ \A d \in Conn : Len(queue[d]) <= Capacity
  BY DEF RealtimeTypeOK
<1>2. queue[c] \in Seq(Event \cup {Beat}) /\ Len(queue[c]) \in Nat
  BY <1>1
<1>3. Append(queue[c], m) \in Seq(Event \cup {Beat}) /\ Len(Append(queue[c], m)) = Len(queue[c]) + 1
  BY <1>2
<1>4. Len(queue[c]) + 1 <= Capacity
  BY <1>1, <1>2, CapacityIsNatural
<1>5. ToSet(Append(queue[c], m)) = ToSet(queue[c]) \cup {m}
  BY <1>2, ToSetOfAppend
<1>6. queue' \in [Conn -> Seq(Event \cup {Beat})] /\ \A d \in Conn : Len(queue'[d]) <= Capacity
  BY <1>1, <1>3, <1>4
<1>7. queue'[c] = Append(queue[c], m) /\ \A d \in Conn \ {c} : queue'[d] = queue[d]
  BY <1>1
<1>. QED  BY <1>5, <1>6, <1>7

(* What a message does to a client.                                            *)
LEMMA EnqueueStep ==
  ASSUME RealtimeTypeOK, NEW c \in Conn, NEW m \in Event \cup {Beat}, Enqueues(c, m)
  PROVE  /\ queue' \in [Conn -> Seq(Event \cup {Beat})]
         /\ \A d \in Conn : Len(queue'[d]) <= Capacity /\ ToSet(queue[d]) \subseteq ToSet(queue'[d])
         /\ registered' \subseteq registered
         /\ shut \subseteq shut' /\ shut' \subseteq Conn
         /\ c \in shut' \/ m \in ToSet(queue'[c])
<1>1. CASE c \in shut \/ Len(queue[c]) = Capacity
  <2>1. Disconnect(c) /\ queue' = queue
    BY <1>1, Zenon DEF Enqueues
  <2>2. shut' = shut \cup {c} /\ registered' = registered \ {c} /\ queue' = queue
    BY <2>1 DEF Disconnect
  <2>3. queue \in [Conn -> Seq(Event \cup {Beat})] /\ \A d \in Conn : Len(queue[d]) <= Capacity
    BY DEF RealtimeTypeOK
  <2>4. shut \subseteq Conn
    BY DEF RealtimeTypeOK
  <2>5. registered' \subseteq registered /\ shut \subseteq shut' /\ shut' \subseteq Conn /\ c \in shut'
    BY <2>2, <2>4
  <2>6. \A d \in Conn : Len(queue'[d]) <= Capacity /\ ToSet(queue[d]) \subseteq ToSet(queue'[d])
    BY <2>2, <2>3
  <2>7. queue' \in [Conn -> Seq(Event \cup {Beat})]
    BY <2>2, <2>3
  <2>. QED  BY <2>5, <2>6, <2>7
<1>2. CASE ~(c \in shut \/ Len(queue[c]) = Capacity)
  <2>1. queue' = [queue EXCEPT ![c] = Append(@, m)] /\ UNCHANGED <<shut, registered>>
    BY <1>2, Zenon DEF Enqueues
  <2>2. Len(queue[c]) # Capacity
    BY <1>2
  <2>3. queue' = [queue EXCEPT ![c] = Append(@, m)]
    BY <2>1
  <2>5. /\ queue' \in [Conn -> Seq(Event \cup {Beat})]
        /\ \A d \in Conn : Len(queue'[d]) <= Capacity
        /\ ToSet(queue'[c]) = ToSet(queue[c]) \cup {m}
        /\ \A d \in Conn : ToSet(queue[d]) \subseteq ToSet(queue'[d])
    BY <2>2, <2>3, QueueGrows
  <2>4. shut \subseteq Conn
    BY DEF RealtimeTypeOK
  <2>. QED  BY <2>1, <2>4, <2>5
<1>. QED  BY <1>1, <1>2

(* Nothing of what a client has or is owed is taken from it.                  *)
NothingIsLost ==
  /\ shut \subseteq shut'
  /\ \A c \in Conn : ToSet(got[c]) \cup ToSet(queue[c]) \subseteq ToSet(got'[c]) \cup ToSet(queue'[c])

\* A step that loses no message and owes no new one leaves no silent gap.
LEMMA GapStep ==
  ASSUME NoSilentGap, RealtimeTypeOK, NothingIsLost, owed' = owed,
         \A e \in Event : todo[e] \subseteq todo'[e]
  PROVE  NoSilentGap'
<1>1. \A e \in Event : owed[e] \subseteq Conn
  BY DEF RealtimeTypeOK
<1>. QED  BY <1>1 DEF NoSilentGap, NothingIsLost

(* A step of one connection's handler, which may leave its user's member to   *)
(* others.                                                                    *)
LEMMA PresenceStep ==
  ASSUME PresenceHolds, LateComersAreOvertaken, NEW c \in Conn, RealtimeTypeOK,
         phase' \in [Conn -> {"new", "touching", "open", "left", "removing", "gone"}],
         \A d \in Conn \ {c} : phase'[d] = phase[d],
         registered' \subseteq registered, shut \subseteq shut', presence \subseteq presence',
         phase'[c] = phase[c] \/ phase'[c] \in {"left", "gone"},
         overtaken' = overtaken \/ (overtaken' = overtaken \ {c} /\ Owner[c] \in presence'
                                     /\ ~Leaving(Owner[c])),
         busOpen' => busOpen
  PROVE  PresenceHolds' /\ LateComersAreOvertaken'
<1>1. \A u : Leaving(u)' => Leaving(u)
  BY DEF Leaving
<1>2. \A d \in Conn : phase'[d] \in {"touching", "open"} => phase'[d] = phase[d]
  OBVIOUS
<1>3. PresenceHolds'
  BY <1>2 DEF PresenceHolds, OpenAt
<1>4. LateComersAreOvertaken'
  BY <1>1, <1>2 DEF LateComersAreOvertaken, RealtimeTypeOK
<1>. QED  BY <1>3, <1>4

\* Nothing is owed at first.
LEMMA RealtimeStarts ==
  ASSUME NEW conns, NEW events, RealtimeInit(conns, events)
  PROVE  RealtimeIInv
<1>1. RealtimeTypeOK
  BY CapacityIsNatural, RetriesAreNatural DEF RealtimeInit, RealtimeTypeOK, Users
<1>2. NoSilentGap
  BY DEF RealtimeInit, NoSilentGap
<1>3. PresenceHolds
  BY DEF RealtimeInit, PresenceHolds, OpenAt
<1>4. LateComersAreOvertaken
  BY DEF RealtimeInit, LateComersAreOvertaken
<1>. QED  BY <1>1, <1>2, <1>3, <1>4 DEF RealtimeIInv

\* Deliver: the event is queued, or the client is shut out.
LEMMA DeliverStep ==
  ASSUME RealtimeIInv, NEW e \in Event, NEW c \in Conn, Deliver(e, c)
  PROVE  RealtimeIInv'
<1>1. RealtimeTypeOK /\ NoSilentGap /\ PresenceHolds /\ LateComersAreOvertaken
  BY DEF RealtimeIInv
<1>2. Enqueues(c, e) /\ todo' = [todo EXCEPT ![e] = @ \ {c}]
      /\ UNCHANGED <<phase, got, hubOpen, busOpen, presence, sending, repeats, wire, owed, overtaken>>
  BY DEF Deliver
<1>3. /\ queue' \in [Conn -> Seq(Event \cup {Beat})]
      /\ \A d \in Conn : Len(queue'[d]) <= Capacity /\ ToSet(queue[d]) \subseteq ToSet(queue'[d])
      /\ registered' \subseteq registered /\ shut \subseteq shut' /\ shut' \subseteq Conn
      /\ c \in shut' \/ e \in ToSet(queue'[c])
  BY <1>1, <1>2, EnqueueStep
<1>4. todo' \in [Event -> SUBSET Conn] /\ \A x \in Event : \A d \in todo[x] : d \in todo'[x] \/ (x = e /\ d = c)
  BY <1>1, <1>2 DEF RealtimeTypeOK
<1>5. RealtimeTypeOK'
  BY <1>1, <1>2, <1>3, <1>4 DEF RealtimeTypeOK
<1>6. NoSilentGap'
  BY <1>1, <1>2, <1>3, <1>4 DEF NoSilentGap, RealtimeTypeOK
<1>7. PresenceHolds' /\ LateComersAreOvertaken'
  BY <1>1, <1>2, <1>3, PresenceStep DEF RealtimeTypeOK
<1>. QED  BY <1>5, <1>6, <1>7 DEF RealtimeIInv

(* A step that changes none of what the properties speak of but the handler's *)
(* place, and that only towards the end.                                      *)
LEMMA ConnectStep ==
  ASSUME RealtimeIInv, NEW c \in Conn, Connect(c)
  PROVE  RealtimeIInv'
<1>1. RealtimeTypeOK /\ NoSilentGap /\ PresenceHolds /\ LateComersAreOvertaken
  BY DEF RealtimeIInv
<1>2. /\ phase[c] = "new" /\ phase' = [phase EXCEPT ![c] = "touching"]
      /\ registered' = registered \cup {c}
      /\ overtaken' = IF Leaving(Owner[c]) THEN overtaken \cup {c} ELSE overtaken
      /\ UNCHANGED <<shut, queue, got, busOpen, presence, sending, repeats, todo, wire, owed>>
  BY DEF Connect, Goes, eventVars
<1>3. RealtimeTypeOK'
  BY <1>1, <1>2 DEF RealtimeTypeOK
<1>4. NothingIsLost /\ owed' = owed /\ todo' = todo
  BY <1>2 DEF NothingIsLost
<1>5. NoSilentGap'
  BY <1>1, <1>4, GapStep
<1>6. phase'[c] = "touching" /\ \A d \in Conn \ {c} : phase'[d] = phase[d]
  BY <1>1, <1>2 DEF RealtimeTypeOK
<1>7. overtaken \subseteq overtaken' /\ \A u : Leaving(u)' => Leaving(u)
  BY <1>2, <1>6 DEF Leaving
<1>8. PresenceHolds'
  BY <1>1, <1>2, <1>6, <1>7 DEF PresenceHolds, OpenAt
<1>9. LateComersAreOvertaken'
  <2>1. ASSUME NEW d \in registered', phase'[d] \in {"touching", "open"}, Leaving(Owner[d])'
        PROVE  d \in overtaken'
    <3>1. CASE d = c
      BY <1>2, <1>7, <2>1, <3>1
    <3>2. CASE d # c
      <4>1. d \in registered /\ phase'[d] = phase[d]
        BY <1>1, <1>2, <1>6, <2>1, <3>2 DEF RealtimeTypeOK
      <4>. QED  BY <1>1, <1>7, <2>1, <4>1 DEF LateComersAreOvertaken
    <3>. QED  BY <3>1, <3>2
  <2>. QED  BY <2>1 DEF LateComersAreOvertaken
<1>. QED  BY <1>3, <1>5, <1>8, <1>9 DEF RealtimeIInv

\* A presence is renewed.
LEMMA TouchStep ==
  ASSUME RealtimeIInv, NEW c \in Conn, Touch(c)
  PROVE  RealtimeIInv'
<1>1. RealtimeTypeOK /\ NoSilentGap /\ PresenceHolds /\ LateComersAreOvertaken
  BY DEF RealtimeIInv
<1>2. /\ phase[c] = "touching" /\ phase' = [phase EXCEPT ![c] = "open"]
      /\ presence' = presence \cup {Owner[c]}
      /\ UNCHANGED <<registered, shut, queue, got, busOpen, sending, repeats, todo, wire, owed, overtaken>>
  BY DEF Touch, Goes, eventVars, clientVars
<1>3. RealtimeTypeOK'
  BY <1>1, <1>2 DEF RealtimeTypeOK, Users
<1>4. NothingIsLost /\ owed' = owed /\ todo' = todo
  BY <1>2 DEF NothingIsLost
<1>5. NoSilentGap'
  BY <1>1, <1>4, GapStep
<1>6. phase'[c] = "open" /\ \A d \in Conn \ {c} : phase'[d] = phase[d]
  BY <1>1, <1>2 DEF RealtimeTypeOK
<1>7. \A u : Leaving(u)' => Leaving(u)
  BY <1>6 DEF Leaving
<1>8. PresenceHolds'
  BY <1>1, <1>2, <1>6 DEF PresenceHolds, OpenAt
<1>9. LateComersAreOvertaken'
  <2>1. \A d \in Conn : phase'[d] \in {"touching", "open"} => phase[d] \in {"touching", "open"}
    BY <1>2, <1>6
  <2>. QED  BY <1>1, <1>2, <1>7, <2>1 DEF LateComersAreOvertaken, RealtimeTypeOK
<1>. QED  BY <1>3, <1>5, <1>8, <1>9 DEF RealtimeIInv

(* A handler that ends, in one of the ways that disconnect its client.        *)
LEMMA LeavingStep ==
  ASSUME RealtimeIInv, NEW c \in Conn, TouchFails(c) \/ Leaves(c)
  PROVE  RealtimeIInv'
<1>1. RealtimeTypeOK /\ NoSilentGap /\ PresenceHolds /\ LateComersAreOvertaken
  BY DEF RealtimeIInv
<1>2. PICK place \in {"left", "gone"} :
        /\ phase' = [phase EXCEPT ![c] = place] /\ Disconnect(c)
        /\ presence' \in {presence, presence \cup {Owner[c]}}
        /\ UNCHANGED <<queue, got, busOpen, sending, repeats, todo, wire, owed, overtaken>>
  BY DEF TouchFails, Leaves, Goes, eventVars
<1>3. shut' = shut \cup {c} /\ registered' = registered \ {c}
  BY <1>2 DEF Disconnect
<1>4. RealtimeTypeOK'
  BY <1>1, <1>2, <1>3 DEF RealtimeTypeOK, Users
<1>5. NothingIsLost /\ owed' = owed /\ todo' = todo
  BY <1>2, <1>3 DEF NothingIsLost
<1>6. NoSilentGap'
  BY <1>1, <1>5, GapStep
<1>7. phase'[c] = place /\ \A d \in Conn \ {c} : phase'[d] = phase[d]
  BY <1>1, <1>2 DEF RealtimeTypeOK
<1>8. PresenceHolds' /\ LateComersAreOvertaken'
  BY <1>1, <1>2, <1>3, <1>4, <1>7, PresenceStep DEF RealtimeTypeOK
<1>. QED  BY <1>4, <1>6, <1>8 DEF RealtimeIInv

\* A queued message reaches the client.
LEMMA WriteMessageStep ==
  ASSUME RealtimeIInv, NEW c \in Conn, WriteMessage(c)
  PROVE  RealtimeIInv'
<1>1. RealtimeTypeOK /\ NoSilentGap /\ PresenceHolds /\ LateComersAreOvertaken
  BY DEF RealtimeIInv
<1>. DEFINE m == Head(queue[c])
<1>2. /\ queue[c] # <<>> /\ queue' = [queue EXCEPT ![c] = Tail(@)]
      /\ got' = IF m = Beat THEN got ELSE [got EXCEPT ![c] = Append(@, m)]
      /\ UNCHANGED <<phase, registered, shut, busOpen, presence, sending, repeats, todo, wire, owed, overtaken>>
  BY DEF WriteMessage, eventVars
<1>3. queue[c] \in Seq(Event \cup {Beat}) /\ got[c] \in Seq(Event) /\ Len(queue[c]) <= Capacity
  BY <1>1 DEF RealtimeTypeOK
<1>4. /\ m \in Event \cup {Beat} /\ Tail(queue[c]) \in Seq(Event \cup {Beat})
      /\ Len(Tail(queue[c])) = Len(queue[c]) - 1 /\ ToSet(queue[c]) = {m} \cup ToSet(Tail(queue[c]))
  BY <1>2, <1>3, ToSetOfTail
<1>5. Len(queue[c]) \in Nat
  BY <1>3
<1>. HIDE DEF m
<1>6. /\ queue' \in [Conn -> Seq(Event \cup {Beat})]
      /\ \A d \in Conn : Len(queue'[d]) <= Capacity
      /\ queue'[c] = Tail(queue[c]) /\ \A d \in Conn \ {c} : queue'[d] = queue[d]
  BY <1>1, <1>2, <1>3, <1>4, <1>5, CapacityIsNatural DEF RealtimeTypeOK
<1>7. CASE m = Beat
  <2>1. got' = got
    BY <1>2, <1>7
  <2>2. RealtimeTypeOK'
    BY <1>1, <1>2, <1>6, <2>1 DEF RealtimeTypeOK
  <2>3. \A e \in Event : e # m
    BY <1>7, BeatIsNoEvent
  <2>4. \A e \in Event, d \in Conn : e \in ToSet(got[d]) \cup ToSet(queue[d])
                                       => e \in ToSet(got'[d]) \cup ToSet(queue'[d])
    BY <1>4, <1>6, <2>1, <2>3
  <2>5. NoSilentGap'
    BY <1>1, <1>2, <2>4 DEF NoSilentGap, RealtimeTypeOK
  <2>6. PresenceHolds' /\ LateComersAreOvertaken'
    BY <1>1, <1>2 DEF PresenceHolds, OpenAt, LateComersAreOvertaken, Leaving
  <2>. QED  BY <2>2, <2>5, <2>6 DEF RealtimeIInv
<1>8. CASE m # Beat
  <2>1. got' = [got EXCEPT ![c] = Append(@, m)] /\ m \in Event
    BY <1>2, <1>4, <1>8
  <2>2. Append(got[c], m) \in Seq(Event) /\ ToSet(Append(got[c], m)) = ToSet(got[c]) \cup {m}
    BY <1>3, <2>1, ToSetOfAppend
  <2>3. /\ got' \in [Conn -> Seq(Event)] /\ got'[c] = Append(got[c], m)
        /\ \A d \in Conn \ {c} : got'[d] = got[d]
    BY <1>1, <2>1, <2>2 DEF RealtimeTypeOK
  <2>4. RealtimeTypeOK'
    BY <1>1, <1>2, <1>6, <2>3 DEF RealtimeTypeOK
  <2>5. NothingIsLost
    BY <1>2, <1>4, <1>6, <2>2, <2>3 DEF NothingIsLost
  <2>6. NoSilentGap'
    BY <1>1, <1>2, <2>5, GapStep
  <2>7. PresenceHolds' /\ LateComersAreOvertaken'
    BY <1>1, <1>2 DEF PresenceHolds, OpenAt, LateComersAreOvertaken, Leaving
  <2>. QED  BY <2>4, <2>6, <2>7 DEF RealtimeIInv
<1>. QED  BY <1>7, <1>8, Zenon

\* A heartbeat is queued unless the queue is full.
LEMMA HeartbeatStep ==
  ASSUME RealtimeIInv, NEW c \in Conn, HeartbeatSent(c)
  PROVE  RealtimeIInv'
<1>1. RealtimeTypeOK /\ NoSilentGap /\ PresenceHolds /\ LateComersAreOvertaken
  BY DEF RealtimeIInv
<1>2. /\ phase[c] = "open" /\ UNCHANGED <<got, busOpen, sending, repeats, todo, wire, owed>>
      /\ presence' = presence \/ presence' = presence \cup {Owner[c]}
      /\ overtaken' = overtaken \/ (overtaken' = overtaken \ {c} /\ Owner[c] \in presence'
                                     /\ ~Leaving(Owner[c]))
  BY DEF HeartbeatSent, eventVars
<1>3. /\ phase' = phase \/ phase' = [phase EXCEPT ![c] = "left"]
      /\ \/ Disconnect(c) /\ queue' = queue
         \/ Enqueues(c, Beat)
  BY DEF HeartbeatSent, Goes
<1>4. /\ queue' \in [Conn -> Seq(Event \cup {Beat})]
      /\ \A d \in Conn : Len(queue'[d]) <= Capacity /\ ToSet(queue[d]) \subseteq ToSet(queue'[d])
      /\ registered' \subseteq registered /\ shut \subseteq shut' /\ shut' \subseteq Conn
  <2>1. CASE Disconnect(c) /\ queue' = queue
    BY <1>1, <2>1 DEF Disconnect, RealtimeTypeOK
  <2>2. CASE Enqueues(c, Beat)
    BY <1>1, <2>2, EnqueueStep
  <2>. QED  BY <1>3, <2>1, <2>2
<1>5. /\ phase' \in [Conn -> {"new", "touching", "open", "left", "removing", "gone"}]
      /\ phase'[c] = phase[c] \/ phase'[c] \in {"left", "gone"}
      /\ \A d \in Conn \ {c} : phase'[d] = phase[d]
  BY <1>1, <1>3 DEF RealtimeTypeOK
<1>6. RealtimeTypeOK'
  BY <1>1, <1>2, <1>4, <1>5 DEF RealtimeTypeOK, Users
<1>7. NothingIsLost
  BY <1>2, <1>4 DEF NothingIsLost
<1>8. NoSilentGap'
  BY <1>1, <1>2, <1>7, GapStep
<1>9. PresenceHolds' /\ LateComersAreOvertaken'
  BY <1>1, <1>2, <1>4, <1>5, PresenceStep
<1>. QED  BY <1>6, <1>8, <1>9 DEF RealtimeIInv

\* The answer to a check of presence.
LEMMA CheckOnlineStep ==
  ASSUME RealtimeIInv, NEW c \in Conn, CheckOnline(c)
  PROVE  RealtimeIInv'
<1>1. RealtimeTypeOK /\ NoSilentGap /\ PresenceHolds /\ LateComersAreOvertaken
  BY DEF RealtimeIInv
<1>2. PICK place : /\ phase' = [phase EXCEPT ![c] = place]
                   /\ place = "gone" \/ (place = "removing" /\ ~UserOnline(Owner[c]))
                   /\ UNCHANGED <<registered, shut, queue, got, busOpen, presence, sending, repeats, todo,
                                  wire, owed, overtaken>>
  BY DEF CheckOnline, Goes, clientVars, eventVars
<1>3. phase'[c] = place /\ \A d \in Conn \ {c} : phase'[d] = phase[d]
  BY <1>1, <1>2 DEF RealtimeTypeOK
<1>4. RealtimeTypeOK'
  BY <1>1, <1>2 DEF RealtimeTypeOK
<1>5. NoSilentGap'
  BY <1>1, <1>2, GapStep DEF NothingIsLost
<1>6. PresenceHolds'
  BY <1>1, <1>2, <1>3 DEF PresenceHolds, OpenAt
<1>7. LateComersAreOvertaken'
  <2>1. ASSUME NEW d \in registered', phase'[d] \in {"touching", "open"}, Leaving(Owner[d])'
        PROVE  d \in overtaken'
    <3>1. d # c /\ d \in registered /\ phase[d] \in {"touching", "open"}
      BY <1>1, <1>2, <1>3, <2>1 DEF RealtimeTypeOK
    <3>2. PICK x \in Conn : phase'[x] = "removing" /\ Owner[x] = Owner[d]
      BY <2>1 DEF Leaving
    <3>3. x # c
      BY <1>2, <1>3, <3>1, <3>2 DEF UserOnline
    <3>4. Leaving(Owner[d])
      BY <1>3, <3>2, <3>3 DEF Leaving
    <3>. QED  BY <1>1, <1>2, <3>1, <3>4 DEF LateComersAreOvertaken
  <2>. QED  BY <2>1 DEF LateComersAreOvertaken
<1>. QED  BY <1>4, <1>5, <1>6, <1>7 DEF RealtimeIInv

\* A connection that was removed gives up its presence.
LEMMA UserDisconnectedStep ==
  ASSUME RealtimeIInv, NEW c \in Conn, UserDisconnected(c)
  PROVE  RealtimeIInv'
<1>1. RealtimeTypeOK /\ NoSilentGap /\ PresenceHolds /\ LateComersAreOvertaken
  BY DEF RealtimeIInv
<1>2. /\ phase[c] = "removing" /\ phase' = [phase EXCEPT ![c] = "gone"]
      /\ presence' \in {presence, presence \ {Owner[c]}}
      /\ UNCHANGED <<registered, shut, queue, got, busOpen, sending, repeats, todo, wire, owed, overtaken>>
  BY DEF UserDisconnected, Goes, clientVars, eventVars
<1>3. phase'[c] = "gone" /\ \A d \in Conn \ {c} : phase'[d] = phase[d]
  BY <1>1, <1>2 DEF RealtimeTypeOK
<1>4. RealtimeTypeOK'
  BY <1>1, <1>2 DEF RealtimeTypeOK
<1>5. NoSilentGap'
  BY <1>1, <1>2, GapStep DEF NothingIsLost
<1>6. Leaving(Owner[c]) /\ \A u : Leaving(u)' => Leaving(u)
  BY <1>2, <1>3 DEF Leaving
<1>7. PresenceHolds'
  <2>1. ASSUME NEW d \in Conn, OpenAt(d)', busOpen' PROVE Owner[d] \in presence' \/ d \in overtaken'
    <3>1. d \in registered /\ phase[d] = "open" /\ OpenAt(d)
      BY <1>2, <1>3, <2>1 DEF OpenAt
    <3>2. CASE Owner[d] = Owner[c]
      BY <1>1, <1>2, <1>6, <3>1, <3>2 DEF LateComersAreOvertaken
    <3>3. CASE Owner[d] # Owner[c]
      BY <1>1, <1>2, <2>1, <3>1, <3>3 DEF PresenceHolds
    <3>. QED  BY <3>2, <3>3
  <2>. QED  BY <2>1 DEF PresenceHolds
<1>8. LateComersAreOvertaken'
  <2>1. \A d \in Conn : phase'[d] \in {"touching", "open"} => phase'[d] = phase[d]
    BY <1>3
  <2>. QED  BY <1>1, <1>2, <1>6, <2>1 DEF LateComersAreOvertaken, RealtimeTypeOK
<1>. QED  BY <1>4, <1>5, <1>7, <1>8 DEF RealtimeIInv

(* Steps of the hub and the bus, which leave the handlers where they are.     *)
LEMMA ClosingStep ==
  ASSUME RealtimeIInv,
         \/ HubClose \/ BusClose \/ \E u \in Users : Expire(u)
         \/ \E c \in Conn : CloseClient(c)
  PROVE  RealtimeIInv'
<1>1. RealtimeTypeOK /\ NoSilentGap /\ PresenceHolds /\ LateComersAreOvertaken
  BY DEF RealtimeIInv
<1>2. /\ registered' \subseteq registered /\ shut \subseteq shut' /\ shut' \subseteq Conn
      /\ presence' \subseteq presence
      /\ UNCHANGED <<phase, queue, got, sending, repeats, todo, wire, owed, overtaken>>
  BY <1>1 DEF HubClose, BusClose, Expire, CloseClient, clientVars, eventVars, RealtimeTypeOK
<1>3. busOpen' => \A c \in Conn : OpenAt(c)' => OpenAt(c) /\ busOpen
                                     /\ (Owner[c] \in presence => Owner[c] \in presence')
  BY <1>2 DEF HubClose, BusClose, Expire, CloseClient, clientVars, OpenAt
<1>4. RealtimeTypeOK'
  BY <1>1, <1>2 DEF RealtimeTypeOK
<1>5. NoSilentGap'
  BY <1>1, <1>2, GapStep DEF NothingIsLost
<1>6. PresenceHolds'
  BY <1>1, <1>2, <1>3 DEF PresenceHolds
<1>7. LateComersAreOvertaken'
  BY <1>1, <1>2 DEF LateComersAreOvertaken, Leaving
<1>. QED  BY <1>4, <1>5, <1>6, <1>7 DEF RealtimeIInv

\* What an event may do to the bus's own state.
LEMMA PublishingTypes ==
  ASSUME RealtimeTypeOK,
         \/ Consume
         \/ \E e \in Event : Publish(e) \/ OthersPublish(e) \/ SendUnanswered(e) \/ SendRemote(e)
  PROVE  /\ sending' \in [Event -> {"unsent", "sending", "sent"}] /\ wire' \in Seq(Event)
         /\ repeats' \in [Event -> 0..Retries]
<1>1. /\ sending \in [Event -> {"unsent", "sending", "sent"}] /\ wire \in Seq(Event)
      /\ repeats \in [Event -> 0..Retries]
  BY DEF RealtimeTypeOK
<1>2. CASE Consume
  BY <1>1, <1>2, ToSetOfTail DEF Consume
<1>3. ASSUME NEW e \in Event, Publish(e) \/ OthersPublish(e)
      PROVE  sending' = [sending EXCEPT ![e] = "sending"] /\ UNCHANGED <<wire, repeats>>
  BY <1>3 DEF Publish, OthersPublish
<1>4. ASSUME NEW e \in Event, SendRemote(e)
      PROVE  /\ sending' = [sending EXCEPT ![e] = "sent"] /\ wire' \in {wire, Append(wire, e)}
             /\ repeats' = repeats
  BY <1>4 DEF SendRemote, Sends
<1>5. ASSUME NEW e \in Event, SendUnanswered(e)
      PROVE  /\ sending' = sending /\ wire' \in {wire, Append(wire, e)}
             /\ repeats[e] < Retries /\ repeats' = [repeats EXCEPT ![e] = @ + 1]
  BY <1>5 DEF SendUnanswered, Sends
<1>6. \A e \in Event : Append(wire, e) \in Seq(Event)
  BY <1>1
<1>7. \A e \in Event : repeats[e] < Retries => repeats[e] + 1 \in 0..Retries
  BY <1>1, RetriesAreNatural
<1>. QED  BY <1>1, <1>2, <1>3, <1>4, <1>5, <1>6, <1>7

\* An event is dispatched when its last dispatch is done.
LEMMA DispatchesWhenDone ==
  ASSUME RealtimeTypeOK, OrderIInv,
         \/ Consume
         \/ \E e \in Event : Publish(e) \/ OthersPublish(e) \/ SendUnanswered(e) \/ SendRemote(e)
  PROVE  UNCHANGED <<todo, owed>> \/ \E e \in Event : Dispatches(e) /\ todo[e] = {}
<1>1. CASE Consume
  <2>1. Head(wire) \in Event
    BY <1>1, ToSetOfTail DEF Consume, RealtimeTypeOK
  <2>2. IsForeign(Head(wire)) => todo[Head(wire)] = {}
    BY <1>1, <2>1 DEF Consume, OrderIInv, ForeignIsConsumed
  <2>. QED  BY <1>1, <2>1, <2>2 DEF Consume
<1>2. ASSUME NEW e \in Event, Publish(e) PROVE Dispatches(e) /\ todo[e] = {}
  BY <1>2 DEF Publish, OrderIInv, OwnIsLocal, IsForeign
<1>3. ASSUME NEW e \in Event, OthersPublish(e) \/ SendUnanswered(e) \/ SendRemote(e)
      PROVE  UNCHANGED <<todo, owed>>
  BY <1>3 DEF OthersPublish, SendUnanswered, SendRemote
<1>. QED  BY <1>1, <1>2, <1>3

\* Events are published here and elsewhere, and consumed.
LEMMA PublishingStep ==
  ASSUME RealtimeIInv, OrderIInv,
         \/ Consume
         \/ \E e \in Event : Publish(e) \/ OthersPublish(e) \/ SendUnanswered(e) \/ SendRemote(e)
  PROVE  RealtimeIInv'
<1>1. RealtimeTypeOK /\ NoSilentGap /\ PresenceHolds /\ LateComersAreOvertaken
  BY DEF RealtimeIInv
<1>2. UNCHANGED <<phase, registered, shut, queue, got, busOpen, presence, overtaken>>
  BY DEF Consume, Publish, OthersPublish, SendUnanswered, SendRemote, clientVars
<1>3. UNCHANGED <<todo, owed>> \/ \E e \in Event : Dispatches(e) /\ todo[e] = {}
  BY <1>1, DispatchesWhenDone
<1>4. /\ sending' \in [Event -> {"unsent", "sending", "sent"}] /\ wire' \in Seq(Event)
      /\ repeats' \in [Event -> 0..Retries]
  BY <1>1, PublishingTypes
<1>5. PresenceHolds' /\ LateComersAreOvertaken'
  BY <1>1, <1>2 DEF PresenceHolds, OpenAt, LateComersAreOvertaken, Leaving
<1>6. CASE UNCHANGED <<todo, owed>>
  <2>1. RealtimeTypeOK'
    BY <1>1, <1>2, <1>4, <1>6 DEF RealtimeTypeOK
  <2>2. NoSilentGap'
    BY <1>1, <1>2, <1>6, GapStep DEF NothingIsLost
  <2>. QED  BY <1>5, <2>1, <2>2 DEF RealtimeIInv
<1>7. ASSUME NEW e \in Event, Dispatches(e), todo[e] = {} PROVE RealtimeIInv'
  <2>1. Snapshot(e) \subseteq Conn
    BY <1>1 DEF Snapshot, RealtimeTypeOK
  <2>2. todo' = [todo EXCEPT ![e] = Snapshot(e)] /\ owed' = [owed EXCEPT ![e] = @ \cup Snapshot(e)]
    BY <1>7 DEF Dispatches
  <2>3. RealtimeTypeOK'
    BY <1>1, <1>2, <1>4, <2>1, <2>2 DEF RealtimeTypeOK
  <2>4. /\ owed'[e] = owed[e] \cup todo'[e]
        /\ \A d \in Event \ {e} : todo'[d] = todo[d] /\ owed'[d] = owed[d]
    BY <1>1, <2>2 DEF RealtimeTypeOK
  <2>5. NoSilentGap'
    BY <1>1, <1>2, <1>7, <2>4 DEF NoSilentGap
  <2>. QED  BY <1>5, <2>3, <2>5 DEF RealtimeIInv
<1>. QED  BY <1>3, <1>6, <1>7

-----------------------------------------------------------------------------
(* The order in which a client gets events. *)

(* What is appended to a sequence comes after all it holds.                   *)
LEMMA ComesInAppend ==
  ASSUME NEW S, NEW s \in Seq(S), NEW x, NEW d, NEW e, Comes(Append(s, x), d, e)
  PROVE  Comes(s, d, e) \/ (e = x /\ d \in ToSet(s))
<1>1. /\ Len(s) \in Nat /\ Len(Append(s, x)) = Len(s) + 1 /\ DOMAIN s = 1..Len(s)
      /\ \A i \in 1..Len(s) : Append(s, x)[i] = s[i]
      /\ Append(s, x)[Len(s) + 1] = x
  OBVIOUS
<1>2. PICK i, j \in 1..(Len(s) + 1) : i < j /\ Append(s, x)[i] = d /\ Append(s, x)[j] = e
  BY <1>1 DEF Comes
<1>3. i \in 1..Len(s) /\ d = s[i] /\ d \in ToSet(s)
  BY <1>1, <1>2 DEF ToSet
<1>4. CASE j \in 1..Len(s)
  BY <1>1, <1>2, <1>3, <1>4 DEF Comes
<1>5. CASE j = Len(s) + 1
  BY <1>1, <1>2, <1>3, <1>5
<1>. QED  BY <1>1, <1>2, <1>4, <1>5

(* What comes in order in a tail does so in the sequence, and all of it       *)
(* after the head.                                                            *)
LEMMA ComesInTail ==
  ASSUME NEW S, NEW s \in Seq(S), s # <<>>, NEW d, NEW e
  PROVE  /\ Comes(Tail(s), d, e) => Comes(s, d, e)
         /\ e \in ToSet(Tail(s)) => Comes(s, Head(s), e)
<1>1. /\ Len(s) \in Nat \ {0} /\ Len(Tail(s)) = Len(s) - 1 /\ Head(s) = s[1]
      /\ Tail(s) \in Seq(S)
      /\ \A i \in 1..(Len(s) - 1) : Tail(s)[i] = s[i + 1] /\ i + 1 \in 1..Len(s)
  OBVIOUS
<1>2. DOMAIN Tail(s) = 1..(Len(s) - 1)
  BY <1>1
<1>3. ASSUME Comes(Tail(s), d, e) PROVE Comes(s, d, e)
  <2>1. PICK i, j \in 1..(Len(s) - 1) : i < j /\ Tail(s)[i] = d /\ Tail(s)[j] = e
    BY <1>1, <1>3 DEF Comes
  <2>2. i + 1 < j + 1 /\ s[i + 1] = d /\ s[j + 1] = e /\ i + 1 \in 1..Len(s) /\ j + 1 \in 1..Len(s)
    BY <1>1, <2>1
  <2>. QED  BY <2>2 DEF Comes
<1>4. ASSUME e \in ToSet(Tail(s)) PROVE Comes(s, Head(s), e)
  <2>1. PICK j \in 1..(Len(s) - 1) : Tail(s)[j] = e
    BY <1>2, <1>4 DEF ToSet
  <2>2. 1 < j + 1 /\ s[j + 1] = e /\ 1 \in 1..Len(s) /\ j + 1 \in 1..Len(s)
    BY <1>1, <2>1
  <2>. QED  BY <1>1, <2>2 DEF Comes
<1>. QED  BY <1>3, <1>4

(* Two sequences hold together what each of them holds.                       *)
LEMMA ToSetOfBoth ==
  ASSUME NEW S, NEW g \in Seq(S), NEW q \in Seq(S)
  PROVE  ToSet(g \o q) = ToSet(g) \cup ToSet(q)
<1>1. /\ Len(g) \in Nat /\ Len(q) \in Nat /\ g \o q \in Seq(S) /\ Len(g \o q) = Len(g) + Len(q)
      /\ \A i \in 1..Len(g) : (g \o q)[i] = g[i]
      /\ \A i \in 1..Len(q) : (g \o q)[Len(g) + i] = q[i] /\ Len(g) + i \in 1..(Len(g) + Len(q))
  OBVIOUS
<1>2. DOMAIN g = 1..Len(g) /\ DOMAIN q = 1..Len(q) /\ DOMAIN (g \o q) = 1..(Len(g) + Len(q))
  BY <1>1
<1>3. \A i \in 1..(Len(g) + Len(q)) :
        i \in 1..Len(g) \/ (i - Len(g) \in 1..Len(q) /\ Len(g) + (i - Len(g)) = i)
  BY <1>1
<1>4. ToSet(g \o q) \subseteq ToSet(g) \cup ToSet(q)
  BY <1>1, <1>2, <1>3 DEF ToSet
<1>5. \A i \in 1..Len(g) : i \in 1..(Len(g) + Len(q))
  BY <1>1
<1>6. ToSet(g) \cup ToSet(q) \subseteq ToSet(g \o q)
  BY <1>1, <1>2, <1>5 DEF ToSet
<1>. QED  BY <1>4, <1>6

(* A message that is queued comes last.                                       *)
LEMMA QueuedIsLast ==
  ASSUME NEW S, NEW g \in Seq(S), NEW q \in Seq(S), NEW x \in S
  PROVE  g \o Append(q, x) = Append(g \o q, x)
OBVIOUS

(* A message that goes from the queue to the client keeps its place ...       *)
LEMMA HeadMoves ==
  ASSUME NEW S, NEW g \in Seq(S), NEW q \in Seq(S), q # <<>>
  PROVE  Append(g, Head(q)) \o Tail(q) = g \o q
OBVIOUS

(* ... and one that is taken out leaves the others in theirs.                 *)
LEMMA HeadGoes ==
  ASSUME NEW S, NEW g \in Seq(S), NEW q \in Seq(S), q # <<>>,
         NEW d, NEW e, Comes(g \o Tail(q), d, e)
  PROVE  Comes(g \o q, d, e)
<1>. DEFINE short == g \o Tail(q)
            full == g \o q
            place(i) == IF i <= Len(g) THEN i ELSE i + 1
<1>1. /\ Len(g) \in Nat /\ Len(q) \in Nat /\ Len(full) = Len(g) + Len(q)
      /\ \A i \in 1..Len(g) : full[i] = g[i]
      /\ \A i \in 1..Len(q) : full[Len(g) + i] = q[i]
  OBVIOUS
<1>2. /\ Tail(q) \in Seq(S) /\ Len(Tail(q)) = Len(q) - 1 /\ Len(q) >= 1
      /\ \A i \in 1..(Len(q) - 1) : Tail(q)[i] = q[i + 1]
  BY <1>1
<1>3. /\ Len(short) = Len(g) + (Len(q) - 1)
      /\ \A i \in 1..Len(g) : short[i] = g[i]
      /\ \A i \in 1..(Len(q) - 1) : short[Len(g) + i] = q[i + 1]
  BY <1>2
<1>4. ASSUME NEW i \in 1..Len(short) PROVE place(i) \in 1..Len(full) /\ short[i] = full[place(i)]
  <2>1. CASE i <= Len(g)
    BY <1>1, <1>2, <1>3, <2>1
  <2>2. CASE ~(i <= Len(g))
    <3>1. i - Len(g) \in 1..(Len(q) - 1) /\ Len(g) + (i - Len(g)) = i
      BY <1>1, <1>2, <1>3, <1>4, <2>2
    <3>2. short[i] = q[(i - Len(g)) + 1]
      BY <1>3, <3>1
    <3>3. (i - Len(g)) + 1 \in 1..Len(q) /\ Len(g) + ((i - Len(g)) + 1) = i + 1
      BY <1>1, <3>1
    <3>. QED  BY <1>1, <2>2, <3>2, <3>3
  <2>. QED  BY <2>1, <2>2
<1>5. PICK i, j \in 1..Len(short) : i < j /\ short[i] = d /\ short[j] = e
  BY DEF Comes
<1>6. place(i) < place(j)
  BY <1>1, <1>3, <1>5
<1>. HIDE DEF place, short, full
<1>7. Comes(full, d, e)
  BY <1>4, <1>5, <1>6 DEF Comes
<1>. QED  BY <1>7 DEF full

(* What a client has are its messages, in their order.                        *)
LEMMA MessagesAreHad ==
  ASSUME RealtimeTypeOK, NEW c \in Conn
  PROVE  /\ got[c] \in Seq(Event \cup {Beat}) /\ queue[c] \in Seq(Event \cup {Beat})
         /\ Messages(c) \in Seq(Event \cup {Beat})
         /\ \A e : Has(c, e) <=> e \in ToSet(Messages(c))
<1>1. got[c] \in Seq(Event) /\ queue[c] \in Seq(Event \cup {Beat})
  BY DEF RealtimeTypeOK
<1>2. got[c] \in Seq(Event \cup {Beat})
  BY <1>1
<1>3. got[c] \o queue[c] \in Seq(Event \cup {Beat})
  BY <1>1, <1>2
<1>4. ToSet(got[c] \o queue[c]) = ToSet(got[c]) \cup ToSet(queue[c])
  BY <1>1, <1>2, ToSetOfBoth
<1>. QED  BY <1>1, <1>2, <1>3, <1>4 DEF Messages, Has

(* No client gets an event, or in an order, that it has not had.              *)
NothingComes ==
  \A c \in Conn : /\ \A e \in Event : Has(c, e)' => Has(c, e)
                  /\ \A d, e \in Event : Comes(Messages(c), d, e)' => Comes(Messages(c), d, e)

(* Then, and if no event moves, the order is kept.                            *)
LEMMA NothingComesStep ==
  ASSUME OrderIInv, NothingComes, UNCHANGED eventVars
  PROVE  OrderIInv'
<1>1. UNCHANGED <<origin, sending, todo, wire, consumed, before>>
  BY DEF eventVars
<1>2. BeforeIsSent' /\ OwnIsLocal' /\ ForeignIsConsumed'
  BY <1>1 DEF OrderIInv, BeforeIsSent, OwnIsLocal, ForeignIsConsumed, IsForeign
<1>3. DeliveredHasBegun'
  BY <1>1 DEF OrderIInv, DeliveredHasBegun, NothingComes, IsForeign
<1>4. \A e \in Event : Seen(e)' => Seen(e)
  BY <1>1 DEF Seen, NothingComes
<1>5. WireKeepsOrder'
  <2>1. \A d, e : Comes(wire, d, e)' <=> Comes(wire, d, e)
    BY <1>1 DEF Comes
  <2>. QED  BY <1>1, <1>4, <2>1 DEF OrderIInv, WireKeepsOrder, IsForeign
<1>6. OriginOrder'
  BY <1>1 DEF OrderIInv, OriginOrder, NothingComes, IsForeign
<1>. QED  BY <1>2, <1>3, <1>5, <1>6 DEF OrderIInv

(* Nothing comes where queues stand still.                                    *)
LEMMA QuietMessages ==
  ASSUME UNCHANGED <<queue, got>>
  PROVE  NothingComes
BY DEF NothingComes, Has, Messages, Comes

(* A message is queued for one client.                                         *)
Queued(c, m) == queue' = [queue EXCEPT ![c] = Append(@, m)] /\ UNCHANGED got

(* What a queued message adds to what its client has, and to its order.       *)
LEMMA QueuedAdds ==
  ASSUME RealtimeTypeOK, NEW c \in Conn, NEW m \in Event \cup {Beat}, Queued(c, m)
  PROVE  /\ \A d \in Conn \ {c} : Messages(d)' = Messages(d) /\ \A e : Has(d, e)' <=> Has(d, e)
         /\ \A e : Has(c, e)' => Has(c, e) \/ e = m
         /\ \A d, e : Comes(Messages(c), d, e)' =>
              Comes(Messages(c), d, e) \/ (e = m /\ Has(c, d))
<1>1. /\ got' = got /\ queue'[c] = Append(queue[c], m)
      /\ \A d \in Conn \ {c} : queue'[d] = queue[d]
  BY DEF Queued, RealtimeTypeOK
<1>2. /\ got[c] \in Seq(Event \cup {Beat}) /\ queue[c] \in Seq(Event \cup {Beat})
      /\ Messages(c) \in Seq(Event \cup {Beat})
      /\ \A e : Has(c, e) <=> e \in ToSet(Messages(c))
  BY MessagesAreHad
<1>3. Messages(c)' = Append(Messages(c), m)
  <2>. DEFINE Message == Event \cup {Beat}
  <2>1. got[c] \in Seq(Message) /\ queue[c] \in Seq(Message) /\ m \in Message
    BY <1>2
  <2>. HIDE DEF Message
  <2>2. \A g, q \in Seq(Message), x \in Message : g \o Append(q, x) = Append(g \o q, x)
    BY QueuedIsLast
  <2>3. got[c] \o Append(queue[c], m) = Append(got[c] \o queue[c], m)
    BY <2>1, <2>2, Zenon
  <2>. QED  BY <1>1, <2>3 DEF Messages
<1>4. ToSet(queue'[c]) = ToSet(queue[c]) \cup {m}
  BY <1>1, <1>2, ToSetOfAppend
<1>5. ASSUME NEW d, NEW e, Comes(Messages(c), d, e)'
      PROVE  Comes(Messages(c), d, e) \/ (e = m /\ Has(c, d))
  <2>1. Comes(Append(Messages(c), m), d, e)
    BY <1>3, <1>5 DEF Comes
  <2>. QED  BY <1>2, <2>1, ComesInAppend
<1>6. \A d \in Conn \ {c} : Messages(d)' = Messages(d) /\ \A e : Has(d, e)' <=> Has(d, e)
  BY <1>1 DEF Messages, Has
<1>7. \A e : Has(c, e)' => Has(c, e) \/ e = m
  BY <1>1, <1>4 DEF Has
<1>. QED  BY <1>5, <1>6, <1>7

(* A client's queue takes the message, or stays as it is.                     *)
LEMMA EnqueuesQueues ==
  ASSUME NEW c \in Conn, NEW m, Enqueues(c, m), UNCHANGED got
  PROVE  UNCHANGED <<queue, got>> \/ Queued(c, m)
<1>1. CASE c \in shut \/ Len(queue[c]) = Capacity
  BY <1>1, Zenon DEF Enqueues
<1>2. CASE ~(c \in shut \/ Len(queue[c]) = Capacity)
  BY <1>2, Zenon DEF Enqueues, Queued
<1>. QED  BY <1>1, <1>2

(* Heartbeats are no events.                                                  *)
LEMMA BeatKeepsOrder ==
  ASSUME RealtimeTypeOK, OrderIInv, NEW c \in Conn, HeartbeatSent(c)
  PROVE  OrderIInv'
<1>1. UNCHANGED got /\ UNCHANGED eventVars /\ (UNCHANGED queue \/ Enqueues(c, Beat))
  BY DEF HeartbeatSent
<1>2. UNCHANGED <<queue, got>> \/ Queued(c, Beat)
  BY <1>1, EnqueuesQueues
<1>3. CASE UNCHANGED <<queue, got>>
  BY <1>1, <1>3, QuietMessages, NothingComesStep
<1>4. CASE Queued(c, Beat)
  <2>1. NothingComes
    BY <1>4, QueuedAdds, BeatIsNoEvent DEF NothingComes, Comes
  <2>. QED  BY <1>1, <2>1, NothingComesStep
<1>. QED  BY <1>2, <1>3, <1>4

(* Writing to the client takes from the queue what it gets.                   *)
LEMMA WriteKeepsOrder ==
  ASSUME RealtimeTypeOK, OrderIInv, NEW c \in Conn, WriteMessage(c)
  PROVE  OrderIInv'
<1>. DEFINE m == Head(queue[c])
<1>1. /\ queue[c] # <<>> /\ queue' = [queue EXCEPT ![c] = Tail(@)] /\ UNCHANGED eventVars
      /\ got' = IF m = Beat THEN got ELSE [got EXCEPT ![c] = Append(@, m)]
  BY DEF WriteMessage
<1>2. /\ got[c] \in Seq(Event \cup {Beat}) /\ queue[c] \in Seq(Event \cup {Beat})
      /\ got \in [Conn -> Seq(Event)] /\ queue \in [Conn -> Seq(Event \cup {Beat})]
  BY MessagesAreHad DEF RealtimeTypeOK
<1>3. /\ Append(got[c], m) \o Tail(queue[c]) = got[c] \o queue[c]
      /\ \A d, e : Comes(got[c] \o Tail(queue[c]), d, e) => Comes(got[c] \o queue[c], d, e)
  BY <1>1, <1>2, HeadMoves, HeadGoes
<1>4. ToSet(queue[c]) = {m} \cup ToSet(Tail(queue[c]))
  BY <1>1, <1>2, ToSetOfTail
<1>5. ToSet(Append(got[c], m)) = ToSet(got[c]) \cup {m}
  BY <1>2, ToSetOfAppend
<1>. HIDE DEF m
<1>6. queue'[c] = Tail(queue[c]) /\ \A d \in Conn \ {c} : queue'[d] = queue[d]
  BY <1>1, <1>2
<1>7. /\ got'[c] = got[c] \/ got'[c] = Append(got[c], m)
      /\ \A d \in Conn \ {c} : got'[d] = got[d]
  BY <1>1, <1>2
<1>8. /\ \A d \in Conn \ {c} : Messages(d)' = Messages(d) /\ \A e : Has(d, e)' <=> Has(d, e)
  BY <1>6, <1>7 DEF Messages, Has
<1>9. \A e : Has(c, e)' => Has(c, e)
  BY <1>4, <1>5, <1>6, <1>7 DEF Has
<1>10. ASSUME NEW d, NEW e, Comes(Messages(c), d, e)' PROVE Comes(Messages(c), d, e)
  <2>1. Messages(c)' = got[c] \o Tail(queue[c]) \/ Messages(c)' = got[c] \o queue[c]
    BY <1>3, <1>6, <1>7 DEF Messages
  <2>2. Comes(got[c] \o Tail(queue[c]), d, e) \/ Comes(got[c] \o queue[c], d, e)
    BY <1>10, <2>1 DEF Comes
  <2>. QED  BY <1>3, <2>2 DEF Messages
<1>11. \A a \in Conn \ {c} : \A d, e : Comes(Messages(a), d, e)' => Comes(Messages(a), d, e)
  BY <1>8 DEF Comes
<1>12. NothingComes
  BY <1>8, <1>9, <1>10, <1>11 DEF NothingComes
<1>. QED  BY <1>1, <1>12, NothingComesStep

(* An event is delivered to those it is on its way to, after what came        *)
(* before it.                                                                 *)
LEMMA DeliverKeepsOrder ==
  ASSUME RealtimeTypeOK, OrderIInv, NEW x \in Event, NEW c \in Conn, Deliver(x, c)
  PROVE  OrderIInv'
<1>1. /\ c \in todo[x] /\ todo' = [todo EXCEPT ![x] = @ \ {c}]
      /\ UNCHANGED got /\ Enqueues(c, x)
      /\ UNCHANGED <<origin, sending, wire, consumed, before>>
  BY DEF Deliver
<1>2. UNCHANGED <<queue, got>> \/ Queued(c, x)
  BY <1>1, EnqueuesQueues
<1>3. \A e \in Event : todo'[e] \subseteq todo[e] /\ c \notin todo'[x]
  BY <1>1 DEF RealtimeTypeOK
<1>4. (IsForeign(x) \/ ~Has(c, x)) /\ todo[x] # {} /\ sending[x] # "unsent"
  <2>1. sending[x] # "unsent"
    BY <1>1 DEF OrderIInv, OwnIsLocal, ForeignIsConsumed, WireKeepsOrder, Seen, RealtimeTypeOK
  <2>. QED  BY <1>1, <2>1 DEF OrderIInv, DeliveredHasBegun
<1>5. IsForeign(x) => x \in consumed
  BY <1>4 DEF OrderIInv, ForeignIsConsumed
<1>6. /\ \A d \in Conn, e \in Event : Has(d, e)' => Has(d, e) \/ (d = c /\ e = x)
      /\ \A a \in Conn, d, e \in Event : Comes(Messages(a), d, e)' =>
           Comes(Messages(a), d, e) \/ (a = c /\ e = x /\ Has(c, d))
  <2>1. CASE UNCHANGED <<queue, got>>
    BY <2>1, QuietMessages DEF NothingComes
  <2>2. CASE Queued(c, x)
    BY <2>2, QueuedAdds DEF Comes
  <2>. QED  BY <1>2, <2>1, <2>2
<1>7. BeforeIsSent' /\ OwnIsLocal' /\ ForeignIsConsumed'
  BY <1>1, <1>3 DEF OrderIInv, BeforeIsSent, OwnIsLocal, ForeignIsConsumed, IsForeign
<1>8. DeliveredHasBegun'
  BY <1>1, <1>3, <1>4, <1>6 DEF OrderIInv, DeliveredHasBegun, IsForeign
<1>9. \A e \in Event : IsForeign(e) /\ Seen(e)' => Seen(e)
  BY <1>1, <1>5, <1>6 DEF Seen
<1>10. WireKeepsOrder'
  <2>1. \A d, e : Comes(wire, d, e)' <=> Comes(wire, d, e)
    BY <1>1 DEF Comes
  <2>. QED  BY <1>1, <1>9, <2>1 DEF OrderIInv, WireKeepsOrder, IsForeign
<1>11. ASSUME NEW d \in Event, Has(c, d) PROVE (d = x => IsForeign(x)) /\ <<x, d>> \notin before
  <2>1. d = x => IsForeign(x)
    BY <1>4, <1>11
  <2>2. CASE ~IsForeign(x)
    <3>1. sending[x] = "sending"
      BY <1>4, <2>2 DEF OrderIInv, OwnIsLocal
    <3>. QED  BY <2>1, <3>1 DEF OrderIInv, BeforeIsSent
  <2>3. CASE IsForeign(x)
    <3>1. ASSUME <<x, d>> \in before PROVE FALSE
      <4>1. IsForeign(d) /\ Seen(d)
        BY <1>11, <2>3, <3>1 DEF OrderIInv, BeforeIsSent, IsForeign, Seen
      <4>2. x \notin consumed
        BY <3>1, <4>1 DEF OrderIInv, WireKeepsOrder
      <4>. QED  BY <1>5, <2>3, <4>2
    <3>. QED  BY <2>1, <3>1
  <2>. QED  BY <2>2, <2>3
<1>12. OriginOrder'
  <2>1. ASSUME NEW a \in Conn, NEW d \in Event, NEW e \in Event, Comes(Messages(a), d, e)'
        PROVE  (d = e => IsForeign(d)) /\ <<e, d>> \notin before
    BY <1>6, <1>11, <2>1 DEF OrderIInv, OriginOrder
  <2>. QED  BY <1>1, <2>1 DEF OriginOrder, IsForeign
<1>. QED  BY <1>7, <1>8, <1>10, <1>12 DEF OrderIInv

(* What comes in a sequence is in it.                                         *)
LEMMA ComesIsHeld ==
  ASSUME NEW S, NEW s \in Seq(S), NEW d, NEW e, Comes(s, d, e)
  PROVE  d \in ToSet(s) /\ e \in ToSet(s)
<1>1. DOMAIN s = 1..Len(s)
  OBVIOUS
<1>. QED  BY <1>1 DEF Comes, ToSet

(* What an event that begins follows, has been sent.                          *)
LEMMA FollowsAdds ==
  ASSUME BeforeIsSent, NEW x \in Event, Follows(x)
  PROVE  /\ before' \subseteq Event \X Event
         /\ \A d, e \in Event : <<d, e>> \in before' <=>
              <<d, e>> \in before \/ (e = x /\ sending[d] = "sent" /\ origin[d] = origin[x])
BY DEF BeforeIsSent, Follows

(* The order among the messages of clients does not change when an event      *)
(* begins.                                                                    *)
LEMMA BeginKeepsOrigin ==
  ASSUME RealtimeTypeOK, OrderIInv, NEW x \in Event, sending[x] = "unsent", Follows(x),
         UNCHANGED <<queue, got, origin>>
  PROVE  OriginOrder'
<1>1. ASSUME NEW c \in Conn, NEW d \in Event, NEW e \in Event, Comes(Messages(c), d, e)'
      PROVE  (d = e => IsForeign(d)) /\ <<e, d>> \notin before'
  <2>1. Comes(Messages(c), d, e)
    BY <1>1 DEF Comes, Messages
  <2>2. Has(c, d)
    BY <2>1, MessagesAreHad, ComesIsHeld
  <2>3. d # x
    BY <2>2 DEF OrderIInv, DeliveredHasBegun
  <2>4. (d = e => IsForeign(d)) /\ <<e, d>> \notin before
    BY <2>1 DEF OrderIInv, OriginOrder
  <2>. QED  BY <2>3, <2>4, FollowsAdds DEF OrderIInv
<1>. QED  BY <1>1 DEF OriginOrder, IsForeign

(* Nobody has, and nobody is sent, an event that begins now.                  *)
LEMMA BeginKeepsOrder ==
  ASSUME RealtimeTypeOK, OrderIInv, NEW x \in Event, Publish(x) \/ OthersPublish(x)
  PROVE  OrderIInv'
<1>1. /\ sending[x] = "unsent" /\ sending' = [sending EXCEPT ![x] = "sending"] /\ Follows(x)
      /\ todo' = todo \/ (~IsForeign(x) /\ todo' = [todo EXCEPT ![x] = Snapshot(x)])
      /\ UNCHANGED <<queue, got, origin, wire, consumed>>
  BY DEF Publish, OthersPublish, Dispatches, clientVars, IsForeign
<1>2. /\ sending'[x] = "sending" /\ \A e \in Event \ {x} : sending'[e] = sending[e]
      /\ \A e \in Event : todo'[e] = todo[e] \/ (e = x /\ ~IsForeign(x))
      /\ \A d \in Conn : \A e : Has(d, e)' <=> Has(d, e)
      /\ \A e \in Event : IsForeign(e)' <=> IsForeign(e)
  BY <1>1 DEF RealtimeTypeOK, Has, IsForeign
<1>3. /\ before' \subseteq Event \X Event
      /\ \A d, e \in Event : <<d, e>> \in before' <=>
           <<d, e>> \in before \/ (e = x /\ sending[d] = "sent" /\ origin[d] = origin[x])
  BY <1>1, FollowsAdds DEF OrderIInv
<1>4. BeforeIsSent'
  BY <1>1, <1>2, <1>3 DEF OrderIInv, BeforeIsSent
<1>5. DeliveredHasBegun'
  <2>1. \A d \in Conn : ~Has(d, x)
    BY <1>1 DEF OrderIInv, DeliveredHasBegun
  <2>. QED  BY <1>2, <2>1 DEF OrderIInv, DeliveredHasBegun
<1>6. OwnIsLocal' /\ ForeignIsConsumed'
  BY <1>1, <1>2 DEF OrderIInv, OwnIsLocal, ForeignIsConsumed
<1>7. WireKeepsOrder'
  <2>1. \A e \in Event : Seen(e)' <=> Seen(e)
    BY <1>1, <1>2 DEF Seen
  <2>2. \A d, e \in Event : Comes(wire, d, e)' => Comes(wire, d, e) /\ d \in ToSet(wire)
    BY <1>1, ComesIsHeld DEF Comes, RealtimeTypeOK
  <2>3. IsForeign(x) => ~Seen(x) /\ x \notin ToSet(wire)
    BY <1>1 DEF OrderIInv, WireKeepsOrder
  <2>4. \A e \in Event : IsForeign(e) /\ (Seen(e) \/ e \in ToSet(wire)) => sending'[e] # "unsent"
    BY <1>2 DEF OrderIInv, WireKeepsOrder
  <2>5. \A d, e \in Event : IsForeign(e) /\ Seen(e) /\ <<d, e>> \in before' =>
          d \notin ToSet(wire) /\ d \notin consumed
    BY <1>3, <2>3 DEF OrderIInv, WireKeepsOrder
  <2>6. \A d, e \in Event : IsForeign(d) /\ IsForeign(e) /\ Comes(wire, d, e)' => <<e, d>> \notin before'
    BY <1>3, <2>2, <2>3 DEF OrderIInv, WireKeepsOrder
  <2>. QED  BY <1>1, <1>2, <2>1, <2>4, <2>5, <2>6 DEF WireKeepsOrder
<1>8. OriginOrder'
  BY <1>1, BeginKeepsOrigin
<1>. QED  BY <1>4, <1>5, <1>6, <1>7, <1>8 DEF OrderIInv

(* What is added to the wire is there, and after all that was.                *)
LEMMA WireGrows ==
  ASSUME RealtimeTypeOK, NEW x \in Event, wire' \in {wire, Append(wire, x)}
  PROVE  /\ ToSet(wire') \subseteq ToSet(wire) \cup {x}
         /\ \A d, e : Comes(wire, d, e)' => Comes(wire, d, e) \/ (e = x /\ d \in ToSet(wire))
<1>1. wire \in Seq(Event)
  BY DEF RealtimeTypeOK
<1>2. CASE wire' = wire
  BY <1>2 DEF Comes
<1>3. CASE wire' = Append(wire, x)
  <2>1. ToSet(Append(wire, x)) = ToSet(wire) \cup {x}
    BY <1>1, ToSetOfAppend
  <2>2. ASSUME NEW d, NEW e, Comes(wire, d, e)'
        PROVE  Comes(wire, d, e) \/ (e = x /\ d \in ToSet(wire))
    <3>1. Comes(Append(wire, x), d, e)
      BY <1>3, <2>2 DEF Comes
    <3>. QED  BY <1>1, <3>1, ComesInAppend
  <2>. QED  BY <1>3, <2>1, <2>2
<1>. QED  BY <1>2, <1>3

(* An event that is put on the wire, once more or for the last time, has not  *)
(* been sent: nothing comes after it yet.                                     *)
LEMMA SendKeepsOrder ==
  ASSUME RealtimeTypeOK, OrderIInv, NEW x \in Event, SendUnanswered(x) \/ SendRemote(x)
  PROVE  OrderIInv'
<1>1. /\ sending[x] = "sending" /\ (~IsForeign(x) => todo[x] = {})
      /\ sending' = sending \/ sending' = [sending EXCEPT ![x] = "sent"]
      /\ wire' \in {wire, Append(wire, x)}
      /\ UNCHANGED <<queue, got, origin, todo, consumed, before>>
  BY DEF SendUnanswered, SendRemote, InPublish, Sends, clientVars, IsForeign
<1>2. /\ sending'[x] \in {"sending", "sent"} /\ \A e \in Event \ {x} : sending'[e] = sending[e]
      /\ \A d \in Conn : \A e : Has(d, e)' <=> Has(d, e)
      /\ \A e \in Event : IsForeign(e)' <=> IsForeign(e)
  BY <1>1 DEF RealtimeTypeOK, Has, IsForeign
<1>3. \A e \in Event : <<x, e>> \notin before
  BY <1>1 DEF OrderIInv, BeforeIsSent
<1>4. BeforeIsSent'
  BY <1>1, <1>2 DEF OrderIInv, BeforeIsSent
<1>5. DeliveredHasBegun'
  BY <1>1, <1>2 DEF OrderIInv, DeliveredHasBegun
<1>6. OwnIsLocal' /\ ForeignIsConsumed'
  BY <1>1, <1>2 DEF OrderIInv, OwnIsLocal, ForeignIsConsumed
<1>7. WireKeepsOrder'
  <2>1. \A e \in Event : Seen(e)' <=> Seen(e)
    BY <1>1, <1>2 DEF Seen
  <2>2. /\ ToSet(wire') \subseteq ToSet(wire) \cup {x}
        /\ \A d, e : Comes(wire, d, e)' => Comes(wire, d, e) \/ (e = x /\ d \in ToSet(wire))
    BY <1>1, WireGrows
  <2>3. \A e \in Event : IsForeign(e) /\ (Seen(e) \/ e \in ToSet(wire')) => sending'[e] # "unsent"
    BY <1>2, <2>2 DEF OrderIInv, WireKeepsOrder
  <2>4. \A d, e \in Event : IsForeign(e) /\ Seen(e) /\ <<d, e>> \in before =>
          d \notin ToSet(wire') /\ d \notin consumed
    BY <1>3, <2>2 DEF OrderIInv, WireKeepsOrder
  <2>5. \A d, e \in Event : IsForeign(d) /\ IsForeign(e) /\ Comes(wire, d, e)' => <<e, d>> \notin before
    BY <1>3, <2>2 DEF OrderIInv, WireKeepsOrder
  <2>. QED  BY <1>1, <1>2, <2>1, <2>3, <2>4, <2>5 DEF WireKeepsOrder
<1>8. OriginOrder'
  BY <1>1, <1>2, QuietMessages DEF OrderIInv, OriginOrder, NothingComes
<1>. QED  BY <1>4, <1>5, <1>6, <1>7, <1>8 DEF OrderIInv

(* What is consumed is first on the wire, and the one before it has been      *)
(* delivered.                                                                 *)
LEMMA ConsumeKeepsOrder ==
  ASSUME RealtimeTypeOK, OrderIInv, Consume
  PROVE  OrderIInv'
<1>. DEFINE h == Head(wire)
<1>1. /\ wire # <<>> /\ wire' = Tail(wire) /\ \A e \in consumed : todo[e] = {}
      /\ \/ IsForeign(h) /\ consumed' = {h} /\ todo' = [todo EXCEPT ![h] = Snapshot(h)]
         \/ ~IsForeign(h) /\ UNCHANGED <<consumed, todo>>
      /\ UNCHANGED <<queue, got, origin, sending, before>>
  BY DEF Consume, Dispatches, clientVars
<1>2. /\ h \in Event /\ ToSet(wire) = {h} \cup ToSet(Tail(wire))
  BY <1>1, ToSetOfTail DEF RealtimeTypeOK
<1>3. \A d, e : /\ Comes(Tail(wire), d, e) => Comes(wire, d, e)
                /\ e \in ToSet(Tail(wire)) => Comes(wire, h, e)
  BY <1>1, ComesInTail DEF RealtimeTypeOK
<1>. HIDE DEF h
<1>4. /\ \A d \in Conn : \A e : Has(d, e)' <=> Has(d, e)
      /\ \A e : IsForeign(e)' <=> IsForeign(e)
      /\ \A d, e : Comes(wire, d, e)' <=> Comes(Tail(wire), d, e)
  BY <1>1 DEF Has, IsForeign, Comes
<1>5. BeforeIsSent'
  BY <1>1 DEF OrderIInv, BeforeIsSent
<1>6. IsForeign(h) => sending[h] # "unsent"
  BY <1>2 DEF OrderIInv, WireKeepsOrder
<1>7. DeliveredHasBegun'
  <2>1. \A e \in Event : todo'[e] = todo[e] \/ (e = h /\ IsForeign(h))
    BY <1>1 DEF RealtimeTypeOK
  <2>. QED  BY <1>1, <1>4, <2>1 DEF OrderIInv, DeliveredHasBegun
<1>8. OwnIsLocal'
  BY <1>1, <1>2, <1>4 DEF OrderIInv, OwnIsLocal, RealtimeTypeOK
<1>9. ForeignIsConsumed'
  BY <1>1, <1>2, <1>4 DEF OrderIInv, ForeignIsConsumed, RealtimeTypeOK
<1>10. \A e \in Event : Seen(e)' => Seen(e) \/ (e = h /\ IsForeign(h))
  BY <1>1, <1>4 DEF Seen
<1>11. WireKeepsOrder'
  <2>1. \A e \in Event : IsForeign(e) /\ (Seen(e)' \/ e \in ToSet(wire')) => sending'[e] # "unsent"
    BY <1>1, <1>2, <1>6, <1>10 DEF OrderIInv, WireKeepsOrder
  <2>2. ASSUME NEW d \in Event, NEW e \in Event, IsForeign(e), Seen(e)', <<d, e>> \in before
        PROVE  d \notin ToSet(wire') /\ d \notin consumed'
    <3>1. d # e /\ IsForeign(d)
      BY <2>2 DEF OrderIInv, BeforeIsSent, IsForeign
    <3>2. CASE Seen(e)
      BY <1>1, <1>2, <2>2, <3>2 DEF OrderIInv, WireKeepsOrder
    <3>3. CASE e = h /\ ~Seen(e)
      <4>1. d \notin ToSet(Tail(wire))
        BY <1>3, <2>2, <3>1, <3>3 DEF OrderIInv, WireKeepsOrder
      <4>. QED  BY <1>1, <2>2, <3>1, <3>3, <4>1
    <3>. QED  BY <1>10, <2>2, <3>2, <3>3
  <2>3. \A d, e \in Event : IsForeign(d) /\ IsForeign(e) /\ Comes(wire, d, e)' => <<e, d>> \notin before
    BY <1>3, <1>4 DEF OrderIInv, WireKeepsOrder
  <2>. QED  BY <1>1, <1>4, <2>1, <2>2, <2>3 DEF WireKeepsOrder
<1>12. OriginOrder'
  BY <1>1, <1>4, QuietMessages DEF OrderIInv, OriginOrder, NothingComes
<1>. QED  BY <1>5, <1>7, <1>8, <1>9, <1>11, <1>12 DEF OrderIInv

(* At first no client has anything and nothing is on the wire.                *)
LEMMA OrderInitially ==
  ASSUME NEW conns, NEW events, RealtimeInit(conns, events)
  PROVE  OrderIInv
<1>1. /\ \A c \in Conn : queue[c] = <<>> /\ got[c] = <<>>
      /\ before = {} /\ consumed = {} /\ wire = <<>> /\ \A e \in Event : todo[e] = {}
  BY DEF RealtimeInit
<1>2. \A c \in Conn : \A e : ~Has(c, e)
  BY <1>1, ToSetOfEmpty DEF Has
<1>3. \A d, e : ~Comes(<<>>, d, e)
  BY DEF Comes
<1>4. \A c \in Conn : Messages(c) = <<>>
  BY <1>1 DEF Messages
<1>5. WireKeepsOrder
  BY <1>1, <1>2, <1>3, ToSetOfEmpty DEF WireKeepsOrder, Seen
<1>6. OriginOrder
  BY <1>3, <1>4 DEF OriginOrder
<1>. QED
  BY <1>1, <1>2, <1>5, <1>6
  DEF OrderIInv, BeforeIsSent, DeliveredHasBegun, OwnIsLocal, ForeignIsConsumed

(* The handlers' other steps move no message.                                 *)
LEMMA OrderStep ==
  ASSUME RealtimeTypeOK, OrderIInv, RealtimeNext
  PROVE  OrderIInv'
<1>1. ASSUME NEW c \in Conn,
             \/ Connect(c) \/ Touch(c) \/ TouchFails(c) \/ Leaves(c) \/ CheckOnline(c)
             \/ UserDisconnected(c) \/ CloseClient(c)
      PROVE  OrderIInv'
  <2>1. UNCHANGED <<queue, got>> /\ UNCHANGED eventVars
    BY <1>1 DEF Connect, Touch, TouchFails, Leaves, CheckOnline, UserDisconnected, CloseClient, clientVars
  <2>. QED  BY <2>1, QuietMessages, NothingComesStep
<1>2. ASSUME (\E u \in Users : Expire(u)) \/ HubClose \/ BusClose PROVE OrderIInv'
  <2>1. UNCHANGED <<queue, got>> /\ UNCHANGED eventVars
    BY <1>2 DEF Expire, HubClose, BusClose, clientVars
  <2>. QED  BY <2>1, QuietMessages, NothingComesStep
<1>3. ASSUME NEW c \in Conn, WriteMessage(c) PROVE OrderIInv'
  BY <1>3, WriteKeepsOrder
<1>4. ASSUME NEW c \in Conn, HeartbeatSent(c) PROVE OrderIInv'
  BY <1>4, BeatKeepsOrder
<1>5. ASSUME NEW c \in Conn, NEW e \in Event, Deliver(e, c) PROVE OrderIInv'
  BY <1>5, DeliverKeepsOrder
<1>6. ASSUME NEW e \in Event, Publish(e) \/ OthersPublish(e) \/ SendUnanswered(e) \/ SendRemote(e)
      PROVE  OrderIInv'
  BY <1>6, BeginKeepsOrder, SendKeepsOrder
<1>7. ASSUME Consume PROVE OrderIInv'
  BY <1>7, ConsumeKeepsOrder
<1>. QED  BY <1>1, <1>2, <1>3, <1>4, <1>5, <1>6, <1>7 DEF RealtimeNext

(* No step, nothing moves.                                                    *)
LEMMA OrderStutters ==
  ASSUME OrderIInv, UNCHANGED realtimeVars
  PROVE  OrderIInv'
<1>1. UNCHANGED <<queue, got>> /\ UNCHANGED eventVars
  BY DEF realtimeVars, eventVars
<1>. QED  BY <1>1, QuietMessages, NothingComesStep

\* Whatever connects, disconnects, fills up or shuts down: messages are in one place, and who misses
\* an event it is owed is being disconnected; members of the presence set have a connection; and
\* events come in the order of their instance, however often a PUBLISH is sent again.
THEOREM RealtimeInvariant == RealtimeSpec => [](RealtimeIInv /\ OrderIInv)
<1>1. (\E conns, events : RealtimeInit(conns, events)) => RealtimeIInv /\ OrderIInv
  BY RealtimeStarts, OrderInitially
<1>2. RealtimeIInv /\ OrderIInv /\ [RealtimeNext]_realtimeVars => RealtimeIInv' /\ OrderIInv'
  <2>1. ASSUME RealtimeIInv, OrderIInv, RealtimeNext PROVE RealtimeIInv'
    BY <2>1, DeliverStep, ConnectStep, TouchStep, LeavingStep, WriteMessageStep, HeartbeatStep,
       CheckOnlineStep, UserDisconnectedStep, ClosingStep, PublishingStep DEF RealtimeNext
  <2>2. ASSUME RealtimeIInv, UNCHANGED realtimeVars PROVE RealtimeIInv'
    <3>1. UNCHANGED <<phase, registered, shut, queue, got, busOpen, presence, sending, repeats, todo,
                      wire, owed, overtaken>>
      BY <2>2 DEF realtimeVars
    <3>2. RealtimeTypeOK'
      BY <2>2, <3>1 DEF RealtimeIInv, RealtimeTypeOK
    <3>. QED  BY <2>2, <3>1, <3>2 DEF RealtimeIInv, NoSilentGap, PresenceHolds, OpenAt,
              LateComersAreOvertaken, Leaving
  <2>3. RealtimeIInv => RealtimeTypeOK
    BY DEF RealtimeIInv
  <2>. QED  BY <2>1, <2>2, <2>3, OrderStep, OrderStutters
<1>. QED  BY <1>1, <1>2, PTL DEF RealtimeSpec

(* Whatever the number of connections and events, however often an event      *)
(* comes from Redis, and whenever the hub and the bus close: a client that is *)
(* connected never misses an event that came to this instance's hub for it.   *)
THEOREM NoGapIsSilent == RealtimeSpec => []NoSilentGap
BY RealtimeInvariant, PTL DEF RealtimeIInv

(* However a user's connections come and go, the one presence member they     *)
(* share is there while one of them is open, but for one made in the moment   *)
(* in which another was removing it.                                          *)
THEOREM PresenceIsHeld == RealtimeSpec => []PresenceHolds
BY RealtimeInvariant, PTL DEF RealtimeIInv

(* A client gets the events of one instance in the order in which it          *)
(* published them, and this instance's own once, however its deliveries       *)
(* interleave with heartbeats and writes, whatever comes back from Redis, and *)
(* however often a PUBLISH without a reply is sent again (bus.go: publish,    *)
(* consume).                                                                  *)
THEOREM OrderIsKept == RealtimeSpec => []OriginOrder
BY RealtimeInvariant, PTL DEF OrderIInv

-----------------------------------------------------------------------------
(* Notices. *)

(* What is past its publication stays as it is, but for its end.              *)
StaysFixed(id) ==
  /\ notices[id].status \in Past => notices'[id].audience = notices[id].audience
  /\ notices[id].status = "published" => notices'[id].status \in {"published", "revoked"}
  /\ notices[id].status = "revoked" => notices'[id].status \in {"revoked", "deleted"}
  /\ notices[id].status = "deleted" => notices'[id].status = "deleted"

\* What is true of a notice stays true as long as it is not edited.
LEMMA HoldsOn ==
  ASSUME NoticesTypeOK, \A id \in Notice : StaysFixed(id), shown \subseteq shown'
  PROVE  /\ \A id, u : MarkHolds(id, u) => MarkHolds(id, u)'
         /\ \A kind, audience : \A id \in Notice :
              EventHolds(kind, id, audience) => EventHolds(kind, id, audience)'
<1>1. \A id \in Notice : notices[id].status \in Past =>
         /\ notices'[id].status \in Past /\ notices'[id].audience = notices[id].audience
         /\ notices[id].status # "published" => notices'[id].status # "published"
  BY DEF StaysFixed, Past
<1>2. \A id, u : <<id, u>> \in shown => id \in Notice
  BY DEF NoticesTypeOK
<1>. QED  BY <1>1, <1>2 DEF MarkHolds, EventHolds

\* A step keeps the invariant if it fixes what is published, and what it tells is true.
LEMMA NoticeStep ==
  ASSUME NoticesIInv, NoticesTypeOK', NEW p \in Client, \A id \in Notice : StaysFixed(id),
         shown \subseteq shown', request' = [request EXCEPT ![p] = request'[p]], PendingHolds(p)',
         \A mark \in marks' : mark \in marks \/ MarkHolds(mark[1], mark[2])',
         \A event \in announced' :
           event \in announced \/ EventHolds(event.kind, event.id, event.audience)'
  PROVE  NoticesIInv'
<1>1. NoticesTypeOK /\ IsPerClient(request)
  BY DEF NoticesIInv
<1>2. /\ \A id, u : MarkHolds(id, u) => MarkHolds(id, u)'
      /\ \A kind, audience : \A id \in Notice :
           EventHolds(kind, id, audience) => EventHolds(kind, id, audience)'
  BY <1>1, HoldsOn
<1>3. IsPerClient(request)' /\ \A q \in Client \ {p} : request'[q] = request[q]
  BY <1>1 DEF IsPerClient
<1>4. ASSUME NEW q \in Client, q # p PROVE PendingHolds(q)'
  <2>1. request'[q] = request[q] /\ PendingHolds(q)
    BY <1>3, <1>4 DEF NoticesIInv
  <2>. QED  BY <1>2, <2>1 DEF PendingHolds, At
<1>5. \A mark \in marks' : MarkHolds(mark[1], mark[2])'
  BY <1>2 DEF NoticesIInv
<1>6. \A event \in announced' : EventHolds(event.kind, event.id, event.audience)'
  <2>1. \A event \in announced : event.id \in Notice
    BY <1>1 DEF NoticesTypeOK
  <2>. QED  BY <1>2, <2>1 DEF NoticesIInv
<1>. QED  BY <1>3, <1>4, <1>5, <1>6 DEF NoticesIInv

(* What a request turns to is one of these.                                   *)
LEMMA NoticeBecomes ==
  ASSUME NEW p \in Client, IsPerClient(request), NEW form, request' = [request EXCEPT ![p] = form]
  PROVE  request'[p] = form /\ request' = [request EXCEPT ![p] = request'[p]]
BY DEF IsPerClient

\* A client without a request has nothing to tell.
LEMMA NothingPending ==
  ASSUME NEW p \in Client, IsPerClient(request), request' = [request EXCEPT ![p] = Idle]
  PROVE  PendingHolds(p)' /\ request' = [request EXCEPT ![p] = request'[p]]
<1>1. request'[p] = Idle /\ request' = [request EXCEPT ![p] = request'[p]]
  BY NoticeBecomes
<1>2. Idle.step = "none" /\ Idle.op = "none"
  BY DEF Idle
<1>. QED  BY <1>1, <1>2 DEF PendingHolds, At

\* A request that is to announce what is true.
LEMMA ToAnnounce ==
  ASSUME NEW p \in Client, IsPerClient(request), NEW event \in {"publish", "revoke"},
         NEW id \in Notice, NEW audience,
         request' = [request EXCEPT ![p] = [op |-> event, step |-> "announce", id |-> id,
                                            audience |-> audience]],
         EventHolds(event, id, audience)'
  PROVE  PendingHolds(p)' /\ request' = [request EXCEPT ![p] = request'[p]]
<1>. DEFINE form == [op |-> event, step |-> "announce", id |-> id, audience |-> audience]
<1>1. form.op = event /\ form.step = "announce" /\ form.id = id /\ form.audience = audience
  OBVIOUS
<1>2. request' = [request EXCEPT ![p] = form]
  OBVIOUS
<1>. HIDE DEF form
<1>3. request'[p] = form /\ request' = [request EXCEPT ![p] = request'[p]]
  BY <1>2, NoticeBecomes
<1>. QED  BY <1>1, <1>3 DEF PendingHolds, At

\* One notice's row changes.
LEMMA RowChanges ==
  ASSUME NoticesTypeOK, NEW id \in Notice,
         NEW row \in [status : {"none", "draft", "published", "revoked", "deleted"}, audience : SUBSET User],
         notices' = [notices EXCEPT ![id] = row], marks' \subseteq marks, shown' = shown,
         announced' = announced
  PROVE  /\ NoticesTypeOK' /\ notices'[id] = row
         /\ \A other \in Notice \ {id} : StaysFixed(other)
BY DEF NoticesTypeOK, StaysFixed

\* A draft is stored, unless it has been published meanwhile.
LEMMA StoreNoticeStep ==
  ASSUME NoticesIInv, NEW p \in Client, NEW id \in Notice, StoreNotice(p, id)
  PROVE  NoticesIInv' /\ \A other \in Notice : StaysFixed(other)
<1>1. NoticesTypeOK /\ IsPerClient(request)
  BY DEF NoticesIInv
<1>. PICK form : form = request[p]
  OBVIOUS
<1>. DEFINE row == [status |-> IF form.publish THEN "published" ELSE "draft", audience |-> form.audience]
<1>2. form.audience \in SUBSET User
  BY DEF StoreNotice, NoticesIInv, PendingHolds, Audience
<1>3. row \in [status : {"none", "draft", "published", "revoked", "deleted"}, audience : SUBSET User]
  BY <1>2
<1>4. row.audience = form.audience /\ (form.publish => row.status = "published")
  OBVIOUS
<1>5. notices[id].status \in {"none", "draft"}
  <2>1. NoNotice.status = "none"
    BY DEF NoNotice
  <2>2. notices[id] = NoNotice \/ notices[id].status = "draft"
    BY DEF StoreNotice, Expected
  <2>. QED  BY <2>1, <2>2
<1>6. notices' = [notices EXCEPT ![id] = row] /\ marks' = WithoutMarks(id)
      /\ UNCHANGED <<shown, announced>>
  BY DEF StoreNotice, Writes
<1>7. \/ request' = [request EXCEPT ![p] = Idle]
      \/ form.publish /\ request' = [request EXCEPT ![p] =
           [op |-> "publish", step |-> "announce", id |-> id, audience |-> row.audience]]
  <2>1. CASE form.publish
    BY <2>1 DEF StoreNotice, Writes, Reads
  <2>2. CASE ~form.publish
    BY <2>2 DEF StoreNotice, Writes, Ends
  <2>. QED  BY <2>1, <2>2
<1>. HIDE DEF row
<1>8. marks' \subseteq marks
  BY <1>6 DEF WithoutMarks
<1>9. NoticesTypeOK' /\ notices'[id] = row /\ \A other \in Notice \ {id} : StaysFixed(other)
  BY <1>1, <1>3, <1>6, <1>8, RowChanges
<1>10. StaysFixed(id)
  BY <1>5 DEF StaysFixed, Past
<1>11. PendingHolds(p)' /\ request' = [request EXCEPT ![p] = request'[p]]
  <2>1. CASE request' = [request EXCEPT ![p] = Idle]
    BY <1>1, <2>1, NothingPending
  <2>2. CASE form.publish /\ request' = [request EXCEPT ![p] =
               [op |-> "publish", step |-> "announce", id |-> id, audience |-> row.audience]]
    <3>1. EventHolds("publish", id, row.audience)'
      BY <1>4, <1>9, <2>2 DEF EventHolds, Past
    <3>. QED  BY <1>1, <2>2, <3>1, ToAnnounce
  <2>. QED  BY <1>7, <2>1, <2>2
<1>12. \A other \in Notice : StaysFixed(other)
  BY <1>9, <1>10
<1>. QED  BY <1>6, <1>8, <1>9, <1>11, <1>12, NoticeStep

\* A notice is published or revoked, from the status that is expected.
LEMMA TransitionStep ==
  ASSUME NoticesIInv, NEW p \in Client, NEW id \in Notice, PublishNotice(p, id) \/ RevokeNotice(p, id)
  PROVE  NoticesIInv' /\ \A other \in Notice : StaysFixed(other)
<1>1. NoticesTypeOK /\ IsPerClient(request)
  BY DEF NoticesIInv
<1>2. PICK from, to, event :
        /\ Transition(p, id, from, to, event)
        /\ \/ from = "draft" /\ to = "published" /\ event = "publish"
           \/ from = "published" /\ to = "revoked" /\ event = "revoke"
  BY DEF PublishNotice, RevokeNotice
<1>. PICK audience : audience = notices[id].audience
  OBVIOUS
<1>3. /\ notices[id].status = from /\ notices' = [notices EXCEPT ![id].status = to]
      /\ marks' = WithoutMarks(id) /\ UNCHANGED <<shown, announced>>
      /\ request' = [request EXCEPT ![p] = [op |-> event, step |-> "announce", id |-> id,
                                            audience |-> audience]]
  BY <1>2 DEF Transition, Expected
<1>. DEFINE row == [notices[id] EXCEPT !.status = to]
<1>4. notices[id] \in [status : {"none", "draft", "published", "revoked", "deleted"}, audience : SUBSET User]
  BY <1>1 DEF NoticesTypeOK
<1>5. /\ row \in [status : {"none", "draft", "published", "revoked", "deleted"}, audience : SUBSET User]
      /\ row.status = to /\ row.audience = notices[id].audience
  BY <1>2, <1>4
<1>6. notices' = [notices EXCEPT ![id] = row]
  BY <1>3
<1>. HIDE DEF row
<1>7. marks' \subseteq marks
  BY <1>3 DEF WithoutMarks
<1>8. NoticesTypeOK' /\ notices'[id] = row /\ \A other \in Notice \ {id} : StaysFixed(other)
  BY <1>1, <1>3, <1>5, <1>6, <1>7, RowChanges
<1>9. StaysFixed(id)
  BY <1>2, <1>3, <1>5, <1>8 DEF StaysFixed, Past
<1>10. EventHolds(event, id, audience)'
  <2>1. /\ notices'[id].status \in Past /\ notices'[id].audience = audience
        /\ event = "revoke" => notices'[id].status # "published"
    BY <1>2, <1>5, <1>8 DEF Past
  <2>. QED  BY <2>1 DEF EventHolds
<1>11. PendingHolds(p)' /\ request' = [request EXCEPT ![p] = request'[p]]
  <2>1. IsPerClient(request) /\ event \in {"publish", "revoke"}
    BY ONLY <1>1, <1>2
  <2>2. request' = [request EXCEPT ![p] = [op |-> event, step |-> "announce", id |-> id,
                                           audience |-> audience]]
    BY ONLY <1>3
  <2>. QED  BY <2>1, <2>2, <1>10, ToAnnounce
<1>12. \A other \in Notice : StaysFixed(other)
  BY <1>8, <1>9
<1>. QED  BY <1>3, <1>7, <1>8, <1>11, <1>12, NoticeStep

\* Where no row changes nothing published does.
LEMMA NoneMoves ==
  ASSUME notices' = notices
  PROVE  \A id : StaysFixed(id)
BY DEF StaysFixed

(* A new request that says nothing to be held to but a new notice's audience. *)
LEMMA SaveNoticeStep ==
  ASSUME NoticesIInv, NEW p \in Client, NEW id, NEW audience \in Audience, NEW publish,
         SaveNotice(p, id, audience, publish)
  PROVE  NoticesIInv' /\ \A other \in Notice : StaysFixed(other)
<1>1. NoticesTypeOK /\ IsPerClient(request)
  BY DEF NoticesIInv
<1>. DEFINE form == [op |-> "save notice", step |-> "write", id |-> id, audience |-> audience,
                     publish |-> publish]
<1>2. form.op = "save notice" /\ form.step = "write" /\ form.audience = audience
  OBVIOUS
<1>3. request' = [request EXCEPT ![p] = form] /\ UNCHANGED <<notices, marks, shown, announced>>
  BY DEF SaveNotice, Begins, noticeVars
<1>. HIDE DEF form
<1>4. request'[p] = form /\ request' = [request EXCEPT ![p] = request'[p]]
  BY <1>1, <1>3, NoticeBecomes
<1>5. PendingHolds(p)'
  BY <1>2, <1>4 DEF PendingHolds, At
<1>6. NoticesTypeOK'
  BY <1>1, <1>3 DEF NoticesTypeOK
<1>7. \A other \in Notice : StaysFixed(other)
  BY <1>3, NoneMoves
<1>. QED  BY <1>3, <1>4, <1>5, <1>6, <1>7, NoticeStep

\* An event is sent.
LEMMA AnnounceStep ==
  ASSUME NoticesIInv, NEW p \in Client, Announce(p)
  PROVE  NoticesIInv' /\ \A other \in Notice : StaysFixed(other)
<1>1. NoticesTypeOK /\ IsPerClient(request)
  BY DEF NoticesIInv
<1>. PICK form : form = request[p]
  OBVIOUS
<1>. DEFINE event == [kind |-> form.op, id |-> form.id, audience |-> form.audience]
<1>2. /\ form.op \in {"publish", "revoke"} /\ form.step = "announce"
      /\ announced' = announced \cup {event}
      /\ request' = [request EXCEPT ![p] = Idle] /\ UNCHANGED <<notices, marks, shown>>
  BY DEF Announce, Ends, At
<1>3. form.id \in Notice /\ EventHolds(form.op, form.id, form.audience)
  BY <1>2 DEF NoticesIInv, PendingHolds
<1>4. form.audience \in SUBSET User
  BY <1>1, <1>3 DEF EventHolds, NoticesTypeOK
<1>5. /\ event.kind = form.op /\ event.id = form.id /\ event.audience = form.audience
      /\ event \in [kind : {"publish", "revoke"}, id : Notice, audience : SUBSET User]
  BY <1>2, <1>3, <1>4
<1>. HIDE DEF event
<1>6. NoticesTypeOK'
  BY <1>1, <1>2, <1>5 DEF NoticesTypeOK
<1>7. PendingHolds(p)' /\ request' = [request EXCEPT ![p] = request'[p]]
  BY <1>1, <1>2, NothingPending
<1>8. \A other \in Notice : StaysFixed(other)
  BY <1>2, NoneMoves
<1>9. EventHolds(event.kind, event.id, event.audience)'
  BY <1>2, <1>3, <1>5 DEF EventHolds
<1>10. announced' = announced \cup {event} /\ shown' = shown /\ marks' = marks
  BY <1>2
<1>11. \A x \in announced' : x \in announced \/ EventHolds(x.kind, x.id, x.audience)'
  BY <1>9, <1>10
<1>. QED  BY <1>6, <1>7, <1>8, <1>10, <1>11, NoticeStep

\* Notices are deleted, unless one of them is published.
LEMMA DeleteNoticesStep ==
  ASSUME NoticesIInv, NEW p \in Client, NEW ids, DeleteNotices(p, ids)
  PROVE  NoticesIInv' /\ \A other \in Notice : StaysFixed(other)
<1>1. NoticesTypeOK /\ IsPerClient(request)
  BY DEF NoticesIInv
<1>2. /\ \A id \in ids : notices[id].status \in {"draft", "revoked"}
      /\ notices' = [id \in Notice |-> IF id \in ids THEN [notices[id] EXCEPT !.status = "deleted"]
                                       ELSE notices[id]]
      /\ marks' \subseteq marks /\ UNCHANGED <<request, shown, announced>>
  BY DEF DeleteNotices, Once
<1>3. ASSUME NEW id \in Notice
      PROVE  /\ notices'[id] \in [status : {"none", "draft", "published", "revoked", "deleted"},
                                  audience : SUBSET User]
             /\ StaysFixed(id)
  <2>1. notices[id] \in [status : {"none", "draft", "published", "revoked", "deleted"}, audience : SUBSET User]
    BY <1>1 DEF NoticesTypeOK
  <2>2. CASE id \in ids
    <3>1. notices'[id] = [notices[id] EXCEPT !.status = "deleted"]
      BY <1>2, <2>2
    <3>2. notices'[id].status = "deleted" /\ notices'[id].audience = notices[id].audience
      BY <2>1, <3>1
    <3>. QED  BY <1>2, <2>1, <2>2, <3>1, <3>2 DEF StaysFixed
  <2>3. CASE id \notin ids
    <3>1. notices'[id] = notices[id]
      BY <1>2, <2>3
    <3>. QED  BY <2>1, <3>1 DEF StaysFixed
  <2>. QED  BY <2>2, <2>3
<1>4. notices' \in [Notice -> [status : {"none", "draft", "published", "revoked", "deleted"},
                               audience : SUBSET User]]
  BY <1>2, <1>3
<1>5. NoticesTypeOK'
  BY <1>1, <1>2, <1>4 DEF NoticesTypeOK
<1>6. request' = [request EXCEPT ![p] = request'[p]]
  BY <1>1, <1>2 DEF IsPerClient
<1>7. PendingHolds(p)'
  <2>1. \A id, u : MarkHolds(id, u) => MarkHolds(id, u)'
    BY <1>1, <1>2, <1>3, HoldsOn
  <2>2. \A kind, audience : \A id \in Notice :
          EventHolds(kind, id, audience) => EventHolds(kind, id, audience)'
    BY <1>1, <1>2, <1>3, HoldsOn
  <2>3. request'[p] = request[p] /\ PendingHolds(p)
    BY <1>2 DEF NoticesIInv
  <2>. QED  BY <2>1, <2>2, <2>3 DEF PendingHolds, At
<1>. QED  BY <1>2, <1>3, <1>5, <1>6, <1>7, NoticeStep

(* Who looks at a notice, and marks it as read in a later step.               *)
LEMMA ReadNoticeStep ==
  ASSUME NoticesIInv, NEW p \in Client, NEW u \in User, NEW id \in Notice, GetNotice(p, u, id)
  PROVE  NoticesIInv' /\ \A other \in Notice : StaysFixed(other)
<1>1. NoticesTypeOK /\ IsPerClient(request)
  BY DEF NoticesIInv
<1>. DEFINE form == [op |-> "get notice", step |-> "mark", id |-> id, user |-> u]
<1>2. form.op = "get notice" /\ form.step = "mark" /\ form.id = id /\ form.user = u
  OBVIOUS
<1>3. /\ request' = [request EXCEPT ![p] = form] /\ UNCHANGED <<notices, marks, announced>>
      /\ shown' = shown \cup {<<id, u>>} /\ VisibleTo(id, u)
  BY DEF GetNotice, Begins
<1>. HIDE DEF form
<1>4. request'[p] = form /\ request' = [request EXCEPT ![p] = request'[p]]
  BY <1>1, <1>3, NoticeBecomes
<1>5. MarkHolds(id, u)'
  BY <1>3 DEF MarkHolds, VisibleTo, Past
<1>6. PendingHolds(p)'
  BY <1>2, <1>4, <1>5 DEF PendingHolds, At
<1>7. NoticesTypeOK'
  BY <1>1, <1>3 DEF NoticesTypeOK
<1>8. \A other \in Notice : StaysFixed(other)
  BY <1>3, NoneMoves
<1>9. shown \subseteq shown' /\ marks' = marks /\ announced' = announced
  BY <1>3
<1>. QED  BY <1>4, <1>6, <1>7, <1>8, <1>9, NoticeStep

\* The mark is made for the notice the user has been shown.
LEMMA MarkReadStep ==
  ASSUME NoticesIInv, NEW p \in Client, MarkRead(p)
  PROVE  NoticesIInv' /\ \A other \in Notice : StaysFixed(other)
<1>1. NoticesTypeOK /\ IsPerClient(request)
  BY DEF NoticesIInv
<1>. PICK form : form = request[p]
  OBVIOUS
<1>2. MarkHolds(form.id, form.user)
  BY DEF MarkRead, NoticesIInv, PendingHolds
<1>3. /\ marks' = marks \cup {<<form.id, form.user>>} /\ request' = [request EXCEPT ![p] = Idle]
      /\ UNCHANGED <<notices, shown, announced>>
  BY DEF MarkRead, Ends
<1>4. PendingHolds(p)' /\ request' = [request EXCEPT ![p] = request'[p]]
  BY <1>1, <1>3, NothingPending
<1>5. NoticesTypeOK'
  BY <1>1, <1>2, <1>3 DEF NoticesTypeOK, MarkHolds
<1>6. \A mark \in marks' : mark \in marks \/ MarkHolds(mark[1], mark[2])'
  BY <1>2, <1>3 DEF MarkHolds
<1>7. \A other \in Notice : StaysFixed(other)
  BY <1>3, NoneMoves
<1>. QED  BY <1>3, <1>4, <1>5, <1>6, <1>7, NoticeStep

\* All notices the user may see are marked.
LEMMA ReadAllStep ==
  ASSUME NoticesIInv, NEW p \in Client, NEW u \in User, ReadAll(p, u)
  PROVE  NoticesIInv' /\ \A other \in Notice : StaysFixed(other)
<1>1. NoticesTypeOK /\ IsPerClient(request)
  BY DEF NoticesIInv
<1>. DEFINE seen == {id \in Notice : VisibleTo(id, u)} \X {u}
<1>2. /\ marks' = marks \cup seen /\ shown' = shown \cup seen
      /\ UNCHANGED <<request, notices, announced>>
  BY DEF ReadAll, Once
<1>3. \A mark \in seen : mark = <<mark[1], u>> /\ mark[1] \in Notice /\ mark[2] = u /\ VisibleTo(mark[1], u)
  OBVIOUS
<1>4. seen \subseteq Notice \X User
  OBVIOUS
<1>. HIDE DEF seen
<1>5. NoticesTypeOK'
  BY <1>1, <1>2, <1>4 DEF NoticesTypeOK
<1>6. \A mark \in seen : MarkHolds(mark[1], mark[2])'
  BY <1>2, <1>3 DEF MarkHolds, VisibleTo, Past
<1>7. request' = [request EXCEPT ![p] = request'[p]]
  BY <1>1, <1>2 DEF IsPerClient
<1>8. PendingHolds(p)'
  <2>1. PendingHolds(p)
    BY DEF NoticesIInv
  <2>. QED  BY <1>2, <2>1 DEF PendingHolds, At, MarkHolds, EventHolds
<1>9. \A other \in Notice : StaysFixed(other)
  BY <1>2, NoneMoves
<1>. QED  BY <1>2, <1>5, <1>6, <1>7, <1>8, <1>9, NoticeStep

\* A request ends without effect.
LEMMA NoticeFailsStep ==
  ASSUME NoticesIInv, NEW p \in Client, NoticeFails(p)
  PROVE  NoticesIInv' /\ \A other \in Notice : StaysFixed(other)
<1>1. NoticesTypeOK /\ IsPerClient(request)
  BY DEF NoticesIInv
<1>2. request' = [request EXCEPT ![p] = Idle] /\ UNCHANGED <<notices, marks, shown, announced>>
  BY DEF NoticeFails, Ends, noticeVars
<1>3. PendingHolds(p)' /\ request' = [request EXCEPT ![p] = request'[p]]
  BY <1>1, <1>2, NothingPending
<1>4. NoticesTypeOK'
  BY <1>1, <1>2 DEF NoticesTypeOK
<1>5. \A other \in Notice : StaysFixed(other)
  BY <1>2, NoneMoves
<1>. QED  BY <1>2, <1>3, <1>4, <1>5, NoticeStep

\* Every step keeps the invariant and fixes what is published.
LEMMA NoticesSteps ==
  ASSUME NoticesIInv, NoticesNext
  PROVE  NoticesIInv' /\ \A id \in Notice : StaysFixed(id)
BY SaveNoticeStep, StoreNoticeStep, AnnounceStep, MarkReadStep, NoticeFailsStep, TransitionStep,
   DeleteNoticesStep, ReadAllStep, ReadNoticeStep DEF NoticesNext

\* Nothing moves.
LEMMA NoticesStand ==
  ASSUME NoticesIInv, UNCHANGED <<noticeVars, requestVars>>
  PROVE  NoticesIInv'
<1>1. UNCHANGED <<notices, marks, shown, announced, request>>
  BY DEF noticeVars, requestVars
<1>2. NoticesTypeOK'
  BY <1>1 DEF NoticesIInv, NoticesTypeOK
<1>3. \A p \in Client : PendingHolds(p)'
  BY <1>1 DEF NoticesIInv, PendingHolds, At, MarkHolds, EventHolds
<1>. QED  BY <1>1, <1>2, <1>3 DEF NoticesIInv, IsPerClient, MarkHolds, EventHolds

\* At first nothing is told.
LEMMA NoticesStart ==
  ASSUME NEW bound, NoticesInit, RequestsInit(bound)
  PROVE  NoticesIInv
<1>1. NoNotice \in [status : {"none", "draft", "published", "revoked", "deleted"}, audience : SUBSET User]
  BY DEF NoNotice
<1>2. NoticesTypeOK
  BY <1>1 DEF NoticesInit, NoticesTypeOK
<1>3. IsPerClient(request) /\ \A p \in Client : request[p] = Idle
  BY DEF RequestsInit, IsPerClient
<1>4. Idle.op = "none" /\ Idle.step = "none"
  BY DEF Idle
<1>5. \A p \in Client : PendingHolds(p)
  BY <1>3, <1>4 DEF PendingHolds, At
<1>. QED  BY <1>2, <1>3, <1>5 DEF NoticesIInv, NoticesInit

\* Whatever requests edit, publish, revoke, delete and read notices at once: what a request has yet to
\* tell or to mark is true, and stays so until it does.
THEOREM NoticesInvariant == NoticesSpec => []NoticesIInv
<1>1. (\E bound : NoticesInit /\ RequestsInit(bound)) => NoticesIInv
  BY NoticesStart
<1>2. NoticesIInv /\ [NoticesNext]_<<noticeVars, requestVars>> => NoticesIInv'
  BY NoticesSteps, NoticesStand
<1>. QED  BY <1>1, <1>2, PTL DEF NoticesSpec

(* Whatever requests are under way, and wherever they stop: who counts as     *)
(* having read a published notice has been shown it and is one it is for, and *)
(* every event that was sent tells the truth.                                 *)
THEOREM WhatIsToldStaysTrue == NoticesSpec => []WhatIsToldIsTrue
<1>1. NoticesIInv => WhatIsToldIsTrue
  <2>1. ASSUME NoticesIInv PROVE MarksAreTrue
    <3>1. \A mark \in marks : mark = <<mark[1], mark[2]>>
      BY <2>1 DEF NoticesIInv, NoticesTypeOK
    <3>. QED  BY <2>1, <3>1 DEF NoticesIInv, MarksAreTrue, MarkHolds
  <2>2. ASSUME NoticesIInv PROVE EventsAreTrue
    BY <2>2 DEF NoticesIInv, EventsAreTrue, EventHolds, Past
  <2>. QED  BY <2>1, <2>2 DEF WhatIsToldIsTrue
<1>. QED  BY <1>1, NoticesInvariant, PTL

(* However an edit, a publication, a revocation and a deletion of a notice    *)
(* meet: what has been published is not edited or published again.            *)
THEOREM PublishedStaysFixed == NoticesSpec => PublishedIsFixed
<1>1. NoticesIInv /\ [NoticesNext]_<<noticeVars, requestVars>> =>
        [\A id \in Notice :
           /\ notices[id].status \in {"published", "revoked", "deleted"}
                => notices'[id].audience = notices[id].audience
           /\ notices[id].status = "published" => notices'[id].status \in {"published", "revoked"}
           /\ notices[id].status = "revoked" => notices'[id].status \in {"revoked", "deleted"}]_noticeVars
  <2>1. ASSUME NoticesIInv, NoticesNext PROVE \A id \in Notice : StaysFixed(id)
    BY <2>1, NoticesSteps
  <2>. QED  BY <2>1 DEF StaysFixed, Past
<1>. QED  BY <1>1, NoticesInvariant, PTL DEF NoticesSpec, PublishedIsFixed

-----------------------------------------------------------------------------
(* The process: its servers and the readiness flag. *)

ServersAreTyped ==
  /\ stage \in {"starting", "wiring", "serving", "closing", "waiting", "leaving", "stopping",
                "stopped", "exited"}
  /\ server \in [Server -> {"idle", "listening", "setting", "serving", "draining", "returned"}]
  /\ listeningServers \in 0..2
ServersInv == ServersAreTyped /\ ReadyMeansOpen /\ ServersFollowStage

(* A server takes a step, which it does only while the process serves.        *)
LEMMA ServerTurns ==
  ASSUME ServersInv, NEW s \in Server, NEW from, NEW to, Turns(s, from, to),
         stage = "serving" \/ from \notin {"idle", "returned"},
         to \in {"listening", "setting", "serving", "draining", "returned"},
         to = "listening" => from = "idle",
         \/ listeningServers' = listeningServers
              /\ (to = "setting" => listeningServers = 2)
         \/ listeningServers' = listeningServers + 1 /\ from = "listening" /\ to # "listening"
              /\ (to = "setting" => listeningServers + 1 = 2),
         readiness' => readiness \/ from = "setting", UNCHANGED <<stage, clients>>
  PROVE  ServersInv'
<1>1. server[s] = from /\ server' = [server EXCEPT ![s] = to]
  BY DEF Turns
<1>2. stage = "serving"
  BY <1>1 DEF ServersInv, ServersFollowStage
<1>3. /\ server' \in [Server -> {"idle", "listening", "setting", "serving", "draining", "returned"}]
      /\ server'[s] = to /\ \A r \in Server \ {s} : server'[r] = server[r]
  BY <1>1 DEF ServersInv, ServersAreTyped
<1>4. \A r \in Server : YetToCome(r) \in {0, 1} /\ YetToCome(r)' \in {0, 1}
                          /\ (r # s => YetToCome(r)' = YetToCome(r))
  BY <1>3 DEF YetToCome
<1>5. /\ from \in {"idle", "listening"} => YetToCome(s) = 1
      /\ to # "listening" => YetToCome(s)' = 0
      /\ from \notin {"idle", "listening"} => YetToCome(s) = 0
  BY <1>1, <1>3 DEF YetToCome
<1>6. listeningServers \in 0..2 /\ listeningServers + YetToCome("application") + YetToCome("management") <= 2
  BY DEF ServersInv, ServersAreTyped, ServersFollowStage
<1>7. CASE listeningServers' = listeningServers
  <2>1. listeningServers' + YetToCome("application")' + YetToCome("management")' <= 2
    <3>1. YetToCome(s)' <= YetToCome(s)
      BY <1>4, <1>5
    <3>. QED  BY <1>4, <1>6, <1>7, <3>1 DEF Server
  <2>2. \A r \in Server : server'[r] = "setting" => listeningServers' = 2
    BY <1>3, <1>7 DEF ServersInv, ServersFollowStage
  <2>3. readiness' => clients /\ listeningServers' = 2
    <3>1. readiness => clients /\ listeningServers = 2
      BY DEF ServersInv, ReadyMeansOpen
    <3>2. from = "setting" => clients /\ listeningServers = 2
      BY <1>1, <1>2 DEF ServersInv, ServersFollowStage
    <3>. QED  BY <1>7, <3>1, <3>2
  <2>. QED  BY <1>2, <1>3, <1>6, <1>7, <2>1, <2>2, <2>3
            DEF ServersInv, ServersAreTyped, ReadyMeansOpen, ServersFollowStage, Came
<1>8. CASE listeningServers' # listeningServers
  <2>1. /\ listeningServers' = listeningServers + 1 /\ from = "listening" /\ to # "listening"
        /\ to = "setting" => listeningServers + 1 = 2
    BY <1>8
  <2>2. YetToCome(s) = 1 /\ YetToCome(s)' = 0
    BY <1>5, <2>1
  <2>3. listeningServers' + YetToCome("application")' + YetToCome("management")' <= 2
    BY <1>4, <1>6, <2>1, <2>2 DEF Server
  <2>4. listeningServers \in 0..1
    BY <1>4, <1>6, <2>2 DEF Server
  <2>5. ~readiness /\ \A r \in Server : server[r] # "setting"
    BY <2>4 DEF ServersInv, ReadyMeansOpen, ServersFollowStage
  <2>6. ~readiness' /\ \A r \in Server : server'[r] = "setting" => listeningServers' = 2
    BY <1>1, <1>3, <2>1, <2>5
  <2>. QED  BY <1>2, <1>3, <2>1, <2>3, <2>4, <2>6
            DEF ServersInv, ServersAreTyped, ReadyMeansOpen, ServersFollowStage, Came
<1>. QED  BY <1>7, <1>8, Zenon

(* A step of the process, at which the servers stand still.                   *)
LEMMA StageTurns ==
  ASSUME ServersInv, UNCHANGED <<server, listeningServers>>,
         \/ UNCHANGED <<stage, clients>> /\ (readiness' => readiness)
         \/ StartAPIInfrastructure \/ WireAPIComponents \/ ServersDone \/ CloseRecorder
         \/ RecorderClosed \/ ClearReadiness \/ StopInfrastructure
  PROVE  ServersInv'
<1>1. YetToCome("application")' = YetToCome("application")
      /\ YetToCome("management")' = YetToCome("management")
  BY DEF YetToCome
<1>2. CASE UNCHANGED <<stage, clients>> /\ (readiness' => readiness)
  BY <1>1, <1>2 DEF ServersInv, ServersAreTyped, ReadyMeansOpen, ServersFollowStage
<1>3. CASE StartAPIInfrastructure
  BY <1>1, <1>3 DEF StartAPIInfrastructure, Advances, serverVars, ServersInv, ServersAreTyped,
     ReadyMeansOpen, ServersFollowStage, Came
<1>4. CASE WireAPIComponents
  BY <1>1, <1>4 DEF WireAPIComponents, Advances, ServersInv, ServersAreTyped,
     ReadyMeansOpen, ServersFollowStage, Came
<1>5. CASE ServersDone
  <2>1. /\ stage = "serving" /\ stage' = "closing" /\ \A s \in Server : server[s] = "returned"
        /\ UNCHANGED <<clients, readiness>>
    BY <1>5 DEF ServersDone, RunAllReturned, Advances, serverVars
  <2>2. \A s \in Server : server'[s] = "returned"
    BY <2>1
  <2>3. ServersAreTyped' /\ ReadyMeansOpen'
    BY <2>1 DEF ServersInv, ServersAreTyped, ReadyMeansOpen
  <2>4. ServersFollowStage'
    BY <1>1, <2>1, <2>2 DEF ServersInv, ServersFollowStage, Came
  <2>. QED  BY <2>3, <2>4 DEF ServersInv
<1>6. CASE CloseRecorder \/ RecorderClosed
  <2>1. /\ \/ stage = "closing" /\ stage' = "waiting"
           \/ stage = "waiting" /\ stage' = "leaving"
        /\ UNCHANGED <<clients, readiness>>
    BY <1>6 DEF CloseRecorder, RecorderClosed, Advances, serverVars
  <2>2. ServersAreTyped' /\ ReadyMeansOpen'
    BY <2>1 DEF ServersInv, ServersAreTyped, ReadyMeansOpen
  <2>3. ServersFollowStage'
    BY <1>1, <2>1 DEF ServersInv, ServersFollowStage, Came
  <2>. QED  BY <2>2, <2>3 DEF ServersInv
<1>7. CASE ClearReadiness
  BY <1>1, <1>7 DEF ClearReadiness, Advances, ServersInv, ServersAreTyped,
     ReadyMeansOpen, ServersFollowStage, Came
<1>8. CASE StopInfrastructure
  BY <1>1, <1>8 DEF StopInfrastructure, Advances, serverVars, ServersInv, ServersAreTyped,
     ReadyMeansOpen, ServersFollowStage, Came
<1>. QED  BY <1>2, <1>3, <1>4, <1>5, <1>6, <1>7, <1>8

\* Every step keeps the servers and the flag in order.
LEMMA ServersSteps ==
  ASSUME ServersInv, ApiNext
  PROVE  ServersInv'
<1>1. ASSUME NEW s \in Server, ListenOn(s) PROVE ServersInv'
  <2>1. \E to \in {"listening", "returned"} : Turns(s, "idle", to)
    BY <1>1 DEF ListenOn
  <2>2. stage = "serving" /\ UNCHANGED <<stage, clients, readiness, listeningServers>>
    BY <1>1 DEF ListenOn
  <2>. QED  BY <2>1, <2>2, ServerTurns
<1>2. ASSUME NEW s \in Server, OnServerReady(s) PROVE ServersInv'
  <2>1. \E to \in {"setting", "serving"} :
          Turns(s, "listening", to) /\ (to = "setting" => listeningServers + 1 = 2)
    BY <1>2 DEF OnServerReady
  <2>2. listeningServers' = listeningServers + 1 /\ UNCHANGED <<stage, clients, readiness>>
    BY <1>2 DEF OnServerReady
  <2>. QED  BY <2>1, <2>2, ServerTurns
<1>3. ASSUME NEW s \in Server, SetsReady(s) PROVE ServersInv'
  BY <1>3, ServerTurns DEF SetsReady
<1>4. ASSUME NEW s \in Server, ServingFails(s) \/ Shutdown(s) \/ ServerReturns(s) PROVE ServersInv'
  <2>1. \E from \in {"serving", "draining"}, to \in {"draining", "returned"} : Turns(s, from, to)
    BY <1>4 DEF ServingFails, Shutdown, ServerReturns
  <2>2. UNCHANGED <<stage, clients, readiness, listeningServers>>
    BY <1>4 DEF ServingFails, Shutdown, ServerReturns
  <2>. QED  BY <2>1, <2>2, ServerTurns
<1>5. CASE Signal \/ WatchEnds \/ TakeEntry \/ Persist \/ StopsDraining \/ StopRealtime
           \/ \E h \in Handler : RequestBegins(h) \/ OperationAudit(h)
  <2>1. UNCHANGED <<stage, clients, server, listeningServers>> /\ (readiness' => readiness)
    BY <1>5 DEF Signal, WatchEnds, TakeEntry, Persist, StopsDraining, StopRealtime, RequestBegins,
       OperationAudit, serverVars
  <2>. QED  BY <2>1, StageTurns
<1>6. CASE \/ StartAPIInfrastructure \/ WireAPIComponents \/ ServersDone \/ CloseRecorder
           \/ RecorderClosed \/ ClearReadiness \/ StopInfrastructure
  <2>1. UNCHANGED <<server, listeningServers>>
    BY <1>6 DEF StartAPIInfrastructure, WireAPIComponents, ServersDone, CloseRecorder, RecorderClosed,
       ClearReadiness, StopInfrastructure, serverVars
  <2>. QED  BY <1>6, <2>1, StageTurns
<1>. QED  BY <1>1, <1>2, <1>3, <1>4, <1>5, <1>6 DEF ApiNext

-----------------------------------------------------------------------------
(* The process: the audit recorder. *)

AuditIsTyped ==
  /\ handling \in [Handler -> {"none", "working", "done"}]
  /\ recorder \in {"none", "running", "draining", "done"}
  /\ entries \in Seq(Handler) /\ Len(entries) <= AuditCapacity
  /\ writing \subseteq Handler /\ written \in Seq(Handler)
AuditInv == AuditIsTyped /\ EntriesAreInOnePlace /\ RecorderFollowsStage

\* A sequence without repetition gets a new element.
LEMMA InjectiveAppend ==
  ASSUME NEW S, NEW s \in Seq(S), NEW x, IsInjective(s), x \notin ToSet(s)
  PROVE  IsInjective(Append(s, x))
<1>1. DOMAIN s = 1..Len(s) /\ DOMAIN Append(s, x) = 1..(Len(s) + 1) /\ Len(s) \in Nat
  OBVIOUS
<1>2. Append(s, x)[Len(s) + 1] = x /\ \A i \in 1..Len(s) : Append(s, x)[i] = s[i]
  OBVIOUS
<1>3. ASSUME NEW i \in 1..(Len(s) + 1), NEW j \in 1..(Len(s) + 1), Append(s, x)[i] = Append(s, x)[j]
      PROVE  i = j
  <2>1. \A k \in 1..Len(s) : s[k] # x
    BY <1>1 DEF ToSet
  <2>2. \A k, l \in 1..Len(s) : s[k] = s[l] => k = l
    BY <1>1 DEF IsInjective
  <2>. QED  BY <1>1, <1>2, <1>3, <2>1, <2>2
<1>. QED  BY <1>1, <1>3 DEF IsInjective

\* The tail of a sequence without repetition.
LEMMA InjectiveTail ==
  ASSUME NEW S, NEW s \in Seq(S), s # <<>>, IsInjective(s)
  PROVE  IsInjective(Tail(s)) /\ Head(s) \notin ToSet(Tail(s))
<1>1. Len(s) \in Nat \ {0} /\ DOMAIN s = 1..Len(s) /\ DOMAIN Tail(s) = 1..(Len(s) - 1)
  OBVIOUS
<1>2. Head(s) = s[1] /\ \A i \in 1..(Len(s) - 1) : Tail(s)[i] = s[i + 1]
  OBVIOUS
<1>3. \A k, l \in 1..Len(s) : s[k] = s[l] => k = l
  BY <1>1 DEF IsInjective
<1>4. ASSUME NEW i \in 1..(Len(s) - 1), NEW j \in 1..(Len(s) - 1), Tail(s)[i] = Tail(s)[j]
      PROVE  i = j
  <2>1. s[i + 1] = s[j + 1] /\ i + 1 \in 1..Len(s) /\ j + 1 \in 1..Len(s)
    BY <1>1, <1>2, <1>4
  <2>2. i + 1 = j + 1
    BY <1>3, <2>1
  <2>. QED  BY <1>1, <2>2
<1>5. ASSUME NEW i \in 1..(Len(s) - 1) PROVE Tail(s)[i] # Head(s)
  <2>1. i + 1 \in 1..Len(s) /\ 1 \in 1..Len(s) /\ i + 1 # 1
    BY <1>1
  <2>. QED  BY <1>2, <1>3, <2>1
<1>. QED  BY <1>1, <1>4, <1>5 DEF IsInjective, ToSet

(* The sequence of the one entry that is being written.                       *)
LEMMA SequenceOfOne ==
  ASSUME NEW x
  PROVE  SetToSeq({x}) = <<x>>
<1>1. Cardinality({x}) = 1
  BY FS_Singleton
<1>2. <<x>> \in [1..1 -> {x}] /\ IsInjective(<<x>>)
  BY DEF IsInjective
<1>3. SetToSeq({x}) \in [1..1 -> {x}]
  BY <1>1, <1>2 DEF SetToSeq
<1>. QED  BY <1>3

(* What matters to the recorder stays, and the process does not turn.         *)
LEMMA AuditStands ==
  ASSUME AuditInv, UNCHANGED <<stage, server, auditVars, handling, gaveUp>>
  PROVE  AuditInv'
BY DEF AuditInv, AuditIsTyped, EntriesAreInOnePlace, RecorderFollowsStage, auditVars

(* The process or a server turns, and the entries stay where they are.        *)
LEMMA AuditTurns ==
  ASSUME AuditInv, UNCHANGED <<handling, entries, writing, written, accepted>>,
         recorder' \in {"none", "running", "draining", "done"}, RecorderFollowsStage'
  PROVE  AuditInv'
BY DEF AuditInv, AuditIsTyped, EntriesAreInOnePlace

\* Record queues the entry, or sheds it.
LEMMA RecordStep ==
  ASSUME AuditInv, NEW h \in Handler, OperationAudit(h)
  PROVE  AuditInv'
<1>1. AuditIsTyped /\ EntriesAreInOnePlace /\ RecorderFollowsStage
  BY DEF AuditInv
<1>2. /\ handling[h] = "working" /\ handling' = [handling EXCEPT ![h] = "done"]
      /\ UNCHANGED <<stage, server, recorder, closed, writing, written, gaveUp>>
  BY DEF OperationAudit, serverVars
<1>3. /\ handling' \in [Handler -> {"none", "working", "done"}] /\ handling'[h] = "done"
      /\ \A k \in Handler \ {h} : handling'[k] = handling[k]
  BY <1>1, <1>2 DEF AuditIsTyped
<1>4. recorder # "none"
  BY <1>1, <1>2 DEF RecorderFollowsStage, Server
<1>5. CASE UNCHANGED <<entries, accepted>>
  <2>1. AuditIsTyped' /\ EntriesAreInOnePlace'
    BY <1>1, <1>2, <1>3, <1>5 DEF AuditIsTyped, EntriesAreInOnePlace
  <2>2. RecorderFollowsStage'
    BY <1>1, <1>2, <1>4, <1>5 DEF RecorderFollowsStage
  <2>. QED  BY <2>1, <2>2 DEF AuditInv
<1>6. CASE /\ ~closed /\ Len(entries) # AuditCapacity
           /\ entries' = Append(entries, h) /\ accepted' = accepted \cup {h}
  <2>1. h \notin accepted
    BY <1>1, <1>2 DEF EntriesAreInOnePlace
  <2>2. ToSet(entries') = ToSet(entries) \cup {h} /\ IsInjective(entries')
    BY <1>1, <1>6, <2>1, ToSetOfAppend, InjectiveAppend DEF AuditIsTyped, EntriesAreInOnePlace
  <2>3. entries' \in Seq(Handler) /\ Len(entries') <= AuditCapacity
    BY <1>1, <1>6, AuditCapacityIsNatural DEF AuditIsTyped
  <2>4. AuditIsTyped'
    BY <1>1, <1>2, <1>3, <2>3 DEF AuditIsTyped
  <2>5. EntriesAreInOnePlace'
    BY <1>1, <1>2, <1>3, <1>6, <2>1, <2>2 DEF EntriesAreInOnePlace
  <2>6. RecorderFollowsStage'
    BY <1>1, <1>2, <1>4, <1>6 DEF RecorderFollowsStage
  <2>. QED  BY <2>4, <2>5, <2>6 DEF AuditInv
<1>. QED  BY <1>5, <1>6 DEF OperationAudit, Record

\* The worker takes the next entry.
LEMMA TakeEntryStep ==
  ASSUME AuditInv, TakeEntry
  PROVE  AuditInv'
<1>1. AuditIsTyped /\ EntriesAreInOnePlace /\ RecorderFollowsStage
  BY DEF AuditInv
<1>2. /\ recorder \in {"running", "draining"} /\ entries # <<>> /\ writing = {}
      /\ writing' = {Head(entries)} /\ entries' = Tail(entries)
      /\ UNCHANGED <<stage, server, handling, recorder, closed, accepted, written, gaveUp>>
  BY DEF TakeEntry, serverVars
<1>3. /\ Head(entries) \in Handler /\ entries' \in Seq(Handler) /\ Len(entries') = Len(entries) - 1
      /\ ToSet(entries) = {Head(entries)} \cup ToSet(entries')
  BY <1>1, <1>2, ToSetOfTail DEF AuditIsTyped
<1>4. IsInjective(entries') /\ Head(entries) \notin ToSet(entries')
  BY <1>1, <1>2, InjectiveTail DEF AuditIsTyped, EntriesAreInOnePlace
<1>5. Len(entries') <= AuditCapacity
  <2>1. Len(entries) \in Nat /\ Len(entries) <= AuditCapacity
    BY <1>1 DEF AuditIsTyped
  <2>. QED  BY <1>3, <2>1, AuditCapacityIsNatural
<1>6. AuditIsTyped'
  BY <1>1, <1>2, <1>3, <1>5 DEF AuditIsTyped
<1>7. EntriesAreInOnePlace'
  BY <1>1, <1>2, <1>3, <1>4 DEF EntriesAreInOnePlace
<1>8. RecorderFollowsStage'
  BY <1>1, <1>2 DEF RecorderFollowsStage
<1>. QED  BY <1>6, <1>7, <1>8 DEF AuditInv

\* The worker hands its entry to the database.
LEMMA PersistStep ==
  ASSUME AuditInv, Persist
  PROVE  AuditInv'
<1>1. AuditIsTyped /\ EntriesAreInOnePlace /\ RecorderFollowsStage
  BY DEF AuditInv
<1>2. PICK h : h \in writing
  BY DEF Persist
<1>3. writing = {h} /\ h \in Handler /\ h \notin ToSet(written)
  BY <1>1, <1>2 DEF EntriesAreInOnePlace, AuditIsTyped
<1>4. written' = Append(written, h)
  <2>1. written' = written \o <<h>>
    BY <1>3, SequenceOfOne DEF Persist
  <2>. QED  BY <1>1, <1>3, <2>1 DEF AuditIsTyped
<1>5. /\ writing' = {}
      /\ UNCHANGED <<stage, server, handling, recorder, closed, entries, accepted, gaveUp>>
  BY DEF Persist, serverVars
<1>6. ToSet(written') = ToSet(written) \cup {h} /\ IsInjective(written')
  BY <1>1, <1>3, <1>4, ToSetOfAppend, InjectiveAppend DEF AuditIsTyped, EntriesAreInOnePlace
<1>7. AuditIsTyped'
  BY <1>1, <1>3, <1>4, <1>5 DEF AuditIsTyped
<1>8. EntriesAreInOnePlace'
  BY <1>1, <1>3, <1>5, <1>6 DEF EntriesAreInOnePlace
<1>9. RecorderFollowsStage'
  BY <1>1, <1>5 DEF RecorderFollowsStage
<1>. QED  BY <1>7, <1>8, <1>9 DEF AuditInv

\* A request arrives, which means that the recorder runs.
LEMMA RequestBeginsStep ==
  ASSUME AuditInv, NEW h \in Handler, RequestBegins(h)
  PROVE  AuditInv'
<1>1. AuditIsTyped /\ EntriesAreInOnePlace /\ RecorderFollowsStage
  BY DEF AuditInv
<1>2. /\ server["application"] # "idle" /\ handling[h] = "none"
      /\ handling' = [handling EXCEPT ![h] = "working"]
      /\ UNCHANGED <<stage, server, recorder, closed, entries, writing, accepted, written, gaveUp>>
  BY DEF RequestBegins, serverVars, auditVars
<1>3. /\ handling' \in [Handler -> {"none", "working", "done"}] /\ handling'[h] = "working"
      /\ \A k \in Handler \ {h} : handling'[k] = handling[k]
  BY <1>1, <1>2 DEF AuditIsTyped
<1>4. recorder # "none"
  BY <1>1, <1>2 DEF RecorderFollowsStage, Server
<1>5. AuditIsTyped'
  BY <1>1, <1>2, <1>3 DEF AuditIsTyped
<1>6. EntriesAreInOnePlace'
  BY <1>1, <1>2, <1>3 DEF EntriesAreInOnePlace
<1>7. RecorderFollowsStage'
  BY <1>1, <1>2, <1>4 DEF RecorderFollowsStage
<1>. QED  BY <1>5, <1>6, <1>7 DEF AuditInv

\* The worker is done only when the queue is closed and empty.
LEMMA StopsDrainingStep ==
  ASSUME AuditInv, StopsDraining
  PROVE  AuditInv'
<1>1. AuditIsTyped /\ RecorderFollowsStage
  BY DEF AuditInv
<1>2. /\ writing = {} /\ closed
      /\ \/ recorder = "running" /\ recorder' = "draining"
         \/ recorder = "draining" /\ entries = <<>> /\ recorder' = "done"
      /\ UNCHANGED <<stage, server, handling, closed, entries, writing, accepted, written, gaveUp>>
  BY DEF StopsDraining, serverVars
<1>3. RecorderFollowsStage'
  BY <1>1, <1>2 DEF RecorderFollowsStage
<1>. QED  BY <1>2, <1>3, AuditTurns

(* A server turns: one that leaves "idle" finds the recorder running.         *)
LEMMA AuditServerStep ==
  ASSUME ServersInv, AuditInv, UNCHANGED <<stage, handling, auditVars, gaveUp>>,
         NEW s \in Server, NEW from, NEW to, Turns(s, from, to), from = "idle" => stage = "serving"
  PROVE  AuditInv'
<1>1. AuditIsTyped /\ RecorderFollowsStage
  BY DEF AuditInv
<1>2. UNCHANGED <<stage, handling, recorder, closed, entries, writing, accepted, written, gaveUp>>
  BY DEF auditVars
<1>3. recorder # "none"
  BY <1>1 DEF RecorderFollowsStage, Turns
<1>4. RecorderFollowsStage'
  BY <1>1, <1>2, <1>3 DEF RecorderFollowsStage
<1>. QED  BY <1>1, <1>2, <1>4, AuditTurns DEF AuditIsTyped

(* The process turns: what each stage says of the recorder.                   *)
LEMMA AuditStageStep ==
  ASSUME ServersInv, AuditInv,
         \/ StartAPIInfrastructure \/ WireAPIComponents \/ ServersDone \/ CloseRecorder
         \/ RecorderClosed \/ ClearReadiness \/ StopInfrastructure
  PROVE  AuditInv'
<1>1. AuditIsTyped /\ RecorderFollowsStage
  BY DEF AuditInv
<1>2. UNCHANGED <<handling, entries, writing, written, accepted, server>>
  BY DEF StartAPIInfrastructure, WireAPIComponents, ServersDone, CloseRecorder, RecorderClosed,
         ClearReadiness, StopInfrastructure, auditVars, serverVars
<1>3. CASE StartAPIInfrastructure
  <2>1. stage = "starting" /\ stage' \in {"wiring", "exited"} /\ UNCHANGED <<recorder, closed, gaveUp>>
    BY <1>3 DEF StartAPIInfrastructure, Advances, auditVars
  <2>2. recorder = "none"
    BY <1>1, <2>1 DEF RecorderFollowsStage
  <2>3. RecorderFollowsStage'
    BY <1>1, <1>2, <2>1, <2>2 DEF RecorderFollowsStage
  <2>. QED  BY <1>1, <1>2, <2>1, <2>3, AuditTurns DEF AuditIsTyped
<1>4. CASE WireAPIComponents
  <2>1. /\ stage = "wiring" /\ UNCHANGED <<closed, gaveUp>>
        /\ \/ stage' = "serving" /\ recorder' = "running"
           \/ stage' = "leaving" /\ recorder' = recorder
    BY <1>4 DEF WireAPIComponents, Advances
  <2>2. recorder = "none"
    BY <1>1, <2>1 DEF RecorderFollowsStage
  <2>3. RecorderFollowsStage'
    BY <1>1, <1>2, <2>1, <2>2 DEF RecorderFollowsStage
  <2>. QED  BY <1>1, <1>2, <2>1, <2>2, <2>3, AuditTurns
<1>5. CASE ServersDone
  <2>1. stage = "serving" /\ stage' = "closing" /\ UNCHANGED <<recorder, closed, gaveUp>>
    BY <1>5 DEF ServersDone, Advances, auditVars
  <2>2. RecorderFollowsStage'
    BY <1>1, <1>2, <2>1 DEF RecorderFollowsStage
  <2>. QED  BY <1>1, <1>2, <2>1, <2>2, AuditTurns DEF AuditIsTyped
<1>6. CASE CloseRecorder
  <2>1. /\ stage = "closing" /\ stage' = "waiting" /\ UNCHANGED <<recorder, gaveUp>>
        /\ closed' = TRUE
    BY <1>6 DEF CloseRecorder, Advances
  <2>2. RecorderFollowsStage'
    BY <1>1, <1>2, <2>1 DEF RecorderFollowsStage
  <2>. QED  BY <1>1, <1>2, <2>1, <2>2, AuditTurns DEF AuditIsTyped
<1>7. CASE RecorderClosed
  <2>1. /\ stage = "waiting" /\ stage' = "leaving" /\ UNCHANGED <<recorder, closed>>
        /\ ~gaveUp' => recorder = "done"
    BY <1>7 DEF RecorderClosed, Advances, auditVars
  <2>2. RecorderFollowsStage'
    BY <1>1, <1>2, <2>1 DEF RecorderFollowsStage
  <2>. QED  BY <1>1, <1>2, <2>1, <2>2, AuditTurns DEF AuditIsTyped
<1>8. CASE ClearReadiness
  <2>1. stage = "leaving" /\ stage' = "stopping" /\ UNCHANGED <<recorder, closed, gaveUp>>
    BY <1>8 DEF ClearReadiness, Advances, auditVars
  <2>2. RecorderFollowsStage'
    BY <1>1, <1>2, <2>1 DEF RecorderFollowsStage
  <2>. QED  BY <1>1, <1>2, <2>1, <2>2, AuditTurns DEF AuditIsTyped
<1>9. CASE StopInfrastructure
  <2>1. /\ \/ stage = "stopping" /\ stage' = "stopped"
           \/ stage = "stopped" /\ stage' = "exited"
        /\ UNCHANGED <<recorder, closed, gaveUp>>
    BY <1>9 DEF StopInfrastructure, Advances, auditVars
  <2>2. RecorderFollowsStage'
    BY <1>1, <1>2, <2>1 DEF RecorderFollowsStage
  <2>. QED  BY <1>1, <1>2, <2>1, <2>2, AuditTurns DEF AuditIsTyped
<1>. QED  BY <1>3, <1>4, <1>5, <1>6, <1>7, <1>8, <1>9

\* Every step keeps the recorder's entries in order.
LEMMA AuditSteps ==
  ASSUME ServersInv, AuditInv, ApiNext
  PROVE  AuditInv'
<1>1. ASSUME NEW s \in Server, ListenOn(s) PROVE AuditInv'
  <2>1. \E to \in {"listening", "returned"} : Turns(s, "idle", to)
    BY <1>1 DEF ListenOn
  <2>2. stage = "serving" /\ UNCHANGED <<stage, handling, auditVars, gaveUp>>
    BY <1>1 DEF ListenOn
  <2>. QED  BY <2>1, <2>2, AuditServerStep
<1>2. ASSUME NEW s \in Server, \/ OnServerReady(s) \/ SetsReady(s) \/ ServingFails(s) \/ Shutdown(s)
                               \/ ServerReturns(s)
      PROVE  AuditInv'
  <2>1. \E from \in {"listening", "setting", "serving", "draining"},
           to \in {"setting", "serving", "draining", "returned"} : Turns(s, from, to)
    BY <1>2 DEF OnServerReady, SetsReady, ServingFails, Shutdown, ServerReturns
  <2>2. UNCHANGED <<stage, handling, auditVars, gaveUp>>
    BY <1>2 DEF OnServerReady, SetsReady, ServingFails, Shutdown, ServerReturns
  <2>. QED  BY <2>1, <2>2, AuditServerStep
<1>3. CASE Signal \/ WatchEnds \/ StopRealtime
  BY <1>3, AuditStands DEF Signal, WatchEnds, StopRealtime, serverVars
<1>. QED  BY <1>1, <1>2, <1>3, RecordStep, RequestBeginsStep, TakeEntryStep, PersistStep,
             StopsDrainingStep, AuditStageStep DEF ApiNext

\* Before the process has done anything.
LEMMA ApiStart ==
  ASSUME ApiInit
  PROVE  ServersInv /\ AuditInv
<1>1. \A s \in Server : server[s] = "idle"
  BY DEF ApiInit
<1>2. ServersAreTyped /\ ReadyMeansOpen
  BY DEF ApiInit, ServersAreTyped, ReadyMeansOpen
<1>3. ServersFollowStage
  BY <1>1 DEF ApiInit, ServersFollowStage, YetToCome, Server, Came
<1>4. ToSet(<<>>) = {} /\ IsInjective(<<>>) /\ Len(<<>>) <= AuditCapacity
  BY AuditCapacityIsNatural DEF ToSet, IsInjective
<1>5. AuditIsTyped
  BY <1>4 DEF ApiInit, AuditIsTyped
<1>6. EntriesAreInOnePlace
  BY <1>4 DEF ApiInit, EntriesAreInOnePlace
<1>7. RecorderFollowsStage
  BY <1>1 DEF ApiInit, RecorderFollowsStage
<1>. QED  BY <1>2, <1>3, <1>5, <1>6, <1>7 DEF ServersInv, AuditInv

\* The two halves of the invariant.
LEMMA ApiParts == ApiIInv <=> ServersInv /\ AuditInv
BY DEF ApiIInv, ApiTypeOK, ServersInv, ServersAreTyped, AuditInv, AuditIsTyped

\* Nothing moves.
LEMMA ServersStand ==
  ASSUME ServersInv, UNCHANGED apiVars
  PROVE  ServersInv'
<1>1. UNCHANGED <<server, listeningServers, stage, clients, readiness>>
  BY DEF apiVars, serverVars
<1>. QED  BY <1>1, StageTurns

(* From its start to its exit, whatever fails: the servers, the flag and the  *)
(* recorder are where the process's stage says they are.                      *)
THEOREM ApiInvariant == ApiSpec => []ApiIInv
<1>1. ApiInit => ApiIInv
  BY ApiStart, ApiParts
<1>2. ApiIInv /\ [ApiNext]_apiVars => ApiIInv'
  <2>1. ASSUME ServersInv, AuditInv, ApiNext PROVE ServersInv' /\ AuditInv'
    BY <2>1, ServersSteps, AuditSteps
  <2>2. ASSUME ServersInv, AuditInv, UNCHANGED apiVars PROVE ServersInv' /\ AuditInv'
    BY <2>2, ServersStand, AuditStands DEF apiVars, serverVars
  <2>3. ServersInv' /\ AuditInv' => ApiIInv'
    BY DEF ApiIInv, ApiTypeOK, ServersInv, ServersAreTyped, AuditInv, AuditIsTyped
  <2>. QED  BY <2>1, <2>2, <2>3, ApiParts
<1>. QED  BY <1>1, <1>2, PTL DEF ApiSpec

(* The readiness flag is up only while the clients are open and both servers  *)
(* have come.                                                                 *)
THEOREM ReadyStaysOpen == ApiSpec => []ReadyMeansOpen
<1>1. ApiIInv => ReadyMeansOpen
  BY DEF ApiIInv
<1>. QED  BY <1>1, ApiInvariant, PTL

(* Every entry the recorder took is handed to the database once, while its    *)
(* client is open, unless Close gave up waiting.                              *)
THEOREM AuditStaysComplete == ApiSpec => []AuditIsComplete
<1>1. ASSUME ApiIInv PROVE AuditIsComplete
  <2>1. IsInjective(written) /\ accepted = ToSet(entries) \cup writing \cup ToSet(written)
    BY <1>1 DEF ApiIInv, EntriesAreInOnePlace
  <2>2. ASSUME ~gaveUp, stage \in {"leaving", "stopping", "stopped", "exited"}
        PROVE  ToSet(written) = accepted /\ writing = {}
    <3>1. recorder \in {"none", "done"}
      BY <1>1, <2>2 DEF ApiIInv, RecorderFollowsStage
    <3>2. recorder = "none" => accepted = {}
      BY <1>1 DEF ApiIInv, RecorderFollowsStage
    <3>3. recorder = "done" => entries = <<>> /\ writing = {}
      BY <1>1 DEF ApiIInv, RecorderFollowsStage
    <3>4. ToSet(<<>>) = {}
      BY DEF ToSet
    <3>. QED  BY <2>1, <3>1, <3>2, <3>3, <3>4
  <2>3. ASSUME ~gaveUp, writing # {} PROVE clients
    <3>1. stage \in {"wiring", "serving", "closing", "waiting"} \/ stage = "starting"
      BY <1>1, <2>2, <2>3 DEF ApiIInv, ApiTypeOK
    <3>2. stage # "starting"
      <4>1. stage = "starting" => recorder = "none" /\ accepted = {}
        BY <1>1 DEF ApiIInv, RecorderFollowsStage
      <4>. QED  BY <2>1, <2>3, <4>1
    <3>. QED  BY <1>1, <3>1, <3>2 DEF ApiIInv, ServersFollowStage
  <2>. QED  BY <2>1, <2>2, <2>3 DEF AuditIsComplete
<1>. QED  BY <1>1, ApiInvariant, PTL

-----------------------------------------------------------------------------
(* Dictionaries: requests are records of their kinds. *)

LEMMA NothingRead == Idle.op = "none" /\ Idle.step = "none"
BY DEF Idle

\* The fields of a request about dictionaries.
LEMMA EntryFields ==
  ASSUME NEW op, NEW step, NEW id, NEW code
  PROVE  LET form == Entry(op, step, id, code)
         IN  /\ form.op = op /\ form.step = step /\ form.id = id
             /\ form.code = code /\ form.original = code /\ form.current = code
             /\ DOMAIN form = DOMAIN Entry("none", "none", 0, 0)
             /\ DOMAIN form = {"op", "step", "id", "code", "original", "current"}
BY DEF Entry

(* What an operation's request carries, by its name.                          *)
LEMMA EntryOf ==
  ASSUME NEW form, EntryIsTyped(form),
         form.op \in {"save dictionary", "delete dictionary", "save item"}
  PROVE  /\ DOMAIN form = {"op", "step", "id", "code", "original", "current"}
         /\ form.code \in Code /\ form.original \in Code /\ form.current \in Code
         /\ form.op = "save dictionary" => form.id \in Dict \cup {0}
         /\ form.op = "delete dictionary" => form.id \in Dict
         /\ DOMAIN Entry("none", "none", 0, 0) = {"op", "step", "id", "code", "original", "current"}
BY NothingRead, EntryFields DEF EntryIsTyped

\* The request that announces some codes.
LEMMA AnnounceOf ==
  ASSUME NEW codes \in Seq(Code), codes # <<>>
  PROVE  LET form == [op |-> "announce", step |-> "next", codes |-> codes]
         IN  EntryIsTyped(form) /\ form.op = "announce" /\ form.step = "next" /\ form.codes = codes
BY DEF EntryIsTyped

\* A request's record after its step.
LEMMA EntryBecomes ==
  ASSUME NEW p \in Client, NEW form, IsPerClient(request), request' = [request EXCEPT ![p] = form]
  PROVE  /\ request'[p] = form /\ request' = [request EXCEPT ![p] = request'[p]]
         /\ IsPerClient(request') /\ \A q \in Client \ {p} : request'[q] = request[q]
BY DEF IsPerClient

(* What q has read is still so.                                               *)
LEMMA ReadsHoldOn ==
  ASSUME NEW q \in Client, request'[q] = request[q], ReadsHold(q),
         request[q].op = "save dictionary" /\ request[q].id # 0
           => dicts'[request[q].id] = dicts[request[q].id],
         request[q].op = "delete dictionary" => dicts'[request[q].id] = dicts[request[q].id],
         At(q, "delete dictionary", "delete") => \A item \in Item : items'[item] # request[q].code,
         request[q].op = "save item" => request[q].code \in Codes'
  PROVE  ReadsHold(q)'
BY DEF ReadsHold, At, HasItems

(* A step of one request keeps the invariant if the rows stay of their kinds, *)
(* the others' reads hold or are known to be old, and what p has changed is   *)
(* among what p announces.                                                    *)
LEMMA DictionaryStep ==
  ASSUME DictionaryIInv, NEW p \in Client, request' = [request EXCEPT ![p] = request'[p]],
         EntryIsTyped(request'[p]), DictionaryTypeOK', raced => raced',
         ~raced' => CodesAreUnique' /\ ItemsHaveDictionary',
         ~raced' /\ p \notin stale' => ReadsHold(p)',
         ~raced' => \A q \in Client \ {p} : q \notin stale' => q \notin stale /\ (ReadsHold(q) => ReadsHold(q)'),
         ~raced' => \A code \in dirty' \ unsaid' :
           \/ code \in dirty \ unsaid
                /\ (request[p].op = "announce" => code \notin ToSet(request[p].codes))
           \/ request'[p].op = "announce" /\ code \in ToSet(request'[p].codes)
  PROVE  DictionaryIInv'
<1>1. IsPerClient(request) /\ \A q \in Client : EntryIsTyped(request[q])
  BY DEF DictionaryIInv
<1>2. /\ IsPerClient(request') /\ \A q \in Client \ {p} : request'[q] = request[q]
  BY <1>1, EntryBecomes
<1>3. \A q \in Client : EntryIsTyped(request'[q])
  BY <1>1, <1>2
<1>4. raced' \/ (CodesAreUnique' /\ \A q \in Client \ stale' : ReadsHold(q)')
  BY DEF DictionaryIInv
<1>5. ItemsHaveDictionary'
  BY DEF ItemsHaveDictionary
<1>6. ChangesAreAnnounced'
  <2>1. ASSUME ~raced', NEW code \in dirty' \ unsaid'
        PROVE  \E q \in Client : request'[q].op = "announce" /\ code \in ToSet(request'[q].codes)
    <3>1. CASE request'[p].op = "announce" /\ code \in ToSet(request'[p].codes)
      BY <3>1
    <3>2. CASE /\ code \in dirty \ unsaid
               /\ (request[p].op = "announce" => code \notin ToSet(request[p].codes))
      <4>1. PICK q \in Client : request[q].op = "announce" /\ code \in ToSet(request[q].codes)
        BY <2>1, <3>2 DEF DictionaryIInv, ChangesAreAnnounced
      <4>2. q # p
        BY <3>2, <4>1
      <4>. QED  BY <1>2, <4>1, <4>2
    <3>. QED  BY <2>1, <3>1, <3>2
  <2>. QED  BY <2>1 DEF ChangesAreAnnounced
<1>7. (\A q \in Client : EntryIsTyped(request[q]))' /\ IsPerClient(request)'
  BY <1>2, <1>3
<1>. QED  BY <1>4, <1>5, <1>6, <1>7 DEF DictionaryIInv

(* A step that writes nothing.                                                *)
LEMMA EntryReadingStep ==
  ASSUME DictionaryIInv, NEW p \in Client, UNCHANGED <<dictionaryVars, stale, raced>>,
         NEW form, request' = [request EXCEPT ![p] = form], EntryIsTyped(form),
         request[p].op # "announce",
         ~raced /\ p \notin stale => ReadsHold(p)'
  PROVE  DictionaryIInv'
<1>1. UNCHANGED <<dicts, items, dirty, unsaid, stale, raced>>
  BY DEF dictionaryVars
<1>2. /\ request'[p] = form /\ request' = [request EXCEPT ![p] = request'[p]]
      /\ \A q \in Client \ {p} : request'[q] = request[q]
  BY EntryBecomes DEF DictionaryIInv
<1>3. DictionaryTypeOK' /\ Codes' = Codes
  BY <1>1 DEF DictionaryIInv, DictionaryTypeOK, Codes, Live
<1>4. ASSUME ~raced' PROVE CodesAreUnique' /\ ItemsHaveDictionary'
  BY <1>1, <1>3, <1>4 DEF DictionaryIInv, CodesAreUnique, ItemsHaveDictionary, Live
<1>5. \A q \in Client \ {p} : ReadsHold(q) => ReadsHold(q)'
  <2>1. ASSUME NEW q \in Client \ {p}, ReadsHold(q) PROVE ReadsHold(q)'
    BY <1>1, <1>2, <1>3, <2>1, ReadsHoldOn DEF ReadsHold, At, HasItems
  <2>. QED  BY <2>1
<1>6. ~raced' => \A q \in Client \ {p} : q \notin stale' => q \notin stale /\ (ReadsHold(q) => ReadsHold(q)')
  BY <1>1, <1>5
<1>7. ~raced' => \A code \in dirty' \ unsaid' :
        \/ code \in dirty \ unsaid
             /\ (request[p].op = "announce" => code \notin ToSet(request[p].codes))
        \/ request'[p].op = "announce" /\ code \in ToSet(request'[p].codes)
  BY <1>1
<1>8. /\ EntryIsTyped(request'[p]) /\ (raced => raced')
      /\ ~raced' /\ p \notin stale' => ReadsHold(p)'
  BY <1>1, <1>2
<1>. QED  BY <1>2, <1>3, <1>4, <1>6, <1>7, <1>8, DictionaryStep

\* Save reads the code the dictionary has.
LEMMA SaveDictionaryStep ==
  ASSUME DictionaryIInv, NEW p \in Client, NEW id \in Dict \cup {0}, NEW code \in Code,
         SaveDictionary(p, id, code)
  PROVE  DictionaryIInv'
<1>. DEFINE form == IF id = 0 THEN Entry("save dictionary", "write", id, code)
                    ELSE [Entry("save dictionary", "current", id, code) EXCEPT !.original = dicts[id]]
<1>1. /\ request' = [request EXCEPT ![p] = form] /\ UNCHANGED <<dictionaryVars, stale, raced>>
      /\ id # 0 => id \in Live
      /\ request[p] = Idle
  BY DEF SaveDictionary, Begins, Active
<1>2. id # 0 => dicts[id] \in Code
  BY <1>1 DEF Live
<1>3. /\ form.op = "save dictionary" /\ form.id = id /\ form.code = code /\ form.current = code
      /\ form.original = (IF id = 0 THEN code ELSE dicts[id])
      /\ id # 0 => form.step = "current"
      /\ DOMAIN form = DOMAIN Entry("none", "none", 0, 0)
  BY EntryFields DEF Entry
<1>. HIDE DEF form
<1>4. EntryIsTyped(form)
  BY <1>2, <1>3 DEF EntryIsTyped
<1>5. request'[p] = form
  BY <1>1, EntryBecomes DEF DictionaryIInv
<1>6. ReadsHold(p)'
  BY <1>1, <1>3, <1>5 DEF ReadsHold, At, dictionaryVars
<1>. QED  BY <1>1, <1>4, <1>6, EntryReadingStep, NothingRead

\* Update reads it again.
LEMMA ReadCurrentStep ==
  ASSUME DictionaryIInv, NEW p \in Client, ReadCurrent(p)
  PROVE  DictionaryIInv'
<1>. DEFINE form == [To(p, "write") EXCEPT !.current = dicts[request[p].id]]
<1>1. /\ request' = [request EXCEPT ![p] = form] /\ UNCHANGED <<dictionaryVars, stale, raced>>
      /\ At(p, "save dictionary", "current") /\ request[p].id \in Live
  BY DEF ReadCurrent, Reads
<1>2. EntryIsTyped(request[p]) /\ request[p].op = "save dictionary"
  BY <1>1 DEF DictionaryIInv, At
<1>3. /\ DOMAIN request[p] = {"op", "step", "id", "code", "original", "current"}
      /\ request[p].code \in Code /\ request[p].original \in Code /\ request[p].id \in Dict \cup {0}
      /\ DOMAIN Entry("none", "none", 0, 0) = {"op", "step", "id", "code", "original", "current"}
  BY <1>2, EntryOf
<1>4. /\ form.op = "save dictionary" /\ form.id = request[p].id /\ form.code = request[p].code
      /\ form.original = request[p].original /\ form.current = dicts[request[p].id]
      /\ DOMAIN form = {"op", "step", "id", "code", "original", "current"}
  BY <1>2, <1>3 DEF To
<1>. HIDE DEF form
<1>5. EntryIsTyped(form)
  BY <1>1, <1>3, <1>4 DEF EntryIsTyped, Live
<1>6. request'[p] = form
  BY <1>1, EntryBecomes DEF DictionaryIInv
<1>7. ~raced /\ p \notin stale => ReadsHold(p)'
  <2>1. ~raced /\ p \notin stale => ReadsHold(p)
    BY DEF DictionaryIInv
  <2>. QED  BY <1>1, <1>2, <1>4, <1>6, <2>1 DEF ReadsHold, At, dictionaryVars
<1>. QED  BY <1>1, <1>2, <1>5, <1>7, EntryReadingStep

\* Delete reads it, too, ...
LEMMA DeleteDictionaryStep ==
  ASSUME DictionaryIInv, NEW p \in Client, NEW id \in Dict, DeleteDictionary(p, id)
  PROVE  DictionaryIInv'
<1>. DEFINE form == Entry("delete dictionary", "count", id, dicts[id])
<1>1. /\ request' = [request EXCEPT ![p] = form] /\ UNCHANGED <<dictionaryVars, stale, raced>>
      /\ dicts[id] \in Code /\ request[p] = Idle
  BY DEF DeleteDictionary, Begins, Active, Live
<1>2. /\ form.op = "delete dictionary" /\ form.step = "count" /\ form.id = id /\ form.code = dicts[id]
      /\ form.original = dicts[id] /\ form.current = dicts[id]
      /\ DOMAIN form = DOMAIN Entry("none", "none", 0, 0)
  BY DEF Entry
<1>. HIDE DEF form
<1>3. EntryIsTyped(form)
  BY <1>1, <1>2 DEF EntryIsTyped
<1>4. request'[p] = form
  BY <1>1, EntryBecomes DEF DictionaryIInv
<1>5. ReadsHold(p)'
  BY <1>1, <1>2, <1>4 DEF ReadsHold, At, dictionaryVars
<1>. QED  BY <1>1, <1>3, <1>5, EntryReadingStep, NothingRead

\* ... and counts its items.
LEMMA CountItemsStep ==
  ASSUME DictionaryIInv, NEW p \in Client, CountItems(p)
  PROVE  DictionaryIInv'
<1>. DEFINE form == To(p, "delete")
<1>1. /\ request' = [request EXCEPT ![p] = form] /\ UNCHANGED <<dictionaryVars, stale, raced>>
      /\ At(p, "delete dictionary", "count") /\ ~HasItems(request[p].code)
  BY DEF CountItems, Reads
<1>2. EntryIsTyped(request[p]) /\ request[p].op = "delete dictionary"
  BY <1>1 DEF DictionaryIInv, At
<1>3. /\ DOMAIN request[p] = {"op", "step", "id", "code", "original", "current"}
      /\ request[p].code \in Code /\ request[p].original \in Code /\ request[p].current \in Code
      /\ request[p].id \in Dict
      /\ DOMAIN Entry("none", "none", 0, 0) = {"op", "step", "id", "code", "original", "current"}
  BY <1>2, EntryOf
<1>4. /\ form.op = "delete dictionary" /\ form.id = request[p].id /\ form.code = request[p].code
      /\ form.original = request[p].original /\ form.current = request[p].current
      /\ DOMAIN form = {"op", "step", "id", "code", "original", "current"}
  BY <1>2, <1>3 DEF To
<1>. HIDE DEF form
<1>5. EntryIsTyped(form)
  BY <1>1, <1>3, <1>4 DEF EntryIsTyped
<1>6. request'[p] = form
  BY <1>1, EntryBecomes DEF DictionaryIInv
<1>7. ~raced /\ p \notin stale => ReadsHold(p)'
  <2>1. ~raced /\ p \notin stale => ReadsHold(p)
    BY DEF DictionaryIInv
  <2>. QED  BY <1>1, <1>2, <1>4, <1>6, <2>1 DEF ReadsHold, At, dictionaryVars, HasItems
<1>. QED  BY <1>1, <1>2, <1>5, <1>7, EntryReadingStep

\* SaveItem looks for the dictionary.
LEMMA SaveItemStep ==
  ASSUME DictionaryIInv, NEW p \in Client, NEW item, NEW code \in Code, SaveItem(p, item, code)
  PROVE  DictionaryIInv'
<1>. DEFINE form == Entry("save item", "write", item, code)
<1>1. /\ request' = [request EXCEPT ![p] = form] /\ UNCHANGED <<dictionaryVars, stale, raced>>
      /\ code \in Codes /\ request[p] = Idle
  BY DEF SaveItem, Begins, Active
<1>2. /\ form.op = "save item" /\ form.code = code
      /\ form.original = code /\ form.current = code
      /\ DOMAIN form = DOMAIN Entry("none", "none", 0, 0)
  BY DEF Entry
<1>. HIDE DEF form
<1>3. EntryIsTyped(form)
  BY <1>1, <1>2 DEF EntryIsTyped
<1>4. request'[p] = form
  BY <1>1, EntryBecomes DEF DictionaryIInv
<1>5. ReadsHold(p)'
  BY <1>1, <1>2, <1>4 DEF ReadsHold, At, dictionaryVars, Codes, Live
<1>. QED  BY <1>1, <1>3, <1>5, EntryReadingStep, NothingRead

-----------------------------------------------------------------------------
(* Dictionaries: the writes and what they announce. *)

\* What a sequence of one, and one of two, holds.
LEMMA SetOfOne ==
  ASSUME NEW x
  PROVE  ToSet(<<x>>) = {x}
BY DEF ToSet

(* What is announced, one code or the rest of them.                            *)
LEMMA OneCode ==
  ASSUME NEW code \in Code
  PROVE  <<code>> \in Seq(Code) /\ <<code>> # <<>>
OBVIOUS

\* Whether anything is left to announce.
LEMMA OnlyOne ==
  ASSUME NEW s \in Seq(Code), s # <<>>
  PROVE  /\ Len(s) = 1 => Tail(s) = <<>>
         /\ Len(s) # 1 => Tail(s) # <<>>
<1>1. Len(s) \in Nat \ {0} /\ Tail(s) \in Seq(Code) /\ Len(Tail(s)) = Len(s) - 1
  OBVIOUS
<1>2. \A t \in Seq(Code) : Len(t) = 0 <=> t = <<>>
  OBVIOUS
<1>3. Len(Tail(s)) = 0 <=> Tail(s) = <<>>
  BY <1>1, <1>2, Zenon
<1>4. Len(Tail(s)) = 0 <=> Len(s) = 1
  BY <1>1
<1>. QED  BY <1>3, <1>4

\* The two codes a rename announces.
LEMMA SetOfTwo ==
  ASSUME NEW x, NEW y
  PROVE  ToSet(<<x, y>>) = {x, y}
<1>1. DOMAIN <<x, y>> = 1..2 /\ <<x, y>>[1] = x /\ <<x, y>>[2] = y
  OBVIOUS
<1>. QED  BY <1>1 DEF ToSet

(* A write after which p announces at least what it has changed.              *)
LEMMA WritingStep ==
  ASSUME DictionaryIInv, NEW p \in Client, NEW codes \in Seq(Code), codes # <<>>,
         request' = [request EXCEPT ![p] = [op |-> "announce", step |-> "next", codes |-> codes]],
         request[p].op # "announce", NEW changed \in SUBSET Code, Changed(changed),
         dicts' \in [Dict -> Code \cup {Never, Gone}], items' \in [Item -> Code \cup {Never, Gone}],
         raced => raced', ~raced' => CodesAreUnique' /\ ItemsHaveDictionary' /\ changed \subseteq ToSet(codes),
         ~raced' => \A q \in Client \ {p} : q \notin stale' => q \notin stale /\ (ReadsHold(q) => ReadsHold(q)')
  PROVE  DictionaryIInv'
<1>. DEFINE form == [op |-> "announce", step |-> "next", codes |-> codes]
<1>0. request' = [request EXCEPT ![p] = form] /\ IsPerClient(request)
  BY DEF DictionaryIInv
<1>1. EntryIsTyped(form) /\ form.op = "announce" /\ form.codes = codes
  BY AnnounceOf
<1>. HIDE DEF form
<1>2. request'[p] = form /\ request' = [request EXCEPT ![p] = request'[p]]
  BY <1>0, EntryBecomes
<1>3. dirty' = dirty \cup changed /\ unsaid' = unsaid
  BY DEF Changed
<1>4. DictionaryTypeOK'
  BY <1>3 DEF DictionaryIInv, DictionaryTypeOK
<1>5. ReadsHold(p)'
  BY <1>1, <1>2 DEF ReadsHold, At
<1>6. ~raced' => \A code \in dirty' \ unsaid' :
        \/ code \in dirty \ unsaid
             /\ (request[p].op = "announce" => code \notin ToSet(request[p].codes))
        \/ request'[p].op = "announce" /\ code \in ToSet(request'[p].codes)
  BY <1>1, <1>2, <1>3
<1>7. EntryIsTyped(request'[p]) /\ (~raced' /\ p \notin stale' => ReadsHold(p)')
  BY <1>1, <1>2, <1>5
<1>8. ~raced' => CodesAreUnique' /\ ItemsHaveDictionary'
  OBVIOUS
<1>. QED  BY <1>2, <1>4, <1>6, <1>7, <1>8, DictionaryStep

(* What the others' requests carry.                                           *)
LEMMA OthersCarry ==
  ASSUME DictionaryIInv, NEW q \in Client,
         request[q].op \in {"save dictionary", "delete dictionary", "save item"}
  PROVE  /\ request[q].code \in Code /\ request[q].original \in Code /\ request[q].current \in Code
         /\ request[q].op = "save dictionary" => request[q].id \in Dict \cup {0}
         /\ request[q].op = "delete dictionary" => request[q].id \in Dict
BY EntryOf DEF DictionaryIInv

\* A new dictionary: its code was not in use, so no read is about it.
LEMMA CreateDictionaryStep ==
  ASSUME DictionaryIInv, NEW p \in Client, NEW id \in Dict, CreateDictionary(p, id)
  PROVE  DictionaryIInv'
<1>. PICK code : code = request[p].code
  OBVIOUS
<1>1. /\ request[p].op = "save dictionary" /\ dicts[id] = Never /\ code \notin Codes
      /\ dicts' = [dicts EXCEPT ![id] = code] /\ Changed({code})
      /\ request' = [request EXCEPT ![p] = [op |-> "announce", step |-> "next", codes |-> <<code>>]]
      /\ UNCHANGED <<items, stale, raced>>
  BY DEF CreateDictionary, Announces, At
<1>2. code \in Code
  BY <1>1, OthersCarry
<1>3. /\ dicts \in [Dict -> Code \cup {Never, Gone}] /\ items \in [Item -> Code \cup {Never, Gone}]
      /\ Never \notin Code /\ Gone \notin Code
  BY CodesAreOther DEF DictionaryIInv, DictionaryTypeOK
<1>4. /\ dicts' \in [Dict -> Code \cup {Never, Gone}] /\ dicts'[id] = code
      /\ \A other \in Dict \ {id} : dicts'[other] = dicts[other]
  BY <1>1, <1>2, <1>3
<1>5. Live' = Live \cup {id} /\ id \notin Live /\ Codes' = Codes \cup {code}
  <2>1. Live' = Live \cup {id} /\ id \notin Live
    BY <1>1, <1>2, <1>3, <1>4 DEF Live
  <2>. QED  BY <1>4, <2>1 DEF Codes, Live
<1>6. ASSUME ~raced' PROVE CodesAreUnique' /\ ItemsHaveDictionary' /\ {code} \subseteq ToSet(<<code>>)
  <2>1. CodesAreUnique /\ ItemsHaveDictionary /\ ~raced
    BY <1>1, <1>6 DEF DictionaryIInv
  <2>2. \A other \in Live : dicts[other] # code
    BY <1>1 DEF Codes
  <2>3. CodesAreUnique'
    <3>1. ASSUME NEW x \in Live', NEW y \in Live', dicts'[x] = dicts'[y] PROVE x = y
      BY <1>4, <1>5, <2>1, <2>2, <3>1 DEF CodesAreUnique, Live
    <3>. QED  BY <3>1 DEF CodesAreUnique
  <2>4. ItemsHaveDictionary'
    BY <1>1, <1>5, <2>1 DEF ItemsHaveDictionary
  <2>. QED  BY <2>3, <2>4, SetOfOne
<1>7. ASSUME NEW q \in Client \ {p}, ReadsHold(q) PROVE ReadsHold(q)'
  <2>1. request'[q] = request[q]
    BY <1>1, EntryBecomes DEF DictionaryIInv
  <2>2. request[q].op = "save dictionary" /\ request[q].id # 0
          => dicts'[request[q].id] = dicts[request[q].id]
    BY <1>1, <1>3, <1>4, <1>7, OthersCarry DEF ReadsHold
  <2>3. request[q].op = "delete dictionary" => dicts'[request[q].id] = dicts[request[q].id]
    <3>1. ASSUME request[q].op = "delete dictionary" PROVE request[q].id \in Dict \ {id}
      <4>1. dicts[request[q].id] = request[q].code /\ request[q].code \in Code
        BY <1>7, <3>1, OthersCarry DEF ReadsHold
      <4>. QED  BY <1>1, <1>3, <3>1, <4>1, OthersCarry
    <3>. QED  BY <1>4, <3>1
  <2>4. At(q, "delete dictionary", "delete") => \A item \in Item : items'[item] # request[q].code
    BY <1>1, <1>7 DEF ReadsHold, HasItems
  <2>5. request[q].op = "save item" => request[q].code \in Codes'
    BY <1>5, <1>7 DEF ReadsHold
  <2>. QED  BY <1>7, <2>1, <2>2, <2>3, <2>4, <2>5, ReadsHoldOn
<1>8. <<code>> \in Seq(Code) /\ <<code>> # <<>>
  BY <1>2
<1>9. ~raced' => \A q \in Client \ {p} : q \notin stale' => q \notin stale /\ (ReadsHold(q) => ReadsHold(q)')
  BY <1>1, <1>7
<1>10. (raced => raced') /\ {code} \in SUBSET Code /\ items' \in [Item -> Code \cup {Never, Gone}]
       /\ request[p].op # "announce"
  BY <1>1, <1>2, <1>3
<1>. QED  BY <1>1, <1>4, <1>6, <1>8, <1>9, <1>10, WritingStep

\* A rename moves the items of the code it has read; who has read either code is outdated.
LEMMA RenameDictionaryStep ==
  ASSUME DictionaryIInv, NEW p \in Client, RenameDictionary(p)
  PROVE  DictionaryIInv'
<1>. PICK form : form = request[p]
  OBVIOUS
<1>. PICK id : id = form.id
  OBVIOUS
<1>. PICK old : old = dicts[id]
  OBVIOUS
<1>. PICK codes : codes = RenameAnnounced(form)
  OBVIOUS
<1>1. /\ form.op = "save dictionary" /\ At(p, "save dictionary", "write") /\ id \in Live
      /\ \A other \in Live \ {id} : dicts[other] # form.code
      /\ dicts' = [dicts EXCEPT ![id] = form.code] /\ items' = Moves(form.current, form.code)
      /\ Changed({old, form.code}) /\ raced' = (raced \/ p \in stale)
      /\ stale' = (stale \cup Concerned({old, form.code})) \ {p}
      /\ request' = [request EXCEPT ![p] = [op |-> "announce", step |-> "next", codes |-> codes]]
  BY DEF RenameDictionary, Announces, Relies, Outdates, At
<1>2. form.code \in Code /\ form.original \in Code /\ form.current \in Code
  BY <1>1, OthersCarry
<1>3. /\ dicts \in [Dict -> Code \cup {Never, Gone}] /\ items \in [Item -> Code \cup {Never, Gone}]
      /\ Never \notin Code /\ Gone \notin Code /\ 0 \notin Dict
  BY CodesAreOther, IdsAreNotZero DEF DictionaryIInv, DictionaryTypeOK
<1>4. /\ id \in Dict /\ old \in Code /\ id # 0
      /\ dicts' \in [Dict -> Code \cup {Never, Gone}] /\ dicts'[id] = form.code
      /\ \A other \in Dict \ {id} : dicts'[other] = dicts[other]
  BY <1>1, <1>2, <1>3 DEF Live
<1>5. /\ items' \in [Item -> Code \cup {Never, Gone}]
      /\ \A i \in Item : items'[i] = IF items[i] = form.current THEN form.code ELSE items[i]
  BY <1>1, <1>2, <1>3 DEF Moves
<1>6. Live' = Live /\ form.code \in Codes' /\ \A code \in Codes \ {old} : code \in Codes'
  <2>1. Live' = Live
    BY <1>1, <1>2, <1>3, <1>4 DEF Live
  <2>2. form.code \in Codes'
    BY <1>1, <1>4, <2>1 DEF Codes
  <2>3. ASSUME NEW code \in Codes \ {old} PROVE code \in Codes'
    <3>1. PICK other \in Live : dicts[other] = code
      BY <2>3 DEF Codes
    <3>2. other \in Dict \ {id}
      BY <2>3, <3>1 DEF Live
    <3>. QED  BY <1>4, <2>1, <3>1, <3>2 DEF Codes
  <2>. QED  BY <2>1, <2>2, <2>3
<1>7. codes \in Seq(Code) /\ codes # <<>> /\ ToSet(codes) = {form.code, form.original}
  <2>1. ToSet(<<form.code>>) = {form.code} /\ ToSet(<<form.code, form.original>>) = {form.code, form.original}
    BY SetOfOne, SetOfTwo
  <2>2. codes = IF form.original # form.code THEN <<form.code, form.original>> ELSE <<form.code>>
    BY DEF RenameAnnounced
  <2>3. CASE form.original # form.code
    <3>1. codes = <<form.code, form.original>>
      BY <2>2, <2>3
    <3>. QED  BY <1>2, <2>1, <3>1
  <2>4. CASE form.original = form.code
    <3>1. codes = <<form.code>>
      BY <2>2, <2>4
    <3>. QED  BY <1>2, <2>1, <2>4, <3>1
  <2>. QED  BY <2>3, <2>4
<1>8. ASSUME ~raced'
      PROVE  CodesAreUnique' /\ ItemsHaveDictionary' /\ {old, form.code} \subseteq ToSet(codes)
  <2>1. ~raced /\ p \notin stale
    BY <1>1, <1>8
  <2>2. CodesAreUnique /\ ItemsHaveDictionary /\ ReadsHold(p)
    BY <2>1 DEF DictionaryIInv
  <2>3. old = form.original /\ old = form.current
    BY <1>1, <1>4, <2>2 DEF ReadsHold
  <2>4. CodesAreUnique'
    <3>1. ASSUME NEW x \in Live', NEW y \in Live', dicts'[x] = dicts'[y] PROVE x = y
      BY <1>1, <1>4, <1>6, <2>2, <3>1 DEF CodesAreUnique, Live
    <3>. QED  BY <3>1 DEF CodesAreUnique
  <2>5. ItemsHaveDictionary'
    <3>1. ASSUME NEW i \in Item, items'[i] \in Code PROVE items'[i] \in Codes'
      <4>1. CASE items[i] = old
        BY <1>5, <1>6, <2>3, <4>1
      <4>2. CASE items[i] # old
        BY <1>5, <1>6, <2>1, <2>2, <2>3, <3>1, <4>2 DEF ItemsHaveDictionary
      <4>. QED  BY <4>1, <4>2
    <3>. QED  BY <3>1 DEF ItemsHaveDictionary
  <2>. QED  BY <1>7, <2>3, <2>4, <2>5
<1>9. ASSUME NEW q \in Client \ {p}, q \notin stale', ReadsHold(q) PROVE q \notin stale /\ ReadsHold(q)'
  <2>1. request'[q] = request[q]
    BY <1>1, EntryBecomes DEF DictionaryIInv
  <2>2. q \notin stale /\ q \notin Concerned({old, form.code})
    BY <1>1, <1>9
  <2>3. request[q].op \in {"save dictionary", "delete dictionary", "save item"}
          => old \notin {request[q].code, request[q].original} /\ form.code # request[q].code
    BY <2>2 DEF Concerned
  <2>4. request[q].op = "save dictionary" /\ request[q].id # 0
          => dicts'[request[q].id] = dicts[request[q].id]
    BY <1>4, <1>9, <2>3, OthersCarry DEF ReadsHold
  <2>5. request[q].op = "delete dictionary" => dicts'[request[q].id] = dicts[request[q].id]
    BY <1>4, <1>9, <2>3, OthersCarry DEF ReadsHold
  <2>6. At(q, "delete dictionary", "delete") => \A item \in Item : items'[item] # request[q].code
    <3>1. ASSUME At(q, "delete dictionary", "delete") PROVE \A item \in Item : items[item] # request[q].code
      BY <1>9, <3>1 DEF ReadsHold, HasItems
    <3>. QED  BY <1>5, <2>3, <3>1 DEF At
  <2>7. request[q].op = "save item" => request[q].code \in Codes'
    BY <1>6, <1>9, <2>3 DEF ReadsHold
  <2>. QED  BY <1>9, <2>1, <2>2, <2>4, <2>5, <2>6, <2>7, ReadsHoldOn
<1>10. ASSUME NEW q \in Client \ {p}, q \notin stale' PROVE q \notin stale
  BY <1>1, <1>10
<1>11. (raced => raced') /\ {old, form.code} \in SUBSET Code /\ form.op # "announce"
  BY <1>1, <1>2, <1>4
<1>12. ~raced' => \A q \in Client \ {p} : q \notin stale' => q \notin stale /\ (ReadsHold(q) => ReadsHold(q)')
  BY <1>9, <1>10
<1>. QED  BY <1>1, <1>4, <1>5, <1>7, <1>8, <1>11, <1>12, WritingStep

\* A dictionary without items is deleted; who has read its code is outdated.
LEMMA RemoveDictionaryStep ==
  ASSUME DictionaryIInv, NEW p \in Client, RemoveDictionary(p)
  PROVE  DictionaryIInv'
<1>. PICK form : form = request[p]
  OBVIOUS
<1>. PICK id : id = form.id
  OBVIOUS
<1>. PICK old : old = dicts[id]
  OBVIOUS
<1>1. /\ form.op = "delete dictionary" /\ At(p, "delete dictionary", "delete") /\ id \in Live
      /\ dicts' = [dicts EXCEPT ![id] = Gone] /\ UNCHANGED items
      /\ Changed({old}) /\ raced' = (raced \/ p \in stale)
      /\ stale' = (stale \cup Concerned({old})) \ {p}
      /\ request' = [request EXCEPT ![p] = [op |-> "announce", step |-> "next", codes |-> <<form.code>>]]
  BY DEF RemoveDictionary, Announces, Relies, Outdates, At
<1>2. form.code \in Code
  BY <1>1, OthersCarry
<1>3. /\ dicts \in [Dict -> Code \cup {Never, Gone}] /\ items \in [Item -> Code \cup {Never, Gone}]
      /\ Never \notin Code /\ Gone \notin Code
  BY CodesAreOther DEF DictionaryIInv, DictionaryTypeOK
<1>4. /\ id \in Dict /\ old \in Code
      /\ dicts' \in [Dict -> Code \cup {Never, Gone}] /\ dicts'[id] = Gone
      /\ \A other \in Dict \ {id} : dicts'[other] = dicts[other]
  BY <1>1, <1>3 DEF Live
<1>5. Live' = Live \ {id} /\ \A code \in Codes \ {old} : code \in Codes'
  <2>1. Live' = Live \ {id}
    BY <1>3, <1>4 DEF Live
  <2>. QED  BY <1>4, <2>1 DEF Codes, Live
<1>6. ASSUME ~raced'
      PROVE  CodesAreUnique' /\ ItemsHaveDictionary' /\ {old} \subseteq ToSet(<<form.code>>)
  <2>1. ~raced /\ p \notin stale
    BY <1>1, <1>6
  <2>2. CodesAreUnique /\ ItemsHaveDictionary /\ ReadsHold(p)
    BY <2>1 DEF DictionaryIInv
  <2>3. old = form.code /\ \A item \in Item : items[item] # old
    BY <1>1, <2>2 DEF ReadsHold, HasItems
  <2>4. CodesAreUnique'
    <3>1. ASSUME NEW x \in Live', NEW y \in Live', dicts'[x] = dicts'[y] PROVE x = y
      BY <1>4, <1>5, <2>2, <3>1 DEF CodesAreUnique, Live
    <3>. QED  BY <3>1 DEF CodesAreUnique
  <2>5. ItemsHaveDictionary'
    BY <1>1, <1>5, <2>1, <2>2, <2>3 DEF ItemsHaveDictionary
  <2>. QED  BY <2>3, <2>4, <2>5, SetOfOne
<1>7. ASSUME NEW q \in Client \ {p}, q \notin stale', ReadsHold(q) PROVE ReadsHold(q)'
  <2>1. request'[q] = request[q]
    BY <1>1, EntryBecomes DEF DictionaryIInv
  <2>2. q \notin Concerned({old})
    BY <1>1, <1>7
  <2>3. request[q].op \in {"save dictionary", "delete dictionary", "save item"}
          => old \notin {request[q].code, request[q].original}
    BY <2>2 DEF Concerned
  <2>4. request[q].op = "save dictionary" /\ request[q].id # 0
          => dicts'[request[q].id] = dicts[request[q].id]
    BY <1>4, <1>7, <2>3, OthersCarry DEF ReadsHold
  <2>5. request[q].op = "delete dictionary" => dicts'[request[q].id] = dicts[request[q].id]
    BY <1>4, <1>7, <2>3, OthersCarry DEF ReadsHold
  <2>6. At(q, "delete dictionary", "delete") => \A item \in Item : items'[item] # request[q].code
    BY <1>1, <1>7 DEF ReadsHold, HasItems
  <2>7. request[q].op = "save item" => request[q].code \in Codes'
    BY <1>5, <1>7, <2>3 DEF ReadsHold
  <2>. QED  BY <1>7, <2>1, <2>4, <2>5, <2>6, <2>7, ReadsHoldOn
<1>8. ASSUME NEW q \in Client \ {p}, q \notin stale' PROVE q \notin stale
  BY <1>1, <1>8
<1>9. /\ (raced => raced') /\ {old} \in SUBSET Code /\ form.op # "announce"
      /\ items' \in [Item -> Code \cup {Never, Gone}]
  BY <1>1, <1>2, <1>3, <1>4
<1>10. ~raced' => \A q \in Client \ {p} : q \notin stale' => q \notin stale /\ (ReadsHold(q) => ReadsHold(q)')
  BY <1>7, <1>8, Zenon
<1>. QED  BY <1>1, <1>4, <1>2, <1>6, <1>9, <1>10, OneCode, WritingStep

\* An item is inserted into a dictionary that is still there; who has counted is outdated.
LEMMA CreateItemStep ==
  ASSUME DictionaryIInv, NEW p \in Client, NEW item \in Item, CreateItem(p, item)
  PROVE  DictionaryIInv'
<1>. PICK code : code = request[p].code
  OBVIOUS
<1>1. /\ request[p].op = "save item" /\ items' = [items EXCEPT ![item] = code] /\ UNCHANGED dicts
      /\ Changed({code}) /\ raced' = (raced \/ p \in stale)
      /\ stale' = (stale \cup Concerned({code})) \ {p}
      /\ request' = [request EXCEPT ![p] = [op |-> "announce", step |-> "next", codes |-> <<code>>]]
  BY DEF CreateItem, Announces, Relies, Outdates, At
<1>2. code \in Code
  BY <1>1, OthersCarry
<1>3. dicts \in [Dict -> Code \cup {Never, Gone}] /\ items \in [Item -> Code \cup {Never, Gone}]
  BY DEF DictionaryIInv, DictionaryTypeOK
<1>4. /\ items' \in [Item -> Code \cup {Never, Gone}] /\ items'[item] = code
      /\ \A other \in Item \ {item} : items'[other] = items[other]
  BY <1>1, <1>2, <1>3
<1>5. Live' = Live /\ Codes' = Codes
  BY <1>1 DEF Codes, Live
<1>6. ASSUME ~raced' PROVE CodesAreUnique' /\ ItemsHaveDictionary' /\ {code} \subseteq ToSet(<<code>>)
  <2>1. ~raced /\ p \notin stale
    BY <1>1, <1>6
  <2>2. CodesAreUnique /\ ItemsHaveDictionary /\ ReadsHold(p)
    BY <2>1 DEF DictionaryIInv
  <2>3. code \in Codes
    BY <1>1, <2>2 DEF ReadsHold
  <2>4. CodesAreUnique'
    BY <1>1, <1>5, <2>2 DEF CodesAreUnique
  <2>5. ItemsHaveDictionary'
    BY <1>4, <1>5, <2>1, <2>2, <2>3 DEF ItemsHaveDictionary
  <2>. QED  BY <2>4, <2>5, SetOfOne
<1>7. ASSUME NEW q \in Client \ {p}, q \notin stale', ReadsHold(q) PROVE ReadsHold(q)'
  <2>1. request'[q] = request[q]
    BY <1>1, EntryBecomes DEF DictionaryIInv
  <2>2. q \notin Concerned({code})
    BY <1>1, <1>7
  <2>3. At(q, "delete dictionary", "delete") => \A i \in Item : items'[i] # request[q].code
    <3>1. ASSUME At(q, "delete dictionary", "delete")
          PROVE code # request[q].code /\ \A i \in Item : items[i] # request[q].code
      BY <1>7, <2>2, <3>1 DEF ReadsHold, HasItems, Concerned, At
    <3>. QED  BY <1>4, <3>1
  <2>4. request[q].op = "save item" => request[q].code \in Codes'
    BY <1>5, <1>7 DEF ReadsHold
  <2>. QED  BY <1>1, <1>7, <2>1, <2>3, <2>4, ReadsHoldOn
<1>8. ASSUME NEW q \in Client \ {p}, q \notin stale' PROVE q \notin stale
  BY <1>1, <1>8
<1>9. /\ (raced => raced') /\ {code} \in SUBSET Code /\ request[p].op # "announce"
      /\ dicts' \in [Dict -> Code \cup {Never, Gone}]
  BY <1>1, <1>2, <1>3
<1>10. ~raced' => \A q \in Client \ {p} : q \notin stale' => q \notin stale /\ (ReadsHold(q) => ReadsHold(q)')
  BY <1>7, <1>8, Zenon
<1>. QED  BY <1>1, <1>4, <1>2, <1>6, <1>9, <1>10, OneCode, WritingStep

\* An item changes in place.
LEMMA UpdateItemStep ==
  ASSUME DictionaryIInv, NEW p \in Client, UpdateItem(p)
  PROVE  DictionaryIInv'
<1>. PICK code : code = request[p].code
  OBVIOUS
<1>1. /\ request[p].op = "save item" /\ UNCHANGED <<dicts, items, raced>>
      /\ Changed({code}) /\ stale' = stale \ {p}
      /\ request' = [request EXCEPT ![p] = [op |-> "announce", step |-> "next", codes |-> <<code>>]]
  BY DEF UpdateItem, Announces, Forgets, At
<1>2. code \in Code
  BY <1>1, OthersCarry
<1>3. dicts \in [Dict -> Code \cup {Never, Gone}] /\ items \in [Item -> Code \cup {Never, Gone}]
  BY DEF DictionaryIInv, DictionaryTypeOK
<1>4. Live' = Live /\ Codes' = Codes
  BY <1>1 DEF Codes, Live
<1>5. ~raced' => CodesAreUnique' /\ ItemsHaveDictionary' /\ {code} \subseteq ToSet(<<code>>)
  BY <1>1, <1>4, SetOfOne DEF DictionaryIInv, CodesAreUnique, ItemsHaveDictionary
<1>6. ASSUME NEW q \in Client \ {p}, ReadsHold(q) PROVE ReadsHold(q)'
  <2>1. request'[q] = request[q]
    BY <1>1, EntryBecomes DEF DictionaryIInv
  <2>2. At(q, "delete dictionary", "delete") => \A i \in Item : items'[i] # request[q].code
    BY <1>1, <1>6 DEF ReadsHold, HasItems
  <2>3. request[q].op = "save item" => request[q].code \in Codes'
    BY <1>4, <1>6 DEF ReadsHold
  <2>. QED  BY <1>1, <1>6, <2>1, <2>2, <2>3, ReadsHoldOn
<1>7. ASSUME NEW q \in Client \ {p}, q \notin stale' PROVE q \notin stale
  BY <1>1, <1>7
<1>8. /\ (raced => raced') /\ {code} \in SUBSET Code /\ request[p].op # "announce"
      /\ dicts' \in [Dict -> Code \cup {Never, Gone}] /\ items' \in [Item -> Code \cup {Never, Gone}]
  BY <1>1, <1>2, <1>3
<1>9. ~raced' => \A q \in Client \ {p} : q \notin stale' => q \notin stale /\ (ReadsHold(q) => ReadsHold(q)')
  BY <1>6, <1>7, Zenon
<1>. QED  BY <1>1, <1>2, <1>5, <1>8, <1>9, OneCode, WritingStep

\* Items are deleted, which outdates no read.
LEMMA DeleteItemsStep ==
  ASSUME DictionaryIInv, NEW p \in Client, NEW ids \in SUBSET Item, NEW code \in Code,
         DeleteItems(p, ids, code)
  PROVE  DictionaryIInv'
<1>1. /\ request[p] = Idle /\ UNCHANGED <<dicts, stale, raced>> /\ Changed({code})
      /\ items' = [item \in Item |-> IF item \in ids THEN Gone ELSE items[item]]
      /\ request' = [request EXCEPT ![p] = [op |-> "announce", step |-> "next", codes |-> <<code>>]]
  BY DEF DeleteItems, Active
<1>2. /\ dicts \in [Dict -> Code \cup {Never, Gone}] /\ items \in [Item -> Code \cup {Never, Gone}]
      /\ Gone \notin Code
  BY CodesAreOther DEF DictionaryIInv, DictionaryTypeOK
<1>3. /\ items' \in [Item -> Code \cup {Never, Gone}]
      /\ \A item \in Item : items'[item] = items[item] \/ items'[item] = Gone
  BY <1>1, <1>2
<1>4. Live' = Live /\ Codes' = Codes
  BY <1>1 DEF Codes, Live
<1>5. ~raced' => CodesAreUnique' /\ ItemsHaveDictionary' /\ {code} \subseteq ToSet(<<code>>)
  <2>1. ASSUME ~raced' PROVE CodesAreUnique'
    BY <1>1, <1>4, <2>1 DEF DictionaryIInv, CodesAreUnique
  <2>2. ASSUME ~raced' PROVE ItemsHaveDictionary'
    BY <1>1, <1>2, <1>3, <1>4, <2>2 DEF DictionaryIInv, ItemsHaveDictionary
  <2>. QED  BY <2>1, <2>2, SetOfOne
<1>6. ASSUME NEW q \in Client \ {p}, ReadsHold(q) PROVE ReadsHold(q)'
  <2>1. request'[q] = request[q]
    BY <1>1, EntryBecomes DEF DictionaryIInv
  <2>2. At(q, "delete dictionary", "delete") => \A i \in Item : items'[i] # request[q].code
    <3>1. ASSUME At(q, "delete dictionary", "delete")
          PROVE request[q].code \in Code /\ \A i \in Item : items[i] # request[q].code
      BY <1>6, <3>1, OthersCarry DEF ReadsHold, HasItems, At
    <3>. QED  BY <1>2, <1>3, <3>1
  <2>3. request[q].op = "save item" => request[q].code \in Codes'
    BY <1>4, <1>6 DEF ReadsHold
  <2>. QED  BY <1>1, <1>6, <2>1, <2>2, <2>3, ReadsHoldOn
<1>7. ASSUME NEW q \in Client \ {p}, q \notin stale' PROVE q \notin stale
  BY <1>1, <1>7
<1>8. /\ (raced => raced') /\ {code} \in SUBSET Code /\ request[p].op # "announce"
      /\ dicts' \in [Dict -> Code \cup {Never, Gone}]
  BY <1>1, <1>2, NothingRead
<1>9. ~raced' => \A q \in Client \ {p} : q \notin stale' => q \notin stale /\ (ReadsHold(q) => ReadsHold(q)')
  BY <1>6, <1>7, Zenon
<1>. QED  BY <1>1, <1>3, <1>2, <1>5, <1>8, <1>9, OneCode, WritingStep

(* A step that only announces, or gives up announcing.                        *)
LEMMA TellingStep ==
  ASSUME DictionaryIInv, NEW p \in Client, NEW form, request' = [request EXCEPT ![p] = form],
         EntryIsTyped(form), form.op \in {"none", "announce"}, UNCHANGED <<dicts, items, raced>>,
         stale' \in {stale, stale \ {p}}, dirty' \subseteq dirty, unsaid \subseteq unsaid', unsaid' \subseteq Code,
         \A code \in dirty' \ unsaid' :
           \/ request[p].op = "announce" => code \notin ToSet(request[p].codes)
           \/ form.op = "announce" /\ code \in ToSet(form.codes)
  PROVE  DictionaryIInv'
<1>1. /\ request'[p] = form /\ request' = [request EXCEPT ![p] = request'[p]]
      /\ \A q \in Client \ {p} : request'[q] = request[q]
  BY EntryBecomes DEF DictionaryIInv
<1>2. Live' = Live /\ Codes' = Codes
  BY DEF Codes, Live
<1>3. DictionaryTypeOK'
  BY DEF DictionaryIInv, DictionaryTypeOK
<1>4. ~raced' => CodesAreUnique' /\ ItemsHaveDictionary'
  BY <1>2 DEF DictionaryIInv, CodesAreUnique, ItemsHaveDictionary
<1>5. ReadsHold(p)'
  BY <1>1 DEF ReadsHold, At
<1>6. ASSUME NEW q \in Client \ {p}, ReadsHold(q) PROVE ReadsHold(q)'
  <2>1. At(q, "delete dictionary", "delete") => \A i \in Item : items'[i] # request[q].code
    BY <1>6 DEF ReadsHold, HasItems
  <2>2. request[q].op = "save item" => request[q].code \in Codes'
    BY <1>2, <1>6 DEF ReadsHold
  <2>. QED  BY <1>1, <1>6, <2>1, <2>2, ReadsHoldOn
<1>7. ASSUME NEW q \in Client \ {p}, q \notin stale' PROVE q \notin stale
  BY <1>7
<1>8. ~raced' => \A q \in Client \ {p} : q \notin stale' => q \notin stale /\ (ReadsHold(q) => ReadsHold(q)')
  BY <1>6, <1>7, Zenon
<1>9. \A code \in dirty' \ unsaid' :
        \/ code \in dirty \ unsaid
             /\ (request[p].op = "announce" => code \notin ToSet(request[p].codes))
        \/ request'[p].op = "announce" /\ code \in ToSet(request'[p].codes)
  BY <1>1
<1>10. EntryIsTyped(request'[p]) /\ (raced => raced')
  BY <1>1
<1>. QED  BY <1>1, <1>3, <1>4, <1>5, <1>8, <1>9, <1>10, DictionaryStep

\* What is still to be announced.
LEMMA Announcement ==
  ASSUME DictionaryIInv, NEW p \in Client, request[p].op = "announce"
  PROVE  /\ DOMAIN request[p] = {"op", "step", "codes"}
         /\ request[p].codes \in Seq(Code) /\ request[p].codes # <<>>
BY NothingRead DEF DictionaryIInv, EntryIsTyped

\* One code is announced and the rest is left.
LEMMA PublishChangedStep ==
  ASSUME DictionaryIInv, NEW p \in Client, PublishChanged(p)
  PROVE  DictionaryIInv'
<1>. PICK codes : codes = request[p].codes
  OBVIOUS
<1>1. /\ request[p].op = "announce" /\ dirty' = dirty \ {codes[1]} /\ UNCHANGED <<dicts, items, unsaid>>
      /\ IF Len(codes) = 1 THEN Ends(p) /\ Forgets(p)
         ELSE Reads(p, [request[p] EXCEPT !.codes = Tail(@)])
  BY DEF PublishChanged, At
<1>2. DOMAIN request[p] = {"op", "step", "codes"} /\ codes \in Seq(Code) /\ codes # <<>>
  BY <1>1, Announcement
<1>3. /\ Head(codes) = codes[1] /\ Tail(codes) \in Seq(Code) /\ Len(Tail(codes)) = Len(codes) - 1
      /\ ToSet(codes) = {codes[1]} \cup ToSet(Tail(codes)) /\ Len(codes) \in Nat \ {0}
  BY <1>2, ToSetOfTail
<1>4. unsaid \subseteq Code
  BY DEF DictionaryIInv, DictionaryTypeOK
<1>5. CASE Len(codes) = 1
  <2>1. Ends(p) /\ Forgets(p)
    BY <1>1, <1>5
  <2>2. request' = [request EXCEPT ![p] = Idle] /\ stale' = stale \ {p} /\ raced' = raced
    BY <2>1 DEF Ends, Forgets
  <2>3. Tail(codes) = <<>>
    BY <1>2, <1>5, OnlyOne
  <2>4. ToSet(codes) = {codes[1]}
    BY <1>3, <2>3, ToSetOfEmpty
  <2>5. EntryIsTyped(Idle) /\ Idle.op = "none"
    BY DEF EntryIsTyped, Idle
  <2>. QED  BY <1>1, <1>4, <2>2, <2>4, <2>5, TellingStep
<1>6. CASE Len(codes) # 1
  <2>. DEFINE form == [request[p] EXCEPT !.codes = Tail(@)]
  <2>1. request' = [request EXCEPT ![p] = form] /\ UNCHANGED <<stale, raced>>
    BY <1>1, <1>6 DEF Reads
  <2>2. form.op = "announce" /\ form.codes = Tail(codes) /\ DOMAIN form = {"op", "step", "codes"}
    BY <1>1, <1>2
  <2>. HIDE DEF form
  <2>3. Tail(codes) # <<>>
    BY <1>2, <1>6, OnlyOne
  <2>4. EntryIsTyped(form)
    BY <1>3, <2>2, <2>3 DEF EntryIsTyped
  <2>. QED  BY <1>1, <1>3, <1>4, <2>1, <2>2, <2>4, TellingStep
<1>. QED  BY <1>5, <1>6

\* What a failing request still had to announce is counted as unsaid.
LEMMA DictionaryFailsStep ==
  ASSUME DictionaryIInv, NEW p \in Client, DictionaryFails(p)
  PROVE  DictionaryIInv'
<1>1. /\ unsaid' = unsaid \cup (IF request[p].op = "announce" THEN ToSet(request[p].codes) ELSE {})
      /\ request' = [request EXCEPT ![p] = Idle] /\ stale' = stale \ {p}
      /\ UNCHANGED <<dicts, items, dirty, raced>>
  BY DEF DictionaryFails, Ends, Forgets
<1>2. request[p].op = "announce" => ToSet(request[p].codes) \subseteq Code
  <2>1. ASSUME NEW codes \in Seq(Code) PROVE ToSet(codes) \subseteq Code
    BY DEF ToSet
  <2>. QED  BY <2>1, Announcement
<1>3. unsaid \subseteq Code
  BY DEF DictionaryIInv, DictionaryTypeOK
<1>4. EntryIsTyped(Idle) /\ Idle.op = "none"
  BY DEF EntryIsTyped, Idle
<1>. QED  BY <1>1, <1>2, <1>3, <1>4, TellingStep

\* Every step keeps the invariant.
LEMMA DictionarySteps ==
  ASSUME DictionaryIInv, DictionaryNext
  PROVE  DictionaryIInv'
BY SaveDictionaryStep, CreateDictionaryStep, ReadCurrentStep, RenameDictionaryStep,
   DeleteDictionaryStep, CountItemsStep, RemoveDictionaryStep, SaveItemStep, CreateItemStep,
   UpdateItemStep, DeleteItemsStep, PublishChangedStep, DictionaryFailsStep DEF DictionaryNext

\* Nothing moves.
LEMMA DictionaryStands ==
  ASSUME DictionaryIInv, UNCHANGED <<dictionaryVars, requestVars>>
  PROVE  DictionaryIInv'
<1>1. UNCHANGED <<dicts, items, dirty, unsaid, request, stale, raced>>
  BY DEF dictionaryVars, requestVars
<1>2. Live' = Live /\ Codes' = Codes /\ DictionaryTypeOK'
  BY <1>1 DEF DictionaryIInv, DictionaryTypeOK, Codes, Live
<1>3. \A q \in Client : ReadsHold(q) => ReadsHold(q)'
  BY <1>1, <1>2 DEF ReadsHold, At, HasItems
<1>4. CodesAreUnique => CodesAreUnique'
  BY <1>1, <1>2 DEF CodesAreUnique
<1>5. ItemsHaveDictionary' /\ ChangesAreAnnounced'
  BY <1>1, <1>2 DEF DictionaryIInv, ItemsHaveDictionary, ChangesAreAnnounced
<1>6. raced' \/ (CodesAreUnique' /\ \A q \in Client \ stale' : ReadsHold(q)')
  BY <1>1, <1>3, <1>4 DEF DictionaryIInv
<1>7. (\A q \in Client : EntryIsTyped(request[q]))' /\ IsPerClient(request)'
  BY <1>1 DEF DictionaryIInv, IsPerClient
<1>. QED  BY <1>2, <1>5, <1>6, <1>7 DEF DictionaryIInv

\* Tables in which every item has its dictionary, and no request.
LEMMA DictionaryStarts ==
  ASSUME DictionaryStart
  PROVE  DictionaryIInv
<1>1. /\ request = [p \in Client |-> Idle] /\ raced = FALSE /\ dirty = {} /\ unsaid = {}
      /\ DictionaryTypeOK /\ CodesAreUnique /\ ItemsHaveDictionary
  BY DEF DictionaryStart, DictionaryInit, RequestsInit
<1>2. IsPerClient(request) /\ \A p \in Client : request[p] = Idle
  BY <1>1 DEF IsPerClient
<1>3. \A p \in Client : EntryIsTyped(request[p]) /\ ReadsHold(p)
  BY <1>2, NothingRead DEF EntryIsTyped, ReadsHold, At
<1>4. ChangesAreAnnounced
  BY <1>1 DEF ChangesAreAnnounced
<1>. QED  BY <1>1, <1>2, <1>3, <1>4 DEF DictionaryIInv

(* Whatever requests rename, delete and fill dictionaries at once: codes are  *)
(* unique, and a request that no commit has overtaken knows the rows it is    *)
(* about.                                                                     *)
THEOREM DictionaryInvariant == DictionarySpec => []DictionaryIInv
<1>1. DictionaryIInv /\ [DictionaryNext]_<<dictionaryVars, requestVars>> => DictionaryIInv'
  BY DictionarySteps, DictionaryStands
<1>. QED  BY <1>1, DictionaryStarts, PTL DEF DictionarySpec

(* Every item belongs to a live dictionary, through renames and deletions.    *)
THEOREM ItemsKeepDictionary == DictionarySpec => []ItemsHaveDictionary
<1>1. DictionaryIInv => ItemsHaveDictionary
  BY DEF DictionaryIInv
<1>. QED  BY <1>1, DictionaryInvariant, PTL

(* Every code that changes is announced, or the one who owes it has failed.   *)
THEOREM ChangesStayAnnounced == DictionarySpec => []ChangesAreAnnounced
<1>1. DictionaryIInv => ChangesAreAnnounced
  BY DEF DictionaryIInv
<1>. QED  BY <1>1, DictionaryInvariant, PTL

-----------------------------------------------------------------------------
(* What a login has to pass. *)

(* What a bucket holds as time goes by.                                       *)
LEMMA FillsUp ==
  ASSUME NEW tokens \in Int, NEW time \in Nat
  PROVE  /\ Filled(tokens, time) \in Int /\ Filled(tokens, time) <= Burst
         /\ Filled(tokens, time + 1) = Filled(Filled(tokens, time), 1)
         /\ tokens <= Burst => Filled(tokens, 0) = tokens
         /\ tokens >= 0 => Filled(tokens, time) >= 0
BY BucketsFillUp DEF Filled

\* One that is left alone for as long as buckets are kept is full.
LEMMA FillsInTime ==
  ASSUME NEW time \in Nat, time >= ClientTTL
  PROVE  Filled(0, time) = Burst /\ Filled(Burst, 1) = Burst
BY BucketsFillUp DEF Filled

\* What is known of a bucket.
LEMMA BucketKnown ==
  ASSUME AdmissionTypeOK, BucketsAreBounded, NEW a \in DOMAIN buckets
  PROVE  /\ a \in Address /\ clock \in Nat /\ buckets[a].used \in Nat /\ clock - buckets[a].used \in Nat
         /\ buckets[a] \in [used : Nat, tokens : Int]
         /\ buckets[a].tokens \in Int /\ buckets[a].tokens <= Burst
         /\ fair[a] \in 0..Burst
         /\ Filled(buckets[a].tokens, clock - buckets[a].used) <= fair[a]
         /\ Filled(0, clock - buckets[a].used) <= fair[a]
<1>1. /\ a \in Address /\ clock \in Nat /\ buckets[a] \in [used : Nat, tokens : Int]
      /\ fair[a] \in 0..Burst
  BY DEF AdmissionTypeOK
<1>2. /\ clock - buckets[a].used >= 0 /\ buckets[a].tokens <= Burst
      /\ Filled(buckets[a].tokens, clock - buckets[a].used) <= fair[a]
      /\ Filled(0, clock - buckets[a].used) <= fair[a]
  BY <1>1 DEF BucketsAreBounded
<1>3. buckets[a].used \in Nat /\ buckets[a].tokens \in Int
  BY <1>1
<1>. QED  BY <1>1, <1>2, <1>3

\* A bucket that may be dropped is full by right.
LEMMA DroppedIsFull ==
  ASSUME AdmissionTypeOK, BucketsAreBounded, NEW a \in Address, a \notin Kept
  PROVE  fair[a] = Burst
<1>1. CASE a \notin DOMAIN buckets
  BY <1>1 DEF BucketsAreBounded
<1>2. CASE a \in DOMAIN buckets
  <2>1. clock - buckets[a].used \in Nat /\ fair[a] \in 0..Burst
        /\ Filled(0, clock - buckets[a].used) <= fair[a]
    BY <1>2, BucketKnown
  <2>2. clock - buckets[a].used >= ClientTTL
    BY <1>2, <2>1, BucketsFillUp DEF Kept
  <2>. QED  BY <2>1, <2>2, FillsInTime, BucketsFillUp
<1>. QED  BY <1>1, <1>2

\* What the next request would find.
LEMMA FoundIs ==
  ASSUME AdmissionTypeOK, BucketsAreBounded, NEW a \in Address
  PROVE  /\ Found(a) \in Int /\ Found(a) <= Burst /\ Found(a) <= fair[a] /\ fair[a] \in 0..Burst
         /\ a \in Kept => /\ a \in DOMAIN buckets
                          /\ Found(a) = Filled(buckets[a].tokens, clock - buckets[a].used)
         /\ a \notin Kept => Found(a) = fair[a]
<1>1. fair[a] \in 0..Burst
  BY DEF AdmissionTypeOK
<1>2. CASE a \in Kept
  <2>1. a \in DOMAIN buckets
    BY <1>2 DEF Kept
  <2>2. Found(a) = Filled(buckets[a].tokens, clock - buckets[a].used)
    BY <1>2 DEF Found
  <2>. QED  BY <1>1, <1>2, <2>1, <2>2, BucketKnown, FillsUp
<1>3. CASE a \notin Kept
  BY <1>1, <1>3, DroppedIsFull, BucketsFillUp DEF Found
<1>. QED  BY <1>2, <1>3

\* So nobody gets more than a bucket of its own would hold ...
LEMMA NeverTooOftenThen ==
  ASSUME AdmissionIInv
  PROVE  NeverTooOften
BY FoundIs DEF AdmissionIInv, BucketsIInv, NeverTooOften

\* ... nor less, if no request overlapped.
LEMMA KeptOutThen ==
  ASSUME AdmissionIInv
  PROVE  KeptOutOnlyByOverlap
<1>1. AdmissionTypeOK /\ BucketsAreBounded /\ LastIsReturned
  BY DEF AdmissionIInv, BucketsIInv
<1>2. ASSUME NEW a \in Address, a \notin overlapped, Refused(a) = {} PROVE Found(a) = fair[a]
  <2>1. CASE a \in Kept
    BY <1>1, <1>2, <2>1, FoundIs DEF LastIsReturned
  <2>2. CASE a \notin Kept
    BY <1>1, <2>2, FoundIs
  <2>. QED  BY <2>1, <2>2
<1>. QED  BY <1>2 DEF KeptOutOnlyByOverlap

\* A request in Allow.
LEMMA InAllowIs ==
  ASSUME AdmissionTypeOK, NEW p \in Client, InAllow(p)
  PROVE  /\ request[p] \in LoginForm \cup OtherForm
         /\ request[p].address \in Address /\ request[p].level \in Int
         /\ \A level \in Int : [To(p, "cancel") EXCEPT !.level = level] \in LoginForm \cup OtherForm
         /\ request[p].op = "login" => To(p, "count") \in LoginForm
<1>1. request[p] \in {Idle} \cup LoginForm \cup OtherForm /\ request[p] # Idle
  BY DEF AdmissionTypeOK, InAllow, Idle
<1>2. CASE request[p] \in LoginForm
  BY <1>2 DEF LoginForm, To
<1>3. CASE request[p] \in OtherForm
  BY <1>3 DEF OtherForm, To
<1>. QED  BY <1>1, <1>2, <1>3

\* A request goes on to its next step, and the others stay where they are.
LEMMA GoesOn ==
  ASSUME AdmissionTypeOK, NEW p \in Client, NEW form \in {Idle} \cup LoginForm \cup OtherForm,
         request' = [request EXCEPT ![p] = form]
  PROVE  /\ request' \in [Client -> {Idle} \cup LoginForm \cup OtherForm]
         /\ request'[p] = form /\ \A q \in Client \ {p} : request'[q] = request[q]
<1>1. request \in [Client -> {Idle} \cup LoginForm \cup OtherForm]
  BY DEF AdmissionTypeOK
<1>. QED  BY ONLY <1>1, form \in {Idle} \cup LoginForm \cup OtherForm,
          request' = [request EXCEPT ![p] = form]

(* The steps that leave the buckets and the requests in Allow alone.          *)
LEMMA BucketsRest ==
  ASSUME BucketsIInv, UNCHANGED <<clock, limiterVars>>,
         \A q \in Client : request'[q] = request[q] \/ (~InAllow(q) /\ ~InAllow(q)')
  PROVE  BucketsIInv'
<1>1. UNCHANGED <<clock, buckets, cleaned, fair, overlapped>>
  BY DEF limiterVars
<1>2. \A q \in Client : InAllow(q)' => InAllow(q) /\ request'[q] = request[q]
  BY DEF InAllow
<1>3. \A q \in Client : InAllow(q) => request'[q] = request[q]
  OBVIOUS
<1>4. \A a : Refused(a)' = Refused(a)
  BY <1>2, <1>3 DEF Refused, InAllow
<1>5. BucketsAreBounded'
  BY <1>1 DEF BucketsIInv, BucketsAreBounded, Filled
<1>6. RefusalsAreBelow'
  BY <1>2 DEF BucketsIInv, RefusalsAreBelow, InAllow
<1>7. AllowIsShort'
  BY <1>1, <1>2 DEF BucketsIInv, AllowIsShort
<1>8. LastIsReturned'
  BY <1>1, <1>3, <1>4 DEF BucketsIInv, LastIsReturned, Filled, Refused, InAllow
<1>. QED  BY <1>5, <1>6, <1>7, <1>8 DEF BucketsIInv

(* Allow looks its bucket up, and drops others: what it finds is right.       *)
LEMMA LooksUpStep ==
  ASSUME AdmissionIInv, NEW p \in Client, NEW form \in LoginForm \cup OtherForm,
         form.step = "reserve", LooksUp(p, form)
  PROVE  AdmissionIInv'
<1>. DEFINE a == form.address
            bucket == [used |-> clock, tokens |-> Found(a)]
<1>1. AdmissionTypeOK /\ BucketsAreBounded /\ RefusalsAreBelow /\ AllowIsShort /\ LastIsReturned
      /\ PassesAreCounted /\ ComparedIsGone
  BY DEF AdmissionIInv, BucketsIInv
<1>2. /\ a \in Address /\ request[p] = Idle /\ request' = [request EXCEPT ![p] = form]
      /\ buckets' = [b \in Kept \cup {a} |-> IF b = a THEN bucket ELSE buckets[b]]
      /\ cleaned' \in {cleaned, clock} /\ overlapped' = overlapped \cap Kept
      /\ UNCHANGED <<clock, fair, attempts, captcha, passed, compared>>
  BY DEF LooksUp, Begins, Active, loginVars, LoginForm, OtherForm
<1>3. /\ request' \in [Client -> {Idle} \cup LoginForm \cup OtherForm]
      /\ request'[p] = form /\ \A q \in Client \ {p} : request'[q] = request[q]
  BY <1>1, <1>2, GoesOn
<1>4. /\ Found(a) \in Int /\ Found(a) <= Burst /\ Found(a) <= fair[a] /\ fair[a] \in 0..Burst
      /\ Filled(Found(a), 0) = Found(a) /\ Filled(0, 0) = 0 /\ clock \in Nat /\ clock - clock = 0
  BY <1>1, <1>2, FoundIs, FillsUp, BucketsFillUp DEF AdmissionTypeOK
<1>5. Kept \subseteq DOMAIN buckets /\ DOMAIN buckets \subseteq Address
  BY <1>1 DEF Kept, AdmissionTypeOK
<1>. DEFINE found == Found(a)
<1>6. /\ DOMAIN buckets' = Kept \cup {a} /\ buckets'[a].used = clock /\ buckets'[a].tokens = found
      /\ \A b \in Kept \ {a} : buckets'[b] = buckets[b]
  BY <1>2
<1>7. bucket \in [used : Nat, tokens : Int]
  BY <1>4
<1>. HIDE DEF bucket
<1>8. buckets' \in [DOMAIN buckets' -> [used : Nat, tokens : Int]]
  <2>1. \A b \in Kept : buckets[b] \in [used : Nat, tokens : Int]
    BY <1>1, <1>5 DEF AdmissionTypeOK
  <2>. QED  BY <1>2, <1>7, <2>1
<1>. HIDE DEF a
<1>9. AdmissionTypeOK'
  <2>1. clock' \in Nat /\ cleaned' \in Int
    BY <1>1, <1>2 DEF AdmissionTypeOK
  <2>2. /\ attempts' \in [Address -> [count : Nat, left : Nat]]
        /\ captcha' \in [Captcha -> {"unborn", "live", "gone"}]
        /\ fair' \in [Address -> 0..Burst]
        /\ passed' \in [Address -> Nat] /\ compared' \in [Captcha -> Nat]
    BY <1>1, <1>2 DEF AdmissionTypeOK
  <2>3. DOMAIN buckets' \subseteq Address
    BY <1>2, <1>5, <1>6
  <2>. QED  BY ONLY <1>3, <1>8, <2>1, <2>2, <2>3 DEF AdmissionTypeOK
<1>10. BucketsAreBounded'
  <2>1. ASSUME NEW b \in Address, b \in DOMAIN buckets'
        PROVE  /\ clock - buckets'[b].used >= 0 /\ buckets'[b].tokens <= Burst
               /\ Filled(buckets'[b].tokens, clock - buckets'[b].used) <= fair[b]
               /\ Filled(0, clock - buckets'[b].used) <= fair[b]
    <3>1. CASE b = a
      BY <1>4, <1>6, <3>1
    <3>2. CASE b # a
      <4>1. b \in DOMAIN buckets /\ buckets'[b] = buckets[b]
        BY <1>5, <1>6, <2>1, <3>2
      <4>. QED  BY <1>1, <4>1, BucketKnown
    <3>. QED  BY <3>1, <3>2
  <2>2. ASSUME NEW b \in Address, b \notin DOMAIN buckets' PROVE fair[b] = Burst
    BY <1>1, <1>6, <2>2, DroppedIsFull
  <2>. QED  BY <1>2, <2>1, <2>2 DEF BucketsAreBounded, Filled
<1>11. RefusalsAreBelow'
  BY <1>1, <1>3 DEF RefusalsAreBelow
<1>12. \A q \in Client \ {p} : InAllow(q)' => InAllow(q)
  BY <1>3 DEF InAllow
<1>13. \A q \in Client : InAllow(q) => request[q].address \in Kept
  <2>1. ASSUME NEW q \in Client, InAllow(q) PROVE request[q].address \in Kept
    <3>. DEFINE b == request[q].address
    <3>1. b \in DOMAIN buckets /\ buckets[b].used = clock
      BY <1>1, <2>1 DEF AllowIsShort
    <3>. HIDE DEF b
    <3>2. b \in Kept
      BY <1>4, <3>1, BucketsFillUp DEF Kept
    <3>. QED  BY <3>2 DEF b
  <2>. QED  BY <2>1
<1>14. AllowIsShort'
  <2>1. ASSUME NEW q \in Client, InAllow(q)'
        PROVE  request'[q].address \in DOMAIN buckets' /\ buckets'[request'[q].address].used = clock
    <3>1. CASE q = p
      BY <1>3, <1>6, <3>1 DEF a
    <3>2. CASE q # p
      <4>1. InAllow(q) /\ request'[q] = request[q]
        BY <1>3, <1>12, <2>1, <3>2
      <4>. QED  BY <1>1, <1>6, <1>13, <4>1 DEF AllowIsShort
    <3>. QED  BY <3>1, <3>2
  <2>. QED  BY <1>2, <2>1 DEF AllowIsShort
<1>15. \A b : Refused(b)' = Refused(b)
  <2>1. request[p].step # "cancel" /\ request'[p].step # "cancel"
    BY <1>2, <1>3 DEF Idle
  <2>. QED  BY <1>3, <2>1 DEF Refused
<1>16. LastIsReturned'
  <2>1. ASSUME NEW b \in DOMAIN buckets', b \notin overlapped'
        PROVE  /\ Refused(b) = {} => Filled(buckets'[b].tokens, clock - buckets'[b].used) = fair[b]
               /\ \A q \in Refused(b) :
                    /\ Refused(b) = {q} /\ request'[q] = request[q]
                    /\ request[q].level = buckets'[b].tokens /\ fair[b] = request[q].level + 1
    <3>1. \A q \in Refused(b) : q \in Client /\ InAllow(q) /\ request[q].address = b
                                  /\ request'[q] = request[q] /\ request[q].level < 0
      BY <1>1, <1>2, <1>3 DEF Refused, InAllow, Idle, RefusalsAreBelow
    <3>2. CASE b \in Kept
      <4>1. b \in DOMAIN buckets \ overlapped
        BY <1>2, <1>5, <2>1, <3>2
      <4>2. /\ Refused(b) = {} => Filled(buckets[b].tokens, clock - buckets[b].used) = fair[b]
            /\ \A q \in Refused(b) : /\ Refused(b) = {q} /\ request[q].level = buckets[b].tokens
                                     /\ fair[b] = request[q].level + 1
        BY <1>1, <4>1 DEF LastIsReturned
      <4>3. CASE b # a
        BY <1>6, <3>1, <3>2, <4>2, <4>3
      <4>4. CASE b = a
        <5>1. found = Filled(buckets[b].tokens, clock - buckets[b].used)
          BY <1>1, <1>2, <3>2, <4>4, FoundIs
        <5>2. ASSUME NEW q \in Refused(b) PROVE found = buckets[b].tokens
          <6>1. buckets[b].used = clock
            BY <1>1, <3>1 DEF AllowIsShort
          <6>2. buckets[b].tokens \in Int /\ buckets[b].tokens <= Burst
            BY <1>1, <4>1, BucketKnown
          <6>. QED  BY <1>4, <5>1, <6>1, <6>2, FillsUp
        <5>3. Filled(found, clock - clock) = found
          BY <1>4
        <5>. HIDE DEF found
        <5>. QED  BY <1>6, <3>1, <4>2, <4>4, <5>1, <5>2, <5>3
      <4>. QED  BY <4>3, <4>4
    <3>3. CASE b \notin Kept
      <4>1. b = a /\ Refused(b) = {}
        BY <1>6, <1>13, <2>1, <3>1, <3>3
      <4>2. found = fair[b]
        BY <1>1, <1>2, <3>3, <4>1, FoundIs
      <4>3. Filled(found, clock - clock) = found
        BY <1>4
      <4>. HIDE DEF found
      <4>. QED  BY <1>6, <4>1, <4>2, <4>3
    <3>. QED  BY <3>2, <3>3
  <2>. QED  BY <1>2, <1>15, <2>1 DEF LastIsReturned, Filled
<1>17. PassesAreCounted' /\ ComparedIsGone'
  BY <1>1, <1>2 DEF PassesAreCounted, ComparedIsGone
<1>. QED  BY <1>9, <1>10, <1>11, <1>14, <1>16, <1>17 DEF AdmissionIInv, BucketsIInv

(* A request in Allow leaves this much in its bucket, and this much is fair.   *)
LeavesTokens(p, a, form, rest, share) ==
  /\ InAllow(p) /\ a = request[p].address
  /\ form \in {Idle} \cup LoginForm \cup OtherForm /\ request' = [request EXCEPT ![p] = form]
  /\ form.step \in {"none", "count", "cancel"}
  /\ form.step = "cancel" => form.address = a /\ form.level < 0
  /\ rest \in Int /\ share \in 0..Burst /\ rest <= share
  /\ buckets' = [buckets EXCEPT ![a] = [used |-> clock, tokens |-> rest]]
  /\ fair' = [fair EXCEPT ![a] = share] /\ overlapped \subseteq overlapped'
  /\ UNCHANGED <<clock, cleaned, loginVars>>
  /\ a \notin overlapped' =>
       /\ Refused(a)' = {} => rest = share
       /\ \A q \in Refused(a)' :
            Refused(a)' = {q} /\ request'[q].level = rest /\ share = request'[q].level + 1

\* The other buckets hold what they held.
LEMMA OneBucket ==
  ASSUME AdmissionIInv, NEW p \in Client, NEW a, NEW form, NEW rest, NEW share,
         LeavesTokens(p, a, form, rest, share)
  PROVE  AdmissionIInv'
<1>1. AdmissionTypeOK /\ BucketsAreBounded /\ RefusalsAreBelow /\ AllowIsShort /\ LastIsReturned
      /\ PassesAreCounted /\ ComparedIsGone
  BY DEF AdmissionIInv, BucketsIInv
<1>. USE DEF LeavesTokens
<1>2. a \in DOMAIN buckets /\ buckets[a].used = clock /\ a \in Address /\ clock \in Nat
  BY <1>1, BucketKnown DEF AllowIsShort
<1>3. /\ request' \in [Client -> {Idle} \cup LoginForm \cup OtherForm]
      /\ request'[p] = form /\ \A q \in Client \ {p} : request'[q] = request[q]
  BY <1>1, GoesOn
<1>4. /\ DOMAIN buckets \subseteq Address /\ buckets \in [DOMAIN buckets -> [used : Nat, tokens : Int]]
      /\ fair \in [Address -> 0..Burst]
  BY <1>1 DEF AdmissionTypeOK
<1>5. /\ DOMAIN buckets' = DOMAIN buckets /\ buckets'[a].used = clock /\ buckets'[a].tokens = rest
      /\ \A b \in DOMAIN buckets \ {a} : buckets'[b] = buckets[b]
      /\ buckets' \in [DOMAIN buckets' -> [used : Nat, tokens : Int]]
  <2>1. [used |-> clock, tokens |-> rest] \in [used : Nat, tokens : Int]
    BY <1>2
  <2>. QED  BY <1>2, <1>4, <2>1
<1>6. fair' \in [Address -> 0..Burst] /\ fair'[a] = share /\ \A b \in Address \ {a} : fair'[b] = fair[b]
  BY <1>2, <1>4
<1>7. AdmissionTypeOK'
  <2>1. UNCHANGED <<clock, cleaned, attempts, captcha, passed, compared>>
    BY DEF loginVars
  <2>2. /\ clock' \in Nat /\ cleaned' \in Int
        /\ attempts' \in [Address -> [count : Nat, left : Nat]]
        /\ captcha' \in [Captcha -> {"unborn", "live", "gone"}]
        /\ passed' \in [Address -> Nat] /\ compared' \in [Captcha -> Nat]
    BY <1>1, <2>1 DEF AdmissionTypeOK
  <2>3. DOMAIN buckets' \subseteq Address
    BY <1>4, <1>5
  <2>. QED  BY ONLY <1>3, <1>5, <1>6, <2>2, <2>3 DEF AdmissionTypeOK
<1>8. Filled(rest, 0) = rest /\ Filled(0, 0) = 0 /\ clock - clock = 0 /\ rest <= Burst
  BY <1>2, FillsUp, BucketsFillUp
<1>9. BucketsAreBounded'
  <2>1. ASSUME NEW b \in Address, b \in DOMAIN buckets'
        PROVE  /\ clock - buckets'[b].used >= 0 /\ buckets'[b].tokens <= Burst
               /\ Filled(buckets'[b].tokens, clock - buckets'[b].used) <= fair'[b]
               /\ Filled(0, clock - buckets'[b].used) <= fair'[b]
    <3>1. CASE b = a
      BY <1>5, <1>6, <1>8, <3>1
    <3>2. CASE b # a
      <4>1. b \in DOMAIN buckets /\ buckets'[b] = buckets[b] /\ fair'[b] = fair[b]
        BY <1>5, <1>6, <2>1, <3>2
      <4>. QED  BY <1>1, <4>1, BucketKnown
    <3>. QED  BY <3>1, <3>2
  <2>2. ASSUME NEW b \in Address, b \notin DOMAIN buckets' PROVE fair'[b] = Burst
    BY <1>1, <1>2, <1>5, <1>6, <2>2 DEF BucketsAreBounded
  <2>. QED  BY <2>1, <2>2 DEF BucketsAreBounded, Filled
<1>10. RefusalsAreBelow'
  BY <1>1, <1>3 DEF RefusalsAreBelow
<1>11. AllowIsShort'
  <2>1. ASSUME NEW q \in Client, InAllow(q)'
        PROVE  request'[q].address \in DOMAIN buckets' /\ buckets'[request'[q].address].used = clock
    <3>1. CASE q = p
      BY <1>2, <1>3, <1>5, <2>1, <3>1 DEF InAllow
    <3>2. CASE q # p
      <4>1. InAllow(q) /\ request'[q] = request[q]
        BY <1>3, <2>1, <3>2 DEF InAllow
      <4>. QED  BY <1>1, <1>5, <4>1 DEF AllowIsShort
    <3>. QED  BY <3>1, <3>2
  <2>. QED  BY <2>1 DEF AllowIsShort
<1>12. ASSUME NEW b, b # a PROVE Refused(b)' = Refused(b) /\ \A q \in Refused(b) : q # p
  <2>1. p \notin Refused(b) /\ p \notin Refused(b)'
    BY <1>3, <1>12 DEF Refused
  <2>. QED  BY <1>3, <2>1 DEF Refused
<1>13. LastIsReturned'
  <2>1. ASSUME NEW b \in DOMAIN buckets', b \notin overlapped'
        PROVE  /\ Refused(b)' = {} => Filled(buckets'[b].tokens, clock - buckets'[b].used) = fair'[b]
               /\ \A q \in Refused(b)' :
                    /\ Refused(b)' = {q}
                    /\ request'[q].level = buckets'[b].tokens /\ fair'[b] = request'[q].level + 1
    <3>1. CASE b = a
      BY <1>5, <1>6, <1>8, <2>1, <3>1
    <3>2. CASE b # a
      <4>1. b \in DOMAIN buckets \ overlapped /\ buckets'[b] = buckets[b] /\ fair'[b] = fair[b]
        BY <1>4, <1>5, <1>6, <2>1, <3>2
      <4>2. /\ Refused(b) = {} => Filled(buckets[b].tokens, clock - buckets[b].used) = fair[b]
            /\ \A q \in Refused(b) : /\ Refused(b) = {q} /\ request[q].level = buckets[b].tokens
                                     /\ fair[b] = request[q].level + 1
        BY <1>1, <4>1 DEF LastIsReturned
      <4>3. Refused(b)' = Refused(b) /\ \A q \in Refused(b) : request'[q] = request[q]
        BY <1>3, <1>12, <3>2 DEF Refused
      <4>. QED  BY <4>1, <4>2, <4>3
    <3>. QED  BY <3>1, <3>2
  <2>. QED  BY <2>1 DEF LastIsReturned, Filled
<1>14. PassesAreCounted' /\ ComparedIsGone'
  BY <1>1 DEF PassesAreCounted, ComparedIsGone, loginVars
<1>. QED  BY <1>7, <1>9, <1>10, <1>11, <1>13, <1>14 DEF AdmissionIInv, BucketsIInv

(* A request in Allow finds no more than is fair, and no less if it is alone. *)
LEMMA InAllowFinds ==
  ASSUME AdmissionIInv, NEW p \in Client, InAllow(p), NEW a, a = request[p].address
  PROVE  /\ a \in DOMAIN buckets /\ a \in Address /\ buckets[a].tokens \in Int
         /\ buckets \in [DOMAIN buckets -> [used : Nat, tokens : Int]]
         /\ buckets[a] = [used |-> clock, tokens |-> buckets[a].tokens]
         /\ fair[a] \in 0..Burst /\ fair \in [Address -> 0..Burst] /\ buckets[a].tokens <= fair[a]
         /\ a \notin overlapped =>
              /\ Refused(a) = {} => buckets[a].tokens = fair[a]
              /\ \A q \in Refused(a) : /\ Refused(a) = {q} /\ request[q].level = buckets[a].tokens
                                       /\ fair[a] = request[q].level + 1
<1>1. AdmissionTypeOK /\ BucketsAreBounded /\ AllowIsShort /\ LastIsReturned
  BY DEF AdmissionIInv, BucketsIInv
<1>2. a \in DOMAIN buckets /\ buckets[a].used = clock
  BY <1>1 DEF AllowIsShort
<1>3. /\ a \in Address /\ clock \in Nat /\ buckets[a] \in [used : Nat, tokens : Int]
      /\ buckets[a].tokens \in Int /\ buckets[a].tokens <= Burst /\ fair[a] \in 0..Burst
      /\ Filled(buckets[a].tokens, clock - buckets[a].used) <= fair[a]
  BY <1>1, <1>2, BucketKnown
<1>4. fair \in [Address -> 0..Burst] /\ buckets \in [DOMAIN buckets -> [used : Nat, tokens : Int]]
  BY <1>1 DEF AdmissionTypeOK
<1>5. clock - buckets[a].used = 0 /\ Filled(buckets[a].tokens, clock - buckets[a].used) = buckets[a].tokens
  <2>1. clock - buckets[a].used = 0
    BY ONLY <1>2, <1>3
  <2>. QED  BY ONLY <1>3, <2>1, BucketsFillUp DEF Filled
<1>6. buckets[a] = [used |-> clock, tokens |-> buckets[a].tokens]
  BY <1>2, <1>3
<1>7. a \notin overlapped =>
        /\ Refused(a) = {} => Filled(buckets[a].tokens, clock - buckets[a].used) = fair[a]
        /\ \A q \in Refused(a) : /\ Refused(a) = {q} /\ request[q].level = buckets[a].tokens
                                 /\ fair[a] = request[q].level + 1
  BY <1>1, <1>2 DEF LastIsReturned
<1>. QED  BY <1>2, <1>3, <1>4, <1>5, <1>6, <1>7

(* A reservation takes a token, of its own share too if the request is let in. *)
LEMMA ReserveStep ==
  ASSUME AdmissionIInv, NEW p \in Client, Reserve(p),
         NEW a, a = request[p].address, NEW tokens, tokens = buckets[a].tokens
  PROVE  AdmissionIInv'
<1>1. InAllow(p) /\ request[p].step = "reserve"
  BY DEF Reserve, InAllow
<1>2. /\ a \in DOMAIN buckets /\ a \in Address /\ tokens \in Int
      /\ buckets \in [DOMAIN buckets -> [used : Nat, tokens : Int]]
      /\ buckets[a] = [used |-> clock, tokens |-> tokens]
      /\ fair[a] \in 0..Burst /\ fair \in [Address -> 0..Burst] /\ tokens <= fair[a]
      /\ a \notin overlapped => (Refused(a) = {} => tokens = fair[a])
  BY <1>1, InAllowFinds
<1>3. AdmissionTypeOK
  BY DEF AdmissionIInv
<1>4. /\ \A level \in Int : [To(p, "cancel") EXCEPT !.level = level] \in LoginForm \cup OtherForm
      /\ request[p].op = "login" => To(p, "count") \in LoginForm
      /\ request[p] \in LoginForm \cup OtherForm
  BY <1>1, <1>3, InAllowIs
<1>5. /\ buckets' = [buckets EXCEPT ![a] = [used |-> clock, tokens |-> tokens - 1]]
      /\ overlapped' = IF Refused(a) = {} THEN overlapped ELSE overlapped \cup {a}
      /\ UNCHANGED <<clock, cleaned, loginVars>>
  <2>1. /\ buckets' = [buckets EXCEPT ![a].tokens = tokens - 1]
        /\ overlapped' = IF Refused(a) = {} THEN overlapped ELSE overlapped \cup {a}
        /\ UNCHANGED <<clock, cleaned, loginVars>>
    BY DEF Reserve
  <2>2. [buckets[a] EXCEPT !.tokens = tokens - 1] = [used |-> clock, tokens |-> tokens - 1]
    BY ONLY <1>2
  <2>. QED  BY ONLY <2>1, <2>2
<1>6. p \notin Refused(a) /\ overlapped \subseteq overlapped' /\ (a \notin overlapped' => Refused(a) = {})
  <2>1. p \notin Refused(a)
    BY <1>1 DEF Refused
  <2>. QED  BY ONLY <1>5, <2>1
<1>7. CASE tokens <= 0
  <2>1. tokens - 1 \in Int /\ tokens - 1 < 0 /\ tokens - 1 <= fair[a] /\ (tokens = fair[a] => fair[a] = 0)
    BY ONLY <1>2, <1>7
  <2>2. PICK form \in LoginForm \cup OtherForm : form = [To(p, "cancel") EXCEPT !.level = tokens - 1]
    BY ONLY <1>4, <2>1
  <2>3. form.step = "cancel" /\ form.address = a /\ form.level = tokens - 1
    <3>1. CASE request[p] \in LoginForm
      BY <2>2, <3>1 DEF To, LoginForm
    <3>2. CASE request[p] \in OtherForm
      BY <2>2, <3>2 DEF To, OtherForm
    <3>. QED  BY <1>4, <3>1, <3>2
  <2>4. request' = [request EXCEPT ![p] = form] /\ fair' = fair
    BY <1>7, <2>2 DEF Reserve, Reads
  <2>5. fair' = [fair EXCEPT ![a] = fair[a]]
    BY ONLY <1>2, <2>4
  <2>6. request'[p] = form /\ \A q \in Client \ {p} : request'[q] = request[q]
    BY <1>3, <2>4, GoesOn
  <2>7. Refused(a)' = Refused(a) \cup {p}
    BY <1>6, <2>3, <2>6 DEF Refused
  <2>8. a \notin overlapped' =>
          /\ Refused(a)' = {} => tokens - 1 = fair[a]
          /\ \A q \in Refused(a)' : /\ Refused(a)' = {q} /\ request'[q].level = tokens - 1
                                    /\ fair[a] = request'[q].level + 1
    <3>1. SUFFICES ASSUME a \notin overlapped'
                   PROVE  Refused(a)' = {p} /\ request'[p].level = tokens - 1
                          /\ fair[a] = request'[p].level + 1
      OBVIOUS
    <3>2. Refused(a)' = {p} /\ a \notin overlapped /\ tokens = fair[a]
      BY ONLY <1>2, <1>6, <2>7, <3>1
    <3>. QED  BY ONLY <1>2, <2>1, <2>3, <2>6, <3>2
  <2>9. LeavesTokens(p, a, form, tokens - 1, fair[a])
    BY ONLY <1>1, <1>2, <1>5, <1>6, <2>1, <2>3, <2>4, <2>5, <2>8,
            a = request[p].address, form \in LoginForm \cup OtherForm DEF LeavesTokens
  <2>. QED  BY <2>9, OneBucket
<1>8. CASE ~(tokens <= 0)
  <2>1. fair' = [fair EXCEPT ![a] = fair[a] - 1]
    BY <1>8 DEF Reserve
  <2>2. \/ request[p].op = "login" /\ request' = [request EXCEPT ![p] = To(p, "count")]
        \/ request' = [request EXCEPT ![p] = Idle]
    BY <1>8 DEF Reserve, Reads, Ends
  <2>3. PICK form \in {Idle} \cup LoginForm \cup OtherForm :
          form.step \in {"none", "count"} /\ request' = [request EXCEPT ![p] = form]
    <3>1. CASE request[p].op = "login" /\ request' = [request EXCEPT ![p] = To(p, "count")]
      <4>1. To(p, "count").step = "count"
        BY <1>4 DEF To, LoginForm, OtherForm
      <4>. QED  BY <1>4, <3>1, <4>1
    <3>2. CASE request' = [request EXCEPT ![p] = Idle]
      BY <3>2, IdleIs
    <3>. QED  BY <2>2, <3>1, <3>2
  <2>4. request'[p] = form /\ \A q \in Client \ {p} : request'[q] = request[q]
    BY <1>3, <2>3, GoesOn
  <2>5. Refused(a)' = Refused(a)
    BY <1>6, <2>3, <2>4 DEF Refused
  <2>6. tokens - 1 \in Int /\ tokens - 1 <= fair[a] - 1 /\ fair[a] - 1 \in 0..Burst
        /\ (tokens = fair[a] => tokens - 1 = fair[a] - 1)
    BY ONLY <1>2, <1>8, BucketsFillUp
  <2>7. a \notin overlapped' => Refused(a)' = {} /\ tokens - 1 = fair[a] - 1
    BY ONLY <1>2, <1>6, <2>5, <2>6
  <2>8. LeavesTokens(p, a, form, tokens - 1, fair[a] - 1)
    BY ONLY <1>1, <1>2, <1>5, <1>6, <2>1, <2>3, <2>6, <2>7, a = request[p].address,
            form \in {Idle} \cup LoginForm \cup OtherForm DEF LeavesTokens
  <2>. QED  BY <2>8, OneBucket
<1>. QED  BY ONLY <1>7, <1>8

(* A refused request gives its token back, unless a later one stands.         *)
LEMMA CancelStep ==
  ASSUME AdmissionIInv, NEW p \in Client, Cancel(p),
         NEW a, a = request[p].address, NEW tokens, tokens = buckets[a].tokens
  PROVE  AdmissionIInv'
<1>1. InAllow(p) /\ request[p].step = "cancel"
  BY DEF Cancel, InAllow
<1>2. /\ a \in DOMAIN buckets /\ a \in Address /\ tokens \in Int
      /\ buckets \in [DOMAIN buckets -> [used : Nat, tokens : Int]]
      /\ buckets[a] = [used |-> clock, tokens |-> tokens]
      /\ fair[a] \in 0..Burst /\ fair \in [Address -> 0..Burst] /\ tokens <= fair[a]
      /\ a \notin overlapped =>
           \A q \in Refused(a) : /\ Refused(a) = {q} /\ request[q].level = tokens
                                  /\ fair[a] = request[q].level + 1
  BY <1>1, InAllowFinds
<1>3. AdmissionTypeOK /\ request[p].level \in Int /\ request[p].level < 0
  BY <1>1, InAllowIs DEF AdmissionIInv, BucketsIInv, RefusalsAreBelow
<1>4. /\ request' = [request EXCEPT ![p] = Idle] /\ buckets' = Returned(p)
      /\ UNCHANGED <<clock, cleaned, fair, overlapped, loginVars>>
  BY DEF Cancel, Ends
<1>5. request'[p] = Idle /\ \A q \in Client \ {p} : request'[q] = request[q]
  BY <1>3, <1>4, GoesOn
<1>6. Refused(a)' = Refused(a) \ {p} /\ p \in Refused(a)
  BY <1>1, <1>5, IdleIs DEF Refused
<1>7. Idle.step = "none" /\ fair' = [fair EXCEPT ![a] = fair[a]] /\ overlapped \subseteq overlapped'
  BY <1>2, <1>4, IdleIs
<1>8. a \notin overlapped' =>
        Refused(a)' = {} /\ request[p].level = tokens /\ fair[a] = request[p].level + 1
  BY ONLY <1>2, <1>4, <1>6
<1>9. CASE tokens = request[p].level
  <2>1. buckets' = [buckets EXCEPT ![a] = [used |-> clock, tokens |-> tokens + 1]]
    <3>1. buckets' = [buckets EXCEPT ![a].tokens = @ + 1]
      BY <1>4, <1>9 DEF Returned
    <3>2. [buckets[a] EXCEPT !.tokens = @ + 1] = [used |-> clock, tokens |-> tokens + 1]
      BY ONLY <1>2
    <3>. QED  BY ONLY <3>1, <3>2
  <2>2. tokens + 1 \in Int /\ tokens + 1 <= fair[a]
    BY ONLY <1>2, <1>3, <1>9
  <2>3. a \notin overlapped' => Refused(a)' = {} /\ tokens + 1 = fair[a]
    BY ONLY <1>8
  <2>4. LeavesTokens(p, a, Idle, tokens + 1, fair[a])
    BY ONLY <1>1, <1>2, <1>4, <1>7, <2>1, <2>2, <2>3, a = request[p].address DEF LeavesTokens
  <2>. QED  BY <2>4, OneBucket
<1>10. CASE tokens # request[p].level
  <2>1. buckets' = [buckets EXCEPT ![a] = [used |-> clock, tokens |-> tokens]]
    <3>1. buckets' = buckets
      BY <1>4, <1>10 DEF Returned
    <3>. QED  BY ONLY <1>2, <3>1
  <2>2. a \in overlapped'
    BY ONLY <1>8, <1>10
  <2>3. LeavesTokens(p, a, Idle, tokens, fair[a])
    BY ONLY <1>1, <1>2, <1>4, <1>7, <2>1, <2>2, a = request[p].address DEF LeavesTokens
  <2>. QED  BY <2>3, OneBucket
<1>. QED  BY ONLY <1>9, <1>10

(* Time passes only while no request is in Allow: every bucket gets a token.   *)
LEMMA TickStep ==
  ASSUME AdmissionIInv, Tick
  PROVE  AdmissionIInv'
<1>1. AdmissionTypeOK /\ BucketsAreBounded /\ RefusalsAreBelow /\ LastIsReturned
      /\ PassesAreCounted /\ ComparedIsGone
  BY DEF AdmissionIInv, BucketsIInv
<1>2. /\ clock \in Nat /\ clock' = clock + 1 /\ \A p \in Client : ~InAllow(p)
      /\ UNCHANGED <<buckets, cleaned, overlapped, captcha, compared, request>>
  BY <1>1 DEF Tick, AdmissionTypeOK, requestVars
<1>3. \A a \in Address : fair[a] \in 0..Burst /\ Filled(fair[a], 1) \in 0..Burst
  <2>1. \A a \in Address : fair[a] \in 0..Burst
    BY <1>1 DEF AdmissionTypeOK
  <2>. QED  BY ONLY <2>1, BucketsFillUp DEF Filled
<1>4. /\ fair' \in [Address -> 0..Burst] /\ \A a \in Address : fair'[a] = Filled(fair[a], 1)
  BY <1>3 DEF Tick
<1>5. ASSUME NEW a \in Address
      PROVE  /\ attempts'[a] \in [count : Nat, left : Nat] /\ passed'[a] \in Nat
             /\ passed'[a] <= attempts'[a].count /\ passed'[a] <= LoginLimit
             /\ attempts'[a].left = 0 => passed'[a] = 0
  <2>1. attempts[a] \in [count : Nat, left : Nat] /\ passed[a] \in Nat
    BY <1>1 DEF AdmissionTypeOK
  <2>2. passed[a] <= attempts[a].count /\ passed[a] <= LoginLimit
    BY <1>1 DEF PassesAreCounted
  <2>3. CASE attempts[a].left <= 1
    <3>1. attempts'[a] = [count |-> 0, left |-> 0] /\ passed'[a] = 0
      BY <2>3 DEF Tick, None
    <3>. QED  BY <3>1, LimitsArePositive
  <2>4. CASE attempts[a].left > 1
    <3>1. attempts'[a] = [attempts[a] EXCEPT !.left = @ - 1] /\ passed'[a] = passed[a]
      BY <2>1, <2>4 DEF Tick
    <3>. QED  BY <2>1, <2>2, <2>4, <3>1
  <2>. QED  BY <2>1, <2>3, <2>4
<1>6. attempts' \in [Address -> [count : Nat, left : Nat]] /\ passed' \in [Address -> Nat]
  BY <1>5 DEF Tick
<1>7. AdmissionTypeOK'
  <2>1. /\ clock' \in Nat /\ cleaned' \in Int /\ DOMAIN buckets' \subseteq Address
        /\ buckets' \in [DOMAIN buckets' -> [used : Nat, tokens : Int]]
        /\ captcha' \in [Captcha -> {"unborn", "live", "gone"}] /\ compared' \in [Captcha -> Nat]
        /\ request' \in [Client -> {Idle} \cup LoginForm \cup OtherForm]
    BY <1>1, <1>2 DEF AdmissionTypeOK
  <2>. QED  BY ONLY <1>4, <1>6, <2>1 DEF AdmissionTypeOK
<1>8. ASSUME NEW a \in DOMAIN buckets
      PROVE  /\ a \in Address /\ buckets[a].tokens <= Burst /\ fair'[a] = Filled(fair[a], 1)
             /\ clock' - buckets[a].used = (clock - buckets[a].used) + 1
             /\ clock' - buckets[a].used >= 0
             /\ Filled(buckets[a].tokens, clock' - buckets[a].used)
                  = Filled(Filled(buckets[a].tokens, clock - buckets[a].used), 1)
             /\ Filled(buckets[a].tokens, clock' - buckets[a].used) <= fair'[a]
             /\ Filled(0, clock' - buckets[a].used) <= fair'[a]
  <2>1. /\ a \in Address /\ clock - buckets[a].used \in Nat /\ buckets[a].used \in Nat
        /\ buckets[a].tokens \in Int /\ buckets[a].tokens <= Burst /\ fair[a] \in 0..Burst
        /\ Filled(buckets[a].tokens, clock - buckets[a].used) <= fair[a]
        /\ Filled(0, clock - buckets[a].used) <= fair[a]
    BY <1>1, BucketKnown
  <2>2. clock' - buckets[a].used = (clock - buckets[a].used) + 1 /\ clock' - buckets[a].used >= 0
    BY ONLY <1>2, <2>1
  <2>3. ASSUME NEW tokens \in Int, Filled(tokens, clock - buckets[a].used) <= fair[a]
        PROVE  /\ Filled(tokens, clock' - buckets[a].used)
                    = Filled(Filled(tokens, clock - buckets[a].used), 1)
               /\ Filled(tokens, clock' - buckets[a].used) <= Filled(fair[a], 1)
    BY ONLY <2>1, <2>2, <2>3, BucketsFillUp DEF Filled
  <2>. QED  BY ONLY <1>4, <2>1, <2>2, <2>3
<1>9. BucketsAreBounded'
  <2>1. ASSUME NEW a \in Address, a \notin DOMAIN buckets PROVE fair'[a] = Burst
    <3>1. fair[a] = Burst /\ fair'[a] = Filled(fair[a], 1)
      BY <1>1, <1>4, <2>1 DEF BucketsAreBounded
    <3>. QED  BY ONLY <3>1, BucketsFillUp DEF Filled
  <2>2. buckets' = buckets
    BY <1>2
  <2>. QED  BY <1>8, <2>1, <2>2 DEF BucketsAreBounded, Filled
<1>10. RefusalsAreBelow' /\ AllowIsShort'
  BY <1>1, <1>2 DEF RefusalsAreBelow, AllowIsShort, InAllow
<1>11. LastIsReturned'
  <2>1. \A a : Refused(a) = {} /\ Refused(a)' = {}
    BY <1>2 DEF Refused, InAllow
  <2>2. ASSUME NEW a \in DOMAIN buckets, a \notin overlapped
        PROVE  Filled(buckets[a].tokens, clock' - buckets[a].used) = fair'[a]
    <3>1. Filled(buckets[a].tokens, clock - buckets[a].used) = fair[a]
      BY <1>1, <2>1, <2>2 DEF LastIsReturned
    <3>. QED  BY <1>8, <3>1
  <2>3. buckets' = buckets /\ overlapped' = overlapped
    BY <1>2
  <2>. QED  BY <2>1, <2>2, <2>3 DEF LastIsReturned, Filled
<1>12. PassesAreCounted' /\ ComparedIsGone'
  BY <1>1, <1>2, <1>5 DEF PassesAreCounted, ComparedIsGone
<1>. QED  BY <1>7, <1>9, <1>10, <1>11, <1>12 DEF AdmissionIInv, BucketsIInv

(* A login that Allow has let in.                                             *)
LEMMA LoginIs ==
  ASSUME AdmissionTypeOK, NEW p \in Client, request[p].op = "login"
  PROVE  /\ request[p] \in LoginForm /\ request[p].address \in Address
         /\ request[p].captcha \in Captcha
         /\ To(p, "captcha") \in LoginForm /\ To(p, "captcha").step = "captcha"
<1>1. request[p] \in {Idle} \cup LoginForm \cup OtherForm
  BY DEF AdmissionTypeOK
<1>2. request[p] \in LoginForm
  BY <1>1, IdleIs DEF OtherForm
<1>. QED  BY <1>2 DEF LoginForm, To

\* What it does next leaves the buckets alone, and the requests in Allow.
LEMMA BeyondAllow ==
  ASSUME AdmissionIInv, NEW p \in Client, ~InAllow(p), UNCHANGED <<clock, limiterVars>>,
         NEW form \in {Idle} \cup LoginForm, form.step \in {"none", "count", "captcha"},
         request' = [request EXCEPT ![p] = form]
  PROVE  /\ BucketsIInv'
         /\ request' \in [Client -> {Idle} \cup LoginForm \cup OtherForm]
<1>1. BucketsIInv /\ AdmissionTypeOK
  BY DEF AdmissionIInv
<1>2. /\ request' \in [Client -> {Idle} \cup LoginForm \cup OtherForm]
      /\ request'[p] = form /\ \A q \in Client \ {p} : request'[q] = request[q]
  BY <1>1, GoesOn
<1>3. ~InAllow(p)'
  BY <1>2 DEF InAllow
<1>4. \A q \in Client : request'[q] = request[q] \/ (~InAllow(q) /\ ~InAllow(q)')
  BY <1>2, <1>3
<1>. QED  BY <1>1, <1>2, <1>4, BucketsRest

(* A login that is counted, and perhaps let in.                               *)
LEMMA CountStep ==
  ASSUME AdmissionIInv, NEW p \in Client, AllowLogin(p) \/ AllowLoginUnanswered(p),
         NEW a, a = request[p].address
  PROVE  AdmissionIInv'
<1>1. AdmissionTypeOK /\ BucketsIInv /\ PassesAreCounted /\ ComparedIsGone
  BY DEF AdmissionIInv
<1>2. /\ request[p].op = "login" /\ request[p].step = "count" /\ ~InAllow(p)
      /\ request[p] \in LoginForm /\ a \in Address
      /\ To(p, "captcha") \in LoginForm /\ To(p, "captcha").step = "captcha"
  BY <1>1, LoginIs DEF AllowLogin, AllowLoginUnanswered, At, InAllow
<1>3. /\ attempts[a] \in [count : Nat, left : Nat] /\ passed[a] \in Nat
      /\ passed[a] <= attempts[a].count /\ passed[a] <= LoginLimit /\ (attempts[a].left = 0 => passed[a] = 0)
  <2>1. attempts[a] \in [count : Nat, left : Nat] /\ passed[a] \in Nat
    BY <1>1, <1>2 DEF AdmissionTypeOK
  <2>. QED  BY <1>1, <1>2, <2>1 DEF PassesAreCounted
<1>4. /\ Counted(a) \in [count : Nat, left : Nat] /\ Counted(a).left # 0
      /\ passed[a] <= Counted(a).count
      /\ Counted(a).count <= LoginLimit => passed[a] + 1 <= Counted(a).count
  BY <1>3, LimitsArePositive DEF Counted
<1>5. /\ attempts' = [attempts EXCEPT ![a] = Counted(a)]
      /\ UNCHANGED <<clock, limiterVars, captcha, compared>>
      /\ \/ UNCHANGED passed
         \/ passed' = [passed EXCEPT ![a] = @ + 1] /\ Counted(a).count <= LoginLimit
      /\ BucketsIInv' /\ request' \in [Client -> {Idle} \cup LoginForm \cup OtherForm]
  <2>1. CASE AllowLoginUnanswered(p)
    <3>1. /\ attempts' = [attempts EXCEPT ![a] = Counted(a)]
          /\ UNCHANGED <<clock, limiterVars, captcha, passed, compared, request>>
      BY <2>1 DEF AllowLoginUnanswered, Counts, requestVars
    <3>2. BucketsIInv' /\ request' \in [Client -> {Idle} \cup LoginForm \cup OtherForm]
      BY <1>1, <3>1, BucketsRest DEF AdmissionTypeOK
    <3>. QED  BY <3>1, <3>2
  <2>2. CASE AllowLogin(p)
    <3>1. Counted(a).count \in Nat /\ LoginLimit \in Nat
      BY <1>4, LimitsArePositive
    <3>2. /\ Counts(a) /\ UNCHANGED <<clock, limiterVars, captcha, compared>>
          /\ \/ Counted(a).count > LoginLimit /\ Ends(p) /\ UNCHANGED passed
             \/ /\ ~(Counted(a).count > LoginLimit) /\ Reads(p, To(p, "captcha"))
                /\ passed' = [passed EXCEPT ![a] = @ + 1]
      BY <2>2 DEF AllowLogin
    <3>3. PICK form \in {Idle} \cup LoginForm :
            form.step \in {"none", "captcha"} /\ request' = [request EXCEPT ![p] = form]
      <4>1. request' = [request EXCEPT ![p] = Idle] \/ request' = [request EXCEPT ![p] = To(p, "captcha")]
        BY ONLY <3>2 DEF Ends, Reads
      <4>. QED  BY ONLY <1>2, <4>1, IdleIs
    <3>4. BucketsIInv' /\ request' \in [Client -> {Idle} \cup LoginForm \cup OtherForm]
      BY <1>2, <3>2, <3>3, BeyondAllow
    <3>5. UNCHANGED passed \/ (passed' = [passed EXCEPT ![a] = @ + 1] /\ Counted(a).count <= LoginLimit)
      BY ONLY <3>1, <3>2
    <3>. QED  BY ONLY <3>2, <3>4, <3>5 DEF Counts
  <2>. QED  BY <2>1, <2>2
<1>6. /\ attempts \in [Address -> [count : Nat, left : Nat]] /\ passed \in [Address -> Nat]
  BY <1>1 DEF AdmissionTypeOK
<1>7. /\ passed'[a] \in {passed[a], passed[a] + 1} /\ passed'[a] <= Counted(a).count
      /\ passed'[a] <= LoginLimit /\ attempts'[a] = Counted(a)
      /\ \A b \in Address \ {a} : passed'[b] = passed[b] /\ attempts'[b] = attempts[b]
      /\ attempts' \in [Address -> [count : Nat, left : Nat]] /\ passed' \in [Address -> Nat]
  BY ONLY <1>2, <1>3, <1>4, <1>5, <1>6, LimitsArePositive
<1>8. AdmissionTypeOK'
  <2>1. UNCHANGED <<clock, buckets, cleaned, fair, captcha, compared>>
    BY <1>5 DEF limiterVars
  <2>2. /\ clock' \in Nat /\ cleaned' \in Int /\ DOMAIN buckets' \subseteq Address
        /\ buckets' \in [DOMAIN buckets' -> [used : Nat, tokens : Int]] /\ fair' \in [Address -> 0..Burst]
        /\ captcha' \in [Captcha -> {"unborn", "live", "gone"}] /\ compared' \in [Captcha -> Nat]
    BY <1>1, <2>1 DEF AdmissionTypeOK
  <2>. QED  BY ONLY <1>5, <1>7, <2>2 DEF AdmissionTypeOK
<1>9. PassesAreCounted'
  BY <1>1, <1>4, <1>7 DEF PassesAreCounted
<1>10. ComparedIsGone'
  BY <1>1, <1>5 DEF ComparedIsGone
<1>. QED  BY <1>5, <1>8, <1>9, <1>10 DEF AdmissionIInv

(* A captcha that is answered is gone.                                        *)
LEMMA VerifyStep ==
  ASSUME AdmissionIInv, NEW p \in Client, Verify(p) \/ VerifyUnanswered(p),
         NEW c, c = request[p].captcha
  PROVE  AdmissionIInv'
<1>1. AdmissionTypeOK /\ BucketsIInv /\ PassesAreCounted /\ ComparedIsGone
  BY DEF AdmissionIInv
<1>2. ~InAllow(p) /\ c \in Captcha
  BY <1>1, LoginIs DEF Verify, VerifyUnanswered, At, InAllow
<1>3. /\ UNCHANGED <<clock, limiterVars, attempts, passed>>
      /\ \/ UNCHANGED <<captcha, compared>>
         \/ captcha[c] = "live" /\ captcha' = [captcha EXCEPT ![c] = "gone"]
            /\ compared' \in {compared, [compared EXCEPT ![c] = @ + 1]}
      /\ request' = request \/ request' = [request EXCEPT ![p] = Idle]
  BY DEF Verify, VerifyUnanswered, Consumes, Ends, requestVars
<1>4. BucketsIInv' /\ request' \in [Client -> {Idle} \cup LoginForm \cup OtherForm]
  <2>1. CASE request' = request
    BY <1>1, <1>3, <2>1, BucketsRest DEF AdmissionTypeOK
  <2>2. CASE request' = [request EXCEPT ![p] = Idle]
    BY <1>2, <1>3, <2>2, IdleIs, BeyondAllow
  <2>. QED  BY <1>3, <2>1, <2>2
<1>5. AdmissionTypeOK'
  <2>1. UNCHANGED <<clock, buckets, cleaned, fair, attempts, passed>>
    BY <1>3 DEF limiterVars
  <2>2. /\ clock' \in Nat /\ cleaned' \in Int /\ DOMAIN buckets' \subseteq Address
        /\ buckets' \in [DOMAIN buckets' -> [used : Nat, tokens : Int]] /\ fair' \in [Address -> 0..Burst]
        /\ attempts' \in [Address -> [count : Nat, left : Nat]] /\ passed' \in [Address -> Nat]
    BY <1>1, <2>1 DEF AdmissionTypeOK
  <2>3. captcha \in [Captcha -> {"unborn", "live", "gone"}] /\ compared \in [Captcha -> Nat]
    BY <1>1 DEF AdmissionTypeOK
  <2>4. captcha' \in [Captcha -> {"unborn", "live", "gone"}] /\ compared' \in [Captcha -> Nat]
    BY ONLY <1>2, <1>3, <2>3
  <2>. QED  BY ONLY <1>4, <2>2, <2>4 DEF AdmissionTypeOK
<1>6. PassesAreCounted'
  BY <1>1, <1>3 DEF PassesAreCounted
<1>7. ComparedIsGone'
  BY <1>1, <1>2, <1>3 DEF AdmissionTypeOK, ComparedIsGone
<1>. QED  BY <1>4, <1>5, <1>6, <1>7 DEF AdmissionIInv

(* A captcha is born, or expires.                                             *)
LEMMA CaptchaStep ==
  ASSUME AdmissionIInv, NEW c \in Captcha, GenerateCaptcha(c) \/ CaptchaExpires(c)
  PROVE  AdmissionIInv'
<1>1. AdmissionTypeOK /\ BucketsIInv /\ PassesAreCounted /\ ComparedIsGone
  BY DEF AdmissionIInv
<1>2. /\ UNCHANGED <<clock, limiterVars, attempts, passed, compared, request>>
      /\ captcha[c] # "gone" /\ \E state \in {"live", "gone"} : captcha' = [captcha EXCEPT ![c] = state]
  BY DEF GenerateCaptcha, CaptchaExpires, requestVars
<1>3. AdmissionTypeOK'
  BY <1>1, <1>2 DEF AdmissionTypeOK, limiterVars
<1>4. BucketsIInv' /\ PassesAreCounted'
  BY <1>1, <1>2, BucketsRest DEF PassesAreCounted
<1>5. ComparedIsGone'
  BY <1>1, <1>2 DEF AdmissionTypeOK, ComparedIsGone
<1>. QED  BY <1>3, <1>4, <1>5 DEF AdmissionIInv

(* A login goes on in Sessions, or is called off.                             *)
LEMMA LoginFailsStep ==
  ASSUME AdmissionIInv, NEW p \in Client, LoginFails(p)
  PROVE  AdmissionIInv'
<1>1. AdmissionTypeOK /\ PassesAreCounted /\ ComparedIsGone
  BY DEF AdmissionIInv
<1>2. UNCHANGED admissionVars /\ ~InAllow(p) /\ request' = [request EXCEPT ![p] = Idle]
  BY DEF LoginFails, Ends
<1>3. BucketsIInv' /\ request' \in [Client -> {Idle} \cup LoginForm \cup OtherForm]
  BY <1>2, IdleIs, BeyondAllow DEF admissionVars, limiterVars
<1>. QED
  BY <1>1, <1>2, <1>3 DEF AdmissionIInv, AdmissionTypeOK, PassesAreCounted, ComparedIsGone, admissionVars

(* Every step keeps the invariant.                                            *)
LEMMA AdmissionStep ==
  ASSUME AdmissionIInv, AdmissionNext
  PROVE  AdmissionIInv'
<1>1. ASSUME NEW p \in Client, NEW a \in Address, LooksUp(p, Other(a)) PROVE AdmissionIInv'
  <2>1. Other(a) \in LoginForm \cup OtherForm /\ Other(a).step = "reserve"
    BY DEF Other, OtherForm
  <2>. QED  BY <1>1, <2>1, LooksUpStep
<1>2. ASSUME NEW p \in Client, NEW a \in Address, NEW c \in Captcha, NEW right \in BOOLEAN,
             LooksUp(p, Login(a, c, right))
      PROVE  AdmissionIInv'
  <2>1. Login(a, c, right) \in LoginForm \cup OtherForm /\ Login(a, c, right).step = "reserve"
    BY DEF Login, LoginForm
  <2>. QED  BY <1>2, <2>1, LooksUpStep
<1>. QED
  BY <1>1, <1>2, TickStep, CaptchaStep, ReserveStep, CancelStep, CountStep, VerifyStep, LoginFailsStep
  DEF AdmissionNext

(* No bucket, no count and no answer to begin with.                           *)
LEMMA AdmissionInitially ==
  ASSUME NEW bound, AdmissionInit, RequestsInit(bound)
  PROVE  AdmissionIInv
<1>1. AdmissionTypeOK
  BY BucketsFillUp DEF AdmissionInit, RequestsInit, AdmissionTypeOK, None
<1>2. PassesAreCounted /\ ComparedIsGone
  BY LimitsArePositive DEF AdmissionInit, PassesAreCounted, ComparedIsGone, None
<1>3. BucketsIInv
  <2>1. DOMAIN buckets = {} /\ \A a \in Address : fair[a] = Burst
    BY DEF AdmissionInit
  <2>2. \A p \in Client : request[p].step = "none"
    BY IdleIs DEF RequestsInit
  <2>. QED
    BY <2>1, <2>2
    DEF BucketsIInv, BucketsAreBounded, RefusalsAreBelow, AllowIsShort, LastIsReturned, InAllow
<1>. QED  BY <1>1, <1>2, <1>3 DEF AdmissionIInv

(* Whatever requests come, when, however they overlap, and in whatever order  *)
(* the buckets of others are dropped by them.                                 *)
THEOREM AdmissionInvariant == AdmissionSpec => []AdmissionIInv
<1>1. (\E bound : AdmissionInit /\ RequestsInit(bound)) => AdmissionIInv
  BY AdmissionInitially
<1>2. AdmissionIInv /\ [AdmissionNext]_<<admissionVars, requestVars>> => AdmissionIInv'
  <2>1. AdmissionIInv /\ UNCHANGED <<admissionVars, requestVars>> => AdmissionIInv'
    <3>1. SUFFICES ASSUME AdmissionIInv, UNCHANGED <<admissionVars, requestVars>>
                   PROVE  AdmissionIInv'
      OBVIOUS
    <3>2. BucketsIInv'
      BY <3>1, BucketsRest DEF AdmissionIInv, admissionVars, limiterVars, requestVars
    <3>. QED
      BY <3>1, <3>2
      DEF AdmissionIInv, AdmissionTypeOK, PassesAreCounted, ComparedIsGone, admissionVars, requestVars
  <2>. QED  BY <2>1, AdmissionStep
<1>. QED  BY <1>1, <1>2, PTL DEF AdmissionSpec

(* Nobody is let in oftener than a bucket of its own that is never dropped    *)
(* would let it, for any rate, burst and TTL in which a bucket fills up, and  *)
(* however many requests of a client overlap.                                 *)
THEOREM ClientsStayWithinRate == AdmissionSpec => []NeverTooOften
<1>. QED  BY AdmissionInvariant, NeverTooOftenThen, PTL

(* Nor less often, however requests of others drop buckets and whatever their *)
(* refusals do, unless its own requests overlapped one that was refused.      *)
THEOREM OverlapAloneKeepsOut == AdmissionSpec => []KeptOutOnlyByOverlap
<1>. QED  BY AdmissionInvariant, KeptOutThen, PTL

(* No lost reply and no race gives a client more logins in a window than the  *)
(* limit, or a captcha a second answer.                                       *)
THEOREM GuessesStayLimited == AdmissionSpec => []GuessesAreLimited
<1>1. AdmissionIInv => GuessesAreLimited
  <2>1. AdmissionIInv => \A a \in Address : passed[a] <= LoginLimit
    BY DEF AdmissionIInv, PassesAreCounted
  <2>2. AdmissionIInv => \A c \in Captcha : compared[c] <= 1
    BY DEF AdmissionIInv, ComparedIsGone
  <2>. QED  BY <2>1, <2>2 DEF GuessesAreLimited
<1>. QED  BY <1>1, AdmissionInvariant, PTL
===============================================================================
