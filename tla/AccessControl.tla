---------------------------- MODULE AccessControl ----------------------------
(* Menus and roles.  The menu tree is kept like the departments', but SaveMenu *)
(* reads in another order and a deletion takes the menu's grants with it.  A   *)
(* role's grants are written in transactions that lock what they refer to.     *)
EXTENDS Tables

MenuReaders == {"save menu", "delete menu"}

(* A new menu has only its parent to look up.                                 *)
CreateMenu(p, parent) ==
  /\ SomeoneIsIn
  /\ parent # 0 => parent \in DOMAIN menus
  /\ Begins(p, Prepared(menus, [Form("save menu", "prepare") EXCEPT !.parent = parent]))
  /\ UNCHANGED adminVars

(* SaveMenu asks about the new parent before it looks at the menu at all.     *)
UpdateMenu(p, id, parent) ==
  /\ SomeoneIsIn
  /\ parent # id
  /\ parent # 0 => ~IsDescendant(menus, parent, id)
  /\ Begins(p, [Form("save menu", "prepare") EXCEPT !.id = id, !.parent = parent])
  /\ UNCHANGED adminVars

PrepareMenu(p) ==
  /\ At(p, "save menu", "prepare")
  /\ request[p].parent # 0 => request[p].parent \in DOMAIN menus
  /\ Reads(p, [Prepared(menus, request[p]) EXCEPT !.step = "current"])
  /\ UNCHANGED adminVars

ReadMenu(p) ==
  /\ At(p, "save menu", "current") /\ request[p].id \in DOMAIN menus
  /\ Reads(p, [To(p, "store") EXCEPT !.old = menus[request[p].id].path])
  /\ UNCHANGED adminVars

InsertMenu(p, id) ==
  /\ At(p, "save menu", "store") /\ request[p].id = 0
  /\ Fresh("menu", id)
  /\ menus' = [row \in DOMAIN menus \cup {id} |->
                 IF row = id THEN [parent |-> request[p].parent, path |-> request[p].path]
                 ELSE menus[row]]
  /\ given' = given \cup {<<"menu", id>>}
  /\ Commits(p) /\ Relies(p) /\ Outdates(p, Doing(MenuReaders))
  /\ UNCHANGED <<departments, roles, menuGrants, departmentGrants, accounts, assignments, imported>>

MoveMenu(p) ==
  LET form == request[p]
  IN  /\ At(p, "save menu", "store") /\ form.id \in DOMAIN menus
      /\ MayLock(p, Rows("menu", Menu))
      /\ menus' = UpdateTree(menus, form.id, form.parent, form.path, form.old)
      /\ Commits(p) /\ Relies(p) /\ Outdates(p, Doing(MenuReaders))
      /\ UNCHANGED <<departments, roles, menuGrants, departmentGrants, accounts, assignments,
                     given, imported>>

DeleteMenu(p, id) ==
  /\ SomeoneIsIn
  /\ ~HasChildren(menus, id)
  /\ Begins(p, [Form("delete menu", "grants") EXCEPT !.id = id])
  /\ UNCHANGED adminVars

(* DELETE FROM sys_role_menu WHERE menu_id = ? locks the menu's range of the  *)
(* index on menu_id until the commit, so nobody can insert a grant of it.     *)
LockGrants(p) ==
  /\ At(p, "delete menu", "grants")
  /\ Reads(p, To(p, "delete"))
  /\ exclusive' = [exclusive EXCEPT ![p] = Rows("grants of menu", {request[p].id})]
  /\ UNCHANGED <<tables, given, shared, imported>>

RemoveMenu(p) ==
  LET id == request[p].id
  IN  /\ At(p, "delete menu", "delete") /\ id \in DOMAIN menus
      /\ MayLock(p, Rows("menu", {id}))
      /\ menus' = [row \in DOMAIN menus \ {id} |-> menus[row]]
      /\ menuGrants' = {grant \in menuGrants : grant[2] # id}
      /\ Commits(p) /\ Relies(p) /\ Outdates(p, Doing(MenuReaders))
      /\ UNCHANGED <<departments, roles, departmentGrants, accounts, assignments, given, imported>>

-----------------------------------------------------------------------------
(* The grants of a role replaced by those to these targets.                   *)
Replaced(grants, owner, targets) ==
  {grant \in grants : grant[1] # owner} \cup ({owner} \X targets)

(* A grant of a menu can be deleted or inserted while no deletion of that     *)
(* menu holds its range.                                                      *)
GrantsAreFree(p, role, targets) ==
  MayShare(p, Rows("grants of menu",
                   targets \cup {grant[2] : grant \in {g \in menuGrants : g[1] = role}}))

(* validateRoleAssociations: menus and departments FOR SHARE, all there.      *)
AssociationsExist(p, ms, ds) ==
  /\ ms \subseteq DOMAIN menus /\ ds \subseteq DOMAIN departments
  /\ MayShare(p, Rows("menu", ms) \cup Rows("department", ds))

SaveRole(p, id, ms, ds) ==
  /\ SomeoneIsIn
  /\ id # 0 => id \in roles
  /\ Begins(p, [Form("save role", "associations") EXCEPT !.id = id,
                  !.menus = ms, !.departments = ds])
  /\ UNCHANGED adminVars

LockAssociations(p) ==
  LET form == request[p]
  IN  /\ At(p, "save role", "associations")
      /\ AssociationsExist(p, form.menus, form.departments)
      /\ shared' = [shared EXCEPT ![p] = Rows("menu", form.menus)
                                           \cup Rows("department", form.departments)]
      /\ Reads(p, To(p, "write"))
      /\ UNCHANGED <<tables, given, exclusive, imported>>

StoreRole(p, role) ==
  LET form == request[p]
  IN  /\ At(p, "save role", "write")
      /\ IF form.id = 0 THEN Fresh("role", role)
         ELSE role = form.id /\ role \in roles /\ MayLock(p, Rows("role", {role}))
      /\ GrantsAreFree(p, role, form.menus)
      /\ roles' = roles \cup {role}
      /\ given' = given \cup {<<"role", role>>}
      /\ menuGrants' = Replaced(menuGrants, role, form.menus)
      /\ departmentGrants' = Replaced(departmentGrants, role, form.departments)
      /\ IF form.id = 0 THEN Commits(p) /\ Forgets(p)
         ELSE ThenEndsRoleSessions(p, role)
      /\ UNCHANGED <<departments, menus, accounts, assignments, imported>>

(* replaceRoleIDs: the role and its new targets FOR SHARE, then the rows.     *)
SetGrants(p, op, id, ms, ds) ==
  /\ SomeoneIsIn
  /\ id \in roles /\ MayShare(p, Rows("role", {id}))
  /\ AssociationsExist(p, ms, ds)
  /\ Begins(p, [Form(op, "write") EXCEPT !.id = id,
                  !.menus = ms, !.departments = ds])
  /\ shared' = [shared EXCEPT ![p] = Rows("role", {id}) \cup Rows("menu", ms)
                                       \cup Rows("department", ds)]
  /\ UNCHANGED <<tables, given, exclusive, imported>>
SetRoleMenus(p, id, ms) == SetGrants(p, "set menus", id, ms, {})
SetRoleDepartments(p, id, ds) == SetGrants(p, "set departments", id, {}, ds)

StoreRoleMenus(p) ==
  LET form == request[p]
  IN  /\ At(p, "set menus", "write")
      /\ GrantsAreFree(p, form.id, form.menus)
      /\ menuGrants' = Replaced(menuGrants, form.id, form.menus)
      /\ ThenEndsRoleSessions(p, form.id)
      /\ UNCHANGED <<departments, menus, roles, departmentGrants, accounts, assignments,
                     given, imported>>

StoreRoleDepartments(p) ==
  LET form == request[p]
  IN  /\ At(p, "set departments", "write")
      /\ departmentGrants' = Replaced(departmentGrants, form.id, form.departments)
      /\ ThenEndsRoleSessions(p, form.id)
      /\ UNCHANGED <<departments, menus, roles, menuGrants, accounts, assignments,
                     given, imported>>

(* The roles FOR UPDATE, all there and none of them ROOT.                     *)
DeleteRoles(p, ids) ==
  /\ SomeoneIsIn
  /\ ids # {} /\ ids \subseteq roles /\ Root \notin ids
  /\ MayLock(p, Rows("role", ids))
  /\ Begins(p, [Form("delete roles", "write") EXCEPT !.roles = ids])
  /\ exclusive' = [exclusive EXCEPT ![p] = Rows("role", ids)]
  /\ UNCHANGED <<tables, given, shared, imported>>

RemoveRoles(p) ==
  LET ids == request[p].roles
  IN  /\ At(p, "delete roles", "write")
      /\ \A assignment \in assignments : assignment[2] \notin ids
      /\ \A id \in ids : GrantsAreFree(p, id, {})
      /\ roles' = roles \ ids
      /\ menuGrants' = {grant \in menuGrants : grant[1] \notin ids}
      /\ departmentGrants' = {grant \in departmentGrants : grant[1] \notin ids}
      /\ Commits(p) /\ Forgets(p)
      /\ UNCHANGED <<departments, menus, accounts, assignments, given, imported>>

AccessControlBegins(p) ==
  \/ \E parent \in Menu \cup {0} : CreateMenu(p, parent) \/ \E id \in Menu : UpdateMenu(p, id, parent)
  \/ \E id \in Menu : DeleteMenu(p, id)
  \/ \E ms \in Lists(Menu), ds \in Lists(Department), id \in Role \cup {0} : SaveRole(p, id, ms, ds)
  \/ \E id \in Role, ms \in Lists(Menu) : SetRoleMenus(p, id, ms)
  \/ \E id \in Role, ds \in Lists(Department) : SetRoleDepartments(p, id, ds)
  \/ \E ids \in Lists(Role) : DeleteRoles(p, ids)

AccessControlStep(p) ==
  \/ \E id \in Menu : InsertMenu(p, id)
  \/ PrepareMenu(p) \/ ReadMenu(p) \/ MoveMenu(p) \/ LockGrants(p) \/ RemoveMenu(p)
  \/ LockAssociations(p) \/ \E role \in Role : StoreRole(p, role)
  \/ StoreRoleMenus(p) \/ StoreRoleDepartments(p) \/ RemoveRoles(p)
=============================================================================
