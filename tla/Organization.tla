----------------------------- MODULE Organization -----------------------------
(* The department service and its table.  Update and Delete ask the database  *)
(* one question after the other and act on the answers without a lock: what   *)
(* they have read may be old when they write.                                 *)
EXTENDS Tables

TreeReaders == {"save department", "delete department", "import"}

CreateDepartment(p, parent) ==
  /\ SomeoneIsIn
  /\ parent # 0 => parent \in DOMAIN departments
  /\ Begins(p, Prepared(departments, [Form("save department", "prepare") EXCEPT !.parent = parent]))
  /\ UNCHANGED adminVars

(* Update reads the row's path first; only a new parent has to be checked.    *)
UpdateDepartment(p, id, parent) ==
  /\ SomeoneIsIn
  /\ parent # id /\ id \in DOMAIN departments
  /\ Begins(p, [Form("save department", IF parent # 0 THEN "descendant" ELSE "prepare")
                  EXCEPT !.id = id, !.parent = parent, !.old = departments[id].path])
  /\ UNCHANGED adminVars

CheckDescendant(p) ==
  /\ At(p, "save department", "descendant")
  /\ ~IsDescendant(departments, request[p].parent, request[p].id)
  /\ Reads(p, To(p, "prepare"))
  /\ UNCHANGED adminVars

PrepareDepartment(p) ==
  /\ At(p, "save department", "prepare")
  /\ request[p].parent # 0 => request[p].parent \in DOMAIN departments
  /\ Reads(p, Prepared(departments, request[p]))
  /\ UNCHANGED adminVars

InsertDepartment(p, id) ==
  /\ At(p, "save department", "store") /\ request[p].id = 0
  /\ Fresh("department", id)
  /\ departments' = [row \in DOMAIN departments \cup {id} |->
                       IF row = id THEN [parent |-> request[p].parent, path |-> request[p].path]
                       ELSE departments[row]]
  /\ given' = given \cup {<<"department", id>>}
  /\ Commits(p) /\ Relies(p) /\ Outdates(p, Doing(TreeReaders))
  /\ UNCHANGED <<menus, roles, menuGrants, departmentGrants, accounts, assignments, imported>>

(* No index serves the second UPDATE, so it locks every row of the table.     *)
MoveDepartment(p) ==
  LET form == request[p]
  IN  /\ At(p, "save department", "store") /\ form.id \in DOMAIN departments
      /\ MayLock(p, Rows("department", Department))
      /\ departments' = UpdateTree(departments, form.id, form.parent, form.path, form.old)
      /\ Commits(p) /\ Relies(p) /\ Outdates(p, Doing(TreeReaders))
      /\ UNCHANGED <<menus, roles, menuGrants, departmentGrants, accounts, assignments,
                     given, imported>>

DeleteDepartment(p, id) ==
  /\ SomeoneIsIn
  /\ ~HasChildren(departments, id)
  /\ Begins(p, [Form("delete department", "accounts") EXCEPT !.id = id])
  /\ UNCHANGED adminVars

CheckAccounts(p) ==
  /\ At(p, "delete department", "accounts")
  /\ \A a \in DOMAIN accounts : accounts[a] # request[p].id
  /\ Reads(p, To(p, "delete"))
  /\ UNCHANGED adminVars

RemoveDepartment(p) ==
  LET id == request[p].id
  IN  /\ At(p, "delete department", "delete") /\ id \in DOMAIN departments
      /\ MayLock(p, Rows("department", {id}))
      /\ departments' = [row \in DOMAIN departments \ {id} |-> departments[row]]
      /\ Commits(p) /\ Relies(p) /\ Outdates(p, Doing(TreeReaders))
      /\ UNCHANGED <<menus, roles, menuGrants, departmentGrants, accounts, assignments,
                     given, imported>>

OrganizationBegins(p) ==
  \/ \E parent \in Department \cup {0} :
       CreateDepartment(p, parent) \/ \E id \in Department : UpdateDepartment(p, id, parent)
  \/ \E id \in Department : DeleteDepartment(p, id)

OrganizationStep(p) ==
  \/ \E id \in Department : InsertDepartment(p, id)
  \/ CheckDescendant(p) \/ PrepareDepartment(p) \/ MoveDepartment(p)
  \/ CheckAccounts(p) \/ RemoveDepartment(p)

OrganizationNext == \E p \in Client : OrganizationBegins(p) \/ OrganizationStep(p)

(* Moves are refused, and ScopeDepartmentTree grants sight of accounts, by    *)
(* tree_path alone (service.go:90, accesscontrol/repository.go:121): a        *)
(* department is taken for a descendant only if its parents lead to the one   *)
(* it is said to be under, as long as no two changes of the tree have raced.  *)
DescendantsAreBelow ==
  raced \/ \A id \in DOMAIN departments, row \in DOMAIN departments :
             IsDescendant(departments, row, id) => row \in Below(departments, id)
=============================================================================
