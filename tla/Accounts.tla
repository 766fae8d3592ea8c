------------------------------- MODULE Accounts -------------------------------
(* What the identity service does to accounts and the roles they have.  Save  *)
(* locks what it refers to; an import resolves names to ids first and inserts *)
(* the rows later, under no lock at all.                                      *)
EXTENDS Tables

HasRoles(account, ids) == {account} \X ids
WithoutRoles(ids) == {assignment \in assignments : assignment[1] \notin ids}

(* A new account, or a current one, which is read first.                      *)
SaveAccount(p, id, department, ids) ==
  /\ SomeoneIsIn
  /\ ids # {} /\ (id # 0 => id \in DOMAIN accounts)
  /\ Begins(p, [Form("save account", "associations") EXCEPT !.id = id,
                  !.parent = department, !.roles = ids])
  /\ UNCHANGED adminVars

(* Fault: department and roles are looked up without FOR SHARE.               *)
LockReferencesUnlocked(p) ==
  /\ At(p, "save account", "associations")
  /\ request[p].parent # 0 => request[p].parent \in DOMAIN departments
  /\ request[p].roles \subseteq roles
  /\ Reads(p, To(p, "write"))
  /\ UNCHANGED adminVars

(* validateAccountAssociations: department and roles FOR SHARE, all there.    *)
LockReferences(p) ==
  LET form == request[p]
      rows == Rows("department", {form.parent} \ {0}) \cup Rows("role", form.roles)
  IN  /\ At(p, "save account", "associations")
      /\ form.parent # 0 => form.parent \in DOMAIN departments
      /\ form.roles \subseteq roles
      /\ MayShare(p, rows)
      /\ shared' = [shared EXCEPT ![p] = rows]
      /\ Reads(p, To(p, "write"))
      /\ UNCHANGED <<tables, given, exclusive, imported>>

Stored(account, department) ==
  [a \in DOMAIN accounts \cup {account} |-> IF a = account THEN department ELSE accounts[a]]

StoreAccount(p, account) ==
  LET form == request[p]
  IN  /\ At(p, "save account", "write")
      /\ IF form.id = 0 THEN Fresh("account", account)
         ELSE account = form.id /\ account \in DOMAIN accounts
      /\ accounts' = Stored(account, form.parent)
      /\ assignments' = WithoutRoles({account}) \cup HasRoles(account, form.roles)
      /\ given' = given \cup {<<"account", account>>}
      /\ imported' = imported \ {account}
      /\ IF form.id = 0 THEN Commits(p) ELSE ThenEndsSessions(p, account)
      /\ Outdates(p, Doing({"delete department"})) /\ UNCHANGED raced
      /\ UNCHANGED <<departments, menus, roles, menuGrants, departmentGrants>>

(* Nobody deletes the account they act for; IsRoot is asked of every id       *)
(* before the transaction.                                                    *)
DeleteAccounts(p, id) ==
  /\ DOMAIN accounts \ {id} # {}
  /\ <<id, Root>> \notin assignments
  /\ Begins(p, [Form("delete accounts", "write") EXCEPT !.id = id])
  /\ UNCHANGED adminVars

RemoveAccounts(p) ==
  LET id == request[p].id
  IN  /\ At(p, "delete accounts", "write") /\ id \in DOMAIN accounts
      /\ accounts' = [a \in DOMAIN accounts \ {id} |-> accounts[a]]
      /\ assignments' = WithoutRoles({id})
      /\ ThenEndsSessions(p, id)
      /\ Outdates(p, Doing({"delete department"})) /\ UNCHANGED raced
      /\ UNCHANGED <<departments, menus, roles, menuGrants, departmentGrants, given, imported>>

(* ImportReferences reads the roles, then the departments; a file's row that  *)
(* names no department found there is left out.                               *)
Import(p, ids) ==
  /\ SomeoneIsIn
  /\ ids # {} /\ ids \subseteq roles
  /\ Begins(p, [Form("import", "departments") EXCEPT !.roles = ids])
  /\ UNCHANGED adminVars

ImportDepartments(p, department) ==
  /\ At(p, "import", "departments")
  /\ department # 0 => department \in DOMAIN departments
  /\ Reads(p, [To(p, "write") EXCEPT !.parent = department])
  /\ UNCHANGED adminVars

StoreImported(p, account) ==
  LET form == request[p]
  IN  /\ At(p, "import", "write")
      /\ Fresh("account", account)
      /\ accounts' = Stored(account, form.parent)
      /\ assignments' = assignments \cup HasRoles(account, form.roles)
      /\ given' = given \cup {<<"account", account>>}
      /\ imported' = imported \cup {account}
      /\ Commits(p) /\ Relies(p) /\ Outdates(p, Doing({"delete department"}))
      /\ UNCHANGED <<departments, menus, roles, menuGrants, departmentGrants>>

(* A starting API process finds no account and makes the first one.  Several  *)
(* may do so at once; they use the same username, which its index lets only   *)
(* one of them insert.  It belongs to department 1, the first row of the       *)
(* migration; nobody asks whether that row is still there.                    *)
Bootstrap(p) ==
  /\ ~SomeoneIsIn
  /\ Begins(p, [Form("bootstrap", "write") EXCEPT !.parent = 1])
  /\ UNCHANGED adminVars

StoreFirst(p, account) ==
  /\ At(p, "bootstrap", "write")
  /\ DOMAIN accounts = {} /\ Root \in roles
  /\ Fresh("account", account)
  /\ accounts' = Stored(account, request[p].parent)
  /\ assignments' = assignments \cup HasRoles(account, {Root})
  /\ given' = given \cup {<<"account", account>>}
  /\ raced' = (raced \/ request[p].parent \notin DOMAIN departments)
  /\ Commits(p) /\ Outdates(p, Doing({"delete department"}))
  /\ UNCHANGED <<departments, menus, roles, menuGrants, departmentGrants, imported>>

AccountsBegins(p) ==
  \/ \E id \in Account \cup {0}, department \in Department \cup {0}, ids \in Lists(Role) :
       SaveAccount(p, id, department, ids)
  \/ \E id \in Account : DeleteAccounts(p, id)
  \/ \E ids \in Lists(Role) : Import(p, ids)
  \/ Bootstrap(p)

AccountsStep(p) ==
  \/ LockReferences(p) \/ RemoveAccounts(p)
  \/ \E a \in Account : StoreAccount(p, a) \/ StoreImported(p, a) \/ StoreFirst(p, a)
  \/ \E department \in Department \cup {0} : ImportDepartments(p, department)
=============================================================================
