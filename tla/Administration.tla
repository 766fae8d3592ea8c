---------------------------- MODULE Administration ----------------------------
(* The three services over their shared tables.  Each protects what the       *)
(* others refer to in its own way - row locks, checks before the write, or    *)
(* nothing - and what holds between the tables is the result of all of them.  *)
EXTENDS Organization, AccessControl, Accounts

(* The rows a migration leaves, to which a run may add some of its own.       *)
AdminInit(tree, forest, some, grants, views, people, held) ==
  /\ departments = tree /\ menus = forest /\ roles = some
  /\ menuGrants = grants /\ departmentGrants = views
  /\ accounts = people /\ assignments = held
  /\ given = Rows("department", DOMAIN tree) \cup Rows("menu", DOMAIN forest)
               \cup Rows("role", some) \cup Rows("account", DOMAIN people)
  /\ shared = [p \in Client |-> {}] /\ exclusive = [p \in Client |-> {}]
  /\ imported = {}

RequestStep(p) ==
  \/ OrganizationStep(p) \/ AccessControlStep(p) \/ AccountsStep(p)
  \/ FindHolders(p) \/ SessionsEnded(p) \/ AdminFails(p)
  \/ \E a \in Account : EndSession(p, a)

AdminNext ==
  \E p \in Client :
    \/ ~Active(p) /\ (OrganizationBegins(p) \/ AccessControlBegins(p) \/ AccountsBegins(p))
    \/ Active(p) /\ RequestStep(p)

(* An account holds only live roles, and a deleted account none: Save's       *)
(* shared locks keep a role from DeleteRoles' exclusive one until the         *)
(* assignment is there for its COUNT to see, or the other way round.  Only an *)
(* import, which locks nothing, may leave an assignment of a deleted role.    *)
AssignmentsAreLive ==
  \A assignment \in assignments :
    /\ assignment[1] \in DOMAIN accounts
    /\ assignment[2] \in roles \/ assignment[1] \in imported

(* A grant is one of a live role; a menu it names exists: whichever comes     *)
(* first, a deletion of the menu or of the role, or the grant, the other      *)
(* waits for it and then fails or takes it into account.                      *)
GrantsAreLive ==
  /\ \A grant \in menuGrants : grant[1] \in roles /\ grant[2] \in DOMAIN menus
  /\ \A grant \in departmentGrants : grant[1] \in roles

(* What refers to a role, a menu or an account refers to a live one.          *)
ReferencesAreLive == AssignmentsAreLive /\ GrantsAreLive

(* Each tree_path says where its row is, and every account's department is a  *)
(* live one, as long as no request has changed a tree, or removed or named a  *)
(* department, on the strength of a read that another commit had made old, or *)
(* bootstrapped into a department 1 that had been removed.                    *)
DepartmentsAreLive ==
  \A a \in DOMAIN accounts : accounts[a] # 0 => accounts[a] \in DOMAIN departments
TreesAreSound ==
  raced \/ (IsExact(departments) /\ IsExact(menus) /\ DepartmentsAreLive)

(* A request that is about to write holds the locks that keep what it has      *)
(* looked up in place until it has written.                                   *)
HoldsItsLocks(p) ==
  LET form == request[p]
  IN  /\ At(p, "save account", "write") =>
           form.roles \subseteq roles /\ Rows("role", form.roles) \subseteq shared[p]
      /\ At(p, "save role", "write") \/ At(p, "set menus", "write") =>
           form.menus \subseteq DOMAIN menus /\ Rows("menu", form.menus) \subseteq shared[p]
      /\ At(p, "set menus", "write") \/ At(p, "set departments", "write") =>
           form.id \in roles /\ <<"role", form.id>> \in shared[p]
      /\ At(p, "delete roles", "write") => Rows("role", form.roles) \subseteq exclusive[p]

(* Why the references are live: what one transaction has locked exclusively,  *)
(* no other one shares.  The locks of index ranges are never asked to be      *)
(* shared.                                                                    *)
LocksExclude ==
  /\ \A p, q \in Client : p # q => exclusive[p] \cap shared[q] = {}
  /\ \A p \in Client : \A row \in shared[p] : row[1] # "grants of menu"

IsForm(form) == form = Idle \/ DOMAIN form = DOMAIN Form("none", "none")
AdminIInv ==
  /\ IsPerClient(request) /\ IsPerClient(shared) /\ IsPerClient(exclusive)
  /\ \A p \in Client : IsForm(request[p]) /\ HoldsItsLocks(p)
  /\ LocksExclude
  /\ \A a \in DOMAIN accounts : <<"account", a>> \in given
  /\ ReferencesAreLive

-----------------------------------------------------------------------------
(* What Update and SaveMenu have established by the time they store a row.    *)
MayGoThere(table, form) ==
  form.id # 0 => (form.parent # form.id /\ ~IsDescendant(table, form.parent, form.id))
IsPrepared(table, form) ==
  /\ form.parent # 0 => form.parent \in DOMAIN table
  /\ form.path = PathUnder(table, form.parent)
HasOldPath(table, form) ==
  form.id # 0 => (form.id \in DOMAIN table /\ form.old = table[form.id].path)

(* What a request has read so far is as it was read.                          *)
TreeReadsHold(p) ==
  LET form == request[p]
  IN  /\ form.op = "save department" =>
           /\ form.id # 0 => form.parent # form.id
           /\ HasOldPath(departments, form)
           /\ form.step # "descendant" => MayGoThere(departments, form)
           /\ form.step = "store" => IsPrepared(departments, form)
      /\ form.op = "delete department" =>
           /\ ~HasChildren(departments, form.id)
           /\ form.step = "delete" => \A a \in DOMAIN accounts : accounts[a] # form.id
      /\ At(p, "import", "write") /\ form.parent # 0 => form.parent \in DOMAIN departments
      /\ form.op = "save menu" =>
           /\ MayGoThere(menus, form)
           /\ form.step # "prepare" => IsPrepared(menus, form)
           /\ form.step = "store" => HasOldPath(menus, form)
      /\ form.op = "delete menu" => ~HasChildren(menus, form.id)

(* The department an account is about to be saved in is there, and locked.    *)
HoldsDepartment(p) ==
  LET parent == request[p].parent
  IN  At(p, "save account", "write") /\ parent # 0 =>
        (parent \in DOMAIN departments /\ <<"department", parent>> \in shared[p])

(* The tables are as they should be, and no row of them has an id that is yet *)
(* to be given.                                                               *)
TreesNow ==
  /\ IsTable(departments) /\ IsTable(menus)
  /\ IsExact(departments) /\ IsExact(menus) /\ DepartmentsAreLive
  /\ \A id \in DOMAIN departments : <<"department", id>> \in given
  /\ \A id \in DOMAIN menus : <<"menu", id>> \in given

(* What a request has read is still so, unless another commit has told it so. *)
KnowsTrees(p) ==
  /\ Active(p) => request[p].parent \in Nat
  /\ p \notin stale => TreeReadsHold(p)
  /\ HoldsDepartment(p)

TreesKnown == TreesNow /\ \A p \in Client : KnowsTrees(p)
TreesIInv == raced \/ TreesKnown

(* Trees and accounts as a migration leaves them, and ids that do not mislead *)
(* the text replacements of a move.                                           *)
TreesStart ==
  /\ IsTable(departments) /\ IsTable(menus)
  /\ IsExact(departments) /\ IsExact(menus) /\ DepartmentsAreLive
DigitsAreClear == NoDigitsMislead(departments) /\ NoDigitsMislead(menus)

(* The administration from any tables whose references are live.              *)
AdminStart ==
  \E tree, forest, some, grants, views, people, held, bound :
    /\ AdminInit(tree, forest, some, grants, views, people, held) /\ RequestsInit(bound)
    /\ held \subseteq (DOMAIN people) \X some
    /\ grants \subseteq some \X (DOMAIN forest) /\ views \subseteq some \X Department
    /\ DOMAIN people \subseteq Account
AdminSpec == AdminStart /\ [][AdminNext]_<<adminVars, requestVars>>
=============================================================================
