------------------------------ MODULE Hierarchy ------------------------------
(* The two trees of the administration API, sys_dept and sys_menu.  A row     *)
(* names its parent and repeats, in tree_path, the ids of all its ancestors   *)
(* from the root, "0,1,10"; every question about the tree is asked of that    *)
(* text (LIKE '%,id,%') and a move rewrites it with MySQL's REPLACE.  Both    *)
(* tables do this in the same way, so it is defined once.                     *)
(*                                                                            *)
(* A table is a function from the ids of the live rows to [parent, path]; a   *)
(* path is the sequence of its numbers, which starts with the 0 no row has.   *)
EXTENDS Naturals, Sequences, FiniteSets

(* An id is in the path: CONCAT(',', tree_path, ',') LIKE '%,id,%'.           *)
IsUnder(path, id) == \E i \in 1..Len(path) : path[i] = id

(* IsDescendant(candidate, id): the candidate is a live row below id.         *)
IsDescendant(table, candidate, id) ==
  candidate \in DOMAIN table /\ IsUnder(table[candidate].path, id)

HasChildren(table, id) == \E child \in DOMAIN table : table[child].parent = id

(* prepare: the path of a row under this parent.                              *)
PathUnder(table, parent) ==
  IF parent = 0 THEN <<0>> ELSE Append(table[parent].path, parent)

(* The decimal numeral of a begins with that of b.                            *)
BeginsWith(a, b) == a = b \/ \E digits \in 1..6 : a \div 10^digits = b

Inner(path) == SubSeq(path, 2, Len(path) - 1)

(* The text of old, a path of at least two numbers, occurs in that of path    *)
(* where its number at i ends: every path starts with 0, so an occurrence may *)
(* start with the last digit of a number that ends in 0, and it may end       *)
(* inside a number that only begins with the last one of old.                 *)
Occurs(path, old, i) ==
  LET last == i + Len(old) - 1
  IN  /\ last <= Len(path)
      /\ path[i] % 10 = 0
      /\ Inner(SubSeq(path, i, last)) = Inner(old)
      /\ BeginsWith(path[last], old[Len(old)])

(* REPLACE(tree_path, old, new), a replacement of text.  The first number of  *)
(* an occurrence keeps its digits, the last one its remaining ones (old and   *)
(* new end with the same number), and what lies between becomes what lies     *)
(* between in new.  text[i] is what follows the number at i in the result, if *)
(* no occurrence has reached that number's last digit.                        *)
Replace(path, old, new) ==
  LET text[i \in 1..Len(path)] ==
        LET last == i + Len(old) - 1
            After(j) == IF j = Len(path) THEN <<>> ELSE <<path[j + 1]>> \o text[j + 1]
        IN  IF ~Occurs(path, old, i) THEN After(i)
            ELSE Append(Inner(new), path[last])
                   \o IF path[last] = old[Len(old)] THEN After(last) ELSE text[last]
  IN  <<path[1]>> \o text[1]

(* Fault: the rows below keep the path of the place the row has left.         *)
UpdateTreeOfRow(table, id, parent, newPath, oldPath) ==
  [table EXCEPT ![id] = [parent |-> parent, path |-> newPath]]

(* UpdateTree and UpdateMenuTree: the row itself gets its new parent and      *)
(* path, and then every row whose path holds the id, has its prefix replaced. *)
UpdateTree(table, id, parent, newPath, oldPath) ==
  LET moved == [table EXCEPT ![id] = [parent |-> parent, path |-> newPath]]
  IN  [row \in DOMAIN moved |->
         IF IsUnder(moved[row].path, id)
           THEN [moved[row] EXCEPT !.path = Replace(@, Append(oldPath, id), Append(newPath, id))]
           ELSE moved[row]]

(* What the table of a tree holds, whatever it means.                         *)
IsTable(table) ==
  /\ IsFiniteSet(DOMAIN table)
  /\ table = [row \in DOMAIN table |-> [parent |-> table[row].parent, path |-> table[row].path]]
  /\ \A row \in DOMAIN table :
       row \in Nat \ {0} /\ table[row].parent \in Nat /\ table[row].path \in Seq(Nat)

(* What tree_path is meant to hold: every row's parent is live and its path   *)
(* is its parent's path and its parent.  Then there are no cycles, and being  *)
(* under a row and being below it in the tree are the same.                   *)
IsExact(table) ==
  \A id \in DOMAIN table :
    LET parent == table[id].parent
    IN  /\ parent # 0 => parent \in DOMAIN table
        /\ table[id].path = PathUnder(table, parent)

(* The digits of the ids do not mislead REPLACE: no row below a number that   *)
(* ends in 0 begins with the number of the top row above it, as 11 does with  *)
(* 1 when it is below 10 and 10 is below 1.                                   *)
NoDigitsMislead(table) ==
  \A id \in DOMAIN table :
    LET parent == table[id].parent
        top == table[id].path[2]
    IN  parent # 0 /\ parent % 10 = 0 /\ parent # top => ~BeginsWith(id, top)

(* The rows below this one by their parents, within as many steps as rows.    *)
Below(table, id) ==
  LET within[n \in Nat] ==
        IF n = 0 THEN {id}
        ELSE within[n - 1] \cup {row \in DOMAIN table : table[row].parent \in within[n - 1]}
  IN  within[Cardinality(DOMAIN table)] \ {id}
=============================================================================
