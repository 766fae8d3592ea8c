------------------------------ MODULE TaskDelivery ------------------------------
(***************************************************************************)
(* What a business transaction may rely on, without tables, streams or     *)
(* processes: its task begins to execute only after the transaction has    *)
(* committed, and at most once.                                            *)
(***************************************************************************)
CONSTANTS
  Task  \* the tasks that transactions may commit

VARIABLES
  committed,  \* tasks of which a dispatch has been committed
  begun       \* how often workers have begun to execute each

vars == <<committed, begun>>

Init == committed = {} /\ begun = [t \in Task |-> 0]

\* The transaction that creates the task commits.
Commit(t) ==
  /\ committed' = committed \cup {t}
  /\ UNCHANGED begun

\* A worker begins to execute it.
Execute(t) ==
  /\ t \in committed /\ begun[t] = 0
  /\ begun' = [begun EXCEPT ![t] = 1]
  /\ UNCHANGED committed

Next == \E t \in Task : Commit(t) \/ Execute(t)

Spec == Init /\ [][Next]_vars
===============================================================================
