---------------------------- MODULE DurableDispatch ----------------------------
(***************************************************************************)
(* What the Outbox promises a business transaction, without rows, leases   *)
(* or relays: a committed dispatch stays outstanding until it has been     *)
(* signalled at least once, or is given up explicitly; it may be signalled *)
(* again at any time, and only a confirmed dispatch is ever forgotten.     *)
(***************************************************************************)
CONSTANTS
  Dispatch  \* the dispatches a business transaction may commit

VARIABLES
  stage,     \* how far each dispatch has come
  signalled  \* dispatches put on the stream at least once

vars == <<stage, signalled>>

Stage == {"none", "outstanding", "confirmed", "abandoned", "forgotten"}

\* Types of the list.
TypeOK ==
  /\ stage \in [Dispatch -> Stage]
  /\ signalled \in SUBSET Dispatch

Init ==
  /\ stage = [d \in Dispatch |-> "none"]
  /\ signalled = {}

Move(rows, from, to) ==
  /\ \A d \in rows : stage[d] = from
  /\ stage' = [d \in Dispatch |-> IF d \in rows THEN to ELSE stage[d]]
  /\ UNCHANGED signalled

\* The business transaction commits.
Commit(d) == Move({d}, "none", "outstanding")

\* One more entry for a dispatch that has been committed.
Signal(d) ==
  /\ stage[d] # "none"
  /\ signalled' = signalled \cup {d}
  /\ UNCHANGED stage

Confirm(d) == d \in signalled /\ Move({d}, "outstanding", "confirmed")

Abandon(rows) == Move(rows, "outstanding", "abandoned")

Forget(rows) == Move(rows, "confirmed", "forgotten")

Next ==
  \/ \E d \in Dispatch : Commit(d) \/ Signal(d) \/ Confirm(d)
  \/ \E rows \in SUBSET Dispatch : Abandon(rows) \/ Forget(rows)

Spec == Init /\ [][Next]_vars
===============================================================================
