----------------------------- MODULE MCDepartments -----------------------------
(* A tree with the ids of an instance that has run for a while: 1 with 10, 11  *)
(* and 12 below each other, and 2 beside it.  One administrator changes it     *)
(* twice.                                                                      *)
EXTENDS Administration, TLC

Dept(parent, path) == [parent |-> parent, path |-> path]
Tree == 1 :> Dept(0, <<0>>) @@ 2 :> Dept(0, <<0>>) @@ 10 :> Dept(1, <<0, 1>>)
          @@ 11 :> Dept(10, <<0, 1, 10>>) @@ 12 :> Dept(11, <<0, 1, 10, 11>>)

Init == RequestsInit(2) /\ AdminInit(Tree, <<>>, {1}, {}, {}, <<1>>, {<<1, 1>>})
Spec == Init /\ [][OrganizationNext]_<<adminVars, requestVars>>
=============================================================================
