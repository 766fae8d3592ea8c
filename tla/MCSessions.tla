------------------------------ MODULE MCSessions ------------------------------
(* Exchanging accounts, families, pairs or requests changes nothing.         *)
EXTENDS Sessions, TLC

Exchange ==
  Permutations(Account) \cup Permutations(Family) \cup Permutations(Pair) \cup Permutations(Request)
===============================================================================
