--------------------------- MODULE MCStreamConsumer ---------------------------
(* Two instances of the consumer with one worker each; all entries are about *)
(* one task, as after a repeated XADD.  Exchanging the instances changes     *)
(* nothing, which halves the states.                                         *)
EXTENDS StreamConsumer, TLC

CONSTANTS i1, i2, w1, w2, task

Tasks == [e \in Entry |-> task]
Instances == [w \in Worker |-> IF w = w1 THEN i1 ELSE i2]
Exchange == {p \in Permutations({i1, i2, w1, w2}) : p[i1] \in Instance /\ (p[i1] = i2 <=> p[w1] = w2) /\ p[w1] \in Worker}
===============================================================================
