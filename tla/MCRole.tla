-------------------------------- MODULE MCRole --------------------------------
(* The four services of the Job Role (job.go), layered as resolveLayers does. *)
EXTENDS Role

CONSTANTS mysql, redis, dispatch, scheduler

Dependencies ==
  [s \in Service |->
    CASE s = dispatch -> {redis}
      [] s = scheduler -> {mysql, dispatch}
      [] OTHER -> {}]

Layers ==
  [s \in Service |-> CASE s = dispatch -> 2 [] s = scheduler -> 3 [] OTHER -> 1]
===============================================================================
