----------------------------- MODULE MCConfigCache -----------------------------
(* Two keys, so that one can be renamed to the other. *)
EXTENDS ConfigCache

CONSTANTS none, k1, k2, v1, v2, r1, w1
===============================================================================
