--------------------------- MODULE MCStreamProducer ---------------------------
(* A producer shared by three goroutines, with a breaker of two probes. *)
EXTENDS StreamProducer

CONSTANTS c1, c2, c3
===============================================================================
