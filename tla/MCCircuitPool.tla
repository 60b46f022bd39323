---------------------------- MODULE MCCircuitPool ----------------------------
(* Instances of CircuitPool for TLC.  Both runs check liveness, so neither *)
(* uses the symmetry of the handlers.                                      *)
EXTENDS CircuitPool, TLC
=============================================================================
