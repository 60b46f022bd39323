-------------------------- MODULE MCCircuitStreams --------------------------
(* Instances of CircuitStreams for TLC.                                    *)
EXTENDS CircuitStreams, TLC

StreamSymmetry == Permutations(Streams)
=============================================================================
