---------------------------- MODULE StreamPipes ----------------------------
(***************************************************************************)
(* What a circuit promises its streams: each stream is two pipes, one in   *)
(* each direction, and a pipe delivers the payloads written into it in     *)
(* order, each at most once and none before it was written.  It may stop   *)
(* at any point: nothing is promised about how much arrives.               *)
(***************************************************************************)
EXTENDS Naturals, Sequences

CONSTANT Pipes

VARIABLES
  written,    \* [Pipes -> Nat]: payloads written so far, numbered from 1
  received    \* [Pipes -> Seq(Nat)]: payloads that came out, in that order

vars == <<written, received>>

Init ==
  /\ written = [p \in Pipes |-> 0]
  /\ received = [p \in Pipes |-> <<>>]

Write(p) ==
  /\ written' = [written EXCEPT ![p] = @ + 1]
  /\ UNCHANGED received

Deliver(p) ==
  /\ Len(received[p]) < written[p]
  /\ received' = [received EXCEPT ![p] = Append(@, Len(@) + 1)]
  /\ UNCHANGED written

Next == \E p \in Pipes : Write(p) \/ Deliver(p)

Spec == Init /\ [][Next]_vars
=============================================================================
