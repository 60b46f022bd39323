---------------------------- MODULE WeightedDraw ----------------------------
(***************************************************************************)
(* select_weighted_index: one draw of a node, weighted by bandwidth.  The  *)
(* sum of the bandwidths is a u64: it wraps in a release build and panics  *)
(* in a debug build.  PathSelection takes any node of a list for the       *)
(* result of such a draw.                                                  *)
(***************************************************************************)
EXTENDS Naturals, Sequences, SequencesExt

CONSTANTS
  Limit,    \* 2^64: the values of a u64 are below it
  MaxNodes  \* bound: nodes of the list

VARIABLES
  bandwidths,  \* of the nodes, in the order of the list
  pc,          \* "sum", "draw", "walk", then "index", "error" or "panic"
  total,       \* total_bandwidth
  drawn,       \* what random_range returned
  weight,      \* random_weight, as the walk reduces it
  i            \* the node under examination, and then the result

vars == <<bandwidths, pc, total, drawn, weight, i>>

\* The sum of the first n bandwidths.
SumTo(n) == FoldLeft(+, 0, SubSeq(bandwidths, 1, n))

\* The directory takes no bandwidth of 0 and a list is empty before the first
\* node of its type is registered.
Init ==
  /\ bandwidths \in BoundedSeq(1 .. Limit - 1, MaxNodes)
  /\ pc = "sum" /\ total = 0 /\ drawn = 0 /\ weight = 0 /\ i = 1

Sum ==
  /\ pc = "sum"
  /\ IF bandwidths = <<>>
     THEN pc' = "error" /\ UNCHANGED total
     ELSE LET sum == SumTo(Len(bandwidths))
          IN \/ /\ total' = sum % Limit
                /\ pc' = "draw"
             \/ /\ sum >= Limit
                /\ pc' = "panic" /\ UNCHANGED total
  /\ UNCHANGED <<bandwidths, drawn, weight, i>>

\* A sum that wrapped to 0 is taken for a list without bandwidth.
DrawAny ==
  /\ pc = "draw" /\ total = 0
  /\ i' \in 1 .. Len(bandwidths)
  /\ pc' = "index"
  /\ UNCHANGED <<bandwidths, total, drawn, weight>>

DrawWeight ==
  /\ pc = "draw" /\ total > 0
  /\ drawn' \in 0 .. total - 1
  /\ weight' = drawn'
  /\ pc' = "walk"
  /\ UNCHANGED <<bandwidths, total, i>>

\* Mutant of Walk: `<=` for `<`.
WalkTooFar ==
  /\ pc = "walk" /\ i <= Len(bandwidths)
  /\ \/ /\ weight <= bandwidths[i]
        /\ pc' = "index" /\ UNCHANGED <<weight, i>>
     \/ /\ weight > bandwidths[i]
        /\ weight' = weight - bandwidths[i] /\ i' = i + 1 /\ UNCHANGED pc
  /\ UNCHANGED <<bandwidths, total, drawn>>

\* One turn of the loop.
Walk ==
  /\ pc = "walk" /\ i <= Len(bandwidths)
  /\ \/ /\ weight < bandwidths[i]
        /\ pc' = "index" /\ UNCHANGED <<weight, i>>
     \/ /\ weight >= bandwidths[i]
        /\ weight' = weight - bandwidths[i] /\ i' = i + 1 /\ UNCHANGED pc
  /\ UNCHANGED <<bandwidths, total, drawn>>

Next == Sum \/ DrawAny \/ DrawWeight \/ Walk

Spec == Init /\ [][Next]_vars
-----------------------------------------------------------------------------
(* Properties.                                                             *)

\* Every variable keeps its type, u64 included.
TypeOK ==
  /\ bandwidths \in Seq(1 .. Limit - 1)
  /\ pc \in {"sum", "draw", "walk", "index", "error", "panic"}
  /\ total \in 0 .. Limit - 1 /\ drawn \in 0 .. Limit - 1
  /\ weight \in 0 .. Limit - 1 /\ i \in 1 .. Len(bandwidths) + 1

\* Each node has its share: a node is the result for exactly the draws of an
\* interval as long as its bandwidth, and the draws are those of the sum -
\* unless the sum overflows, when the intervals are still right and the draws
\* end early.  The walk never runs off the list, so the answer after the loop
\* (`nodes.len() - 1`) is unreachable: Walk has no such step.
FairShare ==
  /\ pc = "draw" => total = SumTo(Len(bandwidths))
                    \/ SumTo(Len(bandwidths)) >= Limit
  /\ pc = "walk" => i <= Len(bandwidths)
  /\ pc = "index" => i \in 1 .. Len(bandwidths)
  /\ pc = "index" /\ total > 0 =>
       SumTo(i - 1) <= drawn /\ drawn < SumTo(i)
=============================================================================
