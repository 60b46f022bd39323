--------------------------- MODULE MCPathSelection ---------------------------
(***************************************************************************)
(* SmallParts for TLC.                                                     *)
(***************************************************************************)
EXTENDS SmallParts, TLC

\* Nodes, addresses and operators are numbers.  The entries are picked alike
\* and so are the middles: of the directories that differ only in their order,
\* one is enough.
Rank(n) == IF n \in DOMAIN registered
           THEN 1 + (Cardinality(Ops) + 1) * registered[n].ip + registered[n].op
           ELSE 0
InOrder(nodes) == \A m, n \in nodes : m < n => Rank(m) <= Rank(n)

\* Two relays of different types at one address.
MCAddressOf == [r \in Relays |-> 1]
MCTypeOf == "e1" :> "Entry" @@ "x1" :> "Exit"

MCInit ==
  /\ PartsInit
  /\ part = "selection" => InOrder(Entries) /\ InOrder(Middles)

MCSpec == MCInit /\ [][PartsNext]_PartsVars
=============================================================================
