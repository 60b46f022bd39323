---------------------------- MODULE PathSelection ----------------------------
(***************************************************************************)
(* One GetRandomPath request at the discovery service: the type counts,    *)
(* then the picks - exit, entry, each middle in turn - with the growing    *)
(* exclusion sets of registry.rs (IP addresses and operator families).     *)
(*                                                                         *)
(* NodeRegistryStore keeps a read lock for the whole call, so the          *)
(* directory is one snapshot and does not change.  Every registered node   *)
(* has a positive bandwidth (grpc.rs refuses 0), so the weighted draw may  *)
(* return any node of a non-empty list.                                    *)
(***************************************************************************)
EXTENDS Naturals, Sequences, FiniteSets

CONSTANTS
  Entries, Middles, Exits,  \* node ids by type: a relay has one type
  Ips,          \* IP addresses
  Loopback,     \* the loopback ones
  Ops, NoOp,    \* operator ids, and operator_id: None
  AllowSameIp,  \* --allow-same-ip
  Requested,    \* the count of the request
  NoNode

Nodes == Entries \union Middles \union Exits

ASSUME TypesAssumption ==
  /\ Entries \intersect Middles = {}
  /\ Entries \intersect Exits = {}
  /\ Middles \intersect Exits = {}
  /\ NoNode \notin Nodes /\ IsFiniteSet(Nodes)
  /\ Loopback \subseteq Ips /\ NoOp \notin Ops
  /\ AllowSameIp \in BOOLEAN /\ Requested \in Nat

VARIABLES
  registered,   \* the directory: [ids -> [ip, op]]
  pc,           \* the next step of get_random_path, or its outcome
  exit,         \* exit_node
  entry,        \* entry_node
  path,         \* the path so far
  available,    \* available_middles
  excludedIps,  \* excluded_ips
  excludedOps   \* excluded_ops

vars == <<registered, pc, exit, entry, path, available, excludedIps, excludedOps>>

Descriptor == [ip : Ips, op : Ops \union {NoOp}]

\* `(req.count as usize).max(3)` in grpc.rs.
Count == IF Requested < 3 THEN 3 ELSE Requested
MiddleCount == Count - 2

\* get_nodes_by_type.
OfType(type) == type \intersect DOMAIN registered

\* The address is checked against the excluded ones at all.
IpMatters(n) == ~AllowSameIp /\ registered[n].ip \notin Loopback

\* ip_ok && op_ok.
Allowed(n) ==
  /\ IpMatters(n) => registered[n].ip \notin excludedIps
  /\ registered[n].op \notin excludedOps

\* Mutant of Commit: the operator family of a pick is not recorded.
CommitIpOnly(n) ==
  /\ excludedIps' = excludedIps \union
       (IF IpMatters(n) THEN {registered[n].ip} ELSE {})
  /\ UNCHANGED excludedOps

\* A node committed to the circuit excludes its address and its operator.
Commit(n) ==
  /\ excludedIps' = excludedIps \union
       (IF IpMatters(n) THEN {registered[n].ip} ELSE {})
  /\ excludedOps' = excludedOps \union ({registered[n].op} \ {NoOp})
-----------------------------------------------------------------------------
Init ==
  /\ registered \in UNION {[S -> Descriptor] : S \in SUBSET Nodes}
  /\ pc = "check"
  /\ exit = NoNode /\ entry = NoNode /\ path = <<>>
  /\ available = {} /\ excludedIps = {} /\ excludedOps = {}

CheckCounts ==
  /\ pc = "check"
  /\ pc' = IF \/ OfType(Entries) = {} \/ OfType(Exits) = {}
              \/ OfType(Middles) = {}
              \/ Cardinality(OfType(Middles)) < MiddleCount
           THEN "error" ELSE "exit"
  /\ UNCHANGED <<registered, exit, entry, path, available, excludedIps,
                 excludedOps>>

PickExit ==
  /\ pc = "exit"
  /\ \E n \in OfType(Exits) : exit' = n /\ Commit(n)
  /\ pc' = "entry"
  /\ UNCHANGED <<registered, entry, path, available>>

\* Mutant of PickEntry: the middles are taken from the whole directory.
PickEntryOfAll ==
  /\ pc = "entry"
  /\ \E n \in OfType(Entries) :
       /\ entry' = n
       /\ IF Allowed(n)
          THEN /\ Commit(n)
               /\ path' = <<n>>
               /\ available' = DOMAIN registered
               /\ pc' = "middle"
          ELSE /\ pc' = "error"
               /\ UNCHANGED <<path, available, excludedIps, excludedOps>>
  /\ UNCHANGED <<registered, exit>>

\* An entry that conflicts with the exit ends the request: no second draw.
PickEntry ==
  /\ pc = "entry"
  /\ \E n \in OfType(Entries) :
       /\ entry' = n
       /\ IF Allowed(n)
          THEN /\ Commit(n)
               /\ path' = <<n>>
               /\ available' = OfType(Middles)
               /\ pc' = "middle"
          ELSE /\ pc' = "error"
               /\ UNCHANGED <<path, available, excludedIps, excludedOps>>
  /\ UNCHANGED <<registered, exit>>

\* Mutant of PickMiddle: `<=` for `<` against the slots that remain.
PickMiddleTooFew ==
  /\ pc = "middle" /\ Len(path) <= MiddleCount
  /\ LET rest == {n \in available : Allowed(n)}
     IN IF Cardinality(rest) <= MiddleCount + 1 - Len(path)
        THEN /\ pc' = "error" /\ available' = rest
             /\ UNCHANGED <<path, excludedIps, excludedOps>>
        ELSE \E n \in rest :
               /\ path' = Append(path, n)
               /\ available' = rest \ {n}
               /\ Commit(n)
               /\ UNCHANGED pc
  /\ UNCHANGED <<registered, exit, entry>>

\* One turn of the loop: retain, the count of what remains, the draw.
PickMiddle ==
  /\ pc = "middle" /\ Len(path) <= MiddleCount
  /\ LET rest == {n \in available : Allowed(n)}
     IN IF Cardinality(rest) < MiddleCount + 1 - Len(path)
        THEN /\ pc' = "error" /\ available' = rest
             /\ UNCHANGED <<path, excludedIps, excludedOps>>
        ELSE \E n \in rest :
               /\ path' = Append(path, n)
               /\ available' = rest \ {n}
               /\ Commit(n)
               /\ UNCHANGED pc
  /\ UNCHANGED <<registered, exit, entry>>

Finish ==
  /\ pc = "middle" /\ Len(path) > MiddleCount
  /\ path' = Append(path, exit)
  /\ pc' = "ok"
  /\ UNCHANGED <<registered, exit, entry, available, excludedIps, excludedOps>>

Next == CheckCounts \/ PickExit \/ PickEntry \/ PickMiddle \/ Finish

Spec == Init /\ [][Next]_vars
-----------------------------------------------------------------------------
(* Properties.                                                             *)

\* Every variable keeps its type.
TypeOK ==
  /\ DOMAIN registered \subseteq Nodes
  /\ registered \in [DOMAIN registered -> Descriptor]
  /\ pc \in {"check", "exit", "entry", "middle", "ok", "error"}
  /\ exit \in Exits \union {NoNode} /\ entry \in Entries \union {NoNode}
  /\ path \in Seq(Nodes)
  /\ available \subseteq Middles
  /\ excludedIps \subseteq Ips /\ excludedOps \subseteq Ops

\* Two nodes that may serve in one circuit: no shared address, unless it is a
\* loopback one or sharing is allowed, and no shared operator family.
Compatible(m, n) ==
  /\ IpMatters(m) => registered[m].ip # registered[n].ip
  /\ registered[m].op = registered[n].op => registered[m].op = NoOp

\* What a client is promised: N different registered nodes, entry first, exit
\* last, middles between, every two of them compatible (path-selection.puml:
\* "Exclude IP + operator"; registry.rs:209 "middle-vs-middle IP and operator
\* conflicts are caught too").
CircuitIsSound ==
  pc = "ok" =>
    /\ Len(path) = Count
    /\ path[1] \in OfType(Entries) /\ path[Count] \in OfType(Exits)
    /\ \A i \in 2 .. Count - 1 : path[i] \in OfType(Middles)
    /\ \A i, j \in 1 .. Count :
         i # j => path[i] # path[j] /\ Compatible(path[i], path[j])

\* A circuit of entry e, middles M and exit x.
Sound(e, M, x) ==
  /\ Cardinality(M) = MiddleCount
  /\ \A m, n \in M \union {e, x} : m # n => Compatible(m, n)

Candidates(E, X) ==
  {c \in E \X (SUBSET OfType(Middles)) \X X : Sound(c[1], c[2], c[3])}

\* An error is never premature: no sound circuit contains what was picked.
\* Loopback demos, --allow-same-ip and nodes without an operator included.
ErrorIsJustified ==
  pc = "error" =>
    \A c \in Candidates(IF entry = NoNode THEN OfType(Entries) ELSE {entry},
                        IF exit = NoNode THEN OfType(Exits) ELSE {exit}) :
      ~ {path[i] : i \in 2 .. Len(path)} \subseteq c[2]
=============================================================================
