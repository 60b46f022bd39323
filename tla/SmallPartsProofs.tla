-------------------------- MODULE SmallPartsProofs --------------------------
(***************************************************************************)
(* What the small parts show, for every value of their constants.          *)
(*                                                                         *)
(* Path selection: the exclusion sets are what makes soundness inductive - *)
(* a node on the path, or the exit kept aside, has its address and         *)
(* operator excluded, and the next pick is allowed by both sets, so it is  *)
(* compatible with all of them.  For the errors: when there is none left   *)
(* to pick, no sound circuit contains what was picked.                     *)
(*                                                                         *)
(* Every other part has an inductive invariant of its own, and the last    *)
(* section joins them: a part that does not run keeps its variables.  The  *)
(* sums, the folds and the bytes of a stream need induction on a number,   *)
(* which UpTo states for a set and gets from a least element.              *)
(***************************************************************************)
EXTENDS SmallParts, FiniteSetsExt, FiniteSetTheorems, TLAPS

HP == INSTANCE HandshakeProofs WITH
  tls <- hsTls, host <- hsHost, listing <- hsListing, state <- hsState,
  path <- hsPath, have <- hsHave, keys <- hsKeys, link <- hsLink, msg <- hsMsg,
  session <- hsSession
-----------------------------------------------------------------------------
(* Path selection.                                                         *)

\* What Commit has recorded of a node.
Excluded(n) ==
  /\ IpMatters(n) => registered[n].ip \in excludedIps
  /\ registered[n].op # NoOp => registered[n].op \in excludedOps

BothWays(m, n) == Compatible(m, n) /\ Compatible(n, m)

\* The exit, from its draw to the end.
ExitKept ==
  pc \in {"entry", "middle"} => exit \in OfType(Exits) /\ Excluded(exit)

\* The path under construction.
PathGrows ==
  pc = "middle" =>
    /\ available \subseteq OfType(Middles)
    /\ Len(path) \in 1 .. Count - 1
    /\ path[1] \in OfType(Entries)
    /\ \A i \in 2 .. Len(path) : path[i] \in OfType(Middles)
    /\ \A i \in 1 .. Len(path) :
         /\ Excluded(path[i]) /\ path[i] \notin available
         /\ BothWays(path[i], exit)
    /\ \A i, j \in 1 .. Len(path) :
         i # j => path[i] # path[j] /\ Compatible(path[i], path[j])

PathInv == TypeOK /\ ExitKept /\ PathGrows /\ CircuitIsSound

LEMMA CountFacts == Count \in Nat /\ Count >= 3 /\ MiddleCount = Count - 2
BY TypesAssumption, SMT DEF Count, MiddleCount

\* A node that may be picked is compatible with every excluded one.
LEMMA AllowedIsCompatible ==
  ASSUME NEW m, NEW n, Excluded(m), Allowed(n)
  PROVE  BothWays(m, n)
BY DEF Excluded, Allowed, BothWays, Compatible, IpMatters

\* Commit types, and what was excluded stays so.
LEMMA CommitKeeps ==
  ASSUME TypeOK, NEW n \in DOMAIN registered, Commit(n), UNCHANGED registered
  PROVE  /\ excludedIps' \subseteq Ips /\ excludedOps' \subseteq Ops
         /\ Excluded(n)'
         /\ \A m : Excluded(m) => Excluded(m)'
<1>1. registered[n].ip \in Ips /\ registered[n].op \in Ops \union {NoOp}
  BY DEF TypeOK, Descriptor
<1>2. excludedIps' \subseteq Ips /\ excludedOps' \subseteq Ops
  BY <1>1 DEF Commit, TypeOK
<1>3. Excluded(n)'
  BY DEF Commit, Excluded, IpMatters
<1>4. \A m : Excluded(m) => Excluded(m)'
  BY DEF Commit, Excluded, IpMatters
<1> QED BY <1>2, <1>3, <1>4

\* The invariant is inductive.
LEMMA PathStep == PathInv /\ [Next]_vars => PathInv'
<1> SUFFICES ASSUME PathInv, [Next]_vars PROVE PathInv'
  OBVIOUS
<1> USE CountFacts
<1>1. CASE CheckCounts
  BY <1>1 DEF CheckCounts, PathInv, TypeOK, ExitKept, PathGrows,
    CircuitIsSound, OfType
<1>2. CASE PickExit
  <2>1. PICK n \in OfType(Exits) : exit' = n /\ Commit(n)
    BY <1>2 DEF PickExit
  <2>2. n \in DOMAIN registered /\ n \in Exits
    BY <2>1 DEF OfType
  <2>3. /\ excludedIps' \subseteq Ips /\ excludedOps' \subseteq Ops
        /\ Excluded(n)'
    BY <1>2, <2>1, <2>2, CommitKeeps DEF PickExit, PathInv
  <2>4. TypeOK'
    BY <1>2, <2>1, <2>2, <2>3 DEF PickExit, PathInv, TypeOK
  <2>5. ExitKept' /\ PathGrows' /\ CircuitIsSound'
    BY <1>2, <2>1, <2>2, <2>3
    DEF PickExit, ExitKept, PathGrows, CircuitIsSound, OfType
  <2> QED BY <2>4, <2>5 DEF PathInv
<1>3. CASE PickEntry
  <2>1. PICK n \in OfType(Entries) :
          /\ entry' = n
          /\ IF Allowed(n)
             THEN /\ Commit(n) /\ path' = <<n>>
                  /\ available' = OfType(Middles) /\ pc' = "middle"
             ELSE /\ pc' = "error"
                  /\ UNCHANGED <<path, available, excludedIps, excludedOps>>
    BY <1>3 DEF PickEntry
  <2>2. n \in DOMAIN registered /\ n \in Entries /\ n \in Nodes
    BY <2>1 DEF OfType, Nodes
  <2>3. pc = "entry" /\ UNCHANGED <<registered, exit>>
    BY <1>3 DEF PickEntry
  <2>4. CASE ~Allowed(n)
    BY <2>1, <2>2, <2>3, <2>4
    DEF PathInv, TypeOK, ExitKept, PathGrows, CircuitIsSound, OfType
  <2>5. CASE Allowed(n)
    <3>1. /\ excludedIps' \subseteq Ips /\ excludedOps' \subseteq Ops
          /\ Excluded(n)' /\ \A m : Excluded(m) => Excluded(m)'
      BY <2>1, <2>2, <2>3, <2>5, CommitKeeps DEF PathInv
    <3>2. TypeOK'
      <4>1. path' = <<n>> /\ available' = OfType(Middles) /\ entry' = n
        BY <2>1, <2>5
      <4>2. path' \in Seq(Nodes)
        BY <4>1, <2>2
      <4>3. available' \subseteq Middles /\ entry' \in Entries \union {NoNode}
        BY <4>1, <2>2 DEF OfType
      <4>4. pc' = "middle" /\ UNCHANGED <<registered, exit>>
        BY <2>1, <2>3, <2>5
      <4> QED BY <3>1, <4>4, <4>2, <4>3 DEF PathInv, TypeOK
    <3>3. ExitKept'
      BY <2>1, <2>3, <2>5, <3>1 DEF PathInv, ExitKept, OfType
    <3>4. BothWays(n, exit)
      BY <2>3, <2>5, AllowedIsCompatible DEF PathInv, ExitKept, BothWays
    <3>5. BothWays(n, exit)'
      BY <3>4, <2>3, <2>1 DEF BothWays, Compatible, IpMatters
    <3>6. /\ Len(path') = 1 /\ path'[1] = n
      BY <2>1, <2>5
    <3>7. n \notin available'
      BY <2>1, <2>2, <2>5, TypesAssumption DEF OfType
    <3>8. PathGrows'
      BY <2>1, <2>2, <2>3, <2>5, <3>1, <3>5, <3>6, <3>7 DEF PathGrows, OfType
    <3>9. CircuitIsSound'
      BY <2>1, <2>5 DEF CircuitIsSound
    <3> QED BY <3>2, <3>3, <3>8, <3>9 DEF PathInv
  <2> QED BY <2>4, <2>5
<1>4. CASE PickMiddle
  <2> DEFINE rest == {n \in available : Allowed(n)}
  <2>1. pc = "middle" /\ Len(path) <= MiddleCount
        /\ UNCHANGED <<registered, exit, entry>>
    BY <1>4 DEF PickMiddle
  <2>2. CASE pc' = "error" /\ available' = rest
             /\ UNCHANGED <<path, excludedIps, excludedOps>>
    BY <2>1, <2>2
    DEF PathInv, TypeOK, ExitKept, PathGrows, CircuitIsSound, OfType
  <2>3. ASSUME NEW n \in rest, path' = Append(path, n),
               available' = rest \ {n}, Commit(n), UNCHANGED pc
        PROVE  PathInv'
    <3>1. /\ n \in available /\ Allowed(n) /\ n \in DOMAIN registered
          /\ n \in Middles /\ n \in Nodes /\ n \in OfType(Middles)
      BY <2>1, <2>3 DEF PathInv, PathGrows, OfType, Nodes
    <3>2. /\ excludedIps' \subseteq Ips /\ excludedOps' \subseteq Ops
          /\ Excluded(n)' /\ \A m : Excluded(m) => Excluded(m)'
      BY <2>1, <2>3, <3>1, CommitKeeps DEF PathInv
    <3>3. /\ path \in Seq(Nodes) /\ Len(path) \in Nat
          /\ path' \in Seq(Nodes) /\ Len(path') = Len(path) + 1
          /\ path'[Len(path) + 1] = n
          /\ \A i \in 1 .. Len(path) : path'[i] = path[i]
      BY <2>3, <3>1 DEF PathInv, TypeOK
    <3>4. TypeOK'
      BY <2>1, <2>3, <3>1, <3>2, <3>3 DEF PathInv, TypeOK
    <3>5. ExitKept'
      BY <2>1, <2>3, <3>2 DEF PathInv, ExitKept, OfType
    <3>6. BothWays(n, exit) /\ \A i \in 1 .. Len(path) : BothWays(path[i], n)
      BY <2>1, <3>1, AllowedIsCompatible
      DEF PathInv, ExitKept, PathGrows, BothWays
    <3>8. PathGrows'
      <4>1. /\ available' \subseteq OfType(Middles)'
            /\ Len(path') \in 1 .. Count - 1 /\ path'[1] \in OfType(Entries)'
        BY <2>1, <2>3, <3>1, <3>3 DEF PathInv, PathGrows, OfType
      <4>2. \A i \in 2 .. Len(path') : path'[i] \in OfType(Middles)'
        BY <2>1, <3>1, <3>3 DEF PathInv, PathGrows, OfType
      <4>3. \A i \in 1 .. Len(path') :
              Excluded(path[i])' /\ path'[i] \notin available'
        BY <2>1, <2>3, <3>1, <3>2, <3>3
        DEF PathInv, PathGrows, Excluded, IpMatters
      <4>4. \A i \in 1 .. Len(path') : BothWays(path[i], exit)'
        <5> SUFFICES ASSUME NEW i \in 1 .. Len(path')
                     PROVE  BothWays(path[i], exit)'
          OBVIOUS
        <5>1. BothWays(path'[i], exit)
          <6>1. CASE i \in 1 .. Len(path)
            BY <2>1, <3>3, <6>1 DEF PathInv, PathGrows
          <6>2. CASE i = Len(path) + 1
            BY <3>3, <3>6, <6>2
          <6> QED BY <3>3, <6>1, <6>2
        <5> QED BY <5>1, <2>1 DEF BothWays, Compatible, IpMatters
      <4>5. \A i, j \in 1 .. Len(path') :
              i # j => path'[i] # path'[j] /\ Compatible(path[i], path[j])'
        <5> SUFFICES ASSUME NEW i \in 1 .. Len(path'),
                            NEW j \in 1 .. Len(path'), i # j
                     PROVE  path'[i] # path'[j]
                            /\ Compatible(path[i], path[j])'
          OBVIOUS
        <5>1. path'[i] # path'[j] /\ Compatible(path'[i], path'[j])
          <6>1. /\ \A k \in 1 .. Len(path) :
                     path[k] # n /\ Compatible(path[k], n)
                     /\ Compatible(n, path[k])
                /\ \A k, m \in 1 .. Len(path) :
                     k # m => path[k] # path[m] /\ Compatible(path[k], path[m])
            BY <2>1, <3>1, <3>6 DEF PathInv, PathGrows, BothWays
          <6>2. /\ i \in 1 .. Len(path) \/ i = Len(path) + 1
                /\ j \in 1 .. Len(path) \/ j = Len(path) + 1
            BY <3>3
          <6> QED BY <3>3, <6>1, <6>2
        <5> QED BY <5>1, <2>1 DEF Compatible, IpMatters
      <4> QED BY <4>1, <4>2, <4>3, <4>4, <4>5 DEF PathGrows
    <3>9. CircuitIsSound'
      BY <2>1, <2>3 DEF CircuitIsSound
    <3> QED BY <3>4, <3>5, <3>8, <3>9 DEF PathInv
  <2> QED BY <1>4, <2>2, <2>3 DEF PickMiddle
<1>5. CASE Finish
  <2>1. /\ pc = "middle" /\ Len(path) > MiddleCount
        /\ path' = Append(path, exit) /\ pc' = "ok"
        /\ UNCHANGED <<registered, exit, entry, available, excludedIps,
                       excludedOps>>
    BY <1>5 DEF Finish
  <2>2. exit \in OfType(Exits) /\ exit \in Nodes
    BY <2>1 DEF PathInv, ExitKept, OfType, Nodes
  <2>3. /\ path \in Seq(Nodes) /\ Len(path) = Count - 1
        /\ path' \in Seq(Nodes) /\ Len(path') = Count
        /\ path'[Count] = exit
        /\ \A i \in 1 .. Count - 1 : path'[i] = path[i]
    BY <2>1, <2>2 DEF PathInv, PathGrows, TypeOK
  <2>4. TypeOK'
    BY <2>1, <2>3 DEF PathInv, TypeOK
  <2>5. \A i \in 1 .. Count - 1 : path[i] # exit
    BY <2>1, <2>2, <2>3, TypesAssumption DEF PathInv, PathGrows, OfType
  <2>6. CircuitIsSound'
    <3>1. /\ Len(path') = Count
          /\ path'[1] \in OfType(Entries)' /\ path'[Count] \in OfType(Exits)'
      BY <2>1, <2>2, <2>3 DEF PathInv, PathGrows, OfType
    <3>2. \A i \in 2 .. Count - 1 : path'[i] \in OfType(Middles)'
      BY <2>1, <2>3 DEF PathInv, PathGrows, OfType
    <3>3. \A i, j \in 1 .. Count :
            i # j => path'[i] # path'[j] /\ Compatible(path[i], path[j])'
      BY <2>1, <2>3, <2>5
      DEF PathInv, PathGrows, BothWays, Compatible, IpMatters
    <3> QED BY <3>1, <3>2, <3>3 DEF CircuitIsSound
  <2>7. ExitKept' /\ PathGrows'
    BY <2>1 DEF ExitKept, PathGrows
  <2> QED BY <2>4, <2>6, <2>7 DEF PathInv
<1>6. CASE UNCHANGED vars
  BY <1>6 DEF vars, PathInv, TypeOK, ExitKept, PathGrows, CircuitIsSound,
     OfType, Excluded, BothWays, Compatible, IpMatters
<1> QED BY <1>1, <1>2, <1>3, <1>4, <1>5, <1>6 DEF Next

LEMMA PathInit == Init => PathInv
<1> SUFFICES ASSUME Init PROVE PathInv
  OBVIOUS
<1>1. PICK S \in SUBSET Nodes : registered \in [S -> Descriptor]
  BY DEF Init
<1>2. TypeOK
  BY <1>1 DEF Init, TypeOK
<1> QED BY <1>2 DEF Init, PathInv, ExitKept, PathGrows, CircuitIsSound

\* The variables of a path request keep their types.
THEOREM PathTypeCorrect == Spec => []TypeOK
<1>1. PathInv => TypeOK
  BY DEF PathInv
<1> QED BY <1>1, PathInit, PathStep, PTL DEF Spec

\* Every path handed out has the requested length, its roles in order, and no
\* two nodes that share an address or an operator (registry.rs get_random_path).
THEOREM PathsAreSound == Spec => []CircuitIsSound
<1>1. PathInv => CircuitIsSound
  BY DEF PathInv
<1> QED BY <1>1, PathInit, PathStep, PTL DEF Spec
-----------------------------------------------------------------------------
(* Errors.  The other direction: what is excluded is excluded because of a *)
(* node that is committed, so a middle that a sound circuit could still    *)
(* take is neither refused by the sets nor gone from available_middles,    *)
(* and there are fewer of those than the circuit still needs.              *)

Committed == {exit} \union {path[i] : i \in 1 .. Len(path)}
Picked == {path[i] : i \in 2 .. Len(path)}

\* Why an address or an operator is excluded.
ExcludedByPicks ==
  /\ pc \in {"check", "exit"} =>
       /\ entry = NoNode /\ exit = NoNode
       /\ excludedIps = {} /\ excludedOps = {}
  /\ pc \in {"check", "exit", "entry"} => path = <<>>
  /\ pc \in {"entry", "middle"} =>
       /\ \A ip \in excludedIps :
            \E m \in Committed : IpMatters(m) /\ registered[m].ip = ip
       /\ \A op \in excludedOps :
            \E m \in Committed : registered[m].op = op

\* The middles that may still be drawn.
NothingLost ==
  pc = "middle" =>
    /\ entry = path[1]
    /\ \A n \in OfType(Middles) \ Committed : Allowed(n) => n \in available
    /\ IsFiniteSet(Picked) /\ Cardinality(Picked) = Len(path) - 1

ErrorInv == PathInv /\ ExcludedByPicks /\ NothingLost /\ ErrorIsJustified

\* A node that is compatible with all that is committed is allowed.
LEMMA CompatibleIsAllowed ==
  ASSUME TypeOK, ExcludedByPicks, pc \in {"entry", "middle"}, NEW n,
         \A m \in Committed : BothWays(m, n)
  PROVE  Allowed(n)
<1>1. IpMatters(n) => registered[n].ip \notin excludedIps
  BY DEF ExcludedByPicks, BothWays, Compatible
<1>2. registered[n].op \notin excludedOps
  BY TypesAssumption DEF TypeOK, ExcludedByPicks, BothWays, Compatible
<1> QED BY <1>1, <1>2 DEF Allowed

\* Commit excludes nothing but what its node has.
LEMMA CommitAdds ==
  ASSUME NEW n, Commit(n)
  PROVE  /\ \A ip \in excludedIps' : \/ ip \in excludedIps
                                     \/ IpMatters(n) /\ registered[n].ip = ip
         /\ \A op \in excludedOps' : op \in excludedOps \/ registered[n].op = op
<1>1. \A ip \in excludedIps' : \/ ip \in excludedIps
                               \/ IpMatters(n) /\ registered[n].ip = ip
  <2> DEFINE added == IF IpMatters(n) THEN {registered[n].ip} ELSE {}
  <2>1. excludedIps' = excludedIps \union added  BY DEF Commit
  <2>2. \A ip \in added : IpMatters(n) /\ registered[n].ip = ip
    BY SMT
  <2> HIDE DEF added
  <2> QED BY <2>1, <2>2
<1>2. \A op \in excludedOps' : op \in excludedOps \/ registered[n].op = op
  BY Zenon DEF Commit
<1> QED BY <1>1, <1>2

\* With too few middles left, no sound circuit contains the picks.
LEMMA TooFewRemain ==
  ASSUME ErrorInv, pc = "middle", NEW M \in SUBSET OfType(Middles),
         Sound(entry, M, exit), Picked \subseteq M
  PROVE  Cardinality({n \in available : Allowed(n)})
           >= MiddleCount + 1 - Len(path)
<1> DEFINE rest == {n \in available : Allowed(n)}
<1> USE CountFacts DEF ErrorInv, PathInv
<1>1. /\ IsFiniteSet(M) /\ IsFiniteSet(rest)
  <2>1. M \subseteq Nodes /\ rest \subseteq Nodes  BY DEF OfType, Nodes, TypeOK
  <2> QED BY <2>1, FS_Subset, TypesAssumption
<1>2. /\ entry = path[1] /\ path[1] \in Entries /\ exit \in Exits
      /\ Committed = Picked \union {entry, exit}
  <2>1. entry = path[1] /\ path[1] \in Entries /\ exit \in Exits
        /\ Len(path) \in Nat /\ Len(path) >= 1
    BY DEF NothingLost, PathGrows, ExitKept, OfType
  <2>2. 1 .. Len(path) = {1} \union 2 .. Len(path)  BY <2>1
  <2> QED BY <2>1, <2>2 DEF Committed, Picked
<1>3. M \ Picked \subseteq rest
  <2> SUFFICES ASSUME NEW n \in M, n \notin Picked PROVE n \in rest
    OBVIOUS
  <2>1. n \in OfType(Middles) /\ n # entry /\ n # exit
    BY <1>2, TypesAssumption DEF OfType
  <2>2. \A m \in Committed : BothWays(m, n)
    BY <1>2, <2>1 DEF Sound, BothWays
  <2>3. Allowed(n)  BY <2>2, CompatibleIsAllowed
  <2> QED BY <1>2, <2>1, <2>3 DEF NothingLost
<1>4. Cardinality(M \ Picked) <= Cardinality(rest)
  BY <1>1, <1>3, FS_Subset
<1>5. M \intersect Picked = Picked  OBVIOUS
<1>6. Cardinality(M \ Picked) = Cardinality(M) - Cardinality(Picked)
  <2>1. Cardinality(M \ Picked)
          = Cardinality(M) - Cardinality(M \intersect Picked)
    BY <1>1, FS_Difference, Zenon
  <2> QED BY <1>5, <2>1, Zenon
<1>7. Cardinality(M) = MiddleCount /\ Cardinality(Picked) = Len(path) - 1
  BY DEF Sound, NothingLost
<1>8. Len(path) \in Nat /\ Cardinality(rest) \in Nat
  BY <1>1, FS_CardinalityType DEF TypeOK
<1>9. MiddleCount \in Nat  OBVIOUS
<1> HIDE DEF ErrorInv, PathInv, rest
<1> QED BY <1>4, <1>6, <1>7, <1>8, <1>9 DEF rest

\* An entry that is not allowed conflicts with the exit.
LEMMA EntryConflicts ==
  ASSUME PathInv, ExcludedByPicks, pc = "entry", NEW n \in OfType(Entries),
         ~Allowed(n)
  PROVE  n # exit /\ ~BothWays(exit, n)
<1>1. exit \in Exits /\ n \in Entries /\ path = <<>>
  BY DEF PathInv, ExitKept, ExcludedByPicks, OfType
<1>2. Committed = {exit}  BY <1>1 DEF Committed
<1>3. TypeOK  BY DEF PathInv
<1> QED BY <1>1, <1>2, <1>3, CompatibleIsAllowed, TypesAssumption

\* What a wrong error would need.
Fits(e, M, x, E, X) ==
  /\ e \in E /\ x \in X
  /\ M \in SUBSET OfType(Middles) /\ Sound(e, M, x) /\ Picked \subseteq M
Wrong ==
  /\ pc = "error"
  /\ \E e, x, M : Fits(e, M, x,
                      IF entry = NoNode THEN OfType(Entries) ELSE {entry},
                      IF exit = NoNode THEN OfType(Exits) ELSE {exit})

LEMMA Premature == ErrorIsJustified \/ Wrong
<1> SUFFICES ASSUME ~ErrorIsJustified PROVE Wrong
  OBVIOUS
<1> DEFINE E == IF entry = NoNode THEN OfType(Entries) ELSE {entry}
           X == IF exit = NoNode THEN OfType(Exits) ELSE {exit}
<1>1. pc = "error"  BY DEF ErrorIsJustified
<1>2. PICK c \in Candidates(E, X) : Picked \subseteq c[2]
  BY DEF ErrorIsJustified, Picked
<1>3. /\ c[1] \in E /\ c[3] \in X
      /\ c[2] \in SUBSET OfType(Middles) /\ Sound(c[1], c[2], c[3])
  BY <1>2 DEF Candidates
<1> QED BY <1>1, <1>2, <1>3 DEF Wrong, Fits

LEMMA PrematureAfter == ErrorIsJustified' \/ Wrong'
BY Premature, PTL

\* The counts of the directory rule out every circuit.
LEMMA CountsRuleOut ==
  ASSUME NEW e \in OfType(Entries), NEW x \in OfType(Exits),
         NEW M \in SUBSET OfType(Middles), Sound(e, M, x)
  PROVE  ~ \/ OfType(Entries) = {} \/ OfType(Exits) = {}
           \/ OfType(Middles) = {}
           \/ Cardinality(OfType(Middles)) < MiddleCount
<1>1. IsFiniteSet(OfType(Middles))
  <2>1. OfType(Middles) \subseteq Nodes  BY DEF OfType, Nodes
  <2> QED BY <2>1, FS_Subset, TypesAssumption
<1>2. MiddleCount \in Nat /\ MiddleCount >= 1 /\ Cardinality(M) = MiddleCount
  BY CountFacts DEF Sound
<1>3. Cardinality(M) <= Cardinality(OfType(Middles))
  BY <1>1, FS_Subset
<1>4. Cardinality(OfType(Middles)) \in Nat  BY <1>1, FS_CardinalityType
<1>5. OfType(Middles) # {}
  <2>1. Cardinality({}) = 0  BY FS_EmptySet
  <2> QED BY <1>2, <1>3, <2>1
<1> QED BY <1>2, <1>3, <1>4, <1>5

LEMMA ErrorStep == ErrorInv /\ [Next]_vars => ErrorInv'
<1> SUFFICES ASSUME ErrorInv, [Next]_vars PROVE ErrorInv'
  OBVIOUS
<1> USE DEF ErrorInv
<1>1. PathInv /\ PathInv' /\ TypeOK /\ TypeOK'  BY PathStep DEF PathInv
<1>2. CASE CheckCounts
  <2>1. /\ pc = "check" /\ pc' \in {"exit", "error"}
        /\ UNCHANGED <<registered, exit, entry, path, available, excludedIps,
                       excludedOps>>
        /\ entry = NoNode /\ exit = NoNode
    BY <1>2 DEF CheckCounts, ExcludedByPicks
  <2>2. ExcludedByPicks' /\ NothingLost'
    BY <2>1 DEF ExcludedByPicks, NothingLost
  <2>3. ASSUME Wrong' PROVE FALSE
    <3>1. PICK e, x, M : Fits(e, M, x, OfType(Entries), OfType(Exits))
      BY <2>1, <2>3
      DEF Wrong, Fits, OfType, Sound, Compatible, IpMatters, Picked
    <3>2. \/ OfType(Entries) = {} \/ OfType(Exits) = {}
          \/ OfType(Middles) = {}
          \/ Cardinality(OfType(Middles)) < MiddleCount
      BY <1>2, <2>3 DEF CheckCounts, Wrong
    <3> QED BY <3>1, <3>2, CountsRuleOut DEF Fits
  <2> QED BY <1>1, <2>2, <2>3, PrematureAfter
<1>3. CASE PickExit
  <2>1. PICK n \in OfType(Exits) : exit' = n /\ Commit(n)
    BY <1>3 DEF PickExit
  <2>2. /\ pc = "exit" /\ pc' = "entry" /\ UNCHANGED <<registered, entry, path>>
        /\ path = <<>> /\ excludedIps = {} /\ excludedOps = {}
    BY <1>3 DEF PickExit, ExcludedByPicks
  <2>3. Committed' = {n}  BY <2>1, <2>2 DEF Committed
  <2>4. ExcludedByPicks'
    BY <2>1, <2>2, <2>3, CommitAdds DEF ExcludedByPicks, IpMatters
  <2>5. NothingLost' /\ ErrorIsJustified'
    BY <2>2 DEF NothingLost, ErrorIsJustified
  <2> QED BY <1>1, <2>4, <2>5
<1>4. CASE PickEntry
  <2>1. PICK n \in OfType(Entries) :
          /\ entry' = n
          /\ IF Allowed(n)
             THEN /\ Commit(n) /\ path' = <<n>>
                  /\ available' = OfType(Middles) /\ pc' = "middle"
             ELSE /\ pc' = "error"
                  /\ UNCHANGED <<path, available, excludedIps, excludedOps>>
    BY <1>4 DEF PickEntry
  <2>2. /\ pc = "entry" /\ UNCHANGED <<registered, exit>> /\ path = <<>>
        /\ exit \in Exits /\ n \in Entries /\ exit # NoNode /\ n # NoNode
    BY <1>1, <1>4, <2>1, TypesAssumption
    DEF PickEntry, ExcludedByPicks, PathInv, ExitKept, OfType, Nodes
  <2>3. CASE ~Allowed(n)
    <3>1. n # exit /\ ~BothWays(exit, n)
      BY <1>1, <2>2, <2>3, EntryConflicts
    <3>2. ASSUME Wrong' PROVE FALSE
      <4>1. PICK M : Sound(n, M, exit)
        BY <2>1, <2>2, <3>2
        DEF Wrong, Fits, OfType, Sound, Compatible, IpMatters
      <4> QED BY <3>1, <4>1 DEF Sound, BothWays
    <3>3. ExcludedByPicks' /\ NothingLost'
      BY <2>1, <2>3 DEF ExcludedByPicks, NothingLost
    <3> QED BY <1>1, <3>2, <3>3, PrematureAfter
  <2>4. CASE Allowed(n)
    <3>1. Committed = {exit} /\ Committed' = {exit, n} /\ Picked' = {}
      <4>1. /\ path = <<>> /\ Len(path) = 0 /\ 1 .. 0 = {}
            /\ path' = <<n>> /\ Len(path') = 1 /\ path'[1] = n /\ exit' = exit
            /\ 1 .. 1 = {1} /\ 2 .. 1 = {}
        BY <2>1, <2>2, <2>4
      <4>2. Committed = {exit}  BY <4>1 DEF Committed
      <4>3. Committed' = {exit, n}  BY <4>1 DEF Committed
      <4>4. Picked' = {}  BY <4>1 DEF Picked
      <4> QED BY <4>2, <4>3, <4>4
    <3>2. ExcludedByPicks'
      BY <2>1, <2>2, <2>4, <3>1, CommitAdds DEF ExcludedByPicks, IpMatters
    <3>3. NothingLost'
      <4>1. IsFiniteSet({}) /\ Cardinality({}) = 0  BY FS_EmptySet
      <4>2. path' = <<n>> /\ entry' = n /\ Len(path') = 1 /\ path'[1] = n
        BY <2>1, <2>4
      <4>3. available' = OfType(Middles)'  BY <2>1, <2>2, <2>4 DEF OfType
      <4> QED BY <3>1, <4>1, <4>2, <4>3 DEF NothingLost
    <3>4. ErrorIsJustified'  BY <2>1, <2>4 DEF ErrorIsJustified
    <3> QED BY <1>1, <3>2, <3>3, <3>4
  <2> QED BY <2>3, <2>4
<1>5. CASE PickMiddle
  <2> DEFINE rest == {n \in available : Allowed(n)}
  <2>1. /\ pc = "middle" /\ Len(path) <= MiddleCount
        /\ UNCHANGED <<registered, exit, entry>>
        /\ exit \in Exits /\ entry \in Entries
        /\ exit # NoNode /\ entry # NoNode
        /\ Len(path) \in 1 .. Count - 1 /\ path \in Seq(Nodes)
    BY <1>1, <1>5, TypesAssumption
    DEF PickMiddle, PathInv, ExitKept, PathGrows, NothingLost, OfType, Nodes,
      TypeOK
  <2>2. ASSUME Cardinality(rest) < MiddleCount + 1 - Len(path),
               pc' = "error", UNCHANGED path
        PROVE  ErrorInv'
    <3>1. ASSUME Wrong' PROVE FALSE
      <4>1. PICK M : Fits(entry, M, exit, {entry}, {exit})
        BY <2>1, <2>2, <3>1
        DEF Wrong, Fits, OfType, Sound, Compatible, IpMatters, Picked
      <4>2. Cardinality(rest) >= MiddleCount + 1 - Len(path)
        BY <2>1, <4>1, TooFewRemain DEF Fits
      <4>3. Cardinality(rest) \in Nat
        <5>1. rest \subseteq Nodes  BY <1>1 DEF TypeOK, Nodes
        <5> QED BY <5>1, FS_Subset, FS_CardinalityType, TypesAssumption
      <4> QED BY <2>1, <2>2, <4>2, <4>3, CountFacts
    <3>2. ExcludedByPicks' /\ NothingLost'
      BY <2>2 DEF ExcludedByPicks, NothingLost
    <3> QED BY <1>1, <3>1, <3>2, PrematureAfter
  <2>3. ASSUME NEW n \in rest, path' = Append(path, n),
               available' = rest \ {n}, Commit(n), UNCHANGED pc
        PROVE  ErrorInv'
    <3>1. /\ n \in available /\ n \in Nodes /\ n \in Middles
          /\ \A i \in 1 .. Len(path) : path[i] \notin available
      BY <1>1, <2>1, <2>3 DEF TypeOK, Nodes, PathInv, PathGrows
    <3>2. /\ Len(path') = Len(path) + 1 /\ path'[Len(path) + 1] = n
          /\ \A i \in 1 .. Len(path) : path'[i] = path[i]
      BY <2>1, <2>3, <3>1
    <3>3. /\ 1 .. Len(path') = (1 .. Len(path)) \union {Len(path) + 1}
          /\ 2 .. Len(path') = (2 .. Len(path)) \union {Len(path) + 1}
      BY <2>1, <3>2
    <3>4. Committed' = Committed \union {n}
      BY <2>1, <3>2, <3>3 DEF Committed
    <3>5. Picked' = Picked \union {n} /\ n \notin Picked
      BY <2>1, <3>1, <3>2, <3>3 DEF Picked
    <3>6. ExcludedByPicks'
      <4>1. \A ip \in excludedIps' :
              \E m \in Committed' : IpMatters(m) /\ registered[m].ip = ip
        BY <2>1, <2>3, <3>4, CommitAdds DEF ExcludedByPicks
      <4>2. \A op \in excludedOps' : \E m \in Committed' : registered[m].op = op
        BY <2>1, <2>3, <3>4, CommitAdds DEF ExcludedByPicks
      <4> QED BY <2>1, <2>3, <4>1, <4>2 DEF ExcludedByPicks, IpMatters
    <3>7. NothingLost'
      <4>1. \A m \in OfType(Middles) : Allowed(m)' => Allowed(m)
        <5>1. excludedIps \subseteq excludedIps'
              /\ excludedOps \subseteq excludedOps'
          BY <2>3 DEF Commit
        <5> QED BY <2>1, <5>1 DEF Allowed, IpMatters
      <4>2. \A m \in OfType(Middles)' \ Committed' :
              Allowed(m)' => m \in available'
        BY <2>1, <2>3, <3>4, <4>1 DEF NothingLost, OfType
      <4>3. IsFiniteSet(Picked')
            /\ Cardinality(Picked') = Cardinality(Picked) + 1
        BY <2>1, <3>5, FS_AddElement DEF NothingLost
      <4>4. Cardinality(Picked) = Len(path) - 1 /\ entry = path[1]
        BY <2>1 DEF NothingLost
      <4>5. Cardinality(Picked') = Len(path') - 1 /\ entry' = path'[1]
        BY <2>1, <3>2, <4>3, <4>4
      <4> QED BY <4>2, <4>3, <4>5 DEF NothingLost
    <3>8. ErrorIsJustified'  BY <2>1, <2>3 DEF ErrorIsJustified
    <3> QED BY <1>1, <3>6, <3>7, <3>8
  <2> QED BY <1>5, <2>2, <2>3 DEF PickMiddle
<1>6. CASE Finish
  BY <1>1, <1>6 DEF Finish, ExcludedByPicks, NothingLost, ErrorIsJustified
<1>7. CASE UNCHANGED vars
  BY <1>1, <1>7 DEF vars, ExcludedByPicks, NothingLost, ErrorIsJustified,
    Committed, Picked, Allowed, IpMatters, OfType, Candidates, Sound, Compatible
<1> QED BY <1>2, <1>3, <1>4, <1>5, <1>6, <1>7 DEF Next

\* An error is never premature: when get_random_path gives up, no sound circuit
\* contains what it had drawn, for every directory and hop count.
THEOREM ErrorsAreJustified == Spec => []ErrorIsJustified
<1>1. Init => ErrorInv
  BY PathInit DEF Init, ErrorInv, ExcludedByPicks, NothingLost, ErrorIsJustified
<1>2. ErrorInv => ErrorIsJustified  BY DEF ErrorInv
<1> QED BY <1>1, <1>2, ErrorStep, PTL DEF Spec
-----------------------------------------------------------------------------
(* Numbers and sequences.                                                  *)

\* A set of numbers has a least one: the intervals up to its members are
\* ordered by inclusion, which is well-founded on finite sets.
LEMMA LeastNumber ==
  ASSUME NEW S \in SUBSET Nat, S # {}
  PROVE  \E m \in S : \A k \in S : m <= k
<1> DEFINE R == StrictSubsetOrdering(Nat)
           F == FiniteSubsetsOf(Nat)
           T == {1 .. n : n \in S}
<1>1. IsWellFoundedOn(R, F)
  BY FS_StrictSubsetOrderingWellFounded
<1>2. T \subseteq F /\ T # {}
  <2>1. \A n \in S : 1 .. n \in SUBSET Nat /\ IsFiniteSet(1 .. n)
    BY FS_Interval
  <2> QED BY <2>1 DEF FiniteSubsetsOf
<1>3. PICK x \in T : \A y \in T : <<y, x>> \notin R
  <2> HIDE DEF R, F, T
  <2> QED BY <1>1, <1>2, WFMin
<1>4. PICK m \in S : x = 1 .. m
  OBVIOUS
<1>5. ASSUME NEW k \in S, k < m PROVE FALSE
  <2>1. 1 .. k \in T /\ 1 .. k \subseteq 1 .. m /\ 1 .. k # 1 .. m
    BY <1>5
  <2>2. 1 .. k \in SUBSET Nat /\ 1 .. m \in SUBSET Nat
    OBVIOUS
  <2>3. <<1 .. k, 1 .. m>> \in R
    BY <2>1, <2>2 DEF StrictSubsetOrdering
  <2> QED BY <1>3, <1>4, <2>1, <2>3
<1> QED BY <1>5

\* Induction up to n, for a property given by the set of numbers that have it.
LEMMA UpTo ==
  ASSUME NEW n \in Nat, NEW S, 0 \in S,
         \A k \in 0 .. n - 1 : k \in S => k + 1 \in S
  PROVE  \A k \in 0 .. n : k \in S
<1> SUFFICES ASSUME NEW bad \in 0 .. n, bad \notin S PROVE FALSE
  OBVIOUS
<1> DEFINE B == {k \in 0 .. n : k \notin S}
<1>1. PICK m \in B : \A k \in B : m <= k
  <2>1. B \in SUBSET Nat /\ B # {}
    OBVIOUS
  <2> HIDE DEF B
  <2> QED BY <2>1, LeastNumber
<1>2. m # 0 /\ m - 1 \in 0 .. n - 1 /\ m - 1 \notin B
  BY <1>1
<1>3. (m - 1) + 1 = m
  BY <1>2
<1> QED BY <1>2, <1>3

\* Max has a value on what a fold goes through.
LEMMA MaxIs ==
  ASSUME NEW n \in Nat, NEW S \in SUBSET (1 .. n), S # {}
  PROVE  Max(S) \in S /\ \A x \in S : x <= Max(S)
<1> DEFINE T == {n - x : x \in S}
<1>1. PICK m \in T : \A k \in T : m <= k
  <2>1. \A x \in S : n - x \in Nat
    OBVIOUS
  <2>2. T \in SUBSET Nat /\ T # {}
    BY <2>1
  <2> HIDE DEF T
  <2> QED BY <2>2, LeastNumber
<1>2. PICK x \in S : m = n - x
  OBVIOUS
<1>3. ASSUME NEW y \in S PROVE x >= y
  <2>1. n - y \in T
    OBVIOUS
  <2>2. n - x <= n - y
    BY <1>1, <1>2, <2>1
  <2> QED BY <2>2
<1>4. \E z \in S : \A y \in S : z >= y
  BY <1>3
<1>5. Max(S) \in S /\ \A y \in S : Max(S) >= y
  BY <1>4 DEF Max
<1> QED BY <1>5

\* g is what the folds of the community modules compute, with Max as the
\* element they take.
Folded(g, n, base, step) ==
  g = [s \in SUBSET (1 .. n) |->
         IF s = {} THEN base ELSE step[<<g[s \ {Max(s)}], Max(s)>>]]

\* What a fold from the left computes exists.
LEMMA FoldExists ==
  ASSUME NEW n \in Nat, NEW A, NEW base \in A,
         NEW step \in [A \X (1 .. n) -> A]
  PROVE  \E g \in [SUBSET (1 .. n) -> A] : Folded(g, n, base, step)
<1> DEFINE S == {k \in 0 .. n :
                   \E g \in [SUBSET (1 .. k) -> A] : Folded(g, k, base, step)}
<1>1. 0 \in S
  <2> DEFINE g == [s \in SUBSET (1 .. 0) |-> base]
  <2>1. g \in [SUBSET (1 .. 0) -> A]
    OBVIOUS
  <2>2. 1 .. 0 = {} /\ \A s \in SUBSET (1 .. 0) : s = {}
    OBVIOUS
  <2>3. Folded(g, 0, base, step)
    BY <2>2 DEF Folded
  <2> QED BY <2>1, <2>3
<1>2. ASSUME NEW k \in 0 .. n - 1, k \in S PROVE k + 1 \in S
  <2>1. PICK g \in [SUBSET (1 .. k) -> A] : Folded(g, k, base, step)
    BY <1>2
  <2> DEFINE m == k + 1
             h == [s \in SUBSET (1 .. m) |->
                     IF m \in s THEN step[<<g[s \ {m}], m>>] ELSE g[s]]
             v(s) == IF s = {} THEN base
                     ELSE step[<<h[s \ {Max(s)}], Max(s)>>]
  <2>2. /\ m \in 1 .. n /\ m \in Nat /\ m \notin 1 .. k
        /\ \A x \in 1 .. m : x = m \/ x \in 1 .. k
        /\ 1 .. k \subseteq 1 .. m /\ \A x \in 1 .. m : x <= m
    OBVIOUS
  <2> HIDE DEF m
  <2>3. ASSUME NEW s \in SUBSET (1 .. m), m \in s
        PROVE h[s] \in A /\ h[s] = v(s)
    <3>1. s \ {m} \in SUBSET (1 .. k) /\ s # {} /\ s \ {m} \in SUBSET (1 .. m)
      BY <2>2, <2>3
    <3>2. Max(s) = m
      <4>1. Max(s) \in s /\ \A x \in s : x <= Max(s)
        BY <2>2, <3>1, MaxIs
      <4>2. Max(s) \in 1 .. m /\ m <= Max(s)
        BY <2>3, <4>1
      <4> QED BY <2>2, <4>2
    <3>3. h[s] = step[<<g[s \ {m}], m>>] /\ h[s \ {m}] = g[s \ {m}]
      BY <2>3, <3>1
    <3>4. g[s \ {m}] \in A
      BY <2>1, <3>1
    <3> QED BY <2>2, <3>1, <3>2, <3>3, <3>4
  <2>4. ASSUME NEW s \in SUBSET (1 .. m), m \notin s
        PROVE h[s] \in A /\ h[s] = v(s)
    <3>1. s \in SUBSET (1 .. k) /\ h[s] = g[s]
      BY <2>2, <2>4
    <3>2. g[s] \in A /\ g[s] = IF s = {} THEN base
                               ELSE step[<<g[s \ {Max(s)}], Max(s)>>]
      BY <2>1, <3>1 DEF Folded
    <3>3. h[s \ {Max(s)}] = g[s \ {Max(s)}]
      BY <2>2, <2>4, <3>1
    <3> QED BY <3>1, <3>2, <3>3
  <2>5. /\ h = [s \in SUBSET (1 .. m) |-> h[s]]
        /\ \A s \in SUBSET (1 .. m) : h[s] \in A
    BY <2>3, <2>4
  <2>6. h \in [SUBSET (1 .. m) -> A]
    BY <2>5
  <2>7. \A s \in SUBSET (1 .. m) : h[s] = v(s)
    BY <2>3, <2>4
  <2>8. Folded(h, m, base, step)
    BY <2>6, <2>7 DEF Folded
  <2> HIDE DEF h
  <2> QED BY <2>2, <2>6, <2>8 DEF m
<1> HIDE DEF S
<1>3. n \in S
  BY <1>1, <1>2, UpTo
<1> QED BY <1>3 DEF S

\* The sets a fold over 1 .. n goes through.
LEMMA Intervals ==
  ASSUME NEW n \in Nat, NEW k \in 0 .. n - 1
  PROVE  /\ 1 .. k + 1 \in SUBSET (1 .. n) /\ 1 .. k + 1 # {}
         /\ Max(1 .. k + 1) = k + 1 /\ (1 .. k + 1) \ {k + 1} = 1 .. k
         /\ 1 .. 0 = {} /\ k \in 0 .. n /\ k + 1 \in 1 .. n
<1>1. 1 .. k + 1 \in SUBSET (1 .. n) /\ k + 1 \in 1 .. k + 1
  OBVIOUS
<1>2. Max(1 .. k + 1) \in 1 .. k + 1 /\ k + 1 <= Max(1 .. k + 1)
  BY <1>1, MaxIs
<1>3. (1 .. k + 1) \ {k + 1} = 1 .. k /\ 1 .. 0 = {}
  OBVIOUS
<1> QED BY <1>1, <1>2, <1>3

\* Two sequences that agree are one.
LEMMA SameSeq ==
  ASSUME NEW S, NEW s \in Seq(S), NEW t \in Seq(S), Len(s) = Len(t),
         \A k \in 1 .. Len(s) : s[k] = t[k]
  PROVE  s = t
OBVIOUS

\* A sequence over a set is one over a larger set.
LEMMA WiderSeq ==
  ASSUME NEW S, NEW T, S \subseteq T, NEW s \in Seq(S) PROVE s \in Seq(T)
<1>1. s = [k \in 1 .. Len(s) |-> s[k]] /\ Len(s) \in Nat
  OBVIOUS
<1>2. \A k \in 1 .. Len(s) : s[k] \in T
  OBVIOUS
<1> QED BY <1>1, <1>2
-----------------------------------------------------------------------------
(* The draw.                                                               *)

SumStep ==
  [a \in Nat \X (1 .. Len(wdBandwidths)) |-> a[1] + wdBandwidths[a[2]]]

\* SumTo chooses the function that FoldExists provides.
LEMMA SumFold ==
  ASSUME wdBandwidths \in Seq(Nat), NEW n \in 0 .. Len(wdBandwidths),
         NEW g \in [SUBSET (1 .. Len(wdBandwidths)) -> Nat],
         Folded(g, Len(wdBandwidths), 0, SumStep)
  PROVE  WD!SumTo(n) = g[1 .. n]
<1> DEFINE N == Len(wdBandwidths)
           q == SubSeq(wdBandwidths, 1, n)
           w(f, s) == IF s = {} THEN 0 ELSE f[s \ {Max(s)}] + q[Max(s)]
           iter == CHOOSE f : f = [s \in SUBSET DOMAIN q |-> w(f, s)]
           f0 == [s \in SUBSET (1 .. n) |-> g[s]]
<1>1. WD!SumTo(n) = iter[DOMAIN q]
  BY Zenon DEF WD!SumTo, WD!FoldLeft, WD!MapThenFoldSet, WD!Max, Max
<1>2. /\ n \in Nat /\ N \in Nat /\ DOMAIN q = 1 .. n
      /\ \A i \in 1 .. n : q[i] = wdBandwidths[i] /\ wdBandwidths[i] \in Nat
      /\ \A i \in 1 .. n : i \in 1 .. N
  OBVIOUS
<1>3. ASSUME NEW s \in SUBSET (1 .. n), s # {}
      PROVE  /\ Max(s) \in 1 .. n /\ s \ {Max(s)} \in SUBSET (1 .. n)
             /\ g[s] = g[s \ {Max(s)}] + q[Max(s)]
  <2>1. /\ Max(s) \in 1 .. n /\ s \ {Max(s)} \in SUBSET (1 .. n)
        /\ s \in SUBSET (1 .. N) /\ s \ {Max(s)} \in SUBSET (1 .. N)
    BY <1>2, <1>3, MaxIs
  <2>2. g[s \ {Max(s)}] \in Nat
    BY <2>1
  <2>3. g[s] = SumStep[<<g[s \ {Max(s)}], Max(s)>>]
    BY <1>3, <2>1 DEF Folded
  <2> QED BY <1>2, <2>1, <2>2, <2>3 DEF SumStep
<1>4. ASSUME NEW s \in SUBSET (1 .. n) PROVE f0[s] = w(f0, s)
  <2>1. g[{}] = 0
    BY DEF Folded
  <2> QED BY <1>3, <2>1
<1>5. f0 = [s \in SUBSET (1 .. n) |-> w(f0, s)]
  BY <1>4
<1>6. iter = [s \in SUBSET (1 .. n) |-> w(iter, s)]
  BY <1>2, <1>5
<1> DEFINE S == {k \in 0 .. n : iter[1 .. k] = g[1 .. k]}
<1>7. 0 \in S
  <2>1. 1 .. 0 = {} /\ g[{}] = 0 /\ {} \in SUBSET (1 .. n)
    BY DEF Folded
  <2> HIDE DEF iter
  <2>2. iter[{}] = 0
    BY <1>6, <2>1
  <2> QED BY <1>2, <2>1, <2>2
<1>8. ASSUME NEW k \in 0 .. n - 1, k \in S PROVE k + 1 \in S
  <2>1. n \in Nat
    BY <1>2
  <2> HIDE DEF iter, S
  <2>2. /\ 1 .. k + 1 \in SUBSET (1 .. n) /\ 1 .. k + 1 # {}
        /\ Max(1 .. k + 1) = k + 1 /\ (1 .. k + 1) \ {k + 1} = 1 .. k
        /\ k + 1 \in 1 .. n
    BY <2>1, Intervals, ZenonT(30)
  <2>3. k + 1 \in 0 .. n
    BY <2>2
  <2>4. iter[1 .. k + 1] = iter[1 .. k] + q[k + 1]
    BY <1>6, <2>2
  <2>5. g[1 .. k + 1] = g[1 .. k] + q[k + 1]
    BY <1>3, <2>2
  <2> QED BY <1>8, <2>3, <2>4, <2>5 DEF S
<1>9. n \in S
  <2> HIDE DEF S
  <2>1. \A k \in 0 .. n - 1 : k \in S => k + 1 \in S
    BY <1>8
  <2>2. n \in Nat /\ n \in 0 .. n
    BY <1>2
  <2> QED BY <1>7, <2>1, <2>2, UpTo
<1> QED BY <1>1, <1>2, <1>9 DEF S

\* What SumTo computes.
LEMMA SumIs ==
  ASSUME wdBandwidths \in Seq(Nat)
  PROVE  /\ WD!SumTo(0) = 0
         /\ \A n \in 0 .. Len(wdBandwidths) : WD!SumTo(n) \in Nat
         /\ \A n \in 1 .. Len(wdBandwidths) :
              WD!SumTo(n) = WD!SumTo(n - 1) + wdBandwidths[n]
<1> DEFINE N == Len(wdBandwidths)
<1>1. N \in Nat /\ \A i \in 1 .. N : wdBandwidths[i] \in Nat
  OBVIOUS
<1>2. SumStep \in [Nat \X (1 .. N) -> Nat]
  BY <1>1 DEF SumStep
<1>3. PICK g \in [SUBSET (1 .. N) -> Nat] : Folded(g, N, 0, SumStep)
  BY <1>1, <1>2, FoldExists
<1>4. ASSUME NEW n \in 0 .. N
      PROVE  WD!SumTo(n) = g[1 .. n] /\ 1 .. n \in SUBSET (1 .. N)
  <2>1. WD!SumTo(n) = g[1 .. n]
    BY <1>3, SumFold
  <2> QED BY <1>1, <2>1
<1>5. WD!SumTo(0) = 0
  <2>1. 0 \in 0 .. N /\ 1 .. 0 = {} /\ {} \in SUBSET (1 .. N)
    BY <1>1
  <2>2. WD!SumTo(0) = g[{}]
    BY <1>4, <2>1
  <2> QED BY <1>3, <2>1, <2>2 DEF Folded
<1>6. ASSUME NEW n \in 1 .. N
      PROVE  WD!SumTo(n) = WD!SumTo(n - 1) + wdBandwidths[n]
  <2>1. /\ n - 1 \in 0 .. N - 1 /\ n - 1 \in 0 .. N /\ n \in 0 .. N
        /\ (n - 1) + 1 = n
    BY <1>1
  <2>2. /\ 1 .. n \in SUBSET (1 .. N) /\ 1 .. n # {} /\ Max(1 .. n) = n
        /\ (1 .. n) \ {n} = 1 .. n - 1
    BY <1>1, <2>1, Intervals, ZenonT(30)
  <2>3. g[1 .. n] = SumStep[<<g[1 .. n - 1], n>>]
    BY <1>3, <2>2 DEF Folded
  <2>4. g[1 .. n - 1] \in Nat
    BY <1>3, <1>4, <2>1
  <2> QED BY <1>1, <1>4, <2>1, <2>3, <2>4 DEF SumStep
<1>7. \A n \in 0 .. N : WD!SumTo(n) \in Nat
  BY <1>4
<1> QED BY <1>5, <1>6, <1>7

\* The walk is as far as what it took off the draw, and the draw is one of the
\* list.
DrawInv ==
  /\ WD!TypeOK /\ WD!FairShare
  /\ wdPc \in {"sum", "draw"} => wdI = 1
  /\ wdPc = "draw" => wdBandwidths # <<>>
                      /\ wdTotal <= WD!SumTo(Len(wdBandwidths))
  /\ wdPc = "walk" => /\ wdDrawn = WD!SumTo(wdI - 1) + wdWeight
                      /\ wdDrawn < WD!SumTo(Len(wdBandwidths))

\* Addition in a word.
LEMMA Remainder ==
  ASSUME NEW n \in Nat, NEW m \in Nat \ {0}
  PROVE  n % m \in 0 .. m - 1 /\ n % m <= n /\ (n < m => n % m = n)
OBVIOUS

LEMMA DrawInit == WD!Init => DrawInv
<1> SUFFICES ASSUME WD!Init PROVE DrawInv
  OBVIOUS
<1>1. wdBandwidths \in Seq(1 .. Limit - 1)
  <2>1. PICK n \in 0 .. MaxNodes : wdBandwidths \in [1 .. n -> 1 .. Limit - 1]
    BY DEF WD!Init, WD!BoundedSeq, WD!SeqOf
  <2> QED BY <2>1, SizesAssumption
<1> QED BY <1>1, SizesAssumption
     DEF WD!Init, DrawInv, WD!TypeOK, WD!FairShare

\* Sum, draw and walk: what the walk has taken off the draw is the sum of the
\* bandwidths it has passed, and the draw is below the sum of all.
LEMMA DrawStep == DrawInv /\ [WD!Next]_wdVars => DrawInv'
<1> SUFFICES ASSUME DrawInv, [WD!Next]_wdVars PROVE DrawInv'
  OBVIOUS
<1> DEFINE N == Len(wdBandwidths)
<1>1. /\ wdBandwidths \in Seq(1 .. Limit - 1) /\ wdBandwidths \in Seq(Nat)
      /\ N \in Nat /\ wdI \in 1 .. N + 1 /\ Limit \in Nat \ {0}
      /\ wdTotal \in 0 .. Limit - 1 /\ wdDrawn \in 0 .. Limit - 1
      /\ wdWeight \in 0 .. Limit - 1
      /\ \A k \in 1 .. N : wdBandwidths[k] \in 1 .. Limit - 1
  BY SizesAssumption DEF DrawInv, WD!TypeOK
<1>2. /\ WD!SumTo(0) = 0
      /\ \A n \in 0 .. N : WD!SumTo(n) \in Nat
      /\ \A n \in 1 .. N : WD!SumTo(n) = WD!SumTo(n - 1) + wdBandwidths[n]
  BY <1>1, SumIs
<1>3. wdBandwidths' = wdBandwidths =>
        /\ WD!SumTo(wdI - 1)' = WD!SumTo(wdI' - 1)
        /\ WD!SumTo(wdI)' = WD!SumTo(wdI')
        /\ WD!SumTo(Len(wdBandwidths))' = WD!SumTo(Len(wdBandwidths))
  BY Zenon DEF WD!SumTo, WD!FoldLeft, WD!MapThenFoldSet
<1>4. CASE WD!Sum
  <2>1. CASE wdBandwidths = <<>>
    BY <1>1, <1>3, <1>4, <2>1 DEF WD!Sum, DrawInv, WD!TypeOK, WD!FairShare
  <2>2. CASE wdBandwidths # <<>>
    <3>1. PICK sum \in Nat : sum = WD!SumTo(N)
      BY <1>1, <1>2
    <3>2. \/ wdTotal' = sum % Limit /\ wdPc' = "draw"
          \/ sum >= Limit /\ wdPc' = "panic" /\ UNCHANGED wdTotal
      BY <1>4, <2>2, <3>1 DEF WD!Sum
    <3>3. sum % Limit \in 0 .. Limit - 1 /\ sum % Limit <= sum
          /\ (sum < Limit => sum % Limit = sum)
      BY <1>1, <3>1, Remainder
    <3>4. UNCHANGED <<wdBandwidths, wdDrawn, wdWeight, wdI>> /\ wdPc = "sum"
      BY <1>4 DEF WD!Sum
    <3>5. WD!SumTo(Len(wdBandwidths))' = sum
      BY <1>3, <3>1, <3>4
    <3>6. WD!TypeOK'
      BY <1>1, <3>2, <3>3, <3>4 DEF DrawInv, WD!TypeOK
    <3>7. WD!FairShare'
      BY <1>1, <3>2, <3>3, <3>4, <3>5 DEF DrawInv, WD!FairShare
    <3> QED BY <1>1, <2>2, <3>2, <3>3, <3>4, <3>5, <3>6, <3>7 DEF DrawInv
  <2> QED BY <2>1, <2>2
<1>5. CASE WD!DrawAny
  <2>1. wdPc' = "index" /\ wdI' \in 1 .. N /\ wdTotal = 0
        /\ UNCHANGED <<wdBandwidths, wdTotal, wdDrawn, wdWeight>>
    BY <1>5 DEF WD!DrawAny
  <2> QED BY <1>1, <2>1 DEF DrawInv, WD!TypeOK, WD!FairShare
<1>6. CASE WD!DrawWeight
  <2>1. wdPc' = "walk" /\ wdPc = "draw" /\ wdDrawn' \in 0 .. wdTotal - 1
        /\ wdWeight' = wdDrawn' /\ UNCHANGED <<wdBandwidths, wdTotal, wdI>>
    BY <1>6 DEF WD!DrawWeight
  <2>2. wdI = 1 /\ N > 0 /\ wdTotal <= WD!SumTo(N)
    BY <1>1, <2>1 DEF DrawInv
  <2>3. WD!SumTo(wdI - 1)' = 0
        /\ WD!SumTo(Len(wdBandwidths))' = WD!SumTo(N)
    BY <1>2, <1>3, <2>1, <2>2
  <2>4. WD!SumTo(N) \in Nat
    BY <1>1, <1>2
  <2> QED BY <1>1, <2>1, <2>2, <2>3, <2>4
       DEF DrawInv, WD!TypeOK, WD!FairShare
<1>7. CASE WD!Walk
  <2>1. /\ wdPc = "walk" /\ wdI \in 1 .. N
        /\ UNCHANGED <<wdBandwidths, wdTotal, wdDrawn>>
    BY <1>1, <1>7 DEF WD!Walk
  <2>2. /\ wdDrawn = WD!SumTo(wdI - 1) + wdWeight
        /\ wdDrawn < WD!SumTo(N)
    BY <2>1 DEF DrawInv
  <2>3. /\ WD!SumTo(wdI) = WD!SumTo(wdI - 1) + wdBandwidths[wdI]
        /\ WD!SumTo(wdI) \in Nat /\ WD!SumTo(wdI - 1) \in Nat
        /\ wdBandwidths[wdI] \in 1 .. Limit - 1
    BY <1>1, <1>2, <2>1
  <2>4. CASE /\ wdWeight < wdBandwidths[wdI]
             /\ wdPc' = "index" /\ UNCHANGED <<wdWeight, wdI>>
    <3>1. WD!SumTo(wdI - 1)' = WD!SumTo(wdI - 1)
          /\ WD!SumTo(wdI)' = WD!SumTo(wdI)
      BY <1>3, <2>1, <2>4
    <3>2. WD!TypeOK'
      BY <1>1, <2>1, <2>4 DEF WD!TypeOK
    <3>3. WD!FairShare'
      BY <1>1, <2>1, <2>2, <2>3, <2>4, <3>1, SMTT(30) DEF WD!FairShare
    <3> QED BY <2>4, <3>2, <3>3 DEF DrawInv
  <2>5. CASE /\ wdWeight >= wdBandwidths[wdI]
             /\ wdWeight' = wdWeight - wdBandwidths[wdI]
             /\ wdI' = wdI + 1 /\ UNCHANGED wdPc
    <3>1. wdI # N
      BY <1>1, <2>1, <2>2, <2>3, <2>5, SMTT(30)
    <3>2. wdI' - 1 = wdI /\ wdI' \in 1 .. N
      BY <1>1, <2>1, <2>5, <3>1
    <3>3. WD!SumTo(wdI - 1)' = WD!SumTo(wdI)
          /\ WD!SumTo(Len(wdBandwidths))' = WD!SumTo(N)
      BY <1>3, <2>1, <3>2
    <3>4. wdDrawn' = WD!SumTo(wdI) + wdWeight'
      BY <1>1, <2>1, <2>2, <2>3, <2>5, SMTT(30)
    <3>5. WD!TypeOK'
      <4>1. wdWeight' \in 0 .. Limit - 1
        <5>1. PICK b : b = wdBandwidths[wdI]
          OBVIOUS
        <5>2. /\ wdWeight \in 0 .. Limit - 1 /\ Limit \in Nat
              /\ b \in 1 .. Limit - 1
          BY <1>1, <2>3, <5>1
        <5>3. wdWeight >= b /\ wdWeight' = wdWeight - b
          BY <2>5, <5>1
        <5> QED BY ONLY <5>2, <5>3
      <4>2. wdI' \in 1 .. Len(wdBandwidths') + 1
        BY <1>1, <2>1, <3>2
      <4> QED BY <1>1, <2>1, <2>5, <4>1, <4>2 DEF WD!TypeOK
    <3>6. WD!FairShare'
      BY <2>1, <2>5, <3>2 DEF WD!FairShare
    <3> QED BY <2>1, <2>2, <2>5, <3>3, <3>4, <3>5, <3>6 DEF DrawInv
  <2> QED BY <1>7, <2>4, <2>5 DEF WD!Walk
<1>8. CASE UNCHANGED wdVars
  <2>1. UNCHANGED <<wdBandwidths, wdPc, wdTotal, wdDrawn, wdWeight, wdI>>
    BY <1>8 DEF wdVars
  <2>2. /\ WD!SumTo(wdI - 1)' = WD!SumTo(wdI - 1)
        /\ WD!SumTo(wdI)' = WD!SumTo(wdI)
        /\ WD!SumTo(Len(wdBandwidths))' = WD!SumTo(N)
    BY <1>3, <2>1
  <2> QED BY <2>1, <2>2 DEF DrawInv, WD!TypeOK, WD!FairShare
<1> QED BY <1>4, <1>5, <1>6, <1>7, <1>8 DEF WD!Next
-----------------------------------------------------------------------------
(* The cells.                                                              *)

\* The place of byte j of cell i on a stream, and the length of n cells.
Place(i, j) == (i - 1) * CC!CellSize + j
Total(n) == n * CC!CellSize

LEMMA CellSizeIs ==
  /\ CC!CellSize \in Nat \ {0} /\ CC!CellSize = 4 + MaxPayload
BY SizesAssumption DEF CC!CellSize, CC!HeaderSize

LEMMA Product ==
  ASSUME NEW m \in Nat, NEW n \in Nat, m <= n, NEW k \in Nat
  PROVE  m * k \in Nat /\ n * k \in Nat /\ m * k <= n * k
OBVIOUS

\* The places of two cells are a cell apart.
LEMMA PlaceIs ==
  ASSUME NEW i \in Nat \ {0}, NEW j \in 1 .. CC!CellSize
  PROVE  /\ Place(i, j) \in Nat \ {0}
         /\ Place(1, j) = j
         /\ Place(i + 1, j) = Place(i, j) + CC!CellSize
<1>1. PICK k \in Nat \ {0} : CC!CellSize = k
  BY CellSizeIs
<1>2. PICK a \in Nat : a = (i - 1) * k
  <2>1. i - 1 \in Nat
    OBVIOUS
  <2> QED BY <1>1, <2>1
<1>3. ((i + 1) - 1) * k = a + k /\ (1 - 1) * k = 0
  BY <1>1, <1>2
<1> QED BY <1>1, <1>2, <1>3 DEF Place

\* One more cell.
LEMMA TotalIs ==
  ASSUME NEW n \in Nat
  PROVE  /\ Total(n) \in Nat /\ Total(0) = 0
         /\ Total(n + 1) = Total(n) + CC!CellSize
         /\ \A j \in 1 .. CC!CellSize : Place(n + 1, j) = Total(n) + j
         /\ \A i \in 1 .. n : \A j \in 1 .. CC!CellSize :
              Place(i, j) <= Total(n)
<1>1. PICK k \in Nat \ {0} : CC!CellSize = k
  BY CellSizeIs
<1>2. PICK a \in Nat : a = n * k
  BY <1>1
<1>3. (n + 1) * k = a + k /\ 0 * k = 0 /\ (n + 1) - 1 = n
  BY <1>1, <1>2
<1>4. ASSUME NEW i \in 1 .. n, NEW j \in 1 .. k
      PROVE  (i - 1) * k + j <= a
  <2>1. i - 1 \in Nat /\ n - 1 \in Nat /\ i - 1 <= n - 1
    OBVIOUS
  <2>2. (i - 1) * k \in Nat /\ (n - 1) * k \in Nat
        /\ (i - 1) * k <= (n - 1) * k
    BY <1>1, <2>1, Product
  <2>3. (n - 1) * k = a - k
    BY <1>1, <1>2
  <2> QED BY <1>1, <1>2, <2>2, <2>3
<1> QED BY <1>1, <1>2, <1>3, <1>4 DEF Place, Total

\* What a concatenation holds.
LEMMA ConcatIs ==
  ASSUME NEW S, NEW s \in Seq(S), NEW t \in Seq(S)
  PROVE  /\ s \o t \in Seq(S) /\ Len(s \o t) = Len(s) + Len(t)
         /\ \A k \in 1 .. Len(s) : (s \o t)[k] = s[k]
         /\ \A k \in 1 .. Len(t) : (s \o t)[Len(s) + k] = t[k]
<1>1. s \o t \in Seq(S)
  OBVIOUS
<1>2. Len(s \o t) = Len(s) + Len(t)
  OBVIOUS
<1>3. \A k \in 1 .. Len(s) : (s \o t)[k] = s[k]
  OBVIOUS
<1>4. \A k \in 1 .. Len(t) : (s \o t)[Len(s) + k] = t[k]
  OBVIOUS
<1> QED BY <1>1, <1>2, <1>3, <1>4

\* What is left of a sequence without its head.
LEMMA HeadTailIs ==
  ASSUME NEW S, NEW t \in Seq(S), t # <<>>
  PROVE  /\ Head(t) \in S /\ Tail(t) \in Seq(S)
         /\ Len(t) \in Nat \ {0} /\ Len(Tail(t)) = Len(t) - 1
         /\ Head(t) = t[1] /\ \A k \in 1 .. Len(t) - 1 : Tail(t)[k] = t[k + 1]
<1>1. Len(t) \in Nat \ {0} /\ Head(t) = t[1] /\ Head(t) \in S
  OBVIOUS
<1>2. Tail(t) \in Seq(S) /\ Len(Tail(t)) = Len(t) - 1
  OBVIOUS
<1>3. \A k \in 1 .. Len(t) - 1 : Tail(t)[k] = t[k + 1]
  BY <1>1, <1>2
<1> QED BY <1>1, <1>2, <1>3

\* A byte passes from the head of a sequence to the end of the one before.
LEMMA PassOn ==
  ASSUME NEW S, NEW s \in Seq(S), NEW t \in Seq(S), t # <<>>
  PROVE  Append(s, Head(t)) \o Tail(t) = s \o t
<1> DEFINE h == Append(s, Head(t))
           u == Tail(t)
           l == h \o u
           r == s \o t
<1>1. /\ Head(t) \in S /\ u \in Seq(S)
      /\ Len(t) \in Nat \ {0} /\ Len(u) = Len(t) - 1
      /\ Head(t) = t[1] /\ \A k \in 1 .. Len(t) - 1 : u[k] = t[k + 1]
  BY HeadTailIs
<1> HIDE DEF u
<1>2. /\ h \in Seq(S) /\ Len(h) = Len(s) + 1 /\ h[Len(s) + 1] = t[1]
      /\ \A k \in 1 .. Len(s) : h[k] = s[k]
  BY <1>1
<1> HIDE DEF h
<1>3. /\ l \in Seq(S) /\ Len(l) = Len(h) + Len(u)
      /\ \A k \in 1 .. Len(h) : l[k] = h[k]
      /\ \A k \in 1 .. Len(u) : l[Len(h) + k] = u[k]
  <2>1. h \in Seq(S) /\ u \in Seq(S)
    BY <1>1, <1>2
  <2> QED BY ONLY <2>1, ConcatIs
<1>4. /\ r \in Seq(S) /\ Len(r) = Len(s) + Len(t)
      /\ \A k \in 1 .. Len(s) : r[k] = s[k]
      /\ \A k \in 1 .. Len(t) : r[Len(s) + k] = t[k]
  BY ConcatIs
<1> HIDE DEF l, r
<1>5. Len(s) \in Nat
  OBVIOUS
<1>6. ASSUME NEW k \in 1 .. Len(r) PROVE l[k] = r[k]
  <2>1. CASE k <= Len(s)
    BY <1>1, <1>2, <1>3, <1>4, <1>5, <2>1
  <2>2. CASE k = Len(s) + 1
    <3>1. r[Len(s) + 1] = t[1]
      BY <1>1, <1>4
    <3> QED BY <1>1, <1>2, <1>3, <1>5, <2>2, <3>1
  <2>3. CASE k > Len(s) + 1
    <3>1. PICK i \in 1 .. Len(u) : k = Len(h) + i
      <4>1. k - Len(h) \in 1 .. Len(u) /\ k = Len(h) + (k - Len(h))
        BY <1>1, <1>2, <1>4, <1>5, <2>3
      <4> QED BY <4>1
    <3>2. k = Len(s) + (i + 1) /\ i + 1 \in 1 .. Len(t)
      BY <1>1, <1>2, <1>5, <3>1
    <3>3. l[k] = u[i] /\ u[i] = t[i + 1]
      BY <1>1, <1>3, <3>1
    <3> QED BY <1>4, <3>2, <3>3
  <2> QED BY <1>1, <1>4, <1>5, <2>1, <2>2, <2>3
<1>7. Len(l) = Len(r)
  BY <1>1, <1>2, <1>3, <1>4, <1>5
<1>8. l = r
  BY <1>3, <1>4, <1>6, <1>7, SameSeq
<1> QED BY <1>8 DEF l, r, h, u

\* A byte at the end of the second part is one at the end of the whole.
LEMMA AppendLast ==
  ASSUME NEW S, NEW s \in Seq(S), NEW t \in Seq(S), NEW x \in S
  PROVE  s \o Append(t, x) = Append(s \o t, x)
<1> DEFINE a == Append(t, x)
           l == s \o a
           q == s \o t
           r == Append(q, x)
<1>1. /\ a \in Seq(S) /\ Len(a) = Len(t) + 1 /\ a[Len(t) + 1] = x
      /\ \A k \in 1 .. Len(t) : a[k] = t[k]
  OBVIOUS
<1>2. /\ q \in Seq(S) /\ Len(q) = Len(s) + Len(t)
      /\ \A k \in 1 .. Len(s) : q[k] = s[k]
      /\ \A k \in 1 .. Len(t) : q[Len(s) + k] = t[k]
  BY ConcatIs
<1> HIDE DEF a, q
<1>3. /\ l \in Seq(S) /\ Len(l) = Len(s) + Len(a)
      /\ \A k \in 1 .. Len(s) : l[k] = s[k]
      /\ \A k \in 1 .. Len(a) : l[Len(s) + k] = a[k]
  <2>1. s \in Seq(S) /\ a \in Seq(S)
    BY <1>1
  <2> QED BY ONLY <2>1, ConcatIs
<1>4. /\ r \in Seq(S) /\ Len(r) = Len(q) + 1 /\ r[Len(q) + 1] = x
      /\ \A k \in 1 .. Len(q) : r[k] = q[k]
  BY <1>2
<1>5. Len(s) \in Nat /\ Len(t) \in Nat
  OBVIOUS
<1> HIDE DEF l, r
<1>6. ASSUME NEW k \in 1 .. Len(r) PROVE l[k] = r[k]
  <2>1. CASE k <= Len(s)
    BY <1>2, <1>3, <1>4, <1>5, <2>1
  <2>2. CASE ~(k <= Len(s))
    <3>1. PICK i \in 1 .. Len(a) : k = Len(s) + i
      <4>1. k - Len(s) \in 1 .. Len(a) /\ k = Len(s) + (k - Len(s))
        BY <1>1, <1>2, <1>4, <1>5, <2>2
      <4> QED BY <4>1
    <3>2. l[k] = a[i]
      BY <1>3, <3>1
    <3>3. CASE i = Len(t) + 1
      BY <1>1, <1>2, <1>4, <1>5, <3>1, <3>2, <3>3
    <3>4. CASE i # Len(t) + 1
      <4>1. i \in 1 .. Len(t) /\ k \in 1 .. Len(q)
        BY <1>1, <1>2, <1>5, <3>1, <3>4
      <4> QED BY <1>1, <1>2, <1>4, <3>1, <3>2, <4>1
    <3> QED BY <3>3, <3>4
  <2> QED BY <2>1, <2>2
<1>7. Len(l) = Len(r)
  BY <1>1, <1>2, <1>3, <1>4, <1>5
<1>8. l = r
  BY <1>3, <1>4, <1>6, <1>7, SameSeq
<1> QED BY <1>8 DEF l, r, q, a

\* The bytes on their way from a write to a read: what the reader has of a
\* cell, what is under way, what the writer has left.
Stream(b, w, o) == (b \o w) \o o

\* s is b, w and o, one after the other.
Joined(s, b, w, o) ==
  /\ s \in Seq(Nat) /\ Len(s) = Len(b) + Len(w) + Len(o)
  /\ \A k \in 1 .. Len(b) : s[k] = b[k]
  /\ \A k \in 1 .. Len(w) : s[Len(b) + k] = w[k]
  /\ \A k \in 1 .. Len(o) : s[Len(b) + Len(w) + k] = o[k]

\* What the stream holds.
LEMMA StreamIs ==
  ASSUME NEW b \in Seq(Nat), NEW w \in Seq(Nat), NEW o \in Seq(Nat)
  PROVE  Joined(Stream(b, w, o), b, w, o)
<1> DEFINE q == b \o w
           s == q \o o
<1>1. /\ q \in Seq(Nat) /\ Len(q) = Len(b) + Len(w)
      /\ \A k \in 1 .. Len(b) : q[k] = b[k]
      /\ \A k \in 1 .. Len(w) : q[Len(b) + k] = w[k]
  BY ONLY ConcatIs
<1> HIDE DEF q
<1>2. /\ s \in Seq(Nat) /\ Len(s) = Len(q) + Len(o)
      /\ \A k \in 1 .. Len(q) : s[k] = q[k]
      /\ \A k \in 1 .. Len(o) : s[Len(q) + k] = o[k]
  <2>1. q \in Seq(Nat) /\ o \in Seq(Nat)
    BY <1>1
  <2> QED BY ONLY <2>1, ConcatIs
<1> HIDE DEF s
<1>3. Len(b) \in Nat /\ Len(w) \in Nat
  OBVIOUS
<1>4. \A k \in 1 .. Len(b) : s[k] = b[k]
  BY <1>1, <1>2, <1>3
<1>5. ASSUME NEW k \in 1 .. Len(w) PROVE s[Len(b) + k] = w[k]
  <2>1. Len(b) + k \in 1 .. Len(q)
    BY <1>1, <1>3
  <2> QED BY <1>1, <1>2, <2>1
<1>6. /\ s \in Seq(Nat) /\ Len(s) = Len(b) + Len(w) + Len(o)
      /\ \A k \in 1 .. Len(b) : s[k] = b[k]
      /\ \A k \in 1 .. Len(w) : s[Len(b) + k] = w[k]
      /\ \A k \in 1 .. Len(o) : s[Len(b) + Len(w) + k] = o[k]
  <2>1. Len(s) = Len(b) + Len(w) + Len(o)
    BY <1>1, <1>2
  <2>2. \A k \in 1 .. Len(o) : s[Len(b) + Len(w) + k] = o[k]
    BY <1>1, <1>2
  <2> QED BY <1>2, <1>4, <1>5, <2>1, <2>2
<1>7. s = Stream(b, w, o)
  BY DEF s, q, Stream
<1> QED BY <1>6, <1>7 DEF Joined

\* write_all and read_exact move bytes along the stream.
LEMMA Transmitted ==
  ASSUME NEW S, NEW b \in Seq(S), NEW w \in Seq(S), NEW o \in Seq(S),
         o # <<>>
  PROVE  Stream(b, Append(w, Head(o)), Tail(o)) = Stream(b, w, o)
<1>1. Head(o) \in S
  BY HeadTailIs
<1>2. b \o Append(w, Head(o)) = Append(b \o w, Head(o))
  BY <1>1, AppendLast
<1> DEFINE q == b \o w
<1>3. q \in Seq(S)
  OBVIOUS
<1> HIDE DEF q
<1>4. Append(q, Head(o)) \o Tail(o) = q \o o
  BY <1>3, PassOn
<1> QED BY <1>2, <1>4 DEF q, Stream

LEMMA Received ==
  ASSUME NEW S, NEW b \in Seq(S), NEW w \in Seq(S), NEW o \in Seq(S),
         w # <<>>
  PROVE  Stream(Append(b, Head(w)), Tail(w), o) = Stream(b, w, o)
<1>1. Append(b, Head(w)) \o Tail(w) = b \o w
  BY PassOn
<1> QED BY <1>1 DEF Stream

\* Byte j of the cell of message m is b.
ByteOf(m, j, b) ==
  /\ j = 1 => b = CC!CellSize
  /\ j = 2 => b = m.circuit
  /\ j = 3 => b = m.command
  /\ j = 4 => b = Len(m.data)
  /\ \A d \in 1 .. Len(m.data) : j = 4 + d => b = m.data[d]

\* c is a cell of m.
CellOf(m, c) ==
  /\ c \in Seq(Nat) /\ Len(c) = CC!CellSize
  /\ \A j \in 1 .. CC!CellSize : ByteOf(m, j, c[j])

\* What write_to_stream takes.
Sendable(m) ==
  /\ m \in CC!Message
  /\ m.data \in Seq(Bytes) /\ Len(m.data) \in 0 .. MaxPayload

\* What a message holds.
LEMMA MessageIs ==
  ASSUME NEW m \in CC!Message
  PROVE  /\ m.circuit \in Nat
         /\ m.command \in 0 .. 5 \union 16 .. 19
         /\ m.data \in Seq(Bytes) /\ Len(m.data) \in Nat
         /\ m = [circuit |-> m.circuit, command |-> m.command,
                 data |-> m.data]
<1>1. /\ m.circuit \in CircuitIds /\ m.command \in Sent
      /\ m.data \in CC!BoundedSeq(Bytes, MaxPayload + 1)
      /\ m = [circuit |-> m.circuit, command |-> m.command,
              data |-> m.data]
  BY DEF CC!Message
<1>2. PICK l \in 0 .. MaxPayload + 1 : m.data \in [1 .. l -> Bytes]
  BY <1>1 DEF CC!BoundedSeq, CC!SeqOf
<1>3. m.data \in Seq(Bytes)
  BY <1>2, SizesAssumption
<1> QED BY <1>1, <1>3, SizesAssumption, SMTT(30)

\* to_bytes makes a cell of the message, whatever the padding.
LEMMA ToBytesIs ==
  ASSUME NEW m \in CC!Message, Len(m.data) <= MaxPayload,
         NEW padding \in CC!TupleOf(Bytes, MaxPayload - Len(m.data))
  PROVE  Sendable(m) /\ CellOf(m, CC!ToBytes(m, padding))
<1>1. /\ m.circuit \in Nat /\ m.command \in Nat
      /\ m.data \in Seq(Bytes) /\ Len(m.data) \in 0 .. MaxPayload
  BY MessageIs
<1>2. padding \in Seq(Bytes) /\ Len(padding) = MaxPayload - Len(m.data)
  <2>1. padding \in [1 .. MaxPayload - Len(m.data) -> Bytes]
    BY DEF CC!TupleOf
  <2>2. PICK k \in Nat : k = MaxPayload - Len(m.data)
    <3>1. MaxPayload - Len(m.data) \in Nat
      BY <1>1, SizesAssumption
    <3> QED BY <3>1
  <2>3. padding \in [1 .. k -> Bytes]
    BY <2>1, <2>2
  <2> QED BY <2>2, <2>3
<1> DEFINE h == <<CC!CellSize, m.circuit, m.command, Len(m.data)>>
           q == m.data \o padding
           p == SubSeq(q, 1, MaxPayload)
           c == h \o p
<1>3. /\ q \in Seq(Bytes) /\ Len(q) = MaxPayload
      /\ \A d \in 1 .. Len(m.data) : q[d] = m.data[d]
  <2>1. /\ q \in Seq(Bytes) /\ Len(q) = Len(m.data) + Len(padding)
        /\ \A d \in 1 .. Len(m.data) : q[d] = m.data[d]
    BY ONLY <1>1, <1>2, ConcatIs
  <2> QED BY <1>1, <1>2, <2>1, SizesAssumption
<1> HIDE DEF q
<1>4. /\ p \in Seq(Nat) /\ Len(p) = MaxPayload
      /\ \A d \in 1 .. MaxPayload : p[d] = q[d]
  <2>1. p \in Seq(Bytes) /\ Len(p) = MaxPayload
    BY <1>3, SizesAssumption
  <2>2. \A d \in 1 .. MaxPayload : p[d] = q[d]
    BY <1>3, SizesAssumption
  <2>3. Bytes \subseteq Nat
    BY SizesAssumption
  <2>4. p \in Seq(Nat)
    BY <2>1, <2>3, WiderSeq
  <2> QED BY <2>1, <2>2, <2>4
<1> HIDE DEF p
<1>5. /\ h \in Seq(Nat) /\ Len(h) = 4
      /\ h[1] = CC!CellSize /\ h[2] = m.circuit
      /\ h[3] = m.command /\ h[4] = Len(m.data)
  BY <1>1, CellSizeIs
<1> HIDE DEF h
<1>6. /\ c \in Seq(Nat) /\ Len(c) = Len(h) + Len(p)
      /\ \A k \in 1 .. Len(h) : c[k] = h[k]
      /\ \A k \in 1 .. Len(p) : c[Len(h) + k] = p[k]
  <2>1. h \in Seq(Nat) /\ p \in Seq(Nat)
    BY <1>4, <1>5
  <2> QED BY ONLY <2>1, ConcatIs
<1>7. c = CC!ToBytes(m, padding)
  BY DEF c, h, p, q, CC!ToBytes
<1> HIDE DEF c
<1>8. ASSUME NEW d \in 1 .. Len(m.data) PROVE c[4 + d] = m.data[d]
  <2>1. d \in 1 .. Len(p)
    BY <1>1, <1>4
  <2> QED BY <1>3, <1>4, <1>5, <1>6, <2>1
<1>9. Len(c) = CC!CellSize /\ c[1] = h[1] /\ c[2] = h[2]
      /\ c[3] = h[3] /\ c[4] = h[4]
  BY <1>4, <1>5, <1>6, CellSizeIs, SMTT(30)
<1>10. CellOf(m, c)
  BY <1>5, <1>6, <1>8, <1>9 DEF CellOf, ByteOf
<1> QED BY <1>1, <1>7, <1>10 DEF Sendable

\* from_bytes takes it, and nothing of the padding.
LEMMA FromBytesIs ==
  ASSUME NEW m, Sendable(m), NEW b, CellOf(m, b)
  PROVE  ~CC!Malformed(b) /\ CC!FromBytes(b) = m
<1>1. /\ m.command \in 0 .. 5 \union 16 .. 19
      /\ m.data \in Seq(Bytes) /\ Len(m.data) \in 0 .. MaxPayload
      /\ m = [circuit |-> m.circuit, command |-> m.command,
              data |-> m.data]
  BY MessageIs DEF Sendable
<1>2. PICK n \in 0 .. MaxPayload : n = Len(m.data)
  BY <1>1
<1>3. n \in Nat /\ MaxPayload \in Nat /\ CC!CellSize = 4 + MaxPayload
  BY CellSizeIs, SizesAssumption
<1>4. b \in Seq(Nat) /\ Len(b) = 4 + MaxPayload
  BY CellSizeIs DEF CellOf
<1>5. \A j \in 1 .. 4 + MaxPayload : ByteOf(m, j, b[j])
  BY <1>3 DEF CellOf
<1>6. b[1] = 4 + MaxPayload /\ b[2] = m.circuit /\ b[3] = m.command
      /\ b[4] = n
  <2>1. 1 \in 1 .. 4 + MaxPayload /\ 2 \in 1 .. 4 + MaxPayload
        /\ 3 \in 1 .. 4 + MaxPayload /\ 4 \in 1 .. 4 + MaxPayload
    BY <1>3
  <2> QED BY <1>2, <1>3, <1>5, <2>1 DEF ByteOf
<1>7. ASSUME NEW d \in 1 .. n PROVE b[4 + d] = m.data[d]
  <2>1. 4 + d \in 1 .. 4 + MaxPayload
    BY <1>2, <1>3
  <2> QED BY <1>2, <1>5, <2>1 DEF ByteOf
<1> DEFINE t == SubSeq(b, 5, 4 + n)
<1>8. t \in Seq(Nat) /\ Len(t) = n
  BY <1>2, <1>3, <1>4
<1>9. \A d \in 1 .. n : t[d] = b[4 + d]
  BY <1>2, <1>3, <1>4
<1>10. CC!Data(b) = t
  BY <1>6 DEF CC!Data, CC!HeaderSize
<1> HIDE DEF t
<1>11. m.data \in Seq(Nat)
  BY <1>1, SizesAssumption, SMTT(30)
<1>12. t = m.data
  BY <1>2, <1>7, <1>8, <1>9, <1>11, SameSeq
<1>13. ~CC!Malformed(b)
  BY <1>1, <1>3, <1>6 DEF CC!Malformed, CC!MessageCommand
<1> QED BY <1>1, <1>6, <1>10, <1>12, <1>13 DEF CC!FromBytes

\* Stream s carries the cells of the messages of `all` after the first n, in
\* order, or the start of them.
Carries(s, all, n) ==
  /\ Len(s) <= Total(Len(all) - n)
  /\ \A i \in 1 .. Len(all) - n : \A j \in 1 .. CC!CellSize :
       Place(i, j) <= Len(s) => ByteOf(all[n + i], j, s[Place(i, j)])

\* The start of a stream.
LEMMA CarriesStart ==
  ASSUME NEW s \in Seq(Nat), NEW t \in Seq(Nat), Len(t) <= Len(s),
         \A k \in 1 .. Len(t) : t[k] = s[k],
         NEW all, Len(all) \in Nat, NEW n \in 0 .. Len(all),
         Carries(s, all, n)
  PROVE  Carries(t, all, n)
<1>1. Len(all) - n \in Nat
  OBVIOUS
<1>2. Total(Len(all) - n) \in Nat
  BY <1>1, TotalIs
<1>3. Len(t) <= Total(Len(all) - n)
  BY <1>2 DEF Carries
<1>4. ASSUME NEW i \in 1 .. Len(all) - n, NEW j \in 1 .. CC!CellSize,
             Place(i, j) <= Len(t)
      PROVE  ByteOf(all[n + i], j, t[Place(i, j)])
  <2>1. i \in Nat \ {0}
    OBVIOUS
  <2>2. Place(i, j) \in Nat \ {0}
    BY <2>1, PlaceIs
  <2>3. Place(i, j) <= Len(s) /\ t[Place(i, j)] = s[Place(i, j)]
    BY <1>4, <2>2, SMTT(30)
  <2> QED BY <2>3 DEF Carries
<1> QED BY <1>3, <1>4 DEF Carries

\* An empty stream.
LEMMA CarriesNothing ==
  ASSUME NEW all, Len(all) \in Nat, NEW n \in 0 .. Len(all),
         NEW s \in Seq(Nat), Len(s) = 0
  PROVE  Carries(s, all, n)
<1>1. Len(all) - n \in Nat
  OBVIOUS
<1>2. Total(Len(all) - n) \in Nat
  BY <1>1, TotalIs
<1>3. ASSUME NEW i \in 1 .. Len(all) - n, NEW j \in 1 .. CC!CellSize
      PROVE  ~(Place(i, j) <= Len(s))
  <2>1. i \in Nat \ {0}
    OBVIOUS
  <2>2. Place(i, j) \in Nat \ {0}
    BY <2>1, PlaceIs
  <2> QED BY <2>2
<1> QED BY <1>2, <1>3 DEF Carries

\* A write adds the cell of its message.
LEMMA CarriesMore ==
  ASSUME NEW s \in Seq(Nat), NEW c, NEW m, CellOf(m, c),
         NEW T, NEW all \in Seq(T), m \in T, NEW n \in 0 .. Len(all),
         Carries(s, all, n), Len(s) = Total(Len(all) - n)
  PROVE  /\ Carries(s \o c, Append(all, m), n)
         /\ Len(s \o c) = Total(Len(Append(all, m)) - n)
<1> DEFINE r == s \o c
           w == Append(all, m)
<1>1. PICK left \in Nat : left = Len(all) - n
  <2>1. Len(all) - n \in Nat
    OBVIOUS
  <2> QED BY <2>1
<1>2. c \in Seq(Nat) /\ Len(c) = CC!CellSize
  BY DEF CellOf
<1>3. /\ r \in Seq(Nat) /\ Len(r) = Len(s) + Len(c)
      /\ \A k \in 1 .. Len(s) : r[k] = s[k]
      /\ \A k \in 1 .. Len(c) : r[Len(s) + k] = c[k]
  <2>1. s \in Seq(Nat) /\ c \in Seq(Nat)
    BY <1>2
  <2> QED BY ONLY <2>1, ConcatIs
<1>4. /\ Len(w) \in Nat /\ Len(w) - n = left + 1 /\ w[Len(all) + 1] = m
      /\ \A k \in 1 .. Len(all) : w[k] = all[k]
  BY <1>1
<1> HIDE DEF r, w
<1>5. /\ Total(left) \in Nat /\ Total(left + 1) = Total(left) + CC!CellSize
      /\ \A j \in 1 .. CC!CellSize : Place(left + 1, j) = Total(left) + j
      /\ \A i \in 1 .. left : \A j \in 1 .. CC!CellSize :
           Place(i, j) <= Total(left)
  BY TotalIs
<1>6. Len(r) = Total(left + 1)
  BY <1>1, <1>2, <1>3, <1>5
<1>7. ASSUME NEW i \in 1 .. left + 1, NEW j \in 1 .. CC!CellSize
      PROVE  ByteOf(w[n + i], j, r[Place(i, j)])
  <2>1. CASE i = left + 1
    <3>1. r[Place(i, j)] = c[j]
      BY <1>1, <1>2, <1>3, <1>5, <2>1
    <3>2. w[n + i] = m
      BY <1>1, <1>4, <2>1
    <3> QED BY <3>1, <3>2 DEF CellOf
  <2>2. CASE i # left + 1
    <3>1. i \in 1 .. left
      BY <2>2
    <3>2. i \in Nat \ {0}
      OBVIOUS
    <3>3. Place(i, j) \in Nat \ {0}
      BY <3>2, PlaceIs
    <3>4. Place(i, j) \in 1 .. Len(s)
      BY <1>1, <1>5, <3>1, <3>3
    <3>5. r[Place(i, j)] = s[Place(i, j)]
      BY <1>3, <3>4
    <3>6. n + i \in 1 .. Len(all)
      BY <1>1, <3>1
    <3>7. w[n + i] = all[n + i]
      BY <1>4, <3>6
    <3>8. Place(i, j) <= Len(s)
      BY <3>3, <3>4
    <3>9. ByteOf(all[n + i], j, s[Place(i, j)])
      BY <1>1, <3>1, <3>8 DEF Carries
    <3> QED BY <3>5, <3>7, <3>9
  <2> QED BY <2>1, <2>2
<1>8. Carries(r, w, n) /\ Len(r) = Total(Len(w) - n)
  <2>1. Total(left + 1) \in Nat
    BY <1>5, CellSizeIs
  <2> QED BY <1>4, <1>6, <1>7, <2>1 DEF Carries
<1> QED BY <1>8 DEF r, w

\* s is t with cell c in front.
InFront(s, c, t) ==
  /\ Len(c) = CC!CellSize /\ Len(s) = Len(c) + Len(t)
  /\ \A k \in 1 .. Len(c) : s[k] = c[k]
  /\ \A k \in 1 .. Len(t) : s[Len(c) + k] = t[k]

CellTaken(s, c, t, all, n) ==
  /\ n + 1 \in 1 .. Len(all)
  /\ CellOf(all[n + 1], c)
  /\ Carries(t, all, n + 1)
  /\ Len(s) = Total(Len(all) - n) => Len(t) = Total(Len(all) - (n + 1))

\* from_stream takes the first cell.
LEMMA CarriesLess ==
  ASSUME NEW s \in Seq(Nat), NEW c \in Seq(Nat), NEW t \in Seq(Nat),
         InFront(s, c, t),
         NEW all, Len(all) \in Nat, NEW n \in 0 .. Len(all),
         Carries(s, all, n)
  PROVE  CellTaken(s, c, t, all, n)
<1> USE DEF InFront
<1>1. PICK left \in Nat : left = Len(all) - n
  <2>1. Len(all) - n \in Nat
    OBVIOUS
  <2> QED BY <2>1
<1>2. CC!CellSize \in Nat \ {0} /\ Len(s) <= Total(left)
  BY <1>1, CellSizeIs DEF Carries
<1>3. left # 0
  <2>1. Total(0) = 0
    BY TotalIs
  <2> QED BY <1>2, <2>1
<1>4. PICK rest \in Nat : left = rest + 1
  <2>1. left - 1 \in Nat /\ left = (left - 1) + 1
    BY <1>3
  <2> QED BY <2>1
<1>5. n + 1 \in 1 .. Len(all) /\ Len(all) - (n + 1) = rest
  BY <1>1, <1>4
<1>6. ASSUME NEW j \in 1 .. CC!CellSize PROVE ByteOf(all[n + 1], j, c[j])
  <2>1. Place(1, j) = j
    BY PlaceIs
  <2>2. j <= Len(s) /\ s[j] = c[j]
    BY <1>2
  <2>3. 1 \in 1 .. left
    BY <1>3
  <2>4. ByteOf(all[n + 1], j, s[Place(1, j)])
    BY <1>1, <2>1, <2>2, <2>3 DEF Carries
  <2> QED BY <2>1, <2>2, <2>4
<1>7. Total(rest) \in Nat /\ Total(rest + 1) = Total(rest) + CC!CellSize
  BY TotalIs
<1>8. ASSUME NEW i \in 1 .. rest, NEW j \in 1 .. CC!CellSize,
             Place(i, j) <= Len(t)
      PROVE  ByteOf(all[(n + 1) + i], j, t[Place(i, j)])
  <2>1. i \in Nat \ {0} /\ i + 1 \in 1 .. left
    BY <1>4
  <2>2. Place(i, j) \in Nat \ {0}
        /\ Place(i + 1, j) = Place(i, j) + CC!CellSize
    BY <2>1, PlaceIs
  <2>3. Place(i, j) \in 1 .. Len(t)
    BY <1>8, <2>2
  <2>4. s[Place(i + 1, j)] = t[Place(i, j)]
    <3>1. s[Len(c) + Place(i, j)] = t[Place(i, j)]
      BY <2>3
    <3>2. Len(c) + Place(i, j) = Place(i + 1, j)
      BY <1>2, <2>2
    <3> QED BY <3>1, <3>2
  <2>5. Place(i + 1, j) <= Len(s)
    BY <1>2, <2>2, <2>3
  <2>6. ByteOf(all[n + (i + 1)], j, s[Place(i + 1, j)])
    BY <1>1, <2>1, <2>5 DEF Carries
  <2>7. n + (i + 1) = (n + 1) + i
    OBVIOUS
  <2> QED BY <2>4, <2>6, <2>7
<1>9. CellOf(all[n + 1], c)
  BY <1>6 DEF CellOf
<1>10. Len(t) <= Total(rest)
  BY <1>2, <1>4, <1>7
<1>11. Carries(t, all, n + 1)
  BY <1>5, <1>8, <1>10 DEF Carries
<1>12. Len(s) = Total(left) => Len(t) = Total(rest)
  BY <1>2, <1>4, <1>7
<1> QED BY <1>1, <1>5, <1>9, <1>11, <1>12 DEF CellTaken

Sendables == {m \in CC!Message : Sendable(m)}

\* What the read half has been given of what the write half took.
ReadSoFar(ms, all) ==
  /\ Len(ms) <= Len(all)
  /\ \A i \in 1 .. Len(ms) : ms[i] = all[i]

CellsTyped ==
  /\ ccOut \in Seq(Nat) /\ ccWire \in Seq(Nat) /\ ccBuf \in Seq(Nat)
  /\ Len(ccOut) <= CC!CellSize /\ Len(ccBuf) <= CC!CellSize
  /\ ccLink \in {"up", "closed", "broken"}
  /\ ccReader \in {"reading", "eof", "gone"}
  /\ ccWritten \in Seq(Sendables) /\ Len(ccWritten) <= MaxCells
  /\ ccMessages \in Seq(Sendables)

\* The stream carries what is written and not yet read: all of it, until the
\* connection breaks or the reader leaves.
CellsInv ==
  /\ CellsTyped
  /\ ReadSoFar(ccMessages, ccWritten)
  /\ Carries(Stream(ccBuf, ccWire, ccOut), ccWritten, Len(ccMessages))
  /\ ccLink # "broken" /\ ccReader # "gone" =>
       Len(Stream(ccBuf, ccWire, ccOut))
         = Total(Len(ccWritten) - Len(ccMessages))
  /\ ccLink = "closed" => ccOut = <<>>
  /\ ccReader # "reading" => ccLink # "up"
  /\ ccReader = "eof" /\ ccLink = "closed" =>
       Len(ccMessages) = Len(ccWritten)

LEMMA CellsInit ==
  ASSUME CC!Init PROVE CellsInv
<1>1. /\ ccOut = <<>> /\ ccWire = <<>> /\ ccBuf = <<>>
      /\ ccLink = "up" /\ ccReader = "reading"
      /\ ccWritten = <<>> /\ ccMessages = <<>>
  BY DEF CC!Init
<1>2. CellsTyped
  BY <1>1, CellSizeIs, SizesAssumption DEF CellsTyped
<1>3. PICK s : s = Stream(<<>>, <<>>, <<>>)
  OBVIOUS
<1>4. s \in Seq(Nat) /\ Len(s) = 0
  <2>1. s = <<>>
    BY <1>3 DEF Stream
  <2> QED BY <2>1
<1>5. Carries(s, <<>>, 0)
  <2>1. PICK e : e = <<>>
    OBVIOUS
  <2>2. Len(e) \in Nat /\ 0 \in 0 .. Len(e)
    BY <2>1
  <2>3. Carries(s, e, 0)
    BY <1>4, <2>2, CarriesNothing
  <2> QED BY <2>1, <2>3
<1>6. Total(0) = 0
  BY TotalIs
<1> QED BY <1>1, <1>2, <1>3, <1>4, <1>5, <1>6 DEF CellsInv, ReadSoFar

\* The stream is as long as its parts.
LEMMA StreamTyped ==
  ASSUME CellsInv
  PROVE  /\ Stream(ccBuf, ccWire, ccOut) \in Seq(Nat)
         /\ Len(Stream(ccBuf, ccWire, ccOut))
              = Len(ccBuf) + Len(ccWire) + Len(ccOut)
         /\ Len(ccMessages) \in 0 .. Len(ccWritten)
         /\ Len(ccWritten) \in Nat
<1>1. ccOut \in Seq(Nat) /\ ccWire \in Seq(Nat) /\ ccBuf \in Seq(Nat)
      /\ ccWritten \in Seq(Sendables) /\ ccMessages \in Seq(Sendables)
  BY DEF CellsInv, CellsTyped
<1>2. /\ Stream(ccBuf, ccWire, ccOut) \in Seq(Nat)
      /\ Len(Stream(ccBuf, ccWire, ccOut))
           = Len(ccBuf) + Len(ccWire) + Len(ccOut)
  BY <1>1, StreamIs DEF Joined
<1>3. Len(ccMessages) <= Len(ccWritten)
  BY DEF CellsInv, ReadSoFar
<1> QED BY <1>1, <1>2, <1>3

\* write_to_stream: nothing is left of the cell before, so that the new one
\* is at the end of the stream.
LEMMA WriteStep ==
  ASSUME CellsInv, NEW m \in CC!Message,
         NEW padding \in CC!TupleOf(Bytes, MaxPayload - Len(m.data)),
         CC!Write(m, padding)
  PROVE  CellsInv'
<1>1. /\ ccLink = "up" /\ ccOut = <<>> /\ Len(ccWritten) < MaxCells
      /\ Len(m.data) <= MaxPayload
      /\ ccOut' = CC!ToBytes(m, padding)
      /\ ccWritten' = Append(ccWritten, m)
      /\ ccWire' = ccWire /\ ccLink' = ccLink /\ ccBuf' = ccBuf
      /\ ccReader' = ccReader /\ ccMessages' = ccMessages
  BY DEF CC!Write
<1>2. PICK c : c = CC!ToBytes(m, padding)
  OBVIOUS
<1>3. m \in Sendables /\ CellOf(m, c)
  BY <1>1, <1>2, ToBytesIs DEF Sendables
<1>4. PICK q : q = ccBuf \o ccWire
  OBVIOUS
<1>5. /\ ccWire \in Seq(Nat) /\ ccBuf \in Seq(Nat)
      /\ ccWritten \in Seq(Sendables) /\ ccMessages \in Seq(Sendables)
  BY DEF CellsInv, CellsTyped
<1>6. q \in Seq(Nat)
  BY <1>4, <1>5
<1>7. Stream(ccBuf, ccWire, ccOut) = q
  BY <1>1, <1>4, <1>6 DEF Stream
<1>8. Stream(ccBuf, ccWire, ccOut)' = q \o c
  BY <1>1, <1>2, <1>4 DEF Stream
<1>9. /\ Carries(q, ccWritten, Len(ccMessages))
      /\ Len(q) = Total(Len(ccWritten) - Len(ccMessages))
  BY <1>1, <1>7 DEF CellsInv
<1>10. Len(ccMessages) \in 0 .. Len(ccWritten)
  BY StreamTyped
<1>11. /\ Carries(q \o c, Append(ccWritten, m), Len(ccMessages))
       /\ Len(q \o c) = Total(Len(Append(ccWritten, m)) - Len(ccMessages))
  BY ONLY <1>3, <1>5, <1>6, <1>9, <1>10, CarriesMore
<1>12. /\ Append(ccWritten, m) \in Seq(Sendables)
       /\ Len(Append(ccWritten, m)) = Len(ccWritten) + 1
       /\ \A i \in 1 .. Len(ccWritten) : Append(ccWritten, m)[i] = ccWritten[i]
       /\ Len(ccWritten) \in Nat
  BY <1>3, <1>5
<1>13. c \in Seq(Nat) /\ Len(c) = CC!CellSize
  BY <1>3 DEF CellOf
<1>14. Len(ccWritten) + 1 <= MaxCells
  BY <1>1, <1>12, SizesAssumption
<1>15. CellsTyped'
  BY <1>1, <1>2, <1>12, <1>13, <1>14, CellSizeIs DEF CellsInv, CellsTyped
<1>16. ReadSoFar(ccMessages, Append(ccWritten, m))
  BY <1>5, <1>10, <1>12 DEF CellsInv, ReadSoFar
<1>17. ccReader = "reading"
  BY <1>1 DEF CellsInv
<1> QED BY <1>1, <1>8, <1>11, <1>15, <1>16, <1>17 DEF CellsInv

\* A step that moves bytes along.
LEMMA SameStream ==
  ASSUME CellsInv, ccWritten' = ccWritten, ccMessages' = ccMessages,
         ccReader' = ccReader, ccLink' = ccLink,
         ccLink = "closed" => ccOut' = <<>>,
         CellsTyped',
         Stream(ccBuf, ccWire, ccOut)' = Stream(ccBuf, ccWire, ccOut)
  PROVE  CellsInv'
BY DEF CellsInv, ReadSoFar

LEMMA TransmitStep ==
  ASSUME CellsInv, CC!Transmit PROVE CellsInv'
<1>1. /\ ccLink = "up" /\ ccOut # <<>>
      /\ ccWire' = Append(ccWire, Head(ccOut)) /\ ccOut' = Tail(ccOut)
      /\ ccLink' = ccLink /\ ccBuf' = ccBuf /\ ccReader' = ccReader
      /\ ccWritten' = ccWritten /\ ccMessages' = ccMessages
  BY DEF CC!Transmit
<1>2. /\ ccOut \in Seq(Nat) /\ ccWire \in Seq(Nat) /\ ccBuf \in Seq(Nat)
      /\ Len(ccOut) <= CC!CellSize
  BY DEF CellsInv, CellsTyped
<1>3. /\ Head(ccOut) \in Nat /\ Tail(ccOut) \in Seq(Nat)
      /\ Len(Tail(ccOut)) = Len(ccOut) - 1 /\ Len(ccOut) \in Nat
  BY <1>1, <1>2, HeadTailIs
<1>4. Len(Tail(ccOut)) <= CC!CellSize
  BY <1>2, <1>3, CellSizeIs
<1>5. Append(ccWire, Head(ccOut)) \in Seq(Nat)
  BY <1>2, <1>3
<1>6. CellsTyped'
  BY <1>1, <1>3, <1>4, <1>5 DEF CellsInv, CellsTyped
<1>7. Stream(ccBuf, Append(ccWire, Head(ccOut)), Tail(ccOut))
        = Stream(ccBuf, ccWire, ccOut)
  BY <1>1, <1>2, Transmitted
<1>8. Stream(ccBuf, ccWire, ccOut)' = Stream(ccBuf, ccWire, ccOut)
  BY <1>1, <1>7 DEF Stream
<1>9. ccLink # "closed"
  BY <1>1
<1> QED BY <1>1, <1>6, <1>8, <1>9, SameStream

LEMMA ReceiveStep ==
  ASSUME CellsInv, CC!Receive PROVE CellsInv'
<1>1. /\ Len(ccBuf) < CC!CellSize /\ ccWire # <<>>
      /\ ccBuf' = Append(ccBuf, Head(ccWire)) /\ ccWire' = Tail(ccWire)
      /\ ccOut' = ccOut /\ ccLink' = ccLink /\ ccReader' = ccReader
      /\ ccWritten' = ccWritten /\ ccMessages' = ccMessages
  BY DEF CC!Receive
<1>2. ccOut \in Seq(Nat) /\ ccWire \in Seq(Nat) /\ ccBuf \in Seq(Nat)
  BY DEF CellsInv, CellsTyped
<1>3. Head(ccWire) \in Nat /\ Tail(ccWire) \in Seq(Nat)
  BY <1>1, <1>2, HeadTailIs
<1>4. /\ Append(ccBuf, Head(ccWire)) \in Seq(Nat)
      /\ Len(Append(ccBuf, Head(ccWire))) = Len(ccBuf) + 1
      /\ Len(ccBuf) \in Nat
  BY <1>2, <1>3
<1>5. Len(ccBuf) + 1 <= CC!CellSize
  BY <1>1, <1>4, CellSizeIs
<1>6. CellsTyped'
  BY <1>1, <1>3, <1>4, <1>5 DEF CellsInv, CellsTyped
<1>7. Stream(Append(ccBuf, Head(ccWire)), Tail(ccWire), ccOut)
        = Stream(ccBuf, ccWire, ccOut)
  BY <1>1, <1>2, Received
<1>8. Stream(ccBuf, ccWire, ccOut)' = Stream(ccBuf, ccWire, ccOut)
  BY <1>1, <1>7 DEF Stream
<1>9. ccLink = "closed" => ccOut' = <<>>
  BY <1>1 DEF CellsInv
<1> QED BY <1>1, <1>6, <1>8, <1>9, SameStream

LEMMA CloseStep ==
  ASSUME CellsInv, CC!Close PROVE CellsInv'
<1>1. /\ ccLink = "up" /\ ccOut = <<>> /\ ccLink' = "closed"
      /\ ccOut' = ccOut /\ ccWire' = ccWire /\ ccBuf' = ccBuf
      /\ ccReader' = ccReader
      /\ ccWritten' = ccWritten /\ ccMessages' = ccMessages
  BY DEF CC!Close
<1>2. ccReader = "reading"
  BY <1>1 DEF CellsInv
<1>3. Stream(ccBuf, ccWire, ccOut)' = Stream(ccBuf, ccWire, ccOut)
  BY <1>1 DEF Stream
<1>4. CellsTyped'
  BY <1>1 DEF CellsInv, CellsTyped
<1>5. ccLink # "broken" /\ ccReader # "gone"
  BY <1>1, <1>2
<1> QED BY <1>1, <1>2, <1>3, <1>4, <1>5 DEF CellsInv, ReadSoFar

\* What is left when the transport loses bytes.
LEMMA LessLeft ==
  ASSUME CellsInv, ccWritten' = ccWritten, ccMessages' = ccMessages,
         ccLink' = "broken" \/ ccReader' = "gone",
         ccReader' # "reading" => ccLink' # "up",
         ccReader' # "eof" \/ ccLink' = "broken",
         ccOut' = <<>>, CellsTyped',
         Len(ccBuf') + Len(ccWire') <= Len(ccBuf) + Len(ccWire),
         \A k \in 1 .. Len(ccBuf') + Len(ccWire') :
           (ccBuf' \o ccWire')[k] = Stream(ccBuf, ccWire, ccOut)[k]
  PROVE  CellsInv'
<1>1. PICK t : t = ccBuf' \o ccWire'
  OBVIOUS
<1>2. ccBuf' \in Seq(Nat) /\ ccWire' \in Seq(Nat)
  BY DEF CellsTyped
<1>3. t \in Seq(Nat) /\ Len(t) = Len(ccBuf') + Len(ccWire')
  BY <1>1, <1>2
<1>4. Stream(ccBuf, ccWire, ccOut)' = t
  <2>1. t \o <<>> = t
    BY <1>3
  <2> QED BY <1>1, <2>1 DEF Stream
<1>5. PICK s : s = Stream(ccBuf, ccWire, ccOut)
  OBVIOUS
<1>6. /\ s \in Seq(Nat) /\ Len(s) = Len(ccBuf) + Len(ccWire) + Len(ccOut)
      /\ Len(ccMessages) \in 0 .. Len(ccWritten) /\ Len(ccWritten) \in Nat
  BY <1>5, StreamTyped
<1>7. Len(ccBuf) \in Nat /\ Len(ccWire) \in Nat /\ Len(ccOut) \in Nat
  BY DEF CellsInv, CellsTyped
<1>8. Len(t) <= Len(s) /\ \A k \in 1 .. Len(t) : t[k] = s[k]
  <2>1. Len(t) <= Len(s)
    BY <1>2, <1>3, <1>6, <1>7
  <2> QED BY <1>1, <1>3, <1>5, <2>1
<1>9. Carries(s, ccWritten, Len(ccMessages))
  BY <1>5 DEF CellsInv
<1>10. Carries(t, ccWritten, Len(ccMessages))
  BY ONLY <1>3, <1>6, <1>8, <1>9, CarriesStart
<1>11. ReadSoFar(ccMessages, ccWritten)
  BY DEF CellsInv
<1> QED BY <1>4, <1>10, <1>11 DEF CellsInv

\* The connection ends: the reader may have the start of a cell.
LEMMA BreakStep ==
  ASSUME CellsInv, CC!Break PROVE CellsInv'
<1>1. /\ ccLink = "up" /\ ccLink' = "broken" /\ ccOut' = <<>>
      /\ ccWire' \in CC!Prefixes(ccWire)
      /\ ccBuf' = ccBuf /\ ccReader' = ccReader
      /\ ccWritten' = ccWritten /\ ccMessages' = ccMessages
  BY DEF CC!Break
<1>2. ccOut \in Seq(Nat) /\ ccWire \in Seq(Nat) /\ ccBuf \in Seq(Nat)
  BY DEF CellsInv, CellsTyped
<1>3. PICK l \in 0 .. Len(ccWire) : ccWire' = SubSeq(ccWire, 1, l)
  BY <1>1 DEF CC!Prefixes
<1>4. PICK p : p = SubSeq(ccWire, 1, l)
  OBVIOUS
<1>5. /\ p \in Seq(Nat) /\ Len(p) = l /\ Len(ccWire) \in Nat
      /\ l \in Nat /\ l <= Len(ccWire)
      /\ \A k \in 1 .. l : p[k] = ccWire[k]
  BY <1>2, <1>3, <1>4
<1>6. CellsTyped'
  <2>1. Len(<<>>) = 0
    OBVIOUS
  <2> QED BY <1>1, <1>3, <1>4, <1>5, <2>1, CellSizeIs DEF CellsInv, CellsTyped
<1>7. Len(ccBuf') + Len(ccWire') <= Len(ccBuf) + Len(ccWire)
  BY <1>1, <1>2, <1>3, <1>4, <1>5
<1>8. ASSUME NEW k \in 1 .. Len(ccBuf') + Len(ccWire')
      PROVE  (ccBuf' \o ccWire')[k] = Stream(ccBuf, ccWire, ccOut)[k]
  <2>1. PICK s : s = Stream(ccBuf, ccWire, ccOut)
    OBVIOUS
  <2>2. /\ \A i \in 1 .. Len(ccBuf) : s[i] = ccBuf[i]
        /\ \A i \in 1 .. Len(ccWire) : s[Len(ccBuf) + i] = ccWire[i]
    <3>1. Joined(s, ccBuf, ccWire, ccOut)
      BY <1>2, <2>1, StreamIs
    <3> QED BY <3>1 DEF Joined
  <2>3. PICK t : t = ccBuf \o p
    OBVIOUS
  <2>4. /\ \A i \in 1 .. Len(ccBuf) : t[i] = ccBuf[i]
        /\ \A i \in 1 .. Len(p) : t[Len(ccBuf) + i] = p[i]
    BY <1>2, <1>5, <2>3, ConcatIs
  <2>5. Len(ccBuf) \in Nat /\ k \in 1 .. Len(ccBuf) + l
    BY <1>1, <1>2, <1>3, <1>4, <1>5
  <2>6. t[k] = s[k]
    <3>1. CASE k <= Len(ccBuf)
      BY <2>2, <2>4, <2>5, <3>1
    <3>2. CASE ~(k <= Len(ccBuf))
      <4>1. PICK i \in 1 .. l : k = Len(ccBuf) + i
        <5>1. k - Len(ccBuf) \in 1 .. l /\ k = Len(ccBuf) + (k - Len(ccBuf))
          BY <1>5, <2>5, <3>2
        <5> QED BY <5>1
      <4>2. i \in 1 .. Len(p) /\ i \in 1 .. Len(ccWire)
        BY <1>5
      <4> QED BY <1>5, <2>2, <2>4, <4>1, <4>2
    <3> QED BY <3>1, <3>2
  <2> QED BY <1>1, <1>3, <1>4, <2>1, <2>3, <2>6
<1>9. ccReader = "reading"
  BY <1>1 DEF CellsInv
<1>10. ccLink' = "broken" \/ ccReader' = "gone"
  BY <1>1
<1>11. /\ ccReader' # "reading" => ccLink' # "up"
       /\ ccReader' # "eof" \/ ccLink' = "broken"
  BY <1>1
<1> QED BY <1>1, <1>6, <1>7, <1>8, <1>10, <1>11, LessLeft

LEMMA TimeOutStep ==
  ASSUME CellsInv, CC!TimeOut PROVE CellsInv'
<1>1. /\ ccReader' = "gone" /\ ccBuf' = <<>>
      /\ ccLink' = IF ccLink = "up" THEN "broken" ELSE ccLink
      /\ ccOut' = <<>> /\ ccWire' = <<>>
      /\ ccWritten' = ccWritten /\ ccMessages' = ccMessages
  BY DEF CC!TimeOut
<1>2. Len(<<>>) = 0
  OBVIOUS
<1>3. CellsTyped'
  BY <1>1, <1>2, CellSizeIs DEF CellsInv, CellsTyped
<1>4. Len(ccBuf) \in Nat /\ Len(ccWire) \in Nat
  BY DEF CellsInv, CellsTyped
<1>5. Len(ccBuf') + Len(ccWire') <= Len(ccBuf) + Len(ccWire)
  BY <1>1, <1>2, <1>4
<1>6. \A k \in 1 .. Len(ccBuf') + Len(ccWire') :
        (ccBuf' \o ccWire')[k] = Stream(ccBuf, ccWire, ccOut)[k]
  BY <1>1, <1>2
<1>7. /\ ccLink' = "broken" \/ ccReader' = "gone"
      /\ ccReader' # "reading" => ccLink' # "up"
      /\ ccReader' # "eof" \/ ccLink' = "broken"
      /\ ccOut' = <<>>
  BY <1>1
<1> QED BY <1>1, <1>3, <1>5, <1>6, <1>7, LessLeft

\* from_bytes: a full buffer is the first cell of the stream, well-formed and
\* of the next message.
LEMMA DecodeStep ==
  ASSUME CellsInv, CC!Decode PROVE CellsInv'
<1>1. /\ ccReader = "reading" /\ Len(ccBuf) = CC!CellSize /\ ccBuf' = <<>>
      /\ ccOut' = ccOut /\ ccWire' = ccWire /\ ccLink' = ccLink
      /\ ccWritten' = ccWritten
  BY DEF CC!Decode
<1>2. /\ ccOut \in Seq(Nat) /\ ccWire \in Seq(Nat) /\ ccBuf \in Seq(Nat)
      /\ ccWritten \in Seq(Sendables) /\ ccMessages \in Seq(Sendables)
  BY DEF CellsInv, CellsTyped
<1>3. PICK s : s = Stream(ccBuf, ccWire, ccOut)
  OBVIOUS
<1>4. PICK t : t = Stream(<<>>, ccWire, ccOut)
  OBVIOUS
<1>5. PICK n : n = Len(ccMessages)
  OBVIOUS
<1>6. /\ s \in Seq(Nat) /\ Len(s) = Len(ccBuf) + Len(ccWire) + Len(ccOut)
      /\ \A k \in 1 .. Len(ccBuf) : s[k] = ccBuf[k]
      /\ \A k \in 1 .. Len(ccWire) : s[Len(ccBuf) + k] = ccWire[k]
      /\ \A k \in 1 .. Len(ccOut) :
           s[Len(ccBuf) + Len(ccWire) + k] = ccOut[k]
  <2>1. Joined(s, ccBuf, ccWire, ccOut)
    BY <1>2, <1>3, StreamIs
  <2> QED BY <2>1 DEF Joined
<1>7. /\ t \in Seq(Nat) /\ Len(t) = Len(ccWire) + Len(ccOut)
      /\ \A k \in 1 .. Len(ccWire) : t[k] = ccWire[k]
      /\ \A k \in 1 .. Len(ccOut) : t[Len(ccWire) + k] = ccOut[k]
  <2>1. PICK e : e = <<>>
    OBVIOUS
  <2>2. e \in Seq(Nat) /\ Len(e) = 0
    BY <2>1
  <2>3. t = Stream(e, ccWire, ccOut)
    BY <1>4, <2>1
  <2>4. /\ t \in Seq(Nat) /\ Len(t) = Len(e) + Len(ccWire) + Len(ccOut)
        /\ \A k \in 1 .. Len(ccWire) : t[Len(e) + k] = ccWire[k]
        /\ \A k \in 1 .. Len(ccOut) :
             t[Len(e) + Len(ccWire) + k] = ccOut[k]
    <3>1. Joined(t, e, ccWire, ccOut)
      BY <1>2, <2>2, <2>3, StreamIs
    <3> QED BY <3>1 DEF Joined
  <2>5. Len(ccWire) \in Nat /\ Len(ccOut) \in Nat
    BY <1>2
  <2>6. \A k \in 1 .. Len(ccWire) : t[k] = ccWire[k]
    BY <2>2, <2>4
  <2>7. \A k \in 1 .. Len(ccOut) : t[Len(ccWire) + k] = ccOut[k]
    BY <2>2, <2>4, <2>5
  <2>8. Len(t) = Len(ccWire) + Len(ccOut)
    BY <2>2, <2>4, <2>5
  <2> QED BY <2>4, <2>6, <2>7, <2>8
<1>8. Len(ccBuf) \in Nat /\ Len(ccWire) \in Nat /\ Len(ccOut) \in Nat
  BY <1>2
<1>9. Len(s) = Len(ccBuf) + Len(t)
  BY <1>6, <1>7, <1>8
<1>10. ASSUME NEW k \in 1 .. Len(t) PROVE s[Len(ccBuf) + k] = t[k]
  <2>1. CASE k <= Len(ccWire)
    BY <1>6, <1>7, <1>8, <2>1, SMTT(30)
  <2>2. CASE ~(k <= Len(ccWire))
    <3>1. PICK i \in 1 .. Len(ccOut) : k = Len(ccWire) + i
      <4>1. k - Len(ccWire) \in 1 .. Len(ccOut)
            /\ k = Len(ccWire) + (k - Len(ccWire))
        BY <1>7, <1>8, <2>2
      <4> QED BY <4>1
    <3>2. Len(ccBuf) + k = Len(ccBuf) + Len(ccWire) + i
      BY <1>8, <3>1
    <3> QED BY <1>6, <1>7, <3>1, <3>2
  <2> QED BY <2>1, <2>2
<1>11. n \in 0 .. Len(ccWritten) /\ Len(ccWritten) \in Nat
  BY <1>5, StreamTyped
<1>12. Carries(s, ccWritten, n)
  BY <1>3, <1>5 DEF CellsInv
<1>13. /\ n + 1 \in 1 .. Len(ccWritten)
       /\ CellOf(ccWritten[n + 1], ccBuf)
       /\ Carries(t, ccWritten, n + 1)
       /\ Len(s) = Total(Len(ccWritten) - n)
            => Len(t) = Total(Len(ccWritten) - (n + 1))
  <2>1. InFront(s, ccBuf, t)
    BY <1>1, <1>6, <1>9, <1>10 DEF InFront
  <2>2. CellTaken(s, ccBuf, t, ccWritten, n)
    BY ONLY <1>2, <1>6, <1>7, <1>11, <1>12, <2>1, CarriesLess
  <2> QED BY <2>2 DEF CellTaken
<1>14. PICK m : m = ccWritten[n + 1]
  OBVIOUS
<1>15. m \in Sendables
  BY <1>2, <1>13, <1>14
<1>16. ~CC!Malformed(ccBuf) /\ CC!FromBytes(ccBuf) = m
  BY <1>13, <1>14, <1>15, FromBytesIs DEF Sendables
<1>17. ccMessages' = Append(ccMessages, m) /\ ccReader' = ccReader
  BY <1>16 DEF CC!Decode
<1>18. /\ Append(ccMessages, m) \in Seq(Sendables)
       /\ Len(Append(ccMessages, m)) = n + 1
       /\ Append(ccMessages, m)[n + 1] = m
       /\ \A i \in 1 .. n : Append(ccMessages, m)[i] = ccMessages[i]
  BY <1>2, <1>5, <1>15
<1>19. CellsTyped'
  <2>1. Len(<<>>) = 0
    OBVIOUS
  <2> QED BY <1>1, <1>17, <1>18, <2>1, CellSizeIs DEF CellsInv, CellsTyped
<1>20. ReadSoFar(Append(ccMessages, m), ccWritten)
  <2>1. \A i \in 1 .. n : ccMessages[i] = ccWritten[i]
    BY <1>5 DEF CellsInv, ReadSoFar
  <2>2. \A i \in 1 .. n + 1 : i \in 1 .. n \/ i = n + 1
    BY <1>11
  <2> QED BY <1>11, <1>13, <1>14, <1>18, <2>1, <2>2 DEF ReadSoFar
<1>21. Stream(ccBuf, ccWire, ccOut)' = t
  BY <1>1, <1>4 DEF Stream
<1>22. ccLink # "broken" /\ ccReader # "gone" =>
         Len(s) = Total(Len(ccWritten) - n)
  BY <1>3, <1>5 DEF CellsInv
<1>23. ccLink = "closed" => ccOut = <<>>
  BY DEF CellsInv
<1> QED BY <1>1, <1>13, <1>17, <1>18, <1>19, <1>20, <1>21, <1>22, <1>23
  DEF CellsInv

\* The end after an orderly close: less than a cell is left, so nothing is.
LEMMA EofStep ==
  ASSUME CellsInv, CC!Eof PROVE CellsInv'
<1>1. /\ ccReader = "reading" /\ Len(ccBuf) < CC!CellSize
      /\ ccWire = <<>> /\ ccLink # "up"
      /\ ccReader' = "eof" \/ (ccLink = "broken" /\ ccReader' = "gone")
      /\ ccOut' = ccOut /\ ccWire' = ccWire /\ ccLink' = ccLink
      /\ ccBuf' = ccBuf /\ ccWritten' = ccWritten
      /\ ccMessages' = ccMessages
  BY DEF CC!Eof
<1>2. Stream(ccBuf, ccWire, ccOut)' = Stream(ccBuf, ccWire, ccOut)
  BY <1>1 DEF Stream
<1>3. CellsTyped'
  BY <1>1 DEF CellsInv, CellsTyped
<1>4. ASSUME ccLink = "closed" PROVE Len(ccMessages) = Len(ccWritten)
  <2>1. ccOut = <<>>
    BY <1>4 DEF CellsInv
  <2>2. PICK s : s = Stream(ccBuf, ccWire, ccOut)
    OBVIOUS
  <2>3. /\ Len(s) = Len(ccBuf) + Len(ccWire) + Len(ccOut)
        /\ Len(ccMessages) \in 0 .. Len(ccWritten) /\ Len(ccWritten) \in Nat
    BY <2>2, StreamTyped
  <2>4. Len(s) = Total(Len(ccWritten) - Len(ccMessages))
    BY <1>1, <1>4, <2>2 DEF CellsInv
  <2>5. Len(ccBuf) \in Nat /\ Len(<<>>) = 0
    BY DEF CellsInv, CellsTyped
  <2>6. Total(Len(ccWritten) - Len(ccMessages)) < CC!CellSize
    BY <1>1, <2>1, <2>3, <2>4, <2>5
  <2>7. PICK left \in Nat : left = Len(ccWritten) - Len(ccMessages)
    <3>1. Len(ccWritten) - Len(ccMessages) \in Nat
      BY <2>3
    <3> QED BY <3>1
  <2>8. ASSUME left # 0 PROVE FALSE
    <3>1. left - 1 \in Nat /\ (left - 1) + 1 = left
      BY <2>8
    <3>2. /\ Total(left - 1) \in Nat
          /\ Total((left - 1) + 1) = Total(left - 1) + CC!CellSize
      BY <3>1, TotalIs
    <3> QED BY <2>6, <2>7, <3>1, <3>2, CellSizeIs
  <2> QED BY <2>3, <2>7, <2>8
<1> QED BY <1>1, <1>2, <1>3, <1>4 DEF CellsInv, ReadSoFar

LEMMA CellsStep ==
  ASSUME CellsInv, [CC!Next]_ccVars PROVE CellsInv'
<1>1. CASE UNCHANGED ccVars
  <2>1. Stream(ccBuf, ccWire, ccOut)' = Stream(ccBuf, ccWire, ccOut)
    BY <1>1 DEF ccVars, Stream
  <2> QED BY <1>1, <2>1 DEF ccVars, CellsInv, CellsTyped, ReadSoFar
<1>2. CASE \E m \in CC!Message :
             \E padding \in CC!TupleOf(Bytes, MaxPayload - Len(m.data)) :
               CC!Write(m, padding)
  BY <1>2, WriteStep
<1>3. CASE CC!Transmit
  BY <1>3, TransmitStep
<1>4. CASE CC!Close
  BY <1>4, CloseStep
<1>5. CASE CC!Break
  BY <1>5, BreakStep
<1>6. CASE CC!Receive
  BY <1>6, ReceiveStep
<1>7. CASE CC!Decode
  BY <1>7, DecodeStep
<1>8. CASE CC!Eof
  BY <1>8, EofStep
<1>9. CASE CC!TimeOut
  BY <1>9, TimeOutStep
<1> QED BY <1>1, <1>2, <1>3, <1>4, <1>5, <1>6, <1>7, <1>8, <1>9 DEF CC!Next

LEMMA CellsShow ==
  ASSUME CellsInv PROVE CC!TypeOK /\ CC!ReadsWhatWasWritten
<1>1. /\ ccWritten \in Seq(Sendables) /\ ccMessages \in Seq(Sendables)
      /\ Len(ccMessages) <= Len(ccWritten) /\ Len(ccWritten) <= MaxCells
      /\ \A i \in 1 .. Len(ccMessages) : ccMessages[i] = ccWritten[i]
  BY DEF CellsInv, CellsTyped, ReadSoFar
<1>2. Len(ccMessages) \in Nat /\ Len(ccWritten) \in Nat
  BY <1>1
<1>3. Len(ccMessages) <= MaxCells
  BY <1>1, <1>2, SizesAssumption
<1>4. CC!TypeOK
  BY <1>1, <1>3 DEF CellsInv, CellsTyped, CC!TypeOK
<1>5. PICK p : p = SubSeq(ccMessages, 1, Len(ccMessages))
  OBVIOUS
<1>6. PICK q : q = SubSeq(ccWritten, 1, Len(ccMessages))
  OBVIOUS
<1>7. /\ p \in Seq(Sendables) /\ Len(p) = Len(ccMessages)
      /\ \A k \in 1 .. Len(ccMessages) : p[k] = ccMessages[k]
  BY <1>1, <1>2, <1>5
<1>8. /\ q \in Seq(Sendables) /\ Len(q) = Len(ccMessages)
      /\ \A k \in 1 .. Len(ccMessages) : q[k] = ccWritten[k]
  BY <1>1, <1>2, <1>6
<1>9. p = q
  BY <1>1, <1>7, <1>8, SameSeq
<1>10. CC!IsPrefix(ccMessages, ccWritten)
  BY <1>1, <1>5, <1>6, <1>9 DEF CC!IsPrefix
<1>11. ccReader # "failed"
  BY DEF CellsInv, CellsTyped
<1>12. ccReader = "eof" /\ ccLink = "closed" => ccMessages = ccWritten
  BY <1>1, SameSeq DEF CellsInv
<1> QED BY <1>4, <1>10, <1>11, <1>12 DEF CC!ReadsWhatWasWritten
-----------------------------------------------------------------------------
(* Buffers.                                                                *)

Less(m, n) == IF m <= n THEN m ELSE n

\* The n numbers up to `last`, and the same the other way around.
UpFrom(last, n) == [k \in 1 .. n |-> (last - n) + k]
DownFrom(last, n) == [k \in 1 .. n |-> (last + 1) - k]

\* push, snapshot and reversal, as every instance has them.
Pushed(b, x) == Append(IF Len(b) >= Capacity THEN Tail(b) ELSE b, x)
Reversed(s) == [i \in 1 .. Len(s) |-> s[(Len(s) - i) + 1]]
Latest(b, n) == SubSeq(Reversed(b), 1, IF Len(b) < n THEN Len(b) ELSE n)

\* Every instance of EventBuffer has the same operators.
LEMMA SameBuffers ==
  /\ \A b, x : NP!Push(b, x) = Pushed(b, x) /\ AF!Push(b, x) = Pushed(b, x)
  /\ \A s : NP!Reverse(s) = Reversed(s) /\ AF!Reverse(s) = Reversed(s)
  /\ \A b, n : NP!Newest(b, n) = Latest(b, n) /\ AF!Newest(b, n) = Latest(b, n)
BY Zenon DEF NP!Push, AF!Push, Pushed, NP!Reverse, AF!Reverse, Reversed,
   NP!Newest, AF!Newest, Latest

\* What these hold.
LEMMA UpFromIs ==
  ASSUME NEW last \in Nat, NEW n \in 0 .. last
  PROVE  /\ UpFrom(last, n) \in Seq(1 .. last) /\ Len(UpFrom(last, n)) = n
         /\ \A k \in 1 .. n : UpFrom(last, n)[k] = (last - n) + k
<1>1. n \in Nat /\ \A k \in 1 .. n : (last - n) + k \in 1 .. last
  OBVIOUS
<1>2. UpFrom(last, n) \in [1 .. n -> 1 .. last]
  BY <1>1 DEF UpFrom
<1> QED BY <1>1, <1>2 DEF UpFrom

LEMMA DownFromIs ==
  ASSUME NEW last \in Nat, NEW n \in 0 .. last
  PROVE  /\ DownFrom(last, n) \in Seq(1 .. last) /\ Len(DownFrom(last, n)) = n
         /\ \A k \in 1 .. n : DownFrom(last, n)[k] = (last + 1) - k
<1>1. n \in Nat /\ \A k \in 1 .. n : (last + 1) - k \in 1 .. last
  OBVIOUS
<1>2. DownFrom(last, n) \in [1 .. n -> 1 .. last]
  BY <1>1 DEF DownFrom
<1> QED BY <1>1, <1>2 DEF DownFrom

\* A ring holds the last numbers, up to its capacity.
LEMMA PushIs ==
  ASSUME NEW last \in Nat
  PROVE  Pushed(UpFrom(last, Less(last, Capacity)), last + 1)
           = UpFrom(last + 1, Less(last + 1, Capacity))
<1> DEFINE n == Less(last, Capacity)
           m == Less(last + 1, Capacity)
           s == UpFrom(last, n)
           q == IF Len(s) >= Capacity THEN Tail(s) ELSE s
           t == UpFrom(last + 1, m)
<1>1. /\ n \in 0 .. last /\ m \in 0 .. last + 1 /\ Capacity \in Nat \ {0}
      /\ n < Capacity => m = n + 1
      /\ n >= Capacity => m = n /\ n = Capacity
  BY SizesAssumption DEF Less
<1> HIDE DEF n, m
<1>2. /\ s \in Seq(1 .. last) /\ Len(s) = n
      /\ \A k \in 1 .. n : s[k] = (last - n) + k
  BY <1>1, UpFromIs
<1>3. /\ t \in Seq(1 .. last + 1) /\ Len(t) = m
      /\ \A k \in 1 .. m : t[k] = (last + 1 - m) + k
  BY <1>1, UpFromIs
<1> HIDE DEF s, t
<1>4. /\ q \in Seq(1 .. last + 1) /\ Len(q) = m - 1
      /\ \A k \in 1 .. m - 1 : q[k] = (last + 1 - m) + k
  <2>1. s \in Seq(1 .. last + 1)
    <3>1. \A k \in 1 .. n : s[k] \in 1 .. last + 1
      BY <1>1, <1>2
    <3> QED BY <1>2, <3>1
  <2>2. CASE Len(s) >= Capacity
    <3>1. q = Tail(s) /\ m = n /\ s # <<>>
      BY <1>1, <1>2, <2>2
    <3>2. Tail(s) \in Seq(1 .. last + 1) /\ Len(Tail(s)) = n - 1
      BY <1>1, <1>2, <2>1, <3>1
    <3>3. \A k \in 1 .. n - 1 : Tail(s)[k] = s[k + 1]
      BY <1>2, <2>1, <3>1, <3>2
    <3>4. \A k \in 1 .. n - 1 : s[k + 1] = (last + 1 - n) + k
      BY <1>1, <1>2
    <3> QED BY <1>1, <3>1, <3>2, <3>3, <3>4
  <2>3. CASE ~(Len(s) >= Capacity)
    <3>1. q = s /\ m = n + 1
      BY <1>1, <1>2, <2>3
    <3> HIDE DEF q
    <3>2. \A k \in 1 .. n : q[k] = (last + 1 - m) + k
      BY <1>1, <1>2, <3>1
    <3> QED BY <1>1, <1>2, <2>1, <3>1, <3>2
  <2> QED BY <2>2, <2>3
<1> HIDE DEF q
<1>5. Append(q, last + 1) = t
  <2>1. /\ Append(q, last + 1) \in Seq(1 .. last + 1)
        /\ Len(Append(q, last + 1)) = m
    BY <1>1, <1>4
  <2>2. ASSUME NEW k \in 1 .. m PROVE Append(q, last + 1)[k] = t[k]
    <3>1. CASE k = m
      BY <1>1, <1>3, <1>4, <3>1
    <3>2. CASE k # m
      <4>1. k \in 1 .. m - 1
        BY <1>1, <3>2
      <4>2. Append(q, last + 1)[k] = q[k]
        BY <1>4, <4>1
      <4> QED BY <1>3, <1>4, <4>1, <4>2
    <3> QED BY <3>1, <3>2
  <2> QED BY <1>3, <2>1, <2>2, SameSeq
<1> QED BY <1>5 DEF Pushed, q, s, t, n, m

\* A snapshot holds the newest of them, newest first.
LEMMA LatestIs ==
  ASSUME NEW last \in Nat, NEW n \in 0 .. last, NEW w \in Nat
  PROVE  Latest(UpFrom(last, n), w) = DownFrom(last, Less(n, w))
<1> DEFINE s == UpFrom(last, n)
           r == Reversed(s)
           m == Less(n, w)
           t == DownFrom(last, m)
<1>1. m \in 0 .. n /\ m \in 0 .. last /\ (IF n < w THEN n ELSE w) = m
  BY DEF Less
<1> HIDE DEF m
<1>2. /\ s \in Seq(1 .. last) /\ Len(s) = n
      /\ \A k \in 1 .. n : s[k] = (last - n) + k
  BY UpFromIs
<1>3. /\ t \in Seq(1 .. last) /\ Len(t) = m
      /\ \A k \in 1 .. m : t[k] = (last + 1) - k
  BY <1>1, DownFromIs
<1> HIDE DEF s, t
<1>4. /\ r \in Seq(1 .. last) /\ Len(r) = n
      /\ \A k \in 1 .. n : r[k] = (last + 1) - k
  <2>1. \A k \in 1 .. n : (n - k) + 1 \in 1 .. n
                          /\ s[(n - k) + 1] = (last + 1) - k
                          /\ (last + 1) - k \in 1 .. last
    BY <1>2
  <2>2. r = [k \in 1 .. n |-> s[(n - k) + 1]]
    BY <1>2 DEF Reversed
  <2>3. r \in [1 .. n -> 1 .. last] /\ \A k \in 1 .. n : r[k] = (last + 1) - k
    <3> HIDE DEF r
    <3> QED BY <2>1, <2>2
  <2> HIDE DEF r
  <2> QED BY <2>3
<1>5. Latest(s, w) = SubSeq(r, 1, m)
  BY <1>1, <1>2 DEF Latest
<1> HIDE DEF r
<1>6. SubSeq(r, 1, m) = t
  <2>1. SubSeq(r, 1, m) \in Seq(1 .. last) /\ Len(SubSeq(r, 1, m)) = m
    BY <1>1, <1>4
  <2>2. \A k \in 1 .. m : SubSeq(r, 1, m)[k] = r[k] /\ r[k] = t[k]
    BY <1>1, <1>3, <1>4
  <2> QED BY <1>3, <2>1, <2>2, SameSeq
<1> QED BY <1>5, <1>6 DEF s, t, m
-----------------------------------------------------------------------------
(* The panel.                                                              *)

\* The metrics a relay sends after u events.
Held(u) == Less(Less(u, Capacity), Recent)
Metrics(u) == [uptime |-> u, events |-> DownFrom(u, Held(u))]

\* Every node has metrics that it sent.
Snapshot(f) ==
  /\ DOMAIN f \subseteq Relays
  /\ f = [n \in DOMAIN f |-> f[n]]
  /\ \A n \in DOMAIN f : \E u \in Nat : f[n] = Metrics(u)

PanelInv ==
  /\ npMade \in [Relays -> Nat]
  /\ npRing = [r \in Relays |-> UpFrom(npMade[r], Less(npMade[r], Capacity))]
  /\ Snapshot(npEntries) /\ Snapshot(npNodes)
  /\ npFetched = NoNode \/ Snapshot(npFetched)
  /\ npTab \in NP!Tabs /\ npSelected \in Relays \union {NoNode}
  /\ npSelected # NoNode => npTab = "All" \/ TypeOf[npSelected] = npTab

LEMMA NoMetricsIs == NP!NoMetrics = Metrics(0)
<1>1. Held(0) = 0
  BY SizesAssumption DEF Held, Less
<1>2. DownFrom(0, 0) = <<>>
  BY DEF DownFrom
<1> QED BY <1>1, <1>2 DEF NP!NoMetrics, Metrics

LEMMA PanelInit == NP!Init => PanelInv
<1> SUFFICES ASSUME NP!Init PROVE PanelInv
  OBVIOUS
<1>1. UpFrom(0, Less(0, Capacity)) = <<>>
  BY SizesAssumption DEF UpFrom, Less
<1>2. npMade \in [Relays -> Nat] /\ \A r \in Relays : npMade[r] = 0
  BY DEF NP!Init
<1>3. npRing = [r \in Relays |-> UpFrom(npMade[r], Less(npMade[r], Capacity))]
  BY <1>1, <1>2 DEF NP!Init
<1>4. Snapshot(<< >>)
  BY DEF Snapshot
<1> QED BY <1>2, <1>3, <1>4 DEF NP!Init, PanelInv, NP!Tabs

\* Whatever the order of events, heartbeats and polls, each node's metrics are
\* of one moment of its relay.
LEMMA PanelStep == PanelInv /\ [NP!Next]_npVars => PanelInv'
<1> SUFFICES ASSUME PanelInv, [NP!Next]_npVars PROVE PanelInv'
  OBVIOUS
<1> USE DEF PanelInv
<1>1. ASSUME NEW r \in Relays, NP!RelayEvent(r) PROVE PanelInv'
  <2>1. /\ npMade' = [npMade EXCEPT ![r] = @ + 1]
        /\ npRing' = [npRing EXCEPT ![r] = Pushed(npRing[r], npMade[r] + 1)]
        /\ UNCHANGED <<npEntries, npFetched, npNodes, npTab, npSelected>>
    BY <1>1, SameBuffers DEF NP!RelayEvent
  <2>2. npRing[r] = UpFrom(npMade[r], Less(npMade[r], Capacity))
        /\ npMade[r] \in Nat /\ npMade'[r] = npMade[r] + 1
    BY <2>1
  <2>3. Pushed(npRing[r], npMade[r] + 1)
          = UpFrom(npMade'[r], Less(npMade'[r], Capacity))
    BY <2>2, PushIs
  <2>4. npMade' \in [Relays -> Nat]
    BY <2>1
  <2>5. npRing' =
          [q \in Relays |-> UpFrom(npMade'[q], Less(npMade'[q], Capacity))]
    <3>1. ASSUME NEW q \in Relays
          PROVE  npRing'[q] = UpFrom(npMade'[q], Less(npMade'[q], Capacity))
      BY <2>1, <2>2, <2>3
    <3>2. npRing' = [q \in Relays |-> npRing'[q]]
      BY <2>1
    <3> QED BY <3>1, <3>2
  <2> QED BY <2>1, <2>4, <2>5
<1>2. ASSUME NEW r \in Relays, NP!Register(r) PROVE PanelInv'
  <2>1. /\ npEntries' = [n \in DOMAIN npEntries \union {r} |->
                           IF n = r THEN Metrics(0) ELSE npEntries[n]]
        /\ UNCHANGED <<npMade, npRing, npFetched, npNodes, npTab, npSelected>>
    BY <1>2, NoMetricsIs DEF NP!Register
  <2>2. Snapshot(npEntries')
    BY <2>1 DEF Snapshot
  <2> QED BY <2>1, <2>2
<1>3. ASSUME NEW r \in Relays, NP!Heartbeat(r) PROVE PanelInv'
  <2>1. /\ r \in DOMAIN npEntries
        /\ npEntries' = [npEntries EXCEPT ![r] = [uptime |-> npMade[r],
                           events |-> Latest(npRing[r], Recent)]]
        /\ UNCHANGED <<npMade, npRing, npFetched, npNodes, npTab, npSelected>>
    BY <1>3, SameBuffers DEF NP!Heartbeat
  <2>2. Latest(npRing[r], Recent) = DownFrom(npMade[r], Held(npMade[r]))
    <3>1. npMade[r] \in Nat /\ Less(npMade[r], Capacity) \in 0 .. npMade[r]
      BY SizesAssumption DEF Less
    <3>2. npRing[r] = UpFrom(npMade[r], Less(npMade[r], Capacity))
          /\ Recent \in Nat
      BY SizesAssumption
    <3> QED BY <3>1, <3>2, LatestIs DEF Held
  <2>3. npEntries' = [npEntries EXCEPT ![r] = Metrics(npMade[r])]
        /\ npMade[r] \in Nat
    BY <2>1, <2>2 DEF Metrics
  <2>4. Snapshot(npEntries')
    <3> HIDE DEF PanelInv
    <3>1. Snapshot(npEntries)
      BY DEF PanelInv
    <3> QED BY <2>1, <2>3, <3>1 DEF Snapshot
  <2> QED BY <2>1, <2>4
<1>4. ASSUME NEW r \in Relays, NP!Forget(r) PROVE PanelInv'
  <2>1. /\ npEntries' = [n \in DOMAIN npEntries \ {r} |-> npEntries[n]]
        /\ UNCHANGED <<npMade, npRing, npFetched, npNodes, npTab, npSelected>>
    BY <1>4 DEF NP!Forget, NP!Restrict
  <2>2. Snapshot(npEntries')
    BY <2>1 DEF Snapshot
  <2> QED BY <2>1, <2>2
<1>5. ASSUME NEW r \in Relays, NP!SelectNode(r) PROVE PanelInv'
  <2>1. /\ r \in NP!Rows
        /\ npSelected' = IF npSelected = r THEN NoNode ELSE r
        /\ UNCHANGED <<npMade, npRing, npEntries, npFetched, npNodes, npTab>>
    BY <1>5 DEF NP!SelectNode
  <2>2. npTab = "All" \/ TypeOf[r] = npTab
    BY <2>1 DEF NP!Rows
  <2> QED BY <2>1, <2>2
<1>6. CASE NP!Fetch
  BY <1>6 DEF NP!Fetch
<1>7. CASE NP!Show
  BY <1>7 DEF NP!Show
<1>8. ASSUME NEW t \in NP!Tabs, NP!SelectTab(t) PROVE PanelInv'
  BY <1>8 DEF NP!SelectTab
<1>9. CASE UNCHANGED npVars
  BY <1>9 DEF npVars
<1> HIDE DEF PanelInv
<1> QED BY <1>1, <1>2, <1>3, <1>4, <1>5, <1>6, <1>7, <1>8, <1>9 DEF NP!Next

LEMMA PanelShows == PanelInv => NP!TypeOK /\ NP!PanelFaithful
<1> SUFFICES ASSUME PanelInv PROVE NP!TypeOK /\ NP!PanelFaithful
  OBVIOUS
<1>1. NP!TypeOK
  <2>1. ASSUME NEW r \in Relays
        PROVE  npRing[r] \in Seq(1 .. npMade[r]) /\ Len(npRing[r]) <= Capacity
    <3>1. npMade[r] \in Nat /\ Less(npMade[r], Capacity) \in 0 .. npMade[r]
          /\ Less(npMade[r], Capacity) <= Capacity
      BY SizesAssumption DEF PanelInv, Less
    <3>2. npRing[r] = UpFrom(npMade[r], Less(npMade[r], Capacity))
      BY DEF PanelInv
    <3> QED BY <3>1, <3>2, UpFromIs
  <2> QED BY <2>1 DEF PanelInv, NP!TypeOK, Snapshot
<1>2. NP!PanelFaithful
  <2> SUFFICES ASSUME npSelected \in DOMAIN npNodes
               PROVE  LET panel == NP!Panel(npSelected)
                          last == npNodes[npSelected].uptime
                      IN /\ npSelected \in NP!Rows
                         /\ Len(panel) = NP!Min({Recent, Capacity, last})
                         /\ panel = [k \in 1 .. Len(panel) |->
                                       last - Len(panel) + k]
    BY DEF NP!PanelFaithful
  <2>1. npSelected \in NP!Rows
    BY SizesAssumption DEF NP!Rows, PanelInv, Snapshot
  <2>2. PICK u \in Nat : npNodes[npSelected] = Metrics(u)
    BY DEF PanelInv, Snapshot
  <2>3. npNodes[npSelected].uptime = u
        /\ npNodes[npSelected].events = DownFrom(u, Held(u))
    BY <2>2 DEF Metrics
  <2>4. Held(u) \in 0 .. u /\ NP!Min({Recent, Capacity, u}) = Held(u)
    <3> DEFINE S == {Recent, Capacity, u}
    <3>1. PICK m \in S : NP!Min(S) = m /\ \A k \in S : m <= k
      <4>1. S \in SUBSET Nat /\ S # {}
        BY SizesAssumption
      <4> HIDE DEF S
      <4>2. \E m \in S : \A k \in S : m <= k
        BY <4>1, LeastNumber
      <4> QED BY <4>2 DEF NP!Min
    <3>2. Held(u) \in 0 .. u /\ Held(u) = m
      BY <3>1, SizesAssumption DEF Held, Less
    <3> QED BY <3>1, <3>2
  <2>5. NP!Panel(npSelected) = Reversed(DownFrom(u, Held(u)))
    BY <2>3, SameBuffers DEF NP!Panel
  <2>6. /\ Len(NP!Panel(npSelected)) = Held(u)
        /\ NP!Panel(npSelected) = [k \in 1 .. Held(u) |-> u - Held(u) + k]
    <3>1. PICK h \in 0 .. u : Held(u) = h
      BY <2>4
    <3> DEFINE d == DownFrom(u, h)
    <3>2. Len(d) = h /\ \A k \in 1 .. h : d[k] = (u + 1) - k
      BY DownFromIs
    <3> HIDE DEF d
    <3>3. NP!Panel(npSelected) = [k \in 1 .. h |-> d[(h - k) + 1]]
      BY <2>5, <3>1, <3>2 DEF Reversed, d
    <3>4. \A k \in 1 .. h : d[(h - k) + 1] = u - h + k
      BY <3>2
    <3>5. NP!Panel(npSelected) = [k \in 1 .. h |-> u - h + k]
      BY <3>3, <3>4
    <3> QED BY <3>1, <3>5
  <2> QED BY <2>1, <2>3, <2>4, <2>6
<1> QED BY <1>1, <1>2
-----------------------------------------------------------------------------
(* The feed.                                                               *)

\* One element of Later's fold.
LaterStep(e, th) ==
  [a \in Seq(Nat) \X (1 .. Len(e)) |->
     IF e[a[2]] > th THEN Append(a[1], e[a[2]]) ELSE a[1]]

\* What Later has computed after the first k elements.
LaterSoFar(r, e, th) ==
  /\ r[1 .. 0] = <<>>
  /\ \A k \in 0 .. Len(e) - 1 :
       r[1 .. k + 1] = IF e[k + 1] > th THEN Append(r[1 .. k], e[k + 1])
                       ELSE r[1 .. k]

\* Later computes one element after the other.
LEMMA LaterFold ==
  ASSUME NEW e \in Seq(Nat), NEW th \in Nat
  PROVE  \E r : AF!Later(e, th) = r[1 .. Len(e)] /\ LaterSoFar(r, e, th)
<1> DEFINE N == Len(e)
           step == LaterStep(e, th)
           w(f, s) == IF s = {} THEN <<>>
                      ELSE IF e[Max(s)] > th
                      THEN Append(f[s \ {Max(s)}], e[Max(s)])
                      ELSE f[s \ {Max(s)}]
           iter == CHOOSE f : f = [s \in SUBSET DOMAIN e |-> w(f, s)]
<1>1. AF!Later(e, th) = iter[DOMAIN e]
  BY Zenon DEF AF!Later, AF!FoldLeft, AF!MapThenFoldSet, AF!Max, Max
<1>2. /\ N \in Nat /\ DOMAIN e = 1 .. N /\ <<>> \in Seq(Nat)
      /\ \A k \in 1 .. N : e[k] \in Nat
  OBVIOUS
<1>3. step \in [Seq(Nat) \X (1 .. N) -> Seq(Nat)]
  BY <1>2 DEF LaterStep
<1>4. PICK g \in [SUBSET (1 .. N) -> Seq(Nat)] : Folded(g, N, <<>>, step)
  <2> HIDE DEF step
  <2> QED BY <1>2, <1>3, FoldExists
<1>5. ASSUME NEW s \in SUBSET (1 .. N) PROVE g[s] = w(g, s)
  <2>1. CASE s = {}
    BY <1>4, <2>1 DEF Folded
  <2>2. CASE s # {}
    <3>1. Max(s) \in 1 .. N /\ s \ {Max(s)} \in SUBSET (1 .. N)
      BY <1>2, <2>2, MaxIs
    <3>2. g[s \ {Max(s)}] \in Seq(Nat)
      BY <1>4, <3>1
    <3>3. g[s] = step[<<g[s \ {Max(s)}], Max(s)>>]
      BY <1>4, <2>2 DEF Folded
    <3> QED BY <2>2, <3>1, <3>2, <3>3 DEF LaterStep
  <2> QED BY <2>1, <2>2
<1>6. g = [s \in SUBSET (1 .. N) |-> w(g, s)]
  BY <1>4, <1>5, Zenon
<1>7. iter = [s \in SUBSET (1 .. N) |-> w(iter, s)]
  BY <1>2, <1>6, Zenon
<1> HIDE DEF iter
<1>8. iter[1 .. 0] = <<>>
  <2>1. 1 .. 0 = {} /\ {} \in SUBSET (1 .. N)
    OBVIOUS
  <2>2. iter[{}] = <<>>
    BY <1>7, <2>1
  <2> QED BY <2>1, <2>2
<1>9. ASSUME NEW k \in 0 .. N - 1
      PROVE  iter[1 .. k + 1] = IF e[k + 1] > th
                                THEN Append(iter[1 .. k], e[k + 1])
                                ELSE iter[1 .. k]
  <2>1. /\ 1 .. k + 1 \in SUBSET (1 .. N) /\ 1 .. k + 1 # {}
        /\ Max(1 .. k + 1) = k + 1 /\ (1 .. k + 1) \ {k + 1} = 1 .. k
    BY <1>2, Intervals, ZenonT(30)
  <2> QED BY <1>7, <2>1
<1>11. iter[DOMAIN e] = iter[1 .. Len(e)]
  BY <1>2
<1>12. AF!Later(e, th) = iter[1 .. Len(e)]
  BY <1>1, <1>11
<1>13. LaterSoFar(iter, e, th)
  BY <1>8, <1>9 DEF LaterSoFar
<1> QED BY <1>12, <1>13

\* One more number.
LEMMA AppendUpFrom ==
  ASSUME NEW last \in Nat, NEW n \in 0 .. last
  PROVE  Append(UpFrom(last, n), last + 1) = UpFrom(last + 1, n + 1)
<1> DEFINE s == UpFrom(last, n)
           t == UpFrom(last + 1, n + 1)
           a == Append(s, last + 1)
<1>1. /\ s \in Seq(1 .. last) /\ Len(s) = n
      /\ \A k \in 1 .. n : s[k] = (last - n) + k
  BY UpFromIs
<1>2. /\ t \in Seq(1 .. last + 1) /\ Len(t) = n + 1
      /\ \A k \in 1 .. n + 1 : t[k] = (last - n) + k
  <2>1. last + 1 \in Nat /\ n + 1 \in 0 .. last + 1
        /\ last + 1 - (n + 1) = last - n
    OBVIOUS
  <2> QED BY <2>1, UpFromIs
<1> HIDE DEF s, t
<1>3. s \in Seq(1 .. last + 1)
  <2>1. \A k \in 1 .. n : s[k] \in 1 .. last + 1
    BY <1>1
  <2> QED BY <1>1, <2>1
<1>4. a \in Seq(1 .. last + 1) /\ Len(a) = n + 1
  BY <1>1, <1>3
<1>5. ASSUME NEW k \in 1 .. n + 1 PROVE a[k] = t[k]
  <2>1. CASE k = n + 1
    BY <1>1, <1>2, <1>3, <2>1
  <2>2. CASE k # n + 1
    <3>1. k \in 1 .. n
      BY <2>2
    <3>2. a[k] = s[k]
      BY <1>1, <1>3, <3>1
    <3> QED BY <1>1, <1>2, <3>1, <3>2
  <2> QED BY <2>1, <2>2
<1> HIDE DEF a
<1> QED BY <1>2, <1>4, <1>5, SameSeq DEF s, t, a

\* The events of an answer that came after `th`, oldest first.
LEMMA LaterIs ==
  ASSUME NEW t \in Nat, NEW n \in 0 .. t, NEW th \in Nat
  PROVE  AF!Later(UpFrom(t, n), th)
           = UpFrom(t, Less(n, IF t > th THEN t - th ELSE 0))
<1> DEFINE e == UpFrom(t, n)
           c(k) == Less(k, IF (t - n) + k > th THEN (t - n) + k - th ELSE 0)
<1>1. /\ e \in Seq(1 .. t) /\ Len(e) = n
      /\ \A k \in 1 .. n : e[k] = (t - n) + k
  BY UpFromIs
<1> HIDE DEF e
<1>2. e \in Seq(Nat)
  <2>1. \A k \in 1 .. n : e[k] \in Nat
    BY <1>1
  <2> QED BY <1>1, <2>1
<1>3. PICK r : AF!Later(e, th) = r[1 .. Len(e)] /\ LaterSoFar(r, e, th)
  BY <1>2, LaterFold
<1>8. AF!Later(e, th) = r[1 .. n]
  BY <1>1, <1>3
<1>9. /\ r[1 .. 0] = <<>>
      /\ \A k \in 0 .. n - 1 :
           r[1 .. k + 1] = IF e[k + 1] > th
                           THEN Append(r[1 .. k], e[k + 1]) ELSE r[1 .. k]
  BY <1>1, <1>3 DEF LaterSoFar
<1> DEFINE S == {k \in 0 .. n : r[1 .. k] = UpFrom((t - n) + k, c(k))}
<1>4. 0 \in S
  <2>1. c(0) = 0
    BY DEF Less
  <2>2. UpFrom((t - n) + 0, 0) = <<>>
    BY DEF UpFrom
  <2> HIDE DEF c
  <2> QED BY <1>9, <2>1, <2>2
<1>5. ASSUME NEW k \in 0 .. n - 1, k \in S PROVE k + 1 \in S
  <2> DEFINE last == (t - n) + k
             m == c(k)
             s == UpFrom(last, m)
  <2>1. r[1 .. k] = s /\ k + 1 \in 0 .. n /\ k + 1 \in 1 .. n
    BY <1>5
  <2>2. /\ last \in Nat /\ m \in 0 .. last /\ m \in Nat
        /\ e[k + 1] = last + 1 /\ (t - n) + (k + 1) = last + 1
    BY <1>1, <2>1 DEF Less
  <2>3. /\ last + 1 > th => c(k + 1) = m + 1
        /\ ~(last + 1 > th) => c(k + 1) = 0 /\ m = 0
    BY <2>1 DEF Less
  <2> HIDE DEF c, m, last
  <2>4. CASE last + 1 > th
    <3>1. r[1 .. k + 1] = Append(s, last + 1) /\ c(k + 1) = m + 1
      BY <1>9, <2>1, <2>2, <2>3, <2>4
    <3>2. Append(s, last + 1) = UpFrom(last + 1, m + 1)
      BY <2>2, AppendUpFrom
    <3> HIDE DEF s
    <3> QED BY <2>1, <2>2, <3>1, <3>2
  <2>5. CASE ~(last + 1 > th)
    <3>1. r[1 .. k + 1] = s /\ c(k + 1) = 0 /\ m = 0
      BY <1>9, <2>1, <2>2, <2>3, <2>5
    <3>2. UpFrom(last, 0) = UpFrom(last + 1, 0)
      BY DEF UpFrom
    <3> QED BY <2>1, <2>2, <3>1, <3>2
  <2> QED BY <2>4, <2>5
<1>6. n \in S
  <2> HIDE DEF S
  <2>1. \A k \in 0 .. n - 1 : k \in S => k + 1 \in S
    BY <1>5
  <2> QED BY <1>4, <2>1, UpTo
<1>7. (t - n) + n = t
  OBVIOUS
<1> QED BY <1>6, <1>7, <1>8 DEF e

\* Min of two.
LEMMA LessIs ==
  ASSUME NEW m \in Nat, NEW n \in Nat
  PROVE  AF!Min({m, n}) = Less(m, n)
<1>1. \E x \in {m, n} : \A y \in {m, n} : x <= y
  OBVIOUS
<1>2. /\ AF!Min({m, n}) \in {m, n}
      /\ \A y \in {m, n} : AF!Min({m, n}) <= y
  BY <1>1 DEF AF!Min
<1> QED BY <1>2 DEF Less

\* The service: its calls, its counters and its registry.
ServiceInv ==
  /\ afPhase \in [Relays -> {"new", "up", "gone"}] /\ afListed \subseteq Relays
  /\ afCalls \in [AF!Kinds -> Nat] /\ afCounts \in [AF!Counted -> Nat]
  /\ afSwept \in 0 .. Cardinality(Relays) /\ afNow \in Nat
  /\ afNow + AF!UnderWay + (IF afSwept > 0 THEN 1 ELSE 0) <= MaxEvents
  /\ AF!CountersAccount

\* The sizes of sets of relays are numbers.
LEMMA RelaysFinite ==
  /\ Cardinality(Relays) \in Nat
  /\ \A S \in SUBSET Relays :
       /\ IsFiniteSet(S) /\ Cardinality(S) \in Nat
       /\ Cardinality(S) <= Cardinality(Relays)
BY SizesAssumption, FS_CardinalityType, FS_Subset

LEMMA CardinalityIs == \A S : AF!Cardinality(S) = Cardinality(S)
BY DEF AF!Cardinality, Cardinality

LEMMA ServiceInit == AF!Init => ServiceInv
<1> SUFFICES ASSUME AF!Init PROVE ServiceInv
  OBVIOUS
<1>1. Cardinality({}) = 0
  BY FS_EmptySet
<1>2. AF!CountersAccount /\ AF!UnderWay = 0
  BY <1>1, CardinalityIs
     DEF AF!Init, AF!CountersAccount, AF!UnderWay, AF!Kinds, AF!Counted
<1> QED BY <1>2, RelaysFinite, SizesAssumption
     DEF AF!Init, ServiceInv, AF!Kinds, AF!Counted

\* A handler begins.
LEMMA CallAdded ==
  ASSUME afCalls \in [AF!Kinds -> Nat], NEW kind \in AF!Kinds,
         AF!Called(kind)
  PROVE  /\ afCalls' \in [AF!Kinds -> Nat]
         /\ AF!UnderWay \in Nat /\ AF!UnderWay' = AF!UnderWay + 1
         /\ \A k \in AF!Kinds :
              afCalls'[k] = IF k = kind THEN afCalls[k] + 1 ELSE afCalls[k]
<1>1. /\ afCalls' \in [AF!Kinds -> Nat]
      /\ \A k \in AF!Kinds :
           afCalls'[k] = IF k = kind THEN afCalls[k] + 1 ELSE afCalls[k]
  BY DEF AF!Called
<1>2. \A k \in {"register", "remove", "plain"} :
        afCalls[k] \in Nat
        /\ afCalls'[k] = IF k = kind THEN afCalls[k] + 1 ELSE afCalls[k]
  BY <1>1 DEF AF!Kinds
<1>3. kind \in {"register", "remove", "plain"}
  BY DEF AF!Kinds
<1>4. AF!UnderWay \in Nat /\ AF!UnderWay' = AF!UnderWay + 1
  BY <1>2, <1>3 DEF AF!UnderWay
<1> QED BY <1>1, <1>4

\* A handler counts: what it adds to the counter it takes from the calls.
LEMMA CallCounted ==
  ASSUME afCalls \in [AF!Kinds -> Nat], afCounts \in [AF!Counted -> Nat],
         NEW kind \in AF!Kinds, AF!Account(kind)
  PROVE  /\ afCalls' \in [AF!Kinds -> Nat] /\ afCounts' \in [AF!Counted -> Nat]
         /\ AF!UnderWay' \in Nat /\ AF!UnderWay = AF!UnderWay' + 1
         /\ \A k \in {"register", "remove"} :
              afCounts'[k] + afCalls'[k] = afCounts[k] + afCalls[k]
         /\ afCounts'["cleanup"] = afCounts["cleanup"]
<1>1. /\ afCalls' = [afCalls EXCEPT ![kind] = @ - 1] /\ afCalls[kind] > 0
      /\ afCounts' = IF kind \in AF!Counted
                     THEN [afCounts EXCEPT ![kind] = @ + 1] ELSE afCounts
  BY DEF AF!Account
<1>2. /\ afCalls' \in [AF!Kinds -> Nat]
      /\ \A k \in AF!Kinds :
           afCalls'[k] = IF k = kind THEN afCalls[k] - 1 ELSE afCalls[k]
  BY <1>1
<1>3. /\ afCounts' \in [AF!Counted -> Nat]
      /\ \A k \in AF!Counted :
           afCounts'[k] = IF k = kind THEN afCounts[k] + 1 ELSE afCounts[k]
  BY <1>1
<1>4. /\ \A k \in {"register", "remove", "plain"} :
           /\ afCalls[k] \in Nat
           /\ afCalls'[k] = IF k = kind THEN afCalls[k] - 1 ELSE afCalls[k]
      /\ \A k \in {"register", "remove", "cleanup"} :
           /\ afCounts[k] \in Nat
           /\ afCounts'[k] = IF k = kind THEN afCounts[k] + 1 ELSE afCounts[k]
      /\ kind \in {"register", "remove", "plain"}
  BY <1>2, <1>3 DEF AF!Kinds, AF!Counted
<1>5. AF!UnderWay' \in Nat /\ AF!UnderWay = AF!UnderWay' + 1
  BY <1>1, <1>4 DEF AF!UnderWay
<1>6. /\ \A k \in {"register", "remove"} :
           afCounts'[k] + afCalls'[k] = afCounts[k] + afCalls[k]
      /\ afCounts'["cleanup"] = afCounts["cleanup"]
  BY <1>1, <1>4
<1> QED BY <1>2, <1>3, <1>5, <1>6

\* Every handler keeps the account, at each of its two steps.
LEMMA ServiceStep == ServiceInv /\ [AF!Next]_afVars => ServiceInv'
<1> SUFFICES ASSUME ServiceInv, [AF!Next]_afVars PROVE ServiceInv'
  OBVIOUS
<1>1. /\ afPhase \in [Relays -> {"new", "up", "gone"}]
      /\ afListed \subseteq Relays
      /\ afCalls \in [AF!Kinds -> Nat] /\ afCounts \in [AF!Counted -> Nat]
      /\ afSwept \in 0 .. Cardinality(Relays) /\ afNow \in Nat
      /\ afSwept \in Nat /\ MaxEvents \in Nat
      /\ IsFiniteSet(afListed) /\ Cardinality(afListed) \in Nat
  BY RelaysFinite, SizesAssumption DEF ServiceInv
<1>2. AF!UnderWay \in Nat
  BY <1>1 DEF AF!UnderWay, AF!Kinds
<1>3. afNow + AF!UnderWay + (IF afSwept > 0 THEN 1 ELSE 0) <= MaxEvents
  BY DEF ServiceInv
<1>4. /\ \A k \in {"register", "remove", "plain"} : afCalls[k] \in Nat
      /\ \A k \in {"register", "remove", "cleanup"} : afCounts[k] \in Nat
  BY <1>1 DEF AF!Kinds, AF!Counted
<1>5. Cardinality(afListed) + afCounts["remove"] + afCalls["remove"]
        + afCounts["cleanup"] + afSwept
      <= afCounts["register"] + afCalls["register"]
  BY CardinalityIs DEF ServiceInv, AF!CountersAccount
\* What is to be shown of a step.
<1>6. ASSUME afPhase' \in [Relays -> {"new", "up", "gone"}],
             afListed' \subseteq Relays,
             afCalls' \in [AF!Kinds -> Nat], afCounts' \in [AF!Counted -> Nat],
             afSwept' \in 0 .. Cardinality(Relays), afNow' \in Nat,
             afNow' + AF!UnderWay' + (IF afSwept' > 0 THEN 1 ELSE 0)
               <= MaxEvents,
             Cardinality(afListed') + afCounts'["remove"] + afCalls'["remove"]
               + afCounts'["cleanup"] + afSwept'
             <= afCounts'["register"] + afCalls'["register"]
      PROVE  ServiceInv'
  BY <1>6, CardinalityIs DEF ServiceInv, AF!CountersAccount
<1>7. ASSUME NEW kind \in AF!Kinds, AF!Called(kind), AF!Room,
             UNCHANGED <<afSwept, afCounts, afNow>>,
             afPhase' \in [Relays -> {"new", "up", "gone"}],
             afListed' \subseteq Relays,
             Cardinality(afListed') + (IF kind = "remove" THEN 1 ELSE 0)
               <= Cardinality(afListed) + (IF kind = "register" THEN 1 ELSE 0)
      PROVE  ServiceInv'
  <2>1. /\ afCalls' \in [AF!Kinds -> Nat] /\ AF!UnderWay' = AF!UnderWay + 1
        /\ \A k \in AF!Kinds :
             afCalls'[k] = IF k = kind THEN afCalls[k] + 1 ELSE afCalls[k]
    BY <1>1, <1>7, CallAdded
  <2>2. /\ afCalls'["register"] = IF kind = "register"
             THEN afCalls["register"] + 1 ELSE afCalls["register"]
        /\ afCalls'["remove"] = IF kind = "remove"
             THEN afCalls["remove"] + 1 ELSE afCalls["remove"]
    BY <2>1 DEF AF!Kinds
  <2>3. afNow' + AF!UnderWay' + (IF afSwept' > 0 THEN 1 ELSE 0) <= MaxEvents
    <3>1. afNow + AF!UnderWay + afSwept < MaxEvents
      BY <1>7 DEF AF!Room
    <3> QED BY <1>1, <1>2, <1>7, <2>1, <3>1
  <2>4. Cardinality(afListed') \in Nat
    BY <1>7, RelaysFinite
  <2>5. Cardinality(afListed') + afCounts'["remove"] + afCalls'["remove"]
          + afCounts'["cleanup"] + afSwept'
        <= afCounts'["register"] + afCalls'["register"]
    BY <1>1, <1>4, <1>5, <1>7, <2>2, <2>4
  <2> QED BY <1>1, <1>6, <1>7, <2>1, <2>3, <2>5
<1>8. ASSUME NEW r \in Relays, AF!RegisterNode(r) PROVE ServiceInv'
  <2> DEFINE kept == {m \in afListed : AddressOf[m] # AddressOf[r]}
  <2>1. /\ AF!Room /\ AF!Called("register")
        /\ UNCHANGED <<afSwept, afCounts, afNow>>
        /\ afPhase' = [afPhase EXCEPT ![r] = "up"]
        /\ afListed' = kept \union {r}
    BY <1>8 DEF AF!RegisterNode
  <2>2. kept \subseteq afListed
    OBVIOUS
  <2> HIDE DEF kept
  <2>3. IsFiniteSet(kept) /\ Cardinality(kept) <= Cardinality(afListed)
        /\ Cardinality(kept) \in Nat
    BY <1>1, <2>2, FS_Subset, FS_CardinalityType
  <2>4. Cardinality(kept \union {r}) <= Cardinality(kept) + 1
    BY <2>3, FS_AddElement
  <2>5. afListed' \subseteq Relays /\ Cardinality(afListed') \in Nat
    BY <1>1, <2>1, <2>2, RelaysFinite
  <2>6. Cardinality(afListed') <= Cardinality(afListed) + 1
    BY <1>1, <2>1, <2>3, <2>4, <2>5
  <2> QED BY <1>1, <1>7, <2>1, <2>5, <2>6 DEF AF!Kinds
<1>9. ASSUME NEW r \in Relays, AF!UpdateHeartbeat(r) PROVE ServiceInv'
  <2>1. /\ AF!Room /\ AF!Called("plain")
        /\ UNCHANGED <<afPhase, afListed, afSwept, afCounts, afNow>>
    BY <1>9 DEF AF!UpdateHeartbeat
  <2> QED BY <1>1, <1>7, <2>1 DEF AF!Kinds
<1>10. ASSUME NEW r \in Relays, AF!RemoveNode(r) PROVE ServiceInv'
  <2>1. /\ AF!Room
        /\ UNCHANGED <<afSwept, afCounts, afNow>>
        /\ afPhase' = [afPhase EXCEPT ![r] = "gone"]
        /\ afListed' = afListed \ {r}
        /\ IF r \in afListed THEN AF!Called("remove") ELSE UNCHANGED afCalls
    BY <1>10 DEF AF!RemoveNode
  <2>2. afPhase' \in [Relays -> {"new", "up", "gone"}]
    BY <1>1, <2>1
  <2>3. CASE r \in afListed
    <3>1. Cardinality(afListed \ {r}) = Cardinality(afListed) - 1
      BY <1>1, <2>3, FS_RemoveElement
    <3> QED BY <1>1, <1>7, <2>1, <2>2, <2>3, <3>1 DEF AF!Kinds
  <2>4. CASE r \notin afListed
    <3>1. afListed' = afListed /\ UNCHANGED afCalls
      BY <2>1, <2>4
    <3>2. AF!UnderWay' = AF!UnderWay
      BY <3>1 DEF AF!UnderWay
    <3> QED BY <1>1, <1>3, <1>5, <1>6, <2>1, <2>2, <3>1, <3>2
  <2> QED BY <2>3, <2>4
<1>11. ASSUME AF!Query PROVE ServiceInv'
  <2>1. /\ AF!Room /\ AF!Called("plain")
        /\ UNCHANGED <<afPhase, afListed, afSwept, afCounts, afNow>>
    BY <1>11 DEF AF!Query
  <2> QED BY <1>1, <1>7, <2>1 DEF AF!Kinds
<1>12. ASSUME NEW kind \in AF!Kinds, AF!Account(kind) PROVE ServiceInv'
  <2>1. /\ afNow' = afNow + 1
        /\ UNCHANGED <<afPhase, afListed, afSwept>>
    BY <1>12 DEF AF!Account, AF!PushEvent
  <2>2. /\ afCalls' \in [AF!Kinds -> Nat] /\ afCounts' \in [AF!Counted -> Nat]
        /\ AF!UnderWay' \in Nat /\ AF!UnderWay = AF!UnderWay' + 1
        /\ \A k \in {"register", "remove"} :
             afCounts'[k] + afCalls'[k] = afCounts[k] + afCalls[k]
        /\ afCounts'["cleanup"] = afCounts["cleanup"]
    BY <1>1, <1>12, CallCounted
  <2>3. afNow' + AF!UnderWay' + (IF afSwept' > 0 THEN 1 ELSE 0) <= MaxEvents
    <3>1. PICK u \in Nat : AF!UnderWay' = u /\ AF!UnderWay = u + 1
      BY <2>2
    <3>2. CASE afSwept > 0
      BY <1>1, <1>3, <2>1, <3>1, <3>2
    <3>3. CASE ~(afSwept > 0)
      BY <1>1, <1>3, <2>1, <3>1, <3>3
    <3> QED BY <3>2, <3>3
  <2>4. /\ \A k \in {"register", "remove"} : afCalls'[k] \in Nat
        /\ \A k \in {"register", "remove", "cleanup"} : afCounts'[k] \in Nat
    BY <2>2 DEF AF!Kinds, AF!Counted
  <2>5. Cardinality(afListed') + afCounts'["remove"] + afCalls'["remove"]
          + afCounts'["cleanup"] + afSwept'
        <= afCounts'["register"] + afCalls'["register"]
    BY <1>1, <1>4, <1>5, <2>1, <2>2, <2>4
  <2> QED BY <1>1, <1>6, <2>1, <2>2, <2>3, <2>5
<1>13. ASSUME NEW stale \in SUBSET afListed \ {{}}, AF!CleanUp(stale)
       PROVE  ServiceInv'
  <2>1. /\ afNow + AF!UnderWay < MaxEvents /\ afSwept = 0
        /\ afListed' = afListed \ stale /\ afSwept' = Cardinality(stale)
        /\ UNCHANGED <<afPhase, afCalls, afCounts, afNow>>
    BY <1>13, CardinalityIs DEF AF!CleanUp
  <2>2. /\ stale \subseteq Relays /\ stale \subseteq afListed
        /\ IsFiniteSet(stale) /\ Cardinality(stale) \in Nat
        /\ Cardinality(stale) \in 0 .. Cardinality(Relays)
    BY <1>1, RelaysFinite
  <2>3. Cardinality(afListed \ stale)
          = Cardinality(afListed) - Cardinality(stale)
    <3>1. afListed \cap stale = stale
      BY <2>2
    <3>2. Cardinality(afListed \ stale)
            = Cardinality(afListed) - Cardinality(afListed \cap stale)
      BY <1>1, FS_Difference
    <3> QED BY <3>1, <3>2
  <2>4. AF!UnderWay' = AF!UnderWay
    BY <2>1 DEF AF!UnderWay
  <2>5. afNow' + AF!UnderWay' + (IF afSwept' > 0 THEN 1 ELSE 0) <= MaxEvents
    BY <1>1, <1>2, <2>1, <2>4
  <2>6. Cardinality(afListed') + afCounts'["remove"] + afCalls'["remove"]
          + afCounts'["cleanup"] + afSwept'
        <= afCounts'["register"] + afCalls'["register"]
    BY <1>1, <1>4, <1>5, <2>1, <2>2, <2>3
  <2> QED BY <1>1, <1>6, <2>1, <2>2, <2>5, <2>6
<1>14. ASSUME AF!AccountCleanUp PROVE ServiceInv'
  <2>1. /\ afCounts' = [afCounts EXCEPT !["cleanup"] = @ + afSwept]
        /\ afSwept > 0 /\ afSwept' = 0 /\ afNow' = afNow + 1
        /\ UNCHANGED <<afPhase, afListed, afCalls>>
    BY <1>14 DEF AF!AccountCleanUp, AF!PushEvent
  <2>2. /\ afCounts' \in [AF!Counted -> Nat]
        /\ afCounts'["cleanup"] = afCounts["cleanup"] + afSwept
        /\ afCounts'["register"] = afCounts["register"]
        /\ afCounts'["remove"] = afCounts["remove"]
    BY <1>1, <2>1 DEF AF!Counted
  <2>3. AF!UnderWay' = AF!UnderWay
    BY <2>1 DEF AF!UnderWay
  <2>4. afNow' + AF!UnderWay' + (IF afSwept' > 0 THEN 1 ELSE 0) <= MaxEvents
    BY <1>1, <1>2, <1>3, <2>1, <2>3
  <2>5. Cardinality(afListed') + afCounts'["remove"] + afCalls'["remove"]
          + afCounts'["cleanup"] + afSwept'
        <= afCounts'["register"] + afCalls'["register"]
    BY <1>1, <1>4, <1>5, <2>1, <2>2
  <2>6. 0 \in 0 .. Cardinality(Relays)
    BY RelaysFinite
  <2> QED BY <1>1, <1>6, <2>1, <2>2, <2>4, <2>5, <2>6
<1>15. ASSUME AF!Restart PROVE ServiceInv'
  <2>1. /\ afListed' = {} /\ afSwept' = 0 /\ afNow' = 0
        /\ afCalls' = [k \in AF!Kinds |-> 0]
        /\ afCounts' = [k \in AF!Counted |-> 0]
        /\ UNCHANGED afPhase
    BY <1>15 DEF AF!Restart
  <2>2. Cardinality({}) = 0 /\ 0 \in 0 .. Cardinality(Relays)
    BY FS_EmptySet, RelaysFinite
  <2>3. /\ AF!UnderWay' = 0
        /\ afCounts'["remove"] = 0 /\ afCounts'["register"] = 0
        /\ afCounts'["cleanup"] = 0
        /\ afCalls'["remove"] = 0 /\ afCalls'["register"] = 0
    BY <2>1 DEF AF!UnderWay, AF!Kinds, AF!Counted
  <2> QED BY <1>1, <1>6, <2>1, <2>2, <2>3
<1>16. CASE UNCHANGED AF!service
  BY <1>16 DEF AF!service, ServiceInv, AF!CountersAccount, AF!UnderWay
<1>17. CASE UNCHANGED afVars
  BY <1>16, <1>17 DEF afVars, AF!service
<1> QED
  BY <1>8, <1>9, <1>10, <1>11, <1>12, <1>13, <1>14, <1>15, <1>16, <1>17
  DEF AF!Next, AF!ReadEntries, AF!ReadCounters, AF!ReadEvents, AF!Merge,
      AF!FetchFails

\* The page turns an answer around.
LEMMA ReversedIs ==
  ASSUME NEW t \in Nat, NEW n \in 0 .. t
  PROVE  Reversed(DownFrom(t, n)) = UpFrom(t, n)
<1> DEFINE d == DownFrom(t, n)
<1>1. Len(d) = n /\ \A k \in 1 .. n : d[k] = (t + 1) - k
  BY DownFromIs
<1> HIDE DEF d
<1>2. Reversed(d) = [k \in 1 .. n |-> d[(n - k) + 1]]
  BY <1>1 DEF Reversed
<1>3. \A k \in 1 .. n : d[(n - k) + 1] = (t - n) + k
  BY <1>1
<1>4. Reversed(d) = UpFrom(t, n)
  BY <1>2, <1>3 DEF UpFrom
<1> QED BY <1>4 DEF d

\* A sequence that increases, and one without a number above n.
Increasing(s) == \A k \in 1 .. Len(s) - 1 : s[k] < s[k + 1]
NotAbove(s, n) == \A k \in 1 .. Len(s) : s[k] <= n

Cut(s, n) == SubSeq(s, 1, Less(n, Len(s)))

\* What a merge leaves on the page.
LEMMA MergedIs ==
  ASSUME NEW B \in Nat, NEW P \in Nat, NEW s \in Seq(1 .. B), Len(s) <= P,
         NEW th \in 0 .. B, Increasing(s), NotAbove(s, th),
         NEW t \in 0 .. B, NEW c \in 1 .. t - th
  PROVE  LET q == Cut(s \o UpFrom(t, c), P)
         IN /\ q \in Seq(1 .. B) /\ Len(q) <= P
            /\ Increasing(q) /\ NotAbove(q, t)
            /\ s = UpFrom(th, th) /\ c = t - th /\ t <= P => q = UpFrom(t, t)
<1> DEFINE L == Len(s)
           f == UpFrom(t, c)
           M == s \o f
           m == Less(P, Len(M))
           q == SubSeq(M, 1, m)
<1>1. /\ L \in Nat /\ c \in Nat /\ t \in Nat /\ th \in Nat /\ th < t
      /\ c <= t - th /\ c \in 0 .. t
  OBVIOUS
<1>2. /\ f \in Seq(1 .. t) /\ Len(f) = c
      /\ \A k \in 1 .. c : f[k] = (t - c) + k
  BY <1>1, UpFromIs
<1> HIDE DEF f
<1>3. f \in Seq(1 .. B)
  <2>1. \A k \in 1 .. c : f[k] \in 1 .. B
    BY <1>1, <1>2
  <2> QED BY <1>1, <1>2, <2>1
<1>4. M \in Seq(1 .. B) /\ Len(M) = L + c
  <2>1. M \in Seq(1 .. B)
    BY <1>3
  <2>2. Len(M) = Len(s) + Len(f)
    BY <1>3
  <2> QED BY <1>2, <2>1, <2>2
<1>5. \A k \in 1 .. L : M[k] = s[k]
  BY <1>2, <1>3
<1>6. \A k \in 1 .. c : M[L + k] = (t - c) + k
  BY <1>2, <1>3
<1>7. m \in 0 .. L + c /\ m <= P /\ (m = P \/ m = L + c)
  BY <1>1, <1>4 DEF Less
<1> HIDE DEF M, m
<1>8. q \in Seq(1 .. B) /\ Len(q) = m /\ \A k \in 1 .. m : q[k] = M[k]
  BY <1>1, <1>4, <1>7
<1> HIDE DEF q
<1>9. ASSUME NEW k \in 1 .. L + c PROVE M[k] \in Nat /\ M[k] <= t
  <2>1. CASE k <= L
    <3>1. k \in 1 .. L /\ s[k] <= th /\ s[k] \in 1 .. B
      BY <1>1, <2>1 DEF NotAbove
    <3> QED BY <1>1, <1>5, <3>1
  <2>2. CASE ~(k <= L)
    <3>1. k - L \in 1 .. c /\ L + (k - L) = k
      BY <1>1, <2>2
    <3>2. M[k] = (t - c) + (k - L)
      BY <1>6, <3>1
    <3> QED BY <1>1, <3>1, <3>2
  <2> QED BY <2>1, <2>2
<1>10. ASSUME NEW k \in 1 .. (L + c) - 1 PROVE M[k] < M[k + 1]
  <2>1. CASE k < L
    <3>1. k \in 1 .. L - 1 /\ k \in 1 .. L /\ k + 1 \in 1 .. L
      BY <1>1, <2>1
    <3> QED BY <1>5, <3>1 DEF Increasing
  <2>2. CASE k = L
    <3>1. k \in 1 .. L /\ s[k] <= th /\ s[k] \in 1 .. B /\ 1 \in 1 .. c
      BY <1>1, <2>2 DEF NotAbove
    <3>2. M[k] = s[k] /\ M[k + 1] = (t - c) + 1
      BY <1>5, <1>6, <2>2, <3>1
    <3> QED BY <1>1, <3>1, <3>2
  <2>3. CASE k > L
    <3>1. /\ k - L \in 1 .. c /\ L + (k - L) = k
          /\ k + 1 - L \in 1 .. c /\ L + (k + 1 - L) = k + 1
      BY <1>1, <2>3
    <3>2. M[k] = (t - c) + (k - L) /\ M[k + 1] = (t - c) + (k + 1 - L)
      BY <1>6, <3>1
    <3> QED BY <1>1, <3>1, <3>2
  <2> QED BY <1>1, <2>1, <2>2, <2>3
<1>11. Increasing(q)
  <2> SUFFICES ASSUME NEW k \in 1 .. m - 1 PROVE q[k] < q[k + 1]
    BY <1>8 DEF Increasing
  <2>1. k \in 1 .. m /\ k + 1 \in 1 .. m /\ k \in 1 .. (L + c) - 1
    BY <1>1, <1>7
  <2> QED BY <1>8, <1>10, <2>1
<1>12. NotAbove(q, t)
  <2> SUFFICES ASSUME NEW k \in 1 .. m PROVE q[k] <= t
    BY <1>8 DEF NotAbove
  <2>1. k \in 1 .. L + c
    BY <1>1, <1>7
  <2> QED BY <1>8, <1>9, <2>1
<1>13. ASSUME s = UpFrom(th, th), c = t - th, t <= P PROVE q = UpFrom(t, t)
  <2>1. L = th /\ \A k \in 1 .. th : s[k] = k
    <3>1. th \in 0 .. th
      BY <1>1
    <3>2. Len(UpFrom(th, th)) = th
          /\ \A k \in 1 .. th : UpFrom(th, th)[k] = (th - th) + k
      BY <1>1, <3>1, UpFromIs
    <3> QED BY <1>1, <1>13, <3>2
  <2>2. L + c = t /\ m = t
    BY <1>1, <1>4, <1>7, <1>13, <2>1 DEF m, Less
  <2>3. ASSUME NEW k \in 1 .. t PROVE q[k] = k
    <3>1. CASE k <= L
      BY <1>1, <1>5, <1>8, <2>1, <2>2, <3>1
    <3>2. CASE ~(k <= L)
      <4>1. k - L \in 1 .. c /\ L + (k - L) = k
        BY <1>1, <2>2, <3>2
      <4>2. M[k] = (t - c) + (k - L)
        BY <1>6, <4>1
      <4> QED BY <1>1, <1>8, <2>1, <2>2, <4>2
    <3> QED BY <3>1, <3>2
  <2>4. UpFrom(t, t) = [k \in 1 .. t |-> k]
    BY <1>1 DEF UpFrom
  <2>5. q = [k \in 1 .. t |-> q[k]]
    BY <1>1, <1>8, <2>2
  <2> QED BY <2>3, <2>4, <2>5
<1> QED BY <1>7, <1>8, <1>11, <1>12, <1>13 DEF q, M, m, f, Cut

\* What an answer shows of t events.
Shown(t) == Less(Less(t, Capacity), Window)

\* The answer was read when the service had pushed t events.
AnswerOf(t) ==
  /\ afAnswer.events = DownFrom(t, Shown(t)) /\ afAnswer.uptime <= t
  /\ ~afLate => /\ t <= afNow /\ t <= PageLimit
                /\ t - afPage.threshold <= Less(Window, Capacity)

AnswerInv ==
  /\ afAnswer \in [stage : {"none", "entries", "counters", "sent"},
                   listed : SUBSET Relays, uptime : 0 .. MaxEvents,
                   events : Seq(1 .. MaxEvents)]
  /\ afAnswer.stage # "sent" => afAnswer.events = <<>>
  /\ afAnswer.stage = "counters" => afAnswer.uptime <= afNow
  /\ afAnswer.stage = "sent" => \E t \in 0 .. MaxEvents : AnswerOf(t)

PageInv ==
  /\ afPage \in [listed : SUBSET Relays, uptime : 0 .. MaxEvents,
                 log : Seq(1 .. MaxEvents), threshold : 0 .. MaxEvents]
  /\ Len(afPage.log) <= PageLimit
  /\ Increasing(afPage.log) /\ NotAbove(afPage.log, afPage.threshold)
  /\ ~afLate => /\ afPage.log = UpFrom(afPage.threshold, afPage.threshold)
                /\ afPage.threshold <= afNow
                /\ afPage.uptime <= afPage.threshold

RingInv == afLog = UpFrom(afNow, Less(afNow, Capacity))

FeedInv ==
  ServiceInv /\ RingInv /\ AnswerInv /\ PageInv /\ afLate \in BOOLEAN

LEMMA ShownIs ==
  ASSUME NEW t \in Nat
  PROVE  Shown(t) \in 0 .. t /\ Shown(t) <= Window
BY SizesAssumption DEF Shown, Less

LEMMA FeedInit == AF!Init => FeedInv
<1> SUFFICES ASSUME AF!Init PROVE FeedInv
  OBVIOUS
<1>1. UpFrom(0, 0) = <<>> /\ Less(0, Capacity) = 0
  BY SizesAssumption DEF UpFrom, Less
<1>2. RingInv
  BY <1>1 DEF AF!Init, RingInv
<1>3. AnswerInv
  BY SizesAssumption DEF AF!Init, AF!NoAnswer, AnswerInv
<1>4. PageInv
  BY <1>1, SizesAssumption DEF AF!Init, PageInv, Increasing, NotAbove
<1> QED BY <1>2, <1>3, <1>4, ServiceInit DEF FeedInv, AF!Init

\* The page takes what is newer than its threshold: the answer begins at or
\* before the threshold, unless the page was outrun.
LEMMA MergeStep ==
  ASSUME FeedInv, AF!Merge PROVE AnswerInv' /\ PageInv'
<1> DEFINE th == afPage.threshold
           fresh == AF!Later(AF!Reverse(afAnswer.events), th)
           merged == afPage.log \o fresh
           cut == SubSeq(merged, 1, Less(PageLimit, Len(merged)))
<1>1. /\ afAnswer.stage = "sent" /\ afAnswer' = AF!NoAnswer
      /\ afPage' = [afPage EXCEPT
           !.listed = afAnswer.listed, !.uptime = afAnswer.uptime,
           !.threshold = IF fresh = <<>> THEN @ ELSE AF!Last(fresh),
           !.log = SubSeq(merged, 1, AF!Min({PageLimit, Len(merged)}))]
      /\ UNCHANGED <<afNow, afLate>>
  BY DEF AF!Merge, AF!service
<1>2. PICK t \in 0 .. MaxEvents : AnswerOf(t)
  BY <1>1 DEF FeedInv, AnswerInv
<1>a. /\ MaxEvents \in Nat /\ PageLimit \in Nat /\ Window \in Nat \ {0}
      /\ Capacity \in Nat \ {0} /\ t \in Nat
  BY SizesAssumption
<1>b. /\ th \in 0 .. MaxEvents
      /\ afPage.log \in Seq(1 .. MaxEvents) /\ Len(afPage.log) <= PageLimit
      /\ Increasing(afPage.log) /\ NotAbove(afPage.log, th)
      /\ afPage = [listed |-> afPage.listed, uptime |-> afPage.uptime,
                   log |-> afPage.log, threshold |-> th]
  BY DEF FeedInv, PageInv
<1>c. afAnswer.listed \subseteq Relays /\ afAnswer.uptime \in 0 .. MaxEvents
  BY DEF FeedInv, AnswerInv
<1>d. Shown(t) \in 0 .. t
  BY <1>a, ShownIs
<1>3. /\ t \in Nat /\ th \in Nat /\ Shown(t) \in 0 .. t
  BY <1>a, <1>b, <1>d
<1> DEFINE c == Less(Shown(t), IF t > th THEN t - th ELSE 0)
<1>4. fresh = UpFrom(t, c)
  <2>1. AF!Reverse(afAnswer.events) = UpFrom(t, Shown(t))
    BY <1>2, <1>3, ReversedIs, SameBuffers DEF AnswerOf
  <2> QED BY <1>3, <2>1, LaterIs
<1>5. c \in 0 .. t /\ Len(fresh) = c
  <2>1. c \in 0 .. t
    BY <1>3 DEF Less
  <2> HIDE DEF c
  <2> QED BY <1>3, <1>4, <2>1, UpFromIs
<1>6. AF!Min({PageLimit, Len(merged)}) = Less(PageLimit, Len(merged))
  <2>1. fresh \in Seq(1 .. t)
    <3> HIDE DEF c
    <3> QED BY <1>3, <1>4, <1>5, UpFromIs
  <2>2. fresh \in Seq(Nat) /\ afPage.log \in Seq(Nat)
    <3>1. 1 .. t \subseteq Nat /\ 1 .. MaxEvents \subseteq Nat
      BY <1>a
    <3> HIDE DEF fresh
    <3>2. fresh \in Seq(Nat)
      BY <2>1, <3>1, WiderSeq
    <3> QED BY <1>b, <3>1, <3>2, WiderSeq
  <2> HIDE DEF fresh
  <2>3. Len(merged) \in Nat
    BY <2>2
  <2> QED BY <1>a, <2>3, LessIs
<1>7. AnswerInv'
  BY <1>1, SizesAssumption DEF AF!NoAnswer, AnswerInv
<1>10. afPage' = [listed |-> afAnswer.listed, uptime |-> afAnswer.uptime,
                  log |-> cut,
                  threshold |-> IF fresh = <<>> THEN th ELSE AF!Last(fresh)]
  <2> HIDE DEF fresh, merged
  <2> QED BY <1>1, <1>6, <1>b DEF cut
<1>8. CASE c = 0
  <2>1. fresh = <<>>
    BY <1>4, <1>8 DEF UpFrom
  <2>2. cut = afPage.log
    <3>1. merged = afPage.log
      BY <1>b, <2>1
    <3>2. Less(PageLimit, Len(afPage.log)) = Len(afPage.log)
      BY <1>a, <1>b DEF Less
    <3> HIDE DEF merged
    <3> QED BY <1>b, <3>1, <3>2
  <2>3. ~afLate => t <= th
    BY <1>a, <1>2, <1>3, <1>8 DEF Shown, Less
  <2>4. ~afLate => afAnswer.uptime <= th
    BY <1>2, <1>3, <1>c, <2>3 DEF AnswerOf
  <2>5. /\ afPage'.listed = afAnswer.listed
        /\ afPage'.uptime = afAnswer.uptime
        /\ afPage'.log = afPage.log /\ afPage'.threshold = th
        /\ afPage' = [listed |-> afAnswer.listed, uptime |-> afAnswer.uptime,
                      log |-> afPage.log, threshold |-> th]
    <3> HIDE DEF fresh, cut
    <3> QED BY <1>10, <2>1, <2>2
  <2>6. ~afLate => afPage.log = UpFrom(th, th) /\ th <= afNow
    BY DEF FeedInv, PageInv
  <2>7. PageInv'
    <3> HIDE DEF th
    <3> QED BY <1>1, <1>b, <1>c, <2>4, <2>5, <2>6 DEF PageInv
  <2> QED BY <1>7, <2>7
<1>9. CASE c # 0
  <2>1. c \in 1 .. t - th /\ t > th
    BY <1>3, <1>9 DEF Less
  <2>2. fresh # <<>> /\ AF!Last(fresh) = t
    <3>1. Len(fresh) = c /\ fresh[c] = (t - c) + c
      <4> HIDE DEF c
      <4> QED BY <1>3, <1>4, <1>5, <2>1, UpFromIs
    <3> HIDE DEF fresh, c
    <3> QED BY <1>3, <2>1, <3>1 DEF AF!Last
  <2>3. /\ cut \in Seq(1 .. MaxEvents) /\ Len(cut) <= PageLimit
        /\ Increasing(cut) /\ NotAbove(cut, t)
        /\ afPage.log = UpFrom(th, th) /\ c = t - th /\ t <= PageLimit
             => cut = UpFrom(t, t)
    <3> DEFINE p == afPage.log
               q == Cut(p \o UpFrom(t, c), PageLimit)
    <3>1. cut = q
      BY <1>4 DEF Cut
    <3>2. /\ p \in Seq(1 .. MaxEvents) /\ Len(p) <= PageLimit
          /\ Increasing(p) /\ NotAbove(p, th) /\ th \in 0 .. MaxEvents
      BY <1>b
    <3> HIDE DEF c, th, p, cut
    <3>3. /\ q \in Seq(1 .. MaxEvents) /\ Len(q) <= PageLimit
          /\ Increasing(q) /\ NotAbove(q, t)
          /\ p = UpFrom(th, th) /\ c = t - th /\ t <= PageLimit
               => q = UpFrom(t, t)
      <4>1. t \in 0 .. MaxEvents /\ c \in 1 .. t - th
            /\ MaxEvents \in Nat /\ PageLimit \in Nat
        BY <1>a, <2>1
      <4> QED BY <3>2, <4>1, MergedIs, ZenonT(60)
    <3> HIDE DEF q
    <3> QED BY <3>1, <3>3 DEF p
  <2>4. ~afLate => c = t - th /\ t <= PageLimit /\ t <= afNow
    BY <1>a, <1>2, <1>3, <2>1 DEF Shown, Less, AnswerOf
  <2>5. /\ afPage'.listed = afAnswer.listed
        /\ afPage'.uptime = afAnswer.uptime
        /\ afPage'.log = cut /\ afPage'.threshold = t
        /\ afPage' = [listed |-> afAnswer.listed, uptime |-> afAnswer.uptime,
                      log |-> cut, threshold |-> t]
    <3> HIDE DEF fresh, cut
    <3> QED BY <1>10, <2>2
  <2>6. ~afLate => afPage.log = UpFrom(th, th)
    BY DEF FeedInv, PageInv
  <2>7. afAnswer.uptime <= t
    BY <1>2 DEF AnswerOf
  <2>8. PageInv'
    <3> HIDE DEF th, cut, c
    <3> QED BY <1>1, <1>a, <1>c, <2>3, <2>4, <2>5, <2>6, <2>7 DEF PageInv
  <2> QED BY <1>7, <2>8
<1> QED BY <1>8, <1>9

\* Handlers, answers and restarts, in any order.
LEMMA FeedStep == FeedInv /\ [AF!Next]_afVars => FeedInv'
<1> SUFFICES ASSUME FeedInv, [AF!Next]_afVars PROVE FeedInv'
  OBVIOUS
<1>1. ServiceInv' /\ ServiceInv
  BY ServiceStep DEF FeedInv
<1>2. /\ afNow \in Nat /\ afNow <= MaxEvents /\ MaxEvents \in Nat
      /\ afListed \subseteq Relays /\ afLate \in BOOLEAN
  <2>1. AF!UnderWay \in Nat /\ afNow \in Nat /\ MaxEvents \in Nat
    BY <1>1, SizesAssumption DEF ServiceInv, AF!UnderWay, AF!Kinds
  <2>2. afNow + AF!UnderWay + (IF afSwept > 0 THEN 1 ELSE 0) <= MaxEvents
    BY <1>1 DEF ServiceInv
  <2> QED BY <1>1, <2>1, <2>2 DEF ServiceInv, FeedInv
\* The view stays, and the clock does not go back.
<1>3. ASSUME UNCHANGED <<afAnswer, afPage, afLate>>, afNow' \in Nat,
             afNow' >= afNow, RingInv'
      PROVE  FeedInv'
  <2>1. AnswerInv'
    <3>1. ASSUME NEW t \in 0 .. MaxEvents, AnswerOf(t) PROVE AnswerOf(t)'
      BY <1>2, <1>3, <3>1 DEF AnswerOf
    <3> QED BY <1>2, <1>3, <3>1 DEF FeedInv, AnswerInv
  <2>2. PageInv'
    BY <1>2, <1>3 DEF FeedInv, PageInv
  <2> QED BY <1>1, <1>2, <1>3, <2>1, <2>2 DEF FeedInv
<1>4. CASE UNCHANGED <<afLog, afNow, afAnswer, afPage, afLate>>
  BY <1>2, <1>3, <1>4 DEF FeedInv, RingInv
<1>5. ASSUME AF!PushEvent, UNCHANGED AF!view PROVE FeedInv'
  <2>1. /\ afLog' = Pushed(afLog, afNow + 1) /\ afNow' = afNow + 1
        /\ UNCHANGED <<afAnswer, afPage, afLate>>
    BY <1>5, SameBuffers DEF AF!PushEvent, AF!view
  <2>2. RingInv'
    BY <1>2, <2>1, PushIs DEF FeedInv, RingInv
  <2> QED BY <1>2, <1>3, <2>1, <2>2
<1>6. ASSUME AF!Restart PROVE FeedInv'
  <2>1. /\ afLog' = <<>> /\ afNow' = 0 /\ ~afLate /\ UNCHANGED afPage
        /\ afAnswer' = IF afAnswer.stage = "sent" THEN afAnswer
                       ELSE AF!NoAnswer
        /\ afLate' = (afPage.threshold > 0 \/ afAnswer.stage = "sent")
    BY <1>6 DEF AF!Restart
  <2>2. RingInv'
    <3>1. UpFrom(0, 0) = <<>> /\ Less(0, Capacity) = 0
      BY SizesAssumption DEF UpFrom, Less
    <3> QED BY <2>1, <3>1 DEF RingInv
  <2>3. AnswerInv'
    <3>1. CASE afAnswer.stage = "sent"
      <4>1. afLate' /\ UNCHANGED <<afAnswer, afPage>>
        BY <2>1, <3>1
      <4>2. ASSUME NEW t \in 0 .. MaxEvents, AnswerOf(t) PROVE AnswerOf(t)'
        BY <4>1, <4>2 DEF AnswerOf
      <4> QED BY <3>1, <4>1, <4>2 DEF FeedInv, AnswerInv
    <3>2. CASE afAnswer.stage # "sent"
      <4>1. afAnswer' = AF!NoAnswer
        BY <2>1, <3>2
      <4> QED BY <1>2, <4>1 DEF AnswerInv, AF!NoAnswer
    <3> QED BY <3>1, <3>2
  <2>4. PageInv'
    <3>1. ~afLate' => afPage.threshold = 0
      <4>1. afPage.threshold \in 0 .. MaxEvents
        BY DEF FeedInv, PageInv
      <4>2. ~afLate' => ~(afPage.threshold > 0)
        BY Zenon, <2>1
      <4> QED BY <4>1, <4>2
    <3> QED BY <2>1, <3>1 DEF FeedInv, PageInv
  <2>5. afLate' \in BOOLEAN
    BY <2>1
  <2> QED BY <1>1, <2>2, <2>3, <2>4, <2>5 DEF FeedInv
<1>7. ASSUME UNCHANGED <<afLog, afNow, afPage>>, AnswerInv', PageInv',
             afLate' \in BOOLEAN
      PROVE  FeedInv'
  BY <1>1, <1>7 DEF FeedInv, RingInv
<1>8. ASSUME AF!ReadEntries PROVE FeedInv'
  <2>1. /\ afAnswer' = [AF!NoAnswer EXCEPT !.stage = "entries",
                                           !.listed = afListed]
        /\ UNCHANGED <<afLog, afNow, afPage, afLate>>
    BY <1>8 DEF AF!ReadEntries, AF!service
  <2>2. afAnswer' = [stage |-> "entries", listed |-> afListed, uptime |-> 0,
                     events |-> <<>>]
    BY <2>1 DEF AF!NoAnswer
  <2>4. AnswerInv'
    BY <1>2, <2>2 DEF AnswerInv
  <2>3. PageInv'
    BY <2>1 DEF FeedInv, PageInv
  <2> QED BY <1>2, <1>7, <2>1, <2>3, <2>4
<1>9. ASSUME AF!ReadCounters PROVE FeedInv'
  <2>1. /\ afAnswer' = [afAnswer EXCEPT !.stage = "counters",
                                        !.uptime = afNow]
        /\ afAnswer.stage = "entries"
        /\ UNCHANGED <<afLog, afNow, afPage, afLate>>
    BY <1>9 DEF AF!ReadCounters, AF!service
  <2>2. AnswerInv'
    <3>1. /\ afAnswer \in
               [stage : {"none", "entries", "counters", "sent"},
                listed : SUBSET Relays, uptime : 0 .. MaxEvents,
                events : Seq(1 .. MaxEvents)]
          /\ afAnswer.events = <<>>
      BY <2>1 DEF FeedInv, AnswerInv
    <3>2. /\ afAnswer' \in
               [stage : {"none", "entries", "counters", "sent"},
                listed : SUBSET Relays, uptime : 0 .. MaxEvents,
                events : Seq(1 .. MaxEvents)]
          /\ afAnswer'.events = <<>> /\ afAnswer'.uptime = afNow
          /\ afAnswer'.stage = "counters"
      <4>1. afNow \in 0 .. MaxEvents
        BY <1>2
      <4> QED BY <2>1, <3>1, <4>1
    <3> QED BY <1>2, <2>1, <3>2 DEF AnswerInv
  <2>3. PageInv'
    BY <2>1 DEF FeedInv, PageInv
  <2> QED BY <1>2, <1>7, <2>1, <2>2, <2>3
<1>10. ASSUME AF!ReadEvents PROVE FeedInv'
  <2>1. /\ afAnswer.stage = "counters"
        /\ afAnswer' = [afAnswer EXCEPT !.stage = "sent",
                                        !.events = Latest(afLog, Window)]
        /\ afLate' = (afLate \/ afNow - afPage.threshold
                                  > AF!Min({Window, Capacity})
                             \/ afNow > PageLimit)
        /\ UNCHANGED <<afLog, afNow, afPage>>
    BY <1>10, SameBuffers DEF AF!ReadEvents, AF!service
  <2>2. Latest(afLog, Window) = DownFrom(afNow, Shown(afNow))
    <3>1. Less(afNow, Capacity) \in 0 .. afNow /\ Window \in Nat
      BY <1>2, SizesAssumption DEF Less
    <3>2. afLog = UpFrom(afNow, Less(afNow, Capacity))
      BY DEF FeedInv, RingInv
    <3> QED BY <1>2, <3>1, <3>2, LatestIs DEF Shown
  <2>3. AF!Min({Window, Capacity}) = Less(Window, Capacity)
    BY LessIs, SizesAssumption
  <2>4. /\ afAnswer'.stage = "sent"
        /\ afAnswer'.events = DownFrom(afNow, Shown(afNow))
        /\ afAnswer'.uptime = afAnswer.uptime /\ afAnswer.uptime <= afNow
        /\ DownFrom(afNow, Shown(afNow)) \in Seq(1 .. MaxEvents) =>
             afAnswer' \in
               [stage : {"none", "entries", "counters", "sent"},
                listed : SUBSET Relays, uptime : 0 .. MaxEvents,
                events : Seq(1 .. MaxEvents)]
    BY <2>1, <2>2 DEF FeedInv, AnswerInv
  <2>5. DownFrom(afNow, Shown(afNow)) \in Seq(1 .. MaxEvents)
    <3>1. DownFrom(afNow, Shown(afNow)) \in Seq(1 .. afNow)
      BY <1>2, ShownIs, DownFromIs
    <3>2. 1 .. afNow \subseteq 1 .. MaxEvents
      BY <1>2
    <3> HIDE DEF Shown
    <3> QED BY <3>1, <3>2, WiderSeq
  <2>6. AnswerOf(afNow)'
    <3>1. ~afLate' => afNow <= PageLimit
                      /\ afNow - afPage.threshold <= Less(Window, Capacity)
      <4>1. Less(Window, Capacity) \in Nat /\ PageLimit \in Nat
            /\ afPage.threshold \in 0 .. MaxEvents
        BY SizesAssumption DEF Less, FeedInv, PageInv
      <4>2. ~afLate' => ~(afNow - afPage.threshold
                            > AF!Min({Window, Capacity}))
                        /\ ~(afNow > PageLimit)
        BY Zenon, <2>1
      <4> QED BY <1>2, <2>3, <4>1, <4>2
    <3> QED BY <1>2, <2>1, <2>4, <3>1 DEF AnswerOf
  <2>7. AnswerInv'
    <3>1. \E t \in 0 .. MaxEvents : AnswerOf(t)'
      <4>1. PICK t \in 0 .. MaxEvents : t = afNow
        BY <1>2
      <4>2. AnswerOf(t)'
        BY <2>1, <2>6, <4>1 DEF AnswerOf
      <4> QED BY <4>2
    <3> QED BY <2>4, <2>5, <3>1 DEF AnswerInv
  <2>8. PageInv' /\ afLate' \in BOOLEAN
    BY <1>2, <2>1 DEF FeedInv, PageInv
  <2> QED BY <1>7, <2>1, <2>7, <2>8
<1>11. ASSUME AF!Merge PROVE FeedInv'
  <2>1. UNCHANGED <<afLog, afNow, afLate>>
    BY <1>11 DEF AF!Merge, AF!service
  <2>2. AnswerInv' /\ PageInv'
    BY <1>11, MergeStep
  <2> QED BY <1>1, <1>2, <2>1, <2>2 DEF FeedInv, RingInv
<1>12. ASSUME AF!FetchFails PROVE FeedInv'
  <2>1. /\ afAnswer' = AF!NoAnswer
        /\ UNCHANGED <<afLog, afNow, afPage, afLate>>
    BY <1>12 DEF AF!FetchFails, AF!service
  <2>2. AnswerInv'
    BY <1>2, <2>1 DEF AnswerInv, AF!NoAnswer
  <2>3. PageInv'
    BY <2>1 DEF FeedInv, PageInv
  <2> QED BY <1>2, <1>7, <2>1, <2>2, <2>3
<1>13. ASSUME NEW r \in Relays,
              AF!RegisterNode(r) \/ AF!UpdateHeartbeat(r) \/ AF!RemoveNode(r)
       PROVE  FeedInv'
  BY <1>4, <1>13
     DEF AF!RegisterNode, AF!UpdateHeartbeat, AF!RemoveNode, AF!view
<1>14. ASSUME AF!Query PROVE FeedInv'
  BY <1>4, <1>14 DEF AF!Query, AF!view
<1>15. ASSUME NEW kind \in AF!Kinds, AF!Account(kind) PROVE FeedInv'
  BY <1>5, <1>15 DEF AF!Account
<1>16. ASSUME NEW stale \in SUBSET afListed \ {{}}, AF!CleanUp(stale)
       PROVE  FeedInv'
  BY <1>4, <1>16 DEF AF!CleanUp, AF!view
<1>17. ASSUME AF!AccountCleanUp PROVE FeedInv'
  BY <1>5, <1>17 DEF AF!AccountCleanUp
<1>18. CASE UNCHANGED afVars
  BY <1>4, <1>18 DEF afVars
<1> QED BY <1>6, <1>8, <1>9, <1>10, <1>11, <1>12, <1>13, <1>14, <1>15, <1>16,
           <1>17, <1>18 DEF AF!Next

LEMMA FeedShows ==
  FeedInv => AF!TypeOK /\ AF!FeedFaithful /\ AF!CountersAccount
<1> SUFFICES ASSUME FeedInv
             PROVE  AF!TypeOK /\ AF!FeedFaithful /\ AF!CountersAccount
  OBVIOUS
<1>1. afNow \in Nat /\ afNow <= MaxEvents /\ MaxEvents \in Nat
  <2>1. AF!UnderWay \in Nat /\ afNow \in Nat /\ MaxEvents \in Nat
    BY SizesAssumption DEF FeedInv, ServiceInv, AF!UnderWay, AF!Kinds
  <2>2. afNow + AF!UnderWay + (IF afSwept > 0 THEN 1 ELSE 0) <= MaxEvents
    BY DEF FeedInv, ServiceInv
  <2> QED BY <2>1, <2>2
<1>2. AF!TypeOK
  <2>1. /\ afPhase \in [Relays -> {"new", "up", "gone"}]
        /\ afListed \subseteq Relays
        /\ afCalls \in [AF!Kinds -> Nat] /\ afCounts \in [AF!Counted -> Nat]
        /\ afSwept \in 0 .. AF!Cardinality(Relays)
        /\ afLate \in BOOLEAN
    BY CardinalityIs DEF FeedInv, ServiceInv
  <2>2. afLog \in Seq(1 .. afNow) /\ Len(afLog) <= Capacity
    <3>1. Less(afNow, Capacity) \in 0 .. afNow
          /\ Less(afNow, Capacity) <= Capacity
      BY <1>1, SizesAssumption DEF Less
    <3>2. afLog = UpFrom(afNow, Less(afNow, Capacity))
      BY DEF FeedInv, RingInv
    <3> QED BY <1>1, <3>1, <3>2, UpFromIs
  <2>3. Len(afAnswer.events) <= Window
    <3>1. CASE afAnswer.stage = "sent"
      <4>1. PICK t \in 0 .. MaxEvents : AnswerOf(t)
        BY <3>1 DEF FeedInv, AnswerInv
      <4>2. t \in Nat /\ Shown(t) \in 0 .. t /\ Shown(t) <= Window
        BY <1>1, ShownIs
      <4>3. afAnswer.events = DownFrom(t, Shown(t))
        BY <4>1 DEF AnswerOf
      <4> QED BY <4>2, <4>3, DownFromIs
    <3>2. CASE afAnswer.stage # "sent"
      BY <3>2, SizesAssumption DEF FeedInv, AnswerInv
    <3> QED BY <3>1, <3>2
  <2>4. /\ afAnswer.stage \in {"none", "entries", "counters", "sent"}
        /\ afAnswer.events \in Seq(1 .. MaxEvents)
    BY DEF FeedInv, AnswerInv
  <2>5. /\ afPage.listed \subseteq Relays /\ afPage.uptime \in 0 .. MaxEvents
        /\ afPage.log \in Seq(1 .. MaxEvents) /\ Len(afPage.log) <= PageLimit
        /\ afPage.threshold \in 0 .. MaxEvents
    BY DEF FeedInv, PageInv
  <2> QED BY <1>1, <2>1, <2>2, <2>3, <2>4, <2>5 DEF AF!TypeOK
<1>3. AF!FeedFaithful
  <2>1. \A k \in 1 .. Len(afPage.log) - 1 : afPage.log[k] < afPage.log[k + 1]
    BY DEF FeedInv, PageInv, Increasing
  <2>2. ASSUME ~afLate
        PROVE  /\ afPage.log = [k \in 1 .. Len(afPage.log) |-> k]
               /\ Len(afPage.log) >= afPage.uptime
    <3>1. /\ afPage.log = UpFrom(afPage.threshold, afPage.threshold)
          /\ afPage.uptime <= afPage.threshold
          /\ afPage.threshold \in 0 .. MaxEvents
      BY <2>2 DEF FeedInv, PageInv
    <3>2. PICK th \in Nat : afPage.threshold = th
      BY <3>1
    <3>3. Len(UpFrom(th, th)) = th /\ UpFrom(th, th) = [k \in 1 .. th |-> k]
      BY DEF UpFrom
    <3> QED BY <3>1, <3>2, <3>3
  <2> QED BY <2>1, <2>2 DEF AF!FeedFaithful
<1> QED BY <1>2, <1>3 DEF FeedInv, ServiceInv
-----------------------------------------------------------------------------
(* The start.                                                              *)

StartFields == SU!RelayFields \union SU!ClientFields

Values == UNION {SU!Texts(f) : f \in StartFields}

\* The forms as keys may leave them.
FormTexts(F) == {t \in [F -> Values] : \A f \in F : t[f] \in SU!Texts(f)}
Types == {"Entry", "Middle", "Exit"}
RelayForm ==
  [type : Types \union {SU!NoType}, allowAll : BOOLEAN,
   bindHost : SU!Texts("Host"), tui : BOOLEAN,
   text : FormTexts(SU!RelayFields)]
ClientForm == [tui : BOOLEAN, text : FormTexts(SU!ClientFields)]

Fields == IF suRole = "relay" THEN SU!RelayFields ELSE SU!ClientFields

FormTyped ==
  \/ suRole = "relay" /\ suForm \in RelayForm
  \/ suRole = "client" /\ suForm \in ClientForm

\* What clap or the wizard has checked by now.
Checked ==
  /\ ~suWizard /\ suRole = "client" =>
       suForm.text.Hops \in 3 .. MaxHops /\ suForm.text.MaxRebuildAttempts >= 1
  /\ suWizard /\ suPhase \in {"accepted", "running", "failed"} =>
       /\ \A f \in Fields : SU!Takes(f, suForm.text[f])
       /\ suRole = "relay" => suForm.bindHost = "ip"

StartInv ==
  /\ FormTyped /\ Checked
  /\ suPhase \in {"parsed", "editing", "accepted", "running", "failed", "left"}
  /\ suWizard \in BOOLEAN /\ suFocused \in Nat
  /\ suPhase = "parsed" => ~suWizard /\ suError = SU!NoError
  /\ suPhase = "editing" => suWizard
  /\ suWizard /\ suRole = "relay" => suForm.type # SU!NoType
  /\ suFocused < Len(SU!ActiveFields)
  /\ suError # SU!NoError => suError \in Fields
  /\ suPhase = "editing" /\ suError # SU!NoError =>
       ~SU!Takes(suError, suForm.text[suError])
  /\ SU!AcceptedStarts

\* A field after the others.
LEMMA Longer ==
  ASSUME NEW T, NEW s \in Seq(T), NEW x \in T
  PROVE  /\ s \o <<x>> \in Seq(T) /\ Len(s \o <<x>>) = Len(s) + 1
         /\ (s \o <<x>>)[Len(s) + 1] = x
         /\ \A k \in 1 .. Len(s) : (s \o <<x>>)[k] = s[k]
<1>1. s \o <<x>> \in Seq(T)
  OBVIOUS
<1>2. Len(s \o <<x>>) = Len(s) + 1
  OBVIOUS
<1>3. (s \o <<x>>)[Len(s) + 1] = x
  OBVIOUS
<1>4. \A k \in 1 .. Len(s) : (s \o <<x>>)[k] = s[k]
  OBVIOUS
<1> QED BY <1>1, <1>2, <1>3, <1>4

LEMMA LongerByTwo ==
  ASSUME NEW T, NEW s \in Seq(T), NEW x \in T, NEW y \in T
  PROVE  LET l == (s \o <<x>>) \o <<y>>
         IN /\ Len(l) = Len(s) + 2
            /\ l[Len(s) + 1] = x /\ l[Len(s) + 2] = y
            /\ \A k \in 1 .. Len(s) : l[k] = s[k]
<1> DEFINE b == s \o <<x>>
           l == b \o <<y>>
<1>1. /\ b \in Seq(T) /\ Len(b) = Len(s) + 1 /\ b[Len(s) + 1] = x
      /\ \A k \in 1 .. Len(s) : b[k] = s[k]
  BY Longer
<1>2. /\ Len(l) = Len(b) + 1 /\ l[Len(b) + 1] = y
      /\ \A k \in 1 .. Len(b) : l[k] = b[k]
  <2> HIDE DEF b
  <2> QED BY <1>1, Longer
<1> HIDE DEF b, l
<1>3. /\ Len(l) = Len(s) + 2
      /\ l[Len(s) + 1] = x /\ l[Len(s) + 2] = y
      /\ \A k \in 1 .. Len(s) : l[k] = s[k]
  BY <1>1, <1>2
<1> QED BY <1>3 DEF b, l

\* The fields of the screen.
FieldsOK ==
  /\ suRole = "client" =>
       /\ Len(SU!ActiveFields) = 5
       /\ \A k \in 1 .. 5 : SU!ActiveFields[k] \in SU!ClientFields
  /\ suRole = "relay" =>
       /\ Len(SU!ActiveFields) = IF suForm.type = "Exit" THEN 8 ELSE 7
       /\ SU!ActiveFields[1] = "NodeType"
       /\ \A k \in 2 .. Len(SU!ActiveFields) :
            SU!ActiveFields[k] \in SU!RelayFields \union {"ExitAllowAll"}

LEMMA FieldsAre == FieldsOK
<1>1. ASSUME suRole = "client"
      PROVE  /\ Len(SU!ActiveFields) = 5
             /\ \A k \in 1 .. 5 : SU!ActiveFields[k] \in SU!ClientFields
  BY <1>1 DEF SU!ActiveFields, SU!ClientFields
<1>2. ASSUME suRole = "relay"
      PROVE  /\ Len(SU!ActiveFields) = IF suForm.type = "Exit" THEN 8 ELSE 7
             /\ SU!ActiveFields[1] = "NodeType"
             /\ \A k \in 2 .. Len(SU!ActiveFields) :
                  SU!ActiveFields[k] \in SU!RelayFields \union {"ExitAllowAll"}
  <2> DEFINE a == <<"NodeType", "Port", "Host", "DirectoryUrl", "Bandwidth",
                    "Heartbeat">>
  <2>1. CASE suForm.type = "Exit"
    <3>1. SU!ActiveFields = (a \o <<"ExitAllowAll">>) \o <<"OperatorId">>
      BY <1>2, <2>1 DEF SU!ActiveFields
    <3> DEFINE T == {"NodeType", "Port", "Host", "DirectoryUrl", "Bandwidth",
                     "Heartbeat", "ExitAllowAll", "OperatorId"}
    <3>2. a \in Seq(T) /\ Len(a) = 6
      OBVIOUS
    <3>3. /\ Len(SU!ActiveFields) = Len(a) + 2
          /\ SU!ActiveFields[Len(a) + 1] = "ExitAllowAll"
          /\ SU!ActiveFields[Len(a) + 2] = "OperatorId"
          /\ \A k \in 1 .. Len(a) : SU!ActiveFields[k] = a[k]
      <4>1. "ExitAllowAll" \in T /\ "OperatorId" \in T
        OBVIOUS
      <4> HIDE DEF a, T
      <4>2. a \in Seq(T)
        BY <3>2
      <4>3. LET l == (a \o <<"ExitAllowAll">>) \o <<"OperatorId">>
            IN /\ Len(l) = Len(a) + 2
               /\ l[Len(a) + 1] = "ExitAllowAll"
               /\ l[Len(a) + 2] = "OperatorId"
               /\ \A k \in 1 .. Len(a) : l[k] = a[k]
        BY <4>1, <4>2, LongerByTwo
      <4> QED BY <3>1, <4>3
    <3> QED BY <2>1, <3>2, <3>3 DEF SU!RelayFields
  <2>2. CASE suForm.type # "Exit"
    <3>1. SU!ActiveFields = (a \o <<>>) \o <<"OperatorId">>
      BY <1>2, <2>2 DEF SU!ActiveFields
    <3>2. a \o <<>> = a
      OBVIOUS
    <3>3. /\ Len(SU!ActiveFields) = 7 /\ SU!ActiveFields[7] = "OperatorId"
          /\ \A k \in 1 .. 6 : SU!ActiveFields[k] = a[k]
      BY <3>1, <3>2
    <3> QED BY <2>2, <3>3 DEF SU!RelayFields
  <2> QED BY <2>1, <2>2
<1> QED BY <1>1, <1>2 DEF FieldsOK

LEMMA TypesAre == SU!ToSet(SU!NodeTypes) = Types
  BY DEF SU!ToSet, SU!NodeTypes, Types

LEMMA LeastIs ==
  ASSUME NEW S \in SUBSET Nat, S # {} PROVE SU!Min(S) \in S
<1>1. PICK m \in S : \A k \in S : m <= k
  BY LeastNumber
<1> QED BY <1>1 DEF SU!Min

\* What each field can say.
LEMMA TextsAre ==
  /\ \A f \in {"Port", "Bandwidth", "Heartbeat",
                "MaxRebuildAttempts"} : SU!Texts(f) = {SU!Garbage, 0, 1}
  /\ SU!Texts("Hops") = {SU!Garbage, 2, 3, MaxHops, MaxHops + 1}
  /\ SU!Texts("Host") = {"ip", "name"}
  /\ SU!Texts("SocksAddr") = {"ip:port", "name:port", "bare"}
  /\ SU!Texts("PoolSize") = {SU!Garbage, 0, 1, SU!Huge}
  /\ SU!Texts("DirectoryUrl") =
       {"http://host", "https://host", "malformed", "bare"}
  /\ SU!Texts("OperatorId") = {"", "id"}
  BY DEF SU!Texts

\* A form is typed when each of its fields is.
LEMMA InFormTexts ==
  ASSUME NEW F \in SUBSET StartFields, NEW t, t = [f \in F |-> t[f]],
         \A f \in F : t[f] \in SU!Texts(f)
  PROVE  t \in FormTexts(F)
<1>1. \A f \in F : t[f] \in Values
  BY DEF Values
<1>2. t \in [F -> Values]
  BY <1>1
<1> QED BY <1>2 DEF FormTexts

LEMMA StartInit == SU!Init => StartInv
<1> SUFFICES ASSUME SU!Init PROVE StartInv
  OBVIOUS
<1>1. FormTyped
  <2>1. ASSUME suRole = "relay", suForm \in SU!RelayConfig
        PROVE  suForm \in RelayForm
    <3>1. suForm.text \in FormTexts(SU!RelayFields)
      <4> DEFINE t == suForm.text
      <4>1. /\ t = [f \in SU!RelayFields |-> t[f]]
            /\ t["Port"] \in {0, 1} /\ t["Bandwidth"] \in {0, 1}
            /\ t["Heartbeat"] \in {0, 1} /\ t["Host"] \in SU!Texts("Host")
            /\ t["DirectoryUrl"] \in SU!Texts("DirectoryUrl")
            /\ t["OperatorId"] \in SU!Texts("OperatorId")
        BY <2>1 DEF SU!RelayConfig, SU!RelayFields
      <4>2. \A f \in SU!RelayFields : t[f] \in SU!Texts(f)
        BY <4>1, TextsAre, ZenonT(60) DEF SU!RelayFields
      <4>3. SU!RelayFields \in SUBSET StartFields
        BY DEF StartFields
      <4> HIDE DEF t
      <4> QED BY <4>1, <4>2, <4>3, InFormTexts DEF t
    <3> QED BY <2>1, <3>1, TypesAre DEF SU!RelayConfig, RelayForm
  <2>2. ASSUME suRole = "client", suForm \in SU!TorClientConfig
        PROVE  suForm \in ClientForm
    <3>1. suForm.text \in FormTexts(SU!ClientFields)
      <4> DEFINE t == suForm.text
      <4>1. /\ t = [f \in SU!ClientFields |-> t[f]]
            /\ t["SocksAddr"] \in SU!Texts("SocksAddr")
            /\ t["DirectoryUrl"] \in SU!Texts("DirectoryUrl")
            /\ t["PoolSize"] \in {0, 1, SU!Huge} /\ t["Hops"] \in {3, MaxHops}
            /\ t["MaxRebuildAttempts"] = 1
        BY <2>2 DEF SU!TorClientConfig, SU!ClientFields
      <4>2. \A f \in SU!ClientFields : t[f] \in SU!Texts(f)
        BY <4>1, TextsAre, ZenonT(60) DEF SU!ClientFields
      <4>3. SU!ClientFields \in SUBSET StartFields
        BY DEF StartFields
      <4> HIDE DEF t
      <4> QED BY <4>1, <4>2, <4>3, InFormTexts DEF t
    <3> QED BY <2>2, <3>1 DEF SU!TorClientConfig, ClientForm
  <2> QED BY <2>1, <2>2 DEF SU!Init, FormTyped
<1>2. Checked
  BY SizesAssumption DEF SU!Init, Checked, SU!TorClientConfig
<1>3. suFocused < Len(SU!ActiveFields)
  BY FieldsAre DEF FieldsOK, SU!Init
<1> QED BY <1>1, <1>2, <1>3 DEF SU!Init, StartInv, SU!AcceptedStarts

\* What the first field that is refused says, and what it says if none is.
LEMMA RefusedIs ==
  ASSUME FormTyped
  PROVE  /\ SU!Refused # SU!NoError =>
              SU!Refused \in Fields
              /\ ~SU!Takes(SU!Refused, suForm.text[SU!Refused])
         /\ SU!Refused = SU!NoError =>
              \A f \in Fields : SU!Takes(f, suForm.text[f])
<1> DEFINE failing == {k \in DOMAIN SU!Checks :
                 ~SU!Takes(SU!Checks[k], suForm.text[SU!Checks[k]])}
<1>1. /\ DOMAIN SU!Checks \in SUBSET Nat
      /\ \A k \in DOMAIN SU!Checks :
           SU!Checks[k] \in Fields /\ SU!Checks[k] # SU!NoError
      /\ \A f \in Fields \ {"OperatorId"} :
           \E k \in DOMAIN SU!Checks : f = SU!Checks[k]
  <2>1. CASE suRole = "relay"
    <3>1. SU!Checks = <<"Port", "Host", "DirectoryUrl", "Bandwidth",
                        "Heartbeat">> /\ Fields = SU!RelayFields
      BY <2>1 DEF SU!Checks, Fields
    <3>2. DOMAIN SU!Checks = 1 .. 5 /\ SU!Checks[1] = "Port"
          /\ SU!Checks[2] = "Host" /\ SU!Checks[3] = "DirectoryUrl"
          /\ SU!Checks[4] = "Bandwidth" /\ SU!Checks[5] = "Heartbeat"
      BY <3>1
    <3> QED BY <3>1, <3>2 DEF SU!RelayFields, SU!NoError
  <2>2. CASE suRole = "client"
    <3>1. SU!Checks = <<"SocksAddr", "DirectoryUrl", "PoolSize", "Hops",
                        "MaxRebuildAttempts">> /\ Fields = SU!ClientFields
      BY <2>2 DEF SU!Checks, Fields
    <3>2. DOMAIN SU!Checks = 1 .. 5 /\ SU!Checks[1] = "SocksAddr"
          /\ SU!Checks[2] = "DirectoryUrl" /\ SU!Checks[3] = "PoolSize"
          /\ SU!Checks[4] = "Hops" /\ SU!Checks[5] = "MaxRebuildAttempts"
      BY <3>1
    <3> QED BY <3>1, <3>2 DEF SU!ClientFields, SU!NoError
  <2> QED BY <2>1, <2>2 DEF FormTyped
<1>2. CASE failing = {}
  <2>1. SU!Refused = SU!NoError
    BY <1>2 DEF SU!Refused
  <2>2. ASSUME NEW f \in Fields \ {"OperatorId"}
        PROVE  SU!Takes(f, suForm.text[f])
    <3>1. PICK k \in DOMAIN SU!Checks : f = SU!Checks[k]
      BY <1>1
    <3> QED BY <1>2, <3>1
  <2>3. SU!Takes("OperatorId", suForm.text["OperatorId"])
    BY DEF SU!Takes
  <2> QED BY <2>1, <2>2, <2>3
<1>3. CASE failing # {}
  <2>1. SU!Refused = SU!Checks[SU!Min(failing)]
    BY <1>3 DEF SU!Refused
  <2>2. SU!Min(failing) \in failing
    <3>1. failing \in SUBSET Nat
      BY <1>1
    <3> HIDE DEF failing
    <3> QED BY <1>3, <3>1, LeastIs
  <2> QED BY <1>1, <2>1, <2>2
<1> QED BY <1>2, <1>3

\* Keys, checks and the start.  The list of fields shrinks only when the type
\* leaves Exit, with the focus on its first field.
LEMMA StartStep == StartInv /\ [SU!Next]_suVars => StartInv'
<1> SUFFICES ASSUME StartInv, [SU!Next]_suVars PROVE StartInv'
  OBVIOUS
<1> USE DEF StartInv
<1>a. suRole' = suRole => Fields' = Fields
  BY DEF Fields
<1>b. UNCHANGED <<suRole, suForm>> =>
        FormTyped' /\ Len(SU!ActiveFields)' = Len(SU!ActiveFields)
  BY DEF FormTyped, SU!ActiveFields
<1>1. CASE SU!OpenWizard
  <2>1. /\ suPhase = "parsed" /\ suPhase' = "editing" /\ suWizard' = TRUE
        /\ UNCHANGED <<suRole, suFocused, suError>>
        /\ suForm' = IF suRole = "relay"
                     THEN [suForm EXCEPT !.type = "Entry", !.allowAll = FALSE]
                     ELSE suForm
    BY <1>1 DEF SU!OpenWizard, SU!NodeTypes
  <2>2. suRole = "relay" => suForm.type = SU!NoType
    BY <1>1 DEF SU!OpenWizard
  <2>3. FormTyped' /\ (suRole = "relay" => suForm'.type = "Entry")
    BY <2>1 DEF FormTyped, RelayForm, ClientForm, Types
  <2>4. (suFocused < Len(SU!ActiveFields))'
    <3>1. Len(SU!ActiveFields)' = Len(SU!ActiveFields)
      BY <2>1, <2>2, <2>3 DEF SU!ActiveFields, FormTyped, SU!NoType
    <3> QED BY <2>1, <3>1
  <2>5. suForm'.text = suForm.text
    BY <2>1 DEF FormTyped, RelayForm, ClientForm
  <2>6. Checked' /\ SU!AcceptedStarts'
    BY <2>1 DEF Checked, SU!AcceptedStarts
  <2>7. suError' = SU!NoError
    BY <2>1
  <2> QED BY <1>a, <2>1, <2>3, <2>4, <2>6, <2>7 DEF SU!NoType
<1>2. CASE SU!NoWizard
  <2>1. /\ suPhase = "parsed" /\ suPhase' \in {"accepted", "left"}
        /\ UNCHANGED <<suRole, suWizard, suForm, suFocused, suError>>
    BY <1>2 DEF SU!NoWizard
  <2>2. Checked' /\ SU!AcceptedStarts'
    BY <2>1 DEF Checked, SU!AcceptedStarts
  <2> QED BY <1>a, <1>b, <2>1, <2>2
<1>3. CASE SU!Up \/ SU!Down
  <2>1. /\ UNCHANGED <<suRole, suPhase, suWizard, suForm, suError>>
        /\ suFocused' \in Nat /\ suFocused' < Len(SU!ActiveFields)
    BY <1>3, FieldsAre DEF FieldsOK, SU!Up, SU!Down, FormTyped
  <2>2. Checked' /\ SU!AcceptedStarts'
    BY <1>a, <2>1 DEF Checked, SU!AcceptedStarts
  <2> QED BY <1>a, <1>b, <2>1, <2>2
<1>4. CASE SU!Turn(-1) \/ SU!Turn(1)
  <2>1. /\ suPhase = "editing" /\ suRole = "relay"
        /\ UNCHANGED <<suRole, suPhase, suWizard, suFocused, suError>>
    BY <1>4 DEF SU!Turn
  <2>2. suForm \in RelayForm
    BY <2>1 DEF FormTyped
  <2>3. \/ /\ SU!Current = "NodeType"
           /\ \E k \in 1 .. 3 :
                suForm' = [suForm EXCEPT !.type = SU!NodeTypes[k]]
        \/ \E on \in BOOLEAN : suForm' = [suForm EXCEPT !.allowAll = on]
    BY <1>4 DEF SU!Turn
  <2>4. /\ suForm' \in RelayForm /\ suForm'.text = suForm.text
        /\ suForm'.type # SU!NoType
        /\ SU!Current = "NodeType" \/ suForm'.type = suForm.type
    <3>1. \A k \in 1 .. 3 : SU!NodeTypes[k] \in Types
      BY DEF SU!NodeTypes, Types
    <3>2. CASE /\ SU!Current = "NodeType"
               /\ \E k \in 1 .. 3 :
                    suForm' = [suForm EXCEPT !.type = SU!NodeTypes[k]]
      <4>1. PICK k \in 1 .. 3 :
              suForm' = [suForm EXCEPT !.type = SU!NodeTypes[k]]
        BY <3>2
      <4>2. suForm' \in RelayForm /\ suForm'.text = suForm.text
            /\ suForm'.type \in Types
        BY <2>2, <3>1, <4>1 DEF RelayForm
      <4> QED BY <3>2, <4>2 DEF Types, SU!NoType
    <3>3. CASE \E on \in BOOLEAN : suForm' = [suForm EXCEPT !.allowAll = on]
      BY <2>1, <2>2, <3>3 DEF RelayForm
    <3> QED BY <2>3, <3>2, <3>3
  <2>5. (suFocused < Len(SU!ActiveFields))'
    <3>1. Len(SU!ActiveFields)' \in {7, 8}
      <4>1. FieldsOK'
        BY FieldsAre, PTL
      <4> QED BY <2>1, <4>1 DEF FieldsOK
    <3>2. CASE SU!Current = "NodeType"
      <4>1. suFocused = 0
        <5>1. /\ suFocused \in Nat /\ suFocused < Len(SU!ActiveFields)
              /\ SU!ActiveFields[suFocused + 1] = "NodeType"
              /\ Len(SU!ActiveFields) \in {7, 8}
          BY <2>1, <3>2, FieldsAre DEF SU!Current, FieldsOK
        <5>2. \A k \in 2 .. Len(SU!ActiveFields) :
                SU!ActiveFields[k] # "NodeType"
          BY <2>1, FieldsAre DEF FieldsOK, SU!RelayFields
        <5> QED BY <5>1, <5>2
      <4> QED BY <2>1, <3>1, <4>1
    <3>3. CASE suForm'.type = suForm.type
      <4>1. Len(SU!ActiveFields)' = Len(SU!ActiveFields)
        BY <2>1, <3>3 DEF SU!ActiveFields
      <4> QED BY <2>1, <4>1
    <3> QED BY <2>4, <3>2, <3>3
  <2>6. Checked' /\ SU!AcceptedStarts' /\ FormTyped'
    BY <2>1, <2>4 DEF Checked, SU!AcceptedStarts, FormTyped
  <2> QED BY <1>a, <2>1, <2>4, <2>5, <2>6
<1>5. CASE SU!Edit
  <2>1. /\ suPhase = "editing" /\ suError' = SU!NoError
        /\ SU!Current \in StartFields
        /\ UNCHANGED <<suRole, suPhase, suWizard, suFocused>>
    BY <1>5 DEF SU!Edit, StartFields
  <2>2. PICK value \in SU!Texts(SU!Current) :
          suForm' = [suForm EXCEPT !.text[SU!Current] = value]
    BY <1>5 DEF SU!Edit
  <2>3. /\ FormTyped'
        /\ suRole = "relay" => suForm'.type = suForm.type
    <3> DEFINE c == SU!Current
               t == [suForm.text EXCEPT ![c] = value]
    <3>1. ASSUME NEW F \in SUBSET StartFields, suForm.text \in FormTexts(F)
          PROVE  t \in FormTexts(F)
      <4>1. suForm.text = [f \in F |-> suForm.text[f]]
            /\ \A f \in F : suForm.text[f] \in SU!Texts(f)
        BY <3>1 DEF FormTexts
      <4>2. t = [f \in F |-> t[f]]
            /\ \A f \in F : t[f] = IF f = c THEN value ELSE suForm.text[f]
        BY <4>1
      <4>3. \A f \in F : t[f] \in SU!Texts(f)
        BY <2>2, <4>1, <4>2
      <4> HIDE DEF t
      <4> QED BY <4>2, <4>3, InFormTexts
    <3>2. SU!RelayFields \in SUBSET StartFields
          /\ SU!ClientFields \in SUBSET StartFields
      BY DEF StartFields
    <3>3. CASE suRole = "relay"
      <4>1. suForm \in RelayForm
        BY <3>3 DEF FormTyped
      <4>2. suForm' = [suForm EXCEPT !.text = t]
        BY <2>2, <4>1 DEF RelayForm
      <4>3. t \in FormTexts(SU!RelayFields)
        BY <3>1, <3>2, <4>1 DEF RelayForm
      <4> HIDE DEF t
      <4>4. suForm' \in RelayForm /\ suForm'.type = suForm.type
        BY <4>1, <4>2, <4>3 DEF RelayForm
      <4> QED BY <2>1, <3>3, <4>4 DEF FormTyped
    <3>4. CASE suRole = "client"
      <4>1. suForm \in ClientForm
        BY <3>4 DEF FormTyped
      <4>2. suForm' = [suForm EXCEPT !.text = t]
        BY <2>2, <4>1 DEF ClientForm
      <4>3. t \in FormTexts(SU!ClientFields)
        BY <3>1, <3>2, <4>1 DEF ClientForm
      <4> HIDE DEF t
      <4>4. suForm' \in ClientForm
        BY <4>1, <4>2, <4>3 DEF ClientForm
      <4> QED BY <2>1, <3>4, <4>4 DEF FormTyped
    <3> QED BY <3>3, <3>4 DEF FormTyped
  <2>4. Len(SU!ActiveFields)' = Len(SU!ActiveFields)
    BY <2>1, <2>3 DEF SU!ActiveFields, FormTyped
  <2>5. Checked' /\ SU!AcceptedStarts'
    BY <2>1 DEF Checked, SU!AcceptedStarts
  <2> QED BY <1>a, <2>1, <2>3, <2>4, <2>5
<1>6. CASE SU!Enter
  <2>1. /\ suPhase = "editing" /\ suWizard /\ suError' = SU!Refused
        /\ UNCHANGED <<suRole, suWizard, suFocused>>
    BY <1>6 DEF SU!Enter
  <2>2. CASE SU!Refused = SU!NoError
    <3>1. /\ suPhase' = "accepted"
          /\ suForm' = IF suRole = "relay"
                       THEN [suForm EXCEPT !.bindHost = "ip"] ELSE suForm
      BY <1>6, <2>2 DEF SU!Enter
    <3>2. /\ FormTyped' /\ suForm'.text = suForm.text
          /\ suRole = "relay" => /\ suForm'.type = suForm.type
                                 /\ suForm'.bindHost = "ip"
      <4>1. "ip" \in SU!Texts("Host")
        BY TextsAre, Zenon
      <4> QED BY <2>1, <3>1, <4>1 DEF FormTyped, RelayForm, ClientForm
    <3>3. Len(SU!ActiveFields)' = Len(SU!ActiveFields)
      BY <2>1, <3>2 DEF SU!ActiveFields, FormTyped
    <3>4. \A f \in Fields : SU!Takes(f, suForm.text[f])
      BY <2>2, RefusedIs
    <3>5. Checked'
      BY <1>a, <2>1, <3>1, <3>2, <3>4 DEF Checked
    <3>6. SU!AcceptedStarts'
      BY <3>1 DEF SU!AcceptedStarts
    <3> QED BY <1>a, <2>1, <2>2, <3>1, <3>2, <3>3, <3>5, <3>6
  <2>3. CASE SU!Refused # SU!NoError
    <3>1. UNCHANGED <<suPhase, suForm>>
      BY <1>6, <2>3 DEF SU!Enter
    <3>2. Checked' /\ SU!AcceptedStarts'
      BY <2>1, <3>1 DEF Checked, SU!AcceptedStarts
    <3> QED BY <1>a, <1>b, <2>1, <2>3, <3>1, <3>2, RefusedIs
  <2> QED BY <2>2, <2>3
<1>7. CASE SU!Escape
  <2>1. /\ suPhase = "editing" /\ suPhase' = "left"
        /\ UNCHANGED <<suRole, suWizard, suForm, suFocused, suError>>
    BY <1>7 DEF SU!Escape
  <2>2. Checked' /\ SU!AcceptedStarts'
    BY <2>1 DEF Checked, SU!AcceptedStarts
  <2> QED BY <1>a, <1>b, <2>1, <2>2
<1>8. CASE SU!Start
  <2>1. /\ suPhase = "accepted"
        /\ LET fits == IF suRole = "relay" THEN SU!RelayNeeds
                       ELSE SU!ClientNeeds IN
             \/ fits /\ suPhase' = "running"
             \/ /\ ~fits \/ suForm.text.DirectoryUrl = "https://host"
                /\ suPhase' = "failed"
        /\ UNCHANGED <<suRole, suWizard, suForm, suFocused, suError>>
    BY <1>8 DEF SU!Start
  <2>2. suPhase' \in {"running", "failed"}
    BY <2>1
  <2>3. Checked'
    BY <1>a, <2>1, <2>2 DEF Checked
  <2>4. SU!AcceptedStarts'
    <3>1. ASSUME suPhase' = "failed", suWizard
          PROVE  \/ suForm.text.DirectoryUrl # "http://host"
                 \/ suRole = "client" /\ suForm.text.PoolSize = SU!Huge
      <4>1. /\ \A f \in Fields : SU!Takes(f, suForm.text[f])
            /\ suRole = "relay" => suForm.bindHost = "ip"
        BY <2>1, <3>1 DEF Checked
      <4>2. suRole = "relay" => suForm.type # SU!NoType
        BY <3>1
      <4>3. CASE suRole = "relay"
        <5>1. /\ suForm.text.Port \in {SU!Garbage, 0, 1}
              /\ suForm.text.Bandwidth \in {SU!Garbage, 0, 1}
              /\ suForm.text.Heartbeat \in {SU!Garbage, 0, 1}
          BY <4>3, TextsAre, Zenon DEF FormTyped, RelayForm, FormTexts,
             SU!RelayFields
        <5>2. /\ suForm.text.Port >= 1 /\ suForm.text.Bandwidth >= 1
              /\ suForm.text.Heartbeat >= 1 /\ suForm.text.Host = "ip"
          BY <4>1, <4>3 DEF Fields, SU!RelayFields, SU!Takes
        <5> QED BY <2>1, <3>1, <4>1, <4>2, <4>3, <5>1, <5>2
             DEF SU!RelayNeeds, SU!UrlParses, SU!Garbage
      <4>4. CASE suRole = "client"
        <5>1. /\ suForm.text.SocksAddr = "ip:port"
              /\ suForm.text.Hops \in 3 .. MaxHops
          BY <4>1, <4>4 DEF Fields, SU!ClientFields, SU!Takes
        <5> QED BY <2>1, <3>1, <4>4, <5>1, SizesAssumption
             DEF SU!ClientNeeds, SU!UrlParses
      <4> QED BY <4>3, <4>4 DEF FormTyped
    <3>2. ASSUME suPhase' = "running", suRole = "client"
          PROVE  suForm.text.Hops \in 3 .. MaxHops
                 /\ suForm.text.MaxRebuildAttempts >= 1
      <4>1. CASE suWizard
        <5>1. \A f \in Fields : SU!Takes(f, suForm.text[f])
          BY <2>1, <4>1 DEF Checked
        <5> QED BY <3>2, <5>1 DEF Fields, SU!ClientFields, SU!Takes
      <4>2. CASE ~suWizard
        BY <3>2, <4>2 DEF Checked
      <4> QED BY <4>1, <4>2
    <3> QED BY <2>1, <3>1, <3>2 DEF SU!AcceptedStarts
  <2> QED BY <1>a, <1>b, <2>1, <2>2, <2>3, <2>4
<1>9. CASE UNCHANGED suVars
  <2>1. UNCHANGED <<suRole, suPhase, suWizard, suForm, suFocused, suError>>
    BY <1>9 DEF suVars
  <2>2. Checked' /\ SU!AcceptedStarts'
    BY <1>a, <2>1 DEF Checked, SU!AcceptedStarts
  <2> QED BY <1>a, <1>b, <2>1, <2>2
<1> QED BY <1>1, <1>2, <1>3, <1>4, <1>5, <1>6, <1>7, <1>8, <1>9 DEF SU!Next

\* What the screen shows and what the types allow follows.
LEMMA StartShows == StartInv => SU!TypeOK /\ SU!FormConsistent
<1> SUFFICES ASSUME StartInv PROVE SU!TypeOK /\ SU!FormConsistent
  OBVIOUS
<1>1. SU!TypeOK
  <2>1. suFocused \in 0 .. 7
    <3>1. PICK n \in {5, 7, 8} : Len(SU!ActiveFields) = n
      BY FieldsAre DEF StartInv, FormTyped, FieldsOK
    <3>2. suFocused \in Nat /\ suFocused < Len(SU!ActiveFields)
      BY DEF StartInv
    <3> QED BY <3>1, <3>2
  <2>2. /\ DOMAIN suForm.text = Fields
        /\ \A f \in Fields : suForm.text[f] \in SU!Texts(f)
        /\ suRole = "relay" => suForm.type \in Types \union {SU!NoType}
    BY DEF StartInv, FormTyped, RelayForm, ClientForm, FormTexts, Fields
  <2>3. suError \in Fields \union {SU!NoError}
    BY DEF StartInv
  <2>4. /\ DOMAIN suForm.text = IF suRole = "relay" THEN SU!RelayFields
                                ELSE SU!ClientFields
        /\ \A f \in DOMAIN suForm.text : suForm.text[f] \in SU!Texts(f)
        /\ suError \in SU!RelayFields \union SU!ClientFields
                         \union {SU!NoError}
    BY <2>2, <2>3 DEF Fields
  <2>5. suRole = "relay" =>
          suForm.type \in SU!ToSet(SU!NodeTypes) \union {SU!NoType}
    BY <2>2, TypesAre
  <2>6. suRole \in {"relay", "client"} /\ suWizard \in BOOLEAN
        /\ suPhase \in {"parsed", "editing", "accepted", "running", "failed",
                        "left"}
    BY DEF StartInv, FormTyped
  <2> QED BY Zenon, <2>1, <2>4, <2>5, <2>6 DEF SU!TypeOK
<1>2. SU!FormConsistent
  <2>1. SU!Current # "None"
    <3>1. /\ suFocused \in Nat /\ suFocused < Len(SU!ActiveFields)
          /\ SU!Current = SU!ActiveFields[suFocused + 1]
      BY DEF StartInv, SU!Current
    <3>2. \A k \in 1 .. Len(SU!ActiveFields) : SU!ActiveFields[k] # "None"
      BY FieldsAre DEF StartInv, FormTyped, FieldsOK, SU!RelayFields,
         SU!ClientFields
    <3>3. Len(SU!ActiveFields) \in Nat
      BY FieldsAre DEF StartInv, FormTyped, FieldsOK
    <3> QED BY <3>1, <3>2, <3>3
  <2> QED BY <2>1 DEF StartInv, SU!FormConsistent
<1> QED BY <1>1, <1>2
-----------------------------------------------------------------------------
(* The handshake, as HandshakeProofs has it.                               *)

\* The two instances of Handshake are one.
LEMMA SameParts ==
  /\ HS!Init <=> HP!Init
  /\ HS!TypeOK <=> HP!TypeOK
  /\ HS!KeysAgree <=> HP!KeysAgree
  /\ (UNCHANGED HS!vars) <=> (UNCHANGED HP!vars)
BY DEF
    HS!Init, HP!Init, HS!TypeOK, HP!TypeOK, HS!KeysAgree, HP!KeysAgree,
    HS!Circuits, HP!Circuits, HS!Positions, HP!Positions, HS!Processes,
    HP!Processes, HS!Name, HP!Name, HS!Static, HP!Static, HS!ServerEphemeral,
    HP!ServerEphemeral, HS!ClientEphemeral, HP!ClientEphemeral, HS!NoName,
    HP!NoName, HS!RawDh, HP!RawDh, HS!SecretInput, HP!SecretInput, HS!NoKey,
    HP!NoKey, HS!Message, HP!Message, HS!NoMessage, HP!NoMessage,
    HS!NtorServer, HP!NtorServer, HS!NtorClient, HP!NtorClient, HS!Names,
    HP!Names, HS!SessionKeys, HP!SessionKeys, HS!Messages, HP!Messages,
    HS!client, HP!client, HS!vars, HP!vars, HS!Reaches, HP!Reaches,
    HS!Accept, HP!Accept

LEMMA SameNext == HS!Next <=> HP!Next
BY DEF
    HS!Next, HP!Next, HS!Restart, HP!Restart, HS!Register, HP!Register,
    HS!RequestPath, HP!RequestPath, HS!Connect, HP!Connect, HS!Extend,
    HP!Extend, HS!Create, HP!Create, HS!Finish, HP!Finish, HS!Fail, HP!Fail,
    HS!Circuits, HP!Circuits, HS!Positions, HP!Positions, HS!Processes,
    HP!Processes, HS!Name, HP!Name, HS!Static, HP!Static, HS!ServerEphemeral,
    HP!ServerEphemeral, HS!ClientEphemeral, HP!ClientEphemeral, HS!NoName,
    HP!NoName, HS!RawDh, HP!RawDh, HS!SecretInput, HP!SecretInput, HS!NoKey,
    HP!NoKey, HS!Message, HP!Message, HS!NoMessage, HP!NoMessage,
    HS!NtorServer, HP!NtorServer, HS!NtorClient, HP!NtorClient, HS!Names,
    HP!Names, HS!SessionKeys, HP!SessionKeys, HS!Messages, HP!Messages,
    HS!client, HP!client, HS!vars, HP!vars, HS!Reaches, HP!Reaches,
    HS!Accept, HP!Accept
-----------------------------------------------------------------------------
(* All parts.                                                              *)

\* Each part has its invariant, whichever runs.
PartsInv ==
  /\ HP!HandshakeInv /\ CellsInv /\ DrawInv
  /\ FeedInv /\ PanelInv /\ StartInv

LEMMA HandshakeBounds == HP!Bounds
BY SizesAssumption DEF HP!Bounds

LEMMA EachPartBegins ==
  PartsInit =>
    /\ HS!Init /\ CC!Init /\ WD!Init
    /\ AF!Init /\ NP!Init /\ SU!Init
BY Zenon DEF PartsInit

LEMMA PartsBegin == PartsInit => PartsInv
<1> SUFFICES ASSUME PartsInit PROVE PartsInv
  OBVIOUS
<1>1. /\ HS!Init /\ CC!Init /\ WD!Init
      /\ AF!Init /\ NP!Init /\ SU!Init
  BY EachPartBegins
<1>2. HP!HandshakeInv
  BY <1>1, SameParts, HandshakeBounds, HP!HandshakeInit
<1>3. CellsInv
  BY <1>1, CellsInit
<1>4. FeedInv
  BY <1>1, FeedInit
<1> QED BY Zenon, <1>1, <1>2, <1>3, <1>4, DrawInit, PanelInit, StartInit
        DEF PartsInv

\* A step of one part is none of the others.
LEMMA EachPartSteps ==
  ASSUME [PartsNext]_PartsVars
  PROVE  /\ [HS!Next]_hsVars /\ [CC!Next]_ccVars /\ [WD!Next]_wdVars
         /\ [AF!Next]_afVars /\ [NP!Next]_npVars /\ [SU!Next]_suVars
<1>1. CASE UNCHANGED PartsVars
  <2>1. UNCHANGED <<hsVars, ccVars, wdVars, afVars, npVars, suVars>>
    BY <1>1, Zenon DEF PartsVars
  <2> QED BY <2>1, Zenon
<1>2. CASE PartsNext
  <2>1. /\ HS!Next \/ UNCHANGED hsVars
        /\ CC!Next \/ UNCHANGED ccVars
        /\ WD!Next \/ UNCHANGED wdVars
        /\ AF!Next \/ UNCHANGED afVars
        /\ NP!Next \/ UNCHANGED npVars
        /\ SU!Next \/ UNCHANGED suVars
    BY <1>2, Zenon DEF PartsNext
  <2> QED BY <2>1, Zenon
<1> QED BY <1>1, <1>2, Zenon

LEMMA PartsStep == PartsInv /\ [PartsNext]_PartsVars => PartsInv'
<1> SUFFICES ASSUME PartsInv, [PartsNext]_PartsVars PROVE PartsInv'
  OBVIOUS
<1>1. /\ [HS!Next]_hsVars /\ [CC!Next]_ccVars /\ [WD!Next]_wdVars
      /\ [AF!Next]_afVars /\ [NP!Next]_npVars /\ [SU!Next]_suVars
  BY EachPartSteps
<1>2. HP!HandshakeInv'
  <2>1. UNCHANGED hsVars => UNCHANGED HP!vars
    BY DEF hsVars, HP!vars, HP!client
  <2>2. [HP!Next]_HP!vars
    BY <1>1, <2>1, SameNext, Zenon
  <2> QED BY <2>2, HandshakeBounds, HP!HandshakeStep DEF PartsInv
<1>3. CellsInv'
  BY <1>1, CellsStep, Zenon DEF PartsInv
<1>4. DrawInv' /\ FeedInv' /\ PanelInv' /\ StartInv'
  BY <1>1, DrawStep, FeedStep, PanelStep, StartStep, Zenon DEF PartsInv
<1> QED BY <1>2, <1>3, <1>4, Zenon DEF PartsInv

LEMMA PartsShow ==
  ASSUME PartsInv
  PROVE  /\ TypesOK /\ KeysAgree /\ ReadsWhatWasWritten /\ FairShare
         /\ FeedFaithful /\ CountersAccount /\ PanelFaithful
         /\ AcceptedStarts /\ FormConsistent
<1>1. HS!TypeOK /\ HS!KeysAgree
  BY SameParts, Zenon DEF PartsInv, HP!HandshakeInv
<1>2. CC!TypeOK /\ CC!ReadsWhatWasWritten
  BY CellsShow, Zenon DEF PartsInv
<1>3. WD!TypeOK /\ WD!FairShare
  BY Zenon DEF PartsInv, DrawInv
<1>4. AF!TypeOK /\ AF!FeedFaithful /\ AF!CountersAccount
  BY FeedShows, Zenon DEF PartsInv
<1>5. NP!TypeOK /\ NP!PanelFaithful
  BY PanelShows, Zenon DEF PartsInv
<1>6. SU!TypeOK /\ SU!FormConsistent /\ SU!AcceptedStarts
  BY StartShows, Zenon DEF PartsInv, StartInv
<1> QED BY <1>1, <1>2, <1>3, <1>4, <1>5, <1>6, Zenon
        DEF TypesOK, KeysAgree, ReadsWhatWasWritten, FairShare, FeedFaithful,
            CountersAccount, PanelFaithful, AcceptedStarts, FormConsistent

LEMMA PartsInvariant == PartsSpec => []PartsInv
BY PartsBegin, PartsStep, PTL DEF PartsSpec

\* Type correctness of every part: what its variables hold at any time, which
\* bounds the rings and pages at their capacities.
THEOREM PartsTypeCorrect == PartsSpec => []TypesOK
BY PartsInvariant, PartsShow, PTL

\* Client and relay hold the same key for a hop, and the relay is the one the
\* client has the descriptor of: the tag of ntor_client_finish_raw ends every
\* other build, for any number of circuits, hops and restarts.
THEOREM PartsKeysAgree == PartsSpec => []KeysAgree
BY PartsInvariant, PartsShow, PTL

\* from_stream returns what write_to_stream was given, in order, with nothing
\* of the padding, for any payload size and number of cells, however the
\* transport cuts the bytes and whenever the connection ends; after an orderly
\* close, all of it.
THEOREM CellsAreRead == PartsSpec => []ReadsWhatWasWritten
BY PartsInvariant, PartsShow, PTL

\* select_weighted_index gives each node as many of the draws as its bandwidth,
\* for any list and word size: when the sum overflows the intervals are still
\* right, and only the draws end early.  The walk never runs off the list.
THEOREM DrawsAreFair == PartsSpec => []FairShare
BY PartsInvariant, PartsShow, PTL

\* The page of the service has no event twice or out of order, and - unless it
\* was outrun - every event up to the answer it shows.
THEOREM FeedsAreFaithful == PartsSpec => []FeedFaithful
BY PartsInvariant, PartsShow, PTL

\* What is listed, removed and cleaned up was registered, once the calls under
\* way have counted, although each handler counts after its lock is released.
THEOREM CountersAddUp == PartsSpec => []CountersAccount
BY PartsInvariant, PartsShow, PTL

\* The detail panel shows the last events of a node of the active tab, as many
\* as the ring, the heartbeat and the relay have.
THEOREM PanelsAreFaithful == PartsSpec => []PanelFaithful
BY PartsInvariant, PartsShow, PTL

\* What the wizard accepts starts if its directory URL is a well-formed http
\* one, of which validate reads the scheme only, and there is room for its
\* pool; what runs has a circuit length that is allowed.
THEOREM WizardsAccept == PartsSpec => []AcceptedStarts
BY PartsInvariant, PartsShow, PTL

\* The focus of the wizard is on a field of the screen and its error is about a
\* field that says what is refused, through any keys.
THEOREM WizardsAreConsistent == PartsSpec => []FormConsistent
BY PartsInvariant, PartsShow, PTL
=============================================================================
