------------------------- MODULE CircuitPoolProofs -------------------------
(***************************************************************************)
(* The pool, for any number of handlers, pool size and ids.                *)
(*                                                                         *)
(* Both results rest on the life of a circuit: its id is fresh when it is  *)
(* built, and its state only moves Ready, Dirty, Closed.  So what a        *)
(* handler or the monitor once saw - Dirty, Closed - is still true enough  *)
(* when it uses the id later, however long it waited for the pool lock.    *)
(***************************************************************************)
EXTENDS CircuitPool, FiniteSetTheorems, TLAPS

\* Ids not given out yet have no circuit.
FreshIds == \A c \in Ids : c >= nextId => state[c] = "none"

\* What a handler knows of its circuit.
HandlersKnow ==
  \A h \in Handlers :
    /\ phase[h] # "idle" => chosen[h] \in Ids
    /\ phase[h] = "replacing" => state[chosen[h]] = "Closed"

\* What the monitor knows of the ids it collected.
MonitorKnows ==
  /\ monitor = "remove" => \A c \in list : state[c] \in {"Dirty", "Closed"}
  /\ monitor \in {"replace", "backoff"} => \A c \in list : state[c] = "Closed"
  /\ monitor = "backoff" => current \in Ids /\ state[current] = "Closed"

PoolInv == TypeOK /\ FreshIds /\ HandlersKnow /\ MonitorKnows /\ ReadyIsAged

\* What a step leaves true of every circuit that was seen Dirty or Closed.
Sticky ==
  \A c \in Ids :
    /\ state[c] = "Closed" => state'[c] = "Closed"
    /\ state[c] \in {"Dirty", "Closed"} => state'[c] \in {"Dirty", "Closed"}

LEMMA IdsFacts == NoCircuit \notin Ids /\ \A c \in Ids : c \in Nat \ {0}
BY PoolAssumption, SMT DEF Ids

LEMMA AgedFinite ==
  ASSUME NEW S, S \subseteq Ids
  PROVE  Cardinality(S) \in Nat
<1>1. IsFiniteSet(Ids)
  BY FS_Interval, PoolAssumption DEF Ids
<1>2. IsFiniteSet(S)
  BY <1>1, FS_Subset
<1> QED BY <1>2, FS_CardinalityType

\* A build, successful or not, on a pool that lost at most some circuits.
LEMMA BuildKeeps ==
  ASSUME TypeOK, FreshIds, ReadyIsAged, NEW kept \in SUBSET circuits,
         Built(kept) \/ NotBuilt(kept)
  PROVE  /\ circuits' \subseteq Ids /\ ages' \subseteq Ids
         /\ nextId' \in Nat \ {0}
         /\ state' \in [Ids -> {"none", "Ready", "Dirty", "Closed"}]
         /\ FreshIds' /\ ReadyIsAged' /\ Sticky
         /\ kept \subseteq circuits'
<1>1. CASE NotBuilt(kept)
  BY <1>1 DEF NotBuilt, TypeOK, FreshIds, ReadyIsAged, ReadyOnes, Sticky
<1>2. CASE Built(kept)
  <2>1. /\ nextId \in Ids /\ state[nextId] = "none"
        /\ nextId \in Nat \ {0}
    BY <1>2, IdsFacts DEF Built, FreshIds, TypeOK
  <2>2. /\ circuits' \subseteq Ids /\ ages' \subseteq Ids
        /\ nextId' \in Nat \ {0}
        /\ state' \in [Ids -> {"none", "Ready", "Dirty", "Closed"}]
        /\ kept \subseteq circuits'
    BY <1>2, <2>1 DEF Built, TypeOK
  <2>3. FreshIds'
    BY <1>2, <2>1, IdsFacts DEF Built, FreshIds, TypeOK
  <2>4. ReadyIsAged'
    BY <1>2, <2>1 DEF Built, ReadyIsAged, ReadyOnes, TypeOK
  <2>5. Sticky
    BY <1>2, <2>1 DEF Built, Sticky, TypeOK
  <2> QED BY <2>2, <2>3, <2>4, <2>5
<1> QED BY <1>1, <1>2

\* The same for replace_circuit.
LEMMA ReplaceKeeps ==
  ASSUME TypeOK, FreshIds, ReadyIsAged, NEW c \in Ids, ReplaceCircuit(c)
  PROVE  /\ circuits' \subseteq Ids /\ ages' \subseteq Ids
         /\ nextId' \in Nat \ {0}
         /\ state' \in [Ids -> {"none", "Ready", "Dirty", "Closed"}]
         /\ failures' \in [Ids -> Nat] /\ abandoned' \subseteq Ids
         /\ FreshIds' /\ ReadyIsAged' /\ Sticky
         /\ circuits \ {c} \subseteq circuits'
<1>1. Built(circuits \ {c}) \/ NotBuilt(circuits \ {c})
  BY DEF ReplaceCircuit
<1>2. failures' \in [Ids -> Nat] /\ abandoned' \subseteq Ids
  <2>1. failures[c] + 1 \in Nat
    BY DEF TypeOK
  <2> QED BY <2>1 DEF ReplaceCircuit, TypeOK
<1> QED BY <1>1, <1>2, BuildKeeps

\* The knowledge of handlers and monitor survives a step that is sticky and
\* leaves their variables alone.
LEMMA HandlersStillKnow ==
  ASSUME HandlersKnow, Sticky, UNCHANGED handlerVars
  PROVE  HandlersKnow'
BY DEF HandlersKnow, Sticky, handlerVars

LEMMA MonitorStillKnows ==
  ASSUME TypeOK, MonitorKnows, Sticky, UNCHANGED monitorVars
  PROVE  MonitorKnows'
BY DEF TypeOK, MonitorKnows, Sticky, monitorVars

LEMMA HandlerKeeps ==
  ASSUME PoolInv, NEW h \in Handlers, SelectCircuit(h) \/ HandlerStep(h)
  PROVE  PoolInv'
<1> USE DEF PoolInv
<1>1. CASE SelectCircuit(h)
  <2>1. \/ /\ \E c \in ReadyOnes : chosen' = [chosen EXCEPT ![h] = c]
           /\ phase' = [phase EXCEPT ![h] = "selected"]
           /\ UNCHANGED <<circuits, state, ages, nextId>>
        \/ /\ Built(circuits)
           /\ chosen' = [chosen EXCEPT ![h] = nextId]
           /\ phase' = [phase EXCEPT ![h] = "selected"]
    BY <1>1 DEF SelectCircuit
  <2>2. /\ UNCHANGED <<failures, abandoned, users, orphaned, old, monitorVars>>
    BY <1>1 DEF SelectCircuit
  <2>3. /\ circuits' \subseteq Ids /\ ages' \subseteq Ids
        /\ nextId' \in Nat \ {0}
        /\ state' \in [Ids -> {"none", "Ready", "Dirty", "Closed"}]
        /\ FreshIds' /\ ReadyIsAged' /\ Sticky
    <3>1. CASE Built(circuits)
      BY <3>1, BuildKeeps
    <3>2. CASE UNCHANGED <<circuits, state, ages, nextId>>
      BY <3>2 DEF TypeOK, FreshIds, ReadyIsAged, ReadyOnes, Sticky
    <3> QED BY <2>1, <3>1, <3>2
  <2>4. \E c \in Ids : chosen' = [chosen EXCEPT ![h] = c]
    BY <2>1 DEF ReadyOnes, Built, TypeOK
  <2>5. phase' = [phase EXCEPT ![h] = "selected"]
    BY <2>1
  <2>6. HandlersKnow'
    BY <2>3, <2>4, <2>5 DEF HandlersKnow, Sticky, TypeOK
  <2>7. MonitorKnows'
    BY <2>2, <2>3, MonitorStillKnows
  <2>8. \A c \in Ids : h \notin users[c]
    BY <1>1 DEF SelectCircuit, TypeOK
  <2>9. \A c \in Ids : \A g \in users'[c] : phase'[g] = "using" /\ chosen'[g] = c
    BY <2>2, <2>4, <2>5, <2>8 DEF TypeOK
  <2>10. TypeOK'
    BY <2>2, <2>3, <2>4, <2>5, <2>9 DEF TypeOK, monitorVars
  <2> QED BY <2>3, <2>6, <2>7, <2>10
<1>2. CASE RegisterStream(h)
  <2>1. chosen[h] \in Ids
    BY <1>2 DEF RegisterStream, Step, HandlersKnow
  <2> QED
    BY <1>2, <2>1 DEF RegisterStream, Step, poolVars, monitorVars, TypeOK,
       FreshIds, HandlersKnow, MonitorKnows, ReadyIsAged, ReadyOnes
<1>3. CASE Return(h)
  BY <1>3 DEF Return, Step, Leave, poolVars, monitorVars, TypeOK,
     FreshIds, HandlersKnow, MonitorKnows, ReadyIsAged, ReadyOnes
<1>4. CASE ReturnOrphaning(h)
  <2>1. chosen[h] \in Ids
    BY <1>4 DEF ReturnOrphaning, Step, HandlersKnow
  <2> QED
    BY <1>4, <2>1 DEF ReturnOrphaning, Step, poolVars, monitorVars, TypeOK,
       FreshIds, HandlersKnow, MonitorKnows, ReadyIsAged, ReadyOnes
<1>5. CASE CheckClosed(h)
  BY <1>5 DEF CheckClosed, Step, Leave, poolVars, circuitVars, monitorVars,
     TypeOK, FreshIds, HandlersKnow, MonitorKnows, ReadyIsAged, ReadyOnes
<1>6. CASE HandlerReplace(h)
  <2>1. chosen[h] \in Ids /\ ReplaceCircuit(chosen[h])
    BY <1>6 DEF HandlerReplace, HandlersKnow
  <2>2. /\ circuits' \subseteq Ids /\ ages' \subseteq Ids
        /\ nextId' \in Nat \ {0}
        /\ state' \in [Ids -> {"none", "Ready", "Dirty", "Closed"}]
        /\ failures' \in [Ids -> Nat] /\ abandoned' \subseteq Ids
        /\ FreshIds' /\ ReadyIsAged' /\ Sticky
    BY <2>1, ReplaceKeeps
  <2>3. /\ UNCHANGED <<users, orphaned, old, monitorVars>>
        /\ phase' = [phase EXCEPT ![h] = "idle"]
        /\ chosen' = [chosen EXCEPT ![h] = NoCircuit]
    BY <1>6 DEF HandlerReplace, Leave
  <2>4. HandlersKnow'
    BY <2>2, <2>3 DEF HandlersKnow, Sticky, TypeOK
  <2>5. MonitorKnows'
    BY <2>2, <2>3, MonitorStillKnows
  <2>6. \A c \in Ids : h \notin users[c]
    BY <1>6 DEF HandlerReplace, TypeOK
  <2>7. \A c \in Ids : \A g \in users'[c] : phase'[g] = "using" /\ chosen'[g] = c
    BY <2>3, <2>6 DEF TypeOK
  <2>8. TypeOK'
    BY <2>2, <2>3, <2>7 DEF TypeOK, monitorVars
  <2> QED BY <2>2, <2>4, <2>5, <2>8
<1> QED BY <1>1, <1>2, <1>3, <1>4, <1>5, <1>6 DEF HandlerStep

LEMMA MonitorKeeps ==
  ASSUME PoolInv, MonitorStep
  PROVE  PoolInv'
<1> USE DEF PoolInv
<1>1. CASE Expire
  <2> DEFINE aged == {c \in ages \intersect old : c \in ReadyOnes}
  <2>1. /\ state' = [c \in Ids |-> IF c \in aged THEN "Dirty" ELSE state[c]]
        /\ ages' = ages \ aged /\ todo' = Cardinality(aged)
        /\ monitor = "sleep" /\ monitor' = "build"
        /\ UNCHANGED <<circuits, nextId, failures, abandoned, users, orphaned,
                       old, handlerVars, list, current>>
    BY <1>1 DEF Expire
  <2>2. aged \subseteq Ids /\ \A c \in aged : state[c] = "Ready"
    BY DEF ReadyOnes, TypeOK
  <2>3. todo' \in Nat
    BY <2>1, <2>2, AgedFinite
  <2> HIDE DEF aged
  <2>4. TypeOK'
    BY <2>1, <2>2, <2>3 DEF TypeOK, handlerVars
  <2>5. Sticky /\ FreshIds' /\ ReadyIsAged' /\ MonitorKnows'
    BY <2>1, <2>2
    DEF Sticky, FreshIds, ReadyIsAged, ReadyOnes, MonitorKnows, TypeOK
  <2> QED BY <2>1, <2>4, <2>5, HandlersStillKnow
<1>2. CASE BuildAged
  <2>1. Built(circuits) \/ NotBuilt(circuits)
    BY <1>2 DEF BuildAged
  <2>2. /\ todo' = todo - 1 /\ todo > 0 /\ monitor = "build"
        /\ UNCHANGED <<failures, abandoned, users, orphaned, old, handlerVars,
                       monitor, list, current>>
    BY <1>2 DEF BuildAged
  <2>3. /\ circuits' \subseteq Ids /\ ages' \subseteq Ids
        /\ nextId' \in Nat \ {0}
        /\ state' \in [Ids -> {"none", "Ready", "Dirty", "Closed"}]
        /\ FreshIds' /\ ReadyIsAged' /\ Sticky
    BY <2>1, BuildKeeps
  <2>4. TypeOK'
    BY <2>2, <2>3 DEF TypeOK, handlerVars
  <2>5. MonitorKnows'
    BY <2>2 DEF MonitorKnows
  <2> QED BY <2>2, <2>3, <2>4, <2>5, HandlersStillKnow
<1>3. CASE CollectDirty
  BY <1>3 DEF CollectDirty, poolVars, circuitVars, handlerVars, TypeOK,
     FreshIds, HandlersKnow, MonitorKnows, ReadyIsAged, ReadyOnes
<1>4. CASE RemoveDirty
  BY <1>4 DEF RemoveDirty, circuitVars, handlerVars, TypeOK,
     FreshIds, HandlersKnow, MonitorKnows, ReadyIsAged, ReadyOnes
<1>5. CASE CollectClosed
  BY <1>5 DEF CollectClosed, poolVars, circuitVars, handlerVars, TypeOK,
     FreshIds, HandlersKnow, MonitorKnows, ReadyIsAged, ReadyOnes
<1>6. CASE NextClosed
  BY <1>6 DEF NextClosed, poolVars, circuitVars, handlerVars, TypeOK,
     FreshIds, HandlersKnow, MonitorKnows, ReadyIsAged, ReadyOnes
<1>7. CASE MonitorReplace
  <2>1. current \in Ids /\ ReplaceCircuit(current)
    BY <1>7 DEF MonitorReplace, MonitorKnows
  <2>2. /\ circuits' \subseteq Ids /\ ages' \subseteq Ids
        /\ nextId' \in Nat \ {0}
        /\ state' \in [Ids -> {"none", "Ready", "Dirty", "Closed"}]
        /\ failures' \in [Ids -> Nat] /\ abandoned' \subseteq Ids
        /\ FreshIds' /\ ReadyIsAged' /\ Sticky
    BY <2>1, ReplaceKeeps
  <2>3. /\ UNCHANGED <<users, orphaned, old, handlerVars, todo, list>>
        /\ monitor = "backoff" /\ monitor' = "replace" /\ current' = NoCircuit
    BY <1>7 DEF MonitorReplace
  <2>4. TypeOK'
    BY <2>2, <2>3 DEF TypeOK, handlerVars
  <2>5. MonitorKnows'
    BY <2>2, <2>3 DEF MonitorKnows, Sticky, TypeOK
  <2> QED BY <2>2, <2>3, <2>4, <2>5, HandlersStillKnow
<1>8. CASE Sleep
  BY <1>8 DEF Sleep, poolVars, circuitVars, handlerVars, TypeOK,
     FreshIds, HandlersKnow, MonitorKnows, ReadyIsAged, ReadyOnes
<1> QED BY <1>1, <1>2, <1>3, <1>4, <1>5, <1>6, <1>7, <1>8 DEF MonitorStep

LEMMA PoolStep == PoolInv /\ [Next]_vars => PoolInv'
<1> SUFFICES ASSUME PoolInv, [Next]_vars PROVE PoolInv'
  OBVIOUS
<1>1. ASSUME NEW h \in Handlers, SelectCircuit(h) \/ HandlerStep(h) PROVE PoolInv'
  BY <1>1, HandlerKeeps
<1>2. ASSUME NEW c \in Ids, Close(c) PROVE PoolInv'
  <2>1. Sticky /\ FreshIds' /\ ReadyIsAged' /\ TypeOK'
    BY <1>2, IdsFacts DEF Close, PoolInv, Sticky, FreshIds, ReadyIsAged,
       ReadyOnes, TypeOK, poolVars, handlerVars, monitorVars
  <2>2. UNCHANGED <<handlerVars, monitorVars>>
    BY <1>2 DEF Close
  <2> QED BY <2>1, <2>2, HandlersStillKnow, MonitorStillKnows DEF PoolInv
<1>3. ASSUME NEW c \in Ids, Age(c) PROVE PoolInv'
  BY <1>3 DEF Age, PoolInv, FreshIds, ReadyIsAged, ReadyOnes, TypeOK,
     HandlersKnow, MonitorKnows, poolVars, circuitVars, handlerVars, monitorVars
<1>4. CASE MonitorStep
  BY <1>4, MonitorKeeps
<1>5. CASE UNCHANGED vars
  BY <1>5 DEF vars, PoolInv, FreshIds, ReadyIsAged, ReadyOnes, TypeOK,
     HandlersKnow, MonitorKnows, poolVars, circuitVars, handlerVars, monitorVars
<1> QED BY <1>1, <1>2, <1>3, <1>4, <1>5 DEF Next

LEMMA PoolInit == Init => PoolInv
<1> SUFFICES ASSUME Init PROVE PoolInv
  OBVIOUS
<1>1. 1 .. PoolSize \subseteq Ids /\ PoolSize + 1 \in Nat \ {0}
  BY PoolAssumption DEF Ids
<1>2. TypeOK
  BY <1>1 DEF Init, TypeOK
<1>3. FreshIds
  BY PoolAssumption, IdsFacts DEF Init, FreshIds
<1> QED BY <1>1, <1>2, <1>3
  DEF Init, PoolInv, HandlersKnow, MonitorKnows, ReadyIsAged, ReadyOnes

\* Only removals of circuits seen Dirty or Closed take from the pool.
LEMMA WhatLeaves ==
  PoolInv /\ [Next]_vars =>
    \A c \in circuits \ circuits' : state[c] \in {"Dirty", "Closed"}
<1> SUFFICES ASSUME PoolInv, [Next]_vars, NEW c \in circuits \ circuits'
             PROVE  state[c] \in {"Dirty", "Closed"}
  OBVIOUS
<1> USE DEF PoolInv
<1>1. ASSUME NEW h \in Handlers, HandlerReplace(h)
      PROVE  state[c] \in {"Dirty", "Closed"}
  <2>1. chosen[h] \in Ids /\ state[chosen[h]] = "Closed"
    BY <1>1 DEF HandlerReplace, HandlersKnow
  <2>2. circuits \ {chosen[h]} \subseteq circuits'
    BY <1>1, <2>1, ReplaceKeeps DEF HandlerReplace
  <2> QED BY <2>1, <2>2
<1>2. CASE MonitorReplace
  <2>1. current \in Ids /\ state[current] = "Closed"
    BY <1>2 DEF MonitorReplace, MonitorKnows
  <2>2. circuits \ {current} \subseteq circuits'
    BY <1>2, <2>1, ReplaceKeeps DEF MonitorReplace
  <2> QED BY <2>1, <2>2
<1>3. CASE RemoveDirty
  BY <1>3 DEF RemoveDirty, MonitorKnows
<1>4. ASSUME NEW h \in Handlers,
             \/ SelectCircuit(h) \/ RegisterStream(h) \/ Return(h)
             \/ ReturnOrphaning(h) \/ CheckClosed(h)
      PROVE  circuits \subseteq circuits'
  BY <1>4 DEF SelectCircuit, Built, RegisterStream, Return, ReturnOrphaning,
     CheckClosed, poolVars
<1>5. ASSUME \/ Expire \/ BuildAged \/ CollectDirty \/ CollectClosed
             \/ NextClosed \/ Sleep \/ UNCHANGED vars
             \/ \E d \in Ids : Close(d) \/ Age(d)
      PROVE  circuits \subseteq circuits'
  BY <1>5 DEF Expire, BuildAged, Built, NotBuilt, CollectDirty, CollectClosed,
     NextClosed, Sleep, Close, Age, vars, poolVars
<1> QED BY <1>1, <1>2, <1>3, <1>4, <1>5 DEF Next, HandlerStep, MonitorStep

\* The variables of the pool keep their types.
THEOREM PoolTypeCorrect == Spec => []TypeOK
<1>1. PoolInv => TypeOK
  BY DEF PoolInv
<1> QED BY <1>1, PoolInit, PoolStep, PTL DEF Spec

\* Every circuit that may be handed out is subject to the rotation
\* (circuit.rs build_circuit, expire_aged_circuits).
THEOREM ReadyCircuitsAreAged == Spec => []ReadyIsAged
<1>1. PoolInv => ReadyIsAged
  BY DEF PoolInv
<1> QED BY <1>1, PoolInit, PoolStep, PTL DEF Spec

\* The pool never drops a ready circuit, although monitor and handlers act on
\* ids they collected under an earlier lock.
THEOREM ReadyCircuitsStay == Spec => NeverDropsReady
<1>1. PoolInv /\ [Next]_vars =>
        [\A c \in circuits \ circuits' : state[c] \in {"Dirty", "Closed"}]_vars
  BY WhatLeaves
<1> QED BY <1>1, PoolInit, PoolStep, PTL DEF Spec, NeverDropsReady
=============================================================================
