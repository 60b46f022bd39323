----------------------------- MODULE CircuitPool -----------------------------
(***************************************************************************)
(* The client's pool of circuits: CircuitPool of circuit.rs with its       *)
(* actors - the SOCKS handlers (socks_proxy.rs), the circuit monitor, the  *)
(* circuit readers that find a circuit dead, and time.                     *)
(*                                                                         *)
(* Every method of the pool runs under the pool lock, builds included, and *)
(* is one step; the monitor and the handlers take the lock anew for every  *)
(* step, so what they read under it may be old when they use it.  What the *)
(* streams do on a circuit is CircuitStreams; here a handler registers,    *)
(* returns with Ok or Err, or leaves its stream registered behind.         *)
(*                                                                         *)
(* A failed build spends a circuit id: ids are only compared, so the model *)
(* uses it again.  Builds stop succeeding at MaxId (bound).                *)
(***************************************************************************)
EXTENDS Naturals, FiniteSets

CONSTANTS
  Handlers,     \* SOCKS connection tasks, one connection after another
  PoolSize,     \* --pool-size
  MaxAttempts,  \* --max-rebuild-attempts
  MaxId,        \* bound on circuit ids
  NoCircuit

ASSUME PoolAssumption ==
  /\ PoolSize \in Nat /\ MaxAttempts \in Nat \ {0}
  /\ MaxId \in Nat /\ PoolSize <= MaxId
  /\ NoCircuit \notin Nat

VARIABLES
  circuits,   \* keys of CircuitPool.circuits
  state,      \* [Ids -> states]: Circuit.state, also of removed circuits
  ages,       \* keys of circuit_ages
  old,        \* ids whose age has reached max_circuit_age
  nextId,     \* next_circuit_id
  failures,   \* rebuild_failure_counts
  abandoned,  \* abandoned_slots
  users,      \* [Ids -> SUBSET Handlers]: registered streams in use
  orphaned,   \* ids with a registered stream whose handler is gone
  phase,      \* [Handlers -> phases]
  chosen,     \* [Handlers -> circuit a handler works with]
  monitor,    \* the next step of the monitor's loop
  todo,       \* replacements it still has to build for aged circuits
  list,       \* the ids it collected
  current     \* the closed circuit it backs off for

poolVars    == <<circuits, ages, nextId, failures, abandoned>>
circuitVars == <<state, users, orphaned>>
handlerVars == <<phase, chosen>>
monitorVars == <<monitor, todo, list, current>>
vars == <<poolVars, circuitVars, old, handlerVars, monitorVars>>

Ids == 1 .. MaxId

\* active_stream_count.
Load(c) == Cardinality(users[c]) + (IF c \in orphaned THEN 1 ELSE 0)

ReadyOnes == {c \in circuits : state[c] = "Ready"}

\* Mutant of Built: circuit_ages is not told about the new circuit.
BuiltAgeless(kept) ==
  /\ nextId \in Ids
  /\ circuits' = kept \union {nextId}
  /\ state' = [state EXCEPT ![nextId] = "Ready"]
  /\ nextId' = nextId + 1
  /\ UNCHANGED ages

\* build_circuit succeeds; `kept` is the pool it adds to.
Built(kept) ==
  /\ nextId \in Ids
  /\ circuits' = kept \union {nextId}
  /\ state' = [state EXCEPT ![nextId] = "Ready"]
  /\ ages' = ages \union {nextId}
  /\ nextId' = nextId + 1

\* It fails: no path, an unreachable relay, a handshake timeout.
NotBuilt(kept) == circuits' = kept /\ UNCHANGED <<state, ages, nextId>>

\* replace_circuit: the failed circuit is out before the build is tried.
ReplaceCircuit(c) ==
  \/ /\ Built(circuits \ {c})
     /\ failures' = [failures EXCEPT ![c] = 0]
     /\ UNCHANGED abandoned
  \/ /\ NotBuilt(circuits \ {c})
     /\ failures' = [failures EXCEPT ![c] = @ + 1]
     /\ abandoned' = IF failures[c] + 1 >= MaxAttempts
                     THEN abandoned \union {c} ELSE abandoned
-----------------------------------------------------------------------------
(* A SOCKS connection: handle_connection.                                  *)

Step(h, from, to) ==
  phase[h] = from /\ phase' = [phase EXCEPT ![h] = to] /\ UNCHANGED chosen

\* The connection is over.
Leave(h) ==
  /\ phase' = [phase EXCEPT ![h] = "idle"]
  /\ chosen' = [chosen EXCEPT ![h] = NoCircuit]

\* select_circuit: a least loaded ready circuit, or a new one.
SelectCircuit(h) ==
  /\ phase[h] = "idle"
  /\ \/ /\ \E c \in ReadyOnes :
             /\ \A d \in ReadyOnes : Load(c) <= Load(d)
             /\ chosen' = [chosen EXCEPT ![h] = c]
        /\ phase' = [phase EXCEPT ![h] = "selected"]
        /\ UNCHANGED <<circuits, state, ages, nextId>>
     \/ /\ ReadyOnes = {}
        /\ Built(circuits)
        /\ chosen' = [chosen EXCEPT ![h] = nextId]
        /\ phase' = [phase EXCEPT ![h] = "selected"]
  /\ UNCHANGED <<failures, abandoned, users, orphaned, old, monitorVars>>

\* handle_stream registers whatever became of the circuit since.
RegisterStream(h) ==
  /\ Step(h, "selected", "using")
  /\ users' = [users EXCEPT ![chosen[h]] = @ \union {h}]
  /\ UNCHANGED <<poolVars, state, orphaned, old, monitorVars>>

\* Mutant of Return: cleanup_stream stops before it unregisters the stream.
ReturnRegistered(h) ==
  /\ phase[h] = "using"
  /\ Leave(h) \/ Step(h, "using", "failed")
  /\ UNCHANGED <<poolVars, circuitVars, old, monitorVars>>

\* handle_stream returns, after cleanup_stream or without it.
Return(h) ==
  /\ phase[h] = "using"
  /\ users' = [users EXCEPT ![chosen[h]] = @ \ {h}]
  /\ Leave(h) \/ Step(h, "using", "failed")
  /\ UNCHANGED <<poolVars, state, orphaned, old, monitorVars>>

ReturnOrphaning(h) ==
  /\ Step(h, "using", "failed")
  /\ users' = [users EXCEPT ![chosen[h]] = @ \ {h}]
  /\ orphaned' = IF h \in users[chosen[h]]
                 THEN orphaned \union {chosen[h]} ELSE orphaned
  /\ UNCHANGED <<poolVars, state, old, monitorVars>>

\* Mutant of CheckClosed: any error makes the circuit a failed one.
CheckClosedNot(h) ==
  /\ Step(h, "failed", "replacing")
  /\ UNCHANGED <<poolVars, circuitVars, old, monitorVars>>

\* After an Err: replace the circuit if it is closed, known or not.
CheckClosed(h) ==
  /\ phase[h] = "failed"
  /\ IF state[chosen[h]] = "Closed" THEN Step(h, "failed", "replacing")
                                    ELSE Leave(h)
  /\ UNCHANGED <<poolVars, circuitVars, old, monitorVars>>

HandlerReplace(h) ==
  /\ phase[h] = "replacing"
  /\ ReplaceCircuit(chosen[h])
  /\ Leave(h)
  /\ UNCHANGED <<users, orphaned, old, monitorVars>>
-----------------------------------------------------------------------------
(* Readers and time.                                                       *)

\* The circuit's reader leaves its loop: Closed, the channels dropped.
Close(c) ==
  /\ c < nextId /\ state[c] # "Closed"
  /\ state' = [state EXCEPT ![c] = "Closed"]
  /\ users' = [users EXCEPT ![c] = {}]
  /\ orphaned' = orphaned \ {c}
  /\ UNCHANGED <<poolVars, old, handlerVars, monitorVars>>

Age(c) ==
  /\ c \in ages \ old
  /\ old' = old \union {c}
  /\ UNCHANGED <<poolVars, circuitVars, handlerVars, monitorVars>>
-----------------------------------------------------------------------------
(* The monitor: spawn_circuit_monitor.                                     *)

\* Mutant of Expire: the ids are forgotten, the circuits stay Ready.
ExpireForgets ==
  /\ monitor = "sleep"
  /\ LET aged == {c \in ages \intersect old : c \in ReadyOnes}
     IN /\ ages' = ages \ aged
        /\ todo' = Cardinality(aged)
  /\ monitor' = "build"
  /\ UNCHANGED <<circuits, nextId, failures, abandoned, circuitVars, old,
                 handlerVars, list, current>>

\* expire_aged_circuits.
Expire ==
  /\ monitor = "sleep"
  /\ LET aged == {c \in ages \intersect old : c \in ReadyOnes}
     IN /\ state' = [c \in Ids |-> IF c \in aged THEN "Dirty" ELSE state[c]]
        /\ ages' = ages \ aged
        /\ todo' = Cardinality(aged)
  /\ monitor' = "build"
  /\ UNCHANGED <<circuits, nextId, failures, abandoned, users, orphaned, old,
                 handlerVars, list, current>>

\* A replacement for an aged circuit; a failure is logged, never retried.
BuildAged ==
  /\ monitor = "build" /\ todo > 0
  /\ Built(circuits) \/ NotBuilt(circuits)
  /\ todo' = todo - 1
  /\ UNCHANGED <<failures, abandoned, users, orphaned, old, handlerVars,
                 monitor, list, current>>

CollectDirty ==
  /\ monitor = "build" /\ todo = 0
  /\ list' = {c \in circuits : state[c] = "Dirty" /\ Load(c) = 0}
  /\ monitor' = "remove"
  /\ UNCHANGED <<poolVars, circuitVars, old, handlerVars, todo, current>>

\* One lock for each id collected before; the circuit is not looked at again.
RemoveDirty ==
  /\ monitor = "remove"
  /\ \E c \in list : circuits' = circuits \ {c} /\ list' = list \ {c}
  /\ UNCHANGED <<ages, nextId, failures, abandoned, circuitVars, old,
                 handlerVars, monitor, todo, current>>

CollectClosed ==
  /\ monitor = "remove" /\ list = {}
  /\ list' = {c \in circuits : state[c] = "Closed"}
  /\ monitor' = "replace"
  /\ UNCHANGED <<poolVars, circuitVars, old, handlerVars, todo, current>>

\* Mutant of NextClosed: the slots of this round are skipped.
NextClosedSkips ==
  /\ monitor = "replace" /\ list # {}
  /\ list' = {} /\ UNCHANGED <<current, monitor>>
  /\ UNCHANGED <<poolVars, circuitVars, old, handlerVars, todo>>

\* An abandoned slot is skipped, for another one the backoff starts.
NextClosed ==
  /\ monitor = "replace"
  /\ \E c \in list :
       /\ list' = list \ {c}
       /\ IF c \in abandoned THEN UNCHANGED <<monitor, current>>
                             ELSE monitor' = "backoff" /\ current' = c
  /\ UNCHANGED <<poolVars, circuitVars, old, handlerVars, todo>>

MonitorReplace ==
  /\ monitor = "backoff"
  /\ ReplaceCircuit(current)
  /\ monitor' = "replace" /\ current' = NoCircuit
  /\ UNCHANGED <<users, orphaned, old, handlerVars, todo, list>>

Sleep ==
  /\ monitor = "replace" /\ list = {}
  /\ monitor' = "sleep"
  /\ UNCHANGED <<poolVars, circuitVars, old, handlerVars, todo, list, current>>
-----------------------------------------------------------------------------
\* initialize has built PoolSize circuits; had it failed, so would main.
Init ==
  /\ circuits = 1 .. PoolSize /\ ages = 1 .. PoolSize
  /\ state = [c \in Ids |-> IF c <= PoolSize THEN "Ready" ELSE "none"]
  /\ old = {} /\ nextId = PoolSize + 1
  /\ failures = [c \in Ids |-> 0] /\ abandoned = {}
  /\ users = [c \in Ids |-> {}] /\ orphaned = {}
  /\ phase = [h \in Handlers |-> "idle"]
  /\ chosen = [h \in Handlers |-> NoCircuit]
  /\ monitor = "sleep" /\ todo = 0 /\ list = {} /\ current = NoCircuit

HandlerStep(h) ==
  RegisterStream(h) \/ Return(h) \/ ReturnOrphaning(h) \/ CheckClosed(h)
    \/ HandlerReplace(h)

MonitorStep ==
  \/ Expire \/ BuildAged \/ CollectDirty \/ RemoveDirty
  \/ CollectClosed \/ NextClosed \/ MonitorReplace \/ Sleep

Next ==
  \/ \E h \in Handlers : SelectCircuit(h) \/ HandlerStep(h)
  \/ \E c \in Ids : Close(c) \/ Age(c)
  \/ MonitorStep

Spec == Init /\ [][Next]_vars

\* The monitor's sleeps end, and so do its waits for a circuit's lock: as in
\* CircuitStreams, a handler's write to the entry is taken or fails.  Nothing
\* is asked of the handlers: one that writes to its SOCKS client has no timeout.
Fairness == WF_vars(MonitorStep)

FairSpec == Spec /\ Fairness
-----------------------------------------------------------------------------
(* Properties.                                                             *)

\* Every variable keeps its type, and a stream that counts as load belongs to
\* the handler that uses it, on the one circuit this handler chose.
TypeOK ==
  /\ circuits \subseteq Ids /\ ages \subseteq Ids /\ old \subseteq Ids
  /\ nextId \in Nat \ {0}
  /\ state \in [Ids -> {"none", "Ready", "Dirty", "Closed"}]
  /\ failures \in [Ids -> Nat] /\ abandoned \subseteq Ids
  /\ users \in [Ids -> SUBSET Handlers] /\ orphaned \subseteq Ids
  /\ phase \in [Handlers -> {"idle", "selected", "using", "failed",
                             "replacing"}]
  /\ chosen \in [Handlers -> Ids \union {NoCircuit}]
  /\ monitor \in {"sleep", "build", "remove", "replace", "backoff"}
  /\ todo \in Nat /\ list \subseteq Ids
  /\ current \in Ids \union {NoCircuit}
  /\ \A c \in Ids : \A h \in users[c] : phase[h] = "using" /\ chosen[h] = c

\* No ready circuit escapes the rotation: it is in circuit_ages as long as it
\* may be handed out, whoever built it - startup, monitor or a handler.
ReadyIsAged == \A c \in ReadyOnes : c \in ages

\* The pool never drops a circuit that is fit for streams, though the monitor
\* and the handlers remove circuits by ids they collected earlier.
NeverDropsReady ==
  [][\A c \in circuits \ circuits' : state[c] \in {"Dirty", "Closed"}]_vars

\* An aged circuit stops taking new streams in the end.
AgedStepDown ==
  \A c \in Ids : c \in old /\ state[c] = "Ready" ~> state[c] # "Ready"

\* A closed circuit leaves the pool in the end, replaced or not.
ClosedLeave ==
  \A c \in Ids : c \in circuits /\ state[c] = "Closed" ~> c \notin circuits

\* config.rs:31: "Max consecutive rebuild failures per circuit slot before
\* giving up on that slot": until then a failed rebuild is tried again.
RetriedUntilBudget ==
  \A c \in Ids :
    failures[c] > 0 /\ c \notin abandoned ~> failures[c] = 0 \/ c \in abandoned
=============================================================================
