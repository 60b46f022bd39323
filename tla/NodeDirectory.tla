---------------------------- MODULE NodeDirectory ----------------------------
(***************************************************************************)
(* The discovery service's registry and the relays that keep themselves in *)
(* it: registration, heartbeats, removal, stale cleanup, crashes.          *)
(*                                                                         *)
(* A relay process draws a fresh UUID at start and registers exactly once, *)
(* before it binds its listener (relay-node/src/main.rs), so a relay that  *)
(* is restarted is another member of Relays, perhaps with an old address.  *)
(* Two tasks of a process call the directory: main (register, remove) and  *)
(* the heartbeat loop, which goes on while main removes the node.          *)
(*                                                                         *)
(* Time advances in ticks.  A call is answered within MaxRtt ticks; before *)
(* each heartbeat build_metrics waits for the circuit registry lock, which *)
(* a handshake on some circuit may hold for MaxStall ticks.                *)
(***************************************************************************)
EXTENDS Naturals

CONSTANTS
  Relays,        \* node ids, one per relay process
  Addrs,         \* socket addresses
  StaleTimeout,  \* stale_timeout of the directory
  BeatInterval,  \* heartbeat_interval of the relays
  MaxRtt,        \* bound on a call, request and response
  MaxStall       \* bound on the wait for the circuit registry lock

ASSUME TimesAssumption ==
  /\ StaleTimeout \in Nat \ {0} /\ BeatInterval \in Nat \ {0}
  /\ MaxRtt \in Nat /\ MaxStall \in Nat

VARIABLES
  proc,      \* [Relays -> process states]
  addr,      \* [Relays -> Addrs]: descriptor.address, as configured
  call,      \* the call main has under way
  callAge,   \* its age
  beat,      \* where the heartbeat loop is
  beatAge,   \* since it is there: lock wait, or call
  timer,     \* since the last tick of the interval that was taken
  listed,    \* keys of NodeRegistry.nodes
  age,       \* time since last_heartbeat of the entry
  bereft     \* running relays that lost a heartbeat, or their entry to a
             \* restart (history)

relayVars == <<proc, addr, call, callAge, beat, beatAge, timer>>
vars == <<relayVars, listed, age, bereft>>

Alive(n) == proc[n] \in {"registering", "binding", "up", "stopping"}
Listening(n) == proc[n] \in {"up", "stopping"}

Max2(a, b) == IF a > b THEN a ELSE b
Min2(a, b) == IF a < b THEN a ELSE b

Set(f, n, v) == [f EXCEPT ![n] = v]

\* Only entries of the list have an age.
AgesOf(l, f) == [n \in Relays |-> IF n \in l THEN f[n] ELSE 0]
-----------------------------------------------------------------------------
(* The relay process.                                                      *)

\* main up to the call of register_node.
Start(n) ==
  /\ proc[n] = "off"
  /\ proc' = Set(proc, n, "registering")
  /\ call' = Set(call, n, "register") /\ callAge' = Set(callAge, n, 0)
  /\ UNCHANGED <<addr, beat, beatAge, timer, listed, age, bereft>>

Registered(n) ==
  /\ proc[n] = "registering" /\ call[n] = "registered"
  /\ proc' = Set(proc, n, "binding")
  /\ call' = Set(call, n, "none") /\ callAge' = Set(callAge, n, 0)
  /\ UNCHANGED <<addr, beat, beatAge, timer, listed, age, bereft>>

\* Mutant of Ends: the heartbeat task outlives the process's main task.
EndsButBeats(n) ==
  /\ proc' = Set(proc, n, "dead") /\ timer' = Set(timer, n, 0)
  /\ bereft' = bereft \ {n}
  /\ UNCHANGED <<addr, beat, beatAge, listed, age>>

\* main ends, and the heartbeat loop with it.  A heartbeat it has sent may
\* still arrive.
Ends(n) ==
  /\ proc' = Set(proc, n, "dead") /\ timer' = Set(timer, n, 0)
  /\ IF beat[n] = "sent"
     THEN UNCHANGED <<beat, beatAge>>
     ELSE beat' = Set(beat, n, "off") /\ beatAge' = Set(beatAge, n, 0)
  /\ bereft' = bereft \ {n}
  /\ UNCHANGED <<addr, listed, age>>

\* The process is gone.  So may still a request of main.
Die(n) ==
  /\ Ends(n)
  /\ IF call[n] \in {"register", "remove"}
     THEN UNCHANGED <<call, callAge>>
     ELSE call' = Set(call, n, "none") /\ callAge' = Set(callAge, n, 0)

\* TcpListener::bind fails while another process listens on the address: the
\* `?` ends main without unregister_from_directory.  Otherwise the heartbeat
\* loop is spawned; the first tick of its interval is immediate.
Bind(n) ==
  /\ proc[n] = "binding"
  /\ IF \E m \in Relays : Listening(m) /\ addr[m] = addr[n]
     THEN Die(n)
     ELSE /\ proc' = Set(proc, n, "up")
          /\ beat' = Set(beat, n, "idle")
          /\ timer' = Set(timer, n, BeatInterval)
          /\ UNCHANGED <<addr, call, callAge, beatAge, listed, age, bereft>>

\* A tick of the interval: late ticks are taken at once, one after another
\* (tokio's MissedTickBehavior::Burst).
BeatTick(n) ==
  /\ beat[n] = "idle" /\ timer[n] >= BeatInterval
  /\ timer' = Set(timer, n, timer[n] - BeatInterval)
  /\ beat' = Set(beat, n, "metrics") /\ beatAge' = Set(beatAge, n, 0)
  /\ UNCHANGED <<proc, addr, call, callAge, listed, age, bereft>>

\* build_metrics got the circuit registry lock.
BeatSend(n) ==
  /\ beat[n] = "metrics"
  /\ beat' = Set(beat, n, "sent") /\ beatAge' = Set(beatAge, n, 0)
  /\ UNCHANGED <<proc, addr, call, callAge, timer, listed, age, bereft>>

\* An error is a warning in the log: the loop goes on, nothing registers.
BeatAnswered(n) ==
  /\ beat[n] = "answered"
  /\ beat' = Set(beat, n, "idle") /\ beatAge' = Set(beatAge, n, 0)
  /\ UNCHANGED <<proc, addr, call, callAge, timer, listed, age, bereft>>

\* ctrl-c, or a task of the relay ended.
Stop(n) ==
  /\ proc[n] = "up"
  /\ proc' = Set(proc, n, "stopping")
  /\ call' = Set(call, n, "remove") /\ callAge' = Set(callAge, n, 0)
  /\ UNCHANGED <<addr, beat, beatAge, timer, listed, age, bereft>>

Removed(n) ==
  /\ proc[n] = "stopping" /\ call[n] = "removed"
  /\ Die(n)

Crash(n) == Alive(n) /\ Die(n)
-----------------------------------------------------------------------------
(* The discovery service: each call one step under the write lock.         *)

Reply(n, r) == Set(call, n, IF Alive(n) THEN r ELSE "none")

\* Mutant of RegisterNode: the retain is forgotten.
RegisterNodeNoRetain(n) ==
  /\ call[n] = "register"
  /\ listed' = listed \union {n}
  /\ age' = Set(age, n, 0)
  /\ call' = Reply(n, "registered")
  /\ UNCHANGED <<proc, addr, callAge, beat, beatAge, timer, bereft>>

\* register_node: whoever else had the address is evicted.
RegisterNode(n) ==
  /\ call[n] = "register"
  /\ listed' = {m \in listed : addr[m] # addr[n]} \union {n}
  /\ age' = AgesOf(listed' \ {n}, age)
  /\ call' = Reply(n, "registered")
  /\ UNCHANGED <<proc, addr, callAge, beat, beatAge, timer, bereft>>

\* Mutant of UpdateHeartbeat: an entry is made for an unknown node.
UpdateHeartbeatUpserts(n) ==
  /\ beat[n] = "sent"
  /\ age' = Set(age, n, 0)
  /\ beat' = Set(beat, n, IF Alive(n) THEN "answered" ELSE "off")
  /\ listed' = listed \union {n}
  /\ UNCHANGED <<proc, addr, call, callAge, beatAge, timer, bereft>>

\* update_heartbeat_with_metrics: NodeNotFound for a node that is not listed.
UpdateHeartbeat(n) ==
  /\ beat[n] = "sent"
  /\ age' = IF n \in listed THEN Set(age, n, 0) ELSE age
  /\ beat' = Set(beat, n, IF Alive(n) THEN "answered" ELSE "off")
  /\ UNCHANGED <<proc, addr, call, callAge, beatAge, timer, listed, bereft>>

RemoveNode(n) ==
  /\ call[n] = "remove"
  /\ listed' = listed \ {n}
  /\ age' = AgesOf(listed', age)
  /\ call' = Reply(n, "removed")
  /\ UNCHANGED <<proc, addr, callAge, beat, beatAge, timer, bereft>>

\* Mutants of CleanupStaleNodes: `>=` for `>`; the predicate inverted.
CleanupEarly ==
  /\ listed' = {n \in listed : age[n] < StaleTimeout}
  /\ age' = AgesOf(listed', age)
  /\ UNCHANGED <<relayVars, bereft>>

CleanupInverted ==
  /\ listed' = {n \in listed : age[n] > StaleTimeout}
  /\ age' = AgesOf(listed', age)
  /\ UNCHANGED <<relayVars, bereft>>

\* cleanup_stale_nodes, from its 30 s interval: here at any time.
CleanupStaleNodes ==
  /\ listed' = {n \in listed : age[n] <= StaleTimeout}
  /\ age' = AgesOf(listed', age)
  /\ UNCHANGED <<relayVars, bereft>>
-----------------------------------------------------------------------------
(* Failures and time.                                                      *)

\* A call of main fails, before or after the directory handled it: a failed
\* register_node ends main (`?`), a failed remove_node is only logged and
\* main ends as well.
CallFails(n) ==
  /\ call[n] # "none"
  /\ Ends(n)
  /\ call' = Set(call, n, "none") /\ callAge' = Set(callAge, n, 0)

BeatLost(n) ==
  /\ beat[n] = "sent"
  /\ beat' = Set(beat, n, IF Alive(n) THEN "answered" ELSE "off")
  /\ bereft' = IF Alive(n) THEN bereft \union {n} ELSE bereft
  /\ UNCHANGED <<proc, addr, call, callAge, beatAge, timer, listed, age>>

\* The registry lives in memory only.
DirectoryRestart ==
  /\ listed' = {}
  /\ age' = AgesOf({}, age)
  /\ bereft' = bereft \union {n \in listed : Alive(n)}
  /\ UNCHANGED relayVars

\* Time does not pass what is due: the bounds on calls and on the lock wait,
\* and the steps of a process that wait for nothing.
MayPass(n) ==
  /\ proc[n] # "binding"
  /\ call[n] # "none" => callAge[n] < MaxRtt
  /\ beat[n] = "idle" => timer[n] < BeatInterval
  /\ beat[n] = "metrics" => beatAge[n] < MaxStall
  /\ beat[n] \in {"sent", "answered"} => beatAge[n] < MaxRtt

\* Ages count as far as a comparison can tell (bounds: StaleTimeout + 1 for
\* entries, clocks that are not running stay).
Tick ==
  /\ \A n \in Relays : MayPass(n)
  /\ callAge' = [n \in Relays |->
       IF call[n] = "none" THEN callAge[n] ELSE callAge[n] + 1]
  /\ beatAge' = [n \in Relays |->
       IF beat[n] \in {"off", "idle"} THEN beatAge[n] ELSE beatAge[n] + 1]
  /\ timer' = [n \in Relays |->
       IF Alive(n) /\ beat[n] # "off" THEN timer[n] + 1 ELSE timer[n]]
  /\ age' = [n \in Relays |->
       IF n \in listed THEN Min2(age[n] + 1, StaleTimeout + 1) ELSE age[n]]
  /\ UNCHANGED <<proc, addr, call, beat, listed, bereft>>
-----------------------------------------------------------------------------
Init ==
  /\ proc = [n \in Relays |-> "off"]
  /\ addr \in [Relays -> Addrs]
  /\ call = [n \in Relays |-> "none"] /\ callAge = [n \in Relays |-> 0]
  /\ beat = [n \in Relays |-> "off"] /\ beatAge = [n \in Relays |-> 0]
  /\ timer = [n \in Relays |-> 0]
  /\ listed = {} /\ age = [n \in Relays |-> 0] /\ bereft = {}

\* What happens without delay or within a bounded one.
Due(n) ==
  \/ Registered(n) \/ Bind(n) \/ Removed(n)
  \/ BeatTick(n) \/ BeatSend(n) \/ BeatAnswered(n)
  \/ RegisterNode(n) \/ UpdateHeartbeat(n) \/ RemoveNode(n)

Next ==
  \/ \E n \in Relays : \/ Due(n) \/ Start(n) \/ Stop(n) \/ Crash(n)
                       \/ CallFails(n) \/ BeatLost(n)
  \/ CleanupStaleNodes \/ DirectoryRestart \/ Tick

Spec == Init /\ [][Next]_vars

\* Time passes, what is due happens, the cleanup task runs.
Fairness ==
  /\ WF_vars(Tick) /\ WF_vars(CleanupStaleNodes)
  /\ \A n \in Relays : WF_vars(Due(n))

FairSpec == Spec /\ Fairness
-----------------------------------------------------------------------------
(* Properties.                                                             *)

\* Every variable keeps its type, and a process that is gone runs no task:
\* at most a request of its last moments is still on its way.
TypeOK ==
  /\ proc \in [Relays -> {"off", "registering", "binding", "up", "stopping",
                          "dead"}]
  /\ addr \in [Relays -> Addrs]
  /\ call \in [Relays -> {"none", "register", "registered", "remove",
                          "removed"}]
  /\ beat \in [Relays -> {"off", "idle", "metrics", "sent", "answered"}]
  /\ callAge \in [Relays -> Nat] /\ beatAge \in [Relays -> Nat]
  /\ timer \in [Relays -> Nat] /\ age \in [Relays -> 0 .. StaleTimeout + 1]
  /\ listed \subseteq Relays /\ bereft \subseteq Relays
  /\ \A n \in Relays :
       /\ beat[n] # "off" =>
            \/ Listening(n)
            \/ proc[n] = "dead" /\ beat[n] = "sent"
       /\ call[n] \in {"registered", "removed"} => Alive(n)

\* No two entries with one address: a client that draws a path never gets two
\* identities of one relay, however registrations, restarts and stale entries
\* of crashed processes follow each other (registry.rs:94-95).
AddressesUnique ==
  \A m, n \in listed : addr[m] = addr[n] => m = n

\* A heartbeat that arrives after its node was evicted, removed or cleaned up
\* never lists the node again.
NoRevival ==
  [][\A n \in listed' \ listed : call[n] = "register"]_vars

\* The times fit: a heartbeat is due, waits for the lock and travels before
\* the entry is stale.
TimesFit == Max2(BeatInterval, MaxRtt) + MaxStall + MaxRtt <= StaleTimeout

\* A relay whose times fit and that lost neither a heartbeat nor its entry to
\* a restart leaves the directory while it runs only when another registers
\* with its address - never by the cleanup, at any phase of the 30 s interval,
\* and whatever calls of other relays are lost.
DroppedOnlyByEviction ==
  [][TimesFit =>
       \A n \in listed \ (listed' \union bereft') :
         proc[n] \in {"registering", "binding", "up"} =>
           \E m \in listed' \ listed : addr[m] = addr[n]]_vars

\* A process that is gone, with or without remove_node, leaves the directory
\* for good - also one whose registration was handled after its death.
DeadStayDropped ==
  \A n \in Relays : proc[n] = "dead" ~> [](n \notin listed)
=============================================================================
