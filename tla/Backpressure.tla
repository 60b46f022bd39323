---------------------------- MODULE Backpressure ----------------------------
(***************************************************************************)
(* Cells under way over connections that hold only so many of them, and    *)
(* the locks that tasks hold while they wait for room: `write_to_stream`   *)
(* is awaited under the circuit's lock at the client (circuit.rs,          *)
(* send_message), under the registry lock in a relay's connection task     *)
(* (main.rs, entry.rs and middle.rs, handle_relay), and under the crypto   *)
(* state in a stream task of the exit (exit.rs).                           *)
(*                                                                         *)
(* Every circuit is established, with its streams open at both ends; all   *)
(* circuits go through the same relays, over connections of their own.     *)
(* Cells are counted: what is in them is CircuitStreams' and               *)
(* RelayCircuits' matter.                                                  *)
(*                                                                         *)
(* Locks are tokio::sync::Mutex, first come, first served: a lock is the   *)
(* sequence of the tasks that asked for it, and its head holds it.         *)
(***************************************************************************)
EXTENDS Naturals, Sequences, Functions

CONSTANTS
  Circuits,
  Streams,    \* streams of each circuit
  Hops,
  Cap,        \* cells a connection holds in one direction
  Uploads,    \* [Circuits -> Nat]: DATA cells each handler sends (bound)
  Downloads   \* [Circuits -> Nat]: DATA cells each destination makes (bound)

ASSUME SizesAssumption ==
  /\ Hops \in Nat /\ Hops >= 3 /\ Cap \in Nat \ {0}
  /\ Uploads \in [Circuits -> Nat] /\ Downloads \in [Circuits -> Nat]
  /\ Streams \cap {"conn", "reader"} = {}

Relays == 1 .. Hops
Exit == Hops

VARIABLES
  toSend,    \* [Circuits -> [Streams -> Nat]]: cells the SOCKS client has yet
  toReply,   \* the same for the destination
  down, up,  \* [Circuits -> [Relays -> 0 .. Cap]]: cells in the connection to,
             \* and from, each hop
  circuit,   \* [Circuits -> Seq]: the client's lock of the circuit
  registry,  \* [Relays -> Seq]: CircuitRegistry's lock of each relay
  crypto,    \* [Circuits -> Seq]: ExitCryptoState's lock
  encrypted  \* <<circuit, hop>> whose next-hop reader has a cell to write

vars == <<toSend, toReply, down, up, circuit, registry, crypto, encrypted>>

Ask(lock, k, t) == lock' = [lock EXCEPT ![k] = Append(@, t)]
Asked(lock, k, t) == t \in Range(lock[k])
Holds(lock, k, t) == lock[k] # <<>> /\ Head(lock[k]) = t
Release(lock, k) == lock' = [lock EXCEPT ![k] = Tail(@)]

Room(dir, c, i) == dir[c][i] < Cap
Put(dir, c, i) == dir' = [dir EXCEPT ![c][i] = @ + 1]
Take(dir, c, i) == dir[c][i] > 0 /\ dir' = [dir EXCEPT ![c][i] = @ - 1]

Conn(c) == <<c, "conn">>      \* the connection task of a circuit at a relay
Reader(c) == <<c, "reader">>  \* its reader of the next hop
-----------------------------------------------------------------------------
(* The client.                                                             *)

\* A handler has a chunk: circuit.lock().await.
AskCircuit(c, s) ==
  /\ toSend[c][s] > 0 /\ ~Asked(circuit, c, s)
  /\ toSend' = [toSend EXCEPT ![c][s] = @ - 1]
  /\ Ask(circuit, c, s)
  /\ UNCHANGED <<toReply, down, up, registry, crypto, encrypted>>

\* send_message comes back when the cell is in the connection.
SendMessage(c, s) ==
  /\ Holds(circuit, c, s) /\ Room(down, c, 1)
  /\ Put(down, c, 1)
  /\ Release(circuit, c)
  /\ UNCHANGED <<toSend, toReply, up, registry, crypto, encrypted>>

\* The circuit reader has a cell, and asks for the circuit's lock.
ReadCell(c) ==
  /\ ~Asked(circuit, c, "reader")
  /\ Take(up, c, 1)
  /\ Ask(circuit, c, "reader")
  /\ UNCHANGED <<toSend, toReply, down, registry, crypto, encrypted>>

\* It decrypts the cell and hands it to the unbounded channel of its stream.
Demux(c) ==
  /\ Holds(circuit, c, "reader")
  /\ Release(circuit, c)
  /\ UNCHANGED <<toSend, toReply, down, up, registry, crypto, encrypted>>
-----------------------------------------------------------------------------
(* A relay.                                                                *)

\* The connection task has a cell, and asks for the registry lock.
ReadDown(c, i) ==
  /\ ~Asked(registry, i, Conn(c))
  /\ Take(down, c, i)
  /\ Ask(registry, i, Conn(c))
  /\ UNCHANGED <<toSend, toReply, up, circuit, crypto, encrypted>>

\* Mutant of HandleRelay: the registry guard lives on after the cell.
HandleRelayKeepsLock(c, i) ==
  /\ i < Exit
  /\ Holds(registry, i, Conn(c)) /\ Room(down, c, i + 1)
  /\ Put(down, c, i + 1)
  /\ UNCHANGED <<toSend, toReply, up, circuit, registry, crypto, encrypted>>

\* handle_relay: the lock is kept until the next connection has taken the cell.
HandleRelay(c, i) ==
  /\ i < Exit
  /\ Holds(registry, i, Conn(c)) /\ Room(down, c, i + 1)
  /\ Put(down, c, i + 1)
  /\ Release(registry, i)
  /\ UNCHANGED <<toSend, toReply, up, circuit, crypto, encrypted>>

\* The next-hop reader has a cell, and asks for the registry lock.
ReadUp(c, i) ==
  /\ i < Exit
  /\ ~Asked(registry, i, Reader(c)) /\ <<c, i>> \notin encrypted
  /\ Take(up, c, i + 1)
  /\ Ask(registry, i, Reader(c))
  /\ UNCHANGED <<toSend, toReply, down, circuit, crypto, encrypted>>

\* handle_backward_message: one more layer; the lock is let go before the write.
HandleBackward(c, i) ==
  /\ i < Exit
  /\ Holds(registry, i, Reader(c))
  /\ encrypted' = encrypted \union {<<c, i>>}
  /\ Release(registry, i)
  /\ UNCHANGED <<toSend, toReply, down, up, circuit, crypto>>

WriteUp(c, i) ==
  /\ <<c, i>> \in encrypted /\ Room(up, c, i)
  /\ Put(up, c, i)
  /\ encrypted' = encrypted \ {<<c, i>>}
  /\ UNCHANGED <<toSend, toReply, down, circuit, registry, crypto>>
-----------------------------------------------------------------------------
(* The exit.                                                               *)

\* Mutant of AskCrypto: the registry is unlocked while it waits.
AskCryptoUnlocked(c) ==
  /\ Holds(registry, Exit, Conn(c)) /\ ~Asked(crypto, c, "conn")
  /\ Ask(crypto, c, "conn")
  /\ Release(registry, Exit)
  /\ UNCHANGED <<toSend, toReply, down, up, circuit, encrypted>>

\* handle_data, under the registry lock, asks for the crypto state.
AskCrypto(c) ==
  /\ Holds(registry, Exit, Conn(c)) /\ ~Asked(crypto, c, "conn")
  /\ Ask(crypto, c, "conn")
  /\ UNCHANGED <<toSend, toReply, down, up, circuit, registry, encrypted>>

\* It decrypts the cell and hands it to the unbounded queue of the stream.
HandleData(c) ==
  /\ Holds(crypto, c, "conn")
  /\ Release(crypto, c)
  /\ Release(registry, Exit)
  /\ UNCHANGED <<toSend, toReply, down, up, circuit, encrypted>>

\* A stream task has a chunk of the destination: shared_state.lock().await.
AskToReply(c, s) ==
  /\ toReply[c][s] > 0 /\ ~Asked(crypto, c, s)
  /\ toReply' = [toReply EXCEPT ![c][s] = @ - 1]
  /\ Ask(crypto, c, s)
  /\ UNCHANGED <<toSend, down, up, circuit, registry, encrypted>>

\* It tags and writes the cell; crypto state and writer stay locked until the
\* connection has taken it.
WriteReply(c, s) ==
  /\ Holds(crypto, c, s) /\ Room(up, c, Exit)
  /\ Put(up, c, Exit)
  /\ Release(crypto, c)
  /\ UNCHANGED <<toSend, toReply, down, circuit, registry, encrypted>>
-----------------------------------------------------------------------------
Init ==
  /\ toSend = [c \in Circuits |-> [s \in Streams |-> Uploads[c]]]
  /\ toReply = [c \in Circuits |-> [s \in Streams |-> Downloads[c]]]
  /\ down = [c \in Circuits |-> [i \in Relays |-> 0]]
  /\ up = [c \in Circuits |-> [i \in Relays |-> 0]]
  /\ circuit = [c \in Circuits |-> <<>>]
  /\ registry = [i \in Relays |-> <<>>]
  /\ crypto = [c \in Circuits |-> <<>>]
  /\ encrypted = {}

HandlerStep(c, s) == AskCircuit(c, s) \/ SendMessage(c, s)
ClientReaderStep(c) == ReadCell(c) \/ Demux(c)
ConnStep(c, i) ==
  \/ ReadDown(c, i) \/ HandleRelay(c, i)
  \/ i = Exit /\ (AskCrypto(c) \/ HandleData(c))
ReaderStep(c, i) == ReadUp(c, i) \/ HandleBackward(c, i) \/ WriteUp(c, i)
StreamStep(c, s) == AskToReply(c, s) \/ WriteReply(c, s)

Next ==
  \E c \in Circuits :
    \/ ClientReaderStep(c)
    \/ \E s \in Streams : HandlerStep(c, s) \/ StreamStep(c, s)
    \/ \E i \in Relays : ConnStep(c, i) \/ ReaderStep(c, i)

Spec == Init /\ [][Next]_vars

\* Every task is scheduled.
Fairness ==
  \A c \in Circuits :
    /\ WF_vars(ClientReaderStep(c))
    /\ \A s \in Streams : WF_vars(HandlerStep(c, s)) /\ WF_vars(StreamStep(c, s))
    /\ \A i \in Relays : WF_vars(ConnStep(c, i)) /\ WF_vars(ReaderStep(c, i))

FairSpec == Spec /\ Fairness
-----------------------------------------------------------------------------
(* Properties.                                                             *)

Once(q) == \A j, k \in DOMAIN q : q[j] = q[k] => j = k

\* Every variable keeps its type; a task waits for a lock once, and at the
\* exit a connection task that is at the crypto state holds the registry lock.
TypeOK ==
  /\ toSend \in [Circuits -> [Streams -> Nat]]
  /\ toReply \in [Circuits -> [Streams -> Nat]]
  /\ down \in [Circuits -> [Relays -> 0 .. Cap]]
  /\ up \in [Circuits -> [Relays -> 0 .. Cap]]
  /\ circuit \in [Circuits -> Seq(Streams \union {"reader"})]
  /\ crypto \in [Circuits -> Seq(Streams \union {"conn"})]
  /\ registry \in [Relays -> Seq(Circuits \X {"conn", "reader"})]
  /\ encrypted \subseteq Circuits \X (1 .. Exit - 1)
  /\ \A c \in Circuits :
       /\ Once(circuit[c]) /\ Once(crypto[c])
       /\ Asked(crypto, c, "conn") => Holds(registry, Exit, Conn(c))
  /\ \A i \in Relays : Once(registry[i])

Drained ==
  /\ \A c \in Circuits :
       /\ \A s \in Streams : toSend[c][s] = 0 /\ toReply[c][s] = 0
       /\ \A i \in Relays : down[c][i] = 0 /\ up[c][i] = 0
       /\ circuit[c] = <<>> /\ crypto[c] = <<>>
  /\ \A i \in Relays : registry[i] = <<>>
  /\ encrypted = {}

\* While each circuit has traffic one way only, all cells of all circuits
\* arrive, though they share registry locks that are held while a connection
\* is full.
OneWay == \A c \in Circuits : Uploads[c] = 0 \/ Downloads[c] = 0

AllArrive == OneWay => <>Drained

\* The relay before the exit and the exit wait for each other in a circle: the
\* connection task with the registry lock for room towards the exit; the
\* exit's connection task for the crypto state; a stream task with the crypto
\* state for room on the way back; the reader there for the registry lock.
CircularWait(c) ==
  LET i == Exit - 1
  IN /\ Holds(registry, i, Conn(c)) /\ ~Room(down, c, Exit)
     /\ Asked(crypto, c, "conn") /\ ~Holds(crypto, c, "conn")
     /\ ~Room(up, c, Exit)
     /\ Asked(registry, i, Reader(c))

\* relay-node/src/main.rs:321-322 says that the write half is shared "to avoid
\* deadlocks on bidirectional I/O".
NoDeadlock == \A c \in Circuits : ~CircularWait(c)
=============================================================================
