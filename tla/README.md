# A verification of nopanic

nopanic is an onion-routing network: a client with a SOCKS5 proxy, relays
(entry, middle, exit) and a discovery service. This directory holds its TLA+
models, the TLC configurations that check them, and TLAPS proofs. Paths below
are relative to `src/services/` of the repository.

1. [The system](#1-the-system)
2. [The modules](#2-the-modules)
3. [What each run checks](#3-what-each-run-checks)
4. [Findings](#4-findings)
5. [Fairness](#5-fairness)
6. [What is proved](#6-what-is-proved)
7. [Not modelled](#7-not-modelled)
8. [Plan](#8-plan)

## 1. The system

### Components

| Component | State it keeps | Operations | Talks to |
|---|---|---|---|
| Client, streams of a circuit: `tor-client/src/core/stream.rs`, `circuit.rs`, `crypto_engine.rs` | per circuit: `stream_senders`, forward and backward digest and cipher of each hop, `state`; per stream: where its handler is, an mpsc channel | `handle_stream`, `cleanup_stream`, `send_message`, the circuit reader | SOCKS client, entry relay |
| Client, builder: `circuit.rs` `CircuitBuilder` | the stream to the entry, the keys so far | CREATE, EXTEND for each further hop, each with a 60 s timeout | entry relay |
| Client, pool and monitor: `circuit.rs` `CircuitPool`, `client/socks_proxy.rs` | `circuits`, `circuit_ages`, `rebuild_failure_counts`, `abandoned_slots`, `next_circuit_id` | `select_circuit`, `replace_circuit`, `expire_aged_circuits`, cleanup of Dirty and replacement of Closed circuits | discovery, builder, streams |
| Relay, connection task and registry: `relay-node/src/main.rs`, `circuit/handler.rs` | `CircuitRegistry.circuits` by circuit id, one task per connection, 500 permits | `handle_connection`, `add_circuit`, `handle_message` | previous and next hop |
| Relay, entry and middle: `circuit/entry.rs`, `middle.rs` | keys and ciphers of the circuit, `next_hop`, a reader task of the next hop | `handle_create`, `handle_extend`, `handle_relay`, `handle_backward_relay`, DESTROY | neighbours |
| Relay, exit: `circuit/exit.rs` | crypto state shared with the stream tasks, `streams`, one task per stream | BEGIN, DATA, END, destination reads and writes | previous hop, destinations |
| Relay, registration: `relay-node/src/main.rs` | the node id of this process, the heartbeat interval | register, bind, heartbeat loop, unregister | discovery |
| Discovery, node registry: `discovery/src/core/registry.rs`, `store.rs`, `api/grpc.rs` | `nodes` with `last_heartbeat` | register, heartbeat, remove, stale cleanup every 30 s | relays |
| Discovery, path selection: `registry.rs` `get_random_path` | exclusion sets of one request | exit, entry, middles | client |
| Cells: `common/src/protocol.rs` | what `read_exact` has so far, the write half under its mutex | `to_bytes`, `from_bytes`, `write_to_stream`, `from_stream` | every connection between client and relays |
| Handshake and TLS: `common/src/crypto.rs`, `tls.rs`, `tor-client/src/core/transport.rs` | static key and certificate of a process, ephemeral keys of a build | `ntor_server`, `ntor_client_finish_raw`, `FingerprintVerifier` | builder, relays, descriptors of the directory |
| Metrics and activity: `common/src/metrics.rs`, `discovery/src/api`, `relay-node/src/main.rs` | counters, a ring of 200 events per service | `push`, `snapshot`, counting after each call, `GET /api/dashboard` | web page, heartbeat |
| Web page: `web-ui/src/app.rs` | rows, log, threshold, tab, selection | poll and merge, tabs, selection | discovery |
| Start-up: `relay-node/src/wizard`, `tor-client/src/wizard`, `core/config.rs`, `main.rs` | a form with a focus and an error | keys of the form, `validate`, the use of each value | the user |
| Terminal dashboards, conversions, bench client, scripts | see [section 7](#7-not-modelled) | | |

### How they interact

A client asks the discovery service for a path, connects to its entry and
extends the circuit hop by hop. A stream is a SOCKS connection bound to a
circuit: BEGIN, CONNECTED, DATA both ways, END. Every cell goes over one TCP
connection per hop; a relay takes its registry lock for every cell it handles
and keeps it until the reply is written. Teardown goes upstream as end of file
or DESTROY. Nothing is persisted anywhere.

### What is hard about it

* **Shared digests.** One running digest per direction serves all streams of a
  circuit; cells are tagged by several tasks and must be written, and
  received, in the order of their tags.
* **Locks held over awaits.** The relay's registry lock is held across the
  connect to a next hop and its handshake, the connect to a destination, and
  every write; the heartbeat needs the same lock.
* **Values read under a lock and used after it.** The pool hands out circuits
  and the monitor collects ids, and both use them later.
* **A number that means different things.** A circuit id is chosen by each
  client alone and is the key of every relay's registry.
* **Failure in the middle.** A relay may die at any cell, a handshake may time
  out, a build may fail, a SOCKS client may vanish; heartbeats, registrations
  and removals may be lost or arrive after the death of their sender.

The list with lines is `hazards` in `PROJECT.json`.

### What makes each part correct

* Streams: what is written comes out in order, at most once; handlers return;
  destinations are released; the two ends agree on every digest.
* Circuits: a ready circuit reaches its own keys at every hop; it breaks only
  when something fails; a failure reaches the client; builds end.
* Pool: only ready circuits are handed out, they are rotated, the pool drops
  no circuit that is fit for streams, closed ones leave.
* Directory: one entry per address; only a registration adds an entry; a
  running relay stays listed; a dead one disappears.
* Path selection: a path is sound; an error means that there was no way on; a
  draw gives each node its share.
* Cells: a reader has what was written, in order, whoever wrote it and however
  the bytes were cut.
* Handshake: a key the client accepts is the key of the process it has the
  descriptor of, at the other end of that very connection.
* Activity: every event reaches the page once and in order as long as no
  window is outrun; counters account for the registry; the panel shows the last
  events of a node of the active tab.
* Start-up: what a form accepts, the program can start with.

## 2. The modules

```
                 StreamPipes               order, at most once
                 /         \
     (INSTANCE) /           \ (INSTANCE)
   CircuitStreams          RelayCircuits     CircuitPool    NodeDirectory
      |       \              |        \        |     \         |      \
      |   ...StreamsProofs   |   ...CircuitsProofs  ...PoolProofs  ...DirectoryProofs
      |                      |         |       |               |
      |                      | RelayPathProofs                 |
  MCCircuitStreams    MCRelayCircuits   MCCircuitPool   MCNodeDirectory

   Backpressure --- BackpressureProofs       (the paths of RelayCircuits with
        |                                     full connections)
  MCBackpressure

   PathSelection   Handshake   CellCodec   WeightedDraw   Startup   EventBuffer
        |            |  |          |            |            |        /      \
        |            | Handshake-  |            |            | ActivityFeed  NodePanel
        |            |  Proofs     |            |            |      |          |
        +------------+-------------+------ SmallParts -------+------+----------+
                                            |      |
                               MCPathSelection   SmallPartsProofs
```

An `MC` module extends its component's module and defines the symmetry sets; a
`.cfg` gives the constants their values. Operators whose comment begins "Mutant
of" stand just before the definition they vary; no next-state relation uses
them. They show that a property depends on the code: with the mutant in place
of the definition, TLC finds the property violated.

### StreamPipes

The abstract promise, twice used: a set of pipes, each delivering the payloads
written into it in order, each at most once, possibly stopping. It says nothing
about digests, locks, relays or ends of streams.

### CircuitStreams

One established circuit with all its streams, from `handle_stream` to the
destination. The relays between are two FIFO channels that may break, with any
suffix of what is in flight lost; that relays provide such a channel is what
`RelayCircuits` shows. Correspondence:

| Model | Code |
|---|---|
| `phase[s]` | the await point in `handle_stream` / `cleanup_stream` |
| `senders`, `rx` | `Circuit.stream_senders` and the mpsc channel of a stream |
| `clientFwd`, `clientBwd`, `exitFwd`, `exitBwd` | `forward_digest`, `backward_digest` of `OnionKeys` and of `ExitCryptoState` |
| `reader`, `state`, `closedBy` | the circuit reader task, `Circuit.state`, the branch by which it ended |
| `conn`, `held` | the connection task of `main.rs` inside `ExitCircuitHandler`; the BEGIN it connects for, or the END it has tagged and not yet written |
| `exitStreams`, `task`, `destQ` | `streams` of the exit handler, the task of each stream, its `dest_tx`/`dest_rx` |
| `SendMessage` | `Circuit::send_message`: digest, layers and write under the circuit lock, one step. The digest moves also when the write fails |
| `TagEnd` then `WriteReply` | the exit's END replies: tagged under `shared_state` in `exit.rs`, written under the writer lock in `main.rs`; two steps |
| `ConnectOk`, `TaskData`, `TaskEnd` | tag and write under `shared_state`: one step |
| `ReadDestroy` / `ReadEof`, `ReaderExit` | DESTROY clears the channels at once; EOF sets the state first and clears them when the reader leaves its loop |

A digest is a number. SHA-256 is taken to be collision-free, a receiver stops
at its first mismatch, so a tag matches exactly when the receiver absorbed the
same cells as the sender had, and the n-th tag can be called n.

### RelayCircuits

All circuits through one relay per hop: the telescopic build, cells under
way, next-hop readers, the registry and its lock, crashes. A layer of AES-CTR
is the keystream block it XORs (circuit, hop, direction, position), so
`layers` of a cell is the set of blocks it carries; a cell is plain when the set
is empty, and a cell that got a wrong block, or one from a wrong position,
never becomes plain. `extending[i]` is the circuit whose `handle_extend` holds
the registry lock of relay i across the connect and the wait for CREATED; all
other handlers of relay i wait. `registry[i]` is keyed by the *number* of the
circuit and names in `key` the circuit whose keys the handler has, so that two
clients with the same number meet in one slot, as in `add_circuit`. The exit's
END replies are two steps, as in `CircuitStreams`: `replying` is the circuit
whose connection task owes one, under the registry lock, and `tag` its number
once it has one. A stream task may write in between; `overtaken` is a history
variable that names the circuits to which that has happened.
`UpstreamGone` and `DownstreamGone` say when a TCP end is gone: they count
every holder of a half of the stream (task, handler, reader, stream tasks).
Because the registry keeps handlers for good, a middle's connection to the next
hop outlives the connection it came from, as in the code.

### Backpressure

The same paths as in `RelayCircuits`, once circuits are established, under the
one aspect left out there: a connection holds `Cap` cells per direction, and a
task that writes into a full one waits *with its locks held*. Three locks matter:
the circuit's at the client (`circuit`), the registry's at each relay
(`registry`) and the crypto state's at the exit (`crypto`). tokio's Mutex is
first come, first served, so each is the sequence of tasks that asked, its head
the holder; asking and getting are different steps.

| Action | Code |
|---|---|
| `AskCircuit`, `SendMessage` | a handler's chunk; the circuit is locked until the write to the entry returns |
| `ReadCell`, `Demux` | the circuit reader takes a cell, then the same lock |
| `ReadDown`, `HandleRelay` | a connection task takes a cell, then the registry lock, and keeps it until the next hop has the cell |
| `ReadUp`, `HandleBackward`, `WriteUp` | a next-hop reader: lock for one layer, release, write |
| `ReadDown`, `AskCrypto`, `HandleData` | the exit's connection task: the crypto state under the registry lock, then an unbounded queue |
| `AskToReply`, `WriteReply` | a stream task: crypto state (and writer) held until the cell is written |

Cells are counted only. A cell of the model stands for as many as fit into the
socket buffers between two relays. END replies of the exit and PADDING are left
out: they add writes under the same locks, and no new order of locks.

### CircuitPool

The pool under its lock with its actors: SOCKS handlers, the monitor loop step
by step, readers that close circuits, and age. Everything between two
acquisitions of the pool lock is one step; the ids in `list`, `current` and
`chosen` were read under an earlier one. `users` and `orphaned` are the
registered streams, with and without a handler, whose number is
`active_stream_count`.

### NodeDirectory

Relay processes and the registry of nodes. A process registers once, before it
binds, with a fresh id; its main task and its heartbeat loop each have at most
one call under way. Requests may be lost, fail after they were handled, or
arrive after the death of the process; the directory may restart empty. Time is
a tick that cannot pass what is due (`MayPass`). The wait of `build_metrics`
for the circuit registry lock is the phase `metrics`, bounded by `MaxStall`;
late ticks come in a burst, as with tokio's default. `bereft` is a history
variable: the running relays that lost a heartbeat, or their entry to a restart,
which nothing in the code makes good. It keeps losses and restarts in the same
run as the promise for those that lost nothing.

### PathSelection

One call of `get_random_path`, pick by pick, over every possible directory. The
weighted draw may return any candidate (bandwidth is positive).

### WeightedDraw

That draw: `select_weighted_index`, turn by turn. `Limit` stands for 2^64, so
the sum wraps in a release build (`total`) and panics in a debug build.
`FairShare` compares the walk with the definition it implements: node i is the
answer for the draws in an interval as long as its bandwidth. A sum that
overflows keeps the intervals and shortens the range of the draw, so the last
nodes of the list are never drawn.

### Handshake

Who shares a key with whom, while relays restart behind their addresses with new
keys and the directory still describes the process before. `host[i]` is the
process at the address of hop i and `listing[i]` the one its descriptor is of;
`path[c]` is the list the client got. A session key is the record of what goes
into `secret_input`, a Diffie-Hellman result the set of two names, which is the
whole of the assumption on X25519 and HMAC. `Connect`, `Extend` (the hop before
connects), `Create` (`handle_create` of all three kinds), `Finish` (the tag is
compared) and `Fail` (every way a build ends early). `tls` is the feature of the
build: with it a connection reaches only the process whose certificate the
descriptor names. Cells, layers and locks of the same build are in
`RelayCircuits`.

### CellCodec

One direction of a connection, byte by byte: `Write` takes the mutex of the
write half, `Transmit` and `Receive` move as many bytes as the transport likes,
`Close`, `Break` and `TimeOut` end it between any two of them, `Decode` is
`from_bytes`. A header field takes one place on the wire whatever its width, and
the payload has `MaxPayload` places with random padding behind the data.

### EventBuffer, ActivityFeed, NodePanel

`EventBuffer` is the ring of `common/src/metrics.rs` as operators. In
`ActivityFeed` each gRPC handler changes the registry in one step and counts and
records the call in a later one (`calls`, `swept`); the dashboard handler reads
entries, counters and events in three; the page merges an answer with `threshold`
and cuts its log; the service may restart, which sets its clock to 0 and leaves
the page as it is. `late` is a history variable: events were lost to a window,
which the sizes of ring and answer make possible, or to a restart. In `NodePanel` the events of a
relay travel through its ring, a heartbeat, the registry and an answer to the
detail panel, while tabs and rows are clicked.

### Startup

Both wizards as forms: focus, keys, `validate`, and what clap has parsed before
and the rest of `main` needs afterwards. A text is one of the few values that the
checks and the consumers of a value tell apart: a directory URL may be "bare",
or have a scheme and behind it a host or something that is no URL ("malformed").
`RelayNeeds` and `ClientNeeds` are taken from where a value is
used (`bind_addr`, the tonic channel, `tokio::time::interval`, the directory, the
pool), not from the form. tonic is built without TLS here, so over https a start
may fail or not.

### The small parts in one run

`PathSelection`, `Handshake`, `CellCodec`, `WeightedDraw`, `ActivityFeed`,
`NodePanel` and `Startup` share no state at the grain of these models.
`SmallParts` makes each a `part`: a behaviour of `PartsSpec` chooses one part
at the start and takes only its steps, and each property speaks of its own part.
`MCPathSelection` gives TLC the constants, and of the directories that differ only
in the order of like nodes it starts from one (`InOrder`); the theorems are about
`PartsSpec`, which starts from them all.

## 3. What each run checks

State counts are distinct states; on two workers each run takes from seconds
to about two minutes. The bounds name what is enough to see the interesting case.

| Run | Constants | Properties | What it shows |
|---|---|---|---|
| `streams_break` | 1 stream, 2 cells each way, the path may break; 78,000 states | `TypeOK`, `RoutedWhileOpen`, `ImplementsPipes`, `HandlersReturn`, `DestinationReleased` | payloads arrive in order and at most once although END overtakes, writes fail and the path breaks; an open stream has a channel as long as the reader runs; no handler hangs on a dead circuit, unless its SOCKS client stops reading; the destination is let go. Two cells are needed to see an order |
| `streams_two` | 2 streams, 1 cell each way, no break, symmetry; 3.3 million | `ForwardInSync`, `BackwardAccounted`, `OnlyEndsOvertaken`, `AnswerComesFirst` | what several streams do to shared digests. Two streams give two handlers that write forward and three writers backward (the connection task and two stream tasks), so every pair of orders occurs |
| `streams_alarm` | 1 stream, no break | `NoFalseTamperAlarm`, violated | finding 1 |
| `relays_one` | 1 circuit, 4 hops (two middles), 2 cells each way, every relay may die, handshakes may time out; 48,000 | `TypeOK`, `ImplementsPath`, `FailureReachesClient` | no registry lock is left behind; relays implement the channel that `CircuitStreams` assumes; end of file becomes DESTROY and crosses two middles |
| `relays_two` | 2 circuits of one client, 3 hops, 2 cells each way, no failure; 117,000 | `EstablishedWhenReady`, `NeverBreaksByItself`, `BuildsSucceed` | circuits with different numbers do not disturb each other, though CREATED is sent before `add_circuit`; a circuit breaks only through the race of finding 1 (`overtaken`; TLC finds the property violated without that exception); builds end, although a relay that extends holds its registry lock until the next hop has answered CREATE, for which that hop needs no registry lock |
| `relays_same` | 2 clients with one number, the same; symmetry | `NoInterference`, violated | finding 3 |
| `pool_two` | 2 handlers, pool of 1, budget of 2, 2 ids; 284,000 | `TypeOK`, `ReadyIsAged`, `NeverDropsReady`, `AgedStepDown`, `ClosedLeave` | nothing that is fit for streams is dropped by a stale id; rotation and cleanup take place. Two ids: the circuit that leaves and the one that replaces it |
| `pool_retry` | 1 handler, budget of 3 | `RetriedUntilBudget`, violated | finding 2 |
| `path_four` | selection: 2 entries, 3 middles, 1 exit, 3 addresses (1 loopback), 2 operators or none, 4 hops; the small parts: see below; 2.0 million | `TypeOK`, `CircuitIsSound`, `ErrorIsJustified`; `TypesOK`, `KeysAgree`, `ReadsWhatWasWritten`, `FairShare`, `FeedFaithful`, `CountersAccount`, `PanelFaithful`, `AcceptedStarts`, `FormConsistent` | every directory of these nodes, every draw. Four hops make middles conflict with middles, the third middle lets a draw leave too few or just enough. Entries are alike, and so are middles, so one directory of those that differ only in their order is enough (`InOrder`) |
| `directory_two` | 2 relays, 2 addresses, loss, crashes, restarts of the directory; interval 2, round trip 1, lock wait 1, stale after 4; 550,000 | `TypeOK`, `AddressesUnique`, `NoRevival`, `DroppedOnlyByEviction`, `DeadStayDropped` | late and lost calls, reuse of an address; the times just fit (2 + 1 + 1 = 4): with one tick less the entry of a running relay would go stale. The dead are dropped for good |
| `backpressure_oneway` | circuit a uploads 2 cells on each of 2 streams, circuit b downloads 1 on each, 3 hops, 1 cell per connection; 54,000 | `TypeOK`, `AllArrive` | while each circuit is used in one direction, registry locks held on a full connection hold up the other circuit, and never stop it. Four cells fill the way to the exit |
| `backpressure_both` | 1 circuit, 1 stream, 4 cells each way, the same | `NoDeadlock`, violated | finding 4. Three cells in each direction make the circle |

The small parts of `path_four`, each on an instance where its cases occur:

| Part | Bounds | What it shows |
|---|---|---|
| handshake | 2 circuits, 3 hops, 2 processes per address | no key is accepted from a process other than the described one, although relays restart between the answer of the directory, the connect and CREATE, with TLS or without (`KeysAgree`). One restart is enough for a descriptor to be stale |
| cells | 2 cells, payloads of at most 2 bytes (and longer ones, which are refused), 1 command of each range | cells of several writers never mix, padding never shows, a cut cell is no message (`ReadsWhatWasWritten`). Two cells are needed for one to run into the other |
| draw | at most 3 nodes, numbers of 3 bits | each node has its share, with the wrap-around of the sum (`FairShare`) |
| feed | 2 relays at one address, ring of 3, answers of 2, page of 3, 4 events, 2 calls at once | `FeedFaithful` up to the loss that the windows allow, `CountersAccount` whatever runs between a change and its count. Each buffer overflows |
| panel | 2 relays of different types, ring of 3, 2 events per heartbeat, 4 events | `PanelFaithful`: three cuts and two reversals cancel out |
| start | every form the command line lets through, `MAX_HOPS` 10 | `AcceptedStarts`, with two exceptions (section 4); `FormConsistent` while fields come and go |

The real values are interval 60 s, stale after 120 s, handshake timeout 50 s:
the condition `TimesFit` then leaves 10 s for a call. It is a condition, not a
fact: several handshakes that queue for the lock, or a connect to a destination
that does not answer (`exit.rs:144`, no timeout), may hold it longer.

Deadlock is checked in the runs of the pool and of the directory, whose monitor
and clock never stop. `CHECK_DEADLOCK FALSE` stands where the bounded system
really stops: all cells are sent and all streams done (`CircuitStreams`,
`RelayCircuits`, `Backpressure`), or the request is answered, the budget of events used up, the process started
(`SmallParts`, whose parts all end). That nothing stops too early in the
first three is what the liveness properties say.

Bounds in the modules: `MaxReq`, `MaxResp`, `Streams` (each id once: stream ids
are u16 and a wrap needs 65,535 streams in the ten minutes of a circuit),
`MaxCells`, `Hops`, `MaxId` (builds stop succeeding), the cap
`StaleTimeout + 1` on ages (no comparison sees more), `Uploads`, `Downloads` and
`Cap`, `MaxStarts`, `MaxEvents`, `MaxCalls`, `MaxRelayEvents`, `MaxNodes`, and `MayDie`, `Timeouts`, `Breakable`, which narrow a run.

## 4. Findings

Each is a run that TLC ends with a counterexample.

1. **A healthy circuit is torn down for "possible tampering"**
   (`streams_alarm`). The exit answers END, a failed connect or DATA for a
   stream that is gone with an END tagged under `shared_state`
   (`exit.rs:513`), releases it, and leaves the write to `main.rs`. A stream
   task of the circuit may tag and write a cell in between. The client
   receives the later tag first, and its reader reports tampering and closes
   the circuit with all its streams (`circuit.rs:709`). `OnlyEndsOvertaken`
   shows that these replies are the only cells that are overtaken, and
   `NeverBreaksByItself` of `RelayCircuits`, where the same replies are split,
   that a circuit alone with its number and with live relays breaks in no
   other way.
2. **A failed rebuild is not retried** (`pool_retry`). `replace_circuit`
   removes the slot before it builds (`circuit.rs:525`), so the monitor never
   sees it again. `config.rs:31` promises "Max consecutive rebuild failures per
   circuit slot before giving up on that slot".
3. **Circuits of two clients collide** (`relays_same`). Ids are counted from 1
   by each client (`circuit.rs:385`), and `add_circuit` (`handler.rs:130`)
   overwrites by that id whatever connection it came over;
   `tests/concurrent_clients.rs:3-5` promises multiplexing "without
   interference". The other properties of `RelayCircuits` are about circuits
    whose number no other client uses at these relays (`Alone`).
4. **Two relays wait for each other for good** (`backpressure_both`). A middle's
   connection task writes to the exit under its registry lock (`main.rs:400`,
   `middle.rs:260`) while the exit's connection task waits for the crypto state,
   which a stream task holds while it writes to the middle
   (`exit.rs:283-301`), whose next-hop reader waits for the registry lock. With
   both directions of that connection full nothing moves any more, on any
   circuit of the two relays. `main.rs:321-322` says that the write half is
   shared "to avoid deadlocks on bidirectional I/O". A larger `Cap` needs
   more cells for the same circle; with traffic in one direction per circuit
   `backpressure_oneway` finds none.

Smaller observations have no run. The `?` after the success reply
(`stream.rs:104`), and after BEGIN (`stream.rs:46`), returns without
`cleanup_stream`, so the stream stays registered and counts as load (the phase
`abandoned` of `CircuitStreams`), although `stream.rs:19-20` says that the idle
timeout "Prevents orphaned streams from keeping circuits alive indefinitely". `circuit.rs:785-786` says "Dirty circuits
stay in the pool until their streams finish"; the removal at `circuit.rs:824`
uses ids found idle under an earlier lock, so a circuit that got a stream in
between is removed as well (`RemoveDirty`; the stream goes on, as its handler
holds the circuit; `NeverDropsReady` is about Ready circuits and allows it). And `path-selection.puml:10-13` makes an error a matter of
counts, while `registry.rs:191` also refuses when the one entry drawn conflicts
with the one exit drawn.

In the parts around the core:

* The web page pushes new events to the end of its log and then calls
  `truncate(200)` (`web-ui/src/app.rs:345`), which keeps the oldest: a page that
  has seen 200 events shows no new one. This is why `late` counts a full page.
  Its threshold also survives a restart of the discovery service, whose clock
  starts again (`app.rs:335`). `rest.rs:98` says "polled every 3 s"; the page
  waits 20 s.
* The page may show a node whose removal is already in its log, and the
  other way round: the three reads of one answer are not one state. The
  counters are compared with the registry for this reason with the calls still
  under way added.
* A sum of bandwidths that wraps (`registry.rs:270`) keeps a draw in range but
  never draws the last nodes of the list (`FairShare`).
* The relay's wizard sets `bind_host` to 0.0.0.0 whatever `--bind-host` said
  (`relay-node/src/wizard/mod.rs:245`); both wizards look only at the
  scheme of the directory URL (`wizard/mod.rs:213`,
  `tor-client/src/wizard/mod.rs:127`), and `Channel::from_shared` (`main.rs:92`,
  `client/mod.rs:74`) refuses what is no URL behind it; and the client's takes any
  size of the pool, for which `Vec::with_capacity` (`circuit.rs:445`) may have no
  room. These are the exceptions in `AcceptedStarts`. A pool of size 0, which
  only the command line lets through, starts and has its circuits built on
  demand. The question
  before circuits of the maximal length is asked on the command line only
  (`tor-client/src/main.rs:22`).
* In the relay's dashboard `[PAUSED]` is a label: what is drawn does not depend
  on it (`relay-node/src/tui/mod.rs:128`, `539`).

## 5. Fairness

Weak fairness only, and only for steps that the runtime takes by itself:

* tokio schedules every task that can run: reader, connection tasks, next-hop
  readers, stream tasks, handlers.
* Waits end: CONNECTED after 30 s, idle SOCKS connections after 120 s,
  handshakes after 50 and 60 s; a connect to a destination ends with success or
  an error of the operating system. In `FairSpec` of `CircuitStreams` this is
  the fairness of the handlers and of `ConnStep`. Traffic per stream is bounded
  there, so the idle timer, which every message restarts, runs out.
* A handler's writes to its SOCKS client (the replies, and DATA at
  `stream.rs:165`) have no timeout, and `select!` polls nothing while one waits:
  a handler in such a write (`WritesToSocks`) has no fairness, and
  `HandlersReturn` is about clients that do not stop reading for good. The
  fairness of the pool asks nothing of the handlers.
* A write to the entry, made under the circuit lock (`circuit.rs:84-87`), has no
  timeout either. `CircuitStreams` and `CircuitPool` assume that it is taken or
  fails; `Backpressure` is the model in which it may not be, and finding 4 a path
  on which it is not.
* `TaskForward \/ TaskDropped` is fair on the assumption that a destination
  that stops reading is reset in the end.
* Handlers compete for the registry lock. tokio's Mutex is first come, first
  served: `Backpressure` has the queues; in `RelayCircuits` weak fairness is
  enough because cells are bounded, so competition ends.
* The monitor's sleeps and the cleanup interval end (`MonitorStep`, `Tick`,
  `CleanupStaleNodes`).

No fairness is assumed for what others do: new SOCKS connections, output of a
destination, failures, crashes, ageing.

## 6. What is proved

The theorems hold for every value of the constants that the named assumptions
of the modules admit; TLC evaluates the assumptions in the runs.

| Theorem | Statement | Assumptions |
|---|---|---|
| `TypeCorrect`, `ForwardSync`, `OpenStreamsRouted`, `OvertakenAreEnds`, `TagsAccounted` (CircuitStreamsProofs) | `Spec => []TypeOK`, `[]ForwardInSync`, `[]RoutedWhileOpen`, `[]OnlyEndsOvertaken`, `[]BackwardAccounted` | `BoundsAssumption` |
| `AnswersComeFirst` (CircuitStreamsProofs) | `[]AnswerComesFirst` | `BoundsAssumption` |
| `StreamsArePipes` (CircuitStreamsProofs) | `ImplementsPipes`: `CircuitStreams` implements `StreamPipes` | `BoundsAssumption` |
| `PathTypeCorrect`, `PathsAreSound`, `ErrorsAreJustified` (SmallPartsProofs) | `[]TypeOK`, `[]CircuitIsSound`, `[]ErrorIsJustified` | `TypesAssumption` (which makes `Nodes` finite) |
| `PartsTypeCorrect`, `PartsKeysAgree`, `CellsAreRead`, `DrawsAreFair`, `FeedsAreFaithful`, `CountersAddUp`, `PanelsAreFaithful`, `WizardsAccept`, `WizardsAreConsistent` (SmallPartsProofs) | `PartsSpec => []TypesOK`, `[]KeysAgree`, `[]ReadsWhatWasWritten`, `[]FairShare`, `[]FeedFaithful`, `[]CountersAccount`, `[]PanelFaithful`, `[]AcceptedStarts`, `[]FormConsistent` | `SizesAssumption` and `TypesAssumption` |
| `DirectoryTypeCorrect`, `DirectoryAddressesUnique`, `DirectoryNoRevival`, `RunningRelaysStay` (NodeDirectoryProofs) | `[]TypeOK`, `[]AddressesUnique`, `NoRevival`, `DroppedOnlyByEviction` | `TimesAssumption` |
| `PoolTypeCorrect`, `ReadyCircuitsAreAged`, `ReadyCircuitsStay` (CircuitPoolProofs) | `[]TypeOK`, `[]ReadyIsAged`, `NeverDropsReady` | `PoolAssumption` |
| `HandshakeTypeCorrect`, `HandshakeKeysAgree` (HandshakeProofs) | `[]TypeOK`, `[]KeysAgree` | `Bounds`, a hypothesis of the theorems |
| `RelayTypeCorrect` (RelayCircuitsProofs) | `[]TypeOK`, registry locks included | `HopsAssumption`, `NoneAssumption` |
| `ReadyIsEstablished` (RelayCircuitsProofs) | `[]EstablishedWhenReady` | `HopsAssumption`, `NoneAssumption` |
| `PathsArePipes` (RelayPathProofs) | `ImplementsPath`: `RelayCircuits` implements `StreamPipes` | `HopsAssumption`, `NoneAssumption` |
| `CircuitsStayUp` (RelayPathProofs) | `[]NeverBreaksByItself` | `HopsAssumption`, `NoneAssumption` |
| `LocksAreQueues` (BackpressureProofs) | `[]TypeOK` of `Backpressure` | `SizesAssumption` |

How they go:

* **Streams.** `TypeOK` alone is not inductive, since the connection handler
  uses the fields of the cell it holds: `TypeInv` adds that it holds one while
  connecting or replying. `FwdInv` says that the i-th cell under way to the exit
  has the tag `exitFwd + i`, and that while the path is up the channel ends at
  the client's own count; `SendKeeps` and `AcceptKeeps` carry it over the two
  ends, `BreakKeeps` over the loss of a suffix. Hence no `Accept` can mismatch.
  `RoutedWhileOpen` is inductive with the types. Backwards nothing is in order,
  which is finding 1, so two weaker facts take its place. `BwdInv`: every tag on
  the wire or held is at most `exitBwd`, and the reply a connection task holds
  is an END; a later tag in front of an earlier one then belongs to an END.
  `AccInv`: while nothing broke, the tags from `clientBwd + 1` to `exitBwd` are
  on the wire or held, each once (`Exact`); reading a cell, writing one and
  tagging one each move one number across the border of that set.
* **Answers.** `FirstInv` follows a stream from its handler's side. Before BEGIN
  is sent the exit knows nothing of the stream (`Untouched`); while the handler
  waits and has read nothing, every DATA of the stream has a cell of another
  kind before it, and a task at the exit implies that this cell is written
  (`Answered`). Stream tasks that tag in between, and a break that cuts the
  wire, keep both.
* **Streams are pipes.** `PipesInv` follows the payloads of a stream. `Carries`
  says of a channel that the payloads of the stream on it are the numbers from
  the last one that came out to the last one that went in, in order, or an
  initial part of them once the path broke. `UpInv` applies it to the cells on
  their way to the exit, as long as the exit will or does take them (`Taken`),
  and `DownInv` to the channel of the stream and the cells before it, as long as
  its handler listens. `BeginsFirst` is what keeps a stream from being taken
  twice. A payload that is delivered is then the next one, so each step of the
  code is a step of `StreamPipes` on the one pipe it touches, or a stutter.
* **Paths of nodes.** `PathInv`: the exit kept aside and all nodes on the path have
  address and operator in the exclusion sets (`Excluded`), are pairwise
  compatible and no longer available. `AllowedIsCompatible` is the heart: what
  the sets allow is compatible with all they record. For errors the converse is
  needed: `ExcludedByPicks` gives each excluded address and operator a node that
  was picked, and `NothingLost` says that a middle a sound circuit could still
  take is neither refused nor gone from the list. Too short a list then means
  too few middles, by cardinality (`TooFewRemain`).
* **Directory.** `AddressesUnique` is inductive with the types.
  `RunningRelaysStay` needs `TimelyInv`: `Schedule` relates process, calls and
  clocks; `Freshness` bounds the age of a running relay's entry in each phase
  of its heartbeat loop (idle, waiting for the lock, sent, answered). With
  `TimesFit` no entry of a running relay outside `bereft` is stale
  (`NeverStale`), and `WhoLeaves` finds that only an eviction remains.
* **Pool.** `PoolInv` adds to the types what handlers and the monitor *know* of
  the ids they keep: Closed or Dirty circuits. This stays true however long
  they wait for the lock, because a circuit only moves Ready, Dirty, Closed and
  ids are fresh (`Sticky`, `FreshIds`).
* **Handshake.** A key is accepted because of what a message says, so
  `HandshakeInv` adds to `KeysAgree` what messages say: `Addressed`, that the
  message of a build is for the hop after the last key, so no later session
  replaces one a key agrees with, and `Answered`, that a CREATED on its way
  carries the session of the process that sent it. The static key in the tag
  names the process (`StaticsDiffer`); that is the whole of the argument, and
  the fingerprint is not used in it.
* **Registry locks and types of the relays.** `TypeOK` of `RelayCircuits` is the
  conjunction of two invariants. `LockInv` is `LocksHeld` with `TasksAlive`: a
  task that ends either holds the lock and lets go of it, or took the lock to get
  there; so what is cited of each action is its guard on `extending`. `Shapes` has
  the types of the other variables, with two facts they depend on: a build has
  fewer keys than hops, and the last hop extends nothing.
* **Ready circuits.** A client counts a key when an answer says so, and nothing
  ties the state of a hop to the client but cells under way. `EstInv` speaks of
  the circuits that are alone with their number (`CircuitInv`), and is anchored
  in `Answers`: every CREATED and EXTENDED on its way stands for a hop that has
  the circuit's keys, and for one that knows its next. Behind it are `Fresh` (no
  cell but CREATE reaches a hop that has not handled it), `Extends` (a hop that
  waits for CREATED is one of the circuit, and is the only one), `NextKept` (a
  next hop is set once) and `NotYet` (before CREATE there is nothing of the
  circuit at a hop), with `ClientKnows` as what the theorem needs. A dead relay
  is exempt, so a crash can only weaken it. Steps of other circuits leave the
  slots alone (`Untouched`; this is where the number has to be the circuit's
  own, and finding 3 is what happens when it is not), most steps of the circuit
  change nothing the invariant mentions (`Quiet`), and what is left are connect
  and EXTEND, CREATE, `add_circuit` and the death of a relay.
* **Paths are pipes.** What `CircuitStreams` assumes of its path needs little
  of the circuit: the layer of the last hop is on a DATA cell from end to end,
  and its block has the cell's number (`CarriesInv`). Layers of other hops come
  and go, cells are lost and hops die; the digest check at either end lets only
  the next number through.
* **Nothing breaks by itself.** While nothing dies and nothing times out
  (`Calm`), a circuit's whole state follows from numbers. The o-th cell its
  client sends is one and the same at every hop, but for the layers above the
  hop (`DownCells`, and `UpCells` for answers), so that a connection holds the
  line of cells from the last one its reader has `Heard` to the last one its
  writer has sent, and upwards from what was absorbed to what was `Said`.
  `Steady` has both lines at each hop, the ciphers as functions of the same
  numbers (`Seen`), and what a hop must have done by its second cell
  (`SteadyNext`). A cell that is read is then the very one expected, each guard
  that would end a circuit is false, and each step moves one line at one hop
  (`DownMoves`, `UpMoves`); what a hop does leaves the lines elsewhere alone
  (`Local`). An END that is tagged and not written is a cell the exit has said
  and not yet sent (`ReplyFits`, `Written`); a stream task that overtakes it
  leaves a gap in the line, and ends what is claimed of the circuit.
* **Full connections.** `TypeOK` of `Backpressure` is inductive as it stands. It
  says that each lock is a queue without repetition whose members wait in the
  matching phase, so a release gives the lock to another task (`AskLast`,
  `ReleaseFirst`), and that no connection holds more than `Cap` cells.

* **Small parts.** `PartsInv` is one invariant for each part; a step of a part
  leaves the variables of the others alone, so each is kept by itself.
  * *Handshake*: `HandshakeInv`, with its theorems cited from `HandshakeProofs`
    through an INSTANCE.
  * *Cells*: `CellsInv` looks at the bytes between writer and reader as one
    sequence: what is buffered, under way and not yet sent (`Stream`). It is what
    `to_bytes` makes of the cells written and not yet read, one after the other
    (`Carries`), or an initial part of it once a connection broke. So every read
    takes a whole cell from the front, and `from_bytes` undoes `to_bytes`
    whatever the padding is. A read that is given up keeps its bytes in nobody's
    hands, and no later one happens.
  * *Draw*: `DrawInv`. While the list is walked, what was drawn is the sum of the
    bandwidths passed and the weight left, and below the sum of all; so the walk
    ends inside the list, in the interval of the node it ends at.
  * *Feed*: every buffer is an interval of instants. `RingInv`: the ring holds the
    last events, `Capacity` of them or all. `AnswerInv`: an answer that was sent
    is the newest `Window` events of some instant. `PageInv`: the page's log is
    increasing and not above its threshold, and the whole interval from 1 while
    nothing was late. `ServiceInv` counts: who is under way between a change of
    the registry and its counter.
  * *Panel*: `PanelInv`. Ring, entry, answer and page are each a `Snapshot` of
    some moment of a relay: so many events made, the last ones kept. What is
    selected is of the active tab.
  * *Start*: `StartInv`. The focus is inside the fields of the screen, and
    `Checked` says that an accepted form has passed each of its checks in turn,
    so that of the reasons to fail only those are left at which `validate` does
    not look.

Two lemmas stand in for induction over numbers, which the installed provers
cannot do by a theorem of the library: `LeastNumber` (from the well-foundedness of
finite sets under inclusion) gives `UpTo`, induction up to a number for a *set* of
numbers, and with it `FoldExists`, that the folds of the community modules have
the values their definitions say. Sums of a list, the bytes of a row of cells
and what is newer than a threshold are folds.

Only model-checked, on the instances of section 3: the liveness properties
`HandlersReturn`, `DestinationReleased`, `AgedStepDown`, `ClosedLeave`,
`DeadStayDropped`, `FailureReachesClient`, `BuildsSucceed` and `AllArrive`,
since liveness under fairness and ENABLED are beyond the prover. Every
invariant, every action property and both refinements that the passing runs
check are theorems too. No module declares a RECURSIVE operator.

## 7. Not modelled

* **Cryptographic primitives**: AES-CTR, SHA-256, HKDF, HMAC and X25519 are
  taken as ideal. A layer is the name of a keystream block, a running digest a
  count, a session key the record of what went into it.
* **TLS itself**: the configuration of rustls and the encoding of certificates.
  Its effect, which process a connection can reach, is in `Handshake`.
  Elsewhere a connection is a reliable ordered stream that may break.
* **Terminal dashboards** (`*/src/tui/mod.rs`): they draw a snapshot of metrics;
  their state is a filter and a flag.
* **Conversions** (`proto/src/lib.rs`, `common/src/error.rs`): field by field,
  without state. **Bench client and scripts**: tooling outside the system.
* **Counters of relays and clients**: atomics that no decision reads.
* **Inside modelled components**: keepalive PADDING (ignored by every relay), a
  forward DESTROY and a forward EXTENDED (no actor sends them, so
  `handle_extended` of `middle.rs` is never reached), the semaphore of 500
  connections, wrap-around of stream and circuit ids, exit policies (carried in
  the descriptor, and read by no decision of relay or client), the sorting,
  searching and layout of the web page, single characters of a form's text.
* **Buffer sizes** outside `Backpressure`: there connections are unbounded. The
  two views are not composed; `Backpressure` has no failures.

## 8. Plan

Done, in this order:

1. `CircuitStreams` with `StreamPipes`: what users see, and where the most
   tasks share state. Proofs of every safety invariant the runs check.
2. `PathSelection` and its proofs; `WeightedDraw`, the draw inside it.
3. `NodeDirectory` and its proofs.
4. `CircuitPool` and its proofs.
5. `RelayCircuits`: what `CircuitStreams` assumes, and crashes. Proofs of
   its types and locks, and of what a ready circuit finds at its hops.
6. `Backpressure`: full connections and the locks held over writes. Proof of its
   invariant.
7. `Handshake` and its proofs: stale descriptors and restarts.
8. `CellCodec`, `ActivityFeed`, `NodePanel`, `Startup`: the parts around the
   core, composed in `SmallParts`, and the proof of all their invariants.
9. The proofs that `CircuitStreams` and `RelayCircuits` implement `StreamPipes`,
   and that nothing breaks by itself.

Left:

* Permits: `RelayCircuits` with a bound on connection tasks per relay, for the
  leak noted under `hazards` (`main.rs:285`).
* Composition: a pool over circuits that close as in `CircuitStreams`, with
  handlers that hold a replaced circuit; `Backpressure` with failures.
