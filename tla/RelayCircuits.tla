---------------------------- MODULE RelayCircuits ----------------------------
(***************************************************************************)
(* Circuits through relays: the telescopic build of circuit.rs, what entry *)
(* and middle do with the cells of their circuits (entry.rs, middle.rs,    *)
(* handler.rs, the connection task of main.rs), and the teardown when a    *)
(* relay dies.  All circuits use the same relays, one for each hop.        *)
(*                                                                         *)
(* Names.  A client numbers its circuits from 1, every relay keys its      *)
(* registry by that number and passes it on in CREATE.  Connection <<c, i>>*)
(* is the one over which the cells of circuit c come to hop i.             *)
(*                                                                         *)
(* Crypto.  AES-CTR is XOR with a keystream, so the layers on a payload    *)
(* are the set of keystream blocks it was XORed with, and it is plain when *)
(* the set is empty.  A block is named by circuit, hop, direction and the  *)
(* number of cells that cipher has processed before.                       *)
(*                                                                         *)
(* Locks.  A relay handles a cell under its registry lock, the connect to  *)
(* the next hop and the wait for CREATED included: then the lock is held   *)
(* over two steps and `extending` names the circuit.  The exit answers some*)
(* cells with an END: it is tagged under the lock of the crypto state and  *)
(* written after that lock is given back, still under the registry lock;   *)
(* `replying` names the circuit in between, and a stream task may write    *)
(* then.                                                                   *)
(***************************************************************************)
EXTENDS Naturals, Sequences

CONSTANTS
  Clients,   \* tor-client processes
  Numbers,   \* the circuit ids each of them gives out
  Hops,      \* hops of a circuit, --hops
  MaxCells,  \* DATA cells per circuit and direction (bound)
  MayDie,    \* relays that may crash
  Timeouts,  \* whether a handshake may time out
  None

ASSUME HopsAssumption ==
  /\ Hops \in Nat /\ Hops >= 3 /\ MaxCells \in Nat
  /\ MayDie \subseteq 1 .. Hops /\ Timeouts \in BOOLEAN

Circuits == Clients \X Numbers
Id(c) == c[2]
Relays == 1 .. Hops

ASSUME NoneAssumption == None \notin Circuits

VARIABLES
  client,    \* [Circuits -> states of the circuit at its client]
  keys,      \* [Circuits -> Nat]: hops the client shares a key with
  cfwd,      \* [Circuits -> [Relays -> Nat]]: forward cells its ciphers saw
  cbwd,      \* the same, backward
  sent, got, \* [Circuits -> Nat, Seq]: payloads of the client
  alive,     \* relays that run
  registry,  \* [Relays -> [Numbers -> handler]]: CircuitRegistry.circuits
  extending, \* [Relays -> circuit that holds the registry lock, or None]
  task,      \* [Circuits -> [Relays -> state]]: connection tasks
  reader,    \* [Circuits -> [Relays -> state]]: next-hop readers
  down, up,  \* [Circuits -> [Relays -> Seq]]: cells in flight to, from a hop
  serving,   \* circuits with a stream task at the exit
  exitGot,   \* [Circuits -> Seq]: payloads of the exit
  exitSent,  \* [Circuits -> Nat]: backward cells the exit has tagged
  replying,  \* the circuit whose task at the exit owes an END, or None
  tag,       \* the number that END was tagged with, or 0
  overtaken  \* history: circuits with a cell written before one tagged earlier

clientVars == <<client, keys, cfwd, cbwd, sent, got>>
relayVars  == <<alive, registry, extending, task, reader>>
replyVars  == <<replying, tag>>
exitVars   == <<serving, exitSent, exitGot, replyVars, overtaken>>
vars == <<clientVars, relayVars, down, up, exitVars>>

Handler(c) == [key |-> c, fwd |-> 0, bwd |-> 0, next |-> FALSE]
NoHandler == Handler(None)

Cell(cmd, n, layers) == [cmd |-> cmd, n |-> n, layers |-> layers]
Destroy == Cell("DESTROY", 0, {})

Block(c, i, dir, n) == <<c, i, dir, n>>

\* StatefulCipher::apply_*: the layer comes off if it is on, else it goes on.
Apply(layers, b) == IF b \in layers THEN layers \ {b} ELSE layers \union {b}

\* The reading ends of a connection, and which of them are gone for good.
ReadsDown(c, i) == i \in alive /\ task[c][i] \in {"open", "adding"}
ReadsUp(c, i) ==
  IF i = 1 THEN client[c] \in {"building", "ready"}
           ELSE reader[c][i - 1] = "running" \/ extending[i - 1] = c

\* Both halves of the upstream end are dropped: the client's stream; at a
\* relay the handler with next_hop and the reader, or the stream of a failed
\* extend.
UpstreamGone(c, i) ==
  IF i = 1 THEN client[c] \in {"failed", "gone"}
           ELSE \/ i - 1 \notin alive
                \/ /\ extending[i - 1] # c /\ reader[c][i - 1] # "running"
                   /\ LET h == registry[i - 1][Id(c)]
                      IN ~ (h.key = c /\ h.next)

\* The downstream end is shut down by the reader, or dropped with the task
\* and everything that shares its write half.
DownstreamGone(c, i) ==
  \/ i \notin alive
  \/ reader[c][i] = "ended"
  \/ task[c][i] = "ended" /\ reader[c][i] = "none"
       /\ ~ (i = Hops /\ c \in serving)

\* Writes to a connection; what nobody will read is left out.
PutDown(ch, c, i, cell) ==
  IF ReadsDown(c, i) THEN [ch EXCEPT ![c][i] = Append(@, cell)] ELSE ch
PutUp(ch, c, i, cell) ==
  IF ReadsUp(c, i) THEN [ch EXCEPT ![c][i] = Append(@, cell)] ELSE ch
TakeDown(c, i) == [down EXCEPT ![c][i] = Tail(@)]
TakeUp(c, i) == [up EXCEPT ![c][i] = Tail(@)]
-----------------------------------------------------------------------------
(* The client: CircuitBuilder::build, send_message, the circuit reader.    *)

ForwardLayers(c, k) == {Block(c, j, "f", cfwd[c][j]) : j \in 1 .. k}
BackwardLayers(c, k) == {Block(c, j, "b", cbwd[c][j]) : j \in 1 .. k}
Advance(f, c, k) ==
  [f EXCEPT ![c] = [j \in Relays |-> IF j <= k THEN @[j] + 1 ELSE @[j]]]

\* onion_decrypt with the first k ciphers: every block comes off or goes on.
Unwrap(cell, c, k) ==
  LET blocks == BackwardLayers(c, k)
  IN (cell.layers \ blocks) \union (blocks \ cell.layers)

\* The transport's connect, and CREATE.
Connect(c) ==
  /\ client[c] = "idle" /\ 1 \in alive
  /\ client' = [client EXCEPT ![c] = "building"]
  /\ task' = [task EXCEPT ![c][1] = "open"]
  /\ down' = [down EXCEPT ![c][1] = <<Cell("CREATE", 1, {})>>]
  /\ UNCHANGED <<keys, cfwd, cbwd, sent, got, alive, registry, extending,
                 reader, up, exitVars>>

ConnectFails(c) ==
  /\ client[c] = "idle" /\ 1 \notin alive
  /\ client' = [client EXCEPT ![c] = "failed"]
  /\ UNCHANGED <<keys, cfwd, cbwd, sent, got, relayVars, down, up, exitVars>>

\* CREATED or EXTENDED verifies: one more key, and the next EXTEND - or the
\* circuit is ready.  Anything else ends the build and drops the stream.
HandshakeAnswer(c) ==
  /\ client[c] = "building" /\ up[c][1] # <<>>
  /\ LET m  == Head(up[c][1])
         k  == keys[c]
         ok == /\ m.cmd = IF k = 0 THEN "CREATED" ELSE "EXTENDED"
               /\ Unwrap(m, c, k) = {} /\ m.n = k + 1
     IN IF ~ok
        THEN /\ client' = [client EXCEPT ![c] = "failed"]
             /\ UNCHANGED <<keys, cfwd, cbwd, down>>
        ELSE /\ keys' = [keys EXCEPT ![c] = k + 1]
             /\ cbwd' = Advance(cbwd, c, k)
             /\ IF k + 1 = Hops
                THEN /\ client' = [client EXCEPT ![c] = "ready"]
                     /\ UNCHANGED <<cfwd, down>>
                ELSE /\ down' = PutDown(down, c, 1,
                          Cell("EXTEND", k + 2, ForwardLayers(c, k + 1)))
                     /\ cfwd' = Advance(cfwd, c, k + 1)
                     /\ UNCHANGED client
  /\ up' = TakeUp(c, 1)
  /\ UNCHANGED <<sent, got, relayVars, exitVars>>

\* The stream ends, or HANDSHAKE_TIMEOUT elapses.
BuildFails(c) ==
  /\ client[c] = "building"
  /\ Timeouts \/ (up[c][1] = <<>> /\ DownstreamGone(c, 1))
  /\ client' = [client EXCEPT ![c] = "failed"]
  /\ UNCHANGED <<keys, cfwd, cbwd, sent, got, relayVars, down, up, exitVars>>

SendData(c) ==
  /\ client[c] = "ready" /\ sent[c] < MaxCells
  /\ sent' = [sent EXCEPT ![c] = @ + 1]
  /\ down' = PutDown(down, c, 1,
                     Cell("DATA", sent[c] + 1, ForwardLayers(c, Hops)))
  /\ cfwd' = Advance(cfwd, c, Hops)
  /\ UNCHANGED <<client, keys, cbwd, got, relayVars, up, exitVars>>

\* DESTROY closes the circuit; so does a cell that is not plain after all
\* layers are off: the digest cannot match.
ReadCell(c) ==
  /\ client[c] = "ready" /\ up[c][1] # <<>>
  /\ LET m == Head(up[c][1])
     IN IF m.cmd = "DESTROY"
        THEN /\ client' = [client EXCEPT ![c] = "closed"]
             /\ UNCHANGED <<cbwd, got>>
        ELSE /\ cbwd' = Advance(cbwd, c, Hops)
             /\ IF Unwrap(m, c, Hops) = {}
                THEN /\ got' = [got EXCEPT ![c] = Append(@, m.n)]
                     /\ UNCHANGED client
                ELSE /\ client' = [client EXCEPT ![c] = "mismatch"]
                     /\ UNCHANGED got
  /\ up' = TakeUp(c, 1)
  /\ UNCHANGED <<keys, cfwd, sent, relayVars, down, exitVars>>

ReadEof(c) ==
  /\ client[c] = "ready" /\ up[c][1] = <<>> /\ DownstreamGone(c, 1)
  /\ client' = [client EXCEPT ![c] = "closed"]
  /\ UNCHANGED <<keys, cfwd, cbwd, sent, got, relayVars, down, up, exitVars>>

\* A closed circuit is replaced and its last user returns: the stream to the
\* entry is dropped.
Release(c) ==
  /\ client[c] \in {"closed", "mismatch"}
  /\ client' = [client EXCEPT ![c] = "gone"]
  /\ UNCHANGED <<keys, cfwd, cbwd, sent, got, relayVars, down, up, exitVars>>
-----------------------------------------------------------------------------
(* A relay's connection tasks: handle_connection of main.rs.               *)

\* The task reads a cell: it is not in the middle of an EXTEND or a reply.
Busy(c, i) == extending[i] = c \/ (i = Hops /\ replying = c)
Has(c, i, cmd) ==
  /\ task[c][i] = "open" /\ ~Busy(c, i)
  /\ down[c][i] # <<>> /\ Head(down[c][i]).cmd = cmd
Unlocked(i) == extending[i] = None /\ (i = Hops => replying = None)
Ends(c, i) == task' = [task EXCEPT ![c][i] = "ended"]

\* CREATE: the answer goes out first, without the registry lock.
HandleCreate(c, i) ==
  /\ Has(c, i, "CREATE")
  /\ up' = PutUp(up, c, i, Cell("CREATED", i, {}))
  /\ down' = TakeDown(c, i)
  /\ task' = [task EXCEPT ![c][i] = "adding"]
  /\ UNCHANGED <<clientVars, alive, registry, extending, reader, exitVars>>

\* add_circuit: whatever had the number before is overwritten.
AddCircuit(c, i) ==
  /\ task[c][i] = "adding" /\ Unlocked(i)
  /\ registry' = [registry EXCEPT ![i][Id(c)] = Handler(c)]
  /\ task' = [task EXCEPT ![c][i] = "open"]
  /\ UNCHANGED <<clientVars, alive, extending, reader, down, up, exitVars>>

\* What the handler's forward cipher makes of a cell.
Peel(h, i, cell) == Apply(cell.layers, Block(h.key, i, "f", h.fwd))
\* Mutant of Peeled: the layer is taken off with a copy of the cipher.
PeeledOnCopy(i, c) == registry

Peeled(i, c) == [registry EXCEPT ![i][Id(c)].fwd = @ + 1]

\* EXTEND without a next hop: connect and send CREATE, the lock stays held.
\* A payload that is not plain does not parse; that, or a failed connect, is
\* an Err, which ends the connection task.
HandleExtend(c, i) ==
  /\ Has(c, i, "EXTEND") /\ Unlocked(i)
  /\ LET h == registry[i][Id(c)]
         m == Head(down[c][i])
         taken == TakeDown(c, i)
     IN /\ ~h.next
        /\ registry' = Peeled(i, c)
        /\ IF Peel(h, i, m) = {} /\ i + 1 \in alive
           THEN /\ extending' = [extending EXCEPT ![i] = c]
                /\ task' = [task EXCEPT ![c][i + 1] = "open"]
                /\ down' = [taken EXCEPT ![c][i + 1] =
                              <<Cell("CREATE", i + 1, {})>>]
           ELSE /\ Ends(c, i) /\ down' = taken /\ UNCHANGED extending
  /\ UNCHANGED <<clientVars, alive, reader, up, exitVars>>

\* Mutant of ExtendDone: a middle does not keep the next hop.
ExtendDoneForgets(c, i) ==
  /\ extending[i] = c /\ up[c][i + 1] # <<>>
  /\ LET m == Head(up[c][i + 1])
         h == registry[i][Id(c)]
         answer == Cell("EXTENDED", m.n, {Block(h.key, i, "b", h.bwd)})
         taken == TakeUp(c, i + 1)
     IN /\ registry' = [registry EXCEPT ![i][Id(c)].next = (i = 1),
                                        ![i][Id(c)].bwd = @ + 1]
        /\ \/ /\ up' = PutUp(taken, c, i, answer)
              /\ reader' = [reader EXCEPT ![c][i] = "running"]
              /\ UNCHANGED task
           \/ /\ UpstreamGone(c, i)
              /\ up' = taken /\ Ends(c, i) /\ UNCHANGED reader
  /\ extending' = [extending EXCEPT ![i] = None]
  /\ UNCHANGED <<clientVars, alive, down, exitVars>>

\* CREATED arrived: the next hop is kept, EXTENDED written, the reader of the
\* next hop spawned - unless the write fails: then the next hop stays without
\* a reader.
ExtendDone(c, i) ==
  /\ extending[i] = c /\ up[c][i + 1] # <<>>
  /\ LET m == Head(up[c][i + 1])
         h == registry[i][Id(c)]
         answer == Cell("EXTENDED", m.n, {Block(h.key, i, "b", h.bwd)})
         taken == TakeUp(c, i + 1)
     IN /\ registry' = [registry EXCEPT ![i][Id(c)].next = TRUE,
                                        ![i][Id(c)].bwd = @ + 1]
        /\ \/ /\ up' = PutUp(taken, c, i, answer)
              /\ reader' = [reader EXCEPT ![c][i] = "running"]
              /\ UNCHANGED task
           \/ /\ UpstreamGone(c, i)
              /\ up' = taken /\ Ends(c, i) /\ UNCHANGED reader
  /\ extending' = [extending EXCEPT ![i] = None]
  /\ UNCHANGED <<clientVars, alive, down, exitVars>>

\* Mutant of ExtendFails: the registry guard outlives the task.
ExtendFailsLocked(c, i) ==
  /\ extending[i] = c
  /\ Timeouts \/ (up[c][i + 1] = <<>> /\ DownstreamGone(c, i + 1))
  /\ Ends(c, i)
  /\ UNCHANGED <<clientVars, alive, registry, extending, reader, down, up,
                 exitVars>>

\* The next hop hangs up, or RELAY_HANDSHAKE_TIMEOUT elapses.
ExtendFails(c, i) ==
  /\ extending[i] = c
  /\ Timeouts \/ (up[c][i + 1] = <<>> /\ DownstreamGone(c, i + 1))
  /\ extending' = [extending EXCEPT ![i] = None]
  /\ Ends(c, i)
  /\ UNCHANGED <<clientVars, alive, registry, reader, down, up, exitVars>>

\* Mutant of HandleRelay: EXTEND is not passed on to the next hop.
HandleRelayNoExtend(c, i) ==
  /\ i < Hops /\ Unlocked(i)
  /\ Has(c, i, "DATA")
  /\ LET h == registry[i][Id(c)]
         m == Head(down[c][i])
         peeled == [m EXCEPT !.layers = Peel(h, i, m)]
         taken == TakeDown(c, i)
     IN /\ registry' = Peeled(i, c)
        /\ down' = IF h.next THEN PutDown(taken, h.key, i + 1, peeled)
                             ELSE taken
        /\ \/ UNCHANGED task
           \/ h.next /\ DownstreamGone(h.key, i + 1) /\ Ends(c, i)
  /\ UNCHANGED <<clientVars, alive, extending, reader, up, exitVars>>

\* handle_relay: one layer off, to the next hop of the handler the number
\* names.  Without a next hop the cell is only logged; a failed write is Err.
HandleRelay(c, i) ==
  /\ i < Hops /\ Unlocked(i)
  /\ Has(c, i, "DATA") \/ (Has(c, i, "EXTEND") /\ registry[i][Id(c)].next)
  /\ LET h == registry[i][Id(c)]
         m == Head(down[c][i])
         peeled == [m EXCEPT !.layers = Peel(h, i, m)]
         taken == TakeDown(c, i)
     IN /\ registry' = Peeled(i, c)
        /\ down' = IF h.next THEN PutDown(taken, h.key, i + 1, peeled)
                             ELSE taken
        /\ \/ UNCHANGED task
           \/ h.next /\ DownstreamGone(h.key, i + 1) /\ Ends(c, i)
  /\ UNCHANGED <<clientVars, alive, extending, reader, up, exitVars>>

\* Mutant of HandleAtExit: checked with copies of cipher and digest, and read again.
HandleAtExitPeeks(c) ==
  /\ Has(c, Hops, "DATA") /\ Unlocked(Hops)
  /\ LET m == Head(down[c][Hops])
         h == registry[Hops][Id(c)]
     IN /\ UNCHANGED registry
        /\ IF Peel(h, Hops, m) = {}
           THEN /\ exitGot' = [exitGot EXCEPT ![c] = Append(@, m.n)]
                /\ serving' = serving \union {c}
                /\ UNCHANGED task
           ELSE Ends(c, Hops) /\ UNCHANGED <<exitGot, serving>>
  /\ UNCHANGED <<down, clientVars, alive, extending, reader, up, exitSent,
                 replyVars, overtaken>>

\* The exit: a cell whose digest matches is for its stream, any other one is
\* an Err.  A BEGIN that connects and DATA of a stream get no reply here; a
\* failed connect, DATA of no stream and END are answered with an END.
HandleAtExit(c) ==
  /\ Has(c, Hops, "DATA") /\ Unlocked(Hops)
  /\ LET m == Head(down[c][Hops])
         h == registry[Hops][Id(c)]
     IN /\ registry' = Peeled(Hops, c)
        /\ IF Peel(h, Hops, m) = {}
           THEN /\ exitGot' = [exitGot EXCEPT ![c] = Append(@, m.n)]
                /\ \/ serving' = serving \union {c} /\ UNCHANGED replying
                   \/ replying' = c /\ UNCHANGED serving
                /\ UNCHANGED task
           ELSE Ends(c, Hops) /\ UNCHANGED <<exitGot, serving, replying>>
  /\ down' = TakeDown(c, Hops)
  /\ UNCHANGED <<clientVars, alive, extending, reader, up, exitSent, tag,
                 overtaken>>

\* The END takes its place in the digest and, unless it is empty, in the
\* keystream.
TagReply(c) ==
  /\ replying = c /\ tag = 0
  /\ tag' = exitSent[c] + 1
  /\ exitSent' = [exitSent EXCEPT ![c] = @ + 1]
  /\ UNCHANGED <<clientVars, relayVars, down, up, serving, exitGot, replying,
                 overtaken>>

\* handle_connection writes it; a failed write ends the task.
WriteReply(c) ==
  /\ replying = c /\ tag # 0
  /\ \/ /\ up' = PutUp(up, c, Hops, Cell("DATA", tag,
                                        {Block(c, Hops, "b", tag - 1)}))
        /\ UNCHANGED task
     \/ UpstreamGone(c, Hops) /\ Ends(c, Hops) /\ UNCHANGED up
  /\ replying' = None /\ tag' = 0
  /\ UNCHANGED <<clientVars, alive, registry, extending, reader, down, serving,
                 exitSent, exitGot, overtaken>>

\* End of file.  The task is all that ends: the registry keeps the handler,
\* and the handler its next hop.
ConnEof(c, i) ==
  /\ task[c][i] = "open" /\ ~Busy(c, i)
  /\ down[c][i] = <<>> /\ UpstreamGone(c, i)
  /\ Ends(c, i)
  /\ UNCHANGED <<clientVars, alive, registry, extending, reader, down, up,
                 exitVars>>
-----------------------------------------------------------------------------
(* A relay's next-hop readers, and the exit's stream tasks.                *)

\* handle_backward_relay of whatever handler has the number now; written to
\* the connection the reader was spawned for.  A middle relays a DESTROY of
\* its next hop like any cell; its payload is empty.
Backward(c, i) ==
  /\ i < Hops /\ reader[c][i] = "running" /\ up[c][i + 1] # <<>> /\ Unlocked(i)
  /\ LET h == registry[i][Id(c)]
         m == Head(up[c][i + 1])
         layered == [m EXCEPT !.layers = Apply(@, Block(h.key, i, "b", h.bwd))]
         taken == TakeUp(c, i + 1)
     IN \/ /\ m.cmd = "DATA" \/ m.cmd = "EXTENDED"
           /\ registry' = [registry EXCEPT ![i][Id(c)].bwd = @ + 1]
           /\ up' = PutUp(taken, c, i, layered)
           /\ UNCHANGED reader
        \/ /\ m.cmd = "DESTROY" /\ i > 1
           /\ up' = PutUp(taken, c, i, m)
           /\ UNCHANGED <<registry, reader>>
        \/ /\ UpstreamGone(c, i)
           /\ up' = taken
           /\ reader' = [reader EXCEPT ![c][i] = "ended"]
           /\ UNCHANGED registry
  /\ UNCHANGED <<clientVars, alive, extending, task, down, exitVars>>

\* The reader's last act: DESTROY upstream, and the shutdown of that side.
ReaderEnds(c, i) ==
  /\ reader' = [reader EXCEPT ![c][i] = "ended"]
  /\ UNCHANGED <<clientVars, alive, registry, extending, task, down, exitVars>>

EntryDestroy(c) ==
  /\ reader[c][1] = "running" /\ up[c][2] # <<>>
  /\ Head(up[c][2]).cmd = "DESTROY"
  /\ up' = PutUp(TakeUp(c, 2), c, 1, Destroy)
  /\ ReaderEnds(c, 1)

\* Mutant of ReaderEof: the end of the next hop is taken for silence.
ReaderEofIgnored(c, i) == FALSE

ReaderEof(c, i) ==
  /\ i < Hops /\ reader[c][i] = "running"
  /\ up[c][i + 1] = <<>> /\ DownstreamGone(c, i + 1)
  /\ up' = PutUp(up, c, i, Destroy)
  /\ ReaderEnds(c, i)

\* A stream task, or a BEGIN's CONNECTED, tags and writes in one hold of the
\* crypto state, with the keys of the circuit it belongs to.
ExitSend(c) ==
  /\ c \in serving /\ exitSent[c] < MaxCells
  /\ exitSent' = [exitSent EXCEPT ![c] = @ + 1]
  /\ up' = PutUp(up, c, Hops, Cell("DATA", exitSent[c] + 1,
                                   {Block(c, Hops, "b", exitSent[c])}))
  /\ overtaken' = IF replying = c /\ tag # 0 THEN overtaken \union {c}
                                             ELSE overtaken
  /\ UNCHANGED <<clientVars, relayVars, down, serving, exitGot, replyVars>>

StreamsEnd(c) ==
  /\ c \in serving
  /\ serving' = serving \ {c}
  /\ UNCHANGED <<clientVars, relayVars, down, up, exitSent, exitGot, replyVars,
                 overtaken>>

\* A relay dies with all it holds; what its peers were sent may still arrive,
\* or be lost from some cell on.
Die(r) ==
  /\ r \in alive \intersect MayDie
  /\ alive' = alive \ {r}
  /\ task' = [c \in Circuits |-> [task[c] EXCEPT ![r] =
                IF @ = "none" THEN @ ELSE "ended"]]
  /\ reader' = [c \in Circuits |-> [reader[c] EXCEPT ![r] =
                IF @ = "none" THEN @ ELSE "ended"]]
  /\ extending' = [extending EXCEPT ![r] = None]
  /\ registry' = [registry EXCEPT ![r] = [n \in Numbers |-> NoHandler]]
  /\ down' = [c \in Circuits |-> [down[c] EXCEPT ![r] = <<>>]]
  /\ up' = [c \in Circuits |->
              IF r < Hops THEN [up[c] EXCEPT ![r + 1] = <<>>] ELSE up[c]]
  /\ serving' = IF r = Hops THEN {} ELSE serving
  /\ replying' = IF r = Hops THEN None ELSE replying
  /\ tag' = IF r = Hops THEN 0 ELSE tag
  /\ UNCHANGED <<clientVars, exitSent, exitGot, overtaken>>

Shorten(s) == SubSeq(s, 1, Len(s) - 1)

LoseTail(c, i) ==
  /\ \/ /\ i \notin alive /\ up[c][i] # <<>>
        /\ up' = [up EXCEPT ![c][i] = Shorten(@)] /\ UNCHANGED down
     \/ /\ i > 1 /\ i - 1 \notin alive /\ down[c][i] # <<>>
        /\ down' = [down EXCEPT ![c][i] = Shorten(@)] /\ UNCHANGED up
  /\ UNCHANGED <<clientVars, relayVars, exitVars>>
-----------------------------------------------------------------------------
Init ==
  /\ client = [c \in Circuits |-> "idle"] /\ keys = [c \in Circuits |-> 0]
  /\ cfwd = [c \in Circuits |-> [i \in Relays |-> 0]]
  /\ cbwd = [c \in Circuits |-> [i \in Relays |-> 0]]
  /\ sent = [c \in Circuits |-> 0] /\ got = [c \in Circuits |-> <<>>]
  /\ alive = Relays
  /\ registry = [i \in Relays |-> [n \in Numbers |-> NoHandler]]
  /\ extending = [i \in Relays |-> None]
  /\ task = [c \in Circuits |-> [i \in Relays |-> "none"]]
  /\ reader = [c \in Circuits |-> [i \in Relays |-> "none"]]
  /\ down = [c \in Circuits |-> [i \in Relays |-> <<>>]]
  /\ up = [c \in Circuits |-> [i \in Relays |-> <<>>]]
  /\ serving = {}
  /\ exitSent = [c \in Circuits |-> 0] /\ exitGot = [c \in Circuits |-> <<>>]
  /\ replying = None /\ tag = 0 /\ overtaken = {}

ClientStep(c) == HandshakeAnswer(c) \/ BuildFails(c) \/ ReadCell(c) \/ ReadEof(c)

TaskStep(c, i) ==
  \/ HandleCreate(c, i) \/ AddCircuit(c, i)
  \/ HandleExtend(c, i) \/ ExtendDone(c, i) \/ ExtendFails(c, i)
  \/ HandleRelay(c, i) \/ ConnEof(c, i)
  \/ i = Hops /\ (HandleAtExit(c) \/ TagReply(c) \/ WriteReply(c))

ReaderStep(c, i) ==
  Backward(c, i) \/ (i = 1 /\ EntryDestroy(c)) \/ ReaderEof(c, i)

Next ==
  \/ \E c \in Circuits :
       \/ Connect(c) \/ ConnectFails(c) \/ ClientStep(c) \/ SendData(c)
       \/ Release(c) \/ ExitSend(c) \/ StreamsEnd(c)
       \/ \E i \in Relays : TaskStep(c, i) \/ ReaderStep(c, i) \/ LoseTail(c, i)
  \/ \E r \in Relays : Die(r)

Spec == Init /\ [][Next]_vars

\* Tasks are scheduled.  Weak fairness will do though the tasks of a relay
\* compete for its lock: the cells are bounded, so competition ends.
Fairness ==
  \A c \in Circuits :
    /\ WF_vars(ClientStep(c))
    /\ \A i \in Relays : WF_vars(TaskStep(c, i)) /\ WF_vars(ReaderStep(c, i))

FairSpec == Spec /\ Fairness
-----------------------------------------------------------------------------
(* Properties.                                                             *)

Layers ==
  SUBSET ((Circuits \union {None}) \X Relays \X {"f", "b"} \X Nat)
CellType == [cmd : {"CREATE", "CREATED", "EXTEND", "EXTENDED", "DATA",
                    "DESTROY"},
             n : Nat, layers : Layers]
HandlerType == [key : Circuits \union {None}, fwd : Nat, bwd : Nat,
                next : BOOLEAN]

\* Who holds a relay's registry lock over several steps is a connection task
\* that runs: no crash, timeout, failed extend or reply leaves the lock behind.
LocksHeld ==
  \A i \in Relays, c \in Circuits :
    extending[i] = c => i \in alive /\ task[c][i] = "open"
RepliesHeld ==
  \A c \in Circuits :
    replying = c => Hops \in alive /\ task[c][Hops] = "open"

\* Every variable keeps its type, and a relay's registry lock is held over
\* steps only by a connection task that is alive to give it back.
TypeOK ==
  /\ client \in [Circuits -> {"idle", "building", "ready", "closed",
                              "mismatch", "failed", "gone"}]
  /\ keys \in [Circuits -> 0 .. Hops]
  /\ cfwd \in [Circuits -> [Relays -> Nat]]
  /\ cbwd \in [Circuits -> [Relays -> Nat]]
  /\ sent \in [Circuits -> Nat] /\ got \in [Circuits -> Seq(Nat)]
  /\ alive \subseteq Relays
  /\ registry \in [Relays -> [Numbers -> HandlerType]]
  /\ extending \in [Relays -> Circuits \union {None}]
  /\ task \in [Circuits -> [Relays -> {"none", "open", "adding", "ended"}]]
  /\ reader \in [Circuits -> [Relays -> {"none", "running", "ended"}]]
  /\ down \in [Circuits -> [Relays -> Seq(CellType)]]
  /\ up \in [Circuits -> [Relays -> Seq(CellType)]]
  /\ LocksHeld /\ RepliesHeld
  /\ serving \subseteq Circuits /\ overtaken \subseteq Circuits
  /\ exitSent \in [Circuits -> Nat] /\ exitGot \in [Circuits -> Seq(Nat)]
  /\ replying \in Circuits \union {None} /\ tag \in Nat

\* No other circuit through these relays has the number.
Alone(c) == \A d \in Circuits : Id(d) = Id(c) => d = c

\* Every hop of a ready circuit that still runs answers to it: its number
\* leads to its keys, and from each hop on to the next one.  The exit may be
\* about to add the circuit; it reads no cell of it before.
Established(c) ==
  client[c] = "ready" =>
    \A i \in alive :
      LET h == registry[i][Id(c)]
      IN \/ h.key = c /\ (i < Hops => h.next)
         \/ i = Hops /\ task[c][i] = "adding"

EstablishedWhenReady == \A c \in Circuits : Alone(c) => Established(c)

\* A circuit breaks by itself in one way only, that a stream task overtakes an
\* END between its tag and its write: else, while nothing dies, no build fails
\* and no ready circuit closes, whatever other circuits do at the same relays.
StaysUp(c) == client[c] \in {"idle", "building", "ready"}

NeverBreaksByItself ==
  alive = Relays /\ ~Timeouts =>
    \A c \in Circuits \ overtaken : Alone(c) => StaysUp(c)

\* What CircuitStreams assumes of its path: cells come out at the exit, and
\* at the client, undamaged, in order and at most once.
Path == INSTANCE StreamPipes WITH
  Pipes <- {c \in Circuits : Alone(c)} \X {"up", "down"},
  written <- [p \in {c \in Circuits : Alone(c)} \X {"up", "down"} |->
                IF p[2] = "up" THEN sent[p[1]] ELSE exitSent[p[1]]],
  received <- [p \in {c \in Circuits : Alone(c)} \X {"up", "down"} |->
                IF p[2] = "up" THEN exitGot[p[1]] ELSE got[p[1]]]

ImplementsPath == Path!Spec

\* Builds get through although a relay that extends holds its registry lock
\* over the connect and the next hop's answer, and the exit over a reply: the
\* next hop needs no registry lock to answer CREATE, only to add the circuit
\* and to handle the cells after it.
BuildsSucceed ==
  \A c \in Circuits :
    client[c] = "building" /\ Alone(c) ~> (client[c] = "ready" \/ alive # Relays)

\* When a relay of a ready circuit dies the client learns of it: EOF turns
\* into DESTROY at each hop on the way up.
FailureReachesClient ==
  \A c \in Circuits :
    client[c] = "ready" /\ alive # Relays /\ Alone(c) ~> client[c] # "ready"

\* tests/concurrent_clients.rs:5 of the client says of the relays that they
\* "multiplex between independent circuits without interference".
\* A circuit whose END was overtaken does not count: that race is its own.
NoInterference ==
  alive = Relays /\ ~Timeouts => \A c \in Circuits \ overtaken : StaysUp(c)
=============================================================================
