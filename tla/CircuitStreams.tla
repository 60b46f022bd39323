--------------------------- MODULE CircuitStreams ---------------------------
(***************************************************************************)
(* The streams of one established circuit, end to end.                     *)
(*                                                                         *)
(*  SOCKS client <-> handle_stream <=> Circuit / circuit reader            *)
(*                       |  fwd, bwd: the path entry - middle - exit       *)
(*  destination  <-> stream task   <=> exit connection handler             *)
(*                                                                         *)
(* Client side: tor-client/src/core/stream.rs (one task per SOCKS          *)
(* connection) and circuit.rs (send_message under the circuit lock, the    *)
(* reader task).  Exit side: relay-node/src/circuit/exit.rs (the handler,  *)
(* run by the one connection task of main.rs, and one task per stream).    *)
(* The hops between are two FIFO channels: RelayCircuits models those and  *)
(* shows that they are (ImplementsPath).                                   *)
(*                                                                         *)
(* Crypto.  A direction of a circuit has one running SHA-256 and one CTR   *)
(* keystream, both advanced by every cell.  With a collision-free hash a   *)
(* cell verifies exactly when the receiver has taken in, without error,    *)
(* the very cells the sender hashed before it; a receiver stops at its     *)
(* first mismatch, so the tag of the n-th cell is modelled by n and a      *)
(* digest state by the number of cells it has absorbed.                    *)
(*                                                                         *)
(* Locks.  send_message and the writes of a stream task run entirely under *)
(* one lock, so each is one step.  The END replies of the exit handler are *)
(* not: the tag is taken under shared_state, the write happens later       *)
(* under the writer lock, so these are two steps.                          *)
(***************************************************************************)
EXTENDS Naturals, Sequences

CONSTANTS
  Streams,   \* stream ids the client allocates on this circuit, each once
  MaxReq,    \* DATA cells a SOCKS client may send per stream (bound)
  MaxResp,   \* DATA cells a destination may send per stream (bound)
  Breakable  \* whether the path may break (bound: FALSE narrows a run)

ASSUME BoundsAssumption ==
  MaxReq \in Nat /\ MaxResp \in Nat /\ Breakable \in BOOLEAN

VARIABLES
  phase,      \* [Streams -> Phases]: where handle_stream of the stream is
  senders,    \* Circuit.stream_senders: ids with a registered channel
  rx,         \* [Streams -> Seq]: that channel's content
  sent,       \* [Streams -> Nat]: DATA cells the SOCKS client has sent
  got,        \* [Streams -> Seq]: payloads handed to the SOCKS client
  clientFwd,  \* OnionKeys.forward_digest
  clientBwd,  \* OnionKeys.backward_digest
  state,      \* Circuit.state
  reader,     \* the circuit reader task
  closedBy,   \* why it left its loop
  pathUp,     \* every connection and relay of the path is alive
  fwd, bwd,   \* cells in flight, in write order
  conn,       \* the exit's connection handler
  held,       \* the cell it holds: a BEGIN whose connect is under way, or
              \* an END tagged and not yet written; NoCell otherwise
  exitStreams,\* keys of ExitCircuitHandler.streams
  task,       \* [Streams -> {"none", "running", "finished"}]
  destQ,      \* [Streams -> Seq]: the unbounded dest_tx/dest_rx channel
  destGot,    \* [Streams -> Seq]: payloads written to the destination
  destSent,   \* [Streams -> Nat]: DATA cells the destination has sent
  exitFwd,    \* ExitCryptoState.forward_digest
  exitBwd     \* ExitCryptoState.backward_digest

clientVars == <<phase, senders, rx, sent, got, clientFwd, clientBwd, state,
                reader, closedBy>>
exitVars   == <<conn, held, exitStreams, task, destQ, destGot, destSent,
                exitFwd, exitBwd>>
vars       == <<clientVars, pathUp, fwd, bwd, exitVars>>

Phases == {"idle", "selected", "opened", "waiting", "connected", "relaying",
           "cleanup", "unregister", "done", "abandoned"}
Commands == {"BEGIN", "CONNECTED", "DATA", "END"}

\* Mutant of Cell: `msg.digest = digest` forgotten, the tag stays zero.
CellUntagged(s, c, d, n) == [stream |-> s, cmd |-> c, data |-> d, tag |-> 0]

Cell(s, c, d, n) == [stream |-> s, cmd |-> c, data |-> d, tag |-> n]
NoCell == [cmd |-> "none"]

\* What a relay's write does to a channel: once the path is down the bytes
\* go to a dead socket, whether or not the write call reports it.
Put(ch, c) == IF pathUp THEN Append(ch, c) ELSE ch
-----------------------------------------------------------------------------
(* The client: handle_stream, one task per SOCKS connection.               *)

Step(s, from, to) == phase[s] = from /\ phase' = [phase EXCEPT ![s] = to]

\* Circuit::send_message: digest, onion layers and write under the circuit
\* lock.  The digest has moved even when the write then fails.
SendMessage(s, cmd, d) ==
  /\ clientFwd' = clientFwd + 1
  /\ fwd' = Put(fwd, Cell(s, cmd, d, clientFwd + 1))

\* select_circuit hands out a Ready circuit; the pool lock is released
\* before the stream registers, so the circuit may close in between.
SelectCircuit(s) ==
  /\ state = "Ready"
  /\ Step(s, "idle", "selected")
  /\ UNCHANGED <<senders, rx, sent, got, clientFwd, clientBwd, state, reader,
                 closedBy, pathUp, fwd, bwd, exitVars>>

RegisterStream(s) ==
  /\ Step(s, "selected", "opened")
  /\ senders' = senders \union {s}
  /\ UNCHANGED <<rx, sent, got, clientFwd, clientBwd, state, reader, closedBy,
                 pathUp, fwd, bwd, exitVars>>

SendBegin(s) ==
  /\ Step(s, "opened", "waiting")
  /\ SendMessage(s, "BEGIN", 0)
  /\ UNCHANGED <<senders, rx, sent, got, clientBwd, state, reader, closedBy,
                 pathUp, bwd, exitVars>>

\* The `?` after a failed BEGIN: handle_stream returns, nothing is undone.
SendBeginFails(s) ==
  /\ ~pathUp
  /\ Step(s, "opened", "abandoned")
  /\ SendMessage(s, "BEGIN", 0)
  /\ UNCHANGED <<senders, rx, sent, got, clientBwd, state, reader, closedBy,
                 pathUp, bwd, exitVars>>

\* The first message on the channel decides; anything but CONNECTED ends it.
RecvFirst(s) ==
  /\ rx[s] # <<>>
  /\ Step(s, "waiting", IF Head(rx[s]).cmd = "CONNECTED"
                        THEN "connected" ELSE "cleanup")
  /\ rx' = [rx EXCEPT ![s] = Tail(@)]
  /\ UNCHANGED <<senders, sent, got, clientFwd, clientBwd, state, reader,
                 closedBy, pathUp, fwd, bwd, exitVars>>

\* recv() yields None once the channel is empty and its sender was dropped.
ChannelClosed(s) ==
  /\ rx[s] = <<>> /\ s \notin senders
  /\ \E from \in {"waiting", "relaying"} : Step(s, from, "cleanup")
  /\ UNCHANGED <<senders, rx, sent, got, clientFwd, clientBwd, state, reader,
                 closedBy, pathUp, fwd, bwd, exitVars>>

\* Mutant of ConnectedTimeout: recv() without a timeout around it.
NoTimeout(s) == FALSE

\* CONNECTED_TIMEOUT elapses first.
ConnectedTimeout(s) ==
  /\ Step(s, "waiting", "cleanup")
  /\ UNCHANGED <<senders, rx, sent, got, clientFwd, clientBwd, state, reader,
                 closedBy, pathUp, fwd, bwd, exitVars>>

SocksReply(s) ==
  /\ Step(s, "connected", "relaying")
  /\ UNCHANGED <<senders, rx, sent, got, clientFwd, clientBwd, state, reader,
                 closedBy, pathUp, fwd, bwd, exitVars>>

\* The `?` after a failed success reply: returns without cleanup_stream.
SocksReplyFails(s) ==
  /\ Step(s, "connected", "abandoned")
  /\ UNCHANGED <<senders, rx, sent, got, clientFwd, clientBwd, state, reader,
                 closedBy, pathUp, fwd, bwd, exitVars>>

SocksData(s) ==
  /\ phase[s] = "relaying" /\ sent[s] < MaxReq
  /\ sent' = [sent EXCEPT ![s] = @ + 1]
  /\ SendMessage(s, "DATA", sent[s] + 1)
  /\ phase' \in {phase} \union
       (IF pathUp THEN {} ELSE {[phase EXCEPT ![s] = "cleanup"]})
  /\ UNCHANGED <<senders, rx, got, clientBwd, state, reader, closedBy, pathUp,
                 bwd, exitVars>>

\* DATA goes to the SOCKS client, END leaves the loop, a second CONNECTED is
\* ignored.
RecvMessage(s) ==
  /\ phase[s] = "relaying" /\ rx[s] # <<>>
  /\ LET m == Head(rx[s]) IN
       /\ got' = IF m.cmd = "DATA" THEN [got EXCEPT ![s] = Append(@, m.data)]
                                   ELSE got
       /\ phase' = IF m.cmd = "END" THEN [phase EXCEPT ![s] = "cleanup"]
                                    ELSE phase
  /\ rx' = [rx EXCEPT ![s] = Tail(@)]
  /\ UNCHANGED <<senders, sent, clientFwd, clientBwd, state, reader, closedBy,
                 pathUp, fwd, bwd, exitVars>>

\* The SOCKS client closes, errs (on a read or on a write) or idles out.
SocksClose(s) ==
  /\ Step(s, "relaying", "cleanup")
  /\ UNCHANGED <<senders, rx, sent, got, clientFwd, clientBwd, state, reader,
                 closedBy, pathUp, fwd, bwd, exitVars>>

\* cleanup_stream takes the circuit lock twice: END, then unregister.
CleanupEnd(s) ==
  /\ Step(s, "cleanup", "unregister")
  /\ SendMessage(s, "END", 0)
  /\ UNCHANGED <<senders, rx, sent, got, clientBwd, state, reader, closedBy,
                 pathUp, bwd, exitVars>>

\* Mutant of CleanupUnregister: cleanup stops after the END.
CleanupKeepsSender(s) ==
  /\ Step(s, "unregister", "done")
  /\ UNCHANGED <<senders, rx, sent, got, clientFwd, clientBwd, state, reader,
                 closedBy, pathUp, fwd, bwd, exitVars>>

CleanupUnregister(s) ==
  /\ Step(s, "unregister", "done")
  /\ senders' = senders \ {s}
  /\ rx' = [rx EXCEPT ![s] = <<>>]
  /\ UNCHANGED <<sent, got, clientFwd, clientBwd, state, reader, closedBy,
                 pathUp, fwd, bwd, exitVars>>
-----------------------------------------------------------------------------
(* The client's circuit reader task.                                       *)

\* A cell that verifies is handed to its stream, or dropped when the stream
\* is not registered; the first mismatch closes the circuit.
ReadCell ==
  /\ reader = "running" /\ bwd # <<>>
  /\ LET c  == Head(bwd)
         ok == c.tag = clientBwd + 1
     IN /\ rx' = IF ok /\ c.stream \in senders
                 THEN [rx EXCEPT ![c.stream] = Append(@, c)] ELSE rx
        /\ state' = IF ok THEN state ELSE "Closed"
        /\ reader' = IF ok THEN reader ELSE "closing"
        /\ closedBy' = IF ok THEN closedBy ELSE "mismatch"
  /\ bwd' = Tail(bwd)
  /\ clientBwd' = clientBwd + 1
  /\ UNCHANGED <<phase, senders, sent, got, clientFwd, pathUp, fwd, exitVars>>

\* End of file or a read error: state first, the channels in a later step.
ReadEof ==
  /\ reader = "running" /\ ~pathUp /\ bwd = <<>>
  /\ state' = "Closed" /\ reader' = "closing" /\ closedBy' = "eof"
  /\ UNCHANGED <<phase, senders, rx, sent, got, clientFwd, clientBwd, pathUp,
                 fwd, bwd, exitVars>>

\* DESTROY from the entry clears the channels under the same lock.
ReadDestroy ==
  /\ reader = "running" /\ ~pathUp /\ bwd = <<>>
  /\ state' = "Closed" /\ reader' = "closing" /\ closedBy' = "destroy"
  /\ senders' = {}
  /\ UNCHANGED <<phase, rx, sent, got, clientFwd, clientBwd, pathUp, fwd, bwd,
                 exitVars>>

ReaderExit ==
  /\ reader = "closing"
  /\ reader' = "stopped" /\ state' = "Closed" /\ senders' = {}
  /\ UNCHANGED <<phase, rx, sent, got, clientFwd, clientBwd, closedBy, pathUp,
                 fwd, bwd, exitVars>>
-----------------------------------------------------------------------------
(* The exit's connection handler: one cell at a time, main.rs holds the    *)
(* registry lock from the receipt of a cell until its reply is written.    *)

\* Mutant of TagEnd: the digest is computed on a copy of the running state.
TagEndOnCopy(s) ==
  /\ conn' = "replying"
  /\ held' = Cell(s, "END", 0, exitBwd + 1)
  /\ UNCHANGED exitBwd

\* An END tagged under shared_state; the lock is dropped before the write.
TagEnd(s) ==
  /\ conn' = "replying"
  /\ held' = Cell(s, "END", 0, exitBwd + 1)
  /\ exitBwd' = exitBwd + 1

\* Every cell with a digest is decrypted and verified first; a mismatch is an
\* Err, which ends the connection loop.
Accept(cmd) ==
  /\ conn = "idle" /\ fwd # <<>> /\ Head(fwd).cmd = cmd
  /\ fwd' = Tail(fwd)
  /\ exitFwd' = exitFwd + 1

Verified == Head(fwd).tag = exitFwd + 1

Mismatch == conn' = "mismatch" /\ UNCHANGED <<held, exitStreams, destQ, exitBwd>>

HandleBegin ==
  /\ Accept("BEGIN")
  /\ IF Verified THEN /\ conn' = "connecting" /\ held' = Head(fwd)
                      /\ UNCHANGED <<exitStreams, destQ, exitBwd>>
                 ELSE Mismatch
  /\ UNCHANGED <<clientVars, pathUp, bwd, task, destGot, destSent>>

\* Mutant of ConnectOk: CONNECTED is tagged here and left to main.rs to
\* write, as the END replies are, with the stream's task already running.
ConnectOkReplied ==
  /\ conn = "connecting"
  /\ LET s == held.stream IN
       /\ held' = Cell(s, "CONNECTED", 0, exitBwd + 1)
       /\ task' = [task EXCEPT ![s] = "running"]
       /\ exitStreams' = exitStreams \union {s}
  /\ exitBwd' = exitBwd + 1
  /\ conn' = "replying"
  /\ UNCHANGED <<clientVars, pathUp, fwd, bwd, destQ, destGot, destSent, exitFwd>>

\* Mutant of ConnectOk: no CONNECTED at all.
ConnectOkSilent ==
  /\ conn = "connecting"
  /\ task' = [task EXCEPT ![held.stream] = "running"]
  /\ exitStreams' = exitStreams \union {held.stream}
  /\ conn' = "idle" /\ held' = NoCell
  /\ UNCHANGED <<clientVars, pathUp, fwd, bwd, destQ, destGot, destSent,
                 exitFwd, exitBwd>>

\* TcpStream::connect succeeded: CONNECTED is tagged and written under
\* shared_state, then the stream task is spawned and the stream inserted.
ConnectOk ==
  /\ conn = "connecting"
  /\ LET s == held.stream IN
       /\ bwd' = Put(bwd, Cell(s, "CONNECTED", 0, exitBwd + 1))
       /\ task' = [task EXCEPT ![s] = "running"]
       /\ exitStreams' = exitStreams \union {s}
  /\ exitBwd' = exitBwd + 1
  /\ conn' = "idle" /\ held' = NoCell
  /\ UNCHANGED <<clientVars, pathUp, fwd, destQ, destGot, destSent, exitFwd>>

\* The CONNECTED write failed: `?` leaves the handler, and main.rs the loop.
ConnectedWriteFails ==
  /\ conn = "connecting" /\ ~pathUp
  /\ exitBwd' = exitBwd + 1
  /\ conn' = "closed" /\ held' = NoCell
  /\ UNCHANGED <<clientVars, pathUp, fwd, bwd, exitStreams, task, destQ,
                 destGot, destSent, exitFwd>>

ConnectFails ==
  /\ conn = "connecting"
  /\ TagEnd(held.stream)
  /\ UNCHANGED <<clientVars, pathUp, fwd, bwd, exitStreams, task, destQ,
                 destGot, destSent, exitFwd>>

\* DATA: queued for the stream's task; "Destination closed" when that task
\* is gone, "Stream not found" when there is no such stream.
HandleData ==
  /\ Accept("DATA")
  /\ LET s == Head(fwd).stream IN
       CASE ~Verified -> Mismatch
         [] Verified /\ s \in exitStreams /\ task[s] = "running" ->
              /\ destQ' = [destQ EXCEPT ![s] = Append(@, Head(fwd).data)]
              /\ UNCHANGED <<conn, held, exitStreams, exitBwd>>
         [] OTHER -> TagEnd(s) /\ UNCHANGED <<exitStreams, destQ>>
  /\ UNCHANGED <<clientVars, pathUp, bwd, task, destGot, destSent>>

\* Mutant of HandleEnd: an empty END is not run through the digest.
HandleEndUnverified ==
  /\ conn = "idle" /\ fwd # <<>> /\ Head(fwd).cmd = "END"
  /\ exitStreams' = exitStreams \ {Head(fwd).stream}
  /\ TagEnd(Head(fwd).stream)
  /\ fwd' = Tail(fwd)
  /\ UNCHANGED <<clientVars, pathUp, bwd, task, destQ, destGot, destSent, exitFwd>>

\* Mutant of HandleEnd: the stream stays in the map.
HandleEndKeepsStream ==
  /\ Accept("END")
  /\ IF Verified THEN TagEnd(Head(fwd).stream) /\ UNCHANGED <<exitStreams, destQ>>
                 ELSE Mismatch
  /\ UNCHANGED <<clientVars, pathUp, bwd, task, destGot, destSent>>

\* END: the stream is dropped (its dest_tx with it) and an END answered, for
\* a stream that is not there as well.
HandleEnd ==
  /\ Accept("END")
  /\ IF Verified THEN /\ exitStreams' = exitStreams \ {Head(fwd).stream}
                      /\ TagEnd(Head(fwd).stream)
                      /\ UNCHANGED destQ
                 ELSE Mismatch
  /\ UNCHANGED <<clientVars, pathUp, bwd, task, destGot, destSent>>

\* main.rs writes the handler's reply under the writer lock.
WriteReply ==
  /\ conn = "replying"
  /\ bwd' = Put(bwd, held)
  /\ conn' \in {"idle"} \union (IF pathUp THEN {} ELSE {"closed"})
  /\ held' = NoCell
  /\ UNCHANGED <<clientVars, pathUp, fwd, exitStreams, task, destQ, destGot,
                 destSent, exitFwd, exitBwd>>

\* The connection to the previous hop ended.  Nothing is cleaned up: the
\* registry keeps the handler, the handler its streams.
ConnEof ==
  /\ conn = "idle" /\ ~pathUp /\ fwd = <<>>
  /\ conn' = "closed"
  /\ UNCHANGED <<clientVars, pathUp, fwd, bwd, held, exitStreams, task,
                 destQ, destGot, destSent, exitFwd, exitBwd>>
-----------------------------------------------------------------------------
(* The exit's stream tasks: digest, cipher and write under shared_state.   *)

\* Bytes from the destination: one cell, written while its tag is the last.
\* A failed write ends the task without an END.
TaskData(s) ==
  /\ task[s] = "running" /\ destSent[s] < MaxResp
  /\ destSent' = [destSent EXCEPT ![s] = @ + 1]
  /\ bwd' = Put(bwd, Cell(s, "DATA", destSent[s] + 1, exitBwd + 1))
  /\ exitBwd' = exitBwd + 1
  /\ task' \in {task} \union
       (IF pathUp THEN {} ELSE {[task EXCEPT ![s] = "finished"]})
  /\ UNCHANGED <<clientVars, pathUp, fwd, conn, held, exitStreams, destQ,
                 destGot, exitFwd>>

\* The destination closed, or a read error: END, and the task is over.  What
\* is still queued for the destination is lost with it.
TaskEnd(s) ==
  /\ task[s] = "running"
  /\ bwd' = Put(bwd, Cell(s, "END", 0, exitBwd + 1))
  /\ exitBwd' = exitBwd + 1
  /\ task' = [task EXCEPT ![s] = "finished"]
  /\ destQ' = [destQ EXCEPT ![s] = <<>>]
  /\ UNCHANGED <<clientVars, pathUp, fwd, conn, held, exitStreams, destGot,
                 destSent, exitFwd>>

\* Mutant of TaskForward: a payload stays queued after its write.
TaskForwardTwice(s) ==
  /\ task[s] = "running" /\ destQ[s] # <<>> /\ Len(destGot[s]) < MaxReq + 1
  /\ destGot' = [destGot EXCEPT ![s] = Append(@, Head(destQ[s]))]
  /\ UNCHANGED <<clientVars, pathUp, fwd, bwd, conn, held, exitStreams, task,
                 destQ, destSent, exitFwd, exitBwd>>

\* dest_rx yields a payload: it is written, or the write fails and the task
\* ends without an END.
TaskForward(s) ==
  /\ task[s] = "running" /\ destQ[s] # <<>>
  /\ \/ /\ destGot' = [destGot EXCEPT ![s] = Append(@, Head(destQ[s]))]
        /\ destQ' = [destQ EXCEPT ![s] = Tail(@)]
        /\ UNCHANGED task
     \/ /\ task' = [task EXCEPT ![s] = "finished"]
        /\ destQ' = [destQ EXCEPT ![s] = <<>>]
        /\ UNCHANGED destGot
  /\ UNCHANGED <<clientVars, pathUp, fwd, bwd, conn, held, exitStreams,
                 destSent, exitFwd, exitBwd>>

\* The handler dropped dest_tx and the queue is drained: the task ends.
TaskDropped(s) ==
  /\ task[s] = "running" /\ s \notin exitStreams /\ destQ[s] = <<>>
  /\ task' = [task EXCEPT ![s] = "finished"]
  /\ UNCHANGED <<clientVars, pathUp, fwd, bwd, conn, held, exitStreams, destQ,
                 destGot, destSent, exitFwd, exitBwd>>
-----------------------------------------------------------------------------
\* A relay or a connection of the path dies; of what is in flight each end
\* still receives some prefix.
PathBreaks ==
  /\ Breakable /\ pathUp /\ pathUp' = FALSE
  /\ \E i \in 0 .. Len(fwd) : fwd' = SubSeq(fwd, 1, i)
  /\ \E i \in 0 .. Len(bwd) : bwd' = SubSeq(bwd, 1, i)
  /\ UNCHANGED <<clientVars, exitVars>>

Init ==
  /\ phase = [s \in Streams |-> "idle"]
  /\ senders = {}
  /\ rx = [s \in Streams |-> <<>>]
  /\ sent = [s \in Streams |-> 0]
  /\ got = [s \in Streams |-> <<>>]
  /\ clientFwd = 0 /\ clientBwd = 0
  /\ state = "Ready" /\ reader = "running" /\ closedBy = "none"
  /\ pathUp = TRUE
  /\ fwd = <<>> /\ bwd = <<>>
  /\ conn = "idle" /\ held = NoCell
  /\ exitStreams = {}
  /\ task = [s \in Streams |-> "none"]
  /\ destQ = [s \in Streams |-> <<>>]
  /\ destGot = [s \in Streams |-> <<>>]
  /\ destSent = [s \in Streams |-> 0]
  /\ exitFwd = 0 /\ exitBwd = 0

HandlerStep(s) ==
  \/ RegisterStream(s)
  \/ SendBegin(s) \/ SendBeginFails(s)
  \/ RecvFirst(s) \/ ChannelClosed(s) \/ ConnectedTimeout(s)
  \/ SocksReply(s) \/ SocksReplyFails(s)
  \/ SocksData(s) \/ RecvMessage(s) \/ SocksClose(s)
  \/ CleanupEnd(s) \/ CleanupUnregister(s)

ReaderStep == ReadCell \/ ReadEof \/ ReadDestroy \/ ReaderExit

ConnStep ==
  \/ HandleBegin \/ HandleData \/ HandleEnd
  \/ ConnectOk \/ ConnectedWriteFails \/ ConnectFails \/ WriteReply

TaskStep(s) == TaskData(s) \/ TaskEnd(s) \/ TaskForward(s) \/ TaskDropped(s)

Next ==
  \/ \E s \in Streams : SelectCircuit(s) \/ HandlerStep(s) \/ TaskStep(s)
  \/ ReaderStep \/ ConnStep \/ ConnEof \/ PathBreaks

Spec == Init /\ [][Next]_vars

\* The handler is in a write to its SOCKS client: a reply, or the payload of
\* a DATA message.  These writes have no timeout, and while one waits select!
\* polls neither the idle timer nor the channel.
WritesToSocks(s) ==
  \/ phase[s] = "waiting" /\ rx[s] # <<>> /\ Head(rx[s]).cmd # "CONNECTED"
  \/ phase[s] = "connected"
  \/ phase[s] = "relaying" /\ rx[s] # <<>> /\ Head(rx[s]).cmd = "DATA"

\* Each task is scheduled by tokio.  A handler that only waits has a timeout
\* (CONNECTED 30 s, idle 120 s; each stream's traffic is bounded here, so the
\* idle timer is not restarted for ever), one that writes to its SOCKS client
\* has none, and no fairness.  Its writes to the entry, under the circuit
\* lock, are assumed to be taken or to fail: Backpressure shows what becomes
\* of a path on which they are not.  A connect ends one way or the other, and
\* a destination that stops reading is assumed to be reset in the end.  No
\* fairness on new streams, on the destination's output or on failures.
Fairness ==
  /\ \A s \in Streams : WF_vars(~WritesToSocks(s) /\ HandlerStep(s))
  /\ \A s \in Streams : WF_vars(TaskForward(s) \/ TaskDropped(s))
  /\ WF_vars(ReaderStep) /\ WF_vars(ConnStep)

FairSpec == Spec /\ Fairness
-----------------------------------------------------------------------------
(* Properties.                                                             *)

Returned == {"done", "abandoned"}

CellType == [stream : Streams, cmd : Commands, data : Nat, tag : Nat \ {0}]

\* Every variable keeps its type.
TypeOK ==
  /\ phase \in [Streams -> Phases]
  /\ senders \subseteq Streams
  /\ rx \in [Streams -> Seq(CellType)]
  /\ sent \in [Streams -> Nat] /\ destSent \in [Streams -> Nat]
  /\ got \in [Streams -> Seq(Nat)] /\ destGot \in [Streams -> Seq(Nat)]
  /\ destQ \in [Streams -> Seq(Nat)]
  /\ clientFwd \in Nat /\ clientBwd \in Nat
  /\ exitFwd \in Nat /\ exitBwd \in Nat
  /\ state \in {"Ready", "Closed"}
  /\ reader \in {"running", "closing", "stopped"}
  /\ closedBy \in {"none", "eof", "destroy", "mismatch"}
  /\ pathUp \in BOOLEAN
  /\ fwd \in Seq(CellType) /\ bwd \in Seq(CellType)
  /\ conn \in {"idle", "connecting", "replying", "closed", "mismatch"}
  /\ held \in CellType \union {NoCell}
  /\ exitStreams \subseteq Streams
  /\ task \in [Streams -> {"none", "running", "finished"}]

\* The exit never tears its connection down over a forward digest: however
\* the stream handlers, the cleanups and failed writes interleave, the exit
\* absorbs every cell the client absorbed, in that order (send_message under
\* the circuit lock; exit.rs:462 "keep the running digest in sync").
ForwardInSync == conn # "mismatch"

\* Every tag the exit took is accounted for exactly once until the client
\* absorbs it: on the wire or held by the connection handler; none is lost,
\* written twice or skipped while the path is up.
BackwardAccounted ==
  pathUp /\ reader = "running" =>
    LET here == IF conn = "replying" THEN {held.tag} ELSE {} IN
    /\ {bwd[i].tag : i \in 1 .. Len(bwd)} \union here
         = clientBwd + 1 .. exitBwd
    /\ Len(bwd) + (IF conn = "replying" THEN 1 ELSE 0) = exitBwd - clientBwd

\* Only the connection handler's END replies leave the order of their tags:
\* a cell that comes after one with a larger tag is an END, and CONNECTED and
\* DATA, written while their tag is taken, never are.
OnlyEndsOvertaken ==
  \A i, j \in 1 .. Len(bwd) :
    i < j /\ bwd[j].tag < bwd[i].tag => bwd[j].cmd = "END"

\* handle_stream takes the first message on its channel for the answer to
\* BEGIN: that message is never DATA of its own stream, since the exit writes
\* CONNECTED before the stream's task exists.
AnswerComesFirst ==
  \A s \in Streams :
    phase[s] = "waiting" /\ rx[s] # <<>> => Head(rx[s]).cmd # "DATA"

\* A stream whose handler cleaned up is not routed to any more, and one in
\* use is routed to as long as the reader runs: no message of an open stream
\* is dropped as "No stream registered".
RoutedWhileOpen ==
  \A s \in Streams :
    /\ phase[s] = "done" => s \notin senders
    /\ reader = "running" /\ phase[s] \in {"opened", "waiting", "connected",
         "relaying", "cleanup", "unregister"} => s \in senders

\* The two pipes of every stream, as StreamPipes describes them: payload
\* bytes reach the destination and the SOCKS client in order, at most once,
\* whatever overtakes or fails on the way.
Pipes == INSTANCE StreamPipes WITH
  Pipes <- Streams \X {"up", "down"},
  written <- [p \in Streams \X {"up", "down"} |->
                IF p[2] = "up" THEN sent[p[1]] ELSE destSent[p[1]]],
  received <- [p \in Streams \X {"up", "down"} |->
                IF p[2] = "up" THEN destGot[p[1]] ELSE got[p[1]]]

ImplementsPipes == Pipes!Spec

\* A handler that selected a circuit returns, also when the circuit closed
\* before it registered and nobody will ever close its channel, unless it is
\* in the end stuck in a write to a SOCKS client that stopped reading.
HandlersReturn ==
  \A s \in Streams :
    []<>~WritesToSocks(s) =>
      (phase[s] = "selected" ~> phase[s] \in Returned)

\* Once a handler has cleaned up, the exit lets go of the destination, unless
\* the path died first: after a false tamper alarm too, since the END still
\* travels over the connection the client keeps open.
DestinationReleased ==
  \A s \in Streams : phase[s] = "done" ~> (task[s] # "running" \/ ~pathUp)

\* circuit.rs:709 takes a backward digest mismatch for "possible tampering".
\* Nobody tampers with a cell in this model.
NoFalseTamperAlarm == closedBy # "mismatch"
=============================================================================
