------------------------ MODULE CircuitStreamsProofs ------------------------
(* Proofs about CircuitStreams, for any set of streams and any bounds:     *)
(* types, forward digests, routing, backward tags, the answers a waiting   *)
(* handler reads and, last, that streams are pipes.                        *)
EXTENDS CircuitStreams, SequenceTheorems, TLAPS

\* TypeOK is not inductive alone: ConnectOk, ConnectFails and WriteReply use
\* the fields of the cell the connection handler holds.
TypeInv ==
  /\ TypeOK
  /\ conn \in {"connecting", "replying"} => held \in CellType

LEMMA CellTyped ==
  ASSUME NEW s \in Streams, NEW c \in Commands, NEW d \in Nat, NEW n \in Nat
  PROVE  Cell(s, c, d, n + 1) \in CellType
BY DEF Cell, CellType

LEMMA CellFields ==
  ASSUME NEW c \in CellType
  PROVE  /\ c.stream \in Streams /\ c.cmd \in Commands
         /\ c.data \in Nat /\ c.tag \in Nat \ {0}
BY DEF CellType

LEMMA SendTyped ==
  ASSUME TypeOK, NEW s \in Streams, NEW c \in Commands, NEW d \in Nat,
         SendMessage(s, c, d)
  PROVE  fwd' \in Seq(CellType) /\ clientFwd' \in Nat
<1>1. Cell(s, c, d, clientFwd + 1) \in CellType
  BY CellTyped DEF TypeOK
<1> QED BY <1>1 DEF TypeOK, SendMessage, Put

LEMMA HandlerTyped ==
  ASSUME TypeInv, NEW s \in Streams, SelectCircuit(s) \/ HandlerStep(s)
  PROVE  TypeInv'
<1> USE DEF TypeInv, TypeOK, Step, Phases, exitVars
<1>1. CASE SelectCircuit(s)  BY <1>1 DEF SelectCircuit
<1>2. CASE RegisterStream(s)  BY <1>2 DEF RegisterStream
<1>3. CASE SendBegin(s)
  <2>1. fwd' \in Seq(CellType) /\ clientFwd' \in Nat
    BY <1>3, SendTyped DEF SendBegin, Commands
  <2>2. phase' \in [Streams -> Phases]
    BY <1>3 DEF SendBegin
  <2> QED BY <1>3, <2>1, <2>2 DEF SendBegin
<1>4. CASE SendBeginFails(s)
  <2>1. fwd' \in Seq(CellType) /\ clientFwd' \in Nat
    BY <1>4, SendTyped DEF SendBeginFails, Commands
  <2>2. phase' \in [Streams -> Phases]
    BY <1>4 DEF SendBeginFails
  <2> QED BY <1>4, <2>1, <2>2 DEF SendBeginFails
<1>5. CASE RecvFirst(s)
  <2>1. Tail(rx[s]) \in Seq(CellType)
    BY <1>5 DEF RecvFirst
  <2>2. /\ phase' \in [Streams -> Phases]
        /\ rx' \in [Streams -> Seq(CellType)]
    BY <1>5, <2>1 DEF RecvFirst
  <2>3. UNCHANGED <<senders, sent, got, clientFwd, clientBwd, state, reader,
                    closedBy, pathUp, fwd, bwd, exitVars>>
    BY <1>5 DEF RecvFirst
  <2> QED BY <2>2, <2>3
<1>6. CASE ChannelClosed(s)  BY <1>6 DEF ChannelClosed
<1>7. CASE ConnectedTimeout(s)  BY <1>7 DEF ConnectedTimeout
<1>8. CASE SocksReply(s)  BY <1>8 DEF SocksReply
<1>9. CASE SocksReplyFails(s)  BY <1>9 DEF SocksReplyFails
<1>10. CASE SocksData(s)
  <2>1. fwd' \in Seq(CellType) /\ clientFwd' \in Nat
    BY <1>10, SendTyped DEF SocksData, Commands
  <2>2. phase' = phase \/ phase' = [phase EXCEPT ![s] = "cleanup"]
    BY <1>10 DEF SocksData
  <2>3. phase' \in [Streams -> Phases]
    BY <2>2
  <2>4. sent' \in [Streams -> Nat]
    BY <1>10 DEF SocksData
  <2> QED BY <1>10, <2>1, <2>3, <2>4 DEF SocksData
<1>11. CASE RecvMessage(s)
  <2>1. Head(rx[s]) \in CellType /\ Tail(rx[s]) \in Seq(CellType)
    BY <1>11 DEF RecvMessage
  <2>2. Head(rx[s]).data \in Nat
    BY <2>1, CellFields
  <2>3. /\ rx' \in [Streams -> Seq(CellType)]
        /\ phase' \in [Streams -> Phases]
    BY <1>11, <2>1 DEF RecvMessage
  <2>4. got' \in [Streams -> Seq(Nat)]
    BY <1>11, <2>2 DEF RecvMessage
  <2> QED BY <1>11, <2>3, <2>4 DEF RecvMessage
<1>12. CASE SocksClose(s)  BY <1>12 DEF SocksClose
<1>13. CASE CleanupEnd(s)  BY <1>13, SendTyped DEF CleanupEnd, Commands
<1>14. CASE CleanupUnregister(s)  BY <1>14 DEF CleanupUnregister
<1> QED
  BY <1>1, <1>2, <1>3, <1>4, <1>5, <1>6, <1>7, <1>8, <1>9, <1>10, <1>11,
     <1>12, <1>13, <1>14 DEF HandlerStep

LEMMA ReaderTyped ==
  ASSUME TypeInv, ReaderStep
  PROVE  TypeInv'
<1> USE DEF TypeInv, TypeOK, exitVars
<1>1. CASE ReadCell
  <2>1. Head(bwd) \in CellType /\ bwd' \in Seq(CellType)
    BY <1>1 DEF ReadCell
  <2>2. \A t \in Streams : Append(rx[t], Head(bwd)) \in Seq(CellType)
    BY <2>1, AppendProperties
  <2>3. rx' \in [Streams -> Seq(CellType)]
    BY <1>1, <2>2 DEF ReadCell
  <2>4. /\ clientBwd' \in Nat /\ state' \in {"Ready", "Closed"}
        /\ reader' \in {"running", "closing", "stopped"}
        /\ closedBy' \in {"none", "eof", "destroy", "mismatch"}
    BY <1>1 DEF ReadCell
  <2>5. UNCHANGED <<phase, senders, sent, got, clientFwd, pathUp, fwd, exitVars>>
    BY <1>1 DEF ReadCell
  <2> QED BY <2>1, <2>3, <2>4, <2>5
<1>2. CASE ReadEof  BY <1>2 DEF ReadEof
<1>3. CASE ReadDestroy  BY <1>3 DEF ReadDestroy
<1>4. CASE ReaderExit  BY <1>4 DEF ReaderExit
<1> QED BY <1>1, <1>2, <1>3, <1>4 DEF ReaderStep

LEMMA ConnTyped ==
  ASSUME TypeInv, ConnStep \/ ConnEof
  PROVE  TypeInv'
<1> USE DEF TypeInv, TypeOK, clientVars
<1>1. ASSUME NEW cmd, Accept(cmd)
      PROVE  /\ Head(fwd) \in CellType /\ fwd' \in Seq(CellType)
             /\ Head(fwd).stream \in Streams /\ Head(fwd).data \in Nat
             /\ exitFwd' \in Nat
  <2>1. Head(fwd) \in CellType /\ fwd' \in Seq(CellType)
    BY <1>1 DEF Accept
  <2>2. exitFwd' \in Nat
    BY <1>1 DEF Accept
  <2> QED BY <2>1, <2>2, CellFields
<1>2. ASSUME NEW s \in Streams, TagEnd(s)
      PROVE  conn' = "replying" /\ held' \in CellType /\ exitBwd' \in Nat
  BY <1>2, CellTyped DEF TagEnd, Commands
<1>3. CASE HandleBegin  BY <1>3, <1>1 DEF HandleBegin, Mismatch
<1>4. CASE HandleData
  <2> DEFINE s == Head(fwd).stream
             queued == s \in exitStreams /\ task[s] = "running"
  <2>1. /\ s \in Streams /\ Head(fwd).data \in Nat
        /\ fwd' \in Seq(CellType) /\ exitFwd' \in Nat
    BY <1>4, <1>1 DEF HandleData
  <2>2. UNCHANGED <<clientVars, pathUp, bwd, task, destGot, destSent>>
    BY <1>4 DEF HandleData
  <2>3. CASE ~Verified
    BY <1>4, <2>1, <2>2, <2>3 DEF HandleData, Mismatch
  <2>4. CASE Verified /\ queued
    <3>1. /\ destQ' = [destQ EXCEPT ![s] = Append(@, Head(fwd).data)]
          /\ UNCHANGED <<conn, held, exitStreams, exitBwd>>
      BY <1>4, <2>4 DEF HandleData
    <3>2. destQ' \in [Streams -> Seq(Nat)]
      BY <2>1, <3>1
    <3> QED BY <2>1, <2>2, <3>1, <3>2
  <2>5. CASE Verified /\ ~queued
    <3>1. TagEnd(s) /\ UNCHANGED <<exitStreams, destQ>>
      BY <1>4, <2>5 DEF HandleData
    <3>2. conn' = "replying" /\ held' \in CellType /\ exitBwd' \in Nat
      BY <2>1, <3>1, <1>2
    <3> QED BY <2>1, <2>2, <3>1, <3>2
  <2> QED BY <2>3, <2>4, <2>5
<1>5. CASE HandleEnd
  <2>1. CASE ~Verified  BY <1>5, <1>1, <2>1 DEF HandleEnd, Mismatch
  <2>2. CASE Verified
    <3>1. /\ TagEnd(Head(fwd).stream) /\ exitStreams' \subseteq Streams
          /\ UNCHANGED <<clientVars, pathUp, bwd, task, destQ, destGot, destSent>>
      BY <1>5, <2>2 DEF HandleEnd
    <3>2. /\ fwd' \in Seq(CellType) /\ exitFwd' \in Nat
          /\ Head(fwd).stream \in Streams
      BY <1>5, <1>1 DEF HandleEnd
    <3>3. conn' = "replying" /\ held' \in CellType /\ exitBwd' \in Nat
      BY <1>2, <3>1, <3>2
    <3> QED BY <3>1, <3>2, <3>3
  <2> QED BY <2>1, <2>2
<1>6. CASE ConnectOk
  <2>1. held.stream \in Streams  BY <1>6 DEF ConnectOk, CellType
  <2>2. Cell(held.stream, "CONNECTED", 0, exitBwd + 1) \in CellType
    BY <2>1, CellTyped DEF Commands
  <2> QED BY <1>6, <2>1, <2>2 DEF ConnectOk, Put
<1>7. CASE ConnectedWriteFails  BY <1>7 DEF ConnectedWriteFails
<1>8. CASE ConnectFails
  <2>1. held.stream \in Streams  BY <1>8 DEF ConnectFails, CellType
  <2> QED BY <1>8, <1>2, <2>1 DEF ConnectFails
<1>9. CASE WriteReply  BY <1>9 DEF WriteReply, Put
<1>10. CASE ConnEof  BY <1>10 DEF ConnEof
<1> QED BY <1>3, <1>4, <1>5, <1>6, <1>7, <1>8, <1>9, <1>10 DEF ConnStep

LEMMA TaskTyped ==
  ASSUME TypeInv, NEW s \in Streams, TaskStep(s)
  PROVE  TypeInv'
<1> USE DEF TypeInv, TypeOK, clientVars
<1>1. CASE TaskData(s)
  <2>1. Cell(s, "DATA", destSent[s] + 1, exitBwd + 1) \in CellType
    BY CellTyped DEF Commands
  <2>2. task' = task \/ task' = [task EXCEPT ![s] = "finished"]
    BY <1>1 DEF TaskData
  <2>3. task' \in [Streams -> {"none", "running", "finished"}]
    BY <2>2
  <2>4. destSent' \in [Streams -> Nat] /\ exitBwd' \in Nat
    BY <1>1 DEF TaskData
  <2>5. bwd' \in Seq(CellType)
    BY <1>1, <2>1 DEF TaskData, Put
  <2> QED BY <1>1, <2>3, <2>4, <2>5 DEF TaskData
<1>2. CASE TaskEnd(s)
  <2>1. Cell(s, "END", 0, exitBwd + 1) \in CellType
    BY CellTyped DEF Commands
  <2>2. bwd' \in Seq(CellType) /\ exitBwd' \in Nat
    BY <1>2, <2>1 DEF TaskEnd, Put
  <2>3. /\ task' \in [Streams -> {"none", "running", "finished"}]
        /\ destQ' \in [Streams -> Seq(Nat)]
    BY <1>2 DEF TaskEnd
  <2> QED BY <1>2, <2>2, <2>3 DEF TaskEnd
<1>3. CASE TaskForward(s)
  <2>1. /\ destGot \in [Streams -> Seq(Nat)] /\ destQ \in [Streams -> Seq(Nat)]
        /\ task \in [Streams -> {"none", "running", "finished"}]
    OBVIOUS
  <2>2. /\ Append(destGot[s], Head(destQ[s])) \in Seq(Nat)
        /\ Tail(destQ[s]) \in Seq(Nat)
    BY <1>3, <2>1 DEF TaskForward
  <2> DEFINE delivered == [destGot EXCEPT ![s] = Append(@, Head(destQ[s]))]
             rest      == [destQ EXCEPT ![s] = Tail(@)]
             dropped   == [destQ EXCEPT ![s] = <<>>]
             over      == [task EXCEPT ![s] = "finished"]
  <2>3. /\ delivered \in [Streams -> Seq(Nat)]
        /\ rest \in [Streams -> Seq(Nat)]
    BY <2>1, <2>2
  <2>4. /\ dropped \in [Streams -> Seq(Nat)]
        /\ over \in [Streams -> {"none", "running", "finished"}]
    BY <2>1
  <2>5. \/ destGot' = delivered /\ destQ' = rest /\ task' = task
        \/ destGot' = destGot /\ destQ' = dropped /\ task' = over
    BY <1>3 DEF TaskForward
  <2> HIDE DEF delivered, rest, dropped, over
  <2>6. /\ destGot' \in [Streams -> Seq(Nat)]
        /\ destQ' \in [Streams -> Seq(Nat)]
        /\ task' \in [Streams -> {"none", "running", "finished"}]
    BY <2>1, <2>3, <2>4, <2>5
  <2> QED BY <1>3, <2>6 DEF TaskForward
<1>4. CASE TaskDropped(s)  BY <1>4 DEF TaskDropped
<1> QED BY <1>1, <1>2, <1>3, <1>4 DEF TaskStep

LEMMA BreakTyped ==
  ASSUME TypeInv, PathBreaks
  PROVE  TypeInv'
<1>1. /\ fwd' \in Seq(CellType) /\ bwd' \in Seq(CellType)
  BY DEF TypeInv, TypeOK, PathBreaks
<1> QED BY <1>1 DEF TypeInv, TypeOK, PathBreaks, clientVars, exitVars

LEMMA StepTyped ==
  ASSUME TypeInv, [Next]_vars
  PROVE  TypeInv'
<1>1. ASSUME NEW s \in Streams, SelectCircuit(s) \/ HandlerStep(s)
      PROVE  TypeInv'
  BY <1>1, HandlerTyped
<1>2. ASSUME NEW s \in Streams, TaskStep(s) PROVE TypeInv'
  BY <1>2, TaskTyped
<1>3. CASE ReaderStep  BY <1>3, ReaderTyped
<1>4. CASE ConnStep \/ ConnEof  BY <1>4, ConnTyped
<1>5. CASE PathBreaks  BY <1>5, BreakTyped
<1>6. CASE UNCHANGED vars
  BY <1>6 DEF vars, clientVars, exitVars, TypeInv, TypeOK
<1> QED BY <1>1, <1>2, <1>3, <1>4, <1>5, <1>6 DEF Next

\* Type correctness: every action of every task keeps TypeInv.
THEOREM TypeCorrect == Spec => []TypeOK
<1>1. Init => TypeInv
  BY DEF Init, TypeInv, TypeOK, Phases
<1>2. TypeInv /\ [Next]_vars => TypeInv'
  BY StepTyped
<1>3. TypeInv => TypeOK  BY DEF TypeInv
<1> QED BY <1>1, <1>2, <1>3, PTL DEF Spec
-----------------------------------------------------------------------------
(* The forward direction.  The cells on their way to the exit carry the    *)
(* tags the exit will compute, one after the other; while the path is up   *)
(* they end at the client's own count.  Once it broke cells may be missing *)
(* at the end of the channel, never inside it, and nothing is added.       *)

FwdInv ==
  /\ TypeInv
  /\ ForwardInSync
  /\ \A i \in 1 .. Len(fwd) : fwd[i].tag = exitFwd + i
  /\ pathUp => exitFwd + Len(fwd) = clientFwd

FwdSame == UNCHANGED <<fwd, exitFwd, clientFwd>>

\* A client's cell extends the channel by the next tag.
LEMMA SendKeeps ==
  ASSUME FwdInv, TypeInv', NEW s \in Streams, NEW c \in Commands,
         NEW d \in Nat, SendMessage(s, c, d), UNCHANGED <<pathUp, conn, exitFwd>>
  PROVE  FwdInv'
<1>1. CASE pathUp
  <2>1. fwd' = Append(fwd, Cell(s, c, d, clientFwd + 1))
    BY <1>1 DEF SendMessage, Put
  <2>2. fwd \in Seq(CellType) /\ clientFwd \in Nat /\ exitFwd \in Nat
    BY DEF FwdInv, TypeInv, TypeOK
  <2>3. Cell(s, c, d, clientFwd + 1) \in CellType
    BY <2>2, CellTyped
  <2>4. Len(fwd') = Len(fwd) + 1
    BY <2>1, <2>2, <2>3
  <2>5. exitFwd + Len(fwd) = clientFwd
    BY <1>1 DEF FwdInv
  <2>6. ASSUME NEW i \in 1 .. Len(fwd') PROVE fwd'[i].tag = exitFwd' + i
    <3>1. CASE i = Len(fwd) + 1
      <4>1. fwd'[i] = Cell(s, c, d, clientFwd + 1)
        BY <2>1, <2>2, <2>3, <3>1
      <4> QED BY <2>2, <2>5, <3>1, <4>1 DEF Cell
    <3>2. CASE i \in 1 .. Len(fwd)
      <4>1. fwd'[i] = fwd[i]
        BY <2>1, <2>2, <2>3, <3>2
      <4> QED BY <3>2, <4>1 DEF FwdInv
    <3> QED BY <2>2, <2>4, <2>6, <3>1, <3>2
  <2>7. exitFwd' + Len(fwd') = clientFwd'
    BY <2>2, <2>4, <2>5 DEF SendMessage
  <2> QED BY <2>6, <2>7 DEF FwdInv, ForwardInSync
<1>2. CASE ~pathUp
  BY <1>2 DEF SendMessage, Put, FwdInv, ForwardInSync
<1> QED BY <1>1, <1>2

\* The exit takes the first cell: it verifies, and the rest moves up by one.
LEMMA AcceptKeeps ==
  ASSUME FwdInv, NEW cmd, Accept(cmd), UNCHANGED <<pathUp, clientFwd>>
  PROVE  /\ Verified
         /\ \A i \in 1 .. Len(fwd') : fwd'[i].tag = exitFwd' + i
         /\ pathUp' => exitFwd' + Len(fwd') = clientFwd'
<1>1. fwd \in Seq(CellType) /\ fwd # <<>> /\ exitFwd \in Nat
  BY DEF FwdInv, TypeInv, TypeOK, Accept
<1>2. Len(fwd) \in Nat \ {0} /\ fwd' = Tail(fwd) /\ Head(fwd) = fwd[1]
  BY <1>1 DEF Accept
<1>3. Verified
  BY <1>1, <1>2 DEF FwdInv, Verified
<1>4. Len(fwd') = Len(fwd) - 1
  BY <1>1, <1>2
<1>5. ASSUME NEW i \in 1 .. Len(fwd') PROVE fwd'[i].tag = exitFwd' + i
  <2>1. fwd'[i] = fwd[i + 1] /\ i + 1 \in 1 .. Len(fwd)
    BY <1>1, <1>2, <1>4
  <2>2. fwd[i + 1].tag = exitFwd + (i + 1)
    BY <2>1 DEF FwdInv
  <2> QED BY <1>1, <1>4, <2>1, <2>2 DEF Accept
<1>6. pathUp' => exitFwd' + Len(fwd') = clientFwd'
  BY <1>1, <1>2, <1>4 DEF FwdInv, Accept
<1> QED BY <1>3, <1>5, <1>6

LEMMA HandlerKeeps ==
  ASSUME FwdInv, NEW s \in Streams, SelectCircuit(s) \/ HandlerStep(s)
  PROVE  FwdInv'
<1>1. TypeInv'
  BY HandlerTyped DEF FwdInv
<1>2. CASE SendBegin(s) \/ SendBeginFails(s)
  BY <1>1, <1>2, SendKeeps DEF SendBegin, SendBeginFails, Commands, exitVars
<1>3. CASE SocksData(s)
  <2>1. sent[s] + 1 \in Nat
    BY DEF FwdInv, TypeInv, TypeOK
  <2> QED BY <1>1, <1>3, <2>1, SendKeeps DEF SocksData, Commands, exitVars
<1>4. CASE CleanupEnd(s)
  BY <1>1, <1>4, SendKeeps DEF CleanupEnd, Commands, exitVars
<1>5. CASE FwdSame /\ UNCHANGED <<pathUp, conn>>
  BY <1>1, <1>5 DEF FwdSame, FwdInv, ForwardInSync
<1> QED
  BY <1>2, <1>3, <1>4, <1>5 DEF HandlerStep, SelectCircuit, RegisterStream,
     RecvFirst, ChannelClosed, ConnectedTimeout, SocksReply, SocksReplyFails,
     RecvMessage, SocksClose, CleanupUnregister, FwdSame, exitVars

LEMMA ConnKeeps ==
  ASSUME FwdInv, ConnStep \/ ConnEof
  PROVE  FwdInv'
<1>1. TypeInv'
  BY ConnTyped DEF FwdInv
<1>2. CASE HandleBegin
  <2>1. Accept("BEGIN") /\ UNCHANGED <<pathUp, clientFwd>>
    BY <1>2 DEF HandleBegin, clientVars
  <2>2. conn' = "connecting"
    BY <1>2, <2>1, AcceptKeeps DEF HandleBegin
  <2> QED BY <1>1, <2>1, <2>2, AcceptKeeps DEF FwdInv, ForwardInSync
<1>3. CASE HandleData
  <2>1. Accept("DATA") /\ UNCHANGED <<pathUp, clientFwd>>
    BY <1>3 DEF HandleData, clientVars
  <2>2. conn' = conn \/ conn' = "replying"
    BY <1>3, <2>1, AcceptKeeps DEF HandleData, TagEnd
  <2> QED BY <1>1, <2>1, <2>2, AcceptKeeps DEF FwdInv, ForwardInSync
<1>4. CASE HandleEnd
  <2>1. Accept("END") /\ UNCHANGED <<pathUp, clientFwd>>
    BY <1>4 DEF HandleEnd, clientVars
  <2>2. conn' = "replying"
    BY <1>4, <2>1, AcceptKeeps DEF HandleEnd, TagEnd
  <2> QED BY <1>1, <2>1, <2>2, AcceptKeeps DEF FwdInv, ForwardInSync
<1>5. CASE FwdSame /\ UNCHANGED pathUp /\ conn' # "mismatch"
  BY <1>1, <1>5 DEF FwdSame, FwdInv, ForwardInSync
<1> QED
  BY <1>2, <1>3, <1>4, <1>5 DEF ConnStep, ConnectOk, ConnectedWriteFails,
     ConnectFails, TagEnd, WriteReply, ConnEof, FwdSame, clientVars

LEMMA BreakKeeps ==
  ASSUME FwdInv, PathBreaks
  PROVE  FwdInv'
<1>1. TypeInv'
  BY BreakTyped DEF FwdInv
<1>2. PICK k \in 0 .. Len(fwd) : fwd' = SubSeq(fwd, 1, k)
  BY DEF PathBreaks
<1>3. fwd \in Seq(CellType)
  BY DEF FwdInv, TypeInv, TypeOK
<1>4. Len(fwd') = k /\ \A i \in 1 .. k : fwd'[i] = fwd[i]
  BY <1>2, <1>3
<1> QED
  BY <1>1, <1>2, <1>3, <1>4 DEF FwdInv, ForwardInSync, PathBreaks, exitVars

\* The exit never meets a forward digest mismatch, whatever the streams, the
\* cleanups and the failures of the path do.
THEOREM ForwardSync == Spec => []ForwardInSync
<1>1. Init => FwdInv
  <2> SUFFICES ASSUME Init PROVE FwdInv
    OBVIOUS
  <2>1. TypeInv
    BY DEF Init, TypeInv, TypeOK, Phases
  <2> QED BY <2>1 DEF Init, FwdInv, ForwardInSync
<1>2. FwdInv /\ [Next]_vars => FwdInv'
  <2> SUFFICES ASSUME FwdInv, [Next]_vars PROVE FwdInv'
    OBVIOUS
  <2>1. ASSUME NEW s \in Streams, SelectCircuit(s) \/ HandlerStep(s)
        PROVE  FwdInv'
    BY <2>1, HandlerKeeps
  <2>2. ASSUME NEW s \in Streams, TaskStep(s) PROVE FwdInv'
    <3>1. TypeInv'
      BY <2>2, TaskTyped DEF FwdInv
    <3>2. FwdSame /\ UNCHANGED <<pathUp, conn>>
      BY <2>2 DEF TaskStep, TaskData, TaskEnd, TaskForward, TaskDropped,
         FwdSame, clientVars
    <3> QED BY <3>1, <3>2 DEF FwdSame, FwdInv, ForwardInSync
  <2>3. CASE ReaderStep
    <3>1. TypeInv'
      BY <2>3, ReaderTyped DEF FwdInv
    <3>2. FwdSame /\ UNCHANGED <<pathUp, conn>>
      BY <2>3 DEF ReaderStep, ReadCell, ReadEof, ReadDestroy, ReaderExit,
         FwdSame, exitVars
    <3> QED BY <3>1, <3>2 DEF FwdSame, FwdInv, ForwardInSync
  <2>4. CASE ConnStep \/ ConnEof  BY <2>4, ConnKeeps
  <2>5. CASE PathBreaks  BY <2>5, BreakKeeps
  <2>6. CASE UNCHANGED vars
    BY <2>6 DEF vars, clientVars, exitVars, FwdInv, TypeInv, TypeOK,
       ForwardInSync
  <2> QED BY <2>1, <2>2, <2>3, <2>4, <2>5, <2>6 DEF Next
<1>3. FwdInv => ForwardInSync  BY DEF FwdInv
<1> QED BY <1>1, <1>2, <1>3, PTL DEF Spec
-----------------------------------------------------------------------------
(* The channels of the streams.  Only a stream's own handler registers and *)
(* unregisters it; the reader clears all channels, and has then stopped.   *)

RouteSame == UNCHANGED <<phase, senders, reader>>

LEMMA HandlerRoutes ==
  ASSUME TypeInv, RoutedWhileOpen, NEW s \in Streams,
         SelectCircuit(s) \/ HandlerStep(s)
  PROVE  RoutedWhileOpen'
<1> USE DEF RoutedWhileOpen, TypeInv, TypeOK, Step
<1>1. CASE SelectCircuit(s)  BY <1>1 DEF SelectCircuit
<1>2. CASE RegisterStream(s)  BY <1>2 DEF RegisterStream
<1>3. CASE SendBegin(s) \/ SendBeginFails(s)
  BY <1>3 DEF SendBegin, SendBeginFails
<1>4. CASE RecvFirst(s)  BY <1>4 DEF RecvFirst
<1>5. CASE ChannelClosed(s)  BY <1>5 DEF ChannelClosed
<1>6. CASE ConnectedTimeout(s) \/ SocksReply(s) \/ SocksReplyFails(s)
  BY <1>6 DEF ConnectedTimeout, SocksReply, SocksReplyFails
<1>7. CASE SocksData(s)
  <2>1. /\ phase' = phase \/ phase' = [phase EXCEPT ![s] = "cleanup"]
        /\ phase[s] = "relaying" /\ UNCHANGED <<senders, reader>>
    BY <1>7 DEF SocksData
  <2> QED BY <2>1
<1>8. CASE RecvMessage(s)
  <2>1. /\ phase' = phase \/ phase' = [phase EXCEPT ![s] = "cleanup"]
        /\ phase[s] = "relaying" /\ UNCHANGED <<senders, reader>>
    BY <1>8 DEF RecvMessage
  <2> QED BY <2>1
<1>9. CASE SocksClose(s)  BY <1>9 DEF SocksClose
<1>10. CASE CleanupEnd(s)  BY <1>10 DEF CleanupEnd
<1>11. CASE CleanupUnregister(s)  BY <1>11 DEF CleanupUnregister
<1> QED
  BY <1>1, <1>2, <1>3, <1>4, <1>5, <1>6, <1>7, <1>8, <1>9, <1>10, <1>11
     DEF HandlerStep

LEMMA ReaderRoutes ==
  ASSUME RoutedWhileOpen, ReaderStep
  PROVE  RoutedWhileOpen'
<1>1. /\ phase' = phase
      /\ \/ senders' = senders /\ (reader' = "running" => reader = "running")
         \/ senders' = {} /\ reader' # "running"
  BY DEF ReaderStep, ReadCell, ReadEof, ReadDestroy, ReaderExit
<1> QED BY <1>1 DEF RoutedWhileOpen

LEMMA StepRoutes ==
  ASSUME TypeInv, RoutedWhileOpen, [Next]_vars
  PROVE  RoutedWhileOpen'
<1>1. ASSUME NEW s \in Streams, SelectCircuit(s) \/ HandlerStep(s)
      PROVE  RoutedWhileOpen'
  BY <1>1, HandlerRoutes
<1>2. CASE ReaderStep  BY <1>2, ReaderRoutes
<1>3. CASE RouteSame  BY <1>3 DEF RouteSame, RoutedWhileOpen
<1> QED
  BY <1>1, <1>2, <1>3 DEF Next, TaskStep, TaskData, TaskEnd, TaskForward,
     TaskDropped, ConnStep, HandleBegin, HandleData, HandleEnd, ConnectOk,
     ConnectedWriteFails, ConnectFails, WriteReply, ConnEof, PathBreaks,
     RouteSame, clientVars, vars

\* No message of an open stream is dropped as "No stream registered", and
\* none is routed to a stream that was cleaned up.
THEOREM OpenStreamsRouted == Spec => []RoutedWhileOpen
<1>1. Init => TypeInv /\ RoutedWhileOpen
  BY DEF Init, TypeInv, TypeOK, Phases, RoutedWhileOpen
<1>2. TypeInv /\ RoutedWhileOpen /\ [Next]_vars => (TypeInv /\ RoutedWhileOpen)'
  BY StepTyped, StepRoutes
<1> QED BY <1>1, <1>2, PTL DEF Spec
-----------------------------------------------------------------------------
(* The backward direction.  Whatever is on the wire, or held by the        *)
(* connection handler, has a tag the exit has taken; a cell that is tagged *)
(* and written at once comes after them all.                               *)

BwdInv ==
  /\ TypeInv
  /\ OnlyEndsOvertaken
  /\ \A i \in 1 .. Len(bwd) : bwd[i].tag <= exitBwd
  /\ conn = "replying" => held.cmd = "END" /\ held.tag <= exitBwd

BwdSame == UNCHANGED <<bwd, exitBwd, conn, held>>

\* A cell put on the wire: it carries the next tag, or it is an END.
LEMMA PutKeeps ==
  ASSUME BwdInv, TypeInv', NEW c \in CellType, bwd' = Put(bwd, c),
         exitBwd' \in {exitBwd, exitBwd + 1}, c.tag <= exitBwd',
         c.cmd = "END" \/ c.tag = exitBwd + 1
  PROVE  /\ OnlyEndsOvertaken'
         /\ \A i \in 1 .. Len(bwd') : bwd'[i].tag <= exitBwd'
<1>1. /\ bwd \in Seq(CellType) /\ bwd' \in Seq(CellType)
      /\ exitBwd \in Nat /\ exitBwd' \in Nat
  BY DEF BwdInv, TypeInv, TypeOK
<1>2. CASE ~pathUp
  <2>1. bwd' = bwd
    BY <1>2 DEF Put
  <2>2. \A i \in 1 .. Len(bwd) : bwd[i].tag \in Nat
    BY <1>1, CellFields
  <2> QED BY <1>1, <2>1, <2>2 DEF BwdInv, OnlyEndsOvertaken
<1>3. CASE pathUp
  <2>1. /\ Len(bwd') = Len(bwd) + 1 /\ bwd'[Len(bwd) + 1] = c
        /\ \A i \in 1 .. Len(bwd) : bwd'[i] = bwd[i]
    BY <1>1, <1>3 DEF Put
  <2>2. \A i \in 1 .. Len(bwd) : bwd[i].tag \in Nat
    BY <1>1, CellFields
  <2>3. c.tag \in Nat
    BY CellFields
  <2>4. ASSUME NEW i \in 1 .. Len(bwd') PROVE bwd'[i].tag <= exitBwd'
    BY <1>1, <2>1, <2>2, <2>3 DEF BwdInv
  <2>5. ASSUME NEW i \in 1 .. Len(bwd'), NEW j \in 1 .. Len(bwd'),
               i < j, bwd'[j].tag < bwd'[i].tag
        PROVE  bwd'[j].cmd = "END"
    <3>1. i \in 1 .. Len(bwd)
      BY <1>1, <2>1, <2>5
    <3>2. CASE j = Len(bwd) + 1
      BY <1>1, <2>1, <2>2, <2>5, <3>1, <3>2 DEF BwdInv
    <3>3. CASE j \in 1 .. Len(bwd)
      BY <2>1, <2>5, <3>1, <3>3 DEF BwdInv, OnlyEndsOvertaken
    <3> QED BY <1>1, <2>1, <3>2, <3>3
  <2> QED BY <2>4, <2>5 DEF OnlyEndsOvertaken
<1> QED BY <1>2, <1>3

\* Nothing is written: a tag may be taken for the END that is now held.
LEMMA HoldKeeps ==
  ASSUME BwdInv, TypeInv', UNCHANGED bwd, exitBwd' \in {exitBwd, exitBwd + 1},
         conn' = "replying" => held'.cmd = "END" /\ held'.tag <= exitBwd'
  PROVE  BwdInv'
<1>1. /\ bwd \in Seq(CellType) /\ exitBwd \in Nat
  BY DEF BwdInv, TypeInv, TypeOK
<1>2. \A i \in 1 .. Len(bwd) : bwd[i].tag \in Nat
  BY <1>1, CellFields
<1>3. \A i \in 1 .. Len(bwd') : bwd'[i].tag <= exitBwd'
  BY <1>1, <1>2 DEF BwdInv
<1>4. OnlyEndsOvertaken'
  BY DEF BwdInv, OnlyEndsOvertaken
<1> QED BY <1>3, <1>4 DEF BwdInv

\* Cells leave at the front, or a suffix is lost: the order of the rest stays.
LEMMA ShortenKeeps ==
  ASSUME BwdInv, TypeInv', UNCHANGED <<conn, held, exitBwd>>,
         NEW k \in Nat, Len(bwd') + k <= Len(bwd),
         \A i \in 1 .. Len(bwd') : bwd'[i] = bwd[i + k]
  PROVE  BwdInv'
<1>1. Len(bwd) \in Nat /\ Len(bwd') \in Nat
  BY DEF BwdInv, TypeInv, TypeOK
<1>2. \A i \in 1 .. Len(bwd') : i + k \in 1 .. Len(bwd)
  BY <1>1
<1>3. \A i \in 1 .. Len(bwd') : bwd'[i].tag <= exitBwd'
  BY <1>2 DEF BwdInv
<1>4. ASSUME NEW i \in 1 .. Len(bwd'), NEW j \in 1 .. Len(bwd'),
             i < j, bwd'[j].tag < bwd'[i].tag
      PROVE  bwd'[j].cmd = "END"
  <2>1. /\ i + k \in 1 .. Len(bwd) /\ j + k \in 1 .. Len(bwd)
        /\ i + k < j + k /\ bwd[j + k].tag < bwd[i + k].tag
    BY <1>1, <1>2, <1>4
  <2>2. bwd[j + k].cmd = "END"
    BY <2>1 DEF BwdInv, OnlyEndsOvertaken
  <2> QED BY <2>2
<1>5. OnlyEndsOvertaken'
  BY <1>4 DEF OnlyEndsOvertaken
<1> QED BY <1>3, <1>5 DEF BwdInv

LEMMA ConnBwd ==
  ASSUME BwdInv, ConnStep \/ ConnEof
  PROVE  BwdInv'
<1>1. TypeInv'
  BY ConnTyped DEF BwdInv
<1>2. /\ exitBwd \in Nat /\ held \in CellType \union {NoCell}
      /\ conn \in {"connecting", "replying"} => held \in CellType
  BY DEF BwdInv, TypeInv, TypeOK
<1>3. ASSUME NEW s, TagEnd(s)
      PROVE  /\ exitBwd' = exitBwd + 1
             /\ held'.cmd = "END" /\ held'.tag <= exitBwd'
  BY <1>2, <1>3 DEF TagEnd, Cell
<1>4. CASE HandleBegin \/ HandleEnd \/ ConnectFails
  <2>1. /\ UNCHANGED bwd /\ exitBwd' \in {exitBwd, exitBwd + 1}
        /\ conn' = "replying" => held'.cmd = "END" /\ held'.tag <= exitBwd'
    BY <1>2, <1>3, <1>4 DEF HandleBegin, HandleEnd, ConnectFails, Mismatch
  <2> QED BY <1>1, <2>1, HoldKeeps
<1>5. CASE HandleData
  <2>1. UNCHANGED bwd /\ conn = "idle"
    BY <1>5 DEF HandleData, Accept
  <2>2. \/ conn' # "replying" /\ exitBwd' = exitBwd
        \/ TagEnd(Head(fwd).stream)
    BY <1>5, <2>1, Zenon DEF HandleData, Mismatch
  <2> QED BY <1>1, <1>2, <1>3, <2>1, <2>2, HoldKeeps
<1>6. CASE ConnectOk
  <2> DEFINE c == Cell(held.stream, "CONNECTED", 0, exitBwd + 1)
  <2>1. held.stream \in Streams
    BY <1>2, <1>6, CellFields DEF ConnectOk
  <2>2. c \in CellType /\ c.tag = exitBwd + 1
    BY <1>2, <2>1, CellTyped DEF Commands, Cell
  <2>3. bwd' = Put(bwd, c) /\ exitBwd' = exitBwd + 1 /\ conn' = "idle"
    BY <1>6 DEF ConnectOk
  <2> HIDE DEF c
  <2> QED BY <1>1, <1>2, <2>2, <2>3, PutKeeps DEF BwdInv
<1>7. CASE WriteReply
  <2>1. /\ bwd' = Put(bwd, held) /\ exitBwd' = exitBwd /\ conn' # "replying"
        /\ held \in CellType /\ held.cmd = "END" /\ held.tag <= exitBwd
    BY <1>2, <1>7 DEF WriteReply, BwdInv
  <2> QED BY <1>1, <2>1, PutKeeps DEF BwdInv
<1>8. CASE ConnectedWriteFails \/ ConnEof
  BY <1>1, <1>2, <1>8, HoldKeeps DEF ConnectedWriteFails, ConnEof
<1> QED BY <1>4, <1>5, <1>6, <1>7, <1>8 DEF ConnStep

LEMMA TaskBwd ==
  ASSUME BwdInv, NEW s \in Streams, TaskStep(s)
  PROVE  BwdInv'
<1>1. TypeInv'
  BY TaskTyped DEF BwdInv
<1>2. /\ exitBwd \in Nat /\ destSent[s] \in Nat
      /\ conn = "replying" => held.tag \in Nat
  BY CellFields DEF BwdInv, TypeInv, TypeOK
<1>3. ASSUME NEW d \in Nat, NEW cmd \in {"DATA", "END"},
             bwd' = Put(bwd, Cell(s, cmd, d, exitBwd + 1)),
             exitBwd' = exitBwd + 1, UNCHANGED <<conn, held>>
      PROVE  BwdInv'
  <2> DEFINE c == Cell(s, cmd, d, exitBwd + 1)
  <2>1. c \in CellType /\ c.tag = exitBwd + 1
    BY <1>2, CellTyped DEF Commands, Cell
  <2>2. bwd' = Put(bwd, c)
    BY <1>3
  <2> HIDE DEF c
  <2>3. /\ OnlyEndsOvertaken'
        /\ \A i \in 1 .. Len(bwd') : bwd'[i].tag <= exitBwd'
    BY <1>1, <1>2, <1>3, <2>1, <2>2, PutKeeps
  <2>4. conn' = "replying" => held'.cmd = "END" /\ held'.tag <= exitBwd'
    BY <1>2, <1>3 DEF BwdInv
  <2> QED BY <1>1, <2>3, <2>4 DEF BwdInv
<1>4. CASE TaskData(s)
  BY <1>2, <1>3, <1>4 DEF TaskData
<1>5. CASE TaskEnd(s)
  BY <1>3, <1>5 DEF TaskEnd
<1>6. CASE TaskForward(s) \/ TaskDropped(s)
  BY <1>1, <1>6, HoldKeeps DEF TaskForward, TaskDropped, BwdInv
<1> QED BY <1>4, <1>5, <1>6 DEF TaskStep

\* CONNECTED and DATA, tagged and written under one lock, are never
\* overtaken; the handler's END replies are the only cells that are.
THEOREM OvertakenAreEnds == Spec => []OnlyEndsOvertaken
<1>1. Init => BwdInv
  BY DEF Init, BwdInv, TypeInv, TypeOK, Phases, OnlyEndsOvertaken
<1>2. BwdInv /\ [Next]_vars => BwdInv'
  <2> SUFFICES ASSUME BwdInv, [Next]_vars PROVE BwdInv'
    OBVIOUS
  <2>1. TypeInv'
    BY StepTyped DEF BwdInv
  <2>2. bwd \in Seq(CellType)
    BY DEF BwdInv, TypeInv, TypeOK
  <2>3. CASE BwdSame
    BY <2>1, <2>3, HoldKeeps DEF BwdSame, BwdInv
  <2>4. ASSUME NEW s \in Streams, SelectCircuit(s) \/ HandlerStep(s)
        PROVE  BwdSame
    BY <2>4 DEF HandlerStep, SelectCircuit, RegisterStream, SendBegin,
       SendBeginFails, RecvFirst, ChannelClosed, ConnectedTimeout, SocksReply,
       SocksReplyFails, SocksData, RecvMessage, SocksClose, CleanupEnd,
       CleanupUnregister, BwdSame, exitVars
  <2>5. ASSUME NEW s \in Streams, TaskStep(s) PROVE BwdInv'
    BY <2>5, TaskBwd
  <2>6. CASE ReadCell
    <3>1. /\ Len(bwd') + 1 <= Len(bwd)
          /\ \A i \in 1 .. Len(bwd') : bwd'[i] = bwd[i + 1]
      BY <2>2, <2>6 DEF ReadCell
    <3> QED BY <2>1, <2>6, <3>1, ShortenKeeps DEF ReadCell, exitVars
  <2>7. CASE ReadEof \/ ReadDestroy \/ ReaderExit
    BY <2>3, <2>7 DEF ReadEof, ReadDestroy, ReaderExit, BwdSame, exitVars
  <2>8. CASE ConnStep \/ ConnEof  BY <2>8, ConnBwd
  <2>9. CASE PathBreaks
    <3>1. PICK k \in 0 .. Len(bwd) : bwd' = SubSeq(bwd, 1, k)
      BY <2>9 DEF PathBreaks
    <3>2. /\ Len(bwd') + 0 <= Len(bwd)
          /\ \A i \in 1 .. Len(bwd') : bwd'[i] = bwd[i + 0]
      BY <2>2, <3>1
    <3> QED BY <2>1, <2>9, <3>2, ShortenKeeps DEF PathBreaks, exitVars
  <2>10. CASE UNCHANGED vars
    BY <2>3, <2>10 DEF vars, exitVars, BwdSame
  <2> QED
    BY <2>3, <2>4, <2>5, <2>6, <2>7, <2>8, <2>9, <2>10 DEF Next, ReaderStep
<1>3. BwdInv => OnlyEndsOvertaken  BY DEF BwdInv
<1> QED BY <1>1, <1>2, <1>3, PTL DEF Spec
-----------------------------------------------------------------------------
(* The account of the backward tags.  Set and length of BackwardAccounted  *)
(* say together that no tag occurs twice; Exact says so outright, which a  *)
(* step can keep one cell at a time.                                       *)

Held(n) == conn = "replying" /\ held.tag = n
Due == clientBwd + 1 .. exitBwd

Exact ==
  /\ Len(bwd) + (IF conn = "replying" THEN 1 ELSE 0) = exitBwd - clientBwd
  /\ \A i \in 1 .. Len(bwd) : bwd[i].tag \in Due
  /\ \A i, j \in 1 .. Len(bwd) : i # j => bwd[i].tag # bwd[j].tag
  /\ conn = "replying" => \A i \in 1 .. Len(bwd) : bwd[i].tag # held.tag
  /\ conn = "replying" => held.tag \in Due
  /\ \A n \in Due : Held(n) \/ \E i \in 1 .. Len(bwd) : bwd[i].tag = n

AccInv == TypeInv /\ (pathUp /\ reader = "running" => Exact)

AccSame == UNCHANGED <<clientBwd, bwd, exitBwd, conn, held>>

\* The connection handler takes a tag for the END it now holds.
LEMMA TagAccounted ==
  ASSUME TypeInv, Exact, NEW s, TagEnd(s), conn # "replying",
         UNCHANGED <<bwd, clientBwd>>
  PROVE  Exact'
<1>1. /\ Len(bwd) \in Nat /\ exitBwd \in Nat /\ clientBwd \in Nat
      /\ clientBwd <= exitBwd
  BY DEF TypeInv, TypeOK, Exact
<1>2. /\ exitBwd' = exitBwd + 1 /\ conn' = "replying"
      /\ held'.tag = exitBwd + 1
  BY DEF TagEnd, Cell
<1>3. Due' = Due \union {exitBwd + 1} /\ exitBwd + 1 \notin Due
  BY <1>1, <1>2 DEF Due
<1> HIDE DEF Due
<1> QED BY <1>1, <1>2, <1>3 DEF Exact, Held

\* A cell is written: one that takes its tag now, or the END that was held.
LEMMA WriteAccounted ==
  ASSUME TypeInv, Exact, NEW c \in CellType, bwd' = Append(bwd, c),
         UNCHANGED clientBwd,
         \/ /\ exitBwd' = exitBwd + 1 /\ c.tag = exitBwd + 1
            /\ \/ UNCHANGED <<conn, held>>
               \/ conn # "replying" /\ conn' # "replying"
         \/ /\ conn = "replying" /\ c = held /\ exitBwd' = exitBwd
            /\ conn' # "replying"
  PROVE  Exact'
<1>1. /\ Len(bwd) \in Nat /\ exitBwd \in Nat /\ clientBwd \in Nat
      /\ bwd \in Seq(CellType) /\ clientBwd <= exitBwd
  BY DEF TypeInv, TypeOK, Exact
<1>2. /\ Len(bwd') = Len(bwd) + 1 /\ bwd'[Len(bwd) + 1] = c
      /\ \A i \in 1 .. Len(bwd) : bwd'[i] = bwd[i]
  BY <1>1
<1>3. /\ 1 .. Len(bwd') = (1 .. Len(bwd)) \union {Len(bwd) + 1}
      /\ Len(bwd) + 1 \notin 1 .. Len(bwd)
  BY <1>1, <1>2
<1>4. CASE /\ exitBwd' = exitBwd + 1 /\ c.tag = exitBwd + 1
           /\ \/ UNCHANGED <<conn, held>>
              \/ conn # "replying" /\ conn' # "replying"
  <2>1. Due' = Due \union {exitBwd + 1} /\ exitBwd + 1 \notin Due
    BY <1>1, <1>4 DEF Due
  <2>2. Len(bwd') + (IF conn' = "replying" THEN 1 ELSE 0)
          = exitBwd' - clientBwd'
    BY <1>1, <1>2, <1>4 DEF Exact
  <2>3. conn' = "replying" => conn = "replying" /\ held' = held
    BY <1>4
  <2>4. /\ \A i \in 1 .. Len(bwd') : bwd'[i].tag \in Due'
        /\ \A i, j \in 1 .. Len(bwd') : i # j => bwd'[i].tag # bwd'[j].tag
    BY <1>2, <1>3, <1>4, <2>1 DEF Exact
  <2>5. /\ conn' = "replying" => held'.tag \in Due'
        /\ conn' = "replying" => \A i \in 1 .. Len(bwd') : bwd'[i].tag # held'.tag
    BY <1>2, <1>3, <1>4, <2>1, <2>3 DEF Exact
  <2>6. ASSUME NEW n \in Due'
        PROVE  Held(n)' \/ \E i \in 1 .. Len(bwd') : bwd'[i].tag = n
    <3>1. CASE n = exitBwd + 1
      BY <1>2, <1>3, <1>4, <3>1
    <3>2. CASE n \in Due
      <4>1. Held(n) \/ \E i \in 1 .. Len(bwd) : bwd[i].tag = n
        BY <3>2 DEF Exact
      <4>2. Held(n) => Held(n)'
        BY <1>4 DEF Held
      <4> QED BY <1>2, <1>3, <4>1, <4>2
    <3> QED BY <2>1, <3>1, <3>2
  <2> QED BY <2>2, <2>4, <2>5, <2>6 DEF Exact
<1>5. CASE /\ conn = "replying" /\ c = held /\ exitBwd' = exitBwd
           /\ conn' # "replying"
  <2>1. Due' = Due
    BY <1>5 DEF Due
  <2>2. Len(bwd') + (IF conn' = "replying" THEN 1 ELSE 0)
          = exitBwd' - clientBwd'
    BY <1>1, <1>2, <1>5 DEF Exact
  <2> QED BY <1>2, <1>3, <1>5, <2>1, <2>2 DEF Exact, Held
<1> QED BY <1>4, <1>5

\* The client absorbs the cell at the front: it is the one that is due.
LEMMA ReadAccounted ==
  ASSUME TypeInv, Exact, ReadCell, reader' = "running"
  PROVE  Exact'
<1>1. /\ Len(bwd) \in Nat \ {0} /\ exitBwd \in Nat /\ clientBwd \in Nat
      /\ bwd \in Seq(CellType)
  BY DEF TypeInv, TypeOK, ReadCell
<1>2. /\ Len(bwd') = Len(bwd) - 1 /\ clientBwd' = clientBwd + 1
      /\ \A i \in 1 .. Len(bwd') : i + 1 \in 1 .. Len(bwd) /\ bwd'[i] = bwd[i + 1]
      /\ UNCHANGED <<exitBwd, conn, held>>
  BY <1>1 DEF ReadCell, exitVars
<1>3. bwd[1].tag = clientBwd + 1
  BY <1>1 DEF ReadCell
<1>4. Due' = Due \ {clientBwd + 1}
  BY <1>1, <1>2 DEF Due
<1>5. \A i \in 1 .. Len(bwd) :
        i = 1 \/ (i - 1 \in 1 .. Len(bwd') /\ bwd'[i - 1] = bwd[i])
  BY <1>1, <1>2
<1>6. Len(bwd') + (IF conn' = "replying" THEN 1 ELSE 0) = exitBwd' - clientBwd'
  BY <1>1, <1>2 DEF Exact
<1>7. \A i \in 1 .. Len(bwd') :
        /\ bwd'[i].tag \in Due'
        /\ conn' = "replying" => bwd'[i].tag # held'.tag
  <2> SUFFICES ASSUME NEW i \in 1 .. Len(bwd')
               PROVE  /\ bwd'[i].tag \in Due'
                      /\ conn' = "replying" => bwd'[i].tag # held'.tag
    OBVIOUS
  <2>1. i + 1 \in 1 .. Len(bwd) /\ i + 1 # 1 /\ 1 \in 1 .. Len(bwd)
    BY <1>1, <1>2
  <2>2. bwd[i + 1].tag # bwd[1].tag
    BY <2>1 DEF Exact
  <2> QED BY <1>2, <1>3, <1>4, <2>1, <2>2 DEF Exact, Held
<1>8. \A i, j \in 1 .. Len(bwd') : i # j => bwd'[i].tag # bwd'[j].tag
  <2> SUFFICES ASSUME NEW i \in 1 .. Len(bwd'), NEW j \in 1 .. Len(bwd'), i # j
               PROVE  bwd'[i].tag # bwd'[j].tag
    OBVIOUS
  <2>1. /\ i + 1 \in 1 .. Len(bwd) /\ j + 1 \in 1 .. Len(bwd)
        /\ i + 1 # j + 1
    BY <1>1, <1>2
  <2> QED BY <1>2, <2>1 DEF Exact
<1>9. conn' = "replying" => held'.tag \in Due'
  <2>1. 1 \in 1 .. Len(bwd)
    BY <1>1
  <2> QED BY <1>2, <1>3, <1>4, <2>1 DEF Exact, Held
<1>10. ASSUME NEW n \in Due'
       PROVE  Held(n)' \/ \E i \in 1 .. Len(bwd') : bwd'[i].tag = n
  <2>1. n \in Due /\ n # clientBwd + 1
    BY <1>4
  <2>2. Held(n) \/ \E i \in 1 .. Len(bwd) : bwd[i].tag = n
    BY <2>1 DEF Exact
  <2>3. Held(n) => Held(n)'
    BY <1>2 DEF Held
  <2>4. ASSUME NEW i \in 1 .. Len(bwd), bwd[i].tag = n
        PROVE  \E j \in 1 .. Len(bwd') : bwd'[j].tag = n
    BY <1>3, <1>5, <2>1, <2>4
  <2> QED BY <2>2, <2>3, <2>4
<1> QED BY <1>6, <1>7, <1>8, <1>9, <1>10 DEF Exact

LEMMA ConnAccounted ==
  ASSUME TypeInv, Exact, pathUp, ConnStep \/ ConnEof
  PROVE  Exact'
<1>1. UNCHANGED <<clientBwd, pathUp>>
  BY DEF ConnStep, HandleBegin, HandleData, HandleEnd, ConnectOk,
     ConnectedWriteFails, ConnectFails, WriteReply, ConnEof, clientVars
<1>2. ASSUME conn # "replying", conn' # "replying", UNCHANGED <<bwd, exitBwd>>
      PROVE  Exact'
  BY <1>1, <1>2 DEF Exact, Held, Due
<1>3. CASE HandleBegin
  BY <1>2, <1>3 DEF HandleBegin, Accept, Mismatch
<1>4. CASE HandleData
  <2>1. UNCHANGED bwd /\ conn = "idle"
    BY <1>4 DEF HandleData, Accept
  <2>2. \/ conn' # "replying" /\ exitBwd' = exitBwd
        \/ TagEnd(Head(fwd).stream)
    BY <1>4, <2>1, Zenon DEF HandleData, Mismatch
  <2> QED BY <1>1, <1>2, <2>1, <2>2, TagAccounted
<1>5. CASE HandleEnd
  <2>1. UNCHANGED bwd /\ conn = "idle"
    BY <1>5 DEF HandleEnd, Accept
  <2>2. \/ conn' # "replying" /\ exitBwd' = exitBwd
        \/ TagEnd(Head(fwd).stream)
    BY <1>5 DEF HandleEnd, Mismatch
  <2> QED BY <1>1, <1>2, <2>1, <2>2, TagAccounted
<1>6. CASE ConnectOk
  <2> DEFINE c == Cell(held.stream, "CONNECTED", 0, exitBwd + 1)
  <2>1. held.stream \in Streams /\ exitBwd \in Nat
    BY <1>6, CellFields DEF ConnectOk, TypeInv, TypeOK
  <2>2. c \in CellType /\ c.tag = exitBwd + 1
    BY <2>1, CellTyped DEF Commands, Cell
  <2>3. /\ bwd' = Append(bwd, c) /\ exitBwd' = exitBwd + 1
        /\ conn # "replying" /\ conn' # "replying"
    BY <1>6 DEF ConnectOk, Put
  <2> HIDE DEF c
  <2> QED BY <1>1, <2>2, <2>3, WriteAccounted
<1>7. CASE ConnectFails
  BY <1>1, <1>7, TagAccounted DEF ConnectFails
<1>8. CASE WriteReply
  <2>1. /\ bwd' = Append(bwd, held) /\ exitBwd' = exitBwd /\ held \in CellType
        /\ conn = "replying" /\ conn' # "replying"
    BY <1>8 DEF WriteReply, Put, TypeInv
  <2> QED BY <1>1, <2>1, WriteAccounted
<1> QED
  BY <1>3, <1>4, <1>5, <1>6, <1>7, <1>8 DEF ConnStep, ConnectedWriteFails,
     ConnEof

LEMMA TaskAccounted ==
  ASSUME TypeInv, Exact, pathUp, NEW s \in Streams, TaskStep(s)
  PROVE  Exact'
<1>1. UNCHANGED <<clientBwd, conn, held>>
  BY DEF TaskStep, TaskData, TaskEnd, TaskForward, TaskDropped, clientVars
<1>2. exitBwd \in Nat /\ destSent[s] \in Nat
  BY DEF TypeInv, TypeOK
<1>3. ASSUME NEW d \in Nat, NEW cmd \in {"DATA", "END"},
             bwd' = Put(bwd, Cell(s, cmd, d, exitBwd + 1)),
             exitBwd' = exitBwd + 1
      PROVE  Exact'
  <2> DEFINE c == Cell(s, cmd, d, exitBwd + 1)
  <2>1. c \in CellType /\ c.tag = exitBwd + 1
    BY <1>2, CellTyped DEF Commands, Cell
  <2>2. bwd' = Append(bwd, c)
    BY <1>3 DEF Put
  <2> HIDE DEF c
  <2> QED BY <1>1, <1>3, <2>1, <2>2, WriteAccounted
<1>4. CASE TaskData(s)  BY <1>2, <1>3, <1>4 DEF TaskData
<1>5. CASE TaskEnd(s)  BY <1>3, <1>5 DEF TaskEnd
<1>6. CASE TaskForward(s) \/ TaskDropped(s)
  BY <1>1, <1>6 DEF TaskForward, TaskDropped, Exact, Held, Due
<1> QED BY <1>4, <1>5, <1>6 DEF TaskStep

LEMMA ExactAccounts ==
  ASSUME TypeInv, Exact
  PROVE  BackwardAccounted
<1> DEFINE here == IF conn = "replying" THEN {held.tag} ELSE {}
           wire == {bwd[i].tag : i \in 1 .. Len(bwd)}
<1>1. \A n \in wire : n \in Due
  BY DEF Exact
<1>2. \A n \in here : n \in Due
  BY DEF Exact
<1>3. \A n \in Due : n \in wire \/ n \in here
  BY DEF Exact, Held
<1>4. wire \union here = Due
  BY <1>1, <1>2, <1>3
<1> QED BY <1>4 DEF BackwardAccounted, Exact, Due

\* Every tag the exit took is on the wire or held, exactly once, until the
\* client absorbs it, for any number of streams.
THEOREM TagsAccounted == Spec => []BackwardAccounted
<1>1. Init => AccInv
  <2> SUFFICES ASSUME Init PROVE AccInv
    OBVIOUS
  <2>1. TypeInv
    BY DEF Init, TypeInv, TypeOK, Phases
  <2>2. /\ Len(bwd) = 0 /\ conn = "idle" /\ exitBwd = 0 /\ clientBwd = 0
    BY DEF Init
  <2> QED BY <2>1, <2>2 DEF AccInv, Exact, Due, Held
<1>2. AccInv /\ [Next]_vars => AccInv'
  <2> SUFFICES ASSUME AccInv, [Next]_vars PROVE AccInv'
    OBVIOUS
  <2>1. TypeInv'
    BY StepTyped DEF AccInv
  <2>2. SUFFICES ASSUME pathUp', reader' = "running" PROVE Exact'
    BY <2>1 DEF AccInv
  <2>3. /\ TypeInv
        /\ pathUp /\ reader = "running" => Exact
    BY DEF AccInv
  <2>4. CASE AccSame /\ UNCHANGED <<pathUp, reader>>
    BY <2>2, <2>3, <2>4 DEF AccSame, Exact, Due, Held
  <2>5. ASSUME NEW s \in Streams, SelectCircuit(s) \/ HandlerStep(s)
        PROVE  AccSame /\ UNCHANGED <<pathUp, reader>>
    BY <2>5 DEF HandlerStep, SelectCircuit, RegisterStream, SendBegin,
       SendBeginFails, RecvFirst, ChannelClosed, ConnectedTimeout, SocksReply,
       SocksReplyFails, SocksData, RecvMessage, SocksClose, CleanupEnd,
       CleanupUnregister, AccSame, exitVars
  <2>6. ASSUME NEW s \in Streams, TaskStep(s) PROVE Exact'
    <3>1. UNCHANGED <<pathUp, reader>>
      BY <2>6 DEF TaskStep, TaskData, TaskEnd, TaskForward, TaskDropped,
         clientVars
    <3> QED BY <2>2, <2>3, <2>6, <3>1, TaskAccounted
  <2>7. CASE ReaderStep
    <3>1. reader' = "running" => ReadCell
      BY <2>7 DEF ReaderStep, ReadEof, ReadDestroy, ReaderExit
    <3>2. pathUp /\ reader = "running"
      BY <2>2, <3>1 DEF ReadCell
    <3> QED BY <2>2, <2>3, <3>1, <3>2, ReadAccounted
  <2>8. CASE ConnStep \/ ConnEof
    <3>1. UNCHANGED <<pathUp, reader>>
      BY <2>8 DEF ConnStep, HandleBegin, HandleData, HandleEnd, ConnectOk,
         ConnectedWriteFails, ConnectFails, WriteReply, ConnEof, clientVars
    <3> QED BY <2>2, <2>3, <2>8, <3>1, ConnAccounted
  <2>9. CASE PathBreaks
    BY <2>2, <2>9 DEF PathBreaks
  <2>10. CASE UNCHANGED vars
    BY <2>4, <2>10 DEF vars, clientVars, exitVars, AccSame
  <2> QED BY <2>4, <2>5, <2>6, <2>7, <2>8, <2>9, <2>10 DEF Next
<1>3. AccInv => BackwardAccounted
  BY ExactAccounts DEF AccInv, BackwardAccounted
<1> QED BY <1>1, <1>2, <1>3, PTL DEF Spec
-----------------------------------------------------------------------------
(* The answer to a BEGIN is the first cell of its stream.  It needs what   *)
(* the exit knows of a stream in each phase of its handler, and nothing of *)
(* digests and tags.                                                       *)

\* Before BEGIN is sent no cell of the stream exists, nor a task.
Early(s) == phase[s] \in {"idle", "selected", "opened"}

Untouched(s) ==
  /\ \A i \in 1 .. Len(fwd) : fwd[i].stream # s
  /\ \A i \in 1 .. Len(bwd) : bwd[i].stream # s
  /\ conn \in {"connecting", "replying"} => held.stream # s
  /\ task[s] = "none" /\ rx[s] = <<>>

\* A cell of s other than DATA is on the wire before place n.
Opened(s, n) ==
  \E j \in 1 .. Len(bwd) : j < n /\ bwd[j].stream = s /\ bwd[j].cmd # "DATA"

\* While nothing of s was read: DATA of s follows the answer, and with a task
\* the answer is there already.
Answered(s) ==
  /\ \A i \in 1 .. Len(bwd) :
       bwd[i].stream = s /\ bwd[i].cmd = "DATA" => Opened(s, i)
  /\ pathUp /\ task[s] # "none" => Opened(s, Len(bwd) + 1)

FirstInv(s) ==
  /\ Early(s) => Untouched(s)
  /\ phase[s] = "waiting" =>
       /\ rx[s] # <<>> => Head(rx[s]).cmd # "DATA"
       /\ reader = "running" /\ rx[s] = <<>> => Answered(s)

AnswerInv ==
  /\ TypeInv
  /\ RoutedWhileOpen
  /\ conn = "replying" => held.cmd = "END"
  /\ \A s \in Streams : FirstInv(s)

\* A cell of s is written: DATA by its task only, which starts when s is
\* answered.
LEMMA PutAnswers ==
  ASSUME TypeInv, NEW s \in Streams, Answered(s), NEW c \in CellType,
         bwd' = Put(bwd, c), UNCHANGED pathUp,
         c.stream = s /\ c.cmd = "DATA" => task[s] # "none",
         task'[s] = "none" \/ task[s] # "none" \/ (c.stream = s /\ c.cmd # "DATA")
  PROVE  Answered(s)'
<1>1. bwd \in Seq(CellType) /\ Len(bwd) \in Nat
  BY DEF TypeInv, TypeOK
<1>2. CASE ~pathUp
  BY <1>2 DEF Put, Answered, Opened
<1>3. CASE pathUp
  <2>1. /\ Len(bwd') = Len(bwd) + 1 /\ bwd'[Len(bwd) + 1] = c
        /\ \A i \in 1 .. Len(bwd) : bwd'[i] = bwd[i]
    BY <1>1, <1>3 DEF Put
  <2>2. /\ 1 .. Len(bwd') = (1 .. Len(bwd)) \union {Len(bwd) + 1}
        /\ \A i \in 1 .. Len(bwd) : i < Len(bwd) + 1 /\ i < Len(bwd) + 2
        /\ Len(bwd) + 1 < Len(bwd) + 2 /\ Len(bwd') + 1 = Len(bwd) + 2
    BY <1>1, <2>1
  <2>3. ASSUME NEW n, Opened(s, n) PROVE Opened(s, n)'
    BY <2>1, <2>2, <2>3 DEF Opened
  <2>4. ASSUME NEW i \in 1 .. Len(bwd'),
               bwd'[i].stream = s, bwd'[i].cmd = "DATA"
        PROVE  Opened(s, i)'
    <3>1. CASE i \in 1 .. Len(bwd)
      <4>1. Opened(s, i)
        BY <2>1, <2>4, <3>1 DEF Answered
      <4> QED BY <2>3, <4>1
    <3>2. CASE i = Len(bwd) + 1
      <4>1. Opened(s, Len(bwd) + 1)
        BY <1>3, <2>1, <2>4, <3>2 DEF Answered
      <4> QED BY <2>3, <3>2, <4>1
    <3> QED BY <2>2, <3>1, <3>2
  <2>5. ASSUME task'[s] # "none" PROVE Opened(s, Len(bwd) + 2)'
    <3>1. CASE task[s] # "none"
      <4>1. Opened(s, Len(bwd) + 1)
        BY <1>3, <3>1 DEF Answered
      <4> QED BY <2>1, <2>2, <4>1 DEF Opened
    <3>2. CASE c.stream = s /\ c.cmd # "DATA"
      BY <2>1, <2>2, <3>2 DEF Opened
    <3> QED BY <2>5, <3>1, <3>2
  <2>6. task'[s] # "none" => Opened(s, Len(bwd) + 1)'
    <3>1. Len(bwd') + 1 = Len(bwd) + 2
      BY <2>2
    <3> QED BY <2>1, <2>2, <2>5, <3>1 DEF Opened
  <2> QED BY <2>4, <2>5, <2>6, <2>2 DEF Answered, Opened
<1> QED BY <1>2, <1>3

LEMMA HandlerFirst ==
  ASSUME AnswerInv, NEW t \in Streams, SelectCircuit(t) \/ HandlerStep(t),
         NEW s \in Streams
  PROVE  FirstInv(s)'
<1>1. /\ UNCHANGED <<pathUp, bwd, conn, held, task, reader>>
  BY DEF HandlerStep, SelectCircuit, RegisterStream, SendBegin,
     SendBeginFails, RecvFirst, ChannelClosed, ConnectedTimeout, SocksReply,
     SocksReplyFails, SocksData, RecvMessage, SocksClose, CleanupEnd,
     CleanupUnregister, exitVars
<1>2. FirstInv(s) /\ TypeOK
  BY DEF AnswerInv, TypeInv
<1>3. ASSUME UNCHANGED <<fwd, rx>>,
             Early(s)' => Early(s), phase'[s] = "waiting" => phase[s] = "waiting"
      PROVE  FirstInv(s)'
  BY <1>1, <1>2, <1>3 DEF FirstInv, Early, Untouched, Answered, Opened
<1>4. ASSUME s # t, rx'[s] = rx[s], phase'[s] = phase[s],
             \/ UNCHANGED fwd
             \/ \E c, d : SendMessage(t, c, d)
      PROVE  FirstInv(s)'
  <2>1. ASSUME Untouched(s) PROVE Untouched(s)'
    <3>1. ASSUME NEW c, NEW d, SendMessage(t, c, d)
          PROVE  \A i \in 1 .. Len(fwd') : fwd'[i].stream # s
      <4>1. Cell(t, c, d, clientFwd + 1).stream = t /\ fwd \in Seq(CellType)
        BY <1>2 DEF Cell, TypeOK
      <4>2. CASE pathUp
        <5>1. fwd' = Append(fwd, Cell(t, c, d, clientFwd + 1))
          BY <3>1, <4>2 DEF SendMessage, Put
        <5> QED BY <1>4, <2>1, <4>1, <5>1 DEF Untouched
      <4>3. CASE ~pathUp
        BY <2>1, <3>1, <4>3 DEF SendMessage, Put, Untouched
      <4> QED BY <4>2, <4>3
    <3> QED BY <1>1, <1>4, <2>1, <3>1 DEF Untouched
  <2>2. Answered(s) => Answered(s)'
    BY <1>1 DEF Answered, Opened
  <2> QED BY <1>1, <1>2, <1>4, <2>1, <2>2 DEF FirstInv, Early
<1>5. ASSUME s = t, ~Early(s)', phase'[s] # "waiting" PROVE FirstInv(s)'
  BY <1>5 DEF FirstInv
<1> USE DEF Step, Early, TypeOK
<1>6. CASE SendBegin(t)
  <2>1. CASE s = t
    <3>1. Untouched(s) /\ phase'[s] = "waiting" /\ rx' = rx
      BY <1>2, <1>6, <2>1 DEF SendBegin, FirstInv
    <3>2. Answered(s)'
      BY <1>1, <3>1 DEF Untouched, Answered, Opened
    <3> QED BY <3>1, <3>2 DEF FirstInv, Untouched
  <2>2. CASE s # t  BY <1>2, <1>4, <1>6, <2>2 DEF SendBegin
  <2> QED BY <2>1, <2>2
<1>7. CASE SendBeginFails(t)
  BY <1>2, <1>4, <1>5, <1>7 DEF SendBeginFails
<1>8. CASE SocksData(t)
  <2>1. /\ phase' = phase \/ phase' = [phase EXCEPT ![t] = "cleanup"]
        /\ phase[t] = "relaying" /\ UNCHANGED rx
        /\ SendMessage(t, "DATA", sent[t] + 1)
    BY <1>8 DEF SocksData
  <2> QED BY <1>2, <1>4, <1>5, <2>1
<1>9. CASE CleanupEnd(t)
  BY <1>2, <1>4, <1>5, <1>9 DEF CleanupEnd
<1>10. CASE RecvFirst(t)
  BY <1>2, <1>4, <1>5, <1>10 DEF RecvFirst
<1>11. CASE RecvMessage(t)
  <2>1. /\ phase' = phase \/ phase' = [phase EXCEPT ![t] = "cleanup"]
        /\ phase[t] = "relaying" /\ UNCHANGED fwd
        /\ rx' = [rx EXCEPT ![t] = Tail(@)]
    BY <1>11 DEF RecvMessage
  <2> QED BY <1>2, <1>4, <1>5, <2>1
<1>12. CASE CleanupUnregister(t)
  BY <1>2, <1>4, <1>5, <1>12 DEF CleanupUnregister
<1>13. CASE SelectCircuit(t) \/ RegisterStream(t)
  BY <1>2, <1>3, <1>13 DEF SelectCircuit, RegisterStream
<1>14. CASE \/ ChannelClosed(t) \/ ConnectedTimeout(t) \/ SocksReply(t)
            \/ SocksReplyFails(t) \/ SocksClose(t)
  BY <1>2, <1>3, <1>14 DEF ChannelClosed, ConnectedTimeout, SocksReply,
     SocksReplyFails, SocksClose
<1> QED
  BY <1>6, <1>7, <1>8, <1>9, <1>10, <1>11, <1>12, <1>13, <1>14
     DEF HandlerStep

LEMMA ReaderFirst ==
  ASSUME AnswerInv, ReaderStep, NEW s \in Streams
  PROVE  FirstInv(s)'
<1>1. UNCHANGED <<phase, pathUp, fwd, conn, held, task>>
  BY DEF ReaderStep, ReadCell, ReadEof, ReadDestroy, ReaderExit, exitVars
<1>2. FirstInv(s) /\ TypeOK
  BY DEF AnswerInv, TypeInv
<1>3. CASE UNCHANGED <<rx, bwd>> /\ reader' # "running"
  BY <1>1, <1>2, <1>3 DEF FirstInv, Early, Untouched
<1>4. CASE ReadCell
  <2> DEFINE c == Head(bwd)
             ok == c.tag = clientBwd + 1
  <2>1. /\ bwd \in Seq(CellType) /\ Len(bwd) \in Nat \ {0} /\ bwd[1] = c
        /\ reader = "running" /\ c \in CellType
    <3>1. bwd \in Seq(CellType) /\ bwd # <<>> /\ reader = "running"
      BY <1>2, <1>4 DEF ReadCell, TypeOK
    <3> QED BY <3>1
  <2>2. /\ Len(bwd') = Len(bwd) - 1
        /\ \A i \in 1 .. Len(bwd') :
             i + 1 \in 1 .. Len(bwd) /\ bwd'[i] = bwd[i + 1]
    BY <1>4, <2>1 DEF ReadCell
  <2>3. /\ ok /\ c.stream \in senders
             => rx' = [rx EXCEPT ![c.stream] = Append(@, c)]
        /\ ~(ok /\ c.stream \in senders) => rx' = rx
        /\ ~ok => reader' = "closing"
    BY <1>4 DEF ReadCell
  <2>4. rx \in [Streams -> Seq(CellType)] /\ c.stream \in Streams
    BY <1>2, <2>1, CellFields DEF TypeOK
  <2> HIDE DEF c, ok
  <2>5. c.stream # s => rx'[s] = rx[s]
    BY <2>3, <2>4
  <2>6. CASE Early(s)
    <3>1. Untouched(s) /\ c.stream # s
      BY <1>2, <2>1, <2>6 DEF FirstInv, Untouched
    <3>2. \A i \in 1 .. Len(bwd') : bwd'[i].stream # s
      BY <2>2, <3>1 DEF Untouched
    <3>3. Untouched(s)'
      BY <1>1, <2>5, <3>1, <3>2 DEF Untouched
    <3>4. phase'[s] # "waiting"
      BY <1>1, <2>6 DEF Early
    <3> QED BY <3>3, <3>4 DEF FirstInv
  <2>7. CASE phase[s] = "waiting"
    <3>1. /\ s \in senders
          /\ rx[s] # <<>> => Head(rx[s]).cmd # "DATA"
          /\ rx[s] = <<>> => Answered(s)
      BY <1>2, <2>1, <2>7 DEF AnswerInv, RoutedWhileOpen, FirstInv
    <3>2. CASE c.stream = s /\ ok
      <4>1. rx'[s] = Append(rx[s], c)
        BY <2>3, <2>4, <3>1, <3>2
      <4>2. rx[s] = <<>> => c.cmd # "DATA"
        <5>1. 1 \in 1 .. Len(bwd) /\ \A j \in 1 .. Len(bwd) : ~(j < 1)
          BY <2>1
        <5> QED BY <2>1, <3>1, <3>2, <5>1 DEF Answered, Opened
      <4>3. rx'[s] # <<>> /\ Head(rx'[s]).cmd # "DATA"
        <5>1. rx[s] \in Seq(CellType) /\ c \in CellType
          BY <2>1, <2>4
        <5>2. /\ rx'[s] # <<>>
              /\ Head(rx'[s]) = IF rx[s] = <<>> THEN c ELSE Head(rx[s])
          BY <4>1, <5>1, AppendProperties, HeadTailAppend
        <5> QED BY <3>1, <4>2, <5>2
      <4> QED BY <1>1, <2>7, <4>3 DEF FirstInv, Early
    <3>3. CASE ~ok
      <4>1. rx'[s] = rx[s] /\ reader' = "closing"
        BY <2>3, <3>3
      <4> QED BY <1>1, <2>7, <3>1, <4>1 DEF FirstInv, Early
    <3>4. CASE c.stream # s
      <4>1. ASSUME Answered(s) PROVE Answered(s)'
        <5>1. ASSUME NEW n \in 1 .. Len(bwd) + 1, Opened(s, n)
              PROVE  \E j \in 1 .. Len(bwd') :
                       /\ j < n - 1
                       /\ bwd'[j].stream = s /\ bwd'[j].cmd # "DATA"
          <6>1. PICK j \in 1 .. Len(bwd) :
                  j < n /\ bwd[j].stream = s /\ bwd[j].cmd # "DATA"
            BY <5>1 DEF Opened
          <6>2. j # 1
            BY <2>1, <3>4, <6>1
          <6>3. /\ j - 1 \in 1 .. Len(bwd') /\ j - 1 < n - 1
                /\ bwd'[j - 1] = bwd[j]
            BY <2>1, <2>2, <5>1, <6>1, <6>2
          <6> QED BY <6>1, <6>3
        <5>2. ASSUME NEW i \in 1 .. Len(bwd'),
                     bwd'[i].stream = s, bwd'[i].cmd = "DATA"
              PROVE  Opened(s, i)'
          <6>1. /\ i + 1 \in 1 .. Len(bwd) /\ bwd'[i] = bwd[i + 1]
                /\ i + 1 \in 1 .. Len(bwd) + 1 /\ (i + 1) - 1 = i
            BY <2>1, <2>2
          <6>2. Opened(s, i + 1)
            BY <4>1, <5>2, <6>1 DEF Answered
          <6> QED BY <5>1, <6>1, <6>2 DEF Opened
        <5>3. ASSUME pathUp', task'[s] # "none"
              PROVE  \E j \in 1 .. Len(bwd') :
                       /\ j < Len(bwd') + 1
                       /\ bwd'[j].stream = s /\ bwd'[j].cmd # "DATA"
          <6>1. Opened(s, Len(bwd) + 1)
            BY <1>1, <4>1, <5>3 DEF Answered
          <6>2. /\ Len(bwd) + 1 \in 1 .. Len(bwd) + 1
                /\ (Len(bwd) + 1) - 1 = Len(bwd') + 1
            BY <2>1, <2>2
          <6> QED BY <5>1, <6>1, <6>2
        <5> QED BY <5>2, <5>3 DEF Answered, Opened
      <4> QED BY <1>1, <2>5, <2>7, <3>1, <3>4, <4>1 DEF FirstInv, Early
    <3> QED BY <3>2, <3>3, <3>4
  <2>8. CASE ~Early(s) /\ phase[s] # "waiting"
    BY <1>1, <2>8 DEF FirstInv, Early
  <2> QED BY <2>6, <2>7, <2>8
<1> QED
  BY <1>3, <1>4 DEF ReaderStep, ReadEof, ReadDestroy, ReaderExit

LEMMA ConnFirst ==
  ASSUME AnswerInv, ConnStep \/ ConnEof
  PROVE  /\ conn' = "replying" => held'.cmd = "END"
         /\ \A s \in Streams : FirstInv(s)'
<1>1. UNCHANGED <<phase, rx, reader, pathUp>>
  BY DEF ConnStep, HandleBegin, HandleData, HandleEnd, ConnectOk,
     ConnectedWriteFails, ConnectFails, WriteReply, ConnEof, clientVars
<1>2. /\ TypeInv /\ TypeOK /\ fwd \in Seq(CellType) /\ bwd \in Seq(CellType)
      /\ \A s \in Streams : FirstInv(s)
  BY DEF AnswerInv, TypeInv, TypeOK
<1>3. ASSUME UNCHANGED <<bwd, task>>,
             fwd' = fwd \/ (fwd # <<>> /\ fwd' = Tail(fwd)),
             conn' \in {"connecting", "replying"} =>
               \/ held'.stream = held.stream /\ conn = "connecting"
               \/ fwd # <<>> /\ held'.stream = Head(fwd).stream,
             NEW s \in Streams
      PROVE  FirstInv(s)'
  <2>1. ASSUME Untouched(s) PROVE Untouched(s)'
    <3>1. fwd # <<>> => Head(fwd).stream # s
      BY <1>2, <2>1 DEF Untouched
    <3>2. \A i \in 1 .. Len(fwd') : fwd'[i].stream # s
      BY <1>2, <1>3, <2>1 DEF Untouched
    <3> QED BY <1>1, <1>3, <2>1, <3>1, <3>2 DEF Untouched
  <2>2. Answered(s) => Answered(s)'
    BY <1>1, <1>3 DEF Answered, Opened
  <2> QED BY <1>1, <1>2, <2>1, <2>2 DEF FirstInv, Early
<1>4. ASSUME NEW c \in CellType, bwd' = Put(bwd, c), c.cmd # "DATA",
             c = held \/ c.stream = held.stream,
             conn \in {"connecting", "replying"},
             conn' \notin {"connecting", "replying"}, UNCHANGED fwd,
             task' = task \/ task' = [task EXCEPT ![c.stream] = "running"],
             NEW s \in Streams
      PROVE  FirstInv(s)'
  <2>1. ASSUME Untouched(s) PROVE Untouched(s)'
    <3>1. c.stream # s
      BY <1>4, <2>1 DEF Untouched
    <3>2. \A i \in 1 .. Len(bwd') : bwd'[i].stream # s
      BY <1>2, <1>4, <2>1, <3>1 DEF Untouched, Put
    <3>3. task'[s] = task[s]
      BY <1>2, <1>4, <3>1 DEF TypeOK
    <3> QED BY <1>1, <1>4, <2>1, <3>2, <3>3 DEF Untouched
  <2>2. task'[s] = task[s] \/ c.stream = s
    BY <1>2, <1>4 DEF TypeOK
  <2>3. Answered(s) => Answered(s)'
    BY <1>1, <1>2, <1>4, <2>2, PutAnswers
  <2> QED BY <1>1, <1>2, <2>1, <2>3 DEF FirstInv, Early
<1>5. ASSUME NEW t, TagEnd(t)
      PROVE  conn' = "replying" /\ held'.cmd = "END" /\ held'.stream = t
  BY <1>5 DEF TagEnd, Cell
<1>6. CASE HandleBegin
  BY <1>2, <1>3, <1>6 DEF HandleBegin, Accept, Mismatch
<1>7. CASE HandleData
  <2>1. /\ UNCHANGED <<bwd, task>> /\ conn = "idle" /\ fwd # <<>>
        /\ fwd' = Tail(fwd)
    BY <1>7 DEF HandleData, Accept
  <2>2. \/ conn' \notin {"connecting", "replying"}
        \/ TagEnd(Head(fwd).stream)
    BY <1>7, <2>1, Zenon DEF HandleData, Mismatch
  <2> QED BY <1>3, <1>5, <2>1, <2>2
<1>8. CASE HandleEnd
  <2>1. /\ UNCHANGED <<bwd, task>> /\ conn = "idle" /\ fwd # <<>>
        /\ fwd' = Tail(fwd)
    BY <1>8 DEF HandleEnd, Accept
  <2>2. \/ conn' \notin {"connecting", "replying"}
        \/ TagEnd(Head(fwd).stream)
    BY <1>8 DEF HandleEnd, Mismatch
  <2> QED BY <1>3, <1>5, <2>1, <2>2
<1>9. CASE ConnectOk
  <2> DEFINE c == Cell(held.stream, "CONNECTED", 0, exitBwd + 1)
  <2>1. held.stream \in Streams /\ exitBwd \in Nat
    BY <1>2, <1>9, CellFields DEF ConnectOk, TypeInv, TypeOK
  <2>2. c \in CellType /\ c.cmd = "CONNECTED" /\ c.stream = held.stream
    BY <2>1, CellTyped DEF Commands, Cell
  <2>3. /\ bwd' = Put(bwd, c) /\ conn = "connecting" /\ conn' = "idle"
        /\ UNCHANGED fwd /\ task' = [task EXCEPT ![held.stream] = "running"]
    BY <1>9 DEF ConnectOk
  <2> HIDE DEF c
  <2> QED BY <1>4, <2>2, <2>3
<1>10. CASE WriteReply
  <2>1. /\ held \in CellType /\ held.cmd = "END" /\ conn = "replying"
        /\ bwd' = Put(bwd, held) /\ conn' \notin {"connecting", "replying"}
        /\ UNCHANGED <<fwd, task>>
    BY <1>2, <1>10 DEF WriteReply, AnswerInv, TypeInv
  <2> QED BY <1>4, <2>1
<1>11. CASE ConnectFails
  BY <1>3, <1>5, <1>11 DEF ConnectFails
<1>12. CASE ConnectedWriteFails \/ ConnEof
  BY <1>3, <1>12 DEF ConnectedWriteFails, ConnEof
<1> QED
  BY <1>6, <1>7, <1>8, <1>9, <1>10, <1>11, <1>12 DEF ConnStep

LEMMA TaskFirst ==
  ASSUME AnswerInv, NEW t \in Streams, TaskStep(t), NEW s \in Streams
  PROVE  FirstInv(s)'
<1>1. /\ UNCHANGED <<phase, rx, reader, pathUp, fwd, conn, held>>
      /\ task[t] = "running"
  BY DEF TaskStep, TaskData, TaskEnd, TaskForward, TaskDropped, clientVars
<1>2. /\ FirstInv(s) /\ TypeInv /\ TypeOK /\ bwd \in Seq(CellType)
      /\ exitBwd \in Nat /\ destSent[t] \in Nat
  BY DEF AnswerInv, TypeInv, TypeOK
<1>3. ASSUME task' = task \/ task' = [task EXCEPT ![t] = "finished"],
             NEW c \in CellType, c.stream = t,
             UNCHANGED bwd \/ bwd' = Put(bwd, c)
      PROVE  FirstInv(s)'
  <2>1. /\ s # t => task'[s] = task[s]
        /\ task'[s] = "none" <=> task[s] = "none"
    BY <1>1, <1>2, <1>3 DEF TypeOK
  <2>2. ASSUME Untouched(s) PROVE Untouched(s)'
    <3>1. s # t
      BY <1>1, <2>2 DEF Untouched
    <3>2. \A i \in 1 .. Len(bwd') : bwd'[i].stream # s
      BY <1>2, <1>3, <2>2, <3>1 DEF Untouched, Put
    <3> QED BY <1>1, <2>1, <2>2, <3>1, <3>2 DEF Untouched
  <2>3. ASSUME Answered(s) PROVE Answered(s)'
    <3>1. CASE UNCHANGED bwd
      BY <1>1, <2>1, <2>3, <3>1 DEF Answered, Opened
    <3>2. CASE bwd' = Put(bwd, c)
      BY <1>1, <1>2, <1>3, <2>1, <2>3, <3>2, PutAnswers
    <3> QED BY <1>3, <3>1, <3>2
  <2> QED BY <1>1, <1>2, <2>2, <2>3 DEF FirstInv, Early
<1>4. CASE TaskData(t)
  <2> DEFINE c == Cell(t, "DATA", destSent[t] + 1, exitBwd + 1)
  <2>1. c \in CellType /\ c.stream = t
    BY <1>2, CellTyped DEF Commands, Cell
  <2>2. /\ bwd' = Put(bwd, c)
        /\ task' = task \/ task' = [task EXCEPT ![t] = "finished"]
    BY <1>4 DEF TaskData
  <2> HIDE DEF c
  <2> QED BY <1>3, <2>1, <2>2
<1>5. CASE TaskEnd(t)
  <2> DEFINE c == Cell(t, "END", 0, exitBwd + 1)
  <2>1. c \in CellType /\ c.stream = t
    BY <1>2, CellTyped DEF Commands, Cell
  <2>2. bwd' = Put(bwd, c) /\ task' = [task EXCEPT ![t] = "finished"]
    BY <1>5 DEF TaskEnd
  <2> HIDE DEF c
  <2> QED BY <1>3, <2>1, <2>2
<1>6. CASE TaskForward(t) \/ TaskDropped(t)
  <2>1. Cell(t, "END", 0, exitBwd + 1) \in CellType
    BY <1>2, CellTyped DEF Commands
  <2>2. Cell(t, "END", 0, exitBwd + 1).stream = t
    BY DEF Cell
  <2>3. /\ UNCHANGED bwd
        /\ task' = task \/ task' = [task EXCEPT ![t] = "finished"]
    BY <1>6 DEF TaskForward, TaskDropped
  <2> QED BY <1>3, <2>1, <2>2, <2>3
<1> QED BY <1>4, <1>5, <1>6 DEF TaskStep

\* What is lost when the path breaks was last: what is left is still
\* answered, and nothing is written any more.
LEMMA BreakFirst ==
  ASSUME AnswerInv, PathBreaks, NEW s \in Streams
  PROVE  FirstInv(s)'
<1>1. /\ UNCHANGED <<phase, rx, reader, conn, held, task>> /\ pathUp' = FALSE
  BY DEF PathBreaks, clientVars, exitVars
<1>2. FirstInv(s) /\ fwd \in Seq(CellType) /\ bwd \in Seq(CellType)
  BY DEF AnswerInv, TypeInv, TypeOK
<1>3. /\ Len(fwd') <= Len(fwd) /\ Len(fwd') \in Nat
      /\ \A i \in 1 .. Len(fwd') : i \in 1 .. Len(fwd) /\ fwd'[i] = fwd[i]
  <2>1. PICK k \in 0 .. Len(fwd) : fwd' = SubSeq(fwd, 1, k)
    BY DEF PathBreaks
  <2> QED BY <1>2, <2>1
<1>4. /\ Len(bwd') <= Len(bwd) /\ Len(bwd') \in Nat /\ Len(bwd) \in Nat
      /\ \A i \in 1 .. Len(bwd') : i \in 1 .. Len(bwd) /\ bwd'[i] = bwd[i]
  <2>1. PICK k \in 0 .. Len(bwd) : bwd' = SubSeq(bwd, 1, k)
    BY DEF PathBreaks
  <2> QED BY <1>2, <2>1
<1>5. Untouched(s) => Untouched(s)'
  BY <1>1, <1>3, <1>4 DEF Untouched
<1>6. ASSUME Answered(s) PROVE Answered(s)'
  <2>1. ASSUME NEW i \in 1 .. Len(bwd'),
               bwd'[i].stream = s, bwd'[i].cmd = "DATA"
        PROVE  Opened(s, i)'
    <3>1. PICK j \in 1 .. Len(bwd) :
            j < i /\ bwd[j].stream = s /\ bwd[j].cmd # "DATA"
      BY <1>4, <1>6, <2>1 DEF Answered, Opened
    <3>2. j \in 1 .. Len(bwd')
      BY <1>4, <3>1
    <3> QED BY <1>4, <3>1, <3>2 DEF Opened
  <2> QED BY <1>1, <2>1 DEF Answered
<1> QED BY <1>1, <1>2, <1>5, <1>6 DEF FirstInv, Early

LEMMA AnswerStart ==
  ASSUME Init
  PROVE  AnswerInv
<1>1. TypeInv /\ RoutedWhileOpen
  BY DEF Init, TypeInv, TypeOK, Phases, RoutedWhileOpen
<1>2. /\ Len(fwd) = 0 /\ Len(bwd) = 0 /\ conn = "idle"
      /\ \A s \in Streams : phase[s] = "idle" /\ task[s] = "none"
                            /\ rx[s] = <<>>
  BY DEF Init
<1> QED BY <1>1, <1>2 DEF AnswerInv, FirstInv, Untouched

LEMMA AnswerStep ==
  ASSUME AnswerInv, [Next]_vars
  PROVE  AnswerInv'
<1>1. TypeInv' /\ RoutedWhileOpen'
  BY StepTyped, StepRoutes DEF AnswerInv
<1>2. SUFFICES /\ conn' = "replying" => held'.cmd = "END"
               /\ \A s \in Streams : FirstInv(s)'
  BY <1>1 DEF AnswerInv
<1>3. conn = "replying" => held.cmd = "END"
  BY DEF AnswerInv
<1>4. ASSUME NEW t \in Streams, SelectCircuit(t) \/ HandlerStep(t)
      PROVE  UNCHANGED <<conn, held>> /\ \A s \in Streams : FirstInv(s)'
  <2>1. UNCHANGED <<conn, held>>
    BY <1>4 DEF HandlerStep, SelectCircuit, RegisterStream, SendBegin,
       SendBeginFails, RecvFirst, ChannelClosed, ConnectedTimeout,
       SocksReply, SocksReplyFails, SocksData, RecvMessage, SocksClose,
       CleanupEnd, CleanupUnregister, exitVars
  <2> QED BY <1>4, <2>1, HandlerFirst
<1>5. ASSUME NEW t \in Streams, TaskStep(t)
      PROVE  UNCHANGED <<conn, held>> /\ \A s \in Streams : FirstInv(s)'
  <2>1. UNCHANGED <<conn, held>>
    BY <1>5 DEF TaskStep, TaskData, TaskEnd, TaskForward, TaskDropped
  <2> QED BY <1>5, <2>1, TaskFirst
<1>6. CASE ReaderStep
  <2>1. UNCHANGED <<conn, held>>
    BY <1>6 DEF ReaderStep, ReadCell, ReadEof, ReadDestroy, ReaderExit,
       exitVars
  <2> QED BY <1>3, <1>6, <2>1, ReaderFirst
<1>7. CASE ConnStep \/ ConnEof  BY <1>7, ConnFirst
<1>8. CASE PathBreaks
  <2>1. UNCHANGED <<conn, held>>
    BY <1>8 DEF PathBreaks, exitVars
  <2> QED BY <1>3, <1>8, <2>1, BreakFirst
<1>9. CASE UNCHANGED vars
  BY <1>9 DEF vars, clientVars, exitVars, AnswerInv, FirstInv, Early,
     Untouched, Answered, Opened
<1> QED BY <1>3, <1>4, <1>5, <1>6, <1>7, <1>8, <1>9 DEF Next

\* handle_stream never takes DATA for the answer to its BEGIN: the exit
\* writes CONNECTED before the stream's task exists, and nothing on the way
\* turns them round.
THEOREM AnswersComeFirst == Spec => []AnswerComesFirst
<1>1. Init => AnswerInv
  BY AnswerStart
<1>2. AnswerInv /\ [Next]_vars => AnswerInv'
  BY AnswerStep
<1>3. AnswerInv => AnswerComesFirst
  BY DEF AnswerInv, FirstInv, AnswerComesFirst
<1> QED BY <1>1, <1>2, <1>3, PTL DEF Spec
-----------------------------------------------------------------------------
(* A circuit keeps the promise of StreamPipes: Spec implements Pipes!Spec. *)
(* Each of the two ways of a stream is a few queues in a row; what lies in *)
(* them is numbered without a gap from the last payload that came out to   *)
(* the last one written (Line, Full).  Only the parts that can still be    *)
(* read matter: the stream's task as long as it runs, the handler as long  *)
(* as it listens.                                                          *)

Data(c, s) == c.stream = s /\ c.cmd = "DATA"

\* The payloads of s in q are m + 1, m + 2 and so on, at most to n.
Line(q, s, m, n) ==
  \A i \in 1 .. Len(q) : Data(q[i], s) =>
    /\ m < q[i].data /\ q[i].data <= n
    /\ \/ q[i].data = m + 1
       \/ \E j \in 1 .. Len(q) : /\ j < i /\ Data(q[j], s)
                                 /\ q[j].data + 1 = q[i].data
    /\ \A j \in 1 .. Len(q) : j < i /\ Data(q[j], s) => q[j].data < q[i].data

\* They are the payloads m + 1 to n.
Full(q, s, m, n) ==
  /\ Line(q, s, m, n)
  /\ n = m \/ \E i \in 1 .. Len(q) : Data(q[i], s) /\ q[i].data = n

LEMMA FullAppend ==
  ASSUME NEW q \in Seq(CellType), NEW c \in CellType, NEW s,
         NEW m \in Nat, NEW n \in Nat, Full(q, s, m, n)
  PROVE  /\ ~Data(c, s) => Full(Append(q, c), s, m, n)
         /\ Data(c, s) /\ c.data = n + 1 /\ m <= n =>
              Full(Append(q, c), s, m, n + 1)
<1> DEFINE r == Append(q, c)
<1>1. /\ Len(q) \in Nat /\ Len(r) = Len(q) + 1 /\ r[Len(q) + 1] = c
      /\ \A i \in 1 .. Len(q) : r[i] = q[i]
  OBVIOUS
<1>2. /\ 1 .. Len(r) = (1 .. Len(q)) \union {Len(q) + 1}
      /\ \A i \in 1 .. Len(q) : i < Len(q) + 1 /\ ~(Len(q) + 1 < i)
      /\ Len(q) + 1 \notin 1 .. Len(q)
  BY <1>1
<1>3. \A i \in 1 .. Len(q) : q[i] \in CellType /\ q[i].data \in Nat
  BY CellFields
<1> HIDE DEF r
<1>4. ASSUME ~Data(c, s) PROVE Full(r, s, m, n)
  BY <1>1, <1>2, <1>4 DEF Full, Line
<1>5. ASSUME Data(c, s), c.data = n + 1, m <= n
      PROVE  Full(r, s, m, n + 1)
  <2>1. ASSUME NEW i \in 1 .. Len(q), Data(r[i], s)
        PROVE  /\ m < r[i].data /\ r[i].data <= n + 1
               /\ \/ r[i].data = m + 1
                  \/ \E j \in 1 .. Len(r) : /\ j < i /\ Data(r[j], s)
                                            /\ r[j].data + 1 = r[i].data
               /\ \A j \in 1 .. Len(r) :
                    j < i /\ Data(r[j], s) => r[j].data < r[i].data
    <3>1. /\ r[i] = q[i] /\ m < q[i].data /\ q[i].data <= n
          /\ \/ q[i].data = m + 1
             \/ \E j \in 1 .. Len(q) : /\ j < i /\ Data(q[j], s)
                                       /\ q[j].data + 1 = q[i].data
          /\ \A j \in 1 .. Len(q) :
               j < i /\ Data(q[j], s) => q[j].data < q[i].data
      BY <1>1, <2>1 DEF Full, Line
    <3>2. r[i].data <= n + 1
      BY <1>3, <3>1
    <3> QED BY <1>1, <1>2, <3>1, <3>2
  <2>2. /\ m < n + 1
        /\ \/ n + 1 = m + 1
           \/ \E j \in 1 .. Len(r) : /\ j < Len(q) + 1 /\ Data(r[j], s)
                                     /\ r[j].data + 1 = n + 1
        /\ \A j \in 1 .. Len(r) :
             j < Len(q) + 1 /\ Data(r[j], s) => r[j].data < n + 1
    <3>1. ASSUME NEW j \in 1 .. Len(q), Data(q[j], s) PROVE q[j].data < n + 1
      BY <1>3, <3>1 DEF Full, Line
    <3>2. n = m \/ \E j \in 1 .. Len(q) : Data(q[j], s) /\ q[j].data = n
      BY DEF Full
    <3> QED BY <1>1, <1>2, <1>5, <3>1, <3>2
  <2>3. Line(r, s, m, n + 1)
    BY <1>1, <1>2, <1>5, <2>1, <2>2 DEF Line
  <2> QED BY <1>1, <1>2, <1>5, <2>3 DEF Full
<1> QED BY <1>4, <1>5 DEF r

LEMMA LineTail ==
  ASSUME NEW q \in Seq(CellType), q # <<>>, NEW s,
         NEW m \in Nat, NEW n \in Nat, Line(q, s, m, n)
  PROVE  /\ ~Data(Head(q), s) => /\ Line(Tail(q), s, m, n)
                                 /\ Full(q, s, m, n) => Full(Tail(q), s, m, n)
         /\ Data(Head(q), s) =>
              /\ Head(q).data = m + 1 /\ m + 1 <= n
              /\ Line(Tail(q), s, m + 1, n)
              /\ Full(q, s, m, n) => Full(Tail(q), s, m + 1, n)
<1> DEFINE r == Tail(q)
<1>1. /\ Len(q) \in Nat /\ Len(q) >= 1 /\ Len(r) = Len(q) - 1
      /\ Head(q) = q[1] /\ \A i \in 1 .. Len(r) : r[i] = q[i + 1]
  OBVIOUS
<1>2. /\ \A i \in 1 .. Len(r) : i \in Nat /\ i + 1 \in 1 .. Len(q) /\ 1 < i + 1
      /\ \A i \in 1 .. Len(q) : i \in Nat /\ ~(i < 1)
      /\ \A i \in 1 .. Len(q) :
           i = 1 \/ (i - 1 \in 1 .. Len(r) /\ i = (i - 1) + 1)
      /\ \A i, j \in 1 .. Len(r) : i < j <=> i + 1 < j + 1
      /\ 1 \in 1 .. Len(q)
  BY <1>1
<1>3. \A i \in 1 .. Len(q) : q[i] \in CellType /\ q[i].data \in Nat
  BY CellFields
<1> HIDE DEF r
<1>4. ASSUME NEW i \in 1 .. Len(r), Data(r[i], s)
      PROVE  /\ r[i] = q[i + 1] /\ m < r[i].data /\ r[i].data <= n
             /\ r[i].data \in Nat
             /\ \/ r[i].data = m + 1
                \/ Data(q[1], s) /\ q[1].data + 1 = r[i].data
                \/ \E j \in 1 .. Len(r) : /\ j < i /\ Data(r[j], s)
                                          /\ r[j].data + 1 = r[i].data
             /\ Data(q[1], s) => q[1].data < r[i].data
             /\ \A j \in 1 .. Len(r) :
                  j < i /\ Data(r[j], s) => r[j].data < r[i].data
  <2>1. r[i] = q[i + 1] /\ i + 1 \in 1 .. Len(q)
    BY <1>1, <1>2
  <2>2. /\ m < q[i + 1].data /\ q[i + 1].data <= n
        /\ \/ q[i + 1].data = m + 1
           \/ \E j \in 1 .. Len(q) : /\ j < i + 1 /\ Data(q[j], s)
                                     /\ q[j].data + 1 = q[i + 1].data
        /\ \A j \in 1 .. Len(q) :
             j < i + 1 /\ Data(q[j], s) => q[j].data < q[i + 1].data
    BY <1>4, <2>1 DEF Line
  <2>3. ASSUME NEW j \in 1 .. Len(q), j < i + 1, Data(q[j], s),
               q[j].data + 1 = r[i].data, j # 1
        PROVE  \E k \in 1 .. Len(r) : /\ k < i /\ Data(r[k], s)
                                      /\ r[k].data + 1 = r[i].data
    <3>1. j - 1 \in 1 .. Len(r) /\ j - 1 < i /\ r[j - 1] = q[j]
      BY <1>1, <1>2, <2>3
    <3> QED BY <2>3, <3>1
  <2>4. ASSUME NEW j \in 1 .. Len(r), j < i, Data(r[j], s)
        PROVE  r[j].data < r[i].data
    BY <1>1, <1>2, <2>1, <2>2, <2>4
  <2> QED BY <1>2, <1>3, <2>1, <2>2, <2>3, <2>4
<1>5. ASSUME ~Data(Head(q), s)
      PROVE  Line(r, s, m, n) /\ (Full(q, s, m, n) => Full(r, s, m, n))
  <2>1. ~Data(q[1], s)
    BY <1>1, <1>5
  <2>2. Line(r, s, m, n)
    BY <1>4, <2>1 DEF Line
  <2>3. ASSUME NEW i \in 1 .. Len(q), Data(q[i], s), q[i].data = n
        PROVE  \E k \in 1 .. Len(r) : Data(r[k], s) /\ r[k].data = n
    <3>1. i # 1
      BY <2>1, <2>3
    <3>2. i - 1 \in 1 .. Len(r) /\ r[i - 1] = q[i]
      BY <1>1, <1>2, <3>1
    <3> QED BY <2>3, <3>2
  <2> QED BY <2>2, <2>3 DEF Full
<1>6. ASSUME Data(Head(q), s)
      PROVE  /\ Head(q).data = m + 1 /\ m + 1 <= n
             /\ Line(r, s, m + 1, n)
             /\ Full(q, s, m, n) => Full(r, s, m + 1, n)
  <2>1. q[1].data = m + 1 /\ q[1].data <= n
    BY <1>1, <1>2, <1>6 DEF Line
  <2>2. Line(r, s, m + 1, n)
    <3>1. ASSUME NEW i \in 1 .. Len(r), Data(r[i], s)
          PROVE  /\ m + 1 < r[i].data /\ r[i].data <= n
                 /\ \/ r[i].data = (m + 1) + 1
                    \/ \E j \in 1 .. Len(r) : /\ j < i /\ Data(r[j], s)
                                              /\ r[j].data + 1 = r[i].data
                 /\ \A j \in 1 .. Len(r) :
                      j < i /\ Data(r[j], s) => r[j].data < r[i].data
      <4>1. Data(q[1], s)
        BY <1>1, <1>6
      <4>2. /\ q[1].data < r[i].data /\ r[i].data <= n /\ r[i].data \in Nat
            /\ \/ r[i].data = m + 1
               \/ q[1].data + 1 = r[i].data
               \/ \E j \in 1 .. Len(r) : /\ j < i /\ Data(r[j], s)
                                         /\ r[j].data + 1 = r[i].data
            /\ \A j \in 1 .. Len(r) :
                 j < i /\ Data(r[j], s) => r[j].data < r[i].data
        BY <1>4, <3>1, <4>1
      <4>3. m + 1 < r[i].data /\ r[i].data # m + 1
        BY <2>1, <4>2
      <4> QED BY <2>1, <4>2, <4>3
    <3> QED BY <3>1 DEF Line
  <2>3. ASSUME NEW i \in 1 .. Len(q), Data(q[i], s), q[i].data = n, n # m + 1
        PROVE  \E k \in 1 .. Len(r) : Data(r[k], s) /\ r[k].data = n
    <3>1. i # 1
      BY <2>1, <2>3
    <3>2. i - 1 \in 1 .. Len(r) /\ r[i - 1] = q[i]
      BY <1>1, <1>2, <3>1
    <3> QED BY <2>3, <3>2
  <2>4. Full(q, s, m, n) => Full(r, s, m + 1, n)
    <3>1. n # m
      BY <2>1
    <3> SUFFICES ASSUME Full(q, s, m, n) PROVE Full(r, s, m + 1, n)
      OBVIOUS
    <3>2. PICK i \in 1 .. Len(q) : Data(q[i], s) /\ q[i].data = n
      BY <3>1 DEF Full
    <3>3. n = m + 1 \/ \E k \in 1 .. Len(r) : Data(r[k], s) /\ r[k].data = n
      BY <2>3, <3>2
    <3> QED BY <2>2, <3>3 DEF Full
  <2> QED BY <1>1, <2>1, <2>2, <2>4
<1> QED BY <1>5, <1>6 DEF r

LEMMA LineCut ==
  ASSUME NEW q \in Seq(CellType), NEW s, NEW m \in Nat, NEW n \in Nat,
         Line(q, s, m, n), NEW k \in 0 .. Len(q)
  PROVE  Line(SubSeq(q, 1, k), s, m, n)
<1>1. /\ Len(SubSeq(q, 1, k)) = k
      /\ \A i \in 1 .. k : i \in 1 .. Len(q) /\ SubSeq(q, 1, k)[i] = q[i]
  OBVIOUS
<1>2. \A i \in 1 .. k, j \in 1 .. Len(q) : j < i => j \in 1 .. k
  OBVIOUS
<1> QED BY <1>1, <1>2 DEF Line

LEMMA LineWiden ==
  ASSUME NEW q \in Seq(CellType), NEW s, NEW m \in Nat, NEW n \in Nat,
         Line(q, s, m, n)
  PROVE  Line(q, s, m, n + 1)
<1>1. \A i \in 1 .. Len(q) : q[i].data \in Nat
  BY CellFields
<1>2. ASSUME NEW i \in 1 .. Len(q), Data(q[i], s)
      PROVE  q[i].data <= n + 1
  BY <1>1, <1>2 DEF Line
<1> QED BY <1>2 DEF Line

\* A queue of a path: complete as long as the path is up.
Carries(up, q, s, m, n) ==
  m <= n /\ Line(q, s, m, n) /\ (up => Full(q, s, m, n))

LEMMA CarriesPut ==
  ASSUME NEW up \in BOOLEAN, NEW q \in Seq(CellType), NEW c \in CellType,
         NEW s, NEW m \in Nat, NEW n \in Nat, Carries(up, q, s, m, n),
         NEW r, r = IF up THEN Append(q, c) ELSE q
  PROVE  /\ ~Data(c, s) => Carries(up, r, s, m, n)
         /\ Data(c, s) /\ c.data = n + 1 => Carries(up, r, s, m, n + 1)
<1>1. CASE up
  <2>1. Full(q, s, m, n) /\ m <= n /\ m <= n + 1
    BY <1>1 DEF Carries
  <2>2. /\ ~Data(c, s) => Full(r, s, m, n)
        /\ Data(c, s) /\ c.data = n + 1 => Full(r, s, m, n + 1)
    BY <1>1, <2>1, FullAppend
  <2> QED BY <2>1, <2>2 DEF Carries, Full
<1>2. CASE ~up
  <2>1. Line(r, s, m, n) /\ Line(r, s, m, n + 1) /\ m <= n /\ m <= n + 1
    BY <1>2, LineWiden DEF Carries
  <2> QED BY <1>2, <2>1 DEF Carries
<1> QED BY <1>1, <1>2

LEMMA CarriesTail ==
  ASSUME NEW up \in BOOLEAN, NEW q \in Seq(CellType), q # <<>>, NEW s,
         NEW m \in Nat, NEW n \in Nat, Carries(up, q, s, m, n)
  PROVE  /\ ~Data(Head(q), s) => Carries(up, Tail(q), s, m, n)
         /\ Data(Head(q), s) => /\ Head(q).data = m + 1 /\ m + 1 <= n
                                /\ Carries(up, Tail(q), s, m + 1, n)
<1>1. m <= n /\ Line(q, s, m, n) /\ (up => Full(q, s, m, n))
  BY DEF Carries
<1>2. /\ ~Data(Head(q), s) => /\ Line(Tail(q), s, m, n)
                              /\ Full(q, s, m, n) => Full(Tail(q), s, m, n)
      /\ Data(Head(q), s) =>
           /\ Head(q).data = m + 1 /\ m + 1 <= n
           /\ Line(Tail(q), s, m + 1, n)
           /\ Full(q, s, m, n) => Full(Tail(q), s, m + 1, n)
  BY <1>1, LineTail
<1> QED BY <1>1, <1>2 DEF Carries

LEMMA CarriesCut ==
  ASSUME NEW up, NEW q \in Seq(CellType), NEW s, NEW m \in Nat, NEW n \in Nat,
         Carries(up, q, s, m, n), NEW k \in 0 .. Len(q)
  PROVE  Carries(FALSE, SubSeq(q, 1, k), s, m, n)
BY LineCut DEF Carries

-----------------------------------------------------------------------------
(* The way up: handle_stream, fwd, the handler's queue, the task.          *)

Begin(c, s) == c.stream = s /\ c.cmd = "BEGIN"
HasBegin(q, s) == \E i \in 1 .. Len(q) : Begin(q[i], s)

\* The BEGIN of s is the first of its cells.
BeginsFirst(q, s) ==
  \A i, j \in 1 .. Len(q) :
    Begin(q[i], s) /\ q[j].stream = s /\ i # j => i < j /\ ~Begin(q[j], s)

LEMMA BeginAppend ==
  ASSUME NEW q \in Seq(CellType), NEW c \in CellType, NEW s, BeginsFirst(q, s),
         Begin(c, s) => \A i \in 1 .. Len(q) : q[i].stream # s
  PROVE  /\ BeginsFirst(Append(q, c), s)
         /\ HasBegin(Append(q, c), s) <=> HasBegin(q, s) \/ Begin(c, s)
<1> DEFINE r == Append(q, c)
<1>1. /\ r[Len(q) + 1] = c /\ \A i \in 1 .. Len(q) : r[i] = q[i]
      /\ 1 .. Len(r) = (1 .. Len(q)) \union {Len(q) + 1}
      /\ \A i \in 1 .. Len(q) : i < Len(q) + 1
  OBVIOUS
<1> HIDE DEF r
<1>2. HasBegin(r, s) <=> HasBegin(q, s) \/ Begin(c, s)
  BY <1>1 DEF HasBegin
<1>3. BeginsFirst(r, s)
  <2> SUFFICES ASSUME NEW i \in 1 .. Len(r), NEW j \in 1 .. Len(r),
                      Begin(r[i], s), r[j].stream = s, i # j
               PROVE  i < j /\ ~Begin(r[j], s)
    BY DEF BeginsFirst
  <2>1. CASE i \in 1 .. Len(q)
    BY <1>1, <2>1 DEF BeginsFirst, Begin
  <2>2. CASE i = Len(q) + 1
    BY <1>1, <2>2 DEF Begin
  <2> QED BY <1>1, <2>1, <2>2
<1> QED BY <1>2, <1>3 DEF r

LEMMA BeginTail ==
  ASSUME NEW q \in Seq(CellType), q # <<>>, NEW s, BeginsFirst(q, s)
  PROVE  /\ BeginsFirst(Tail(q), s)
         /\ HasBegin(q, s) <=> HasBegin(Tail(q), s) \/ Begin(Head(q), s)
         /\ Head(q).stream = s => ~HasBegin(Tail(q), s)
<1> DEFINE r == Tail(q)
<1>1. /\ Head(q) = q[1] /\ 1 \in 1 .. Len(q)
      /\ \A i \in 1 .. Len(r) : r[i] = q[i + 1] /\ i + 1 \in 1 .. Len(q)
      /\ \A i \in 1 .. Len(q) :
           i = 1 \/ (i - 1 \in 1 .. Len(r) /\ r[i - 1] = q[i])
      /\ \A i \in 1 .. Len(r) : ~(i + 1 < 1) /\ i + 1 # 1
      /\ \A i, j \in 1 .. Len(r) : /\ i < j <=> i + 1 < j + 1
                                   /\ i = j <=> i + 1 = j + 1
  OBVIOUS
<1> HIDE DEF r
<1>2. HasBegin(q, s) <=> HasBegin(r, s) \/ Begin(q[1], s)
  BY <1>1 DEF HasBegin
<1>3. BeginsFirst(r, s)
  <2> SUFFICES ASSUME NEW i \in 1 .. Len(r), NEW j \in 1 .. Len(r),
                      Begin(r[i], s), r[j].stream = s, i # j
               PROVE  i < j /\ ~Begin(r[j], s)
    BY DEF BeginsFirst
  <2>1. /\ i + 1 \in 1 .. Len(q) /\ r[i] = q[i + 1]
        /\ j + 1 \in 1 .. Len(q) /\ r[j] = q[j + 1] /\ i + 1 # j + 1
    BY <1>1
  <2>2. i + 1 < j + 1 /\ ~Begin(q[j + 1], s)
    BY <2>1 DEF BeginsFirst
  <2> QED BY <1>1, <2>1, <2>2
<1>4. q[1].stream = s => ~HasBegin(r, s)
  BY <1>1 DEF HasBegin, BeginsFirst
<1> QED BY <1>1, <1>2, <1>3, <1>4 DEF r

LEMMA BeginCut ==
  ASSUME NEW q \in Seq(CellType), NEW s, BeginsFirst(q, s),
         NEW k \in 0 .. Len(q)
  PROVE  /\ BeginsFirst(SubSeq(q, 1, k), s)
         /\ HasBegin(SubSeq(q, 1, k), s) => HasBegin(q, s)
<1>1. /\ Len(SubSeq(q, 1, k)) = k
      /\ \A i \in 1 .. k : i \in 1 .. Len(q) /\ SubSeq(q, 1, k)[i] = q[i]
  OBVIOUS
<1> QED BY <1>1 DEF BeginsFirst, HasBegin

Connecting(s) == conn = "connecting" /\ held.stream = s
Coming(s) == Connecting(s) \/ HasBegin(fwd, s)
Arrived(s) == Len(destGot[s]) + Len(destQ[s])

\* The exit will or does read the DATA of s from fwd.
Taken(s) == \/ Coming(s)
            \/ task[s] = "running" /\ s \in exitStreams

UpInv(s) ==
  /\ Early(s) => sent[s] = 0
  /\ BeginsFirst(fwd, s)
  /\ Coming(s) => task[s] = "none"
  /\ HasBegin(fwd, s) => ~Connecting(s)
  /\ task[s] = "none" => destQ[s] = <<>> /\ destGot[s] = <<>>
  /\ conn # "mismatch" /\ Taken(s) =>
       Carries(pathUp, fwd, s, Arrived(s), sent[s])
  /\ task[s] = "running" =>
       /\ \A i \in 1 .. Len(destQ[s]) : destQ[s][i] = Len(destGot[s]) + i
       /\ Arrived(s) <= sent[s]

\* A cell of another kind or stream is sent, or nothing is.
LEMMA UpSent ==
  ASSUME TypeInv, NEW s \in Streams, UpInv(s), Early(s)' => Early(s),
         UNCHANGED <<conn, held, exitStreams, task, destQ, destGot, pathUp>>,
         sent'[s] = sent[s],
         \/ UNCHANGED fwd
         \/ \E c \in CellType : /\ fwd' = Put(fwd, c)
                                /\ ~Begin(c, s) /\ ~Data(c, s)
  PROVE  UpInv(s)'
<1>1. fwd \in Seq(CellType) /\ pathUp \in BOOLEAN /\ sent[s] \in Nat
      /\ Arrived(s) \in Nat
  BY DEF TypeInv, TypeOK, Arrived
<1>2. CASE UNCHANGED fwd
  BY <1>2 DEF UpInv, Coming, Connecting, Taken, Arrived
<1>3. CASE \E c \in CellType : /\ fwd' = Put(fwd, c)
                               /\ ~Begin(c, s) /\ ~Data(c, s)
  <2>1. PICK c \in CellType : fwd' = Put(fwd, c) /\ ~Begin(c, s) /\ ~Data(c, s)
    BY <1>3
  <2>2. BeginsFirst(fwd', s) /\ (HasBegin(fwd', s) <=> HasBegin(fwd, s))
    BY <1>1, <2>1, BeginAppend DEF Put, UpInv
  <2>3. /\ Coming(s)' <=> Coming(s)
        /\ Taken(s)' <=> Taken(s)
        /\ Arrived(s)' = Arrived(s)
    BY <2>2 DEF Coming, Connecting, Taken, Arrived
  <2>4. ASSUME Carries(pathUp, fwd, s, Arrived(s), sent[s])
        PROVE  Carries(pathUp, fwd', s, Arrived(s), sent[s])
    BY <1>1, <2>1, <2>4, CarriesPut DEF Put
  <2> QED BY <2>2, <2>3, <2>4 DEF UpInv, Connecting
<1> QED BY <1>2, <1>3

LEMMA ArrivedNat ==
  ASSUME TypeInv, NEW s \in Streams
  PROVE  /\ Arrived(s) \in Nat
         /\ destQ[s] = <<>> /\ destGot[s] = <<>> => Arrived(s) = 0
<1> DEFINE a == Len(destGot[s])
           b == Len(destQ[s])
<1>1. destQ[s] \in Seq(Nat) /\ destGot[s] \in Seq(Nat)
  BY DEF TypeInv, TypeOK
<1>2. a \in Nat /\ b \in Nat
  BY <1>1
<1>3. destQ[s] = <<>> /\ destGot[s] = <<>> => a = 0 /\ b = 0
  OBVIOUS
<1>4. Arrived(s) = a + b
  BY DEF Arrived
<1> HIDE DEF a, b
<1> QED BY <1>2, <1>3, <1>4

LEMMA HandlerUp ==
  ASSUME AnswerInv, NEW t \in Streams, SelectCircuit(t) \/ HandlerStep(t),
         NEW s \in Streams, UpInv(s)
  PROVE  UpInv(s)'
<1>1. UNCHANGED <<conn, held, exitStreams, task, destQ, destGot, pathUp>>
  BY DEF HandlerStep, SelectCircuit, RegisterStream, SendBegin,
     SendBeginFails, RecvFirst, ChannelClosed, ConnectedTimeout, SocksReply,
     SocksReplyFails, SocksData, RecvMessage, SocksClose, CleanupEnd,
     CleanupUnregister, exitVars
<1>2. /\ TypeInv /\ TypeOK /\ fwd \in Seq(CellType) /\ pathUp \in BOOLEAN
      /\ sent[s] \in Nat /\ clientFwd \in Nat /\ Arrived(s) \in Nat
      /\ FirstInv(s)
  BY ArrivedNat DEF AnswerInv, TypeInv, TypeOK
<1>3. \A c \in Commands, d \in Nat :
        /\ Cell(t, c, d, clientFwd + 1) \in CellType
        /\ Cell(t, c, d, clientFwd + 1).stream = t
        /\ Cell(t, c, d, clientFwd + 1).cmd = c
        /\ Cell(t, c, d, clientFwd + 1).data = d
        /\ SendMessage(t, c, d) =>
             fwd' = Put(fwd, Cell(t, c, d, clientFwd + 1))
  BY <1>2, CellTyped DEF Cell, SendMessage
<1>4. ASSUME NEW c \in Commands, NEW d \in Nat, SendMessage(t, c, d),
             s # t \/ c = "END", sent'[s] = sent[s], Early(s)' => Early(s)
      PROVE  UpInv(s)'
  <2> DEFINE z == Cell(t, c, d, clientFwd + 1)
  <2>1. /\ z \in CellType /\ fwd' = Put(fwd, z)
        /\ ~Begin(z, s) /\ ~Data(z, s)
    BY <1>3, <1>4 DEF Begin, Data
  <2> HIDE DEF z
  <2> QED BY <1>1, <1>2, <1>4, <2>1, UpSent
<1>5. ASSUME UNCHANGED <<fwd, sent>>, Early(s)' => Early(s) PROVE UpInv(s)'
  BY <1>1, <1>2, <1>5, UpSent
<1> USE DEF Step
<1>6. CASE SendBegin(t) \/ SendBeginFails(t)
  <2> DEFINE c == Cell(t, "BEGIN", 0, clientFwd + 1)
  <2>1. /\ SendMessage(t, "BEGIN", 0) /\ "BEGIN" \in Commands
        /\ UNCHANGED sent /\ phase[t] = "opened"
        /\ Early(s)' => Early(s)
    BY <1>2, <1>6 DEF SendBegin, SendBeginFails, Commands, Early, TypeOK
  <2>2. /\ c \in CellType /\ fwd' = Put(fwd, c) /\ c.stream = t
        /\ c.cmd = "BEGIN"
    BY <1>3, <2>1
  <2> HIDE DEF c
  <2>3. CASE s # t
    BY <1>4, <2>1, <2>3
  <2>4. CASE s = t
    <3>1. /\ sent[s] = 0 /\ task[s] = "none" /\ ~Connecting(s)
          /\ \A i \in 1 .. Len(fwd) : fwd[i].stream # s
      BY <1>2, <2>1, <2>4
         DEF FirstInv, Untouched, Early, UpInv, Connecting
    <3>2. BeginsFirst(fwd', s)
      BY <1>2, <2>2, <3>1, BeginAppend DEF Put, UpInv
    <3>3. Arrived(s) = 0
      BY <1>2, <3>1, ArrivedNat DEF UpInv
    <3>4. Carries(pathUp, fwd, s, 0, 0)
      BY <1>2, <3>1 DEF Carries, Line, Full, Data
    <3>5. ~Data(c, s)
      BY <2>2 DEF Data
    <3>6. Carries(pathUp, fwd', s, 0, 0)
      BY <1>2, <2>2, <3>4, <3>5, CarriesPut DEF Put
    <3> QED BY <1>1, <2>1, <3>1, <3>2, <3>3, <3>6
               DEF UpInv, Arrived, Connecting
  <2> QED BY <2>3, <2>4
<1>7. CASE SocksData(t)
  <2> DEFINE c == Cell(t, "DATA", sent[t] + 1, clientFwd + 1)
  <2>1. /\ SendMessage(t, "DATA", sent[t] + 1) /\ "DATA" \in Commands
        /\ sent' = [sent EXCEPT ![t] = @ + 1] /\ sent[t] + 1 \in Nat
        /\ ~Early(t) /\ (Early(s)' => Early(s))
    BY <1>2, <1>7 DEF SocksData, Commands, Early, TypeOK
  <2>2. /\ c \in CellType /\ fwd' = Put(fwd, c) /\ c.stream = t
        /\ c.cmd = "DATA" /\ c.data = sent[t] + 1
    BY <1>3, <2>1
  <2> HIDE DEF c
  <2>3. CASE s # t
    <3>1. sent'[s] = sent[s]
      BY <1>2, <2>1, <2>3 DEF TypeOK
    <3> QED BY <1>4, <2>1, <2>3, <3>1
  <2>4. CASE s = t
    <3>1. sent'[s] = sent[s] + 1
      BY <1>2, <2>1, <2>4 DEF TypeOK
    <3>2. BeginsFirst(fwd', s) /\ (HasBegin(fwd', s) <=> HasBegin(fwd, s))
      BY <1>2, <2>2, BeginAppend DEF Put, UpInv, Begin
    <3>3. /\ Coming(s)' <=> Coming(s)
          /\ Taken(s)' <=> Taken(s)
          /\ Arrived(s)' = Arrived(s)
      BY <1>1, <3>2 DEF Coming, Connecting, Taken, Arrived
    <3>4. ASSUME Carries(pathUp, fwd, s, Arrived(s), sent[s])
          PROVE  Carries(pathUp, fwd', s, Arrived(s), sent[s] + 1)
      <4>1. Data(c, s) /\ c.data = sent[s] + 1
        BY <2>2, <2>4 DEF Data
      <4> QED BY <1>2, <2>2, <3>4, <4>1, CarriesPut DEF Put
    <3>5. Arrived(s) <= sent[s] => Arrived(s) <= sent[s] + 1
      BY <1>2
    <3> QED BY <1>1, <2>1, <2>4, <3>1, <3>2, <3>3, <3>4, <3>5
               DEF UpInv, Connecting
  <2> QED BY <2>3, <2>4
<1>8. CASE CleanupEnd(t)
  <2>1. /\ SendMessage(t, "END", 0) /\ "END" \in Commands /\ UNCHANGED sent
        /\ Early(s)' => Early(s)
    BY <1>2, <1>8 DEF CleanupEnd, Commands, Early, TypeOK
  <2> QED BY <1>4, <2>1
<1>9. CASE \/ RecvFirst(t) \/ ChannelClosed(t) \/ ConnectedTimeout(t)
           \/ SocksReply(t) \/ SocksReplyFails(t) \/ SocksClose(t)
  BY <1>2, <1>5, <1>9 DEF RecvFirst, ChannelClosed, ConnectedTimeout,
     SocksReply, SocksReplyFails, SocksClose, Early, TypeOK
<1>10. CASE \/ SelectCircuit(t) \/ RegisterStream(t) \/ RecvMessage(t)
            \/ CleanupUnregister(t)
  BY <1>2, <1>5, <1>10 DEF SelectCircuit, RegisterStream, RecvMessage,
     CleanupUnregister, Early, TypeOK
<1> QED BY <1>6, <1>7, <1>8, <1>9, <1>10 DEF HandlerStep

\* The handler takes a cell of s off fwd, and it was no DATA or nobody's.
LEMMA UpTaken ==
  ASSUME TypeInv, NEW s \in Streams, UpInv(s), conn = "idle",
         fwd # <<>>, fwd' = Tail(fwd),
         UNCHANGED <<phase, sent, task, pathUp>>, destGot'[s] = destGot[s],
         exitStreams' \subseteq exitStreams,
         conn' = "connecting" => held' = Head(fwd) /\ Head(fwd).cmd = "BEGIN",
         \/ destQ'[s] = destQ[s] /\ ~Data(Head(fwd), s)
         \/ destQ'[s] = destQ[s] /\ Data(Head(fwd), s)
            /\ ~(task[s] = "running" /\ s \in exitStreams)
         \/ destQ'[s] = destQ[s] /\ conn' = "mismatch"
         \/ /\ Data(Head(fwd), s) /\ task[s] = "running" /\ s \in exitStreams
            /\ conn' = "idle" /\ destQ'[s] = Append(destQ[s], Head(fwd).data)
  PROVE  UpInv(s)'
<1> DEFINE c == Head(fwd)
<1>1. /\ fwd \in Seq(CellType) /\ pathUp \in BOOLEAN /\ sent[s] \in Nat
      /\ Arrived(s) \in Nat /\ c \in CellType
      /\ destQ[s] \in Seq(Nat) /\ destGot[s] \in Seq(Nat) /\ c.data \in Nat
  <2>1. fwd \in Seq(CellType)
    BY DEF TypeInv, TypeOK
  <2>2. c \in CellType
    BY <2>1
  <2> QED BY <2>1, <2>2, ArrivedNat, CellFields DEF TypeInv, TypeOK
<1>2. /\ BeginsFirst(fwd', s)
      /\ HasBegin(fwd, s) <=> HasBegin(fwd', s) \/ Begin(c, s)
      /\ c.stream = s => ~HasBegin(fwd', s)
  BY <1>1, BeginTail DEF UpInv
<1>3. ~Connecting(s) /\ (Connecting(s)' => Begin(c, s))
  BY DEF Connecting, Begin
<1>4. Coming(s)' => Coming(s) /\ ~Data(c, s)
  BY <1>2, <1>3 DEF Coming, Begin, Data
<1>5. HasBegin(fwd', s) => ~Connecting(s)'
  BY <1>2, <1>3 DEF Begin
<1>6. /\ Early(s)' <=> Early(s)
      /\ (Early(s) => sent[s] = 0)
      /\ Coming(s)' => task[s] = "none"
      /\ Taken(s)' => Taken(s)
      /\ Coming(s) => ~(task[s] = "running" /\ s \in exitStreams)
  BY <1>4 DEF Early, UpInv, Taken
<1>7. CASE destQ'[s] = destQ[s]
  <2>1. Arrived(s)' = Arrived(s)
    BY <1>7 DEF Arrived
  <2>2. ASSUME conn' # "mismatch", Taken(s)' PROVE ~Data(c, s)
    BY <1>4, <1>7, <2>2 DEF Taken
  <2>3. conn' # "mismatch" /\ Taken(s)' =>
          Carries(pathUp, fwd', s, Arrived(s), sent[s])
    BY <1>1, <1>6, <2>2, CarriesTail DEF UpInv
  <2> QED BY <1>2, <1>5, <1>6, <1>7, <2>1, <2>3 DEF UpInv
<1>8. CASE destQ'[s] # destQ[s]
  <2>1. /\ Data(c, s) /\ task[s] = "running" /\ s \in exitStreams
        /\ conn' = "idle" /\ destQ'[s] = Append(destQ[s], c.data)
    BY <1>8
  <2>2. Carries(pathUp, fwd, s, Arrived(s), sent[s])
    BY <2>1 DEF UpInv, Taken
  <2>3. /\ c.data = Arrived(s) + 1 /\ Arrived(s) + 1 <= sent[s]
        /\ Carries(pathUp, fwd', s, Arrived(s) + 1, sent[s])
    BY <1>1, <2>1, <2>2, CarriesTail
  <2>4. /\ Len(destQ'[s]) = Len(destQ[s]) + 1
        /\ Len(destQ[s]) \in Nat /\ Len(destGot[s]) \in Nat
        /\ \A i \in 1 .. Len(destQ[s]) : destQ'[s][i] = destQ[s][i]
        /\ destQ'[s][Len(destQ[s]) + 1] = c.data
    BY <1>1, <2>1
  <2> DEFINE a == Len(destGot[s])
             b == Len(destQ[s])
  <2>5. Arrived(s) = a + b /\ Arrived(s)' = a + (b + 1)
    BY <2>4 DEF Arrived
  <2> HIDE DEF a, b
  <2>6. \A i \in 1 .. Len(destQ'[s]) : destQ'[s][i] = Len(destGot[s]) + i
    <3> SUFFICES ASSUME NEW i \in 1 .. Len(destQ'[s])
                 PROVE  destQ'[s][i] = Len(destGot[s]) + i
      OBVIOUS
    <3>1. CASE i \in 1 .. Len(destQ[s])
      BY <2>1, <2>4, <3>1 DEF UpInv
    <3>2. CASE i = Len(destQ[s]) + 1
      <4>1. c.data = (a + b) + 1 /\ i = b + 1 /\ a \in Nat /\ b \in Nat
        BY <2>3, <2>4, <2>5, <3>2 DEF a, b
      <4>2. c.data = a + i
        BY <4>1
      <4> QED BY <2>4, <3>2, <4>2 DEF a
    <3> QED BY <2>4, <3>1, <3>2
  <2>7. Arrived(s)' = Arrived(s) + 1
    <3>1. a \in Nat /\ b \in Nat
      BY <2>4 DEF a, b
    <3> QED BY <2>5, <3>1
  <2> QED BY <1>2, <1>5, <1>6, <2>1, <2>3, <2>6, <2>7 DEF UpInv
<1> QED BY <1>7, <1>8

LEMMA ConnUp ==
  ASSUME AnswerInv, ConnStep \/ ConnEof, NEW s \in Streams, UpInv(s)
  PROVE  UpInv(s)'
<1>1. UNCHANGED <<phase, sent, destGot, pathUp>>
  BY DEF ConnStep, HandleBegin, HandleData, HandleEnd, ConnectOk,
     ConnectedWriteFails, ConnectFails, WriteReply, ConnEof, clientVars
<1>2. TypeInv /\ TypeOK /\ fwd \in Seq(CellType)
  BY DEF AnswerInv, TypeInv, TypeOK
<1>3. CASE HandleBegin
  BY <1>1, <1>2, <1>3, UpTaken DEF HandleBegin, Accept, Mismatch, Data
<1>4. CASE HandleEnd
  BY <1>1, <1>2, <1>4, UpTaken DEF HandleEnd, Accept, Mismatch, TagEnd, Data
<1>5. CASE HandleData
  <2> DEFINE c == Head(fwd)
             queued == c.stream \in exitStreams /\ task[c.stream] = "running"
  <2>1. /\ conn = "idle" /\ fwd # <<>> /\ c.cmd = "DATA" /\ fwd' = Tail(fwd)
        /\ UNCHANGED task
    BY <1>5 DEF HandleData, Accept
  <2>2. \/ ~Verified /\ Mismatch
        \/ /\ queued /\ UNCHANGED <<conn, held, exitStreams>>
           /\ destQ' = [destQ EXCEPT ![c.stream] = Append(@, c.data)]
        \/ ~queued /\ TagEnd(c.stream) /\ UNCHANGED <<exitStreams, destQ>>
    BY <1>5, Zenon DEF HandleData
  <2>3. CASE Mismatch
    BY <1>1, <1>2, <2>1, <2>3, UpTaken DEF Mismatch
  <2>4. CASE /\ queued /\ UNCHANGED <<conn, held, exitStreams>>
             /\ destQ' = [destQ EXCEPT ![c.stream] = Append(@, c.data)]
    <3>1. CASE c.stream = s
      <4>1. destQ'[s] = Append(destQ[s], c.data) /\ Data(c, s)
        BY <1>2, <2>1, <2>4, <3>1 DEF TypeOK, Data
      <4> QED BY <1>1, <1>2, <2>1, <2>4, <3>1, <4>1, UpTaken
    <3>2. CASE c.stream # s
      <4>1. destQ'[s] = destQ[s] /\ ~Data(c, s)
        BY <1>2, <2>4, <3>2 DEF TypeOK, Data
      <4> QED BY <1>1, <1>2, <2>1, <2>4, <4>1, UpTaken
    <3> QED BY <3>1, <3>2
  <2>5. CASE ~queued /\ TagEnd(c.stream) /\ UNCHANGED <<exitStreams, destQ>>
    BY <1>1, <1>2, <2>1, <2>5, UpTaken DEF TagEnd, Data
  <2> QED BY <2>2, <2>3, <2>4, <2>5
<1>6. CASE ConnectOk
  <2>1. /\ conn = "connecting" /\ conn' = "idle" /\ UNCHANGED <<fwd, destQ>>
        /\ task' = [task EXCEPT ![held.stream] = "running"]
        /\ exitStreams' = exitStreams \union {held.stream}
        /\ held.stream \in Streams
    BY <1>2, <1>6, CellFields DEF ConnectOk, TypeInv
  <2>2. ~Connecting(s)'
    BY <2>1 DEF Connecting
  <2>3. CASE held.stream = s
    <3>1. /\ Connecting(s) /\ Coming(s) /\ ~HasBegin(fwd, s)
          /\ Taken(s) /\ task[s] = "none" /\ task'[s] = "running"
      BY <1>2, <2>1, <2>3 DEF Connecting, Coming, UpInv, Taken, TypeOK
    <3>2. /\ destQ[s] = <<>> /\ destGot[s] = <<>> /\ Arrived(s) = 0
          /\ Arrived(s)' = Arrived(s)
      BY <1>1, <1>2, <2>1, <3>1, ArrivedNat DEF UpInv, Arrived
    <3>3. Carries(pathUp, fwd, s, Arrived(s), sent[s]) /\ sent[s] \in Nat
      BY <1>2, <2>1, <3>1 DEF UpInv, TypeOK
    <3>4. ~Coming(s)'
      BY <2>1, <2>2, <3>1 DEF Coming
    <3> QED BY <1>1, <2>1, <2>2, <3>1, <3>2, <3>3, <3>4 DEF UpInv, Early
  <2>4. CASE held.stream # s
    <3>1. ~Connecting(s) /\ task'[s] = task[s]
          /\ (s \in exitStreams' <=> s \in exitStreams)
      BY <1>2, <2>1, <2>4 DEF Connecting, TypeOK
    <3> QED BY <1>1, <2>1, <2>2, <3>1
               DEF UpInv, Early, Taken, Coming, Arrived
  <2> QED BY <2>3, <2>4
<1>7. CASE ConnectedWriteFails \/ ConnectFails \/ WriteReply \/ ConnEof
  <2>1. /\ UNCHANGED <<fwd, exitStreams, task, destQ>>
        /\ conn' # "connecting" /\ conn # "mismatch"
    BY <1>7 DEF ConnectedWriteFails, ConnectFails, WriteReply, ConnEof, TagEnd
  <2> QED BY <1>1, <2>1
             DEF UpInv, Early, Taken, Coming, Connecting, Arrived
<1> QED BY <1>3, <1>4, <1>5, <1>6, <1>7 DEF ConnStep

LEMMA TaskUp ==
  ASSUME AnswerInv, NEW t \in Streams, TaskStep(t), NEW s \in Streams, UpInv(s)
  PROVE  UpInv(s)'
<1>1. /\ UNCHANGED <<phase, sent, pathUp, fwd, conn, held, exitStreams>>
      /\ task[t] = "running"
  BY DEF TaskStep, TaskData, TaskEnd, TaskForward, TaskDropped, clientVars
<1>2. TypeInv /\ TypeOK
  BY DEF AnswerInv, TypeInv
<1>3. ASSUME \/ task'[s] = task[s]
             \/ task[s] = "running" /\ task'[s] = "finished",
             UNCHANGED destGot,
             destQ'[s] = destQ[s] \/ task'[s] = "finished"
      PROVE  UpInv(s)'
  <2>1. CASE task'[s] = task[s] /\ destQ'[s] = destQ[s]
    BY <1>1, <1>3, <2>1 DEF UpInv, Early, Taken, Coming, Connecting, Arrived
  <2>2. CASE task[s] = "running" /\ task'[s] = "finished"
    BY <1>1, <2>2 DEF UpInv, Early, Taken, Coming, Connecting
  <2>3. CASE task[s] = "finished" /\ task'[s] = "finished"
    BY <1>1, <2>3 DEF UpInv, Early, Taken, Coming, Connecting
  <2> QED BY <1>3, <2>1, <2>2, <2>3
<1>4. CASE TaskData(t)
  <2>1. /\ task' = task \/ task' = [task EXCEPT ![t] = "finished"]
        /\ UNCHANGED <<destQ, destGot>>
    BY <1>4 DEF TaskData
  <2> QED BY <1>1, <1>2, <1>3, <2>1 DEF TypeOK
<1>5. CASE TaskEnd(t)
  BY <1>1, <1>2, <1>3, <1>5 DEF TaskEnd, TypeOK
<1>6. CASE TaskDropped(t)
  BY <1>1, <1>2, <1>3, <1>6 DEF TaskDropped, TypeOK
<1>7. CASE TaskForward(t)
  <2>1. CASE task' = [task EXCEPT ![t] = "finished"] /\ UNCHANGED destGot
    BY <1>1, <1>2, <1>3, <1>7, <2>1 DEF TaskForward, TypeOK
  <2>2. CASE /\ destGot' = [destGot EXCEPT ![t] = Append(@, Head(destQ[t]))]
             /\ destQ' = [destQ EXCEPT ![t] = Tail(@)] /\ UNCHANGED task
    <3>1. CASE s # t
      BY <1>1, <1>2, <2>2, <3>1
         DEF TypeOK, UpInv, Early, Taken, Coming, Connecting, Arrived
    <3>2. CASE s = t
      <4>1. /\ destQ[s] \in Seq(Nat) /\ destQ[s] # <<>>
            /\ destGot[s] \in Seq(Nat)
            /\ destQ'[s] = Tail(destQ[s])
            /\ destGot'[s] = Append(destGot[s], Head(destQ[s]))
        BY <1>2, <1>7, <2>2, <3>2 DEF TypeOK, TaskForward
      <4>2. /\ Len(destQ'[s]) = Len(destQ[s]) - 1
            /\ Len(destGot'[s]) = Len(destGot[s]) + 1
            /\ \A i \in 1 .. Len(destQ'[s]) :
                 i + 1 \in 1 .. Len(destQ[s]) /\ destQ'[s][i] = destQ[s][i + 1]
            /\ Len(destQ[s]) \in Nat /\ Len(destGot[s]) \in Nat
        BY <4>1
      <4>3. Arrived(s)' = Arrived(s)
        <5> DEFINE a == Len(destGot[s])
                   b == Len(destQ[s])
        <5>1. Arrived(s) = a + b /\ Arrived(s)' = (a + 1) + (b - 1)
          BY <4>2 DEF Arrived
        <5>2. a \in Nat /\ b \in Nat
          BY <4>2
        <5> HIDE DEF a, b
        <5> QED BY <5>1, <5>2
      <4>4. \A i \in 1 .. Len(destQ'[s]) :
              destQ'[s][i] = Len(destGot'[s]) + i
        <5>1. \A i \in 1 .. Len(destQ[s]) :
                destQ[s][i] = Len(destGot[s]) + i
          BY <1>1, <3>2 DEF UpInv
        <5> QED BY <4>2, <5>1
      <4>5. task'[s] = "running"
        BY <1>1, <2>2, <3>2
      <4> QED BY <1>1, <2>2, <3>2, <4>3, <4>4, <4>5
                 DEF UpInv, Early, Taken, Coming, Connecting
    <3> QED BY <3>1, <3>2
  <2> QED BY <1>7, <2>1, <2>2 DEF TaskForward
<1> QED BY <1>4, <1>5, <1>6, <1>7 DEF TaskStep

LEMMA BreakUp ==
  ASSUME AnswerInv, PathBreaks, NEW s \in Streams, UpInv(s)
  PROVE  UpInv(s)'
<1>1. /\ UNCHANGED <<phase, sent, conn, held, exitStreams, task, destQ,
                     destGot>>
      /\ pathUp' = FALSE
  BY DEF PathBreaks, clientVars, exitVars
<1>2. /\ TypeInv /\ fwd \in Seq(CellType) /\ sent[s] \in Nat
      /\ Arrived(s) \in Nat
  BY ArrivedNat DEF AnswerInv, TypeInv, TypeOK
<1>3. PICK k \in 0 .. Len(fwd) : fwd' = SubSeq(fwd, 1, k)
  BY DEF PathBreaks
<1>4. BeginsFirst(fwd', s) /\ (HasBegin(fwd', s) => HasBegin(fwd, s))
  BY <1>2, <1>3, BeginCut DEF UpInv
<1>5. /\ Coming(s)' => Coming(s)
      /\ Taken(s)' => Taken(s)
      /\ Arrived(s)' = Arrived(s)
  BY <1>1, <1>4 DEF Coming, Connecting, Taken, Arrived
<1>6. Carries(pathUp, fwd, s, Arrived(s), sent[s])
        => Carries(FALSE, fwd', s, Arrived(s), sent[s])
  BY <1>2, <1>3, CarriesCut
<1> QED BY <1>1, <1>4, <1>5, <1>6 DEF UpInv, Early, Connecting
-----------------------------------------------------------------------------
(* The way down: the task, bwd, the stream's channel, handle_stream.       *)

Listening(s) ==
  Early(s) \/ phase[s] \in {"waiting", "connected", "relaying"}

\* k payloads have come as far as the stream's channel.
DownAt(s, k) ==
  /\ k <= destSent[s]
  /\ Carries(TRUE, rx[s], s, Len(got[s]), k)
  /\ reader = "running" => Carries(pathUp, bwd, s, k, destSent[s])

DownInv(s) ==
  /\ \A i \in 1 .. Len(rx[s]) : rx[s][i].stream = s
  /\ Listening(s) => \E k \in Nat : DownAt(s, k)

LEMMA DownTyped ==
  ASSUME TypeInv, NEW s \in Streams
  PROVE  /\ rx[s] \in Seq(CellType) /\ bwd \in Seq(CellType)
         /\ got[s] \in Seq(Nat) /\ Len(got[s]) \in Nat
         /\ destSent[s] \in Nat /\ pathUp \in BOOLEAN
<1>1. got[s] \in Seq(Nat)
  BY DEF TypeInv, TypeOK
<1> QED BY <1>1 DEF TypeInv, TypeOK

LEMMA HandlerDown ==
  ASSUME AnswerInv, NEW t \in Streams, SelectCircuit(t) \/ HandlerStep(t),
         NEW s \in Streams, DownInv(s)
  PROVE  DownInv(s)'
<1>1. UNCHANGED <<bwd, destSent, reader, pathUp>>
  BY DEF HandlerStep, SelectCircuit, RegisterStream, SendBegin,
     SendBeginFails, RecvFirst, ChannelClosed, ConnectedTimeout, SocksReply,
     SocksReplyFails, SocksData, RecvMessage, SocksClose, CleanupEnd,
     CleanupUnregister, exitVars
<1>2. TypeInv /\ TypeOK
  BY DEF AnswerInv, TypeInv
<1>3. ASSUME rx'[s] = rx[s], got'[s] = got[s], Listening(s)' => Listening(s)
      PROVE  DownInv(s)'
  BY <1>1, <1>3 DEF DownInv, DownAt
<1>4. ASSUME rx[s] # <<>>, rx'[s] = Tail(rx[s]),
             Listening(s)' =>
               /\ Listening(s)
               /\ IF Head(rx[s]).cmd = "DATA"
                  THEN got'[s] = Append(got[s], Head(rx[s]).data)
                  ELSE got'[s] = got[s]
      PROVE  DownInv(s)'
  <2> DEFINE c == Head(rx[s])
  <2>1. /\ rx[s] \in Seq(CellType) /\ c \in CellType /\ Len(got[s]) \in Nat
        /\ got[s] \in Seq(Nat) /\ c.data \in Nat
    <3>1. rx[s] \in Seq(CellType) /\ c \in CellType
      BY <1>2, <1>4, DownTyped
    <3> QED BY <1>2, <3>1, DownTyped, CellFields
  <2>2. /\ \A i \in 1 .. Len(rx'[s]) : rx'[s][i].stream = s
        /\ c.stream = s
    BY <1>4, <2>1 DEF DownInv
  <2>3. ASSUME Listening(s)', NEW k \in Nat, DownAt(s, k)
        PROVE  DownAt(s, k)'
    <3>1. CASE c.cmd = "DATA"
      <4>1. /\ Len(got'[s]) = Len(got[s]) + 1
            /\ Data(c, s)
        BY <1>4, <2>1, <2>2, <2>3, <3>1 DEF Data
      <4>2. Carries(TRUE, Tail(rx[s]), s, Len(got[s]) + 1, k)
        <5>1. Carries(TRUE, rx[s], s, Len(got[s]), k)
          BY <2>3 DEF DownAt
        <5> QED BY <1>4, <2>1, <4>1, <5>1, CarriesTail
      <4> QED BY <1>1, <1>4, <2>3, <4>1, <4>2 DEF DownAt
    <3>2. CASE c.cmd # "DATA"
      <4>1. got'[s] = got[s] /\ ~Data(c, s)
        BY <1>4, <2>3, <3>2 DEF Data
      <4>2. Carries(TRUE, rx'[s], s, Len(got[s]), k)
        BY <1>4, <2>1, <2>3, <4>1, CarriesTail DEF DownAt
      <4> QED BY <1>1, <2>3, <4>1, <4>2 DEF DownAt
    <3> QED BY <3>1, <3>2
  <2> QED BY <1>4, <2>2, <2>3 DEF DownInv
<1> USE DEF Step
<1>5. CASE RecvFirst(t)
  <2>1. /\ rx[t] # <<>> /\ rx' = [rx EXCEPT ![t] = Tail(@)]
        /\ UNCHANGED got /\ phase[t] = "waiting"
        /\ phase' = [phase EXCEPT ![t] =
             IF Head(rx[t]).cmd = "CONNECTED" THEN "connected" ELSE "cleanup"]
    BY <1>5 DEF RecvFirst
  <2>2. CASE s # t
    BY <1>2, <1>3, <2>1, <2>2 DEF Listening, Early, TypeOK
  <2>3. CASE s = t
    <3>1. rx[s] # <<>> /\ rx'[s] = Tail(rx[s]) /\ got'[s] = got[s]
      BY <1>2, <2>1, <2>3 DEF TypeOK
    <3>2. Listening(s)' => Listening(s) /\ Head(rx[s]).cmd = "CONNECTED"
      BY <1>2, <2>1, <2>3 DEF Listening, Early, TypeOK
    <3> QED BY <1>4, <3>1, <3>2
  <2> QED BY <2>2, <2>3
<1>6. CASE RecvMessage(t)
  <2>1. /\ rx[t] # <<>> /\ rx' = [rx EXCEPT ![t] = Tail(@)]
        /\ phase[t] = "relaying"
        /\ got' = IF Head(rx[t]).cmd = "DATA"
                  THEN [got EXCEPT ![t] = Append(@, Head(rx[t]).data)]
                  ELSE got
        /\ phase' = IF Head(rx[t]).cmd = "END"
                    THEN [phase EXCEPT ![t] = "cleanup"] ELSE phase
    BY <1>6 DEF RecvMessage
  <2>2. Listening(s)' => Listening(s)
    BY <1>2, <2>1 DEF Listening, Early, TypeOK
  <2>3. CASE s # t
    BY <1>2, <1>3, <2>1, <2>2, <2>3 DEF TypeOK
  <2>4. CASE s = t
    <3>1. /\ rx[s] # <<>> /\ rx'[s] = Tail(rx[s])
          /\ IF Head(rx[s]).cmd = "DATA"
             THEN got'[s] = Append(got[s], Head(rx[s]).data)
             ELSE got'[s] = got[s]
      BY <1>2, <2>1, <2>4 DEF TypeOK
    <3> QED BY <1>4, <2>2, <3>1
  <2> QED BY <2>3, <2>4
<1>7. CASE CleanupUnregister(t)
  <2>1. CASE s # t
    BY <1>2, <1>3, <1>7, <2>1 DEF CleanupUnregister, Listening, Early, TypeOK
  <2>2. CASE s = t
    <3>1. rx'[s] = <<>> /\ ~Listening(s)'
      BY <1>2, <1>7, <2>2 DEF CleanupUnregister, Listening, Early, TypeOK
    <3> QED BY <3>1 DEF DownInv
  <2> QED BY <2>1, <2>2
<1>8. CASE \/ SelectCircuit(t) \/ RegisterStream(t) \/ SendBegin(t)
           \/ SendBeginFails(t) \/ CleanupEnd(t)
  BY <1>2, <1>3, <1>8 DEF SelectCircuit, RegisterStream, SendBegin,
     SendBeginFails, CleanupEnd, Listening, Early, TypeOK
<1>9. CASE \/ ChannelClosed(t) \/ ConnectedTimeout(t) \/ SocksReply(t)
           \/ SocksReplyFails(t) \/ SocksClose(t)
  BY <1>2, <1>3, <1>9 DEF ChannelClosed, ConnectedTimeout, SocksReply,
     SocksReplyFails, SocksClose, Listening, Early, TypeOK
<1>10. CASE SocksData(t)
  BY <1>2, <1>3, <1>10 DEF SocksData, Listening, Early, TypeOK
<1> QED BY <1>5, <1>6, <1>7, <1>8, <1>9, <1>10 DEF HandlerStep

\* A DATA cell for a stream that listens finds its channel: the sender is
\* registered, and before that the exit has nothing to send.
LEMMA ReaderDown ==
  ASSUME AnswerInv, ReaderStep, NEW s \in Streams, DownInv(s)
  PROVE  DownInv(s)'
<1>1. UNCHANGED <<phase, got, destSent, pathUp>>
  BY DEF ReaderStep, ReadCell, ReadEof, ReadDestroy, ReaderExit, exitVars
<1>2. TypeInv /\ TypeOK /\ FirstInv(s)
  BY DEF AnswerInv, TypeInv
<1>3. CASE UNCHANGED <<rx, bwd>> /\ reader' # "running"
  BY <1>1, <1>3 DEF DownInv, DownAt, Listening, Early
<1>4. CASE ReadCell
  <2> DEFINE c == Head(bwd)
             ok == c.tag = clientBwd + 1
  <2>1. /\ reader = "running" /\ bwd # <<>> /\ bwd' = Tail(bwd)
        /\ rx' = IF ok /\ c.stream \in senders
                 THEN [rx EXCEPT ![c.stream] = Append(@, c)] ELSE rx
        /\ reader' = IF ok THEN reader ELSE "closing"
    BY <1>4 DEF ReadCell
  <2>2. /\ bwd \in Seq(CellType) /\ c \in CellType /\ c.stream \in Streams
        /\ rx[s] \in Seq(CellType) /\ Len(got[s]) \in Nat
        /\ destSent[s] \in Nat /\ pathUp \in BOOLEAN
    <3>1. bwd \in Seq(CellType)
      BY <1>2 DEF TypeOK
    <3>2. c \in CellType
      BY <2>1, <3>1
    <3> QED BY <1>2, <3>1, <3>2, CellFields, DownTyped
  <2> HIDE DEF ok
  <2>3. /\ ok /\ c.stream \in senders /\ c.stream = s
             => rx'[s] = Append(rx[s], c)
        /\ ~(ok /\ c.stream \in senders /\ c.stream = s) => rx'[s] = rx[s]
    BY <1>2, <2>1, <2>2 DEF TypeOK
  <2>4. \A i \in 1 .. Len(rx'[s]) : rx'[s][i].stream = s
    <3>1. CASE ok /\ c.stream \in senders /\ c.stream = s
      <4>1. rx'[s] = Append(rx[s], c)
        BY <2>3, <3>1
      <4>2. /\ Len(rx'[s]) = Len(rx[s]) + 1 /\ rx'[s][Len(rx[s]) + 1] = c
            /\ \A i \in 1 .. Len(rx[s]) : rx'[s][i] = rx[s][i]
            /\ 1 .. Len(rx[s]) + 1 = (1 .. Len(rx[s])) \union {Len(rx[s]) + 1}
        BY <2>2, <4>1
      <4> QED BY <3>1, <4>2 DEF DownInv
    <3>2. CASE ~(ok /\ c.stream \in senders /\ c.stream = s)
      BY <2>3, <3>2 DEF DownInv
    <3> QED BY <3>1, <3>2
  <2>5. ASSUME Listening(s), c.stream = s PROVE s \in senders
    <3>1. ~Early(s)
      <4>1. 1 \in 1 .. Len(bwd) /\ bwd[1] = c
        BY <2>1, <2>2
      <4> QED BY <1>2, <2>5, <4>1 DEF FirstInv, Untouched
    <3> QED BY <2>1, <2>5, <3>1 DEF AnswerInv, RoutedWhileOpen, Listening
  <2>6. ASSUME Listening(s), NEW k \in Nat, DownAt(s, k)
        PROVE  \E n \in Nat : DownAt(s, n)'
    <3>1. CASE ok /\ Data(c, s)
      <4>1. c.stream = s /\ rx'[s] = Append(rx[s], c)
        BY <2>3, <2>5, <2>6, <3>1 DEF Data
      <4>2. /\ c.data = k + 1 /\ k + 1 <= destSent[s]
            /\ Carries(pathUp, bwd', s, k + 1, destSent[s])
        BY <2>1, <2>2, <2>6, <3>1, CarriesTail DEF DownAt
      <4>3. Carries(TRUE, rx'[s], s, Len(got[s]), k + 1)
        BY <2>2, <2>6, <3>1, <4>1, <4>2, CarriesPut DEF DownAt
      <4>4. DownAt(s, k + 1)'
        BY <1>1, <4>2, <4>3 DEF DownAt
      <4> QED BY <4>4
    <3>2. CASE ok /\ ~Data(c, s)
      <4>1. Carries(pathUp, bwd', s, k, destSent[s])
        BY <2>1, <2>2, <2>6, <3>2, CarriesTail DEF DownAt
      <4>2. Carries(TRUE, rx'[s], s, Len(got[s]), k)
        BY <2>2, <2>3, <2>6, <3>2, CarriesPut DEF DownAt
      <4>3. DownAt(s, k)'
        BY <1>1, <2>6, <4>1, <4>2 DEF DownAt
      <4> QED BY <4>3
    <3>3. CASE ~ok
      <4>1. rx'[s] = rx[s] /\ reader' # "running"
        BY <2>1, <2>3, <3>3
      <4>2. DownAt(s, k)'
        BY <1>1, <2>6, <4>1 DEF DownAt
      <4> QED BY <4>2
    <3> QED BY <3>1, <3>2, <3>3
  <2>7. Listening(s)' => Listening(s)
    BY <1>1 DEF Listening, Early
  <2> QED BY <2>4, <2>6, <2>7 DEF DownInv
<1> QED BY <1>3, <1>4 DEF ReaderStep, ReadEof, ReadDestroy, ReaderExit

LEMMA DownPut ==
  ASSUME TypeInv, NEW s \in Streams, DownInv(s), NEW c \in CellType,
         UNCHANGED <<phase, rx, got, reader, pathUp>>, bwd' = Put(bwd, c),
         \/ ~Data(c, s) /\ destSent'[s] = destSent[s]
         \/ /\ Data(c, s) /\ c.data = destSent[s] + 1
            /\ destSent'[s] = destSent[s] + 1
  PROVE  DownInv(s)'
<1>1. bwd \in Seq(CellType) /\ destSent[s] \in Nat /\ pathUp \in BOOLEAN
  BY DownTyped
<1>2. ASSUME NEW k \in Nat, DownAt(s, k) PROVE DownAt(s, k)'
  <2>1. Carries(pathUp, bwd, s, k, destSent[s])
          => Carries(pathUp, bwd', s, k, destSent'[s])
    BY <1>1, CarriesPut DEF Put
  <2>2. k <= destSent'[s]
    BY <1>1, <1>2 DEF DownAt
  <2> QED BY <1>2, <2>1, <2>2 DEF DownAt
<1> QED BY <1>2 DEF DownInv, Listening, Early

LEMMA ConnDown ==
  ASSUME AnswerInv, ConnStep \/ ConnEof, NEW s \in Streams, DownInv(s)
  PROVE  DownInv(s)'
<1>1. UNCHANGED <<phase, rx, got, reader, pathUp, destSent>>
  BY DEF ConnStep, HandleBegin, HandleData, HandleEnd, ConnectOk,
     ConnectedWriteFails, ConnectFails, WriteReply, ConnEof, clientVars
<1>2. TypeInv /\ TypeOK
  BY DEF AnswerInv, TypeInv
<1>3. CASE UNCHANGED bwd
  BY <1>1, <1>3 DEF DownInv, DownAt, Listening, Early
<1>4. CASE ConnectOk
  <2> DEFINE c == Cell(held.stream, "CONNECTED", 0, exitBwd + 1)
  <2>1. held.stream \in Streams /\ exitBwd \in Nat
    BY <1>2, <1>4, CellFields DEF ConnectOk, TypeInv, TypeOK
  <2>2. c \in CellType /\ ~Data(c, s)
    BY <2>1, CellTyped DEF Commands, Cell, Data
  <2>3. bwd' = Put(bwd, c)
    BY <1>4 DEF ConnectOk
  <2> HIDE DEF c
  <2> QED BY <1>1, <1>2, <2>2, <2>3, DownPut
<1>5. CASE WriteReply
  <2>1. held \in CellType /\ ~Data(held, s) /\ bwd' = Put(bwd, held)
    BY <1>2, <1>5 DEF WriteReply, AnswerInv, TypeInv, Data
  <2> QED BY <1>1, <1>2, <2>1, DownPut
<1> QED
  BY <1>3, <1>4, <1>5 DEF ConnStep, HandleBegin, HandleData, HandleEnd,
     ConnectedWriteFails, ConnectFails, ConnEof

LEMMA TaskDown ==
  ASSUME AnswerInv, NEW t \in Streams, TaskStep(t),
         NEW s \in Streams, DownInv(s)
  PROVE  DownInv(s)'
<1>1. UNCHANGED <<phase, rx, got, reader, pathUp>>
  BY DEF TaskStep, TaskData, TaskEnd, TaskForward, TaskDropped, clientVars
<1>2. TypeInv /\ TypeOK /\ exitBwd \in Nat /\ destSent[t] \in Nat
  BY DEF AnswerInv, TypeInv, TypeOK
<1>3. CASE TaskData(t)
  <2> DEFINE c == Cell(t, "DATA", destSent[t] + 1, exitBwd + 1)
  <2>1. /\ c \in CellType /\ c.data = destSent[t] + 1
        /\ Data(c, s) <=> s = t
    BY <1>2, CellTyped DEF Commands, Cell, Data
  <2>2. bwd' = Put(bwd, c) /\ destSent' = [destSent EXCEPT ![t] = @ + 1]
    BY <1>3 DEF TaskData
  <2> HIDE DEF c
  <2>3. IF s = t THEN destSent'[s] = destSent[s] + 1
                 ELSE destSent'[s] = destSent[s]
    BY <1>2, <2>2 DEF TypeOK
  <2> QED BY <1>1, <1>2, <2>1, <2>2, <2>3, DownPut
<1>4. CASE TaskEnd(t)
  <2> DEFINE c == Cell(t, "END", 0, exitBwd + 1)
  <2>1. c \in CellType /\ ~Data(c, s)
    BY <1>2, CellTyped DEF Commands, Cell, Data
  <2>2. bwd' = Put(bwd, c) /\ UNCHANGED destSent
    BY <1>4 DEF TaskEnd
  <2> HIDE DEF c
  <2> QED BY <1>1, <1>2, <2>1, <2>2, DownPut
<1>5. CASE TaskForward(t) \/ TaskDropped(t)
  BY <1>1, <1>5 DEF TaskForward, TaskDropped, DownInv, DownAt, Listening, Early
<1> QED BY <1>3, <1>4, <1>5 DEF TaskStep

LEMMA BreakDown ==
  ASSUME AnswerInv, PathBreaks, NEW s \in Streams, DownInv(s)
  PROVE  DownInv(s)'
<1>1. UNCHANGED <<phase, rx, got, reader, destSent>> /\ pathUp' = FALSE
  BY DEF PathBreaks, clientVars, exitVars
<1>2. PICK i \in 0 .. Len(bwd) : bwd' = SubSeq(bwd, 1, i)
  BY DEF PathBreaks
<1>3. bwd \in Seq(CellType) /\ destSent[s] \in Nat
  BY DownTyped DEF AnswerInv
<1>4. ASSUME NEW k \in Nat, DownAt(s, k) PROVE DownAt(s, k)'
  <2>1. Carries(pathUp, bwd, s, k, destSent[s])
          => Carries(FALSE, bwd', s, k, destSent[s])
    BY <1>2, <1>3, CarriesCut
  <2> QED BY <1>1, <1>4, <2>1 DEF DownAt
<1> QED BY <1>1, <1>4 DEF DownInv, Listening, Early
-----------------------------------------------------------------------------
PipesInv ==
  AnswerInv /\ \A s \in Streams : UpInv(s) /\ DownInv(s)

LEMMA PipesStart ==
  ASSUME Init
  PROVE  PipesInv
<1>1. AnswerInv
  BY AnswerStart
<1>2. ASSUME NEW s \in Streams PROVE UpInv(s) /\ DownInv(s)
  <2>1. /\ fwd = <<>> /\ bwd = <<>> /\ conn = "idle" /\ task[s] = "none"
        /\ sent[s] = 0 /\ destQ[s] = <<>> /\ destGot[s] = <<>>
        /\ rx[s] = <<>> /\ got[s] = <<>> /\ destSent[s] = 0
        /\ Len(fwd) = 0 /\ Len(got[s]) = 0 /\ Len(rx[s]) = 0
    BY <1>2 DEF Init
  <2>2. Carries(TRUE, <<>>, s, 0, 0) /\ Carries(pathUp, <<>>, s, 0, 0)
    BY DEF Carries, Line, Full
  <2>3. UpInv(s)
    BY <2>1 DEF UpInv, BeginsFirst, HasBegin, Taken, Coming, Connecting
  <2>4. DownAt(s, 0)
    <3>1. 0 <= destSent[s]
      BY <2>1
    <3>2. /\ Carries(TRUE, rx[s], s, Len(got[s]), 0)
          /\ Carries(pathUp, bwd, s, 0, destSent[s])
      BY <2>1, <2>2, Zenon
    <3> QED BY <3>1, <3>2 DEF DownAt
  <2> QED BY <2>1, <2>3, <2>4 DEF DownInv
<1> QED BY <1>1, <1>2 DEF PipesInv

LEMMA PipesStep ==
  ASSUME PipesInv, [Next]_vars
  PROVE  PipesInv'
<1>1. AnswerInv'
  BY AnswerStep DEF PipesInv
<1>2. ASSUME NEW s \in Streams PROVE UpInv(s)' /\ DownInv(s)'
  <2>1. AnswerInv /\ UpInv(s) /\ DownInv(s)
    BY DEF PipesInv
  <2>2. ASSUME NEW t \in Streams, SelectCircuit(t) \/ HandlerStep(t)
        PROVE  UpInv(s)' /\ DownInv(s)'
    BY <2>1, <2>2, HandlerUp, HandlerDown
  <2>3. ASSUME NEW t \in Streams, TaskStep(t)
        PROVE  UpInv(s)' /\ DownInv(s)'
    BY <2>1, <2>3, TaskUp, TaskDown
  <2>4. CASE ReaderStep
    <3>1. UNCHANGED <<phase, sent, pathUp, fwd, exitVars>>
      BY <2>4 DEF ReaderStep, ReadCell, ReadEof, ReadDestroy, ReaderExit
    <3>2. UpInv(s)'
      BY <2>1, <3>1 DEF UpInv, Early, Taken, Coming, Connecting, Arrived,
         exitVars
    <3> QED BY <2>1, <2>4, <3>2, ReaderDown
  <2>5. CASE ConnStep \/ ConnEof  BY <2>1, <2>5, ConnUp, ConnDown
  <2>6. CASE PathBreaks  BY <2>1, <2>6, BreakUp, BreakDown
  <2>7. CASE UNCHANGED vars
    <3>1. UNCHANGED <<clientVars, exitVars, pathUp, fwd, bwd>>
      BY <2>7 DEF vars
    <3>2. UpInv(s)'
      BY <2>1, <3>1 DEF UpInv, Early, Taken, Coming, Connecting, Arrived,
         exitVars, clientVars
    <3>3. DownInv(s)'
      BY <2>1, <3>1 DEF DownInv, DownAt, Listening, Early, exitVars, clientVars
    <3> QED BY <3>2, <3>3
  <2> QED BY <2>2, <2>3, <2>4, <2>5, <2>6, <2>7 DEF Next
<1> QED BY <1>1, <1>2 DEF PipesInv

AllPipes == Streams \X {"up", "down"}
UpPipe(s) == <<s, "up">>
DownPipe(s) == <<s, "down">>

\* What StreamPipes counts or collects, from both ways.
Both(u, d) == [p \in AllPipes |-> IF p[2] = "up" THEN u[p[1]] ELSE d[p[1]]]

LEMMA OneChanged ==
  ASSUME NEW S, NEW f, NEW g, f = [x \in S |-> f[x]], g = [x \in S |-> g[x]],
         NEW a \in S, NEW e, \A x \in S : g[x] = IF x = a THEN e ELSE f[x]
  PROVE  g = [f EXCEPT ![a] = e]
<1> DEFINE h == [f EXCEPT ![a] = e]
<1>1. h = [x \in S |-> h[x]] /\ \A x \in S : g[x] = h[x]
  OBVIOUS
<1> HIDE DEF h
<1>2. g = h
  BY <1>1
<1> QED BY <1>2 DEF h

Written == Both(sent, destSent)
Received == Both(destGot, got)

LEMMA PipesAt ==
  /\ \A p \in AllPipes : \E t \in Streams : p = UpPipe(t) \/ p = DownPipe(t)
  /\ \A s, t \in Streams : /\ UpPipe(s) = UpPipe(t) <=> s = t
                           /\ DownPipe(s) = DownPipe(t) <=> s = t
                           /\ UpPipe(s) # DownPipe(t)
  /\ \A t \in Streams :
       /\ UpPipe(t) \in AllPipes /\ DownPipe(t) \in AllPipes
       /\ Written[UpPipe(t)] = sent[t] /\ Written[DownPipe(t)] = destSent[t]
       /\ Written'[UpPipe(t)] = sent'[t] /\ Written'[DownPipe(t)] = destSent'[t]
       /\ Received[UpPipe(t)] = destGot[t] /\ Received[DownPipe(t)] = got[t]
       /\ Received'[UpPipe(t)] = destGot'[t] /\ Received'[DownPipe(t)] = got'[t]
  /\ Written = [p \in AllPipes |-> Written[p]]
  /\ Written' = [p \in AllPipes |-> Written'[p]]
  /\ Received = [p \in AllPipes |-> Received[p]]
  /\ Received' = [p \in AllPipes |-> Received'[p]]
BY DEF AllPipes, UpPipe, DownPipe, Both, Written, Received

\* What is written into one pipe, or comes out of one, is a step of
\* StreamPipes; everything else leaves the pipes alone.
LEMMA PipesWrite ==
  ASSUME TypeInv, NEW s \in Streams, UNCHANGED <<destGot, got>>,
         \/ sent' = [sent EXCEPT ![s] = @ + 1] /\ UNCHANGED destSent
         \/ destSent' = [destSent EXCEPT ![s] = @ + 1] /\ UNCHANGED sent
  PROVE  Pipes!Next
<1>1. sent \in [Streams -> Nat] /\ destSent \in [Streams -> Nat]
  BY DEF TypeInv, TypeOK
<1>2. ASSUME NEW p \in AllPipes, NEW e, e = Written[p] + 1,
             \A q \in AllPipes : Written'[q] = IF q = p THEN e ELSE Written[q]
      PROVE  Pipes!Next
  <2>1. Received' = Received
    BY DEF Both, Received
  <2>2. Written' = [Written EXCEPT ![p] = e]
    BY <1>2, PipesAt, OneChanged
  <2> QED BY <1>2, <2>1, <2>2
             DEF Pipes!Next, Pipes!Write, AllPipes, Written, Received, Both
<1>3. CASE sent' = [sent EXCEPT ![s] = @ + 1] /\ UNCHANGED destSent
  <2>1. ASSUME NEW q \in AllPipes
        PROVE  Written'[q] = IF q = UpPipe(s) THEN Written[UpPipe(s)] + 1
                                              ELSE Written[q]
    <3>1. PICK t \in Streams : q = UpPipe(t) \/ q = DownPipe(t)
      BY PipesAt
    <3>2. CASE q = UpPipe(t)
      <4>1. /\ Written'[q] = sent'[t] /\ Written[q] = sent[t]
            /\ Written[UpPipe(s)] = sent[s] /\ (q = UpPipe(s) <=> t = s)
        BY <3>2, PipesAt
      <4> QED BY <1>1, <1>3, <4>1
    <3>3. CASE q = DownPipe(t)
      <4>1. /\ Written'[q] = destSent'[t] /\ Written[q] = destSent[t]
            /\ q # UpPipe(s)
        BY <3>3, PipesAt
      <4> QED BY <1>3, <4>1
    <3> QED BY <3>1, <3>2, <3>3
  <2>2. UpPipe(s) \in AllPipes
    BY PipesAt
  <2> QED BY <1>2, <2>1, <2>2
<1>4. CASE destSent' = [destSent EXCEPT ![s] = @ + 1] /\ UNCHANGED sent
  <2>1. ASSUME NEW q \in AllPipes
        PROVE  Written'[q] = IF q = DownPipe(s) THEN Written[DownPipe(s)] + 1
                                                ELSE Written[q]
    <3>1. PICK t \in Streams : q = UpPipe(t) \/ q = DownPipe(t)
      BY PipesAt
    <3>2. CASE q = DownPipe(t)
      <4>1. /\ Written'[q] = destSent'[t] /\ Written[q] = destSent[t]
            /\ Written[DownPipe(s)] = destSent[s] /\ (q = DownPipe(s) <=> t = s)
        BY <3>2, PipesAt
      <4> QED BY <1>1, <1>4, <4>1
    <3>3. CASE q = UpPipe(t)
      <4>1. /\ Written'[q] = sent'[t] /\ Written[q] = sent[t] /\ q # DownPipe(s)
        BY <3>3, PipesAt
      <4> QED BY <1>4, <4>1
    <3> QED BY <3>1, <3>2, <3>3
  <2>2. DownPipe(s) \in AllPipes
    BY PipesAt
  <2> QED BY <1>2, <2>1, <2>2
<1> QED BY <1>3, <1>4

LEMMA PipesDeliver ==
  ASSUME TypeInv, NEW s \in Streams, UNCHANGED <<sent, destSent>>,
         \/ /\ destGot' = [destGot EXCEPT ![s] = Append(@, Len(@) + 1)]
            /\ Len(destGot[s]) < sent[s] /\ UNCHANGED got
         \/ /\ got' = [got EXCEPT ![s] = Append(@, Len(@) + 1)]
            /\ Len(got[s]) < destSent[s] /\ UNCHANGED destGot
  PROVE  Pipes!Next
<1>1. got \in [Streams -> Seq(Nat)] /\ destGot \in [Streams -> Seq(Nat)]
  BY DEF TypeInv, TypeOK
<1>2. ASSUME NEW p \in AllPipes, Len(Received[p]) < Written[p],
             NEW e, e = Append(Received[p], Len(Received[p]) + 1),
             \A q \in AllPipes : Received'[q] = IF q = p THEN e ELSE Received[q]
      PROVE  Pipes!Next
  <2>1. Written' = Written
    BY DEF Both, Written
  <2>2. Received' = [Received EXCEPT ![p] = e]
    BY <1>2, PipesAt, OneChanged
  <2> QED BY <1>2, <2>1, <2>2
             DEF Pipes!Next, Pipes!Deliver, AllPipes, Written, Received, Both
<1>3. CASE /\ destGot' = [destGot EXCEPT ![s] = Append(@, Len(@) + 1)]
           /\ Len(destGot[s]) < sent[s] /\ UNCHANGED got
  <2> DEFINE e == Append(destGot[s], Len(destGot[s]) + 1)
  <2>1. ASSUME NEW q \in AllPipes
        PROVE  Received'[q] = IF q = UpPipe(s) THEN e ELSE Received[q]
    <3>1. PICK t \in Streams : q = UpPipe(t) \/ q = DownPipe(t)
      BY PipesAt
    <3>2. destGot'[t] = IF t = s THEN e ELSE destGot[t]
      BY <1>1, <1>3
    <3> HIDE DEF e
    <3>3. CASE q = UpPipe(t)
      <4>1. /\ Received'[q] = destGot'[t] /\ Received[q] = destGot[t]
            /\ Received[UpPipe(s)] = destGot[s] /\ (q = UpPipe(s) <=> t = s)
        BY <3>3, PipesAt
      <4> QED BY <3>2, <4>1
    <3>4. CASE q = DownPipe(t)
      <4>1. /\ Received'[q] = got'[t] /\ Received[q] = got[t] /\ q # UpPipe(s)
        BY <3>4, PipesAt
      <4> QED BY <1>3, <4>1
    <3> QED BY <3>1, <3>3, <3>4
  <2>2. /\ UpPipe(s) \in AllPipes /\ Received[UpPipe(s)] = destGot[s]
        /\ Written[UpPipe(s)] = sent[s]
    BY PipesAt
  <2> QED BY <1>2, <1>3, <2>1, <2>2
<1>4. CASE /\ got' = [got EXCEPT ![s] = Append(@, Len(@) + 1)]
           /\ Len(got[s]) < destSent[s] /\ UNCHANGED destGot
  <2> DEFINE e == Append(got[s], Len(got[s]) + 1)
  <2>1. ASSUME NEW q \in AllPipes
        PROVE  Received'[q] = IF q = DownPipe(s) THEN e ELSE Received[q]
    <3>1. PICK t \in Streams : q = UpPipe(t) \/ q = DownPipe(t)
      BY PipesAt
    <3>2. got'[t] = IF t = s THEN e ELSE got[t]
      BY <1>1, <1>4
    <3> HIDE DEF e
    <3>3. CASE q = DownPipe(t)
      <4>1. /\ Received'[q] = got'[t] /\ Received[q] = got[t]
            /\ Received[DownPipe(s)] = got[s] /\ (q = DownPipe(s) <=> t = s)
        BY <3>3, PipesAt
      <4> QED BY <3>2, <4>1
    <3>4. CASE q = UpPipe(t)
      <4>1. /\ Received'[q] = destGot'[t] /\ Received[q] = destGot[t]
            /\ q # DownPipe(s)
        BY <3>4, PipesAt
      <4> QED BY <1>4, <4>1
    <3> QED BY <3>1, <3>3, <3>4
  <2>2. /\ DownPipe(s) \in AllPipes /\ Received[DownPipe(s)] = got[s]
        /\ Written[DownPipe(s)] = destSent[s]
    BY PipesAt
  <2> QED BY <1>2, <1>4, <2>1, <2>2
<1> QED BY <1>3, <1>4

LEMMA PipesMapped ==
  ASSUME PipesInv, [Next]_vars
  PROVE  [Pipes!Next]_(Pipes!vars)
<1>1. TypeInv /\ TypeOK /\ \A s \in Streams : UpInv(s) /\ DownInv(s)
  BY DEF PipesInv, AnswerInv, TypeInv
<1>2. CASE UNCHANGED <<sent, destSent, destGot, got>>
  BY <1>2 DEF Pipes!vars
<1>3. ASSUME NEW t \in Streams, SocksData(t) PROVE Pipes!Next
  BY <1>1, <1>3, PipesWrite DEF SocksData, exitVars
<1>4. ASSUME NEW t \in Streams, TaskData(t) PROVE Pipes!Next
  BY <1>1, <1>4, PipesWrite DEF TaskData, clientVars
<1>5. ASSUME NEW t \in Streams, RecvMessage(t),
             ~UNCHANGED <<sent, destSent, destGot, got>>
      PROVE  Pipes!Next
  <2> DEFINE c == Head(rx[t])
  <2>1. /\ UNCHANGED <<sent, destSent, destGot>> /\ phase[t] = "relaying"
        /\ rx[t] # <<>>
        /\ c.cmd = "DATA" /\ got' = [got EXCEPT ![t] = Append(@, c.data)]
    BY <1>5 DEF RecvMessage, exitVars
  <2>2. /\ rx[t] \in Seq(CellType) /\ Len(got[t]) \in Nat
        /\ destSent[t] \in Nat
    BY <1>1, DownTyped
  <2>3. PICK k \in Nat : DownAt(t, k)
    BY <1>1, <2>1 DEF DownInv, Listening
  <2>4. Data(c, t)
    <3>1. 1 \in 1 .. Len(rx[t]) /\ c = rx[t][1]
      BY <2>1, <2>2
    <3> QED BY <1>1, <2>1, <3>1 DEF DownInv, Data
  <2>5. c.data = Len(got[t]) + 1 /\ Len(got[t]) + 1 <= k /\ k <= destSent[t]
    BY <2>1, <2>2, <2>3, <2>4, CarriesTail DEF DownAt
  <2>6. Len(got[t]) < destSent[t]
    BY <2>2, <2>5
  <2> QED BY <1>1, <2>1, <2>5, <2>6, PipesDeliver
<1>6. ASSUME NEW t \in Streams, TaskForward(t),
             ~UNCHANGED <<sent, destSent, destGot, got>>
      PROVE  Pipes!Next
  <2>1. /\ UNCHANGED <<sent, destSent, got>> /\ task[t] = "running"
        /\ destQ[t] # <<>>
        /\ destGot' = [destGot EXCEPT ![t] = Append(@, Head(destQ[t]))]
    BY <1>6 DEF TaskForward, clientVars
  <2> DEFINE a == Len(destGot[t])
             b == Len(destQ[t])
  <2>2. /\ destQ[t] \in Seq(Nat) /\ destGot[t] \in Seq(Nat)
        /\ sent[t] \in Nat
    BY <1>1 DEF TypeOK
  <2>3. a \in Nat /\ b \in Nat /\ b >= 1 /\ Head(destQ[t]) = destQ[t][1]
    BY <2>1, <2>2
  <2>4. a + b <= sent[t] /\ \A i \in 1 .. b : destQ[t][i] = a + i
    BY <1>1, <2>1 DEF UpInv, Arrived
  <2> HIDE DEF a, b
  <2>5. Head(destQ[t]) = a + 1 /\ a < sent[t]
    BY <2>2, <2>3, <2>4
  <2> QED BY <1>1, <2>1, <2>5, PipesDeliver DEF a
<1>7. ASSUME NEW t \in Streams, SelectCircuit(t) \/ HandlerStep(t)
      PROVE  \/ UNCHANGED <<sent, destSent, destGot, got>>
             \/ SocksData(t) \/ RecvMessage(t)
  BY <1>7 DEF HandlerStep, SelectCircuit, RegisterStream, SendBegin,
     SendBeginFails, RecvFirst, ChannelClosed, ConnectedTimeout, SocksReply,
     SocksReplyFails, SocksClose, CleanupEnd, CleanupUnregister, exitVars
<1>8. ASSUME NEW t \in Streams, TaskStep(t)
      PROVE  \/ UNCHANGED <<sent, destSent, destGot, got>>
             \/ TaskData(t) \/ TaskForward(t)
  BY <1>8 DEF TaskStep, TaskEnd, TaskDropped, clientVars
<1>9. CASE ReaderStep \/ PathBreaks
  BY <1>2, <1>9 DEF ReaderStep, ReadCell, ReadEof, ReadDestroy, ReaderExit,
     PathBreaks, clientVars, exitVars
<1>10. CASE ConnStep \/ ConnEof
  <2>1. UNCHANGED <<sent, destSent, destGot, got>>
    BY <1>10 DEF ConnStep, HandleBegin, HandleData, HandleEnd, ConnectOk,
       ConnectedWriteFails, ConnectFails, WriteReply, ConnEof, clientVars
  <2> QED BY <1>2, <2>1
<1>11. CASE UNCHANGED vars
  BY <1>2, <1>11 DEF vars, clientVars, exitVars
<1> QED
  BY <1>2, <1>3, <1>4, <1>5, <1>6, <1>7, <1>8, <1>9, <1>10, <1>11 DEF Next

\* The streams of a circuit are pipes: whatever overtakes, fails or is torn
\* down, payloads reach the destination and the SOCKS client in order, none
\* twice, none left out in between and none before it was sent.
THEOREM StreamsArePipes == Spec => ImplementsPipes
<1>1. Init => Pipes!Init
  BY DEF Init, Pipes!Init
<1>2. Spec => []PipesInv
  BY PipesStart, PipesStep, PTL DEF Spec
<1>3. PipesInv /\ [Next]_vars => [Pipes!Next]_(Pipes!vars)
  BY PipesMapped
<1> QED BY <1>1, <1>2, <1>3, PTL DEF Spec, ImplementsPipes, Pipes!Spec
=============================================================================
