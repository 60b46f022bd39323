------------------------ MODULE RelayCircuitsProofs ------------------------
(***************************************************************************)
(* Types and registry locks of RelayCircuits, and that every hop of a      *)
(* ready circuit answers to it (EstablishedWhenReady), for any clients,    *)
(* numbers and hops, with crashes and timeouts.                            *)
(*                                                                         *)
(* Locks.  A task that ends is the one that holds the lock, and then it    *)
(* lets go of it, or it had to take the lock to get there, and then nobody *)
(* else held it; so what is cited of each action is its guard on           *)
(* `extending`, and on `replying` at the exit.                             *)
(*                                                                         *)
(* Types.  They are inductive with two bounds: a build has fewer keys than *)
(* hops, and the last hop extends nothing.                                 *)
(*                                                                         *)
(* Established.  The client learns of a hop from an answer only, so the    *)
(* invariant says what an answer on its way stands for (Answers), and on   *)
(* the way back from there: that no cell but CREATE reaches a hop before   *)
(* the hop has handled it (Fresh), that a hop which extends is one of the  *)
(* circuit and waits for nothing but CREATED (Extends), and that a circuit *)
(* takes one next hop at a relay, once (NextKept).                         *)
(*                                                                         *)
(* It is stated of a circuit whose number is its own.  Steps of other      *)
(* circuits do not touch its slots, and most of its own steps change       *)
(* nothing the invariant speaks of: they are Quiet.                        *)
(***************************************************************************)
EXTENDS RelayCircuits, TLAPS

States == {"none", "open", "adding", "ended"}

\* Only a relay that runs has tasks that run.
TasksAlive ==
  \A i \in Relays, c \in Circuits :
    task[c][i] \in {"open", "adding"} => i \in alive

LockInv ==
  /\ alive \subseteq Relays
  /\ extending \in [Relays -> Circuits \union {None}]
  /\ task \in [Circuits -> [Relays -> States]]
  /\ TasksAlive
  /\ LocksHeld

LockSame == UNCHANGED <<alive, extending, task>>

\* A task ends: its relay's lock is free afterwards, or was another task's.
LEMMA EndKeeps ==
  ASSUME LockInv, NEW c \in Circuits, NEW i \in Relays, UNCHANGED alive,
         Ends(c, i) \/ UNCHANGED task,
         \/ extending' = [extending EXCEPT ![i] = None]
         \/ UNCHANGED extending /\ (extending[i] # c \/ UNCHANGED task)
  PROVE  LockInv'
<1>1. /\ task' \in [Circuits -> [Relays -> States]]
      /\ extending' \in [Relays -> Circuits \union {None}]
  BY DEF LockInv, Ends, States
<1>2. \A j \in Relays, d \in Circuits :
        task'[d][j] = task[d][j] \/ task'[d][j] = "ended"
  BY DEF LockInv, Ends
<1>3. ASSUME NEW j \in Relays, NEW d \in Circuits, extending'[j] = d
      PROVE  j \in alive' /\ task'[d][j] = "open"
  <2>1. extending[j] = d /\ (d # c \/ j # i \/ UNCHANGED task)
    BY <1>3, NoneAssumption DEF LockInv
  <2>2. j \in alive /\ task[d][j] = "open"
    BY <2>1 DEF LockInv, LocksHeld
  <2>3. task'[d][j] = task[d][j]
    BY <2>1 DEF LockInv, Ends
  <2> QED BY <2>2, <2>3
<1> QED BY <1>1, <1>2, <1>3 DEF LockInv, TasksAlive, LocksHeld

\* A task at a relay that runs goes from one state to another that is not the
\* end; with the lock it stays open.
LEMMA MoveKeeps ==
  ASSUME LockInv, NEW c \in Circuits, NEW i \in alive,
         UNCHANGED <<alive, extending>>,
         NEW s \in States, task' = [task EXCEPT ![c][i] = s],
         s = "open" \/ extending[i] # c
  PROVE  LockInv'
<1>1. i \in Relays /\ task' \in [Circuits -> [Relays -> States]]
  BY DEF LockInv
<1>2. /\ task'[c][i] = s
      /\ \A j \in Relays, d \in Circuits :
           d # c \/ j # i => task'[d][j] = task[d][j]
  BY <1>1 DEF LockInv
<1>3. TasksAlive'
  BY <1>1, <1>2 DEF LockInv, TasksAlive
<1>4. ASSUME NEW j \in Relays, NEW d \in Circuits, extending'[j] = d
      PROVE  j \in alive' /\ task'[d][j] = "open"
  <2>1. extending[j] = d /\ j \in alive /\ task[d][j] = "open"
    BY <1>4 DEF LockInv, LocksHeld
  <2> QED BY <1>2, <2>1
<1> QED BY <1>1, <1>3, <1>4 DEF LockInv, LocksHeld

LEMMA TaskKeeps ==
  ASSUME LockInv, extending[Hops] = None,
         NEW c \in Circuits, NEW i \in Relays, TaskStep(c, i)
  PROVE  LockInv'
<1>1. CASE HandleCreate(c, i)
  <2>1. /\ extending[i] # c /\ UNCHANGED <<alive, extending>>
        /\ task[c][i] = "open" /\ task' = [task EXCEPT ![c][i] = "adding"]
    BY <1>1 DEF HandleCreate, Has, Busy
  <2>2. i \in alive
    BY <2>1 DEF LockInv, TasksAlive
  <2> QED BY <2>1, <2>2, MoveKeeps DEF States
<1>2. CASE AddCircuit(c, i)
  <2>1. i \in alive
    BY <1>2 DEF AddCircuit, LockInv, TasksAlive
  <2> QED BY <1>2, <2>1, MoveKeeps DEF AddCircuit, States
<1>3. CASE HandleExtend(c, i)
  <2>1. /\ extending[i] = None /\ task[c][i] = "open" /\ UNCHANGED alive
        /\ \/ /\ extending' = [extending EXCEPT ![i] = c]
              /\ task' = [task EXCEPT ![c][i + 1] = "open"]
              /\ i + 1 \in alive
           \/ UNCHANGED extending /\ Ends(c, i)
    BY <1>3 DEF HandleExtend, Has, Unlocked
  <2>2. CASE UNCHANGED extending /\ Ends(c, i)
    BY <2>1, <2>2, EndKeeps, NoneAssumption
  <2>3. CASE /\ extending' = [extending EXCEPT ![i] = c]
             /\ task' = [task EXCEPT ![c][i + 1] = "open"]
             /\ i + 1 \in alive
    <3>1. i + 1 \in Relays /\ i \in alive /\ i + 1 # i
      BY <2>1, <2>3 DEF LockInv, TasksAlive, Relays
    <3>2. /\ task' \in [Circuits -> [Relays -> States]]
          /\ extending' \in [Relays -> Circuits \union {None}]
      BY <2>3, <3>1 DEF LockInv, States
    <3>3. /\ task'[c][i + 1] = "open"
          /\ \A j \in Relays, d \in Circuits :
               d # c \/ j # i + 1 => task'[d][j] = task[d][j]
      BY <2>3, <3>1 DEF LockInv
    <3>4. TasksAlive'
      BY <2>1, <2>3, <3>3 DEF LockInv, TasksAlive
    <3>5. ASSUME NEW j \in Relays, NEW d \in Circuits, extending'[j] = d
          PROVE  j \in alive' /\ task'[d][j] = "open"
      <4>1. (j = i /\ d = c) \/ extending[j] = d
        BY <2>3, <3>5 DEF LockInv
      <4>2. j \in alive /\ task[d][j] = "open"
        BY <2>1, <3>1, <4>1 DEF LockInv, LocksHeld
      <4> QED BY <2>1, <3>3, <4>2
    <3> QED BY <2>1, <3>2, <3>4, <3>5 DEF LockInv, LocksHeld
  <2> QED BY <2>1, <2>2, <2>3
<1>4. CASE ExtendDone(c, i)
  <2>1. /\ extending' = [extending EXCEPT ![i] = None] /\ UNCHANGED alive
        /\ UNCHANGED task \/ Ends(c, i)
    BY <1>4 DEF ExtendDone
  <2> QED BY <2>1, EndKeeps
<1>5. CASE ExtendFails(c, i)
  BY <1>5, EndKeeps DEF ExtendFails
<1>6. CASE HandleRelay(c, i)
  <2>1. /\ extending[i] = None /\ UNCHANGED <<alive, extending>>
        /\ UNCHANGED task \/ Ends(c, i)
    BY <1>6 DEF HandleRelay, Unlocked
  <2> QED BY <2>1, EndKeeps, NoneAssumption
<1>7. CASE i = Hops /\ HandleAtExit(c)
  <2>1. /\ extending[i] = None /\ UNCHANGED <<alive, extending>>
        /\ UNCHANGED task \/ Ends(c, i)
    BY <1>7 DEF HandleAtExit, Unlocked
  <2> QED BY <2>1, EndKeeps, NoneAssumption
<1>8. CASE ConnEof(c, i)
  BY <1>8, EndKeeps DEF ConnEof, Busy
<1>9. CASE i = Hops /\ TagReply(c)
  BY <1>9, EndKeeps DEF TagReply, relayVars
<1>10. CASE i = Hops /\ WriteReply(c)
  <2>1. /\ extending[i] # c /\ UNCHANGED <<alive, extending>>
        /\ UNCHANGED task \/ Ends(c, i)
    BY <1>10, NoneAssumption DEF WriteReply
  <2> QED BY <2>1, EndKeeps
<1> QED BY <1>1, <1>2, <1>3, <1>4, <1>5, <1>6, <1>7, <1>8, <1>9, <1>10
  DEF TaskStep

\* A crash takes the relay's tasks and its lock with it.
LEMMA DieKeeps ==
  ASSUME LockInv, NEW r \in Relays, Die(r)
  PROVE  LockInv'
<1> DEFINE crashed(c) == [task[c] EXCEPT ![r] = IF @ = "none" THEN @ ELSE "ended"]
<1>1. /\ alive' = alive \ {r} /\ extending' = [extending EXCEPT ![r] = None]
      /\ task' = [c \in Circuits |-> crashed(c)]
  BY DEF Die
<1>2. ASSUME NEW c \in Circuits
      PROVE  /\ task'[c] \in [Relays -> States]
             /\ task'[c][r] \in {"none", "ended"}
             /\ \A j \in Relays : j # r => task'[c][j] = task[c][j]
  BY <1>1, <1>2 DEF LockInv, States
<1>3. task' \in [Circuits -> [Relays -> States]]
  BY <1>1, <1>2
<1> HIDE DEF crashed
<1>4. TasksAlive'
  BY <1>1, <1>2 DEF LockInv, TasksAlive
<1>5. ASSUME NEW j \in Relays, NEW d \in Circuits, extending'[j] = d
      PROVE  j \in alive' /\ task'[d][j] = "open"
  <2>1. j # r /\ extending[j] = d
    BY <1>1, <1>5, NoneAssumption DEF LockInv
  <2> QED BY <1>1, <1>2, <2>1 DEF LockInv, LocksHeld
<1> QED BY <1>1, <1>3, <1>4, <1>5 DEF LockInv, LocksHeld

LEMMA LockInit == Init => LockInv
BY NoneAssumption DEF Init, LockInv, TasksAlive, LocksHeld, States

LEMMA LockStep ==
  ASSUME LockInv, extending[Hops] = None, [Next]_vars
  PROVE  LockInv'
<1>1. CASE LockSame
  BY <1>1 DEF LockSame, LockInv, TasksAlive, LocksHeld
<1>2. ASSUME NEW c \in Circuits, Connect(c) PROVE LockInv'
  BY <1>2, MoveKeeps DEF Connect, States
<1>3. ASSUME NEW c \in Circuits, NEW i \in Relays, TaskStep(c, i)
      PROVE  LockInv'
  BY <1>3, TaskKeeps
<1>4. ASSUME NEW r \in Relays, Die(r) PROVE LockInv'
  BY <1>4, DieKeeps
<1>5. ASSUME NEW c \in Circuits, NEW i \in Relays,
             ReaderStep(c, i) \/ LoseTail(c, i)
      PROVE  LockSame
  BY <1>5 DEF ReaderStep, Backward, EntryDestroy, ReaderEnds, ReaderEof,
     LoseTail, LockSame, relayVars
<1>6. ASSUME NEW c \in Circuits,
             \/ ConnectFails(c) \/ ClientStep(c) \/ SendData(c)
             \/ Release(c) \/ ExitSend(c) \/ StreamsEnd(c)
      PROVE  LockSame
  BY <1>6 DEF ConnectFails, ClientStep, HandshakeAnswer, BuildFails,
     ReadCell, ReadEof, SendData, Release, ExitSend, StreamsEnd, LockSame,
     relayVars
<1>7. CASE UNCHANGED vars
  BY <1>1, <1>7 DEF vars, relayVars, LockSame
<1> QED BY <1>1, <1>2, <1>3, <1>4, <1>5, <1>6, <1>7 DEF Next

\* The exit's reply: of a task that runs and is at nothing else.
ReplyInv ==
  /\ replying \in Circuits \union {None} /\ tag \in Nat
  /\ overtaken \subseteq Circuits
  /\ RepliesHeld

LEMMA ReplyStep ==
  ASSUME LockInv, ReplyInv, exitSent \in [Circuits -> Nat],
         Hops \in Relays, extending[Hops] = None, [Next]_vars
  PROVE  ReplyInv'
<1>1. ASSUME UNCHANGED <<alive, replying>>, tag' \in Nat,
             overtaken' \subseteq Circuits,
             \/ UNCHANGED task
             \/ \E c \in Circuits, i \in Relays, st \in States :
                  /\ task' = [task EXCEPT ![c][i] = st]
                  /\ st = "open" \/ replying # c \/ i # Hops
      PROVE  ReplyInv'
  BY <1>1 DEF ReplyInv, RepliesHeld, LockInv
<1>2. ASSUME NEW c \in Circuits, Connect(c) PROVE ReplyInv'
  <2>1. 1 \in Relays /\ "open" \in States
    BY HopsAssumption DEF Relays, States
  <2>2. /\ UNCHANGED <<alive, replying, tag, overtaken>>
        /\ task' = [task EXCEPT ![c][1] = "open"]
    BY <1>2 DEF Connect, exitVars, replyVars
  <2> QED BY <1>1, <2>1, <2>2 DEF ReplyInv
<1>3. ASSUME NEW c \in Circuits,
             \/ ConnectFails(c) \/ ClientStep(c) \/ SendData(c)
             \/ Release(c) \/ StreamsEnd(c)
      PROVE  ReplyInv'
  BY <1>1, <1>3 DEF ConnectFails, ClientStep, HandshakeAnswer, BuildFails,
     ReadCell, ReadEof, SendData, Release, StreamsEnd, relayVars, exitVars,
     replyVars, ReplyInv
<1>4. ASSUME NEW c \in Circuits, ExitSend(c) PROVE ReplyInv'
  <2>1. overtaken' \subseteq Circuits
    BY <1>4 DEF ExitSend, ReplyInv
  <2> QED BY <1>1, <1>4, <2>1 DEF ExitSend, relayVars, replyVars, ReplyInv
<1>5. ASSUME NEW c \in Circuits, NEW i \in Relays,
             ReaderStep(c, i) \/ LoseTail(c, i)
      PROVE  ReplyInv'
  BY <1>1, <1>5 DEF ReaderStep, Backward, EntryDestroy, ReaderEnds, ReaderEof,
     LoseTail, relayVars, exitVars, replyVars, ReplyInv
<1>6. ASSUME NEW c \in Circuits, NEW i \in Relays, TaskStep(c, i)
      PROVE  ReplyInv'
  <2>1. CASE HandleCreate(c, i) \/ AddCircuit(c, i) \/ ConnEof(c, i)
    BY <1>1, <2>1 DEF HandleCreate, AddCircuit, ConnEof, Has, Busy, Ends,
      Unlocked, States, exitVars, replyVars, ReplyInv
  <2>2. CASE HandleExtend(c, i)
    <3>1. /\ UNCHANGED <<alive, exitVars>>
          /\ \/ i + 1 \in alive /\ task' = [task EXCEPT ![c][i + 1] = "open"]
             \/ Ends(c, i)
          /\ replying # c \/ i # Hops
      BY <2>2 DEF HandleExtend, Has, Busy
    <3> QED BY <1>1, <3>1 DEF Ends, States, exitVars, replyVars, ReplyInv,
          LockInv
  <2>3. CASE ExtendDone(c, i) \/ ExtendFails(c, i)
    <3>1. /\ UNCHANGED <<alive, replying, tag, overtaken>> /\ extending[i] = c
          /\ UNCHANGED task \/ task' = [task EXCEPT ![c][i] = "ended"]
      BY <2>3 DEF ExtendDone, ExtendFails, Ends, exitVars, replyVars
    <3>2. i # Hops /\ "ended" \in States
      BY <3>1, NoneAssumption DEF States
    <3> QED BY <1>1, <3>1, <3>2 DEF ReplyInv
  <2>4. CASE HandleRelay(c, i)
    <3>1. /\ UNCHANGED <<alive, replying, tag, overtaken>> /\ i # Hops
          /\ UNCHANGED task \/ task' = [task EXCEPT ![c][i] = "ended"]
      BY <2>4, HopsAssumption DEF HandleRelay, Ends, exitVars, replyVars
    <3>2. "ended" \in States
      BY DEF States
    <3> QED BY <1>1, <3>1, <3>2 DEF ReplyInv
  <2>5. CASE i = Hops /\ HandleAtExit(c)
    <3>1. /\ UNCHANGED <<alive, tag, overtaken>>
          /\ \/ UNCHANGED replying /\ (UNCHANGED task \/ Ends(c, Hops))
             \/ replying' = c /\ UNCHANGED task
          /\ replying # c /\ task[c][Hops] = "open"
      BY <2>5 DEF HandleAtExit, Has, Busy
    <3>2. CASE UNCHANGED replying
      BY <1>1, <3>1, <3>2 DEF Ends, States, ReplyInv
    <3>3. CASE replying' = c /\ UNCHANGED task
      BY <3>1, <3>3, NoneAssumption DEF ReplyInv, RepliesHeld, LockInv,
        TasksAlive
    <3> QED BY <3>1, <3>2, <3>3
  <2>6. CASE i = Hops /\ TagReply(c)
    <3>1. tag' \in Nat
      BY <2>6 DEF TagReply
    <3> QED BY <1>1, <2>6, <3>1 DEF TagReply, relayVars, ReplyInv
  <2>7. CASE i = Hops /\ WriteReply(c)
    BY <2>7, NoneAssumption DEF WriteReply, ReplyInv, RepliesHeld
  <2> QED BY <1>6, <2>1, <2>2, <2>3, <2>4, <2>5, <2>6, <2>7 DEF TaskStep
<1>7. ASSUME NEW r \in Relays, Die(r) PROVE ReplyInv'
  <2>1. /\ replying' \in {None, replying} /\ (r = Hops => replying' = None)
        /\ tag' \in Nat /\ UNCHANGED overtaken /\ alive' = alive \ {r}
    BY <1>7 DEF Die, ReplyInv
  <2>2. ASSUME NEW d \in Circuits, replying' = d
        PROVE  Hops \in alive' /\ task'[d][Hops] = "open"
    <3>1. replying = d /\ r # Hops
      BY <2>1, <2>2, NoneAssumption
    <3>2. task'[d] = [task[d] EXCEPT ![r] = IF @ = "none" THEN @ ELSE "ended"]
      BY <1>7 DEF Die
    <3>3. task'[d][Hops] = task[d][Hops]
      BY <3>1, <3>2 DEF LockInv
    <3> QED BY <2>1, <3>1, <3>3 DEF ReplyInv, RepliesHeld
  <2> QED BY <2>1, <2>2, NoneAssumption DEF ReplyInv, RepliesHeld
<1>8. CASE UNCHANGED vars
  BY <1>1, <1>8 DEF vars, relayVars, exitVars, replyVars, ReplyInv
<1> QED BY <1>2, <1>3, <1>4, <1>5, <1>6, <1>7, <1>8 DEF Next

-----------------------------------------------------------------------------
(* The rest of the types.                                                  *)

Wires == [Circuits -> [Relays -> Seq(CellType)]]
Registries == [Relays -> [Numbers -> HandlerType]]
Counts == [Circuits -> [Relays -> Nat]]

ClientShapes ==
  /\ client \in [Circuits -> {"idle", "building", "ready", "closed",
                              "mismatch", "failed", "gone"}]
  /\ keys \in [Circuits -> 0 .. Hops] /\ cfwd \in Counts /\ cbwd \in Counts
  /\ sent \in [Circuits -> Nat] /\ got \in [Circuits -> Seq(Nat)]
  /\ \A c \in Circuits : client[c] \in {"idle", "building"} => keys[c] < Hops

RelayShapes ==
  /\ registry \in Registries
  /\ reader \in [Circuits -> [Relays -> {"none", "running", "ended"}]]
  /\ \A i \in Relays : extending[i] # None => i < Hops

WireShapes == down \in Wires /\ up \in Wires

ExitShapes ==
  /\ serving \subseteq Circuits
  /\ exitSent \in [Circuits -> Nat] /\ exitGot \in [Circuits -> Seq(Nat)]

Shapes == ClientShapes /\ RelayShapes /\ WireShapes /\ ExitShapes

LEMMA HopsFacts == /\ Hops \in Relays /\ 1 \in Relays /\ Hops \in Nat /\ Hops >= 3
                   /\ \A i \in Relays : i \in Nat /\ (i < Hops => i + 1 \in Relays)
BY HopsAssumption DEF Relays

LEMMA CellTyped ==
  ASSUME NEW cmd \in {"CREATE", "CREATED", "EXTEND", "EXTENDED", "DATA",
                      "DESTROY"},
         NEW n \in Nat, NEW layers \in Layers
  PROVE  Cell(cmd, n, layers) \in CellType
BY DEF Cell, CellType

LEMMA CellFields ==
  ASSUME NEW cell \in CellType
  PROVE  /\ cell.n \in Nat /\ cell.layers \in Layers
         /\ \A layers \in Layers : [cell EXCEPT !.layers = layers] \in CellType
BY DEF CellType

LEMMA BlockTyped ==
  ASSUME NEW c \in Circuits \union {None}, NEW i \in Relays,
         NEW dir \in {"f", "b"}, NEW n \in Nat
  PROVE  /\ {Block(c, i, dir, n)} \in Layers
         /\ \A layers \in Layers : Apply(layers, Block(c, i, dir, n)) \in Layers
BY DEF Block, Layers, Apply

\* What is written to a connection or taken from it.
LEMMA PutTyped ==
  ASSUME NEW ch \in Wires, NEW c, NEW i, NEW cell \in CellType
  PROVE  /\ [ch EXCEPT ![c][i] = Append(@, cell)] \in Wires
         /\ PutDown(ch, c, i, cell) \in Wires /\ PutUp(ch, c, i, cell) \in Wires
<1>1. [ch EXCEPT ![c][i] = Append(@, cell)] \in Wires
  <2>1. CASE c \in Circuits /\ i \in Relays
    <3>1. Append(ch[c][i], cell) \in Seq(CellType)
      BY <2>1 DEF Wires
    <3> QED BY <2>1, <3>1 DEF Wires
  <2>2. CASE c \notin Circuits
    BY <2>2 DEF Wires
  <2>3. CASE c \in Circuits /\ i \notin Relays
    BY <2>3 DEF Wires
  <2> QED BY <2>1, <2>2, <2>3
<1> QED BY <1>1 DEF PutDown, PutUp

LEMMA SetTyped ==
  ASSUME NEW ch \in Wires, NEW c \in Circuits, NEW i \in Relays,
         NEW s \in Seq(CellType)
  PROVE  [ch EXCEPT ![c][i] = s] \in Wires
BY DEF Wires

LEMMA HeadTyped ==
  ASSUME NEW ch \in Wires, NEW c \in Circuits, NEW i \in Relays,
         ch[c][i] # <<>>
  PROVE  /\ Head(ch[c][i]) \in CellType
         /\ [ch EXCEPT ![c][i] = Tail(@)] \in Wires
<1>1. ch[c][i] \in Seq(CellType)
  BY DEF Wires
<1>2. Head(ch[c][i]) \in CellType /\ Tail(ch[c][i]) \in Seq(CellType)
  BY <1>1
<1> QED BY <1>2, SetTyped

\* The handler a number names, and what becomes of it.
LEMMA HandlerMoves ==
  ASSUME NEW h \in HandlerType
  PROVE  /\ [h EXCEPT !.fwd = @ + 1] \in HandlerType
         /\ [h EXCEPT !.bwd = @ + 1] \in HandlerType
         /\ [h EXCEPT !.next = TRUE] \in HandlerType
<1>1. [h EXCEPT !.fwd = @ + 1] \in HandlerType  BY DEF HandlerType
<1>2. [h EXCEPT !.bwd = @ + 1] \in HandlerType  BY DEF HandlerType
<1>3. [h EXCEPT !.next = TRUE] \in HandlerType  BY DEF HandlerType
<1> QED BY <1>1, <1>2, <1>3

LEMMA SlotMoves ==
  ASSUME NEW R \in Registries, NEW i \in Relays, NEW n \in Numbers
  PROVE  /\ [R EXCEPT ![i][n].fwd = @ + 1] \in Registries
         /\ [R EXCEPT ![i][n].bwd = @ + 1] \in Registries
         /\ [R EXCEPT ![i][n].next = TRUE] \in Registries
<1>1. R[i][n] \in HandlerType
  BY DEF Registries
<1>2. \A g \in HandlerType : [R EXCEPT ![i][n] = g] \in Registries
  BY DEF Registries
<1>3. ASSUME NEW h, NEW g \in HandlerType, h = R[i][n],
             g = [h EXCEPT !.fwd = @ + 1]
      PROVE  [R EXCEPT ![i][n].fwd = @ + 1] \in Registries
  <2>1. [R EXCEPT ![i][n] = g] = [R EXCEPT ![i][n].fwd = @ + 1]
    BY <1>3, Zenon
  <2> QED BY <2>1, <1>2
<1>4. ASSUME NEW h, NEW g \in HandlerType, h = R[i][n],
             g = [h EXCEPT !.bwd = @ + 1]
      PROVE  [R EXCEPT ![i][n].bwd = @ + 1] \in Registries
  <2>1. [R EXCEPT ![i][n] = g] = [R EXCEPT ![i][n].bwd = @ + 1]
    BY <1>4, Zenon
  <2> QED BY <2>1, <1>2
<1>5. ASSUME NEW h, NEW g \in HandlerType, h = R[i][n],
             g = [h EXCEPT !.next = TRUE]
      PROVE  [R EXCEPT ![i][n].next = TRUE] \in Registries
  <2>1. [R EXCEPT ![i][n] = g] = [R EXCEPT ![i][n].next = TRUE]
    BY <1>5, Zenon
  <2> QED BY <2>1, <1>2
<1> QED BY <1>1, <1>3, <1>4, <1>5, HandlerMoves, Zenon

LEMMA HandlersTyped ==
  ASSUME RelayShapes, NEW c \in Circuits, NEW i \in Relays
  PROVE  /\ registry[i][Id(c)] \in HandlerType
         /\ Peeled(i, c) \in Registries
         /\ [registry EXCEPT ![i][Id(c)].bwd = @ + 1] \in Registries
         /\ [registry EXCEPT ![i][Id(c)].next = TRUE,
                             ![i][Id(c)].bwd = @ + 1] \in Registries
         /\ [registry EXCEPT ![i][Id(c)] = Handler(c)] \in Registries
<1>1. Id(c) \in Numbers
  BY DEF Id, Circuits
<1>2. registry \in Registries /\ registry[i][Id(c)] \in HandlerType
  BY <1>1 DEF RelayShapes, Registries
<1>3. Peeled(i, c) \in Registries
  BY <1>1, <1>2, SlotMoves DEF Peeled
<1>4. [registry EXCEPT ![i][Id(c)].bwd = @ + 1] \in Registries
  BY <1>1, <1>2, SlotMoves
<1>5. [registry EXCEPT ![i][Id(c)].next = TRUE, ![i][Id(c)].bwd = @ + 1]
        \in Registries
  <2> DEFINE R == [registry EXCEPT ![i][Id(c)].next = TRUE]
  <2>1. [registry EXCEPT ![i][Id(c)].next = TRUE, ![i][Id(c)].bwd = @ + 1]
          = [R EXCEPT ![i][Id(c)].bwd = @ + 1]
    OBVIOUS
  <2>2. R \in Registries
    BY <1>1, <1>2, SlotMoves
  <2> HIDE DEF R
  <2>3. [R EXCEPT ![i][Id(c)].bwd = @ + 1] \in Registries
    BY <1>1, <2>2, SlotMoves
  <2> QED BY <2>1, <2>3
<1>6. [registry EXCEPT ![i][Id(c)] = Handler(c)] \in Registries
  <2>1. Handler(c) \in HandlerType
    BY DEF Handler, HandlerType
  <2> QED BY <1>1, <1>2, <2>1 DEF Registries
<1> QED BY <1>2, <1>3, <1>4, <1>5, <1>6

\* The client: the layers it puts on, and a key more at a time.
LEMMA LayersTyped ==
  ASSUME ClientShapes, NEW c \in Circuits, NEW k \in Nat, k <= Hops
  PROVE  ForwardLayers(c, k) \in Layers
<1>1. \A j \in 1 .. k : j \in Relays /\ cfwd[c][j] \in Nat
  BY HopsFacts DEF ClientShapes, Counts, Relays
<1> QED BY <1>1 DEF ForwardLayers, Block, Layers

LEMMA AdvanceTyped ==
  ASSUME NEW f \in Counts, NEW c \in Circuits, NEW k \in Nat
  PROVE  Advance(f, c, k) \in Counts
<1>1. [j \in Relays |-> IF j <= k THEN f[c][j] + 1 ELSE f[c][j]]
        \in [Relays -> Nat]
  BY HopsFacts DEF Counts
<1> QED BY <1>1 DEF Advance, Counts

LEMMA NoLayers == {} \in Layers
BY DEF Layers

LEMMA ClientTyped ==
  ASSUME Shapes, NEW c \in Circuits,
         \/ Connect(c) \/ ConnectFails(c) \/ ClientStep(c) \/ SendData(c)
         \/ Release(c)
  PROVE  Shapes'
<1>1. CASE Connect(c)
  <2>1. Cell("CREATE", 1, {}) \in CellType
    BY CellTyped, NoLayers
  <2>2. <<Cell("CREATE", 1, {})>> \in Seq(CellType)
    BY <2>1
  <2>3. [down EXCEPT ![c][1] = <<Cell("CREATE", 1, {})>>] \in Wires
    BY <2>2, SetTyped, HopsFacts DEF Shapes, WireShapes
  <2>4. ClientShapes'
    BY <1>1 DEF Connect, Shapes, ClientShapes
  <2> QED BY <1>1, <2>3, <2>4 DEF Connect, Shapes, RelayShapes, WireShapes,
    ExitShapes, exitVars
<1>2. CASE \/ ConnectFails(c) \/ BuildFails(c) \/ ReadEof(c) \/ Release(c)
  <2>1. ClientShapes'
    BY <1>2 DEF ConnectFails, BuildFails, ReadEof, Release, Shapes,
      ClientShapes
  <2> QED BY <1>2, <2>1 DEF ConnectFails, BuildFails, ReadEof, Release, Shapes,
    RelayShapes, WireShapes, ExitShapes, exitVars, relayVars
<1>3. CASE HandshakeAnswer(c)
  <2> DEFINE k == keys[c]
  <2>1. /\ k \in Nat /\ k < Hops /\ k + 1 \in 0 .. Hops
        /\ k + 1 # Hops => k + 1 < Hops
    BY <1>3, HopsFacts DEF HandshakeAnswer, Shapes, ClientShapes
  <2>2. TakeUp(c, 1) \in Wires
    BY <1>3, HeadTyped, HopsFacts DEF HandshakeAnswer, TakeUp, Shapes,
      WireShapes
  <2>3. CASE client' = [client EXCEPT ![c] = "failed"]
             /\ UNCHANGED <<keys, cfwd, cbwd, down>>
    <3>1. ClientShapes'
      BY <1>3, <2>3 DEF HandshakeAnswer, Shapes, ClientShapes
    <3> QED BY <1>3, <2>2, <2>3, <3>1 DEF HandshakeAnswer, Shapes, RelayShapes,
      WireShapes, ExitShapes, exitVars, relayVars
  <2>4. CASE /\ keys' = [keys EXCEPT ![c] = k + 1]
             /\ cbwd' = Advance(cbwd, c, k)
             /\ \/ /\ client' = [client EXCEPT ![c] = "ready"]
                   /\ UNCHANGED <<cfwd, down>>
                \/ /\ down' = PutDown(down, c, 1,
                          Cell("EXTEND", k + 2, ForwardLayers(c, k + 1)))
                   /\ cfwd' = Advance(cfwd, c, k + 1)
                   /\ k + 1 # Hops
                   /\ UNCHANGED client
    <3>1. cbwd' \in Counts /\ cfwd' \in Counts
      BY <2>1, <2>4, AdvanceTyped DEF Shapes, ClientShapes
    <3>2. down' \in Wires
      <4>1. Cell("EXTEND", k + 2, ForwardLayers(c, k + 1)) \in CellType
        BY <2>1, CellTyped, LayersTyped DEF Shapes
      <4>2. down \in Wires
        BY DEF Shapes, WireShapes
      <4>3. PutDown(down, c, 1, Cell("EXTEND", k + 2, ForwardLayers(c, k + 1)))
              \in Wires
        BY <4>1, <4>2, PutTyped
      <4> QED BY <2>4, <4>2, <4>3
    <3>3. ClientShapes'
      BY <1>3, <2>1, <2>4, <3>1 DEF HandshakeAnswer, Shapes, ClientShapes
    <3> QED BY <1>3, <2>2, <3>2, <3>3 DEF HandshakeAnswer, Shapes, RelayShapes,
      WireShapes, ExitShapes, exitVars, relayVars
  <2> QED BY <1>3, <2>3, <2>4 DEF HandshakeAnswer
<1>4. CASE SendData(c)
  <2>1. sent[c] + 1 \in Nat /\ cfwd' \in Counts
    BY <1>4, AdvanceTyped, HopsFacts DEF SendData, Shapes, ClientShapes
  <2>2. Cell("DATA", sent[c] + 1, ForwardLayers(c, Hops)) \in CellType
    BY <2>1, CellTyped, LayersTyped, HopsFacts DEF Shapes
  <2>3. down' \in Wires
    BY <1>4, <2>2, PutTyped DEF SendData, Shapes, WireShapes
  <2>4. ClientShapes'
    BY <1>4, <2>1 DEF SendData, Shapes, ClientShapes
  <2> QED BY <1>4, <2>3, <2>4 DEF SendData, Shapes, RelayShapes, WireShapes,
    ExitShapes, exitVars, relayVars
<1>5. CASE ReadCell(c)
  <2> DEFINE m == Head(up[c][1])
  <2>1. TakeUp(c, 1) \in Wires /\ m \in CellType
    BY <1>5, HeadTyped, HopsFacts DEF ReadCell, TakeUp, Shapes, WireShapes
  <2>2. cbwd' \in Counts
    BY <1>5, AdvanceTyped, HopsFacts DEF ReadCell, Shapes, ClientShapes
  <2>3. m.n \in Nat
    BY <2>1, CellFields
  <2>4. got' \in [Circuits -> Seq(Nat)]
    <3>1. UNCHANGED got \/ got' = [got EXCEPT ![c] = Append(@, m.n)]
      BY <1>5 DEF ReadCell
    <3>2. got \in [Circuits -> Seq(Nat)] /\ Append(got[c], m.n) \in Seq(Nat)
      BY <2>3 DEF Shapes, ClientShapes
    <3> QED BY <3>1, <3>2
  <2>5. ClientShapes'
    <3>1. /\ UNCHANGED <<keys, cfwd, sent>> /\ client[c] = "ready"
          /\ \/ UNCHANGED client \/ client' = [client EXCEPT ![c] = "closed"]
             \/ client' = [client EXCEPT ![c] = "mismatch"]
      BY <1>5 DEF ReadCell
    <3> QED BY <2>2, <2>4, <3>1 DEF Shapes, ClientShapes
  <2> QED BY <1>5, <2>1, <2>5 DEF ReadCell, Shapes, RelayShapes, WireShapes,
    ExitShapes, exitVars, relayVars
<1> QED BY <1>1, <1>2, <1>3, <1>4, <1>5 DEF ClientStep

\* A relay's connection task.
ReplyCell(c) == Cell("DATA", tag, {Block(c, Hops, "b", tag - 1)})

LEMMA ReplyCellTyped ==
  ASSUME ReplyInv, NEW c \in Circuits, WriteReply(c)
  PROVE  ReplyCell(c) \in CellType
<1>1. tag \in Nat /\ tag - 1 \in Nat
  BY DEF ReplyInv, WriteReply
<1> QED BY <1>1, HopsFacts, BlockTyped, CellTyped DEF ReplyCell

LEMMA TaskTyped ==
  ASSUME Shapes, LockInv, ReplyInv, NEW c \in Circuits, NEW i \in Relays, TaskStep(c, i)
  PROVE  Shapes'
<1> DEFINE h == registry[i][Id(c)]
           m == Head(down[c][i])
<1>1. /\ h \in HandlerType /\ h.key \in Circuits \union {None}
      /\ h.fwd \in Nat /\ h.bwd \in Nat
  BY HandlersTyped DEF Shapes, HandlerType
<1>2. down \in Wires /\ up \in Wires /\ RelayShapes
  BY DEF Shapes, WireShapes
<1>3. ASSUME down[c][i] # <<>>
      PROVE  /\ TakeDown(c, i) \in Wires /\ m \in CellType
             /\ Peel(h, i, m) \in Layers
             /\ [m EXCEPT !.layers = Peel(h, i, m)] \in CellType
  <2>1. m \in CellType /\ TakeDown(c, i) \in Wires
    BY <1>2, <1>3, HeadTyped DEF TakeDown
  <2>2. Peel(h, i, m) \in Layers
    BY <1>1, <2>1, CellFields, BlockTyped DEF Peel
  <2> QED BY <2>1, <2>2, CellFields
<1> HIDE DEF h, m
<1>4. CASE HandleCreate(c, i)
  <2>1. Cell("CREATED", i, {}) \in CellType
    BY CellTyped, NoLayers, HopsFacts
  <2>2. up' \in Wires /\ down' \in Wires
    BY <1>2, <1>3, <1>4, <2>1, PutTyped DEF HandleCreate, Has
  <2> QED BY <1>4, <2>2 DEF HandleCreate, Shapes, ClientShapes, RelayShapes,
    WireShapes, ExitShapes, clientVars, exitVars
<1>5. CASE AddCircuit(c, i)
  <2>1. registry' \in Registries
    BY <1>2, <1>5, HandlersTyped DEF AddCircuit
  <2> QED BY <1>5, <2>1 DEF AddCircuit, Shapes, ClientShapes, RelayShapes,
    WireShapes, ExitShapes, clientVars, exitVars
<1>6. CASE HandleExtend(c, i)
  <2>1. /\ TakeDown(c, i) \in Wires /\ registry' \in Registries
        /\ UNCHANGED <<clientVars, reader, up, exitVars>>
    BY <1>2, <1>3, <1>6, HandlersTyped DEF HandleExtend, Has
  <2>2. \/ /\ extending' = [extending EXCEPT ![i] = c] /\ i + 1 \in alive
           /\ down' = [TakeDown(c, i) EXCEPT ![c][i + 1] =
                         <<Cell("CREATE", i + 1, {})>>]
        \/ UNCHANGED extending /\ down' = TakeDown(c, i)
    BY <1>6 DEF HandleExtend
  <2>3. CASE UNCHANGED extending /\ down' = TakeDown(c, i)
    BY <2>1, <2>3 DEF Shapes, ClientShapes, RelayShapes,
      WireShapes, ExitShapes, clientVars, exitVars
  <2>4. CASE /\ extending' = [extending EXCEPT ![i] = c] /\ i + 1 \in alive
             /\ down' = [TakeDown(c, i) EXCEPT ![c][i + 1] =
                           <<Cell("CREATE", i + 1, {})>>]
    <3>1. i + 1 \in Relays /\ i < Hops /\ i + 1 \in Nat
      BY <2>4, HopsFacts DEF LockInv, Relays
    <3>2. <<Cell("CREATE", i + 1, {})>> \in Seq(CellType)
      <4>1. Cell("CREATE", i + 1, {}) \in CellType
        BY <3>1, CellTyped, NoLayers
      <4> QED BY <4>1
    <3>3. down' \in Wires
      BY <2>1, <2>4, <3>1, <3>2, SetTyped
    <3>4. \A j \in Relays : extending'[j] # None => j < Hops
      BY <2>4, <3>1, <1>2 DEF RelayShapes, LockInv
    <3> QED BY <2>1, <3>3, <3>4 DEF Shapes, ClientShapes, RelayShapes,
      WireShapes, ExitShapes, clientVars, exitVars
  <2> QED BY <2>2, <2>3, <2>4
<1>7. CASE ExtendDone(c, i)
  <2> DEFINE n == Head(up[c][i + 1])
             answer == Cell("EXTENDED", n.n, {Block(h.key, i, "b", h.bwd)})
  <2>1. i + 1 \in Relays
    BY <1>2, <1>7, HopsFacts, NoneAssumption DEF ExtendDone, RelayShapes
  <2>2. n \in CellType /\ TakeUp(c, i + 1) \in Wires
    BY <1>2, <1>7, <2>1, HeadTyped DEF ExtendDone, TakeUp
  <2>3. answer \in CellType
    BY <1>1, <2>2, CellFields, BlockTyped, CellTyped
  <2>4. PutUp(TakeUp(c, i + 1), c, i, answer) \in Wires
    BY <2>2, <2>3, PutTyped
  <2> HIDE DEF n
  <2>5. up' = PutUp(TakeUp(c, i + 1), c, i, answer) \/ up' = TakeUp(c, i + 1)
    BY <1>7 DEF ExtendDone, h, n
  <2>6. up' \in Wires /\ registry' \in Registries
    <3>1. registry' = [registry EXCEPT ![i][Id(c)].next = TRUE,
                                       ![i][Id(c)].bwd = @ + 1]
      BY <1>7 DEF ExtendDone
    <3>2. registry' \in Registries
      BY <1>2, <3>1, HandlersTyped
    <3> QED BY <2>2, <2>4, <2>5, <3>2
  <2>7. /\ reader' \in [Circuits -> [Relays -> {"none", "running", "ended"}]]
        /\ UNCHANGED <<clientVars, down, exitVars>>
    <3>1. /\ UNCHANGED reader \/ reader' = [reader EXCEPT ![c][i] = "running"]
          /\ UNCHANGED <<clientVars, down, exitVars>>
      BY <1>7 DEF ExtendDone
    <3> QED BY <1>2, <3>1 DEF RelayShapes
  <2>8. \A j \in Relays : extending'[j] # None => j < Hops
    BY <1>2, <1>7 DEF ExtendDone, RelayShapes, LockInv
  <2> QED BY <2>6, <2>7, <2>8 DEF Shapes, ClientShapes, RelayShapes,
    WireShapes, ExitShapes, clientVars, exitVars
<1>8. CASE ExtendFails(c, i)
  <2>1. \A j \in Relays : extending'[j] # None => j < Hops
    BY <1>2, <1>8 DEF ExtendFails, RelayShapes, LockInv
  <2> QED BY <1>8, <2>1 DEF ExtendFails, Shapes, ClientShapes, RelayShapes,
    WireShapes, ExitShapes, clientVars, exitVars
<1>9. CASE HandleRelay(c, i)
  <2> DEFINE peeled == [m EXCEPT !.layers = Peel(h, i, m)]
  <2>1. down[c][i] # <<>>
    BY <1>9 DEF HandleRelay, Has
  <2>2. PutDown(TakeDown(c, i), h.key, i + 1, peeled) \in Wires
    BY <1>3, <2>1, PutTyped
  <2>3. \/ down' = PutDown(TakeDown(c, i), h.key, i + 1, peeled)
        \/ down' = TakeDown(c, i)
    BY <1>9 DEF HandleRelay, h, m
  <2>4. down' \in Wires /\ registry' \in Registries
    BY <1>2, <1>3, <1>9, <2>1, <2>2, <2>3, HandlersTyped DEF HandleRelay
  <2> QED BY <1>9, <2>4 DEF HandleRelay, Shapes, ClientShapes, RelayShapes,
    WireShapes, ExitShapes, clientVars, exitVars
<1>10. CASE i = Hops /\ HandleAtExit(c)
  <2>1. m \in CellType /\ down' \in Wires /\ registry' \in Registries
    BY <1>2, <1>3, <1>10, HandlersTyped DEF HandleAtExit, Has
  <2>2. m.n \in Nat
    BY <2>1, CellFields
  <2>3. /\ exitGot' = [exitGot EXCEPT ![c] = Append(@, m.n)]
             \/ UNCHANGED exitGot
        /\ serving' = serving \union {c} \/ UNCHANGED serving
    BY <1>10 DEF HandleAtExit, m
  <2>4. exitGot' \in [Circuits -> Seq(Nat)] /\ serving' \subseteq Circuits
    <3>1. exitGot \in [Circuits -> Seq(Nat)]
          /\ Append(exitGot[c], m.n) \in Seq(Nat) /\ serving \subseteq Circuits
      BY <2>2 DEF Shapes, ExitShapes
    <3> QED BY <2>3, <3>1
  <2> QED BY <1>10, <2>1, <2>4 DEF HandleAtExit, Shapes, ClientShapes,
    RelayShapes, WireShapes, ExitShapes, clientVars, exitVars
<1>11. CASE ConnEof(c, i)
  BY <1>11 DEF ConnEof, Shapes, ClientShapes, RelayShapes, WireShapes,
    ExitShapes, clientVars, exitVars
<1>12. CASE i = Hops /\ TagReply(c)
  <2>1. exitSent' \in [Circuits -> Nat]
    BY <1>12 DEF TagReply, Shapes, ExitShapes
  <2> QED BY <1>12, <2>1 DEF TagReply, Shapes, ClientShapes, RelayShapes,
    WireShapes, ExitShapes, clientVars, relayVars
<1>13. CASE i = Hops /\ WriteReply(c)
  <2>1. up' \in {up, PutUp(up, c, Hops, ReplyCell(c))}
    BY <1>13 DEF WriteReply, ReplyCell
  <2>2. up' \in Wires
    <3>1. ReplyCell(c) \in CellType
      BY <1>13, ReplyCellTyped
    <3>2. PutUp(up, c, Hops, ReplyCell(c)) \in Wires
      BY <1>2, <3>1, PutTyped
    <3> QED BY <1>2, <2>1, <3>2
  <2> QED BY <1>13, <2>2 DEF WriteReply, Shapes, ClientShapes, RelayShapes,
    WireShapes, ExitShapes, clientVars
<1> QED BY <1>4, <1>5, <1>6, <1>7, <1>8, <1>9, <1>10, <1>11, <1>12, <1>13
  DEF TaskStep

\* A next-hop reader.
LEMMA ReaderTyped ==
  ASSUME Shapes, NEW c \in Circuits, NEW i \in Relays, ReaderStep(c, i)
  PROVE  Shapes'
<1>1. /\ i < Hops /\ i + 1 \in Relays
      /\ reader' \in [Circuits -> [Relays -> {"none", "running", "ended"}]]
      /\ UNCHANGED <<clientVars, extending, down, exitVars>>
  BY HopsFacts DEF ReaderStep, Backward, EntryDestroy, ReaderEof, ReaderEnds,
    Shapes, RelayShapes
<1>2. up \in Wires /\ down \in Wires /\ RelayShapes
  BY DEF Shapes, WireShapes
<1>3. Destroy \in CellType
  BY CellTyped, NoLayers DEF Destroy
<1>4. up' \in Wires /\ registry' \in Registries
  <2>1. CASE Backward(c, i)
    <3> DEFINE h == registry[i][Id(c)]
               m == Head(up[c][i + 1])
               layered ==
                 [m EXCEPT !.layers = Apply(@, Block(h.key, i, "b", h.bwd))]
    <3>1. m \in CellType /\ TakeUp(c, i + 1) \in Wires
      BY <1>1, <1>2, <2>1, HeadTyped DEF Backward, TakeUp
    <3>2. h.key \in Circuits \union {None} /\ h.bwd \in Nat
      BY <1>2, HandlersTyped DEF HandlerType
    <3>3. Apply(m.layers, Block(h.key, i, "b", h.bwd)) \in Layers
      BY <3>1, <3>2, CellFields, BlockTyped
    <3>4. layered \in CellType
      BY <3>1, <3>3, CellFields
    <3>5. /\ PutUp(TakeUp(c, i + 1), c, i, layered) \in Wires
          /\ PutUp(TakeUp(c, i + 1), c, i, m) \in Wires
      BY <3>1, <3>4, PutTyped
    <3> HIDE DEF m, h
    <3>6. \/ up' = PutUp(TakeUp(c, i + 1), c, i, layered)
          \/ up' = PutUp(TakeUp(c, i + 1), c, i, m)
          \/ up' = TakeUp(c, i + 1)
      BY <2>1 DEF Backward, m, h
    <3>7. registry' \in Registries
      BY <1>2, <2>1, HandlersTyped DEF Backward, RelayShapes
    <3> QED BY <3>1, <3>5, <3>6, <3>7
  <2>2. CASE i = 1 /\ EntryDestroy(c)
    <3>1. 2 \in Relays /\ up[c][2] # <<>>
      BY <1>1, <2>2 DEF EntryDestroy
    <3>2. TakeUp(c, 2) \in Wires
      BY <1>2, <3>1, HeadTyped DEF TakeUp
    <3>3. PutUp(TakeUp(c, 2), c, 1, Destroy) \in Wires
      BY <1>3, <3>2, PutTyped
    <3> QED BY <1>2, <2>2, <3>3 DEF EntryDestroy, ReaderEnds, RelayShapes
  <2>3. CASE ReaderEof(c, i)
    <3>1. PutUp(up, c, i, Destroy) \in Wires
      BY <1>2, <1>3, PutTyped
    <3> QED BY <1>2, <2>3, <3>1 DEF ReaderEof, ReaderEnds, RelayShapes
  <2> QED BY <2>1, <2>2, <2>3 DEF ReaderStep
<1> QED BY <1>1, <1>4 DEF Shapes, ClientShapes, RelayShapes, WireShapes,
  ExitShapes, clientVars, exitVars

\* The exit's stream tasks.
LEMMA StreamTyped ==
  ASSUME Shapes, NEW c \in Circuits, ExitSend(c) \/ StreamsEnd(c)
  PROVE  Shapes'
<1>1. CASE ExitSend(c)
  <2>1. exitSent[c] \in Nat /\ exitSent[c] + 1 \in Nat
    BY DEF Shapes, ExitShapes
  <2>2. Cell("DATA", exitSent[c] + 1, {Block(c, Hops, "b", exitSent[c])})
          \in CellType
    BY <2>1, HopsFacts, BlockTyped, CellTyped
  <2>3. up' \in Wires
    BY <1>1, <2>2, PutTyped DEF ExitSend, Shapes, WireShapes
  <2>4. ExitShapes'
    BY <1>1, <2>1 DEF ExitSend, Shapes, ExitShapes
  <2> QED BY <1>1, <2>3, <2>4 DEF ExitSend, Shapes, ClientShapes, RelayShapes,
    WireShapes, clientVars, relayVars
<1>2. CASE StreamsEnd(c)
  <2>1. ExitShapes'
    BY <1>2 DEF StreamsEnd, Shapes, ExitShapes
  <2> QED BY <1>2, <2>1 DEF StreamsEnd, Shapes, ClientShapes, RelayShapes,
    WireShapes, clientVars, relayVars
<1> QED BY <1>1, <1>2

\* A crash, and what it loses.
LEMMA CrashTyped ==
  ASSUME Shapes, LockInv, NEW r \in Relays, Die(r)
  PROVE  Shapes'
<1>1. /\ down \in Wires /\ up \in Wires /\ registry \in Registries
      /\ <<>> \in Seq(CellType)
  BY DEF Shapes, WireShapes, RelayShapes
<1>2. down' \in Wires
  <2>1. \A c \in Circuits :
          [down[c] EXCEPT ![r] = <<>>] \in [Relays -> Seq(CellType)]
    BY <1>1 DEF Wires
  <2> QED BY <2>1 DEF Die, Wires
<1>3. up' \in Wires
  <2>1. \A c \in Circuits :
          /\ [up[c] EXCEPT ![r + 1] = <<>>] \in [Relays -> Seq(CellType)]
          /\ up[c] \in [Relays -> Seq(CellType)]
    BY <1>1 DEF Wires
  <2> QED BY <2>1 DEF Die, Wires
<1>4. reader' \in [Circuits -> [Relays -> {"none", "running", "ended"}]]
  <2> DEFINE crashed(c) ==
               [reader[c] EXCEPT ![r] = IF @ = "none" THEN @ ELSE "ended"]
  <2>1. \A c \in Circuits :
          crashed(c) \in [Relays -> {"none", "running", "ended"}]
    BY DEF Shapes, RelayShapes
  <2>2. reader' = [c \in Circuits |-> crashed(c)]
    BY DEF Die
  <2> HIDE DEF crashed
  <2> QED BY <2>1, <2>2
<1>5. registry' \in Registries
  <2>1. NoHandler \in HandlerType
    BY DEF NoHandler, Handler, HandlerType
  <2>2. [n \in Numbers |-> NoHandler] \in [Numbers -> HandlerType]
    BY <2>1
  <2> QED BY <1>1, <2>2 DEF Die, Registries
<1>6. \A j \in Relays : extending'[j] # None => j < Hops
  BY DEF Die, Shapes, RelayShapes, LockInv
<1>7. ExitShapes' /\ UNCHANGED clientVars
  BY DEF Die, Shapes, ExitShapes
<1> QED BY <1>2, <1>3, <1>4, <1>5, <1>6, <1>7 DEF Shapes, ClientShapes,
  RelayShapes, WireShapes, clientVars

LEMMA LossTyped ==
  ASSUME Shapes, NEW c \in Circuits, NEW i \in Relays, LoseTail(c, i)
  PROVE  Shapes'
<1>1. ASSUME NEW ch \in Wires, ch[c][i] # <<>>
      PROVE  [ch EXCEPT ![c][i] = Shorten(@)] \in Wires
  <2>1. ch[c][i] \in Seq(CellType)
    BY DEF Wires
  <2>2. Shorten(ch[c][i]) \in Seq(CellType)
    BY <1>1, <2>1 DEF Shorten
  <2> QED BY <2>2, SetTyped
<1>2. down' \in Wires /\ up' \in Wires
  BY <1>1 DEF LoseTail, Shapes, WireShapes
<1> QED BY <1>2 DEF LoseTail, Shapes, ClientShapes, RelayShapes, WireShapes,
  ExitShapes, clientVars, relayVars, exitVars

RelayInv == LockInv /\ Shapes /\ ReplyInv

LEMMA RelayInvariant == Spec => []RelayInv
<1>1. Init => RelayInv
  <2> SUFFICES ASSUME Init PROVE RelayInv
    OBVIOUS
  <2>1. LockInv
    BY LockInit
  <2>2. ClientShapes
    BY HopsFacts DEF Init, ClientShapes, Counts
  <2>3. RelayShapes
    <3>1. NoHandler \in HandlerType
      BY DEF NoHandler, Handler, HandlerType
    <3> QED BY <3>1 DEF Init, RelayShapes, Registries
  <2>4. WireShapes /\ ExitShapes
    BY DEF Init, WireShapes, Wires, ExitShapes
  <2>5. ReplyInv
    BY NoneAssumption DEF Init, ReplyInv, RepliesHeld
  <2> QED BY <2>1, <2>2, <2>3, <2>4, <2>5 DEF RelayInv, Shapes
<1>2. RelayInv /\ [Next]_vars => RelayInv'
  <2> SUFFICES ASSUME LockInv, Shapes, ReplyInv, [Next]_vars PROVE Shapes'
    <3>1. ASSUME RelayInv
          PROVE  /\ Hops \in Relays /\ exitSent \in [Circuits -> Nat]
                 /\ extending[Hops] = None
      BY <3>1, HopsFacts DEF RelayInv, Shapes, RelayShapes, ExitShapes
    <3> QED BY <3>1, LockStep, ReplyStep DEF RelayInv
  <2>1. ASSUME NEW c \in Circuits,
               \/ Connect(c) \/ ConnectFails(c) \/ ClientStep(c) \/ SendData(c)
               \/ Release(c)
        PROVE  Shapes'
    BY <2>1, ClientTyped
  <2>2. ASSUME NEW c \in Circuits, ExitSend(c) \/ StreamsEnd(c)
        PROVE  Shapes'
    BY <2>2, StreamTyped
  <2>3. ASSUME NEW c \in Circuits, NEW i \in Relays, TaskStep(c, i)
        PROVE  Shapes'
    BY <2>3, TaskTyped
  <2>4. ASSUME NEW c \in Circuits, NEW i \in Relays, ReaderStep(c, i)
        PROVE  Shapes'
    BY <2>4, ReaderTyped
  <2>5. ASSUME NEW c \in Circuits, NEW i \in Relays, LoseTail(c, i)
        PROVE  Shapes'
    BY <2>5, LossTyped
  <2>6. ASSUME NEW r \in Relays, Die(r) PROVE Shapes'
    BY <2>6, CrashTyped
  <2>7. CASE UNCHANGED vars
    BY <2>7 DEF vars, clientVars, relayVars, exitVars, Shapes, ClientShapes,
      RelayShapes, WireShapes, ExitShapes
  <2> QED BY <2>1, <2>2, <2>3, <2>4, <2>5, <2>6, <2>7 DEF Next
<1> QED BY <1>1, <1>2, PTL DEF Spec

\* Every variable keeps its type, and no registry lock outlives the task that
\* took it.
THEOREM RelayTypeCorrect == Spec => []TypeOK
<1>1. RelayInv => TypeOK
  BY DEF RelayInv, LockInv, Shapes, ClientShapes, RelayShapes, WireShapes,
    ExitShapes, ReplyInv, Wires, Registries, Counts, States, TypeOK
<1> QED BY <1>1, RelayInvariant, PTL
-----------------------------------------------------------------------------
(* Established.                                                            *)

Cells(s) == {s[j] : j \in 1 .. Len(s)}

Mine(c, i) == registry[i][Id(c)].key = c
HasNext(c, i) == registry[i][Id(c)].next

\* Hop i has handled CREATE, and a hop with a next one.
Added(c, i) == i \in alive => Mine(c, i) \/ task[c][i] = "adding"
Linked(c, i) == i \in alive => Mine(c, i) /\ HasNext(c, i)

\* A slot of the registry is of a circuit with that number.
Own ==
  \A i \in Relays, n \in Numbers :
    registry[i][n].key # None => Id(registry[i][n].key) = n

ClientKnows(c) ==
  /\ client[c] = "idle" => task[c][1] = "none"
  /\ client[c] = "ready" => keys[c] = Hops
  /\ \A i \in Relays : keys[c] >= i => Added(c, i)
  /\ \A i \in Relays : keys[c] > i => Linked(c, i)

NotYet(c, i) ==
  task[c][i] = "none" =>
    /\ ~Mine(c, i) /\ reader[c][i] = "none" /\ up[c][i] = <<>>
    /\ i = Hops => c \notin serving
    /\ i < Hops => task[c][i + 1] = "none"

Fresh(c, i) ==
  i \in alive =>
    /\ task[c][i] = "adding" => ~Mine(c, i)
    /\ task[c][i] = "open" /\ ~Mine(c, i) =>
         \A m \in Cells(down[c][i]) : m.cmd = "CREATE"
    /\ \A m \in Cells(down[c][i]) : m.cmd = "CREATE" =>
         Len(down[c][i]) = 1 /\ task[c][i] # "adding" /\ ~Mine(c, i)
    /\ i < Hops /\ ~Mine(c, i) /\ task[c][i] \in {"open", "adding"} =>
         task[c][i + 1] = "none"

NextKept(c, i) ==
  i \in alive /\ i < Hops /\ Mine(c, i) =>
    /\ task[c][i] = "open" /\ task[c][i + 1] # "none" =>
         HasNext(c, i) \/ extending[i] = c
    /\ HasNext(c, i) => Added(c, i + 1)

Extends(c, i) ==
  extending[i] = c =>
    /\ Mine(c, i) /\ extending[i + 1] # c /\ reader[c][i + 1] = "none"
    /\ i + 1 = Hops => c \notin serving
    /\ \A m \in Cells(down[c][i + 1]) : m.cmd = "CREATE"
    /\ \A m \in Cells(up[c][i + 1]) : m.cmd = "CREATED"

\* What an answer on the way from hop i stands for.
Stands(c, i, m) ==
  /\ m.cmd = "CREATED" => m.n = i /\ Added(c, i)
  /\ m.cmd = "EXTENDED" =>
       /\ m.n \in Relays /\ i < m.n
       /\ Added(c, m.n) /\ Linked(c, m.n - 1)

Answers(c, i) == \A m \in Cells(up[c][i]) : Stands(c, i, m)

CircuitInv(c) ==
  /\ ClientKnows(c)
  /\ \A i \in Relays : /\ NotYet(c, i) /\ Fresh(c, i) /\ NextKept(c, i)
                       /\ Extends(c, i) /\ Answers(c, i)

\* Nobody extends to a hop that owes a reply.
ReplyKnown(c) == replying = c => extending[Hops - 1] # c

EstInv ==
  Own /\ \A c \in Circuits : Alone(c) => CircuitInv(c) /\ ReplyKnown(c)
-----------------------------------------------------------------------------
(* Channels as sets of cells.                                              *)

LEMMA CellsOf ==
  ASSUME NEW S, NEW s \in Seq(S)
  PROVE  /\ s # <<>> => /\ Head(s) \in Cells(s)
                        /\ Cells(Tail(s)) \subseteq Cells(s)
                        /\ Len(Tail(s)) = Len(s) - 1
         /\ s # <<>> => /\ Cells(Shorten(s)) \subseteq Cells(s)
                        /\ Len(Shorten(s)) = Len(s) - 1
         /\ \A e : Cells(Append(s, e)) = Cells(s) \union {e}
         /\ Cells(s) = {} => s = <<>>
         /\ Len(s) \in Nat
         /\ (\E e : e \in Cells(s)) => Len(s) >= 1
         /\ Len(s) = 0 => Cells(s) = {}
<1>1. ASSUME s # <<>>
      PROVE  /\ Head(s) = s[1] /\ Len(s) \in Nat /\ Len(s) >= 1
             /\ Len(Tail(s)) = Len(s) - 1
             /\ \A j \in 1 .. Len(s) - 1 : Tail(s)[j] = s[j + 1]
  BY <1>1
<1>2. ASSUME s # <<>>
      PROVE  Head(s) \in Cells(s) /\ Cells(Tail(s)) \subseteq Cells(s)
  BY <1>1, <1>2 DEF Cells
<1>3. ASSUME s # <<>>
      PROVE  Cells(Shorten(s)) \subseteq Cells(s)
             /\ Len(Shorten(s)) = Len(s) - 1
  <2> DEFINE k == Len(s) - 1
  <2>1. k \in Nat /\ k \in 0 .. Len(s)
    <3>1. Len(s) \in Nat /\ Len(s) >= 1
      BY <1>1, <1>3
    <3> QED BY <3>1
  <2>2. k = Len(s) - 1 /\ Shorten(s) = SubSeq(s, 1, k)
    BY DEF Shorten
  <2> HIDE DEF k
  <2>3. /\ Len(SubSeq(s, 1, k)) = k
        /\ \A j \in 1 .. k : SubSeq(s, 1, k)[j] = s[j]
    BY <2>1
  <2>4. \A j \in 1 .. k : j \in 1 .. Len(s)
    BY <2>1
  <2> QED BY <2>2, <2>3, <2>4 DEF Cells
<1>4. ASSUME NEW e PROVE Cells(Append(s, e)) = Cells(s) \union {e}
  <2>1. /\ Len(Append(s, e)) = Len(s) + 1 /\ Len(s) \in Nat
        /\ \A j \in 1 .. Len(s) : Append(s, e)[j] = s[j]
        /\ Append(s, e)[Len(s) + 1] = e
    OBVIOUS
  <2> QED BY <2>1 DEF Cells
<1>5. Cells(s) = {} => s = <<>>
  BY <1>2
<1>6. /\ Len(s) \in Nat
      /\ (\E e : e \in Cells(s)) => Len(s) >= 1
  BY DEF Cells
<1>7. Len(s) = 0 => Cells(s) = {}
  BY <1>6
<1> QED BY <1>1, <1>2, <1>3, <1>4, <1>5, <1>6, <1>7

\* Taking a cell from a wire, and putting one on it, seen from any wire.
LEMMA TakeMoves ==
  ASSUME NEW ch \in Wires, NEW d \in Circuits, NEW j \in Relays,
         ch[d][j] # <<>>, NEW c \in Circuits, NEW i \in Relays
  PROVE  /\ [ch EXCEPT ![d][j] = Tail(@)] \in Wires
         /\ Cells([ch EXCEPT ![d][j] = Tail(@)][c][i]) \subseteq Cells(ch[c][i])
         /\ Len([ch EXCEPT ![d][j] = Tail(@)][c][i]) <= Len(ch[c][i])
         /\ d # c \/ j # i =>
              [ch EXCEPT ![d][j] = Tail(@)][c][i] = ch[c][i]
         /\ [ch EXCEPT ![d][j] = Tail(@)][d][j] = Tail(ch[d][j])
         /\ Head(ch[d][j]) \in Cells(ch[d][j])
<1>1. /\ ch[d][j] \in Seq(CellType) /\ ch[c][i] \in Seq(CellType)
  BY DEF Wires
<1>2. /\ Cells(Tail(ch[d][j])) \subseteq Cells(ch[d][j])
      /\ Len(Tail(ch[d][j])) <= Len(ch[d][j])
      /\ Head(ch[d][j]) \in Cells(ch[d][j])
  BY <1>1, CellsOf
<1>3. Len(ch[c][i]) \in Nat
  BY <1>1
<1> QED BY <1>2, <1>3, HeadTyped DEF Wires

LEMMA PutMoves ==
  ASSUME NEW ch \in Wires, NEW d, NEW j, NEW cell \in CellType,
         NEW c \in Circuits, NEW i \in Relays
  PROVE  /\ d # c \/ j # i => /\ PutDown(ch, d, j, cell)[c][i] = ch[c][i]
                              /\ PutUp(ch, d, j, cell)[c][i] = ch[c][i]
         /\ Cells(PutDown(ch, d, j, cell)[c][i])
              \subseteq Cells(ch[c][i]) \union {cell}
         /\ Cells(PutUp(ch, d, j, cell)[c][i])
              \subseteq Cells(ch[c][i]) \union {cell}
<1>1. ch[c][i] \in Seq(CellType)
  BY DEF Wires
<1>2. Cells(Append(ch[c][i], cell)) = Cells(ch[c][i]) \union {cell}
  BY <1>1, CellsOf
<1>3. d # c \/ j # i =>
        [ch EXCEPT ![d][j] = Append(@, cell)][c][i] = ch[c][i]
  BY DEF Wires
<1>4. [ch EXCEPT ![c][i] = Append(@, cell)][c][i] = Append(ch[c][i], cell)
  BY DEF Wires
<1>5. /\ PutDown(ch, d, j, cell)
           \in {ch, [ch EXCEPT ![d][j] = Append(@, cell)]}
      /\ PutUp(ch, d, j, cell) \in {ch, [ch EXCEPT ![d][j] = Append(@, cell)]}
  BY DEF PutDown, PutUp
<1> QED BY <1>2, <1>3, <1>4, <1>5
-----------------------------------------------------------------------------
\* A step is quiet for a circuit if tasks at most end, what is written is no
\* news, what is learnt is so, and a next hop is kept that has been added.
HopQuiet(c, i) ==
  /\ Mine(c, i)' = Mine(c, i) /\ (HasNext(c, i) => HasNext(c, i)')
  /\ HasNext(c, i)' => HasNext(c, i) \/ (i < Hops /\ Added(c, i + 1))
  /\ \/ task'[c][i] = task[c][i]
     \/ task[c][i] = "open" /\ task'[c][i] = "ended"
  /\ extending'[i] = c => extending[i] = c
  /\ extending[i] = c =>
       extending'[i] = c \/ task'[c][i] = "ended" \/ HasNext(c, i)'
  /\ reader[c][i] = "none" =>
       \/ reader'[c][i] = "none"
       \/ task[c][i] # "none" /\ (i > 1 => extending[i - 1] # c)

DownQuiet(c, i) ==
  \/ /\ Cells(down'[c][i]) \subseteq Cells(down[c][i])
     /\ Len(down'[c][i]) <= Len(down[c][i])
  \/ /\ Added(c, i) /\ (i > 1 => extending[i - 1] # c)
     /\ \A m \in Cells(down'[c][i]) :
          m \in Cells(down[c][i]) \/ m.cmd # "CREATE"

UpQuiet(c, i) ==
  \A m \in Cells(up'[c][i]) :
    \/ m \in Cells(up[c][i])
    \/ /\ Stands(c, i, m) \/ Stands(c, i, m)'
       /\ task[c][i] # "none" /\ (i > 1 => extending[i - 1] # c)

ClientQuiet(c) ==
  /\ client'[c] = "idle" => client[c] = "idle"
  /\ client'[c] = "ready" => keys'[c] = Hops
  /\ \A i \in Relays : /\ keys'[c] >= i => keys[c] >= i \/ Added(c, i)
                       /\ keys'[c] > i => keys[c] > i \/ Linked(c, i)

ExitQuiet(c) ==
  c \in serving' =>
    c \in serving \/ (task[c][Hops] # "none" /\ extending[Hops - 1] # c)

Quiet(c) ==
  /\ UNCHANGED alive
  /\ \A i \in Relays : HopQuiet(c, i) /\ DownQuiet(c, i) /\ UpQuiet(c, i)
  /\ ClientQuiet(c) /\ ExitQuiet(c)

\* What was added stays so.
LEMMA QuietAdded ==
  ASSUME NEW c \in Circuits, Quiet(c), NEW i \in Relays
  PROVE  /\ Added(c, i) => Added(c, i)'
         /\ Linked(c, i) => Linked(c, i)'
<1>1. /\ Mine(c, i)' = Mine(c, i) /\ (HasNext(c, i) => HasNext(c, i)')
      /\ alive' = alive
      /\ task[c][i] = "adding" => task'[c][i] = "adding"
  BY DEF Quiet, HopQuiet, DownQuiet, UpQuiet, ClientQuiet, ExitQuiet
<1> QED BY <1>1 DEF Added, Linked

\* What an answer stands for stays so while what was added does.
LEMMA StandsKeeps ==
  ASSUME NEW c \in Circuits, NEW i \in Relays, NEW m, Stands(c, i, m),
         \A j \in Relays : /\ Added(c, j) => Added(c, j)'
                           /\ Linked(c, j) => Linked(c, j)'
  PROVE  Stands(c, i, m)'
<1>1. m.cmd = "CREATED" => m.n = i /\ Added(c, i)'
  BY DEF Stands
<1>2. ASSUME m.cmd = "EXTENDED"
      PROVE  /\ m.n \in Relays /\ i < m.n
             /\ Added(c, m.n)' /\ Linked(c, m.n - 1)'
  <2>1. m.n \in Relays /\ i < m.n /\ Added(c, m.n) /\ Linked(c, m.n - 1)
    BY <1>2 DEF Stands
  <2>2. m.n - 1 \in Relays
    BY <2>1, HopsFacts DEF Relays
  <2> QED BY <2>1, <2>2
<1> QED BY <1>1, <1>2 DEF Stands

LEMMA QuietKeeps ==
  ASSUME NEW c \in Circuits, CircuitInv(c), Quiet(c), Shapes, Shapes'
  PROVE  CircuitInv(c)'
<1>1. ClientKnows(c)'
  <2>1. client'[c] = "idle" => task'[c][1] = "none"
    BY HopsFacts
      DEF Quiet, HopQuiet, DownQuiet, UpQuiet, ClientQuiet, ExitQuiet,
          CircuitInv, ClientKnows
  <2>2. \A i \in Relays : keys'[c] >= i => Added(c, i)'
    BY QuietAdded
      DEF Quiet, HopQuiet, DownQuiet, UpQuiet, ClientQuiet, ExitQuiet,
          CircuitInv, ClientKnows
  <2>3. \A i \in Relays : keys'[c] > i => Linked(c, i)'
    BY QuietAdded
      DEF Quiet, HopQuiet, DownQuiet, UpQuiet, ClientQuiet, ExitQuiet,
          CircuitInv, ClientKnows
  <2> QED BY <2>1, <2>2, <2>3
      DEF Quiet, HopQuiet, DownQuiet, UpQuiet, ClientQuiet, ExitQuiet,
          ClientKnows
<1>2. ASSUME NEW i \in Relays PROVE NotYet(c, i)'
  <2> SUFFICES ASSUME task'[c][i] = "none"
               PROVE  /\ ~Mine(c, i)' /\ reader'[c][i] = "none"
                      /\ up'[c][i] = <<>>
                      /\ i = Hops => c \notin serving'
                      /\ i < Hops => task'[c][i + 1] = "none"
    BY DEF NotYet
  <2>1. task[c][i] = "none" /\ NotYet(c, i)
    BY DEF Quiet, HopQuiet, DownQuiet, UpQuiet, ClientQuiet, ExitQuiet,
           CircuitInv
  <2>2. Cells(up[c][i]) = {}
    BY <2>1 DEF NotYet, Cells
  <2>3. Cells(up'[c][i]) = {}
    BY <2>1, <2>2
      DEF Quiet, HopQuiet, DownQuiet, UpQuiet, ClientQuiet, ExitQuiet
  <2>4. up'[c][i] = <<>>
    <3>1. up'[c][i] \in Seq(CellType)
      BY DEF Shapes, WireShapes, Wires
    <3> QED BY <2>3, <3>1, CellsOf
  <2>5. i < Hops => task'[c][i + 1] = "none"
    BY <2>1, HopsFacts
      DEF NotYet, Quiet, HopQuiet, DownQuiet, UpQuiet, ClientQuiet, ExitQuiet
  <2> QED BY <2>1, <2>4, <2>5
      DEF NotYet, Quiet, HopQuiet, DownQuiet, UpQuiet, ClientQuiet, ExitQuiet
<1>3. ASSUME NEW i \in Relays PROVE Fresh(c, i)'
  <2> SUFFICES ASSUME i \in alive
               PROVE  /\ task'[c][i] = "adding" => ~Mine(c, i)'
                      /\ task'[c][i] = "open" /\ ~Mine(c, i)' =>
                           \A m \in Cells(down'[c][i]) : m.cmd = "CREATE"
                      /\ \A m \in Cells(down'[c][i]) : m.cmd = "CREATE" =>
                           /\ Len(down'[c][i]) = 1
                           /\ task'[c][i] # "adding" /\ ~Mine(c, i)'
                      /\ i < Hops /\ ~Mine(c, i)'
                           /\ task'[c][i] \in {"open", "adding"} =>
                              task'[c][i + 1] = "none"
    BY DEF Fresh, Quiet, HopQuiet, DownQuiet, UpQuiet, ClientQuiet, ExitQuiet
  <2>1. /\ Fresh(c, i) /\ Mine(c, i)' = Mine(c, i)
        /\ task'[c][i] = "adding" => task[c][i] = "adding"
        /\ task'[c][i] = "open" => task[c][i] = "open"
    BY DEF CircuitInv, Quiet, HopQuiet, DownQuiet, UpQuiet, ClientQuiet,
           ExitQuiet
  <2>2. CASE /\ Cells(down'[c][i]) \subseteq Cells(down[c][i])
             /\ Len(down'[c][i]) <= Len(down[c][i])
    <3>1. down[c][i] \in Seq(CellType) /\ down'[c][i] \in Seq(CellType)
      BY DEF Shapes, WireShapes, Wires
    <3>2. /\ Len(down'[c][i]) \in Nat
          /\ (\E m : m \in Cells(down'[c][i])) => Len(down'[c][i]) >= 1
      BY <3>1, CellsOf
    <3>3. ASSUME NEW m \in Cells(down'[c][i]), m.cmd = "CREATE"
          PROVE  /\ Len(down'[c][i]) = 1
                 /\ task[c][i] # "adding" /\ ~Mine(c, i)
      <4>1. /\ Len(down[c][i]) = 1 /\ task[c][i] # "adding" /\ ~Mine(c, i)
        BY <2>1, <2>2, <3>3 DEF Fresh
      <4>2. Len(down'[c][i]) >= 1 /\ Len(down'[c][i]) <= 1
        BY <2>2, <3>2, <4>1
      <4>3. Len(down'[c][i]) = 1
        <5>1. \A k \in Nat : k >= 1 /\ k <= 1 => k = 1
          OBVIOUS
        <5> QED BY <3>2, <4>2, <5>1, Zenon
      <4> QED BY <4>1, <4>3
    <3>4. i < Hops => (task[c][i + 1] = "none" => task'[c][i + 1] = "none")
      BY HopsFacts
        DEF Quiet, HopQuiet, DownQuiet, UpQuiet, ClientQuiet, ExitQuiet
    <3> QED BY <2>1, <2>2, <3>3, <3>4 DEF Fresh
  <2>3. CASE /\ Added(c, i)
             /\ \A m \in Cells(down'[c][i]) :
                  m \in Cells(down[c][i]) \/ m.cmd # "CREATE"
    <3>1. Mine(c, i) \/ task[c][i] = "adding"
      BY <2>3 DEF Added
    <3>2. \A m \in Cells(down'[c][i]) : m.cmd # "CREATE"
      BY <2>1, <2>3, <3>1 DEF Fresh
    <3>3. i < Hops => (task[c][i + 1] = "none" => task'[c][i + 1] = "none")
      BY HopsFacts
        DEF Quiet, HopQuiet, DownQuiet, UpQuiet, ClientQuiet, ExitQuiet
    <3> QED BY <2>1, <3>1, <3>2, <3>3 DEF Fresh
  <2> QED BY <2>2, <2>3
      DEF Quiet, HopQuiet, DownQuiet, UpQuiet, ClientQuiet, ExitQuiet
<1>4. ASSUME NEW i \in Relays PROVE NextKept(c, i)'
  <2> SUFFICES ASSUME i \in alive, i < Hops, Mine(c, i)'
               PROVE  /\ task'[c][i] = "open" /\ task'[c][i + 1] # "none" =>
                           HasNext(c, i)' \/ extending'[i] = c
                      /\ HasNext(c, i)' => Added(c, i + 1)'
    BY DEF NextKept, Quiet, HopQuiet, DownQuiet, UpQuiet, ClientQuiet,
           ExitQuiet
  <2>1. i + 1 \in Relays /\ NextKept(c, i) /\ Mine(c, i)
    BY HopsFacts
      DEF CircuitInv, Quiet, HopQuiet, DownQuiet, UpQuiet, ClientQuiet,
          ExitQuiet
  <2>2. HasNext(c, i)' => Added(c, i + 1)'
    BY <2>1, QuietAdded
      DEF NextKept, Quiet, HopQuiet, DownQuiet, UpQuiet, ClientQuiet,
          ExitQuiet
  <2>3. ASSUME task'[c][i] = "open", task'[c][i + 1] # "none"
        PROVE  HasNext(c, i)' \/ extending'[i] = c
    <3>1. task[c][i] = "open" /\ task[c][i + 1] # "none"
      BY <2>1, <2>3
        DEF Quiet, HopQuiet, DownQuiet, UpQuiet, ClientQuiet, ExitQuiet
    <3>2. HasNext(c, i) \/ extending[i] = c
      BY <2>1, <3>1 DEF NextKept
    <3> QED BY <2>3, <3>2
        DEF Quiet, HopQuiet, DownQuiet, UpQuiet, ClientQuiet, ExitQuiet
  <2> QED BY <2>2, <2>3
<1>5. ASSUME NEW i \in Relays PROVE Extends(c, i)'
  <2> SUFFICES ASSUME extending'[i] = c PROVE Extends(c, i)'
    BY DEF Extends
  <2>1. extending[i] = c /\ Extends(c, i) /\ i < Hops /\ i + 1 \in Relays
    <3>1. extending[i] = c
      BY DEF Quiet, HopQuiet, DownQuiet, UpQuiet, ClientQuiet, ExitQuiet
    <3> QED BY <3>1, HopsFacts, NoneAssumption
        DEF CircuitInv, Shapes, RelayShapes
  <2>2. i + 1 > 1 /\ (i + 1) - 1 = i /\ (i + 1 = Hops => Hops - 1 = i)
    BY HopsAssumption DEF Relays
  <2>3. Mine(c, i)' /\ extending'[i + 1] # c /\ reader'[c][i + 1] = "none"
    BY <2>1, <2>2
      DEF Quiet, HopQuiet, DownQuiet, UpQuiet, ClientQuiet, ExitQuiet,
          Extends
  <2>4. i + 1 = Hops => c \notin serving'
    BY <2>1, <2>2
      DEF Quiet, HopQuiet, DownQuiet, UpQuiet, ClientQuiet, ExitQuiet,
          Extends
  <2>5. \A m \in Cells(down'[c][i + 1]) : m.cmd = "CREATE"
    BY <2>1, <2>2
      DEF Quiet, HopQuiet, DownQuiet, UpQuiet, ClientQuiet, ExitQuiet,
          Extends
  <2>6. \A m \in Cells(up'[c][i + 1]) : m.cmd = "CREATED"
    BY <2>1, <2>2
      DEF Quiet, HopQuiet, DownQuiet, UpQuiet, ClientQuiet, ExitQuiet,
          Extends
  <2> QED BY <2>3, <2>4, <2>5, <2>6 DEF Extends
<1>6. ASSUME NEW i \in Relays PROVE Answers(c, i)'
  <2>1. ASSUME NEW m \in Cells(up'[c][i]) PROVE Stands(c, i, m)'
    <3>1. Stands(c, i, m) \/ Stands(c, i, m)'
      BY <2>1
        DEF Quiet, HopQuiet, DownQuiet, UpQuiet, ClientQuiet, ExitQuiet,
            CircuitInv, Answers
    <3> QED BY <3>1, QuietAdded, StandsKeeps
  <2> QED BY <2>1 DEF Answers
<1> QED BY <1>1, <1>2, <1>3, <1>4, <1>5, <1>6 DEF CircuitInv
-----------------------------------------------------------------------------
(* Steps of other circuits.                                                *)

\* What a relay does to the handler of a number leaves every other slot alone
\* and every slot its key.
SlotsSeen(R, R2, i, n) ==
  \A j \in Relays, k \in Numbers :
    /\ j # i \/ k # n => R2[j][k] = R[j][k]
    /\ R2[j][k].key = R[j][k].key
    /\ R[j][k].next => R2[j][k].next
KeepsNext(R, R2) ==
  \A j \in Relays, k \in Numbers : R2[j][k].next = R[j][k].next

LEMMA SlotSeen ==
  ASSUME NEW R \in Registries, NEW i \in Relays, NEW n \in Numbers
  PROVE  /\ SlotsSeen(R, [R EXCEPT ![i][n].fwd = @ + 1], i, n)
         /\ KeepsNext(R, [R EXCEPT ![i][n].fwd = @ + 1])
         /\ SlotsSeen(R, [R EXCEPT ![i][n].bwd = @ + 1], i, n)
         /\ KeepsNext(R, [R EXCEPT ![i][n].bwd = @ + 1])
         /\ SlotsSeen(R, [R EXCEPT ![i][n].next = TRUE], i, n)
<1>1. PICK h : h = R[i][n]
  OBVIOUS
<1>2. h \in HandlerType
  BY <1>1 DEF Registries
<1>3. ASSUME NEW g, g.key = h.key, h.next => g.next
      PROVE  /\ SlotsSeen(R, [R EXCEPT ![i][n] = g], i, n)
             /\ g.next = h.next => KeepsNext(R, [R EXCEPT ![i][n] = g])
  BY <1>1, <1>3 DEF Registries, SlotsSeen, KeepsNext
<1>4. /\ SlotsSeen(R, [R EXCEPT ![i][n].fwd = @ + 1], i, n)
      /\ KeepsNext(R, [R EXCEPT ![i][n].fwd = @ + 1])
  <2> DEFINE g == [h EXCEPT !.fwd = @ + 1]
  <2>1. [R EXCEPT ![i][n].fwd = @ + 1] = [R EXCEPT ![i][n] = g]
    BY <1>1, Zenon
  <2>2. g.key = h.key /\ g.next = h.next
    BY <1>2 DEF HandlerType
  <2> HIDE DEF g
  <2>3. /\ SlotsSeen(R, [R EXCEPT ![i][n] = g], i, n)
        /\ KeepsNext(R, [R EXCEPT ![i][n] = g])
    BY <1>3, <2>2
  <2> QED BY <2>1, <2>3
<1>5. /\ SlotsSeen(R, [R EXCEPT ![i][n].bwd = @ + 1], i, n)
      /\ KeepsNext(R, [R EXCEPT ![i][n].bwd = @ + 1])
  <2> DEFINE g == [h EXCEPT !.bwd = @ + 1]
  <2>1. [R EXCEPT ![i][n].bwd = @ + 1] = [R EXCEPT ![i][n] = g]
    BY <1>1, Zenon
  <2>2. g.key = h.key /\ g.next = h.next
    BY <1>2 DEF HandlerType
  <2> HIDE DEF g
  <2>3. /\ SlotsSeen(R, [R EXCEPT ![i][n] = g], i, n)
        /\ KeepsNext(R, [R EXCEPT ![i][n] = g])
    BY <1>3, <2>2
  <2> QED BY <2>1, <2>3
<1>6. SlotsSeen(R, [R EXCEPT ![i][n].next = TRUE], i, n)
  <2> DEFINE g == [h EXCEPT !.next = TRUE]
  <2>1. [R EXCEPT ![i][n].next = TRUE] = [R EXCEPT ![i][n] = g]
    BY <1>1, Zenon
  <2>2. g.key = h.key /\ (h.next => g.next)
    BY <1>2 DEF HandlerType
  <2> HIDE DEF g
  <2>3. SlotsSeen(R, [R EXCEPT ![i][n] = g], i, n)
    BY <1>3, <2>2
  <2> QED BY <2>1, <2>3
<1> QED BY <1>4, <1>5, <1>6

LEMMA NextSeen ==
  ASSUME NEW R \in Registries, NEW i \in Relays, NEW n \in Numbers, NEW R2,
         R2 = [R EXCEPT ![i][n].next = TRUE, ![i][n].bwd = @ + 1]
  PROVE  SlotsSeen(R, R2, i, n) /\ R2[i][n].next
<1> DEFINE R1 == [R EXCEPT ![i][n].next = TRUE]
           R3 == [R1 EXCEPT ![i][n].bwd = @ + 1]
<1>1. R2 = R3
  OBVIOUS
<1>2. R1 \in Registries /\ SlotsSeen(R, R1, i, n)
  BY SlotMoves, SlotSeen
<1>3. R1[i][n].next
  BY DEF Registries, HandlerType
<1> HIDE DEF R1
<1>4. SlotsSeen(R1, R3, i, n)
  BY <1>2, SlotSeen
<1> HIDE DEF R3
<1>5. SlotsSeen(R, R3, i, n) /\ R3[i][n].next
  BY <1>2, <1>3, <1>4 DEF SlotsSeen
<1> QED BY <1>1, <1>5

Untouched(c) ==
  /\ UNCHANGED alive
  /\ client'[c] = client[c] /\ keys'[c] = keys[c]
  /\ c \in serving' => c \in serving
  /\ \A j \in Relays :
       /\ registry'[j][Id(c)] = registry[j][Id(c)]
       /\ task'[c][j] = task[c][j] /\ reader'[c][j] = reader[c][j]
       /\ extending'[j] = c <=> extending[j] = c
       /\ down'[c][j] = down[c][j] /\ up'[c][j] = up[c][j]

LEMMA UntouchedQuiet ==
  ASSUME NEW c \in Circuits, Shapes, CircuitInv(c), Untouched(c)
  PROVE  Quiet(c)
<1>1. ASSUME NEW i \in Relays
      PROVE  HopQuiet(c, i) /\ DownQuiet(c, i) /\ UpQuiet(c, i)
  <2>1. Len(down[c][i]) \in Nat
    <3>1. down[c][i] \in Seq(CellType)
      BY DEF Shapes, WireShapes, Wires
    <3> QED BY <3>1
  <2>2. DownQuiet(c, i) /\ UpQuiet(c, i)
    BY <2>1 DEF Untouched, DownQuiet, UpQuiet
  <2>3. HopQuiet(c, i)
    <3>1. Mine(c, i)' = Mine(c, i) /\ HasNext(c, i)' = HasNext(c, i)
      BY DEF Untouched, Mine, HasNext
    <3> QED BY <3>1 DEF Untouched, HopQuiet
  <2> QED BY <2>2, <2>3
<1>2. ClientQuiet(c)
  BY DEF Untouched, ClientQuiet, CircuitInv, ClientKnows
<1>3. ExitQuiet(c)
  BY DEF Untouched, ExitQuiet
<1> QED BY <1>1, <1>2, <1>3 DEF Quiet, Untouched

LEMMA OthersClient ==
  ASSUME Shapes, LockInv, NEW c \in Circuits, NEW d \in Circuits, d # c,
         \/ Connect(d) \/ ConnectFails(d) \/ ClientStep(d) \/ SendData(d)
         \/ Release(d) \/ ExitSend(d) \/ StreamsEnd(d)
  PROVE  Untouched(c)
<1>1. down \in Wires /\ up \in Wires
  BY DEF Shapes, WireShapes
<1>2. /\ UNCHANGED <<alive, registry, extending, reader>>
      /\ UNCHANGED client \/ \E v : client' = [client EXCEPT ![d] = v]
      /\ UNCHANGED keys \/ \E v : keys' = [keys EXCEPT ![d] = v]
      /\ UNCHANGED serving \/ serving' = serving \ {d}
      /\ UNCHANGED task \/ task' = [task EXCEPT ![d][1] = "open"]
  BY DEF Connect, ConnectFails, ClientStep, HandshakeAnswer,
    BuildFails, ReadCell, ReadEof, SendData, Release, ExitSend, StreamsEnd,
    clientVars, relayVars, exitVars
<1>3. /\ client'[c] = client[c] /\ keys'[c] = keys[c]
      /\ c \in serving' => c \in serving
      /\ \A j \in Relays : task'[c][j] = task[c][j]
  BY <1>2 DEF Shapes, ClientShapes, LockInv
<1>4. \A j \in Relays : down'[c][j] = down[c][j]
  <2>1. \/ UNCHANGED down \/ down' = [down EXCEPT ![d][1] = <<Cell("CREATE", 1, {})>>]
        \/ \E cell : down' = PutDown(down, d, 1, cell)
    BY DEF Connect, ConnectFails, ClientStep, HandshakeAnswer,
      BuildFails, ReadCell, ReadEof, SendData, Release, ExitSend, StreamsEnd
  <2> QED BY <1>1, <2>1 DEF PutDown, Wires
<1>5. \A j \in Relays : up'[c][j] = up[c][j]
  <2>1. \/ UNCHANGED up \/ up' = TakeUp(d, 1)
        \/ \E cell : up' = PutUp(up, d, Hops, cell)
    BY DEF Connect, ConnectFails, ClientStep, HandshakeAnswer,
      BuildFails, ReadCell, ReadEof, SendData, Release, ExitSend, StreamsEnd
  <2> QED BY <1>1, <2>1 DEF PutUp, TakeUp, Wires
<1> QED BY <1>2, <1>3, <1>4, <1>5 DEF Untouched

LEMMA OthersTask ==
  ASSUME Shapes, LockInv, Own, NEW c \in Circuits, Alone(c),
         NEW d \in Circuits, d # c, NEW i \in Relays, TaskStep(d, i)
  PROVE  Untouched(c)
<1> DEFINE h == registry[i][Id(d)]
<1>1. /\ Id(c) \in Numbers /\ Id(d) \in Numbers /\ Id(d) # Id(c)
      /\ registry \in Registries
  BY DEF Id, Circuits, Alone, Shapes, RelayShapes
<1>2. h.key # c
  BY <1>1, NoneAssumption DEF Own
<1>3. down \in Wires /\ up \in Wires /\ RelayShapes
  BY DEF Shapes, WireShapes
<1> HIDE DEF h
<1>4. /\ UNCHANGED <<alive, client, keys>>
      /\ c \in serving' => c \in serving
      /\ \A j \in Relays : task'[c][j] = task[c][j] /\ reader'[c][j] = reader[c][j]
      /\ \A j \in Relays : extending'[j] = c <=> extending[j] = c
  <2>1. /\ UNCHANGED <<alive, client, keys>>
        /\ UNCHANGED serving \/ serving' = serving \union {d}
        /\ UNCHANGED task \/ \E k, v : task' = [task EXCEPT ![d][k] = v]
        /\ UNCHANGED reader \/ reader' = [reader EXCEPT ![d][i] = "running"]
        /\ \/ UNCHANGED extending
           \/ extending[i] = None /\ extending' = [extending EXCEPT ![i] = d]
           \/ extending[i] = d /\ extending' = [extending EXCEPT ![i] = None]
    BY DEF TaskStep, HandleCreate, AddCircuit, HandleExtend, ExtendDone,
      ExtendFails, HandleRelay, HandleAtExit, ConnEof, TagReply, WriteReply,
      Ends, Unlocked, clientVars, relayVars, exitVars
  <2>2. \A j \in Relays : task'[c][j] = task[c][j] /\ reader'[c][j] = reader[c][j]
    BY <1>3, <2>1 DEF LockInv, RelayShapes
  <2>3. \A j \in Relays : extending'[j] = c <=> extending[j] = c
    BY <2>1, NoneAssumption DEF LockInv
  <2> QED BY <2>1, <2>2, <2>3
<1>5. \A j \in Relays : registry'[j][Id(c)] = registry[j][Id(c)]
  <2>1. \/ UNCHANGED registry
        \/ registry' = [registry EXCEPT ![i][Id(d)] = Handler(d)]
        \/ registry' = Peeled(i, d)
        \/ registry' = [registry EXCEPT ![i][Id(d)].next = TRUE,
                                        ![i][Id(d)].bwd = @ + 1]
    BY DEF TaskStep, HandleCreate, AddCircuit, HandleExtend, ExtendDone,
      ExtendFails, HandleRelay, HandleAtExit, ConnEof, TagReply, WriteReply,
      relayVars
  <2>2. CASE registry' = [registry EXCEPT ![i][Id(d)] = Handler(d)]
    BY <1>1, <2>2 DEF Registries
  <2>3. CASE registry' = Peeled(i, d)
    <3>1. SlotsSeen(registry, registry', i, Id(d))
      BY <1>1, <2>3, SlotSeen DEF Peeled
    <3> QED BY <1>1, <3>1 DEF SlotsSeen
  <2>4. CASE registry' = [registry EXCEPT ![i][Id(d)].next = TRUE,
                                          ![i][Id(d)].bwd = @ + 1]
    <3>1. SlotsSeen(registry, registry', i, Id(d))
      BY <1>1, <2>4, NextSeen
    <3> QED BY <1>1, <3>1 DEF SlotsSeen
  <2> QED BY <2>1, <2>2, <2>3, <2>4
<1>6. \A j \in Relays : down'[c][j] = down[c][j]
  <2>1. ASSUME down[d][i] # <<>>
        PROVE  TakeDown(d, i) \in Wires
               /\ \A j \in Relays : TakeDown(d, i)[c][j] = down[c][j]
    <3>1. TakeDown(d, i) \in Wires
      BY <1>3, <2>1, TakeMoves DEF TakeDown
    <3>2. ASSUME NEW j \in Relays
          PROVE  TakeDown(d, i)[c][j] = down[c][j]
      BY <1>3, <2>1, TakeMoves DEF TakeDown
    <3> QED BY <3>1, <3>2
  <2>2. \/ UNCHANGED down
        \/ down[d][i] # <<>> /\ down' = TakeDown(d, i)
        \/ down[d][i] # <<>> /\ \E cell :
             \/ down' = [TakeDown(d, i) EXCEPT ![d][i + 1] = <<cell>>]
             \/ down' = PutDown(TakeDown(d, i), h.key, i + 1, cell)
    BY DEF TaskStep, HandleCreate, AddCircuit, HandleExtend, ExtendDone,
      ExtendFails, HandleRelay, HandleAtExit, ConnEof, TagReply, WriteReply,
      Has, h
  <2> QED BY <1>2, <2>1, <2>2 DEF PutDown, Wires
<1>7. \A j \in Relays : up'[c][j] = up[c][j]
  <2>1. \/ UNCHANGED up
        \/ \E cell : up' = PutUp(up, d, i, cell)
        \/ /\ extending[i] = d /\ up[d][i + 1] # <<>>
           /\ \/ up' = TakeUp(d, i + 1)
              \/ \E cell : up' = PutUp(TakeUp(d, i + 1), d, i, cell)
    BY DEF TaskStep, HandleCreate, AddCircuit, HandleExtend, ExtendDone,
      ExtendFails, HandleRelay, HandleAtExit, ConnEof, TagReply, WriteReply
  <2>2. ASSUME extending[i] = d, up[d][i + 1] # <<>>
        PROVE  TakeUp(d, i + 1) \in Wires
               /\ \A j \in Relays : TakeUp(d, i + 1)[c][j] = up[c][j]
    <3>1. i + 1 \in Relays
      BY <1>3, <2>2, HopsFacts, NoneAssumption DEF RelayShapes
    <3>2. TakeUp(d, i + 1) \in Wires
      BY <1>3, <2>2, <3>1, HeadTyped DEF TakeUp
    <3> QED BY <1>3, <3>2 DEF TakeUp, Wires
  <2> QED BY <1>3, <2>1, <2>2 DEF PutUp, Wires
<1> QED BY <1>4, <1>5, <1>6, <1>7 DEF Untouched

LEMMA OthersReader ==
  ASSUME Shapes, NEW c \in Circuits, Alone(c),
         NEW d \in Circuits, d # c, NEW i \in Relays,
         ReaderStep(d, i) \/ LoseTail(d, i)
  PROVE  Untouched(c)
<1>1. /\ Id(c) \in Numbers /\ Id(d) \in Numbers /\ Id(d) # Id(c)
      /\ registry \in Registries /\ down \in Wires /\ up \in Wires
  BY DEF Id, Circuits, Alone, Shapes, RelayShapes, WireShapes
<1>2. /\ UNCHANGED <<alive, client, keys, serving, extending, task>>
      /\ \A j \in Relays : reader'[c][j] = reader[c][j]
  BY DEF ReaderStep, Backward, EntryDestroy, ReaderEof, ReaderEnds, LoseTail,
    clientVars, exitVars, relayVars, Shapes, RelayShapes
<1>3. \A j \in Relays : registry'[j][Id(c)] = registry[j][Id(c)]
  <2>1. \/ UNCHANGED registry
        \/ registry' = [registry EXCEPT ![i][Id(d)].bwd = @ + 1]
    BY DEF ReaderStep, Backward, EntryDestroy, ReaderEof, ReaderEnds, LoseTail,
      relayVars
  <2>2. CASE registry' = [registry EXCEPT ![i][Id(d)].bwd = @ + 1]
    <3>1. SlotsSeen(registry, registry', i, Id(d))
      BY <1>1, <2>2, SlotSeen
    <3> QED BY <1>1, <3>1 DEF SlotsSeen
  <2> QED BY <2>1, <2>2
<1>4. \A j \in Relays : down'[c][j] = down[c][j]
  BY <1>1 DEF ReaderStep, Backward, EntryDestroy, ReaderEof, ReaderEnds,
    LoseTail, Wires
<1>5. \A j \in Relays : up'[c][j] = up[c][j]
  <2>1. \/ UNCHANGED up \/ up' = [up EXCEPT ![d][i] = Shorten(@)]
        \/ \E cell : up' = PutUp(up, d, i, cell)
        \/ /\ i < Hops /\ up[d][i + 1] # <<>>
           /\ \/ up' = TakeUp(d, i + 1)
              \/ \E cell : up' = PutUp(TakeUp(d, i + 1), d, i, cell)
    BY HopsFacts DEF ReaderStep, Backward, EntryDestroy, ReaderEof, ReaderEnds,
      LoseTail
  <2>2. ASSUME i < Hops, up[d][i + 1] # <<>>
        PROVE  TakeUp(d, i + 1) \in Wires
               /\ \A j \in Relays : TakeUp(d, i + 1)[c][j] = up[c][j]
    <3>1. i + 1 \in Relays
      BY <2>2, HopsFacts
    <3>2. TakeUp(d, i + 1) \in Wires
      BY <1>1, <2>2, <3>1, HeadTyped DEF TakeUp
    <3> QED BY <1>1, <3>2 DEF TakeUp, Wires
  <2> QED BY <1>1, <2>1, <2>2 DEF PutUp, Wires
<1> QED BY <1>2, <1>3, <1>4, <1>5 DEF Untouched
-----------------------------------------------------------------------------
(* Steps of the circuit itself.                                            *)

\* What leaves a part alone is quiet there; so is taking cells away.
LEMMA SameQuiet ==
  ASSUME Shapes, NEW c \in Circuits, CircuitInv(c)
  PROVE  /\ UNCHANGED relayVars =>
              UNCHANGED alive /\ \A i \in Relays : HopQuiet(c, i)
         /\ \A i \in Relays :
              /\ down'[c][i] = down[c][i] => DownQuiet(c, i)
              /\ up'[c][i] = up[c][i] => UpQuiet(c, i)
         /\ UNCHANGED <<client, keys>> => ClientQuiet(c)
         /\ UNCHANGED serving => ExitQuiet(c)
<1>1. ASSUME NEW i \in Relays, down'[c][i] = down[c][i] PROVE DownQuiet(c, i)
  <2>1. Len(down[c][i]) \in Nat
    <3>1. down[c][i] \in Seq(CellType)
      BY DEF Shapes, WireShapes, Wires
    <3> QED BY <3>1
  <2> QED BY <1>1, <2>1 DEF DownQuiet
<1>2. ASSUME NEW i \in Relays, up'[c][i] = up[c][i] PROVE UpQuiet(c, i)
  BY <1>2 DEF UpQuiet
<1>3. ASSUME UNCHANGED relayVars PROVE \A i \in Relays : HopQuiet(c, i)
  BY <1>3 DEF relayVars, HopQuiet, Mine, HasNext
<1>4. UNCHANGED <<client, keys>> => ClientQuiet(c)
  BY DEF ClientQuiet, CircuitInv, ClientKnows
<1>5. UNCHANGED serving => ExitQuiet(c)
  BY DEF ExitQuiet
<1> QED BY <1>1, <1>2, <1>3, <1>4, <1>5 DEF relayVars

\* A cell taken from a wire of the circuit.
LEMMA TakenQuiet ==
  ASSUME Shapes, NEW c \in Circuits, NEW i \in Relays, NEW j \in Relays
  PROVE  /\ down[c][i] # <<>> /\ down' = TakeDown(c, i) => DownQuiet(c, j)
         /\ up[c][i] # <<>> /\ up' = TakeUp(c, i) => UpQuiet(c, j)
<1>1. down \in Wires /\ up \in Wires
  BY DEF Shapes, WireShapes
<1>2. ASSUME down[c][i] # <<>>, down' = TakeDown(c, i) PROVE DownQuiet(c, j)
  <2>1. /\ Cells(down'[c][j]) \subseteq Cells(down[c][j])
        /\ Len(down'[c][j]) <= Len(down[c][j])
    BY <1>1, <1>2, TakeMoves DEF TakeDown
  <2> QED BY <2>1 DEF DownQuiet
<1>3. ASSUME up[c][i] # <<>>, up' = TakeUp(c, i) PROVE UpQuiet(c, j)
  <2>1. Cells(up'[c][j]) \subseteq Cells(up[c][j])
    BY <1>1, <1>3, TakeMoves DEF TakeUp
  <2> QED BY <2>1 DEF UpQuiet
<1> QED BY <1>2, <1>3

\* A cell written down to a hop that has been added.
LEMMA PutDownQuiet ==
  ASSUME NEW c \in Circuits, NEW ch \in Wires, NEW cell \in CellType,
         cell.cmd # "CREATE", NEW i \in Relays, Added(c, i),
         i > 1 => extending[i - 1] # c, NEW j \in Relays,
         Cells(ch[c][j]) \subseteq Cells(down[c][j]),
         Len(ch[c][j]) <= Len(down[c][j]),
         down' = PutDown(ch, c, i, cell)
  PROVE  DownQuiet(c, j)
<1>1. CASE j = i
  <2>1. Cells(down'[c][j]) \subseteq Cells(down[c][j]) \union {cell}
    BY PutMoves
  <2> QED BY <1>1, <2>1 DEF DownQuiet
<1>2. CASE j # i
  <2>1. down'[c][j] = ch[c][j]
    BY <1>2, PutMoves
  <2> QED BY <2>1 DEF DownQuiet
<1> QED BY <1>1, <1>2

\* A cell written up from a hop that has a task: news that stand.
LEMMA PutUpQuiet ==
  ASSUME NEW c \in Circuits, NEW ch \in Wires, NEW cell \in CellType,
         NEW i \in Relays, Stands(c, i, cell) \/ Stands(c, i, cell)',
         task[c][i] # "none", i > 1 => extending[i - 1] # c,
         NEW j \in Relays, Cells(ch[c][j]) \subseteq Cells(up[c][j]),
         up' = PutUp(ch, c, i, cell)
  PROVE  UpQuiet(c, j)
<1>1. CASE j = i
  <2>1. Cells(up'[c][j]) \subseteq Cells(up[c][j]) \union {cell}
    BY PutMoves
  <2> QED BY <1>1, <2>1 DEF UpQuiet
<1>2. CASE j # i
  <2>1. up'[c][j] = ch[c][j]
    BY <1>2, PutMoves
  <2> QED BY <2>1 DEF UpQuiet
<1> QED BY <1>1, <1>2

LEMMA ClientIsQuiet ==
  ASSUME Shapes, NEW c \in Circuits, CircuitInv(c),
         ConnectFails(c) \/ ClientStep(c) \/ SendData(c) \/ Release(c)
  PROVE  Quiet(c)
<1>1. UNCHANGED relayVars /\ ExitQuiet(c)
  <2>1. UNCHANGED <<relayVars, serving>>
    BY DEF ConnectFails, ClientStep, HandshakeAnswer, BuildFails, ReadCell,
      ReadEof, SendData, Release, exitVars
  <2> QED BY <2>1, SameQuiet
<1>2. \A i \in Relays : UpQuiet(c, i)
  <2>1. UNCHANGED up \/ (up[c][1] # <<>> /\ up' = TakeUp(c, 1))
    BY DEF ConnectFails, ClientStep, HandshakeAnswer, BuildFails, ReadCell,
      ReadEof, SendData, Release
  <2> QED BY <2>1, HopsFacts, SameQuiet, TakenQuiet
<1>3. ASSUME ~HandshakeAnswer(c) PROVE ClientQuiet(c)
  <2>1. /\ UNCHANGED keys
        /\ \/ UNCHANGED client
           \/ \E v \in {"failed", "closed", "mismatch", "gone"} :
                client' = [client EXCEPT ![c] = v]
    BY <1>3 DEF ConnectFails, ClientStep, BuildFails, ReadCell,
      ReadEof, SendData, Release
  <2>2. client'[c] = client[c] \/ client'[c] \notin {"idle", "ready"}
    BY <2>1 DEF Shapes, ClientShapes
  <2> QED BY <2>1, <2>2 DEF ClientQuiet, CircuitInv, ClientKnows
<1>4. ASSUME ~HandshakeAnswer(c), NEW i \in Relays PROVE DownQuiet(c, i)
  <2>1. CASE UNCHANGED down
    BY <2>1, SameQuiet
  <2>2. CASE SendData(c)
    <3>1. Added(c, 1)
      BY <2>2, HopsFacts DEF SendData, CircuitInv, ClientKnows
    <3>2. Cell("DATA", sent[c] + 1, ForwardLayers(c, Hops)) \in CellType
      BY CellTyped, LayersTyped, HopsFacts DEF Shapes, ClientShapes
    <3>3. Cell("DATA", sent[c] + 1, ForwardLayers(c, Hops)).cmd # "CREATE"
      BY DEF Cell
    <3>4. down \in Wires /\ Len(down[c][i]) \in Nat
      <4>1. down \in Wires /\ down[c][i] \in Seq(CellType)
        BY DEF Shapes, WireShapes, Wires
      <4> QED BY <4>1
    <3>5. Len(down[c][i]) <= Len(down[c][i])
      BY <3>4
    <3> HIDE DEF Cell
    <3> QED BY <2>2, <3>1, <3>2, <3>3, <3>4, <3>5, HopsFacts, PutDownQuiet
        DEF SendData
  <2> QED BY <1>4, <2>1, <2>2 DEF ConnectFails, ClientStep, BuildFails,
    ReadCell, ReadEof, SendData, Release
<1>5. CASE HandshakeAnswer(c)
  <2> DEFINE m == Head(up[c][1])
             k == keys[c]
             extend == Cell("EXTEND", k + 2, ForwardLayers(c, k + 1))
  <2>1. m \in Cells(up[c][1]) /\ k \in Nat /\ k < Hops
    <3>1. up[c][1] \in Seq(CellType) /\ up[c][1] # <<>>
      BY <1>5, HopsFacts DEF HandshakeAnswer, Shapes, WireShapes, Wires
    <3> QED BY <1>5, <3>1, CellsOf, HopsFacts
      DEF HandshakeAnswer, Shapes, ClientShapes
  <2>2. Stands(c, 1, m)
    BY <2>1, HopsFacts DEF CircuitInv, Answers
  <2>3. CASE /\ client' = [client EXCEPT ![c] = "failed"]
             /\ UNCHANGED <<keys, cfwd, cbwd, down>>
    <3>1. ClientQuiet(c)
      <4>1. client'[c] = "failed"
        BY <2>3 DEF Shapes, ClientShapes
      <4> QED BY <2>3, <4>1 DEF ClientQuiet
    <3> QED BY <1>1, <1>2, <2>3, <3>1, SameQuiet DEF Quiet
  <2>4. CASE /\ m.cmd = IF k = 0 THEN "CREATED" ELSE "EXTENDED"
             /\ m.n = k + 1
             /\ keys' = [keys EXCEPT ![c] = k + 1]
             /\ \/ /\ client' = [client EXCEPT ![c] = "ready"]
                   /\ k + 1 = Hops /\ UNCHANGED down
                \/ /\ down' = PutDown(down, c, 1, extend)
                   /\ k + 1 # Hops /\ UNCHANGED client
    <3>1. Added(c, k + 1) /\ (k > 0 => Linked(c, k))
      BY <2>1, <2>2, <2>4 DEF Stands
    <3>2. keys'[c] = k + 1 /\ client[c] = "building"
      BY <1>5, <2>4 DEF HandshakeAnswer, Shapes, ClientShapes
    <3>3. ClientQuiet(c)
      <4>1. \A i \in Relays : /\ k + 1 >= i => k >= i \/ Added(c, i)
                              /\ k + 1 > i => k > i \/ Linked(c, i)
        <5>1. ASSUME NEW i \in Relays, k + 1 >= i PROVE k >= i \/ i = k + 1
          BY <2>1, <5>1, HopsFacts
        <5>2. ASSUME NEW i \in Relays, k + 1 > i
              PROVE  k > i \/ (i = k /\ k > 0)
          BY <2>1, <5>2, HopsFacts DEF Relays
        <5> QED BY <3>1, <5>1, <5>2
      <4>2. client'[c] = "ready" => k + 1 = Hops
        BY <2>4, <3>2
      <4>3. client'[c] # "idle"
        BY <2>4, <3>2 DEF Shapes, ClientShapes
      <4> QED BY <3>2, <4>1, <4>2, <4>3 DEF ClientQuiet
    <3>4. ASSUME NEW i \in Relays PROVE DownQuiet(c, i)
      <4>1. CASE UNCHANGED down
        BY <4>1, SameQuiet
      <4>2. CASE down' = PutDown(down, c, 1, extend)
        <5>1. Added(c, 1)
          BY <2>1, <3>1, HopsFacts DEF CircuitInv, ClientKnows
        <5>2. extend \in CellType
          BY <2>1, CellTyped, LayersTyped, HopsFacts DEF Shapes
        <5>3. extend.cmd # "CREATE"
          BY DEF Cell
        <5>4. down \in Wires /\ Len(down[c][i]) \in Nat
          <6>1. down \in Wires /\ down[c][i] \in Seq(CellType)
            BY DEF Shapes, WireShapes, Wires
          <6> QED BY <6>1
        <5>5. Len(down[c][i]) <= Len(down[c][i])
          BY <5>4
        <5> HIDE DEF extend
        <5> QED BY <4>2, <5>1, <5>2, <5>3, <5>4, <5>5, HopsFacts, PutDownQuiet
      <4> QED BY <2>4, <4>1, <4>2
    <3> QED BY <1>1, <1>2, <3>3, <3>4, SameQuiet DEF Quiet
  <2> QED BY <1>5, <2>3, <2>4 DEF HandshakeAnswer
<1> QED BY <1>1, <1>2, <1>3, <1>4, <1>5, SameQuiet DEF Quiet

\* The task that reads a cell other than CREATE is at a hop of the circuit.
LEMMA ReadsMine ==
  ASSUME Shapes, LockInv, NEW c \in Circuits, CircuitInv(c), NEW i \in Relays,
         NEW cmd, Has(c, i, cmd), cmd # "CREATE"
  PROVE  /\ i \in alive /\ Mine(c, i) /\ down[c][i] # <<>>
         /\ task[c][i] = "open" /\ extending[i] # c
         /\ i > 1 => extending[i - 1] # c
<1>1. /\ task[c][i] = "open" /\ extending[i] # c /\ down[c][i] # <<>>
      /\ Head(down[c][i]).cmd = cmd /\ i \in alive
  BY DEF Has, Busy, LockInv, TasksAlive
<1>2. Head(down[c][i]) \in Cells(down[c][i])
  <2>1. down[c][i] \in Seq(CellType)
    BY DEF Shapes, WireShapes, Wires
  <2> QED BY <1>1, <2>1, CellsOf
<1>3. Mine(c, i)
  BY <1>1, <1>2 DEF CircuitInv, Fresh
<1>4. ASSUME i > 1 PROVE extending[i - 1] # c
  <2>1. i - 1 \in Relays /\ (i - 1) + 1 = i
    BY <1>4, HopsAssumption DEF Relays
  <2> QED BY <1>1, <1>2, <2>1 DEF CircuitInv, Extends
<1> QED BY <1>1, <1>3, <1>4

\* The registry, the tasks and the lock after a quiet step of a task.
LEMMA TaskHopQuiet ==
  ASSUME Shapes, LockInv, NEW c \in Circuits, NEW i \in Relays,
         UNCHANGED reader, UNCHANGED task \/ Ends(c, i),
         task[c][i] = "open",
         UNCHANGED registry \/ registry' = Peeled(i, c),
         \/ UNCHANGED extending
         \/ extending' = [extending EXCEPT ![i] = None] /\ Ends(c, i),
         NEW j \in Relays
  PROVE  HopQuiet(c, j)
<1>1. Id(c) \in Numbers /\ registry \in Registries
  BY DEF Id, Circuits, Shapes, RelayShapes
<1>2. Mine(c, j)' = Mine(c, j) /\ HasNext(c, j)' = HasNext(c, j)
  <2>1. CASE registry' = Peeled(i, c)
    <3>1. /\ SlotsSeen(registry, registry', i, Id(c))
          /\ KeepsNext(registry, registry')
      BY <1>1, <2>1, SlotSeen DEF Peeled
    <3> QED BY <1>1, <3>1 DEF SlotsSeen, KeepsNext, Mine, HasNext
  <2> QED BY <2>1 DEF Mine, HasNext
<1>3. /\ task'[c][j] = task[c][j] \/ (j = i /\ task'[c][j] = "ended")
      /\ extending'[j] = c => extending[j] = c
      /\ extending[j] = c => extending'[j] = c \/ task'[c][j] = "ended"
  BY NoneAssumption DEF Ends, LockInv
<1> QED BY <1>2, <1>3 DEF HopQuiet

LEMMA TaskIsQuiet ==
  ASSUME Shapes, LockInv, NEW c \in Circuits, CircuitInv(c), NEW i \in Relays,
         \/ HandleExtend(c, i) /\ UNCHANGED extending
         \/ ExtendFails(c, i) \/ HandleRelay(c, i)
         \/ (i = Hops /\ HandleAtExit(c)) \/ ConnEof(c, i)
  PROVE  Quiet(c)
<1>1. down \in Wires /\ up \in Wires
  BY DEF Shapes, WireShapes
<1>2. ASSUME HandleExtend(c, i), UNCHANGED extending
      PROVE  Ends(c, i) /\ down[c][i] # <<>> /\ down' = TakeDown(c, i)
  <2>1. extending[i] = None
    BY <1>2 DEF HandleExtend, Unlocked
  <2>2. extending' # [extending EXCEPT ![i] = c]
    BY <1>2, <2>1, NoneAssumption DEF LockInv
  <2> QED BY <1>2, <2>2 DEF HandleExtend, Has
<1>3. ClientQuiet(c) /\ UNCHANGED <<alive, up, reader>>
  <2>1. UNCHANGED <<client, keys, alive, up, reader>>
    BY DEF HandleExtend, ExtendFails, HandleRelay, HandleAtExit, ConnEof,
      clientVars, exitVars
  <2> QED BY <2>1, SameQuiet
<1>4. ASSUME NEW j \in Relays PROVE HopQuiet(c, j)
  <2>1. /\ UNCHANGED task \/ Ends(c, i)
        /\ UNCHANGED registry \/ registry' = Peeled(i, c)
        /\ \/ UNCHANGED extending
           \/ extending' = [extending EXCEPT ![i] = None] /\ Ends(c, i)
    BY <1>2 DEF HandleExtend, ExtendFails, HandleRelay, HandleAtExit, ConnEof
  <2>2. task[c][i] = "open"
    BY DEF HandleExtend, ExtendFails, HandleRelay, HandleAtExit, ConnEof, Has,
      LockInv, LocksHeld
  <2> QED BY <1>3, <2>1, <2>2, TaskHopQuiet
<1>5. ExitQuiet(c)
  <2>1. CASE UNCHANGED serving
    BY <2>1, SameQuiet
  <2>2. CASE i = Hops /\ HandleAtExit(c)
    <3>1. Has(c, Hops, "DATA")
      BY <2>2 DEF HandleAtExit
    <3>2. task[c][Hops] = "open" /\ extending[Hops - 1] # c
      BY <3>1, ReadsMine, HopsFacts
    <3> QED BY <3>2 DEF ExitQuiet
  <2> QED BY <2>1, <2>2 DEF HandleExtend, ExtendFails, HandleRelay,
    HandleAtExit, ConnEof, exitVars
<1>6. ASSUME NEW j \in Relays PROVE DownQuiet(c, j)
  <2>1. CASE UNCHANGED down
    BY <2>1, SameQuiet
  <2>2. CASE down[c][i] # <<>> /\ down' = TakeDown(c, i)
    BY <2>2, TakenQuiet
  <2>3. CASE HandleRelay(c, i) /\ HasNext(c, i)
    <3> DEFINE h == registry[i][Id(c)]
               m == Head(down[c][i])
               peeled == [m EXCEPT !.layers = Peel(h, i, m)]
               taken == TakeDown(c, i)
    <3>1. /\ Mine(c, i) /\ i \in alive /\ i < Hops /\ extending[i] # c
          /\ down[c][i] # <<>> /\ m.cmd # "CREATE"
      <4>1. PICK cmd \in {"DATA", "EXTEND"} : Has(c, i, cmd)
        BY <2>3 DEF HandleRelay
      <4> QED BY <2>3, <4>1, ReadsMine DEF HandleRelay, Has
    <3>2. i + 1 \in Relays /\ (i + 1) - 1 = i /\ Added(c, i + 1)
      <4>1. i + 1 \in Relays /\ (i + 1) - 1 = i
        BY <3>1, HopsAssumption DEF Relays
      <4> QED BY <2>3, <3>1, <4>1 DEF CircuitInv, NextKept
    <3>3. taken \in Wires /\ m \in CellType
      BY <1>1, <3>1, HeadTyped DEF TakeDown
    <3>4. peeled \in CellType /\ peeled.cmd = m.cmd
      <4>1. /\ h.key \in Circuits \union {None} /\ h.fwd \in Nat
        BY HandlersTyped DEF Shapes, HandlerType
      <4>2. Peel(h, i, m) \in Layers
        BY <3>3, <4>1, CellFields, BlockTyped DEF Peel
      <4> QED BY <3>3, <4>2, CellFields DEF CellType
    <3>5. /\ Cells(taken[c][j]) \subseteq Cells(down[c][j])
          /\ Len(taken[c][j]) <= Len(down[c][j])
      BY <1>1, <3>1, TakeMoves DEF TakeDown
    <3>6. down' = PutDown(taken, c, i + 1, peeled)
      BY <2>3, <3>1 DEF HandleRelay, Mine, HasNext
    <3> HIDE DEF taken, peeled, m
    <3> QED BY <3>1, <3>2, <3>3, <3>4, <3>5, <3>6, PutDownQuiet
  <2> QED BY <1>2, <2>1, <2>2, <2>3 DEF ExtendFails, HandleRelay,
    HandleAtExit, ConnEof, Has, HasNext
<1> QED BY <1>3, <1>4, <1>5, <1>6, SameQuiet DEF Quiet

\* A hop with a reader, or with a stream task, is one that nobody extends to.
LEMMA NotExtendedTo ==
  ASSUME NEW c \in Circuits, CircuitInv(c), NEW i \in Relays,
         reader[c][i] # "none" \/ (i = Hops /\ c \in serving)
  PROVE  task[c][i] # "none" /\ (i > 1 => extending[i - 1] # c)
<1>1. task[c][i] # "none"
  BY DEF CircuitInv, NotYet
<1>2. ASSUME i > 1 PROVE extending[i - 1] # c
  <2>1. i - 1 \in Relays /\ (i - 1) + 1 = i
    BY <1>2, HopsAssumption DEF Relays
  <2> QED BY <2>1 DEF CircuitInv, Extends
<1> QED BY <1>1, <1>2

LEMMA ReaderIsQuiet ==
  ASSUME Shapes, NEW c \in Circuits, CircuitInv(c), NEW i \in Relays,
         ReaderStep(c, i)
  PROVE  Quiet(c)
<1>1. /\ i < Hops /\ i + 1 \in Relays /\ (i + 1) - 1 = i /\ i # i + 1
      /\ reader[c][i] = "running"
      /\ UNCHANGED <<client, keys, serving, alive, task, extending, down>>
  <2>1. /\ i < Hops /\ reader[c][i] = "running"
        /\ UNCHANGED <<client, keys, serving, alive, task, extending, down>>
    BY HopsFacts DEF ReaderStep, Backward, EntryDestroy, ReaderEof, ReaderEnds,
      clientVars, exitVars
  <2> QED BY <2>1, HopsAssumption DEF Relays
<1>2. down \in Wires /\ up \in Wires /\ registry \in Registries
  BY DEF Shapes, WireShapes, RelayShapes
<1>3. ASSUME NEW j \in Relays PROVE HopQuiet(c, j)
  <2>1. Mine(c, j)' = Mine(c, j) /\ HasNext(c, j)' = HasNext(c, j)
    <3>1. CASE registry' = [registry EXCEPT ![i][Id(c)].bwd = @ + 1]
      <4>1. Id(c) \in Numbers
        BY DEF Id, Circuits
      <4>2. /\ SlotsSeen(registry, registry', i, Id(c))
            /\ KeepsNext(registry, registry')
        BY <1>2, <3>1, <4>1, SlotSeen
      <4> QED BY <4>1, <4>2 DEF SlotsSeen, KeepsNext, Mine, HasNext
    <3> QED BY <3>1 DEF ReaderStep, Backward, EntryDestroy, ReaderEof,
      ReaderEnds, Mine, HasNext
  <2>2. reader[c][j] = "none" => reader'[c][j] = "none"
    <3>1. UNCHANGED reader \/ reader' = [reader EXCEPT ![c][i] = "ended"]
      BY DEF ReaderStep, Backward, EntryDestroy, ReaderEof, ReaderEnds
    <3> QED BY <1>1, <3>1 DEF Shapes, RelayShapes
  <2> QED BY <1>1, <2>1, <2>2 DEF HopQuiet
<1>4. ASSUME NEW j \in Relays PROVE UpQuiet(c, j)
  <2> DEFINE h == registry[i][Id(c)]
             m == Head(up[c][i + 1])
             layered == [m EXCEPT !.layers = Apply(@, Block(h.key, i, "b", h.bwd))]
             taken == TakeUp(c, i + 1)
  <2>1. task[c][i] # "none" /\ (i > 1 => extending[i - 1] # c)
    BY <1>1, NotExtendedTo
  <2>2. ASSUME NEW ch \in Wires, Cells(ch[c][j]) \subseteq Cells(up[c][j]),
               NEW cell \in CellType, Stands(c, i, cell),
               up' = PutUp(ch, c, i, cell)
        PROVE  UpQuiet(c, j)
    BY <2>1, <2>2, PutUpQuiet
  <2>3. Destroy \in CellType /\ Stands(c, i, Destroy)
    BY CellTyped, NoLayers DEF Destroy, Cell, Stands
  <2>4. ASSUME up[c][i + 1] # <<>>
        PROVE  /\ taken \in Wires /\ Cells(taken[c][j]) \subseteq Cells(up[c][j])
               /\ m \in CellType /\ m \in Cells(up[c][i + 1])
    BY <1>1, <1>2, <2>4, HeadTyped, TakeMoves DEF TakeUp
  <2>5. ASSUME up[c][i + 1] # <<>>, m.cmd # "CREATED"
        PROVE  /\ Stands(c, i, m) /\ layered \in CellType
               /\ Stands(c, i, layered)
    <3>1. Stands(c, i + 1, m)
      BY <1>1, <2>4, <2>5 DEF CircuitInv, Answers
    <3>2. Stands(c, i, m)
      <4>1. \A n \in Relays : i + 1 < n => i < n
        BY HopsFacts
      <4> QED BY <2>5, <3>1, <4>1 DEF Stands
    <3>3. /\ layered \in CellType /\ layered.cmd = m.cmd /\ layered.n = m.n
      <4>1. h.key \in Circuits \union {None} /\ h.bwd \in Nat
        BY HandlersTyped DEF Shapes, HandlerType
      <4>2. m \in CellType
        BY <2>4, <2>5
      <4>3. Apply(m.layers, Block(h.key, i, "b", h.bwd)) \in Layers
        BY <4>1, <4>2, CellFields, BlockTyped
      <4> QED BY <4>2, <4>3 DEF CellType
    <3> QED BY <3>2, <3>3 DEF Stands
  <2> HIDE DEF h, layered, taken, m
  <2>6. \/ up[c][i + 1] # <<>> /\ up' = taken
        \/ /\ up[c][i + 1] # <<>> /\ m.cmd # "CREATED"
           /\ \/ up' = PutUp(taken, c, i, layered)
              \/ up' = PutUp(taken, c, i, m)
        \/ up[c][i + 1] # <<>> /\ up' = PutUp(taken, c, i, Destroy)
        \/ up' = PutUp(up, c, i, Destroy)
    <3>1. CASE Backward(c, i)
      BY <3>1 DEF Backward, h, m, layered, taken
    <3>2. CASE i = 1 /\ EntryDestroy(c)
      BY <3>2 DEF EntryDestroy, taken
    <3> QED BY <3>1, <3>2 DEF ReaderStep, ReaderEof
  <2>7. CASE up[c][i + 1] # <<>> /\ up' = taken
    BY <1>1, <2>7, TakenQuiet DEF taken
  <2>8. CASE /\ up[c][i + 1] # <<>> /\ m.cmd # "CREATED"
             /\ \/ up' = PutUp(taken, c, i, layered)
                \/ up' = PutUp(taken, c, i, m)
    BY <2>2, <2>4, <2>5, <2>8
  <2>9. CASE up[c][i + 1] # <<>> /\ up' = PutUp(taken, c, i, Destroy)
    BY <2>2, <2>3, <2>4, <2>9
  <2>10. CASE up' = PutUp(up, c, i, Destroy)
    BY <1>2, <2>2, <2>3, <2>10
  <2> QED BY <2>6, <2>7, <2>8, <2>9, <2>10
<1> QED BY <1>1, <1>3, <1>4, SameQuiet DEF Quiet

LEMMA StreamIsQuiet ==
  ASSUME Shapes, NEW c \in Circuits, CircuitInv(c),
         ExitSend(c) \/ StreamsEnd(c)
  PROVE  Quiet(c)
<1>1. /\ UNCHANGED <<client, keys, down>> /\ UNCHANGED relayVars
      /\ c \in serving' => c \in serving
  BY DEF ExitSend, StreamsEnd, clientVars
<1>2. ASSUME NEW j \in Relays PROVE UpQuiet(c, j)
  <2>1. CASE UNCHANGED up
    BY <2>1, SameQuiet
  <2>2. CASE ExitSend(c)
    <3> DEFINE cell == Cell("DATA", exitSent[c] + 1,
                            {Block(c, Hops, "b", exitSent[c])})
    <3>1. task[c][Hops] # "none" /\ (Hops > 1 => extending[Hops - 1] # c)
      BY <2>2, HopsFacts, NotExtendedTo DEF ExitSend
    <3>2. cell \in CellType
      <4>1. exitSent[c] \in Nat /\ exitSent[c] + 1 \in Nat
        BY DEF Shapes, ExitShapes
      <4> QED BY <4>1, HopsFacts, BlockTyped, CellTyped
    <3>3. Stands(c, Hops, cell)
      BY DEF Stands, Cell
    <3>4. up \in Wires /\ up' = PutUp(up, c, Hops, cell)
      BY <2>2 DEF ExitSend, Shapes, WireShapes
    <3> HIDE DEF cell
    <3> QED BY <3>1, <3>2, <3>3, <3>4, HopsFacts, PutUpQuiet
  <2> QED BY <2>1, <2>2 DEF StreamsEnd
<1> QED BY <1>1, <1>2, SameQuiet DEF Quiet, ExitQuiet

LEMMA ReplyIsQuiet ==
  ASSUME Shapes, LockInv, ReplyInv, NEW c \in Circuits, CircuitInv(c),
         ReplyKnown(c), TagReply(c) \/ WriteReply(c)
  PROVE  Quiet(c)
<1>1. CASE TagReply(c)
  BY <1>1, SameQuiet DEF TagReply, clientVars, relayVars, Quiet
<1>2. CASE WriteReply(c)
  <2>1. /\ UNCHANGED <<client, keys, down, alive, registry, reader, serving,
                       extending>>
        /\ UNCHANGED task \/ Ends(c, Hops)
        /\ task[c][Hops] = "open" /\ extending[Hops - 1] # c
        /\ up' = PutUp(up, c, Hops, ReplyCell(c)) \/ UNCHANGED up
    BY <1>2 DEF WriteReply, clientVars, ReplyInv, RepliesHeld, ReplyKnown,
      ReplyCell
  <2>2. ASSUME NEW j \in Relays PROVE HopQuiet(c, j)
    BY <2>1, HopsFacts, TaskHopQuiet
  <2>3. ASSUME NEW j \in Relays PROVE UpQuiet(c, j)
    <3>1. CASE UNCHANGED up
      BY <3>1, SameQuiet
    <3>2. CASE up' = PutUp(up, c, Hops, ReplyCell(c))
      <4>1. ReplyCell(c) \in CellType
        BY <1>2, ReplyCellTyped
      <4>2. Stands(c, Hops, ReplyCell(c))
        BY DEF Stands, ReplyCell, Cell
      <4>3. up \in Wires
        BY DEF Shapes, WireShapes
      <4> QED BY <2>1, <3>2, <4>1, <4>2, <4>3, HopsFacts, PutUpQuiet
    <3> QED BY <2>1, <3>1, <3>2
  <2> QED BY <2>1, <2>2, <2>3, SameQuiet DEF Quiet
<1> QED BY <1>1, <1>2

\* The exit replies to a cell it was sent: it has been extended to, once.
LEMMA ReplyKnownKeeps ==
  ASSUME Shapes, LockInv, ReplyInv, NEW c \in Circuits, CircuitInv(c),
         ReplyKnown(c), [Next]_vars
  PROVE  ReplyKnown(c)'
<1>1. Hops - 1 \in Relays /\ (Hops - 1) + 1 = Hops /\ Hops - 1 < Hops
  BY HopsAssumption DEF Relays
<1>2. CASE UNCHANGED <<replying, extending>>
  BY <1>2 DEF ReplyKnown
<1>3. ASSUME NEW d \in Circuits,
             \/ Connect(d) \/ ConnectFails(d) \/ ClientStep(d) \/ SendData(d)
             \/ Release(d) \/ ExitSend(d) \/ StreamsEnd(d)
             \/ \E i \in Relays : ReaderStep(d, i) \/ LoseTail(d, i)
      PROVE  UNCHANGED <<replying, extending>>
  BY <1>3 DEF Connect, ConnectFails, ClientStep, HandshakeAnswer, BuildFails,
    ReadCell, ReadEof, SendData, Release, ExitSend, StreamsEnd, ReaderStep,
    Backward, EntryDestroy, ReaderEof, ReaderEnds, LoseTail, relayVars,
    exitVars, replyVars
<1>4. ASSUME NEW d \in Circuits, NEW i \in Relays, TaskStep(d, i)
      PROVE  ReplyKnown(c)'
  <2>1. CASE \/ HandleCreate(d, i) \/ AddCircuit(d, i) \/ HandleRelay(d, i)
             \/ ConnEof(d, i) \/ TagReply(d)
    BY <1>2, <2>1 DEF HandleCreate, AddCircuit, HandleRelay, ConnEof,
      TagReply, relayVars, exitVars, replyVars
  <2>2. CASE ExtendDone(d, i) \/ ExtendFails(d, i)
    <3>1. /\ UNCHANGED replying
          /\ extending' = [extending EXCEPT ![i] = None]
      BY <2>2 DEF ExtendDone, ExtendFails, exitVars, replyVars
    <3> QED BY <1>1, <3>1, NoneAssumption DEF ReplyKnown, LockInv
  <2>3. CASE WriteReply(d)
    BY <2>3, NoneAssumption DEF WriteReply, ReplyKnown
  <2>4. CASE HandleAtExit(d)
    <3>1. CASE d # c
      BY <2>4, <3>1 DEF HandleAtExit, ReplyKnown
    <3>2. CASE d = c
      <4>1. Has(c, Hops, "DATA") /\ UNCHANGED extending
        BY <2>4, <3>2 DEF HandleAtExit
      <4>2. extending[Hops - 1] # c
        BY <4>1, ReadsMine, HopsFacts
      <4> QED BY <4>1, <4>2 DEF ReplyKnown
    <3> QED BY <3>1, <3>2
  <2>5. CASE HandleExtend(d, i)
    <3>1. /\ UNCHANGED replying /\ extending[i] = None
          /\ extending' \in {extending, [extending EXCEPT ![i] = d]}
          /\ ~HasNext(d, i) /\ Has(d, i, "EXTEND")
      BY <2>5 DEF HandleExtend, HasNext, Unlocked, exitVars, replyVars
    <3>2. CASE d # c \/ i # Hops - 1
      BY <1>1, <3>1, <3>2, NoneAssumption DEF ReplyKnown, LockInv
    <3>3. CASE d = c /\ i = Hops - 1
      <4>1. i \in alive /\ Mine(c, i) /\ task[c][i] = "open"
        BY <3>1, <3>3, ReadsMine
      <4>2. task[c][Hops] = "none"
        BY <1>1, <3>1, <3>3, <4>1, NoneAssumption DEF CircuitInv, NextKept
      <4>3. replying # c
        BY <4>2 DEF ReplyInv, RepliesHeld
      <4> QED BY <3>1, <4>3 DEF ReplyKnown
    <3> QED BY <3>2, <3>3
  <2> QED BY <1>4, <2>1, <2>2, <2>3, <2>4, <2>5 DEF TaskStep
<1>5. ASSUME NEW r \in Relays, Die(r) PROVE ReplyKnown(c)'
  BY <1>1, <1>5, NoneAssumption DEF Die, ReplyKnown, LockInv
<1>6. CASE UNCHANGED vars
  BY <1>2, <1>6 DEF vars, relayVars, exitVars, replyVars
<1> QED BY <1>2, <1>3, <1>4, <1>5, <1>6 DEF Next

LEMMA LossIsQuiet ==
  ASSUME Shapes, NEW c \in Circuits, CircuitInv(c), NEW i \in Relays,
         LoseTail(c, i)
  PROVE  Quiet(c)
<1>1. /\ UNCHANGED <<client, keys, serving>> /\ UNCHANGED relayVars
  BY DEF LoseTail, clientVars, exitVars
<1>2. ASSUME NEW ch \in Wires, ch[c][i] # <<>>, NEW j \in Relays
      PROVE  /\ Cells([ch EXCEPT ![c][i] = Shorten(@)][c][j])
                  \subseteq Cells(ch[c][j])
             /\ Len([ch EXCEPT ![c][i] = Shorten(@)][c][j]) <= Len(ch[c][j])
  <2>1. ch[c][i] \in Seq(CellType) /\ ch[c][j] \in Seq(CellType)
    BY DEF Wires
  <2>2. /\ Cells(Shorten(ch[c][i])) \subseteq Cells(ch[c][i])
        /\ Len(Shorten(ch[c][i])) = Len(ch[c][i]) - 1
        /\ Len(ch[c][i]) \in Nat /\ Len(ch[c][j]) \in Nat
    BY <1>2, <2>1, CellsOf
  <2>3. [ch EXCEPT ![c][i] = Shorten(@)][c][j]
          = IF j = i THEN Shorten(ch[c][i]) ELSE ch[c][j]
    BY DEF Wires
  <2> QED BY <2>2, <2>3
<1>3. ASSUME NEW j \in Relays PROVE DownQuiet(c, j) /\ UpQuiet(c, j)
  <2>1. down \in Wires /\ up \in Wires
    BY DEF Shapes, WireShapes
  <2>2. CASE UNCHANGED down /\ up[c][i] # <<>>
             /\ up' = [up EXCEPT ![c][i] = Shorten(@)]
    BY <1>2, <2>1, <2>2, SameQuiet DEF UpQuiet
  <2>3. CASE UNCHANGED up /\ down[c][i] # <<>>
             /\ down' = [down EXCEPT ![c][i] = Shorten(@)]
    BY <1>2, <2>1, <2>3, SameQuiet DEF DownQuiet
  <2> QED BY <2>2, <2>3 DEF LoseTail
<1> QED BY <1>1, <1>3, SameQuiet DEF Quiet

LEMMA ExtendDoneIsQuiet ==
  ASSUME Shapes, LockInv, NEW c \in Circuits, CircuitInv(c), NEW i \in Relays,
         ExtendDone(c, i)
  PROVE  Quiet(c)
<1> DEFINE h == registry[i][Id(c)]
           m == Head(up[c][i + 1])
           answer == Cell("EXTENDED", m.n, {Block(h.key, i, "b", h.bwd)})
           taken == TakeUp(c, i + 1)
<1>1. /\ extending[i] = c /\ up[c][i + 1] # <<>>
      /\ UNCHANGED <<client, keys, serving, alive, down>>
      /\ extending' = [extending EXCEPT ![i] = None]
      /\ registry' = [registry EXCEPT ![i][Id(c)].next = TRUE,
                                      ![i][Id(c)].bwd = @ + 1]
      /\ UNCHANGED task \/ Ends(c, i)
      /\ UNCHANGED reader \/ reader' = [reader EXCEPT ![c][i] = "running"]
      /\ up' = taken \/ up' = PutUp(taken, c, i, answer)
  BY DEF ExtendDone, clientVars, exitVars
<1>2. /\ i < Hops /\ i \in Nat /\ i + 1 \in Relays /\ (i + 1) - 1 = i
      /\ i < i + 1 /\ i # i + 1
  <2>1. i < Hops
    BY <1>1, NoneAssumption DEF Shapes, RelayShapes
  <2> QED BY <2>1, HopsAssumption DEF Relays
<1>3. /\ i \in alive /\ task[c][i] = "open" /\ Mine(c, i)
      /\ \A n \in Cells(up[c][i + 1]) : n.cmd = "CREATED"
  BY <1>1 DEF LockInv, LocksHeld, CircuitInv, Extends
<1>4. i > 1 => extending[i - 1] # c
  <2> SUFFICES ASSUME i > 1 PROVE extending[i - 1] # c
    OBVIOUS
  <2>1. i - 1 \in Relays /\ (i - 1) + 1 = i
    BY HopsAssumption DEF Relays
  <2> QED BY <1>1, <2>1 DEF CircuitInv, Extends
<1>5. up \in Wires /\ registry \in Registries /\ Id(c) \in Numbers
  BY DEF Shapes, WireShapes, RelayShapes, Id, Circuits
<1>6. m \in CellType /\ m \in Cells(up[c][i + 1]) /\ taken \in Wires
  BY <1>1, <1>2, <1>5, HeadTyped, TakeMoves DEF TakeUp
<1>7. m.n = i + 1 /\ Added(c, i + 1)
  <2>1. m.cmd = "CREATED" /\ Stands(c, i + 1, m)
    BY <1>2, <1>3, <1>6 DEF CircuitInv, Answers
  <2> QED BY <2>1 DEF Stands
<1>8. SlotsSeen(registry, registry', i, Id(c)) /\ HasNext(c, i)'
  BY <1>1, <1>5, NextSeen DEF HasNext
<1>9. ASSUME NEW j \in Relays
      PROVE  /\ Mine(c, j)' = Mine(c, j)
             /\ HasNext(c, j) => HasNext(c, j)'
             /\ HasNext(c, j)' => HasNext(c, j) \/ j = i
  BY <1>5, <1>8 DEF SlotsSeen, Mine, HasNext
<1>10. ASSUME NEW j \in Relays
       PROVE  task'[c][j] = task[c][j] \/ (j = i /\ task'[c][j] = "ended")
  BY <1>1 DEF Ends, LockInv
<1> HIDE DEF m, h, taken
<1>11. ASSUME NEW j \in Relays PROVE HopQuiet(c, j)
  <2>1. /\ extending'[j] = c => extending[j] = c
        /\ extending[j] = c => extending'[j] = c \/ HasNext(c, j)'
    BY <1>1, <1>8, NoneAssumption DEF LockInv
  <2>2. reader'[c][j] = reader[c][j] \/ j = i
    BY <1>1 DEF Shapes, RelayShapes
  <2>3. HasNext(c, j)' => HasNext(c, j) \/ (j < Hops /\ Added(c, j + 1))
    BY <1>2, <1>7, <1>9
  <2> QED BY <1>3, <1>4, <1>9, <1>10, <2>1, <2>2, <2>3 DEF HopQuiet
<1>12. ASSUME NEW j \in Relays PROVE UpQuiet(c, j)
  <2>1. CASE up' = taken
    BY <1>1, <1>2, <2>1, TakenQuiet DEF taken
  <2>2. CASE up' = PutUp(taken, c, i, answer)
    <3>1. PICK cell : cell = answer
      OBVIOUS
    <3>2. cell \in CellType
      <4>1. h.key \in Circuits \union {None} /\ h.bwd \in Nat
        BY HandlersTyped DEF h, Shapes, HandlerType
      <4> QED BY <1>6, <3>1, <4>1, CellFields, BlockTyped, CellTyped
    <3>3. Stands(c, i, cell)'
      <4>1. cell.cmd = "EXTENDED" /\ cell.n = i + 1
        BY <1>7, <3>1 DEF Cell
      <4>2. Added(c, i + 1)'
        BY <1>1, <1>2, <1>7, <1>9, <1>10 DEF Added
      <4>3. Linked(c, i)'
        BY <1>3, <1>8, <1>9 DEF Linked
      <4> QED BY <1>2, <4>1, <4>2, <4>3 DEF Stands
    <3>4. Cells(taken[c][j]) \subseteq Cells(up[c][j])
      BY <1>1, <1>2, <1>5, TakeMoves DEF taken, TakeUp
    <3> QED BY <1>3, <1>4, <1>6, <2>2, <3>1, <3>2, <3>3, <3>4, PutUpQuiet
  <2> QED BY <1>1, <2>1, <2>2
<1> QED BY <1>1, <1>11, <1>12, SameQuiet DEF Quiet
-----------------------------------------------------------------------------
(* Steps that are not quiet: a hop is connected to, handles CREATE, adds   *)
(* the circuit, or dies.                                                   *)

\* The client connects to hop 1, or the hop before k to hop k.
LEMMA OpenKeeps ==
  ASSUME Shapes, LockInv, NEW c \in Circuits, CircuitInv(c), NEW k \in alive,
         task[c][k] = "none", task' = [task EXCEPT ![c][k] = "open"],
         UNCHANGED <<alive, reader, up, serving, keys>>,
         \A j \in Relays :
           Mine(c, j)' = Mine(c, j) /\ HasNext(c, j)' = HasNext(c, j),
         Len(down'[c][k]) = 1, \A m \in Cells(down'[c][k]) : m.cmd = "CREATE",
         \A j \in Relays : j # k =>
           down'[c][j] = down[c][j]
             \/ (down[c][j] # <<>> /\ down'[c][j] = Tail(down[c][j])),
         \/ k = 1 /\ client'[c] = "building"
         \/ k > 1 /\ client'[c] = client[c],
         k > 1 => /\ Mine(c, k - 1) /\ task[c][k - 1] = "open"
                  /\ extending'[k - 1] = c
                  /\ k > 2 => extending[k - 2] # c,
         \A j \in Relays :
           j # k - 1 => (extending'[j] = c <=> extending[j] = c)
  PROVE  CircuitInv(c)'
<1>1. /\ k \in Relays /\ k \in Nat
      /\ \A j \in Relays : j \in Nat /\ (j < Hops => j + 1 \in Relays)
  BY HopsFacts DEF LockInv
<1>2. /\ task'[c][k] = "open"
      /\ \A j \in Relays : j # k => task'[c][j] = task[c][j]
  BY <1>1 DEF LockInv
<1>3. /\ ~Mine(c, k) /\ reader[c][k] = "none" /\ Cells(up[c][k]) = {}
      /\ k = Hops => c \notin serving
      /\ k < Hops => task[c][k + 1] = "none"
      /\ extending[k] # c
  <2>1. up[c][k] = <<>>
    BY <1>1 DEF CircuitInv, NotYet
  <2> QED BY <1>1, <2>1 DEF CircuitInv, NotYet, Cells, LockInv, LocksHeld
<1>4. ASSUME NEW j \in Relays
      PROVE  /\ Added(c, j) => Added(c, j)'
             /\ Linked(c, j) => Linked(c, j)'
  BY <1>2, <1>3 DEF Added, Linked
<1>5. ClientKnows(c)'
  <2>1. client'[c] = "idle" => task'[c][1] = "none"
    BY <1>2, HopsFacts DEF CircuitInv, ClientKnows
  <2> QED BY <1>4, <2>1 DEF CircuitInv, ClientKnows
<1>6. ASSUME NEW j \in Relays, j # k
      PROVE  /\ Cells(down'[c][j]) \subseteq Cells(down[c][j])
             /\ Len(down[c][j]) = 1 /\ Cells(down'[c][j]) # {} =>
                  Len(down'[c][j]) = 1
  <2>1. down[c][j] \in Seq(CellType)
    BY DEF Shapes, WireShapes, Wires
  <2>2. CASE down'[c][j] = down[c][j]
    BY <2>2
  <2>3. CASE down[c][j] # <<>> /\ down'[c][j] = Tail(down[c][j])
    <3>1. /\ Cells(Tail(down[c][j])) \subseteq Cells(down[c][j])
          /\ Len(Tail(down[c][j])) = Len(down[c][j]) - 1
      BY <2>1, <2>3, CellsOf
    <3>2. Len(Tail(down[c][j])) = 0 => Cells(Tail(down[c][j])) = {}
      <4>1. Tail(down[c][j]) \in Seq(CellType)
        BY <2>1, <2>3
      <4> QED BY <4>1, CellsOf
    <3> QED BY <2>3, <3>1, <3>2
  <2> QED BY <1>6, <2>2, <2>3
<1>7. ASSUME NEW j \in Relays PROVE NotYet(c, j)'
  <2> SUFFICES ASSUME task'[c][j] = "none"
               PROVE  /\ ~Mine(c, j)' /\ reader'[c][j] = "none"
                      /\ up'[c][j] = <<>>
                      /\ j = Hops => c \notin serving'
                      /\ j < Hops => task'[c][j + 1] = "none"
    BY DEF NotYet
  <2>1. j # k /\ task[c][j] = "none" /\ NotYet(c, j)
    BY <1>2 DEF CircuitInv
  <2>2. j < Hops => j + 1 # k
    <3>1. j + 1 = k => k > 1 /\ k - 1 = j
      BY <1>1, HopsAssumption DEF Relays
    <3> QED BY <2>1, <3>1
  <2> QED BY <1>1, <1>2, <2>1, <2>2 DEF NotYet
<1>8. ASSUME NEW j \in Relays PROVE Fresh(c, j)'
  <2>1. CASE j = k
    <3>1. k < Hops => task'[c][k + 1] = "none"
      BY <1>1, <1>2, <1>3
    <3> QED BY <1>2, <1>3, <2>1, <3>1 DEF Fresh
  <2>2. CASE j # k
    <3>1. Fresh(c, j) /\ task'[c][j] = task[c][j]
      BY <1>2, <2>2 DEF CircuitInv
    <3>2. j < Hops /\ ~Mine(c, j) => j + 1 # k
      <4>1. j + 1 = k => k > 1 /\ k - 1 = j
        BY <1>1, HopsAssumption DEF Relays
      <4> QED BY <4>1
    <3>3. j < Hops /\ ~Mine(c, j) => task'[c][j + 1] = task[c][j + 1]
      BY <1>1, <1>2, <3>2
    <3> QED BY <1>6, <2>2, <3>1, <3>3 DEF Fresh
  <2> QED BY <2>1, <2>2
<1>9. ASSUME NEW j \in Relays PROVE NextKept(c, j)'
  <2> SUFFICES ASSUME j \in alive, j < Hops, Mine(c, j)
               PROVE  /\ task'[c][j] = "open" /\ task'[c][j + 1] # "none" =>
                           HasNext(c, j)' \/ extending'[j] = c
                      /\ HasNext(c, j)' => Added(c, j + 1)'
    BY DEF NextKept
  <2>1. j # k /\ j + 1 \in Relays /\ NextKept(c, j)
    BY <1>1, <1>3 DEF CircuitInv
  <2>2. CASE j + 1 = k
    <3>1. k > 1 /\ k - 1 = j
      BY <1>1, <2>2, HopsAssumption DEF Relays
    <3> QED BY <1>4, <2>1, <3>1 DEF NextKept
  <2>3. CASE j + 1 # k
    <3>1. j # k - 1
      BY <1>1, <2>3, HopsAssumption DEF Relays
    <3> QED BY <1>2, <1>4, <2>1, <2>3, <3>1 DEF NextKept
  <2> QED BY <2>2, <2>3
<1>10. ASSUME NEW j \in Relays PROVE Extends(c, j)'
  <2> SUFFICES ASSUME extending'[j] = c PROVE Extends(c, j)'
    BY DEF Extends
  <2>1. CASE j = k - 1
    <3>1. k > 1 /\ k # k - 1 /\ j + 1 = k
      BY <1>1, <2>1, HopsAssumption DEF Relays
    <3>2. extending'[k] # c
      BY <1>1, <1>3, <3>1
    <3> QED BY <1>3, <2>1, <3>1, <3>2 DEF Extends
  <2>2. CASE j # k - 1
    <3>1. extending[j] = c /\ Extends(c, j)
      BY <2>2 DEF CircuitInv
    <3>2. j < Hops /\ j + 1 \in Relays /\ j + 1 # k
      <4>1. j < Hops
        BY <3>1, NoneAssumption DEF Shapes, RelayShapes
      <4> QED BY <2>2, <4>1, HopsAssumption DEF Relays
    <3>3. j + 1 # k - 1
      <4>1. j + 1 = k - 1 => k > 2 /\ j = k - 2
        BY <1>1, HopsAssumption DEF Relays
      <4>2. k > 2 => k > 1
        BY <1>1
      <4> QED BY <3>1, <4>1, <4>2
    <3>4. extending'[j + 1] # c
      BY <3>1, <3>2, <3>3 DEF Extends
    <3> QED BY <1>6, <3>1, <3>2, <3>4 DEF Extends
  <2> QED BY <2>1, <2>2
<1>11. ASSUME NEW j \in Relays PROVE Answers(c, j)'
  <2>1. ASSUME NEW m \in Cells(up'[c][j]) PROVE Stands(c, j, m)'
    <3>1. Stands(c, j, m)
      BY <2>1 DEF CircuitInv, Answers
    <3> QED BY <1>4, <3>1, StandsKeeps
  <2> QED BY <2>1 DEF Answers
<1> QED BY <1>5, <1>7, <1>8, <1>9, <1>10, <1>11 DEF CircuitInv

LEMMA OneCell ==
  ASSUME NEW cell
  PROVE  Len(<<cell>>) = 1 /\ Cells(<<cell>>) = {cell}
<1>1. Len(<<cell>>) = 1 /\ <<cell>>[1] = cell
  OBVIOUS
<1> QED BY <1>1 DEF Cells

LEMMA ConnectKeeps ==
  ASSUME Shapes, LockInv, NEW c \in Circuits, CircuitInv(c), Connect(c)
  PROVE  CircuitInv(c)'
<1> DEFINE create == Cell("CREATE", 1, {})
<1>1. /\ client[c] = "idle" /\ 1 \in alive /\ task[c][1] = "none"
      /\ client'[c] = "building"
      /\ task' = [task EXCEPT ![c][1] = "open"]
      /\ UNCHANGED <<alive, registry, extending, reader, up, serving, keys>>
  BY DEF Connect, exitVars, CircuitInv, ClientKnows, Shapes, ClientShapes
<1>2. /\ down'[c][1] = <<create>>
      /\ \A j \in Relays : j # 1 => down'[c][j] = down[c][j]
  BY HopsFacts DEF Connect, Shapes, WireShapes, Wires
<1>3. Len(down'[c][1]) = 1 /\ \A m \in Cells(down'[c][1]) : m.cmd = "CREATE"
  BY <1>2, OneCell DEF Cell
<1>4. \A j \in Relays :
        Mine(c, j)' = Mine(c, j) /\ HasNext(c, j)' = HasNext(c, j)
  BY <1>1 DEF Mine, HasNext
<1>5. PICK k : k = 1
  OBVIOUS
<1>6. /\ k \in alive /\ ~(k > 1) /\ ~(k > 2)
      /\ \A j \in Relays :
           j # k - 1 => (extending'[j] = c <=> extending[j] = c)
  BY <1>1, <1>5
<1>7. /\ task[c][k] = "none" /\ task' = [task EXCEPT ![c][k] = "open"]
      /\ Len(down'[c][k]) = 1 /\ \A m \in Cells(down'[c][k]) : m.cmd = "CREATE"
      /\ \A j \in Relays : j # k => down'[c][j] = down[c][j]
  BY <1>1, <1>2, <1>3, <1>5
<1> HIDE DEF create
<1> QED BY <1>1, <1>4, <1>5, <1>6, <1>7, OpenKeeps

LEMMA ExtendKeeps ==
  ASSUME Shapes, LockInv, NEW c \in Circuits, CircuitInv(c), NEW i \in Relays,
         HandleExtend(c, i), ~ UNCHANGED extending
  PROVE  CircuitInv(c)'
<1> DEFINE k == i + 1
           create == Cell("CREATE", i + 1, {})
           taken == TakeDown(c, i)
<1>1. /\ Has(c, i, "EXTEND") /\ extending[i] = None /\ ~HasNext(c, i)
      /\ registry' = Peeled(i, c) /\ i + 1 \in alive
      /\ extending' = [extending EXCEPT ![i] = c]
      /\ task' = [task EXCEPT ![c][i + 1] = "open"]
      /\ down' = [taken EXCEPT ![c][i + 1] = <<create>>]
      /\ UNCHANGED <<alive, reader, up, serving, keys, client>>
  BY DEF HandleExtend, Unlocked, HasNext, clientVars, exitVars
<1>2. /\ i \in alive /\ Mine(c, i) /\ down[c][i] # <<>> /\ task[c][i] = "open"
      /\ extending[i] # c /\ (i > 1 => extending[i - 1] # c)
  BY <1>1, ReadsMine
<1>3. /\ k \in Relays /\ i < Hops /\ k > 1 /\ k - 1 = i /\ i # k
      /\ k > 2 => i > 1 /\ k - 2 = i - 1
  <2>1. k \in Relays
    BY <1>1 DEF LockInv
  <2> QED BY <2>1, HopsAssumption DEF Relays
<1>4. task[c][k] = "none"
  BY <1>1, <1>2, <1>3 DEF CircuitInv, NextKept
<1>5. down \in Wires /\ taken \in Wires
  <2>1. down \in Wires
    BY DEF Shapes, WireShapes
  <2> QED BY <1>2, <2>1, HeadTyped DEF TakeDown
<1>6. down'[c][k] = <<create>>
  BY <1>1, <1>3, <1>5 DEF Wires
<1>7. ASSUME NEW j \in Relays, j # k
      PROVE  down'[c][j] = down[c][j]
               \/ (down[c][j] # <<>> /\ down'[c][j] = Tail(down[c][j]))
  <2>1. down'[c][j] = taken[c][j]
    BY <1>1, <1>3, <1>5, <1>7 DEF Wires
  <2>2. taken[c][j] = IF j = i THEN Tail(down[c][j]) ELSE down[c][j]
    BY <1>5 DEF TakeDown, Wires
  <2> QED BY <1>2, <2>1, <2>2
<1>8. ASSUME NEW j \in Relays
      PROVE  Mine(c, j)' = Mine(c, j) /\ HasNext(c, j)' = HasNext(c, j)
  <2>1. registry \in Registries /\ Id(c) \in Numbers
    BY DEF Shapes, RelayShapes, Id, Circuits
  <2>2. /\ SlotsSeen(registry, registry', i, Id(c))
        /\ KeepsNext(registry, registry')
    BY <1>1, <2>1, SlotSeen DEF Peeled
  <2> QED BY <2>1, <2>2 DEF SlotsSeen, KeepsNext, Mine, HasNext
<1>9. Len(down'[c][k]) = 1 /\ \A m \in Cells(down'[c][k]) : m.cmd = "CREATE"
  BY <1>6, OneCell DEF Cell
<1>10. /\ extending'[k - 1] = c
       /\ \A j \in Relays : j # k - 1 => (extending'[j] = c <=> extending[j] = c)
  BY <1>1, <1>3 DEF LockInv
<1>11. client'[c] = client[c] /\ k > 1
  BY <1>1, <1>3
<1>12. /\ Mine(c, k - 1) /\ task[c][k - 1] = "open"
       /\ k > 2 => extending[k - 2] # c
  BY <1>2, <1>3
<1> HIDE DEF taken, create
<1>13. task' = [task EXCEPT ![c][k] = "open"] /\ k \in alive
  BY <1>1
<1> HIDE DEF k
<1> QED BY <1>1, <1>4, <1>7, <1>8, <1>9, <1>10, <1>11, <1>12, <1>13, OpenKeeps

\* CREATED is on its way, the circuit not yet in the registry.
LEMMA CreateKeeps ==
  ASSUME Shapes, LockInv, NEW c \in Circuits, CircuitInv(c), NEW i \in Relays,
         HandleCreate(c, i)
  PROVE  CircuitInv(c)'
<1> DEFINE created == Cell("CREATED", i, {})
<1>1. /\ task[c][i] = "open" /\ extending[i] # c /\ down[c][i] # <<>>
      /\ Head(down[c][i]).cmd = "CREATE" /\ i \in alive
      /\ task' = [task EXCEPT ![c][i] = "adding"]
      /\ down' = TakeDown(c, i) /\ up' = PutUp(up, c, i, created)
      /\ UNCHANGED <<alive, registry, extending, reader, serving, keys, client>>
  BY DEF HandleCreate, Has, Busy, LockInv, TasksAlive, clientVars, exitVars
<1>2. down \in Wires /\ up \in Wires /\ created \in CellType
  BY CellTyped, NoLayers, HopsFacts DEF Shapes, WireShapes
<1>3. /\ task'[c][i] = "adding"
      /\ \A j \in Relays : j # i => task'[c][j] = task[c][j]
      /\ \A j \in Relays :
           Mine(c, j)' = Mine(c, j) /\ HasNext(c, j)' = HasNext(c, j)
  BY <1>1 DEF LockInv, Mine, HasNext
<1>4. ~Mine(c, i) /\ Cells(down'[c][i]) = {}
  <2>1. down[c][i] \in Seq(CellType)
    BY <1>2 DEF Wires
  <2>2. Head(down[c][i]) \in Cells(down[c][i])
    BY <1>1, <2>1, CellsOf
  <2>3. ~Mine(c, i) /\ Len(down[c][i]) = 1
    BY <1>1, <2>2 DEF CircuitInv, Fresh
  <2>4. /\ down'[c][i] = Tail(down[c][i]) /\ Tail(down[c][i]) \in Seq(CellType)
        /\ Len(Tail(down[c][i])) = 0
    BY <1>1, <1>2, <2>1, <2>3, CellsOf DEF TakeDown, Wires
  <2> QED BY <2>3, <2>4, CellsOf
<1>5. /\ i < Hops => task[c][i + 1] = "none"
      /\ i < Hops => i + 1 # i
  BY <1>1, <1>4, HopsFacts DEF CircuitInv, Fresh
<1>6. ASSUME NEW j \in Relays
      PROVE  /\ Added(c, j) => Added(c, j)'
             /\ Linked(c, j) => Linked(c, j)'
  BY <1>1, <1>3 DEF Added, Linked
<1>7. ASSUME NEW j \in Relays, j # i
      PROVE  down'[c][j] = down[c][j] /\ up'[c][j] = up[c][j]
  <2>1. down'[c][j] = down[c][j]
    BY <1>1, <1>2, <1>7 DEF TakeDown, Wires
  <2>2. up'[c][j] = up[c][j]
    <3> HIDE DEF created
    <3> QED BY <1>1, <1>2, <1>7, PutMoves
  <2> QED BY <2>1, <2>2
<1>8. Cells(up'[c][i]) \subseteq Cells(up[c][i]) \union {created}
  BY <1>1, <1>2, PutMoves
<1>9. ClientKnows(c)'
  <2>1. client'[c] = "idle" => task'[c][1] = "none"
    BY <1>1, <1>3, HopsFacts DEF CircuitInv, ClientKnows
  <2> QED BY <1>1, <1>6, <2>1 DEF CircuitInv, ClientKnows
<1>10. ASSUME NEW j \in Relays PROVE NotYet(c, j)'
  <2> SUFFICES ASSUME task'[c][j] = "none" PROVE NotYet(c, j)'
    BY DEF NotYet
  <2>1. j # i /\ task[c][j] = "none" /\ NotYet(c, j)
    BY <1>3 DEF CircuitInv
  <2>2. j < Hops => task'[c][j + 1] = "none"
    BY <1>1, <1>3, <2>1, HopsFacts DEF NotYet
  <2> QED BY <1>1, <1>3, <1>7, <2>1, <2>2 DEF NotYet
<1>11. ASSUME NEW j \in Relays PROVE Fresh(c, j)'
  <2>1. CASE j = i
    BY <1>3, <1>4, <1>5, <2>1, HopsFacts DEF Fresh
  <2>2. CASE j # i
    <3>1. j < Hops => (task[c][j + 1] = "none" => task'[c][j + 1] = "none")
      BY <1>1, <1>3, HopsFacts
    <3> QED BY <1>1, <1>3, <1>7, <2>2, <3>1 DEF CircuitInv, Fresh
  <2> QED BY <2>1, <2>2
<1>12. ASSUME NEW j \in Relays PROVE NextKept(c, j)'
  <2> SUFFICES ASSUME j \in alive, j < Hops, Mine(c, j)
               PROVE  /\ task'[c][j] = "open" /\ task'[c][j + 1] # "none" =>
                           HasNext(c, j)' \/ extending'[j] = c
                      /\ HasNext(c, j)' => Added(c, j + 1)'
    BY <1>1, <1>3 DEF NextKept
  <2>1. j # i /\ j + 1 \in Relays /\ NextKept(c, j)
    BY <1>4, HopsFacts DEF CircuitInv
  <2>2. task'[c][j + 1] # "none" => task[c][j + 1] # "none"
    BY <1>1, <1>3, <2>1
  <2> QED BY <1>1, <1>3, <1>6, <2>1, <2>2 DEF NextKept
<1>13. ASSUME NEW j \in Relays PROVE Extends(c, j)'
  <2> SUFFICES ASSUME extending[j] = c PROVE Extends(c, j)'
    BY <1>1 DEF Extends
  <2>1. Extends(c, j) /\ j + 1 \in Relays
    <3>1. j < Hops
      BY NoneAssumption DEF Shapes, RelayShapes
    <3> QED BY <3>1, HopsFacts DEF CircuitInv
  <2>2. \A m \in Cells(up'[c][j + 1]) : m.cmd = "CREATED"
    <3>1. created.cmd = "CREATED"
      BY DEF Cell
    <3> HIDE DEF created
    <3> QED BY <1>7, <1>8, <2>1, <3>1 DEF Extends
  <2>3. \A m \in Cells(down'[c][j + 1]) : m.cmd = "CREATE"
    BY <1>4, <1>7, <2>1 DEF Extends
  <2> QED BY <1>1, <1>3, <2>1, <2>2, <2>3 DEF Extends
<1>14. ASSUME NEW j \in Relays PROVE Answers(c, j)'
  <2>1. ASSUME NEW m \in Cells(up'[c][j]) PROVE Stands(c, j, m)'
    <3>1. CASE m \in Cells(up[c][j])
      <4>1. Stands(c, j, m)
        BY <3>1 DEF CircuitInv, Answers
      <4> QED BY <1>6, <4>1, StandsKeeps
    <3>2. CASE j = i /\ m = created
      <4>1. m.cmd = "CREATED" /\ m.n = j
        BY <3>2 DEF Cell
      <4>2. Added(c, j)'
        BY <1>3, <3>2 DEF Added
      <4> HIDE DEF created
      <4> QED BY <4>1, <4>2 DEF Stands
    <3> QED BY <1>7, <1>8, <2>1, <3>1, <3>2
  <2> QED BY <2>1 DEF Answers
<1> QED BY <1>9, <1>10, <1>11, <1>12, <1>13, <1>14 DEF CircuitInv

LEMMA AddKeeps ==
  ASSUME Shapes, LockInv, NEW c \in Circuits, CircuitInv(c), NEW i \in Relays,
         AddCircuit(c, i)
  PROVE  CircuitInv(c)'
<1>1. /\ task[c][i] = "adding" /\ i \in alive
      /\ registry' = [registry EXCEPT ![i][Id(c)] = Handler(c)]
      /\ task' = [task EXCEPT ![c][i] = "open"]
      /\ UNCHANGED <<alive, extending, reader, down, up, serving, keys, client>>
  BY DEF AddCircuit, LockInv, TasksAlive, clientVars, exitVars
<1>2. /\ ~Mine(c, i) /\ extending[i] # c
      /\ \A m \in Cells(down[c][i]) : m.cmd # "CREATE"
      /\ i < Hops => task[c][i + 1] = "none"
  BY <1>1 DEF CircuitInv, Fresh, LockInv, LocksHeld
<1>3. /\ Mine(c, i)' /\ ~HasNext(c, i)'
      /\ \A j \in Relays : j # i =>
           Mine(c, j)' = Mine(c, j) /\ HasNext(c, j)' = HasNext(c, j)
  <2>1. registry \in Registries /\ Id(c) \in Numbers
    BY DEF Shapes, RelayShapes, Id, Circuits
  <2> QED BY <1>1, <2>1 DEF Registries, Mine, HasNext, Handler
<1>4. /\ task'[c][i] = "open"
      /\ \A j \in Relays : j # i => task'[c][j] = task[c][j]
      /\ \A j \in Relays : j < Hops => j + 1 \in Relays
  BY <1>1, HopsFacts DEF LockInv
<1>5. ASSUME NEW j \in Relays
      PROVE  /\ Added(c, j) => Added(c, j)'
             /\ Linked(c, j) => Linked(c, j)'
  BY <1>1, <1>2, <1>3, <1>4 DEF Added, Linked
<1>6. ClientKnows(c)'
  <2>1. client'[c] = "idle" => task'[c][1] = "none"
    BY <1>1, <1>4, HopsFacts DEF CircuitInv, ClientKnows
  <2> QED BY <1>1, <1>5, <2>1 DEF CircuitInv, ClientKnows
<1>7. ASSUME NEW j \in Relays PROVE NotYet(c, j)'
  <2> SUFFICES ASSUME task'[c][j] = "none" PROVE NotYet(c, j)'
    BY DEF NotYet
  <2>1. j # i /\ task[c][j] = "none" /\ NotYet(c, j)
    BY <1>4 DEF CircuitInv
  <2>2. j < Hops => task'[c][j + 1] = "none"
    BY <1>1, <1>4, <2>1 DEF NotYet
  <2> QED BY <1>1, <1>3, <2>1, <2>2 DEF NotYet
<1>8. ASSUME NEW j \in Relays PROVE Fresh(c, j)'
  <2>1. CASE j = i
    BY <1>1, <1>2, <1>3, <1>4, <2>1 DEF Fresh
  <2>2. CASE j # i
    <3>1. j < Hops => (task[c][j + 1] = "none" => task'[c][j + 1] = "none")
      BY <1>1, <1>4
    <3> QED BY <1>1, <1>3, <1>4, <2>2, <3>1 DEF CircuitInv, Fresh
  <2> QED BY <2>1, <2>2
<1>9. ASSUME NEW j \in Relays PROVE NextKept(c, j)'
  <2>1. CASE j = i
    <3>1. i < Hops => task'[c][i + 1] = "none"
      <4>1. i < Hops => i + 1 # i
        BY HopsFacts
      <4> QED BY <1>2, <1>4, <4>1
    <3> QED BY <1>3, <2>1, <3>1 DEF NextKept
  <2>2. CASE j # i
    <3>1. j < Hops => (task'[c][j + 1] # "none" => task[c][j + 1] # "none")
      BY <1>1, <1>4
    <3> QED BY <1>1, <1>3, <1>4, <1>5, <2>2, <3>1 DEF CircuitInv, NextKept
  <2> QED BY <2>1, <2>2
<1>10. ASSUME NEW j \in Relays PROVE Extends(c, j)'
  BY <1>1, <1>2, <1>3 DEF CircuitInv, Extends
<1>11. ASSUME NEW j \in Relays PROVE Answers(c, j)'
  <2>1. ASSUME NEW m \in Cells(up'[c][j]) PROVE Stands(c, j, m)'
    <3>1. Stands(c, j, m)
      BY <1>1, <2>1 DEF CircuitInv, Answers
    <3> QED BY <1>5, <3>1, StandsKeeps
  <2> QED BY <2>1 DEF Answers
<1> QED BY <1>6, <1>7, <1>8, <1>9, <1>10, <1>11 DEF CircuitInv

\* Of a relay that died nothing is said.
LEMMA DeathKeeps ==
  ASSUME Shapes, LockInv, NEW c \in Circuits, CircuitInv(c), NEW r \in Relays,
         Die(r)
  PROVE  CircuitInv(c)'
<1>1. /\ alive' = alive \ {r} /\ UNCHANGED <<client, keys>>
      /\ extending' = [extending EXCEPT ![r] = None]
      /\ c \in serving' => c \in serving
  BY DEF Die, clientVars
<1>2. /\ registry' = [registry EXCEPT ![r] = [n \in Numbers |-> NoHandler]]
      /\ Id(c) \in Numbers /\ registry \in Registries
  BY DEF Die, Id, Circuits, Shapes, RelayShapes
<1>3. /\ ~Mine(c, r)'
      /\ \A j \in Relays : j # r =>
           Mine(c, j)' = Mine(c, j) /\ HasNext(c, j)' = HasNext(c, j)
  BY <1>2, NoneAssumption DEF Registries, Mine, HasNext, NoHandler, Handler
<1>4. /\ \A j \in Relays : j # r => task'[c][j] = task[c][j]
      /\ task'[c][r] = IF task[c][r] = "none" THEN "none" ELSE "ended"
  BY DEF Die, LockInv
<1>5. \A j \in Relays : reader[c][j] = "none" => reader'[c][j] = "none"
  BY DEF Die, Shapes, RelayShapes
<1>6. ASSUME NEW j \in Relays
      PROVE  /\ down'[c][j] = down[c][j] \/ down'[c][j] = <<>>
             /\ j # r => down'[c][j] = down[c][j]
             /\ up'[c][j] = up[c][j] \/ up'[c][j] = <<>>
  <2>1. down \in Wires /\ up \in Wires
    BY DEF Shapes, WireShapes
  <2> QED BY <2>1 DEF Die, Wires
<1>7. Cells(<<>>) = {}
  BY DEF Cells
<1>8. ASSUME NEW j \in Relays
      PROVE  /\ Cells(down'[c][j]) \subseteq Cells(down[c][j])
             /\ Cells(up'[c][j]) \subseteq Cells(up[c][j])
  BY <1>6, <1>7
<1>9. ASSUME NEW j \in Relays
      PROVE  /\ Added(c, j) => Added(c, j)'
             /\ Linked(c, j) => Linked(c, j)'
  BY <1>1, <1>3, <1>4 DEF Added, Linked
<1>10. \A j \in Relays : j < Hops => j + 1 \in Relays
  BY HopsFacts
<1>11. ClientKnows(c)'
  <2>1. client'[c] = "idle" => task'[c][1] = "none"
    BY <1>1, <1>4, HopsFacts DEF CircuitInv, ClientKnows
  <2> QED BY <1>1, <1>9, <2>1 DEF CircuitInv, ClientKnows
<1>12. ASSUME NEW j \in Relays PROVE NotYet(c, j)'
  <2> SUFFICES ASSUME task'[c][j] = "none" PROVE NotYet(c, j)'
    BY DEF NotYet
  <2>1. task[c][j] = "none" /\ NotYet(c, j)
    BY <1>4 DEF CircuitInv
  <2>2. j < Hops => task'[c][j + 1] = "none"
    BY <1>4, <1>10, <2>1 DEF NotYet
  <2>3. ~Mine(c, j)' /\ up'[c][j] = <<>>
    BY <1>3, <1>6, <2>1 DEF NotYet
  <2> QED BY <1>1, <1>5, <2>1, <2>2, <2>3 DEF NotYet
<1>13. ASSUME NEW j \in Relays PROVE Fresh(c, j)'
  <2> SUFFICES ASSUME j \in alive, j # r PROVE Fresh(c, j)'
    BY <1>1 DEF Fresh
  <2>1. j < Hops => (task[c][j + 1] = "none" => task'[c][j + 1] = "none")
    BY <1>4, <1>10
  <2> QED BY <1>1, <1>3, <1>4, <1>6, <2>1 DEF CircuitInv, Fresh
<1>14. ASSUME NEW j \in Relays PROVE NextKept(c, j)'
  <2> SUFFICES ASSUME j \in alive, j # r, j < Hops, Mine(c, j)
               PROVE  /\ task'[c][j] = "open" /\ task'[c][j + 1] # "none" =>
                           HasNext(c, j)' \/ extending'[j] = c
                      /\ HasNext(c, j)' => Added(c, j + 1)'
    BY <1>1, <1>3 DEF NextKept
  <2>1. j + 1 \in Relays /\ NextKept(c, j) /\ extending'[j] = extending[j]
    BY <1>1, <1>10 DEF CircuitInv, LockInv
  <2>2. task'[c][j + 1] # "none" => task[c][j + 1] # "none"
    BY <1>4, <2>1
  <2> QED BY <1>3, <1>4, <1>9, <2>1, <2>2 DEF NextKept
<1>15. ASSUME NEW j \in Relays PROVE Extends(c, j)'
  <2> SUFFICES ASSUME extending'[j] = c PROVE Extends(c, j)'
    BY DEF Extends
  <2>1. j # r /\ extending[j] = c /\ Extends(c, j)
    BY <1>1, NoneAssumption DEF CircuitInv, LockInv
  <2>2. j + 1 \in Relays
    BY <1>10, <2>1, NoneAssumption DEF Shapes, RelayShapes
  <2>3. extending'[j + 1] # c
    BY <1>1, <2>1, <2>2, NoneAssumption DEF Extends, LockInv
  <2> QED BY <1>1, <1>3, <1>5, <1>8, <2>1, <2>2, <2>3 DEF Extends
<1>16. ASSUME NEW j \in Relays PROVE Answers(c, j)'
  <2>1. ASSUME NEW m \in Cells(up'[c][j]) PROVE Stands(c, j, m)'
    <3>1. Stands(c, j, m)
      BY <1>8, <2>1 DEF CircuitInv, Answers
    <3> QED BY <1>9, <3>1, StandsKeeps
  <2> QED BY <2>1 DEF Answers
<1> QED BY <1>11, <1>12, <1>13, <1>14, <1>15, <1>16 DEF CircuitInv
-----------------------------------------------------------------------------
LEMMA OwnKeeps == ASSUME Shapes, Own, [Next]_vars PROVE Own'
<1>1. registry \in Registries
  BY DEF Shapes, RelayShapes
<1>2. CASE UNCHANGED registry
  BY <1>2 DEF Own
<1>3. ASSUME NEW c \in Circuits, NEW i \in Relays,
             SlotsSeen(registry, registry', i, Id(c))
      PROVE  Own'
  BY <1>3 DEF Own, SlotsSeen
<1>4. ASSUME NEW c \in Circuits, NEW i \in Relays,
             registry' = [registry EXCEPT ![i][Id(c)] = Handler(c)]
      PROVE  Own'
  BY <1>1, <1>4 DEF Own, Handler, Registries
<1>5. ASSUME NEW r \in Relays, Die(r) PROVE Own'
  BY <1>1, <1>5 DEF Own, Die, NoHandler, Handler, Registries
<1>6. ASSUME NEW c \in Circuits, NEW i \in Relays, TaskStep(c, i)
      PROVE  Own'
  <2>1. Id(c) \in Numbers
    BY DEF Id, Circuits
  <2>2. \/ UNCHANGED registry
        \/ registry' = [registry EXCEPT ![i][Id(c)] = Handler(c)]
        \/ registry' = Peeled(i, c)
        \/ registry' = [registry EXCEPT ![i][Id(c)].next = TRUE,
                                        ![i][Id(c)].bwd = @ + 1]
    BY <1>6 DEF TaskStep, HandleCreate, AddCircuit, HandleExtend, ExtendDone,
      ExtendFails, HandleRelay, HandleAtExit, ConnEof, TagReply, WriteReply,
      relayVars
  <2>3. CASE registry' = Peeled(i, c)
    BY <1>1, <1>3, <2>1, <2>3, SlotSeen DEF Peeled
  <2>4. CASE registry' = [registry EXCEPT ![i][Id(c)].next = TRUE,
                                          ![i][Id(c)].bwd = @ + 1]
    BY <1>1, <1>3, <2>1, <2>4, NextSeen
  <2> QED BY <1>2, <1>4, <2>2, <2>3, <2>4
<1>7. ASSUME NEW c \in Circuits, NEW i \in Relays,
             ReaderStep(c, i) \/ LoseTail(c, i)
      PROVE  Own'
  <2>1. Id(c) \in Numbers
    BY DEF Id, Circuits
  <2>2. \/ UNCHANGED registry
        \/ registry' = [registry EXCEPT ![i][Id(c)].bwd = @ + 1]
    BY <1>7 DEF ReaderStep, Backward, EntryDestroy, ReaderEof, ReaderEnds,
      LoseTail, relayVars
  <2>3. CASE registry' = [registry EXCEPT ![i][Id(c)].bwd = @ + 1]
    BY <1>1, <1>3, <2>1, <2>3, SlotSeen
  <2> QED BY <1>2, <2>2, <2>3
<1>8. ASSUME NEW c \in Circuits,
             \/ Connect(c) \/ ConnectFails(c) \/ ClientStep(c) \/ SendData(c)
             \/ Release(c) \/ ExitSend(c) \/ StreamsEnd(c)
      PROVE  UNCHANGED registry
  BY <1>8 DEF Connect, ConnectFails, ClientStep, HandshakeAnswer, BuildFails,
    ReadCell, ReadEof, SendData, Release, ExitSend, StreamsEnd, relayVars
<1>9. CASE UNCHANGED vars
  BY <1>2, <1>9 DEF vars, relayVars
<1> QED BY <1>2, <1>5, <1>6, <1>7, <1>8, <1>9 DEF Next

LEMMA CircuitStep ==
  ASSUME RelayInv, Own, RelayInv', NEW c \in Circuits, Alone(c),
         CircuitInv(c), ReplyKnown(c), [Next]_vars
  PROVE  CircuitInv(c)'
<1>1. Shapes /\ LockInv /\ ReplyInv /\ Shapes'
  BY DEF RelayInv
<1>2. ASSUME NEW d \in Circuits, d # c,
             \/ Connect(d) \/ ConnectFails(d) \/ ClientStep(d) \/ SendData(d)
             \/ Release(d) \/ ExitSend(d) \/ StreamsEnd(d)
             \/ \E i \in Relays :
                  TaskStep(d, i) \/ ReaderStep(d, i) \/ LoseTail(d, i)
      PROVE  CircuitInv(c)'
  <2>1. Untouched(c)
    BY <1>1, <1>2, OthersClient, OthersTask, OthersReader
  <2> QED BY <1>1, <2>1, UntouchedQuiet, QuietKeeps
<1>3. ASSUME Connect(c) PROVE CircuitInv(c)'
  BY <1>1, <1>3, ConnectKeeps
<1>4. ASSUME ConnectFails(c) \/ ClientStep(c) \/ SendData(c) \/ Release(c)
      PROVE  CircuitInv(c)'
  BY <1>1, <1>4, ClientIsQuiet, QuietKeeps
<1>5. ASSUME ExitSend(c) \/ StreamsEnd(c) PROVE CircuitInv(c)'
  BY <1>1, <1>5, StreamIsQuiet, QuietKeeps
<1>6. ASSUME NEW i \in Relays, TaskStep(c, i) PROVE CircuitInv(c)'
  <2>1. CASE HandleCreate(c, i)
    BY <1>1, <2>1, CreateKeeps
  <2>2. CASE AddCircuit(c, i)
    BY <1>1, <2>2, AddKeeps
  <2>3. CASE HandleExtend(c, i) /\ ~ UNCHANGED extending
    BY <1>1, <2>3, ExtendKeeps
  <2>4. CASE ExtendDone(c, i)
    BY <1>1, <2>4, ExtendDoneIsQuiet, QuietKeeps
  <2>5. CASE \/ HandleExtend(c, i) /\ UNCHANGED extending
             \/ ExtendFails(c, i) \/ HandleRelay(c, i)
             \/ (i = Hops /\ HandleAtExit(c)) \/ ConnEof(c, i)
    BY <1>1, <2>5, TaskIsQuiet, QuietKeeps
  <2>6. CASE TagReply(c) \/ WriteReply(c)
    BY <1>1, <2>6, ReplyIsQuiet, QuietKeeps
  <2> QED BY <1>6, <2>1, <2>2, <2>3, <2>4, <2>5, <2>6 DEF TaskStep
<1>7. ASSUME NEW i \in Relays, ReaderStep(c, i) PROVE CircuitInv(c)'
  BY <1>1, <1>7, ReaderIsQuiet, QuietKeeps
<1>8. ASSUME NEW i \in Relays, LoseTail(c, i) PROVE CircuitInv(c)'
  BY <1>1, <1>8, LossIsQuiet, QuietKeeps
<1>9. ASSUME NEW r \in Relays, Die(r) PROVE CircuitInv(c)'
  BY <1>1, <1>9, DeathKeeps
<1>10. CASE UNCHANGED vars
  <2>1. Quiet(c)
    BY <1>1, <1>10, SameQuiet DEF Quiet, vars, clientVars, exitVars
  <2> QED BY <1>1, <2>1, QuietKeeps
<1>11. ASSUME NEW d \in Circuits,
              \/ Connect(d) \/ ConnectFails(d) \/ ClientStep(d) \/ SendData(d)
              \/ Release(d) \/ ExitSend(d) \/ StreamsEnd(d)
              \/ \E i \in Relays :
                   TaskStep(d, i) \/ ReaderStep(d, i) \/ LoseTail(d, i)
       PROVE  CircuitInv(c)'
  BY <1>2, <1>3, <1>4, <1>5, <1>6, <1>7, <1>8, <1>11
<1> QED BY <1>9, <1>10, <1>11 DEF Next

LEMMA EstInvariant == Spec => []EstInv
<1>1. Init => EstInv
  <2> SUFFICES ASSUME Init PROVE EstInv
    OBVIOUS
  <2>1. Own
    BY DEF Init, Own, NoHandler, Handler
  <2>2. ASSUME NEW c \in Circuits PROVE CircuitInv(c) /\ ReplyKnown(c)
    <3>1. Id(c) \in Numbers
      BY DEF Id, Circuits
    <3>2. /\ client[c] = "idle" /\ keys[c] = 0 /\ serving = {}
          /\ \A i \in Relays :
               /\ task[c][i] = "none" /\ reader[c][i] = "none" /\ i >= 1
               /\ up[c][i] = <<>> /\ down[c][i] = <<>> /\ extending[i] # c
               /\ ~Mine(c, i)
               /\ i < Hops => i + 1 \in Relays
      BY <3>1, NoneAssumption, HopsFacts
        DEF Init, Mine, NoHandler, Handler, Relays
    <3>3. Cells(<<>>) = {}
      BY DEF Cells
    <3>4. ClientKnows(c)
      <4>1. \A i \in Relays : ~(0 >= i) /\ ~(0 > i)
        BY DEF Relays
      <4> QED BY <3>2, <4>1, HopsFacts DEF ClientKnows
    <3>5. ASSUME NEW i \in Relays
          PROVE  /\ NotYet(c, i) /\ Fresh(c, i) /\ NextKept(c, i)
                 /\ Extends(c, i) /\ Answers(c, i)
      BY <3>2, <3>3 DEF NotYet, Fresh, NextKept, Extends, Answers
    <3>6. ReplyKnown(c)
      BY NoneAssumption DEF Init, ReplyKnown
    <3> QED BY <3>4, <3>5, <3>6 DEF CircuitInv
  <2> QED BY <2>1, <2>2 DEF EstInv
<1>2. RelayInv /\ RelayInv' /\ EstInv /\ [Next]_vars => EstInv'
  <2> SUFFICES ASSUME RelayInv, RelayInv', EstInv, [Next]_vars PROVE EstInv'
    OBVIOUS
  <2>1. Own'
    BY OwnKeeps DEF RelayInv, EstInv
  <2>2. ASSUME NEW c \in Circuits, Alone(c)
        PROVE  CircuitInv(c)' /\ ReplyKnown(c)'
    BY <2>2, CircuitStep, ReplyKnownKeeps DEF EstInv, RelayInv
  <2> QED BY <2>1, <2>2 DEF EstInv, Alone
<1> QED BY <1>1, <1>2, RelayInvariant, PTL DEF Spec

\* Every hop of a ready circuit that still runs has the circuit's keys under
\* its number and knows the next one, in whatever order answers, timeouts,
\* crashes and the steps of other circuits come, as long as no other circuit
\* through these relays has the number.
THEOREM ReadyIsEstablished == Spec => []EstablishedWhenReady
<1>1. RelayInv /\ EstInv => EstablishedWhenReady
  <2> SUFFICES ASSUME RelayInv, EstInv, NEW c \in Circuits, Alone(c),
                      client[c] = "ready", NEW i \in alive
               PROVE  LET h == registry[i][Id(c)]
                      IN \/ h.key = c /\ (i < Hops => h.next)
                         \/ i = Hops /\ task[c][i] = "adding"
    BY DEF EstablishedWhenReady, Established
  <2>1. i \in Relays /\ ClientKnows(c)
    BY DEF RelayInv, LockInv, EstInv, CircuitInv
  <2>2. i <= Hops /\ (i < Hops \/ i = Hops)
    BY <2>1, HopsFacts DEF Relays
  <2>3. Added(c, i) /\ (i < Hops => Linked(c, i))
    BY <2>1, <2>2, HopsFacts DEF ClientKnows
  <2> QED BY <2>2, <2>3 DEF Added, Linked, Mine, HasNext
<1> QED BY <1>1, RelayInvariant, EstInvariant, PTL
=============================================================================
