----------------------- MODULE RelayPathProofs -----------------------------
(***************************************************************************)
(* What a path through relays does for its circuit, for any clients,       *)
(* numbers and hops, when no other circuit has the number: what it carries *)
(* comes out in order whatever fails (ImplementsPath), and while nothing   *)
(* fails it never breaks, unless a stream task of the exit overtakes an    *)
(* END between its tag and its write (NeverBreaksByItself).                *)
(***************************************************************************)
EXTENDS RelayCircuitsProofs
-----------------------------------------------------------------------------
(* What a circuit carries comes out in order: ImplementsPath.  The layers  *)
(* of hops before the exit come and go on the way; the one of the exit is  *)
(* on a DATA cell from end to end, and its block is numbered as the cell   *)
(* is.  So the digest check on either end lets only the next cell through. *)

HopBlocks(m) == {b \in m.layers : b[2] = Hops}

Goes(c, m) ==
  m.cmd = "DATA" =>
    /\ HopBlocks(m) = {Block(c, Hops, "f", m.n - 1)}
    /\ m.n >= 1 /\ m.n <= sent[c]

Comes(c, m) ==
  /\ m.cmd = "DATA" => /\ HopBlocks(m) = {Block(c, Hops, "b", m.n - 1)}
                       /\ m.n >= 1 /\ m.n <= exitSent[c]
  /\ m.cmd # "DATA" => HopBlocks(m) = {}

WiresFine(c) ==
  \A i \in Relays : /\ \A m \in Cells(down[c][i]) : Goes(c, m)
                    /\ \A m \in Cells(up[c][i]) : Comes(c, m)

\* The ciphers of client and exit have seen what these have sent and got.
ClientCount(c) ==
  /\ cfwd[c][Hops] = sent[c]
  /\ client[c] \in {"idle", "building", "ready"} =>
       cbwd[c][Hops] = Len(got[c])

ExitCount(c) ==
  Hops \in alive =>
    /\ ~Mine(c, Hops) => exitGot[c] = <<>>
    /\ Mine(c, Hops) /\ task[c][Hops] = "open" =>
         registry[Hops][Id(c)].fwd = Len(exitGot[c])

CarriesInv(c) == WiresFine(c) /\ ClientCount(c) /\ ExitCount(c)

\* Every cell on a wire was there before or is fine.
GoesOn(c) ==
  \A i \in Relays : \A m \in Cells(down'[c][i]) :
    m \in Cells(down[c][i]) \/ Goes(c, m) \/ Goes(c, m)'
ComesOn(c) ==
  \A i \in Relays : \A m \in Cells(up'[c][i]) :
    m \in Cells(up[c][i]) \/ Comes(c, m) \/ Comes(c, m)'

LEMMA WiresKeep ==
  ASSUME Shapes, Shapes', NEW c \in Circuits, WiresFine(c),
         GoesOn(c), ComesOn(c),
         sent'[c] >= sent[c], exitSent'[c] >= exitSent[c]
  PROVE  WiresFine(c)'
<1>1. /\ sent[c] \in Nat /\ sent'[c] \in Nat
      /\ exitSent[c] \in Nat /\ exitSent'[c] \in Nat
  BY DEF Shapes, ClientShapes, ExitShapes
<1>2. ASSUME NEW m \in CellType
      PROVE  (Goes(c, m) => Goes(c, m)') /\ (Comes(c, m) => Comes(c, m)')
  <2>1. m.n \in Nat
    BY CellFields
  <2>2. Goes(c, m) => Goes(c, m)'
    BY <1>1, <2>1 DEF Goes
  <2>3. Comes(c, m) => Comes(c, m)'
    BY <1>1, <2>1 DEF Comes
  <2> QED BY <2>2, <2>3
<1>3. ASSUME NEW i \in Relays
      PROVE  /\ \A m \in Cells(down'[c][i]) : m \in CellType
             /\ \A m \in Cells(up'[c][i]) : m \in CellType
  <2>1. down'[c][i] \in Seq(CellType) /\ up'[c][i] \in Seq(CellType)
    BY DEF Shapes, WireShapes, Wires
  <2> QED BY <2>1 DEF Cells
<1>4. ASSUME NEW i \in Relays, NEW m \in Cells(down'[c][i])
      PROVE  Goes(c, m)'
  BY <1>2, <1>3, <1>4 DEF GoesOn, WiresFine
<1>5. ASSUME NEW i \in Relays, NEW m \in Cells(up'[c][i])
      PROVE  Comes(c, m)'
  BY <1>2, <1>3, <1>5 DEF ComesOn, WiresFine
<1> QED BY <1>4, <1>5 DEF WiresFine

\* Wires left alone, cells taken from them, and cells written to them.
LEMMA SameOn ==
  ASSUME NEW c \in Circuits
  PROVE  /\ (\A i \in Relays : down'[c][i] = down[c][i]) => GoesOn(c)
         /\ (\A i \in Relays : up'[c][i] = up[c][i]) => ComesOn(c)
BY DEF GoesOn, ComesOn

LEMMA TakenOn ==
  ASSUME Shapes, NEW c \in Circuits, NEW i \in Relays
  PROVE  /\ down[c][i] # <<>> =>
              /\ TakeDown(c, i) \in Wires
              /\ Head(down[c][i]) \in CellType
              /\ Head(down[c][i]) \in Cells(down[c][i])
              /\ \A j \in Relays :
                   Cells(TakeDown(c, i)[c][j]) \subseteq Cells(down[c][j])
         /\ up[c][i] # <<>> =>
              /\ TakeUp(c, i) \in Wires
              /\ Head(up[c][i]) \in CellType
              /\ Head(up[c][i]) \in Cells(up[c][i])
              /\ \A j \in Relays :
                   Cells(TakeUp(c, i)[c][j]) \subseteq Cells(up[c][j])
<1>1. down \in Wires /\ up \in Wires
  BY DEF Shapes, WireShapes
<1>2. ASSUME NEW ch \in Wires, ch[c][i] # <<>>
      PROVE  /\ [ch EXCEPT ![c][i] = Tail(@)] \in Wires
             /\ Head(ch[c][i]) \in CellType
             /\ Head(ch[c][i]) \in Cells(ch[c][i])
             /\ \A j \in Relays :
                  Cells([ch EXCEPT ![c][i] = Tail(@)][c][j])
                    \subseteq Cells(ch[c][j])
  BY <1>2, TakeMoves, HeadTyped
<1> QED BY <1>1, <1>2 DEF TakeDown, TakeUp

LEMMA PutOn ==
  ASSUME NEW c \in Circuits, NEW ch \in Wires, NEW cell \in CellType, NEW i
  PROVE  /\ /\ \A j \in Relays : Cells(ch[c][j]) \subseteq Cells(down[c][j])
            /\ Goes(c, cell) \/ Goes(c, cell)'
            /\ down' = PutDown(ch, c, i, cell)
            => GoesOn(c)
         /\ /\ \A j \in Relays : Cells(ch[c][j]) \subseteq Cells(up[c][j])
            /\ Comes(c, cell) \/ Comes(c, cell)'
            /\ up' = PutUp(ch, c, i, cell)
            => ComesOn(c)
<1>1. ASSUME NEW j \in Relays
      PROVE  /\ Cells(PutDown(ch, c, i, cell)[c][j])
                  \subseteq Cells(ch[c][j]) \union {cell}
             /\ Cells(PutUp(ch, c, i, cell)[c][j])
                  \subseteq Cells(ch[c][j]) \union {cell}
  BY PutMoves
<1> QED BY <1>1 DEF GoesOn, ComesOn

\* The exit's blocks are not touched by the ciphers of other hops.
LEMMA OtherHop ==
  ASSUME NEW layers \in Layers, NEW d, NEW i \in Relays, i < Hops, NEW dir,
         NEW n
  PROVE  {b \in Apply(layers, Block(d, i, dir, n)) : b[2] = Hops}
           = {b \in layers : b[2] = Hops}
<1>1. Block(d, i, dir, n)[2] # Hops
  BY HopsFacts DEF Block
<1> QED BY <1>1 DEF Apply

LEMMA LastHop ==
  ASSUME NEW c
  PROVE  /\ {b \in ForwardLayers(c, Hops) : b[2] = Hops}
              = {Block(c, Hops, "f", cfwd[c][Hops])}
         /\ {b \in BackwardLayers(c, Hops) : b[2] = Hops}
              = {Block(c, Hops, "b", cbwd[c][Hops])}
<1>1. Hops \in 1 .. Hops
  BY HopsAssumption
<1>2. \A j, dir, n : Block(c, j, dir, n)[2] = j
  BY DEF Block
<1> QED BY <1>1, <1>2 DEF ForwardLayers, BackwardLayers

LEMMA AdvanceAt ==
  ASSUME NEW f \in Counts, NEW d \in Circuits, NEW k \in Nat,
         NEW c \in Circuits
  PROVE  /\ Advance(f, c, k)[c][Hops]
              = IF Hops <= k THEN f[c][Hops] + 1 ELSE f[c][Hops]
         /\ d # c => Advance(f, d, k)[c] = f[c]
BY HopsFacts DEF Advance, Counts

\* What the client takes for plain is the next cell of the exit.
LEMMA ReadsNext ==
  ASSUME Shapes, NEW c \in Circuits, CarriesInv(c), client[c] = "ready",
         up[c][1] # <<>>, Unwrap(Head(up[c][1]), c, Hops) = {}
  PROVE  /\ Head(up[c][1]).n = Len(got[c]) + 1
         /\ Len(got[c]) < exitSent[c]
<1> DEFINE m == Head(up[c][1])
<1>1. m \in CellType /\ Comes(c, m)
  BY TakenOn, HopsFacts DEF CarriesInv, WiresFine
<1>2. m.n \in Nat /\ exitSent[c] \in Nat /\ Len(got[c]) \in Nat
  BY <1>1, CellFields DEF Shapes, ClientShapes, ExitShapes
<1>3. m.layers = BackwardLayers(c, Hops)
  BY DEF Unwrap
<1>4. HopBlocks(m) = {Block(c, Hops, "b", cbwd[c][Hops])}
  BY <1>3, LastHop DEF HopBlocks
<1>5. cbwd[c][Hops] = Len(got[c])
  BY DEF CarriesInv, ClientCount
<1> HIDE DEF m
<1>6. /\ Block(c, Hops, "b", cbwd[c][Hops]) = Block(c, Hops, "b", m.n - 1)
      /\ m.n <= exitSent[c]
  BY <1>1, <1>4 DEF Comes
<1>7. cbwd[c][Hops] = m.n - 1
  BY <1>6 DEF Block
<1>8. m.n = Len(got[c]) + 1 /\ Len(got[c]) < exitSent[c]
  BY <1>2, <1>5, <1>6, <1>7
<1> QED BY <1>8 DEF m

\* What the exit takes for plain is the next cell of the client.
LEMMA ExitReadsNext ==
  ASSUME Shapes, LockInv, NEW c \in Circuits, CircuitInv(c), CarriesInv(c),
         Has(c, Hops, "DATA"),
         Peel(registry[Hops][Id(c)], Hops, Head(down[c][Hops])) = {}
  PROVE  /\ Head(down[c][Hops]).n = Len(exitGot[c]) + 1
         /\ Len(exitGot[c]) < sent[c]
<1> DEFINE m == Head(down[c][Hops])
           h == registry[Hops][Id(c)]
<1>1. /\ Hops \in alive /\ Mine(c, Hops) /\ down[c][Hops] # <<>>
      /\ task[c][Hops] = "open" /\ m.cmd = "DATA"
  BY ReadsMine, HopsFacts DEF Has
<1>2. m \in CellType /\ Goes(c, m)
  BY <1>1, TakenOn, HopsFacts DEF CarriesInv, WiresFine
<1>3. m.n \in Nat /\ sent[c] \in Nat /\ Len(exitGot[c]) \in Nat
  BY <1>2, CellFields DEF Shapes, ClientShapes, ExitShapes
<1>4. h.fwd = Len(exitGot[c]) /\ h.key = c
  BY <1>1 DEF CarriesInv, ExitCount, Mine
<1> HIDE DEF h, m
<1>5. m.layers = {Block(h.key, Hops, "f", h.fwd)}
  BY DEF Peel, Apply, m, h
<1>6. m.layers = {Block(c, Hops, "f", Len(exitGot[c]))}
  BY <1>4, <1>5
<1>7. HopBlocks(m) = {Block(c, Hops, "f", Len(exitGot[c]))}
  <2>1. Block(c, Hops, "f", Len(exitGot[c]))[2] = Hops
    BY DEF Block
  <2> QED BY <1>6, <2>1 DEF HopBlocks
<1>8. /\ Block(c, Hops, "f", Len(exitGot[c])) = Block(c, Hops, "f", m.n - 1)
      /\ m.n <= sent[c]
  BY <1>1, <1>2, <1>7 DEF Goes, m
<1>9. Len(exitGot[c]) = m.n - 1
  BY <1>8 DEF Block
<1>10. m.n = Len(exitGot[c]) + 1 /\ Len(exitGot[c]) < sent[c]
  BY <1>3, <1>8, <1>9
<1> QED BY <1>10 DEF m

LEMMA ClientCarries ==
  ASSUME Shapes, LockInv, Shapes', NEW c \in Circuits, CircuitInv(c),
         CarriesInv(c),
         \/ Connect(c) \/ ConnectFails(c) \/ ClientStep(c) \/ SendData(c)
         \/ Release(c)
  PROVE  CarriesInv(c)'
<1>1. ExitCount(c)'
  <2>1. /\ UNCHANGED <<alive, registry, exitGot>>
        /\ UNCHANGED task \/ task' = [task EXCEPT ![c][1] = "open"]
    BY DEF Connect, ConnectFails, ClientStep, HandshakeAnswer, BuildFails,
      ReadCell, ReadEof, SendData, Release, relayVars, exitVars
  <2>2. task'[c][Hops] = task[c][Hops]
    BY <2>1, HopsFacts DEF LockInv
  <2> QED BY <2>1, <2>2 DEF CarriesInv, ExitCount, Mine
<1>2. /\ sent[c] \in Nat /\ exitSent[c] \in Nat /\ UNCHANGED exitSent
      /\ cfwd \in Counts /\ cbwd \in Counts
      /\ down \in Wires /\ up \in Wires
  BY DEF Connect, ConnectFails, ClientStep, HandshakeAnswer, BuildFails,
    ReadCell, ReadEof, SendData, Release, exitVars, Shapes, ClientShapes,
    ExitShapes, WireShapes
<1>3. CASE ConnectFails(c) \/ BuildFails(c) \/ ReadEof(c) \/ Release(c)
  <2>1. /\ UNCHANGED <<cfwd, cbwd, sent, got, down, up>>
        /\ \E v \in {"failed", "closed", "gone"} :
             client' = [client EXCEPT ![c] = v]
    BY <1>3 DEF ConnectFails, BuildFails, ReadEof, Release
  <2>2. ClientCount(c)'
    BY <2>1 DEF CarriesInv, ClientCount, Shapes, ClientShapes
  <2>3. WiresFine(c)'
    BY <2>1, <1>2, SameOn, WiresKeep DEF CarriesInv
  <2> QED BY <1>1, <2>2, <2>3 DEF CarriesInv
<1>4. CASE Connect(c)
  <2> DEFINE create == Cell("CREATE", 1, {})
  <2>1. /\ UNCHANGED <<cfwd, cbwd, sent, got, up>>
        /\ client[c] = "idle" /\ client' = [client EXCEPT ![c] = "building"]
        /\ down' = [down EXCEPT ![c][1] = <<create>>]
    BY <1>4 DEF Connect
  <2>2. ClientCount(c)'
    BY <2>1 DEF CarriesInv, ClientCount, Shapes, ClientShapes
  <2>3. GoesOn(c)
    <3>1. Goes(c, create)
      BY DEF Goes, Cell
    <3>2. ASSUME NEW i \in Relays, NEW m \in Cells(down'[c][i])
          PROVE  m \in Cells(down[c][i]) \/ m = create
      <4>1. down'[c][i] = IF i = 1 THEN <<create>> ELSE down[c][i]
        BY <2>1, <1>2 DEF Wires
      <4> QED BY <3>2, <4>1, OneCell
    <3> QED BY <3>1, <3>2 DEF GoesOn
  <2>4. WiresFine(c)'
    BY <2>1, <2>3, <1>2, SameOn, WiresKeep DEF CarriesInv
  <2> QED BY <1>1, <2>2, <2>4 DEF CarriesInv
<1>5. CASE SendData(c)
  <2>0. PICK cell : cell = Cell("DATA", sent[c] + 1, ForwardLayers(c, Hops))
    OBVIOUS
  <2>1. /\ UNCHANGED <<client, cbwd, got, up>>
        /\ sent' = [sent EXCEPT ![c] = @ + 1]
        /\ down' = PutDown(down, c, 1, cell)
        /\ cfwd' = Advance(cfwd, c, Hops)
    BY <1>5, <2>0 DEF SendData
  <2>2. sent'[c] = sent[c] + 1
    BY <2>1 DEF Shapes, ClientShapes
  <2>3. ClientCount(c)'
    <3>1. cfwd'[c][Hops] = cfwd[c][Hops] + 1
      BY <1>2, <2>1, AdvanceAt, HopsFacts
    <3> QED BY <2>1, <2>2, <3>1 DEF CarriesInv, ClientCount
  <2>4. cell \in CellType
    BY <1>2, <2>0, CellTyped, LayersTyped, HopsFacts DEF Shapes, ClientShapes
  <2>5. Goes(c, cell)'
    <3>1. cell.n = sent[c] + 1 /\ cell.layers = ForwardLayers(c, Hops)
      BY <2>0 DEF Cell
    <3>2. HopBlocks(cell) = {Block(c, Hops, "f", sent[c])}
      BY <3>1, LastHop DEF HopBlocks, CarriesInv, ClientCount
    <3>3. cell.n - 1 = sent[c] /\ cell.n >= 1 /\ cell.n <= sent[c] + 1
      BY <1>2, <3>1
    <3> QED BY <2>2, <3>2, <3>3 DEF Goes
  <2>6. GoesOn(c)
    <3>1. \A j \in Relays : Cells(down[c][j]) \subseteq Cells(down[c][j])
      OBVIOUS
    <3> QED BY <1>2, <2>1, <2>4, <2>5, <3>1, PutOn
  <2>7. WiresFine(c)'
    BY <1>2, <2>1, <2>2, <2>6, SameOn, WiresKeep DEF CarriesInv
  <2> QED BY <1>1, <2>3, <2>7 DEF CarriesInv
<1>6. CASE ReadCell(c)
  <2> DEFINE m == Head(up[c][1])
  <2>1. /\ UNCHANGED <<cfwd, sent, down>> /\ client[c] = "ready"
        /\ up[c][1] # <<>> /\ up' = TakeUp(c, 1)
        /\ \/ \E v \in {"closed", "mismatch"} :
                client' = [client EXCEPT ![c] = v]
           \/ /\ Unwrap(m, c, Hops) = {} /\ UNCHANGED client
              /\ cbwd' = Advance(cbwd, c, Hops)
              /\ got' = [got EXCEPT ![c] = Append(@, m.n)]
    BY <1>6 DEF ReadCell
  <2>2. ComesOn(c)
    BY <2>1, TakenOn, HopsFacts DEF ComesOn
  <2>3. WiresFine(c)'
    BY <1>2, <2>1, <2>2, SameOn, WiresKeep DEF CarriesInv
  <2>4. CASE \E v \in {"closed", "mismatch"} :
               client' = [client EXCEPT ![c] = v]
    BY <1>1, <2>1, <2>3, <2>4
      DEF CarriesInv, ClientCount, Shapes, ClientShapes
  <2>5. CASE /\ Unwrap(m, c, Hops) = {} /\ UNCHANGED client
             /\ cbwd' = Advance(cbwd, c, Hops)
             /\ got' = [got EXCEPT ![c] = Append(@, m.n)]
    <3>1. cbwd'[c][Hops] = cbwd[c][Hops] + 1
      BY <1>2, <2>5, AdvanceAt, HopsFacts
    <3>2. got'[c] = Append(got[c], m.n) /\ got[c] \in Seq(Nat)
      BY <2>5 DEF Shapes, ClientShapes
    <3>3. Len(got'[c]) = Len(got[c]) + 1
      <4> HIDE DEF m
      <4> QED BY <3>2
    <3>4. ClientCount(c)'
      BY <2>1, <2>5, <3>1, <3>3 DEF CarriesInv, ClientCount
    <3> QED BY <1>1, <2>3, <3>4 DEF CarriesInv
  <2> QED BY <2>1, <2>4, <2>5
<1>7. CASE HandshakeAnswer(c)
  <2> DEFINE k == keys[c]
             extend == Cell("EXTEND", k + 2, ForwardLayers(c, k + 1))
  <2>1. /\ UNCHANGED <<sent, got>> /\ up[c][1] # <<>> /\ up' = TakeUp(c, 1)
        /\ client[c] = "building"
        /\ UNCHANGED cbwd \/ cbwd' = Advance(cbwd, c, k)
        /\ \/ UNCHANGED <<cfwd, down>>
           \/ /\ down' = PutDown(down, c, 1, extend) /\ k + 1 # Hops
              /\ cfwd' = Advance(cfwd, c, k + 1)
    BY <1>7 DEF HandshakeAnswer
  <2>2. k \in Nat /\ k < Hops /\ (k + 1 # Hops => ~(Hops <= k + 1))
    BY <2>1, HopsFacts DEF Shapes, ClientShapes
  <2>3. ClientCount(c)'
    <3>1. cfwd'[c][Hops] = cfwd[c][Hops]
      <4>1. CASE UNCHANGED cfwd
        BY <4>1
      <4>2. CASE cfwd' = Advance(cfwd, c, k + 1) /\ k + 1 # Hops
        BY <1>2, <2>2, <4>2, AdvanceAt
      <4> QED BY <2>1, <4>1, <4>2
    <3>2. cbwd'[c][Hops] = cbwd[c][Hops]
      <4>1. CASE UNCHANGED cbwd
        BY <4>1
      <4>2. CASE cbwd' = Advance(cbwd, c, k)
        <5>1. ~(Hops <= k)
          BY <2>2, HopsFacts
        <5> QED BY <1>2, <2>2, <4>2, <5>1, AdvanceAt
      <4> QED BY <2>1, <4>1, <4>2
    <3> QED BY <2>1, <3>1, <3>2 DEF CarriesInv, ClientCount
  <2>4. GoesOn(c)
    <3>1. CASE UNCHANGED down
      BY <3>1, SameOn
    <3>2. CASE down' = PutDown(down, c, 1, extend)
      <4>1. Goes(c, extend)
        BY DEF Goes, Cell
      <4>2. extend \in CellType
        BY <2>2, CellTyped, LayersTyped, HopsFacts DEF Shapes
      <4> HIDE DEF extend
      <4> QED BY <1>2, <3>2, <4>1, <4>2, PutOn
    <3> QED BY <2>1, <3>1, <3>2
  <2>5. ComesOn(c)
    BY <2>1, TakenOn, HopsFacts DEF ComesOn
  <2>6. WiresFine(c)'
    BY <1>2, <2>1, <2>4, <2>5, WiresKeep DEF CarriesInv
  <2> QED BY <1>1, <2>3, <2>6 DEF CarriesInv
<1> QED BY <1>3, <1>4, <1>5, <1>6, <1>7 DEF ClientStep

LEMMA ExitKeeps ==
  ASSUME NEW c \in Circuits, ExitCount(c), exitGot'[c] = exitGot[c],
         alive' \subseteq alive,
         Hops \in alive' =>
           registry'[Hops][Id(c)] = registry[Hops][Id(c)],
         task'[c][Hops] = "open" /\ Mine(c, Hops) => task[c][Hops] = "open"
  PROVE  ExitCount(c)'
BY DEF ExitCount, Mine

\* A relay before the exit changes no slot of the exit's registry.
LEMMA ExitSlot ==
  ASSUME Shapes, NEW i \in Relays, NEW n \in Numbers, i # Hops,
         \/ UNCHANGED registry
         \/ registry' = [registry EXCEPT ![i][n].fwd = @ + 1]
         \/ registry' = [registry EXCEPT ![i][n].bwd = @ + 1]
         \/ registry' = [registry EXCEPT ![i][n].next = TRUE,
                                         ![i][n].bwd = @ + 1]
  PROVE  registry'[Hops][n] = registry[Hops][n]
<1>1. registry \in Registries
  BY DEF Shapes, RelayShapes
<1>2. ASSUME SlotsSeen(registry, registry', i, n)
      PROVE  registry'[Hops][n] = registry[Hops][n]
  BY <1>2, HopsFacts DEF SlotsSeen
<1>3. CASE registry' = [registry EXCEPT ![i][n].fwd = @ + 1]
  BY <1>1, <1>2, <1>3, SlotSeen
<1>4. CASE registry' = [registry EXCEPT ![i][n].bwd = @ + 1]
  BY <1>1, <1>2, <1>4, SlotSeen
<1>5. CASE registry' = [registry EXCEPT ![i][n].next = TRUE,
                                        ![i][n].bwd = @ + 1]
  BY <1>1, <1>2, <1>5, NextSeen
<1> QED BY <1>3, <1>4, <1>5

\* The number of an END that is not written yet is one the exit has given.
ReplyFits ==
  /\ replying = None => tag = 0
  /\ \A c \in Circuits : replying = c => tag <= exitSent[c]

LEMMA ReplyFitsStep ==
  ASSUME Shapes, ReplyInv, ReplyFits, [Next]_vars
  PROVE  ReplyFits'
<1>1. exitSent \in [Circuits -> Nat] /\ tag \in Nat
  BY DEF Shapes, ExitShapes, ReplyInv
<1>2. ASSUME UNCHANGED <<replying, tag>>,
             \/ UNCHANGED exitSent
             \/ \E c \in Circuits : exitSent' = [exitSent EXCEPT ![c] = @ + 1]
      PROVE  ReplyFits'
  BY <1>1, <1>2 DEF ReplyFits
<1>3. ASSUME NEW c \in Circuits,
             \/ Connect(c) \/ ConnectFails(c) \/ ClientStep(c) \/ SendData(c)
             \/ Release(c) \/ ExitSend(c) \/ StreamsEnd(c)
      PROVE  ReplyFits'
  BY <1>2, <1>3 DEF Connect, ConnectFails, ClientStep, HandshakeAnswer,
    BuildFails, ReadCell, ReadEof, SendData, Release, ExitSend, StreamsEnd,
    exitVars, replyVars
<1>4. ASSUME NEW c \in Circuits, NEW i \in Relays,
             TaskStep(c, i) \/ ReaderStep(c, i) \/ LoseTail(c, i)
      PROVE  ReplyFits'
  <2>1. CASE HandleAtExit(c)
    <3>1. /\ replying = None /\ UNCHANGED <<tag, exitSent>>
          /\ replying' \in {None, c}
      BY <2>1 DEF HandleAtExit, Unlocked
    <3>2. tag' = 0 /\ 0 <= exitSent[c]
      BY <1>1, <3>1 DEF ReplyFits
    <3> QED BY <3>1, <3>2, NoneAssumption DEF ReplyFits
  <2>2. CASE TagReply(c)
    <3>1. /\ replying = c /\ replying' = c /\ tag' = exitSent[c] + 1
          /\ exitSent'[c] = exitSent[c] + 1
      BY <1>1, <2>2 DEF TagReply
    <3> QED BY <1>1, <3>1, NoneAssumption DEF ReplyFits
  <2>3. CASE WriteReply(c)
    BY <2>3, NoneAssumption DEF WriteReply, ReplyFits
  <2>4. CASE ~HandleAtExit(c) /\ ~TagReply(c) /\ ~WriteReply(c)
    BY <1>2, <1>4, <2>4 DEF TaskStep, HandleCreate, AddCircuit, HandleExtend,
      ExtendDone, ExtendFails, HandleRelay, ConnEof, ReaderStep, Backward,
      EntryDestroy, ReaderEof, ReaderEnds, LoseTail, exitVars, replyVars
  <2> QED BY <2>1, <2>2, <2>3, <2>4
<1>5. ASSUME NEW r \in Relays, Die(r) PROVE ReplyFits'
  <2>1. /\ UNCHANGED exitSent
        /\ UNCHANGED <<replying, tag>> \/ (replying' = None /\ tag' = 0)
    BY <1>5 DEF Die
  <2> QED BY <1>2, <2>1, NoneAssumption DEF ReplyFits
<1>6. CASE UNCHANGED vars
  BY <1>2, <1>6 DEF vars, exitVars, replyVars
<1> QED BY <1>3, <1>4, <1>5, <1>6 DEF Next

LEMMA ReplyFitsAlways == Spec => []ReplyFits
<1>1. Init => ReplyFits
  BY NoneAssumption DEF Init, ReplyFits
<1>2. RelayInv /\ ReplyFits /\ [Next]_vars => ReplyFits'
  BY ReplyFitsStep DEF RelayInv
<1> QED BY <1>1, <1>2, RelayInvariant, PTL DEF Spec

LEMMA TaskCarries ==
  ASSUME Shapes, LockInv, ReplyInv, ReplyFits, Shapes', NEW c \in Circuits,
         CircuitInv(c), CarriesInv(c), NEW i \in Relays, TaskStep(c, i)
  PROVE  CarriesInv(c)'
<1> DEFINE h == registry[i][Id(c)]
           m == Head(down[c][i])
<1>1. /\ UNCHANGED <<clientVars, alive>>
      /\ ~HandleAtExit(c) => UNCHANGED exitGot
      /\ \/ UNCHANGED exitSent
         \/ exitSent' = [exitSent EXCEPT ![c] = @ + 1]
  BY DEF TaskStep, HandleCreate, AddCircuit, HandleExtend, ExtendDone,
    ExtendFails, HandleRelay, HandleAtExit, ConnEof, TagReply, WriteReply,
    relayVars, exitVars
<1>2. /\ sent[c] \in Nat /\ exitSent[c] \in Nat /\ Id(c) \in Numbers
      /\ down \in Wires /\ up \in Wires /\ registry \in Registries
      /\ exitGot[c] \in Seq(Nat)
      /\ task \in [Circuits -> [Relays -> States]]
  BY DEF Shapes, ClientShapes, ExitShapes, WireShapes, RelayShapes, Id,
    Circuits, LockInv
<1>3. ClientCount(c)' /\ sent'[c] >= sent[c] /\ exitSent'[c] >= exitSent[c]
  <2>1. exitSent'[c] \in {exitSent[c], exitSent[c] + 1}
    BY <1>1 DEF Shapes, ExitShapes
  <2> QED BY <1>1, <1>2, <2>1 DEF CarriesInv, ClientCount, clientVars
<1>4. (GoesOn(c) /\ ComesOn(c)) => WiresFine(c)'
  BY <1>3, WiresKeep DEF CarriesInv
<1>5. ASSUME \/ UNCHANGED task \/ Ends(c, i)
             \/ task' = [task EXCEPT ![c][i] = "adding"]
      PROVE  task'[c][Hops] = "open" => task[c][Hops] = "open"
  <2>1. ASSUME NEW v \in {"ended", "adding"}, task' = [task EXCEPT ![c][i] = v]
        PROVE  task'[c][Hops] = IF i = Hops THEN v ELSE task[c][Hops]
    BY <1>2, <2>1, HopsFacts
  <2> QED BY <1>5, <2>1 DEF Ends
<1>6. CASE HandleCreate(c, i)
  <2> DEFINE created == Cell("CREATED", i, {})
  <2>1. /\ down[c][i] # <<>> /\ down' = TakeDown(c, i)
        /\ up' = PutUp(up, c, i, created)
        /\ UNCHANGED <<registry, exitGot>>
        /\ task' = [task EXCEPT ![c][i] = "adding"]
    BY <1>6 DEF HandleCreate, Has, exitVars
  <2>2. GoesOn(c)
    BY <2>1, TakenOn DEF GoesOn
  <2>3. created \in CellType /\ Comes(c, created)
    <3>1. created.cmd # "DATA" /\ HopBlocks(created) = {}
      BY DEF Cell, HopBlocks
    <3>2. Comes(c, created)
      BY <3>1 DEF Comes
    <3> QED BY <3>2, CellTyped, NoLayers, HopsFacts
  <2>4. ComesOn(c)
    <3> HIDE DEF created
    <3> QED BY <1>2, <2>1, <2>3, PutOn
  <2>5. ExitCount(c)'
    BY <1>1, <1>5, <2>1, ExitKeeps DEF CarriesInv
  <2> QED BY <1>3, <1>4, <2>2, <2>4, <2>5 DEF CarriesInv
<1>7. CASE AddCircuit(c, i)
  <2>1. /\ UNCHANGED <<down, up, exitGot>> /\ task[c][i] = "adding"
        /\ registry' = [registry EXCEPT ![i][Id(c)] = Handler(c)]
        /\ task' = [task EXCEPT ![c][i] = "open"]
    BY <1>7 DEF AddCircuit, exitVars
  <2>2. GoesOn(c) /\ ComesOn(c)
    BY <2>1, SameOn
  <2>3. CASE i # Hops
    <3>1. /\ registry'[Hops][Id(c)] = registry[Hops][Id(c)]
          /\ task'[c][Hops] = task[c][Hops]
      BY <1>2, <2>1, <2>3, HopsFacts DEF Registries
    <3>2. ExitCount(c)'
      BY <1>1, <2>1, <3>1, ExitKeeps DEF CarriesInv
    <3> QED BY <1>3, <1>4, <2>2, <3>2 DEF CarriesInv
  <2>4. CASE i = Hops
    <3>1. Hops \in alive /\ ~Mine(c, Hops)
      BY <2>1, <2>4 DEF LockInv, TasksAlive, CircuitInv, Fresh
    <3>2. exitGot'[c] = <<>>
      BY <2>1, <3>1 DEF CarriesInv, ExitCount
    <3>3. registry'[Hops][Id(c)].fwd = 0 /\ Mine(c, Hops)'
      BY <1>2, <2>1, <2>4 DEF Registries, Handler, Mine
    <3>4. ExitCount(c)'
      BY <3>2, <3>3 DEF ExitCount
    <3> QED BY <1>3, <1>4, <2>2, <3>4 DEF CarriesInv
  <2> QED BY <2>3, <2>4
<1>8. CASE HandleExtend(c, i)
  <2> DEFINE create == Cell("CREATE", i + 1, {})
             taken == TakeDown(c, i)
  <2>1. /\ Has(c, i, "EXTEND") /\ extending[i] = None /\ ~HasNext(c, i)
        /\ registry' = Peeled(i, c) /\ UNCHANGED <<up, exitGot>>
        /\ \/ /\ task' = [task EXCEPT ![c][i + 1] = "open"]
              /\ down' = [taken EXCEPT ![c][i + 1] = <<create>>]
              /\ i + 1 \in alive
           \/ Ends(c, i) /\ down' = taken
    BY <1>8 DEF HandleExtend, Unlocked, HasNext, exitVars
  <2>2. Mine(c, i) /\ i \in alive /\ task[c][i] = "open" /\ down[c][i] # <<>>
    BY <2>1, ReadsMine
  <2>3. ASSUME NEW j \in Relays
        PROVE  taken \in Wires /\ Cells(taken[c][j]) \subseteq Cells(down[c][j])
    BY <2>2, TakenOn
  <2>4. GoesOn(c)
    <3>1. CASE down' = taken
      BY <2>3, <3>1 DEF GoesOn
    <3>2. CASE down' = [taken EXCEPT ![c][i + 1] = <<create>>]
      <4>1. Goes(c, create)
        BY DEF Goes, Cell
      <4>2. ASSUME NEW j \in Relays, NEW x \in Cells(down'[c][j])
            PROVE  x \in Cells(down[c][j]) \/ x = create
        <5> HIDE DEF taken, create
        <5>1. \/ down'[c][j] = <<create>>
              \/ down'[c][j] = taken[c][j]
          BY <2>3, <3>2 DEF Wires
        <5> QED BY <2>3, <4>2, <5>1, OneCell
      <4> QED BY <4>1, <4>2 DEF GoesOn
    <3> QED BY <2>1, <3>1, <3>2
  <2>5. ComesOn(c)
    BY <2>1, SameOn
  <2>6. CASE Ends(c, i)
    <3>1. CASE i # Hops
      <4>1. registry'[Hops][Id(c)] = registry[Hops][Id(c)]
        BY <1>2, <2>1, <3>1, ExitSlot DEF Peeled
      <4>2. ExitCount(c)'
        BY <1>1, <1>5, <2>1, <2>6, <4>1, ExitKeeps DEF CarriesInv
      <4> QED BY <1>3, <1>4, <2>4, <2>5, <4>2 DEF CarriesInv
    <3>2. CASE i = Hops
      <4>1. task'[c][Hops] = "ended"
        BY <1>2, <2>6, <3>2 DEF Ends
      <4>2. Mine(c, Hops)'
        <5>1. SlotsSeen(registry, registry', i, Id(c))
          BY <1>2, <2>1, SlotSeen DEF Peeled
        <5> QED BY <1>2, <2>2, <3>2, <5>1 DEF SlotsSeen, Mine
      <4>3. ExitCount(c)'
        BY <4>1, <4>2 DEF ExitCount
      <4> QED BY <1>3, <1>4, <2>4, <2>5, <4>3 DEF CarriesInv
    <3> QED BY <3>1, <3>2
  <2>7. CASE task' = [task EXCEPT ![c][i + 1] = "open"] /\ i + 1 \in alive
    <3>1. i + 1 \in Relays /\ i < Hops /\ i # Hops
      <4>1. i + 1 \in Relays
        BY <2>7 DEF LockInv
      <4> QED BY <4>1, HopsAssumption DEF Relays
    <3>2. task[c][i + 1] = "none"
      BY <2>1, <2>2, <3>1, NoneAssumption DEF CircuitInv, NextKept
    <3>3. registry'[Hops][Id(c)] = registry[Hops][Id(c)]
      BY <1>2, <2>1, <3>1, ExitSlot DEF Peeled
    <3>4. task'[c][Hops] = "open" /\ Mine(c, Hops) => task[c][Hops] = "open"
      <4>1. i + 1 = Hops => ~Mine(c, Hops)
        BY <3>1, <3>2 DEF CircuitInv, NotYet
      <4>2. i + 1 # Hops => task'[c][Hops] = task[c][Hops]
        BY <1>2, <2>7 DEF States
      <4> QED BY <4>1, <4>2
    <3>5. ExitCount(c)'
      BY <1>1, <2>1, <3>3, <3>4, ExitKeeps DEF CarriesInv
    <3> QED BY <1>3, <1>4, <2>4, <2>5, <3>5 DEF CarriesInv
  <2> QED BY <2>1, <2>6, <2>7
<1>9. CASE ExtendDone(c, i)
  <2> DEFINE n == Head(up[c][i + 1])
             taken == TakeUp(c, i + 1)
  <2>1. PICK answer :
          answer = Cell("EXTENDED", n.n, {Block(h.key, i, "b", h.bwd)})
    OBVIOUS
  <2>2. /\ extending[i] = c /\ up[c][i + 1] # <<>>
        /\ registry' = [registry EXCEPT ![i][Id(c)].next = TRUE,
                                        ![i][Id(c)].bwd = @ + 1]
        /\ UNCHANGED task \/ Ends(c, i)
        /\ up' = taken \/ up' = PutUp(taken, c, i, answer)
        /\ UNCHANGED <<down, exitGot>>
    BY <1>9, <2>1 DEF ExtendDone, exitVars
  <2>3. i < Hops /\ i + 1 \in Relays /\ i # Hops
    <3>1. i < Hops
      BY <2>2, NoneAssumption DEF Shapes, RelayShapes
    <3> QED BY <3>1, HopsFacts
  <2>4. /\ taken \in Wires /\ n \in CellType
        /\ \A j \in Relays : Cells(taken[c][j]) \subseteq Cells(up[c][j])
    BY <2>2, <2>3, TakenOn
  <2>5. answer \in CellType
    <3>1. h.key \in Circuits \union {None} /\ h.bwd \in Nat
      BY HandlersTyped DEF Shapes, HandlerType
    <3> HIDE DEF h, n
    <3> QED BY <2>1, <2>4, <3>1, CellFields, BlockTyped, CellTyped
  <2>6. Comes(c, answer)
    <3>1. answer.cmd # "DATA"
      BY <2>1 DEF Cell
    <3>2. HopBlocks(answer) = {}
      BY <2>1, <2>3 DEF Cell, HopBlocks, Block
    <3> QED BY <3>1, <3>2 DEF Comes
  <2>7. ComesOn(c)
    <3> HIDE DEF taken
    <3>1. CASE up' = taken
      BY <2>4, <3>1 DEF ComesOn
    <3>2. CASE up' = PutUp(taken, c, i, answer)
      BY <2>4, <2>5, <2>6, <3>2, PutOn
    <3> QED BY <2>2, <3>1, <3>2
  <2>8. GoesOn(c)
    BY <2>2, SameOn
  <2>9. registry'[Hops][Id(c)] = registry[Hops][Id(c)]
    BY <1>2, <2>2, <2>3, ExitSlot
  <2>10. ExitCount(c)'
    BY <1>1, <1>5, <2>2, <2>9, ExitKeeps DEF CarriesInv
  <2> QED BY <1>3, <1>4, <2>7, <2>8, <2>10 DEF CarriesInv
<1>10. CASE ExtendFails(c, i) \/ ConnEof(c, i)
  <2>1. UNCHANGED <<registry, down, up, exitGot>> /\ Ends(c, i)
    BY <1>10 DEF ExtendFails, ConnEof, exitVars
  <2>2. ExitCount(c)'
    BY <1>1, <1>5, <2>1, ExitKeeps DEF CarriesInv
  <2> QED BY <1>3, <1>4, <2>1, <2>2, SameOn DEF CarriesInv
<1>11. CASE HandleRelay(c, i)
  <2> DEFINE taken == TakeDown(c, i)
  <2>1. PICK peeled : peeled = [m EXCEPT !.layers = Peel(h, i, m)]
    OBVIOUS
  <2>2. /\ i < Hops /\ registry' = Peeled(i, c)
        /\ Has(c, i, "DATA") \/ Has(c, i, "EXTEND")
        /\ UNCHANGED task \/ Ends(c, i)
        /\ down' = taken \/ down' = PutDown(taken, h.key, i + 1, peeled)
        /\ UNCHANGED <<up, exitGot>>
    BY <1>11, <2>1 DEF HandleRelay, exitVars
  <2>3. Mine(c, i) /\ down[c][i] # <<>> /\ h.key = c /\ i # Hops
    <3>1. Mine(c, i) /\ down[c][i] # <<>>
      BY <2>2, ReadsMine
    <3> QED BY <2>2, <3>1, HopsFacts DEF Mine
  <2>4. /\ taken \in Wires /\ m \in CellType /\ m \in Cells(down[c][i])
        /\ \A j \in Relays : Cells(taken[c][j]) \subseteq Cells(down[c][j])
    BY <2>3, TakenOn
  <2>5. h.key \in Circuits \union {None} /\ h.fwd \in Nat
    BY HandlersTyped DEF Shapes, HandlerType
  <2>6. Goes(c, m) /\ m.layers \in Layers
    BY <2>4, CellFields DEF CarriesInv, WiresFine
  <2> HIDE DEF h, m, taken
  <2>7. Peel(h, i, m) \in Layers
    BY <2>5, <2>6, BlockTyped DEF Peel
  <2>8. /\ peeled \in CellType /\ peeled.cmd = m.cmd /\ peeled.n = m.n
        /\ peeled.layers = Peel(h, i, m)
    BY <2>1, <2>4, <2>7 DEF CellType
  <2>9. Goes(c, peeled)
    <3>1. HopBlocks(peeled) = HopBlocks(m)
      <4>1. {b \in Peel(h, i, m) : b[2] = Hops} = {b \in m.layers : b[2] = Hops}
        BY <2>2, <2>6, OtherHop DEF Peel
      <4> QED BY <2>8, <4>1 DEF HopBlocks
    <3> QED BY <2>6, <2>8, <3>1 DEF Goes
  <2>10. GoesOn(c)
    <3>1. CASE down' = taken
      BY <2>4, <3>1 DEF GoesOn
    <3>2. CASE down' = PutDown(taken, h.key, i + 1, peeled)
      BY <2>3, <2>4, <2>8, <2>9, <3>2, PutOn
    <3> QED BY <2>2, <3>1, <3>2
  <2>11. ComesOn(c)
    BY <2>2, SameOn
  <2>12. registry'[Hops][Id(c)] = registry[Hops][Id(c)]
    BY <1>2, <2>2, <2>3, ExitSlot DEF Peeled
  <2>13. ExitCount(c)'
    BY <1>1, <1>5, <2>2, <2>12, ExitKeeps DEF CarriesInv
  <2> QED BY <1>3, <1>4, <2>10, <2>11, <2>13 DEF CarriesInv
<1>12. CASE i = Hops /\ HandleAtExit(c)
  <2>1. /\ Has(c, Hops, "DATA") /\ down' = TakeDown(c, Hops)
        /\ registry' = Peeled(Hops, c) /\ UNCHANGED up
        /\ \/ /\ Peel(registry[Hops][Id(c)], Hops, Head(down[c][Hops])) = {}
              /\ exitGot' = [exitGot EXCEPT ![c] =
                               Append(@, Head(down[c][Hops]).n)]
              /\ UNCHANGED task
           \/ Ends(c, Hops) /\ UNCHANGED exitGot
    BY <1>12 DEF HandleAtExit
  <2>2. /\ Hops \in alive /\ Mine(c, Hops) /\ down[c][Hops] # <<>>
        /\ task[c][Hops] = "open"
    BY <2>1, ReadsMine, HopsFacts
  <2>3. GoesOn(c)
    BY <2>1, <2>2, TakenOn, HopsFacts DEF GoesOn
  <2>4. ComesOn(c)
    BY <2>1, SameOn
  <2>5. Mine(c, Hops)'
    <3>1. SlotsSeen(registry, registry', Hops, Id(c))
      BY <1>2, <2>1, SlotSeen, HopsFacts DEF Peeled
    <3> QED BY <1>2, <2>2, <3>1, HopsFacts DEF SlotsSeen, Mine
  <2>6. ExitCount(c)'
    <3>1. CASE Ends(c, Hops)
      <4>1. task'[c][Hops] = "ended"
        BY <1>2, <3>1, HopsFacts DEF Ends
      <4> QED BY <2>5, <4>1 DEF ExitCount
    <3>2. CASE exitGot' = [exitGot EXCEPT ![c] =
                             Append(@, Head(down[c][Hops]).n)]
      <4>1. Len(exitGot'[c]) = Len(exitGot[c]) + 1
        <5>1. exitGot'[c] = Append(exitGot[c], Head(down[c][Hops]).n)
          BY <3>2 DEF Shapes, ExitShapes
        <5> QED BY <1>2, <5>1
      <4>2. registry'[Hops][Id(c)].fwd = registry[Hops][Id(c)].fwd + 1
        BY <1>2, <2>1, HopsFacts DEF Peeled, Registries, HandlerType
      <4>3. registry[Hops][Id(c)].fwd = Len(exitGot[c])
        BY <2>2 DEF CarriesInv, ExitCount
      <4> QED BY <2>5, <4>1, <4>2, <4>3 DEF ExitCount
    <3> QED BY <2>1, <3>1, <3>2
  <2> QED BY <1>3, <1>4, <2>3, <2>4, <2>6 DEF CarriesInv
<1>13. CASE i = Hops /\ TagReply(c)
  <2>1. ExitCount(c)' /\ GoesOn(c) /\ ComesOn(c)
    BY <1>1, <1>13, ExitKeeps, SameOn DEF CarriesInv, TagReply, relayVars
  <2> QED BY <1>3, <1>4, <2>1 DEF CarriesInv
<1>14. CASE i = Hops /\ WriteReply(c)
  <2>1. /\ UNCHANGED <<registry, down, exitGot>>
        /\ UNCHANGED task \/ Ends(c, i)
        /\ UNCHANGED up \/ up' = PutUp(up, c, Hops, ReplyCell(c))
    BY <1>14 DEF WriteReply, ReplyCell
  <2>2. ReplyCell(c) \in CellType
    BY <1>14, ReplyCellTyped
  <2>3. Comes(c, ReplyCell(c))
    <3>1. tag \in Nat /\ tag # 0 /\ tag <= exitSent[c]
      BY <1>14 DEF WriteReply, ReplyInv, ReplyFits
    <3>2. /\ ReplyCell(c).cmd = "DATA" /\ ReplyCell(c).n = tag
          /\ ReplyCell(c).layers = {Block(c, Hops, "b", tag - 1)}
      BY DEF ReplyCell, Cell
    <3>3. HopBlocks(ReplyCell(c)) = {Block(c, Hops, "b", tag - 1)}
      BY <3>2 DEF HopBlocks, Block
    <3> QED BY <1>2, <3>1, <3>2, <3>3 DEF Comes
  <2>4. ComesOn(c)
    <3>1. CASE UNCHANGED up
      BY <3>1, SameOn
    <3>2. CASE up' = PutUp(up, c, Hops, ReplyCell(c))
      <4>1. PICK cell : cell = ReplyCell(c)
        OBVIOUS
      <4>2. \A j \in Relays : Cells(up[c][j]) \subseteq Cells(up[c][j])
        OBVIOUS
      <4> QED BY <1>2, <2>2, <2>3, <3>2, <4>1, <4>2, PutOn
    <3> QED BY <2>1, <3>1, <3>2
  <2>5. ExitCount(c)' /\ GoesOn(c)
    BY <1>1, <1>5, <2>1, ExitKeeps, SameOn DEF CarriesInv
  <2> QED BY <1>3, <1>4, <2>4, <2>5 DEF CarriesInv
<1> QED BY <1>6, <1>7, <1>8, <1>9, <1>10, <1>11, <1>12, <1>13, <1>14
  DEF TaskStep

LEMMA ReaderCarries ==
  ASSUME Shapes, LockInv, Shapes', NEW c \in Circuits, CircuitInv(c),
         CarriesInv(c), NEW i \in Relays, ReaderStep(c, i)
  PROVE  CarriesInv(c)'
<1> DEFINE h == registry[i][Id(c)]
           m == Head(up[c][i + 1])
           taken == TakeUp(c, i + 1)
<1>1. /\ UNCHANGED <<clientVars, alive, task, down, exitSent, exitGot>>
      /\ i < Hops
      /\ \/ UNCHANGED registry
         \/ registry' = [registry EXCEPT ![i][Id(c)].bwd = @ + 1]
  BY HopsFacts DEF ReaderStep, Backward, EntryDestroy, ReaderEof, ReaderEnds,
    exitVars
<1>2. /\ sent[c] \in Nat /\ exitSent[c] \in Nat /\ Id(c) \in Numbers
      /\ up \in Wires /\ i + 1 \in Relays /\ i # Hops
  BY <1>1, HopsFacts DEF Shapes, ClientShapes, ExitShapes, WireShapes, Id,
    Circuits
<1>3. ClientCount(c)' /\ sent'[c] >= sent[c] /\ exitSent'[c] >= exitSent[c]
  BY <1>1, <1>2 DEF CarriesInv, ClientCount, clientVars
<1>4. ExitCount(c)'
  <2>1. registry'[Hops][Id(c)] = registry[Hops][Id(c)]
    BY <1>1, <1>2, ExitSlot
  <2> QED BY <1>1, <2>1, ExitKeeps DEF CarriesInv
<1>5. GoesOn(c)
  BY <1>1, SameOn
<1>6. PICK layered :
        layered = [m EXCEPT !.layers = Apply(@, Block(h.key, i, "b", h.bwd))]
  OBVIOUS
<1>7. \/ up' = PutUp(up, c, i, Destroy)
      \/ /\ up[c][i + 1] # <<>>
         /\ \/ up' = taken \/ up' = PutUp(taken, c, i, Destroy)
            \/ up' = PutUp(taken, c, i, layered) \/ up' = PutUp(taken, c, i, m)
  <2>1. CASE Backward(c, i)
    BY <1>6, <2>1 DEF Backward
  <2>2. CASE i = 1 /\ EntryDestroy(c)
    BY <2>2 DEF EntryDestroy
  <2> QED BY <2>1, <2>2 DEF ReaderStep, ReaderEof
<1>8. Destroy \in CellType /\ Comes(c, Destroy)
  <2>1. Destroy.cmd # "DATA" /\ HopBlocks(Destroy) = {}
    BY DEF Destroy, Cell, HopBlocks
  <2>2. Comes(c, Destroy)
    BY <2>1 DEF Comes
  <2> QED BY <2>2, CellTyped, NoLayers DEF Destroy
<1>9. ASSUME up[c][i + 1] # <<>>
      PROVE  /\ taken \in Wires /\ m \in CellType /\ Comes(c, m)
             /\ \A j \in Relays : Cells(taken[c][j]) \subseteq Cells(up[c][j])
             /\ layered \in CellType /\ Comes(c, layered)
  <2>1. /\ taken \in Wires /\ m \in CellType /\ m \in Cells(up[c][i + 1])
        /\ \A j \in Relays : Cells(taken[c][j]) \subseteq Cells(up[c][j])
    BY <1>2, <1>9, TakenOn
  <2>2. Comes(c, m) /\ m.layers \in Layers
    BY <1>2, <2>1, CellFields DEF CarriesInv, WiresFine
  <2>3. h.key \in Circuits \union {None} /\ h.bwd \in Nat
    BY HandlersTyped DEF Shapes, HandlerType
  <2> HIDE DEF h, m, taken
  <2>4. Apply(m.layers, Block(h.key, i, "b", h.bwd)) \in Layers
    BY <2>2, <2>3, BlockTyped
  <2>5. /\ layered \in CellType /\ layered.cmd = m.cmd /\ layered.n = m.n
        /\ layered.layers = Apply(m.layers, Block(h.key, i, "b", h.bwd))
    BY <1>6, <2>1, <2>4 DEF CellType
  <2>6. HopBlocks(layered) = HopBlocks(m)
    <3>1. {b \in Apply(m.layers, Block(h.key, i, "b", h.bwd)) : b[2] = Hops}
            = {b \in m.layers : b[2] = Hops}
      BY <1>1, <2>2, OtherHop
    <3> QED BY <2>5, <3>1 DEF HopBlocks
  <2>7. Comes(c, layered)
    BY <2>2, <2>5, <2>6 DEF Comes
  <2> QED BY <2>1, <2>2, <2>5, <2>7
<1> HIDE DEF m, taken
<1>10. ComesOn(c)
  <2>1. CASE up' = PutUp(up, c, i, Destroy)
    <3>1. \A j \in Relays : Cells(up[c][j]) \subseteq Cells(up[c][j])
      OBVIOUS
    <3> QED BY <1>2, <1>8, <2>1, <3>1, PutOn
  <2>2. CASE up[c][i + 1] # <<>> /\ up' = taken
    BY <1>9, <2>2 DEF ComesOn
  <2>3. CASE up[c][i + 1] # <<>> /\ up' = PutUp(taken, c, i, Destroy)
    BY <1>8, <1>9, <2>3, PutOn
  <2>4. CASE up[c][i + 1] # <<>> /\ up' = PutUp(taken, c, i, layered)
    BY <1>9, <2>4, PutOn
  <2>5. CASE up[c][i + 1] # <<>> /\ up' = PutUp(taken, c, i, m)
    <3>1. PICK x : x = m
      OBVIOUS
    <3>2. x \in CellType /\ Comes(c, x) /\ up' = PutUp(taken, c, i, x)
      BY <1>9, <2>5, <3>1
    <3> QED BY <1>9, <2>5, <3>2, PutOn
  <2> QED BY <1>7, <2>1, <2>2, <2>3, <2>4, <2>5
<1> QED BY <1>3, <1>4, <1>5, <1>10, WiresKeep DEF CarriesInv

LEMMA StreamCarries ==
  ASSUME Shapes, Shapes', NEW c \in Circuits, CarriesInv(c),
         ExitSend(c) \/ StreamsEnd(c)
  PROVE  CarriesInv(c)'
<1>1. /\ UNCHANGED <<clientVars, relayVars, down, exitGot>>
  BY DEF ExitSend, StreamsEnd
<1>2. /\ sent[c] \in Nat /\ exitSent[c] \in Nat /\ up \in Wires
  BY DEF Shapes, ClientShapes, ExitShapes, WireShapes
<1>3. ClientCount(c)' /\ sent'[c] >= sent[c]
  BY <1>1, <1>2 DEF CarriesInv, ClientCount, clientVars
<1>4. ExitCount(c)' /\ GoesOn(c)
  BY <1>1, ExitKeeps, SameOn DEF CarriesInv, relayVars
<1>5. ComesOn(c) /\ exitSent'[c] >= exitSent[c]
  <2>1. CASE StreamsEnd(c)
    BY <1>2, <2>1, SameOn DEF StreamsEnd
  <2>2. CASE ExitSend(c)
    <3>1. PICK cell : cell = Cell("DATA", exitSent[c] + 1,
                                  {Block(c, Hops, "b", exitSent[c])})
      OBVIOUS
    <3>2. exitSent'[c] = exitSent[c] + 1 /\ up' = PutUp(up, c, Hops, cell)
      BY <2>2, <3>1 DEF ExitSend, Shapes, ExitShapes
    <3>3. cell \in CellType
      <4>1. {Block(c, Hops, "b", exitSent[c])} \in Layers
        BY <1>2, HopsFacts, BlockTyped
      <4> QED BY <1>2, <3>1, <4>1, CellTyped
    <3>4. Comes(c, cell)'
      <4>1. /\ cell.cmd = "DATA" /\ cell.n = exitSent[c] + 1
            /\ cell.layers = {Block(c, Hops, "b", exitSent[c])}
        BY <3>1 DEF Cell
      <4>2. cell.n - 1 = exitSent[c] /\ cell.n >= 1
        BY <1>2, <4>1
      <4>3. HopBlocks(cell) = {Block(c, Hops, "b", exitSent[c])}
        BY <4>1 DEF HopBlocks, Block
      <4> QED BY <1>2, <3>2, <4>1, <4>2, <4>3 DEF Comes
    <3>5. \A j \in Relays : Cells(up[c][j]) \subseteq Cells(up[c][j])
      OBVIOUS
    <3> QED BY <1>2, <3>2, <3>3, <3>4, <3>5, PutOn
  <2> QED BY <2>1, <2>2
<1> QED BY <1>3, <1>4, <1>5, WiresKeep DEF CarriesInv

LEMMA LossCarries ==
  ASSUME Shapes, Shapes', NEW c \in Circuits, CarriesInv(c), NEW i \in Relays,
         LoseTail(c, i) \/ \E r \in Relays : Die(r)
  PROVE  CarriesInv(c)'
<1>1. /\ UNCHANGED <<clientVars, exitSent, exitGot>>
      /\ down \in Wires /\ up \in Wires
      /\ sent[c] \in Nat /\ exitSent[c] \in Nat
  BY DEF LoseTail, Die, exitVars, Shapes, ClientShapes, ExitShapes, WireShapes
<1>2. ClientCount(c)' /\ sent'[c] >= sent[c] /\ exitSent'[c] >= exitSent[c]
  BY <1>1 DEF CarriesInv, ClientCount, clientVars
<1>3. CASE LoseTail(c, i)
  <2>1. ExitCount(c)'
    BY <1>1, <1>3, ExitKeeps DEF CarriesInv, LoseTail, relayVars
  <2>2. ASSUME NEW ch \in Wires, ch[c][i] # <<>>, NEW j \in Relays
        PROVE  Cells([ch EXCEPT ![c][i] = Shorten(@)][c][j])
                 \subseteq Cells(ch[c][j])
    <3>1. ch[c][i] \in Seq(CellType)
      BY DEF Wires
    <3>2. Cells(Shorten(ch[c][i])) \subseteq Cells(ch[c][i])
      BY <2>2, <3>1, CellsOf
    <3>3. [ch EXCEPT ![c][i] = Shorten(@)][c][j]
            = IF j = i THEN Shorten(ch[c][i]) ELSE ch[c][j]
      BY DEF Wires
    <3> QED BY <3>2, <3>3
  <2>3. GoesOn(c) /\ ComesOn(c)
    BY <1>1, <1>3, <2>2 DEF LoseTail, GoesOn, ComesOn
  <2> QED BY <1>2, <2>1, <2>3, WiresKeep DEF CarriesInv
<1>4. ASSUME NEW r \in Relays, Die(r) PROVE CarriesInv(c)'
  <2>1. Cells(<<>>) = {}
    BY DEF Cells
  <2>2. ASSUME NEW j \in Relays
        PROVE  /\ down'[c][j] = down[c][j] \/ down'[c][j] = <<>>
               /\ up'[c][j] = up[c][j] \/ up'[c][j] = <<>>
    BY <1>1, <1>4 DEF Die, Wires
  <2>3. GoesOn(c) /\ ComesOn(c)
    BY <2>1, <2>2 DEF GoesOn, ComesOn
  <2>4. ExitCount(c)'
    <3>1. CASE r = Hops
      BY <1>4, <3>1 DEF Die, ExitCount
    <3>2. CASE r # Hops
      <4>1. /\ registry'[Hops] = registry[Hops] /\ alive' \subseteq alive
        BY <1>4, <3>2, HopsFacts DEF Die, Shapes, RelayShapes, Registries
      <4>2. task'[c][Hops] = "open" => task[c][Hops] = "open"
        <5>1. task'[c] = [task[c] EXCEPT ![r] =
                            IF @ = "none" THEN @ ELSE "ended"]
          BY <1>4 DEF Die
        <5> QED BY <3>2, <5>1
      <4> QED BY <1>1, <4>1, <4>2, ExitKeeps DEF CarriesInv
    <3> QED BY <3>1, <3>2
  <2> QED BY <1>2, <2>3, <2>4, WiresKeep DEF CarriesInv
<1> QED BY <1>3, <1>4

\* Other circuits leave it all alone.
LEMMA OthersCounts ==
  ASSUME Shapes, NEW c \in Circuits, NEW d \in Circuits, d # c,
         \/ Connect(d) \/ ConnectFails(d) \/ ClientStep(d) \/ SendData(d)
         \/ Release(d) \/ ExitSend(d) \/ StreamsEnd(d)
         \/ \E i \in Relays :
              TaskStep(d, i) \/ ReaderStep(d, i) \/ LoseTail(d, i)
  PROVE  /\ cfwd'[c] = cfwd[c] /\ cbwd'[c] = cbwd[c]
         /\ sent'[c] = sent[c] /\ got'[c] = got[c]
         /\ exitSent'[c] = exitSent[c] /\ exitGot'[c] = exitGot[c]
<1>1. /\ cfwd \in Counts /\ cbwd \in Counts
      /\ sent \in [Circuits -> Nat] /\ got \in [Circuits -> Seq(Nat)]
      /\ exitSent \in [Circuits -> Nat] /\ exitGot \in [Circuits -> Seq(Nat)]
  BY DEF Shapes, ClientShapes, ExitShapes
<1>2. CASE \/ Connect(d) \/ ConnectFails(d) \/ ClientStep(d) \/ SendData(d)
           \/ Release(d)
  <2>1. keys[d] \in Nat /\ keys[d] + 1 \in Nat /\ Hops \in Nat
    BY HopsFacts DEF Shapes, ClientShapes
  <2>2. /\ UNCHANGED cfwd \/ \E k \in Nat : cfwd' = Advance(cfwd, d, k)
        /\ UNCHANGED cbwd \/ \E k \in Nat : cbwd' = Advance(cbwd, d, k)
    BY <1>2, <2>1 DEF Connect, ConnectFails, ClientStep,
      HandshakeAnswer, BuildFails, ReadCell, ReadEof, SendData, Release
  <2>3. /\ UNCHANGED sent \/ \E v : sent' = [sent EXCEPT ![d] = v]
        /\ UNCHANGED got \/ \E v : got' = [got EXCEPT ![d] = v]
        /\ UNCHANGED <<exitSent, exitGot>>
    BY <1>2 DEF Connect, ConnectFails, ClientStep,
      HandshakeAnswer, BuildFails, ReadCell, ReadEof, SendData, Release,
      exitVars
  <2> QED BY <1>1, <2>2, <2>3, AdvanceAt
<1>3. CASE ExitSend(d) \/ StreamsEnd(d)
  BY <1>1, <1>3 DEF ExitSend, StreamsEnd, clientVars
<1>4. ASSUME NEW i \in Relays,
             TaskStep(d, i) \/ ReaderStep(d, i) \/ LoseTail(d, i)
      PROVE  /\ UNCHANGED clientVars /\ exitSent'[c] = exitSent[c]
             /\ exitGot'[c] = exitGot[c]
  BY <1>1, <1>4 DEF TaskStep, HandleCreate, AddCircuit, HandleExtend,
    ExtendDone, ExtendFails, HandleRelay, HandleAtExit, ConnEof, TagReply,
    WriteReply, ReaderStep, Backward, EntryDestroy, ReaderEof, ReaderEnds,
    LoseTail, exitVars
<1> QED BY <1>2, <1>3, <1>4 DEF clientVars

LEMMA OthersCarry ==
  ASSUME Shapes, Shapes', NEW c \in Circuits, CarriesInv(c), Untouched(c),
         cfwd'[c] = cfwd[c], cbwd'[c] = cbwd[c],
         sent'[c] = sent[c], got'[c] = got[c],
         exitSent'[c] = exitSent[c], exitGot'[c] = exitGot[c]
  PROVE  CarriesInv(c)'
<1>1. sent'[c] >= sent[c] /\ exitSent'[c] >= exitSent[c]
  <2>1. sent[c] \in Nat /\ exitSent[c] \in Nat
    BY DEF Shapes, ClientShapes, ExitShapes
  <2> QED BY <2>1
<1>2. GoesOn(c) /\ ComesOn(c)
  BY SameOn DEF Untouched
<1>3. WiresFine(c)'
  BY <1>1, <1>2, WiresKeep DEF CarriesInv
<1>4. ClientCount(c)'
  BY DEF CarriesInv, ClientCount, Untouched
<1>5. ExitCount(c)'
  BY HopsFacts, ExitKeeps DEF CarriesInv, Untouched
<1> QED BY <1>3, <1>4, <1>5 DEF CarriesInv

LEMMA CarriesStep ==
  ASSUME RelayInv, RelayInv', ReplyFits, Own, NEW c \in Circuits, Alone(c),
         CircuitInv(c), CarriesInv(c), [Next]_vars
  PROVE  CarriesInv(c)'
<1>1. Shapes /\ LockInv /\ ReplyInv /\ Shapes'
  BY DEF RelayInv
<1>2. ASSUME NEW d \in Circuits, d # c,
             \/ Connect(d) \/ ConnectFails(d) \/ ClientStep(d) \/ SendData(d)
             \/ Release(d) \/ ExitSend(d) \/ StreamsEnd(d)
             \/ \E i \in Relays :
                  TaskStep(d, i) \/ ReaderStep(d, i) \/ LoseTail(d, i)
      PROVE  CarriesInv(c)'
  <2>1. Untouched(c)
    BY <1>1, <1>2, OthersClient, OthersTask, OthersReader
  <2>2. /\ cfwd'[c] = cfwd[c] /\ cbwd'[c] = cbwd[c]
        /\ sent'[c] = sent[c] /\ got'[c] = got[c]
        /\ exitSent'[c] = exitSent[c] /\ exitGot'[c] = exitGot[c]
    BY <1>1, <1>2, OthersCounts
  <2> QED BY <1>1, <2>1, <2>2, OthersCarry
<1>3. ASSUME \/ Connect(c) \/ ConnectFails(c) \/ ClientStep(c) \/ SendData(c)
             \/ Release(c) \/ ExitSend(c) \/ StreamsEnd(c)
      PROVE  CarriesInv(c)'
  BY <1>1, <1>3, ClientCarries, StreamCarries
<1>4. ASSUME NEW i \in Relays,
             TaskStep(c, i) \/ ReaderStep(c, i) \/ LoseTail(c, i)
      PROVE  CarriesInv(c)'
  BY <1>1, <1>4, TaskCarries, ReaderCarries, LossCarries
<1>5. ASSUME NEW r \in Relays, Die(r) PROVE CarriesInv(c)'
  BY <1>1, <1>5, LossCarries
<1>6. CASE UNCHANGED vars
  <2>1. Untouched(c)
    BY <1>6 DEF vars, clientVars, relayVars, exitVars, Untouched
  <2> QED BY <1>1, <1>6, <2>1, OthersCarry DEF vars, clientVars, exitVars
<1>7. ASSUME NEW d \in Circuits,
             \/ Connect(d) \/ ConnectFails(d) \/ ClientStep(d) \/ SendData(d)
             \/ Release(d) \/ ExitSend(d) \/ StreamsEnd(d)
             \/ \E i \in Relays :
                  TaskStep(d, i) \/ ReaderStep(d, i) \/ LoseTail(d, i)
      PROVE  CarriesInv(c)'
  BY <1>2, <1>3, <1>4, <1>7
<1> QED BY <1>5, <1>6, <1>7 DEF Next

LEMMA CarriesStart ==
  ASSUME Init, NEW c \in Circuits
  PROVE  CarriesInv(c)
<1>1. /\ cfwd[c][Hops] = 0 /\ cbwd[c][Hops] = 0
      /\ sent[c] = 0 /\ got[c] = <<>> /\ exitGot[c] = <<>>
      /\ task[c][Hops] = "none"
      /\ \A i \in Relays : down[c][i] = <<>> /\ up[c][i] = <<>>
  BY HopsFacts DEF Init
<1>2. Cells(<<>>) = {} /\ Len(<<>>) = 0
  BY DEF Cells
<1> QED BY <1>1, <1>2 DEF CarriesInv, WiresFine, ClientCount, ExitCount

LEMMA CarriesInvariant ==
  Spec => []\A c \in Circuits : Alone(c) => CarriesInv(c)
<1> DEFINE Carries == \A c \in Circuits : Alone(c) => CarriesInv(c)
<1>1. Init => Carries
  BY CarriesStart
<1>2. /\ RelayInv /\ RelayInv' /\ ReplyFits /\ EstInv /\ Carries
      /\ [Next]_vars
      => Carries'
  BY CarriesStep DEF EstInv, Alone
<1> QED BY <1>1, <1>2, RelayInvariant, ReplyFitsAlways, EstInvariant, PTL
  DEF Spec
-----------------------------------------------------------------------------
(* The refinement.                                                         *)

Lone == {c \in Circuits : Alone(c)}
PathPipes == Lone \X {"up", "down"}
PathWritten == [p \in PathPipes |->
                  IF p[2] = "up" THEN sent[p[1]] ELSE exitSent[p[1]]]
PathReceived == [p \in PathPipes |->
                   IF p[2] = "up" THEN exitGot[p[1]] ELSE got[p[1]]]
UpPipe(c) == <<c, "up">>
DownPipe(c) == <<c, "down">>

LEMMA PathPipesAt ==
  /\ \A p \in PathPipes : \E c \in Lone : p = UpPipe(c) \/ p = DownPipe(c)
  /\ \A c \in Lone :
       /\ UpPipe(c) \in PathPipes /\ DownPipe(c) \in PathPipes
       /\ PathWritten[UpPipe(c)] = sent[c]
       /\ PathWritten[DownPipe(c)] = exitSent[c]
       /\ PathReceived[UpPipe(c)] = exitGot[c]
       /\ PathReceived[DownPipe(c)] = got[c]
       /\ PathWritten'[UpPipe(c)] = sent'[c]
       /\ PathWritten'[DownPipe(c)] = exitSent'[c]
       /\ PathReceived'[UpPipe(c)] = exitGot'[c]
       /\ PathReceived'[DownPipe(c)] = got'[c]
       /\ \A d \in Lone : /\ UpPipe(c) # DownPipe(d)
                          /\ UpPipe(c) = UpPipe(d) => c = d
                          /\ DownPipe(c) = DownPipe(d) => c = d
<1>1. \A p \in PathPipes : \E c \in Lone : p = UpPipe(c) \/ p = DownPipe(c)
  BY DEF PathPipes, UpPipe, DownPipe
<1>2. ASSUME NEW c \in Lone
      PROVE  /\ UpPipe(c) \in PathPipes /\ DownPipe(c) \in PathPipes
             /\ UpPipe(c)[1] = c /\ UpPipe(c)[2] = "up"
             /\ DownPipe(c)[1] = c /\ DownPipe(c)[2] = "down"
  BY DEF PathPipes, UpPipe, DownPipe
<1>3. PathPipes' = PathPipes
  BY DEF PathPipes, Lone, Alone
<1>4. ASSUME NEW p \in PathPipes
      PROVE  /\ PathWritten[p]
                  = IF p[2] = "up" THEN sent[p[1]] ELSE exitSent[p[1]]
             /\ PathReceived[p]
                  = IF p[2] = "up" THEN exitGot[p[1]] ELSE got[p[1]]
             /\ PathWritten'[p]
                  = IF p[2] = "up" THEN sent'[p[1]] ELSE exitSent'[p[1]]
             /\ PathReceived'[p]
                  = IF p[2] = "up" THEN exitGot'[p[1]] ELSE got'[p[1]]
  BY <1>3 DEF PathWritten, PathReceived
<1>5. ASSUME NEW c \in Lone
      PROVE  /\ PathWritten[UpPipe(c)] = sent[c]
             /\ PathWritten[DownPipe(c)] = exitSent[c]
             /\ PathReceived[UpPipe(c)] = exitGot[c]
             /\ PathReceived[DownPipe(c)] = got[c]
             /\ PathWritten'[UpPipe(c)] = sent'[c]
             /\ PathWritten'[DownPipe(c)] = exitSent'[c]
             /\ PathReceived'[UpPipe(c)] = exitGot'[c]
             /\ PathReceived'[DownPipe(c)] = got'[c]
  <2>1. PICK u \in PathPipes, d \in PathPipes :
          /\ u = UpPipe(c) /\ u[1] = c /\ u[2] = "up"
          /\ d = DownPipe(c) /\ d[1] = c /\ d[2] = "down"
    BY <1>2
  <2> QED BY <1>4, <2>1
<1>6. ASSUME NEW c \in Lone, NEW d \in Lone
      PROVE  /\ UpPipe(c) # DownPipe(d)
             /\ UpPipe(c) = UpPipe(d) => c = d
             /\ DownPipe(c) = DownPipe(d) => c = d
  BY DEF UpPipe, DownPipe
<1> QED BY <1>1, <1>2, <1>5, <1>6

LEMMA OneChanged ==
  ASSUME NEW S, NEW f, NEW g, f = [x \in S |-> f[x]], g = [x \in S |-> g[x]],
         NEW a \in S, NEW e, \A x \in S : g[x] = IF x = a THEN e ELSE f[x]
  PROVE  g = [f EXCEPT ![a] = e]
<1> DEFINE h == [f EXCEPT ![a] = e]
<1>1. h = [x \in S |-> h[x]] /\ \A x \in S : g[x] = h[x]
  OBVIOUS
<1> HIDE DEF h
<1>2. g = h
  BY <1>1
<1> QED BY <1>2 DEF h

LEMMA PathFunctions ==
  /\ PathWritten = [p \in PathPipes |-> PathWritten[p]]
  /\ PathReceived = [p \in PathPipes |-> PathReceived[p]]
  /\ PathWritten' = [p \in PathPipes |-> PathWritten'[p]]
  /\ PathReceived' = [p \in PathPipes |-> PathReceived'[p]]
<1>1. PathPipes' = PathPipes
  BY DEF PathPipes, Lone, Alone
<1> QED BY <1>1 DEF PathWritten, PathReceived

LEMMA PathStays ==
  /\ (\A c \in Lone : sent'[c] = sent[c] /\ exitSent'[c] = exitSent[c])
       => PathWritten' = PathWritten
  /\ (\A c \in Lone : exitGot'[c] = exitGot[c] /\ got'[c] = got[c])
       => PathReceived' = PathReceived
<1>1. ASSUME \A c \in Lone : sent'[c] = sent[c] /\ exitSent'[c] = exitSent[c]
      PROVE  PathWritten' = PathWritten
  <2>1. \A p \in PathPipes : PathWritten'[p] = PathWritten[p]
    BY <1>1, PathPipesAt
  <2> HIDE DEF PathWritten
  <2> QED BY <2>1, PathFunctions
<1>2. ASSUME \A c \in Lone : exitGot'[c] = exitGot[c] /\ got'[c] = got[c]
      PROVE  PathReceived' = PathReceived
  <2>1. \A p \in PathPipes : PathReceived'[p] = PathReceived[p]
    BY <1>2, PathPipesAt
  <2> QED BY <2>1, PathFunctions
<1> QED BY <1>1, <1>2

\* What is written into one pipe, or comes out of one.
LEMMA PathWrites ==
  ASSUME NEW c \in Lone, PathReceived' = PathReceived,
         \A d \in Lone : d # c => /\ sent'[d] = sent[d]
                                  /\ exitSent'[d] = exitSent[d],
         \/ sent'[c] = sent[c] + 1 /\ exitSent'[c] = exitSent[c]
         \/ exitSent'[c] = exitSent[c] + 1 /\ sent'[c] = sent[c]
  PROVE  Path!Next
<1>1. ASSUME NEW p \in PathPipes, NEW e, e = PathWritten[p] + 1,
             \A q \in PathPipes :
               PathWritten'[q] = IF q = p THEN e ELSE PathWritten[q]
      PROVE  Path!Next
  <2>1. PathWritten' = [PathWritten EXCEPT ![p] = e]
    BY <1>1, PathFunctions, OneChanged
  <2> QED BY <1>1, <2>1 DEF Path!Next, Path!Write, PathPipes, Lone,
    PathWritten, PathReceived
<1>2. CASE sent'[c] = sent[c] + 1 /\ exitSent'[c] = exitSent[c]
  <2>1. \A q \in PathPipes :
          PathWritten'[q] = IF q = UpPipe(c) THEN PathWritten[UpPipe(c)] + 1
                                             ELSE PathWritten[q]
    <3>1. ASSUME NEW q \in PathPipes
          PROVE  PathWritten'[q] = IF q = UpPipe(c)
                                   THEN PathWritten[UpPipe(c)] + 1
                                   ELSE PathWritten[q]
      <4>1. PICK d \in Lone : q = UpPipe(d) \/ q = DownPipe(d)
        BY PathPipesAt
      <4>2. CASE d = c
        BY <1>2, <4>1, <4>2, PathPipesAt
      <4>3. CASE d # c
        BY <4>1, <4>3, PathPipesAt
      <4> QED BY <4>2, <4>3
    <3> QED BY <3>1
  <2>2. UpPipe(c) \in PathPipes
    BY PathPipesAt
  <2> QED BY <1>1, <2>1, <2>2
<1>3. CASE exitSent'[c] = exitSent[c] + 1 /\ sent'[c] = sent[c]
  <2>1. \A q \in PathPipes :
          PathWritten'[q] = IF q = DownPipe(c)
                            THEN PathWritten[DownPipe(c)] + 1
                            ELSE PathWritten[q]
    <3>1. ASSUME NEW q \in PathPipes
          PROVE  PathWritten'[q] = IF q = DownPipe(c)
                                   THEN PathWritten[DownPipe(c)] + 1
                                   ELSE PathWritten[q]
      <4>1. PICK d \in Lone : q = UpPipe(d) \/ q = DownPipe(d)
        BY PathPipesAt
      <4>2. CASE d = c
        BY <1>3, <4>1, <4>2, PathPipesAt
      <4>3. CASE d # c
        BY <4>1, <4>3, PathPipesAt
      <4> QED BY <4>2, <4>3
    <3> QED BY <3>1
  <2>2. DownPipe(c) \in PathPipes
    BY PathPipesAt
  <2> QED BY <1>1, <2>1, <2>2
<1> QED BY <1>2, <1>3

LEMMA PathDelivers ==
  ASSUME NEW c \in Lone, PathWritten' = PathWritten,
         \A d \in Lone : d # c => /\ got'[d] = got[d]
                                  /\ exitGot'[d] = exitGot[d],
         \/ /\ exitGot'[c] = Append(exitGot[c], Len(exitGot[c]) + 1)
            /\ Len(exitGot[c]) < sent[c] /\ got'[c] = got[c]
         \/ /\ got'[c] = Append(got[c], Len(got[c]) + 1)
            /\ Len(got[c]) < exitSent[c] /\ exitGot'[c] = exitGot[c]
  PROVE  Path!Next
<1>1. ASSUME NEW p \in PathPipes, Len(PathReceived[p]) < PathWritten[p],
             NEW e, e = Append(PathReceived[p], Len(PathReceived[p]) + 1),
             \A q \in PathPipes :
               PathReceived'[q] = IF q = p THEN e ELSE PathReceived[q]
      PROVE  Path!Next
  <2>1. PathReceived' = [PathReceived EXCEPT ![p] = e]
    BY <1>1, PathFunctions, OneChanged
  <2> QED BY <1>1, <2>1 DEF Path!Next, Path!Deliver, PathPipes, Lone,
    PathWritten, PathReceived
<1>2. CASE /\ exitGot'[c] = Append(exitGot[c], Len(exitGot[c]) + 1)
           /\ Len(exitGot[c]) < sent[c] /\ got'[c] = got[c]
  <2> DEFINE e == Append(exitGot[c], Len(exitGot[c]) + 1)
  <2>1. ASSUME NEW q \in PathPipes
        PROVE  PathReceived'[q] = IF q = UpPipe(c) THEN e ELSE PathReceived[q]
    <3> HIDE DEF e
    <3>1. PICK d \in Lone : q = UpPipe(d) \/ q = DownPipe(d)
      BY PathPipesAt
    <3>2. exitGot'[c] = e
      BY <1>2 DEF e
    <3>3. CASE d = c
      BY <1>2, <3>1, <3>2, <3>3, PathPipesAt
    <3>4. CASE d # c
      BY <3>1, <3>4, PathPipesAt
    <3> QED BY <3>3, <3>4
  <2>2. /\ UpPipe(c) \in PathPipes /\ PathReceived[UpPipe(c)] = exitGot[c]
        /\ PathWritten[UpPipe(c)] = sent[c]
    BY PathPipesAt
  <2> QED BY <1>1, <1>2, <2>1, <2>2
<1>3. CASE /\ got'[c] = Append(got[c], Len(got[c]) + 1)
           /\ Len(got[c]) < exitSent[c] /\ exitGot'[c] = exitGot[c]
  <2> DEFINE e == Append(got[c], Len(got[c]) + 1)
  <2>1. ASSUME NEW q \in PathPipes
        PROVE  PathReceived'[q] = IF q = DownPipe(c) THEN e ELSE PathReceived[q]
    <3> HIDE DEF e
    <3>1. PICK d \in Lone : q = UpPipe(d) \/ q = DownPipe(d)
      BY PathPipesAt
    <3>2. got'[c] = e
      BY <1>3 DEF e
    <3>3. CASE d = c
      BY <1>3, <3>1, <3>2, <3>3, PathPipesAt
    <3>4. CASE d # c
      BY <3>1, <3>4, PathPipesAt
    <3> QED BY <3>3, <3>4
  <2>2. /\ DownPipe(c) \in PathPipes /\ PathReceived[DownPipe(c)] = got[c]
        /\ PathWritten[DownPipe(c)] = exitSent[c]
    BY PathPipesAt
  <2> QED BY <1>1, <1>3, <2>1, <2>2
<1> QED BY <1>2, <1>3

LEMMA PathMapped ==
  ASSUME RelayInv, EstInv, \A c \in Circuits : Alone(c) => CarriesInv(c),
         [Next]_vars
  PROVE  [Path!Next]_(Path!vars)
<1> DEFINE still == PathWritten' = PathWritten /\ PathReceived' = PathReceived
<1>1. /\ sent \in [Circuits -> Nat] /\ got \in [Circuits -> Seq(Nat)]
      /\ exitSent \in [Circuits -> Nat] /\ exitGot \in [Circuits -> Seq(Nat)]
      /\ Shapes /\ LockInv
  BY DEF RelayInv, Shapes, ClientShapes, ExitShapes
<1>2. \A c \in Lone :
        c \in Circuits /\ Alone(c) /\ CircuitInv(c) /\ CarriesInv(c)
  BY DEF Lone, EstInv
<1>3. ASSUME still PROVE UNCHANGED Path!vars
  BY <1>3 DEF Path!vars, PathWritten, PathReceived, PathPipes, Lone
<1>4. ASSUME UNCHANGED <<sent, got, exitSent, exitGot>> PROVE still
  BY <1>4, PathStays
<1>5. ASSUME NEW d \in Circuits, d \notin Lone,
             \/ Connect(d) \/ ConnectFails(d) \/ ClientStep(d) \/ SendData(d)
             \/ Release(d) \/ ExitSend(d) \/ StreamsEnd(d)
             \/ \E i \in Relays :
                  TaskStep(d, i) \/ ReaderStep(d, i) \/ LoseTail(d, i)
      PROVE  still
  <2>1. ASSUME NEW c \in Lone
        PROVE  /\ sent'[c] = sent[c] /\ got'[c] = got[c]
               /\ exitSent'[c] = exitSent[c] /\ exitGot'[c] = exitGot[c]
    BY <1>1, <1>2, <1>5, OthersCounts
  <2> QED BY <2>1, PathStays
<1>6. ASSUME NEW c \in Lone, SendData(c) PROVE Path!Next
  <2>1. /\ sent'[c] = sent[c] + 1 /\ UNCHANGED <<got, exitSent, exitGot>>
        /\ \A d \in Lone : d # c => sent'[d] = sent[d]
    BY <1>1, <1>2, <1>6 DEF SendData, exitVars
  <2>2. PathReceived' = PathReceived
    BY <2>1, PathStays
  <2> QED BY <2>1, <2>2, PathWrites
<1>7. ASSUME NEW c \in Lone, ExitSend(c) PROVE Path!Next
  <2>1. /\ exitSent'[c] = exitSent[c] + 1 /\ UNCHANGED <<sent, got, exitGot>>
        /\ \A d \in Lone : d # c => exitSent'[d] = exitSent[d]
    BY <1>1, <1>2, <1>7 DEF ExitSend, clientVars
  <2>2. PathReceived' = PathReceived
    BY <2>1, PathStays
  <2> QED BY <2>1, <2>2, PathWrites
<1>7a. ASSUME NEW c \in Lone, TagReply(c) PROVE Path!Next
  <2>1. /\ exitSent'[c] = exitSent[c] + 1 /\ UNCHANGED <<sent, got, exitGot>>
        /\ \A d \in Lone : d # c => exitSent'[d] = exitSent[d]
    BY <1>1, <1>2, <1>7a DEF TagReply, clientVars
  <2>2. PathReceived' = PathReceived
    BY <2>1, PathStays
  <2> QED BY <2>1, <2>2, PathWrites
<1>8. ASSUME NEW c \in Lone, ReadCell(c), ~UNCHANGED got PROVE Path!Next
  <2> DEFINE m == Head(up[c][1])
  <2>1. /\ client[c] = "ready" /\ up[c][1] # <<>> /\ Unwrap(m, c, Hops) = {}
        /\ got' = [got EXCEPT ![c] = Append(@, m.n)]
        /\ UNCHANGED <<sent, exitSent, exitGot>>
    BY <1>8 DEF ReadCell, exitVars
  <2>2. m.n = Len(got[c]) + 1 /\ Len(got[c]) < exitSent[c]
    BY <1>1, <1>2, <2>1, ReadsNext
  <2> HIDE DEF m
  <2>3. /\ got'[c] = Append(got[c], Len(got[c]) + 1)
        /\ \A d \in Lone : d # c => got'[d] = got[d]
    BY <1>1, <1>2, <2>1, <2>2
  <2>4. PathWritten' = PathWritten
    BY <2>1, PathStays
  <2> QED BY <2>1, <2>2, <2>3, <2>4, PathDelivers
<1>9. ASSUME NEW c \in Lone, HandleAtExit(c), ~UNCHANGED exitGot
      PROVE  Path!Next
  <2> DEFINE m == Head(down[c][Hops])
  <2>1. /\ Has(c, Hops, "DATA") /\ Peel(registry[Hops][Id(c)], Hops, m) = {}
        /\ exitGot' = [exitGot EXCEPT ![c] = Append(@, m.n)]
        /\ UNCHANGED <<sent, got, exitSent>>
    BY <1>9 DEF HandleAtExit, clientVars
  <2>2. m.n = Len(exitGot[c]) + 1 /\ Len(exitGot[c]) < sent[c]
    BY <1>1, <1>2, <2>1, ExitReadsNext
  <2> HIDE DEF m
  <2>3. /\ exitGot'[c] = Append(exitGot[c], Len(exitGot[c]) + 1)
        /\ \A d \in Lone : d # c => exitGot'[d] = exitGot[d]
    BY <1>1, <1>2, <2>1, <2>2
  <2>4. PathWritten' = PathWritten
    BY <2>1, PathStays
  <2> QED BY <2>1, <2>2, <2>3, <2>4, PathDelivers
<1>10. ASSUME NEW c \in Lone,
              \/ Connect(c) \/ ConnectFails(c) \/ ClientStep(c) \/ Release(c)
              \/ StreamsEnd(c),
              ~ReadCell(c) \/ UNCHANGED got
       PROVE  UNCHANGED <<sent, got, exitSent, exitGot>>
  BY <1>10 DEF Connect, ConnectFails, ClientStep, HandshakeAnswer, BuildFails,
    ReadCell, ReadEof, Release, StreamsEnd, clientVars, exitVars
<1>11. ASSUME NEW c \in Lone, NEW i \in Relays,
              TaskStep(c, i) \/ ReaderStep(c, i) \/ LoseTail(c, i),
              ~HandleAtExit(c) \/ UNCHANGED exitGot, ~TagReply(c)
       PROVE  UNCHANGED <<sent, got, exitSent, exitGot>>
  BY <1>11 DEF TaskStep, HandleCreate, AddCircuit, HandleExtend,
    ExtendDone, ExtendFails, HandleRelay, HandleAtExit, ConnEof, WriteReply,
    ReaderStep, Backward, EntryDestroy, ReaderEof, ReaderEnds, LoseTail, clientVars,
    exitVars
<1>12. ASSUME NEW r \in Relays, Die(r)
       PROVE  UNCHANGED <<sent, got, exitSent, exitGot>>
  BY <1>12 DEF Die, clientVars
<1>13. CASE UNCHANGED vars
  BY <1>3, <1>4, <1>13 DEF vars, clientVars, exitVars
<1>14. ASSUME NEW c \in Circuits,
              \/ Connect(c) \/ ConnectFails(c) \/ ClientStep(c) \/ SendData(c)
              \/ Release(c) \/ ExitSend(c) \/ StreamsEnd(c)
              \/ \E i \in Relays :
                   TaskStep(c, i) \/ ReaderStep(c, i) \/ LoseTail(c, i)
       PROVE  [Path!Next]_(Path!vars)
  <2>1. CASE c \notin Lone
    BY <1>3, <1>5, <1>14, <2>1
  <2>2. CASE c \in Lone
    BY <1>3, <1>4, <1>6, <1>7, <1>8, <1>9, <1>10, <1>11, <1>14, <1>7a,
       <2>2
  <2> QED BY <2>1, <2>2
<1> QED BY <1>3, <1>4, <1>12, <1>13, <1>14 DEF Next

\* A path through relays is the pipes CircuitStreams takes it for: whatever
\* dies, times out or other circuits do, what comes out at the exit and at
\* the client is what was sent, in order, with nothing left out in between,
\* twice or made up, for every circuit whose number is its own.
THEOREM PathsArePipes == Spec => ImplementsPath
<1>1. Init => Path!Init
  <2> SUFFICES ASSUME Init PROVE Path!Init
    OBVIOUS
  <2>1. \A c \in Lone : c \in Circuits
    BY DEF Lone
  <2>2. \A p \in PathPipes : p[1] \in Lone
    BY DEF PathPipes
  <2>3. \A p \in PathPipes : PathWritten[p] = 0 /\ PathReceived[p] = <<>>
    BY <2>1, <2>2 DEF Init, PathWritten, PathReceived
  <2> QED BY <2>3, PathFunctions DEF Path!Init, PathWritten, PathReceived,
    PathPipes, Lone
<1>2. /\ RelayInv /\ EstInv
      /\ (\A c \in Circuits : Alone(c) => CarriesInv(c))
      /\ [Next]_vars
      => [Path!Next]_(Path!vars)
  BY PathMapped
<1> QED BY <1>1, <1>2, RelayInvariant, EstInvariant, CarriesInvariant, PTL
  DEF Spec, ImplementsPath, Path!Spec
-----------------------------------------------------------------------------
(* A circuit never breaks by itself.                                       *)
(*                                                                         *)
(* The cells of a circuit are numbered on their way.  Forward: CREATE of   *)
(* hop 1, the EXTEND to each other hop, then DATA; backward: the answers   *)
(* to them, then DATA.  Hop i sees the cells from number i on, and one of  *)
(* them crosses connection i with the layers of the hops from i on.  So    *)
(* DownCells(c, i) and UpCells(c, i) say once and for all what cell comes  *)
(* as which, and a connection holds a stretch of them: from the first one  *)
(* its reader has not seen to the last one its writer has sent (Line).     *)
(* With nothing dead and no timeouts that is inductive, and a cell on its  *)
(* way is the very one its reader expects.                                 *)

Fwd(c, i) == registry[i][Id(c)].fwd
Bwd(c, i) == registry[i][Id(c)].bwd

LayersFrom(c, i, dir, o) ==
  {Block(c, j, dir, o - j - 1) : j \in i .. (IF o <= Hops THEN o - 1 ELSE Hops)}

Numbered(create, extend, c, i, dir, o) ==
  Cell(IF o = i THEN create ELSE IF o <= Hops THEN extend ELSE "DATA",
       IF o <= Hops THEN o ELSE o - Hops, LayersFrom(c, i, dir, o))

DownCells(c, i) ==
  [o \in Nat |-> Numbered("CREATE", "EXTEND", c, i, "f", o)]
UpCells(c, i) ==
  [o \in Nat |-> Numbered("CREATED", "EXTENDED", c, i, "b", o)]

\* The last cell the client has sent, and the last one it has taken.
Issued(c) ==
  IF client[c] = "idle" THEN 0
  ELSE (IF keys[c] < Hops THEN keys[c] + 1 ELSE Hops) + sent[c]
Absorbed(c) == keys[c] + Len(got[c])

\* The same of hop i, the client being hop 0.
Known(c, i, n) ==
  IF Mine(c, i) THEN i + n ELSE IF task[c][i] = "adding" THEN i ELSE i - 1
Heard(c, i) == IF i = 0 THEN Issued(c) ELSE Known(c, i, Fwd(c, i))
\* The cells the exit has written: all it has tagged but the END it owes.
Written(c) ==
  IF replying = c /\ tag \in 1 .. exitSent[c] THEN exitSent[c] - 1
                                            ELSE exitSent[c]
Said(c, i) ==
  IF i = 0 THEN Absorbed(c)
  ELSE Known(c, i, IF i = Hops THEN Written(c) ELSE Bwd(c, i))

Line(s, f, a, b) == a + Len(s) = b /\ \A p \in 1 .. Len(s) : s[p] = f[a + p]

\* The cells up to number n that the cipher of hop j has processed.
Seen(n, j) == IF n >= j THEN n - j ELSE 0

SteadyClient(c) ==
  /\ StaysUp(c)
  /\ client[c] = "idle" <=> task[c][1] = "none"
  /\ client[c] = "ready" <=> keys[c] = Hops
  /\ client[c] = "idle" => keys[c] = 0
  /\ client[c] # "ready" => sent[c] = 0 /\ got[c] = <<>>
  /\ \A j \in Relays : /\ cfwd[c][j] = Seen(Issued(c), j)
                       /\ cbwd[c][j] = Seen(Absorbed(c), j)

SteadyTask(c, i) ==
  /\ task[c][i] \in {"none", "open", "adding"}
  /\ Mine(c, i) => task[c][i] = "open"

\* A hop that has seen a second cell has begun to extend, one that has passed
\* on a second answer has a next hop and reads from it.
SteadyNext(c, i) ==
  /\ task[c][i + 1] # "none" <=> Mine(c, i) /\ Fwd(c, i) >= 1
  /\ reader[c][i] = IF Mine(c, i) /\ Bwd(c, i) >= 1 THEN "running" ELSE "none"
  /\ Mine(c, i) => (HasNext(c, i) <=> Bwd(c, i) >= 1)
  /\ Mine(c, i) /\ Bwd(c, i) >= 1 => Fwd(c, i) >= 1
  /\ extending[i] = c <=> Mine(c, i) /\ Fwd(c, i) >= 1 /\ Bwd(c, i) = 0

SteadyExit(c) ==
  /\ reader[c][Hops] = "none" /\ extending[Hops] # c
  /\ c \in serving => Mine(c, Hops)
  /\ ~Mine(c, Hops) => exitSent[c] = 0 /\ replying # c
  /\ replying = c => tag = 0 \/ tag = exitSent[c]

SteadyDown(c, i) ==
  IF task[c][i] = "none" THEN down[c][i] = <<>>
  ELSE Line(down[c][i], DownCells(c, i), Heard(c, i), Heard(c, i - 1))
SteadyUp(c, i) ==
  IF task[c][i] = "none" THEN up[c][i] = <<>>
  ELSE Line(up[c][i], UpCells(c, i), Said(c, i - 1), Said(c, i))

Steady(c) ==
  /\ SteadyClient(c) /\ SteadyExit(c)
  /\ \A i \in Relays : /\ SteadyTask(c, i) /\ (i < Hops => SteadyNext(c, i))
                       /\ SteadyDown(c, i) /\ SteadyUp(c, i)

Calm == alive = Relays /\ ~Timeouts

LEMMA LineMoves ==
  ASSUME NEW S, NEW s \in Seq(S), NEW f, NEW a \in Nat, NEW b \in Nat,
         Line(s, f, a, b)
  PROVE  /\ s # <<>> => /\ Head(s) = f[a + 1] /\ a < b
                        /\ Line(Tail(s), f, a + 1, b)
         /\ Line(Append(s, f[b + 1]), f, a, b + 1)
<1>1. /\ Len(s) \in Nat /\ a + Len(s) = b
      /\ \A p \in 1 .. Len(s) : s[p] = f[a + p]
  BY DEF Line
<1>2. ASSUME s # <<>>
      PROVE  Head(s) = f[a + 1] /\ a < b /\ Line(Tail(s), f, a + 1, b)
  <2>1. /\ Head(s) = s[1] /\ Len(s) >= 1 /\ Len(Tail(s)) = Len(s) - 1
        /\ \A p \in 1 .. Len(s) - 1 : Tail(s)[p] = s[p + 1]
    BY <1>2
  <2>2. \A p \in 1 .. Len(s) - 1 : s[p + 1] = f[a + 1 + p]
    <3> SUFFICES ASSUME NEW p \in 1 .. Len(s) - 1
                 PROVE  s[p + 1] = f[a + 1 + p]
      OBVIOUS
    <3>1. p + 1 \in 1 .. Len(s) /\ a + (p + 1) = a + 1 + p
      BY <1>1
    <3> QED BY <1>1, <3>1
  <2>3. Line(Tail(s), f, a + 1, b)
    <3>1. a + 1 + Len(Tail(s)) = b
      <4>1. Len(s) \in Nat /\ a + Len(s) = b
        BY <1>1
      <4>2. Len(Tail(s)) = Len(s) - 1
        BY <2>1
      <4> QED BY <1>2, <4>1, <4>2
    <3>2. \A p \in 1 .. Len(Tail(s)) : Tail(s)[p] = f[a + 1 + p]
      BY <2>1, <2>2
    <3> QED BY <3>1, <3>2 DEF Line
  <2> QED BY <1>1, <2>1, <2>3
<1>3. Line(Append(s, f[b + 1]), f, a, b + 1)
  <2> DEFINE e == f[b + 1]
  <2> HIDE DEF e
  <2>1. /\ Len(Append(s, e)) = Len(s) + 1
        /\ \A p \in 1 .. Len(s) : Append(s, e)[p] = s[p]
        /\ Append(s, e)[Len(s) + 1] = e
    OBVIOUS
  <2>2. ASSUME NEW p \in 1 .. Len(s) + 1 PROVE Append(s, e)[p] = f[a + p]
    <3>1. CASE p = Len(s) + 1
      BY <1>1, <2>1, <3>1 DEF e
    <3>2. CASE p # Len(s) + 1
      BY <1>1, <2>1, <3>2
    <3> QED BY <3>1, <3>2
  <2> QED BY <1>1, <2>1, <2>2 DEF Line, e
<1> QED BY <1>2, <1>3

\* The layers of a cell, hop by hop.
LEMMA LayersPeel ==
  ASSUME NEW c, NEW i \in Relays, NEW dir, NEW o \in Nat
  PROVE  /\ LayersFrom(c, i, dir, i) = {}
         /\ i < Hops => LayersFrom(c, i, dir, i + 1) = {Block(c, i, dir, 0)}
         /\ i < Hops /\ o >= i + 1 =>
              /\ LayersFrom(c, i, dir, o)
                   = LayersFrom(c, i + 1, dir, o)
                       \union {Block(c, i, dir, o - i - 1)}
              /\ Block(c, i, dir, o - i - 1) \notin LayersFrom(c, i + 1, dir, o)
<1>1. i \in Nat /\ 1 <= i /\ i <= Hops /\ Hops \in Nat
  BY HopsFacts DEF Relays
<1>2. LayersFrom(c, i, dir, i) = {}
  <2>1. i .. i - 1 = {}
    BY <1>1
  <2> QED BY <1>1, <2>1 DEF LayersFrom
<1>3. ASSUME i < Hops
      PROVE  LayersFrom(c, i, dir, i + 1) = {Block(c, i, dir, 0)}
  <2>1. i + 1 <= Hops /\ i .. (i + 1) - 1 = {i} /\ (i + 1) - i - 1 = 0
    BY <1>1, <1>3
  <2> QED BY <2>1 DEF LayersFrom
<1>4. ASSUME i < Hops, o >= i + 1
      PROVE  /\ LayersFrom(c, i, dir, o)
                  = LayersFrom(c, i + 1, dir, o)
                      \union {Block(c, i, dir, o - i - 1)}
             /\ Block(c, i, dir, o - i - 1) \notin LayersFrom(c, i + 1, dir, o)
  <2> DEFINE top == IF o <= Hops THEN o - 1 ELSE Hops
  <2>1. top \in Nat /\ top >= i
    BY <1>1, <1>4
  <2>2. /\ LayersFrom(c, i, dir, o)
             = {Block(c, j, dir, o - j - 1) : j \in i .. top}
        /\ LayersFrom(c, i + 1, dir, o)
             = {Block(c, j, dir, o - j - 1) : j \in i + 1 .. top}
    BY DEF LayersFrom
  <2> HIDE DEF top
  <2>3. i .. top = (i + 1 .. top) \union {i} /\ i \notin i + 1 .. top
    BY <1>1, <2>1
  <2>4. \A j, m, n : Block(c, j, dir, m) = Block(c, i, dir, n) => j = i
    BY DEF Block
  <2> QED BY <2>2, <2>3, <2>4
<1> QED BY <1>2, <1>3, <1>4

LEMMA ExitLayer ==
  ASSUME NEW c, NEW dir, NEW n \in Nat, NEW o, o = Hops + n + 1
  PROVE  LayersFrom(c, Hops, dir, o) = {Block(c, Hops, dir, n)}
<1>1. ~(o <= Hops) /\ Hops .. Hops = {Hops} /\ o - Hops - 1 = n
  BY HopsFacts
<1> QED BY <1>1 DEF LayersFrom

\* The layers the client puts on and takes off, for the cell after number n.
LEMMA ClientLayers ==
  ASSUME NEW c, NEW n \in Nat, NEW k \in Nat,
         k = IF n < Hops THEN n ELSE Hops
  PROVE  /\ (\A j \in Relays : cfwd[c][j] = Seen(n, j)) =>
              ForwardLayers(c, k) = LayersFrom(c, 1, "f", n + 1)
         /\ (\A j \in Relays : cbwd[c][j] = Seen(n, j)) =>
              BackwardLayers(c, k) = LayersFrom(c, 1, "b", n + 1)
<1>1. /\ k = IF n + 1 <= Hops THEN n + 1 - 1 ELSE Hops
      /\ \A j \in 1 .. k : j \in Relays /\ Seen(n, j) = n + 1 - j - 1
  BY HopsFacts DEF Relays, Seen
<1>2. ASSUME NEW f, NEW dir, \A j \in Relays : f[c][j] = Seen(n, j)
      PROVE  {Block(c, j, dir, f[c][j]) : j \in 1 .. k}
               = LayersFrom(c, 1, dir, n + 1)
  <2>1. \A j \in 1 .. k : f[c][j] = n + 1 - j - 1
    BY <1>1, <1>2
  <2>2. LayersFrom(c, 1, dir, n + 1)
          = {Block(c, j, dir, n + 1 - j - 1) : j \in 1 .. k}
    BY <1>1 DEF LayersFrom
  <2> HIDE <1>1
  <2> QED BY <2>1, <2>2
<1> QED BY <1>2 DEF ForwardLayers, BackwardLayers

\* A cell more.
LEMMA SeenNext ==
  ASSUME NEW f \in Counts, NEW c \in Circuits, NEW n \in Nat, NEW k \in Nat,
         k = IF n < Hops THEN n ELSE Hops,
         \A j \in Relays : f[c][j] = Seen(n, j)
  PROVE  \A j \in Relays : Advance(f, c, k)[c][j] = Seen(n + 1, j)
<1>1. \A j \in Relays : Advance(f, c, k)[c][j]
                          = IF j <= k THEN f[c][j] + 1 ELSE f[c][j]
  BY DEF Advance, Counts
<1>2. \A j \in Relays : Seen(n + 1, j)
                          = IF j <= k THEN Seen(n, j) + 1 ELSE Seen(n, j)
  BY HopsFacts DEF Seen, Relays
<1> QED BY <1>1, <1>2
-----------------------------------------------------------------------------
(* What holds in a steady circuit.                                         *)

LEMMA SteadyNumbers ==
  ASSUME Shapes, NEW c \in Circuits
  PROVE  /\ Issued(c) \in Nat /\ Absorbed(c) \in Nat
         /\ sent[c] \in Nat /\ exitSent[c] \in Nat /\ keys[c] \in 0 .. Hops
         /\ Len(got[c]) \in Nat /\ Written(c) \in Nat
         /\ Heard(c, 0) = Issued(c) /\ Said(c, 0) = Absorbed(c)
         /\ \A i \in Relays :
              /\ Fwd(c, i) \in Nat /\ Bwd(c, i) \in Nat
              /\ Heard(c, i) \in Nat /\ Said(c, i) \in Nat
              /\ Heard(c, i - 1) \in Nat /\ Said(c, i - 1) \in Nat
<1>1. /\ sent[c] \in Nat /\ exitSent[c] \in Nat /\ keys[c] \in 0 .. Hops
      /\ got[c] \in Seq(Nat)
  BY DEF Shapes, ClientShapes, ExitShapes
<1>2. Len(got[c]) \in Nat /\ Written(c) \in Nat
  <2>1. 1 .. exitSent[c] # {} => exitSent[c] - 1 \in Nat
    BY <1>1
  <2> QED BY <1>1, <2>1 DEF Written
<1>3. Issued(c) \in Nat /\ Absorbed(c) \in Nat
  <2>1. /\ keys[c] \in Nat /\ keys[c] + 1 \in Nat
        /\ keys[c] + Len(got[c]) \in Nat
    BY <1>1, <1>2, HopsFacts
  <2>2. (IF keys[c] < Hops THEN keys[c] + 1 ELSE Hops) \in Nat
    BY <2>1, HopsFacts
  <2>3. (IF keys[c] < Hops THEN keys[c] + 1 ELSE Hops) + sent[c] \in Nat
    BY <1>1, <2>2
  <2> QED BY <2>1, <2>3 DEF Issued, Absorbed
<1>4. ASSUME NEW i \in Relays PROVE Fwd(c, i) \in Nat /\ Bwd(c, i) \in Nat
  <2>1. registry[i][Id(c)] \in HandlerType
    BY HandlersTyped DEF Shapes
  <2> QED BY <2>1 DEF Fwd, Bwd, HandlerType
<1>5. ASSUME NEW i \in Relays PROVE Heard(c, i) \in Nat /\ Said(c, i) \in Nat
  <2>1. i \in Nat /\ i # 0 /\ i - 1 \in Nat
    BY DEF Relays
  <2> QED BY <1>2, <1>4, <2>1 DEF Heard, Said, Known
<1>6. Heard(c, 0) = Issued(c) /\ Said(c, 0) = Absorbed(c)
  BY DEF Heard, Said
<1>7. ASSUME NEW i \in Relays
      PROVE  Heard(c, i - 1) \in Nat /\ Said(c, i - 1) \in Nat
  <2>1. CASE i = 1
    BY <1>3, <1>6, <2>1
  <2>2. CASE i # 1
    <3>1. i - 1 \in Relays
      BY <2>2, HopsFacts DEF Relays
    <3> QED BY <1>5, <3>1
  <2> QED BY <2>1, <2>2
<1> QED BY <1>1, <1>2, <1>3, <1>4, <1>5, <1>6, <1>7

\* The ends of a connection in use.
LEMMA SteadyEnds ==
  ASSUME Calm, Shapes, NEW c \in Circuits, Steady(c), NEW i \in Relays
  PROVE  /\ ~DownstreamGone(c, i)
         /\ task[c][i] # "none" => /\ ReadsDown(c, i) /\ ReadsUp(c, i)
                                   /\ ~UpstreamGone(c, i)
<1>1. i \in alive
  BY DEF Calm
<1>2. ~DownstreamGone(c, i)
  <2>1. task[c][i] # "ended"
    BY DEF Steady, SteadyTask
  <2>2. reader[c][i] # "ended"
    <3>1. CASE i = Hops
      BY <3>1 DEF Steady, SteadyExit
    <3>2. CASE i # Hops
      <4>1. i < Hops
        BY <3>2, HopsFacts DEF Relays
      <4> QED BY <4>1 DEF Steady, SteadyNext
    <3> QED BY <3>1, <3>2
  <2> QED BY <1>1, <2>1, <2>2 DEF DownstreamGone
<1>3. ASSUME task[c][i] # "none"
      PROVE  ReadsDown(c, i) /\ ReadsUp(c, i) /\ ~UpstreamGone(c, i)
  <2>1. ReadsDown(c, i)
    BY <1>1, <1>3 DEF Steady, SteadyTask, ReadsDown
  <2>2. CASE i = 1
    <3>1. client[c] \in {"building", "ready"}
      BY <1>3, <2>2 DEF Steady, SteadyClient, StaysUp
    <3> QED BY <2>1, <2>2, <3>1 DEF ReadsUp, UpstreamGone
  <2>3. CASE i # 1
    <3>1. PICK j \in Relays : j = i - 1 /\ j < Hops /\ j + 1 = i
      BY <2>3, HopsFacts DEF Relays
    <3>2. /\ Mine(c, j) /\ Fwd(c, j) >= 1 /\ Bwd(c, j) \in Nat
          /\ SteadyNext(c, j) /\ j \in alive
      BY <1>3, <3>1, SteadyNumbers DEF Calm, Steady, SteadyNext
    <3>3. CASE Bwd(c, j) >= 1
      <4>1. reader[c][j] = "running" /\ HasNext(c, j)
        BY <3>2, <3>3 DEF SteadyNext
      <4> QED BY <2>1, <2>3, <3>1, <3>2, <4>1 DEF ReadsUp, UpstreamGone
    <3>4. CASE ~(Bwd(c, j) >= 1)
      <4>1. extending[j] = c
        BY <3>2, <3>4 DEF SteadyNext
      <4> QED BY <2>1, <2>3, <3>1, <3>2, <4>1 DEF ReadsUp, UpstreamGone
    <3> QED BY <3>3, <3>4
  <2> QED BY <2>2, <2>3
<1> QED BY <1>2, <1>3

\* Who has not added the circuit yet.
LEMMA SteadyNew ==
  ASSUME Shapes, NEW c \in Circuits, Steady(c), NEW i \in Relays, ~Mine(c, i)
  PROVE  /\ Heard(c, i) = IF task[c][i] = "adding" THEN i ELSE i - 1
         /\ Said(c, i) = IF task[c][i] = "adding" THEN i ELSE i - 1
         /\ i < Hops => /\ task[c][i + 1] = "none" /\ reader[c][i] = "none"
                        /\ extending[i] # c
         /\ i = Hops => /\ c \notin serving /\ exitSent[c] = 0
                        /\ replying # c
<1>1. i # 0
  BY DEF Relays
<1> QED BY <1>1 DEF Heard, Said, Known, Steady, SteadyNext, SteadyExit

LEMMA SteadyMine ==
  ASSUME NEW c \in Circuits, NEW i \in Relays, Mine(c, i)
  PROVE  /\ Heard(c, i) = i + Fwd(c, i)
         /\ i < Hops => Said(c, i) = i + Bwd(c, i)
         /\ i = Hops => Said(c, i) = i + Written(c)
<1>1. i # 0 /\ (i < Hops => i # Hops)
  BY HopsFacts DEF Relays
<1> QED BY <1>1 DEF Heard, Said, Known

\* A cell on its way is the one its reader expects.
LEMMA SteadyHead ==
  ASSUME Shapes, NEW c \in Circuits, Steady(c), NEW i \in Relays
  PROVE  /\ down[c][i] # <<>> =>
              /\ task[c][i] # "none"
              /\ Head(down[c][i]) = Numbered("CREATE", "EXTEND", c, i, "f",
                                             Heard(c, i) + 1)
         /\ up[c][i] # <<>> =>
              /\ task[c][i] # "none" /\ Said(c, i - 1) < Said(c, i)
              /\ Head(up[c][i]) = Numbered("CREATED", "EXTENDED", c, i, "b",
                                           Said(c, i - 1) + 1)
<1>1. /\ down[c][i] \in Seq(CellType) /\ up[c][i] \in Seq(CellType)
      /\ Heard(c, i) \in Nat /\ Said(c, i) \in Nat
      /\ Heard(c, i - 1) \in Nat /\ Said(c, i - 1) \in Nat
  BY SteadyNumbers DEF Shapes, WireShapes, Wires
<1>2. SteadyDown(c, i) /\ SteadyUp(c, i)
  BY DEF Steady
<1>3. ASSUME down[c][i] # <<>>
      PROVE  /\ task[c][i] # "none"
             /\ Head(down[c][i]) = DownCells(c, i)[Heard(c, i) + 1]
  <2>1. /\ task[c][i] # "none"
        /\ Line(down[c][i], DownCells(c, i), Heard(c, i), Heard(c, i - 1))
    BY <1>2, <1>3 DEF SteadyDown
  <2> QED BY <1>1, <1>3, <2>1, LineMoves
<1>4. ASSUME up[c][i] # <<>>
      PROVE  /\ task[c][i] # "none" /\ Said(c, i - 1) < Said(c, i)
             /\ Head(up[c][i]) = UpCells(c, i)[Said(c, i - 1) + 1]
  <2>1. /\ task[c][i] # "none"
        /\ Line(up[c][i], UpCells(c, i), Said(c, i - 1), Said(c, i))
    BY <1>2, <1>4 DEF SteadyUp
  <2>2. PICK a \in Nat, b \in Nat : a = Said(c, i - 1) /\ b = Said(c, i)
    BY <1>1
  <2>3. PICK s \in Seq(CellType) : s = up[c][i]
    BY <1>1
  <2>4. PICK f : f = UpCells(c, i)
    OBVIOUS
  <2>5. Line(s, f, a, b) /\ s # <<>>
    BY <1>4, <2>1, <2>2, <2>3, <2>4
  <2>6. Head(s) = f[a + 1] /\ a < b
    BY <2>5, LineMoves
  <2> QED BY <2>1, <2>2, <2>3, <2>4, <2>6
<1>5. Heard(c, i) + 1 \in Nat /\ Said(c, i - 1) + 1 \in Nat
  BY <1>1
<1> QED BY <1>3, <1>4, <1>5 DEF DownCells, UpCells

\* What a number says of a cell.
LEMMA NumberedFields ==
  ASSUME NEW create, NEW extend, NEW c, NEW i, NEW dir, NEW o
  PROVE  LET m == Numbered(create, extend, c, i, dir, o)
         IN /\ m.cmd = IF o = i THEN create
                       ELSE IF o <= Hops THEN extend ELSE "DATA"
            /\ m.n = IF o <= Hops THEN o ELSE o - Hops
            /\ m.layers = LayersFrom(c, i, dir, o)
            /\ \A layers : [m EXCEPT !.layers = layers]
                             = Cell(m.cmd, m.n, layers)
BY DEF Numbered, Cell

\* A task that reads has CREATE before it exactly if it has not added the
\* circuit.
LEMMA SteadyReads ==
  ASSUME Shapes, NEW c \in Circuits, Steady(c), NEW i \in Relays, NEW cmd,
         Has(c, i, cmd)
  PROVE  /\ cmd = "CREATE" <=> ~Mine(c, i)
         /\ cmd = "EXTEND" =>
              Mine(c, i) /\ i + Fwd(c, i) + 1 <= Hops
         /\ cmd = "DATA" =>
              Mine(c, i) /\ i + Fwd(c, i) + 1 > Hops
         /\ Mine(c, i) => Head(down[c][i]) = Numbered("CREATE", "EXTEND", c, i,
                                               "f", i + Fwd(c, i) + 1)
<1> DEFINE o == Heard(c, i) + 1
<1>1. /\ task[c][i] = "open" /\ Head(down[c][i]).cmd = cmd
      /\ Head(down[c][i]) = Numbered("CREATE", "EXTEND", c, i, "f", o)
  BY SteadyHead DEF Has
<1>2. /\ i \in Nat /\ i <= Hops /\ Hops \in Nat /\ Fwd(c, i) \in Nat
  BY SteadyNumbers, HopsFacts DEF Relays
<1>3. cmd = IF o = i THEN "CREATE" ELSE IF o <= Hops THEN "EXTEND" ELSE "DATA"
  BY <1>1, NumberedFields
<1>4. Mine(c, i) => o = i + Fwd(c, i) + 1
  BY SteadyMine
<1>5. ~Mine(c, i) => o = i
  BY <1>1, <1>2, SteadyNew
<1> HIDE DEF o
<1>6. Mine(c, i) => o # i
  BY <1>2, <1>4
<1>7. /\ cmd = "CREATE" => ~Mine(c, i)
      /\ ~Mine(c, i) => cmd = "CREATE"
  BY <1>3, <1>5, <1>6
<1>8. /\ cmd = "EXTEND" => Mine(c, i) /\ o <= Hops
      /\ cmd = "DATA" => Mine(c, i) /\ ~(o <= Hops)
  BY <1>3, <1>5
<1>9. /\ cmd = "EXTEND" => Mine(c, i) /\ i + Fwd(c, i) + 1 <= Hops
      /\ cmd = "DATA" => Mine(c, i) /\ i + Fwd(c, i) + 1 > Hops
  BY <1>2, <1>4, <1>8
<1> QED BY <1>1, <1>4, <1>7, <1>9
-----------------------------------------------------------------------------
(* Steps, hop by hop.                                                      *)

HopStill(c, i) ==
  /\ Mine(c, i)' = Mine(c, i) /\ HasNext(c, i)' = HasNext(c, i)
  /\ Fwd(c, i)' = Fwd(c, i) /\ Bwd(c, i)' = Bwd(c, i)
  /\ reader'[c][i] = reader[c][i]
  /\ extending'[i] = c <=> extending[i] = c

ClientStill(c) ==
  /\ client'[c] = client[c] /\ keys'[c] = keys[c]
  /\ cfwd'[c] = cfwd[c] /\ cbwd'[c] = cbwd[c]
  /\ sent'[c] = sent[c] /\ got'[c] = got[c]

ExitStill(c) ==
  /\ exitSent'[c] = exitSent[c] /\ (c \in serving' => c \in serving)
  /\ replying' = c <=> replying = c
  /\ replying = c => tag' = tag

\* A step of hop i, the client being hop 0: it changes the state of that hop
\* alone, and may start the connection task of the next one.
Local(c, i) ==
  /\ i # 0 => ClientStill(c)
  /\ i # Hops => ExitStill(c)
  /\ \A j \in Relays : j # i => HopStill(c, j)
  /\ \A j \in Relays :
       \/ task'[c][j] = task[c][j]
       \/ j = i /\ task[c][j] # "none" /\ task'[c][j] # "none"
       \/ j = i + 1 /\ task[c][j] = "none" /\ task'[c][j] = "open"

LEMMA LocalNumbers ==
  ASSUME NEW c \in Circuits, NEW i \in 0 .. Hops, Local(c, i), Steady(c),
         NEW j \in 0 .. Hops, j # i
  PROVE  Heard(c, j)' = Heard(c, j) /\ Said(c, j)' = Said(c, j)
<1>1. CASE j = 0
  <2>1. ClientStill(c)
    BY <1>1 DEF Local
  <2> QED BY <1>1, <2>1
      DEF ClientStill, Heard, Said, Issued, Absorbed
<1>2. CASE j # 0
  <2>1. j \in Relays
    BY <1>2, HopsFacts DEF Relays
  <2>2. HopStill(c, j)
    BY <2>1 DEF Local
  <2>3. task'[c][j] = "adding" <=> task[c][j] = "adding"
    BY <2>1 DEF Local
  <2>4. j = Hops => Written(c)' = Written(c)
    BY DEF Local, ExitStill, Written
  <2> QED BY <1>2, <2>2, <2>3, <2>4 DEF HopStill, Heard, Said, Known
<1> QED BY <1>1, <1>2

LEMMA LocalTasks ==
  ASSUME NEW c \in Circuits, NEW i \in 0 .. Hops, Local(c, i),
         NEW j \in Relays, j # i + 1
  PROVE  task'[c][j] = "none" <=> task[c][j] = "none"
BY DEF Local

\* Elsewhere nothing changes.
LEMMA LocalKeeps ==
  ASSUME Shapes, NEW c \in Circuits, NEW i \in 0 .. Hops, Local(c, i), Steady(c)
  PROVE  /\ i # 0 => SteadyClient(c)'
         /\ i # Hops => SteadyExit(c)'
         /\ \A j \in Relays : j # i =>
              SteadyTask(c, j)' /\ (j < Hops => SteadyNext(c, j)')
         /\ \A j \in Relays : j # i /\ j # i + 1 =>
              /\ down'[c][j] = down[c][j] => SteadyDown(c, j)'
              /\ up'[c][j] = up[c][j] => SteadyUp(c, j)'
<1>1. ASSUME i # 0 PROVE SteadyClient(c)'
  <2>1. task'[c][1] = "none" <=> task[c][1] = "none"
    <3>1. 1 # i + 1
      BY <1>1
    <3> QED BY <3>1, LocalTasks, HopsFacts
  <2>2. ClientStill(c) /\ SteadyClient(c)
    BY <1>1 DEF Local, Steady
  <2>3. Issued(c)' = Issued(c) /\ Absorbed(c)' = Absorbed(c)
    BY <2>2 DEF Issued, Absorbed, ClientStill
  <2> QED BY <2>1, <2>2, <2>3 DEF ClientStill, SteadyClient, StaysUp
<1>2. ASSUME i # Hops PROVE SteadyExit(c)'
  <2>1. HopStill(c, Hops) /\ ExitStill(c)
    BY <1>2, HopsFacts DEF Local
  <2> QED BY <2>1 DEF Steady, SteadyExit, HopStill, ExitStill
<1>3. ASSUME NEW j \in Relays, j # i PROVE SteadyTask(c, j)'
  <2>1. HopStill(c, j) /\ SteadyTask(c, j)
    BY <1>3 DEF Local, Steady
  <2>2. \/ task'[c][j] = task[c][j]
        \/ task[c][j] = "none" /\ task'[c][j] = "open"
    BY <1>3 DEF Local
  <2> QED BY <2>1, <2>2 DEF SteadyTask, HopStill
<1>4. ASSUME NEW j \in Relays, j # i, j < Hops PROVE SteadyNext(c, j)'
  <2>1. HopStill(c, j) /\ SteadyNext(c, j)
    BY <1>4 DEF Local, Steady
  <2>2. task'[c][j + 1] = "none" <=> task[c][j + 1] = "none"
    <3>1. j + 1 \in Relays /\ j + 1 # i + 1
      BY <1>4, HopsFacts
    <3> QED BY <3>1, LocalTasks
  <2> QED BY <2>1, <2>2 DEF SteadyNext, HopStill
<1>5. ASSUME NEW j \in Relays, j # i, j # i + 1
      PROVE  /\ down'[c][j] = down[c][j] => SteadyDown(c, j)'
             /\ up'[c][j] = up[c][j] => SteadyUp(c, j)'
  <2>1. PICK k \in 0 .. Hops : k = j - 1 /\ k # i
    BY <1>5, HopsFacts DEF Relays
  <2>2. j \in 0 .. Hops
    BY HopsFacts DEF Relays
  <2>3. /\ Heard(c, j)' = Heard(c, j) /\ Said(c, j)' = Said(c, j)
        /\ Heard(c, k)' = Heard(c, k) /\ Said(c, k)' = Said(c, k)
    BY <1>5, <2>1, <2>2, LocalNumbers
  <2>4. task'[c][j] = "none" <=> task[c][j] = "none"
    BY <1>5, LocalTasks
  <2>5. SteadyDown(c, j) /\ SteadyUp(c, j)
    BY DEF Steady
  <2> QED BY <2>1, <2>3, <2>4, <2>5 DEF SteadyDown, SteadyUp
<1> QED BY <1>1, <1>2, <1>3, <1>4, <1>5

\* A connection on which a cell is taken or put, or neither.
LEMMA DownMoves ==
  ASSUME Shapes, NEW c \in Circuits, NEW i \in Relays, SteadyDown(c, i),
         task[c][i] # "none", task'[c][i] # "none"
  PROVE  /\ /\ down[c][i] # <<>> /\ down'[c][i] = Tail(down[c][i])
            /\ Heard(c, i)' = Heard(c, i) + 1
            /\ Heard(c, i - 1)' = Heard(c, i - 1)
            => SteadyDown(c, i)'
         /\ /\ down'[c][i] = Append(down[c][i], Numbered("CREATE", "EXTEND",
                               c, i, "f", Heard(c, i - 1) + 1))
            /\ Heard(c, i)' = Heard(c, i)
            /\ Heard(c, i - 1)' = Heard(c, i - 1) + 1
            => SteadyDown(c, i)'
         /\ /\ down'[c][i] = down[c][i]
            /\ Heard(c, i)' = Heard(c, i)
            /\ Heard(c, i - 1)' = Heard(c, i - 1)
            => SteadyDown(c, i)'
<1>f. PICK f : f = DownCells(c, i)
  OBVIOUS
<1>1. PICK a \in Nat, b \in Nat, s \in Seq(CellType) :
        a = Heard(c, i) /\ b = Heard(c, i - 1) /\ s = down[c][i]
  BY SteadyNumbers DEF Shapes, WireShapes, Wires
<1>2. Line(s, f, a, b)
  BY <1>1, <1>f DEF SteadyDown
<1>3. /\ s # <<>> => Line(Tail(s), f, a + 1, b)
      /\ Line(Append(s, f[b + 1]), f, a, b + 1)
  BY <1>2, LineMoves
<1>4. f[b + 1] = Numbered("CREATE", "EXTEND", c, i, "f", Heard(c, i - 1) + 1)
  BY <1>1, <1>f DEF DownCells
<1>5. f = DownCells(c, i)'
  BY <1>1, <1>f DEF DownCells, Numbered, Cell, LayersFrom, Block
<1>6. ASSUME NEW s2, NEW a2, NEW b2, Line(s2, f, a2, b2),
             down'[c][i] = s2, Heard(c, i)' = a2, Heard(c, i - 1)' = b2
      PROVE  SteadyDown(c, i)'
  BY <1>5, <1>6 DEF SteadyDown
<1> QED BY <1>1, <1>2, <1>3, <1>4, <1>6

LEMMA UpMoves ==
  ASSUME Shapes, NEW c \in Circuits, NEW i \in Relays, SteadyUp(c, i),
         task[c][i] # "none", task'[c][i] # "none"
  PROVE  /\ /\ up[c][i] # <<>> /\ up'[c][i] = Tail(up[c][i])
            /\ Said(c, i - 1)' = Said(c, i - 1) + 1
            /\ Said(c, i)' = Said(c, i)
            => SteadyUp(c, i)'
         /\ /\ up'[c][i] = Append(up[c][i], Numbered("CREATED", "EXTENDED",
                             c, i, "b", Said(c, i) + 1))
            /\ Said(c, i - 1)' = Said(c, i - 1)
            /\ Said(c, i)' = Said(c, i) + 1
            => SteadyUp(c, i)'
         /\ /\ up'[c][i] = up[c][i]
            /\ Said(c, i)' = Said(c, i)
            /\ Said(c, i - 1)' = Said(c, i - 1)
            => SteadyUp(c, i)'
<1>f. PICK f : f = UpCells(c, i)
  OBVIOUS
<1>1. PICK a \in Nat, b \in Nat, s \in Seq(CellType) :
        a = Said(c, i - 1) /\ b = Said(c, i) /\ s = up[c][i]
  BY SteadyNumbers DEF Shapes, WireShapes, Wires
<1>2. Line(s, f, a, b)
  BY <1>1, <1>f DEF SteadyUp
<1>3. /\ s # <<>> => Line(Tail(s), f, a + 1, b)
      /\ Line(Append(s, f[b + 1]), f, a, b + 1)
  BY <1>2, LineMoves
<1>4. f[b + 1] = Numbered("CREATED", "EXTENDED", c, i, "b", Said(c, i) + 1)
  BY <1>1, <1>f DEF UpCells
<1>5. f = UpCells(c, i)'
  BY <1>1, <1>f DEF UpCells, Numbered, Cell, LayersFrom, Block
<1>6. ASSUME NEW s2, NEW a2, NEW b2, Line(s2, f, a2, b2),
             up'[c][i] = s2, Said(c, i - 1)' = a2, Said(c, i)' = b2
      PROVE  SteadyUp(c, i)'
  BY <1>5, <1>6 DEF SteadyUp
<1> QED BY <1>1, <1>2, <1>3, <1>4, <1>6
-----------------------------------------------------------------------------
(* The client and the streams at the exit.                                 *)

LEMMA LineFirst ==
  ASSUME NEW f, NEW a \in Nat
  PROVE  Line(<<>>, f, a, a) /\ Line(<<f[a + 1]>>, f, a, a + 1)
<1>1. Line(<<>>, f, a, a)
  BY DEF Line
<1>2. PICK e : e = f[a + 1]
  OBVIOUS
<1>3. Len(<<e>>) = 1 /\ <<e>>[1] = e /\ 1 .. 1 = {1}
  OBVIOUS
<1>4. Line(<<e>>, f, a, a + 1)
  BY <1>2, <1>3 DEF Line
<1> QED BY <1>1, <1>2, <1>4

LEMMA PutAt ==
  ASSUME NEW ch \in Wires, NEW c \in Circuits, NEW i \in Relays, NEW cell,
         NEW j \in Relays
  PROVE  /\ j # i => /\ PutDown(ch, c, i, cell)[c][j] = ch[c][j]
                     /\ PutUp(ch, c, i, cell)[c][j] = ch[c][j]
         /\ ReadsDown(c, i) =>
              PutDown(ch, c, i, cell)[c][i] = Append(ch[c][i], cell)
         /\ ReadsUp(c, i) =>
              PutUp(ch, c, i, cell)[c][i] = Append(ch[c][i], cell)
BY DEF PutDown, PutUp, Wires

LEMMA TakeAt ==
  ASSUME Shapes, NEW c \in Circuits, NEW i \in Relays
  PROVE  /\ down[c][i] # <<>> =>
              /\ TakeDown(c, i) \in Wires
              /\ TakeDown(c, i)[c][i] = Tail(down[c][i])
              /\ \A j \in Relays : j # i => TakeDown(c, i)[c][j] = down[c][j]
         /\ up[c][i] # <<>> =>
              /\ TakeUp(c, i) \in Wires
              /\ TakeUp(c, i)[c][i] = Tail(up[c][i])
              /\ \A j \in Relays : j # i => TakeUp(c, i)[c][j] = up[c][j]
BY TakenOn DEF TakeDown, TakeUp, Shapes, WireShapes, Wires

\* What is left to show of a step of the client.
LEMMA ClientSteady ==
  ASSUME Shapes, NEW c \in Circuits, Local(c, 0), Steady(c), SteadyClient(c)',
         SteadyDown(c, 1)', SteadyUp(c, 1)',
         \A j \in Relays : j # 1 => down'[c][j] = down[c][j]
                                    /\ up'[c][j] = up[c][j]
  PROVE  Steady(c)'
<1>1. /\ 0 \in 0 .. Hops /\ 0 # Hops /\ 0 \notin Relays
      /\ \A j \in Relays : j # 1 => j # 0 + 1
  BY HopsFacts DEF Relays
<1>2. /\ SteadyExit(c)'
      /\ \A j \in Relays : SteadyTask(c, j)' /\ (j < Hops => SteadyNext(c, j)')
      /\ \A j \in Relays : j # 1 => SteadyDown(c, j)' /\ SteadyUp(c, j)'
  BY <1>1, LocalKeeps
<1> QED BY <1>2 DEF Steady

LEMMA ClientLocal ==
  ASSUME NEW c \in Circuits,
         UNCHANGED <<registry, extending, reader, serving, exitSent, replyVars>>,
         \A j \in Relays : \/ task'[c][j] = task[c][j]
                           \/ /\ j = 1 /\ task[c][j] = "none"
                              /\ task'[c][j] = "open"
  PROVE  Local(c, 0)
<1>1. \A j \in Relays : HopStill(c, j)
  BY DEF HopStill, Mine, HasNext, Fwd, Bwd
<1> QED BY <1>1 DEF Local, ExitStill, replyVars

LEMMA ConnectSteady ==
  ASSUME Shapes, LockInv, NEW c \in Circuits, Steady(c), Connect(c)
  PROVE  Steady(c)'
<1>1. /\ client[c] = "idle" /\ task[c][1] = "none" /\ keys[c] = 0
      /\ sent[c] = 0 /\ got[c] = <<>> /\ ~Mine(c, 1)
      /\ up[c][1] = <<>> /\ 1 \in Relays
  BY HopsFacts
    DEF Connect, Steady, SteadyClient, SteadyTask, SteadyUp
<1>2. /\ client'[c] = "building" /\ task'[c][1] = "open"
      /\ \A j \in Relays : j # 1 => task'[c][j] = task[c][j]
      /\ UNCHANGED <<keys, cfwd, cbwd, sent, got, registry, extending, reader,
                     up, serving, exitSent, replyVars>>
  BY <1>1 DEF Connect, Shapes, ClientShapes, LockInv, exitVars
<1>3. /\ down'[c][1] = <<Cell("CREATE", 1, {})>>
      /\ \A j \in Relays : j # 1 => down'[c][j] = down[c][j]
  BY <1>1 DEF Connect, Shapes, WireShapes, Wires
<1>4. Local(c, 0)
  BY <1>1, <1>2, ClientLocal
<1>5. Issued(c) = 0 /\ Issued(c)' = 1 /\ Absorbed(c)' = Absorbed(c)
  BY <1>1, <1>2, HopsFacts DEF Issued, Absorbed
<1>6. SteadyClient(c)'
  <2>1. \A j \in Relays : Seen(1, j) = 0 /\ Seen(0, j) = 0
    BY HopsFacts DEF Relays, Seen
  <2>2. \A j \in Relays : /\ cfwd[c][j] = Seen(0, j)
                          /\ cbwd[c][j] = Seen(Absorbed(c), j)
    BY <1>5 DEF Steady, SteadyClient
  <2>3. keys'[c] # Hops
    BY <1>1, <1>2, HopsFacts
  <2> QED BY <1>1, <1>2, <1>5, <2>1, <2>2, <2>3 DEF SteadyClient, StaysUp
<1>7. /\ Heard(c, 1)' = 0 /\ Said(c, 1)' = 0
      /\ Heard(c, 0)' = 1 /\ Said(c, 0)' = 0
  <2>1. Mine(c, 1)' = Mine(c, 1)
    BY <1>2 DEF Mine
  <2>2. Absorbed(c) = 0
    BY <1>1 DEF Absorbed
  <2> QED BY <1>1, <1>2, <1>5, <2>1, <2>2 DEF Heard, Said, Known
<1>8. SteadyDown(c, 1)'
  <2>1. PICK f : f = DownCells(c, 1)
    OBVIOUS
  <2>2. f = DownCells(c, 1)'
    BY <2>1 DEF DownCells, Numbered, Cell, LayersFrom, Block
  <2>3. f[1] = Cell("CREATE", 1, {})
    <3>1. LayersFrom(c, 1, "f", 1) = {}
      BY HopsFacts, LayersPeel
    <3>2. f[1] = Numbered("CREATE", "EXTEND", c, 1, "f", 1)
      BY <2>1 DEF DownCells
    <3> QED BY <3>1, <3>2, HopsFacts DEF Numbered
  <2>4. Line(<<f[1]>>, f, 0, 1)
    <3>1. Line(<<f[0 + 1]>>, f, 0, 0 + 1)
      BY LineFirst
    <3> QED BY <3>1
  <2> QED BY <1>2, <1>3, <1>7, <2>2, <2>3, <2>4 DEF SteadyDown
<1>9. SteadyUp(c, 1)'
  <2>1. Line(<<>>, UpCells(c, 1)', 0, 0)
    BY LineFirst
  <2> QED BY <1>1, <1>2, <1>7, <2>1 DEF SteadyUp
<1> QED BY <1>2, <1>3, <1>4, <1>6, <1>8, <1>9, ClientSteady

\* The cell the client takes: the next one, with just the layers it takes off.
LEMMA ClientHead ==
  ASSUME Shapes, NEW c \in Circuits, Steady(c), up[c][1] # <<>>,
         NEW k, k = IF Absorbed(c) < Hops THEN Absorbed(c) ELSE Hops
  PROVE  LET m == Head(up[c][1])
             o == Absorbed(c) + 1
         IN /\ m.cmd = IF o = 1 THEN "CREATED"
                       ELSE IF o <= Hops THEN "EXTENDED" ELSE "DATA"
            /\ m.n = IF o <= Hops THEN o ELSE o - Hops
            /\ Unwrap(m, c, k) = {}
<1> DEFINE o == Absorbed(c) + 1
<1>1. Absorbed(c) \in Nat /\ Said(c, 0) = Absorbed(c) /\ k \in Nat
  BY SteadyNumbers, HopsFacts
<1>2. Head(up[c][1]) = Numbered("CREATED", "EXTENDED", c, 1, "b", o)
  <2>1. Head(up[c][1]) = Numbered("CREATED", "EXTENDED", c, 1, "b",
                                  Said(c, 1 - 1) + 1)
    BY SteadyHead, HopsFacts
  <2> QED BY <1>1, <2>1
<1>3. PICK m : m = Head(up[c][1])
  OBVIOUS
<1>4. BackwardLayers(c, k) = LayersFrom(c, 1, "b", o)
  <2>1. \A j \in Relays : cbwd[c][j] = Seen(Absorbed(c), j)
    BY DEF Steady, SteadyClient
  <2> QED BY <1>1, <2>1, ClientLayers
<1>5. m.layers = LayersFrom(c, 1, "b", o)
  BY <1>2, <1>3, NumberedFields
<1>6. Unwrap(m, c, k) = {}
  BY <1>4, <1>5 DEF Unwrap
<1>7. /\ m.cmd = IF o = 1 THEN "CREATED"
                 ELSE IF o <= Hops THEN "EXTENDED" ELSE "DATA"
      /\ m.n = IF o <= Hops THEN o ELSE o - Hops
  BY <1>2, <1>3, NumberedFields
<1> QED BY <1>3, <1>6, <1>7

\* The cell the client writes.
LEMMA ClientWrites ==
  ASSUME Shapes, NEW c \in Circuits, Steady(c), client[c] # "idle",
         NEW k, k = IF Issued(c) < Hops THEN Issued(c) ELSE Hops
  PROVE  LET o == Issued(c) + 1
         IN Cell(IF o <= Hops THEN "EXTEND" ELSE "DATA",
                 IF o <= Hops THEN o ELSE o - Hops, ForwardLayers(c, k))
              = Numbered("CREATE", "EXTEND", c, 1, "f", o)
<1>1. Issued(c) \in Nat /\ k \in Nat /\ Issued(c) >= 1
  <2>1. Issued(c) \in Nat
    BY SteadyNumbers
  <2>2. keys[c] \in 0 .. Hops /\ sent[c] \in Nat
    BY SteadyNumbers
  <2>3. (IF keys[c] < Hops THEN keys[c] + 1 ELSE Hops) >= 1
    BY <2>2, HopsFacts
  <2>4. PICK x \in Nat : /\ x = IF keys[c] < Hops THEN keys[c] + 1 ELSE Hops
                         /\ x >= 1
    BY <2>2, <2>3, HopsFacts
  <2>5. Issued(c) = x + sent[c]
    BY <2>4 DEF Issued
  <2> QED BY <2>1, <2>2, <2>4, <2>5, HopsFacts
<1>2. ForwardLayers(c, k) = LayersFrom(c, 1, "f", Issued(c) + 1)
  <2>1. \A j \in Relays : cfwd[c][j] = Seen(Issued(c), j)
    BY DEF Steady, SteadyClient
  <2> QED BY <1>1, <2>1, ClientLayers
<1>3. Issued(c) + 1 # 1
  BY <1>1
<1> QED BY <1>2, <1>3 DEF Numbered

LEMMA ClientWires ==
  ASSUME Shapes, NEW c \in Circuits, Steady(c), Local(c, 0),
         task[c][1] # "none"
  PROVE  /\ up[c][1] # <<>> /\ up'[c][1] = Tail(up[c][1])
            /\ Absorbed(c)' = Absorbed(c) + 1 => SteadyUp(c, 1)'
         /\ up'[c][1] = up[c][1] /\ Absorbed(c)' = Absorbed(c)
            => SteadyUp(c, 1)'
         /\ down'[c][1] = Append(down[c][1], Numbered("CREATE", "EXTEND",
                            c, 1, "f", Issued(c) + 1))
            /\ Issued(c)' = Issued(c) + 1 => SteadyDown(c, 1)'
         /\ down'[c][1] = down[c][1] /\ Issued(c)' = Issued(c)
            => SteadyDown(c, 1)'
<1>1. 1 \in Relays /\ 0 \in 0 .. Hops /\ 1 \in 0 .. Hops /\ 1 # 0
  BY HopsFacts
<1>2. /\ Heard(c, 1)' = Heard(c, 1) /\ Said(c, 1)' = Said(c, 1)
      /\ task'[c][1] # "none"
  BY <1>1, LocalNumbers DEF Local
<1>3. PICK z : z = 0 /\ z = 1 - 1
  OBVIOUS
<1>4. /\ Heard(c, z) = Issued(c) /\ Heard(c, z)' = Issued(c)'
      /\ Said(c, z) = Absorbed(c) /\ Said(c, z)' = Absorbed(c)'
  BY <1>3 DEF Heard, Said
<1>5. SteadyDown(c, 1) /\ SteadyUp(c, 1)
  BY <1>1 DEF Steady
<1>6. /\ up[c][1] # <<>> /\ up'[c][1] = Tail(up[c][1])
         /\ Absorbed(c)' = Absorbed(c) + 1 => SteadyUp(c, 1)'
      /\ up'[c][1] = up[c][1] /\ Absorbed(c)' = Absorbed(c)
         => SteadyUp(c, 1)'
  BY <1>1, <1>2, <1>3, <1>4, <1>5, UpMoves
<1>7. /\ down'[c][1] = Append(down[c][1], Numbered("CREATE", "EXTEND",
                            c, 1, "f", Issued(c) + 1))
         /\ Issued(c)' = Issued(c) + 1 => SteadyDown(c, 1)'
      /\ down'[c][1] = down[c][1] /\ Issued(c)' = Issued(c)
         => SteadyDown(c, 1)'
  BY <1>1, <1>2, <1>3, <1>4, <1>5, DownMoves
<1> QED BY <1>6, <1>7

\* The ciphers of the client after a cell.
LEMMA ClientSeen ==
  ASSUME Shapes, NEW c \in Circuits, Steady(c), NEW k \in Nat
  PROVE  /\ k = (IF Issued(c) < Hops THEN Issued(c) ELSE Hops)
            /\ cfwd' = Advance(cfwd, c, k) =>
              \A j \in Relays : cfwd'[c][j] = Seen(Issued(c) + 1, j)
         /\ k = (IF Absorbed(c) < Hops THEN Absorbed(c) ELSE Hops)
            /\ cbwd' = Advance(cbwd, c, k) =>
              \A j \in Relays : cbwd'[c][j] = Seen(Absorbed(c) + 1, j)
<1>1. /\ cfwd \in Counts /\ cbwd \in Counts
      /\ Issued(c) \in Nat /\ Absorbed(c) \in Nat
      /\ \A j \in Relays : cfwd[c][j] = Seen(Issued(c), j)
      /\ \A j \in Relays : cbwd[c][j] = Seen(Absorbed(c), j)
  BY SteadyNumbers DEF Shapes, ClientShapes, Steady, SteadyClient
<1>2. /\ k = (IF Issued(c) < Hops THEN Issued(c) ELSE Hops) =>
           \A j \in Relays :
             Advance(cfwd, c, k)[c][j] = Seen(Issued(c) + 1, j)
      /\ k = (IF Absorbed(c) < Hops THEN Absorbed(c) ELSE Hops) =>
           \A j \in Relays :
             Advance(cbwd, c, k)[c][j] = Seen(Absorbed(c) + 1, j)
  BY <1>1, SeenNext
<1> QED BY <1>2

LEMMA AnswerSteady ==
  ASSUME Calm, Shapes, NEW c \in Circuits, Steady(c), HandshakeAnswer(c)
  PROVE  Steady(c)'
<1>1. PICK k \in Nat : /\ k = keys[c] /\ k < Hops
                       /\ client[c] = "building" /\ sent[c] = 0
                       /\ got[c] = <<>> /\ up[c][1] # <<>>
                       /\ task[c][1] # "none"
  BY SteadyNumbers, HopsFacts
    DEF HandshakeAnswer, Steady, SteadyClient, Shapes, ClientShapes
<1>2. Absorbed(c) = k /\ Issued(c) = k + 1
  BY <1>1, HopsFacts DEF Absorbed, Issued
<1>3. /\ Head(up[c][1]).cmd = (IF k = 0 THEN "CREATED" ELSE "EXTENDED")
      /\ Unwrap(Head(up[c][1]), c, k) = {} /\ Head(up[c][1]).n = k + 1
  <2>1. k = IF Absorbed(c) < Hops THEN Absorbed(c) ELSE Hops
    BY <1>1, <1>2
  <2>2. k + 1 <= Hops /\ (k + 1 = 1 <=> k = 0)
    BY <1>1, HopsFacts
  <2>3. LET m == Head(up[c][1])
            o == Absorbed(c) + 1
        IN /\ m.cmd = IF o = 1 THEN "CREATED"
                      ELSE IF o <= Hops THEN "EXTENDED" ELSE "DATA"
           /\ m.n = IF o <= Hops THEN o ELSE o - Hops
           /\ Unwrap(m, c, k) = {}
    BY <1>1, <2>1, ClientHead
  <2> QED BY <1>2, <2>2, <2>3
<1>4. /\ keys' = [keys EXCEPT ![c] = k + 1] /\ cbwd' = Advance(cbwd, c, k)
      /\ up' = TakeUp(c, 1)
      /\ UNCHANGED <<sent, got, relayVars, exitVars>>
      /\ IF k + 1 = Hops
         THEN /\ client' = [client EXCEPT ![c] = "ready"]
              /\ UNCHANGED <<cfwd, down>>
         ELSE /\ down' = PutDown(down, c, 1,
                   Cell("EXTEND", k + 2, ForwardLayers(c, k + 1)))
              /\ cfwd' = Advance(cfwd, c, k + 1)
              /\ UNCHANGED client
  BY <1>1, <1>3 DEF HandshakeAnswer
<1>5. /\ keys'[c] = k + 1 /\ sent'[c] = 0 /\ got'[c] = <<>>
      /\ client'[c] = IF k + 1 = Hops THEN "ready" ELSE "building"
      /\ UNCHANGED <<registry, extending, reader, serving, exitSent, replyVars,
                     task>>
  BY <1>1, <1>4 DEF Shapes, ClientShapes, relayVars, exitVars
<1>6. /\ Absorbed(c)' = Absorbed(c) + 1
      /\ Issued(c)' = IF k + 1 = Hops THEN Issued(c) ELSE Issued(c) + 1
  <2>1. k + 1 = Hops \/ (k + 1 < Hops /\ k + 1 # Hops)
    BY <1>1, HopsFacts
  <2>2. Absorbed(c)' = Absorbed(c) + 1
    BY <1>1, <1>2, <1>5 DEF Absorbed
  <2> QED BY <1>1, <1>2, <1>5, <2>1, <2>2, HopsFacts DEF Issued
<1>7. Local(c, 0)
  BY <1>5, ClientLocal
<1>8. /\ \A j \in Relays : j # 1 => down'[c][j] = down[c][j]
                                    /\ up'[c][j] = up[c][j]
      /\ up'[c][1] = Tail(up[c][1])
  <2>1. \A j \in Relays : j # 1 => down'[c][j] = down[c][j]
    <3>1. down' = down \/ \E cell : down' = PutDown(down, c, 1, cell)
      BY <1>4
    <3> QED BY <3>1, PutAt, HopsFacts DEF Shapes, WireShapes
  <2>2. /\ \A j \in Relays : j # 1 => up'[c][j] = up[c][j]
        /\ up'[c][1] = Tail(up[c][1])
    BY <1>1, <1>4, TakeAt, HopsFacts
  <2> QED BY <2>1, <2>2
<1>9. SteadyUp(c, 1)'
  BY <1>1, <1>6, <1>7, <1>8, ClientWires
<1>10. SteadyDown(c, 1)'
  <2>1. CASE k + 1 = Hops
    BY <1>1, <1>4, <1>6, <1>7, <2>1, ClientWires
  <2>2. CASE k + 1 # Hops
    <3>1. ReadsDown(c, 1)
      BY <1>1, SteadyEnds, HopsFacts
    <3>2. /\ k + 1 = IF Issued(c) < Hops THEN Issued(c) ELSE Hops
          /\ k + 2 = Issued(c) + 1 /\ Issued(c) + 1 <= Hops
      BY <1>1, <1>2, <2>2, HopsFacts
    <3>3. Cell("EXTEND", k + 2, ForwardLayers(c, k + 1))
            = Numbered("CREATE", "EXTEND", c, 1, "f", Issued(c) + 1)
      BY <1>1, <3>2, ClientWrites
    <3>4. down'[c][1] = Append(down[c][1], Numbered("CREATE", "EXTEND",
                                 c, 1, "f", Issued(c) + 1))
      BY <1>4, <2>2, <3>1, <3>3, PutAt, HopsFacts DEF Shapes, WireShapes
    <3> QED BY <1>1, <1>6, <1>7, <2>2, <3>4, ClientWires
  <2> QED BY <2>1, <2>2
<1>11. SteadyClient(c)'
  <2>1. \A j \in Relays : cbwd'[c][j] = Seen(Absorbed(c)', j)
    <3>1. k = IF Absorbed(c) < Hops THEN Absorbed(c) ELSE Hops
      BY <1>1, <1>2
    <3> QED BY <1>4, <1>6, <3>1, ClientSeen
  <2>2. \A j \in Relays : cfwd'[c][j] = Seen(Issued(c)', j)
    <3>1. CASE k + 1 = Hops
      <4>1. cfwd' = cfwd /\ Issued(c)' = Issued(c)
        BY <1>4, <1>6, <3>1
      <4> QED BY <4>1 DEF Steady, SteadyClient
    <3>2. CASE k + 1 # Hops
      <4>1. /\ k + 1 \in Nat
            /\ k + 1 = IF Issued(c) < Hops THEN Issued(c) ELSE Hops
        BY <1>1, <1>2, <3>2, HopsFacts
      <4>2. cfwd' = Advance(cfwd, c, k + 1) /\ Issued(c)' = Issued(c) + 1
        BY <1>4, <1>6, <3>2
      <4> QED BY <4>1, <4>2, ClientSeen
    <3> QED BY <3>1, <3>2
  <2> QED BY <1>1, <1>5, <2>1, <2>2 DEF SteadyClient, StaysUp
<1> QED BY <1>7, <1>8, <1>9, <1>10, <1>11, ClientSteady

LEMMA SendSteady ==
  ASSUME Calm, Shapes, NEW c \in Circuits, Steady(c), SendData(c)
  PROVE  Steady(c)'
<1>1. /\ client[c] = "ready" /\ keys[c] = Hops /\ task[c][1] # "none"
      /\ sent[c] \in Nat /\ Issued(c) = Hops + sent[c]
  <2>1. client[c] = "ready" /\ keys[c] = Hops /\ task[c][1] # "none"
    BY DEF SendData, Steady, SteadyClient
  <2>2. ~(keys[c] < Hops) /\ client[c] # "idle"
    BY <2>1, HopsFacts
  <2> QED BY <2>1, <2>2, SteadyNumbers DEF Issued
<1>2. /\ sent'[c] = sent[c] + 1 /\ cfwd' = Advance(cfwd, c, Hops)
      /\ down' = PutDown(down, c, 1,
                   Cell("DATA", sent[c] + 1, ForwardLayers(c, Hops)))
      /\ UNCHANGED <<client, keys, cbwd, got, relayVars, up, exitVars>>
  BY DEF SendData, Shapes, ClientShapes
<1>3. Issued(c)' = Issued(c) + 1 /\ Absorbed(c)' = Absorbed(c)
  <2>1. ~(keys'[c] < Hops) /\ client'[c] # "idle" /\ keys'[c] = keys[c]
    BY <1>1, <1>2, HopsFacts
  <2>2. Issued(c)' = Hops + sent'[c]
    BY <2>1 DEF Issued
  <2>3. sent'[c] = sent[c] + 1 /\ got' = got
    BY <1>2
  <2> QED BY <1>1, <2>1, <2>2, <2>3, HopsFacts DEF Absorbed
<1>4. Local(c, 0)
  BY <1>2, ClientLocal DEF relayVars, exitVars
<1>5. Hops = IF Issued(c) < Hops THEN Issued(c) ELSE Hops
  BY <1>1, HopsFacts
<1>6. Cell("DATA", sent[c] + 1, ForwardLayers(c, Hops))
        = Numbered("CREATE", "EXTEND", c, 1, "f", Issued(c) + 1)
  <2>1. /\ ~(Issued(c) + 1 <= Hops) /\ Issued(c) + 1 - Hops = sent[c] + 1
        /\ client[c] # "idle"
    BY <1>1, HopsFacts
  <2>2. PICK k : k = Hops /\ k = IF Issued(c) < Hops THEN Issued(c) ELSE Hops
    BY <1>5
  <2>3. PICK o : o = Issued(c) + 1
    OBVIOUS
  <2>6. ~(o <= Hops) /\ o - Hops = sent[c] + 1
    BY <1>1, <2>3, HopsFacts
  <2>4. Cell(IF o <= Hops THEN "EXTEND" ELSE "DATA",
             IF o <= Hops THEN o ELSE o - Hops, ForwardLayers(c, k))
          = Numbered("CREATE", "EXTEND", c, 1, "f", o)
    BY <2>1, <2>2, <2>3, ClientWrites
  <2>5. Cell("DATA", sent[c] + 1, ForwardLayers(c, k))
          = Numbered("CREATE", "EXTEND", c, 1, "f", o)
    BY <2>4, <2>6
  <2> QED BY <2>2, <2>3, <2>5
<1>7. /\ \A j \in Relays : j # 1 => down'[c][j] = down[c][j]
                                    /\ up'[c][j] = up[c][j]
      /\ down'[c][1] = Append(down[c][1], Numbered("CREATE", "EXTEND",
                               c, 1, "f", Issued(c) + 1))
  <2>1. ReadsDown(c, 1)
    BY <1>1, SteadyEnds, HopsFacts
  <2>2. PICK cell : /\ cell = Numbered("CREATE", "EXTEND", c, 1, "f",
                                      Issued(c) + 1)
                    /\ down' = PutDown(down, c, 1, cell)
    BY <1>2, <1>6
  <2>3. \A j \in Relays : j # 1 => down'[c][j] = down[c][j]
    BY <2>2, PutAt, HopsFacts DEF Shapes, WireShapes
  <2>4. down'[c][1] = Append(down[c][1], cell)
    <3>1. down \in Wires /\ 1 \in Relays
      BY HopsFacts DEF Shapes, WireShapes
    <3>2. PutDown(down, c, 1, cell)[c][1] = Append(down[c][1], cell)
      BY <2>1, <3>1, PutAt
    <3> QED BY <2>2, <3>2
  <2> QED BY <1>2, <2>2, <2>3, <2>4
<1>8. SteadyDown(c, 1)' /\ SteadyUp(c, 1)'
  BY <1>1, <1>2, <1>3, <1>4, <1>7, ClientWires
<1>9. SteadyClient(c)'
  <2>1. \A j \in Relays : cfwd'[c][j] = Seen(Issued(c)', j)
    BY <1>2, <1>3, <1>5, ClientSeen, HopsFacts
  <2> QED BY <1>1, <1>2, <1>3, <2>1
      DEF Steady, SteadyClient, StaysUp, relayVars
<1> QED BY <1>4, <1>7, <1>8, <1>9, ClientSteady

LEMMA ReadSteady ==
  ASSUME Calm, Shapes, NEW c \in Circuits, Steady(c), ReadCell(c)
  PROVE  Steady(c)'
<1>1. /\ client[c] = "ready" /\ keys[c] = Hops /\ task[c][1] # "none"
      /\ Len(got[c]) \in Nat /\ Absorbed(c) = Hops + Len(got[c])
      /\ up[c][1] # <<>> /\ got[c] \in Seq(Nat)
  BY SteadyNumbers, HopsFacts
    DEF ReadCell, Steady, SteadyClient, Absorbed, Shapes, ClientShapes
<1>2. Hops = IF Absorbed(c) < Hops THEN Absorbed(c) ELSE Hops
  BY <1>1, HopsFacts
<1>3. /\ Head(up[c][1]).cmd = "DATA"
      /\ Unwrap(Head(up[c][1]), c, Hops) = {}
  <2>1. /\ ~(Absorbed(c) + 1 <= Hops) /\ Absorbed(c) + 1 # 1
    BY <1>1, HopsFacts
  <2>2. LET m == Head(up[c][1])
            o == Absorbed(c) + 1
        IN /\ m.cmd = IF o = 1 THEN "CREATED"
                      ELSE IF o <= Hops THEN "EXTENDED" ELSE "DATA"
           /\ Unwrap(m, c, Hops) = {}
    BY <1>1, <1>2, ClientHead
  <2> QED BY <2>1, <2>2
<1>4. /\ cbwd' = Advance(cbwd, c, Hops) /\ up' = TakeUp(c, 1)
      /\ got' = [got EXCEPT ![c] = Append(@, Head(up[c][1]).n)]
      /\ UNCHANGED <<client, keys, cfwd, sent, relayVars, down, exitVars>>
  BY <1>3 DEF ReadCell
<1>5. Len(got'[c]) = Len(got[c]) + 1
  BY <1>1, <1>4 DEF Shapes, ClientShapes
<1>6. Absorbed(c)' = Absorbed(c) + 1 /\ Issued(c)' = Issued(c)
  <2>1. Issued(c)' = Issued(c)
    BY <1>4 DEF Issued
  <2>2. Absorbed(c)' = Hops + Len(got'[c])
    BY <1>1, <1>4 DEF Absorbed
  <2> QED BY <1>1, <1>5, <2>1, <2>2, HopsFacts
<1>7. Local(c, 0)
  BY <1>4, ClientLocal DEF relayVars, exitVars
<1>8. /\ \A j \in Relays : j # 1 => down'[c][j] = down[c][j]
                                    /\ up'[c][j] = up[c][j]
      /\ up'[c][1] = Tail(up[c][1])
  BY <1>1, <1>4, TakeAt, HopsFacts
<1>9. SteadyDown(c, 1)' /\ SteadyUp(c, 1)'
  BY <1>1, <1>4, <1>6, <1>7, <1>8, ClientWires
<1>10. SteadyClient(c)'
  <2>1. \A j \in Relays : cbwd'[c][j] = Seen(Absorbed(c)', j)
    BY <1>2, <1>4, <1>6, ClientSeen, HopsFacts
  <2> QED BY <1>1, <1>4, <1>6, <2>1
      DEF Steady, SteadyClient, StaysUp, relayVars
<1> QED BY <1>4, <1>7, <1>8, <1>9, <1>10, ClientSteady

\* The client has no reason to give the circuit up.
LEMMA ClientStaysUp ==
  ASSUME Calm, Shapes, NEW c \in Circuits, Steady(c)
  PROVE  ~ (ConnectFails(c) \/ BuildFails(c) \/ ReadEof(c) \/ Release(c))
<1>1. /\ 1 \in alive /\ ~Timeouts /\ ~DownstreamGone(c, 1)
      /\ client[c] \in {"idle", "building", "ready"}
  BY SteadyEnds, HopsFacts DEF Calm, Steady, SteadyClient, StaysUp
<1> QED BY <1>1 DEF ConnectFails, BuildFails, ReadEof, Release
-----------------------------------------------------------------------------
(* The relays.                                                             *)

\* What a relay does to the slot of the circuit.
LEMMA SlotMade ==
  ASSUME NEW R \in Registries, NEW i \in Relays, NEW n \in Numbers,
         NEW h, h = R[i][n]
  PROVE  /\ [R EXCEPT ![i][n].fwd = @ + 1]
              = [R EXCEPT ![i][n] = [h EXCEPT !.fwd = @ + 1]]
         /\ [R EXCEPT ![i][n].bwd = @ + 1]
              = [R EXCEPT ![i][n] = [h EXCEPT !.bwd = @ + 1]]
<1>1. [R EXCEPT ![i][n].fwd = @ + 1]
        = [R EXCEPT ![i][n] = [h EXCEPT !.fwd = @ + 1]]
  BY Zenon
<1>2. [R EXCEPT ![i][n].bwd = @ + 1]
        = [R EXCEPT ![i][n] = [h EXCEPT !.bwd = @ + 1]]
  BY Zenon
<1> QED BY <1>1, <1>2

Linking(R, i, n) == [R EXCEPT ![i][n].next = TRUE, ![i][n].bwd = @ + 1]

LEMMA NextMade ==
  ASSUME NEW R \in Registries, NEW i \in Relays, NEW n \in Numbers
  PROVE  /\ SlotsSeen(R, Linking(R, i, n), i, n) /\ Linking(R, i, n)[i][n].next
         /\ Linking(R, i, n)[i][n].fwd = R[i][n].fwd
         /\ Linking(R, i, n)[i][n].bwd = R[i][n].bwd + 1
<1> DEFINE R1 == [R EXCEPT ![i][n].next = TRUE]
           R2 == [R EXCEPT ![i][n].next = TRUE, ![i][n].bwd = @ + 1]
           R3 == [R1 EXCEPT ![i][n].bwd = @ + 1]
<1>1. R2 = R3
  OBVIOUS
<1>2. SlotsSeen(R, R2, i, n) /\ R2[i][n].next
  BY NextSeen
<1>3. R1 \in Registries
  BY SlotMoves
<1>4. R1[i][n].fwd = R[i][n].fwd /\ R1[i][n].bwd = R[i][n].bwd
  BY DEF Registries, HandlerType
<1> HIDE DEF R1
<1>5. PICK h \in HandlerType : h = R1[i][n]
  BY <1>3 DEF Registries
<1>6. R3 = [R1 EXCEPT ![i][n] = [h EXCEPT !.bwd = @ + 1]]
  BY <1>3, <1>5, SlotMade
<1>7. PICK g : g = [h EXCEPT !.bwd = @ + 1]
  OBVIOUS
<1>8. g.fwd = h.fwd /\ g.bwd = h.bwd + 1
  BY <1>7 DEF HandlerType
<1>9. R3 = [R1 EXCEPT ![i][n] = g]
  BY <1>6, <1>7, Zenon
<1> HIDE DEF R3
<1>10. R3[i][n] = g
  BY <1>3, <1>9 DEF Registries
<1>11. Linking(R, i, n) = R2
  BY DEF Linking
<1> HIDE DEF R2
<1>12. R2[i][n].fwd = R[i][n].fwd /\ R2[i][n].bwd = R[i][n].bwd + 1
  BY <1>1, <1>4, <1>5, <1>8, <1>10
<1> QED BY <1>2, <1>11, <1>12

LEMMA SlotChanges ==
  ASSUME Shapes, NEW c \in Circuits, NEW i \in Relays
  PROVE  /\ UNCHANGED registry =>
              \A j \in Relays :
                /\ Mine(c, j)' = Mine(c, j) /\ HasNext(c, j)' = HasNext(c, j)
                /\ Fwd(c, j)' = Fwd(c, j) /\ Bwd(c, j)' = Bwd(c, j)
         /\ \/ registry' = Peeled(i, c)
            \/ registry' = [registry EXCEPT ![i][Id(c)].bwd = @ + 1]
            \/ registry' = [registry EXCEPT ![i][Id(c)].next = TRUE,
                                            ![i][Id(c)].bwd = @ + 1]
            \/ registry' = [registry EXCEPT ![i][Id(c)] = Handler(c)]
            => \A j \in Relays : j # i =>
                /\ Mine(c, j)' = Mine(c, j) /\ HasNext(c, j)' = HasNext(c, j)
                /\ Fwd(c, j)' = Fwd(c, j) /\ Bwd(c, j)' = Bwd(c, j)
         /\ registry' = Peeled(i, c) =>
              /\ Mine(c, i)' = Mine(c, i) /\ HasNext(c, i)' = HasNext(c, i)
              /\ Fwd(c, i)' = Fwd(c, i) + 1 /\ Bwd(c, i)' = Bwd(c, i)
         /\ registry' = [registry EXCEPT ![i][Id(c)].bwd = @ + 1] =>
              /\ Mine(c, i)' = Mine(c, i) /\ HasNext(c, i)' = HasNext(c, i)
              /\ Fwd(c, i)' = Fwd(c, i) /\ Bwd(c, i)' = Bwd(c, i) + 1
         /\ registry' = [registry EXCEPT ![i][Id(c)].next = TRUE,
                                         ![i][Id(c)].bwd = @ + 1] =>
              /\ Mine(c, i)' = Mine(c, i) /\ HasNext(c, i)'
              /\ Fwd(c, i)' = Fwd(c, i) /\ Bwd(c, i)' = Bwd(c, i) + 1
         /\ registry' = [registry EXCEPT ![i][Id(c)] = Handler(c)] =>
              /\ Mine(c, i)' /\ ~HasNext(c, i)'
              /\ Fwd(c, i)' = 0 /\ Bwd(c, i)' = 0
<1>1. registry \in Registries /\ Id(c) \in Numbers
  BY DEF Shapes, RelayShapes, Id, Circuits
<1>2. PICK h \in HandlerType : h = registry[i][Id(c)]
  BY <1>1 DEF Registries
<1>3. PICK peeled, layered \in HandlerType :
        /\ peeled = [h EXCEPT !.fwd = @ + 1]
        /\ layered = [h EXCEPT !.bwd = @ + 1]
  BY HandlerMoves
<1>4. /\ peeled.key = h.key /\ peeled.next = h.next
      /\ peeled.fwd = h.fwd + 1 /\ peeled.bwd = h.bwd
      /\ layered.key = h.key /\ layered.next = h.next
      /\ layered.fwd = h.fwd /\ layered.bwd = h.bwd + 1
  BY <1>2, <1>3 DEF HandlerType
<1>5. /\ registry' = Peeled(i, c) =>
           registry' = [registry EXCEPT ![i][Id(c)] = peeled]
      /\ registry' = [registry EXCEPT ![i][Id(c)].bwd = @ + 1] =>
           registry' = [registry EXCEPT ![i][Id(c)] = layered]
  <2>1. [registry EXCEPT ![i][Id(c)].fwd = @ + 1]
          = [registry EXCEPT ![i][Id(c)] = peeled]
    BY <1>1, <1>2, <1>3, SlotMade, Zenon
  <2>2. [registry EXCEPT ![i][Id(c)].bwd = @ + 1]
          = [registry EXCEPT ![i][Id(c)] = layered]
    BY <1>1, <1>2, <1>3, SlotMade, Zenon
  <2> QED BY <2>1, <2>2, Zenon DEF Peeled
<1>6. ASSUME NEW g, registry' = [registry EXCEPT ![i][Id(c)] = g]
      PROVE  /\ registry'[i][Id(c)] = g
             /\ \A j \in Relays : j # i =>
                  registry'[j][Id(c)] = registry[j][Id(c)]
  BY <1>1, <1>6 DEF Registries
<1>7. /\ Handler(c).key = c /\ Handler(c).next = FALSE
      /\ Handler(c).fwd = 0 /\ Handler(c).bwd = 0
  BY DEF Handler
<1>8. ASSUME registry' = [registry EXCEPT ![i][Id(c)].next = TRUE,
                                          ![i][Id(c)].bwd = @ + 1]
      PROVE  /\ Mine(c, i)' = Mine(c, i) /\ HasNext(c, i)'
             /\ Fwd(c, i)' = Fwd(c, i) /\ Bwd(c, i)' = Bwd(c, i) + 1
             /\ \A j \in Relays : j # i =>
                  registry'[j][Id(c)] = registry[j][Id(c)]
  <2>1. registry' = Linking(registry, i, Id(c))
    BY <1>8 DEF Linking
  <2>2. /\ SlotsSeen(registry, registry', i, Id(c))
        /\ registry'[i][Id(c)].next
        /\ registry'[i][Id(c)].fwd = registry[i][Id(c)].fwd
        /\ registry'[i][Id(c)].bwd = registry[i][Id(c)].bwd + 1
    BY <1>1, <2>1, NextMade
  <2> QED BY <1>1, <2>2 DEF SlotsSeen, Mine, HasNext, Fwd, Bwd
<1>9. ASSUME \/ registry' = Peeled(i, c)
             \/ registry' = [registry EXCEPT ![i][Id(c)].bwd = @ + 1]
             \/ registry' = [registry EXCEPT ![i][Id(c)].next = TRUE,
                                             ![i][Id(c)].bwd = @ + 1]
             \/ registry' = [registry EXCEPT ![i][Id(c)] = Handler(c)]
      PROVE  \A j \in Relays : j # i =>
               registry'[j][Id(c)] = registry[j][Id(c)]
  BY <1>5, <1>6, <1>8, <1>9
<1>10. /\ registry' = Peeled(i, c) => registry'[i][Id(c)] = peeled
       /\ registry' = [registry EXCEPT ![i][Id(c)].bwd = @ + 1] =>
            registry'[i][Id(c)] = layered
       /\ registry' = [registry EXCEPT ![i][Id(c)] = Handler(c)] =>
            registry'[i][Id(c)] = Handler(c)
  BY <1>5, <1>6
<1>11. ASSUME UNCHANGED registry
       PROVE  \A j \in Relays :
                /\ Mine(c, j)' = Mine(c, j) /\ HasNext(c, j)' = HasNext(c, j)
                /\ Fwd(c, j)' = Fwd(c, j) /\ Bwd(c, j)' = Bwd(c, j)
  BY <1>11 DEF Mine, HasNext, Fwd, Bwd
<1>12. \A j \in Relays : registry'[j][Id(c)] = registry[j][Id(c)] =>
         /\ Mine(c, j)' = Mine(c, j) /\ HasNext(c, j)' = HasNext(c, j)
         /\ Fwd(c, j)' = Fwd(c, j) /\ Bwd(c, j)' = Bwd(c, j)
  BY DEF Mine, HasNext, Fwd, Bwd
<1>13. /\ registry'[i][Id(c)] = peeled =>
            /\ Mine(c, i)' = Mine(c, i) /\ HasNext(c, i)' = HasNext(c, i)
            /\ Fwd(c, i)' = Fwd(c, i) + 1 /\ Bwd(c, i)' = Bwd(c, i)
       /\ registry'[i][Id(c)] = layered =>
            /\ Mine(c, i)' = Mine(c, i) /\ HasNext(c, i)' = HasNext(c, i)
            /\ Fwd(c, i)' = Fwd(c, i) /\ Bwd(c, i)' = Bwd(c, i) + 1
       /\ registry'[i][Id(c)] = Handler(c) =>
            /\ Mine(c, i)' /\ ~HasNext(c, i)'
            /\ Fwd(c, i)' = 0 /\ Bwd(c, i)' = 0
  BY <1>2, <1>4, <1>7 DEF Mine, HasNext, Fwd, Bwd
<1>14. registry' = Peeled(i, c) =>
         /\ Mine(c, i)' = Mine(c, i) /\ HasNext(c, i)' = HasNext(c, i)
         /\ Fwd(c, i)' = Fwd(c, i) + 1 /\ Bwd(c, i)' = Bwd(c, i)
  BY <1>10, <1>13
<1>15. registry' = [registry EXCEPT ![i][Id(c)].bwd = @ + 1] =>
         /\ Mine(c, i)' = Mine(c, i) /\ HasNext(c, i)' = HasNext(c, i)
         /\ Fwd(c, i)' = Fwd(c, i) /\ Bwd(c, i)' = Bwd(c, i) + 1
  BY <1>10, <1>13, Zenon
<1>16. registry' = [registry EXCEPT ![i][Id(c)].next = TRUE,
                                    ![i][Id(c)].bwd = @ + 1] =>
         /\ Mine(c, i)' = Mine(c, i) /\ HasNext(c, i)'
         /\ Fwd(c, i)' = Fwd(c, i) /\ Bwd(c, i)' = Bwd(c, i) + 1
  BY <1>8, Zenon
<1>17. registry' = [registry EXCEPT ![i][Id(c)] = Handler(c)] =>
         /\ Mine(c, i)' /\ ~HasNext(c, i)'
         /\ Fwd(c, i)' = 0 /\ Bwd(c, i)' = 0
  BY <1>10, <1>13, Zenon
<1>18. \/ registry' = Peeled(i, c)
       \/ registry' = [registry EXCEPT ![i][Id(c)].bwd = @ + 1]
       \/ registry' = [registry EXCEPT ![i][Id(c)].next = TRUE,
                                       ![i][Id(c)].bwd = @ + 1]
       \/ registry' = [registry EXCEPT ![i][Id(c)] = Handler(c)]
       => \A j \in Relays : j # i =>
           /\ Mine(c, j)' = Mine(c, j) /\ HasNext(c, j)' = HasNext(c, j)
           /\ Fwd(c, j)' = Fwd(c, j) /\ Bwd(c, j)' = Bwd(c, j)
  BY <1>9, <1>12, Zenon
<1> QED BY <1>11, <1>14, <1>15, <1>16, <1>17, <1>18, Zenon

\* What is left to show of a step of a hop.
LEMMA HopSteady ==
  ASSUME Shapes, NEW c \in Circuits, NEW i \in Relays, Local(c, i), Steady(c),
         SteadyTask(c, i)', i < Hops => SteadyNext(c, i)',
         i = Hops => SteadyExit(c)',
         SteadyDown(c, i)', SteadyUp(c, i)',
         i < Hops => SteadyDown(c, i + 1)' /\ SteadyUp(c, i + 1)',
         \A j \in Relays : /\ j # i /\ j # i + 1 => down'[c][j] = down[c][j]
                           /\ j # i /\ j # i + 1 => up'[c][j] = up[c][j]
  PROVE  Steady(c)'
<1>1. /\ i \in 0 .. Hops /\ i # 0
      /\ \A j \in Relays : j = i + 1 => i < Hops
  BY HopsFacts DEF Relays
<1>2. /\ SteadyClient(c)' /\ SteadyExit(c)'
      /\ \A j \in Relays : SteadyTask(c, j)' /\ (j < Hops => SteadyNext(c, j)')
      /\ \A j \in Relays : SteadyDown(c, j)' /\ SteadyUp(c, j)'
  BY <1>1, LocalKeeps
<1> QED BY <1>2 DEF Steady

LEMMA HopWires ==
  ASSUME Shapes, NEW c \in Circuits, NEW i \in Relays, Local(c, i), Steady(c),
         task[c][i] # "none"
  PROVE  /\ down[c][i] # <<>> /\ down'[c][i] = Tail(down[c][i])
            /\ Heard(c, i)' = Heard(c, i) + 1 => SteadyDown(c, i)'
         /\ down'[c][i] = down[c][i] /\ Heard(c, i)' = Heard(c, i)
            => SteadyDown(c, i)'
         /\ up'[c][i] = Append(up[c][i], Numbered("CREATED", "EXTENDED",
                                                  c, i, "b", Said(c, i) + 1))
            /\ Said(c, i)' = Said(c, i) + 1 => SteadyUp(c, i)'
         /\ up'[c][i] = up[c][i] /\ Said(c, i)' = Said(c, i)
            => SteadyUp(c, i)'
<1>1. i \in 0 .. Hops /\ i - 1 \in 0 .. Hops /\ i - 1 # i
  BY HopsFacts DEF Relays
<1>2. Heard(c, i - 1)' = Heard(c, i - 1) /\ Said(c, i - 1)' = Said(c, i - 1)
  BY <1>1, LocalNumbers
<1>3. task'[c][i] # "none" /\ SteadyDown(c, i) /\ SteadyUp(c, i)
  BY DEF Local, Steady
<1> QED BY <1>2, <1>3, DownMoves, UpMoves

LEMMA NextWires ==
  ASSUME Shapes, NEW c \in Circuits, NEW i \in Relays, Local(c, i), Steady(c),
         i < Hops, task[c][i + 1] # "none"
  PROVE  /\ down'[c][i + 1] = Append(down[c][i + 1], Numbered("CREATE",
                                "EXTEND", c, i + 1, "f", Heard(c, i) + 1))
            /\ Heard(c, i)' = Heard(c, i) + 1 => SteadyDown(c, i + 1)'
         /\ down'[c][i + 1] = down[c][i + 1] /\ Heard(c, i)' = Heard(c, i)
            => SteadyDown(c, i + 1)'
         /\ up[c][i + 1] # <<>> /\ up'[c][i + 1] = Tail(up[c][i + 1])
            /\ Said(c, i)' = Said(c, i) + 1 => SteadyUp(c, i + 1)'
         /\ up'[c][i + 1] = up[c][i + 1] /\ Said(c, i)' = Said(c, i)
            => SteadyUp(c, i + 1)'
<1>1. PICK k \in Relays : k = i + 1 /\ k \in 0 .. Hops /\ k # i /\ i = k - 1
  BY HopsFacts DEF Relays
<1>2. Heard(c, k)' = Heard(c, k) /\ Said(c, k)' = Said(c, k)
  <2>1. i \in 0 .. Hops
    BY HopsFacts DEF Relays
  <2> QED BY <1>1, <2>1, LocalNumbers
<1>3. task[c][k] # "none" /\ task'[c][k] # "none"
      /\ SteadyDown(c, k) /\ SteadyUp(c, k)
  BY <1>1 DEF Local, Steady
<1> QED BY <1>1, <1>2, <1>3, DownMoves, UpMoves

\* A connection that is not used stays so.
LEMMA IdleWires ==
  ASSUME NEW c \in Circuits, NEW i \in Relays, Steady(c),
         task[c][i] = "none", task'[c][i] = "none",
         down'[c][i] = down[c][i], up'[c][i] = up[c][i]
  PROVE  SteadyDown(c, i)' /\ SteadyUp(c, i)'
BY DEF Steady, SteadyDown, SteadyUp

\* A step that leaves the slots of the other hops alone, and their readers and
\* locks, is local.
LEMMA HopLocal ==
  ASSUME Shapes, NEW c \in Circuits, NEW i \in Relays, ClientStill(c),
         \/ UNCHANGED registry \/ registry' = Peeled(i, c)
         \/ registry' = [registry EXCEPT ![i][Id(c)].bwd = @ + 1]
         \/ registry' = [registry EXCEPT ![i][Id(c)].next = TRUE,
                                         ![i][Id(c)].bwd = @ + 1]
         \/ registry' = [registry EXCEPT ![i][Id(c)] = Handler(c)],
         \A j \in Relays : j # i => /\ reader'[c][j] = reader[c][j]
                                    /\ extending'[j] = extending[j],
         i # Hops => UNCHANGED <<exitSent, serving, replyVars>>,
         \A j \in Relays :
           \/ task'[c][j] = task[c][j]
           \/ j = i /\ task[c][j] # "none" /\ task'[c][j] # "none"
           \/ j = i + 1 /\ task[c][j] = "none" /\ task'[c][j] = "open"
  PROVE  Local(c, i)
<1>1. \A j \in Relays : j # i =>
        /\ Mine(c, j)' = Mine(c, j) /\ HasNext(c, j)' = HasNext(c, j)
        /\ Fwd(c, j)' = Fwd(c, j) /\ Bwd(c, j)' = Bwd(c, j)
  BY SlotChanges
<1>2. \A j \in Relays : j # i => HopStill(c, j)
  BY <1>1 DEF HopStill
<1> QED BY <1>2 DEF Local, ExitStill, replyVars

LEMMA CreateSteady ==
  ASSUME Calm, Shapes, LockInv, NEW c \in Circuits, Steady(c),
         NEW i \in Relays, HandleCreate(c, i)
  PROVE  Steady(c)'
<1>1. /\ task[c][i] = "open" /\ ~Mine(c, i) /\ down[c][i] # <<>>
      /\ task[c][i] # "none"
  BY SteadyReads DEF HandleCreate, Has
<1>2. /\ up' = PutUp(up, c, i, Cell("CREATED", i, {}))
      /\ down' = TakeDown(c, i)
      /\ task' = [task EXCEPT ![c][i] = "adding"]
      /\ UNCHANGED <<clientVars, alive, registry, extending, reader, exitVars>>
  BY DEF HandleCreate
<1>3. /\ task'[c][i] = "adding"
      /\ \A j \in Relays : j # i => task'[c][j] = task[c][j]
  BY <1>2 DEF LockInv
<1>4. Local(c, i)
  <2>1. ClientStill(c)
    BY <1>2 DEF ClientStill, clientVars
  <2> QED BY <1>1, <1>2, <1>3, <2>1, HopLocal DEF exitVars
<1>5. /\ Mine(c, i)' = Mine(c, i) /\ HasNext(c, i)' = HasNext(c, i)
      /\ Fwd(c, i)' = Fwd(c, i) /\ Bwd(c, i)' = Bwd(c, i)
  BY <1>2, SlotChanges
<1>6. /\ Heard(c, i) = i - 1 /\ Said(c, i) = i - 1
      /\ i < Hops => task[c][i + 1] = "none"
  BY <1>1, SteadyNew
<1>7. Heard(c, i)' = i /\ Said(c, i)' = i
  <2>1. i # 0
    BY DEF Relays
  <2> QED BY <1>1, <1>3, <1>5, <2>1 DEF Heard, Said, Known
<1>8. Heard(c, i)' = Heard(c, i) + 1 /\ Said(c, i)' = Said(c, i) + 1
      /\ Said(c, i) + 1 = i
  BY <1>6, <1>7, HopsFacts
<1>9. SteadyTask(c, i)'
  BY <1>1, <1>3, <1>5 DEF SteadyTask
<1>10. ASSUME i < Hops PROVE SteadyNext(c, i)'
  <2>1. SteadyNext(c, i) /\ task'[c][i + 1] = task[c][i + 1]
    BY <1>3, <1>10, HopsFacts DEF Steady
  <2> QED BY <1>2, <1>5, <2>1 DEF SteadyNext
<1>11. ASSUME i = Hops PROVE SteadyExit(c)'
  BY <1>2, <1>5, <1>11 DEF Steady, SteadyExit, exitVars, replyVars
<1>12. /\ down'[c][i] = Tail(down[c][i])
       /\ \A j \in Relays : j # i => down'[c][j] = down[c][j]
  BY <1>1, <1>2, TakeAt
<1>13. /\ up'[c][i] = Append(up[c][i], Cell("CREATED", i, {}))
       /\ \A j \in Relays : j # i => up'[c][j] = up[c][j]
  BY <1>1, <1>2, PutAt, SteadyEnds DEF Shapes, WireShapes
<1>14. Cell("CREATED", i, {})
         = Numbered("CREATED", "EXTENDED", c, i, "b", Said(c, i) + 1)
  <2>1. i <= Hops /\ LayersFrom(c, i, "b", i) = {}
    BY HopsFacts, LayersPeel DEF Relays
  <2> QED BY <1>8, <2>1 DEF Numbered
<1>15. SteadyDown(c, i)' /\ SteadyUp(c, i)'
  BY <1>1, <1>4, <1>8, <1>12, <1>13, <1>14, HopWires
<1>16. ASSUME i < Hops PROVE SteadyDown(c, i + 1)' /\ SteadyUp(c, i + 1)'
  <2>1. PICK k \in Relays : k = i + 1 /\ k # i
    BY <1>16, HopsFacts
  <2>2. /\ task[c][k] = "none" /\ task'[c][k] = "none"
        /\ down'[c][k] = down[c][k] /\ up'[c][k] = up[c][k]
    BY <1>3, <1>6, <1>12, <1>13, <1>16, <2>1
  <2> QED BY <2>1, <2>2, IdleWires
<1> QED BY <1>4, <1>9, <1>10, <1>11, <1>12, <1>13, <1>15, <1>16, HopSteady

LEMMA AddSteady ==
  ASSUME Calm, Shapes, LockInv, NEW c \in Circuits, Steady(c),
         NEW i \in Relays, AddCircuit(c, i)
  PROVE  Steady(c)'
<1>1. /\ task[c][i] = "adding" /\ ~Mine(c, i) /\ task[c][i] # "none"
  BY DEF AddCircuit, Steady, SteadyTask
<1>2. /\ registry' = [registry EXCEPT ![i][Id(c)] = Handler(c)]
      /\ task' = [task EXCEPT ![c][i] = "open"]
      /\ UNCHANGED <<clientVars, alive, extending, reader, down, up, exitVars>>
  BY DEF AddCircuit
<1>3. /\ task'[c][i] = "open"
      /\ \A j \in Relays : j # i => task'[c][j] = task[c][j]
  BY <1>2 DEF LockInv
<1>4. Local(c, i)
  <2>1. ClientStill(c)
    BY <1>2 DEF ClientStill, clientVars
  <2> QED BY <1>1, <1>2, <1>3, <2>1, HopLocal DEF exitVars
<1>5. Mine(c, i)' /\ ~HasNext(c, i)' /\ Fwd(c, i)' = 0 /\ Bwd(c, i)' = 0
  BY <1>2, SlotChanges
<1>6. /\ Heard(c, i) = i /\ Said(c, i) = i
      /\ i < Hops => /\ task[c][i + 1] = "none" /\ reader[c][i] = "none"
                     /\ extending[i] # c
      /\ i = Hops => exitSent[c] = 0 /\ c \notin serving /\ replying # c
  BY <1>1, SteadyNew
<1>7. Heard(c, i)' = Heard(c, i) /\ Said(c, i)' = Said(c, i)
  <2>1. i # 0 /\ i \in Nat
    BY DEF Relays
  <2>2. i = Hops => Written(c)' = 0
    BY <1>2, <1>6 DEF exitVars, replyVars, Written
  <2> QED BY <1>5, <1>6, <2>1, <2>2 DEF Heard, Said, Known
<1>8. SteadyTask(c, i)'
  BY <1>3 DEF SteadyTask
<1>9. ASSUME i < Hops PROVE SteadyNext(c, i)'
  <2>1. task'[c][i + 1] = "none" /\ reader'[c][i] = "none" /\ extending'[i] # c
    BY <1>2, <1>3, <1>6, <1>9, HopsFacts
  <2> QED BY <1>5, <2>1 DEF SteadyNext
<1>10. ASSUME i = Hops PROVE SteadyExit(c)'
  BY <1>2, <1>5, <1>10 DEF Steady, SteadyExit, exitVars, replyVars
<1>11. SteadyDown(c, i)' /\ SteadyUp(c, i)'
  BY <1>1, <1>2, <1>4, <1>7, HopWires
<1>12. ASSUME i < Hops PROVE SteadyDown(c, i + 1)' /\ SteadyUp(c, i + 1)'
  <2>1. PICK k \in Relays : k = i + 1 /\ k # i
    BY <1>12, HopsFacts
  <2>2. /\ task[c][k] = "none" /\ task'[c][k] = "none"
        /\ down'[c][k] = down[c][k] /\ up'[c][k] = up[c][k]
    BY <1>2, <1>3, <1>6, <1>12, <2>1
  <2> QED BY <2>1, <2>2, IdleWires
<1> QED BY <1>2, <1>4, <1>8, <1>9, <1>10, <1>11, <1>12, HopSteady

\* An EXTEND that a relay handles itself is the first cell it peels.
LEMMA ExtendSteady ==
  ASSUME Calm, Shapes, LockInv, NEW c \in Circuits, Steady(c),
         NEW i \in Relays, HandleExtend(c, i)
  PROVE  Steady(c)'
<1>1. /\ task[c][i] = "open" /\ task[c][i] # "none" /\ down[c][i] # <<>>
      /\ Mine(c, i) /\ ~HasNext(c, i) /\ extending[i] = None
  BY SteadyReads DEF HandleExtend, Has, HasNext, Unlocked
<1>2. i < Hops /\ extending[i] # c /\ i + 1 \in Relays /\ Hops \in Nat
      /\ i \in Nat /\ Fwd(c, i) \in Nat /\ Bwd(c, i) \in Nat
  <2>1. i + Fwd(c, i) + 1 <= Hops
    BY SteadyReads DEF HandleExtend
  <2>2. i \in Nat /\ Hops \in Nat /\ Fwd(c, i) \in Nat /\ Bwd(c, i) \in Nat
    BY SteadyNumbers, HopsFacts
  <2>3. i < Hops
    BY <2>1, <2>2
  <2> QED BY <1>1, <2>2, <2>3, NoneAssumption, HopsFacts
<1>3. /\ Fwd(c, i) = 0 /\ Bwd(c, i) = 0
      /\ task[c][i + 1] = "none" /\ reader[c][i] = "none"
  <2>1. SteadyNext(c, i)
    BY <1>2 DEF Steady
  <2> QED BY <1>1, <1>2, <2>1 DEF SteadyNext
<1>4. /\ Heard(c, i) = i /\ Said(c, i) = i
  BY <1>1, <1>2, <1>3, SteadyMine
<1>5. Peel(registry[i][Id(c)], i, Head(down[c][i])) = {}
  <2>1. Head(down[c][i]) = Numbered("CREATE", "EXTEND", c, i, "f", i + 1)
    BY <1>1, <1>2, <1>3, SteadyReads DEF HandleExtend
  <2>2. Head(down[c][i]).layers = {Block(c, i, "f", 0)}
    <3>1. LayersFrom(c, i, "f", i + 1) = {Block(c, i, "f", 0)}
      BY <1>2, LayersPeel
    <3> QED BY <2>1, <3>1, NumberedFields
  <2>3. registry[i][Id(c)].key = c /\ registry[i][Id(c)].fwd = 0
    BY <1>1, <1>3 DEF Mine, Fwd
  <2> QED BY <2>2, <2>3 DEF Peel, Apply
<1>6. /\ registry' = Peeled(i, c)
      /\ extending' = [extending EXCEPT ![i] = c]
      /\ task' = [task EXCEPT ![c][i + 1] = "open"]
      /\ down' = [TakeDown(c, i) EXCEPT ![c][i + 1] =
                    <<Cell("CREATE", i + 1, {})>>]
      /\ UNCHANGED <<clientVars, alive, reader, up, exitVars>>
  BY <1>2, <1>5 DEF HandleExtend, Calm
<1>7. /\ task'[c][i + 1] = "open" /\ extending'[i] = c
      /\ \A j \in Relays : j # i + 1 => task'[c][j] = task[c][j]
      /\ \A j \in Relays : j # i => extending'[j] = extending[j]
  BY <1>2, <1>6 DEF LockInv
<1>8. Local(c, i)
  <2>1. ClientStill(c)
    BY <1>6 DEF ClientStill, clientVars
  <2>2. \A j \in Relays :
          \/ task'[c][j] = task[c][j]
          \/ j = i + 1 /\ task[c][j] = "none" /\ task'[c][j] = "open"
    BY <1>3, <1>7
  <2>3. UNCHANGED <<reader, exitSent, serving, replyVars>>
    BY <1>6 DEF exitVars
  <2> QED BY <1>6, <1>7, <2>1, <2>2, <2>3, HopLocal
<1>9. /\ Mine(c, i)' /\ HasNext(c, i)' = HasNext(c, i)
      /\ Fwd(c, i)' = 1 /\ Bwd(c, i)' = 0
  <2>1. /\ Mine(c, i)' = Mine(c, i) /\ HasNext(c, i)' = HasNext(c, i)
        /\ Fwd(c, i)' = Fwd(c, i) + 1 /\ Bwd(c, i)' = Bwd(c, i)
    BY <1>6, SlotChanges
  <2> QED BY <1>1, <1>3, <2>1
<1>10. Heard(c, i)' = i + 1 /\ Said(c, i)' = i
  <2>1. i # 0 /\ i # Hops
    BY <1>2 DEF Relays
  <2>2. i + 0 = i
    BY <1>2
  <2> QED BY <1>9, <2>1, <2>2 DEF Heard, Said, Known
<1>11. SteadyTask(c, i)'
  BY <1>1, <1>2, <1>7 DEF SteadyTask
<1>12. SteadyNext(c, i)'
  BY <1>1, <1>3, <1>6, <1>7, <1>9 DEF SteadyNext
<1>13. PICK k \in Relays : k = i + 1 /\ k # i
  BY <1>2
<1>14. /\ ~Mine(c, k) /\ up[c][k] = <<>>
  BY <1>3, <1>13 DEF Steady, SteadyTask, SteadyUp
<1>15. Heard(c, k)' = i /\ Said(c, k)' = i
  <2>1. ~Mine(c, k)'
    BY <1>6, <1>13, <1>14, SlotChanges
  <2> QED BY <1>2, <1>7, <1>13, <2>1 DEF Heard, Said, Known
<1>16. /\ down'[c][k] = <<Cell("CREATE", k, {})>>
       /\ down'[c][i] = Tail(down[c][i])
       /\ \A j \in Relays : j # i /\ j # k => down'[c][j] = down[c][j]
  <2>1. PICK ch \in Wires : ch = TakeDown(c, i)
    BY <1>1, TakeAt
  <2>2. /\ ch[c][i] = Tail(down[c][i])
        /\ \A j \in Relays : j # i => ch[c][j] = down[c][j]
    BY <1>1, <2>1, TakeAt
  <2>3. down' = [ch EXCEPT ![c][k] = <<Cell("CREATE", k, {})>>]
    BY <1>6, <1>13, <2>1
  <2>4. /\ down'[c][k] = <<Cell("CREATE", k, {})>>
        /\ \A j \in Relays : j # k => down'[c][j] = ch[c][j]
    BY <2>3 DEF Wires
  <2> QED BY <1>13, <2>2, <2>4
<1>17. SteadyDown(c, i)' /\ SteadyUp(c, i)'
  BY <1>1, <1>4, <1>6, <1>8, <1>10, <1>16, HopWires
<1>18. SteadyDown(c, k)'
  <2>1. PICK f : f = DownCells(c, k)
    OBVIOUS
  <2>2. f = DownCells(c, k)'
    BY <2>1 DEF DownCells, Numbered, Cell, LayersFrom, Block
  <2>3. f[k] = Cell("CREATE", k, {})
    <3>1. LayersFrom(c, k, "f", k) = {} /\ k \in Nat /\ k <= Hops
      <4>1. k \in Nat /\ k <= Hops
        BY HopsFacts DEF Relays
      <4> QED BY <4>1, LayersPeel
    <3>2. f[k] = Numbered("CREATE", "EXTEND", c, k, "f", k)
      BY <2>1, <3>1 DEF DownCells
    <3> QED BY <3>1, <3>2 DEF Numbered
  <2>4. Line(<<f[i + 1]>>, f, i, i + 1)
    BY <1>2, LineFirst
  <2>5. PICK j : j = k - 1 /\ j = i
    BY <1>2, <1>13
  <2>6. Heard(c, j)' = i + 1
    BY <1>10, <2>5
  <2>7. task'[c][k] # "none"
    BY <1>7, <1>13
  <2> QED BY <1>13, <1>15, <1>16, <2>2, <2>3, <2>4, <2>5, <2>6, <2>7
      DEF SteadyDown
<1>19. SteadyUp(c, k)'
  <2>1. Line(<<>>, UpCells(c, k)', i, i)
    BY <1>2, LineFirst
  <2>2. PICK j : j = k - 1 /\ j = i
    BY <1>2, <1>13
  <2>3. Said(c, j)' = i /\ task'[c][k] # "none" /\ up'[c][k] = <<>>
    BY <1>6, <1>7, <1>10, <1>13, <1>14, <2>2
  <2> QED BY <1>15, <2>1, <2>2, <2>3 DEF SteadyUp
<1> QED BY <1>2, <1>6, <1>8, <1>11, <1>12, <1>13, <1>16, <1>17, <1>18, <1>19,
           HopSteady

\* A hop that is waited for answers CREATED, and says EXTENDED upstream.
LEMMA ExtendedSteady ==
  ASSUME Calm, Shapes, LockInv, NEW c \in Circuits, Steady(c),
         NEW i \in Relays, ExtendDone(c, i)
  PROVE  Steady(c)'
<1>1. /\ extending[i] = c /\ i < Hops /\ i # Hops /\ i + 1 \in Relays
      /\ i \in Nat /\ Hops \in Nat
  BY NoneAssumption, HopsFacts DEF ExtendDone, Shapes, RelayShapes
<1>2. PICK k \in Relays : k = i + 1 /\ k # i
  BY <1>1
<1>3. /\ SteadyNext(c, i) /\ Mine(c, i) /\ Fwd(c, i) >= 1 /\ Bwd(c, i) = 0
      /\ task[c][k] # "none" /\ up[c][k] # <<>>
      /\ task[c][i] = "open" /\ task[c][i] # "none"
  BY <1>1, <1>2 DEF Steady, SteadyNext, SteadyTask, ExtendDone
<1>4. Said(c, i) = i /\ Heard(c, i) = i + Fwd(c, i)
  BY <1>1, <1>3, SteadyMine
<1>5. Head(up[c][k]).n = k
  <2>1. PICK j : j = k - 1 /\ j = i
    BY <1>1, <1>2
  <2>2. Head(up[c][k]) = Numbered("CREATED", "EXTENDED", c, k, "b",
                                  Said(c, j) + 1)
    BY <1>3, <2>1, SteadyHead
  <2>3. Said(c, j) + 1 = k /\ k <= Hops
    BY <1>1, <1>2, <1>4, <2>1
  <2> QED BY <2>2, <2>3, NumberedFields
<1>6. Cell("EXTENDED", Head(up[c][k]).n,
           {Block(registry[i][Id(c)].key, i, "b", registry[i][Id(c)].bwd)})
        = Numbered("CREATED", "EXTENDED", c, i, "b", Said(c, i) + 1)
  <2>1. LayersFrom(c, i, "b", k) = {Block(c, i, "b", 0)}
    <3>1. LayersFrom(c, i, "b", i + 1) = {Block(c, i, "b", 0)}
      BY <1>1, LayersPeel
    <3> QED BY <1>2, <3>1
  <2>2. registry[i][Id(c)].key = c /\ registry[i][Id(c)].bwd = 0
    BY <1>3 DEF Mine, Bwd
  <2>3. Said(c, i) + 1 = k /\ k <= Hops
    BY <1>1, <1>2, <1>4
  <2> QED BY <1>2, <1>5, <2>1, <2>2, <2>3 DEF Numbered
<1>7. PICK cell : cell = Numbered("CREATED", "EXTENDED", c, i, "b",
                                  Said(c, i) + 1)
  OBVIOUS
<1>8. ~UpstreamGone(c, i) /\ ReadsUp(c, i)
  BY <1>3, SteadyEnds
<1>9. /\ registry' = [registry EXCEPT ![i][Id(c)].next = TRUE,
                                      ![i][Id(c)].bwd = @ + 1]
      /\ up' = PutUp(TakeUp(c, k), c, i, cell)
      /\ reader' = [reader EXCEPT ![c][i] = "running"]
      /\ extending' = [extending EXCEPT ![i] = None]
      /\ UNCHANGED <<task, clientVars, alive, down, exitVars>>
  BY <1>2, <1>6, <1>7, <1>8 DEF ExtendDone
<1>10. /\ reader'[c][i] = "running" /\ extending'[i] # c
       /\ \A j \in Relays : j # i => /\ reader'[c][j] = reader[c][j]
                                     /\ extending'[j] = extending[j]
  BY <1>9, NoneAssumption DEF LockInv, Shapes, RelayShapes
<1>11. Local(c, i)
  <2>1. ClientStill(c)
    BY <1>9 DEF ClientStill, clientVars
  <2>2. UNCHANGED <<task, exitSent, serving, replyVars>>
    BY <1>9 DEF exitVars
  <2> QED BY <1>9, <1>10, <2>1, <2>2, HopLocal
<1>12. /\ Mine(c, i)' /\ HasNext(c, i)' /\ Fwd(c, i)' = Fwd(c, i)
       /\ Bwd(c, i)' = 1
  <2>1. /\ Mine(c, i)' = Mine(c, i) /\ HasNext(c, i)'
        /\ Fwd(c, i)' = Fwd(c, i) /\ Bwd(c, i)' = Bwd(c, i) + 1
    BY <1>9, SlotChanges
  <2> QED BY <1>3, <2>1
<1>13. Heard(c, i)' = Heard(c, i) /\ Said(c, i)' = Said(c, i) + 1
  <2>1. i # 0
    BY DEF Relays
  <2> QED BY <1>1, <1>3, <1>4, <1>12, <2>1 DEF Heard, Said, Known
<1>14. SteadyTask(c, i)'
  BY <1>3, <1>9 DEF SteadyTask
<1>15. SteadyNext(c, i)'
  <2>1. task'[c][i + 1] # "none"
    BY <1>2, <1>3, <1>9
  <2> QED BY <1>3, <1>10, <1>12, <2>1 DEF SteadyNext
<1>16. /\ up'[c][k] = Tail(up[c][k]) /\ up'[c][i] = Append(up[c][i], cell)
       /\ \A j \in Relays : j # i /\ j # k => up'[c][j] = up[c][j]
  <2>1. PICK ch \in Wires : ch = TakeUp(c, k)
    BY <1>3, TakeAt
  <2>2. /\ ch[c][k] = Tail(up[c][k])
        /\ \A j \in Relays : j # k => ch[c][j] = up[c][j]
    BY <1>3, <2>1, TakeAt
  <2>3. up' = PutUp(ch, c, i, cell)
    BY <1>9, <2>1
  <2>4. /\ up'[c][i] = Append(ch[c][i], cell)
        /\ \A j \in Relays : j # i => up'[c][j] = ch[c][j]
    BY <1>8, <2>3, PutAt
  <2> QED BY <1>2, <2>2, <2>4
<1>17. SteadyDown(c, i)' /\ SteadyUp(c, i)'
  BY <1>3, <1>7, <1>9, <1>11, <1>13, <1>16, HopWires
<1>18. SteadyDown(c, i + 1)' /\ SteadyUp(c, i + 1)'
  BY <1>1, <1>2, <1>3, <1>9, <1>11, <1>13, <1>16, NextWires
<1> QED BY <1>1, <1>2, <1>9, <1>11, <1>14, <1>15, <1>16, <1>17, <1>18,
           HopSteady

\* One layer off, or one on.
LEMMA LayerMoves ==
  ASSUME NEW c, NEW i \in Relays, i < Hops, NEW dir, NEW n \in Nat,
         NEW o, o = i + n + 1, NEW k, k = i + 1
  PROVE  /\ Apply(LayersFrom(c, i, dir, o), Block(c, i, dir, n))
              = LayersFrom(c, k, dir, o)
         /\ Apply(LayersFrom(c, k, dir, o), Block(c, i, dir, n))
              = LayersFrom(c, i, dir, o)
<1>1. o \in Nat /\ o >= i + 1 /\ o - i - 1 = n
  BY DEF Relays
<1>2. \A p \in Nat : p >= i + 1 =>
        /\ LayersFrom(c, i, dir, p) = LayersFrom(c, i + 1, dir, p)
                                        \union {Block(c, i, dir, p - i - 1)}
        /\ Block(c, i, dir, p - i - 1) \notin LayersFrom(c, i + 1, dir, p)
  BY LayersPeel
<1>3. /\ LayersFrom(c, i, dir, o)
           = LayersFrom(c, k, dir, o) \union {Block(c, i, dir, n)}
      /\ Block(c, i, dir, n) \notin LayersFrom(c, k, dir, o)
  BY <1>1, <1>2
<1> QED BY <1>3 DEF Apply

\* The cell is the next hop's cell but for that layer.
LEMMA SameNumber ==
  ASSUME NEW create, NEW extend, NEW c, NEW i, NEW k, NEW dir, NEW o,
         o # i, o # k
  PROVE  [Numbered(create, extend, c, i, dir, o)
            EXCEPT !.layers = LayersFrom(c, k, dir, o)]
           = Numbered(create, extend, c, k, dir, o)
BY DEF Numbered, Cell

LEMMA RelaySteady ==
  ASSUME Calm, Shapes, LockInv, NEW c \in Circuits, Steady(c),
         NEW i \in Relays, HandleRelay(c, i)
  PROVE  Steady(c)'
<1>1. /\ i < Hops /\ i # Hops /\ i \in Nat /\ Hops \in Nat /\ i # 0
      /\ extending[i] # c /\ Fwd(c, i) \in Nat /\ Bwd(c, i) \in Nat
  <2>1. i < Hops /\ extending[i] # c
    BY NoneAssumption DEF HandleRelay, Unlocked
  <2>2. i \in Nat /\ Hops \in Nat /\ i # 0
    BY HopsFacts DEF Relays
  <2> QED BY <2>1, <2>2, SteadyNumbers
<1>2. PICK k \in Relays : k = i + 1 /\ k # i
  BY <1>1, HopsFacts
<1>3. /\ task[c][i] = "open" /\ task[c][i] # "none" /\ down[c][i] # <<>>
      /\ Mine(c, i)
      /\ Head(down[c][i]) = Numbered("CREATE", "EXTEND", c, i, "f",
                                     i + Fwd(c, i) + 1)
      /\ \/ i + Fwd(c, i) + 1 > Hops
         \/ HasNext(c, i)
  BY SteadyReads DEF HandleRelay, Has, HasNext
<1>4. /\ HasNext(c, i) /\ Fwd(c, i) >= 1 /\ Bwd(c, i) >= 1
      /\ task[c][k] # "none"
  <2>1. SteadyNext(c, i)
    BY <1>1 DEF Steady
  <2>2. Fwd(c, i) >= 1
    <3>1. CASE i + Fwd(c, i) + 1 > Hops
      BY <1>1, <3>1
    <3>2. CASE HasNext(c, i)
      BY <1>3, <2>1, <3>2 DEF SteadyNext
    <3> QED BY <1>3, <3>1, <3>2
  <2>3. Bwd(c, i) >= 1
    BY <1>1, <1>3, <2>1, <2>2 DEF SteadyNext
  <2> QED BY <1>2, <1>3, <2>1, <2>2, <2>3 DEF SteadyNext
<1>5. Heard(c, i) = i + Fwd(c, i)
  BY <1>3, SteadyMine
<1>6. PICK o \in Nat : o = i + Fwd(c, i) + 1 /\ o >= i + 2
  BY <1>1, <1>4
<1>7. PICK m, cell :
        /\ m = Head(down[c][i])
        /\ cell = Numbered("CREATE", "EXTEND", c, k, "f", o)
  OBVIOUS
<1>8. [m EXCEPT !.layers = Peel(registry[i][Id(c)], i, m)] = cell
  <2>1. m = Numbered("CREATE", "EXTEND", c, i, "f", o) /\ o # i /\ o # k
    BY <1>1, <1>2, <1>3, <1>6, <1>7
  <2>2. m.layers = LayersFrom(c, i, "f", o)
    BY <2>1, NumberedFields
  <2>3. Apply(LayersFrom(c, i, "f", o), Block(c, i, "f", Fwd(c, i)))
          = LayersFrom(c, k, "f", o)
    BY <1>1, <1>2, <1>6, LayerMoves
  <2>4. registry[i][Id(c)].key = c /\ registry[i][Id(c)].fwd = Fwd(c, i)
    BY <1>3 DEF Mine, Fwd
  <2>5. Peel(registry[i][Id(c)], i, m) = LayersFrom(c, k, "f", o)
    BY <2>2, <2>3, <2>4 DEF Peel
  <2>6. [m EXCEPT !.layers = LayersFrom(c, k, "f", o)] = cell
    BY <1>7, <2>1, SameNumber
  <2> QED BY <2>5, <2>6
<1>9. ReadsDown(c, k) /\ ~DownstreamGone(c, k)
  BY <1>4, SteadyEnds
<1>10. /\ registry' = Peeled(i, c)
       /\ down' = PutDown(TakeDown(c, i), c, k, cell)
       /\ UNCHANGED <<task, clientVars, alive, extending, reader, up, exitVars>>
  <2>1. registry[i][Id(c)].next /\ registry[i][Id(c)].key = c
    BY <1>3, <1>4 DEF HasNext, Mine
  <2> QED BY <1>2, <1>7, <1>8, <1>9, <2>1 DEF HandleRelay
<1>11. Local(c, i)
  <2>1. ClientStill(c)
    BY <1>10 DEF ClientStill, clientVars
  <2>2. UNCHANGED <<task, exitSent, serving, replyVars>>
    BY <1>10 DEF exitVars
  <2> QED BY <1>10, <2>1, <2>2, HopLocal
<1>12. /\ Mine(c, i)' = Mine(c, i) /\ HasNext(c, i)' = HasNext(c, i)
       /\ Fwd(c, i)' = Fwd(c, i) + 1 /\ Bwd(c, i)' = Bwd(c, i)
  BY <1>10, SlotChanges
<1>13. Heard(c, i)' = Heard(c, i) + 1 /\ Said(c, i)' = Said(c, i)
  <2>1. Heard(c, i)' = i + (Fwd(c, i) + 1)
    BY <1>1, <1>3, <1>12 DEF Heard, Known
  <2>2. Said(c, i)' = Said(c, i)
    BY <1>1, <1>3, <1>12 DEF Said, Known
  <2> QED BY <1>1, <1>5, <2>1, <2>2
<1>14. SteadyTask(c, i)'
  BY <1>3, <1>10 DEF SteadyTask
<1>15. SteadyNext(c, i)'
  <2>1. SteadyNext(c, i) /\ Fwd(c, i)' >= 1 /\ task'[c][i + 1] # "none"
    BY <1>1, <1>2, <1>4, <1>10, <1>12 DEF Steady
  <2> QED BY <1>3, <1>4, <1>10, <1>12, <2>1 DEF SteadyNext
<1>16. /\ down'[c][i] = Tail(down[c][i])
       /\ down'[c][k] = Append(down[c][k], cell)
       /\ \A j \in Relays : j # i /\ j # k => down'[c][j] = down[c][j]
  <2>1. PICK ch \in Wires : ch = TakeDown(c, i)
    BY <1>3, TakeAt
  <2>2. /\ ch[c][i] = Tail(down[c][i])
        /\ \A j \in Relays : j # i => ch[c][j] = down[c][j]
    BY <1>3, <2>1, TakeAt
  <2>3. down' = PutDown(ch, c, k, cell)
    BY <1>10, <2>1
  <2>4. /\ down'[c][k] = Append(ch[c][k], cell)
        /\ \A j \in Relays : j # k => down'[c][j] = ch[c][j]
    BY <1>9, <2>3, PutAt
  <2> QED BY <1>2, <2>2, <2>4
<1>17. SteadyDown(c, i)' /\ SteadyUp(c, i)'
  BY <1>3, <1>10, <1>11, <1>13, <1>16, HopWires
<1>18. cell = Numbered("CREATE", "EXTEND", c, i + 1, "f", Heard(c, i) + 1)
  BY <1>2, <1>5, <1>6, <1>7
<1>19. SteadyDown(c, i + 1)' /\ SteadyUp(c, i + 1)'
  BY <1>1, <1>2, <1>4, <1>10, <1>11, <1>13, <1>16, <1>18, NextWires
<1> QED BY <1>1, <1>2, <1>10, <1>11, <1>14, <1>15, <1>16, <1>17, <1>19,
           HopSteady

\* The exit takes the last layer off, and the cell is plain.
LEMMA ExitSteady ==
  ASSUME Calm, Shapes, LockInv, ReplyFits, NEW c \in Circuits, Steady(c),
         HandleAtExit(c)
  PROVE  Steady(c)'
<1>1. /\ Hops \in Relays /\ Hops \in Nat /\ Hops # 0 /\ Fwd(c, Hops) \in Nat
      /\ Bwd(c, Hops) \in Nat
  BY HopsFacts, SteadyNumbers
<1>2. /\ task[c][Hops] = "open" /\ task[c][Hops] # "none"
      /\ down[c][Hops] # <<>> /\ Mine(c, Hops)
      /\ Head(down[c][Hops]) = Numbered("CREATE", "EXTEND", c, Hops, "f",
                                        Hops + Fwd(c, Hops) + 1)
  BY <1>1, SteadyReads DEF HandleAtExit, Has
<1>3. PICK o : o = Hops + Fwd(c, Hops) + 1
  BY <1>1
<1>4. Peel(registry[Hops][Id(c)], Hops, Head(down[c][Hops])) = {}
  <2>1. Head(down[c][Hops]).layers = LayersFrom(c, Hops, "f", o)
    BY <1>2, <1>3, NumberedFields
  <2>2. LayersFrom(c, Hops, "f", o) = {Block(c, Hops, "f", Fwd(c, Hops))}
    BY <1>1, <1>3, ExitLayer
  <2>3. /\ registry[Hops][Id(c)].key = c
        /\ registry[Hops][Id(c)].fwd = Fwd(c, Hops)
    BY <1>2 DEF Mine, Fwd
  <2> QED BY <1>3, <2>1, <2>2, <2>3 DEF Peel, Apply
<1>5. /\ registry' = Peeled(Hops, c) /\ serving' \subseteq serving \union {c}
      /\ down' = TakeDown(c, Hops)
      /\ replying = None /\ replying' \in {None, c} /\ tag' = 0
      /\ UNCHANGED <<task, clientVars, alive, extending, reader, up, exitSent>>
  BY <1>4 DEF HandleAtExit, Unlocked, ReplyFits
<1>6. Local(c, Hops)
  <2>1. ClientStill(c)
    BY <1>5 DEF ClientStill, clientVars
  <2> QED BY <1>1, <1>5, <2>1, HopLocal
<1>7. /\ Mine(c, Hops)' = Mine(c, Hops) /\ Fwd(c, Hops)' = Fwd(c, Hops) + 1
      /\ Bwd(c, Hops)' = Bwd(c, Hops)
  BY <1>1, <1>5, SlotChanges
<1>8. Heard(c, Hops)' = Heard(c, Hops) + 1 /\ Said(c, Hops)' = Said(c, Hops)
  <2>1. Heard(c, Hops)' = Hops + (Fwd(c, Hops) + 1)
    BY <1>1, <1>2, <1>7 DEF Heard, Known
  <2>2. Heard(c, Hops) = Hops + Fwd(c, Hops)
    BY <1>1, <1>2, SteadyMine
  <2>3. Written(c)' = Written(c)
    BY <1>5, NoneAssumption DEF Written
  <2>4. Said(c, Hops)' = Said(c, Hops)
    BY <1>1, <1>2, <1>5, <1>7, <2>3 DEF Said, Known
  <2> QED BY <1>1, <2>1, <2>2, <2>4
<1>9. SteadyTask(c, Hops)'
  BY <1>2, <1>5 DEF SteadyTask
<1>10. SteadyExit(c)'
  BY <1>2, <1>5, <1>7 DEF Steady, SteadyExit
<1>11. /\ down'[c][Hops] = Tail(down[c][Hops])
       /\ \A j \in Relays : j # Hops => down'[c][j] = down[c][j]
  BY <1>1, <1>2, <1>5, TakeAt
<1>12. SteadyDown(c, Hops)' /\ SteadyUp(c, Hops)'
  BY <1>1, <1>2, <1>5, <1>6, <1>8, <1>11, HopWires
<1> QED BY <1>1, <1>5, <1>6, <1>9, <1>10, <1>11, <1>12, HopSteady

\* A next-hop reader puts one layer on.
LEMMA BackwardSteady ==
  ASSUME Calm, Shapes, LockInv, NEW c \in Circuits, Steady(c),
         NEW i \in Relays, Backward(c, i)
  PROVE  Steady(c)'
<1>1. /\ i < Hops /\ i # Hops /\ i \in Nat /\ Hops \in Nat /\ i # 0
      /\ Fwd(c, i) \in Nat /\ Bwd(c, i) \in Nat
  <2>1. i < Hops
    BY DEF Backward
  <2>2. i \in Nat /\ Hops \in Nat /\ i # 0
    BY HopsFacts DEF Relays
  <2> QED BY <2>1, <2>2, SteadyNumbers
<1>2. PICK k \in Relays : k = i + 1 /\ k # i
  BY <1>1, HopsFacts
<1>3. /\ SteadyNext(c, i) /\ Mine(c, i) /\ Fwd(c, i) >= 1 /\ Bwd(c, i) >= 1
      /\ task[c][k] # "none" /\ up[c][k] # <<>>
      /\ task[c][i] = "open" /\ task[c][i] # "none"
  BY <1>1, <1>2 DEF Steady, SteadyNext, SteadyTask, Backward
<1>4. Said(c, i) = i + Bwd(c, i) /\ Heard(c, i) = i + Fwd(c, i)
  BY <1>1, <1>3, SteadyMine
<1>5. PICK o \in Nat : /\ o = i + Bwd(c, i) + 1 /\ o = Said(c, i) + 1
                       /\ o # i /\ o # k
  BY <1>1, <1>2, <1>3, <1>4
<1>6. Head(up[c][k]) = Numbered("CREATED", "EXTENDED", c, k, "b", o)
  <2>1. PICK j : j = k - 1 /\ j = i
    BY <1>1, <1>2
  <2>2. Head(up[c][k]) = Numbered("CREATED", "EXTENDED", c, k, "b",
                                  Said(c, j) + 1)
    BY <1>3, <2>1, SteadyHead
  <2> QED BY <1>5, <2>1, <2>2
<1>7. PICK cell : cell = Numbered("CREATED", "EXTENDED", c, i, "b", o)
  OBVIOUS
<1>8. /\ Head(up[c][k]).cmd # "DESTROY"
      /\ [Head(up[c][k]) EXCEPT !.layers =
            Apply(@, Block(registry[i][Id(c)].key, i, "b",
                           registry[i][Id(c)].bwd))] = cell
  <2>1. Head(up[c][k]).cmd # "DESTROY"
    BY <1>5, <1>6, NumberedFields
  <2>2. Head(up[c][k]).layers = LayersFrom(c, k, "b", o)
    BY <1>6, NumberedFields
  <2>3. registry[i][Id(c)].key = c /\ registry[i][Id(c)].bwd = Bwd(c, i)
    BY <1>3 DEF Mine, Bwd
  <2>4. Apply(LayersFrom(c, k, "b", o), Block(c, i, "b", Bwd(c, i)))
          = LayersFrom(c, i, "b", o)
    BY <1>1, <1>2, <1>5, LayerMoves
  <2>5. [Numbered("CREATED", "EXTENDED", c, k, "b", o)
           EXCEPT !.layers = LayersFrom(c, i, "b", o)] = cell
    BY <1>5, <1>7, SameNumber
  <2> DEFINE m == Numbered("CREATED", "EXTENDED", c, k, "b", o)
  <2>6. m.layers = LayersFrom(c, k, "b", o)
    BY NumberedFields
  <2> HIDE DEF m
  <2>7. [m EXCEPT !.layers = Apply(@, Block(c, i, "b", Bwd(c, i)))]
          = [m EXCEPT !.layers = Apply(m.layers, Block(c, i, "b", Bwd(c, i)))]
    OBVIOUS
  <2>8. [m EXCEPT !.layers = Apply(@, Block(c, i, "b", Bwd(c, i)))]
          = [m EXCEPT !.layers = LayersFrom(c, i, "b", o)]
    BY <2>4, <2>6, <2>7, Zenon
  <2>9. [m EXCEPT !.layers = LayersFrom(c, i, "b", o)] = cell
    BY <2>5 DEF m
  <2>10. Head(up[c][k]) = m
    BY <1>6 DEF m
  <2> QED BY <2>1, <2>3, <2>8, <2>9, <2>10
<1>9. ~UpstreamGone(c, i) /\ ReadsUp(c, i)
  BY <1>3, SteadyEnds
<1>10. /\ registry' = [registry EXCEPT ![i][Id(c)].bwd = @ + 1]
       /\ up' = PutUp(TakeUp(c, k), c, i, cell)
       /\ UNCHANGED <<reader, clientVars, alive, extending, task, down,
                      exitVars>>
  BY <1>2, <1>8, <1>9 DEF Backward
<1>11. Local(c, i)
  <2>1. ClientStill(c)
    BY <1>10 DEF ClientStill, clientVars
  <2>2. UNCHANGED <<task, exitSent, serving, replyVars>>
    BY <1>10 DEF exitVars
  <2> QED BY <1>10, <2>1, <2>2, HopLocal
<1>12. /\ Mine(c, i)' = Mine(c, i) /\ HasNext(c, i)' = HasNext(c, i)
       /\ Fwd(c, i)' = Fwd(c, i) /\ Bwd(c, i)' = Bwd(c, i) + 1
  BY <1>10, SlotChanges
<1>13. Heard(c, i)' = Heard(c, i) /\ Said(c, i)' = Said(c, i) + 1
  <2>1. Said(c, i)' = i + (Bwd(c, i) + 1)
    BY <1>1, <1>3, <1>12 DEF Said, Known
  <2>2. Heard(c, i)' = Heard(c, i)
    BY <1>1, <1>3, <1>12 DEF Heard, Known
  <2> QED BY <1>1, <1>4, <2>1, <2>2
<1>14. SteadyTask(c, i)'
  BY <1>3, <1>10 DEF SteadyTask
<1>15. SteadyNext(c, i)'
  <2>1. Bwd(c, i)' >= 1 /\ Bwd(c, i)' # 0 /\ task'[c][i + 1] # "none"
    BY <1>1, <1>2, <1>3, <1>10, <1>12
  <2>2. Bwd(c, i) # 0
    BY <1>1, <1>3
  <2> QED BY <1>3, <1>10, <1>12, <2>1, <2>2 DEF SteadyNext
<1>16. /\ up'[c][k] = Tail(up[c][k]) /\ up'[c][i] = Append(up[c][i], cell)
       /\ \A j \in Relays : j # i /\ j # k => up'[c][j] = up[c][j]
  <2>1. PICK ch \in Wires : ch = TakeUp(c, k)
    BY <1>3, TakeAt
  <2>2. /\ ch[c][k] = Tail(up[c][k])
        /\ \A j \in Relays : j # k => ch[c][j] = up[c][j]
    BY <1>3, <2>1, TakeAt
  <2>3. up' = PutUp(ch, c, i, cell)
    BY <1>10, <2>1
  <2>4. /\ up'[c][i] = Append(ch[c][i], cell)
        /\ \A j \in Relays : j # i => up'[c][j] = ch[c][j]
    BY <1>9, <2>3, PutAt
  <2> QED BY <1>2, <2>2, <2>4
<1>17. cell = Numbered("CREATED", "EXTENDED", c, i, "b", Said(c, i) + 1)
  BY <1>5, <1>7
<1>18. SteadyDown(c, i)' /\ SteadyUp(c, i)'
  BY <1>3, <1>10, <1>11, <1>13, <1>16, <1>17, HopWires
<1>19. SteadyDown(c, i + 1)' /\ SteadyUp(c, i + 1)'
  BY <1>1, <1>2, <1>3, <1>10, <1>11, <1>13, <1>16, NextWires
<1> QED BY <1>1, <1>2, <1>10, <1>11, <1>14, <1>15, <1>16, <1>18, <1>19,
           HopSteady

\* The exit's stream tasks put on the only layer there is.
LEMMA StreamSteady ==
  ASSUME Calm, Shapes, LockInv, NEW c \in Circuits, Steady(c),
         ExitSend(c) \/ StreamsEnd(c), c \notin overtaken'
  PROVE  Steady(c)'
<1>1. /\ Hops \in Relays /\ Hops \in Nat /\ exitSent[c] \in Nat
      /\ Mine(c, Hops) /\ task[c][Hops] = "open" /\ task[c][Hops] # "none"
  <2>1. c \in serving
    BY DEF ExitSend, StreamsEnd
  <2> QED BY <2>1, HopsFacts, SteadyNumbers
          DEF Steady, SteadyExit, SteadyTask
<1>2. /\ UNCHANGED <<clientVars, relayVars, down>>
      /\ c \in serving' => c \in serving
      /\ UNCHANGED <<replying, tag>>
  BY DEF ExitSend, StreamsEnd, replyVars
<1>3. /\ UNCHANGED <<alive, registry, extending, task, reader, down>>
      /\ ClientStill(c)
  BY <1>2 DEF clientVars, relayVars, ClientStill
<1>4. Local(c, Hops)
  BY <1>1, <1>3, HopLocal
<1>5. Said(c, Hops) = Hops + Written(c) /\ Heard(c, Hops)' = Heard(c, Hops)
      /\ Said(c, Hops)' = Hops + Written(c)'
      /\ Mine(c, Hops)' = Mine(c, Hops)
  <2>1. Mine(c, Hops)' = Mine(c, Hops) /\ Fwd(c, Hops)' = Fwd(c, Hops)
    BY <1>1, <1>3, SlotChanges
  <2>2. Hops # 0
    BY HopsFacts
  <2>3. Heard(c, Hops)' = Heard(c, Hops)
    BY <1>1, <2>1, <2>2 DEF Heard, Known
  <2>4. Said(c, Hops)' = Hops + Written(c)'
    BY <1>1, <2>1, <2>2 DEF Said, Known
  <2> QED BY <1>1, <2>1, <2>3, <2>4, SteadyMine
<1>5a. ExitSend(c) => /\ ~(replying = c /\ tag # 0)
                     /\ exitSent'[c] = exitSent[c] + 1
                     /\ Written(c) = exitSent[c]
                     /\ Written(c)' = exitSent[c] + 1
  <2> SUFFICES ASSUME ExitSend(c)
               PROVE  /\ ~(replying = c /\ tag # 0)
                      /\ exitSent'[c] = exitSent[c] + 1
                      /\ Written(c) = exitSent[c]
                      /\ Written(c)' = exitSent[c] + 1
    OBVIOUS
  <2>1. ~(replying = c /\ tag # 0)
    BY DEF ExitSend
  <2>2. exitSent'[c] = exitSent[c] + 1
    BY DEF ExitSend, Shapes, ExitShapes
  <2>3. \A n : 0 \notin 1 .. n
    OBVIOUS
  <2> QED BY <1>2, <2>1, <2>2, <2>3 DEF Written
<1>6. SteadyTask(c, Hops)' /\ SteadyExit(c)'
  <2>1. SteadyTask(c, Hops) /\ SteadyExit(c)
    BY <1>1 DEF Steady
  <2>2. replying' = c => tag' = 0 \/ tag' = exitSent'[c]
    BY <1>2, <1>5a, <2>1 DEF SteadyExit, StreamsEnd
  <2> QED BY <1>1, <1>2, <1>3, <1>5, <2>1, <2>2 DEF SteadyTask, SteadyExit
<1>7. SteadyUp(c, Hops)' /\ \A j \in Relays : j # Hops => up'[c][j] = up[c][j]
  <2>1. CASE ExitSend(c)
    <3>1. Cell("DATA", exitSent[c] + 1, {Block(c, Hops, "b", exitSent[c])})
            = Numbered("CREATED", "EXTENDED", c, Hops, "b", Said(c, Hops) + 1)
      <4>1. PICK o : /\ o = Said(c, Hops) + 1 /\ o # Hops /\ ~(o <= Hops)
                     /\ o - Hops = exitSent[c] + 1
                     /\ o = Hops + exitSent[c] + 1
        BY <1>1, <1>5, <1>5a, <2>1
      <4>2. LayersFrom(c, Hops, "b", o) = {Block(c, Hops, "b", exitSent[c])}
        BY <1>1, <4>1, ExitLayer
      <4> QED BY <4>1, <4>2 DEF Numbered
    <3>2. PICK cell : cell = Numbered("CREATED", "EXTENDED", c, Hops, "b",
                                      Said(c, Hops) + 1)
      OBVIOUS
    <3>3. /\ up' = PutUp(up, c, Hops, cell) /\ exitSent'[c] = exitSent[c] + 1
      BY <2>1, <3>1, <3>2 DEF ExitSend, Shapes, ExitShapes
    <3>4. Said(c, Hops)' = Said(c, Hops) + 1
      BY <1>1, <1>5, <1>5a, <2>1
    <3>5. ReadsUp(c, Hops) /\ up \in Wires
      BY <1>1, SteadyEnds DEF Shapes, WireShapes
    <3>6. /\ up'[c][Hops] = Append(up[c][Hops], cell)
          /\ \A j \in Relays : j # Hops => up'[c][j] = up[c][j]
      <4>1. PICK k \in Relays : k = Hops
        BY <1>1
      <4>2. /\ PutUp(up, c, k, cell)[c][k] = Append(up[c][k], cell)
            /\ \A j \in Relays : j # k => PutUp(up, c, k, cell)[c][j] = up[c][j]
        BY <3>5, <4>1, PutAt
      <4> QED BY <3>3, <4>1, <4>2
    <3>7. SteadyUp(c, Hops)'
      BY <1>1, <1>4, <3>2, <3>4, <3>6, HopWires
    <3> QED BY <3>6, <3>7
  <2>2. CASE StreamsEnd(c)
    <3>1. UNCHANGED <<up, exitSent>>
      BY <2>2 DEF StreamsEnd
    <3>2. Said(c, Hops)' = Said(c, Hops)
      BY <1>2, <1>5, <3>1 DEF Written
    <3>3. SteadyUp(c, Hops)'
      BY <1>1, <1>4, <3>1, <3>2, HopWires
    <3> QED BY <3>1, <3>3
  <2> QED BY <2>1, <2>2
<1>8. SteadyDown(c, Hops)'
  BY <1>1, <1>3, <1>4, <1>5, HopWires
<1> QED BY <1>1, <1>3, <1>4, <1>6, <1>7, <1>8, HopSteady

\* The task writes the END it owes, the last cell tagged, or tags it.
LEMMA ReplySteady ==
  ASSUME Calm, Shapes, LockInv, ReplyInv, NEW c \in Circuits, Steady(c),
         TagReply(c) \/ WriteReply(c)
  PROVE  Steady(c)'
<1>1. /\ Hops \in Relays /\ Hops \in Nat /\ exitSent[c] \in Nat
      /\ Written(c) \in Nat /\ tag \in Nat /\ replying = c
      /\ Mine(c, Hops) /\ task[c][Hops] = "open" /\ task[c][Hops] # "none"
      /\ tag = 0 \/ tag = exitSent[c]
  <2>1. replying = c
    BY DEF TagReply, WriteReply
  <2> QED BY <2>1, HopsFacts, SteadyNumbers
          DEF Steady, SteadyExit, SteadyTask, ReplyInv
<1>2. ReadsUp(c, Hops) /\ ~UpstreamGone(c, Hops) /\ up \in Wires
  BY <1>1, SteadyEnds DEF Shapes, WireShapes
<1>3. /\ UNCHANGED <<alive, registry, extending, task, reader, down, serving>>
      /\ ClientStill(c)
  BY <1>2 DEF TagReply, WriteReply, clientVars, relayVars, ClientStill
<1>4. Local(c, Hops)
  BY <1>1, <1>3, HopLocal
<1>5. /\ Said(c, Hops) = Hops + Written(c)
      /\ Said(c, Hops)' = Hops + Written(c)'
      /\ Heard(c, Hops)' = Heard(c, Hops) /\ Mine(c, Hops)' = Mine(c, Hops)
  <2>1. Mine(c, Hops)' = Mine(c, Hops) /\ Fwd(c, Hops)' = Fwd(c, Hops)
    BY <1>1, <1>3, SlotChanges
  <2>2. Hops # 0
    BY HopsFacts
  <2>3. Heard(c, Hops)' = Heard(c, Hops)
    BY <1>1, <2>1, <2>2 DEF Heard, Known
  <2>4. Said(c, Hops)' = Hops + Written(c)'
    BY <1>1, <2>1, <2>2 DEF Said, Known
  <2> QED BY <1>1, <2>1, <2>3, <2>4, SteadyMine
<1>6. SteadyTask(c, Hops)' /\ SteadyDown(c, Hops)'
  BY <1>1, <1>3, <1>4, <1>5, HopWires DEF SteadyTask
<1>7. CASE TagReply(c)
  <2>1. /\ UNCHANGED <<up, replying>> /\ tag = 0 /\ tag' = exitSent[c] + 1
        /\ exitSent'[c] = exitSent[c] + 1
    BY <1>7 DEF TagReply, Shapes, ExitShapes
  <2>2. SteadyExit(c)'
    BY <1>1, <1>3, <1>5, <2>1 DEF Steady, SteadyExit
  <2>3. Written(c)' = Written(c)
    <3>1. Written(c) = exitSent[c]
      BY <1>1, <2>1 DEF Written
    <3>2. tag' \in 1 .. exitSent'[c] /\ exitSent'[c] - 1 = exitSent[c]
      BY <1>1, <2>1
    <3> QED BY <1>1, <2>1, <3>1, <3>2 DEF Written
  <2>4. SteadyUp(c, Hops)'
    BY <1>1, <1>4, <1>5, <2>1, <2>3, HopWires
  <2> QED BY <1>1, <1>3, <1>4, <1>6, <2>1, <2>2, <2>4, HopSteady
<1>8. CASE WriteReply(c)
  <2>1. /\ tag = exitSent[c] /\ tag # 0 /\ replying' = None
        /\ UNCHANGED exitSent /\ up' = PutUp(up, c, Hops, ReplyCell(c))
    BY <1>1, <1>2, <1>8 DEF WriteReply, ReplyCell
  <2>2. SteadyExit(c)'
    BY <1>1, <1>3, <1>5, <2>1, NoneAssumption DEF Steady, SteadyExit
  <2>3. Written(c) = tag - 1 /\ Written(c)' = tag
    <3>1. tag \in 1 .. exitSent[c]
      BY <1>1, <2>1
    <3> QED BY <1>1, <2>1, <3>1, NoneAssumption DEF Written
  <2>4. Said(c, Hops)' = Said(c, Hops) + 1
    BY <1>1, <1>5, <2>3
  <2>5. ReplyCell(c)
          = Numbered("CREATED", "EXTENDED", c, Hops, "b", Said(c, Hops) + 1)
    <3>1. PICK n \in Nat : n = tag - 1
      BY <1>1, <2>1
    <3>2. PICK o : /\ o = Said(c, Hops) + 1 /\ o # Hops /\ ~(o <= Hops)
                   /\ o - Hops = tag /\ o = Hops + n + 1
      BY <1>1, <1>5, <2>1, <2>3, <3>1
    <3>3. LayersFrom(c, Hops, "b", o) = {Block(c, Hops, "b", n)}
      BY <3>2, ExitLayer
    <3> QED BY <3>1, <3>2, <3>3 DEF Numbered, ReplyCell
  <2>6. PICK cell : /\ cell = Numbered("CREATED", "EXTENDED", c, Hops, "b",
                                       Said(c, Hops) + 1)
                    /\ up' = PutUp(up, c, Hops, cell)
    BY <2>1, <2>5
  <2>7. /\ up'[c][Hops] = Append(up[c][Hops], cell)
        /\ \A j \in Relays : j # Hops => up'[c][j] = up[c][j]
    <3>1. PICK k \in Relays : k = Hops
      BY <1>1
    <3>2. /\ PutUp(up, c, k, cell)[c][k] = Append(up[c][k], cell)
          /\ \A j \in Relays : j # k => PutUp(up, c, k, cell)[c][j] = up[c][j]
      BY <1>2, <3>1, PutAt
    <3> QED BY <2>6, <3>1, <3>2
  <2>8. SteadyUp(c, Hops)'
    BY <1>1, <1>4, <2>4, <2>6, <2>7, HopWires
  <2> QED BY <1>1, <1>3, <1>4, <1>6, <2>2, <2>7, <2>8, HopSteady
<1> QED BY <1>7, <1>8

\* Nothing ends, and nothing is lost.
LEMMA NothingEnds ==
  ASSUME Calm, Shapes, NEW c \in Circuits, Steady(c), NEW i \in Relays
  PROVE  ~ (\/ ExtendFails(c, i) \/ ConnEof(c, i) \/ (i = 1 /\ EntryDestroy(c))
            \/ ReaderEof(c, i) \/ LoseTail(c, i))
<1>1. ~ExtendFails(c, i)
  <2>1. SUFFICES ASSUME extending[i] = c PROVE ~DownstreamGone(c, i + 1)
    BY DEF Calm, ExtendFails
  <2>2. i + 1 \in Relays
    BY <2>1, NoneAssumption, HopsFacts DEF Shapes, RelayShapes
  <2> QED BY <2>2, SteadyEnds
<1>2. ~ConnEof(c, i)
  <2>1. task[c][i] # "none" => ~UpstreamGone(c, i)
    BY SteadyEnds
  <2> QED BY <2>1 DEF ConnEof
<1>3. ~ (i = 1 /\ EntryDestroy(c))
  <2> SUFFICES ASSUME EntryDestroy(c) PROVE FALSE
    OBVIOUS
  <2>1. /\ 1 \in Relays /\ 2 \in Relays /\ 1 < Hops /\ 2 - 1 = 1
    BY HopsFacts, HopsAssumption DEF Relays
  <2>2. reader[c][1] = "running" /\ up[c][2] # <<>>
        /\ Head(up[c][2]).cmd = "DESTROY"
    BY DEF EntryDestroy
  <2>3. Head(up[c][2]) = Numbered("CREATED", "EXTENDED", c, 2, "b",
                                  Said(c, 2 - 1) + 1)
    BY <2>1, <2>2, SteadyHead
  <2> QED BY <2>2, <2>3, NumberedFields
<1>4. ~ReaderEof(c, i)
  <2>1. i < Hops => ~DownstreamGone(c, i + 1)
    BY SteadyEnds, HopsFacts
  <2> QED BY <2>1 DEF ReaderEof
<1>5. ~LoseTail(c, i)
  <2>1. i \in alive /\ (i > 1 => i - 1 \in alive)
    BY HopsFacts DEF Calm, Relays
  <2> QED BY <2>1 DEF LoseTail
<1> QED BY <1>1, <1>2, <1>3, <1>4, <1>5

\* What leaves the circuit alone leaves it steady.
LEMMA UntouchedSteady ==
  ASSUME NEW c \in Circuits, Shapes, Steady(c), Untouched(c),
         cfwd'[c] = cfwd[c], cbwd'[c] = cbwd[c],
         sent'[c] = sent[c], got'[c] = got[c], exitSent'[c] = exitSent[c],
         replying' = c <=> replying = c, replying = c => tag' = tag
  PROVE  Steady(c)'
<1>1. /\ ClientStill(c) /\ Id(c)' = Id(c)
      /\ \A j \in Relays : task'[c][j] = task[c][j]
      /\ \A j \in Relays : /\ down'[c][j] = down[c][j]
                           /\ up'[c][j] = up[c][j]
      /\ c \in serving' => c \in serving
  BY DEF Untouched, ClientStill, Id
<1>2. \A j \in Relays : HopStill(c, j)
  BY DEF Untouched, HopStill, Mine, HasNext, Fwd, Bwd
<1>3. Local(c, 0) /\ Local(c, 1)
  BY <1>1, <1>2 DEF Local, ExitStill
<1>4. /\ 0 \in 0 .. Hops /\ 1 \in 0 .. Hops /\ 0 # Hops /\ 1 # 0
      /\ 1 \in Relays /\ \A j \in Relays : j # 0
  BY HopsFacts DEF Relays
<1>5. /\ SteadyClient(c)' /\ SteadyExit(c)'
      /\ \A j \in Relays : SteadyTask(c, j)' /\ (j < Hops => SteadyNext(c, j)')
  BY <1>3, <1>4, LocalKeeps
<1>6. ASSUME NEW j \in 0 .. Hops
      PROVE  Heard(c, j)' = Heard(c, j) /\ Said(c, j)' = Said(c, j)
  <2>1. CASE j # 0
    BY <1>3, <1>4, <2>1, LocalNumbers
  <2>2. CASE j = 0
    BY <1>3, <1>4, <2>2, LocalNumbers
  <2> QED BY <2>1, <2>2
<1>7. ASSUME NEW j \in Relays PROVE SteadyDown(c, j)' /\ SteadyUp(c, j)'
  <2>1. PICK k \in 0 .. Hops : k = j - 1
    BY HopsFacts DEF Relays
  <2>2. j \in 0 .. Hops
    BY HopsFacts DEF Relays
  <2>3. /\ Heard(c, j)' = Heard(c, j) /\ Said(c, j)' = Said(c, j)
        /\ Heard(c, k)' = Heard(c, k) /\ Said(c, k)' = Said(c, k)
    BY <1>6, <2>2
  <2>4. SteadyDown(c, j) /\ SteadyUp(c, j)
    BY DEF Steady
  <2> QED BY <1>1, <2>1, <2>3, <2>4 DEF SteadyDown, SteadyUp
<1> QED BY <1>5, <1>7 DEF Steady
-----------------------------------------------------------------------------
(* A step keeps a circuit steady that nobody else can reach.               *)

\* Nobody else replies for the circuit.
LEMMA OthersReply ==
  ASSUME NEW c \in Circuits, NEW d \in Circuits, d # c,
         \/ Connect(d) \/ ConnectFails(d) \/ ClientStep(d) \/ SendData(d)
         \/ Release(d) \/ ExitSend(d) \/ StreamsEnd(d)
         \/ \E i \in Relays :
              TaskStep(d, i) \/ ReaderStep(d, i) \/ LoseTail(d, i)
  PROVE  /\ replying' = c <=> replying = c
         /\ replying = c => tag' = tag
<1>1. CASE \/ Connect(d) \/ ConnectFails(d) \/ ClientStep(d) \/ SendData(d)
           \/ Release(d) \/ ExitSend(d) \/ StreamsEnd(d)
  BY <1>1 DEF Connect, ConnectFails, ClientStep, HandshakeAnswer, BuildFails,
    ReadCell, ReadEof, SendData, Release, ExitSend, StreamsEnd, exitVars,
    replyVars
<1>2. ASSUME NEW i \in Relays,
             TaskStep(d, i) \/ ReaderStep(d, i) \/ LoseTail(d, i)
      PROVE  /\ replying' = c <=> replying = c
             /\ replying = c => tag' = tag
  BY <1>2, NoneAssumption DEF TaskStep, HandleCreate, AddCircuit,
    HandleExtend, ExtendDone, ExtendFails, HandleRelay, HandleAtExit, Unlocked,
    ConnEof, TagReply, WriteReply, ReaderStep, Backward, EntryDestroy,
    ReaderEof, ReaderEnds, LoseTail, exitVars, replyVars
<1> QED BY <1>1, <1>2

LEMMA SteadyStep ==
  ASSUME Calm, RelayInv, ReplyFits, Own, NEW c \in Circuits, Alone(c),
         Steady(c), Calm', c \notin overtaken', [Next]_vars
  PROVE  Steady(c)'
<1>1. Shapes /\ LockInv /\ ReplyInv
  BY DEF RelayInv
<1>2. ASSUME NEW d \in Circuits, d # c,
             \/ Connect(d) \/ ConnectFails(d) \/ ClientStep(d) \/ SendData(d)
             \/ Release(d) \/ ExitSend(d) \/ StreamsEnd(d)
             \/ \E i \in Relays :
                  TaskStep(d, i) \/ ReaderStep(d, i) \/ LoseTail(d, i)
      PROVE  Steady(c)'
  <2>1. Untouched(c)
    BY <1>1, <1>2, OthersClient, OthersTask, OthersReader
  <2>2. /\ cfwd'[c] = cfwd[c] /\ cbwd'[c] = cbwd[c]
        /\ sent'[c] = sent[c] /\ got'[c] = got[c]
        /\ exitSent'[c] = exitSent[c]
    BY <1>1, <1>2, OthersCounts
  <2>3. (replying' = c <=> replying = c) /\ (replying = c => tag' = tag)
    BY <1>2, OthersReply
  <2> QED BY <1>1, <2>1, <2>2, <2>3, UntouchedSteady
<1>3. ASSUME \/ Connect(c) \/ ConnectFails(c) \/ ClientStep(c) \/ SendData(c)
             \/ Release(c) \/ ExitSend(c) \/ StreamsEnd(c)
      PROVE  Steady(c)'
  BY <1>1, <1>3, ConnectSteady, AnswerSteady, SendSteady, ReadSteady,
     ClientStaysUp, StreamSteady DEF ClientStep
<1>4. ASSUME NEW i \in Relays, TaskStep(c, i) PROVE Steady(c)'
  BY <1>1, <1>4, CreateSteady, AddSteady, ExtendSteady, ExtendedSteady,
     RelaySteady, ExitSteady, ReplySteady, NothingEnds DEF TaskStep
<1>5. ASSUME NEW i \in Relays, ReaderStep(c, i) \/ LoseTail(c, i)
      PROVE  Steady(c)'
  BY <1>1, <1>5, BackwardSteady, NothingEnds DEF ReaderStep
<1>6. ASSUME NEW r \in Relays PROVE ~Die(r)
  BY DEF Calm, Die
<1>7. CASE UNCHANGED vars
  <2>1. Untouched(c)
    BY <1>7 DEF vars, clientVars, relayVars, exitVars, Untouched
  <2> QED BY <1>1, <1>7, <2>1, UntouchedSteady
          DEF vars, clientVars, exitVars, replyVars
<1>8. ASSUME NEW d \in Circuits,
             \/ Connect(d) \/ ConnectFails(d) \/ ClientStep(d) \/ SendData(d)
             \/ Release(d) \/ ExitSend(d) \/ StreamsEnd(d)
             \/ \E i \in Relays :
                  TaskStep(d, i) \/ ReaderStep(d, i) \/ LoseTail(d, i)
      PROVE  Steady(c)'
  BY <1>2, <1>3, <1>4, <1>5, <1>8
<1> QED BY <1>6, <1>7, <1>8 DEF Next

\* The dead stay dead, and what happened has happened.
LEMMA CalmBefore ==
  ASSUME Shapes, LockInv, [Next]_vars
  PROVE  (Calm' => Calm) /\ overtaken \subseteq overtaken'
<1>1. ASSUME NEW d \in Circuits,
             \/ Connect(d) \/ ConnectFails(d) \/ ClientStep(d) \/ SendData(d)
             \/ Release(d) \/ ExitSend(d) \/ StreamsEnd(d)
      PROVE  UNCHANGED alive /\ overtaken \subseteq overtaken'
  BY <1>1 DEF Connect, ConnectFails, ClientStep, HandshakeAnswer, BuildFails,
    SendData, ReadCell, ReadEof, Release, ExitSend, StreamsEnd, relayVars,
    exitVars
<1>2. ASSUME NEW d \in Circuits, NEW i \in Relays,
             TaskStep(d, i) \/ ReaderStep(d, i) \/ LoseTail(d, i)
      PROVE  UNCHANGED <<alive, overtaken>>
  BY <1>2 DEF TaskStep, HandleCreate, AddCircuit, HandleExtend, ExtendDone,
    ExtendFails, HandleRelay, HandleAtExit, ConnEof, TagReply, WriteReply,
    ReaderStep, Backward, EntryDestroy, ReaderEof, ReaderEnds, LoseTail,
    relayVars, exitVars
<1>3. ASSUME NEW r \in Relays, Die(r)
      PROVE  alive' \subseteq alive /\ UNCHANGED overtaken
  BY <1>3 DEF Die
<1>4. alive' \subseteq alive /\ overtaken \subseteq overtaken'
  BY <1>1, <1>2, <1>3 DEF Next, vars, relayVars, exitVars
<1> QED BY <1>4 DEF Calm, LockInv

LEMMA SteadyStart ==
  ASSUME Init, NEW c \in Circuits
  PROVE  Steady(c)
<1>1. /\ client[c] = "idle" /\ keys[c] = 0 /\ sent[c] = 0 /\ got[c] = <<>>
      /\ serving = {} /\ exitSent[c] = 0 /\ 1 \in Relays /\ 0 # Hops
      /\ replying # c
  BY HopsFacts, NoneAssumption DEF Init
<1>2. ASSUME NEW i \in Relays
      PROVE  /\ cfwd[c][i] = 0 /\ cbwd[c][i] = 0
             /\ task[c][i] = "none" /\ reader[c][i] = "none"
             /\ down[c][i] = <<>> /\ up[c][i] = <<>> /\ extending[i] # c
             /\ ~Mine(c, i)
  <2>1. Id(c) \in Numbers
    BY DEF Id, Circuits
  <2> QED BY <2>1, NoneAssumption DEF Init, Mine, NoHandler, Handler
<1>3. Issued(c) = 0 /\ Absorbed(c) = 0
  BY <1>1 DEF Issued, Absorbed
<1>4. \A j \in Relays : Seen(0, j) = 0
  BY HopsFacts DEF Relays, Seen
<1>5. SteadyClient(c)
  BY <1>1, <1>2, <1>3, <1>4 DEF SteadyClient, StaysUp
<1>6. SteadyExit(c)
  BY <1>1, <1>2, HopsFacts DEF SteadyExit
<1>7. ASSUME NEW i \in Relays
      PROVE  /\ SteadyTask(c, i) /\ (i < Hops => SteadyNext(c, i))
             /\ SteadyDown(c, i) /\ SteadyUp(c, i)
  <2>1. i < Hops => task[c][i + 1] = "none"
    BY <1>2, HopsFacts
  <2> QED BY <1>2, <2>1
          DEF SteadyTask, SteadyNext, SteadyDown, SteadyUp
<1> QED BY <1>5, <1>6, <1>7 DEF Steady

SteadyUnlessOvertaken ==
  Calm => \A c \in Circuits \ overtaken : Alone(c) => Steady(c)

LEMMA SteadyInvariant == Spec => []SteadyUnlessOvertaken
<1>1. Init => SteadyUnlessOvertaken
  BY SteadyStart DEF SteadyUnlessOvertaken
<1>2. /\ RelayInv /\ ReplyFits /\ EstInv /\ SteadyUnlessOvertaken
      /\ [Next]_vars
      => SteadyUnlessOvertaken'
  <2> SUFFICES ASSUME RelayInv, ReplyFits, EstInv, SteadyUnlessOvertaken,
                      [Next]_vars, Calm', NEW c \in Circuits,
                      c \notin overtaken', Alone(c)
               PROVE  Steady(c)'
    BY DEF SteadyUnlessOvertaken, Alone
  <2>1. Calm /\ c \notin overtaken
    BY CalmBefore DEF RelayInv
  <2>2. Steady(c)
    BY <2>1 DEF SteadyUnlessOvertaken
  <2> QED BY <2>1, <2>2, SteadyStep DEF EstInv
<1> QED BY <1>1, <1>2, RelayInvariant, ReplyFitsAlways, EstInvariant, PTL
  DEF Spec

\* While no relay dies and no handshake times out, no circuit with a number of
\* its own fails to be built, or closes when it is ready, however its steps
\* and those of all the other circuits interleave: every cell is the one that
\* its reader in circuit.rs, entry.rs or middle.rs expects next.  The one
\* exception is a circuit of which an exit's stream task has sent a cell after
\* an END was tagged (exit.rs) and before main.rs wrote it.
THEOREM CircuitsStayUp == Spec => []NeverBreaksByItself
<1>1. SteadyUnlessOvertaken => NeverBreaksByItself
  BY DEF SteadyUnlessOvertaken, Calm, NeverBreaksByItself, Steady, SteadyClient
<1> QED BY <1>1, SteadyInvariant, PTL
=============================================================================
