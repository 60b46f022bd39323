------------------------- MODULE BackpressureProofs -------------------------
(***************************************************************************)
(* The locks of Backpressure, for any circuits, streams, hops and capacity *)
(* of a connection: who waits for a lock waits once, so a release gives it *)
(* to another task, and no connection holds more cells than it may.        *)
(*                                                                         *)
(* TypeOK is inductive as it stands, because it says where the connection  *)
(* task of the exit is when it is at the crypto state: at the head of the  *)
(* registry lock, which HandleData releases with the other.                *)
(***************************************************************************)
EXTENDS Backpressure, TLAPS

LEMMA SizesFacts == Exit \in Relays /\ Exit \in Nat /\ Cap \in Nat /\ Cap >= 1
BY SizesAssumption DEF Exit, Relays

\* A task that had not asked for a lock is the last to wait for it.
LEMMA AskLast ==
  ASSUME NEW S, NEW q \in Seq(S), Once(q), NEW t \in S, t \notin Range(q)
  PROVE  /\ Append(q, t) \in Seq(S) /\ Once(Append(q, t))
         /\ Range(Append(q, t)) = Range(q) \union {t}
         /\ Append(q, t) # <<>>
         /\ q # <<>> => Head(Append(q, t)) = Head(q)
<1>1. /\ Append(q, t) \in Seq(S) /\ Len(q) \in Nat
      /\ DOMAIN q = 1 .. Len(q) /\ DOMAIN Append(q, t) = 1 .. Len(q) + 1
      /\ \A k \in 1 .. Len(q) : Append(q, t)[k] = q[k]
      /\ Append(q, t)[Len(q) + 1] = t
  <2>1. /\ Append(q, t) \in Seq(S) /\ Len(q) \in Nat
        /\ DOMAIN q = 1 .. Len(q)
    OBVIOUS
  <2>2. DOMAIN Append(q, t) = 1 .. Len(q) + 1
    <3>1. Append(q, t) \in Seq(S) /\ Len(Append(q, t)) = Len(q) + 1
      OBVIOUS
    <3> QED BY <3>1
  <2>3. \A k \in 1 .. Len(q) : Append(q, t)[k] = q[k]  OBVIOUS
  <2>4. Append(q, t)[Len(q) + 1] = t  OBVIOUS
  <2> QED BY <2>1, <2>2, <2>3, <2>4
<1>2. \A k \in 1 .. Len(q) : q[k] # t  BY <1>1 DEF Range
<1>3. Once(Append(q, t))  BY <1>1, <1>2 DEF Once
<1>4. Range(Append(q, t)) = Range(q) \union {t}  BY <1>1 DEF Range
<1>5. Append(q, t) # <<>>  BY <1>1
<1>6. ASSUME q # <<>> PROVE Head(Append(q, t)) = Head(q)
  <2>1. Head(q) = q[1] /\ 1 \in 1 .. Len(q)  BY <1>6
  <2>2. Head(Append(q, t)) = Append(q, t)[1]  BY <1>1, <1>5
  <2> QED BY <1>1, <2>1, <2>2
<1> QED BY <1>1, <1>3, <1>4, <1>5, <1>6

\* A release takes its holder out of the queue.
LEMMA ReleaseFirst ==
  ASSUME NEW S, NEW q \in Seq(S), Once(q), q # <<>>
  PROVE  /\ Tail(q) \in Seq(S) /\ Once(Tail(q))
         /\ Range(Tail(q)) \subseteq Range(q) /\ Head(q) \notin Range(Tail(q))
<1>1. /\ Tail(q) \in Seq(S) /\ Len(q) \in Nat /\ Len(q) >= 1
      /\ DOMAIN q = 1 .. Len(q) /\ DOMAIN Tail(q) = 1 .. Len(q) - 1
      /\ \A k \in 1 .. Len(q) - 1 : Tail(q)[k] = q[k + 1]
      /\ Head(q) = q[1]
  OBVIOUS
<1>2. \A j, k \in 1 .. Len(q) : q[j] = q[k] => j = k  BY <1>1 DEF Once
<1>3. Once(Tail(q))  BY <1>1, <1>2 DEF Once
<1>4. Range(Tail(q)) \subseteq Range(q)  BY <1>1 DEF Range
<1>5. Head(q) \notin Range(Tail(q))  BY <1>1, <1>2 DEF Range
<1> QED BY <1>1, <1>3, <1>4, <1>5

\* Cells that enter a connection with room, or leave one that has a cell.
LEMMA CountsTyped ==
  ASSUME NEW dir \in [Circuits -> [Relays -> 0 .. Cap]],
         NEW c \in Circuits, NEW i \in Relays
  PROVE  /\ dir[c][i] < Cap =>
              [dir EXCEPT ![c][i] = @ + 1] \in [Circuits -> [Relays -> 0 .. Cap]]
         /\ dir[c][i] > 0 =>
              [dir EXCEPT ![c][i] = @ - 1] \in [Circuits -> [Relays -> 0 .. Cap]]
<1>1. dir[c][i] \in 0 .. Cap  OBVIOUS
<1>2. dir[c][i] < Cap => dir[c][i] + 1 \in 0 .. Cap  BY <1>1, SizesFacts
<1>3. dir[c][i] > 0 => dir[c][i] - 1 \in 0 .. Cap  BY <1>1, SizesFacts
<1> QED BY <1>2, <1>3

\* Chunks that are left to send.
LEMMA ChunksTyped ==
  ASSUME NEW left \in [Circuits -> [Streams -> Nat]],
         NEW c \in Circuits, NEW s \in Streams, left[c][s] > 0
  PROVE  [left EXCEPT ![c][s] = @ - 1] \in [Circuits -> [Streams -> Nat]]
<1>1. left[c][s] - 1 \in Nat  OBVIOUS
<1> QED BY <1>1
-----------------------------------------------------------------------------
\* The client's lock of a circuit.
LEMMA CircuitLock ==
  ASSUME TypeOK, NEW c \in Circuits, NEW t \in Streams \union {"reader"},
         \/ Ask(circuit, c, t) /\ ~Asked(circuit, c, t)
         \/ Release(circuit, c) /\ Holds(circuit, c, t)
  PROVE  /\ circuit' \in [Circuits -> Seq(Streams \union {"reader"})]
         /\ \A d \in Circuits : Once(circuit'[d])
<1>1. circuit[c] \in Seq(Streams \union {"reader"}) /\ Once(circuit[c])
  BY DEF TypeOK
<1>2. CASE Ask(circuit, c, t) /\ ~Asked(circuit, c, t)
  <2>1. /\ Append(circuit[c], t) \in Seq(Streams \union {"reader"})
        /\ Once(Append(circuit[c], t))
    BY <1>1, <1>2, AskLast DEF Asked
  <2> QED BY <1>2, <2>1 DEF Ask, TypeOK
<1>3. CASE Release(circuit, c) /\ Holds(circuit, c, t)
  <2>1. /\ Tail(circuit[c]) \in Seq(Streams \union {"reader"})
        /\ Once(Tail(circuit[c]))
    BY <1>1, <1>3, ReleaseFirst DEF Holds
  <2> QED BY <1>3, <2>1 DEF Release, TypeOK
<1> QED BY <1>2, <1>3

\* The registry lock of a relay.  At the exit its holder stays the holder
\* while others ask.
LEMMA RegistryLock ==
  ASSUME TypeOK, NEW i \in Relays, NEW t \in Circuits \X {"conn", "reader"},
         \/ Ask(registry, i, t) /\ ~Asked(registry, i, t)
         \/ Release(registry, i) /\ Holds(registry, i, t)
  PROVE  /\ registry' \in [Relays -> Seq(Circuits \X {"conn", "reader"})]
         /\ \A j \in Relays : Once(registry'[j])
         /\ Ask(registry, i, t) \/ i # Exit =>
              \A c \in Circuits : Holds(registry, Exit, Conn(c)) =>
                                  Holds(registry, Exit, Conn(c))'
<1>1. registry[i] \in Seq(Circuits \X {"conn", "reader"}) /\ Once(registry[i])
  BY DEF TypeOK
<1>2. CASE Ask(registry, i, t) /\ ~Asked(registry, i, t)
  <2>1. /\ Append(registry[i], t) \in Seq(Circuits \X {"conn", "reader"})
        /\ Once(Append(registry[i], t)) /\ Append(registry[i], t) # <<>>
        /\ registry[i] # <<>> => Head(Append(registry[i], t)) = Head(registry[i])
    BY <1>1, <1>2, AskLast DEF Asked
  <2> QED BY <1>2, <2>1, SizesFacts DEF Ask, TypeOK, Holds, Conn
<1>3. CASE Release(registry, i) /\ Holds(registry, i, t) /\ ~Ask(registry, i, t)
  <2>1. /\ Tail(registry[i]) \in Seq(Circuits \X {"conn", "reader"})
        /\ Once(Tail(registry[i]))
    BY <1>1, <1>3, ReleaseFirst DEF Holds
  <2> QED BY <1>3, <2>1, SizesFacts DEF Release, TypeOK, Holds, Conn
<1>4. CASE Release(registry, i) /\ Holds(registry, i, t) /\ Ask(registry, i, t)
  <2>1. Len(Tail(registry[i])) # Len(Append(registry[i], t))
    BY <1>1, <1>4 DEF Holds
  <2> QED BY <1>4, <2>1 DEF Ask, Release, TypeOK
<1> QED BY <1>2, <1>3, <1>4

\* The crypto state of the exit.
LEMMA CryptoLock ==
  ASSUME TypeOK, NEW c \in Circuits, NEW t \in Streams \union {"conn"},
         \/ Ask(crypto, c, t) /\ ~Asked(crypto, c, t)
         \/ Release(crypto, c) /\ Holds(crypto, c, t)
  PROVE  /\ crypto' \in [Circuits -> Seq(Streams \union {"conn"})]
         /\ \A d \in Circuits : Once(crypto'[d])
         /\ \A d \in Circuits : Asked(crypto, d, "conn")' =>
              \/ Asked(crypto, d, "conn")
              \/ d = c /\ t = "conn" /\ Ask(crypto, c, t)
         /\ Release(crypto, c) /\ Holds(crypto, c, t) => ~Asked(crypto, c, t)'
<1>1. crypto[c] \in Seq(Streams \union {"conn"}) /\ Once(crypto[c])
  BY DEF TypeOK
<1>2. CASE Ask(crypto, c, t) /\ ~Asked(crypto, c, t)
  <2>1. /\ Append(crypto[c], t) \in Seq(Streams \union {"conn"})
        /\ Once(Append(crypto[c], t))
        /\ Range(Append(crypto[c], t)) = Range(crypto[c]) \union {t}
    BY <1>1, <1>2, AskLast DEF Asked
  <2>2. ~(Release(crypto, c) /\ crypto[c] # <<>>)
    <3>1. crypto[c] # <<>> =>
            Len(Tail(crypto[c])) # Len(Append(crypto[c], t))
      BY <1>1
    <3> QED BY <1>2, <3>1 DEF Ask, Release, TypeOK
  <2> QED BY <1>2, <2>1, <2>2 DEF Ask, TypeOK, Asked, Holds
<1>3. CASE Release(crypto, c) /\ Holds(crypto, c, t)
  <2>1. /\ Tail(crypto[c]) \in Seq(Streams \union {"conn"})
        /\ Once(Tail(crypto[c])) /\ Range(Tail(crypto[c])) \subseteq Range(crypto[c])
        /\ t \notin Range(Tail(crypto[c]))
    BY <1>1, <1>3, ReleaseFirst DEF Holds
  <2> QED BY <1>3, <2>1 DEF Release, TypeOK, Asked
<1> QED BY <1>2, <1>3
-----------------------------------------------------------------------------
\* The connection task of the exit keeps the registry lock while it is at the
\* crypto state.
ConnAtCrypto ==
  \A c \in Circuits : Asked(crypto, c, "conn") => Holds(registry, Exit, Conn(c))

LEMMA HandlerKeeps ==
  ASSUME TypeOK, NEW c \in Circuits, NEW s \in Streams, HandlerStep(c, s)
  PROVE  TypeOK'
<1>1. CASE AskCircuit(c, s)
  BY <1>1, CircuitLock, ChunksTyped DEF AskCircuit, TypeOK, Asked, Holds
<1>2. CASE SendMessage(c, s)
  <2>1. 1 \in Relays  BY SizesAssumption DEF Relays
  <2>2. down' \in [Circuits -> [Relays -> 0 .. Cap]]
    BY <1>2, <2>1, CountsTyped DEF SendMessage, Put, Room, TypeOK
  <2> QED BY <1>2, <2>2, CircuitLock DEF SendMessage, TypeOK, Asked, Holds
<1> QED BY <1>1, <1>2 DEF HandlerStep

LEMMA ClientReaderKeeps ==
  ASSUME TypeOK, NEW c \in Circuits, ClientReaderStep(c)
  PROVE  TypeOK'
<1>1. CASE ReadCell(c)
  <2>1. 1 \in Relays  BY SizesAssumption DEF Relays
  <2>2. up' \in [Circuits -> [Relays -> 0 .. Cap]]
    BY <1>1, <2>1, CountsTyped DEF ReadCell, Take, TypeOK
  <2> QED BY <1>1, <2>2, CircuitLock DEF ReadCell, TypeOK, Asked, Holds
<1>2. CASE Demux(c)
  BY <1>2, CircuitLock DEF Demux, TypeOK, Asked, Holds
<1> QED BY <1>1, <1>2 DEF ClientReaderStep

\* What leaves the crypto state alone keeps ConnAtCrypto as long as it asks for
\* a registry lock, or releases one that is not the exit's.
LEMMA ConnStays ==
  ASSUME TypeOK, UNCHANGED crypto, NEW i \in Relays,
         NEW t \in Circuits \X {"conn", "reader"},
         \/ Ask(registry, i, t) /\ ~Asked(registry, i, t)
         \/ Release(registry, i) /\ Holds(registry, i, t) /\ i # Exit
  PROVE  /\ registry' \in [Relays -> Seq(Circuits \X {"conn", "reader"})]
         /\ \A j \in Relays : Once(registry'[j])
         /\ ConnAtCrypto'
<1>1. ConnAtCrypto  BY DEF TypeOK, ConnAtCrypto
<1>2. \A c \in Circuits : Holds(registry, Exit, Conn(c)) =>
                           Holds(registry, Exit, Conn(c))'
  BY RegistryLock
<1> QED BY <1>1, <1>2, RegistryLock DEF ConnAtCrypto, Asked

LEMMA TasksTyped ==
  \A c \in Circuits : /\ Conn(c) \in Circuits \X {"conn", "reader"}
                      /\ Reader(c) \in Circuits \X {"conn", "reader"}
BY DEF Conn, Reader

LEMMA ConnKeeps ==
  ASSUME TypeOK, NEW c \in Circuits, NEW i \in Relays, ConnStep(c, i)
  PROVE  TypeOK'
<1> USE TasksTyped
<1>1. CASE ReadDown(c, i)
  <2>1. down' \in [Circuits -> [Relays -> 0 .. Cap]]
    BY <1>1, CountsTyped DEF ReadDown, Take, TypeOK
  <2>2. /\ registry' \in [Relays -> Seq(Circuits \X {"conn", "reader"})]
        /\ \A j \in Relays : Once(registry'[j])
        /\ ConnAtCrypto'
    BY <1>1, ConnStays DEF ReadDown
  <2> QED BY <1>1, <2>1, <2>2 DEF ReadDown, TypeOK, ConnAtCrypto
<1>2. CASE HandleRelay(c, i)
  <2>1. i + 1 \in Relays /\ i # Exit
    BY <1>2, SizesAssumption DEF HandleRelay, Relays, Exit
  <2>2. down' \in [Circuits -> [Relays -> 0 .. Cap]]
    BY <1>2, <2>1, CountsTyped DEF HandleRelay, Put, Room, TypeOK
  <2>3. /\ registry' \in [Relays -> Seq(Circuits \X {"conn", "reader"})]
        /\ \A j \in Relays : Once(registry'[j])
        /\ ConnAtCrypto'
    BY <1>2, <2>1, ConnStays DEF HandleRelay
  <2> QED BY <1>2, <2>2, <2>3 DEF HandleRelay, TypeOK, ConnAtCrypto
<1>3. CASE AskCrypto(c)
  <2>1. /\ Ask(crypto, c, "conn") /\ ~Asked(crypto, c, "conn")
        /\ Holds(registry, Exit, Conn(c))
        /\ UNCHANGED <<toSend, toReply, down, up, circuit, registry, encrypted>>
    BY <1>3 DEF AskCrypto
  <2>2. /\ crypto' \in [Circuits -> Seq(Streams \union {"conn"})]
        /\ \A d \in Circuits : Once(crypto'[d])
        /\ \A d \in Circuits :
             Asked(crypto, d, "conn")' => Asked(crypto, d, "conn") \/ d = c
    BY <2>1, CryptoLock
  <2>3. ConnAtCrypto'
    BY <2>1, <2>2 DEF TypeOK, ConnAtCrypto, Holds, Conn
  <2> QED BY <2>1, <2>2, <2>3 DEF TypeOK, ConnAtCrypto
<1>4. CASE HandleData(c)
  <2>1. /\ Release(crypto, c) /\ Holds(crypto, c, "conn")
        /\ Release(registry, Exit)
        /\ UNCHANGED <<toSend, toReply, down, up, circuit, encrypted>>
    BY <1>4 DEF HandleData
  <2>2. crypto[c] \in Seq(Streams \union {"conn"})  BY DEF TypeOK
  <2>3. Asked(crypto, c, "conn")
    <3>1. 1 \in DOMAIN crypto[c] /\ crypto[c][1] = "conn"
      BY <2>1, <2>2 DEF Holds
    <3> QED BY <3>1 DEF Asked, Range
  <2>4. Holds(registry, Exit, Conn(c))  BY <2>3 DEF TypeOK
  <2>5. /\ registry' \in [Relays -> Seq(Circuits \X {"conn", "reader"})]
        /\ \A j \in Relays : Once(registry'[j])
    BY <2>1, <2>4, SizesFacts, RegistryLock
  <2>6. /\ crypto' \in [Circuits -> Seq(Streams \union {"conn"})]
        /\ \A d \in Circuits : Once(crypto'[d])
        /\ ~Asked(crypto, c, "conn")'
    BY <2>1, CryptoLock
  <2>7. ASSUME NEW d \in Circuits, Asked(crypto, d, "conn")' PROVE FALSE
    <3>1. CASE d = c  BY <2>6, <2>7, <3>1
    <3>2. CASE d # c
      <4>1. Asked(crypto, d, "conn")
        BY <2>1, <2>7, <3>2 DEF Asked, Release, TypeOK
      <4>2. Holds(registry, Exit, Conn(d))  BY <4>1 DEF TypeOK
      <4> QED BY <2>4, <3>2, <4>2 DEF Holds, Conn
    <3> QED BY <3>1, <3>2
  <2> QED BY <2>1, <2>5, <2>6, <2>7 DEF TypeOK
<1> QED BY <1>1, <1>2, <1>3, <1>4 DEF ConnStep

LEMMA ReaderKeeps ==
  ASSUME TypeOK, NEW c \in Circuits, NEW i \in Relays, ReaderStep(c, i)
  PROVE  TypeOK'
<1> USE TasksTyped
<1>1. CASE ReadUp(c, i)
  <2>1. i + 1 \in Relays
    BY <1>1, SizesAssumption DEF ReadUp, Relays, Exit
  <2>2. up' \in [Circuits -> [Relays -> 0 .. Cap]]
    BY <1>1, <2>1, CountsTyped DEF ReadUp, Take, TypeOK
  <2>3. /\ registry' \in [Relays -> Seq(Circuits \X {"conn", "reader"})]
        /\ \A j \in Relays : Once(registry'[j])
        /\ ConnAtCrypto'
    BY <1>1, ConnStays DEF ReadUp
  <2> QED BY <1>1, <2>2, <2>3 DEF ReadUp, TypeOK, ConnAtCrypto
<1>2. CASE HandleBackward(c, i)
  <2>1. i \in 1 .. Exit - 1 /\ i # Exit
    BY <1>2, SizesAssumption DEF HandleBackward, Relays, Exit
  <2>2. /\ registry' \in [Relays -> Seq(Circuits \X {"conn", "reader"})]
        /\ \A j \in Relays : Once(registry'[j])
        /\ ConnAtCrypto'
    BY <1>2, <2>1, ConnStays DEF HandleBackward
  <2>3. encrypted' \subseteq Circuits \X (1 .. Exit - 1)
    BY <1>2, <2>1 DEF HandleBackward, TypeOK
  <2>4. UNCHANGED <<toSend, toReply, down, up, circuit, crypto>>
    BY <1>2 DEF HandleBackward
  <2> QED BY <2>2, <2>3, <2>4 DEF TypeOK, ConnAtCrypto
<1>3. CASE WriteUp(c, i)
  <2>1. up' \in [Circuits -> [Relays -> 0 .. Cap]]
    BY <1>3, CountsTyped DEF WriteUp, Put, Room, TypeOK
  <2>2. /\ encrypted' \subseteq encrypted
        /\ UNCHANGED <<toSend, toReply, down, circuit, registry, crypto>>
    BY <1>3 DEF WriteUp
  <2>3. ConnAtCrypto'  BY <2>2 DEF TypeOK, ConnAtCrypto, Asked, Holds, Conn
  <2> QED BY <2>1, <2>2, <2>3 DEF TypeOK, ConnAtCrypto
<1> QED BY <1>1, <1>2, <1>3 DEF ReaderStep

LEMMA StreamKeeps ==
  ASSUME TypeOK, NEW c \in Circuits, NEW s \in Streams, StreamStep(c, s)
  PROVE  TypeOK'
<1>1. s # "conn"  BY SizesAssumption
<1>2. ASSUME \/ Ask(crypto, c, s) /\ ~Asked(crypto, c, s)
             \/ Release(crypto, c) /\ Holds(crypto, c, s),
             UNCHANGED registry
      PROVE  /\ crypto' \in [Circuits -> Seq(Streams \union {"conn"})]
             /\ \A d \in Circuits : Once(crypto'[d])
             /\ ConnAtCrypto'
  <2>1. /\ crypto' \in [Circuits -> Seq(Streams \union {"conn"})]
        /\ \A d \in Circuits : Once(crypto'[d])
        /\ \A d \in Circuits :
             Asked(crypto, d, "conn")' => Asked(crypto, d, "conn")
    BY <1>1, <1>2, CryptoLock
  <2> QED BY <1>2, <2>1 DEF TypeOK, ConnAtCrypto, Holds, Conn
<1>3. CASE AskToReply(c, s)
  BY <1>2, <1>3, ChunksTyped DEF AskToReply, TypeOK, ConnAtCrypto
<1>4. CASE WriteReply(c, s)
  <2>1. up' \in [Circuits -> [Relays -> 0 .. Cap]]
    BY <1>4, SizesFacts, CountsTyped DEF WriteReply, Put, Room, TypeOK
  <2> QED BY <1>2, <1>4, <2>1 DEF WriteReply, TypeOK, ConnAtCrypto
<1> QED BY <1>3, <1>4 DEF StreamStep

\* Every lock is waited for once per task, every connection is within its
\* capacity, and the exit's connection task is never at the crypto state
\* without the registry lock - the two waits that close the circle of
\* NoDeadlock.
THEOREM LocksAreQueues == Spec => []TypeOK
<1>1. Init => TypeOK
  BY SizesAssumption DEF Init, TypeOK, Once, Asked, Range, Relays, Exit
<1>2. TypeOK /\ [Next]_vars => TypeOK'
  <2> SUFFICES ASSUME TypeOK, [Next]_vars PROVE TypeOK'
    OBVIOUS
  <2>1. CASE Next
    BY <2>1, HandlerKeeps, ClientReaderKeeps, ConnKeeps, ReaderKeeps,
      StreamKeeps DEF Next
  <2>2. CASE UNCHANGED vars
    BY <2>2 DEF vars, TypeOK, Asked, Holds, Conn
  <2> QED BY <2>1, <2>2
<1> QED BY <1>1, <1>2, PTL DEF Spec
=============================================================================
