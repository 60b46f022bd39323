-------------------------- MODULE HandshakeProofs --------------------------
(***************************************************************************)
(* The handshake, for any number of circuits, hops and restarts.           *)
(*                                                                         *)
(* KeysAgree is not inductive: a key is accepted because of what a message *)
(* says, so the messages need an invariant of their own.  Addressed says   *)
(* where a build is and which hop its message belongs to - always the one  *)
(* after the last key, so that no later session replaces one a key agrees  *)
(* with - and Answered that a CREATED on its way carries the session of    *)
(* the process that sent it, whose name is in the key.                     *)
(***************************************************************************)
EXTENDS Handshake, TLAPS

\* The bounds of the model are numbers, and a path has a hop.
Bounds == Numbers \in Nat /\ Hops \in Nat \ {0} /\ MaxStarts \in Nat

\* The directory describes no process that has not run, and a path is asked
\* for when each of its hops has run.
Described ==
  /\ \A i \in Positions : listing[i] <= host[i]
  /\ \A c \in Circuits : state[c] # "new" => \A i \in Positions : host[i] >= 1

Addressed ==
  \A c \in Circuits :
    /\ state[c] \in {"new", "path"} => have[c] = 0 /\ msg[c].cmd = "none"
    /\ msg[c].cmd # "none" =>
         /\ state[c] = "building"
         /\ msg[c].hop \in Positions /\ msg[c].hop = have[c] + 1
    /\ msg[c].cmd \in {"CREATE", "CREATED"} => link[c][msg[c].hop] \in Processes

Answered ==
  \A c \in Circuits :
    msg[c].cmd = "CREATED" =>
      LET i == msg[c].hop
          p == link[c][i]
      IN msg[c].auth.static = Static(i, p) /\ session[i][p][c] = msg[c].auth

HandshakeInv == TypeOK /\ Described /\ Addressed /\ Answered /\ KeysAgree
-----------------------------------------------------------------------------
LEMMA NamesTyped ==
  ASSUME Bounds
  PROVE /\ \A i \in Positions, p \in 0 .. MaxStarts : Static(i, p) \in Names
        /\ \A i \in Positions, p \in 0 .. MaxStarts, c \in Circuits :
             ServerEphemeral(i, p, c) \in Names
        /\ \A i \in Positions, c \in Circuits : ClientEphemeral(c, i) \in Names
        /\ NoName \in Names
  BY SMT DEF Bounds, Names, Name, Static, ServerEphemeral, ClientEphemeral,
    NoName, Positions, Circuits

\* Both ends compute session keys.
LEMMA KeysTyped ==
  ASSUME Bounds, NEW i \in Positions, NEW p \in 0 .. MaxStarts,
         NEW c \in Circuits, NEW n \in Names
  PROVE /\ NtorServer(i, p, c, n) \in SessionKeys
        /\ NtorServer(i, p, c, n).static = Static(i, p)
        /\ NtorServer(i, p, c, n).y \in Names
        /\ NtorClient(i, p, c, n) \in SessionKeys
        /\ NtorClient(i, p, c, n).static = Static(i, p)
<1>1. /\ Static(i, p) \in Names /\ ServerEphemeral(i, p, c) \in Names
      /\ ClientEphemeral(c, i) \in Names
  BY NamesTyped
<1> QED  BY <1>1, SMT DEF NtorServer, NtorClient, SecretInput, RawDh, SessionKeys

LEMMA NothingTyped ==
  ASSUME Bounds PROVE NoKey \in SessionKeys /\ NoName \in Names
  BY NamesTyped DEF NoKey, SecretInput, SessionKeys

\* A key names the process whose static key went into it.
LEMMA StaticsDiffer ==
  ASSUME NEW i, NEW p, NEW q, Static(i, p) = Static(i, q)
  PROVE p = q
<1>1. Static(i, p).process = p /\ Static(i, q).process = q
  BY DEF Static, Name
<1> QED  BY <1>1

LEMMA HandshakeInit == ASSUME Bounds PROVE Init => HandshakeInv
<1> SUFFICES ASSUME Init PROVE HandshakeInv
  OBVIOUS
<1> USE DEF Init, Bounds, NoMessage, Message, Messages
<1>1. TypeOK  BY NothingTyped DEF TypeOK, Processes
<1>2. Described /\ Addressed /\ Answered
  BY DEF Described, Addressed, Answered
<1>3. KeysAgree  BY DEF KeysAgree
<1> QED  BY <1>1, <1>2, <1>3 DEF HandshakeInv
-----------------------------------------------------------------------------
\* The relays and the directory.
LEMMA ProcessKeeps ==
  ASSUME Bounds, HandshakeInv, NEW i \in Positions, Restart(i) \/ Register(i)
  PROVE HandshakeInv'
<1> USE DEF HandshakeInv, client
<1>1. host[i] \in 0 .. MaxStarts /\ listing[i] \in 0 .. MaxStarts
  BY DEF TypeOK
<1>2. TypeOK'
  <2>1. CASE Restart(i)
    <3>1. host[i] + 1 \in 0 .. MaxStarts  BY <1>1, <2>1 DEF Restart, Bounds
    <3> QED  BY <2>1, <3>1 DEF TypeOK, Restart
  <2>2. CASE Register(i)  BY <1>1, <2>2 DEF TypeOK, Register
  <2> QED  BY <2>1, <2>2
<1>3. Described'
  <2>1. CASE Restart(i)
    BY <1>1, <2>1 DEF TypeOK, Described, Restart, Bounds
  <2>2. CASE Register(i)
    BY <1>1, <2>2 DEF TypeOK, Described, Register, Bounds
  <2> QED  BY <2>1, <2>2
<1>4. Addressed'  BY DEF Addressed, Restart, Register
<1>5. Answered'  BY DEF Answered, Restart, Register
<1>6. KeysAgree'  BY DEF KeysAgree, Restart, Register
<1> QED  BY <1>2, <1>3, <1>4, <1>5, <1>6

LEMMA RequestPathKeeps ==
  ASSUME Bounds, HandshakeInv, NEW c \in Circuits, RequestPath(c)
  PROVE HandshakeInv'
<1> USE DEF HandshakeInv, RequestPath
<1>1. TypeOK'  BY DEF TypeOK
<1>2. Described'  BY SMT DEF TypeOK, Described, Bounds
<1>3. Addressed'  BY DEF TypeOK, Addressed
<1>4. Answered'  BY DEF Answered
<1>5. KeysAgree'  BY DEF TypeOK, Addressed, KeysAgree, Bounds
<1> QED  BY <1>1, <1>2, <1>3, <1>4, <1>5

LEMMA ConnectKeeps ==
  ASSUME Bounds, HandshakeInv, NEW c \in Circuits, Connect(c)
  PROVE HandshakeInv'
<1> USE DEF HandshakeInv, Connect
<1>1. 1 \in Positions /\ host[1] \in 0 .. MaxStarts /\ host[1] \in Processes
  <2>1. 1 \in Positions  BY DEF Bounds, Positions
  <2>2. host[1] \in 0 .. MaxStarts  BY <2>1 DEF TypeOK
  <2>3. host[1] >= 1  BY <2>1 DEF Described
  <2> QED  BY <2>1, <2>2, <2>3 DEF Bounds, Processes
<1>2. TypeOK'
  <2>1. 1 \in 0 .. Hops  BY DEF Bounds
  <2>2. msg' \in [Circuits -> Messages]
    BY <1>1, <2>1, NamesTyped, NothingTyped DEF TypeOK, Message, Messages
  <2>3. link' \in [Circuits -> [Positions -> 0 .. MaxStarts]]
    BY <1>1 DEF TypeOK
  <2> QED  BY <2>2, <2>3 DEF TypeOK, client
<1>3. Described'  BY DEF TypeOK, Described
<1>4. Addressed'  BY <1>1 DEF TypeOK, Addressed, Message
<1>5. Answered'  BY <1>1 DEF TypeOK, Answered, Message
<1>6. KeysAgree'  BY <1>1 DEF TypeOK, Addressed, KeysAgree, Bounds
<1> QED  BY <1>2, <1>3, <1>4, <1>5, <1>6

LEMMA ExtendKeeps ==
  ASSUME Bounds, HandshakeInv, NEW c \in Circuits, Extend(c)
  PROVE HandshakeInv'
<1> USE DEF HandshakeInv, Extend, client
<1> DEFINE i == msg[c].hop
<1>1. /\ msg[c] \in Messages /\ i \in Positions /\ i = have[c] + 1
      /\ state[c] = "building" /\ i \in 0 .. Hops
  BY DEF TypeOK, Addressed, Messages
<1>2. host[i] \in 0 .. MaxStarts /\ host[i] \in Processes
  <2>1. host[i] \in 0 .. MaxStarts  BY <1>1 DEF TypeOK
  <2>2. host[i] >= 1  BY <1>1 DEF Described
  <2> QED  BY <2>1, <2>2 DEF Bounds, Processes
<1>3. TypeOK'
  <2>1. msg' \in [Circuits -> Messages]
    BY <1>1, NothingTyped DEF TypeOK, Message, Messages
  <2>2. link' \in [Circuits -> [Positions -> 0 .. MaxStarts]]
    BY <1>1, <1>2 DEF TypeOK
  <2> QED  BY <2>1, <2>2 DEF TypeOK
<1>4. Described'  BY DEF TypeOK, Described
<1>5. Addressed'  BY <1>1, <1>2 DEF TypeOK, Addressed, Message
<1>6. Answered'  BY <1>1 DEF TypeOK, Answered, Message
<1>7. KeysAgree'
  <2>1. \A k \in 1 .. have[c] : k # i  BY <1>1 DEF TypeOK
  <2> QED  BY <1>1, <2>1 DEF TypeOK, KeysAgree
<1> QED  BY <1>3, <1>4, <1>5, <1>6, <1>7

\* A session is added or replaced at a hop that the client has no key for.
LEMMA CreateKeeps ==
  ASSUME Bounds, HandshakeInv, NEW c \in Circuits, Create(c)
  PROVE HandshakeInv'
<1> USE DEF HandshakeInv, client
<1> DEFINE i == msg[c].hop
           p == link[c][i]
           key == NtorServer(i, p, c, msg[c].public)
<1>1. /\ msg[c] \in Messages /\ i \in Positions /\ i = have[c] + 1
      /\ state[c] = "building" /\ i \in 0 .. Hops
      /\ p \in Processes /\ msg[c].public \in Names
  BY DEF TypeOK, Addressed, Messages, Create
<1>2. p \in 0 .. MaxStarts  BY <1>1 DEF Processes, Bounds
<1>3. key \in SessionKeys /\ key.static = Static(i, p) /\ key.y \in Names
  BY <1>1, <1>2, KeysTyped
<1> HIDE DEF key
<1>4. /\ session' = [session EXCEPT ![i][p][c] = key]
      /\ msg' = [msg EXCEPT ![c] = Message("CREATED", i, key.y, key)]
      /\ UNCHANGED <<tls, host, listing, client, link>>
  BY DEF Create, key
<1>5. TypeOK'
  <2>1. msg' \in [Circuits -> Messages]
    BY <1>1, <1>3, <1>4 DEF TypeOK, Message, Messages
  <2>2. session' \in [Positions -> [Processes -> [Circuits -> SessionKeys]]]
    BY <1>1, <1>3, <1>4 DEF TypeOK
  <2> QED  BY <1>4, <2>1, <2>2 DEF TypeOK
<1>6. Described'  BY <1>4 DEF Described
<1>7. Addressed'  BY <1>1, <1>4 DEF TypeOK, Addressed, Message
<1>8. session'[i][p][c] = key  BY <1>1, <1>4 DEF TypeOK
<1>9. \A k \in Positions, q \in Processes, d \in Circuits :
        d # c \/ k # i => session'[k][q][d] = session[k][q][d]
  BY <1>1, <1>4 DEF TypeOK
<1>10. Answered'
  <2> SUFFICES ASSUME NEW d \in Circuits, msg'[d].cmd = "CREATED"
               PROVE /\ msg'[d].auth.static =
                          Static(msg'[d].hop, link'[d][msg'[d].hop])
                     /\ session'[msg'[d].hop][link'[d][msg'[d].hop]][d] =
                          msg'[d].auth
    BY DEF Answered
  <2>1. CASE d = c
    BY <1>1, <1>3, <1>4, <1>8, <2>1 DEF TypeOK, Message
  <2>2. CASE d # c
    <3>1. msg'[d] = msg[d] /\ link' = link  BY <1>4, <2>2 DEF TypeOK
    <3>2. msg[d].hop \in Positions /\ link[d][msg[d].hop] \in Processes
      BY <3>1 DEF Addressed
    <3> QED  BY <1>9, <2>2, <3>1, <3>2 DEF Answered
  <2> QED  BY <2>1, <2>2
<1>11. KeysAgree'
  <2> SUFFICES ASSUME NEW d \in Circuits, NEW k \in 1 .. have'[d]
               PROVE /\ link'[d][k] = path'[d][k]
                     /\ session'[k][path'[d][k]][d] = keys'[d][k]
    BY DEF KeysAgree
  <2>1. UNCHANGED <<link, path, have, keys>>  BY <1>4
  <2>2. /\ link[d][k] = path[d][k] /\ session[k][path[d][k]][d] = keys[d][k]
    BY <2>1 DEF KeysAgree
  <2>3. k \in Positions /\ (d = c => k # i)
    <3>1. k \in 1 .. have[d] /\ have[d] \in 0 .. Hops
      BY <2>1 DEF TypeOK
    <3> QED  BY <1>1, <3>1 DEF Positions, Bounds
  <2>4. session' = [session EXCEPT ![i] = [session[i] EXCEPT ![p] =
                      [session[i][p] EXCEPT ![c] = key]]]
    BY <1>4
  <2>5. session'[k][path[d][k]][d] = session[k][path[d][k]][d]
    BY <1>1, <2>3, <2>4 DEF TypeOK
  <2> QED  BY <2>1, <2>2, <2>5
<1> QED  BY <1>5, <1>6, <1>7, <1>10, <1>11

\* The tag is the client's own, so the static key in it is that of the process
\* the descriptor is of; it is also the relay's, so it is that of the process
\* that answered.
LEMMA FinishKeeps ==
  ASSUME Bounds, HandshakeInv, NEW c \in Circuits, Finish(c)
  PROVE HandshakeInv'
<1> USE DEF HandshakeInv
<1> DEFINE i == msg[c].hop
           p == link[c][i]
           key == NtorClient(i, path[c][i], c, msg[c].public)
           after == Message("EXTEND", i + 1, ClientEphemeral(c, i + 1), NoKey)
<1>1. /\ msg[c] \in Messages /\ i \in Positions /\ i = have[c] + 1
      /\ state[c] = "building" /\ p \in Processes
      /\ path[c][i] \in 0 .. MaxStarts /\ msg[c].public \in Names
  BY DEF TypeOK, Addressed, Messages, Finish
<1>2. key \in SessionKeys /\ key.static = Static(i, path[c][i])
  BY <1>1, KeysTyped
<1>3. msg[c].auth = key /\ msg[c].cmd = "CREATED"  BY DEF Finish
<1>4. path[c][i] = p
  <2>1. Static(i, path[c][i]) = Static(i, p)  BY <1>2, <1>3 DEF Answered
  <2> QED  BY <2>1, StaticsDiffer
<1>5. session[i][p][c] = key  BY <1>3 DEF Answered
<1>6. /\ keys' = [keys EXCEPT ![c][i] = key]
      /\ have' = [have EXCEPT ![c] = i]
      /\ \/ /\ state' = [state EXCEPT ![c] = "ready"]
            /\ msg' = [msg EXCEPT ![c] = NoMessage]
         \/ /\ i # Hops /\ state' = state
            /\ msg' = [msg EXCEPT ![c] = after]
      /\ UNCHANGED <<tls, host, listing, path, link, session>>
  BY DEF Finish, Accept
<1>7. i # Hops => i + 1 \in Positions /\ after \in Messages
  <2>1. i # Hops => i + 1 \in Positions  BY <1>1 DEF Positions, Bounds
  <2>2. \A k \in Positions : k \in 0 .. Hops  BY DEF Positions, Bounds
  <2> QED  BY <2>1, <2>2, NamesTyped, NothingTyped DEF Message, Messages
<1>8. NoMessage \in Messages /\ NoMessage.cmd = "none"
  BY NothingTyped DEF NoMessage, Message, Messages, Bounds
<1>9. after.cmd = "EXTEND" /\ after.hop = i + 1  BY DEF Message
<1>10. i \in 0 .. Hops  BY <1>1 DEF Positions, Bounds
<1> HIDE DEF key, after
<1>11. TypeOK'
  BY <1>1, <1>2, <1>6, <1>7, <1>8, <1>10 DEF TypeOK
<1>12. Described'  BY <1>1, <1>6 DEF TypeOK, Described
<1>13. Addressed'
  BY <1>1, <1>6, <1>7, <1>8, <1>9 DEF TypeOK, Addressed
<1>14. Answered'
  BY <1>6, <1>8, <1>9 DEF TypeOK, Answered
<1>15. KeysAgree'
  <2> SUFFICES ASSUME NEW d \in Circuits, NEW k \in 1 .. have'[d]
               PROVE /\ link[d][k] = path[d][k]
                     /\ session[k][path[d][k]][d] = keys'[d][k]
    BY <1>6 DEF KeysAgree
  <2>1. CASE d = c /\ k = i
    BY <1>1, <1>4, <1>5, <1>6, <2>1 DEF TypeOK
  <2>2. CASE d = c /\ k # i
    <3>1. k \in 1 .. have[c]
      <4>1. have'[c] = have[c] + 1 /\ have[c] \in 0 .. Hops
        BY <1>1, <1>6 DEF TypeOK
      <4> QED  BY <1>1, <2>2, <4>1 DEF Bounds
    <3> QED  BY <1>1, <1>6, <2>2, <3>1 DEF TypeOK, KeysAgree
  <2>3. CASE d # c
    <3>1. have'[d] = have[d] /\ keys'[d] = keys[d]  BY <1>6, <2>3 DEF TypeOK
    <3> QED  BY <3>1 DEF KeysAgree
  <2> QED  BY <2>1, <2>2, <2>3
<1> QED  BY <1>11, <1>12, <1>13, <1>14, <1>15

LEMMA FailKeeps ==
  ASSUME Bounds, HandshakeInv, NEW c \in Circuits, Fail(c)
  PROVE HandshakeInv'
<1> USE DEF HandshakeInv, Fail
<1>1. NoMessage \in Messages /\ NoMessage.cmd = "none"
  BY NothingTyped DEF NoMessage, Message, Messages, Bounds
<1>2. TypeOK'  BY <1>1 DEF TypeOK
<1>3. Described'  BY DEF TypeOK, Described
<1>4. Addressed'  BY <1>1 DEF TypeOK, Addressed
<1>5. Answered'  BY <1>1 DEF TypeOK, Answered
<1>6. KeysAgree'  BY DEF KeysAgree
<1> QED  BY <1>2, <1>3, <1>4, <1>5, <1>6

LEMMA HandshakeStep ==
  ASSUME Bounds PROVE HandshakeInv /\ [Next]_vars => HandshakeInv'
<1> SUFFICES ASSUME HandshakeInv, [Next]_vars PROVE HandshakeInv'
  OBVIOUS
<1>1. ASSUME NEW i \in Positions, Restart(i) \/ Register(i)
      PROVE HandshakeInv'
  BY <1>1, ProcessKeeps
<1>2. ASSUME NEW c \in Circuits,
             \/ RequestPath(c) \/ Connect(c) \/ Extend(c)
             \/ Create(c) \/ Finish(c) \/ Fail(c)
      PROVE HandshakeInv'
  BY <1>2, RequestPathKeeps, ConnectKeeps, ExtendKeeps, CreateKeeps,
    FinishKeeps, FailKeeps
<1>3. CASE UNCHANGED vars
  BY <1>3 DEF vars, client, HandshakeInv, TypeOK, Described, Addressed,
    Answered, KeysAgree
<1> QED  BY <1>1, <1>2, <1>3 DEF Next
-----------------------------------------------------------------------------
\* Type correctness of the handshake: what is in every variable, message and
\* session at any time of any build.
THEOREM HandshakeTypeCorrect == Bounds /\ Spec => []TypeOK
<1>1. Bounds /\ Init => HandshakeInv  BY HandshakeInit
<1>2. Bounds /\ HandshakeInv /\ [Next]_vars => HandshakeInv'
  BY HandshakeStep
<1>3. Bounds => Bounds'  BY DEF Bounds
<1>4. HandshakeInv => TypeOK  BY DEF HandshakeInv
<1> QED  BY <1>1, <1>2, <1>3, <1>4, PTL DEF Spec

\* A client that has a key for a hop has the one of the process its descriptor
\* was of: HandshakeAuthFailed ends every build in which another process
\* answered, for any number of circuits, hops and restarts.
THEOREM HandshakeKeysAgree == Bounds /\ Spec => []KeysAgree
<1>1. Bounds /\ Init => HandshakeInv  BY HandshakeInit
<1>2. Bounds /\ HandshakeInv /\ [Next]_vars => HandshakeInv'
  BY HandshakeStep
<1>3. Bounds => Bounds'  BY DEF Bounds
<1>4. HandshakeInv => KeysAgree  BY DEF HandshakeInv
<1> QED  BY <1>1, <1>2, <1>3, <1>4, PTL DEF Spec
=============================================================================
