----------------------------- MODULE Handshake -----------------------------
(***************************************************************************)
(* Who shares a key with whom.  The ntor handshake of crypto.rs, run once  *)
(* for each hop of a circuit, while relays restart - with a new static key *)
(* and a new certificate behind the same address - and the directory still *)
(* describes the process before.  RelayCircuits has the cells, the layers  *)
(* and the locks of the same build; here a message goes all the way, and   *)
(* what it carries matters.                                                *)
(*                                                                         *)
(* Process p of hop i is the p-th that runs at the i-th address.  A secret *)
(* has a name, its public key has the same, and raw_dh is the set of the   *)
(* two names: both ends compute the same, and nothing else is equal to it. *)
(* HMAC is injective, so a key and a tag are what went into them.          *)
(***************************************************************************)
EXTENDS Naturals

CONSTANTS
  Numbers,    \* circuit ids of a client: 1 .. Numbers, built in any order
  Hops,       \* hops of a path
  MaxStarts   \* bound: processes at an address

VARIABLES
  tls,      \* the feature of the build
  host,     \* [hops -> Nat]: the process at the address, 0 for none yet
  listing,  \* [hops -> Nat]: the process its descriptor in the directory is of
  state,    \* [Circuits -> "new", "path", "building", "ready" or "failed"]
  path,     \* [Circuits -> [hops -> Nat]]: the descriptors of the path
  have,     \* [Circuits -> Nat]: hops the client has a session key for
  keys,     \* [Circuits -> [hops -> session key]]
  link,     \* [Circuits -> [hops -> Nat]]: the process at the end of the
            \* connection to a hop
  msg,      \* [Circuits -> the message on its way, if any]
  session   \* [hops -> [processes -> [Circuits -> session key]]]

client == <<state, path, have, keys>>
vars == <<tls, host, listing, client, link, msg, session>>

Circuits == 1 .. Numbers
Positions == 1 .. Hops
Processes == 1 .. MaxStarts

\* Names of secrets: of a relay's KeyPair, of the ephemeral pairs of a relay
\* (ntor_server) and of a client (NtorEphemeralKeyPair::generate).
Name(kind, hop, process, circuit) ==
  [kind |-> kind, hop |-> hop, process |-> process, circuit |-> circuit]

Static(i, p) == Name("static", i, p, 0)
ServerEphemeral(i, p, c) == Name("server", i, p, c)
ClientEphemeral(c, i) == Name("client", i, 0, c)
NoName == Name("none", 0, 0, 0)

RawDh(secret, public) == {secret, public}

\* secret_input; the tag and the session key are two HMACs of it.
SecretInput(exp1, exp2, static, x, y) ==
  [exp1 |-> exp1, exp2 |-> exp2, static |-> static, x |-> x, y |-> y]

NoKey == SecretInput({}, {}, NoName, NoName, NoName)

Message(cmd, hop, public, auth) ==
  [cmd |-> cmd, hop |-> hop, public |-> public, auth |-> auth]
NoMessage == Message("none", 0, NoName, NoKey)

\* ntor_server: what the relay computes for the client's public key.
NtorServer(i, p, c, x) ==
  LET y == ServerEphemeral(i, p, c)
  IN SecretInput(RawDh(y, x), RawDh(Static(i, p), x), Static(i, p), x, y)

\* ntor_client_finish_raw: what the client expects of the process it has the
\* descriptor of, for the public key that came with the answer.
NtorClient(i, p, c, y) ==
  LET x == ClientEphemeral(c, i)
  IN SecretInput(RawDh(x, y), RawDh(x, Static(i, p)), Static(i, p), x, y)
-----------------------------------------------------------------------------
Init ==
  /\ tls \in BOOLEAN
  /\ host = [i \in Positions |-> 0] /\ listing = [i \in Positions |-> 0]
  /\ state = [c \in Circuits |-> "new"]
  /\ path = [c \in Circuits |-> [i \in Positions |-> 0]]
  /\ have = [c \in Circuits |-> 0]
  /\ keys = [c \in Circuits |-> [i \in Positions |-> NoKey]]
  /\ link = [c \in Circuits |-> [i \in Positions |-> 0]]
  /\ msg = [c \in Circuits |-> NoMessage]
  /\ session = [i \in Positions |-> [p \in Processes |->
                 [c \in Circuits |-> NoKey]]]

\* A relay starts, for the first time or again: KeyPair::generate and
\* create_acceptor, and nothing of the process before.
Restart(i) ==
  /\ host[i] < MaxStarts
  /\ host' = [host EXCEPT ![i] = @ + 1]
  /\ UNCHANGED <<tls, listing, client, link, msg, session>>

\* It registers, and replaces what the directory had at the address.
Register(i) ==
  /\ listing[i] # host[i]
  /\ listing' = [listing EXCEPT ![i] = host[i]]
  /\ UNCHANGED <<tls, host, client, link, msg, session>>

\* The pool asks for a path, and has its descriptors from now on.
RequestPath(c) ==
  /\ state[c] = "new" /\ \A i \in Positions : listing[i] > 0
  /\ state' = [state EXCEPT ![c] = "path"]
  /\ path' = [path EXCEPT ![c] = listing]
  /\ UNCHANGED <<tls, host, listing, have, keys, link, msg, session>>

\* FingerprintVerifier: with TLS, the certificate is the described one.
Reaches(c, i) == tls => host[i] = path[c][i]

\* The client connects to the entry and sends CREATE ...
Connect(c) ==
  /\ state[c] = "path" /\ Reaches(c, 1)
  /\ state' = [state EXCEPT ![c] = "building"]
  /\ link' = [link EXCEPT ![c][1] = host[1]]
  /\ msg' = [msg EXCEPT ![c] =
               Message("CREATE", 1, ClientEphemeral(c, 1), NoKey)]
  /\ UNCHANGED <<tls, host, listing, path, have, keys, session>>

\* ... and a hop that has the EXTEND connects to the next one and sends CREATE
\* with the client's public key.
Extend(c) ==
  /\ msg[c].cmd = "EXTEND"
  /\ LET i == msg[c].hop
     IN /\ link[c][i - 1] = host[i - 1] /\ Reaches(c, i)
        /\ link' = [link EXCEPT ![c][i] = host[i]]
        /\ msg' = [msg EXCEPT ![c] = Message("CREATE", i, @.public, NoKey)]
  /\ UNCHANGED <<tls, host, listing, client, session>>

\* handle_create of entry, middle and exit: activate, and CREATED, which the
\* hops before send back as EXTENDED.
Create(c) ==
  /\ msg[c].cmd = "CREATE"
  /\ LET i == msg[c].hop
         p == link[c][i]
         key == NtorServer(i, p, c, msg[c].public)
     IN /\ p = host[i]
        /\ session' = [session EXCEPT ![i][p][c] = key]
        /\ msg' = [msg EXCEPT ![c] = Message("CREATED", i, key.y, key)]
  /\ UNCHANGED <<tls, host, listing, client, link>>

\* The answer verifies: one more key, and the next EXTEND - or the circuit is
\* ready.
Accept(c) ==
  LET i == msg[c].hop
      key == NtorClient(i, path[c][i], c, msg[c].public)
  IN /\ keys' = [keys EXCEPT ![c][i] = key]
     /\ have' = [have EXCEPT ![c] = i]
     /\ IF i = Hops
        THEN /\ state' = [state EXCEPT ![c] = "ready"]
             /\ msg' = [msg EXCEPT ![c] = NoMessage]
        ELSE /\ msg' = [msg EXCEPT ![c] =
                   Message("EXTEND", i + 1, ClientEphemeral(c, i + 1), NoKey)]
             /\ UNCHANGED state

\* Mutant of Finish: the tag is not compared.
FinishUnverified(c) ==
  /\ msg[c].cmd = "CREATED"
  /\ Accept(c)
  /\ UNCHANGED <<tls, host, listing, path, link, session>>

\* handshake_create and handshake_extend have the answer.
Finish(c) ==
  /\ msg[c].cmd = "CREATED"
  /\ msg[c].auth = NtorClient(msg[c].hop, path[c][msg[c].hop], c, msg[c].public)
  /\ Accept(c)
  /\ UNCHANGED <<tls, host, listing, path, link, session>>

\* HandshakeAuthFailed; and, at any time, a refused or lost connection, a
\* certificate that is not the described one, a handshake that times out.
\* The build ends, and what is still on its way has no reader.
Fail(c) ==
  /\ state[c] \in {"path", "building"}
  /\ state' = [state EXCEPT ![c] = "failed"]
  /\ msg' = [msg EXCEPT ![c] = NoMessage]
  /\ UNCHANGED <<tls, host, listing, path, have, keys, link, session>>

Next ==
  \/ \E i \in Positions : Restart(i) \/ Register(i)
  \/ \E c \in Circuits : \/ RequestPath(c) \/ Connect(c) \/ Extend(c)
                         \/ Create(c) \/ Finish(c) \/ Fail(c)

Spec == Init /\ [][Next]_vars
-----------------------------------------------------------------------------
(* Properties.                                                             *)

Names == [kind : {"static", "server", "client", "none"}, hop : 0 .. Hops,
          process : 0 .. MaxStarts, circuit : 0 .. Numbers]
SessionKeys == [exp1 : SUBSET Names, exp2 : SUBSET Names,
                static : Names, x : Names, y : Names]
Messages == [cmd : {"none", "CREATE", "CREATED", "EXTEND"}, hop : 0 .. Hops,
             public : Names, auth : SessionKeys]

\* Every variable keeps its type.
TypeOK ==
  /\ tls \in BOOLEAN
  /\ host \in [Positions -> 0 .. MaxStarts]
  /\ listing \in [Positions -> 0 .. MaxStarts]
  /\ state \in [Circuits -> {"new", "path", "building", "ready", "failed"}]
  /\ path \in [Circuits -> [Positions -> 0 .. MaxStarts]]
  /\ have \in [Circuits -> 0 .. Hops]
  /\ keys \in [Circuits -> [Positions -> SessionKeys]]
  /\ link \in [Circuits -> [Positions -> 0 .. MaxStarts]]
  /\ msg \in [Circuits -> Messages]
  /\ session \in [Positions -> [Processes -> [Circuits -> SessionKeys]]]

\* A key the client has for a hop is the session key of the process its
\* descriptor was of, for this circuit, and the connection to the hop ends at
\* that process - with TLS or without, however stale the descriptors were and
\* whoever answered in place of a relay that had restarted.
KeysAgree ==
  \A c \in Circuits : \A i \in 1 .. have[c] :
    /\ link[c][i] = path[c][i]
    /\ session[i][path[c][i]][c] = keys[c][i]
=============================================================================
