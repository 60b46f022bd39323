------------------------------- MODULE Startup -------------------------------
(***************************************************************************)
(* The start of a relay and of a client, from the command line to the      *)
(* running process: clap's own checks, the wizard that edits and checks    *)
(* the configuration (--tui), the question a client asks before circuits   *)
(* of the maximal length, and then the consumers of the configuration,     *)
(* each of which may refuse its value: they, not the wizard's checks, say  *)
(* what a good configuration is.                                           *)
(*                                                                         *)
(* A field's text is abstracted to what its readers tell apart: the number *)
(* it parses to (Garbage when it does not), or a word for its form.  One   *)
(* edit stands for any number of keys in a field.  That the directory is   *)
(* there and knows enough relays and that a port is free is not the        *)
(* configuration's doing: here they always are.                            *)
(***************************************************************************)
EXTENDS Integers, Sequences, SequencesExt, FiniteSetsExt

CONSTANT MaxHops  \* MAX_HOPS, of core/config.rs and of the wizard (10)

VARIABLES
  role,     \* "relay" or "client"
  phase,    \* "parsed", "editing", "accepted", "running", "left", or "failed":
            \* ended with an error, or out of everybody's reach
  wizard,   \* the wizard made the configuration
  form,     \* the fields of RelayConfig or TorClientConfig
  focused,  \* WizardState::focused, from 0
  error     \* WizardState::error: the field that was refused, or NoError

vars == <<role, phase, wizard, form, focused, error>>

NodeTypes == <<"Entry", "Middle", "Exit">>
NoType == "None"
NoError == "None"
Garbage == -1
Huge == 2  \* a usize of circuits for which Vec::with_capacity has no room

\* The texts of the text fields, as keys may leave them.  A URL has one of the
\* two schemes or none; behind the scheme is a host, or ("malformed") what the
\* http crate refuses: nothing, a blank, a port that is no number.
Texts(field) ==
  CASE field \in {"Port", "Bandwidth", "Heartbeat", "MaxRebuildAttempts"} ->
         {Garbage, 0, 1}
    [] field = "PoolSize" -> {Garbage, 0, 1, Huge}
    [] field = "Hops" -> {Garbage, 2, 3, MaxHops, MaxHops + 1}
    [] field = "Host" -> {"ip", "name"}
    [] field = "SocksAddr" -> {"ip:port", "name:port", "bare"}
    [] field = "DirectoryUrl" -> {"http://host", "https://host", "malformed",
                                  "bare"}
    [] field = "OperatorId" -> {"", "id"}

RelayFields == {"Port", "Host", "DirectoryUrl", "Bandwidth", "Heartbeat",
                "OperatorId"}
ClientFields == {"SocksAddr", "DirectoryUrl", "PoolSize", "Hops",
                 "MaxRebuildAttempts"}

\* What clap lets through: the types of the fields, and value parsers for the
\* node type, the hops and the attempts.
RelayConfig ==
  [type : ToSet(NodeTypes) \union {NoType}, allowAll : BOOLEAN,
   bindHost : Texts("Host"), tui : BOOLEAN,
   text : [Port : {0, 1}, Bandwidth : {0, 1}, Heartbeat : {0, 1},
           Host : Texts("Host"), DirectoryUrl : Texts("DirectoryUrl"),
           OperatorId : Texts("OperatorId")]]
TorClientConfig ==
  [tui : BOOLEAN,
   text : [SocksAddr : Texts("SocksAddr"), DirectoryUrl : Texts("DirectoryUrl"),
           PoolSize : {0, 1, Huge}, Hops : {3, MaxHops}, MaxRebuildAttempts : {1}]]

\* active_fields and FIELDS, in the order of the screen.
ActiveFields ==
  IF role = "client"
  THEN <<"SocksAddr", "DirectoryUrl", "PoolSize", "Hops",
         "MaxRebuildAttempts">>
  ELSE <<"NodeType", "Port", "Host", "DirectoryUrl", "Bandwidth",
         "Heartbeat">> \o (IF form.type = "Exit" THEN <<"ExitAllowAll">>
                           ELSE <<>>) \o <<"OperatorId">>

\* current(): None when the focus is beyond the fields.
Current == IF focused < Len(ActiveFields) THEN ActiveFields[focused + 1]
           ELSE "None"

\* What validate takes for a field.
Takes(field, value) ==
  CASE field \in {"Port", "Bandwidth", "Heartbeat", "PoolSize",
                  "MaxRebuildAttempts"} -> value >= 1
    [] field = "Hops" -> value \in 3 .. MaxHops
    [] field = "Host" -> value = "ip"
    [] field = "SocksAddr" -> value = "ip:port"
    [] field = "DirectoryUrl" -> value # "bare"  \* only the scheme is looked at
    [] field = "OperatorId" -> TRUE

\* Mutant of Checks: the heartbeat interval is not checked.
ChecksNoHeartbeat ==
  IF role = "client"
  THEN <<"SocksAddr", "DirectoryUrl", "PoolSize", "Hops",
         "MaxRebuildAttempts">>
  ELSE <<"Port", "Host", "DirectoryUrl", "Bandwidth">>

\* The checks of validate, in their order.
Checks ==
  IF role = "client"
  THEN <<"SocksAddr", "DirectoryUrl", "PoolSize", "Hops",
         "MaxRebuildAttempts">>
  ELSE <<"Port", "Host", "DirectoryUrl", "Bandwidth", "Heartbeat">>

\* The first field validate refuses.
Refused ==
  LET failing == {i \in DOMAIN Checks : ~Takes(Checks[i], form.text[Checks[i]])}
  IN IF failing = {} THEN NoError ELSE Checks[Min(failing)]

\* What Channel::from_shared parses.
UrlParses == form.text.DirectoryUrl \in {"http://host", "https://host"}

\* What the consumers of a relay's configuration need: bind_addr and
\* listener_addr parse the hosts, the channel its URL; the directory refuses a
\* bandwidth of 0; tokio::time::interval panics on a period of 0 and the end
\* of that task stops the relay; nobody reaches the registered port 0.
RelayNeeds ==
  /\ form.type # NoType
  /\ form.text.Host = "ip" /\ form.bindHost = "ip"
  /\ UrlParses
  /\ form.text.Bandwidth > 0
  /\ form.text.Port > 0
  /\ form.text.Heartbeat > 0

\* ... and of a client's: the channel; the listener, which also resolves names;
\* and the pool, which has to fit and asks for as many hops as a circuit will
\* have.  A pool of size 0 asks for none: handlers build on demand.
ClientNeeds ==
  /\ UrlParses
  /\ form.text.SocksAddr # "bare"
  /\ form.text.PoolSize # Huge
  /\ form.text.PoolSize > 0 => form.text.Hops >= 3
-----------------------------------------------------------------------------
Init ==
  /\ phase = "parsed" /\ wizard = FALSE /\ focused = 0 /\ error = NoError
  /\ \/ role = "relay" /\ form \in RelayConfig
     \/ role = "client" /\ form \in TorClientConfig

\* run_wizard, with the command line as defaults: a relay runs it only when no
\* node type was given, so it opens on an entry relay without allow-all.
OpenWizard ==
  /\ phase = "parsed" /\ form.tui
  /\ role = "relay" => form.type = NoType
  /\ phase' = "editing" /\ wizard' = TRUE
  /\ form' = IF role = "relay"
             THEN [form EXCEPT !.type = NodeTypes[1], !.allowAll = FALSE]
             ELSE form
  /\ UNCHANGED <<role, focused, error>>

\* Without the wizard: `node_type` is required, and a client asks before it
\* starts with the maximal number of hops.
NoWizard ==
  /\ phase = "parsed"
  /\ ~form.tui \/ (role = "relay" /\ form.type # NoType)
  /\ \/ phase' = "accepted"
     \/ role = "client" /\ form.text.Hops = MaxHops /\ phase' = "left"
  /\ UNCHANGED <<role, wizard, form, focused, error>>

Up ==
  /\ phase = "editing" /\ focused > 0
  /\ focused' = focused - 1
  /\ UNCHANGED <<role, phase, wizard, form, error>>

Down ==
  /\ phase = "editing" /\ focused < Len(ActiveFields) - 1
  /\ focused' = focused + 1
  /\ UNCHANGED <<role, phase, wizard, form, error>>

TypeIndex == CHOOSE i \in 1 .. 3 : NodeTypes[i] = form.type

\* Mutant of Turn: the type turns whatever field is current.
TurnAnywhere(by) ==
  /\ phase = "editing" /\ role = "relay"
  /\ TypeIndex + by \in 1 .. 3
  /\ form' = [form EXCEPT !.type = NodeTypes[TypeIndex + by]]
  /\ UNCHANGED <<role, phase, wizard, focused, error>>

\* left (by -1) and right (by 1).
Turn(by) ==
  /\ phase = "editing" /\ role = "relay"
  /\ \/ /\ Current = "NodeType" /\ TypeIndex + by \in 1 .. 3
        /\ form' = [form EXCEPT !.type = NodeTypes[TypeIndex + by]]
     \/ /\ Current = "ExitAllowAll"
        /\ form' = [form EXCEPT !.allowAll = by = 1]
  /\ UNCHANGED <<role, phase, wizard, focused, error>>

\* push_char and pop_char: they clear the error.
Edit ==
  /\ phase = "editing" /\ Current \in RelayFields \union ClientFields
  /\ \E value \in Texts(Current) : form' = [form EXCEPT !.text[Current] = value]
  /\ error' = NoError
  /\ UNCHANGED <<role, phase, wizard, focused>>

\* Enter: validate; the relay's result binds to 0.0.0.0 whatever --bind-host
\* said.
Enter ==
  /\ phase = "editing"
  /\ error' = Refused
  /\ IF Refused = NoError
     THEN /\ phase' = "accepted"
          /\ form' = IF role = "relay" THEN [form EXCEPT !.bindHost = "ip"]
                     ELSE form
     ELSE UNCHANGED <<phase, form>>
  /\ UNCHANGED <<role, wizard, focused>>

\* Esc ends the process.
Escape ==
  /\ phase = "editing"
  /\ phase' = "left"
  /\ UNCHANGED <<role, wizard, form, focused, error>>

\* The rest of main.  tonic is built without TLS here: whether a channel over
\* https comes up is the library's and the server's doing.
Start ==
  /\ phase = "accepted"
  /\ LET fits == IF role = "relay" THEN RelayNeeds ELSE ClientNeeds IN
       \/ fits /\ phase' = "running"
       \/ /\ ~fits \/ form.text.DirectoryUrl = "https://host"
          /\ phase' = "failed"
  /\ UNCHANGED <<role, wizard, form, focused, error>>

Next ==
  \/ OpenWizard \/ NoWizard \/ Up \/ Down \/ Turn(-1) \/ Turn(1) \/ Edit
  \/ Enter \/ Escape \/ Start

Spec == Init /\ [][Next]_vars
-----------------------------------------------------------------------------
(* Properties.                                                             *)

\* Every variable keeps its type.
TypeOK ==
  /\ role \in {"relay", "client"}
  /\ phase \in {"parsed", "editing", "accepted", "running", "failed", "left"}
  /\ wizard \in BOOLEAN /\ focused \in 0 .. 7
  /\ DOMAIN form.text = IF role = "relay" THEN RelayFields ELSE ClientFields
  /\ \A f \in DOMAIN form.text : form.text[f] \in Texts(f)
  /\ role = "relay" => form.type \in ToSet(NodeTypes) \union {NoType}
  /\ error \in RelayFields \union ClientFields \union {NoError}

\* A configuration the wizard accepts starts: no consumer refuses what validate
\* took, but for what validate does not look at, the URL behind its scheme and
\* the room for the pool.  A client keeps its limits on both ways: clap checks
\* them against one constant and the wizard against another.
AcceptedStarts ==
  /\ phase = "failed" /\ wizard =>
       \/ form.text.DirectoryUrl # "http://host"
       \/ role = "client" /\ form.text.PoolSize = Huge
  /\ phase = "running" /\ role = "client" =>
       form.text.Hops \in 3 .. MaxHops /\ form.text.MaxRebuildAttempts >= 1

\* The focus is on a field of the screen although the list shrinks when the
\* type leaves Exit, and an error on the screen is about what is still there.
FormConsistent ==
  phase = "editing" =>
    /\ Current # "None"
    /\ error # NoError => ~Takes(error, form.text[error])
=============================================================================
