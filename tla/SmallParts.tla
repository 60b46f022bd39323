----------------------------- MODULE SmallParts -----------------------------
(***************************************************************************)
(* PathSelection and the other small components, each of which needs no    *)
(* other: the handshake, the cells on a stream, the draw of a node, the    *)
(* activity feed, the detail panel, the start of a process.  A behaviour   *)
(* is one of a single `part`, on the constants of that part; the variables *)
(* of the others have a value that no step of this behaviour reads.        *)
(***************************************************************************)
EXTENDS PathSelection

CONSTANTS
  Numbers, Hops, MaxStarts,              \* of Handshake
  MaxPayload, Bytes, CircuitIds, Sent, MaxCells,  \* of CellCodec
  Limit, MaxNodes,                       \* of WeightedDraw
  Relays, AddressOf, TypeOf,             \* of ActivityFeed and NodePanel
  Capacity, Window, PageLimit, MaxEvents, MaxCalls,
  Recent, MaxRelayEvents,
  MaxHops                                \* of Startup

\* Sizes are positive, every command that is sent is one, and a circuit of the
\* wizard's and of clap's smallest length is allowed.
ASSUME SizesAssumption ==
  /\ Numbers \in Nat /\ Hops \in Nat \ {0} /\ MaxStarts \in Nat
  /\ MaxPayload \in Nat /\ MaxCells \in Nat
  /\ Bytes \subseteq Nat /\ CircuitIds \subseteq Nat
  /\ Sent \subseteq 0 .. 5 \union 16 .. 19
  /\ Limit \in Nat \ {0} /\ MaxNodes \in Nat
  /\ IsFiniteSet(Relays) /\ NoNode \notin Relays
  /\ Capacity \in Nat \ {0} /\ Window \in Nat \ {0}
  /\ PageLimit \in Nat /\ MaxEvents \in Nat
  /\ Recent \in Nat /\ MaxRelayEvents \in Nat
  /\ MaxHops \in Nat /\ MaxHops >= 3

VARIABLES
  part,
  hsTls, hsHost, hsListing, hsState, hsPath, hsHave, hsKeys, hsLink, hsMsg,
  hsSession,
  ccOut, ccWire, ccLink, ccBuf, ccReader, ccWritten, ccMessages,
  wdBandwidths, wdPc, wdTotal, wdDrawn, wdWeight, wdI,
  afPhase, afListed, afCalls, afSwept, afCounts, afLog, afNow, afAnswer,
  afPage, afLate,
  npMade, npRing, npEntries, npFetched, npNodes, npTab, npSelected,
  suRole, suPhase, suWizard, suForm, suFocused, suError

hsVars == <<hsTls, hsHost, hsListing, hsState, hsPath, hsHave, hsKeys, hsLink,
  hsMsg, hsSession>>
ccVars == <<ccOut, ccWire, ccLink, ccBuf, ccReader, ccWritten, ccMessages>>
wdVars == <<wdBandwidths, wdPc, wdTotal, wdDrawn, wdWeight, wdI>>
afVars == <<afPhase, afListed, afCalls, afSwept, afCounts, afLog, afNow,
  afAnswer, afPage, afLate>>
npVars == <<npMade, npRing, npEntries, npFetched, npNodes, npTab, npSelected>>
suVars == <<suRole, suPhase, suWizard, suForm, suFocused, suError>>

HS == INSTANCE Handshake WITH
  tls <- hsTls, host <- hsHost, listing <- hsListing, state <- hsState,
  path <- hsPath, have <- hsHave, keys <- hsKeys, link <- hsLink, msg <- hsMsg,
  session <- hsSession

CC == INSTANCE CellCodec WITH
  Circuits <- CircuitIds,
  out <- ccOut, wire <- ccWire, link <- ccLink, buf <- ccBuf,
  reader <- ccReader, written <- ccWritten, messages <- ccMessages

WD == INSTANCE WeightedDraw WITH
  bandwidths <- wdBandwidths, pc <- wdPc, total <- wdTotal, drawn <- wdDrawn,
  weight <- wdWeight, i <- wdI

AF == INSTANCE ActivityFeed WITH
  Limit <- PageLimit,
  phase <- afPhase, listed <- afListed, calls <- afCalls, swept <- afSwept,
  counts <- afCounts, log <- afLog, now <- afNow, answer <- afAnswer,
  page <- afPage, late <- afLate

NP == INSTANCE NodePanel WITH
  made <- npMade, ring <- npRing, entries <- npEntries, fetched <- npFetched,
  nodes <- npNodes, tab <- npTab, selected <- npSelected

SU == INSTANCE Startup WITH
  role <- suRole, phase <- suPhase, wizard <- suWizard, form <- suForm,
  focused <- suFocused, error <- suError
-----------------------------------------------------------------------------
Parts == {"selection", "handshake", "cells", "draw", "feed", "panel", "start"}

\* Every part is in an initial state of its own, and those that will not run
\* are in one and the same.
PartsInit ==
  /\ part \in Parts
  /\ IF part = "selection" THEN TRUE ELSE registered = << >> /\ Init
  /\ IF part = "handshake" THEN TRUE ELSE hsTls = TRUE
  /\ HS!Init
  /\ CC!Init
  /\ IF part = "draw" THEN TRUE ELSE wdBandwidths = <<>>
  /\ WD!Init
  /\ AF!Init
  /\ NP!Init
  /\ IF part = "start" THEN TRUE
     ELSE suRole = "client" /\ suForm = CHOOSE f \in SU!TorClientConfig : TRUE
  /\ SU!Init
  /\ part = "selection" => Init

PartsNext ==
  \/ /\ part = "selection" /\ Next
     /\ UNCHANGED <<part, hsVars, ccVars, wdVars, afVars, npVars, suVars>>
  \/ /\ part = "handshake" /\ HS!Next
     /\ UNCHANGED <<part, vars, ccVars, wdVars, afVars, npVars, suVars>>
  \/ /\ part = "cells" /\ CC!Next
     /\ UNCHANGED <<part, vars, hsVars, wdVars, afVars, npVars, suVars>>
  \/ /\ part = "draw" /\ WD!Next
     /\ UNCHANGED <<part, vars, hsVars, ccVars, afVars, npVars, suVars>>
  \/ /\ part = "feed" /\ AF!Next
     /\ UNCHANGED <<part, vars, hsVars, ccVars, wdVars, npVars, suVars>>
  \/ /\ part = "panel" /\ NP!Next
     /\ UNCHANGED <<part, vars, hsVars, ccVars, wdVars, afVars, suVars>>
  \/ /\ part = "start" /\ SU!Next
     /\ UNCHANGED <<part, vars, hsVars, ccVars, wdVars, afVars, npVars>>

PartsVars ==
  <<vars, hsVars, ccVars, wdVars, afVars, npVars, suVars, part>>

PartsSpec == PartsInit /\ [][PartsNext]_PartsVars
-----------------------------------------------------------------------------
\* Each property is stated, and explained, in the module of its part.

\* The type invariants of the other parts.
TypesOK ==
  /\ part = "handshake" => HS!TypeOK
  /\ part = "cells" => CC!TypeOK
  /\ part = "draw" => WD!TypeOK
  /\ part = "feed" => AF!TypeOK
  /\ part = "panel" => NP!TypeOK
  /\ part = "start" => SU!TypeOK

\* Handshake: client and relay hold the same key, and the relay is the one
\* that the client has the descriptor of.
KeysAgree == part = "handshake" => HS!KeysAgree

\* CellCodec: from_stream returns what write_to_stream was given.
ReadsWhatWasWritten == part = "cells" => CC!ReadsWhatWasWritten

\* WeightedDraw: select_weighted_index gives each node its share of the draws.
FairShare == part = "draw" => WD!FairShare

\* ActivityFeed: the page has every event of the service, once and in order.
FeedFaithful == part = "feed" => AF!FeedFaithful

\* ActivityFeed: the counters account for the registry.
CountersAccount == part = "feed" => AF!CountersAccount

\* NodePanel: the panel shows the last events of a node of the active tab.
PanelFaithful == part = "panel" => NP!PanelFaithful

\* Startup: what the wizard accepts starts, given its URL and pool are good.
AcceptedStarts == part = "start" => SU!AcceptedStarts

\* Startup: focus and error belong to what is on the screen.
FormConsistent == part = "start" => SU!FormConsistent
=============================================================================
