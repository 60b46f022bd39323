----------------------------- MODULE NodePanel -----------------------------
(***************************************************************************)
(* The activity of a relay, up to the detail panel of the web page: its    *)
(* events go into its own EventBuffer, the newest ones travel with a       *)
(* heartbeat into the registry, an answer of GET /api/dashboard takes them *)
(* to the page, and the panel shows them for the selected row of the table *)
(* of the active tab.                                                      *)
(*                                                                         *)
(* An event is its `elapsed` time, counted in events.  A relay registers   *)
(* once and then beats; its entry may be removed, by the relay or by a     *)
(* clean-up, at any moment.  The order of the rows is left out.            *)
(***************************************************************************)
EXTENDS Naturals, Sequences, FiniteSets, SequencesExt, FiniteSetsExt

CONSTANTS
  Relays, TypeOf,  \* node ids and their types
  Capacity,        \* of a relay's event ring (200)
  Recent,          \* events in a heartbeat (20)
  NoNode,          \* selected_id: None
  MaxRelayEvents   \* bound: events of all relays

VARIABLES
  made,      \* events each relay has recorded
  ring,      \* RelayMetrics::events of each relay
  entries,   \* the registry: ids -> the metrics of the last heartbeat
  fetched,   \* the nodes of an answer on its way to the page, or NoNode
  nodes,     \* the nodes of the page (NoNode before the first answer)
  tab,       \* active_tab
  selected   \* selected_id

vars == <<made, ring, entries, fetched, nodes, tab, selected>>

INSTANCE EventBuffer

Tabs == {"All", "Entry", "Middle", "Exit"}

\* NodeEntry::metrics before the first heartbeat.
NoMetrics == [uptime |-> 0, events |-> <<>>]

\* filter_nodes: the rows of the table.
Rows == {n \in DOMAIN nodes : tab = "All" \/ TypeOf[n] = tab}

\* The lines of the detail panel of a node: they come newest first.
Panel(n) == Reverse(nodes[n].events)
-----------------------------------------------------------------------------
Init ==
  /\ made = [r \in Relays |-> 0] /\ ring = [r \in Relays |-> <<>>]
  /\ entries = << >> /\ fetched = NoNode /\ nodes = << >>
  /\ tab = "All" /\ selected = NoNode

\* RelayMetrics::push_event, by any task of the relay.
RelayEvent(r) ==
  /\ SumFunction(made) < MaxRelayEvents
  /\ made' = [made EXCEPT ![r] = @ + 1]
  /\ ring' = [ring EXCEPT ![r] = Push(@, made[r] + 1)]
  /\ UNCHANGED <<entries, fetched, nodes, tab, selected>>

\* NodeEntry::new, in register_node.
Register(r) ==
  /\ r \notin DOMAIN entries
  /\ entries' = [n \in DOMAIN entries \union {r} |->
                   IF n = r THEN NoMetrics ELSE entries[n]]
  /\ UNCHANGED <<made, ring, fetched, nodes, tab, selected>>

\* build_metrics, and the call that stores the result.
Heartbeat(r) ==
  /\ r \in DOMAIN entries
  /\ entries' = [entries EXCEPT ![r] =
       [uptime |-> made[r], events |-> Newest(ring[r], Recent)]]
  /\ UNCHANGED <<made, ring, fetched, nodes, tab, selected>>

\* remove_node, or a clean-up that found the node stale.
Forget(r) ==
  /\ r \in DOMAIN entries
  /\ entries' = Restrict(entries, DOMAIN entries \ {r})
  /\ UNCHANGED <<made, ring, fetched, nodes, tab, selected>>

\* dashboard_handler reads the entries ...
Fetch ==
  /\ fetched = NoNode
  /\ fetched' = entries
  /\ UNCHANGED <<made, ring, entries, nodes, tab, selected>>

\* ... and the page shows them: data.set.  The selection stays.
Show ==
  /\ fetched # NoNode
  /\ nodes' = fetched
  /\ fetched' = NoNode
  /\ UNCHANGED <<made, ring, entries, tab, selected>>

\* A click on a tab clears the selection.
SelectTab(t) ==
  /\ tab # t
  /\ tab' = t /\ selected' = NoNode
  /\ UNCHANGED <<made, ring, entries, fetched, nodes>>

\* A click on a row selects its node, a second one clears the selection.
SelectNode(n) ==
  /\ n \in Rows
  /\ selected' = IF selected = n THEN NoNode ELSE n
  /\ UNCHANGED <<made, ring, entries, fetched, nodes, tab>>

Next ==
  \/ \E r \in Relays : RelayEvent(r) \/ Register(r) \/ Heartbeat(r)
                       \/ Forget(r) \/ SelectNode(r)
  \/ Fetch \/ Show
  \/ \E t \in Tabs : SelectTab(t)

Spec == Init /\ [][Next]_vars
-----------------------------------------------------------------------------
(* Properties.                                                             *)

\* Every variable keeps its type.
TypeOK ==
  /\ made \in [Relays -> Nat]
  /\ \A r \in Relays : ring[r] \in Seq(1 .. made[r]) /\ Len(ring[r]) <= Capacity
  /\ DOMAIN entries \subseteq Relays /\ DOMAIN nodes \subseteq Relays
  /\ fetched = NoNode \/ DOMAIN fetched \subseteq Relays
  /\ tab \in Tabs /\ selected \in Relays \union {NoNode}

\* The detail panel shows a node that is in the table of the active tab, and
\* the last events of that relay, oldest first and without a gap, up to its
\* last heartbeat, although the ring, the heartbeat and the panel each cut the
\* events or turn them around.
PanelFaithful ==
  selected \in DOMAIN nodes =>
    LET panel == Panel(selected)
        last == nodes[selected].uptime
    IN /\ selected \in Rows
       /\ Len(panel) = Min({Recent, Capacity, last})
       /\ panel = [i \in 1 .. Len(panel) |-> last - Len(panel) + i]
=============================================================================
