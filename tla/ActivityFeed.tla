---------------------------- MODULE ActivityFeed ----------------------------
(***************************************************************************)
(* The activity log of the discovery service.  A gRPC handler changes the  *)
(* registry and then, with the lock released, counts the call and pushes   *)
(* an event; the clean-up task does the same.  GET /api/dashboard reads    *)
(* the registry, then the counters, then the events, one after the other;  *)
(* the web page polls it and merges what it has not seen into its log.     *)
(*                                                                         *)
(* An event is its `elapsed` time, and each event takes the next instant.  *)
(* What it says and how it is formatted is left out.  The operations of    *)
(* the registry are those of NodeDirectory without the ages: a clean-up    *)
(* may find any node stale.                                                *)
(***************************************************************************)
EXTENDS Naturals, Sequences, FiniteSets, SequencesExt, FiniteSetsExt

CONSTANTS
  Relays, AddressOf,  \* node ids and their addresses
  Capacity,  \* of the event ring (200)
  Window,    \* events in an answer (50)
  Limit,     \* events on the page (200)
  MaxEvents, MaxCalls  \* bounds: events ever, calls in progress

VARIABLES
  phase,   \* each relay process: "new", "up" or "gone"
  listed,  \* the ids in the registry
  calls,   \* handlers between the registry and their event, by kind
  swept,   \* nodes of a clean-up that is not counted yet
  counts,  \* the counters of DiscoveryMetrics
  log,     \* DiscoveryMetrics::events
  now,     \* the clock: events pushed so far
  answer,  \* the answer in the making, or on its way to the page
  page,    \* what the page shows
  late     \* history: an event left the ring or the window unseen, the page
           \* was full, or the service restarted under a page with a past

vars == <<phase, listed, calls, swept, counts, log, now, answer, page, late>>
service == <<phase, listed, calls, swept, counts, log, now>>
view == <<answer, page, late>>

INSTANCE EventBuffer

\* Handlers by what they count.  A "plain" one is a heartbeat, a path request,
\* statistics or a health check: what it counts, if anything, is left out.
Kinds == {"register", "remove", "plain"}
Counted == {"register", "remove", "cleanup"}

NoAnswer == [stage |-> "none", listed |-> {}, uptime |-> 0, events |-> <<>>]

\* Every handler that is under way will push one event.
UnderWay == calls["register"] + calls["remove"] + calls["plain"]

Room == /\ UnderWay < MaxCalls
        /\ now + UnderWay + swept < MaxEvents

\* The events of an answer that the page has not seen.
Later(events, threshold) ==
  FoldLeft(LAMBDA seen, at : IF at > threshold THEN Append(seen, at) ELSE seen,
           <<>>, events)
-----------------------------------------------------------------------------
Init ==
  /\ phase = [r \in Relays |-> "new"]
  /\ listed = {} /\ swept = 0 /\ log = <<>> /\ now = 0
  /\ calls = [k \in Kinds |-> 0] /\ counts = [k \in Counted |-> 0]
  /\ answer = NoAnswer
  /\ page = [listed |-> {}, uptime |-> 0, log |-> <<>>, threshold |-> 0]
  /\ late = FALSE

\* A gRPC handler has the reply of the registry, and the lock is released.
Called(kind) == calls' = [calls EXCEPT ![kind] = @ + 1]

\* register_node: an entry of another id at the same address is evicted.
RegisterNode(r) ==
  /\ Room /\ phase[r] = "new"
  /\ phase' = [phase EXCEPT ![r] = "up"]
  /\ listed' = {m \in listed : AddressOf[m] # AddressOf[r]} \union {r}
  /\ Called("register")
  /\ UNCHANGED <<swept, counts, log, now, view>>

\* update_heartbeat: NotFound ends the handler, and it pushes no event.
UpdateHeartbeat(r) ==
  /\ Room /\ phase[r] = "up" /\ r \in listed
  /\ Called("plain")
  /\ UNCHANGED <<phase, listed, swept, counts, log, now, view>>

\* Mutant of RemoveNode: the error of the registry is ignored.
RemoveNodeIgnoring(r) ==
  /\ Room /\ phase[r] = "up"
  /\ phase' = [phase EXCEPT ![r] = "gone"]
  /\ listed' = listed \ {r}
  /\ Called("remove")
  /\ UNCHANGED <<swept, counts, log, now, view>>

\* remove_node, as the relay stops: NotFound ends the handler.
RemoveNode(r) ==
  /\ Room /\ phase[r] = "up"
  /\ phase' = [phase EXCEPT ![r] = "gone"]
  /\ listed' = listed \ {r}
  /\ IF r \in listed THEN Called("remove") ELSE UNCHANGED calls
  /\ UNCHANGED <<swept, counts, log, now, view>>

\* get_random_path, get_stats and health_check only read the registry.
Query ==
  /\ Room
  /\ Called("plain")
  /\ UNCHANGED <<phase, listed, swept, counts, log, now, view>>

\* push_event; the clock is read under the mutex of the ring.
PushEvent == log' = Push(log, now + 1) /\ now' = now + 1

\* The rest of a handler: `if let Some(m) = &self.state.metrics`.
Account(kind) ==
  /\ calls[kind] > 0
  /\ calls' = [calls EXCEPT ![kind] = @ - 1]
  /\ counts' = IF kind \in Counted THEN [counts EXCEPT ![kind] = @ + 1]
               ELSE counts
  /\ PushEvent
  /\ UNCHANGED <<phase, listed, swept, view>>

\* cleanup_stale_nodes in the background task, which goes on to count and to
\* push an event only when something was stale.
CleanUp(stale) ==
  /\ now + UnderWay < MaxEvents /\ swept = 0
  /\ listed' = listed \ stale
  /\ swept' = Cardinality(stale)
  /\ UNCHANGED <<phase, calls, counts, log, now, view>>

AccountCleanUp ==
  /\ swept > 0
  /\ counts' = [counts EXCEPT !["cleanup"] = @ + swept]
  /\ swept' = 0
  /\ PushEvent
  /\ UNCHANGED <<phase, listed, calls, view>>

\* The service restarts: registry, counters, ring and clock begin again, calls
\* in progress are lost, and so is an answer in the making.  The page keeps what
\* it has, its threshold included.  (Bound: not after the page missed anything.)
Restart ==
  /\ now > 0 /\ ~late
  /\ listed' = {} /\ swept' = 0 /\ log' = <<>> /\ now' = 0
  /\ calls' = [k \in Kinds |-> 0] /\ counts' = [k \in Counted |-> 0]
  /\ answer' = IF answer.stage = "sent" THEN answer ELSE NoAnswer
  /\ late' = (late \/ page.threshold > 0 \/ answer.stage = "sent")
  /\ UNCHANGED <<phase, page>>

\* dashboard_handler: the entries under one read lock ...
ReadEntries ==
  /\ answer.stage = "none"
  /\ answer' = [NoAnswer EXCEPT !.stage = "entries", !.listed = listed]
  /\ UNCHANGED <<service, page, late>>

\* ... then, after the statistics, the counters and the uptime ...
ReadCounters ==
  /\ answer.stage = "entries"
  /\ answer' = [answer EXCEPT !.stage = "counters", !.uptime = now]
  /\ UNCHANGED <<service, page, late>>

\* ... then the newest events, newest first.
ReadEvents ==
  /\ answer.stage = "counters"
  /\ answer' = [answer EXCEPT !.stage = "sent", !.events = Newest(log, Window)]
  /\ late' = (late \/ now - page.threshold > Min({Window, Capacity})
                   \/ now > Limit)
  /\ UNCHANGED <<service, page>>

\* Mutant of Merge: the threshold is the newest time of the answer plus one.
MergeAhead ==
  /\ answer.stage = "sent"
  /\ LET fresh == Later(Reverse(answer.events), page.threshold)
         merged == page.log \o fresh
     IN page' = [page EXCEPT
          !.listed = answer.listed, !.uptime = answer.uptime,
          !.threshold = IF fresh = <<>> THEN @ ELSE Last(fresh) + 1,
          !.log = SubSeq(merged, 1, Min({Limit, Len(merged)}))]
  /\ answer' = NoAnswer
  /\ UNCHANGED <<service, late>>

\* One turn of the polling loop: the events later than the threshold, oldest
\* first, go to the end of the log.  `truncate` keeps the OLDEST events of a
\* full page, and the threshold advances past those it drops.
Merge ==
  /\ answer.stage = "sent"
  /\ LET fresh == Later(Reverse(answer.events), page.threshold)
         merged == page.log \o fresh
     IN page' = [page EXCEPT
          !.listed = answer.listed, !.uptime = answer.uptime,
          !.threshold = IF fresh = <<>> THEN @ ELSE Last(fresh),
          !.log = SubSeq(merged, 1, Min({Limit, Len(merged)}))]
  /\ answer' = NoAnswer
  /\ UNCHANGED <<service, late>>

\* fetch_dashboard: None; the next turn asks again.
FetchFails ==
  /\ answer.stage # "none"
  /\ answer' = NoAnswer
  /\ UNCHANGED <<service, page, late>>

Next ==
  \/ \E r \in Relays : RegisterNode(r) \/ UpdateHeartbeat(r) \/ RemoveNode(r)
  \/ Query
  \/ \E kind \in Kinds : Account(kind)
  \/ \E stale \in SUBSET listed \ {{}} : CleanUp(stale)
  \/ AccountCleanUp \/ Restart
  \/ ReadEntries \/ ReadCounters \/ ReadEvents \/ Merge \/ FetchFails

Spec == Init /\ [][Next]_vars
-----------------------------------------------------------------------------
(* Properties.                                                             *)

\* Every variable keeps its type, and no buffer outgrows its capacity.
TypeOK ==
  /\ phase \in [Relays -> {"new", "up", "gone"}] /\ listed \subseteq Relays
  /\ calls \in [Kinds -> Nat] /\ counts \in [Counted -> Nat]
  /\ swept \in 0 .. Cardinality(Relays) /\ now \in Nat
  /\ log \in Seq(1 .. now) /\ Len(log) <= Capacity /\ now <= MaxEvents
  /\ answer.stage \in {"none", "entries", "counters", "sent"}
  /\ answer.events \in Seq(1 .. MaxEvents) /\ Len(answer.events) <= Window
  /\ page.listed \subseteq Relays /\ page.uptime \in 0 .. MaxEvents
  /\ page.log \in Seq(1 .. MaxEvents) /\ Len(page.log) <= Limit
  /\ page.threshold \in 0 .. MaxEvents /\ late \in BOOLEAN

\* The page has every event of the service, once and in order, up to the
\* uptime it shows - through the ring, the two reversals, the two cuts and the
\* threshold of the merge, with handlers that push while an answer is being
\* made and with answers that are lost - unless between two polls there were
\* more events than the window or the ring holds, the page was full, or the
\* service restarted.  Even then the times on the page are in order, as the page
\* takes no event of a new process that has not run longer than the old one.
FeedFaithful ==
  /\ \A i \in 1 .. Len(page.log) - 1 : page.log[i] < page.log[i + 1]
  /\ ~late => /\ page.log = [i \in 1 .. Len(page.log) |-> i]
              /\ Len(page.log) >= page.uptime

\* The counters account for the registry although each handler counts after it
\* has released the lock: what is listed was registered and not removed, once
\* the calls still under way are added.  (A registration that evicts another
\* id of its address counts too, so this is no equality.)
CountersAccount ==
  Cardinality(listed) + counts["remove"] + calls["remove"]
    + counts["cleanup"] + swept
  <= counts["register"] + calls["register"]
=============================================================================
