------------------------ MODULE NodeDirectoryProofs ------------------------
(***************************************************************************)
(* The directory, for any set of relays and addresses and any times.       *)
(*                                                                         *)
(* AddressesUnique is inductive with the types.  DroppedOnlyByEviction     *)
(* needs to know how old the entry of a running relay can be in each phase *)
(* of its process and of its heartbeat loop: Schedule and Freshness below. *)
(***************************************************************************)
EXTENDS NodeDirectory, TLAPS

\* The longest time from one heartbeat request to the next tick that is
\* taken: the interval, or the answer when that takes longer.
Gap == Max2(BeatInterval, MaxRtt)

\* What the two clocks and the phases of a process say about each other.
Schedule ==
  \A n \in Relays :
    /\ call[n] # "none" => callAge[n] <= MaxRtt
    /\ beat[n] = "metrics" => beatAge[n] <= MaxStall
    /\ beat[n] \in {"sent", "answered"} => beatAge[n] <= MaxRtt
    /\ proc[n] = "off" => n \notin listed /\ call[n] = "none"
    /\ proc[n] \in {"off", "registering", "binding"} => beat[n] = "off"
    /\ proc[n] = "registering" => call[n] \in {"register", "registered"}
    /\ call[n] = "register" => n \notin listed
    /\ proc[n] \in {"binding", "up"} => call[n] = "none"
    /\ call[n] = "remove" => proc[n] \in {"stopping", "dead"}
    /\ proc[n] = "up" => beat[n] # "off"

\* The age of an entry whose relay registers, binds or runs, and lost nothing.
Freshness ==
  \A n \in listed \ bereft :
    /\ proc[n] = "registering" => call[n] = "registered" /\ age[n] <= callAge[n]
    /\ proc[n] = "binding" => age[n] <= MaxRtt
    /\ proc[n] = "up" /\ beat[n] = "idle" =>
         /\ age[n] <= Gap
         /\ timer[n] < BeatInterval =>
              age[n] + BeatInterval <= timer[n] + Gap
    /\ proc[n] = "up" /\ beat[n] = "metrics" => age[n] <= Gap + beatAge[n]
    /\ proc[n] = "up" /\ beat[n] = "sent" =>
         age[n] <= Gap + MaxStall + beatAge[n]
    /\ proc[n] = "up" /\ beat[n] = "answered" =>
         age[n] <= beatAge[n] /\ age[n] <= timer[n]

DirectoryInv == TypeOK /\ AddressesUnique

TimelyInv == TypeOK /\ Schedule /\ Freshness

LEMMA GapFacts ==
  /\ Gap \in Nat /\ BeatInterval <= Gap /\ MaxRtt <= Gap
  /\ TimesFit <=> Gap + MaxStall + MaxRtt <= StaleTimeout
BY TimesAssumption, SMT DEF Gap, Max2, TimesFit
-----------------------------------------------------------------------------
\* Types.
LEMMA TypeStep == TypeOK /\ [Next]_vars => TypeOK'
<1> SUFFICES ASSUME TypeOK, [Next]_vars PROVE TypeOK'
  OBVIOUS
<1> USE DEF TypeOK, Alive, Listening, Set
<1>1. ASSUME NEW n \in Relays, Due(n) PROVE TypeOK'
  <2>1. CASE Registered(n)  BY <2>1 DEF Registered
  <2>2. CASE Bind(n)  BY <2>2, TimesAssumption DEF Bind, Die, Ends
  <2>3. CASE Removed(n)  BY <2>3 DEF Removed, Die, Ends
  <2>4. CASE BeatTick(n)
    <3>1. timer[n] - BeatInterval \in Nat
      BY <2>4, TimesAssumption DEF BeatTick
    <3> QED BY <2>4, <3>1 DEF BeatTick
  <2>5. CASE BeatSend(n)  BY <2>5 DEF BeatSend
  <2>6. CASE BeatAnswered(n)  BY <2>6 DEF BeatAnswered
  <2>7. CASE RegisterNode(n)
    BY <2>7, TimesAssumption DEF RegisterNode, AgesOf, Reply
  <2>8. CASE UpdateHeartbeat(n)
    BY <2>8, TimesAssumption DEF UpdateHeartbeat
  <2>9. CASE RemoveNode(n)
    BY <2>9, TimesAssumption DEF RemoveNode, AgesOf, Reply
  <2> QED BY <1>1, <2>1, <2>2, <2>3, <2>4, <2>5, <2>6, <2>7, <2>8, <2>9 DEF Due
<1>2. ASSUME NEW n \in Relays, Start(n) PROVE TypeOK'
  BY <1>2 DEF Start
<1>3. ASSUME NEW n \in Relays, Stop(n) PROVE TypeOK'
  BY <1>3 DEF Stop
<1>4. ASSUME NEW n \in Relays, Crash(n) PROVE TypeOK'
  BY <1>4 DEF Crash, Die, Ends
<1>5. ASSUME NEW n \in Relays, CallFails(n) PROVE TypeOK'
  BY <1>5 DEF CallFails, Ends
<1>6. ASSUME NEW n \in Relays, BeatLost(n) PROVE TypeOK'
  BY <1>6 DEF BeatLost
<1>7. CASE CleanupStaleNodes
  BY <1>7, TimesAssumption DEF CleanupStaleNodes, AgesOf, relayVars
<1>8. CASE DirectoryRestart
  BY <1>8, TimesAssumption DEF DirectoryRestart, AgesOf, relayVars
<1>9. CASE Tick
  BY <1>9, TimesAssumption DEF Tick, Min2
<1>10. CASE UNCHANGED vars  BY <1>10 DEF vars, relayVars
<1> QED BY <1>1, <1>2, <1>3, <1>4, <1>5, <1>6, <1>7, <1>8, <1>9, <1>10 DEF Next

LEMMA DirectoryInit == Init => DirectoryInv
BY TimesAssumption DEF Init, DirectoryInv, TypeOK, AddressesUnique, Alive, Listening

\* Only RegisterNode adds to listed, and no step changes an address.
LEMMA OnlyRegisterAdds ==
  ASSUME TypeOK, [Next]_vars
  PROVE  /\ addr' = addr
         /\ \/ listed' \subseteq listed
            \/ \E n \in Relays :
                 /\ call[n] = "register"
                 /\ listed' = {m \in listed : addr[m] # addr[n]} \union {n}
<1>1. ASSUME NEW n \in Relays, Due(n)
      PROVE  /\ addr' = addr
             /\ listed' \subseteq listed \/ RegisterNode(n)
  BY <1>1 DEF Due, Registered, Bind, Removed, Die, Ends, BeatTick, BeatSend,
     BeatAnswered, RegisterNode, UpdateHeartbeat, RemoveNode
<1>2. ASSUME NEW n \in Relays,
             Start(n) \/ Stop(n) \/ Crash(n) \/ CallFails(n) \/ BeatLost(n)
      PROVE  addr' = addr /\ listed' = listed
  BY <1>2 DEF Start, Stop, Crash, Die, Ends, CallFails, BeatLost
<1>3. ASSUME CleanupStaleNodes \/ DirectoryRestart \/ Tick \/ UNCHANGED vars
      PROVE  addr' = addr /\ listed' \subseteq listed
  BY <1>3 DEF CleanupStaleNodes, DirectoryRestart, Tick, vars, relayVars
<1> QED BY <1>1, <1>2, <1>3 DEF Next, RegisterNode

LEMMA DirectoryStep == DirectoryInv /\ [Next]_vars => DirectoryInv'
<1> SUFFICES ASSUME DirectoryInv, [Next]_vars PROVE DirectoryInv'
  OBVIOUS
<1>1. TypeOK'
  BY TypeStep DEF DirectoryInv
<1>2. AddressesUnique'
  BY OnlyRegisterAdds DEF DirectoryInv, AddressesUnique
<1> QED BY <1>1, <1>2 DEF DirectoryInv

\* The variables of the directory model keep their types.
THEOREM DirectoryTypeCorrect == Spec => []TypeOK
<1>1. DirectoryInv => TypeOK
  BY DEF DirectoryInv
<1> QED BY <1>1, DirectoryInit, DirectoryStep, PTL DEF Spec

\* The directory never holds two entries with one address (register_node's
\* retain, registry.rs:94-95).
THEOREM DirectoryAddressesUnique == Spec => []AddressesUnique
<1>1. DirectoryInv => AddressesUnique
  BY DEF DirectoryInv
<1> QED BY <1>1, DirectoryInit, DirectoryStep, PTL DEF Spec

\* An entry appears only by a registration: a late heartbeat revives nothing.
THEOREM DirectoryNoRevival == Spec => NoRevival
<1>1. TypeOK /\ [Next]_vars =>
        [\A n \in listed' \ listed : call[n] = "register"]_vars
  BY OnlyRegisterAdds
<1>2. DirectoryInv => TypeOK
  BY DEF DirectoryInv
<1> QED BY <1>1, <1>2, DirectoryInit, DirectoryStep, PTL DEF Spec, NoRevival
-----------------------------------------------------------------------------
\* Times.
LEMMA TimelyInit == Init => TimelyInv
BY DirectoryInit, TimesAssumption
DEF Init, TimelyInv, DirectoryInv, Schedule, Freshness

\* Time passes: every clock that bounds an age moves with it.
LEMMA TimelyTick ==
  ASSUME TimelyInv, Tick
  PROVE  Schedule' /\ Freshness'
<1> USE GapFacts, TimesAssumption DEF TimelyInv, TypeOK, Tick, MayPass
<1>1. \A n \in Relays :
        /\ callAge'[n] = IF call[n] = "none" THEN callAge[n] ELSE callAge[n] + 1
        /\ beatAge'[n] = IF beat[n] \in {"off", "idle"}
                         THEN beatAge[n] ELSE beatAge[n] + 1
        /\ timer'[n] = IF Alive(n) /\ beat[n] # "off"
                       THEN timer[n] + 1 ELSE timer[n]
        /\ age'[n] <= age[n] + 1
  BY DEF Min2
<1>2. Schedule'
  BY <1>1 DEF Schedule
<1>3. ASSUME NEW n \in listed \ bereft
      PROVE /\ proc[n] # "binding"
            /\ proc[n] = "registering" =>
                 call[n] = "registered" /\ age'[n] <= callAge'[n]
            /\ proc[n] = "up" /\ beat[n] = "idle" =>
                 /\ age'[n] <= Gap
                 /\ timer'[n] < BeatInterval =>
                      age'[n] + BeatInterval <= timer'[n] + Gap
            /\ proc[n] = "up" /\ beat[n] = "metrics" =>
                 age'[n] <= Gap + beatAge'[n]
            /\ proc[n] = "up" /\ beat[n] = "sent" =>
                 age'[n] <= Gap + MaxStall + beatAge'[n]
            /\ proc[n] = "up" /\ beat[n] = "answered" =>
                 age'[n] <= beatAge'[n] /\ age'[n] <= timer'[n]
  <2>1. n \in Relays /\ age[n] \in Nat /\ timer[n] \in Nat
        /\ beatAge[n] \in Nat /\ callAge[n] \in Nat /\ age'[n] \in Nat
    BY <1>3, SMT DEF Min2
  <2>2. proc[n] = "up" => Alive(n)
    BY DEF Alive
  <2> QED BY <1>1, <1>3, <2>1, <2>2 DEF Freshness
<1>4. Freshness'
  BY <1>3 DEF Freshness
<1> QED BY <1>2, <1>4

LEMMA TimelyDue ==
  ASSUME TimelyInv, NEW n \in Relays, Due(n)
  PROVE  Schedule' /\ Freshness'
<1> USE GapFacts, TimesAssumption
    DEF TimelyInv, TypeOK, Schedule, Freshness, Alive, Listening, Set
<1>1. CASE Registered(n)  BY <1>1 DEF Registered
<1>2. CASE Bind(n)  BY <1>2 DEF Bind, Die, Ends
<1>3. CASE Removed(n)  BY <1>3 DEF Removed, Die, Ends
<1>4. CASE BeatTick(n)  BY <1>4 DEF BeatTick
<1>5. CASE BeatSend(n)  BY <1>5 DEF BeatSend
<1>6. CASE BeatAnswered(n)  BY <1>6 DEF BeatAnswered
<1>7. CASE RegisterNode(n)  BY <1>7 DEF RegisterNode, AgesOf, Reply
<1>8. CASE UpdateHeartbeat(n)  BY <1>8 DEF UpdateHeartbeat
<1>9. CASE RemoveNode(n)  BY <1>9 DEF RemoveNode, AgesOf, Reply
<1> QED BY <1>1, <1>2, <1>3, <1>4, <1>5, <1>6, <1>7, <1>8, <1>9 DEF Due

LEMMA TimelyStep == TimelyInv /\ [Next]_vars => TimelyInv'
<1> SUFFICES ASSUME TimelyInv, [Next]_vars PROVE TimelyInv'
  OBVIOUS
<1>0. TypeOK'
  BY TypeStep DEF TimelyInv
<1> USE GapFacts, TimesAssumption DEF TimelyInv
<1>1. ASSUME NEW n \in Relays, Due(n) PROVE Schedule' /\ Freshness'
  BY <1>1, TimelyDue
<1>2. ASSUME NEW n \in Relays, Start(n)
      PROVE Schedule' /\ Freshness'
  BY <1>2 DEF Start, TypeOK, Schedule, Freshness, Set
<1>3. ASSUME NEW n \in Relays, Stop(n)
      PROVE Schedule' /\ Freshness'
  BY <1>3 DEF Stop, TypeOK, Schedule, Freshness, Set
<1>4. ASSUME NEW n \in Relays, Crash(n)
      PROVE Schedule' /\ Freshness'
  BY <1>4 DEF Crash, Die, Ends, Alive, TypeOK, Schedule, Freshness, Set
<1>5. ASSUME NEW n \in Relays, CallFails(n) \/ BeatLost(n)
      PROVE Schedule' /\ Freshness'
  BY <1>5 DEF CallFails, Ends, BeatLost, Alive, TypeOK, Schedule, Freshness,
     Set
<1>6. CASE CleanupStaleNodes
  BY <1>0, <1>6
  DEF CleanupStaleNodes, AgesOf, relayVars, TypeOK, Schedule, Freshness
<1>6a. CASE DirectoryRestart
  BY <1>0, <1>6a
  DEF DirectoryRestart, relayVars, TypeOK, Schedule, Freshness
<1>7. CASE Tick
  BY <1>0, <1>7, TimelyTick
<1>8. CASE UNCHANGED vars
  BY <1>0, <1>8 DEF vars, relayVars, Schedule, Freshness
<1> QED BY <1>0, <1>1, <1>2, <1>3, <1>4, <1>5, <1>6, <1>6a, <1>7, <1>8 DEF Next

\* An entry of a relay that registers, binds or runs is never stale.
LEMMA NeverStale ==
  ASSUME TimelyInv, TimesFit, NEW n \in listed \ bereft,
         proc[n] \in {"registering", "binding", "up"}
  PROVE  age[n] <= StaleTimeout
<1>1. /\ n \in Relays /\ age[n] \in Nat
      /\ beatAge[n] \in Nat /\ callAge[n] \in Nat
      /\ beat[n] \in {"off", "idle", "metrics", "sent", "answered"}
  BY DEF TimelyInv, TypeOK
<1>2. /\ Gap \in Nat /\ MaxRtt <= Gap
      /\ Gap + MaxStall + MaxRtt <= StaleTimeout
      /\ MaxStall \in Nat /\ MaxRtt \in Nat /\ StaleTimeout \in Nat
  BY GapFacts, TimesAssumption
<1>3. CASE proc[n] \in {"registering", "binding"}
  BY <1>1, <1>2, <1>3 DEF TimelyInv, Schedule, Freshness
<1>4. CASE proc[n] = "up"
  BY <1>1, <1>2, <1>4 DEF TimelyInv, Schedule, Freshness
<1> QED BY <1>3, <1>4

\* What a step that keeps no entry alive by itself takes from listed.
LEMMA WhoLeaves ==
  ASSUME TimelyInv, [Next]_vars, TimesFit,
         NEW n \in listed \ (listed' \union bereft'),
         proc[n] \in {"registering", "binding", "up"}
  PROVE  \E m \in listed' \ listed : addr[m] = addr[n]
<1>1. CASE CleanupStaleNodes
  BY <1>1, NeverStale DEF CleanupStaleNodes
<1>2. ASSUME NEW m \in Relays, RegisterNode(m)
      PROVE  \E k \in listed' \ listed : addr[k] = addr[n]
  <2>1. addr[m] = addr[n] /\ m \in listed' /\ m # n
    BY <1>2 DEF RegisterNode
  <2>2. CASE m \notin listed
    BY <2>1, <2>2
  <2>3. CASE m \in listed
    BY <1>2, <2>3 DEF TimelyInv, Schedule, RegisterNode
  <2> QED BY <2>2, <2>3
<1>3. ASSUME NEW m \in Relays, RemoveNode(m)
      PROVE  FALSE
  BY <1>3 DEF RemoveNode, TimelyInv, Schedule
<1>4. ASSUME NEW m \in Relays,
             \/ Due(m) /\ ~RegisterNode(m) /\ ~RemoveNode(m)
             \/ Start(m) \/ Stop(m) \/ Crash(m) \/ CallFails(m) \/ BeatLost(m)
      PROVE  listed' = listed
  BY <1>4 DEF Due, Registered, Bind, Removed, Die, Ends, BeatTick, BeatSend,
     BeatAnswered, UpdateHeartbeat, Start, Stop, Crash, CallFails, Ends, BeatLost
<1>5. ASSUME Tick \/ UNCHANGED vars
      PROVE  listed' = listed
  BY <1>5 DEF Tick, vars
<1>6. ~DirectoryRestart
  BY DEF DirectoryRestart, Alive
<1> QED BY <1>1, <1>2, <1>3, <1>4, <1>5, <1>6 DEF Next

\* With reliable calls and times that fit, a relay that runs leaves the
\* directory only when another one registers with its address - the cleanup
\* of main.rs:154-177 never hits it, whatever its phase.
THEOREM RunningRelaysStay == Spec => DroppedOnlyByEviction
<1>1. TimelyInv /\ [Next]_vars =>
        [TimesFit =>
           \A n \in listed \ (listed' \union bereft') :
             proc[n] \in {"registering", "binding", "up"} =>
               \E m \in listed' \ listed : addr[m] = addr[n]]_vars
  BY WhoLeaves
<1> QED BY <1>1, TimelyInit, TimelyStep, PTL DEF Spec, DroppedOnlyByEviction
=============================================================================
