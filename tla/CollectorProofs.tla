-------------------------- MODULE CollectorProofs --------------------------
(***************************************************************************)
(* Proofs about the life of a collector, for any extensions, any graph of  *)
(* processors, connectors and exporters, any receivers and configurations, *)
(* and any number of failures, reports and reloads: the invariant LInv,    *)
(* the steps of Run, of the calls of Start and Shutdown, of the service    *)
(* and of its reloads, which keep it, and what follows from it.            *)
(***************************************************************************)
EXTENDS Collector, TLAPS

CompStates == {"absent", "nil", "built", "starting", "started", "failed", "stopping", "stopped"}
Alive == {"starting", "started", "stopping"}
Starts == {"extStart", "nodeStart", "updStart"}
Stops == {"updStop", "nodeStop", "extStop"}

\* Types, as far as the proofs use them.
Types ==
  /\ comp \in [Components -> CompStates]
  /\ pipes \in [Receivers -> SUBSET Pipelines]
  /\ DOMAIN built = Receivers
  /\ dead \subseteq Receivers /\ todo \subseteq Components
  /\ cur \in Components \cup {NoOne}

\* The graph has the receivers of configuration c, in its pipelines and with its settings.
Configured(c) ==
  \A r \in Receivers :
    /\ pipes[r] = c.pipes[r]
    /\ comp[r] # "absent" <=> c.pipes[r] # {}
    /\ comp[r] \notin {"absent", "nil"} => built[r].version = c.version[r]

\* Everything but the receivers runs.
Steady ==
  /\ \A n \in ExtSet \cup Fixed : comp[n] = "started"
  /\ state = "Running" /\ ready = Len(Exts)

\* All of S are still to be visited, being visited, or as the loop leaves them.
Visited(S, T) == \A n \in S : n \in todo \/ n = cur \/ comp[n] \in T
Within(S) == todo \subseteq S /\ cur \in S \cup {NoOne}

InExtStart ==
  /\ Within(ExtSet) /\ Visited(ExtSet, {"started"}) /\ \A n \in todo : comp[n] = "built"
  /\ \A n \in Nodes : comp[n] \in {"absent", "built"}
  /\ \A n \in Fixed : comp[n] = "built"
  /\ upd.want \in Configs /\ Configured(upd.want)

InNodeStart ==
  /\ Within(Nodes) /\ Visited(Nodes, {"absent", "started"}) /\ \A n \in todo : comp[n] = "built"
  /\ \A n \in ExtSet : comp[n] = "started"
  /\ \A n \in Fixed : comp[n] # "absent"
  /\ (\E r \in Receivers : comp[r] \in Alive) => todo \cap Fixed = {} /\ cur \notin Fixed
  /\ upd.want \in Configs /\ Configured(upd.want)

InLoop ==
  /\ Steady /\ todo = {} /\ Configured(config)
  /\ \A r \in Receivers : comp[r] \in {"absent", "started"}

\* What the sets of an update have to do with the graph and the new configuration.
Planned ==
  /\ upd.want \in Configs /\ upd.remove \cup upd.rebuild \cup upd.add \subseteq Receivers
  /\ \A r \in upd.remove : upd.want.pipes[r] = {}
  /\ \A r \in Fresh(upd) : upd.want.pipes[r] # {}
  /\ \A r \in upd.add : comp[r] = "absent"
  /\ \A r \in Receivers \ (upd.remove \cup Fresh(upd)) :
       /\ pipes[r] = upd.want.pipes[r]
       /\ comp[r] # "absent" => built[r].version = upd.want.version[r]

InUpdStop ==
  /\ Steady /\ Configured(config) /\ Planned
  /\ Within(upd.remove \cup upd.rebuild) /\ Visited(upd.remove \cup upd.rebuild, {"stopped"})
  /\ \A n \in todo : comp[n] = "started"
  /\ \A r \in Receivers \ (upd.remove \cup upd.rebuild) : comp[r] \in {"absent", "started"}

InUpdBuild ==
  /\ Steady /\ upd.want \in Configs /\ Configured(upd.want)
  /\ Fresh(upd) \subseteq Receivers /\ todo \subseteq Fresh(upd)
  /\ \A r \in todo : comp[r] = "nil"
  /\ \A r \in Fresh(upd) \ todo : comp[r] = "built"
  /\ \A r \in Receivers \ Fresh(upd) : comp[r] \in {"absent", "started"}

InUpdStart ==
  /\ Steady /\ upd.want \in Configs /\ Configured(upd.want)
  /\ Fresh(upd) \subseteq Receivers /\ Within(Fresh(upd))
  /\ Visited(Receivers, {"absent", "started"}) /\ \A n \in todo : comp[n] = "built"

InNodeStop ==
  Within(Nodes) /\ Visited(Nodes, {"absent", "stopped"}) /\ \A n \in todo : comp[n] # "absent"

InExtStop ==
  /\ Within(ExtSet) /\ Visited(ExtSet, {"stopped"})
  /\ \A n \in Nodes : comp[n] \in {"absent", "stopped"}

\* What holds at each place of Run.
Phase ==
  /\ pc \in {"idle", "check", "setup", "done"} => \A n \in Components : comp[n] \notin Alive
  /\ pc = "extStart" => InExtStart
  /\ pc = "nodeStart" => InNodeStart
  /\ pc \in {"loop", "reload"} => InLoop
  /\ pc = "updStop" => InUpdStop
  /\ pc = "updBuild" => InUpdBuild
  /\ pc = "updStart" => InUpdStart
  /\ pc = "nodeStop" => InNodeStop
  /\ pc = "extStop" => InExtStop

\* Run calls Start or Shutdown of a component only in one of its loops.
Calling ==
  cur # NoOne =>
    /\ pc \in Starts \cup Stops /\ cur \notin todo
    /\ comp[cur] \in IF pc \in Starts THEN {"starting"} ELSE {"stopping", "stopped"}

\* Nodes without components are left only by an update, and by its fallback.
Nils ==
  \A n \in Components : comp[n] = "nil" =>
    /\ n \in Receivers
    /\ pc = "updBuild" \/ (pc \in {"notReady", "nodeStop", "panicked"} /\ after = "reload")

\* A shared component that was stopped through one node is dead for the others.
Shared ==
  \A s, m \in Receivers :
    (s # cur /\ comp[s] = "stopped" /\ Key[m] = Key[s] /\ built[m] = built[s] /\ comp[m] \in Alive)
      => m \in dead

\* Shutdown returns, and the state is Closed, only outside the life of a service.
Ended ==
  /\ state = "Closed" => pc = "done"
  /\ user = "returned" => pc \in {"idle", "check", "done"}

\* Who waits in the reporter for Run is a component that runs.
HolderRuns == holder # NoOne => holder \in Components /\ Active(holder)

LInv ==
  /\ Types /\ Phase /\ Calling /\ Nils /\ Shared /\ Ended /\ HolderRuns
  /\ ConsumersReady /\ PanicsOnlyInFallback

-----------------------------------------------------------------------------
(* The graph. *)

\* Extensions, receivers and the other nodes are different components.
LEMMA Kinds ==
  /\ NoOne \notin Components
  /\ Components = ExtSet \cup Fixed \cup Receivers /\ Nodes = Fixed \cup Receivers
  /\ \A n \in Fixed : n \notin Receivers /\ n \notin ExtSet
  /\ \A n \in Receivers : n \notin Fixed /\ n \notin ExtSet
  BY ConfigsOK, Zenon DEF ConfigsOK, Components, Nodes

\* The consumers of a node are processors, exporters and connectors.
LEMMA ConsumersFixed ==
  ASSUME Types, NEW n \in Nodes PROVE nextConsumers(n) \subseteq Fixed
<1>1. CASE n \in Receivers
  <2>1. pipes[n] \subseteq Pipelines
    BY <1>1, Zenon DEF Types
  <2>2. \A p \in pipes[n] : Entry[p] \in Fixed
    BY <2>1, ConfigsOK, Zenon DEF ConfigsOK
  <2> QED
    BY <1>1, <2>2, Zenon DEF nextConsumers
<1>2. CASE n \notin Receivers
  BY <1>2, Zenon DEF nextConsumers
<1> QED
  BY <1>1, <1>2, Zenon

\* What ConsumersReady says, node by node.
Relies(n) ==
  /\ n \in Nodes =>
       /\ \A m \in ExtSet : comp[m] = "started"
       /\ \A s \in Sharing(n) : \A m \in nextConsumers(s) : comp[m] = "started"
  /\ \A m \in ExtSet : Earlier(m, n) => comp[m] = "started"

\* Relies is the body of ConsumersReady.
LEMMA ReadyMeans == ConsumersReady <=> \A n \in Components : Active(n) => Relies(n)
  BY Zenon DEF ConsumersReady, Relies

\* The same in the next state.
LEMMA ReadyMeansNext == ConsumersReady' <=> \A n \in Components : Active(n)' => Relies(n)'
  BY Zenon DEF ConsumersReady, Relies

\* A node shares a component with nodes only.
LEMMA SharingNodes == \A n \in Nodes : Sharing(n) \subseteq Nodes
  BY Kinds, Zenon DEF Sharing

\* While everything but the receivers runs, everybody's consumers do.
LEMMA ReadyIfSteady ==
  ASSUME Types', \A n \in ExtSet \cup Fixed : comp'[n] = "started" PROVE ConsumersReady'
<1>1. \A n \in Nodes : nextConsumers(n)' \subseteq Fixed
  <2> SUFFICES ASSUME NEW n \in Nodes PROVE nextConsumers(n)' \subseteq Fixed
    OBVIOUS
  <2>1. CASE n \in Receivers
    <3>1. pipes'[n] \subseteq Pipelines
      BY <2>1, Zenon DEF Types
    <3>2. \A p \in pipes'[n] : Entry[p] \in Fixed
      BY <3>1, ConfigsOK, Zenon DEF ConfigsOK
    <3> QED
      BY <2>1, <3>2, Zenon DEF nextConsumers
  <2>2. CASE n \notin Receivers
    BY <2>2, Zenon DEF nextConsumers
  <2> QED
    BY <2>1, <2>2, Zenon
<1>2. \A n \in Nodes : Sharing(n)' \subseteq Nodes
  BY Kinds, Zenon DEF Sharing
<1>3. \A n \in Components : Relies(n)'
  BY <1>1, <1>2, Zenon DEF Relies
<1> QED
  BY <1>3, ReadyMeansNext, Zenon

\* A step that leaves the graph alone leaves what depends on it alone.
LEMMA SameGraph ==
  ASSUME Types, Shared, ConsumersReady, UNCHANGED <<comp, pipes, built, dead, cur>>,
         todo' \subseteq Components
  PROVE  Types' /\ Shared' /\ ConsumersReady'
<1>1. Types'
  BY Zenon DEF Types
<1>2. Shared'
  BY Zenon DEF Shared
<1>3. ConsumersReady'
  BY ZenonT(40) DEF ConsumersReady, Active, Sharing, nextConsumers
<1> QED
  BY <1>1, <1>2, <1>3, Zenon

\* Who held the reporter's mutex still runs, or has been heard.
LEMMA SameHolder ==
  ASSUME HolderRuns, UNCHANGED <<comp, dead>>, holder' = holder \/ holder' = NoOne
  PROVE  HolderRuns'
  BY Zenon DEF HolderRuns, Active

-----------------------------------------------------------------------------
(* Run and Collector.Shutdown. *)

\* There is no service at first.
LEMMA LInit == Init => LInv
<1> SUFFICES ASSUME Init PROVE LInv
  OBVIOUS
<1>1. \A n \in Components : comp[n] = "absent"
  BY Zenon DEF Init
<1>2. Types
  BY Zenon DEF Init, Types, CompStates
<1>3. Phase
  BY <1>1, Zenon DEF Init, Phase, Alive
<1>4. Nils /\ Calling /\ Ended /\ HolderRuns /\ PanicsOnlyInFallback
  BY <1>1, Zenon DEF Init, Nils, Calling, Ended, HolderRuns, PanicsOnlyInFallback
<1>5. Shared
  BY <1>1, Kinds, Zenon DEF Shared
<1>6. ConsumersReady
  BY <1>1, ReadyMeans, Zenon DEF Active
<1> QED
  BY <1>2, <1>3, <1>4, <1>5, <1>6, Zenon DEF LInv

\* Run begins; it ends at once when Shutdown was called before.
LEMMA RunBeginsL ==
  ASSUME LInv, RunAdd \/ RunCheck PROVE LInv'
<1>1. Types' /\ Shared' /\ ConsumersReady' /\ HolderRuns'
  BY SameGraph, SameHolder, Zenon DEF LInv, RunAdd, RunCheck, service, Types
<1>2. Phase' /\ Calling' /\ Nils'
  BY Zenon DEF LInv, RunAdd, RunCheck, service, Phase, Calling, Nils, Starts, Stops
<1>3. Ended' /\ PanicsOnlyInFallback'
  BY Zenon DEF LInv, RunAdd, RunCheck, service, Ended, PanicsOnlyInFallback
<1> QED
  BY <1>1, <1>2, <1>3, Zenon DEF LInv

\* What holds at a place of Run depends only on the service.
LEMMA SamePhase ==
  ASSUME Phase, UNCHANGED <<pc, state, config, upd, todo, cur, comp, pipes, built, ready>>
  PROVE  Phase'
<1>1. /\ Steady' = Steady /\ Configured(config)' = Configured(config)
      /\ Configured(upd.want)' = Configured(upd.want)
  BY Zenon DEF Steady, Configured
<1>2. InExtStart' = InExtStart /\ InExtStop' = InExtStop
  BY <1>1, Zenon DEF InExtStart, InExtStop, Within, Visited
<1>3. InNodeStart' = InNodeStart /\ InNodeStop' = InNodeStop
  BY <1>1, Zenon DEF InNodeStart, InNodeStop, Within, Visited
<1>4. InLoop' = InLoop /\ InUpdBuild' = InUpdBuild
  BY <1>1, Zenon DEF InLoop, InUpdBuild, Fresh
<1>5. InUpdStop' = InUpdStop
  BY <1>1 DEF InUpdStop, Planned, Within, Visited, Fresh
<1>6. InUpdStart' = InUpdStart
  BY <1>1, Zenon DEF InUpdStart, Within, Visited, Fresh
<1> QED
  BY Zenon, <1>2, <1>3, <1>4, <1>5, <1>6 DEF Phase

\* A call of Shutdown, and its return.
LEMMA UserL ==
  ASSUME LInv, UserShutdown \/ UserReturn PROVE LInv'
<1>1. Types' /\ Shared' /\ ConsumersReady' /\ HolderRuns'
  BY SameGraph, SameHolder, Zenon DEF LInv, UserShutdown, UserReturn, service, Types
<1>2. UNCHANGED <<pc, after, state, config, upd, todo, cur, comp, pipes, built, dead, ready>>
  BY Zenon DEF UserShutdown, UserReturn, service
<1>3. Calling' /\ Nils' /\ PanicsOnlyInFallback'
  BY <1>2, Zenon DEF LInv, Calling, Nils, PanicsOnlyInFallback
<1>4. Ended'
  BY Zenon DEF LInv, UserShutdown, UserReturn, Ended
<1>5. Phase'
  BY Zenon, <1>2, SamePhase DEF LInv
<1> QED
  BY <1>1, <1>3, <1>4, <1>5, Zenon DEF LInv

\* A report of a component changes its status only, and may take the mutex.
LEMMA ReportL ==
  ASSUME LInv, NEW n \in Components, NEW s \in Runtime, Report(n, s) PROVE LInv'
<1>1. UNCHANGED <<pc, after, state, config, upd, todo, cur, comp, pipes, built, dead, ready, user>>
  BY Zenon DEF Report
<1>2. Types' /\ Shared' /\ ConsumersReady'
  BY <1>1, SameGraph, Zenon DEF LInv, Types
<1>3. Calling' /\ Nils' /\ PanicsOnlyInFallback' /\ Ended'
  BY <1>1, Zenon DEF LInv, Calling, Nils, PanicsOnlyInFallback, Ended
<1>4. HolderRuns'
  BY Zenon DEF Report, HolderRuns, Active
<1>5. Phase'
  BY Zenon, <1>1, SamePhase DEF LInv
<1> QED
  BY <1>2, <1>3, <1>4, <1>5, Zenon DEF LInv

\* The steps that begin service.Shutdown: nothing is in a call, and only the fallback of
\* an update leaves nodes without components.
LEMMA RetireL ==
  ASSUME LInv, NEW a, Retire(a), UNCHANGED <<comp, pipes, built, dead, user>>,
         cur' = NoOne, cur = NoOne,
         holder' = holder \/ holder' = NoOne,
         state' = "Closing" \/ (state' = state /\ pc # "done"), pc \notin {"idle", "check", "done"},
         (\E n \in Components : comp[n] = "nil") => a = "reload"
  PROVE  LInv'
<1>1. Types' /\ Shared' /\ ConsumersReady' /\ HolderRuns'
  BY SameGraph, SameHolder, Zenon DEF LInv, Retire
<1>2. Phase' /\ Calling' /\ PanicsOnlyInFallback'
  BY Zenon DEF Retire, Phase, Calling, PanicsOnlyInFallback
<1>3. Nils'
  BY Zenon DEF LInv, Retire, Nils
<1>4. Ended'
  BY Zenon DEF LInv, Retire, Ended
<1> QED
  BY <1>1, <1>2, <1>3, <1>4, Zenon DEF LInv

\* The cases of Run's select that end the service.
LEMMA CloseL ==
  ASSUME LInv, LoopFatal \/ LoopShutdown \/ LoopInterrupt PROVE LInv'
<1>1. pc = "loop" /\ Retire("close") /\ state' = "Closing"
      /\ UNCHANGED <<comp, pipes, built, dead, cur, user>>
      /\ (holder' = holder \/ holder' = NoOne)
  BY Zenon DEF LoopFatal, LoopShutdown, LoopInterrupt, Close
<1>2. cur = NoOne
  BY <1>1, Zenon DEF LInv, Calling, Starts, Stops
<1>3. \A n \in Components : comp[n] # "nil"
  BY <1>1, Zenon DEF LInv, Nils
<1> QED
  BY <1>1, <1>2, <1>3, RetireL, Zenon

\* A reload begins.
LEMMA LoopReloadL ==
  ASSUME LInv, LoopReload PROVE LInv'
<1>1. UNCHANGED <<after, state, config, upd, todo, cur, comp, pipes, built, dead, ready, user, holder>>
  BY Zenon DEF LoopReload, service
<1>2. Types' /\ Shared' /\ ConsumersReady' /\ HolderRuns'
  BY <1>1, SameGraph, SameHolder, Zenon DEF LInv, Types
<1>3. Phase'
  BY <1>1, Zenon DEF LInv, LoopReload, Phase, InLoop, Steady, Configured
<1>4. Calling' /\ Nils' /\ Ended' /\ PanicsOnlyInFallback'
  BY <1>1, Zenon DEF LInv, LoopReload, Calling, Nils, Ended, PanicsOnlyInFallback, Starts, Stops
<1> QED
  BY <1>2, <1>3, <1>4, Zenon DEF LInv

\* A full reload begins.
LEMMA fullReloadL ==
  ASSUME LInv, fullReload PROVE LInv'
<1>1. pc = "reload" /\ Retire("reload") /\ state' = "Closing"
      /\ UNCHANGED <<comp, pipes, built, dead, cur, user, holder>>
  BY Zenon DEF fullReload, service
<1>2. cur = NoOne
  BY <1>1, Zenon DEF LInv, Calling, Starts, Stops
<1> QED
  BY <1>1, <1>2, RetireL, Zenon

-----------------------------------------------------------------------------
(* Start of a component. *)

\* What a component that is being started relies on has started before.
LEMMA StartCallReady ==
  ASSUME LInv, Types', NEW n \in Components, StartCall(n) PROVE ConsumersReady'
<1>1. /\ n \in todo /\ cur = NoOne /\ UNCHANGED <<pipes, built, dead>>
      /\ comp'[n] = "starting" /\ \A k \in Components : k # n => comp'[k] = comp[k]
  BY Zenon DEF StartCall, LInv, Types
<1>2. pc \in Starts
  BY Zenon DEF StartCall, StartOrder, Starts
<1>3. CASE pc = "extStart"
  <2>1. InExtStart /\ comp[n] = "built" /\ n \in ExtSet
    BY <1>1, <1>3, Zenon DEF LInv, Phase, InExtStart, Within
  <2> SUFFICES ASSUME NEW k \in Components, Active(k)' PROVE Relies(k)'
    BY ReadyMeansNext, Zenon
  <2>2. k \notin Nodes
    BY <1>1, <2>1, Kinds, Zenon DEF Active, InExtStart
  <2> SUFFICES ASSUME NEW m \in ExtSet, Earlier(m, k) PROVE comp'[m] = "started"
    BY <2>2, Zenon DEF Relies, Earlier
  <2>3. m \in Components
    BY Kinds, Zenon
  <2>4. CASE k = n
    <3>1. m \notin todo
      BY <1>3, <2>4, Zenon DEF StartCall, StartOrder
    <3> QED
      BY <1>1, <2>1, <2>3, <3>1, Kinds, Zenon DEF InExtStart, Visited
  <2>5. CASE k # n
    <3>1. Active(k)
      BY <1>1, <2>5, Zenon DEF Active
    <3>2. comp[m] = "started"
      BY <3>1, ReadyMeans, Zenon DEF LInv, Relies
    <3> QED
      BY <1>1, <2>1, <2>3, <3>2, Zenon
  <2> QED
    BY <2>4, <2>5, Zenon
<1>4. CASE pc = "nodeStart"
  <2>1. InNodeStart /\ comp[n] = "built" /\ n \in Nodes
    BY <1>1, <1>4, Zenon DEF LInv, Phase, InNodeStart, Within
  <2>2. \A m \in ExtSet : comp'[m] = "started"
    BY <1>1, <2>1, Kinds, Zenon DEF InNodeStart
  <2>3. \A s : nextConsumers(s)' = nextConsumers(s)
    BY <1>1, Zenon DEF nextConsumers
  <2>4. \A m \in Fixed : m \notin todo => comp[m] = "started" /\ comp'[m] = "started"
    BY <1>1, <2>1, Kinds, Zenon DEF InNodeStart, Visited
  <2> SUFFICES ASSUME NEW k \in Nodes, Active(k)', NEW s \in Sharing(k)', NEW m \in nextConsumers(s)
               PROVE  comp'[m] = "started"
    BY <2>2, <2>3, ReadyMeansNext, Zenon DEF Relies
  <2>5. s \in Nodes /\ m \in Fixed
    <3>1. s \in Nodes
      BY Kinds, Zenon DEF Sharing
    <3> QED
      BY <3>1, ConsumersFixed, Zenon DEF LInv
  <2>6. CASE k \in Fixed
    <3>1. s = k
      BY <2>6, Kinds, Zenon DEF Sharing
    <3>2. CASE k = n
      <4>1. m \notin todo
        BY <1>4, <3>1, <3>2, Zenon DEF StartCall, StartOrder
      <4> QED
        BY <2>4, <2>5, <4>1, Zenon
    <3>3. CASE k # n
      <4>1. Active(k) /\ k \in Components /\ k \in Sharing(k)
        BY <1>1, <2>6, <3>3, Kinds, Zenon DEF Active, Sharing
      <4>2. comp[m] = "started"
        BY <3>1, <4>1, ReadyMeans, Zenon DEF LInv, Relies
      <4> QED
        BY <1>1, <2>1, <2>5, <4>2, Kinds, Zenon
    <3> QED
      BY <3>2, <3>3, Zenon
  <2>7. CASE k \in Receivers
    <3>1. CASE n \in Receivers
      <4>1. m \notin todo
        BY <1>4, <2>5, <3>1, Kinds, Zenon DEF StartCall, StartOrder
      <4> QED
        BY <2>4, <2>5, <4>1, Zenon
    <3>2. CASE n \notin Receivers
      <4>1. comp[k] \in Alive
        BY <1>1, <2>7, <3>2, Kinds, Zenon DEF Active, Alive
      <4>2. n \in Fixed /\ todo \cap Fixed = {}
        BY <2>1, <2>7, <3>2, <4>1, Kinds, Zenon DEF InNodeStart
      <4> QED
        BY <1>1, <4>2, Zenon
    <3> QED
      BY <3>1, <3>2, Zenon
  <2> QED
    BY <2>6, <2>7, Kinds, Zenon
<1>5. CASE pc = "updStart"
  <2>1. InUpdStart /\ n \in Receivers
    BY <1>1, <1>5, Zenon DEF LInv, Phase, InUpdStart, Within
  <2>2. \A k \in ExtSet \cup Fixed : comp'[k] = "started"
    BY <1>1, <2>1, Kinds, Zenon DEF InUpdStart, Steady
  <2> QED
    BY <2>2, ReadyIfSteady, Zenon
<1> QED
  BY <1>2, <1>3, <1>4, <1>5, Zenon DEF Starts

\* Start of a component is called.
LEMMA StartCallL ==
  ASSUME LInv, NEW n \in Components, StartCall(n) PROVE LInv'
<1>1. /\ n \in todo /\ cur = NoOne /\ cur' = n /\ todo' = todo \ {n} /\ holder = NoOne
      /\ UNCHANGED <<pc, after, state, config, upd, user, pipes, built, dead, holder, ready>>
      /\ comp'[n] = "starting" /\ \A k \in Components : k # n => comp'[k] = comp[k]
  BY Zenon DEF StartCall, LInv, Types, ReportStatus
<1>2. pc \in Starts
  BY Zenon DEF StartCall, StartOrder, Starts
<1>3. Types'
  BY Zenon DEF StartCall, LInv, Types, CompStates
<1>4. ConsumersReady'
  BY <1>3, StartCallReady, Zenon
<1>5. Calling' /\ Nils' /\ HolderRuns' /\ Ended' /\ PanicsOnlyInFallback'
  BY <1>1, <1>2, Zenon DEF LInv, Calling, Nils, HolderRuns, Ended, PanicsOnlyInFallback, Starts
<1>6. ASSUME pc = "extStart" PROVE InExtStart' /\ Shared'
  <2>1. InExtStart /\ n \in ExtSet
    BY <1>1, <1>6, Zenon DEF LInv, Phase, InExtStart, Within
  <2>2. \A k \in Nodes : comp'[k] = comp[k]
    BY <1>1, <2>1, Kinds, Zenon
  <2>3. Configured(upd.want)'
    BY <1>1, <2>1, <2>2, Kinds, Zenon DEF InExtStart, Configured
  <2>4. Within(ExtSet)' /\ Visited(ExtSet, {"started"})' /\ \A k \in todo' : comp'[k] = "built"
    BY <1>1, <2>1, Kinds, Zenon DEF InExtStart, Within, Visited
  <2>5. InExtStart'
    BY <1>1, <2>1, <2>2, <2>3, <2>4, Kinds, Zenon DEF InExtStart
  <2> QED
    BY <2>1, <2>2, <2>5, Kinds, Zenon DEF Shared, InExtStart
<1>7. ASSUME pc = "nodeStart" PROVE InNodeStart' /\ Shared'
  <2>1. InNodeStart /\ n \in Nodes /\ comp[n] = "built"
    BY <1>1, <1>7, Zenon DEF LInv, Phase, InNodeStart, Within
  <2>2. Configured(upd.want)'
    BY <1>1, <2>1, Kinds, Zenon DEF InNodeStart, Configured
  <2>3. Within(Nodes)' /\ Visited(Nodes, {"absent", "started"})' /\ \A k \in todo' : comp'[k] = "built"
    BY <1>1, <2>1, Kinds, Zenon DEF InNodeStart, Within, Visited
  <2>4. \A k \in ExtSet : comp'[k] = "started"
    BY <1>1, <2>1, Kinds, Zenon DEF InNodeStart
  <2>5. \A k \in Fixed : comp'[k] # "absent"
    BY <1>1, <2>1, Kinds, Zenon DEF InNodeStart
  <2>6. ASSUME NEW r \in Receivers, comp'[r] \in Alive PROVE todo' \cap Fixed = {} /\ cur' \notin Fixed
    <3>1. CASE n \in Receivers
      BY <1>1, <1>7, <3>1, Kinds, Zenon DEF StartCall, StartOrder
    <3>2. CASE n \notin Receivers
      BY <1>1, <2>1, <2>6, <3>2, Kinds, Zenon DEF InNodeStart
    <3> QED
      BY <3>1, <3>2, Zenon
  <2>7. InNodeStart'
    BY <1>1, <2>1, <2>2, <2>3, <2>4, <2>5, <2>6, Zenon DEF InNodeStart
  <2>8. \A s \in Receivers : comp[s] # "stopped" /\ comp'[s] # "stopped"
    BY <1>1, <2>1, Kinds, Zenon DEF InNodeStart, Visited
  <2> QED
    BY <2>7, <2>8, Zenon DEF Shared
<1>8. ASSUME pc = "updStart" PROVE InUpdStart' /\ Shared'
  <2>1. InUpdStart /\ n \in Receivers /\ n \in Fresh(upd) /\ comp[n] = "built"
    BY <1>1, <1>8, Zenon DEF LInv, Phase, InUpdStart, Within
  <2>2. Configured(upd.want)'
    BY <1>1, <2>1, Kinds, Zenon DEF InUpdStart, Configured
  <2>3. Within(Fresh(upd))' /\ Visited(Receivers, {"absent", "started"})'
        /\ \A k \in todo' : comp'[k] = "built"
    BY <1>1, <2>1, Kinds, Zenon DEF InUpdStart, Within, Visited, Fresh
  <2>4. Steady'
    BY <1>1, <2>1, Kinds, Zenon DEF InUpdStart, Steady
  <2>5. InUpdStart'
    BY Zenon, <1>1, <2>1, <2>2, <2>3, <2>4 DEF InUpdStart, Fresh
  <2>6. \A s \in Receivers : comp[s] # "stopped" /\ comp'[s] # "stopped"
    BY <1>1, <2>1, Kinds, Zenon DEF InUpdStart, Visited
  <2> QED
    BY <2>5, <2>6, Zenon DEF Shared
<1>9. Phase' /\ Shared'
  BY <1>1, <1>2, <1>6, <1>7, <1>8, Zenon DEF Starts, Phase
<1> QED
  BY <1>3, <1>4, <1>5, <1>9, Zenon DEF LInv

\* Start of a component returns.
LEMMA StartReturnL ==
  ASSUME LInv, StartReturn PROVE LInv'
<1>1. /\ cur \in Components /\ cur' = NoOne /\ holder = NoOne /\ comp[cur] = "starting" /\ cur \notin todo
      /\ UNCHANGED <<pc, after, state, config, upd, todo, user, pipes, built, dead, holder, ready>>
      /\ comp'[cur] = "started" /\ \A k \in Components : k # cur => comp'[k] = comp[k]
  BY Zenon DEF StartReturn, LInv, Types, ReportOKIfStarting, Calling
<1>2. pc \in Starts
  BY <1>1, Zenon DEF StartReturn, LInv, Calling
<1>3. Types'
  BY Zenon DEF StartReturn, LInv, Types, CompStates
<1>4. ConsumersReady'
  <2>1. \A k \in Components : Active(k)' => Active(k)
    BY <1>1, Zenon DEF Active
  <2>2. \A k \in Components : comp[k] = "started" => comp'[k] = "started"
    BY <1>1, Zenon
  <2>3. \A k \in Nodes : Sharing(k)' = Sharing(k) /\ nextConsumers(k)' = nextConsumers(k)
    BY <1>1, Kinds, Zenon DEF Sharing, nextConsumers
  <2>4. \A k \in Nodes : nextConsumers(k) \subseteq Components
    BY ConsumersFixed, Kinds, Zenon DEF LInv
  <2>5. \A k \in Components : Relies(k) => Relies(k)'
    BY <2>2, <2>3, <2>4, SharingNodes, Kinds DEF Relies, Earlier
  <2> QED
    BY <2>1, <2>5, ReadyMeans, ReadyMeansNext, Zenon DEF LInv
<1>5. Calling' /\ Nils' /\ HolderRuns' /\ Ended' /\ PanicsOnlyInFallback'
  BY <1>1, <1>2, Zenon DEF LInv, Calling, Nils, HolderRuns, Ended, PanicsOnlyInFallback, Starts
<1>6. ASSUME pc = "extStart" PROVE InExtStart'
  <2>1. InExtStart /\ cur \in ExtSet
    BY <1>1, <1>6, Kinds, Zenon DEF LInv, Phase, InExtStart, Within
  <2>2. \A k \in Nodes : comp'[k] = comp[k]
    BY <1>1, <2>1, Kinds, Zenon
  <2>3. Configured(upd.want)'
    BY <1>1, <2>1, <2>2, Kinds, Zenon DEF InExtStart, Configured
  <2>4. Within(ExtSet)' /\ Visited(ExtSet, {"started"})' /\ \A k \in todo' : comp'[k] = "built"
    BY <1>1, <2>1, Kinds, Zenon DEF InExtStart, Within, Visited
  <2> QED
    BY <1>1, <2>1, <2>2, <2>3, <2>4, Kinds, Zenon DEF InExtStart
<1>7. ASSUME pc = "nodeStart" PROVE InNodeStart'
  <2>1. InNodeStart /\ cur \in Nodes
    BY <1>1, <1>7, Kinds, Zenon DEF LInv, Phase, InNodeStart, Within
  <2>2. Configured(upd.want)'
    BY <1>1, <2>1, Kinds, Zenon DEF InNodeStart, Configured
  <2>3. Within(Nodes)' /\ Visited(Nodes, {"absent", "started"})' /\ \A k \in todo' : comp'[k] = "built"
    BY <1>1, <2>1, Kinds, Zenon DEF InNodeStart, Within, Visited
  <2>4. /\ \A k \in ExtSet : comp'[k] = "started"
        /\ \A k \in Fixed : comp'[k] # "absent"
    BY <1>1, <2>1, Kinds, Zenon DEF InNodeStart
  <2>5. (\E r \in Receivers : comp'[r] \in Alive) => todo' \cap Fixed = {} /\ cur' \notin Fixed
    BY <1>1, <2>1, Kinds, Zenon DEF InNodeStart, Alive
  <2> QED
    BY <1>1, <2>1, <2>2, <2>3, <2>4, <2>5, Zenon DEF InNodeStart
<1>8. ASSUME pc = "updStart" PROVE InUpdStart'
  <2>1. InUpdStart /\ cur \in Receivers
    BY <1>1, <1>8, Kinds, Zenon DEF LInv, Phase, InUpdStart, Within
  <2>2. Configured(upd.want)'
    BY <1>1, <2>1, Kinds, Zenon DEF InUpdStart, Configured
  <2>3. Within(Fresh(upd))' /\ Visited(Receivers, {"absent", "started"})'
        /\ \A k \in todo' : comp'[k] = "built"
    BY <1>1, <2>1, Kinds, Zenon DEF InUpdStart, Within, Visited, Fresh
  <2>4. Steady'
    BY <1>1, <2>1, Kinds, Zenon DEF InUpdStart, Steady
  <2> QED
    BY <1>1, <2>1, <2>2, <2>3, <2>4, Zenon DEF InUpdStart, Fresh
<1>9. Phase'
  BY <1>1, <1>2, <1>6, <1>7, <1>8, Zenon DEF Starts, Phase
<1>10. Shared'
  BY <1>1, Kinds, Zenon DEF LInv, Shared, Alive
<1> QED
  BY <1>3, <1>4, <1>5, <1>9, <1>10, Zenon DEF LInv

\* Start of a component fails: the service is shut down.
LEMMA StartErrorL ==
  ASSUME LInv, StartError PROVE LInv'
<1>1. /\ cur \in Components /\ cur' = NoOne /\ holder = NoOne /\ comp[cur] = "starting"
      /\ UNCHANGED <<user, pipes, built, dead, holder>>
      /\ comp'[cur] = "failed" /\ \A k \in Components : k # cur => comp'[k] = comp[k]
  BY Zenon DEF StartError, LInv, Types, ReportStatus
<1>2. pc \in Starts
  BY <1>1, Zenon DEF StartError, LInv, Calling
<1>3. pc' = "notReady" /\ todo' = {} /\ (state' = "Closing" \/ state' = state)
  BY Zenon DEF StartError, GiveUp, Retire
<1>4. Types'
  BY <1>3, Zenon DEF StartError, LInv, Types, CompStates
<1>5. ConsumersReady'
  <2>1. \A k \in Components : Active(k)' => Active(k)
    BY <1>1, Zenon DEF Active
  <2>2. \A k \in Components : comp[k] = "started" => comp'[k] = "started"
    BY <1>1, Zenon
  <2>3. \A k \in Nodes : Sharing(k)' = Sharing(k) /\ nextConsumers(k)' = nextConsumers(k)
    BY <1>1, Kinds, Zenon DEF Sharing, nextConsumers
  <2>4. \A k \in Nodes : nextConsumers(k) \subseteq Components
    BY ConsumersFixed, Kinds, Zenon DEF LInv
  <2>5. \A k \in Components : Relies(k) => Relies(k)'
    BY <2>2, <2>3, <2>4, SharingNodes, Kinds DEF Relies, Earlier
  <2> QED
    BY <2>1, <2>5, ReadyMeans, ReadyMeansNext, Zenon DEF LInv
<1>6. Calling' /\ Nils' /\ HolderRuns' /\ Ended' /\ PanicsOnlyInFallback' /\ Phase'
  BY <1>1, <1>2, <1>3, Zenon DEF LInv, Calling, Nils, HolderRuns, Ended, PanicsOnlyInFallback, Starts, Phase
<1>7. Shared'
  BY <1>1, Kinds, Zenon DEF LInv, Shared, Alive
<1> QED
  BY <1>4, <1>5, <1>6, <1>7, Zenon DEF LInv

-----------------------------------------------------------------------------
(* Shutdown of a component. *)

\* Nobody who runs relies on the component that is being stopped.
LEMMA StopCallReady ==
  ASSUME LInv, Types', NEW n \in Components, StopCall(n), comp[n] # "nil" PROVE ConsumersReady'
<1>1. /\ n \in todo /\ cur = NoOne /\ UNCHANGED <<pipes, built, dead>>
      /\ comp'[n] = IF Active(n) THEN "stopping" ELSE "stopped"
      /\ \A k \in Components : k # n => comp'[k] = comp[k]
  BY Zenon DEF StopCall, LInv, Types
<1>2. pc \in Stops
  BY Zenon DEF StopCall, StopOrder, Stops
<1>3. \A k \in Components : Active(k)' => Active(k)
  BY <1>1, Zenon DEF Active
<1>4. CASE pc = "updStop"
  <2>1. InUpdStop /\ n \in Receivers
    BY <1>1, <1>4, Zenon DEF LInv, Phase, InUpdStop, Within, Planned
  <2>2. \A k \in ExtSet \cup Fixed : comp'[k] = "started"
    BY <1>1, <2>1, Kinds, Zenon DEF InUpdStop, Steady
  <2> QED
    BY <2>2, ReadyIfSteady, Zenon
<1>5. CASE pc = "nodeStop"
  <2>1. InNodeStop /\ n \in Nodes
    BY <1>1, <1>5, Zenon DEF LInv, Phase, InNodeStop, Within
  <2>2. \A s : nextConsumers(s)' = nextConsumers(s)
    BY <1>1, Zenon DEF nextConsumers
  <2> SUFFICES ASSUME NEW k \in Components, Active(k) PROVE Relies(k)'
    BY <1>3, ReadyMeansNext, Zenon
  <2>3. Relies(k)
    BY ReadyMeans, Zenon DEF LInv
  <2>4. \A m \in ExtSet : comp'[m] = comp[m]
    BY <1>1, <2>1, Kinds, Zenon
  <2> SUFFICES ASSUME k \in Nodes, NEW s \in Sharing(k)', NEW m \in nextConsumers(s)
               PROVE  comp'[m] = "started"
    BY <2>2, <2>3, <2>4, Zenon DEF Relies, Earlier
  <2>5. s \in Sharing(k)
    <3>1. \A q \in Receivers : comp'[q] \notin {"absent", "nil"} => comp[q] \notin {"absent", "nil"}
      BY <1>1, <2>1, Kinds, Zenon DEF InNodeStop
    <3> QED
      BY <1>1, <3>1, Zenon DEF Sharing
  <2>6. s \in Nodes /\ m \in Fixed /\ comp[m] = "started"
    BY <2>3, <2>5, SharingNodes, ConsumersFixed, Zenon DEF LInv, Relies
  <2>7. ASSUME m = n PROVE FALSE
    <3>1. s \notin todo
      BY Zenon, <1>5, <2>7 DEF StopCall, StopOrder
    <3>2. comp[s] \in {"absent", "stopped"}
      BY <1>1, <2>1, <2>6, <3>1, Kinds, Zenon DEF InNodeStop, Visited
    <3>3. s # k
      BY <3>2, Zenon DEF Active
    <3>4. k \in Receivers /\ s \in Receivers /\ Key[s] = Key[k] /\ built[s] = built[k] /\ comp[s] = "stopped"
      BY <2>5, <3>2, <3>3, Zenon DEF Sharing
    <3>5. k \in dead
      BY <1>1, <3>4, Kinds, Zenon DEF LInv, Shared, Active, Alive
    <3> QED
      BY <3>5, Zenon DEF Active
  <2> QED
    BY <1>1, <2>6, <2>7, Kinds, Zenon
<1>6. CASE pc = "extStop"
  <2>1. InExtStop /\ n \in ExtSet
    BY <1>1, <1>6, Zenon DEF LInv, Phase, InExtStop, Within
  <2> SUFFICES ASSUME NEW k \in Components, Active(k) PROVE Relies(k)'
    BY <1>3, ReadyMeansNext, Zenon
  <2>2. k \notin Nodes /\ k \in ExtSet
    BY <2>1, Kinds, Zenon DEF InExtStop, Active
  <2> SUFFICES ASSUME NEW m \in ExtSet, Earlier(m, k) PROVE comp'[m] = "started"
    BY <2>2, Zenon DEF Relies, Earlier
  <2>3. comp[m] = "started"
    BY ReadyMeans, Zenon DEF LInv, Relies
  <2>4. ASSUME m = n PROVE FALSE
    <3>1. k \notin todo
      BY <1>6, <2>4, Zenon DEF StopCall, StopOrder
    <3> QED
      BY <1>1, <2>1, <2>2, <3>1, Kinds, Zenon DEF InExtStop, Visited, Active
  <2> QED
    BY <1>1, <2>3, <2>4, Kinds, Zenon
<1> QED
  BY <1>2, <1>4, <1>5, <1>6, Zenon DEF Stops

\* Shutdown of a component is called, or of a node that has none.
LEMMA StopCallL ==
  ASSUME LInv, NEW n \in Components, StopCall(n) PROVE LInv'
<1>1. /\ n \in todo /\ cur = NoOne /\ holder = NoOne /\ pc \in Stops
      /\ UNCHANGED <<after, state, config, upd, user, pipes, built, dead, holder, ready>>
  BY Zenon DEF StopCall, ReportStatus, StopOrder, Stops
<1>2. CASE comp[n] = "nil"
  <2>1. pc' = "panicked" /\ UNCHANGED <<comp, cur, todo>>
    BY <1>2, Zenon DEF StopCall
  <2>2. Types' /\ Shared' /\ ConsumersReady' /\ HolderRuns'
    BY <1>1, <2>1, SameGraph, SameHolder, Zenon DEF LInv, Types
  <2>3. after = "reload"
    BY <1>1, <1>2, Zenon DEF LInv, Nils, Stops
  <2>4. Phase' /\ Calling' /\ Nils' /\ PanicsOnlyInFallback' /\ Ended'
    BY <1>1, <2>1, <2>3, Zenon DEF LInv, Phase, Calling, Nils, PanicsOnlyInFallback, Ended, Stops
  <2> QED
    BY <2>2, <2>4, Zenon DEF LInv
<1>3. CASE comp[n] # "nil"
  <2>1. /\ comp' = [comp EXCEPT ![n] = IF Active(n) THEN "stopping" ELSE "stopped"]
        /\ cur' = n /\ todo' = todo \ {n} /\ pc' = pc
    BY <1>3, Zenon DEF StopCall
  <2>2. Types'
    BY <1>1, <2>1, Zenon DEF LInv, Types, CompStates
  <2>3. ConsumersReady'
    BY <1>3, <2>2, StopCallReady, Zenon
  <2>4. /\ comp'[n] = IF Active(n) THEN "stopping" ELSE "stopped"
        /\ \A k \in Components : k # n => comp'[k] = comp[k]
    BY <2>1, Zenon DEF LInv, Types
  <2>5. Calling' /\ Nils' /\ HolderRuns' /\ Ended' /\ PanicsOnlyInFallback'
    BY <1>1, <2>1, <2>4 DEF LInv, Calling, Nils, HolderRuns, Ended, PanicsOnlyInFallback, Starts, Stops
  <2>6. Shared'
    BY <1>1, <2>1, <2>4, Kinds, Zenon DEF LInv, Shared, Active, Alive
  <2>7. ASSUME pc = "updStop" PROVE InUpdStop'
    <3>1. InUpdStop /\ n \in upd.remove \cup upd.rebuild /\ n \in Receivers /\ comp[n] = "started"
      BY Zenon, <1>1, <2>7 DEF LInv, Phase, InUpdStop, Within, Planned
    <3>2. Steady'
      BY <1>1, <2>4, <3>1, Kinds, Zenon DEF InUpdStop, Steady
    <3>3. Configured(config)'
      BY <1>1, <2>4, <3>1, Kinds, Zenon DEF InUpdStop, Configured
    <3>4. Planned'
      BY <1>1, <2>4, <3>1, Kinds DEF InUpdStop, Planned, Fresh
    <3>5. /\ Within(upd.remove \cup upd.rebuild)' /\ Visited(upd.remove \cup upd.rebuild, {"stopped"})'
          /\ \A k \in todo' : comp'[k] = "started"
      BY <1>1, <2>1, <2>4, <3>1, Kinds DEF InUpdStop, Within, Visited, Planned
    <3> QED
      BY <1>1, <2>4, <3>1, <3>2, <3>3, <3>4, <3>5, Kinds, Zenon DEF InUpdStop
  <2>8. ASSUME pc = "nodeStop" PROVE InNodeStop'
    BY Zenon, <1>1, <2>1, <2>4, <2>8, Kinds DEF LInv, Phase, InNodeStop, Within, Visited
  <2>9. ASSUME pc = "extStop" PROVE InExtStop'
    BY <1>1, <2>1, <2>4, <2>9, Kinds, Zenon DEF LInv, Phase, InExtStop, Within, Visited
  <2>10. Phase'
    BY <1>1, <2>1, <2>7, <2>8, <2>9, Zenon DEF Stops, Phase
  <2> QED
    BY <2>2, <2>3, <2>5, <2>6, <2>10, Zenon DEF LInv
<1> QED
  BY <1>2, <1>3, Zenon

\* Shutdown of a component has returned, for every node that shares it.
StopEnds ==
  /\ cur \in Components /\ cur' = NoOne /\ holder = NoOne /\ StopShared
  /\ comp[cur] \in {"stopping", "stopped"}
  /\ comp'[cur] = "stopped" /\ \A k \in Components : k # cur => comp'[k] = comp[k]
  /\ UNCHANGED <<user, pipes, built, holder>>

\* What holds of the graph when Shutdown of a component has returned.
LEMMA StopEndsGraph ==
  ASSUME LInv, StopEnds PROVE ConsumersReady' /\ Shared' /\ HolderRuns'
<1>1. /\ cur \in Components /\ cur' = NoOne /\ comp[cur] \in {"stopping", "stopped"}
      /\ comp'[cur] = "stopped" /\ \A k \in Components : k # cur => comp'[k] = comp[k]
      /\ UNCHANGED <<pipes, built>>
  BY Zenon DEF StopEnds
<1>2. dead' = (dead \cup {m \in Sharing(cur) : comp[m] # "stopped"}) \ {cur}
  BY Zenon DEF StopEnds, StopShared
<1>3. ConsumersReady'
  <2>1. \A k \in Components : Active(k)' => Active(k)
    BY <1>1, <1>2, Zenon DEF Active
  <2>2. \A k \in Components : comp[k] = "started" => comp'[k] = "started"
    BY <1>1, Zenon
  <2>3. \A k \in Nodes : Sharing(k)' = Sharing(k) /\ nextConsumers(k)' = nextConsumers(k)
    BY <1>1, Kinds, Zenon DEF Sharing, nextConsumers
  <2>4. \A k \in Nodes : nextConsumers(k) \subseteq Components
    BY ConsumersFixed, Kinds, Zenon DEF LInv
  <2>5. \A k \in Components : Relies(k) => Relies(k)'
    BY <2>2, <2>3, <2>4, SharingNodes, Kinds DEF Relies, Earlier
  <2> QED
    BY <2>1, <2>5, ReadyMeans, ReadyMeansNext, Zenon DEF LInv
<1>4. Shared'
  <2> SUFFICES ASSUME NEW s \in Receivers, NEW m \in Receivers, comp'[s] = "stopped",
                      Key[m] = Key[s], built[m] = built[s], comp'[m] \in Alive
               PROVE  m \in dead'
    BY <1>1, Zenon DEF Shared
  <2>1. m # cur /\ comp[m] = comp'[m]
    BY <1>1, Kinds, Zenon DEF Alive
  <2>2. CASE s = cur
    <3>1. m \in Sharing(cur) /\ comp[m] # "stopped"
      BY <2>1, <2>2, Zenon DEF Sharing, Alive
    <3> QED
      BY <1>2, <2>1, <3>1, Zenon
  <2>3. CASE s # cur
    <3>1. comp[s] = "stopped"
      BY <1>1, <2>3, Kinds, Zenon
    <3> QED
      BY <1>2, <2>1, <2>3, <3>1, Zenon DEF LInv, Shared
  <2> QED
    BY <2>2, <2>3, Zenon
<1> QED
  BY <1>3, <1>4, Zenon DEF StopEnds, HolderRuns

\* The loops that stop components go on when a call has returned.
LEMMA StopEndsPhase ==
  ASSUME LInv, StopEnds, pc \in Stops, UNCHANGED <<pc, state, config, upd, todo, ready>> PROVE Phase'
<1>1. /\ cur \in Components /\ cur' = NoOne /\ comp[cur] \in {"stopping", "stopped"}
      /\ comp'[cur] = "stopped" /\ \A k \in Components : k # cur => comp'[k] = comp[k]
      /\ UNCHANGED <<pipes, built>> /\ cur \notin todo
  BY Kinds, Zenon DEF StopEnds, LInv, Calling
<1>2. ASSUME pc = "updStop" PROVE InUpdStop'
  <2>1. InUpdStop /\ cur \in upd.remove \cup upd.rebuild /\ cur \in Receivers
    BY <1>1, <1>2, Kinds, Zenon DEF LInv, Phase, InUpdStop, Within, Planned
  <2>2. Steady'
    BY <1>1, <2>1, Kinds, Zenon DEF InUpdStop, Steady
  <2>3. Configured(config)'
    BY <1>1, <2>1, Kinds, Zenon DEF InUpdStop, Configured
  <2>4. Planned'
    BY <1>1, <2>1, Kinds DEF InUpdStop, Planned, Fresh
  <2>5. /\ Within(upd.remove \cup upd.rebuild)' /\ Visited(upd.remove \cup upd.rebuild, {"stopped"})'
        /\ \A k \in todo' : comp'[k] = "started"
    BY <1>1, <2>1, Kinds DEF InUpdStop, Within, Visited, Planned
  <2> QED
    BY Zenon, <1>1, <2>1, <2>2, <2>3, <2>4, <2>5, Kinds DEF InUpdStop
<1>3. ASSUME pc = "nodeStop" PROVE InNodeStop'
  BY <1>1, <1>3, Kinds, Zenon DEF LInv, Phase, InNodeStop, Within, Visited
<1>4. ASSUME pc = "extStop" PROVE InExtStop'
  BY <1>1, <1>4, Kinds, Zenon DEF LInv, Phase, InExtStop, Within, Visited
<1> QED
  BY <1>2, <1>3, <1>4, Zenon DEF Stops, Phase

\* Shutdown of a component returns.
LEMMA StopReturnL ==
  ASSUME LInv, StopReturn PROVE LInv'
<1>1. /\ StopEnds /\ pc \in Stops
      /\ UNCHANGED <<pc, after, state, config, upd, todo, ready, user>>
  BY Zenon DEF StopReturn, StopEnds, LInv, Types, Calling, ReportStatus, Starts
<1>2. Types'
  BY Kinds, Zenon DEF StopReturn, StopShared, Sharing, LInv, Types, CompStates
<1>3. Calling' /\ Nils' /\ Ended' /\ PanicsOnlyInFallback'
  BY <1>1, Zenon DEF StopEnds, LInv, Calling, Nils, Ended, PanicsOnlyInFallback
<1> QED
  BY <1>1, <1>2, <1>3, StopEndsGraph, StopEndsPhase, Zenon DEF LInv

\* Shutdown of a component returns an error: the loop goes on, except in an update.
LEMMA StopErrorL ==
  ASSUME LInv, StopError PROVE LInv'
<1>1. /\ StopEnds /\ pc \in Stops /\ UNCHANGED <<config, user, ready>>
  BY Zenon DEF StopError, StopEnds, LInv, Types, Calling, ReportStatus, Starts
<1>2. IF pc = "updStop" THEN pc' = "notReady" /\ todo' = {} /\ state' = "Closing" /\ after' = "reload"
                        ELSE UNCHANGED <<pc, after, state, upd, todo>>
  BY Zenon DEF StopError, GiveUp, Retire
<1>3. Types'
  BY Zenon, <1>2, Kinds DEF StopError, StopShared, Sharing, LInv, Types, CompStates
<1>4. Calling' /\ Nils' /\ Ended' /\ PanicsOnlyInFallback'
  BY <1>1, <1>2, Zenon DEF StopEnds, LInv, Calling, Nils, Ended, PanicsOnlyInFallback, Stops
<1>5. Phase'
  BY <1>1, <1>2, StopEndsPhase, Zenon DEF Phase
<1> QED
  BY <1>1, <1>3, <1>4, <1>5, StopEndsGraph, Zenon DEF LInv

-----------------------------------------------------------------------------
(* service.New, service.Start and service.Shutdown. *)

\* A new service is built, of which nothing runs yet.
LEMMA SetupL ==
  ASSUME LInv, NEW c \in Configs, Setup(c) PROVE LInv'
<1>1. /\ cur = NoOne /\ cur' = NoOne /\ holder = NoOne /\ holder' = NoOne
      /\ pc = "setup" /\ pc' = "extStart" /\ state' = "Starting"
      /\ todo' = ExtSet /\ upd'.want = c /\ UNCHANGED <<user, after>>
  BY Zenon DEF Setup, New, LInv, Calling, Starts, Stops, HolderRuns, Phase, Active, Alive, NoUpdate
<1>2. /\ comp' = [n \in Components |-> IF n \in Receivers /\ c.pipes[n] = {} THEN "absent" ELSE "built"]
      /\ pipes' = c.pipes /\ dead' = {}
      /\ DOMAIN built' = Receivers /\ \A r \in Receivers : built'[r].version = c.version[r]
  BY Zenon DEF Setup, New, Build
<1>3. c.pipes \in [Receivers -> SUBSET Pipelines]
  BY ConfigsOK, Zenon DEF ConfigsOK
<1>4. Types'
  BY <1>1, <1>2, <1>3, Kinds, Zenon DEF Types, CompStates
<1>5. \A n \in Components : comp'[n] \in {"absent", "built"}
  BY <1>2, Zenon
<1>6. ConsumersReady' /\ Shared'
  BY <1>5, ReadyMeansNext, Kinds, Zenon DEF Active, Shared
<1>7. Calling' /\ Nils' /\ HolderRuns' /\ Ended' /\ PanicsOnlyInFallback'
  BY <1>1, <1>5, Zenon DEF LInv, Calling, Nils, HolderRuns, Ended, PanicsOnlyInFallback
<1>8. Configured(upd.want)'
  BY <1>1, <1>2, Kinds, Zenon DEF Configured
<1>9. InExtStart'
  BY <1>1, <1>2, <1>8, Kinds, Zenon DEF InExtStart, Within, Visited
<1> QED
  BY <1>1, <1>4, <1>6, <1>7, <1>9, Zenon DEF LInv, Phase

\* A service cannot be built: Run returns.
LEMMA SetupErrorL ==
  ASSUME LInv, SetupError PROVE LInv'
<1>1. Types' /\ Shared' /\ ConsumersReady' /\ HolderRuns'
  BY SameGraph, SameHolder, Zenon DEF LInv, SetupError, service, Types
<1>2. Phase' /\ Calling' /\ Nils' /\ Ended' /\ PanicsOnlyInFallback'
  BY Zenon DEF LInv, SetupError, service, Phase, Calling, Nils, Ended, PanicsOnlyInFallback, Starts, Stops
<1> QED
  BY <1>1, <1>2, Zenon DEF LInv

\* GiveUp outside an update, where every node has its component.
LEMMA GiveUpL ==
  ASSUME LInv, GiveUp, pc \in {"extStart", "nodeStart", "updBuild"},
         UNCHANGED <<comp, pipes, built, dead, user, cur, holder>>, cur = NoOne
  PROVE  LInv'
<1>1. CASE pc = "updBuild"
  BY <1>1, RetireL, Zenon DEF GiveUp
<1>2. CASE pc # "updBuild"
  <2>1. \A n \in Components : comp[n] # "nil"
    BY <1>2, Zenon DEF LInv, Nils
  <2>2. \E a : Retire(a) /\ state' = state
    BY <1>2, Zenon DEF GiveUp
  <2> QED
    BY <2>1, <2>2, RetireL, Zenon
<1> QED
  BY <1>1, <1>2, Zenon

\* The extensions have started.
LEMMA ExtensionsStartedL ==
  ASSUME LInv, ExtensionsStarted PROVE LInv'
<1>1. /\ pc = "extStart" /\ todo = {} /\ cur = NoOne
      /\ UNCHANGED <<cur, user, comp, pipes, built, dead, holder, ready>>
  BY Zenon DEF ExtensionsStarted, Finished, service
<1>2. CASE GiveUp
  BY <1>1, <1>2, GiveUpL, Zenon
<1>3. CASE pc' = "nodeStart" /\ todo' = Present /\ UNCHANGED <<after, state, upd>>
  <2>1. Types' /\ Shared' /\ ConsumersReady' /\ HolderRuns'
    BY <1>1, <1>3, SameGraph, SameHolder, Kinds, Zenon DEF LInv, Present
  <2>2. Calling' /\ Nils' /\ Ended' /\ PanicsOnlyInFallback'
    BY <1>1, <1>3, Zenon DEF LInv, Calling, Nils, Ended, PanicsOnlyInFallback
  <2>3. InExtStart
    BY <1>1, Zenon DEF LInv, Phase
  <2>4. Configured(upd.want)'
    BY <1>1, <1>3, <2>3, Zenon DEF InExtStart, Configured
  <2>5. InNodeStart'
    BY <1>1, <1>3, <2>3, <2>4, Kinds, Zenon DEF InExtStart, InNodeStart, Within, Visited, Present, Alive
  <2> QED
    BY <1>3, <2>1, <2>2, <2>5, Zenon DEF LInv, Phase
<1> QED
  BY <1>2, <1>3, Zenon DEF ExtensionsStarted

\* The pipelines have started, and Run goes to its select.
LEMMA PipelinesStartedL ==
  ASSUME LInv, PipelinesStarted PROVE LInv'
<1>1. /\ pc = "nodeStart" /\ todo = {} /\ cur = NoOne
      /\ UNCHANGED <<cur, user, comp, pipes, built, dead, holder>>
  BY Zenon DEF PipelinesStarted, Finished
<1>2. CASE GiveUp
  BY <1>1, <1>2, GiveUpL, Zenon
<1>3. CASE /\ ready' = Len(Exts) /\ state' = "Running" /\ pc' = "loop"
           /\ config' = upd.want /\ UNCHANGED <<after, todo>>
  <2>1. Types' /\ Shared' /\ ConsumersReady' /\ HolderRuns'
    BY <1>1, <1>3, SameGraph, SameHolder, Zenon DEF LInv
  <2>2. Calling' /\ Nils' /\ Ended' /\ PanicsOnlyInFallback'
    BY <1>1, <1>3, Zenon DEF LInv, Calling, Nils, Ended, PanicsOnlyInFallback
  <2>3. InNodeStart
    BY <1>1, Zenon DEF LInv, Phase
  <2>4. Configured(config)'
    BY <1>1, <1>3, <2>3, Zenon DEF InNodeStart, Configured
  <2>5. \A n \in Nodes : comp[n] \in {"absent", "started"}
    BY <1>1, <2>3, Kinds, Zenon DEF InNodeStart, Visited
  <2>6. InLoop'
    BY <1>1, <1>3, <2>3, <2>4, <2>5, Kinds, Zenon DEF InNodeStart, InLoop, Steady
  <2> QED
    BY <1>3, <2>1, <2>2, <2>6, Zenon DEF LInv, Phase
<1> QED
  BY <1>2, <1>3, Zenon DEF PipelinesStarted

\* service.Shutdown goes on to the nodes, to the extensions, and ends.
LEMMA ServiceStopsL ==
  ASSUME LInv, NotifyPipelineNotReady \/ PipelinesStopped \/ ServiceStopped PROVE LInv'
<1>1. /\ UNCHANGED <<cur, user, comp, pipes, built, dead, holder, after>>
      /\ todo' \subseteq Components
  BY Zenon, Kinds DEF NotifyPipelineNotReady, PipelinesStopped, ServiceStopped, service, Present, LInv, Types
<1>2. Types' /\ Shared' /\ ConsumersReady' /\ HolderRuns'
  BY <1>1, SameGraph, SameHolder, Zenon DEF LInv
<1>3. cur = NoOne
  BY Zenon DEF NotifyPipelineNotReady, PipelinesStopped, ServiceStopped, Finished, LInv, Calling, Starts, Stops
<1>4. CASE NotifyPipelineNotReady
  <2>1. pc = "notReady" /\ pc' = "nodeStop" /\ todo' = Present /\ state' = state
    BY <1>4, Zenon DEF NotifyPipelineNotReady
  <2>2. InNodeStop'
    BY <1>1, <1>3, <2>1, Kinds, Zenon DEF InNodeStop, Within, Visited, Present
  <2> QED
    BY <1>1, <1>2, <1>3, <2>1, <2>2, Zenon DEF LInv, Phase, Calling, Nils, Ended, PanicsOnlyInFallback
<1>5. CASE PipelinesStopped
  <2>1. pc = "nodeStop" /\ pc' = "extStop" /\ todo' = ExtSet /\ state' = state /\ todo = {}
    BY <1>5, Zenon DEF PipelinesStopped, Finished
  <2>2. \A n \in Nodes : comp[n] \in {"absent", "stopped"}
    BY <1>3, <2>1, Kinds, Zenon DEF LInv, Phase, InNodeStop, Visited
  <2>3. InExtStop'
    BY <1>1, <1>3, <2>1, <2>2, Kinds, Zenon DEF InExtStop, Within, Visited
  <2>4. \A n \in Components : comp[n] # "nil"
    BY <2>2, Kinds, Zenon DEF LInv, Nils
  <2> QED
    BY <1>1, <1>2, <1>3, <2>1, <2>3, <2>4, Zenon DEF LInv, Phase, Calling, Nils, Ended, PanicsOnlyInFallback
<1>6. CASE ServiceStopped
  <2>1. /\ pc = "extStop" /\ todo = {}
        /\ pc' = "done" \/ (pc' = "setup" /\ after = "reload" /\ state' = state)
    BY <1>6, Zenon DEF ServiceStopped, Finished
  <2>2. \A n \in Components : comp[n] \in {"absent", "stopped"}
    BY <1>3, <2>1, Kinds, Zenon DEF LInv, Phase, InExtStop, Visited
  <2>3. Phase'
    BY <1>1, <2>1, <2>2, Zenon DEF Phase, Alive
  <2> QED
    BY <1>1, <1>2, <1>3, <2>1, <2>2, <2>3, Zenon DEF LInv, Calling, Nils, Ended, PanicsOnlyInFallback
<1> QED
  BY <1>4, <1>5, <1>6, Zenon

-----------------------------------------------------------------------------
(* UpdateReceivers. *)

\* The sets of an update cover every difference between the graph and the configuration.
LEMMA CategorizeFacts ==
  ASSUME InLoop, NEW c \in Configs
  PROVE  LET u == Categorize(c) IN
         /\ u.want = c /\ u.remove \cup u.rebuild \cup u.add \subseteq Receivers
         /\ \A r \in u.remove : c.pipes[r] = {}
         /\ \A r \in Fresh(u) : c.pipes[r] # {}
         /\ \A r \in u.add : comp[r] = "absent"
         /\ \A r \in u.remove \cup u.rebuild : comp[r] = "started"
         /\ \A r \in Receivers \ (u.remove \cup Fresh(u)) :
              /\ pipes[r] = c.pipes[r]
              /\ comp[r] # "absent" => built[r].version = c.version[r]
<1> DEFINE u == Categorize(c)
           current == Receivers \cap Present
           desired == {r \in Receivers : c.pipes[r] # {}}
<1>1. /\ u.want = c /\ u.remove = current \ desired /\ u.add = desired \ current
      /\ u.rebuild = {r \in current \cap desired : pipes[r] # c.pipes[r] \/ r \in changedReceivers(c)}
  BY Zenon DEF Categorize
<1>2. \A r \in Receivers : r \in current <=> comp[r] # "absent"
  BY Kinds, Zenon DEF Present
<1>3. \A r \in Receivers : comp[r] # "absent" <=> pipes[r] # {}
  BY Zenon DEF InLoop, Configured
<1>4. \A r \in Receivers : comp[r] # "absent" => comp[r] = "started" /\ built[r].version = config.version[r]
  BY Zenon DEF InLoop, Configured
<1>5. \A r \in Receivers : r \notin changedReceivers(c) => c.version[r] = config.version[r]
  BY Zenon DEF changedReceivers
<1>6. ASSUME NEW r \in Receivers \ (u.remove \cup Fresh(u))
      PROVE  pipes[r] = c.pipes[r] /\ (comp[r] # "absent" => built[r].version = c.version[r])
  <2>1. r \notin u.remove /\ r \notin u.rebuild /\ r \notin u.add
    BY Zenon DEF Fresh
  <2>2. CASE r \in desired
    BY <1>1, <1>2, <1>4, <1>5, <2>1, <2>2, Zenon
  <2>3. CASE r \notin desired
    BY Zenon, <1>1, <1>2, <1>3, <2>1, <2>3
  <2> QED
    BY <2>2, <2>3, Zenon
<1> QED
  BY <1>1, <1>2, <1>4, <1>6, Zenon DEF Fresh

\* A partial reload finds nothing to do, or begins to stop receivers.
LEMMA tryPartialReceiverReloadL ==
  ASSUME LInv, NEW c \in Configs, tryPartialReceiverReload(c) PROVE LInv'
<1> DEFINE u == Categorize(c)
<1>1. /\ pc = "reload" /\ UNCHANGED <<after, state, cur, user, comp, pipes, built, dead, holder, ready>>
      /\ IF u.remove \cup Fresh(u) = {}
         THEN pc' = "loop" /\ config' = c /\ UNCHANGED <<upd, todo>>
         ELSE pc' = "updStop" /\ upd' = u /\ todo' = u.remove \cup u.rebuild /\ UNCHANGED config
  BY Zenon DEF tryPartialReceiverReload, service
<1>2. InLoop /\ cur = NoOne
  BY <1>1, Zenon DEF LInv, Phase, Calling, Starts, Stops
<1> HIDE DEF u
<1>3. /\ u.want = c /\ u.remove \cup u.rebuild \cup u.add \subseteq Receivers
      /\ \A r \in u.remove : c.pipes[r] = {}
      /\ \A r \in Fresh(u) : c.pipes[r] # {}
      /\ \A r \in u.add : comp[r] = "absent"
      /\ \A r \in u.remove \cup u.rebuild : comp[r] = "started"
      /\ \A r \in Receivers \ (u.remove \cup Fresh(u)) :
           /\ pipes[r] = c.pipes[r]
           /\ comp[r] # "absent" => built[r].version = c.version[r]
  BY <1>2, CategorizeFacts, Zenon DEF u
<1>4. Types' /\ Shared' /\ ConsumersReady' /\ HolderRuns'
  <2>1. todo' \subseteq Components
    BY <1>1, <1>3, Kinds DEF LInv, Types
  <2> QED
    BY <1>1, <2>1, SameGraph, SameHolder, Zenon DEF LInv
<1>5. Calling' /\ Nils' /\ Ended' /\ PanicsOnlyInFallback'
  BY <1>1, <1>2, Zenon DEF LInv, Calling, Nils, Ended, PanicsOnlyInFallback
<1>6. CASE u.remove \cup Fresh(u) = {}
  <2>1. Configured(config)'
    BY <1>1, <1>2, <1>3, <1>6 DEF InLoop, Configured
  <2>2. InLoop'
    BY <1>1, <1>2, <1>6, <2>1, Zenon DEF InLoop, Steady
  <2> QED
    BY <1>1, <1>4, <1>5, <1>6, <2>2, Zenon DEF LInv, Phase
<1>7. CASE u.remove \cup Fresh(u) # {}
  <2>1. pc' = "updStop" /\ upd' = u /\ todo' = u.remove \cup u.rebuild /\ config' = config
    BY <1>1, <1>7, Zenon
  <2>2. Planned'
    BY <1>1, <1>3, <2>1, Zenon DEF Planned, Fresh
  <2>3. Steady' /\ Configured(config)'
    BY <1>1, <1>2, <2>1, Zenon DEF InLoop, Steady, Configured
  <2>4. /\ Within(upd.remove \cup upd.rebuild)' /\ Visited(upd.remove \cup upd.rebuild, {"stopped"})'
        /\ \A k \in todo' : comp'[k] = "started"
    BY <1>1, <1>2, <1>3, <2>1, Zenon DEF Within, Visited
  <2>5. InUpdStop'
    BY <1>1, <1>2, <2>1, <2>2, <2>3, <2>4, Zenon DEF InUpdStop, InLoop
  <2> QED
    BY <1>4, <1>5, <2>1, <2>5, Zenon DEF LInv, Phase
<1> QED
  BY <1>6, <1>7, Zenon

\* The nodes of an update are replaced by nodes without components.
LEMMA ReplaceNodesL ==
  ASSUME LInv, ReplaceNodes PROVE LInv'
<1> DEFINE U == upd.remove \cup Fresh(upd)
<1>1. /\ pc = "updStop" /\ todo = {} /\ cur = NoOne /\ pc' = "updBuild" /\ todo' = Fresh(upd)
      /\ UNCHANGED <<after, state, config, upd, cur, user, built, holder, ready>>
      /\ dead' = dead \ U
  BY Zenon DEF ReplaceNodes, Finished
<1>2. InUpdStop
  BY <1>1, Zenon DEF LInv, Phase
<1>3. /\ U \subseteq Receivers /\ upd.want \in Configs /\ Fresh(upd) \subseteq Receivers
      /\ \A r \in upd.remove : r \notin Fresh(upd) /\ upd.want.pipes[r] = {}
  BY <1>2, Zenon DEF InUpdStop, Planned, Fresh
<1>4. /\ \A n \in upd.remove : comp'[n] = "absent"
      /\ \A n \in Fresh(upd) : comp'[n] = "nil"
      /\ \A n \in Components : n \notin U => comp'[n] = comp[n]
  BY <1>3, Kinds, Zenon DEF ReplaceNodes
<1>5. \A r \in Receivers : pipes'[r] = upd.want.pipes[r]
  BY <1>2, Zenon DEF ReplaceNodes, InUpdStop, Planned
<1>6. Types'
  <2>1. comp' \in [Components -> CompStates]
    BY Zenon DEF ReplaceNodes, LInv, Types, CompStates
  <2>2. pipes' \in [Receivers -> SUBSET Pipelines]
    BY <1>3, ConfigsOK DEF ConfigsOK, ReplaceNodes, LInv, Types
  <2> QED
    BY <1>1, <1>3, <2>1, <2>2, Kinds, Zenon DEF LInv, Types
<1>7. Steady'
  BY <1>1, <1>2, <1>3, <1>4, Kinds, Zenon DEF InUpdStop, Steady
<1>8. ConsumersReady'
  BY <1>6, <1>7, ReadyIfSteady, Zenon DEF Steady
<1>9. \A r \in Receivers \ U : comp[r] \in {"absent", "started"}
  BY <1>2, Zenon DEF InUpdStop, Fresh
<1>10. \A r \in U : comp[r] \notin Alive
  BY <1>1, <1>2, <1>3, Kinds DEF InUpdStop, Visited, Planned, Fresh, Alive
<1>11. Configured(upd.want)'
  <2> SUFFICES ASSUME NEW r \in Receivers
               PROVE  /\ comp'[r] # "absent" <=> upd.want.pipes[r] # {}
                      /\ comp'[r] \notin {"absent", "nil"} => built[r].version = upd.want.version[r]
    BY <1>1, <1>5, Zenon DEF Configured
  <2>1. CASE r \in U
    BY <1>2, <1>3, <1>4, <2>1, Zenon DEF InUpdStop, Planned
  <2>2. CASE r \notin U
    BY <1>2, <1>4, <2>2, Kinds DEF InUpdStop, Planned, Configured
  <2> QED
    BY <2>1, <2>2, Zenon
<1>12. InUpdBuild'
  BY <1>1, <1>3, <1>4, <1>7, <1>9, <1>11, Kinds, Zenon DEF InUpdBuild, Fresh
<1>13. HolderRuns'
  BY <1>1, <1>4, <1>10, Zenon DEF LInv, HolderRuns, Active, Alive
<1>14. Shared'
  BY <1>3, <1>4, <1>9, Kinds, Zenon DEF Shared
<1>15. Calling' /\ Nils' /\ Ended' /\ PanicsOnlyInFallback'
  BY <1>1, <1>3, <1>4, Kinds, Zenon DEF LInv, Calling, Nils, Ended, PanicsOnlyInFallback
<1> QED
  BY <1>1, <1>6, <1>8, <1>12, <1>13, <1>14, <1>15, Zenon DEF LInv, Phase

\* One new receiver gets its component.
LEMMA buildComponentL ==
  ASSUME LInv, NEW n \in Receivers, buildComponent(n) PROVE LInv'
<1>1. /\ pc = "updBuild" /\ n \in todo /\ todo' = todo \ {n} /\ cur = NoOne
      /\ UNCHANGED <<pc, after, state, config, upd, cur, user, pipes, dead, holder, ready>>
      /\ n \in Components
  BY Zenon, Kinds DEF buildComponent, LInv, Calling, Starts, Stops
<1>2. /\ comp'[n] = "built" /\ \A k \in Components : k # n => comp'[k] = comp[k]
      /\ built'[n].version = upd.want.version[n] /\ \A k \in Receivers : k # n => built'[k] = built[k]
  BY <1>1, Zenon DEF buildComponent, LInv, Types
<1>3. Types'
  BY <1>1, Zenon DEF buildComponent, LInv, Types, CompStates
<1>4. InUpdBuild /\ comp[n] = "nil"
  BY <1>1, Zenon DEF LInv, Phase, InUpdBuild
<1>5. Steady'
  BY <1>1, <1>2, <1>4, Kinds, Zenon DEF InUpdBuild, Steady
<1>6. ConsumersReady'
  BY <1>3, <1>5, ReadyIfSteady, Zenon DEF Steady
<1>7. Configured(upd.want)'
  BY <1>1, <1>2, <1>4, Kinds DEF InUpdBuild, Configured
<1>8. InUpdBuild'
  BY <1>1, <1>2, <1>4, <1>5, <1>7, Kinds DEF InUpdBuild, Fresh
<1>9. \A r \in Receivers : comp'[r] # "stopped"
  BY <1>8, Zenon DEF InUpdBuild
<1>10. Shared' /\ Calling' /\ Nils' /\ Ended' /\ PanicsOnlyInFallback'
  BY Zenon, <1>1, <1>2, <1>9 DEF LInv, Shared, Calling, Nils, Ended, PanicsOnlyInFallback
<1>11. HolderRuns'
  BY <1>1, <1>2, <1>4, Zenon DEF LInv, HolderRuns, Active
<1> QED
  BY Zenon, <1>1, <1>3, <1>6, <1>8, <1>10, <1>11 DEF LInv, Phase

\* A receiver cannot be built: the fallback to a full reload.
LEMMA buildErrorL ==
  ASSUME LInv, buildError PROVE LInv'
<1>1. /\ pc = "updBuild" /\ GiveUp
      /\ UNCHANGED <<comp, pipes, built, dead, user, cur, holder>>
  BY Zenon DEF buildError, service
<1>2. cur = NoOne
  BY <1>1, Zenon DEF LInv, Calling, Starts, Stops
<1> QED
  BY <1>1, <1>2, GiveUpL, Zenon

\* The new receivers are built, and later started.
LEMMA ReceiversNewL ==
  ASSUME LInv, ReceiversBuilt \/ ReceiversUpdated PROVE LInv'
<1>1. /\ UNCHANGED <<after, state, cur, user, comp, pipes, built, dead, holder, ready>>
      /\ todo = {} /\ cur = NoOne
  BY Zenon DEF ReceiversBuilt, ReceiversUpdated, Finished, service
<1>2. CASE ReceiversBuilt
  <2>1. pc = "updBuild" /\ pc' = "updStart" /\ todo' = Fresh(upd) /\ UNCHANGED <<config, upd>>
    BY <1>2, Zenon DEF ReceiversBuilt, Finished
  <2>2. InUpdBuild
    BY <2>1, Zenon DEF LInv, Phase
  <2>3. Types' /\ Shared' /\ ConsumersReady' /\ HolderRuns'
    <3>1. todo' \subseteq Components
      BY <2>1, <2>2, Kinds, Zenon DEF InUpdBuild
    <3> QED
      BY <1>1, <3>1, SameGraph, SameHolder, Zenon DEF LInv
  <2>4. Configured(upd.want)' /\ Steady'
    BY <1>1, <2>1, <2>2, Zenon DEF InUpdBuild, Configured, Steady
  <2>5. InUpdStart'
    BY <1>1, <2>1, <2>2, <2>4, Zenon DEF InUpdBuild, InUpdStart, Within, Visited, Fresh
  <2>6. \A n \in Components : comp[n] # "nil"
    BY <1>1, <2>2, Zenon DEF LInv, Nils, InUpdBuild
  <2> QED
    BY <1>1, <2>1, <2>3, <2>5, <2>6, Zenon DEF LInv, Phase, Calling, Nils, Ended, PanicsOnlyInFallback
<1>3. CASE ReceiversUpdated
  <2>1. pc = "updStart" /\ pc' = "loop" /\ config' = upd.want /\ todo' = todo
    BY <1>3, Zenon DEF ReceiversUpdated, Finished
  <2>2. InUpdStart
    BY <2>1, Zenon DEF LInv, Phase
  <2>3. Types' /\ Shared' /\ ConsumersReady' /\ HolderRuns'
    BY <1>1, <2>1, SameGraph, SameHolder, Zenon DEF LInv
  <2>4. Configured(config)' /\ Steady'
    BY Zenon, <1>1, <2>1, <2>2 DEF InUpdStart, Configured, Steady
  <2>5. InLoop'
    BY <1>1, <2>1, <2>2, <2>4, Kinds, Zenon DEF InUpdStart, InLoop, Visited
  <2> QED
    BY <1>1, <2>1, <2>3, <2>5, Zenon DEF LInv, Phase, Calling, Nils, Ended, PanicsOnlyInFallback
<1> QED
  BY <1>2, <1>3, Zenon

-----------------------------------------------------------------------------
(* The theorems. *)

\* A step in which nothing happens keeps LInv.
LEMMA StutterL == ASSUME LInv, UNCHANGED vars PROVE LInv'
<1>1. UNCHANGED <<pc, after, state, config, upd, todo, cur, user, comp, pipes, built, dead, holder, ready>>
  BY Zenon DEF vars, service
<1>2. Types' /\ Shared' /\ ConsumersReady' /\ HolderRuns'
  BY <1>1, SameGraph, SameHolder, Zenon DEF LInv, Types
<1>3. Calling' /\ Nils' /\ PanicsOnlyInFallback' /\ Ended'
  BY <1>1, Zenon DEF LInv, Calling, Nils, PanicsOnlyInFallback, Ended
<1>4. Phase'
  BY Zenon, <1>1, SamePhase DEF LInv
<1> QED
  BY <1>2, <1>3, <1>4, Zenon DEF LInv

\* Every step of the collector keeps LInv.
LEMMA LStep == LInv /\ [Next]_vars => LInv'
<1> SUFFICES ASSUME LInv, [Next]_vars PROVE LInv'
  OBVIOUS
<1>1. CASE RunStep
  BY Zenon, <1>1, RunBeginsL, CloseL, StartCallL, StopCallL, StartReturnL, StartErrorL, StopReturnL, StopErrorL,
     SetupErrorL, ExtensionsStartedL, PipelinesStartedL, ServiceStopsL, SetupL, tryPartialReceiverReloadL,
     fullReloadL, ReplaceNodesL, buildErrorL, ReceiversNewL, buildComponentL
  DEF RunStep
<1>2. CASE UNCHANGED vars
  BY <1>2, StutterL, Zenon
<1> QED
  BY <1>1, <1>2, RunBeginsL, CloseL, LoopReloadL, UserL, ReportL, Zenon DEF Next

\* LInv holds of every collector: at each place of Run, the states of the components and of
\* the graph are the ones that the loops of Run leave behind.
THEOREM LInvAlways == Spec => []LInv
<1>1. Init => LInv
  BY LInit, Zenon
<1>2. LInv /\ [Next]_vars => LInv'
  BY LStep, Zenon
<1> QED
  BY <1>1, <1>2, PTL DEF Spec

\* A component runs only while the extensions and the consumers it sends to do (StartAll,
\* ShutdownAll, UpdateReceivers), through every failure and reload.
THEOREM ConsumersReadyAlways == Spec => []ConsumersReady
<1>1. LInv => ConsumersReady
  BY Zenon DEF LInv
<1> QED
  BY <1>1, LInvAlways, PTL

\* In Run's select the service is the one that the configuration describes, however many
\* partial and full reloads led there.
THEOREM RunningIsConfiguredAlways == Spec => []RunningIsConfigured
<1>1. LInv => RunningIsConfigured
  <2> SUFFICES ASSUME LInv, pc = "loop" PROVE RunningIsConfigured
    BY Zenon DEF RunningIsConfigured
  <2>1. InLoop
    BY Zenon DEF LInv, Phase
  <2>2. \A r \in Receivers : r \in Present <=> comp[r] # "absent"
    BY Kinds, Zenon DEF Present
  <2>3. \A n \in ExtSet \cup Present : comp[n] = "started"
    BY <2>1, Kinds, Zenon DEF InLoop, Steady, Present
  <2> QED
    BY <2>1, <2>2, <2>3, Zenon DEF RunningIsConfigured, InLoop, Steady, Configured
<1> QED
  BY <1>1, LInvAlways, PTL

\* When Run or Shutdown has returned, or the state is Closed, nothing runs.
THEOREM NothingLeftRunningAlways == Spec => []NothingLeftRunning
<1>1. LInv => NothingLeftRunning
  BY Zenon DEF LInv, NothingLeftRunning, Ended, Phase, HolderRuns, Active, Alive
<1> QED
  BY <1>1, LInvAlways, PTL

\* Shutdown is called on a node without component only by the full reload that follows a
\* failed partial one.
THEOREM PanicsOnlyInFallbackAlways == Spec => []PanicsOnlyInFallback
<1>1. LInv => PanicsOnlyInFallback
  BY Zenon DEF LInv
<1> QED
  BY <1>1, LInvAlways, PTL

\* While receivers are updated, a step changes the component of no other node.
LEMMA UpdateTouches ==
  ASSUME LInv, Next, pc \in {"reload", "updStop", "updBuild", "updStart"},
         NEW n \in Components, n \notin upd.remove \cup Fresh(upd)
  PROVE  comp'[n] = comp[n]
<1>1. Types
  BY Zenon DEF LInv
<1>2. /\ pc = "reload" => todo = {} /\ cur = NoOne
      /\ pc = "updBuild" => cur = NoOne
      /\ pc \in {"updStop", "updStart"} => Within(upd.remove \cup Fresh(upd))
  BY Zenon DEF LInv, Phase, Calling, Starts, Stops, InLoop, InUpdStop, InUpdStart, Within, Fresh
<1>3. ASSUME NEW k \in Components, StartCall(k) \/ StopCall(k) PROVE comp'[n] = comp[n]
  <2>1. pc \in {"updStop", "updStart"} /\ k \in todo
    BY <1>3, Zenon DEF StartCall, StopCall, StartOrder, StopOrder
  <2> QED
    BY <1>1, <1>2, <1>3, <2>1, Zenon DEF StartCall, StopCall, Within, Types
<1>4. ASSUME StartReturn \/ StartError \/ StopReturn \/ StopError PROVE comp'[n] = comp[n]
  <2>1. cur # NoOne /\ (comp'[n] = comp[n] \/ n = cur)
    BY Zenon, <1>1, <1>4 DEF StartReturn, StartError, StopReturn, StopError, Types
  <2> QED
    BY <1>2, <2>1, Zenon DEF Within
<1>5. ASSUME ReplaceNodes PROVE comp'[n] = comp[n]
  BY Zenon, <1>1, <1>5 DEF ReplaceNodes
<1>6. ASSUME NEW r \in Receivers, buildComponent(r) PROVE comp'[n] = comp[n]
  <2>1. r \in Fresh(upd)
    BY <1>6, Zenon DEF LInv, Phase, InUpdBuild, buildComponent
  <2> QED
    BY Zenon, <1>1, <1>6, <2>1 DEF buildComponent, Types
<1>7. ASSUME NEW c \in Configs, Setup(c) \/ tryPartialReceiverReload(c) PROVE comp'[n] = comp[n]
  BY <1>7, Zenon DEF Setup, tryPartialReceiverReload, service
<1>8. ASSUME NEW k \in Components, NEW s \in Runtime, Report(k, s) PROVE comp'[n] = comp[n]
  BY Zenon, <1>8 DEF Report
<1>9. ASSUME \/ RunCheck \/ LoopFatal \/ LoopShutdown \/ SetupError \/ ExtensionsStarted \/ PipelinesStarted
             \/ NotifyPipelineNotReady \/ PipelinesStopped \/ ServiceStopped
             \/ RunAdd \/ LoopInterrupt \/ LoopReload \/ UserShutdown \/ UserReturn
      PROVE comp'[n] = comp[n]
  BY Zenon, <1>9 DEF RunCheck, LoopFatal, LoopShutdown, SetupError, ExtensionsStarted, PipelinesStarted,
     NotifyPipelineNotReady, PipelinesStopped, ServiceStopped, RunAdd, LoopInterrupt, LoopReload,
     UserShutdown, UserReturn, Finished, Close, service
<1>10. ASSUME fullReload \/ buildError \/ ReceiversBuilt \/ ReceiversUpdated PROVE comp'[n] = comp[n]
  BY Zenon, <1>10 DEF fullReload, buildError, ReceiversBuilt, ReceiversUpdated, service
<1> QED
  BY <1>3, <1>4, <1>5, <1>6, <1>7, <1>8, <1>9, <1>10, Zenon DEF Next, RunStep

\* A partial reload calls neither Start nor Shutdown on any node but the receivers that
\* UpdateReceivers removes, rebuilds or adds.
THEOREM UntouchedAlways == Spec => Untouched
<1> DEFINE Touches ==
      (pc \in {"reload", "updStop", "updBuild", "updStart"}) =>
        \A n \in Components \ (upd.remove \cup Fresh(upd)) : comp'[n] = comp[n]
<1>1. LInv /\ [Next]_vars => [Touches]_vars
  BY UpdateTouches, Zenon
<1> QED
  BY <1>1, LInvAlways, PTL DEF Spec, Untouched

=============================================================================
