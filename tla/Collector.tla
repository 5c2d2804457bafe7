----------------------------- MODULE Collector -----------------------------
(***************************************************************************)
(* The life of a collector: Run (otelcol/collector.go) sets a service up   *)
(* from a configuration, waits in a select for a reload, a fatal error or  *)
(* a reason to stop, and shuts the service down.  A service                *)
(* (service/service.go) starts and stops its extensions and the nodes of   *)
(* its pipeline graph (service/internal/graph), and a reload that changes  *)
(* receivers only replaces them in the running graph (UpdateReceivers).    *)
(* Components report their status at any time, through a reporter whose    *)
(* mutex is held while a fatal error waits for Run to receive it.          *)
(*                                                                         *)
(* Run is one goroutine, so its place is one variable, pc; a call of Start *)
(* or Shutdown on a component is two steps, since the component's own      *)
(* goroutines run meanwhile.  Capabilities and fanout nodes have neither   *)
(* and are folded into the edges.                                          *)
(***************************************************************************)
EXTENDS Integers, Sequences, Functions

CONSTANTS
  Exts,        \* sequence of extensions, in the order of their dependencies
  Fixed,       \* processors, exporters and connectors
  Receivers,   \* receiver nodes, one for each signal a receiver is used for
  Key,         \* [Receivers -> keys], equal for nodes that share a sharedcomponent.Component
  Edges,       \* the consumers of Fixed, a set of pairs
  Entry,       \* [pipeline -> the first node of Fixed after its receivers]
  Configs,     \* valid configurations, see ConfigsOK
  PartialReload,                       \* ReceiverPartialReloadEnabled()
  MaxFaults, MaxReports, MaxReloads,   \* bounds on what the environment does
  NoOne

Pipelines == DOMAIN Entry
ExtSet == Range(Exts)
Nodes == Fixed \cup Receivers
Components == ExtSet \cup Nodes

(* A configuration: the pipelines of each receiver, the version of each      *)
(* receiver's settings, and the version of everything else.                  *)
ASSUME ConfigsOK ==
  /\ \A c \in Configs : /\ DOMAIN c = {"pipes", "version", "rest"}
                        /\ c.pipes \in [Receivers -> SUBSET Pipelines]
                        /\ c.version \in [Receivers -> Nat]
                        /\ \A r, s \in Receivers : Key[r] = Key[s] => c.version[r] = c.version[s]
  /\ Edges \subseteq Fixed \X Fixed /\ Entry \in [Pipelines -> Fixed]
  /\ Fixed \cap Receivers = {} /\ ExtSet \cap Nodes = {} /\ NoOne \notin Components
  /\ PartialReload \in BOOLEAN
  /\ MaxFaults \in Nat /\ MaxReports \in Nat /\ MaxReloads \in Nat

VARIABLES
  pc,         \* where Run stands
  after,      \* what Run does when service.Shutdown returns
  state,      \* col.state
  comp,       \* each component of the current service
  pipes,      \* g.pipelines: the pipelines each receiver node is in
  built,      \* the *Config each receiver was built with: its version, and the reload that read it
  dead,       \* receivers whose shared component was stopped through another node
  config,     \* col.currentFingerprint
  upd,        \* the configuration that is being applied, and the sets of UpdateReceivers
  todo,       \* components the loop at pc has still to visit
  cur,        \* the component whose Start or Shutdown is running
  status,     \* reporter.fsmMap
  holder,     \* who holds reporter.mu, blocked on AsyncErrorChannel
  ready,      \* how many extensions believe that the pipelines are ready
  stopErr,    \* service.Shutdown has collected an error
  user,       \* a goroutine that calls Collector.Shutdown
  faults, reports, reloads

service == <<comp, pipes, built, dead, status, holder, ready>>
counts == <<faults, reports, reloads>>
vars == <<pc, after, state, config, upd, todo, cur, stopErr, user, service, counts>>

NoUpdate == [remove |-> {}, rebuild |-> {}, add |-> {}, want |-> CHOOSE c \in Configs : TRUE]

Init ==
  /\ pc = "idle" /\ after = "exit" /\ state = "Starting"
  /\ comp = [n \in Components |-> "absent"] /\ status = [n \in Components |-> "None"]
  /\ pipes = [r \in Receivers |-> {}] /\ built = [r \in Receivers |-> [version |-> 0, at |-> 0]] /\ dead = {}
  /\ config = NoUpdate.want /\ upd = NoUpdate /\ todo = {} /\ cur = NoOne
  /\ holder = NoOne /\ ready = 0 /\ stopErr = FALSE /\ user = "none"
  /\ faults = 0 /\ reports = 0 /\ reloads = 0

----------------------------------------------------------------------------
(* The status reporter.                                                     *)

Runtime == {"OK", "RecoverableError", "PermanentError", "FatalError"}
Statuses == {"None", "Starting", "Stopping", "Stopped"} \cup Runtime

transitions ==
  [s \in Statuses |->
     CASE s = "None" -> {"Starting"}
       [] s = "Starting" -> Runtime \cup {"Stopping"}
       [] s \in {"OK", "RecoverableError"} -> Runtime \cup {"Stopping"}
       [] s = "PermanentError" -> {"Stopping"}
       [] s = "Stopping" -> (Runtime \ {"OK"}) \cup {"Stopped"}
       [] OTHER -> {}]

\* An invalid transition is ignored.
ReportStatus(n, s) ==
  /\ holder = NoOne
  /\ status' = IF s \in transitions[status[n]] THEN [status EXCEPT ![n] = s] ELSE status

ReportOKIfStarting(n) ==
  /\ holder = NoOne
  /\ status' = IF status[n] = "Starting" THEN [status EXCEPT ![n] = "OK"] ELSE status

\* The component has goroutines that run: between the call of Start and the end of Shutdown.
Active(n) == comp[n] \in {"starting", "started", "stopping"} /\ n \notin dead

\* A component reports a runtime status. The event goes to the extensions and, when it
\* is fatal, to AsyncErrorChannel, with reporter.mu held.
Report(n, s) ==
  /\ reports < MaxReports /\ pc # "panicked" /\ Active(n) /\ s \in transitions[status[n]]
  /\ ReportStatus(n, s)
  /\ holder' = IF s = "FatalError" THEN n ELSE NoOne
  /\ reports' = reports + 1
  /\ UNCHANGED <<pc, after, state, config, upd, todo, cur, stopErr, user, comp, pipes, built, dead, ready, faults, reloads>>


----------------------------------------------------------------------------
(* Starting and stopping components, one at a time, in the goroutine of Run. *)

Present == {n \in Nodes : comp[n] # "absent"}
\* The consumers of a node of the graph.
nextConsumers(n) == IF n \in Receivers THEN {Entry[p] : p \in pipes[n]} ELSE {m \in Fixed : <<n, m>> \in Edges}
\* The nodes that LoadOrStore gave the component of n: the same receiver of the same *Config.
Sharing(n) ==
  IF n \in Receivers
  THEN {m \in Receivers : Key[m] = Key[n] /\ built[m] = built[n] /\ comp[m] \notin {"absent", "nil"}}
  ELSE {n}
\* Extension m comes before extension n.
Earlier(m, n) == \E i, j \in DOMAIN Exts : i < j /\ Exts[i] = m /\ Exts[j] = n

\* Mutant: receivers are not kept for the end.
StartOrderByConsumers(n) ==
  \/ pc = "extStart" /\ \A m \in todo : ~Earlier(m, n)
  \/ pc = "nodeStart" /\ nextConsumers(n) \cap todo = {}
  \/ pc = "updStart"

\* The next component of the loop over extensionIDs, over the sorted nodes (every
\* node after its consumers, receivers last), or over the receivers of an update.
StartOrder(n) ==
  \/ pc = "extStart" /\ \A m \in todo : ~Earlier(m, n)
  \/ pc = "nodeStart" /\ nextConsumers(n) \cap todo = {} /\ (n \in Receivers => todo \subseteq Receivers)
  \/ pc = "updStart"

\* The next of extensionIDs backward, of the sorted nodes (every node before its
\* consumers), or of toRemove and then toRebuild.
StopOrder(n) ==
  \/ pc = "extStop" /\ \A m \in todo : ~Earlier(n, m)
  \/ pc = "nodeStop" /\ \A m \in todo : n \notin nextConsumers(m)
  \/ pc = "updStop" /\ (n \in upd.rebuild => todo \cap upd.remove = {})

\* Begins service.Shutdown; Run continues at a when it is over.
Retire(a) ==
  pc' = "notReady" /\ after' = a /\ stopErr' = FALSE /\ todo' = {} /\ upd' = NoUpdate

\* An error of Start, or of the notifications around it: setupConfigurationComponents
\* shuts the service down, and so does the full reload after a failed update.
GiveUp ==
  IF pc \in {"updStop", "updBuild", "updStart"}
  THEN Retire("reload") /\ state' = "Closing"
  ELSE Retire(IF after = "exit" THEN "exit" ELSE "abandon") /\ UNCHANGED state

Fault ==
  faults < MaxFaults /\ faults' = faults + 1

StartCall(n) ==
  /\ cur = NoOne /\ n \in todo /\ StartOrder(n)
  /\ ReportStatus(n, "Starting")
  /\ comp' = [comp EXCEPT ![n] = "starting"]
  /\ cur' = n /\ todo' = todo \ {n}
  /\ UNCHANGED <<pc, after, state, config, upd, stopErr, user, pipes, built, dead, holder, ready, counts>>

StartReturn ==
  /\ cur # NoOne /\ comp[cur] = "starting"
  /\ ReportOKIfStarting(cur)
  /\ comp' = [comp EXCEPT ![cur] = "started"]
  /\ cur' = NoOne
  /\ UNCHANGED <<pc, after, state, config, upd, todo, stopErr, user, pipes, built, dead, holder, ready, counts>>

\* A shared component starts once; if it did, it did without an error.
StartError ==
  /\ cur # NoOne /\ comp[cur] = "starting" /\ Fault
  /\ \A m \in Sharing(cur) : comp[m] # "started"
  /\ ReportStatus(cur, "PermanentError")
  /\ comp' = [comp EXCEPT ![cur] = "failed"]
  /\ cur' = NoOne
  /\ GiveUp
  /\ UNCHANGED <<config, user, pipes, built, dead, holder, ready, reports, reloads>>

\* A node that was never built has no component: the call dereferences nil.
StopCall(n) ==
  /\ cur = NoOne /\ n \in todo /\ StopOrder(n)
  /\ ReportStatus(n, "Stopping")
  /\ IF comp[n] = "nil"
     THEN pc' = "panicked" /\ UNCHANGED <<comp, cur, todo>>
     ELSE /\ comp' = [comp EXCEPT ![n] = IF Active(n) THEN "stopping" ELSE "stopped"]
          /\ cur' = n /\ todo' = todo \ {n}
          /\ UNCHANGED pc
  /\ UNCHANGED <<after, state, config, upd, stopErr, user, pipes, built, dead, holder, ready, counts>>

\* A shared component stops once, at the first of its nodes.
StopShared == dead' = (dead \cup {m \in Sharing(cur) : comp[m] # "stopped"}) \ {cur}

StopReturn ==
  /\ cur # NoOne /\ comp[cur] \in {"stopping", "stopped"}
  /\ ReportStatus(cur, "Stopped")
  /\ comp' = [comp EXCEPT ![cur] = "stopped"]
  /\ cur' = NoOne /\ StopShared
  /\ UNCHANGED <<pc, after, state, config, upd, todo, stopErr, user, pipes, built, holder, ready, counts>>

\* Mutant: ShutdownAll returns at the first error.
StopErrorReturns ==
  /\ cur # NoOne /\ comp[cur] \in {"stopping", "stopped"} /\ cur \notin dead /\ Fault
  /\ ReportStatus(cur, "PermanentError")
  /\ comp' = [comp EXCEPT ![cur] = "stopped"]
  /\ cur' = NoOne /\ StopShared
  /\ IF pc = "updStop" THEN GiveUp
     ELSE stopErr' = TRUE /\ todo' = {} /\ UNCHANGED <<pc, after, state, upd>>
  /\ UNCHANGED <<config, user, pipes, built, holder, ready, reports, reloads>>

\* shutdownReceiverNode returns the error, service.Shutdown goes on.
StopError ==
  /\ cur # NoOne /\ comp[cur] \in {"stopping", "stopped"} /\ cur \notin dead /\ Fault
  /\ ReportStatus(cur, "PermanentError")
  /\ comp' = [comp EXCEPT ![cur] = "stopped"]
  /\ cur' = NoOne /\ StopShared
  /\ IF pc = "updStop" THEN GiveUp
     ELSE stopErr' = TRUE /\ UNCHANGED <<pc, after, state, upd, todo>>
  /\ UNCHANGED <<config, user, pipes, built, holder, ready, reports, reloads>>

----------------------------------------------------------------------------
(* service.New, service.Start and service.Shutdown.                          *)

\* graph.Build makes the nodes of the configuration's receivers and of Fixed, and a
\* component for each.
Build(c) ==
  /\ pipes' = c.pipes /\ dead' = {}
  /\ built' = [r \in Receivers |-> [version |-> c.version[r], at |-> reloads]]
  /\ comp' = [n \in Components |-> IF n \in Receivers /\ c.pipes[n] = {} THEN "absent" ELSE "built"]

\* service.New: telemetry, a new reporter, the graph, the extensions.
New(c) ==
  Build(c) /\ status' = [n \in Components |-> "None"]

\* setupConfigurationComponents, up to service.Start.
Setup(c) ==
  /\ pc = "setup"
  /\ state' = "Starting" /\ New(c)
  /\ pc' = "extStart" /\ todo' = ExtSet /\ upd' = [NoUpdate EXCEPT !.want = c]
  /\ UNCHANGED <<after, config, cur, stopErr, user, holder, ready, counts>>

\* Run sets StateClosed when the first setup fails, not when a reload does.
SetupError ==
  /\ pc = "setup" /\ Fault
  /\ pc' = "done" /\ state' = IF after = "exit" THEN "Closed" ELSE "Starting"
  /\ UNCHANGED <<after, config, upd, todo, cur, stopErr, user, service, reports, reloads>>

Finished(phase) == pc = phase /\ todo = {} /\ cur = NoOne

\* NotifyConfigSnapshot returns the errors of the extensions.
ExtensionsStarted ==
  /\ Finished("extStart")
  /\ \/ pc' = "nodeStart" /\ todo' = Present /\ UNCHANGED <<after, state, upd, stopErr, faults>>
     \/ Fault /\ GiveUp
  /\ UNCHANGED <<config, cur, user, service, reports, reloads>>

\* NotifyPipelineReady stops at the first extension that fails.
PipelinesStarted ==
  /\ Finished("nodeStart")
  /\ \/ /\ ready' = Len(Exts) /\ state' = "Running" /\ pc' = "loop"
        /\ config' = upd.want /\ upd' = NoUpdate
        /\ UNCHANGED <<after, todo, stopErr, faults>>
     \/ Fault /\ ready' \in 0..(Len(Exts) - 1) /\ GiveUp /\ UNCHANGED config
  /\ UNCHANGED <<cur, user, comp, pipes, built, dead, status, holder, reports, reloads>>

NotifyPipelineNotReady ==
  /\ pc = "notReady" /\ ready' = 0
  /\ \/ stopErr' = FALSE /\ UNCHANGED faults
     \/ Len(Exts) > 0 /\ Fault /\ stopErr' = TRUE
  /\ pc' = "nodeStop" /\ todo' = Present
  /\ UNCHANGED <<after, state, config, upd, cur, user, comp, pipes, built, dead, status, holder, reports, reloads>>

PipelinesStopped ==
  /\ Finished("nodeStop")
  /\ pc' = "extStop" /\ todo' = ExtSet
  /\ UNCHANGED <<after, state, config, upd, cur, stopErr, user, service, counts>>

\* The end of service.Shutdown: the telemetry providers stop, with an error or without,
\* and Run goes on.
ServiceStopped ==
  /\ Finished("extStop")
  /\ \E err \in {stopErr, TRUE} :
       /\ IF err = stopErr THEN UNCHANGED faults ELSE Fault
       /\ pc' = IF after = "reload" /\ ~err THEN "setup" ELSE "done"
  /\ state' = IF after \in {"exit", "close"} THEN "Closed" ELSE state
  /\ UNCHANGED <<after, config, upd, todo, cur, stopErr, user, service, reports, reloads>>

----------------------------------------------------------------------------
(* Run and Collector.Shutdown.                                              *)

\* wg.Add(1), and then the first look at shutdownChan.
RunAdd ==
  /\ pc = "idle" /\ pc' = "check"
  /\ UNCHANGED <<after, state, config, upd, todo, cur, stopErr, user, service, counts>>

RunCheck ==
  /\ pc = "check"
  /\ IF user = "none" THEN pc' = "setup" /\ UNCHANGED state
     ELSE pc' = "done" /\ state' = "Closed"
  /\ UNCHANGED <<after, config, upd, todo, cur, stopErr, user, service, counts>>

\* col.shutdown
Close ==
  /\ state' = "Closing" /\ Retire("close")
  /\ UNCHANGED <<config, cur, user, comp, pipes, built, dead, status, ready, counts>>

\* The cases of Run's select.
LoopFatal ==
  pc = "loop" /\ holder # NoOne /\ holder' = NoOne /\ Close

\* Mutant: a reload forgets shutdownChan.
LoopShutdownForgotten ==
  pc = "loop" /\ user # "none" /\ reloads = 0 /\ Close /\ UNCHANGED holder

LoopShutdown ==
  pc = "loop" /\ user # "none" /\ Close /\ UNCHANGED holder

\* A signal to stop, an error of the configuration's watch, or the end of ctx.
LoopInterrupt ==
  pc = "loop" /\ Close /\ UNCHANGED holder

\* SIGHUP, or the configuration's watch.
LoopReload ==
  /\ pc = "loop" /\ reloads < MaxReloads /\ reloads' = reloads + 1
  /\ pc' = "reload"
  /\ UNCHANGED <<after, state, config, upd, todo, cur, stopErr, user, service, faults, reports>>

\* Collector.Shutdown closes shutdownChan and waits for Run.
UserShutdown ==
  /\ user = "none" /\ pc # "panicked" /\ user' = "waiting"
  /\ UNCHANGED <<pc, after, state, config, upd, todo, cur, stopErr, service, counts>>

UserReturn ==
  /\ user = "waiting" /\ pc \in {"idle", "done"} /\ user' = "returned"
  /\ UNCHANGED <<pc, after, state, config, upd, todo, cur, stopErr, service, counts>>

----------------------------------------------------------------------------
(* reloadConfiguration and UpdateReceivers.                                  *)

receiversOnlyChanged(c) == c.rest = config.rest
changedReceivers(c) == {r \in Receivers : c.version[r] # config.version[r]}

\* Mutant: only the pipelines of a receiver are compared.
CategorizeByPipelines(c) ==
  LET current == Receivers \cap Present
      desired == {r \in Receivers : c.pipes[r] # {}}
  IN [remove  |-> current \ desired,
      rebuild |-> {r \in current \cap desired : pipes[r] # c.pipes[r]},
      add     |-> desired \ current,
      want    |-> c]

\* Phases 1 to 3.
Categorize(c) ==
  LET current == Receivers \cap Present
      desired == {r \in Receivers : c.pipes[r] # {}}
  IN [remove  |-> current \ desired,
      rebuild |-> {r \in current \cap desired : pipes[r] # c.pipes[r] \/ r \in changedReceivers(c)},
      add     |-> desired \ current,
      want    |-> c]
Fresh(u) == u.rebuild \cup u.add

\* Mutant: every receiver is stopped.
StopEveryReceiver(c) ==
  /\ pc = "reload" /\ PartialReload /\ receiversOnlyChanged(c)
  /\ pc' = "updStop" /\ upd' = Categorize(c) /\ todo' = Receivers \cap Present
  /\ UNCHANGED <<after, state, config, cur, stopErr, user, service, counts>>

tryPartialReceiverReload(c) ==
  /\ pc = "reload" /\ PartialReload /\ receiversOnlyChanged(c)
  /\ LET u == Categorize(c)
     IN IF u.remove \cup Fresh(u) = {}
        THEN pc' = "loop" /\ config' = c /\ UNCHANGED <<upd, todo>>
        ELSE pc' = "updStop" /\ upd' = u /\ todo' = u.remove \cup u.rebuild /\ UNCHANGED config
  /\ UNCHANGED <<after, state, cur, stopErr, user, service, counts>>

\* Without partial reload, for another kind of change, or when the new configuration
\* cannot be read.
fullReload ==
  /\ pc = "reload"
  /\ \/ (~PartialReload \/ \E c \in Configs : ~receiversOnlyChanged(c)) /\ UNCHANGED faults
     \/ PartialReload /\ Fault
  /\ state' = "Closing" /\ Retire("reload")
  /\ UNCHANGED <<config, cur, user, service, reports, reloads>>

\* Phases 5 to 7: the nodes leave the graph, and new ones without components enter it.
ReplaceNodes ==
  /\ Finished("updStop")
  /\ comp' = [n \in Components |-> IF n \in upd.remove THEN "absent" ELSE IF n \in Fresh(upd) THEN "nil" ELSE comp[n]]
  /\ status' = [n \in Components |-> IF n \in upd.remove \cup Fresh(upd) THEN "None" ELSE status[n]]
  /\ pipes' = [r \in Receivers |-> IF r \in upd.remove \cup Fresh(upd) THEN upd.want.pipes[r] ELSE pipes[r]]
  /\ dead' = dead \ (upd.remove \cup Fresh(upd))
  /\ pc' = "updBuild" /\ todo' = Fresh(upd)
  /\ UNCHANGED <<after, state, config, upd, cur, stopErr, user, built, holder, ready, counts>>

\* Phase 8.
buildComponent(n) ==
  /\ pc = "updBuild" /\ n \in todo
  /\ comp' = [comp EXCEPT ![n] = "built"] /\ built' = [built EXCEPT ![n] = [version |-> upd.want.version[n], at |-> reloads]]
  /\ todo' = todo \ {n}
  /\ UNCHANGED <<pc, after, state, config, upd, cur, stopErr, user, pipes, dead, status, holder, ready, counts>>

\* Mutant: a receiver that cannot be built is left out.
buildErrorIgnored ==
  /\ pc = "updBuild" /\ todo # {} /\ Fault
  /\ pc' = "loop" /\ config' = upd.want /\ upd' = NoUpdate /\ todo' = {}
  /\ UNCHANGED <<after, state, cur, stopErr, user, service, reports, reloads>>

buildError ==
  /\ pc = "updBuild" /\ todo # {} /\ Fault
  /\ GiveUp
  /\ UNCHANGED <<config, cur, user, service, reports, reloads>>

ReceiversBuilt ==
  /\ Finished("updBuild")
  /\ pc' = "updStart" /\ todo' = Fresh(upd)
  /\ UNCHANGED <<after, state, config, upd, cur, stopErr, user, service, counts>>

ReceiversUpdated ==
  /\ Finished("updStart")
  /\ pc' = "loop" /\ config' = upd.want /\ upd' = NoUpdate
  /\ UNCHANGED <<after, state, todo, cur, stopErr, user, service, counts>>

----------------------------------------------------------------------------
\* What the goroutine of Run does by itself.
RunStep ==
  \/ RunCheck \/ LoopFatal \/ LoopShutdown
  \/ \E n \in Components : StartCall(n) \/ StopCall(n)
  \/ StartReturn \/ StartError \/ StopReturn \/ StopError
  \/ SetupError \/ ExtensionsStarted \/ PipelinesStarted
  \/ NotifyPipelineNotReady \/ PipelinesStopped \/ ServiceStopped
  \/ \E c \in Configs : Setup(c) \/ tryPartialReceiverReload(c)
  \/ fullReload \/ ReplaceNodes \/ buildError \/ ReceiversBuilt \/ ReceiversUpdated
  \/ \E r \in Receivers : buildComponent(r)

Next ==
  \/ RunStep \/ RunAdd \/ LoopInterrupt \/ LoopReload
  \/ UserShutdown \/ UserReturn
  \/ \E n \in Components, s \in Runtime : Report(n, s)

Spec == Init /\ [][Next]_vars
\* Run is scheduled, and Start and Shutdown of every component return.
FairSpec == Spec /\ WF_vars(RunStep)

----------------------------------------------------------------------------
\* While a component runs, what it relies on has started and has not begun to stop: the
\* extensions, and the consumers it sends to, from its first item to the last one it drains
\* in Shutdown (StartAll: "each component's consumer is ready to consume"; ShutdownAll:
\* "each component has a chance to drain to its consumer before the consumer is stopped").
\* A receiver that several signals share sends to the consumers of all its nodes as soon
\* as one of them starts (the comment in StartAll's sort). It holds through failed starts,
\* failed updates of the receivers and full reloads.
ConsumersReady ==
  \A n \in Components : Active(n) =>
    /\ n \in Nodes => \A m \in ExtSet \cup UNION {nextConsumers(s) : s \in Sharing(n)} : comp[m] = "started"
    /\ \A m \in ExtSet : Earlier(m, n) => comp[m] = "started"

\* While Run waits in its select, the running service is the one its fingerprint
\* describes, however many partial and full reloads led there: the receivers of the
\* configuration and no others run, built from that configuration's settings and
\* connected to its pipelines. The next partial reload is computed from this. (Started here
\* is what the graph believes: see UnchangedKeepRunning.)
RunningIsConfigured ==
  pc = "loop" =>
    /\ \A r \in Receivers : pipes[r] = config.pipes[r] /\ (r \in Present <=> config.pipes[r] # {})
    /\ \A r \in Receivers \cap Present : built[r].version = config.version[r]
    /\ \A n \in ExtSet \cup Present : comp[n] = "started"
    /\ state = "Running" /\ ready = Len(Exts)

\* When Run has returned, the state is Closed, or Shutdown has returned ("If Run has been
\* called, Shutdown blocks until Run completes all cleanup"), no component is left running,
\* nor ever starts again, and no reporter waits: after every combination of errors, of the
\* first setup, of a reload ("we return without waiting for graceful shutdown") and of the
\* shutdown, and although Run and Shutdown may be called at the same time.
NothingLeftRunning ==
  pc = "done" \/ state = "Closed" \/ user = "returned" =>
    (\A n \in Components : ~Active(n)) /\ holder = NoOne

\* A partial reload calls neither Start nor Shutdown on any node but the receivers it
\* removes, rebuilds or adds ("All other components remain running without interruption").
Untouched ==
  [][(pc \in {"reload", "updStop", "updBuild", "updStart"}) =>
       \A n \in Components \ (upd.remove \cup Fresh(upd)) : comp'[n] = comp[n]]_vars

\* Users can call Collector.Shutdown anytime to shut down the collector: if Run runs,
\* it ends. It may only fail to when a fatal error is reported outside the select, and
\* its reporter's mutex is never released again (or when the process panics).
ShutdownCompletes ==
  <>[](user # "none" /\ pc # "idle" => pc \in {"done", "panicked"} \/ (holder # NoOne /\ pc # "loop"))

\* A component that is not there is called in one case only: a partial reload that failed
\* leaves "new nodes without components" (reloadConfiguration), and the full reload that
\* follows shuts down the graph with them.
PanicsOnlyInFallback ==
  pc = "panicked" => after = "reload"

\* "Unchanged receivers keep running without interruption" (UpdateReceivers): back in its
\* select, Run has no receiver whose component has been stopped, also when one component
\* receives for several signals and a reload concerns one of them.
UnchangedKeepRunning ==
  pc = "loop" => dead = {}
=============================================================================
