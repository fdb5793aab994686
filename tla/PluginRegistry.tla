---------------------------- MODULE PluginRegistry ----------------------------
(***************************************************************************)
(* The plugin subprocesses of the daemon: internal/plugin/host.go,          *)
(* registry.go and proxy.go, driven by runDaemon (cmd/oikos/daemon.go),     *)
(* which loads and starts every enabled plugin, forwards events to them     *)
(* while it is up, and stops them when it ends.                             *)
(*                                                                         *)
(* Actors: the main goroutine (Start and Stop of one host after another);   *)
(* per plugin a goroutine that waits for its process; per plugin and event  *)
(* type a bridge goroutine that hands on the events of a bounded channel.   *)
(* Host.mu and Registry.mu make single reads and writes atomic, no more.    *)
(***************************************************************************)
EXTENDS Integers, FiniteSets

CONSTANTS Plugins,   \* plugin ids, numbered in the order sort.Strings gives them
          Types,     \* event types
          Allowed,   \* allowed_events of each manifest
          Routed,    \* plugins with allowed_routes
          Handlers,  \* plugins for which HostOptions.RouteHandlers has an entry
          MaxQueue,  \* bound: events in a subscriber's channel (64 in the code)
          Faults     \* which failures the environment may inject

ASSUME PluginAssumption ==
    /\ Plugins \subseteq Nat
    /\ Allowed \in [Plugins -> SUBSET Types]
    /\ Routed \subseteq Plugins /\ Handlers \subseteq Plugins
    /\ MaxQueue \in Nat
    /\ Faults \subseteq {"plugin", "exec", "db", "slow", "crash"}

\* The subscriptions bridge makes.
Subs == {s \in Plugins \X Types : s[2] \in Allowed[s[1]]}

VARIABLES
    rowEnabled,   \* plugins.enabled
    hosts,        \* plugins the registry has a host for
    enabled, failures,  \* Registry.enabled and Registry.failures
    routes,       \* plugins with routes in the proxy
    main,         \* next step of the main goroutine
    cur,          \* the plugin it starts or stops
    todo,         \* plugins it has still to start or to stop
    started,      \* plugins StartAll has started
    proc,         \* process and its waiter: "none", "live", "exited", "cleaning",
                  \* "closed" (waitDone), "reaped"
    cmd, client, running, healthy,  \* Host.cmd and client set?  Host.status
    socket,       \* the socket file is there
    capability,   \* events the plugin announced
    bus,          \* "none", "subscribed" or "cancelled"
    queue,        \* events waiting in each subscription
    gpc           \* next step of each bridge goroutine

regVars == <<hosts, enabled, failures, routes>>
mainVars == <<main, cur, todo, started>>
hostVars == <<proc, cmd, client, running, healthy, socket, capability>>
bridgeVars == <<bus, queue, gpc>>
pluginVars == <<rowEnabled, hosts, enabled, failures, routes, main, cur, todo, started,
                proc, cmd, client, running, healthy, socket, capability, bus, queue, gpc>>

StartPcs == {"spawn", "wait", "dial", "client", "init", "healthy", "routes"}
StopPcs == {"kill", "reap", "clear"}

\* The least element comes first.
IsFirst(i, S) == i \in S /\ \A j \in S : i <= j

Goto(next) == main' = next /\ UNCHANGED <<cur, todo, started>>

-----------------------------------------------------------------------------
(* LoadEnabled and StartAll.                                                 *)

LoadEnabled ==
    /\ main = "boot"
    /\ \/ /\ hosts' = {i \in Plugins : rowEnabled[i]}
          /\ enabled' = [i \in Plugins |-> rowEnabled[i]]
          /\ main' = "next" /\ todo' = hosts'
       \/ "db" \in Faults /\ main' = "failed" /\ UNCHANGED <<hosts, enabled, todo>>
    /\ UNCHANGED <<rowEnabled, failures, routes, cur, started, hostVars, bridgeVars>>

StartNext ==
    /\ main = "next"
    /\ \E i \in Plugins : IsFirst(i, todo) /\ cur' = i
    /\ main' = "spawn"
    /\ UNCHANGED <<todo, started, rowEnabled, regVars, hostVars, bridgeVars>>

\* Host.Start: check of the binary, a fresh socket in place of an old one, the process.
\* A process that does not start leaves Host.cmd set.
Spawn ==
    /\ main = "spawn"
    /\ \/ /\ proc' = [proc EXCEPT ![cur] = "live"]
          /\ socket' = [socket EXCEPT ![cur] = TRUE]
          /\ cmd' = [cmd EXCEPT ![cur] = TRUE]
          /\ running' = [running EXCEPT ![cur] = TRUE]
          /\ healthy' = [healthy EXCEPT ![cur] = FALSE]
          /\ Goto("wait")
       \/ /\ "exec" \in Faults /\ Goto("undo")
          /\ \/ UNCHANGED <<socket, cmd>>
             \/ /\ socket' = [socket EXCEPT ![cur] = FALSE]
                /\ cmd' \in {cmd, [cmd EXCEPT ![cur] = TRUE]}
          /\ UNCHANGED <<proc, running, healthy>>
    /\ UNCHANGED <<client, capability, rowEnabled, regVars, bridgeVars>>

\* waitForSocket.
WaitForSocket ==
    /\ main = "wait"
    /\ Goto(IF socket[cur] THEN "dial" ELSE "kill")
    /\ UNCHANGED <<rowEnabled, regVars, hostVars, bridgeVars>>

\* grpc.Dial with WithBlock and no deadline: it returns once the plugin serves,
\* which a dead one never does and a live one need not.
Dial ==
    /\ main = "dial"
    /\ proc[cur] = "live"
    /\ Goto("client")
    /\ UNCHANGED <<rowEnabled, regVars, hostVars, bridgeVars>>

SetClient ==
    /\ main = "client"
    /\ client' = [client EXCEPT ![cur] = TRUE]
    /\ Goto("init")
    /\ UNCHANGED <<proc, cmd, running, healthy, socket, capability, rowEnabled, regVars, bridgeVars>>

\* ValidateCapabilities: a plugin may announce fewer events than its manifest allows,
\* not others.
Capabilities(i) == SUBSET Allowed[i]

\* MUTANT: a failed handshake returns without stopping the plugin.
InitCallKeepsProcess ==
    /\ main = "init"
    /\ \/ /\ proc[cur] = "live"
          /\ \E events \in Capabilities(cur) : capability' = [capability EXCEPT ![cur] = events]
          /\ Goto("healthy")
       \/ /\ proc[cur] # "live" \/ "plugin" \in Faults
          /\ Goto("undo")
          /\ UNCHANGED capability
    /\ UNCHANGED <<proc, cmd, client, running, healthy, socket, rowEnabled, regVars, bridgeVars>>

\* MUTANT: the Init call has no deadline.
InitCallWaits ==
    /\ main = "init"
    /\ proc[cur] = "live"
    /\ \E events \in Capabilities(cur) : capability' = [capability EXCEPT ![cur] = events]
    /\ Goto("healthy")
    /\ UNCHANGED <<proc, cmd, client, running, healthy, socket, rowEnabled, regVars, bridgeVars>>

\* The Init call, with a deadline.
InitCall ==
    /\ main = "init"
    /\ \/ /\ proc[cur] = "live"
          /\ \E events \in Capabilities(cur) : capability' = [capability EXCEPT ![cur] = events]
          /\ Goto("healthy")
       \/ /\ proc[cur] # "live" \/ "plugin" \in Faults
          /\ Goto("kill")
          /\ UNCHANGED capability
    /\ UNCHANGED <<proc, cmd, client, running, healthy, socket, rowEnabled, regVars, bridgeVars>>

\* The last assignment of Start, whatever became of the process meanwhile.
SetHealthy ==
    /\ main = "healthy"
    /\ healthy' = [healthy EXCEPT ![cur] = TRUE]
    /\ main' = "routes" /\ started' = started \cup {cur}
    /\ UNCHANGED <<cur, todo, proc, cmd, client, running, socket, capability,
                   rowEnabled, regVars, bridgeVars>>

\* Proxy.Register of every allowed route; there is no handler if HostOptions has
\* none or the plugin did not announce the route.
RegisterRoutes ==
    /\ main = "routes"
    /\ \/ /\ cur \in Routed => cur \in Handlers
          /\ routes' = IF cur \in Routed THEN routes \cup {cur} ELSE routes
          /\ main' = "next" /\ todo' = todo \ {cur} /\ UNCHANGED <<cur, started>>
       \/ cur \in Routed /\ UNCHANGED routes /\ Goto("undo")
    /\ UNCHANGED <<rowEnabled, hosts, enabled, failures, hostVars, bridgeVars>>

\* bridge: one goroutine per allowed event type of each enabled plugin.
Bridge ==
    /\ main = "next"
    /\ todo = {}
    /\ bus' = "subscribed"
    /\ gpc' = [s \in Subs |-> IF s[1] \in hosts THEN "select" ELSE "off"]
    /\ Goto("up")
    /\ UNCHANGED <<queue, rowEnabled, regVars, hostVars>>

\* rollbackStarted.
Rollback ==
    /\ main = "undo"
    /\ \/ /\ started = {} /\ Goto("failed")
       \/ \E i \in Plugins : /\ IsFirst(i, started) /\ cur' = i
                             /\ main' = "kill" /\ UNCHANGED <<todo, started>>
    /\ UNCHANGED <<rowEnabled, regVars, hostVars, bridgeVars>>

-----------------------------------------------------------------------------
(* Host.Stop, and StopAll.                                                   *)

\* The process is killed, and its listener closed unless cleanupAfterExit has taken it.
Kill ==
    /\ main = "kill"
    /\ proc' = [proc EXCEPT ![cur] = IF @ = "live" THEN "exited" ELSE @]
    /\ socket' = [socket EXCEPT ![cur] = @ /\ proc[cur] \notin {"live", "exited"}]
    /\ Goto("reap")
    /\ UNCHANGED <<cmd, client, running, healthy, capability, rowEnabled, regVars, bridgeVars>>

\* Stop waits for waitDone, a second at most.
Reap ==
    /\ main = "reap"
    /\ proc[cur] \in {"closed", "reaped"} \/ "slow" \in Faults
    /\ Goto("clear")
    /\ UNCHANGED <<rowEnabled, regVars, hostVars, bridgeVars>>

\* Stop forgets the process; rollbackStarted also unregisters the routes.
Clear ==
    /\ main = "clear"
    /\ socket' = [socket EXCEPT ![cur] = FALSE]
    /\ running' = [running EXCEPT ![cur] = FALSE]
    /\ healthy' = [healthy EXCEPT ![cur] = FALSE]
    /\ client' = [client EXCEPT ![cur] = FALSE]
    /\ cmd' = [cmd EXCEPT ![cur] = FALSE]
    /\ IF bus = "cancelled"
         THEN main' = "stopnext" /\ todo' = todo \ {cur} /\ UNCHANGED <<started, routes>>
         ELSE main' = "undo" /\ started' = started \ {cur} /\ routes' = routes \ {cur} /\ UNCHANGED todo
    /\ UNCHANGED <<cur, proc, capability, rowEnabled, hosts, enabled, failures, bridgeVars>>

\* The daemon is told to end: StopAll cancels the subscriptions.
StopAll ==
    /\ main = "up"
    /\ bus' = "cancelled"
    /\ Goto("drain")
    /\ UNCHANGED <<queue, gpc, rowEnabled, regVars, hostVars>>

\* MUTANT: StopAll does not wait for the bridge goroutines.
DrainAtOnce ==
    /\ main = "drain"
    /\ main' = "stopnext" /\ todo' = hosts
    /\ UNCHANGED <<cur, started, rowEnabled, regVars, hostVars, bridgeVars>>

\* bridgeWG.Wait and dispatchWG.Wait.
Drain ==
    /\ main = "drain"
    /\ \A s \in Subs : gpc[s] \in {"off", "done"}
    /\ main' = "stopnext" /\ todo' = hosts
    /\ UNCHANGED <<cur, started, rowEnabled, regVars, hostVars, bridgeVars>>

\* The hosts in the order the map gives them, then their routes.
StopNext ==
    /\ main = "stopnext"
    /\ \/ \E i \in todo : cur' = i /\ main' = "kill" /\ UNCHANGED <<todo, started, routes>>
       \/ todo = {} /\ routes' = routes \ hosts /\ Goto("stopped")
    /\ UNCHANGED <<rowEnabled, hosts, enabled, failures, hostVars, bridgeVars>>

-----------------------------------------------------------------------------
(* The plugin process and waitProcess.                                       *)

PluginExits(i) ==
    /\ "plugin" \in Faults
    /\ proc[i] = "live"
    /\ proc' = [proc EXCEPT ![i] = "exited"]
    /\ UNCHANGED <<cmd, client, running, healthy, socket, capability,
                   rowEnabled, regVars, mainVars, bridgeVars>>

\* cleanupAfterExit, unless Stop has forgotten the process already.
WaitCleanup(i) ==
    /\ proc[i] = "exited"
    /\ proc' = [proc EXCEPT ![i] = IF cmd[i] THEN "cleaning" ELSE "closed"]
    /\ healthy' = [healthy EXCEPT ![i] = @ /\ ~cmd[i]]
    /\ client' = [client EXCEPT ![i] = @ /\ ~cmd[i]]
    /\ UNCHANGED <<cmd, running, socket, capability, rowEnabled, regVars, mainVars, bridgeVars>>

\* The socket file is removed outside the lock, then waitDone is closed.
WaitClose(i) ==
    /\ proc[i] = "cleaning"
    /\ proc' = [proc EXCEPT ![i] = "closed"]
    /\ socket' = [socket EXCEPT ![i] = FALSE]
    /\ UNCHANGED <<cmd, client, running, healthy, capability, rowEnabled, regVars, mainVars, bridgeVars>>

WaitEnd(i) ==
    /\ proc[i] = "closed"
    /\ proc' = [proc EXCEPT ![i] = "reaped"]
    /\ running' = [running EXCEPT ![i] = @ /\ ~cmd[i]]
    /\ UNCHANGED <<cmd, client, healthy, socket, capability, rowEnabled, regVars, mainVars, bridgeVars>>

-----------------------------------------------------------------------------
(* Events: EventBus.Publish, the bridge goroutines and DispatchEvent.        *)

\* A full channel drops the event.
Publish(ty) ==
    /\ bus = "subscribed"
    /\ queue' = [s \in Subs |-> IF s[2] = ty /\ s[1] \in hosts /\ queue[s] < MaxQueue
                                  THEN queue[s] + 1 ELSE queue[s]]
    /\ UNCHANGED <<bus, gpc, rowEnabled, regVars, mainVars, hostVars>>

BridgeDone(s) ==
    /\ gpc[s] = "select"
    /\ bus = "cancelled"
    /\ gpc' = [gpc EXCEPT ![s] = "done"]
    /\ UNCHANGED <<bus, queue, rowEnabled, regVars, mainVars, hostVars>>

\* An event is received, also after the cancellation; a disabled plugin gets none.
BridgeTake(s) ==
    /\ gpc[s] = "select"
    /\ queue[s] > 0
    /\ queue' = [queue EXCEPT ![s] = @ - 1]
    /\ gpc' = [gpc EXCEPT ![s] = IF enabled[s[1]] THEN "enter" ELSE "select"]
    /\ UNCHANGED <<bus, rowEnabled, regVars, mainVars, hostVars>>

\* MUTANT: an event for an unhealthy plugin is dropped and not counted as a failure.
HandleEnterDrops(s) ==
    /\ gpc[s] = "enter"
    /\ gpc' = [gpc EXCEPT ![s] = IF client[s[1]] /\ healthy[s[1]] /\ s[2] \in capability[s[1]]
                                   THEN "call" ELSE "select"]
    /\ UNCHANGED <<bus, queue, rowEnabled, regVars, mainVars, hostVars>>

\* Host.handleEvent refuses when the plugin is unhealthy or did not announce the event.
HandleEnter(s) ==
    /\ gpc[s] = "enter"
    /\ gpc' = [gpc EXCEPT ![s] = IF client[s[1]] /\ healthy[s[1]] /\ s[2] \in capability[s[1]]
                                   THEN "call" ELSE "fail"]
    /\ UNCHANGED <<bus, queue, rowEnabled, regVars, mainVars, hostVars>>

\* MUTANT: the call has no deadline: it comes back only with an answer.
HandleCallNoDeadline(s) ==
    /\ gpc[s] = "call"
    /\ proc[s[1]] = "live"
    /\ gpc' = [gpc EXCEPT ![s] = "ok"]
    /\ UNCHANGED <<healthy, bus, queue, proc, cmd, client, running, socket, capability,
                   rowEnabled, regVars, mainVars>>

\* The HandleEvent call; an error or a timeout marks the plugin unhealthy.
HandleCall(s) ==
    /\ gpc[s] = "call"
    /\ \/ /\ proc[s[1]] = "live"
          /\ gpc' = [gpc EXCEPT ![s] = "ok"]
          /\ UNCHANGED healthy
       \/ /\ proc[s[1]] # "live" \/ "plugin" \in Faults
          /\ gpc' = [gpc EXCEPT ![s] = "fail"]
          /\ healthy' = [healthy EXCEPT ![s[1]] = FALSE]
    /\ UNCHANGED <<bus, queue, proc, cmd, client, running, socket, capability, rowEnabled, regVars, mainVars>>

DispatchOk(s) ==
    /\ gpc[s] = "ok"
    /\ failures' = [failures EXCEPT ![s[1]] = 0]
    /\ gpc' = [gpc EXCEPT ![s] = "select"]
    /\ UNCHANGED <<bus, queue, rowEnabled, hosts, enabled, routes, mainVars, hostVars>>

\* Three failures in a row disable the plugin.
DispatchFail(s) ==
    /\ gpc[s] = "fail"
    /\ failures' = [failures EXCEPT ![s[1]] = @ + 1]
    /\ enabled' = [enabled EXCEPT ![s[1]] = @ /\ failures[s[1]] + 1 < 3]
    /\ gpc' = [gpc EXCEPT ![s] = IF failures[s[1]] + 1 >= 3 THEN "disable" ELSE "select"]
    /\ UNCHANGED <<bus, queue, rowEnabled, hosts, routes, mainVars, hostVars>>

\* SetPluginEnabled; a failure is ignored.
SetPluginEnabled(s) ==
    /\ gpc[s] = "disable"
    /\ rowEnabled' = [rowEnabled EXCEPT ![s[1]] = FALSE] \/ ("db" \in Faults /\ UNCHANGED rowEnabled)
    /\ gpc' = [gpc EXCEPT ![s] = "select"]
    /\ UNCHANGED <<bus, queue, regVars, mainVars, hostVars>>

-----------------------------------------------------------------------------
\* The daemon has ended, or dies; systemd kills its children and starts it again.
\* Socket files stay.
DaemonRestart ==
    /\ main \in {"failed", "stopped"} \/ "crash" \in Faults
    /\ hosts' = {} /\ routes' = {} /\ todo' = {} /\ started' = {}
    /\ enabled' = [i \in Plugins |-> FALSE]
    /\ failures' = [i \in Plugins |-> 0]
    /\ main' = "boot"
    /\ proc' = [i \in Plugins |-> "none"]
    /\ cmd' = [i \in Plugins |-> FALSE] /\ client' = [i \in Plugins |-> FALSE]
    /\ running' = [i \in Plugins |-> FALSE] /\ healthy' = [i \in Plugins |-> FALSE]
    /\ capability' = [i \in Plugins |-> {}]
    /\ bus' = "none" /\ queue' = [s \in Subs |-> 0] /\ gpc' = [s \in Subs |-> "off"]
    /\ UNCHANGED <<rowEnabled, cur, socket>>

PluginInit ==
    /\ rowEnabled = [i \in Plugins |-> TRUE]
    /\ hosts = {} /\ routes = {} /\ todo = {} /\ started = {}
    /\ enabled = [i \in Plugins |-> FALSE]
    /\ failures = [i \in Plugins |-> 0]
    /\ main = "boot" /\ cur \in Plugins
    /\ proc = [i \in Plugins |-> "none"]
    /\ cmd = [i \in Plugins |-> FALSE] /\ client = [i \in Plugins |-> FALSE]
    /\ running = [i \in Plugins |-> FALSE] /\ healthy = [i \in Plugins |-> FALSE]
    /\ socket = [i \in Plugins |-> FALSE] /\ capability = [i \in Plugins |-> {}]
    /\ bus = "none" /\ queue = [s \in Subs |-> 0] /\ gpc = [s \in Subs |-> "off"]

\* StartAll and StopAll run to their end, but for the call that waits for a plugin to
\* serve; when StopAll is called is not theirs to say.
MainStep ==
    \/ LoadEnabled \/ StartNext \/ Spawn \/ WaitForSocket \/ SetClient \/ InitCall
    \/ SetHealthy \/ RegisterRoutes \/ Bridge \/ Rollback
    \/ Kill \/ Reap \/ Clear \/ Drain \/ StopNext

WaitStep(i) == WaitCleanup(i) \/ WaitClose(i) \/ WaitEnd(i)

BridgeStep(s) ==
    \/ BridgeDone(s) \/ BridgeTake(s) \/ HandleEnter(s) \/ HandleCall(s)
    \/ DispatchOk(s) \/ DispatchFail(s) \/ SetPluginEnabled(s)

PluginNext ==
    \/ MainStep \/ Dial \/ StopAll \/ DaemonRestart
    \/ \E i \in Plugins : PluginExits(i) \/ WaitStep(i)
    \/ \E ty \in Types : Publish(ty)
    \/ \E s \in Subs : BridgeStep(s)

PluginSpec == PluginInit /\ [][PluginNext]_pluginVars

\* Goroutines run; calls with a deadline return.  Nothing is assumed of Dial.
PluginFairSpec ==
    /\ PluginSpec
    /\ WF_pluginVars(MainStep)
    /\ \A i \in Plugins : WF_pluginVars(WaitStep(i))
    /\ \A s \in Subs : WF_pluginVars(BridgeStep(s))

-----------------------------------------------------------------------------
(* Properties.                                                               *)

\* Type invariant of the registry, the hosts and the goroutines.
PluginTypeOK ==
    /\ rowEnabled \in [Plugins -> BOOLEAN]
    /\ hosts \in SUBSET Plugins /\ routes \in SUBSET Plugins
    /\ enabled \in [Plugins -> BOOLEAN] /\ failures \in [Plugins -> Nat]
    /\ main \in {"boot", "next", "undo", "up", "drain", "stopnext", "failed", "stopped"}
                  \cup StartPcs \cup StopPcs
    /\ cur \in Plugins /\ todo \in SUBSET Plugins /\ started \in SUBSET Plugins
    /\ proc \in [Plugins -> {"none", "live", "exited", "cleaning", "closed", "reaped"}]
    /\ cmd \in [Plugins -> BOOLEAN] /\ client \in [Plugins -> BOOLEAN]
    /\ running \in [Plugins -> BOOLEAN] /\ healthy \in [Plugins -> BOOLEAN]
    /\ socket \in [Plugins -> BOOLEAN] /\ capability \in [Plugins -> SUBSET Types]
    /\ bus \in {"none", "subscribed", "cancelled"}
    /\ queue \in [Subs -> 0..MaxQueue]
    /\ gpc \in [Subs -> {"off", "select", "enter", "call", "ok", "fail", "disable", "done"}]

\* When StartAll has given up or StopAll is through, nothing of any plugin is left:
\* no process, no connection, no socket file, no route, whichever step failed and
\* however late the goroutine that waits for the process is.
CleanShutdown ==
    main \in {"failed", "stopped"} =>
        /\ routes = {}
        /\ \A i \in Plugins : /\ proc[i] # "live" /\ ~client[i] /\ ~healthy[i] /\ ~running[i]
                              /\ proc[i] # "none" => ~socket[i]

\* StopAll takes no plugin away from a bridge goroutine that is handing it an event.
StopQuiesces ==
    bus = "cancelled" /\ main \in StopPcs \cup {"stopnext", "stopped"}
      => \A s \in Subs : gpc[s] \in {"off", "done"}

\* A plugin that has become unhealthy and to which events keep being addressed is
\* disabled in the end: the goroutines that count its failures, and a call that
\* succeeds late and sets the count back, cannot keep it forever enabled.
SickPluginDisabled ==
    \A i \in Plugins :
        []<><<\E s \in Subs : s[1] = i /\ BridgeTake(s)>>_pluginVars
          => []<>(healthy[i] \/ ~enabled[i] \/ main # "up")

\* Once told to end, the daemon gets through StopAll, whatever its plugins do, unless it
\* is killed and starts again.
StopCompletes == main = "drain" ~> main \in {"stopped", "boot"}

\* StartAll comes to an end, with every plugin running or none, or waits in grpc.Dial
\* for a plugin that does not serve: the only step of Host.Start without a deadline.
StartEnds ==
    main \in {"next"} \cup (StartPcs \ {"dial"}) ~> main \in {"up", "failed", "boot", "dial"}

=============================================================================
