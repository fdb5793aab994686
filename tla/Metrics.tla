------------------------------- MODULE Metrics -------------------------------
(***************************************************************************)
(* Metrics and health of the daemon: internal/observability (metrics.go,   *)
(* runtime_provider.go, scheduler.go, health.go), the statistics of        *)
(* internal/runtime/docker/stats.go and the health call of                 *)
(* internal/api/observability.go, as cmd/oikos/daemon.go wires them.       *)
(*                                                                         *)
(* One goroutine refreshes the snapshot, first the daemon's own and then   *)
(* the scheduler's: it lists the servers, asks Docker about each container *)
(* in turn, lists the tunnels and stores all of it under the lock, while    *)
(* servers, containers and tunnels come and go.  A server's figures are     *)
(* reduced to whether they were measured.                                   *)
(***************************************************************************)
EXTENDS Naturals, FiniteSets

CONSTANTS Monitored,   \* servers
          MaxChanges   \* bound: changes of servers, containers and tunnels, and failing calls

ASSUME MetricsAssumption == MaxChanges \in Nat

VARIABLES
    rows,     \* the table servers: by id, no row, or whether it names a container
    engine,   \* servers whose container exists
    tunnels,  \* servers with a row in the table tunnels
    changes,  \* changes and failures so far
    sched,    \* next step of the refreshing goroutine
    pass,     \* its Snapshot: rows listed, rows still to measure, figures taken
    snap,     \* Metrics.servers and Metrics.tunnels
    origin,   \* history: what ListServers gave the pass that was stored
    report,   \* the last health report
    done,     \* the daemon's context is cancelled
    open      \* the database is open

metricsVars == <<rows, engine, tunnels, changes, sched, pass, snap, origin, report, done, open>>
world == <<rows, engine, tunnels>>

RowStates == {"none", "bare", "container"}
Listing == {s \in Monitored : rows[s] # "none"}
NoPass == [listed |-> [s \in {} |-> "none"], todo |-> {}, got |-> [s \in {} |-> FALSE]]

\* A change or a failure, of which there are finitely many.
Change == changes < MaxChanges /\ changes' = changes + 1

-----------------------------------------------------------------------------
(* What the metrics are about.                                             *)

\* Lifecycle creates and deletes servers and their containers; a container may
\* also be removed behind its back.
ServerChanges(s) ==
    /\ Change
    /\ \/ rows[s] = "none" /\ rows' = [rows EXCEPT ![s] = "bare"] /\ UNCHANGED engine
       \/ /\ rows[s] = "bare"
          /\ rows' = [rows EXCEPT ![s] = "container"] /\ engine' = engine \cup {s}
       \/ rows[s] # "none" /\ rows' = [rows EXCEPT ![s] = "none"] /\ engine' = engine \ {s}
       \/ s \in engine /\ engine' = engine \ {s} /\ UNCHANGED rows
    /\ UNCHANGED <<tunnels, sched, pass, snap, origin, report, done, open>>

TunnelChanges(s) ==
    /\ Change
    /\ tunnels' = IF s \in tunnels THEN tunnels \ {s} ELSE tunnels \cup {s}
    /\ UNCHANGED <<rows, engine, sched, pass, snap, origin, report, done, open>>

-----------------------------------------------------------------------------
(* Refresh.                                                                *)

\* MUTANT: a refresh that fails ends the scheduler.
RefreshFailsForGood ==
    /\ sched' = "off" /\ pass' = NoPass
    /\ UNCHANGED <<world, snap, origin, report, done, open>>

\* An error of Snapshot leaves the last snapshot; the scheduler goes on.
RefreshFails ==
    /\ sched' = "select" /\ pass' = NoPass
    /\ UNCHANGED <<world, snap, origin, report, done, open>>

\* A statement fails, or finds the database closed.
StatementFails == IF open THEN Change ELSE UNCHANGED changes

ListServers ==
    /\ sched = "list"
    /\ \/ /\ open
          /\ pass' = [listed |-> [s \in Listing |-> rows[s]], todo |-> Listing,
                      got |-> [s \in {} |-> FALSE]]
          /\ sched' = "stats"
          /\ UNCHANGED <<world, changes, snap, origin, report, done, open>>
       \/ StatementFails /\ RefreshFails

\* MUTANT: a server whose container does not answer is left out.
StatsSkips(s) ==
    /\ sched = "stats" /\ s \in pass.todo
    /\ pass' = [pass EXCEPT !.todo = @ \ {s},
                            !.got = IF pass.listed[s] = "container" /\ s \notin engine THEN @
                                    ELSE [t \in DOMAIN @ \cup {s} |-> pass.listed[t] = "container"]]
    /\ UNCHANGED <<world, changes, sched, snap, origin, report, done, open>>

\* The figures of one server; Docker is asked if the row, as it was listed,
\* names a container.  One error ends the pass.
Stats(s) ==
    /\ sched = "stats" /\ s \in pass.todo
    /\ \/ /\ pass.listed[s] = "container" => s \in engine
          /\ pass' = [pass EXCEPT !.todo = @ \ {s},
                          !.got = [t \in DOMAIN @ \cup {s} |-> pass.listed[t] = "container"]]
          /\ UNCHANGED <<world, changes, sched, snap, origin, report, done, open>>
       \/ /\ pass.listed[s] = "container"
          /\ IF s \in engine /\ ~done THEN Change ELSE UNCHANGED changes
          /\ RefreshFails

\* ListTunnelsForMetrics, and the assignment under the lock: nobody sees the
\* step between.
StoreSnapshot ==
    /\ sched = "stats" /\ pass.todo = {}
    /\ \/ /\ open
          /\ snap' = [servers |-> pass.got, tunnels |-> tunnels]
          /\ origin' = pass.listed
          /\ sched' = "select" /\ pass' = NoPass
          /\ UNCHANGED <<world, changes, report, done, open>>
       \/ StatementFails /\ RefreshFails

-----------------------------------------------------------------------------
(* Scheduler.Run, and Check.                                               *)

MetricsTick ==
    /\ sched = "select"
    /\ sched' = "list"
    /\ UNCHANGED <<world, changes, pass, snap, origin, report, done, open>>

Probes == {"docker", "panel", "sqlite"}

\* One failure among three probes is forgiven if it is the Panel's.
Verdict(probes, failed) ==
    CASE Cardinality(failed) = 0 -> "healthy"
      [] Cardinality(failed) = 1 /\ Cardinality(probes) = 3 /\ "panel" \in failed -> "degraded"
      [] OTHER -> "unhealthy"

\* Docker may fail to answer; the Panel's probe of the daemon always succeeds.
Check ==
    \E docker \in SUBSET {"docker"} :
        LET failed == docker \cup (IF open THEN {} ELSE {"sqlite"})
        IN  /\ report' = [failed |-> failed, status |-> Verdict(Probes, failed)]
            /\ UNCHANGED <<world, changes, sched, pass, snap, origin, done, open>>

HealthTick == sched = "select" /\ Check

\* GET /healthz and GetHealthStatus, beside whatever the scheduler is doing.
HealthHandler == Check

SchedulerDone ==
    /\ sched = "select" /\ done
    /\ sched' = "off"
    /\ UNCHANGED <<world, changes, pass, snap, origin, report, done, open>>

\* A signal; runDaemon returns and closes the database, perhaps during a pass.
Signal ==
    /\ ~done /\ done' = TRUE
    /\ UNCHANGED <<world, changes, sched, pass, snap, origin, report, open>>

CloseDatabase ==
    /\ done /\ open /\ open' = FALSE
    /\ UNCHANGED <<world, changes, sched, pass, snap, origin, report, done>>

MetricsInit ==
    /\ rows = [s \in Monitored |-> "none"] /\ engine = {} /\ tunnels = {} /\ changes = 0
    /\ sched = "list" /\ pass = NoPass
    /\ snap = [servers |-> [s \in {} |-> FALSE], tunnels |-> {}]
    /\ origin = [s \in {} |-> "none"]
    /\ report = [failed |-> {}, status |-> "healthy"]
    /\ done = FALSE /\ open = TRUE

RefreshStep == ListServers \/ StoreSnapshot \/ \E s \in Monitored : Stats(s)

MetricsNext ==
    \/ \E s \in Monitored : ServerChanges(s) \/ TunnelChanges(s)
    \/ RefreshStep \/ MetricsTick \/ HealthTick \/ HealthHandler \/ SchedulerDone
    \/ Signal \/ CloseDatabase

-----------------------------------------------------------------------------
(* Properties.                                                             *)

\* Type invariant of tables, pass, snapshot and report.
MetricsTypeOK ==
    /\ rows \in [Monitored -> RowStates] /\ engine \subseteq Monitored
    /\ tunnels \subseteq Monitored /\ changes \in 0..MaxChanges
    /\ sched \in {"list", "stats", "select", "off"}
    /\ DOMAIN pass.listed \subseteq Monitored /\ pass.todo \subseteq DOMAIN pass.listed
    /\ DOMAIN pass.got \subseteq DOMAIN pass.listed \ pass.todo
    /\ sched # "stats" => pass = NoPass
    /\ snap.tunnels \subseteq Monitored
    /\ report.failed \subseteq Probes /\ report.status \in {"healthy", "degraded", "unhealthy"}
    /\ done \in BOOLEAN /\ open \in BOOLEAN

\* The snapshot is always that of one whole pass: every server the pass listed
\* is in it, measured if it had a container, however passes fail half-way and
\* containers disappear between the list and their turn.
WholeSnapshot ==
    /\ DOMAIN snap.servers = DOMAIN origin
    /\ \A s \in DOMAIN origin : snap.servers[s] = (origin[s] = "container")

\* What the snapshot ought to be.
Current == /\ DOMAIN snap.servers = Listing
           /\ \A s \in Listing : snap.servers[s] = (rows[s] = "container")
           /\ snap.tunnels = tunnels

\* When changes and failures have come to rest the snapshot catches up with
\* them, whatever passes failed before; a row that names a container Docker does
\* not have keeps it from doing so, for all servers.
CatchesUp ==
    <>[](\/ done
         \/ \E s \in Monitored : rows[s] = "container" /\ s \notin engine
         \/ Current)

=============================================================================
