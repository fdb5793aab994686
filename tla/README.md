# A TLA+ development of oikos

oikos is a node daemon for game servers: it runs each server in a container,
keeps a row for it in SQLite, exposes its ports through an frpc child process,
executes the commands of a remote Panel, restarts crashed servers, backs up
their data, hosts plugins as subprocesses and updates its own binary. This
directory models the parts of it that keep state over several steps, checks
them with TLC on small instances, and proves their main safety properties with
TLAPS for every size.

`PROJECT.json` has the machine-readable index: which lines each definition
models, every run, one mutant per property, the hazards and the findings.

    tlc -workers 2 -config ServerLifecycle.cfg MCServerLifecycle
    tlapm SelfHealingProofs.tla

## 1. Inventory

| Component (package) | State it keeps | Operations | What is hard |
|---|---|---|---|
| Server lifecycle (`orchestrator/lifecycle.go`) | `servers` rows, containers, the in-memory map of manual stops | Create, Start, Stop, Restart, Delete | no per-server lock; container and row change in separate steps; each can fail; `oikos server ...` is a second process with a map of its own |
| Container runtime (`runtime/docker`) | containers named `oikos-<id>` | Create, Start, Stop, Restart, Remove, Inspect | names are unique; a container exits by itself |
| Crash observer, self-healing (`orchestrator/crash_observer.go`, `selfheal.go`) | last sample per server, a buffered channel, one goroutine per crash, `restart_count` | sample, publish, check, back off, restart, count | samples race commands; check and count are far apart; decisions are old when carried out |
| Event bus, recorder (`eventbus.go`, `eventrecorder.go`, `store`) | subscriber channels, an id counter, `events` rows | Publish, SaveEvent, ListEvents, PruneEvents | full channels drop; ids restart with the process; rows vanish with their server |
| Update slots (`update/`) | `<root>/<version>` files, `state.json`, two symlinks | Apply, Rollback | several files that should change as one; kills between them; processes without a lock |
| Backup and restore (`backup/`) | `backups` rows, archives, staging and previous directories | Create, Restore, Delete | directories written meanwhile; two renames; partial failures; overlapping calls |
| File manager, SFTP (`filesystem/`, `api/filesystem.go`) | files of a server, temporary files beside them | List, Upload, Download, Copy, Delete, Rename, CreateDir, SFTP writes | Upload joins two goroutines with a pipe; files are replaced while they are read; directories move under an upload |
| FRP tunnels (`tunnel/frp.go`, `process.go`, `allocator.go`) | mappings in memory, `tunnels` rows, the Panel's allocations, `frpc.toml`, the child | RegisterPort, ReleasePort, ReleaseServer, Reload, Watch, Close | four copies of one set; an exit channel that is read and replaced without a lock |
| Mesh, relay (`tunnel/mesh.go`, `selfheal.go`) | `network_groups`, `network_group_members` | Assign, Members, Release | two statements without a lock; nothing wires it |
| Plugins (`plugin/`) | hosts, failure counters, routes, a process, socket and connection each | LoadEnabled, StartAll, DispatchEvent, HealthCheckAll, StopAll | three kinds of goroutine; rollback half-way; a process that exits at any time |
| Agent session (`agent/`) | the connection, two goroutines per session, `errCh`, the local API | Run, runOnce, heartbeat, stream, dispatch | the goroutine left behind; shutdown at any point |
| Node setup (`agent/pairing.go`, `cmd/oikos`, migrations in `store/`) | key, certificate, `config.yaml`, node row, schema | install, server, health check, diagnose, doctor, start of the daemon | six steps, one of them remote and not repeatable; processes that migrate side by side |
| Observability (`observability/`) | the last snapshot, two tickers | Refresh, Check | a pass of many calls beside changes; one failure discards it |
| Resource limits (`resource/`) | `resource_limits` rows, the container's limits, its cgroup files | SetResourceLimits, ApplyLimits | three copies, written at different times by callers that overlap |
| Eggs, security, platform | little or none | | pure functions and output |

How they interact:

* A local gRPC call, a Panel command (one stream goroutine per session), a
  self-healing goroutine and an `oikos server` process are all callers of the
  same Lifecycle methods, and share the database and Docker.
* Lifecycle methods publish events; Publish never blocks. Recorder, self-healer
  and plugin bridges each own a buffered channel.
* CreateServer registers the egg's ports with the FrpManager, which calls the
  Panel; DeleteServer releases them. The command line has no FrpManager.
* runDaemon dials the Panel, opens the database, starts plugins, recorder and
  API, and then stays in agent.Run until a signal; on its way out it closes the
  tunnel, and StopAll ends the plugins.

What makes each one correct is listed with its module in section 3.

At this commit the daemon constructs neither crash observer, self-healer,
backup manager, SFTP server, network manager nor the pruning of events; these
parts are reachable only through their packages. Self-healing, backups, SFTP's
commands and network groups are modelled as their documents describe their use,
because their logic is among the hardest in the repository. `Rollback` and
`ReleasePort` likewise have no caller outside their package.

## 2. Plan

Done, in this order: ServerLifecycle; SelfHealing, which extends it;
UpdateSlots with its abstraction SlotPair; BackupRestore; FrpTunnel;
PluginRegistry; AgentSession; EventHistory; proofs for the first seven; then
FileService (the upload pipe), NodeSetup (pairing, migrations and the commands
around them), Metrics, ResourceLimits and NetworkGroups; then proofs for these, and
what was missing for the first seven. MCDaemonParts puts EventHistory, Metrics,
ResourceLimits and NetworkGroups, each too small for an instance of its own, into
one. Every invariant, action property and refinement that a run checks is proved by
now; the liveness properties are not, and cannot be with these provers.

Left, proofs: what two updaters that overlap still guarantee (a slot is never half a
release); bounds that `PublishedWhole` leaves open, such as how many temporary files
a server's directories can hold.

Left, models: `TunnelSelfHealer` beside FrpTunnel; the pure algorithms against
reference definitions: `VersionsToRemove` (string order against version order),
`NextBackoff`, and `ComputeBackoff` with its 64-bit shift, whose nanoseconds wrap
for large attempt numbers. None of these has a caller at this commit.

## 3. Modules

Every module keeps the code's steps: whatever another actor, a fault or a crash
can come between is an action of its own; what runs under one lock or is one
statement is one action. Failures are switched on by the constant `Faults`, so
that a proof covers all of them and a run may choose. *History variables* record
facts the code does not (a call overlapped another, a pair of changes was cut in
half); they appear in properties only, and no guard reads them. Definitions
marked `MUTANT` are wrong variants used to show that the properties can fail.

### ServerLifecycle

`rowStatus`, `rowCid` are the `servers` row, `ctrState`, `ctrOwner` the
runtime's containers, `manualStops` the daemon's map; `pc`, `srv`, `cid` are
the locals of each caller. Create, Start, Stop, Restart and Delete are one
action per statement (`StartGet`, `StartCreate`, `StartSave`, `StartRun`,
`StartStatus`, `StartLimits`, ...), each with its error return. An UPDATE of a
missing row changes nothing and reports nothing. `ContainerExits`, `DaemonCrash`
and `CliKilled` are the environment. Egg, ports and resource limits are
reduced to whether their step fails.

* `UndisturbedAgree`: with all methods returned and none overlapped or cut, row
  and runtime say the same.
* `OwnContainersOnly`: no interleaving mixes up the containers of servers.

### SelfHealing (extends ServerLifecycle)

The observer lists, samples, compares and publishes in separate steps; `crashQ`
is the healer's channel; each `handle()` goroutine is a caller of RestartServer.
The backoff is a delay of any length.

* `LifeSpec`: refinement; to rows and containers the composition does nothing
  the lifecycle alone could not do.
* `RestartsBounded`: the retry limit is overshot by handlers in flight only.
* `NoStaleMark`: a manual-stop mark does not survive into a later run.
* `CrashHandled`, `HealingStops` (in MCSelfHealingLive, which adds a record of the
  crashes that got lost): a crash is dealt with unless its event meets a full channel,
  its handler fails or a later stop explains it, and not for ever.

### UpdateSlots, SlotPair

Slots, `state.json`, the two links, and per process the step of Apply or
Rollback, with the undo after a failed projection and the second health check.
`SlotPair` is what an update promises: one pair (current, previous) that changes
in one step and can be taken back as a whole.

* `ActiveSlotsIntact`: the versions the manifest names are on disk and healthy.
* `LinksFollowManifest`: at rest the links repeat the manifest.
  A kill or a failed undo between manifest and links leaves them apart; the next switch
  brings them together again.
* `AtomicPair`: UpdateSlots implements SlotPair with `pair` what loadState returns, which
  is the manifest's pair. It says nothing of the links.

### BackupRestore

A directory is a function from files to contents, an archive the directory read
file by file while it may be written, a checksum the archive itself. Contents in
`Special` stand for a FIFO or a device, which Create archives and extract refuses;
`Checked` says whether the manager was given a StatusProvider. Restore is
status check, row, checksum, clearing and extracting the staging directory,
moving the data aside, moving the replacement in, and undoing this.

* `CompletedHasArchive`: a completed backup has its archive until it is deleted.
* `StagingIsArchive`: what is moved into place is what the row vouches for.
* `SafetyNet`: data moved aside, also by a restore that was cut off or could not be
  undone, leaves the disk only when it is put back, when its replacement is in place, or
  when a later restore gives it up with the whole backup extracted beside it.

### FrpTunnel

One operation at a time holds the manager's lock; the Panel's allocations, the
rows, the mappings in memory, `frpc.toml` and what the live child serves are
five sets. `pwait` is the child's exit channel, with the outcomes of its
unguarded use; `Watch` runs beside. `Close` stops the child when agent.Run
returns. `fk` lets a row outlive its server, on a connection that does not
enforce foreign keys. CreateServer's rollback after a failed
registration is `RollbackCreate`; `DeleteServer` is `oikos server delete`, a process
without an FrpManager: both take the rows of the server's tunnels with it (ON DELETE
CASCADE) and leave mappings and Panel alone. `gone` (these servers), `cut` (mappings
whose two halves came apart) and `missed` (a release or rebuild failed since frpc was
started) are history. A call to the Panel that fails may have been carried out.

* `PanelAgrees`, `MappedHasRow`: of servers that exist, table and Panel have the same
  mappings except where a second half failed or an answer was lost, and mappings have rows.
* `ReloadTakesEffect`: a live frpc serves every mapping unless something failed since it
  was started, and after a successful operation that leaves two or more exactly these.

### PluginRegistry

The main goroutine (LoadEnabled, StartAll with rollback, StopAll), per plugin
the goroutine waiting for the process and its cleanup, per subscription a bridge
goroutine from taking an event to counting its result.

* `StopQuiesces`, `CleanShutdown`, `StopCompletes`: what StopAll and a rolled back
  StartAll leave behind, that they end, and who still receives events.
* `SickPluginDisabled`: an unhealthy plugin that keeps getting events is disabled in the
  end, although calls that succeed late set the counter back that its goroutines share.
* `StartEnds`: StartAll ends or waits in `grpc.Dial` for a plugin, dead or alive, that
  does not serve, which is the one step without a deadline.

### AgentSession

The main goroutine, per session a heartbeat and a stream goroutine, `errCh`
with its two places, the API's graceful stop, and a Panel that comes and goes. An API
call is worked on (`api`) or waits for its client in the middle of a stream (`held`).

* `CommandsOneByOne`: no two commands at once over reconnections.
* `ShutdownCompletes`: a signal ends Run; only a call held by its client can keep it, in
  the GracefulStop at its end, which has no deadline.
* `GoroutinesEnd`, `SessionRestored`: an ended session and a lost connection are got over.

### EventHistory

Publish into a bounded channel, the recorder's take and save, the id counter
that restarts with the process, the table, and the query by server, type and time with
its ORDER BY and LIMIT: all `CreatedAt` are equal, so any of the rows may be those within
the limit. `tunnel.disconnected` has no server.

* `RecordedOnce`: colliding ids never duplicate or reorder rows.
* `RowsStay`: a query for one server never fails and returns again what it has returned,
  as long as there are no more rows than its limit.

### FileService

`tree` maps paths, two levels deep, to directories and inodes; `data` the inodes
to sequences of chunks, each of which says whose it is and how many there were to
be. An upload is a handler (`call`) and a `manager.Write` (`wr`): the handler
receives (`UploadRecv`), offers a chunk to the pipe and waits for it to be taken;
Write checks and makes directories (`WriteStart`), creates the temporary file
(`WriteTemp`), copies (`CopyFromPipe`) and renames (`WriteRename`). A copy is a
Write that reads an open file, a download a read of one. Delete, Rename and
CreateDir are one action each; SFTP writes in place. All of them may name temporary
files, which List shows. A stream may end with a Last chunk, with EOF or with its client.
`raw` (files that SFTP wrote or that clients made out of temporary ones) and `lost`
(temporary names whose Write will not find its file there any more) are history.

* `PublishedWhole`: a file outside `raw` holds one whole upload within the limit.
* `AnswersTrue`: a download that ends well delivers one, and Upload's answer means
  that all of it was renamed into place.
* `TempsOwned`: temporary files belong to a Write that will remove them, except after a
  crash, the renaming of their directory, a client that goes or a failing removal.
* `CallsEnd`: calls come to their end or to a point where a connected client has to send
  or read, but for the two ways the pipe can hang.

### NodeSetup

A command is a program: the sequence of its statements, files and calls. `Step`
takes the next one, which succeeds, fails (`StatementFails`, or a disjunct of its
own) or is the last (`Killed`). `files` are key, certificate and configuration,
each perhaps torn; `nodes` and `schema` the database; `issued` what the Panel has
signed. The node is unpaired at first, with a database of any age, or has been paired by
an older oikos. An install with another --data-dir is a program of its own, of which only
what it does to the files all installs share is modelled. `overlapped` (two installs
between check and row, or one of another data directory past its check), `reset` (the
configuration rewritten or lost after pairing) and a row's `old` are history.

* `NodeHasIdentity`: a node row stands for a key pair the Panel of the row has signed.
* `PairedComplete`: an install that is through its migration, and a node it pairs, has the
  whole schema; a daemon, which migrates only the tunnels, has at each step what the steps
  before it read, whoever paired the node; config.yaml names no other Panel than the row.

### Metrics, ResourceLimits, NetworkGroups (together with EventHistory in MCDaemonParts)

Metrics: one pass of Refresh is a listing (`ListServers`), one `Stats` per container
and `StoreSnapshot`, beside changes of everything it reads; the scheduler's select,
the health check, a signal, the closing of the database.

* `WholeSnapshot`: the snapshot is that of one pass, every server of its listing in it.
* `CatchesUp`: when changes rest it becomes true, unless a row names a container Docker
  does not have: then it stays as it is for all servers.

ResourceLimits: a row (`row`), the limits the container was created with (`spec`) and its
cgroup's files (`cgroup`), with StartServer in six steps. `kept` is history: the
limits the last undisturbed StartServer has put in force.

* `LimitsEnforced`: a container runs under these limits until somebody restarts or
  stops it, changes the row, or begins to write other ones.

NetworkGroups: Assign's two statements, the second a transaction of a DELETE and one
INSERT each, Release, and what Members reads.

* `MembersOfOne`: the members are all those of one assignment that succeeded, less the
  nodes released since. (The name is saved first and may be another call's.)

## 4. Runs

Passing runs (distinct states, after symmetry where used):

| Run | Instance | States | Checks |
|---|---|---|---|
| `lifecycle` | 2 servers, 2 containers, a daemon and a CLI caller, all faults | 2.7 M | `UndisturbedAgree`, `OwnContainersOnly` |
| `healing` | 1 server, 2 containers, 1 command, 2 handlers, limit 1, channel 1, faults | 1.1 M | `RestartsBounded`, `NoStaleMark`, `LifeSpec` |
| `healing_live` | 2 running servers with a container each, 1 handler, channel 1, database faults, commands while one server is left | 0.3 M | `CrashHandled`, `HealingStops` |
| `update` | 4 versions, 1 process at a time, all faults | 44 k | `ActiveSlotsIntact`, `LinksFollowManifest`, `AtomicPair` |
| `backup` | 1 backup, 2 calls, 2 files, one kind of contents and a FIFO, no StatusProvider, all faults | 2.4 M | `CompletedHasArchive`, `StagingIsArchive`, `SafetyNet` |
| `tunnel` | 2 mappings of 2 servers, all faults | 1.7 M | `PanelAgrees`, `MappedHasRow`, `ReloadTakesEffect` |
| `plugins` | 2 plugins, the first with 2 event types and a route, channel 1, all faults | 0.3 M | `StopQuiesces`, `CleanShutdown`, `StopCompletes`, `StartEnds`, `SickPluginDisabled` |
| `session` | 2 sessions, 2 commands, 2 API calls, all faults | 52 k | `CommandsOneByOne`, `ShutdownCompletes`, `GoroutinesEnd`, `SessionRestored` |
| `daemon_parts` | one part at a time: 5 events, 2 servers, channel 2, 2 runs of the daemon, a limit of 2 rows; 2 servers, 4 changes; 2 starts, 4 limits, 5 turns; 2 assigners, 2 nodes, 2 names, 3 calls | 0.6 M | `PartsTypeOK`, `RecordedOnce`, `RowsStay`, `WholeSnapshot`, `CatchesUp`, `LimitsEnforced`, `MembersOfOne` |
| `files` | 2 streaming calls on one path, uploads of 2 and 3 chunks with a limit of 2, 2 directories, 1 command (also on a temporary file), SFTP write or crash beside them, failing system calls | 0.9 M | `FilesTypeOK`, `PublishedWhole`, `TempsOwned`, `AnswersTrue`, `CallsEnd` |
| `setup` | 3 commands, 2 at a time, 2 tokens, 2 Panels, 3 ages of the database, paired or not, all faults | 1.3 M | `SetupTypeOK`, `NodeHasIdentity`, `PairedComplete` |

The type invariants of the other modules are not in this table: section 6 proves them
for every instance.

Why these bounds. Interference in this code is pairwise: two callers of one
server, two restores of one backup, two bridges with one counter, the old
session and the new one. Two containers let a start follow a delete or a failed
start under the same name, and let two servers have one each. Four versions let
an update find a slot that is neither current nor previous, and leave another
one behind. A limit of one retry with two handlers is the smallest instance in
which the limit can be passed. A channel of one or two fills up, which 64 places
do as well, only later. Two sessions give an old and a current one. The second
plugin is there to fail after the first is up. `update` has one process at work
at a time, which is what its properties are about: `AtomicPair` and the others
assume updaters that take turns, and one that runs again and again, killed or
not, does just that. The invariants proved in section 6 do not depend on the bounds
at all.

In `files` an upload of two chunks can be cut, replaced or mixed after the first, one
of three passes the limit, and the two calls are an upload beside a download, a copy or
another upload to the same path, both with their temporary files; a stream without a
chunk, which `UploadLast` refuses, is left to the proofs. The one command may be the
renaming of the directory under an upload, of the temporary file to the target or of the
target to the temporary name. In `healing_live` the second server is there to have its
crash dropped by a full channel. In `backup` one kind of contents is enough to tell a
whole directory from half a one, and without a StatusProvider a restore may come at any
time. In `setup` two tokens allow two installs that both succeed, and three commands a
pairing, a daemon on it and one that disturbs them; an old paired node needs no pairing. The parts of `daemon_parts` share no variable, so that every
behaviour of one of them is found with the others at rest.

Deadlock is checked in all of these except `daemon_parts`, `files` and `setup`, where
the system is at rest when all events, changes or commands of the bound have happened.

One run shows a disagreement between a document and what the daemon does
(`expect: violation`; the texts are quoted under "findings" in `PROJECT.json`):
`child_brought_back`: Watch is said to observe frpc and to reload it; it ends
before the first child exists. (1 server, 1 port, no faults. In the trace Watch looks
for a child while the first RegisterPort is at the Panel and returns; the frpc that is
started then exits, and nothing happens any more.)

Other disagreements met while modelling, stated here and not kept as runs. The models
contain most of these behaviours; the properties above are stated so as to say what
holds in spite of them.

| Document | Code |
|---|---|
| docs/update.md:18-20, links are repaired at startup | runDaemon never opens the slot root |
| docs/observability.md:69, history can be filtered by time | eventrecorder.go:34 leaves `CreatedAt` zero, so a query with From finds nothing |
| docs/observability.md:57, a manual stop is no crash | lifecycle.go:85 drops the mark before the container runs again; the observer may sample in between. Another process's stop is never marked |
| the same | selfheal.go:80 restarts a server that was stopped during its backoff |
| docs/observability.md:52, at most 5 retries | handlers of one server pass the check at selfheal.go:70 together (`RestartsBounded` says by how much) |
| docs/observability.md:55, counter reset after 5 minutes | `ResetRestartCount` has no caller |
| docs/update.md:23, a failed candidate changes no active slot | update/manager.go:95 removes the slot an overlapping update may have activated |
| docs/filesystem.md:35, the old directory is kept until replaced | after a crash between the renames, a second attempt removes it first (backup/manager.go:140) |
| docs/filesystem.md:35-36, the staging directory is renamed into place, the old one kept until then | overlapping restores of one backup share one `.restore-` and one `.previous-` directory (backup/manager.go:130, 139): they can install half an archive or lose both copies |
| restore.go:69, which kinds of entries an archive has | a FIFO is archived (archive.go:53) and refused by extract (restore.go:69): such a backup is completed and cannot be restored |
| docs/filesystem.md:33, only stopped servers are restored | the status is read at backup/manager.go:104, long before the renames |
| docs/plugins.md:25, disabled after repeated failures | registry.go:265 also counts refusals by the host itself |
| docs/operations.md:25-26, a plugin crash does not take the daemon down | plugin/host.go:128 dials without a deadline: a plugin that exits before it listens keeps StartAll, and the daemon behind it, waiting (`StartEnds` names this case) |
| docs/observability.md:65, important events are stored before they are broadcast | the recorder is a subscriber like any other, its channel may be full, and ids collide after a restart (eventrecorder.go:43), which drops the event |
| docs/observability.md:66, events are pruned after 30 days | `PruneEvents` has no caller; rows stay until their server is deleted (`RowsStay`) |
| docs/observability.md:69, the history can be filtered by server, type and time | frp.go:182 publishes `tunnel.disconnected` without a server; its NULL `server_id` fails the Scan (sqlite.go:546-547) of every listing that is not for one server |
| docs/observability.md:26, /metrics serves the periodic snapshot | metrics.go:64 builds the collectors once, when daemon.go:112 asks for the handler, before the first Refresh; later passes change what no request reads |
| docs/observability.md:36, `oikos_selfheal_restarts_total` | not exported |
| docs/observability.md:41, degraded without the Panel | daemon.go:110 registers a probe of the Panel that never fails |
| api/observability.go:33, metrics of a server | the provider is given no runtime, CPU and memory are 0 |
| docs/filesystem.md:21, uploads end in a rename or not at all | a Write that fails early leaves the handler in the pipe for ever (api/filesystem.go:98), and GracefulStop with it; a client that goes leaves Write and its temporary file (`CallsEnd` names both, `ShutdownCompletes` the calls that hold the daemon up) |
| the same, a target never holds a part | a stream that ends without `Last` is taken as whole (api/filesystem.go:78-80); `List` shows `.upload-*` files and Rename, Copy and Read accept their names (filesystem/manager.go:47-68, 214-241), so that a client can publish a part |
| docs/update.md:4-5, a candidate is tested with `--health-check-only` | update.go:124 calls it without the `update` subcommand, which a candidate rejects |
| docs/update.md:18, the database is backed up before the switch | update.go:69 copies oikos.db without its write-ahead log |
| orchestrator/lifecycle.go:198, a deleted server's ports are released | `oikos server delete` has no tunnel manager (main.go:151): the rows go by cascade, the Panel keeps the allocations and a running daemon its mappings (`gone` in FrpTunnel) |
| sqlite.go:21, foreign keys are on | the PRAGMA holds for one connection of the pool |
| scripts/install.sh:60 installs a node | without `--panel` nothing is paired, and on a node that is, config.yaml is reset to the defaults |
| the same | on a node paired by an older version the daemon migrates only the tunnels (daemon.go:48): it fails in LoadEnabled or, when a doctor has added the columns, runs without the tables of events and backups |
| the same, `--data-dir` | the certificate files and config.yaml have one place: installs with two data directories overwrite each other's (`elsewhere`) |
| mesh.go:53, a group has members of several nodes | with foreign keys enforced only this node's own row can be a member |

## 5. Fairness and assumptions

* Weak fairness of a goroutine's next step: the Go scheduler runs every goroutine
  that can run, and every call in it returns (Docker, SQLite and the file system
  answer; the calls to the Panel and to plugins that have a deadline end by it).
* `SelfHealing`: callers in a method, the observer, every handler. Nothing is
  assumed of commands or of containers.
* `AgentSession`: main goroutine, API calls that do their work, heartbeat, stream. An
  API call that waits (Upload in Recv or in the pipe, Download and StreamEvents in Send)
  is `held`, and nothing is assumed of when or whether it goes on; `ShutdownCompletes`
  names it as the one thing GracefulStop can wait for.
  Strong fairness only for the heartbeat's choice of `ctx.Done()` in a `select`
  beside its timer: the select chooses at random among ready cases, the cancelled
  context stays ready, and the timer does not keep it from being chosen for ever.
  `SessionRestored` assumes a Panel that stays reachable and certificates that load
  from some time on.
* `FrpTunnel` (only in the violating run): operation, exit goroutine, and Watch
  strongly, as generous to Watch as possible; it still does not bring the child back.
* `PluginRegistry`: main goroutine, waiters and bridges. A plugin call ends by its
  deadline, a killed process exits. The dial has no deadline: nothing is assumed of it,
  whether the plugin lives or not.
* `Metrics`: weakly the next step of a pass; strongly the metrics ticker in the
  scheduler's select, for the reason given above. Failing calls count against the
  bound of changes, so they come to rest.
* `FileService`: weakly the next step of a Write, the answer after it, and the end of a
  call whose client is gone. Nothing is assumed of clients: one that is connected may
  stop sending (Recv waits) or reading (Send waits).

Assumed of the outside: frpc ends on SIGTERM; systemd ends frpc and plugins with the
daemon; registering a mapping with the Panel twice is one allocation; a rename is
atomic; a SQLite statement is atomic; uuids do not repeat. Durations are left out
everywhere: backoff and `fails`/`attempt` only decide how long something takes.

## 6. Proofs

Each theorem says `Spec => []Property`, `Spec => Property` for an action property, or
`Spec => Abstract` for a refinement, for all values of the constants, from the named
ASSUME of its module (`LifecycleAssumption`, `HealingAssumption`, `UpdateAssumption`,
`BackupAssumption`, `TunnelAssumption`, `PluginAssumption`, `SessionAssumption`,
`HistoryAssumption`, `MetricsAssumption`, `GroupsAssumption`, `LimitsAssumption`,
`SetupAssumption`, `CommandAssumption`, `FilesAssumption`): that `None`, `NoLimits`,
"torn" and the like are no element of the sets they stand beside, fault sets are known
fault names, bounds are naturals, a name
matches `.upload-*` or not (clients may use both kinds), and finiteness where cardinalities are used. Nothing else is assumed.

* **SelfHealingProofs** (ServerLifecycle and SelfHealing). `LifeTypeCorrect` needs
  `LocalsOK`: at which steps a caller holds a server and a container id.
  `OwnContainersCorrect`: ids move only from the runtime to a local to the row of the
  same server (`OwnFrame`), and are created only under a free name.
  `UndisturbedAgreeCorrect`: agreement at rest is not inductive, since in the middle of
  a method row and runtime differ. `AgreeInv` says of an undisturbed server with one
  caller at work exactly how far they may differ at each of its steps
  (`AgreeWhileBusy`, `InvocationView`), that a server without a row has no container
  (`Fresh`), and that a step of another server's caller changes neither.
  Every step of the composition is a lifecycle step or leaves its variables alone
  (`HealStepImplements`), so `HealingImplementsLifecycle`, and with it agreement
  (`HealingKeepsAgreement`) for free. `RestartsBounded` is inductive with types: a
  handler passes the check only below the limit, and counts later what `InFlight`
  already counts now; the proof is about cardinalities. `NoStaleMarkCorrect`: a mark is
  set before the container stops and deleted when a start begins, so at rest it tells
  nothing by itself. `MarksInv` says of a marked server that nobody is in a start of it,
  and that it runs only while the stop that set the mark is at its `Stop`; restarts,
  which leave marks alone, are the healer's (`RestartsHealed`). That a container does
  not run again behind the mark comes from `AgreeInv`.
* **UpdateSlotsProofs.** `ActiveSlotsIntactCorrect` rests on `SlotInv`: the one
  updater at work holds the loaded pair, its release is outside this pair
  until the commit, and both old and new pair are good from the health check on.
  `LinksFollowManifestCorrect` adds `LinksInv`: which link is at which pair at each step
  of the switch and of its undo (`LinkView`). Only what is true before the switch needs
  `~cut`; from the first link on an updater that a kill or a failed undo preceded puts
  the links right as well as any other. `TurnsImplementPair` is the refinement, for
  behaviours in which updaters take turns (`[]~overlapped`): `Prior`, the pair a switch
  may still return to, is the `old` of the one updater between commit and end; saving the
  manifest is SlotPair's switch, the undo its way back, every other step a stutter.
* **BackupRestoreProofs.** `RowInv` ties a call in Create to its row and temporary
  archive, a call in Restore to a completed or doomed backup; `StageInv` describes
  the staging directory file by file, also when an earlier attempt was killed
  and left it. `NetInv`: a restore about to discard what it moved aside has its
  replacement in place. `SafetyNetCorrect` holds across crashes and failed undos; the
  case in which a retry gives up the only old copy, with its staging verified against
  the checksum, is a disjunct of the property and no exception from it.
* **LinkProofs** (FrpTunnel and AgentSession). `TunnelInv`: at which step which of table,
  Panel and mappings is ahead (`HalfDone`), that a rebuild has written the mappings
  before it comes to the child (`Rebuilt`), and what a live frpc serves at each step as
  long as nothing was missed (`Serves`). That the last mapping of all goes only with the
  child is what makes the one-mapping case, which does not restart it, come out.
  `SessionView`: all goroutines of earlier sessions have left their loops or are on the
  way, and `errCh` holds one result per ended goroutine.
* **PluginRegistryProofs.** `BusPhase` (where main is, whether the bus is cancelled),
  `Accounted` (every process
  that may be alive is still in main's list of things to stop).
* **DaemonPartsProofs.** Each part has its own specification and invariant; a behaviour
  of the four is one of each (`PartsImplementEach`). EventHistory: rows, the event being
  saved and the channel are in the order of publication, and what waits has not been
  counted (`HistoryInv`); an id that collides is refused by the table, hence
  `RowsStay`. Metrics: the pass has the figures of exactly the rows it is through with
  (`PassInv`), the snapshot those of all rows of its listing (`SnapInv`). NetworkGroups:
  the rows others see are the list committed last less the nodes released since
  (`MembersInv`), because the call that inserts is the one whose transaction is open and
  what it has inserted is what is gone from the rest of its list (`WorkInv`). ResourceLimits: a call that nobody disturbed finds the files it has
  written so far as it wrote them (`StartInv`), from which what it leaves in force
  (`KeptInv`) follows with its last file.
* **NodeSetupProofs.** First what stands where in the programs (`InstallSteps`,
  `StepPlaces`, ...). `ProcInv` says what the steps behind a process have achieved and no
  other process takes back: pieces of the schema, the token issued, the row a daemon goes
  by. `PairInv`: installs that do not overlap are past their check one at a time, there
  is no row until both files hold the token, and afterwards row, key, certificate and
  what the Panel has issued are the same identity, of a node paired long ago as well;
  config.yaml names the Panel of the row or none (`Nowhere`). `SchemaInv` is about rows
  this version has written; what a daemon may count on beside an older one, `Migrated`
  derives from the daemon's own steps.
* **FileServiceProofs.** `Joined` says where a handler and its Write can be while the
  other is where: who holds the pipe, how many chunks have gone through, and when Write
  holds a file. `OnePath`, `OneWrite`: an inode has one path and one Write at most, and
  no two Writes the same temporary name. `Owned`: a temporary file that is not lost is
  that of a Write which is going to rename or remove it and has not been deserted
  (`Keeps`). `Placed`: outside the files clients have tampered with (`raw`), what is at
  a path that is not temporary is whole and nobody writes to it any more (`Settled`);
  a part at a temporary path is found under this name by no Write but its own.
  `CallData`: the file of an upload holds the chunks sent so far in order, that of a copy
  a beginning of its source, what a download has sent a beginning of the file it opened.
  None of these is inductive alone: that a step of one call leaves the data of another
  needs `OneWrite`; that a new file is empty needs `Freed`, which says that inodes nobody
  holds are; that what is renamed is whole needs the count in `Joined`. Commands may name
  temporary files: such a file becomes `raw`, or its path `lost`, where the client puts a
  part or something else where the service expects a whole, and the statements say so.

Only model-checked: the ten liveness properties (`CrashHandled`, `HealingStops`,
`StopCompletes`, `StartEnds`, `SickPluginDisabled`, `ShutdownCompletes`, `GoroutinesEnd`, `SessionRestored`,
`CatchesUp`, `CallsEnd`), because fairness and ENABLED are beyond the provers used.

## 7. Not modelled

* Contents: file formats, the confinement of paths (a path is accepted or not), quotas,
  the SSH side of SFTP, message conversions, egg templates, certificates and checksums
  as cryptography.
* `PruneEvents`, `VersionsToRemove`, `RunHandoff` and `TunnelSelfHealer`, which nothing
  calls at this commit.
* The deletion of `backups` rows with their server (ON DELETE CASCADE); that of
  `events` is modelled, and that of `tunnels` both in a rollback of the daemon and in
  `oikos server delete`.
* Times: an event's `CreatedAt` is the zero time (eventrecorder.go:34), and in the model
  a constant. The status a restore reads at backup/manager.go:104 is used after checksum
  and extraction; starts of the server in between are outside BackupRestore.
* A Lifecycle method that goes on beside a closed database after a signal
  (agent/daemon.go:87); what it leaves when it is cut off is covered by crashes.
* Request contexts: that frpc is started under the context of the request
  is covered only by frpc exiting at any time.
* Generated protocol code, scripts, packaging.
* `Registry.HealthCheckAll` (`plugin/registry.go:277`) is called only by the doctor
  command, on hosts of its own that it never starts: it is not an action.
