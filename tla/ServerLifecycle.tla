--------------------------- MODULE ServerLifecycle ---------------------------
(***************************************************************************)
(* The lifecycle of a game server: internal/orchestrator/lifecycle.go on   *)
(* top of the servers table (internal/store/sqlite.go) and the container   *)
(* runtime (internal/runtime/docker/docker.go).                            *)
(*                                                                         *)
(* A caller is one in-flight invocation of a Lifecycle method: a local     *)
(* gRPC call, a Panel command, a self-healing goroutine or an `oikos       *)
(* server ...` process.  The methods take no per-server lock, so every     *)
(* database statement, runtime call and access of manualStops is a step of *)
(* its own and the steps of different callers interleave.                  *)
(*                                                                         *)
(* Publishing server.created/started/... is the last thing a method does;  *)
(* it never blocks and changes nothing here, so it is part of the step     *)
(* that returns.  `unsaved` and `disturbed` are history variables.         *)
(***************************************************************************)
EXTENDS Naturals, FiniteSets

CONSTANTS Servers,     \* server ids; uuid.NewString never repeats one
          Containers,  \* container ids the runtime may hand out (a bound)
          Callers,     \* concurrent invocations of Lifecycle methods
          CliCallers,  \* those running in an `oikos server` process
          Faults,      \* which failures the environment may inject
          None         \* the empty id

FaultKinds == {"db", "runtime", "limits", "tunnel", "crash"}

ASSUME LifecycleAssumption ==
    /\ CliCallers \subseteq Callers
    /\ Faults \subseteq FaultKinds
    /\ None \notin Servers \cup Containers \cup Callers

VARIABLES
    rowStatus,    \* servers.status, or "none" / "gone" before and after the row
    rowCid,       \* servers.container_id
    ctrState,     \* what the runtime knows of a container
    ctrOwner,     \* the server in the container's name "oikos-<id>"
    manualStops,  \* Lifecycle.manualStops of the daemon process
    pc,           \* next step of each caller
    srv, cid,     \* the caller's id and containerID locals
    unsaved,      \* history: it changed a container, the row does not say so yet
    result,       \* what the caller's last method returned
    disturbed     \* history: servers hit by an overlap or a partial failure

rowVars == <<rowStatus, rowCid>>
ctrVars == <<ctrState, ctrOwner>>
opVars == <<pc, srv, cid, unsaved, result>>
lifeVars == <<rowStatus, rowCid, ctrState, ctrOwner, manualStops,
              pc, srv, cid, unsaved, result, disturbed>>

RowStatuses == {"none", "installing", "stopped", "running", "crash_looping", "gone"}
CtrStates == {"unused", "created", "running", "stopped", "exited", "removed"}
CreatePcs == {"c_status", "c_ports"}
StartPcs == {"s_get", "s_create", "s_save", "s_start", "s_status", "s_limits"}
StopPcs == {"t_get", "t_mark", "t_stop", "t_status"}
RestartPcs == {"r_get", "r_restart", "r_status"}
DeletePcs == {"d_get", "d_remove", "d_release", "d_row"}
Pcs == {"idle"} \cup CreatePcs \cup StartPcs \cup StopPcs \cup RestartPcs \cup DeletePcs

Live(s) == rowStatus[s] \notin {"none", "gone"}
Exists(c) == ctrState[c] \notin {"unused", "removed"}
NameFree(s) == \A c \in Containers : ctrOwner[c] = s => ~Exists(c)
Busy(s) == \E p \in Callers : srv[p] = s
Daemon(p) == p \notin CliCallers

-----------------------------------------------------------------------------
(* Every database write is an UPDATE or DELETE ... WHERE id=?: on a missing  *)
(* row it touches nothing and reports no error.                              *)

UpdateServerStatus(s, status) ==
    rowStatus' = IF Live(s) THEN [rowStatus EXCEPT ![s] = status] ELSE rowStatus

\* MUTANT: the UPDATE has lost its WHERE id=?.
SetServerContainerEverywhere(s, c) ==
    rowCid' = [t \in Servers |-> IF Live(t) THEN c ELSE rowCid[t]]

SetServerContainer(s, c) ==
    rowCid' = IF Live(s) THEN [rowCid EXCEPT ![s] = c] ELSE rowCid

DbDeleteServer(s) ==
    rowStatus' = IF Live(s) THEN [rowStatus EXCEPT ![s] = "gone"] ELSE rowStatus

\* manualStops belongs to the daemon process; a CLI process marks a map of its
\* own that nobody reads.
StoreManualStop(p, s) ==
    manualStops' = IF Daemon(p) THEN manualStops \cup {s} ELSE manualStops
DeleteManualStop(p, s) ==
    manualStops' = IF Daemon(p) THEN manualStops \ {s} ELSE manualStops

\* IsManualStop (LoadAndDelete), asked by the crash observer: the mark is used up.
IsManualStop(s) ==
    /\ manualStops' = manualStops \ {s}
    /\ UNCHANGED <<rowVars, ctrVars, opVars, disturbed>>

-----------------------------------------------------------------------------
(* Control of one invocation.                                                *)

\* A method starts.  If another invocation is already at work on the same
\* server the two overlap, which the history variable records.
Begin(p, s, first) ==
    /\ pc[p] = "idle"
    /\ pc' = [pc EXCEPT ![p] = first]
    /\ srv' = [srv EXCEPT ![p] = s]
    /\ result' = [result EXCEPT ![p] = "none"]
    /\ disturbed' = IF Busy(s) THEN disturbed \cup {s} ELSE disturbed
    /\ UNCHANGED <<cid, unsaved>>

Goto(p, next) ==
    /\ pc' = [pc EXCEPT ![p] = next]
    /\ UNCHANGED <<srv, result, disturbed>>

\* The method returns.  Returning an error while a container change is not in
\* the row yet (nothing in the code undoes it) is a partial failure.
Return(p, r, changed) ==
    /\ pc' = [pc EXCEPT ![p] = "idle"]
    /\ srv' = [srv EXCEPT ![p] = None]
    /\ cid' = [cid EXCEPT ![p] = None]
    /\ unsaved' = [unsaved EXCEPT ![p] = FALSE]
    /\ result' = [result EXCEPT ![p] = r]
    /\ disturbed' = IF r = "err" /\ changed THEN disturbed \cup {srv[p]} ELSE disturbed

Fails(p) == Return(p, "err", unsaved[p])

\* A runtime call on cid[p] that leaves the container in state `to`.
CtrCall(p, to) ==
    /\ Exists(cid[p])
    /\ ctrState' = [ctrState EXCEPT ![cid[p]] = to]
    /\ UNCHANGED ctrOwner

\* The call fails: the container is unknown, or the request itself failed
\* (engine unreachable, request context cancelled), in which case the engine
\* may or may not have carried it out.
CtrCallFails(p, to) ==
    \/ /\ ~Exists(cid[p]) \/ "runtime" \in Faults
       /\ UNCHANGED ctrVars
       /\ Fails(p)
    \/ /\ "runtime" \in Faults
       /\ CtrCall(p, to)
       /\ Return(p, "err", TRUE)

\* The call succeeds and the caller goes on to `next`.
CtrCallOk(p, to, next) ==
    /\ CtrCall(p, to)
    /\ unsaved' = [unsaved EXCEPT ![p] = TRUE]
    /\ Goto(p, next)
    /\ UNCHANGED cid

\* Docker's stop of a container that is not running does nothing.
StoppedState(c) == IF c \in Containers /\ ctrState[c] # "running" THEN ctrState[c] ELSE "stopped"

-----------------------------------------------------------------------------
(* CreateServer: insert the row as "installing", set it to "stopped", then   *)
(* register the egg's ports with the tunnel manager (the daemon only); an    *)
(* error there deletes the row again, ignoring a failure to do so.           *)

CreateInsert(p, s) ==
    /\ rowStatus[s] = "none"
    /\ Begin(p, s, "c_status")
    /\ rowStatus' = [rowStatus EXCEPT ![s] = "installing"]
    /\ UNCHANGED <<rowCid, ctrVars, manualStops>>

CreateStatus(p) ==
    /\ pc[p] = "c_status"
    /\ \/ /\ UpdateServerStatus(srv[p], "stopped")
          /\ Goto(p, "c_ports")
          /\ UNCHANGED <<cid, unsaved>>
       \/ /\ "db" \in Faults
          /\ Fails(p)
          /\ UNCHANGED rowStatus
    /\ UNCHANGED <<rowCid, ctrVars, manualStops>>

CreatePorts(p) ==
    /\ pc[p] = "c_ports"
    /\ \/ /\ Return(p, "ok", FALSE)
          /\ UNCHANGED rowStatus
       \/ /\ Daemon(p) /\ "tunnel" \in Faults
          /\ Fails(p)
          /\ \/ DbDeleteServer(srv[p])
             \/ "db" \in Faults /\ UNCHANGED rowStatus
    /\ UNCHANGED <<rowCid, ctrVars, manualStops>>

-----------------------------------------------------------------------------
(* StartServer.                                                              *)

\* MUTANT: the mark of an earlier stop stays.
StartServerKeepsMark(p, s) ==
    /\ rowStatus[s] # "none"
    /\ Begin(p, s, "s_get")
    /\ UNCHANGED <<rowVars, ctrVars, manualStops>>

StartServer(p, s) ==
    /\ rowStatus[s] # "none"
    /\ Begin(p, s, "s_get")
    /\ DeleteManualStop(p, s)
    /\ UNCHANGED <<rowVars, ctrVars>>

\* GetServer: the row is missing, or its container id goes to a local.
ReadRow(p, without, with) ==
    \/ /\ Live(srv[p])
       /\ cid' = [cid EXCEPT ![p] = rowCid[srv[p]]]
       /\ Goto(p, IF rowCid[srv[p]] = None THEN without ELSE with)
       /\ UNCHANGED unsaved
    \/ /\ ~Live(srv[p]) \/ "db" \in Faults
       /\ Fails(p)

StartGet(p) ==
    /\ pc[p] = "s_get"
    /\ ReadRow(p, "s_create", "s_start")
    /\ UNCHANGED <<rowVars, ctrVars, manualStops>>

\* The engine refuses a second container of the same name.
CreateContainer(p, c) ==
    /\ NameFree(srv[p])
    /\ ctrState[c] = "unused"
    /\ ctrState' = [ctrState EXCEPT ![c] = "created"]
    /\ ctrOwner' = [ctrOwner EXCEPT ![c] = srv[p]]

StartCreate(p) ==
    /\ pc[p] = "s_create"
    /\ \/ \E c \in Containers :
            /\ CreateContainer(p, c)
            /\ cid' = [cid EXCEPT ![p] = c]
            /\ unsaved' = [unsaved EXCEPT ![p] = TRUE]
            /\ Goto(p, "s_save")
       \/ \E c \in Containers :
            /\ "runtime" \in Faults
            /\ CreateContainer(p, c)
            /\ Return(p, "err", TRUE)
       \/ /\ \/ ~NameFree(srv[p])
             \/ "runtime" \in Faults
             \/ \A c \in Containers : ctrState[c] # "unused"
          /\ Fails(p)
          /\ UNCHANGED ctrVars
    /\ UNCHANGED <<rowVars, manualStops>>

StartSave(p) ==
    /\ pc[p] = "s_save"
    /\ \/ /\ SetServerContainer(srv[p], cid[p])
          /\ unsaved' = [unsaved EXCEPT ![p] = FALSE]
          /\ Goto(p, "s_start")
          /\ UNCHANGED cid
       \/ /\ "db" \in Faults
          /\ Fails(p)
          /\ UNCHANGED rowCid
    /\ UNCHANGED <<rowStatus, ctrVars, manualStops>>

StartRun(p) ==
    /\ pc[p] = "s_start"
    /\ CtrCallOk(p, "running", "s_status") \/ CtrCallFails(p, "running")
    /\ UNCHANGED <<rowVars, manualStops>>

\* setStatus after a runtime call; `next` is where the method goes on.
SaveStatus(p, status, next) ==
    \/ /\ UpdateServerStatus(srv[p], status)
       /\ unsaved' = [unsaved EXCEPT ![p] = FALSE]
       /\ Goto(p, next)
       /\ UNCHANGED cid
    \/ /\ "db" \in Faults
       /\ Fails(p)
       /\ UNCHANGED rowStatus

StartStatus(p) ==
    /\ pc[p] = "s_status"
    /\ SaveStatus(p, "running", "s_limits")
    /\ UNCHANGED <<rowCid, ctrVars, manualStops>>

\* The cgroup limits are applied last; failing there is reported as an error of
\* StartServer although the server runs.
StartLimits(p) ==
    /\ pc[p] = "s_limits"
    /\ Return(p, "ok", FALSE) \/ ("limits" \in Faults /\ Fails(p))
    /\ UNCHANGED <<rowVars, ctrVars, manualStops>>

-----------------------------------------------------------------------------
(* StopServer.                                                               *)

\* setStatus and return.
SaveStatusAndReturn(p, status) ==
    \/ /\ UpdateServerStatus(srv[p], status)
       /\ Return(p, "ok", FALSE)
    \/ /\ "db" \in Faults
       /\ Fails(p)
       /\ UNCHANGED rowStatus

StopServer(p, s) ==
    /\ rowStatus[s] # "none"
    /\ Begin(p, s, "t_get")
    /\ UNCHANGED <<rowVars, ctrVars, manualStops>>

StopGet(p) ==
    /\ pc[p] = "t_get"
    /\ ReadRow(p, "t_status", "t_mark")
    /\ UNCHANGED <<rowVars, ctrVars, manualStops>>

StopMark(p) ==
    /\ pc[p] = "t_mark"
    /\ StoreManualStop(p, srv[p])
    /\ Goto(p, "t_stop")
    /\ UNCHANGED <<rowVars, ctrVars, cid, unsaved>>

\* MUTANT: a failing runtime.Stop is ignored.
StopRunUnchecked(p) ==
    /\ pc[p] = "t_stop"
    /\ CtrCall(p, StoppedState(cid[p])) \/ UNCHANGED ctrVars
    /\ Goto(p, "t_status")
    /\ UNCHANGED <<rowVars, manualStops, cid, unsaved>>

StopRun(p) ==
    /\ pc[p] = "t_stop"
    /\ \/ /\ CtrCallOk(p, StoppedState(cid[p]), "t_status")
          /\ UNCHANGED manualStops
       \/ /\ CtrCallFails(p, StoppedState(cid[p]))
          /\ DeleteManualStop(p, srv[p])
    /\ UNCHANGED rowVars

StopStatus(p) ==
    /\ pc[p] = "t_status"
    /\ SaveStatusAndReturn(p, "stopped")
    /\ UNCHANGED <<rowCid, ctrVars, manualStops>>

-----------------------------------------------------------------------------
(* RestartServer: no manual-stop bookkeeping and no look at the status.      *)

RestartServer(p, s) ==
    /\ rowStatus[s] # "none"
    /\ Begin(p, s, "r_get")
    /\ UNCHANGED <<rowVars, ctrVars, manualStops>>

RestartGet(p) ==
    /\ pc[p] = "r_get"
    /\ \/ /\ Live(srv[p]) /\ rowCid[srv[p]] # None
          /\ cid' = [cid EXCEPT ![p] = rowCid[srv[p]]]
          /\ Goto(p, "r_restart")
          /\ UNCHANGED unsaved
       \/ /\ ~Live(srv[p]) \/ rowCid[srv[p]] = None \/ "db" \in Faults
          /\ Fails(p)
    /\ UNCHANGED <<rowVars, ctrVars, manualStops>>

RestartRun(p) ==
    /\ pc[p] = "r_restart"
    /\ CtrCallOk(p, "running", "r_status") \/ CtrCallFails(p, "running")
    /\ UNCHANGED <<rowVars, manualStops>>

RestartStatus(p) ==
    /\ pc[p] = "r_status"
    /\ SaveStatusAndReturn(p, "running")
    /\ UNCHANGED <<rowCid, ctrVars, manualStops>>

-----------------------------------------------------------------------------
(* DeleteServer.                                                             *)

DeleteServer(p, s) ==
    /\ rowStatus[s] # "none"
    /\ Begin(p, s, "d_get")
    /\ UNCHANGED <<rowVars, ctrVars, manualStops>>

DeleteGet(p) ==
    /\ pc[p] = "d_get"
    /\ ReadRow(p, "d_release", "d_remove")
    /\ UNCHANGED <<rowVars, ctrVars, manualStops>>

DeleteRemove(p) ==
    /\ pc[p] = "d_remove"
    /\ CtrCallOk(p, "removed", "d_release") \/ CtrCallFails(p, "removed")
    /\ UNCHANGED <<rowVars, manualStops>>

\* ReleaseServer of the tunnel manager; a CLI process has no tunnel manager.
DeleteRelease(p) ==
    /\ pc[p] = "d_release"
    /\ \/ /\ Goto(p, "d_row")
          /\ UNCHANGED <<cid, unsaved>>
       \/ Daemon(p) /\ "tunnel" \in Faults /\ Fails(p)
    /\ UNCHANGED <<rowVars, ctrVars, manualStops>>

DeleteRow(p) ==
    /\ pc[p] = "d_row"
    /\ \/ /\ DbDeleteServer(srv[p])
          /\ Return(p, "ok", FALSE)
       \/ /\ "db" \in Faults
          /\ Fails(p)
          /\ UNCHANGED rowStatus
    /\ UNCHANGED <<rowCid, ctrVars, manualStops>>

-----------------------------------------------------------------------------
(* The environment.                                                          *)

\* A container's own process ends (exit code 0 or not, or killed for memory).
ContainerExits(c) ==
    /\ ctrState[c] = "running"
    /\ ctrState' = [ctrState EXCEPT ![c] = "exited"]
    /\ UNCHANGED <<rowVars, ctrOwner, manualStops, opVars, disturbed>>

\* The processes running `who` die: their invocations vanish where they are.
Die(who) ==
    /\ pc' = [p \in Callers |-> IF p \in who THEN "idle" ELSE pc[p]]
    /\ srv' = [p \in Callers |-> IF p \in who THEN None ELSE srv[p]]
    /\ cid' = [p \in Callers |-> IF p \in who THEN None ELSE cid[p]]
    /\ unsaved' = [p \in Callers |-> IF p \in who THEN FALSE ELSE unsaved[p]]
    /\ result' = [p \in Callers |-> IF p \in who THEN "none" ELSE result[p]]
    /\ disturbed' = disturbed \cup {srv[p] : p \in {q \in who : unsaved[q]}}
    /\ UNCHANGED <<rowVars, ctrVars>>

\* The daemon restarts: containers and rows stay, manualStops is lost.
DaemonCrash ==
    /\ "crash" \in Faults
    /\ Die(Callers \ CliCallers)
    /\ manualStops' = {}

CliKilled(p) ==
    /\ "crash" \in Faults
    /\ pc[p] # "idle"
    /\ Die({p})
    /\ UNCHANGED manualStops

\* The self-healer gives up on a server (selfheal.go); a bare status update.
MarkCrashLooping(s) ==
    /\ UpdateServerStatus(s, "crash_looping")
    /\ UNCHANGED <<rowCid, ctrVars, manualStops, opVars, disturbed>>

-----------------------------------------------------------------------------
LifeInit ==
    /\ rowStatus = [s \in Servers |-> "none"]
    /\ rowCid = [s \in Servers |-> None]
    /\ ctrState = [c \in Containers |-> "unused"]
    /\ ctrOwner = [c \in Containers |-> None]
    /\ manualStops = {}
    /\ pc = [p \in Callers |-> "idle"]
    /\ srv = [p \in Callers |-> None]
    /\ cid = [p \in Callers |-> None]
    /\ unsaved = [p \in Callers |-> FALSE]
    /\ result = [p \in Callers |-> "none"]
    /\ disturbed = {}

\* A command, typed at the command line or received by the daemon.
Command(p, s) ==
    CreateInsert(p, s) \/ StartServer(p, s) \/ StopServer(p, s) \/ DeleteServer(p, s)

Invoke(p) == \E s \in Servers : Command(p, s)

\* A caller goes on with the method it is in.
Step(p) ==
    \/ CreateStatus(p) \/ CreatePorts(p)
    \/ StartGet(p) \/ StartCreate(p) \/ StartSave(p)
    \/ StartRun(p) \/ StartStatus(p) \/ StartLimits(p)
    \/ StopGet(p) \/ StopMark(p) \/ StopRun(p) \/ StopStatus(p)
    \/ RestartGet(p) \/ RestartRun(p) \/ RestartStatus(p)
    \/ DeleteGet(p) \/ DeleteRemove(p) \/ DeleteRelease(p) \/ DeleteRow(p)

LifeNext ==
    \/ \E p \in Callers : Invoke(p) \/ Step(p)
    \/ \E p \in Callers, s \in Servers : RestartServer(p, s)
    \/ \E c \in Containers : ContainerExits(c)
    \/ \E s \in Servers : MarkCrashLooping(s) \/ IsManualStop(s)
    \/ DaemonCrash
    \/ \E p \in CliCallers : CliKilled(p)

LifeSpec == LifeInit /\ [][LifeNext]_lifeVars

-----------------------------------------------------------------------------
(* Properties.                                                               *)

\* Type invariant of the rows, the containers and the in-flight invocations.
LifeTypeOK ==
    /\ rowStatus \in [Servers -> RowStatuses]
    /\ rowCid \in [Servers -> Containers \cup {None}]
    /\ ctrState \in [Containers -> CtrStates]
    /\ ctrOwner \in [Containers -> Servers \cup {None}]
    /\ manualStops \in SUBSET Servers
    /\ pc \in [Callers -> Pcs]
    /\ srv \in [Callers -> Servers \cup {None}]
    /\ cid \in [Callers -> Containers \cup {None}]
    /\ unsaved \in [Callers -> BOOLEAN]
    /\ result \in [Callers -> {"none", "ok", "err"}]
    /\ disturbed \in SUBSET Servers

\* What the row of s claims is what the runtime has.
RowMatchesRuntime(s) ==
    /\ \A c \in Containers : ctrOwner[c] = s /\ Exists(c) => Live(s) /\ rowCid[s] = c
    /\ Live(s) /\ rowCid[s] # None => Exists(rowCid[s]) /\ ctrOwner[rowCid[s]] = s
    /\ rowStatus[s] = "running" =>
         rowCid[s] # None /\ ctrState[rowCid[s]] \in {"running", "exited"}
    /\ rowStatus[s] \in {"installing", "stopped"} =>
         rowCid[s] = None \/ ctrState[rowCid[s]] # "running"

\* Once all methods on a server have returned, and as long as none of them
\* overlapped another or was cut between a container change and the row update
\* that records it, the row and the runtime agree: no container without a row
\* that names it (DeleteServer leaves none behind), no row naming a removed
\* container, "running" only over a started container, "stopped" only over one
\* that is not running.  Failed calls without such a cut are included.
UndisturbedAgree ==
    \A s \in Servers : s \notin disturbed /\ ~Busy(s) => RowMatchesRuntime(s)

\* Whatever overlaps or fails, an invocation only ever acts on a container of
\* its own server, a row only names one, and a name is never held twice: the
\* ids that travel through rows and locals between steps do not mix servers up.
OwnContainersOnly ==
    /\ \A p \in Callers : cid[p] # None => ctrOwner[cid[p]] = srv[p]
    /\ \A s \in Servers : rowCid[s] # None => ctrOwner[rowCid[s]] = s
    /\ \A c, d \in Containers :
         ctrOwner[c] = ctrOwner[d] /\ Exists(c) /\ Exists(d) => c = d

=============================================================================
