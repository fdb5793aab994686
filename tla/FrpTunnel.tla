------------------------------ MODULE FrpTunnel ------------------------------
(***************************************************************************)
(* The NAT tunnels of a node: internal/tunnel/frp.go (FrpManager) with      *)
(* process.go (the frpc child), allocator.go (the Panel) and the tunnels    *)
(* table.                                                                   *)
(*                                                                         *)
(* Register, release and reload run under FrpManager.mu, so one operation   *)
(* is in flight at a time; each Panel call, database statement, file write  *)
(* and process operation of it is a step, because it may fail, the daemon   *)
(* may die after it, frpc may exit beside it and Watch runs without the     *)
(* lock.                                                                    *)
(*                                                                         *)
(* Process-exit plumbing: Start makes the channel p.wait and a goroutine    *)
(* `p.wait <- cmd.Wait(); close(p.wait)`, which reads p.wait unguarded      *)
(* while Stop sets it to nil.  Go leaves open whether the channel is read   *)
(* before or after cmd.Wait returns, so both are modelled.                  *)
(***************************************************************************)
EXTENDS Naturals, FiniteSets

CONSTANTS Servers, Ports,  \* server ids; local port and protocol
          Faults,          \* which failures the environment may inject
          MaxClosers,      \* bound: exited children whose close(p.wait) is still due
          None             \* no value

Keys == Servers \X Ports

ASSUME TunnelAssumption ==
    /\ None \notin Keys \cup Servers
    /\ Faults \subseteq {"panel", "db", "io", "frpc", "fk", "crash"}
    /\ MaxClosers \in Nat
    /\ IsFiniteSet(Servers) /\ IsFiniteSet(Ports)

VARIABLES
    panel,     \* mappings the Panel has allocated a remote port for
    rows,      \* tunnels.status by mapping, or "none"
    mappings,  \* FrpManager.mappings
    config,    \* mappings in frpc.toml
    cmd,       \* p.cmd: "none", or the child, "live" or "dead"
    loaded,    \* mappings the live frpc serves
    pwait,     \* channel in p.wait: "nil", "open", "value" (exit reported), "closed"
    closers,   \* goroutines that have reported and still have to close(p.wait)
    mpc,       \* next step of the operation holding the lock, or "free"
    kind,      \* which operation it is
    key,       \* the mapping it is at
    rest,      \* mappings it has still to release
    result,    \* what the last operation that came to its work returned
    rollback,  \* servers whose CreateServer must give up after a failed registration
    wpc,       \* next step of Watch, "off" once it cannot hear of a child any more
    closed,    \* FrpManager.closed: Run is returning
    gone,      \* servers whose row has been deleted; their ids do not come back
    cut,       \* history: mappings whose Panel call and row update came apart
    missed     \* history: an operation on the mappings has failed since the child was started

procVars == <<cmd, loaded, pwait, closers>>
opVars == <<mpc, kind, key, rest, result>>
tunnelVars == <<panel, rows, mappings, config, cmd, loaded, pwait, closers,
                mpc, kind, key, rest, result, rollback, wpc, closed, gone, cut, missed>>
history == <<gone, cut, missed>>

Rows(s) == {k \in Keys : k[1] = s /\ rows[k] # "none"}

\* An operation takes the lock and begins at step `first`.
Begin(first, what, k, ks) ==
    /\ mpc = "free"
    /\ mpc' = first /\ kind' = what /\ key' = k /\ rest' = ks
    /\ UNCHANGED result

Goto(next) == mpc' = next /\ UNCHANGED <<kind, key, rest, result, rollback>>

\* The operation returns and releases the lock; a RegisterPort that fails makes
\* CreateServer give the server up.
Finish(res) ==
    /\ mpc' = "free" /\ kind' = "none" /\ key' = None /\ rest' = {}
    /\ result' = res
    /\ rollback' = IF res = "err" /\ kind = "register" THEN rollback \cup {key[1]} ELSE rollback

-----------------------------------------------------------------------------
(* RegisterPort.                                                             *)

\* A mapping that has a row already is returned as it is: nothing is rebuilt or
\* started, whether or not a child serves it.
RegisterPort(k) ==
    /\ k[1] \notin rollback
    /\ \/ /\ rows[k] = "none" \/ "db" \in Faults
          /\ Begin("r_panel", "register", k, {})
       \/ rows[k] # "none" /\ mpc = "free" /\ UNCHANGED opVars
    /\ UNCHANGED <<panel, rows, mappings, config, procVars, rollback, wpc, closed, history>>

\* RegisterTunnel; when the answer is lost the port stays allocated.
RegisterPanel ==
    /\ mpc = "r_panel"
    /\ \/ panel' = panel \cup {key} /\ Goto("r_save") /\ UNCHANGED cut
       \/ "panel" \in Faults /\ Finish("err") /\ UNCHANGED <<panel, cut>>
       \/ /\ "panel" \in Faults /\ Finish("err")
          /\ panel' = panel \cup {key} /\ cut' = cut \cup {key}
    /\ UNCHANGED <<rows, mappings, config, procVars, wpc, closed, gone, missed>>

\* MUTANT: the mapping is remembered before its row is saved.
RegisterSaveLate ==
    /\ mpc = "r_save"
    /\ mappings' = mappings \cup {key}
    /\ \/ /\ rows' = [rows EXCEPT ![key] = "pending"]
          /\ Goto("write")
          /\ UNCHANGED cut
       \/ "db" \in Faults /\ Finish("err") /\ cut' = cut \cup {key} /\ UNCHANGED rows
    /\ UNCHANGED <<panel, config, procVars, wpc, closed, gone, missed>>

\* SaveTunnel, which a foreign key refuses when the server is gone, then the
\* mapping in memory.
RegisterSave ==
    /\ mpc = "r_save"
    /\ \/ /\ key[1] \notin gone \/ "fk" \in Faults
          /\ rows' = [rows EXCEPT ![key] = "pending"]
          /\ mappings' = mappings \cup {key}
          /\ Goto("write")
          /\ cut' = cut \ {key}
       \/ /\ key[1] \in gone \/ "db" \in Faults
          /\ Finish("err")
          /\ cut' = cut \cup {key}
          /\ UNCHANGED <<rows, mappings>>
    /\ UNCHANGED <<panel, config, procVars, wpc, closed, gone, missed>>

\* rebuildLocked failed: RegisterPort marks the row, errors ignored.
Fail ==
    /\ Finish("err")
    /\ missed' = TRUE
    /\ rows' = IF kind = "register" /\ rows[key] # "none"
                 THEN [rows EXCEPT ![key] = "error"] ELSE rows

-----------------------------------------------------------------------------
(* ReleasePort and ReleaseServer: for each row the Panel first, then the row *)
(* and the mapping.                                                          *)

\* ListTunnels, or its error.
Release(ks) ==
    /\ \/ Begin("l_next", "release", None, ks)
       \/ "db" \in Faults /\ mpc = "free" /\ result' = "err" /\ UNCHANGED <<mpc, kind, key, rest>>
    /\ UNCHANGED <<panel, rows, mappings, config, procVars, rollback, wpc, closed, history>>

ReleasePort(s, p) == Release(Rows(s) \cap {<<s, p>>})
ReleaseServer(s) == Release(Rows(s))

\* MUTANT: a failing ReleaseTunnel is ignored.
ReleasePanelUnchecked ==
    /\ mpc = "l_next"
    /\ \/ /\ rest = {} /\ Goto("write") /\ UNCHANGED panel
       \/ \E k \in rest :
            /\ panel' = panel \ {k} \/ ("panel" \in Faults /\ UNCHANGED panel)
            /\ mpc' = "l_row" /\ key' = k /\ rest' = rest \ {k}
            /\ UNCHANGED <<kind, result, rollback>>
    /\ UNCHANGED <<rows, mappings, config, procVars, wpc, closed, history>>

\* The next row: ReleaseTunnel, which may fail, or have done its work when the
\* answer is lost.  With no row left the config is rebuilt.
ReleasePanel ==
    /\ mpc = "l_next"
    /\ \/ rest = {} /\ Goto("write") /\ UNCHANGED <<panel, cut, missed>>
       \/ \E k \in rest :
            /\ panel' = panel \ {k}
            /\ mpc' = "l_row" /\ key' = k /\ rest' = rest \ {k}
            /\ UNCHANGED <<kind, result, rollback, cut, missed>>
       \/ \E k \in rest :
            /\ "panel" \in Faults /\ Finish("err") /\ missed' = TRUE
            /\ \/ UNCHANGED <<panel, cut>>
               \/ panel' = panel \ {k} /\ cut' = cut \cup {k}
    /\ UNCHANGED <<rows, mappings, config, procVars, wpc, closed, gone>>

ReleaseRow ==
    /\ mpc = "l_row"
    /\ \/ /\ rows' = [rows EXCEPT ![key] = "none"]
          /\ mappings' = mappings \ {key}
          /\ Goto("l_next")
          /\ cut' = cut \ {key} /\ UNCHANGED missed
       \/ /\ "db" \in Faults /\ Finish("err")
          /\ cut' = cut \cup {key} /\ missed' = TRUE
          /\ UNCHANGED <<rows, mappings>>
    /\ UNCHANGED <<panel, config, procVars, wpc, closed, gone>>

-----------------------------------------------------------------------------
(* rebuildLocked: write frpc.toml, then stop, start or restart the child.    *)

Reload(who) == Begin("write", who, None, {})

\* GenerateConfig and WriteConfigAtomic: the file is replaced as a whole.
WriteConfigAtomic == config' = mappings

\* MUTANT: the child is only ever started, never restarted.
WriteConfigNoRestart ==
    /\ mpc = "write"
    /\ WriteConfigAtomic
    /\ Goto(IF mappings = {} THEN "stop" ELSE "start")
    /\ UNCHANGED <<panel, rows, mappings, procVars, wpc, closed, history>>

WriteConfig ==
    /\ mpc = "write"
    /\ \/ /\ WriteConfigAtomic
          /\ Goto(CASE mappings = {} -> "stop"
                    [] Cardinality(mappings) = 1 -> "start"
                    [] OTHER -> "restart")
          /\ UNCHANGED <<rows, missed>>
       \/ "io" \in Faults /\ Fail /\ UNCHANGED config
    /\ UNCHANGED <<panel, mappings, procVars, wpc, closed, gone, cut>>

\* osProcessController.Stop.  A child that has exited and reported it, or none,
\* is no work.  The exit of a live one is reported to p.wait, which is nil by
\* now: Stop waits five seconds, finds nothing to kill and fails.  Only if the
\* channel was read in time does the report arrive, with close(p.wait) due.  A
\* Watch waiting on the old channel hears nothing more, or that it is closed.
StopOk ==
    \/ cmd = "none" /\ UNCHANGED closers
    \/ cmd = "dead" /\ pwait \in {"value", "closed"} /\ UNCHANGED closers
    \/ cmd = "live" /\ closers < MaxClosers /\ closers' = closers + 1
StopErr == (cmd = "live" \/ (cmd = "dead" /\ pwait = "open")) /\ UNCHANGED closers

StopProcess ==
    /\ mpc \in {"stop", "restart"}
    /\ cmd' = "none" /\ loaded' = {} /\ pwait' = "nil"
    /\ \/ /\ StopOk
          /\ IF mpc = "restart" THEN Goto("start") ELSE Finish("ok")
          /\ UNCHANGED <<rows, missed>>
       \/ StopErr /\ Fail
    /\ wpc' = IF wpc = "wait" /\ cmd # "none" THEN "off" ELSE wpc
    /\ UNCHANGED <<panel, mappings, config, closed, gone, cut>>

\* osProcessController.Start: nothing to do while p.cmd is set, dead child or not.
StartProcess ==
    /\ mpc = "start"
    /\ \/ cmd # "none" /\ Finish("ok") /\ UNCHANGED <<rows, cmd, loaded, pwait, missed>>
       \/ /\ cmd = "none" /\ Finish("ok")
          /\ cmd' = "live" /\ loaded' = config /\ pwait' = "open"
          /\ missed' = FALSE /\ UNCHANGED rows
       \/ cmd = "none" /\ "frpc" \in Faults /\ Fail /\ UNCHANGED <<cmd, loaded, pwait>>
    /\ UNCHANGED <<panel, mappings, config, closers, wpc, closed, gone, cut>>

-----------------------------------------------------------------------------
(* The child, and Watch.                                                     *)

\* frpc exits, or is killed because the context of the call that started it has
\* ended; the goroutine reports it.
FrpcExit ==
    /\ cmd = "live" /\ closers < MaxClosers
    /\ pwait = "open"
    /\ cmd' = "dead" /\ loaded' = {} /\ pwait' = "value" /\ closers' = closers + 1
    /\ UNCHANGED <<panel, rows, mappings, config, opVars, rollback, wpc, closed, history>>

\* close(p.wait) of whatever channel is there now; a reported exit stays readable.
CloseWait ==
    /\ closers > 0 /\ pwait \in {"open", "value"}
    /\ closers' = closers - 1
    /\ pwait' = IF pwait = "value" THEN "value" ELSE "closed"
    /\ UNCHANGED <<panel, rows, mappings, config, cmd, loaded, opVars, rollback, wpc, closed, history>>

\* Watch takes the present channel, at first and after each reload; without a
\* child it gets a closed one and returns.
WatchSelect ==
    /\ wpc = "start" \/ (wpc = "reload" /\ kind # "watch")
    /\ wpc' = IF pwait = "nil" \/ closed THEN "off" ELSE "wait"
    /\ UNCHANGED <<panel, rows, mappings, config, procVars, opVars, rollback, closed, history>>

\* A closed channel ends Watch for good, an exit report is taken off it.
WatchRecv ==
    /\ wpc = "wait"
    /\ \/ pwait = "value" /\ wpc' = "backoff" /\ pwait' = IF closers = 0 THEN "closed" ELSE "open"
       \/ pwait = "closed" /\ wpc' = "off" /\ UNCHANGED pwait
    /\ UNCHANGED <<panel, rows, mappings, config, cmd, loaded, closers, opVars, rollback, closed, history>>

WatchReload ==
    /\ wpc = "backoff"
    /\ Reload("watch")
    /\ wpc' = "reload"
    /\ UNCHANGED <<panel, rows, mappings, config, procVars, rollback, closed, history>>

-----------------------------------------------------------------------------
\* db.DeleteServer: the row of a server goes and its tunnels with it (ON DELETE
\* CASCADE), but neither the Panel's allocations nor the mappings in memory.
\* foreign_keys is set on one connection of the pool only: on another the tunnels stay.
DeleteRow(s) ==
    /\ gone' = gone \cup {s}
    /\ \/ rows' = [k \in Keys |-> IF k[1] = s THEN "none" ELSE rows[k]]
       \/ "fk" \in Faults /\ UNCHANGED rows

\* CreateServer gives up a server after a failed registration; that it cannot delete
\* the row either is ignored.
RollbackCreate(s) ==
    /\ s \in rollback
    /\ DeleteRow(s) \/ ("db" \in Faults /\ UNCHANGED <<gone, rows>>)
    /\ rollback' = rollback \ {s}
    /\ UNCHANGED <<panel, mappings, config, procVars, opVars, wpc, closed, cut, missed>>

\* The end of DeleteServer: after a ReleaseServer in the daemon, and without one,
\* at any time, in the process of `oikos server delete`, which has no FrpManager.
DeleteServer(s) ==
    /\ s \notin gone
    /\ DeleteRow(s)
    /\ UNCHANGED <<panel, mappings, config, procVars, opVars, rollback, wpc, closed, cut, missed>>

\* Run returns after a signal: Watch's context is cancelled, and Close stops the
\* child without taking the manager's lock, beside whatever operation is in
\* flight.  The local API answers until its graceful stop: requests still come.
Close ==
    /\ ~closed
    /\ closed' = TRUE
    /\ cmd' = "none" /\ loaded' = {} /\ pwait' = "nil"
    /\ StopOk \/ StopErr
    /\ wpc' = IF wpc = "reload" THEN wpc ELSE "off"
    /\ UNCHANGED <<panel, rows, mappings, config, opVars, rollback, history>>

\* The daemon dies, has been closed, or panics (close of a nil or closed channel,
\* send on a closed one); frpc goes with it.  The mappings are not loaded again.
DaemonRestart ==
    /\ \/ "crash" \in Faults \/ closed
       \/ closers > 0 /\ pwait \in {"nil", "closed"}
       \/ cmd = "live" /\ pwait = "closed"
    /\ mappings' = {}
    /\ cmd' = "none" /\ loaded' = {} /\ pwait' = "nil" /\ closers' = 0
    /\ mpc' = "free" /\ kind' = "none" /\ key' = None /\ rest' = {} /\ result' = "none"
    /\ rollback' = {}
    /\ wpc' = "start" /\ closed' = FALSE
    /\ cut' = IF mpc \in {"r_save", "l_row"} THEN cut \cup {key} ELSE cut
    /\ missed' = FALSE
    /\ UNCHANGED <<panel, rows, config, gone>>

TunnelInit ==
    /\ panel = {} /\ rows = [k \in Keys |-> "none"] /\ mappings = {} /\ config = {}
    /\ cmd = "none" /\ loaded = {} /\ pwait = "nil" /\ closers = 0
    /\ mpc = "free" /\ kind = "none" /\ key = None /\ rest = {} /\ result = "none"
    /\ rollback = {} /\ wpc = "start" /\ closed = FALSE
    /\ gone = {} /\ cut = {} /\ missed = FALSE

Request ==
    \/ \E k \in Keys : RegisterPort(k)
    \/ \E s \in Servers : ReleaseServer(s)
    \/ \E s \in Servers, p \in Ports : ReleasePort(s, p)

\* The steps of the operation that holds the lock.
OpStep ==
    \/ RegisterPanel \/ RegisterSave \/ ReleasePanel \/ ReleaseRow
    \/ WriteConfig \/ StopProcess \/ StartProcess

WatchStep == WatchSelect \/ WatchRecv \/ WatchReload

TunnelNext ==
    \/ Request \/ OpStep \/ FrpcExit \/ CloseWait \/ WatchStep
    \/ (\E s \in Servers : RollbackCreate(s) \/ DeleteServer(s))
    \/ Close \/ DaemonRestart

TunnelSpec == TunnelInit /\ [][TunnelNext]_tunnelVars

\* Calls return, goroutines run, and the mutex starves nobody.
TunnelFairSpec ==
    /\ TunnelSpec
    /\ WF_tunnelVars(OpStep)
    /\ WF_tunnelVars(CloseWait)
    /\ SF_tunnelVars(WatchStep)

-----------------------------------------------------------------------------
(* Properties.                                                               *)

\* Type invariant of the Panel's view, the table, the child and the operation.
TunnelTypeOK ==
    /\ panel \subseteq Keys
    /\ rows \in [Keys -> {"none", "pending", "error"}]
    /\ mappings \subseteq Keys /\ config \subseteq Keys /\ loaded \subseteq Keys
    /\ cmd \in {"none", "live", "dead"}
    /\ pwait \in {"nil", "open", "value", "closed"}
    /\ closers \in 0..MaxClosers
    /\ mpc \in {"free", "r_panel", "r_save", "l_next", "l_row", "write", "stop", "restart", "start"}
    /\ kind \in {"none", "register", "release", "watch"}
    /\ key \in Keys \cup {None}
    /\ rest \subseteq Keys
    /\ result \in {"none", "ok", "err"}
    /\ rollback \subseteq Servers
    /\ wpc \in {"start", "wait", "backoff", "reload", "off"}
    /\ closed \in BOOLEAN
    /\ gone \subseteq Servers /\ cut \subseteq Keys /\ missed \in BOOLEAN

\* Of a server that exists, the tunnels table and the Panel have the same mappings,
\* except the one an operation is at and those where the two came apart: an answer
\* was lost, or the second half failed or was cut off.  Of these too, once a later
\* register or release of the mapping has got through.  (Of a server that was given
\* up or deleted from the command line the Panel keeps the ports for good.)
PanelAgrees ==
    \A k \in Keys \ cut :
        k[1] \notin gone /\ (mpc \in {"r_save", "l_row"} => k # key)
          => (k \in panel <=> rows[k] # "none")

\* What the next frpc.toml will forward of a server that exists has a row, so that a
\* release can find it, whatever another process deletes.
MappedHasRow == \A k \in mappings : k[1] \notin gone => rows[k] # "none"

\* Between operations a live frpc serves every mapping, unless a release or a rebuild
\* has failed since it was started: what was released may go on being served, because with one
\* mapping left Start does nothing (frp.go:149).  After an operation that returned
\* nil and left two or more, it serves exactly those, whatever failed before.
ReloadTakesEffect ==
    mpc = "free" /\ cmd = "live" =>
        /\ ~missed => mappings \subseteq loaded
        /\ result = "ok" /\ Cardinality(mappings) >= 2 => loaded = mappings

\* frp.go:170: when the frpc child of servers that exist exits and no shutdown is under
\* way, Watch brings it back.
ChildBroughtBack ==
    cmd = "dead" /\ mappings # {} /\ gone = {} /\ ~closed
      ~> cmd = "live" \/ mappings = {} \/ gone # {} \/ closed

=============================================================================
