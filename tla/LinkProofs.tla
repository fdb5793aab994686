------------------------------ MODULE LinkProofs ------------------------------
(***************************************************************************)
(* Proofs about the node's links to the outside: AgentSession, the one to  *)
(* the Panel, for any number of sessions, commands and calls and any       *)
(* faults, and FrpTunnel, the one to the relay, for any servers, ports and *)
(* faults.                                                                 *)
(***************************************************************************)
EXTENDS AgentSession, FrpTunnel, FiniteSetTheorems, TLAPS

(* AgentSession.                                                           *)

\* What a session has left behind.  While it lasts, only its stream goroutine can have
\* reported: the heartbeat goroutine ends with the context, never by itself.  So when
\* runOnce has a result, no command is being run.
SessionView ==
    /\ run \in {"boot", "listen"} => sess = 0
    /\ \A n \in Sessions : n > sess => hb[n] = "none" /\ st[n] = "none" /\ errs[n] = 0
    /\ \A n \in Sessions : n < sess => st[n] # "busy"
    /\ run \in {"dial", "backoff"} => \A n \in Sessions : st[n] # "busy"
    /\ run = "session" => sess \in Sessions
    /\ run = "session" /\ ~cancelled =>
         /\ hb[sess] \notin {"return", "ended"}
         /\ errs[sess] > 0 => st[sess] = "ended"
    /\ run \in {"ending", "drain", "returned"} => cancelled
    /\ run = "failed" => sess = 0

-----------------------------------------------------------------------------
\* The daemon starts well typed and without a session.
LEMMA SessionTypedInit == SessionInit => SessionTypeOK /\ SessionView
<1> SUFFICES ASSUME SessionInit PROVE SessionTypeOK /\ SessionView
  OBVIOUS
<1>1. SessionTypeOK
  <2>1. 0 \in 0..MaxSessions /\ 0 \in 0..MaxCommands /\ 0 \in 0..MaxCalls /\ 0 \in 0..2
    BY SessionAssumption
  <2>2. alive \in [Sessions -> BOOLEAN]
    BY DEF SessionInit
  <2>3. errs \in [Sessions -> 0..2]
    BY <2>1 DEF SessionInit
  <2>4. api \in Nat /\ held \in Nat /\ api + held <= MaxCalls
    BY SessionAssumption DEF SessionInit
  <2>5. cancelled \in BOOLEAN /\ reach \in BOOLEAN /\ serving \in BOOLEAN
    BY Zenon DEF SessionInit
  <2> QED
    BY <2>1, <2>2, <2>3, <2>4, <2>5 DEF SessionInit, SessionTypeOK
<1>2. SessionView
  BY DEF SessionInit, SessionView
<1> QED
  BY <1>1, <1>2

\* Type correctness, one step per group of actions.
LEMMA SessionTypedStep ==
    ASSUME SessionTypeOK, SessionView, [SessionNext]_sessionVars
    PROVE  SessionTypeOK'
<1> USE SessionAssumption DEF SessionTypeOK, gVars
<1>1. CASE BootDial \/ Listen \/ Backoff \/ Ending \/ GracefulStop
  BY <1>1 DEF BootDial, Listen, Backoff, Ending, GracefulStop
<1>2. CASE RunOnce
  <2>1. CASE reach /\ sess < MaxSessions /\ sess' = sess + 1
    <3>1. sess + 1 \in Sessions
      BY <2>1 DEF Sessions
    <3>2. sess' \in 0..MaxSessions
      BY <2>1
    <3>3. /\ alive' \in [Sessions -> BOOLEAN] /\ run' = "session" /\ errs' = errs
          /\ hb' \in [Sessions -> {"none", "select", "call", "pause", "return", "ended"}]
          /\ st' \in [Sessions -> {"none", "open", "recv", "busy", "return", "ended"}]
      <4>1. sess' # sess
        BY <2>1
      <4> QED
        BY <1>2, <3>1, <4>1 DEF RunOnce
    <3> QED
      BY <1>2, <3>2, <3>3 DEF RunOnce
  <2>2. CASE UNCHANGED <<sess, gVars>>
    BY <1>2, <2>2 DEF RunOnce
  <2> QED
    BY <1>2, <2>1, <2>2 DEF RunOnce
<1>3. CASE SessionEnd
  BY <1>3 DEF SessionEnd, SessionView
<1>4. CASE ApiCall \/ ApiReturn \/ ApiHold \/ ApiResume \/ Signal \/ PanelLost \/ PanelBack
  <2>1. CASE ApiCall
    BY <2>1 DEF ApiCall
  <2>2. CASE ApiReturn \/ ApiHold \/ ApiResume
    BY <2>2 DEF ApiReturn, ApiHold, ApiResume
  <2>3. CASE Signal \/ PanelLost \/ PanelBack
    BY <2>3 DEF Signal, PanelLost, PanelBack
  <2> QED
    BY <1>4, <2>1, <2>2, <2>3
<1>5. ASSUME NEW n \in Sessions, HeartbeatStep(n) \/ HeartbeatStop(n) PROVE SessionTypeOK'
  BY <1>5 DEF HeartbeatStep, HeartbeatStop, HeartbeatTick, HeartbeatCall, HeartbeatRetry, HbTo
<1>6. ASSUME NEW n \in Sessions, StreamStep(n) \/ StreamEOF(n) PROVE SessionTypeOK'
  BY <1>6 DEF StreamStep, StreamOpen, StreamDispatched, StreamFail, StreamEOF, StTo
<1>7. ASSUME NEW n \in Sessions, StreamRecv(n) PROVE SessionTypeOK'
  BY <1>7 DEF StreamRecv
<1>8. ASSUME NEW n \in Sessions, SendErr(n) PROVE SessionTypeOK'
  <2>1. errs[n] + 1 \in 0..2
    BY <1>8 DEF SendErr
  <2> QED
    BY <1>8, <2>1 DEF SendErr
<1>9. CASE UNCHANGED sessionVars
  BY <1>9 DEF sessionVars
<1> QED
  BY <1>1, <1>2, <1>3, <1>4, <1>5, <1>6, <1>7, <1>8, <1>9 DEF SessionNext, RunStep

\* Every step keeps what is known of earlier sessions and of the current one.
LEMMA ViewStep ==
    ASSUME SessionTypeOK, SessionView, [SessionNext]_sessionVars
    PROVE  SessionView'
<1> USE SessionAssumption DEF SessionTypeOK, SessionView, Sessions, gVars
<1>1. CASE BootDial \/ Listen \/ Backoff \/ Ending \/ GracefulStop
  BY <1>1 DEF BootDial, Listen, Backoff, Ending, GracefulStop
<1>2. CASE RunOnce
  BY <1>2 DEF RunOnce
<1>3. CASE SessionEnd
  BY <1>3 DEF SessionEnd
<1>4. CASE ApiCall \/ ApiReturn \/ ApiHold \/ ApiResume \/ Signal \/ PanelLost \/ PanelBack
  BY <1>4 DEF ApiCall, ApiReturn, ApiHold, ApiResume, Signal, PanelLost, PanelBack
<1>5. ASSUME NEW n \in Sessions, HeartbeatStep(n) \/ HeartbeatStop(n) PROVE SessionView'
  BY <1>5 DEF HeartbeatStep, HeartbeatStop, HeartbeatTick, HeartbeatCall, HeartbeatRetry, HbTo, Done
<1>6. ASSUME NEW n \in Sessions, StreamStep(n) \/ StreamEOF(n) PROVE SessionView'
  BY <1>6 DEF StreamStep, StreamOpen, StreamDispatched, StreamFail, StreamEOF, StTo, Done
<1>7. ASSUME NEW n \in Sessions, StreamRecv(n) PROVE SessionView'
  BY <1>7 DEF StreamRecv, Done
<1>8. ASSUME NEW n \in Sessions, SendErr(n) PROVE SessionView'
  BY <1>8 DEF SendErr
<1>9. CASE UNCHANGED sessionVars
  BY <1>9 DEF sessionVars
<1> QED
  BY <1>1, <1>2, <1>3, <1>4, <1>5, <1>6, <1>7, <1>8, <1>9 DEF SessionNext, RunStep

\* The invariant of every behaviour.
LEMMA SessionInvariant == SessionSpec => [](SessionTypeOK /\ SessionView)
<1>1. SessionTypeOK /\ SessionView /\ [SessionNext]_sessionVars => SessionTypeOK' /\ SessionView'
  BY SessionTypedStep, ViewStep
<1> QED
  BY SessionTypedInit, <1>1, PTL DEF SessionSpec

\* The main goroutine and the sessions keep their types; errCh never holds more than
\* the two results it has room for.
THEOREM SessionTypeCorrect == SessionSpec => []SessionTypeOK
  BY SessionInvariant, PTL

\* Commands of the Panel are run one at a time over any number of reconnections.
THEOREM CommandsOneByOneCorrect == SessionSpec => []CommandsOneByOne
<1>1. SessionTypeOK /\ SessionView => CommandsOneByOne
  BY SessionAssumption DEF SessionTypeOK, SessionView, CommandsOneByOne, Sessions
<1> QED
  BY SessionInvariant, <1>1, PTL

-----------------------------------------------------------------------------
(* FrpTunnel.                                                              *)

\* An operation that works on a mapping has one.
KeyKnown ==
    /\ mpc \in {"r_panel", "r_save", "l_row"} => key \in Keys
    /\ kind = "register" => key \in Keys

\* Between the two halves of an operation the Panel is already where the row is
\* going to be, and a server under registration is not given up meanwhile.
HalfDone ==
    /\ mpc = "r_save" => key \in panel
    /\ mpc = "l_row" => key \notin panel

\* What rebuildLocked has established when it gets to the child.
Rebuilt ==
    /\ mpc \in {"stop", "restart", "start"} => config = mappings
    /\ mpc = "stop" => mappings = {}
    /\ mpc = "start" /\ Cardinality(mappings) >= 2 => cmd = "none"

\* What a live child serves if nothing has failed since it was started: all mappings,
\* but perhaps the one being registered.  The last mapping goes only in a release that
\* then stops the child, so a mapping that is alone is not new to it.
Registering == mpc \in {"write", "stop", "restart", "start"} /\ kind = "register"
Serves ==
    /\ mpc \in {"restart", "start"} => mappings # {}
    /\ mpc = "start" /\ cmd = "live" => Cardinality(mappings) = 1
    /\ Registering => key \in mappings
    /\ mpc = "free" => kind = "none"
    /\ mpc \in {"r_panel", "r_save"} => kind = "register"
    /\ mpc \in {"l_next", "l_row"} => kind = "release"
    /\ cmd = "live" /\ ~missed =>
         /\ mappings = {} => kind = "release"
         /\ Registering => mappings \subseteq loaded \cup {key} /\ (mappings = {key} => key \in loaded)
         /\ ~Registering => mappings \subseteq loaded

TunnelInv ==
    /\ TunnelTypeOK /\ KeyKnown /\ HalfDone /\ Rebuilt /\ Serves
    /\ PanelAgrees /\ MappedHasRow /\ ReloadTakesEffect

-----------------------------------------------------------------------------
\* The manager starts well typed and without an operation.
LEMMA TunnelTypedInit == TunnelInit => TunnelTypeOK /\ KeyKnown
<1> SUFFICES ASSUME TunnelInit PROVE TunnelTypeOK /\ KeyKnown
  OBVIOUS
<1>1. closed \in BOOLEAN /\ missed \in BOOLEAN
  BY Zenon DEF TunnelInit
<1> QED
  BY <1>1, TunnelAssumption DEF TunnelInit, TunnelTypeOK, KeyKnown

\* Type correctness, one step per action.
LEMMA TunnelTypedStep ==
    TunnelTypeOK /\ KeyKnown /\ [TunnelNext]_tunnelVars => TunnelTypeOK' /\ KeyKnown'
<1> SUFFICES ASSUME TunnelTypeOK, KeyKnown, [TunnelNext]_tunnelVars
             PROVE  TunnelTypeOK' /\ KeyKnown'
  OBVIOUS
<1>k. \A k \in Keys : k[1] \in Servers
  BY DEF Keys
<1> USE TunnelAssumption DEF TunnelTypeOK, KeyKnown
<1>1. ASSUME NEW k \in Keys, RegisterPort(k) PROVE TunnelTypeOK' /\ KeyKnown'
  BY <1>1 DEF RegisterPort, Begin, procVars, opVars, history
<1>2. CASE RegisterPanel
  BY <1>2, <1>k DEF RegisterPanel, Goto, Finish, procVars
<1>3. CASE RegisterSave
  BY <1>3, <1>k DEF RegisterSave, Goto, Finish, procVars
<1>4. ASSUME NEW ks \in SUBSET Keys, Release(ks) PROVE TunnelTypeOK' /\ KeyKnown'
  BY <1>4 DEF Release, Begin, procVars, history
<1>b. (missed' = TRUE \/ missed' = FALSE \/ missed' = missed) => missed' \in BOOLEAN
  BY Zenon DEF TunnelTypeOK
<1>5. CASE ReleasePanel
  BY <1>5, <1>k, <1>b DEF ReleasePanel, Goto, Finish, procVars
<1>6. CASE ReleaseRow
  BY <1>6, <1>k, <1>b DEF ReleaseRow, Goto, Finish, procVars
<1>7. CASE WriteConfig
  <2>1. (CASE mappings = {} -> "stop" [] Cardinality(mappings) = 1 -> "start" [] OTHER -> "restart")
          \in {"stop", "start", "restart"}
    OBVIOUS
  <2> QED
    BY <1>7, <1>k, <1>b, <2>1 DEF WriteConfig, WriteConfigAtomic, Goto, Fail, Finish, procVars
<1>8. CASE StopProcess
  <2>1. closers' \in 0..MaxClosers
    BY <1>8 DEF StopProcess, StopOk, StopErr
  <2> QED
    BY <1>8, <1>k, <1>b, <2>1 DEF StopProcess, Goto, Fail, Finish
<1>9. CASE StartProcess
  BY <1>9, <1>k, <1>b DEF StartProcess, Fail, Finish
<1>10. CASE FrpcExit
  BY <1>10 DEF FrpcExit, opVars, history
<1>11. CASE CloseWait
  BY <1>11 DEF CloseWait, opVars, history
<1>12. CASE WatchStep
  <2>1. CASE WatchSelect
    <3>1. wpc' \in {"off", "wait"} /\ closed' = closed
      BY <2>1 DEF WatchSelect
    <3> QED
      BY <2>1, <3>1 DEF WatchSelect, opVars, procVars, history
  <2>2. CASE WatchRecv
    BY <2>2 DEF WatchRecv, opVars, history
  <2>3. CASE WatchReload
    BY <2>3 DEF WatchReload, Reload, Begin, procVars, history
  <2> QED
    BY <1>12, <2>1, <2>2, <2>3 DEF WatchStep
<1>13. ASSUME NEW s \in Servers, RollbackCreate(s) \/ DeleteServer(s) PROVE TunnelTypeOK' /\ KeyKnown'
  BY <1>13 DEF RollbackCreate, DeleteServer, DeleteRow, opVars, procVars
<1>14. CASE DaemonRestart
  <2>1. closed' \in BOOLEAN /\ missed' \in BOOLEAN
    BY <1>14, Zenon DEF DaemonRestart
  <2> QED
    BY <1>14, <2>1 DEF DaemonRestart
<1>17. CASE Close
  <2>1. closers' \in 0..MaxClosers
    BY <1>17 DEF Close, StopOk, StopErr
  <2> QED
    BY <1>17, <2>1 DEF Close, opVars, history
<1>15. CASE UNCHANGED tunnelVars
  BY <1>15 DEF tunnelVars
<1>16. CASE Request
  <2>1. \A s \in Servers : Rows(s) \in SUBSET Keys
    BY DEF Rows
  <2> QED
    BY <1>16, <1>1, <1>4, <2>1 DEF Request, ReleaseServer, ReleasePort
<1> QED
  BY <1>2, <1>3, <1>5, <1>6, <1>7, <1>8, <1>9, <1>10, <1>11, <1>12, <1>13, <1>14, <1>15, <1>16, <1>17
  DEF TunnelNext, OpStep

\* Every step keeps the halves of an operation, the table and the Panel, and the
\* mappings in memory in step.
LEMMA AgreeStep ==
    ASSUME TunnelTypeOK, KeyKnown, HalfDone, PanelAgrees, MappedHasRow, [TunnelNext]_tunnelVars
    PROVE  HalfDone' /\ PanelAgrees' /\ MappedHasRow'
<1> USE DEF TunnelTypeOK, KeyKnown, HalfDone, PanelAgrees, MappedHasRow
<1>1. ASSUME NEW k \in Keys, RegisterPort(k) PROVE HalfDone' /\ PanelAgrees' /\ MappedHasRow'
  BY <1>1 DEF RegisterPort, Begin, opVars, history
<1>2. CASE RegisterPanel
  BY <1>2 DEF RegisterPanel, Goto, Finish
<1>3. CASE RegisterSave
  BY <1>3 DEF RegisterSave, Goto, Finish
<1>4. ASSUME NEW ks \in SUBSET Keys, Release(ks) PROVE HalfDone' /\ PanelAgrees' /\ MappedHasRow'
  BY <1>4 DEF Release, Begin, history
<1>5. CASE ReleasePanel
  BY <1>5 DEF ReleasePanel, Goto, Finish
<1>6. CASE ReleaseRow
  BY <1>6 DEF ReleaseRow, Goto, Finish
<1>7. CASE WriteConfig \/ StopProcess \/ StartProcess
  <2>1. panel' = panel /\ mappings' = mappings /\ cut' = cut /\ gone' = gone
    BY <1>7 DEF WriteConfig, WriteConfigAtomic, StopProcess, StartProcess
  <2>2. mpc \notin {"r_save", "l_row"} /\ mpc' \notin {"r_save", "l_row"}
    <3>1. CASE WriteConfig
      <4>1. (CASE mappings = {} -> "stop" [] Cardinality(mappings) = 1 -> "start" [] OTHER -> "restart")
              \in {"stop", "start", "restart"}
        OBVIOUS
      <4> QED
        BY <3>1, <4>1 DEF WriteConfig, WriteConfigAtomic, Goto, Fail, Finish
    <3>2. CASE StopProcess
      BY <3>2 DEF StopProcess, Goto, Fail, Finish
    <3>3. CASE StartProcess
      BY <3>3 DEF StartProcess, Fail, Finish
    <3> QED
      BY <1>7, <3>1, <3>2, <3>3
  <2>3. \A k \in Keys : rows'[k] # "none" <=> rows[k] # "none"
    BY <1>7 DEF WriteConfig, WriteConfigAtomic, StopProcess, StartProcess, Fail
  <2> QED
    BY <2>1, <2>2, <2>3
<1>8. CASE FrpcExit \/ CloseWait \/ WatchStep
  BY <1>8 DEF FrpcExit, CloseWait, WatchStep, WatchSelect, WatchRecv, WatchReload, Reload, Begin, opVars, history
<1>9. ASSUME NEW s \in Servers, RollbackCreate(s) \/ DeleteServer(s)
      PROVE  HalfDone' /\ PanelAgrees' /\ MappedHasRow'
  BY <1>9 DEF RollbackCreate, DeleteServer, DeleteRow, opVars
<1>10. CASE DaemonRestart
  BY <1>10 DEF DaemonRestart
<1>13. CASE Close
  BY <1>13 DEF Close, opVars, history
<1>11. CASE UNCHANGED tunnelVars
  BY <1>11 DEF tunnelVars
<1>12. CASE Request
  <2>1. \A s \in Servers : Rows(s) \in SUBSET Keys
    BY DEF Rows
  <2> QED
    BY <1>12, <1>1, <1>4, <2>1 DEF Request, ReleaseServer, ReleasePort
<1> QED
  BY <1>2, <1>3, <1>5, <1>6, <1>7, <1>8, <1>9, <1>10, <1>11, <1>12, <1>13 DEF TunnelNext, OpStep

\* A rebuild that gets through leaves frpc serving the mappings, exactly those when
\* there are two or more; a child that goes on running serves what it did.
LEMMA RebuiltStep ==
    ASSUME TunnelTypeOK, KeyKnown, Rebuilt, Serves, ReloadTakesEffect, [TunnelNext]_tunnelVars
    PROVE  Rebuilt' /\ Serves' /\ ReloadTakesEffect'
<1> USE DEF TunnelTypeOK, KeyKnown, Rebuilt, Serves, Registering, ReloadTakesEffect
<1>c. Cardinality({}) = 0 /\ \A k : Cardinality({k}) = 1
  BY FS_EmptySet, FS_Singleton
<1>s. Cardinality(mappings) = 1 /\ key \in mappings => mappings = {key}
  <2>1. IsFiniteSet(Keys)
    BY TunnelAssumption, FS_Product DEF Keys
  <2>2. IsFiniteSet(mappings)
    BY <2>1, FS_Subset
  <2> QED
    BY <2>2, FS_Singleton
<1>1. CASE Request
  <2>1. CASE \E k \in Keys : RegisterPort(k)
    BY <2>1 DEF RegisterPort, Begin, procVars, opVars, history
  <2>2. ASSUME NEW ks, Release(ks) PROVE Rebuilt' /\ Serves' /\ ReloadTakesEffect'
    BY <2>2 DEF Release, Begin, procVars, history
  <2> QED
    BY <1>1, <2>1, <2>2 DEF Request, ReleaseServer, ReleasePort
<1>2. CASE RegisterPanel
  BY <1>2 DEF RegisterPanel, Goto, Finish, procVars
<1>3. CASE RegisterSave
  BY <1>3 DEF RegisterSave, Goto, Finish, procVars
<1>4. CASE ReleasePanel
  BY <1>4 DEF ReleasePanel, Goto, Finish, procVars
<1>5. CASE ReleaseRow
  BY <1>5 DEF ReleaseRow, Goto, Finish, procVars
<1>6. CASE WriteConfig
  <2>1. ASSUME config' = mappings,
               mpc' = (CASE mappings = {} -> "stop" [] Cardinality(mappings) = 1 -> "start" [] OTHER -> "restart"),
               UNCHANGED <<mappings, kind, key, procVars, missed, result>>
        PROVE  Rebuilt' /\ Serves' /\ ReloadTakesEffect'
    BY <1>6, <1>c, <2>1 DEF WriteConfig, procVars
  <2> QED
    BY <1>6, <2>1 DEF WriteConfig, WriteConfigAtomic, Goto, Fail, Finish, procVars
<1>7. CASE StopProcess
  BY <1>7 DEF StopProcess, Goto, Fail, Finish
<1>8. CASE StartProcess
  BY <1>8, <1>s DEF StartProcess, Fail, Finish
<1>9. CASE FrpcExit \/ CloseWait \/ WatchStep
  BY <1>9 DEF FrpcExit, CloseWait, WatchStep, WatchSelect, WatchRecv, WatchReload, Reload, Begin, opVars, procVars, history
<1>10. ASSUME NEW s \in Servers, RollbackCreate(s) \/ DeleteServer(s)
       PROVE  Rebuilt' /\ Serves' /\ ReloadTakesEffect'
  BY <1>10 DEF RollbackCreate, DeleteServer, opVars, procVars
<1>11. CASE DaemonRestart
  BY <1>11 DEF DaemonRestart
<1>13. CASE Close
  BY <1>13 DEF Close, opVars, history
<1>12. CASE UNCHANGED tunnelVars
  BY <1>12 DEF tunnelVars
<1> QED
  BY <1>1, <1>2, <1>3, <1>4, <1>5, <1>6, <1>7, <1>8, <1>9, <1>10, <1>11, <1>12, <1>13 DEF TunnelNext, OpStep

\* The invariant of every behaviour.
LEMMA TunnelInvariant == TunnelSpec => []TunnelInv
<1>1. TunnelInit => TunnelInv
  BY TunnelTypedInit DEF TunnelInv, TunnelInit, HalfDone, Rebuilt, Serves, Registering, PanelAgrees, MappedHasRow, ReloadTakesEffect
<1>2. TunnelInv /\ [TunnelNext]_tunnelVars => TunnelInv'
  BY TunnelTypedStep, AgreeStep, RebuiltStep DEF TunnelInv
<1> QED
  BY <1>1, <1>2, PTL DEF TunnelSpec

\* The child, the operation and the table keep their types.
THEOREM TunnelTypeCorrect == TunnelSpec => []TunnelTypeOK
<1>1. TunnelInv => TunnelTypeOK
  BY DEF TunnelInv
<1> QED
  BY <1>1, TunnelInvariant, PTL

\* Of a server that exists, the Panel and the tunnels table hold the same mappings, but
\* for the one an operation is at and those whose two halves came apart and were not
\* brought together since; a row deleted by another process at any time included.
THEOREM PanelAgreesCorrect == TunnelSpec => []PanelAgrees
<1>1. TunnelInv => PanelAgrees
  BY DEF TunnelInv
<1> QED
  BY <1>1, TunnelInvariant, PTL

\* Every mapping frpc may be given has a row, unless its server was given up or deleted.
THEOREM MappedHasRowCorrect == TunnelSpec => []MappedHasRow
<1>1. TunnelInv => MappedHasRow
  BY DEF TunnelInv
<1> QED
  BY <1>1, TunnelInvariant, PTL

\* Between operations a live frpc serves every mapping, unless an operation has failed
\* since it was started; after one that returned nil and left two or more, exactly those.
THEOREM ReloadTakesEffectCorrect == TunnelSpec => []ReloadTakesEffect
<1>1. TunnelInv => ReloadTakesEffect
  BY DEF TunnelInv
<1> QED
  BY <1>1, TunnelInvariant, PTL

=============================================================================
