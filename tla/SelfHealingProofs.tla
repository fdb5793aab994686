-------------------------- MODULE SelfHealingProofs --------------------------
(***************************************************************************)
(* Proofs about ServerLifecycle, for any sets of servers, containers and   *)
(* callers and any set of faults, and about SelfHealing on top of it: the  *)
(* observer and the healer only do to the servers what ServerLifecycle     *)
(* allows, so its theorems carry over, and the number of automatic         *)
(* restarts is bounded for any number of handlers.                         *)
(***************************************************************************)
EXTENDS SelfHealing, FiniteSetTheorems, TLAPS

(* ServerLifecycle.                                                        *)

\* An invocation holds a server exactly while it runs, and a container id at
\* every step that calls the runtime.
LocalsOK ==
    \A p \in Callers :
        /\ pc[p] = "idle" <=> srv[p] = None
        /\ pc[p] = "idle" => ~unsaved[p] /\ cid[p] = None
        /\ pc[p] \in {"s_save", "s_start", "t_stop", "t_mark", "r_restart", "d_remove"}
             => cid[p] # None

Typed == LifeTypeOK /\ LocalsOK

\* Starting a method keeps the locals well-typed.
LEMMA BeginTyped ==
    ASSUME Typed, NEW p \in Callers, NEW s \in Servers,
           NEW first \in {"c_status", "s_get", "t_get", "r_get", "d_get"},
           Begin(p, s, first)
    PROVE  /\ pc' \in [Callers -> Pcs]
           /\ srv' \in [Callers -> Servers \cup {None}]
           /\ cid' \in [Callers -> Containers \cup {None}]
           /\ unsaved' \in [Callers -> BOOLEAN]
           /\ result' \in [Callers -> {"none", "ok", "err"}]
           /\ disturbed' \in SUBSET Servers
           /\ LocalsOK'
  BY LifecycleAssumption DEF Typed, LifeTypeOK, LocalsOK, Begin, Pcs, CreatePcs, StartPcs,
     StopPcs, RestartPcs, DeletePcs

\* So does returning from one.
LEMMA ReturnTyped ==
    ASSUME Typed, NEW p \in Callers, pc[p] # "idle", NEW r \in {"ok", "err"},
           NEW b \in BOOLEAN, Return(p, r, b)
    PROVE  /\ pc' \in [Callers -> Pcs]
           /\ srv' \in [Callers -> Servers \cup {None}]
           /\ cid' \in [Callers -> Containers \cup {None}]
           /\ unsaved' \in [Callers -> BOOLEAN]
           /\ result' \in [Callers -> {"none", "ok", "err"}]
           /\ disturbed' \in SUBSET Servers
           /\ LocalsOK'
  BY LifecycleAssumption DEF Typed, LifeTypeOK, LocalsOK, Return, Pcs

\* Every step of every method keeps the state well-typed.
LEMMA StepTyped == ASSUME Typed, NEW p \in Callers, Step(p) PROVE Typed'
<1> USE LifecycleAssumption
<1> DEFINE Ops == /\ pc' \in [Callers -> Pcs]
                  /\ srv' \in [Callers -> Servers \cup {None}]
                  /\ cid' \in [Callers -> Containers \cup {None}]
                  /\ unsaved' \in [Callers -> BOOLEAN]
                  /\ result' \in [Callers -> {"none", "ok", "err"}]
                  /\ disturbed' \in SUBSET Servers
                  /\ LocalsOK'
<1>1. pc[p] # "idle" /\ srv[p] \in Servers
  BY DEF Typed, LifeTypeOK, LocalsOK, Step, CreateStatus, CreatePorts, StartGet, StartCreate,
     StartSave, StartRun, StartStatus, StartLimits, StopGet, StopMark, StopRun, StopStatus,
     RestartGet, RestartRun, RestartStatus, DeleteGet, DeleteRemove, DeleteRelease, DeleteRow
<1>2. (Return(p, "ok", FALSE) => Ops) /\ (Return(p, "err", TRUE) => Ops)
  BY <1>1, ReturnTyped
<1>3. Fails(p) => Ops
  BY <1>1, ReturnTyped DEF Fails, Typed, LifeTypeOK
<1>4. ASSUME NEW to \in CtrStates \ {"unused"}, CtrCallFails(p, to), cid[p] # None
      PROVE  Ops /\ ctrState' \in [Containers -> CtrStates] /\ UNCHANGED ctrOwner
  <2> HIDE DEF Ops
  <2>1. CASE UNCHANGED ctrVars /\ Fails(p)
    BY <1>3, <2>1 DEF ctrVars, Typed, LifeTypeOK
  <2>2. CASE CtrCall(p, to) /\ Return(p, "err", TRUE)
    BY <1>2, <1>4, <2>2 DEF CtrCall, Typed, LifeTypeOK
  <2>3. QED BY <1>4, <2>1, <2>2 DEF CtrCallFails
<1>5. ASSUME NEW to \in CtrStates \ {"unused"}, cid[p] # None,
             NEW next \in {"s_status", "t_status", "r_status", "d_release"},
             CtrCallOk(p, to, next)
      PROVE  Ops /\ ctrState' \in [Containers -> CtrStates] /\ UNCHANGED ctrOwner
  BY <1>1, <1>5 DEF CtrCallOk, CtrCall, Goto, Typed, LifeTypeOK, LocalsOK, Pcs, StartPcs,
     StopPcs, RestartPcs, DeletePcs
<1>6. ASSUME NEW w \in {"s_create", "t_status", "d_release"},
             NEW v \in {"s_start", "t_mark", "d_remove"}, ReadRow(p, w, v)
      PROVE  Ops
  BY <1>1, <1>3, <1>6 DEF ReadRow, Goto, Typed, LifeTypeOK, LocalsOK, Pcs, StartPcs,
     StopPcs, RestartPcs, DeletePcs
<1>7. ASSUME NEW st \in {"running", "stopped"}, SaveStatusAndReturn(p, st)
      PROVE  Ops /\ rowStatus' \in [Servers -> RowStatuses]
  <2> HIDE DEF Ops
  <2>1. CASE UpdateServerStatus(srv[p], st) /\ Return(p, "ok", FALSE)
    BY <1>1, <1>2, <1>7, <2>1 DEF UpdateServerStatus, Typed, LifeTypeOK, RowStatuses
  <2>2. CASE Fails(p) /\ UNCHANGED rowStatus
    BY <1>3, <2>2 DEF Typed, LifeTypeOK
  <2>3. QED BY <1>7, <2>1, <2>2 DEF SaveStatusAndReturn
<1>8. CASE CreateStatus(p)
  BY <1>1, <1>3, <1>8 DEF CreateStatus, UpdateServerStatus, Goto, ctrVars, Typed, LifeTypeOK,
     LocalsOK, RowStatuses, Pcs, CreatePcs
<1>9. CASE CreatePorts(p)
  BY <1>1, <1>2, <1>3, <1>9 DEF CreatePorts, DbDeleteServer, ctrVars, Typed, LifeTypeOK,
     RowStatuses
<1>10. CASE StartGet(p)
  BY <1>6, <1>10 DEF StartGet, ctrVars, rowVars, Typed, LifeTypeOK
<1>11. CASE StartCreate(p)
  <2>1. CASE \E c \in Containers : /\ CreateContainer(p, c)
                                   /\ cid' = [cid EXCEPT ![p] = c]
                                   /\ unsaved' = [unsaved EXCEPT ![p] = TRUE]
                                   /\ Goto(p, "s_save")
    BY <1>1, <1>11, <2>1 DEF StartCreate, CreateContainer, Goto, rowVars, Typed, LifeTypeOK,
       LocalsOK, Pcs, StartPcs, CtrStates
  <2>2. CASE \E c \in Containers : CreateContainer(p, c) /\ Return(p, "err", TRUE)
    BY <1>1, <1>2, <1>11, <2>2 DEF StartCreate, CreateContainer, rowVars, Typed, LifeTypeOK,
       CtrStates
  <2>3. CASE Fails(p) /\ UNCHANGED ctrVars
    BY <1>3, <1>11, <2>3 DEF StartCreate, ctrVars, rowVars, Typed, LifeTypeOK
  <2>4. QED BY <1>11, <2>1, <2>2, <2>3 DEF StartCreate
<1>12. CASE StartSave(p)
  <2>1. CASE /\ SetServerContainer(srv[p], cid[p])
             /\ unsaved' = [unsaved EXCEPT ![p] = FALSE]
             /\ Goto(p, "s_start")
             /\ UNCHANGED cid
    BY <1>1, <1>12, <2>1 DEF StartSave, SetServerContainer, Goto, ctrVars, Typed, LifeTypeOK,
       LocalsOK, Pcs, StartPcs
  <2>2. CASE Fails(p) /\ UNCHANGED rowCid
    BY <1>3, <1>12, <2>2 DEF StartSave, ctrVars, Typed, LifeTypeOK
  <2>3. QED BY <1>12, <2>1, <2>2 DEF StartSave
<1>13. CASE StartRun(p)
  BY <1>4, <1>5, <1>13 DEF StartRun, rowVars, Typed, LifeTypeOK, LocalsOK, CtrStates
<1>14. CASE StartStatus(p)
  <2>1. CASE /\ UpdateServerStatus(srv[p], "running")
             /\ unsaved' = [unsaved EXCEPT ![p] = FALSE]
             /\ Goto(p, "s_limits")
             /\ UNCHANGED cid
    BY <1>1, <1>14, <2>1 DEF StartStatus, UpdateServerStatus, Goto, ctrVars, Typed,
       LifeTypeOK, LocalsOK, RowStatuses, Pcs, StartPcs
  <2>2. CASE Fails(p) /\ UNCHANGED rowStatus
    BY <1>3, <1>14, <2>2 DEF StartStatus, ctrVars, Typed, LifeTypeOK
  <2>3. QED BY <1>14, <2>1, <2>2 DEF StartStatus, SaveStatus
<1>15. CASE StartLimits(p)
  BY <1>2, <1>3, <1>15 DEF StartLimits, ctrVars, rowVars, Typed, LifeTypeOK
<1>16. CASE StopGet(p)
  BY <1>6, <1>16 DEF StopGet, ctrVars, rowVars, Typed, LifeTypeOK
<1>17. CASE StopMark(p)
  BY <1>1, <1>17 DEF StopMark, StoreManualStop, Goto, ctrVars, rowVars, Typed, LifeTypeOK,
     LocalsOK, Pcs, StopPcs
<1>18. CASE StopRun(p)
  <2>1. StoppedState(cid[p]) \in CtrStates \/ ~Exists(cid[p])
    BY DEF StoppedState, Exists, Typed, LifeTypeOK, CtrStates
  <2>2. cid[p] \in Containers /\ cid[p] # None
    BY <1>18 DEF StopRun, Typed, LifeTypeOK, LocalsOK
  <2>3. Ops /\ ctrState' \in [Containers -> CtrStates] /\ UNCHANGED ctrOwner
    <3>1. CASE Exists(cid[p])
      <4>1. StoppedState(cid[p]) \in CtrStates \ {"unused"}
        BY <2>2, <3>1 DEF StoppedState, Exists, Typed, LifeTypeOK, CtrStates
      <4>2. QED BY <1>4, <1>5, <1>18, <2>2, <4>1 DEF StopRun
    <3>2. CASE ~Exists(cid[p])
      BY <1>3, <1>18, <3>2 DEF StopRun, CtrCallOk, CtrCallFails, CtrCall, ctrVars, Typed,
         LifeTypeOK
    <3>3. QED BY <3>1, <3>2
  <2>4. QED
    BY <1>18, <2>3 DEF StopRun, DeleteManualStop, rowVars, Typed, LifeTypeOK
<1>19. CASE StopStatus(p)
  BY <1>7, <1>19 DEF StopStatus, ctrVars, Typed, LifeTypeOK
<1>20. CASE RestartGet(p)
  BY <1>1, <1>3, <1>20 DEF RestartGet, Goto, ctrVars, rowVars, Typed, LifeTypeOK, LocalsOK,
     Pcs, RestartPcs
<1>21. CASE RestartRun(p)
  BY <1>4, <1>5, <1>21 DEF RestartRun, rowVars, Typed, LifeTypeOK, LocalsOK, CtrStates
<1>22. CASE RestartStatus(p)
  BY <1>7, <1>22 DEF RestartStatus, ctrVars, Typed, LifeTypeOK
<1>23. CASE DeleteGet(p)
  BY <1>6, <1>23 DEF DeleteGet, ctrVars, rowVars, Typed, LifeTypeOK
<1>24. CASE DeleteRemove(p)
  BY <1>4, <1>5, <1>24 DEF DeleteRemove, rowVars, Typed, LifeTypeOK, LocalsOK, CtrStates
<1>25. CASE DeleteRelease(p)
  BY <1>1, <1>3, <1>25 DEF DeleteRelease, Goto, ctrVars, rowVars, Typed, LifeTypeOK, LocalsOK,
     Pcs, DeletePcs
<1>26. CASE DeleteRow(p)
  BY <1>2, <1>3, <1>1, <1>26 DEF DeleteRow, DbDeleteServer, ctrVars, Typed, LifeTypeOK,
     RowStatuses
<1>27. QED
  BY <1>8, <1>9, <1>10, <1>11, <1>12, <1>13, <1>14, <1>15, <1>16, <1>17, <1>18, <1>19, <1>20,
     <1>21, <1>22, <1>23, <1>24, <1>25, <1>26 DEF Step

\* The environment's steps do, too.
LEMMA DieTyped ==
    ASSUME Typed, NEW who \in SUBSET Callers, Die(who)
    PROVE  /\ LocalsOK'
           /\ manualStops' \in SUBSET Servers => LifeTypeOK'
<1>1. \A q \in Callers : unsaved[q] => srv[q] \in Servers
  BY DEF Typed, LifeTypeOK, LocalsOK
<1>2. disturbed' \in SUBSET Servers
  BY <1>1 DEF Die, Typed, LifeTypeOK
<1>3. LocalsOK'
  BY DEF Die, Typed, LifeTypeOK, LocalsOK
<1>4. /\ pc' \in [Callers -> Pcs]
      /\ srv' \in [Callers -> Servers \cup {None}]
      /\ cid' \in [Callers -> Containers \cup {None}]
      /\ result' \in [Callers -> {"none", "ok", "err"}]
  BY DEF Die, Typed, LifeTypeOK, Pcs
<1>5. unsaved' \in [Callers -> BOOLEAN]
  BY DEF Die, Typed, LifeTypeOK
<1>6. QED
  BY <1>2, <1>3, <1>4, <1>5 DEF Die, Typed, LifeTypeOK, rowVars, ctrVars

\* Calling a method keeps the state well-typed.
LEMMA InvokeTyped ==
    ASSUME Typed, NEW p \in Callers, NEW s \in Servers,
           \/ CreateInsert(p, s) \/ StartServer(p, s) \/ StopServer(p, s)
           \/ RestartServer(p, s) \/ DeleteServer(p, s)
    PROVE  Typed'
<1>1. CASE CreateInsert(p, s)
  BY <1>1, BeginTyped DEF CreateInsert, ctrVars, Typed, LifeTypeOK, RowStatuses
<1>2. CASE StartServer(p, s)
  BY <1>2, BeginTyped DEF StartServer, DeleteManualStop, rowVars, ctrVars, Typed, LifeTypeOK
<1>3. CASE StopServer(p, s)
  BY <1>3, BeginTyped DEF StopServer, rowVars, ctrVars, Typed, LifeTypeOK
<1>4. CASE RestartServer(p, s)
  BY <1>4, BeginTyped DEF RestartServer, rowVars, ctrVars, Typed, LifeTypeOK
<1>5. CASE DeleteServer(p, s)
  BY <1>5, BeginTyped DEF DeleteServer, rowVars, ctrVars, Typed, LifeTypeOK
<1>6. QED BY <1>1, <1>2, <1>3, <1>4, <1>5

\* Well-typedness with LocalsOK is inductive.
LEMMA NextTyped == Typed /\ [LifeNext]_lifeVars => Typed'
<1> SUFFICES ASSUME Typed, [LifeNext]_lifeVars PROVE Typed'
  OBVIOUS
<1>1. ASSUME NEW p \in Callers, Invoke(p) PROVE Typed'
  BY <1>1, InvokeTyped DEF Invoke, Command
<1>2. ASSUME NEW p \in Callers, Step(p) PROVE Typed'
  BY <1>2, StepTyped
<1>3. ASSUME NEW p \in Callers, NEW s \in Servers, RestartServer(p, s) PROVE Typed'
  BY <1>3, InvokeTyped
<1>4. ASSUME NEW c \in Containers, ContainerExits(c) PROVE Typed'
  BY <1>4 DEF ContainerExits, rowVars, opVars, Typed, LifeTypeOK, LocalsOK, CtrStates
<1>5. ASSUME NEW s \in Servers, MarkCrashLooping(s) PROVE Typed'
  BY <1>5 DEF MarkCrashLooping, UpdateServerStatus, ctrVars, opVars, Typed, LifeTypeOK,
     LocalsOK, RowStatuses
<1>10. ASSUME NEW s \in Servers, IsManualStop(s) PROVE Typed'
  BY <1>10 DEF IsManualStop, rowVars, ctrVars, opVars, Typed, LifeTypeOK, LocalsOK
<1>6. CASE DaemonCrash
  BY <1>6, DieTyped DEF DaemonCrash, Typed
<1>7. ASSUME NEW p \in CliCallers, CliKilled(p) PROVE Typed'
  BY <1>7, DieTyped, LifecycleAssumption DEF CliKilled, Typed, LifeTypeOK
<1>8. CASE UNCHANGED lifeVars
  BY <1>8 DEF lifeVars, Typed, LifeTypeOK, LocalsOK
<1>9. QED BY <1>1, <1>2, <1>3, <1>4, <1>5, <1>6, <1>7, <1>8, <1>10 DEF LifeNext

\* It holds of an empty database with no container and no invocation.
LEMMA InitTyped == LifeInit => Typed
  BY LifecycleAssumption DEF LifeInit, Typed, LifeTypeOK, LocalsOK, RowStatuses, CtrStates, Pcs

\* In every behaviour of the lifecycle rows, containers, locals and the history
\* variables keep their types, whatever methods overlap or fail.
THEOREM LifeTypeCorrect == LifeSpec => []LifeTypeOK
<1>1. LifeSpec => []Typed
  BY InitTyped, NextTyped, PTL DEF LifeSpec
<1>2. Typed => LifeTypeOK
  BY DEF Typed
<1>3. QED BY <1>1, <1>2, PTL

-----------------------------------------------------------------------------
(* Container ids do not mix servers up.                                      *)

OwnInv ==
    /\ OwnContainersOnly
    /\ \A c \in Containers : ctrState[c] = "unused" <=> ctrOwner[c] = None

\* What every step but the creation of a container does to ids and owners: an
\* id moves only between a row and a caller of the same server.
OwnFrame ==
    /\ UNCHANGED ctrOwner
    /\ \A c \in Containers : /\ ctrState'[c] = "unused" <=> ctrState[c] = "unused"
                             /\ Exists(c)' => Exists(c)
    /\ \A s \in Servers : \/ rowCid'[s] = rowCid[s]
                          \/ \E q \in Callers : srv[q] = s /\ rowCid'[s] = cid[q]
    /\ \A q \in Callers : \/ cid'[q] = None
                          \/ cid'[q] = cid[q] /\ srv'[q] = srv[q]
                          \/ /\ srv'[q] = srv[q] /\ srv[q] \in Servers
                             /\ cid'[q] = rowCid[srv[q]]

\* Moving ids that way keeps every id with its server.
LEMMA OwnFramed == ASSUME Typed, Typed', OwnInv, OwnFrame PROVE OwnInv'
  BY DEF Typed, LifeTypeOK, OwnInv, OwnContainersOnly, OwnFrame

\* A returning invocation drops its container id, the others keep theirs.
LEMMA ReturnFrame ==
    ASSUME Typed, NEW p \in Callers, NEW r, NEW b, Return(p, r, b)
    PROVE  \A q \in Callers : cid'[q] = None \/ (cid'[q] = cid[q] /\ srv'[q] = srv[q])
  BY DEF Return, Typed, LifeTypeOK

\* A step of a method either creates a container under a free name or moves ids
\* as OwnFrame says.
LEMMA StepOwn ==
    ASSUME Typed, Typed', OwnInv, NEW p \in Callers, Step(p)
    PROVE  OwnInv'
<1> USE LifecycleAssumption
<1> DEFINE Ids == \A q \in Callers : cid'[q] = None \/ (cid'[q] = cid[q] /\ srv'[q] = srv[q])
<1>1. srv[p] \in Servers
  BY DEF Typed, LifeTypeOK, LocalsOK, Step, CreateStatus, CreatePorts, StartGet, StartCreate,
     StartSave, StartRun, StartStatus, StartLimits, StopGet, StopMark, StopRun, StopStatus,
     RestartGet, RestartRun, RestartStatus, DeleteGet, DeleteRemove, DeleteRelease, DeleteRow
<1>2. (\E r, b : Return(p, r, b)) \/ Fails(p) => Ids
  BY ReturnFrame DEF Fails
<1>3. ASSUME NEW next, Goto(p, next), UNCHANGED cid PROVE Ids
  BY <1>3 DEF Goto
<1>4. ASSUME UNCHANGED <<rowCid, ctrVars>>, Ids PROVE OwnFrame
  BY <1>4 DEF OwnFrame, ctrVars, Exists
<1>5. ASSUME NEW to \in {"running", "stopped", "created", "exited", "removed"},
             NEW next, UNCHANGED rowCid, cid[p] \in Containers,
             CtrCallOk(p, to, next) \/ CtrCallFails(p, to)
      PROVE  OwnFrame
  <2>1. Ids
    BY <1>2, <1>3, <1>5 DEF CtrCallOk, CtrCallFails
  <2>2. CASE CtrCall(p, to)
    BY <1>5, <2>1, <2>2 DEF CtrCall, OwnFrame, Exists, Typed, LifeTypeOK
  <2>3. QED BY <1>4, <1>5, <2>1, <2>2 DEF CtrCallOk, CtrCallFails
<1>6. ASSUME NEW w, NEW v, ReadRow(p, w, v), UNCHANGED <<rowCid, ctrVars>> PROVE OwnFrame
  <2>1. CASE Fails(p)
    BY <1>2, <1>4, <1>6, <2>1
  <2>2. CASE cid' = [cid EXCEPT ![p] = rowCid[srv[p]]] /\ UNCHANGED srv
    BY <1>1, <1>6, <2>2 DEF OwnFrame, ctrVars, Exists, Typed, LifeTypeOK
  <2>3. QED BY <1>6, <2>1, <2>2 DEF ReadRow, Goto
<1>7. ASSUME NEW c \in Containers, CreateContainer(p, c), UNCHANGED rowCid,
             \/ /\ cid' = [cid EXCEPT ![p] = c] /\ UNCHANGED srv
             \/ Ids
      PROVE  OwnInv'
  <2>1. \A d \in Containers : d # c => ctrState'[d] = ctrState[d] /\ ctrOwner'[d] = ctrOwner[d]
    BY <1>7 DEF CreateContainer, Typed, LifeTypeOK
  <2>2. ctrState'[c] = "created" /\ ctrOwner'[c] = srv[p] /\ ctrOwner[c] = None
    BY <1>7 DEF CreateContainer, Typed, LifeTypeOK, OwnInv
  <2>3. \A d \in Containers : ctrOwner[d] = srv[p] => ~Exists(d)
    BY <1>7 DEF CreateContainer, NameFree
  <2>4. \A d, e \in Containers :
            ctrOwner'[d] = ctrOwner'[e] /\ Exists(d)' /\ Exists(e)' => d = e
    BY <1>1, <2>1, <2>2, <2>3 DEF Exists, OwnInv, OwnContainersOnly
  <2>5. \A s \in Servers : rowCid'[s] # None => ctrOwner'[rowCid'[s]] = s
    BY <1>7, <2>1, <2>2 DEF OwnInv, OwnContainersOnly, Typed, LifeTypeOK
  <2>6. \A q \in Callers : cid'[q] # None => ctrOwner'[cid'[q]] = srv'[q]
    <3>1. \A q \in Callers : cid[q] # None => cid[q] # c
      <4>1. SUFFICES ASSUME NEW q \in Callers, cid[q] # None, cid[q] = c PROVE FALSE
        OBVIOUS
      <4>2. srv[q] = None
        BY <2>2, <4>1 DEF OwnInv, OwnContainersOnly
      <4>3. QED BY <4>1, <4>2 DEF Typed, LocalsOK
    <3>2. QED
      BY <1>7, <2>1, <2>2, <3>1 DEF OwnInv, OwnContainersOnly, Typed, LifeTypeOK
  <2>7. \A d \in Containers : ctrState'[d] = "unused" <=> ctrOwner'[d] = None
    BY <1>1, <2>1, <2>2 DEF OwnInv
  <2>8. QED BY <2>4, <2>5, <2>6, <2>7 DEF OwnInv, OwnContainersOnly
<1>8. CASE StartCreate(p)
  <2>1. ASSUME NEW c \in Containers, CreateContainer(p, c), cid' = [cid EXCEPT ![p] = c],
               Goto(p, "s_save")
        PROVE  OwnInv'
    BY <1>7, <1>8, <2>1 DEF StartCreate, Goto, rowVars
  <2>2. ASSUME NEW c \in Containers, CreateContainer(p, c), Return(p, "err", TRUE)
        PROVE  OwnInv'
    BY <1>2, <1>7, <1>8, <2>2 DEF StartCreate, rowVars
  <2>3. CASE Fails(p) /\ UNCHANGED ctrVars
    BY <1>2, <1>4, <1>8, <2>3, OwnFramed DEF StartCreate, rowVars
  <2>4. QED BY <1>8, <2>1, <2>2, <2>3 DEF StartCreate
<1>9. CASE StartSave(p)
  <2>1. CASE SetServerContainer(srv[p], cid[p]) /\ Goto(p, "s_start") /\ UNCHANGED cid
    BY <1>1, <1>9, <2>1, OwnFramed DEF StartSave, SetServerContainer, Goto, OwnFrame, ctrVars,
       Exists, Typed, LifeTypeOK
  <2>2. CASE Fails(p) /\ UNCHANGED rowCid
    BY <1>2, <1>4, <1>9, <2>2, OwnFramed DEF StartSave
  <2>3. QED BY <1>9, <2>1, <2>2 DEF StartSave
<1>10. CASE CreateStatus(p) \/ CreatePorts(p)
  BY <1>2, <1>3, <1>4, <1>10, OwnFramed DEF CreateStatus, CreatePorts
<1>11. CASE StartGet(p) \/ StopGet(p) \/ DeleteGet(p)
  BY <1>6, <1>11, OwnFramed DEF StartGet, StopGet, DeleteGet, rowVars
<1>12. CASE StartRun(p) \/ RestartRun(p) \/ DeleteRemove(p)
  <2>1. cid[p] \in Containers
    BY <1>12 DEF StartRun, RestartRun, DeleteRemove, Typed, LifeTypeOK, LocalsOK
  <2>2. QED
    BY <1>5, <1>12, <2>1, OwnFramed DEF StartRun, RestartRun, DeleteRemove, rowVars
<1>13. CASE StopRun(p)
  <2>1. cid[p] \in Containers
    BY <1>13 DEF StopRun, Typed, LifeTypeOK, LocalsOK
  <2>2. CASE ~Exists(cid[p])
    BY <1>2, <1>4, <1>13, <2>2, OwnFramed DEF StopRun, CtrCallOk, CtrCallFails, CtrCall, rowVars
  <2>3. CASE Exists(cid[p])
    <3>1. StoppedState(cid[p]) \in {"running", "stopped", "created", "exited", "removed"}
      BY <2>1, <2>3 DEF StoppedState, Exists, Typed, LifeTypeOK, CtrStates
    <3>2. QED BY <1>5, <1>13, <2>1, <3>1, OwnFramed DEF StopRun, rowVars
  <2>4. QED BY <2>2, <2>3
<1>14. CASE StartStatus(p) \/ StartLimits(p) \/ StopMark(p) \/ DeleteRelease(p) \/ DeleteRow(p)
  BY <1>2, <1>3, <1>4, <1>14, OwnFramed DEF StartStatus, SaveStatus, StartLimits, StopMark,
     DeleteRelease, DeleteRow, rowVars
<1>15. CASE StopStatus(p) \/ RestartStatus(p)
  BY <1>2, <1>4, <1>15, OwnFramed DEF StopStatus, RestartStatus, SaveStatusAndReturn
<1>16. CASE RestartGet(p)
  <2>1. CASE Fails(p)
    BY <1>2, <1>4, <1>16, <2>1, OwnFramed DEF RestartGet, rowVars
  <2>2. CASE cid' = [cid EXCEPT ![p] = rowCid[srv[p]]] /\ UNCHANGED srv
    BY <1>1, <1>16, <2>2, OwnFramed DEF RestartGet, OwnFrame, ctrVars, rowVars, Exists, Typed,
       LifeTypeOK
  <2>3. QED BY <1>16, <2>1, <2>2 DEF RestartGet, Goto
<1>17. QED
  BY <1>8, <1>9, <1>10, <1>11, <1>12, <1>13, <1>14, <1>15, <1>16 DEF Step

\* Calling a method moves no container id.
LEMMA InvokeOwn ==
    ASSUME Typed, Typed', OwnInv, NEW p \in Callers, NEW s \in Servers,
           \/ CreateInsert(p, s) \/ StartServer(p, s) \/ StopServer(p, s)
           \/ RestartServer(p, s) \/ DeleteServer(p, s)
    PROVE  OwnInv'
<1>1. UNCHANGED <<rowCid, ctrVars, cid>> /\ pc[p] = "idle"
      /\ srv' = [srv EXCEPT ![p] = s]
  BY DEF CreateInsert, StartServer, StopServer, RestartServer, DeleteServer, Begin, rowVars
<1>2. \A q \in Callers : cid'[q] = None \/ (cid'[q] = cid[q] /\ srv'[q] = srv[q])
  BY <1>1 DEF Typed, LifeTypeOK, LocalsOK
<1>3. OwnFrame
  BY <1>1, <1>2 DEF OwnFrame, ctrVars, Exists
<1>4. QED BY <1>3, OwnFramed

\* Ownership is inductive under well-typedness.
LEMMA NextOwn == Typed /\ OwnInv /\ [LifeNext]_lifeVars => OwnInv'
<1> SUFFICES ASSUME Typed, OwnInv, [LifeNext]_lifeVars PROVE OwnInv'
  OBVIOUS
<1>0. Typed'
  BY NextTyped
<1>1. ASSUME NEW p \in Callers, Invoke(p) PROVE OwnInv'
  BY <1>0, <1>1, InvokeOwn DEF Invoke, Command
<1>2. ASSUME NEW p \in Callers, Step(p) PROVE OwnInv'
  BY <1>0, <1>2, StepOwn
<1>3. ASSUME NEW p \in Callers, NEW s \in Servers, RestartServer(p, s) PROVE OwnInv'
  BY <1>0, <1>3, InvokeOwn
<1>4. ASSUME NEW c \in Containers, ContainerExits(c) PROVE OwnInv'
  BY <1>0, <1>4, OwnFramed DEF ContainerExits, rowVars, opVars, OwnFrame, Exists, Typed,
     LifeTypeOK
<1>5. ASSUME NEW s \in Servers, MarkCrashLooping(s) PROVE OwnInv'
  BY <1>0, <1>5, OwnFramed DEF MarkCrashLooping, ctrVars, opVars, OwnFrame, Exists
<1>11. ASSUME NEW s \in Servers, IsManualStop(s) PROVE OwnInv'
  BY <1>0, <1>11, OwnFramed DEF IsManualStop, rowVars, ctrVars, opVars, OwnFrame, Exists
<1>6. ASSUME NEW who \in SUBSET Callers, Die(who) PROVE OwnInv'
  BY <1>0, <1>6, OwnFramed DEF Die, rowVars, ctrVars, OwnFrame, Exists
<1>7. CASE DaemonCrash
  BY <1>6, <1>7 DEF DaemonCrash
<1>8. ASSUME NEW p \in CliCallers, CliKilled(p) PROVE OwnInv'
  BY <1>6, <1>8, LifecycleAssumption DEF CliKilled
<1>9. CASE UNCHANGED lifeVars
  BY <1>0, <1>9, OwnFramed DEF lifeVars, OwnFrame, Exists
<1>10. QED BY <1>1, <1>2, <1>3, <1>4, <1>5, <1>7, <1>8, <1>9, <1>11 DEF LifeNext

\* No interleaving and no failure makes an invocation or a row hold a container
\* of another server, or the runtime hold two containers of one server.
THEOREM OwnContainersCorrect == LifeSpec => []OwnContainersOnly
<1>1. LifeInit => OwnInv
  BY LifecycleAssumption DEF LifeInit, OwnInv, OwnContainersOnly, Exists
<1>2. LifeSpec => []Typed
  BY InitTyped, NextTyped, PTL DEF LifeSpec
<1>3. LifeSpec => []OwnInv
  BY <1>1, <1>2, NextOwn, PTL DEF LifeSpec
<1>4. OwnInv => OwnContainersOnly
  BY DEF OwnInv
<1>5. QED BY <1>3, <1>4, PTL

-----------------------------------------------------------------------------
(* The row and the runtime agree on undisturbed servers.                     *)

\* The states of s seen from an undisturbed invocation p in the middle of it.
InvocationView(p, s) ==
    /\ pc[p] \in CreatePcs \cup {"s_create", "s_save"} => Live(s) /\ rowCid[s] = None
    /\ pc[p] \in {"s_start", "s_status", "s_limits", "t_mark", "t_stop",
                  "r_restart", "r_status", "d_remove"} => Live(s) /\ cid[p] # None
    /\ pc[p] \in {"s_start", "s_status", "s_limits", "t_mark", "t_stop", "t_status",
                  "r_restart", "r_status", "d_remove", "d_release", "d_row"}
         => Live(s) /\ cid[p] = rowCid[s]
    /\ pc[p] = "s_save" => cid[p] # None /\ ctrState[cid[p]] = "created" /\ unsaved[p]
    /\ pc[p] \in {"s_status", "r_status"}
         => ctrState[cid[p]] \in {"running", "exited"} /\ unsaved[p]
    /\ pc[p] = "t_status" /\ cid[p] # None
         => Exists(cid[p]) /\ ctrState[cid[p]] # "running" /\ unsaved[p]
    /\ pc[p] \in {"d_release", "d_row"} /\ cid[p] # None
         => ctrState[cid[p]] = "removed" /\ unsaved[p]
    /\ unsaved[p] => pc[p] \in {"s_save", "s_status", "r_status", "t_status", "d_release", "d_row"}

\* RowMatchesRuntime as it holds between the steps of the one invocation on s:
\* each clause names the steps at which it may be broken.
AgreeWhileBusy(s) ==
    /\ \A p, q \in Callers : srv[p] = s /\ srv[q] = s => p = q
    /\ \A p \in Callers : srv[p] = s => InvocationView(p, s)
    /\ \A c \in Containers : ctrOwner[c] = s /\ Exists(c) =>
         \/ Live(s) /\ rowCid[s] = c
         \/ \E p \in Callers : srv[p] = s /\ pc[p] = "s_save" /\ cid[p] = c
    /\ Live(s) /\ rowCid[s] # None =>
         \/ Exists(rowCid[s])
         \/ \E p \in Callers : srv[p] = s /\ pc[p] \in {"d_release", "d_row"}
    /\ rowStatus[s] = "running" =>
         \/ rowCid[s] # None /\ ctrState[rowCid[s]] \in {"running", "exited"}
         \/ \E p \in Callers : srv[p] = s /\ cid[p] # None
                                 /\ pc[p] \in {"t_status", "d_release", "d_row"}
    /\ rowStatus[s] \in {"installing", "stopped"} =>
         \/ rowCid[s] = None
         \/ ctrState[rowCid[s]] # "running"
         \/ \E p \in Callers : srv[p] = s /\ pc[p] \in {"s_status", "r_status"}

\* The inductive strengthening of UndisturbedAgree.
AgreeInv == \A s \in Servers \ disturbed : AgreeWhileBusy(s)

\* A step that is not about s: its row, its containers and its invocations stay.
Elsewhere(s) ==
    /\ rowStatus'[s] = rowStatus[s] /\ rowCid'[s] = rowCid[s]
    /\ \A c \in Containers : ctrOwner[c] = s \/ ctrOwner'[c] = s =>
         ctrState'[c] = ctrState[c] /\ ctrOwner'[c] = ctrOwner[c]
    /\ \A q \in Callers : srv[q] = s \/ srv'[q] = s =>
         /\ srv'[q] = srv[q] /\ pc'[q] = pc[q]
         /\ cid'[q] = cid[q] /\ unsaved'[q] = unsaved[q]

\* Such a step keeps what is known of s.
LEMMA ElsewhereAgree ==
    ASSUME Typed, OwnInv, NEW s \in Servers, AgreeWhileBusy(s), Elsewhere(s)
    PROVE  AgreeWhileBusy(s)'
<1> USE DEF Elsewhere
<1>1. rowCid[s] # None => ctrState'[rowCid[s]] = ctrState[rowCid[s]]
  BY DEF OwnInv, OwnContainersOnly, Typed, LifeTypeOK
<1>2. \A q \in Callers : srv'[q] = s /\ cid[q] # None => ctrState'[cid[q]] = ctrState[cid[q]]
  BY DEF OwnInv, OwnContainersOnly, Typed, LifeTypeOK
<1>3. Live(s)' <=> Live(s)
  BY DEF Live
<1>4. \A q \in Callers : srv'[q] = s => InvocationView(q, s)'
  <2> SUFFICES ASSUME NEW q \in Callers, srv'[q] = s PROVE InvocationView(q, s)'
    OBVIOUS
  <2>1. InvocationView(q, s)
    BY DEF AgreeWhileBusy
  <2>2. QED
    BY <1>2, <1>3, <2>1 DEF InvocationView, Exists
<1>5. \A c \in Containers : ctrOwner'[c] = s /\ Exists(c)' =>
         \/ Live(s)' /\ rowCid'[s] = c
         \/ \E q \in Callers : srv'[q] = s /\ pc'[q] = "s_save" /\ cid'[q] = c
  BY <1>3 DEF AgreeWhileBusy, Exists
<1>6. QED
  BY <1>1, <1>3, <1>4, <1>5 DEF AgreeWhileBusy, Exists

\* A step of invocation p is about srv[p] only.
LEMMA StepElsewhere ==
    ASSUME Typed, OwnInv, NEW p \in Callers, Step(p), NEW s \in Servers, s # srv[p]
    PROVE  Elsewhere(s)
<1> USE LifecycleAssumption
<1> DEFINE Rows == rowStatus'[s] = rowStatus[s] /\ rowCid'[s] = rowCid[s]
           Ctrs == \A c \in Containers : ctrOwner[c] = s \/ ctrOwner'[c] = s =>
                       ctrState'[c] = ctrState[c] /\ ctrOwner'[c] = ctrOwner[c]
           Ops == \A q \in Callers : srv[q] = s \/ srv'[q] = s =>
                      /\ srv'[q] = srv[q] /\ pc'[q] = pc[q]
                      /\ cid'[q] = cid[q] /\ unsaved'[q] = unsaved[q]
<1>1. srv[p] \in Servers
  BY DEF Typed, LifeTypeOK, LocalsOK, Step, CreateStatus, CreatePorts, StartGet, StartCreate,
     StartSave, StartRun, StartStatus, StartLimits, StopGet, StopMark, StopRun, StopStatus,
     RestartGet, RestartRun, RestartStatus, DeleteGet, DeleteRemove, DeleteRelease, DeleteRow
<1>2. ASSUME NEW r, NEW b, Return(p, r, b) PROVE Ops
  BY <1>2 DEF Return, Typed, LifeTypeOK
<1>3. Fails(p) => Ops
  BY <1>2 DEF Fails
<1>4. ASSUME NEW next, Goto(p, next),
             \A q \in Callers : q # p => cid'[q] = cid[q] /\ unsaved'[q] = unsaved[q]
      PROVE  Ops
  BY <1>4 DEF Goto, Typed, LifeTypeOK
<1>5. UNCHANGED ctrVars => Ctrs
  BY DEF ctrVars
<1>6. UNCHANGED rowVars => Rows
  BY DEF rowVars
<1>7. ASSUME NEW to, NEW next, cid[p] \in Containers,
             CtrCallOk(p, to, next) \/ CtrCallFails(p, to)
      PROVE  Ctrs /\ Ops
  <2>1. Ops
    BY <1>2, <1>3, <1>4, <1>7 DEF CtrCallOk, CtrCallFails, Typed, LifeTypeOK
  <2>2. CtrCall(p, to) => Ctrs
    BY <1>7, LifecycleAssumption DEF CtrCall, OwnInv, OwnContainersOnly, Typed, LifeTypeOK
  <2>3. QED BY <1>5, <1>7, <2>1, <2>2 DEF CtrCallOk, CtrCallFails
<1>8. ASSUME NEW c \in Containers, CreateContainer(p, c) PROVE Ctrs
  BY <1>8 DEF CreateContainer, OwnInv, Typed, LifeTypeOK
<1>9. ASSUME NEW st, UpdateServerStatus(srv[p], st) PROVE rowStatus'[s] = rowStatus[s]
  BY <1>9 DEF UpdateServerStatus, Typed, LifeTypeOK
<1>10. DbDeleteServer(srv[p]) => rowStatus'[s] = rowStatus[s]
  BY DEF DbDeleteServer, Typed, LifeTypeOK
<1>11. ASSUME NEW w, NEW v, ReadRow(p, w, v) PROVE Ops
  BY <1>3, <1>4, <1>11 DEF ReadRow, Typed, LifeTypeOK
<1>12. Rows /\ Ctrs /\ Ops => Elsewhere(s)
  BY DEF Elsewhere
<1> HIDE DEF Rows, Ctrs, Ops
<1>13. CASE StartCreate(p)
  BY <1>2, <1>3, <1>4, <1>5, <1>6, <1>8, <1>12, <1>13 DEF StartCreate, Typed, LifeTypeOK
<1>14. CASE StartSave(p)
  <2>1. CASE SetServerContainer(srv[p], cid[p]) /\ Goto(p, "s_start") /\ UNCHANGED cid
             /\ unsaved' = [unsaved EXCEPT ![p] = FALSE]
    <3>1. Rows
      BY <1>1, <1>14, <2>1 DEF StartSave, SetServerContainer, Typed, LifeTypeOK, Rows
    <3>2. QED BY <1>4, <1>5, <1>12, <1>14, <2>1, <3>1 DEF StartSave, Typed, LifeTypeOK
  <2>2. CASE Fails(p) /\ UNCHANGED rowCid
    BY <1>3, <1>5, <1>12, <1>14, <2>2 DEF StartSave, Rows
  <2>3. QED BY <1>14, <2>1, <2>2 DEF StartSave
<1>15. CASE CreateStatus(p)
  BY <1>3, <1>4, <1>5, <1>9, <1>12, <1>15 DEF CreateStatus, Rows
<1>16. CASE CreatePorts(p)
  BY <1>2, <1>3, <1>5, <1>10, <1>12, <1>16 DEF CreatePorts, Rows
<1>17. CASE StartGet(p) \/ StopGet(p) \/ DeleteGet(p)
  BY <1>5, <1>6, <1>11, <1>12, <1>17 DEF StartGet, StopGet, DeleteGet
<1>18. CASE StartRun(p) \/ RestartRun(p) \/ DeleteRemove(p) \/ StopRun(p)
  <2>1. cid[p] \in Containers
    BY <1>18 DEF StartRun, RestartRun, DeleteRemove, StopRun, Typed, LifeTypeOK, LocalsOK
  <2>2. QED
    BY <1>6, <1>7, <1>12, <1>18, <2>1 DEF StartRun, RestartRun, DeleteRemove, StopRun
<1>19. CASE StartStatus(p)
  <2>1. rowStatus'[s] = rowStatus[s]
    BY <1>9, <1>19 DEF StartStatus, SaveStatus
  <2>2. Ops
    BY <1>3, <1>4, <1>19 DEF StartStatus, SaveStatus, Typed, LifeTypeOK
  <2>3. QED BY <1>5, <1>12, <1>19, <2>1, <2>2 DEF StartStatus, Rows
<1>20. CASE StartLimits(p)
  BY <1>2, <1>3, <1>5, <1>6, <1>12, <1>20 DEF StartLimits
<1>21. CASE StopMark(p)
  BY <1>4, <1>5, <1>6, <1>12, <1>21 DEF StopMark
<1>22. CASE DeleteRelease(p)
  BY <1>3, <1>4, <1>5, <1>6, <1>12, <1>22 DEF DeleteRelease
<1>23. CASE DeleteRow(p)
  BY <1>2, <1>3, <1>5, <1>10, <1>12, <1>23 DEF DeleteRow, Rows
<1>24. CASE StopStatus(p) \/ RestartStatus(p)
  BY <1>2, <1>3, <1>5, <1>9, <1>12, <1>24 DEF StopStatus, RestartStatus, SaveStatusAndReturn,
     Rows
<1>25. CASE RestartGet(p)
  BY <1>3, <1>4, <1>5, <1>6, <1>12, <1>25 DEF RestartGet, Typed, LifeTypeOK
<1>26. QED
  BY <1>13, <1>14, <1>15, <1>16, <1>17, <1>18, <1>19, <1>20, <1>21, <1>22, <1>23, <1>24, <1>25
     DEF Step

\* Leaving s alone on it: the clauses of AgreeWhileBusy without exceptions, as
\* they hold when the invocation p of s returns.
LEMMA ReturnAgree ==
    ASSUME Typed, NEW p \in Callers, NEW s \in Servers, srv[p] = s, AgreeWhileBusy(s),
           NEW r, NEW b, Return(p, r, b), RowMatchesRuntime(s)'
    PROVE  AgreeWhileBusy(s)'
<1>1. \A q \in Callers : srv'[q] # s
  BY LifecycleAssumption DEF Return, AgreeWhileBusy, Typed, LifeTypeOK
<1>2. QED BY <1>1 DEF AgreeWhileBusy, RowMatchesRuntime

\* An invocation that fails with nothing unsaved, at a step where the row and
\* the runtime agree, leaves them agreeing.
LEMMA FailAgree ==
    ASSUME Typed, OwnInv, NEW p \in Callers, NEW s \in Servers, srv[p] = s,
           AgreeWhileBusy(s), Fails(p), s \notin disturbed', UNCHANGED <<rowVars, ctrVars>>,
           pc[p] \in {"d_release", "d_row", "t_status"} => cid[p] # None
    PROVE  AgreeWhileBusy(s)'
<1>1. ~unsaved[p]
  BY DEF Fails, Return, Typed, LifeTypeOK
<1>2. \A q \in Callers : srv[q] = s => q = p
  BY DEF AgreeWhileBusy
<1>3. pc[p] \notin {"s_save", "s_status", "r_status"}
  BY <1>1 DEF AgreeWhileBusy, InvocationView
<1>4. pc[p] \notin {"d_release", "d_row", "t_status"}
  BY <1>1 DEF AgreeWhileBusy, InvocationView
<1>5. RowMatchesRuntime(s)
  BY <1>2, <1>3, <1>4 DEF AgreeWhileBusy, RowMatchesRuntime, OwnInv, OwnContainersOnly
<1>6. RowMatchesRuntime(s)'
  BY <1>5 DEF RowMatchesRuntime, rowVars, ctrVars, Live, Exists
<1>7. QED BY <1>6, ReturnAgree DEF Fails

\* With the container id None, the steps of Stop and Delete that need none.
LEMMA FailAgreeNone ==
    ASSUME Typed, OwnInv, NEW p \in Callers, NEW s \in Servers, srv[p] = s,
           AgreeWhileBusy(s), Fails(p), s \notin disturbed', UNCHANGED <<rowVars, ctrVars>>
    PROVE  AgreeWhileBusy(s)'
<1>1. CASE pc[p] \in {"d_release", "d_row", "t_status"} /\ cid[p] = None
  <2>1. rowCid[s] = None /\ Live(s)
    BY <1>1 DEF AgreeWhileBusy, InvocationView
  <2>2. \A q \in Callers : srv[q] = s => q = p
    BY DEF AgreeWhileBusy
  <2>3. RowMatchesRuntime(s)
    BY <1>1, <2>1, <2>2 DEF AgreeWhileBusy, RowMatchesRuntime
  <2>4. RowMatchesRuntime(s)'
    BY <2>3 DEF RowMatchesRuntime, rowVars, ctrVars, Live, Exists
  <2>5. QED BY <2>4, ReturnAgree DEF Fails
<1>2. QED BY <1>1, FailAgree

\* Moving on without touching row or runtime.
LEMMA GotoAgree ==
    ASSUME Typed, NEW p \in Callers, NEW s \in Servers, srv[p] = s, AgreeWhileBusy(s),
           NEW next, Goto(p, next), UNCHANGED <<rowVars, ctrVars, unsaved>>,
           \A q \in Callers : q # p => cid'[q] = cid[q],
           pc[p] \notin {"s_save", "s_status", "r_status", "t_status", "d_release", "d_row"},
           InvocationView(p, s)'
    PROVE  AgreeWhileBusy(s)'
<1>1. \A q \in Callers : srv[q] = s => q = p
  BY DEF AgreeWhileBusy
<1>2. \A q \in Callers : srv'[q] = s => q = p
  BY <1>1 DEF Goto
<1>3. QED
  BY <1>1, <1>2 DEF AgreeWhileBusy, Goto, rowVars, ctrVars, Live, Exists

\* The heart of the argument: the one invocation on an undisturbed server takes
\* its steps in an order that keeps AgreeWhileBusy.
LEMMA StepAgree ==
    ASSUME Typed, Typed', OwnInv, OwnInv', NEW p \in Callers, Step(p),
           NEW s \in Servers, srv[p] = s, AgreeWhileBusy(s), s \notin disturbed'
    PROVE  AgreeWhileBusy(s)'
<1> USE LifecycleAssumption
<1>1. \A q \in Callers : srv[q] = s => q = p
  BY DEF AgreeWhileBusy
<1>2. InvocationView(p, s)
  BY DEF AgreeWhileBusy
<1>3. rowCid[s] # None => rowCid[s] \in Containers /\ ctrOwner[rowCid[s]] = s
  BY DEF OwnInv, OwnContainersOnly, Typed, LifeTypeOK
<1>4. Fails(p) /\ UNCHANGED <<rowVars, ctrVars>> => AgreeWhileBusy(s)'
  BY FailAgreeNone
<1>5. ASSUME NEW r, NEW b, Return(p, r, b), RowMatchesRuntime(s)' PROVE AgreeWhileBusy(s)'
  BY <1>5, ReturnAgree
<1>6. ASSUME NEW w \in {"s_create", "t_status", "d_release"},
             NEW v \in {"s_start", "t_mark", "d_remove"}, ReadRow(p, w, v),
             pc[p] \in {"s_get", "t_get", "d_get"}, UNCHANGED <<rowVars, ctrVars>>
      PROVE  AgreeWhileBusy(s)'
  <2>1. CASE Fails(p)
    BY <1>4, <1>6, <2>1
  <2>2. CASE /\ Live(s)
             /\ cid' = [cid EXCEPT ![p] = rowCid[s]]
             /\ Goto(p, IF rowCid[s] = None THEN w ELSE v)
             /\ UNCHANGED unsaved
    <3>1. ~unsaved[p]
      BY <1>2, <1>6 DEF InvocationView
    <3>2. pc'[p] \in {w, v} /\ cid'[p] = rowCid[s] /\ unsaved'[p] = unsaved[p]
          /\ (rowCid[s] = None => pc'[p] = w) /\ (rowCid[s] # None => pc'[p] = v)
      BY <2>2 DEF Goto, Typed, LifeTypeOK
    <3>3. InvocationView(p, s)'
      BY <1>6, <2>2, <3>1, <3>2 DEF InvocationView, rowVars, ctrVars, Live, Exists, CreatePcs
    <3>4. \A q \in Callers : q # p => cid'[q] = cid[q]
      BY <2>2 DEF Typed, LifeTypeOK
    <3>5. QED BY <1>6, <2>2, <3>3, <3>4, GotoAgree
  <2>3. QED BY <1>6, <2>1, <2>2 DEF ReadRow
<1>7. ASSUME NEW to \in CtrStates, CtrCallFails(p, to), UNCHANGED rowVars
      PROVE  AgreeWhileBusy(s)'
  <2>1. CASE UNCHANGED ctrVars /\ Fails(p)
    BY <1>4, <1>7, <2>1
  <2>2. CASE Return(p, "err", TRUE)
    BY <2>2 DEF Return
  <2>3. QED BY <1>7, <2>1, <2>2 DEF CtrCallFails
<1>8. CASE CreateStatus(p)
  <2>1. CASE Fails(p) /\ UNCHANGED rowStatus
    BY <1>4, <1>8, <2>1 DEF CreateStatus, rowVars
  <2>2. CASE UpdateServerStatus(s, "stopped") /\ Goto(p, "c_ports") /\ UNCHANGED <<cid, unsaved>>
    <3>1. Live(s) /\ rowCid[s] = None /\ ~unsaved[p]
      BY <1>2, <1>8 DEF CreateStatus, InvocationView, CreatePcs
    <3>2. rowStatus'[s] = "stopped" /\ rowCid'[s] = None
      BY <1>8, <2>2, <3>1 DEF CreateStatus, UpdateServerStatus, Typed, LifeTypeOK
    <3>3. pc'[p] = "c_ports" /\ \A q \in Callers : srv'[q] = s => q = p
      BY <1>1, <2>2 DEF Goto, Typed, LifeTypeOK
    <3>4. \A c \in Containers : ctrOwner[c] = s => ~Exists(c)
      BY <1>1, <1>8, <3>1 DEF AgreeWhileBusy, CreateStatus
    <3>5. QED
      BY <1>8, <2>2, <3>1, <3>2, <3>3, <3>4 DEF CreateStatus, AgreeWhileBusy, InvocationView,
         ctrVars, Live, Exists, CreatePcs
  <2>3. QED BY <1>8, <2>1, <2>2 DEF CreateStatus
<1>9. CASE CreatePorts(p)
  <2>1. rowCid[s] = None /\ ~unsaved[p] /\ \A c \in Containers : ctrOwner[c] = s => ~Exists(c)
    BY <1>1, <1>2, <1>9 DEF CreatePorts, InvocationView, AgreeWhileBusy, CreatePcs
  <2>2. rowStatus'[s] = rowStatus[s] \/ rowStatus'[s] = "gone"
    BY <1>9 DEF CreatePorts, DbDeleteServer, Typed, LifeTypeOK
  <2>3. rowStatus[s] # "running"
    BY <1>1, <1>9, <2>1 DEF AgreeWhileBusy, CreatePorts
  <2>4. RowMatchesRuntime(s)'
    BY <1>9, <2>1, <2>2, <2>3 DEF CreatePorts, RowMatchesRuntime, ctrVars, Live, Exists
  <2>5. QED BY <1>5, <1>9, <2>4 DEF CreatePorts, Fails
<1>10. CASE StartGet(p)
  BY <1>6, <1>10 DEF StartGet
<1>11. CASE StartCreate(p)
  <2>1. Live(s) /\ rowCid[s] = None /\ ~unsaved[p]
    BY <1>2, <1>11 DEF StartCreate, InvocationView
  <2>2. ASSUME NEW c \in Containers, CreateContainer(p, c), cid' = [cid EXCEPT ![p] = c],
               unsaved' = [unsaved EXCEPT ![p] = TRUE], Goto(p, "s_save")
        PROVE  AgreeWhileBusy(s)'
    <3>1. pc'[p] = "s_save" /\ cid'[p] = c /\ unsaved'[p] /\ ctrState'[c] = "created"
          /\ UNCHANGED srv
      BY <2>2 DEF Goto, CreateContainer, Typed, LifeTypeOK
    <3>2. rowStatus[s] # "running"
      BY <1>1, <1>11, <2>1 DEF AgreeWhileBusy, StartCreate
    <3>3. \A d \in Containers : ctrOwner'[d] = s /\ Exists(d)' => d = c
      BY <2>2 DEF CreateContainer, NameFree, Exists, Typed, LifeTypeOK
    <3>4. rowStatus' = rowStatus /\ rowCid' = rowCid
      BY <1>11 DEF StartCreate, rowVars
    <3>5. InvocationView(p, s)'
      BY <2>1, <2>2, <3>1, <3>4 DEF InvocationView, Live, CreatePcs
    <3>6. QED
      BY <1>1, <2>1, <2>2, <3>1, <3>2, <3>3, <3>4, <3>5 DEF AgreeWhileBusy, Live
  <2>3. ~Return(p, "err", TRUE)
    BY DEF Return
  <2>4. CASE Fails(p) /\ UNCHANGED ctrVars
    BY <1>4, <1>11, <2>4 DEF StartCreate
  <2>5. QED BY <1>11, <2>2, <2>3, <2>4 DEF StartCreate
<1>12. CASE StartSave(p)
  <2>1. Live(s) /\ rowCid[s] = None /\ unsaved[p] /\ cid[p] \in Containers
        /\ ctrState[cid[p]] = "created" /\ rowStatus[s] # "running"
    <3>1. Live(s) /\ rowCid[s] = None /\ unsaved[p] /\ cid[p] # None
          /\ ctrState[cid[p]] = "created"
      BY <1>2, <1>12 DEF StartSave, InvocationView
    <3>2. rowStatus[s] # "running"
      BY <1>1, <1>12, <3>1 DEF AgreeWhileBusy, StartSave
    <3>3. QED BY <3>1, <3>2 DEF Typed, LifeTypeOK
  <2>2. ~Fails(p)
    BY <2>1 DEF Fails, Return
  <2>3. SetServerContainer(s, cid[p]) /\ Goto(p, "s_start") /\ UNCHANGED cid
        /\ unsaved' = [unsaved EXCEPT ![p] = FALSE]
    BY <1>12, <2>2 DEF StartSave
  <2>4. rowCid'[s] = cid[p] /\ pc'[p] = "s_start" /\ ~unsaved'[p] /\ UNCHANGED srv
    BY <2>1, <2>3 DEF SetServerContainer, Goto, Typed, LifeTypeOK
  <2>5. InvocationView(p, s)'
    BY <1>12, <2>1, <2>3, <2>4 DEF StartSave, InvocationView, Live, Exists, ctrVars, CreatePcs
  <2>6. \A c \in Containers : ctrOwner[c] = s /\ Exists(c) => c = cid[p]
    BY <1>1, <2>1 DEF AgreeWhileBusy
  <2>7. QED
    BY <1>1, <1>12, <2>1, <2>4, <2>5, <2>6 DEF StartSave, AgreeWhileBusy, Live, Exists, ctrVars
<1>13. CASE StartRun(p) \/ RestartRun(p)
  <2>1. CASE CtrCallFails(p, "running")
    BY <1>7, <1>13, <2>1 DEF StartRun, RestartRun, CtrStates
  <2>2. CASE CtrCallOk(p, "running", "s_status") \/ CtrCallOk(p, "running", "r_status")
    <3>1. Live(s) /\ cid[p] = rowCid[s] /\ cid[p] \in Containers
      BY <1>2, <1>3, <1>13 DEF StartRun, RestartRun, InvocationView
    <3>2. pc'[p] \in {"s_status", "r_status"} /\ unsaved'[p] /\ UNCHANGED <<srv, cid, rowVars>>
          /\ ctrState'[cid[p]] = "running" /\ UNCHANGED ctrOwner
          /\ \A c \in Containers : c # cid[p] => ctrState'[c] = ctrState[c]
      BY <1>13, <2>2, <3>1 DEF StartRun, RestartRun, CtrCallOk, CtrCall, Goto, Typed, LifeTypeOK
    <3>3. InvocationView(p, s)'
      BY <3>1, <3>2 DEF InvocationView, Live, Exists, CreatePcs, rowVars
    <3>4. \A c \in Containers : ctrOwner[c] = s /\ Exists(c)' => c = cid[p]
      BY <1>1, <1>13, <3>1, <3>2 DEF AgreeWhileBusy, Exists, StartRun, RestartRun
    <3>5. QED
      BY <1>1, <3>1, <3>2, <3>3, <3>4 DEF AgreeWhileBusy, Live, Exists, rowVars
  <2>3. QED BY <1>13, <2>1, <2>2 DEF StartRun, RestartRun
<1>14. CASE StartStatus(p)
  <2>1. Live(s) /\ cid[p] = rowCid[s] /\ cid[p] \in Containers /\ unsaved[p]
        /\ ctrState[cid[p]] \in {"running", "exited"}
    BY <1>2, <1>3, <1>14 DEF StartStatus, InvocationView
  <2>2. ~Fails(p)
    BY <2>1 DEF Fails, Return
  <2>3. rowStatus'[s] = "running" /\ pc'[p] = "s_limits" /\ ~unsaved'[p]
        /\ UNCHANGED <<srv, cid, rowCid, ctrVars>>
    BY <1>14, <2>1, <2>2 DEF StartStatus, SaveStatus, UpdateServerStatus, Goto, Typed, LifeTypeOK
  <2>4. InvocationView(p, s)'
    BY <2>1, <2>3 DEF InvocationView, Live, CreatePcs
  <2>5. \A c \in Containers : ctrOwner[c] = s /\ Exists(c) => c = cid[p]
    BY <1>1, <1>14, <2>1 DEF AgreeWhileBusy, StartStatus
  <2>6. QED
    BY <1>1, <2>1, <2>3, <2>4, <2>5 DEF AgreeWhileBusy, Live, Exists, ctrVars
<1>15. CASE StartLimits(p)
  <2>1. RowMatchesRuntime(s)
    BY <1>1, <1>3, <1>15 DEF AgreeWhileBusy, RowMatchesRuntime, StartLimits
  <2>2. RowMatchesRuntime(s)'
    BY <1>15, <2>1 DEF StartLimits, RowMatchesRuntime, rowVars, ctrVars, Live, Exists
  <2>3. QED BY <1>5, <1>15, <2>2 DEF StartLimits, Fails
<1>16. CASE StopGet(p)
  BY <1>6, <1>16 DEF StopGet
<1>17. CASE StopMark(p)
  <2>1. pc'[p] = "t_stop" /\ UNCHANGED <<srv, cid, unsaved, rowVars, ctrVars>>
    BY <1>17 DEF StopMark, Goto, Typed, LifeTypeOK
  <2>2. InvocationView(p, s)'
    BY <1>2, <1>17, <2>1 DEF StopMark, InvocationView, Live, rowVars, CreatePcs
  <2>3. QED BY <1>17, <2>1, <2>2, GotoAgree DEF StopMark
<1>18. CASE StopRun(p)
  <2>1. Live(s) /\ cid[p] = rowCid[s] /\ cid[p] \in Containers
    BY <1>2, <1>3, <1>18 DEF StopRun, InvocationView
  <2>2. CASE CtrCallFails(p, StoppedState(cid[p]))
    <3>1. StoppedState(cid[p]) \in CtrStates
      BY <2>1 DEF StoppedState, Typed, LifeTypeOK, CtrStates
    <3>2. QED BY <1>7, <1>18, <2>2, <3>1 DEF StopRun
  <2>3. CASE CtrCallOk(p, StoppedState(cid[p]), "t_status")
    <3>1. pc'[p] = "t_status" /\ unsaved'[p] /\ UNCHANGED <<srv, cid, rowVars>>
          /\ ctrState'[cid[p]] # "running" /\ Exists(cid[p])' /\ UNCHANGED ctrOwner
          /\ \A c \in Containers : c # cid[p] => ctrState'[c] = ctrState[c]
      BY <1>18, <2>1, <2>3 DEF StopRun, CtrCallOk, CtrCall, Goto, StoppedState, Exists, Typed,
         LifeTypeOK
    <3>2. InvocationView(p, s)'
      BY <2>1, <3>1 DEF InvocationView, Live, Exists, CreatePcs, rowVars
    <3>3. \A c \in Containers : ctrOwner[c] = s /\ Exists(c)' => c = cid[p]
      BY <1>1, <1>18, <2>1, <3>1 DEF AgreeWhileBusy, Exists, StopRun
    <3>4. QED
      BY <1>1, <2>1, <3>1, <3>2, <3>3 DEF AgreeWhileBusy, Live, Exists, rowVars
  <2>4. QED BY <1>18, <2>2, <2>3 DEF StopRun
<1>19. CASE StopStatus(p)
  <2>1. CASE Fails(p) /\ UNCHANGED rowStatus
    BY <1>4, <1>19, <2>1 DEF StopStatus, rowVars
  <2>2. CASE UpdateServerStatus(s, "stopped") /\ Return(p, "ok", FALSE)
    <3>1. Live(s) /\ cid[p] = rowCid[s]
          /\ (cid[p] # None => Exists(cid[p]) /\ ctrState[cid[p]] # "running")
      BY <1>2, <1>19 DEF StopStatus, InvocationView
    <3>2. rowStatus'[s] = "stopped" /\ UNCHANGED <<rowCid, ctrVars>>
      BY <1>19, <2>2, <3>1 DEF StopStatus, UpdateServerStatus, Typed, LifeTypeOK
    <3>3. \A c \in Containers : ctrOwner[c] = s /\ Exists(c) => c = rowCid[s]
      BY <1>1, <1>19 DEF AgreeWhileBusy, StopStatus
    <3>4. RowMatchesRuntime(s)'
      BY <1>3, <3>1, <3>2, <3>3 DEF RowMatchesRuntime, Live, Exists, ctrVars
    <3>5. QED BY <1>5, <2>2, <3>4
  <2>3. QED BY <1>19, <2>1, <2>2 DEF StopStatus, SaveStatusAndReturn
<1>20. CASE RestartGet(p)
  <2>1. CASE Fails(p)
    BY <1>4, <1>20, <2>1 DEF RestartGet
  <2>2. CASE /\ Live(s) /\ rowCid[s] # None
             /\ cid' = [cid EXCEPT ![p] = rowCid[s]]
             /\ Goto(p, "r_restart") /\ UNCHANGED unsaved
    <3>1. ~unsaved[p]
      BY <1>2, <1>20 DEF RestartGet, InvocationView
    <3>2. pc'[p] = "r_restart" /\ cid'[p] = rowCid[s] /\ ~unsaved'[p]
          /\ UNCHANGED <<rowVars, ctrVars>>
          /\ \A q \in Callers : q # p => cid'[q] = cid[q]
      BY <1>20, <2>2, <3>1 DEF RestartGet, Goto, Typed, LifeTypeOK
    <3>3. InvocationView(p, s)'
      BY <2>2, <3>2 DEF InvocationView, rowVars, Live, CreatePcs
    <3>4. QED BY <1>20, <2>2, <3>2, <3>3, GotoAgree DEF RestartGet
  <2>3. QED BY <1>20, <2>1, <2>2 DEF RestartGet
<1>21. CASE RestartStatus(p)
  <2>1. Live(s) /\ cid[p] = rowCid[s] /\ cid[p] \in Containers /\ unsaved[p]
        /\ ctrState[cid[p]] \in {"running", "exited"}
    BY <1>2, <1>3, <1>21 DEF RestartStatus, InvocationView
  <2>2. ~Fails(p)
    BY <2>1 DEF Fails, Return
  <2>3. rowStatus'[s] = "running" /\ UNCHANGED <<rowCid, ctrVars>> /\ Return(p, "ok", FALSE)
    BY <1>21, <2>1, <2>2 DEF RestartStatus, SaveStatusAndReturn, UpdateServerStatus, Typed,
       LifeTypeOK
  <2>4. \A c \in Containers : ctrOwner[c] = s /\ Exists(c) => c = rowCid[s]
    BY <1>1, <1>21 DEF AgreeWhileBusy, RestartStatus
  <2>5. RowMatchesRuntime(s)'
    BY <1>3, <2>1, <2>3, <2>4 DEF RowMatchesRuntime, Live, Exists, ctrVars
  <2>6. QED BY <1>5, <2>3, <2>5
<1>22. CASE DeleteGet(p)
  BY <1>6, <1>22 DEF DeleteGet
<1>23. CASE DeleteRemove(p)
  <2>1. CASE CtrCallFails(p, "removed")
    BY <1>7, <1>23, <2>1 DEF DeleteRemove, CtrStates
  <2>2. CASE CtrCallOk(p, "removed", "d_release")
    <3>1. Live(s) /\ cid[p] = rowCid[s] /\ cid[p] \in Containers
      BY <1>2, <1>3, <1>23 DEF DeleteRemove, InvocationView
    <3>2. pc'[p] = "d_release" /\ unsaved'[p] /\ UNCHANGED <<srv, cid, rowVars>>
          /\ ctrState'[cid[p]] = "removed" /\ UNCHANGED ctrOwner
          /\ \A c \in Containers : c # cid[p] => ctrState'[c] = ctrState[c]
      BY <1>23, <2>2, <3>1 DEF DeleteRemove, CtrCallOk, CtrCall, Goto, Typed, LifeTypeOK
    <3>3. InvocationView(p, s)'
      BY <3>1, <3>2 DEF InvocationView, Live, Exists, CreatePcs, rowVars
    <3>4. \A c \in Containers : ctrOwner[c] = s => ~Exists(c)'
      BY <1>1, <1>23, <3>1, <3>2 DEF AgreeWhileBusy, Exists, DeleteRemove
    <3>5. QED
      BY <1>1, <1>3, <3>1, <3>2, <3>3, <3>4 DEF AgreeWhileBusy, Live, Exists, rowVars
  <2>3. QED BY <1>23, <2>1, <2>2 DEF DeleteRemove
<1>24. CASE DeleteRelease(p)
  <2>1. CASE Fails(p)
    BY <1>4, <1>24, <2>1 DEF DeleteRelease
  <2>2. CASE Goto(p, "d_row") /\ UNCHANGED <<cid, unsaved>>
    <3>1. pc'[p] = "d_row" /\ UNCHANGED <<srv, cid, unsaved, rowVars, ctrVars>>
      BY <1>24, <2>2 DEF DeleteRelease, Goto, Typed, LifeTypeOK
    <3>2. InvocationView(p, s)'
      BY <1>2, <1>24, <3>1 DEF DeleteRelease, InvocationView, Live, rowVars, ctrVars, CreatePcs
    <3>3. QED
      BY <1>1, <1>24, <3>1, <3>2 DEF DeleteRelease, AgreeWhileBusy, Live, Exists, rowVars, ctrVars
  <2>3. QED BY <1>24, <2>1, <2>2 DEF DeleteRelease
<1>25. CASE DeleteRow(p)
  <2>1. CASE Fails(p) /\ UNCHANGED rowStatus
    BY <1>4, <1>25, <2>1 DEF DeleteRow, rowVars
  <2>2. CASE DbDeleteServer(s) /\ Return(p, "ok", FALSE)
    <3>1. Live(s) /\ cid[p] = rowCid[s] /\ (cid[p] # None => ctrState[cid[p]] = "removed")
      BY <1>2, <1>25 DEF DeleteRow, InvocationView
    <3>2. rowStatus'[s] = "gone" /\ UNCHANGED <<rowCid, ctrVars>>
      BY <1>25, <2>2, <3>1 DEF DeleteRow, DbDeleteServer, Typed, LifeTypeOK
    <3>3. \A c \in Containers : ctrOwner[c] = s => ~Exists(c)
      BY <1>1, <1>25, <3>1 DEF AgreeWhileBusy, Exists, DeleteRow
    <3>4. RowMatchesRuntime(s)'
      BY <3>2, <3>3 DEF RowMatchesRuntime, Live, Exists, ctrVars
    <3>5. QED BY <1>5, <2>2, <3>4
  <2>3. QED BY <1>25, <2>1, <2>2 DEF DeleteRow
<1>26. QED
  BY <1>8, <1>9, <1>10, <1>11, <1>12, <1>13, <1>14, <1>15, <1>16, <1>17, <1>18, <1>19, <1>20,
     <1>21, <1>22, <1>23, <1>24, <1>25 DEF Step

\* A server nobody created yet has no container id.
Fresh == \A s \in Servers : rowStatus[s] = "none" => rowCid[s] = None

\* No statement makes a row appear but CreateServer's INSERT, and the updates
\* only touch rows that exist.
LEMMA NextFresh == Typed /\ Fresh /\ [LifeNext]_lifeVars => Fresh'
<1> SUFFICES ASSUME Typed, Fresh, [LifeNext]_lifeVars PROVE Fresh'
  OBVIOUS
<1> DEFINE Kept == \A s \in Servers :
                     rowStatus'[s] = "none" => rowStatus[s] = "none" /\ rowCid'[s] = rowCid[s]
<1>1. Kept => Fresh'
  BY DEF Fresh
<1>2. UNCHANGED rowVars => Kept
  BY DEF rowVars
<1>3. ASSUME NEW s, UNCHANGED rowCid,
             \/ UNCHANGED rowStatus
             \/ UpdateServerStatus(s, "stopped") \/ UpdateServerStatus(s, "running")
             \/ UpdateServerStatus(s, "crash_looping") \/ DbDeleteServer(s)
      PROVE  Kept
  BY <1>3 DEF UpdateServerStatus, DbDeleteServer, Typed, LifeTypeOK
<1>4. ASSUME NEW p \in Callers, Step(p) PROVE Kept
  <2>1. CASE StartSave(p)
    BY <2>1 DEF StartSave, SetServerContainer, Live, Typed, LifeTypeOK
  <2>2. CASE CreateStatus(p) \/ CreatePorts(p) \/ DeleteRow(p) \/ StartStatus(p)
             \/ StopStatus(p) \/ RestartStatus(p)
    BY <1>3, <2>2 DEF CreateStatus, CreatePorts, DeleteRow, StartStatus, SaveStatus, StopStatus,
       RestartStatus, SaveStatusAndReturn
  <2>3. QED
    BY <1>2, <1>4, <2>1, <2>2 DEF Step, StartGet, StartCreate, StartRun, StartLimits, StopGet,
       StopMark, StopRun, RestartGet, RestartRun, DeleteGet, DeleteRemove, DeleteRelease
<1>5. ASSUME NEW p \in Callers, NEW s \in Servers, CreateInsert(p, s) PROVE Kept
  BY <1>5 DEF CreateInsert, Typed, LifeTypeOK
<1>6. ASSUME NEW p \in Callers, NEW s \in Servers,
             StartServer(p, s) \/ StopServer(p, s) \/ RestartServer(p, s) \/ DeleteServer(p, s)
      PROVE  Kept
  BY <1>2, <1>6 DEF StartServer, StopServer, RestartServer, DeleteServer
<1>7. ASSUME NEW s \in Servers, MarkCrashLooping(s) PROVE Kept
  BY <1>3, <1>7 DEF MarkCrashLooping
<1>8. CASE \/ \E c \in Containers : ContainerExits(c)
           \/ \E s \in Servers : IsManualStop(s)
           \/ DaemonCrash
           \/ \E p \in CliCallers : CliKilled(p)
           \/ UNCHANGED lifeVars
  BY <1>1, <1>2, <1>8 DEF ContainerExits, IsManualStop, DaemonCrash, CliKilled, Die, lifeVars, rowVars
<1>9. QED BY <1>1, <1>4, <1>5, <1>6, <1>7, <1>8 DEF LifeNext, Invoke, Command

\* A method starts on s: on a server that is busy it disturbs, on a server at
\* rest it finds the row and the runtime in agreement.
LEMMA InvokeAgree ==
    ASSUME Typed, Typed', OwnInv, Fresh, NEW p \in Callers, NEW t \in Servers,
           \/ CreateInsert(p, t) \/ StartServer(p, t) \/ StopServer(p, t)
           \/ RestartServer(p, t) \/ DeleteServer(p, t),
           NEW s \in Servers, AgreeWhileBusy(s), s \notin disturbed'
    PROVE  AgreeWhileBusy(s)'
<1> USE LifecycleAssumption
<1>1. \E first \in {"c_status", "s_get", "t_get", "r_get", "d_get"} :
        /\ Begin(p, t, first)
        /\ UNCHANGED <<rowCid, ctrVars>>
        /\ \/ first # "c_status" /\ UNCHANGED rowStatus
           \/ /\ first = "c_status"
              /\ rowStatus[t] = "none"
              /\ rowStatus' = [rowStatus EXCEPT ![t] = "installing"]
  BY DEF CreateInsert, StartServer, StopServer, RestartServer, DeleteServer, rowVars
<1>2. PICK first \in {"c_status", "s_get", "t_get", "r_get", "d_get"} :
        /\ Begin(p, t, first)
        /\ UNCHANGED <<rowCid, ctrVars>>
        /\ \/ first # "c_status" /\ UNCHANGED rowStatus
           \/ /\ first = "c_status"
              /\ rowStatus[t] = "none"
              /\ rowStatus' = [rowStatus EXCEPT ![t] = "installing"]
  BY <1>1
<1>3. /\ srv[p] = None /\ cid[p] = None /\ ~unsaved[p]
      /\ srv'[p] = t /\ pc'[p] = first /\ UNCHANGED <<cid, unsaved>>
      /\ \A q \in Callers : q # p => srv'[q] = srv[q] /\ pc'[q] = pc[q]
  BY <1>2 DEF Begin, Typed, LifeTypeOK, LocalsOK
<1>4. CASE s # t
  <2>1. Elsewhere(s)
    BY <1>2, <1>3, <1>4 DEF Elsewhere, ctrVars, Typed, LifeTypeOK
  <2>2. QED BY <2>1, ElsewhereAgree
<1>5. CASE s = t
  <2>1. \A q \in Callers : srv[q] # s
    BY <1>2, <1>5 DEF Begin, Busy
  <2>2. \A q \in Callers : srv'[q] = s => q = p
    BY <1>3, <2>1
  <2>3. CASE first # "c_status"
    <3>1. InvocationView(p, s)'
      BY <1>3, <2>3 DEF InvocationView, CreatePcs
    <3>2. QED
      BY <1>2, <2>1, <2>2, <2>3, <3>1 DEF AgreeWhileBusy, Live, Exists, ctrVars
  <2>4. CASE first = "c_status"
    <3>1. rowCid[s] = None /\ rowStatus'[s] = "installing" /\ ~Live(s)
      BY <1>2, <1>5, <2>4 DEF Fresh, Live, Typed, LifeTypeOK
    <3>2. \A c \in Containers : ctrOwner[c] = s => ~Exists(c)
      BY <2>1, <3>1 DEF AgreeWhileBusy
    <3>3. InvocationView(p, s)'
      BY <1>2, <1>3, <2>4, <3>1 DEF InvocationView, CreatePcs, Live
    <3>4. QED
      BY <1>2, <2>2, <3>1, <3>2, <3>3 DEF AgreeWhileBusy, Live, Exists, ctrVars
  <2>5. QED BY <2>3, <2>4
<1>6. QED BY <1>4, <1>5

\* A dying process leaves agreement behind on every server it did not cut
\* between a container change and its row update.
LEMMA DieAgree ==
    ASSUME Typed, Typed', OwnInv, NEW who \in SUBSET Callers, Die(who),
           NEW s \in Servers, AgreeWhileBusy(s), s \notin disturbed'
    PROVE  AgreeWhileBusy(s)'
<1> USE LifecycleAssumption
<1>1. CASE \A p \in who : srv[p] # s
  <2>1. Elsewhere(s)
    BY <1>1 DEF Elsewhere, Die, rowVars, ctrVars
  <2>2. QED BY <2>1, ElsewhereAgree
<1>2. CASE \E p \in who : srv[p] = s
  <2>1. PICK p \in who : srv[p] = s
    BY <1>2
  <2>2. ~unsaved[p]
    BY <2>1 DEF Die
  <2>3. \A q \in Callers : srv[q] = s => q = p
    BY <2>1 DEF AgreeWhileBusy
  <2>4. \A q \in Callers : srv'[q] # s
    BY <2>1, <2>3 DEF Die
  <2>5. InvocationView(p, s)
    BY <2>1 DEF AgreeWhileBusy
  <2>6. pc[p] \notin {"s_save", "s_status", "r_status"}
        /\ (pc[p] \in {"d_release", "d_row", "t_status"} => cid[p] = None /\ rowCid[s] = None)
    BY <2>2, <2>5 DEF InvocationView
  <2>7. RowMatchesRuntime(s)
    BY <2>3, <2>6 DEF AgreeWhileBusy, RowMatchesRuntime, OwnInv, OwnContainersOnly
  <2>8. RowMatchesRuntime(s)'
    BY <2>7 DEF Die, RowMatchesRuntime, rowVars, ctrVars, Live, Exists
  <2>9. QED BY <2>4, <2>8 DEF AgreeWhileBusy, RowMatchesRuntime
<1>3. QED BY <1>1, <1>2

\* What has disturbed a server is never forgotten.
LEMMA DisturbedGrows == [LifeNext]_lifeVars => disturbed \subseteq disturbed'
<1> SUFFICES ASSUME [LifeNext]_lifeVars PROVE disturbed \subseteq disturbed'
  OBVIOUS
<1>1. ASSUME NEW p \in Callers, Step(p) PROVE disturbed \subseteq disturbed'
  <2>1. ASSUME NEW r, NEW b, Return(p, r, b) PROVE disturbed \subseteq disturbed'
    BY <2>1 DEF Return
  <2>2. Fails(p) => disturbed \subseteq disturbed'
    BY <2>1 DEF Fails
  <2>3. ASSUME NEW next, Goto(p, next) PROVE disturbed \subseteq disturbed'
    BY <2>3 DEF Goto
  <2>4. QED
    BY <1>1, <2>1, <2>2, <2>3 DEF Step, CreateStatus, CreatePorts, StartGet, StartCreate,
       StartSave, StartRun, StartStatus, StartLimits, StopGet, StopMark, StopRun, StopStatus,
       RestartGet, RestartRun, RestartStatus, DeleteGet, DeleteRemove, DeleteRelease,
       DeleteRow, ReadRow, CtrCallOk, CtrCallFails, SaveStatus, SaveStatusAndReturn
<1>2. ASSUME NEW p \in Callers, NEW t \in Servers,
             \/ CreateInsert(p, t) \/ StartServer(p, t) \/ StopServer(p, t)
             \/ RestartServer(p, t) \/ DeleteServer(p, t)
      PROVE  disturbed \subseteq disturbed'
  BY <1>2 DEF CreateInsert, StartServer, StopServer, RestartServer, DeleteServer, Begin
<1>3. CASE \/ \E c \in Containers : ContainerExits(c)
           \/ \E t \in Servers : MarkCrashLooping(t) \/ IsManualStop(t)
           \/ DaemonCrash
           \/ \E p \in CliCallers : CliKilled(p)
           \/ UNCHANGED lifeVars
  BY <1>3 DEF ContainerExits, MarkCrashLooping, IsManualStop, DaemonCrash, CliKilled, Die, lifeVars
<1>4. QED BY <1>1, <1>2, <1>3 DEF LifeNext, Invoke, Command

\* Every step keeps AgreeWhileBusy on every server that is still undisturbed.
LEMMA NextAgree ==
    Typed /\ OwnInv /\ Fresh /\ AgreeInv /\ [LifeNext]_lifeVars => AgreeInv'
<1> SUFFICES ASSUME Typed, OwnInv, Fresh, AgreeInv, [LifeNext]_lifeVars,
                    NEW s \in Servers, s \notin disturbed'
             PROVE  AgreeWhileBusy(s)'
  BY DEF AgreeInv
<1>1. Typed' /\ OwnInv'
  BY NextTyped, NextOwn
<1>2. s \notin disturbed
  BY DisturbedGrows
<1>3. AgreeWhileBusy(s)
  BY <1>2 DEF AgreeInv
<1>4. ASSUME NEW p \in Callers, NEW t \in Servers,
             \/ CreateInsert(p, t) \/ StartServer(p, t) \/ StopServer(p, t)
             \/ RestartServer(p, t) \/ DeleteServer(p, t)
      PROVE  AgreeWhileBusy(s)'
  BY <1>1, <1>3, <1>4, InvokeAgree
<1>5. ASSUME NEW p \in Callers, Step(p) PROVE AgreeWhileBusy(s)'
  <2>1. CASE srv[p] = s
    BY <1>1, <1>3, <1>5, <2>1, StepAgree
  <2>2. CASE srv[p] # s
    BY <1>3, <1>5, <2>2, StepElsewhere, ElsewhereAgree
  <2>3. QED BY <2>1, <2>2
<1>6. ASSUME NEW c \in Containers, ContainerExits(c) PROVE AgreeWhileBusy(s)'
  <2>1. /\ ctrState[c] = "running" /\ ctrState'[c] = "exited"
        /\ \A d \in Containers : d # c => ctrState'[d] = ctrState[d]
        /\ UNCHANGED <<rowStatus, rowCid, ctrOwner, pc, srv, cid, unsaved>>
    BY <1>6 DEF ContainerExits, rowVars, opVars, Typed, LifeTypeOK
  <2>2. \A d \in Containers : Exists(d)' <=> Exists(d)
    BY <2>1 DEF Exists
  <2>3. \A q \in Callers : srv'[q] = s => InvocationView(q, s)'
    <3> SUFFICES ASSUME NEW q \in Callers, srv'[q] = s PROVE InvocationView(q, s)'
      OBVIOUS
    <3>1. InvocationView(q, s)
      BY <1>3, <2>1 DEF AgreeWhileBusy
    <3>2. cid[q] # None => cid[q] \in Containers
      BY DEF Typed, LifeTypeOK
    <3>3. QED
      BY <2>1, <2>2, <3>1, <3>2 DEF InvocationView, Live, CreatePcs
  <2>4. rowCid[s] # None => rowCid[s] \in Containers
    BY DEF Typed, LifeTypeOK
  <2>5. QED
    BY <1>3, <2>1, <2>2, <2>3, <2>4 DEF AgreeWhileBusy, Live
<1>7. ASSUME NEW t \in Servers, MarkCrashLooping(t) PROVE AgreeWhileBusy(s)'
  <2>1. CASE rowStatus'[s] = rowStatus[s]
    <3>1. Elsewhere(s)
      BY <1>7, <2>1 DEF MarkCrashLooping, Elsewhere, ctrVars, opVars
    <3>2. QED BY <1>3, <3>1, ElsewhereAgree
  <2>2. CASE rowStatus'[s] # rowStatus[s]
    <3>1. Live(s) /\ rowStatus'[s] = "crash_looping"
          /\ UNCHANGED <<rowCid, ctrVars, pc, srv, cid, unsaved>>
      BY <1>7, <2>2 DEF MarkCrashLooping, UpdateServerStatus, opVars, Typed, LifeTypeOK
    <3>2. Live(s)'
      BY <3>1 DEF Live
    <3>3. \A q \in Callers : srv'[q] = s => InvocationView(q, s)'
      BY <1>3, <3>1, <3>2 DEF AgreeWhileBusy, InvocationView, ctrVars, Exists, CreatePcs
    <3>4. QED
      BY <1>3, <3>1, <3>2, <3>3 DEF AgreeWhileBusy, ctrVars, Exists
  <2>3. QED BY <2>1, <2>2
<1>8. CASE DaemonCrash
  BY <1>1, <1>3, <1>8, DieAgree DEF DaemonCrash
<1>9. ASSUME NEW p \in CliCallers, CliKilled(p) PROVE AgreeWhileBusy(s)'
  BY <1>1, <1>3, <1>9, DieAgree, LifecycleAssumption DEF CliKilled
<1>10. CASE UNCHANGED lifeVars \/ \E t \in Servers : IsManualStop(t)
  <2>1. Elsewhere(s)
    BY <1>10 DEF lifeVars, IsManualStop, rowVars, ctrVars, opVars, Elsewhere
  <2>2. QED BY <1>3, <2>1, ElsewhereAgree
<1>11. QED BY <1>4, <1>5, <1>6, <1>7, <1>8, <1>9, <1>10 DEF LifeNext, Invoke, Command

\* The inductive invariants of the lifecycle together.
LEMMA AgreeAlways == LifeSpec => [](Typed /\ OwnInv /\ Fresh /\ AgreeInv)
<1>1. LifeInit => OwnInv /\ Fresh /\ AgreeInv
  BY LifecycleAssumption DEF LifeInit, OwnInv, OwnContainersOnly, Fresh, AgreeInv,
     AgreeWhileBusy, Exists, Live
<1>2. LifeSpec => []Typed
  BY InitTyped, NextTyped, PTL DEF LifeSpec
<1>3. LifeSpec => []OwnInv
  BY <1>1, <1>2, NextOwn, PTL DEF LifeSpec
<1>4. LifeSpec => []Fresh
  BY <1>1, <1>2, NextFresh, PTL DEF LifeSpec
<1>5. LifeSpec => []AgreeInv
  BY <1>1, <1>2, <1>3, <1>4, NextAgree, PTL DEF LifeSpec
<1>6. QED BY <1>2, <1>3, <1>4, <1>5, PTL

\* At rest and undisturbed, what the row of a server says is what the runtime
\* has: for any number of servers, callers and containers, with failed calls,
\* daemon crashes and container exits at any point.
THEOREM UndisturbedAgreeCorrect == LifeSpec => []UndisturbedAgree
<1>1. Typed /\ OwnInv /\ AgreeInv => UndisturbedAgree
  <2> SUFFICES ASSUME Typed, OwnInv, AgreeInv, NEW s \in Servers, s \notin disturbed, ~Busy(s)
               PROVE  RowMatchesRuntime(s)
    BY DEF UndisturbedAgree
  <2>1. AgreeWhileBusy(s) /\ \A q \in Callers : srv[q] # s
    BY DEF AgreeInv, Busy
  <2>2. QED
    BY <2>1 DEF AgreeWhileBusy, RowMatchesRuntime, OwnInv, OwnContainersOnly
<1>2. QED BY <1>1, AgreeAlways, PTL

-----------------------------------------------------------------------------
(* SelfHealing.                                                            *)

HealVarsTyped ==
    /\ restarts \in [Servers -> Nat]
    /\ crashQ \in Seq(Servers)
    /\ previous \in [Servers -> {"unseen", "running", "down"}]
    /\ todo \in SUBSET (Servers \X Containers)
    /\ sample \in [srv : Servers, state : CtrStates] \cup {NoSample}
    /\ hpc \in [Healers -> HealPcs]
    /\ hsrv \in [Healers -> Servers \cup {None}]
    /\ healed \in SUBSET Servers

\* A handler holds a server exactly while it runs.
HandlersOK == \A h \in Healers : hpc[h] = "idle" <=> hsrv[h] = None

HealOK == HealVarsTyped /\ HandlersOK

\* The composition starts in a well-typed initial state of the lifecycle.
LEMMA HealInit == Init => LifeInit /\ Typed /\ HealOK
<1> SUFFICES ASSUME Init PROVE LifeInit /\ Typed /\ HealOK
  OBVIOUS
<1>1. LifeInit /\ Typed
  BY InitTyped DEF Init
<1>2. HealOK
  BY LifecycleAssumption, HealingAssumption
     DEF Init, HealOK, HealVarsTyped, HandlersOK, HealPcs, NoSample
<1>3. QED BY <1>1, <1>2

\* Every step of the observer, the bus and the handlers is a step of the
\* lifecycle or leaves its variables alone.
LEMMA HealStepImplements == HealOK /\ [Next]_vars => [LifeNext]_lifeVars
<1> SUFFICES ASSUME HealOK, [Next]_vars PROVE [LifeNext]_lifeVars
  OBVIOUS
<1> USE LifecycleAssumption, HealingAssumption
<1>1. CASE Commands
  BY <1>1 DEF Commands, LifeNext
<1>2. CASE Observe
  <2>1. CASE ObserverTick \/ \E s \in Servers, c \in Containers : ObserverSample(s, c)
    BY <2>1 DEF ObserverTick, ObserverSample
  <2>2. CASE ObserverDecide
    <3>1. sample.srv \in Servers
      BY <2>2 DEF ObserverDecide, HealOK, HealVarsTyped
    <3>2. IsManualStop(sample.srv) \/ UNCHANGED lifeVars
      BY <2>2 DEF ObserverDecide
    <3>3. QED BY <3>1, <3>2 DEF LifeNext
  <2>3. QED BY <1>2, <2>1, <2>2 DEF Observe
<1>3. ASSUME NEW h \in Healers, HealStep(h) PROVE [LifeNext]_lifeVars
  <2>1. CASE HealReceive(h) \/ HealCheck(h) \/ HealReturned(h) \/ HealCount(h)
    BY <2>1 DEF HealReceive, HealCheck, HealReturned, HealCount
  <2>2. CASE HealGiveUp(h)
    <3>1. hsrv[h] \in Servers
      BY <2>2 DEF HealGiveUp, HealOK, HealVarsTyped, HandlersOK
    <3>2. QED BY <2>2, <3>1 DEF HealGiveUp, LifeNext
  <2>3. CASE HealRestart(h)
    <3>1. hsrv[h] \in Servers
      BY <2>3 DEF HealRestart, HealOK, HealVarsTyped, HandlersOK
    <3>2. QED BY <2>3, <3>1 DEF HealRestart, LifeNext
  <2>4. QED BY <1>3, <2>1, <2>2, <2>3 DEF HealStep
<1>4. CASE Crash
  BY <1>4 DEF Crash, LifeNext
<1>5. CASE UNCHANGED vars
  BY <1>5 DEF vars
<1>6. QED BY <1>1, <1>2, <1>3, <1>4, <1>5 DEF Next

\* The variables of the observer and the healer keep their types.
LEMMA HealNextOK == Typed /\ HealOK /\ [Next]_vars => HealOK'
<1> SUFFICES ASSUME Typed, HealOK, [Next]_vars PROVE HealOK'
  OBVIOUS
<1> USE LifecycleAssumption, HealingAssumption DEF HealOK, HealVarsTyped, HandlersOK, HealPcs
<1>1. CASE Commands
  BY <1>1 DEF Commands, healVars
<1>2. CASE ObserverTick
  <2>1. todo' \in SUBSET (Servers \X Containers)
    BY <1>2 DEF ObserverTick, Typed, LifeTypeOK
  <2>2. QED BY <1>2, <2>1 DEF ObserverTick
<1>3. ASSUME NEW s \in Servers, NEW c \in Containers, ObserverSample(s, c) PROVE HealOK'
  <2>1. todo' \in SUBSET (Servers \X Containers)
    BY <1>3 DEF ObserverSample
  <2>2. sample' \in [srv : Servers, state : CtrStates] \cup {NoSample}
    BY <1>3 DEF ObserverSample, Typed, LifeTypeOK
  <2>3. QED BY <1>3, <2>1, <2>2 DEF ObserverSample
<1>4. CASE ObserverDecide
  <2>1. sample.srv \in Servers
    BY <1>4 DEF ObserverDecide
  <2>2. crashQ' \in Seq(Servers)
    <3>1. Append(crashQ, sample.srv) \in Seq(Servers) /\ crashQ \in Seq(Servers)
      BY <2>1
    <3>2. crashQ' = Append(crashQ, sample.srv) \/ crashQ' = crashQ
      BY <1>4 DEF ObserverDecide, Publish
    <3>3. QED BY <3>1, <3>2
  <2>3. previous' \in [Servers -> {"unseen", "running", "down"}]
    BY <1>4, <2>1 DEF ObserverDecide
  <2>4. QED BY <1>4, <2>2, <2>3 DEF ObserverDecide
<1>5. ASSUME NEW h \in Healers, HealStep(h) PROVE HealOK'
  <2>1. CASE HealReceive(h)
    <3>1. Head(crashQ) \in Servers /\ Tail(crashQ) \in Seq(Servers)
      BY <2>1 DEF HealReceive
    <3>2. QED BY <2>1, <3>1 DEF HealReceive, HealGoto, obsVars
  <2>2. CASE HealCheck(h)
    BY <2>2 DEF HealCheck, HealGoto, HealDone, obsVars
  <2>3. CASE HealGiveUp(h)
    BY <2>3 DEF HealGiveUp, HealGoto, HealDone, obsVars
  <2>4. CASE HealRestart(h)
    BY <2>4 DEF HealRestart, HealGoto, obsVars
  <2>5. CASE HealReturned(h)
    BY <2>5 DEF HealReturned, HealGoto, HealDone, obsVars
  <2>6. CASE HealCount(h)
    <3>1. restarts' \in [Servers -> Nat]
      BY <2>6 DEF HealCount
    <3>2. QED BY <2>6, <3>1 DEF HealCount, HealGoto, HealDone, obsVars
  <2>7. QED BY <1>5, <2>1, <2>2, <2>3, <2>4, <2>5, <2>6 DEF HealStep
<1>6. CASE Crash
  BY <1>6 DEF Crash
<1>7. CASE UNCHANGED vars
  BY <1>7 DEF vars, healVars
<1>8. QED BY <1>1, <1>2, <1>3, <1>4, <1>5, <1>6, <1>7 DEF Next, Observe

\* Well-typedness of the whole composition.
LEMMA HealAlwaysOK == Spec => [](Typed /\ HealOK)
<1>1. Typed /\ HealOK /\ [Next]_vars => Typed' /\ HealOK'
  BY HealStepImplements, HealNextOK, NextTyped
<1>2. QED BY <1>1, HealInit, PTL DEF Spec

\* The variables of the composition keep their types.
THEOREM HealTypeCorrect == Spec => []HealTypeOK
<1>1. Typed /\ HealOK => HealTypeOK
  BY DEF Typed, HealOK, HealVarsTyped, HealTypeOK
<1>2. QED BY <1>1, HealAlwaysOK, PTL

\* The daemon with crash observer and self-healer implements the lifecycle: to
\* rows, containers and marks it does nothing a Lifecycle method, an exiting
\* container or a crash could not do.
THEOREM HealingImplementsLifecycle == Spec => LifeSpec
<1>1. Spec => []HealOK
  BY HealAlwaysOK, PTL
<1>2. QED BY <1>1, HealInit, HealStepImplements, PTL DEF Spec, LifeSpec

\* Hence automatic restarts do not break the agreement of row and runtime.
THEOREM HealingKeepsAgreement == Spec => []UndisturbedAgree
  BY HealingImplementsLifecycle, UndisturbedAgreeCorrect, PTL

-----------------------------------------------------------------------------
(* The bound on automatic restarts.                                          *)

\* A step that counts nothing and lets nobody past the check keeps the bound.
LEMMA BoundKept ==
    ASSUME HealOK, HealOK', NEW s \in Servers,
           \/ restarts[s] + Cardinality(InFlight(s)) < MaxRetries + Cardinality(Healers)
           \/ restarts[s] = 0 /\ InFlight(s) = {},
           restarts'[s] = restarts[s], InFlight(s)' \subseteq InFlight(s)
    PROVE  \/ restarts'[s] + Cardinality(InFlight(s)') < MaxRetries + Cardinality(Healers)
           \/ restarts'[s] = 0 /\ InFlight(s)' = {}
<1>1. IsFiniteSet(InFlight(s)) /\ IsFiniteSet(Healers)
  BY HealingAssumption, FS_Subset DEF InFlight
<1>2. /\ Cardinality(InFlight(s)) \in Nat /\ Cardinality(InFlight(s)') \in Nat
      /\ Cardinality(InFlight(s)') <= Cardinality(InFlight(s))
      /\ Cardinality(Healers) \in Nat
  BY <1>1, FS_Subset, FS_CardinalityType
<1>3. restarts[s] \in Nat /\ MaxRetries \in Nat
  BY HealingAssumption DEF HealOK, HealVarsTyped
<1>4. QED BY <1>2, <1>3

\* RestartsBounded is inductive under well-typedness.
LEMMA BoundNext == HealOK /\ HealOK' /\ RestartsBounded /\ [Next]_vars => RestartsBounded'
<1> SUFFICES ASSUME HealOK, HealOK', RestartsBounded, [Next]_vars, NEW s \in Servers
             PROVE  \/ restarts'[s] + Cardinality(InFlight(s)') < MaxRetries + Cardinality(Healers)
                    \/ restarts'[s] = 0 /\ InFlight(s)' = {}
  BY DEF RestartsBounded
<1> USE HealingAssumption
<1> DEFINE Same == restarts'[s] = restarts[s] /\ InFlight(s)' \subseteq InFlight(s)
           Goal == \/ restarts'[s] + Cardinality(InFlight(s)') < MaxRetries + Cardinality(Healers)
                   \/ restarts'[s] = 0 /\ InFlight(s)' = {}
<1>1. \/ restarts[s] + Cardinality(InFlight(s)) < MaxRetries + Cardinality(Healers)
      \/ restarts[s] = 0 /\ InFlight(s) = {}
  BY DEF RestartsBounded
<1>2. Same => Goal
  BY <1>1, BoundKept
<1>3. IsFiniteSet(InFlight(s)) /\ Cardinality(InFlight(s)) \in Nat
      /\ Cardinality(Healers) \in Nat /\ restarts[s] \in Nat
  <2>1. IsFiniteSet(InFlight(s)) /\ IsFiniteSet(Healers)
    BY FS_Subset DEF InFlight
  <2>2. QED BY <2>1, FS_CardinalityType DEF HealOK, HealVarsTyped
<1>4. CASE Commands \/ Observe \/ UNCHANGED vars
  <2>1. UNCHANGED <<restarts, hpc, hsrv>>
    BY <1>4 DEF Commands, Observe, ObserverTick, ObserverSample, ObserverDecide, vars, healVars
  <2>2. QED BY <1>2, <2>1 DEF InFlight
<1>5. CASE Crash
  <2>1. InFlight(s)' = {} /\ UNCHANGED restarts
    BY <1>5 DEF Crash, InFlight
  <2>2. QED BY <1>2, <2>1
<1>6. ASSUME NEW h \in Healers, HealStep(h) PROVE Goal
  <2> HIDE DEF Goal
  <2>1. CASE HealReceive(h)
    <3>1. Same
      BY <2>1 DEF HealReceive, HealGoto, InFlight, HealOK, HealVarsTyped
    <3>2. QED BY <1>2, <3>1
  <2>2. CASE HealGiveUp(h) \/ HealReturned(h) \/ HealRestart(h)
    <3>1. Same
      BY <2>2 DEF HealGiveUp, HealReturned, HealRestart, HealGoto, HealDone, InFlight, HealOK,
         HealVarsTyped
    <3>2. QED BY <1>2, <3>1
  <2>3. CASE HealCheck(h)
    <3>1. CASE hsrv[h] = s /\ restarts[s] < MaxRetries
      <4>1. InFlight(s)' \subseteq Healers
        BY DEF InFlight
      <4>2. Cardinality(InFlight(s)') <= Cardinality(Healers) /\ Cardinality(InFlight(s)') \in Nat
        BY <4>1, FS_Subset, FS_CardinalityType
      <4>3. restarts'[s] = restarts[s]
        BY <2>3 DEF HealCheck
      <4>4. QED BY <1>3, <3>1, <4>2, <4>3 DEF Goal
    <3>2. CASE ~(hsrv[h] = s /\ restarts[s] < MaxRetries)
      <4>1. Same
        BY <1>3, <2>3, <3>2 DEF HealCheck, HealGoto, HealDone, InFlight, HealOK, HealVarsTyped
      <4>2. QED BY <1>2, <4>1
    <3>3. QED BY <3>1, <3>2
  <2>4. CASE HealCount(h)
    <3>1. CASE hsrv[h] = s
      <4>1. InFlight(s)' = InFlight(s) \ {h} /\ h \in InFlight(s)
        BY <2>4, <3>1 DEF HealCount, HealGoto, HealDone, InFlight, HealOK, HealVarsTyped
      <4>2. Cardinality(InFlight(s)') = Cardinality(InFlight(s)) - 1
        BY <1>3, <4>1, FS_RemoveElement
      <4>3. restarts'[s] = restarts[s] + 1 \/ restarts'[s] = restarts[s]
        BY <2>4, <3>1 DEF HealCount, HealOK, HealVarsTyped
      <4>4. InFlight(s) # {}
        BY <4>1
      <4>5. QED BY <1>1, <1>3, <4>2, <4>3, <4>4 DEF Goal
    <3>2. CASE hsrv[h] # s
      <4>1. Same
        BY <2>4, <3>2 DEF HealCount, HealGoto, HealDone, InFlight, HealOK, HealVarsTyped
      <4>2. QED BY <1>2, <4>1
    <3>3. QED BY <3>1, <3>2
  <2>5. QED BY <1>6, <2>1, <2>2, <2>3, <2>4 DEF HealStep
<1>7. QED BY <1>4, <1>5, <1>6 DEF Next

\* The restart count of a server stays below MaxRetries plus the number of
\* handlers that can be in flight at once, for every retry limit and pool size.
THEOREM RestartsBoundedCorrect == Spec => []RestartsBounded
<1>1. Init => RestartsBounded
  BY DEF Init, RestartsBounded, InFlight
<1>2. Spec => []HealOK
  BY HealAlwaysOK, PTL
<1>3. QED BY <1>1, <1>2, BoundNext, PTL DEF Spec

-----------------------------------------------------------------------------
(* Marks of manual stops.                                                    *)

\* A server that is marked is not being started, and runs at most until the StopServer
\* that marked it has called the runtime.
MarkedView(s) ==
    /\ \A p \in Callers : srv[p] = s => pc[p] \notin StartPcs
    /\ RunningNow(s) => \E p \in Callers : srv[p] = s /\ pc[p] = "t_stop"

\* Only the healer restarts.
RestartsHealed == \A p \in Callers : pc[p] \in RestartPcs => srv[p] \in healed

\* The inductive strengthening of NoStaleMark.
MarksInv ==
    CliCallers = {} => \A s \in manualStops \ (disturbed \cup healed) : MarkedView(s)

\* An invocation gets to a step of a method from a step of the same method.
LEMMA StepMethod ==
    ASSUME Typed, NEW p \in Callers, Step(p)
    PROVE  /\ \A q \in Callers \ {p} : pc'[q] = pc[q] /\ srv'[q] = srv[q]
           /\ pc'[p] \in StartPcs => pc[p] \in StartPcs
           /\ pc'[p] \in RestartPcs => pc[p] \in RestartPcs /\ srv'[p] = srv[p]
<1> DEFINE Kept(next) ==
             /\ \A q \in Callers \ {p} : pc'[q] = pc[q] /\ srv'[q] = srv[q]
             /\ pc'[p] = next
             /\ srv'[p] = srv[p] \/ next = "idle"
<1>1. ASSUME NEW r, NEW b, Return(p, r, b) PROVE Kept("idle")
  BY <1>1 DEF Return, Typed, LifeTypeOK
<1>2. Fails(p) => Kept("idle")
  BY <1>1 DEF Fails
<1>3. ASSUME NEW next, Goto(p, next) PROVE Kept(next)
  BY <1>3 DEF Goto, Typed, LifeTypeOK
<1>4. ASSUME NEW w, NEW v, ReadRow(p, w, v) PROVE Kept("idle") \/ Kept(w) \/ Kept(v)
  BY <1>2, <1>3, <1>4 DEF ReadRow
<1>5. ASSUME NEW to, NEW next, CtrCallOk(p, to, next) \/ CtrCallFails(p, to)
      PROVE  Kept("idle") \/ Kept(next)
  BY <1>1, <1>2, <1>3, <1>5 DEF CtrCallOk, CtrCallFails
<1> HIDE DEF Kept
<1>6. CASE pc[p] \in CreatePcs
  <2>1. Kept("idle") \/ Kept("c_ports")
    BY <1>1, <1>2, <1>3, <1>6 DEF Step, CreatePcs, CreateStatus, CreatePorts, StartGet,
       StartCreate, StartSave, StartRun, StartStatus, StartLimits, StopGet, StopMark, StopRun,
       StopStatus, RestartGet, RestartRun, RestartStatus, DeleteGet, DeleteRemove,
       DeleteRelease, DeleteRow
  <2>2. QED BY <2>1 DEF Kept, StartPcs, RestartPcs
<1>7. CASE pc[p] \in StartPcs
  <2>1. Kept("idle") \/ \E next \in StartPcs : Kept(next)
    <3>1. CASE StartGet(p)
      BY <1>4, <3>1 DEF StartGet, StartPcs
    <3>2. CASE StartCreate(p) \/ StartSave(p)
      BY <1>1, <1>2, <1>3, <3>2 DEF StartCreate, StartSave, StartPcs
    <3>3. CASE StartRun(p)
      BY <1>5, <3>3 DEF StartRun, StartPcs
    <3>4. CASE StartStatus(p) \/ StartLimits(p)
      BY <1>1, <1>2, <1>3, <3>4 DEF StartStatus, StartLimits, SaveStatus, StartPcs
    <3>5. QED
      BY <1>7, <3>1, <3>2, <3>3, <3>4 DEF StartPcs, Step, CreateStatus, CreatePorts, StopGet,
         StopMark, StopRun, StopStatus, RestartGet, RestartRun, RestartStatus, DeleteGet,
         DeleteRemove, DeleteRelease, DeleteRow
  <2>2. QED BY <1>7, <2>1 DEF Kept, StartPcs, RestartPcs
<1>8. CASE pc[p] \in StopPcs
  <2>1. Kept("idle") \/ Kept("t_status") \/ Kept("t_mark") \/ Kept("t_stop")
    BY <1>1, <1>2, <1>3, <1>4, <1>5, <1>8 DEF Step, StopPcs, CreateStatus, CreatePorts, StartGet,
       StartCreate, StartSave, StartRun, StartStatus, StartLimits, StopGet, StopMark, StopRun,
       StopStatus, RestartGet, RestartRun, RestartStatus, DeleteGet, DeleteRemove,
       DeleteRelease, DeleteRow, SaveStatusAndReturn
  <2>2. QED BY <2>1 DEF Kept, StartPcs, RestartPcs
<1>9. CASE pc[p] \in RestartPcs
  <2>1. Kept("idle") \/ Kept("r_restart") \/ Kept("r_status")
    BY <1>1, <1>2, <1>3, <1>5, <1>9 DEF Step, RestartPcs, CreateStatus, CreatePorts, StartGet,
       StartCreate, StartSave, StartRun, StartStatus, StartLimits, StopGet, StopMark, StopRun,
       StopStatus, RestartGet, RestartRun, RestartStatus, DeleteGet, DeleteRemove,
       DeleteRelease, DeleteRow, SaveStatusAndReturn
  <2>2. QED BY <1>9, <2>1 DEF Kept, StartPcs, RestartPcs
<1>10. CASE pc[p] \in DeletePcs
  <2>1. Kept("idle") \/ Kept("d_release") \/ Kept("d_remove") \/ Kept("d_row")
    BY <1>1, <1>2, <1>3, <1>4, <1>5, <1>10 DEF Step, DeletePcs, CreateStatus, CreatePorts,
       StartGet, StartCreate, StartSave, StartRun, StartStatus, StartLimits, StopGet, StopMark,
       StopRun, StopStatus, RestartGet, RestartRun, RestartStatus, DeleteGet, DeleteRemove,
       DeleteRelease, DeleteRow
  <2>2. QED BY <2>1 DEF Kept, StartPcs, RestartPcs
<1>11. pc[p] \in CreatePcs \cup StartPcs \cup StopPcs \cup RestartPcs \cup DeletePcs
  BY DEF Step, CreatePcs, StartPcs, StopPcs, RestartPcs, DeletePcs, CreateStatus, CreatePorts,
     StartGet, StartCreate, StartSave, StartRun, StartStatus, StartLimits, StopGet, StopMark,
     StopRun, StopStatus, RestartGet, RestartRun, RestartStatus, DeleteGet, DeleteRemove,
     DeleteRelease, DeleteRow
<1>12. QED BY <1>6, <1>7, <1>8, <1>9, <1>10, <1>11

LEMMA RestartsNext == Typed /\ HealOK /\ RestartsHealed /\ [Next]_vars => RestartsHealed'
<1> SUFFICES ASSUME Typed, HealOK, RestartsHealed, [Next]_vars PROVE RestartsHealed'
  OBVIOUS
<1> USE DEF RestartsHealed
<1>1. ASSUME NEW p \in Callers, Step(p), UNCHANGED healed PROVE RestartsHealed'
  BY <1>1, StepMethod
<1>2. ASSUME NEW p \in Callers, NEW s \in Servers, UNCHANGED healed, Command(p, s)
      PROVE  RestartsHealed'
  <2>1. PICK first \in {"c_status", "s_get", "t_get", "d_get"} : Begin(p, s, first)
    BY <1>2 DEF Command, CreateInsert, StartServer, StopServer, DeleteServer
  <2>2. \A q \in Callers \ {p} : pc'[q] = pc[q] /\ srv'[q] = srv[q]
    BY <2>1 DEF Begin, Typed, LifeTypeOK
  <2>3. pc'[p] = first /\ first \notin RestartPcs
    BY <2>1 DEF Begin, Typed, LifeTypeOK, RestartPcs
  <2>4. QED BY <1>2, <2>2, <2>3
<1>3. ASSUME NEW who, Die(who), UNCHANGED healed PROVE RestartsHealed'
  BY <1>3 DEF Die, RestartPcs
<1>4. ASSUME UNCHANGED <<pc, srv>>, healed \subseteq healed' PROVE RestartsHealed'
  BY <1>4
<1>5. CASE Commands
  BY <1>1, <1>2, <1>3, <1>4, <1>5 DEF Commands, Invoke, ContainerExits, CliKilled, opVars, healVars
<1>6. CASE Observe
  BY <1>4, <1>6 DEF Observe, ObserverTick, ObserverSample, ObserverDecide, IsManualStop, lifeVars, opVars
<1>7. ASSUME NEW h \in Healers, HealStep(h) PROVE RestartsHealed'
  <2>1. CASE HealRestart(h)
    <3>1. Begin(h, hsrv[h], "r_get") /\ healed' = healed \cup {hsrv[h]} /\ h \in Callers
      BY <2>1, HealingAssumption DEF HealRestart, RestartServer
    <3>2. srv'[h] = hsrv[h] /\ \A q \in Callers \ {h} : pc'[q] = pc[q] /\ srv'[q] = srv[q]
      BY <3>1 DEF Begin, Typed, LifeTypeOK
    <3>3. QED BY <3>1, <3>2
  <2>2. CASE ~HealRestart(h)
    BY <1>4, <1>7, <2>2 DEF HealStep, HealReceive, HealCheck, HealGiveUp, HealReturned, HealCount,
       MarkCrashLooping, lifeVars, opVars
  <2>3. QED BY <2>1, <2>2
<1>8. CASE Crash
  BY <1>3, <1>8 DEF Crash, DaemonCrash
<1>9. CASE UNCHANGED vars
  BY <1>4, <1>9 DEF vars, lifeVars, healVars
<1>10. QED BY <1>5, <1>6, <1>7, <1>8, <1>9 DEF Next

\* A step elsewhere leaves the mark's story alone.
LEMMA ElsewhereMarked ==
    ASSUME Typed, OwnInv, NEW s \in Servers, MarkedView(s), Elsewhere(s)
    PROVE  MarkedView(s)'
<1>1. rowCid[s] # None => ctrState'[rowCid[s]] = ctrState[rowCid[s]]
  BY DEF Elsewhere, OwnInv, OwnContainersOnly, Typed, LifeTypeOK
<1>2. RunningNow(s)' => RunningNow(s)
  BY <1>1 DEF Elsewhere, RunningNow
<1>3. QED BY <1>2 DEF MarkedView, Elsewhere

\* The same of a step that leaves callers and container ids alone and starts nothing.
LEMMA QuietMarked ==
    ASSUME NEW s \in Servers, MarkedView(s), UNCHANGED <<pc, srv, rowCid>>,
           RunningNow(s)' => RunningNow(s)
    PROVE  MarkedView(s)'
  BY DEF MarkedView

\* A step of the one invocation on a marked server.
LEMMA StepMarked ==
    ASSUME Typed, OwnInv, CliCallers = {}, NEW p \in Callers, Step(p), NEW s \in Servers,
           srv[p] = s, AgreeWhileBusy(s), MarkedView(s), s \in manualStops',
           pc[p] \notin RestartPcs
    PROVE  MarkedView(s)'
<1>1. MarkedView(s) /\ pc[p] \notin StartPcs
  BY DEF MarkedView
<1>2. \A q \in Callers : srv[q] = s => q = p
  BY DEF AgreeWhileBusy
<1>3. \A q \in Callers : srv'[q] = s => q = p
  BY <1>2, StepMethod
<1>4. pc'[p] \notin StartPcs
  BY <1>1, StepMethod
<1>5. ~RunningNow(s)' => MarkedView(s)'
  BY <1>3, <1>4 DEF MarkedView
<1>6. CASE pc[p] # "t_stop"
  <2>1. ~RunningNow(s)
    BY <1>1, <1>2, <1>6 DEF MarkedView
  <2>2. CASE DeleteRemove(p)
    <3>1. cid[p] \in Containers /\ UNCHANGED rowVars
      BY <2>2 DEF DeleteRemove, Typed, LifeTypeOK, LocalsOK
    <3>2. ctrState' = ctrState \/ ctrState' = [ctrState EXCEPT ![cid[p]] = "removed"]
      BY <2>2 DEF DeleteRemove, CtrCallOk, CtrCallFails, CtrCall, ctrVars
    <3>3. ~RunningNow(s)'
      BY <2>1, <3>1, <3>2 DEF RunningNow, rowVars, Typed, LifeTypeOK
    <3>4. QED BY <1>5, <3>3
  <2>3. CASE ~DeleteRemove(p)
    <3>1. UNCHANGED <<rowCid, ctrVars>>
      BY <1>1, <1>6, <2>3 DEF Step, StartPcs, RestartPcs, CreateStatus, CreatePorts, StartGet,
         StartCreate, StartSave, StartRun, StartStatus, StartLimits, StopGet, StopMark, StopRun,
         StopStatus, RestartGet, RestartRun, RestartStatus, DeleteGet, DeleteRelease, DeleteRow,
         rowVars
    <3>2. QED BY <1>5, <2>1, <3>1 DEF RunningNow, ctrVars
  <2>4. QED BY <2>2, <2>3
<1>7. CASE pc[p] = "t_stop"
  <2>1. StopRun(p)
    BY <1>7 DEF Step, CreateStatus, CreatePorts, StartGet, StartCreate, StartSave, StartRun,
       StartStatus, StartLimits, StopGet, StopMark, StopStatus, RestartGet, RestartRun,
       RestartStatus, DeleteGet, DeleteRemove, DeleteRelease, DeleteRow
  <2>2. CtrCallOk(p, StoppedState(cid[p]), "t_status") /\ UNCHANGED rowVars
    BY <2>1 DEF StopRun, DeleteManualStop, Daemon
  <2>3. cid[p] = rowCid[s] /\ cid[p] \in Containers
    BY <1>7 DEF AgreeWhileBusy, InvocationView, Typed, LifeTypeOK
  <2>4. ctrState'[rowCid[s]] # "running"
    BY <2>2, <2>3 DEF CtrCallOk, CtrCall, StoppedState, Typed, LifeTypeOK
  <2>5. QED BY <1>5, <2>2, <2>4 DEF RunningNow, rowVars
<1>8. QED BY <1>6, <1>7

\* Only StopServer marks.
LEMMA NewMark ==
    ASSUME Typed, NEW p \in Callers, Step(p), NEW s \in manualStops', s \notin manualStops
    PROVE  srv[p] = s /\ pc'[p] = "t_stop" /\ UNCHANGED srv
<1>1. StopMark(p)
  BY DEF Step, CreateStatus, CreatePorts, StartGet, StartCreate, StartSave, StartRun,
     StartStatus, StartLimits, StopGet, StopRun, StopStatus, RestartGet, RestartRun,
     RestartStatus, DeleteGet, DeleteRemove, DeleteRelease, DeleteRow, DeleteManualStop
<1>2. QED BY <1>1 DEF StopMark, StoreManualStop, Goto, Typed, LifeTypeOK

\* A command on a marked server that nobody is at work on.
LEMMA CommandMarked ==
    ASSUME Typed, OwnInv, CliCallers = {}, NEW p \in Callers, NEW t \in Servers, Command(p, t),
           NEW s \in Servers, MarkedView(s), s \in manualStops', s \notin disturbed'
    PROVE  MarkedView(s)'
<1>1. PICK first \in {"c_status", "s_get", "t_get", "d_get"} :
        /\ Begin(p, t, first) /\ UNCHANGED <<rowCid, ctrVars>>
        /\ first = "s_get" => t \notin manualStops'
  BY DEF Command, CreateInsert, StartServer, StopServer, DeleteServer, DeleteManualStop, Daemon, rowVars
<1>2. /\ pc'[p] = first /\ srv'[p] = t
      /\ \A q \in Callers \ {p} : pc'[q] = pc[q] /\ srv'[q] = srv[q]
  BY <1>1 DEF Begin, Typed, LifeTypeOK
<1>3. RunningNow(s)' => RunningNow(s)
  BY <1>1 DEF RunningNow, ctrVars
<1>4. pc[p] = "idle"
  BY <1>1 DEF Begin
<1>5. CASE s = t
  <2>1. \A q \in Callers : srv[q] # s
    BY <1>1, <1>5 DEF Begin, Busy
  <2>2. first \notin StartPcs
    BY <1>1, <1>5 DEF StartPcs
  <2>3. QED BY <1>2, <1>3, <2>1, <2>2 DEF MarkedView
<1>6. CASE s # t
  BY <1>2, <1>3, <1>4, <1>6 DEF MarkedView
<1>7. QED BY <1>5, <1>6

\* Every step keeps MarksInv: the mark goes where the server could start again.
LEMMA MarksNext ==
    ASSUME Typed, OwnInv, AgreeInv, HealOK, RestartsHealed, MarksInv, [Next]_vars
    PROVE  MarksInv'
<1> SUFFICES ASSUME CliCallers = {}, NEW s \in manualStops', s \notin disturbed', s \notin healed'
             PROVE  MarkedView(s)'
  BY DEF MarksInv
<1> USE HealingAssumption
<1>1. [LifeNext]_lifeVars /\ Typed'
  BY HealStepImplements, NextTyped
<1>2. s \in Servers
  BY <1>1 DEF Typed, LifeTypeOK
<1>3. s \notin disturbed /\ AgreeWhileBusy(s)
  BY <1>1, <1>2, DisturbedGrows DEF AgreeInv
<1>4. s \notin healed
  <2>1. healed \subseteq healed'
    BY DEF Next, Commands, Observe, ObserverTick, ObserverSample, ObserverDecide, HealStep,
       HealReceive, HealCheck, HealGiveUp, HealRestart, HealReturned, HealCount, Crash, vars,
       healVars
  <2>2. QED BY <2>1
<1>5. s \in manualStops => MarkedView(s)
  BY <1>3, <1>4 DEF MarksInv
<1>6. ASSUME UNCHANGED <<pc, srv, rowCid, ctrState>>, manualStops' \subseteq manualStops
      PROVE  MarkedView(s)'
  BY <1>2, <1>5, <1>6, QuietMarked DEF RunningNow
<1>7. ASSUME NEW p \in Callers, Step(p) PROVE MarkedView(s)'
  <2>1. CASE s \notin manualStops
    <3>1. srv[p] = s /\ pc'[p] = "t_stop" /\ UNCHANGED srv
      BY <1>7, <2>1, NewMark
    <3>2. \A q \in Callers : srv'[q] = s => q = p
      BY <1>3, <3>1 DEF AgreeWhileBusy
    <3>3. "t_stop" \notin StartPcs
      BY DEF StartPcs
    <3>4. QED BY <3>1, <3>2, <3>3 DEF MarkedView
  <2>2. CASE s \in manualStops /\ srv[p] = s
    <3>1. pc[p] \notin RestartPcs
      BY <1>4, <2>2 DEF RestartsHealed
    <3>2. QED BY <1>2, <1>3, <1>5, <1>7, <2>2, <3>1, StepMarked
  <2>3. CASE s \in manualStops /\ srv[p] # s
    BY <1>2, <1>5, <1>7, <2>3, StepElsewhere, ElsewhereMarked
  <2>4. QED BY <2>1, <2>2, <2>3
<1>8. ASSUME NEW p \in Callers, NEW t \in Servers, Command(p, t) PROVE MarkedView(s)'
  <2>1. s \in manualStops
    BY <1>8 DEF Command, CreateInsert, StartServer, StopServer, DeleteServer, DeleteManualStop
  <2>2. QED BY <1>2, <1>5, <1>8, <2>1, CommandMarked
<1>9. ASSUME NEW c \in Containers, ContainerExits(c) PROVE MarkedView(s)'
  <2>1. ctrState' = [ctrState EXCEPT ![c] = "exited"]
        /\ UNCHANGED <<pc, srv, rowCid, manualStops>>
    BY <1>9 DEF ContainerExits, rowVars, opVars
  <2>2. RunningNow(s)' => RunningNow(s)
    BY <1>2, <2>1 DEF RunningNow, Typed, LifeTypeOK
  <2>3. QED BY <1>2, <1>5, <2>1, <2>2, QuietMarked
<1>10. CASE Commands
  BY <1>7, <1>8, <1>9, <1>10 DEF Commands, Invoke
<1>11. CASE Observe
  BY <1>6, <1>11 DEF Observe, ObserverTick, ObserverSample, ObserverDecide, IsManualStop, lifeVars,
     opVars, rowVars, ctrVars
<1>12. ASSUME NEW h \in Healers, HealStep(h) PROVE MarkedView(s)'
  <2>1. CASE HealRestart(h)
    <3>1. Begin(h, hsrv[h], "r_get") /\ UNCHANGED <<rowVars, ctrVars, manualStops>>
          /\ hsrv[h] # s /\ h \in Callers
      BY <2>1 DEF HealRestart, RestartServer
    <3>2. Elsewhere(s)
      BY <3>1, LifecycleAssumption DEF Begin, Elsewhere, rowVars, ctrVars, Typed, LifeTypeOK, LocalsOK
    <3>3. QED BY <1>2, <1>5, <3>1, <3>2, ElsewhereMarked
  <2>2. CASE ~HealRestart(h)
    BY <1>6, <1>12, <2>2 DEF HealStep, HealReceive, HealCheck, HealGiveUp, HealReturned, HealCount,
       MarkCrashLooping, lifeVars, opVars, ctrVars
  <2>3. QED BY <2>1, <2>2
<1>13. CASE Crash
  BY <1>13 DEF Crash, DaemonCrash
<1>14. CASE UNCHANGED vars
  BY <1>6, <1>14 DEF vars, lifeVars
<1>15. QED BY <1>10, <1>11, <1>12, <1>13, <1>14 DEF Next

\* A mark in manualStops never outlives the stop it was set for into a later run of the
\* server, for any number of servers, callers and handlers, as long as all commands go
\* through the daemon and those of one server do not overlap: StartServer deletes it, a
\* failed StopServer takes it back, and a daemon that dies loses it.
THEOREM NoStaleMarkCorrect == Spec => []NoStaleMark
<1>1. Init => RestartsHealed /\ MarksInv
  BY DEF Init, LifeInit, RestartsHealed, MarksInv, RestartPcs
<1>2. Spec => [](Typed /\ OwnInv /\ AgreeInv)
  BY HealingImplementsLifecycle, AgreeAlways, PTL
<1>3. Typed /\ OwnInv /\ AgreeInv /\ HealOK /\ RestartsHealed /\ MarksInv /\ [Next]_vars
        => RestartsHealed' /\ MarksInv'
  BY RestartsNext, MarksNext
<1>4. Spec => [](RestartsHealed /\ MarksInv)
  BY <1>1, <1>2, <1>3, HealAlwaysOK, PTL DEF Spec
<1>5. MarksInv => NoStaleMark
  BY DEF MarksInv, MarkedView, NoStaleMark
<1>6. QED BY <1>4, <1>5, PTL

=============================================================================
