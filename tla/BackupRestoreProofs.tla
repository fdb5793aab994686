------------------------- MODULE BackupRestoreProofs -------------------------
(***************************************************************************)
(* Proofs about BackupRestore, for any servers, backups, calls, files and  *)
(* faults: its types, that a completed backup has its archive, that a       *)
(* restore moves exactly the archive into place, and when data that was     *)
(* moved aside may leave the disk.                                          *)
(***************************************************************************)
EXTENDS BackupRestore, TLAPS

\* The locals of every call, and which of them a step finds set.
CallTyped ==
    /\ opc \in [Ops -> {"idle"} \cup CreatePcs \cup RestorePcs \cup DeletePcs]
    /\ tgt \in [Ops -> Servers \cup {None}]
    /\ bid \in [Ops -> Backups \cup {None}]
    /\ copy \in [Ops -> Dirs \cup {None}]
    /\ left \in [Ops -> SUBSET Files]
    /\ outcome \in [Ops -> {"ok", "err", None}]
    /\ \A p \in Ops :
          /\ opc[p] \in CreatePcs \cup RestorePcs => tgt[p] \in Servers
          /\ opc[p] # "idle" => bid[p] \in Backups
          /\ opc[p] \in CreatePcs \cup {"r_extract"} => copy[p] \in Dirs

DiskTyped ==
    /\ data \in [Servers -> Dirs \cup {None}]
    /\ staging \in [Servers -> [Backups -> Dirs \cup {None}]]
    /\ previous \in [Servers -> [Backups -> Dirs \cup {None}]]
    /\ status \in [Servers -> {"stopped", "running"}]
    /\ aside \in [Servers -> Dirs \cup {None}]
    /\ disturbed \in SUBSET Servers

RowTyped ==
    /\ row \in [Backups -> {"none", "creating", "failed", "completed", "gone"}]
    /\ sum \in [Backups -> Dirs \cup {None}]
    /\ archive \in [Backups -> Dirs \cup {None}]
    /\ doomed \in SUBSET Backups

Typed == CallTyped /\ DiskTyped /\ RowTyped

-----------------------------------------------------------------------------
(* Types.                                                                    *)

\* The empty directory is a directory, None is none.
LEMMA DirFacts == Empty \in Dirs /\ None \notin Dirs
  BY BackupAssumption DEF Empty, Dirs

\* A directory entry that is set or removed leaves a directory table.
LEMMA PutTyped ==
    ASSUME NEW dirs \in [Servers -> [Backups -> Dirs \cup {None}]], NEW p, NEW d \in Dirs \cup {None},
           tgt[p] \in Servers, bid[p] \in Backups
    PROVE  Put(dirs, p, d) \in [Servers -> [Backups -> Dirs \cup {None}]]
  BY DEF Put

\* A restoring call knows its server and its backup.
LEMMA RestoreLocals ==
    ASSUME CallTyped, NEW p \in Ops, opc[p] \in RestorePcs
    PROVE  tgt[p] \in Servers /\ bid[p] \in Backups
  BY DEF CallTyped, RestorePcs

\* The initial state is well typed.
LEMMA TypedInit == BackupInit => Typed
<1> SUFFICES ASSUME BackupInit PROVE Typed
  OBVIOUS
<1>1. CallTyped
  BY DEF BackupInit, CallTyped, CreatePcs, RestorePcs
<1>2. DiskTyped
  <2>1. data \in [Servers -> Dirs \cup {None}]
    BY DEF BackupInit, Dirs
  <2> QED
    BY <2>1 DEF BackupInit, DiskTyped
<1>3. RowTyped
  BY DEF BackupInit, RowTyped
<1> QED
  BY <1>1, <1>2, <1>3 DEF Typed

\* Create keeps the types.
LEMMA TypedCreate == ASSUME Typed, NEW p \in Ops, NEW t \in Servers, NEW b \in Backups, Create(p, t, b) PROVE Typed'
<1> USE DEF Typed
<1>1. CallTyped'
  BY DirFacts DEF CallTyped, CreatePcs, RestorePcs, DeletePcs, Create
<1>2. DiskTyped'
  BY DEF DiskTyped, Create, diskVars
<1>3. RowTyped'
  BY DEF RowTyped, Create
<1> QED
  BY <1>1, <1>2, <1>3

\* CreateRead keeps the types.
LEMMA TypedCreateRead == ASSUME Typed, NEW p \in Ops, CreateRead(p) PROVE Typed'
<1> USE DEF Typed
<1>0. ASSUME NEW f \in left[p], data[tgt[p]] # None
      PROVE  [copy[p] EXCEPT ![f] = data[tgt[p]][f]] \in Dirs
  <2>1. copy[p] \in Dirs /\ data[tgt[p]] \in Dirs /\ f \in Files
    BY <1>0 DEF CallTyped, DiskTyped, CreateRead, CreatePcs, RestorePcs
  <2> QED
    BY <2>1 DEF Dirs
<1>c. copy[p] \in Dirs
  BY DEF CallTyped, CreateRead, CreatePcs
<1>d. copy' \in [Ops -> Dirs \cup {None}] /\ copy'[p] \in Dirs /\ \A q \in Ops \ {p} : copy'[q] = copy[q]
  <2>1. CASE copy' = copy
    BY <1>c, <2>1 DEF CallTyped
  <2>2. CASE copy' # copy
    <3>1. PICK f \in left[p] : data[tgt[p]] # None /\ copy' = [copy EXCEPT ![p][f] = data[tgt[p]][f]]
      BY <2>2 DEF CreateRead, Goto
    <3> QED
      BY <1>0, <3>1 DEF CallTyped
  <2> QED
    BY <2>1, <2>2
<1>1. CallTyped'
  BY <1>d DEF CallTyped, CreatePcs, RestorePcs, DeletePcs, CreateRead, Goto
<1>2. DiskTyped'
  BY DEF DiskTyped, CreateRead, diskVars
<1>3. RowTyped'
  BY DEF RowTyped, CreateRead, bakVars
<1> QED
  BY <1>1, <1>2, <1>3

\* CreateRename keeps the types.
LEMMA TypedCreateRename == ASSUME Typed, NEW p \in Ops, CreateRename(p) PROVE Typed'
<1> USE DEF Typed
<1>1. CallTyped'
  BY DEF CallTyped, CreatePcs, RestorePcs, DeletePcs, CreateRename, Goto
<1>2. DiskTyped'
  BY DEF DiskTyped, CreateRename, diskVars
<1>3. RowTyped'
  BY DEF RowTyped, CreateRename, CallTyped, CreatePcs, RestorePcs
<1> QED
  BY <1>1, <1>2, <1>3

\* CreateFail keeps the types.
LEMMA TypedCreateFail == ASSUME Typed, NEW p \in Ops, CreateFail(p) PROVE Typed'
<1> USE DEF Typed
<1>1. CallTyped'
  BY DEF CallTyped, CreatePcs, RestorePcs, DeletePcs, CreateFail, Return
<1>2. DiskTyped'
  BY DEF DiskTyped, CreateFail, diskVars
<1>3. RowTyped'
  BY DEF RowTyped, CreateFail, UpdateBackupStatus, CallTyped, CreatePcs, RestorePcs
<1> QED
  BY <1>1, <1>2, <1>3

\* CreateFinish keeps the types.
LEMMA TypedCreateFinish == ASSUME Typed, NEW p \in Ops, CreateFinish(p) PROVE Typed'
<1> USE DEF Typed
<1>1. CallTyped'
  BY DEF CallTyped, CreatePcs, RestorePcs, DeletePcs, CreateFinish, Return
<1>2. DiskTyped'
  BY DEF DiskTyped, CreateFinish, diskVars
<1>3. RowTyped'
  BY DEF RowTyped, CreateFinish, UpdateBackupStatus, CallTyped, CreatePcs, RestorePcs
<1> QED
  BY <1>1, <1>2, <1>3

\* Restore keeps the types.
LEMMA TypedRestore == ASSUME Typed, NEW p \in Ops, NEW t \in Servers, NEW b \in Backups, Restore(p, t, b) PROVE Typed'
<1> USE DEF Typed
<1>1. CallTyped'
  BY DEF CallTyped, CreatePcs, RestorePcs, DeletePcs, Restore
<1>2. DiskTyped'
  BY DEF DiskTyped, Restore, diskVars
<1>3. RowTyped'
  BY DEF RowTyped, Restore, bakVars
<1> QED
  BY <1>1, <1>2, <1>3

\* RestoreGet keeps the types.
LEMMA TypedRestoreGet == ASSUME Typed, NEW p \in Ops, RestoreGet(p) PROVE Typed'
<1> USE DEF Typed
<1>1. CallTyped'
  BY DEF CallTyped, CreatePcs, RestorePcs, DeletePcs, RestoreGet, Return, RowTyped
<1>2. DiskTyped'
  BY DEF DiskTyped, RestoreGet, diskVars
<1>3. RowTyped'
  BY DEF RowTyped, RestoreGet, bakVars
<1> QED
  BY <1>1, <1>2, <1>3

\* RestoreSum keeps the types.
LEMMA TypedRestoreSum == ASSUME Typed, NEW p \in Ops, RestoreSum(p) PROVE Typed'
<1> USE DEF Typed
<1>1. CallTyped'
  BY DEF CallTyped, CreatePcs, RestorePcs, DeletePcs, RestoreSum, Goto, Return
<1>2. DiskTyped'
  BY DEF DiskTyped, RestoreSum, diskVars
<1>3. RowTyped'
  BY DEF RowTyped, RestoreSum, bakVars
<1> QED
  BY <1>1, <1>2, <1>3

\* RestoreClear keeps the types.
LEMMA TypedRestoreClear == ASSUME Typed, NEW p \in Ops, RestoreClear(p) PROVE Typed'
<1> USE DEF Typed
<1>1. CallTyped'
  BY DEF CallTyped, CreatePcs, RestorePcs, DeletePcs, RestoreClear, Goto, Return
<1>2. DiskTyped'
  BY PutTyped, RestoreLocals, DirFacts DEF DiskTyped, RestoreClear, RestorePcs
<1>3. RowTyped'
  BY DEF RowTyped, RestoreClear, bakVars
<1> QED
  BY <1>1, <1>2, <1>3

\* RestoreOpen keeps the types.
LEMMA TypedRestoreOpen == ASSUME Typed, NEW p \in Ops, RestoreOpen(p) PROVE Typed'
<1> USE DEF Typed
<1>1. CallTyped'
  BY DEF CallTyped, CreatePcs, RestorePcs, DeletePcs, RestoreOpen, Abandon, Has, RowTyped
<1>2. DiskTyped'
  BY DEF DiskTyped, RestoreOpen, diskVars
<1>3. RowTyped'
  BY DEF RowTyped, RestoreOpen, bakVars
<1> QED
  BY <1>1, <1>2, <1>3

\* RestoreExtract keeps the types.
LEMMA TypedRestoreExtract == ASSUME Typed, NEW p \in Ops, RestoreExtract(p) PROVE Typed'
<1> USE DEF Typed
<1> DEFINE old == staging[tgt[p]][bid[p]]
           into == IF old = None THEN Empty ELSE old
<1>0. /\ tgt[p] \in Servers /\ bid[p] \in Backups
      /\ \A f \in left[p] : [into EXCEPT ![f] = copy[p][f]] \in Dirs
  <2>1. tgt[p] \in Servers /\ bid[p] \in Backups /\ copy[p] \in Dirs /\ left[p] \in SUBSET Files
    BY DEF CallTyped, RestoreExtract, RestorePcs
  <2>2. into \in Dirs
    BY <2>1, DirFacts DEF DiskTyped
  <2> QED
    BY <2>1, <2>2 DEF Dirs
<1>s. staging' \in [Servers -> [Backups -> Dirs \cup {None}]]
  <2>1. CASE staging' = staging
    BY <2>1 DEF DiskTyped
  <2>2. CASE staging' # staging
    <3>1. PICK f \in left[p] : staging' = Put(staging, p, [into EXCEPT ![f] = copy[p][f]])
      BY <2>2 DEF RestoreExtract
    <3> HIDE DEF into
    <3>2. [into EXCEPT ![f] = copy[p][f]] \in Dirs \cup {None}
      BY <1>0
    <3> QED
      BY <1>0, <3>1, <3>2, PutTyped DEF DiskTyped
  <2> QED
    BY <2>1, <2>2
<1>1. CallTyped'
  BY DEF CallTyped, CreatePcs, RestorePcs, DeletePcs, RestoreExtract, Goto, Abandon
<1>2. DiskTyped'
  BY <1>s DEF DiskTyped, RestoreExtract
<1>3. RowTyped'
  BY DEF RowTyped, RestoreExtract, bakVars
<1> QED
  BY <1>1, <1>2, <1>3

\* RestoreNet keeps the types.
LEMMA TypedRestoreNet == ASSUME Typed, NEW p \in Ops, RestoreNet(p) PROVE Typed'
<1> USE DEF Typed
<1>1. CallTyped'
  BY DEF CallTyped, CreatePcs, RestorePcs, DeletePcs, RestoreNet, Goto
<1>2. DiskTyped'
  BY PutTyped, RestoreLocals DEF DiskTyped, RestoreNet, RestorePcs
<1>3. RowTyped'
  BY DEF RowTyped, RestoreNet, bakVars
<1> QED
  BY <1>1, <1>2, <1>3

\* RestoreAside keeps the types.
LEMMA TypedRestoreAside == ASSUME Typed, NEW p \in Ops, RestoreAside(p) PROVE Typed'
<1> USE DEF Typed
<1>0. tgt[p] \in Servers /\ bid[p] \in Backups /\ data[tgt[p]] \in Dirs \cup {None}
  BY RestoreLocals DEF RestoreAside, RestorePcs, DiskTyped
<1>p. ASSUME NEW d \in Dirs \cup {None} PROVE Put(previous, p, d) \in [Servers -> [Backups -> Dirs \cup {None}]]
  BY <1>0, PutTyped DEF DiskTyped
<1>s. previous' \in [Servers -> [Backups -> Dirs \cup {None}]]
  BY <1>0, <1>p DEF RestoreAside, DiskTyped
<1>e. previous[tgt[p]][bid[p]] \in Dirs \cup {None}
  BY <1>0 DEF DiskTyped
<1>1. CallTyped'
  BY DEF CallTyped, CreatePcs, RestorePcs, DeletePcs, RestoreAside, Goto, Abandon
<1>2. DiskTyped'
  BY <1>0, <1>s, <1>e DEF DiskTyped, RestoreAside, RestorePcs
<1>3. RowTyped'
  BY DEF RowTyped, RestoreAside, bakVars
<1> QED
  BY <1>1, <1>2, <1>3

\* RestoreSwitch keeps the types.
LEMMA TypedRestoreSwitch == ASSUME Typed, NEW p \in Ops, RestoreSwitch(p) PROVE Typed'
<1> USE DEF Typed
<1>0. tgt[p] \in Servers /\ bid[p] \in Backups /\ data[tgt[p]] \in Dirs \cup {None}
  BY RestoreLocals DEF RestoreSwitch, RestorePcs, DiskTyped
<1>p. ASSUME NEW d \in Dirs \cup {None} PROVE Put(staging, p, d) \in [Servers -> [Backups -> Dirs \cup {None}]]
  BY <1>0, PutTyped DEF DiskTyped
<1>s. staging' \in [Servers -> [Backups -> Dirs \cup {None}]]
  BY <1>0, <1>p DEF RestoreSwitch, DiskTyped
<1>e. staging[tgt[p]][bid[p]] \in Dirs \cup {None}
  BY <1>0 DEF DiskTyped
<1>1. CallTyped'
  BY DEF CallTyped, CreatePcs, RestorePcs, DeletePcs, RestoreSwitch, Goto
<1>2. DiskTyped'
  BY <1>0, <1>s, <1>e DEF DiskTyped, RestoreSwitch, CanMove, RestorePcs
<1>3. RowTyped'
  BY DEF RowTyped, RestoreSwitch, bakVars
<1> QED
  BY <1>1, <1>2, <1>3

\* RestoreUndo keeps the types.
LEMMA TypedRestoreUndo == ASSUME Typed, NEW p \in Ops, RestoreUndo(p) PROVE Typed'
<1> USE DEF Typed
<1>0. tgt[p] \in Servers /\ bid[p] \in Backups /\ data[tgt[p]] \in Dirs \cup {None}
  BY RestoreLocals DEF RestoreUndo, RestorePcs, DiskTyped
<1>p. ASSUME NEW d \in Dirs \cup {None} PROVE Put(previous, p, d) \in [Servers -> [Backups -> Dirs \cup {None}]]
  BY <1>0, PutTyped DEF DiskTyped
<1>s. previous' \in [Servers -> [Backups -> Dirs \cup {None}]]
  BY <1>0, <1>p DEF RestoreUndo, DiskTyped
<1>e. previous[tgt[p]][bid[p]] \in Dirs \cup {None}
  BY <1>0 DEF DiskTyped
<1>1. CallTyped'
  BY DEF CallTyped, CreatePcs, RestorePcs, DeletePcs, RestoreUndo, Abandon
<1>2. DiskTyped'
  BY <1>0, <1>s, <1>e DEF DiskTyped, RestoreUndo, CanMove, RestorePcs
<1>3. RowTyped'
  BY DEF RowTyped, RestoreUndo, bakVars
<1> QED
  BY <1>1, <1>2, <1>3

\* RestoreDrop keeps the types.
LEMMA TypedRestoreDrop == ASSUME Typed, NEW p \in Ops, RestoreDrop(p) PROVE Typed'
<1> USE DEF Typed
<1>1. CallTyped'
  BY DEF CallTyped, CreatePcs, RestorePcs, DeletePcs, RestoreDrop
<1>2. DiskTyped'
  BY PutTyped, RestoreLocals DEF DiskTyped, RestoreDrop, RestorePcs
<1>3. RowTyped'
  BY DEF RowTyped, RestoreDrop, bakVars
<1> QED
  BY <1>1, <1>2, <1>3

\* RestoreEnd keeps the types.
LEMMA TypedRestoreEnd == ASSUME Typed, NEW p \in Ops, RestoreEnd(p) PROVE Typed'
<1> USE DEF Typed
<1>1. CallTyped'
  BY DEF CallTyped, CreatePcs, RestorePcs, DeletePcs, RestoreEnd, Return
<1>2. DiskTyped'
  BY PutTyped, RestoreLocals DEF DiskTyped, RestoreEnd, RestorePcs
<1>3. RowTyped'
  BY DEF RowTyped, RestoreEnd, bakVars
<1> QED
  BY <1>1, <1>2, <1>3

\* Delete keeps the types.
LEMMA TypedDelete == ASSUME Typed, NEW p \in Ops, NEW b \in Backups, Delete(p, b) PROVE Typed'
<1> USE DEF Typed
<1>1. CallTyped'
  BY DEF CallTyped, CreatePcs, RestorePcs, DeletePcs, Delete
<1>2. DiskTyped'
  BY DEF DiskTyped, Delete, diskVars
<1>3. RowTyped'
  BY DEF RowTyped, Delete, bakVars
<1> QED
  BY <1>1, <1>2, <1>3

\* DeleteFile keeps the types.
LEMMA TypedDeleteFile == ASSUME Typed, NEW p \in Ops, DeleteFile(p) PROVE Typed'
<1> USE DEF Typed
<1>1. CallTyped'
  BY DEF CallTyped, CreatePcs, RestorePcs, DeletePcs, DeleteFile, Goto, Return
<1>2. DiskTyped'
  BY DEF DiskTyped, DeleteFile, diskVars
<1>3. RowTyped'
  BY DEF RowTyped, DeleteFile, CallTyped, DeletePcs
<1> QED
  BY <1>1, <1>2, <1>3

\* DeleteRow keeps the types.
LEMMA TypedDeleteRow == ASSUME Typed, NEW p \in Ops, DeleteRow(p) PROVE Typed'
<1> USE DEF Typed
<1>1. CallTyped'
  BY DEF CallTyped, CreatePcs, RestorePcs, DeletePcs, DeleteRow, Return
<1>2. DiskTyped'
  BY DEF DiskTyped, DeleteRow, diskVars
<1>3. RowTyped'
  BY DEF RowTyped, DeleteRow, CallTyped, DeletePcs
<1> QED
  BY <1>1, <1>2, <1>3

\* Writes, status changes and a crash of the daemon.
Outside ==
    \/ \E t \in Servers, f \in Files : Remove(t, f) \/ \E c \in Contents : Write(t, f, c)
    \/ \E t \in Servers, st \in {"stopped", "running"} : SetStatus(t, st)
    \/ DaemonCrash

\* They keep the types.
LEMMA TypedOutside == ASSUME Typed, Outside PROVE Typed'
<1> USE DEF Typed
<1>1. ASSUME NEW t \in Servers, NEW f \in Files, NEW c \in Contents, Write(t, f, c) PROVE Typed'
  <2>1. (IF data[t] = None THEN Empty ELSE data[t]) \in Dirs
    BY DirFacts DEF DiskTyped
  <2>2. [(IF data[t] = None THEN Empty ELSE data[t]) EXCEPT ![f] = c] \in Dirs
    BY <2>1 DEF Dirs
  <2>3. CallTyped' /\ RowTyped'
    BY <1>1 DEF Write, CallTyped, RowTyped, opVars, bakVars
  <2>4. DiskTyped'
    BY <1>1, <2>2 DEF Write, DiskTyped
  <2> QED
    BY <2>3, <2>4
<1>2. ASSUME NEW t \in Servers, NEW f \in Files, Remove(t, f) PROVE Typed'
  <2>1. [data[t] EXCEPT ![f] = None] \in Dirs
    BY <1>2 DEF Remove, Dirs, DiskTyped
  <2>2. CallTyped' /\ RowTyped'
    BY <1>2 DEF Remove, CallTyped, RowTyped, opVars, bakVars
  <2>3. DiskTyped'
    BY <1>2, <2>1 DEF Remove, DiskTyped
  <2> QED
    BY <2>2, <2>3
<1>3. ASSUME NEW t \in Servers, NEW st \in {"stopped", "running"}, SetStatus(t, st) PROVE Typed'
  BY <1>3 DEF SetStatus, CallTyped, RowTyped, DiskTyped, diskVars, bakVars, opVars
<1>4. CASE DaemonCrash
  <2>1. CallTyped'
    BY <1>4 DEF DaemonCrash, CallTyped, CreatePcs, RestorePcs
  <2> QED
    BY <1>4, <2>1 DEF DaemonCrash, RowTyped, DiskTyped, diskVars, bakVars
<1> QED
  BY <1>1, <1>2, <1>3, <1>4 DEF Outside

\* The cases of a step.
LEMMA StepCases ==
    ASSUME [BackupNext]_backupVars
    PROVE  \/ UNCHANGED backupVars
           \/ \E p \in Ops : OpStep(p)
           \/ \E p \in Ops, t \in Servers, b \in Backups : Create(p, t, b) \/ Restore(p, t, b)
           \/ \E p \in Ops, b \in Backups : Delete(p, b)
           \/ Outside
  BY DEF BackupNext, Call, Outside

\* Well-typedness is inductive.
LEMMA TypedStep == Typed /\ [BackupNext]_backupVars => Typed'
<1> SUFFICES ASSUME Typed, [BackupNext]_backupVars PROVE Typed'
  OBVIOUS
<1>1. CASE UNCHANGED backupVars
  BY <1>1 DEF backupVars, Typed, CallTyped, DiskTyped, RowTyped
<1>2. ASSUME NEW p \in Ops, OpStep(p) PROVE Typed'
  BY <1>2, TypedCreateRead, TypedCreateRename, TypedCreateFail, TypedCreateFinish, TypedRestoreGet,
     TypedRestoreSum, TypedRestoreClear, TypedRestoreOpen, TypedRestoreExtract, TypedRestoreNet,
     TypedRestoreAside, TypedRestoreSwitch, TypedRestoreUndo, TypedRestoreDrop, TypedRestoreEnd,
     TypedDeleteFile, TypedDeleteRow DEF OpStep
<1> QED
  BY <1>1, <1>2, StepCases, TypedCreate, TypedRestore, TypedDelete, TypedOutside

\* The directories, the backups table and the calls stay well typed.
THEOREM BackupTypeCorrect == BackupSpec => []BackupTypeOK
<1>1. Typed => BackupTypeOK
  BY DEF Typed, CallTyped, DiskTyped, RowTyped, BackupTypeOK
<1> QED
  BY <1>1, TypedInit, TypedStep, PTL DEF BackupSpec

-----------------------------------------------------------------------------
(* A completed backup can be restored.                                       *)

AfterGet == RestorePcs \ {"r_get"}
AfterSum == RestorePcs \ {"r_get", "r_sum"}

\* A Create in flight is the only one with its id, its row is not completed yet,
\* and once it has renamed the archive only a Delete can take it away.
CreateView ==
    \A p \in Ops : opc[p] \in CreatePcs =>
        /\ row[bid[p]] \in {"creating", "gone"}
        /\ \A q \in Ops : opc[q] \in CreatePcs /\ bid[q] = bid[p] => q = p
        /\ opc[p] = "c_finish" /\ bid[p] \notin doomed => archive[bid[p]] = copy[p]

DeleteView == \A p \in Ops : opc[p] \in DeletePcs => bid[p] \in doomed

\* What a Restore of backup b that holds checksum c relies on: the row it has read
\* only vanishes from now on, its Create is over, and (verified) the archive only
\* vanishes too.
Vouched(b, c, verified) ==
    /\ row[b] \in {"completed", "gone"}
    /\ c = sum[b]
    /\ \A q \in Ops : opc[q] \in CreatePcs => bid[q] # b
    /\ verified => sum[b] # None /\ archive[b] \in {None, sum[b]}

RestoreView ==
    \A p \in Ops : opc[p] \in AfterGet => Vouched(bid[p], copy[p], opc[p] \in AfterSum)

RowInv == CreateView /\ DeleteView /\ RestoreView /\ CompletedHasArchive

\* A step of p that leaves the table and the archives alone.
QuietStep(p) ==
    /\ UNCHANGED bakVars
    /\ doomed \subseteq doomed'
    /\ \A q \in Ops \ {p} : opc'[q] = opc[q] /\ bid'[q] = bid[q] /\ copy'[q] = copy[q]
    /\ opc'[p] \in CreatePcs => /\ opc[p] \in CreatePcs /\ bid'[p] = bid[p]
                                /\ opc'[p] = "c_finish" => opc[p] = "c_finish" /\ copy'[p] = copy[p]
    /\ opc'[p] \in DeletePcs => bid'[p] \in doomed'
    /\ opc'[p] \in AfterGet => Vouched(bid'[p], copy'[p], opc'[p] \in AfterSum)

\* At first there is no row and no call.
LEMMA RowInit == BackupInit => RowInv
  BY DEF BackupInit, RowInv, CreateView, DeleteView, RestoreView, CompletedHasArchive, AfterGet, RestorePcs,
     CreatePcs, DeletePcs

\* A step that touches neither rows nor archives keeps RowInv.
LEMMA RowQuiet == ASSUME Typed, RowInv, NEW p \in Ops, QuietStep(p) PROVE RowInv'
<1> USE DEF RowInv
<1>1. CreateView'
  BY DEF CreateView, QuietStep, bakVars
<1>2. DeleteView'
  BY DEF DeleteView, QuietStep, bakVars
<1>3. RestoreView'
  <2> SUFFICES ASSUME NEW q \in Ops, opc'[q] \in AfterGet
               PROVE  Vouched(bid[q], copy[q], opc[q] \in AfterSum)'
    BY DEF RestoreView
  <2>1. Vouched(bid'[q], copy'[q], opc'[q] \in AfterSum)
    BY DEF QuietStep, RestoreView
  <2>2. \A r \in Ops : opc'[r] \in CreatePcs => opc[r] \in CreatePcs /\ bid'[r] = bid[r]
    BY DEF QuietStep
  <2> QED
    BY <2>1, <2>2 DEF Vouched, QuietStep, bakVars
<1>4. CompletedHasArchive'
  BY DEF CompletedHasArchive, QuietStep, bakVars
<1> QED
  BY <1>1, <1>2, <1>3, <1>4

\* Restore reads a completed row and verifies its archive.
LEMMA QuietGetSum ==
    ASSUME Typed, RowInv, NEW p \in Ops, RestoreGet(p) \/ RestoreSum(p) PROVE QuietStep(p)
<1> USE DEF Typed, CallTyped, RowInv
<1>1. CASE RestoreGet(p)
  <2>1. row[bid[p]] = "completed" => \A q \in Ops : opc[q] \in CreatePcs => bid[q] # bid[p]
    BY DEF CreateView
  <2>2. bid[p] \in Backups
    BY <1>1 DEF RestoreGet
  <2> QED
    BY <1>1, <2>1, <2>2 DEF RestoreGet, Return, QuietStep, Vouched, AfterGet, AfterSum, RestorePcs, CreatePcs,
       DeletePcs, bakVars
<1>2. CASE RestoreSum(p)
  <2>1. Vouched(bid[p], copy[p], FALSE)
    BY <1>2 DEF RestoreSum, RestoreView, AfterGet, AfterSum, RestorePcs, Vouched
  <2> QED
    BY <1>2, <2>1 DEF RestoreSum, Goto, Return, QuietStep, Vouched, AfterGet, AfterSum, RestorePcs, CreatePcs,
       DeletePcs, bakVars
<1> QED
  BY <1>1, <1>2

\* Every later step of Restore keeps the backup and the checksum.
LEMMA QuietRestore ==
    ASSUME Typed, RowInv, NEW p \in Ops,
           \/ RestoreClear(p) \/ RestoreOpen(p) \/ RestoreExtract(p) \/ RestoreNet(p) \/ RestoreAside(p)
           \/ RestoreSwitch(p) \/ RestoreUndo(p) \/ RestoreDrop(p) \/ RestoreEnd(p)
    PROVE  QuietStep(p)
<1>1. opc[p] \in AfterSum /\ opc[p] \in AfterGet
  BY DEF AfterSum, AfterGet, RestorePcs, RestoreClear, RestoreOpen, RestoreExtract, RestoreNet, RestoreAside,
     RestoreSwitch, RestoreUndo, RestoreDrop, RestoreEnd
<1>2. Vouched(bid[p], copy[p], TRUE)
  BY <1>1 DEF RowInv, RestoreView
<1>3. /\ (opc'[p] \in AfterSum /\ bid'[p] = bid[p]) \/ opc'[p] = "idle"
      /\ \A q \in Ops \ {p} : opc'[q] = opc[q] /\ bid'[q] = bid[q] /\ copy'[q] = copy[q]
      /\ UNCHANGED <<bakVars, doomed>>
  BY DEF Typed, CallTyped, AfterSum, RestorePcs, RestoreClear, RestoreOpen, RestoreExtract, RestoreNet, RestoreAside,
     RestoreSwitch, RestoreUndo, RestoreDrop, RestoreEnd, Goto, Return, Abandon
<1>4. opc'[p] \in AfterSum => copy'[p] = copy[p]
  <2>1. CASE RestoreOpen(p) /\ copy' # copy
    <3>1. archive[bid[p]] # None /\ copy' = [copy EXCEPT ![p] = archive[bid[p]]]
      BY <2>1 DEF RestoreOpen, Abandon
    <3> QED
      BY <1>2, <3>1 DEF Vouched, Typed, CallTyped
  <2>2. CASE ~RestoreOpen(p)
    BY <2>2 DEF Typed, CallTyped, AfterSum, RestorePcs, RestoreClear, RestoreExtract, RestoreNet, RestoreAside,
       RestoreSwitch, RestoreUndo, RestoreDrop, RestoreEnd, Goto, Return, Abandon
  <2> QED
    BY <2>1, <2>2
<1>5. opc'[p] \notin CreatePcs \cup DeletePcs
  BY <1>3 DEF AfterSum, RestorePcs, CreatePcs, DeletePcs
<1>6. opc'[p] \in AfterGet => Vouched(bid'[p], copy'[p], opc'[p] \in AfterSum)
  <2>1. opc'[p] \in AfterGet => opc'[p] \in AfterSum
    BY <1>3 DEF AfterGet, RestorePcs
  <2> QED
    BY <1>2, <1>3, <1>4, <2>1 DEF Vouched, AfterGet, RestorePcs
<1> QED
  BY <1>3, <1>5, <1>6 DEF QuietStep

\* Reading the directory, and the beginning of Restore and Delete.
LEMMA QuietOther ==
    ASSUME Typed, RowInv, NEW p \in Ops, NEW b \in Backups,
           CreateRead(p) \/ Delete(p, b) \/ \E t \in Servers : Restore(p, t, b)
    PROVE  QuietStep(p)
<1> USE DEF Typed, CallTyped, QuietStep, AfterGet, AfterSum, RestorePcs, CreatePcs, DeletePcs
<1>1. CASE CreateRead(p)
  BY <1>1 DEF CreateRead, Goto
<1>2. CASE Delete(p, b)
  BY <1>2 DEF Delete
<1>3. CASE \E t \in Servers : Restore(p, t, b)
  BY <1>3 DEF Restore
<1> QED
  BY <1>1, <1>2, <1>3

\* The loud steps, one by one.
LEMMA RowCreate ==
    ASSUME Typed, RowInv, NEW p \in Ops, NEW t \in Servers, NEW b \in Backups, Create(p, t, b) PROVE RowInv'
<1> USE DEF Typed, CallTyped, RowTyped, RowInv
<1>1. /\ row[b] = "none" /\ row' = [row EXCEPT ![b] = "creating"]
      /\ opc' = [opc EXCEPT ![p] = "c_read"] /\ bid' = [bid EXCEPT ![p] = b]
      /\ \A q \in Ops \ {p} : copy'[q] = copy[q]
      /\ UNCHANGED <<sum, archive, doomed>>
  BY DEF Create
<1>2. CreateView'
  BY <1>1 DEF CreateView, CreatePcs
<1>3. DeleteView'
  BY <1>1 DEF DeleteView, DeletePcs
<1>4. RestoreView'
  BY <1>1 DEF RestoreView, Vouched, AfterGet, AfterSum, RestorePcs, CreatePcs
<1>5. CompletedHasArchive'
  BY <1>1 DEF CompletedHasArchive
<1> QED
  BY <1>2, <1>3, <1>4, <1>5

\* The archive appears under its final name.
LEMMA RowCreateRename == ASSUME Typed, RowInv, NEW p \in Ops, CreateRename(p) PROVE RowInv'
<1> USE DEF Typed, CallTyped, RowTyped, RowInv
<1>1. /\ opc[p] = "c_rename" /\ bid[p] \in Backups /\ opc[p] \in CreatePcs
      /\ \/ archive' = [archive EXCEPT ![bid[p]] = copy[p]] /\ opc' = [opc EXCEPT ![p] = "c_finish"]
         \/ archive' = archive /\ opc' = [opc EXCEPT ![p] = "c_fail"]
      /\ UNCHANGED <<row, sum, doomed, bid, copy>>
  BY DEF CreateRename, Goto, CreatePcs
<1>2. \A q \in Ops : /\ opc'[q] \in CreatePcs <=> opc[q] \in CreatePcs
                     /\ opc'[q] \in DeletePcs <=> opc[q] \in DeletePcs
                     /\ opc'[q] \in AfterGet <=> opc[q] \in AfterGet
                     /\ opc'[q] \in AfterSum <=> opc[q] \in AfterSum
                     /\ opc'[q] = "c_finish" /\ q # p => opc[q] = "c_finish"
  BY <1>1 DEF CreatePcs, DeletePcs, AfterGet, AfterSum, RestorePcs
<1>3. CreateView'
  BY <1>1, <1>2 DEF CreateView
<1>4. DeleteView'
  BY <1>1, <1>2 DEF DeleteView
<1>5. RestoreView'
  <2> SUFFICES ASSUME NEW q \in Ops, opc'[q] \in AfterGet
               PROVE  Vouched(bid[q], copy[q], opc[q] \in AfterSum)'
    BY DEF RestoreView
  <2>1. Vouched(bid[q], copy[q], opc'[q] \in AfterSum)
    BY <1>2 DEF RestoreView
  <2>2. archive'[bid[q]] = archive[bid[q]]
    <3>1. bid[q] \in Backups
      BY <1>2 DEF AfterGet, RestorePcs
    <3>2. bid[q] # bid[p]
      BY <1>1, <2>1 DEF Vouched
    <3> QED
      BY <1>1, <3>1, <3>2
  <2> QED
    BY <1>1, <1>2, <2>1, <2>2 DEF Vouched
<1>6. CompletedHasArchive'
  BY <1>1 DEF CompletedHasArchive, CreateView
<1> QED
  BY <1>3, <1>4, <1>5, <1>6

\* The end of Create: the row of its own backup, if it is still there.
LEMMA RowCreateEnd ==
    ASSUME Typed, RowInv, NEW p \in Ops, CreateFail(p) \/ CreateFinish(p) PROVE RowInv'
<1> USE DEF Typed, CallTyped, RowTyped, RowInv
<1>1. /\ opc[p] \in CreatePcs /\ bid[p] \in Backups /\ copy[p] \in Dirs
      /\ opc' = [opc EXCEPT ![p] = "idle"]
      /\ \A q \in Ops \ {p} : bid'[q] = bid[q] /\ copy'[q] = copy[q]
      /\ UNCHANGED <<archive, doomed>>
  BY DEF CreateFail, CreateFinish, Return, CreatePcs
<1>2. /\ \A b \in Backups \ {bid[p]} : row'[b] = row[b] /\ sum'[b] = sum[b]
      /\ row[bid[p]] = "gone" => row'[bid[p]] = "gone"
      /\ row[bid[p]] \in {"creating", "gone"}
  BY <1>1 DEF CreateFail, CreateFinish, UpdateBackupStatus, HasRow, CreateView
<1>3. \A q \in Ops : /\ opc'[q] \in CreatePcs => q # p /\ opc[q] \in CreatePcs /\ bid[q] # bid[p]
                     /\ opc'[q] \in DeletePcs => q # p /\ opc[q] \in DeletePcs
                     /\ opc'[q] \in AfterGet => q # p /\ opc[q] \in AfterGet /\ bid[q] # bid[p]
                     /\ q # p => opc'[q] = opc[q]
  BY <1>1 DEF CreatePcs, DeletePcs, AfterGet, RestorePcs, CreateView, RestoreView, Vouched
<1>4. \A q \in Ops : opc[q] \in CreatePcs \cup DeletePcs \cup AfterGet => bid[q] \in Backups
  BY DEF CreatePcs, DeletePcs, AfterGet, RestorePcs
<1>5. CreateView'
  BY <1>1, <1>2, <1>3, <1>4 DEF CreateView
<1>6. DeleteView'
  BY <1>1, <1>3 DEF DeleteView
<1>7. RestoreView'
  <2> SUFFICES ASSUME NEW q \in Ops, opc'[q] \in AfterGet
               PROVE  Vouched(bid[q], copy[q], opc[q] \in AfterSum)'
    BY DEF RestoreView
  <2>1. q # p /\ opc[q] \in AfterGet /\ bid[q] # bid[p] /\ bid[q] \in Backups
    BY <1>3, <1>4
  <2>2. Vouched(bid[q], copy[q], opc[q] \in AfterSum)
    BY <2>1 DEF RestoreView
  <2>3. bid'[q] = bid[q] /\ copy'[q] = copy[q] /\ opc'[q] = opc[q]
        /\ row'[bid[q]] = row[bid[q]] /\ sum'[bid[q]] = sum[bid[q]] /\ archive' = archive
    BY <1>1, <1>2, <1>3, <2>1
  <2>4. \A r \in Ops : opc'[r] \in CreatePcs => opc[r] \in CreatePcs /\ bid'[r] = bid[r]
    BY <1>1, <1>3
  <2> QED
    BY <2>2, <2>3, <2>4 DEF Vouched
<1>8. CompletedHasArchive'
  <2> SUFFICES ASSUME NEW b \in Backups \ doomed, row'[b] = "completed"
               PROVE  archive[b] # None /\ archive[b] = sum'[b]
    BY <1>1 DEF CompletedHasArchive
  <2>1. CASE b # bid[p]
    BY <1>2, <2>1 DEF CompletedHasArchive
  <2>2. CASE b = bid[p]
    <3>1. CreateFinish(p) /\ sum'[b] = copy[p] /\ opc[p] = "c_finish"
      BY <1>1, <1>2, <2>2 DEF CreateFail, CreateFinish, UpdateBackupStatus, HasRow
    <3>2. archive[b] = copy[p]
      BY <1>1, <2>2, <3>1 DEF CreateView
    <3> QED
      BY <1>1, <3>1, <3>2, DirFacts
  <2> QED
    BY <2>1, <2>2
<1> QED
  BY <1>5, <1>6, <1>7, <1>8

\* Delete removes file and row of a backup that is doomed already.
LEMMA RowDelete ==
    ASSUME Typed, RowInv, NEW p \in Ops, DeleteFile(p) \/ DeleteRow(p) PROVE RowInv'
<1> USE DEF Typed, CallTyped, RowTyped, RowInv
<1>1. /\ opc[p] \in DeletePcs /\ bid[p] \in Backups /\ bid[p] \in doomed
      /\ opc' \in {[opc EXCEPT ![p] = "idle"], [opc EXCEPT ![p] = "d_row"]}
      /\ opc'[p] \in DeletePcs => bid'[p] = bid[p]
      /\ \A q \in Ops \ {p} : bid'[q] = bid[q] /\ copy'[q] = copy[q]
      /\ UNCHANGED <<sum, doomed>>
  BY DEF DeleteFile, DeleteRow, Goto, Return, DeletePcs, DeleteView
<1>2. /\ \A b \in Backups \ {bid[p]} : row'[b] = row[b] /\ archive'[b] = archive[b]
      /\ row'[bid[p]] \in {row[bid[p]], "gone"}
      /\ archive'[bid[p]] \in {archive[bid[p]], None}
  BY <1>1 DEF DeleteFile, DeleteRow
<1>3. \A q \in Ops : /\ opc'[q] \in CreatePcs \cup AfterGet => q # p
                     /\ q # p => opc'[q] = opc[q]
                     /\ opc[q] \in CreatePcs \cup AfterGet => bid[q] \in Backups
  BY <1>1 DEF CreatePcs, AfterGet, RestorePcs
<1>4. CreateView'
  BY <1>1, <1>2, <1>3 DEF CreateView
<1>5. DeleteView'
  BY <1>1, <1>3 DEF DeleteView
<1>6. RestoreView'
  <2> SUFFICES ASSUME NEW q \in Ops, opc'[q] \in AfterGet
               PROVE  Vouched(bid[q], copy[q], opc[q] \in AfterSum)'
    BY DEF RestoreView
  <2>1. q # p /\ opc[q] \in AfterGet /\ opc'[q] = opc[q] /\ bid[q] \in Backups
    BY <1>3
  <2>2. Vouched(bid[q], copy[q], opc[q] \in AfterSum)
    BY <2>1 DEF RestoreView
  <2>3. \A r \in Ops : opc'[r] \in CreatePcs => opc[r] \in CreatePcs /\ bid'[r] = bid[r]
    BY <1>1, <1>3
  <2> QED
    BY <1>1, <1>2, <2>1, <2>2, <2>3 DEF Vouched
<1>7. CompletedHasArchive'
  BY <1>1, <1>2 DEF CompletedHasArchive
<1> QED
  BY <1>4, <1>5, <1>6, <1>7

\* Writes, status changes and a crash leave rows and archives alone.
LEMMA RowOutside == ASSUME Typed, RowInv, Outside PROVE RowInv'
<1> USE DEF RowInv, CreateView, DeleteView, RestoreView, Vouched, CompletedHasArchive
<1>1. ASSUME UNCHANGED <<bakVars, opVars, doomed>> PROVE RowInv'
  BY <1>1 DEF bakVars, opVars
<1>2. CASE DaemonCrash
  BY <1>2 DEF DaemonCrash, bakVars, AfterGet, RestorePcs, CreatePcs, DeletePcs
<1> QED
  BY <1>1, <1>2 DEF Outside, Write, Remove, SetStatus

\* RowInv is inductive under well-typedness.
LEMMA RowStep == Typed /\ RowInv /\ [BackupNext]_backupVars => RowInv'
<1> SUFFICES ASSUME Typed, RowInv, [BackupNext]_backupVars PROVE RowInv'
  OBVIOUS
<1>1. CASE UNCHANGED backupVars
  BY <1>1 DEF backupVars, RowInv, CreateView, DeleteView, RestoreView, Vouched, CompletedHasArchive
<1>2. ASSUME NEW p \in Ops, OpStep(p) PROVE RowInv'
  <2>1. CASE RestoreGet(p) \/ RestoreSum(p)
    BY <2>1, QuietGetSum, RowQuiet
  <2>2. CASE \/ RestoreClear(p) \/ RestoreOpen(p) \/ RestoreExtract(p) \/ RestoreNet(p) \/ RestoreAside(p)
             \/ RestoreSwitch(p) \/ RestoreUndo(p) \/ RestoreDrop(p) \/ RestoreEnd(p)
    BY <2>2, QuietRestore, RowQuiet
  <2>3. CASE CreateRead(p)
    <3>1. bid[p] \in Backups
      BY <2>3 DEF Typed, CallTyped, CreateRead
    <3> QED
      BY <2>3, <3>1, QuietOther, RowQuiet
  <2> QED
    BY <1>2, <2>1, <2>2, <2>3, RowCreateRename, RowCreateEnd, RowDelete DEF OpStep
<1>3. ASSUME NEW p \in Ops, NEW t \in Servers, NEW b \in Backups, Restore(p, t, b) \/ Delete(p, b) PROVE RowInv'
  BY <1>3, QuietOther, RowQuiet
<1>4. (\E p \in Ops, b \in Backups : Delete(p, b)) => RowInv'
  BY QuietOther, RowQuiet
<1> QED
  BY <1>1, <1>2, <1>3, <1>4, StepCases, RowCreate, RowOutside

\* A backup listed as completed can be restored until somebody deletes it.
THEOREM CompletedHasArchiveCorrect == BackupSpec => []CompletedHasArchive
<1>1. RowInv => CompletedHasArchive
  BY DEF RowInv
<1> QED
  BY <1>1, TypedInit, TypedStep, RowInit, RowStep, PTL DEF BackupSpec

-----------------------------------------------------------------------------
(* What a restore moves into place, and what it keeps aside.                 *)

\* Restores of an undisturbed server do not overlap.
Sole ==
    \A p, q \in Ops :
        /\ opc[p] \in RestorePcs /\ opc[q] \in RestorePcs
        /\ tgt[p] = tgt[q] /\ tgt[p] \notin disturbed
        => p = q

\* A staging directory that is there, perhaps since an earlier attempt, holds
\* nothing but files of the one archive its name stands for.
Leftover ==
    \A t \in Servers, b \in Backups :
        t \notin disturbed /\ staging[t][b] # None
          => Vouched(b, sum[b], TRUE) /\ \A f \in Files : staging[t][b][f] \in {None, sum[b][f]}

\* How far the staging directory of the restore p has got.
Staged(p) ==
    LET S == staging[tgt[p]][bid[p]]
    IN  /\ opc[p] \in {"r_open", "r_extract"} => S # None
        /\ opc[p] = "r_extract" => \A f \in Files \ left[p] : S[f] = copy[p][f]
        /\ opc[p] \in {"r_net", "r_aside", "r_switch"} => S = copy[p]

StageInv ==
    /\ Sole
    /\ Leftover
    /\ \A p \in Ops : opc[p] \in RestorePcs /\ tgt[p] \notin disturbed => Staged(p)

\* A restore about to discard what it moved aside has its replacement in place.
NetInv == \A p \in Ops : opc[p] = "r_drop" /\ tgt[p] \notin disturbed => aside[tgt[p]] = None

\* Once vouched for, a backup stays so: nothing rewrites its row or its archive.
LEMMA VouchedStable ==
    ASSUME Typed, RowInv, [BackupNext]_backupVars, NEW b \in Backups, Vouched(b, sum[b], TRUE)
    PROVE  Vouched(b, sum[b], TRUE)' /\ sum'[b] = sum[b]
<1> USE DEF Vouched
<1>1. ASSUME NEW p \in Ops, QuietStep(p) PROVE Vouched(b, sum[b], TRUE)' /\ sum'[b] = sum[b]
  BY <1>1 DEF QuietStep, bakVars
<1>2. ASSUME NEW p \in Ops, NEW t \in Servers, NEW c \in Backups, Create(p, t, c)
      PROVE  Vouched(b, sum[b], TRUE)' /\ sum'[b] = sum[b]
  BY <1>2 DEF Create, Typed, CallTyped, RowTyped
<1>3. ASSUME NEW p \in Ops, CreateRename(p) \/ CreateFail(p) \/ CreateFinish(p)
      PROVE  Vouched(b, sum[b], TRUE)' /\ sum'[b] = sum[b]
  <2>1. opc[p] \in CreatePcs /\ bid[p] # b
    BY <1>3 DEF CreateRename, CreateFail, CreateFinish, CreatePcs
  <2>2. \A q \in Ops : opc'[q] \in CreatePcs => opc[q] \in CreatePcs /\ bid'[q] = bid[q]
    BY <1>3, <2>1 DEF CreateRename, CreateFail, CreateFinish, Goto, Return, Typed, CallTyped, CreatePcs
  <2>3. row'[b] = row[b] /\ sum'[b] = sum[b] /\ archive'[b] = archive[b]
    BY <1>3, <2>1 DEF CreateRename, CreateFail, CreateFinish, UpdateBackupStatus, Typed, RowTyped
  <2> QED
    BY <2>2, <2>3
<1>4. ASSUME NEW p \in Ops, DeleteFile(p) \/ DeleteRow(p)
      PROVE  Vouched(b, sum[b], TRUE)' /\ sum'[b] = sum[b]
  <2>1. \A q \in Ops : opc'[q] \in CreatePcs => opc[q] \in CreatePcs /\ bid'[q] = bid[q]
    BY <1>4 DEF DeleteFile, DeleteRow, Goto, Return, Typed, CallTyped, CreatePcs
  <2> QED
    BY <1>4, <2>1 DEF DeleteFile, DeleteRow, Typed, RowTyped
<1>5. CASE Outside
  <2>1. UNCHANGED bakVars /\ \A q \in Ops : opc'[q] \in CreatePcs => opc[q] \in CreatePcs /\ bid'[q] = bid[q]
    BY <1>5 DEF Outside, Write, Remove, SetStatus, DaemonCrash, opVars, CreatePcs
  <2> QED
    BY <2>1 DEF bakVars
<1>6. CASE UNCHANGED backupVars
  BY <1>6 DEF backupVars
<1>7. ASSUME NEW p \in Ops, OpStep(p) PROVE Vouched(b, sum[b], TRUE)' /\ sum'[b] = sum[b]
  <2>1. CASE \/ CreateRename(p) \/ CreateFail(p) \/ CreateFinish(p) \/ DeleteFile(p) \/ DeleteRow(p)
    BY <1>3, <1>4, <2>1
  <2>2. CASE \/ RestoreGet(p) \/ RestoreSum(p) \/ CreateRead(p)
             \/ RestoreClear(p) \/ RestoreOpen(p) \/ RestoreExtract(p) \/ RestoreNet(p) \/ RestoreAside(p)
             \/ RestoreSwitch(p) \/ RestoreUndo(p) \/ RestoreDrop(p) \/ RestoreEnd(p)
    BY <1>1, <2>2, QuietGetSum, QuietRestore, QuietOther
  <2> QED
    BY <1>7, <2>1, <2>2 DEF OpStep
<1>8. ASSUME NEW p \in Ops, NEW c \in Backups, Delete(p, c) \/ \E t \in Servers : Restore(p, t, c)
      PROVE  Vouched(b, sum[b], TRUE)' /\ sum'[b] = sum[b]
  BY <1>1, <1>8, QuietOther
<1> QED
  BY <1>2, <1>5, <1>6, <1>7, <1>8, StepCases

\* A step of p as the others see it: it touches the staging directory of its own
\* restore only, and leaves it in a good state.
StageStep(p) ==
    /\ \A q \in Ops \ {p} : /\ opc'[q] = opc[q] /\ tgt'[q] = tgt[q] /\ bid'[q] = bid[q]
                            /\ copy'[q] = copy[q] /\ left'[q] = left[q]
    /\ disturbed \subseteq disturbed'
    /\ \A t \in Servers, b \in Backups :
          ~(opc[p] \in RestorePcs /\ t = tgt[p] /\ b = bid[p]) => staging'[t][b] = staging[t][b]
    /\ opc[p] \in RestorePcs /\ tgt[p] \notin disturbed /\ staging'[tgt[p]][bid[p]] # None
          => /\ Vouched(bid[p], sum[bid[p]], TRUE)
             /\ \A f \in Files : staging'[tgt[p]][bid[p]][f] \in {None, sum[bid[p]][f]}
    /\ opc'[p] \in RestorePcs /\ tgt'[p] \notin disturbed'
          => /\ Restoring(tgt'[p]) \subseteq {p}
             /\ Staged(p)'

\* At first nothing is staged and nothing moved aside.
LEMMA StageInit == BackupInit => StageInv /\ NetInv
<1> SUFFICES ASSUME BackupInit PROVE StageInv /\ NetInv
  OBVIOUS
<1>1. \A p \in Ops : opc[p] \notin RestorePcs
  BY DEF BackupInit, RestorePcs
<1> QED
  BY <1>1 DEF BackupInit, StageInv, NetInv, Sole, Leftover

\* StageInv follows from what one call may do to the others' staging directories.
LEMMA StageGlue ==
    ASSUME Typed, RowInv, StageInv, [BackupNext]_backupVars, NEW p \in Ops, StageStep(p)
    PROVE  StageInv'
<1> USE DEF StageInv
<1>1. Sole'
  BY DEF Sole, StageStep, Restoring
<1>2. Leftover'
  <2> SUFFICES ASSUME NEW t \in Servers, NEW b \in Backups, t \notin disturbed', staging'[t][b] # None
               PROVE  Vouched(b, sum[b], TRUE)' /\ \A f \in Files : staging'[t][b][f] \in {None, sum'[b][f]}
    BY DEF Leftover
  <2>1. t \notin disturbed
    BY DEF StageStep
  <2>2. Vouched(b, sum[b], TRUE) /\ \A f \in Files : staging'[t][b][f] \in {None, sum[b][f]}
    <3>1. CASE opc[p] \in RestorePcs /\ t = tgt[p] /\ b = bid[p]
      BY <2>1, <3>1 DEF StageStep
    <3>2. CASE ~(opc[p] \in RestorePcs /\ t = tgt[p] /\ b = bid[p])
      <4>1. staging'[t][b] = staging[t][b]
        BY <3>2 DEF StageStep
      <4> QED
        BY <2>1, <4>1 DEF Leftover
    <3> QED
      BY <3>1, <3>2
  <2> QED
    BY <2>2, VouchedStable
<1>3. ASSUME NEW q \in Ops, opc'[q] \in RestorePcs, tgt'[q] \notin disturbed' PROVE Staged(q)'
  <2>1. CASE q = p
    BY <1>3, <2>1 DEF StageStep
  <2>2. CASE q # p
    <3>1. opc[q] \in RestorePcs /\ tgt[q] \notin disturbed /\ Staged(q)
      BY <1>3, <2>2 DEF StageStep
    <3>2. ~(opc[p] \in RestorePcs /\ tgt[p] = tgt[q])
      BY <2>2, <3>1 DEF Sole
    <3>3. tgt[q] \in Servers /\ bid[q] \in Backups
      BY <3>1, RestoreLocals DEF Typed
    <3>4. staging'[tgt[q]][bid[q]] = staging[tgt[q]][bid[q]]
      BY <3>2, <3>3 DEF StageStep
    <3> QED
      BY <2>2, <3>1, <3>4 DEF StageStep, Staged
  <2> QED
    BY <2>1, <2>2
<1> QED
  BY <1>1, <1>2, <1>3

\* Calls of Create and Delete, and the beginning of a Restore, touch no staging directory.
LEMMA StageOther ==
    ASSUME Typed, RowInv, StageInv, NEW p \in Ops,
           \/ CreateRead(p) \/ CreateRename(p) \/ CreateFail(p) \/ CreateFinish(p)
           \/ DeleteFile(p) \/ DeleteRow(p) \/ (\E b \in Backups : Delete(p, b))
           \/ \E t \in Servers, b \in Backups : Create(p, t, b) \/ Restore(p, t, b)
    PROVE  StageStep(p)
<1>1. /\ opc[p] \notin RestorePcs
      /\ staging' = staging
      /\ \A q \in Ops \ {p} : /\ opc'[q] = opc[q] /\ tgt'[q] = tgt[q] /\ bid'[q] = bid[q]
                              /\ copy'[q] = copy[q] /\ left'[q] = left[q]
      /\ disturbed \subseteq disturbed'
  BY DEF CreateRead, CreateRename, CreateFail, CreateFinish, DeleteFile, DeleteRow, Delete, Create, Restore,
     Goto, Return, RestorePcs, Typed, CallTyped, diskVars
<1>2. CASE opc'[p] \notin RestorePcs
  BY <1>1, <1>2 DEF StageStep
<1>3. CASE \E t \in Servers, b \in Backups : Restore(p, t, b)
  <2>1. PICK t \in Servers, b \in Backups : Restore(p, t, b)
    BY <1>3
  <2>2. opc'[p] = "r_get" /\ tgt'[p] = t
    BY <2>1 DEF Restore, Typed, CallTyped
  <2>3. t \notin disturbed' => Restoring(t) = {}
    BY <2>1 DEF Restore
  <2> QED
    BY <1>1, <2>2, <2>3 DEF StageStep, Staged
<1>4. CASE ~\E t \in Servers, b \in Backups : Restore(p, t, b)
  <2>1. opc'[p] \notin RestorePcs
    BY <1>4 DEF CreateRead, CreateRename, CreateFail, CreateFinish, DeleteFile, DeleteRow, Delete, Create,
       Goto, Return, RestorePcs, Typed, CallTyped
  <2> QED
    BY <1>2, <2>1
<1> QED
  BY <1>3, <1>4

\* What every step of a Restore leaves alone.
LEMMA RestoreFrame ==
    ASSUME Typed, RowInv, StageInv, NEW p \in Ops,
           \/ RestoreGet(p) \/ RestoreSum(p) \/ RestoreClear(p) \/ RestoreOpen(p) \/ RestoreExtract(p)
           \/ RestoreNet(p) \/ RestoreAside(p) \/ RestoreSwitch(p) \/ RestoreUndo(p) \/ RestoreDrop(p)
           \/ RestoreEnd(p)
    PROVE  /\ opc[p] \in RestorePcs /\ tgt[p] \in Servers /\ bid[p] \in Backups
           /\ \A q \in Ops \ {p} : /\ opc'[q] = opc[q] /\ tgt'[q] = tgt[q] /\ bid'[q] = bid[q]
                                   /\ copy'[q] = copy[q] /\ left'[q] = left[q]
           /\ disturbed \subseteq disturbed'
           /\ opc'[p] \in RestorePcs => tgt'[p] = tgt[p] /\ bid'[p] = bid[p]
           /\ tgt[p] \notin disturbed => Restoring(tgt[p]) \subseteq {p} /\ Staged(p)
           /\ opc[p] \in AfterSum => Vouched(bid[p], sum[bid[p]], TRUE) /\ copy[p] = sum[bid[p]]
<1> USE DEF Typed
<1>1. opc[p] \in RestorePcs
  BY DEF RestoreGet, RestoreSum, RestoreClear, RestoreOpen, RestoreExtract, RestoreNet, RestoreAside,
     RestoreSwitch, RestoreUndo, RestoreDrop, RestoreEnd, RestorePcs
<1>2. /\ \A q \in Ops \ {p} : /\ opc'[q] = opc[q] /\ tgt'[q] = tgt[q] /\ bid'[q] = bid[q]
                              /\ copy'[q] = copy[q] /\ left'[q] = left[q]
      /\ disturbed \subseteq disturbed'
      /\ opc'[p] \in RestorePcs => tgt'[p] = tgt[p] /\ bid'[p] = bid[p]
  BY DEF RestoreGet, RestoreSum, RestoreClear, RestoreOpen, RestoreExtract, RestoreNet, RestoreAside,
     RestoreSwitch, RestoreUndo, RestoreDrop, RestoreEnd, RestorePcs, Goto, Return, Abandon, CallTyped
<1>3. tgt[p] \notin disturbed => Restoring(tgt[p]) \subseteq {p} /\ Staged(p)
  BY <1>1 DEF StageInv, Sole, Restoring
<1>4. opc[p] \in AfterSum => Vouched(bid[p], sum[bid[p]], TRUE) /\ copy[p] = sum[bid[p]]
  <2>1. opc[p] \in AfterSum => opc[p] \in AfterGet
    BY DEF AfterSum, AfterGet
  <2> QED
    BY <2>1 DEF RowInv, RestoreView, Vouched
<1> QED
  BY <1>1, <1>2, <1>3, <1>4, RestoreLocals

\* Steps of a Restore that leave its staging directory as it is.
LEMMA StageQuiet ==
    ASSUME Typed, RowInv, StageInv, NEW p \in Ops,
           \/ RestoreGet(p) \/ RestoreSum(p) \/ RestoreOpen(p) \/ RestoreNet(p) \/ RestoreAside(p)
           \/ RestoreUndo(p) \/ RestoreDrop(p)
    PROVE  StageStep(p)
<1> DEFINE S == staging[tgt[p]][bid[p]]
<1>1. staging' = staging
  BY DEF RestoreGet, RestoreSum, RestoreOpen, RestoreNet, RestoreAside, RestoreUndo, RestoreDrop, diskVars
<1>2. tgt[p] \notin disturbed /\ S # None
        => Vouched(bid[p], sum[bid[p]], TRUE) /\ \A f \in Files : S[f] \in {None, sum[bid[p]][f]}
  BY RestoreFrame DEF StageInv, Leftover
<1>3. ASSUME opc'[p] \in RestorePcs, tgt[p] \notin disturbed PROVE Staged(p)'
  <2>1. tgt'[p] = tgt[p] /\ bid'[p] = bid[p] /\ Staged(p)
    BY <1>3, RestoreFrame
  <2>2. CASE RestoreOpen(p)
    <3>1. S # None
      BY <2>1, <2>2 DEF Staged, RestoreOpen
    <3>2. CASE opc'[p] = "r_extract"
      <4>1. /\ archive[bid[p]] # None
            /\ copy'[p] = archive[bid[p]] /\ left'[p] = Has(archive[bid[p]])
        BY <2>2, <3>2 DEF RestoreOpen, Abandon, Typed, CallTyped
      <4>2. archive[bid[p]] = sum[bid[p]]
        BY <1>2, <1>3, <3>1, <4>1 DEF Vouched
      <4>3. \A f \in Files \ left'[p] : S[f] = copy'[p][f]
        BY <1>2, <1>3, <3>1, <4>1, <4>2 DEF Has
      <4> QED
        BY <1>1, <2>1, <3>1, <3>2, <4>3 DEF Staged
    <3>3. CASE opc'[p] # "r_extract"
      <4>1. opc'[p] = "r_end"
        BY <2>2, <3>3 DEF RestoreOpen, Abandon, Typed, CallTyped
      <4> QED
        BY <4>1 DEF Staged
    <3> QED
      BY <3>2, <3>3
  <2>3. CASE RestoreNet(p) \/ RestoreAside(p)
    <3>1. copy' = copy /\ opc[p] \in {"r_net", "r_aside"} /\ opc'[p] \in {"r_aside", "r_switch", "r_end"}
      BY <2>3 DEF RestoreNet, RestoreAside, Goto, Abandon, Typed, CallTyped
    <3> QED
      BY <1>1, <2>1, <3>1 DEF Staged
  <2>4. CASE RestoreGet(p) \/ RestoreSum(p) \/ RestoreUndo(p) \/ RestoreDrop(p)
    <3>1. opc'[p] \in {"idle", "r_sum", "r_clear", "r_end"}
      BY <2>4 DEF RestoreGet, RestoreSum, RestoreUndo, RestoreDrop, Goto, Return, Abandon, Typed, CallTyped
    <3> QED
      BY <3>1 DEF Staged
  <2> QED
    BY <2>2, <2>3, <2>4
<1> QED
  BY <1>1, <1>2, <1>3, RestoreFrame DEF StageStep

\* T is the entry of p in a staging table that differs from the present one there only.
PutAt(T, new, p) ==
    /\ new[tgt[p]][bid[p]] = T
    /\ \A t \in Servers, b \in Backups :
          ~(t = tgt[p] /\ b = bid[p]) => new[t][b] = staging[t][b]

\* An entry that is set is what is found there.
LEMMA PutGet ==
    ASSUME DiskTyped, NEW p, NEW d, tgt[p] \in Servers, bid[p] \in Backups
    PROVE  PutAt(d, Put(staging, p, d), p)
<1>1. staging \in [Servers -> [Backups -> Dirs \cup {None}]]
  BY DEF DiskTyped
<1> QED
  BY <1>1 DEF Put, PutAt

\* The staging directory is emptied, or an old one is taken over.
LEMMA StageClear == ASSUME Typed, RowInv, StageInv, NEW p \in Ops, RestoreClear(p) PROVE StageStep(p)
<1> DEFINE S == staging[tgt[p]][bid[p]]
           T == staging'[tgt[p]][bid[p]]
<1>f. /\ opc[p] \in AfterSum /\ tgt[p] \in Servers /\ bid[p] \in Backups
      /\ Vouched(bid[p], sum[bid[p]], TRUE)
  BY RestoreFrame DEF RestoreClear, AfterSum, RestorePcs
<1>p. PutAt(Empty, Put(staging, p, Empty), p)
  BY <1>f, PutGet DEF Typed
<1>o. /\ staging' = Put(staging, p, Empty) \/ (staging' = staging /\ (S # None \/ opc'[p] = "idle"))
      /\ opc'[p] \in {"r_open", "idle"}
  <2>1. CASE staging' = Put(staging, p, Empty) /\ Goto(p, "r_open")
    BY <2>1 DEF Goto, Typed, CallTyped
  <2>2. CASE staging' = staging /\ S # None /\ Goto(p, "r_open")
    BY <2>2 DEF Goto, Typed, CallTyped
  <2>3. CASE staging' = staging /\ Return(p, "err")
    BY <2>3 DEF Return, Typed, CallTyped
  <2> QED
    BY <2>1, <2>2, <2>3 DEF RestoreClear
<1>1. /\ T = Empty \/ (staging' = staging /\ (S # None \/ opc'[p] = "idle"))
      /\ \A t \in Servers, b \in Backups :
            ~(t = tgt[p] /\ b = bid[p]) => staging'[t][b] = staging[t][b]
      /\ opc'[p] \in {"r_open", "idle"}
  BY <1>o, <1>p DEF PutAt
<1>2. tgt[p] \notin disturbed /\ T # None => \A f \in Files : T[f] \in {None, sum[bid[p]][f]}
  <2>1. CASE T = Empty
    <3>1. \A f \in Files : T[f] = None
      BY <2>1 DEF Empty
    <3> QED
      BY <3>1
  <2>2. CASE staging' = staging
    BY <1>f, <2>2 DEF StageInv, Leftover
  <2> QED
    BY <1>1, <2>1, <2>2
<1>3. opc'[p] \in RestorePcs => Staged(p)'
  <2>1. opc'[p] \in RestorePcs => T # None /\ opc'[p] = "r_open" /\ tgt'[p] = tgt[p] /\ bid'[p] = bid[p]
    <3>1. opc'[p] \in RestorePcs => opc'[p] = "r_open" /\ tgt'[p] = tgt[p] /\ bid'[p] = bid[p]
      BY <1>1, RestoreFrame DEF RestorePcs
    <3> QED
      BY <1>1, <3>1, DirFacts
  <2> QED
    BY <2>1 DEF Staged
<1> QED
  BY <1>1, <1>2, <1>3, <1>f, RestoreFrame DEF StageStep

\* One more file is there, or all of them are.
LEMMA StageExtract == ASSUME Typed, RowInv, StageInv, NEW p \in Ops, RestoreExtract(p) PROVE StageStep(p)
<1> DEFINE S == staging[tgt[p]][bid[p]]
           T == staging'[tgt[p]][bid[p]]
<1>f. /\ opc[p] = "r_extract" /\ tgt[p] \in Servers /\ bid[p] \in Backups /\ copy[p] \in Dirs
      /\ S \in Dirs \cup {None} /\ left[p] \in SUBSET Files
      /\ Vouched(bid[p], sum[bid[p]], TRUE) /\ copy[p] = sum[bid[p]]
  <2>1. opc[p] = "r_extract" /\ opc[p] \in AfterSum
    BY DEF RestoreExtract, AfterSum, RestorePcs
  <2>2. tgt[p] \in Servers /\ bid[p] \in Backups /\ Vouched(bid[p], sum[bid[p]], TRUE) /\ copy[p] = sum[bid[p]]
    BY <2>1, RestoreFrame
  <2>3. copy[p] \in Dirs /\ left[p] \in SUBSET Files
    BY <2>1 DEF Typed, CallTyped
  <2> QED
    BY <2>1, <2>2, <2>3 DEF Typed, DiskTyped
<1>p. \A d : PutAt(d, Put(staging, p, d), p)
  BY <1>f, PutGet DEF Typed
<1>1. CASE tgt[p] \in disturbed
  <2>1. \A t \in Servers, b \in Backups : ~(t = tgt[p] /\ b = bid[p]) => staging'[t][b] = staging[t][b]
    <3>1. staging' = staging \/ \E d : staging' = Put(staging, p, d)
      BY DEF RestoreExtract
    <3> QED
      BY <1>p, <3>1 DEF PutAt
  <2> QED
    BY <1>1, <2>1, RestoreFrame DEF StageStep
<1>2. CASE tgt[p] \notin disturbed
  <2>1. /\ S \in Dirs /\ \A f \in Files \ left[p] : S[f] = copy[p][f]
        /\ \A f \in Files : S[f] \in {None, copy[p][f]}
    <3>1. Staged(p)
      BY <1>2, RestoreFrame
    <3>2. S # None /\ \A f \in Files \ left[p] : S[f] = copy[p][f]
      BY <1>f, <3>1 DEF Staged
    <3> QED
      BY <1>f, <1>2, <3>2 DEF StageInv, Leftover
  <2>2. CASE staging' # staging
    <3>1. PICK f \in left[p] : /\ staging' = Put(staging, p, [S EXCEPT ![f] = copy[p][f]])
                               /\ left' = [left EXCEPT ![p] = @ \ {f}]
                               /\ UNCHANGED <<opc, tgt, bid, copy>>
      BY <2>1, <2>2, DirFacts DEF RestoreExtract
    <3>2. /\ T = [S EXCEPT ![f] = copy[p][f]]
          /\ \A t \in Servers, b \in Backups :
                ~(t = tgt[p] /\ b = bid[p]) => staging'[t][b] = staging[t][b]
      BY <1>p, <3>1 DEF PutAt
    <3>3. /\ T \in Dirs
          /\ \A g \in Files : T[g] = IF g = f THEN copy[p][f] ELSE S[g]
      BY <1>f, <2>1, <3>1, <3>2 DEF Dirs
    <3>4. left'[p] = left[p] \ {f}
      BY <3>1 DEF Typed, CallTyped
    <3>5. Staged(p)'
      BY <1>f, <2>1, <3>1, <3>3, <3>4, DirFacts DEF Staged
    <3>6. \A g \in Files : T[g] \in {None, sum[bid[p]][g]}
      BY <1>f, <2>1, <3>3
    <3> QED
      BY <1>f, <3>2, <3>5, <3>6, RestoreFrame DEF StageStep
  <2>3. CASE staging' = staging
    <3>1. Staged(p)'
      <4>1. CASE UNCHANGED <<opc, tgt, bid, copy>>
        <5>1. left'[p] \subseteq left[p] /\ \A f \in left[p] \ left'[p] : S[f] = copy[p][f]
          <6>1. CASE left' = left
            BY <6>1
          <6>2. CASE left' # left
            <7>1. PICK f \in left[p] : /\ staging' = Put(staging, p, [S EXCEPT ![f] = copy[p][f]])
                                       /\ left' = [left EXCEPT ![p] = @ \ {f}]
              BY <2>1, <6>2, DirFacts DEF RestoreExtract, Goto, Abandon
            <7>2. S = [S EXCEPT ![f] = copy[p][f]]
              <8>1. PutAt([S EXCEPT ![f] = copy[p][f]], staging', p)
                BY <1>p, <7>1
              <8> QED
                BY <2>3, <8>1 DEF PutAt
            <7>3. S[f] = copy[p][f]
              BY <1>f, <2>1, <7>2 DEF Dirs
            <7> QED
              BY <7>1, <7>3 DEF Typed, CallTyped
          <6> QED
            BY <6>1, <6>2
        <5> QED
          BY <1>f, <2>1, <2>3, <4>1, <5>1, DirFacts DEF Staged
      <4>2. CASE ~UNCHANGED <<opc, tgt, bid, copy>>
        <5>1. /\ (opc'[p] = "r_net" /\ left[p] = {}) \/ opc'[p] = "r_end"
              /\ UNCHANGED <<tgt, bid, copy>>
          BY <4>2 DEF RestoreExtract, Goto, Abandon, Typed, CallTyped
        <5>2. left[p] = {} => S = copy[p]
          BY <1>f, <2>1 DEF Dirs
        <5> QED
          BY <2>3, <5>1, <5>2 DEF Staged
      <4> QED
        BY <4>1, <4>2
    <3> QED
      BY <1>f, <2>1, <2>3, <3>1, RestoreFrame DEF StageStep
  <2> QED
    BY <2>2, <2>3
<1> QED
  BY <1>1, <1>2

\* The switch and the deferred removal take the staging directory away.
LEMMA StageTaken ==
    ASSUME Typed, RowInv, StageInv, NEW p \in Ops, RestoreSwitch(p) \/ RestoreEnd(p) PROVE StageStep(p)
<1> DEFINE T == staging'[tgt[p]][bid[p]]
<1>f. opc[p] \in AfterSum /\ tgt[p] \in Servers /\ bid[p] \in Backups
  BY RestoreFrame DEF RestoreSwitch, RestoreEnd, AfterSum, RestorePcs
<1>1. /\ T = None \/ staging' = staging
      /\ \A t \in Servers, b \in Backups :
            ~(t = tgt[p] /\ b = bid[p]) => staging'[t][b] = staging[t][b]
      /\ opc'[p] \in {"r_drop", "r_undo", "idle"}
  <2>1. PutAt(None, Put(staging, p, None), p)
    BY <1>f, PutGet DEF Typed
  <2>2. /\ staging' = Put(staging, p, None) \/ staging' = staging
        /\ opc'[p] \in {"r_drop", "r_undo", "idle"}
    BY DEF RestoreSwitch, RestoreEnd, Goto, Return, Typed, CallTyped
  <2> QED
    BY <2>1, <2>2 DEF PutAt
<1>2. tgt[p] \notin disturbed /\ T # None
        => Vouched(bid[p], sum[bid[p]], TRUE) /\ \A f \in Files : T[f] \in {None, sum[bid[p]][f]}
  BY <1>1, <1>f DEF StageInv, Leftover
<1>3. Staged(p)'
  BY <1>1 DEF Staged
<1> QED
  BY <1>1, <1>2, <1>3, RestoreFrame DEF StageStep

\* Writes, status changes and a crash touch no staging directory.
LEMMA StageOutside == ASSUME Typed, RowInv, StageInv, Outside PROVE StageInv'
<1>v. [BackupNext]_backupVars
  BY DEF Outside, BackupNext
<1>1. ASSUME UNCHANGED <<staging, bakVars, opVars, disturbed>> PROVE StageInv'
  <2>1. Sole'
    BY <1>1 DEF StageInv, Sole, opVars
  <2>2. Leftover'
    BY <1>1, <1>v, VouchedStable DEF StageInv, Leftover
  <2>3. \A p \in Ops : (opc[p] \in RestorePcs /\ tgt[p] \notin disturbed => Staged(p))'
    BY <1>1 DEF StageInv, Staged, opVars
  <2> QED
    BY <2>1, <2>2, <2>3 DEF StageInv
<1>2. CASE DaemonCrash
  <2>1. \A p \in Ops : opc'[p] \notin RestorePcs
    BY <1>2 DEF DaemonCrash, RestorePcs
  <2>2. Leftover'
    <3>1. staging' = staging /\ disturbed \subseteq disturbed'
      BY <1>2 DEF DaemonCrash, diskVars
    <3> QED
      BY <1>v, <3>1, VouchedStable DEF StageInv, Leftover
  <2> QED
    BY <2>1, <2>2 DEF StageInv, Sole
<1> QED
  BY <1>1, <1>2 DEF Outside, Write, Remove, SetStatus, diskVars

\* StageInv is inductive under Typed and RowInv.
LEMMA StageNext == Typed /\ RowInv /\ StageInv /\ [BackupNext]_backupVars => StageInv'
<1> SUFFICES ASSUME Typed, RowInv, StageInv, [BackupNext]_backupVars PROVE StageInv'
  OBVIOUS
<1>1. CASE UNCHANGED backupVars
  BY <1>1 DEF backupVars, StageInv, Sole, Leftover, Staged, Vouched
<1>2. ASSUME NEW p \in Ops, OpStep(p) PROVE StageStep(p)
  BY <1>2, StageOther, StageQuiet, StageClear, StageExtract, StageTaken DEF OpStep
<1>3. ASSUME NEW p \in Ops,
             \/ \E b \in Backups : Delete(p, b)
             \/ \E t \in Servers, b \in Backups : Create(p, t, b) \/ Restore(p, t, b)
      PROVE  StageStep(p)
  BY <1>3, StageOther
<1> QED
  BY <1>1, <1>2, <1>3, StepCases, StageGlue, StageOutside

\* What a restore moves into place is the archive its row vouches for, also when
\* the archive is deleted meanwhile and when an earlier attempt left files behind.
THEOREM StagingIsArchiveCorrect == BackupSpec => []StagingIsArchive
<1>1. Typed /\ RowInv /\ StageInv => StagingIsArchive
  <2> SUFFICES ASSUME Typed, RowInv, StageInv, NEW p \in Ops, opc[p] = "r_switch", tgt[p] \notin disturbed
               PROVE  staging[tgt[p]][bid[p]] = copy[p] /\ copy[p] = sum[bid[p]]
    BY DEF StagingIsArchive
  <2>1. opc[p] \in RestorePcs /\ opc[p] \in AfterGet
    BY DEF RestorePcs, AfterGet
  <2> QED
    BY <2>1 DEF StageInv, Staged, RowInv, RestoreView, Vouched
<1> QED
  BY <1>1, TypedInit, TypedStep, RowInit, RowStep, StageInit, StageNext, PTL DEF BackupSpec

\* Only a restore of the same server moves data aside or replaces it.
LEMMA AsideFrame ==
    ASSUME Typed, RowInv, StageInv, NEW p \in Ops, OpStep(p), NEW t \in Servers, aside'[t] # aside[t]
    PROVE  /\ opc[p] \in RestorePcs /\ tgt[p] = t
           /\ opc'[p] # "r_drop" \/ aside'[t] = None
<1> USE DEF Typed, DiskTyped, CallTyped
<1>1. RestoreAside(p) \/ RestoreSwitch(p) \/ RestoreUndo(p)
  BY DEF OpStep, CreateRead, CreateRename, CreateFail, CreateFinish, RestoreGet, RestoreSum, RestoreClear,
     RestoreOpen, RestoreExtract, RestoreNet, RestoreDrop, RestoreEnd, DeleteFile, DeleteRow
<1>2. opc[p] \in RestorePcs /\ tgt[p] \in Servers
  BY <1>1, RestoreFrame
<1> QED
  BY <1>1, <1>2 DEF RestoreAside, RestoreSwitch, RestoreUndo, Goto, Abandon

\* A restore gets to r_drop by putting the replacement in place, and nobody else
\* moves the data of that server aside meanwhile.
LEMMA NetStep == Typed /\ RowInv /\ StageInv /\ NetInv /\ [BackupNext]_backupVars => NetInv'
<1> SUFFICES ASSUME Typed, RowInv, StageInv, NetInv, [BackupNext]_backupVars,
                    NEW q \in Ops, opc'[q] = "r_drop", tgt'[q] \notin disturbed'
             PROVE  aside'[tgt'[q]] = None
  BY DEF NetInv
<1>1. CASE Outside \/ UNCHANGED backupVars
  BY <1>1 DEF Outside, Write, Remove, SetStatus, DaemonCrash, opVars, backupVars, NetInv
<1>2. ASSUME NEW p \in Ops, OpStep(p) PROVE aside'[tgt'[q]] = None
  <2>s. StageStep(p)
    BY <1>2, StageOther, StageQuiet, StageClear, StageExtract, StageTaken DEF OpStep
  <2>1. CASE q = p
    <3>1. RestoreSwitch(p) /\ tgt'[p] = tgt[p] /\ aside' = [aside EXCEPT ![tgt[p]] = None] /\ tgt[p] \in Servers
      <4>1. RestoreSwitch(p)
        BY <1>2, <2>1 DEF OpStep, CreateRead, CreateRename, CreateFail, CreateFinish, RestoreGet, RestoreSum,
           RestoreClear, RestoreOpen, RestoreExtract, RestoreNet, RestoreAside, RestoreUndo, RestoreDrop,
           RestoreEnd, DeleteFile, DeleteRow, Goto, Return, Abandon, Typed, CallTyped
      <4> QED
        BY <2>1, <4>1, RestoreFrame DEF RestoreSwitch, Goto, Typed, CallTyped
    <3> QED
      BY <2>1, <3>1 DEF Typed, DiskTyped
  <2>2. CASE q # p
    <3>1. /\ opc[q] = "r_drop" /\ tgt'[q] = tgt[q] /\ tgt[q] \notin disturbed
          /\ tgt[q] \in Servers /\ aside[tgt[q]] = None
      BY <2>2, <2>s, RestoreLocals DEF StageStep, NetInv, Typed, RestorePcs
    <3>2. ~(opc[p] \in RestorePcs /\ tgt[p] = tgt[q])
      BY <2>2, <3>1 DEF StageInv, Sole, RestorePcs
    <3> QED
      BY <1>2, <3>1, <3>2, AsideFrame
  <2> QED
    BY <2>1, <2>2
<1>3. ASSUME NEW p \in Ops,
             \/ \E b \in Backups : Delete(p, b)
             \/ \E t \in Servers, b \in Backups : Create(p, t, b) \/ Restore(p, t, b)
      PROVE  aside'[tgt'[q]] = None
  <2>1. aside' = aside /\ opc'[p] # "r_drop"
    BY <1>3 DEF Delete, Create, Restore, Typed, CallTyped
  <2>2. q # p /\ opc[q] = "r_drop" /\ tgt'[q] = tgt[q] /\ tgt[q] \notin disturbed
    <3>1. StageStep(p)
      BY <1>3, StageOther
    <3>2. q # p
      BY <2>1
    <3> QED
      BY <3>1, <3>2 DEF StageStep
  <2> QED
    BY <2>1, <2>2 DEF NetInv
<1> QED
  BY <1>1, <1>2, <1>3, StepCases

\* A step that takes data away that was moved aside is allowed to.
LEMMA NetKept ==
    ASSUME Typed, RowInv, StageInv, NetInv, [BackupNext]_backupVars,
           NEW t \in Servers, NEW b \in Backups,
           t \notin disturbed, previous[t][b] # None, previous'[t][b] # previous[t][b]
    PROVE  \/ data'[t] = previous[t][b]
           \/ aside[t] = None
           \/ staging[t][b] # None /\ staging[t][b] = sum[b]
<1>1. PICK p \in Ops : RestoreNet(p) \/ RestoreAside(p) \/ RestoreUndo(p) \/ RestoreDrop(p)
  BY StepCases DEF OpStep, Outside, backupVars, Write, Remove, SetStatus, DaemonCrash, CreateRead, CreateRename,
     CreateFail, CreateFinish, RestoreGet, RestoreSum, RestoreClear, RestoreOpen, RestoreExtract, RestoreSwitch,
     RestoreEnd, DeleteFile, DeleteRow, Delete, Create, Restore, diskVars
<1>2. opc[p] \in RestorePcs /\ tgt[p] \in Servers /\ bid[p] \in Backups
  BY <1>1, RestoreFrame
<1>3. \A d : ~(t = tgt[p] /\ b = bid[p]) => Put(previous, p, d)[t][b] = previous[t][b]
  BY <1>2 DEF Put, Typed, DiskTyped
<1>4. t = tgt[p] /\ b = bid[p]
  BY <1>1, <1>3 DEF RestoreNet, RestoreAside, RestoreUndo, RestoreDrop
\* The directory in the way makes the rename fail.
<1>5. ~RestoreAside(p)
  BY <1>4 DEF RestoreAside, CanMove
\* The undo moves it back.
<1>6. CASE RestoreUndo(p)
  BY <1>4, <1>6 DEF RestoreUndo, Typed, DiskTyped
\* The removal after the switch.
<1>7. CASE RestoreDrop(p)
  BY <1>4, <1>7 DEF RestoreDrop, NetInv
\* The removal of an earlier attempt's net comes after the whole extraction.
<1>8. CASE RestoreNet(p)
  <2>1. opc[p] = "r_net" /\ opc[p] \in AfterSum
    BY <1>8 DEF RestoreNet, AfterSum, RestorePcs
  <2>2. Staged(p) /\ copy[p] = sum[b] /\ Vouched(b, sum[b], TRUE)
    BY <1>4, <1>8, <2>1, RestoreFrame
  <2> QED
    BY <1>4, <2>1, <2>2 DEF Staged, Vouched
<1> QED
  BY <1>1, <1>5, <1>6, <1>7, <1>8

\* Data that a restore moved aside, also one that was cut off or could not be
\* undone, is given up only for its replacement or beside the whole backup.
THEOREM SafetyNetCorrect == BackupSpec => SafetyNet
<1>1. Typed /\ RowInv /\ StageInv /\ NetInv /\ [BackupNext]_backupVars
        => [\A t \in Servers, b \in Backups :
              /\ t \notin disturbed
              /\ previous[t][b] # None
              /\ previous'[t][b] # previous[t][b]
              => \/ data'[t] = previous[t][b]
                 \/ aside[t] = None
                 \/ staging[t][b] # None /\ staging[t][b] = sum[b]]_backupVars
  BY NetKept
<1> QED
  BY <1>1, TypedInit, TypedStep, RowInit, RowStep, StageInit, StageNext, NetStep, PTL DEF BackupSpec, SafetyNet

=============================================================================
