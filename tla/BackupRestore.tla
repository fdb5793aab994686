---------------------------- MODULE BackupRestore ----------------------------
(***************************************************************************)
(* Hot backups and restores of a server's data directory:                  *)
(* internal/backup/manager.go, archive.go and restore.go on top of the      *)
(* backups table and of internal/filesystem/manager.go.                     *)
(*                                                                         *)
(* A directory is a function from file names to contents (None: no such     *)
(* file), or None when it does not exist; an archive is the directory it    *)
(* was made from and its checksum is the archive itself.  A restore works   *)
(* in two directories beside the data directory, named after the backup:    *)
(* staging and previous.  No lock is held anywhere, so every database       *)
(* statement and file operation is a step, and the daemon may die between   *)
(* any two.                                                                 *)
(***************************************************************************)
EXTENDS Naturals, FiniteSets

CONSTANTS Servers,   \* server ids
          Backups,   \* backup ids; uuid.NewString never repeats one
          Ops,       \* concurrent Create, Restore and Delete calls
          Files,     \* file names in a data directory
          Contents,  \* what a file may hold
          Special,   \* the contents that stand for a FIFO, a socket or a device
          Checked,   \* whether the manager was given a StatusProvider
          Faults,    \* which failures the environment may inject
          None       \* no value, no file, no directory

ASSUME BackupAssumption ==
    /\ None \notin Servers \cup Backups \cup Contents
    /\ None \notin [Files -> Contents \cup {None}]
    /\ Special \subseteq Contents
    /\ Checked \in BOOLEAN
    /\ Faults \subseteq {"db", "io", "crash"}

VARIABLES
    data,       \* data directory of each server
    staging,    \* .restore-<backup> beside it
    previous,   \* .previous-<backup> beside it
    status,     \* what the StatusProvider says of a server
    row,        \* backups.status, or "none" / "gone" before and after the row
    sum,        \* backups.checksum_sha256
    archive,    \* the file <backup>.tar.gz
    opc,        \* next step of each call
    tgt, bid,   \* the server and the backup it works on
    copy,       \* the archive it writes or extracts
    left,       \* files it has still to treat
    outcome,    \* what it will return, or returned last
    aside,      \* history: data moved aside by a restore and not replaced since
    doomed,     \* history: backups a Delete has been called for
    disturbed   \* history: servers with a restore that overlapped another

diskVars == <<data, staging, previous>>
bakVars == <<row, sum, archive>>
opVars == <<opc, tgt, bid, copy, left, outcome>>
backupVars == <<data, staging, previous, status, row, sum, archive,
                opc, tgt, bid, copy, left, outcome, aside, doomed, disturbed>>

Dirs == [Files -> Contents \cup {None}]
Empty == [f \in Files |-> None]
CreatePcs == {"c_read", "c_rename", "c_finish", "c_fail"}
RestorePcs == {"r_get", "r_sum", "r_clear", "r_open", "r_extract", "r_net", "r_aside",
               "r_switch", "r_undo", "r_drop", "r_end"}
DeletePcs == {"d_file", "d_row"}

Has(d) == {f \in Files : d[f] # None}
Restoring(t) == {p \in Ops : tgt[p] = t /\ opc[p] \in RestorePcs}
HasRow(b) == row[b] \notin {"none", "gone"}

\* Directory entry <<t, b>> of staging or previous becomes d.
Put(dirs, p, d) == [dirs EXCEPT ![tgt[p]][bid[p]] = d]

Goto(p, next) ==
    /\ opc' = [opc EXCEPT ![p] = next]
    /\ UNCHANGED <<tgt, bid, copy, left, outcome>>

Return(p, result) ==
    /\ opc' = [opc EXCEPT ![p] = "idle"]
    /\ tgt' = [tgt EXCEPT ![p] = None]
    /\ bid' = [bid EXCEPT ![p] = None]
    /\ copy' = [copy EXCEPT ![p] = None]
    /\ left' = [left EXCEPT ![p] = {}]
    /\ outcome' = [outcome EXCEPT ![p] = result]

\* UPDATE backups ... WHERE id=?: without a row it touches nothing.
UpdateBackupStatus(b, st, checksum) ==
    /\ row' = IF HasRow(b) THEN [row EXCEPT ![b] = st] ELSE row
    /\ sum' = IF HasRow(b) THEN [sum EXCEPT ![b] = checksum] ELSE sum

-----------------------------------------------------------------------------
(* Create: the row first, then the archive under a temporary name, then its  *)
(* real name, then the checksum.                                             *)

Create(p, t, b) ==
    /\ opc[p] = "idle"
    /\ row[b] = "none"
    /\ row' = [row EXCEPT ![b] = "creating"]
    /\ opc' = [opc EXCEPT ![p] = "c_read"]
    /\ tgt' = [tgt EXCEPT ![p] = t]
    /\ bid' = [bid EXCEPT ![p] = b]
    /\ copy' = [copy EXCEPT ![p] = Empty]
    /\ left' = [left EXCEPT ![p] = Files]
    /\ outcome' = [outcome EXCEPT ![p] = None]
    /\ UNCHANGED <<diskVars, status, sum, archive, aside, doomed, disturbed>>

\* createArchive: the walk copies the files one by one while others write them.
\* A missing directory, or a file gone since it was listed, ends it; of a file
\* that is not regular the header is written, which is an entry like any other.
CreateRead(p) ==
    LET d == data[tgt[p]]
    IN  /\ opc[p] = "c_read"
        /\ \/ \E f \in left[p] :
                /\ d # None
                /\ copy' = [copy EXCEPT ![p][f] = d[f]]
                /\ left' = [left EXCEPT ![p] = @ \ {f}]
                /\ UNCHANGED <<opc, tgt, bid, outcome>>
           \/ left[p] = {} /\ Goto(p, "c_rename")
           \/ (d = None \/ "io" \in Faults) /\ Goto(p, "c_fail")
           \/ \E f \in left[p] : d # None /\ d[f] = None /\ Goto(p, "c_fail")
        /\ UNCHANGED <<diskVars, status, bakVars, aside, doomed, disturbed>>

CreateRename(p) ==
    /\ opc[p] = "c_rename"
    /\ \/ archive' = [archive EXCEPT ![bid[p]] = copy[p]] /\ Goto(p, "c_finish")
       \/ "io" \in Faults /\ UNCHANGED archive /\ Goto(p, "c_fail")
    /\ UNCHANGED <<diskVars, status, row, sum, aside, doomed, disturbed>>

\* A failure to record the failure is ignored.
CreateFail(p) ==
    /\ opc[p] = "c_fail"
    /\ \/ UpdateBackupStatus(bid[p], "failed", None)
       \/ "db" \in Faults /\ UNCHANGED <<row, sum>>
    /\ Return(p, "err")
    /\ UNCHANGED <<diskVars, status, archive, aside, doomed, disturbed>>

\* MUTANT: the checksum is taken of the directory, not of the bytes written.
CreateFinishOfDirectory(p) ==
    /\ opc[p] = "c_finish"
    /\ UpdateBackupStatus(bid[p], "completed", data[tgt[p]])
    /\ Return(p, "ok")
    /\ UNCHANGED <<diskVars, status, archive, aside, doomed, disturbed>>

CreateFinish(p) ==
    /\ opc[p] = "c_finish"
    /\ \/ UpdateBackupStatus(bid[p], "completed", copy[p]) /\ Return(p, "ok")
       \/ "db" \in Faults /\ UNCHANGED <<row, sum>> /\ Return(p, "err")
    /\ UNCHANGED <<diskVars, status, archive, aside, doomed, disturbed>>

-----------------------------------------------------------------------------
(* Restore.                                                                  *)

\* The server must be stopped now, if there is a StatusProvider to ask; it is
\* not looked at again.
Restore(p, t, b) ==
    /\ opc[p] = "idle"
    /\ Checked => status[t] = "stopped"
    /\ opc' = [opc EXCEPT ![p] = "r_get"]
    /\ tgt' = [tgt EXCEPT ![p] = t]
    /\ bid' = [bid EXCEPT ![p] = b]
    /\ outcome' = [outcome EXCEPT ![p] = None]
    /\ disturbed' = IF Restoring(t) # {} THEN disturbed \cup {t} ELSE disturbed
    /\ UNCHANGED <<diskVars, status, bakVars, copy, left, aside, doomed>>

\* GetBackup: only a completed one, whose checksum goes to a local.
RestoreGet(p) ==
    /\ opc[p] = "r_get"
    /\ \/ /\ row[bid[p]] = "completed"
          /\ opc' = [opc EXCEPT ![p] = "r_sum"]
          /\ copy' = [copy EXCEPT ![p] = sum[bid[p]]]
          /\ UNCHANGED <<tgt, bid, left, outcome>>
       \/ (row[bid[p]] # "completed" \/ "db" \in Faults) /\ Return(p, "err")
    /\ UNCHANGED <<diskVars, status, bakVars, aside, doomed, disturbed>>

\* checksumFile.
RestoreSum(p) ==
    /\ opc[p] = "r_sum"
    /\ \/ archive[bid[p]] # None /\ archive[bid[p]] = copy[p] /\ Goto(p, "r_clear")
       \/ (archive[bid[p]] = None \/ archive[bid[p]] # copy[p] \/ "io" \in Faults) /\ Return(p, "err")
    /\ UNCHANGED <<diskVars, status, bakVars, aside, doomed, disturbed>>

\* MUTANT: both leftovers of an earlier attempt are removed at the beginning.
RestoreClearBoth(p) ==
    /\ opc[p] = "r_clear"
    /\ staging' = Put(staging, p, Empty)
    /\ previous' = Put(previous, p, None)
    /\ Goto(p, "r_open")
    /\ UNCHANGED <<data, status, bakVars, aside, doomed, disturbed>>

\* os.RemoveAll and os.MkdirAll of the staging directory; a failure to remove
\* it is ignored.
RestoreClear(p) ==
    /\ opc[p] = "r_clear"
    /\ \/ staging' = Put(staging, p, Empty) /\ Goto(p, "r_open")
       \/ /\ "io" \in Faults /\ staging[tgt[p]][bid[p]] # None
          /\ UNCHANGED staging
          /\ Goto(p, "r_open")
       \/ "io" \in Faults /\ UNCHANGED staging /\ Return(p, "err")
    /\ UNCHANGED <<data, previous, status, bakVars, aside, doomed, disturbed>>

\* End of Restore after a failure: what is left is the deferred removal.
Abandon(p) ==
    /\ opc' = [opc EXCEPT ![p] = "r_end"]
    /\ outcome' = [outcome EXCEPT ![p] = "err"]
    /\ UNCHANGED <<tgt, bid, copy, left>>

\* extractArchive opens the archive, which stays readable even if it is deleted.
RestoreOpen(p) ==
    /\ opc[p] = "r_open"
    /\ \/ /\ archive[bid[p]] # None
          /\ opc' = [opc EXCEPT ![p] = "r_extract"]
          /\ copy' = [copy EXCEPT ![p] = archive[bid[p]]]
          /\ left' = [left EXCEPT ![p] = Has(archive[bid[p]])]
          /\ UNCHANGED <<tgt, bid, outcome>>
       \/ (archive[bid[p]] = None \/ "io" \in Faults) /\ Abandon(p)
    /\ UNCHANGED <<diskVars, status, bakVars, aside, doomed, disturbed>>

\* MUTANT: an error in the middle of the archive is taken for its end.
RestoreExtractShort(p) ==
    LET old == staging[tgt[p]][bid[p]]
        into == IF old = None THEN Empty ELSE old
    IN  /\ opc[p] = "r_extract"
        /\ \/ \E f \in left[p] :
                /\ staging' = Put(staging, p, [into EXCEPT ![f] = copy[p][f]])
                /\ left' = [left EXCEPT ![p] = @ \ {f}]
                /\ UNCHANGED <<opc, tgt, bid, copy, outcome>>
           \/ UNCHANGED staging /\ Goto(p, "r_net")
        /\ UNCHANGED <<data, previous, status, bakVars, aside, doomed, disturbed>>

\* One entry; a staging directory that vanished is made again (MkdirAll), and
\* what is neither a directory nor a regular file is refused.
RestoreExtract(p) ==
    LET old == staging[tgt[p]][bid[p]]
        into == IF old = None THEN Empty ELSE old
    IN  /\ opc[p] = "r_extract"
        /\ \/ \E f \in left[p] :
                /\ copy[p][f] \notin Special
                /\ staging' = Put(staging, p, [into EXCEPT ![f] = copy[p][f]])
                /\ left' = [left EXCEPT ![p] = @ \ {f}]
                /\ UNCHANGED <<opc, tgt, bid, copy, outcome>>
           \/ left[p] = {} /\ UNCHANGED staging /\ Goto(p, "r_net")
           \/ /\ "io" \in Faults \/ \E f \in left[p] : copy[p][f] \in Special
              /\ UNCHANGED staging
              /\ Abandon(p)
        /\ UNCHANGED <<data, previous, status, bakVars, aside, doomed, disturbed>>

\* A .previous directory of an earlier attempt is removed, errors ignored.
RestoreNet(p) ==
    /\ opc[p] = "r_net"
    /\ previous' = Put(previous, p, None) \/ ("io" \in Faults /\ UNCHANGED previous)
    /\ Goto(p, "r_aside")
    /\ UNCHANGED <<data, staging, status, bakVars, aside, doomed, disturbed>>

\* os.Rename moves a directory over nothing; any directory in the way, an
\* empty one too, makes it fail.
CanMove(from, to) == from # None /\ to = None

\* The data directory, if there is one, becomes .previous.  An error of os.Stat
\* is taken for its absence.
RestoreAside(p) ==
    LET d == data[tgt[p]]
    IN  /\ opc[p] = "r_aside"
        /\ \/ /\ d = None \/ "io" \in Faults
              /\ UNCHANGED <<data, previous, aside>>
              /\ Goto(p, "r_switch")
           \/ /\ CanMove(d, previous[tgt[p]][bid[p]])
              /\ previous' = Put(previous, p, d)
              /\ data' = [data EXCEPT ![tgt[p]] = None]
              /\ aside' = [aside EXCEPT ![tgt[p]] = d]
              /\ Goto(p, "r_switch")
           \/ /\ d # None
              /\ ~CanMove(d, previous[tgt[p]][bid[p]]) \/ "io" \in Faults
              /\ UNCHANGED <<data, previous, aside>>
              /\ Abandon(p)
        /\ UNCHANGED <<staging, status, bakVars, doomed, disturbed>>

RestoreSwitch(p) ==
    LET d == staging[tgt[p]][bid[p]]
    IN  /\ opc[p] = "r_switch"
        /\ \/ /\ CanMove(d, data[tgt[p]])
              /\ data' = [data EXCEPT ![tgt[p]] = d]
              /\ staging' = Put(staging, p, None)
              /\ aside' = [aside EXCEPT ![tgt[p]] = None]
              /\ Goto(p, "r_drop")
           \/ /\ ~CanMove(d, data[tgt[p]]) \/ "io" \in Faults
              /\ UNCHANGED <<data, staging, aside>>
              /\ Goto(p, "r_undo")
        /\ UNCHANGED <<previous, status, bakVars, doomed, disturbed>>

\* os.Rename(previous, root), errors ignored.
RestoreUndo(p) ==
    LET d == previous[tgt[p]][bid[p]]
    IN  /\ opc[p] = "r_undo"
        /\ \/ /\ CanMove(d, data[tgt[p]])
              /\ data' = [data EXCEPT ![tgt[p]] = d]
              /\ previous' = Put(previous, p, None)
              /\ aside' = [aside EXCEPT ![tgt[p]] = None]
           \/ /\ ~CanMove(d, data[tgt[p]]) \/ "io" \in Faults
              /\ UNCHANGED <<data, previous, aside>>
        /\ Abandon(p)
        /\ UNCHANGED <<staging, status, bakVars, doomed, disturbed>>

RestoreDrop(p) ==
    /\ opc[p] = "r_drop"
    /\ previous' = Put(previous, p, None) \/ ("io" \in Faults /\ UNCHANGED previous)
    /\ opc' = [opc EXCEPT ![p] = "r_end"]
    /\ outcome' = [outcome EXCEPT ![p] = "ok"]
    /\ UNCHANGED <<tgt, bid, copy, left, data, staging, status, bakVars, aside, doomed, disturbed>>

\* The deferred removal of the staging directory.
RestoreEnd(p) ==
    /\ opc[p] = "r_end"
    /\ staging' = Put(staging, p, None) \/ ("io" \in Faults /\ UNCHANGED staging)
    /\ Return(p, outcome[p])
    /\ UNCHANGED <<data, previous, status, bakVars, aside, doomed, disturbed>>

-----------------------------------------------------------------------------
(* Delete: the archive, then the row.                                        *)

Delete(p, b) ==
    /\ opc[p] = "idle"
    /\ HasRow(b)
    /\ opc' = [opc EXCEPT ![p] = "d_file"]
    /\ bid' = [bid EXCEPT ![p] = b]
    /\ outcome' = [outcome EXCEPT ![p] = None]
    /\ doomed' = doomed \cup {b}
    /\ UNCHANGED <<diskVars, status, bakVars, tgt, copy, left, aside, disturbed>>

\* An archive that is already gone is no error.
DeleteFile(p) ==
    /\ opc[p] = "d_file"
    /\ \/ archive' = [archive EXCEPT ![bid[p]] = None] /\ Goto(p, "d_row")
       \/ "io" \in Faults /\ UNCHANGED archive /\ Return(p, "err")
    /\ UNCHANGED <<diskVars, status, row, sum, aside, doomed, disturbed>>

DeleteRow(p) ==
    /\ opc[p] = "d_row"
    /\ \/ row' = [row EXCEPT ![bid[p]] = "gone"] /\ Return(p, "ok")
       \/ "db" \in Faults /\ UNCHANGED row /\ Return(p, "err")
    /\ UNCHANGED <<diskVars, status, sum, archive, aside, doomed, disturbed>>

-----------------------------------------------------------------------------
(* The filesystem API and the server itself.                                 *)

\* filesystem.Write: the directory is made if it is missing, the file replaced
\* by a rename.  The server's own process writes too, and it alone makes FIFOs.
Write(t, f, c) ==
    /\ data' = [data EXCEPT ![t] = [(IF @ = None THEN Empty ELSE @) EXCEPT ![f] = c]]
    /\ UNCHANGED <<staging, previous, status, bakVars, opVars, aside, doomed, disturbed>>

\* filesystem.Delete of a file.
Remove(t, f) ==
    /\ data[t] # None
    /\ data[t][f] # None
    /\ data' = [data EXCEPT ![t][f] = None]
    /\ UNCHANGED <<staging, previous, status, bakVars, opVars, aside, doomed, disturbed>>

\* The server is started or stopped meanwhile.
SetStatus(t, st) ==
    /\ status' = [status EXCEPT ![t] = st]
    /\ UNCHANGED <<diskVars, bakVars, opVars, aside, doomed, disturbed>>

\* The daemon dies: calls in flight are gone, files and rows stay.
DaemonCrash ==
    /\ "crash" \in Faults
    /\ opc' = [p \in Ops |-> "idle"]
    /\ tgt' = [p \in Ops |-> None]
    /\ bid' = [p \in Ops |-> None]
    /\ copy' = [p \in Ops |-> None]
    /\ left' = [p \in Ops |-> {}]
    /\ outcome' = [p \in Ops |-> None]
    /\ UNCHANGED <<diskVars, status, bakVars, aside, doomed, disturbed>>

BackupInit ==
    /\ \E c \in Contents : data = [t \in Servers |-> [f \in Files |-> c]]
    /\ staging = [t \in Servers |-> [b \in Backups |-> None]]
    /\ previous = [t \in Servers |-> [b \in Backups |-> None]]
    /\ status = [t \in Servers |-> "stopped"]
    /\ row = [b \in Backups |-> "none"]
    /\ sum = [b \in Backups |-> None]
    /\ archive = [b \in Backups |-> None]
    /\ opc = [p \in Ops |-> "idle"]
    /\ tgt = [p \in Ops |-> None]
    /\ bid = [p \in Ops |-> None]
    /\ copy = [p \in Ops |-> None]
    /\ left = [p \in Ops |-> {}]
    /\ outcome = [p \in Ops |-> None]
    /\ aside = [t \in Servers |-> None]
    /\ doomed = {}
    /\ disturbed = {}

Call(p) ==
    \/ \E t \in Servers, b \in Backups : Create(p, t, b) \/ Restore(p, t, b)
    \/ \E b \in Backups : Delete(p, b)

OpStep(p) ==
    \/ CreateRead(p) \/ CreateRename(p) \/ CreateFail(p) \/ CreateFinish(p)
    \/ RestoreGet(p) \/ RestoreSum(p) \/ RestoreClear(p) \/ RestoreOpen(p)
    \/ RestoreExtract(p) \/ RestoreNet(p) \/ RestoreAside(p) \/ RestoreSwitch(p)
    \/ RestoreUndo(p) \/ RestoreDrop(p) \/ RestoreEnd(p)
    \/ DeleteFile(p) \/ DeleteRow(p)

BackupNext ==
    \/ \E p \in Ops : Call(p) \/ OpStep(p)
    \/ \E t \in Servers, f \in Files :
          Remove(t, f) \/ \E c \in Contents : Write(t, f, c)
    \/ \E t \in Servers, st \in {"stopped", "running"} : SetStatus(t, st)
    \/ DaemonCrash

BackupSpec == BackupInit /\ [][BackupNext]_backupVars

-----------------------------------------------------------------------------
(* Properties.                                                               *)

\* Type invariant of the directories, the backups table and the calls.
BackupTypeOK ==
    /\ data \in [Servers -> Dirs \cup {None}]
    /\ staging \in [Servers -> [Backups -> Dirs \cup {None}]]
    /\ previous \in [Servers -> [Backups -> Dirs \cup {None}]]
    /\ status \in [Servers -> {"stopped", "running"}]
    /\ row \in [Backups -> {"none", "creating", "failed", "completed", "gone"}]
    /\ sum \in [Backups -> Dirs \cup {None}]
    /\ archive \in [Backups -> Dirs \cup {None}]
    /\ opc \in [Ops -> {"idle"} \cup CreatePcs \cup RestorePcs \cup DeletePcs]
    /\ tgt \in [Ops -> Servers \cup {None}]
    /\ bid \in [Ops -> Backups \cup {None}]
    /\ copy \in [Ops -> Dirs \cup {None}]
    /\ left \in [Ops -> SUBSET Files]
    /\ outcome \in [Ops -> {"ok", "err", None}]
    /\ aside \in [Servers -> Dirs \cup {None}]
    /\ doomed \in SUBSET Backups
    /\ disturbed \in SUBSET Servers

\* A backup listed as completed has its archive, with the recorded checksum,
\* whatever was written during the walk and wherever the daemon died, until
\* somebody deletes it.  (That extractArchive accepts it is not said: a FIFO in
\* the directory is archived and refused.)
CompletedHasArchive ==
    \A b \in Backups \ doomed :
        row[b] = "completed" => archive[b] # None /\ archive[b] = sum[b]

\* What a restore is about to move into place is exactly the archive its row
\* vouches for, even when the archive is being deleted and when an earlier
\* attempt, cut off anywhere, left files behind, as long as restores of a server
\* do not overlap.
StagingIsArchive ==
    \A p \in Ops :
        opc[p] = "r_switch" /\ tgt[p] \notin disturbed
          => staging[tgt[p]][bid[p]] = copy[p] /\ copy[p] = sum[bid[p]]

\* Data that a restore has moved aside leaves the disk in three ways only, also
\* when the daemon died between the renames or the undo failed: it is put back,
\* its replacement is in place, or a later restore of the same backup gives it
\* up at a moment when the whole of that backup stands extracted beside it, as
\* long as restores of a server do not overlap.
SafetyNet ==
    [][\A t \in Servers, b \in Backups :
          /\ t \notin disturbed
          /\ previous[t][b] # None
          /\ previous'[t][b] # previous[t][b]
          => \/ data'[t] = previous[t][b]
             \/ aside[t] = None
             \/ staging[t][b] # None /\ staging[t][b] = sum[b]]_backupVars

=============================================================================
