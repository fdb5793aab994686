----------------------------- MODULE UpdateSlots -----------------------------
(***************************************************************************)
(* The versioned binary slots of `oikos update`: internal/update/manager.go *)
(* and slots.go.  A slot is a file <root>/<version>; state.json (the        *)
(* manifest) names the current and the previous version, the symlinks      *)
(* `current` and `previous` repeat it.                                      *)
(*                                                                         *)
(* An updater is one process in Apply or Rollback.  Nothing locks the root, *)
(* so every file operation is a step of its own and a process can be killed *)
(* between any two.  Each file is replaced by a rename, which is atomic.    *)
(* Download, verification, the backup and the temporary files fail without  *)
(* an effect on the slots, so such an attempt is no step at all.            *)
(***************************************************************************)
EXTENDS Naturals, FiniteSets

CONSTANTS Versions,   \* release versions that pass validateVersion
          First,      \* the version installed by hand
          Updaters,   \* processes running Apply or Rollback
          Faults,     \* which failures the environment may inject
          None        \* no version, no file

Binaries == {"good", "bad"}   \* able to pass the health check, or not
Pairs == Versions \X (Versions \cup {None})

ASSUME UpdateAssumption ==
    /\ First \in Versions
    /\ None \notin Versions \cup Pairs \cup (Versions \X Binaries)
    /\ Faults \subseteq {"io", "health", "kill"}

VARIABLES
    slot,        \* what each version's file holds: nothing, a release that can pass
                 \* the health check, or one that cannot
    manifest,    \* state.json: <<current, previous>>, or None before the first save
    curLink,     \* target of the symlink `current`
    prevLink,    \* target of the symlink `previous`, or None
    upc,         \* next step of each updater
    release,     \* release being applied: version and binary
    old, new,    \* the pairs loaded and to be installed
    overlapped,  \* history: two updaters have been at work at once
    cut          \* history: the last switch was cut off between its manifest and its links

diskVars == <<slot, manifest, curLink, prevLink>>
localVars == <<release, old, new>>
slotVars == <<slot, manifest, curLink, prevLink, upc, release, old, new,
              overlapped, cut>>

ApplyPcs == {"remove", "place", "check", "cleanup"}
CommonPcs == {"save", "link", "prevlink", "recheck", "undo_save", "undo_link", "undo_prev"}
\* The manifest is saved and may still be taken back.
UnsettledPcs == {"link", "prevlink", "recheck", "undo_save"}

Applying(p) == release[p] # None

-----------------------------------------------------------------------------
(* slots.go                                                                  *)

\* The manifest is authoritative; without one the links are read.
loadState == IF manifest # None THEN manifest ELSE <<curLink, prevLink>>

Goto(p, next) ==
    /\ upc' = [upc EXCEPT ![p] = next]
    /\ UNCHANGED <<localVars, overlapped, cut>>

\* Apply or Rollback returns; `behind` tells whether it leaves links that do not follow.
Finish(p, behind) ==
    /\ upc' = [upc EXCEPT ![p] = "idle"]
    /\ release' = [release EXCEPT ![p] = None]
    /\ old' = [old EXCEPT ![p] = None]
    /\ new' = [new EXCEPT ![p] = None]
    /\ cut' = behind
    /\ UNCHANGED overlapped

-----------------------------------------------------------------------------
(* manager.go: Apply, up to the commit.                                      *)

Begin(p, first) ==
    /\ upc[p] = "idle"
    /\ curLink # None
    /\ upc' = [upc EXCEPT ![p] = first]
    /\ old' = [old EXCEPT ![p] = loadState]
    /\ overlapped' = (overlapped \/ \E q \in Updaters : upc[q] # "idle")
    /\ UNCHANGED <<diskVars, cut>>

\* MUTANT: only the current version is refused.
ApplyBeginOverPrevious(p, v, b) ==
    /\ v # loadState[1]
    /\ Begin(p, "remove")
    /\ release' = [release EXCEPT ![p] = <<v, b>>]
    /\ new' = [new EXCEPT ![p] = <<v, loadState[1]>>]

\* MUTANT: the previous version is carried over instead of the current one.
ApplyBeginKeepsPrevious(p, v, b) ==
    /\ v \notin {loadState[1], loadState[2]}
    /\ Begin(p, "remove")
    /\ release' = [release EXCEPT ![p] = <<v, b>>]
    /\ new' = [new EXCEPT ![p] = <<v, loadState[2]>>]

\* A verified release of version v, unless v is the current or previous one.
ApplyBegin(p, v, b) ==
    /\ v \notin {loadState[1], loadState[2]}
    /\ Begin(p, "remove")
    /\ release' = [release EXCEPT ![p] = <<v, b>>]
    /\ new' = [new EXCEPT ![p] = <<v, loadState[1]>>]

\* os.RemoveAll(candidate).
ApplyRemove(p) ==
    /\ upc[p] = "remove"
    /\ \/ slot' = [slot EXCEPT ![release[p][1]] = "none"] /\ Goto(p, "place")
       \/ "io" \in Faults /\ UNCHANGED slot /\ Finish(p, cut)
    /\ UNCHANGED <<manifest, curLink, prevLink>>

\* os.Rename(tmpPath, candidate).
ApplyPlace(p) ==
    /\ upc[p] = "place"
    /\ \/ slot' = [slot EXCEPT ![release[p][1]] = release[p][2]] /\ Goto(p, "check")
       \/ "io" \in Faults /\ UNCHANGED slot /\ Finish(p, cut)
    /\ UNCHANGED <<manifest, curLink, prevLink>>

\* Health check of the candidate.  It also looks at SQLite and Docker, so it may
\* fail for a good release.
ApplyCheck(p) ==
    /\ upc[p] = "check"
    /\ \/ slot[release[p][1]] = "good" /\ Goto(p, "save")
       \/ (slot[release[p][1]] # "good" \/ "health" \in Faults) /\ Goto(p, "cleanup")
    /\ UNCHANGED diskVars

\* The deferred removal of a candidate that was not committed, errors ignored.
ApplyCleanup(p) ==
    /\ upc[p] = "cleanup"
    /\ \/ slot' = [slot EXCEPT ![release[p][1]] = "none"]
       \/ "io" \in Faults /\ UNCHANGED slot
    /\ Finish(p, cut)
    /\ UNCHANGED <<manifest, curLink, prevLink>>

-----------------------------------------------------------------------------
(* manager.go: Rollback, and the switch it has in common with Apply.         *)

RollbackBegin(p) ==
    /\ loadState[2] # None
    /\ Begin(p, "save")
    /\ new' = [new EXCEPT ![p] = <<loadState[2], loadState[1]>>]
    /\ UNCHANGED release

\* saveState(newState): the commit.
Save(p) ==
    /\ upc[p] = "save"
    /\ \/ manifest' = new[p] /\ Goto(p, "link")
       \/ /\ "io" \in Faults
          /\ UNCHANGED manifest
          /\ IF Applying(p) THEN Goto(p, "cleanup") ELSE Finish(p, cut)
    /\ UNCHANGED <<slot, curLink, prevLink>>

\* projectState(newState), first half.
Link(p) ==
    /\ upc[p] = "link"
    /\ \/ curLink' = new[p][1] /\ Goto(p, "prevlink")
       \/ "io" \in Faults /\ UNCHANGED curLink /\ Goto(p, "undo_save")
    /\ UNCHANGED <<slot, manifest, prevLink>>

\* projectState(newState), second half; newState always has a previous version.
\* Rollback is done then, Apply still checks the health behind the link.
PrevLink(p) ==
    /\ upc[p] = "prevlink"
    /\ \/ /\ prevLink' = new[p][2]
          /\ IF Applying(p) THEN Goto(p, "recheck") ELSE Finish(p, FALSE)
       \/ "io" \in Faults /\ UNCHANGED prevLink /\ Goto(p, "undo_save")
    /\ UNCHANGED <<slot, manifest, curLink>>

Recheck(p) ==
    /\ upc[p] = "recheck"
    /\ \/ slot[curLink] = "good" /\ Finish(p, FALSE)
       \/ (slot[curLink] # "good" \/ "health" \in Faults) /\ Goto(p, "undo_save")
    /\ UNCHANGED diskVars

-----------------------------------------------------------------------------
(* restoreState(state, cause): save and project the pair loaded at the start. *)

UndoSave(p) ==
    /\ upc[p] = "undo_save"
    /\ \/ manifest' = old[p] /\ Goto(p, "undo_link")
       \/ "io" \in Faults /\ UNCHANGED manifest /\ Finish(p, TRUE)
    /\ UNCHANGED <<slot, curLink, prevLink>>

UndoLink(p) ==
    /\ upc[p] = "undo_link"
    /\ \/ curLink' = old[p][1] /\ Goto(p, "undo_prev")
       \/ "io" \in Faults /\ UNCHANGED curLink /\ Finish(p, TRUE)
    /\ UNCHANGED <<slot, manifest, prevLink>>

\* MUTANT: only `current` is put back.
UndoPrevKeepsLink(p) ==
    /\ upc[p] = "undo_prev"
    /\ Finish(p, FALSE)
    /\ UNCHANGED <<slot, manifest, curLink, prevLink>>

\* Without a previous version the link is removed, and an error of that ignored.
UndoPrev(p) ==
    /\ upc[p] = "undo_prev"
    /\ \/ prevLink' = old[p][2] /\ Finish(p, FALSE)
       \/ "io" \in Faults /\ UNCHANGED prevLink /\ Finish(p, old[p][2] # None)
    /\ UNCHANGED <<slot, manifest, curLink>>

-----------------------------------------------------------------------------
\* An updater process is killed: before the commit, between manifest and links, or when
\* both are in place.
Kill(p) ==
    /\ "kill" \in Faults
    /\ upc[p] # "idle"
    /\ \/ upc[p] \in ApplyPcs \cup {"save"} /\ Finish(p, cut)
       \/ upc[p] \in CommonPcs \ {"save", "recheck"} /\ Finish(p, TRUE)
       \/ upc[p] = "recheck" /\ Finish(p, FALSE)
    /\ UNCHANGED diskVars

SlotInit ==
    /\ slot = [v \in Versions |-> IF v = First THEN "good" ELSE "none"]
    /\ manifest = None
    /\ curLink = First
    /\ prevLink = None
    /\ upc = [p \in Updaters |-> "idle"]
    /\ release = [p \in Updaters |-> None]
    /\ old = [p \in Updaters |-> None]
    /\ new = [p \in Updaters |-> None]
    /\ overlapped = FALSE
    /\ cut = FALSE

UpdaterStep(p) ==
    \/ ApplyRemove(p) \/ ApplyPlace(p) \/ ApplyCheck(p) \/ ApplyCleanup(p)
    \/ Save(p) \/ Link(p) \/ PrevLink(p) \/ Recheck(p)
    \/ UndoSave(p) \/ UndoLink(p) \/ UndoPrev(p)

SlotNext ==
    \/ \E p \in Updaters :
          \/ \E v \in Versions, b \in Binaries : ApplyBegin(p, v, b)
          \/ RollbackBegin(p)
          \/ UpdaterStep(p)
          \/ Kill(p)

SlotSpec == SlotInit /\ [][SlotNext]_slotVars

-----------------------------------------------------------------------------
(* Properties.                                                               *)

\* Type invariant of the slot root and the updater processes.
SlotTypeOK ==
    /\ slot \in [Versions -> Binaries \cup {"none"}]
    /\ manifest \in Pairs \cup {None}
    /\ curLink \in Versions
    /\ prevLink \in Versions \cup {None}
    /\ upc \in [Updaters -> {"idle"} \cup ApplyPcs \cup CommonPcs]
    /\ release \in [Updaters -> (Versions \X Binaries) \cup {None}]
    /\ old \in [Updaters -> Pairs \cup {None}]
    /\ new \in [Updaters -> Pairs \cup {None}]
    /\ overlapped \in BOOLEAN /\ cut \in BOOLEAN

\* Whatever is killed or fails, and wherever, the versions the manifest names
\* are on disk and passed their health check, as long as updaters take turns:
\* there is always a current release to run and a previous one to go back to.
ActiveSlotsIntact ==
    ~overlapped => \A v \in {loadState[1], loadState[2]} \ {None} : slot[v] = "good"

\* The links name the versions of a pair.  Of one without a previous version a stale
\* `previous` may be left: the error of os.Remove is ignored (slots.go:106).
Follow(pair) == curLink = pair[1] /\ (pair[2] # None => prevLink = pair[2])

\* With updaters that take turns the links follow the manifest whenever no updater is at
\* work, after updates that were undone, too.  A kill or a failed undo between manifest
\* and links (manager.go:104) leaves them apart; the next switch or undo that gets
\* through brings them together again, wherever they had been left.
LinksFollowManifest ==
    ~overlapped /\ ~cut /\ (\A p \in Updaters : upc[p] = "idle") => Follow(loadState)

Switching == {p \in Updaters : upc[p] \in UnsettledPcs}

\* What loadState returns, and with it what the next update or rollback starts from, is
\* one pair that switches atomically, kills and failures included.  (It is state.json
\* alone, after the first save; the links come after, see LinksFollowManifest.)
Abstract == INSTANCE SlotPair
    WITH pair <- loadState,
         prior <- IF Switching = {} THEN None ELSE old[CHOOSE p \in Switching : TRUE]
AtomicPair == Abstract!PairSpec

=============================================================================
