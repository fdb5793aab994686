-------------------------- MODULE UpdateSlotsProofs --------------------------
(***************************************************************************)
(* Proofs about UpdateSlots, for any set of versions, any number of        *)
(* updaters and any set of faults.                                          *)
(***************************************************************************)
EXTENDS UpdateSlots, TLAPS

\* An updater knows both pairs while it runs; only Apply has a release, and at
\* the steps that touch the candidate it does.
UpdatersOK ==
    \A p \in Updaters :
        /\ upc[p] # "idle" => old[p] \in Pairs /\ new[p] \in Pairs /\ new[p][2] # None
        /\ upc[p] \in ApplyPcs \cup {"recheck"} => release[p] # None
        /\ upc[p] = "idle" => release[p] = None

SlotTyped == SlotTypeOK /\ UpdatersOK

\* What loadState answers is a pair.
LEMMA LoadStateType == ASSUME SlotTyped PROVE loadState \in Pairs
  BY DEF SlotTyped, SlotTypeOK, loadState, Pairs

\* Returning from Apply or Rollback keeps the locals well-typed.
LEMMA FinishTyped ==
    ASSUME SlotTyped, NEW p \in Updaters, NEW b \in BOOLEAN, Finish(p, b)
    PROVE  /\ upc' \in [Updaters -> {"idle"} \cup ApplyPcs \cup CommonPcs]
           /\ release' \in [Updaters -> (Versions \X Binaries) \cup {None}]
           /\ old' \in [Updaters -> Pairs \cup {None}]
           /\ new' \in [Updaters -> Pairs \cup {None}]
           /\ overlapped' \in BOOLEAN /\ cut' \in BOOLEAN
           /\ UpdatersOK'
<1>1. /\ upc' \in [Updaters -> {"idle"} \cup ApplyPcs \cup CommonPcs]
      /\ release' \in [Updaters -> (Versions \X Binaries) \cup {None}]
      /\ old' \in [Updaters -> Pairs \cup {None}]
      /\ new' \in [Updaters -> Pairs \cup {None}]
  BY DEF Finish, SlotTyped, SlotTypeOK
<1>2. overlapped' \in BOOLEAN /\ cut' \in BOOLEAN
  BY DEF Finish, SlotTyped, SlotTypeOK
<1>3. UpdatersOK'
  BY DEF Finish, SlotTyped, SlotTypeOK, UpdatersOK, ApplyPcs
<1>4. QED BY <1>1, <1>2, <1>3

\* Going on to the next step does, too.
LEMMA GotoTyped ==
    ASSUME SlotTyped, NEW p \in Updaters, NEW next \in ApplyPcs \cup CommonPcs,
           upc[p] # "idle", next \in ApplyPcs \cup {"recheck"} => release[p] # None,
           Goto(p, next)
    PROVE  /\ upc' \in [Updaters -> {"idle"} \cup ApplyPcs \cup CommonPcs]
           /\ release' \in [Updaters -> (Versions \X Binaries) \cup {None}]
           /\ old' \in [Updaters -> Pairs \cup {None}]
           /\ new' \in [Updaters -> Pairs \cup {None}]
           /\ overlapped' \in BOOLEAN /\ cut' \in BOOLEAN
           /\ UpdatersOK'
<1>1. "idle" \notin ApplyPcs \cup CommonPcs
  BY DEF ApplyPcs, CommonPcs
<1>2. UpdatersOK'
  BY <1>1 DEF Goto, localVars, SlotTyped, SlotTypeOK, UpdatersOK
<1>3. QED BY <1>2 DEF Goto, localVars, SlotTyped, SlotTypeOK

\* Well-typedness is inductive.
LEMMA SlotNextTyped == SlotTyped /\ [SlotNext]_slotVars => SlotTyped'
<1> SUFFICES ASSUME SlotTyped, [SlotNext]_slotVars PROVE SlotTyped'
  OBVIOUS
<1> USE UpdateAssumption
<1> DEFINE Locals == /\ upc' \in [Updaters -> {"idle"} \cup ApplyPcs \cup CommonPcs]
                     /\ release' \in [Updaters -> (Versions \X Binaries) \cup {None}]
                     /\ old' \in [Updaters -> Pairs \cup {None}]
                     /\ new' \in [Updaters -> Pairs \cup {None}]
                     /\ overlapped' \in BOOLEAN /\ cut' \in BOOLEAN
                     /\ UpdatersOK'
           Disk == /\ slot' \in [Versions -> Binaries \cup {"none"}]
                   /\ manifest' \in Pairs \cup {None}
                   /\ curLink' \in Versions
                   /\ prevLink' \in Versions \cup {None}
<1>1. Locals /\ Disk => SlotTyped'
  BY DEF SlotTyped, SlotTypeOK
<1>2. UNCHANGED diskVars => Disk
  BY DEF diskVars, SlotTyped, SlotTypeOK
<1>3. ASSUME NEW p \in Updaters, NEW first \in {"remove", "save"}, Begin(p, first),
             NEW x \in Pairs, x[2] # None, new' = [new EXCEPT ![p] = x],
             \/ first = "remove" /\ \E v \in Versions, b \in Binaries :
                                       release' = [release EXCEPT ![p] = <<v, b>>]
             \/ first = "save" /\ UNCHANGED release
      PROVE  SlotTyped'
  <2>1. loadState \in Pairs
    BY LoadStateType
  <2>2. /\ upc' \in [Updaters -> {"idle"} \cup ApplyPcs \cup CommonPcs]
        /\ old' \in [Updaters -> Pairs \cup {None}]
        /\ new' \in [Updaters -> Pairs \cup {None}]
    BY <1>3, <2>1 DEF Begin, SlotTyped, SlotTypeOK, ApplyPcs, CommonPcs
  <2>3. release' \in [Updaters -> (Versions \X Binaries) \cup {None}]
    BY <1>3 DEF SlotTyped, SlotTypeOK
  <2>4. overlapped' \in BOOLEAN /\ cut' \in BOOLEAN
    BY <1>3 DEF Begin, SlotTyped, SlotTypeOK
  <2>5. first = "remove" => release'[p] # None
    BY <1>3 DEF SlotTyped, SlotTypeOK
  <2>6. \A q \in Updaters : q # p => /\ upc'[q] = upc[q] /\ old'[q] = old[q]
                                     /\ new'[q] = new[q] /\ release'[q] = release[q]
    BY <1>3 DEF Begin, SlotTyped, SlotTypeOK
  <2>7. old'[p] = loadState /\ new'[p] = x /\ upc'[p] = first
    BY <1>3 DEF Begin, SlotTyped, SlotTypeOK
  <2>8. UpdatersOK'
    BY <1>3, <2>1, <2>5, <2>6, <2>7 DEF SlotTyped, UpdatersOK, ApplyPcs
  <2>9. QED BY <1>1, <1>2, <1>3, <2>2, <2>3, <2>4, <2>8 DEF Begin
<1>4. ASSUME NEW p \in Updaters, NEW v \in Versions, NEW b \in Binaries, ApplyBegin(p, v, b)
      PROVE  SlotTyped'
  <2>1. <<v, loadState[1]>> \in Pairs /\ <<v, loadState[1]>>[2] # None
    BY LoadStateType DEF Pairs
  <2>2. QED BY <1>3, <1>4, <2>1 DEF ApplyBegin
<1>5. ASSUME NEW p \in Updaters, RollbackBegin(p) PROVE SlotTyped'
  <2>1. <<loadState[2], loadState[1]>> \in Pairs /\ <<loadState[2], loadState[1]>>[2] # None
    BY <1>5, LoadStateType DEF RollbackBegin, Pairs
  <2>2. QED BY <1>3, <1>5, <2>1 DEF RollbackBegin
<1>6. ASSUME NEW p \in Updaters, UpdaterStep(p) \/ Kill(p) PROVE Locals
  <2>1. upc[p] # "idle"
    BY <1>6 DEF UpdaterStep, Kill, ApplyRemove, ApplyPlace, ApplyCheck, ApplyCleanup, Save,
       Link, PrevLink, Recheck, UndoSave, UndoLink, UndoPrev
  <2>2. Finish(p, TRUE) \/ Finish(p, FALSE) \/ Finish(p, cut) => Locals
    <3>1. cut \in BOOLEAN
      BY DEF SlotTyped, SlotTypeOK
    <3>2. QED BY <3>1, FinishTyped
  <2>3. ASSUME NEW next \in ApplyPcs \cup CommonPcs, Goto(p, next),
               next \in ApplyPcs \cup {"recheck"} => release[p] # None
        PROVE  Locals
    BY <2>1, <2>3, GotoTyped
  <2>4. upc[p] \in ApplyPcs => release[p] # None
    BY DEF SlotTyped, UpdatersOK
  <2> HIDE DEF Locals
  <2>5. CASE Kill(p)
    BY <2>2, <2>5 DEF Kill
  <2>6. CASE ApplyRemove(p) \/ ApplyPlace(p) \/ ApplyCheck(p) \/ ApplyCleanup(p)
    BY <2>2, <2>3, <2>4, <2>6 DEF ApplyRemove, ApplyPlace, ApplyCheck, ApplyCleanup, ApplyPcs,
       CommonPcs
  <2>7. CASE Save(p) \/ Link(p) \/ PrevLink(p) \/ Recheck(p)
    BY <2>2, <2>3, <2>7 DEF Save, Link, PrevLink, Recheck, Applying, ApplyPcs, CommonPcs
  <2>8. CASE UndoSave(p) \/ UndoLink(p) \/ UndoPrev(p)
    BY <2>2, <2>3, <2>8 DEF UndoSave, UndoLink, UndoPrev, ApplyPcs, CommonPcs
  <2>9. QED BY <1>6, <2>5, <2>6, <2>7, <2>8 DEF UpdaterStep
<1>7. ASSUME NEW p \in Updaters, UpdaterStep(p) \/ Kill(p) PROVE Disk
  <2>1. upc[p] # "idle" => old[p] \in Pairs /\ new[p] \in Pairs
    BY DEF SlotTyped, UpdatersOK
  <2>2. upc[p] \in ApplyPcs => release[p] \in Versions \X Binaries
    BY DEF SlotTyped, SlotTypeOK, UpdatersOK
  <2>3. CASE ApplyRemove(p) \/ ApplyPlace(p) \/ ApplyCleanup(p)
    BY <2>2, <2>3 DEF ApplyRemove, ApplyPlace, ApplyCleanup, ApplyPcs, SlotTyped, SlotTypeOK
  <2>4. CASE ApplyCheck(p) \/ Recheck(p) \/ Kill(p)
    BY <1>2, <2>4 DEF ApplyCheck, Recheck, Kill
  <2>5. CASE Save(p) \/ Link(p) \/ PrevLink(p)
    BY <2>1, <2>5 DEF Save, Link, PrevLink, SlotTyped, SlotTypeOK, Pairs
  <2>6. CASE UndoSave(p) \/ UndoLink(p) \/ UndoPrev(p)
    BY <2>1, <2>6 DEF UndoSave, UndoLink, UndoPrev, SlotTyped, SlotTypeOK, Pairs
  <2>7. QED BY <1>7, <2>3, <2>4, <2>5, <2>6 DEF UpdaterStep
<1>8. CASE UNCHANGED slotVars
  BY <1>8 DEF slotVars, diskVars, localVars, SlotTyped, SlotTypeOK,
     UpdatersOK
<1>9. QED BY <1>1, <1>4, <1>5, <1>6, <1>7, <1>8 DEF SlotNext

\* The slot root and the updaters' locals keep their types.
THEOREM SlotTypeCorrect == SlotSpec => []SlotTypeOK
<1>1. SlotInit => SlotTyped
  <2> SUFFICES ASSUME SlotInit PROVE SlotTyped
    OBVIOUS
  <2> USE UpdateAssumption DEF SlotInit
  <2>1. slot \in [Versions -> Binaries \cup {"none"}]
    BY DEF Binaries
  <2>2. overlapped \in BOOLEAN /\ cut \in BOOLEAN
    OBVIOUS
  <2>3. UpdatersOK
    BY DEF UpdatersOK, ApplyPcs
  <2>4. QED BY <2>1, <2>2, <2>3 DEF SlotTyped, SlotTypeOK
<1>2. SlotSpec => []SlotTyped
  BY <1>1, SlotNextTyped, PTL DEF SlotSpec
<1>3. SlotTyped => SlotTypeOK
  BY DEF SlotTyped
<1>4. QED BY <1>2, <1>3, PTL

-----------------------------------------------------------------------------
(* The slots the manifest names stay intact while updaters take turns.       *)

Good(x) == \A v \in {x[1], x[2]} \ {None} : slot[v] = "good"

TakeTurns == \A p, q \in Updaters : upc[p] # "idle" /\ upc[q] # "idle" => p = q

\* What the one updater at work knows: the candidate is a slot outside the pair
\* it loaded, that pair is the active one until the manifest is saved, and the
\* pair it installs is good from the health check on.
UpdaterView(p) ==
    /\ Good(old[p])
    /\ release[p] # None => /\ release[p][1] \notin {old[p][1], old[p][2]}
                            /\ new[p] = <<release[p][1], old[p][1]>>
    /\ release[p] = None => new[p] = <<old[p][2], old[p][1]>> /\ old[p][2] # None
    /\ upc[p] \in ApplyPcs \cup {"save"} => loadState = old[p]
    /\ upc[p] \in CommonPcs => Good(new[p])
    /\ upc[p] \in UnsettledPcs => manifest = new[p]
    /\ upc[p] \in {"undo_link", "undo_prev"} => manifest = old[p]

SlotInv ==
    ~overlapped => /\ TakeTurns
                   /\ Good(loadState)
                   /\ \A p \in Updaters : upc[p] # "idle" => UpdaterView(p)

\* SlotInv is inductive: every write before the commit hits a slot outside the
\* active pair, every write after it leaves the manifest with a good pair.
LEMMA SlotNextInv == SlotTyped /\ SlotInv /\ [SlotNext]_slotVars => SlotInv'
<1> SUFFICES ASSUME SlotTyped, SlotInv, [SlotNext]_slotVars, ~overlapped' PROVE
        TakeTurns' /\ Good(loadState)' /\ \A p \in Updaters : upc'[p] # "idle" => UpdaterView(p)'
  BY DEF SlotInv
<1> USE UpdateAssumption
<1> DEFINE Goal == /\ TakeTurns' /\ Good(loadState)'
                   /\ \A p \in Updaters : upc'[p] # "idle" => UpdaterView(p)'
<1>1. ~overlapped
  <2>1. ASSUME NEW p \in Updaters, NEW first, Begin(p, first) PROVE ~overlapped
    BY <2>1 DEF Begin
  <2>2. ASSUME NEW p \in Updaters,
               (\E b : Finish(p, b)) \/ (\E next : Goto(p, next))
        PROVE  ~overlapped
    BY <2>2 DEF Finish, Goto
  <2>3. ASSUME NEW p \in Updaters, UpdaterStep(p) \/ Kill(p) PROVE ~overlapped
    BY <2>2, <2>3 DEF UpdaterStep, Kill, ApplyRemove, ApplyPlace, ApplyCheck, ApplyCleanup, Save,
       Link, PrevLink, Recheck, UndoSave, UndoLink, UndoPrev
  <2>4. CASE UNCHANGED slotVars
    BY <2>4 DEF slotVars
  <2>5. QED BY <2>1, <2>3, <2>4 DEF SlotNext, ApplyBegin, RollbackBegin
<1>2. /\ TakeTurns /\ Good(loadState)
      /\ \A p \in Updaters : upc[p] # "idle" => UpdaterView(p)
  BY <1>1 DEF SlotInv
<1>3. ASSUME NEW p \in Updaters, NEW v \in Versions, NEW b \in Binaries, ApplyBegin(p, v, b)
      PROVE  Goal
  <2>1. \A q \in Updaters : upc[q] = "idle"
    BY <1>3 DEF ApplyBegin, Begin
  <2>2. /\ upc'[p] = "remove" /\ old'[p] = loadState /\ release'[p] = <<v, b>>
        /\ new'[p] = <<v, loadState[1]>> /\ UNCHANGED diskVars
        /\ \A q \in Updaters : q # p => upc'[q] = "idle"
    BY <1>3, <2>1 DEF ApplyBegin, Begin, SlotTyped, SlotTypeOK
  <2>3. loadState' = loadState /\ release'[p] # None
    BY <2>2 DEF diskVars, loadState
  <2>4. Good(loadState)' /\ Good(old[p])'
    BY <1>2, <2>2, <2>3 DEF Good, diskVars
  <2>5. UpdaterView(p)'
    BY <1>3, <2>2, <2>3, <2>4 DEF UpdaterView, ApplyBegin, CommonPcs, UnsettledPcs
  <2>6. QED BY <2>2, <2>4, <2>5 DEF TakeTurns
<1>4. ASSUME NEW p \in Updaters, RollbackBegin(p) PROVE Goal
  <2>1. \A q \in Updaters : upc[q] = "idle"
    BY <1>4 DEF RollbackBegin, Begin
  <2>2. /\ upc'[p] = "save" /\ old'[p] = loadState /\ release'[p] = None
        /\ new'[p] = <<loadState[2], loadState[1]>> /\ UNCHANGED diskVars
        /\ \A q \in Updaters : q # p => upc'[q] = "idle"
    BY <1>4, <2>1 DEF RollbackBegin, Begin, SlotTyped, SlotTypeOK, UpdatersOK
  <2>3. loadState' = loadState
    BY <2>2 DEF diskVars, loadState
  <2>4. Good(loadState)' /\ Good(old[p])' /\ Good(new[p])'
    BY <1>2, <2>2, <2>3 DEF Good, diskVars
  <2>5. UpdaterView(p)'
    BY <1>4, <2>2, <2>3, <2>4 DEF UpdaterView, RollbackBegin, UnsettledPcs
  <2>6. QED BY <2>2, <2>4, <2>5 DEF TakeTurns
<1>5. ASSUME NEW p \in Updaters, NEW b, Finish(p, b), upc[p] # "idle", Good(loadState)'
      PROVE  Goal
  <2>1. \A q \in Updaters : upc'[q] = "idle"
    BY <1>2, <1>5 DEF Finish, TakeTurns, SlotTyped, SlotTypeOK
  <2>2. QED BY <1>5, <2>1 DEF TakeTurns
<1>6. ASSUME NEW p \in Updaters, NEW next, Goto(p, next), upc[p] # "idle", Good(loadState)',
             UpdaterView(p)'
      PROVE  Goal
  <2>1. \A q \in Updaters : q # p => upc'[q] = "idle"
    BY <1>2, <1>6 DEF Goto, TakeTurns, SlotTyped, SlotTypeOK
  <2>2. QED BY <1>6, <2>1 DEF TakeTurns
<1>7. ASSUME NEW p \in Updaters, UpdaterStep(p) \/ Kill(p) PROVE Goal
  <2> HIDE DEF Goal
  <2>1. upc[p] # "idle" /\ UpdaterView(p)
    BY <1>2, <1>7 DEF UpdaterStep, Kill, ApplyRemove, ApplyPlace, ApplyCheck, ApplyCleanup, Save,
       Link, PrevLink, Recheck, UndoSave, UndoLink, UndoPrev
  <2>2. /\ old[p] \in Pairs /\ new[p] \in Pairs
        /\ upc[p] \in ApplyPcs => release[p] \in Versions \X Binaries /\ release[p] # None
        /\ loadState \in Pairs
    BY <2>1, LoadStateType DEF SlotTyped, SlotTypeOK, UpdatersOK
  <2>3. ASSUME NEW next, Goto(p, next) PROVE
          upc'[p] = next /\ release'[p] = release[p] /\ old'[p] = old[p] /\ new'[p] = new[p]
    BY <2>3 DEF Goto, localVars, SlotTyped, SlotTypeOK
  <2>4. CASE /\ ApplyRemove(p) \/ ApplyPlace(p) \/ ApplyCleanup(p)
             /\ \E x \in Binaries \cup {"none"} : slot' = [slot EXCEPT ![release[p][1]] = x]
    <3>1. upc[p] \in ApplyPcs /\ UNCHANGED <<manifest, curLink, prevLink>>
      BY <2>4 DEF ApplyRemove, ApplyPlace, ApplyCleanup, ApplyPcs
    <3>2. loadState = old[p] /\ loadState' = loadState
          /\ release[p][1] \notin {old[p][1], old[p][2]}
      BY <2>1, <2>2, <3>1 DEF UpdaterView, loadState
    <3>3. \A v \in Versions : v # release[p][1] => slot'[v] = slot[v]
      BY <2>2, <2>4, <3>1 DEF SlotTyped, SlotTypeOK
    <3>4. Good(loadState)'
      BY <1>2, <2>2, <3>2, <3>3 DEF Good, Pairs
    <3>5. ASSUME NEW next \in {"place", "check"}, Goto(p, next) PROVE UpdaterView(p)'
      <4>1. /\ upc'[p] = next /\ release'[p] = release[p] /\ old'[p] = old[p]
            /\ new'[p] = new[p]
        BY <2>3, <3>5
      <4>2. Good(old[p])'
        BY <3>2, <3>4, <4>1 DEF Good
      <4>3. QED
        BY <2>1, <3>1, <3>2, <4>1, <4>2 DEF UpdaterView, CommonPcs, UnsettledPcs, ApplyPcs
    <3>6. QED
      BY <1>5, <1>6, <2>1, <2>4, <3>4, <3>5 DEF ApplyRemove, ApplyPlace, ApplyCleanup
  <2>5. CASE UNCHANGED <<slot, manifest, curLink, prevLink>>
    <3>1. loadState' = loadState /\ Good(loadState)'
      BY <1>2, <2>5 DEF loadState, Good
    <3>2. ASSUME NEW b, Finish(p, b) PROVE Goal
      BY <1>5, <2>1, <3>1, <3>2
    <3>3. ASSUME NEW next \in {"cleanup", "save", "undo_save"}, Goto(p, next),
                 next = "cleanup" => upc[p] \in {"check", "save"},
                 next = "save" => upc[p] = "check" /\ slot[release[p][1]] = "good",
                 next = "undo_save" => upc[p] \in UnsettledPcs
          PROVE  Goal
      <4>1. /\ upc'[p] = next /\ release'[p] = release[p] /\ old'[p] = old[p]
            /\ new'[p] = new[p]
        BY <2>3, <3>3
      <4>2. Good(old[p])'
        BY <2>1, <2>5, <4>1 DEF UpdaterView, Good
      <4>3. next = "save" => Good(new[p])'
        BY <2>1, <2>2, <2>5, <3>3, <4>1 DEF UpdaterView, Good, ApplyPcs, Pairs
      <4>4. next = "undo_save" => Good(new[p])'
        BY <2>1, <2>5, <3>3, <4>1 DEF UpdaterView, Good, CommonPcs, UnsettledPcs
      <4>5. UpdaterView(p)'
        BY <2>1, <2>5, <3>1, <3>3, <4>1, <4>2, <4>3, <4>4
           DEF UpdaterView, CommonPcs, UnsettledPcs, ApplyPcs
      <4>6. QED BY <1>6, <2>1, <3>1, <3>3, <4>5
    <3>4. CASE Kill(p)
      BY <3>2, <3>4 DEF Kill
    <3>5. CASE ApplyRemove(p) \/ ApplyPlace(p) \/ ApplyCleanup(p)
      <4>1. CASE \E b : Finish(p, b)
        BY <3>2, <4>1
      <4>2. CASE \E x \in Binaries \cup {"none"} : slot' = [slot EXCEPT ![release[p][1]] = x]
        BY <2>4, <3>5, <4>2
      <4>3. release[p][2] \in Binaries
        BY <2>2, <3>5 DEF ApplyRemove, ApplyPlace, ApplyCleanup, ApplyPcs
      <4>4. QED BY <3>5, <4>1, <4>2, <4>3 DEF ApplyRemove, ApplyPlace, ApplyCleanup
    <3>6. CASE ApplyCheck(p) \/ Recheck(p)
      BY <3>2, <3>3, <3>6 DEF ApplyCheck, Recheck, UnsettledPcs
    <3>7. CASE Save(p) \/ Link(p) \/ PrevLink(p) \/ UndoSave(p) \/ UndoLink(p) \/ UndoPrev(p)
      <4>1. CASE (\E b : Finish(p, b)) \/ Goto(p, "cleanup") \/ Goto(p, "undo_save")
        BY <3>2, <3>3, <3>7, <4>1 DEF Save, Link, PrevLink, UndoSave, UndoLink, UndoPrev,
           UnsettledPcs, Goto, Finish, SlotTyped, SlotTypeOK
      <4>2. CASE ~((\E b : Finish(p, b)) \/ Goto(p, "cleanup") \/ Goto(p, "undo_save"))
        <5>1. \E next \in {"link", "prevlink", "recheck", "undo_link", "undo_prev"} :
                /\ Goto(p, next)
                /\ next = "link" => upc[p] = "save" /\ manifest' = new[p]
                /\ next = "undo_link" => upc[p] = "undo_save" /\ manifest' = old[p]
                /\ next = "prevlink" => upc[p] = "link"
                /\ next = "recheck" => upc[p] = "prevlink"
                /\ next = "undo_prev" => upc[p] = "undo_link"
          BY <3>7, <4>2 DEF Save, Link, PrevLink, UndoSave, UndoLink, UndoPrev
        <5>2. PICK next \in {"link", "prevlink", "recheck", "undo_link", "undo_prev"} :
                /\ Goto(p, next)
                /\ next = "link" => upc[p] = "save" /\ manifest' = new[p]
                /\ next = "undo_link" => upc[p] = "undo_save" /\ manifest' = old[p]
                /\ next = "prevlink" => upc[p] = "link"
                /\ next = "recheck" => upc[p] = "prevlink"
                /\ next = "undo_prev" => upc[p] = "undo_link"
          BY <5>1
        <5>3. /\ upc'[p] = next /\ release'[p] = release[p] /\ old'[p] = old[p]
              /\ new'[p] = new[p]
          BY <2>3, <5>2
        <5>4. Good(old[p])' /\ Good(new[p])'
          BY <2>1, <2>5, <5>2, <5>3 DEF UpdaterView, Good, CommonPcs
        <5>5. UpdaterView(p)'
          BY <2>1, <2>5, <5>2, <5>3, <5>4 DEF UpdaterView, ApplyPcs, CommonPcs, UnsettledPcs
        <5>6. QED BY <1>6, <2>1, <3>1, <5>2, <5>5
      <4>3. QED BY <4>1, <4>2
    <3>8. QED BY <1>7, <3>4, <3>5, <3>6, <3>7 DEF UpdaterStep
  <2>6. CASE Save(p) /\ manifest' = new[p] /\ Goto(p, "link")
    <3>1. loadState' = new[p] /\ UNCHANGED slot
      BY <2>2, <2>6 DEF Save, loadState
    <3>2. /\ upc'[p] = "link" /\ release'[p] = release[p] /\ old'[p] = old[p]
          /\ new'[p] = new[p]
      BY <2>3, <2>6
    <3>3. Good(new[p]) /\ Good(old[p])
      BY <2>1, <2>6 DEF Save, UpdaterView, CommonPcs
    <3>4. Good(loadState)' /\ Good(new[p])' /\ Good(old[p])'
      BY <3>1, <3>2, <3>3 DEF Good
    <3>5. UpdaterView(p)'
      BY <2>1, <2>6, <3>2, <3>4 DEF UpdaterView, ApplyPcs, UnsettledPcs
    <3>6. QED BY <1>6, <2>1, <2>6, <3>4, <3>5
  <2>7. CASE UndoSave(p) /\ manifest' = old[p] /\ Goto(p, "undo_link")
    <3>1. loadState' = old[p] /\ UNCHANGED slot
      BY <2>2, <2>7 DEF UndoSave, loadState
    <3>2. /\ upc'[p] = "undo_link" /\ release'[p] = release[p] /\ old'[p] = old[p]
          /\ new'[p] = new[p]
      BY <2>3, <2>7
    <3>3. Good(new[p]) /\ Good(old[p])
      BY <2>1, <2>7 DEF UndoSave, UpdaterView, CommonPcs
    <3>4. Good(loadState)' /\ Good(new[p])' /\ Good(old[p])'
      BY <3>1, <3>2, <3>3 DEF Good
    <3>5. UpdaterView(p)'
      BY <2>1, <2>7, <3>2, <3>4 DEF UpdaterView, ApplyPcs, UnsettledPcs
    <3>6. QED BY <1>6, <2>1, <2>7, <3>4, <3>5
  <2>8. CASE Link(p) \/ PrevLink(p) \/ UndoLink(p) \/ UndoPrev(p)
    <3>1. manifest # None /\ UNCHANGED <<slot, manifest>>
      BY <2>1, <2>2, <2>8 DEF Link, PrevLink, UndoLink, UndoPrev, UpdaterView, UnsettledPcs
    <3>2. loadState' = loadState /\ Good(loadState)'
      BY <1>2, <3>1 DEF loadState, Good
    <3>3. CASE \E b : Finish(p, b)
      BY <1>5, <2>1, <3>2, <3>3
    <3>4. ASSUME NEW next \in {"prevlink", "recheck", "undo_save", "undo_prev"}, Goto(p, next),
                 next \in UnsettledPcs => upc[p] \in UnsettledPcs,
                 next = "undo_prev" => upc[p] = "undo_link"
          PROVE  Goal
      <4>1. /\ upc'[p] = next /\ release'[p] = release[p] /\ old'[p] = old[p]
            /\ new'[p] = new[p]
        BY <2>3, <3>4
      <4>2. Good(old[p])' /\ Good(new[p])'
        BY <2>1, <2>8, <3>1, <4>1 DEF UpdaterView, Good, CommonPcs, Link, PrevLink, UndoLink,
           UndoPrev
      <4>3. UpdaterView(p)'
        BY <2>1, <3>1, <3>2, <3>4, <4>1, <4>2 DEF UpdaterView, ApplyPcs, CommonPcs, UnsettledPcs
      <4>4. QED BY <1>6, <2>1, <3>2, <3>4, <4>3
    <3>5. QED
      BY <2>8, <3>3, <3>4 DEF Link, PrevLink, UndoLink, UndoPrev, UnsettledPcs
  <2>9. CASE ApplyRemove(p) \/ ApplyPlace(p) \/ ApplyCleanup(p)
    <3>1. release[p][2] \in Binaries
      BY <2>2, <2>9 DEF ApplyRemove, ApplyPlace, ApplyCleanup, ApplyPcs
    <3>2. QED BY <2>4, <2>5, <2>9, <3>1 DEF ApplyRemove, ApplyPlace, ApplyCleanup
  <2>10. QED
    BY <1>7, <2>5, <2>6, <2>7, <2>8, <2>9 DEF UpdaterStep, Kill, ApplyCheck, Recheck, Save,
       UndoSave, diskVars
<1>8. CASE UNCHANGED slotVars
  <2>1. UNCHANGED <<slot, manifest, curLink, prevLink, upc, release, old, new>>
    BY <1>8 DEF slotVars, diskVars, localVars
  <2>2. QED
    BY <1>2, <2>1 DEF TakeTurns, Good, loadState, UpdaterView
<1>9. QED BY <1>3, <1>4, <1>7, <1>8 DEF SlotNext

\* SlotInv holds in every behaviour.
LEMMA SlotAlwaysInv == SlotSpec => [](SlotTyped /\ SlotInv)
<1>1. SlotInit => SlotTyped
  <2> SUFFICES ASSUME SlotInit PROVE SlotTyped
    OBVIOUS
  <2> USE UpdateAssumption DEF SlotInit
  <2>1. slot \in [Versions -> Binaries \cup {"none"}]
    BY DEF Binaries
  <2>2. overlapped \in BOOLEAN /\ cut \in BOOLEAN
    OBVIOUS
  <2>3. UpdatersOK
    BY DEF UpdatersOK, ApplyPcs
  <2>4. QED BY <2>1, <2>2, <2>3 DEF SlotTyped, SlotTypeOK
<1>2. SlotInit => SlotInv
  BY UpdateAssumption DEF SlotInit, SlotInv, TakeTurns, Good, loadState
<1>3. QED BY <1>1, <1>2, SlotNextTyped, SlotNextInv, PTL DEF SlotSpec

\* However an update or a rollback is killed or fails, the current and previous
\* releases the manifest names are on disk and healthy, for any number of
\* versions and any number of updaters that take turns.
THEOREM ActiveSlotsIntactCorrect == SlotSpec => []ActiveSlotsIntact
<1>1. SlotInv => ActiveSlotsIntact
  BY DEF SlotInv, ActiveSlotsIntact, Good
<1>2. QED BY <1>1, SlotAlwaysInv, PTL

-----------------------------------------------------------------------------
(* The links follow the manifest.                                            *)

\* Where the links are at each step of the one updater at work: at the old pair
\* until the manifest is saved, then one of them after the other at the new pair,
\* anywhere while an undo has still to come by, and back with the last link.
LinkView(p) ==
    /\ ~cut /\ upc[p] \in ApplyPcs \cup {"save", "link"} => Follow(old[p])
    /\ upc[p] = "prevlink" => curLink = new[p][1]
    /\ upc[p] = "recheck" => Follow(new[p])
    /\ upc[p] = "undo_prev" => curLink = old[p][1]

AllIdle == \A p \in Updaters : upc[p] = "idle"

LinksInv ==
    ~overlapped => /\ ~cut /\ AllIdle => Follow(loadState)
                   /\ \A p \in Updaters : upc[p] # "idle" => LinkView(p)

\* An updater never turns the history of overlaps back.
LEMMA HistoryStays == ASSUME SlotTyped, [SlotNext]_slotVars, ~overlapped' PROVE ~overlapped
<1>1. ASSUME NEW p \in Updaters, NEW first, Begin(p, first) PROVE ~overlapped
  BY <1>1 DEF Begin
<1>2. ASSUME NEW p \in Updaters,
             (\E b : Finish(p, b)) \/ (\E next : Goto(p, next))
      PROVE  ~overlapped
  BY <1>2 DEF Finish, Goto
<1>3. ASSUME NEW p \in Updaters, UpdaterStep(p) \/ Kill(p) PROVE ~overlapped
  BY <1>2, <1>3 DEF UpdaterStep, Kill, ApplyRemove, ApplyPlace, ApplyCheck, ApplyCleanup, Save,
     Link, PrevLink, Recheck, UndoSave, UndoLink, UndoPrev
<1>4. CASE UNCHANGED slotVars
  BY <1>4 DEF slotVars
<1>5. QED BY <1>1, <1>3, <1>4 DEF SlotNext, ApplyBegin, RollbackBegin

\* LinksInv is inductive beside SlotInv.
LEMMA LinksNextInv ==
    SlotTyped /\ SlotInv /\ LinksInv /\ [SlotNext]_slotVars => LinksInv'
<1> SUFFICES ASSUME SlotTyped, SlotInv, LinksInv, [SlotNext]_slotVars, ~overlapped'
             PROVE  /\ ~cut' /\ AllIdle' => Follow(loadState)'
                    /\ \A p \in Updaters : upc'[p] # "idle" => LinkView(p)'
  BY DEF LinksInv
<1> DEFINE Goal == /\ ~cut' /\ AllIdle' => Follow(loadState)'
                   /\ \A p \in Updaters : upc'[p] # "idle" => LinkView(p)'
<1> USE UpdateAssumption
<1>1. ~overlapped
  BY HistoryStays
<1>2. /\ TakeTurns
      /\ \A p \in Updaters : upc[p] # "idle" => UpdaterView(p)
      /\ ~cut /\ AllIdle => Follow(loadState)
      /\ \A p \in Updaters : upc[p] # "idle" => LinkView(p)
  BY <1>1 DEF SlotInv, LinksInv
<1>3. ASSUME NEW p \in Updaters, NEW first, Begin(p, first), first \in {"remove", "save"} PROVE Goal
  <2>1. AllIdle
    BY <1>3 DEF Begin, AllIdle
  <2>2. /\ upc'[p] = first /\ old'[p] = loadState /\ UNCHANGED <<curLink, prevLink, cut>>
        /\ \A q \in Updaters : q # p => upc'[q] = "idle"
    BY <1>3, <2>1 DEF Begin, AllIdle, diskVars, SlotTyped, SlotTypeOK
  <2>3. LinkView(p)'
    BY <1>2, <1>3, <2>1, <2>2 DEF LinkView, Follow
  <2>4. QED BY <1>3, <2>2, <2>3 DEF AllIdle
<1>4. ASSUME NEW p \in Updaters, NEW b, Finish(p, b), upc[p] # "idle",
             ~cut' => Follow(loadState)'
      PROVE  Goal
  <2>1. AllIdle'
    BY <1>2, <1>4 DEF Finish, TakeTurns, SlotTyped, SlotTypeOK, AllIdle
  <2>2. QED BY <1>4, <2>1 DEF AllIdle
<1>5. ASSUME NEW p \in Updaters, NEW next, Goto(p, next), upc[p] # "idle", next # "idle",
             LinkView(p)'
      PROVE  Goal
  <2>1. upc'[p] = next /\ \A q \in Updaters : q # p => upc'[q] = "idle"
    BY <1>2, <1>5 DEF Goto, TakeTurns, SlotTyped, SlotTypeOK
  <2>2. QED BY <1>5, <2>1 DEF AllIdle
<1>6. ASSUME NEW p \in Updaters, UpdaterStep(p) \/ Kill(p) PROVE Goal
  <2> HIDE DEF Goal
  <2>1. upc[p] # "idle" /\ UpdaterView(p) /\ LinkView(p)
    BY <1>2, <1>6 DEF UpdaterStep, Kill, ApplyRemove, ApplyPlace, ApplyCheck, ApplyCleanup, Save,
       Link, PrevLink, Recheck, UndoSave, UndoLink, UndoPrev
  <2>2. old[p] \in Pairs /\ new[p] \in Pairs /\ loadState \in Pairs
    BY <2>1, LoadStateType DEF SlotTyped, UpdatersOK
  <2>3. /\ old[p] = <<old[p][1], old[p][2]>> /\ new[p] = <<new[p][1], new[p][2]>>
        /\ old[p] # None /\ new[p] # None
    BY <2>2 DEF Pairs
  <2>4. ASSUME NEW next, Goto(p, next) PROVE
          upc'[p] = next /\ old'[p] = old[p] /\ new'[p] = new[p] /\ cut' = cut
    BY <2>4 DEF Goto, localVars, SlotTyped, SlotTypeOK
  <2>5. ASSUME NEW b, Finish(p, b) PROVE cut' = b
    BY <2>5 DEF Finish
  <2>6. CASE ApplyRemove(p) \/ ApplyPlace(p) \/ ApplyCheck(p) \/ ApplyCleanup(p)
    <3>1. /\ upc[p] \in ApplyPcs /\ UNCHANGED <<manifest, curLink, prevLink>>
          /\ loadState' = loadState
      BY <2>6 DEF ApplyRemove, ApplyPlace, ApplyCheck, ApplyCleanup, ApplyPcs, diskVars, loadState
    <3>2. ~cut => Follow(loadState)'
      BY <2>1, <2>3, <3>1 DEF UpdaterView, LinkView, Follow
    <3>3. ASSUME NEW next \in ApplyPcs \cup {"save"}, Goto(p, next) PROVE Goal
      <4>1. LinkView(p)'
        BY <2>1, <2>4, <3>1, <3>3 DEF LinkView, ApplyPcs, Follow
      <4>2. QED BY <1>5, <2>1, <3>3, <4>1 DEF ApplyPcs
    <3>4. Finish(p, cut) => Goal
      BY <1>4, <2>1, <2>5, <3>2
    <3>5. QED
      BY <2>6, <3>3, <3>4 DEF ApplyRemove, ApplyPlace, ApplyCheck, ApplyCleanup, ApplyPcs
  <2>7. CASE Save(p)
    <3>1. UNCHANGED <<curLink, prevLink>> /\ (~cut => Follow(old[p])) /\ loadState = old[p]
      BY <2>1, <2>7 DEF Save, LinkView, UpdaterView
    <3>2. ASSUME NEW next \in {"link", "cleanup"}, Goto(p, next) PROVE Goal
      <4>1. LinkView(p)'
        BY <2>4, <3>1, <3>2 DEF LinkView, Follow
      <4>2. QED BY <1>5, <2>1, <3>2, <4>1
    <3>3. CASE UNCHANGED manifest /\ Finish(p, cut)
      <4>1. ~cut' => Follow(loadState)'
        BY <2>3, <2>5, <3>1, <3>3 DEF loadState, Follow
      <4>2. QED BY <1>4, <2>1, <3>3, <4>1
    <3>4. QED BY <2>7, <3>2, <3>3 DEF Save
  <2>8. CASE Link(p)
    <3>1. ASSUME NEW next \in {"prevlink", "undo_save"}, Goto(p, next),
                 next = "prevlink" => curLink' = new[p][1]
          PROVE  Goal
      <4>1. LinkView(p)'
        BY <2>4, <3>1 DEF LinkView, ApplyPcs
      <4>2. QED BY <1>5, <2>1, <3>1, <4>1
    <3>2. QED BY <2>8, <3>1 DEF Link
  <2>9. CASE PrevLink(p)
    <3>1. manifest = new[p] /\ curLink = new[p][1] /\ UNCHANGED <<manifest, curLink>>
      BY <2>1, <2>9 DEF PrevLink, UpdaterView, LinkView, UnsettledPcs
    <3>2. ASSUME NEW next \in {"recheck", "undo_save"}, Goto(p, next),
                 next = "recheck" => prevLink' = new[p][2]
          PROVE  Goal
      <4>1. LinkView(p)'
        BY <2>4, <3>1, <3>2 DEF LinkView, ApplyPcs, Follow
      <4>2. QED BY <1>5, <2>1, <3>2, <4>1
    <3>3. CASE prevLink' = new[p][2] /\ Finish(p, FALSE)
      <4>1. Follow(loadState)'
        BY <2>3, <3>1, <3>3 DEF loadState, Follow
      <4>2. QED BY <1>4, <2>1, <3>3, <4>1
    <3>4. QED BY <2>9, <3>2, <3>3 DEF PrevLink
  <2>10. CASE Recheck(p)
    <3>1. /\ manifest = new[p] /\ Follow(new[p])
          /\ UNCHANGED <<manifest, curLink, prevLink>>
      BY <2>1, <2>10 DEF Recheck, UpdaterView, LinkView, UnsettledPcs, diskVars
    <3>2. CASE Goto(p, "undo_save")
      <4>1. LinkView(p)'
        BY <2>4, <3>2 DEF LinkView, ApplyPcs
      <4>2. QED BY <1>5, <2>1, <3>2, <4>1
    <3>3. CASE Finish(p, FALSE)
      <4>1. Follow(loadState)'
        BY <2>3, <3>1 DEF loadState, Follow
      <4>2. QED BY <1>4, <2>1, <3>3, <4>1
    <3>4. QED BY <2>10, <3>2, <3>3 DEF Recheck
  <2>11. CASE UndoSave(p)
    <3>1. CASE Goto(p, "undo_link")
      <4>1. LinkView(p)'
        BY <2>4, <3>1 DEF LinkView, ApplyPcs
      <4>2. QED BY <1>5, <2>1, <3>1, <4>1
    <3>2. CASE Finish(p, TRUE)
      BY <1>4, <2>1, <2>5, <3>2
    <3>3. QED BY <2>11, <3>1, <3>2 DEF UndoSave
  <2>12. CASE UndoLink(p)
    <3>1. CASE curLink' = old[p][1] /\ Goto(p, "undo_prev")
      <4>1. LinkView(p)'
        BY <2>4, <3>1 DEF LinkView, ApplyPcs
      <4>2. QED BY <1>5, <2>1, <3>1, <4>1
    <3>2. CASE Finish(p, TRUE)
      BY <1>4, <2>1, <2>5, <3>2
    <3>3. QED BY <2>12, <3>1, <3>2 DEF UndoLink
  <2>13. CASE UndoPrev(p)
    <3>1. manifest = old[p] /\ curLink = old[p][1] /\ UNCHANGED <<manifest, curLink>>
      BY <2>1, <2>13 DEF UndoPrev, UpdaterView, LinkView
    <3>2. CASE prevLink' = old[p][2] /\ Finish(p, FALSE)
      <4>1. Follow(loadState)'
        BY <2>3, <3>1, <3>2 DEF loadState, Follow
      <4>2. QED BY <1>4, <2>1, <3>2, <4>1
    <3>3. CASE UNCHANGED prevLink /\ Finish(p, old[p][2] # None)
      <4>1. ~cut' => Follow(loadState)'
        BY <2>3, <2>5, <3>1, <3>3 DEF loadState, Follow
      <4>2. QED BY <1>4, <2>1, <3>3, <4>1
    <3>4. QED BY <2>13, <3>2, <3>3 DEF UndoPrev
  <2>14. CASE Kill(p)
    <3>1. UNCHANGED <<manifest, curLink, prevLink>> /\ loadState' = loadState
      BY <2>14 DEF Kill, diskVars, loadState
    <3>2. CASE upc[p] \in ApplyPcs \cup {"save"} /\ Finish(p, cut)
      <4>1. ~cut' => Follow(loadState)'
        BY <2>1, <2>3, <2>5, <3>1, <3>2 DEF UpdaterView, LinkView, Follow
      <4>2. QED BY <1>4, <2>1, <3>2, <4>1
    <3>3. CASE Finish(p, TRUE)
      BY <1>4, <2>1, <2>5, <3>3
    <3>4. CASE upc[p] = "recheck" /\ Finish(p, FALSE)
      <4>1. Follow(loadState)'
        BY <2>1, <2>3, <3>1, <3>4 DEF UpdaterView, LinkView, Follow, UnsettledPcs, loadState
      <4>2. QED BY <1>4, <2>1, <3>4, <4>1
    <3>5. QED BY <2>14, <3>2, <3>3, <3>4 DEF Kill
  <2>15. QED
    BY <1>6, <2>6, <2>7, <2>8, <2>9, <2>10, <2>11, <2>12, <2>13, <2>14 DEF UpdaterStep
<1>7. CASE UNCHANGED slotVars
  BY <1>2, <1>7 DEF slotVars, AllIdle, loadState, LinkView, Follow
<1>8. QED BY <1>3, <1>6, <1>7 DEF SlotNext, ApplyBegin, RollbackBegin

\* With updaters that take turns the links follow the manifest whenever none is at work
\* and the last switch was not cut off, for any number of versions and updaters: also
\* after every way in which restoreState takes a switch back, and whatever an earlier
\* kill had left.
THEOREM LinksFollowManifestCorrect == SlotSpec => []LinksFollowManifest
<1>1. SlotInit => LinksInv
  BY UpdateAssumption DEF SlotInit, LinksInv, AllIdle, loadState, Follow
<1>2. SlotSpec => []LinksInv
  BY <1>1, SlotAlwaysInv, LinksNextInv, PTL DEF SlotSpec
<1>3. LinksInv => LinksFollowManifest
  BY DEF LinksInv, LinksFollowManifest, AllIdle
<1>4. QED BY <1>2, <1>3, PTL

-----------------------------------------------------------------------------
(* UpdateSlots implements SlotPair.                                          *)

\* The pair a switch may still return to, as AtomicPair maps it.
Prior == IF Switching = {} THEN None ELSE old[CHOOSE p \in Switching : TRUE]

\* Prior is what the one updater at work has loaded, between its commit and the end
\* of its switch.
LEMMA PriorOfUpdater ==
    ASSUME TakeTurns, NEW p \in Updaters, upc[p] # "idle"
    PROVE  Prior = IF upc[p] \in UnsettledPcs THEN old[p] ELSE None
<1>1. Switching = IF upc[p] \in UnsettledPcs THEN {p} ELSE {}
  BY DEF Switching, TakeTurns, UnsettledPcs
<1>2. QED BY <1>1 DEF Prior

LEMMA PriorAtRest == AllIdle => Prior = None
<1>1. AllIdle => Switching = {}
  BY DEF AllIdle, Switching, UnsettledPcs
<1>2. QED BY <1>1 DEF Prior

\* The same two facts of the next state.
LEMMA PriorOfUpdaterNext ==
    ASSUME TakeTurns', NEW p \in Updaters, upc'[p] # "idle"
    PROVE  Prior' = IF upc'[p] \in UnsettledPcs THEN old'[p] ELSE None
<1>1. Switching' = IF upc'[p] \in UnsettledPcs THEN {p} ELSE {}
  BY DEF Switching, TakeTurns, UnsettledPcs
<1>2. QED BY <1>1 DEF Prior

LEMMA PriorAtRestNext == AllIdle' => Prior' = None
<1>1. AllIdle' => Switching' = {}
  BY DEF AllIdle, Switching, UnsettledPcs
<1>2. QED BY <1>1 DEF Prior

\* Every step of updaters that take turns switches, undoes or settles the pair as a
\* whole, or leaves it alone.
LEMMA SlotStepImplements ==
    ASSUME SlotTyped, SlotInv, SlotInv', ~overlapped', [SlotNext]_slotVars
    PROVE  [Abstract!PairNext]_<<loadState, Prior>>
<1> DEFINE Stutter == loadState' = loadState /\ Prior' = Prior
           Goal == [Abstract!PairNext]_<<loadState, Prior>>
<1> USE UpdateAssumption
<1>0. Stutter => Goal
  OBVIOUS
<1>1. /\ ~overlapped /\ TakeTurns /\ TakeTurns'
      /\ \A p \in Updaters : upc[p] # "idle" => UpdaterView(p)
  BY HistoryStays DEF SlotInv
<1>2. ASSUME NEW p \in Updaters, NEW first, Begin(p, first), first \in {"remove", "save"} PROVE Stutter
  <2>1. AllIdle /\ upc'[p] = first /\ loadState' = loadState
    BY <1>2 DEF Begin, AllIdle, diskVars, loadState, SlotTyped, SlotTypeOK
  <2>2. Prior = None
    BY <2>1, PriorAtRest
  <2>3. Prior' = IF upc'[p] \in UnsettledPcs THEN old'[p] ELSE None
    BY <1>1, <1>2, <2>1, PriorOfUpdaterNext
  <2>4. QED BY <1>2, <2>1, <2>2, <2>3 DEF UnsettledPcs
<1>3. ASSUME NEW p \in Updaters, UpdaterStep(p) \/ Kill(p) PROVE Goal
  <2> HIDE DEF Goal
  <2>1. upc[p] # "idle" /\ UpdaterView(p)
    BY <1>1, <1>3 DEF UpdaterStep, Kill, ApplyRemove, ApplyPlace, ApplyCheck, ApplyCleanup, Save,
       Link, PrevLink, Recheck, UndoSave, UndoLink, UndoPrev
  <2>2. /\ old[p] \in Pairs /\ new[p] \in Pairs /\ new[p][2] # None
        /\ old[p] # None /\ new[p] # None
        /\ release[p] # None => release[p][1] \in Versions
    BY <2>1 DEF SlotTyped, SlotTypeOK, UpdatersOK, Pairs
  <2>3. Prior = IF upc[p] \in UnsettledPcs THEN old[p] ELSE None
    BY <1>1, <2>1, PriorOfUpdater
  <2>4. ASSUME NEW next, Goto(p, next), next # "idle"
        PROVE  Prior' = IF next \in UnsettledPcs THEN old[p] ELSE None
    <3>1. upc'[p] = next /\ old'[p] = old[p]
      BY <2>4 DEF Goto, localVars, SlotTyped, SlotTypeOK
    <3>2. Prior' = IF upc'[p] \in UnsettledPcs THEN old'[p] ELSE None
      BY <1>1, <2>4, <3>1, PriorOfUpdaterNext
    <3>3. QED BY <3>1, <3>2
  <2>5. ASSUME NEW b, Finish(p, b) PROVE Prior' = None
    <3>1. AllIdle'
      BY <1>1, <2>1, <2>5 DEF Finish, TakeTurns, SlotTyped, SlotTypeOK, AllIdle
    <3>2. QED BY <3>1, PriorAtRestNext
  <2> DEFINE SettledPcs == {"place", "check", "cleanup", "save", "undo_prev"}
             Leaves == (\E b : Finish(p, b)) \/ (\E next \in SettledPcs : Goto(p, next))
  <2>6. Leaves => Prior' = None
    <3>1. \A next \in SettledPcs : Goto(p, next) => Prior' = None
      BY <2>4 DEF UnsettledPcs
    <3>2. QED BY <2>5, <3>1
  <2>7. ASSUME upc[p] \in UnsettledPcs, Prior' = None, loadState' = loadState PROVE Goal
    BY <2>2, <2>3, <2>7 DEF Goal, Abstract!PairNext, Abstract!Settle, Prior
  <2>8. CASE ApplyRemove(p) \/ ApplyPlace(p) \/ ApplyCheck(p) \/ ApplyCleanup(p)
    <3>1. upc[p] \notin UnsettledPcs /\ loadState' = loadState
      BY <2>8 DEF ApplyRemove, ApplyPlace, ApplyCheck, ApplyCleanup, UnsettledPcs, diskVars, loadState
    <3>2. Prior' = None
      <4>1. Leaves
        BY <2>8 DEF ApplyRemove, ApplyPlace, ApplyCheck, ApplyCleanup
      <4>2. QED BY <2>6, <4>1
    <3>3. QED BY <1>0, <2>3, <3>1, <3>2
  <2>9. CASE Save(p) /\ manifest' = new[p] /\ Goto(p, "link")
    <3>1. loadState' = new[p] /\ loadState = old[p] /\ Prior = None
      BY <2>1, <2>2, <2>3, <2>9 DEF Save, loadState, UpdaterView, UnsettledPcs
    <3>2. Prior' = old[p]
      BY <2>4, <2>9 DEF UnsettledPcs
    <3>3. CASE release[p] # None
      <4>1. /\ new[p] = <<release[p][1], old[p][1]>>
            /\ release[p][1] \in Versions \ {old[p][1], old[p][2]}
        BY <2>1, <2>2, <3>3 DEF UpdaterView
      <4>2. Abstract!Switch
        BY <3>1, <3>2, <4>1 DEF Abstract!Switch, Prior
      <4>3. QED BY <3>1, <4>2 DEF Goal, Abstract!PairNext, Prior
    <3>4. CASE release[p] = None
      <4>1. new[p] = <<old[p][2], old[p][1]>> /\ old[p][2] # None
        BY <2>1, <3>4 DEF UpdaterView
      <4>2. Abstract!Swap
        BY <3>1, <3>2, <4>1 DEF Abstract!Swap, Prior
      <4>3. QED BY <3>1, <4>2 DEF Goal, Abstract!PairNext, Prior
    <3>5. QED BY <3>3, <3>4
  <2>10. CASE Save(p) /\ UNCHANGED manifest
    <3>1. CASE Goto(p, "link")
      BY <2>9, <2>10, <3>1 DEF Save, Goto, Finish, Applying, SlotTyped, SlotTypeOK
    <3>2. CASE ~Goto(p, "link")
      <4>1. Prior = None /\ loadState' = loadState
        BY <2>3, <2>10 DEF Save, loadState, UnsettledPcs
      <4>2. Prior' = None
        <5>1. Leaves
          BY <2>10, <3>2 DEF Save
        <5>2. QED BY <2>6, <5>1
      <4>3. QED BY <1>0, <4>1, <4>2
    <3>3. QED BY <3>1, <3>2
  <2>11. CASE Link(p) \/ PrevLink(p) \/ Recheck(p)
    <3>1. upc[p] \in UnsettledPcs /\ manifest # None /\ UNCHANGED manifest
      BY <2>1, <2>2, <2>11 DEF Link, PrevLink, Recheck, diskVars, UpdaterView, UnsettledPcs
    <3>2. loadState' = loadState
      BY <3>1 DEF loadState
    <3>3. CASE \E next \in UnsettledPcs : Goto(p, next)
      BY <1>0, <2>3, <2>4, <3>1, <3>2, <3>3 DEF UnsettledPcs
    <3>4. CASE \E b : Finish(p, b)
      BY <2>5, <2>7, <3>1, <3>2, <3>4
    <3>5. QED BY <2>11, <3>3, <3>4 DEF Link, PrevLink, Recheck, UnsettledPcs
  <2>12. CASE UndoSave(p)
    <3>1. upc[p] \in UnsettledPcs
      BY <2>12 DEF UndoSave, UnsettledPcs
    <3>2. CASE manifest' = old[p] /\ Goto(p, "undo_link")
      <4>1. loadState' = old[p] /\ Prior = old[p]
        BY <2>2, <2>3, <3>1, <3>2 DEF loadState
      <4>2. Prior' = None
        BY <2>4, <3>2 DEF UnsettledPcs
      <4>3. QED BY <2>2, <4>1, <4>2 DEF Goal, Abstract!PairNext, Abstract!Undo, Prior
    <3>3. CASE UNCHANGED manifest /\ Finish(p, TRUE)
      <4>1. loadState' = loadState
        BY <2>12, <3>3 DEF UndoSave, loadState
      <4>2. QED BY <2>5, <2>7, <3>1, <3>3, <4>1
    <3>4. QED BY <2>12, <3>2, <3>3 DEF UndoSave
  <2>13. CASE UndoLink(p) \/ UndoPrev(p)
    <3>1. upc[p] \notin UnsettledPcs /\ manifest # None /\ UNCHANGED manifest
      BY <2>1, <2>2, <2>13 DEF UndoLink, UndoPrev, UpdaterView, UnsettledPcs
    <3>2. Prior' = None
      <4>1. Leaves
        BY <2>13 DEF UndoLink, UndoPrev
      <4>2. QED BY <2>6, <4>1
    <3>3. QED BY <1>0, <2>3, <3>1, <3>2 DEF loadState
  <2>14. CASE Kill(p)
    <3>1. loadState' = loadState /\ Prior' = None
      BY <2>5, <2>14 DEF Kill, diskVars, loadState
    <3>2. QED BY <1>0, <2>3, <2>7, <3>1
  <2>15. QED
    BY <1>3, <2>8, <2>9, <2>10, <2>11, <2>12, <2>13, <2>14 DEF UpdaterStep, Save
<1>4. CASE UNCHANGED slotVars
  BY <1>0, <1>4 DEF slotVars, loadState, Prior, Switching
<1>5. QED BY <1>0, <1>2, <1>3, <1>4 DEF SlotNext, ApplyBegin, RollbackBegin

\* Updates and rollbacks that take turns behave as one pair that switches in a single
\* step and is taken back as a whole, killed or failing anywhere, for any number of
\* versions and updaters: UpdateSlots implements SlotPair.
THEOREM TurnsImplementPair == SlotSpec /\ []~overlapped => AtomicPair
<1>1. SlotInit => Abstract!PairInit
  <2> SUFFICES ASSUME SlotInit PROVE Abstract!PairInit
    OBVIOUS
  <2>1. Prior = None
    BY PriorAtRest DEF SlotInit, AllIdle
  <2>2. loadState = <<First, None>>
    BY UpdateAssumption DEF SlotInit, loadState
  <2>3. QED BY <2>1, <2>2, UpdateAssumption DEF Abstract!PairInit, Prior
<1>2. /\ SlotTyped /\ SlotInv /\ (SlotTyped /\ SlotInv)' /\ ~overlapped /\ (~overlapped)'
      /\ [SlotNext]_slotVars
      => [Abstract!PairNext]_<<loadState, Prior>>
  BY SlotStepImplements
<1>3. QED
  BY <1>1, <1>2, SlotAlwaysInv, PTL DEF SlotSpec, AtomicPair, Abstract!PairSpec, Prior

=============================================================================
