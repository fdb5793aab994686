------------------------------ MODULE SlotPair ------------------------------
(***************************************************************************)
(* What `oikos update` promises about the active release: one pair of a    *)
(* current and a previous version that changes in single steps.  An update *)
(* switches to a new version, a rollback swaps the two, and a switch that   *)
(* does not work out is undone as a whole.                                  *)
(***************************************************************************)
CONSTANTS Versions, None

VARIABLES pair,   \* <<current, previous>>
          prior   \* the pair an unfinished switch may still return to, or None

Switch ==
    \E v \in Versions \ {pair[1], pair[2]} :
        pair' = <<v, pair[1]>> /\ prior' = pair

Swap ==
    /\ pair[2] # None
    /\ pair' = <<pair[2], pair[1]>>
    /\ prior' = pair

Undo == prior # None /\ pair' = prior /\ prior' = None

Settle == prior # None /\ prior' = None /\ UNCHANGED pair

PairInit == pair \in (Versions \X {None}) /\ prior = None

PairNext == (prior = None /\ (Switch \/ Swap)) \/ Undo \/ Settle

PairSpec == PairInit /\ [][PairNext]_<<pair, prior>>

=============================================================================
