---------------------------- MODULE MCDaemonParts ----------------------------
(***************************************************************************)
(* Four small parts of the daemon in one instance: event history, metrics,  *)
(* resource limits and network groups.  They share no variable, so a        *)
(* behaviour of one of them, chosen at the start, while the others rest is  *)
(* a behaviour of all.                                                      *)
(***************************************************************************)
EXTENDS EventHistory, Metrics, ResourceLimits, NetworkGroups

\* No limits, the same for all, one more and one that is not set.
FourLimits ==
    {[cpu |-> l[1], memory |-> l[2], pids |-> l[3]] : l \in
       {<<0, 0, 0>>, <<1, 1, 1>>, <<2, 1, 0>>, <<0, 2, 2>>}}

VARIABLE part  \* the part that moves

partsVars == <<part, historyVars, metricsVars, limitVars, groupVars>>

PartsInit ==
    /\ part \in {"history", "metrics", "limits", "groups"}
    /\ HistoryInit /\ MetricsInit /\ LimitsInit /\ GroupsInit

InHistory(A) == part = "history" /\ A /\ UNCHANGED <<part, metricsVars, limitVars, groupVars>>
InMetrics(A) == part = "metrics" /\ A /\ UNCHANGED <<part, historyVars, limitVars, groupVars>>
InLimits(A) == part = "limits" /\ A /\ UNCHANGED <<part, historyVars, metricsVars, groupVars>>
InGroups(A) == part = "groups" /\ A /\ UNCHANGED <<part, historyVars, metricsVars, limitVars>>

PartsNext ==
    InHistory(HistoryNext) \/ InMetrics(MetricsNext) \/ InLimits(LimitsNext) \/ InGroups(GroupsNext)

\* The goroutine of the scheduler runs, and a select that finds the metrics ticker
\* ready again and again takes it at last.
PartsSpec ==
    /\ PartsInit
    /\ [][PartsNext]_partsVars
    /\ WF_partsVars(InMetrics(RefreshStep))
    /\ SF_partsVars(InMetrics(MetricsTick))

\* Type invariant of the four parts.
PartsTypeOK == HistoryTypeOK /\ MetricsTypeOK /\ LimitsTypeOK /\ GroupsTypeOK

=============================================================================
