------------------------- MODULE PluginRegistryProofs -------------------------
(***************************************************************************)
(* Proofs about PluginRegistry, for any plugins, event types, manifests,   *)
(* channel size and faults.                                                *)
(***************************************************************************)
EXTENDS PluginRegistry, TLAPS

\* Where the main goroutine is says whether the bridges are subscribed: StartAll
\* comes before, StopAll after.
BusPhase ==
    /\ main \in StartPcs \cup {"boot", "next", "undo", "failed"} => bus = "none"
    /\ main = "up" => bus = "subscribed"
    /\ main \in {"drain", "stopnext", "stopped"} => bus = "cancelled"
    /\ main \in StopPcs => bus \in {"none", "cancelled"}

\* Nothing of the plugin is left.
Quiet(i) ==
    /\ proc[i] # "live" /\ ~client[i] /\ ~healthy[i] /\ ~running[i]
    /\ proc[i] # "none" => ~socket[i]

\* Host.Start has spawned cur and not returned, or Host.Stop is at it.
AtWork == main \in {"wait", "dial", "client", "init", "healthy"} \cup StopPcs

\* The plugins that may be alive: while StartAll runs or is undone, those it has
\* started and the one at hand; later those of the registry, until StopAll has
\* been through with them.
Accounted ==
    /\ main \in {"reap", "clear"} => proc[cur] # "live"
    /\ bus = "none" =>
         /\ todo \subseteq hosts /\ started \subseteq hosts /\ routes \subseteq started
         /\ main \in StartPcs => cur \in hosts
         /\ main = "routes" => cur \in started
         /\ main \in {"boot", "failed"} => started = {}
         /\ \A i \in Plugins : i \notin started /\ ~(AtWork /\ i = cur) => Quiet(i)
    /\ bus # "none" =>
         /\ routes \subseteq hosts
         /\ \A i \in Plugins : i \notin hosts => Quiet(i)
         /\ main \in StopPcs \cup {"stopnext"} =>
              \A i \in Plugins : i \notin todo => Quiet(i)
         /\ main = "stopped" => routes = {} /\ \A i \in Plugins : Quiet(i)

-----------------------------------------------------------------------------
(* Type correctness.                                                         *)

\* The registry starts well typed.
LEMMA TypedInit == PluginInit => PluginTypeOK
  BY PluginAssumption DEF PluginInit, PluginTypeOK, StartPcs, StopPcs

\* Type correctness, one step per action.
LEMMA TypedStep ==
    ASSUME PluginTypeOK, [PluginNext]_pluginVars
    PROVE  PluginTypeOK'
<1>s. \A s \in Subs : s[1] \in Plugins /\ s[2] \in Types
  BY DEF Subs
<1>a. Allowed \in [Plugins -> SUBSET Types] /\ MaxQueue \in Nat
  BY PluginAssumption
<1> USE <1>s, <1>a DEF PluginTypeOK, StartPcs, StopPcs
<1>1. CASE LoadEnabled
  BY <1>1 DEF LoadEnabled, hostVars, bridgeVars
<1>2. CASE StartNext
  BY <1>2 DEF StartNext, IsFirst, regVars, hostVars, bridgeVars
<1>3. CASE Spawn
  BY <1>3 DEF Spawn, Goto, regVars, bridgeVars
<1>4. CASE WaitForSocket
  BY <1>4 DEF WaitForSocket, Goto, regVars, hostVars, bridgeVars
<1>5. CASE Dial
  BY <1>5 DEF Dial, Goto, regVars, hostVars, bridgeVars
<1>6. CASE SetClient
  BY <1>6 DEF SetClient, Goto, regVars, bridgeVars
<1>7. CASE InitCall
  BY <1>7 DEF InitCall, Goto, Capabilities, regVars, bridgeVars
<1>8. CASE SetHealthy
  BY <1>8 DEF SetHealthy, regVars, bridgeVars
<1>9. CASE RegisterRoutes
  BY <1>9 DEF RegisterRoutes, Goto, hostVars, bridgeVars
<1>10. CASE Bridge
  BY <1>10 DEF Bridge, Goto, regVars, hostVars
<1>11. CASE Rollback
  BY <1>11 DEF Rollback, Goto, IsFirst, regVars, hostVars, bridgeVars
<1>12. CASE Kill
  BY <1>12 DEF Kill, Goto, regVars, bridgeVars
<1>13. CASE Reap
  BY <1>13 DEF Reap, Goto, regVars, hostVars, bridgeVars
<1>14. CASE Clear
  BY <1>14 DEF Clear, bridgeVars
<1>15. CASE StopAll
  BY <1>15 DEF StopAll, Goto, regVars, hostVars
<1>16. CASE Drain
  BY <1>16 DEF Drain, regVars, hostVars, bridgeVars
<1>17. CASE StopNext
  BY <1>17 DEF StopNext, Goto, hostVars, bridgeVars
<1>18. CASE DaemonRestart
  BY <1>18 DEF DaemonRestart
<1>19. ASSUME NEW i \in Plugins, PluginExits(i) PROVE PluginTypeOK'
  BY <1>19 DEF PluginExits, regVars, mainVars, bridgeVars
<1>20. ASSUME NEW i \in Plugins, WaitCleanup(i) PROVE PluginTypeOK'
  BY <1>20 DEF WaitCleanup, regVars, mainVars, bridgeVars
<1>21. ASSUME NEW i \in Plugins, WaitClose(i) PROVE PluginTypeOK'
  BY <1>21 DEF WaitClose, regVars, mainVars, bridgeVars
<1>22. ASSUME NEW i \in Plugins, WaitEnd(i) PROVE PluginTypeOK'
  BY <1>22 DEF WaitEnd, regVars, mainVars, bridgeVars
<1>23. ASSUME NEW ty \in Types, Publish(ty) PROVE PluginTypeOK'
  BY <1>23 DEF Publish, regVars, mainVars, hostVars
<1>24. ASSUME NEW s \in Subs, BridgeDone(s) PROVE PluginTypeOK'
  BY <1>24 DEF BridgeDone, regVars, mainVars, hostVars
<1>25. ASSUME NEW s \in Subs, BridgeTake(s) PROVE PluginTypeOK'
  BY <1>25 DEF BridgeTake, regVars, mainVars, hostVars
<1>26. ASSUME NEW s \in Subs, HandleEnter(s) PROVE PluginTypeOK'
  BY <1>26 DEF HandleEnter, regVars, mainVars, hostVars
<1>27. ASSUME NEW s \in Subs, HandleCall(s) PROVE PluginTypeOK'
  <2>1. healthy' \in [Plugins -> BOOLEAN]
    BY <1>27 DEF HandleCall
  <2>2. gpc' \in [Subs -> {"off", "select", "enter", "call", "ok", "fail", "disable", "done"}]
    BY <1>27 DEF HandleCall
  <2> QED
    BY <1>27, <2>1, <2>2 DEF HandleCall, regVars, mainVars
<1>28. ASSUME NEW s \in Subs, DispatchOk(s) PROVE PluginTypeOK'
  BY <1>28 DEF DispatchOk, mainVars, hostVars
<1>29. ASSUME NEW s \in Subs, DispatchFail(s) PROVE PluginTypeOK'
  BY <1>29 DEF DispatchFail, mainVars, hostVars
<1>30. ASSUME NEW s \in Subs, SetPluginEnabled(s) PROVE PluginTypeOK'
  BY <1>30 DEF SetPluginEnabled, regVars, mainVars, hostVars
<1>31. CASE UNCHANGED pluginVars
  BY <1>31 DEF pluginVars
<1> QED
  BY <1>1, <1>2, <1>3, <1>4, <1>5, <1>6, <1>7, <1>8, <1>9, <1>10, <1>11, <1>12, <1>13, <1>14, <1>15, <1>16, <1>17, <1>18, <1>19, <1>20, <1>21, <1>22, <1>23, <1>24, <1>25, <1>26, <1>27, <1>28, <1>29, <1>30, <1>31
  DEF PluginNext, MainStep, WaitStep, BridgeStep

\* The registry, the hosts, the goroutines and the queues keep their types, for every
\* number of plugins and every queue size.
THEOREM PluginTypeCorrect == PluginSpec => []PluginTypeOK
<1>1. PluginTypeOK /\ [PluginNext]_pluginVars => PluginTypeOK'
  BY TypedStep
<1> QED
  BY TypedInit, <1>1, PTL DEF PluginSpec

-----------------------------------------------------------------------------
(* The bridge goroutines have ended before StopAll takes a plugin away.      *)

\* Where main is and what the bridges do, one step per action.
LEMMA QuiesceStep ==
    ASSUME PluginTypeOK, BusPhase, StopQuiesces, [PluginNext]_pluginVars
    PROVE  BusPhase' /\ StopQuiesces'
<1> USE DEF PluginTypeOK, BusPhase, StopQuiesces, StartPcs, StopPcs
<1>1. CASE LoadEnabled
  BY <1>1 DEF LoadEnabled, hostVars, bridgeVars
<1>2. CASE StartNext
  BY <1>2 DEF StartNext, IsFirst, regVars, hostVars, bridgeVars
<1>3. CASE Spawn
  BY <1>3 DEF Spawn, Goto, regVars, bridgeVars
<1>4. CASE WaitForSocket
  BY <1>4 DEF WaitForSocket, Goto, regVars, hostVars, bridgeVars
<1>5. CASE Dial
  BY <1>5 DEF Dial, Goto, regVars, hostVars, bridgeVars
<1>6. CASE SetClient
  BY <1>6 DEF SetClient, Goto, regVars, bridgeVars
<1>7. CASE InitCall
  BY <1>7 DEF InitCall, Goto, Capabilities, regVars, bridgeVars
<1>8. CASE SetHealthy
  BY <1>8 DEF SetHealthy, regVars, bridgeVars
<1>9. CASE RegisterRoutes
  BY <1>9 DEF RegisterRoutes, Goto, hostVars, bridgeVars
<1>10. CASE Bridge
  BY <1>10 DEF Bridge, Goto, regVars, hostVars
<1>11. CASE Rollback
  BY <1>11 DEF Rollback, Goto, IsFirst, regVars, hostVars, bridgeVars
<1>12. CASE Kill
  BY <1>12 DEF Kill, Goto, regVars, bridgeVars
<1>13. CASE Reap
  BY <1>13 DEF Reap, Goto, regVars, hostVars, bridgeVars
<1>14. CASE Clear
  BY <1>14 DEF Clear, bridgeVars
<1>15. CASE StopAll
  BY <1>15 DEF StopAll, Goto, regVars, hostVars
<1>16. CASE Drain
  BY <1>16 DEF Drain, regVars, hostVars, bridgeVars
<1>17. CASE StopNext
  BY <1>17 DEF StopNext, Goto, hostVars, bridgeVars
<1>18. CASE DaemonRestart
  BY <1>18 DEF DaemonRestart
<1>19. ASSUME NEW i \in Plugins, PluginExits(i) PROVE BusPhase' /\ StopQuiesces'
  BY <1>19 DEF PluginExits, regVars, mainVars, bridgeVars
<1>20. ASSUME NEW i \in Plugins, WaitCleanup(i) PROVE BusPhase' /\ StopQuiesces'
  BY <1>20 DEF WaitCleanup, regVars, mainVars, bridgeVars
<1>21. ASSUME NEW i \in Plugins, WaitClose(i) PROVE BusPhase' /\ StopQuiesces'
  BY <1>21 DEF WaitClose, regVars, mainVars, bridgeVars
<1>22. ASSUME NEW i \in Plugins, WaitEnd(i) PROVE BusPhase' /\ StopQuiesces'
  BY <1>22 DEF WaitEnd, regVars, mainVars, bridgeVars
<1>23. ASSUME NEW ty \in Types, Publish(ty) PROVE BusPhase' /\ StopQuiesces'
  BY <1>23 DEF Publish, regVars, mainVars, hostVars
<1>24. ASSUME NEW s \in Subs, BridgeDone(s) PROVE BusPhase' /\ StopQuiesces'
  BY <1>24 DEF BridgeDone, regVars, mainVars, hostVars
<1>25. ASSUME NEW s \in Subs, BridgeTake(s) PROVE BusPhase' /\ StopQuiesces'
  BY <1>25 DEF BridgeTake, regVars, mainVars, hostVars
<1>26. ASSUME NEW s \in Subs, HandleEnter(s) PROVE BusPhase' /\ StopQuiesces'
  BY <1>26 DEF HandleEnter, regVars, mainVars, hostVars
<1>27. ASSUME NEW s \in Subs, HandleCall(s) PROVE BusPhase' /\ StopQuiesces'
  BY <1>27 DEF HandleCall, regVars, mainVars
<1>28. ASSUME NEW s \in Subs, DispatchOk(s) PROVE BusPhase' /\ StopQuiesces'
  BY <1>28 DEF DispatchOk, mainVars, hostVars
<1>29. ASSUME NEW s \in Subs, DispatchFail(s) PROVE BusPhase' /\ StopQuiesces'
  BY <1>29 DEF DispatchFail, mainVars, hostVars
<1>30. ASSUME NEW s \in Subs, SetPluginEnabled(s) PROVE BusPhase' /\ StopQuiesces'
  BY <1>30 DEF SetPluginEnabled, regVars, mainVars, hostVars
<1>31. CASE UNCHANGED pluginVars
  BY <1>31 DEF pluginVars
<1> QED
  BY <1>1, <1>2, <1>3, <1>4, <1>5, <1>6, <1>7, <1>8, <1>9, <1>10, <1>11, <1>12, <1>13, <1>14, <1>15, <1>16, <1>17, <1>18, <1>19, <1>20, <1>21, <1>22, <1>23, <1>24, <1>25, <1>26, <1>27, <1>28, <1>29, <1>30, <1>31
  DEF PluginNext, MainStep, WaitStep, BridgeStep

\* StopAll takes no plugin away from a goroutine that hands it an event, however the
\* cancellation, the events still in the channels and slow calls interleave.
THEOREM StopQuiescesCorrect == PluginSpec => []StopQuiesces
<1>1. PluginInit => BusPhase /\ StopQuiesces
  BY DEF PluginInit, BusPhase, StopQuiesces, StartPcs, StopPcs
<1>2. PluginTypeOK /\ BusPhase /\ StopQuiesces /\ [PluginNext]_pluginVars
        => BusPhase' /\ StopQuiesces'
  BY QuiesceStep
<1> QED
  BY PluginTypeCorrect, <1>1, <1>2, PTL DEF PluginSpec

-----------------------------------------------------------------------------
(* What is left of the plugins.                                              *)

\* Every process that may be alive is still to be stopped, one step per action.
LEMMA AccountedStep ==
    ASSUME PluginTypeOK, BusPhase, Accounted, [PluginNext]_pluginVars
    PROVE  Accounted'
<1>s. \A s \in Subs : s[1] \in Plugins
  BY DEF Subs
<1> USE <1>s DEF PluginTypeOK, BusPhase, Accounted, AtWork, Quiet, StartPcs, StopPcs
<1>1. CASE LoadEnabled
  BY <1>1 DEF LoadEnabled, hostVars, bridgeVars
<1>2. CASE StartNext
  BY <1>2 DEF StartNext, IsFirst, regVars, hostVars, bridgeVars
<1>3. CASE Spawn
  BY <1>3 DEF Spawn, Goto, regVars, bridgeVars
<1>4. CASE WaitForSocket
  BY <1>4 DEF WaitForSocket, Goto, regVars, hostVars, bridgeVars
<1>5. CASE Dial
  BY <1>5 DEF Dial, Goto, regVars, hostVars, bridgeVars
<1>6. CASE SetClient
  BY <1>6 DEF SetClient, Goto, regVars, bridgeVars
<1>7. CASE InitCall
  BY <1>7 DEF InitCall, Goto, Capabilities, regVars, bridgeVars
<1>8. CASE SetHealthy
  BY <1>8 DEF SetHealthy, regVars, bridgeVars
<1>9. CASE RegisterRoutes
  BY <1>9 DEF RegisterRoutes, Goto, hostVars, bridgeVars
<1>10. CASE Bridge
  BY <1>10 DEF Bridge, Goto, regVars, hostVars
<1>11. CASE Rollback
  BY <1>11 DEF Rollback, Goto, IsFirst, regVars, hostVars, bridgeVars
<1>12. CASE Kill
  BY <1>12 DEF Kill, Goto, regVars, bridgeVars
<1>13. CASE Reap
  BY <1>13 DEF Reap, Goto, regVars, hostVars, bridgeVars
<1>14. CASE Clear
  BY <1>14 DEF Clear, bridgeVars
<1>15. CASE StopAll
  BY <1>15 DEF StopAll, Goto, regVars, hostVars
<1>16. CASE Drain
  BY <1>16 DEF Drain, regVars, hostVars, bridgeVars
<1>17. CASE StopNext
  BY <1>17 DEF StopNext, Goto, hostVars, bridgeVars
<1>18. CASE DaemonRestart
  BY <1>18 DEF DaemonRestart
<1>19. ASSUME NEW i \in Plugins, PluginExits(i) PROVE Accounted'
  BY <1>19 DEF PluginExits, regVars, mainVars, bridgeVars
<1>20. ASSUME NEW i \in Plugins, WaitCleanup(i) PROVE Accounted'
  BY <1>20 DEF WaitCleanup, regVars, mainVars, bridgeVars
<1>21. ASSUME NEW i \in Plugins, WaitClose(i) PROVE Accounted'
  BY <1>21 DEF WaitClose, regVars, mainVars, bridgeVars
<1>22. ASSUME NEW i \in Plugins, WaitEnd(i) PROVE Accounted'
  BY <1>22 DEF WaitEnd, regVars, mainVars, bridgeVars
<1>23. ASSUME NEW ty \in Types, Publish(ty) PROVE Accounted'
  BY <1>23 DEF Publish, regVars, mainVars, hostVars
<1>24. ASSUME NEW s \in Subs, BridgeDone(s) PROVE Accounted'
  BY <1>24 DEF BridgeDone, regVars, mainVars, hostVars
<1>25. ASSUME NEW s \in Subs, BridgeTake(s) PROVE Accounted'
  BY <1>25 DEF BridgeTake, regVars, mainVars, hostVars
<1>26. ASSUME NEW s \in Subs, HandleEnter(s) PROVE Accounted'
  BY <1>26 DEF HandleEnter, regVars, mainVars, hostVars
<1>27. ASSUME NEW s \in Subs, HandleCall(s) PROVE Accounted'
  BY <1>27 DEF HandleCall, regVars, mainVars
<1>28. ASSUME NEW s \in Subs, DispatchOk(s) PROVE Accounted'
  BY <1>28 DEF DispatchOk, mainVars, hostVars
<1>29. ASSUME NEW s \in Subs, DispatchFail(s) PROVE Accounted'
  BY <1>29 DEF DispatchFail, mainVars, hostVars
<1>30. ASSUME NEW s \in Subs, SetPluginEnabled(s) PROVE Accounted'
  BY <1>30 DEF SetPluginEnabled, regVars, mainVars, hostVars
<1>31. CASE UNCHANGED pluginVars
  BY <1>31 DEF pluginVars
<1> QED
  BY <1>1, <1>2, <1>3, <1>4, <1>5, <1>6, <1>7, <1>8, <1>9, <1>10, <1>11, <1>12, <1>13, <1>14, <1>15, <1>16, <1>17, <1>18, <1>19, <1>20, <1>21, <1>22, <1>23, <1>24, <1>25, <1>26, <1>27, <1>28, <1>29, <1>30, <1>31
  DEF PluginNext, MainStep, WaitStep, BridgeStep

\* When StartAll has given up or StopAll is through, no process, connection, socket
\* or route of any plugin is left, whichever plugins failed and wherever.
THEOREM CleanShutdownCorrect == PluginSpec => []CleanShutdown
<1>1. PluginInit => BusPhase /\ StopQuiesces /\ Accounted
  BY DEF PluginInit, BusPhase, StopQuiesces, Accounted, AtWork, Quiet, StartPcs, StopPcs
<1>2. PluginTypeOK /\ BusPhase /\ StopQuiesces /\ Accounted /\ [PluginNext]_pluginVars
        => BusPhase' /\ StopQuiesces' /\ Accounted'
  BY QuiesceStep, AccountedStep
<1>3. PluginTypeOK /\ BusPhase /\ Accounted => CleanShutdown
  BY DEF PluginTypeOK, BusPhase, Accounted, CleanShutdown, AtWork, Quiet, StartPcs, StopPcs
<1> QED
  BY PluginTypeCorrect, <1>1, <1>2, <1>3, PTL DEF PluginSpec

=============================================================================
