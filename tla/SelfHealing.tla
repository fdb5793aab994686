----------------------------- MODULE SelfHealing -----------------------------
(***************************************************************************)
(* Crash detection and automatic restart on top of ServerLifecycle:        *)
(* internal/orchestrator/crash_observer.go polls the runtime and publishes *)
(* server.crashed on the event bus (eventbus.go), selfheal.go starts one   *)
(* goroutine per event, which waits out a backoff and restarts the server  *)
(* through the same Lifecycle the commands use.                            *)
(*                                                                         *)
(* A healer is the caller slot of one handle() goroutine.  SelfHealer's own *)
(* `manual` map is only filled by MarkManualStop, which nothing calls, so   *)
(* it is always empty and its test is left out.  The backoff is a delay of  *)
(* arbitrary length.                                                        *)
(***************************************************************************)
EXTENDS ServerLifecycle, Sequences

CONSTANTS Healers,     \* handle() goroutines alive at once (a bound)
          MaxRetries,  \* RestartPolicy.MaxRetries
          BusCap       \* buffer of a subscriber channel, 64 in the code

ASSUME HealingAssumption ==
    /\ Healers \subseteq Callers \ CliCallers
    /\ IsFiniteSet(Healers)
    /\ MaxRetries \in Nat
    /\ BusCap \in Nat

VARIABLES
    restarts,  \* servers.restart_count
    crashQ,    \* the self-healer's channel of server.crashed events
    previous,  \* the observer's map from server to last sampled status
    todo,      \* servers of this tick's ListServers still to sample
    sample,    \* status just read by the observer, before it acts on it
    hpc, hsrv, \* step and server of each handle() goroutine
    healed     \* history: servers the healer has ever restarted

healVars == <<restarts, crashQ, previous, todo, sample, hpc, hsrv, healed>>
obsVars == <<previous, todo, sample>>
vars == <<lifeVars, healVars>>

NoSample == [srv |-> None, state |-> "unused"]
HealPcs == {"idle", "check", "giveup", "backoff", "restarting", "count"}

-----------------------------------------------------------------------------
(* CrashObserver.Run: one tick lists the servers, then treats them in turn.  *)

ObserverTick ==
    /\ todo = {} /\ sample = NoSample
    /\ todo' = {<<s, rowCid[s]>> : s \in {t \in Servers : Live(t) /\ rowCid[t] # None}}
    /\ UNCHANGED <<lifeVars, restarts, crashQ, previous, sample, hpc, hsrv, healed>>

\* runtime.Status of the listed container id; on an error the server is skipped.
ObserverSample(s, c) ==
    /\ sample = NoSample
    /\ <<s, c>> \in todo
    /\ todo' = todo \ {<<s, c>>}
    /\ \/ Exists(c) /\ sample' = [srv |-> s, state |-> ctrState[c]]
       \/ (~Exists(c) \/ "runtime" \in Faults) /\ UNCHANGED sample
    /\ UNCHANGED <<lifeVars, restarts, crashQ, previous, hpc, hsrv, healed>>

\* EventBus.Publish never waits: a full subscriber loses the event.
Publish(s) ==
    crashQ' = IF Len(crashQ) < BusCap THEN Append(crashQ, s) ELSE crashQ

\* MUTANT: `previous` is written before it is compared, so nothing ever goes down.
ObserverDecideLate ==
    /\ sample # NoSample
    /\ previous' = [previous EXCEPT ![sample.srv] =
                        IF sample.state = "running" THEN "running" ELSE "down"]
    /\ sample' = NoSample
    /\ UNCHANGED <<lifeVars, restarts, crashQ, todo, hpc, hsrv, healed>>

\* MUTANT: the observer writes the status it saw into the row.
ObserverDecideWritesRow ==
    /\ sample # NoSample
    /\ IF sample.state = "running"
         THEN UNCHANGED rowStatus
         ELSE UpdateServerStatus(sample.srv, "stopped")
    /\ sample' = NoSample
    /\ UNCHANGED <<rowCid, ctrVars, manualStops, opVars, disturbed,
                   restarts, crashQ, previous, todo, hpc, hsrv, healed>>

\* MUTANT: the restart count is reset as soon as the server is seen running.
ObserverDecideResets ==
    LET s == sample.srv
        wentDown == previous[s] = "running" /\ sample.state # "running"
    IN  /\ sample # NoSample
        /\ IF wentDown THEN IsManualStop(s) ELSE UNCHANGED lifeVars
        /\ IF wentDown /\ s \notin manualStops THEN Publish(s) ELSE UNCHANGED crashQ
        /\ previous' = [previous EXCEPT ![s] =
                            IF sample.state = "running" THEN "running" ELSE "down"]
        /\ restarts' = IF sample.state = "running" THEN [restarts EXCEPT ![s] = 0] ELSE restarts
        /\ sample' = NoSample
        /\ UNCHANGED <<todo, hpc, hsrv, healed>>

\* Running before and not running now: a mark in manualStops is consumed and
\* explains it, otherwise it is a crash.
ObserverDecide ==
    LET s == sample.srv
        wentDown == previous[s] = "running" /\ sample.state # "running"
    IN  /\ sample # NoSample
        /\ IF wentDown THEN IsManualStop(s) ELSE UNCHANGED lifeVars
        /\ IF wentDown /\ s \notin manualStops THEN Publish(s) ELSE UNCHANGED crashQ
        /\ previous' = [previous EXCEPT ![s] =
                            IF sample.state = "running" THEN "running" ELSE "down"]
        /\ sample' = NoSample
        /\ UNCHANGED <<restarts, todo, hpc, hsrv, healed>>

-----------------------------------------------------------------------------
(* SelfHealer.                                                               *)

HealGoto(h, next) == hpc' = [hpc EXCEPT ![h] = next]

HealDone(h) ==
    /\ HealGoto(h, "idle")
    /\ hsrv' = [hsrv EXCEPT ![h] = None]

\* Start: an event is taken off the channel and a goroutine handles it.
HealReceive(h) ==
    /\ hpc[h] = "idle"
    /\ crashQ # <<>>
    /\ crashQ' = Tail(crashQ)
    /\ HealGoto(h, "check")
    /\ hsrv' = [hsrv EXCEPT ![h] = Head(crashQ)]
    /\ UNCHANGED <<lifeVars, restarts, obsVars, healed>>

\* MUTANT: one retry too many.
HealCheckPastLimit(h) ==
    /\ hpc[h] = "check"
    /\ Live(hsrv[h])
    /\ HealGoto(h, IF restarts[hsrv[h]] > MaxRetries THEN "giveup" ELSE "backoff")
    /\ UNCHANGED <<lifeVars, restarts, crashQ, obsVars, hsrv, healed>>

\* handle: the restart count read here decides.
HealCheck(h) ==
    /\ hpc[h] = "check"
    /\ \/ /\ Live(hsrv[h])
          /\ HealGoto(h, IF restarts[hsrv[h]] >= MaxRetries THEN "giveup" ELSE "backoff")
          /\ UNCHANGED hsrv
       \/ /\ ~Live(hsrv[h]) \/ "db" \in Faults
          /\ HealDone(h)
    /\ UNCHANGED <<lifeVars, restarts, crashQ, obsVars, healed>>

HealGiveUp(h) ==
    /\ hpc[h] = "giveup"
    /\ MarkCrashLooping(hsrv[h]) \/ ("db" \in Faults /\ UNCHANGED lifeVars)
    /\ HealDone(h)
    /\ UNCHANGED <<restarts, crashQ, obsVars, healed>>

\* The backoff is over: RestartServer, whatever happened to the server since.
HealRestart(h) ==
    /\ hpc[h] = "backoff"
    /\ RestartServer(h, hsrv[h])
    /\ HealGoto(h, "restarting")
    /\ healed' = healed \cup {hsrv[h]}
    /\ UNCHANGED <<restarts, crashQ, obsVars, hsrv>>

HealReturned(h) ==
    /\ hpc[h] = "restarting"
    /\ pc[h] = "idle"
    /\ \/ result[h] = "ok" /\ HealGoto(h, "count") /\ UNCHANGED hsrv
       \/ result[h] # "ok" /\ HealDone(h)
    /\ UNCHANGED <<lifeVars, restarts, crashQ, obsVars, healed>>

\* IncrementRestartCount and the server.recovered event; errors are ignored.
HealCount(h) ==
    /\ hpc[h] = "count"
    /\ \/ restarts' = IF Live(hsrv[h]) THEN [restarts EXCEPT ![hsrv[h]] = @ + 1] ELSE restarts
       \/ "db" \in Faults /\ UNCHANGED restarts
    /\ HealDone(h)
    /\ UNCHANGED <<lifeVars, crashQ, obsVars, healed>>

-----------------------------------------------------------------------------
\* The daemon restarts: observer, bus and goroutines start from nothing.
Crash ==
    /\ DaemonCrash
    /\ crashQ' = <<>>
    /\ previous' = [s \in Servers |-> "unseen"]
    /\ todo' = {}
    /\ sample' = NoSample
    /\ hpc' = [h \in Healers |-> "idle"]
    /\ hsrv' = [h \in Healers |-> None]
    /\ UNCHANGED <<restarts, healed>>

Init ==
    /\ LifeInit
    /\ restarts = [s \in Servers |-> 0]
    /\ crashQ = <<>>
    /\ previous = [s \in Servers |-> "unseen"]
    /\ todo = {}
    /\ sample = NoSample
    /\ hpc = [h \in Healers |-> "idle"]
    /\ hsrv = [h \in Healers |-> None]
    /\ healed = {}

\* A step of the lifecycle alone.
Commands ==
    /\ \/ \E p \in Callers \ Healers : Invoke(p)
       \/ \E p \in Callers : Step(p)
       \/ \E c \in Containers : ContainerExits(c)
       \/ \E p \in CliCallers : CliKilled(p)
    /\ UNCHANGED healVars

Observe ==
    \/ ObserverTick
    \/ \E s \in Servers, c \in Containers : ObserverSample(s, c)
    \/ ObserverDecide

HealStep(h) ==
    \/ HealReceive(h) \/ HealCheck(h) \/ HealGiveUp(h)
    \/ HealRestart(h) \/ HealReturned(h) \/ HealCount(h)

Next ==
    \/ Commands
    \/ Observe
    \/ \E h \in Healers : HealStep(h)
    \/ Crash

Spec == Init /\ [][Next]_vars

\* The Go scheduler runs every goroutine, the ticker keeps firing and the
\* engine answers: an invocation, the observer and a handler are never left
\* half-way forever.  Nothing forces a command, a container exit or a fault.
Fairness ==
    /\ \A p \in Callers : WF_vars(Step(p) /\ UNCHANGED healVars)
    /\ WF_vars(Observe)
    /\ \A h \in Healers : WF_vars(HealStep(h))

FairSpec == Spec /\ Fairness

-----------------------------------------------------------------------------
(* Properties.                                                               *)

\* Type invariant of the observer, the bus and the healer goroutines.
HealTypeOK ==
    /\ LifeTypeOK
    /\ restarts \in [Servers -> Nat]
    /\ crashQ \in Seq(Servers)
    /\ previous \in [Servers -> {"unseen", "running", "down"}]
    /\ todo \in SUBSET (Servers \X Containers)
    /\ sample \in [srv : Servers, state : CtrStates] \cup {NoSample}
    /\ hpc \in [Healers -> HealPcs]
    /\ hsrv \in [Healers -> Servers \cup {None}]
    /\ healed \in SUBSET Servers

RunningNow(s) == rowCid[s] # None /\ ctrState[rowCid[s]] = "running"
ExitedNow(s) == rowCid[s] # None /\ ctrState[rowCid[s]] = "exited"

\* Handlers of s that passed the limit check of handle() and have not counted.
InFlight(s) ==
    {h \in Healers : hsrv[h] = s /\ hpc[h] \in {"backoff", "restarting", "count"}}

\* The retry limit is overshot only by handlers that were in flight together:
\* every handler still to count its restart passed the check below the limit,
\* so the count stays below MaxRetries plus the number of handlers.
RestartsBounded ==
    \A s \in Servers :
        restarts[s] + Cardinality(InFlight(s)) < MaxRetries + Cardinality(Healers)
          \/ (restarts[s] = 0 /\ InFlight(s) = {})

\* A mark in manualStops never survives into a later run of the server: with
\* the commands of one server one at a time, all through the daemon, and no
\* automatic restart, a running server is marked only while StopServer is about
\* to stop it.  Otherwise a later crash would be taken for that old stop.
NoStaleMark ==
    CliCallers = {} =>
        \A s \in manualStops :
            s \notin disturbed \cup healed /\ RunningNow(s) =>
                \E p \in Callers : srv[p] = s /\ pc[p] = "t_stop"

=============================================================================
