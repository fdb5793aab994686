-------------------------- MODULE DaemonPartsProofs --------------------------
(***************************************************************************)
(* Proofs about the four small parts of the daemon, EventHistory, Metrics,  *)
(* ResourceLimits and NetworkGroups, for any sets of servers, callers and   *)
(* nodes, any bounds and any faults.  Each part has an invariant of its own  *)
(* over its own variables; PartsSpec takes a step of one of them at a time.  *)
(***************************************************************************)
EXTENDS MCDaemonParts, FiniteSetTheorems, TLAPS

-----------------------------------------------------------------------------
(* EventHistory.                                                             *)

HistorySpec == HistoryInit /\ [][HistoryNext]_historyVars

\* Types.  What waits in the channel has not been counted yet, so the counter
\* stays below the number of events published.
HistoryTyped ==
    /\ servers \subseteq Servers /\ now \in 0..MaxEvents /\ runs \in 1..MaxRuns
    /\ queue \in Seq(Events) /\ Len(queue) <= MaxQueue
    /\ rec \in {"off", "select", "save"}
    /\ rec = "save" => event \in Events /\ seq > 0
    /\ seq \in Nat /\ seq + Len(queue) <= now
    /\ \A i \in DOMAIN table : i \in 1..MaxEvents /\ table[i] \in {Row(e) : e \in Events}

\* Rows, the event being saved and the channel are in the order of publication.
HistoryOrdered ==
    /\ \A i \in DOMAIN table : table[i].n <= now
    /\ \A k \in 1..Len(queue) : queue[k].n <= now
    /\ \A k, l \in 1..Len(queue) : k < l => queue[k].n < queue[l].n
    /\ \A i \in DOMAIN table : \A k \in 1..Len(queue) : table[i].n < queue[k].n
    /\ rec = "save" => /\ event.n <= now
                       /\ \A k \in 1..Len(queue) : event.n < queue[k].n
                       /\ \A i \in DOMAIN table : table[i].n < event.n
    /\ \A i, j \in DOMAIN table : table[i].n = table[j].n => i = j

\* In the first run the ids are in that order, too.
FirstRun ==
    runs = 1 => /\ \A i, j \in DOMAIN table : i < j => table[i].n < table[j].n
                /\ \A i \in DOMAIN table : i <= seq
                /\ rec = "save" => \A i \in DOMAIN table : i < seq

HistoryInv == HistoryTyped /\ HistoryOrdered /\ FirstRun

\* The channel grows by an event with the highest number of all, or stays.
LEMMA PublishInv ==
    ASSUME HistoryInv, NEW s \in Servers \cup {NoServer}, NEW ty \in EventTypes,
           Publish(s, ty)
    PROVE  /\ now' \in 0..MaxEvents /\ now' > now
           /\ queue' \in Seq(Events) /\ Len(queue') <= MaxQueue /\ seq + Len(queue') <= now'
           /\ \A k \in 1..Len(queue') : \/ k \in 1..Len(queue) /\ queue'[k] = queue[k]
                                        \/ k > Len(queue) /\ queue'[k].n = now'
           /\ \A k \in 1..Len(queue') : queue'[k].n <= now'
           /\ \A k, l \in 1..Len(queue') : k < l => queue'[k].n < queue'[l].n
<1> DEFINE e == [n |-> now + 1, srv |-> s, type |-> ty]
<1>1. now' = now + 1 /\ now + 1 \in 1..MaxEvents /\ now' \in 0..MaxEvents /\ now \in Nat
  BY HistoryAssumption DEF Publish, HistoryInv, HistoryTyped
<1>2. e \in Events /\ e.n = now + 1
  BY <1>1 DEF Events
<1>3. /\ Len(queue) \in Nat /\ seq \in Nat /\ seq + Len(queue) <= now
      /\ \A k \in 1..Len(queue) : queue[k].n \in Nat /\ queue[k].n <= now
  <2>1. queue \in Seq(Events)
    BY DEF HistoryInv, HistoryTyped
  <2>2. Len(queue) \in Nat /\ \A k \in 1..Len(queue) : queue[k] \in Events
    BY <2>1
  <2>3. \A x \in Events : x.n \in Nat
    BY DEF Events
  <2>4. QED BY <2>2, <2>3 DEF HistoryInv, HistoryTyped, HistoryOrdered
<1>4. CASE queue' = queue
  <2>1. \A k \in 1..Len(queue) : queue[k].n <= now'
    BY <1>1, <1>3
  <2>2. seq + Len(queue) <= now'
    BY <1>1, <1>3
  <2>3. /\ queue \in Seq(Events) /\ Len(queue) <= MaxQueue
        /\ \A k, l \in 1..Len(queue) : k < l => queue[k].n < queue[l].n
    BY DEF HistoryInv, HistoryTyped, HistoryOrdered
  <2>4. QED BY <1>1, <1>4, <2>1, <2>2, <2>3
<1>5. CASE queue' = Append(queue, e) /\ Len(queue) < MaxQueue
  <2>1. /\ queue' \in Seq(Events) /\ Len(queue') = Len(queue) + 1 /\ Len(queue) \in Nat
        /\ \A k \in 1..Len(queue) : queue'[k] = queue[k]
        /\ queue'[Len(queue) + 1] = e
    BY <1>2, <1>5 DEF HistoryInv, HistoryTyped
  <2>2. \A k \in 1..Len(queue) : queue[k].n \in Nat /\ queue[k].n <= now
    BY <1>3
  <2>3. MaxQueue \in Nat /\ seq \in Nat /\ seq + Len(queue) <= now
    BY <1>3, HistoryAssumption
  <2>4. \A k \in 1..Len(queue') : \/ k \in 1..Len(queue) /\ queue'[k] = queue[k]
                                  \/ k > Len(queue) /\ queue'[k].n = now'
    <3>1. queue'[Len(queue) + 1].n = now'
      BY <1>1, <1>2, <2>1
    <3>2. \A k \in 1..Len(queue') : k \in 1..Len(queue) \/ (k = Len(queue) + 1 /\ k > Len(queue))
      BY <2>1
    <3>3. QED BY <2>1, <3>1, <3>2
  <2>5. \A k \in 1..Len(queue') : queue'[k].n <= now'
    BY <1>1, <2>1, <2>2, <2>4
  <2>6. ASSUME NEW k \in 1..Len(queue'), NEW l \in 1..Len(queue'), k < l
        PROVE  queue'[k].n < queue'[l].n
    <3>1. k \in 1..Len(queue) /\ queue'[k] = queue[k]
      BY <2>1, <2>6
    <3>2. CASE l \in 1..Len(queue)
      BY <2>1, <2>6, <3>1, <3>2 DEF HistoryInv, HistoryOrdered
    <3>3. CASE l > Len(queue)
      BY <1>1, <2>1, <2>2, <2>4, <3>1, <3>3
    <3>4. QED BY <2>1, <3>2, <3>3
  <2>7. QED BY <1>1, <1>5, <2>1, <2>3, <2>4, <2>5, <2>6
<1>6. QED BY <1>1, <1>4, <1>5 DEF Publish

\* A step that publishes and at most deletes rows.
LEMMA PublishStepInv ==
    ASSUME HistoryInv, NEW s \in Servers \cup {NoServer}, NEW ty \in EventTypes,
           Publish(s, ty), servers' \subseteq Servers,
           DOMAIN table' \subseteq DOMAIN table, \A i \in DOMAIN table' : table'[i] = table[i],
           UNCHANGED <<rec, event, seq, runs>>
    PROVE  HistoryInv'
<1>1. /\ now' \in 0..MaxEvents /\ now' > now /\ now \in Nat /\ now' \in Nat
      /\ queue' \in Seq(Events) /\ Len(queue') <= MaxQueue /\ seq + Len(queue') <= now'
      /\ \A k \in 1..Len(queue') : \/ k \in 1..Len(queue) /\ queue'[k] = queue[k]
                                   \/ k > Len(queue) /\ queue'[k].n = now'
      /\ \A k \in 1..Len(queue') : queue'[k].n <= now'
      /\ \A k, l \in 1..Len(queue') : k < l => queue'[k].n < queue'[l].n
  BY PublishInv, HistoryAssumption DEF HistoryInv, HistoryTyped
<1>2. HistoryTyped'
  BY <1>1 DEF HistoryInv, HistoryTyped, Row
<1>3. \A i \in DOMAIN table : table[i].n \in Nat /\ table[i].n <= now
  BY DEF HistoryInv, HistoryTyped, HistoryOrdered, Row, Events
<1>4. rec = "save" => event.n \in Nat /\ event.n <= now
  BY DEF HistoryInv, HistoryTyped, HistoryOrdered, Events
<1>5. HistoryOrdered'
  <2>1. \A i \in DOMAIN table' : table'[i].n <= now'
    BY <1>1, <1>3
  <2>2. \A i \in DOMAIN table' : \A k \in 1..Len(queue') : table'[i].n < queue'[k].n
    BY <1>1, <1>3 DEF HistoryInv, HistoryOrdered
  <2>3. rec' = "save" => /\ event'.n <= now'
                         /\ \A k \in 1..Len(queue') : event'.n < queue'[k].n
                         /\ \A i \in DOMAIN table' : table'[i].n < event'.n
    BY <1>1, <1>4 DEF HistoryInv, HistoryOrdered
  <2>4. \A i, j \in DOMAIN table' : table'[i].n = table'[j].n => i = j
    BY DEF HistoryInv, HistoryOrdered
  <2>5. QED BY <1>1, <2>1, <2>2, <2>3, <2>4 DEF HistoryOrdered
<1>6. FirstRun'
  BY DEF HistoryInv, FirstRun
<1>7. QED BY <1>2, <1>5, <1>6 DEF HistoryInv

\* Taking an event from the channel: it is the next one to be recorded.
LEMMA RecorderTakeInv == ASSUME HistoryInv, RecorderTake PROVE HistoryInv'
<1>1. /\ queue \in Seq(Events) /\ queue # <<>> /\ event' = queue[1] /\ queue' = Tail(queue)
      /\ seq' = seq + 1 /\ rec = "select" /\ rec' = "save" /\ seq \in Nat /\ now \in Nat
      /\ Len(queue) <= MaxQueue /\ seq + Len(queue) <= now
      /\ servers' = servers /\ now' = now /\ table' = table /\ runs' = runs
  BY HistoryAssumption DEF RecorderTake, HistoryInv, HistoryTyped
<1>2. /\ queue' \in Seq(Events) /\ Len(queue') = Len(queue) - 1 /\ Len(queue) \in Nat \ {0}
      /\ event' \in Events /\ 1 \in 1..Len(queue)
      /\ \A k \in 1..Len(queue') : k + 1 \in 1..Len(queue) /\ queue'[k] = queue[k + 1] /\ 1 < k + 1
  BY <1>1
<1>3. HistoryTyped'
  BY <1>1, <1>2, HistoryAssumption DEF HistoryInv, HistoryTyped, Row
<1>4. HistoryOrdered'
  <2>1. \A k, l \in 1..Len(queue') : k < l => k + 1 < l + 1
    BY <1>2
  <2>2. \A k, l \in 1..Len(queue') : k < l => queue'[k].n < queue'[l].n
    BY <1>2, <2>1 DEF HistoryInv, HistoryOrdered
  <2>3. \A k \in 1..Len(queue') : queue'[k].n <= now' /\ event'.n < queue'[k].n
    BY <1>1, <1>2 DEF HistoryInv, HistoryOrdered
  <2>4. QED BY <1>1, <1>2, <2>2, <2>3 DEF HistoryInv, HistoryOrdered
<1>5. FirstRun'
  <2>1. \A i \in DOMAIN table : i \in Nat
    BY DEF HistoryInv, HistoryTyped
  <2>2. QED BY <1>1, <2>1 DEF HistoryInv, FirstRun
<1>6. QED BY <1>3, <1>4, <1>5 DEF HistoryInv

\* The INSERT: the new row has the highest number, and the highest id of the first run.
LEMMA SaveEventInv == ASSUME HistoryInv, SaveEvent PROVE HistoryInv'
<1>1. /\ rec = "save" /\ rec' = "select" /\ event \in Events /\ seq \in 1..MaxEvents
      /\ event.n \in Nat /\ event.n <= now
      /\ UNCHANGED <<servers, now, queue, event, seq, runs>>
  BY HistoryAssumption DEF SaveEvent, HistoryInv, HistoryTyped, HistoryOrdered, Events
<1>2. CASE UNCHANGED table
  BY <1>1, <1>2 DEF HistoryInv, HistoryTyped, HistoryOrdered, FirstRun, Row
<1>3. CASE /\ seq \notin DOMAIN table
           /\ table' = [i \in DOMAIN table \cup {seq} |-> IF i = seq THEN Row(event) ELSE table[i]]
  <2>1. /\ DOMAIN table' = DOMAIN table \cup {seq} /\ table'[seq] = Row(event)
        /\ \A i \in DOMAIN table : i # seq /\ table'[i] = table[i] /\ i \in 1..MaxEvents
        /\ table'[seq].n = event.n
    BY <1>3 DEF HistoryInv, HistoryTyped, Row
  <2>2. HistoryTyped'
    BY <1>1, <2>1 DEF HistoryInv, HistoryTyped, Row
  <2>3. \A i \in DOMAIN table : table[i].n \in Nat /\ table[i].n < event.n
    BY <1>1 DEF HistoryInv, HistoryTyped, HistoryOrdered, Row, Events
  <2>4. HistoryOrdered'
    BY <1>1, <2>1, <2>3 DEF HistoryInv, HistoryOrdered
  <2>5. FirstRun'
    BY <1>1, <2>1, <2>3 DEF HistoryInv, FirstRun
  <2>6. QED BY <2>2, <2>4, <2>5 DEF HistoryInv
<1>4. QED BY <1>2, <1>3 DEF SaveEvent

LEMMA HistoryInitInv == HistoryInit => HistoryInv
  BY HistoryAssumption DEF HistoryInit, HistoryInv, HistoryTyped, HistoryOrdered, FirstRun

LEMMA HistoryNextInv == HistoryInv /\ [HistoryNext]_historyVars => HistoryInv'
<1> SUFFICES ASSUME HistoryInv, [HistoryNext]_historyVars PROVE HistoryInv'
  OBVIOUS
<1>1. ASSUME NEW s \in Servers, CreateServer(s) PROVE HistoryInv'
  BY <1>1, PublishStepInv DEF CreateServer, HistoryInv, HistoryTyped, EventTypes
<1>2. ASSUME NEW s \in Servers, StartServer(s) PROVE HistoryInv'
  BY <1>2, PublishStepInv DEF StartServer, HistoryInv, HistoryTyped, EventTypes
<1>3. ASSUME NEW s \in Servers, DeleteServer(s) PROVE HistoryInv'
  <2>1. DOMAIN table' \subseteq DOMAIN table /\ \A i \in DOMAIN table' : table'[i] = table[i]
    BY <1>3 DEF DeleteServer
  <2>2. QED BY <1>3, <2>1, PublishStepInv DEF DeleteServer, HistoryInv, HistoryTyped, EventTypes
<1>4. CASE StartRecorder
  BY <1>4 DEF StartRecorder, HistoryInv, HistoryTyped, HistoryOrdered, FirstRun, Row
<1>5. CASE DaemonRestart
  BY <1>5, HistoryAssumption
     DEF DaemonRestart, HistoryInv, HistoryTyped, HistoryOrdered, FirstRun, Row
<1>6. CASE ChildEnded
  BY <1>6, PublishStepInv DEF ChildEnded, HistoryInv, HistoryTyped, EventTypes
<1>7. CASE UNCHANGED historyVars
  BY <1>7 DEF historyVars, HistoryInv, HistoryTyped, HistoryOrdered, FirstRun, Row
<1>8. QED
  BY <1>1, <1>2, <1>3, <1>4, <1>5, <1>6, <1>7, RecorderTakeInv, SaveEventInv DEF HistoryNext, RecorderStep

\* Rows of a server that is there before and after a step stay as they are: a DELETE
\* takes the rows of its server only, an INSERT never one that is there.
LEMMA RowsStayNext ==
    ASSUME [HistoryNext]_historyVars, NEW s \in servers, s \in servers', s # NoServer,
           NEW ty \in EventTypes
    PROVE  Matching(s, {ty}, ZeroTime, ZeroTime) \subseteq Matching(s, {ty}, ZeroTime, ZeroTime)'
<1>1. \A i \in DOMAIN table : table[i].srv = s => i \in DOMAIN table' /\ table'[i] = table[i]
  <2>1. ASSUME NEW t \in Servers, DeleteServer(t), NEW i \in DOMAIN table, table[i].srv = s
        PROVE  i \in DOMAIN table' /\ table'[i] = table[i]
    BY <2>1 DEF DeleteServer
  <2>2. CASE SaveEvent
    BY <2>2 DEF SaveEvent
  <2>3. QED
    BY <2>1, <2>2 DEF HistoryNext, CreateServer, StartServer, ChildEnded, RecorderStep,
       StartRecorder, RecorderTake, DaemonRestart, historyVars
<1>2. QED BY <1>1 DEF Matching

\* The history keeps its types: the recorder's counter, which names the rows, never
\* runs past the events published.
THEOREM HistoryTypeCorrect == HistorySpec => []HistoryTypeOK
<1>1. HistoryInv => HistoryTypeOK
  BY HistoryAssumption DEF HistoryInv, HistoryTyped, HistoryTypeOK
<1>2. QED BY <1>1, HistoryInitInv, HistoryNextInv, PTL DEF HistorySpec

\* No event is recorded twice, and within the first run of the daemon the ids follow
\* the order of publication, for any number of events, servers, runs and faults.
THEOREM RecordedOnceCorrect == HistorySpec => []RecordedOnce
<1>1. HistoryInv => RecordedOnce
  BY DEF HistoryInv, HistoryOrdered, FirstRun, RecordedOnce
<1>2. QED BY <1>1, HistoryInitInv, HistoryNextInv, PTL DEF HistorySpec

\* A query for one server does not fail and returns again what it has returned, as long
\* as its limit admits all there is: recording, restarts and the deletion of other
\* servers neither change nor remove a row of it, for any history.
THEOREM RowsStayCorrect == HistorySpec => RowsStay
<1> DEFINE List(s, ty) == ListEvents(s, {ty}, ZeroTime, ZeroTime, QueryLimit)
           All(s, ty) == Matching(s, {ty}, ZeroTime, ZeroTime)
           Stay == \A s \in servers \cap servers', ty \in EventTypes :
              \A before \in List(s, ty) :
                 /\ ~ScanFails(before)
                 /\ Cardinality(All(s, ty)') <= QueryLimit
                      => \A after \in List(s, ty)' : before \subseteq after
<1>1. HistoryInv /\ [HistoryNext]_historyVars => [Stay]_historyVars
  <2> SUFFICES ASSUME HistoryInv, [HistoryNext]_historyVars,
                      NEW s \in servers, s \in servers', NEW ty \in EventTypes,
                      NEW before \in List(s, ty)
               PROVE  /\ ~ScanFails(before)
                      /\ Cardinality(All(s, ty)') <= QueryLimit
                           => \A after \in List(s, ty)' : before \subseteq after
    OBVIOUS
  <2>1. s # NoServer
    BY HistoryAssumption DEF HistoryInv, HistoryTyped
  <2>2. before \subseteq All(s, ty)
    BY DEF ListEvents
  <2>3. ~ScanFails(before)
    BY <2>1, <2>2 DEF ScanFails, Matching
  <2>4. All(s, ty) \subseteq All(s, ty)'
    BY <2>1, RowsStayNext
  <2>5. ASSUME Cardinality(All(s, ty)') <= QueryLimit, NEW after \in List(s, ty)'
        PROVE  after = All(s, ty)'
    BY <2>5 DEF ListEvents
  <2>6. QED BY <2>2, <2>3, <2>4, <2>5
<1>2. QED BY <1>1, HistoryInitInv, HistoryNextInv, PTL DEF HistorySpec, RowsStay

-----------------------------------------------------------------------------
(* Metrics.                                                                  *)

MetricsSpec == MetricsInit /\ [][MetricsNext]_metricsVars

\* The figures a list of rows ought to give.
Figures(listed, of) == [s \in of |-> listed[s] = "container"]

\* The pass has the figures of the rows it is through with.
PassInv ==
    /\ pass = [listed |-> pass.listed, todo |-> pass.todo, got |-> pass.got]
    /\ DOMAIN pass.listed \subseteq Monitored /\ pass.todo \subseteq DOMAIN pass.listed
    /\ pass.got = Figures(pass.listed, DOMAIN pass.listed \ pass.todo)
    /\ sched # "stats" => pass = NoPass

\* The snapshot has those of all rows of the pass it was taken from.
SnapInv ==
    /\ snap.tunnels \subseteq Monitored
    /\ snap.servers = Figures(origin, DOMAIN origin)

WorldTyped ==
    /\ rows \in [Monitored -> RowStates] /\ engine \subseteq Monitored
    /\ tunnels \subseteq Monitored /\ changes \in 0..MaxChanges
    /\ sched \in {"list", "stats", "select", "off"}
    /\ report.failed \subseteq Probes /\ report.status \in {"healthy", "degraded", "unhealthy"}
    /\ done \in BOOLEAN /\ open \in BOOLEAN

MetricsInv == WorldTyped /\ PassInv /\ SnapInv

\* No pass is a pass that is through with nothing.
LEMMA NoPassInv == /\ NoPass = [listed |-> NoPass.listed, todo |-> NoPass.todo, got |-> NoPass.got]
                   /\ DOMAIN NoPass.listed = {} /\ NoPass.todo = {}
                   /\ NoPass.got = Figures(NoPass.listed, {})
  BY DEF NoPass, Figures

\* A pass that ends, well or not, leaves no trace but the snapshot.
LEMMA PassEnds == ASSUME pass' = NoPass PROVE PassInv'
  BY NoPassInv DEF PassInv

LEMMA MetricsInitInv == MetricsInit => MetricsInv
<1> SUFFICES ASSUME MetricsInit PROVE MetricsInv
  OBVIOUS
<1>1. WorldTyped
  <2>1. rows \in [Monitored -> RowStates] /\ changes \in 0..MaxChanges
    BY MetricsAssumption DEF MetricsInit, RowStates
  <2>2. report.failed \subseteq Probes /\ report.status \in {"healthy", "degraded", "unhealthy"}
    BY DEF MetricsInit
  <2>3. engine \subseteq Monitored /\ tunnels \subseteq Monitored
    BY DEF MetricsInit
  <2>4. sched \in {"list", "stats", "select", "off"} /\ done \in BOOLEAN /\ open \in BOOLEAN
    BY Zenon DEF MetricsInit
  <2>5. QED BY <2>1, <2>2, <2>3, <2>4 DEF WorldTyped
<1>2. PassInv
  BY NoPassInv DEF MetricsInit, PassInv
<1>3. SnapInv
  BY DEF MetricsInit, SnapInv, Figures
<1>4. QED BY <1>1, <1>2, <1>3 DEF MetricsInv

\* A failing call costs one change at most.
LEMMA FailsTyped ==
    ASSUME WorldTyped, RefreshFails, Change \/ UNCHANGED changes
    PROVE  WorldTyped' /\ PassInv' /\ (SnapInv => SnapInv')
<1>1. WorldTyped'
  BY MetricsAssumption DEF WorldTyped, RefreshFails, Change, world
<1>2. QED BY <1>1, PassEnds DEF RefreshFails, SnapInv

LEMMA MetricsNextInv == MetricsInv /\ [MetricsNext]_metricsVars => MetricsInv'
<1> SUFFICES ASSUME MetricsInv, [MetricsNext]_metricsVars PROVE MetricsInv'
  OBVIOUS
<1> USE DEF MetricsInv
<1>1. ASSUME NEW s \in Monitored, ServerChanges(s) \/ TunnelChanges(s) PROVE MetricsInv'
  <2>1. WorldTyped'
    BY <1>1, MetricsAssumption DEF WorldTyped, ServerChanges, TunnelChanges, Change, RowStates
  <2>2. QED BY <1>1, <2>1 DEF ServerChanges, TunnelChanges, PassInv, SnapInv
<1>2. CASE ListServers
  <2>1. CASE open /\ pass' = [listed |-> [s \in Listing |-> rows[s]], todo |-> Listing,
                              got |-> [s \in {} |-> FALSE]]
             /\ sched' = "stats" /\ UNCHANGED <<world, changes, snap, origin, report, done, open>>
    <3>1. WorldTyped' /\ SnapInv'
      BY <2>1 DEF WorldTyped, SnapInv, world
    <3>2. PassInv'
      BY <2>1 DEF PassInv, Listing, Figures
    <3>3. QED BY <3>1, <3>2
  <2>2. CASE StatementFails /\ RefreshFails
    BY <2>2, FailsTyped DEF StatementFails
  <2>3. QED BY <1>2, <2>1, <2>2 DEF ListServers
<1>3. ASSUME NEW s \in Monitored, Stats(s) PROVE MetricsInv'
  <2>1. sched = "stats" /\ s \in pass.todo /\ s \in DOMAIN pass.listed
    BY <1>3 DEF Stats, PassInv
  <2>2. CASE /\ pass' = [pass EXCEPT !.todo = @ \ {s},
                          !.got = [t \in DOMAIN @ \cup {s} |-> pass.listed[t] = "container"]]
             /\ UNCHANGED <<world, changes, sched, snap, origin, report, done, open>>
    <3>1. /\ pass' = [listed |-> pass'.listed, todo |-> pass'.todo, got |-> pass'.got]
          /\ pass'.listed = pass.listed /\ pass'.todo = pass.todo \ {s}
          /\ pass'.got = [t \in DOMAIN pass.got \cup {s} |-> pass.listed[t] = "container"]
      BY <2>2 DEF PassInv
    <3>2. DOMAIN pass.got \cup {s} = DOMAIN pass'.listed \ pass'.todo
      BY <2>1, <3>1 DEF PassInv, Figures
    <3>3. pass'.got = Figures(pass'.listed, DOMAIN pass'.listed \ pass'.todo)
      BY <3>1, <3>2 DEF Figures
    <3>4. PassInv'
      BY <2>1, <2>2, <3>1, <3>3 DEF PassInv
    <3>5. QED BY <2>2, <3>4 DEF WorldTyped, SnapInv, world
  <2>3. CASE (Change \/ UNCHANGED changes) /\ RefreshFails
    BY <2>3, FailsTyped
  <2>4. QED BY <1>3, <2>2, <2>3 DEF Stats
<1>4. CASE StoreSnapshot
  <2>1. CASE /\ snap' = [servers |-> pass.got, tunnels |-> tunnels] /\ origin' = pass.listed
             /\ sched' = "select" /\ pass' = NoPass
             /\ UNCHANGED <<world, changes, report, done, open>>
    <3>1. WorldTyped' /\ PassInv'
      BY <2>1, PassEnds DEF WorldTyped, world
    <3>2. DOMAIN pass.listed \ pass.todo = DOMAIN pass.listed
      BY <1>4 DEF StoreSnapshot
    <3>3. SnapInv'
      BY <2>1, <3>2 DEF SnapInv, PassInv, WorldTyped
    <3>4. QED BY <3>1, <3>3
  <2>2. CASE StatementFails /\ RefreshFails
    BY <2>2, FailsTyped DEF StatementFails
  <2>3. QED BY <1>4, <2>1, <2>2 DEF StoreSnapshot
<1>5. CASE Check
  <2>1. UNCHANGED <<world, changes, sched, pass, snap, origin, done, open>>
    BY <1>5 DEF Check
  <2>2. report'.failed \subseteq Probes /\ report'.status \in {"healthy", "degraded", "unhealthy"}
    BY <1>5 DEF Check, Verdict, Probes
  <2>3. QED BY <2>1, <2>2 DEF WorldTyped, PassInv, SnapInv, world
<1>6. CASE MetricsTick \/ SchedulerDone \/ Signal \/ CloseDatabase
  BY <1>6 DEF MetricsTick, SchedulerDone, Signal, CloseDatabase, WorldTyped, PassInv, SnapInv, world
<1>7. CASE UNCHANGED metricsVars
  BY <1>7 DEF metricsVars, WorldTyped, PassInv, SnapInv
<1>8. QED
  BY <1>1, <1>2, <1>3, <1>4, <1>5, <1>6, <1>7
     DEF MetricsNext, RefreshStep, HealthTick, HealthHandler

\* Tables, pass, snapshot and report keep their types.
THEOREM MetricsTypeCorrect == MetricsSpec => []MetricsTypeOK
<1>1. MetricsInv => MetricsTypeOK
  BY DEF MetricsInv, WorldTyped, PassInv, SnapInv, MetricsTypeOK, Figures
<1>2. QED BY <1>1, MetricsInitInv, MetricsNextInv, PTL DEF MetricsSpec

\* The snapshot is that of one whole pass, for any number of servers and any failures.
THEOREM WholeSnapshotCorrect == MetricsSpec => []WholeSnapshot
<1>1. MetricsInv => WholeSnapshot
  BY DEF MetricsInv, SnapInv, WholeSnapshot, Figures
<1>2. QED BY <1>1, MetricsInitInv, MetricsNextInv, PTL DEF MetricsSpec

-----------------------------------------------------------------------------
(* NetworkGroups.                                                            *)

GroupsSpec == GroupsInit /\ [][GroupsNext]_groupVars

AssignRecords == [pc : {"idle", "members", "insert"}, list : MemberLists,
                  left : SUBSET (Nodes \X (Ips \cup {BadIp}))]

GroupsTyped ==
    /\ group \in GroupNames \cup {NoGroup}
    /\ assign \in [Assigners -> AssignRecords]
    /\ \A c \in Assigners : assign[c].left \subseteq assign[c].list
    /\ tx \in Assigners \cup {NoGroup} /\ work \subseteq Nodes \X Ips
    /\ released \subseteq Nodes /\ assigns \in 0..MaxAssigns

\* The call that inserts is the one whose transaction is open, and what it has inserted is
\* what is gone from the rest of its list.
WorkInv ==
    /\ Distinct(work)
    /\ \A c \in Assigners : assign[c].pc = "members" => assign[c].left = assign[c].list
    /\ \A c \in Assigners : assign[c].pc = "insert" =>
         tx = c /\ Valid(assign[c].list) /\ work = assign[c].list \ assign[c].left

\* What other connections see is what was committed last, without the nodes released.
MembersInv ==
    /\ members \subseteq Nodes \X Ips /\ Distinct(members)
    /\ members = {m \in stored : m[1] \notin released}

GroupsInv == GroupsTyped /\ WorkInv /\ MembersInv

LEMMA IdleAssignTyped ==
    IdleAssign \in AssignRecords /\ IdleAssign.left \subseteq IdleAssign.list /\ IdleAssign.pc = "idle"
<1>1. {} \in MemberLists
  BY FS_EmptySet, GroupsAssumption DEF MemberLists
<1>2. QED BY <1>1 DEF IdleAssign, AssignRecords

LEMMA GroupsInitInv == GroupsInit => GroupsInv
<1> SUFFICES ASSUME GroupsInit PROVE GroupsInv
  OBVIOUS
<1>1. GroupsTyped
  BY IdleAssignTyped, GroupsAssumption DEF GroupsInit, GroupsTyped
<1>2. MembersInv
  BY DEF GroupsInit, MembersInv, Distinct
<1>3. WorkInv
  BY IdleAssignTyped DEF GroupsInit, WorkInv, Distinct
<1>4. QED BY <1>1, <1>2, <1>3 DEF GroupsInv

\* The first statement of Assign.
LEMMA SaveGroupInv ==
    ASSUME GroupsInv, NEW c \in Assigners, NEW name \in GroupNames \cup {NoGroup},
           NEW list \in MemberLists, SaveNetworkGroup(c, name, list)
    PROVE  GroupsInv'
<1> DEFINE a == [pc |-> "members", list |-> list, left |-> list]
<1>1. /\ assign' = [assign EXCEPT ![c] = a] /\ assign[c].pc = "idle" /\ group' = name
      /\ UNCHANGED <<members, tx, work, stored, released>>
  BY DEF SaveNetworkGroup
<1>2. a \in AssignRecords /\ a.left = a.list /\ a.pc = "members"
  BY DEF AssignRecords, MemberLists
<1>3. \A d \in Assigners : assign'[d] = IF d = c THEN a ELSE assign[d]
  BY <1>1 DEF GroupsInv, GroupsTyped
<1> HIDE DEF a
<1>4. assigns' \in 0..MaxAssigns
  BY GroupsAssumption DEF SaveNetworkGroup, AssignCall, GroupsInv, GroupsTyped
<1>5. GroupsTyped'
  BY <1>1, <1>2, <1>3, <1>4 DEF GroupsInv, GroupsTyped
<1>6. WorkInv'
  BY <1>1, <1>2, <1>3 DEF GroupsInv, WorkInv, Distinct
<1>7. MembersInv'
  BY <1>1 DEF GroupsInv, MembersInv, Distinct
<1>8. QED BY <1>5, <1>6, <1>7 DEF GroupsInv

\* A call that fails leaves what others see as it was.
LEMMA AssignFailsInv ==
    ASSUME GroupsInv, NEW c \in Assigners, AssignFails(c), UNCHANGED <<group, assigns>>
    PROVE  GroupsInv'
<1>1. \A d \in Assigners : assign'[d] = IF d = c THEN IdleAssign ELSE assign[d]
  BY DEF AssignFails, GroupsInv, GroupsTyped
<1>2. GroupsTyped'
  BY <1>1, IdleAssignTyped DEF AssignFails, GroupsInv, GroupsTyped
<1>3. MembersInv'
  BY DEF AssignFails, GroupsInv, MembersInv, Distinct
<1>4. WorkInv'
  <2>1. CASE tx = c
    <3>1. \A d \in Assigners : assign'[d].pc # "insert"
      BY <1>1, <2>1, IdleAssignTyped DEF GroupsInv, WorkInv
    <3>2. QED BY <1>1, <2>1, <3>1, IdleAssignTyped DEF AssignFails, GroupsInv, WorkInv, Distinct
  <2>2. CASE tx # c
    BY <1>1, <2>2, IdleAssignTyped DEF AssignFails, GroupsInv, WorkInv, Distinct
  <2>3. QED BY <2>1, <2>2
<1>5. QED BY <1>2, <1>3, <1>4 DEF GroupsInv

\* The transaction begins on the empty table.
LEMMA BeginInv ==
    ASSUME GroupsInv, NEW c \in Assigners, ReplaceNetworkGroupMembers(c) PROVE GroupsInv'
<1>1. CASE AssignFails(c)
  BY <1>1, AssignFailsInv DEF ReplaceNetworkGroupMembers
<1>2. CASE /\ Valid(assign[c].list) /\ tx = NoGroup /\ tx' = c /\ work' = {}
           /\ assign' = [assign EXCEPT ![c].pc = "insert"] /\ UNCHANGED <<members, stored, released>>
  <2>1. assign[c] \in AssignRecords /\ UNCHANGED <<group, assigns>>
    BY DEF GroupsInv, GroupsTyped, ReplaceNetworkGroupMembers
  <2>3. /\ assign'[c] \in AssignRecords /\ assign'[c].pc = "insert"
        /\ assign'[c].list = assign[c].list /\ assign'[c].left = assign[c].left
        /\ \A d \in Assigners \ {c} : assign'[d] = assign[d]
        /\ assign' \in [Assigners -> AssignRecords]
    BY <1>2, <2>1 DEF GroupsInv, GroupsTyped, AssignRecords
  <2>4. GroupsTyped'
    BY <1>2, <2>1, <2>3 DEF GroupsInv, GroupsTyped
  <2>5. assign[c].left = assign[c].list
    BY DEF ReplaceNetworkGroupMembers, GroupsInv, WorkInv
  <2>6. \A d \in Assigners \ {c} : assign[d].pc # "insert"
    BY <1>2, GroupsAssumption DEF GroupsInv, WorkInv
  <2>7. WorkInv'
    BY <1>2, <2>3, <2>5, <2>6 DEF GroupsInv, WorkInv, Distinct, Valid
  <2>8. MembersInv'
    BY <1>2 DEF GroupsInv, MembersInv, Distinct
  <2>9. QED BY <2>4, <2>7, <2>8 DEF GroupsInv
<1>3. QED BY <1>1, <1>2 DEF ReplaceNetworkGroupMembers

LEMMA InsertMemberInv == ASSUME GroupsInv, NEW c \in Assigners, InsertMember(c) PROVE GroupsInv'
<1>1. CASE AssignFails(c)
  BY <1>1, AssignFailsInv DEF InsertMember
<1>2. ASSUME NEW m \in assign[c].left, Distinct(work \cup {m}), work' = work \cup {m},
             assign' = [assign EXCEPT ![c].left = @ \ {m}], UNCHANGED <<members, tx, stored, released>>
      PROVE  GroupsInv'
  <2>1. assign[c] \in AssignRecords /\ UNCHANGED <<group, assigns>> /\ assign[c].pc = "insert"
    BY DEF GroupsInv, GroupsTyped, InsertMember
  <2>2. /\ assign'[c] \in AssignRecords /\ assign'[c].pc = "insert"
        /\ assign'[c].list = assign[c].list /\ assign'[c].left = assign[c].left \ {m}
        /\ \A d \in Assigners \ {c} : assign'[d] = assign[d]
        /\ assign' \in [Assigners -> AssignRecords]
    BY <1>2, <2>1 DEF GroupsInv, GroupsTyped, AssignRecords
  <2>3. /\ tx = c /\ Valid(assign[c].list) /\ work = assign[c].list \ assign[c].left
        /\ assign[c].left \subseteq assign[c].list
    BY <2>1 DEF GroupsInv, GroupsTyped, WorkInv
  <2>4. m \in Nodes \X Ips
    BY <2>1, <2>3 DEF AssignRecords, Valid
  <2>5. GroupsTyped'
    BY <1>2, <2>1, <2>2, <2>4 DEF GroupsInv, GroupsTyped
  <2>6. work' = assign'[c].list \ assign'[c].left
    BY <1>2, <2>2, <2>3
  <2>7. \A d \in Assigners \ {c} : assign[d].pc # "insert"
    BY <2>3 DEF GroupsInv, WorkInv
  <2>8. WorkInv'
    <3>1. Distinct(work')
      BY <1>2
    <3>2. QED BY <1>2, <2>2, <2>3, <2>6, <2>7, <3>1 DEF GroupsInv, WorkInv, Distinct, Valid
  <2>9. MembersInv'
    BY <1>2 DEF GroupsInv, MembersInv, Distinct
  <2>10. QED BY <2>5, <2>8, <2>9 DEF GroupsInv
<1>3. QED BY <1>1, <1>2 DEF InsertMember

\* A transaction that commits has inserted all of its list.
LEMMA CommitInv == ASSUME GroupsInv, NEW c \in Assigners, Commit(c) PROVE GroupsInv'
<1>1. CASE AssignFails(c)
  BY <1>1, AssignFailsInv DEF Commit
<1>2. CASE /\ members' = work /\ stored' = assign[c].list /\ released' = {}
           /\ tx' = NoGroup /\ work' = {} /\ assign' = [assign EXCEPT ![c] = IdleAssign]
  <2>1. /\ tx = c /\ work = assign[c].list /\ UNCHANGED <<group, assigns>>
        /\ work \subseteq Nodes \X Ips /\ Distinct(work)
    BY DEF Commit, GroupsInv, GroupsTyped, WorkInv
  <2>2. \A d \in Assigners : assign'[d] = IF d = c THEN IdleAssign ELSE assign[d]
    BY <1>2 DEF GroupsInv, GroupsTyped
  <2>3. \A d \in Assigners : assign'[d].pc # "insert"
    BY <2>1, <2>2, IdleAssignTyped DEF GroupsInv, WorkInv
  <2>4. GroupsTyped'
    BY <1>2, <2>1, <2>2, IdleAssignTyped DEF GroupsInv, GroupsTyped
  <2>5. MembersInv'
    BY <1>2, <2>1 DEF MembersInv, Distinct
  <2>6. WorkInv'
    BY <1>2, <2>2, <2>3, IdleAssignTyped DEF GroupsInv, WorkInv, Distinct
  <2>7. QED BY <2>4, <2>5, <2>6 DEF GroupsInv
<1>3. QED BY <1>1, <1>2 DEF Commit

LEMMA ReleaseInv == ASSUME GroupsInv, NEW node \in Nodes, Release(node) PROVE GroupsInv'
<1>1. /\ members' = {m \in members : m[1] # node} /\ released' = released \cup {node}
      /\ UNCHANGED <<group, assign, tx, work, stored>>
  BY DEF Release
<1>2. GroupsTyped'
  BY <1>1, GroupsAssumption DEF Release, AssignCall, GroupsInv, GroupsTyped
<1>3. MembersInv'
  BY <1>1 DEF GroupsInv, MembersInv, Distinct
<1>4. WorkInv'
  BY <1>1 DEF GroupsInv, WorkInv, Distinct
<1>5. QED BY <1>2, <1>3, <1>4 DEF GroupsInv

LEMMA AssignersDieInv == ASSUME GroupsInv, AssignersDie PROVE GroupsInv'
<1>1. \A d \in Assigners : assign'[d] = IdleAssign
  BY DEF AssignersDie
<1>2. GroupsTyped'
  BY <1>1, IdleAssignTyped DEF AssignersDie, GroupsInv, GroupsTyped
<1>3. WorkInv'
  BY <1>1, IdleAssignTyped DEF AssignersDie, WorkInv, Distinct
<1>4. MembersInv'
  BY DEF AssignersDie, GroupsInv, MembersInv, Distinct
<1>5. QED BY <1>2, <1>3, <1>4 DEF GroupsInv

LEMMA GroupsNextInv == GroupsInv /\ [GroupsNext]_groupVars => GroupsInv'
<1>1. GroupsInv /\ UNCHANGED groupVars => GroupsInv'
  BY DEF groupVars, GroupsInv, GroupsTyped, WorkInv, MembersInv, Distinct
<1>2. QED
  BY <1>1, SaveGroupInv, BeginInv, InsertMemberInv, CommitInv, ReleaseInv, AssignersDieInv
     DEF GroupsNext

\* Tables and calls keep their types; node and address stay unique in the members.
THEOREM GroupsTypeCorrect == GroupsSpec => []GroupsTypeOK
<1>1. GroupsInv => GroupsTypeOK
  BY DEF GroupsInv, GroupsTyped, AssignRecords, MembersInv, GroupsTypeOK
<1>2. QED BY <1>1, GroupsInitInv, GroupsNextInv, PTL DEF GroupsSpec

\* The members are all those of one assignment that succeeded, less the nodes released,
\* for any number of callers, nodes and addresses, any overlap and any failure half-way.
THEOREM MembersOfOneCorrect == GroupsSpec => []MembersOfOne
<1>1. GroupsInv => MembersOfOne
  BY DEF GroupsInv, MembersInv, MembersOfOne, Members
<1>2. QED BY <1>1, GroupsInitInv, GroupsNextInv, PTL DEF GroupsSpec

-----------------------------------------------------------------------------
(* ResourceLimits.                                                           *)

LimitsSpec == LimitsInit /\ [][LimitsNext]_limitVars

StartRecords == [pc : {"idle", "create", "name", "run", "limits", "apply"}, lim : Limits \cup {NoLimits},
                 known : BOOLEAN, n : 1..3, sound : BOOLEAN]

LimitsTyped ==
    /\ row \in Limits \cup {NoLimits} /\ spec \in Limits \cup {NoLimits}
    /\ kept \in Limits \cup {NoLimits} /\ named \in BOOLEAN
    /\ cgroup \in [Kinds -> Nat] \cup {NoLimits}
    /\ start \in [Starters -> StartRecords]
    /\ turns \in 0..MaxTurns

\* The file of kind k holds limit l, if there is one.
InForce(l, k) == l[k] > 0 => cgroup[k] = l[k] * Scale[k]

\* A call begins with the first file; one that nobody has disturbed finds the files it
\* has written as it wrote them.
StartInv(c) ==
    /\ start[c].pc # "apply" => start[c].n = 1
    /\ start[c].pc = "apply" => start[c].lim # NoLimits
    /\ start[c].pc = "apply" /\ start[c].sound =>
         cgroup # NoLimits /\ \A j \in 1..3 : j < start[c].n => InForce(start[c].lim, Files[j])

\* The limits that were put in force are.
KeptInv == kept # NoLimits => cgroup # NoLimits /\ \A k \in Kinds : InForce(kept, k)

LimitsInv == LimitsTyped /\ KeptInv /\ \A c \in Starters : StartInv(c)

\* Reading a file undoes the scale it was written in.
LEMMA ScaleInv ==
    /\ \A k \in Kinds : \A x \in Nat : x * Scale[k] \in Nat /\ (x * Scale[k]) \div Scale[k] = x
    /\ \A j \in 1..3 : Files[j] \in Kinds
    /\ \A k \in Kinds : \E j \in 1..3 : Files[j] = k
    /\ Len(Files) = 3
<1>1. Scale["cpu"] = 100 /\ Scale["memory"] = 1048576 /\ Scale["pids"] = 1
  BY SMT DEF Scale
<1>2. \A x \in Nat : (x * 100) \div 100 = x /\ (x * 1048576) \div 1048576 = x /\ (x * 1) \div 1 = x
  BY SMT
<1>3. \A x \in Nat : x * 100 \in Nat /\ x * 1048576 \in Nat /\ x * 1 \in Nat
  BY SMT
<1>4. Files[1] = "cpu" /\ Files[2] = "memory" /\ Files[3] = "pids" /\ Len(Files) = 3
  BY DEF Files
<1>5. \A k \in Kinds : k = "cpu" \/ k = "memory" \/ k = "pids"
  BY DEF Kinds
<1>6. \A k \in Kinds : \A x \in Nat : x * Scale[k] \in Nat /\ (x * Scale[k]) \div Scale[k] = x
  BY <1>1, <1>2, <1>3, <1>5, SMT
<1>7. \A j \in 1..3 : Files[j] \in Kinds
  BY <1>4 DEF Kinds
<1>8. \A k \in Kinds : \E j \in 1..3 : Files[j] = k
  BY <1>4, <1>5
<1>9. QED BY <1>4, <1>6, <1>7, <1>8

\* What Docker or ApplyLimits writes is a number for each file.
LEMMA WrittenTyped == ASSUME NEW l \in Limits PROVE Written(l) \in [Kinds -> Nat] /\ Written(l) # NoLimits
<1>1. l \in [Kinds -> Nat]
  BY LimitsAssumption
<1>2. \A k \in Kinds : l[k] * Scale[k] \in Nat
  BY <1>1, ScaleInv
<1>3. QED BY <1>2, LimitsAssumption DEF Written

LEMMA IdleStartTyped == IdleStart \in StartRecords /\ IdleStart.pc = "idle" /\ IdleStart.n = 1
<1>1. IdleStart.known \in BOOLEAN /\ IdleStart.sound \in BOOLEAN
  BY Zenon DEF IdleStart
<1>2. QED BY <1>1 DEF IdleStart, StartRecords

LEMMA LimitsInitInv == LimitsInit => LimitsInv
<1> SUFFICES ASSUME LimitsInit PROVE LimitsInv
  OBVIOUS
<1>1. LimitsTyped
  <2>1. named \in BOOLEAN
    BY Zenon DEF LimitsInit
  <2>2. QED BY <2>1, IdleStartTyped, LimitsAssumption DEF LimitsInit, LimitsTyped
<1>2. KeptInv /\ \A c \in Starters : StartInv(c)
  BY IdleStartTyped DEF LimitsInit, KeptInv, StartInv
<1>3. QED BY <1>1, <1>2 DEF LimitsInv

\* A step of a call that leaves the files alone and is not about to write the second one.
LEMMA LocalStepInv ==
    ASSUME LimitsInv, NEW c \in Starters, NEW r \in StartRecords,
           start' = [start EXCEPT ![c] = r],
           r.pc # "apply" => r.n = 1,
           r.pc = "apply" => r.lim # NoLimits,
           r.pc = "apply" /\ r.sound => cgroup # NoLimits /\ r.n = 1,
           spec' \in Limits \cup {NoLimits}, named' \in BOOLEAN,
           UNCHANGED <<row, cgroup, kept>>, turns' \in 0..MaxTurns
    PROVE  LimitsInv'
<1>1. \A d \in Starters : start'[d] = IF d = c THEN r ELSE start[d]
  BY DEF LimitsInv, LimitsTyped
<1>2. LimitsTyped'
  BY DEF LimitsInv, LimitsTyped
<1>3. ASSUME NEW d \in Starters PROVE StartInv(d)'
  <2>1. CASE d # c
    BY <1>1, <2>1 DEF LimitsInv, StartInv, InForce
  <2>2. CASE d = c
    <3>1. \A j \in 1..3 : ~(j < 1)
      OBVIOUS
    <3>2. QED BY <1>1, <2>2, <3>1 DEF StartInv
  <2>3. QED BY <2>1, <2>2
<1>4. KeptInv'
  BY DEF LimitsInv, KeptInv, InForce
<1>5. QED BY <1>2, <1>3, <1>4 DEF LimitsInv

\* A cgroup that is new, or gone, leaves nothing in force and nobody sure of its files.
LEMMA NewCgroupInv ==
    ASSUME LimitsInv, NEW files \in [Kinds -> Nat] \cup {NoLimits}, NewCgroup(files),
           row' = row, spec' \in Limits \cup {NoLimits}, named' = named, Turn
    PROVE  LimitsInv'
<1>1. /\ cgroup' = files /\ kept' = NoLimits
      /\ \A c \in Starters : start'[c] = [start[c] EXCEPT !.sound = start[c].pc # "apply"]
      /\ start' = [c \in Starters |-> [start[c] EXCEPT !.sound = start[c].pc # "apply"]]
  BY DEF NewCgroup
<1>2. \A c \in Starters : /\ start[c] \in StartRecords /\ start'[c] \in StartRecords
                          /\ start'[c].pc = start[c].pc /\ start'[c].lim = start[c].lim
                          /\ start'[c].n = start[c].n /\ start'[c].sound = (start[c].pc # "apply")
  <2> SUFFICES ASSUME NEW c \in Starters
               PROVE  /\ start[c] \in StartRecords /\ start'[c] \in StartRecords
                      /\ start'[c].pc = start[c].pc /\ start'[c].lim = start[c].lim
                      /\ start'[c].n = start[c].n /\ start'[c].sound = (start[c].pc # "apply")
    OBVIOUS
  <2>1. start[c] \in StartRecords
    BY DEF LimitsInv, LimitsTyped
  <2> DEFINE b == start[c].pc # "apply"
  <2>2. b \in BOOLEAN
    BY Zenon
  <2> HIDE DEF b
  <2>3. [start[c] EXCEPT !.sound = b] \in StartRecords
    BY <2>1, <2>2 DEF StartRecords
  <2>4. start'[c] = [start[c] EXCEPT !.sound = b]
    BY <1>1 DEF b
  <2>5. start'[c].sound = b /\ start'[c].pc = start[c].pc /\ start'[c].lim = start[c].lim
        /\ start'[c].n = start[c].n
    BY <2>1, <2>4 DEF StartRecords
  <2>6. QED BY <2>1, <2>3, <2>4, <2>5 DEF b
<1>3. LimitsTyped'
  <2>1. start' \in [Starters -> StartRecords]
    BY <1>1, <1>2
  <2>2. turns' \in 0..MaxTurns
    BY LimitsAssumption DEF LimitsInv, LimitsTyped, Turn
  <2>3. QED BY <1>1, <2>1, <2>2 DEF LimitsInv, LimitsTyped
<1>4. KeptInv' /\ \A c \in Starters : StartInv(c)'
  BY <1>1, <1>2 DEF LimitsInv, KeptInv, StartInv
<1>5. QED BY <1>3, <1>4 DEF LimitsInv

\* Docker makes the cgroup when it starts the container: no call was sure of the files
\* of one that was not there.
LEMMA StartContainerInv == ASSUME LimitsInv, NEW c \in Starters, StartContainer(c) PROVE LimitsInv'
<1>1. start[c] \in StartRecords /\ start[c].pc = "run" /\ turns' \in 0..MaxTurns
  BY DEF StartContainer, LimitsInv, LimitsTyped
<1>2. CASE UNCHANGED cgroup /\ Return(c)
  BY <1>1, <1>2, IdleStartTyped, LocalStepInv DEF StartContainer, Return, LimitsInv, LimitsTyped
<1>3. CASE /\ spec # NoLimits /\ cgroup' = (IF cgroup = NoLimits THEN Written(spec) ELSE cgroup)
           /\ start' = [start EXCEPT ![c].pc = "limits"]
  <2> DEFINE r == [start[c] EXCEPT !.pc = "limits"]
  <2>1. r \in StartRecords /\ r.pc = "limits" /\ r.n = start[c].n /\ start' = [start EXCEPT ![c] = r]
    BY <1>1, <1>3 DEF StartRecords
  <2>2. r.n = 1
    BY <1>1, <2>1 DEF LimitsInv, StartInv
  <2> HIDE DEF r
  <2>3. CASE cgroup # NoLimits
    BY <1>1, <1>3, <2>1, <2>2, <2>3, LocalStepInv DEF StartContainer, LimitsInv, LimitsTyped
  <2>4. CASE cgroup = NoLimits
    <3>1. cgroup' \in [Kinds -> Nat] /\ kept = NoLimits /\ UNCHANGED <<row, spec, named, kept, turns>>
      BY <1>3, <2>4, WrittenTyped DEF StartContainer, LimitsInv, LimitsTyped, KeptInv
    <3>2. \A d \in Starters : start'[d] = IF d = c THEN r ELSE start[d]
      BY <2>1 DEF LimitsInv, LimitsTyped
    <3>3. LimitsTyped'
      BY <2>1, <3>1 DEF LimitsInv, LimitsTyped
    <3>4. \A d \in Starters : StartInv(d)'
      BY <2>1, <2>2, <2>4, <3>2 DEF LimitsInv, StartInv
    <3>5. QED BY <3>1, <3>3, <3>4 DEF LimitsInv, KeptInv
  <2>5. QED BY <2>3, <2>4
<1>4. CASE /\ spec # NoLimits /\ cgroup' = (IF cgroup = NoLimits THEN Written(spec) ELSE cgroup)
           /\ Return(c)
  <2>1. CASE cgroup # NoLimits
    BY <1>1, <1>2, <1>4, <2>1
  <2>2. CASE cgroup = NoLimits
    <3>1. cgroup' \in [Kinds -> Nat] /\ kept = NoLimits /\ UNCHANGED <<row, spec, named, kept, turns>>
      BY <1>4, <2>2, WrittenTyped DEF StartContainer, LimitsInv, LimitsTyped, KeptInv
    <3>2. \A d \in Starters : start'[d] = IF d = c THEN IdleStart ELSE start[d]
      BY <1>4 DEF Return, LimitsInv, LimitsTyped
    <3>3. LimitsTyped'
      BY <1>4, <3>1, IdleStartTyped DEF Return, LimitsInv, LimitsTyped
    <3>4. \A d \in Starters : StartInv(d)'
      BY <2>2, <3>2, IdleStartTyped DEF LimitsInv, StartInv
    <3>5. QED BY <3>1, <3>3, <3>4 DEF LimitsInv, KeptInv
  <2>3. QED BY <2>1, <2>2
<1>5. QED BY <1>2, <1>3, <1>4 DEF StartContainer

\* One file is written.  It repeats what calls with the same limits have written, and
\* no other call remains sure of its files.
LEMMA WriteFileInv ==
    ASSUME LimitsInv, NEW c \in Starters, start[c].pc = "apply", cgroup # NoLimits, WroteFile(c),
           cgroup' = IF start[c].lim[Files[start[c].n]] > 0
                       THEN [cgroup EXCEPT ![Files[start[c].n]] =
                               start[c].lim[Files[start[c].n]] * Scale[Files[start[c].n]]]
                       ELSE cgroup,
           UNCHANGED <<row, spec, named, turns>>
    PROVE  LimitsInv'
<1> DEFINE l == start[c].lim
           n == start[c].n
           k == Files[n]
           Now(x, i) == x[i] > 0 => cgroup'[i] = x[i] * Scale[i]
<1>1. /\ start \in [Starters -> StartRecords] /\ start[c] \in StartRecords /\ n \in 1..3
      /\ l \in [Kinds -> Nat] /\ l \in Limits /\ k \in Kinds /\ cgroup \in [Kinds -> Nat]
  <2>1. start \in [Starters -> StartRecords] /\ start[c] \in StartRecords /\ cgroup \in [Kinds -> Nat]
    BY DEF LimitsInv, LimitsTyped
  <2>2. l \in Limits /\ n \in 1..3
    BY <2>1 DEF StartRecords, LimitsInv, StartInv
  <2>3. QED BY <2>1, <2>2, ScaleInv, LimitsAssumption
<1>2. l[k] * Scale[k] \in Nat
  BY <1>1, ScaleInv
<1>3. cgroup' \in [Kinds -> Nat] /\ cgroup' # NoLimits
  BY <1>1, <1>2, LimitsAssumption
<1>4. Now(l, k)
  BY <1>1, <1>2 DEF InForce
<1>5. \A j \in Kinds : InForce(l, j) => Now(l, j)
  BY <1>1, <1>2 DEF InForce
<1> HIDE DEF k
<1>6. \A d \in Starters : d # c =>
         start'[d] = [start[d] EXCEPT !.sound = @ /\ (start[d].pc = "apply" => start[d].lim = l)]
  BY DEF WroteFile
<1>7. start'[c] = IF n = 3 THEN IdleStart ELSE [start[c] EXCEPT !.n = n + 1]
  BY ScaleInv DEF WroteFile
<1>8. start'[c] \in StartRecords
  <2>1. n # 3 => [start[c] EXCEPT !.n = n + 1] \in StartRecords
    BY <1>1 DEF StartRecords
  <2>2. QED BY <1>7, <2>1, IdleStartTyped
<1>9. ASSUME NEW d \in Starters, d # c
      PROVE  /\ start'[d] \in StartRecords
             /\ start'[d].pc = start[d].pc /\ start'[d].lim = start[d].lim /\ start'[d].n = start[d].n
             /\ start'[d].sound => start[d].sound /\ (start[d].pc = "apply" => start[d].lim = l)
  <2> DEFINE b == start[d].sound /\ (start[d].pc = "apply" => start[d].lim = l)
  <2>1. start[d] \in StartRecords /\ start'[d] = [start[d] EXCEPT !.sound = b]
    BY <1>1, <1>6, <1>9
  <2>2. b \in BOOLEAN
    BY Zenon
  <2> HIDE DEF b
  <2>3. /\ start'[d] \in StartRecords /\ start'[d].sound = b
        /\ start'[d].pc = start[d].pc /\ start'[d].lim = start[d].lim /\ start'[d].n = start[d].n
    BY <2>1, <2>2 DEF StartRecords
  <2>4. QED BY <2>3 DEF b
<1>10. ASSUME NEW d \in Starters, d # c PROVE StartInv(d)'
  <2>1. StartInv(d) /\ start[d] \in StartRecords
    BY <1>1 DEF LimitsInv
  <2>2. ASSUME start'[d].pc = "apply", start'[d].sound
        PROVE  \A j \in 1..3 : j < start'[d].n => Now(start[d].lim, Files[j])
    <3>1. start[d].pc = "apply" /\ start[d].sound /\ start[d].lim = l
      BY <1>9, <1>10, <2>2
    <3>2. ASSUME NEW j \in 1..3, j < start[d].n PROVE Now(l, Files[j])
      BY <1>5, <2>1, <3>1, <3>2, ScaleInv DEF StartInv, InForce
    <3>3. QED BY <1>9, <1>10, <3>1, <3>2 DEF InForce
  <2>3. QED BY <1>3, <1>9, <1>10, <2>1, <2>2 DEF StartInv, InForce
<1>11. StartInv(c)'
  <2>1. CASE n = 3
    BY <1>7, <2>1, IdleStartTyped DEF StartInv
  <2>2. CASE n # 3
    <3>1. /\ start'[c].pc = "apply" /\ start'[c].lim = l /\ start'[c].sound = start[c].sound
          /\ start'[c].n = n + 1
      BY <1>1, <1>7, <2>2 DEF StartRecords
    <3>2. ASSUME start[c].sound, NEW j \in 1..3, j < n + 1 PROVE Now(l, Files[j])
      <4>1. CASE j = n
        BY <1>4, <4>1 DEF k
      <4>2. CASE j < n
        BY <1>5, <3>2, <4>2, ScaleInv DEF LimitsInv, StartInv, InForce
      <4>3. QED BY <1>1, <3>2, <4>1, <4>2
    <3>3. QED BY <1>1, <1>3, <3>1, <3>2, LimitsAssumption DEF StartInv, InForce
  <2>3. QED BY <2>1, <2>2
<1>12. KeptInv' /\ kept' \in Limits \cup {NoLimits}
  <2>1. CASE n = 3 /\ start[c].sound
    <3>1. kept' = l
      BY <2>1, ScaleInv DEF WroteFile
    <3>2. ASSUME NEW j \in 1..3 PROVE Now(l, Files[j])
      <4>1. CASE j = 3
        BY <1>4, <2>1, <4>1 DEF k
      <4>2. CASE j < 3
        BY <1>5, <2>1, <4>2, ScaleInv DEF LimitsInv, StartInv, InForce
      <4>3. QED BY <4>1, <4>2
    <3>3. \A i \in Kinds : Now(l, i)
      BY <3>2, ScaleInv
    <3>4. QED BY <1>1, <1>3, <3>1, <3>3 DEF KeptInv, InForce
  <2>2. CASE ~(n = 3 /\ start[c].sound)
    <3>1. kept' = IF kept = l THEN kept ELSE NoLimits
      BY <2>2, ScaleInv DEF WroteFile
    <3>2. kept = l => \A i \in Kinds : Now(l, i)
      BY <1>1, <1>5, LimitsAssumption DEF LimitsInv, KeptInv, InForce
    <3>3. QED BY <1>1, <1>3, <3>1, <3>2 DEF KeptInv, InForce
  <2>3. QED BY <2>1, <2>2
<1>13. LimitsTyped'
  <2>1. start' \in [Starters -> StartRecords]
    BY <1>8, <1>9 DEF WroteFile
  <2>2. QED BY <1>3, <1>12, <2>1 DEF LimitsInv, LimitsTyped
<1>14. QED BY <1>10, <1>11, <1>12, <1>13 DEF LimitsInv

\* The other steps of StartServer change the call alone, or create the container.
LEMMA StartStepInv == ASSUME LimitsInv, NEW c \in Starters, StartStep(c) PROVE LimitsInv'
<1>1. /\ start[c] \in StartRecords /\ StartInv(c) /\ turns \in 0..MaxTurns /\ named \in BOOLEAN
      /\ spec \in Limits \cup {NoLimits} /\ row \in Limits \cup {NoLimits}
  BY DEF LimitsInv, LimitsTyped
<1>2. ASSUME Return(c), UNCHANGED <<row, spec, named, cgroup, kept, turns>> PROVE LimitsInv'
  BY <1>1, <1>2, IdleStartTyped, LocalStepInv DEF Return
<1>3. ASSUME NEW next \in {"name", "run", "limits"}, start' = [start EXCEPT ![c].pc = next],
             start[c].pc # "apply", spec' \in Limits \cup {NoLimits}, named' \in BOOLEAN,
             UNCHANGED <<row, cgroup, kept, turns>>
      PROVE  LimitsInv'
  <2> DEFINE r == [start[c] EXCEPT !.pc = next]
  <2>1. r \in StartRecords /\ r.pc = next /\ r.n = start[c].n /\ start' = [start EXCEPT ![c] = r]
    BY <1>1, <1>3 DEF StartRecords
  <2>2. r.n = 1
    BY <1>1, <1>3, <2>1 DEF StartInv
  <2> HIDE DEF r
  <2>3. QED BY <1>1, <1>3, <2>1, <2>2, LocalStepInv
<1>4. CASE GetResourceLimits(c)
  <2>1. PICK l \in {row} \cup (IF "db" \in LimitFaults THEN {NoLimits} ELSE {}) :
           start' = [start EXCEPT ![c] = [IdleStart EXCEPT !.pc = "create", !.lim = l,
                                                           !.known = named]]
    BY <1>4 DEF GetResourceLimits
  <2> DEFINE r == [IdleStart EXCEPT !.pc = "create", !.lim = l, !.known = named]
  <2>2. named \in BOOLEAN
    BY DEF LimitsInv, LimitsTyped
  <2>3. l \in Limits \cup {NoLimits}
    BY <1>1
  <2>4. r \in StartRecords /\ r.pc = "create" /\ r.n = 1
    BY <2>2, <2>3, IdleStartTyped DEF StartRecords
  <2>5. start' = [start EXCEPT ![c] = r]
    BY <2>1
  <2> HIDE DEF r
  <2>6. turns' \in 0..MaxTurns
    BY <1>1, <1>4, LimitsAssumption DEF GetResourceLimits, Turn
  <2>7. QED BY <1>1, <1>4, <2>4, <2>5, <2>6, LocalStepInv DEF GetResourceLimits
<1>5. CASE CreateContainer(c)
  <2>1. CASE Return(c) /\ UNCHANGED spec
    BY <1>2, <1>5, <2>1 DEF CreateContainer
  <2>2. CASE /\ \E next \in {"name", "run"} : start' = [start EXCEPT ![c].pc = next]
             /\ \/ UNCHANGED spec
                \/ spec' = IF HasLimits(start[c].lim) THEN start[c].lim ELSE [k \in Kinds |-> 0]
    <3>1. spec' \in Limits \cup {NoLimits}
      BY <1>1, <2>2, LimitsAssumption DEF StartRecords
    <3>2. QED BY <1>1, <1>3, <1>5, <2>2, <3>1 DEF CreateContainer
  <2>3. QED BY <1>5, <2>1, <2>2 DEF CreateContainer
<1>6. CASE FindContainerCgroup(c)
  <2>1. CASE Return(c)
    BY <1>2, <1>6, <2>1 DEF FindContainerCgroup
  <2>2. CASE /\ HasLimits(start[c].lim) /\ cgroup # NoLimits
             /\ start' = [start EXCEPT ![c].pc = "apply", ![c].sound = TRUE]
    <3> DEFINE r == [start[c] EXCEPT !.pc = "apply", !.sound = TRUE]
    <3>1. /\ r \in StartRecords /\ r.n = start[c].n /\ r.lim = start[c].lim
          /\ start' = [start EXCEPT ![c] = r]
      <4>1. start' = [start EXCEPT ![c] = r]
        BY <2>2, <1>1 DEF LimitsInv, LimitsTyped
      <4>2. QED BY <1>1, <4>1 DEF StartRecords
    <3>2. r.n = 1 /\ r.lim # NoLimits
      BY <1>1, <1>6, <2>2, <3>1 DEF StartInv, FindContainerCgroup, HasLimits
    <3> HIDE DEF r
    <3>3. QED BY <1>1, <1>6, <2>2, <3>1, <3>2, LocalStepInv DEF FindContainerCgroup
  <2>3. QED BY <1>6, <2>1, <2>2 DEF FindContainerCgroup
<1>7. CASE ApplyLimits(c)
  <2>1. CASE /\ cgroup # NoLimits /\ WroteFile(c)
             /\ cgroup' = IF start[c].lim[Files[start[c].n]] > 0
                            THEN [cgroup EXCEPT ![Files[start[c].n]] =
                                    start[c].lim[Files[start[c].n]] * Scale[Files[start[c].n]]]
                            ELSE cgroup
    BY <1>7, <2>1, WriteFileInv DEF ApplyLimits
  <2>2. CASE Return(c) /\ UNCHANGED <<cgroup, kept>>
    BY <1>2, <1>7, <2>2 DEF ApplyLimits
  <2>3. CASE /\ cgroup = NoLimits /\ start[c].n # 3 /\ start' = [start EXCEPT ![c].n = @ + 1]
             /\ UNCHANGED <<cgroup, kept>>
    <3> DEFINE r == [start[c] EXCEPT !.n = start[c].n + 1]
    <3>1. start[c].n \in 1..3 /\ start[c].n + 1 \in 1..3
      BY <1>1, <2>3 DEF StartRecords
    <3>2. /\ r \in StartRecords /\ r.pc = "apply" /\ r.lim = start[c].lim /\ r.sound = start[c].sound
          /\ start' = [start EXCEPT ![c] = r]
      BY <1>1, <1>7, <2>3, <3>1 DEF StartRecords, ApplyLimits
    <3>3. r.lim # NoLimits /\ ~r.sound
      BY <1>1, <1>7, <2>3, <3>2 DEF StartInv, ApplyLimits
    <3> HIDE DEF r
    <3>4. QED BY <1>1, <1>7, <2>3, <3>2, <3>3, LocalStepInv DEF ApplyLimits
  <2>4. QED
    <3>1. Len(Files) = 3
      BY ScaleInv
    <3>2. QED BY <1>7, <2>1, <2>2, <2>3, <3>1 DEF ApplyLimits
<1>8. CASE SetServerContainer(c)
  <2>1. CASE Return(c) /\ UNCHANGED named
    BY <1>2, <1>8, <2>1 DEF SetServerContainer
  <2>2. CASE named' = TRUE /\ start' = [start EXCEPT ![c].pc = "run"]
    <3>1. named' \in BOOLEAN
      BY <2>2, Zenon
    <3>2. QED BY <1>1, <1>3, <1>8, <2>2, <3>1 DEF SetServerContainer
  <2>3. QED BY <1>8, <2>1, <2>2 DEF SetServerContainer
<1>9. QED BY <1>4, <1>5, <1>6, <1>7, <1>8, StartContainerInv DEF StartStep

LEMMA LimitsNextInv == LimitsInv /\ [LimitsNext]_limitVars => LimitsInv'
<1> SUFFICES ASSUME LimitsInv, [LimitsNext]_limitVars PROVE LimitsInv'
  OBVIOUS
<1>1. ASSUME NEW l \in Limits, SetResourceLimits(l) PROVE LimitsInv'
  <2>1. LimitsTyped'
    BY <1>1, LimitsAssumption DEF SetResourceLimits, Turn, LimitsInv, LimitsTyped
  <2>2. QED BY <1>1, <2>1 DEF SetResourceLimits, LimitsInv, KeptInv, StartInv, InForce
<1>2. CASE Stop \/ DeleteContainer
  BY <1>2, NewCgroupInv DEF Stop, DeleteContainer, LimitsInv, LimitsTyped
<1>3. CASE Restart
  <2>1. Written(spec) \in [Kinds -> Nat]
    BY <1>3, WrittenTyped DEF Restart, LimitsInv, LimitsTyped
  <2>2. QED BY <1>3, <2>1, NewCgroupInv DEF Restart, LimitsInv, LimitsTyped
<1>4. CASE UNCHANGED limitVars
  BY <1>4 DEF limitVars, LimitsInv, LimitsTyped, KeptInv, StartInv, InForce
<1>5. QED BY <1>1, <1>2, <1>3, <1>4, StartStepInv DEF LimitsNext

\* Reading a file gives back the limit that is in force.
LEMMA ReadInForce ==
    ASSUME LimitsTyped, cgroup # NoLimits
    PROVE  /\ ReadLimits \in [Kinds -> Nat]
           /\ \A l \in Limits : \A k \in Kinds : InForce(l, k) /\ l[k] > 0 => ReadLimits[k] = l[k]
<1>1. cgroup \in [Kinds -> Nat]
  BY DEF LimitsTyped
<1>2. ASSUME NEW x \in Nat PROVE x \div 100 \in Nat /\ x \div 1048576 \in Nat /\ x \div 1 \in Nat
  BY SMT
<1>3. Scale["cpu"] = 100 /\ Scale["memory"] = 1048576 /\ Scale["pids"] = 1
  BY SMT DEF Scale
<1>4. ASSUME NEW k \in Kinds PROVE cgroup[k] \div Scale[k] \in Nat
  <2>1. cgroup[k] \in Nat /\ (k = "cpu" \/ k = "memory" \/ k = "pids")
    BY <1>1, <1>4 DEF Kinds
  <2>2. QED BY <1>2, <1>3, <2>1, SMT
<1>5. ASSUME NEW l \in Limits, NEW k \in Kinds, InForce(l, k), l[k] > 0 PROVE ReadLimits[k] = l[k]
  <2>1. l[k] \in Nat
    BY LimitsAssumption
  <2>2. QED BY <1>5, <2>1, ScaleInv DEF InForce, ReadLimits
<1>6. QED BY <1>4, <1>5 DEF ReadLimits

\* Rows, files and calls keep their types.
THEOREM LimitsTypeCorrect == LimitsSpec => []LimitsTypeOK
<1>1. LimitsInv => LimitsTypeOK
  <2> SUFFICES ASSUME LimitsInv PROVE LimitsTypeOK
    OBVIOUS
  <2>1. cgroup = NoLimits \/ ReadLimits \in [Kinds -> Nat]
    BY ReadInForce DEF LimitsInv
  <2>2. \A c \in Starters : /\ start[c].pc \in {"idle", "create", "name", "run", "limits", "apply"}
                            /\ start[c].lim \in Limits \cup {NoLimits}
                            /\ start[c].n \in 1..Len(Files) /\ start[c].sound \in BOOLEAN
    BY ScaleInv DEF LimitsInv, LimitsTyped, StartRecords
  <2>3. QED BY <2>1, <2>2 DEF LimitsInv, LimitsTyped, LimitsTypeOK
<1>2. QED BY <1>1, LimitsInitInv, LimitsNextInv, PTL DEF LimitsSpec

\* What a StartServer that returned nil has put in force is what the files of the cgroup
\* say, for any limits and any number of calls that interleave with it.
THEOREM LimitsEnforcedCorrect == LimitsSpec => []LimitsEnforced
<1>1. LimitsInv => LimitsEnforced
  BY ReadInForce DEF LimitsInv, LimitsTyped, KeptInv, LimitsEnforced
<1>2. QED BY <1>1, LimitsInitInv, LimitsNextInv, PTL DEF LimitsSpec

-----------------------------------------------------------------------------
(* The four together.                                                        *)

\* A behaviour of the four parts is one of each of them: what is proved of a part holds
\* of the instance that is model-checked.
THEOREM PartsImplementEach == PartsSpec => HistorySpec /\ MetricsSpec /\ LimitsSpec /\ GroupsSpec
<1>1. PartsInit => HistoryInit /\ MetricsInit /\ LimitsInit /\ GroupsInit
  BY DEF PartsInit
<1>2. [PartsNext]_partsVars => /\ [HistoryNext]_historyVars /\ [MetricsNext]_metricsVars
                               /\ [LimitsNext]_limitVars /\ [GroupsNext]_groupVars
  BY DEF PartsNext, InHistory, InMetrics, InLimits, InGroups, partsVars
<1>3. QED BY <1>1, <1>2, PTL DEF PartsSpec, HistorySpec, MetricsSpec, LimitsSpec, GroupsSpec

\* The four parts keep their types.
THEOREM PartsTypeCorrect == PartsSpec => []PartsTypeOK
<1>1. HistoryTypeOK /\ MetricsTypeOK /\ LimitsTypeOK /\ GroupsTypeOK => PartsTypeOK
  BY DEF PartsTypeOK
<1>2. QED
  BY <1>1, PartsImplementEach, HistoryTypeCorrect, MetricsTypeCorrect, LimitsTypeCorrect,
     GroupsTypeCorrect, PTL

=============================================================================
