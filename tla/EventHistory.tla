----------------------------- MODULE EventHistory -----------------------------
(***************************************************************************)
(* The event history: what EventRecorder (internal/orchestrator/             *)
(* eventrecorder.go) takes from the event bus (eventbus.go) and SaveEvent    *)
(* (internal/store/sqlite.go) inserts into the table events, and what        *)
(* ListEvents finds there.                                                  *)
(*                                                                         *)
(* The recorder has one buffered channel and drops every error.  Its row ids  *)
(* come from a counter of the process; created_at is left at the zero time.   *)
(* foreign_keys is set on one connection of the pool only, so a statement may *)
(* or may not enforce events.server_id.                                     *)
(***************************************************************************)
EXTENDS Integers, Sequences, FiniteSets

CONSTANTS Servers,
          MaxEvents,  \* bound: events published
          MaxQueue,   \* bound: events in the recorder's channel (64 in the code)
          MaxRuns,    \* bound: runs of the daemon
          QueryLimit, \* most rows a query returns (1000 in the code)
          NoServer,   \* server_id of an event of no server: NULL in the table
          Faults      \* "db": an INSERT that fails, "fk": the pooled connections differ

ASSUME HistoryAssumption ==
    /\ MaxEvents \in Nat /\ MaxQueue \in Nat \ {0} /\ MaxRuns \in Nat \ {0}
    /\ QueryLimit \in Nat /\ NoServer \notin Servers
    /\ Faults \subseteq {"db", "fk"}

\* n is the number of the event and stands for the time it is published.
EventTypes == {"created", "started", "deleted", "disconnected"}
Events == [n : 1..MaxEvents, srv : Servers \cup {NoServer}, type : EventTypes]

VARIABLES
    servers,  \* ids in the table servers
    now,      \* events published
    queue,    \* the recorder's channel
    rec,      \* the recorder: "off", "select" or "save"
    event,    \* the event it is saving
    seq,      \* eventSequence
    table,    \* rows of the table events, by id
    runs      \* runs of the daemon so far

historyVars == <<servers, now, queue, rec, event, seq, table, runs>>

ZeroTime == 0

\* A row: the event as the recorder stores it.
Row(e) == [n |-> e.n, srv |-> e.srv, type |-> e.type, created_at |-> ZeroTime]

\* MUTANT: the channel has no limit.
PublishUnbounded(s, ty) ==
    /\ now < MaxEvents
    /\ now' = now + 1
    /\ queue' = IF rec # "off" THEN Append(queue, [n |-> now', srv |-> s, type |-> ty]) ELSE queue

\* Publish: an event for a channel that is full is dropped.
Publish(s, ty) ==
    /\ now < MaxEvents
    /\ now' = now + 1
    /\ queue' = IF rec # "off" /\ Len(queue) < MaxQueue
                  THEN Append(queue, [n |-> now', srv |-> s, type |-> ty]) ELSE queue

\* The methods of Lifecycle change the row of the server, then publish.
CreateServer(s) ==
    /\ s \notin servers
    /\ servers' = servers \cup {s}
    /\ Publish(s, "created")
    /\ UNCHANGED <<rec, event, seq, table, runs>>

StartServer(s) ==
    /\ s \in servers
    /\ Publish(s, "started")
    /\ UNCHANGED <<servers, rec, event, seq, table, runs>>

\* ON DELETE CASCADE takes the server's history with it where foreign keys are enforced.
DeleteServer(s) ==
    /\ s \in servers
    /\ servers' = servers \ {s}
    /\ \/ table' = [i \in {j \in DOMAIN table : table[j].srv # s} |-> table[i]]
       \/ "fk" \in Faults /\ UNCHANGED table
    /\ Publish(s, "deleted")
    /\ UNCHANGED <<rec, event, seq, runs>>

\* FrpManager.Watch names no server when the frpc child has ended.
ChildEnded ==
    /\ Publish(NoServer, "disconnected")
    /\ UNCHANGED <<servers, rec, event, seq, table, runs>>

\* NewEventRecorder subscribes to everything and its goroutine starts.
StartRecorder ==
    /\ rec = "off"
    /\ rec' = "select"
    /\ UNCHANGED <<servers, now, queue, event, seq, table, runs>>

\* An event is received; newEventID counts.
RecorderTake ==
    /\ rec = "select"
    /\ queue # <<>>
    /\ event' = Head(queue) /\ queue' = Tail(queue)
    /\ seq' = seq + 1
    /\ rec' = "save"
    /\ UNCHANGED <<servers, now, table, runs>>

\* MUTANT: the id of the row is the number of rows there are.
SaveEventCounted ==
    /\ rec = "save"
    /\ table' = [i \in DOMAIN table \cup {Cardinality(DOMAIN table) + 1} |->
                   IF i = Cardinality(DOMAIN table) + 1 THEN Row(event) ELSE table[i]]
    /\ rec' = "select"
    /\ UNCHANGED <<servers, now, queue, event, seq, runs>>

\* The foreign key of events.server_id holds for NULL.
HasServer(e) == e.srv \in servers \cup {NoServer}

\* MUTANT: an event that cannot be stored goes back to the end of the channel.
SaveEventRequeues ==
    /\ rec = "save"
    /\ \/ /\ seq \notin DOMAIN table /\ HasServer(event)
          /\ table' = [i \in DOMAIN table \cup {seq} |-> IF i = seq THEN Row(event) ELSE table[i]]
          /\ UNCHANGED queue
       \/ /\ seq \in DOMAIN table \/ ~HasServer(event) \/ "db" \in Faults
          /\ queue' = IF Len(queue) < MaxQueue THEN Append(queue, event) ELSE queue
          /\ UNCHANGED table
    /\ rec' = "select"
    /\ UNCHANGED <<servers, now, event, seq, runs>>

\* The INSERT: an id that is taken, a server that is gone or a database error loses the
\* event; the error is dropped.
SaveEvent ==
    /\ rec = "save"
    /\ \/ /\ seq \notin DOMAIN table
          /\ HasServer(event) \/ "fk" \in Faults
          /\ table' = [i \in DOMAIN table \cup {seq} |-> IF i = seq THEN Row(event) ELSE table[i]]
       \/ /\ seq \in DOMAIN table \/ ~HasServer(event) \/ "db" \in Faults
          /\ UNCHANGED table
    /\ rec' = "select"
    /\ UNCHANGED <<servers, now, queue, event, seq, runs>>

\* The daemon ends and is started again: the channel and the counter are new.
DaemonRestart ==
    /\ runs < MaxRuns
    /\ runs' = runs + 1
    /\ rec' = "off" /\ queue' = <<>> /\ seq' = 0
    /\ UNCHANGED <<servers, now, event, table>>

HistoryInit ==
    /\ servers = {} /\ now = 0 /\ queue = <<>>
    /\ rec = "off" /\ event \in {[n |-> 0]} /\ seq = 0
    /\ table = [i \in {} |-> 0] /\ runs = 1

RecorderStep == StartRecorder \/ RecorderTake \/ SaveEvent

HistoryNext ==
    \/ \E s \in Servers : CreateServer(s) \/ StartServer(s) \/ DeleteServer(s)
    \/ ChildEnded \/ RecorderStep \/ DaemonRestart

-----------------------------------------------------------------------------
(* ListEvents.                                                               *)

\* The rows that match a filter; one that is not set, like a zero From or To or
\* an empty server id, selects everything.
Matching(srv, types, from, to) ==
    {<<i, table[i]>> : i \in {j \in DOMAIN table :
                          /\ srv # NoServer => table[j].srv = srv
                          /\ table[j].type \in types
                          /\ from # ZeroTime => table[j].created_at >= from
                          /\ to # ZeroTime => table[j].created_at <= to}}

\* The answers ORDER BY created_at DESC LIMIT allows: all that match, or as many
\* of the latest as the limit says, any of those with the same time.
ListEvents(srv, types, from, to, limit) ==
    LET all == Matching(srv, types, from, to)
    IN  {some \in SUBSET all :
            IF Cardinality(all) <= limit THEN some = all
            ELSE /\ Cardinality(some) = limit
                 /\ \A x \in some, y \in all \ some : x[2].created_at >= y[2].created_at}

\* rows.Scan of a NULL into a string: the query fails as a whole.
ScanFails(answer) == \E x \in answer : x[2].srv = NoServer

-----------------------------------------------------------------------------
(* Properties.                                                               *)

\* Type invariant of the history.
HistoryTypeOK ==
    /\ servers \subseteq Servers /\ now \in 0..MaxEvents /\ runs \in 1..MaxRuns
    /\ queue \in Seq(Events) /\ Len(queue) <= MaxQueue
    /\ rec \in {"off", "select", "save"}
    /\ rec = "save" => event \in Events
    /\ seq \in 0..MaxEvents
    /\ \A i \in DOMAIN table : i \in 1..MaxEvents /\ table[i] \in {Row(e) : e \in Events}

\* However ids collide after a restart, no event is recorded twice, and of two events
\* of one run of the daemon the later one has the higher id or is not recorded.
RecordedOnce ==
    /\ \A i, j \in DOMAIN table : table[i].n = table[j].n => i = j
    /\ \A i \in DOMAIN table : \A k \in 1..Len(queue) : table[i].n < queue[k].n
    /\ runs = 1 => \A i, j \in DOMAIN table : i < j => table[i].n < table[j].n

\* A query for the events of one server never fails, whatever rows without a
\* server there are, and what it has once returned it returns again, with the same
\* id and contents, until the server is deleted or there are more rows than its limit:
\* recording costs no row that is there, however ids collide, and nothing else
\* removes one (PruneEvents has no caller).
RowsStay ==
    [][\A s \in servers \cap servers', ty \in EventTypes :
          \A before \in ListEvents(s, {ty}, ZeroTime, ZeroTime, QueryLimit) :
             /\ ~ScanFails(before)
             /\ Cardinality(Matching(s, {ty}, ZeroTime, ZeroTime)') <= QueryLimit
                  => \A after \in ListEvents(s, {ty}, ZeroTime, ZeroTime, QueryLimit)' :
                        before \subseteq after]_historyVars

=============================================================================
