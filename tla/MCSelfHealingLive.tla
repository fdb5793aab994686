-------------------------- MODULE MCSelfHealingLive --------------------------
(***************************************************************************)
(* SelfHealing with a record of the crashes that got lost, for what must    *)
(* eventually happen.                                                       *)
(***************************************************************************)
EXTENDS SelfHealing

CONSTANT MaxCommanded  \* bound: servers that exist when a command is given

VARIABLE lost  \* history: servers whose last crash nobody will deal with any more

\* The observer acts on a sample of s: it went down.
WentDown(s) ==
    /\ sample # NoSample /\ sample' = NoSample
    /\ s = sample.srv /\ previous[s] = "running" /\ sample.state # "running"

\* A StopServer, given after the crash, had left its mark, which explains it.
Explained(s) == WentDown(s) /\ s \in manualStops

\* The healer's channel was full.
Dropped(s) == WentDown(s) /\ s \notin manualStops /\ Len(crashQ) = BusCap

\* A handler of s has returned without having done anything about the crash: it could
\* not read the row, the restart failed, or the row could not be marked as given up.
Abandoned(s) ==
    \E h \in Healers :
        /\ hsrv[h] = s /\ hpc[h] \in {"check", "restarting", "giveup"} /\ hpc'[h] = "idle"
        /\ rowStatus'[s] # "crash_looping"

\* A new run of the server is observed.
SeenRunning(s) ==
    sample # NoSample /\ sample' = NoSample /\ sample.srv = s /\ sample.state = "running"

Record ==
    lost' = {s \in Servers : \/ Explained(s) \/ Dropped(s) \/ Abandoned(s)
                             \/ s \in lost /\ ~SeenRunning(s)}

\* Bound: commands are given while at most MaxCommanded servers exist.
Bounded ==
    (\E p \in Callers \ Healers : pc[p] = "idle" /\ pc'[p] # "idle")
      => Cardinality({s \in Servers : Live(s)}) <= MaxCommanded

\* Each server has a container of its own.
Placed == CHOOSE f \in [Servers -> Containers] : \A s, t \in Servers : f[s] = f[t] => s = t

\* The daemon has been restarted over servers that run: all of them, or a single one and
\* the others have been deleted.
Survivor == CHOOSE s \in Servers : TRUE
LiveInit ==
    /\ rowStatus \in {[s \in Servers |-> "running"],
                      [s \in Servers |-> IF s = Survivor THEN "running" ELSE "gone"]}
    /\ rowCid = Placed
    /\ ctrOwner = [c \in Containers |-> IF \E s \in Servers : Placed[s] = c
                                         THEN CHOOSE s \in Servers : Placed[s] = c ELSE None]
    /\ ctrState = [c \in Containers |->
                      IF ctrOwner[c] = None THEN "unused"
                      ELSE IF Live(ctrOwner[c]) THEN "running" ELSE "removed"]
    /\ manualStops = {} /\ disturbed = {}
    /\ pc = [p \in Callers |-> "idle"]
    /\ srv = [p \in Callers |-> None]
    /\ cid = [p \in Callers |-> None]
    /\ unsaved = [p \in Callers |-> FALSE]
    /\ result = [p \in Callers |-> "none"]
    /\ restarts = [s \in Servers |-> 0]
    /\ crashQ = <<>>
    /\ previous = [s \in Servers |-> "unseen"]
    /\ todo = {} /\ sample = NoSample
    /\ hpc = [h \in Healers |-> "idle"]
    /\ hsrv = [h \in Healers |-> None]
    /\ healed = {}
    /\ lost = {}

LiveNext == Next /\ Record /\ Bounded
LiveSpec == LiveInit /\ [][LiveNext]_<<vars, lost>> /\ Fairness

\* An observed server that exits by itself, unmarked, is eventually running again, given
\* up on, or stopped or deleted by a command.  The crash is forgotten in three ways only:
\* its event meets a full channel (eventbus.go:70); its handler cannot read or mark the
\* row, or restart the server, which it tries once (selfheal.go:80); or a StopServer given
\* before the observer has decided explains it, though its own status update fails.
CrashHandled ==
    \A s \in Servers :
        (ExitedNow(s) /\ previous[s] = "running" /\ s \notin manualStops)
          ~> \/ RunningNow(s) \/ ~Exists(rowCid[s])
             \/ rowStatus[s] \in {"crash_looping", "stopped", "gone"}
             \/ s \in lost

\* A server that keeps crashing is not restarted for ever, even when commands start it
\* again in between, if from some time on every restart is counted.  One is not when
\* IncrementRestartCount fails, whose error is dropped (selfheal.go:83), or when the
\* server was restarted but RestartServer then failed to set its status.
HealingStops ==
    <>[][\A h \in Healers :
            hpc[h] \in {"restarting", "count"} /\ hpc'[h] = "idle" /\ Live(hsrv[h])
              => restarts' # restarts]_vars
      => \A s \in Servers : <>[](\A h \in Healers : hsrv[h] = s => hpc[h] # "restarting")

=============================================================================
