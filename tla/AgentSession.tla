----------------------------- MODULE AgentSession -----------------------------
(***************************************************************************)
(* The daemon's link to the Panel: agent.Run (internal/agent/daemon.go)      *)
(* keeps one session after another, each a connection with a heartbeat        *)
(* goroutine (heartbeat.go) and a command stream goroutine (stream.go), and   *)
(* the local API server beside them.                                         *)
(*                                                                         *)
(* A session ends when one of its goroutines reports on errCh; its context is *)
(* then cancelled, but nobody waits for the goroutine that is left.          *)
(* Durations are left out: ComputeBackoff decides how long, never whether.   *)
(***************************************************************************)
EXTENDS Integers

CONSTANTS MaxSessions,  \* bound: sessions that are opened
          MaxCommands,  \* bound: commands the Panel sends
          MaxCalls,     \* bound: local API calls at a time
          SessionFaults \* "tls": a certificate that does not load, "listen": a port that
                        \* is taken, "call": a heartbeat that fails

ASSUME SessionAssumption ==
    /\ MaxSessions \in Nat /\ MaxCommands \in Nat /\ MaxCalls \in Nat
    /\ SessionFaults \subseteq {"tls", "listen", "call"}

Sessions == 1..MaxSessions

VARIABLES
    cancelled,  \* the context of runDaemon: SIGINT or SIGTERM has come
    reach,      \* the Panel can be reached
    run,        \* next step of the main goroutine
    sess,       \* sessions opened; the last one is the current one
    alive,      \* the stream's transport has not been lost
    hb, st,     \* next step of the heartbeat and of the stream goroutine of each session
    errs,       \* results in errCh
    sent,       \* commands the Panel has sent
    serving,    \* the local API takes calls
    api,        \* calls it is working on
    held        \* and those that wait for their client, in the middle of a stream

sessionVars == <<cancelled, reach, run, sess, alive, hb, st, errs, sent, serving, api, held>>
gVars == <<alive, hb, st, errs>>

\* cctx of a session: done when runOnce has returned, or with the context of the daemon.
Done(n) == cancelled \/ n # sess \/ run # "session"

-----------------------------------------------------------------------------
(* The main goroutine.                                                       *)

\* runDaemon dials the Panel before anything else; waitReady polls the connection.
BootDial ==
    /\ run = "boot"
    /\ \/ reach /\ run' = "listen"
       \/ (cancelled \/ "tls" \in SessionFaults) /\ run' = "failed"
    /\ UNCHANGED <<cancelled, reach, sess, gVars, sent, serving, api, held>>

Listen ==
    /\ run = "listen"
    /\ \/ run' = "dial" /\ serving' = TRUE
       \/ "listen" \in SessionFaults /\ run' = "failed" /\ UNCHANGED serving
    /\ UNCHANGED <<cancelled, reach, sess, gVars, sent, api, held>>

\* MUTANT: waitReady does not look at the context.
RunOnceDeaf ==
    /\ run = "dial"
    /\ \/ /\ reach /\ sess < MaxSessions
          /\ sess' = sess + 1 /\ run' = "session"
          /\ alive' = [alive EXCEPT ![sess + 1] = TRUE]
          /\ hb' = [hb EXCEPT ![sess + 1] = "select"]
          /\ st' = [st EXCEPT ![sess + 1] = "open"]
          /\ UNCHANGED errs
       \/ "tls" \in SessionFaults /\ run' = "backoff" /\ UNCHANGED <<sess, gVars>>
    /\ UNCHANGED <<cancelled, reach, sent, serving, api, held>>

\* DialPanel; then the two goroutines of the session are started.
RunOnce ==
    /\ run = "dial"
    /\ \/ /\ reach /\ sess < MaxSessions
          /\ sess' = sess + 1 /\ run' = "session"
          /\ alive' = [alive EXCEPT ![sess + 1] = TRUE]
          /\ hb' = [hb EXCEPT ![sess + 1] = "select"]
          /\ st' = [st EXCEPT ![sess + 1] = "open"]
          /\ UNCHANGED errs
       \/ cancelled /\ run' = "ending" /\ UNCHANGED <<sess, gVars>>
       \/ /\ "tls" \in SessionFaults /\ run' = IF cancelled THEN "ending" ELSE "backoff"
          /\ UNCHANGED <<sess, gVars>>
    /\ UNCHANGED <<cancelled, reach, sent, serving, api, held>>

\* The select of runOnce, its deferred calls, and what Run does with the result.
SessionEnd ==
    /\ run = "session"
    /\ \/ errs[sess] > 0 /\ errs' = [errs EXCEPT ![sess] = @ - 1]
       \/ cancelled /\ UNCHANGED errs
    /\ run' = IF cancelled THEN "ending" ELSE "backoff"
    /\ UNCHANGED <<cancelled, reach, sess, alive, hb, st, sent, serving, api, held>>

\* MUTANT: a lost session ends Run.
BackoffGivesUp ==
    /\ run = "backoff"
    /\ run' = "ending"
    /\ UNCHANGED <<cancelled, reach, sess, gVars, sent, serving, api, held>>

Backoff ==
    /\ run = "backoff"
    /\ run' = "dial" \/ (cancelled /\ run' = "ending")
    /\ UNCHANGED <<cancelled, reach, sess, gVars, sent, serving, api, held>>

\* The handoff and the deferred calls of Run: the tunnel is closed, then the local API
\* takes no more calls.
Ending ==
    /\ run = "ending"
    /\ run' = "drain" /\ serving' = FALSE
    /\ UNCHANGED <<cancelled, reach, sess, gVars, sent, api, held>>

\* GracefulStop waits for the calls in progress.
GracefulStop ==
    /\ run = "drain"
    /\ api = 0 /\ held = 0
    /\ run' = "returned"
    /\ UNCHANGED <<cancelled, reach, sess, gVars, sent, serving, api, held>>

-----------------------------------------------------------------------------
(* The goroutines of a session.                                              *)

HbTo(n, next) ==
    /\ hb' = [hb EXCEPT ![n] = next]
    /\ UNCHANGED <<cancelled, reach, run, sess, alive, st, errs, sent, serving, api, held>>

\* The select of RunHeartbeat; with both ready, either branch is taken.
HeartbeatTick(n) == hb[n] = "select" /\ HbTo(n, "call")

HeartbeatStop(n) == hb[n] \in {"select", "pause"} /\ Done(n) /\ HbTo(n, "return")

\* MUTANT: a heartbeat that fails ends the goroutine, and with it the session.
HeartbeatCallGivesUp(n) ==
    /\ hb[n] = "call"
    /\ \/ reach /\ ~Done(n) /\ HbTo(n, "select")
       \/ (~reach \/ Done(n) \/ "call" \in SessionFaults) /\ HbTo(n, "return")

\* The call, 10 seconds at most.  A failure is followed by a wait and another try.
HeartbeatCall(n) ==
    /\ hb[n] = "call"
    /\ \/ reach /\ ~Done(n) /\ HbTo(n, "select")
       \/ (~reach \/ Done(n) \/ "call" \in SessionFaults) /\ HbTo(n, "pause")

HeartbeatRetry(n) == hb[n] = "pause" /\ HbTo(n, "select")

StTo(n, next) ==
    /\ st' = [st EXCEPT ![n] = next]
    /\ UNCHANGED <<cancelled, reach, run, sess, alive, hb, errs, sent, serving, api, held>>

StreamOpen(n) ==
    /\ st[n] = "open"
    /\ \/ alive[n] /\ ~Done(n) /\ StTo(n, "recv")
       \/ (~alive[n] \/ Done(n)) /\ StTo(n, "return")

\* Recv gives a command; dispatch runs the method of Lifecycle, whose error is dropped.
StreamRecv(n) ==
    /\ st[n] = "recv"
    /\ alive[n] /\ ~Done(n) /\ sent < MaxCommands
    /\ sent' = sent + 1
    /\ st' = [st EXCEPT ![n] = "busy"]
    /\ UNCHANGED <<cancelled, reach, run, sess, alive, hb, errs, serving, api, held>>

StreamDispatched(n) == st[n] = "busy" /\ StTo(n, "recv")

\* Recv fails: the transport is lost or the context done.
StreamFail(n) == st[n] = "recv" /\ (~alive[n] \/ Done(n)) /\ StTo(n, "return")

\* The Panel ends the stream.
StreamEOF(n) == st[n] = "recv" /\ StTo(n, "return")

\* MUTANT: errCh has no buffer.
SendErrUnbuffered(n) ==
    /\ n = sess /\ run = "session" /\ errs[n] = 0
    /\ errs' = [errs EXCEPT ![n] = @ + 1]
    /\ \/ hb[n] = "return" /\ hb' = [hb EXCEPT ![n] = "ended"] /\ UNCHANGED st
       \/ st[n] = "return" /\ st' = [st EXCEPT ![n] = "ended"] /\ UNCHANGED hb
    /\ UNCHANGED <<cancelled, reach, run, sess, alive, sent, serving, api, held>>

\* A goroutine leaves its result in errCh, which has room for two.
SendErr(n) ==
    /\ errs[n] < 2
    /\ errs' = [errs EXCEPT ![n] = @ + 1]
    /\ \/ hb[n] = "return" /\ hb' = [hb EXCEPT ![n] = "ended"] /\ UNCHANGED st
       \/ st[n] = "return" /\ st' = [st EXCEPT ![n] = "ended"] /\ UNCHANGED hb
    /\ UNCHANGED <<cancelled, reach, run, sess, alive, sent, serving, api, held>>

-----------------------------------------------------------------------------
(* The local API and the environment.                                        *)

ApiCall ==
    /\ serving /\ api + held < MaxCalls
    /\ api' = api + 1
    /\ UNCHANGED <<cancelled, reach, run, sess, gVars, sent, serving, held>>

ApiReturn ==
    /\ api > 0
    /\ api' = api - 1
    /\ UNCHANGED <<cancelled, reach, run, sess, gVars, sent, serving, held>>

\* Upload in Recv or in its pipe, Download and StreamEvents in Send: no deadline ends
\* them.  The client, or the loss of its connection, does; or nothing.
ApiHold ==
    /\ api > 0
    /\ api' = api - 1 /\ held' = held + 1
    /\ UNCHANGED <<cancelled, reach, run, sess, gVars, sent, serving>>

ApiResume ==
    /\ held > 0
    /\ api' = api + 1 /\ held' = held - 1
    /\ UNCHANGED <<cancelled, reach, run, sess, gVars, sent, serving>>

Signal ==
    /\ ~cancelled
    /\ cancelled' = TRUE
    /\ UNCHANGED <<reach, run, sess, gVars, sent, serving, api, held>>

\* The network to the Panel goes, and the streams over it with it; or comes back.
PanelLost ==
    /\ reach
    /\ reach' = FALSE
    /\ alive' = [n \in Sessions |-> FALSE]
    /\ UNCHANGED <<cancelled, run, sess, hb, st, errs, sent, serving, api, held>>

PanelBack ==
    /\ ~reach
    /\ reach' = TRUE
    /\ UNCHANGED <<cancelled, run, sess, gVars, sent, serving, api, held>>

-----------------------------------------------------------------------------
SessionInit ==
    /\ cancelled = FALSE /\ reach \in BOOLEAN
    /\ run = "boot" /\ sess = 0
    /\ alive = [n \in Sessions |-> FALSE]
    /\ hb = [n \in Sessions |-> "none"] /\ st = [n \in Sessions |-> "none"]
    /\ errs = [n \in Sessions |-> 0]
    /\ sent = 0 /\ serving = FALSE /\ api = 0 /\ held = 0

RunStep ==
    \/ BootDial \/ Listen \/ RunOnce \/ SessionEnd \/ Backoff \/ Ending \/ GracefulStop

HeartbeatStep(n) == HeartbeatTick(n) \/ HeartbeatCall(n) \/ HeartbeatRetry(n)
StreamStep(n) == StreamOpen(n) \/ StreamDispatched(n) \/ StreamFail(n)

SessionNext ==
    \/ RunStep \/ ApiCall \/ ApiReturn \/ ApiHold \/ ApiResume \/ Signal \/ PanelLost \/ PanelBack
    \/ \E n \in Sessions : \/ HeartbeatStep(n) \/ HeartbeatStop(n) \/ StreamStep(n)
                           \/ StreamRecv(n) \/ StreamEOF(n) \/ SendErr(n)

SessionSpec == SessionInit /\ [][SessionNext]_sessionVars

\* Goroutines run.  A select that finds its context done again and again takes that
\* branch at last; Docker answers, so dispatch ends and so do API calls that do not
\* wait for their client.  Of clients nothing is assumed.
SessionFairSpec ==
    /\ SessionSpec
    /\ WF_sessionVars(RunStep) /\ WF_sessionVars(ApiReturn)
    /\ \A n \in Sessions :
         /\ WF_sessionVars(HeartbeatStep(n)) /\ SF_sessionVars(HeartbeatStop(n))
         /\ WF_sessionVars(StreamStep(n)) /\ WF_sessionVars(SendErr(n))

-----------------------------------------------------------------------------
(* Properties.                                                               *)

\* Type invariant of the daemon's main goroutine and of its sessions.
SessionTypeOK ==
    /\ cancelled \in BOOLEAN /\ reach \in BOOLEAN /\ serving \in BOOLEAN
    /\ run \in {"boot", "listen", "dial", "session", "backoff", "ending", "drain",
                "returned", "failed"}
    /\ sess \in 0..MaxSessions
    /\ alive \in [Sessions -> BOOLEAN]
    /\ hb \in [Sessions -> {"none", "select", "call", "pause", "return", "ended"}]
    /\ st \in [Sessions -> {"none", "open", "recv", "busy", "return", "ended"}]
    /\ errs \in [Sessions -> 0..2]
    /\ sent \in 0..MaxCommands
    /\ api \in Nat /\ held \in Nat /\ api + held <= MaxCalls

\* Commands of the Panel are run one at a time, over all reconnections: no goroutine of
\* an earlier session still runs one when the next session is about to take commands.
CommandsOneByOne ==
    /\ \A m, n \in Sessions : st[m] = "busy" /\ st[n] = "busy" => m = n
    /\ \A n \in Sessions : st[n] = "busy" /\ ~cancelled => n = sess /\ run = "session"

\* A signal ends Run, whatever the Panel and the sessions are doing.  Only a local API
\* call that waits for its client can keep it, and only in the GracefulStop at its end,
\* where the tunnel is closed and no new call is taken: GracefulStop has no deadline.
ShutdownCompletes ==
    cancelled ~> \/ run \in {"returned", "failed"}
                 \/ run = "drain" /\ ~serving /\ held > 0

\* The goroutines of a session that is over end: errCh takes the result nobody reads.
GoroutinesEnd ==
    \A n \in Sessions : (n < sess \/ (n = sess /\ run # "session"))
                          ~> (hb[n] = "ended" /\ st[n] = "ended")

\* A lost session is followed by another one, if from some time on the Panel can be reached
\* and the certificates load.
SessionRestored ==
    <>[]reach /\ <>[][run = "dial" => run' # "backoff"]_sessionVars
      => (run = "backoff" /\ sess < MaxSessions ~> run = "session" \/ cancelled)

=============================================================================
