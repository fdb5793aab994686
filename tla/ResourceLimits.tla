--------------------------- MODULE ResourceLimits ---------------------------
(***************************************************************************)
(* The limits of one server: its row in resource_limits                    *)
(* (internal/store/sqlite.go), the limits its container was created with    *)
(* (internal/runtime/docker/docker.go) and the files of the container's     *)
(* cgroup (internal/resource/enforcer.go), as Lifecycle.StartServer         *)
(* (internal/orchestrator/lifecycle.go) carries the first to the other two. *)
(*                                                                         *)
(* StartServer reads the row, creates the container if the server has none, *)
(* starts it and writes one file after the other; nothing keeps two calls,  *)
(* or a change of the row, apart.  Of the server's row, whose status is in   *)
(* ServerLifecycle, only whether it names the container is here.             *)
(***************************************************************************)
EXTENDS Naturals, Sequences

CONSTANTS Starters,    \* callers of StartServer
          Limits,      \* what a row may say: a number for each kind, 0 is none
          MaxTurns,    \* bound: calls and changes
          LimitFaults, \* "db", "runtime", "cgroup", "io": what may fail
          NoLimits     \* no row, no container, no cgroup

Kinds == {"cpu", "memory", "pids"}
Files == <<"cpu", "memory", "pids">>   \* in the order ApplyLimits writes them

ASSUME LimitsAssumption ==
    /\ Limits \subseteq [Kinds -> Nat] /\ [k \in Kinds |-> 0] \in Limits /\ MaxTurns \in Nat
    /\ NoLimits \notin [Kinds -> Nat]
    /\ LimitFaults \subseteq {"db", "runtime", "cgroup", "io"}

VARIABLES
    row,    \* resource_limits of the server, or NoLimits
    spec,   \* the limits its container was created with, or NoLimits without a container
    named,  \* the server's row names the container
    cgroup, \* the files of the running container, or NoLimits; 0 is "max"
    start,  \* the calls of StartServer: step, limits read, container known, next file;
            \* history: whether nobody else has replaced what it wrote so far
    kept,   \* history: the limits the last StartServer that returned nil has put in force
    turns   \* calls and changes so far

limitVars == <<row, spec, named, cgroup, start, kept, turns>>

IdleStart == [pc |-> "idle", lim |-> NoLimits, known |-> FALSE, n |-> 1, sound |-> TRUE]

\* Millicores are hundredths of the quota in a period of 100000, whether Docker
\* or ApplyLimits sets it; megabytes are bytes for both.
Scale == [cpu |-> 100, memory |-> 1048576, pids |-> 1]
Written(l) == [k \in Kinds |-> l[k] * Scale[k]]
ReadLimits == [k \in Kinds |-> cgroup[k] \div Scale[k]]

HasLimits(l) == l # NoLimits /\ \E k \in Kinds : l[k] > 0

Turn == turns < MaxTurns /\ turns' = turns + 1

SetResourceLimits(l) ==
    /\ Turn
    /\ row' = l /\ kept' = NoLimits
    /\ UNCHANGED <<spec, named, cgroup, start>>

-----------------------------------------------------------------------------
(* StartServer.                                                            *)

\* The server's row is read, then its limits: a row of limits that cannot be read
\* counts as none.
GetResourceLimits(c) ==
    /\ Turn
    /\ start[c].pc = "idle"
    /\ \E l \in {row} \cup (IF "db" \in LimitFaults THEN {NoLimits} ELSE {}) :
         start' = [start EXCEPT ![c] = [IdleStart EXCEPT !.pc = "create", !.lim = l,
                                                         !.known = named]]
    /\ UNCHANGED <<row, spec, named, cgroup, kept>>

Return(c) == start' = [start EXCEPT ![c] = IdleStart]

\* The name of the container is taken if another call has created one, or an
\* earlier one could not record it.
CreateContainer(c) ==
    /\ start[c].pc = "create"
    /\ IF start[c].known
         THEN UNCHANGED spec /\ start' = [start EXCEPT ![c].pc = "run"]
         ELSE \/ /\ spec = NoLimits
                 /\ spec' = IF HasLimits(start[c].lim) THEN start[c].lim ELSE [k \in Kinds |-> 0]
                 /\ start' = [start EXCEPT ![c].pc = "name"]
              \/ /\ spec # NoLimits \/ "runtime" \in LimitFaults
                 /\ UNCHANGED spec /\ Return(c)
    /\ UNCHANGED <<row, named, cgroup, kept, turns>>

SetServerContainer(c) ==
    /\ start[c].pc = "name"
    /\ \/ named' = TRUE /\ start' = [start EXCEPT ![c].pc = "run"]
       \/ "db" \in LimitFaults /\ UNCHANGED named /\ Return(c)
    /\ UNCHANGED <<row, spec, cgroup, kept, turns>>

\* To start a container that runs already changes nothing.  If the status cannot be
\* stored then, the call ends before it looks at the limits.
StartContainer(c) ==
    /\ start[c].pc = "run"
    /\ \/ /\ spec # NoLimits
          /\ cgroup' = IF cgroup = NoLimits THEN Written(spec) ELSE cgroup
          /\ start' = [start EXCEPT ![c].pc = "limits"] \/ ("db" \in LimitFaults /\ Return(c))
       \/ (spec = NoLimits \/ "runtime" \in LimitFaults) /\ UNCHANGED cgroup /\ Return(c)
    /\ UNCHANGED <<row, spec, named, kept, turns>>

\* Without limits, cgroup v2 or a directory for the container nothing is written.
FindContainerCgroup(c) ==
    /\ start[c].pc = "limits"
    /\ \/ /\ HasLimits(start[c].lim) /\ cgroup # NoLimits
          /\ start' = [start EXCEPT ![c].pc = "apply", ![c].sound = TRUE]
       \/ (~HasLimits(start[c].lim) \/ cgroup = NoLimits \/ "cgroup" \in LimitFaults) /\ Return(c)
    /\ UNCHANGED <<row, spec, named, cgroup, kept, turns>>

\* One file is written: what calls with other limits have written is replaced, or
\* about to be.  With the last file the call ends; it has put its limits in force
\* unless such a call wrote, or the container was stopped or restarted, between
\* two files.
WroteFile(c) ==
    /\ start' = [d \in Starters |->
                   IF d # c THEN [start[d] EXCEPT !.sound = @ /\ (start[d].pc = "apply" =>
                                                                  start[d].lim = start[c].lim)]
                   ELSE IF start[c].n = Len(Files) THEN IdleStart
                   ELSE [start[c] EXCEPT !.n = @ + 1]]
    /\ kept' = IF start[c].n = Len(Files) /\ start[c].sound THEN start[c].lim
               ELSE IF kept = start[c].lim THEN kept ELSE NoLimits

\* MUTANT: the quota is written in millicores.
ApplyLimitsUnscaled(c) ==
    LET k == Files[start[c].n] IN
    /\ start[c].pc = "apply" /\ cgroup # NoLimits
    /\ cgroup' = IF start[c].lim[k] > 0 THEN [cgroup EXCEPT ![k] = start[c].lim[k]] ELSE cgroup
    /\ WroteFile(c)
    /\ UNCHANGED <<row, spec, named, turns>>

\* One file; a limit of zero is left as it is.  A write that fails, or finds the
\* container gone, ends StartServer with an error and the files half written.
ApplyLimits(c) ==
    LET k == Files[start[c].n] IN
    /\ start[c].pc = "apply"
    /\ \/ /\ cgroup # NoLimits
          /\ cgroup' = IF start[c].lim[k] > 0 THEN [cgroup EXCEPT ![k] = start[c].lim[k] * Scale[k]]
                       ELSE cgroup
          /\ WroteFile(c)
       \/ /\ start[c].lim[k] > 0 /\ (cgroup = NoLimits \/ "io" \in LimitFaults)
          /\ Return(c) /\ UNCHANGED <<cgroup, kept>>
       \/ /\ start[c].lim[k] = 0 /\ cgroup = NoLimits
          /\ IF start[c].n = Len(Files) THEN Return(c) ELSE start' = [start EXCEPT ![c].n = @ + 1]
          /\ UNCHANGED <<cgroup, kept>>
    /\ UNCHANGED <<row, spec, named, turns>>

-----------------------------------------------------------------------------
\* What calls have written so far is gone with the cgroup.
NewCgroup(files) ==
    /\ cgroup' = files /\ kept' = NoLimits
    /\ start' = [c \in Starters |-> [start[c] EXCEPT !.sound = start[c].pc # "apply"]]

\* Stop, or the end of the container's process.
Stop ==
    /\ Turn
    /\ cgroup # NoLimits /\ NewCgroup(NoLimits)
    /\ UNCHANGED <<row, spec, named>>

\* RestartServer, which the self-healer calls: Docker makes the cgroup anew, with
\* the limits the container was created with, and nobody writes the row's.
Restart ==
    /\ Turn
    /\ named /\ spec # NoLimits /\ NewCgroup(Written(spec))
    /\ UNCHANGED <<row, spec, named>>

\* DeleteServer, before its row and with it the limits are deleted.
DeleteContainer ==
    /\ Turn
    /\ named /\ spec # NoLimits /\ spec' = NoLimits /\ NewCgroup(NoLimits)
    /\ UNCHANGED <<row, named>>

LimitsInit ==
    /\ row = NoLimits /\ spec = NoLimits /\ cgroup = NoLimits /\ kept = NoLimits
    /\ named = FALSE /\ start = [c \in Starters |-> IdleStart] /\ turns = 0

StartStep(c) ==
    \/ GetResourceLimits(c) \/ CreateContainer(c) \/ SetServerContainer(c) \/ StartContainer(c)
    \/ FindContainerCgroup(c) \/ ApplyLimits(c)

LimitsNext ==
    \/ \E l \in Limits : SetResourceLimits(l)
    \/ \E c \in Starters : StartStep(c)
    \/ Stop \/ Restart \/ DeleteContainer

-----------------------------------------------------------------------------
\* Type invariant of rows, files and calls.
LimitsTypeOK ==
    /\ row \in Limits \cup {NoLimits} /\ spec \in Limits \cup {NoLimits}
    /\ kept \in Limits \cup {NoLimits} /\ named \in BOOLEAN
    /\ cgroup = NoLimits \/ ReadLimits \in [Kinds -> Nat]
    /\ \A c \in Starters : /\ start[c].pc \in {"idle", "create", "name", "run", "limits", "apply"}
                           /\ start[c].lim \in Limits \cup {NoLimits}
                           /\ start[c].n \in 1..Len(Files) /\ start[c].sound \in BOOLEAN
    /\ turns \in 0..MaxTurns

\* A container that StartServer returned nil for, files written, runs under every
\* limit that call had read, until somebody restarts or stops it, changes the row or
\* a call that read other limits begins to write, whatever calls come between and
\* fail or read nothing.  It is not so after RestartServer, also one in the middle
\* of the call, nor for calls with different limits that overlap.
LimitsEnforced ==
    kept # NoLimits /\ cgroup # NoLimits =>
        \A k \in Kinds : kept[k] > 0 => ReadLimits[k] = kept[k]

=============================================================================
