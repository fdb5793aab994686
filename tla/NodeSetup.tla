------------------------------ MODULE NodeSetup ------------------------------
(***************************************************************************)
(* How a node comes to be: the processes of the oikos command              *)
(* (cmd/oikos/main.go, daemon.go, doctor.go, diagnose.go) around one data  *)
(* directory, one pair of certificate files and one config.yaml.           *)
(*                                                                         *)
(* oikos install migrates the database (internal/store/sqlite.go), trades  *)
(* a one-time token for a certificate at the Panel and then writes key,    *)
(* certificate, node row and configuration one after the other             *)
(* (internal/agent/pairing.go); oikos server, diagnose and the health      *)
(* check of update (cmd/oikos/update.go) migrate as well, doctor in part,  *)
(* the daemon only the tables of the tunnels.  No process excludes another.*)
(*                                                                         *)
(* A command is a program: the sequence of its database statements, files  *)
(* and calls, each of which is a step that succeeds, fails or is the last  *)
(* the process takes.  Flags are reduced to the address of the Panel and   *)
(* to whether --data-dir names another directory, the identity a token     *)
(* buys to the token itself.  Of another data directory only what its      *)
(* install does to the certificate files and to config.yaml is here, which *)
(* are the same for all.  The two UPDATEs of MigratePlugins, which fill in *)
(* columns of rows, are left out.                                          *)
(***************************************************************************)
EXTENDS Naturals, Sequences, FiniteSets

CONSTANTS Procs,       \* processes of the oikos command that run at a time
          Tokens,      \* one-time tokens the Panel has given out
          Panels,      \* addresses of Panels, given to install by --panel
          DefaultAddr, \* the address of config.Default
          Legacy,      \* database schemas the processes may find
          MaxCommands, \* bound: commands run
          Faults,      \* "db", "io", "net", "env": what may fail; "kill": a process may die
          None         \* no value

Pieces == {"base", "events", "restart_count", "last_crash_at", "backups",
           "plugins", "plugin_columns", "tunnels"}
Addrs == Panels \cup {DefaultAddr}

ASSUME SetupAssumption ==
    /\ MaxCommands \in Nat
    /\ Legacy \subseteq SUBSET Pieces
    /\ {None, "torn", "elsewhere"} \cap (Tokens \cup Addrs) = {}
    /\ Faults \subseteq {"db", "io", "net", "env", "kill"}

VARIABLES
    files,     \* the files key, cert and config: None, "torn" or what was written, for
               \* config the address, or "elsewhere": it names another data directory
    ca,        \* whether the Panel's CA certificate is in place
    nodes,     \* the rows of the table nodes, in the order of insertion; history: old, whether
               \* an older oikos inserted it
    schema,    \* the pieces of the schema that the database has
    issued,    \* by token: the Panel that has taken it and issued a certificate, or None
    proc,      \* the processes
    started,   \* number of commands run so far
    overlapped,\* history: two installs were between their check and their row, or one of
               \* another data directory has been past its check
    reset      \* history: config.yaml was rewritten or lost since the node was paired

setupVars == <<files, ca, nodes, schema, issued, proc, started, overlapped, reset>>

-----------------------------------------------------------------------------
(* The programs.  MigratePlugins adds its columns to a table that an older  *)
(* oikos created; its three columns are one piece.                          *)

MigrateObservability ==
    << <<"create", "events">>,
       <<"find", "restart_count">>, <<"add", "restart_count">>,
       <<"find", "last_crash_at">>, <<"add", "last_crash_at">> >>

MigrateFilesystem == << <<"create", "backups">> >>

MigratePlugins ==
    << <<"create", "plugins">>, <<"find", "plugin_columns">>, <<"add", "plugin_columns">> >>

MigrateNetworking == << <<"create", "tunnels">> >>

\* MUTANT: the tables of the plugins are forgotten.
MigrateWithoutPlugins == << <<"create", "base">> >> \o MigrateObservability \o MigrateFilesystem

Migrate == << <<"create", "base">> >>
    \o MigrateObservability \o MigrateFilesystem \o MigratePlugins

\* MUTANT: the row comes before the files.
PairWithPanelRowFirst == << <<"check">>, <<"pair">>, <<"row">>, <<"write", "key">>,
                            <<"write", "cert">>, <<"write", "config">> >>

PairWithPanel == << <<"check">>, <<"pair">>, <<"write", "key">>, <<"write", "cert">>,
                    <<"row">>, <<"write", "config">> >>

PairWithToken == << <<"write", "config">> >>

\* An install with another --data-dir, apart from what it does to its own database.
PairElsewhere == << <<"check">>, <<"pair">>, <<"write", "key">>, <<"write", "cert">>,
                    <<"write", "config">> >>

\* oikos update --health-check-only.  An update leaves out the word update when it runs
\* the candidate, which refuses that: only an operator comes here.
RunHealthCheck == Migrate \o << <<"runtime">> >>

RunDaemon == MigrateNetworking
    \o << <<"node">>, <<"tls">>, <<"dial">>, <<"runtime">>, <<"plugins">>, <<"run">> >>

Program == [install  |-> Migrate \o PairWithPanel,
            elsewhere |-> PairElsewhere,
            token    |-> PairWithToken,
            server   |-> Migrate,
            check    |-> RunHealthCheck,
            diagnose |-> Migrate \o << <<"diagnose">> >>,
            doctor   |-> MigratePlugins \o << <<"doctor">> >>,
            daemon   |-> RunDaemon]

Commands == DOMAIN Program

ASSUME CommandAssumption == None \notin Commands

Idle == [cmd |-> None, pc |-> 0, addr |-> None, token |-> None, found |-> FALSE, exit |-> None]

Op(p) == IF proc[p].cmd = None THEN <<"none">> ELSE Program[proc[p].cmd][proc[p].pc]

AtOp(p, op) == Op(p)[1] = op

\* The process ends, with the verdict of diagnose or doctor.
Exit(p, verdict) == proc' = [proc EXCEPT ![p] = [Idle EXCEPT !.exit = verdict]]

\* The process goes on with its next step; install and server end with their last.
Goto(p, r) ==
    proc' = [proc EXCEPT ![p] = IF r.pc = Len(Program[r.cmd]) THEN Idle ELSE [r EXCEPT !.pc = @ + 1]]

Advance(p) == Goto(p, proc[p])

\* An error of a step ends the command, except that diagnose and doctor go on
\* with their last step and remember it.
Fail(p) ==
    IF proc[p].cmd \in {"diagnose", "doctor"}
      THEN proc' = [proc EXCEPT ![p] = [@ EXCEPT !.pc = Len(Program[proc[p].cmd]), !.exit = "failed"]]
      ELSE Exit(p, None)

-----------------------------------------------------------------------------
(* Starting a command.  A missing config.yaml gives the defaults; a torn    *)
(* one may still parse, with some of its fields; with one that names        *)
(* another data directory a command does nothing to this one.               *)

Load == CASE files.config = None   -> {DefaultAddr}
          [] files.config = "torn" -> Addrs \cup {"error"}
          [] files.config = "elsewhere" -> {}
          [] OTHER                 -> {files.config}

Start(p, cmd, addr) ==
    /\ proc[p].cmd = None
    /\ started < MaxCommands
    /\ started' = started + 1
    /\ proc' = [proc EXCEPT ![p] = [Idle EXCEPT !.cmd = cmd, !.pc = 1, !.addr = addr]]
    /\ UNCHANGED <<files, ca, nodes, schema, issued, overlapped, reset>>

\* Without --panel a token in the right format is all it takes.
RunInstall(p) ==
    \/ \E addr \in Panels : Start(p, "install", addr) \/ Start(p, "elsewhere", addr)
    \/ Start(p, "token", DefaultAddr) \/ Start(p, "token", "elsewhere")

\* MUTANT: a configuration that does not parse is used.
RunConfiguredUnchecked(p) ==
    \E cmd \in {"server", "check", "diagnose", "doctor", "daemon"}, addr \in Load : Start(p, cmd, addr)

\* The commands that load the configuration they find, if it can be read.
RunConfigured(p) ==
    \E cmd \in {"server", "check", "diagnose", "doctor", "daemon"}, addr \in Load \ {"error"} :
        Start(p, cmd, addr)

\* The operator copies the Panel's CA certificate to the node.
InstallCA ==
    /\ ~ca
    /\ ca' = TRUE
    /\ UNCHANGED <<files, nodes, schema, issued, proc, started, overlapped, reset>>

-----------------------------------------------------------------------------
(* Migrations.  CREATE TABLE IF NOT EXISTS may be repeated; a column is     *)
(* looked up first and added then, by two statements.                      *)

Create(p) ==
    /\ AtOp(p, "create")
    /\ schema' = schema \cup {Op(p)[2]}
                        \cup (IF Op(p)[2] = "plugins" /\ "plugins" \notin schema
                                THEN {"plugin_columns"} ELSE {})
    /\ Advance(p)
    /\ UNCHANGED <<files, ca, nodes, issued, started, overlapped, reset>>

FindColumn(p) ==
    /\ AtOp(p, "find")
    /\ Goto(p, [proc[p] EXCEPT !.found = Op(p)[2] \in schema])
    /\ UNCHANGED <<files, ca, nodes, schema, issued, started, overlapped, reset>>

\* ALTER TABLE fails if another process has added the column since.
AddColumn(p) ==
    /\ AtOp(p, "add")
    /\ IF ~proc[p].found /\ Op(p)[2] \in schema
         THEN Fail(p) /\ UNCHANGED schema
         ELSE Goto(p, [proc[p] EXCEPT !.found = FALSE]) /\ schema' = schema \cup {Op(p)[2]}
    /\ UNCHANGED <<files, ca, nodes, issued, started, overlapped, reset>>

\* A statement fails: the database is locked by another process, or the disk is full.
StatementFails(p) ==
    /\ "db" \in Faults
    /\ Op(p)[1] \in {"create", "find", "add", "check", "row", "node", "plugins"}
    /\ Fail(p)
    /\ UNCHANGED <<files, ca, nodes, schema, issued, started, overlapped, reset>>

-----------------------------------------------------------------------------
(* Pairing.                                                                *)

\* db.GetNode: the row inserted first.
GetNode == Head(nodes)

BetweenCheckAndRow(p) ==
    /\ proc[p].cmd = "install"
    /\ Op(p)[1] \in {"pair", "write", "row"}

\* Tokens the Panel has given out are well-formed; None is any string that is not.
ValidateFormat(token) == token # None

\* The token comes from the command line; an install with another data directory looks
\* for a row there.
CheckUnpaired(p) ==
    /\ AtOp(p, "check")
    /\ \E token \in Tokens \cup {None} :
        IF ~ValidateFormat(token) \/ (proc[p].cmd = "install" /\ nodes # <<>>)
          THEN Fail(p) /\ UNCHANGED overlapped
          ELSE /\ Goto(p, [proc[p] EXCEPT !.token = token])
               /\ overlapped' = (\/ overlapped \/ proc[p].cmd = "elsewhere"
                                 \/ \E q \in Procs \ {p} : BetweenCheckAndRow(q))
    /\ UNCHANGED <<files, ca, nodes, schema, issued, started, reset>>

\* client.Pair: the Panel takes the token and signs the key; a call that fails
\* or takes more than 30 seconds may have been carried out as well.
Pair(p) ==
    /\ AtOp(p, "pair")
    /\ \/ /\ issued[proc[p].token] = None
          /\ issued' = [issued EXCEPT ![proc[p].token] = proc[p].addr]
          /\ Advance(p)
       \/ /\ issued[proc[p].token] # None
          /\ Fail(p)
          /\ UNCHANGED issued
       \/ /\ "net" \in Faults
          /\ issued[proc[p].token] = None
          /\ issued' \in {issued, [issued EXCEPT ![proc[p].token] = proc[p].addr]}
          /\ Fail(p)
    /\ UNCHANGED <<files, ca, nodes, schema, started, overlapped, reset>>

\* os.WriteFile truncates and writes: SaveKey, SaveCert and writeConfig.
WriteFile(p) ==
    LET file == Op(p)[2]
        data == IF file # "config" THEN proc[p].token
                ELSE IF proc[p].cmd = "elsewhere" THEN "elsewhere" ELSE proc[p].addr
    IN  /\ AtOp(p, "write")
        /\ \/ /\ files' = [files EXCEPT ![file] = data]
              /\ Advance(p)
              /\ reset' = IF file = "config" THEN proc[p].cmd # "install" ELSE reset
           \/ /\ "io" \in Faults
              /\ \E torn \in {files[file], "torn"} : files' = [files EXCEPT ![file] = torn]
              /\ Fail(p)
              /\ reset' = (reset \/ file = "config")
        /\ UNCHANGED <<ca, nodes, schema, issued, started, overlapped>>

SaveNode(p) ==
    /\ AtOp(p, "row")
    /\ nodes' = Append(nodes, [id |-> proc[p].token, addr |-> proc[p].addr, old |-> FALSE])
    /\ Advance(p)
    /\ UNCHANGED <<files, ca, schema, issued, started, overlapped, reset>>

-----------------------------------------------------------------------------
(* What reads the identity: the daemon on its way to the first session, and *)
(* diagnose and doctor.                                                    *)

KeyPairLoads == files.key \in Tokens /\ files.cert = files.key

LoadClientTLS == KeyPairLoads /\ ca

\* The Panel that signed the certificate accepts it, if it is the one that is dialled.
Accepts(addr) == files.cert \in Tokens /\ issued[files.cert] = addr

DaemonNode(p) ==
    /\ AtOp(p, "node")
    /\ IF "base" \in schema /\ nodes # <<>>
         THEN Goto(p, [proc[p] EXCEPT !.token = GetNode.id])
         ELSE Fail(p)
    /\ UNCHANGED <<files, ca, nodes, schema, issued, started, overlapped, reset>>

DaemonTLS(p) ==
    /\ AtOp(p, "tls")
    /\ IF LoadClientTLS THEN Advance(p) ELSE Fail(p)
    /\ UNCHANGED <<files, ca, nodes, schema, issued, started, overlapped, reset>>

\* DialPanel waits until the connection is ready, for ever if need be.
DaemonDial(p) ==
    /\ AtOp(p, "dial")
    /\ Accepts(proc[p].addr)
    /\ Advance(p)
    /\ UNCHANGED <<files, ca, nodes, schema, issued, started, overlapped, reset>>

\* docker.New and tunnel.NewFromConfig, which wants an executable frpc; the health
\* check pings Docker.
DaemonRuntime(p) ==
    /\ AtOp(p, "runtime")
    /\ \/ Advance(p)
       \/ "env" \in Faults /\ Fail(p)
    /\ UNCHANGED <<files, ca, nodes, schema, issued, started, overlapped, reset>>

\* LoadEnabled reads the table plugins.
DaemonPlugins(p) ==
    /\ AtOp(p, "plugins")
    /\ IF {"plugins", "plugin_columns"} \subseteq schema THEN Advance(p) ELSE Fail(p)
    /\ UNCHANGED <<files, ca, nodes, schema, issued, started, overlapped, reset>>

\* GetNode and the key pair, not the CA; "fit" is the verdict on a paired node
\* that passes every check.
Diagnose(p) ==
    LET failed == proc[p].exit = "failed" \/ "base" \notin schema \/ (nodes # <<>> /\ ~KeyPairLoads)
    IN  /\ AtOp(p, "diagnose")
        /\ \/ Exit(p, IF failed THEN "failed" ELSE IF nodes = <<>> THEN "ok" ELSE "fit")
           \/ "env" \in Faults /\ Exit(p, "failed")
        /\ UNCHANGED <<files, ca, nodes, schema, issued, started, overlapped, reset>>

\* Only sqlite, the directories and docker are required: what panel.mtls and
\* plugins find is printed and does not make the command fail.
Doctor(p) ==
    /\ AtOp(p, "doctor")
    /\ \/ Exit(p, IF proc[p].exit = "failed" THEN "failed" ELSE "ok")
       \/ "env" \in Faults /\ Exit(p, "failed")
    /\ UNCHANGED <<files, ca, nodes, schema, issued, started, overlapped, reset>>

\* A process ends without further notice: a signal, an operator, a power failure.
Killed(p) ==
    /\ proc[p].cmd # None
    /\ "kill" \in Faults
    /\ Exit(p, None)
    /\ reset' = (reset \/ Op(p) = <<"write", "config">>)
    /\ UNCHANGED <<files, ca, nodes, schema, issued, started, overlapped>>

-----------------------------------------------------------------------------
\* A node that has not been paired, with whatever schema its database has, ...
Unpaired ==
    /\ files = [key |-> None, cert |-> None, config |-> None]
    /\ nodes = <<>>
    /\ issued = [t \in Tokens |-> None]

\* ... or one that an older oikos has paired.
PairedBefore ==
    /\ "base" \in schema
    /\ \E t \in Tokens, a \in Panels :
         /\ files = [key |-> t, cert |-> t, config |-> a]
         /\ nodes = << [id |-> t, addr |-> a, old |-> TRUE] >>
         /\ issued = [[u \in Tokens |-> None] EXCEPT ![t] = a]

SetupInit ==
    /\ schema \in Legacy
    /\ Unpaired \/ PairedBefore
    /\ ca = FALSE
    /\ proc = [p \in Procs |-> Idle]
    /\ started = 0
    /\ overlapped = FALSE
    /\ reset = FALSE

Step(p) ==
    \/ Create(p) \/ FindColumn(p) \/ AddColumn(p) \/ StatementFails(p)
    \/ CheckUnpaired(p) \/ Pair(p) \/ WriteFile(p) \/ SaveNode(p)
    \/ DaemonNode(p) \/ DaemonTLS(p) \/ DaemonDial(p) \/ DaemonRuntime(p) \/ DaemonPlugins(p)
    \/ Diagnose(p) \/ Doctor(p)

SetupNext ==
    \/ \E p \in Procs : RunInstall(p) \/ RunConfigured(p) \/ Step(p) \/ Killed(p)
    \/ InstallCA

SetupSpec == SetupInit /\ [][SetupNext]_setupVars

-----------------------------------------------------------------------------
(* Properties.                                                             *)

\* Files, rows, schema and processes keep their types; every process stands
\* at a step of its program.
SetupTypeOK ==
    /\ files \in [key : Tokens \cup {None, "torn"}, cert : Tokens \cup {None, "torn"},
                  config : Addrs \cup {None, "torn", "elsewhere"}]
    /\ ca \in BOOLEAN /\ overlapped \in BOOLEAN /\ reset \in BOOLEAN
    /\ nodes \in Seq([id : Tokens, addr : Panels, old : BOOLEAN])
    /\ schema \subseteq Pieces
    /\ issued \in [Tokens -> Panels \cup {None}]
    /\ started \in 0..MaxCommands
    /\ proc \in [Procs -> [cmd : Commands \cup {None}, pc : Nat, addr : Addrs \cup {None, "elsewhere"},
                           token : Tokens \cup {None}, found : BOOLEAN,
                           exit : {None, "ok", "failed", "fit"}]]
    /\ \A p \in Procs : IF proc[p].cmd = None THEN proc[p].pc = 0
                        ELSE proc[p].pc \in 1..Len(Program[proc[p].cmd])

\* A node row stands for a usable identity: it is the only one, key and
\* certificate on disk belong together and to it, the Panel of the row has
\* issued the certificate, and a daemon that has read the row goes by that id.
\* PairWithPanel writes the files first and refuses a second pairing; only two
\* installs at the same time, or one with another --data-dir, mix their files up.
NodeHasIdentity ==
    nodes # <<>> /\ ~overlapped =>
        /\ Len(nodes) = 1
        /\ KeyPairLoads
        /\ files.cert = GetNode.id
        /\ issued[GetNode.id] = GetNode.addr
        /\ \A p \in Procs : proc[p].cmd = "daemon" /\ proc[p].pc > 2 => proc[p].token = GetNode.id

\* A paired node is complete, as far as what runs on it needs it.  An install that has
\* come to its check has every table and column that Migrate is there for, whatever
\* schema it found and although migrations of several processes interleave and fail
\* anywhere; so has a node it pairs.  One that an older oikos paired is not checked by
\* the daemon, which migrates only the tunnels: it gets past GetNode with the tables of
\* nodes and tunnels, and past LoadEnabled with those of the plugins, and runs without
\* the others.  config.yaml never names a Panel other than that of the row, but it may
\* have been lost: by an install that ended before it wrote the file, or one without
\* --panel, which does not look at the row and puts the defaults there.
PairedComplete ==
    /\ \A p \in Procs : proc[p].cmd = "install" /\ proc[p].pc > Len(Migrate)
                           => Pieces \ {"tunnels"} \subseteq schema
    /\ nodes # <<>> /\ ~GetNode.old => Pieces \ {"tunnels"} \subseteq schema
    /\ \A p \in Procs : proc[p].cmd = "daemon" =>
         /\ proc[p].pc > 2 => {"base", "tunnels"} \subseteq schema
         /\ proc[p].pc > 6 => {"plugins", "plugin_columns"} \subseteq schema
    /\ nodes # <<>> /\ ~overlapped =>
         /\ files.config \in {GetNode.addr, DefaultAddr, "elsewhere", None, "torn"}
         /\ ~reset /\ (\A p \in Procs : Op(p) # <<"write", "config">>)
              => files.config = GetNode.addr

=============================================================================
