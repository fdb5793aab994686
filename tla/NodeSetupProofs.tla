--------------------------- MODULE NodeSetupProofs ---------------------------
(***************************************************************************)
(* Proofs about NodeSetup, for any number of processes, tokens, Panels and  *)
(* commands, any schema found and any faults.                               *)
(***************************************************************************)
EXTENDS NodeSetup, TLAPS

ProcRecords ==
    [cmd : Commands \cup {None}, pc : Nat, addr : Addrs \cup {None, "elsewhere"}, token : Tokens \cup {None},
     found : BOOLEAN, exit : {None, "ok", "failed", "fit"}]

SetupTyped ==
    /\ files \in [key : Tokens \cup {None, "torn"}, cert : Tokens \cup {None, "torn"},
                  config : Addrs \cup {None, "torn", "elsewhere"}]
    /\ ca \in BOOLEAN /\ overlapped \in BOOLEAN /\ reset \in BOOLEAN
    /\ nodes \in Seq([id : Tokens, addr : Panels, old : BOOLEAN])
    /\ schema \subseteq Pieces
    /\ issued \in [Tokens -> Panels \cup {None}]
    /\ started \in 0..MaxCommands
    /\ proc \in [Procs -> ProcRecords]

\* A process stands at a step of its program, with what the steps before gave it.
Placed(r) ==
    /\ IF r.cmd = None THEN r.pc = 0 ELSE r.pc \in 1..Len(Program[r.cmd]) /\ r.addr \in Addrs \cup {"elsewhere"}
    /\ r.cmd = "install" => /\ r.addr \in Panels
                            /\ r.pc > 11 => r.token \in Tokens
    /\ r.cmd = "elsewhere" => /\ r.addr \in Panels
                              /\ r.pc > 1 => r.token \in Tokens
    /\ r.cmd = "token" => r.addr \in {DefaultAddr, "elsewhere"}

\* An install has migrated what is behind it; no other process takes it back.
Migrated(r) ==
    r.cmd = "install" =>
        /\ r.pc > 1 => "base" \in schema
        /\ r.pc > 2 => "events" \in schema
        /\ r.pc > 4 => "restart_count" \in schema
        /\ r.pc > 6 => "last_crash_at" \in schema
        /\ r.pc > 7 => "backups" \in schema
        /\ r.pc > 8 => "plugins" \in schema
        /\ r.pc > 10 => "plugin_columns" \in schema

\* The Panel has issued what an install writes, an install with another data directory
\* has left its mark, and a daemon goes by the first row and has found the tables it reads.
Informed(r) ==
    /\ r.cmd = "install" /\ r.pc > 12 => issued[r.token] = r.addr
    /\ r.cmd = "daemon" /\ r.pc > 1 => "tunnels" \in schema
    /\ r.cmd = "daemon" /\ r.pc > 2 =>
         nodes # <<>> /\ r.token = nodes[1].id /\ "base" \in schema
    /\ r.cmd = "daemon" /\ r.pc > 6 => {"plugins", "plugin_columns"} \subseteq schema
    /\ r.cmd = "elsewhere" /\ r.pc > 1 => overlapped

ProcInv(p) == Placed(proc[p]) /\ Migrated(proc[p]) /\ Informed(proc[p])

\* The install p is past its check, at step n or later.
Pairing(p, n) == proc[p].cmd = "install" /\ proc[p].pc >= n

\* What config.yaml holds that names no Panel of a token.
Nowhere == {DefaultAddr, "elsewhere", None, "torn"}

\* Installs whose pairings do not overlap: there is one at a time, the node has no row
\* until its files are written, and config.yaml, which names no Panel until then, follows.
PairInv ==
    ~overlapped =>
        /\ \A p, q \in Procs : Pairing(p, 12) /\ Pairing(q, 12) => p = q
        /\ \A p \in Procs : Pairing(p, 12) /\ proc[p].pc < 16 => nodes = <<>>
        /\ \A p \in Procs : Pairing(p, 14) => files.key = proc[p].token
        /\ \A p \in Procs : Pairing(p, 15) => files.cert = proc[p].token
        /\ \A p \in Procs : Pairing(p, 16) => nodes # <<>> /\ proc[p].addr = nodes[1].addr
        /\ nodes # <<>> =>
             /\ Len(nodes) = 1 /\ issued[nodes[1].id] = nodes[1].addr
             /\ files.key = nodes[1].id /\ files.cert = nodes[1].id
             /\ ~reset => files.config = nodes[1].addr \/ \E p \in Procs : Pairing(p, 16)
        /\ \/ files.config \in Nowhere
           \/ nodes # <<>> /\ files.config = nodes[1].addr

SchemaInv == nodes # <<>> /\ ~nodes[1].old => Pieces \ {"tunnels"} \subseteq schema

SetupInv == SetupTyped /\ (\A p \in Procs : ProcInv(p)) /\ PairInv /\ SchemaInv

-----------------------------------------------------------------------------
(* The programs, step by step.                                               *)

LEMMA CommandSet == Commands = {"install", "elsewhere", "token", "server", "check", "diagnose", "doctor", "daemon"}
  BY DEF Commands, Program

LEMMA MigrateSteps ==
    /\ Len(Migrate) = 10
    /\ Migrate[1] = <<"create", "base">> /\ Migrate[2] = <<"create", "events">>
    /\ Migrate[3] = <<"find", "restart_count">> /\ Migrate[4] = <<"add", "restart_count">>
    /\ Migrate[5] = <<"find", "last_crash_at">> /\ Migrate[6] = <<"add", "last_crash_at">>
    /\ Migrate[7] = <<"create", "backups">> /\ Migrate[8] = <<"create", "plugins">>
    /\ Migrate[9] = <<"find", "plugin_columns">> /\ Migrate[10] = <<"add", "plugin_columns">>
  BY DEF Migrate, MigrateObservability, MigrateFilesystem, MigratePlugins

LEMMA InstallSteps ==
    /\ Len(Program["install"]) = 16 /\ \A i \in 1..10 : Program["install"][i] = Migrate[i]
    /\ Program["install"][11] = <<"check">> /\ Program["install"][12] = <<"pair">>
    /\ Program["install"][13] = <<"write", "key">> /\ Program["install"][14] = <<"write", "cert">>
    /\ Program["install"][15] = <<"row">> /\ Program["install"][16] = <<"write", "config">>
  BY DEF Program, PairWithPanel, Migrate, MigrateObservability, MigrateFilesystem, MigratePlugins

LEMMA MigratingSteps ==
    /\ Program["server"] = Migrate
    /\ Len(Program["check"]) = 11 /\ \A i \in 1..10 : Program["check"][i] = Migrate[i]
    /\ Program["check"][11] = <<"runtime">>
    /\ Len(Program["diagnose"]) = 11 /\ \A i \in 1..10 : Program["diagnose"][i] = Migrate[i]
    /\ Program["diagnose"][11] = <<"diagnose">>
  BY DEF Program, RunHealthCheck, Migrate, MigrateObservability, MigrateFilesystem, MigratePlugins

LEMMA OtherSteps ==
    /\ Len(Program["elsewhere"]) = 5
    /\ Program["elsewhere"][1] = <<"check">> /\ Program["elsewhere"][2] = <<"pair">>
    /\ Program["elsewhere"][3] = <<"write", "key">> /\ Program["elsewhere"][4] = <<"write", "cert">>
    /\ Program["elsewhere"][5] = <<"write", "config">>
    /\ Len(Program["token"]) = 1 /\ Program["token"][1] = <<"write", "config">>
    /\ Len(Program["doctor"]) = 4
    /\ Program["doctor"][1] = <<"create", "plugins">>
    /\ Program["doctor"][2] = <<"find", "plugin_columns">>
    /\ Program["doctor"][3] = <<"add", "plugin_columns">> /\ Program["doctor"][4] = <<"doctor">>
    /\ Len(Program["daemon"]) = 7
    /\ Program["daemon"][1] = <<"create", "tunnels">> /\ Program["daemon"][2] = <<"node">>
    /\ Program["daemon"][3] = <<"tls">> /\ Program["daemon"][4] = <<"dial">>
    /\ Program["daemon"][5] = <<"runtime">> /\ Program["daemon"][6] = <<"plugins">>
    /\ Program["daemon"][7] = <<"run">>
  BY DEF Program, PairElsewhere, PairWithToken, MigratePlugins, RunDaemon, MigrateNetworking

\* Where in the programs the steps are.
LEMMA StepPlaces ==
    ASSUME NEW p \in Procs, proc[p] \in ProcRecords, Placed(proc[p])
    PROVE  /\ AtOp(p, "create") =>
                \/ proc[p].cmd \in {"install", "server", "check", "diagnose"} /\
                   \/ proc[p].pc = 1 /\ Op(p)[2] = "base"
                   \/ proc[p].pc = 2 /\ Op(p)[2] = "events"
                   \/ proc[p].pc = 7 /\ Op(p)[2] = "backups"
                   \/ proc[p].pc = 8 /\ Op(p)[2] = "plugins"
                \/ proc[p].cmd = "doctor" /\ Op(p)[2] = "plugins"
                \/ proc[p].cmd = "daemon" /\ proc[p].pc = 1 /\ Op(p)[2] = "tunnels"
           /\ AtOp(p, "find") =>
                \/ proc[p].cmd \in {"install", "server", "check", "diagnose"} /\ proc[p].pc \in {3, 5, 9}
                \/ proc[p].cmd = "doctor"
           /\ AtOp(p, "add") =>
                \/ proc[p].cmd \in {"install", "server", "check", "diagnose"} /\
                   \/ proc[p].pc = 4 /\ Op(p)[2] = "restart_count"
                   \/ proc[p].pc = 6 /\ Op(p)[2] = "last_crash_at"
                   \/ proc[p].pc = 10 /\ Op(p)[2] = "plugin_columns"
                \/ proc[p].cmd = "doctor" /\ Op(p)[2] = "plugin_columns"
           /\ AtOp(p, "check") => \/ proc[p].cmd = "install" /\ proc[p].pc = 11
                                  \/ proc[p].cmd = "elsewhere" /\ proc[p].pc = 1
           /\ AtOp(p, "pair") => \/ proc[p].cmd = "install" /\ proc[p].pc = 12
                                 \/ proc[p].cmd = "elsewhere" /\ proc[p].pc = 2
           /\ AtOp(p, "write") =>
                \/ proc[p].cmd = "install" /\ \/ proc[p].pc = 13 /\ Op(p)[2] = "key"
                                              \/ proc[p].pc = 14 /\ Op(p)[2] = "cert"
                                              \/ proc[p].pc = 16 /\ Op(p)[2] = "config"
                \/ proc[p].cmd = "elsewhere" /\ \/ proc[p].pc = 3 /\ Op(p)[2] = "key"
                                                \/ proc[p].pc = 4 /\ Op(p)[2] = "cert"
                                                \/ proc[p].pc = 5 /\ Op(p)[2] = "config"
                \/ proc[p].cmd = "token" /\ Op(p)[2] = "config"
           /\ AtOp(p, "row") => proc[p].cmd = "install" /\ proc[p].pc = 15
           /\ AtOp(p, "node") => proc[p].cmd = "daemon" /\ proc[p].pc = 2
           /\ AtOp(p, "tls") => proc[p].cmd = "daemon" /\ proc[p].pc = 3
           /\ AtOp(p, "dial") => proc[p].cmd = "daemon" /\ proc[p].pc = 4
           /\ AtOp(p, "runtime") => proc[p].cmd = "check" \/ (proc[p].cmd = "daemon" /\ proc[p].pc = 5)
           /\ AtOp(p, "plugins") => proc[p].cmd = "daemon" /\ proc[p].pc = 6
           /\ AtOp(p, "diagnose") => proc[p].cmd = "diagnose"
           /\ AtOp(p, "doctor") => proc[p].cmd = "doctor"
           /\ proc[p].cmd = "install" /\ proc[p].pc = 16 => Op(p) = <<"write", "config">>
           /\ proc[p].cmd = "install" /\ proc[p].pc > 11 => Op(p)[1] \in {"pair", "write", "row"}
<1> DEFINE cmd == proc[p].cmd
           pc == proc[p].pc
<1>1. cmd \in Commands \cup {None} /\ pc \in Nat
  BY DEF ProcRecords
<1>2. CASE cmd = None
  <2>1. Op(p)[1] = "none" /\ cmd # "install"
    BY <1>2, CommandAssumption, CommandSet DEF Op
  <2>2. QED BY <2>1 DEF AtOp
<1>3. CASE cmd # None
  <2>1. Op(p) = Program[cmd][pc] /\ pc \in 1..Len(Program[cmd]) /\ cmd \in Commands
    BY <1>1, <1>3 DEF Op, Placed
  <2>2. CASE cmd \in {"install", "server", "check", "diagnose"} /\ pc \in 1..10
    <3>1. Op(p) = Migrate[pc]
      BY <2>1, <2>2, InstallSteps, MigratingSteps
    <3>2. pc = 1 \/ pc = 2 \/ pc = 3 \/ pc = 4 \/ pc = 5 \/ pc = 6 \/ pc = 7 \/ pc = 8 \/ pc = 9 \/ pc = 10
      BY <2>2
    <3>3. QED BY <2>2, <3>1, <3>2, MigrateSteps DEF AtOp
  <2>3. CASE cmd = "install" /\ pc > 10
    <3>1. pc = 11 \/ pc = 12 \/ pc = 13 \/ pc = 14 \/ pc = 15 \/ pc = 16
      BY <2>1, <2>3, InstallSteps
    <3>2. QED BY <2>1, <2>3, <3>1, InstallSteps DEF AtOp
  <2>4. CASE cmd = "check" /\ pc > 10
    <3>1. pc = 11
      BY <2>1, <2>4, MigratingSteps
    <3>2. QED BY <2>1, <2>4, <3>1, MigratingSteps DEF AtOp
  <2>5. CASE cmd = "diagnose" /\ pc > 10
    <3>1. pc = 11
      BY <2>1, <2>5, MigratingSteps
    <3>2. QED BY <2>1, <2>5, <3>1, MigratingSteps DEF AtOp
  <2>6. CASE cmd = "doctor"
    <3>1. pc = 1 \/ pc = 2 \/ pc = 3 \/ pc = 4
      BY <2>1, <2>6, OtherSteps
    <3>2. QED BY <2>1, <2>6, <3>1, OtherSteps DEF AtOp
  <2>7. CASE cmd = "token"
    <3>1. pc = 1
      BY <2>1, <2>7, OtherSteps
    <3>2. QED BY <2>1, <2>7, <3>1, OtherSteps DEF AtOp
  <2>8. CASE cmd = "daemon"
    <3>1. pc = 1 \/ pc = 2 \/ pc = 3 \/ pc = 4 \/ pc = 5 \/ pc = 6 \/ pc = 7
      BY <2>1, <2>8, OtherSteps
    <3>2. QED BY <2>1, <2>8, <3>1, OtherSteps DEF AtOp
  <2>13. CASE cmd = "elsewhere"
    <3>1. pc = 1 \/ pc = 2 \/ pc = 3 \/ pc = 4 \/ pc = 5
      BY <2>1, <2>13, OtherSteps
    <3>2. QED BY <2>1, <2>13, <3>1, OtherSteps DEF AtOp
  <2>9. cmd = "server" => pc \in 1..10
    BY <2>1, MigratingSteps, MigrateSteps
  <2>10. pc \in 1..10 \/ pc > 10
    <3>1. pc \in Nat /\ pc >= 1
      BY <1>1, <2>1
    <3>2. QED
      <4> HIDE DEF pc
      <4>1. QED BY <3>1
  <2>11. cmd \in {"install", "elsewhere", "token", "server", "check", "diagnose", "doctor", "daemon"}
    BY <2>1, CommandSet
  <2>12. QED
    <3> HIDE DEF cmd, pc
    <3>1. QED BY <2>2, <2>3, <2>4, <2>6, <2>8, <2>9, <2>10, <2>7, <2>11, <2>13, <2>5
<1>4. QED BY <1>2, <1>3

-----------------------------------------------------------------------------
(* What a step does to the process that takes it.                            *)

\* The process p has the record r now, and the others have theirs.
Becomes(p, r) == proc' = [proc EXCEPT ![p] = r] /\ r \in ProcRecords

\* A process that is gone, at the first step of its program, or neither an install nor
\* the daemon.
AtStart(r) ==
    /\ Placed(r)
    /\ r.cmd \in {"install", "elsewhere", "daemon"} => r.pc = 1

LEMMA IdleTyped == /\ Idle \in ProcRecords /\ AtStart(Idle) /\ Idle.cmd = None
                   /\ \A v \in {None, "ok", "failed", "fit"} :
                        /\ [Idle EXCEPT !.exit = v] \in ProcRecords
                        /\ AtStart([Idle EXCEPT !.exit = v]) /\ [Idle EXCEPT !.exit = v].cmd = None
<1>1. FALSE \in BOOLEAN
  OBVIOUS
<1>2. None \notin {"install", "elsewhere", "daemon", "token"}
  BY CommandAssumption, CommandSet
<1>3. QED BY <1>1, <1>2 DEF Idle, ProcRecords, AtStart, Placed

\* The process ends or, after an error of diagnose and doctor, takes its last step.
LEMMA FailStep ==
    ASSUME SetupTyped, NEW p \in Procs, Placed(proc[p]), Fail(p)
    PROVE  \E r \in ProcRecords : Becomes(p, r) /\ AtStart(r)
<1>1. proc[p] \in ProcRecords
  BY DEF SetupTyped
<1>2. CASE proc[p].cmd \in {"diagnose", "doctor"}
  <2> DEFINE r == [proc[p] EXCEPT !.pc = Len(Program[proc[p].cmd]), !.exit = "failed"]
  <2>1. proc' = [proc EXCEPT ![p] = r]
    BY <1>2 DEF Fail
  <2>2. Len(Program[proc[p].cmd]) \in Nat \ {0}
    BY <1>2, MigratingSteps, OtherSteps
  <2>3. r \in ProcRecords /\ r.cmd = proc[p].cmd /\ r.pc = Len(Program[proc[p].cmd]) /\ r.addr = proc[p].addr
    BY <1>1, <2>2 DEF ProcRecords
  <2>4. r.cmd # None
    BY <1>2, <2>3, CommandAssumption, CommandSet
  <2>5. AtStart(r)
    BY <1>2, <2>2, <2>3, <2>4 DEF AtStart, Placed
  <2> HIDE DEF r
  <2>6. QED BY <2>1, <2>3, <2>5 DEF Becomes
<1>3. CASE proc[p].cmd \notin {"diagnose", "doctor"}
  BY <1>3, IdleTyped DEF Fail, Exit, Becomes
<1>4. QED BY <1>2, <1>3

\* The process goes on with its next step, or ends with its last.
LEMMA GotoStep ==
    ASSUME SetupTyped, NEW p \in Procs, NEW r \in ProcRecords, Placed(r), r.cmd # None, Goto(p, r)
    PROVE  \/ r.pc = Len(Program[r.cmd]) /\ Becomes(p, Idle)
           \/ \E n \in ProcRecords :
                /\ r.pc < Len(Program[r.cmd])
                /\ Becomes(p, n) /\ n.cmd = r.cmd /\ n.pc = r.pc + 1 /\ n.addr = r.addr
                /\ n.token = r.token /\ n.pc \in 1..Len(Program[r.cmd])
<1>1. r.pc \in 1..Len(Program[r.cmd]) /\ Len(Program[r.cmd]) \in Nat
  <2>1. r.cmd \in Commands
    BY DEF ProcRecords
  <2>2. Len(Program[r.cmd]) \in Nat
    BY <2>1, CommandSet, MigrateSteps, InstallSteps, MigratingSteps, OtherSteps
  <2>3. QED BY <2>2 DEF Placed
<1>2. CASE r.pc = Len(Program[r.cmd])
  BY <1>2, IdleTyped DEF Goto, Becomes
<1>3. CASE r.pc # Len(Program[r.cmd])
  <2> DEFINE n == [r EXCEPT !.pc = @ + 1]
  <2>1. n \in ProcRecords /\ n.cmd = r.cmd /\ n.pc = r.pc + 1 /\ n.addr = r.addr /\ n.token = r.token
    BY <1>1 DEF ProcRecords
  <2>2. proc' = [proc EXCEPT ![p] = n]
    BY <1>3 DEF Goto
  <2> HIDE DEF n
  <2>3. r.pc < Len(Program[r.cmd]) /\ n.pc \in 1..Len(Program[r.cmd])
    BY <1>1, <1>3, <2>1
  <2>4. QED BY <2>1, <2>2, <2>3 DEF Becomes
<1>4. QED BY <1>2, <1>3

-----------------------------------------------------------------------------
(* What a step leaves alone.                                                 *)

\* What no step ever takes back: schema, certificates issued, the first row and the
\* overlap of pairings.
Grows ==
    /\ overlapped => overlapped'
    /\ schema \subseteq schema' /\ schema' \subseteq Pieces
    /\ issued' \in [Tokens -> Panels \cup {None}]
    /\ \A t \in Tokens : issued[t] # None => issued'[t] = issued[t]
    /\ nodes' \in Seq([id : Tokens, addr : Panels, old : BOOLEAN])
    /\ nodes # <<>> => nodes' # <<>> /\ nodes'[1] = nodes[1]

\* The first row, which GetNode reads.
LEMMA FirstNode ==
    ASSUME SetupTyped, nodes # <<>>
    PROVE  /\ nodes[1].id \in Tokens /\ nodes[1].addr \in Panels
           /\ nodes[1].addr # None /\ GetNode = nodes[1]
<1> DEFINE S == [id : Tokens, addr : Panels, old : BOOLEAN]
<1>1. nodes[1] \in S /\ Head(nodes) = nodes[1]
  <2>1. nodes \in Seq(S)
    BY DEF SetupTyped
  <2> HIDE DEF S
  <2>2. QED BY <2>1
<1>2. None \notin Panels
  BY SetupAssumption DEF Addrs
<1>3. QED BY <1>1, <1>2 DEF GetNode

\* What a process has behind it stays so, whatever another one does.
LEMMA OthersKeep ==
    ASSUME SetupTyped, NEW q \in Procs, ProcInv(q), Grows, proc'[q] = proc[q]
    PROVE  ProcInv(q)'
<1>1. Placed(proc[q])' /\ Migrated(proc[q])'
  BY DEF ProcInv, Placed, Migrated, Grows
<1>2. ASSUME proc[q].cmd = "install", proc[q].pc > 12 PROVE issued'[proc[q].token] = proc[q].addr
  <2>1. proc[q].token \in Tokens /\ proc[q].addr # None /\ issued[proc[q].token] = proc[q].addr
    BY <1>2, SetupAssumption DEF ProcInv, Placed, Informed, SetupTyped, ProcRecords, Addrs
  <2>2. QED BY <2>1 DEF Grows
<1>3. Informed(proc[q])'
  BY <1>2 DEF ProcInv, Informed, Grows
<1>4. QED BY <1>1, <1>3 DEF ProcInv

\* The processes after a step of p.
LEMMA ProcsAfter ==
    ASSUME SetupInv, NEW p \in Procs, NEW r \in ProcRecords, Becomes(p, r), Grows,
           Placed(r), Migrated(r)', Informed(r)'
    PROVE  /\ proc' \in [Procs -> ProcRecords] /\ proc'[p] = r
           /\ \A q \in Procs : q # p => proc'[q] = proc[q]
           /\ \A q \in Procs : ProcInv(q)'
<1>1. /\ proc' \in [Procs -> ProcRecords] /\ proc'[p] = r
      /\ \A q \in Procs : q # p => proc'[q] = proc[q]
  BY DEF SetupInv, SetupTyped, Becomes
<1>2. ProcInv(p)'
  BY <1>1 DEF ProcInv, Placed, Migrated, Informed
<1>3. QED BY <1>1, <1>2, OthersKeep DEF SetupInv

\* A process starts, ends, or moves in a program other than install and the daemon's.
\* An install that ends between its check and its row may leave its files torn; one that
\* ends before config.yaml is written, and whoever else touches it, counts as a reset.
LEMMA QuietStep ==
    ASSUME SetupInv, NEW p \in Procs, NEW r \in ProcRecords, Becomes(p, r), AtStart(r), Grows,
           UNCHANGED <<nodes, overlapped>>, ca' \in BOOLEAN, reset' \in BOOLEAN,
           started' \in 0..MaxCommands,
           files' \in [key : Tokens \cup {None, "torn"}, cert : Tokens \cup {None, "torn"},
                       config : Addrs \cup {None, "torn", "elsewhere"}],
           \/ files' = files
           \/ Pairing(p, 12) /\ proc[p].pc < 16 /\ files'.config = files.config
           \/ /\ reset' /\ files'.key = files.key /\ files'.cert = files.cert
              /\ files'.config \in {files.config} \cup Nowhere,
           \/ reset'
           \/ reset' = reset /\ ~Pairing(p, 16)
    PROVE  SetupInv'
<1>1. r.cmd \in {"install", "elsewhere", "daemon"} => r.pc = 1 /\ ~(r.pc > 1) /\ ~(r.pc > 2) /\ ~(r.pc > 4)
         /\ ~(r.pc > 6) /\ ~(r.pc > 7) /\ ~(r.pc > 8) /\ ~(r.pc > 10) /\ ~(r.pc > 12) /\ ~(r.pc >= 12)
  BY DEF AtStart
<1>2. /\ proc' \in [Procs -> ProcRecords] /\ proc'[p] = r
      /\ \A q \in Procs : q # p => proc'[q] = proc[q]
      /\ \A q \in Procs : ProcInv(q)'
  <2>1. Placed(r) /\ Migrated(r)' /\ Informed(r)'
    BY <1>1 DEF AtStart, Migrated, Informed
  <2>2. QED BY <2>1, ProcsAfter
<1>3. SetupTyped'
  BY <1>2 DEF SetupInv, SetupTyped, Grows
<1>4. \A q \in Procs : \A n \in {12, 14, 15, 16} :
        Pairing(q, n)' => q # p /\ Pairing(q, n) /\ Pairing(q, 12)
  <2>1. ASSUME NEW q \in Procs, NEW n \in {12, 14, 15, 16}, Pairing(q, n)'
        PROVE  q # p /\ Pairing(q, n) /\ Pairing(q, 12)
    <3>1. proc'[q] \in ProcRecords /\ proc'[q].pc \in Nat
      BY <1>2 DEF ProcRecords
    <3>2. q # p
      BY <1>1, <1>2, <2>1 DEF Pairing
    <3>3. QED BY <1>2, <2>1, <3>1, <3>2 DEF Pairing
  <2>2. QED BY <2>1
<1>5. PairInv'
  <2> SUFFICES ASSUME ~overlapped' PROVE
        /\ \A q, s \in Procs : Pairing(q, 12)' /\ Pairing(s, 12)' => q = s
        /\ \A q \in Procs : Pairing(q, 12)' /\ proc'[q].pc < 16 => nodes = <<>>
        /\ \A q \in Procs : Pairing(q, 14)' => files'.key = proc'[q].token
        /\ \A q \in Procs : Pairing(q, 15)' => files'.cert = proc'[q].token
        /\ \A q \in Procs : Pairing(q, 16)' => nodes # <<>> /\ proc'[q].addr = nodes[1].addr
        /\ nodes # <<>> =>
             /\ Len(nodes) = 1 /\ issued'[nodes[1].id] = nodes[1].addr
             /\ files'.key = nodes[1].id /\ files'.cert = nodes[1].id
             /\ ~reset' => files'.config = nodes[1].addr \/ \E q \in Procs : Pairing(q, 16)'
        /\ \/ files'.config \in Nowhere
           \/ nodes # <<>> /\ files'.config = nodes[1].addr
    BY DEF PairInv
  <2>1. /\ \A q, s \in Procs : Pairing(q, 12) /\ Pairing(s, 12) => q = s
        /\ \A q \in Procs : Pairing(q, 12) /\ proc[q].pc < 16 => nodes = <<>>
        /\ \A q \in Procs : Pairing(q, 14) => files.key = proc[q].token
        /\ \A q \in Procs : Pairing(q, 15) => files.cert = proc[q].token
        /\ \A q \in Procs : Pairing(q, 16) => nodes # <<>> /\ proc[q].addr = nodes[1].addr
        /\ nodes # <<>> =>
             /\ Len(nodes) = 1 /\ issued[nodes[1].id] = nodes[1].addr
             /\ files.key = nodes[1].id /\ files.cert = nodes[1].id
             /\ ~reset => files.config = nodes[1].addr \/ \E q \in Procs : Pairing(q, 16)
        /\ \/ files.config \in Nowhere
           \/ nodes # <<>> /\ files.config = nodes[1].addr
    BY DEF SetupInv, PairInv
  <2>2. \A q, s \in Procs : Pairing(q, 12)' /\ Pairing(s, 12)' => q = s
    BY <1>4, <2>1
  <2>3. \A q \in Procs : Pairing(q, 12)' /\ proc'[q].pc < 16 => nodes = <<>>
    BY <1>2, <1>4, <2>1
  <2>4. ASSUME Pairing(p, 12) PROVE \A q \in Procs : ~Pairing(q, 12)'
    BY <1>4, <2>1, <2>4
  <2>5. (\A q \in Procs : ~Pairing(q, 12)') => \A q \in Procs : ~Pairing(q, 14)' /\ ~Pairing(q, 15)'
    BY <1>2 DEF Pairing, ProcRecords
  <2>6. /\ \A q \in Procs : Pairing(q, 14)' => files'.key = proc'[q].token
        /\ \A q \in Procs : Pairing(q, 15)' => files'.cert = proc'[q].token
    <3>1. CASE Pairing(p, 12)
      BY <2>4, <2>5, <3>1
    <3>2. CASE files'.key = files.key /\ files'.cert = files.cert
      BY <1>2, <1>4, <2>1, <3>2
    <3>3. QED BY <3>1, <3>2
  <2>7. \A q \in Procs : Pairing(q, 16)' => nodes # <<>> /\ proc'[q].addr = nodes[1].addr
    BY <1>2, <1>4, <2>1
  <2>8. ASSUME nodes # <<>>
        PROVE  /\ Len(nodes) = 1 /\ issued'[nodes[1].id] = nodes[1].addr
               /\ files'.key = nodes[1].id /\ files'.cert = nodes[1].id
    <3>1. ~(Pairing(p, 12) /\ proc[p].pc < 16)
      BY <2>1, <2>8
    <3>2. nodes[1].id \in Tokens /\ nodes[1].addr # None
      BY <2>8, FirstNode DEF SetupInv
    <3>3. QED BY <2>1, <2>8, <3>1, <3>2 DEF Grows
  <2>9. ASSUME nodes # <<>>, ~reset'
        PROVE  files'.config = nodes[1].addr \/ \E q \in Procs : Pairing(q, 16)'
    <3>1. files' = files /\ ~reset /\ ~Pairing(p, 16)
      BY <2>1, <2>9
    <3>2. \A q \in Procs : Pairing(q, 16) => Pairing(q, 16)'
      BY <1>2, <3>1 DEF Pairing
    <3>3. QED BY <2>1, <2>9, <3>1, <3>2
  <2>11. \/ files'.config \in Nowhere
         \/ nodes # <<>> /\ files'.config = nodes[1].addr
    BY <2>1
  <2>10. QED BY <2>2, <2>3, <2>6, <2>7, <2>8, <2>9, <2>11
<1>6. SchemaInv'
  BY DEF SetupInv, SchemaInv, Grows
<1>7. QED BY <1>2, <1>3, <1>5, <1>6 DEF SetupInv

\* A step when pairings have overlapped.
LEMMA MixedStep ==
    ASSUME SetupInv, NEW p \in Procs, NEW r \in ProcRecords, Becomes(p, r), Grows,
           Placed(r), Migrated(r)', Informed(r)', overlapped' = TRUE,
           UNCHANGED <<ca, nodes, started>>, reset' \in BOOLEAN,
           files' \in [key : Tokens \cup {None, "torn"}, cert : Tokens \cup {None, "torn"},
                       config : Addrs \cup {None, "torn", "elsewhere"}]
    PROVE  SetupInv'
<1>1. /\ proc' \in [Procs -> ProcRecords] /\ \A q \in Procs : ProcInv(q)'
  BY ProcsAfter
<1>2. SetupTyped'
  BY <1>1 DEF SetupInv, SetupTyped, Grows
<1>3. PairInv' /\ SchemaInv'
  BY DEF SetupInv, PairInv, SchemaInv, Grows
<1>4. QED BY <1>1, <1>2, <1>3 DEF SetupInv

\* An install with another data directory goes on from its check, or ends.
LEMMA ElsewhereInv ==
    ASSUME SetupInv, NEW p \in Procs, NEW r \in ProcRecords, Placed(r), proc[p].cmd = "elsewhere",
           r.cmd = "elsewhere", r.token \in Tokens, Goto(p, r) \/ Fail(p), Grows, overlapped' = TRUE,
           UNCHANGED <<ca, nodes, started>>, reset' \in BOOLEAN,
           files' \in [key : Tokens \cup {None, "torn"}, cert : Tokens \cup {None, "torn"},
                       config : Addrs \cup {None, "torn", "elsewhere"}]
    PROVE  SetupInv'
<1>1. r.cmd # None /\ "elsewhere" \notin {"install", "daemon", "diagnose", "doctor", "token"}
  BY CommandAssumption, CommandSet
<1>2. ASSUME NEW v \in ProcRecords, Becomes(p, v), v.cmd = None, Placed(v) PROVE SetupInv'
  <2>1. Migrated(v)' /\ Informed(v)'
    BY <1>2, CommandAssumption, CommandSet DEF Migrated, Informed
  <2>2. QED BY <1>2, <2>1, MixedStep
<1>3. CASE Fail(p)
  <2>1. Becomes(p, [Idle EXCEPT !.exit = None])
    BY <1>1, <1>3, IdleTyped DEF Fail, Exit, Becomes
  <2>2. QED BY <1>2, <2>1, IdleTyped DEF AtStart
<1>4. CASE Becomes(p, Idle)
  BY <1>2, <1>4, IdleTyped DEF AtStart
<1>5. ASSUME NEW n \in ProcRecords, Becomes(p, n), n.cmd = r.cmd, n.addr = r.addr,
             n.token = r.token, n.pc \in 1..Len(Program[r.cmd])
      PROVE  SetupInv'
  <2>1. Placed(n)
    BY <1>1, <1>5 DEF Placed
  <2>2. Migrated(n)' /\ Informed(n)'
    BY <1>1, <1>5 DEF Migrated, Informed
  <2>3. QED BY <1>5, <2>1, <2>2, MixedStep
<1>6. QED BY <1>1, <1>3, <1>4, <1>5, GotoStep DEF SetupInv

\* A step of a process that is not pairing, neither before nor after.
LEMMA UnpairedStep ==
    ASSUME SetupInv, NEW p \in Procs, NEW r \in ProcRecords, Becomes(p, r), Grows,
           Placed(r), Migrated(r)', Informed(r)', ~Pairing(p, 12), ~(r.cmd = "install" /\ r.pc >= 12),
           UNCHANGED <<files, ca, nodes, issued, started, overlapped, reset>>
    PROVE  SetupInv'
<1>1. /\ proc' \in [Procs -> ProcRecords] /\ proc'[p] = r
      /\ \A q \in Procs : q # p => proc'[q] = proc[q]
      /\ \A q \in Procs : ProcInv(q)'
  BY ProcsAfter
<1>2. SetupTyped'
  BY <1>1 DEF SetupInv, SetupTyped, Grows
<1>3. \A q \in Procs : \A n \in {12, 14, 15, 16} :
        /\ Pairing(q, n)' = Pairing(q, n)
        /\ Pairing(q, n) => proc'[q] = proc[q]
  <2>1. ~Pairing(p, 12)' /\ proc[p] \in ProcRecords
    BY <1>1 DEF Pairing, SetupInv, SetupTyped
  <2>2. \A n \in {12, 14, 15, 16} : ~Pairing(p, n) /\ ~Pairing(p, n)'
    BY <1>1, <2>1 DEF Pairing, ProcRecords
  <2>3. QED BY <1>1, <2>2 DEF Pairing
<1>4. PairInv'
  BY <1>3 DEF SetupInv, PairInv
<1>5. SchemaInv'
  BY DEF SetupInv, SchemaInv, Grows
<1>6. QED BY <1>1, <1>2, <1>4, <1>5 DEF SetupInv

LEMMA SameGrows == SetupTyped /\ UNCHANGED <<nodes, schema, issued, overlapped>> => Grows
  BY DEF SetupTyped, Grows

\* A command that ends with an error, or diagnose and doctor that note it.
LEMMA FailInv ==
    ASSUME SetupInv, NEW p \in Procs, Fail(p), ~Pairing(p, 16),
           UNCHANGED <<files, ca, nodes, schema, issued, started, overlapped, reset>>
    PROVE  SetupInv'
<1>1. PICK r \in ProcRecords : Becomes(p, r) /\ AtStart(r)
  BY FailStep DEF SetupInv, ProcInv
<1>2. Grows
  BY SameGrows DEF SetupInv
<1>3. QED BY <1>1, <1>2, QuietStep DEF SetupInv, SetupTyped

\* A command that is neither install nor daemon goes on.
LEMMA GotoInv ==
    ASSUME SetupInv, NEW p \in Procs, NEW r \in ProcRecords, Goto(p, r), Placed(r),
           r.cmd = proc[p].cmd, r.cmd \notin {None, "install", "elsewhere", "daemon"}, Grows,
           UNCHANGED <<files, ca, nodes, issued, started, overlapped, reset>>
    PROVE  SetupInv'
<1>1. PICK n \in ProcRecords : Becomes(p, n) /\ AtStart(n)
  <2>1. CASE Becomes(p, Idle)
    BY <2>1, IdleTyped
  <2>2. ASSUME NEW n \in ProcRecords, Becomes(p, n), n.cmd = r.cmd, n.addr = r.addr,
               n.pc \in 1..Len(Program[r.cmd])
        PROVE  AtStart(n)
    BY <2>2 DEF AtStart, Placed
  <2>3. QED BY <2>1, <2>2, GotoStep DEF SetupInv
<1>2. ~Pairing(p, 16)
  BY DEF Pairing
<1>3. QED BY <1>1, <1>2, QuietStep DEF SetupInv, SetupTyped

\* An install goes on with its migrations, or to its check.
LEMMA MigrationInv ==
    ASSUME SetupInv, NEW p \in Procs, NEW r \in ProcRecords, Goto(p, r), Placed(r),
           r.cmd = "install", proc[p].cmd = "install", r.pc = proc[p].pc, r.pc <= 10, Grows,
           \A n \in ProcRecords : n.cmd = "install" /\ n.pc = r.pc + 1 => Migrated(n)',
           UNCHANGED <<files, ca, nodes, issued, started, overlapped, reset>>
    PROVE  SetupInv'
<1>1. r.cmd # None /\ Len(Program[r.cmd]) = 16 /\ r.pc \in Nat /\ "install" # "daemon"
  BY CommandAssumption, CommandSet, InstallSteps DEF ProcRecords
<1>2. PICK n \in ProcRecords :
        /\ Becomes(p, n) /\ n.cmd = r.cmd /\ n.pc = r.pc + 1 /\ n.addr = r.addr
        /\ n.token = r.token /\ n.pc \in 1..Len(Program[r.cmd])
  <2>1. r.pc # Len(Program[r.cmd])
    BY <1>1
  <2>2. QED BY <1>1, <2>1, GotoStep DEF SetupInv
<1>3. Placed(n) /\ Migrated(n)' /\ Informed(n)' /\ ~(n.cmd = "install" /\ n.pc >= 12)
  <2>1. n.cmd = "install" /\ n.pc = r.pc + 1 /\ ~(n.pc > 11) /\ ~(n.pc > 12) /\ ~(n.pc >= 12)
    BY <1>1, <1>2
  <2>2. Placed(n)
    BY <1>1, <1>2, <2>1 DEF Placed
  <2>3. Migrated(n)'
    BY <1>2, <2>1
  <2>4. Informed(n)'
    BY <1>1, <2>1 DEF Informed
  <2>5. QED BY <2>1, <2>2, <2>3, <2>4
<1>4. ~Pairing(p, 12)
  BY <1>1 DEF Pairing
<1>5. QED BY <1>2, <1>3, <1>4, UnpairedStep

\* The daemon goes on.
LEMMA DaemonInv ==
    ASSUME SetupInv, NEW p \in Procs, NEW r \in ProcRecords, Goto(p, r), Placed(r),
           r.cmd = "daemon", proc[p].cmd = "daemon", r.pc = proc[p].pc, Grows,
           "tunnels" \in schema',
           r.pc > 1 => nodes # <<>> /\ r.token = nodes[1].id /\ "base" \in schema',
           r.pc > 5 => {"plugins", "plugin_columns"} \subseteq schema',
           UNCHANGED <<files, ca, nodes, issued, started, overlapped, reset>>
    PROVE  SetupInv'
<1>1. r.cmd # None /\ r.pc \in Nat /\ "install" # "daemon"
  BY CommandAssumption, CommandSet DEF ProcRecords
<1>2. ~Pairing(p, 12) /\ ~Pairing(p, 16)
  BY <1>1 DEF Pairing
<1>3. CASE Becomes(p, Idle)
  BY <1>2, <1>3, IdleTyped, QuietStep DEF SetupInv, SetupTyped
<1>4. ASSUME NEW n \in ProcRecords, Becomes(p, n), n.cmd = r.cmd, n.pc = r.pc + 1, n.addr = r.addr,
             n.token = r.token, n.pc \in 1..Len(Program[r.cmd])
      PROVE  SetupInv'
  <2>1. Placed(n) /\ Migrated(n)' /\ Informed(n)' /\ ~(n.cmd = "install" /\ n.pc >= 12)
    BY <1>1, <1>4 DEF Placed, Migrated, Informed
  <2>2. QED BY <1>2, <1>4, <2>1, UnpairedStep
<1>5. QED BY <1>1, <1>3, <1>4, GotoStep DEF SetupInv

-----------------------------------------------------------------------------
(* Pairing.                                                                  *)

\* An install that is past its migrations goes on to the next step.
LEMMA PairingGoto ==
    ASSUME SetupInv, NEW p \in Procs, NEW r \in ProcRecords, Goto(p, r), Placed(r),
           r.cmd = "install", proc[p].cmd = "install", r.pc = proc[p].pc, r.pc > 10, r.pc < 16,
           r.addr = proc[p].addr, r.token \in Tokens, Grows,
           r.pc > 11 => issued'[r.token] = r.addr
    PROVE  /\ proc' \in [Procs -> ProcRecords] /\ \A q \in Procs : ProcInv(q)'
           /\ proc'[p].cmd = "install" /\ proc'[p].pc = r.pc + 1 /\ proc'[p].addr = r.addr
           /\ proc'[p].token = r.token
           /\ \A q \in Procs : q # p => proc'[q] = proc[q]
<1>1. r.cmd # None /\ Len(Program[r.cmd]) = 16 /\ r.pc \in Nat /\ "install" # "daemon"
  BY CommandAssumption, CommandSet, InstallSteps DEF ProcRecords
<1>2. PICK n \in ProcRecords :
        /\ Becomes(p, n) /\ n.cmd = r.cmd /\ n.pc = r.pc + 1 /\ n.addr = r.addr
        /\ n.token = r.token /\ n.pc \in 1..Len(Program[r.cmd])
  <2>1. r.pc # Len(Program[r.cmd])
    BY <1>1
  <2>2. QED BY <1>1, <2>1, GotoStep DEF SetupInv
<1>3. Placed(n)
  BY <1>1, <1>2 DEF Placed
<1>4. Migrated(n)'
  <2>1. Migrated(proc[p])
    BY DEF SetupInv, ProcInv
  <2>2. /\ r.pc > 1 /\ r.pc > 2 /\ r.pc > 4 /\ r.pc > 6 /\ r.pc > 7 /\ r.pc > 8 /\ r.pc > 10
    BY <1>1
  <2>3. QED BY <2>1, <2>2 DEF Migrated, Grows
<1>5. Informed(n)'
  <2>1. n.pc > 12 => r.pc > 11
    BY <1>1, <1>2
  <2>2. QED BY <1>1, <1>2, <2>1 DEF Informed
<1>6. QED BY <1>2, <1>3, <1>4, <1>5, ProcsAfter

\* The process at a step of pairing.
LEMMA AtPairing ==
    ASSUME SetupInv, NEW p \in Procs, proc[p].cmd = "install"
    PROVE  /\ proc[p] \in ProcRecords /\ Placed(proc[p]) /\ proc[p].pc \in 1..16 /\ proc[p].cmd # None
           /\ proc[p].addr \in Panels /\ proc[p].addr # None
           /\ proc[p].pc > 11 => proc[p].token \in Tokens
           /\ proc[p].pc > 12 => issued[proc[p].token] = proc[p].addr
<1>1. proc[p] \in ProcRecords /\ Placed(proc[p]) /\ proc[p].cmd # None
  BY CommandAssumption, CommandSet DEF SetupInv, SetupTyped, ProcInv
<1>2. None \notin Panels
  BY SetupAssumption DEF Addrs
<1>3. QED BY <1>1, <1>2, InstallSteps DEF Placed, SetupInv, ProcInv, Informed

LEMMA CheckInstallInv ==
    ASSUME SetupInv, NEW p \in Procs, CheckUnpaired(p), proc[p].cmd = "install" PROVE SetupInv'
<1>1. proc[p].cmd = "install" /\ proc[p].pc = 11
  BY StepPlaces DEF CheckUnpaired, SetupInv, SetupTyped, ProcInv
<1>2. proc[p] \in ProcRecords /\ Placed(proc[p])
  BY <1>1, AtPairing
<1>3. CASE Fail(p) /\ UNCHANGED overlapped
  BY <1>1, <1>3, FailInv DEF CheckUnpaired, Pairing
<1>4. ASSUME NEW token \in Tokens, nodes = <<>>, Goto(p, [proc[p] EXCEPT !.token = token]),
             overlapped' = (\/ overlapped \/ proc[p].cmd = "elsewhere"
                            \/ \E q \in Procs \ {p} : BetweenCheckAndRow(q))
      PROVE  SetupInv'
  <2> DEFINE r == [proc[p] EXCEPT !.token = token]
  <2>1. /\ r \in ProcRecords /\ r.cmd = "install" /\ r.pc = 11 /\ r.addr = proc[p].addr
        /\ r.token = token
    BY <1>1, <1>2 DEF ProcRecords
  <2>2. Placed(r)
    BY <1>1, <1>2, <2>1 DEF Placed
  <2>3. UNCHANGED <<files, ca, nodes, schema, issued, started, reset>> /\ Grows
    BY <1>4 DEF CheckUnpaired, SetupInv, SetupTyped, Grows
  <2>4. Goto(p, r)
    BY <1>4
  <2> HIDE DEF r
  <2>5. /\ proc' \in [Procs -> ProcRecords] /\ \A q \in Procs : ProcInv(q)'
        /\ proc'[p].cmd = "install" /\ proc'[p].pc = 12
        /\ \A q \in Procs : q # p => proc'[q] = proc[q]
    BY <1>1, <1>4, <2>1, <2>2, <2>3, <2>4, PairingGoto
  <2>6. overlapped' \in BOOLEAN
    BY <1>4, Zenon
  <2>7. SetupTyped'
    BY <2>3, <2>5, <2>6 DEF SetupInv, SetupTyped
  <2>8. ASSUME ~overlapped', NEW q \in Procs, q # p PROVE ~Pairing(q, 12)
    <3>1. ~BetweenCheckAndRow(q)
      BY <1>4, <2>8
    <3>2. proc[q].cmd = "install" /\ proc[q].pc > 11 => Op(q)[1] \in {"pair", "write", "row"}
      BY StepPlaces DEF SetupInv, SetupTyped, ProcInv
    <3>3. proc[q].pc \in Nat
      BY DEF SetupInv, SetupTyped, ProcRecords
    <3>4. QED BY <3>1, <3>2, <3>3 DEF Pairing, BetweenCheckAndRow
  <2>9. ASSUME ~overlapped', NEW q \in Procs, NEW n \in {12, 14, 15, 16}, Pairing(q, n)'
        PROVE  q = p /\ n = 12
    <3>1. CASE q # p
      <4>1. Pairing(q, 12)
        BY <2>5, <2>9, <3>1 DEF Pairing, ProcRecords
      <4>2. QED BY <2>8, <2>9, <3>1, <4>1
    <3>2. QED BY <2>5, <2>9, <3>1 DEF Pairing
  <2>10. PairInv'
    <3>1. ~overlapped' => ~overlapped
      BY <2>3 DEF Grows
    <3>2. ~overlapped => files.config \in Nowhere
      BY <1>4 DEF SetupInv, PairInv
    <3>3. QED BY <1>4, <2>3, <2>9, <3>1, <3>2 DEF PairInv
  <2>11. SchemaInv'
    BY <1>4, <2>3 DEF SchemaInv
  <2>12. QED BY <2>5, <2>7, <2>10, <2>11 DEF SetupInv
<1>5. QED BY <1>3, <1>4 DEF CheckUnpaired, ValidateFormat

\* The process at a step of an install with another data directory.
LEMMA AtElsewhere ==
    ASSUME SetupInv, NEW p \in Procs, proc[p].cmd = "elsewhere"
    PROVE  /\ proc[p] \in ProcRecords /\ Placed(proc[p]) /\ proc[p].pc \in 1..5
           /\ proc[p].addr \in Panels
           /\ proc[p].pc > 1 => proc[p].token \in Tokens /\ overlapped = TRUE
           /\ ~Pairing(p, 12) /\ ~Pairing(p, 16)
<1>1. proc[p] \in ProcRecords /\ Placed(proc[p]) /\ proc[p].cmd # None /\ overlapped \in BOOLEAN
  BY CommandAssumption, CommandSet DEF SetupInv, SetupTyped, ProcInv
<1>2. QED BY <1>1, OtherSteps DEF Placed, SetupInv, ProcInv, Informed, Pairing

LEMMA CheckUnpairedInv ==
    ASSUME SetupInv, NEW p \in Procs, CheckUnpaired(p) PROVE SetupInv'
<1>1. proc[p].cmd = "install" \/ (proc[p].cmd = "elsewhere" /\ proc[p].pc = 1)
  BY StepPlaces DEF CheckUnpaired, SetupInv, SetupTyped, ProcInv
<1>2. ASSUME proc[p].cmd = "elsewhere", proc[p].pc = 1 PROVE SetupInv'
  <2>1. proc[p] \in ProcRecords /\ Placed(proc[p]) /\ proc[p].addr \in Panels /\ ~Pairing(p, 16)
    BY <1>2, AtElsewhere
  <2>2. CASE Fail(p) /\ UNCHANGED overlapped
    BY <2>1, <2>2, FailInv DEF CheckUnpaired
  <2>3. ASSUME NEW token \in Tokens, Goto(p, [proc[p] EXCEPT !.token = token]), overlapped' = TRUE
        PROVE  SetupInv'
    <3> DEFINE r == [proc[p] EXCEPT !.token = token]
    <3>1. /\ r \in ProcRecords /\ r.cmd = "elsewhere" /\ r.pc = 1 /\ r.addr = proc[p].addr
          /\ r.token = token
      BY <1>2, <2>1 DEF ProcRecords
    <3>2. Goto(p, r)
      BY <2>3
    <3> HIDE DEF r
    <3>3. Placed(r)
      BY <1>2, <2>1, <3>1 DEF Placed
    <3>4. UNCHANGED <<files, ca, nodes, schema, issued, started, reset>> /\ SetupTyped
      BY DEF CheckUnpaired, SetupInv
    <3>5. Grows
      BY <2>3, <3>4 DEF SetupTyped, Grows
    <3>6. QED BY <1>2, <2>3, <3>1, <3>2, <3>3, <3>4, <3>5, ElsewhereInv DEF SetupTyped
  <2>4. "elsewhere" # "install"
    OBVIOUS
  <2>5. PICK token \in Tokens \cup {None} :
          IF ~ValidateFormat(token) \/ (proc[p].cmd = "install" /\ nodes # <<>>)
          THEN Fail(p) /\ UNCHANGED overlapped
          ELSE /\ Goto(p, [proc[p] EXCEPT !.token = token])
               /\ overlapped' = (\/ overlapped \/ proc[p].cmd = "elsewhere"
                                 \/ \E q \in Procs \ {p} : BetweenCheckAndRow(q))
    BY DEF CheckUnpaired
  <2>6. CASE token = None
    BY <2>2, <2>5, <2>6 DEF ValidateFormat
  <2>7. CASE token # None
    <3>1. /\ Goto(p, [proc[p] EXCEPT !.token = token])
          /\ overlapped' = (\/ overlapped \/ proc[p].cmd = "elsewhere"
                            \/ \E q \in Procs \ {p} : BetweenCheckAndRow(q))
      BY <1>2, <2>4, <2>5, <2>7 DEF ValidateFormat
    <3>2. overlapped' = TRUE
      BY <1>2, <3>1
    <3>3. QED BY <2>3, <2>7, <3>1, <3>2
  <2>8. QED BY <2>6, <2>7
<1>3. QED BY <1>1, <1>2, CheckInstallInv

\* Nobody pairs beside an install that does, unless pairings overlapped.
LEMMA PairingAlone ==
    ASSUME SetupInv, NEW p \in Procs, Pairing(p, 12), ~overlapped,
           \A q \in Procs : q # p => proc'[q] = proc[q]
    PROVE  \A q \in Procs : \A n \in {12, 14, 15, 16} : Pairing(q, n)' => q = p
<1> SUFFICES ASSUME NEW q \in Procs, NEW n \in {12, 14, 15, 16}, Pairing(q, n)', q # p PROVE FALSE
  OBVIOUS
<1>1. Pairing(q, 12)
  BY DEF Pairing, SetupInv, SetupTyped, ProcRecords
<1>2. QED BY <1>1 DEF SetupInv, PairInv

LEMMA InstallPairInv ==
    ASSUME SetupInv, NEW p \in Procs, Pair(p), proc[p].cmd = "install" PROVE SetupInv'
<1>1. proc[p].cmd = "install" /\ proc[p].pc = 12
  BY StepPlaces DEF Pair, SetupInv, SetupTyped, ProcInv
<1>2. /\ proc[p] \in ProcRecords /\ Placed(proc[p]) /\ proc[p].addr \in Panels
      /\ proc[p].token \in Tokens /\ Pairing(p, 12) /\ ~Pairing(p, 16)
  BY <1>1, AtPairing DEF Pairing
<1>3. UNCHANGED <<files, ca, nodes, schema, started, overlapped, reset>> /\ SetupTyped
  BY DEF Pair, SetupInv
<1>4. Grows
  <2>1. issued' = issued \/ (/\ issued[proc[p].token] = None
                             /\ issued' = [issued EXCEPT ![proc[p].token] = proc[p].addr])
    BY DEF Pair
  <2>2. QED BY <1>2, <1>3, <2>1 DEF SetupTyped, Grows
<1>5. CASE Fail(p)
  <2>1. PICK r \in ProcRecords : Becomes(p, r) /\ AtStart(r)
    BY <1>2, <1>3, <1>5, FailStep
  <2>2. QED BY <1>2, <1>3, <1>4, <2>1, QuietStep DEF SetupTyped
<1>6. CASE /\ issued' = [issued EXCEPT ![proc[p].token] = proc[p].addr]
           /\ Advance(p)
  <2>1. issued'[proc[p].token] = proc[p].addr
    BY <1>2, <1>3, <1>6 DEF SetupTyped
  <2>2. /\ proc' \in [Procs -> ProcRecords] /\ \A q \in Procs : ProcInv(q)'
        /\ proc'[p].cmd = "install" /\ proc'[p].pc = 13
        /\ \A q \in Procs : q # p => proc'[q] = proc[q]
    BY <1>1, <1>2, <1>4, <1>6, <2>1, PairingGoto DEF Advance
  <2>3. SetupTyped'
    BY <1>3, <1>4, <2>2 DEF SetupTyped, Grows
  <2>4. ASSUME ~overlapped' PROVE nodes = <<>> /\ \A q \in Procs : \A n \in {12, 14, 15, 16} :
                                                    Pairing(q, n)' => q = p /\ n = 12
    <3>1. nodes = <<>>
      BY <1>1, <1>2, <1>3, <2>4 DEF SetupInv, PairInv
    <3>2. \A n \in {14, 15, 16} : ~Pairing(p, n)'
      BY <2>2 DEF Pairing
    <3>3. QED BY <1>2, <1>3, <2>2, <2>4, <3>1, <3>2, PairingAlone
  <2>5. PairInv'
    BY <1>3, <2>4 DEF SetupInv, PairInv
  <2>6. SchemaInv'
    BY <1>3 DEF SetupInv, SchemaInv
  <2>7. QED BY <2>2, <2>3, <2>5, <2>6 DEF SetupInv
<1>7. QED BY <1>5, <1>6 DEF Pair

LEMMA PanelPairInv == ASSUME SetupInv, NEW p \in Procs, Pair(p) PROVE SetupInv'
<1>1. proc[p].cmd = "install" \/ (proc[p].cmd = "elsewhere" /\ proc[p].pc = 2)
  BY StepPlaces DEF Pair, SetupInv, SetupTyped, ProcInv
<1>2. ASSUME proc[p].cmd = "elsewhere", proc[p].pc = 2 PROVE SetupInv'
  <2>1. /\ proc[p] \in ProcRecords /\ Placed(proc[p]) /\ proc[p].addr \in Panels
        /\ proc[p].token \in Tokens /\ overlapped = TRUE
    <3>1. proc[p].pc > 1
      BY <1>2
    <3>2. QED BY <1>2, <3>1, AtElsewhere
  <2>2. UNCHANGED <<files, ca, nodes, schema, started, overlapped, reset>> /\ SetupTyped
    BY DEF Pair, SetupInv
  <2>3. issued' = issued \/ (/\ issued[proc[p].token] = None
                             /\ issued' = [issued EXCEPT ![proc[p].token] = proc[p].addr])
    BY DEF Pair
  <2>4. Grows
    BY <2>1, <2>2, <2>3 DEF SetupTyped, Grows
  <2>5. Goto(p, proc[p]) \/ Fail(p)
    BY DEF Pair, Advance
  <2>6. QED BY <1>2, <2>1, <2>2, <2>4, <2>5, ElsewhereInv DEF SetupTyped
<1>3. QED BY <1>1, <1>2, InstallPairInv

\* SaveNode: the first row, unless pairings overlapped.
LEMMA SaveNodeInv == ASSUME SetupInv, NEW p \in Procs, SaveNode(p) PROVE SetupInv'
<1> DEFINE S == [id : Tokens, addr : Panels, old : BOOLEAN]
           e == [id |-> proc[p].token, addr |-> proc[p].addr, old |-> FALSE]
<1>1. proc[p].cmd = "install" /\ proc[p].pc = 15
  BY StepPlaces DEF SaveNode, SetupInv, SetupTyped, ProcInv
<1>2. /\ proc[p] \in ProcRecords /\ Placed(proc[p]) /\ proc[p].addr \in Panels
      /\ proc[p].token \in Tokens /\ issued[proc[p].token] = proc[p].addr
      /\ Pairing(p, 12) /\ Pairing(p, 14) /\ Pairing(p, 15)
  BY <1>1, AtPairing DEF Pairing
<1>3. /\ UNCHANGED <<files, ca, schema, issued, started, overlapped, reset>> /\ SetupTyped
      /\ nodes' = Append(nodes, e) /\ Advance(p)
  BY DEF SaveNode, SetupInv
<1>4. e \in S /\ e.id = proc[p].token /\ e.addr = proc[p].addr
  BY <1>2
<1>5. nodes \in Seq(S)
  BY <1>3 DEF SetupTyped
<1> HIDE DEF S, e
<1>6. /\ nodes' \in Seq(S) /\ nodes' # <<>> /\ Len(nodes') = Len(nodes) + 1
      /\ nodes # <<>> => nodes'[1] = nodes[1]
      /\ nodes = <<>> => nodes'[1] = e /\ Len(nodes') = 1
  BY <1>3, <1>4, <1>5
<1>7. Grows
  BY <1>3, <1>6 DEF SetupTyped, Grows, S
<1>8. /\ proc' \in [Procs -> ProcRecords] /\ \A q \in Procs : ProcInv(q)'
      /\ proc'[p].cmd = "install" /\ proc'[p].pc = 16 /\ proc'[p].addr = proc[p].addr
      /\ proc'[p].token = proc[p].token
      /\ \A q \in Procs : q # p => proc'[q] = proc[q]
  BY <1>1, <1>2, <1>3, <1>7, PairingGoto DEF Advance
<1>9. SetupTyped'
  BY <1>3, <1>7, <1>8 DEF SetupTyped, Grows
<1>10. PairInv'
  <2> SUFFICES ASSUME ~overlapped' PROVE
        /\ files'.config \in Nowhere
        /\ \A q, s \in Procs : Pairing(q, 12)' /\ Pairing(s, 12)' => q = s
        /\ \A q \in Procs : Pairing(q, 12)' /\ proc'[q].pc < 16 => nodes' = <<>>
        /\ \A q \in Procs : Pairing(q, 14)' => files'.key = proc'[q].token
        /\ \A q \in Procs : Pairing(q, 15)' => files'.cert = proc'[q].token
        /\ \A q \in Procs : Pairing(q, 16)' => nodes' # <<>> /\ proc'[q].addr = nodes'[1].addr
        /\ Len(nodes') = 1 /\ issued'[nodes'[1].id] = nodes'[1].addr
        /\ files'.key = nodes'[1].id /\ files'.cert = nodes'[1].id
        /\ \E q \in Procs : Pairing(q, 16)'
    BY DEF PairInv
  <2>1. /\ nodes = <<>> /\ files.key = proc[p].token /\ files.cert = proc[p].token
        /\ files.config \in Nowhere
    BY <1>1, <1>2, <1>3 DEF SetupInv, PairInv
  <2>2. \A q \in Procs : \A n \in {12, 14, 15, 16} : Pairing(q, n)' => q = p
    BY <1>2, <1>3, <1>8, PairingAlone
  <2>3. Pairing(p, 16)' /\ ~(proc'[p].pc < 16)
    BY <1>8 DEF Pairing
  <2>4. QED BY <1>2, <1>3, <1>4, <1>6, <1>8, <2>1, <2>2, <2>3
<1>11. SchemaInv'
  <2>1. Migrated(proc[p])
    BY DEF SetupInv, ProcInv
  <2>2. QED BY <1>1, <1>3, <2>1 DEF Migrated, SchemaInv, Pieces
<1>12. QED BY <1>8, <1>9, <1>10, <1>11 DEF SetupInv

\* A file that an install writes: key and certificate while the node has no row, then
\* config.yaml with the Panel of the row.
LEMMA WriteInstallInv ==
    ASSUME SetupInv, NEW p \in Procs, WriteFile(p), proc[p].cmd # "elsewhere" PROVE SetupInv'
<1> DEFINE file == Op(p)[2]
           FileSet == [key : Tokens \cup {None, "torn"}, cert : Tokens \cup {None, "torn"},
                       config : Addrs \cup {None, "torn", "elsewhere"}]
           dat == IF file # "config" THEN proc[p].token
                  ELSE IF proc[p].cmd = "elsewhere" THEN "elsewhere" ELSE proc[p].addr
<1>1. /\ UNCHANGED <<ca, nodes, schema, issued, started, overlapped>> /\ SetupTyped /\ files \in FileSet
      /\ proc[p] \in ProcRecords /\ Placed(proc[p])
  BY DEF WriteFile, SetupInv, SetupTyped, ProcInv
<1>2. \/ /\ proc[p].cmd = "install"
         /\ \/ proc[p].pc = 13 /\ file = "key"
            \/ proc[p].pc = 14 /\ file = "cert"
            \/ proc[p].pc = 16 /\ file = "config"
      \/ proc[p].cmd = "token" /\ file = "config"
  BY <1>1, StepPlaces DEF WriteFile
<1>3. Grows
  BY <1>1, SameGrows
<1>4. \/ files' = [files EXCEPT ![file] = dat] /\ Advance(p)
         /\ reset' = IF file = "config" THEN proc[p].cmd # "install" ELSE reset
      \/ \E torn \in {files[file], "torn"} :
           files' = [files EXCEPT ![file] = torn] /\ Fail(p) /\ reset' = (reset \/ file = "config")
  BY DEF WriteFile
<1> HIDE DEF file, dat
<1>5. ASSUME NEW torn \in {files[file], "torn"}, files' = [files EXCEPT ![file] = torn], Fail(p),
             reset' = (reset \/ file = "config")
      PROVE  SetupInv'
  <2>1. PICK r \in ProcRecords : Becomes(p, r) /\ AtStart(r)
    BY <1>1, <1>5, FailStep
  <2>2. files' \in FileSet
    BY <1>1, <1>2, <1>5
  <2>3. reset' \in BOOLEAN
    BY <1>5, Zenon
  <2>4. CASE file = "config"
    <3>1. /\ reset' /\ files'.key = files.key /\ files'.cert = files.cert
          /\ files'.config \in {files.config} \cup Nowhere
      BY <1>1, <1>5, <2>4 DEF Nowhere
    <3>2. QED BY <1>1, <1>3, <2>1, <2>2, <2>3, <3>1, QuietStep DEF SetupTyped
  <2>5. CASE file # "config"
    <3>1. /\ Pairing(p, 12) /\ proc[p].pc < 16 /\ ~Pairing(p, 16) /\ files'.config = files.config
      BY <1>1, <1>2, <1>5, <2>5 DEF Pairing
    <3>2. reset' = reset
      BY <1>1, <1>5, <2>5 DEF SetupTyped
    <3>3. QED BY <1>1, <1>3, <2>1, <2>2, <2>3, <3>1, <3>2, QuietStep DEF SetupTyped
  <2>6. QED BY <2>4, <2>5
<1>6. CASE /\ proc[p].cmd = "token" /\ file = "config" /\ files' = [files EXCEPT ![file] = dat]
           /\ Advance(p) /\ reset' = (proc[p].cmd # "install")
  <2>1. /\ proc[p].cmd # None /\ proc[p].pc = Len(Program[proc[p].cmd])
        /\ proc[p].addr \in {DefaultAddr, "elsewhere"} /\ DefaultAddr \in Addrs
    BY <1>1, <1>6, CommandAssumption, CommandSet, OtherSteps DEF Placed, Addrs
  <2>2. Becomes(p, Idle)
    BY <1>1, <1>6, <2>1, GotoStep DEF Advance
  <2>3. /\ files' \in FileSet /\ files'.key = files.key /\ files'.cert = files.cert
        /\ files'.config \in Nowhere
    BY <1>1, <1>6, <2>1 DEF dat, Nowhere
  <2>4. reset' /\ reset' \in BOOLEAN
    BY <1>6, Zenon
  <2>5. QED BY <1>1, <1>3, <2>2, <2>3, <2>4, IdleTyped, QuietStep DEF SetupTyped
<1>7. CASE /\ proc[p].cmd = "install" /\ proc[p].pc \in {13, 14} /\ Advance(p) /\ reset' = reset
           /\ files' = [files EXCEPT ![file] = proc[p].token]
           /\ file = (IF proc[p].pc = 13 THEN "key" ELSE "cert")
  <2>1. /\ proc[p].token \in Tokens /\ issued[proc[p].token] = proc[p].addr
        /\ Pairing(p, 12) /\ proc[p].pc < 16
    BY <1>7, AtPairing DEF Pairing
  <2>2. /\ proc' \in [Procs -> ProcRecords] /\ \A q \in Procs : ProcInv(q)'
        /\ proc'[p].cmd = "install" /\ proc'[p].pc = proc[p].pc + 1 /\ proc'[p].token = proc[p].token
        /\ \A q \in Procs : q # p => proc'[q] = proc[q]
    BY <1>1, <1>3, <1>7, <2>1, PairingGoto DEF Advance
  <2>3. files' \in FileSet
    BY <1>1, <1>7, <2>1
  <2>4. SetupTyped'
    BY <1>1, <1>3, <1>7, <2>2, <2>3 DEF SetupTyped
  <2>5. ASSUME ~overlapped' PROVE
          /\ nodes = <<>> /\ files'.config \in Nowhere
          /\ \A q \in Procs : \A n \in {12, 14, 15, 16} : Pairing(q, n)' => q = p
          /\ Pairing(p, 14)' => files'.key = proc'[p].token
          /\ Pairing(p, 15)' => files'.cert = proc'[p].token
          /\ ~Pairing(p, 16)'
    <3>1. /\ nodes = <<>> /\ (proc[p].pc = 14 => files.key = proc[p].token)
          /\ files.config \in Nowhere
      BY <1>1, <1>7, <2>1, <2>5 DEF SetupInv, PairInv, Pairing
    <3>2. \A q \in Procs : \A n \in {12, 14, 15, 16} : Pairing(q, n)' => q = p
      BY <1>1, <2>1, <2>2, <2>5, PairingAlone
    <3>3. CASE proc[p].pc = 13
      BY <1>1, <1>7, <2>2, <3>1, <3>2, <3>3 DEF Pairing
    <3>4. CASE proc[p].pc = 14
      BY <1>1, <1>7, <2>2, <3>1, <3>2, <3>4 DEF Pairing
    <3>5. QED BY <1>7, <3>3, <3>4
  <2>6. PairInv'
    BY <1>1, <2>5 DEF PairInv
  <2>7. SchemaInv'
    BY <1>1 DEF SetupInv, SchemaInv
  <2>8. QED BY <2>2, <2>4, <2>6, <2>7 DEF SetupInv
<1>8. CASE /\ proc[p].cmd = "install" /\ proc[p].pc = 16 /\ Advance(p) /\ reset' \in BOOLEAN
           /\ files' = [files EXCEPT !["config"] = proc[p].addr]
  <2>1. /\ proc[p].addr \in Panels /\ proc[p].addr \in Addrs /\ proc[p].cmd # None
        /\ Pairing(p, 12) /\ Pairing(p, 16) /\ proc[p].pc = Len(Program[proc[p].cmd])
    BY <1>8, AtPairing, InstallSteps DEF Pairing, Addrs
  <2>2. Becomes(p, Idle)
    BY <1>1, <1>8, <2>1, GotoStep DEF Advance
  <2>3. /\ proc' \in [Procs -> ProcRecords] /\ proc'[p] = Idle
        /\ \A q \in Procs : q # p => proc'[q] = proc[q]
        /\ \A q \in Procs : ProcInv(q)'
    <3>1. Placed(Idle) /\ Migrated(Idle)' /\ Informed(Idle)'
      BY IdleTyped, CommandAssumption, CommandSet DEF AtStart, Migrated, Informed
    <3>2. QED BY <1>3, <2>2, <3>1, IdleTyped, ProcsAfter
  <2>4. files' \in FileSet /\ files'.key = files.key /\ files'.cert = files.cert
        /\ files'.config = proc[p].addr
    BY <1>1, <1>8, <2>1
  <2>5. SetupTyped'
    BY <1>1, <1>8, <2>3, <2>4 DEF SetupTyped
  <2>6. ASSUME ~overlapped' PROVE
          /\ nodes # <<>> /\ proc[p].addr = nodes[1].addr /\ Len(nodes) = 1
          /\ issued[nodes[1].id] = nodes[1].addr
          /\ files.key = nodes[1].id /\ files.cert = nodes[1].id
          /\ \A q \in Procs : \A n \in {12, 14, 15, 16} : ~Pairing(q, n)'
    <3>1. /\ nodes # <<>> /\ proc[p].addr = nodes[1].addr /\ Len(nodes) = 1
          /\ issued[nodes[1].id] = nodes[1].addr
          /\ files.key = nodes[1].id /\ files.cert = nodes[1].id
      BY <1>1, <2>1, <2>6 DEF SetupInv, PairInv
    <3>2. \A q \in Procs : \A n \in {12, 14, 15, 16} : Pairing(q, n)' => q = p
      BY <1>1, <2>1, <2>3, <2>6, PairingAlone
    <3>3. \A n \in {12, 14, 15, 16} : ~Pairing(p, n)'
      BY <2>3, IdleTyped, CommandAssumption, CommandSet DEF Pairing
    <3>4. QED BY <3>1, <3>2, <3>3
  <2>7. PairInv'
    BY <1>1, <2>4, <2>6 DEF PairInv
  <2>8. SchemaInv'
    BY <1>1 DEF SetupInv, SchemaInv
  <2>9. QED BY <2>3, <2>5, <2>7, <2>8 DEF SetupInv
<1>9. CASE files' = [files EXCEPT ![file] = dat] /\ Advance(p)
         /\ reset' = IF file = "config" THEN proc[p].cmd # "install" ELSE reset
  <2>1. CASE proc[p].cmd = "token"
    BY <1>2, <1>6, <1>9, <2>1
  <2>2. CASE proc[p].cmd = "install" /\ proc[p].pc = 16
    <3>1. file = "config" /\ dat = proc[p].addr /\ reset' = (proc[p].cmd # "install")
      BY <1>2, <1>9, <2>2 DEF dat
    <3>2. reset' \in BOOLEAN
      BY <3>1, Zenon
    <3>3. QED BY <1>8, <1>9, <2>2, <3>1, <3>2
  <2>3. CASE proc[p].cmd = "install" /\ proc[p].pc # 16
    <3>1. /\ proc[p].pc \in {13, 14} /\ file = (IF proc[p].pc = 13 THEN "key" ELSE "cert")
          /\ dat = proc[p].token
      BY <1>2, <2>3 DEF dat
    <3>2. reset' = reset
      BY <1>9, <3>1
    <3>3. QED BY <1>7, <1>9, <2>3, <3>1, <3>2
  <2>4. QED BY <1>2, <2>1, <2>2, <2>3
<1>10. QED BY <1>4, <1>5, <1>9

LEMMA WriteFileInv == ASSUME SetupInv, NEW p \in Procs, WriteFile(p) PROVE SetupInv'
<1> DEFINE FileSet == [key : Tokens \cup {None, "torn"}, cert : Tokens \cup {None, "torn"},
                       config : Addrs \cup {None, "torn", "elsewhere"}]
<1>1. ASSUME proc[p].cmd = "elsewhere" PROVE SetupInv'
  <2>1. /\ UNCHANGED <<ca, nodes, schema, issued, started, overlapped>> /\ SetupTyped /\ files \in FileSet
        /\ proc[p] \in ProcRecords /\ Placed(proc[p])
    BY DEF WriteFile, SetupInv, SetupTyped, ProcInv
  <2>2. /\ Op(p)[2] \in {"key", "cert", "config"} /\ proc[p].pc \in {3, 4, 5}
    BY <1>1, <2>1, StepPlaces DEF WriteFile
  <2>3. proc[p].token \in Tokens /\ overlapped = TRUE
    <3>1. proc[p].pc > 1
      BY <2>2
    <3>2. QED BY <1>1, <3>1, AtElsewhere
  <2>4. PICK d \in Tokens \cup {"torn", "elsewhere", files[Op(p)[2]]} :
          /\ files' = [files EXCEPT ![Op(p)[2]] = d]
          /\ d = "elsewhere" => Op(p)[2] = "config" \/ d = files[Op(p)[2]]
          /\ d \in Tokens => Op(p)[2] # "config" \/ d = files[Op(p)[2]]
    <3>1. "elsewhere" \notin Tokens /\ proc[p].token # "elsewhere"
      BY <2>3, SetupAssumption
    <3>2. \/ /\ Op(p)[2] # "config" /\ files' = [files EXCEPT ![Op(p)[2]] = proc[p].token]
          \/ /\ Op(p)[2] = "config" /\ files' = [files EXCEPT ![Op(p)[2]] = "elsewhere"]
          \/ \E torn \in {files[Op(p)[2]], "torn"} : files' = [files EXCEPT ![Op(p)[2]] = torn]
      BY <1>1 DEF WriteFile
    <3>3. "torn" \notin Tokens /\ "torn" # "elsewhere"
      BY SetupAssumption
    <3>4. QED BY <2>3, <3>1, <3>2, <3>3
  <2>5. files' \in FileSet
    BY <2>1, <2>2, <2>4
  <2>6. reset' \in BOOLEAN
    <3>1. \/ reset' = (proc[p].cmd # "install") \/ reset' = reset \/ reset' = (reset \/ Op(p)[2] = "config")
      BY DEF WriteFile
    <3>2. reset \in BOOLEAN
      BY <2>1 DEF SetupTyped
    <3>3. QED BY <3>1, <3>2, Zenon
  <2>7. Goto(p, proc[p]) \/ Fail(p)
    BY DEF WriteFile, Advance
  <2>8. Grows
    BY <2>1, SameGrows
  <2>9. QED BY <1>1, <2>1, <2>3, <2>5, <2>6, <2>7, <2>8, ElsewhereInv
<1>2. QED BY <1>1, WriteInstallInv

-----------------------------------------------------------------------------
(* The other steps.                                                          *)

\* An install past its row is about to write config.yaml.
LEMMA WritesConfig ==
    ASSUME NEW p \in Procs, proc[p] \in ProcRecords, Placed(proc[p]), Pairing(p, 16)
    PROVE  Op(p) = <<"write", "config">>
<1>1. proc[p].cmd = "install" /\ proc[p].pc >= 16 /\ proc[p].cmd # None
  BY CommandAssumption, CommandSet DEF Pairing
<1>2. proc[p].pc = 16
  BY <1>1, InstallSteps DEF Placed
<1>3. QED BY <1>1, <1>2, StepPlaces

\* A command is started.
LEMMA StartInv ==
    ASSUME SetupInv, NEW p \in Procs, NEW cmd \in Commands, NEW addr \in Addrs \cup {"elsewhere"},
           cmd \in {"install", "elsewhere"} => addr \in Panels,
           cmd = "token" => addr \in {DefaultAddr, "elsewhere"}, Start(p, cmd, addr)
    PROVE  SetupInv'
<1> DEFINE r == [Idle EXCEPT !.cmd = cmd, !.pc = 1, !.addr = addr]
<1>1. r \in ProcRecords /\ r.cmd = cmd /\ r.pc = 1 /\ r.addr = addr /\ proc' = [proc EXCEPT ![p] = r]
  <2>1. proc' = [proc EXCEPT ![p] = r]
    BY DEF Start
  <2>2. Idle \in ProcRecords
    BY IdleTyped
  <2>3. QED BY <2>1, <2>2 DEF ProcRecords
<1> HIDE DEF r
<1>2. cmd # None /\ 1 \in 1..Len(Program[cmd])
  <2>1. cmd # None
    BY CommandAssumption
  <2>2. \/ cmd = "install" \/ cmd = "elsewhere" \/ cmd = "token" \/ cmd = "server" \/ cmd = "check"
        \/ cmd = "diagnose" \/ cmd = "doctor" \/ cmd = "daemon"
    BY CommandSet
  <2>3. PICK n \in {1, 4, 5, 7, 10, 11, 16} : Len(Program[cmd]) = n
    BY <2>2, MigrateSteps, InstallSteps, MigratingSteps, OtherSteps
  <2>4. 1 \in 1..n
    OBVIOUS
  <2>5. QED BY <2>1, <2>3, <2>4
<1>3. AtStart(r) /\ Becomes(p, r)
  BY <1>1, <1>2 DEF AtStart, Placed, Becomes
<1>4. UNCHANGED <<files, ca, nodes, schema, issued, overlapped, reset>> /\ SetupTyped
  BY DEF Start, SetupInv
<1>5. started' \in 0..MaxCommands
  BY <1>4, SetupAssumption DEF Start, SetupTyped
<1>6. proc[p].cmd = None /\ ~Pairing(p, 16)
  BY CommandAssumption, CommandSet DEF Start, Pairing
<1>7. QED BY <1>1, <1>3, <1>4, <1>5, <1>6, SameGrows, QuietStep DEF SetupTyped

\* A statement of the migrations: the piece it is for is there afterwards.
LEMMA SchemaStepInv ==
    ASSUME SetupInv, NEW p \in Procs, NEW r \in ProcRecords, Goto(p, r),
           r.cmd = proc[p].cmd, r.pc = proc[p].pc, r.addr = proc[p].addr, r.token = proc[p].token,
           \/ AtOp(p, "find")
           \/ (AtOp(p, "create") \/ AtOp(p, "add")) /\ Op(p)[2] \in schema',
           schema \subseteq schema', schema' \subseteq Pieces,
           UNCHANGED <<files, ca, nodes, issued, started, overlapped, reset>>
    PROVE  SetupInv'
<1>1. /\ SetupTyped /\ ProcInv(p) /\ proc[p] \in ProcRecords /\ Placed(proc[p])
      /\ proc[p].pc \in Nat
  BY DEF SetupInv, SetupTyped, ProcInv, ProcRecords
<1>2. Placed(r)
  BY <1>1 DEF Placed
<1>3. Grows
  BY <1>1 DEF SetupTyped, Grows
<1>4. None \notin Commands
  BY CommandAssumption
<1>5. CASE proc[p].cmd \in {"server", "check", "diagnose", "doctor"}
  BY <1>2, <1>3, <1>4, <1>5, CommandSet, GotoInv
<1>6. CASE proc[p].cmd = "install"
  <2>1. \/ proc[p].pc \in {3, 5, 9}
        \/ proc[p].pc = 1 /\ "base" \in schema'
        \/ proc[p].pc = 2 /\ "events" \in schema'
        \/ proc[p].pc = 4 /\ "restart_count" \in schema'
        \/ proc[p].pc = 6 /\ "last_crash_at" \in schema'
        \/ proc[p].pc = 7 /\ "backups" \in schema'
        \/ proc[p].pc = 8 /\ "plugins" \in schema'
        \/ proc[p].pc = 10 /\ "plugin_columns" \in schema'
    BY <1>1, <1>6, StepPlaces
  <2>2. r.pc <= 10
    BY <1>1, <2>1
  <2>3. Migrated(proc[p])
    BY <1>1 DEF ProcInv
  <2>4. ASSUME NEW n \in ProcRecords, n.cmd = "install", n.pc = r.pc + 1 PROVE Migrated(n)'
    BY <1>1, <1>6, <2>1, <2>3, <2>4 DEF Migrated
  <2>5. QED BY <1>2, <1>3, <1>6, <2>2, <2>4, MigrationInv
<1>7. CASE proc[p].cmd = "daemon"
  <2>1. proc[p].pc = 1 /\ "tunnels" \in schema'
    BY <1>1, <1>7, StepPlaces
  <2>2. QED BY <1>2, <1>3, <1>7, <2>1, DaemonInv
<1>8. QED BY <1>1, <1>5, <1>6, <1>7, StepPlaces

LEMMA MigrationStepInv ==
    ASSUME SetupInv, NEW p \in Procs, Create(p) \/ FindColumn(p) \/ AddColumn(p)
    PROVE  SetupInv'
<1>1. SetupTyped /\ proc[p] \in ProcRecords /\ Placed(proc[p])
  BY DEF SetupInv, SetupTyped, ProcInv
<1>2. AtOp(p, "create") \/ AtOp(p, "add") => Op(p)[2] \in Pieces
  BY <1>1, StepPlaces DEF Pieces
<1>3. AtOp(p, "create") \/ AtOp(p, "find") \/ AtOp(p, "add") => ~Pairing(p, 16)
  <2>1. Pairing(p, 16) => Op(p) = <<"write", "config">>
    BY <1>1, WritesConfig
  <2>2. QED BY <2>1 DEF AtOp
<1>4. CASE Create(p)
  <2>1. schema \subseteq schema' /\ Op(p)[2] \in schema' /\ schema' \subseteq Pieces
    BY <1>1, <1>2, <1>4 DEF Create, SetupTyped, Pieces
  <2>2. QED BY <1>1, <1>4, <2>1, SchemaStepInv DEF Create, Advance
<1>5. ASSUME NEW b \in BOOLEAN
      PROVE  /\ [proc[p] EXCEPT !.found = b] \in ProcRecords
             /\ [proc[p] EXCEPT !.found = b].cmd = proc[p].cmd
             /\ [proc[p] EXCEPT !.found = b].pc = proc[p].pc
             /\ [proc[p] EXCEPT !.found = b].addr = proc[p].addr
             /\ [proc[p] EXCEPT !.found = b].token = proc[p].token
  BY <1>1, <1>5 DEF ProcRecords
<1>6. CASE FindColumn(p)
  <2>1. PICK b \in BOOLEAN : b = (Op(p)[2] \in schema)
    <3>1. CASE Op(p)[2] \in schema
      <4>1. TRUE = (Op(p)[2] \in schema)
        BY <3>1
      <4>2. QED BY <4>1, Zenon
    <3>2. CASE Op(p)[2] \notin schema
      <4>1. FALSE = (Op(p)[2] \in schema)
        BY <3>2
      <4>2. QED BY <4>1, Zenon
    <3>3. QED BY <3>1, <3>2
  <2>2. Goto(p, [proc[p] EXCEPT !.found = b])
    BY <1>6, <2>1 DEF FindColumn
  <2>3. QED BY <1>1, <1>5, <1>6, <2>2, SchemaStepInv DEF FindColumn, SetupTyped
<1>7. CASE AddColumn(p)
  <2>1. CASE Fail(p) /\ UNCHANGED schema
    BY <1>3, <1>7, <2>1, FailInv DEF AddColumn
  <2>2. CASE Goto(p, [proc[p] EXCEPT !.found = FALSE]) /\ schema' = schema \cup {Op(p)[2]}
    <3>1. schema \subseteq schema' /\ Op(p)[2] \in schema' /\ schema' \subseteq Pieces
      BY <1>1, <1>2, <1>7, <2>2 DEF AddColumn, SetupTyped
    <3>2. QED BY <1>1, <1>5, <1>7, <2>2, <3>1, SchemaStepInv DEF AddColumn
  <2>3. QED BY <1>7, <2>1, <2>2 DEF AddColumn
<1>8. QED BY <1>4, <1>6, <1>7

\* The daemon's way to its first session, and the health check's last step.
LEMMA DaemonStepInv ==
    ASSUME SetupInv, NEW p \in Procs,
           DaemonNode(p) \/ DaemonTLS(p) \/ DaemonDial(p) \/ DaemonRuntime(p) \/ DaemonPlugins(p)
    PROVE  SetupInv'
<1>1. SetupTyped /\ ProcInv(p) /\ proc[p] \in ProcRecords /\ Placed(proc[p]) /\ proc[p].pc \in Nat
  BY DEF SetupInv, SetupTyped, ProcInv, ProcRecords
<1>2. UNCHANGED <<files, ca, nodes, schema, issued, started, overlapped, reset>> /\ Grows
  <2>1. UNCHANGED <<files, ca, nodes, schema, issued, started, overlapped, reset>>
    BY DEF DaemonNode, DaemonTLS, DaemonDial, DaemonRuntime, DaemonPlugins
  <2>2. QED BY <1>1, <2>1, SameGrows
<1>3. ~Pairing(p, 16) /\ (proc[p].cmd = "check" \/ (proc[p].cmd = "daemon" /\ proc[p].pc > 1))
  BY <1>1, StepPlaces DEF DaemonNode, DaemonTLS, DaemonDial, DaemonRuntime, DaemonPlugins, Pairing
<1>4. CASE Fail(p)
  BY <1>2, <1>3, <1>4, FailInv
<1>5. proc[p].cmd = "daemon" => "tunnels" \in schema
  BY <1>1, <1>3 DEF ProcInv, Informed
<1>6. CASE DaemonNode(p) /\ "base" \in schema /\ nodes # <<>> /\ Goto(p, [proc[p] EXCEPT !.token = GetNode.id])
  <2> DEFINE r == [proc[p] EXCEPT !.token = GetNode.id]
  <2>1. GetNode = nodes[1] /\ nodes[1].id \in Tokens
    BY <1>1, <1>6, FirstNode
  <2>2. /\ r \in ProcRecords /\ r.cmd = proc[p].cmd /\ r.pc = proc[p].pc /\ r.addr = proc[p].addr
        /\ r.token = nodes[1].id
    BY <1>1, <2>1 DEF ProcRecords
  <2>3. proc[p].cmd = "daemon" /\ "install" # "daemon" /\ r.pc = 2
    BY <1>1, <1>6, <2>2, StepPlaces DEF DaemonNode
  <2>4. Goto(p, r)
    BY <1>6
  <2> HIDE DEF r
  <2>5. Placed(r)
    BY <1>1, <2>2, <2>3 DEF Placed
  <2>6. /\ r.pc > 1 => nodes # <<>> /\ r.token = nodes[1].id /\ "base" \in schema'
        /\ r.pc > 5 => {"plugins", "plugin_columns"} \subseteq schema'
        /\ "tunnels" \in schema'
    BY <1>2, <1>5, <1>6, <2>2, <2>3
  <2>7. QED BY <1>2, <2>2, <2>3, <2>4, <2>5, <2>6, DaemonInv
<1>7. CASE Advance(p) /\ ~DaemonNode(p)
  <2>1. CASE proc[p].cmd = "check"
    <3>1. "check" \notin {None, "install", "elsewhere", "daemon"}
      BY CommandAssumption, CommandSet
    <3>2. QED BY <1>1, <1>2, <1>7, <2>1, <3>1, GotoInv DEF Advance
  <2>2. CASE proc[p].cmd = "daemon"
    <3>1. AtOp(p, "tls") \/ AtOp(p, "dial") \/ AtOp(p, "runtime") \/ AtOp(p, "plugins")
      BY <1>7 DEF DaemonTLS, DaemonDial, DaemonRuntime, DaemonPlugins
    <3>2. proc[p].pc \in {3, 4, 5, 6}
      BY <1>1, <2>2, <3>1, StepPlaces
    <3>3. proc[p].pc > 2
      BY <3>2
    <3>4. nodes # <<>> /\ proc[p].token = nodes[1].id /\ "base" \in schema
      BY <1>1, <2>2, <3>3 DEF ProcInv, Informed
    <3>5. proc[p].pc > 5 => {"plugins", "plugin_columns"} \subseteq schema
      <4>1. SUFFICES ASSUME proc[p].pc = 6 PROVE {"plugins", "plugin_columns"} \subseteq schema
        BY <3>2
      <4>2. ~DaemonTLS(p) /\ ~DaemonDial(p) /\ ~DaemonRuntime(p)
        BY <1>1, <2>2, <4>1, StepPlaces DEF DaemonTLS, DaemonDial, DaemonRuntime
      <4>3. DaemonPlugins(p)
        BY <1>7, <4>2
      <4>4. CASE {"plugins", "plugin_columns"} \subseteq schema
        BY <4>4
      <4>5. CASE Fail(p)
        <5>1. proc'[p].cmd = None /\ proc' \in [Procs -> ProcRecords]
          BY <1>1, <2>2, <4>5, IdleTyped DEF Fail, Exit, SetupTyped
        <5>2. Goto(p, proc[p]) /\ proc[p].cmd # None /\ Len(Program["daemon"]) = 7
          BY <1>7, <2>2, CommandAssumption, CommandSet, OtherSteps DEF Advance
        <5>3. \/ Becomes(p, Idle) /\ proc[p].pc = 7
              \/ \E n \in ProcRecords : Becomes(p, n) /\ n.cmd = proc[p].cmd
          BY <1>1, <2>2, <5>2, GotoStep
        <5>4. proc'[p].cmd = proc[p].cmd
          BY <1>1, <4>1, <5>3 DEF Becomes, SetupTyped
        <5>5. QED BY <5>1, <5>2, <5>4
      <4>6. QED BY <4>3, <4>4, <4>5 DEF DaemonPlugins
    <3>6. QED BY <1>1, <1>2, <1>5, <1>7, <2>2, <3>4, <3>5, DaemonInv DEF Advance
  <2>3. QED BY <1>3, <2>1, <2>2
<1>8. QED
  BY <1>4, <1>6, <1>7 DEF DaemonNode, DaemonTLS, DaemonDial, DaemonRuntime, DaemonPlugins

\* A process that ends.
LEMMA ExitInv ==
    ASSUME SetupInv, NEW p \in Procs, NEW v \in {None, "ok", "failed", "fit"}, Exit(p, v),
           UNCHANGED <<files, ca, nodes, schema, issued, started, overlapped>>,
           \/ reset' = TRUE
           \/ reset' = reset /\ ~Pairing(p, 16)
    PROVE  SetupInv'
<1>1. PICK r \in ProcRecords : Becomes(p, r) /\ AtStart(r)
  BY IdleTyped DEF Exit, Becomes
<1>2. Grows /\ reset' \in BOOLEAN
  BY SameGrows DEF SetupInv, SetupTyped
<1>3. QED BY <1>1, <1>2, QuietStep DEF SetupInv, SetupTyped

\* A statement that fails, the last steps of diagnose and doctor, and a process that is killed.
LEMMA EndInv ==
    ASSUME SetupInv, NEW p \in Procs,
           StatementFails(p) \/ Diagnose(p) \/ Doctor(p) \/ Killed(p)
    PROVE  SetupInv'
<1>1. SetupTyped /\ proc[p] \in ProcRecords /\ Placed(proc[p])
  BY DEF SetupInv, SetupTyped, ProcInv
<1>2. Pairing(p, 16) => Op(p) = <<"write", "config">>
  BY <1>1, WritesConfig
<1>3. CASE StatementFails(p)
  <2>1. ~Pairing(p, 16)
    BY <1>2, <1>3 DEF StatementFails
  <2>2. Grows
    BY <1>1, <1>3, SameGrows DEF StatementFails
  <2>3. QED BY <1>3, <2>1, <2>2, FailInv DEF StatementFails
<1>4. CASE Diagnose(p)
  <2>1. ~Pairing(p, 16)
    BY <1>2, <1>4 DEF Diagnose, AtOp
  <2>2. \E v \in {None, "ok", "failed", "fit"} : Exit(p, v)
    BY <1>4 DEF Diagnose
  <2>3. QED BY <1>4, <2>1, <2>2, ExitInv DEF Diagnose
<1>5. CASE Doctor(p)
  <2>1. ~Pairing(p, 16)
    BY <1>2, <1>5 DEF Doctor, AtOp
  <2>2. \E v \in {None, "ok", "failed", "fit"} : Exit(p, v)
    BY <1>5 DEF Doctor
  <2>3. QED BY <1>5, <2>1, <2>2, ExitInv DEF Doctor
<1>6. CASE Killed(p)
  <2>1. CASE Pairing(p, 16)
    <3>1. reset' = TRUE
      BY <1>2, <1>6, <2>1 DEF Killed
    <3>2. QED BY <1>6, <3>1, ExitInv DEF Killed
  <2>2. CASE ~Pairing(p, 16)
    <3>1. reset' = TRUE \/ reset' = reset
      BY <1>1, <1>6 DEF Killed, SetupTyped
    <3>2. QED BY <1>6, <2>2, <3>1, ExitInv DEF Killed
  <2>3. QED BY <2>1, <2>2
<1>7. QED BY <1>3, <1>4, <1>5, <1>6

LEMMA RunInv ==
    ASSUME SetupInv, NEW p \in Procs, RunInstall(p) \/ RunConfigured(p)
    PROVE  SetupInv'
<1>1. CASE RunInstall(p)
  <2>1. ASSUME NEW addr \in Panels, Start(p, "install", addr) \/ Start(p, "elsewhere", addr)
        PROVE  SetupInv'
    BY <2>1, StartInv, CommandSet DEF Addrs
  <2>2. ASSUME Start(p, "token", DefaultAddr) \/ Start(p, "token", "elsewhere") PROVE SetupInv'
    BY <2>2, StartInv, CommandSet DEF Addrs
  <2>3. QED BY <1>1, <2>1, <2>2 DEF RunInstall
<1>2. CASE RunConfigured(p)
  <2>1. PICK cmd \in {"server", "check", "diagnose", "doctor", "daemon"},
             addr \in Load \ {"error"} : Start(p, cmd, addr)
    BY <1>2 DEF RunConfigured
  <2>2. files.config \in Addrs \cup {None, "torn", "elsewhere"} /\ DefaultAddr \in Addrs
    BY DEF SetupInv, SetupTyped, Addrs
  <2>3. addr \in Addrs
    BY <2>2 DEF Load
  <2>4. cmd \in Commands /\ cmd \notin {"install", "elsewhere", "token"}
    BY CommandSet
  <2>5. QED BY <2>1, <2>3, <2>4, StartInv
<1>3. QED BY <1>1, <1>2

-----------------------------------------------------------------------------
(* The invariant and what it gives.                                          *)

LEMMA SetupInitInv == SetupInit => SetupInv
<1> SUFFICES ASSUME SetupInit PROVE SetupInv
  OBVIOUS
<1> DEFINE FileSet == [key : Tokens \cup {None, "torn"}, cert : Tokens \cup {None, "torn"},
                       config : Addrs \cup {None, "torn", "elsewhere"}]
           Rows == [id : Tokens, addr : Panels, old : BOOLEAN]
<1>1. /\ proc = [p \in Procs |-> Idle] /\ schema \subseteq Pieces /\ started \in 0..MaxCommands
      /\ ca \in BOOLEAN /\ overlapped \in BOOLEAN /\ reset \in BOOLEAN
  <2>1. /\ proc = [p \in Procs |-> Idle] /\ schema \in Legacy /\ started = 0
        /\ ca = FALSE /\ overlapped = FALSE /\ reset = FALSE
    BY DEF SetupInit
  <2>2. MaxCommands \in Nat /\ Legacy \subseteq SUBSET Pieces
    BY SetupAssumption
  <2>3. schema \subseteq Pieces
    BY <2>1, <2>2
  <2>4. started \in 0..MaxCommands
    BY <2>1, <2>2
  <2>5. ca \in BOOLEAN /\ overlapped \in BOOLEAN /\ reset \in BOOLEAN
    BY <2>1, Zenon
  <2>6. QED BY <2>1, <2>3, <2>4, <2>5
<1>2. proc \in [Procs -> ProcRecords]
  BY <1>1, IdleTyped
<1>3. \A p \in Procs : proc[p] = Idle /\ proc[p].cmd \notin {"install", "elsewhere", "daemon"}
  BY <1>1, IdleTyped, CommandAssumption, CommandSet
<1>4. ASSUME NEW p \in Procs PROVE ProcInv(p)
  BY <1>3, IdleTyped DEF ProcInv, AtStart, Migrated, Informed
<1>5. \A p \in Procs, n \in {12, 14, 15, 16} : ~Pairing(p, n)
  BY <1>3 DEF Pairing
<1>6. ASSUME Unpaired PROVE SetupInv
  <2>1. /\ files = [key |-> None, cert |-> None, config |-> None] /\ nodes = <<>>
        /\ issued = [t \in Tokens |-> None]
    BY <1>6 DEF Unpaired
  <2>2. SetupTyped
    BY <1>1, <1>2, <2>1 DEF SetupTyped
  <2>3. PairInv /\ SchemaInv
    BY <1>5, <2>1 DEF PairInv, SchemaInv, Nowhere
  <2>4. QED BY <1>4, <2>2, <2>3 DEF SetupInv
<1>7. ASSUME PairedBefore PROVE SetupInv
  <2>1. PICK t \in Tokens, a \in Panels :
          /\ files = [key |-> t, cert |-> t, config |-> a]
          /\ nodes = << [id |-> t, addr |-> a, old |-> TRUE] >>
          /\ issued = [[u \in Tokens |-> None] EXCEPT ![t] = a]
    BY <1>7 DEF PairedBefore
  <2>2. files \in FileSet /\ files.key = t /\ files.cert = t /\ files.config = a
    BY <2>1 DEF Addrs
  <2>3. issued \in [Tokens -> Panels \cup {None}] /\ issued[t] = a
    BY <2>1
  <2>4. nodes \in Seq(Rows) /\ nodes # <<>> /\ Len(nodes) = 1
    <3> DEFINE row == [id |-> t, addr |-> a, old |-> TRUE]
    <3>1. row \in Rows
      OBVIOUS
    <3>2. nodes = <<row>>
      BY <2>1
    <3> HIDE DEF row, Rows
    <3>3. QED BY <3>1, <3>2
  <2>5. nodes[1].id = t /\ nodes[1].addr = a /\ nodes[1].old = TRUE
    BY <2>1
  <2>6. SetupTyped
    BY <1>1, <1>2, <2>2, <2>3, <2>4 DEF SetupTyped
  <2>7. PairInv /\ SchemaInv
    BY <1>5, <2>2, <2>3, <2>4, <2>5 DEF PairInv, SchemaInv
  <2>8. QED BY <1>4, <2>6, <2>7 DEF SetupInv
<1>8. QED BY <1>6, <1>7 DEF SetupInit

LEMMA StutterInv == SetupInv /\ UNCHANGED setupVars => SetupInv'
<1> SUFFICES ASSUME SetupInv, UNCHANGED setupVars PROVE SetupInv'
  OBVIOUS
<1>1. UNCHANGED <<files, ca, nodes, schema, issued, proc, started, overlapped, reset>>
  BY DEF setupVars
<1>2. SetupTyped'
  BY <1>1 DEF SetupInv, SetupTyped
<1>3. \A p \in Procs : ProcInv(p)'
  BY <1>1 DEF SetupInv, ProcInv, Placed, Migrated, Informed
<1>4. PairInv' /\ SchemaInv'
  BY <1>1 DEF SetupInv, PairInv, SchemaInv, Pairing
<1>5. QED BY <1>2, <1>3, <1>4 DEF SetupInv

LEMMA InstallCAInv == SetupInv /\ InstallCA => SetupInv'
<1> SUFFICES ASSUME SetupInv, InstallCA PROVE SetupInv'
  OBVIOUS
<1>1. UNCHANGED <<files, nodes, schema, issued, proc, started, overlapped, reset>> /\ ca' = TRUE
  BY DEF InstallCA
<1>2. SetupTyped'
  BY <1>1 DEF SetupInv, SetupTyped
<1>3. \A p \in Procs : ProcInv(p)'
  BY <1>1 DEF SetupInv, ProcInv, Placed, Migrated, Informed
<1>4. PairInv' /\ SchemaInv'
  BY <1>1 DEF SetupInv, PairInv, SchemaInv, Pairing
<1>5. QED BY <1>2, <1>3, <1>4 DEF SetupInv

LEMMA SetupNextInv == SetupInv /\ [SetupNext]_setupVars => SetupInv'
<1> SUFFICES ASSUME SetupInv, [SetupNext]_setupVars PROVE SetupInv'
  OBVIOUS
<1>1. ASSUME NEW p \in Procs, RunInstall(p) \/ RunConfigured(p) PROVE SetupInv'
  BY <1>1, RunInv
<1>2. ASSUME NEW p \in Procs, Step(p) PROVE SetupInv'
  <2>1. CASE Create(p) \/ FindColumn(p) \/ AddColumn(p)
    BY <2>1, MigrationStepInv
  <2>2. CASE StatementFails(p) \/ Diagnose(p) \/ Doctor(p)
    BY <2>2, EndInv
  <2>3. CASE CheckUnpaired(p)
    BY <2>3, CheckUnpairedInv
  <2>4. CASE Pair(p)
    BY <2>4, PanelPairInv
  <2>5. CASE WriteFile(p)
    BY <2>5, WriteFileInv
  <2>6. CASE SaveNode(p)
    BY <2>6, SaveNodeInv
  <2>7. CASE DaemonNode(p) \/ DaemonTLS(p) \/ DaemonDial(p) \/ DaemonRuntime(p) \/ DaemonPlugins(p)
    BY <2>7, DaemonStepInv
  <2>8. QED BY <1>2, <2>1, <2>2, <2>3, <2>4, <2>5, <2>6, <2>7 DEF Step
<1>3. ASSUME NEW p \in Procs, Killed(p) PROVE SetupInv'
  BY <1>3, EndInv
<1>4. QED BY <1>1, <1>2, <1>3, InstallCAInv, StutterInv DEF SetupNext

\* The inductive invariant holds throughout: it is what the three theorems rest on.
LEMMA SetupInvCorrect == SetupSpec => []SetupInv
<1>1. QED BY SetupInitInv, SetupNextInv, PTL DEF SetupSpec

\* Files, rows, schema and processes keep their types and every process of the oikos
\* command stands at a step of its program.
THEOREM SetupTypeCorrect == SetupSpec => []SetupTypeOK
<1>1. SetupInv => SetupTypeOK
  BY DEF SetupInv, SetupTyped, SetupTypeOK, ProcInv, Placed, ProcRecords
<1>2. QED BY <1>1, SetupInvCorrect, PTL

\* A node row stands for a usable identity, whatever fails or is killed and however many
\* processes run, as long as no two installs pair at the same time and none pairs another
\* data directory: PairWithPanel and what reads its row, key and certificate.
THEOREM NodeHasIdentityCorrect == SetupSpec => []NodeHasIdentity
<1>1. SetupInv => NodeHasIdentity
  <2> SUFFICES ASSUME SetupInv, nodes # <<>>, ~overlapped
               PROVE  /\ Len(nodes) = 1
                      /\ KeyPairLoads
                      /\ files.cert = GetNode.id
                      /\ issued[GetNode.id] = GetNode.addr
                      /\ \A p \in Procs : proc[p].cmd = "daemon" /\ proc[p].pc > 2
                                           => proc[p].token = GetNode.id
    BY DEF NodeHasIdentity
  <2>1. GetNode = nodes[1] /\ nodes[1].id \in Tokens
    BY FirstNode DEF SetupInv
  <2>2. /\ Len(nodes) = 1 /\ issued[nodes[1].id] = nodes[1].addr
        /\ files.key = nodes[1].id /\ files.cert = nodes[1].id
    BY DEF SetupInv, PairInv
  <2>3. \A p \in Procs : proc[p].cmd = "daemon" /\ proc[p].pc > 2 => proc[p].token = nodes[1].id
    BY DEF SetupInv, ProcInv, Informed
  <2>4. QED BY <2>1, <2>2, <2>3 DEF KeyPairLoads
<1>2. QED BY <1>1, SetupInvCorrect, PTL

\* A paired node is complete, as far as what runs on it needs it, whether this oikos or
\* an older one paired it: Migrate before PairWithPanel's check, what the daemon finds on
\* its way through runDaemon, and a config.yaml that names no Panel but that of the row.
THEOREM PairedCompleteCorrect == SetupSpec => []PairedComplete
<1>1. SetupInv => PairedComplete
  <2> SUFFICES ASSUME SetupInv PROVE PairedComplete
    OBVIOUS
  <2>1. ASSUME NEW p \in Procs, proc[p].cmd = "install", proc[p].pc > Len(Migrate)
        PROVE  Pieces \ {"tunnels"} \subseteq schema
    <3>1. proc[p].pc \in Nat /\ proc[p].pc > 10
      BY <2>1, MigrateSteps DEF SetupInv, SetupTyped, ProcRecords
    <3>2. {"base", "events", "restart_count", "last_crash_at", "backups", "plugins",
           "plugin_columns"} \subseteq schema
      BY <2>1, <3>1 DEF SetupInv, ProcInv, Migrated
    <3>3. QED BY <3>2 DEF Pieces
  <2>2. nodes # <<>> /\ ~GetNode.old => Pieces \ {"tunnels"} \subseteq schema
    BY FirstNode DEF SetupInv, SchemaInv
  <2>3. ASSUME NEW p \in Procs, proc[p].cmd = "daemon"
        PROVE  /\ proc[p].pc > 2 => {"base", "tunnels"} \subseteq schema
               /\ proc[p].pc > 6 => {"plugins", "plugin_columns"} \subseteq schema
    <3>1. proc[p].pc \in Nat /\ Informed(proc[p])
      BY DEF SetupInv, SetupTyped, ProcRecords, ProcInv
    <3>2. QED BY <2>3, <3>1 DEF Informed
  <2>4. ASSUME nodes # <<>>, ~overlapped
        PROVE  files.config \in {GetNode.addr, DefaultAddr, "elsewhere", None, "torn"}
    BY <2>4, FirstNode DEF SetupInv, PairInv, Nowhere
  <2>5. ASSUME nodes # <<>>, ~overlapped, ~reset, \A p \in Procs : Op(p) # <<"write", "config">>
        PROVE  files.config = GetNode.addr
    <3>1. GetNode = nodes[1]
      BY <2>5, FirstNode DEF SetupInv
    <3>2. ASSUME NEW p \in Procs PROVE ~Pairing(p, 16)
      <4>1. proc[p] \in ProcRecords /\ Placed(proc[p])
        BY DEF SetupInv, SetupTyped, ProcInv
      <4>2. QED BY <2>5, <4>1, WritesConfig
    <3>3. QED BY <2>5, <3>1, <3>2 DEF SetupInv, PairInv
  <2>6. QED BY <2>1, <2>2, <2>3, <2>4, <2>5 DEF PairedComplete
<1>2. QED BY <1>1, SetupInvCorrect, PTL

=============================================================================
