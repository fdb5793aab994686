---------------------------- MODULE NetworkGroups ----------------------------
(***************************************************************************)
(* The private network of a group of nodes: internal/tunnel/mesh.go over    *)
(* the tables network_groups and network_group_members                      *)
(* (internal/store/sqlite.go).                                              *)
(*                                                                         *)
(* Assign saves the group and replaces its members in two statements with   *)
(* checks between them, without a lock; the replacement is a transaction of  *)
(* a DELETE and one INSERT per member.  SQLite lets one connection write at  *)
(* a time; no busy timeout is set, so a statement that finds another in its   *)
(* way fails.  One group is modelled: no operation reads or writes two.       *)
(***************************************************************************)
EXTENDS Naturals, FiniteSets

CONSTANTS Assigners,  \* callers
          Nodes,      \* ids of nodes
          Ips,        \* private addresses
          BadIp,      \* an address ParseAddr rejects
          GroupNames, \* names of the group
          MaxAssigns, \* bound: calls
          MaxMembers, \* bound: members of a list
          NoGroup     \* no value

ASSUME GroupsAssumption ==
    MaxAssigns \in Nat /\ MaxMembers \in Nat /\ NoGroup \notin Assigners

\* A list of members, as a set of pairs; the order does not matter here.
MemberLists == {l \in SUBSET (Nodes \X (Ips \cup {BadIp})) : Cardinality(l) <= MaxMembers}

VARIABLES
    group,    \* name of the group, or NoGroup
    members,  \* rows of network_group_members, as other connections see them
    assign,   \* the calls of Assign under way: step, list and members still to insert
    tx,       \* the call whose transaction holds the write lock, or NoGroup
    work,     \* the rows as that transaction sees them
    stored,   \* history: the list of the last assignment that returned nil
    released, \* history: nodes released since
    assigns   \* calls so far

groupVars == <<group, members, assign, tx, work, stored, released, assigns>>

IdleAssign == [pc |-> "idle", list |-> {}, left |-> {}]

AssignCall == assigns < MaxAssigns /\ assigns' = assigns + 1

\* A group without a name, or an assignment with a bad endpoint, is turned down
\* before anything is written.
validateAssignment(name) == name # NoGroup

\* Assign: the name is saved at once.
SaveNetworkGroup(c, name, list) ==
    /\ AssignCall
    /\ assign[c].pc = "idle" /\ validateAssignment(name)
    /\ tx = NoGroup
    /\ assign' = [assign EXCEPT ![c] = [pc |-> "members", list |-> list, left |-> list]]
    /\ group' = name
    /\ UNCHANGED <<members, tx, work, stored, released>>

Valid(list) == \A m \in list : m[2] # BadIp

\* PRIMARY KEY (group_id, node_id) and UNIQUE (group_id, private_ip).
Distinct(list) == \A m, n \in list : m[1] = n[1] \/ m[2] = n[2] => m = n

\* A list or the rows as the addresses of nodes; Members reads the rows.
Addresses(list) == [n \in {m[1] : m \in list} |-> {m[2] : m \in {l \in list : l[1] = n}}]
Members == Addresses(members)

AssignFails(c) ==
    /\ assign' = [assign EXCEPT ![c] = IdleAssign]
    /\ tx' = IF tx = c THEN NoGroup ELSE tx
    /\ work' = IF tx = c THEN {} ELSE work
    /\ UNCHANGED <<members, stored, released>>

\* The members are checked one by one, the transaction begins and deletes the old
\* ones.
ReplaceNetworkGroupMembers(c) ==
    /\ assign[c].pc = "members"
    /\ \/ /\ Valid(assign[c].list) /\ tx = NoGroup
          /\ tx' = c /\ work' = {}
          /\ assign' = [assign EXCEPT ![c].pc = "insert"]
          /\ UNCHANGED <<members, stored, released>>
       \/ AssignFails(c)
    /\ UNCHANGED <<group, assigns>>

\* MUTANT: INSERT OR IGNORE.
InsertMemberIgnores(c) ==
    /\ assign[c].pc = "insert"
    /\ \E m \in assign[c].left :
         /\ work' = IF Distinct(work \cup {m}) THEN work \cup {m} ELSE work
         /\ assign' = [assign EXCEPT ![c].left = @ \ {m}]
    /\ UNCHANGED <<group, members, tx, stored, released, assigns>>

\* One INSERT.  A node or an address that comes twice, a node that is not in the
\* table nodes on a connection that enforces foreign keys, or a database error
\* rolls the transaction back.
InsertMember(c) ==
    /\ assign[c].pc = "insert"
    /\ \E m \in assign[c].left :
         \/ /\ Distinct(work \cup {m})
            /\ work' = work \cup {m}
            /\ assign' = [assign EXCEPT ![c].left = @ \ {m}]
            /\ UNCHANGED <<members, tx, stored, released>>
         \/ AssignFails(c)
    /\ UNCHANGED <<group, assigns>>

Commit(c) ==
    /\ assign[c].pc = "insert" /\ assign[c].left = {}
    /\ \/ /\ members' = work /\ stored' = assign[c].list /\ released' = {}
          /\ tx' = NoGroup /\ work' = {}
          /\ assign' = [assign EXCEPT ![c] = IdleAssign]
       \/ AssignFails(c)
    /\ UNCHANGED <<group, assigns>>

Release(node) ==
    /\ AssignCall
    /\ tx = NoGroup
    /\ members' = {m \in members : m[1] # node}
    /\ released' = released \cup {node}
    /\ UNCHANGED <<group, assign, tx, work, stored>>

\* The daemon dies: a transaction that was not committed never was.
AssignersDie ==
    /\ assign' = [c \in Assigners |-> IdleAssign]
    /\ tx' = NoGroup /\ work' = {}
    /\ UNCHANGED <<group, members, stored, released, assigns>>

GroupsInit ==
    /\ group = NoGroup /\ members = {} /\ assign = [c \in Assigners |-> IdleAssign]
    /\ tx = NoGroup /\ work = {} /\ stored = {} /\ released = {} /\ assigns = 0

GroupsNext ==
    \/ \E c \in Assigners, name \in GroupNames \cup {NoGroup}, list \in MemberLists :
         SaveNetworkGroup(c, name, list)
    \/ \E c \in Assigners : ReplaceNetworkGroupMembers(c) \/ InsertMember(c) \/ Commit(c)
    \/ \E node \in Nodes : Release(node)
    \/ AssignersDie

-----------------------------------------------------------------------------
\* Type invariant of tables and calls.
GroupsTypeOK ==
    /\ group \in GroupNames \cup {NoGroup}
    /\ members \subseteq Nodes \X Ips /\ Distinct(members)
    /\ \A c \in Assigners : /\ assign[c].pc \in {"idle", "members", "insert"}
                            /\ assign[c].list \in MemberLists /\ assign[c].left \subseteq assign[c].list
    /\ tx \in Assigners \cup {NoGroup} /\ work \subseteq Nodes \X Ips
    /\ released \subseteq Nodes /\ assigns \in 0..MaxAssigns

\* What Members returns is the list of one assignment that succeeded, without the
\* nodes released since: never a mixture of two lists and never a part of one,
\* whatever calls overlap, fail half-way or die with the daemon.  (The name of the
\* group is not covered: it is saved before the members are even checked.)
MembersOfOne == Members = Addresses({m \in stored : m[1] \notin released})

=============================================================================
