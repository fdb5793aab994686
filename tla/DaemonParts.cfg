CONSTANTS
    Servers = {s1, s2}
    MaxEvents = 5
    MaxQueue = 2
    MaxRuns = 2
    QueryLimit = 2
    NoServer = NoServer
    Faults = {"db", "fk"}
    Monitored = {s1, s2}
    MaxChanges = 4
    Starters = {c1, c2}
    Limits <- FourLimits
    MaxTurns = 5
    LimitFaults = {"db", "runtime", "cgroup", "io"}
    NoLimits = NoLimits
    Assigners = {c1, c2}
    Nodes = {n1, n2}
    Ips = {i1, i2}
    BadIp = bad
    GroupNames = {g1, g2}
    MaxAssigns = 3
    MaxMembers = 2
    NoGroup = NoGroup
SPECIFICATION PartsSpec
INVARIANTS PartsTypeOK RecordedOnce WholeSnapshot LimitsEnforced MembersOfOne
PROPERTIES RowsStay CatchesUp
CHECK_DEADLOCK FALSE
