CONSTANTS
    None = None
    Servers = {s1}
    Containers = {c1, c2}
    Callers = {p1, h1, h2}
    CliCallers = {}
    Healers = {h1, h2}
    MaxRetries = 1
    BusCap = 1
    Faults = {"db", "runtime", "crash"}
SPECIFICATION Spec
SYMMETRY Perms
INVARIANTS RestartsBounded NoStaleMark
PROPERTY LifeSpec
