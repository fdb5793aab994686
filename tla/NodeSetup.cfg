CONSTANTS
    Procs = {p1, p2}
    Tokens = {t1, t2}
    Panels = {a1, a2}
    DefaultAddr = DefaultAddr
    Legacy <- MCLegacy
    MaxCommands = 3
    Faults = {"db", "io", "net", "env", "kill"}
    None = None
SYMMETRY Perms
SPECIFICATION SetupSpec
INVARIANTS SetupTypeOK NodeHasIdentity PairedComplete
CHECK_DEADLOCK FALSE
