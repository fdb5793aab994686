CONSTANTS
    None = None
    Servers = {s1, s2}
    Containers = {c1, c2}
    Callers = {p1, h1}
    CliCallers = {}
    Healers = {h1}
    MaxRetries = 1
    BusCap = 1
    MaxCommanded = 1
    Faults = {"db"}
SPECIFICATION LiveSpec
PROPERTIES CrashHandled HealingStops
