CONSTANTS
    None = None
    Servers = {s1, s2}
    Containers = {c1, c2}
    Callers = {p1, p2}
    CliCallers = {p2}
    Faults = {"db", "runtime", "limits", "tunnel", "crash"}
SPECIFICATION LifeSpec
SYMMETRY Perms
INVARIANTS UndisturbedAgree OwnContainersOnly
