CONSTANTS
    None = None
    Servers = {s1, s2}
    Ports = {p1}
    Faults = {"panel", "db", "io", "frpc", "fk", "crash"}
    MaxClosers = 1
SPECIFICATION TunnelSpec
SYMMETRY Perms
INVARIANTS PanelAgrees MappedHasRow ReloadTakesEffect
