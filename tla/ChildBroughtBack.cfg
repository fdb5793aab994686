CONSTANTS
    None = None
    Servers = {s1}
    Ports = {p1}
    Faults = {}
    MaxClosers = 1
SPECIFICATION TunnelFairSpec
PROPERTY ChildBroughtBack
