CONSTANTS
    Plugins = {1, 2}
    Types = {e1, e2}
    Allowed <- AllowFirst
    Routed = {1}
    Handlers = {1}
    MaxQueue = 1
    Faults = {"plugin", "exec", "db", "slow", "crash"}
SPECIFICATION PluginFairSpec
INVARIANTS StopQuiesces CleanShutdown
PROPERTIES StopCompletes StartEnds SickPluginDisabled
