CONSTANTS
    MaxSessions = 2
    MaxCommands = 2
    MaxCalls = 2
    SessionFaults = {"tls", "listen", "call"}
SPECIFICATION SessionFairSpec
INVARIANTS CommandsOneByOne
PROPERTIES ShutdownCompletes GoroutinesEnd SessionRestored
