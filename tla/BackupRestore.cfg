CONSTANTS
    None = None
    Servers = {t1}
    Backups = {b1}
    Ops = {p1, p2}
    Files = {f1, f2}
    Contents = {x, fifo}
    Special = {fifo}
    Checked = FALSE
    Faults = {"db", "io", "crash"}
SPECIFICATION BackupSpec
SYMMETRY Perms
INVARIANTS CompletedHasArchive StagingIsArchive
PROPERTY SafetyNet
