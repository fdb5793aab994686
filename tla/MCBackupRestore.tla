--------------------------- MODULE MCBackupRestore ---------------------------
EXTENDS BackupRestore, TLC

Perms == Permutations(Ops) \cup Permutations(Files) \cup Permutations(Backups)
=============================================================================
