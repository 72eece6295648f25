--------------------------- MODULE MCBackupEngine ---------------------------
EXTENDS BackupEngine, TLC

\* Processes and files are interchangeable.
Symmetry == Permutations(Procs) \cup Permutations(Files)
=============================================================================
