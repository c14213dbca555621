--------------------------- MODULE MCBackupCatalog ---------------------------
(* Small instances of the backup catalog for TLC. *)
EXTENDS BackupCatalog, TLC

CONSTANTS p1, p2, f1, f2, c1, c2, s1, s2, s3

MCSymmetry == Permutations(Profiles) \cup Permutations(Paths)
                \cup Permutations(Contents) \cup Permutations(Backups)
==============================================================================
