SPECIFICATION Spec
CONSTANTS
  p1 = p1  p2 = p2
  f1 = f1  f2 = f2
  c1 = c1  c2 = c2
  s1 = s1  s2 = s2  s3 = s3
  Absent = Absent
  NoRow = NoRow
  Profiles = {p1}
  Paths = {f1, f2}
  Contents = {c1, c2}
  Backups = {s1, s2}
  Chunks = 2
  MaxEdits = 1
SYMMETRY MCSymmetry
INVARIANTS
  TypeOK
  CompletedCoversScan
  DamageNeedsInterruption
  Reconciled
