SPECIFICATION Spec
CONSTANTS
  p1 = p1  p2 = p2
  f1 = f1  f2 = f2
  c1 = c1  c2 = c2
  s1 = s1  s2 = s2  s3 = s3
  Absent = Absent
  NoRow = NoRow
  Profiles = {p1, p2}
  Paths = {f1}
  Contents = {c1}
  Backups = {s1, s2, s3}
  Chunks = 2
  MaxEdits = 0
SYMMETRY MCSymmetry
INVARIANTS
  OneBackupPerProfile
  OwnFilesOnly
