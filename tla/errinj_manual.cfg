SPECIFICATION FairSpec
CONSTANTS
  NULL = NULL
  Absent = Absent
  Unreadable = Unreadable
  Nobody = Nobody
  Freed = Freed
  p1 = p1  cfile = cfile
  c1 = c1  c2 = c2
  Caller = {c1, c2}
  Op = {"fsync", "fallocate", "release"}
  Path = {p1, cfile}
  ConfPath = cfile
  File <- MCNever
  PastEnd = {"pass", "fcntl"}
  MaxProbability = 2
  MaxNsec = 1
  Width = 8
PROPERTY ImplementsManual
