SPECIFICATION Spec
CONSTANTS
  Path = {p1, p2}
  Thread = {t1, t2}
  Ino = {i1, i2, i3, i4}
  Fd = {f1, f2}
  p1 = p1  p2 = p2
  t1 = t1  t2 = t2  t3 = t3
  i1 = i1  i2 = i2  i3 = i3  i4 = i4  i5 = i5
  f1 = f1  f2 = f2  f3 = f3
  a = a  b = b  c = c  d = d
  Chunk = {a, b, c}
  Content <- MCContent
  NoIno = NoIno
  Hole = Hole
  NoReply = NoReply
  MaxReply = 2
  Faults = {"cut", "clobber"}
SYMMETRY SymAll
INVARIANTS PublishedPrefix TempOwned DescriptorsHeld DownloadsUnmixed NamesDistinct
PROPERTIES PathsPersist
