SPECIFICATION FairSpec
CONSTANTS
  Path = {p1}
  Thread = {t1, t2}
  Ino = {i1, i2}
  Fd = {f1, f2}
  p1 = p1  p2 = p2
  t1 = t1  t2 = t2  t3 = t3
  i1 = i1  i2 = i2  i3 = i3  i4 = i4  i5 = i5
  f1 = f1  f2 = f2  f3 = f3
  a = a  b = b  c = c  d = d
  Chunk = {a}
  Content <- MCContentShort
  NoIno = NoIno
  Hole = a
  NoReply = NoReply
  MaxReply = 3
  Faults = {"overlap", "cut", "clobber", "stray", "wronly"}

VIEW LiveView
INVARIANTS TypeOK NamesDistinct
PROPERTIES PathsPersist CallsReturn
