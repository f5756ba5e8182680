SPECIFICATION FairSpec
CONSTANTS
  Client = {c1}
  App = {a1, a2}
  Home <- MCHome
  Path = {p1}
  Ino = {i1, i2}
  Fd = {f1, f2}
  Chunk = {x}
  c1 = c1  c2 = c2
  a1 = a1  a2 = a2  a3 = a3
  p1 = p1  p2 = p2
  i1 = i1  i2 = i2  i3 = i3  i4 = i4
  f1 = f1  f2 = f2
  x = x  y = y
  Hole = Hole
  NoIno = NoIno
  NoFd = NoFd
  Zero = Zero
  MaxLen = 2
  MaxSem = 2
  Faults = {"shared", "dup", "vanish", "down", "crash", "truncate",
            "refused", "lost", "disk"}
SYMMETRY LiveSym
VIEW LengthView
INVARIANTS TypeOK OneLibraryCall
PROPERTIES OperationsReturn
