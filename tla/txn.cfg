SPECIFICATION Spec
CONSTANTS
  None = None
  Handlers = {h1, h2}
  DBs = {d1}
  Existing = {d1}
  Sessions = {s1, s2}
  Writes = {w1, w2}
  Unions = {}
  QueueCap = 1
  MaxCrashes = 1
  MaxCacheFaults = 0
  Calls = {"write", "begin", "exec", "commit"}
SYMMETRY Symmetry
INVARIANTS UncommittedInvisible CommitAllOrNothing CommitOnce LocksReleased
