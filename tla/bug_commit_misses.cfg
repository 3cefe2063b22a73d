SPECIFICATION Spec
CONSTANTS
  None = None
  Handlers = {h1, h2}
  DBs = {d1}
  Existing = {d1}
  Sessions = {s1}
  Writes = {w1}
  Unions = {}
  QueueCap = 1
  MaxCrashes = 0
  MaxCacheFaults = 0
  Calls = {"begin", "exec", "commit"}
INVARIANTS CommitSavesAll
