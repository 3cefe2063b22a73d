SPECIFICATION FairSpec
CONSTANTS
  None = None
  Handlers = {h1, h2, h3}
  DBs = {d1}
  Existing = {d1}
  Sessions = {s1}
  Writes = {w1}
  Unions = {u1, u2, u3}
  QueueCap = 1
  MaxCrashes = 0
  MaxCacheFaults = 0
  Calls = {"begin", "exec", "commit", "rollback", "write"}
ACTION_CONSTRAINT InScenes
CHECK_DEADLOCK FALSE
PROPERTIES EveryCallAnswered SessionsEnd
