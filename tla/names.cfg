SPECIFICATION Spec
CONSTANTS
  None = None
  Handlers = {h1, h2}
  DBs = {d1, d2}
  Existing = {d1}
  Sessions = {}
  Writes = {w1}
  Unions = {}
  QueueCap = 1
  MaxCrashes = 1
  MaxCacheFaults = 1
  Calls = {"select", "write", "create", "delete"}
SYMMETRY Symmetry
INVARIANTS StoredBeforeReferenced OwnVersions OneCreator AckedDatabaseLoadable
