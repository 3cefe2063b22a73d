SPECIFICATION Spec
CONSTANTS
  None = None
  Handlers = {h1, h2, h3}
  DBs = {d1}
  Existing = {d1}
  Sessions = {}
  Writes = {w1, w2}
  Unions = {u1}
  QueueCap = 1
  MaxCrashes = 1
  MaxCacheFaults = 0
  Calls = {"select", "write"}
INVARIANTS TypeOK AckedWritesDurable ErrorLeavesNoTrace OneJobPerWaiter
PROPERTIES ImplementsSerial
