SPECIFICATION Spec
CONSTANTS
  t1 = t1
  t2 = t2
  empty = empty
  hash = hash
  raw = raw
  typed = typed
  kept = kept
  Tables = {t1}
  RowIds <- SmallRowIds
  Texts = {empty, hash}
  Empty = empty
  StoredAs <- AsTyped
  Placeholder = hash
  Unprintable = {}
  Null = Null
  Absent = Absent
  Gone = Gone
  Star = Star
  NoTable = NoTable
  Droppable = {}
  IntBits = 3
  Faults = {"abort"}
  UserSql = {"query", "write", "begin", "commit", "rollback"}
INVARIANT GatePassedMeansNoTransaction
