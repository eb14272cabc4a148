SPECIFICATION Spec
CONSTANTS
  t1 = t1
  t2 = t2
  empty = empty
  hash = hash
  raw = raw
  typed = typed
  kept = kept
  Tables = {t1, t2}
  RowIds <- OneRowId
  Texts = {empty, hash, raw, typed, kept}
  Empty = empty
  StoredAs <- SomeConverted
  Placeholder = hash
  Unprintable = {raw}
  Null = Null
  Absent = Absent
  Gone = Gone
  Star = Star
  NoTable = NoTable
  Droppable = {}
  IntBits = 3
  Faults = {"open"}
  UserSql = {"query", "write", "begin", "commit", "rollback"}
PROPERTIES
  ImplementsEditSession
