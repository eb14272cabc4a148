SPECIFICATION Spec
CONSTANTS
  t1 = t1
  t2 = t2
  empty = empty
  hash = hash
  raw = raw
  typed = typed
  kept = kept
  Tables = {t1}
  RowIds <- WideRowIds
  Texts = {empty, hash}
  Empty = empty
  StoredAs <- AsTyped
  Placeholder = hash
  Unprintable = {}
  Null = Null
  Absent = Absent
  Gone = Gone
  Star = Star
  NoTable = NoTable
  Droppable = {}
  IntBits = 3
  Faults = {}
  UserSql = {"query", "write", "begin", "commit", "rollback"}
PROPERTY EditsStayInTheirRow
