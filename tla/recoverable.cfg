SPECIFICATION Spec
CONSTANTS
  t1 = t1
  t2 = t2
  empty = empty
  hash = hash
  raw = raw
  typed = typed
  kept = kept
  Tables = {t1, t2}
  RowIds <- OneRowId
  Texts = {empty, hash}
  Empty = empty
  StoredAs <- AsTyped
  Placeholder = hash
  Unprintable = {}
  Null = Null
  Absent = Absent
  Gone = Gone
  Star = Star
  NoTable = NoTable
  Droppable = {t1, t2}
  IntBits = 3
  Faults = {"abort", "busy", "blob", "open"}
  UserSql = {"query", "write"}
SYMMETRY Symmetry
INVARIANTS
  FlagMeansTransaction
  
PROPERTIES
  SavedOnlyOnRequest
