SPECIFICATION Spec
CONSTANTS
  t1 = t1
  t2 = t2
  empty = empty
  hash = hash
  raw = raw
  typed = typed
  kept = kept
  Tables = {t1}
  RowIds <- SmallRowIds
  Texts = {empty, hash, raw, typed}
  Empty = empty
  StoredAs <- SomeConverted
  Placeholder = hash
  Unprintable = {raw}
  Null = Null
  Absent = Absent
  Gone = Gone
  Star = Star
  NoTable = NoTable
  Droppable = {}
  IntBits = 3
  Faults = {"open"}
  UserSql = {"query", "write", "begin", "commit", "rollback"}
INVARIANTS
  GridMatchesDatabase
  UnmarkedCellsAreSaved
PROPERTIES
  EditsStayInTheirRow
  CommitSavesWhatIsShown
