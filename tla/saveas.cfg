SPECIFICATION Spec
CONSTANTS
  f = f
  g = g
  blank = blank
  doc = doc
  other = other
  Files = {f, g}
  Memory = Memory
  Docs = {blank, doc}
  Blank = blank
  Nothing = Nothing
  OpenMayFail = FALSE
  BackupMayFail = FALSE
  MaxRecentFiles = 1
SYMMETRY Symmetry
PROPERTY SaveAsKeepsTheDatabase
