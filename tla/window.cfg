SPECIFICATION Spec
CONSTANTS
  f = f
  g = g
  blank = blank
  doc = doc
  other = other
  Files = {f, g}
  Memory = Memory
  Docs = {blank, doc, other}
  Blank = blank
  Nothing = Nothing
  OpenMayFail = TRUE
  BackupMayFail = TRUE
  MaxRecentFiles = 1
SYMMETRY Symmetry
INVARIANTS
  WindowTypeOK
  OpenIsOnDisk
PROPERTIES
  FilesChangeOnRequest
