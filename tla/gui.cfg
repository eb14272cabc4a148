SPECIFICATION MCSpec
CONSTANTS
  mode = mode
  like = like
  on = on
  off = off
  wal = wal
  none = none
  Pragmas = {mode, like}
  Values = {on, off, wal}
  On = On
  Off = Off
  Yes = Yes
  Texts = {On, Off, Yes, none}
  NoText = none
  TextFor <- TextForSmall
  Meaning <- MeaningSmall
  FirstText <- AllSayOff
  Refused = {none}
  WriteOnly = {like}
  NoChange = NoChange
  Levels = {0, 1}
  Lines <- SmallLines
  MaxLine = 3
  DefaultQuery <- EmptyLine
  Separators = {" "}
  Keywords <- SmallKeywords
  toUpper <- Capital
  Strings <- SmallStrings
  Results <- SmallResults
  NoItem = NoItem
  NoString = NoString
  Typed <- SmallTyped
  asInt <- Ints
  asLongLong <- LongLongs
  asDouble <- Doubles
  Bytes <- SmallBytes
  Zero = 0
  FileData <- SmallFiles
  CellData <- SmallCells
  MaxBytes = 13
  Chunk = 2
  IntSpan = 12
INVARIANTS
  GuiTypeOK
  RecordedIsShown
  TimerHasDatabase
  BlueAreKeywords
  RowsShowTheirValues
  
  IntegersAreExact
  ImportStoresFile
  ExportDeliversCell
PROPERTIES
  SaveOnlyEdited
  NumbersFollow
  SlotsReturn
CHECK_DEADLOCK FALSE
