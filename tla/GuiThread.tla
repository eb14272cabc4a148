----------------------------- MODULE GuiThread ------------------------------
(***************************************************************************)
(* The parts beside the grid, in the one GUI thread they share: the pragma *)
(* dialog, the memory dialog, the SQL editor and its results, and the      *)
(* slots that copy a cell from or to a file.  A slot runs to its end       *)
(* before anything else happens, the timer included; the database widget's *)
(* signals active() and inactive() reach every part within one slot.       *)
(***************************************************************************)
EXTENDS Integers, Sequences

CONSTANTS
  Pragmas, Values, Texts, NoText, TextFor, FirstText, Refused, Meaning, WriteOnly, NoChange,
  Levels,
  Lines, DefaultQuery, Separators, Keywords, toUpper,
  Strings, Results, NoItem,
  Typed, NoString, asInt, asLongLong, asDouble,
  Bytes, Zero, FileData, CellData, Chunk, IntSpan

VARIABLES
  running,
  pragmasActive, pragma, text, connected, m_pragmaChanges, saveEnabled,
  pragmasShown, edited, asShown,
  m_pDb, memoryActive, memoryShown, timer, used, high, numbers, readAtShow,
  enabled, line, blue,
  m_columns, m_rows, items,
  typed, bound,
  job, answer, file, cell, offset, touched

PragmaDialog ==
  INSTANCE PragmaDialog WITH m_isActive <- pragmasActive, shown <- pragmasShown

MemoryDialog ==
  INSTANCE MemoryDialog WITH m_isActive <- memoryActive, shown <- memoryShown

QueryWidget == INSTANCE QueryWidget

ResultSet == INSTANCE ResultSet

CellValue == INSTANCE CellValue

CellFile == INSTANCE CellFile

ASSUME GuiAssumption ==
  /\ PragmaDialog!PragmaAssumption /\ MemoryDialog!LevelsAssumption /\ CellFile!CellFileAssumption
  /\ QueryWidget!LinesAssumption /\ ResultSet!ResultsAssumption /\ CellValue!TextsAssumption

pragmaVars == <<pragmasActive, pragma, text, connected, m_pragmaChanges, saveEnabled,
                pragmasShown, edited, asShown>>
memoryVars == <<m_pDb, memoryActive, memoryShown, timer, used, high, numbers, readAtShow>>
queryVars == <<enabled, line, blue>>
resultVars == <<m_columns, m_rows, items>>
valueVars == <<typed, bound>>
fileVars == <<job, answer, file, cell, offset, touched>>
vars ==
  <<running, pragmaVars, memoryVars, queryVars, resultVars, valueVars, fileVars>>

Init ==
  /\ PragmaDialog!Init /\ MemoryDialog!Init
  /\ QueryWidget!Init /\ ResultSet!Init /\ CellValue!Init /\ CellFile!Init

\* The GUI thread is in no slot that takes its time.
Between == CellFile!Idle /\ UNCHANGED fileVars

-----------------------------------------------------------------------------
\* openDatabase() does nothing when a database is open.
openDatabase ==
  /\ Between /\ ~m_pDb
  /\ PragmaDialog!active /\ MemoryDialog!active /\ QueryWidget!active
  /\ UNCHANGED <<resultVars, valueVars>>

\* Variant: the memory dialog is not told.
CloseForgetsDialog ==
  /\ Between
  /\ PragmaDialog!inactive /\ QueryWidget!inactive /\ ResultSet!Clear /\ CellValue!Clear
  /\ UNCHANGED memoryVars

closeDatabase ==
  /\ Between
  /\ PragmaDialog!inactive /\ MemoryDialog!inactive
  /\ QueryWidget!inactive /\ ResultSet!Clear /\ CellValue!Clear

\* saveAsDatabase(): closeDatabase() and openDatabase()
saveAsDatabase ==
  /\ Between
  /\ PragmaDialog!active /\ MemoryDialog!Inactive(TRUE)
  /\ QueryWidget!Inactive(TRUE) /\ ResultSet!Clear /\ CellValue!Clear

PragmaSlot ==
  /\ Between /\ PragmaDialog!Slots
  /\ UNCHANGED <<memoryVars, queryVars, resultVars, valueVars>>

MemorySlot ==
  /\ Between /\ MemoryDialog!Slots
  /\ UNCHANGED <<pragmaVars, queryVars, resultVars, valueVars>>

\* A timeout that is due waits for the slot that is running.
tick ==
  /\ Between /\ MemoryDialog!tick
  /\ UNCHANGED <<pragmaVars, queryVars, resultVars, valueVars>>

Edit(l) ==
  /\ Between /\ QueryWidget!Edit(l)
  /\ UNCHANGED <<pragmaVars, memoryVars, resultVars, valueVars>>

Execute(result) ==
  /\ Between /\ m_pDb /\ ResultSet!Execute(result)
  /\ UNCHANGED <<pragmaVars, memoryVars, queryVars, valueVars>>

\* A cell of the grid is edited, or a new row saved.
Save(t) ==
  /\ Between /\ m_pDb /\ CellValue!Save(t)
  /\ UNCHANGED <<pragmaVars, memoryVars, queryVars, resultVars>>

\* The grid's slots insertFileContents(), exportCellContents() and the viewer's
\* useCell() are there while a table is on show.
FileSlot ==
  /\ m_pDb /\ CellFile!Start
  /\ UNCHANGED <<pragmaVars, memoryVars, queryVars, resultVars, valueVars>>

FileSlotRuns ==
  /\ CellFile!Running
  /\ UNCHANGED <<pragmaVars, memoryVars, queryVars, resultVars, valueVars>>

\* Another program changes the file.
Touch ==
  /\ CellFile!Touch
  /\ UNCHANGED <<pragmaVars, memoryVars, queryVars, resultVars, valueVars>>

\* A slot goes through a null m_pDb.
Crash ==
  /\ Between
  /\ \/ PragmaDialog!SaveCrash /\ MemoryDialog!Ends
     \/ MemoryDialog!ShowCrash /\ PragmaDialog!Ends
  /\ UNCHANGED <<queryVars, resultVars, valueVars>>

Steps ==
  \/ openDatabase \/ closeDatabase \/ saveAsDatabase
  \/ PragmaSlot \/ MemorySlot \/ tick
  \/ FileSlot \/ FileSlotRuns \/ Touch
  \/ \E l \in Lines : Edit(l)
  \/ \E result \in Results : Execute(result)
  \/ \E t \in Typed \cup {NoString} : Save(t)

Next == running /\ ((UNCHANGED running /\ Steps) \/ Crash)

\* A slot that has begun goes on, and the event loop comes to a timer that is
\* due after every slot: the user can keep it waiting for one slot, not for ever.
Fairness ==
  /\ WF_vars(running /\ FileSlotRuns /\ UNCHANGED running)
  /\ SF_vars(running /\ tick /\ UNCHANGED running)

Spec == Init /\ [][Next]_vars /\ Fairness

-----------------------------------------------------------------------------
\* Every part is of its type, and the parts agree on whether there is a
\* database: active() and inactive() reach them all.
GuiTypeOK ==
  /\ PragmaDialog!PragmaTypeOK /\ MemoryDialog!MemoryTypeOK /\ CellFile!CellFileTypeOK
  /\ pragmasActive = m_pDb /\ enabled = m_pDb

\* The properties of the parts, of the program that is made of them.
RecordedIsShown == PragmaDialog!RecordedIsShown
SaveOnlyEdited == PragmaDialog!SaveOnlyEdited
TimerHasDatabase == MemoryDialog!TimerHasDatabase
NumbersFollow == MemoryDialog!NumbersFollow
BlueAreKeywords == QueryWidget!BlueAreKeywords
RowsShowTheirValues == ResultSet!RowsShowTheirValues
TextsComeBack == CellValue!TextsComeBack
IntegersAreExact == CellValue!IntegersAreExact
ImportStoresFile == CellFile!ImportStoresFile
ExportDeliversCell == CellFile!ExportDeliversCell
SlotsReturn == CellFile!SlotsReturn
=============================================================================
