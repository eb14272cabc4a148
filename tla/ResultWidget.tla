--------------------------- MODULE ResultWidget ---------------------------
(***************************************************************************)
(* The grid of table rows (resultwidget.cpp) and its cells                 *)
(* (resultwidgetitem.cpp): what the user sees and edits, and the program's *)
(* own idea, m_activeTransaction, of whether edits are waiting for Commit. *)
(*                                                                         *)
(* Everything runs in the GUI thread: a slot runs to its end before the    *)
(* next one starts, so each slot is one action.  A null pointer or a list  *)
(* index out of range ends the process (Crash).                            *)
(***************************************************************************)
EXTENDS Connection

CONSTANTS
  Star,         \* the row of the grid headed "*": inserted, not yet stored
  NoTable,      \* the empty m_tableName
  Placeholder,  \* the texts "#NULL" and "#BLOB", shown for a cell with no text
  Unprintable,  \* the texts isPrintable refuses
  IntBits       \* the width of an int

ASSUME GridAssumption ==
  /\ Star \notin RowIds
  /\ NoTable \notin Tables
  /\ Placeholder \in Texts \ Unprintable
  /\ Unprintable \subseteq Texts \ {Empty}
  /\ IntBits \in Nat \ {0}

VARIABLES
  conn,                 \* the connection, see module Connection
  isOpen,               \* m_pDb and m_sqlite point to it
  m_activeTransaction,
  m_mode,
  m_tableName,
  m_columnNames,        \* how many names m_columnNames holds
  grid,                 \* the QTableWidget the class derives from
  process               \* the program as the operating system sees it

widgetVars == <<m_activeTransaction, m_mode, m_tableName, m_columnNames, grid>>

Modes == {"DumpTable", "DisplayResults"}
GridRows == RowIds \cup {Star}

\* A cell: its edit state ("None": there is no such row), its UserRole data
\* (Null for QVariant::UserType) and whether deleteRow() turned its row red.
Cells == [state: {"None", "Init", "Clean", "Dirty"}, data: Values, deleted: BOOLEAN]
NoCell == [state |-> "None", data |-> Null, deleted |-> FALSE]

\* cells: the rows of a dumped table and the "*" row; results: the rows of a
\* displayed result set, whose cells name no table.
Grids == [columns: 0..1, cells: [GridRows -> Cells], results: 0..1]
BareGrid(columns, results) ==
  [columns |-> columns, cells |-> [r \in GridRows |-> NoCell], results |-> results]
EmptyGrid == BareGrid(0, 0)

HasNewRow == grid.cells[Star].state # "None"

-----------------------------------------------------------------------------
\* SQLiteStmt::getInt on a 64-bit rowid: the low bits, as a signed int.
ToInt(n) ==
  LET low == n % (2 ^ IntBits)
  IN  IF low < 2 ^ (IntBits - 1) THEN low ELSE low - 2 ^ IntBits

\* Variant: the visual row in place of the header's rowid.
HeaderRowIdIsIndex(r) == IF r = Star THEN 0 ELSE ToInt(r) - 1

\* ResultWidgetItem::m_rowid, and the int deleteRow() reads from the header.
ItemRowId(r) == IF r = Star THEN -1 ELSE ToInt(r)
HeaderRowId(r) == IF r = Star THEN 0 ELSE ToInt(r)

\* What the UserRole keeps of a value: an unprintable one counts as NULL.
Stored(v) == IF v \in Unprintable THEN Null ELSE v

\* text() of a cell.
ShownText(cell) == IF cell.data = Null THEN Placeholder ELSE cell.data

\* ResultWidgetItem::setInitialValue
InitialCell(v) == [state |-> "Clean", data |-> Stored(v), deleted |-> FALSE]

\* The early returns of setData: nothing changes, or the cell holds NULL.  A
\* null QString (an empty clipboard, here Null) equals an empty one.
Ignores(cell, v) ==
  /\ cell.state # "Init"
  /\ cell.data = Null \/ cell.data = v \/ (cell.data = Empty /\ v = Null)

\* Variant: the cell is Clean again once written, as in updateDatabase().
EditedCellClean(cell, v) == [state |-> "Clean", data |-> Stored(v), deleted |-> cell.deleted]

\* setData on a cell that does not ignore it.
EditedCell(cell, v) ==
  [state   |-> IF cell.state = "Init" THEN "Clean" ELSE "Dirty",
   data    |-> Stored(v),
   deleted |-> cell.deleted]

-----------------------------------------------------------------------------
\* Variant: the rowid is counted as a column.
DumpsRowidColumn(c, t) ==
  {[named |-> TRUE, grid |-> BareGrid(IF Rows(c, t) = Gone THEN 0 ELSE 2, 0)]}

\* The grid of a table that could be read.
TableGrid(c, t) ==
  [columns |-> 1,
   cells   |-> [r \in GridRows |->
                  IF HasRow(c, t, r) THEN InitialCell(c.work[t][r]) ELSE NoCell],
   results |-> 0]

\* Variant: the names of the columns are not collected.
DumpsUnnamed(c, t) ==
  {[named |-> FALSE, grid |-> IF Rows(c, t) = Gone THEN EmptyGrid ELSE TableGrid(c, t)]}

\* Every grid dumpTable() may leave for table t, and whether it got as far as
\* replacing m_columnNames: prepare() may fail, and so may the first step().
Dumps(c, t) ==
  IF Rows(c, t) = Gone THEN {[named |-> FALSE, grid |-> EmptyGrid]}
  ELSE {[named |-> TRUE, grid |-> TableGrid(c, t)]}
       \cup (IF "busy" \in Faults /\ ~c.inTx
               THEN {[named |-> FALSE, grid |-> EmptyGrid],
                     [named |-> TRUE,  grid |-> BareGrid(1, 0)]}
               ELSE {})

\* ResultWidget::dumpTable
ShowTable(c, t) ==
  /\ m_mode' = "DumpTable"
  /\ m_tableName' = t
  /\ \E d \in Dumps(c, t) :
       /\ grid' = d.grid
       /\ m_columnNames' = IF d.named THEN d.grid.columns ELSE m_columnNames

\* Variant: a result set without rows leaves the table's rows where they are.
ShowResultsOver(rows) ==
  /\ m_mode' = "DisplayResults"
  /\ grid' = IF rows = 0 THEN grid ELSE BareGrid(rows, rows)
  /\ UNCHANGED <<m_tableName, m_columnNames>>

\* ResultWidget::displayResultSet
ShowResults(rows) ==
  /\ m_mode' = "DisplayResults"
  /\ grid' = BareGrid(rows, rows)
  /\ UNCHANGED <<m_tableName, m_columnNames>>

\* The end of the process, whatever ends it: the engine never sees a COMMIT,
\* and the widgets are gone.
Ended(how) ==
  /\ process' = how
  /\ conn' = RolledBack(conn)
  /\ isOpen' = FALSE
  /\ m_activeTransaction' = FALSE
  /\ m_tableName' = NoTable
  /\ m_columnNames' = 0
  /\ grid' = EmptyGrid
  /\ m_mode' \in Modes     \* the constructor leaves m_mode uninitialised

Crash == Ended("crashed")

Survives == UNCHANGED <<isOpen, process>>
-----------------------------------------------------------------------------
\* Variants: the flag is set and BEGIN forgotten; the cell is painted before
\* it is marked Dirty, so that the itemChanged it sends begins nothing.
beginTransactionForgotten == {Reply(TRUE, conn)}
startTransactionTooEarly == {Reply(m_activeTransaction, conn)}

\* ResultWidget::beginTransaction: its result is also the flag afterwards.
beginTransaction == IF m_activeTransaction THEN {Reply(TRUE, conn)} ELSE BeginTx(conn)

\* ResultWidget::startTransaction, for the itemChanged of a Dirty cell.
startTransaction ==
  IF m_mode = "DumpTable" THEN beginTransaction ELSE {Reply(m_activeTransaction, conn)}

\* A cell turns Dirty: painting it red announces the change, which begins a
\* transaction; then the cell writes itself, whatever came of that, and
\* shows its new value, whatever comes of the UPDATE.
WriteCell(r, v) ==
  \E b \in startTransaction :
    \E w \in updateTableCell(b.conn, m_tableName, ItemRowId(r), v) :
      /\ m_activeTransaction' = b.ok
      /\ conn' = w.conn

\* An edit of a cell in place, Cut (of the text: it sets "") and Paste.
SetData(r, v) ==
  LET cell == grid.cells[r] IN
  /\ isOpen /\ grid.columns = 1 /\ cell.state # "None"
  /\ ~Ignores(cell, v)
  /\ grid' = [grid EXCEPT !.cells[r] = EditedCell(cell, v)]
  /\ IF cell.state = "Init"
       THEN UNCHANGED <<conn, m_activeTransaction>>
       ELSE WriteCell(r, Stored(v))
  /\ UNCHANGED <<m_mode, m_tableName, m_columnNames>> /\ Survives

\* No cell has been edited since the grid was filled: it need not have a
\* current item, which clear() takes away and a click gives.
Untouched ==
  \A r \in GridRows :
    LET cell == grid.cells[r] IN
    ~cell.deleted /\ cell.state # "Dirty" /\ (r = Star => cell.state # "Clean")

\* Cut, Copy and Paste of the main menu, in a grid that has the focus and no
\* current item: none of them looks before it dereferences currentItem().
CutNothing == isOpen /\ Untouched /\ Crash

\* Set Null is not in the menu of a deleted row.
SetNull(r) ==
  LET cell == grid.cells[r] IN
  /\ isOpen /\ grid.columns = 1 /\ cell.state # "None"
  /\ ~cell.deleted /\ cell.data # Null
  /\ grid' = [grid EXCEPT !.cells[r] = [cell EXCEPT !.state = "Dirty", !.data = Null]]
  /\ WriteCell(r, Null)
  /\ UNCHANGED <<m_mode, m_tableName, m_columnNames>> /\ Survives

DeleteRow(r) ==
  /\ isOpen /\ grid.columns = 1 /\ grid.cells[r].state # "None"
  /\ \E b \in beginTransaction :
       /\ m_activeTransaction' = b.ok
       /\ IF ~b.ok THEN conn' = b.conn /\ UNCHANGED grid
          ELSE \E d \in deleteTableRow(b.conn, m_tableName, HeaderRowId(r)) :
                 /\ conn' = d.conn
                 /\ grid' = IF d.ok THEN [grid EXCEPT !.cells[r].deleted = TRUE] ELSE grid
  /\ UNCHANGED <<m_mode, m_tableName, m_columnNames>> /\ Survives

\* The rows of a result set have no header item: deleteRow() reads its text.
DeleteResultRow ==
  /\ isOpen /\ grid.results = 1
  /\ \E b \in beginTransaction : b.ok
  /\ Crash

\* One pending row at a time.
Insert ==
  /\ isOpen /\ ~HasNewRow
  /\ grid.columns <= m_columnNames
  /\ \E b \in beginTransaction :
       /\ m_activeTransaction' = b.ok
       /\ conn' = b.conn
       /\ grid' = IF b.ok
                    THEN [grid EXCEPT !.cells[Star] = [NoCell EXCEPT !.state = "Init", !.data = Empty]]
                    ELSE grid
  /\ UNCHANGED <<m_mode, m_tableName, m_columnNames>> /\ Survives

\* insert() names the new cells from m_columnNames, which a result set with
\* more columns than the last dumped table overruns.
InsertPastNames ==
  /\ isOpen /\ ~HasNewRow
  /\ grid.columns > m_columnNames
  /\ \E b \in beginTransaction : b.ok
  /\ Crash

\* ResultWidget::insertFileContents
InsertFileContents(r, v) ==
  /\ isOpen /\ ~m_activeTransaction
  /\ grid.columns = 1 /\ grid.cells[r].state # "None"
  /\ \E w \in updateCellWithFile(conn, m_tableName, ItemRowId(r), v) :
       /\ conn' = w.conn
       /\ IF w.ok THEN ShowTable(w.conn, m_tableName)
          ELSE UNCHANGED <<grid, m_mode, m_tableName, m_columnNames>>
  /\ UNCHANGED m_activeTransaction /\ Survives

-----------------------------------------------------------------------------
\* Variant: the "*" is looked for one row too far down.
NewRowMissed == {Reply(TRUE, conn)}

\* commit() first stores the "*" row, as the texts its cells show.
NewRowStored ==
  IF HasNewRow /\ grid.columns = 1
    THEN insertTableRow(conn, m_tableName, ShownText(grid.cells[Star]))
    ELSE {Reply(TRUE, conn)}

\* ResultWidget::commit, when there is a connection and the last row, if
\* any, has a header.  A failure of either statement is a message and return.
Commit ==
  /\ m_activeTransaction /\ isOpen
  /\ grid.results = 1 => HasNewRow
  /\ \E i \in NewRowStored :
       IF ~i.ok THEN conn' = i.conn /\ UNCHANGED widgetVars
       ELSE \E c \in CommitTx(i.conn) :
              /\ conn' = c.conn
              /\ IF c.ok THEN m_activeTransaction' = FALSE /\ ShowTable(c.conn, m_tableName)
                 ELSE UNCHANGED widgetVars
  /\ Survives

\* Variants: the flag is cleared before rollback() is known to have worked;
\* the table is not dumped again.
RollbackFlagFirst ==
  /\ m_activeTransaction /\ isOpen
  /\ m_activeTransaction' = FALSE
  /\ \E c \in RollbackTx(conn) :
       /\ conn' = c.conn
       /\ IF c.ok THEN ShowTable(c.conn, m_tableName)
          ELSE UNCHANGED <<m_mode, m_tableName, m_columnNames, grid>>
  /\ Survives

RollbackNoDump ==
  /\ m_activeTransaction /\ isOpen
  /\ \E c \in RollbackTx(conn) : conn' = c.conn /\ m_activeTransaction' = ~c.ok
  /\ UNCHANGED <<m_mode, m_tableName, m_columnNames, grid>> /\ Survives

\* ResultWidget::rollback
Rollback ==
  /\ m_activeTransaction /\ isOpen
  /\ \E c \in RollbackTx(conn) :
       /\ conn' = c.conn
       /\ IF c.ok THEN m_activeTransaction' = FALSE /\ ShowTable(c.conn, m_tableName)
          ELSE UNCHANGED widgetVars
  /\ Survives

\* Commit and Rollback stay in the menu: with the flag set, a closed database
\* is a null m_pDb, and a result set's last row a null header.
CommitCrash == m_activeTransaction /\ (~isOpen \/ (grid.results = 1 /\ ~HasNewRow)) /\ Crash
RollbackCrash == m_activeTransaction /\ ~isOpen /\ Crash

-----------------------------------------------------------------------------
\* ResultWidget::active, on a connection just opened
active ==
  /\ conn' \in Opened(conn)
  /\ isOpen' = TRUE
  /\ UNCHANGED <<widgetVars, process>>

\* Variant: closing commits.
inactiveCommits ==
  /\ conn' = Committed(conn)
  /\ m_activeTransaction' = FALSE
  /\ grid' = EmptyGrid
  /\ m_tableName' = NoTable
  /\ m_columnNames' = 0
  /\ isOpen' = FALSE
  /\ UNCHANGED <<m_mode, process>>

\* ResultWidget::inactive: a rollback that fails leaves the flag set, one
\* that succeeds dumps the table once more before the grid is cleared.  The
\* last reference to the connection goes, which closes it.
inactive ==
  /\ \E c \in (IF m_activeTransaction THEN RollbackTx(conn) ELSE {Reply(FALSE, conn)}) :
       /\ m_activeTransaction' = (m_activeTransaction /\ ~c.ok)
       /\ m_mode' = IF c.ok THEN "DumpTable" ELSE m_mode
       /\ conn' = RolledBack(c.conn)
  /\ grid' = EmptyGrid
  /\ m_tableName' = NoTable
  /\ m_columnNames' = 0
  /\ isOpen' = FALSE
  /\ UNCHANGED process

\* The edits the user makes in the grid itself.
Edit ==
  \/ \E r \in GridRows, v \in Values : SetData(r, v)
  \/ \E r \in GridRows : SetNull(r)
  \/ \E r \in GridRows : DeleteRow(r)
  \/ Insert
=============================================================================
