-------------------------- MODULE DatabaseWidget --------------------------
(***************************************************************************)
(* The main window's centre (databasewidget.cpp): it owns the connection,  *)
(* tells the grid when one is opened or closed, and stands between the     *)
(* user's SQL and the grid's transaction: before SQL runs, or another      *)
(* table is shown, checkActiveTransaction() asks what to do with pending   *)
(* edits.  The dialog is modal: until it is answered only the end of the   *)
(* process can intervene.                                                  *)
(***************************************************************************)
EXTENDS ResultWidget

CONSTANT UserSql    \* the kinds of SQL the user runs

ASSUME SqlAssumption == UserSql \subseteq SqlKinds

VARIABLE gate       \* the handler checkActiveTransaction() was called from

vars == <<conn, isOpen, widgetVars, process, gate>>

Handlers == Tables \cup {"execute"}
Gates == [stage: {"idle", "asking", "passed"}, handler: Handlers]
Idle == [stage |-> "idle", handler |-> "execute"]

\* No handler is running, and the process is there to start one.
Ready == process = "running" /\ gate = Idle

Init ==
  /\ \E db \in [Tables -> Contents] :
       conn = [inTx |-> FALSE, usable |-> TRUE, saved |-> db, work |-> db]
  /\ isOpen = FALSE
  /\ m_activeTransaction = FALSE
  /\ m_mode \in Modes       \* uninitialised
  /\ m_tableName = NoTable
  /\ m_columnNames = 0
  /\ grid = EmptyGrid
  /\ process = "running"
  /\ gate = Idle

-----------------------------------------------------------------------------
\* DatabaseWidget::openDatabase does nothing while a database is open.
OpenDatabase == Ready /\ ~isOpen /\ active /\ UNCHANGED gate

CloseDatabase == Ready /\ isOpen /\ inactive /\ UNCHANGED gate

\* A handler that checks first: execute() when the query editor is enabled,
\* dumpTable() on a table of the tree.
StartHandler(h) ==
  /\ Ready /\ isOpen
  /\ gate' = [stage |-> IF m_activeTransaction THEN "asking" ELSE "passed", handler |-> h]
  /\ UNCHANGED <<conn, isOpen, widgetVars, process>>

\* The dialog's three answers.  checkActiveTransaction() does not look at
\* what came of the commit or rollback: the handler goes on.
Passed == gate' = [gate EXCEPT !.stage = "passed"]

\* Variant: a cancelled dialog counts as an answer.
AnswerCancelGoesOn ==
  /\ process = "running" /\ gate.stage = "asking"
  /\ Passed
  /\ UNCHANGED <<conn, isOpen, widgetVars, process>>

AnswerCancel ==
  /\ process = "running" /\ gate.stage = "asking"
  /\ gate' = Idle
  /\ UNCHANGED <<conn, isOpen, widgetVars, process>>

AnswerCommit == process = "running" /\ gate.stage = "asking" /\ Commit /\ Passed
AnswerRollback == process = "running" /\ gate.stage = "asking" /\ Rollback /\ Passed

AnswerCrash ==
  /\ process = "running" /\ gate.stage = "asking"
  /\ CommitCrash
  /\ gate' = Idle

\* The rest of execute(): run the SQL, and show its rows, or none.
ExecuteSql(kind) ==
  /\ process = "running" /\ gate = [stage |-> "passed", handler |-> "execute"]
  /\ \E reply \in execSql(conn, kind) :
       /\ conn' = reply.conn
       /\ \E rows \in (IF kind = "query" /\ reply.ok THEN 0..1 ELSE {0}) : ShowResults(rows)
  /\ gate' = Idle
  /\ UNCHANGED m_activeTransaction /\ Survives

\* The rest of dumpTable()
DumpTable(t) ==
  /\ process = "running" /\ gate = [stage |-> "passed", handler |-> t]
  /\ ShowTable(conn, t)
  /\ gate' = Idle
  /\ UNCHANGED <<conn, m_activeTransaction>> /\ Survives

\* ExploreWidget::dropTable asks nothing and tells the grid nothing.
DropTable(t) ==
  /\ Ready /\ isOpen
  /\ \E reply \in dropTable(conn, t) : conn' = reply.conn
  /\ UNCHANGED <<isOpen, widgetVars, process, gate>>

-----------------------------------------------------------------------------
\* The window is closed (closeEvent() accepts without asking) or the process
\* is killed, in whatever handler; it may be started again.
Exit == process = "running" /\ Ended("exited") /\ gate' = Idle

Restart ==
  /\ process # "running"
  /\ process' = "running"
  /\ UNCHANGED <<conn, isOpen, widgetVars, gate>>

GridEdit == Ready /\ Edit /\ UNCHANGED gate

ImportFile ==
  /\ Ready
  /\ \E r \in GridRows, v \in Texts : InsertFileContents(r, v)
  /\ UNCHANGED gate

MenuCommit == Ready /\ Commit /\ UNCHANGED gate
MenuRollback == Ready /\ Rollback /\ UNCHANGED gate

GridCrash ==
  /\ Ready
  /\ CutNothing \/ DeleteResultRow \/ InsertPastNames \/ CommitCrash \/ RollbackCrash
  /\ UNCHANGED gate

Next ==
  \/ OpenDatabase \/ CloseDatabase
  \/ GridEdit \/ ImportFile
  \/ MenuCommit \/ MenuRollback
  \/ \E h \in Handlers : StartHandler(h)
  \/ AnswerCancel \/ AnswerCommit \/ AnswerRollback \/ AnswerCrash
  \/ \E kind \in UserSql : ExecuteSql(kind)
  \/ \E t \in Tables : DumpTable(t) \/ DropTable(t)
  \/ Exit \/ Restart
  \/ GridCrash

Spec == Init /\ [][Next]_vars

-----------------------------------------------------------------------------
\* The types of the variables: the one type invariant of the three modules.
TypeOK ==
  /\ conn \in Connections
  /\ isOpen \in BOOLEAN
  /\ m_activeTransaction \in BOOLEAN
  /\ m_mode \in Modes
  /\ m_tableName \in Tables \cup {NoTable}
  /\ m_columnNames \in 0..1
  /\ grid \in Grids
  /\ process \in {"running", "exited", "crashed"}
  /\ gate \in Gates

DeletedShown == \E r \in GridRows : grid.cells[r].deleted

\* Whatever fails, a pending "*" row or a row painted as deleted is there only
\* while the flag is set, so that the Commit menu acts on it and
\* checkActiveTransaction() asks about it before anything clears the grid.
PendingChangesOwned == HasNewRow \/ DeletedShown => m_activeTransaction

\* The flag the grid keeps is true of the engine: while it is set, edits are
\* inside a transaction (so Rollback can undo them).
FlagMeansTransaction == m_activeTransaction => conn.inTx

\* A value the engine may hold in the row of a cell that was never refused:
\* the value on show, or what it keeps of the text that was typed.
HeldFor(cell, v) ==
  IF cell.state = "Dirty" THEN v \in Kept(cell.data) ELSE cell.data = Stored(v)

\* The rows of the table on show are the rows the connection would read, none
\* missing and none too many.  A cell nobody edited shows the value the engine
\* holds; of an edited cell, which goes on showing what was typed, the engine
\* holds what it may keep of just that text.
GridMatchesDatabase ==
  m_mode = "DumpTable" /\ grid.columns = 1 =>
    \A r \in RowIds :
      LET cell == grid.cells[r] IN
      /\ (cell.state # "None" /\ ~cell.deleted) <=> HasRow(conn, m_tableName, r)
      /\ HasRow(conn, m_tableName, r) => HeldFor(cell, conn.work[m_tableName][r])

\* Statements may be refused, and the grid shows an edit all the same, but only
\* where it is painted red.  As long as the table on show is there, every row on
\* show that is not painted as deleted is one of its rows, and its cell, unless
\* red, shows the value there; only an import that broke off leaves zeros behind
\* a cell that is not red.
RefusedEditsAreMarked ==
  m_mode = "DumpTable" /\ grid.columns = 1 /\ Rows(conn, m_tableName) # Gone =>
    \A r \in RowIds :
      LET cell == grid.cells[r] IN
      cell.state # "None" /\ ~cell.deleted =>
        /\ HasRow(conn, m_tableName, r)
        /\ cell.state = "Clean" =>
             \/ cell.data = Stored(conn.work[m_tableName][r])
             \/ "blob" \in Faults /\ conn.work[m_tableName][r] = Empty

\* A cell that is not painted red shows what is on disk, unless the user
\* began a transaction in SQL.
UnmarkedCellsAreSaved ==
  m_mode = "DumpTable" /\ grid.columns = 1 /\ (conn.inTx => m_activeTransaction) =>
    \A r \in RowIds :
      LET cell == grid.cells[r] IN
      cell.state = "Clean" /\ ~cell.deleted =>
        cell.data = Stored(conn.saved[m_tableName][r])

\* What a result set shows is no row of a table: only the "*" row is a cell
\* of one.
ResultsNameNoTable ==
  m_mode = "DisplayResults" => \A r \in RowIds : grid.cells[r].state = "None"

\* Outside a transaction the connection sees what is saved.
NothingHeldBack == ~conn.inTx => conn.work = conn.saved

\* A transaction is in a database that is open, and that the engine could open;
\* a handler waits, and the grid has cells, only while one is.
ClosedIsIdle ==
  /\ ~isOpen => ~conn.inTx /\ grid = EmptyGrid
  /\ conn.inTx => conn.usable
  /\ gate # Idle => isOpen

\* Inductive, for every value of the constants: what PendingChangesOwned and
\* SavedOnlyOnRequestOrStaleFlag follow from.
DatabaseInv ==
  /\ TypeOK
  /\ PendingChangesOwned
  /\ ResultsNameNoTable
  /\ NothingHeldBack
  /\ ClosedIsIdle

-----------------------------------------------------------------------------
\* The gestures that ask for the file to change at once.
SaveRequested ==
  \/ MenuCommit \/ AnswerCommit
  \/ \E kind \in UserSql : ExecuteSql(kind)
  \/ ImportFile
  \/ \E t \in Tables : DropTable(t)

\* The file changes only when the user asks for it: never because of an edit
\* in the grid, of leaving a table, of closing the database or the program,
\* or of a Rollback.
SavedOnlyOnRequest == [][conn'.saved # conn.saved => SaveRequested]_vars

\* The same whatever fails, with the one way out the code leaves: an edit
\* made while the flag outlived its transaction is saved at once.
SavedOnlyOnRequestOrStaleFlag ==
  [][conn'.saved # conn.saved =>
       SaveRequested \/ (m_activeTransaction /\ ~conn.inTx)]_vars

\* An edit of a row writes that row of the table on show, and no other.
EditsStayInTheirRow ==
  [][\A r \in GridRows :
       (\E v \in Values : SetData(r, v)) \/ SetNull(r) \/ DeleteRow(r) =>
         \A t \in Tables, q \in RowIds :
           t # m_tableName \/ q # r => HasRow(conn', t, q) = HasRow(conn, t, q)
             /\ (HasRow(conn, t, q) => conn'.work[t][q] = conn.work[t][q])]_vars

\* A commit that succeeds saves the table on show: every row that is not
\* painted as deleted, with its value on show or, where it was edited, what the
\* engine may keep of the text on show; no row that is painted as deleted; and
\* the pending row exactly once, as what may be kept of the text on show.
CommitSavesWhatIsShown ==
  [][Commit /\ ~m_activeTransaction' /\ m_mode = "DumpTable" /\ grid.columns = 1 =>
       LET saved == conn'.saved[m_tableName]
           shown == {r \in RowIds : grid.cells[r].state # "None" /\ ~grid.cells[r].deleted}
           added == {r \in RowIds \ shown : saved[r] # Absent}
       IN  /\ \A r \in shown : HeldFor(grid.cells[r], saved[r])
           /\ HasNewRow => \E r \in added :
                             added = {r} /\ saved[r] \in Kept(ShownText(grid.cells[Star]))
           /\ ~HasNewRow => added = {}]_vars

\* The program does not crash under the edits of a table: while a table with
\* an edited or deleted row is on show no slot dereferences a null pointer or
\* overruns a list, whatever failed before.  It takes a displayed result set, a
\* closed database, or a grid nothing was done in.
EditedTableNeverCrashes ==
  [][process' = "crashed" => m_mode = "DisplayResults" \/ ~isOpen \/ Untouched]_vars

\* Every exit of checkActiveTransaction() that returns false, so that its
\* caller goes on, leaves no transaction of the grid behind.
GatePassedMeansNoTransaction == gate.stage = "passed" => ~m_activeTransaction

\* One pending row is one row of the file: when a commit succeeds, whatever
\* was tried before it, the file has at most one row that it did not have.
PendingRowStoredOnce ==
  [][Commit /\ ~m_activeTransaction' =>
       \A p, q \in RowIds :
         LET added(r) == /\ HasRow(conn', m_tableName, r)
                         /\ conn.saved[m_tableName][r] = Absent
         IN  added(p) /\ added(q) => p = q]_vars
=============================================================================
