---------------------------- MODULE GridProofs ----------------------------
(***************************************************************************)
(* More theorems about DatabaseWidget: what the grid shows is what the     *)
(* engine has, an edit that was refused is marked, an edit stays in its    *)
(* row, a commit saves what is on show, the edits of a table end no        *)
(* process, and the whole implements EditSession.                          *)
(*                                                                         *)
(* The invariants here stand on DatabaseInv.  Steps takes Next apart once  *)
(* for all of them; then each has one lemma per kind of step.              *)
(***************************************************************************)
EXTENDS DatabaseRefinement, DatabaseProofs

\* Every rowid passes through an int unchanged, and none is what the "*" row
\* has for one: -1 in its cells, 0 in its header.
RowIdsFit == \A r \in RowIds : r \notin {-1, 0} /\ ToInt(r) = r

Imports == \E r \in GridRows, v \in Texts : InsertFileContents(r, v)
Executes == \E kind \in UserSql : ExecuteSql(kind)
ShowsAnother == \E t \in Tables : DumpTable(t)
Drops == \E t \in Tables : DropTable(t)
Opens == active /\ ~isOpen
Ends == Ended("exited") \/ Ended("crashed")

\* The kinds of steps, by what they do to the connection and to the grid.
LEMMA Steps ==
  ASSUME [Next]_vars
  PROVE  \/ Ends \/ UNCHANGED <<conn, widgetVars>> \/ inactive \/ Edit \/ Imports
         \/ Commit \/ Rollback \/ Executes \/ ShowsAnother \/ Drops \/ Opens
<1>1. CASE OpenDatabase \/ (\E h \in Handlers : StartHandler(h)) \/ AnswerCancel \/ Restart
           \/ UNCHANGED vars
  BY <1>1 DEF OpenDatabase, Opens, StartHandler, AnswerCancel, Restart, vars
<1>2. CASE CloseDatabase \/ GridEdit \/ ImportFile
  BY <1>2 DEF CloseDatabase, GridEdit, ImportFile, Imports
<1>3. CASE MenuCommit \/ AnswerCommit \/ MenuRollback \/ AnswerRollback
  BY <1>3 DEF MenuCommit, AnswerCommit, MenuRollback, AnswerRollback
<1>4. CASE Exit \/ GridCrash \/ AnswerCrash
  BY <1>4 DEF Exit, GridCrash, AnswerCrash, CutNothing, DeleteResultRow, InsertPastNames,
              CommitCrash, RollbackCrash, Crash, Ends
<1>5. CASE \/ \E kind \in UserSql : ExecuteSql(kind)
           \/ \E t \in Tables : DumpTable(t) \/ DropTable(t)
  BY <1>5 DEF Executes, ShowsAnother, Drops
<1>6. QED
  BY <1>1, <1>2, <1>3, <1>4, <1>5 DEF Next

\* What DatabaseInv says of the variables the grid has.
LEMMA InvFacts ==
  ASSUME DatabaseInv
  PROVE  /\ GridInv /\ conn \in Connections /\ Settled(conn)
         /\ grid.cells \in [GridRows -> Cells] /\ grid.columns \in 0..1
         /\ m_activeTransaction \in BOOLEAN
         /\ \A r \in RowIds : r \in GridRows /\ r # Star
         /\ Star \in GridRows
  BY DatabaseInvParts, GridAssumption DEF GridInv, Grids, NothingHeldBack, Settled, GridRows

-----------------------------------------------------------------------------
\* The grid, the names of its columns and its mode belong together, whatever
\* fails: a result set is never taken for a table, a table's columns have
\* their names, and the names are those of a table.
ConsistentGrid ==
  /\ grid.results = 1 => m_mode = "DisplayResults"
  /\ m_mode = "DumpTable" => grid.columns <= m_columnNames
  /\ m_columnNames = 1 => m_tableName \in Tables
  /\ HasNewRow /\ grid.columns = 1 => m_columnNames = 1

\* What a dump leaves, and what it leaves of the names when it fails.
LEMMA DumpsShape ==
  ASSUME NEW c \in Connections, NEW t, NEW d \in Dumps(c, t)
  PROVE  /\ Fresh(d.grid) /\ d.grid.results = 0 /\ d.grid.columns \in 0..1
         /\ d.named => t \in Tables
         /\ ~d.named => d.grid.columns = 0
<1>1. Fresh(d.grid)
  BY DumpsFresh
<1>2. CASE Rows(c, t) = Gone
  BY <1>1, <1>2 DEF Dumps, EmptyGrid, BareGrid
<1>3. CASE Rows(c, t) # Gone
  <2>1. \/ d = [named |-> TRUE, grid |-> TableGrid(c, t)]
        \/ d = [named |-> FALSE, grid |-> BareGrid(0, 0)]
        \/ d = [named |-> TRUE, grid |-> BareGrid(1, 0)]
    BY <1>3 DEF Dumps, EmptyGrid
  <2>2. TableGrid(c, t).columns = 1 /\ TableGrid(c, t).results = 0
    BY DEF TableGrid
  <2>3. \A n, k : BareGrid(n, k).columns = n /\ BareGrid(n, k).results = k
    BY DEF BareGrid
  <2>4. t \in Tables
    BY <1>3 DEF Rows
  <2>5. QED
    BY <1>1, <2>1, <2>2, <2>3, <2>4
<1>4. QED
  BY <1>2, <1>3

LEMMA ShowTableConsistent ==
  ASSUME ConsistentGrid, m_columnNames \in 0..1, NEW c \in Connections, NEW t,
         t \in Tables \/ t = m_tableName, ShowTable(c, t)
  PROVE  ConsistentGrid' /\ Fresh(grid')
<1>1. PICK d \in Dumps(c, t) :
        grid' = d.grid /\ m_columnNames' = IF d.named THEN d.grid.columns ELSE m_columnNames
  BY DEF ShowTable
<1>2. m_mode' = "DumpTable" /\ m_tableName' = t
  BY DEF ShowTable
<1>3. QED
  BY <1>1, <1>2, DumpsShape DEF ConsistentGrid, HasNewRow, Fresh

\* The same columns, names and mode, and a "*" row only where it may be.
LEMMA CellsConsistent ==
  ASSUME ConsistentGrid, NEW r, NEW cell,
         grid \in Grids, m_columnNames \in 0..1,
         grid' = [grid EXCEPT !.cells[r] = cell],
         UNCHANGED <<m_mode, m_tableName, m_columnNames>>,
         r = Star /\ cell.state # "None" =>
           grid.cells[Star].state # "None" \/ grid.columns <= m_columnNames
  PROVE  ConsistentGrid'
<1>1. grid'.columns = grid.columns /\ grid'.results = grid.results
  BY DEF Grids
<1>2. grid'.columns \in 0..1
  BY <1>1 DEF Grids
<1>3. HasNewRow' => HasNewRow \/ grid.columns <= m_columnNames
  BY DEF HasNewRow, Grids
<1>4. QED
  BY <1>1, <1>2, <1>3 DEF ConsistentGrid

LEMMA EditConsistent ==
  ASSUME DatabaseInv, ConsistentGrid, Edit
  PROVE  ConsistentGrid'
<1>0. grid \in Grids /\ m_columnNames \in 0..1
  BY DEF DatabaseInv, TypeOK
<1>1. ASSUME NEW r \in GridRows, NEW v \in Values, SetData(r, v) PROVE ConsistentGrid'
  <2>1. grid' = [grid EXCEPT !.cells[r] = EditedCell(grid.cells[r], v)] /\ grid.cells[r].state # "None"
    BY <1>1 DEF SetData
  <2>2. UNCHANGED <<m_mode, m_tableName, m_columnNames>>
    BY <1>1 DEF SetData
  <2>3. QED
    BY <1>0, <2>1, <2>2, CellsConsistent
<1>2. ASSUME NEW r \in GridRows, SetNull(r) PROVE ConsistentGrid'
  <2>1. /\ grid' = [grid EXCEPT !.cells[r] = [grid.cells[r] EXCEPT !.state = "Dirty", !.data = Null]]
        /\ grid.cells[r].state # "None"
    BY <1>2 DEF SetNull
  <2>2. UNCHANGED <<m_mode, m_tableName, m_columnNames>>
    BY <1>2 DEF SetNull
  <2>3. QED
    BY <1>0, <2>1, <2>2, CellsConsistent
<1>3. ASSUME NEW r \in GridRows, DeleteRow(r) PROVE ConsistentGrid'
  <2>1. grid' = grid \/ grid' = [grid EXCEPT !.cells[r].deleted = TRUE]
    BY <1>3 DEF DeleteRow
  <2>2. UNCHANGED <<m_mode, m_tableName, m_columnNames>> /\ grid.cells[r].state # "None"
    BY <1>3 DEF DeleteRow
  <2>3. CASE grid' = grid
    BY <2>2, <2>3 DEF ConsistentGrid, HasNewRow
  <2>4. CASE grid' = [grid EXCEPT !.cells[r] = [grid.cells[r] EXCEPT !.deleted = TRUE]]
    BY <1>0, <2>2, <2>4, CellsConsistent
  <2>5. QED
    BY <2>1, <2>3, <2>4
<1>4. CASE Insert
  <2>1. \/ grid' = grid
        \/ grid' = [grid EXCEPT !.cells[Star] = [NoCell EXCEPT !.state = "Init", !.data = Empty]]
    BY <1>4 DEF Insert
  <2>2. UNCHANGED <<m_mode, m_tableName, m_columnNames>> /\ grid.columns <= m_columnNames
    BY <1>4 DEF Insert
  <2>3. CASE grid' = grid
    BY <2>2, <2>3 DEF ConsistentGrid, HasNewRow
  <2>4. QED
    BY <1>0, <2>1, <2>2, <2>3, CellsConsistent
<1>5. QED
  BY <1>1, <1>2, <1>3, <1>4 DEF Edit

\* Without a grid, or without a change of it, there is nothing to keep.
LEMMA EmptyConsistent ==
  ASSUME grid' = EmptyGrid, m_columnNames' = 0
  PROVE  ConsistentGrid'
<1>1. grid'.results = 0 /\ grid'.columns = 0
  BY DEF EmptyGrid, BareGrid
<1>2. QED
  BY <1>1 DEF ConsistentGrid

LEMMA SameConsistent ==
  ASSUME ConsistentGrid, UNCHANGED widgetVars
  PROVE  ConsistentGrid'
  BY DEF ConsistentGrid, HasNewRow, widgetVars

LEMMA ConsistentStep ==
  ASSUME DatabaseInv, DatabaseInv', ConsistentGrid, [Next]_vars
  PROVE  ConsistentGrid'
<1>0. conn \in Connections /\ conn' \in Connections /\ m_columnNames \in 0..1
  BY DEF DatabaseInv, TypeOK
<1>1. CASE Ends \/ inactive
  BY <1>1, EmptyConsistent DEF Ends, Ended, inactive
<1>2. CASE Edit
  BY <1>2, EditConsistent
<1>3. CASE Commit \/ Rollback \/ Imports
  <2>1. UNCHANGED widgetVars
        \/ UNCHANGED <<grid, m_mode, m_tableName, m_columnNames>>
        \/ ShowTable(conn', m_tableName)
    BY <1>3 DEF Commit, Rollback, Imports, InsertFileContents
  <2>2. QED
    BY <1>0, <2>1, SameConsistent, ShowTableConsistent DEF ConsistentGrid, HasNewRow
<1>4. CASE Executes
  <2>1. PICK rows \in 0..1 : ShowResults(rows)
    BY <1>4 DEF Executes, ExecuteSql
  <2>2. BareGrid(rows, rows).cells[Star].state = "None"
    BY BareGridFresh DEF GridRows
  <2>3. QED
    BY <2>1, <2>2 DEF ShowResults, ConsistentGrid, HasNewRow
<1>5. CASE ShowsAnother
  BY <1>0, <1>5, ShowTableConsistent DEF ShowsAnother, DumpTable
<1>6. CASE Drops \/ Opens \/ UNCHANGED <<conn, widgetVars>>
  BY <1>6, SameConsistent DEF Drops, DropTable, Opens, active
<1>7. QED
  BY <1>1, <1>2, <1>3, <1>4, <1>5, <1>6, Steps

\* Whatever fails and wherever a handler stops, the cells, the mode and the names
\* of the columns are those of one table or of one result set.
THEOREM GridConsistent == Spec => []ConsistentGrid
<1>1. Init => ConsistentGrid
  BY DEF Init, ConsistentGrid, EmptyGrid, BareGrid
<1>2. DatabaseInv /\ DatabaseInv' /\ ConsistentGrid /\ [Next]_vars => ConsistentGrid'
  BY ConsistentStep
<1>3. QED
  BY <1>1, <1>2, DatabaseInvariant, PTL DEF Spec

\* Whatever fails, the program crashes only in a result set, in a closed
\* database, or where nothing was edited: the slots that go through a null
\* pointer or past a list are not reached from a table that was.
THEOREM EditedTablesAreSafe == Spec => EditedTableNeverCrashes
<1>1. DatabaseInv /\ ConsistentGrid /\ [Next]_vars =>
        [process' = "crashed" => m_mode = "DisplayResults" \/ ~isOpen \/ Untouched]_vars
  <2>1. SUFFICES ASSUME DatabaseInv, ConsistentGrid, Next, process' = "crashed",
                        m_mode # "DisplayResults"
                 PROVE  ~isOpen \/ Untouched
    OBVIOUS
  <2>2. m_mode = "DumpTable" /\ grid.results \in 0..1 /\ grid.columns \in 0..1
        /\ m_columnNames \in 0..1
    BY <2>1 DEF DatabaseInv, TypeOK, Modes, Grids
  <2>3. grid.results # 1 /\ ~(grid.columns > m_columnNames)
    BY <2>1, <2>2 DEF ConsistentGrid
  <2>4. GridCrash \/ AnswerCrash
    BY <2>1 DEF Next, OpenDatabase, active, CloseDatabase, inactive, GridEdit, Edit, SetData, SetNull,
         DeleteRow, Insert, ImportFile, InsertFileContents, MenuCommit, MenuRollback, Commit, Rollback,
         StartHandler, AnswerCancel, AnswerCommit, AnswerRollback, ExecuteSql, DumpTable, DropTable,
         Exit, Ended, Restart, Survives, Ready
  <2>5. QED
    BY <2>3, <2>4 DEF GridCrash, AnswerCrash, CutNothing, DeleteResultRow, InsertPastNames,
         CommitCrash, RollbackCrash
<1>2. QED
  BY <1>1, DatabaseInvariant, GridConsistent, PTL DEF Spec, EditedTableNeverCrashes

-----------------------------------------------------------------------------
\* The rows of the open database after a statement on one row: as before, or
\* that row is written and was there.
Wrote(new, c, t, id, v) ==
  /\ new.usable = c.usable
  /\ \/ new.work = c.work
     \/ HasRow(c, t, id) /\ new.work = [c.work EXCEPT ![t][id] = v]

LEMMA WriteRowWrites ==
  ASSUME "rollback" \notin Faults, NEW c \in Connections, NEW t, NEW id, NEW v,
         NEW reply \in WriteRow(c, t, id, v)
  PROVE  Wrote(reply.conn, c, t, id, v)
<1> DEFINE new == IF HasRow(c, t, id) THEN [c.work EXCEPT ![t][id] = v] ELSE c.work
<1>1. reply.conn = c \/ reply.conn = Written(c, new)
  BY DEF WriteRow, WriteStmt, Refused, Reply, Fault
<1>2. Written(c, new).work = new /\ Written(c, new).usable = c.usable
  BY DEF Written
<1>3. QED
  BY <1>1, <1>2 DEF Wrote

\* BEGIN changes no row.
LEMMA BeginKeepsRows ==
  ASSUME conn \in Connections, NEW b \in beginTransaction \cup startTransaction
  PROVE  /\ b.conn \in Connections /\ b.conn.usable = conn.usable
         /\ b.conn.work = conn.work /\ b.conn.saved = conn.saved
<1> DEFINE begun == [conn EXCEPT !.inTx = TRUE]
<1>a. b.conn = conn \/ b \in BeginTx(conn)
  BY DEF beginTransaction, startTransaction, Reply
<1>b. b \in BeginTx(conn) => b.conn \in {conn, begun}
  BY DEF BeginTx, Refused, Reply
<1>1. b.conn = conn \/ b.conn = begun
  BY <1>a, <1>b
<1>2. /\ begun \in Connections /\ begun.usable = conn.usable
      /\ begun.work = conn.work /\ begun.saved = conn.saved
  BY DEF Connections
<1>3. QED
  BY <1>1, <1>2

\* The write of a cell goes to the row with the item's rowid, the deletion of
\* a row to the one with the header's.
LEMMA WriteCellWrites ==
  ASSUME DatabaseInv, "rollback" \notin Faults, NEW r, NEW v \in Values, WriteCell(r, v)
  PROVE  \E k \in Kept(v) : Wrote(conn', conn, m_tableName, ItemRowId(r), k)
<1>1. PICK b \in startTransaction :
        \E w \in updateTableCell(b.conn, m_tableName, ItemRowId(r), v) : conn' = w.conn
  BY DEF WriteCell
<1>2. b.conn \in Connections /\ b.conn.work = conn.work /\ b.conn.usable = conn.usable
  BY BeginKeepsRows DEF DatabaseInv, TypeOK
<1>3. PICK k \in Kept(v) :
        \E w \in WriteRow(b.conn, m_tableName, ItemRowId(r), k) : conn' = w.conn
  BY <1>1 DEF updateTableCell
<1>4. Wrote(conn', b.conn, m_tableName, ItemRowId(r), k)
  BY <1>2, <1>3, WriteRowWrites
<1>5. QED
  BY <1>2, <1>4 DEF Wrote, HasRow, Rows

LEMMA SetDataWrites ==
  ASSUME DatabaseInv, "rollback" \notin Faults, NEW r \in GridRows, NEW v \in Values, SetData(r, v)
  PROVE  \E k \in Values : Wrote(conn', conn, m_tableName, ItemRowId(r), k)
<1>1. conn' = conn \/ WriteCell(r, Stored(v))
  BY DEF SetData
<1>2. Stored(v) \in Values
  BY DEF Stored, Values
<1>3. CASE conn' = conn
  BY <1>2, <1>3 DEF Wrote
<1>4. QED
  BY <1>1, <1>2, <1>3, WriteCellWrites, KeptIsValue

LEMMA SetNullWrites ==
  ASSUME DatabaseInv, "rollback" \notin Faults, NEW r \in GridRows, SetNull(r)
  PROVE  \E k \in Values : Wrote(conn', conn, m_tableName, ItemRowId(r), k)
  BY WriteCellWrites, KeptIsValue DEF SetNull, Values

LEMMA DeleteRowWrites ==
  ASSUME DatabaseInv, "rollback" \notin Faults, NEW r \in GridRows, DeleteRow(r)
  PROVE  Wrote(conn', conn, m_tableName, HeaderRowId(r), Absent)
<1>1. PICK b \in beginTransaction :
        IF ~b.ok THEN conn' = b.conn
        ELSE \E d \in deleteTableRow(b.conn, m_tableName, HeaderRowId(r)) : conn' = d.conn
  BY DEF DeleteRow
<1>2. b.conn \in Connections /\ b.conn.work = conn.work /\ b.conn.usable = conn.usable
  BY BeginKeepsRows DEF DatabaseInv, TypeOK
<1>3. Wrote(conn', b.conn, m_tableName, HeaderRowId(r), Absent)
  <2>1. CASE ~b.ok
    BY <1>1, <2>1 DEF Wrote
  <2>2. CASE b.ok
    BY <1>1, <1>2, <2>2, WriteRowWrites DEF deleteTableRow
  <2>3. QED
    BY <2>1, <2>2
<1>4. QED
  BY <1>2, <1>3 DEF Wrote, HasRow, Rows

\* Every row but the written one is as it was.
LEMMA WroteStays ==
  ASSUME DatabaseInv, NEW id, NEW v \in Values \cup {Absent}, Wrote(conn', conn, m_tableName, id, v),
         NEW t \in Tables, NEW q \in RowIds, t # m_tableName \/ q # id
  PROVE  /\ HasRow(conn', t, q) = HasRow(conn, t, q)
         /\ HasRow(conn, t, q) => conn'.work[t][q] = conn.work[t][q]
<1>0. conn'.usable = conn.usable
  BY DEF Wrote
<1>1. CASE conn'.work = conn.work
  BY <1>0, <1>1 DEF HasRow, Rows
<1>2. CASE HasRow(conn, m_tableName, id) /\ conn'.work = [conn.work EXCEPT ![m_tableName][id] = v]
  <2>1. conn.work \in Database
    BY FieldTypes DEF DatabaseInv, TypeOK
  <2>2. m_tableName \in Tables /\ conn.work[m_tableName] # Gone
    BY <1>2 DEF HasRow, Rows
  <2>3. conn.work[m_tableName] \in Contents
    BY <2>1, <2>2 DEF Database
  <2>4. [conn.work[m_tableName] EXCEPT ![id] = v] # Gone
    BY <2>3, GoneAssumption DEF Contents
  <2>5. QED
    BY <1>0, <1>2, <2>1, <2>2, <2>3, <2>4 DEF HasRow, Rows, Database, Contents
<1>3. QED
  BY <1>1, <1>2 DEF Wrote

\* With rowids that fit an int, and no engine rollback, an edit writes the row
\* it is shown in, and no other: whatever else fails, in whatever mode.
THEOREM EditsStay ==
  ASSUME RowIdsFit, "rollback" \notin Faults
  PROVE  Spec => EditsStayInTheirRow
<1>1. ASSUME DatabaseInv, NEW r \in GridRows,
             (\E v \in Values : SetData(r, v)) \/ SetNull(r) \/ DeleteRow(r),
             NEW t \in Tables, NEW q \in RowIds, t # m_tableName \/ q # r
      PROVE  /\ HasRow(conn', t, q) = HasRow(conn, t, q)
             /\ HasRow(conn, t, q) => conn'.work[t][q] = conn.work[t][q]
  <2>1. PICK id \in {ItemRowId(r), HeaderRowId(r)}, v \in Values \cup {Absent} :
          Wrote(conn', conn, m_tableName, id, v)
    <3>1. CASE \E v \in Values : SetData(r, v)
      <4>1. PICK v \in Values : SetData(r, v)
        BY <3>1
      <4>2. Stored(v) \in Values
        BY DEF Stored, Values
      <4>3. QED
        BY <1>1, <4>1, <4>2, SetDataWrites
    <3>2. CASE SetNull(r)
      BY <1>1, <3>2, SetNullWrites DEF Values
    <3>3. CASE DeleteRow(r)
      BY <1>1, <3>3, DeleteRowWrites
    <3>4. QED
      BY <1>1, <3>1, <3>2, <3>3
  <2>2. q # r => q # id
    BY RowIdsFit, <1>1 DEF RowIdsFit, ItemRowId, HeaderRowId, GridRows
  <2>3. QED
    BY <1>1, <2>1, <2>2, WroteStays
<1>2. DatabaseInv /\ [Next]_vars =>
        [\A r \in GridRows :
           (\E v \in Values : SetData(r, v)) \/ SetNull(r) \/ DeleteRow(r) =>
             \A t \in Tables, q \in RowIds :
               t # m_tableName \/ q # r => HasRow(conn', t, q) = HasRow(conn, t, q)
                 /\ (HasRow(conn, t, q) => conn'.work[t][q] = conn.work[t][q])]_vars
  BY <1>1
<1>3. QED
  BY <1>2, DatabaseInvariant, PTL DEF Spec, EditsStayInTheirRow

-----------------------------------------------------------------------------
\* The engine refuses nothing the program asks of a database it could open,
\* but for writing a blob, and no table is dropped: a commit that is refused is
\* a finished transaction to the dialog, as the gate run shows.
NothingRefused == Faults \subseteq {"blob", "open"} /\ Droppable = {}

Whole(c) == \A t \in Tables : c.work[t] # Gone /\ c.saved[t] # Gone

\* Inductive under NothingRefused, beside DatabaseInv: handlers go on only when
\* the grid's transaction is over, and every table is there to be written to.
SessionInv ==
  /\ FlagMeansTransaction
  /\ gate.stage = "passed" => ~m_activeTransaction
  /\ Whole(conn)

LEMMA WriteStmtWorks ==
  ASSUME NothingRefused, NEW c, NEW new, NEW reply \in WriteStmt(c, new)
  PROVE  reply = [ok |-> TRUE, conn |-> Written(c, new)]
  BY NothingRefused DEF NothingRefused, WriteStmt, Fault, Reply

LEMMA CommitTxWorks ==
  ASSUME NothingRefused, NEW c, c.inTx, NEW reply \in CommitTx(c)
  PROVE  reply = [ok |-> TRUE, conn |-> Committed(c)]
  BY NothingRefused DEF NothingRefused, CommitTx, Fault, Reply

LEMMA RollbackTxWorks ==
  ASSUME NEW c, c.inTx, NEW reply \in RollbackTx(c)
  PROVE  reply = [ok |-> TRUE, conn |-> RolledBack(c)]
  BY DEF RollbackTx, Reply

\* A database the engine could not open: it refuses to begin.
NoDatabase == ~m_activeTransaction /\ ~conn.usable

\* beginTransaction() works unless the user's SQL began a transaction before,
\* and in the end there is a transaction, if there is a database.
LEMMA BeginWorks ==
  ASSUME DatabaseInv, SessionInv,
         NEW b, b \in beginTransaction \/
                (b \in startTransaction /\ \E r \in GridRows : grid.cells[r].state # "None")
  PROVE  IF NoDatabase THEN b.ok = FALSE /\ b.conn = conn
         ELSE /\ b.ok = (m_activeTransaction \/ ~conn.inTx)
              /\ b.conn \in Connections /\ b.conn.inTx = TRUE
              /\ b.conn.work = conn.work /\ b.conn.saved = conn.saved
<1>1. GridInv /\ conn \in Connections /\ m_activeTransaction \in BOOLEAN
  BY InvFacts
<1>2. b.conn \in Connections /\ b.conn.work = conn.work /\ b.conn.saved = conn.saved
  BY <1>1, BeginKeepsRows
<1>3. b \in beginTransaction \/ (m_activeTransaction /\ b = [ok |-> m_activeTransaction, conn |-> conn])
  <2>1. CASE m_mode = "DumpTable"
    BY <2>1 DEF startTransaction
  <2>2. CASE m_mode # "DumpTable" /\ b \notin beginTransaction
    <3>1. PICK r \in GridRows : grid.cells[r].state # "None"
      BY <2>2
    <3>2. b = [ok |-> m_activeTransaction, conn |-> conn]
      BY <2>2 DEF startTransaction, Reply
    <3>3. m_activeTransaction
      BY <2>2, <3>1 DEF DatabaseInv, TypeOK, Modes, ResultsNameNoTable, PendingChangesOwned,
                        HasNewRow, GridRows
    <3>4. QED
      BY <3>2, <3>3
  <2>3. QED
    BY <2>1, <2>2
<1>4. CASE m_activeTransaction
  <2>1. b = [ok |-> TRUE, conn |-> conn]
    BY <1>1, <1>3, <1>4 DEF beginTransaction, Reply
  <2>2. QED
    BY <1>1, <1>4, <2>1 DEF SessionInv, FlagMeansTransaction, Connections, NoDatabase
<1>5. CASE ~m_activeTransaction /\ (conn.inTx \/ ~conn.usable)
  <2>1. b = [ok |-> FALSE, conn |-> conn]
    BY <1>3, <1>5 DEF beginTransaction, BeginTx, Refused, Reply
  <2>2. QED
    BY <1>1, <1>5, <2>1 DEF Connections, NoDatabase
<1>6. CASE ~m_activeTransaction /\ ~(conn.inTx \/ ~conn.usable)
  <2>1. b = [ok |-> TRUE, conn |-> [conn EXCEPT !.inTx = TRUE]]
    BY <1>3, <1>6 DEF beginTransaction, BeginTx, Reply
  <2>2. [conn EXCEPT !.inTx = TRUE].inTx = TRUE
    BY <1>1 DEF Connections
  <2>3. QED
    BY <1>1, <1>2, <1>6, <2>1, <2>2 DEF NoDatabase
<1>7. QED
  BY <1>4, <1>5, <1>6

\* A row written leaves every table there.
LEMMA WroteWhole ==
  ASSUME DatabaseInv, SessionInv, NEW id, NEW v \in Values \cup {Absent},
         Wrote(conn', conn, m_tableName, id, v)
  PROVE  \A t \in Tables : conn'.work[t] # Gone
<1>1. CASE HasRow(conn, m_tableName, id) /\ conn'.work = [conn.work EXCEPT ![m_tableName][id] = v]
  <2>1. m_tableName \in Tables /\ conn.work[m_tableName] # Gone /\ id \in RowIds
    BY <1>1 DEF HasRow, Rows
  <2>2. conn.work \in Database
    BY FieldTypes DEF DatabaseInv, TypeOK
  <2>3. conn.work[m_tableName] \in Contents
    BY <2>1, <2>2 DEF Database
  <2>4. [conn.work[m_tableName] EXCEPT ![id] = v] # Gone
    BY <2>3, GoneAssumption DEF Contents
  <2>5. QED
    BY <1>1, <2>2, <2>4 DEF SessionInv, Whole, Database
<1>2. QED
  BY <1>1 DEF Wrote, SessionInv, Whole

-----------------------------------------------------------------------------
\* Inside the transaction of an edit nothing is saved, and the transaction
\* stays: the edit's whole effect on the connection and on whose it is.
EditEffect(id, v) ==
  /\ Wrote(conn', conn, m_tableName, id, v)
  /\ conn'.saved = conn.saved
  /\ conn'.inTx = TRUE
  /\ m_activeTransaction' = (m_activeTransaction \/ ~conn.inTx)

LEMMA WriteCellEffect ==
  ASSUME NothingRefused, DatabaseInv, SessionInv, NEW r \in GridRows,
         grid.cells[r].state # "None", NEW v \in Values, WriteCell(r, v)
  PROVE  \/ \E k \in Kept(v) : EditEffect(ItemRowId(r), k)
         \/ UNCHANGED <<conn, m_activeTransaction>>
<1>1. PICK b \in startTransaction :
        \E w \in updateTableCell(b.conn, m_tableName, ItemRowId(r), v) :
          m_activeTransaction' = b.ok /\ conn' = w.conn
  BY DEF WriteCell
<1>2. PICK w \in updateTableCell(b.conn, m_tableName, ItemRowId(r), v) :
        m_activeTransaction' = b.ok /\ conn' = w.conn
  BY <1>1
<1>3. CASE NoDatabase
  <2>1. b.ok = FALSE /\ b.conn = conn
    BY <1>3, BeginWorks
  <2>2. conn' = conn
    BY <1>2, <1>3, <2>1, UnusableKeeps, InvFacts DEF NoDatabase
  <2>3. QED
    BY <1>2, <1>3, <2>1, <2>2, InvFacts DEF NoDatabase
<1>4. CASE ~NoDatabase
  <2>1. /\ b.ok = (m_activeTransaction \/ ~conn.inTx)
        /\ b.conn \in Connections /\ b.conn.inTx = TRUE
        /\ b.conn.work = conn.work /\ b.conn.saved = conn.saved
    BY <1>4, BeginWorks
  <2>2. Keeps(b.conn, w)
    BY <2>1, updateTableCellKeeps
  <2>3. conn'.saved = conn.saved /\ conn'.inTx = TRUE
    BY <1>2, <2>1, <2>2, NothingRefused DEF Keeps, NothingRefused
  <2>4. PICK k \in Kept(v) : Wrote(conn', conn, m_tableName, ItemRowId(r), k)
    BY NothingRefused, WriteCellWrites DEF NothingRefused
  <2>5. QED
    BY <1>2, <2>1, <2>3, <2>4 DEF EditEffect
<1>5. QED
  BY <1>3, <1>4

\* A deletion that finds no transaction of the grid and cannot begin one does
\* nothing.
LEMMA DeleteRowEffect ==
  ASSUME NothingRefused, DatabaseInv, SessionInv, NEW r \in GridRows, DeleteRow(r)
  PROVE  EditEffect(HeaderRowId(r), Absent) \/ UNCHANGED <<conn, m_activeTransaction>>
<1>1. PICK b \in beginTransaction :
        /\ m_activeTransaction' = b.ok
        /\ IF ~b.ok THEN conn' = b.conn
           ELSE \E d \in deleteTableRow(b.conn, m_tableName, HeaderRowId(r)) : conn' = d.conn
  BY DEF DeleteRow
<1>a. CASE NoDatabase
  <2>1. b.ok = FALSE /\ b.conn = conn
    BY <1>a, BeginWorks
  <2>2. QED
    BY <1>1, <1>a, <2>1, InvFacts DEF NoDatabase
<1>b. SUFFICES ASSUME ~NoDatabase PROVE EditEffect(HeaderRowId(r), Absent)
  BY <1>a
<1>2. /\ b.ok = (m_activeTransaction \/ ~conn.inTx)
      /\ b.conn \in Connections /\ b.conn.inTx = TRUE
      /\ b.conn.work = conn.work /\ b.conn.saved = conn.saved
  BY <1>b, BeginWorks
<1>3. conn'.saved = conn.saved /\ conn'.inTx = TRUE
  <2>1. CASE ~b.ok
    BY <1>1, <1>2, <2>1
  <2>2. CASE b.ok
    <3>1. PICK d \in deleteTableRow(b.conn, m_tableName, HeaderRowId(r)) : conn' = d.conn
      BY <1>1, <2>2
    <3>2. Keeps(b.conn, d)
      BY <1>2, deleteTableRowKeeps
    <3>3. QED
      BY <1>2, <3>1, <3>2, NothingRefused DEF Keeps, NothingRefused
  <2>3. QED
    BY <2>1, <2>2
<1>4. Wrote(conn', conn, m_tableName, HeaderRowId(r), Absent)
  BY NothingRefused, DeleteRowWrites DEF NothingRefused
<1>5. QED
  BY <1>1, <1>2, <1>3, <1>4 DEF EditEffect

LEMMA InsertEffect ==
  ASSUME DatabaseInv, SessionInv, Insert
  PROVE  \/ /\ conn'.work = conn.work /\ conn'.saved = conn.saved /\ conn'.inTx = TRUE
            /\ m_activeTransaction' = (m_activeTransaction \/ ~conn.inTx)
         \/ UNCHANGED <<conn, m_activeTransaction, grid>>
<1>1. PICK b \in beginTransaction :
        m_activeTransaction' = b.ok /\ conn' = b.conn /\ (~b.ok => grid' = grid)
  BY DEF Insert
<1>2. CASE NoDatabase
  <2>1. b.ok = FALSE /\ b.conn = conn
    BY <1>2, BeginWorks
  <2>2. QED
    BY <1>1, <1>2, <2>1, InvFacts DEF NoDatabase
<1>3. CASE ~NoDatabase
  BY <1>1, <1>3, BeginWorks
<1>4. QED
  BY <1>2, <1>3

-----------------------------------------------------------------------------
\* The refinement of EditSession.  A step of it, or a stutter:
SessionStep == [Session!SessionNext]_(Session!sessionVars)

\* The "*" row is stored by no edit: its cells have the rowid -1.
NoRowOfStar == -1 \notin RowIds

LEMMA SessionSets ==
  /\ Session!Database = Database /\ Session!Values = Values /\ Session!Contents = Contents
  /\ \A v : Session!Kept(v) = Kept(v)
  BY DEF Session!Database, Session!Contents, Session!Values, Session!Kept, Database, Contents, Values, Kept

LEMMA PendingStays ==
  ASSUME grid'.columns = grid.columns, grid'.cells[Star] = grid.cells[Star],
         m_tableName' = m_tableName
  PROVE  PendingRow' = PendingRow
  BY DEF PendingRow, HasNewRow

LEMMA NonePending ==
  ASSUME DatabaseInv, ~m_activeTransaction
  PROVE  PendingRow = {}
  BY DEF DatabaseInv, PendingChangesOwned, PendingRow

LEMMA FreshPending ==
  ASSUME Fresh(grid')
  PROVE  PendingRow' = {}
  BY DEF Fresh, PendingRow, HasNewRow

LEMMA ShownTextIsText ==
  ASSUME NEW cell \in Cells
  PROVE  ShownText(cell) \in Texts
  BY GridAssumption DEF ShownText, Cells, Values

\* A pending row is of a table, and a text.
LEMMA PendingType ==
  ASSUME DatabaseInv, ConsistentGrid
  PROVE  PendingRow = {} \/ \E text \in Texts : PendingRow = {<<m_tableName, text>>} /\ m_tableName \in Tables
<1>1. ShownText(grid.cells[Star]) \in Texts
  BY InvFacts, ShownTextIsText
<1>2. QED
  BY <1>1 DEF PendingRow, ConsistentGrid

\* Whose the transaction is after an edit.
LEMMA OwnerOfEdit ==
  ASSUME SessionInv, conn'.inTx = TRUE,
         m_activeTransaction' = (m_activeTransaction \/ ~conn.inTx)
  PROVE  Owner' = IF Owner = "none" THEN "grid" ELSE Owner
  BY DEF Owner, SessionInv, FlagMeansTransaction

\* An edit of the table's rows is the abstract edit.
LEMMA EditRefines ==
  ASSUME SessionInv, NEW id, NEW v \in Values \cup {Absent}, EditEffect(id, v),
         PendingRow' = PendingRow
  PROVE  Session!EditRow
<1>1. Owner' = IF Owner = "none" THEN "grid" ELSE Owner
  BY OwnerOfEdit DEF EditEffect
<1>2. conn'.work \in Session!OneRowEdited(conn.work)
  <2>1. CASE conn'.work = conn.work
    BY <2>1 DEF Session!OneRowEdited
  <2>2. CASE HasRow(conn, m_tableName, id) /\ conn'.work = [conn.work EXCEPT ![m_tableName][id] = v]
    <3> DEFINE row == <<m_tableName, id>>
    <3>1. /\ row \in Tables \X RowIds
          /\ conn.work[row[1]] # Gone /\ conn.work[row[1]][row[2]] # Absent
      BY <2>2 DEF HasRow, Rows
    <3>2. conn'.work = [conn.work EXCEPT ![row[1]][row[2]] = v]
      BY <2>2
    <3> HIDE DEF row
    <3>3. QED
      BY <3>1, <3>2, SessionSets DEF Session!OneRowEdited
  <2>3. QED
    BY <2>1, <2>2 DEF EditEffect, Wrote
<1>3. QED
  BY <1>1, <1>2 DEF Session!EditRow, EditEffect

\* An edit of the "*" row is the abstract edit of the pending row.
LEMMA PendingRefines ==
  ASSUME DatabaseInv, DatabaseInv', ConsistentGrid', SessionInv,
         m_activeTransaction \/ ~conn.inTx, m_activeTransaction' = TRUE,
         conn'.work = conn.work, conn'.saved = conn.saved,
         PendingRow' # {}
  PROVE  Session!EditPending
<1>1. PendingRow' \in Session!PendingRows \ {{}}
  <2>1. PICK text \in Texts : PendingRow' = {<<m_tableName', text>>} /\ m_tableName' \in Tables
    <3>1. ShownText(grid'.cells[Star]) \in Texts
      <4>1. grid'.cells[Star] \in Cells
        BY DEF DatabaseInv, TypeOK, Grids, GridRows
      <4>2. QED
        BY <4>1, ShownTextIsText
    <3>2. QED
      BY <3>1 DEF PendingRow, ConsistentGrid
  <2>2. QED
    BY <2>1 DEF Session!PendingRows
<1>2. Owner \in {"none", "grid"} /\ Owner' = "grid"
  BY DEF Owner
<1>3. QED
  BY <1>1, <1>2 DEF Session!EditPending

LEMMA EditSessionStep ==
  ASSUME NothingRefused, NoRowOfStar, DatabaseInv, DatabaseInv', ConsistentGrid, ConsistentGrid',
         SessionInv, Edit
  PROVE  SessionStep /\ Whole(conn')
<1>0. /\ GridInv /\ grid \in Grids /\ grid.cells \in [GridRows -> Cells] /\ m_activeTransaction \in BOOLEAN
      /\ \A r \in RowIds : r # Star
  BY InvFacts DEF GridInv
<1>1. ASSUME NEW r \in GridRows, NEW cell, NEW id, NEW v \in Values,
             grid.cells[r].state # "None", cell.state # "None", id = ItemRowId(r),
             grid' = [grid EXCEPT !.cells[r] = cell],
             UNCHANGED <<m_mode, m_tableName, m_columnNames>>,
             EditEffect(id, v) \/ UNCHANGED <<conn, m_activeTransaction>>
      PROVE  SessionStep /\ Whole(conn')
  <2>0. grid'.columns = grid.columns /\ grid'.cells = [grid.cells EXCEPT ![r] = cell]
    BY <1>0, <1>1 DEF Grids
  <2>1. Whole(conn')
    BY <1>1, WroteWhole DEF EditEffect, Whole, SessionInv
  <2>2. CASE r # Star
    <3>1. PendingRow' = PendingRow
      BY <1>0, <1>1, <2>0, <2>2, PendingStays DEF GridRows
    <3>2. CASE EditEffect(id, v)
      BY <1>1, <2>1, <3>1, <3>2, EditRefines DEF SessionStep, Session!SessionNext
    <3>3. CASE UNCHANGED <<conn, m_activeTransaction>>
      BY <2>1, <3>1, <3>3 DEF SessionStep, Session!sessionVars, Owner
    <3>4. QED
      BY <1>1, <2>1, <3>2, <3>3
  <2>3. CASE r = Star
    <3>1. m_activeTransaction
      BY <1>1, <2>3 DEF DatabaseInv, PendingChangesOwned, HasNewRow
    <3>2. m_activeTransaction' = TRUE
      BY <1>0, <1>1, <3>1 DEF EditEffect
    <3>3. conn'.work = conn.work /\ conn'.saved = conn.saved
      BY <1>1, <2>3 DEF EditEffect, Wrote, HasRow, ItemRowId, NoRowOfStar
    <3>4. CASE PendingRow' # {}
      BY <3>1, <3>2, <3>3, <3>4, PendingRefines, <2>1 DEF SessionStep, Session!SessionNext
    <3>5. CASE PendingRow' = {}
      <4>1. PendingRow = {}
        BY <1>0, <1>1, <2>0, <2>3, <3>5 DEF PendingRow, HasNewRow, GridRows
      <4>2. Owner' = Owner
        BY <3>1, <3>2 DEF Owner
      <4>3. QED
        BY <2>1, <3>3, <3>5, <4>1, <4>2 DEF SessionStep, Session!sessionVars
    <3>6. QED
      BY <3>4, <3>5
  <2>4. QED
    BY <2>2, <2>3
<1>2. ASSUME NEW r \in GridRows, NEW v \in Values, SetData(r, v) PROVE SessionStep /\ Whole(conn')
  <2> DEFINE cell == EditedCell(grid.cells[r], v)
  <2>1. grid' = [grid EXCEPT !.cells[r] = cell] /\ grid.cells[r].state # "None"
        /\ UNCHANGED <<m_mode, m_tableName, m_columnNames>>
    BY <1>2 DEF SetData
  <2>2. cell.state # "None" /\ Stored(v) \in Values
    BY DEF EditedCell, Stored, Values
  <2>3. \/ \E k \in Values : EditEffect(ItemRowId(r), k)
        \/ UNCHANGED <<conn, m_activeTransaction>>
    BY <1>2, <2>1, <2>2, WriteCellEffect, KeptIsValue DEF SetData
  <2> HIDE DEF cell
  <2>4. QED
    BY <1>1, <2>1, <2>2, <2>3
<1>3. ASSUME NEW r \in GridRows, SetNull(r) PROVE SessionStep /\ Whole(conn')
  <2> DEFINE cell == [grid.cells[r] EXCEPT !.state = "Dirty", !.data = Null]
  <2>1. grid' = [grid EXCEPT !.cells[r] = cell] /\ grid.cells[r].state # "None"
        /\ UNCHANGED <<m_mode, m_tableName, m_columnNames>> /\ WriteCell(r, Null)
    BY <1>3 DEF SetNull
  <2>2. cell.state # "None" /\ Null \in Values
    BY <1>0 DEF Cells, Values
  <2>3. \/ \E k \in Values : EditEffect(ItemRowId(r), k)
        \/ UNCHANGED <<conn, m_activeTransaction>>
    BY <2>1, <2>2, WriteCellEffect, KeptIsValue
  <2> HIDE DEF cell
  <2>4. QED
    BY <1>1, <2>1, <2>2, <2>3
<1>4. ASSUME NEW r \in GridRows, DeleteRow(r) PROVE SessionStep /\ Whole(conn')
  <2>1. EditEffect(HeaderRowId(r), Absent) \/ UNCHANGED <<conn, m_activeTransaction>>
    BY <1>4, DeleteRowEffect
  <2>2. Whole(conn')
    BY <2>1, WroteWhole DEF EditEffect, Whole, SessionInv
  <2>3. grid' = grid \/ grid' = [grid EXCEPT !.cells[r].deleted = TRUE]
    BY <1>4 DEF DeleteRow
  <2>4. UNCHANGED <<m_mode, m_tableName, m_columnNames>>
    BY <1>4 DEF DeleteRow
  <2>5. PendingRow' = PendingRow
    <3>1. grid'.columns = grid.columns /\ grid'.cells[Star].state = grid.cells[Star].state
          /\ grid'.cells[Star].data = grid.cells[Star].data
      BY <1>0, <2>3 DEF Grids, Cells, GridRows
    <3>2. QED
      BY <2>4, <3>1 DEF PendingRow, HasNewRow, ShownText
  <2>6. QED
    BY <2>1, <2>2, <2>5, EditRefines
    DEF SessionStep, Session!SessionNext, Session!sessionVars, Owner
<1>5. CASE Insert
  <2>a. CASE UNCHANGED <<conn, m_activeTransaction, grid>>
    <3>1. PendingRow' = PendingRow
      BY <1>5, <2>a, PendingStays DEF Insert
    <3>2. QED
      BY <2>a, <3>1 DEF SessionStep, Session!sessionVars, Owner, SessionInv, Whole
  <2>b. SUFFICES ASSUME ~UNCHANGED <<conn, m_activeTransaction, grid>>
                 PROVE  SessionStep /\ Whole(conn')
    BY <2>a
  <2>1. /\ conn'.work = conn.work /\ conn'.saved = conn.saved /\ conn'.inTx = TRUE
        /\ m_activeTransaction' = (m_activeTransaction \/ ~conn.inTx)
    BY <1>5, <2>b, InsertEffect
  <2>c. conn'.usable = conn.usable
    BY <1>5, BeginKeepsRows DEF Insert, DatabaseInv, TypeOK
  <2>2. Whole(conn')
    BY <2>1 DEF Whole, SessionInv
  <2>3. PendingRow = {}
    BY <1>5 DEF Insert, PendingRow
  <2>4. CASE PendingRow' = {}
    <3>1. EditEffect(-1, Null)
      BY <2>1, <2>c DEF EditEffect, Wrote
    <3>2. QED
      BY <2>2, <2>3, <2>4, <3>1, EditRefines DEF SessionStep, Session!SessionNext, Values
  <2>5. CASE PendingRow' # {}
    <3>1. m_activeTransaction \/ ~conn.inTx
      <4>1. SUFFICES ASSUME ~(m_activeTransaction \/ ~conn.inTx) PROVE FALSE
        OBVIOUS
      <4>2. m_activeTransaction' = FALSE
        BY <2>1, <4>1
      <4>3. grid' = grid
        BY <1>5, <4>2 DEF Insert
      <4>4. PendingRow' = PendingRow
        BY <1>5, <4>3, PendingStays DEF Insert
      <4>5. QED
        BY <2>3, <2>5, <4>4
    <3>2. m_activeTransaction' = TRUE
      BY <2>1, <3>1
    <3>3. QED
      BY <2>1, <2>2, <2>5, <3>1, <3>2, PendingRefines DEF SessionStep, Session!SessionNext
  <2>6. QED
    BY <2>4, <2>5
<1>6. QED
  BY <1>2, <1>3, <1>4, <1>5 DEF Edit

\* Whatever ends a transaction without saving it discards the session.
LEMMA DiscardRefines ==
  ASSUME SessionInv, conn' = RolledBack(conn), ~m_activeTransaction', PendingRow' = {}
  PROVE  SessionStep /\ Whole(conn')
<1>1. conn'.inTx = FALSE /\ conn'.saved = conn.saved /\ conn'.work = conn.saved
  BY DEF RolledBack
<1>2. Session!Discard
  BY <1>1 DEF Session!Discard, Owner
<1>3. Whole(conn')
  BY <1>1 DEF SessionInv, Whole
<1>4. QED
  BY <1>2, <1>3 DEF SessionStep, Session!SessionNext

\* A rollback works, and so it is the same when the database is closed with it.
LEMMA RollbackSession ==
  ASSUME DatabaseInv, SessionInv, Rollback
  PROVE  SessionStep /\ Whole(conn') /\ m_activeTransaction' = FALSE /\ ShowTable(conn', m_tableName)
<1>1. conn.inTx
  BY DEF Rollback, SessionInv, FlagMeansTransaction
<1>2. conn' = RolledBack(conn) /\ m_activeTransaction' = FALSE /\ ShowTable(conn', m_tableName)
  BY <1>1, RollbackTxWorks DEF Rollback
<1>3. conn' \in Connections
  BY <1>2, ConnectionTypes, FieldTypes DEF DatabaseInv, TypeOK
<1>4. PendingRow' = {}
  <2>1. PICK d \in Dumps(conn', m_tableName) : grid' = d.grid
    BY <1>2 DEF ShowTable
  <2>2. QED
    BY <1>3, <2>1, DumpsFresh, FreshPending
<1>5. QED
  BY <1>2, <1>4, DiscardRefines

LEMMA EmptyPending ==
  ASSUME grid' = EmptyGrid
  PROVE  PendingRow' = {}
  BY DEF EmptyGrid, BareGrid, PendingRow

LEMMA inactiveSession ==
  ASSUME DatabaseInv, SessionInv, inactive
  PROVE  SessionStep /\ Whole(conn') /\ m_activeTransaction' = FALSE
<1>1. PICK c \in (IF m_activeTransaction THEN RollbackTx(conn) ELSE {Reply(FALSE, conn)}) :
        /\ m_activeTransaction' = (m_activeTransaction /\ ~c.ok)
        /\ conn' = RolledBack(c.conn)
  BY DEF inactive
<1>2. conn' = RolledBack(conn) /\ m_activeTransaction' = FALSE
  <2>1. CASE m_activeTransaction
    <3>1. conn.inTx
      BY <2>1 DEF SessionInv, FlagMeansTransaction
    <3>2. c = [ok |-> TRUE, conn |-> RolledBack(conn)]
      BY <1>1, <2>1, <3>1, RollbackTxWorks
    <3>3. QED
      BY <1>1, <3>2 DEF RolledBack
  <2>2. CASE ~m_activeTransaction
    <3>1. c = [ok |-> FALSE, conn |-> conn]
      BY <1>1, <2>2 DEF Reply
    <3>2. QED
      BY <1>1, <2>2, <3>1, InvFacts
  <2>3. QED
    BY <2>1, <2>2
<1>3. grid' = EmptyGrid
  BY DEF inactive
<1>4. QED
  BY <1>2, <1>3, EmptyPending, DiscardRefines

LEMMA EndsSession ==
  ASSUME SessionInv, Ends
  PROVE  SessionStep /\ Whole(conn') /\ m_activeTransaction' = FALSE
<1>1. conn' = RolledBack(conn) /\ m_activeTransaction' = FALSE /\ grid' = EmptyGrid
  BY DEF Ends, Ended
<1>2. QED
  BY <1>1, EmptyPending, DiscardRefines

\* Commit saves the draft and the pending row, which is stored where no row
\* was.  It cannot be refused, so that the table is shown again.
LEMMA CommitSession ==
  ASSUME NothingRefused, DatabaseInv, ConsistentGrid, SessionInv, Commit
  PROVE  /\ SessionStep /\ Whole(conn') /\ m_activeTransaction' = FALSE
         /\ ShowTable(conn', m_tableName)
         /\ conn'.saved = conn'.work
         /\ IF HasNewRow /\ grid.columns = 1
              THEN /\ m_tableName \in Tables
                   /\ \E id \in RowIds, v \in Kept(ShownText(grid.cells[Star])) :
                        /\ conn.work[m_tableName][id] = Absent
                        /\ conn'.work = [conn.work EXCEPT ![m_tableName][id] = v]
              ELSE conn'.work = conn.work
<1> DEFINE text == ShownText(grid.cells[Star])
           table == m_tableName
           Stores(id, v) == conn.work[table][id] = Absent
                            /\ conn'.work = [conn.work EXCEPT ![table][id] = v]
<1>1. m_activeTransaction /\ conn.inTx /\ conn.usable /\ conn \in Connections
  BY InvFacts DEF Commit, SessionInv, FlagMeansTransaction, DatabaseInv, ClosedIsIdle
<1>2. text \in Texts /\ Kept(text) \subseteq Values
  BY InvFacts, ShownTextIsText, KeptIsValue DEF Values
<1>3. PICK i \in NewRowStored :
        IF ~i.ok THEN conn' = i.conn /\ UNCHANGED widgetVars
        ELSE \E c \in CommitTx(i.conn) :
               /\ conn' = c.conn
               /\ IF c.ok THEN m_activeTransaction' = FALSE /\ ShowTable(c.conn, m_tableName)
                  ELSE UNCHANGED widgetVars
  BY DEF Commit
<1>4. /\ i.ok = TRUE /\ i.conn.inTx
      /\ HasNewRow /\ grid.columns = 1 =>
           /\ table \in Tables
           /\ \E id \in RowIds, v \in Kept(text) :
                conn.work[table][id] = Absent /\ i.conn.work = [conn.work EXCEPT ![table][id] = v]
      /\ ~(HasNewRow /\ grid.columns = 1) => i.conn.work = conn.work
  <2>1. CASE HasNewRow /\ grid.columns = 1
    <3>1. table \in Tables
      BY <2>1 DEF ConsistentGrid
    <3>2. Rows(conn, table) # Gone
      BY <1>1, <3>1 DEF SessionInv, Whole, Rows
    <3>3. i \in insertTableRow(conn, table, text)
      BY <1>3, <2>1 DEF NewRowStored
    <3>4. PICK id \in RowIds, v \in Kept(text) :
            /\ conn.work[table][id] = Absent
            /\ i \in WriteStmt(conn, [conn.work EXCEPT ![table][id] = v])
      BY <3>2, <3>3 DEF insertTableRow
    <3>5. i = [ok |-> TRUE, conn |-> Written(conn, [conn.work EXCEPT ![table][id] = v])]
      BY <3>4, WriteStmtWorks
    <3>6. QED
      BY <1>1, <2>1, <3>1, <3>4, <3>5 DEF Written
  <2>2. CASE ~(HasNewRow /\ grid.columns = 1)
    <3>1. i = [ok |-> TRUE, conn |-> conn]
      BY <1>3, <2>2 DEF NewRowStored, Reply
    <3>2. QED
      BY <1>1, <2>2, <3>1
  <2>3. QED
    BY <2>1, <2>2
<1>5. /\ conn' = Committed(i.conn) /\ m_activeTransaction' = FALSE
      /\ ShowTable(conn', m_tableName)
  BY <1>3, <1>4, CommitTxWorks
<1>6. conn'.inTx = FALSE /\ conn'.saved = i.conn.work /\ conn'.work = i.conn.work
  BY <1>5 DEF Committed
<1>7. /\ HasNewRow /\ grid.columns = 1 =>
           table \in Tables /\ \E id \in RowIds, v \in Kept(text) : Stores(id, v)
      /\ ~(HasNewRow /\ grid.columns = 1) => conn'.work = conn.work
  <2>1. CASE HasNewRow /\ grid.columns = 1
    <3>1. PICK id \in RowIds, v \in Kept(text) :
            conn.work[table][id] = Absent /\ i.conn.work = [conn.work EXCEPT ![table][id] = v]
      BY <1>4, <2>1
    <3>2. Stores(id, v)
      BY <1>6, <3>1
    <3> HIDE DEF Stores, text
    <3>3. QED
      BY <1>4, <2>1, <3>2
  <2>2. CASE ~(HasNewRow /\ grid.columns = 1)
    BY <1>4, <1>6, <2>2
  <2>3. QED
    BY <2>1, <2>2
<1>8. conn.work \in Database /\ \A t \in Tables : conn.work[t] # Gone
  BY <1>1, FieldTypes DEF SessionInv, Whole
<1>9. conn'.work \in Database /\ \A t \in Tables : conn'.work[t] # Gone
  <2>1. CASE HasNewRow /\ grid.columns = 1
    <3>1. PICK id \in RowIds, v \in Kept(text) : table \in Tables /\ Stores(id, v)
      BY <1>7, <2>1
    <3>2. conn.work[table] \in Contents
      BY <1>8, <3>1 DEF Database
    <3>3. [conn.work[table] EXCEPT ![id] = v] \in Contents
      BY <1>2, <3>2 DEF Contents
    <3>4. [conn.work[table] EXCEPT ![id] = v] # Gone
      BY <3>3, GoneAssumption
    <3>5. QED
      BY <1>8, <3>1, <3>3, <3>4 DEF Database
  <2>2. QED
    BY <1>7, <1>8, <2>1
<1>10. Whole(conn')
  BY <1>6, <1>9 DEF Whole
<1>11. PendingRow' = {}
  <2>1. conn' \in Connections
    <3>1. i.conn \in Connections
      <4>1. CASE HasNewRow /\ grid.columns = 1
        <5>1. i \in insertTableRow(conn, table, text)
          BY <1>3, <4>1 DEF NewRowStored
        <5>2. QED
          BY <1>1, <1>2, <5>1, insertTableRowKeeps DEF Keeps, Replies, Values
      <4>2. CASE ~(HasNewRow /\ grid.columns = 1)
        BY <1>1, <1>3, <4>2 DEF NewRowStored, Reply
      <4>3. QED
        BY <4>1, <4>2
    <3>2. QED
      BY <1>5, <3>1, <1>8, ConnectionTypes
  <2>2. PICK d \in Dumps(conn', m_tableName) : grid' = d.grid
    BY <1>5 DEF ShowTable
  <2>3. QED
    BY <2>1, <2>2, DumpsFresh, FreshPending
<1>12. Session!Save
  <2>1. Owner = "grid" /\ Owner' = "none"
    BY <1>1, <1>5, <1>6 DEF Owner
  <2>2. CASE HasNewRow /\ grid.columns = 1
    <3>1. PICK id \in RowIds, v \in Kept(text) : table \in Tables /\ Stores(id, v)
      BY <1>7, <2>2
    <3> DEFINE row == <<table, text>>
    <3>2. PendingRow = {row} /\ row[1] = table /\ row[2] = text
      BY <2>2 DEF PendingRow
    <3>3. /\ conn.work[row[1]][id] = Absent /\ conn'.work = [conn.work EXCEPT ![row[1]][id] = v]
          /\ v \in Session!Kept(row[2])
      BY <3>1, SessionSets
    <3> HIDE DEF row
    <3>4. QED
      BY <1>6, <1>11, <2>1, <3>2, <3>3 DEF Session!Save
  <2>3. CASE ~(HasNewRow /\ grid.columns = 1)
    <3>1. PendingRow = {}
      BY <2>3 DEF PendingRow
    <3>2. QED
      BY <1>6, <1>7, <1>11, <2>1, <2>3, <3>1 DEF Session!Save
  <2>4. QED
    BY <2>2, <2>3
<1>13. QED
  BY <1>5, <1>6, <1>7, <1>10, <1>12 DEF SessionStep, Session!SessionNext

\* A change saved at once, unless SQL has a transaction open; no change at all
\* is one of these.
LEMMA ChangeRefines ==
  ASSUME DatabaseInv, DatabaseInv', ~m_activeTransaction, ~m_activeTransaction',
         conn'.inTx = conn.inTx, conn.inTx => conn'.saved = conn.saved
  PROVE  SessionStep
<1>1. PendingRow = {} /\ PendingRow' = {}
  BY NonePending DEF DatabaseInv, PendingChangesOwned, PendingRow
<1>2. conn'.work \in Session!Database
  BY SessionSets, FieldTypes DEF DatabaseInv, TypeOK, Connections
<1>3. Owner # "grid" /\ Owner' = Owner
  BY DEF Owner
<1>4. conn'.saved = IF Owner = "none" THEN conn'.work ELSE conn.saved
  BY DEF Owner, DatabaseInv, NothingHeldBack
<1>5. Session!ChangeNow
  BY <1>1, <1>2, <1>3, <1>4 DEF Session!ChangeNow
<1>6. QED
  BY <1>5 DEF SessionStep, Session!SessionNext

\* A row written leaves every table where it was, in an import of a file twice.
LEMMA WrittenStays ==
  ASSUME NEW c \in Connections, \A t \in Tables : c.work[t] # Gone,
         NEW t \in Tables, NEW id \in RowIds, NEW v \in Values
  PROVE  /\ [c.work EXCEPT ![t][id] = v] \in Database
         /\ \A u \in Tables : [c.work EXCEPT ![t][id] = v][u] # Gone
<1>1. c.work \in Database
  BY FieldTypes
<1>2. c.work[t] \in Contents
  BY <1>1 DEF Database
<1>3. [c.work[t] EXCEPT ![id] = v] \in Contents
  BY <1>2 DEF Contents
<1>4. [c.work[t] EXCEPT ![id] = v] # Gone
  BY <1>3, GoneAssumption
<1>5. QED
  BY <1>1, <1>3, <1>4 DEF Database

LEMMA WriteRowWhole ==
  ASSUME NothingRefused, NEW c \in Connections, \A t \in Tables : c.work[t] # Gone,
         NEW t, NEW id, NEW v \in Values, NEW w \in WriteRow(c, t, id, v)
  PROVE  \A u \in Tables : w.conn.work[u] # Gone
<1>1. CASE Rows(c, t) = Gone
  BY <1>1 DEF WriteRow, Refused, Reply
<1>2. CASE Rows(c, t) # Gone
  <2> DEFINE new == IF HasRow(c, t, id) THEN [c.work EXCEPT ![t][id] = v] ELSE c.work
  <2>1. w \in WriteStmt(c, new)
    BY <1>2 DEF WriteRow
  <2>2. \A u \in Tables : new[u] # Gone
    BY <1>2, WrittenStays DEF HasRow, Rows
  <2> HIDE DEF new
  <2>3. w = [ok |-> TRUE, conn |-> Written(c, new)]
    BY <2>1, WriteStmtWorks
  <2>4. QED
    BY <2>2, <2>3 DEF Written
<1>3. QED
  BY <1>1, <1>2

LEMMA FileWhole ==
  ASSUME NothingRefused, NEW c \in Connections, \A t \in Tables : c.work[t] # Gone,
         NEW t, NEW id, NEW v \in Values, NEW w \in updateCellWithFile(c, t, id, v)
  PROVE  \A u \in Tables : w.conn.work[u] # Gone
<1> DEFINE new(x) == [x.conn.work EXCEPT ![t][id] = v]
<1>1. PICK x \in WriteRow(c, t, id, Empty) :
        \/ w = Reply(FALSE, x.conn) \/ w = Reply(TRUE, x.conn)
        \/ x.ok /\ HasRow(x.conn, t, id) /\ w = Reply(TRUE, Written(x.conn, new(x)))
  BY DEF updateCellWithFile, Refused, Fault, Reply
<1>2. Empty \in Values
  BY ValuesAssumption DEF Values
<1>3. \A u \in Tables : x.conn.work[u] # Gone
  BY <1>1, <1>2, WriteRowWhole
<1>4. x.conn \in Connections
  BY <1>1, <1>2, WriteRowKeeps DEF Keeps, Replies
<1>5. CASE w = Reply(FALSE, x.conn) \/ w = Reply(TRUE, x.conn)
  <2>1. w.conn = x.conn
    BY <1>5 DEF Reply
  <2>2. QED
    BY <1>3, <2>1
<1>6. CASE HasRow(x.conn, t, id) /\ w = Reply(TRUE, Written(x.conn, new(x)))
  <2>1. t \in Tables /\ id \in RowIds
    BY <1>6 DEF HasRow, Rows
  <2>2. \A u \in Tables : new(x)[u] # Gone
    BY <1>3, <1>4, <2>1, WrittenStays
  <2> HIDE DEF new
  <2>3. w.conn.work = new(x)
    BY <1>6 DEF Reply, Written
  <2>4. QED
    BY <2>2, <2>3
<1>7. QED
  BY <1>1, <1>5, <1>6

LEMMA ImportSession ==
  ASSUME NothingRefused, DatabaseInv, DatabaseInv', SessionInv, Imports
  PROVE  SessionStep /\ Whole(conn') /\ m_activeTransaction' = FALSE
<1>1. PICK r \in GridRows, v \in Texts : InsertFileContents(r, v)
  BY DEF Imports
<1>2. m_activeTransaction = FALSE /\ m_activeTransaction' = FALSE
  BY <1>1, InvFacts DEF InsertFileContents
<1>3. PICK w \in updateCellWithFile(conn, m_tableName, ItemRowId(r), v) : conn' = w.conn
  BY <1>1 DEF InsertFileContents
<1>4. Keeps(conn, w) /\ conn \in Connections
  BY InvFacts, updateCellWithFileKeeps DEF Values
<1>5. conn'.inTx = conn.inTx /\ (conn.inTx => conn'.saved = conn.saved)
  BY <1>3, <1>4, NothingRefused DEF Keeps, NothingRefused
<1>6. SessionStep
  BY <1>2, <1>5, ChangeRefines
<1>7. \A t \in Tables : conn'.work[t] # Gone
  BY <1>3, <1>4, FileWhole DEF SessionInv, Whole, Values
<1>8. Whole(conn')
  BY <1>5, <1>7, NothingRefused DEF Whole, SessionInv, DatabaseInv, NothingHeldBack
<1>9. QED
  BY <1>2, <1>6, <1>8

\* The user's SQL runs only outside the grid's transactions.
LEMMA ExecuteSession ==
  ASSUME NothingRefused, DatabaseInv, DatabaseInv', SessionInv, Executes
  PROVE  SessionStep /\ Whole(conn') /\ m_activeTransaction' = FALSE
<1>1. PICK kind \in UserSql : ExecuteSql(kind)
  BY DEF Executes
<1>2. m_activeTransaction = FALSE /\ m_activeTransaction' = FALSE
  BY <1>1, InvFacts DEF ExecuteSql, SessionInv
<1>3. PICK reply \in execSql(conn, kind) : conn' = reply.conn
  BY <1>1 DEF ExecuteSql
<1>4. conn \in Connections /\ kind \in SqlKinds
  BY InvFacts, SqlAssumption
<1>5. CASE conn' = conn
  BY <1>2, <1>5, ChangeRefines DEF SessionInv
<1>a. CASE ~conn.usable
  BY <1>3, <1>5, <1>a DEF execSql, Refused, Reply
<1>6. CASE conn.usable /\ kind = "query"
  BY <1>3, <1>5, <1>6 DEF execSql, Reply
<1>7. CASE conn.usable /\ kind = "write"
  <2>1. PICK new \in Rewritten(conn.work) : reply \in WriteStmt(conn, new)
    BY <1>3, <1>7 DEF execSql
  <2>2. conn' = Written(conn, new)
    BY <1>3, <2>1, WriteStmtWorks
  <2>3. \A t \in Tables : new[t] # Gone
    BY <1>4, <2>1, NothingRefused, GoneAssumption, FieldTypes
    DEF Rewritten, NothingRefused, Database, SessionInv, Whole
  <2>4. /\ conn'.inTx = conn.inTx /\ conn'.work = new
        /\ conn'.saved = IF conn.inTx THEN conn.saved ELSE new
    BY <2>2 DEF Written
  <2>5. Whole(conn')
    BY <2>3, <2>4 DEF SessionInv, Whole
  <2>6. QED
    BY <1>2, <2>4, <2>5, ChangeRefines
<1>8. CASE conn.usable /\ kind = "begin" /\ conn' # conn
  <2>1. reply \in BeginTx(conn)
    BY <1>3, <1>8 DEF execSql
  <2>2. ~conn.inTx
    BY <1>3, <1>8, <2>1 DEF BeginTx, Refused, Reply
  <2>0. reply = [ok |-> TRUE, conn |-> [conn EXCEPT !.inTx = TRUE]]
    BY <1>8, <2>1, <2>2 DEF BeginTx, Reply
  <2>3. conn' = [conn EXCEPT !.inTx = TRUE]
    BY <1>3, <2>0
  <2>4. conn'.inTx = TRUE /\ conn'.saved = conn.saved /\ conn'.work = conn.work
    BY <1>4, <2>3 DEF Connections
  <2>5. PendingRow = {} /\ PendingRow' = {}
    BY <1>2, NonePending DEF DatabaseInv, PendingChangesOwned, PendingRow
  <2>6. Session!SqlBegin
    BY <1>2, <2>2, <2>4, <2>5 DEF Session!SqlBegin, Owner
  <2>7. QED
    BY <1>2, <2>4, <2>6 DEF SessionStep, Session!SessionNext, SessionInv, Whole
<1>9. CASE conn.usable /\ kind = "commit" /\ conn' # conn
  <2>1. conn.inTx
    BY <1>3, <1>9 DEF execSql, CommitTx, Refused, Reply
  <2>2. conn' = Committed(conn)
    BY <1>3, <1>9, <2>1, CommitTxWorks DEF execSql
  <2>3. conn'.inTx = FALSE /\ conn'.saved = conn.work /\ conn'.work = conn.work
    BY <2>2 DEF Committed
  <2>4. PendingRow = {} /\ PendingRow' = {}
    BY <1>2, NonePending DEF DatabaseInv, PendingChangesOwned, PendingRow
  <2>5. Session!SqlCommit
    BY <1>2, <2>1, <2>3, <2>4 DEF Session!SqlCommit, Owner
  <2>6. QED
    BY <1>2, <2>3, <2>5 DEF SessionStep, Session!SessionNext, SessionInv, Whole
<1>10. CASE conn.usable /\ kind = "rollback" /\ conn' # conn
  <2>1. conn.inTx
    BY <1>3, <1>10 DEF execSql, RollbackTx, Refused, Reply
  <2>2. conn' = RolledBack(conn)
    BY <1>3, <1>10, <2>1, RollbackTxWorks DEF execSql
  <2>3. PendingRow' = {}
    BY <1>2 DEF DatabaseInv, PendingChangesOwned, PendingRow
  <2>4. QED
    BY <1>2, <2>2, <2>3, DiscardRefines
<1>11. QED
  BY <1>4, <1>5, <1>a, <1>6, <1>7, <1>8, <1>9, <1>10 DEF SqlKinds

LEMMA ShowsSession ==
  ASSUME DatabaseInv, DatabaseInv', SessionInv, ShowsAnother
  PROVE  SessionStep /\ Whole(conn') /\ m_activeTransaction' = FALSE
<1>1. conn' = conn /\ m_activeTransaction = FALSE /\ m_activeTransaction' = FALSE
  BY InvFacts DEF ShowsAnother, DumpTable, SessionInv
<1>2. QED
  BY <1>1, ChangeRefines DEF SessionInv

\* With no table the engine lets go of, dropTable() is refused.
LEMMA DropsNothing ==
  ASSUME NothingRefused, Drops
  PROVE  UNCHANGED <<conn, widgetVars>>
<1>1. PICK t \in Tables : DropTable(t)
  BY DEF Drops
<1>2. PICK reply \in dropTable(conn, t) : conn' = reply.conn
  BY <1>1 DEF DropTable
<1>3. conn' = conn
  BY <1>2, NothingRefused DEF dropTable, NothingRefused, Refused, Reply
<1>4. QED
  BY <1>1, <1>3 DEF DropTable

LEMMA NothingSession ==
  ASSUME SessionInv, UNCHANGED <<conn, widgetVars>>
  PROVE  SessionStep /\ Whole(conn')
  BY DEF widgetVars, SessionStep, Session!sessionVars, Owner, PendingRow, HasNewRow,
         SessionInv, Whole

\* Opening a database shows it as it was saved.
LEMMA OpensSession ==
  ASSUME DatabaseInv, SessionInv, Opens
  PROVE  /\ SessionStep /\ Whole(conn')
         /\ conn'.inTx = FALSE /\ m_activeTransaction' = FALSE
<1>1. PICK u \in BOOLEAN : conn' = [conn EXCEPT !.usable = u]
  BY DEF Opens, active, Opened
<1>2. conn \in Connections /\ ~conn.inTx /\ m_activeTransaction = FALSE
  BY InvFacts DEF Opens, DatabaseInv, ClosedIsIdle, SessionInv, FlagMeansTransaction
<1>3. conn'.inTx = FALSE /\ conn'.saved = conn.saved /\ conn'.work = conn.work
  BY <1>1, <1>2 DEF Connections
<1>4. UNCHANGED widgetVars
  BY DEF Opens, active
<1>5. PendingRow' = PendingRow
  BY <1>4, PendingStays DEF widgetVars
<1>6. QED
  BY <1>2, <1>3, <1>4, <1>5
  DEF SessionStep, Session!sessionVars, Owner, SessionInv, Whole, widgetVars

\* The handlers behind the dialog: every answer that lets one go on has ended
\* the grid's transaction.
LEMMA GateKept ==
  ASSUME NothingRefused, DatabaseInv, ConsistentGrid, SessionInv, [Next]_vars
  PROVE  gate'.stage = "passed" => ~m_activeTransaction'
<1>1. CASE \/ Ends \/ inactive \/ Commit \/ Rollback
  BY <1>1, EndsSession, inactiveSession, CommitSession, RollbackSession
<1>2. CASE gate' = Idle
  BY <1>2 DEF Idle
<1>3. CASE GridEdit \/ ImportFile \/ (\E t \in Tables : DropTable(t))
  BY <1>2, <1>3 DEF GridEdit, ImportFile, DropTable, Ready
<1>4. CASE OpenDatabase \/ Restart \/ UNCHANGED vars
  BY <1>4 DEF OpenDatabase, active, Restart, vars, widgetVars, SessionInv
<1>5. ASSUME NEW h \in Handlers, StartHandler(h) PROVE gate'.stage = "passed" => ~m_activeTransaction'
  BY <1>5 DEF StartHandler, widgetVars
<1>6. CASE AnswerCancel \/ (\E kind \in UserSql : ExecuteSql(kind)) \/ (\E t \in Tables : DumpTable(t))
  BY <1>2, <1>6 DEF AnswerCancel, ExecuteSql, DumpTable
<1>7. CASE CloseDatabase \/ MenuCommit \/ AnswerCommit \/ MenuRollback \/ AnswerRollback
  BY <1>1, <1>7 DEF CloseDatabase, MenuCommit, AnswerCommit, MenuRollback, AnswerRollback
<1>8. CASE Exit \/ GridCrash \/ AnswerCrash
  BY <1>1, <1>8 DEF Exit, GridCrash, AnswerCrash, CutNothing, DeleteResultRow, InsertPastNames,
                   CommitCrash, RollbackCrash, Crash, Ends
<1>9. QED
  BY <1>3, <1>4, <1>5, <1>6, <1>7, <1>8 DEF Next

LEMMA SessionInvStep ==
  ASSUME NothingRefused, NoRowOfStar, DatabaseInv, DatabaseInv', ConsistentGrid, ConsistentGrid',
         SessionInv, [Next]_vars
  PROVE  SessionStep /\ SessionInv'
<1>1. SessionStep /\ Whole(conn') /\ (m_activeTransaction' => conn'.inTx)
  <2>1. CASE UNCHANGED <<conn, widgetVars>> \/ Drops
    BY <2>1, DropsNothing, NothingSession DEF SessionInv, FlagMeansTransaction, widgetVars
  <2>2. CASE Edit
    BY <2>2, EditSessionStep, EditStep, InvFacts, NothingRefused
    DEF FlagKept, FlagMeansTransaction, SessionInv, NothingRefused
  <2>3. CASE Ends
    BY <2>3, EndsSession
  <2>4. CASE inactive
    BY <2>4, inactiveSession
  <2>5. CASE Imports
    BY <2>5, ImportSession
  <2>6. CASE Commit
    BY <2>6, CommitSession
  <2>7. CASE Rollback
    BY <2>7, RollbackSession
  <2>8. CASE Executes
    BY <2>8, ExecuteSession
  <2>9. CASE ShowsAnother
    BY <2>9, ShowsSession
  <2>10. CASE Opens
    BY <2>10, OpensSession
  <2>11. QED
    BY <2>1, <2>2, <2>3, <2>4, <2>5, <2>6, <2>7, <2>8, <2>9, <2>10, Steps
<1>2. QED
  BY <1>1, GateKept DEF SessionInv, FlagMeansTransaction, Whole

LEMMA SessionStarts ==
  ASSUME Init
  PROVE  SessionInv /\ Session!SessionInit
<1>1. PICK db \in [Tables -> Contents] :
        conn = [inTx |-> FALSE, usable |-> TRUE, saved |-> db, work |-> db]
  BY DEF Init
<1>2. Whole(conn)
  BY <1>1, GoneAssumption DEF Whole
<1>3. conn.saved \in Session!Database /\ conn.work = conn.saved /\ ~conn.inTx
  BY <1>1, SessionSets DEF Database
<1>4. m_activeTransaction = FALSE /\ gate.stage = "idle" /\ PendingRow = {}
  BY DEF Init, Idle, PendingRow, EmptyGrid, BareGrid
<1>5. QED
  BY <1>2, <1>3, <1>4 DEF SessionInv, FlagMeansTransaction, Session!SessionInit, Owner

\* Under NothingRefused the flag is true of the engine, whatever SQL the user
\* runs, and no handler goes on inside the grid's transaction.
THEOREM SessionInvariant ==
  ASSUME NothingRefused, NoRowOfStar
  PROVE  Spec => []SessionInv
<1>1. Init => SessionInv
  BY SessionStarts
<1>2. /\ DatabaseInv /\ DatabaseInv' /\ ConsistentGrid /\ ConsistentGrid'
      /\ SessionInv /\ [Next]_vars
      => SessionInv'
  BY SessionInvStep
<1>3. QED
  BY <1>1, <1>2, DatabaseInvariant, GridConsistent, PTL DEF Spec

\* The refinement: the program implements EditSession, for every database,
\* every kind of SQL the user runs and every width of int.
THEOREM SessionImplemented ==
  ASSUME NothingRefused, NoRowOfStar
  PROVE  Spec => ImplementsEditSession
<1>1. Init => Session!SessionInit
  BY SessionStarts
<1>2. /\ DatabaseInv /\ DatabaseInv' /\ ConsistentGrid /\ ConsistentGrid'
      /\ SessionInv /\ [Next]_vars
      => [Session!SessionNext]_(Session!sessionVars)
  BY SessionInvStep DEF SessionStep
<1>3. QED
  BY <1>1, <1>2, DatabaseInvariant, GridConsistent, SessionInvariant, PTL
  DEF Spec, ImplementsEditSession, Session!SessionSpec

-----------------------------------------------------------------------------
\* What the grid shows is what the engine has, where no statement fails: one
\* that is refused, or an import of a file that stops halfway, is not undone in
\* the grid, and a table dropped in the tree stays on show.  A database may
\* still be one that could not be opened.
NothingFails == Faults \subseteq {"open"} /\ Droppable = {}

\* Inductive under NothingFails, beside SessionInv.  Only the "*" row is ever
\* "Init"; and a cell of the grid's transaction that is still Clean is one that
\* nothing was written to.
MatchInv ==
  /\ GridMatchesDatabase
  /\ \A r \in RowIds : grid.cells[r].state # "Init"
  /\ m_activeTransaction /\ m_mode = "DumpTable" /\ grid.columns = 1 =>
       \A r \in RowIds :
         grid.cells[r].state = "Clean" /\ ~grid.cells[r].deleted =>
           conn.work[m_tableName][r] = conn.saved[m_tableName][r]

\* A dump shows the table, outside a transaction of the grid.
LEMMA ShownMatches ==
  ASSUME NothingFails, conn' \in Connections, ~m_activeTransaction',
         NEW t, ShowTable(conn', t)
  PROVE  MatchInv'
<1>1. PICK d \in Dumps(conn', t) : grid' = d.grid
  BY DEF ShowTable
<1>2. m_tableName' = t
  BY DEF ShowTable
<1>3. CASE Rows(conn', t) = Gone
  <2>1. grid' = EmptyGrid
    BY <1>1, <1>3 DEF Dumps
  <2>2. grid'.columns = 0
    BY <2>1 DEF EmptyGrid, BareGrid
  <2>3. \A r \in RowIds : grid'.cells[r].state = "None"
    BY <2>1, BareGridFresh DEF EmptyGrid, GridRows
  <2>4. QED
    BY <2>2, <2>3 DEF MatchInv, GridMatchesDatabase
<1>4. CASE Rows(conn', t) # Gone
  <2>1. grid' = TableGrid(conn', t)
    BY <1>1, <1>4, NothingFails DEF Dumps, NothingFails
  <2>2. \A r \in RowIds : grid'.cells[r] = IF HasRow(conn', t, r) THEN InitialCell(conn'.work[t][r]) ELSE NoCell
    BY <2>1 DEF TableGrid, GridRows
  <2>3. \A v : InitialCell(v).state = "Clean" /\ InitialCell(v).data = Stored(v)
               /\ InitialCell(v).deleted = FALSE
    BY DEF InitialCell
  <2>4. NoCell.state = "None"
    BY DEF NoCell
  <2>5. QED
    BY <1>2, <2>2, <2>3, <2>4 DEF MatchInv, GridMatchesDatabase, HeldFor
<1>5. QED
  BY <1>3, <1>4

\* No grid, or a result set.
LEMMA NoneMatches ==
  ASSUME NEW n, NEW k, grid' = BareGrid(n, k), n = 0 \/ m_mode' = "DisplayResults"
  PROVE  MatchInv'
<1>1. \A r \in RowIds : grid'.cells[r].state = "None"
  BY BareGridFresh DEF GridRows
<1>2. grid'.columns = n
  BY DEF BareGrid
<1>3. QED
  BY <1>1, <1>2 DEF MatchInv, GridMatchesDatabase

\* What a slot of the grid leaves of the rest when it edits one row: the
\* transaction is begun unless there is one.
EditsIn(row) ==
  /\ UNCHANGED <<m_mode, m_tableName>>
  /\ grid'.columns = grid.columns
  /\ \A q \in RowIds \ {row} : grid'.cells[q] = grid.cells[q]
  /\ conn'.usable = conn.usable
  /\ \/ conn'.saved = conn.saved /\ m_activeTransaction' = (m_activeTransaction \/ ~conn.inTx)
     \/ UNCHANGED <<conn, m_activeTransaction>>

\* An edit of the "*" row is none of a row.
LEMMA StarMatches ==
  ASSUME DatabaseInv, MatchInv, EditsIn(Star), conn'.work = conn.work
  PROVE  MatchInv'
<1>1. \A q \in RowIds : grid'.cells[q] = grid.cells[q]
  BY GridAssumption DEF EditsIn
<1>2. \A t, q : HasRow(conn', t, q) = HasRow(conn, t, q)
  BY DEF HasRow, Rows, EditsIn
<1>3. m_activeTransaction' => m_activeTransaction \/ conn'.work = conn.saved
  BY DEF EditsIn, DatabaseInv, NothingHeldBack
<1>4. conn'.saved = conn.saved
  BY DEF EditsIn
<1>5. UNCHANGED <<m_mode, m_tableName>> /\ grid'.columns = grid.columns
  BY DEF EditsIn
<1>6. GridMatchesDatabase'
  BY <1>1, <1>2, <1>5 DEF MatchInv, GridMatchesDatabase, HeldFor
<1>7. QED
  BY <1>1, <1>3, <1>4, <1>5, <1>6 DEF MatchInv

\* The row r of the table on show is written, if it is there.
RowWritten(id, v) ==
  conn'.work = IF HasRow(conn, m_tableName, id)
                 THEN [conn.work EXCEPT ![m_tableName][id] = v]
                 ELSE conn.work

\* A row that is edited turns red and is written what may be kept of what it
\* shows, or is deleted.
LEMMA RowMatches ==
  ASSUME DatabaseInv, ConsistentGrid, MatchInv, NEW r \in RowIds, EditsIn(r),
         grid.columns \in 0..1,
         m_mode = "DumpTable" /\ grid.columns = 1 =>
           \E v \in Values \cup {Absent} :
             /\ RowWritten(r, v)
             /\ v # Absent => /\ grid'.cells[r].state = "Dirty"
                              /\ grid'.cells[r].deleted = grid.cells[r].deleted
                              /\ v \in Kept(grid'.cells[r].data)
             /\ v = Absent => grid'.cells[r].deleted,
         grid.cells[r].state # "None", grid'.cells[r].state # "Init"
  PROVE  MatchInv'
<1>1. UNCHANGED <<m_mode, m_tableName>> /\ grid'.columns = grid.columns
  BY DEF EditsIn
<1>2. \A q \in RowIds : grid'.cells[q].state # "Init"
  BY DEF EditsIn, MatchInv
<1>3. CASE ~(m_mode = "DumpTable" /\ grid.columns = 1)
  BY <1>1, <1>2, <1>3 DEF MatchInv, GridMatchesDatabase
<1>4. CASE m_mode = "DumpTable" /\ grid.columns = 1
  <2> DEFINE t == m_tableName
  <2>1. t \in Tables
    BY <1>4 DEF ConsistentGrid, DatabaseInv, TypeOK
  <2>2. PICK v \in Values \cup {Absent} :
             /\ RowWritten(r, v)
             /\ v # Absent => /\ grid'.cells[r].state = "Dirty"
                              /\ grid'.cells[r].deleted = grid.cells[r].deleted
                              /\ v \in Kept(grid'.cells[r].data)
             /\ v = Absent => grid'.cells[r].deleted
    BY <1>4
  <2>3. conn.work \in Database
    BY FieldTypes DEF DatabaseInv, TypeOK
  <2>4. \A q \in RowIds \ {r} : /\ HasRow(conn', t, q) = HasRow(conn, t, q)
                                /\ conn'.work[t][q] = conn.work[t][q]
    <3>1. CASE conn'.work = conn.work
      BY <3>1 DEF HasRow, Rows, EditsIn
    <3>2. CASE HasRow(conn, t, r) /\ conn'.work = [conn.work EXCEPT ![t][r] = v]
      <4>1. conn.work[t] \in Contents
        BY <2>1, <2>3, <3>2 DEF Database, HasRow, Rows
      <4>2. [conn.work[t] EXCEPT ![r] = v] # Gone
        BY <4>1, GoneAssumption DEF Contents
      <4>3. conn'.work[t] = [conn.work[t] EXCEPT ![r] = v]
        BY <2>1, <2>3, <3>2 DEF Database
      <4>4. conn.work[t] # Gone /\ conn'.work[t] # Gone
        BY <3>2, <4>2, <4>3 DEF HasRow, Rows
      <4>5. \A q \in RowIds \ {r} : conn'.work[t][q] = conn.work[t][q]
        BY <4>1, <4>3 DEF Contents
      <4>6. QED
        BY <2>1, <3>2, <4>4, <4>5 DEF HasRow, Rows, EditsIn
    <3>3. QED
      BY <2>2, <3>1, <3>2 DEF RowWritten
  <2>5. HasRow(conn, t, r) => conn'.work[t][r] = v /\ (HasRow(conn', t, r) <=> v # Absent)
    <3>1. SUFFICES ASSUME HasRow(conn, t, r)
                   PROVE  conn'.work[t][r] = v /\ (HasRow(conn', t, r) <=> v # Absent)
      OBVIOUS
    <3>2. conn'.work = [conn.work EXCEPT ![t][r] = v]
      BY <2>2, <3>1 DEF RowWritten
    <3>3. conn.work[t] \in Contents
      BY <2>1, <2>3, <3>1 DEF Database, HasRow, Rows
    <3>4. [conn.work[t] EXCEPT ![r] = v] # Gone
      BY <3>3, GoneAssumption DEF Contents
    <3>5. conn'.work[t] = [conn.work[t] EXCEPT ![r] = v]
      BY <2>1, <2>3, <3>2 DEF Database
    <3>6. conn'.work[t][r] = v
      BY <3>3, <3>5 DEF Contents
    <3>7. QED
      BY <2>1, <3>1, <3>4, <3>5, <3>6 DEF HasRow, Rows, EditsIn
  <2>6. ~HasRow(conn, t, r) => ~HasRow(conn', t, r)
    BY <2>2 DEF RowWritten, HasRow, Rows, EditsIn
  <2>7. (~grid.cells[r].deleted) <=> HasRow(conn, t, r)
    BY <1>4 DEF MatchInv, GridMatchesDatabase
  <2>8. GridMatchesDatabase'
    <3>1. ASSUME NEW q \in RowIds \ {r}
          PROVE  /\ (grid'.cells[q].state # "None" /\ ~grid'.cells[q].deleted) <=> HasRow(conn', t, q)
                 /\ HasRow(conn', t, q) => HeldFor(grid'.cells[q], conn'.work[t][q])
      BY <1>4, <2>4 DEF MatchInv, GridMatchesDatabase, EditsIn, HeldFor
    <3>2. /\ (grid'.cells[r].state # "None" /\ ~grid'.cells[r].deleted) <=> HasRow(conn', t, r)
          /\ HasRow(conn', t, r) => HeldFor(grid'.cells[r], conn'.work[t][r])
      BY <2>2, <2>5, <2>6, <2>7 DEF HeldFor
    <3>3. QED
      BY <1>1, <3>1, <3>2 DEF GridMatchesDatabase, HeldFor
  <2>9. ASSUME m_activeTransaction', NEW q \in RowIds,
               grid'.cells[q].state = "Clean", ~grid'.cells[q].deleted
        PROVE  conn'.work[t][q] = conn'.saved[t][q]
    <3>1. q # r
      BY <2>2, <2>9
    <3>2. grid.cells[q].state = "Clean" /\ ~grid.cells[q].deleted
      BY <2>9, <3>1 DEF EditsIn
    <3>3. conn.work[t][q] = conn.saved[t][q]
      BY <1>4, <2>9, <3>2 DEF MatchInv, EditsIn, DatabaseInv, NothingHeldBack
    <3>4. QED
      BY <2>4, <3>1, <3>3 DEF EditsIn
  <2>10. QED
    BY <1>1, <1>2, <2>8, <2>9 DEF MatchInv
<1>5. QED
  BY <1>3, <1>4

\* The statement of an edit writes its row, where nothing is refused.
LEMMA WriteRowExact ==
  ASSUME NothingRefused, NEW c, NEW t, NEW id, NEW v, NEW reply \in WriteRow(c, t, id, v)
  PROVE  /\ reply.conn.work = IF HasRow(c, t, id) THEN [c.work EXCEPT ![t][id] = v] ELSE c.work
         /\ Rows(c, t) # Gone => reply.ok
<1> DEFINE new == IF HasRow(c, t, id) THEN [c.work EXCEPT ![t][id] = v] ELSE c.work
<1>1. CASE Rows(c, t) = Gone
  BY <1>1 DEF WriteRow, Refused, Reply, HasRow
<1>2. CASE Rows(c, t) # Gone
  <2>1. reply \in WriteStmt(c, new)
    BY <1>2 DEF WriteRow
  <2> HIDE DEF new
  <2>2. reply = [ok |-> TRUE, conn |-> Written(c, new)]
    BY <2>1, WriteStmtWorks
  <2>3. reply.ok /\ reply.conn.work = new
    BY <2>2 DEF Written
  <2>4. QED
    BY <2>3 DEF new
<1>3. QED
  BY <1>1, <1>2

LEMMA WriteCellExact ==
  ASSUME NothingRefused, DatabaseInv, NEW r, NEW v, WriteCell(r, v)
  PROVE  \E k \in Kept(v) : RowWritten(ItemRowId(r), k)
<1> DEFINE id == ItemRowId(r)
<1>1. PICK b \in startTransaction : \E w \in updateTableCell(b.conn, m_tableName, id, v) : conn' = w.conn
  BY DEF WriteCell
<1>2. b.conn.work = conn.work /\ b.conn.usable = conn.usable
  BY BeginKeepsRows DEF DatabaseInv, TypeOK
<1>3. PICK k \in Kept(v) : \E w \in WriteRow(b.conn, m_tableName, id, k) : conn' = w.conn
  BY <1>1 DEF updateTableCell
<1>a. PICK w \in WriteRow(b.conn, m_tableName, id, k) : conn' = w.conn
  BY <1>3
<1> HIDE DEF id
<1>4. /\ w.conn.work = IF HasRow(b.conn, m_tableName, id)
                         THEN [b.conn.work EXCEPT ![m_tableName][id] = k] ELSE b.conn.work
      /\ Rows(b.conn, m_tableName) # Gone => w.ok
  BY <1>a, WriteRowExact, Zenon
<1>5. HasRow(b.conn, m_tableName, id) = HasRow(conn, m_tableName, id)
  BY <1>2 DEF HasRow, Rows
<1>6. RowWritten(id, k)
  BY <1>2, <1>a, <1>4, <1>5 DEF RowWritten
<1>7. QED
  BY <1>3, <1>6 DEF id

\* What Match needs of an edit, slot by slot.
LEMMA SetDataMatches ==
  ASSUME NothingRefused, RowIdsFit, DatabaseInv, ConsistentGrid, SessionInv, MatchInv,
         NEW r \in GridRows, NEW v \in Values, SetData(r, v)
  PROVE  MatchInv'
<1>1. grid \in Grids /\ grid.cells \in [GridRows -> Cells] /\ grid.columns \in 0..1
  BY InvFacts DEF GridInv
<1> DEFINE cell == EditedCell(grid.cells[r], v)
<1>2. /\ grid' = [grid EXCEPT !.cells[r] = cell] /\ grid.cells[r].state # "None"
      /\ UNCHANGED <<m_mode, m_tableName>>
      /\ IF grid.cells[r].state = "Init" THEN UNCHANGED <<conn, m_activeTransaction>>
         ELSE WriteCell(r, Stored(v))
  BY DEF SetData
<1>3. /\ cell.state = IF grid.cells[r].state = "Init" THEN "Clean" ELSE "Dirty"
      /\ cell.data = Stored(v) /\ cell.deleted = grid.cells[r].deleted
  BY DEF EditedCell
<1> HIDE DEF cell
<1>4. /\ grid'.columns = grid.columns /\ grid'.cells[r] = cell
      /\ \A q \in RowIds \ {r} : grid'.cells[q] = grid.cells[q]
  BY <1>1, <1>2 DEF Grids, GridRows
<1>5. Stored(v) \in Values /\ Kept(Stored(v)) \subseteq Values /\ Absent \notin Values
  BY KeptIsValue, ValuesAssumption DEF Stored, Values
<1>6. WriteCell(r, Stored(v)) =>
        /\ \E k \in Kept(Stored(v)) : RowWritten(ItemRowId(r), k)
        /\ \/ \E k \in Kept(Stored(v)) : EditEffect(ItemRowId(r), k)
           \/ UNCHANGED <<conn, m_activeTransaction>>
  BY <1>2, <1>5, WriteCellEffect, WriteCellExact
<1>7. EditsIn(r)
  BY <1>2, <1>4, <1>6 DEF EditsIn, EditEffect, Wrote
<1>8. CASE r = Star
  <2>1. conn'.work = conn.work
    BY <1>2, <1>6, <1>8, RowIdsFit DEF RowWritten, HasRow, ItemRowId, RowIdsFit
  <2>2. QED
    BY <1>7, <1>8, <2>1, StarMatches
<1>9. CASE r \in RowIds
  <2>1. ItemRowId(r) = r
    BY <1>9, RowIdsFit, GridAssumption DEF RowIdsFit, ItemRowId
  <2>2. grid.cells[r].state # "Init"
    BY <1>9 DEF MatchInv
  <2>3. PICK k \in Kept(Stored(v)) : RowWritten(r, k)
    BY <1>2, <1>6, <2>1, <2>2
  <2>a. k \in Values \cup {Absent} /\ k # Absent
    BY <1>5, <2>3
  <2>b. /\ grid'.cells[r].state = "Dirty" /\ k \in Kept(grid'.cells[r].data)
        /\ grid'.cells[r].deleted = grid.cells[r].deleted
    BY <1>3, <1>4, <2>2, <2>3
  <2>4. QED
    BY <1>1, <1>2, <1>7, <1>9, <2>2, <2>3, <2>a, <2>b, RowMatches
<1>10. QED
  BY <1>8, <1>9 DEF GridRows

LEMMA SetNullMatches ==
  ASSUME NothingRefused, RowIdsFit, DatabaseInv, ConsistentGrid, SessionInv, MatchInv,
         NEW r \in GridRows, SetNull(r)
  PROVE  MatchInv'
<1>1. grid \in Grids /\ grid.cells \in [GridRows -> Cells] /\ grid.columns \in 0..1
  BY InvFacts DEF GridInv
<1> DEFINE cell == [grid.cells[r] EXCEPT !.state = "Dirty", !.data = Null]
<1>2. /\ grid' = [grid EXCEPT !.cells[r] = cell] /\ grid.cells[r].state # "None"
      /\ UNCHANGED <<m_mode, m_tableName>> /\ WriteCell(r, Null)
  BY DEF SetNull
<1>3. cell.state = "Dirty" /\ cell.data = Null /\ cell.deleted = grid.cells[r].deleted
  BY <1>1 DEF Cells
<1> HIDE DEF cell
<1>4. /\ grid'.columns = grid.columns /\ grid'.cells[r] = cell
      /\ \A q \in RowIds \ {r} : grid'.cells[q] = grid.cells[q]
  BY <1>1, <1>2 DEF Grids, GridRows
<1>5. Null \in Values /\ Kept(Null) = {Null} /\ Null # Absent
  BY ValuesAssumption DEF Kept, Values
<1>6. /\ RowWritten(ItemRowId(r), Null)
      /\ EditEffect(ItemRowId(r), Null) \/ UNCHANGED <<conn, m_activeTransaction>>
  BY <1>2, <1>5, WriteCellEffect, WriteCellExact
<1>7. EditsIn(r)
  BY <1>2, <1>4, <1>6 DEF EditsIn, EditEffect, Wrote
<1>8. CASE r = Star
  <2>1. conn'.work = conn.work
    BY <1>6, <1>8, RowIdsFit DEF RowWritten, HasRow, ItemRowId, RowIdsFit
  <2>2. QED
    BY <1>7, <1>8, <2>1, StarMatches
<1>9. CASE r \in RowIds
  <2>1. ItemRowId(r) = r
    BY <1>9, RowIdsFit, GridAssumption DEF RowIdsFit, ItemRowId
  <2>2. QED
    BY <1>1, <1>2, <1>3, <1>4, <1>5, <1>6, <1>7, <1>9, <2>1, RowMatches
<1>10. QED
  BY <1>8, <1>9 DEF GridRows

LEMMA DeleteRowMatches ==
  ASSUME NothingRefused, RowIdsFit, DatabaseInv, ConsistentGrid, SessionInv, MatchInv,
         NEW r \in GridRows, DeleteRow(r)
  PROVE  MatchInv'
<1>1. grid \in Grids /\ grid.cells \in [GridRows -> Cells] /\ grid.columns \in 0..1
  BY InvFacts DEF GridInv
<1> DEFINE id == HeaderRowId(r)
<1>2. PICK b \in beginTransaction :
        /\ m_activeTransaction' = b.ok
        /\ IF ~b.ok THEN conn' = b.conn /\ UNCHANGED grid
           ELSE \E d \in deleteTableRow(b.conn, m_tableName, id) :
                  conn' = d.conn
                  /\ grid' = IF d.ok THEN [grid EXCEPT !.cells[r].deleted = TRUE] ELSE grid
  BY DEF DeleteRow
<1>3. UNCHANGED <<m_mode, m_tableName>> /\ grid.cells[r].state # "None"
  BY DEF DeleteRow
<1>4. b.conn.work = conn.work /\ b.conn.usable = conn.usable
  BY BeginKeepsRows DEF DatabaseInv, TypeOK
<1>5. EditEffect(id, Absent) \/ UNCHANGED <<conn, m_activeTransaction>>
  BY DeleteRowEffect
<1> HIDE DEF id
<1>6. grid' = grid \/ grid' = [grid EXCEPT !.cells[r].deleted = TRUE]
  BY <1>2
<1>7. /\ grid'.columns = grid.columns /\ grid'.cells[r].state = grid.cells[r].state
      /\ \A q \in RowIds \ {r} : grid'.cells[q] = grid.cells[q]
  BY <1>1, <1>6 DEF Grids, GridRows, Cells
<1>8. EditsIn(r)
  BY <1>3, <1>5, <1>7 DEF EditsIn, EditEffect, Wrote
<1>9. CASE r = Star
  <2>1. conn'.work = conn.work
    BY <1>5, <1>9, RowIdsFit DEF EditEffect, Wrote, HasRow, HeaderRowId, RowIdsFit, id
  <2>2. QED
    BY <1>8, <1>9, <2>1, StarMatches
<1>10. CASE r \in RowIds /\ ~b.ok
  <2>1. conn'.work = conn.work /\ grid' = grid
    BY <1>2, <1>4, <1>10
  <2>2. EditsIn(Star)
    BY <1>8, <2>1 DEF EditsIn
  <2>3. QED
    BY <2>1, <2>2, StarMatches
<1>11. CASE r \in RowIds /\ b.ok
  <2>1. id = r
    BY <1>11, RowIdsFit, GridAssumption DEF RowIdsFit, HeaderRowId, id
  <2>2. PICK d \in WriteRow(b.conn, m_tableName, r, Absent) :
          conn' = d.conn /\ grid' = IF d.ok THEN [grid EXCEPT !.cells[r].deleted = TRUE] ELSE grid
    BY <1>2, <1>11, <2>1 DEF deleteTableRow
  <2>3. /\ d.conn.work = IF HasRow(b.conn, m_tableName, r)
                           THEN [b.conn.work EXCEPT ![m_tableName][r] = Absent] ELSE b.conn.work
        /\ Rows(b.conn, m_tableName) # Gone => d.ok
    BY <2>2, WriteRowExact, Zenon
  <2>4. HasRow(b.conn, m_tableName, r) = HasRow(conn, m_tableName, r)
        /\ Rows(b.conn, m_tableName) = Rows(conn, m_tableName)
    BY <1>4 DEF HasRow, Rows
  <2>5. RowWritten(r, Absent)
    BY <1>4, <2>2, <2>3, <2>4 DEF RowWritten
  <2>6. m_mode = "DumpTable" /\ grid.columns = 1 => grid'.cells[r].deleted
    <3>1. SUFFICES ASSUME m_mode = "DumpTable", grid.columns = 1 PROVE grid'.cells[r].deleted
      OBVIOUS
    <3>2. m_tableName \in Tables
      BY <3>1 DEF ConsistentGrid, DatabaseInv, TypeOK
    <3>a. conn.usable
      BY <1>2, <1>11 DEF beginTransaction, BeginTx, Refused, Reply, SessionInv, FlagMeansTransaction,
                         DatabaseInv, ClosedIsIdle
    <3>3. d.ok
      BY <2>3, <2>4, <3>2, <3>a DEF SessionInv, Whole, Rows
    <3>4. QED
      BY <1>1, <2>2, <3>3 DEF Grids, Cells, GridRows
  <2>7. grid.cells[r].state # "Init"
    BY <1>11 DEF MatchInv
  <2>8. QED
    BY <1>1, <1>3, <1>7, <1>8, <1>11, <2>5, <2>6, <2>7, RowMatches
<1>12. QED
  BY <1>9, <1>10, <1>11 DEF GridRows

LEMMA InsertMatches ==
  ASSUME DatabaseInv, SessionInv, MatchInv, Insert
  PROVE  MatchInv'
<1>1. /\ conn'.work = conn.work /\ conn'.usable = conn.usable
      /\ \/ conn'.saved = conn.saved /\ m_activeTransaction' = (m_activeTransaction \/ ~conn.inTx)
         \/ UNCHANGED <<conn, m_activeTransaction>>
  BY InsertEffect, BeginKeepsRows DEF Insert, DatabaseInv, TypeOK
<1>2. \/ grid' = grid
      \/ grid' = [grid EXCEPT !.cells[Star] = [NoCell EXCEPT !.state = "Init", !.data = Empty]]
  BY DEF Insert
<1>3. grid \in Grids
  BY DEF DatabaseInv, TypeOK
<1>4. grid'.columns = grid.columns /\ \A q \in RowIds \ {Star} : grid'.cells[q] = grid.cells[q]
  BY <1>2, <1>3 DEF Grids, GridRows
<1>5. EditsIn(Star)
  BY <1>1, <1>4 DEF EditsIn, Insert
<1>6. QED
  BY <1>1, <1>5, StarMatches

\* The rows as they were, under no transaction of the grid.
LEMMA SameMatches ==
  ASSUME MatchInv, UNCHANGED <<grid, m_mode, m_tableName>>, conn'.work = conn.work,
         conn'.usable = conn.usable,
         ~m_activeTransaction' \/ UNCHANGED <<conn, m_activeTransaction>>
  PROVE  MatchInv'
<1>1. \A t, q : HasRow(conn', t, q) = HasRow(conn, t, q)
  BY DEF HasRow, Rows
<1>2. QED
  BY <1>1 DEF MatchInv, GridMatchesDatabase, HeldFor

\* Where blobs can be written, an import that fails has written nothing: its
\* UPDATE was refused, or met no row.
LEMMA ImportFails ==
  ASSUME "blob" \notin Faults, "rollback" \notin Faults, DatabaseInv,
         NEW t, NEW id, NEW v, NEW w \in updateCellWithFile(conn, t, id, v), ~w.ok
  PROVE  w.conn.work = conn.work /\ w.conn.usable = conn.usable
<1> DEFINE new == IF HasRow(conn, t, id) THEN [conn.work EXCEPT ![t][id] = Empty] ELSE conn.work
<1>1. PICK x \in WriteRow(conn, t, id, Empty) :
        w \in IF x.ok /\ HasRow(x.conn, t, id)
                THEN {Reply(TRUE, Written(x.conn, [x.conn.work EXCEPT ![t][id] = v]))}
                       \cup Fault("blob", x.conn)
                       \cup (IF "blob" \in Faults /\ ~conn.inTx THEN {Reply(TRUE, x.conn)} ELSE {})
                ELSE Refused(x.conn)
  BY DEF updateCellWithFile
<1>2. w = [ok |-> FALSE, conn |-> x.conn] /\ ~(x.ok /\ HasRow(x.conn, t, id))
  BY <1>1 DEF Refused, Fault, Reply
<1>3. x = Reply(FALSE, conn) \/ (Rows(conn, t) # Gone /\ x = Reply(TRUE, Written(conn, new)))
  BY DEF WriteRow, WriteStmt, Refused, Fault
<1>4. CASE x = Reply(FALSE, conn)
  BY <1>2, <1>4 DEF Reply
<1>5. CASE Rows(conn, t) # Gone /\ x = Reply(TRUE, Written(conn, new))
  <2>1. x.ok /\ x.conn.work = new /\ x.conn.usable = conn.usable
    BY <1>5 DEF Reply, Written
  <2>2. ~HasRow(conn, t, id)
    <3>1. SUFFICES ASSUME HasRow(conn, t, id) PROVE FALSE
      OBVIOUS
    <3>2. x.conn.work = [conn.work EXCEPT ![t][id] = Empty]
      BY <2>1, <3>1
    <3>3. t \in Tables /\ id \in RowIds /\ conn.usable /\ conn.work \in Database
      BY <3>1, FieldTypes DEF HasRow, Rows, DatabaseInv, TypeOK
    <3>4. conn.work[t] \in Contents
      BY <3>1, <3>3 DEF Database, HasRow, Rows
    <3>5. x.conn.work[t] = [conn.work[t] EXCEPT ![id] = Empty]
      BY <3>2, <3>3 DEF Database
    <3>6. x.conn.work[t] \in Contents /\ x.conn.work[t][id] = Empty /\ Empty \in Values
      BY <3>3, <3>4, <3>5, ValuesAssumption DEF Contents, Values
    <3>7. HasRow(x.conn, t, id)
      BY <2>1, <3>3, <3>6, GoneAssumption, ValuesAssumption DEF HasRow, Rows
    <3>8. QED
      BY <1>2, <2>1, <3>7
  <2>3. QED
    BY <1>2, <2>1, <2>2
<1>6. QED
  BY <1>3, <1>4, <1>5

\* An import whose UPDATE meets no row shows the grid as it is; the others dump
\* the table again.
LEMMA ImportMatches ==
  ASSUME NothingFails, DatabaseInv, DatabaseInv', MatchInv, Imports
  PROVE  MatchInv'
<1>1. PICK r \in GridRows, v \in Texts : InsertFileContents(r, v)
  BY DEF Imports
<1>2. m_activeTransaction' = FALSE
  BY <1>1, InvFacts DEF InsertFileContents
<1> DEFINE t == m_tableName
           id == ItemRowId(r)
<1>3. PICK w \in updateCellWithFile(conn, t, id, v) :
        /\ conn' = w.conn
        /\ IF w.ok THEN ShowTable(w.conn, t)
           ELSE UNCHANGED <<grid, m_mode, m_tableName, m_columnNames>>
  BY <1>1 DEF InsertFileContents
<1> HIDE DEF t, id
<1>4. CASE w.ok
  <2>1. ShowTable(conn', t) /\ conn' \in Connections
    BY <1>3, <1>4 DEF DatabaseInv, TypeOK
  <2>2. QED
    BY <1>2, <2>1, ShownMatches
<1>5. CASE ~w.ok
  <2>1. conn'.work = conn.work /\ conn'.usable = conn.usable
    BY <1>3, <1>5, NothingFails, ImportFails DEF NothingFails
  <2>2. UNCHANGED <<grid, m_mode, m_tableName>>
    BY <1>3, <1>5
  <2>3. QED
    BY <1>2, <2>1, <2>2, SameMatches
<1>6. QED
  BY <1>4, <1>5

LEMMA MatchStep ==
  ASSUME NothingFails, RowIdsFit, DatabaseInv, DatabaseInv', ConsistentGrid, SessionInv, MatchInv,
         [Next]_vars
  PROVE  MatchInv'
<1>0. NothingRefused /\ conn' \in Connections
  BY NothingFails DEF NothingFails, NothingRefused, DatabaseInv, TypeOK
<1>1. CASE Ends \/ inactive
  BY <1>1, NoneMatches DEF Ends, Ended, inactive, EmptyGrid
<1>2. CASE Edit
  BY <1>0, <1>2, SetDataMatches, SetNullMatches, DeleteRowMatches, InsertMatches DEF Edit
<1>3. CASE Imports
  BY <1>3, ImportMatches
<1>4. CASE Commit
  BY <1>0, <1>4, CommitSession, ShownMatches
<1>5. CASE Rollback
  BY <1>0, <1>5, RollbackSession, ShownMatches
<1>6. CASE Executes
  BY <1>6, NoneMatches DEF Executes, ExecuteSql, ShowResults
<1>7. CASE ShowsAnother
  <2>1. PICK t \in Tables : DumpTable(t)
    BY <1>7 DEF ShowsAnother
  <2>2. ShowTable(conn', t) /\ ~m_activeTransaction'
    BY <2>1 DEF DumpTable, SessionInv
  <2>3. QED
    BY <1>0, <2>2, ShownMatches
<1>8. CASE Drops \/ UNCHANGED <<conn, widgetVars>>
  BY <1>0, <1>8, DropsNothing, SameMatches DEF widgetVars
<1>9. CASE Opens
  BY <1>9, NoneMatches DEF Opens, active, widgetVars, DatabaseInv, ClosedIsIdle, EmptyGrid
<1>10. QED
  BY <1>1, <1>2, <1>3, <1>4, <1>5, <1>6, <1>7, <1>8, <1>9, Steps

LEMMA FitExcludesStar ==
  ASSUME NothingFails, RowIdsFit
  PROVE  NothingRefused /\ NoRowOfStar
  BY DEF NothingFails, RowIdsFit, NothingRefused, NoRowOfStar

\* If no statement is refused and rowids fit an int: a cell nobody edited shows
\* what the engine has there, of an edited one the engine holds what it may keep
\* of the text on show, and a cell that is not marked is what is saved.
THEOREM MatchInvariant ==
  ASSUME NothingFails, RowIdsFit
  PROVE  Spec => []MatchInv
<1>1. Init => MatchInv
  BY NoneMatches, BareGridFresh DEF Init, MatchInv, GridMatchesDatabase, EmptyGrid, BareGrid, NoCell, GridRows
<1>2. /\ DatabaseInv /\ DatabaseInv' /\ ConsistentGrid /\ SessionInv /\ MatchInv /\ [Next]_vars
      => MatchInv'
  BY MatchStep
<1>3. QED
  BY <1>1, <1>2, FitExcludesStar, DatabaseInvariant, GridConsistent, SessionInvariant, PTL DEF Spec

\* Where no statement fails, the grid shows the rows of the table the engine
\* has, deletions and all, through every dialog, crash and restart: each with its
\* value, or with a text that value is what the engine may keep of.
THEOREM GridShowsDatabase ==
  ASSUME NothingFails, RowIdsFit
  PROVE  Spec => []GridMatchesDatabase
<1>1. MatchInv => GridMatchesDatabase
  BY DEF MatchInv
<1>2. QED
  BY <1>1, MatchInvariant, PTL

\* And a cell that is not painted red shows what is in the file.
THEOREM UnmarkedSaved ==
  ASSUME NothingFails, RowIdsFit
  PROVE  Spec => []UnmarkedCellsAreSaved
<1>1. DatabaseInv /\ MatchInv => UnmarkedCellsAreSaved
  BY DEF DatabaseInv, NothingHeldBack, MatchInv, GridMatchesDatabase, UnmarkedCellsAreSaved, HeldFor
<1>2. QED
  BY <1>1, DatabaseInvariant, MatchInvariant, PTL

\* A commit saves the table as it is shown, up to what the engine may keep of
\* the texts that were typed: every row, and the pending one once and in a row of
\* its own.
THEOREM CommitSavesShown ==
  ASSUME NothingFails, RowIdsFit
  PROVE  Spec => CommitSavesWhatIsShown
<1> DEFINE Saves ==
      LET saved == conn'.saved[m_tableName]
          shown == {r \in RowIds : grid.cells[r].state # "None" /\ ~grid.cells[r].deleted}
          added == {r \in RowIds \ shown : saved[r] # Absent}
      IN  /\ \A r \in shown : HeldFor(grid.cells[r], saved[r])
          /\ HasNewRow => \E r \in added :
                            added = {r} /\ saved[r] \in Kept(ShownText(grid.cells[Star]))
          /\ ~HasNewRow => added = {}
<1>1. ASSUME DatabaseInv, ConsistentGrid, SessionInv, MatchInv, Commit,
             m_mode = "DumpTable", grid.columns = 1
      PROVE  Saves
  <2> DEFINE t == m_tableName
             text == ShownText(grid.cells[Star])
             shown == {r \in RowIds : grid.cells[r].state # "None" /\ ~grid.cells[r].deleted}
             added == {r \in RowIds \ shown : conn'.saved[t][r] # Absent}
  <2>1. /\ conn'.saved = conn'.work
        /\ IF HasNewRow
             THEN \E id \in RowIds, v \in Kept(text) :
                    /\ conn.work[t][id] = Absent
                    /\ conn'.work = [conn.work EXCEPT ![t][id] = v]
             ELSE conn'.work = conn.work
    BY <1>1, FitExcludesStar, CommitSession
  <2>2. t \in Tables
    BY <1>1 DEF ConsistentGrid, DatabaseInv, TypeOK
  <2>3. conn.work[t] \in Contents
    BY <1>1, <2>2, FieldTypes DEF DatabaseInv, TypeOK, Database, SessionInv, Whole
  <2>4. \A v \in Kept(text) : v # Absent
    BY <1>1, InvFacts, ShownTextIsText, KeptIsValue, ValuesAssumption DEF Values
  <2>5. \A r \in RowIds : /\ r \in shown <=> conn.work[t][r] # Absent
                          /\ r \in shown => HeldFor(grid.cells[r], conn.work[t][r])
    <3>1. conn.usable
      BY <1>1 DEF Commit, SessionInv, FlagMeansTransaction, DatabaseInv, ClosedIsIdle
    <3>2. \A r \in RowIds : HasRow(conn, t, r) <=> conn.work[t][r] # Absent
      BY <2>2, <2>3, <3>1, GoneAssumption DEF HasRow, Rows
    <3>3. QED
      BY <1>1, <3>2 DEF MatchInv, GridMatchesDatabase
  <2> HIDE DEF shown, text
  <2>6. CASE HasNewRow
    <3>1. PICK id \in RowIds, v \in Kept(text) :
            /\ conn.work[t][id] = Absent
            /\ conn'.work = [conn.work EXCEPT ![t][id] = v]
      BY <2>1, <2>6
    <3>2. conn'.saved[t] = [conn.work[t] EXCEPT ![id] = v]
      BY <1>1, <2>1, <2>2, <3>1, FieldTypes DEF DatabaseInv, TypeOK, Database
    <3>3. /\ conn'.saved[t][id] = v
          /\ \A r \in RowIds \ {id} : conn'.saved[t][r] = conn.work[t][r]
      BY <2>3, <3>2 DEF Contents
    <3>4. \A r \in shown : HeldFor(grid.cells[r], conn'.saved[t][r])
      BY <2>5, <3>1, <3>3 DEF shown
    <3>5. added = {id}
      BY <2>4, <2>5, <3>1, <3>3
    <3>6. QED
      BY <2>6, <3>1, <3>3, <3>4, <3>5 DEF shown, text
  <2>7. CASE ~HasNewRow
    <3>1. conn'.saved = conn.work
      BY <2>1, <2>7
    <3>2. \A r \in shown : HeldFor(grid.cells[r], conn'.saved[t][r])
      BY <2>5, <3>1 DEF shown
    <3>3. added = {}
      BY <2>5, <3>1
    <3>4. QED
      BY <2>7, <3>2, <3>3 DEF shown
  <2>8. QED
    BY <2>6, <2>7
<1>2. DatabaseInv /\ ConsistentGrid /\ SessionInv /\ MatchInv /\ [Next]_vars =>
        [Commit /\ ~m_activeTransaction' /\ m_mode = "DumpTable" /\ grid.columns = 1 => Saves]_vars
  BY <1>1
<1>3. QED
  BY <1>2, FitExcludesStar, DatabaseInvariant, GridConsistent, SessionInvariant, MatchInvariant, PTL
  DEF Spec, CommitSavesWhatIsShown

-----------------------------------------------------------------------------
\* Statements may be refused, imports may break off, tables may be dropped, and
\* databases may not open, but the engine rolls nothing back on its own.
OnlyRefuses == "rollback" \notin Faults

\* Inductive under OnlyRefuses.
MarkedInv ==
  /\ RefusedEditsAreMarked
  /\ \A r \in RowIds : grid.cells[r].state # "Init"

LEMMA NoneMarked ==
  ASSUME NEW n, NEW k, grid' = BareGrid(n, k)
  PROVE  MarkedInv'
<1>1. \A r \in RowIds : grid'.cells[r].state = "None"
  BY BareGridFresh DEF GridRows
<1>2. QED
  BY <1>1 DEF MarkedInv, RefusedEditsAreMarked

LEMMA ShownMarked ==
  ASSUME NEW t, ShowTable(conn', t)
  PROVE  MarkedInv'
<1>1. PICK d \in Dumps(conn', t) : grid' = d.grid
  BY DEF ShowTable
<1>2. m_tableName' = t
  BY DEF ShowTable
<1>3. \/ grid' = TableGrid(conn', t)
      \/ \E n \in 0..1 : grid' = BareGrid(n, 0)
  BY <1>1 DEF Dumps, EmptyGrid
<1>4. CASE grid' = TableGrid(conn', t)
  <2>1. \A r \in RowIds : grid'.cells[r] = IF HasRow(conn', t, r) THEN InitialCell(conn'.work[t][r]) ELSE NoCell
    BY <1>4 DEF TableGrid, GridRows
  <2>2. \A v : InitialCell(v).state = "Clean" /\ InitialCell(v).data = Stored(v)
    BY DEF InitialCell
  <2>3. NoCell.state = "None"
    BY DEF NoCell
  <2>4. QED
    BY <1>2, <2>1, <2>2, <2>3 DEF MarkedInv, RefusedEditsAreMarked
<1>5. QED
  BY <1>3, <1>4, NoneMarked

\* The rows of the table on show, but for row id, are still there, as they were;
\* a table that is gone does not come back.
RowsKept(id) ==
  /\ Rows(conn', m_tableName) # Gone => Rows(conn, m_tableName) # Gone
  /\ \A q \in RowIds \ {id} :
       HasRow(conn, m_tableName, q) =>
         HasRow(conn', m_tableName, q) /\ conn'.work[m_tableName][q] = conn.work[m_tableName][q]

\* A slot that leaves the other rows alone, and its own row red or deleted, or
\* alone too.
LEMMA MarkedKept ==
  ASSUME MarkedInv, NEW r \in GridRows, UNCHANGED <<m_mode, m_tableName>>,
         grid'.columns = grid.columns, RowsKept(r),
         \A q \in RowIds \ {r} : grid'.cells[q] = grid.cells[q],
         r \in RowIds =>
           /\ grid'.cells[r].state # "Init"
           /\ \/ grid'.cells[r].deleted
              \/ /\ grid'.cells[r].deleted = grid.cells[r].deleted
                 /\ grid.cells[r].state # "None" /\ grid'.cells[r].state # "Clean"
                 /\ HasRow(conn, m_tableName, r) => HasRow(conn', m_tableName, r)
              \/ grid'.cells[r] = grid.cells[r] /\ RowsKept(Star)
  PROVE  MarkedInv'
<1>1. Star \notin RowIds
  BY GridAssumption
<1>2. QED
  BY <1>1 DEF MarkedInv, RefusedEditsAreMarked, RowsKept

\* A statement that writes row id leaves the others, and that row there, with what
\* it writes or as it was.
LEMMA WroteKeeps ==
  ASSUME DatabaseInv, NEW id, NEW v \in Values \cup {Absent},
         Wrote(conn', conn, m_tableName, id, v)
  PROVE  /\ RowsKept(id)
         /\ v # Absent /\ HasRow(conn, m_tableName, id) =>
              /\ HasRow(conn', m_tableName, id)
              /\ conn'.work[m_tableName][id] \in {v, conn.work[m_tableName][id]}
<1>1. \A q : HasRow(conn, m_tableName, q) => m_tableName \in Tables /\ q \in RowIds
  BY DEF HasRow, Rows
<1>a. Rows(conn', m_tableName) # Gone => Rows(conn, m_tableName) # Gone
  BY DEF Wrote, Rows, HasRow
<1>2. RowsKept(id)
  BY <1>1, <1>a, WroteStays DEF RowsKept
<1>3. ASSUME v # Absent, HasRow(conn, m_tableName, id)
      PROVE  /\ HasRow(conn', m_tableName, id)
             /\ conn'.work[m_tableName][id] \in {v, conn.work[m_tableName][id]}
  <2>0. conn'.usable = conn.usable
    BY DEF Wrote
  <2>1. CASE conn'.work = conn.work
    BY <1>3, <2>0, <2>1 DEF HasRow, Rows
  <2>2. CASE conn'.work = [conn.work EXCEPT ![m_tableName][id] = v]
    <3>1. m_tableName \in Tables /\ id \in RowIds /\ conn.work \in Database
          /\ conn.work[m_tableName] # Gone
      BY <1>3, FieldTypes DEF HasRow, Rows, DatabaseInv, TypeOK
    <3>2. conn.work[m_tableName] \in Contents
      BY <3>1 DEF Database
    <3>3. conn'.work[m_tableName] = [conn.work[m_tableName] EXCEPT ![id] = v]
      BY <2>2, <3>1 DEF Database
    <3>4. conn'.work[m_tableName] \in Contents /\ conn'.work[m_tableName][id] = v
      BY <3>1, <3>2, <3>3 DEF Contents
    <3>5. QED
      BY <1>3, <2>0, <3>1, <3>4, GoneAssumption DEF HasRow, Rows
  <2>3. QED
    BY <2>1, <2>2 DEF Wrote
<1>4. QED
  BY <1>2, <1>3

LEMMA EditMarked ==
  ASSUME OnlyRefuses, RowIdsFit, DatabaseInv, MarkedInv, Edit
  PROVE  MarkedInv'
<1>0. "rollback" \notin Faults
  BY DEF OnlyRefuses
<1>1. grid \in Grids /\ grid.cells \in [GridRows -> Cells] /\ Star \notin RowIds
  BY InvFacts, GridAssumption DEF GridInv
<1>2. \A r \in RowIds : ItemRowId(r) = r /\ HeaderRowId(r) = r
  BY RowIdsFit, GridAssumption DEF RowIdsFit, ItemRowId, HeaderRowId
<1>3. \A id : id \notin RowIds /\ RowsKept(id) => RowsKept(Star)
  BY <1>1 DEF RowsKept
<1>4. ItemRowId(Star) \notin RowIds /\ HeaderRowId(Star) \notin RowIds
  BY RowIdsFit DEF RowIdsFit, ItemRowId, HeaderRowId
<1>5. ASSUME NEW r \in GridRows, NEW v \in Values, SetData(r, v) PROVE MarkedInv'
  <2> DEFINE cell == EditedCell(grid.cells[r], v)
  <2>1. /\ grid' = [grid EXCEPT !.cells[r] = cell] /\ grid.cells[r].state # "None"
        /\ UNCHANGED <<m_mode, m_tableName>>
    BY <1>5 DEF SetData
  <2>2. cell.deleted = grid.cells[r].deleted
        /\ (grid.cells[r].state # "Init" => cell.state = "Dirty")
    BY DEF EditedCell
  <2> HIDE DEF cell
  <2>3. /\ grid'.columns = grid.columns /\ grid'.cells[r] = cell
        /\ \A q \in RowIds \ {r} : grid'.cells[q] = grid.cells[q]
    BY <1>1, <2>1 DEF Grids, GridRows
  <2>4. PICK k \in Values : Wrote(conn', conn, m_tableName, ItemRowId(r), k)
    BY <1>0, <1>5, SetDataWrites
  <2>5. k # Absent
    BY <2>4, ValuesAssumption
  <2>6. RowsKept(ItemRowId(r))
        /\ (HasRow(conn, m_tableName, ItemRowId(r)) => HasRow(conn', m_tableName, ItemRowId(r)))
    BY <2>4, <2>5, WroteKeeps
  <2>7. RowsKept(r)
    BY <1>2, <1>3, <1>4, <2>6 DEF GridRows
  <2>8. r \in RowIds => grid.cells[r].state # "Init"
    BY DEF MarkedInv
  <2>9. QED
    BY <1>2, <2>1, <2>2, <2>3, <2>6, <2>7, <2>8, MarkedKept
<1>6. ASSUME NEW r \in GridRows, SetNull(r) PROVE MarkedInv'
  <2> DEFINE cell == [grid.cells[r] EXCEPT !.state = "Dirty", !.data = Null]
  <2>1. /\ grid' = [grid EXCEPT !.cells[r] = cell] /\ grid.cells[r].state # "None"
        /\ UNCHANGED <<m_mode, m_tableName>>
    BY <1>6 DEF SetNull
  <2>2. cell.state = "Dirty" /\ cell.deleted = grid.cells[r].deleted
    BY <1>1 DEF Cells
  <2> HIDE DEF cell
  <2>3. /\ grid'.columns = grid.columns /\ grid'.cells[r] = cell
        /\ \A q \in RowIds \ {r} : grid'.cells[q] = grid.cells[q]
    BY <1>1, <2>1 DEF Grids, GridRows
  <2>4. PICK k \in Values : Wrote(conn', conn, m_tableName, ItemRowId(r), k)
    BY <1>0, <1>6, SetNullWrites
  <2>5. k # Absent
    BY <2>4, ValuesAssumption
  <2>6. RowsKept(ItemRowId(r))
        /\ (HasRow(conn, m_tableName, ItemRowId(r)) => HasRow(conn', m_tableName, ItemRowId(r)))
    BY <2>4, <2>5, WroteKeeps
  <2>7. RowsKept(r)
    BY <1>2, <1>3, <1>4, <2>6 DEF GridRows
  <2>8. QED
    BY <1>2, <2>1, <2>2, <2>3, <2>6, <2>7, MarkedKept
<1>7. ASSUME NEW r \in GridRows, DeleteRow(r) PROVE MarkedInv'
  <2>1. PICK b \in beginTransaction :
          IF ~b.ok THEN conn' = b.conn /\ UNCHANGED grid
          ELSE \E d \in deleteTableRow(b.conn, m_tableName, HeaderRowId(r)) :
                 conn' = d.conn
                 /\ grid' = IF d.ok THEN [grid EXCEPT !.cells[r].deleted = TRUE] ELSE grid
    BY <1>7 DEF DeleteRow
  <2>2. UNCHANGED <<m_mode, m_tableName>>
    BY <1>7 DEF DeleteRow
  <2>3. b.conn.work = conn.work /\ b.conn.usable = conn.usable
    BY BeginKeepsRows DEF DatabaseInv, TypeOK
  <2>a. \A d \in deleteTableRow(b.conn, m_tableName, HeaderRowId(r)) : d.conn = b.conn \/ d.ok
    BY <1>0 DEF deleteTableRow, WriteRow, WriteStmt, Refused, Fault, Reply
  <2>4. CASE grid' = grid /\ conn' = b.conn
    BY <2>2, <2>3, <2>4 DEF MarkedInv, RefusedEditsAreMarked, HasRow, Rows
  <2>5. CASE grid' = [grid EXCEPT !.cells[r].deleted = TRUE]
    <3>1. Wrote(conn', conn, m_tableName, HeaderRowId(r), Absent)
      BY <1>0, <1>7, DeleteRowWrites
    <3>2. RowsKept(r)
      BY <1>2, <1>3, <1>4, <3>1, WroteKeeps DEF GridRows
    <3>3. /\ grid'.columns = grid.columns /\ grid'.cells[r].deleted
          /\ grid'.cells[r].state = grid.cells[r].state
          /\ \A q \in RowIds \ {r} : grid'.cells[q] = grid.cells[q]
      BY <1>1, <2>5 DEF Grids, GridRows, Cells
    <3>4. r \in RowIds => grid.cells[r].state # "Init"
      BY DEF MarkedInv
    <3>5. QED
      BY <2>2, <3>2, <3>3, <3>4, MarkedKept
  <2>6. QED
    BY <2>1, <2>a, <2>4, <2>5
<1>8. CASE Insert
  <2>1. conn'.work = conn.work /\ conn'.usable = conn.usable
    BY <1>8, BeginKeepsRows DEF Insert, DatabaseInv, TypeOK
  <2>2. \/ grid' = grid
        \/ grid' = [grid EXCEPT !.cells[Star] = [NoCell EXCEPT !.state = "Init", !.data = Empty]]
    BY <1>8 DEF Insert
  <2>3. UNCHANGED <<m_mode, m_tableName>>
    BY <1>8 DEF Insert
  <2>4. grid'.columns = grid.columns /\ \A q \in RowIds : grid'.cells[q] = grid.cells[q]
    BY <1>1, <2>2 DEF Grids, GridRows
  <2>5. QED
    BY <2>1, <2>3, <2>4 DEF MarkedInv, RefusedEditsAreMarked, HasRow, Rows
<1>9. QED
  BY <1>5, <1>6, <1>7, <1>8 DEF Edit

\* A commit that fails may have stored the "*" row, in a row that was free.
LEMMA CommitMarked ==
  ASSUME OnlyRefuses, DatabaseInv, MarkedInv, Commit
  PROVE  MarkedInv'
<1>1. PICK i \in NewRowStored :
        IF ~i.ok THEN conn' = i.conn /\ UNCHANGED widgetVars
        ELSE \E c \in CommitTx(i.conn) :
               /\ conn' = c.conn
               /\ IF c.ok THEN m_activeTransaction' = FALSE /\ ShowTable(c.conn, m_tableName)
                  ELSE UNCHANGED widgetVars
  BY DEF Commit
<1>2. CASE ShowTable(conn', m_tableName)
  BY <1>2, ShownMarked
<1>3. CASE ~ShowTable(conn', m_tableName)
  <2>1. conn' = i.conn /\ UNCHANGED widgetVars
    <3>1. \A c \in CommitTx(i.conn) : c.ok \/ c.conn = i.conn
      BY DEF CommitTx, Refused, Fault, Reply, OnlyRefuses
    <3>2. QED
      BY <1>1, <1>3, <3>1
  <2>2. RowsKept(Star)
    <3>1. CASE i.conn = conn
      BY <2>1, <3>1 DEF RowsKept
    <3>2. CASE i.conn # conn
      <4> DEFINE text == ShownText(grid.cells[Star])
      <4>1. i \in insertTableRow(conn, m_tableName, text)
        BY <3>2 DEF NewRowStored, Reply
      <4>a. \A v \in Kept(text) : v \in Values
        BY InvFacts, ShownTextIsText, KeptIsValue DEF Values
      <4> HIDE DEF text
      <4>2. Rows(conn, m_tableName) # Gone
        BY <3>2, <4>1 DEF insertTableRow, Refused, Reply
      <4>3. PICK id \in RowIds, v \in Kept(text) :
              /\ conn.work[m_tableName][id] = Absent
              /\ i \in WriteStmt(conn, [conn.work EXCEPT ![m_tableName][id] = v])
        BY <4>1, <4>2 DEF insertTableRow
      <4> DEFINE new == [conn.work EXCEPT ![m_tableName][id] = v]
      <4>4. i.conn = Written(conn, new)
        BY <3>2, <4>3 DEF WriteStmt, Fault, Reply, OnlyRefuses
      <4>5. conn'.work = new /\ conn'.usable = conn.usable
        BY <2>1, <4>4 DEF Written
      <4>6. m_tableName \in Tables /\ conn.usable /\ conn.work \in Database
            /\ conn.work[m_tableName] # Gone
        BY <4>2, FieldTypes DEF Rows, DatabaseInv, TypeOK
      <4>7. v \in Values
        BY <4>3, <4>a
      <4>8. conn.work[m_tableName] \in Contents
        BY <4>6 DEF Database
      <4>9. conn'.work[m_tableName] = [conn.work[m_tableName] EXCEPT ![id] = v]
        BY <4>5, <4>6 DEF Database
      <4>10. /\ conn'.work[m_tableName] \in Contents
             /\ \A q \in RowIds \ {id} : conn'.work[m_tableName][q] = conn.work[m_tableName][q]
        BY <4>7, <4>8, <4>9 DEF Contents
      <4>11. QED
        BY <4>2, <4>3, <4>5, <4>6, <4>10, GoneAssumption DEF RowsKept, HasRow, Rows
    <3>3. QED
      BY <3>1, <3>2
  <2>3. QED
    BY <2>1, <2>2, GridAssumption DEF MarkedInv, RefusedEditsAreMarked, RowsKept, widgetVars
<1>4. QED
  BY <1>2, <1>3

\* An import that is reported as failed leaves the cell as it was, or zeros.
LEMMA BrokenImportMarked ==
  ASSUME OnlyRefuses, DatabaseInv, MarkedInv, NEW id, NEW v,
         NEW w \in updateCellWithFile(conn, m_tableName, id, v), ~w.ok, conn' = w.conn,
         UNCHANGED <<grid, m_mode, m_tableName>>
  PROVE  MarkedInv'
<1>1. CASE "blob" \notin Faults
  <2>1. conn'.work = conn.work /\ conn'.usable = conn.usable
    BY <1>1, ImportFails DEF OnlyRefuses
  <2>2. QED
    BY <2>1 DEF MarkedInv, RefusedEditsAreMarked, HasRow, Rows
<1>2. CASE "blob" \in Faults
  <2>0. PICK x \in WriteRow(conn, m_tableName, id, Empty) :
          w \in IF x.ok /\ HasRow(x.conn, m_tableName, id)
                  THEN {Reply(TRUE, Written(x.conn, [x.conn.work EXCEPT ![m_tableName][id] = v]))}
                         \cup Fault("blob", x.conn)
                         \cup (IF "blob" \in Faults /\ ~conn.inTx THEN {Reply(TRUE, x.conn)} ELSE {})
                  ELSE Refused(x.conn)
    BY DEF updateCellWithFile
  <2>1. conn' = x.conn
    BY <2>0 DEF Refused, Fault, Reply
  <2>2. conn \in Connections /\ Empty \in Values /\ Empty # Absent
    BY ValuesAssumption DEF DatabaseInv, TypeOK, Values
  <2>3. Wrote(conn', conn, m_tableName, id, Empty)
    BY <2>1, <2>2, WriteRowWrites DEF OnlyRefuses
  <2>4. /\ RowsKept(id)
        /\ HasRow(conn, m_tableName, id) =>
             /\ HasRow(conn', m_tableName, id)
             /\ conn'.work[m_tableName][id] \in {Empty, conn.work[m_tableName][id]}
    BY <2>2, <2>3, WroteKeeps
  <2>5. SUFFICES ASSUME m_mode = "DumpTable", grid.columns = 1, Rows(conn', m_tableName) # Gone,
                        NEW q \in RowIds, grid.cells[q].state # "None", ~grid.cells[q].deleted
                 PROVE  /\ HasRow(conn', m_tableName, q)
                        /\ grid.cells[q].state = "Clean" =>
                             \/ grid.cells[q].data = Stored(conn'.work[m_tableName][q])
                             \/ "blob" \in Faults /\ conn'.work[m_tableName][q] = Empty
    BY DEF MarkedInv, RefusedEditsAreMarked
  <2>6. /\ HasRow(conn, m_tableName, q)
        /\ grid.cells[q].state = "Clean" =>
             \/ grid.cells[q].data = Stored(conn.work[m_tableName][q])
             \/ "blob" \in Faults /\ conn.work[m_tableName][q] = Empty
    BY <2>4, <2>5 DEF MarkedInv, RefusedEditsAreMarked, RowsKept
  <2>7. CASE q = id
    BY <1>2, <2>4, <2>6, <2>7
  <2>8. CASE q # id
    <3>1. HasRow(conn', m_tableName, q) /\ conn'.work[m_tableName][q] = conn.work[m_tableName][q]
      BY <2>4, <2>6, <2>8 DEF RowsKept
    <3>2. QED
      BY <2>6, <3>1
  <2>9. QED
    BY <2>7, <2>8
<1>3. QED
  BY <1>1, <1>2

LEMMA MarkedStep ==
  ASSUME OnlyRefuses, RowIdsFit, DatabaseInv, DatabaseInv', MarkedInv, [Next]_vars
  PROVE  MarkedInv'
<1>1. CASE Ends \/ inactive
  BY <1>1, NoneMarked DEF Ends, Ended, inactive, EmptyGrid
<1>2. CASE Edit
  BY <1>2, EditMarked
<1>3. CASE Imports
  <2>1. PICK r \in GridRows, v \in Texts : InsertFileContents(r, v)
    BY <1>3 DEF Imports
  <2>2. PICK w \in updateCellWithFile(conn, m_tableName, ItemRowId(r), v) :
          /\ conn' = w.conn
          /\ IF w.ok THEN ShowTable(w.conn, m_tableName)
             ELSE UNCHANGED <<grid, m_mode, m_tableName, m_columnNames>>
    BY <2>1 DEF InsertFileContents
  <2>3. CASE w.ok
    BY <2>2, <2>3, ShownMarked
  <2>4. CASE ~w.ok
    BY <2>2, <2>4, BrokenImportMarked
  <2>5. QED
    BY <2>3, <2>4
<1>4. CASE Commit
  BY <1>4, CommitMarked
<1>5. CASE Rollback
  <2>1. PICK c \in RollbackTx(conn) :
          /\ conn' = c.conn
          /\ IF c.ok THEN m_activeTransaction' = FALSE /\ ShowTable(c.conn, m_tableName)
             ELSE UNCHANGED widgetVars
    BY <1>5 DEF Rollback
  <2>2. c.ok \/ c.conn = conn
    BY <2>1 DEF RollbackTx, Refused, Reply
  <2>3. CASE c.ok
    BY <2>1, <2>3, ShownMarked
  <2>4. CASE ~c.ok
    BY <2>1, <2>2, <2>4 DEF MarkedInv, RefusedEditsAreMarked, widgetVars
  <2>5. QED
    BY <2>3, <2>4
<1>6. CASE Executes
  BY <1>6, NoneMarked DEF Executes, ExecuteSql, ShowResults
<1>7. CASE ShowsAnother
  BY <1>7, ShownMarked DEF ShowsAnother, DumpTable
<1>8. CASE Drops
  <2>1. PICK t \in Tables : DropTable(t)
    BY <1>8 DEF Drops
  <2>2. PICK reply \in dropTable(conn, t) : conn' = reply.conn
    BY <2>1 DEF DropTable
  <2>3. UNCHANGED widgetVars
    BY <2>1 DEF DropTable
  <2>4. CASE conn' = conn
    BY <2>3, <2>4 DEF MarkedInv, RefusedEditsAreMarked, widgetVars
  <2>5. CASE conn' = Written(conn, [conn.work EXCEPT ![t] = Gone])
    <3>1. conn'.work = [conn.work EXCEPT ![t] = Gone] /\ conn'.usable = conn.usable
      BY <2>5 DEF Written
    <3>2. conn.work \in [Tables -> Contents \cup {Gone}]
      BY FieldTypes DEF DatabaseInv, TypeOK, Database
    <3>3. CASE m_tableName = t
      BY <2>1, <2>3, <3>1, <3>2, <3>3 DEF MarkedInv, RefusedEditsAreMarked, widgetVars, Rows
    <3>4. CASE m_tableName # t
      BY <2>3, <3>1, <3>2, <3>4 DEF MarkedInv, RefusedEditsAreMarked, widgetVars, HasRow, Rows
    <3>5. QED
      BY <3>3, <3>4
  <2>6. QED
    BY <2>2, <2>4, <2>5 DEF dropTable, WriteStmt, Refused, Reply, Fault, OnlyRefuses
<1>9. CASE Opens
  BY <1>9, NoneMarked DEF Opens, active, widgetVars, DatabaseInv, ClosedIsIdle, EmptyGrid
<1>10. CASE UNCHANGED <<conn, widgetVars>>
  BY <1>10 DEF MarkedInv, RefusedEditsAreMarked, widgetVars
<1>11. QED
  BY <1>1, <1>2, <1>3, <1>4, <1>5, <1>6, <1>7, <1>8, <1>9, <1>10, Steps

\* Whatever the engine refuses, whatever tables are dropped, and whatever SQL the
\* user runs, an edit that did not reach the engine is on show only in a cell
\* painted red.
THEOREM RefusedEditsMarked ==
  ASSUME OnlyRefuses, RowIdsFit
  PROVE  Spec => []RefusedEditsAreMarked
<1>1. Init => MarkedInv
  BY NoneMarked, BareGridFresh
  DEF Init, MarkedInv, RefusedEditsAreMarked, EmptyGrid, BareGrid, NoCell, GridRows
<1>2. DatabaseInv /\ DatabaseInv' /\ MarkedInv /\ [Next]_vars => MarkedInv'
  BY MarkedStep
<1>3. MarkedInv => RefusedEditsAreMarked
  BY DEF MarkedInv
<1>4. QED
  BY <1>1, <1>2, <1>3, DatabaseInvariant, PTL DEF Spec

-----------------------------------------------------------------------------
\* The converse of two findings: where the engine refuses nothing, the dialog
\* lets a handler go on only when the grid's transaction is over.
THEOREM GateIsSafe ==
  ASSUME NothingRefused, NoRowOfStar
  PROVE  Spec => []GatePassedMeansNoTransaction
<1>1. SessionInv => GatePassedMeansNoTransaction
  BY DEF SessionInv, GatePassedMeansNoTransaction
<1>2. QED
  BY <1>1, SessionInvariant, PTL

\* Inductive under NothingRefused: inside the grid's transaction there is no
\* row that the file does not have, until Commit stores the pending one.
NoRowAdded ==
  m_activeTransaction =>
    \A t \in Tables, q \in RowIds : conn.work[t][q] # Absent => conn.saved[t][q] # Absent

\* Every edit has the effect of one on a row, be it of none.
LEMMA EditHasEffect ==
  ASSUME NothingRefused, DatabaseInv, SessionInv, Edit
  PROVE  \/ \E id, v : EditEffect(id, v)
         \/ UNCHANGED <<conn, m_activeTransaction>>
<1>1. ASSUME NEW r \in GridRows, NEW v \in Values, SetData(r, v)
      PROVE  (\E id, w : EditEffect(id, w)) \/ UNCHANGED <<conn, m_activeTransaction>>
  <2>1. Stored(v) \in Values
    BY DEF Stored, Values
  <2>2. grid.cells[r].state # "None"
        /\ (WriteCell(r, Stored(v)) \/ UNCHANGED <<conn, m_activeTransaction>>)
    BY <1>1 DEF SetData
  <2>3. QED
    BY <2>1, <2>2, WriteCellEffect
<1>2. ASSUME NEW r \in GridRows, SetNull(r)
      PROVE  (\E id, w : EditEffect(id, w)) \/ UNCHANGED <<conn, m_activeTransaction>>
  <2>1. Null \in Values /\ grid.cells[r].state # "None" /\ WriteCell(r, Null)
    BY <1>2 DEF SetNull, Values
  <2>2. QED
    BY <2>1, WriteCellEffect
<1>3. ASSUME NEW r \in GridRows, DeleteRow(r)
      PROVE  (\E id, w : EditEffect(id, w)) \/ UNCHANGED <<conn, m_activeTransaction>>
  BY <1>3, DeleteRowEffect
<1>4. CASE Insert
  <2>1. conn'.usable = conn.usable
    BY <1>4, BeginKeepsRows DEF Insert, DatabaseInv, TypeOK
  <2>2. EditEffect(-1, Null) \/ UNCHANGED <<conn, m_activeTransaction>>
    BY <1>4, <2>1, InsertEffect DEF EditEffect, Wrote
  <2>3. QED
    BY <2>2
<1>5. QED
  BY <1>1, <1>2, <1>3, <1>4 DEF Edit

LEMMA NoRowAddedStep ==
  ASSUME NothingRefused, DatabaseInv, DatabaseInv', ConsistentGrid, SessionInv, NoRowAdded,
         [Next]_vars
  PROVE  NoRowAdded'
<1>1. CASE UNCHANGED <<conn, m_activeTransaction>>
  BY <1>1 DEF NoRowAdded
<1>2. CASE Drops \/ UNCHANGED <<conn, widgetVars>>
  BY <1>1, <1>2, DropsNothing DEF widgetVars
<1>3. CASE ~m_activeTransaction'
  BY <1>3 DEF NoRowAdded
<1>4. ASSUME m_activeTransaction', NEW id, NEW v, EditEffect(id, v)
      PROVE  NoRowAdded'
  <2>1. conn'.saved = conn.saved /\ Wrote(conn', conn, m_tableName, id, v)
        /\ (m_activeTransaction \/ ~conn.inTx)
    BY <1>4 DEF EditEffect
  <2>2. \A t \in Tables, q \in RowIds : conn.work[t][q] # Absent => conn.saved[t][q] # Absent
    BY <2>1 DEF NoRowAdded, DatabaseInv, NothingHeldBack
  <2>3. \A t \in Tables, q \in RowIds : conn'.work[t][q] # Absent => conn.work[t][q] # Absent
    <3>1. CASE conn'.work = conn.work
      BY <3>1
    <3>2. CASE HasRow(conn, m_tableName, id) /\ conn'.work = [conn.work EXCEPT ![m_tableName][id] = v]
      <4>1. m_tableName \in Tables /\ conn.work \in Database
            /\ conn.work[m_tableName] # Gone /\ conn.work[m_tableName][id] # Absent
        BY <3>2, FieldTypes DEF HasRow, Rows, DatabaseInv, TypeOK
      <4>2. conn.work[m_tableName] \in Contents
        BY <4>1 DEF Database
      <4>3. /\ conn'.work[m_tableName] = [conn.work[m_tableName] EXCEPT ![id] = v]
            /\ \A t \in Tables \ {m_tableName} : conn'.work[t] = conn.work[t]
        BY <3>2, <4>1 DEF Database
      <4>4. \A q \in RowIds \ {id} : conn'.work[m_tableName][q] = conn.work[m_tableName][q]
        BY <4>2, <4>3 DEF Contents
      <4>5. QED
        BY <4>1, <4>3, <4>4
    <3>3. QED
      BY <2>1, <3>1, <3>2 DEF Wrote
  <2>4. QED
    BY <2>1, <2>2, <2>3 DEF NoRowAdded
<1>5. CASE Edit
  BY <1>1, <1>3, <1>4, <1>5, EditHasEffect
<1>6. CASE Ends \/ inactive \/ Commit \/ Rollback \/ Imports \/ Executes \/ ShowsAnother \/ Opens
  BY <1>3, <1>6, EndsSession, inactiveSession, CommitSession, RollbackSession, ImportSession,
     ExecuteSession, ShowsSession, OpensSession
<1>7. QED
  BY <1>2, <1>5, <1>6, Steps

\* If no statement of the grid is refused: while a pending row waits for its
\* commit, no row is in its table that is not in the file.
THEOREM NoRowAddedInvariant ==
  ASSUME NothingRefused, NoRowOfStar
  PROVE  Spec => []NoRowAdded
<1>1. Init => NoRowAdded
  BY DEF Init, NoRowAdded
<1>2. /\ DatabaseInv /\ DatabaseInv' /\ ConsistentGrid /\ SessionInv /\ NoRowAdded /\ [Next]_vars
      => NoRowAdded'
  BY NoRowAddedStep
<1>3. QED
  BY <1>1, <1>2, DatabaseInvariant, GridConsistent, SessionInvariant, PTL DEF Spec

\* Where the engine refuses nothing, the pending row is stored once.
THEOREM PendingStoredOnce ==
  ASSUME NothingRefused, NoRowOfStar
  PROVE  Spec => PendingRowStoredOnce
<1>1. ASSUME DatabaseInv, ConsistentGrid, SessionInv, NoRowAdded, Commit,
             NEW p \in RowIds, NEW q \in RowIds,
             HasRow(conn', m_tableName, p), conn.saved[m_tableName][p] = Absent,
             HasRow(conn', m_tableName, q), conn.saved[m_tableName][q] = Absent
      PROVE  p = q
  <2> DEFINE t == m_tableName
  <2>1. t \in Tables /\ conn'.work[t][p] # Absent /\ conn'.work[t][q] # Absent
    BY <1>1 DEF HasRow, Rows
  <2>2. conn.work[t][p] = Absent /\ conn.work[t][q] = Absent
    BY <1>1, <2>1 DEF NoRowAdded, Commit
  <2>3. PICK id \in RowIds, v \in Kept(ShownText(grid.cells[Star])) :
          conn'.work = [conn.work EXCEPT ![t][id] = v]
    BY <1>1, <2>1, <2>2, CommitSession
  <2>4. conn.work \in Database /\ conn.work[t] # Gone
    BY <1>1, <2>1, FieldTypes DEF DatabaseInv, TypeOK, SessionInv, Whole
  <2>5. conn.work[t] \in Contents
    BY <2>1, <2>4 DEF Database
  <2>6. conn'.work[t] = [conn.work[t] EXCEPT ![id] = v]
    BY <2>1, <2>3, <2>4 DEF Database
  <2>7. \A r \in RowIds \ {id} : conn'.work[t][r] = conn.work[t][r]
    BY <2>5, <2>6 DEF Contents
  <2>8. QED
    BY <2>1, <2>2, <2>7
<1>2. DatabaseInv /\ ConsistentGrid /\ SessionInv /\ NoRowAdded /\ [Next]_vars =>
        [Commit /\ ~m_activeTransaction' =>
           \A p, q \in RowIds :
             LET added(r) == /\ HasRow(conn', m_tableName, r)
                             /\ conn.saved[m_tableName][r] = Absent
             IN  added(p) /\ added(q) => p = q]_vars
  BY <1>1
<1>3. QED
  BY <1>2, DatabaseInvariant, GridConsistent, SessionInvariant, NoRowAddedInvariant, PTL
  DEF Spec, PendingRowStoredOnce
=============================================================================
