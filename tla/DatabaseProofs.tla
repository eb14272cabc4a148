-------------------------- MODULE DatabaseProofs --------------------------
(***************************************************************************)
(* Theorems about DatabaseWidget, for every database, every width of int   *)
(* and every set of faults and of SQL the user runs.                       *)
(*                                                                         *)
(* DatabaseInv is inductive.  It is proved slot by slot: first what each   *)
(* statement makes of the connection and what the pieces of a slot do (a   *)
(* dump, beginTransaction(), the write of a cell), then one lemma per slot *)
(* of the grid, then one step per action.                                  *)
(***************************************************************************)
EXTENDS DatabaseWidget, TLAPS

-----------------------------------------------------------------------------
\* What a reply of the connection is, whatever the statement and whatever
\* fails: the facts the rest of the proofs stand on.
Replies == [ok: BOOLEAN, conn: Connections]

\* Outside a transaction nothing is held back from the file.
Settled(c) == ~c.inTx => c.work = c.saved

\* What every writing statement keeps of the connection c it is given.
Keeps(c, reply) ==
  /\ reply \in Replies
  /\ c.inTx => reply.conn.saved = c.saved
  /\ Settled(c) => Settled(reply.conn)
  /\ reply.ok \/ "rollback" \notin Faults => reply.conn.inTx = c.inTx

USE DEF Reply, Refused, Fault

-----------------------------------------------------------------------------
\* The connections the engine makes of a connection are connections.
LEMMA FieldTypes ==
  ASSUME NEW c \in Connections
  PROVE  c.inTx \in BOOLEAN /\ c.saved \in Database /\ c.work \in Database
  BY DEF Connections

LEMMA ConnectionTypes ==
  ASSUME NEW c \in Connections, NEW new \in Database
  PROVE  /\ RolledBack(c) \in Connections /\ Settled(RolledBack(c))
         /\ Committed(c) \in Connections /\ Settled(Committed(c))
         /\ Written(c, new) \in Connections
         /\ Written(c, new).inTx = c.inTx
         /\ Settled(Written(c, new))
         /\ c.inTx => Written(c, new).saved = c.saved
  BY DEF Connections, RolledBack, Committed, Written, Settled

\* A refused statement leaves the connection as it was.
LEMMA RefusedKeeps ==
  ASSUME NEW c \in Connections, NEW reply \in Refused(c)
  PROVE  Keeps(c, reply)
<1>1. reply = [ok |-> FALSE, conn |-> c]
  BY DEF Refused, Reply
<1>2. reply \in Replies
  BY <1>1 DEF Replies
<1>3. QED
  BY <1>1, <1>2 DEF Keeps

\* A writing statement: inside a transaction it saves nothing, and only an
\* engine rollback takes the transaction away.
LEMMA WriteStmtKeeps ==
  ASSUME NEW c \in Connections, NEW new \in Database, NEW reply \in WriteStmt(c, new)
  PROVE  Keeps(c, reply)
<1>1. CASE reply = Reply(TRUE, Written(c, new))
  BY <1>1, ConnectionTypes DEF Keeps, Replies
<1>2. CASE reply = Reply(FALSE, c)
  BY <1>2 DEF Keeps, Replies
<1>3. CASE "rollback" \in Faults /\ reply = Reply(FALSE, RolledBack(c))
  <2>1. RolledBack(c).saved = c.saved
    BY DEF RolledBack
  <2>2. QED
    BY <1>3, <2>1, ConnectionTypes DEF Keeps, Replies
<1>4. QED
  BY <1>1, <1>2, <1>3 DEF WriteStmt

\* Replacing one row of a table that exists makes a database of a database.
LEMMA RowReplaced ==
  ASSUME NEW db \in Database, NEW t \in Tables, db[t] # Gone,
         NEW id \in RowIds, NEW v \in Values \cup {Absent}
  PROVE  [db EXCEPT ![t][id] = v] \in Database
<1>1. db[t] \in Contents
  BY DEF Database
<1>2. [db[t] EXCEPT ![id] = v] \in Contents
  BY <1>1 DEF Contents
<1>3. QED
  BY <1>2 DEF Database

-----------------------------------------------------------------------------
LEMMA WriteRowKeeps ==
  ASSUME NEW c \in Connections, NEW t, NEW id, NEW v \in Values \cup {Absent},
         NEW reply \in WriteRow(c, t, id, v)
  PROVE  Keeps(c, reply)
<1>1. CASE Rows(c, t) = Gone
  BY <1>1, RefusedKeeps DEF WriteRow
<1>2. CASE Rows(c, t) # Gone /\ HasRow(c, t, id)
  <2>1. t \in Tables /\ c.work[t] # Gone /\ id \in RowIds
    BY <1>2 DEF Rows, HasRow
  <2>2. [c.work EXCEPT ![t][id] = v] \in Database
    BY <2>1, RowReplaced, FieldTypes
  <2>3. QED
    BY <1>2, <2>2, WriteStmtKeeps DEF WriteRow
<1>3. CASE Rows(c, t) # Gone /\ ~HasRow(c, t, id)
  BY <1>3, FieldTypes, WriteStmtKeeps DEF WriteRow
<1>4. QED
  BY <1>1, <1>2, <1>3

\* What the engine keeps of a value is a value, and it keeps something.
LEMMA KeptIsValue ==
  ASSUME NEW v \in Values
  PROVE  Kept(v) \subseteq Values /\ Kept(v) # {}
<1>1. CASE v = Null
  BY <1>1 DEF Kept, Values
<1>2. CASE v # Null
  <2>1. v \in Texts
    BY <1>2 DEF Values
  <2>2. StoredAs[v] \in (SUBSET Values) \ {{}}
    BY <2>1, StoredAsAssumption
  <2>3. QED
    BY <1>2, <2>2 DEF Kept
<1>3. QED
  BY <1>1, <1>2

\* A connection that could not be opened refuses to write.
LEMMA UnusableKeeps ==
  ASSUME NEW c \in Connections, ~c.usable, NEW t, NEW id, NEW v,
         NEW reply \in updateTableCell(c, t, id, v)
  PROVE  reply.conn = c
<1>1. PICK w \in Kept(v) : reply \in WriteRow(c, t, id, w)
  BY DEF updateTableCell
<1>2. QED
  BY <1>1 DEF WriteRow, Rows

LEMMA updateTableCellKeeps ==
  ASSUME NEW c \in Connections, NEW t, NEW id, NEW v \in Values,
         NEW reply \in updateTableCell(c, t, id, v)
  PROVE  Keeps(c, reply)
<1>1. PICK w \in Kept(v) : reply \in WriteRow(c, t, id, w)
  BY DEF updateTableCell
<1>2. w \in Values
  BY KeptIsValue
<1>3. QED
  BY <1>1, <1>2, WriteRowKeeps

LEMMA deleteTableRowKeeps ==
  ASSUME NEW c \in Connections, NEW t, NEW id, NEW reply \in deleteTableRow(c, t, id)
  PROVE  Keeps(c, reply)
  BY WriteRowKeeps DEF deleteTableRow

LEMMA insertTableRowKeeps ==
  ASSUME NEW c \in Connections, NEW t, NEW v \in Values,
         NEW reply \in insertTableRow(c, t, v)
  PROVE  Keeps(c, reply)
<1>1. CASE Rows(c, t) = Gone
  BY <1>1, RefusedKeeps DEF insertTableRow
<1>2. CASE Rows(c, t) # Gone
  <2>1. t \in Tables /\ c.work[t] # Gone
    BY <1>2 DEF Rows
  <2>2. PICK id \in RowIds, w \in Kept(v) :
          reply \in WriteStmt(c, [c.work EXCEPT ![t][id] = w])
    BY <1>2 DEF insertTableRow
  <2>3. [c.work EXCEPT ![t][id] = w] \in Database
    BY <2>1, RowReplaced, FieldTypes, KeptIsValue
  <2>4. QED
    BY <2>2, <2>3, WriteStmtKeeps
<1>3. QED
  BY <1>1, <1>2

LEMMA dropTableKeeps ==
  ASSUME NEW c \in Connections, NEW t \in Tables, NEW reply \in dropTable(c, t)
  PROVE  Keeps(c, reply)
<1>1. CASE t \notin Droppable \/ Rows(c, t) = Gone
  BY <1>1, RefusedKeeps DEF dropTable
<1>2. CASE ~(t \notin Droppable \/ Rows(c, t) = Gone)
  <2>1. [c.work EXCEPT ![t] = Gone] \in Database
    BY FieldTypes DEF Database
  <2>2. QED
    BY <1>2, <2>1, WriteStmtKeeps DEF dropTable
<1>3. QED
  BY <1>1, <1>2

\* Both halves of an import keep what one statement keeps.
LEMMA updateCellWithFileKeeps ==
  ASSUME NEW c \in Connections, NEW t, NEW id, NEW v \in Values,
         NEW reply \in updateCellWithFile(c, t, id, v)
  PROVE  Keeps(c, reply)
<1> DEFINE new(w) == [w.conn.work EXCEPT ![t][id] = v]
<1>1. PICK w \in WriteRow(c, t, id, Empty) :
        \/ reply = Reply(FALSE, w.conn)
        \/ reply = Reply(TRUE, w.conn) /\ w.ok
        \/ w.ok /\ HasRow(w.conn, t, id) /\ reply = Reply(TRUE, Written(w.conn, new(w)))
  BY DEF updateCellWithFile
<1>2. Keeps(c, w)
  BY WriteRowKeeps, ValuesAssumption DEF Values
<1>3. w.conn \in Connections
  BY <1>2 DEF Keeps, Replies
<1>4. CASE reply = Reply(FALSE, w.conn) \/ (reply = Reply(TRUE, w.conn) /\ w.ok)
  <2>1. reply \in Replies /\ reply.conn = w.conn /\ (reply.ok => w.ok)
    <3>1. CASE reply = [ok |-> FALSE, conn |-> w.conn]
      BY <1>3, <3>1 DEF Replies
    <3>2. CASE reply = [ok |-> TRUE, conn |-> w.conn] /\ w.ok
      BY <1>3, <3>2 DEF Replies
    <3>3. QED
      BY <1>4, <3>1, <3>2 DEF Reply
  <2>2. QED
    BY <1>2, <2>1 DEF Keeps
<1>5. CASE w.ok /\ HasRow(w.conn, t, id) /\ reply = Reply(TRUE, Written(w.conn, new(w)))
  <2>1. new(w) \in Database
    <3>1. t \in Tables /\ w.conn.work[t] # Gone /\ id \in RowIds
      BY <1>5 DEF Rows, HasRow
    <3>2. QED
      BY <3>1, <1>3, RowReplaced, FieldTypes
  <2> HIDE DEF new
  <2>2. /\ Written(w.conn, new(w)) \in Connections
        /\ Written(w.conn, new(w)).inTx = w.conn.inTx
        /\ Settled(Written(w.conn, new(w)))
        /\ w.conn.inTx => Written(w.conn, new(w)).saved = w.conn.saved
    BY <1>3, <2>1, ConnectionTypes
  <2>3. w.conn.inTx = c.inTx /\ (c.inTx => w.conn.saved = c.saved)
    BY <1>2, <1>5 DEF Keeps
  <2>4. /\ reply.ok = TRUE /\ reply.conn = Written(w.conn, new(w))
        /\ reply \in Replies
    BY <1>5, <2>2 DEF Replies
  <2>5. QED
    BY <2>2, <2>3, <2>4 DEF Keeps
<1>6. QED
  BY <1>1, <1>4, <1>5

-----------------------------------------------------------------------------
\* COMMIT: a failed one keeps the transaction, unless the engine rolls back.
LEMMA CommitTxReplies ==
  ASSUME NEW c \in Connections, Settled(c), NEW reply \in CommitTx(c)
  PROVE  /\ reply \in Replies /\ reply.conn \in Connections
         /\ Settled(reply.conn)
         /\ ~reply.ok /\ "rollback" \notin Faults => reply.conn.inTx = c.inTx
<1>1. c.saved \in Database
  BY FieldTypes
<1>2. /\ Committed(c) \in Connections /\ Settled(Committed(c))
      /\ RolledBack(c) \in Connections /\ Settled(RolledBack(c))
  BY <1>1, ConnectionTypes
<1>3. CASE reply = [ok |-> TRUE, conn |-> Committed(c)]
  BY <1>2, <1>3 DEF Replies
<1>4. CASE reply = [ok |-> FALSE, conn |-> c]
  BY <1>4 DEF Replies
<1>5. CASE "rollback" \in Faults /\ reply = [ok |-> FALSE, conn |-> RolledBack(c)]
  BY <1>2, <1>5 DEF Replies
<1>6. QED
  BY <1>3, <1>4, <1>5 DEF CommitTx, Refused, Reply, Fault

\* ROLLBACK saves nothing, and works whenever there is a transaction.
LEMMA RollbackTxReplies ==
  ASSUME NEW c \in Connections, Settled(c), NEW reply \in RollbackTx(c)
  PROVE  /\ reply \in Replies /\ reply.conn \in Connections
         /\ Settled(reply.conn)
         /\ reply.conn.saved = c.saved
         /\ reply.ok = c.inTx
<1>1. c.saved \in Database /\ c.inTx \in BOOLEAN
  BY FieldTypes
<1>2. CASE c.inTx
  <2>1. reply = [ok |-> TRUE, conn |-> RolledBack(c)]
    BY <1>2 DEF RollbackTx, Reply
  <2>2. RolledBack(c) \in Connections /\ Settled(RolledBack(c)) /\ RolledBack(c).saved = c.saved
    BY <1>1, ConnectionTypes DEF RolledBack
  <2>3. QED
    BY <1>1, <1>2, <2>1, <2>2 DEF Replies
<1>3. CASE ~c.inTx
  <2>1. reply = [ok |-> FALSE, conn |-> c]
    BY <1>3 DEF RollbackTx, Refused, Reply
  <2>2. QED
    BY <1>1, <1>3, <2>1 DEF Replies
<1>4. QED
  BY <1>2, <1>3

\* SQL the user runs: of the kinds, only COMMIT and ROLLBACK end a
\* transaction, if the engine does not.
LEMMA execSqlReplies ==
  ASSUME NEW c \in Connections, Settled(c), NEW kind \in SqlKinds, NEW reply \in execSql(c, kind)
  PROVE  /\ reply.conn \in Connections
         /\ Settled(reply.conn)
         /\ "rollback" \notin Faults /\ kind \notin {"commit", "rollback"} =>
              (c.inTx => reply.conn.inTx)
<1>0. CASE ~c.usable
  <2>1. reply = [ok |-> FALSE, conn |-> c]
    BY <1>0 DEF execSql, Refused, Reply
  <2>2. QED
    BY <2>1
<1>1. CASE c.usable /\ kind = "query"
  BY <1>1 DEF execSql, Reply
<1>2. CASE c.usable /\ kind = "write"
  <2>1. PICK new \in Rewritten(c.work) : reply \in WriteStmt(c, new)
    BY <1>2 DEF execSql
  <2>2. new \in Database
    BY FieldTypes, FaultsAssumption DEF Rewritten, Database
  <2>3. Keeps(c, reply)
    BY <2>1, <2>2, WriteStmtKeeps
  <2>4. QED
    BY <2>3 DEF Keeps, Replies
<1>3. CASE c.usable /\ kind = "begin"
  <2>1. reply \in BeginTx(c)
    BY <1>3 DEF execSql
  <2>2. CASE c.inTx
    BY <2>1, <2>2 DEF BeginTx, Refused, Reply
  <2>3. CASE ~c.inTx
    <3>0. reply = [ok |-> TRUE, conn |-> [c EXCEPT !.inTx = TRUE]]
      BY <1>3, <2>1, <2>3 DEF BeginTx, Reply
    <3>1. reply.conn = [c EXCEPT !.inTx = TRUE]
      BY <3>0
    <3>2. QED
      BY <3>1, <2>3 DEF Connections, Settled
  <2>4. QED
    BY <2>2, <2>3
<1>4. CASE c.usable /\ kind = "commit"
  BY <1>4, CommitTxReplies DEF execSql
<1>5. CASE c.usable /\ kind = "rollback"
  BY <1>5, RollbackTxReplies DEF execSql
<1>6. QED
  BY <1>0, <1>1, <1>2, <1>3, <1>4, <1>5 DEF SqlKinds

HIDE DEF Reply, Refused, Fault

-----------------------------------------------------------------------------

\* DatabaseInv without the variables only DatabaseWidget changes.
GridInv ==
  /\ conn \in Connections
  /\ isOpen \in BOOLEAN
  /\ m_activeTransaction \in BOOLEAN
  /\ m_mode \in Modes
  /\ m_tableName \in Tables \cup {NoTable}
  /\ m_columnNames \in 0..1
  /\ grid \in Grids
  /\ PendingChangesOwned
  /\ ResultsNameNoTable
  /\ NothingHeldBack

Processes == {"running", "exited", "crashed"}

\* The invariant is the grid's, the types of the two other variables and what
\* they have to do with each other.
LEMMA DatabaseInvParts ==
  DatabaseInv <=> GridInv /\ process \in Processes /\ gate \in Gates /\ ClosedIsIdle
  BY DEF DatabaseInv, GridInv, TypeOK, Processes

\* A grid without pending changes, as a dump or clear() leaves it.
Fresh(g) ==
  /\ g \in Grids
  /\ g.cells[Star].state = "None"
  /\ \A r \in GridRows : ~g.cells[r].deleted

-----------------------------------------------------------------------------
LEMMA CellTypes ==
  ASSUME NEW v \in Values, NEW cell \in Cells
  PROVE  /\ Stored(v) \in Values
         /\ InitialCell(v) \in Cells
         /\ EditedCell(cell, v) \in Cells
         /\ ShownText(cell) \in Texts
<1>1. Stored(v) \in Values
  BY DEF Stored, Values
<1>2. InitialCell(v) \in Cells
  BY <1>1 DEF InitialCell, Cells
<1>3. EditedCell(cell, v) \in Cells
  BY <1>1 DEF EditedCell, Cells
<1>4. ShownText(cell) \in Texts
  BY GridAssumption DEF ShownText, Cells, Values
<1>5. QED
  BY <1>1, <1>2, <1>3, <1>4

LEMMA BareGridFresh ==
  /\ NoCell \in Cells
  /\ \A n, k \in 0..1 : Fresh(BareGrid(n, k))
  /\ \A n, k : \A r \in GridRows : BareGrid(n, k).cells[r].state = "None"
<1>1. NoCell \in Cells /\ NoCell.state = "None" /\ ~NoCell.deleted
  BY DEF NoCell, Cells, Values
<1>2. Star \in GridRows
  BY DEF GridRows
<1>3. ASSUME NEW n, NEW k, NEW r \in GridRows PROVE BareGrid(n, k).cells[r] = NoCell
  BY DEF BareGrid
<1>4. ASSUME NEW n \in 0..1, NEW k \in 0..1 PROVE BareGrid(n, k) \in Grids
  BY <1>1 DEF BareGrid, Grids
<1>5. QED
  BY <1>1, <1>2, <1>3, <1>4 DEF Fresh

\* A dump leaves a fresh grid: the "*" row and the red rows are gone.
LEMMA TableGridFresh ==
  ASSUME NEW c \in Connections, NEW t
  PROVE  Fresh(TableGrid(c, t))
<1> DEFINE rows == [r \in GridRows |->
                      IF HasRow(c, t, r) THEN InitialCell(c.work[t][r]) ELSE NoCell]
<1>1. ASSUME NEW r \in GridRows PROVE rows[r] \in Cells /\ ~rows[r].deleted
  <2>1. CASE HasRow(c, t, r)
    <3>1. c.work[t] \in Contents /\ r \in RowIds
      BY <2>1, FieldTypes DEF HasRow, Rows, Database
    <3>2. c.work[t][r] \in Values
      BY <2>1, <3>1 DEF HasRow, Contents
    <3>3. QED
      BY <2>1, <3>2, CellTypes, BareGridFresh DEF InitialCell
  <2>2. CASE ~HasRow(c, t, r)
    BY <2>2, BareGridFresh DEF NoCell
  <2>3. QED
    BY <2>1, <2>2
<1>2. rows[Star].state = "None"
  BY GridAssumption DEF HasRow, GridRows, NoCell
<1>3. TableGrid(c, t) = [columns |-> 1, cells |-> rows, results |-> 0]
  BY DEF TableGrid
<1> HIDE DEF rows
<1>4. rows \in [GridRows -> Cells]
  BY <1>1 DEF rows
<1>5. TableGrid(c, t) \in Grids
  BY <1>3, <1>4 DEF Grids
<1>6. QED
  BY <1>1, <1>2, <1>3, <1>5 DEF Fresh

LEMMA DumpsFresh ==
  ASSUME NEW c \in Connections, NEW t, NEW d \in Dumps(c, t)
  PROVE  Fresh(d.grid)
<1>1. d.grid \in {TableGrid(c, t), BareGrid(0, 0), BareGrid(1, 0)}
  BY DEF Dumps, EmptyGrid
<1>2. QED
  BY <1>1, TableGridFresh, BareGridFresh

-----------------------------------------------------------------------------
\* What a slot may do, as one predicate of the state before and after it: it
\* keeps GridInv, and saves only by autocommit under a flag that is stale.
Quiet == conn'.saved # conn.saved => m_activeTransaction /\ ~conn.inTx

\* A table shown from a connection: the grid is fresh and typed.
LEMMA ShowTableStep ==
  ASSUME GridInv, NEW c \in Connections, NEW t \in Tables \cup {NoTable}, ShowTable(c, t)
  PROVE  /\ m_mode' \in Modes /\ m_mode' = "DumpTable"
         /\ m_tableName' \in Tables \cup {NoTable}
         /\ m_columnNames' \in 0..1
         /\ Fresh(grid')
<1>1. PICK d \in Dumps(c, t) :
        grid' = d.grid /\ m_columnNames' = IF d.named THEN d.grid.columns ELSE m_columnNames
  BY DEF ShowTable
<1>2. Fresh(d.grid)
  BY DumpsFresh
<1>3. d.grid.columns \in 0..1
  BY <1>2 DEF Fresh, Grids
<1>4. QED
  BY <1>1, <1>2, <1>3 DEF ShowTable, GridInv, Modes

\* After BEGIN, tried with the flag clear: inside a transaction, or refused on a
\* connection that refuses everything.
Begun(b) == b.conn.inTx \/ (~b.ok /\ ~b.conn.usable)

\* beginTransaction() saves nothing, and gives a transaction to write in
\* unless the flag was set already.
LEMMA BeginStep ==
  ASSUME GridInv, NEW b \in beginTransaction
  PROVE  /\ b \in Replies /\ b.conn \in Connections /\ Settled(b.conn)
         /\ b.conn.saved = conn.saved
         /\ m_activeTransaction => b.ok /\ b.conn = conn
         /\ ~m_activeTransaction => Begun(b)
<1>0. conn \in Connections /\ Settled(conn)
  BY DEF GridInv, NothingHeldBack, Settled
<1>1. CASE m_activeTransaction
  <2>1. b = [ok |-> TRUE, conn |-> conn]
    BY <1>1 DEF beginTransaction, Reply
  <2>2. QED
    BY <1>0, <1>1, <2>1 DEF Replies
<1>2. CASE ~m_activeTransaction
  <2>2. CASE conn.inTx \/ ~conn.usable
    <3>1. b = [ok |-> FALSE, conn |-> conn]
      BY <1>2, <2>2 DEF beginTransaction, BeginTx, Refused, Reply
    <3>2. QED
      BY <1>0, <1>2, <2>2, <3>1 DEF Replies, Begun
  <2>3. CASE ~(conn.inTx \/ ~conn.usable)
    <3>1. b = [ok |-> TRUE, conn |-> [conn EXCEPT !.inTx = TRUE]]
      BY <1>2, <2>3 DEF beginTransaction, BeginTx, Reply
    <3>2. [conn EXCEPT !.inTx = TRUE] \in Connections
      BY <1>0 DEF Connections
    <3>3. [conn EXCEPT !.inTx = TRUE].inTx /\ [conn EXCEPT !.inTx = TRUE].saved = conn.saved
      BY <1>0 DEF Connections
    <3>4. QED
      BY <1>2, <3>1, <3>2, <3>3 DEF Replies, Settled, Begun
  <2>4. QED
    BY <2>2, <2>3
<1>3. QED
  BY <1>1, <1>2

\* So does the itemChanged of a cell: the only cell of a displayed result set
\* that writes anything is the "*" row's, and with that the flag is set.
LEMMA StartStep ==
  ASSUME GridInv, NEW r \in GridRows, grid.cells[r].state # "None", NEW b \in startTransaction
  PROVE  /\ b.conn \in Connections /\ Settled(b.conn)
         /\ b.conn.saved = conn.saved
         /\ b.ok \in BOOLEAN
         /\ m_activeTransaction => b.ok /\ b.conn = conn
         /\ ~m_activeTransaction => Begun(b)
<1>1. CASE m_mode = "DumpTable"
  <2>1. b \in beginTransaction
    BY <1>1 DEF startTransaction
  <2>2. QED
    BY <2>1, BeginStep DEF Replies
<1>2. CASE m_mode # "DumpTable"
  <2>1. m_mode = "DisplayResults"
    BY <1>2 DEF GridInv, Modes
  <2>2. m_activeTransaction
    BY <2>1 DEF GridInv, ResultsNameNoTable, PendingChangesOwned, HasNewRow, GridRows
  <2>3. b = [ok |-> m_activeTransaction, conn |-> conn]
    BY <1>2 DEF startTransaction, Reply
  <2>4. QED
    BY <2>2, <2>3 DEF GridInv, NothingHeldBack, Settled
<1>3. QED
  BY <1>1, <1>2

\* With no engine rollback a slot keeps the flag true of the engine.
FlagKept ==
  "rollback" \notin Faults /\ FlagMeansTransaction => FlagMeansTransaction'

\* The write of a cell: typed, quiet, and nothing leaves the transaction but
\* an engine rollback.
LEMMA WriteCellStep ==
  ASSUME GridInv, NEW r \in GridRows, grid.cells[r].state # "None",
         NEW v \in Values, WriteCell(r, v)
  PROVE  /\ conn' \in Connections /\ Settled(conn')
         /\ m_activeTransaction' \in BOOLEAN
         /\ m_activeTransaction => m_activeTransaction'
         /\ Quiet /\ FlagKept
<1>0. PICK b \in startTransaction :
        \E w \in updateTableCell(b.conn, m_tableName, ItemRowId(r), v) :
          m_activeTransaction' = b.ok /\ conn' = w.conn
  BY DEF WriteCell
<1>1. PICK w \in updateTableCell(b.conn, m_tableName, ItemRowId(r), v) :
        m_activeTransaction' = b.ok /\ conn' = w.conn
  BY <1>0
<1>2. /\ b.conn \in Connections /\ Settled(b.conn)
      /\ b.conn.saved = conn.saved
      /\ b.ok \in BOOLEAN
      /\ m_activeTransaction => b.ok /\ b.conn = conn
      /\ ~m_activeTransaction => Begun(b)
  BY StartStep
<1>3. Keeps(b.conn, w)
  BY <1>2, updateTableCellKeeps
<1>4. conn' \in Connections /\ Settled(conn')
  BY <1>1, <1>2, <1>3 DEF Keeps, Replies
<1>5. b.conn.inTx \/ ~b.conn.usable => conn'.saved = conn.saved
  BY <1>1, <1>2, <1>3, UnusableKeeps DEF Keeps
<1>6. "rollback" \notin Faults => conn'.inTx = b.conn.inTx
  BY <1>1, <1>3 DEF Keeps
<1>7. QED
  BY <1>1, <1>2, <1>4, <1>5, <1>6 DEF Quiet, FlagKept, FlagMeansTransaction, Begun

-----------------------------------------------------------------------------
\* One cell replaced by a cell that is neither new nor newly red.
LEMMA CellReplaced ==
  ASSUME GridInv, NEW r \in GridRows, NEW cell \in Cells,
         grid.cells[r].state # "None", cell.state # "None",
         cell.deleted = grid.cells[r].deleted,
         grid' = [grid EXCEPT !.cells[r] = cell],
         m_mode' = m_mode,
         m_activeTransaction => m_activeTransaction'
  PROVE  grid' \in Grids /\ PendingChangesOwned' /\ ResultsNameNoTable'
<1>1. grid \in Grids /\ grid.cells \in [GridRows -> Cells]
  BY DEF GridInv, Grids
<1>2. grid'.cells = [grid.cells EXCEPT ![r] = cell]
  BY <1>1 DEF Grids
<1>3. grid' \in Grids
  BY <1>1 DEF Grids
<1>4. \A q \in GridRows : /\ grid'.cells[q].state # "None" <=> grid.cells[q].state # "None"
                          /\ grid'.cells[q].deleted = grid.cells[q].deleted
  BY <1>1, <1>2
<1>5. Star \in GridRows /\ \A q \in RowIds : q \in GridRows
  BY DEF GridRows
<1>6. QED
  BY <1>3, <1>4, <1>5
    DEF GridInv, PendingChangesOwned, ResultsNameNoTable, HasNewRow, DeletedShown

LEMMA SetDataStep ==
  ASSUME GridInv, NEW r \in GridRows, NEW v \in Values, SetData(r, v)
  PROVE  GridInv' /\ Quiet /\ FlagKept
<1> DEFINE cell == EditedCell(grid.cells[r], v)
<1>1. grid.cells[r] \in Cells /\ grid.cells[r].state # "None"
  BY DEF SetData, GridInv, Grids
<1>2. cell \in Cells /\ cell.state # "None" /\ cell.deleted = grid.cells[r].deleted
  BY <1>1, CellTypes DEF EditedCell
<1>3. grid' = [grid EXCEPT !.cells[r] = cell]
  BY DEF SetData
<1>4. /\ isOpen' = isOpen /\ m_mode' = m_mode /\ m_tableName' = m_tableName
      /\ m_columnNames' = m_columnNames
  BY DEF SetData, Survives
<1>5. /\ conn' \in Connections /\ Settled(conn')
      /\ m_activeTransaction' \in BOOLEAN
      /\ m_activeTransaction => m_activeTransaction'
      /\ Quiet /\ FlagKept
  <2>1. CASE grid.cells[r].state = "Init"
    BY <2>1 DEF SetData, GridInv, NothingHeldBack, Settled, Quiet, FlagKept, FlagMeansTransaction
  <2>2. CASE grid.cells[r].state # "Init"
    <3>1. WriteCell(r, Stored(v))
      BY <2>2 DEF SetData
    <3>2. QED
      BY <1>1, <3>1, CellTypes, WriteCellStep
  <2>3. QED
    BY <2>1, <2>2
<1> HIDE DEF cell
<1>6. grid' \in Grids /\ PendingChangesOwned' /\ ResultsNameNoTable'
  BY <1>1, <1>2, <1>3, <1>4, <1>5, CellReplaced
<1>7. QED
  BY <1>4, <1>5, <1>6 DEF GridInv, NothingHeldBack, Settled

LEMMA SetNullStep ==
  ASSUME GridInv, NEW r \in GridRows, SetNull(r)
  PROVE  GridInv' /\ Quiet /\ FlagKept
<1> DEFINE cell == [grid.cells[r] EXCEPT !.state = "Dirty", !.data = Null]
<1>1. grid.cells[r] \in Cells /\ grid.cells[r].state # "None" /\ WriteCell(r, Null)
  BY DEF SetNull, GridInv, Grids
<1>2. cell \in Cells /\ cell.state # "None" /\ cell.deleted = grid.cells[r].deleted
  BY <1>1 DEF Cells, Values
<1>3. grid' = [grid EXCEPT !.cells[r] = cell]
  BY DEF SetNull
<1>4. /\ isOpen' = isOpen /\ m_mode' = m_mode /\ m_tableName' = m_tableName
      /\ m_columnNames' = m_columnNames
  BY DEF SetNull, Survives
<1>5. /\ conn' \in Connections /\ Settled(conn')
      /\ m_activeTransaction' \in BOOLEAN
      /\ m_activeTransaction => m_activeTransaction'
      /\ Quiet /\ FlagKept
  BY <1>1, WriteCellStep DEF Values
<1> HIDE DEF cell
<1>6. grid' \in Grids /\ PendingChangesOwned' /\ ResultsNameNoTable'
  BY <1>1, <1>2, <1>3, <1>4, <1>5, CellReplaced
<1>7. QED
  BY <1>4, <1>5, <1>6 DEF GridInv, NothingHeldBack, Settled

\* Under the flag a cell may become pending: new, or deleted.
LEMMA PendingCell ==
  ASSUME GridInv, NEW r \in GridRows, NEW cell \in Cells,
         r = Star \/ grid.cells[r].state # "None",
         grid' = [grid EXCEPT !.cells[r] = cell],
         m_mode' = m_mode,
         m_activeTransaction' = TRUE
  PROVE  grid' \in Grids /\ PendingChangesOwned' /\ ResultsNameNoTable'
<1>1. grid \in Grids /\ grid.cells \in [GridRows -> Cells]
  BY DEF GridInv, Grids
<1>2. grid'.cells = [grid.cells EXCEPT ![r] = cell] /\ grid' \in Grids
  BY <1>1 DEF Grids
<1>3. PendingChangesOwned'
  BY DEF PendingChangesOwned
<1>4. ASSUME m_mode' = "DisplayResults", NEW q \in RowIds
      PROVE  grid'.cells[q].state = "None"
  <2>1. grid.cells[q].state = "None" /\ q \in GridRows /\ q # Star
    BY <1>4, GridAssumption DEF GridInv, ResultsNameNoTable, GridRows
  <2>2. q # r
    BY <2>1
  <2>3. QED
    BY <1>1, <1>2, <2>1, <2>2
<1>5. QED
  BY <1>2, <1>3, <1>4 DEF ResultsNameNoTable

\* A slot that refuses to go on without a transaction changes nothing.
LEMMA NotBegun ==
  ASSUME GridInv, NEW b \in beginTransaction, ~b.ok,
         m_activeTransaction' = b.ok, conn' = b.conn, grid' = grid,
         UNCHANGED <<m_mode, m_tableName, m_columnNames>>, Survives
  PROVE  GridInv' /\ Quiet /\ FlagKept
<1>1. /\ b \in Replies /\ b.conn \in Connections /\ Settled(b.conn)
      /\ b.conn.saved = conn.saved
      /\ ~m_activeTransaction
  BY BeginStep
<1>2. m_activeTransaction' = FALSE
  BY <1>1 DEF Replies
<1>3. PendingChangesOwned' /\ ResultsNameNoTable'
  BY <1>1 DEF GridInv, PendingChangesOwned, ResultsNameNoTable, HasNewRow, DeletedShown
<1>4. QED
  BY <1>1, <1>2, <1>3
    DEF GridInv, NothingHeldBack, Settled, Survives, Quiet, FlagKept, FlagMeansTransaction

LEMMA DeleteRowStep ==
  ASSUME GridInv, NEW r \in GridRows, DeleteRow(r)
  PROVE  GridInv' /\ Quiet /\ FlagKept
<1>1. PICK b \in beginTransaction :
        /\ m_activeTransaction' = b.ok
        /\ IF ~b.ok THEN conn' = b.conn /\ UNCHANGED grid
           ELSE \E d \in deleteTableRow(b.conn, m_tableName, HeaderRowId(r)) :
                  /\ conn' = d.conn
                  /\ grid' = IF d.ok THEN [grid EXCEPT !.cells[r].deleted = TRUE] ELSE grid
  BY DEF DeleteRow
<1>2. /\ b \in Replies /\ b.conn \in Connections /\ Settled(b.conn)
      /\ b.conn.saved = conn.saved
      /\ m_activeTransaction => b.ok /\ b.conn = conn
      /\ ~m_activeTransaction => Begun(b)
  BY BeginStep
<1>3. /\ UNCHANGED <<m_mode, m_tableName, m_columnNames>> /\ Survives
      /\ grid.cells[r].state # "None"
  BY DEF DeleteRow
<1>4. CASE ~b.ok
  BY <1>1, <1>3, <1>4, NotBegun
<1>5. CASE b.ok
  <2>1. PICK d \in deleteTableRow(b.conn, m_tableName, HeaderRowId(r)) :
          /\ conn' = d.conn
          /\ grid' = IF d.ok THEN [grid EXCEPT !.cells[r].deleted = TRUE] ELSE grid
    BY <1>1, <1>5
  <2>2. Keeps(b.conn, d)
    BY <1>2, deleteTableRowKeeps
  <2>3. conn' \in Connections /\ Settled(conn')
    BY <1>2, <2>1, <2>2 DEF Keeps, Replies
  <2>4. m_activeTransaction' = TRUE
    BY <1>1, <1>2, <1>5 DEF Replies
  <2>5. Quiet
    BY <1>2, <1>5, <2>1, <2>2 DEF Quiet, Keeps, Begun
  <2>6. FlagKept
    BY <1>2, <1>5, <2>1, <2>2 DEF FlagKept, FlagMeansTransaction, Keeps, Begun
  <2>7. grid' \in Grids /\ PendingChangesOwned' /\ ResultsNameNoTable'
    <3>1. CASE d.ok
      <4> DEFINE cell == [grid.cells[r] EXCEPT !.deleted = TRUE]
      <4>1. cell \in Cells
        BY DEF GridInv, Grids, Cells
      <4>2. grid' = [grid EXCEPT !.cells[r] = cell]
        BY <2>1, <3>1
      <4> HIDE DEF cell
      <4>3. QED
        BY <1>3, <2>4, <4>1, <4>2, PendingCell
    <3>2. CASE ~d.ok
      BY <1>3, <2>1, <2>4, <3>2
        DEF GridInv, PendingChangesOwned, ResultsNameNoTable
    <3>3. QED
      BY <3>1, <3>2
  <2>8. QED
    BY <1>3, <2>3, <2>4, <2>5, <2>6, <2>7 DEF GridInv, NothingHeldBack, Settled, Survives
<1>6. QED
  BY <1>4, <1>5

LEMMA InsertStep ==
  ASSUME GridInv, Insert
  PROVE  GridInv' /\ Quiet /\ FlagKept
<1> DEFINE cell == [NoCell EXCEPT !.state = "Init", !.data = Empty]
<1>1. PICK b \in beginTransaction :
        /\ m_activeTransaction' = b.ok
        /\ conn' = b.conn
        /\ grid' = IF b.ok THEN [grid EXCEPT !.cells[Star] = cell] ELSE grid
  BY DEF Insert
<1>2. /\ b \in Replies /\ b.conn \in Connections /\ Settled(b.conn)
      /\ b.conn.saved = conn.saved
      /\ m_activeTransaction => b.ok /\ b.conn = conn
      /\ ~m_activeTransaction => Begun(b)
  BY BeginStep
<1>3. UNCHANGED <<m_mode, m_tableName, m_columnNames>> /\ Survives
  BY DEF Insert
<1>4. cell \in Cells
  BY BareGridFresh, ValuesAssumption DEF Cells, Values
<1> HIDE DEF cell
<1>5. CASE ~b.ok
  BY <1>1, <1>3, <1>5, NotBegun
<1>6. CASE b.ok
  <2>1. m_activeTransaction' = TRUE
    BY <1>1, <1>2, <1>6 DEF Replies
  <2>2. grid' \in Grids /\ PendingChangesOwned' /\ ResultsNameNoTable'
    BY <1>1, <1>3, <1>4, <1>6, <2>1, PendingCell DEF GridRows
  <2>3. Quiet /\ FlagKept
    BY <1>1, <1>2, <1>6 DEF Quiet, FlagKept, FlagMeansTransaction, Begun
  <2>4. QED
    BY <1>1, <1>2, <1>3, <2>1, <2>2, <2>3 DEF GridInv, NothingHeldBack, Settled, Survives
<1>7. QED
  BY <1>5, <1>6

\* Every edit of the grid, therefore.
LEMMA EditStep ==
  ASSUME GridInv, Edit
  PROVE  GridInv' /\ Quiet /\ FlagKept
  BY SetDataStep, SetNullStep, DeleteRowStep, InsertStep DEF Edit

-----------------------------------------------------------------------------
\* A fresh grid owes nothing to the flag.
LEMMA FreshGrid ==
  ASSUME Fresh(grid'),
         m_mode' = "DumpTable" \/ \A r \in RowIds : grid'.cells[r].state = "None"
  PROVE  grid' \in Grids /\ PendingChangesOwned' /\ ResultsNameNoTable'
  BY DEF Fresh, PendingChangesOwned, ResultsNameNoTable, HasNewRow, DeletedShown

\* Leaving the grid as it is, under the same flag or one that is set.
LEMMA SameGrid ==
  ASSUME GridInv, grid' = grid, m_mode' = m_mode,
         m_activeTransaction => m_activeTransaction'
  PROVE  grid' \in Grids /\ PendingChangesOwned' /\ ResultsNameNoTable'
  BY DEF GridInv, PendingChangesOwned, ResultsNameNoTable, HasNewRow, DeletedShown

\* A dump through the connection the state then holds.
LEMMA DumpStep ==
  ASSUME GridInv, conn' \in Connections, Settled(conn'), ShowTable(conn', m_tableName'),
         m_tableName' \in Tables \cup {NoTable},
         m_activeTransaction' \in BOOLEAN, isOpen' \in BOOLEAN
  PROVE  GridInv'
<1>1. /\ m_mode' \in Modes /\ m_mode' = "DumpTable"
      /\ m_columnNames' \in 0..1
      /\ Fresh(grid')
  BY ShowTableStep
<1>2. grid' \in Grids /\ PendingChangesOwned' /\ ResultsNameNoTable'
  BY <1>1, FreshGrid
<1>3. QED
  BY <1>1, <1>2 DEF GridInv, NothingHeldBack, Settled

\* An import keeps the flag, and needs it clear.
LEMMA ImportStep ==
  ASSUME GridInv, NEW r \in GridRows, NEW v \in Texts, InsertFileContents(r, v)
  PROVE  GridInv' /\ FlagKept
<1>1. PICK w \in updateCellWithFile(conn, m_tableName, ItemRowId(r), v) :
        /\ conn' = w.conn
        /\ IF w.ok THEN ShowTable(w.conn, m_tableName)
           ELSE UNCHANGED <<grid, m_mode, m_tableName, m_columnNames>>
  BY DEF InsertFileContents
<1>2. m_activeTransaction' = m_activeTransaction /\ isOpen' = isOpen /\ ~m_activeTransaction
  BY DEF InsertFileContents, Survives
<1>3. Keeps(conn, w)
  BY updateCellWithFileKeeps DEF GridInv, Values
<1>4. conn' \in Connections /\ Settled(conn')
  BY <1>1, <1>3 DEF Keeps, Replies, GridInv, NothingHeldBack, Settled
<1>5. FlagKept
  BY <1>2 DEF FlagKept, FlagMeansTransaction
<1>6. CASE w.ok
  <2>1. ShowTable(conn', m_tableName') /\ m_tableName' = m_tableName
    BY <1>1, <1>6 DEF ShowTable
  <2>2. QED
    BY <1>2, <1>4, <1>5, <2>1, DumpStep DEF GridInv
<1>7. CASE ~w.ok
  <2>1. grid' \in Grids /\ PendingChangesOwned' /\ ResultsNameNoTable'
    BY <1>1, <1>2, <1>7, SameGrid
  <2>2. QED
    BY <1>1, <1>2, <1>4, <1>5, <1>7, <2>1 DEF GridInv, NothingHeldBack, Settled
<1>8. QED
  BY <1>6, <1>7

\* commit(): whichever of its statements fails.
LEMMA CommitStep ==
  ASSUME GridInv, Commit
  PROVE  GridInv' /\ FlagKept
<1>1. PICK i \in NewRowStored :
        IF ~i.ok THEN conn' = i.conn /\ UNCHANGED widgetVars
        ELSE \E c \in CommitTx(i.conn) :
               /\ conn' = c.conn
               /\ IF c.ok THEN m_activeTransaction' = FALSE /\ ShowTable(c.conn, m_tableName)
                  ELSE UNCHANGED widgetVars
  BY DEF Commit
<1>2. Keeps(conn, i)
  <2>1. CASE HasNewRow /\ grid.columns = 1
    <3>1. i \in insertTableRow(conn, m_tableName, ShownText(grid.cells[Star]))
      BY <2>1 DEF NewRowStored
    <3>2. ShownText(grid.cells[Star]) \in Values
      BY CellTypes, ValuesAssumption DEF GridInv, Grids, GridRows, Values
    <3>3. QED
      BY <3>1, <3>2, insertTableRowKeeps DEF GridInv
  <2>2. CASE ~(HasNewRow /\ grid.columns = 1)
    <3>1. i = [ok |-> TRUE, conn |-> conn]
      BY <2>2 DEF NewRowStored, Reply
    <3>2. QED
      BY <3>1 DEF Keeps, Replies, GridInv
  <2>3. QED
    BY <2>1, <2>2
<1>3. i.conn \in Connections /\ Settled(i.conn)
  BY <1>2 DEF Keeps, Replies, GridInv, NothingHeldBack, Settled
<1>4. isOpen' = isOpen
  BY DEF Commit, Survives
<1>5. ASSUME conn' \in Connections, Settled(conn'), UNCHANGED widgetVars,
             "rollback" \notin Faults => conn'.inTx = conn.inTx
      PROVE  GridInv' /\ FlagKept
  <2>1. grid' \in Grids /\ PendingChangesOwned' /\ ResultsNameNoTable'
    BY <1>5, SameGrid DEF widgetVars
  <2>2. FlagKept
    BY <1>5 DEF FlagKept, FlagMeansTransaction, widgetVars
  <2>3. QED
    BY <1>4, <1>5, <2>1, <2>2 DEF GridInv, NothingHeldBack, Settled, widgetVars
<1>6. CASE ~i.ok
  BY <1>1, <1>2, <1>3, <1>5, <1>6 DEF Keeps
<1>7. CASE i.ok
  <2>1. PICK c \in CommitTx(i.conn) :
          /\ conn' = c.conn
          /\ IF c.ok THEN m_activeTransaction' = FALSE /\ ShowTable(c.conn, m_tableName)
             ELSE UNCHANGED widgetVars
    BY <1>1, <1>7
  <2>2. /\ c.conn \in Connections /\ Settled(c.conn)
        /\ ~c.ok /\ "rollback" \notin Faults => c.conn.inTx = i.conn.inTx
    BY <1>3, CommitTxReplies
  <2>3. CASE c.ok
    <3>1. ShowTable(conn', m_tableName') /\ m_tableName' = m_tableName
      BY <2>1, <2>3 DEF ShowTable
    <3>2. QED
      BY <1>4, <2>1, <2>2, <2>3, <3>1, DumpStep DEF GridInv, FlagKept, FlagMeansTransaction
  <2>4. CASE ~c.ok
    BY <1>2, <1>5, <1>7, <2>1, <2>2, <2>4 DEF Keeps
  <2>5. QED
    BY <2>3, <2>4
<1>8. QED
  BY <1>6, <1>7

\* rollback(), which saves nothing.
LEMMA RollbackStep ==
  ASSUME GridInv, Rollback
  PROVE  GridInv' /\ Quiet /\ FlagKept
<1>1. PICK c \in RollbackTx(conn) :
        /\ conn' = c.conn
        /\ IF c.ok THEN m_activeTransaction' = FALSE /\ ShowTable(c.conn, m_tableName)
           ELSE UNCHANGED widgetVars
  BY DEF Rollback
<1>2. /\ c.conn \in Connections /\ Settled(c.conn)
      /\ c.conn.saved = conn.saved
      /\ c.ok = conn.inTx
  BY RollbackTxReplies DEF GridInv, NothingHeldBack, Settled
<1>3. isOpen' = isOpen
  BY DEF Rollback, Survives
<1>4. Quiet
  BY <1>1, <1>2 DEF Quiet
<1>5. CASE c.ok
  <2>1. ShowTable(conn', m_tableName') /\ m_tableName' = m_tableName
    BY <1>1, <1>5 DEF ShowTable
  <2>2. QED
    BY <1>1, <1>2, <1>3, <1>4, <1>5, <2>1, DumpStep DEF GridInv, FlagKept, FlagMeansTransaction
<1>6. CASE ~c.ok
  <2>1. grid' \in Grids /\ PendingChangesOwned' /\ ResultsNameNoTable'
    BY <1>1, <1>6, SameGrid DEF widgetVars
  <2>2. FlagKept
    BY <1>1, <1>2, <1>6 DEF FlagKept, FlagMeansTransaction, widgetVars
  <2>3. QED
    BY <1>1, <1>2, <1>3, <1>4, <1>6, <2>1, <2>2 DEF GridInv, NothingHeldBack, Settled, widgetVars
<1>7. QED
  BY <1>5, <1>6

\* The process ends: nothing is saved, and the next one starts clean.
LEMMA EndedStep ==
  ASSUME GridInv, NEW how, Ended(how)
  PROVE  GridInv' /\ Quiet /\ FlagKept
<1>1. conn.saved \in Database
  BY FieldTypes DEF GridInv
<1>2. conn' \in Connections /\ Settled(conn') /\ conn'.saved = conn.saved
  BY <1>1, ConnectionTypes DEF Ended, RolledBack, GridInv
<1>3. Fresh(grid') /\ \A r \in RowIds : grid'.cells[r].state = "None"
  BY BareGridFresh DEF Ended, EmptyGrid, GridRows
<1>4. grid' \in Grids /\ PendingChangesOwned' /\ ResultsNameNoTable'
  BY <1>3, FreshGrid
<1>5. /\ isOpen' = FALSE /\ m_activeTransaction' = FALSE /\ m_mode' \in Modes
      /\ m_tableName' = NoTable /\ m_columnNames' = 0
  BY DEF Ended
<1>6. Quiet /\ FlagKept
  BY <1>2, <1>5 DEF Quiet, FlagKept, FlagMeansTransaction
<1>7. NothingHeldBack'
  BY <1>2 DEF NothingHeldBack, Settled
<1>8. m_columnNames' \in 0..1 /\ m_tableName' \in Tables \cup {NoTable}
  BY <1>5
<1>9. GridInv'
  BY <1>2, <1>4, <1>5, <1>7, <1>8 DEF GridInv
<1>10. QED
  BY <1>6, <1>9

\* Opening one, whether or not the engine could.
LEMMA activeStep ==
  ASSUME GridInv, active
  PROVE  GridInv' /\ Quiet /\ FlagKept
<1>1. PICK u \in BOOLEAN : conn' = [conn EXCEPT !.usable = u]
  BY DEF active, Opened
<1>2. conn \in Connections /\ Settled(conn)
  BY DEF GridInv, NothingHeldBack, Settled
<1>3. /\ conn' \in Connections /\ conn'.inTx = conn.inTx
      /\ conn'.saved = conn.saved /\ conn'.work = conn.work
  BY <1>1, <1>2 DEF Connections
<1>4. isOpen' = TRUE /\ UNCHANGED <<widgetVars, process>>
  BY DEF active
<1>5. grid' \in Grids /\ PendingChangesOwned' /\ ResultsNameNoTable'
  BY <1>4, SameGrid DEF widgetVars
<1>6. NothingHeldBack'
  BY <1>2, <1>3 DEF NothingHeldBack, Settled
<1>7. Quiet /\ FlagKept
  BY <1>3, <1>4 DEF Quiet, FlagKept, FlagMeansTransaction, widgetVars
<1>8. QED
  BY <1>3, <1>4, <1>5, <1>6, <1>7 DEF GridInv, widgetVars

\* Closing the database, whether or not its rollback works.
LEMMA inactiveStep ==
  ASSUME GridInv, inactive
  PROVE  GridInv' /\ Quiet /\ FlagKept
<1>1. PICK c \in (IF m_activeTransaction THEN RollbackTx(conn) ELSE {Reply(FALSE, conn)}) :
        /\ m_activeTransaction' = (m_activeTransaction /\ ~c.ok)
        /\ m_mode' = IF c.ok THEN "DumpTable" ELSE m_mode
        /\ conn' = RolledBack(c.conn)
  BY DEF inactive
<1>2. /\ c.conn \in Connections /\ c.conn.saved = conn.saved
      /\ m_activeTransaction /\ conn.inTx => c.ok
  <2>1. CASE m_activeTransaction
    BY <2>1, RollbackTxReplies DEF GridInv, NothingHeldBack, Settled
  <2>2. CASE ~m_activeTransaction
    BY <2>2 DEF GridInv, Reply
  <2>3. QED
    BY <2>1, <2>2
<1>3. conn.saved \in Database
  BY FieldTypes DEF GridInv
<1>4. conn' \in Connections /\ Settled(conn') /\ conn'.saved = conn.saved
  BY <1>1, <1>2, <1>3, ConnectionTypes DEF RolledBack
<1>5. Fresh(grid') /\ \A r \in RowIds : grid'.cells[r].state = "None"
  BY BareGridFresh DEF inactive, EmptyGrid, GridRows
<1>6. grid' \in Grids /\ PendingChangesOwned' /\ ResultsNameNoTable'
  BY <1>5, FreshGrid
<1>7. FlagKept
  BY <1>1, <1>2 DEF FlagKept, FlagMeansTransaction
<1>8. m_mode' \in Modes /\ m_activeTransaction' \in BOOLEAN
  BY <1>1 DEF GridInv, Modes
<1>9. isOpen' = FALSE /\ m_tableName' = NoTable /\ m_columnNames' = 0
  BY DEF inactive
<1>10. Quiet
  BY <1>4 DEF Quiet
<1>11. NothingHeldBack'
  BY <1>4 DEF NothingHeldBack, Settled
<1>12. m_columnNames' \in 0..1 /\ m_tableName' \in Tables \cup {NoTable}
  BY <1>9
<1>13. GridInv'
  BY <1>4, <1>6, <1>8, <1>9, <1>11, <1>12 DEF GridInv
<1>14. QED
  BY <1>7, <1>10, <1>13

\* execute(), once it is past the dialog.
LEMMA ExecuteSqlStep ==
  ASSUME GridInv, NEW kind \in UserSql, ExecuteSql(kind)
  PROVE  /\ GridInv'
         /\ kind \notin {"commit", "rollback"} => FlagKept
<1>1. PICK reply \in execSql(conn, kind) : conn' = reply.conn
  BY DEF ExecuteSql
<1>2. PICK rows \in 0..1 : ShowResults(rows)
  BY DEF ExecuteSql
<1>3. isOpen' = isOpen /\ m_activeTransaction' = m_activeTransaction
  BY DEF ExecuteSql, Survives
<1>4. /\ conn' \in Connections /\ Settled(conn')
      /\ "rollback" \notin Faults /\ kind \notin {"commit", "rollback"} =>
           (conn.inTx => conn'.inTx)
  BY <1>1, SqlAssumption, execSqlReplies DEF GridInv, NothingHeldBack, Settled
<1>5. Fresh(grid') /\ \A r \in RowIds : grid'.cells[r].state = "None"
  BY <1>2, BareGridFresh DEF ShowResults, GridRows
<1>6. grid' \in Grids /\ PendingChangesOwned' /\ ResultsNameNoTable'
  BY <1>5, FreshGrid
<1>7. /\ m_mode' = "DisplayResults" /\ m_tableName' = m_tableName
      /\ m_columnNames' = m_columnNames
  BY <1>2 DEF ShowResults
<1>8. GridInv'
  BY <1>3, <1>4, <1>6, <1>7 DEF GridInv, Modes, NothingHeldBack, Settled
<1>9. QED
  BY <1>3, <1>4, <1>8 DEF FlagKept, FlagMeansTransaction

\* dropTable() of the tree
LEMMA DropTableStep ==
  ASSUME GridInv, NEW t \in Tables, DropTable(t)
  PROVE  GridInv' /\ FlagKept
<1>1. PICK reply \in dropTable(conn, t) : conn' = reply.conn
  BY DEF DropTable
<1>2. UNCHANGED <<isOpen, widgetVars>>
  BY DEF DropTable
<1>3. Keeps(conn, reply)
  BY dropTableKeeps DEF GridInv
<1>4. conn' \in Connections /\ Settled(conn')
  BY <1>1, <1>3 DEF Keeps, Replies, GridInv, NothingHeldBack, Settled
<1>5. grid' \in Grids /\ PendingChangesOwned' /\ ResultsNameNoTable'
  BY <1>2, SameGrid DEF widgetVars
<1>6. FlagKept
  BY <1>1, <1>2, <1>3 DEF FlagKept, FlagMeansTransaction, Keeps, widgetVars
<1>7. QED
  BY <1>2, <1>4, <1>5, <1>6 DEF GridInv, NothingHeldBack, Settled, widgetVars

\* A step that changes none of the grid's variables but m_pDb.
LEMMA GridUnchanged ==
  ASSUME GridInv, UNCHANGED <<conn, widgetVars>>, isOpen' \in BOOLEAN
  PROVE  GridInv' /\ Quiet /\ FlagKept
<1>1. grid' \in Grids /\ PendingChangesOwned' /\ ResultsNameNoTable'
  BY SameGrid DEF widgetVars
<1>2. QED
  BY <1>1 DEF GridInv, NothingHeldBack, widgetVars, Quiet, FlagKept, FlagMeansTransaction

-----------------------------------------------------------------------------
\* The user has no SQL that ends a transaction, and the engine never does.
TransactionsAreTheGrids ==
  "rollback" \notin Faults /\ UserSql \cap {"commit", "rollback"} = {}

\* What every step of the program does.
StepOK ==
  /\ GridInv' /\ process' \in Processes /\ gate' \in Gates
  /\ SaveRequested \/ Quiet
  /\ TransactionsAreTheGrids /\ FlagMeansTransaction => FlagMeansTransaction'

LEMMA GateTypes ==
  ASSUME gate \in Gates
  PROVE  /\ Idle \in Gates
         /\ [gate EXCEPT !.stage = "passed"] \in Gates
         /\ \A h \in Handlers : \A s \in {"asking", "passed"} :
              [stage |-> s, handler |-> h] \in Gates
  BY DEF Idle, Gates, Handlers

\* A step that is one slot of the grid, and what it does to the gate.
LEMMA SlotStep ==
  ASSUME GridInv', process' \in Processes, gate' \in Gates, SaveRequested \/ Quiet, FlagKept
  PROVE  StepOK
  BY DEF StepOK, FlagKept, TransactionsAreTheGrids

LEMMA NextStep ==
  ASSUME DatabaseInv, Next
  PROVE  StepOK
<1> GridInv /\ process \in Processes /\ gate \in Gates
  BY DatabaseInvParts
<1>1. CASE OpenDatabase
  <2>1. process' = process /\ gate' = gate
    BY <1>1 DEF OpenDatabase, active
  <2>2. QED
    BY <1>1, <2>1, activeStep, SlotStep DEF OpenDatabase
<1>2. CASE CloseDatabase
  BY <1>2, inactiveStep, SlotStep DEF CloseDatabase, inactive
<1>3. CASE GridEdit
  <2>1. process' = process /\ gate' = gate
    BY <1>3 DEF GridEdit, Edit, SetData, SetNull, DeleteRow, Insert, Survives
  <2>2. QED
    BY <1>3, <2>1, EditStep, SlotStep DEF GridEdit
<1>4. CASE ImportFile
  <2>1. PICK r \in GridRows, v \in Texts : InsertFileContents(r, v)
    BY <1>4 DEF ImportFile
  <2>2. process' = process /\ gate' = gate /\ SaveRequested
    BY <1>4, <2>1 DEF ImportFile, InsertFileContents, Survives, SaveRequested
  <2>3. QED
    BY <2>1, <2>2, ImportStep, SlotStep
<1>5. CASE MenuCommit
  <2>1. process' = process /\ gate' = gate /\ SaveRequested
    BY <1>5 DEF MenuCommit, Commit, Survives, SaveRequested
  <2>2. QED
    BY <1>5, <2>1, CommitStep, SlotStep DEF MenuCommit
<1>6. CASE MenuRollback
  <2>1. process' = process /\ gate' = gate
    BY <1>6 DEF MenuRollback, Rollback, Survives
  <2>2. QED
    BY <1>6, <2>1, RollbackStep, SlotStep DEF MenuRollback
<1>7. ASSUME NEW h \in Handlers, StartHandler(h) PROVE StepOK
  <2>1. gate' \in Gates /\ UNCHANGED <<conn, isOpen, widgetVars, process>>
    BY <1>7, GateTypes DEF StartHandler
  <2>2. isOpen' \in BOOLEAN
    BY <2>1 DEF GridInv
  <2>3. QED
    BY <2>1, <2>2, GridUnchanged, SlotStep
<1>8. CASE AnswerCancel
  <2>1. gate' \in Gates /\ UNCHANGED <<conn, isOpen, widgetVars, process>>
    BY <1>8, GateTypes DEF AnswerCancel
  <2>2. isOpen' \in BOOLEAN
    BY <2>1 DEF GridInv
  <2>3. QED
    BY <2>1, <2>2, GridUnchanged, SlotStep
<1>9. CASE AnswerCommit
  <2>1. process' = process /\ gate' \in Gates /\ SaveRequested
    BY <1>9, GateTypes DEF AnswerCommit, Commit, Survives, SaveRequested, Passed
  <2>2. QED
    BY <1>9, <2>1, CommitStep, SlotStep DEF AnswerCommit
<1>10. CASE AnswerRollback
  <2>1. process' = process /\ gate' \in Gates
    BY <1>10, GateTypes DEF AnswerRollback, Rollback, Survives, Passed
  <2>2. QED
    BY <1>10, <2>1, RollbackStep, SlotStep DEF AnswerRollback
<1>11. CASE AnswerCrash
  <2>1. Ended("crashed") /\ gate' \in Gates /\ process' \in Processes
    BY <1>11, GateTypes DEF AnswerCrash, CommitCrash, Crash, Ended, Processes
  <2>2. QED
    BY <2>1, EndedStep, SlotStep
<1>12. ASSUME NEW kind \in UserSql, ExecuteSql(kind) PROVE StepOK
  <2>1. process' = process /\ gate' \in Gates /\ SaveRequested
    BY <1>12, GateTypes DEF ExecuteSql, Survives, SaveRequested
  <2>2. TransactionsAreTheGrids => kind \notin {"commit", "rollback"}
    BY DEF TransactionsAreTheGrids
  <2>3. QED
    BY <1>12, <2>1, <2>2, ExecuteSqlStep DEF StepOK, FlagKept, TransactionsAreTheGrids
<1>13. ASSUME NEW t \in Tables, DumpTable(t) PROVE StepOK
  <2>1. /\ gate' \in Gates /\ process' = process /\ isOpen' = isOpen
        /\ UNCHANGED <<conn, m_activeTransaction>> /\ ShowTable(conn, t)
    BY <1>13, GateTypes DEF DumpTable, Survives
  <2>2. ShowTable(conn', m_tableName') /\ m_tableName' \in Tables \cup {NoTable}
    BY <2>1 DEF ShowTable
  <2>3. GridInv'
    BY <2>1, <2>2, DumpStep DEF GridInv, NothingHeldBack, Settled
  <2>4. Quiet /\ FlagKept
    BY <2>1 DEF Quiet, FlagKept, FlagMeansTransaction
  <2>5. QED
    BY <2>1, <2>3, <2>4, SlotStep
<1>14. ASSUME NEW t \in Tables, DropTable(t) PROVE StepOK
  <2>1. process' = process /\ gate' = gate /\ SaveRequested
    BY <1>14 DEF DropTable, SaveRequested
  <2>2. QED
    BY <1>14, <2>1, DropTableStep, SlotStep
<1>15. CASE Exit
  <2>1. Ended("exited") /\ gate' \in Gates /\ process' \in Processes
    BY <1>15, GateTypes DEF Exit, Ended, Processes
  <2>2. QED
    BY <2>1, EndedStep, SlotStep
<1>16. CASE Restart
  <2>1. UNCHANGED <<conn, isOpen, widgetVars, gate>> /\ process' \in Processes
    BY <1>16 DEF Restart, Processes
  <2>2. isOpen' \in BOOLEAN
    BY <2>1 DEF GridInv
  <2>3. QED
    BY <2>1, <2>2, GridUnchanged, SlotStep
<1>17. CASE GridCrash
  <2>1. Ended("crashed") /\ gate' = gate /\ process' \in Processes
    BY <1>17 DEF GridCrash, CutNothing, DeleteResultRow, InsertPastNames, CommitCrash, RollbackCrash,
                 Crash, Ended, Processes
  <2>2. QED
    BY <2>1, EndedStep, SlotStep
<1>18. QED
  BY <1>1, <1>2, <1>3, <1>4, <1>5, <1>6, <1>7, <1>8, <1>9, <1>10, <1>11, <1>12, <1>13,
     <1>14, <1>15, <1>16, <1>17 DEF Next

\* Nothing the engine replies is a transaction on a connection it refuses.
Sane(c) == c.inTx => c.usable

LEMMA WriteStmtSane ==
  ASSUME NEW c, Sane(c), NEW new, NEW reply \in WriteStmt(c, new)
  PROVE  Sane(reply.conn)
<1>1. Sane(Written(c, new)) /\ Sane(RolledBack(c))
  BY DEF Sane, Written, RolledBack
<1>2. QED
  BY <1>1 DEF WriteStmt, Fault, Reply

LEMMA WriteRowSane ==
  ASSUME NEW c, Sane(c), NEW t, NEW id, NEW v, NEW reply \in WriteRow(c, t, id, v)
  PROVE  Sane(reply.conn)
<1>1. CASE Rows(c, t) = Gone
  BY <1>1 DEF WriteRow, Refused, Reply
<1>2. CASE Rows(c, t) # Gone
  BY <1>2, WriteStmtSane DEF WriteRow
<1>3. QED
  BY <1>1, <1>2

LEMMA updateTableCellSane ==
  ASSUME NEW c, Sane(c), NEW t, NEW id, NEW v, NEW reply \in updateTableCell(c, t, id, v)
  PROVE  Sane(reply.conn)
  BY WriteRowSane DEF updateTableCell

LEMMA insertTableRowSane ==
  ASSUME NEW c, Sane(c), NEW t, NEW v, NEW reply \in insertTableRow(c, t, v)
  PROVE  Sane(reply.conn)
<1>1. CASE Rows(c, t) = Gone
  BY <1>1 DEF insertTableRow, Refused, Reply
<1>2. CASE Rows(c, t) # Gone
  <2>1. PICK id \in RowIds, w \in Kept(v) :
          reply \in WriteStmt(c, [c.work EXCEPT ![t][id] = w])
    BY <1>2 DEF insertTableRow
  <2>2. QED
    BY <2>1, WriteStmtSane
<1>3. QED
  BY <1>1, <1>2

LEMMA updateCellWithFileSane ==
  ASSUME NEW c, Sane(c), NEW t, NEW id, NEW v, NEW reply \in updateCellWithFile(c, t, id, v)
  PROVE  Sane(reply.conn)
<1> DEFINE new(w) == [w.conn.work EXCEPT ![t][id] = v]
<1>1. PICK w \in WriteRow(c, t, id, Empty) :
        \/ reply = Reply(FALSE, w.conn) \/ reply = Reply(TRUE, w.conn)
        \/ reply = Reply(TRUE, Written(w.conn, new(w)))
  BY DEF updateCellWithFile, Refused, Fault
<1> HIDE DEF new
<1>2. Sane(w.conn)
  BY WriteRowSane
<1>3. Sane(Written(w.conn, new(w)))
  BY <1>2 DEF Sane, Written
<1>4. QED
  BY <1>1, <1>2, <1>3 DEF Reply

LEMMA EndSane ==
  ASSUME NEW c, Sane(c), NEW reply \in CommitTx(c) \cup RollbackTx(c)
  PROVE  Sane(reply.conn)
<1>1. Sane(Committed(c)) /\ Sane(RolledBack(c))
  BY DEF Sane, Committed, RolledBack
<1>2. QED
  BY <1>1 DEF CommitTx, RollbackTx, Refused, Fault, Reply

LEMMA BeginTxSane ==
  ASSUME NEW c \in Connections, Sane(c), NEW reply \in BeginTx(c)
  PROVE  Sane(reply.conn)
<1>1. CASE c.inTx \/ ~c.usable
  BY <1>1 DEF BeginTx, Refused, Reply
<1>2. CASE ~(c.inTx \/ ~c.usable)
  <2>1. Sane([c EXCEPT !.inTx = TRUE])
    BY <1>2 DEF Sane, Connections
  <2>2. reply = [ok |-> TRUE, conn |-> [c EXCEPT !.inTx = TRUE]]
    BY <1>2 DEF BeginTx, Reply
  <2>3. reply.conn = [c EXCEPT !.inTx = TRUE]
    BY <2>2
  <2>4. QED
    BY <2>1, <2>3
<1>3. QED
  BY <1>1, <1>2

LEMMA execSqlSane ==
  ASSUME NEW c \in Connections, Sane(c), NEW kind \in SqlKinds, NEW reply \in execSql(c, kind)
  PROVE  Sane(reply.conn)
<1>1. CASE ~c.usable
  BY <1>1 DEF execSql, Refused, Reply
<1>2. CASE c.usable /\ kind \in {"query", "write"}
  BY <1>2, WriteStmtSane DEF execSql, Reply
<1>3. CASE c.usable /\ kind \in {"begin", "commit", "rollback"}
  BY <1>3, BeginTxSane, EndSane DEF execSql
<1>4. QED
  BY <1>1, <1>2, <1>3 DEF SqlKinds

\* The slots of the grid.
LEMMA BeginSane ==
  ASSUME conn \in Connections, Sane(conn), NEW b \in beginTransaction \cup startTransaction
  PROVE  Sane(b.conn)
<1>1. b.conn = conn \/ b \in BeginTx(conn)
  BY DEF beginTransaction, startTransaction, Reply
<1>2. QED
  BY <1>1, BeginTxSane

LEMMA EditSane ==
  ASSUME conn \in Connections, Sane(conn), Edit
  PROVE  Sane(conn') /\ isOpen /\ isOpen' = isOpen
<1>1. ASSUME NEW r, NEW v, WriteCell(r, v) PROVE Sane(conn')
  <2>1. PICK b \in startTransaction :
          \E w \in updateTableCell(b.conn, m_tableName, ItemRowId(r), v) : conn' = w.conn
    BY <1>1 DEF WriteCell
  <2>2. QED
    BY <2>1, BeginSane, updateTableCellSane
<1>2. ASSUME NEW r \in GridRows, DeleteRow(r) PROVE Sane(conn')
  <2>1. PICK b \in beginTransaction :
          conn' = b.conn \/ \E d \in deleteTableRow(b.conn, m_tableName, HeaderRowId(r)) : conn' = d.conn
    BY <1>2 DEF DeleteRow
  <2>2. QED
    BY <2>1, BeginSane, WriteRowSane DEF deleteTableRow
<1>3. ASSUME Insert PROVE Sane(conn')
  BY <1>3, BeginSane DEF Insert
<1>4. ASSUME NEW r \in GridRows, (\E v \in Values : SetData(r, v)) \/ SetNull(r) PROVE Sane(conn')
  BY <1>1, <1>4 DEF SetData, SetNull
<1>5. isOpen /\ isOpen' = isOpen
  BY DEF Edit, SetData, SetNull, DeleteRow, Insert, Survives
<1>6. QED
  BY <1>2, <1>3, <1>4, <1>5 DEF Edit

LEMMA CommitSane ==
  ASSUME Sane(conn), Commit
  PROVE  Sane(conn') /\ isOpen /\ isOpen' = isOpen
<1>1. PICK i \in NewRowStored :
        conn' = i.conn \/ \E c \in CommitTx(i.conn) : conn' = c.conn
  BY DEF Commit
<1>2. Sane(i.conn)
  BY insertTableRowSane DEF NewRowStored, Reply
<1>3. QED
  BY <1>1, <1>2, EndSane DEF Commit, Survives

LEMMA RollbackSane ==
  ASSUME Sane(conn), Rollback
  PROVE  Sane(conn') /\ isOpen /\ isOpen' = isOpen
  BY EndSane DEF Rollback, Survives

LEMMA ImportSane ==
  ASSUME Sane(conn), NEW r, NEW v, InsertFileContents(r, v)
  PROVE  Sane(conn') /\ isOpen /\ isOpen' = isOpen
  BY updateCellWithFileSane DEF InsertFileContents, Survives

\* The end of the process, and the closing of the database.
LEMMA ClosedSane ==
  ASSUME NEW c, conn' = RolledBack(c), grid' = EmptyGrid, gate' = Idle
  PROVE  ClosedIsIdle'
  BY DEF ClosedIsIdle, RolledBack

\* Every step keeps transactions, handlers and cells to open databases.
LEMMA ClosedStep ==
  ASSUME DatabaseInv, Next
  PROVE  ClosedIsIdle'
<1>0. /\ conn \in Connections /\ Sane(conn)
      /\ ~isOpen => ~conn.inTx /\ grid = EmptyGrid
      /\ gate # Idle => isOpen
  BY DEF DatabaseInv, TypeOK, ClosedIsIdle, Sane
<1>1. CASE OpenDatabase
  <2>1. PICK u \in BOOLEAN : conn' = [conn EXCEPT !.usable = u]
    BY <1>1 DEF OpenDatabase, active, Opened
  <2>2. conn'.inTx = conn.inTx
    BY <1>0, <2>1 DEF Connections
  <2>3. QED
    BY <1>0, <1>1, <2>2 DEF OpenDatabase, active, ClosedIsIdle
<1>2. CASE CloseDatabase
  <2>1. \E c : conn' = RolledBack(c.conn)
    BY <1>2 DEF CloseDatabase, inactive
  <2>2. grid' = EmptyGrid /\ gate' = Idle
    BY <1>2 DEF CloseDatabase, inactive, Ready
  <2>3. QED
    BY <2>1, <2>2, ClosedSane
<1>3. CASE Exit \/ GridCrash \/ AnswerCrash
  <2>1. \E how : Ended(how)
    BY <1>3 DEF Exit, GridCrash, AnswerCrash, CutNothing, DeleteResultRow, InsertPastNames,
                CommitCrash, RollbackCrash, Crash
  <2>2. gate' = Idle
    BY <1>3 DEF Exit, GridCrash, AnswerCrash, Ready
  <2>3. QED
    BY <2>1, <2>2, ClosedSane DEF Ended
<1>4. ASSUME Sane(conn'), isOpen, isOpen' = isOpen PROVE ClosedIsIdle'
  BY <1>4 DEF ClosedIsIdle, Sane
<1>5. CASE GridEdit \/ MenuCommit \/ MenuRollback \/ AnswerCommit \/ AnswerRollback \/ ImportFile
  BY <1>0, <1>4, <1>5, EditSane, CommitSane, RollbackSane, ImportSane
  DEF GridEdit, MenuCommit, MenuRollback, AnswerCommit, AnswerRollback, ImportFile
<1>6. CASE (\E h \in Handlers : StartHandler(h)) \/ Restart
  BY <1>0, <1>6 DEF StartHandler, Restart, ClosedIsIdle, Sane, widgetVars
<1>7. CASE AnswerCancel
  BY <1>0, <1>7 DEF AnswerCancel, ClosedIsIdle, Sane, widgetVars
<1>8. ASSUME NEW kind \in UserSql, ExecuteSql(kind) PROVE ClosedIsIdle'
  <2>1. PICK reply \in execSql(conn, kind) : conn' = reply.conn
    BY <1>8 DEF ExecuteSql
  <2>2. gate # Idle /\ isOpen' = isOpen
    BY <1>8 DEF ExecuteSql, Survives, Idle
  <2>3. QED
    BY <1>0, <1>4, <2>1, <2>2, execSqlSane, SqlAssumption
<1>9. ASSUME NEW t \in Tables, DumpTable(t) PROVE ClosedIsIdle'
  <2>1. gate # Idle /\ isOpen' = isOpen /\ conn' = conn
    BY <1>9 DEF DumpTable, Survives, Idle
  <2>2. QED
    BY <1>0, <1>4, <2>1
<1>10. ASSUME NEW t \in Tables, DropTable(t) PROVE ClosedIsIdle'
  <2>1. PICK reply \in dropTable(conn, t) : conn' = reply.conn
    BY <1>10 DEF DropTable
  <2>2. Sane(reply.conn)
    BY <1>0, WriteStmtSane DEF dropTable, Refused, Reply
  <2>3. QED
    BY <1>4, <1>10, <2>1, <2>2 DEF DropTable
<1>11. QED
  BY <1>1, <1>2, <1>3, <1>5, <1>6, <1>7, <1>8, <1>9, <1>10 DEF Next

LEMMA InitInv ==
  ASSUME Init
  PROVE  DatabaseInv /\ FlagMeansTransaction
<1>1. PICK db \in [Tables -> Contents] : conn = [inTx |-> FALSE, usable |-> TRUE, saved |-> db, work |-> db]
  BY DEF Init
<1>2. db \in Database
  BY DEF Database
<1>3. conn \in Connections /\ NothingHeldBack
  BY <1>1, <1>2 DEF Connections, NothingHeldBack
<1>4. Fresh(grid) /\ \A r \in RowIds : grid.cells[r].state = "None"
  BY BareGridFresh DEF Init, EmptyGrid, GridRows
<1>5. grid \in Grids /\ PendingChangesOwned /\ ResultsNameNoTable
  BY <1>4 DEF Fresh, PendingChangesOwned, ResultsNameNoTable, HasNewRow, DeletedShown
<1>6. /\ isOpen = FALSE /\ m_activeTransaction = FALSE /\ m_mode \in Modes
      /\ m_tableName = NoTable /\ m_columnNames = 0
      /\ process = "running" /\ gate \in Gates
  BY DEF Init, Idle, Gates, Handlers
<1>7. m_columnNames \in 0..1 /\ m_tableName \in Tables \cup {NoTable}
  BY <1>6
<1>8. TypeOK
  BY <1>3, <1>5, <1>6, <1>7 DEF TypeOK
<1>9. ClosedIsIdle
  BY <1>1 DEF Init, ClosedIsIdle
<1>10. QED
  BY <1>3, <1>5, <1>6, <1>8, <1>9 DEF DatabaseInv, FlagMeansTransaction

LEMMA StutterStep ==
  ASSUME DatabaseInv, UNCHANGED vars
  PROVE  DatabaseInv'
  BY DEF vars, widgetVars, DatabaseInv, TypeOK, PendingChangesOwned, ResultsNameNoTable,
         NothingHeldBack, HasNewRow, DeletedShown, ClosedIsIdle

-----------------------------------------------------------------------------
\* The inductive invariant holds, whatever fails and whatever SQL runs.
THEOREM DatabaseInvariant == Spec => []DatabaseInv
<1>1. Init => DatabaseInv
  BY InitInv
<1>2. DatabaseInv /\ [Next]_vars => DatabaseInv'
  <2>1. ASSUME DatabaseInv, Next PROVE DatabaseInv'
    <3>1. GridInv' /\ process' \in Processes /\ gate' \in Gates
      BY <2>1, NextStep DEF StepOK
    <3>2. QED
      BY <2>1, <3>1, ClosedStep DEF DatabaseInv, GridInv, TypeOK, Processes
  <2>2. QED
    BY <2>1, StutterStep
<1>3. QED
  BY <1>1, <1>2, PTL DEF Spec

\* Every variable keeps its type.
THEOREM TypeCorrect == Spec => []TypeOK
<1>1. DatabaseInv => TypeOK
  BY DEF DatabaseInv
<1>2. QED
  BY <1>1, DatabaseInvariant, PTL

\* No pending row and no deleted row is ever shown without the flag that
\* makes Commit act on it and the dialog ask about it.
THEOREM PendingOwned == Spec => []PendingChangesOwned
<1>1. DatabaseInv => PendingChangesOwned
  BY DEF DatabaseInv
<1>2. QED
  BY <1>1, DatabaseInvariant, PTL

\* Whatever fails, the file changes only on request, or by an edit under a
\* flag that outlived its transaction.
THEOREM SavedOnRequestOrStale == Spec => SavedOnlyOnRequestOrStaleFlag
<1>1. DatabaseInv /\ [Next]_vars =>
        [conn'.saved # conn.saved => SaveRequested \/ (m_activeTransaction /\ ~conn.inTx)]_vars
  <2>1. ASSUME DatabaseInv, Next PROVE SaveRequested \/ Quiet
    BY <2>1, NextStep DEF StepOK
  <2>2. QED
    BY <2>1 DEF Quiet
<1>2. QED
  BY <1>1, DatabaseInvariant, PTL DEF Spec, SavedOnlyOnRequestOrStaleFlag

\* With no engine rollback, and no SQL of the user's that ends transactions,
\* the flag is always true of the engine, through any failure of a commit.
THEOREM FlagTrueOfEngine ==
  ASSUME TransactionsAreTheGrids
  PROVE  Spec => []FlagMeansTransaction
<1>1. Init => FlagMeansTransaction
  BY InitInv
<1>2. DatabaseInv /\ FlagMeansTransaction /\ [Next]_vars => FlagMeansTransaction'
  <2>1. ASSUME DatabaseInv, FlagMeansTransaction, Next PROVE FlagMeansTransaction'
    BY <2>1, NextStep, TransactionsAreTheGrids DEF StepOK
  <2>2. ASSUME FlagMeansTransaction, UNCHANGED vars PROVE FlagMeansTransaction'
    BY <2>2 DEF FlagMeansTransaction, vars, widgetVars
  <2>3. QED
    BY <2>1, <2>2
<1>3. QED
  BY <1>1, <1>2, DatabaseInvariant, PTL DEF Spec

\* Then the file changes only when the user asks for it.
THEOREM SavedOnRequest ==
  ASSUME TransactionsAreTheGrids
  PROVE  Spec => SavedOnlyOnRequest
<1>1. FlagMeansTransaction /\
        [conn'.saved # conn.saved => SaveRequested \/ (m_activeTransaction /\ ~conn.inTx)]_vars
        => [conn'.saved # conn.saved => SaveRequested]_vars
  BY DEF FlagMeansTransaction
<1>2. QED
  BY <1>1, FlagTrueOfEngine, SavedOnRequestOrStale, PTL
    DEF SavedOnlyOnRequest, SavedOnlyOnRequestOrStaleFlag
=============================================================================
