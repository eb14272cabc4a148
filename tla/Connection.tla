---------------------------- MODULE Connection ----------------------------
(***************************************************************************)
(* One SQLite connection as the class SQLite (core/sqlite.cpp) uses it.    *)
(*                                                                         *)
(* A connection is a value: the database other processes see ("saved"),    *)
(* the database its own statements see ("work"), whether it is inside an   *)
(* explicit transaction ("inTx", the negation of sqlite3's autoCommit) and *)
(* whether sqlite3_open_v2 succeeded ("usable"): when it fails it returns  *)
(* a handle all the same, which refuses every statement, and the program   *)
(* only looks at the handle.                                               *)
(*                                                                         *)
(* Each method of SQLite is an operator that returns the set of replies    *)
(* the engine may give: whether the method returned true, and the          *)
(* connection afterwards.  Faults names the ways a statement may fail.     *)
(*                                                                         *)
(* A table is its rows, and a row is its one modelled column: the program  *)
(* reads and writes every cell by (table, column, rowid), and no method    *)
(* relates two columns.                                                    *)
(***************************************************************************)
EXTENDS Integers

CONSTANTS
  Tables,     \* the tables of the database file
  RowIds,     \* the rowids a row may have: the bound on rows of a table
  Texts,      \* what a cell may hold, other than NULL
  Empty,      \* the text of no characters, also how a zero-filled blob reads
  Null,       \* SQL NULL
  Absent,     \* "there is no such row"
  Gone,       \* "there is no such table"
  StoredAs,   \* what the engine may keep of a text it is given for a cell
  Droppable,  \* the tables SQLite lets the user drop (not sqlite_master)
  Faults      \* which of the failures below can happen

(***************************************************************************)
(* The failures of a statement, by what they leave behind:                 *)
(*   abort     the statement is refused, the transaction continues         *)
(*             (a constraint, a lock another process holds);               *)
(*   rollback  the engine rolls the whole transaction back (I/O error,     *)
(*             disk full, ON CONFLICT ROLLBACK);                           *)
(*   busy      COMMIT, or the first read, meets another process's lock;    *)
(*   blob      sqlite3_blob_open, _write or _close fails;                  *)
(*   open      sqlite3_open_v2 fails.                                      *)
(***************************************************************************)
AllFaults == {"abort", "rollback", "busy", "blob", "open"}

Values == Texts \cup {Null}
Contents == [RowIds -> Values \cup {Absent}]
Database == [Tables -> Contents \cup {Gone}]
Connections == [inTx: BOOLEAN, usable: BOOLEAN, saved: Database, work: Database]

ASSUME RowIdsAssumption == RowIds \subseteq Int
ASSUME ValuesAssumption == Empty \in Texts /\ Null \notin Texts /\ Absent \notin Values
ASSUME StoredAsAssumption == StoredAs \in [Texts -> (SUBSET Values) \ {{}}]
ASSUME GoneAssumption == Gone \notin Contents
ASSUME FaultsAssumption == Faults \subseteq AllFaults /\ Droppable \subseteq Tables

-----------------------------------------------------------------------------
Reply(ok, c) == [ok |-> ok, conn |-> c]
Refused(c) == {Reply(FALSE, c)}

\* A reply that only exists when its fault can happen.
Fault(kind, c) == IF kind \in Faults THEN {Reply(FALSE, c)} ELSE {}

\* sqlite3_close, sqlite3RollbackAll and the recovery of the journal at the
\* next open all leave the connection outside a transaction, on saved data.
RolledBack(c) == [inTx |-> FALSE, usable |-> TRUE, saved |-> c.saved, work |-> c.saved]

Committed(c) == [inTx |-> FALSE, usable |-> c.usable, saved |-> c.work, work |-> c.work]

\* A statement that changed the database: outside a transaction it commits.
Written(c, new) ==
  [inTx |-> c.inTx, usable |-> c.usable,
   saved |-> IF c.inTx THEN c.saved ELSE new, work |-> new]

\* Every outcome of stepping one writing statement to its end.
WriteStmt(c, new) ==
  {Reply(TRUE, Written(c, new))}
    \cup Fault("abort", c)
    \cup Fault("rollback", RolledBack(c))

\* The rows of table t as the connection sees them; a name that is not a
\* table (the empty name of a grid that shows none) is like a dropped one.
Rows(c, t) == IF c.usable /\ t \in Tables THEN c.work[t] ELSE Gone

HasRow(c, t, id) == id \in RowIds /\ Rows(c, t) # Gone /\ c.work[t][id] # Absent

-----------------------------------------------------------------------------
\* SQLite::create: a handle comes back from an open that failed, too.
Opened(c) == {[c EXCEPT !.usable = u] : u \in {TRUE} \cup {"open" \notin Faults}}

\* SQLite::begin: BEGIN inside a transaction is an error.
BeginTx(c) ==
  IF c.inTx \/ ~c.usable THEN Refused(c)
  ELSE {Reply(TRUE, [c EXCEPT !.inTx = TRUE])}

\* SQLite::commit: COMMIT outside a transaction is an error; a busy COMMIT
\* leaves the transaction active, any other failure rolls it back.
CommitTx(c) ==
  IF ~c.inTx THEN Refused(c)
  ELSE {Reply(TRUE, Committed(c))}
         \cup Fault("busy", c)
         \cup Fault("rollback", RolledBack(c))

\* SQLite::rollback
RollbackTx(c) == IF c.inTx THEN {Reply(TRUE, RolledBack(c))} ELSE Refused(c)

-----------------------------------------------------------------------------
\* A statement on row id of table t that writes v there: an UPDATE (v a
\* value) or a DELETE (v = Absent).  A row that does not exist is no error.
WriteRow(c, t, id, v) ==
  IF Rows(c, t) = Gone THEN Refused(c)
  ELSE WriteStmt(c, IF HasRow(c, t, id) THEN [c.work EXCEPT ![t][id] = v] ELSE c.work)

\* What the engine may keep of a value bound for a cell: bindConvert (in a
\* column without affinity) and the affinity of the others make a number, or
\* NULL, of some texts, and bindText keeps Latin-1 characters only.
Kept(v) == IF v = Null THEN {Null} ELSE StoredAs[v]

updateTableCell(c, t, id, v) == UNION {WriteRow(c, t, id, w) : w \in Kept(v)}

deleteTableRow(c, t, id) == WriteRow(c, t, id, Absent)

\* SQLite::insertTableRow: the engine picks a rowid that is free.  RowIds
\* bounds the rows: a full table has no reply.
insertTableRow(c, t, v) ==
  IF Rows(c, t) = Gone THEN Refused(c)
  ELSE UNION {WriteStmt(c, [c.work EXCEPT ![t][id] = w]) :
                id \in {r \in RowIds : c.work[t][r] = Absent}, w \in Kept(v)}

\* SQLite::dropTable
dropTable(c, t) ==
  IF t \notin Droppable \/ Rows(c, t) = Gone THEN Refused(c)
  ELSE WriteStmt(c, [c.work EXCEPT ![t] = Gone])

\* SQLite::updateCellWithFile: an UPDATE to a zero-filled blob, and then the
\* blob is opened and the file written into it.  When the second half fails
\* what the first half wrote stays.  Outside a transaction the bytes commit
\* when the blob is closed, and nobody looks at what came of that.
updateCellWithFile(c, t, id, v) ==
  UNION {IF w.ok /\ HasRow(w.conn, t, id)
           THEN {Reply(TRUE, Written(w.conn, [w.conn.work EXCEPT ![t][id] = v]))}
                  \cup Fault("blob", w.conn)
                  \cup (IF "blob" \in Faults /\ ~c.inTx THEN {Reply(TRUE, w.conn)} ELSE {})
           ELSE Refused(w.conn) :
         w \in WriteRow(c, t, id, Empty)}

-----------------------------------------------------------------------------
SqlKinds == {"query", "write", "begin", "commit", "rollback"}

\* What one statement that is not a query and not BEGIN, COMMIT or ROLLBACK
\* may make of the database: any other rows of one table, or the table gone.
Rewritten(db) ==
  {[db EXCEPT ![t] = new] : t \in Tables, new \in Contents}
    \cup {[db EXCEPT ![t] = Gone] : t \in Droppable}

\* SQLite::exec on one statement of each kind.
execSql(c, kind) ==
  IF ~c.usable THEN Refused(c)
  ELSE CASE kind = "query"    -> {Reply(TRUE, c)}
         [] kind = "write"    -> UNION {WriteStmt(c, new) : new \in Rewritten(c.work)}
         [] kind = "begin"    -> BeginTx(c)
         [] kind = "commit"   -> CommitTx(c)
         [] kind = "rollback" -> RollbackTx(c)
=============================================================================
