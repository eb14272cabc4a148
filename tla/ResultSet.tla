----------------------------- MODULE ResultSet ------------------------------
(***************************************************************************)
(* What Execute shows of an SQL text: the rows of all its statements in    *)
(* one ResultSet (core/resultset.cpp), and the grid they are put into by   *)
(* ResultWidget::displayResultSet.                                         *)
(***************************************************************************)
EXTENDS Integers, Sequences

CONSTANTS
  Strings,   \* the names and values of columns
  Results,   \* the rows an SQL text may return
  NoItem     \* a cell of the grid without an item

VARIABLES
  m_columns, m_rows,   \* of the ResultSet that was shown last
  items                \* of the QTableWidget, row after row

vars == <<m_columns, m_rows, items>>

ResultsAssumption == Results \subseteq Seq([names : Seq(Strings), data : Seq(Strings)])

\* The names are those of the first row of all.
addRow(set, row) ==
  [columns |-> IF set.columns = <<>> THEN row.names ELSE set.columns,
   rows |-> Append(set.rows, row.data)]

\* exec(), whose callback is addRow().
ResultOf(result) ==
  LET set[i \in 0..Len(result)] ==
        IF i = 0 THEN [columns |-> <<>>, rows |-> <<>>] ELSE addRow(set[i - 1], result[i])
  IN  set[Len(result)]

\* QTableWidget::setItem() of row i and column j, of a grid with n columns: Qt
\* looks only whether the place is within the whole table.
setItem(table, n, i, j, item) ==
  LET at == (i - 1) * n + j IN
  IF at \in DOMAIN table THEN [table EXCEPT ![at] = item] ELSE table

EmptyTable(columns, rows) == [k \in 1..Len(columns) * Len(rows) |-> NoItem]

displayRow(table, n, i, row) ==
  LET filled[j \in 0..Len(row)] ==
        IF j = 0 THEN table ELSE setItem(filled[j - 1], n, i, j, row[j])
  IN  filled[Len(row)]

\* Variant: from the last row to the first.
displayFromLast(columns, rows) ==
  LET table[k \in 0..Len(rows)] ==
        IF k = 0 THEN EmptyTable(columns, rows)
        ELSE LET i == Len(rows) + 1 - k IN displayRow(table[k - 1], Len(columns), i, rows[i])
  IN  table[Len(rows)]

\* displayResultSet(): row after row, column after column.
displayResultSet(columns, rows) ==
  LET table[i \in 0..Len(rows)] ==
        IF i = 0 THEN EmptyTable(columns, rows)
        ELSE displayRow(table[i - 1], Len(columns), i, rows[i])
  IN  table[Len(rows)]

-----------------------------------------------------------------------------
\* inactive() of the grid
Clear == m_columns' = <<>> /\ m_rows' = <<>> /\ items' = <<>>

Init == m_columns = <<>> /\ m_rows = <<>> /\ items = <<>>

\* execute() of a text that returned result, as far as an error let it come
Execute(result) ==
  LET set == ResultOf(result) IN
  /\ m_columns' = set.columns
  /\ m_rows' = set.rows
  /\ items' = displayResultSet(set.columns, set.rows)

Next == Clear \/ \E result \in Results : Execute(result)

Spec == Init /\ [][Next]_vars

-----------------------------------------------------------------------------
\* The statements of one text may return rows of different widths, and the
\* items of a row that is wider than the grid land in the rows below it.  Each
\* row shows its own values all the same, as far as the grid is wide, because
\* it is put into the grid after the rows above it.
RowsShowTheirValues ==
  \A i \in DOMAIN m_rows : \A j \in DOMAIN m_rows[i] :
    j <= Len(m_columns) => items[(i - 1) * Len(m_columns) + j] = m_rows[i][j]
=============================================================================
