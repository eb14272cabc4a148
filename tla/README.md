# SBuilder: specifications, checks and proofs

SBuilder is a Qt 4 program that opens an SQLite database, shows its tables in
a tree and in a grid, lets the user edit cells and rows in the grid and run SQL
from an editor.  This directory holds TLA+ modules of its core, the TLC
configurations that check them, and proofs that TLAPS checks.

Everything in the program runs in one GUI thread.  What makes it hard is not
threads but state that is kept twice: the grid is a copy of a table, and
`m_activeTransaction` is a copy of the engine's transaction state.  Both copies
are brought up to date by some slots and not by others, every call of the engine
can fail, a modal dialog stops a handler half way, and the process can be closed
or killed at any moment.  Beside the grid there are modeless dialogs, which
keep copies of their own while databases come and go under them, and loops that
copy cells and files chunk by chunk while other programs use the file.

## 1. Inventory

| Component | State | Operations | Talks to |
|---|---|---|---|
| `SQLite` (core/sqlite.cpp), `SQLiteStmt`, `SQLiteIO`, `SQLiteBkp` | the connection handle; the engine's transaction and file | create, exec, begin, commit, rollback, update/insert/delete a row, drop a table, import/export a cell, pragmas, table info, memory statistics | the vendored engine |
| `ResultWidget`, `ResultWidgetItem` | `m_activeTransaction`, `m_mode`, `m_tableName`, `m_columnNames`, the cells with their `Init/Clean/Dirty` state and data | edit, cut, paste, set null, delete row, insert row, import, commit, rollback, dumpTable, displayResultSet, active, inactive | `SQLite`; itself through `itemChanged` |
| `DatabaseWidget` | `m_sqlite` | openDatabase, closeDatabase, execute, dumpTable, checkActiveTransaction | emits `active`/`inactive` to every other part, calls `ResultWidget` and `ExploreWidget` |
| `TransactionDialog` | none: three answers | Commit, Rollback, Cancel | `checkActiveTransaction()` |
| `ExploreWidget` (+ `Item`) | `m_tableNames`, the tree | populateTableTree, dropTable, active, inactive | `SQLite` |
| `MainWindow` | title, recent files | load, save as, close, exit; the menus | `DatabaseWidget`, `SQLiteBkp` |
| `PragmaDialog` | `m_pragmaChanges`, `m_isActive`, signal connections | show, change, save, close | `SQLite` |
| `MemoryDialog` | `m_isActive`, a timer | show, tick, reset, close | `SQLite` |
| `QueryWidget`, `QueryHighlighter` | the SQL text | edit, drop, highlight | signal `execute` |
| `ResultSet`, `SQLiteInfo` | values returned by `SQLite` | addRow, accessors | |
| `BlobViewerDialog`, `Log` | what they show | useCell; addMsg | `SQLite` |
| `src/sqlite/` | vendored engine | | |
| `test/test.cpp` | writes sample databases | | |

What each has to get right:

- **Grid and connection**: the file changes only when the user asks; a commit
  saves the rows on show and only those, the edited ones as the engine converts
  what was typed; an edit stays in its row; what is not marked red is saved, and
  what was refused is marked; the flag is true of the engine; no slot
  dereferences null under edits.
- **Gate (`checkActiveTransaction`)**: nothing runs inside the grid's transaction;
  Cancel changes nothing; pending edits are neither lost nor saved without an answer.
- **Tree**: after each refresh it shows the tables of the schema, each once.
- **Main window**: files change only on request; Save As never loses the open database.
- **Pragma dialog**: what Save writes is on show, and in an undisturbed
  database it is what the user has changed.
- **Memory dialog**: the timer never runs without a database, and the numbers
  follow the engine while they are on show.
- **Import, export, view**: what is reported as copied is copied whole, and the
  loops end.
- **Pure algorithms** (highlighter, value conversion, result sets): equal to a
  plain definition, or as close to it as the code comes.

The hazards at their lines are the list `hazards` in PROJECT.json.

## 2. Modules

    Connection            the engine as class SQLite uses it (operators, no state)
      ^ EXTENDS
    ResultWidget          the grid and its cells (state and actions)
      ^ EXTENDS
    DatabaseWidget        opening, closing, SQL, the gate; Init, Next, Spec, properties
      ^ EXTENDS
    DatabaseRefinement -- INSTANCE --> EditSession   the abstract specification
      ^ EXTENDS
    MCDatabaseWidget      the instances TLC checks

    DatabaseProofs        lemmas about every operator of Connection, and the
      ^ EXTENDS           theorems about DatabaseWidget that hold whatever fails
    GridProofs            (with DatabaseRefinement) the grid against the engine,
                          and the refinement of EditSession

    TableTree             the tree beside a schema anybody may change
      ^ EXTENDS
    MCTableTree, TableTreeProofs

    MainWindow            files, Open, Save As, Close, the recent files
      ^ EXTENDS
    MCMainWindow, MainWindowProofs

    Sublist               a list without some of its items: TableTree's walk
                          and MainWindow's recent files
    ListProofs            induction and recursion, for the proofs about lists

    PragmaDialog, MemoryDialog, QueryWidget, ResultSet, CellValue, CellFile
      ^ INSTANCE          six parts, each with variables, actions, properties
    GuiThread             the parts in the one thread they share
      ^ EXTENDS
    MCGuiThread, GuiThreadProofs
    PragmaDialogProofs, CellFileProofs     of the parts; GuiThreadProofs cites them

**Connection.** A connection is a record: `saved`, the database in the file;
`work`, the database its own statements see; `inTx`, whether it is in an explicit
transaction; `usable`, whether it was opened.  `sqlite3_open_v2` returns a handle
when it fails, too, and `SQLite::create` looks at nothing else (`Opened`): such a
connection refuses every statement.  A method of `SQLite` is an operator from a
connection to the *set of replies* the engine may give, each a success flag and a
connection. `Faults` says which failures are possible and what each leaves behind:
`abort` (the statement is refused, the transaction stays), `rollback` (the engine
rolls everything back: disk full, I/O error, ON CONFLICT ROLLBACK), `busy` (COMMIT
or the first read meets another lock), `blob` (the blob of an import cannot be
opened, written or closed after its UPDATE; the first two are reported, the third
is not), `open`.  What a writing statement stores of a text is not the text but
one of the values in `StoredAs` (`Kept`): `bindConvert`, the column's affinity and
the conversion to Latin-1 may make another of it, and the cell goes on showing
what was typed.

**ResultWidget.** One action per slot, each with every engine call it makes.
`SetData` is `ResultWidgetItem::setData` whole: the early returns (`Ignores`),
the new cell (`EditedCell`), and, through `WriteCell`, the `itemChanged` signal
of painting the cell red (`startTransaction`, `beginTransaction`) followed by
`updateTableCell`.  `Commit` inserts the pending `*` row, commits and dumps the
table again.  Slots that go through a null pointer or past a list's end are the
actions `CutNothing`, `DeleteResultRow`, `InsertPastNames`, `CommitCrash`,
`RollbackCrash`.  `ToInt` is the truncation of a rowid by `getInt()`.

**DatabaseWidget.** `gate` is the handler that called `checkActiveTransaction()`
and how far it is: a handler is two or three actions (`StartHandler`, an answer,
`ExecuteSql` or `DumpTable`), so that the end of the process can fall between
them.  No other slot can: the dialogs are modal.

**EditSession** is the promise to the user: a file, a draft, and a session of
grid edits that is saved or discarded in one step.  `DatabaseRefinement` maps
the connection, the flag and the `*` row to it.

**TableTree.** The schema is not a variable: it belongs to the users of the file,
of which this program is one, so each refresh reads any schema (`Schemas`).  The
state is the program's copy: the names of the last refresh (`m_tableNames`) and
the items, each with its table and the text it shows.  `populateTableTree` is the
whole function: the items added (`Added`), the names collected for removal
(`Vanished`), and the walk that removes while it counts (`AfterWalk`).  Reads may
fail (`ReadFaults`), and a name may be a LIKE pattern for another (`Like`).

**MainWindow.** `disk` says what each file holds; the open connection is its
place, what it sees and how far its transaction is.  `loadDatabase` is shared by
New, Open, Open Recent and Save As, as in the code, in the code's order: recent
files, then the database, then the title, whether or not the database was
opened.  A file that can be neither opened nor created (`OpenMayFail`) gives an
open connection all the same (`Opened`): it is on no file, and `work` is `Nothing`.
`Copies` gives the outcomes of the backup, `Closed` what every way of
closing does.  DatabaseWidget's slots are here five small actions: what matters
is whether a transaction has written when the window is asked to copy or close.

**PragmaDialog.** Each widget shows a text; the engine has a value.  `TextFor`
is what `setComboBox()` makes of a value (the item at its number, or of its
name, or none), `Meaning` what the engine makes of the text that Save sends.
The widgets are connected to `changeWidget()` when they are filled for the
first time and stay so: `Filled` is the difference between the first show and
the others.  `edited` and `asShown` are history variables.

**MemoryDialog.** The timer is a Boolean and `tick` one timeout.  `hide` is how
Escape and the Close button leave the dialog (no close event), `closeEvent` how
the window's frame does, `Inactive` how a closed database does: its `close()`
reaches a hidden dialog too.  The constructor leaves `m_isActive` undefined.

**QueryWidget** is the editor and `highlightBlock()` as a fold over the line,
with the two states of its loop and the word that is left at the end.
**ResultSet** is what several statements return and where `displayResultSet()`
puts it: `setItem` is Qt's, which looks only whether the place is within the
whole table.  **CellValue** is the binding of a typed text: as text, or as the
first of the kinds it can be read as.  The program sets no codec, so that in
Qt 4 `toStdString()` and the `QString` of a `char *` are both Latin-1: a byte for
each `QChar`, and a question mark for those that have none.

**CellFile.** `job` is the method the GUI thread is in, a step one round of its
loop.  `Touch` is another program that changes the file between two rounds; the
stream may then read from either version (`Versions`).  An `int` has `IntSpan`
values and wraps.  Every read, write and open may fail.  Closing the blob, which
commits it outside a transaction, may take back what was written (`Closed`), and
the method returns what it would have returned otherwise.

**GuiThread** instantiates the six, with the variables of each and `running`
shared.  The signals `active()` and `inactive()` are steps of all parts at once;
any other step is one part's, and none is taken while a file slot is in its
loop (`Between`), the timer's included.  The grid's transactions are not in it:
they are `DatabaseWidget`'s, and no part here reads them.

### What is abstracted

- A row is its one modelled column: every method addresses a cell by table,
  column and rowid, and none relates two columns.
- A text is one of a few model values; `Unprintable` are those `isPrintable`
  refuses, `Placeholder` stands for `#NULL` and `#BLOB`.
- `RowIds` bounds the rows of a table; a full table has no reply to an insert.
  The engine may pick any free rowid, which is more than SQLite does.
- The user runs one statement per Execute; several are several Executes.
- A displayed result set is whether it has a row; its cells name no table and
  write nowhere.
- Reading statements fail only by `busy`.  A failure, or the end of the process,
  between the two steps of an import is the outcome `blob`.
- What the engine makes of a bound value is the engine's: `StoredAs` gives any set
  of values to each text, the same for all columns, and the choice is made at
  each write.  Only typed texts are converted, not what SQL writes.  A value
  read from the database and not edited is shown as it is: the databases are taken
  to be encoded in UTF-8, whose bytes `getString()` takes for Latin-1; in one in
  UTF-16 the engine converts what it is given.
- Rowids are positive in every run: the `*` row stands for the rows 0 and -1 in two
  slots (see the hazards), and what that does is stated as a hypothesis,
  `RowIdsFit`, and not run.
- Whether the grid has a current item is not kept; a grid nothing was edited in
  may have none (`Untouched`).
- Export and the blob viewer only read; what they deliver is in `CellFile`, and
  whether a cell is an image is left to Qt.
- `CellFile` starts a slot whether or not a transaction is pending: the slots'
  first test is in `ResultWidget`.  What a failed import leaves in the cell is
  there as well.
- The pragmas are independent of each other and share one pair of tables for
  their texts; reading one has no effect (`wal_checkpoint` does checkpoint when
  it is read).  An accepted pragma has its effect or none.  Warnings are left out.
- One of the seven memory statistics stands for all: they are read together.
- What loops over a list in the code (`highlightBlock`, `bindText`'s conversion,
  `displayResultSet`, the walk of the tree, the recent files) is a recursive
  function on the places of the list, round by round, so that it can be proved
  about.
- In `CellValue` the declared type of the column is free, and so is the flag
  that is read uninitialised.  What the engine makes of what is bound is in
  `Connection`.
- A source of an import that says it is not at its end and gives no bytes, again
  and again, would keep the loop going; no regular file does.
- `GuiThread` ends with the process, and a Save As is the `inactive()` and
  `active()` it emits.  A database that could not be opened is, to its parts and to
  `TableTree`, one whose every read and statement is refused; the memory dialog
  reads the engine's numbers, which need no database.
- In `MainWindow` other programs leave the open file alone; what sharing a file
  does to the connection is in `Connection` (`busy`).  Names of files go through
  Latin-1 like any text, and are taken to consist of it.  That opening gives no
  handle at all, for want of memory, is left out.

## 3. Runs

| Run | Instance | Checks | Result |
|---|---|---|---|
| `editing` | 1 table, 2 rowids, 4 texts (1 converted), fault `open`, all SQL | `GridMatchesDatabase`, `UnmarkedCellsAreSaved`, `EditsStayInTheirRow`, `CommitSavesWhatIsShown` | pass |
| `session` | 2 tables, 1 rowid, 5 texts (1 converted), fault `open`, all SQL | `ImplementsEditSession` | pass |
| `faults` | 2 droppable tables, 1 rowid, 2 texts, all faults, all SQL | `TypeOK`, `PendingChangesOwned`, `DatabaseInv`, `SavedOnlyOnRequestOrStaleFlag`, `EditedTableNeverCrashes` | pass |
| `recoverable` | the same without `rollback` and without transaction statements in SQL | `FlagMeansTransaction`, `RefusedEditsAreMarked`, `SavedOnlyOnRequest` | pass |
| `gate` | 1 table, 2 rowids, fault `abort` | `GatePassedMeansNoTransaction` | violated |
| `retry` | 1 table, 2 rowids, fault `busy` | `PendingRowStoredOnce` | violated |
| `rowid` | rowids 1 and 9 and an int of 3 bits | `EditsStayInTheirRow` | violated |
| `tree` | 3 names (one matches another as a pattern, one may be virtual, one is the text of a virtual one), reads that fail, at most 4 items | `OneDropLeavesNothingStale`, `ListedStaysListed` | pass |
| `treedrop` | 3 ordinary names, no failures | `TreeShowsSchema` | violated |
| `window` | 2 files, 3 contents, a backup and an open that may fail, 1 recent file in the menu | `WindowTypeOK`, `OpenIsOnDisk`, `FilesChangeOnRequest` | pass |
| `saveas` | 2 files, 2 contents, a backup that succeeds when it may | `SaveAsKeepsTheDatabase` | violated |
| `gui` | 2 pragmas (one write-only), 3 values, 4 texts; memory levels 0 and 1; lines up to 3 characters; 3 rows of 1 to 3 columns; texts up to 3 characters, one of which no byte stands for; files up to 13 bytes, chunk 2, ints of 12 values | `GuiTypeOK`, `RecordedIsShown`, `SaveOnlyEdited`, `TimerHasDatabase`, `NumbersFollow`, `BlueAreKeywords`, `RowsShowTheirValues`, `TextsComeBack`, `IntegersAreExact`, `ImportStoresFile`, `ExportDeliversCell`, `SlotsReturn` | pass |

**Bounds.** Two rows are the least where an edit can reach the wrong row and where
a pending row can be stored beside another or twice; two tables the least where
the grid can show one while a statement changes the other.  Four texts give an
empty one, a placeholder and an unprintable one, which are the cases `setData`
tells apart, and one that the engine may convert, like `007` or `nan`: it stays,
becomes NULL or, in `session`, which has a fifth, another text.  Runs that are not
about values have the first two.  In the tree three names allow a removed item
with a neighbour on each side; `MaxItems` caps the items, because a stale item and
a new one for the same name could pile up for ever: four are one more than the
names. Two files are the least where one can be open and another copied to; with
one menu entry (`MaxRecentFiles`, 4 in the code) the list can be longer than the
menu.  Nothing else is bounded: the state spaces are complete, without a limit on
the number of steps.  Tables and files are symmetric in the runs that say
`SYMMETRY`.  Deadlock is checked except in `gui`, where a crash ends the process.

In `gui` a chunk of 2 and ints of 12 values put every case at small sizes: files
below, at and past a chunk, past the largest int (5), where it is negative, and
past its whole span (12), where a file of 13 bytes gets a blob of one.  Of two
pragmas one can change behind the other, or answer nothing; three rows are the
least where a row's surplus lands in a row that is not the last.  `OneAtATime`
keeps all parts but one at rest: they share no variable but whether there is a
database and `running`, so that more of them in motion adds no behaviour of any
one, and the proofs below do without it.  The timer and the file slots, which do
meet, are one part there.

**The tree's properties.**  That the tree shows the schema is false
(`treedrop`), so `tree` checks what is left of it: a refresh that finds one
table gone leaves nothing stale, and no refresh takes away the item of a table
that it still finds, unless the text of the item is the name of a dropped table.

**The grid's properties.**  After an edit the cell shows the text that was typed,
and the engine may hold another value: `HeldFor` says that it is one that it may
keep of just that text, and that a cell nobody edited shows the very value.
`GridMatchesDatabase` and `CommitSavesWhatIsShown` say so of the whole table and
of a commit, where no statement fails.  Where statements may be refused the grid
does not match, because no slot looks; `RefusedEditsAreMarked` says that
every difference is on show in red, but for the zeros that a broken import leaves
behind an unmarked cell, and that no row on show is missing.  A row painted as
deleted is not covered, because it may be in the table or not: a
deletion may have been refused, and a pending row whose commit failed is stored
under whatever rowid is free, the deleted one's included.

**The five disagreements.**  `gate`: a refused commit in the dialog counts as a
finished transaction although the comment of `checkActiveTransaction()` says
the function returns true if a transaction remains.  `retry`: the pending row
is inserted at every attempt to commit.  `rowid`: rowids are 64 bits wide and
pass through an `int`.  `treedrop`: of two neighbouring tables dropped by one
Execute the second stays in the tree for good.  `saveas`: with an edit waiting
for its commit the backup is refused (`sqlite3_backup_step` returns BUSY when
its source is being written to), nobody looks, and the user is left with an
empty or old database under the new name; if the other was in memory it is gone.

A sixth shows in the weak form of `ImportStoresFile`: outside a transaction the
bytes of an imported file are committed when the blob is closed, in a destructor
that drops the result (`sqliteio.cpp:44`), so that an import reported as done may
have left zeros.  What is left to check is that the cell holds the file or none
of it, never a part.

**The parts' properties.**  Some are weaker than one would wish, because more
is not true.  A Save may write changes that nobody made, to another database
than they were meant for; `RecordedIsShown` says that they are at least on show,
and `SaveOnlyEdited` that they are the user's as long as the database is the one
that was shown and nothing else changed its pragmas.  A Save without a database
and a dialog shown before the first database end the process (`Crash`).  A
character that is not Latin-1 is saved as a question mark; `TextsComeBack` says
that this is all that happens to a text, which depends on the three conversions,
two of the text and one of its length, being in the same encoding.  That
`OpenIsOnDisk` lets a connection be on no file is the program's, too: it says
that no transaction is ever begun there.

**Fairness.** `DatabaseWidget`, `TableTree` and `MainWindow` have none: every
action there is the user's, or the end of the process.  `GuiThread` has two.  A
slot that has begun goes on (weak fairness of `FileSlotRuns`): it is straight
code in a running thread.  The timer's timeout is taken if it is due again and
again (strong fairness of `tick`): the event loop comes back after every slot
and serves a timer that is due, but a slot may keep it waiting, so that it is
not enabled all the time.  Nothing is assumed of the user, of other programs or
of the engine.  `SlotsReturn` then holds although others may lengthen the file
for ever, and `NumbersFollow` although they and the user may keep the thread busy.

## 4. Proofs

Every safety property of a passing run is a theorem, for every value of the
constants; two properties that the program violates are theorems where the
engine refuses nothing.  The assumptions on the constants are the named ASSUMEs
of the modules, which TLC evaluates in the runs.  Hypotheses of a theorem, beside
those, are named below with the run that shows them to be needed.

### The grid and the connection

`DatabaseProofs` proves, for any sets of tables, rowids and texts, any faults
and any SQL:

- `DatabaseInvariant`: `Spec => []DatabaseInv`.  `DatabaseInv` is inductive.
  Beside `TypeOK` and `PendingChangesOwned` it needs `ResultsNameNoTable` (a
  result set leaves no cell of a table behind, or a later slot would edit one
  that is not on show), `NothingHeldBack` (outside a transaction the connection
  sees what is saved, without which an edit's failure could change the file)
  and `ClosedIsIdle` (a transaction is in a database that is open and usable, a
  grid with cells and a waiting handler too, or a reopened database could be
  written by what the closed one left).
- `TypeCorrect`, `PendingOwned` follow from it.
- `SavedOnRequestOrStale`: an action property, each step by cases.
- `FlagTrueOfEngine` and `SavedOnRequest` under the assumption
  `TransactionsAreTheGrids`: no failure rolls a transaction back behind the
  program's back, and the user's SQL has no COMMIT or ROLLBACK.  The runs show
  the assumption is needed: the `faults` run checks only the weaker form.

The argument goes bottom up.  One lemma per method of the connection says that
the replies are connections, nothing is held back after them, which of them can
leave a transaction, and when `saved` can change.  One lemma per slot follows
from its guard and those, and one step per disjunct of `Next` from that.

`GridProofs` takes `Next` apart once (`Steps`), into edits, commits, rollbacks,
imports, the user's SQL and the rest, and states what an edit does to the
connection as an effect on one row (`WriteCellEffect`, `InsertEffect`).  Four
invariants then stand on these, the third on the second:

| Invariant | Says | Holds | Gives |
|---|---|---|---|
| `ConsistentGrid` | cells, mode and column names are of one table or one result set | always | `EditedTablesAreSafe`, `EditsStay` |
| `SessionInv` | the flag is true of the engine, no handler goes on inside the grid's transaction, no table is gone | `NothingRefused`, `NoRowOfStar` | `SessionImplemented`, `GateIsSafe`, with `NoRowAdded` also `PendingStoredOnce` |
| `MatchInv` | the grid is the table; only the `*` row is `Init`; in a transaction a `Clean` cell is one that was not written | `NothingFails`, `RowIdsFit` | `GridShowsDatabase`, `UnmarkedSaved`, `CommitSavesShown` |
| `MarkedInv` | `RefusedEditsAreMarked`, and no stored row is `Init` | `OnlyRefuses`, `RowIdsFit` | `RefusedEditsMarked` |

`GridMatchesDatabase` is not inductive by itself.  An edit of a cell that is
`Init` is not sent to the engine, so that only the `*` row may be; and it needs
`SessionInv`, or a table could go, or change under a handler that goes on, while
it is on show.  `UnmarkedCellsAreSaved` needs what `MatchInv` says of the `Clean`
cells of a transaction.

The hypotheses:

- `RowIdsFit`: rowids survive `getInt()`, and none is -1 or 0, which are what the
  `*` row has for one.  Without it `EditsStayInTheirRow` is false (`rowid`).
  `EditsStay` assumes besides that no failure rolls the whole transaction
  back, which would change other rows; any other failure is covered.
- `NoRowOfStar`: no row has the rowid -1, for the same reason.  The width of an
  `int` does not matter to `EditSession`, which does not say which row is edited.
- `NothingRefused`: the engine refuses no statement of a database it could open;
  an import may still break off in its middle, a database may not open (nothing is
  begun in it then), and the user's SQL may be anything, COMMIT and ROLLBACK
  included.  No table is dropped in the tree.  With refusals the gate lets a
  handler pass (`gate`) and a pending row is inserted again (`retry`).
- `NothingFails`: neither do imports break off.  What the engine refuses is
  still shown, because no slot takes a cell back.
- `OnlyRefuses`: no failure rolls the transaction back; everything else may fail in
  any order, and tables be dropped.  After a busy commit a table can be dumped again
  inside its transaction, so that edits waiting there are on show as `Clean`; when
  the engine then rolls them back the grid is not told.

What the engine keeps of a text is any non-empty set of values in all of them
(`StoredAsAssumption`).  They are the hypotheses of the runs: `editing` and
`session` have no fault but `open` and no table to drop, `recoverable` none that
rolls back.  They cannot be weaker by a fault: with any single one more TLC finds
each of these properties false in those instances, and where a table can be
dropped false, or about rows of a table that is gone (except that a pending row is
stored once even where the engine only rolls back).  `EditedTablesAreSafe` has
none, as `faults` has every fault.

### The tree and the window

`TableTreeProofs` is about any names, schemas, patterns, virtual tables and
failing reads, with any number of items.  `TreeInv` is only that the items are a
list of items; the work is in `WalkRefreshes`, what the walk that skips the item
after each it removes leaves (`Refreshed`): the items in their order without those
whose text has vanished, except where the item before was removed.  From it
`OneDropIsSafe` and `ListedIsSafe`.

`MainWindowProofs` is about any finite set of files, any contents, any size of the
menu, and files that can be opened, and backups that succeed, always or not.
`FilesAreSafe`: a file that holds a database is changed by a save or a write in
it, by a Save As that names it, or by another program, and by nothing else; the
lemmas say that making a file, closing, loading and copying keep what the other
files hold (`KeepsFilesBut`). `OpenDatabaseIsOnDisk` has the inductive invariant
`WindowInv`, whose cases are the two outcomes of opening (`Opened`).
`WindowTypes` needs `RecentInv` for the recent files: a list of files without
duplicates stays one when a file is taken out, put first, and the removed files
are dropped (`PrependedIsRecent`).  That `Files` is finite is what makes such a
list finite.

### The parts of the GUI thread

`CellFileProofs` proves the loops for any chunk, any width of an `int` and any
files and cells: `ChunksInv` says that the blob is no longer than the file, that
its first `offset` bytes are the file's, and, for the other two loops, that what
has been delivered is the cell up to `offset`, which may lie past its end.  Once
an import has returned, the cell may be the zeros it began with: closing the blob
takes back all of its bytes or none, which is why no part of a file is stored.  That
an import cut down by the `int` is never reported as done follows from it
alone: `atEnd()` is only true at the file's end, which the blob does not reach.
`PragmaDialogProofs` proves both claims about Save from `DialogInv`, whose
point is `StrayChangesAreVoid`: while the database is as it was shown, a
recorded change that is not the user's is refused by the engine or says what
the engine has.  The parts' assumptions about their constants are hypotheses
of these theorems.

`GuiThreadProofs` proves that the composition implements its parts
(`PartsAreImplemented`): every step of the program is a step of the pragma
dialog, of the memory dialog and of the file slots, or leaves them alone.  With
that the parts' lemmas, cited through INSTANCE, give the theorems about the
program: `ProgramRecordsWhatIsShown`, `ProgramSavesEdits`,
`ProgramImportsFiles`, `ProgramExportsCells`, `TimerStopsWithDatabase`, and
`PartsAgree`, that all parts hear of a database or none does.

Four more are about loops over data of any length.  `ProgramHighlightsKeywords`:
before each round of `highlightBlock()` the blue characters are those of the
keywords that end before it (`KeywordsBefore`), and the state says whether a word
is open.  `ProgramShowsRows`: `setItem` of a later row writes over what a wider
row above has left in its places.  `ProgramBindsTexts`: a text has as many bytes
as `QChar`s, so that the length cuts nothing off.  `ProgramKeepsIntegers`: what
reads as an `int` reads as the same 64-bit integer.  The invariants `EditorInv`
and `ValueInv` are that what is on show, or bound, is what the loop made of the
present text.

`GuiAssumption`, which TLC evaluates in `gui`, says of the constants that lines are
sequences of known characters and typed texts of `QChar`s other than 0 (16 bits,
a pair of them for what does not fit), that integers agree in both widths, and
that results have rows of strings.

### Induction over lists

A least counterexample takes the place of an induction rule, which would need an
operator for a parameter.  `LeastElement` and `UpToBound` in `ListProofs` say so
for natural numbers; `Recursion` that a recursion up to a bound, whose step is
given as a function, has a solution, so that the value of a recursive function
is one that fits its definition.  `IsSublist` tells
what `Sublist` takes from a list, in which order.  `Sublist` stands where
`SelectSeq` would do: the provers cannot look into `SelectSeq`.

### Only model-checked

`NumbersFollow` and `SlotsReturn`: they are liveness, which is beyond the prover,
as is ENABLED, which their fairness is made of.  And the five violations, which
are counterexamples.

## 5. Plan

Done: the core, its invariant and its action properties; `TableTree`;
`MainWindow`; the parts beside the grid, their composition, liveness; the
refinement of `EditSession`; and theorems for every safety property of the
passing runs.  Next, in this order:

1. Theorems under weaker hypotheses.  What refused statements cost the grid is
   stated and proved (`RefusedEditsMarked`), but not what a transaction that the
   engine rolls back does.  `SessionImplemented` with
   dropped tables needs the abstract session to lose a table.
2. What several statements of one Execute leave behind in the grid's transaction
   (`DatabaseWidget` has one statement per Execute), and `simplified()`, which
   puts the text on one line, so that a comment hides what follows it.

Not planned: the engine itself (vendored), `Log` (appends text to a window),
`SQLiteInfo` (values that one query fills and getters return), the rest of
`BlobViewerDialog` (pictures), `.ui` forms, the test database generator.
