---------------------------- MODULE MainWindow ----------------------------
(***************************************************************************)
(* The main window (mainwindow.cpp): which database is open, New, Open,    *)
(* Open Recent, Save As, Close and Exit, the title and the recent files.   *)
(* What the user does inside the open database is here one write, or the   *)
(* begin, edits and end of one transaction; module DatabaseWidget has the  *)
(* rest.                                                                   *)
(***************************************************************************)
EXTENDS Sublist, FiniteSets

CONSTANTS
  Files,           \* the database files there may be
  Memory,          \* ":memory:"
  Docs,            \* what a database may hold
  Blank,           \* what a new one holds
  Nothing,         \* no database, and no file
  OpenMayFail,     \* whether a file may be impossible to open or to create
  BackupMayFail,   \* whether sqlite3_backup_step may fail for want of disk or locks
  MaxRecentFiles   \* how many recent files the menu has

Places == Files \cup {Memory}

ASSUME WindowAssumption ==
  /\ IsFiniteSet(Files) /\ Memory \notin Files /\ Nothing \notin Places \cup Docs
  /\ Blank \in Docs
  /\ OpenMayFail \in BOOLEAN /\ BackupMayFail \in BOOLEAN
  /\ MaxRecentFiles \in Nat

VARIABLES
  disk,           \* what each place holds: saved, or nothing at all
  m_sqlite,       \* the place of the open connection
  work,           \* what the open connection sees: nothing when it is on no file
  transaction,    \* of the open connection: "none", "begun", "written" to
  title,          \* the place the window's title names
  m_recentFiles,
  menu,           \* the files the recent-file actions offer
  settings,       \* what QSettings keeps of m_recentFiles
  process

database == <<disk, m_sqlite, work, transaction>>
recent == <<m_recentFiles, menu, settings>>
vars == <<database, title, recent, process>>

RecentLists ==
  {s \in UNION {[1..n -> Files] : n \in 0..Cardinality(Files)} :
     \A i, j \in DOMAIN s : s[i] = s[j] => i = j}

-----------------------------------------------------------------------------
\* Variant: a reference to the connection is left.
ClosedButHeld(d) == d

\* The database is closed, by whatever way: a transaction is rolled back, and
\* a database in memory is no more.
Closed(d) == [d EXCEPT ![Memory] = Nothing]

\* SQLite::create makes the file when there is none.
Created(d, f) == IF d[f] = Nothing THEN [d EXCEPT ![f] = Blank] ELSE d

\* What it may make of d, and what its connection then sees.  A file that can
\* be neither opened nor created gives a connection all the same, on no file,
\* and openDatabase() asks for no more: the engine refuses every use of it.
Opened(d, f) ==
  {[disk |-> Created(d, f), work |-> Created(d, f)[f]]}
    \cup (IF OpenMayFail /\ f # Memory THEN {[disk |-> d, work |-> Nothing]} ELSE {})

\* updateRecentFileActions(), for the recent files "files".
UpdateRecent(files, d) ==
  LET there == Sublist(files, {i \in DOMAIN files : d[files[i]] # Nothing}) IN
  /\ m_recentFiles' = there
  /\ menu' = SubSeq(there, 1, IF Len(there) < MaxRecentFiles THEN Len(there) ELSE MaxRecentFiles)

\* Variant: removeAll() is forgotten.
PrependedAgain(files, f) == <<f>> \o files

\* f, and after it the other files.
Prepended(files, f) == <<f>> \o Sublist(files, {i \in DOMAIN files : files[i] # f})

\* loadDatabase(f), found with "d" on disk and "at" open: the recent files are
\* brought up to date first, the title is set last, and openDatabase() does
\* nothing when a database is open, which nobody asks, nor whether f could be
\* opened.
loadDatabase(f, d, at) ==
  /\ IF f = Memory THEN UNCHANGED <<m_recentFiles, menu>>
     ELSE UpdateRecent(Prepended(m_recentFiles, f), d)
  /\ IF at # Nothing THEN disk' = d /\ UNCHANGED <<m_sqlite, work, transaction>>
     ELSE /\ \E o \in Opened(d, f) : disk' = o.disk /\ work' = o.work
          /\ m_sqlite' = f
          /\ transaction' = "none"
  /\ title' = f
  /\ UNCHANGED settings

-----------------------------------------------------------------------------
Init ==
  /\ disk \in {d \in [Places -> Docs \cup {Nothing}] : d[Memory] = Nothing}
  /\ m_sqlite = Nothing /\ work = Blank /\ transaction = "none"
  /\ title = Nothing
  /\ m_recentFiles = <<>> /\ menu = <<>> /\ settings = <<>>
  /\ process = "running"

Running == process = "running" /\ UNCHANGED process

\* openMemoryDatabase(), openDatabase() on a file there is, openRecentFile()
New == Running /\ loadDatabase(Memory, disk, m_sqlite)

Open(f) == Running /\ disk[f] # Nothing /\ loadDatabase(f, disk, m_sqlite)

OpenRecent(i) == Running /\ loadDatabase(menu[i], disk, m_sqlite)

\* Variant: the backup's two connections are swapped.
CopiesBackwards(f) ==
  LET d == Created(disk, f) IN
  IF m_sqlite = Nothing THEN {d} ELSE {[d EXCEPT ![m_sqlite] = d[f]]}

\* copyDatabase(): what may be on disk after it.  Nothing is copied to a file
\* that cannot be opened, which is a warning; from a connection on no file;
\* while the source is being written to; nor onto the file itself, whose
\* exclusive lock then keeps the source from being read.  saveAsDatabase() is
\* told of none of this.
Copies(f) ==
  LET d == Created(disk, f) IN
  (IF OpenMayFail THEN {disk} ELSE {})
    \cup (IF m_sqlite \in {Nothing, f} \/ work = Nothing \/ transaction = "written" THEN {d}
          ELSE {[d EXCEPT ![f] = work]} \cup (IF BackupMayFail THEN {d} ELSE {}))

\* saveAsDatabase(): copy, close, load.
SaveAs(f) ==
  /\ Running
  /\ \E d \in Copies(f) : loadDatabase(f, Closed(d), Nothing)

closeDatabase ==
  /\ Running
  /\ title' = Nothing
  /\ disk' = Closed(disk)
  /\ m_sqlite' = Nothing /\ work' = Blank /\ transaction' = "none"
  /\ UNCHANGED recent

-----------------------------------------------------------------------------
\* There is a database to work in.
Usable == m_sqlite # Nothing /\ work # Nothing

\* The user in the open database: SQL outside a transaction is saved at once.
Write(doc) ==
  /\ Running /\ Usable /\ transaction = "none"
  /\ work' = doc
  /\ disk' = [disk EXCEPT ![m_sqlite] = doc]
  /\ UNCHANGED <<m_sqlite, transaction, title, recent>>

\* The grid's Insert Row begins a transaction, its edits write in it.
Begin ==
  /\ Running /\ Usable /\ transaction = "none"
  /\ transaction' = "begun"
  /\ UNCHANGED <<disk, m_sqlite, work, title, recent>>

Edit(doc) ==
  /\ Running /\ Usable
  /\ work' = doc /\ transaction' = "written"
  /\ UNCHANGED <<disk, m_sqlite, title, recent>>

\* Save, which is the grid's commit; a pending row changes the database.
Save(doc) ==
  /\ Running /\ transaction # "none"
  /\ doc = work \/ transaction = "begun"
  /\ work' = doc /\ transaction' = "none"
  /\ disk' = [disk EXCEPT ![m_sqlite] = doc]
  /\ UNCHANGED <<m_sqlite, title, recent>>

Rollback ==
  /\ Running /\ transaction # "none"
  /\ work' = disk[m_sqlite] /\ transaction' = "none"
  /\ UNCHANGED <<disk, m_sqlite, title, recent>>

-----------------------------------------------------------------------------
\* closeEvent() saves the recent files; a kill does not.
End ==
  /\ process = "running" /\ process' = "ended"
  /\ disk' = Closed(disk)
  /\ m_sqlite' = Nothing /\ work' = Blank /\ transaction' = "none"
  /\ title' = Nothing
  /\ settings' \in {settings, m_recentFiles}
  /\ m_recentFiles' = <<>> /\ menu' = <<>>

\* MainWindow::MainWindow
Start ==
  /\ process = "ended" /\ process' = "running"
  /\ UpdateRecent(settings, disk)
  /\ UNCHANGED <<database, title, settings>>

\* Other programs write, create and delete files that are not open here, or
\* could not be opened.
Others(f) ==
  /\ f # m_sqlite \/ work = Nothing
  /\ \E doc \in Docs \cup {Nothing} : disk' = [disk EXCEPT ![f] = doc]
  /\ UNCHANGED <<m_sqlite, work, transaction, title, recent, process>>

Next ==
  \/ New \/ closeDatabase \/ Begin \/ Rollback \/ End \/ Start
  \/ \E f \in Files : Open(f) \/ SaveAs(f) \/ Others(f)
  \/ \E i \in DOMAIN menu : OpenRecent(i)
  \/ \E doc \in Docs : Write(doc) \/ Edit(doc) \/ Save(doc)

Spec == Init /\ [][Next]_vars

-----------------------------------------------------------------------------
\* The types of the variables.
WindowTypeOK ==
  /\ disk \in [Places -> Docs \cup {Nothing}]
  /\ m_sqlite \in Places \cup {Nothing} /\ title \in Places \cup {Nothing}
  /\ work \in Docs \cup {Nothing} /\ transaction \in {"none", "begun", "written"}
  /\ m_recentFiles \in RecentLists /\ menu \in RecentLists /\ settings \in RecentLists
  /\ process \in {"running", "ended"}

\* A database that can be worked in is there, and outside a written transaction
\* what the user sees of it is what is saved.  A connection on no file, whatever
\* name it was opened under, never has a transaction: no edit waits in it for a
\* Save that cannot succeed.
OpenIsOnDisk ==
  /\ m_sqlite = Nothing => transaction = "none" /\ disk[Memory] = Nothing
  /\ Usable =>
       /\ disk[m_sqlite] # Nothing
       /\ transaction # "written" => work = disk[m_sqlite]
  /\ work = Nothing => transaction = "none" /\ m_sqlite \in Files /\ disk[Memory] = Nothing

\* A file that holds a database changes only when the user saves it, when Save
\* As is asked to replace it, or by another program: never by New, Open, Close,
\* Exit, or a Save As under another name.
FilesChangeOnRequest ==
  [][\A f \in Files :
       disk[f] \notin {Nothing, disk'[f]} =>
         \/ SaveAs(f) \/ Others(f)
         \/ f = m_sqlite /\ \E doc \in Docs : Write(doc) \/ Save(doc)]_vars

\* Save As leaves the user with the database that was open, with the edits
\* that were waiting or without them.
SaveAsKeepsTheDatabase ==
  [][\A f \in Files :
       SaveAs(f) /\ m_sqlite # Nothing => work' \in {work, disk[m_sqlite]}]_vars
=============================================================================
