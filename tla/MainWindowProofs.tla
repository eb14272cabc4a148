------------------------- MODULE MainWindowProofs -------------------------
(***************************************************************************)
(* Proved of MainWindow, for any files, contents, recent files and failing *)
(* opens and backups: what is in the user's files changes on request only; *)
(* a database that can be worked in is there, and outside a written        *)
(* transaction what the user sees of it is what is saved; no recent file   *)
(* is listed twice.                                                        *)
(***************************************************************************)
EXTENDS MainWindow, ListProofs, FiniteSetTheorems

\* The one invariant the proof needs: disk is a function on the places.
DiskIsFunction == disk = [p \in Places |-> disk[p]]

\* The files of disk that hold a database hold the same in d, but for g.
KeepsFilesBut(d, g) ==
  /\ d = [p \in Places |-> d[p]]
  /\ \A f \in Files \ {g} : disk[f] # Nothing => d[f] = disk[f]

\* Making a file changes no file there is.
LEMMA CreatedKeeps ==
  ASSUME NEW g, NEW f, NEW d, KeepsFilesBut(d, g)
  PROVE  KeepsFilesBut(Created(d, f), g)
<1>1. CASE d[f] # Nothing
  BY <1>1 DEF Created
<1>2. CASE d[f] = Nothing
  <2>1. Created(d, f) = [d EXCEPT ![f] = Blank]
    BY <1>2 DEF Created
  <2>2. Created(d, f) = [p \in Places |-> Created(d, f)[p]]
    BY <2>1 DEF KeepsFilesBut
  <2>3. ASSUME NEW h \in Files \ {g}, disk[h] # Nothing
        PROVE  Created(d, f)[h] = disk[h]
    BY <1>2, <2>1, <2>3 DEF KeepsFilesBut, Places
  <2>4. QED
    BY <2>2, <2>3 DEF KeepsFilesBut
<1>3. QED
  BY <1>1, <1>2

\* Closing a database changes the memory only.
LEMMA ClosedKeeps ==
  ASSUME NEW g, NEW d, KeepsFilesBut(d, g)
  PROVE  KeepsFilesBut(Closed(d), g)
  BY WindowAssumption DEF KeepsFilesBut, Closed, Places

\* loadDatabase(), with what it found on disk.
LEMMA LoadKeeps ==
  ASSUME NEW g, NEW f, NEW d, NEW at, KeepsFilesBut(d, g), loadDatabase(f, d, at)
  PROVE  KeepsFilesBut(disk', g)
<1>1. disk' = d \/ disk' = Created(d, f)
  BY DEF loadDatabase, Opened
<1>2. QED
  BY <1>1, CreatedKeeps

\* The copy of Save As changes the file it is asked for, and no other.
LEMMA CopiesKeep ==
  ASSUME DiskIsFunction, NEW f \in Files, NEW d \in Copies(f)
  PROVE  KeepsFilesBut(d, f)
<1>1. KeepsFilesBut(disk, f)
  BY DEF DiskIsFunction, KeepsFilesBut
<1>2. KeepsFilesBut(Created(disk, f), f)
  BY <1>1, CreatedKeeps
<1>3. KeepsFilesBut([Created(disk, f) EXCEPT ![f] = work], f)
  BY <1>2 DEF KeepsFilesBut
<1>4. d = disk \/ d = Created(disk, f) \/ d = [Created(disk, f) EXCEPT ![f] = work]
  BY DEF Copies
<1>5. QED
  BY <1>1, <1>2, <1>3, <1>4

\* What one step may do to a file, and that disk stays a function.
Requested(f) ==
  \/ SaveAs(f) \/ Others(f)
  \/ f = m_sqlite /\ \E doc \in Docs : Write(doc) \/ Save(doc)

LEMMA StepKeeps ==
  ASSUME DiskIsFunction, [Next]_vars
  PROVE  /\ DiskIsFunction'
         /\ \A f \in Files : disk[f] \notin {Nothing, disk'[f]} => Requested(f)
<1> DEFINE Kept == KeepsFilesBut(disk', Nothing)
<1>a. KeepsFilesBut(disk, Nothing)
  BY DEF DiskIsFunction, KeepsFilesBut
<1>b. Kept => DiskIsFunction' /\ \A f \in Files : disk[f] \notin {Nothing, disk'[f]} => Requested(f)
  BY WindowAssumption DEF KeepsFilesBut, DiskIsFunction, Places
<1>1. CASE New
  BY <1>1, <1>a, <1>b, LoadKeeps DEF New
<1>2. CASE closeDatabase \/ End
  BY <1>2, <1>a, <1>b, ClosedKeeps DEF closeDatabase, End
<1>3. CASE Begin \/ Rollback \/ Start \/ \E doc \in Docs : Edit(doc)
  BY <1>3, <1>a, <1>b DEF Begin, Rollback, Start, Edit, database
<1>4. ASSUME NEW f \in Files, Open(f) PROVE Kept
  BY <1>4, <1>a, LoadKeeps DEF Open
<1>5. ASSUME NEW i \in DOMAIN menu, OpenRecent(i) PROVE Kept
  BY <1>5, <1>a, LoadKeeps DEF OpenRecent
<1>6. ASSUME NEW f \in Files, SaveAs(f)
      PROVE  DiskIsFunction' /\ \A h \in Files : disk[h] \notin {Nothing, disk'[h]} => Requested(h)
  <2>1. PICK d \in Copies(f) : loadDatabase(f, Closed(d), Nothing)
    BY <1>6 DEF SaveAs
  <2>2. KeepsFilesBut(disk', f)
    BY <2>1, CopiesKeep, ClosedKeeps, LoadKeeps
  <2>3. Requested(f)
    BY <1>6 DEF Requested
  <2>4. QED
    BY <2>2, <2>3 DEF KeepsFilesBut, DiskIsFunction
<1>7. ASSUME NEW f \in Files, Others(f)
      PROVE  DiskIsFunction' /\ \A h \in Files : disk[h] \notin {Nothing, disk'[h]} => Requested(h)
  <2>1. PICK doc \in Docs \cup {Nothing} : disk' = [disk EXCEPT ![f] = doc]
    BY <1>7 DEF Others
  <2>2. Requested(f)
    BY <1>7 DEF Requested
  <2>3. QED
    BY <2>1, <2>2 DEF DiskIsFunction, Places
<1>8. ASSUME NEW doc \in Docs, Write(doc) \/ Save(doc)
      PROVE  DiskIsFunction' /\ \A h \in Files : disk[h] \notin {Nothing, disk'[h]} => Requested(h)
  <2>1. disk' = [disk EXCEPT ![m_sqlite] = doc]
    BY <1>8 DEF Write, Save
  <2>2. \A h \in Files : h = m_sqlite => Requested(h)
    BY <1>8 DEF Requested
  <2>3. QED
    BY <2>1, <2>2 DEF DiskIsFunction, Places
<1>9. CASE UNCHANGED vars
  BY <1>9, <1>a, <1>b DEF vars, database
<1>10. QED
  BY <1>1, <1>2, <1>3, <1>4, <1>5, <1>6, <1>7, <1>8, <1>9, <1>b DEF Next

\* Whatever the user opens, closes and saves under whatever names, and
\* whatever fails: a file that holds a database changes only when the user
\* saves it, when Save As names it, or by another program.
THEOREM FilesAreSafe == Spec => FilesChangeOnRequest
<1>1. Init => DiskIsFunction
  BY DEF Init, DiskIsFunction
<1>2. DiskIsFunction /\ [Next]_vars => DiskIsFunction'
  BY StepKeeps
<1>3. DiskIsFunction /\ [Next]_vars =>
        [\A f \in Files : disk[f] \notin {Nothing, disk'[f]} =>
           \/ SaveAs(f) \/ Others(f)
           \/ f = m_sqlite /\ \E doc \in Docs : Write(doc) \/ Save(doc)]_vars
  BY StepKeeps DEF Requested
<1>4. QED
  BY <1>1, <1>2, <1>3, PTL DEF Spec, FilesChangeOnRequest

-----------------------------------------------------------------------------
\* A list of files, none of them twice.
Distinct(s) == \A i, j \in DOMAIN s : s[i] = s[j] => i = j
IsRecent(s) == s \in Seq(Files) /\ Distinct(s)

\* There are no more files in such a list than there are files.
LEMMA RecentIsShort ==
  ASSUME NEW s, IsRecent(s)
  PROVE  s \in RecentLists
<1>1. Len(s) \in Nat /\ s \in [1..Len(s) -> Files] /\ DOMAIN s = 1..Len(s)
  BY DEF IsRecent
<1>2. s \in Injection(1..Len(s), Files)
  BY <1>1 DEF IsRecent, Distinct, Injection, IsInjective
<1>3. Cardinality(1..Len(s)) <= Cardinality(Files)
  BY <1>2, WindowAssumption, FS_Injection
<1>4. Cardinality(1..Len(s)) = Len(s)
  BY <1>1, FS_Interval
<1>5. Cardinality(Files) \in Nat
  BY WindowAssumption, FS_CardinalityType
<1>6. Len(s) \in 0..Cardinality(Files)
  BY <1>1, <1>3, <1>4, <1>5
<1>7. s \in UNION {[1..n -> Files] : n \in 0..Cardinality(Files)}
  BY <1>1, <1>6
<1>8. QED
  BY <1>7 DEF RecentLists, IsRecent, Distinct

\* Leaving files out of such a list leaves such a list.
LEMMA SublistIsRecent ==
  ASSUME NEW s, IsRecent(s), NEW places
  PROVE  /\ IsRecent(Sublist(s, places))
         /\ \A k \in DOMAIN Sublist(s, places) :
              \E i \in places \cap DOMAIN s : Sublist(s, places)[k] = s[i]
<1> DEFINE sub == Sublist(s, places)
<1>1. sub \in Seq(Files) /\ IsSublist(sub, s, places, Len(s))
  BY SublistIs DEF IsRecent
<1>2. DOMAIN s = 1..Len(s) /\ DOMAIN sub = 1..Len(sub) /\ Len(sub) \in Nat
  BY <1>1 DEF IsRecent
<1> HIDE DEF sub
<1>3. PICK place \in [DOMAIN sub -> places \cap 1..Len(s)] :
        /\ \A k \in DOMAIN sub : sub[k] = s[place[k]]
        /\ \A k, l \in DOMAIN sub : k < l => place[k] < place[l]
  BY <1>1 DEF IsSublist
<1>4. \A k \in DOMAIN sub : place[k] \in places \cap DOMAIN s
  BY <1>2, <1>3
<1>5. ASSUME NEW k \in DOMAIN sub, NEW l \in DOMAIN sub, sub[k] = sub[l]
      PROVE  k = l
  <2>1. place[k] = place[l]
    BY <1>3, <1>4, <1>5 DEF IsRecent, Distinct
  <2>2. place[k] \in Int /\ ~(place[k] < place[k])
    BY <1>2, <1>4
  <2>3. ~(k < l) /\ ~(l < k)
    BY <1>3, <2>1, <2>2
  <2>4. QED
    BY <1>2, <2>3
<1>6. QED
  BY <1>1, <1>3, <1>4, <1>5 DEF IsRecent, Distinct, sub

LEMMA PrependedIsRecent ==
  ASSUME NEW s, IsRecent(s), NEW f \in Files
  PROVE  IsRecent(Prepended(s, f))
<1> DEFINE places == {i \in DOMAIN s : s[i] # f}
           rest == Sublist(s, places)
           all == <<f>> \o rest
<1>1. IsRecent(rest) /\ \A k \in DOMAIN rest : \E i \in places \cap DOMAIN s : rest[k] = s[i]
  BY SublistIsRecent
<1>2. \A i \in places : s[i] # f
  OBVIOUS
<1> HIDE DEF places, rest
<1>3. \A k \in DOMAIN rest : rest[k] # f
  BY <1>1, <1>2
<1>4. rest \in Seq(Files) /\ Len(rest) \in Nat /\ DOMAIN rest = 1..Len(rest)
  BY <1>1 DEF IsRecent
<1>5. /\ all \in Seq(Files) /\ DOMAIN all = 1..Len(rest) + 1
      /\ all[1] = f
      /\ \A k \in DOMAIN all : k # 1 => k - 1 \in DOMAIN rest /\ all[k] = rest[k - 1]
  BY <1>4
<1> HIDE DEF all
<1>6. ASSUME NEW k \in DOMAIN all, NEW l \in DOMAIN all, all[k] = all[l]
      PROVE  k = l
  <2>1. CASE k = 1 \/ l = 1
    BY <1>3, <1>5, <1>6, <2>1
  <2>2. CASE k # 1 /\ l # 1
    <3>1. k - 1 = l - 1
      BY <1>1, <1>5, <1>6, <2>2 DEF IsRecent, Distinct
    <3>2. QED
      BY <1>4, <1>5, <3>1
  <2>3. QED
    BY <2>1, <2>2
<1>7. IsRecent(all)
  BY <1>5, <1>6 DEF IsRecent, Distinct
<1>8. QED
  BY <1>7 DEF Prepended, all, rest, places

\* The menu shows the first of the recent files.
LEMMA UpdateIsRecent ==
  ASSUME NEW s, IsRecent(s), NEW d, UpdateRecent(s, d)
  PROVE  IsRecent(m_recentFiles') /\ IsRecent(menu')
<1>1. IsRecent(m_recentFiles')
  BY SublistIsRecent DEF UpdateRecent
<1> DEFINE n == IF Len(m_recentFiles') < MaxRecentFiles THEN Len(m_recentFiles') ELSE MaxRecentFiles
<1>2. menu' = SubSeq(m_recentFiles', 1, n)
  BY DEF UpdateRecent
<1>3. n \in 0..Len(m_recentFiles') /\ m_recentFiles' \in Seq(Files)
  BY <1>1, WindowAssumption DEF IsRecent
<1> HIDE DEF n
<1>4. /\ menu' \in Seq(Files) /\ DOMAIN menu' = 1..n
      /\ \A i \in 1..n : i \in DOMAIN m_recentFiles' /\ menu'[i] = m_recentFiles'[i]
  BY <1>2, <1>3
<1>5. QED
  BY <1>1, <1>4 DEF IsRecent, Distinct

-----------------------------------------------------------------------------
\* What every step keeps.
Disks == [Places -> Docs \cup {Nothing}]

WindowInv ==
  /\ disk \in Disks
  /\ m_sqlite \in Places \cup {Nothing} /\ title \in Places \cup {Nothing}
  /\ work \in Docs \cup {Nothing} /\ transaction \in {"none", "begun", "written"}
  /\ process \in {"running", "ended"}
  /\ OpenIsOnDisk

RecentInv == IsRecent(m_recentFiles) /\ IsRecent(menu) /\ IsRecent(settings)

LEMMA ClosedIsDisk ==
  ASSUME NEW d \in Disks
  PROVE  Closed(d) \in Disks /\ Closed(d)[Memory] = Nothing
  BY DEF Closed, Disks, Places

LEMMA CreatedIsDisk ==
  ASSUME NEW d \in Disks, NEW f \in Places
  PROVE  /\ Created(d, f) \in Disks /\ Created(d, f)[f] \in Docs
         /\ \A g \in Places \ {f} : Created(d, f)[g] = d[g]
  BY WindowAssumption DEF Created, Disks

LEMMA CopiesAreDisks ==
  ASSUME WindowInv, NEW f \in Files, NEW d \in Copies(f)
  PROVE  d \in Disks
<1>1. Created(disk, f) \in Disks
  BY CreatedIsDisk DEF WindowInv, Places
<1>2. [Created(disk, f) EXCEPT ![f] = work] \in Disks
  BY <1>1 DEF WindowInv, Disks
<1>3. QED
  BY <1>1, <1>2 DEF Copies, WindowInv

\* loadDatabase(), with a database open or not.
LEMMA LoadStep ==
  ASSUME NEW f \in Places, NEW d \in Disks, NEW at, loadDatabase(f, d, at),
         at = Nothing => d[Memory] = Nothing,
         at # Nothing => WindowInv /\ d = disk,
         process' \in {"running", "ended"}
  PROVE  WindowInv'
<1>1. title' \in Places
  BY DEF loadDatabase
<1>2. CASE at # Nothing
  BY <1>1, <1>2 DEF loadDatabase, WindowInv, OpenIsOnDisk, Usable
<1>3. CASE at = Nothing
  <2>1. /\ m_sqlite' = f /\ transaction' = "none"
        /\ \/ disk' = Created(d, f) /\ work' = disk'[f]
           \/ disk' = d /\ work' = Nothing /\ f # Memory
    BY <1>3 DEF loadDatabase, Opened
  <2>2. f # Nothing /\ f \in Files \cup {Memory} /\ Nothing \notin Docs
    BY WindowAssumption DEF Places
  <2>3. CASE disk' = Created(d, f) /\ work' = disk'[f]
    <3>1. disk' \in Disks /\ disk'[f] \in Docs
      BY <2>3, CreatedIsDisk
    <3>2. QED
      BY <1>1, <2>1, <2>2, <2>3, <3>1 DEF WindowInv, OpenIsOnDisk, Usable
  <2>4. CASE disk' = d /\ work' = Nothing /\ f # Memory
    BY <1>1, <1>3, <2>1, <2>2, <2>4 DEF WindowInv, OpenIsOnDisk, Usable
  <2>5. QED
    BY <2>1, <2>3, <2>4
<1>4. QED
  BY <1>2, <1>3

LEMMA WindowStep ==
  ASSUME WindowInv, RecentInv, [Next]_vars
  PROVE  WindowInv'
<1> USE DEF Running, Usable
<1>1. CASE New
  BY <1>1, LoadStep DEF New, WindowInv, OpenIsOnDisk, Places
<1>2. CASE closeDatabase \/ End
  BY <1>2, ClosedIsDisk, WindowAssumption DEF closeDatabase, End, WindowInv, OpenIsOnDisk
<1>3. CASE Begin
  BY <1>3 DEF Begin, WindowInv, OpenIsOnDisk
<1>4. CASE Rollback
  BY <1>4, WindowAssumption DEF Rollback, WindowInv, OpenIsOnDisk, Disks
<1>5. CASE Start
  BY <1>5 DEF Start, database, WindowInv, OpenIsOnDisk
<1>6. ASSUME NEW f \in Files, Open(f) PROVE WindowInv'
  BY <1>6, LoadStep DEF Open, WindowInv, OpenIsOnDisk, Places
<1>7. ASSUME NEW f \in Files, SaveAs(f) PROVE WindowInv'
  <2>1. PICK d \in Copies(f) : loadDatabase(f, Closed(d), Nothing)
    BY <1>7 DEF SaveAs
  <2>2. Closed(d) \in Disks /\ Closed(d)[Memory] = Nothing
    BY CopiesAreDisks, ClosedIsDisk
  <2>3. QED
    BY <1>7, <2>1, <2>2, LoadStep DEF SaveAs, WindowInv, Places
<1>8. ASSUME NEW f \in Files, Others(f) PROVE WindowInv'
  <2>1. PICK doc \in Docs \cup {Nothing} : disk' = [disk EXCEPT ![f] = doc]
    BY <1>8 DEF Others
  <2>2. disk' \in Disks /\ \A g \in Places \ {f} : disk'[g] = disk[g]
    BY <2>1 DEF WindowInv, Disks
  <2>3. (f # m_sqlite \/ work = Nothing) /\ f # Memory
    BY <1>8, WindowAssumption DEF Others
  <2>4. Memory \in Places
    BY DEF Places
  <2>5. QED
    BY <1>8, <2>2, <2>3, <2>4 DEF Others, WindowInv, OpenIsOnDisk
<1>9. ASSUME NEW i \in DOMAIN menu, OpenRecent(i) PROVE WindowInv'
  <2>1. menu[i] \in Places
    BY DEF RecentInv, IsRecent, Places
  <2>2. QED
    BY <1>9, <2>1, LoadStep DEF OpenRecent, WindowInv, OpenIsOnDisk
<1>10. ASSUME NEW doc \in Docs, Edit(doc) PROVE WindowInv'
  BY <1>10, WindowAssumption DEF Edit, WindowInv, OpenIsOnDisk
<1>11. ASSUME NEW doc \in Docs, Write(doc) \/ Save(doc) PROVE WindowInv'
  <2>1. /\ m_sqlite \in Places /\ m_sqlite # Nothing
        /\ disk' = [disk EXCEPT ![m_sqlite] = doc] /\ work' = doc /\ transaction' = "none"
        /\ UNCHANGED <<m_sqlite, title, process>>
    BY <1>11 DEF Write, Save, WindowInv, OpenIsOnDisk
  <2>2. disk' \in Disks /\ disk'[m_sqlite] = doc
    BY <2>1 DEF WindowInv, Disks
  <2>3. QED
    BY <2>1, <2>2, WindowAssumption DEF WindowInv, OpenIsOnDisk
<1>12. CASE UNCHANGED vars
  BY <1>12 DEF vars, database, WindowInv, OpenIsOnDisk
<1>13. QED
  BY <1>1, <1>2, <1>3, <1>4, <1>5, <1>6, <1>7, <1>8, <1>9, <1>10, <1>11, <1>12 DEF Next

LEMMA RecentStep ==
  ASSUME RecentInv, [Next]_vars
  PROVE  RecentInv'
<1>1. ASSUME NEW f, f \in Files \/ f = Memory, NEW d, NEW at, loadDatabase(f, d, at)
      PROVE  RecentInv'
  <2>1. CASE f = Memory
    BY <1>1, <2>1 DEF loadDatabase, RecentInv
  <2>2. CASE f \in Files
    <3>1. UpdateRecent(Prepended(m_recentFiles, f), d) /\ UNCHANGED settings
      BY <1>1, <2>2, WindowAssumption DEF loadDatabase
    <3>2. QED
      BY <2>2, <3>1, PrependedIsRecent, UpdateIsRecent DEF RecentInv
  <2>3. QED
    BY <1>1, <2>1, <2>2
<1>2. CASE New \/ \E f \in Files : Open(f) \/ SaveAs(f)
  BY <1>1, <1>2 DEF New, Open, SaveAs
<1>3. ASSUME NEW i \in DOMAIN menu, OpenRecent(i) PROVE RecentInv'
  <2>1. menu[i] \in Files
    BY DEF RecentInv, IsRecent
  <2>2. QED
    BY <1>1, <1>3, <2>1 DEF OpenRecent
<1>4. CASE End
  <2>1. IsRecent(<<>>)
    BY DEF IsRecent, Distinct
  <2>2. QED
    BY <1>4, <2>1 DEF End, RecentInv
<1>5. CASE Start
  BY <1>5, UpdateIsRecent DEF Start, RecentInv
<1>6. CASE UNCHANGED recent
  BY <1>6 DEF recent, RecentInv
<1>7. QED
  BY <1>2, <1>3, <1>4, <1>5, <1>6
     DEF Next, closeDatabase, Begin, Rollback, Others, Write, Edit, Save, vars

LEMMA WindowInvariant == Spec => [](WindowInv /\ RecentInv)
<1>1. Init => WindowInv /\ RecentInv
  <2>1. IsRecent(<<>>)
    BY DEF IsRecent, Distinct
  <2>2. QED
    BY <2>1, WindowAssumption DEF Init, WindowInv, RecentInv, OpenIsOnDisk, Usable, Disks
<1>2. WindowInv /\ RecentInv /\ [Next]_vars => (WindowInv /\ RecentInv)'
  BY WindowStep, RecentStep
<1>3. QED
  BY <1>1, <1>2, PTL DEF Spec

\* The types of the window's variables: among them that the recent files, the
\* menu and what is kept of them name no file twice, however files are opened,
\* saved and removed and whenever the program is started anew.
THEOREM WindowTypes == Spec => []WindowTypeOK
<1>1. WindowInv /\ RecentInv => WindowTypeOK
  BY RecentIsShort DEF WindowInv, RecentInv, WindowTypeOK, Disks
<1>2. QED
  BY <1>1, WindowInvariant, PTL

\* Whatever is opened, copied, closed and removed, and whatever could not be
\* opened: a database that can be worked in is there, and outside a written
\* transaction what the user sees of it is what is saved; a connection on no
\* file has no transaction.
THEOREM OpenDatabaseIsOnDisk == Spec => []OpenIsOnDisk
<1>1. WindowInv => OpenIsOnDisk
  BY DEF WindowInv
<1>2. QED
  BY <1>1, WindowInvariant, PTL
=============================================================================
