-------------------------- MODULE GuiThreadProofs ---------------------------
(***************************************************************************)
(* GuiThread implements its parts, and what is proved about a part holds   *)
(* of the program that is made of them.  The parts that go through a text  *)
(* or a list, the cell's value, the editor and the result set, have their  *)
(* proofs here: each loop of theirs is a recursion that ListProofs solves, *)
(* and what it has done after n rounds is proved by induction.             *)
(***************************************************************************)
EXTENDS GuiThread, ListProofs

PragmaProofs ==
  INSTANCE PragmaDialogProofs WITH m_isActive <- pragmasActive, shown <- pragmasShown

CellProofs == INSTANCE CellFileProofs

-----------------------------------------------------------------------------
\* Each step of the program is one of the pragma dialog, or leaves it alone.
LEMMA StepOfPragmaDialog == [Next]_vars => [PragmaDialog!Next]_(PragmaDialog!vars)
<1>1. SUFFICES ASSUME Next PROVE PragmaDialog!Next \/ UNCHANGED PragmaDialog!vars
  BY DEF vars, pragmaVars, PragmaDialog!vars
<1>2. CASE UNCHANGED running /\ Steps
  <2>1. CASE openDatabase \/ saveAsDatabase
    BY <1>1, <1>2, <2>1 DEF Next, openDatabase, saveAsDatabase, PragmaDialog!Next
  <2>2. CASE closeDatabase
    BY <1>1, <1>2, <2>2 DEF Next, closeDatabase, PragmaDialog!Next
  <2>3. CASE PragmaSlot
    BY <1>1, <1>2, <2>3 DEF Next, PragmaSlot, PragmaDialog!Next
  <2>4. CASE UNCHANGED pragmaVars
    BY <1>2, <2>4 DEF pragmaVars, PragmaDialog!vars
  <2>5. QED
    BY <1>2, <2>1, <2>2, <2>3, <2>4
       DEF Steps, MemorySlot, tick, FileSlot, FileSlotRuns, Touch, Edit, Execute, Save
<1>3. CASE Crash
  BY <1>1, <1>3 DEF Next, Crash, PragmaDialog!Next
<1>4. QED
  BY <1>1, <1>2, <1>3 DEF Next

LEMMA StepOfMemoryDialog == [Next]_vars => [MemoryDialog!Next]_(MemoryDialog!vars)
<1>1. SUFFICES ASSUME Next PROVE MemoryDialog!Next \/ UNCHANGED MemoryDialog!vars
  BY DEF vars, memoryVars, MemoryDialog!vars
<1>2. CASE UNCHANGED running /\ Steps
  <2>1. CASE openDatabase \/ saveAsDatabase \/ closeDatabase
    BY <1>1, <1>2, <2>1 DEF Next, openDatabase, saveAsDatabase, closeDatabase, MemoryDialog!Next
  <2>2. CASE MemorySlot
    BY <1>1, <1>2, <2>2 DEF Next, MemorySlot, MemoryDialog!Next
  <2>3. CASE tick
    BY <1>1, <1>2, <2>3 DEF Next, tick, MemoryDialog!Next
  <2>4. CASE UNCHANGED memoryVars
    BY <1>2, <2>4 DEF memoryVars, MemoryDialog!vars
  <2>5. QED
    BY <1>2, <2>1, <2>2, <2>3, <2>4
       DEF Steps, PragmaSlot, FileSlot, FileSlotRuns, Touch, Edit, Execute, Save
<1>3. CASE Crash
  BY <1>1, <1>3 DEF Next, Crash, MemoryDialog!Next, MemoryDialog!ShowCrash
<1>4. QED
  BY <1>1, <1>2, <1>3 DEF Next

LEMMA StepOfCellFile == [Next]_vars => [CellFile!Next]_(CellFile!vars)
<1>1. SUFFICES ASSUME Next PROVE CellFile!Next \/ UNCHANGED CellFile!vars
  BY DEF vars, fileVars, CellFile!vars
<1>2. CASE Between
  BY <1>2 DEF Between, fileVars, CellFile!vars
<1>3. CASE FileSlot \/ FileSlotRuns \/ Touch
  BY <1>3 DEF FileSlot, FileSlotRuns, Touch, CellFile!Next
<1>4. QED
  BY <1>1, <1>2, <1>3
     DEF Next, Steps, Crash, openDatabase, closeDatabase, saveAsDatabase,
         PragmaSlot, MemorySlot, tick, Edit, Execute, Save

\* In the program that is made of them each of the three parts does what its
\* own specification allows, whatever the others do in the thread they share.
THEOREM PartsAreImplemented ==
  Spec => PragmaDialog!Spec /\ MemoryDialog!Spec /\ CellFile!Spec
<1>1. Init => PragmaDialog!Init /\ MemoryDialog!Init /\ CellFile!Init
  BY DEF Init
<1>2. QED
  BY <1>1, StepOfPragmaDialog, StepOfMemoryDialog, StepOfCellFile, PTL
     DEF Spec, PragmaDialog!Spec, MemoryDialog!Spec, CellFile!Spec

-----------------------------------------------------------------------------
\* MemoryDialog's timer goes with m_pDb: each way a database is closed stops it.
LEMMA TimerStep ==
  ASSUME TimerHasDatabase, [MemoryDialog!Next]_(MemoryDialog!vars)
  PROVE  TimerHasDatabase'
<1> USE DEF TimerHasDatabase, MemoryDialog!TimerHasDatabase
<1>1. CASE MemoryDialog!active \/ MemoryDialog!Inactive(TRUE) \/ MemoryDialog!inactive
  BY <1>1 DEF MemoryDialog!active, MemoryDialog!inactive, MemoryDialog!Inactive
<1>2. CASE MemoryDialog!showEvent
  BY <1>2 DEF MemoryDialog!showEvent, MemoryDialog!updateMemInfo
<1>3. CASE MemoryDialog!hide \/ MemoryDialog!closeEvent
  BY <1>3 DEF MemoryDialog!hide, MemoryDialog!closeEvent
<1>4. CASE MemoryDialog!resetHighWatermark \/ MemoryDialog!tick
  BY <1>4 DEF MemoryDialog!resetHighWatermark, MemoryDialog!tick, MemoryDialog!updateMemInfo
<1>5. CASE \E n \in Levels : MemoryDialog!Use(n)
  BY <1>5 DEF MemoryDialog!Use
<1>6. CASE MemoryDialog!Ends \/ UNCHANGED MemoryDialog!vars
  BY <1>6 DEF MemoryDialog!Ends, MemoryDialog!vars
<1>7. QED
  BY <1>1, <1>2, <1>3, <1>4, <1>5, <1>6
     DEF MemoryDialog!Next, MemoryDialog!Slots, MemoryDialog!ShowCrash

\* The timer of the memory dialog never runs without a database, although
\* hiding the dialog leaves it running.
THEOREM TimerStopsWithDatabase == Spec => []TimerHasDatabase
<1>1. Init => TimerHasDatabase
  BY DEF Init, MemoryDialog!Init, TimerHasDatabase, MemoryDialog!TimerHasDatabase
<1>2. QED
  BY <1>1, StepOfMemoryDialog, TimerStep, PTL DEF Spec

-----------------------------------------------------------------------------
\* What the part's proofs say of its specification, they say of the part here.
LEMMA SamePragmaDialog ==
  /\ PragmaDialog!PragmaAssumption => PragmaProofs!PragmaAssumption
  /\ PragmaDialog!Init => PragmaProofs!Init
  /\ [PragmaDialog!Next]_(PragmaDialog!vars) => [PragmaProofs!Next]_(PragmaProofs!vars)
BY Zenon DEF PragmaDialog!PragmaAssumption, PragmaProofs!PragmaAssumption,
       PragmaDialog!Init, PragmaDialog!Next, PragmaDialog!Unchanged,
       PragmaDialog!Slots, PragmaDialog!active, PragmaDialog!inactive,
       PragmaDialog!showEvent, PragmaDialog!reject, PragmaDialog!closeEvent,
       PragmaDialog!save, PragmaDialog!changeWidget,
       PragmaDialog!SetElsewhere, PragmaDialog!Loaded, PragmaDialog!Filled,
       PragmaDialog!Recorded, PragmaDialog!SetPragma,
       PragmaDialog!SaveCrash, PragmaDialog!Ends, PragmaDialog!vars,
       PragmaProofs!Init, PragmaProofs!Next, PragmaProofs!Unchanged,
       PragmaProofs!Slots, PragmaProofs!active, PragmaProofs!inactive,
       PragmaProofs!showEvent, PragmaProofs!reject, PragmaProofs!closeEvent,
       PragmaProofs!save, PragmaProofs!changeWidget,
       PragmaProofs!SetElsewhere, PragmaProofs!Loaded, PragmaProofs!Filled,
       PragmaProofs!Recorded, PragmaProofs!SetPragma,
       PragmaProofs!SaveCrash, PragmaProofs!Ends, PragmaProofs!vars

LEMMA SameCellFile ==
  /\ CellFile!CellFileAssumption => CellProofs!CellFileAssumption
  /\ CellFile!Init => CellProofs!Init
  /\ [CellFile!Next]_(CellFile!vars) => [CellProofs!Next]_(CellProofs!vars)
BY Zenon DEF CellFile!CellFileAssumption, CellProofs!CellFileAssumption,
       CellFile!Init, CellFile!Next, CellFile!Start, CellFile!Running,
       CellFile!Touch, CellFile!Import, CellFile!ImportChunk,
       CellFile!CopyOut, CellFile!CopyChunk, CellFile!Return, CellFile!Idle,
       CellFile!GivesUp, CellFile!Closed, CellFile!Returns, CellFile!Versions,
       CellFile!AtEnd, CellFile!NextBytes, CellFile!Least, CellFile!Fits,
       CellFile!Written, CellFile!BlobSize, CellFile!AsInt, CellFile!Zeros,
       CellFile!BytesLeft, CellFile!vars, CellProofs!Init, CellProofs!Next,
       CellProofs!Start, CellProofs!Running, CellProofs!Touch,
       CellProofs!Import, CellProofs!ImportChunk, CellProofs!CopyOut,
       CellProofs!CopyChunk, CellProofs!Return, CellProofs!Idle,
       CellProofs!GivesUp, CellProofs!Closed, CellProofs!Returns, CellProofs!Versions,
       CellProofs!AtEnd, CellProofs!NextBytes, CellProofs!Least,
       CellProofs!Fits, CellProofs!Written, CellProofs!BlobSize,
       CellProofs!AsInt, CellProofs!Zeros, CellProofs!BytesLeft,
       CellProofs!vars

\* The dialog's invariant, in the program.
LEMMA DialogOfProgram == Spec => []PragmaProofs!DialogInv
<1>1. Init => PragmaProofs!DialogInv
  BY GuiAssumption, SamePragmaDialog, PragmaProofs!DialogInit DEF Init
<1>2. PragmaProofs!DialogInv /\ [Next]_vars => PragmaProofs!DialogInv'
  BY GuiAssumption, SamePragmaDialog, StepOfPragmaDialog, PragmaProofs!DialogStep
<1>3. QED
  BY <1>1, <1>2, PTL DEF Spec

\* A change that waits for Save is what its widget shows, in the program.
THEOREM ProgramRecordsWhatIsShown == Spec => []RecordedIsShown
<1>1. PragmaProofs!DialogInv => RecordedIsShown
  BY DEF PragmaProofs!DialogInv, PragmaProofs!RecordedIsShown,
         RecordedIsShown, PragmaDialog!RecordedIsShown
<1>2. QED
  BY <1>1, DialogOfProgram, PTL

\* Save writes what the user has edited only, in the program.
THEOREM ProgramSavesEdits == Spec => SaveOnlyEdited
<1> DEFINE OnlyEdits ==
  PragmaDialog!save /\ asShown =>
    \A p \in Pragmas : pragma'[p] # pragma[p] =>
      p \in edited /\ text[p] \notin Refused /\ pragma'[p] = Meaning[text[p]]
<1>1. PragmaProofs!DialogInv => [OnlyEdits]_(PragmaDialog!vars)
  BY PragmaProofs!SaveWritesEdits
     DEF PragmaDialog!save, PragmaProofs!save, PragmaDialog!SetPragma, PragmaProofs!SetPragma,
         PragmaDialog!Unchanged, PragmaProofs!Unchanged
<1>2. QED
  BY <1>1, DialogOfProgram, PTL DEF SaveOnlyEdited, PragmaDialog!SaveOnlyEdited

\* Each part is of its type.
MemoryTypes ==
  /\ running \in BOOLEAN /\ m_pDb \in BOOLEAN /\ memoryActive \in BOOLEAN
  /\ memoryShown \in BOOLEAN /\ timer \in BOOLEAN /\ readAtShow \in BOOLEAN
  /\ used \in Levels /\ high \in Levels
  /\ numbers \in (Levels \cup {0}) \X (Levels \cup {0})

LEMMA MemoryTypesStep ==
  ASSUME MemoryTypes, [MemoryDialog!Next]_(MemoryDialog!vars)
  PROVE  MemoryTypes'
<1> USE DEF MemoryTypes
<1>1. running' \in BOOLEAN
  BY Zenon DEF MemoryDialog!Next, MemoryDialog!ShowCrash, MemoryDialog!Ends, MemoryDialog!vars
<1>2. ASSUME NEW reset \in BOOLEAN, MemoryDialog!updateMemInfo(reset)
      PROVE  /\ used' \in Levels /\ high' \in Levels
             /\ m_pDb' \in BOOLEAN /\ memoryActive' \in BOOLEAN
             /\ numbers' \in (Levels \cup {0}) \X (Levels \cup {0})
  BY <1>2, Zenon DEF MemoryDialog!updateMemInfo, MemoryDialog!getMemoryInfo
<1>3. CASE MemoryDialog!active \/ MemoryDialog!Inactive(TRUE) \/ MemoryDialog!inactive
  BY <1>1, <1>3, Zenon DEF MemoryDialog!active, MemoryDialog!inactive, MemoryDialog!Inactive
<1>4. CASE MemoryDialog!showEvent
  <2>1. CASE memoryActive
    BY <1>1, <1>2, <1>4, <2>1, Zenon DEF MemoryDialog!showEvent
  <2>2. CASE ~memoryActive
    BY <1>1, <1>4, <2>2, Zenon DEF MemoryDialog!showEvent
  <2>3. QED
    BY <2>1, <2>2
<1>5. CASE MemoryDialog!hide \/ MemoryDialog!closeEvent
  BY <1>1, <1>5, Zenon DEF MemoryDialog!hide, MemoryDialog!closeEvent
<1>6. CASE MemoryDialog!resetHighWatermark \/ MemoryDialog!tick
  BY <1>1, <1>2, <1>6, Zenon DEF MemoryDialog!resetHighWatermark, MemoryDialog!tick
<1>7. ASSUME NEW n \in Levels, MemoryDialog!Use(n) PROVE MemoryTypes'
  BY <1>1, <1>7, Zenon DEF MemoryDialog!Use
<1>8. CASE MemoryDialog!Ends \/ UNCHANGED MemoryDialog!vars
  BY <1>1, <1>8, Zenon DEF MemoryDialog!Ends, MemoryDialog!vars
<1>9. QED
  BY <1>3, <1>4, <1>5, <1>6, <1>7, <1>8
     DEF MemoryDialog!Next, MemoryDialog!Slots, MemoryDialog!ShowCrash

\* The parts agree on whether there is a database.
Agree == pragmasActive = m_pDb /\ enabled = m_pDb

LEMMA AgreeStep ==
  ASSUME Agree, [Next]_vars
  PROVE  Agree'
<1>1. CASE openDatabase
  BY <1>1 DEF Agree, openDatabase, PragmaDialog!active, MemoryDialog!active, QueryWidget!active
<1>2. CASE closeDatabase
  BY <1>2 DEF Agree, closeDatabase, PragmaDialog!inactive, MemoryDialog!inactive,
              MemoryDialog!Inactive, QueryWidget!inactive, QueryWidget!Inactive
<1>3. CASE saveAsDatabase
  BY <1>3 DEF Agree, saveAsDatabase, PragmaDialog!active, MemoryDialog!Inactive,
              QueryWidget!Inactive
<1>4. ASSUME UNCHANGED <<pragmasActive, m_pDb, enabled>> PROVE Agree'
  BY <1>4 DEF Agree
<1>5. CASE PragmaSlot
  BY <1>4, <1>5
     DEF PragmaSlot, memoryVars, queryVars, PragmaDialog!Slots, PragmaDialog!showEvent,
         PragmaDialog!reject, PragmaDialog!closeEvent, PragmaDialog!save,
         PragmaDialog!changeWidget, PragmaDialog!SetElsewhere
<1>6. CASE MemorySlot
  <2>1. UNCHANGED m_pDb
    BY <1>6, Zenon
       DEF MemorySlot, MemoryDialog!Slots, MemoryDialog!showEvent, MemoryDialog!hide,
           MemoryDialog!closeEvent, MemoryDialog!resetHighWatermark, MemoryDialog!Use,
           MemoryDialog!updateMemInfo
  <2>2. QED
    BY <1>4, <1>6, <2>1 DEF MemorySlot, pragmaVars, queryVars
<1>7. CASE tick
  BY <1>4, <1>7 DEF tick, pragmaVars, queryVars, MemoryDialog!tick, MemoryDialog!updateMemInfo
<1>8. ASSUME NEW l \in Lines, Edit(l) PROVE Agree'
  BY <1>4, <1>8 DEF Edit, QueryWidget!Edit, pragmaVars, memoryVars
<1>9. CASE UNCHANGED <<pragmaVars, memoryVars, queryVars>>
  BY <1>4, <1>9 DEF pragmaVars, memoryVars, queryVars
<1>10. CASE Crash
  BY <1>4, <1>10
     DEF Crash, queryVars, PragmaDialog!SaveCrash, PragmaDialog!Ends, MemoryDialog!ShowCrash,
         MemoryDialog!Ends
<1>11. QED
  BY <1>1, <1>2, <1>3, <1>5, <1>6, <1>7, <1>8, <1>9, <1>10
     DEF Next, Steps, FileSlot, FileSlotRuns, Touch, Execute, Save, vars

\* The parts are of their types, and agree on whether there is a database.
THEOREM PartsAgree == Spec => []GuiTypeOK
<1> DEFINE Types == /\ PragmaProofs!DialogInv /\ PragmaProofs!Flags
                    /\ MemoryTypes /\ Agree /\ CellProofs!ChunksInv
<1>1. Init => Types
  <2>1. SUFFICES ASSUME Init PROVE Types
    OBVIOUS
  <2>2. PragmaProofs!DialogInv /\ PragmaProofs!Flags
    BY <2>1, GuiAssumption, SamePragmaDialog, PragmaProofs!DialogInit, PragmaProofs!FlagsInit DEF Init
  <2>3. MemoryTypes
    BY <2>1, Zenon DEF Init, MemoryDialog!Init, MemoryTypes
  <2>4. Agree
    BY <2>1 DEF Init, Agree, PragmaDialog!Init, MemoryDialog!Init, QueryWidget!Init
  <2>5. CellProofs!ChunksInv
    BY <2>1, GuiAssumption, SameCellFile, CellProofs!ChunksInit DEF Init
  <2>6. QED
    BY <2>2, <2>3, <2>4, <2>5
<1>2. Types /\ [Next]_vars => Types'
  BY GuiAssumption, SamePragmaDialog, StepOfPragmaDialog, PragmaProofs!DialogStep,
     PragmaProofs!FlagsStep, StepOfMemoryDialog, MemoryTypesStep, AgreeStep,
     SameCellFile, StepOfCellFile, CellProofs!ChunksStep
<1>3. Types => GuiTypeOK
  <2>1. SUFFICES ASSUME Types PROVE GuiTypeOK
    OBVIOUS
  <2>2. PragmaDialog!PragmaTypeOK
    BY <2>1, PragmaProofs!DialogTypes DEF PragmaProofs!PragmaTypeOK, PragmaDialog!PragmaTypeOK
  <2>3. MemoryDialog!MemoryTypeOK
    BY <2>1, Zenon DEF MemoryTypes, MemoryDialog!MemoryTypeOK
  <2>4. CellFile!CellFileTypeOK
    BY <2>1, Zenon DEF CellProofs!ChunksInv, CellProofs!CellFileTypeOK, CellFile!CellFileTypeOK
  <2>5. QED
    BY <2>1, <2>2, <2>3, <2>4 DEF Agree, GuiTypeOK
<1>4. QED
  BY <1>1, <1>2, <1>3, PTL DEF Spec

\* The loops of the file slots keep their invariant, in the program.
LEMMA LoopsOfProgram == Spec => []CellProofs!ChunksInv
<1>1. Init => CellProofs!ChunksInv
  BY GuiAssumption, SameCellFile, CellProofs!ChunksInit DEF Init
<1>2. CellProofs!ChunksInv /\ [Next]_vars => CellProofs!ChunksInv'
  BY GuiAssumption, SameCellFile, StepOfCellFile, CellProofs!ChunksStep
<1>3. QED
  BY <1>1, <1>2, PTL DEF Spec

\* After an import that the program reports as done, of a file no other program
\* changed meanwhile, the cell holds the file or, its last commit lost, zeros of
\* the file's size: never a part of the file.
THEOREM ProgramImportsFiles == Spec => []ImportStoresFile
<1>1. CellProofs!ChunksInv => ImportStoresFile
  BY CellProofs!ChunksImply
     DEF ImportStoresFile, CellFile!ImportStoresFile, CellProofs!ImportStoresFile,
         CellFile!Zeros, CellProofs!Zeros
<1>2. QED
  BY <1>1, LoopsOfProgram, PTL

\* An export or a view that the program reports as done has delivered the cell,
\* when the file took every byte.
THEOREM ProgramExportsCells == Spec => []ExportDeliversCell
<1>1. CellProofs!ChunksInv => ExportDeliversCell
  BY CellProofs!ChunksImply
     DEF ExportDeliversCell, CellFile!ExportDeliversCell, CellProofs!ExportDeliversCell
<1>2. QED
  BY <1>1, LoopsOfProgram, PTL

-----------------------------------------------------------------------------
\* A text that is bound as one, and what it reads as.
LEMMA TextOfBytes ==
  ASSUME NEW str \in Seq(CellValue!QChar)
  PROVE  CellValue!bindText(str) =
           CellValue!Value("text", [i \in DOMAIN str |->
             IF str[i] \in CellValue!Byte THEN str[i] ELSE CellValue!QuestionMark])
<1> DEFINE all == CellValue!toStdString(str)
           N == Len(str)
<1>1. N \in Nat /\ DOMAIN str = 1..N
  OBVIOUS
<1>2. all = [i \in 1..N |-> IF str[i] \in CellValue!Byte THEN str[i] ELSE CellValue!QuestionMark]
  BY DEF CellValue!toStdString
<1>3. all \in Seq(CellValue!QChar \cup {CellValue!QuestionMark}) /\ Len(all) = N
  BY <1>1, <1>2
<1>4. SubSeq(all, 1, N) = all
  BY <1>1, <1>3
<1>5. QED
  BY <1>1, <1>2, <1>4 DEF CellValue!bindText

\* What was bound is what Bound makes of the text that was typed last.
ValueInv ==
  \/ bound = CellValue!Nothing
  \/ typed \in Typed /\ \E hasAffinity \in BOOLEAN : bound = CellValue!Bound(typed, hasAffinity)

LEMMA ValueStep ==
  ASSUME ValueInv, [Next]_vars
  PROVE  ValueInv'
<1>1. CASE UNCHANGED valueVars
  BY <1>1 DEF valueVars, ValueInv, CellValue!Bound
<1>2. CASE CellValue!Clear
  BY <1>2 DEF CellValue!Clear, ValueInv, CellValue!Nothing, CellValue!Value
<1>3. ASSUME NEW t \in Typed \cup {NoString}, CellValue!Save(t)
      PROVE  ValueInv'
  BY <1>3 DEF CellValue!Save, ValueInv, CellValue!Bound
<1>4. QED
  BY <1>1, <1>2, <1>3
     DEF Next, Steps, Crash, openDatabase, closeDatabase, saveAsDatabase, PragmaSlot, MemorySlot,
         tick, Edit, Execute, Save, FileSlot, FileSlotRuns, Touch, vars

LEMMA ValueInvariant == Spec => []ValueInv
<1>1. Init => ValueInv
  BY DEF Init, CellValue!Init, ValueInv
<1>2. QED
  BY <1>1, ValueStep, PTL DEF Spec

\* What is bound: null, a number of the text, or its bytes.
LEMMA BoundIs ==
  ASSUME CellValue!TextsAssumption, ValueInv
  PROVE  IntegersAreExact /\ TextsComeBack
<1>1. CASE bound = CellValue!Nothing
  BY <1>1 DEF CellValue!Nothing, CellValue!Value, IntegersAreExact, TextsComeBack,
              CellValue!IntegersAreExact, CellValue!TextsComeBack
<1>2. CASE typed \in Typed /\ bound = CellValue!bindText(typed)
  <2>1. typed \in Seq(CellValue!QChar)
    BY <1>2 DEF CellValue!TextsAssumption
  <2>2. QED
    BY <1>2, <2>1, TextOfBytes DEF CellValue!Value, CellValue!getString, IntegersAreExact,
       TextsComeBack, CellValue!IntegersAreExact, CellValue!TextsComeBack
<1>3. CASE typed \in Typed /\ bound = CellValue!bindConvert(typed) /\ bound # CellValue!bindText(typed)
  <2>1. \/ typed \in DOMAIN asInt /\ bound = CellValue!Value("int", <<asInt[typed]>>)
        \/ typed \in DOMAIN asLongLong /\ bound = CellValue!Value("int64", <<asLongLong[typed]>>)
        \/ typed \notin DOMAIN asLongLong /\ bound = CellValue!Value("double", <<asDouble[typed]>>)
    BY <1>3 DEF CellValue!bindConvert
  <2>2. QED
    BY <2>1 DEF CellValue!Value, CellValue!TextsAssumption, IntegersAreExact, TextsComeBack,
       CellValue!IntegersAreExact, CellValue!TextsComeBack
<1>4. QED
  BY <1>1, <1>2, <1>3 DEF ValueInv, CellValue!Bound

\* A text that reads as an integer of up to 64 bits is given to the engine as
\* that integer, never as a double, though it reads as one too.
THEOREM ProgramKeepsIntegers == Spec => []IntegersAreExact
  BY GuiAssumption, BoundIs, ValueInvariant, PTL DEF GuiAssumption

\* bindText() takes the QChars of a text for its bytes: whatever text is bound
\* reads as it was typed, but for the QChars that have no byte in Latin-1.
THEOREM ProgramBindsTexts == Spec => []TextsComeBack
  BY GuiAssumption, BoundIs, ValueInvariant, PTL DEF GuiAssumption

-----------------------------------------------------------------------------
\* The places of the keywords that end before place n.
KeywordsBefore(str, n) ==
  {k \in DOMAIN str : \E i, j \in DOMAIN str :
     j < n /\ k \in i..j /\ QueryWidget!IsWord(str, i, j)
       /\ QueryWidget!IsKeyword(SubSeq(str, i, j))}

\* What the loop over the characters has found after n of them: the keywords
\* that have ended, and where the word starts that has not.
Highlighted(str, n, loop) ==
  /\ loop.blue = KeywordsBefore(str, n)
  /\ loop.start = 0 => n = 0 \/ str[n] \in Separators
  /\ loop.start # 0 =>
       /\ loop.start \in 1..n
       /\ \A k \in loop.start..n : str[k] \notin Separators
       /\ loop.start = 1 \/ str[loop.start - 1] \in Separators

\* A word that ends at n is the one that starts at loop.start.
LEMMA OneWordEnds ==
  ASSUME NEW str, NEW N \in Nat, str \in [1..N -> DOMAIN toUpper], Len(str) = N,
         NEW n \in 0..N, NEW loop, loop.start \in 0..n, Highlighted(str, n, loop),
         n = N \/ str[n + 1] \in Separators
  PROVE  \A i, j \in DOMAIN str :
           j = n => (QueryWidget!IsWord(str, i, j) <=> i = loop.start)
<1>1. SUFFICES ASSUME NEW i \in 1..N, n \in 1..N
               PROVE  QueryWidget!IsWord(str, i, n) <=> i = loop.start
  OBVIOUS
<1>2. ASSUME i = loop.start PROVE QueryWidget!IsWord(str, i, n)
  BY <1>1, <1>2 DEF Highlighted, QueryWidget!IsWord
<1>3. ASSUME QueryWidget!IsWord(str, i, n), i # loop.start PROVE FALSE
  <2>1. /\ i <= n /\ \A k \in i..n : str[k] \notin Separators
        /\ i = 1 \/ str[i - 1] \in Separators
    BY <1>3 DEF QueryWidget!IsWord
  <2>2. str[n] \notin Separators
    BY <1>1, <2>1
  <2>3. loop.start # 0
    BY <1>1, <2>2 DEF Highlighted
  <2>4. CASE i < loop.start
    <3>1. loop.start - 1 \in i..n
      BY <1>1, <2>4
    <3>2. QED
      BY <1>1, <2>1, <2>3, <2>4, <3>1 DEF Highlighted
  <2>5. CASE loop.start < i
    <3>1. i - 1 \in loop.start..n /\ i # 1
      BY <1>1, <2>1, <2>3, <2>5
    <3>2. QED
      BY <2>1, <2>3, <3>1 DEF Highlighted
  <2>6. QED
    BY <1>1, <1>3, <2>4, <2>5
<1>4. QED
  BY <1>2, <1>3

\* The word that ends at n is turned blue if it is a keyword.
LEMMA EndOfWordIs ==
  ASSUME NEW str, NEW N \in Nat, str \in [1..N -> DOMAIN toUpper], Len(str) = N,
         NEW n \in 0..N, NEW loop, loop.start \in 1..n, Highlighted(str, n, loop),
         n = N \/ str[n + 1] \in Separators
  PROVE  QueryWidget!EndOfWord(str, loop, n + 1) = KeywordsBefore(str, n + 1)
<1> DEFINE s == loop.start
           blueWord == QueryWidget!IsKeyword(SubSeq(str, s, n))
<1>1. n \in 1..N /\ s \in 1..N
  OBVIOUS
<1>2. \A i, j \in DOMAIN str : j = n => (QueryWidget!IsWord(str, i, j) <=> i = s)
  BY OneWordEnds
<1>3. QueryWidget!EndOfWord(str, loop, n + 1) =
        IF blueWord THEN KeywordsBefore(str, n) \cup s..n ELSE KeywordsBefore(str, n)
  <2>1. (n + 1) - 1 = n
    OBVIOUS
  <2>2. QED
    BY <2>1 DEF QueryWidget!EndOfWord, QueryWidget!mid, Highlighted
<1>4. ASSUME NEW k
      PROVE  k \in KeywordsBefore(str, n + 1) <=>
               k \in KeywordsBefore(str, n) \/ (blueWord /\ k \in s..n)
  <2>1. \A j \in DOMAIN str : j < n + 1 <=> j < n \/ j = n
    OBVIOUS
  <2>2. ASSUME k \in KeywordsBefore(str, n + 1)
        PROVE  k \in KeywordsBefore(str, n) \/ (blueWord /\ k \in s..n)
    <3>1. PICK i \in DOMAIN str, j \in DOMAIN str :
            /\ j < n + 1 /\ k \in i..j /\ QueryWidget!IsWord(str, i, j)
            /\ QueryWidget!IsKeyword(SubSeq(str, i, j))
      BY <2>2 DEF KeywordsBefore
    <3>2. CASE j < n
      BY <2>2, <3>1, <3>2 DEF KeywordsBefore
    <3>3. CASE j = n
      BY <1>2, <3>1, <3>3
    <3>4. QED
      BY <2>1, <3>1, <3>2, <3>3
  <2>3. ASSUME k \in KeywordsBefore(str, n) PROVE k \in KeywordsBefore(str, n + 1)
    BY <2>1, <2>3 DEF KeywordsBefore
  <2>4. ASSUME blueWord, k \in s..n PROVE k \in KeywordsBefore(str, n + 1)
    <3>1. s \in DOMAIN str /\ n \in DOMAIN str /\ k \in DOMAIN str /\ n < n + 1
      BY <1>1, <2>4
    <3>2. QueryWidget!IsWord(str, s, n)
      BY <1>2, <3>1
    <3>3. QED
      BY <2>4, <3>1, <3>2 DEF KeywordsBefore
  <2>5. QED
    BY <2>2, <2>3, <2>4
<1>5. QED
  BY <1>3, <1>4

\* No word ends at n.
LEMMA NoWordEnds ==
  ASSUME NEW str, NEW N \in Nat, str \in [1..N -> DOMAIN toUpper], Len(str) = N,
         NEW n \in 0..N,
         \A i, j \in DOMAIN str : j = n => ~QueryWidget!IsWord(str, i, j)
  PROVE  KeywordsBefore(str, n + 1) = KeywordsBefore(str, n)
<1>1. \A j \in DOMAIN str : j < n + 1 <=> j < n \/ j = n
  OBVIOUS
<1>2. QED
  BY <1>1 DEF KeywordsBefore

\* One round of the loop.
LEMMA RoundHighlights ==
  ASSUME NEW str, NEW N \in Nat, str \in [1..N -> DOMAIN toUpper], Len(str) = N,
         NEW n \in Nat, n + 1 \in 1..N,
         NEW loop \in [start : 0..N, blue : SUBSET (1..N)], loop.start \in 0..n,
         Highlighted(str, n, loop)
  PROVE  LET next == QueryWidget!Round(str, loop, n + 1)
         IN  next.start \in 0..n + 1 /\ Highlighted(str, n + 1, next)
<1> DEFINE next == QueryWidget!Round(str, loop, n + 1)
           separates == str[n + 1] \in Separators
<1>0. n \in 0..N
  OBVIOUS
<1>1. CASE loop.start = 0 /\ ~separates
  <2>1. next.start = n + 1 /\ next.blue = loop.blue
    BY <1>1 DEF QueryWidget!Round
  <2>2. \A i, j \in DOMAIN str : j = n => ~QueryWidget!IsWord(str, i, j)
    BY <1>0, <1>1 DEF Highlighted, QueryWidget!IsWord
  <2>3. KeywordsBefore(str, n + 1) = KeywordsBefore(str, n)
    BY <1>0, <2>2, NoWordEnds
  <2>4. Highlighted(str, n + 1, next)
    <3>1. \A k \in n + 1..n + 1 : k = n + 1
      OBVIOUS
    <3>2. n + 1 = 1 \/ str[(n + 1) - 1] \in Separators
      BY <1>1 DEF Highlighted
    <3>3. n + 1 # 0 /\ n + 1 \in 1..n + 1
      OBVIOUS
    <3> HIDE DEF next
    <3>4. QED
      BY <1>1, <2>1, <2>3, <3>1, <3>2, <3>3 DEF Highlighted
  <2>5. QED
    BY <2>1, <2>4
<1>2. CASE loop.start # 0 /\ separates
  <2>1. next.start = 0 /\ next.blue = QueryWidget!EndOfWord(str, loop, n + 1)
    BY <1>2 DEF QueryWidget!Round
  <2>2. loop.start \in 1..n
    BY <1>2
  <2>3. next.blue = KeywordsBefore(str, n + 1)
    BY <1>0, <1>2, <2>1, <2>2, EndOfWordIs
  <2>4. Highlighted(str, n + 1, next)
    <3> HIDE DEF next
    <3>1. QED
      BY <1>2, <2>1, <2>3 DEF Highlighted
  <2>5. QED
    BY <2>1, <2>4
<1>3. CASE loop.start = 0 /\ separates
  <2>1. next = loop
    BY <1>3 DEF QueryWidget!Round
  <2>2. \A i, j \in DOMAIN str : j = n => ~QueryWidget!IsWord(str, i, j)
    BY <1>0, <1>3 DEF Highlighted, QueryWidget!IsWord
  <2>3. KeywordsBefore(str, n + 1) = KeywordsBefore(str, n)
    BY <1>0, <2>2, NoWordEnds
  <2>4. Highlighted(str, n + 1, next)
    <3> HIDE DEF next
    <3>1. QED
      BY <1>3, <2>1, <2>3 DEF Highlighted
  <2>5. QED
    BY <1>3, <2>1, <2>4
<1>4. CASE loop.start # 0 /\ ~separates
  <2>1. next = loop
    BY <1>4 DEF QueryWidget!Round
  <2>2. \A i, j \in DOMAIN str : j = n => ~QueryWidget!IsWord(str, i, j)
    BY <1>0, <1>4 DEF QueryWidget!IsWord
  <2>3. KeywordsBefore(str, n + 1) = KeywordsBefore(str, n)
    BY <1>0, <2>2, NoWordEnds
  <2>4. \A k \in loop.start..n + 1 : k \in loop.start..n \/ k = n + 1
    OBVIOUS
  <2>5. loop.start \in 1..n + 1 /\ loop.start \in 0..n + 1
    BY <1>4
  <2>6. Highlighted(str, n + 1, next)
    <3> HIDE DEF next
    <3>1. QED
      BY <1>4, <2>1, <2>3, <2>4, <2>5 DEF Highlighted
  <2>7. QED
    BY <2>1, <2>5, <2>6
<1>5. QED
  BY <1>1, <1>2, <1>3, <1>4

\* highlightBlock(), for any line: blue are the keywords.
LEMMA BlockIsHighlighted ==
  ASSUME NEW str \in Seq(DOMAIN toUpper)
  PROVE  QueryWidget!highlightBlock(str) =
           {k \in DOMAIN str : \E i, j \in DOMAIN str :
              k \in i..j /\ QueryWidget!IsWord(str, i, j)
                /\ QueryWidget!IsKeyword(SubSeq(str, i, j))}
<1> DEFINE N == Len(str)
           Base == [start |-> 0, blue |-> {}]
           After(i, l) == QueryWidget!Round(str, l, i)
           IsLoop(f) == f = [i \in 0..N |-> IF i = 0 THEN Base ELSE After(i, f[i - 1])]
           loop == CHOOSE f : IsLoop(f)
           Loops == [start : 0..N, blue : SUBSET (1..N)]
           step == [p \in (1..N) \X Loops |-> After(p[1], p[2])]
<1>1. QueryWidget!highlightBlock(str) = QueryWidget!EndOfLine(str, loop[N])
  BY DEF QueryWidget!highlightBlock
<1>2. N \in Nat /\ str \in [1..N -> DOMAIN toUpper] /\ Len(str) = N /\ DOMAIN str = 1..N
  OBVIOUS
<1> HIDE DEF N
<1>3. Base \in Loops /\ Base.start = 0 /\ Base.blue = {}
  BY <1>2
<1>4. ASSUME NEW i \in 1..N, NEW l \in Loops PROVE After(i, l) \in Loops
  <2>1. l.start # 0 => l.start..i - 1 \subseteq 1..N
    BY <1>2
  <2>2. l.start # 0 => QueryWidget!EndOfWord(str, l, i) \subseteq 1..N
    BY <2>1 DEF QueryWidget!EndOfWord
  <2>3. QED
    BY <1>2, <2>2 DEF QueryWidget!Round
<1> HIDE DEF Base, After
<1>5. /\ step \in [(1..N) \X Loops -> Loops]
      /\ \A i \in 1..N, l \in Loops : step[<<i, l>>] = After(i, l)
  BY <1>4
<1> HIDE DEF Loops, step
<1>6. PICK f : Solves(f, N, Loops, Base, step)
  BY <1>2, <1>3, <1>5, Recursion
<1>7. IsLoop(f)
  <2>1. \A i \in 1..N : i - 1 \in 0..N /\ f[i - 1] \in Loops
    BY <1>2, <1>6 DEF Solves
  <2>2. \A i \in 1..N : f[i] = After(i, f[i - 1])
    BY <1>5, <1>6, <2>1 DEF Solves
  <2>3. \A i \in 0..N : f[i] = IF i = 0 THEN Base ELSE After(i, f[i - 1])
    BY <1>2, <1>6, <2>2 DEF Solves
  <2>4. f = [i \in 0..N |-> f[i]]
    BY <1>6 DEF Solves
  <2>5. QED
    BY <2>3, <2>4
<1>8. IsLoop(loop)
  BY <1>7
<1> HIDE DEF loop
<1>9. loop[0] = Base /\ \A i \in 1..N : loop[i] = After(i, loop[i - 1])
  <2>1. 0 \in 0..N /\ \A i \in 1..N : i \in 0..N /\ i # 0
    BY <1>2
  <2>2. \A i \in 0..N : loop[i] = IF i = 0 THEN Base ELSE After(i, loop[i - 1])
    BY <1>8
  <2>3. QED
    BY <2>1, <2>2
<1> DEFINE Good(n) ==
      loop[n] \in Loops /\ loop[n].start \in 0..n /\ Highlighted(str, n, loop[n])
    Goods == {n \in 0..N : Good(n)}
<1>10. 0 \in Goods
  <2>1. KeywordsBefore(str, 0) = {}
    BY <1>2 DEF KeywordsBefore
  <2>2. Highlighted(str, 0, Base)
    BY <1>3, <2>1 DEF Highlighted
  <2>3. Good(0) /\ 0 \in 0..N
    BY <1>2, <1>3, <1>9, <2>2
  <2>4. QED
    BY <2>3
<1>11. ASSUME NEW n \in 0..N - 1, n \in Goods
       PROVE  n + 1 \in Goods
  <2>1. n \in Nat /\ n + 1 \in 1..N /\ (n + 1) - 1 = n /\ Good(n)
    BY <1>2, <1>11
  <2>2. loop[n + 1] = After(n + 1, loop[n])
    BY <1>9, <2>1
  <2>3. loop[n + 1] \in Loops
    BY <1>4, <2>1, <2>2 DEF Loops
  <2>4. loop[n + 1].start \in 0..n + 1 /\ Highlighted(str, n + 1, loop[n + 1])
    BY <1>2, <2>1, <2>2, RoundHighlights DEF Loops, After
  <2>5. n + 1 \in 0..N
    BY <2>1
  <2>6. QED
    BY <2>3, <2>4, <2>5
<1> HIDE DEF Goods
<1>12. \A n \in 0..N : n \in Goods
  BY <1>2, <1>10, <1>11, UpToBound
<1>13. Good(N) /\ N \in 0..N
  BY <1>2, <1>12 DEF Goods
<1>14. QueryWidget!EndOfLine(str, loop[N]) = KeywordsBefore(str, N + 1)
  <2>1. CASE loop[N].start = 0
    <3>1. \A i, j \in DOMAIN str : j = N => ~QueryWidget!IsWord(str, i, j)
      BY <1>2, <1>13, <2>1 DEF Highlighted, QueryWidget!IsWord
    <3>2. KeywordsBefore(str, N + 1) = KeywordsBefore(str, N)
      BY <1>2, <1>13, <3>1, NoWordEnds
    <3>3. QED
      BY <1>13, <2>1, <3>2 DEF QueryWidget!EndOfLine, Highlighted
  <2>2. CASE loop[N].start # 0
    <3>1. loop[N].start \in 1..N
      BY <1>2, <1>13, <2>2
    <3>2. QueryWidget!EndOfWord(str, loop[N], N + 1) = KeywordsBefore(str, N + 1)
      BY <1>2, <1>13, <3>1, EndOfWordIs
    <3>3. QED
      BY <1>2, <2>2, <3>2 DEF QueryWidget!EndOfLine
  <2>3. QED
    BY <2>1, <2>2
<1>15. \A j \in DOMAIN str : j < N + 1
  BY <1>2
<1>16. QED
  BY <1>1, <1>14, <1>15 DEF KeywordsBefore

\* The editor is highlighted whenever its line changes.
EditorInv == line \in Seq(DOMAIN toUpper) /\ blue = QueryWidget!highlightBlock(line)

LEMMA EditorStep ==
  ASSUME QueryWidget!LinesAssumption, EditorInv, [Next]_vars
  PROVE  EditorInv'
<1>1. CASE UNCHANGED <<line, blue>>
  BY <1>1 DEF EditorInv
<1>2. ASSUME NEW str \in Lines \cup {DefaultQuery}, QueryWidget!Shows(str)
      PROVE  EditorInv'
  BY <1>2 DEF QueryWidget!Shows, EditorInv, QueryWidget!LinesAssumption
<1>3. CASE openDatabase
  BY <1>1, <1>3 DEF openDatabase, QueryWidget!active
<1>4. CASE closeDatabase \/ saveAsDatabase
  BY <1>2, <1>4 DEF closeDatabase, saveAsDatabase, QueryWidget!inactive, QueryWidget!Inactive
<1>5. ASSUME NEW l \in Lines, Edit(l) PROVE EditorInv'
  BY <1>2, <1>5 DEF Edit, QueryWidget!Edit
<1>6. QED
  BY <1>1, <1>3, <1>4, <1>5
     DEF Next, Steps, Crash, PragmaSlot, MemorySlot, tick, Execute, Save, FileSlot, FileSlotRuns,
         Touch, queryVars, vars

\* In the editor the keywords are blue, in any case of letters, whole words
\* only, and nothing else, whatever lines, separators and keywords there are.
THEOREM ProgramHighlightsKeywords == Spec => []BlueAreKeywords
<1>1. Init => EditorInv
  BY GuiAssumption DEF Init, QueryWidget!Init, EditorInv, GuiAssumption, QueryWidget!LinesAssumption
<1>2. EditorInv /\ [Next]_vars => EditorInv'
  BY GuiAssumption, EditorStep DEF GuiAssumption
<1>3. EditorInv => BlueAreKeywords
  BY BlockIsHighlighted DEF EditorInv, BlueAreKeywords, QueryWidget!BlueAreKeywords
<1>4. QED
  BY <1>1, <1>2, <1>3, PTL DEF Spec

-----------------------------------------------------------------------------
\* A row that begins after place o of a table fills the places of its items, as
\* far as the table goes.
RowShown(filled, table, last, V, o, row) ==
  /\ filled \in [1..last -> V]
  /\ \A k \in 1..last : filled[k] = IF k - o \in 1..Len(row) THEN row[k - o] ELSE table[k]

LEMMA RowIsDisplayed ==
  ASSUME NEW last \in Nat, NEW V, NEW table \in [1..last -> V],
         NEW n \in Nat, NEW i \in Nat, NEW o \in Nat, o = (i - 1) * n, NEW row \in Seq(V)
  PROVE  RowShown(ResultSet!displayRow(table, n, i, row), table, last, V, o, row)
<1> DEFINE N == Len(row)
           Tables == [1..last -> V]
           After(j, t) == ResultSet!setItem(t, n, i, j, row[j])
           IsFilled(f) == f = [j \in 0..N |-> IF j = 0 THEN table ELSE After(j, f[j - 1])]
           filled == CHOOSE f : IsFilled(f)
           step == [p \in (1..N) \X Tables |-> After(p[1], p[2])]
<1>1. ResultSet!displayRow(table, n, i, row) = filled[N]
  BY DEF ResultSet!displayRow
<1>2. N \in Nat /\ \A j \in 1..N : row[j] \in V
  OBVIOUS
<1>3. \A j \in 1..N, t \in Tables :
        After(j, t) = [k \in 1..last |-> IF k = o + j THEN row[j] ELSE t[k]]
  BY <1>2 DEF ResultSet!setItem
<1> HIDE DEF N, After
<1>4. \A j \in 1..N, t \in Tables : After(j, t) \in Tables
  BY <1>2, <1>3
<1>5. /\ step \in [(1..N) \X Tables -> Tables]
      /\ \A j \in 1..N, t \in Tables : step[<<j, t>>] = After(j, t)
  BY <1>4
<1>a. table \in Tables
  OBVIOUS
<1> HIDE DEF step, Tables
<1>6. PICK f : Solves(f, N, Tables, table, step)
  BY <1>2, <1>5, <1>a, Recursion
<1>7. IsFilled(f)
  <2>1. \A j \in 1..N : j - 1 \in 0..N /\ f[j - 1] \in Tables
    BY <1>2, <1>6 DEF Solves
  <2>2. \A j \in 1..N : f[j] = After(j, f[j - 1])
    BY <1>5, <1>6, <2>1 DEF Solves
  <2>3. \A j \in 0..N : f[j] = IF j = 0 THEN table ELSE After(j, f[j - 1])
    BY <1>2, <1>6, <2>2 DEF Solves
  <2>4. f = [j \in 0..N |-> f[j]]
    BY <1>6 DEF Solves
  <2>5. QED
    BY <2>3, <2>4
<1>8. IsFilled(filled)
  BY <1>7
<1> HIDE DEF filled
<1>9. filled[0] = table /\ \A j \in 1..N : filled[j] = After(j, filled[j - 1])
  <2>1. 0 \in 0..N /\ \A j \in 1..N : j \in 0..N /\ j # 0
    BY <1>2
  <2>2. \A j \in 0..N : filled[j] = IF j = 0 THEN table ELSE After(j, filled[j - 1])
    BY <1>8
  <2>3. QED
    BY <2>1, <2>2
<1> DEFINE Shown(j) ==
             \A k \in 1..last : filled[j][k] = IF k - o \in 1..j THEN row[k - o] ELSE table[k]
           Good(j) == filled[j] \in Tables /\ Shown(j)
           Goods == {j \in 0..N : Good(j)}
<1>10. 0 \in Goods
  <2>1. \A k \in 1..last : k - o \notin 1..0
    OBVIOUS
  <2>2. Good(0) /\ 0 \in 0..N
    BY <1>2, <1>9, <1>a, <2>1
  <2>3. QED
    BY <2>2
<1>11. ASSUME NEW j \in 0..N - 1, j \in Goods
       PROVE  j + 1 \in Goods
  <2>1. j + 1 \in 1..N /\ (j + 1) - 1 = j /\ Good(j) /\ j + 1 \in 0..N
    BY <1>2, <1>11
  <2>2. filled[j + 1] = After(j + 1, filled[j])
    BY <1>9, <2>1
  <2>3. filled[j + 1] \in Tables
    BY <1>4, <2>1, <2>2
  <2>4. ASSUME NEW k \in 1..last
        PROVE  filled[j + 1][k] = IF k - o \in 1..j + 1 THEN row[k - o] ELSE table[k]
    <3>1. filled[j + 1][k] = IF k = o + (j + 1) THEN row[j + 1] ELSE filled[j][k]
      BY <1>3, <2>1, <2>2
    <3>2. filled[j][k] = IF k - o \in 1..j THEN row[k - o] ELSE table[k]
      BY <2>1
    <3>3. k - o \in 1..j + 1 <=> k - o \in 1..j \/ k = o + (j + 1)
      BY <2>1
    <3>4. k = o + (j + 1) => k - o = j + 1
      BY <2>1
    <3>5. QED
      BY <3>1, <3>2, <3>3, <3>4
  <2>5. QED
    BY <2>1, <2>3, <2>4
<1> HIDE DEF Goods
<1>12. \A j \in 0..N : j \in Goods
  BY <1>2, <1>10, <1>11, UpToBound
<1>13. Good(N)
  BY <1>2, <1>12 DEF Goods
<1>14. QED
  BY <1>1, <1>13 DEF RowShown, N, Tables

\* The rows of a grid of n columns lie one behind the other.
LEMMA RowsLieApart ==
  ASSUME NEW n \in Nat, NEW i \in Nat, NEW p \in 1..i
  PROVE  (p - 1) * n \in Nat /\ (p - 1) * n + n <= i * n
<1>1. i = p + (i - p) /\ i - p \in Nat
  OBVIOUS
<1>2. i * n = p * n + (i - p) * n /\ (i - p) * n \in Nat
  BY <1>1
<1>3. p * n = (p - 1) * n + n /\ (p - 1) * n \in Nat
  OBVIOUS
<1>4. QED
  BY <1>2, <1>3

\* displayResultSet(), for rows of any widths.
LEMMA GridIsDisplayed ==
  ASSUME NEW names \in Seq(Strings), NEW rows \in Seq(Seq(Strings))
  PROVE  \A p \in DOMAIN rows : \A j \in DOMAIN rows[p] :
           j <= Len(names) =>
             ResultSet!displayResultSet(names, rows)[(p - 1) * Len(names) + j] = rows[p][j]
<1> DEFINE n == Len(names)
           N == Len(rows)
           last == n * N
           V == Strings \cup {NoItem}
           Tables == [1..last -> V]
           Base == ResultSet!EmptyTable(names, rows)
           After(i, t) == ResultSet!displayRow(t, n, i, rows[i])
           IsTable(f) == f = [i \in 0..N |-> IF i = 0 THEN Base ELSE After(i, f[i - 1])]
           table == CHOOSE f : IsTable(f)
           step == [p \in (1..N) \X Tables |-> After(p[1], p[2])]
<1>1. ResultSet!displayResultSet(names, rows) = table[N]
  BY DEF ResultSet!displayResultSet
<1>2. /\ n \in Nat /\ N \in Nat /\ DOMAIN rows = 1..N
      /\ \A i \in 1..N : rows[i] \in Seq(Strings) /\ rows[i] \in Seq(V) /\ Len(rows[i]) \in Nat
                         /\ DOMAIN rows[i] = 1..Len(rows[i])
  OBVIOUS
<1>3. last \in Nat /\ last = N * n
  BY <1>2
<1>4. Base \in Tables
  BY DEF ResultSet!EmptyTable
<1> HIDE DEF n, N, last, V, Base
<1>5. \A i \in 1..N : (i - 1) * n \in Nat
  BY <1>2, RowsLieApart
<1>6. ASSUME NEW i \in 1..N, NEW t \in Tables
      PROVE  After(i, t) \in Tables /\ RowShown(After(i, t), t, last, V, (i - 1) * n, rows[i])
  <2>1. RowShown(After(i, t), t, last, V, (i - 1) * n, rows[i])
    <3> DEFINE o == (i - 1) * n
    <3>1. o \in Nat /\ o = (i - 1) * n /\ i \in Nat
      BY <1>5
    <3> HIDE DEF o
    <3>2. RowShown(ResultSet!displayRow(t, n, i, rows[i]), t, last, V, o, rows[i])
      BY <1>2, <1>3, <3>1, RowIsDisplayed
    <3>3. QED
      BY <3>1, <3>2 DEF After
  <2>2. QED
    BY <2>1 DEF RowShown
<1> HIDE DEF After
<1>7. /\ step \in [(1..N) \X Tables -> Tables]
      /\ \A i \in 1..N, t \in Tables : step[<<i, t>>] = After(i, t)
  BY <1>6
<1> HIDE DEF step, Tables
<1>8. PICK f : Solves(f, N, Tables, Base, step)
  BY <1>2, <1>4, <1>7, Recursion
<1>9. IsTable(f)
  <2>1. \A i \in 1..N : i - 1 \in 0..N /\ f[i - 1] \in Tables
    BY <1>2, <1>8 DEF Solves
  <2>2. \A i \in 1..N : f[i] = After(i, f[i - 1])
    BY <1>7, <1>8, <2>1 DEF Solves
  <2>3. \A i \in 0..N : f[i] = IF i = 0 THEN Base ELSE After(i, f[i - 1])
    BY <1>2, <1>8, <2>2 DEF Solves
  <2>4. f = [i \in 0..N |-> f[i]]
    BY <1>8 DEF Solves
  <2>5. QED
    BY <2>3, <2>4
<1>10. IsTable(table)
  BY <1>9
<1> HIDE DEF table
<1>11. table[0] = Base /\ \A i \in 1..N : table[i] = After(i, table[i - 1])
  <2>1. 0 \in 0..N /\ \A i \in 1..N : i \in 0..N /\ i # 0
    BY <1>2
  <2>2. \A i \in 0..N : table[i] = IF i = 0 THEN Base ELSE After(i, table[i - 1])
    BY <1>10
  <2>3. QED
    BY <2>1, <2>2
<1> DEFINE Shows(i) == \A p \in 1..i : \A j \in DOMAIN rows[p] :
                         j <= n => table[i][(p - 1) * n + j] = rows[p][j]
           Good(i) == table[i] \in Tables /\ Shows(i)
           Goods == {i \in 0..N : Good(i)}
<1>12. 0 \in Goods
  BY <1>2, <1>4, <1>11
<1>13. ASSUME NEW i \in 0..N - 1, i \in Goods
       PROVE  i + 1 \in Goods
  <2>a. i \in Nat /\ i + 1 \in 1..N /\ (i + 1) - 1 = i /\ i + 1 \in 0..N
    BY <1>2
  <2>b. Good(i)
    <3> HIDE DEF Good
    <3>1. QED
      BY <1>13
  <2>1. i \in Nat /\ i + 1 \in 1..N /\ (i + 1) - 1 = i /\ Good(i) /\ i + 1 \in 0..N
    BY <2>a, <2>b
  <2>2. table[i + 1] = After(i + 1, table[i])
    BY <1>11, <2>1
  <2>3. /\ table[i + 1] \in Tables
        /\ \A k \in 1..last : table[i + 1][k] =
             IF k - i * n \in 1..Len(rows[i + 1]) THEN rows[i + 1][k - i * n] ELSE table[i][k]
    <3>1. /\ table[i + 1] \in Tables
          /\ RowShown(After(i + 1, table[i]), table[i], last, V, ((i + 1) - 1) * n, rows[i + 1])
      BY <1>6, <2>1, <2>2
    <3>2. RowShown(table[i + 1], table[i], last, V, i * n, rows[i + 1])
      BY <2>1, <2>2, <3>1
    <3> HIDE DEF Good
    <3>3. QED
      BY <3>1, <3>2 DEF RowShown
  <2>4. ASSUME NEW p \in 1..i + 1, NEW j \in DOMAIN rows[p], j <= n
        PROVE  table[i + 1][(p - 1) * n + j] = rows[p][j]
    <3> DEFINE o == (p - 1) * n
               k == o + j
    <3>1. o \in Nat /\ o + n <= (i + 1) * n /\ (i + 1) * n <= last
      <4>1. o \in Nat /\ o + n <= (i + 1) * n
        BY <1>2, <2>1, RowsLieApart
      <4>2. ((i + 1) - 1) * n + n <= N * n
        BY <1>2, <2>1, RowsLieApart
      <4>3. (i + 1) * n = ((i + 1) - 1) * n + n
        BY <1>2, <2>1
      <4>4. QED
        BY <1>3, <4>1, <4>2, <4>3
    <3>2. p \in 1..N /\ j \in 1..Len(rows[p])
      BY <1>2, <2>1, <2>4
    <3>3. (i + 1) * n \in Nat /\ i * n \in Nat
      BY <1>2, <2>1
    <3>a. p = i + 1 => o = i * n
      BY <2>1
    <3>b. p # i + 1 => p \in 1..i /\ o + n <= i * n
      BY <1>2, <2>1, RowsLieApart
    <3> DEFINE X == (i + 1) * n
               Y == i * n
    <3>c. /\ o \in Nat /\ X \in Nat /\ Y \in Nat /\ n \in Nat /\ last \in Nat
          /\ o + n <= X /\ X <= last /\ j \in Nat /\ 1 <= j /\ j <= n
          /\ p # i + 1 => o + n <= Y
      BY <1>2, <1>3, <2>4, <3>1, <3>2, <3>3, <3>b
    <3> HIDE DEF o, X, Y
    <3>4. k \in 1..last
      BY <3>c
    <3>5. CASE p = i + 1
      <4>1. k - i * n = j
        BY <3>1, <3>2, <3>3, <3>a, <3>5
      <4>2. QED
        BY <2>3, <3>2, <3>4, <3>5, <4>1 DEF o
    <3>6. CASE p # i + 1
      <4>a. k - Y <= 0
        BY <3>c, <3>6
      <4>1. k - i * n \notin 1..Len(rows[i + 1])
        BY <4>a DEF Y
      <4>2. table[i + 1][k] = table[i][k]
        BY <2>3, <3>4, <4>1
      <4>3. QED
        BY <2>1, <2>4, <3>b, <3>6, <4>2 DEF o
    <3>7. QED
      BY <3>5, <3>6
  <2>5. QED
    BY <2>1, <2>3, <2>4
<1> HIDE DEF Goods
<1>14. \A i \in 0..N : i \in Goods
  BY <1>2, <1>12, <1>13, UpToBound
<1>15. Good(N)
  BY <1>2, <1>14 DEF Goods
<1>16. QED
  BY <1>1, <1>2, <1>15 DEF n

\* exec(): the names and the rows of a result.
LEMMA ResultIs ==
  ASSUME NEW result \in Seq([names : Seq(Strings), data : Seq(Strings)])
  PROVE  ResultSet!ResultOf(result) \in [columns : Seq(Strings), rows : Seq(Seq(Strings))]
<1> DEFINE N == Len(result)
           Sets == [columns : Seq(Strings), rows : Seq(Seq(Strings))]
           Base == [columns |-> <<>>, rows |-> <<>>]
           After(i, set) == ResultSet!addRow(set, result[i])
           IsSet(f) == f = [i \in 0..N |-> IF i = 0 THEN Base ELSE After(i, f[i - 1])]
           all == CHOOSE f : IsSet(f)
           step == [p \in (1..N) \X Sets |-> After(p[1], p[2])]
<1>1. ResultSet!ResultOf(result) = all[N]
  BY DEF ResultSet!ResultOf
<1>2. /\ N \in Nat
      /\ \A i \in 1..N : result[i].names \in Seq(Strings) /\ result[i].data \in Seq(Strings)
  <2> DEFINE R == [names : Seq(Strings), data : Seq(Strings)]
  <2>1. Len(result) \in Nat /\ \A i \in 1..Len(result) : result[i] \in R
    <3> HIDE DEF R
    <3>1. result \in Seq(R)
      BY DEF R
    <3>2. QED
      BY <3>1
  <2>2. QED
    BY <2>1
<1>3. Base \in Sets
  OBVIOUS
<1>4. ASSUME NEW i \in 1..N, NEW set \in Sets PROVE After(i, set) \in Sets
  <2>1. Append(set.rows, result[i].data) \in Seq(Seq(Strings))
    BY <1>2
  <2>2. QED
    BY <1>2, <2>1 DEF ResultSet!addRow
<1> HIDE DEF N, Sets, Base, After
<1>5. /\ step \in [(1..N) \X Sets -> Sets]
      /\ \A i \in 1..N, set \in Sets : step[<<i, set>>] = After(i, set)
  BY <1>4
<1> HIDE DEF step
<1>6. PICK f : Solves(f, N, Sets, Base, step)
  BY <1>2, <1>3, <1>5, Recursion
<1>7. IsSet(f)
  <2>1. \A i \in 1..N : i - 1 \in 0..N /\ f[i - 1] \in Sets
    BY <1>2, <1>6 DEF Solves
  <2>2. \A i \in 1..N : f[i] = After(i, f[i - 1])
    BY <1>5, <1>6, <2>1 DEF Solves
  <2>3. \A i \in 0..N : f[i] = IF i = 0 THEN Base ELSE After(i, f[i - 1])
    BY <1>2, <1>6, <2>2 DEF Solves
  <2>4. f = [i \in 0..N |-> f[i]]
    BY <1>6 DEF Solves
  <2>5. QED
    BY <2>3, <2>4
<1>8. IsSet(all)
  BY <1>7
<1> HIDE DEF all
<1>9. all[0] = Base /\ \A i \in 1..N : all[i] = After(i, all[i - 1])
  <2>1. 0 \in 0..N /\ \A i \in 1..N : i \in 0..N /\ i # 0
    BY <1>2
  <2>2. \A i \in 0..N : all[i] = IF i = 0 THEN Base ELSE After(i, all[i - 1])
    BY <1>8
  <2>3. QED
    BY <2>1, <2>2
<1> DEFINE Goods == {i \in 0..N : all[i] \in Sets}
<1>10. 0 \in Goods
  BY <1>2, <1>3, <1>9
<1>11. ASSUME NEW i \in 0..N - 1, i \in Goods PROVE i + 1 \in Goods
  <2>1. i + 1 \in 1..N /\ (i + 1) - 1 = i /\ all[i] \in Sets /\ i + 1 \in 0..N
    BY <1>2, <1>11
  <2>2. all[i + 1] = After(i + 1, all[i])
    BY <1>9, <2>1
  <2>3. QED
    BY <1>4, <2>1, <2>2
<1> HIDE DEF Goods
<1>12. \A i \in 0..N : i \in Goods
  BY <1>2, <1>10, <1>11, UpToBound
<1>13. all[N] \in Sets
  BY <1>2, <1>12 DEF Goods
<1>14. QED
  BY <1>1, <1>13 DEF Sets

\* Each Execute puts its rows into the grid anew.
LEMMA RowsStep ==
  ASSUME ResultSet!ResultsAssumption, RowsShowTheirValues, [Next]_vars
  PROVE  RowsShowTheirValues'
<1> USE DEF RowsShowTheirValues, ResultSet!RowsShowTheirValues
<1>1. CASE UNCHANGED resultVars
  BY <1>1 DEF resultVars
<1>2. CASE ResultSet!Clear
  BY <1>2 DEF ResultSet!Clear
<1>3. ASSUME NEW result \in Results, ResultSet!Execute(result)
      PROVE  RowsShowTheirValues'
  <2>1. m_columns' \in Seq(Strings) /\ m_rows' \in Seq(Seq(Strings))
    BY <1>3, ResultIs DEF ResultSet!Execute, ResultSet!ResultsAssumption
  <2>2. items' = ResultSet!displayResultSet(m_columns', m_rows')
    BY <1>3 DEF ResultSet!Execute
  <2>3. QED
    BY <2>1, <2>2, GridIsDisplayed
<1>4. QED
  BY <1>1, <1>2, <1>3
     DEF Next, Steps, Crash, openDatabase, closeDatabase, saveAsDatabase, PragmaSlot, MemorySlot,
         tick, Edit, Execute, Save, FileSlot, FileSlotRuns, Touch, vars

\* The rows of one text are shown in their places, although the items of a row
\* that is wider than the grid land in the rows below.
THEOREM ProgramShowsRows == Spec => []RowsShowTheirValues
<1>1. Init => RowsShowTheirValues
  BY DEF Init, ResultSet!Init, RowsShowTheirValues, ResultSet!RowsShowTheirValues
<1>2. RowsShowTheirValues /\ [Next]_vars => RowsShowTheirValues'
  BY GuiAssumption, RowsStep DEF GuiAssumption
<1>3. QED
  BY <1>1, <1>2, PTL DEF Spec
=============================================================================
