------------------------------ MODULE CellFile ------------------------------
(***************************************************************************)
(* Cells and files, chunk by chunk: updateCellWithFile, exportCellToFile   *)
(* and getCellRawData (core/sqlite.cpp) over SQLiteIO.  The GUI thread is  *)
(* in one of them at most, and sees nothing else happen until it returns;  *)
(* other programs may change the file between two chunks.                  *)
(***************************************************************************)
EXTENDS Integers, Sequences

CONSTANTS
  Bytes, Zero,
  FileData,   \* what a file may hold
  CellData,   \* what a cell to be exported or viewed may hold
  Chunk,      \* 1024
  IntSpan     \* how many values an int has

CellFileAssumption ==
  /\ Zero \in Bytes
  /\ FileData \subseteq Seq(Bytes) /\ CellData \subseteq Seq(Bytes)
  /\ Chunk \in Nat \ {0}
  /\ IntSpan \in Nat \ {0}

VARIABLES
  job,       \* "none", "import", "export", "view"
  answer,    \* of the method: "none" while it runs, "true", "false"
  file,      \* the file that is read; what has been written to it, or to the buffer
  cell,
  offset,    \* offset, read
  touched    \* history: the file was changed by others, or not written in full

vars == <<job, answer, file, cell, offset, touched>>

Init ==
  /\ job = "none" /\ answer = "none"
  /\ file = <<>> /\ cell = <<>> /\ offset = 0 /\ touched = FALSE

Idle == job = "none"

Returns(a) == answer' = a /\ UNCHANGED <<job, offset, touched>>

Least(a, b) == IF a < b THEN a ELSE b

-----------------------------------------------------------------------------
\* An int that is given the number n; a blob of a negative size is an empty one.
AsInt(n) ==
  LET r == n % IntSpan IN IF 2 * r < IntSpan THEN r ELSE r - IntSpan

BlobSize(n) == IF AsInt(n) < 0 THEN 0 ELSE AsInt(n)

Zeros(n) == [i \in 1..n |-> Zero]

\* updateCellWithFile() up to the loop: the file is opened, the cell set to as
\* many zeros as file.size() is for an int, the blob opened.  A failure of the
\* first two leaves the cell as it was, which is not told from any other.
Import(f) ==
  /\ Idle
  /\ job' = "import" /\ offset' = 0 /\ touched' = FALSE
  /\ file' = f
  /\ \/ answer' \in {"none", "false"} /\ cell' = Zeros(BlobSize(Len(f)))
     \/ answer' = "false" /\ cell' \in CellData

\* SQLiteIO::write: nothing is written past the end of the blob.
Fits(n) == offset + n <= Len(cell)

Written(data) ==
  [i \in 1..Len(cell) |->
     IF i > offset /\ i <= offset + Len(data) THEN data[i - offset] ELSE cell[i]]

\* Variant: the loop ends with the last whole chunk.
AtEndOfChunks(f) == offset + Chunk > Len(f)

\* in.atEnd(), of the version f of the file
AtEnd(f) == offset >= Len(f)

\* readRawData(): the next bytes of it
NextBytes(f) == [i \in 1..Least(Chunk, Len(f) - offset) |-> f[offset + i]]

\* The versions of the file its stream may be reading from: buffered or not.
Versions == IF touched THEN FileData ELSE {file}

\* Variant: what fails is tried again.
TriesAgain == FALSE

\* ~SQLiteIO(): outside a transaction the bytes are committed when the blob is
\* closed.  If that fails they are taken back, all of them, and nobody is told.
Closed == {cell, Zeros(Len(cell))}

\* A read or a write fails, and the method with it.
GivesUp == Returns("false") /\ UNCHANGED file

\* One round of the import's loop.  A read that fails asks for -1 bytes to be
\* written, which is refused.
ImportChunk ==
  /\ job = "import" /\ answer = "none"
  /\ \/ \E f \in Versions :
          \/ AtEnd(f) /\ Returns("true") /\ UNCHANGED file /\ cell' \in Closed
          \/ /\ ~AtEnd(f) /\ Fits(Len(NextBytes(f)))
             /\ cell' = Written(NextBytes(f))
             /\ offset' = offset + Len(NextBytes(f))
             /\ UNCHANGED <<job, answer, file, touched>>
     \/ GivesUp /\ cell' \in Closed

\* Another program changes the file that is being imported.
Touch ==
  /\ job = "import" /\ answer = "none"
  /\ touched' = TRUE
  /\ UNCHANGED <<job, answer, file, cell, offset>>

-----------------------------------------------------------------------------
\* exportCellToFile() and getCellRawData() of a cell that holds c: the file is
\* emptied before the blob is opened, which may fail.
CopyOut(kind, c) ==
  /\ Idle
  /\ job' = kind /\ offset' = 0 /\ touched' = FALSE
  /\ cell' = c /\ file' = <<>>
  /\ answer' \in {"none", "false"}

\* Variant: the loop stops one byte short of the size.
BytesLeftButOne == Len(cell) - 1 - offset

BytesLeft == Len(cell) - offset

\* One round of their loops.  A file takes what there is room for, and nobody
\* looks how much that was.
CopyChunk ==
  /\ job \in {"export", "view"} /\ answer = "none"
  /\ IF BytesLeft <= 0 THEN Returns("true") /\ UNCHANGED <<file, cell>>
     ELSE LET size == Least(BytesLeft, Chunk) IN
          \/ GivesUp /\ UNCHANGED cell
          \/ \E n \in 0..size :
               /\ job = "view" => n = size
               /\ file' = file \o [i \in 1..n |-> cell[offset + i]]
               /\ touched' = (touched \/ n < size)
               /\ offset' = offset + (IF job = "export" THEN Chunk ELSE size)
               /\ UNCHANGED <<job, answer, cell>>

\* The slot shows the answer and is left.
Return ==
  /\ ~Idle /\ answer # "none"
  /\ job' = "none" /\ answer' = "none"
  /\ file' = <<>> /\ cell' = <<>> /\ offset' = 0 /\ touched' = FALSE

Start ==
  \/ \E f \in FileData : Import(f)
  \/ \E kind \in {"export", "view"}, c \in CellData : CopyOut(kind, c)

Running == ImportChunk \/ CopyChunk \/ Return

Next == Start \/ Running \/ Touch

Spec == Init /\ [][Next]_vars

-----------------------------------------------------------------------------
CellFileTypeOK ==
  /\ job \in {"none", "import", "export", "view"}
  /\ answer \in {"none", "true", "false"}
  /\ file \in Seq(Bytes) /\ cell \in Seq(Bytes)
  /\ offset \in Nat
  /\ touched \in BOOLEAN

\* updateCellWithFile() reserves the size of the file in an int, writes in
\* chunks, and does not learn whether closing the blob committed them, although
\* the engine would say so (sqlite3.h:4905).  Whatever the size is modulo the chunk
\* and the width of an int: after an import that reports success, of a file nobody
\* changed meanwhile, the cell has the size of the file and holds all of it or, its
\* bytes taken back, none: never a part.
ImportStoresFile ==
  job = "import" /\ answer = "true" /\ ~touched => cell \in {file, Zeros(Len(file))}

\* exportCellToFile() counts by whole chunks, getCellRawData() by what it read.
\* Both deliver the cell, empty or of any size, when they report success and
\* the file took every byte.
ExportDeliversCell ==
  job \in {"export", "view"} /\ answer = "true" /\ ~touched => file = cell

\* The import's loop asks the file, which others may make longer as fast as it
\* is read, when to stop (in.atEnd()).  The slot, and with it the GUI, comes
\* back all the same: the blob does not grow.
SlotsReturn == job # "none" ~> job = "none"
=============================================================================
