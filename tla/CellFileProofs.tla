--------------------------- MODULE CellFileProofs ---------------------------
(***************************************************************************)
(* Proofs about CellFile, for files, cells, chunks and ints of any size.   *)
(***************************************************************************)
EXTENDS CellFile, SequenceTheorems, TLAPS

\* What the import's loop has done after any number of rounds: the blob is no
\* larger than the file, and its first bytes are the file's until it is closed.
ImportInv ==
  job = "import" /\ answer # "false" /\ ~touched =>
    /\ offset <= Len(file) /\ offset <= Len(cell)
    /\ Len(cell) <= Len(file)
    /\ (\A i \in 1..offset : cell[i] = file[i])
         \/ (answer = "true" /\ cell = Zeros(Len(cell)))
    /\ answer = "true" => offset = Len(file)

\* What the other two loops have done: everything up to offset is delivered,
\* offset may be past the end.
CopyInv ==
  job \in {"export", "view"} /\ answer # "false" /\ ~touched =>
    /\ Len(file) = Least(offset, Len(cell))
    /\ \A i \in 1..Len(file) : file[i] = cell[i]
    /\ answer = "true" => offset >= Len(cell)

ChunksInv == CellFileTypeOK /\ ImportInv /\ CopyInv

-----------------------------------------------------------------------------
\* A blob is never made larger than the file it is for, however the file's
\* size is cut down to an int.
LEMMA BlobNoLarger ==
  ASSUME CellFileAssumption, NEW n \in Nat
  PROVE  BlobSize(n) \in Nat /\ BlobSize(n) <= n
<1>1. n % IntSpan \in Nat /\ n % IntSpan <= n
  BY SMT DEF CellFileAssumption
<1>2. QED
  BY <1>1, SMT DEF BlobSize, AsInt, CellFileAssumption

LEMMA ZerosAreBytes ==
  ASSUME CellFileAssumption, NEW n \in Nat
  PROVE  Zeros(n) \in Seq(Bytes) /\ Len(Zeros(n)) = n
BY SMT DEF Zeros, CellFileAssumption

\* The bytes of a version of the file that the loop reads next.
LEMMA NextBytesAreTheFiles ==
  ASSUME CellFileAssumption, CellFileTypeOK, NEW f \in Seq(Bytes), ~AtEnd(f)
  PROVE  /\ NextBytes(f) \in Seq(Bytes)
         /\ Len(NextBytes(f)) \in Nat \ {0}
         /\ offset + Len(NextBytes(f)) <= Len(f)
         /\ \A i \in 1..Len(NextBytes(f)) : NextBytes(f)[i] = f[offset + i]
<1> DEFINE n == Least(Chunk, Len(f) - offset)
<1>1. n \in Nat \ {0} /\ offset + n <= Len(f)
  BY SMT DEF CellFileTypeOK, AtEnd, Least, CellFileAssumption
<1>2. \A i \in 1..n : offset + i \in 1..Len(f) /\ f[offset + i] \in Bytes
  BY <1>1, SMT DEF CellFileTypeOK
<1>3. NextBytes(f) = [i \in 1..n |-> f[offset + i]]
  BY DEF NextBytes
<1> HIDE DEF n
<1>4. NextBytes(f) \in Seq(Bytes) /\ Len(NextBytes(f)) = n
  BY <1>1, <1>2, <1>3, SMT
<1>5. QED
  BY <1>1, <1>3, <1>4, SMT

\* SQLiteIO::write of data that fits.
LEMMA WrittenIsTheCell ==
  ASSUME CellFileTypeOK, NEW data \in Seq(Bytes), Fits(Len(data))
  PROVE  /\ Written(data) \in Seq(Bytes)
         /\ Len(Written(data)) = Len(cell)
         /\ \A i \in 1..offset : Written(data)[i] = cell[i]
         /\ \A i \in 1..Len(data) : Written(data)[offset + i] = data[i]
<1>1. \A i \in 1..Len(cell) :
        (IF i > offset /\ i <= offset + Len(data) THEN data[i - offset] ELSE cell[i]) \in Bytes
  <2>1. SUFFICES ASSUME NEW i \in 1..Len(cell), i > offset, i <= offset + Len(data)
                 PROVE  data[i - offset] \in Bytes
    BY SMT DEF CellFileTypeOK
  <2>2. i - offset \in 1..Len(data)
    BY <2>1, SMT DEF CellFileTypeOK
  <2>3. QED
    BY <2>2, SMT
<1>2. Written(data) \in Seq(Bytes) /\ Len(Written(data)) = Len(cell)
  BY <1>1, SMT DEF Written, CellFileTypeOK
<1>3. \A i \in 1..offset : Written(data)[i] = cell[i]
  BY SMT DEF Written, Fits, CellFileTypeOK
<1>4. ASSUME NEW i \in 1..Len(data) PROVE Written(data)[offset + i] = data[i]
  <2>1. offset + i \in 1..Len(cell) /\ offset + i > offset /\ offset + i <= offset + Len(data)
    BY SMT DEF Fits, CellFileTypeOK
  <2>2. (offset + i) - offset = i
    BY SMT DEF CellFileTypeOK
  <2>3. QED
    BY <2>1, <2>2, SMT DEF Written
<1>5. QED
  BY <1>2, <1>3, <1>4

-----------------------------------------------------------------------------
LEMMA ChunksInit == Init => ChunksInv
<1>1. <<>> \in Seq(Bytes) /\ 0 \in Nat
  BY SMT
<1>2. QED
  BY <1>1, Zenon DEF Init, ChunksInv, CellFileTypeOK, ImportInv, CopyInv

LEMMA ImportStep ==
  ASSUME CellFileAssumption, NEW f \in FileData, Import(f)
  PROVE  ChunksInv'
<1>1. f \in Seq(Bytes) /\ Len(f) \in Nat
  BY SMT DEF CellFileAssumption
<1>2. BlobSize(Len(f)) \in Nat /\ BlobSize(Len(f)) <= Len(f)
  BY <1>1, BlobNoLarger
<1>3. Zeros(BlobSize(Len(f))) \in Seq(Bytes) /\ Len(Zeros(BlobSize(Len(f)))) = BlobSize(Len(f))
  BY <1>2, ZerosAreBytes
<1>4. cell' \in Seq(Bytes)
  BY <1>3, SMT DEF Import, CellFileAssumption
<1>5. CellFileTypeOK'
  BY <1>1, <1>4, Zenon DEF Import, CellFileTypeOK
<1>6. ImportInv'
  BY <1>1, <1>2, <1>3, SMT DEF Import, ImportInv
<1>7. CopyInv'
  BY SMT DEF Import, CopyInv
<1>8. QED
  BY <1>5, <1>6, <1>7 DEF ChunksInv

LEMMA ImportChunkStep ==
  ASSUME CellFileAssumption, ChunksInv, ImportChunk
  PROVE  ChunksInv'
<1>1. CellFileTypeOK /\ ImportInv /\ job = "import" /\ answer = "none"
  BY DEF ChunksInv, ImportChunk
<1>a. ASSUME cell' \in Closed
      PROVE  /\ cell' \in Seq(Bytes) /\ Len(cell') = Len(cell)
             /\ cell' = cell \/ cell' = Zeros(Len(cell'))
  <2>1. cell \in Seq(Bytes) /\ Len(cell) \in Nat
    BY <1>1 DEF CellFileTypeOK
  <2>2. Zeros(Len(cell)) \in Seq(Bytes) /\ Len(Zeros(Len(cell))) = Len(cell)
    BY <2>1, ZerosAreBytes
  <2>3. QED
    BY <1>a, <2>1, <2>2 DEF Closed
<1>2. CASE GivesUp /\ cell' \in Closed
  <2>1. cell' \in Seq(Bytes)
    BY <1>2, <1>a
  <2>2. CellFileTypeOK'
    BY <1>1, <1>2, <2>1, Zenon DEF GivesUp, Returns, CellFileTypeOK
  <2>3. QED
    BY <1>1, <1>2, <2>2 DEF GivesUp, Returns, ChunksInv, ImportInv, CopyInv
<1>3. ASSUME NEW f \in Versions, AtEnd(f), Returns("true"), UNCHANGED file, cell' \in Closed
      PROVE  ChunksInv'
  <2>1. touched \/ f = file
    BY <1>3 DEF Versions
  <2>a. /\ cell' \in Seq(Bytes) /\ Len(cell') = Len(cell)
        /\ cell' = cell \/ cell' = Zeros(Len(cell'))
    BY <1>3, <1>a
  <2>2. CellFileTypeOK'
    BY <1>1, <1>3, <2>a, Zenon DEF Returns, CellFileTypeOK
  <2>3. ImportInv'
    <3>1. SUFFICES ASSUME ~touched PROVE ImportInv'
      BY <1>3 DEF Returns, ImportInv
    <3>2. /\ offset <= Len(file) /\ offset <= Len(cell) /\ Len(cell) <= Len(file)
          /\ \A i \in 1..offset : cell[i] = file[i]
      BY <1>1, <3>1 DEF ImportInv
    <3>3. offset = Len(file)
      BY <1>1, <1>3, <2>1, <3>1, <3>2, SMT DEF AtEnd, CellFileTypeOK
    <3>4. /\ offset' = offset /\ file' = file /\ answer' = "true"
      BY <1>3 DEF Returns
    <3> QED
      BY <2>a, <3>2, <3>3, <3>4 DEF ImportInv
  <2>4. CopyInv'
    BY <1>1, <1>3, SMT DEF Returns, CopyInv
  <2>5. QED
    BY <2>2, <2>3, <2>4 DEF ChunksInv
<1>4. ASSUME NEW f \in Versions, ~AtEnd(f), Fits(Len(NextBytes(f))),
             cell' = Written(NextBytes(f)),
             offset' = offset + Len(NextBytes(f)),
             UNCHANGED <<job, answer, file, touched>>
      PROVE  ChunksInv'
  <2> DEFINE data == NextBytes(f)
  <2>1. f \in Seq(Bytes) /\ (touched \/ f = file)
    BY <1>1, SMT DEF Versions, CellFileTypeOK, CellFileAssumption
  <2>2. /\ data \in Seq(Bytes) /\ Len(data) \in Nat \ {0}
        /\ offset + Len(data) <= Len(f)
        /\ \A i \in 1..Len(data) : data[i] = f[offset + i]
    BY <1>1, <1>4, <2>1, NextBytesAreTheFiles
  <2>3. /\ Written(data) \in Seq(Bytes) /\ Len(Written(data)) = Len(cell)
        /\ \A i \in 1..offset : Written(data)[i] = cell[i]
        /\ \A i \in 1..Len(data) : Written(data)[offset + i] = data[i]
    BY <1>1, <1>4, <2>2, WrittenIsTheCell
  <2>4. Fits(Len(data)) /\ cell' = Written(data) /\ offset' = offset + Len(data)
    BY <1>4
  <2> HIDE DEF data
  <2>5. CellFileTypeOK'
    BY <1>1, <1>4, <2>2, <2>3, <2>4, SMT DEF CellFileTypeOK
  <2>6. ASSUME ~touched' PROVE \A i \in 1..offset' : cell'[i] = file'[i]
    <3>1. SUFFICES ASSUME NEW i \in 1..offset' PROVE cell'[i] = file'[i]
      OBVIOUS
    <3>2. f = file /\ file' = file /\ offset \in Nat
      BY <1>1, <1>4, <2>1, <2>6 DEF CellFileTypeOK
    <3>3. CASE i \in 1..offset
      BY <1>1, <1>4, <2>3, <2>4, <2>6, <3>2, <3>3 DEF ImportInv
    <3>4. CASE i \notin 1..offset
      <4>1. i - offset \in 1..Len(data) /\ offset + (i - offset) = i
        BY <2>2, <2>4, <3>1, <3>2, <3>4, SMT
      <4>2. QED
        BY <2>2, <2>3, <2>4, <3>2, <4>1
    <3>5. QED
      BY <3>3, <3>4
  <2>7. ImportInv'
    BY <1>1, <1>4, <2>1, <2>2, <2>3, <2>4, <2>6, SMT DEF ImportInv, Fits, CellFileTypeOK
  <2>8. CopyInv'
    BY <1>1, <1>4, SMT DEF CopyInv
  <2>9. QED
    BY <2>5, <2>7, <2>8 DEF ChunksInv
<1>5. QED
  BY <1>2, <1>3, <1>4 DEF ImportChunk

LEMMA CopyOutStep ==
  ASSUME CellFileAssumption, NEW kind \in {"export", "view"}, NEW c \in CellData, CopyOut(kind, c)
  PROVE  ChunksInv'
<1>1. c \in Seq(Bytes)
  BY DEF CellFileAssumption
<1>2. CellFileTypeOK'
  <2>1. <<>> \in Seq(Bytes) /\ 0 \in Nat
    BY SMT
  <2>2. QED
    BY <1>1, <2>1, Zenon DEF CopyOut, CellFileTypeOK
<1>3. ImportInv' /\ CopyInv'
  BY <1>1, SMT DEF CopyOut, ImportInv, CopyInv, Least
<1>4. QED
  BY <1>2, <1>3 DEF ChunksInv

LEMMA CopyChunkStep ==
  ASSUME CellFileAssumption, ChunksInv, CopyChunk
  PROVE  ChunksInv'
<1>1. CellFileTypeOK /\ CopyInv /\ job \in {"export", "view"} /\ answer = "none"
  BY DEF ChunksInv, CopyChunk
<1>2. CASE GivesUp /\ UNCHANGED cell
  BY <1>1, <1>2, SMT DEF GivesUp, Returns, ChunksInv, CellFileTypeOK, ImportInv, CopyInv
<1>3. CASE BytesLeft <= 0 /\ Returns("true") /\ UNCHANGED <<file, cell>>
  BY <1>1, <1>3, SMT DEF BytesLeft, Returns, ChunksInv, CellFileTypeOK, ImportInv, CopyInv
<1>4. ASSUME BytesLeft > 0, NEW n \in 0..Least(BytesLeft, Chunk),
             job = "view" => n = Least(BytesLeft, Chunk),
             file' = file \o [i \in 1..n |-> cell[offset + i]],
             touched' = (touched \/ n < Least(BytesLeft, Chunk)),
             offset' = offset + (IF job = "export" THEN Chunk ELSE Least(BytesLeft, Chunk)),
             UNCHANGED <<job, answer, cell>>
      PROVE  ChunksInv'
  <2> DEFINE size == Least(BytesLeft, Chunk)
             data == [i \in 1..n |-> cell[offset + i]]
  <2>1. size \in Nat \ {0} /\ size <= Chunk /\ offset + size <= Len(cell)
        /\ (size = Chunk \/ offset + size = Len(cell)) /\ n \in Nat /\ n <= size
    BY <1>1, <1>4, SMT DEF BytesLeft, Least, CellFileTypeOK, CellFileAssumption
  <2>2. \A i \in 1..n : offset + i \in 1..Len(cell) /\ cell[offset + i] \in Bytes
    BY <1>1, <2>1, SMT DEF CellFileTypeOK
  <2>3. data \in Seq(Bytes) /\ Len(data) = n
    BY <2>1, <2>2, SMT
  <2>4. \A i \in 1..n : data[i] = cell[offset + i]
    OBVIOUS
  <2>5. file' = file \o data /\ touched' = (touched \/ n < size)
        /\ offset' = offset + (IF job = "export" THEN Chunk ELSE size)
    BY <1>4
  <2> HIDE DEF size, data
  <2>6. /\ file' \in Seq(Bytes) /\ Len(file') = Len(file) + n
        /\ \A i \in 1..Len(file) : file'[i] = file[i]
        /\ \A i \in 1..n : file'[Len(file) + i] = data[i]
    <3>1. file \in Seq(Bytes) /\ data \in Seq(Bytes) /\ Len(data) = n
      BY <1>1, <2>3 DEF CellFileTypeOK
    <3>2. /\ file \o data \in Seq(Bytes) /\ Len(file \o data) = Len(file) + n
          /\ \A i \in 1..Len(file) + n :
               (file \o data)[i] = IF i <= Len(file) THEN file[i] ELSE data[i - Len(file)]
      BY <3>1, ConcatProperties
    <3>3. ASSUME NEW i \in 1..n PROVE (file \o data)[Len(file) + i] = data[i]
      <4>1. /\ Len(file) + i \in 1..Len(file) + n /\ ~(Len(file) + i <= Len(file))
            /\ (Len(file) + i) - Len(file) = i
        BY <2>1, <3>1, SMT
      <4>2. QED
        BY <3>2, <4>1
    <3>4. ASSUME NEW i \in 1..Len(file) PROVE (file \o data)[i] = file[i]
      <4>1. i \in 1..Len(file) + n /\ i <= Len(file)
        BY <2>1, <3>1, SMT
      <4>2. QED
        BY <3>2, <4>1
    <3>5. QED
      BY <2>5, <3>2, <3>3, <3>4
  <2>7. CellFileTypeOK'
    <3>1. offset' \in Nat
      BY <1>1, <2>1, <2>5, SMT DEF CellFileTypeOK, CellFileAssumption
    <3>2. touched' \in BOOLEAN
      BY <2>5, Zenon
    <3>3. QED
      BY <1>1, <1>4, <2>6, <3>1, <3>2, Zenon DEF CellFileTypeOK
  <2>8. ImportInv'
    BY <1>1, <1>4 DEF ImportInv
  <2>9. ASSUME ~touched'
        PROVE  /\ Len(file') = Least(offset', Len(cell'))
               /\ \A i \in 1..Len(file') : file'[i] = cell'[i]
    <3>1. ~touched /\ n = size
      <4>1. ~touched /\ ~(n < size)
        BY <2>5, <2>9, Zenon
      <4>2. QED
        BY <2>1, <4>1, SMT
    <3>2. Len(file) = offset /\ \A i \in 1..Len(file) : file[i] = cell[i]
      BY <1>1, <2>1, <3>1, SMT DEF CopyInv, Least, CellFileTypeOK
    <3>3. Len(file') = Least(offset', Len(cell'))
      <4>1. Len(file') = offset + size /\ cell' = cell
        BY <1>4, <2>6, <3>1, <3>2
      <4>2. offset' = offset + Chunk \/ offset' = offset + size
        BY <2>5
      <4>3. QED
        BY <1>1, <2>1, <4>1, <4>2, SMT DEF Least, CellFileTypeOK, CellFileAssumption
    <3>4. ASSUME NEW i \in 1..Len(file') PROVE file'[i] = cell'[i]
      <4>1. CASE i \in 1..Len(file)
        BY <1>4, <2>6, <3>2, <4>1
      <4>2. CASE i \notin 1..Len(file)
        <5>1. i - offset \in 1..n /\ offset + (i - offset) = i
          BY <1>1, <2>1, <2>6, <3>2, <3>4, <4>2, SMT DEF CellFileTypeOK
        <5>2. QED
          BY <1>4, <2>4, <2>6, <3>2, <5>1
      <4>3. QED
        BY <4>1, <4>2
    <3>5. QED
      BY <3>3, <3>4
  <2>10. CopyInv'
    BY <1>1, <1>4, <2>9 DEF CopyInv
  <2>11. QED
    BY <2>7, <2>8, <2>10 DEF ChunksInv
<1>5. CASE BytesLeft <= 0
  BY <1>2, <1>3, <1>5 DEF CopyChunk
<1>6. CASE ~(BytesLeft <= 0)
  <2>1. BytesLeft > 0
    BY <1>1, <1>6, SMT DEF BytesLeft, CellFileTypeOK
  <2>2. QED
    BY <1>2, <1>4, <1>6, <2>1 DEF CopyChunk
<1>7. QED
  BY <1>5, <1>6

LEMMA ChunksStep ==
  ASSUME CellFileAssumption, ChunksInv, [Next]_vars
  PROVE  ChunksInv'
<1>1. CASE Start
  BY <1>1, ImportStep, CopyOutStep DEF Start
<1>2. CASE ImportChunk
  BY <1>2, ImportChunkStep
<1>3. CASE CopyChunk
  BY <1>3, CopyChunkStep
<1>4. CASE Return
  <2>1. <<>> \in Seq(Bytes) /\ 0 \in Nat
    BY SMT
  <2>2. QED
    BY <1>4, <2>1, Zenon DEF Return, ChunksInv, CellFileTypeOK, ImportInv, CopyInv
<1>5. CASE Touch
  BY <1>5, SMT DEF Touch, ChunksInv, CellFileTypeOK, ImportInv, CopyInv
<1>6. CASE UNCHANGED vars
  BY <1>6 DEF vars, ChunksInv, CellFileTypeOK, ImportInv, CopyInv, Least
<1>7. QED
  BY <1>1, <1>2, <1>3, <1>4, <1>5, <1>6 DEF Next, Running

LEMMA ChunksImply == ChunksInv => ImportStoresFile /\ ExportDeliversCell
<1>1. SUFFICES ASSUME ChunksInv PROVE ImportStoresFile /\ ExportDeliversCell
  OBVIOUS
<1>2. file \in Seq(Bytes) /\ cell \in Seq(Bytes) /\ offset \in Nat
  BY <1>1 DEF ChunksInv, CellFileTypeOK
<1>3. ASSUME job = "import", answer = "true", ~touched
      PROVE  cell \in {file, Zeros(Len(file))}
  <2>1. /\ offset = Len(file) /\ offset <= Len(cell) /\ Len(cell) <= Len(file)
        /\ (\A i \in 1..offset : cell[i] = file[i]) \/ cell = Zeros(Len(cell))
    BY <1>1, <1>3 DEF ChunksInv, ImportInv
  <2>2. Len(cell) = Len(file)
    BY <1>2, <2>1, SMT
  <2>3. (\A i \in 1..Len(cell) : cell[i] = file[i]) => cell = file
    BY <1>2, <2>2, SMT
  <2>4. QED
    BY <2>1, <2>2, <2>3
<1>4. ASSUME job \in {"export", "view"}, answer = "true", ~touched PROVE file = cell
  <2>1. Len(cell) = Len(file) /\ \A i \in 1..Len(file) : file[i] = cell[i]
    BY <1>1, <1>2, <1>4, SMT DEF ChunksInv, CopyInv, Least
  <2>2. QED
    BY <1>2, <2>1, SMT
<1>5. QED
  BY <1>3, <1>4 DEF ImportStoresFile, ExportDeliversCell

\* updateCellWithFile(), exportCellToFile() and getCellRawData() keep the
\* invariant of their loops, for any chunk, any width of an int, any files.
THEOREM LoopsKeepInvariant ==
  ASSUME CellFileAssumption
  PROVE  Spec => []ChunksInv
<1>1. ChunksInv /\ [Next]_vars => ChunksInv'
  BY ChunksStep
<1>2. QED
  BY <1>1, ChunksInit, PTL DEF Spec

\* After an import that reports success, of a file that nobody changed while it
\* was read, the cell holds exactly the file or, when closing the blob failed,
\* zeros in its place, whatever its size: never a part of it.
THEOREM ImportsAreWhole ==
  ASSUME CellFileAssumption
  PROVE  Spec => []ImportStoresFile
BY LoopsKeepInvariant, ChunksImply, PTL

\* An export or a view that reports success, and whose file took every byte,
\* has delivered exactly the cell.
THEOREM ExportsAreWhole ==
  ASSUME CellFileAssumption
  PROVE  Spec => []ExportDeliversCell
BY LoopsKeepInvariant, ChunksImply, PTL
=============================================================================
