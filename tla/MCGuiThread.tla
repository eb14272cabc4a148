---------------------------- MODULE MCGuiThread -----------------------------
(***************************************************************************)
(* A small instance of GuiThread for TLC.                                  *)
(***************************************************************************)
EXTENDS GuiThread, TLC

CONSTANTS mode, like, on, off, wal, On, Off, Yes, none

\* The files and cells: the first bytes of 1, 2, 3, ...  Zero is none of them,
\* so that a byte in the wrong place is seen.
CONSTANTS MaxBytes
Upto(n) == [i \in 1..n |-> i]
SmallFiles == {Upto(n) : n \in (0..IntSpan \div 2 + 1) \cup (IntSpan..MaxBytes)}
SmallCells == {Upto(n) : n \in 0..2 * Chunk}
SmallBytes == 0..MaxBytes

\* All lines of at most MaxLine characters: a separator, a letter and its capital.
CONSTANTS MaxLine
SmallLines == UNION {[1..n -> {" ", "k", "K"}] : n \in 0..MaxLine}
Capital == [c \in {" ", "k", "K"} |-> IF c = "k" THEN "K" ELSE c]
SmallKeywords == {<<"K">>, <<"K", "K">>}
EmptyLine == <<>>

\* No rows, or three rows of up to three columns, each value another.
SmallStrings == (0..3) \X (1..3)
Row(i, n) == [names |-> [j \in 1..n |-> <<0, j>>], data |-> [j \in 1..n |-> <<i, j>>]]
SmallResults ==
  {[i \in DOMAIN widths |-> Row(i, widths[i])] : widths \in {<<>>} \cup [1..3 -> 1..3]}

\* Two texts that say the same, and a value that no text stands for.
TextForSmall == (on :> On) @@ (off :> Off) @@ (wal :> none)
MeaningSmall == (On :> on) @@ (Yes :> on) @@ (Off :> off)
AllOff == [p \in Pragmas |-> off]
AllSayOff == [p \in Pragmas |-> Off]

\* All texts of up to two characters, and a number of three: a digit, a letter, the
\* last character that has a byte and the first that has none.  An int has one
\* digit, 64 bits have two, and a double rounds what has more than one.
Nine == 57
SmallTyped == UNION {[1..n -> {Nine, 97, 255, 256}] : n \in 0..2} \cup {<<Nine, Nine, Nine>>}
Ints == <<Nine>> :> 9
LongLongs == Ints @@ (<<Nine, Nine>> :> 99)
Doubles == Ints @@ (<<Nine, Nine>> :> 100) @@ (<<Nine, Nine, Nine>> :> 1000)

\* The pragma dialog, the editor, the result set, a cell's value, and the memory
\* dialog with the slots that keep its timer waiting, meet in the signals of the
\* main window only.  To keep the instance small all but one are at rest.
PragmasAtRest == ~pragmasShown /\ ~connected /\ pragma = AllOff
EditorAtRest == line = DefaultQuery
ResultsAtRest == m_rows = <<>>
ValueAtRest == bound = CellValue!Nothing
MemoryAtRest ==
  /\ ~memoryShown /\ ~timer /\ used = 0 /\ high = 0 /\ numbers = <<0, 0>>
  /\ CellFile!Idle
AtRest == <<PragmasAtRest, EditorAtRest, ResultsAtRest, ValueAtRest, MemoryAtRest>>
OneAtATime == \E i \in 1..5 : \A j \in (1..5) \ {i} : AtRest[j]

MCInit == Init /\ OneAtATime
MCSpec == MCInit /\ [][Next /\ OneAtATime']_vars /\ Fairness
=============================================================================
