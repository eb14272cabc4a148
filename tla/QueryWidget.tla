---------------------------- MODULE QueryWidget -----------------------------
(***************************************************************************)
(* The SQL editor (querywidget.cpp) and the highlighter of its keywords    *)
(* (queryhighlighter.cpp), which QTextDocument calls for each line of text *)
(* (block) that is changed.                                                *)
(***************************************************************************)
EXTENDS Integers, Sequences

CONSTANTS
  Lines,         \* the lines of text there may be
  DefaultQuery,  \* the line the editor holds when it is disabled
  Separators,    \* m_separators
  Keywords,      \* m_keywords
  toUpper        \* the capital of each character

VARIABLES enabled, line, blue   \* the editor, its line, the places set in blue

vars == <<enabled, line, blue>>

\* Sequences of characters, each of which has a capital.
LinesAssumption == DefaultQuery \in Seq(DOMAIN toUpper) /\ Lines \subseteq Seq(DOMAIN toUpper)

-----------------------------------------------------------------------------
mid(text, start, end) == SubSeq(text, start, end - 1)

IsKeyword(word) == [i \in DOMAIN word |-> toUpper[word[i]]] \in Keywords

\* setFormat() of the word that begins at loop.start and ends before end
EndOfWord(text, loop, end) ==
  IF IsKeyword(mid(text, loop.start, end)) THEN loop.blue \cup (loop.start..end - 1)
  ELSE loop.blue

\* Variant: a word at the end of the line is forgotten.
EndOfLineForgotten(text, loop) == loop.blue

EndOfLine(text, loop) ==
  IF loop.start = 0 THEN loop.blue ELSE EndOfWord(text, loop, Len(text) + 1)

\* One round of the loop over the characters.  loop.start is 0 in state
\* FindingStart, and where the word starts in state FindingEnd.
Round(text, loop, i) ==
  CASE loop.start = 0 /\ text[i] \notin Separators -> [loop EXCEPT !.start = i]
    [] loop.start # 0 /\ text[i] \in Separators ->
         [start |-> 0, blue |-> EndOfWord(text, loop, i)]
    [] OTHER -> loop

highlightBlock(text) ==
  LET loop[i \in 0..Len(text)] ==
        IF i = 0 THEN [start |-> 0, blue |-> {}] ELSE Round(text, loop[i - 1], i)
  IN  EndOfLine(text, loop[Len(text)])

-----------------------------------------------------------------------------
Shows(text) == line' = text /\ blue' = highlightBlock(text)

Init == enabled = FALSE /\ line = DefaultQuery /\ blue = highlightBlock(DefaultQuery)

active == enabled' = TRUE /\ UNCHANGED <<line, blue>>

\* inactive() and, with db, the active() that follows it in a Save As: the SQL
\* is lost in both.
Inactive(db) == enabled' = db /\ Shows(DefaultQuery)

inactive == Inactive(FALSE)

Edit(text) == enabled /\ Shows(text) /\ UNCHANGED enabled

Next == active \/ Inactive(TRUE) \/ inactive \/ \E text \in Lines : Edit(text)

Spec == Init /\ [][Next]_vars

-----------------------------------------------------------------------------
\* The words of a text: a longest run of characters that are no separators.
IsWord(text, i, j) ==
  /\ 1 <= i /\ i <= j /\ j <= Len(text)
  /\ \A k \in i..j : text[k] \notin Separators
  /\ i = 1 \/ text[i - 1] \in Separators
  /\ j = Len(text) \/ text[j + 1] \in Separators

\* highlightBlock() ends its loop before the last word does, and handles that
\* word after it.  Blue are the keywords, in any case of letters, whole words
\* only, wherever they stand in the line, and nothing else.
BlueAreKeywords ==
  blue = {k \in DOMAIN line : \E i, j \in DOMAIN line :
            k \in i..j /\ IsWord(line, i, j) /\ IsKeyword(SubSeq(line, i, j))}
=============================================================================
