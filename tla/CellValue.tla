----------------------------- MODULE CellValue ------------------------------
(***************************************************************************)
(* What the engine is given of a text that was typed into a cell:          *)
(* updateTableCell and insertTableRow (core/sqlite.cpp) over the bindings  *)
(* of SQLiteStmt.  What it makes of that is the engine's own.              *)
(***************************************************************************)
EXTENDS Integers, SequencesExt

CONSTANTS
  Typed,      \* the texts: sequences of QChars, 16 bits each
  asInt, asLongLong, asDouble,   \* the numbers of the texts that are numbers: a
                                 \* function for toInt(), toLongLong(), toDouble()
  NoString    \* a null QString, and no text at all

VARIABLES
  typed,   \* the text saved last
  bound    \* what the engine was given for it

vars == <<typed, bound>>

QChar == 1..65535

TextsAssumption ==
  /\ Typed \subseteq Seq(QChar) /\ NoString \notin Typed
  /\ DOMAIN asInt \subseteq DOMAIN asLongLong
  /\ \A text \in DOMAIN asInt : asInt[text] = asLongLong[text]

\* data: the bytes of a text, or the one number.
Value(kind, data) == [kind |-> kind, data |-> data]

Nothing == Value("null", <<>>)

-----------------------------------------------------------------------------
Byte == 0..255

QuestionMark == 63

\* Nobody sets a codec: a QString is converted to Latin-1 and back, a byte for
\* each QChar.  The QChars that have none become question marks, those of a
\* surrogate pair one each.
toStdString(text) ==
  [i \in 1..Len(text) |-> IF text[i] \in Byte THEN text[i] ELSE QuestionMark]

\* SQLiteStmt::getString: a QString of bytes, which are Latin-1 again.  The QChar
\* of a byte is the one of the same number.
getString(bytes) == bytes

\* Variant: UTF-8, of which as many bytes are bound as the text has QChars.
bindTextUtf8(text) ==
  LET utf8(c) == IF c < 128 THEN <<c>> ELSE <<192 + (c \div 64), 128 + (c % 64)>>
  IN  Value("text", SubSeq(FlattenSeq([i \in 1..Len(text) |-> utf8(text[i])]), 1, Len(text)))

bindText(text) == Value("text", SubSeq(toStdString(text), 1, Len(text)))

\* Variant: whatever is a double is bound as one.
bindConvertAnyDouble(text) ==
  CASE text \in DOMAIN asInt -> Value("int", <<asInt[text]>>)
    [] text \in DOMAIN asDouble -> Value("double", <<asDouble[text]>>)
    [] OTHER -> bindText(text)

\* An int, or else 64 bits, or else a double, or else a text.
bindConvert(text) ==
  CASE text \in DOMAIN asInt -> Value("int", <<asInt[text]>>)
    [] text \notin DOMAIN asInt /\ text \in DOMAIN asLongLong ->
         Value("int64", <<asLongLong[text]>>)
    [] text \notin DOMAIN asInt \cup DOMAIN asLongLong /\ text \in DOMAIN asDouble ->
         Value("double", <<asDouble[text]>>)
    [] OTHER -> bindText(text)

Bound(text, hasAffinity) ==
  IF text = NoString THEN Nothing
  ELSE IF hasAffinity THEN bindText(text) ELSE bindConvert(text)

-----------------------------------------------------------------------------
Init == typed = NoString /\ bound = Nothing

\* The column has a declared type or not.  getTableInfo() may have ended before
\* it came to the column: hasAffinity is then whatever the stack held.
Save(text) ==
  \E hasAffinity \in BOOLEAN : typed' = text /\ bound' = Bound(text, hasAffinity)

Clear == typed' = NoString /\ bound' = Nothing

Next == Clear \/ \E text \in Typed \cup {NoString} : Save(text)

Spec == Init /\ [][Next]_vars

-----------------------------------------------------------------------------
\* bindText() takes the bytes from one conversion and their number from the
\* QString, getString() converts back.  Whatever column a text is saved to, if
\* it is bound as a text it would read as it was typed: no QChar is lost, none
\* moves, only one that no byte stands for reads as a question mark.  So a text
\* that was read from the database, whatever its bytes mean to other programs,
\* goes back byte for byte.
TextsComeBack ==
  bound.kind = "text" =>
    getString(bound.data) =
      [i \in DOMAIN typed |-> IF typed[i] \in Byte THEN typed[i] ELSE QuestionMark]

\* bindConvert() finds a text to be an int, 64 bits and a double at once.  An
\* integer of up to 64 bits never goes through a double, which would round it.
IntegersAreExact ==
  bound.kind \in {"int", "int64", "double"} /\ typed \in DOMAIN asLongLong =>
    bound.data = <<asLongLong[typed]>>
=============================================================================
