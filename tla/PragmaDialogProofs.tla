------------------------- MODULE PragmaDialogProofs -------------------------
(***************************************************************************)
(* Proofs about PragmaDialog, for any pragmas, values and texts.           *)
(***************************************************************************)
EXTENDS PragmaDialog, TLAPS

\* No change is recorded before the widgets are connected.
NothingBeforeConnected == ~connected => m_pragmaChanges = Unchanged

\* While the database is as it was shown, a recorded change that is not the
\* user's is without effect: its text is refused, or says what the engine has.
StrayChangesAreVoid ==
  asShown => \A p \in Pragmas :
    m_pragmaChanges[p] # NoChange /\ p \notin edited =>
      m_pragmaChanges[p] \in Refused \/ Meaning[m_pragmaChanges[p]] = pragma[p]

\* What the widgets and the changes are.
Widgets ==
  /\ pragma \in [Pragmas -> Values]
  /\ text \in [Pragmas -> Texts]
  /\ m_pragmaChanges \in [Pragmas -> Texts \cup {NoChange}]

DialogInv ==
  Widgets /\ RecordedIsShown /\ NothingBeforeConnected /\ StrayChangesAreVoid

-----------------------------------------------------------------------------
LEMMA UnchangedChangesNothing ==
  /\ Unchanged \in [Pragmas -> Texts \cup {NoChange}]
  /\ \A p \in Pragmas : Unchanged[p] = NoChange
BY DEF Unchanged

LEMMA RecordedChanges ==
  ASSUME Widgets, RecordedIsShown, NEW t \in [Pragmas -> Texts]
  PROVE  /\ Recorded(t) \in [Pragmas -> Texts \cup {NoChange}]
         /\ \A p \in Pragmas : Recorded(t)[p] \in {NoChange, t[p]}
         /\ \A p \in Pragmas : t[p] = text[p] => Recorded(t)[p] = m_pragmaChanges[p]
<1>1. ASSUME NEW p \in Pragmas
      PROVE  /\ Recorded(t)[p] \in Texts \cup {NoChange}
             /\ Recorded(t)[p] \in {NoChange, t[p]}
             /\ t[p] = text[p] => Recorded(t)[p] = m_pragmaChanges[p]
  BY DEF Recorded, Widgets, RecordedIsShown
<1>2. Recorded(t) = [p \in Pragmas |-> Recorded(t)[p]]
  BY DEF Recorded
<1>3. QED
  BY <1>1, <1>2

LEMMA DialogInit ==
  ASSUME PragmaAssumption, Init
  PROVE  DialogInv
BY UnchangedChangesNothing
   DEF PragmaAssumption, Init, DialogInv, Widgets, RecordedIsShown, NothingBeforeConnected, StrayChangesAreVoid

LEMMA ShowStep ==
  ASSUME PragmaAssumption, DialogInv, showEvent
  PROVE  DialogInv'
<1>1. CASE ~m_isActive
  <2>1. UNCHANGED <<pragma, text, connected, m_pragmaChanges>> /\ asShown' = FALSE
    BY <1>1 DEF showEvent
  <2>2. QED
    BY <2>1 DEF DialogInv, Widgets, RecordedIsShown, NothingBeforeConnected, StrayChangesAreVoid
<1>2. CASE m_isActive
  <2>1. /\ text' \in [Pragmas -> Texts]
        /\ \A p \in Pragmas : text'[p] = NoText \/ text'[p] = TextFor[pragma[p]]
    BY <1>2 DEF showEvent, Loaded
  <2>2. pragma' = pragma /\ m_pragmaChanges' = Filled(text') /\ connected' = TRUE
    BY <1>2 DEF showEvent
  <2>3. /\ m_pragmaChanges' \in [Pragmas -> Texts \cup {NoChange}]
        /\ \A p \in Pragmas : m_pragmaChanges'[p] \in {NoChange, text'[p]}
    <3>1. CASE connected
      BY <2>1, <2>2, <3>1, RecordedChanges DEF Filled, DialogInv
    <3>2. CASE ~connected
      BY <2>2, <3>2, UnchangedChangesNothing DEF Filled, DialogInv, NothingBeforeConnected
    <3>3. QED
      BY <3>1, <3>2
  <2>4. StrayChangesAreVoid'
    <3>1. \A p \in Pragmas : text'[p] = NoText \/ text'[p] = TextFor[pragma'[p]]
      BY <2>1, <2>2
    <3>2. \A v \in Values : TextFor[v] \in Refused \/ Meaning[TextFor[v]] = v
      BY DEF PragmaAssumption
    <3>3. NoText \in Refused /\ \A p \in Pragmas : pragma'[p] \in Values
      BY <2>2 DEF PragmaAssumption, DialogInv, Widgets
    <3>4. ASSUME NEW p \in Pragmas, m_pragmaChanges'[p] # NoChange
          PROVE  m_pragmaChanges'[p] \in Refused \/ Meaning[m_pragmaChanges'[p]] = pragma'[p]
      <4>1. m_pragmaChanges'[p] = NoText \/ m_pragmaChanges'[p] = TextFor[pragma'[p]]
        BY <2>3, <3>1, <3>4
      <4>2. QED
        BY <3>2, <3>3, <4>1
    <3>5. QED
      BY <3>4, Zenon DEF StrayChangesAreVoid
  <2>5. QED
    BY <2>1, <2>2, <2>3, <2>4
       DEF DialogInv, Widgets, RecordedIsShown, NothingBeforeConnected
<1>3. QED
  BY <1>1, <1>2

LEMMA ChangeStep ==
  ASSUME DialogInv, NEW p \in Pragmas, NEW t \in Texts, changeWidget(p, t)
  PROVE  DialogInv'
<1>1. /\ text' = [text EXCEPT ![p] = t] /\ m_pragmaChanges' = Recorded(text')
      /\ edited' = edited \cup {p} /\ connected
      /\ UNCHANGED <<pragma, connected, asShown>>
  BY DEF changeWidget
<1>2. text' \in [Pragmas -> Texts] /\ \A q \in Pragmas \ {p} : text'[q] = text[q]
  BY <1>1 DEF DialogInv, Widgets
<1>3. /\ m_pragmaChanges' \in [Pragmas -> Texts \cup {NoChange}]
      /\ \A q \in Pragmas : m_pragmaChanges'[q] \in {NoChange, text'[q]}
      /\ \A q \in Pragmas \ {p} : m_pragmaChanges'[q] = m_pragmaChanges[q]
  BY <1>1, <1>2, RecordedChanges DEF DialogInv
<1>4. StrayChangesAreVoid'
  BY <1>1, <1>3 DEF DialogInv, StrayChangesAreVoid
<1>5. QED
  BY <1>1, <1>2, <1>3, <1>4
     DEF DialogInv, Widgets, RecordedIsShown, NothingBeforeConnected

LEMMA SaveStep ==
  ASSUME DialogInv, save
  PROVE  DialogInv'
<1>1. /\ pragma' \in [Pragmas -> Values] /\ m_pragmaChanges' = Unchanged
      /\ UNCHANGED <<text, connected>>
  BY DEF save
<1>2. QED
  BY <1>1, UnchangedChangesNothing
     DEF DialogInv, Widgets, RecordedIsShown, NothingBeforeConnected, StrayChangesAreVoid

LEMMA DialogStep ==
  ASSUME PragmaAssumption, DialogInv, [Next]_vars
  PROVE  DialogInv'
<1> USE DEF DialogInv, Widgets, RecordedIsShown, NothingBeforeConnected, StrayChangesAreVoid
<1>1. CASE active
  BY <1>1 DEF active
<1>2. CASE inactive
  BY <1>2 DEF inactive
<1>3. CASE reject
  BY <1>3 DEF reject
<1>4. CASE closeEvent
  BY <1>4, UnchangedChangesNothing DEF closeEvent
<1>5. CASE showEvent
  BY <1>5, ShowStep
<1>6. CASE save
  BY <1>6, SaveStep
<1>7. ASSUME NEW p \in Pragmas, NEW t \in Texts, changeWidget(p, t) PROVE DialogInv'
  BY <1>7, ChangeStep
<1>8. ASSUME NEW p \in Pragmas, NEW v \in Values, SetElsewhere(p, v) PROVE DialogInv'
  BY <1>8 DEF SetElsewhere
<1>9. CASE Ends
  BY <1>9 DEF Ends
<1>10. CASE UNCHANGED vars
  BY <1>10 DEF vars
<1>11. QED
  BY <1>1, <1>2, <1>3, <1>4, <1>5, <1>6, <1>7, <1>8, <1>9, <1>10
     DEF Next, Slots, SaveCrash

\* A save in the database that was shown writes what the user has edited only.
LEMMA SaveWritesEdits ==
  ASSUME DialogInv, save, asShown, NEW p \in Pragmas, pragma'[p] # pragma[p]
  PROVE  p \in edited /\ text[p] \notin Refused /\ pragma'[p] = Meaning[text[p]]
<1>1. pragma'[p] \in SetPragma(p)
  BY DEF save
<1>2. /\ m_pragmaChanges[p] # NoChange /\ m_pragmaChanges[p] \notin Refused
      /\ pragma'[p] = Meaning[m_pragmaChanges[p]]
  BY <1>1 DEF SetPragma
<1>3. QED
  BY <1>2 DEF DialogInv, StrayChangesAreVoid, RecordedIsShown

\* The types of the rest.
Flags ==
  /\ running \in BOOLEAN /\ m_isActive \in BOOLEAN /\ connected \in BOOLEAN
  /\ saveEnabled \in BOOLEAN /\ shown \in BOOLEAN /\ asShown \in BOOLEAN
  /\ edited \subseteq Pragmas

LEMMA FlagsInit == Init => Flags
BY Zenon DEF Init, Flags

LEMMA FlagsStep ==
  ASSUME Flags, [Next]_vars
  PROVE  Flags'
<1>1. running' \in BOOLEAN
  BY Zenon DEF Flags, Next, SaveCrash, Ends, vars
<1>2. CASE active \/ inactive \/ reject \/ closeEvent \/ save
  BY <1>1, <1>2, Zenon DEF Flags, active, inactive, reject, closeEvent, save
<1>3. CASE showEvent
  <2>1. saveEnabled' \in BOOLEAN /\ connected' \in BOOLEAN
    BY <1>3, Zenon DEF showEvent, Flags
  <2>2. asShown' \in BOOLEAN /\ shown' \in BOOLEAN /\ m_isActive' \in BOOLEAN
    BY <1>3, Zenon DEF showEvent, Flags
  <2>3. edited' \subseteq Pragmas
    BY <1>3, Zenon DEF showEvent
  <2>4. QED
    BY <1>1, <2>1, <2>2, <2>3 DEF Flags
<1>4. ASSUME NEW p \in Pragmas, NEW t \in Texts, changeWidget(p, t) PROVE Flags'
  BY <1>1, <1>4, Zenon DEF Flags, changeWidget
<1>5. ASSUME NEW p \in Pragmas, NEW v \in Values, SetElsewhere(p, v) PROVE Flags'
  BY <1>1, <1>5, Zenon DEF Flags, SetElsewhere
<1>6. CASE Ends \/ UNCHANGED vars
  BY <1>1, <1>6, Zenon DEF Flags, Ends, vars
<1>7. QED
  BY <1>2, <1>3, <1>4, <1>5, <1>6 DEF Next, Slots, SaveCrash

LEMMA DialogTypes == DialogInv /\ Flags => PragmaTypeOK
BY Zenon DEF DialogInv, Widgets, Flags, PragmaTypeOK

-----------------------------------------------------------------------------
\* Whatever the user, the main window and other programs do: a change that
\* waits for Save is what its widget shows.
THEOREM ChangesAreOnShow ==
  ASSUME PragmaAssumption
  PROVE  Spec => []RecordedIsShown
<1>1. Init => DialogInv
  BY DialogInit
<1>2. DialogInv /\ [Next]_vars => DialogInv'
  BY DialogStep
<1>3. DialogInv => RecordedIsShown
  BY DEF DialogInv
<1>4. QED
  BY <1>1, <1>2, <1>3, PTL DEF Spec

\* The changes that filling the widgets and Cancel leave behind are harmless
\* in the database that was shown.
THEOREM SavesAreEdits ==
  ASSUME PragmaAssumption
  PROVE  Spec => SaveOnlyEdited
<1> DEFINE OnlyEdits ==
  save /\ asShown =>
    \A p \in Pragmas : pragma'[p] # pragma[p] =>
      p \in edited /\ text[p] \notin Refused /\ pragma'[p] = Meaning[text[p]]
<1>1. Init => DialogInv
  BY DialogInit
<1>2. DialogInv /\ [Next]_vars => DialogInv'
  BY DialogStep
<1>3. DialogInv => [OnlyEdits]_vars
  BY SaveWritesEdits
<1>4. QED
  BY <1>1, <1>2, <1>3, PTL DEF Spec, SaveOnlyEdited
=============================================================================
