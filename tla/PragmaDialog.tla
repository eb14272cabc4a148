---------------------------- MODULE PragmaDialog ----------------------------
(***************************************************************************)
(* The pragma dialog (pragmadialog.cpp): a widget per pragma, and the      *)
(* changes that Save writes.  The dialog is modeless: databases are opened *)
(* and closed, and SQL is run, while it is on show.                        *)
(***************************************************************************)
CONSTANTS
  Pragmas,     \* the widgets, named after their pragmas
  Values,      \* what a pragma may be set to in the engine
  Texts,       \* what a widget may show
  NoText,      \* no text: no item of a combo box
  TextFor,     \* what a widget shows of a value; NoText of a WAL journal, for
               \* which there is no item
  FirstText,   \* what the form gives each widget to show
  Refused,     \* texts that make no statement the engine accepts
  Meaning,     \* what the others set: utf-16 sets utf-16le, and 02000 sets 2000
  WriteOnly,   \* pragmas that answer nothing when read: case_sensitive_like
  NoChange     \* no entry in m_pragmaChanges

PragmaAssumption ==
  /\ WriteOnly \subseteq Pragmas
  /\ NoText \in Texts \cap Refused
  /\ TextFor \in [Values -> Texts]
  /\ Meaning \in [Texts \ Refused -> Values]
  /\ \A v \in Values : TextFor[v] \in Refused \/ Meaning[TextFor[v]] = v
  /\ FirstText \in [Pragmas -> Texts]
  /\ NoChange \notin Texts

VARIABLES
  running,           \* the process is
  m_isActive,        \* m_pDb is a database
  pragma,            \* what the engine has, once a database is open
  text,              \* what each widget shows
  connected,         \* the widgets are enabled and their signals connected
  m_pragmaChanges,
  saveEnabled,       \* of the Save button
  shown,
  edited,            \* history: the widgets the user has changed since the last show event
  asShown            \* history: the database and its pragmas are those of that event

vars == <<m_isActive, pragma, text, connected, m_pragmaChanges, saveEnabled,
          shown, edited, asShown, running>>

Unchanged == [p \in Pragmas |-> NoChange]

Init ==
  /\ running = TRUE
  /\ m_isActive = FALSE
  /\ pragma \in [Pragmas -> Values]
  /\ text = FirstText
  /\ connected = FALSE /\ shown = FALSE /\ saveEnabled = FALSE
  /\ m_pragmaChanges = Unchanged
  /\ edited = {} /\ asShown = FALSE

\* active() and inactive() leave the widgets alone.  A Save As is an inactive()
\* and an active() with nothing between them, which is an active() here.
active ==
  /\ m_isActive' = TRUE
  /\ pragma' \in [Pragmas -> Values]
  /\ asShown' = FALSE
  /\ UNCHANGED <<text, connected, m_pragmaChanges, saveEnabled, shown, edited>>

inactive ==
  /\ m_isActive' = FALSE
  /\ asShown' = FALSE
  /\ UNCHANGED <<pragma, text, connected, m_pragmaChanges, saveEnabled, shown, edited>>

-----------------------------------------------------------------------------
\* Variants: the widgets are filled the first time only; the signals are
\* blocked while they are filled.
LoadedOnce ==
  IF connected THEN {text}
  ELSE {[p \in Pragmas |->
           IF p \in WriteOnly THEN NoText ELSE TextFor[pragma[p]]]}
FilledSilently(texts) == m_pragmaChanges

\* setComboBox(), setLineEdit(): a read that fails shows nothing, too.
Loaded ==
  {t \in [Pragmas -> Texts] : \A p \in Pragmas :
     \/ t[p] = NoText
     \/ p \notin WriteOnly /\ t[p] = TextFor[pragma[p]]}

\* changeWidget(), for every widget whose text becomes another: filling a
\* connected widget is a change to it, as the user's would be.
Recorded(texts) ==
  [p \in Pragmas |-> IF texts[p] # text[p] THEN texts[p] ELSE m_pragmaChanges[p]]

\* The widgets are connected after they are filled for the first time.
Filled(texts) == IF connected THEN Recorded(texts) ELSE m_pragmaChanges

\* showEvent(), on show() or when the window comes back to the screen.
showEvent ==
  /\ shown' = TRUE
  /\ edited' = {} /\ asShown' = m_isActive
  /\ IF m_isActive
     THEN /\ text' \in Loaded
          /\ connected' = TRUE
          /\ m_pragmaChanges' = Filled(text')
          /\ saveEnabled' = (connected /\ text' # text)
     ELSE /\ saveEnabled' = FALSE
          /\ UNCHANGED <<text, connected, m_pragmaChanges>>
  /\ UNCHANGED <<m_isActive, pragma>>

\* The user changes the widget of pragma p to t.
changeWidget(p, t) ==
  /\ shown /\ connected /\ t # text[p]
  /\ text' = [text EXCEPT ![p] = t]
  /\ m_pragmaChanges' = Recorded(text')
  /\ saveEnabled' = TRUE
  /\ edited' = edited \cup {p}
  /\ UNCHANGED <<m_isActive, pragma, connected, shown, asShown>>

\* Cancel and Escape hide the dialog without a close event.
reject ==
  /\ shown /\ shown' = FALSE
  /\ UNCHANGED <<m_isActive, pragma, text, connected, m_pragmaChanges, saveEnabled,
                 edited, asShown>>

\* The window is closed.
closeEvent ==
  /\ shown /\ shown' = FALSE
  /\ m_pragmaChanges' = Unchanged
  /\ UNCHANGED <<m_isActive, pragma, text, connected, saveEnabled, edited, asShown>>

-----------------------------------------------------------------------------
\* setPragmaValue() for a recorded change: the values the pragma may have then.
\* A statement may fail, or be accepted and have no effect (foreign_keys in a
\* transaction, page_size of a database that has pages).
SetPragma(p) ==
  LET t == m_pragmaChanges[p] IN
  IF t = NoChange \/ t \in Refused THEN {pragma[p]} ELSE {pragma[p], Meaning[t]}

\* A click on Save hides the dialog and saves, whatever becomes of each change.
save ==
  /\ shown /\ saveEnabled /\ m_isActive
  /\ pragma' \in {v \in [Pragmas -> Values] : \A p \in Pragmas : v[p] \in SetPragma(p)}
  /\ m_pragmaChanges' = Unchanged
  /\ saveEnabled' = FALSE /\ shown' = FALSE
  /\ UNCHANGED <<m_isActive, text, connected, edited, asShown>>

\* The process ends, whatever the dialog is at.
Ends ==
  /\ running' = FALSE
  /\ UNCHANGED <<m_isActive, pragma, text, connected, m_pragmaChanges, saveEnabled,
                 shown, edited, asShown>>

\* save() goes through the null m_pDb when the database was closed meanwhile.
SaveCrash ==
  /\ shown /\ saveEnabled /\ ~m_isActive /\ m_pragmaChanges # Unchanged
  /\ Ends

\* The user's SQL, or another program, changes a pragma.
SetElsewhere(p, v) ==
  /\ m_isActive
  /\ pragma' = [pragma EXCEPT ![p] = v]
  /\ asShown' = FALSE
  /\ UNCHANGED <<m_isActive, text, connected, m_pragmaChanges, saveEnabled, shown, edited>>

\* What happens in the dialog, or to the database, between the main window's signals.
Slots ==
  \/ showEvent \/ reject \/ closeEvent \/ save
  \/ \E p \in Pragmas, t \in Texts : changeWidget(p, t)
  \/ \E p \in Pragmas, v \in Values : SetElsewhere(p, v)

Next ==
  /\ running
  /\ \/ UNCHANGED running /\ (active \/ inactive \/ Slots)
     \/ SaveCrash \/ Ends

Spec == Init /\ [][Next]_vars

-----------------------------------------------------------------------------
PragmaTypeOK ==
  /\ pragma \in [Pragmas -> Values]
  /\ text \in [Pragmas -> Texts]
  /\ m_pragmaChanges \in [Pragmas -> Texts \cup {NoChange}]
  /\ {running, m_isActive, connected, saveEnabled, shown, asShown} \subseteq BOOLEAN
  /\ edited \subseteq Pragmas

\* A change that is waiting to be saved is what its widget shows, through
\* every Cancel, switch of database and refill of the widgets (showEvent,
\* changeWidget): Save never writes a text the user cannot see.
RecordedIsShown ==
  \A p \in Pragmas : m_pragmaChanges[p] \in {NoChange, text[p]}

\* Filling the widgets and cancelling leave changes behind that nobody asked
\* for.  They do no harm as long as the dialog was shown with the database it
\* saves to and nothing else has changed that since: save() then changes only
\* pragmas the user has edited since the show, to what their widgets say.
SaveOnlyEdited ==
  [][save /\ asShown =>
       \A p \in Pragmas : pragma'[p] # pragma[p] =>
         p \in edited /\ text[p] \notin Refused /\ pragma'[p] = Meaning[text[p]]]_vars
=============================================================================
