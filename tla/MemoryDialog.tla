---------------------------- MODULE MemoryDialog ----------------------------
(***************************************************************************)
(* The memory dialog (memorydialog.cpp): the engine's statistics, read     *)
(* again by a timer while the dialog is on show.                           *)
(***************************************************************************)
EXTENDS Naturals

CONSTANTS Levels   \* how much memory the engine may have in use

LevelsAssumption == Levels \subseteq Nat

VARIABLES
  running,       \* the process is
  m_pDb,         \* whether there is a database
  m_isActive,
  shown,
  timer,         \* m_timer is running
  used, high,    \* of the engine: in use, and the most that was
  numbers,       \* what the dialog says of them
  readAtShow     \* history: the dialog's last show event read the numbers

vars == <<running, m_pDb, m_isActive, shown, timer, used, high, numbers, readAtShow>>

\* The constructor does not set m_isActive.
Init ==
  /\ running = TRUE
  /\ m_pDb = FALSE /\ m_isActive \in BOOLEAN
  /\ shown = FALSE /\ timer = FALSE
  /\ used \in Levels /\ high = used
  /\ numbers = <<0, 0>>
  /\ readAtShow = FALSE

active ==
  /\ m_pDb' = TRUE /\ m_isActive' = TRUE
  /\ UNCHANGED <<shown, timer, used, high, numbers, readAtShow>>

\* Variant: only a dialog on show is closed.
InactiveIfShown(db) ==
  /\ m_pDb' = db /\ m_isActive' = db
  /\ shown' = FALSE /\ timer' = (timer /\ ~shown)
  /\ UNCHANGED <<used, high, numbers, readAtShow>>

\* inactive() and, with db, the active() that follows it in a Save As.  close()
\* sends a close event, and so stops the timer, even when the dialog is hidden.
Inactive(db) ==
  /\ m_pDb' = db /\ m_isActive' = db
  /\ shown' = FALSE /\ timer' = FALSE
  /\ UNCHANGED <<used, high, numbers, readAtShow>>

inactive == Inactive(FALSE)

-----------------------------------------------------------------------------
\* getMemoryInfo(reset): sqlite3_status() answers before it resets.
getMemoryInfo(reset) ==
  /\ numbers' = <<used, high>>
  /\ high' = IF reset THEN used ELSE high

updateMemInfo(reset) ==
  /\ getMemoryInfo(reset)
  /\ UNCHANGED <<m_pDb, m_isActive, used>>

\* Variant: the numbers are read once.
ShowOnce ==
  /\ ~shown /\ shown' = TRUE
  /\ readAtShow' = m_isActive
  /\ m_isActive => m_pDb
  /\ IF m_isActive THEN updateMemInfo(FALSE) /\ UNCHANGED timer
     ELSE UNCHANGED <<m_pDb, m_isActive, timer, used, high, numbers>>

\* showEvent(): a database opened after it starts no timer.
showEvent ==
  /\ ~shown /\ shown' = TRUE
  /\ readAtShow' = m_isActive
  /\ m_isActive => m_pDb
  /\ IF m_isActive THEN updateMemInfo(FALSE) /\ timer' = TRUE
     ELSE UNCHANGED <<m_pDb, m_isActive, timer, used, high, numbers>>

\* The process ends, whatever the dialog is at.
Ends ==
  /\ running' = FALSE
  /\ UNCHANGED <<m_pDb, m_isActive, shown, timer, used, high, numbers, readAtShow>>

\* showEvent() with an m_isActive nobody has set yet goes through the null m_pDb.
ShowCrash == ~shown /\ m_isActive /\ ~m_pDb /\ Ends

\* The Close button and Escape hide the dialog: the timer keeps running.
hide ==
  /\ shown /\ shown' = FALSE
  /\ UNCHANGED <<m_pDb, m_isActive, timer, used, high, numbers, readAtShow>>

\* The window is closed.
closeEvent ==
  /\ shown /\ shown' = FALSE /\ timer' = FALSE
  /\ UNCHANGED <<m_pDb, m_isActive, used, high, numbers, readAtShow>>

\* The button is enabled while there is a database.
resetHighWatermark ==
  /\ shown /\ m_pDb
  /\ updateMemInfo(TRUE)
  /\ UNCHANGED <<shown, timer, readAtShow>>

\* A timeout of m_timer.
tick ==
  /\ timer
  /\ updateMemInfo(FALSE)
  /\ UNCHANGED <<shown, timer, readAtShow>>

\* The engine takes memory, or gives some back.
Use(n) ==
  /\ used' = n
  /\ high' = IF n > high THEN n ELSE high
  /\ UNCHANGED <<m_pDb, m_isActive, shown, timer, numbers, readAtShow>>

\* What happens between the main window's signals, the timer left aside.
Slots ==
  \/ showEvent \/ hide \/ closeEvent \/ resetHighWatermark
  \/ \E n \in Levels : Use(n)

Next ==
  /\ running
  /\ \/ UNCHANGED running /\ (active \/ Inactive(TRUE) \/ inactive \/ Slots \/ tick)
     \/ ShowCrash \/ Ends

Spec == Init /\ [][Next]_vars

-----------------------------------------------------------------------------
MemoryTypeOK ==
  /\ {running, m_pDb, m_isActive, shown, timer, readAtShow} \subseteq BOOLEAN
  /\ used \in Levels /\ high \in Levels
  /\ numbers \in (Levels \cup {0}) \X (Levels \cup {0})

\* The timer, which goes through m_pDb without asking, never runs without a
\* database, although hiding the dialog leaves it running: inactive() closes
\* a dialog that is hidden already.
TimerHasDatabase == timer => m_pDb

\* "Start up the timer to fire 4 times a second" (showEvent): a dialog that
\* was shown with a database open comes to show what the engine has, unless
\* that changes again or the dialog is hidden first.
NumbersFollow ==
  \A n \in Levels \X Levels :
    (shown /\ readAtShow /\ <<used, high>> = n)
      ~> (numbers = n \/ <<used, high>> # n \/ ~shown)
=============================================================================
