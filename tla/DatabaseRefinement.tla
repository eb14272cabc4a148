------------------------ MODULE DatabaseRefinement ------------------------
(***************************************************************************)
(* DatabaseWidget implements EditSession: the flag says the session is the *)
(* grid's; a transaction without the flag is one the user's SQL began.     *)
(***************************************************************************)
EXTENDS DatabaseWidget

Owner == IF m_activeTransaction THEN "grid" ELSE IF conn.inTx THEN "sql" ELSE "none"

\* A "*" row with no cells, over a grid with no columns, stores nothing.
PendingRow ==
  IF HasNewRow /\ grid.columns = 1
    THEN {<<m_tableName, ShownText(grid.cells[Star])>>}
    ELSE {}

Session == INSTANCE EditSession WITH
  saved <- conn.saved, draft <- conn.work, owner <- Owner, pending <- PendingRow

\* Nothing an observer of the file and of the draft can see of the program,
\* through all its dialogs, crashes and restarts, departs from EditSession.
ImplementsEditSession == Session!SessionSpec
=============================================================================
