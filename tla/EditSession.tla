---------------------------- MODULE EditSession ----------------------------
(***************************************************************************)
(* What the program promises the person editing a table, without grids,    *)
(* flags or dialogs.  There is the file and there is a draft of it.  Grid  *)
(* edits collect in the draft as a session, with at most one row pending   *)
(* outside it.  A session ends in one step: all of it is saved, the        *)
(* pending row with it, or all of it is discarded.  SQL the user writes    *)
(* never runs inside a session.                                            *)
(***************************************************************************)
EXTENDS Connection

VARIABLES
  saved,    \* the file
  draft,    \* what this program shows and edits
  owner,    \* whose uncommitted changes the draft may hold
  pending   \* the pending row, a table and a text: no element or one

sessionVars == <<saved, draft, owner, pending>>

PendingRows == {{}} \cup {{row} : row \in Tables \X Texts}

SessionTypeOK ==
  /\ saved \in Database /\ draft \in Database
  /\ owner \in {"none", "grid", "sql"}
  /\ pending \in PendingRows

SessionInit ==
  /\ saved \in Database
  /\ draft = saved
  /\ owner = "none"
  /\ pending = {}

\* The databases one edit, or one deletion, of an existing row makes of db.
OneRowEdited(db) ==
  LET rows == {row \in Tables \X RowIds :
                 db[row[1]] # Gone /\ db[row[1]][row[2]] # Absent}
  IN  {db} \cup {[db EXCEPT ![row[1]][row[2]] = v] : row \in rows, v \in Values \cup {Absent}}

\* An edit opens a session unless one is open, or SQL has a transaction open.
EditRow ==
  /\ draft' \in OneRowEdited(draft)
  /\ owner' = IF owner = "none" THEN "grid" ELSE owner
  /\ UNCHANGED <<saved, pending>>

EditPending ==
  /\ owner \in {"none", "grid"} /\ owner' = "grid"
  /\ pending' \in PendingRows \ {{}}
  /\ UNCHANGED <<saved, draft>>

\* All of the session is saved, and the pending row in a row that was free,
\* as what the engine keeps of its text.
Save ==
  /\ owner = "grid" /\ owner' = "none"
  /\ IF pending = {} THEN draft' = draft
     ELSE \E row \in pending :
            \E r \in {q \in RowIds : draft[row[1]][q] = Absent}, v \in Kept(row[2]) :
              draft' = [draft EXCEPT ![row[1]][r] = v]
  /\ saved' = draft'
  /\ pending' = {}

\* Rollback, by the grid or by SQL; closing; and any end of the program.
Discard ==
  /\ owner' = "none"
  /\ draft' = saved
  /\ pending' = {}
  /\ UNCHANGED saved

\* A change that is saved at once unless SQL has a transaction open: a
\* statement the user runs, a file imported into a cell.
ChangeNow ==
  /\ owner # "grid"
  /\ draft' \in Database
  /\ saved' = IF owner = "none" THEN draft' ELSE saved
  /\ UNCHANGED <<owner, pending>>

SqlBegin == owner = "none" /\ owner' = "sql" /\ UNCHANGED <<saved, draft, pending>>

SqlCommit ==
  /\ owner = "sql" /\ owner' = "none"
  /\ saved' = draft
  /\ UNCHANGED <<draft, pending>>

SessionNext ==
  EditRow \/ EditPending \/ Save \/ Discard \/ ChangeNow \/ SqlBegin \/ SqlCommit

SessionSpec == SessionInit /\ [][SessionNext]_sessionVars
=============================================================================
