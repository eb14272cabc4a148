----------------------------- MODULE TableTree -----------------------------
(***************************************************************************)
(* The tree of tables (explorewidget.cpp): a copy of the schema that        *)
(* populateTableTree() brings up to date after the user's SQL, after its   *)
(* own Drop Table and when a database is opened.  Other processes change   *)
(* the schema too, and tell nobody: what a refresh finds may differ in any *)
(* way from what the last one found.                                       *)
(*                                                                         *)
(* populateTableTree() does not compare the tree with the schema: it       *)
(* compares the names it read last time (m_tableNames) with those it reads *)
(* now, adds an item for each new name, and looks for the items of names   *)
(* that are gone by the text they show.                                    *)
(***************************************************************************)
EXTENDS Sublist, SequencesExt

CONSTANTS
  Names,       \* the tables the schema may hold
  Creatable,   \* the pairs <<name, virtual>> the users create
  Master,      \* sqlite_master, always the first name read
  Like,        \* Like[t]: the names that t, read as a LIKE pattern, matches
  Suffixed,    \* Suffixed[t]: the text t + " (virtual)", which may be a name
  ReadFaults,  \* "names", "info": the reads of a refresh that may fail
  MaxItems     \* bound on the items of the tree

AllNames == Names \cup {Master}

ASSUME NamesAssumption ==
  /\ Master \notin Names /\ Creatable \subseteq Names \X BOOLEAN
  /\ Like \in [AllNames -> SUBSET Names]
  /\ DOMAIN Suffixed = AllNames
  /\ \A t \in AllNames : Suffixed[t] # t /\ \A u \in AllNames : Suffixed[t] = Suffixed[u] => t = u
  /\ ReadFaults \subseteq {"names", "info"}
  /\ MaxItems \in Nat

VARIABLES
  isOpen,        \* m_pDb
  m_tableNames,  \* the names the last refresh read
  items          \* the top-level items

vars == <<isOpen, m_tableNames, items>>

\* The tables in the order sqlite_master holds them.
SchemaTables == {[name |-> p[1], virtual |-> p[2]] : p \in Creatable}
Schemas ==
  {s \in UNION {[1..n -> SchemaTables] : n \in 0..Cardinality(Names)} :
     \A i, j \in DOMAIN s : s[i].name = s[j].name => i = j}

NamesOf(s) == [i \in DOMAIN s |-> s[i].name]
Listed(list) == ToSet(NamesOf(list))

\* SQLite::getTableNames: nothing when the statement cannot be prepared, and
\* what was read so far when a step fails.
TableNames(s) ==
  {<<Master>> \o NamesOf(s)}
    \cup (IF "names" \in ReadFaults
            THEN {<<>>} \cup {<<Master>> \o SubSeq(NamesOf(s), 1, n) : n \in 0..Len(s)}
            ELSE {})

\* SQLite::getTableInfo looks the name up with LIKE and takes the first hit.
IsVirtual(s, t) ==
  LET hits == SelectSeq(s, LAMBDA table : table.name \in Like[t])
  IN  hits # <<>> /\ hits[1].virtual

\* ExploreWidgetItem::setTableName
Item(s, t) == [name |-> t, text |-> IF IsVirtual(s, t) THEN Suffixed[t] ELSE t]

-----------------------------------------------------------------------------
\* The items in the order new names are read; getTableInfo() fails for those
\* in "unread", which get none.
Added(s, names, unread) ==
  LET new == Sublist(names, {i \in DOMAIN names : names[i] \notin m_tableNames \cup unread})
  IN  [i \in DOMAIN new |-> Item(s, new[i])]

\* Variants: m_tableNames is replaced before the names that are gone are
\* collected from it; "contains" is tested without the "!".
VanishedTooLate(names) == {}
VanishedKept(names) == m_tableNames \cap ToSet(names)

\* removeTables
Vanished(names) == m_tableNames \ ToSet(names)

\* The walk over the children: removing one moves the next to its index, and
\* the index is then counted up, so the item after a removed one is not looked at.
AfterWalk(list, gone) ==
  LET removed[i \in 0..Len(list)] ==
        IF i = 0 THEN FALSE ELSE list[i].text \in gone /\ ~removed[i - 1]
  IN  Sublist(list, {i \in DOMAIN list : ~removed[i]})

\* ExploreWidget::populateTableTree
populateTableTree(s) ==
  \E names \in TableNames(s) :
    \E unread \in (IF "info" \in ReadFaults THEN SUBSET (ToSet(names) \ m_tableNames)
                                           ELSE {{}}) :
      /\ items' = AfterWalk(items \o Added(s, names, unread), Vanished(names))
      /\ Len(items') <= MaxItems
      /\ m_tableNames' = ToSet(names)

-----------------------------------------------------------------------------
Init ==
  /\ isOpen = FALSE
  /\ m_tableNames = {}
  /\ items = <<>>

\* ExploreWidget::active
active(s) ==
  /\ ~isOpen
  /\ isOpen' = TRUE
  /\ populateTableTree(s)

\* ExploreWidget::inactive
inactive ==
  /\ isOpen
  /\ isOpen' = FALSE
  /\ m_tableNames' = {}
  /\ items' = <<>>

\* The end of execute(): any number of statements ran, or failed.
Execute(s) ==
  /\ isOpen
  /\ populateTableTree(s)
  /\ UNCHANGED isOpen

\* ExploreWidget::dropTable on some item.  SQLite refuses to drop
\* sqlite_master, or a table that is gone, and then nothing is refreshed.
dropTable(s) ==
  /\ isOpen
  /\ Listed(items) \ ({Master} \cup ToSet(NamesOf(s))) # {}
  /\ populateTableTree(s)
  /\ UNCHANGED isOpen

Next ==
  \/ inactive
  \/ \E s \in Schemas : active(s) \/ Execute(s) \/ dropTable(s)

Spec == Init /\ [][Next]_vars

-----------------------------------------------------------------------------
\* Every item is for a name of the last refresh, and no two for the same.
NothingStale(list, names) ==
  /\ Listed(list) \subseteq names
  /\ \A i, j \in DOMAIN list : list[i].name = list[j].name => i = j

\* When at most one table is gone since the last refresh, and its item is the
\* only one that shows its name, the refresh leaves no item that is stale or
\* there twice: whatever else was created and whatever could not be read.
OneDropLeavesNothingStale ==
  [][LET gone == m_tableNames \ m_tableNames' IN
     /\ NothingStale(items, m_tableNames)
     /\ \A t, u \in gone : t = u
     /\ \A i \in DOMAIN items : items[i].name \in gone <=> items[i].text \in gone
     => NothingStale(items', m_tableNames')]_vars

\* A table that is in the tree stays there while each refresh finds it,
\* unless a table is dropped whose name is the very text the item shows.
ListedStaysListed ==
  [][isOpen /\ isOpen' =>
       \A t \in Listed(items) \cap m_tableNames' :
         \/ t \in Listed(items')
         \/ \E i \in DOMAIN items :
              items[i].name = t /\ items[i].text \in m_tableNames \ m_tableNames']_vars

\* After the user's SQL the tree shows the tables there are, each once.
TreeShowsSchema ==
  [][\A s \in Schemas :
       Execute(s) /\ m_tableNames' = ToSet(NamesOf(s)) \cup {Master} =>
         Listed(items') = m_tableNames' /\ NothingStale(items', m_tableNames')]_vars
=============================================================================
