-------------------------- MODULE TableTreeProofs ---------------------------
(***************************************************************************)
(* Proved of TableTree, for any names, schemas, patterns and failing       *)
(* reads: what one refresh may take out of the tree, and what one dropped  *)
(* table leaves in it.  The walk over the items skips the one after each   *)
(* it removes; the proofs say when that does no harm.                      *)
(***************************************************************************)
EXTENDS TableTree, ListProofs

TreeItems == [name : AllNames, text : AllNames \cup {Suffixed[t] : t \in AllNames}]

TreeInv == items \in Seq(TreeItems)

\* A list of names, none of them twice.
DistinctNames(names) ==
  /\ names \in Seq(AllNames)
  /\ \A i, j \in DOMAIN names : names[i] = names[j] => i = j

-----------------------------------------------------------------------------
\* What a refresh reads: names there are, each once, however the read ends.
LEMMA NamesAreDistinct ==
  ASSUME NEW s \in Schemas, NEW names \in TableNames(s)
  PROVE  DistinctNames(names)
<1>1. /\ s \in Seq(SchemaTables) /\ Len(s) \in Nat /\ DOMAIN s = 1..Len(s)
      /\ \A i, j \in DOMAIN s : s[i].name = s[j].name => i = j
  BY DEF Schemas
<1>2. \A table \in SchemaTables : table.name \in Names
  BY NamesAssumption DEF SchemaTables
<1> DEFINE all == <<Master>> \o NamesOf(s)
<1>3. /\ all \in Seq(AllNames) /\ DOMAIN all = 1..Len(s) + 1 /\ Len(all) = Len(s) + 1
      /\ all[1] = Master
      /\ \A i \in 1..Len(s) + 1 : i # 1 =>
           i - 1 \in DOMAIN s /\ all[i] = s[i - 1].name /\ all[i] \in Names
  <2> DEFINE rest == NamesOf(s)
  <2>1. rest \in Seq(Names) /\ Len(rest) = Len(s) /\ \A i \in 1..Len(s) : rest[i] = s[i].name
    <3>1. rest \in [1..Len(s) -> Names]
      BY <1>1, <1>2 DEF NamesOf
    <3>2. QED
      BY <1>1, <3>1 DEF NamesOf
  <2> HIDE DEF rest
  <2>2. rest \in Seq(AllNames) /\ Master \in AllNames
    BY <2>1 DEF AllNames
  <2>3. /\ all \in Seq(AllNames) /\ Len(all) = Len(s) + 1 /\ all[1] = Master
        /\ \A i \in 1..Len(s) + 1 : i # 1 => i - 1 \in 1..Len(s) /\ all[i] = rest[i - 1]
    BY <1>1, <2>1, <2>2 DEF rest
  <2>4. \A i \in 1..Len(s) : rest[i] \in Names
    BY <2>1
  <2> HIDE DEF all
  <2>5. DOMAIN all = 1..Len(s) + 1
    BY <2>3
  <2>6. QED
    BY <1>1, <2>1, <2>3, <2>4, <2>5
<1> HIDE DEF all
<1>4. DistinctNames(all)
  <2>1. SUFFICES ASSUME NEW i \in DOMAIN all, NEW j \in DOMAIN all, all[i] = all[j]
                 PROVE  i = j
    BY <1>3 DEF DistinctNames
  <2>2. CASE i = 1 \/ j = 1
    BY <1>3, <2>1, <2>2, NamesAssumption
  <2>3. CASE i # 1 /\ j # 1
    <3>a. /\ i - 1 \in DOMAIN s /\ j - 1 \in DOMAIN s
          /\ all[i] = s[i - 1].name /\ all[j] = s[j - 1].name
      BY <1>3, <2>1, <2>3
    <3>1. i - 1 = j - 1
      BY <1>1, <2>1, <3>a
    <3>2. QED
      BY <1>1, <1>3, <2>1, <3>1
  <2>4. QED
    BY <2>2, <2>3
<1>5. CASE names = all
  BY <1>4, <1>5
<1>6. CASE names = <<>>
  BY <1>6 DEF DistinctNames
<1>7. ASSUME NEW n \in 0..Len(s), names = <<Master>> \o SubSeq(NamesOf(s), 1, n)
      PROVE  DistinctNames(names)
  <2>1. names \in Seq(AllNames) /\ DOMAIN names = 1..n + 1
        /\ \A i \in 1..n + 1 : i \in DOMAIN all /\ names[i] = all[i]
    <3> DEFINE rest == NamesOf(s)
    <3>1. rest \in Seq(AllNames) /\ Len(rest) = Len(s) /\ Master \in AllNames
      <4>1. rest \in [1..Len(s) -> AllNames]
        BY <1>1, <1>2 DEF NamesOf, AllNames
      <4>2. QED
        BY <1>1, <4>1 DEF NamesOf, AllNames
    <3>2. all = <<Master>> \o rest
      BY DEF all
    <3> HIDE DEF rest
    <3>3. SubSeq(rest, 1, n) \in Seq(AllNames) /\ Len(SubSeq(rest, 1, n)) = n
          /\ \A i \in 1..n : SubSeq(rest, 1, n)[i] = rest[i]
      BY <1>1, <3>1
    <3> DEFINE first == SubSeq(rest, 1, n)
    <3>4. names = <<Master>> \o first
      BY <1>7 DEF rest
    <3> HIDE DEF first
    <3>5. /\ names \in Seq(AllNames) /\ Len(names) = n + 1
          /\ \A i \in 1..n + 1 : names[i] = IF i = 1 THEN Master ELSE rest[i - 1]
      BY <1>1, <3>1, <3>3, <3>4 DEF first
    <3>6. \A i \in 1..n + 1 : i \in DOMAIN all /\ all[i] = IF i = 1 THEN Master ELSE rest[i - 1]
      BY <1>1, <1>3, <3>1, <3>2
    <3>7. QED
      BY <3>5, <3>6
  <2>2. QED
    BY <1>4, <2>1 DEF DistinctNames
<1>8. QED
  BY <1>5, <1>6, <1>7 DEF TableNames, all

\* The new items: one for each name that is new, but the unread ones.
LEMMA AddedItems ==
  ASSUME NEW s, NEW names, DistinctNames(names), NEW unread
  PROVE  LET new == Added(s, names, unread)
         IN  /\ new \in Seq(TreeItems)
             /\ \A k \in DOMAIN new : new[k].name \in ToSet(names) \ m_tableNames
             /\ \A k, l \in DOMAIN new : new[k].name = new[l].name => k = l
<1> DEFINE places == {i \in DOMAIN names : names[i] \notin m_tableNames \cup unread}
           list == Sublist(names, places)
           new == Added(s, names, unread)
<1>1. list \in Seq(AllNames) /\ IsSublist(list, names, places, Len(names))
  BY SublistIs DEF DistinctNames
<1>2. new = [i \in DOMAIN list |-> Item(s, list[i])]
  BY DEF Added
<1>3. DOMAIN names = 1..Len(names)
  BY DEF DistinctNames
<1>a. \A i \in places : names[i] \in ToSet(names) \ m_tableNames
  BY DEF ToSet
<1> HIDE DEF list, new, places
<1>4. PICK place \in [DOMAIN list -> places \cap 1..Len(names)] :
        /\ \A k \in DOMAIN list : list[k] = names[place[k]]
        /\ \A k, l \in DOMAIN list : k < l => place[k] < place[l]
  BY <1>1 DEF IsSublist
<1>5. \A k \in DOMAIN list : place[k] \in places /\ place[k] \in DOMAIN names
  BY <1>3, <1>4
<1>6. ASSUME NEW k \in DOMAIN list, NEW l \in DOMAIN list, list[k] = list[l]
      PROVE  k = l
  <2>1. place[k] = place[l]
    BY <1>4, <1>5, <1>6 DEF DistinctNames
  <2>2. place[k] \in Int /\ ~(place[k] < place[k]) /\ k \in Int /\ l \in Int
    BY <1>1, <1>3, <1>5
  <2>3. QED
    BY <1>4, <2>1, <2>2
<1>7. \A t \in AllNames : Item(s, t) \in TreeItems /\ Item(s, t).name = t
  BY DEF Item, TreeItems
<1>8. DOMAIN new = DOMAIN list /\ \A k \in DOMAIN list :
        list[k] \in AllNames /\ new[k] \in TreeItems /\ new[k].name = list[k]
  BY <1>1, <1>2, <1>7
<1>9. new \in Seq(TreeItems)
  <2>1. Len(list) \in Nat /\ DOMAIN list = 1..Len(list)
    BY <1>1
  <2>2. new \in [1..Len(list) -> TreeItems]
    BY <1>2, <1>8, <2>1
  <2>3. QED
    BY <2>1, <2>2
<1>10. \A k \in DOMAIN new : new[k].name \in ToSet(names) \ m_tableNames
  BY <1>4, <1>5, <1>8, <1>a
<1>11. \A k, l \in DOMAIN new : new[k].name = new[l].name => k = l
  BY <1>6, <1>8
<1>12. QED
  BY <1>9, <1>10, <1>11 DEF new

-----------------------------------------------------------------------------
\* What the walk removes of list when the texts in gone are gone: an item is
\* removed if its text is, unless the one before it was removed.
IsWalk(removed, list, gone) ==
  removed = [i \in 0..Len(list) |->
               IF i = 0 THEN FALSE ELSE list[i].text \in gone /\ ~removed[i - 1]]

LEMMA WalkRemoves ==
  ASSUME NEW list \in Seq(TreeItems), NEW gone
  PROVE  \E removed : /\ AfterWalk(list, gone) = Sublist(list, {i \in DOMAIN list : ~removed[i]})
                      /\ ~removed[0]
                      /\ \A i \in 1..Len(list) :
                           removed[i] <=> list[i].text \in gone /\ ~removed[i - 1]
<1> DEFINE N == Len(list)
           After(i, b) == list[i].text \in gone /\ ~b
           removed == CHOOSE f : IsWalk(f, list, gone)
           step == [p \in (1..N) \X BOOLEAN |-> After(p[1], p[2])]
<1>1. AfterWalk(list, gone) = Sublist(list, {i \in DOMAIN list : ~removed[i]})
  BY DEF AfterWalk, IsWalk
<1>2. N \in Nat
  OBVIOUS
<1>3. /\ step \in [(1..N) \X BOOLEAN -> BOOLEAN]
      /\ \A i \in 1..N, b \in BOOLEAN : step[<<i, b>>] = After(i, b)
  OBVIOUS
<1> HIDE DEF step
<1>4. PICK f : Solves(f, N, BOOLEAN, FALSE, step)
  BY <1>2, <1>3, Recursion
<1>5. IsWalk(f, list, gone)
  <2>1. \A i \in 1..N : i - 1 \in 0..N /\ f[i - 1] \in BOOLEAN
    BY <1>2, <1>4 DEF Solves
  <2>2. \A i \in 1..N : f[i] = After(i, f[i - 1])
    BY <1>3, <1>4, <2>1 DEF Solves
  <2>3. \A i \in 0..N : f[i] = IF i = 0 THEN FALSE ELSE After(i, f[i - 1])
    BY <1>2, <1>4, <2>2 DEF Solves
  <2>4. f = [i \in 0..N |-> f[i]]
    BY <1>4 DEF Solves
  <2>5. QED
    BY <2>3, <2>4 DEF IsWalk
<1>6. IsWalk(removed, list, gone)
  BY <1>5
<1> HIDE DEF removed
<1>7. \A i \in 0..N : removed[i] = IF i = 0 THEN FALSE ELSE After(i, removed[i - 1])
  BY <1>6 DEF IsWalk
<1>8. 0 \in 0..N /\ \A i \in 1..N : i \in 0..N /\ i # 0
  BY <1>2
<1>9. ~removed[0] /\ \A i \in 1..N : removed[i] <=> After(i, removed[i - 1])
  BY <1>7, <1>8
<1>10. QED
  BY <1>1, <1>9

\* The items after a refresh: each is an item of before or a new one, an old
\* one is missing only if its text is gone, and one whose text is gone is there
\* only if the one before it was removed.
IsRefresh(after, list, gone, place, removed) ==
  /\ place \in [DOMAIN after -> DOMAIN list]
  /\ \A k \in DOMAIN after : after[k] = list[place[k]] /\ ~removed[place[k]]
  /\ \A k, l \in DOMAIN after : place[k] = place[l] => k = l
  /\ \A i \in DOMAIN list : ~removed[i] => \E k \in DOMAIN after : place[k] = i
  /\ \A i \in DOMAIN list :
       removed[i] <=> list[i].text \in gone /\ (i - 1 \in DOMAIN list => ~removed[i - 1])

Refreshed(after, list, gone) ==
  after \in Seq(TreeItems) /\ \E place, removed : IsRefresh(after, list, gone, place, removed)

LEMMA WalkRefreshes ==
  ASSUME NEW list \in Seq(TreeItems), NEW gone
  PROVE  Refreshed(AfterWalk(list, gone), list, gone)
<1>1. PICK removed : /\ AfterWalk(list, gone) = Sublist(list, {i \in DOMAIN list : ~removed[i]})
                     /\ ~removed[0]
                     /\ \A i \in 1..Len(list) :
                          removed[i] <=> list[i].text \in gone /\ ~removed[i - 1]
  BY WalkRemoves
<1> DEFINE places == {i \in DOMAIN list : ~removed[i]}
           after == Sublist(list, places)
<1>2. after \in Seq(TreeItems) /\ IsSublist(after, list, places, Len(list))
  BY SublistIs
<1>3. DOMAIN list = 1..Len(list) /\ Len(list) \in Nat
  OBVIOUS
<1>4. \A i : i \in places <=> i \in DOMAIN list /\ ~removed[i]
  OBVIOUS
<1>5. AfterWalk(list, gone) = after
  BY <1>1
<1> HIDE DEF places, after
<1>6. PICK place \in [DOMAIN after -> places \cap 1..Len(list)] :
        /\ \A k \in DOMAIN after : after[k] = list[place[k]]
        /\ \A k, l \in DOMAIN after : k < l => place[k] < place[l]
        /\ \A i \in places \cap 1..Len(list) : \E k \in DOMAIN after : place[k] = i
  BY <1>2 DEF IsSublist
<1>7. \A k \in DOMAIN after : place[k] \in DOMAIN list /\ ~removed[place[k]] /\ place[k] \in Int
  BY <1>3, <1>4, <1>6
<1>8. place \in [DOMAIN after -> DOMAIN list]
  BY <1>6, <1>7
<1>9. ASSUME NEW k \in DOMAIN after, NEW l \in DOMAIN after, place[k] = place[l]
      PROVE  k = l
  <2>1. k \in Int /\ l \in Int /\ ~(place[k] < place[k])
    BY <1>2, <1>7
  <2>2. QED
    BY <1>6, <1>9, <2>1
<1>10. \A i \in DOMAIN list : ~removed[i] => \E k \in DOMAIN after : place[k] = i
  BY <1>3, <1>4, <1>6
<1>11. ASSUME NEW i \in DOMAIN list
       PROVE  removed[i] <=> list[i].text \in gone /\ (i - 1 \in DOMAIN list => ~removed[i - 1])
  <2>1. CASE i = 1
    <3>1. i - 1 = 0 /\ i - 1 \notin DOMAIN list
      BY <1>3, <2>1
    <3>2. QED
      BY <1>1, <1>3, <3>1
  <2>2. CASE i # 1
    <3>1. i - 1 \in DOMAIN list
      BY <1>3, <2>2
    <3>2. QED
      BY <1>1, <1>3, <3>1
  <2>3. QED
    BY <2>1, <2>2
<1>12. IsRefresh(after, list, gone, place, removed)
  BY <1>6, <1>7, <1>8, <1>9, <1>10, <1>11 DEF IsRefresh
<1>13. QED
  BY <1>2, <1>5, <1>12 DEF Refreshed

-----------------------------------------------------------------------------
\* A refresh, and what it makes of the items.
LEMMA RefreshIs ==
  ASSUME TreeInv, NEW s \in Schemas, populateTableTree(s)
  PROVE  \E new \in Seq(TreeItems) :
           /\ Refreshed(items', items \o new, m_tableNames \ m_tableNames')
           /\ \A k \in DOMAIN new : new[k].name \in m_tableNames' \ m_tableNames
           /\ \A k, l \in DOMAIN new : new[k].name = new[l].name => k = l
<1>1. PICK names \in TableNames(s) :
        \E unread \in SUBSET ToSet(names) :
          /\ items' = AfterWalk(items \o Added(s, names, unread), Vanished(names))
          /\ m_tableNames' = ToSet(names)
  BY DEF populateTableTree
<1>2. PICK unread \in SUBSET ToSet(names) :
        /\ items' = AfterWalk(items \o Added(s, names, unread), Vanished(names))
        /\ m_tableNames' = ToSet(names)
  BY <1>1
<1>3. DistinctNames(names)
  BY NamesAreDistinct
<1> DEFINE new == Added(s, names, unread)
<1>4. /\ new \in Seq(TreeItems)
      /\ \A k \in DOMAIN new : new[k].name \in m_tableNames' \ m_tableNames
      /\ \A k, l \in DOMAIN new : new[k].name = new[l].name => k = l
  BY <1>2, <1>3, AddedItems
<1> HIDE DEF new
<1>5. items \o new \in Seq(TreeItems)
  BY <1>4 DEF TreeInv
<1>6. Refreshed(items', items \o new, m_tableNames \ m_tableNames')
  BY <1>2, <1>5, WalkRefreshes DEF Vanished, new
<1>7. QED
  BY <1>4, <1>6

LEMMA TreeStep ==
  ASSUME TreeInv, [Next]_vars
  PROVE  TreeInv'
<1>1. ASSUME NEW s \in Schemas, populateTableTree(s) PROVE TreeInv'
  BY <1>1, RefreshIs DEF Refreshed, TreeInv
<1>2. CASE inactive
  BY <1>2 DEF inactive, TreeInv
<1>3. CASE UNCHANGED vars
  BY <1>3 DEF vars, TreeInv
<1>4. QED
  BY <1>1, <1>2, <1>3 DEF Next, active, Execute, dropTable

LEMMA TreeInvariant == Spec => []TreeInv
<1>1. Init => TreeInv
  BY DEF Init, TreeInv
<1>2. QED
  BY <1>1, TreeStep, PTL DEF Spec

-----------------------------------------------------------------------------
\* A refresh with at most one table gone, the item of which is the only one
\* that shows its name: nothing is skipped that should have been removed.
LEMMA OneGone ==
  ASSUME NEW list \in Seq(TreeItems), NEW new \in Seq(TreeItems), NEW before, NEW now, NEW after,
         Refreshed(after, list \o new, before \ now),
         \A k \in DOMAIN new : new[k].name \in now \ before,
         \A k, l \in DOMAIN new : new[k].name = new[l].name => k = l,
         NothingStale(list, before),
         \A t, u \in before \ now : t = u,
         \A i \in DOMAIN list : list[i].name \in before \ now <=> list[i].text \in before \ now
  PROVE  NothingStale(after, now)
<1> DEFINE all == list \o new
           gone == before \ now
           n == Len(list)
<1>1. /\ n \in Nat /\ DOMAIN list = 1..n /\ Len(new) \in Nat /\ DOMAIN new = 1..Len(new)
      /\ DOMAIN all = 1..n + Len(new)
      /\ \A i \in 1..n : all[i] = list[i]
      /\ \A i \in DOMAIN all : i \notin 1..n => i - n \in DOMAIN new /\ all[i] = new[i - n]
  OBVIOUS
<1>2. \A i \in 1..n : list[i].name \in before
  BY <1>1 DEF NothingStale, Listed, ToSet, NamesOf
<1> HIDE DEF all, n
<1>a. PICK place, removed : IsRefresh(after, all, gone, place, removed)
  BY DEF Refreshed, all
<1>3. /\ place \in [DOMAIN after -> DOMAIN all]
      /\ \A k \in DOMAIN after : after[k] = all[place[k]] /\ ~removed[place[k]]
      /\ \A k, l \in DOMAIN after : place[k] = place[l] => k = l
      /\ \A i \in DOMAIN all :
           removed[i] <=> all[i].text \in gone /\ (i - 1 \in DOMAIN all => ~removed[i - 1])
  BY <1>a DEF IsRefresh
<1> HIDE DEF gone
<1>4. ASSUME NEW i \in 1..n, list[i].name \in gone PROVE removed[i]
  <2>a. i \in DOMAIN list /\ i \in DOMAIN all /\ all[i] = list[i]
    BY <1>1
  <2>b. list[i].text \in gone
    BY <1>4, <2>a DEF gone
  <2>1. i \in DOMAIN all /\ all[i].text \in gone
    BY <2>a, <2>b
  <2>2. ASSUME i - 1 \in DOMAIN all, removed[i - 1] PROVE FALSE
    <3>1. i - 1 \in 1..n
      BY <1>1, <2>2
    <3>2. list[i - 1].text \in gone
      BY <1>1, <1>3, <2>2, <3>1
    <3>3. list[i - 1].name = list[i].name
      BY <1>1, <1>4, <3>1, <3>2 DEF gone
    <3>4. i - 1 = i
      BY <1>1, <3>1, <3>3 DEF NothingStale
    <3>5. QED
      BY <1>1, <3>4
  <2>3. QED
    BY <1>3, <2>1, <2>2
<1>5. \A i \in DOMAIN all : ~removed[i] => all[i].name \in now
  BY <1>1, <1>2, <1>4 DEF gone
<1>6. ASSUME NEW i \in DOMAIN all, NEW j \in DOMAIN all, all[i].name = all[j].name
      PROVE  i = j
  <2>1. CASE i \in 1..n /\ j \in 1..n
    BY <1>1, <1>6, <2>1 DEF NothingStale
  <2>2. CASE i \notin 1..n /\ j \notin 1..n
    <3>1. i - n = j - n
      BY <1>1, <1>6, <2>2
    <3>2. QED
      BY <1>1, <3>1
  <2>3. CASE (i \in 1..n) # (j \in 1..n)
    BY <1>1, <1>2, <1>6, <2>3
  <2>4. QED
    BY <2>1, <2>2, <2>3
<1>7. Listed(after) \subseteq now
  <2>1. \A k \in DOMAIN after : after[k].name \in now
    BY <1>3, <1>5
  <2>2. QED
    BY <2>1 DEF Listed, ToSet, NamesOf
<1>8. \A k, l \in DOMAIN after : after[k].name = after[l].name => k = l
  BY <1>3, <1>6
<1>9. QED
  BY <1>7, <1>8 DEF NothingStale

\* When at most one table is gone, and its item is the only one that shows its
\* name, a refresh leaves nothing in the tree that is stale or there twice,
\* whatever else is created and whatever cannot be read.
THEOREM OneDropIsSafe == Spec => OneDropLeavesNothingStale
<1> DEFINE A ==
      LET gone == m_tableNames \ m_tableNames' IN
      /\ NothingStale(items, m_tableNames)
      /\ \A t, u \in gone : t = u
      /\ \A i \in DOMAIN items : items[i].name \in gone <=> items[i].text \in gone
      => NothingStale(items', m_tableNames')
<1>1. TreeInv /\ [Next]_vars => [A]_vars
  <2>1. SUFFICES ASSUME TreeInv, Next PROVE A
    OBVIOUS
  <2>2. ASSUME NEW s \in Schemas, populateTableTree(s) PROVE A
    <3>1. PICK new \in Seq(TreeItems) :
            /\ Refreshed(items', items \o new, m_tableNames \ m_tableNames')
            /\ \A k \in DOMAIN new : new[k].name \in m_tableNames' \ m_tableNames
            /\ \A k, l \in DOMAIN new : new[k].name = new[l].name => k = l
      BY <2>1, <2>2, RefreshIs
    <3>2. QED
      BY <2>1, <3>1, OneGone DEF TreeInv
  <2>3. CASE inactive
    BY <2>3 DEF inactive, NothingStale, Listed, ToSet, NamesOf
  <2>4. QED
    BY <2>1, <2>2, <2>3 DEF Next, active, Execute, dropTable
<1>2. QED
  BY <1>1, TreeInvariant, PTL DEF Spec, OneDropLeavesNothingStale

\* A table in the tree stays there while each refresh finds it, unless a table
\* is gone whose name is the very text that the item shows.
THEOREM ListedIsSafe == Spec => ListedStaysListed
<1> DEFINE A ==
      isOpen /\ isOpen' =>
        \A t \in Listed(items) \cap m_tableNames' :
          \/ t \in Listed(items')
          \/ \E i \in DOMAIN items :
               items[i].name = t /\ items[i].text \in m_tableNames \ m_tableNames'
<1>1. TreeInv /\ [Next]_vars => [A]_vars
  <2>1. SUFFICES ASSUME TreeInv, Next PROVE A
    OBVIOUS
  <2>2. ASSUME NEW s \in Schemas, populateTableTree(s) PROVE A
    <3>1. SUFFICES ASSUME NEW t \in Listed(items),
                          ~\E i \in DOMAIN items :
                             items[i].name = t /\ items[i].text \in m_tableNames \ m_tableNames'
                   PROVE  t \in Listed(items')
      OBVIOUS
    <3>2. PICK i \in DOMAIN items : items[i].name = t
      BY <3>1 DEF Listed, ToSet, NamesOf
    <3>3. PICK new \in Seq(TreeItems) :
            Refreshed(items', items \o new, m_tableNames \ m_tableNames')
      BY <2>1, <2>2, RefreshIs
    <3>4. i \in DOMAIN (items \o new) /\ (items \o new)[i] = items[i]
      BY <2>1 DEF TreeInv
    <3>a. PICK place, removed :
            IsRefresh(items', items \o new, m_tableNames \ m_tableNames', place, removed)
      BY <3>3 DEF Refreshed
    <3>b. ~removed[i]
      BY <3>1, <3>2, <3>4, <3>a DEF IsRefresh
    <3>5. PICK k \in DOMAIN items' : items'[k] = items[i]
      BY <3>4, <3>a, <3>b DEF IsRefresh
    <3>6. QED
      BY <3>2, <3>5 DEF Listed, ToSet, NamesOf
  <2>3. CASE inactive
    BY <2>3 DEF inactive
  <2>4. QED
    BY <2>1, <2>2, <2>3 DEF Next, active, Execute, dropTable
<1>2. QED
  BY <1>1, TreeInvariant, PTL DEF Spec, ListedStaysListed
=============================================================================
