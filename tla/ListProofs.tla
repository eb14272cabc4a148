----------------------------- MODULE ListProofs -----------------------------
(***************************************************************************)
(* Induction, and the functions defined by it, without an operator for a   *)
(* parameter: a set of natural numbers that has an element has a least     *)
(* one, and a recursion whose step is given as a function has a solution.  *)
(* The proofs about TableTree, MainWindow and the parts of GuiThread that  *)
(* go through a list rest on these three lemmas.                           *)
(***************************************************************************)
EXTENDS Sublist, WellFoundedInduction, TLAPS

\* The least of a set of natural numbers.
LEMMA LeastElement ==
  ASSUME NEW T, T \subseteq Nat, T # {}
  PROVE  \E m \in T : \A k \in T : m <= k
<1> DEFINE less == {p \in Nat \X Nat : p[1] < p[2]}
<1>1. IsWellFoundedOn(less, Nat)
  BY NatLessThanWellFounded DEF OpToRel
<1> HIDE DEF less
<1>2. PICK m \in T : \A k \in T : <<k, m>> \notin less
  BY <1>1, WFMin
<1>3. \A k \in T : ~(k < m)
  BY <1>2 DEF less
<1>4. QED
  BY <1>3

\* A set that has 0, and each next number up to a bound, has all of them.
LEMMA UpToBound ==
  ASSUME NEW S, NEW last \in Nat, 0 \in S, \A n \in 0..last - 1 : n \in S => n + 1 \in S
  PROVE  \A n \in 0..last : n \in S
<1> DEFINE T == {n \in 0..last : n \notin S}
<1>1. SUFFICES ASSUME T # {} PROVE FALSE
  OBVIOUS
<1>2. T \subseteq Nat
  OBVIOUS
<1>3. \A m \in T : m \in 1..last /\ m - 1 \in 0..last - 1 /\ m \notin S
  OBVIOUS
<1>4. \A m : m \in 1..last /\ m - 1 \notin T => m - 1 \in S
  OBVIOUS
<1> HIDE DEF T
<1>5. PICK m \in T : \A k \in T : m <= k
  BY <1>1, <1>2, LeastElement
<1>6. m - 1 \notin T
  BY <1>2, <1>5
<1>7. m - 1 \in S
  BY <1>3, <1>4, <1>6
<1>8. QED
  BY <1>3, <1>7

\* A recursion over 0..last has a solution: each value is had from the one
\* before it by the function step.
Solves(f, last, S, base, step) ==
  /\ f \in [0..last -> S]
  /\ f[0] = base
  /\ \A i \in 1..last : f[i] = step[<<i, f[i - 1]>>]

LEMMA Recursion ==
  ASSUME NEW last \in Nat, NEW S, NEW base \in S, NEW step \in [(1..last) \X S -> S]
  PROVE  \E f : Solves(f, last, S, base, step)
<1> DEFINE Solved == {n \in 0..last : \E f : Solves(f, n, S, base, step)}
<1>1. 0 \in Solved
  <2> DEFINE f == [i \in 0..0 |-> base]
  <2>1. Solves(f, 0, S, base, step)
    BY DEF Solves
  <2> HIDE DEF f
  <2>2. \E h : Solves(h, 0, S, base, step)
    BY <2>1
  <2>3. QED
    BY <2>2
<1>2. ASSUME NEW n \in 0..last - 1, n \in Solved
      PROVE  n + 1 \in Solved
  <2>1. PICK f : Solves(f, n, S, base, step)
    BY <1>2
  <2> DEFINE next == step[<<n + 1, f[n]>>]
             g == [i \in 0..n + 1 |-> IF i = n + 1 THEN next ELSE f[i]]
  <2>2. f[n] \in S /\ next \in S
    BY <2>1 DEF Solves
  <2>3. g \in [0..n + 1 -> S]
    BY <2>1, <2>2 DEF Solves
  <2>4. g[n + 1] = next /\ \A i \in 0..n : g[i] = f[i]
    OBVIOUS
  <2> HIDE DEF g
  <2>5. ASSUME NEW i \in 1..n + 1 PROVE g[i] = step[<<i, g[i - 1]>>]
    <3>1. CASE i = n + 1
      BY <2>4, <3>1
    <3>2. CASE i \in 1..n
      BY <2>1, <2>4, <3>2 DEF Solves
    <3>3. QED
      BY <3>1, <3>2
  <2>6. Solves(g, n + 1, S, base, step)
    BY <2>1, <2>3, <2>4, <2>5 DEF Solves
  <2>7. QED
    BY <2>6
<1> HIDE DEF Solved
<1>3. \A n \in 0..last : n \in Solved
  BY <1>1, <1>2, UpToBound
<1>4. QED
  BY <1>3 DEF Solved

-----------------------------------------------------------------------------
\* sub has the items at some of the first n places of list, in their order:
\* place[k] is where its k-th item is from.
IsSublist(sub, list, places, n) ==
  \E place \in [DOMAIN sub -> places \cap 1..n] :
    /\ \A k \in DOMAIN sub : sub[k] = list[place[k]]
    /\ \A k, l \in DOMAIN sub : k < l => place[k] < place[l]
    /\ \A i \in places \cap 1..n : \E k \in DOMAIN sub : place[k] = i

LEMMA SublistGrows ==
  ASSUME NEW S, NEW list \in Seq(S), NEW places, NEW n \in Nat, n + 1 \in 1..Len(list),
         NEW sub \in Seq(S), IsSublist(sub, list, places, n)
  PROVE  LET next == IF n + 1 \in places THEN Append(sub, list[n + 1]) ELSE sub
         IN  next \in Seq(S) /\ IsSublist(next, list, places, n + 1)
<1>1. PICK place \in [DOMAIN sub -> places \cap 1..n] :
        /\ \A k \in DOMAIN sub : sub[k] = list[place[k]]
        /\ \A k, l \in DOMAIN sub : k < l => place[k] < place[l]
        /\ \A i \in places \cap 1..n : \E k \in DOMAIN sub : place[k] = i
  BY DEF IsSublist
<1>2. CASE n + 1 \notin places
  <2>1. places \cap 1..n + 1 = places \cap 1..n
    BY <1>2
  <2>2. IsSublist(sub, list, places, n + 1)
    BY <1>1, <2>1 DEF IsSublist
  <2>3. QED
    BY <1>2, <2>2
<1>3. CASE n + 1 \in places
  <2> DEFINE next == Append(sub, list[n + 1])
             more == [k \in DOMAIN next |-> IF k = Len(sub) + 1 THEN n + 1 ELSE place[k]]
  <2>1. /\ next \in Seq(S) /\ DOMAIN next = 1..Len(sub) + 1 /\ DOMAIN sub = 1..Len(sub)
        /\ Len(sub) \in Nat
        /\ next[Len(sub) + 1] = list[n + 1]
        /\ \A k \in DOMAIN sub : next[k] = sub[k]
    OBVIOUS
  <2> HIDE DEF next
  <2>2. more[Len(sub) + 1] = n + 1 /\ \A k \in DOMAIN sub : more[k] = place[k]
    BY <2>1
  <2>3. \A k \in DOMAIN next : k = Len(sub) + 1 \/ k \in DOMAIN sub
    BY <2>1
  <2>4. more \in [DOMAIN next -> places \cap 1..n + 1]
    BY <1>1, <1>3, <2>1, <2>3
  <2>a. DOMAIN more = DOMAIN next
    OBVIOUS
  <2> HIDE DEF more
  <2>5. \A k \in DOMAIN next : next[k] = list[more[k]]
    BY <1>1, <2>1, <2>2, <2>3
  <2>6. \A k, l \in DOMAIN next : k < l => more[k] < more[l]
    <3>1. \A k \in DOMAIN sub : place[k] \in 1..n
      BY <1>1
    <3>2. SUFFICES ASSUME NEW k \in DOMAIN next, NEW l \in DOMAIN next, k < l
                   PROVE  more[k] < more[l]
      OBVIOUS
    <3>3. k \in DOMAIN sub
      BY <2>1, <3>2
    <3>4. CASE l \in DOMAIN sub
      BY <1>1, <2>2, <3>2, <3>3, <3>4
    <3>5. CASE l = Len(sub) + 1
      BY <2>2, <3>1, <3>3, <3>5
    <3>6. QED
      BY <2>3, <3>4, <3>5
  <2>7. \A i \in places \cap 1..n + 1 : \E k \in DOMAIN next : more[k] = i
    <3>1. SUFFICES ASSUME NEW i \in places \cap 1..n + 1
                   PROVE  \E k \in DOMAIN next : more[k] = i
      OBVIOUS
    <3>2. CASE i = n + 1
      BY <2>1, <2>2, <3>2
    <3>3. CASE i \in places \cap 1..n
      <4>1. PICK k \in DOMAIN sub : place[k] = i
        BY <1>1, <3>3
      <4>2. k \in DOMAIN next /\ more[k] = i
        BY <2>1, <2>2, <4>1
      <4>3. QED
        BY <4>2
    <3>4. QED
      BY <3>2, <3>3
  <2>8. IsSublist(next, list, places, n + 1)
    BY <2>4, <2>5, <2>6, <2>7 DEF IsSublist
  <2>9. QED
    BY <1>3, <2>1, <2>8 DEF next
<1>4. QED
  BY <1>2, <1>3

\* What Sublist is: the items at the places, and no others, in their order.
LEMMA SublistIs ==
  ASSUME NEW S, NEW list \in Seq(S), NEW places
  PROVE  /\ Sublist(list, places) \in Seq(S)
         /\ IsSublist(Sublist(list, places), list, places, Len(list))
<1> DEFINE Grown(n, sub) == IF n \in places THEN Append(sub, list[n]) ELSE sub
           IsTaken(f) == f = [n \in 0..Len(list) |-> IF n = 0 THEN <<>> ELSE Grown(n, f[n - 1])]
           taken == CHOOSE f : IsTaken(f)
           Lists == Seq(S)
           step == [p \in (1..Len(list)) \X Lists |-> Grown(p[1], p[2])]
<1>1. Len(list) \in Nat /\ \A n \in 1..Len(list) : list[n] \in S
  OBVIOUS
<1>2. \A n \in 1..Len(list), sub \in Lists : Grown(n, sub) \in Lists
  BY <1>1
<1>4. <<>> \in Lists
  OBVIOUS
<1>8. Sublist(list, places) = taken[Len(list)]
  BY DEF Sublist
<1> HIDE DEF Lists, Grown
<1>3. /\ step \in [(1..Len(list)) \X Lists -> Lists]
      /\ \A n \in 1..Len(list), sub \in Lists : step[<<n, sub>>] = Grown(n, sub)
  BY <1>2
<1> HIDE DEF step
<1>5. PICK f : Solves(f, Len(list), Lists, <<>>, step)
  BY <1>1, <1>3, <1>4, Recursion
<1>6. IsTaken(f)
  <2>1. \A n \in 1..Len(list) : n - 1 \in 0..Len(list) /\ f[n - 1] \in Lists
    BY <1>1, <1>5 DEF Solves
  <2>2. \A n \in 1..Len(list) : f[n] = Grown(n, f[n - 1])
    BY <1>3, <1>5, <2>1 DEF Solves
  <2>3. \A n \in 0..Len(list) : f[n] = IF n = 0 THEN <<>> ELSE Grown(n, f[n - 1])
    BY <1>1, <1>5, <2>2 DEF Solves
  <2>4. f = [n \in 0..Len(list) |-> f[n]]
    BY <1>5 DEF Solves
  <2>5. QED
    BY <2>3, <2>4
<1>7. IsTaken(taken)
  BY <1>6
<1> HIDE DEF taken
<1>9. taken[0] = <<>> /\ \A n \in 1..Len(list) : taken[n] = Grown(n, taken[n - 1])
  <2>1. 0 \in 0..Len(list) /\ \A n \in 1..Len(list) : n \in 0..Len(list) /\ n # 0
    BY <1>1
  <2>2. \A n \in 0..Len(list) : taken[n] = IF n = 0 THEN <<>> ELSE Grown(n, taken[n - 1])
    BY <1>7
  <2>3. QED
    BY <2>1, <2>2
<1> USE DEF Lists, Grown
<1> DEFINE Right == {n \in 0..Len(list) : taken[n] \in Seq(S) /\ IsSublist(taken[n], list, places, n)}
<1>10. 0 \in Right
  <2>1. IsSublist(<<>>, list, places, 0)
    <3> DEFINE place == [k \in {} |-> 0]
    <3>1. DOMAIN <<>> = {} /\ 1..0 = {}
      OBVIOUS
    <3>2. place \in [DOMAIN <<>> -> places \cap 1..0]
      BY <3>1
    <3> HIDE DEF place
    <3>3. QED
      BY <3>1, <3>2 DEF IsSublist
  <2>2. taken[0] \in Seq(S) /\ IsSublist(taken[0], list, places, 0)
    BY <1>4, <1>9, <2>1
  <2>3. 0 \in 0..Len(list)
    BY <1>1
  <2>4. QED
    BY <2>2, <2>3
<1>11. ASSUME NEW n \in 0..Len(list) - 1, n \in Right
       PROVE  n + 1 \in Right
  <2>1. /\ n \in Nat /\ n + 1 \in 1..Len(list)
        /\ taken[n] \in Seq(S) /\ IsSublist(taken[n], list, places, n)
    BY <1>1, <1>11
  <2>2. taken[n + 1] = Grown(n + 1, taken[n])
    BY <1>9, <2>1
  <2>3. taken[n + 1] \in Seq(S) /\ IsSublist(taken[n + 1], list, places, n + 1)
    BY <2>1, <2>2, SublistGrows
  <2>4. QED
    BY <2>1, <2>3
<1> HIDE DEF Right
<1>12. \A n \in 0..Len(list) : n \in Right
  BY <1>1, <1>10, <1>11, UpToBound
<1>13. QED
  BY <1>1, <1>8, <1>12 DEF Right
=============================================================================
