--------------------------- MODULE BundleSplit_proofs ---------------------------
(***************************************************************************)
(* Proofs about BundleSplit: what its run checks on three pages holds for  *)
(* every number of pages, every answer of the two passes and every text.   *)
(*                                                                         *)
(* The argument follows the pages.  Lists of ranges (RangeList) are cut    *)
(* into lists that cover the same pages as often (Refines), so a page is   *)
(* in two ranges only if two ranges of the first answer claimed it         *)
(* (Crowds).  Each range gets one owner, whose type is the second pass's   *)
(* or printed unless the owner is in doubt (Settled).  The documents of a  *)
(* page are then at least one and at most two (DocumentsWithin), and each  *)
(* gives it exactly one slice (SlicedServes).                              *)
(***************************************************************************)
EXTENDS BundleSplit, WellFoundedInduction, FiniteSetTheorems, TLAPS

------------------------------------------------------------------------------
(***************************************************************************)
(* Numbers and finite sets                                                 *)
(***************************************************************************)
LEMMA LeastNumber ==
  ASSUME NEW T \in SUBSET Nat, T # {}
  PROVE  Min(T) \in T /\ \A m \in T : Min(T) <= m
<1>1. PICK n \in T : \A m \in T : ~ (<<m, n>> \in OpToRel(<, Nat))
  BY WFMin, NatLessThanWellFounded
<1>2. \A m \in T : ~ (m < n)
  BY <1>1 DEF OpToRel
<1>3. \E x \in T : \A m \in T : x <= m
  BY <1>2
<1> QED
  BY <1>3 DEF Min

LEMMA ByNumber ==
  ASSUME NEW S \in SUBSET Nat, 0 \in S, \A n \in Nat : n \in S => n + 1 \in S
  PROVE  S = Nat
<1> SUFFICES ASSUME Nat \ S # {} PROVE FALSE
  OBVIOUS
<1> DEFINE x == Min(Nat \ S)
<1>1. x \in Nat \ S /\ \A y \in Nat \ S : x <= y
  BY LeastNumber
<1> HIDE DEF x
<1>2. x # 0 /\ x - 1 \in Nat /\ x - 1 < x /\ x = (x - 1) + 1
  BY <1>1
<1>3. x - 1 \in S
  BY <1>1, <1>2
<1> QED
  BY <1>1, <1>2, <1>3

RangeSet == (SUBSET Pages) \ {{}}

LEMMA PagesAre == PageCount \in Nat /\ PageCount > 0 /\ Pages = 1..PageCount
                  /\ Pages \in SUBSET Nat /\ IsFiniteSet(Pages)
<1>1. PageCount \in Nat /\ PageCount > 0 /\ Pages = 1..PageCount
  BY BundleAssumption DEF Pages
<1>2. IsFiniteSet(1..PageCount)
  BY <1>1, FS_Interval
<1> QED
  BY <1>1, <1>2

LEMMA RangeHasEnds ==
  ASSUME NEW range \in RangeSet
  PROVE  /\ Min(range) \in range /\ \A p \in range : Min(range) <= p
         /\ Max(range) \in range
         /\ Min(range) \in Int /\ Max(range) \in Int
<1>1. range \in SUBSET Nat /\ range # {} /\ range \in SUBSET (1..PageCount)
  BY PagesAre DEF RangeSet
<1>2. Min(range) \in range /\ \A p \in range : Min(range) <= p
  BY <1>1, LeastNumber
<1> DEFINE back == {n \in Nat : \E p \in range : n = PageCount - p}
<1>3. back \in SUBSET Nat /\ back # {}
  <2>1. PICK q \in range : TRUE
    BY <1>1
  <2>2. q \in 1..PageCount /\ PageCount \in Nat
    BY <1>1, PagesAre
  <2>3. PageCount - q \in Nat
    BY <2>2
  <2>4. PageCount - q \in back
    BY <2>3
  <2> QED
    BY <2>4
<1>4. Min(back) \in back /\ \A n \in back : Min(back) <= n
  BY <1>3, LeastNumber
<1>5. PICK r \in range : Min(back) = PageCount - r
  BY <1>4
<1>6. \A q \in range : PageCount - q \in back
  BY <1>1, PagesAre
<1> HIDE DEF back
<1>7. \A q \in range : r >= q
  <2>1. ASSUME NEW q \in range PROVE r >= q
    <3>1. Min(back) <= PageCount - q /\ r \in Nat /\ q \in Nat
      BY <1>1, <1>4, <1>6
    <3> QED
      BY <1>5, <3>1, PagesAre
  <2> QED
    BY <2>1
<1>8. Max(range) \in range
  BY <1>7 DEF Max
<1>9. \A p \in range : p \in Int
  BY <1>1
<1> QED
  BY <1>2, <1>8, <1>9

\* A set within two elements, or within one.
LEMMA AtMostTwo ==
  ASSUME NEW x, NEW y, NEW S, S \subseteq {x, y}
  PROVE  /\ IsFiniteSet(S) /\ Cardinality(S) \in Nat /\ Cardinality(S) <= 2
         /\ x = y => Cardinality(S) <= 1
         /\ S # {} => Cardinality(S) # 0
<1>1. /\ IsFiniteSet({}) /\ Cardinality({}) = 0
  BY FS_EmptySet
<1>2. IsFiniteSet({x}) /\ Cardinality({x}) = 1
  BY FS_Singleton
<1>3. IsFiniteSet({x} \cup {y}) /\ Cardinality({x} \cup {y}) \in Nat
      /\ Cardinality({x} \cup {y}) <= 2
  <2>1. /\ IsFiniteSet({x} \cup {y})
        /\ Cardinality({x} \cup {y}) = IF y \in {x} THEN 1 ELSE 1 + 1
    BY <1>2, FS_AddElement
  <2> QED
    BY <2>1
<1>4. {x, y} = {x} \cup {y}
  OBVIOUS
<1>5. IsFiniteSet(S) /\ Cardinality(S) \in Nat /\ Cardinality(S) <= 2
  <2>1. IsFiniteSet(S) /\ Cardinality(S) <= Cardinality({x} \cup {y})
    BY <1>3, <1>4, FS_Subset
  <2>2. Cardinality(S) \in Nat
    BY <2>1, FS_CardinalityType
  <2> QED
    BY <1>3, <2>1, <2>2
<1>6. ASSUME x = y PROVE Cardinality(S) <= 1
  <2>1. S \in SUBSET {x}
    BY <1>6
  <2>2. Cardinality(S) <= Cardinality({x})
    BY <1>2, <2>1, FS_Subset
  <2> QED
    BY <1>2, <2>2
<1>7. S # {} => Cardinality(S) # 0
  BY <1>5, FS_EmptySet
<1> QED
  BY <1>5, <1>6, <1>7

\* Two different members make more than one.
LEMMA MoreThanOne ==
  ASSUME NEW S, IsFiniteSet(S), NEW x \in S, NEW y \in S, x # y
  PROVE  Cardinality(S) > 1
<1>1. IsFiniteSet(S \ {x}) /\ Cardinality(S \ {x}) = Cardinality(S) - 1
  BY FS_RemoveElement
<1>2. Cardinality(S) \in Nat /\ Cardinality(S \ {x}) \in Nat
  BY <1>1, FS_CardinalityType
<1>3. Cardinality(S \ {x}) # 0
  BY <1>1, FS_EmptySet
<1> QED
  BY <1>1, <1>2, <1>3

\* What is not empty and not more than one is one.
LEMMA ExactlyOne ==
  ASSUME NEW S, IsFiniteSet(S), S # {}, ~(Cardinality(S) > 1)
  PROVE  Cardinality(S) = 1
<1>1. Cardinality(S) \in Nat /\ Cardinality(S) # 0
  BY FS_CardinalityType, FS_EmptySet
<1> QED
  BY <1>1

LEMMA OneMember ==
  ASSUME NEW S, Cardinality(S) = 1, IsFiniteSet(S)
  PROVE  S # {} /\ \A x, y \in S : x = y
<1>1. S # {}
  BY FS_EmptySet
<1>2. ASSUME NEW x \in S, NEW y \in S, x # y PROVE FALSE
  BY <1>2, MoreThanOne
<1> QED
  BY <1>1, <1>2

------------------------------------------------------------------------------
(***************************************************************************)
(* Order                                                                   *)
(***************************************************************************)
\* The sequence f lists the set S, every member once.
Lists(f, S) ==
  /\ f \in Seq(S) /\ Len(f) \in Nat /\ DOMAIN f = 1..Len(f)
  /\ \A i, j \in DOMAIN f : f[i] = f[j] => i = j
  /\ \A x \in S : \E i \in DOMAIN f : f[i] = x

Precedence(S, before) ==
  /\ before \in [S -> SUBSET S]
  /\ \A x \in S : x \notin before[x]
  /\ \A x, y \in S : x # y => x \in before[y] \/ y \in before[x]
  /\ \A x, y \in S : x \in before[y] => before[x] \subseteq before[y]

LEMMA PlacedLists ==
  ASSUME NEW S, IsFiniteSet(S), NEW before, Precedence(S, before)
  PROVE  Lists(Placed(S, before), S)
<1> DEFINE n == Cardinality(S)
           rank == [x \in S |-> Cardinality(before[x]) + 1]
           f == Placed(S, before)
<1>1. n \in Nat
  BY FS_CardinalityType
<1>2. f = [r \in 1..n |-> CHOOSE x \in S : Cardinality(before[x]) = r - 1]
  BY DEF Placed
<1> HIDE DEF f, n
<1>3. /\ before \in [S -> SUBSET S]
      /\ \A x \in S : x \notin before[x]
      /\ \A x, y \in S : x # y => x \in before[y] \/ y \in before[x]
      /\ \A x, y \in S : x \in before[y] => before[x] \subseteq before[y]
  BY DEF Precedence
<1>4. ASSUME NEW x \in S
      PROVE  /\ IsFiniteSet(before[x]) /\ Cardinality(before[x]) \in Nat
             /\ Cardinality(before[x]) < n
  <2>1. before[x] \in SUBSET S /\ before[x] # S
    BY <1>3
  <2>2. IsFiniteSet(before[x]) /\ Cardinality(before[x]) <= n
        /\ (n = Cardinality(before[x]) => S = before[x])
    BY <2>1, FS_Subset DEF n
  <2>3. Cardinality(before[x]) \in Nat
    BY <2>2, FS_CardinalityType
  <2> QED
    BY <1>1, <2>1, <2>2, <2>3
<1>5. rank \in [S -> 1..n]
  BY <1>1, <1>4
<1>6. ASSUME NEW x \in S, NEW y \in S, x \in before[y] PROVE rank[x] # rank[y]
  <2>1. before[x] \in SUBSET before[y] /\ before[x] # before[y]
    BY <1>3, <1>6
  <2>2. IsFiniteSet(before[y]) /\ Cardinality(before[x]) \in Nat
        /\ Cardinality(before[y]) \in Nat
    BY <1>4
  <2>3. Cardinality(before[x]) # Cardinality(before[y])
    BY <2>1, <2>2, FS_Subset
  <2> QED
    BY <2>2, <2>3
<1>7. \A x, y \in S : rank[x] = rank[y] => x = y
  BY <1>3, <1>6
<1>8. \A x \in S : rank[x] = Cardinality(before[x]) + 1 /\ Cardinality(before[x]) \in Nat
  BY <1>4
<1> HIDE DEF rank
<1>9. IsFiniteSet(1..n) /\ Cardinality(1..n) = n
  <2>1. IsFiniteSet(1..n) /\ Cardinality(1..n) = IF 1 > n THEN 0 ELSE n - 1 + 1
    BY <1>1, FS_Interval
  <2> QED
    BY <1>1, <2>1
<1>10. \A r \in 1..n : \E x \in S : rank[x] = r
  <2>1. rank \in Injection(S, 1..n)
    BY <1>5, <1>7 DEF Injection, IsInjective
  <2>2. rank \in Surjection(S, 1..n)
    BY <1>9, <2>1, FS_Injection DEF n
  <2> QED
    BY <2>2 DEF Surjection
<1>11. \A r \in 1..n : f[r] \in S /\ rank[f[r]] = r
  <2>1. ASSUME NEW r \in 1..n PROVE f[r] \in S /\ rank[f[r]] = r
    <3>1. \E x \in S : Cardinality(before[x]) = r - 1
      BY <1>1, <1>8, <1>10
    <3>2. f[r] \in S /\ Cardinality(before[f[r]]) = r - 1
      BY <1>2, <3>1
    <3> QED
      BY <1>1, <1>8, <3>2
  <2> QED
    BY <2>1
<1>12. f \in [1..n -> S]
  BY <1>2, <1>11
<1>13. f \in Seq(S) /\ Len(f) = n /\ DOMAIN f = 1..n
  BY <1>1, <1>12
<1>14. \A i, j \in 1..n : f[i] = f[j] => i = j
  BY <1>11
<1>15. \A x \in S : rank[x] \in 1..n /\ f[rank[x]] = x
  BY <1>5, <1>7, <1>11
<1> QED
  BY <1>1, <1>13, <1>14, <1>15 DEF Lists, f

LEMMA AscendingLists ==
  ASSUME NEW S \in SUBSET Int, IsFiniteSet(S)
  PROVE  Lists(Ascending(S), S)
<1> DEFINE before == [n \in S |-> {m \in S : m < n}]
<1>1. before \in [S -> SUBSET S] /\ \A x, y \in S : x \in before[y] <=> x < y
  OBVIOUS
<1> HIDE DEF before
<1>3. \A x, y \in S : x \in before[y] => before[x] \subseteq before[y]
  <2>1. ASSUME NEW x \in S, NEW y \in S, x \in before[y], NEW z \in before[x]
        PROVE  z \in before[y]
    <3>1. z \in S /\ z < x /\ x < y
      BY <1>1, <2>1
    <3> QED
      BY <1>1, <3>1
  <2> QED
    BY <2>1
<1>4. Precedence(S, before)
  BY <1>1, <1>3 DEF Precedence
<1>5. Lists(Placed(S, before), S)
  BY <1>4, PlacedLists
<1> QED
  BY <1>5 DEF Ascending, before

LEMMA KeptIn ==
  ASSUME NEW X, NEW seq \in Seq(X), NEW at \in SUBSET DOMAIN seq
  PROVE  /\ Kept(seq, at) \in Seq(X)
         /\ Lists(Ascending(at), at)
         /\ DOMAIN Kept(seq, at) = DOMAIN Ascending(at)
         /\ \A k \in DOMAIN Kept(seq, at) : Kept(seq, at)[k] = seq[Ascending(at)[k]]
<1>1. at \in SUBSET Int /\ DOMAIN seq = 1..Len(seq) /\ Len(seq) \in Nat
  OBVIOUS
<1>2. IsFiniteSet(at)
  <2>1. IsFiniteSet(1..Len(seq))
    BY <1>1, FS_Interval
  <2> QED
    BY <1>1, <2>1, FS_Subset
<1>3. Lists(Ascending(at), at)
  BY <1>1, <1>2, AscendingLists
<1> DEFINE order == Ascending(at)
<1> HIDE DEF order
<1>4. order \in Seq(at) /\ Len(order) \in Nat /\ DOMAIN order = 1..Len(order)
  BY <1>3 DEF Lists, order
<1>5. \A k \in 1..Len(order) : order[k] \in at
  BY <1>4
<1>6. Kept(seq, at) = [k \in 1..Len(order) |-> seq[order[k]]]
  BY <1>4 DEF Kept, order
<1>7. \A k \in 1..Len(order) : seq[order[k]] \in X
  BY <1>1, <1>5
<1>8. Kept(seq, at) \in Seq(X)
  BY <1>4, <1>6, <1>7
<1> QED
  BY <1>3, <1>4, <1>6, <1>8 DEF order

------------------------------------------------------------------------------
(***************************************************************************)
(* Ranges                                                                  *)
(***************************************************************************)
\* The pieces are parts of S that do not overlap and leave nothing out.
Divides(pieces, S) ==
  /\ pieces \in Seq(RangeSet) /\ Len(pieces) \in Nat /\ DOMAIN pieces = 1..Len(pieces)
  /\ \A i \in DOMAIN pieces : pieces[i] \in RangeSet /\ pieces[i] \subseteq S
  /\ \A i, j \in DOMAIN pieces, p \in S :
       p \in pieces[i] /\ p \in pieces[j] => i = j
  /\ \A p \in S : \E i \in DOMAIN pieces : p \in pieces[i]

\* page_ranges divides a set of pages.
LEMMA RunsDivide ==
  ASSUME NEW S \in SUBSET Pages
  PROVE  Divides(Runs(S), S)
<1> DEFINE begin == {p \in S : p - 1 \notin S}
           starts == Ascending(begin)
           n == Len(starts)
           run(q) == {p \in S : p >= q /\ q..p \subseteq S}
<1>1. S \in SUBSET Nat /\ S \in SUBSET Int
  BY PagesAre
<1>2. begin \in SUBSET Int /\ begin \in SUBSET Pages
  BY <1>1
<1>3. IsFiniteSet(begin)
  BY <1>2, PagesAre, FS_Subset
<1>4. Lists(starts, begin)
  BY <1>2, <1>3, AscendingLists
<1>5. /\ n \in Nat /\ DOMAIN starts = 1..n
      /\ \A i \in 1..n : starts[i] \in begin
      /\ \A i, j \in 1..n : starts[i] = starts[j] => i = j
      /\ \A q \in begin : \E i \in 1..n : starts[i] = q
  <2> HIDE DEF starts, begin
  <2> QED
    BY <1>4 DEF Lists
<1>6. Runs(S) = [i \in 1..n |-> run(starts[i])]
  <2>1. Runs(S) = [i \in DOMAIN starts |-> run(starts[i])]
    BY DEF Runs
  <2> HIDE DEF starts, n, run
  <2> QED
    BY <1>5, <2>1
<1>7. \A q \in begin : q \in S /\ q - 1 \notin S /\ q \in Int
  BY <1>1
<1> HIDE DEF starts, n
<1>8. ASSUME NEW q \in begin PROVE run(q) \in RangeSet /\ run(q) \subseteq S
  <2>1. q \in S /\ q \in Int
    BY <1>7
  <2>2. q..q = {q}
    BY <2>1
  <2>3. q \in run(q)
    BY <2>1, <2>2
  <2> QED
    BY <2>3 DEF RangeSet
<1>9. ASSUME NEW p \in S PROVE \E q \in begin : p \in run(q)
  <2> DEFINE low == {q \in S : q <= p /\ q..p \subseteq S}
  <2>1. p \in Nat /\ p..p = {p}
    BY <1>1
  <2>2. low \in SUBSET Nat /\ p \in low
    <3>1. p <= p /\ p..p \subseteq S
      BY <2>1
    <3> QED
      BY <1>1, <3>1
  <2> DEFINE q == Min(low)
  <2>3. q \in low /\ \A m \in low : q <= m
    BY <2>2, LeastNumber
  <2> HIDE DEF q
  <2>4. q \in S /\ q \in Nat /\ q <= p /\ q..p \subseteq S
    BY <1>1, <2>3
  <2>5. ASSUME q - 1 \in S PROVE FALSE
    <3>1. q - 1 \in Nat /\ q - 1 <= p
      BY <1>1, <2>1, <2>4, <2>5
    <3>2. (q - 1)..p \subseteq S
      <4>1. ASSUME NEW m \in (q - 1)..p PROVE m \in S
        <5>1. m = q - 1 \/ m \in q..p
          BY <2>1, <2>4
        <5> QED
          BY <2>4, <2>5, <5>1
      <4> QED
        BY <4>1
    <3>3. q - 1 \in low
      BY <2>5, <3>1, <3>2
    <3>4. q <= q - 1
      BY <2>3, <3>3
    <3> QED
      BY <2>4, <3>4
  <2>6. q \in begin
    BY <2>4, <2>5
  <2>7. p \in run(q)
    BY <2>1, <2>4
  <2> HIDE DEF low
  <2> QED
    BY <2>6, <2>7
<1>10. ASSUME NEW q \in begin, NEW r \in begin, NEW p \in run(q), p \in run(r), q < r
       PROVE  FALSE
  <2>1. p \in Nat /\ q \in Nat /\ r \in Nat /\ r <= p /\ q..p \subseteq S
    BY <1>1, <1>7, <1>10
  <2>2. r - 1 \in q..p
    BY <1>10, <2>1
  <2> QED
    BY <1>7, <2>1, <2>2
<1>11. ASSUME NEW q \in begin, NEW r \in begin, NEW p \in run(q), p \in run(r)
       PROVE  q = r
  <2>1. q < r \/ r < q \/ q = r
    BY <1>7
  <2> QED
    BY <1>10, <1>11, <2>1
<1> HIDE DEF begin, run
<1>12. /\ DOMAIN Runs(S) = 1..n
       /\ \A i \in 1..n : Runs(S)[i] = run(starts[i])
  BY <1>6
<1>13. /\ Runs(S) \in [1..n -> RangeSet]
       /\ \A i \in 1..n : Runs(S)[i] \subseteq S
  BY <1>5, <1>6, <1>8
<1>14. \A i, j \in 1..n, p \in S : p \in Runs(S)[i] /\ p \in Runs(S)[j] => i = j
  BY <1>5, <1>11, <1>12
<1>15. \A p \in S : \E i \in 1..n : p \in Runs(S)[i]
  BY <1>5, <1>9, <1>12
<1>16. Runs(S) \in Seq(RangeSet) /\ Len(Runs(S)) = n
  BY <1>5, <1>13
<1> QED
  BY <1>5, <1>12, <1>13, <1>14, <1>15, <1>16 DEF Divides

\* Two ranges of one list have p.
Doubled(ranges, p) ==
  \E i, j \in DOMAIN ranges : i # j /\ p \in ranges[i] /\ p \in ranges[j]

RangeList(ranges) ==
  /\ ranges \in Seq(RangeSet) /\ Len(ranges) \in Nat /\ DOMAIN ranges = 1..Len(ranges)
  /\ \A i \in DOMAIN ranges : ranges[i] \in RangeSet

Refines(pieces, ranges) ==
  /\ RangeList(pieces)
  /\ \A k \in DOMAIN pieces : \E i \in DOMAIN ranges : pieces[k] \subseteq ranges[i]
  /\ \A p \in Pages : Doubled(pieces, p) => Doubled(ranges, p)

\* Cutting ranges, wherever, makes no two of them share a page.
LEMMA CutAllRefines ==
  ASSUME NEW ranges, RangeList(ranges), NEW cuts
  PROVE  Refines(CutAll(ranges, cuts), ranges)
<1> DEFINE all == (DOMAIN ranges) \X Pages
           starts == {s \in all : s[2] \in ranges[s[1]]
                                  /\ s[2] \in {Min(ranges[s[1]])} \cup cuts[s[1]]}
           before == [s \in starts |->
                 {t \in starts : t[1] < s[1] \/ (t[1] = s[1] /\ t[2] < s[2])}]
           order == Placed(starts, before)
           n == Len(order)
           piece(s) == {p \in ranges[s[1]] :
                          /\ p >= s[2]
                          /\ \A q \in Pages :
                               s[2] < q /\ q <= p => <<s[1], q>> \notin starts}
           cut == CutAll(ranges, cuts)
<1>1. /\ Len(ranges) \in Nat /\ DOMAIN ranges = 1..Len(ranges)
      /\ \A i \in DOMAIN ranges : ranges[i] \in RangeSet
  BY DEF RangeList
<1>2. \A s \in starts : /\ s = <<s[1], s[2]>> /\ s[1] \in DOMAIN ranges
                        /\ s[2] \in Pages /\ s[1] \in Int /\ s[2] \in Int
                        /\ s[2] \in ranges[s[1]]
  BY <1>1, PagesAre
<1>3. IsFiniteSet(starts)
  <2>1. IsFiniteSet(DOMAIN ranges)
    BY <1>1, FS_Interval
  <2>2. IsFiniteSet(all)
    BY <2>1, PagesAre, FS_Product
  <2>3. starts \in SUBSET all
    OBVIOUS
  <2> QED
    BY <2>2, <2>3, FS_Subset
<1>4. cut = [k \in DOMAIN order |-> piece(order[k])]
  BY DEF CutAll
<1>5. /\ before \in [starts -> SUBSET starts]
      /\ \A s, t \in starts :
           t \in before[s] <=> t[1] < s[1] \/ (t[1] = s[1] /\ t[2] < s[2])
  OBVIOUS
<1>6. \A i \in DOMAIN ranges : <<i, Min(ranges[i])>> \in starts
  <2>1. ASSUME NEW i \in DOMAIN ranges PROVE <<i, Min(ranges[i])>> \in starts
    <3>1. Min(ranges[i]) \in ranges[i] /\ ranges[i] \subseteq Pages
      BY <1>1, RangeHasEnds DEF RangeSet
    <3> QED
      BY <3>1
  <2> QED
    BY <2>1
<1> HIDE DEF starts, cut
<1>7. Precedence(starts, before)
  <2>1. \A s \in starts : s \notin before[s]
    BY <1>2, <1>5
  <2>2. \A s, t \in starts : s # t => s \in before[t] \/ t \in before[s]
    <3>1. ASSUME NEW s \in starts, NEW t \in starts, s # t
          PROVE  s \in before[t] \/ t \in before[s]
      <4>1. s[1] # t[1] \/ s[2] # t[2]
        BY <1>2, <3>1
      <4>2. /\ s[1] \in Int /\ s[2] \in Int /\ t[1] \in Int /\ t[2] \in Int
            /\ (s \in before[t] <=> s[1] < t[1] \/ (s[1] = t[1] /\ s[2] < t[2]))
            /\ (t \in before[s] <=> t[1] < s[1] \/ (t[1] = s[1] /\ t[2] < s[2]))
        BY <1>2, <1>5
      <4> HIDE DEF before
      <4> QED
        BY <4>1, <4>2
    <3> QED
      BY <3>1
  <2>3. ASSUME NEW s \in starts, NEW t \in starts, s \in before[t], NEW u \in before[s]
        PROVE  u \in before[t]
    <3>1. u \in starts
      BY <1>5
    <3>2. /\ s[1] \in Int /\ s[2] \in Int /\ t[1] \in Int /\ t[2] \in Int
          /\ u[1] \in Int /\ u[2] \in Int
          /\ s[1] < t[1] \/ (s[1] = t[1] /\ s[2] < t[2])
          /\ u[1] < s[1] \/ (u[1] = s[1] /\ u[2] < s[2])
          /\ (u \in before[t] <=> u[1] < t[1] \/ (u[1] = t[1] /\ u[2] < t[2]))
      BY <1>2, <1>5, <2>3, <3>1
    <3> HIDE DEF before
    <3> QED
      BY <3>2
  <2> HIDE DEF before
  <2> QED
    BY <1>5, <2>1, <2>2, <2>3 DEF Precedence
<1> HIDE DEF before
<1>8. Lists(order, starts)
  BY <1>3, <1>7, PlacedLists
<1> HIDE DEF order
<1>9. /\ n \in Nat /\ DOMAIN order = 1..n
      /\ \A k \in 1..n : order[k] \in starts
      /\ \A k, l \in 1..n : order[k] = order[l] => k = l
  BY <1>8 DEF Lists
<1> HIDE DEF n
<1>10. ASSUME NEW s \in starts
       PROVE  piece(s) \in RangeSet /\ piece(s) \subseteq ranges[s[1]]
  <2>1. /\ s[2] \in Int /\ s[2] \in ranges[s[1]] /\ ranges[s[1]] \in RangeSet
    BY <1>1, <1>2
  <2>2. \A q \in Pages : ~(s[2] < q /\ q <= s[2])
    BY <2>1, PagesAre
  <2>3. s[2] \in piece(s)
    BY <2>1, <2>2
  <2> QED
    BY <2>1, <2>3 DEF RangeSet
<1>11. ASSUME NEW s \in starts, NEW t \in starts, NEW p \in piece(s), p \in piece(t),
              s[1] = t[1], s[2] < t[2]
       PROVE  FALSE
  <2>1. t = <<s[1], t[2]>> /\ t[2] \in Pages /\ t[2] <= p
    BY <1>2, <1>11
  <2> QED
    BY <1>11, <2>1
<1>12. ASSUME NEW s \in starts, NEW t \in starts, NEW p \in piece(s), p \in piece(t),
              s # t
       PROVE  s[1] # t[1]
  <2>1. ASSUME s[1] = t[1] PROVE FALSE
    <3>1. s[2] # t[2] /\ s[2] \in Int /\ t[2] \in Int
      BY <1>2, <1>12, <2>1
    <3>2. s[2] < t[2] \/ t[2] < s[2]
      BY <3>1
    <3> QED
      BY <1>11, <1>12, <2>1, <3>2
  <2> QED
    BY <2>1
<1>13. \A s \in starts : piece(s) \in RangeSet /\ piece(s) \subseteq ranges[s[1]]
  BY <1>10
<1> HIDE DEF piece
<1>14. /\ DOMAIN cut = 1..n /\ cut \in [1..n -> RangeSet]
       /\ \A k \in 1..n : cut[k] = piece(order[k])
  BY <1>4, <1>9, <1>13
<1>15. RangeList(cut)
  BY <1>9, <1>14 DEF RangeList
<1>16. \A k \in 1..n : \E i \in DOMAIN ranges : cut[k] \subseteq ranges[i]
  BY <1>2, <1>9, <1>13, <1>14
<1>17. ASSUME NEW p \in Pages, Doubled(cut, p) PROVE Doubled(ranges, p)
  <2>1. PICK k \in 1..n, l \in 1..n : k # l /\ p \in cut[k] /\ p \in cut[l]
    BY <1>14, <1>17 DEF Doubled
  <2>2. /\ order[k] \in starts /\ order[l] \in starts /\ order[k] # order[l]
        /\ p \in piece(order[k]) /\ p \in piece(order[l])
    BY <1>9, <1>14, <2>1
  <2>3. /\ order[k][1] # order[l][1] /\ order[k][1] \in DOMAIN ranges
        /\ order[l][1] \in DOMAIN ranges
        /\ p \in ranges[order[k][1]] /\ p \in ranges[order[l][1]]
    BY <1>2, <1>12, <1>13, <2>2
  <2> QED
    BY <2>3 DEF Doubled
<1> QED
  BY <1>14, <1>15, <1>16, <1>17 DEF Refines, cut

------------------------------------------------------------------------------
(***************************************************************************)
(* The first pass                                                          *)
(***************************************************************************)
\* What the provers need to know of an answer.
LEMMA BoundaryAnswerIs ==
  ASSUME NEW answer \in {<<>>} \cup BoundaryAnswers
  PROVE  /\ answer \in Seq(Segment) /\ Len(answer) \in Nat
         /\ DOMAIN answer = 1..Len(answer) /\ IsFiniteSet(DOMAIN answer)
         /\ Clean(answer) \in SUBSET DOMAIN answer
         /\ \A i \in Clean(answer) : answer[i].pages \in RangeSet
<1>1. answer \in Seq(Segment)
  <2>1. BoundaryAnswers \subseteq Seq(Segment)
    BY BundleAssumption
  <2>2. <<>> \in Seq(Segment)
    OBVIOUS
  <2> QED
    BY <2>1, <2>2
<1>2. Len(answer) \in Nat /\ DOMAIN answer = 1..Len(answer)
  BY <1>1
<1>3. IsFiniteSet(DOMAIN answer)
  BY <1>2, FS_Interval
<1>4. Clean(answer) \in SUBSET DOMAIN answer
  BY DEF Clean
<1>5. ASSUME NEW i \in Clean(answer) PROVE answer[i].pages \in RangeSet
  <2>1. i \in DOMAIN answer /\ answer[i].clean
    BY <1>5 DEF Clean
  <2>2. answer \in BoundaryAnswers
    BY <2>1
  <2>3. IsRange(answer[i].pages) /\ answer[i].pages \subseteq Pages
    BY <2>1, <2>2, BundleAssumption
  <2> QED
    BY <2>3 DEF IsRange, RangeSet
<1> QED
  BY <1>1, <1>2, <1>3, <1>4, <1>5

LEMMA TypeAnswerIs ==
  ASSUME NEW answer \in {<<>>} \cup TypeAnswers
  PROVE  /\ answer \in Seq(TypedSegment) /\ Len(answer) \in Nat
         /\ DOMAIN answer = 1..Len(answer) /\ IsFiniteSet(DOMAIN answer)
         /\ Clean(answer) \in SUBSET DOMAIN answer
         /\ \A i \in DOMAIN answer : answer[i].cat \in Labels
<1>1. answer \in Seq(TypedSegment)
  <2>1. TypeAnswers \subseteq Seq(TypedSegment)
    BY BundleAssumption
  <2>2. <<>> \in Seq(TypedSegment)
    OBVIOUS
  <2> QED
    BY <2>1, <2>2
<1>2. Len(answer) \in Nat /\ DOMAIN answer = 1..Len(answer)
  BY <1>1
<1>3. IsFiniteSet(DOMAIN answer)
  BY <1>2, FS_Interval
<1>4. Clean(answer) \in SUBSET DOMAIN answer
  BY DEF Clean
<1>5. \A i \in DOMAIN answer : answer[i] \in TypedSegment
  BY <1>1
<1>6. \A i \in DOMAIN answer : answer[i].cat \in Labels
  BY <1>5 DEF TypedSegment
<1> QED
  BY <1>1, <1>2, <1>3, <1>4, <1>6

LEMMA OnFinite ==
  ASSUME NEW answer, IsFiniteSet(DOMAIN answer), NEW p
  PROVE  /\ IsFiniteSet(On(answer, p)) /\ IsFiniteSet(OnClean(answer, p))
         /\ OnClean(answer, p) \in SUBSET On(answer, p)
<1>1. On(answer, p) \in SUBSET DOMAIN answer
  BY DEF On
<1>2. OnClean(answer, p) \in SUBSET On(answer, p)
  BY DEF OnClean
<1>3. IsFiniteSet(On(answer, p))
  BY <1>1, FS_Subset
<1> QED
  BY <1>2, <1>3, FS_Subset

\* A page of two proposed ranges is a page that the first pass gave twice.
Crowds(ranges, answer) ==
  \A p \in Pages : Doubled(ranges, p) => Cardinality(OnClean(answer, p)) > 1

LEMMA ProposedCrowds ==
  ASSUME NEW answer \in BoundaryAnswers
  PROVE  RangeList(Proposed(answer)) /\ Crowds(Proposed(answer), answer)
<1> DEFINE clean == Kept(answer, Clean(answer))
           order == Ascending(Clean(answer))
           ranges == Ranges(answer)
<1>1. /\ answer \in Seq(Segment) /\ Clean(answer) \in SUBSET DOMAIN answer
      /\ \A i \in Clean(answer) : answer[i].pages \in RangeSet
      /\ IsFiniteSet(DOMAIN answer)
  BY BoundaryAnswerIs
<1>2. /\ clean \in Seq(Segment) /\ Lists(order, Clean(answer))
      /\ DOMAIN clean = DOMAIN order
      /\ \A k \in DOMAIN clean : clean[k] = answer[order[k]]
  BY <1>1, KeptIn
<1>3. ranges = [k \in DOMAIN clean |-> clean[k].pages]
  BY DEF Ranges
<1> HIDE DEF clean, order, ranges
<1>4. /\ Len(clean) \in Nat /\ DOMAIN clean = 1..Len(clean)
      /\ \A k \in DOMAIN clean : order[k] \in Clean(answer)
      /\ \A k, l \in DOMAIN clean : order[k] = order[l] => k = l
  <2>1. Len(clean) \in Nat /\ DOMAIN clean = 1..Len(clean)
    BY <1>2
  <2>2. \A k \in DOMAIN order : order[k] \in Clean(answer)
    BY <1>2 DEF Lists
  <2>3. \A k, l \in DOMAIN order : order[k] = order[l] => k = l
    BY <1>2 DEF Lists
  <2> QED
    BY <1>2, <2>1, <2>2, <2>3
<1>5. \A k \in DOMAIN clean : ranges[k] = answer[order[k]].pages /\ ranges[k] \in RangeSet
  BY <1>1, <1>2, <1>3, <1>4
<1>6. ranges \in [1..Len(clean) -> RangeSet] /\ Len(clean) \in Nat
  BY <1>3, <1>4, <1>5
<1>7. RangeList(ranges)
  BY <1>6 DEF RangeList
<1>8. Proposed(answer) = CutAll(ranges, [i \in DOMAIN ranges |-> ExplicitCuts(ranges[i])])
  BY DEF Proposed, ranges
<1>9. Refines(Proposed(answer), ranges)
  BY <1>7, <1>8, CutAllRefines
<1>10. RangeList(Proposed(answer))
  BY <1>9 DEF Refines
<1>11. ASSUME NEW p \in Pages, Doubled(Proposed(answer), p)
       PROVE  Cardinality(OnClean(answer, p)) > 1
  <2>1. Doubled(ranges, p)
    BY <1>9, <1>11 DEF Refines
  <2>2. PICK k \in DOMAIN clean, l \in DOMAIN clean :
               k # l /\ p \in ranges[k] /\ p \in ranges[l]
    BY <1>3, <2>1 DEF Doubled
  <2>3. /\ order[k] # order[l] /\ order[k] \in Clean(answer) /\ order[l] \in Clean(answer)
        /\ p \in answer[order[k]].pages /\ p \in answer[order[l]].pages
    BY <1>4, <1>5, <2>2
  <2>4. order[k] \in OnClean(answer, p) /\ order[l] \in OnClean(answer, p)
    BY <1>1, <2>3 DEF OnClean, On
  <2>5. IsFiniteSet(OnClean(answer, p))
    BY <1>1, OnFinite
  <2> QED
    BY <2>3, <2>4, <2>5, MoreThanOne
<1>12. Crowds(Proposed(answer), answer)
  BY <1>11 DEF Crowds
<1> QED
  BY <1>10, <1>12

------------------------------------------------------------------------------
(***************************************************************************)
(* The owner of a range                                                    *)
(***************************************************************************)
Claim == [cat : Labels, doubt : BOOLEAN]
Owner == [pages : RangeSet, cat : Labels, doubt : BOOLEAN, last : Int]

\* The second pass gave exactly this range this type.
Says(range, cat) ==
  \E j \in Clean(types) : types[j].pages = range /\ types[j].cat = cat

TypedBy(claim, range) == ~claim.doubt => Says(range, claim.cat)

LEMMA TypedIn ==
  ASSUME types \in {<<>>} \cup TypeAnswers, NEW range \in RangeSet
  PROVE  Typed(range) \in Claim /\ TypedBy(Typed(range), range)
<1> DEFINE over == {i \in Classified : types[i].pages \cap range # {}}
           exact == {i \in over : types[i].pages = range}
           opening == {i \in over : Min(range) \in types[i].pages}
           cats == {types[i].cat : i \in over}
           at(cat) == UNION {types[i].pages \cap range :
                               i \in {j \in over : types[j].cat = cat}}
           owner == IF Cardinality(exact) = 1
                    THEN [cat |-> types[CHOOSE i \in exact : TRUE].cat,
                          doubt |-> FALSE]
                    ELSE IF Cardinality(cats) = 1
                    THEN [cat |-> CHOOSE c \in cats : TRUE, doubt |-> exact = {}]
                    ELSE IF Cardinality(opening) = 1
                    THEN [cat |-> types[CHOOSE i \in opening : TRUE].cat,
                          doubt |-> TRUE]
                    ELSE [cat |-> Undefined, doubt |-> TRUE]
           long == {c \in cats \ {Cover} :
                      10 * Cardinality(at(c)) >= 8 * Cardinality(range)}
           suspect == /\ owner.cat = Cover /\ Cardinality(range) > LongCover
                      /\ Cardinality(cats) > 1
<1>1. Typed(range) = IF suspect
                     THEN [cat |-> IF long = {} THEN Undefined
                                   ELSE CHOOSE c \in long : TRUE,
                           doubt |-> TRUE]
                     ELSE owner
  BY DEF Typed
<1>2. /\ IsFiniteSet(DOMAIN types) /\ Clean(types) \in SUBSET DOMAIN types
      /\ \A i \in DOMAIN types : types[i].cat \in Labels
  BY TypeAnswerIs
<1>3. Undefined \in Labels
  BY DEF Labels
<1>4. /\ over \in SUBSET Clean(types) /\ exact \in SUBSET over /\ opening \in SUBSET over
      /\ long \in SUBSET cats
  BY DEF Classified
<1>5. IsFiniteSet(over) /\ IsFiniteSet(exact) /\ IsFiniteSet(opening)
  <2> HIDE DEF over, exact, opening
  <2>1. IsFiniteSet(Clean(types))
    BY <1>2, FS_Subset
  <2>2. IsFiniteSet(over)
    BY <1>4, <2>1, FS_Subset
  <2> QED
    BY <1>4, <2>2, FS_Subset
<1>6. IsFiniteSet(cats)
  <2> DEFINE f == [i \in over |-> types[i].cat]
  <2>1. f \in [over -> cats] /\ \A c \in cats : \E i \in over : f[i] = c
    OBVIOUS
  <2> HIDE DEF over, cats, f
  <2>2. f \in Surjection(over, cats)
    BY <2>1 DEF Surjection
  <2> QED
    BY <1>5, <2>2, FS_Surjection
<1>7. cats \in SUBSET Labels /\ \A i \in over : types[i].cat \in cats /\ types[i].cat \in Labels
  BY <1>2, <1>4
<1>8. \A i \in exact : i \in Clean(types) /\ types[i].pages = range /\ i \in over
  BY <1>4
<1> HIDE DEF over, exact, opening, cats, long, at
<1>9. ASSUME Cardinality(exact) = 1 PROVE owner \in Claim /\ TypedBy(owner, range)
  <2> DEFINE i == CHOOSE i \in exact : TRUE
  <2>1. exact # {}
    BY <1>5, <1>9, OneMember
  <2>2. i \in exact
    BY <2>1
  <2> HIDE DEF i
  <2>3. owner = [cat |-> types[i].cat, doubt |-> FALSE]
    BY <1>9 DEF i
  <2>4. types[i].cat \in Labels /\ i \in Clean(types) /\ types[i].pages = range
    BY <1>7, <1>8, <2>2
  <2> HIDE DEF owner
  <2> QED
    BY <2>3, <2>4 DEF Claim, TypedBy, Says
<1>10. ASSUME Cardinality(exact) # 1, Cardinality(cats) = 1
       PROVE  owner \in Claim /\ TypedBy(owner, range)
  <2> DEFINE c == CHOOSE c \in cats : TRUE
  <2>1. cats # {} /\ \A x, y \in cats : x = y
    BY <1>6, <1>10, OneMember
  <2>2. c \in cats
    BY <2>1
  <2>3. owner = [cat |-> c, doubt |-> exact = {}]
    BY <1>10
  <2> HIDE DEF c, owner
  <2>4. c \in Labels
    BY <1>7, <2>2
  <2>5. \A i \in exact : types[i].cat = c /\ i \in Clean(types) /\ types[i].pages = range
    BY <1>7, <1>8, <2>1, <2>2
  <2>6. owner.cat = c /\ (owner.doubt <=> exact = {}) /\ owner.doubt \in BOOLEAN
    BY <2>3
  <2>7. owner \in Claim
    BY <2>3, <2>4, <2>6 DEF Claim
  <2>8. ~owner.doubt => Says(range, owner.cat)
    BY <2>5, <2>6 DEF Says
  <2> QED
    BY <2>7, <2>8 DEF TypedBy
<1>11. ASSUME Cardinality(exact) # 1, Cardinality(cats) # 1, Cardinality(opening) = 1
       PROVE  owner \in Claim /\ TypedBy(owner, range)
  <2> DEFINE i == CHOOSE i \in opening : TRUE
  <2>1. opening # {}
    BY <1>5, <1>11, OneMember
  <2>2. i \in opening
    BY <2>1
  <2> HIDE DEF i
  <2>3. owner = [cat |-> types[i].cat, doubt |-> TRUE]
    BY <1>11 DEF i
  <2>4. types[i].cat \in Labels
    BY <1>4, <1>7, <2>2
  <2> HIDE DEF owner
  <2> QED
    BY <2>3, <2>4 DEF Claim, TypedBy
<1>12. ASSUME Cardinality(exact) # 1, Cardinality(cats) # 1, Cardinality(opening) # 1
       PROVE  owner \in Claim /\ TypedBy(owner, range)
  <2>1. owner = [cat |-> Undefined, doubt |-> TRUE]
    BY <1>12
  <2> HIDE DEF owner
  <2> QED
    BY <1>3, <2>1 DEF Claim, TypedBy
<1>13. owner \in Claim /\ TypedBy(owner, range)
  <2> HIDE DEF owner
  <2> QED
    BY <1>9, <1>10, <1>11, <1>12
<1> DEFINE best == IF long = {} THEN Undefined ELSE CHOOSE c \in long : TRUE
<1>14. best \in Labels
  BY <1>3, <1>4, <1>7
<1>15. Typed(range) = IF suspect THEN [cat |-> best, doubt |-> TRUE] ELSE owner
  BY <1>1
<1> HIDE DEF best, owner, suspect
<1>16. CASE suspect
  <2>1. Typed(range) = [cat |-> best, doubt |-> TRUE]
    BY <1>15, <1>16
  <2> QED
    BY <1>14, <2>1 DEF Claim, TypedBy
<1>17. CASE ~suspect
  BY <1>13, <1>15, <1>17
<1> QED
  BY <1>16, <1>17

\* The owner before the first range.
Origin == [pages |-> {}, cat |-> None, doubt |-> FALSE, last |-> -1]
Places == {Origin} \cup Owner

\* A claim without doubt is the second pass's or printed on the opening page.
Founded(claim, range) ==
  ~claim.doubt => claim.cat = text[Min(range)] \/ Says(range, claim.cat)

LEMMA CorrectedIn ==
  ASSUME text \in Texts, NEW range \in RangeSet, NEW owner \in Claim,
         TypedBy(owner, range), NEW before \in Places
  PROVE  /\ Corrected(range, owner, before) \in Claim
         /\ Founded(Corrected(range, owner, before), range)
<1> DEFINE p == Min(range)
           follows == before.last + 1 = p
           as(cat, sure) == [cat |-> cat, doubt |-> owner.doubt \/ ~sure]
           outside == follows /\ Family(before.cat) # Annexures
           c == Corrected(range, owner, before)
<1>1. p \in Pages /\ text \in [Pages -> Cues] /\ p \in Nat /\ p # 0
  <2>1. p \in range /\ range \subseteq Pages
    BY RangeHasEnds DEF RangeSet
  <2>2. text \in [Pages -> Cues]
    BY BundleAssumption
  <2>3. p \in 1..PageCount
    BY <2>1, PagesAre
  <2> QED
    BY <2>1, <2>2, <2>3
<1>2. owner.cat \in Labels /\ owner.doubt \in BOOLEAN
  BY DEF Claim
<1>3. follows => before.cat \in Labels
  <2>1. CASE before = Origin
    <3>1. before.last + 1 = 0
      BY <2>1 DEF Origin
    <3> QED
      BY <1>1, <3>1
  <2>2. CASE before \in Owner
    BY <2>2 DEF Owner
  <2> QED
    BY <2>1, <2>2 DEF Places
<1>4. /\ Stamp(p) # None => Stamp(p) \in Labels /\ Stamp(p) = text[p]
      /\ Anchor(p) # None => Anchor(p) \in Labels /\ Anchor(p) = text[p]
  BY <1>1 DEF Stamp, Anchor, Labels
<1>5. Index \in Labels
  BY BundleAssumption DEF Labels
<1>6. \/ c = as(Stamp(p), TRUE) /\ Stamp(p) # None
      \/ c = as(Anchor(p), TRUE) /\ Anchor(p) # None
      \/ c = as(Index, FALSE)
      \/ c = as(Anchor(p), FALSE) /\ Anchor(p) # None
      \/ c = as(before.cat, FALSE) /\ follows
      \/ c = owner
  <2> DEFINE st == Stamp(p)
             an == Anchor(p)
  <2>1. c = IF st \notin {None, owner.cat} THEN as(st, TRUE)
            ELSE IF owner.cat = Undefined /\ an # None THEN as(an, TRUE)
            ELSE IF owner.cat = Cover /\ an = Index /\ follows
                    /\ before.cat = Index
            THEN as(Index, FALSE)
            ELSE IF Family(owner.cat) = Annexures /\ st = None /\ outside
                    /\ an # None
            THEN as(an, FALSE)
            ELSE IF Family(owner.cat) = Annexures /\ outside /\ text[p] = Embedded
            THEN as(before.cat, FALSE)
            ELSE owner
    BY DEF Corrected
  <2> HIDE DEF as, st, an, p, c, follows
  <2> QED
    BY <2>1 DEF st, an
<1> HIDE DEF c, p, follows
<1>7. \A cat \in Labels : as(cat, TRUE) \in Claim /\ as(cat, FALSE) \in Claim
  BY <1>2 DEF Claim
<1>8. c \in Claim
  <2> HIDE DEF as
  <2> QED
    BY <1>3, <1>4, <1>5, <1>6, <1>7
<1>9. /\ c = as(Stamp(p), TRUE) => c.cat = Stamp(p)
      /\ c = as(Anchor(p), TRUE) => c.cat = Anchor(p)
      /\ \A cat : c = as(cat, FALSE) => c.doubt
  <2>1. \A cat : as(cat, TRUE).cat = cat /\ as(cat, FALSE).doubt
    OBVIOUS
  <2> HIDE DEF as
  <2> QED
    BY <2>1
<1>10. Founded(c, range)
  <2> HIDE DEF as
  <2> SUFFICES ASSUME ~c.doubt PROVE c.cat = text[p] \/ Says(range, c.cat)
    BY DEF Founded, p
  <2> QED
    BY <1>4, <1>6, <1>9 DEF TypedBy
<1> QED
  BY <1>8, <1>10 DEF c

------------------------------------------------------------------------------
(***************************************************************************)
(* One owner for every range                                               *)
(***************************************************************************)
\* A function that is defined by recursion over 0..n.
Climbs(h, n, T, bottom, g) ==
  /\ h \in [0..n -> T] /\ h[0] = bottom /\ \A i \in 1..n : h[i] = g[<<h[i - 1], i>>]

LEMMA Recursion ==
  ASSUME NEW T, NEW n \in Nat, NEW bottom \in T, NEW g \in [T \X (1..n) -> T]
  PROVE  \E h : Climbs(h, n, T, bottom, g)
<1> DEFINE S == {k \in Nat : k <= n => \E h : Climbs(h, k, T, bottom, g)}
<1>1. 0 \in S
  <2>1. Climbs([i \in 0..0 |-> bottom], 0, T, bottom, g)
    BY DEF Climbs
  <2> QED
    BY <2>1
<1>2. ASSUME NEW k \in Nat, k \in S PROVE k + 1 \in S
  <2> SUFFICES ASSUME k + 1 <= n PROVE \E h : Climbs(h, k + 1, T, bottom, g)
    OBVIOUS
  <2>1. PICK h : Climbs(h, k, T, bottom, g)
    BY <1>2
  <2> DEFINE longer == [i \in 0..k + 1 |-> IF i = k + 1 THEN g[<<h[k], k + 1>>] ELSE h[i]]
  <2>2. h[k] \in T /\ k + 1 \in 1..n
    BY <2>1 DEF Climbs
  <2>3. g[<<h[k], k + 1>>] \in T
    BY <2>2
  <2>4. longer \in [0..k + 1 -> T] /\ longer[0] = bottom
    BY <2>1, <2>3 DEF Climbs
  <2>5. ASSUME NEW i \in 1..k + 1 PROVE longer[i] = g[<<longer[i - 1], i>>]
    <3>1. CASE i = k + 1
      <4>1. i - 1 = k /\ k \in 0..k + 1 /\ k # k + 1 /\ i \in 0..k + 1
        BY <3>1
      <4> QED
        BY <3>1, <4>1
    <3>2. CASE i # k + 1
      <4>1. i \in 1..k /\ i - 1 \in 0..k + 1 /\ i - 1 # k + 1 /\ i \in 0..k + 1
        BY <3>2
      <4>2. h[i] = g[<<h[i - 1], i>>]
        BY <2>1, <4>1 DEF Climbs
      <4> QED
        BY <3>2, <4>1, <4>2
    <3> QED
      BY <3>1, <3>2
  <2>6. Climbs(longer, k + 1, T, bottom, g)
    BY <2>4, <2>5 DEF Climbs
  <2> QED
    BY <2>6
<1>3. S \in SUBSET Nat
  OBVIOUS
<1>4. \A k \in S : k <= n => \E h : Climbs(h, k, T, bottom, g)
  OBVIOUS
<1> HIDE DEF S
<1>5. n \in S
  BY <1>1, <1>2, <1>3, ByNumber
<1> QED
  BY <1>4, <1>5

\* One step of Owned.
Settled(range, before) ==
  LET o == Corrected(range, Typed(range), before)
  IN  [pages |-> range, cat |-> o.cat, doubt |-> o.doubt, last |-> Max(range)]

OwnerOf(s, range) == s \in Owner /\ s.pages = range /\ Founded(s, range)

LEMMA SettledIs ==
  ASSUME text \in Texts, types \in {<<>>} \cup TypeAnswers, NEW range \in RangeSet,
         NEW before \in Places
  PROVE  OwnerOf(Settled(range, before), range)
<1> DEFINE o == Corrected(range, Typed(range), before)
<1>1. Typed(range) \in Claim /\ TypedBy(Typed(range), range)
  BY TypedIn
<1>2. o \in Claim /\ Founded(o, range)
  BY <1>1, CorrectedIn
<1>3. Max(range) \in Int
  BY RangeHasEnds
<1>4. Settled(range, before) = [pages |-> range, cat |-> o.cat, doubt |-> o.doubt,
                                last |-> Max(range)]
  BY DEF Settled
<1> HIDE DEF o
<1>5. o.cat \in Labels /\ o.doubt \in BOOLEAN
  BY <1>2 DEF Claim
<1>6. Settled(range, before) \in Owner
  BY <1>3, <1>4, <1>5 DEF Owner
<1>7. /\ Settled(range, before).pages = range
      /\ Settled(range, before).cat = o.cat
      /\ Settled(range, before).doubt = o.doubt
  BY <1>4
<1>8. Founded(Settled(range, before), range)
  BY <1>2, <1>7 DEF Founded
<1> QED
  BY <1>6, <1>7, <1>8 DEF OwnerOf

LEMMA OwnedIs ==
  ASSUME text \in Texts, types \in {<<>>} \cup TypeAnswers,
         NEW ranges, RangeList(ranges)
  PROVE  /\ Owned(ranges) \in Seq(Owner) /\ DOMAIN Owned(ranges) = DOMAIN ranges
         /\ \A i \in DOMAIN ranges : OwnerOf(Owned(ranges)[i], ranges[i])
<1> DEFINE n == Len(ranges)
           g == [v \in Places \X (1..n) |-> Settled(ranges[v[2]], v[1])]
           Eq(own) == own = [i \in 0..n |-> IF i = 0 THEN Origin
                                            ELSE Settled(ranges[i], own[i - 1])]
           at == CHOOSE own : Eq(own)
<1>1. /\ n \in Nat /\ DOMAIN ranges = 1..n
      /\ \A i \in 1..n : ranges[i] \in RangeSet
  BY DEF RangeList
<1>2. Owned(ranges) = [i \in DOMAIN ranges |-> at[i]]
  BY DEF Owned, Origin, Settled
<1> HIDE DEF n
<1>3. \A i \in 1..n, b \in Places : OwnerOf(Settled(ranges[i], b), ranges[i])
  BY <1>1, SettledIs
<1>4. \A i \in 1..n, b \in Places : Settled(ranges[i], b) \in Places
  BY <1>3 DEF OwnerOf, Places
<1>5. /\ g \in [Places \X (1..n) -> Places]
      /\ \A i \in 1..n, b \in Places : g[<<b, i>>] = Settled(ranges[i], b)
  BY <1>4
<1>6. Origin \in Places
  BY DEF Places
<1> HIDE DEF g
<1>7. PICK h : Climbs(h, n, Places, Origin, g)
  BY <1>1, <1>5, <1>6, Recursion
<1>8. /\ h \in [0..n -> Places] /\ h[0] = Origin
      /\ \A i \in 1..n : h[i] = g[<<h[i - 1], i>>]
  BY <1>7 DEF Climbs
<1>9. \A i \in 1..n : h[i] = Settled(ranges[i], h[i - 1])
  <2>1. ASSUME NEW i \in 1..n PROVE h[i] = Settled(ranges[i], h[i - 1])
    <3>1. i - 1 \in 0..n
      BY <1>1
    <3>2. h[i - 1] \in Places
      BY <1>8, <3>1
    <3> QED
      BY <1>5, <1>8, <3>2
  <2> QED
    BY <2>1
<1>10. Eq(h)
  <2>1. \A i \in 0..n : i # 0 => i \in 1..n
    BY <1>1
  <2> QED
    BY <1>8, <1>9, <2>1
<1>11. Eq(at)
  BY <1>10
<1> HIDE DEF at
<1>12. /\ at[0] = Origin
       /\ \A i \in 1..n : at[i] = Settled(ranges[i], at[i - 1])
  <2>1. 0 \in 0..n /\ \A i \in 1..n : i \in 0..n /\ i # 0
    BY <1>1
  <2> QED
    BY <1>11, <2>1
<1> HIDE DEF Eq
<1> DEFINE S == {k \in Nat : k <= n => at[k] \in Places}
<1>13. S = Nat
  <2>1. 0 \in S
    BY <1>6, <1>12
  <2>2. ASSUME NEW k \in Nat, k \in S PROVE k + 1 \in S
    <3>1. k + 1 <= n => k + 1 \in 1..n /\ (k + 1) - 1 = k /\ at[k] \in Places
      BY <1>1, <2>2
    <3> QED
      BY <1>4, <1>12, <3>1
  <2>3. S \in SUBSET Nat
    OBVIOUS
  <2> HIDE DEF S
  <2> QED
    BY <2>1, <2>2, <2>3, ByNumber
<1>14. ASSUME NEW i \in 1..n PROVE OwnerOf(at[i], ranges[i])
  <2>1. i - 1 \in Nat /\ i - 1 <= n
    BY <1>1
  <2>2. at[i - 1] \in Places
    BY <1>13, <2>1
  <2> QED
    BY <1>3, <1>12, <2>2
<1>15. \A i \in 1..n : at[i] \in Owner
  BY <1>14 DEF OwnerOf
<1>16. Owned(ranges) \in [1..n -> Owner] /\ \A i \in 1..n : Owned(ranges)[i] = at[i]
  BY <1>1, <1>2, <1>15
<1> QED
  BY <1>1, <1>14, <1>16

------------------------------------------------------------------------------
(***************************************************************************)
(* The segments                                                            *)
(***************************************************************************)
\* Where no range was proposed.
Uncovered ==
  {p \in Pages : \A i \in DOMAIN proposals : p \notin proposals[i]}

LEMMA GapsAre ==
  /\ Gaps \in Seq(Owner) /\ Len(Gaps) \in Nat /\ DOMAIN Gaps = 1..Len(Gaps)
  /\ \A i \in DOMAIN Gaps : Gaps[i].doubt /\ Gaps[i].pages \subseteq Uncovered
  /\ \A i, j \in DOMAIN Gaps, p \in Pages :
       p \in Gaps[i].pages /\ p \in Gaps[j].pages => i = j
<1> DEFINE runs == Runs(Uncovered)
           n == Len(runs)
<1>1. Uncovered \in SUBSET Pages
  BY DEF Uncovered
<1>2. Divides(runs, Uncovered)
  BY <1>1, RunsDivide
<1>3. Gaps = [i \in DOMAIN runs |-> [pages |-> runs[i], cat |-> Undefined,
                                     doubt |-> TRUE, last |-> Max(runs[i])]]
  BY DEF Gaps, Uncovered
<1> HIDE DEF runs
<1>4. /\ n \in Nat /\ DOMAIN runs = 1..n
      /\ \A i \in 1..n : runs[i] \in RangeSet /\ runs[i] \subseteq Uncovered
      /\ \A i, j \in 1..n, p \in Uncovered : p \in runs[i] /\ p \in runs[j] => i = j
  BY <1>2 DEF Divides
<1> HIDE DEF n
<1>5. \A i \in 1..n : Max(runs[i]) \in Int
  BY <1>4, RangeHasEnds
<1>6. Undefined \in Labels
  BY DEF Labels
<1>7. \A i \in 1..n : Gaps[i] = [pages |-> runs[i], cat |-> Undefined,
                                 doubt |-> TRUE, last |-> Max(runs[i])]
  BY <1>3, <1>4
<1>8. \A i \in 1..n : Gaps[i] \in Owner /\ Gaps[i].doubt /\ Gaps[i].pages = runs[i]
  <2>1. ASSUME NEW i \in 1..n
        PROVE  Gaps[i] \in Owner /\ Gaps[i].doubt /\ Gaps[i].pages = runs[i]
    <3>1. runs[i] \in RangeSet /\ Max(runs[i]) \in Int
      BY <1>4, <1>5
    <3>2. Gaps[i] = [pages |-> runs[i], cat |-> Undefined,
                     doubt |-> TRUE, last |-> Max(runs[i])]
      BY <1>7
    <3>3. [pages |-> runs[i], cat |-> Undefined, doubt |-> TRUE, last |-> Max(runs[i])]
            \in Owner
      BY <1>6, <3>1 DEF Owner
    <3> QED
      BY <3>2, <3>3
  <2> QED
    BY <2>1
<1>9. Gaps \in [1..n -> Owner]
  BY <1>3, <1>4, <1>8
<1>10. Gaps \in Seq(Owner) /\ Len(Gaps) = n /\ DOMAIN Gaps = 1..n
  BY <1>4, <1>9
<1>11. \A i, j \in 1..n, p \in Pages :
         p \in Gaps[i].pages /\ p \in Gaps[j].pages => i = j
  BY <1>1, <1>4, <1>8
<1> QED
  BY <1>4, <1>8, <1>10, <1>11

\* Two segments have p.
Overlap(list, p) ==
  \E i, j \in DOMAIN list : i # j /\ p \in list[i].pages /\ p \in list[j].pages

\* A segment without doubt is a range that its type is certain of.
IsSure(s, ranges) ==
  ~s.doubt => s.pages \in ToSet(ranges) /\ Founded(s, s.pages)

Settles(list, ranges) ==
  /\ list \in Seq(Owner) /\ Len(list) \in Nat /\ DOMAIN list = 1..Len(list)
  /\ \A i \in DOMAIN list : list[i] \in Owner /\ IsSure(list[i], ranges)
  /\ \A p \in Pages : Overlap(list, p) => Doubled(proposals, p)

LEMMA OwnersSettle ==
  ASSUME text \in Texts, types \in {<<>>} \cup TypeAnswers, RangeList(proposals),
         NEW ranges, Refines(ranges, proposals)
  PROVE  Settles(Owned(ranges) \o Gaps, ranges)
<1> DEFINE own == Owned(ranges)
           gaps == Gaps
           list == own \o gaps
           a == Len(own)
           b == Len(gaps)
<1>1. RangeList(ranges)
  BY DEF Refines
<1>2. /\ own \in Seq(Owner) /\ DOMAIN own = DOMAIN ranges
      /\ \A i \in DOMAIN ranges : OwnerOf(own[i], ranges[i])
  BY <1>1, OwnedIs
<1>3. /\ gaps \in Seq(Owner) /\ b \in Nat /\ DOMAIN gaps = 1..b
      /\ \A i \in 1..b : gaps[i].doubt /\ gaps[i].pages \subseteq Uncovered
      /\ \A i, j \in 1..b, p \in Pages :
           p \in gaps[i].pages /\ p \in gaps[j].pages => i = j
  BY GapsAre
<1> HIDE DEF own, gaps
<1>4. /\ a \in Nat /\ DOMAIN own = 1..a /\ DOMAIN ranges = 1..a
      /\ list \in Seq(Owner) /\ Len(list) = a + b /\ DOMAIN list = 1..(a + b)
      /\ \A i \in 1..(a + b) : list[i] = IF i <= a THEN own[i] ELSE gaps[i - a]
  BY <1>2, <1>3
<1> HIDE DEF list, a, b
<1>5. \A i \in 1..(a + b) :
        \/ i \in 1..a /\ list[i] = own[i]
        \/ i - a \in 1..b /\ list[i] = gaps[i - a]
  <2>1. ASSUME NEW i \in 1..(a + b)
        PROVE \/ i \in 1..a /\ list[i] = own[i]
              \/ i - a \in 1..b /\ list[i] = gaps[i - a]
    <3>1. CASE i <= a
      BY <1>4, <3>1
    <3>2. CASE ~(i <= a)
      <4>1. i - a \in 1..b
        BY <1>3, <1>4, <3>2
      <4> QED
        BY <1>4, <3>2, <4>1
    <3> QED
      BY <3>1, <3>2
  <2> QED
    BY <2>1
<1>6. \A i \in 1..a : own[i].pages = ranges[i] /\ Founded(own[i], own[i].pages)
  BY <1>2, <1>4 DEF OwnerOf
<1>7. \A i \in 1..a : IsSure(own[i], ranges)
  <2>1. \A i \in 1..a : own[i].pages \in ToSet(ranges)
    BY <1>4, <1>6 DEF ToSet
  <2> QED
    BY <1>6, <2>1 DEF IsSure
<1>8. \A i \in 1..b : IsSure(gaps[i], ranges)
  BY <1>3 DEF IsSure
<1>9. \A i \in 1..(a + b) : list[i] \in Owner /\ IsSure(list[i], ranges)
  <2>1. \A i \in 1..(a + b) : list[i] \in Owner
    BY <1>4
  <2> QED
    BY <1>5, <1>7, <1>8, <2>1
<1>10. ASSUME NEW p \in Pages, NEW i \in 1..a, NEW j \in 1..b,
              p \in own[i].pages, p \in gaps[j].pages
       PROVE  FALSE
  <2>1. p \in ranges[i] /\ i \in DOMAIN ranges
    BY <1>4, <1>6, <1>10
  <2>2. PICK k \in DOMAIN proposals : ranges[i] \subseteq proposals[k]
    BY <2>1 DEF Refines
  <2> QED
    BY <1>3, <1>10, <2>1, <2>2 DEF Uncovered
<1>11. ASSUME NEW p \in Pages, Overlap(list, p) PROVE Doubled(proposals, p)
  <2>1. PICK i \in 1..(a + b), j \in 1..(a + b) :
             i # j /\ p \in list[i].pages /\ p \in list[j].pages
    BY <1>4, <1>11 DEF Overlap
  <2>2. CASE i \in 1..a /\ list[i] = own[i] /\ j \in 1..a /\ list[j] = own[j]
    <3>1. p \in ranges[i] /\ p \in ranges[j] /\ i \in DOMAIN ranges /\ j \in DOMAIN ranges
      BY <1>4, <1>6, <2>1, <2>2
    <3>2. Doubled(ranges, p)
      BY <2>1, <3>1 DEF Doubled
    <3> QED
      BY <3>2 DEF Refines
  <2>3. CASE i - a \in 1..b /\ list[i] = gaps[i - a]
             /\ j - a \in 1..b /\ list[j] = gaps[j - a]
    <3>1. i - a = j - a
      BY <1>3, <2>1, <2>3
    <3>2. i = j
      BY <1>3, <1>4, <2>1, <3>1
    <3> QED
      BY <2>1, <3>2
  <2>4. CASE i \in 1..a /\ list[i] = own[i] /\ j - a \in 1..b /\ list[j] = gaps[j - a]
    BY <1>10, <2>1, <2>4
  <2>5. CASE j \in 1..a /\ list[j] = own[j] /\ i - a \in 1..b /\ list[i] = gaps[i - a]
    BY <1>10, <2>1, <2>5
  <2> QED
    BY <1>5, <2>2, <2>3, <2>4, <2>5
<1>12. Settles(list, ranges)
  BY <1>3, <1>4, <1>9, <1>11 DEF Settles
<1> QED
  BY <1>12 DEF list, own, gaps

\* Sorting keeps what was settled.
LEMMA InOrderSettles ==
  ASSUME NEW list, NEW ranges, Settles(list, ranges)
  PROVE  Settles(InOrder(list), ranges)
<1> DEFINE all == DOMAIN list
           n == Len(list)
           before == [i \in all |->
                 {j \in all : \/ Before(list[j], list[i])
                              \/ ~Before(list[i], list[j]) /\ j < i}]
           order == Placed(all, before)
           m == Len(order)
           from == [i \in all |-> Min(list[i].pages)]
           to == [i \in all |-> list[i].last]
<1>1. /\ n \in Nat /\ all = 1..n /\ IsFiniteSet(all)
      /\ \A i \in all : list[i] \in Owner
  <2>1. n \in Nat /\ all = 1..n /\ \A i \in all : list[i] \in Owner
    BY DEF Settles
  <2> QED
    BY <2>1, FS_Interval
<1>2. \A i \in all : from[i] \in Int /\ to[i] \in Int /\ i \in Int
  <2>1. ASSUME NEW i \in all PROVE from[i] \in Int /\ to[i] \in Int /\ i \in Int
    <3>1. list[i].pages \in RangeSet /\ list[i].last \in Int
      BY <1>1 DEF Owner
    <3>2. Min(list[i].pages) \in Int
      BY <3>1, RangeHasEnds
    <3> QED
      BY <1>1, <3>1, <3>2
  <2> QED
    BY <2>1
<1>3. \A i, j \in all : Before(list[j], list[i]) <=>
        from[j] < from[i] \/ (from[j] = from[i] /\ to[j] < to[i])
  BY DEF Before
<1>4. before \in [all -> SUBSET all]
  OBVIOUS
<1>5. \A i, j \in all : j \in before[i] <=>
        \/ Before(list[j], list[i])
        \/ ~Before(list[i], list[j]) /\ j < i
  OBVIOUS
<1> HIDE DEF all, before, from, to
<1>6. \A i, j \in all : j \in before[i] <=>
        \/ from[j] < from[i]
        \/ from[j] = from[i] /\ (to[j] < to[i] \/ (to[j] = to[i] /\ j < i))
  <2>1. ASSUME NEW i \in all, NEW j \in all
        PROVE  j \in before[i] <=>
        \/ from[j] < from[i]
        \/ from[j] = from[i] /\ (to[j] < to[i] \/ (to[j] = to[i] /\ j < i))
    <3>1. /\ from[i] \in Int /\ to[i] \in Int /\ i \in Int
          /\ from[j] \in Int /\ to[j] \in Int /\ j \in Int
      BY <1>2
    <3>2. j \in before[i] <=>
             \/ from[j] < from[i] \/ (from[j] = from[i] /\ to[j] < to[i])
             \/ ~(from[i] < from[j] \/ (from[i] = from[j] /\ to[i] < to[j])) /\ j < i
      BY <1>3, <1>5
    <3> QED
      BY <3>1, <3>2
  <2> QED
    BY <2>1
<1>7. \A i \in all : i \notin before[i]
  BY <1>2, <1>6
<1>8. \A i, j \in all : i # j => i \in before[j] \/ j \in before[i]
  <2>1. ASSUME NEW i \in all, NEW j \in all, i # j
        PROVE  i \in before[j] \/ j \in before[i]
    <3>1. /\ from[i] \in Int /\ to[i] \in Int /\ i \in Int
          /\ from[j] \in Int /\ to[j] \in Int /\ j \in Int
      BY <1>2
    <3> QED
      BY <1>6, <2>1, <3>1
  <2> QED
    BY <2>1
<1>9. ASSUME NEW i \in all, NEW j \in all, i \in before[j], NEW k \in before[i]
      PROVE  k \in before[j]
  <2>1. k \in all
    BY <1>4
  <2>2. /\ from[i] \in Int /\ to[i] \in Int /\ i \in Int
        /\ from[j] \in Int /\ to[j] \in Int /\ j \in Int
        /\ from[k] \in Int /\ to[k] \in Int /\ k \in Int
    BY <1>2, <2>1
  <2>3. /\ \/ from[i] < from[j]
           \/ from[i] = from[j] /\ (to[i] < to[j] \/ (to[i] = to[j] /\ i < j))
        /\ \/ from[k] < from[i]
           \/ from[k] = from[i] /\ (to[k] < to[i] \/ (to[k] = to[i] /\ k < i))
    BY <1>6, <1>9, <2>1
  <2>4. \/ from[k] < from[j]
        \/ from[k] = from[j] /\ (to[k] < to[j] \/ (to[k] = to[j] /\ k < j))
    BY <2>2, <2>3
  <2> QED
    BY <1>6, <2>1, <2>4
<1>10. Precedence(all, before)
  BY <1>4, <1>7, <1>8, <1>9 DEF Precedence
<1>11. Lists(order, all)
  BY <1>1, <1>10, PlacedLists
<1>12. InOrder(list) = [k \in DOMAIN order |-> list[order[k]]]
  BY DEF InOrder, all, before
<1> HIDE DEF order
<1>13. /\ m \in Nat /\ DOMAIN order = 1..m
       /\ \A k \in 1..m : order[k] \in all
       /\ \A k, l \in 1..m : order[k] = order[l] => k = l
  BY <1>11 DEF Lists
<1> HIDE DEF m
<1>14. \A i \in all : list[i] \in Owner /\ IsSure(list[i], ranges)
  BY DEF Settles, all
<1>15. /\ DOMAIN InOrder(list) = 1..m
       /\ \A k \in 1..m : /\ InOrder(list)[k] = list[order[k]]
                          /\ InOrder(list)[k] \in Owner
                          /\ IsSure(InOrder(list)[k], ranges)
  BY <1>12, <1>13, <1>14
<1>16. InOrder(list) \in [1..m -> Owner]
  BY <1>12, <1>13, <1>15
<1>17. InOrder(list) \in Seq(Owner) /\ Len(InOrder(list)) = m
  BY <1>13, <1>16
<1>18. ASSUME NEW p \in Pages, Overlap(InOrder(list), p) PROVE Doubled(proposals, p)
  <2>1. PICK k \in 1..m, l \in 1..m :
          k # l /\ p \in InOrder(list)[k].pages /\ p \in InOrder(list)[l].pages
    BY <1>15, <1>18 DEF Overlap
  <2>2. /\ order[k] # order[l] /\ order[k] \in all /\ order[l] \in all
        /\ p \in list[order[k]].pages /\ p \in list[order[l]].pages
    BY <1>13, <1>15, <2>1
  <2>3. Overlap(list, p)
    BY <2>2 DEF Overlap, all
  <2> QED
    BY <2>3 DEF Settles
<1> QED
  BY <1>13, <1>15, <1>17, <1>18 DEF Settles

------------------------------------------------------------------------------
(***************************************************************************)
(* The labels of a page                                                    *)
(***************************************************************************)
LEMMA LabelsOfIn ==
  ASSUME NEW owners \in Seq(Owner), NEW p \in Pages
  PROVE  LabelsOf(p, owners) \in Seq(Labels)
<1> DEFINE own == {i \in DOMAIN owners : p \in owners[i].pages}
           at == {i \in own : \A j \in own : j < i => owners[j].cat # owners[i].cat}
           first == Kept(owners, at)
<1>1. at \in SUBSET DOMAIN owners
  OBVIOUS
<1>2. LabelsOf(p, owners) = [k \in DOMAIN first |-> first[k].cat]
  BY DEF LabelsOf
<1> HIDE DEF at
<1>3. first \in Seq(Owner)
  BY <1>1, KeptIn
<1> HIDE DEF first
<1>4. Len(first) \in Nat /\ DOMAIN first = 1..Len(first)
      /\ \A k \in 1..Len(first) : first[k] \in Owner
  BY <1>3
<1>5. \A k \in 1..Len(first) : first[k].cat \in Labels
  BY <1>4 DEF Owner
<1> QED
  BY <1>2, <1>4, <1>5

LEMMA DemotedIn ==
  ASSUME parts \in [Pages -> Seq(Labels)]
  PROVE  Demoted \in [Pages -> Seq(Labels)]
<1>1. ASSUME NEW p \in Pages
      PROVE  Kept(parts[p], {i \in DOMAIN parts[p] : parts[p][i] # Rop}) \in Seq(Labels)
  <2> DEFINE seq == parts[p]
             at == {i \in DOMAIN seq : seq[i] # Rop}
  <2>1. seq \in Seq(Labels) /\ at \in SUBSET DOMAIN seq
    OBVIOUS
  <2> HIDE DEF seq, at
  <2>2. Kept(seq, at) \in Seq(Labels)
    BY <2>1, KeptIn
  <2> QED
    BY <2>2 DEF seq, at
<1> QED
  BY <1>1 DEF Demoted

LEMMA MovedIn ==
  ASSUME NEW map \in [Pages -> Seq(Labels)], NEW m \in Moved(map)
  PROVE  m \in [Pages -> Seq(Labels)]
<1>1. CASE m = map
  BY <1>1
<1>2. CASE m # map
  <2> DEFINE few == {S \in SUBSET Pages : Cardinality(S) <= MaxMoves}
  <2>0. few \in SUBSET (SUBSET Pages)
    OBVIOUS
  <2>3. m \in {[p \in Pages |-> IF p \in moved THEN <<label>> ELSE map[p]] :
                 moved \in few, label \in Labels}
    BY <1>2 DEF Moved
  <2> HIDE DEF few
  <2>1. PICK moved \in few, label \in Labels :
          m = [p \in Pages |-> IF p \in moved THEN <<label>> ELSE map[p]]
    BY <2>3
  <2>2. <<label>> \in Seq(Labels)
    OBVIOUS
  <2> QED
    BY <2>1, <2>2
<1> QED
  BY <1>1, <1>2

------------------------------------------------------------------------------
(***************************************************************************)
(* The documents of a page                                                 *)
(***************************************************************************)
LEMMA WithinTwo ==
  ASSUME NEW S, IsFiniteSet(S), Cardinality(S) <= 2, S # {}
  PROVE  \E i, j \in S : S = {i, j}
<1>1. PICK i \in S : TRUE
  OBVIOUS
<1>2. CASE S = {i}
  BY <1>2
<1>3. CASE S # {i}
  <2>1. PICK j \in S : j # i
    BY <1>1, <1>3
  <2>2. /\ IsFiniteSet(S \ {i}) /\ Cardinality(S \ {i}) = Cardinality(S) - 1
    BY <1>1, FS_RemoveElement
  <2>3. ASSUME NEW k \in S, k # i, k # j PROVE FALSE
    <3>1. Cardinality(S \ {i}) > 1
      BY <2>1, <2>2, <2>3, MoreThanOne
    <3>2. Cardinality(S) \in Nat
      BY FS_CardinalityType
    <3> QED
      BY <2>2, <3>1, <3>2
  <2>4. S = {i, j}
    BY <2>1, <2>3
  <2> QED
    BY <2>1, <2>4
<1> QED
  BY <1>2, <1>3

\* What slicing relies on.
Sliceable ==
  /\ segments \in Seq(Owner) /\ Len(segments) \in Nat
  /\ DOMAIN segments = 1..Len(segments)
  /\ \A i \in DOMAIN segments : segments[i] \in Owner
  /\ \A p \in Pages : Overlap(segments, p) => p \in Crowded
  /\ parts \in [Pages -> Seq(Labels)]

OfLabel(label) ==
  [slot |-> label, nth |-> 0, pages |-> {p \in Pages : label \in SlotsOn(p)}]
OfSegment(i) == [slot |-> Annexures, nth |-> i, pages |-> Taken(i)]
OfRest(i) == [slot |-> Annexures, nth |-> Len(segments) + i, pages |-> Rest[i]]
Remainder == [slot |-> Undefined, nth |-> 0, pages |-> Leftover]
AllDocuments == Documents \cup {Remainder}
DocsOn(p, docs) == {d \in docs : p \in d.pages}

LEMMA DocumentsAre ==
  \A d \in Documents :
    \/ \E label \in Plain \cup Numbered : d = OfLabel(label)
    \/ \E i \in DOMAIN segments : d = OfSegment(i)
    \/ \E i \in DOMAIN Rest : d = OfRest(i)
BY DEF Documents, OfLabel, OfSegment, OfRest

LEMMA RestDivides ==
  Divides(Rest, Catchall \ UNION {Taken(i) : i \in DOMAIN segments})
<1>1. Catchall \ UNION {Taken(i) : i \in DOMAIN segments} \in SUBSET Pages
  BY DEF Catchall
<1> QED
  BY <1>1, RunsDivide DEF Rest

LEMMA DocumentsHavePages ==
  ASSUME NEW d \in AllDocuments
  PROVE  d.pages \in SUBSET Pages
<1>1. \A label : OfLabel(label).pages \in SUBSET Pages
  BY DEF OfLabel
<1>2. \A i : OfSegment(i).pages \in SUBSET Pages
  BY DEF OfSegment, Taken, Catchall
<1>3. \A i \in DOMAIN Rest : OfRest(i).pages \in SUBSET Pages
  <2>1. \A i \in DOMAIN Rest : Rest[i] \in RangeSet
    BY RestDivides DEF Divides
  <2> QED
    BY <2>1 DEF OfRest, RangeSet
<1>4. Remainder.pages \in SUBSET Pages
  BY DEF Remainder, Leftover
<1> QED
  BY <1>1, <1>2, <1>3, <1>4, DocumentsAre DEF AllDocuments

\* No page is left out.
LEMMA SomeDocument ==
  ASSUME NEW p \in Pages
  PROVE  DocsOn(p, AllDocuments) # {}
<1>1. CASE p \in Leftover
  <2>1. Remainder \in DocsOn(p, AllDocuments)
    BY <1>1 DEF DocsOn, AllDocuments, Remainder
  <2> QED
    BY <2>1
<1>2. CASE p \notin Leftover
  <2>1. PICK d \in Documents : p \in d.pages
    BY <1>2 DEF Leftover
  <2> QED
    BY <2>1 DEF DocsOn, AllDocuments
<1> QED
  BY <1>1, <1>2

\* A page of the catch-all has no slot of a number.
LEMMA CatchallAlone ==
  ASSUME NEW p \in Catchall
  PROVE  /\ p \in Pages /\ Annexures \in Counted(p)
         /\ Counted(p) \cap Numbered = {} /\ Annexures \notin Plain \cup Numbered
<1>1. p \in Pages /\ Annexures \in SlotsOn(p)
  BY DEF Catchall
<1>2. Annexures \in Counted(p) /\ Counted(p) \cap Numbered = {}
  BY <1>1 DEF SlotsOn
<1>3. Annexures \notin Plain
  BY BundleAssumption
<1> QED
  BY <1>1, <1>2, <1>3

\* Where a document on the page comes from.
LEMMA DocumentOn ==
  ASSUME NEW p \in Pages, NEW d \in DocsOn(p, Documents)
  PROVE  \/ \E label \in Plain \cup Numbered : d = OfLabel(label) /\ label \in Counted(p)
         \/ /\ p \in Catchall
            /\ \E i \in DOMAIN segments : d = OfSegment(i) /\ p \in Taken(i)
         \/ /\ p \in Catchall /\ \A i \in DOMAIN segments : p \notin Taken(i)
            /\ \E i \in DOMAIN Rest : d = OfRest(i) /\ p \in Rest[i]
<1>1. d \in Documents /\ p \in d.pages
  BY DEF DocsOn
<1>2. ASSUME NEW label \in Plain \cup Numbered, d = OfLabel(label)
      PROVE  label \in Counted(p)
  <2>1. label \in SlotsOn(p)
    BY <1>1, <1>2 DEF OfLabel
  <2> QED
    BY <2>1 DEF SlotsOn
<1>3. ASSUME NEW i \in DOMAIN segments, d = OfSegment(i)
      PROVE  p \in Taken(i) /\ p \in Catchall
  <2>1. p \in Taken(i)
    BY <1>1, <1>3 DEF OfSegment
  <2> QED
    BY <2>1 DEF Taken
<1>4. ASSUME NEW i \in DOMAIN Rest, d = OfRest(i)
      PROVE  /\ p \in Rest[i] /\ p \in Catchall
             /\ \A k \in DOMAIN segments : p \notin Taken(k)
  <2>1. p \in Rest[i]
    BY <1>1, <1>4 DEF OfRest
  <2>2. Rest[i] \subseteq Catchall \ UNION {Taken(k) : k \in DOMAIN segments}
    BY RestDivides DEF Divides
  <2> QED
    BY <2>1, <2>2
<1> QED
  BY <1>1, <1>2, <1>3, <1>4, DocumentsAre

\* Without authority a page has one document.
LEMMA OneDocument ==
  ASSUME Sliceable, NEW p \in Pages, ~Authorized(p)
  PROVE  \A d, e \in DocsOn(p, Documents) : d = e
<1> DEFINE c == parts[p][1]
<1>1. Counted(p) \subseteq {c}
  <2>1. parts[p] \in Seq(Labels)
    BY DEF Sliceable
  <2>2. Len(parts[p]) \in Nat /\ DOMAIN parts[p] = 1..Len(parts[p])
    BY <2>1
  <2>3. CASE Len(parts[p]) <= 1
    <3>1. Counted(p) = ToSet(parts[p])
      BY <2>3 DEF Counted
    <3>2. \A i \in DOMAIN parts[p] : i = 1
      BY <2>2, <2>3
    <3> QED
      BY <3>1, <3>2 DEF ToSet
  <2>4. CASE ~(Len(parts[p]) <= 1)
    BY <2>4 DEF Counted
  <2> QED
    BY <2>3, <2>4
<1> HIDE DEF c
<1>2. ASSUME NEW i \in DOMAIN segments, NEW j \in DOMAIN segments,
             p \in Taken(i), p \in Taken(j), i < j
      PROVE  FALSE
  <2>1. Family(segments[i].cat) = Annexures /\ p \in segments[i].pages
    BY <1>2 DEF Taken
  <2>2. \A k \in 1..j - 1 : Family(segments[k].cat) = Annexures => p \notin segments[k].pages
    BY <1>2 DEF Taken
  <2>3. i \in 1..j - 1
    BY <1>2 DEF Sliceable
  <2> QED
    BY <2>1, <2>2, <2>3
<1>3. \A i, j \in DOMAIN segments : p \in Taken(i) /\ p \in Taken(j) => i = j
  <2>1. \A i, j \in DOMAIN segments : i < j \/ j < i \/ i = j
    BY DEF Sliceable
  <2> QED
    BY <1>2, <2>1
<1>4. \A i, j \in DOMAIN Rest : p \in Rest[i] /\ p \in Rest[j] => i = j
  <2>1. \A i \in DOMAIN Rest :
          Rest[i] \subseteq Catchall \ UNION {Taken(k) : k \in DOMAIN segments}
    BY RestDivides DEF Divides
  <2> QED
    BY <2>1, RestDivides DEF Divides
<1>5. p \in Catchall => c = Annexures /\ Annexures \notin Plain \cup Numbered
  BY <1>1, CatchallAlone
<1>6. \A label \in Plain \cup Numbered : label \in Counted(p) => label = c
  BY <1>1
<1> QED
  BY <1>3, <1>4, <1>5, <1>6, DocumentOn

LEMMA AuthorizedCounts ==
  ASSUME NEW p \in Pages, Authorized(p)
  PROVE  Counted(p) = {segments[i].cat : i \in SegmentsOn(p)}
<1>1. Counted(p) = ToSet(parts[p])
  BY DEF Counted
<1> QED
  BY <1>1 DEF Authorized, PageAuthorized, EdgeAuthorized

LEMMA SegmentsFinite ==
  ASSUME Sliceable, NEW p \in Pages
  PROVE  /\ SegmentsOn(p) \in SUBSET DOMAIN segments /\ IsFiniteSet(SegmentsOn(p))
         /\ p \notin Crowded => \A i, j \in SegmentsOn(p) : i = j
<1>1. SegmentsOn(p) \in SUBSET DOMAIN segments
      /\ \A i \in SegmentsOn(p) : p \in segments[i].pages
  BY DEF SegmentsOn, On
<1>2. IsFiniteSet(DOMAIN segments)
  BY FS_Interval DEF Sliceable
<1>3. IsFiniteSet(SegmentsOn(p))
  BY <1>1, <1>2, FS_Subset
<1>4. ASSUME p \notin Crowded, NEW i \in SegmentsOn(p), NEW j \in SegmentsOn(p), i # j
      PROVE  FALSE
  BY <1>1, <1>4 DEF Sliceable, Overlap
<1> QED
  BY <1>1, <1>3, <1>4

\* At most two segments share an authorized page.
LEMMA AuthorizedPair ==
  ASSUME Sliceable, NEW p \in Pages, Authorized(p)
  PROVE  \E i, j : /\ SegmentsOn(p) \subseteq {i, j}
                   /\ p \notin Crowded => i = j
<1>1. /\ SegmentsOn(p) \in SUBSET DOMAIN segments /\ IsFiniteSet(SegmentsOn(p))
      /\ p \notin Crowded => \A i, j \in SegmentsOn(p) : i = j
  BY SegmentsFinite
<1>2. CASE SegmentsOn(p) = {}
  BY <1>2
<1>3. CASE SegmentsOn(p) # {}
  <2>1. \E i, j \in SegmentsOn(p) : SegmentsOn(p) = {i, j}
    <3>1. CASE PageAuthorized(p)
      BY <1>1, <1>3, <3>1, WithinTwo DEF PageAuthorized
    <3>2. CASE EdgeAuthorized(p)
      BY <3>2 DEF EdgeAuthorized, EdgeShare
    <3> QED
      BY <3>1, <3>2 DEF Authorized
  <2> QED
    BY <1>1, <2>1
<1> QED
  BY <1>2, <1>3

\* The document that a segment of the page accounts for.
Accounts(i) ==
  IF segments[i].cat \in Plain \cup Numbered THEN OfLabel(segments[i].cat)
  ELSE OfSegment(i)

LEMMA DocumentOfSegment ==
  ASSUME Sliceable, NEW p \in Pages, Authorized(p), NEW d \in DocsOn(p, Documents)
  PROVE  \E i \in SegmentsOn(p) : d = Accounts(i)
<1>1. Counted(p) = {segments[i].cat : i \in SegmentsOn(p)}
  BY AuthorizedCounts
<1>2. ASSUME NEW label \in Plain \cup Numbered, d = OfLabel(label), label \in Counted(p)
      PROVE  \E i \in SegmentsOn(p) : d = Accounts(i)
  BY <1>1, <1>2 DEF Accounts
<1>3. ASSUME p \in Catchall, NEW i \in DOMAIN segments, d = OfSegment(i), p \in Taken(i)
      PROVE  i \in SegmentsOn(p) /\ d = Accounts(i)
  <2>1. p \in segments[i].pages /\ Family(segments[i].cat) = Annexures
    BY <1>3 DEF Taken
  <2>2. i \in SegmentsOn(p)
    BY <2>1 DEF SegmentsOn, On
  <2>3. segments[i].cat \in Counted(p)
    BY <1>1, <2>2
  <2>4. /\ Counted(p) \cap Numbered = {} /\ Annexures \notin Plain \cup Numbered
    BY <1>3, CatchallAlone
  <2>5. segments[i].cat \notin Numbered
    BY <2>3, <2>4
  <2>6. segments[i].cat = Annexures
    BY <2>1, <2>5 DEF Family
  <2> QED
    BY <1>3, <2>2, <2>4, <2>6 DEF Accounts
<1>4. ASSUME p \in Catchall, \A i \in DOMAIN segments : p \notin Taken(i)
      PROVE  FALSE
  <2>1. Annexures \in Counted(p) /\ Annexures \notin Plain \cup Numbered
    BY <1>4, CatchallAlone
  <2>2. PICK i \in SegmentsOn(p) : segments[i].cat = Annexures
    BY <1>1, <2>1
  <2>3. i \in DOMAIN segments /\ p \in segments[i].pages
    BY <2>2 DEF SegmentsOn, On
  <2>4. Family(segments[i].cat) = Annexures
    BY <2>1, <2>2 DEF Family
  <2>5. p \in Taken(i)
    BY <1>4, <2>3, <2>4 DEF Taken
  <2> QED
    BY <1>4, <2>3, <2>5
<1> QED
  BY <1>2, <1>3, <1>4, DocumentOn

\* The set has at most two members, and one unless the first pass crowded p.
Within(S, p) == \E x, y : S \subseteq {x, y} /\ (p \notin Crowded => x = y)

LEMMA DocumentsWithin ==
  ASSUME Sliceable, NEW p \in Pages
  PROVE  Within(DocsOn(p, AllDocuments), p)
<1>1. Within(DocsOn(p, Documents), p)
  <2>1. CASE ~Authorized(p)
    <3>1. \A d, e \in DocsOn(p, Documents) : d = e
      BY <2>1, OneDocument
    <3>2. \E x : DocsOn(p, Documents) \subseteq {x}
      BY <3>1
    <3> QED
      BY <3>2 DEF Within
  <2>2. CASE Authorized(p)
    <3>1. PICK i, j : /\ SegmentsOn(p) \subseteq {i, j}
                      /\ p \notin Crowded => i = j
      BY <2>2, AuthorizedPair
    <3>2. DocsOn(p, Documents) \subseteq {Accounts(i), Accounts(j)}
      BY <2>2, <3>1, DocumentOfSegment
    <3> QED
      BY <3>1, <3>2 DEF Within
  <2> QED
    BY <2>1, <2>2
<1>2. CASE p \in Leftover
  <2>1. DocsOn(p, Documents) = {}
    BY <1>2 DEF DocsOn, Leftover
  <2>2. DocsOn(p, AllDocuments) \subseteq {Remainder}
    BY <2>1 DEF DocsOn, AllDocuments
  <2> QED
    BY <2>2 DEF Within
<1>3. CASE p \notin Leftover
  <2>1. p \notin Remainder.pages
    BY <1>3 DEF Remainder
  <2>2. DocsOn(p, AllDocuments) = DocsOn(p, Documents)
    BY <2>1 DEF DocsOn, AllDocuments
  <2> QED
    BY <1>1, <2>2
<1> QED
  BY <1>2, <1>3

------------------------------------------------------------------------------
(***************************************************************************)
(* The slices of a page                                                    *)
(***************************************************************************)
TheSlice(d, p) == CHOOSE s \in SlicesOf(d) : p \in s.pages

LEMMA SliceOfDocument ==
  ASSUME NEW d, d.pages \in SUBSET Pages
  PROVE  /\ \A s \in SlicesOf(d) : s.pages \subseteq d.pages
         /\ \A p \in d.pages : \E s \in SlicesOf(d) : p \in s.pages
         /\ \A p \in d.pages : \A s \in SlicesOf(d) :
              p \in s.pages => s = TheSlice(d, p)
<1> DEFINE runs == Runs(d.pages)
           slice(i) == [slot |-> d.slot, nth |-> d.nth,
                        part |-> IF Len(runs) = 1 THEN 0 ELSE i, pages |-> runs[i]]
<1>1. SlicesOf(d) = {slice(i) : i \in DOMAIN runs}
  BY DEF SlicesOf
<1>2. Divides(runs, d.pages)
  BY RunsDivide
<1>3. \A i : slice(i).pages = runs[i]
  OBVIOUS
<1> HIDE DEF runs, slice
<1>4. /\ \A i \in DOMAIN runs : runs[i] \subseteq d.pages
      /\ \A i, j \in DOMAIN runs, p \in d.pages : p \in runs[i] /\ p \in runs[j] => i = j
      /\ \A p \in d.pages : \E i \in DOMAIN runs : p \in runs[i]
  BY <1>2 DEF Divides
<1>5. \A s \in SlicesOf(d) : s.pages \subseteq d.pages
  BY <1>1, <1>3, <1>4
<1>6. \A p \in d.pages : \E s \in SlicesOf(d) : p \in s.pages
  BY <1>1, <1>3, <1>4
<1>7. \A p \in d.pages : \A s, t \in SlicesOf(d) : p \in s.pages /\ p \in t.pages => s = t
  BY <1>1, <1>3, <1>4
<1>8. ASSUME NEW p \in d.pages, NEW s \in SlicesOf(d), p \in s.pages
      PROVE  s = TheSlice(d, p)
  <2>1. TheSlice(d, p) \in SlicesOf(d) /\ p \in TheSlice(d, p).pages
    BY <1>8 DEF TheSlice
  <2> QED
    BY <1>7, <1>8, <2>1
<1> QED
  BY <1>5, <1>6, <1>8

Serves(cuts) ==
  \A p \in Pages : Owners(p, cuts) # {} /\ Within(Owners(p, cuts), p)

\* What slicing makes: no page is lost, and only a crowded one is used twice.
LEMMA SlicedServes ==
  ASSUME Sliceable
  PROVE  Serves(Sliced)
<1>1. Sliced = UNION {SlicesOf(d) : d \in AllDocuments}
  BY DEF Sliced, AllDocuments, Remainder
<1>2. ASSUME NEW p \in Pages PROVE Owners(p, Sliced) # {}
  <2>1. PICK d \in AllDocuments : p \in d.pages
    BY SomeDocument DEF DocsOn
  <2>2. d.pages \in SUBSET Pages
    BY DocumentsHavePages
  <2>3. \E s \in SlicesOf(d) : p \in s.pages
    BY <2>1, <2>2, SliceOfDocument
  <2> QED
    BY <1>1, <2>3 DEF Owners
<1>3. ASSUME NEW p \in Pages PROVE Within(Owners(p, Sliced), p)
  <2>1. PICK x, y : /\ DocsOn(p, AllDocuments) \subseteq {x, y}
                    /\ p \notin Crowded => x = y
    BY DocumentsWithin DEF Within
  <2>2. ASSUME NEW s \in Owners(p, Sliced) PROVE s \in {TheSlice(x, p), TheSlice(y, p)}
    <3>1. PICK d \in AllDocuments : s \in SlicesOf(d) /\ p \in s.pages
      BY <1>1, <2>2 DEF Owners
    <3>2. d.pages \in SUBSET Pages
      BY DocumentsHavePages
    <3>3. p \in d.pages /\ s = TheSlice(d, p)
      BY <3>1, <3>2, SliceOfDocument
    <3>4. d \in {x, y}
      BY <2>1, <3>3 DEF DocsOn
    <3> QED
      BY <3>3, <3>4
  <2> QED
    BY <2>1, <2>2 DEF Within
<1> QED
  BY <1>2, <1>3 DEF Serves

------------------------------------------------------------------------------
(***************************************************************************)
(* The inductive invariant                                                 *)
(***************************************************************************)
\* Ranges and segments share a page only where the first pass did, and what is
\* certain of a segment stays so.
SegmentsSettled ==
  /\ segments \in Seq(Owner) /\ Len(segments) \in Nat
  /\ DOMAIN segments = 1..Len(segments)
  /\ \A i \in DOMAIN segments : segments[i] \in Owner /\ IsSure(segments[i], proposals)
  /\ \A p \in Pages : Overlap(segments, p) => p \in Crowded

Early == {"boundary", "types"}
Uncut == Early \cup {"own", "reconcile", "slice"}

IInv ==
  /\ TypeOK
  /\ RangeList(proposals) /\ Crowds(proposals, boundary)
  /\ SegmentsSettled /\ (pc \in Early => segments = <<>>)
  /\ slices # {} => Serves(slices)
  /\ pc \in Uncut => slices = {}
  /\ pc # "done" => status = None /\ doubtful = {} /\ outputs = {}
  /\ status = "clear" => ~Incomplete
  /\ RowsAgree

LEMMA NoSegments ==
  ASSUME segments = <<>>
  PROVE  SegmentsSettled
BY DEF SegmentsSettled, Overlap

LEMMA NoRanges == RangeList(<<>>) /\ \A answer : Crowds(<<>>, answer)
BY DEF RangeList, Crowds, Doubled

LEMMA InitIInv == Init => IInv
<1> SUFFICES ASSUME Init PROVE IInv
  OBVIOUS
<1> USE DEF Init
<1>1. TypeOK
  <2>1. [p \in Pages |-> <<>>] \in [Pages -> Seq(Labels)]
    OBVIOUS
  <2> QED
    BY <2>1 DEF TypeOK
<1>2. RangeList(proposals) /\ Crowds(proposals, boundary)
  BY NoRanges
<1>3. SegmentsSettled
  BY NoSegments
<1>4. None # "clear"
  BY DEF None
<1> QED
  BY <1>1, <1>2, <1>3, <1>4 DEF IInv, RowsAgree

LEMMA BoundaryPassStep ==
  ASSUME IInv, BoundaryPass
  PROVE  IInv'
<1>1. /\ pc = "boundary" /\ segments = <<>> /\ slices = {}
      /\ status = None /\ doubtful = {} /\ outputs = {}
  BY DEF IInv, BoundaryPass, Early, Uncut
<1>2. UNCHANGED <<text, mode, types, guidance, segments, parts, slices,
                  outputs, doubtful, status>>
  BY DEF BoundaryPass
<1>3. PICK answer \in BoundaryAnswers :
        IF Labelled(answer)
        THEN /\ boundary' = answer
             /\ proposals' = Proposed(answer)
             /\ pc' = "types"
        ELSE pc' = "failed" /\ UNCHANGED <<boundary, proposals>>
  BY DEF BoundaryPass
<1>4. pc' \in {"types", "failed"} /\ boundary' \in {<<>>} \cup BoundaryAnswers
  BY <1>3 DEF IInv, TypeOK
<1>5. RangeList(proposals') /\ Crowds(proposals', boundary')
  <2>1. CASE Labelled(answer)
    <3>1. proposals' = Proposed(answer) /\ boundary' = answer
      BY <1>3, <2>1
    <3>2. RangeList(Proposed(answer)) /\ Crowds(Proposed(answer), answer)
      BY ProposedCrowds
    <3> QED
      BY <3>1, <3>2
  <2>2. CASE ~Labelled(answer)
    <3>1. proposals' = proposals /\ boundary' = boundary
      BY <1>3, <2>2
    <3> QED
      BY <3>1 DEF IInv
  <2> QED
    BY <2>1, <2>2
<1>6. TypeOK'
  BY <1>2, <1>4 DEF IInv, TypeOK, Ended
<1>7. SegmentsSettled'
  BY <1>1, <1>2 DEF SegmentsSettled, Overlap
<1>8. RangeList(proposals)' /\ Crowds(proposals, boundary)'
  BY <1>5 DEF RangeList, Crowds, Doubled
<1> QED
  BY <1>1, <1>2, <1>4, <1>6, <1>7, <1>8 DEF IInv, RowsAgree, None

LEMMA SplitFailsStep ==
  ASSUME IInv, SplitFails
  PROVE  IInv'
<1>1. /\ pc \in Early /\ pc' = "failed"
      /\ UNCHANGED <<text, mode, boundary, types, guidance, proposals,
                     segments, parts, slices, outputs, doubtful, status>>
  BY DEF SplitFails, Early
<1>2. /\ segments = <<>> /\ slices = {}
      /\ status = None /\ doubtful = {} /\ outputs = {}
  BY <1>1 DEF IInv, Early, Uncut
<1>3. TypeOK'
  BY <1>1 DEF IInv, TypeOK, Ended
<1>4. SegmentsSettled'
  BY <1>1, <1>2 DEF SegmentsSettled, Overlap
<1>5. RangeList(proposals)' /\ Crowds(proposals, boundary)'
  BY <1>1 DEF IInv, RangeList, Crowds, Doubled
<1> QED
  BY <1>1, <1>2, <1>3, <1>4, <1>5 DEF IInv, RowsAgree, None

LEMMA TypePassStep ==
  ASSUME IInv, TypePass
  PROVE  IInv'
<1>1. /\ pc = "types" /\ segments = <<>> /\ slices = {}
      /\ status = None /\ doubtful = {} /\ outputs = {}
  BY DEF IInv, TypePass, Early, Uncut
<1>2. UNCHANGED <<text, mode, boundary, proposals, segments, parts,
                  slices, outputs, doubtful, status>>
  BY DEF TypePass
<1>3. guidance' \in {None, "refused", "sent", "sent_with_shared_boundary_pages"}
  BY DEF TypePass, Guidance
<1>4. pc' \in {"own", "failed"} /\ types' \in {<<>>} \cup TypeAnswers
  BY DEF TypePass, IInv, TypeOK
<1>5. TypeOK'
  BY <1>2, <1>3, <1>4 DEF IInv, TypeOK, Ended
<1>6. SegmentsSettled'
  BY <1>1, <1>2 DEF SegmentsSettled, Overlap
<1>7. RangeList(proposals)' /\ Crowds(proposals, boundary)'
  BY <1>2 DEF IInv, RangeList, Crowds, Doubled
<1> QED
  BY <1>1, <1>2, <1>4, <1>5, <1>6, <1>7 DEF IInv, RowsAgree, None

LEMMA OwnStep ==
  ASSUME IInv, Own
  PROVE  IInv'
<1> DEFINE owners == Owned(Refined) \o Gaps
<1>1. /\ pc = "own" /\ slices = {}
      /\ status = None /\ doubtful = {} /\ outputs = {}
  BY DEF IInv, Own, Early, Uncut
<1>2. /\ pc' = "reconcile" /\ proposals' = Refined /\ segments' = InOrder(owners)
      /\ parts' = [p \in Pages |-> LabelsOf(p, owners)]
      /\ UNCHANGED <<text, mode, boundary, types, guidance, slices,
                     outputs, doubtful, status>>
  BY DEF Own
<1>3. /\ text \in Texts /\ types \in {<<>>} \cup TypeAnswers
      /\ RangeList(proposals) /\ Crowds(proposals, boundary)
  BY DEF IInv, TypeOK
<1>4. Refines(Refined, proposals)
  BY <1>3, CutAllRefines DEF Refined
<1>5. RangeList(Refined) /\ Crowds(Refined, boundary)
  BY <1>3, <1>4 DEF Refines, Crowds
<1>6. Settles(owners, Refined)
  BY <1>3, <1>4, OwnersSettle
<1> HIDE DEF owners
<1>7. Settles(InOrder(owners), Refined)
  BY <1>6, InOrderSettles
<1>8. parts' \in [Pages -> Seq(Labels)]
  <2>1. owners \in Seq(Owner)
    BY <1>6 DEF Settles
  <2>2. \A p \in Pages : LabelsOf(p, owners) \in Seq(Labels)
    BY <2>1, LabelsOfIn
  <2> QED
    BY <1>2, <2>2
<1>9. TypeOK'
  BY <1>2, <1>8 DEF IInv, TypeOK, Ended
<1>10. RangeList(proposals)' /\ Crowds(proposals, boundary)'
  BY <1>2, <1>5 DEF RangeList, Crowds, Doubled
<1>11. SegmentsSettled'
  <2>1. /\ segments' \in Seq(Owner) /\ Len(segments') \in Nat
        /\ DOMAIN segments' = 1..Len(segments')
        /\ \A i \in DOMAIN segments' : segments'[i] \in Owner /\ IsSure(segments'[i], Refined)
    BY <1>2, <1>7 DEF Settles
  <2>2. \A i \in DOMAIN segments' : IsSure(segments[i], proposals)'
    BY <1>2, <2>1 DEF IsSure, Founded, Says
  <2>3. ASSUME NEW p \in Pages, Overlap(segments, p)' PROVE (p \in Crowded)'
    <3>1. Overlap(InOrder(owners), p)
      BY <1>2, <2>3 DEF Overlap
    <3>2. Doubled(proposals, p)
      BY <1>7, <3>1 DEF Settles
    <3>3. Cardinality(OnClean(boundary, p)) > 1
      BY <1>3, <3>2 DEF Crowds
    <3> QED
      BY <1>2, <3>3 DEF Crowded
  <2> QED
    BY <2>1, <2>2, <2>3 DEF SegmentsSettled
<1> QED
  BY <1>1, <1>2, <1>9, <1>10, <1>11 DEF IInv, RowsAgree, None, Early

\* What a later step keeps: it leaves the passes and their ranges alone.
Frame == UNCHANGED <<text, boundary, types, guidance, proposals, segments>>

LEMMA FrameKeeps ==
  ASSUME IInv, Frame
  PROVE  /\ RangeList(proposals)' /\ Crowds(proposals, boundary)' /\ SegmentsSettled'
         /\ Crowded' = Crowded
<1>1. RangeList(proposals)' /\ Crowds(proposals, boundary)'
  BY DEF IInv, Frame, RangeList, Crowds, Doubled
<1>2. Crowded' = Crowded
  BY DEF Frame, Crowded
<1>3. \A i \in DOMAIN segments : IsSure(segments[i], proposals)' <=> IsSure(segments[i], proposals)
  BY DEF Frame, IsSure, Founded, Says
<1>4. \A p \in Pages : Overlap(segments, p)' <=> Overlap(segments, p)
  BY DEF Frame, Overlap
<1>5. segments' = segments
  BY DEF Frame
<1>6. SegmentsSettled
  BY DEF IInv
<1>7. SegmentsSettled'
  BY <1>2, <1>3, <1>4, <1>5, <1>6 DEF SegmentsSettled
<1> QED
  BY <1>1, <1>2, <1>7

LEMMA ReconcileStep ==
  ASSUME IInv, Reconcile
  PROVE  IInv'
<1>1. /\ pc = "reconcile" /\ slices = {}
      /\ status = None /\ doubtful = {} /\ outputs = {}
  BY DEF IInv, Reconcile, Early, Uncut
<1>2. /\ pc' = "slice"
      /\ UNCHANGED <<text, boundary, types, guidance, proposals, segments, slices,
                     outputs, doubtful, status>>
  BY DEF Reconcile
<1>3. Frame
  BY <1>2 DEF Frame
<1>4. parts \in [Pages -> Seq(Labels)]
  BY DEF IInv, TypeOK
<1>5. Demoted \in [Pages -> Seq(Labels)]
  BY <1>4, DemotedIn
<1>6. parts' \in [Pages -> Seq(Labels)]
  <2>1. parts' = Demoted \/ parts' \in Moved(Demoted)
    BY DEF Reconcile
  <2> QED
    BY <1>5, <2>1, MovedIn
<1>7. mode' \in {None, "llama_only", "guarded"}
  BY DEF Reconcile
<1>8. TypeOK'
  BY <1>2, <1>6, <1>7 DEF IInv, TypeOK, Ended
<1> QED
  BY <1>1, <1>2, <1>3, <1>8, FrameKeeps DEF IInv, RowsAgree, None, Early

LEMMA SliceStep ==
  ASSUME IInv, Slice
  PROVE  IInv'
<1>1. /\ pc = "slice" /\ status = None /\ doubtful = {} /\ outputs = {}
  BY DEF IInv, Slice
<1>2. /\ slices' = Sliced /\ pc' \in {"publish", "refused"}
      /\ UNCHANGED <<text, mode, boundary, types, guidance, proposals,
                     segments, parts, outputs, doubtful, status>>
  BY DEF Slice
<1>3. Frame
  BY <1>2 DEF Frame
<1>4. Sliceable
  BY DEF IInv, TypeOK, SegmentsSettled, Sliceable
<1>5. Serves(Sliced)
  BY <1>4, SlicedServes
<1>6. Crowded' = Crowded
  BY <1>3, FrameKeeps
<1>7. Serves(slices)'
  BY <1>2, <1>5, <1>6 DEF Serves, Within, Owners
<1>8. TypeOK'
  BY <1>1, <1>2 DEF IInv, TypeOK, Ended
<1> QED
  BY <1>1, <1>2, <1>3, <1>7, <1>8, FrameKeeps DEF IInv, RowsAgree, None, Early, Uncut

\* A page shared among the outputs is shared among the slices.
LEMMA SharedOutputs ==
  ASSUME NEW cuts, NEW some \in SUBSET cuts, cuts # {} => Serves(cuts)
  PROVE  SharedIn(some) \subseteq SharedIn(cuts)
<1> SUFFICES ASSUME NEW p \in Pages, Cardinality(Owners(p, some)) > 1
             PROVE  Cardinality(Owners(p, cuts)) > 1
  BY DEF SharedIn
<1>1. Owners(p, some) \in SUBSET Owners(p, cuts)
  BY DEF Owners
<1>2. IsFiniteSet(Owners(p, cuts))
  <2>1. CASE cuts = {}
    BY <2>1, FS_EmptySet DEF Owners
  <2>2. CASE cuts # {}
    <3>1. PICK x, y : Owners(p, cuts) \subseteq {x, y}
      BY <2>2 DEF Serves, Within
    <3> QED
      BY <3>1, AtMostTwo
  <2> QED
    BY <2>1, <2>2
<1>3. /\ IsFiniteSet(Owners(p, some))
      /\ Cardinality(Owners(p, some)) <= Cardinality(Owners(p, cuts))
  BY <1>1, <1>2, FS_Subset
<1>4. Cardinality(Owners(p, some)) \in Nat /\ Cardinality(Owners(p, cuts)) \in Nat
  BY <1>2, <1>3, FS_CardinalityType
<1> QED
  BY <1>3, <1>4

\* A page that a pass is doubtful of makes the classification incomplete.
LEMMA PassReasonsIncomplete ==
  PassReasons # {} => Incomplete \/ SharingIssues # {}
<1>1. Missing # {} \/ Crowded # {} => ~BoundaryClear
  BY DEF BoundaryClear, Blocked
<1>2. TypesMissing # {} \/ TypesOverlap # {} => ~TypesClear
  BY DEF TypesClear
<1> QED
  BY <1>1, <1>2 DEF PassReasons, Incomplete

LEMMA PublishStep ==
  ASSUME IInv, Publish
  PROVE  IInv'
<1>1. /\ pc = "publish" /\ pc' = "done"
      /\ UNCHANGED <<text, mode, boundary, types, guidance, proposals, segments,
                     parts, slices>>
  BY DEF Publish
<1>2. PICK cue \in {{}, {1}}, filter \in Filters, left \in {FALSE, mode = "guarded"} :
        LET audit == cue \cup {p \in Pages : Len(parts[p]) # 1}
            doubt == \/ audit # {} \/ Incomplete \/ left \/ Unmatched(filter)
                     \/ SharingIssues # {} \/ SharedIn(slices) # {}
                     \/ mode = "llama_only"
        IN  /\ outputs' = {s \in slices : Wanted(s, filter)}
            /\ doubtful' = audit \cup PassReasons \cup SharedIn(outputs')
            /\ status' = IF doubt THEN "needs_review" ELSE "clear"
  BY DEF Publish
<1> DEFINE audit == cue \cup {p \in Pages : Len(parts[p]) # 1}
<1>3. /\ outputs' \in SUBSET slices
      /\ doubtful' = audit \cup PassReasons \cup SharedIn(outputs')
      /\ status' \in {"needs_review", "clear"}
      /\ (audit # {} \/ Incomplete \/ SharingIssues # {} \/ SharedIn(slices) # {})
           => status' = "needs_review"
  BY <1>2
<1>4. audit \in SUBSET Pages
  BY PagesAre
<1> HIDE DEF audit
<1>5. doubtful' \subseteq Pages
  BY <1>3, <1>4 DEF PassReasons, SharedIn, Missing, Crowded, TypesMissing, TypesOverlap,
                    SharingIssues
<1>6. SharedIn(outputs') \subseteq SharedIn(slices)
  <2>1. slices # {} => Serves(slices)
    BY DEF IInv
  <2> QED
    BY <1>3, <2>1, SharedOutputs
<1>7. RowsAgree'
  BY <1>3, <1>6, PassReasonsIncomplete DEF RowsAgree
<1>8. (status = "clear" => ~Incomplete)'
  <2>1. Incomplete' <=> Incomplete
    BY <1>1 DEF Incomplete, TypesClear, RangesAgree, OwnershipClear, BoundaryClear,
                Blocked, Shared, Crowded, Missing, TypesMissing, TypesOverlap, Classified
  <2> QED
    BY <1>3, <2>1
<1>9. Frame
  BY <1>1 DEF Frame
<1>10. Crowded' = Crowded
  BY <1>9, FrameKeeps
<1>11. (slices # {} => Serves(slices))'
  BY <1>1, <1>10 DEF IInv, Serves, Within, Owners
<1>12. TypeOK'
  BY <1>1, <1>3, <1>5 DEF IInv, TypeOK, Ended
<1> QED
  BY <1>1, <1>7, <1>8, <1>9, <1>11, <1>12, FrameKeeps DEF IInv, Early, Uncut

LEMMA StayStep ==
  ASSUME IInv, UNCHANGED vars
  PROVE  IInv'
<1>1. Frame /\ UNCHANGED <<mode, pc, parts, slices, outputs, doubtful, status>>
  BY DEF vars, Frame
<1>2. TypeOK'
  BY <1>1 DEF IInv, TypeOK, Frame
<1>3. Crowded' = Crowded
  BY <1>1, FrameKeeps
<1>4. (slices # {} => Serves(slices))'
  BY <1>1, <1>3 DEF IInv, Serves, Within, Owners
<1>5. Incomplete' <=> Incomplete
  BY <1>1 DEF Frame, Incomplete, TypesClear, RangesAgree, OwnershipClear, BoundaryClear,
              Blocked, Shared, Crowded, Missing, TypesMissing, TypesOverlap, Classified
<1>6. segments' = segments
  BY <1>1 DEF Frame
<1>7. (status = "clear" => ~Incomplete)' /\ RowsAgree'
  BY <1>1, <1>5 DEF IInv, RowsAgree
<1> QED
  BY <1>1, <1>2, <1>4, <1>6, <1>7, FrameKeeps DEF IInv

LEMMA StepIInv == IInv /\ [Next]_vars => IInv'
BY BoundaryPassStep, SplitFailsStep, TypePassStep, OwnStep, ReconcileStep, SliceStep,
   PublishStep, StayStep DEF Next, Stay

LEMMA AlwaysIInv == Spec => []IInv
BY InitIInv, StepIInv, PTL DEF Spec

------------------------------------------------------------------------------
(***************************************************************************)
(* The theorems                                                            *)
(***************************************************************************)
\* Every variable keeps its type: the labels of a page are a list of the split's
\* labels, the rows in doubt are pages of the bundle, and what is published is
\* one of the slices.
THEOREM TypeCorrect == Spec => []TypeOK
<1>1. IInv => TypeOK
  BY DEF IInv
<1> QED
  BY <1>1, AlwaysIInv, PTL

LEMMA ServesEvery ==
  ASSUME IInv
  PROVE  EveryPageServed
<1> SUFFICES ASSUME slices # {}, NEW p \in Pages
             PROVE  /\ Cardinality(Owners(p, slices)) \in {1, 2}
                    /\ Cardinality(Owners(p, slices)) = 2 => p \in Crowded
  BY DEF EveryPageServed
<1>1. Owners(p, slices) # {} /\ Within(Owners(p, slices), p)
  BY DEF IInv, Serves
<1>2. PICK x, y : /\ Owners(p, slices) \subseteq {x, y}
                  /\ p \notin Crowded => x = y
  BY <1>1 DEF Within
<1>3. /\ Cardinality(Owners(p, slices)) \in Nat /\ Cardinality(Owners(p, slices)) <= 2
      /\ x = y => Cardinality(Owners(p, slices)) <= 1
      /\ Cardinality(Owners(p, slices)) # 0
  BY <1>1, <1>2, AtMostTwo
<1> QED
  BY <1>2, <1>3

\* Whatever the two passes answer and wherever the pages are cut and moved,
\* slicing loses no page, and it copies a page into two documents, never more,
\* only where two ranges of the first pass claimed it (slice_bundle_pdf).
THEOREM PagesServed == Spec => []EveryPageServed
<1>1. IInv => EveryPageServed
  BY ServesEvery
<1> QED
  BY <1>1, AlwaysIInv, PTL

LEMMA ClearHolds ==
  ASSUME IInv
  PROVE  ClearMeansCertain
<1> SUFFICES ASSUME status = "clear"
             PROVE  /\ Clean(boundary) = DOMAIN boundary /\ Clean(types) = DOMAIN types
                    /\ \A p \in Pages : /\ Cardinality(On(boundary, p)) = 1
                                        /\ Cardinality(On(types, p)) = 1
                    /\ \A i \in DOMAIN segments : \E j \in DOMAIN types :
                         /\ types[j].pages = segments[i].pages
                         /\ segments[i].cat \in {types[j].cat, text[Min(types[j].pages)]}
  BY DEF ClearMeansCertain
<1>1. TypesClear /\ RangesAgree /\ OwnershipClear /\ BoundaryClear
  BY DEF IInv, Incomplete
<1>2. /\ boundary \in {<<>>} \cup BoundaryAnswers /\ types \in {<<>>} \cup TypeAnswers
  BY DEF IInv, TypeOK
<1>3. /\ Clean(boundary) = DOMAIN boundary /\ Missing = {} /\ Crowded = {}
  BY <1>1 DEF BoundaryClear, Blocked
<1>4. /\ Clean(types) = DOMAIN types /\ TypesMissing = {} /\ TypesOverlap = {}
  BY <1>1 DEF TypesClear
<1>5. ASSUME NEW p \in Pages PROVE Cardinality(On(boundary, p)) = 1
  <2>1. OnClean(boundary, p) = On(boundary, p)
    BY <1>3 DEF OnClean, On
  <2>2. On(boundary, p) # {} /\ ~(Cardinality(On(boundary, p)) > 1)
    BY <1>3, <2>1 DEF Missing, Crowded
  <2>3. IsFiniteSet(On(boundary, p))
    BY <1>2, BoundaryAnswerIs, OnFinite
  <2> QED
    BY <2>2, <2>3, ExactlyOne
<1>6. ASSUME NEW p \in Pages PROVE Cardinality(On(types, p)) = 1
  <2>1. On(types, p) # {} /\ ~(Cardinality(On(types, p)) > 1)
    BY <1>4 DEF TypesMissing, TypesOverlap
  <2>2. IsFiniteSet(On(types, p))
    BY <1>2, TypeAnswerIs, OnFinite
  <2> QED
    BY <2>1, <2>2, ExactlyOne
<1>7. ASSUME NEW i \in DOMAIN segments
      PROVE  \E j \in DOMAIN types :
               /\ types[j].pages = segments[i].pages
               /\ segments[i].cat \in {types[j].cat, text[Min(types[j].pages)]}
  <2>1. /\ segments[i].pages \in ToSet(proposals)
        /\ Founded(segments[i], segments[i].pages) /\ ~segments[i].doubt
    BY <1>1 DEF IInv, SegmentsSettled, IsSure, OwnershipClear
  <2>2. \/ segments[i].cat = text[Min(segments[i].pages)]
        \/ Says(segments[i].pages, segments[i].cat)
    BY <2>1 DEF Founded
  <2>3. CASE Says(segments[i].pages, segments[i].cat)
    BY <1>4, <2>3 DEF Says
  <2>4. CASE segments[i].cat = text[Min(segments[i].pages)]
    <3>1. PICK j \in Clean(types) : types[j].pages = segments[i].pages
      BY <1>1, <2>1 DEF RangesAgree, Classified
    <3> QED
      BY <1>4, <2>4, <3>1
  <2> QED
    BY <2>2, <2>3, <2>4
<1> QED
  BY <1>3, <1>4, <1>5, <1>6, <1>7

\* A split that needs no review put every page into one good range in each pass,
\* the passes agree on the ranges, and each type is the second pass's or printed
\* on the opening page (prepare_bundle).
THEOREM ClearIsCertain == Spec => []ClearMeansCertain
<1>1. IInv => ClearMeansCertain
  BY ClearHolds
<1> QED
  BY <1>1, AlwaysIInv, PTL

\* The review status and the rows of the manifest are computed apart, and agree:
\* no page is in doubt in a split that needs no review (prepare_bundle).
THEOREM StatusAgreesWithRows == Spec => []RowsAgree
<1>1. IInv => RowsAgree
  BY DEF IInv
<1> QED
  BY <1>1, AlwaysIInv, PTL

====
