-------------------------- MODULE Adjudication_proofs --------------------------
(***************************************************************************)
(* What adjudication never does to a page, whatever the rules propose and  *)
(* the Index says, in any number of passes and later rules over a bundle   *)
(* of any length: it does not overrule the heading that the page prints,   *)
(* nor take a page out of an agreed range without evidence near it.        *)
(*                                                                         *)
(* A pass is a function by recursion over the pages.  The first part shows *)
(* that it is one and what the judge of a page saw: the pages before it as *)
(* the pass leaves them, the others as it found them.  The rest is what    *)
(* the judge accepts.                                                      *)
(*                                                                         *)
(* The last part is about RateLimiter, a component of its own: nothing in  *)
(* one half of this module depends on the other.                           *)
(***************************************************************************)
EXTENDS Adjudication, RateLimiter, WellFoundedInduction, FiniteSetTheorems, TLAPS

------------------------------------------------------------------------------
(***************************************************************************)
(* Numbers                                                                 *)
(***************************************************************************)
LEMMA LeastNumber ==
  ASSUME NEW T \in SUBSET Nat, T # {}
  PROVE  Min(T) \in T /\ \A m \in T : Min(T) <= m
<1>1. PICK n \in T : \A m \in T : ~ (<<m, n>> \in OpToRel(<, Nat))
  BY WFMin, NatLessThanWellFounded
<1>2. \A m \in T : ~ (m < n)
  BY <1>1 DEF OpToRel
<1>3. \E x \in T : \A m \in T : x <= m
  BY <1>2
<1> QED
  BY <1>3 DEF Min

LEMMA ByNumber ==
  ASSUME NEW S \in SUBSET Nat, 0 \in S, \A n \in Nat : n \in S => n + 1 \in S
  PROVE  S = Nat
<1> SUFFICES ASSUME Nat \ S # {} PROVE FALSE
  OBVIOUS
<1> DEFINE x == Min(Nat \ S)
<1>1. x \in Nat \ S /\ \A y \in Nat \ S : x <= y
  BY LeastNumber
<1> HIDE DEF x
<1>2. x # 0 /\ x - 1 \in Nat /\ x - 1 < x /\ x = (x - 1) + 1
  BY <1>1
<1>3. x - 1 \in S
  BY <1>1, <1>2
<1> QED
  BY <1>1, <1>2, <1>3

LEMMA GreatestPage ==
  ASSUME NEW S \in SUBSET Pages, S # {}
  PROVE  Max(S) \in S /\ \A y \in S : y <= Max(S)
<1> DEFINE T == {PageCount - y : y \in S}
<1>1. PageCount \in Nat /\ S \in SUBSET Nat /\ \A y \in S : y <= PageCount
  BY AdjudicationAssumption DEF Pages
<1>2. T \in SUBSET Nat /\ \A y \in S : PageCount - y \in T
  BY <1>1
<1>3. T # {}
  BY <1>2
<1>4. \A t \in T : \E y \in S : t = PageCount - y
  OBVIOUS
<1> HIDE DEF T
<1>5. Min(T) \in T /\ \A t \in T : Min(T) <= t
  BY <1>2, <1>3, LeastNumber
<1>6. PICK x \in S : Min(T) = PageCount - x
  BY <1>4, <1>5
<1>7. \A y \in S : x >= y
  BY <1>1, <1>2, <1>5, <1>6
<1> QED
  BY <1>1, <1>6, <1>7 DEF Max

\* A function can be defined by recursion over 0..n.
Climbs(h, n, T, bottom, g) ==
  /\ h \in [0..n -> T] /\ h[0] = bottom
  /\ \A p \in 1..n : h[p] = g[<<h[p - 1], p>>]

LEMMA Recursion ==
  ASSUME NEW T, NEW n \in Nat, NEW bottom \in T, NEW g \in [T \X (1..n) -> T]
  PROVE  \E h : Climbs(h, n, T, bottom, g)
<1> DEFINE S == {k \in Nat : k <= n => \E h : Climbs(h, k, T, bottom, g)}
<1>1. 0 \in S
  <2>1. Climbs([p \in 0..0 |-> bottom], 0, T, bottom, g)
    BY DEF Climbs
  <2> QED
    BY <2>1
<1>2. ASSUME NEW k \in Nat, k \in S PROVE k + 1 \in S
  <2> SUFFICES ASSUME k + 1 <= n PROVE \E h : Climbs(h, k + 1, T, bottom, g)
    OBVIOUS
  <2>1. PICK h : Climbs(h, k, T, bottom, g)
    BY <1>2
  <2> DEFINE next == [p \in 0..k + 1 |-> IF p = k + 1 THEN g[<<h[k], k + 1>>] ELSE h[p]]
  <2>2. h[k] \in T /\ k + 1 \in 1..n
    BY <2>1 DEF Climbs
  <2>3. g[<<h[k], k + 1>>] \in T
    BY <2>2
  <2>4. next \in [0..k + 1 -> T] /\ next[0] = bottom
    BY <2>1, <2>3 DEF Climbs
  <2>5. ASSUME NEW p \in 1..k + 1 PROVE next[p] = g[<<next[p - 1], p>>]
    <3>1. CASE p = k + 1
      <4>1. p - 1 = k /\ k \in 0..k + 1 /\ k # k + 1 /\ p \in 0..k + 1
        BY <3>1
      <4> QED
        BY <3>1, <4>1
    <3>2. CASE p # k + 1
      <4>1. p \in 1..k /\ p - 1 \in 0..k + 1 /\ p - 1 # k + 1 /\ p \in 0..k + 1
        BY <3>2
      <4>2. h[p] = g[<<h[p - 1], p>>]
        BY <2>1, <4>1 DEF Climbs
      <4> QED
        BY <3>2, <4>1, <4>2
    <3> QED
      BY <3>1, <3>2
  <2>6. Climbs(next, k + 1, T, bottom, g)
    BY <2>4, <2>5 DEF Climbs
  <2> QED
    BY <2>6
<1>3. S \in SUBSET Nat
  OBVIOUS
<1>4. \A k \in S : k <= n => \E h : Climbs(h, k, T, bottom, g)
  OBVIOUS
<1> HIDE DEF S
<1>5. n \in S
  BY <1>1, <1>2, <1>3, ByNumber
<1> QED
  BY <1>4, <1>5

------------------------------------------------------------------------------
(***************************************************************************)
(* A pass                                                                  *)
(***************************************************************************)
Books == [m : Maps, count : Nat, left : BOOLEAN, full : BOOLEAN]

\* The judge of page p accepts this label for it, when it sees map m.
Accepts(start, index, conflicts, m, p, new) ==
  LET c == CaseOf(start, m, p, new, index)
  IN  new # {} /\ ~Protects(c) /\ SemanticOk(c, p \in conflicts)

LEMMA OutcomeAccepts ==
  ASSUME NEW c, NEW conflict, Outcome(c, conflict) = "accepted"
  PROVE  ~Protects(c) /\ SemanticOk(c, conflict)
<1> DEFINE kept == IF Coherent(c.m, c.p) THEN "dismissed" ELSE "left_for_review"
<1>1. kept # "accepted"
  OBVIOUS
<1>2. ~Protects(c)
  BY DEF Outcome
<1>3. SemanticOk(c, conflict)
  BY <1>1, <1>2 DEF Outcome
<1> QED
  BY <1>2, <1>3

LEMMA ProposedIn ==
  ASSUME NEW m \in Maps, NEW p \in Pages, NEW index \in Maps, candidate \in Maps
  PROVE  Proposed(m, p, index) \in SUBSET Labels
BY DEF Proposed, Maps

LEMMA JudgedIn ==
  ASSUME NEW start, NEW index \in Maps, NEW conflicts, candidate \in Maps,
         NEW b \in Books, NEW p \in Pages
  PROVE  /\ Judged(start, index, conflicts, b, p) \in Books
         /\ \A r \in Pages \ {p} : Judged(start, index, conflicts, b, p).m[r] = b.m[r]
         /\ LET new == Judged(start, index, conflicts, b, p).m[p]
            IN  new # b.m[p] => Accepts(start, index, conflicts, b.m, p, new)
<1> DEFINE new == Proposed(b.m, p, index)
           c == CaseOf(start, b.m, p, new, index)
           outcome == Outcome(c, p \in conflicts)
           label == IF outcome = "accepted" THEN new ELSE b.m[p]
           review == b.left \/ (outcome = "left_for_review" /\ (c.ev # {} \/ Direct(c)))
           j == Judged(start, index, conflicts, b, p)
<1>1. /\ b.m \in Maps /\ b.count \in Nat /\ b.left \in BOOLEAN /\ b.full \in BOOLEAN
      /\ b = [m |-> b.m, count |-> b.count, left |-> b.left, full |-> b.full]
  BY DEF Books
<1>2. new \in SUBSET Labels
  BY <1>1, ProposedIn
<1>3. outcome = "accepted" => ~Protects(c) /\ SemanticOk(c, p \in conflicts)
  BY OutcomeAccepts
<1>4. j = IF b.full \/ Idle(b.m, p, new) THEN b
          ELSE IF b.count >= Limit THEN [b EXCEPT !.full = TRUE]
          ELSE [b EXCEPT !.m[p] = label, !.count = @ + 1, !.left = review]
  BY DEF Judged
<1>5. ~Idle(b.m, p, new) => new # {}
  BY DEF Idle
<1>6. Accepts(start, index, conflicts, b.m, p, new) <=>
        new # {} /\ ~Protects(c) /\ SemanticOk(c, p \in conflicts)
  BY DEF Accepts
<1>7. label \in SUBSET Labels
  <2>1. b.m[p] \in SUBSET Labels
    BY <1>1 DEF Maps
  <2> QED
    BY <1>2, <2>1
<1>8. review \in BOOLEAN
  BY <1>1
<1>9. outcome # "accepted" => label = b.m[p]
  OBVIOUS
<1>10. outcome = "accepted" => label = new
  OBVIOUS
<1> HIDE DEF new, c, outcome, label, review, j
<1>11. CASE b.full \/ Idle(b.m, p, new)
  <2>1. j = b
    BY <1>4, <1>11
  <2> QED
    BY <2>1 DEF j
<1>12. CASE ~(b.full \/ Idle(b.m, p, new)) /\ b.count >= Limit
  <2>1. j = [b EXCEPT !.full = TRUE]
    BY <1>4, <1>12
  <2>2. j.m = b.m /\ j \in Books
    BY <1>1, <2>1 DEF Books
  <2> QED
    BY <2>2 DEF j
<1>13. CASE ~(b.full \/ Idle(b.m, p, new)) /\ ~(b.count >= Limit)
  <2>1. j = [b EXCEPT !.m[p] = label, !.count = @ + 1, !.left = review]
    BY <1>4, <1>13
  <2>2. j.m = [b.m EXCEPT ![p] = label]
    BY <1>1, <2>1
  <2>3. j.m \in Maps
    BY <1>1, <1>7, <2>2 DEF Maps
  <2>4. j \in Books
    <3>1. j = [m |-> j.m, count |-> b.count + 1, left |-> review, full |-> b.full]
      BY <1>1, <2>1
    <3>2. b.count + 1 \in Nat
      BY <1>1
    <3> HIDE DEF Maps
    <3> QED
      BY <1>1, <1>8, <2>3, <3>1, <3>2 DEF Books
  <2>5. j.m[p] = label /\ \A r \in Pages \ {p} : j.m[r] = b.m[r]
    BY <1>1, <2>2 DEF Maps
  <2>6. j.m[p] # b.m[p] => Accepts(start, index, conflicts, b.m, p, j.m[p])
    <3>1. SUFFICES ASSUME j.m[p] # b.m[p]
                   PROVE Accepts(start, index, conflicts, b.m, p, j.m[p])
      OBVIOUS
    <3>2. outcome = "accepted" /\ j.m[p] = new
      BY <1>9, <1>10, <2>5, <3>1
    <3>3. Accepts(start, index, conflicts, b.m, p, new)
      BY <1>3, <1>5, <1>6, <1>13, <3>2
    <3> QED
      BY <3>2, <3>3
  <2> QED
    BY <2>4, <2>5, <2>6 DEF j
<1> QED
  BY <1>11, <1>12, <1>13

\* What the pass has made of the pages up to p.
First(start) == [m |-> start, count |-> count, left |-> left, full |-> FALSE]
Passed(h, start, index, conflicts) ==
  /\ h \in [0..PageCount -> Books] /\ h[0] = First(start)
  /\ \A p \in Pages : h[p] = Judged(start, index, conflicts, h[p - 1], p)

LEMMA SweptIs ==
  ASSUME TypeOK, NEW start \in Maps, NEW index \in Maps, NEW conflicts
  PROVE  \E h : /\ Passed(h, start, index, conflicts)
                /\ Swept(start, index, conflicts) = h[PageCount]
<1> DEFINE g == [v \in Books \X (1..PageCount) |->
                   Judged(start, index, conflicts, v[1], v[2])]
           Eq(it) == it = [p \in 0..PageCount |->
                             IF p = 0 THEN [m |-> start, count |-> count, left |-> left,
                                            full |-> FALSE]
                             ELSE Judged(start, index, conflicts, it[p - 1], p)]
           at == CHOOSE it : Eq(it)
<1>0. /\ candidate \in Maps /\ PageCount \in Nat /\ Pages = 1..PageCount
      /\ count \in Nat /\ left \in BOOLEAN
  BY AdjudicationAssumption DEF TypeOK, Pages
<1>1. g \in [Books \X (1..PageCount) -> Books]
  BY <1>0, JudgedIn
<1>2. \A b \in Books, p \in 1..PageCount : g[<<b, p>>] = Judged(start, index, conflicts, b, p)
  OBVIOUS
<1>3. First(start) \in Books
  BY <1>0 DEF First, Books
<1>4. Swept(start, index, conflicts) = at[PageCount]
  BY DEF Swept
<1> HIDE DEF g
<1>5. PICK h : Climbs(h, PageCount, Books, First(start), g)
  BY <1>0, <1>1, <1>3, Recursion
<1>6. h \in [0..PageCount -> Books] /\ h[0] = First(start)
  BY <1>5 DEF Climbs
<1>7. \A p \in 1..PageCount : h[p] = Judged(start, index, conflicts, h[p - 1], p)
  <2>1. ASSUME NEW p \in 1..PageCount
        PROVE  h[p] = Judged(start, index, conflicts, h[p - 1], p)
    <3>1. p - 1 \in 0..PageCount
      BY <1>0
    <3>2. h[p - 1] \in Books /\ h[p] = g[<<h[p - 1], p>>]
      BY <1>5, <1>6, <3>1 DEF Climbs
    <3> QED
      BY <1>2, <3>2
  <2> QED
    BY <2>1
<1>8. Eq(h)
  <2>1. \A p \in 0..PageCount : p # 0 => p \in 1..PageCount
    BY <1>0
  <2> QED
    BY <1>6, <1>7, <2>1 DEF First
<1>9. Eq(at)
  BY <1>8
<1> HIDE DEF at
<1>10. /\ DOMAIN at = 0..PageCount /\ at[0] = First(start)
       /\ \A p \in 1..PageCount : at[p] = Judged(start, index, conflicts, at[p - 1], p)
  <2>1. 0 \in 0..PageCount /\ \A p \in 1..PageCount : p \in 0..PageCount /\ p # 0
    BY <1>0
  <2> QED
    BY <1>9, <2>1 DEF First
<1> HIDE DEF Eq
<1> DEFINE S == {n \in Nat : n <= PageCount => at[n] = h[n]}
<1>11. S = Nat
  <2>1. 0 \in S
    BY <1>6, <1>10
  <2>2. ASSUME NEW n \in Nat, n \in S PROVE n + 1 \in S
    <3>1. n + 1 <= PageCount => n + 1 \in 1..PageCount /\ (n + 1) - 1 = n /\ at[n] = h[n]
      BY <1>0, <2>2
    <3> QED
      BY <1>7, <1>10, <3>1
  <2>3. S \in SUBSET Nat
    OBVIOUS
  <2> HIDE DEF S
  <2> QED
    BY <2>1, <2>2, <2>3, ByNumber
<1>12. at[PageCount] = h[PageCount]
  BY <1>0, <1>11
<1> QED
  BY <1>0, <1>4, <1>6, <1>7, <1>12 DEF Passed


\* The map that the judge of page p sees: the pages before p are settled.
Between(m, p, before, after) ==
  /\ m \in Maps /\ \A r \in Pages : m[r] = IF r < p THEN after[r] ELSE before[r]

\* Every page that a pass relabels, its judge accepted on such a map.
Judgement(before, index, conflicts, p, after) ==
  \E m : /\ Between(m, p, before, after)
         /\ Accepts(before, index, conflicts, m, p, after[p])

LEMMA SweptIn ==
  ASSUME TypeOK, NEW index \in Maps, NEW conflicts
  PROVE  LET s == Swept(map, index, conflicts)
         IN  /\ s \in Books
             /\ \A p \in Pages : s.m[p] # map[p] => Judgement(map, index, conflicts, p, s.m)
<1> DEFINE s == Swept(map, index, conflicts)
<1>0. /\ map \in Maps /\ candidate \in Maps /\ PageCount \in Nat /\ Pages = 1..PageCount
  BY AdjudicationAssumption DEF TypeOK, Pages
<1>1. PICK h : Passed(h, map, index, conflicts) /\ s = h[PageCount]
  BY <1>0, SweptIs
<1>2. h \in [0..PageCount -> Books] /\ h[0].m = map
  BY <1>1 DEF Passed, First
<1>3. \A n \in 0..PageCount : h[n] \in Books /\ h[n].m \in Maps
  BY <1>2 DEF Books
<1>4. ASSUME NEW p \in Pages
      PROVE  /\ p - 1 \in 0..PageCount /\ p \in 0..PageCount
             /\ \A r \in Pages \ {p} : h[p].m[r] = h[p - 1].m[r]
             /\ h[p].m[p] # h[p - 1].m[p] =>
                  Accepts(map, index, conflicts, h[p - 1].m, p, h[p].m[p])
  <2>1. p - 1 \in 0..PageCount /\ p \in 0..PageCount
    BY <1>0
  <2>2. h[p - 1] \in Books /\ h[p] = Judged(map, index, conflicts, h[p - 1], p)
    BY <1>1, <1>3, <2>1 DEF Passed
  <2>3. /\ \A r \in Pages \ {p} :
             Judged(map, index, conflicts, h[p - 1], p).m[r] = h[p - 1].m[r]
        /\ LET new == Judged(map, index, conflicts, h[p - 1], p).m[p]
           IN  new # h[p - 1].m[p] => Accepts(map, index, conflicts, h[p - 1].m, p, new)
    BY <1>0, <2>2, JudgedIn
  <2> QED
    BY <2>1, <2>2, <2>3
<1> HIDE DEF s
\* A page keeps its label until its turn ...
<1>5. \A n \in 0..PageCount : \A r \in Pages : n < r => h[n].m[r] = map[r]
  <2> DEFINE S == {n \in Nat : n <= PageCount =>
                                 \A r \in Pages : n < r => h[n].m[r] = map[r]}
  <2>1. 0 \in S
    BY <1>2
  <2>2. ASSUME NEW n \in Nat, n \in S PROVE n + 1 \in S
    <3> SUFFICES ASSUME n + 1 <= PageCount, NEW r \in Pages, n + 1 < r
                 PROVE  h[n + 1].m[r] = map[r]
      OBVIOUS
    <3>1. n + 1 \in Pages /\ (n + 1) - 1 = n /\ n < r /\ r # n + 1 /\ n <= PageCount
      BY <1>0
    <3>2. h[n].m[r] = map[r]
      BY <2>2, <3>1
    <3> QED
      BY <1>4, <3>1, <3>2
  <2>3. S \in SUBSET Nat /\ \A n \in S : n <= PageCount =>
                              \A r \in Pages : n < r => h[n].m[r] = map[r]
    OBVIOUS
  <2> HIDE DEF S
  <2>4. S = Nat
    BY <2>1, <2>2, <2>3, ByNumber
  <2>5. \A n \in 0..PageCount : n \in Nat /\ n <= PageCount
    BY <1>0
  <2> QED
    BY <2>3, <2>4, <2>5
\* ... and the one that it got then to the end.
<1>6. \A n \in 0..PageCount : \A r \in Pages : r <= n => h[n].m[r] = h[r].m[r]
  <2> DEFINE S == {n \in Nat : n <= PageCount =>
                                 \A r \in Pages : r <= n => h[n].m[r] = h[r].m[r]}
  <2>1. 0 \in S
    BY <1>0
  <2>2. ASSUME NEW n \in Nat, n \in S PROVE n + 1 \in S
    <3> SUFFICES ASSUME n + 1 <= PageCount, NEW r \in Pages, r <= n + 1
                 PROVE  h[n + 1].m[r] = h[r].m[r]
      OBVIOUS
    <3>1. n + 1 \in Pages /\ (n + 1) - 1 = n /\ n <= PageCount
      BY <1>0
    <3>2. CASE r = n + 1
      BY <3>2
    <3>3. CASE r # n + 1
      <4>1. r <= n
        BY <1>0, <3>3
      <4>2. h[n].m[r] = h[r].m[r]
        BY <2>2, <3>1, <4>1
      <4> QED
        BY <1>4, <3>1, <3>3, <4>2
    <3> QED
      BY <3>2, <3>3
  <2>3. S \in SUBSET Nat /\ \A n \in S : n <= PageCount =>
                              \A r \in Pages : r <= n => h[n].m[r] = h[r].m[r]
    OBVIOUS
  <2> HIDE DEF S
  <2>4. S = Nat
    BY <2>1, <2>2, <2>3, ByNumber
  <2>5. \A n \in 0..PageCount : n \in Nat /\ n <= PageCount
    BY <1>0
  <2> QED
    BY <2>3, <2>4, <2>5
<1>7. s \in Books
  <2>1. PageCount \in 0..PageCount
    BY <1>0
  <2> QED
    BY <1>1, <1>3, <2>1
<1>8. \A r \in Pages : s.m[r] = h[r].m[r]
  <2>1. PageCount \in 0..PageCount /\ \A r \in Pages : r <= PageCount
    BY <1>0
  <2> QED
    BY <1>1, <1>6, <2>1
<1>9. ASSUME NEW p \in Pages, s.m[p] # map[p]
      PROVE  Judgement(map, index, conflicts, p, s.m)
  <2> DEFINE m == h[p - 1].m
  <2>0. p - 1 \in 0..PageCount /\ p - 1 < p
    BY <1>0, <1>4
  <2>1. m[p] = map[p]
    BY <1>5, <2>0
  <2>2. Accepts(map, index, conflicts, m, p, s.m[p])
    BY <1>4, <1>8, <1>9, <2>1
  <2>3. ASSUME NEW r \in Pages PROVE m[r] = IF r < p THEN s.m[r] ELSE map[r]
    <3>1. CASE r < p
      <4>1. r <= p - 1
        BY <1>0, <3>1
      <4> QED
        BY <1>6, <1>8, <2>0, <3>1, <4>1
    <3>2. CASE ~(r < p)
      <4>1. p - 1 < r
        BY <1>0, <3>2
      <4> QED
        BY <1>5, <2>0, <3>2, <4>1
    <3> QED
      BY <3>1, <3>2
  <2>4. m \in Maps
    BY <1>3, <2>0
  <2>5. Between(m, p, map, s.m)
    BY <2>3, <2>4 DEF Between
  <2> QED
    BY <2>2, <2>5 DEF Judgement
<1> QED
  BY <1>7, <1>9 DEF s

------------------------------------------------------------------------------
(***************************************************************************)
(* Runs of pages                                                           *)
(***************************************************************************)
LEMMA RunIn ==
  ASSUME NEW m, NEW p \in Pages, NEW labels
  PROVE  Run(m, p, labels) \in SUBSET Pages
BY DEF Run

\* A run that has a page has p, and all pages between p and its own.
LEMMA RunBetween ==
  ASSUME NEW m, NEW p \in Pages, NEW labels, NEW q \in Run(m, p, labels)
  PROVE  /\ p \in Run(m, p, labels) /\ m[p] = labels
         /\ \A r \in q..p : m[r] = labels /\ r \in Run(m, p, labels)
<1>1. /\ p \in Nat /\ q \in Nat /\ PageCount \in Nat /\ q \in Pages
      /\ Pages = 1..PageCount
  BY AdjudicationAssumption DEF Pages, Run
<1>2. \A r \in (p..q) \cup (q..p) : m[r] = labels
  BY DEF Run
<1>3. p \in (p..q) \cup (q..p)
  BY <1>1
<1>4. p \in Run(m, p, labels)
  <2>1. \A r \in (p..p) \cup (p..p) : r = p
    BY <1>1
  <2> QED
    BY <1>2, <1>3, <2>1 DEF Run
<1>5. ASSUME NEW r \in q..p PROVE m[r] = labels /\ r \in Run(m, p, labels)
  <2>1. r \in Pages /\ \A t \in (p..r) \cup (r..p) : t \in (p..q) \cup (q..p)
    BY <1>1
  <2>2. labels # {}
    BY DEF Run
  <2>3. r \in (p..q) \cup (q..p)
    BY <1>1
  <2>4. \A t \in (p..r) \cup (r..p) : m[t] = labels
    BY <1>2, <2>1
  <2>5. r \in Run(m, p, labels)
    BY <2>1, <2>2, <2>4 DEF Run
  <2> QED
    BY <1>2, <2>3, <2>5
<1> QED
  BY <1>2, <1>3, <1>4, <1>5

LEMMA RunStarts ==
  ASSUME NEW m, NEW p \in Pages, NEW labels, Run(m, p, labels) # {}
  PROVE  /\ Min(Run(m, p, labels)) \in Run(m, p, labels)
         /\ Min(Run(m, p, labels)) \in 1..p
         /\ \A r \in Run(m, p, labels) : Min(Run(m, p, labels)) <= r
         /\ \A r \in Min(Run(m, p, labels))..p : m[r] = labels
<1> DEFINE S == Run(m, p, labels)
<1>1. S \in SUBSET Nat /\ S \in SUBSET Pages
  BY AdjudicationAssumption, RunIn DEF Pages
<1>2. Min(S) \in S /\ \A r \in S : Min(S) <= r
  BY <1>1, LeastNumber
<1>3. p \in S /\ \A r \in Min(S)..p : m[r] = labels
  BY <1>2, RunBetween
<1>4. Min(S) \in 1..p
  BY <1>1, <1>2, <1>3 DEF Pages
<1> QED
  BY <1>2, <1>3, <1>4


------------------------------------------------------------------------------
(***************************************************************************)
(* What the judge accepts                                                  *)
(***************************************************************************)
FactsHold == facts.cue \in [Pages -> Cues]

\* The heading of p and these labels go together.
Heading(p, labels) ==
  \/ facts.cue[p] \in labels \/ labels = {Undefined}
  \/ \E l \in labels : Family(l) \in {Annexures, Application}

LEMMA OfFamilyHas ==
  ASSUME NEW labels, labels # {}, NEW family, OfFamily(labels, family)
  PROVE  \E l \in labels : Family(l) = family
BY DEF OfFamily

LEMMA FollowsNumbered ==
  ASSUME NEW next, NEW label, Follows(next, label)
  PROVE  label \in Numbered /\ next \in Numbered
<1>1. PICK i \in 1..Len(Stamps) - 1 : label = Stamps[i] /\ next = Stamps[i + 1]
  BY DEF Follows
<1>2. i \in 1..Len(Stamps) /\ i + 1 \in 1..Len(Stamps)
  BY AdjudicationAssumption
<1>3. DOMAIN Stamps = 1..Len(Stamps)
  BY AdjudicationAssumption
<1> QED
  BY <1>1, <1>2, <1>3 DEF Numbered

LEMMA SupportsHeading ==
  ASSUME NEW m, NEW p, NEW labels, Supports(m, p, labels)
  PROVE  Heading(p, labels) /\ facts.cue[p] \in labels \cup {App}
BY DEF Supports, Heading

LEMMA AcceptsHeading ==
  ASSUME NEW start, NEW index, NEW conflicts, NEW m, NEW p, NEW new,
         Accepts(start, index, conflicts, m, p, new), facts.cue[p] # None
  PROVE  Heading(p, new)
<1> DEFINE c == CaseOf(start, m, p, new, index)
<1>1. c.p = p /\ c.m = m /\ c.new = new
  BY DEF CaseOf
<1>2. new # {} /\ SemanticOk(c, p \in conflicts)
  BY DEF Accepts
<1> HIDE DEF c
<1>3. CASE Nesting(c)
  <2>1. OfFamily(new, Annexures)
    BY <1>1, <1>3 DEF Nesting
  <2> QED
    BY <1>2, <2>1, OfFamilyHas DEF Heading
<1>4. CASE Envelope(c)
  <2>1. PICK l \in new : l \in Numbered
    BY <1>1, <1>4, FollowsNumbered DEF Envelope, Enclosed
  <2>2. Family(l) = Annexures
    BY <2>1 DEF Family
  <2> QED
    BY <2>2 DEF Heading
<1>5. CASE ExactOuter(c)
  BY <1>1, <1>5, SupportsHeading DEF ExactOuter
<1>6. CASE PrecedingOpening(c)
  BY <1>1, <1>6 DEF PrecedingOpening, ToFamily, Heading
<1>7. CASE LowerCourt(c)
  <2>1. new = {Undefined} \/ OfFamily(new, Annexures)
    BY <1>1, <1>7 DEF LowerCourt
  <2> QED
    BY <1>2, <2>1, OfFamilyHas DEF Heading
<1>8. CASE OfFamily(c.new, Annexures) \/ OfFamily(c.new, Application)
  <2>1. OfFamily(new, Annexures) \/ OfFamily(new, Application)
    BY <1>1, <1>8
  <2> QED
    BY <1>2, <2>1, OfFamilyHas DEF Heading
<1>9. CASE ~Direct(c)
  BY <1>1, <1>9 DEF Direct
<1>10. CASE Supports(c.m, c.p, c.new)
  BY <1>1, <1>10, SupportsHeading
<1> QED
  BY <1>2, <1>3, <1>4, <1>5, <1>6, <1>7, <1>8, <1>9, <1>10 DEF SemanticOk

\* JoinsAt of two maps.
Joins(p, q, before, after) ==
  /\ \A r \in q..p - 1 : after[r] = before[p]
  /\ \/ Supports(after, q, after[p])
     \/ q > 1 /\ after[q - 1] = after[p] /\ OfFamily(after[p], Annexures)

\* The judge sees the pages before p as the pass leaves them.
LEMMA SupportsLater ==
  ASSUME NEW m, NEW p \in Pages, NEW before, NEW after, Between(m, p, before, after),
         NEW q \in 1..p, Supports(m, q, after[p])
  PROVE  Supports(after, q, after[p])
<1>1. q \in Pages /\ q \in Nat /\ p \in Nat
  BY AdjudicationAssumption DEF Pages
<1>2. CASE q < p
  <2>1. m[q] = after[q]
    BY <1>1, <1>2 DEF Between
  <2> QED
    BY <2>1 DEF Supports
<1>3. CASE q = p
  BY <1>3 DEF Supports
<1> QED
  BY <1>1, <1>2, <1>3

LEMMA AcceptsProtected ==
  ASSUME NEW start, NEW index, NEW conflicts, NEW before, NEW after,
         NEW p \in Pages, NEW m, Between(m, p, before, after), FactsHold,
         Accepts(start, index, conflicts, m, p, after[p]),
         NEW i \in ProtectedOn(p), bundle[i].owner \in before[p] \ after[p]
  PROVE  Stamped(p) \/ \E q \in 1..p : Joins(p, q, before, after)
<1> DEFINE new == after[p]
           c == CaseOf(start, m, p, new, index)
<1>0. p \in Nat /\ PageCount \in Nat /\ Pages = 1..PageCount /\ Pages \in SUBSET Nat
  BY AdjudicationAssumption DEF Pages
<1>1. /\ c.p = p /\ c.m = m /\ c.new = new /\ c.old = m[p]
      /\ c.from = Run(m, p, m[p]) /\ c.to = Run(candidate, p, new)
  BY DEF CaseOf
<1>2. new # {} /\ ~Protects(c)
  BY DEF Accepts
<1>3. m[p] = before[p]
  BY <1>0 DEF Between
<1> HIDE DEF c, new
<1>4. Breaks(c)
  BY <1>1, <1>3 DEF Breaks, new
<1>5. \/ IndexedNesting(c) \/ Envelope(c) \/ ExactOuter(c) \/ InternalOpening(c)
  BY <1>2, <1>4 DEF Protects
<1>6. \A q \in 1..p : (\A r \in q..p : m[r] = m[p]) => \A r \in q..p - 1 : after[r] = before[p]
  <2>1. ASSUME NEW q \in 1..p, \A r \in q..p : m[r] = m[p], NEW r \in q..p - 1
        PROVE  after[r] = before[p]
    <3>1. r \in Pages /\ r < p /\ r \in q..p
      BY <1>0
    <3> QED
      BY <1>3, <2>1, <3>1 DEF Between
  <2> QED
    BY <2>1
<1>7. CASE IndexedNesting(c)
  <2> DEFINE q == Min(c.from)
  <2>1. /\ c.from # {} /\ c.to # {} /\ Min(c.to) < q
        /\ OfFamily(new, Annexures) /\ m[q - 1] = new
    BY <1>1, <1>7 DEF IndexedNesting, Nesting, BeginsBefore
  <2>2. q \in 1..p /\ \A r \in q..p : m[r] = m[p]
    BY <1>1, <2>1, RunStarts
  <2>3. Min(c.to) \in 1..p
    BY <1>1, <2>1, RunStarts
  <2> HIDE DEF q
  <2>4. q > 1 /\ q - 1 \in Pages /\ q - 1 < p
    BY <1>0, <2>1, <2>2, <2>3
  <2>5. after[q - 1] = new
    BY <2>1, <2>4 DEF Between
  <2>6. Joins(p, q, before, after)
    BY <1>6, <2>1, <2>2, <2>4, <2>5 DEF Joins, new
  <2> QED
    BY <2>2, <2>6
<1>8. CASE Envelope(c)
  <2> DEFINE q == Min(c.to)
             r == Max(c.to) + 1
  <2>1. c.to # {} /\ new = {Stamp(q)} /\ Follows(Stamp(r), Stamp(q))
    BY <1>1, <1>8 DEF Envelope, Enclosed
  <2>a. PICK x \in c.to : TRUE
    BY <2>1
  <2>2. q \in 1..p
    BY <1>1, <2>a, RunStarts
  <2>3. p \in c.to /\ c.to \in SUBSET Pages
    <3>1. c.to \in SUBSET Pages
      BY <1>1, RunIn
    <3>2. p \in c.to
      BY <1>1, <2>a, RunBetween
    <3> QED
      BY <3>1, <3>2
  <2>4. Max(c.to) \in c.to /\ p <= Max(c.to)
    BY <2>3, GreatestPage
  <2>5. Stamp(r) \in Numbered
    BY <2>1, FollowsNumbered
  <2> HIDE DEF q
  <2>6. r \in Pages
    <3>1. None \notin Numbered
      BY AdjudicationAssumption DEF Labels
    <3> QED
      BY <2>5, <3>1 DEF Stamp
  <2>7. p < r
    BY <1>0, <2>3, <2>4
  <2> HIDE DEF r
  <2>8. q \in Pages /\ q <= p
    BY <1>0, <2>2
  <2> QED
    BY <2>1, <2>6, <2>7, <2>8 DEF Stamped
<1>9. CASE ExactOuter(c)
  <2>1. Supports(m, p, new)
    BY <1>1, <1>9 DEF ExactOuter
  <2>2. Supports(after, p, after[p])
    BY <2>1 DEF Supports, new
  <2>3. p \in 1..p /\ \A r \in p..p - 1 : FALSE
    BY <1>0
  <2>4. Joins(p, p, before, after)
    BY <2>2, <2>3 DEF Joins
  <2> QED
    BY <2>3, <2>4
<1>10. CASE InternalOpening(c)
  <2> DEFINE q == Min(c.to)
  <2>1. c.from # {} /\ c.to # {} /\ q > Min(c.from) /\ Supports(m, q, new)
    BY <1>1, <1>10 DEF InternalOpening, OpenedBy
  <2>2. Min(c.from) \in 1..p /\ \A r \in Min(c.from)..p : m[r] = m[p]
    BY <1>1, <2>1, RunStarts
  <2>3. q \in 1..p
    BY <1>1, <2>1, RunStarts
  <2> HIDE DEF q
  <2>4. \A r \in q..p : m[r] = m[p]
    <3>1. \A r \in q..p : r \in Min(c.from)..p
      BY <1>0, <2>1, <2>2, <2>3
    <3> QED
      BY <2>2, <3>1
  <2>5. Supports(after, q, after[p])
    BY <2>1, <2>3, SupportsLater DEF new
  <2>6. Joins(p, q, before, after)
    BY <1>6, <2>3, <2>4, <2>5 DEF Joins
  <2> QED
    BY <2>3, <2>6
<1> QED
  BY <1>5, <1>7, <1>8, <1>9, <1>10


------------------------------------------------------------------------------
(***************************************************************************)
(* The invariant                                                           *)
(***************************************************************************)
IInv ==
  /\ TypeOK
  /\ pc = "fresh" => pass < MaxPasses
  /\ HeadingsDecide

LEMMA FactsIn ==
  ASSUME TypeOK
  PROVE  FactsHold
BY AdjudicationAssumption DEF TypeOK, FactsHold

LEMMA ProposalsIn ==
  ASSUME NEW m \in Maps
  PROVE  Proposals(m) \subseteq Maps /\ IndexMaps(m) \subseteq Maps
<1>1. RuleLabels \subseteq Labels /\ IndexLabels \subseteq Labels
  BY AdjudicationAssumption
<1> QED
  BY <1>1 DEF Proposals, IndexMaps, Maps

LEMMA LlamaIn ==
  ASSUME NEW b \in Bundles
  PROVE  Llama(b) \in Maps
<1>1. b \in Seq(Owner)
  BY AdjudicationAssumption
<1>2. \A i \in DOMAIN b : b[i] \in Owner
  BY <1>1
<1>3. \A i \in DOMAIN b : b[i].owner \in Labels
  BY <1>2 DEF Owner
<1> QED
  BY <1>3 DEF Llama, Maps

LEMMA SeededIn ==
  ASSUME TypeOK
  PROVE  Seeded \in Maps
<1>1. map \in Maps /\ facts.cue \in [Pages -> Cues]
  BY FactsIn DEF TypeOK, FactsHold
<1>2. App1 \in Labels
  BY AdjudicationAssumption DEF Labels
<1>3. ASSUME NEW p \in Pages, facts.cue[p] # None
      PROVE  Type(p) \in Labels
  BY <1>1, <1>2, <1>3 DEF Type, Cues, Labels
<1> HIDE DEF Labels, Cues
<1> QED
  BY <1>1, <1>3 DEF Seeded, Maps

LEMMA ContinuedIn ==
  ASSUME NEW m \in Maps
  PROVE  Continued(m) \in Maps /\ \A p \in Pages : m[p] # {} => Continued(m)[p] = m[p]
<1> DEFINE owned == {p \in Pages : m[p] # {}}
           active(p) == m[Max({q \in owned : q < p})]
           opened == CHOOSE opened :
             opened = [p \in Pages |->
               IF m[p] = {} THEN p > Min(owned) /\ opened[p - 1]
               ELSE IF p = Min(owned) THEN Opens(p, m[p])
               ELSE IF m[p] = active(p) THEN opened[p - 1] \/ Opens(p, m[p])
               ELSE Opens(p, m[p]) \/ (p \notin Starts /\ Distinct(p))]
           inside(p) == (\E q \in owned : q < p) /\ \E q \in owned : q > p
<1>1. ASSUME NEW p \in Pages, inside(p) PROVE active(p) \in SUBSET Labels
  <2>1. Max({q \in owned : q < p}) \in Pages
    BY <1>1, GreatestPage
  <2> QED
    BY <2>1 DEF Maps
<1>2. Continued(m) =
        [p \in Pages |-> IF m[p] = {} /\ inside(p) /\ opened[p] THEN active(p) ELSE m[p]]
  BY DEF Continued
<1> HIDE DEF active, opened, inside
<1> QED
  BY <1>1, <1>2 DEF Maps

LEMMA InitIInv ==
  Init => IInv
<1> SUFFICES ASSUME Init PROVE IInv
  OBVIOUS
<1>1. map \in Maps /\ base = map /\ candidate = map
  BY LlamaIn DEF Init
<1>2. TypeOK
  <2>1. 0 \in 0..Len(PostStages) /\ 0 \in 0..MaxPasses
    BY AdjudicationAssumption
  <2> QED
    BY <1>1, <2>1 DEF Init, TypeOK
<1> QED
  BY <1>1, <1>2 DEF Init, IInv, HeadingsDecide

\* Where a call of the judge begins, the first pass is legal.
LEMMA BeginIn ==
  ASSUME NEW m \in Maps, NEW proposals \in SUBSET Maps, Begin(m, proposals)
  PROVE  /\ candidate' \in Maps /\ map' = m /\ pass' \in 0..MaxPasses
         /\ seen' \subseteq Maps /\ pc' = "pass"
<1>1. 1 \in 0..MaxPasses
  BY AdjudicationAssumption
<1> QED
  BY <1>1 DEF Begin

LEMMA SeedStep ==
  ASSUME IInv, Seed
  PROVE  IInv' /\ \A p \in Pages : map[p] # {} => map'[p] = map[p]
<1>1. TypeOK /\ map \in Maps
  BY DEF IInv, TypeOK
<1>2. Seeded \in Maps /\ \A p \in Pages : map[p] # {} => Seeded[p] = map[p]
  BY <1>1, SeededIn DEF Seeded
<1>3. base' = Continued(Seeded) /\ Begin(base', Proposals(base'))
  BY DEF Seed
<1>4. base' \in Maps /\ \A p \in Pages : Seeded[p] # {} => base'[p] = Seeded[p]
  BY <1>2, <1>3, ContinuedIn
<1>5. Proposals(base') \subseteq Maps
  BY <1>4, ProposalsIn
<1>6. /\ candidate' \in Maps /\ map' = base' /\ pass' \in 0..MaxPasses
      /\ seen' \subseteq Maps /\ pc' = "pass"
  <2> DEFINE S == Proposals(base')
             b == base'
  <2>1. b \in Maps /\ S \in SUBSET Maps /\ Begin(b, S)
    BY <1>3, <1>4, <1>5
  <2> HIDE DEF S
  <2> QED
    BY <2>1, BeginIn
<1>7. TypeOK'
  BY <1>1, <1>4, <1>6 DEF TypeOK, Seed
<1>8. IInv'
  BY <1>6, <1>7 DEF IInv, HeadingsDecide
<1> QED
  BY <1>2, <1>4, <1>6, <1>8

\* What a pass proposes and what it makes of the map.
SweepBy(index, conflicts) ==
  LET s == Swept(map, index, conflicts)
  IN  /\ map' = s.m /\ left' = s.left /\ count' = s.count + 1
      /\ seen' = seen \cup {s.m}

LEMMA SweepUses ==
  ASSUME TypeOK, Sweep
  PROVE  \E index \in Maps, conflicts \in {{}, Pages} : SweepBy(index, conflicts)
<1>1. IndexMaps(map) \subseteq Maps /\ map \in Maps
  BY ProposalsIn DEF TypeOK
<1> HIDE DEF Maps
<1>2. PICK index \in IF UsesIndex THEN IndexMaps(map) ELSE {map},
           conflicts \in {{}, Pages} : SweepBy(index, conflicts)
  BY DEF Sweep, SweepBy
<1> QED
  BY <1>1, <1>2

LEMMA SweepGoesOn ==
  ASSUME TypeOK, Sweep
  PROVE  /\ pc = "pass" /\ pc' \in {"fresh", "stop"}
         /\ pc' = "fresh" => pass < MaxPasses
         /\ UNCHANGED <<facts, bundle, stage, pass, base, candidate>>
<1>1. /\ pc = "pass" /\ UNCHANGED <<facts, bundle, stage, pass, base, candidate>>
      /\ pc' = IF stop' = None THEN "fresh" ELSE "stop"
      /\ stop' = None => ~(pass >= Passes)
  BY DEF Sweep, None
<1>2. Passes \in Nat /\ Passes <= MaxPasses /\ pass \in Nat /\ MaxPasses \in Nat
  BY AdjudicationAssumption DEF TypeOK, Passes
<1>3. ~(pass >= Passes) => pass < MaxPasses
  BY <1>2
<1> QED
  BY <1>1, <1>3

LEMMA SweepStep ==
  ASSUME IInv, Sweep
  PROVE  IInv'
<1>1. TypeOK
  BY DEF IInv
<1>2. PICK index \in Maps, conflicts \in {{}, Pages} : SweepBy(index, conflicts)
  BY <1>1, SweepUses
<1> DEFINE s == Swept(map, index, conflicts)
<1>3. /\ s \in Books
      /\ \A p \in Pages : s.m[p] # map[p] => Judgement(map, index, conflicts, p, s.m)
  BY <1>1, SweptIn
<1>4. map' = s.m /\ left' = s.left /\ count' = s.count + 1 /\ seen' = seen \cup {s.m}
  BY <1>2 DEF SweepBy
<1> HIDE DEF s
<1>5. /\ pc = "pass" /\ pc' \in {"fresh", "stop"}
      /\ pc' = "fresh" => pass < MaxPasses
      /\ UNCHANGED <<facts, bundle, stage, pass, base, candidate>>
  BY <1>1, SweepGoesOn
<1>6. TypeOK'
  <2>1. map' \in Maps /\ left' \in BOOLEAN /\ count' \in Nat /\ seen' \subseteq Maps
    BY <1>1, <1>3, <1>4 DEF Books, TypeOK
  <2> QED
    BY <1>1, <1>5, <2>1 DEF TypeOK
<1>7. ASSUME NEW p \in Pages, facts.cue[p] # None, map'[p] # base[p]
      PROVE  Heading(p, map'[p])
  <2>1. CASE map'[p] = map[p]
    BY <1>7, <2>1 DEF IInv, HeadingsDecide, Heading
  <2>2. CASE map'[p] # map[p]
    <3>1. PICK m : Accepts(map, index, conflicts, m, p, map'[p])
      BY <1>3, <1>4, <2>2 DEF Judgement
    <3> QED
      BY <1>7, <3>1, AcceptsHeading
  <2> QED
    BY <2>1, <2>2
<1>8. HeadingsDecide'
  BY <1>5, <1>7 DEF HeadingsDecide, Heading
<1> QED
  BY <1>5, <1>6, <1>8 DEF IInv

LEMMA FreshStep ==
  ASSUME IInv, Fresh \/ FreshFails
  PROVE  IInv' /\ map' = map
<1>1. TypeOK /\ pc = "fresh" /\ pass < MaxPasses
  BY DEF IInv, Fresh, FreshFails
<1>2. pass + 1 \in 0..MaxPasses /\ count + 1 \in Nat
  BY <1>1, AdjudicationAssumption DEF TypeOK
<1>3. Proposals(map) \subseteq Maps
  BY <1>1, ProposalsIn DEF TypeOK
<1>4. CASE Fresh
  <2>1. PICK proposal \in Proposals(map) :
          /\ count' \in {count + 1, count} /\ candidate' \in {proposal, candidate}
          /\ pass' \in {pass + 1, pass} /\ pc' \in {"pass", "stop"}
          /\ UNCHANGED <<facts, bundle, stage, map, base, seen, left>>
    BY <1>4 DEF Fresh
  <2>2. proposal \in Maps
    BY <1>3
  <2>3. TypeOK'
    BY <1>1, <1>2, <2>1, <2>2 DEF TypeOK
  <2> QED
    BY <2>1, <2>3 DEF IInv, HeadingsDecide
<1>5. CASE FreshFails
  <2>1. TypeOK'
    BY <1>1, <1>2, <1>5 DEF TypeOK, FreshFails
  <2> QED
    BY <1>5, <2>1 DEF IInv, HeadingsDecide, FreshFails
<1> QED
  BY <1>4, <1>5

LEMMA RuleStep ==
  ASSUME IInv, NextRule \/ Finish
  PROVE  IInv' /\ map' = map
<1>1. TypeOK /\ map \in Maps /\ count + 1 \in Nat
  BY DEF IInv, TypeOK
<1>2. CASE NextRule
  <2>1. Proposals(map) \in SUBSET Maps /\ Begin(map, Proposals(map))
    BY <1>1, <1>2, ProposalsIn DEF NextRule
  <2>2. /\ candidate' \in Maps /\ map' = map /\ pass' \in 0..MaxPasses
        /\ seen' \subseteq Maps /\ pc' = "pass"
    BY <1>1, <2>1, BeginIn
  <2>3. stage' \in 0..Len(PostStages) /\ count' \in Nat
    <3>1. Len(PostStages) \in Nat
      BY AdjudicationAssumption
    <3> QED
      BY <1>1, <1>2, <3>1 DEF TypeOK, NextRule
  <2>4. TypeOK'
    BY <1>1, <1>2, <2>2, <2>3 DEF TypeOK, NextRule
  <2> QED
    BY <1>2, <2>2, <2>4 DEF IInv, HeadingsDecide, NextRule
<1>3. CASE Finish
  <2>1. TypeOK'
    BY <1>1, <1>3 DEF TypeOK, Finish
  <2> QED
    BY <1>3, <2>1 DEF IInv, HeadingsDecide, Finish
<1> QED
  BY <1>2, <1>3

LEMMA StepIInv ==
  IInv /\ [Next]_vars => IInv'
<1> SUFFICES ASSUME IInv, [Next]_vars PROVE IInv'
  OBVIOUS
<1>1. CASE Seed
  BY <1>1, SeedStep
<1>2. CASE Sweep
  BY <1>2, SweepStep
<1>3. CASE Fresh \/ FreshFails
  BY <1>3, FreshStep
<1>4. CASE NextRule \/ Finish
  BY <1>4, RuleStep
<1>5. CASE UNCHANGED vars
  BY <1>5 DEF vars, IInv, TypeOK, HeadingsDecide
<1> QED
  BY <1>1, <1>2, <1>3, <1>4, <1>5 DEF Next, Done

LEMMA AlwaysIInv ==
  Spec => []IInv
BY InitIInv, StepIInv, PTL DEF Spec

------------------------------------------------------------------------------
(***************************************************************************)
(* Theorems                                                                *)
(***************************************************************************)
\* Maps stay maps of pages to labels, and a call makes at most its passes
\* (max_passes of reconcile_compiled_split).
THEOREM TypeCorrect == Spec => []TypeOK
<1>1. IInv => TypeOK
  BY DEF IInv
<1> QED
  BY <1>1, AlwaysIInv, PTL

\* No pass and no later rule overrules the opening that a page prints, however
\* long the bundle and however many rules there are (semantic_ok).
THEOREM HeadingsAreKept == Spec => []HeadingsDecide
<1>1. IInv => HeadingsDecide
  BY DEF IInv
<1> QED
  BY <1>1, AlwaysIInv, PTL

LEMMA SweepProtects ==
  ASSUME IInv, Sweep, NEW p \in Pages, NEW i \in ProtectedOn(p),
         bundle[i].owner \in map[p] \ map'[p]
  PROVE  Stamped(p) \/ \E q \in 1..p : JoinsAt(p, q)
<1>1. TypeOK /\ FactsHold
  BY FactsIn DEF IInv
<1>2. PICK index \in Maps, conflicts \in {{}, Pages} : SweepBy(index, conflicts)
  BY <1>1, SweepUses
<1> DEFINE s == Swept(map, index, conflicts)
           after == map'
<1>3. /\ map' = s.m
      /\ \A r \in Pages : s.m[r] # map[r] => Judgement(map, index, conflicts, r, s.m)
  BY <1>1, <1>2, SweptIn DEF SweepBy
<1> HIDE DEF s
<1>4. Judgement(map, index, conflicts, p, after)
  BY <1>3
<1>5. PICK m : Between(m, p, map, after) /\ Accepts(map, index, conflicts, m, p, after[p])
  BY <1>4 DEF Judgement
<1>6. bundle[i].owner \in map[p] \ after[p]
  OBVIOUS
<1> HIDE DEF after
<1>7. Stamped(p) \/ \E q \in 1..p : Joins(p, q, map, after)
  BY <1>1, <1>5, <1>6, AcceptsProtected
<1>8. \A q \in 1..p : Joins(p, q, map, after) => JoinsAt(p, q)
  BY DEF Joins, JoinsAt, after
<1> QED
  BY <1>7, <1>8

\* A page never leaves an agreed range for no reason near it, whatever the
\* passes before made of its neighbours (breaks_protected_segment).
THEOREM RangesAreProtected == Spec => ProtectedHolds
<1> DEFINE Holds == \A p \in Pages : \A i \in ProtectedOn(p) :
                      bundle[i].owner \in map[p] \ map'[p] =>
                        Stamped(p) \/ \E q \in 1..p : JoinsAt(p, q)
<1>1. IInv /\ [Next]_vars => [Holds]_vars
  <2> SUFFICES ASSUME IInv, [Next]_vars, NEW p \in Pages, NEW i \in ProtectedOn(p),
                      bundle[i].owner \in map[p] \ map'[p]
               PROVE  Stamped(p) \/ \E q \in 1..p : JoinsAt(p, q)
    OBVIOUS
  <2>1. CASE Seed
    <3>1. map[p] # {} => map'[p] = map[p]
      BY <2>1, SeedStep
    <3> QED
      BY <3>1
  <2>2. CASE Sweep
    BY <2>2, SweepProtects
  <2>3. CASE Fresh \/ FreshFails
    <3>1. map' = map
      BY <2>3, FreshStep
    <3> QED
      BY <3>1
  <2>4. CASE NextRule \/ Finish
    <3>1. map' = map
      BY <2>4, RuleStep
    <3> QED
      BY <3>1
  <2>5. CASE UNCHANGED vars
    <3>1. map' = map
      BY <2>5 DEF vars
    <3> QED
      BY <3>1
  <2> QED
    BY <2>1, <2>2, <2>3, <2>4, <2>5 DEF Next, Done
<1> HIDE DEF Holds
<1>2. Spec => [][Holds]_vars
  BY <1>1, AlwaysIInv, PTL DEF Spec
<1> QED
  BY <1>2 DEF ProtectedHolds, Holds

------------------------------------------------------------------------------
(***************************************************************************)
(* RateLimiter: every number of callers, rate, cooldown and retry limit    *)
(***************************************************************************)
\* A write in flight neither takes the queue of slots back nor the cooldown,
\* measured against the object it is conditional on.
DraftsForward ==
  \A c \in Callers :
    /\ position[c] \in {"reserving", "publishing"} =>
         draft[c].cooldown >= tag[c].cooldown
    /\ position[c] = "publishing" => draft[c].next >= tag[c].next
    /\ position[c] = "reserving" => draft[c].next >= Interval + 1

\* ... and a reservation leaves an interval to every slot granted before.
DraftsSpaced ==
  \A c \in Callers :
    position[c] = "reserving" => draft[c].next >= tag[c].next + Interval

\* The slots that callers hold were granted before the object's next one.
SlotsBehind ==
  \A c \in Callers : slot[c] # 0 => slot[c] + Interval <= obj.next

PacingInv == DraftsSpaced /\ SlotsBehind /\ SlotsSpaced

------------------------------------------------------------------------------
USE LimiterAssumption

\* A published cooldown is a limiter object again, and moves neither the
\* cooldown nor the queue of slots back (_extend_shared_vertex_cooldown).
LEMMA ExtendedForward ==
  ASSUME LimiterTypeOK
  PROVE  /\ Extended \in Object
         /\ Extended.cooldown >= obj.cooldown
         /\ Extended.next >= obj.next
<1>1. obj.last429 \in Nat /\ obj.count \in 0..16 /\ now \in Nat
  BY DEF LimiterTypeOK, Object
<1>2. Count429 \in 1..16
  BY <1>1 DEF Count429
<1>3. Delay(Count429) \in Nat
  BY DEF Delay
<1> QED
  BY <1>1, <1>2, <1>3 DEF Extended, Pushed, Later, Object, LimiterTypeOK

\* A free slot is not in the past; with a queue that is believed it is not
\* before the object's next one either (_reserve_shared_vertex_slot).
LEMMA FirstFreeForward ==
  ASSUME LimiterTypeOK
  PROVE  /\ FirstFree \in Nat /\ FirstFree >= now
         /\ QueueBelieved => FirstFree >= obj.next
BY DEF LimiterTypeOK, Object, FirstFree, Later, Usable, QueueBelieved

\* Every step keeps the types, and the writes in flight forward.
LEMMA TypeStep ==
  LimiterTypeOK /\ DraftsForward /\ [LimiterNext]_limiterVars => LimiterTypeOK' /\ DraftsForward'
<1> SUFFICES ASSUME LimiterTypeOK, DraftsForward, [LimiterNext]_limiterVars
             PROVE  LimiterTypeOK' /\ DraftsForward'
  OBVIOUS
<1> USE DEF LimiterTypeOK, DraftsForward, Label, Goto, pendingVars, Settle
<1>0. Missing \in Object
  BY DEF Missing, Object
<1>1. ASSUME NEW c \in Callers, ReserveRead(c) PROVE LimiterTypeOK' /\ DraftsForward'
  <2> DEFINE new == [obj EXCEPT !.next = FirstFree + Interval]
  <2>1. FirstFree \in Nat /\ FirstFree >= 1
    BY FirstFreeForward
  <2>2. /\ new \in Object /\ new.next >= Interval + 1
        /\ new.cooldown = obj.cooldown /\ obj.cooldown \in Nat
    BY <2>1 DEF Object
  <2> HIDE DEF new
  <2>3. /\ tag' = [tag EXCEPT ![c] = obj] /\ draft' = [draft EXCEPT ![c] = new]
        /\ position' = [position EXCEPT ![c] = "reserving"]
        /\ UNCHANGED <<now, obj, slot, tries, attempt, calls, ghosts>>
    BY <1>1 DEF ReserveRead, Prepare, new
  <2>4. LimiterTypeOK'
    BY <2>2, <2>3
  <2>5. DraftsForward'
    BY <2>2, <2>3
  <2> QED
    BY <2>4, <2>5
<1>2. ASSUME NEW c \in Callers, ReserveLands(c) PROVE LimiterTypeOK' /\ DraftsForward'
  <2>1. draft[c].next \in Nat /\ draft[c].next >= Interval + 1
    BY <1>2 DEF ReserveLands, Object
  <2>2. draft[c].next - Interval \in Nat
    BY <2>1
  <2>3. /\ obj' \in Object
        /\ slot' = [slot EXCEPT ![c] = draft[c].next - Interval]
        /\ tries' = [tries EXCEPT ![c] = 0]
        /\ position' = [position EXCEPT ![c] = "asleep"]
        /\ tag' = [tag EXCEPT ![c] = Missing]
        /\ draft' = [draft EXCEPT ![c] = Missing]
        /\ UNCHANGED <<now, attempt, calls, ghosts>>
    BY <1>2 DEF ReserveLands, Put
  <2> QED
    BY <2>2, <2>3, <1>0
<1>3. ASSUME NEW c \in Callers, ReserveConflict(c)
      PROVE  LimiterTypeOK' /\ DraftsForward'
  <2>1. obj' \in Object /\ ghosts' \in 0..MaxGhosts
    BY <1>3 DEF ReserveConflict, Rejected, PutFails, Put
  <2>2. tries' \in [Callers -> 0..(MaxTries - 1)]
    BY <1>3 DEF ReserveConflict, TryAgain, LastTry
  <2>3. /\ \E label \in {"reserve", "failed"} : position' = [position EXCEPT ![c] = label]
        /\ tag' = [tag EXCEPT ![c] = Missing]
        /\ draft' = [draft EXCEPT ![c] = Missing]
        /\ UNCHANGED <<now, slot, attempt, calls>>
    BY <1>3 DEF ReserveConflict
  <2> QED
    BY <2>1, <2>2, <2>3, <1>0
<1>4. ASSUME NEW c \in Callers, ReserveError(c) PROVE LimiterTypeOK' /\ DraftsForward'
  BY <1>4, <1>0 DEF ReserveError, PutFails, Put, AttemptFails, Retry
<1>5. ASSUME NEW c \in Callers, Wake(c) PROVE LimiterTypeOK' /\ DraftsForward'
  BY <1>5 DEF Wake
<1>6. ASSUME NEW c \in Callers, Check(c) PROVE LimiterTypeOK' /\ DraftsForward'
  BY <1>6 DEF Check, Leave
<1>7. ASSUME NEW c \in Callers, CheckError(c) PROVE LimiterTypeOK' /\ DraftsForward'
  BY <1>7 DEF CheckError, Leave, AttemptFails, Retry
<1>8. ASSUME NEW c \in Callers, CallOk(c) \/ Call429(c)
      PROVE  LimiterTypeOK' /\ DraftsForward'
  BY <1>8 DEF CallOk, Call429, Called, Leave
<1>9. ASSUME NEW c \in Callers, CallFails(c) PROVE LimiterTypeOK' /\ DraftsForward'
  BY <1>9 DEF CallFails, Called, Leave, AttemptFails, Retry
<1>10. ASSUME NEW c \in Callers, PublishRead(c) PROVE LimiterTypeOK' /\ DraftsForward'
  BY <1>10, ExtendedForward DEF PublishRead, Prepare
<1>11. ASSUME NEW c \in Callers, PublishLands(c) PROVE LimiterTypeOK' /\ DraftsForward'
  BY <1>11, <1>0 DEF PublishLands, Put, Retry
<1>12. ASSUME NEW c \in Callers, PublishConflict(c)
       PROVE  LimiterTypeOK' /\ DraftsForward'
  <2>1. obj' \in Object /\ ghosts' \in 0..MaxGhosts
    BY <1>12 DEF PublishConflict, Rejected, PutFails, Put
  <2>2. tries' \in [Callers -> 0..(MaxTries - 1)]
    BY <1>12 DEF PublishConflict, TryAgain, LastTry
  <2>3. attempt' \in [Callers -> 1..MaxAttempts]
    BY <1>12 DEF PublishConflict, Retry
  <2>4. /\ \E label \in {"publish", "reserve", "failed"} :
              position' = [position EXCEPT ![c] = label]
        /\ tag' = [tag EXCEPT ![c] = Missing]
        /\ draft' = [draft EXCEPT ![c] = Missing]
        /\ UNCHANGED <<now, slot, calls>>
    BY <1>12 DEF PublishConflict, Retry
  <2> QED
    BY <2>1, <2>2, <2>3, <2>4, <1>0
<1>13. ASSUME NEW c \in Callers, PublishError(c) PROVE LimiterTypeOK' /\ DraftsForward'
  BY <1>13, <1>0 DEF PublishError, PutFails, Put, Retry
<1>14. ASSUME NEW c \in Callers, Kill(c) PROVE LimiterTypeOK' /\ DraftsForward'
  BY <1>14, <1>0 DEF Kill, PutFails, Put, Leave
<1>15. CASE Tick
  BY <1>15 DEF Tick
<1>16. CASE UNCHANGED limiterVars
  BY <1>16 DEF limiterVars
<1> QED
  BY <1>1, <1>2, <1>3, <1>4, <1>5, <1>6, <1>7, <1>8, <1>9, <1>10, <1>11,
     <1>12, <1>13, <1>14, <1>15, <1>16 DEF LimiterNext, Step, Fault

------------------------------------------------------------------------------
\* The types hold in every reachable state, and no write in flight takes the
\* cooldown back.
LEMMA Typed == LimiterSpec => [](LimiterTypeOK /\ DraftsForward)
<1>1. LimiterInit => LimiterTypeOK /\ DraftsForward
  BY DEF LimiterInit, LimiterTypeOK, DraftsForward, Object, Missing, Label
<1> QED
  BY <1>1, TypeStep, PTL DEF LimiterSpec

\* LimiterTypeOK holds in every reachable state; with it, the rounds of a conditional
\* write and the attempts of a request stay below their limits (llm.py).
THEOREM LimiterTypesHold == LimiterSpec => []LimiterTypeOK
BY Typed, PTL

\* A cooldown published by one worker is never lost or shortened by another's
\* write (llm.py _reserve_shared_vertex_slot, _extend_shared_vertex_cooldown),
\* for any number of callers and whatever S3 reports of their writes.
THEOREM CooldownKept == LimiterSpec => CooldownNeverShrinks
<1>1. LimiterTypeOK /\ DraftsForward /\ [LimiterNext]_limiterVars
        => [obj'.cooldown >= obj.cooldown]_limiterVars
  <2> SUFFICES ASSUME LimiterTypeOK, DraftsForward, LimiterNext
               PROVE  obj'.cooldown >= obj.cooldown
    OBVIOUS
  <2>1. obj.cooldown \in Nat
    BY DEF LimiterTypeOK, Object
  <2>2. \A c \in Callers :
          position[c] \in {"reserving", "publishing"} /\ obj = tag[c]
            => draft[c].cooldown >= obj.cooldown
    BY DEF DraftsForward
  <2>3. ASSUME NEW c \in Callers, Step(c) \/ Fault(c)
        PROVE  \/ obj' = obj
               \/ /\ position[c] \in {"reserving", "publishing"}
                  /\ obj = tag[c] /\ obj' = draft[c]
    BY <2>3 DEF Step, Fault, ReserveRead, ReserveLands, ReserveConflict,
       ReserveError, Wake, Check, CheckError, CallOk, Call429, CallFails,
       Called, PublishRead, PublishLands, PublishConflict, PublishError, Kill,
       Rejected, PutFails, Put
  <2>4. Tick => obj' = obj
    BY DEF Tick
  <2> QED
    BY <2>1, <2>2, <2>3, <2>4 DEF LimiterNext
<1> QED
  BY <1>1, Typed, PTL DEF LimiterSpec, CooldownNeverShrinks

------------------------------------------------------------------------------
\* A step keeps slots apart as long as the queue of slots is believed: a slot
\* is granted an interval after those granted before, or lies behind them all.
LEMMA PacingStep ==
  LimiterTypeOK /\ DraftsForward /\ QueueBelieved /\ PacingInv /\ [LimiterNext]_limiterVars
    => PacingInv'
<1> SUFFICES ASSUME LimiterTypeOK, DraftsForward, QueueBelieved, PacingInv, [LimiterNext]_limiterVars
             PROVE  PacingInv'
  OBVIOUS
<1> DEFINE Grants(c) == /\ position[c] = "reserving"
                        /\ obj = tag[c] /\ obj' = draft[c]
                        /\ slot' = [slot EXCEPT ![c] =
                                      draft[c].next - Interval]
<1>0. /\ obj.next \in Nat /\ Interval \in Nat \ {0}
      /\ slot \in [Callers -> Nat] /\ position \in [Callers -> Label]
      /\ tag \in [Callers -> Object] /\ draft \in [Callers -> Object]
      /\ \A c \in Callers : tag[c].next \in Nat /\ draft[c].next \in Nat
  BY DEF LimiterTypeOK, Object
<1>a. ASSUME NEW c \in Callers, Step(c) \/ Fault(c)
      PROVE  DraftsSpaced'
  <2>1. CASE ReserveRead(c)
    <3>1. FirstFree \in Nat /\ FirstFree >= obj.next
      BY FirstFreeForward
    <3>2. /\ tag' = [tag EXCEPT ![c] = obj]
          /\ draft' = [draft EXCEPT ![c] =
                         [obj EXCEPT !.next = FirstFree + Interval]]
          /\ position' = [position EXCEPT ![c] = "reserving"]
      BY <2>1 DEF ReserveRead, Prepare, Goto
    <3>3. [obj EXCEPT !.next = FirstFree + Interval].next = FirstFree + Interval
      BY DEF LimiterTypeOK, Object
    <3> QED
      BY <1>0, <3>1, <3>2, <3>3 DEF DraftsSpaced, PacingInv
  <2>2. CASE ~ReserveRead(c)
    <3>1. \A d \in Callers :
            position'[d] = "reserving" =>
              position[d] = "reserving" /\ tag'[d] = tag[d] /\ draft'[d] = draft[d]
      BY <1>a, <2>2, <1>0 DEF Step, Fault, ReserveLands, ReserveConflict,
         ReserveError, Wake, Check, CheckError, CallOk, Call429, CallFails,
         Called, PublishRead, PublishLands, PublishConflict, PublishError,
         Kill, Goto, Settle, Prepare, pendingVars, Retry, AttemptFails, Label
    <3> QED
      BY <3>1 DEF DraftsSpaced, PacingInv
  <2> QED
    BY <2>1, <2>2
\* The object's next slot never moves back, and a slot is held unchanged, given
\* up, or newly granted.
<1>b. ASSUME NEW c \in Callers, Step(c) \/ Fault(c)
      PROVE  \/ Grants(c)
             \/ /\ obj'.next \in Nat /\ obj'.next >= obj.next
                /\ slot' = slot \/ slot' = [slot EXCEPT ![c] = 0]
  <2>1. CASE ReserveLands(c)
    BY <2>1 DEF ReserveLands, Put
  <2>2. CASE ~ReserveLands(c)
    <3>1. \/ obj' = obj
          \/ /\ position[c] \in {"reserving", "publishing"}
             /\ obj = tag[c] /\ obj' = draft[c]
      BY <1>b, <2>2 DEF Step, Fault, ReserveRead, ReserveConflict,
         ReserveError, Wake, Check, CheckError, CallOk, Call429, CallFails,
         Called, PublishRead, PublishLands, PublishConflict, PublishError, Kill,
         Rejected, PutFails, Put
    <3>2. slot' = slot \/ slot' = [slot EXCEPT ![c] = 0]
      BY <1>b, <2>2 DEF Step, Fault, ReserveRead, ReserveConflict,
         ReserveError, Wake, Check, CheckError, CallOk, Call429, CallFails,
         Called, PublishRead, PublishLands, PublishConflict, PublishError, Kill,
         Leave
    <3>3. position[c] \in {"reserving", "publishing"} => draft[c].next >= tag[c].next
      BY <1>0 DEF DraftsForward, PacingInv, DraftsSpaced
    <3> QED
      BY <1>0, <3>1, <3>2, <3>3
  <2> QED
    BY <2>1, <2>2
<1>c. ASSUME NEW c \in Callers, Grants(c)
      PROVE  SlotsBehind' /\ SlotsSpaced'
  <2>1. /\ draft[c].next >= obj.next + Interval
        /\ obj'.next = draft[c].next
    BY <1>c DEF PacingInv, DraftsSpaced
  <2>2. /\ slot'[c] = obj'.next - Interval /\ slot'[c] >= obj.next
        /\ obj'.next \in Nat
    BY <1>0, <1>c, <2>1
  <2>3. \A d \in Callers \ {c} :
          slot'[d] = slot[d] /\ (slot[d] # 0 => slot[d] + Interval <= obj.next)
    BY <1>0, <1>c DEF PacingInv, SlotsBehind
  <2>4. SlotsBehind'
    BY <1>0, <2>1, <2>2, <2>3 DEF SlotsBehind
  <2>5. SlotsSpaced'
    BY <1>0, <2>2, <2>3 DEF SlotsSpaced, PacingInv
  <2> QED
    BY <2>4, <2>5
<1>d. ASSUME NEW c \in Callers, obj'.next \in Nat, obj'.next >= obj.next,
             slot' = slot \/ slot' = [slot EXCEPT ![c] = 0]
      PROVE  SlotsBehind' /\ SlotsSpaced'
  <2>1. \A d \in Callers : slot'[d] # 0 => slot'[d] = slot[d]
    BY <1>0, <1>d
  <2> QED
    BY <1>0, <1>d, <2>1 DEF PacingInv, SlotsBehind, SlotsSpaced
<1>e. CASE Tick \/ UNCHANGED limiterVars
  BY <1>e DEF Tick, limiterVars, pendingVars, PacingInv, DraftsSpaced, SlotsBehind,
     SlotsSpaced
<1> QED
  BY <1>a, <1>b, <1>c, <1>d, <1>e DEF LimiterNext, PacingInv

\* The requests of all workers are paced: their slots are an interval apart,
\* for any number of callers, as long as the queue of slots stays within
\* MAX_SHARED_RATE_LIMIT_QUEUE_S (llm.py _reserve_shared_vertex_slot).
THEOREM Pacing == LimiterSpec /\ []QueueBelieved => []SlotsSpaced
<1>1. LimiterInit => PacingInv
  BY DEF LimiterInit, PacingInv, DraftsSpaced, SlotsBehind, SlotsSpaced
<1>2. LimiterTypeOK /\ DraftsForward /\ QueueBelieved /\ PacingInv /\ [LimiterNext]_limiterVars
        => PacingInv'
  BY PacingStep
<1>3. PacingInv => SlotsSpaced
  BY DEF PacingInv
<1> QED
  BY <1>1, <1>2, <1>3, Typed, PTL DEF LimiterSpec

------------------------------------------------------------------------------
(***************************************************************************)
(* The rate of calls                                                       *)
(***************************************************************************)
Holders == {c \in Callers : slot[c] # 0}
Earlier(t) == {c \in Holders : slot[c] < t}

\* Who sleeps, looks for a cooldown or is about to call has a slot, and nobody
\* else; awake, it is due.
HoldersWhere ==
  \A c \in Callers :
    /\ slot[c] # 0 <=> position[c] \in {"asleep", "check", "call"}
    /\ position[c] \in {"check", "call"} => slot[c] <= now

\* n slots an interval apart, the first not before the first moment, fit before t.
Fit(n, t) == n * Interval <= t - 1

\* The calls made and the slots held, each in an interval of its own: all of
\* them fit before the object's next slot, those not after a slot in the future
\* fit before that one, and those that are due fit until now.
RateInv ==
  /\ HoldersWhere
  /\ IsFiniteSet(Holders)
  /\ calls + Cardinality(Holders) # 0 => Fit(calls + Cardinality(Holders), obj.next)
  /\ \A c \in Holders : slot[c] > now => Fit(calls + Cardinality(Earlier(slot[c])), slot[c])
  /\ Fit(calls + Cardinality(Earlier(now + 1)), now + Interval)

LEMMA FitMore ==
  ASSUME NEW n \in Nat, NEW t \in Nat
  PROVE  /\ Fit(n, t) => Fit(n + 1, t + Interval)
         /\ \A u \in Nat : \A m \in 0..n : Fit(n, t) /\ t <= u => Fit(m, u)
         /\ Fit(0, t) <=> t >= 1
<1>1. (n + 1) * Interval = n * Interval + Interval /\ 0 * Interval = 0
  OBVIOUS
<1>2. \A m \in 0..n : m * Interval <= n * Interval
  OBVIOUS
<1> QED
  BY <1>1, <1>2 DEF Fit

LEMMA EarlierFinite ==
  ASSUME IsFiniteSet(Holders)
  PROVE  /\ Cardinality(Holders) \in Nat
         /\ \A t : /\ Cardinality(Earlier(t)) \in 0..Cardinality(Holders)
                   /\ IsFiniteSet(Earlier(t))
<1>1. \A t : Earlier(t) \in SUBSET Holders
  BY DEF Earlier
<1>2. Cardinality(Holders) \in Nat
  BY FS_CardinalityType
<1>3. ASSUME NEW t PROVE IsFiniteSet(Earlier(t)) /\ Cardinality(Earlier(t)) \in 0..Cardinality(Holders)
  BY <1>1, <1>2, FS_Subset, FS_CardinalityType
<1> QED
  BY <1>2, <1>3

\* What a step does to the slots, the calls and the queue: it grants a slot
\* behind the queue, gives one up, calls with one that is due, or leaves them.
Granted(c) ==
  /\ slot[c] = 0 /\ slot'[c] # 0 /\ slot' = [slot EXCEPT ![c] = slot'[c]]
  /\ slot'[c] >= obj.next /\ obj'.next = slot'[c] + Interval
  /\ calls' = calls
Dropped(c) ==
  slot' \in {slot, [slot EXCEPT ![c] = 0]} /\ calls' = calls /\ obj'.next >= obj.next
Used(c) ==
  /\ slot[c] # 0 /\ slot[c] <= now
  /\ slot' = [slot EXCEPT ![c] = 0] /\ calls' = calls + 1 /\ obj' = obj

LEMMA SlotStep ==
  ASSUME LimiterTypeOK, DraftsForward, DraftsSpaced, HoldersWhere, NEW c \in Callers, Step(c) \/ Fault(c)
  PROVE  /\ now' = now /\ obj'.next \in Nat /\ slot' \in [Callers -> Nat] /\ HoldersWhere'
         /\ Granted(c) \/ Dropped(c) \/ Used(c)
<1>t. /\ obj.next \in Nat /\ Interval \in Nat \ {0} /\ now \in Nat
      /\ slot \in [Callers -> Nat] /\ position \in [Callers -> Label] /\ calls \in Nat
      /\ tag \in [Callers -> Object] /\ draft \in [Callers -> Object]
      /\ \A d \in Callers : tag[d].next \in Nat /\ draft[d].next \in Nat
  BY DEF LimiterTypeOK, Object
<1>0. slot = [slot EXCEPT ![c] = slot[c]]
  BY <1>t
<1> DEFINE Kept == \/ obj' = obj
                   \/ /\ position[c] \in {"reserving", "publishing"}
                      /\ obj = tag[c] /\ obj' = draft[c]
<1>1. Kept => obj'.next \in Nat /\ obj'.next >= obj.next
  BY <1>t DEF DraftsForward, DraftsSpaced
<1>2. CASE ReserveLands(c)
  <2>1. /\ position[c] = "reserving" /\ obj = tag[c] /\ obj' = draft[c]
        /\ slot' = [slot EXCEPT ![c] = draft[c].next - Interval]
        /\ calls' = calls /\ now' = now /\ position' = [position EXCEPT ![c] = "asleep"]
    BY <1>2 DEF ReserveLands, Put, Goto
  <2>2. slot'[c] = draft[c].next - Interval /\ slot'[c] \in Nat /\ slot'[c] >= 1
    BY <1>t, <2>1 DEF DraftsForward
  <2>3. Granted(c)
    BY <1>t, <2>1, <2>2 DEF Granted, DraftsSpaced, HoldersWhere
  <2>4. HoldersWhere'
    BY <1>t, <2>1, <2>2 DEF HoldersWhere
  <2>5. obj'.next \in Nat /\ now' = now
    BY <1>t, <2>1
  <2>6. slot' \in [Callers -> Nat]
    BY <1>t, <2>1, <2>2
  <2> QED
    BY <2>1, <2>3, <2>4, <2>5, <2>6
<1>3. CASE CallOk(c) \/ CallFails(c) \/ Call429(c)
  <2>1. /\ position[c] = "call" /\ calls' = calls + 1 /\ slot' = [slot EXCEPT ![c] = 0]
        /\ now' = now /\ obj' = obj
        /\ \E label \in {"done", "publish", "reserve", "failed"} : position' = [position EXCEPT ![c] = label]
    BY <1>3 DEF CallOk, CallFails, Call429, Called, Leave, Goto, AttemptFails, Retry
  <2> QED
    BY <1>t, <2>1 DEF HoldersWhere, Used
<1>4. CASE ~ReserveLands(c) /\ ~(CallOk(c) \/ CallFails(c) \/ Call429(c))
  <2>1. Kept /\ now' = now /\ calls' = calls
    BY <1>4 DEF Step, Fault, ReserveRead, ReserveConflict,
       ReserveError, Wake, Check, CheckError, PublishRead, PublishLands, PublishConflict,
       PublishError, Kill, Rejected, PutFails, Put
  <2>2. \E label \in Label :
          /\ position' = [position EXCEPT ![c] = label]
          /\ \/ /\ slot' = slot /\ position[c] \notin {"asleep", "check", "call"}
                /\ label \notin {"asleep", "check", "call"}
             \/ /\ slot' = slot /\ position[c] = "asleep" /\ label = "check" /\ slot[c] <= now
             \/ /\ slot' = slot /\ position[c] = "check" /\ label = "call"
             \/ slot' = [slot EXCEPT ![c] = 0] /\ label \notin {"asleep", "check", "call"}
    BY <1>4 DEF Step, Fault, ReserveRead, ReserveConflict,
       ReserveError, Wake, Due, Check, CheckError, PublishRead, PublishLands, PublishConflict,
       PublishError, Kill, Leave, Goto, AttemptFails, Retry, Label
  <2>3. HoldersWhere'
    BY <1>t, <2>1, <2>2 DEF HoldersWhere
  <2>5. obj'.next \in Nat /\ obj'.next >= obj.next
    BY <1>1, <2>1
  <2>6. slot' \in [Callers -> Nat] /\ slot' \in {slot, [slot EXCEPT ![c] = 0]}
    BY <1>t, <2>2
  <2>7. Dropped(c)
    BY <2>1, <2>5, <2>6 DEF Dropped
  <2> QED
    BY <2>1, <2>3, <2>5, <2>6, <2>7
<1> QED
  BY <1>2, <1>3, <1>4

\* Time passes: at most one slot becomes due, and what was before it fits.
LEMMA RateTick == ASSUME LimiterTypeOK, SlotsSpaced, RateInv, Tick PROVE RateInv'
<1>t. /\ Interval \in Nat \ {0} /\ now \in Nat \ {0} /\ calls \in Nat /\ slot \in [Callers -> Nat]
  BY DEF LimiterTypeOK
<1>1. now' = now + 1 /\ slot' = slot /\ position' = position /\ calls' = calls /\ obj' = obj
  BY DEF Tick, pendingVars
<1>2. Holders' = Holders /\ \A c \in Callers : Earlier(slot[c])' = Earlier(slot[c])
  BY <1>1 DEF Holders, Earlier
<1>3. /\ Cardinality(Holders) \in Nat
      /\ \A t : Cardinality(Earlier(t)) \in 0..Cardinality(Holders) /\ IsFiniteSet(Earlier(t))
  BY EarlierFinite DEF RateInv
<1>4. Earlier(now + 1)' = Earlier(now + 2)
  BY <1>t, <1>1, <1>2 DEF Earlier
<1>5. Fit(calls + Cardinality(Earlier(now + 2)), now + 1 + Interval)
  <2>1. CASE \A c \in Holders : slot[c] # now + 1
    <3>1. Earlier(now + 2) = Earlier(now + 1)
      BY <1>t, <2>1 DEF Earlier, Holders
    <3> QED
      BY <1>t, <1>3, <3>1, FitMore DEF RateInv
  <2>2. ASSUME NEW c \in Holders, slot[c] = now + 1
        PROVE  Fit(calls + Cardinality(Earlier(now + 2)), now + 1 + Interval)
    <3>1. Earlier(now + 2) = Earlier(slot[c]) \cup {c} /\ c \notin Earlier(slot[c])
      BY <1>t, <2>2 DEF Earlier, Holders, SlotsSpaced
    <3>2. Cardinality(Earlier(now + 2)) = Cardinality(Earlier(slot[c])) + 1
      BY <1>3, <3>1, FS_AddElement
    <3>3. Fit(calls + Cardinality(Earlier(slot[c])), now + 1)
      BY <1>t, <2>2 DEF RateInv
    <3> DEFINE n == calls + Cardinality(Earlier(slot[c]))
    <3>4. n \in Nat /\ calls + Cardinality(Earlier(now + 2)) = n + 1 /\ Fit(n, now + 1)
      BY <1>t, <1>3, <3>2, <3>3
    <3> HIDE DEF n
    <3> QED
      BY <1>t, <3>4, FitMore
  <2> QED
    BY <2>1, <2>2
<1>6. Fit(calls + Cardinality(Earlier(now + 1)), now + Interval)'
  BY <1>1, <1>4, <1>5 DEF Fit
<1>7. HoldersWhere'
  BY <1>t, <1>1 DEF RateInv, HoldersWhere
<1>8. \A c \in Holders' : slot'[c] > now' =>
         Fit(calls' + Cardinality(Earlier(slot[c])'), slot'[c])
  BY <1>t, <1>1, <1>2 DEF RateInv, Holders
<1> QED
  BY <1>1, <1>2, <1>6, <1>7, <1>8 DEF RateInv, Fit

\* A slot is given up, or calls are made with it: in either case what is held
\* and made before a given time does not grow.
LEMMA RateGivenUp ==
  ASSUME LimiterTypeOK, RateInv, NEW c \in Callers, now' = now, obj'.next \in Nat, HoldersWhere',
         Dropped(c) \/ Used(c)
  PROVE  RateInv'
<1>t. /\ Interval \in Nat \ {0} /\ now \in Nat \ {0} /\ calls \in Nat /\ slot \in [Callers -> Nat]
      /\ obj.next \in Nat
  BY DEF LimiterTypeOK, Object
<1>h. IsFiniteSet(Holders) /\ Cardinality(Holders) \in Nat
  BY FS_CardinalityType DEF RateInv
<1>1. obj'.next >= obj.next /\ calls' \in {calls, calls + 1} /\ slot' \in {slot, [slot EXCEPT ![c] = 0]}
  BY <1>t DEF Dropped, Used
<1>2. Holders' \in SUBSET Holders /\ \A d \in Holders' : slot'[d] = slot[d]
  BY <1>t, <1>1 DEF Holders
<1>3. calls' = calls + 1 => c \in Holders /\ slot[c] <= now /\ Holders' = Holders \ {c}
  BY <1>t DEF Dropped, Used, Holders
<1> DEFINE Before(t) == {d \in Holders' : slot'[d] < t}
<1>4. ASSUME NEW S \in SUBSET Holders, NEW R \in SUBSET S,
             calls' = calls + 1 => c \in S \ R
      PROVE  calls' + Cardinality(R) \in 0..(calls + Cardinality(S))
  <2>0. IsFiniteSet(S) /\ Cardinality(S) \in Nat
    BY <1>h, FS_Subset, FS_CardinalityType
  <2>1. IsFiniteSet(S) /\ IsFiniteSet(R) /\ Cardinality(S) \in Nat /\ Cardinality(R) \in 0..Cardinality(S)
    BY <2>0, FS_Subset, FS_CardinalityType
  <2>2. CASE calls' = calls
    BY <1>t, <2>1, <2>2
  <2>3. CASE calls' = calls + 1
    <3>1. R \in SUBSET (S \ {c}) /\ Cardinality(S \ {c}) = Cardinality(S) - 1 /\ IsFiniteSet(S \ {c})
      BY <1>4, <2>1, <2>3, FS_RemoveElement
    <3>2. Cardinality(R) \in 0..(Cardinality(S) - 1)
      BY <3>1, FS_Subset, FS_CardinalityType, <2>1
    <3> QED
      BY <1>t, <2>1, <2>3, <3>2
  <2> QED
    BY <1>1, <2>2, <2>3
<1>5. calls' + Cardinality(Holders') \in 0..(calls + Cardinality(Holders))
  BY <1>2, <1>3, <1>4
<1>6. \A t \in Nat : t > now =>
        calls' + Cardinality(Before(t)) \in 0..(calls + Cardinality(Earlier(t)))
  <2> SUFFICES ASSUME NEW t \in Nat, t > now
               PROVE  calls' + Cardinality(Before(t)) \in 0..(calls + Cardinality(Earlier(t)))
    OBVIOUS
  <2>1. Earlier(t) \in SUBSET Holders /\ Before(t) \in SUBSET Earlier(t)
    BY <1>2 DEF Earlier
  <2>2. calls' = calls + 1 => c \in Earlier(t) /\ c \notin Before(t)
    BY <1>3, <1>t DEF Earlier, Holders
  <2> HIDE DEF Before
  <2> QED
    BY <1>4, <2>1, <2>2
<1>c. \A t \in Nat : calls + Cardinality(Earlier(t)) \in Nat
  BY <1>t, <1>h, EarlierFinite
<1>f. \A n \in Nat, t \in Nat : \A m \in 0..n : Fit(n, t) => Fit(m, t)
  BY FitMore
<1>7. calls' + Cardinality(Holders') # 0 => Fit(calls' + Cardinality(Holders'), obj'.next)
  <2>1. calls' + Cardinality(Holders') # 0 => calls + Cardinality(Holders) # 0
    BY <1>t, <1>h, <1>5
  <2>2. calls + Cardinality(Holders) \in Nat
    BY <1>t, <1>h
  <2>3. \A u \in Nat : \A m \in 0..(calls + Cardinality(Holders)) :
          Fit(calls + Cardinality(Holders), obj.next) /\ obj.next <= u => Fit(m, u)
    BY <1>t, <2>2, FitMore
  <2> QED
    BY <1>1, <1>5, <2>1, <2>3 DEF RateInv
<1>8. \A d \in Holders' : slot'[d] > now => Fit(calls' + Cardinality(Before(slot'[d])), slot'[d])
  <2> SUFFICES ASSUME NEW d \in Holders', slot[d] > now
               PROVE  Fit(calls' + Cardinality(Before(slot[d])), slot[d])
    BY <1>2
  <2>1. d \in Holders /\ slot[d] \in Nat
    BY <1>t, <1>2 DEF Holders
  <2>2. Fit(calls + Cardinality(Earlier(slot[d])), slot[d])
    BY <2>1 DEF RateInv
  <2> HIDE DEF Before
  <2> QED
    BY <1>6, <1>c, <1>f, <2>1, <2>2
<1>9. Fit(calls' + Cardinality(Before(now + 1)), now + Interval)
  <2>1. Fit(calls + Cardinality(Earlier(now + 1)), now + Interval)
    BY DEF RateInv
  <2>2. now + 1 \in Nat /\ now + 1 > now /\ now + Interval \in Nat
    BY <1>t
  <2> HIDE DEF Before
  <2> QED
    BY <1>6, <1>c, <1>f, <2>1, <2>2
<1>10. IsFiniteSet(Holders')
  BY <1>2, <1>h, FS_Subset
<1> QED
  BY <1>7, <1>8, <1>9, <1>10 DEF RateInv, Earlier, Fit

\* A new slot lies behind all that were granted.
LEMMA RateGranted ==
  ASSUME LimiterTypeOK, SlotsBehind, RateInv, NEW c \in Callers, now' = now, obj'.next \in Nat,
         HoldersWhere', Granted(c), slot'[c] \in Nat
  PROVE  RateInv'
<1>t. /\ Interval \in Nat \ {0} /\ now \in Nat \ {0} /\ calls \in Nat /\ slot \in [Callers -> Nat]
      /\ obj.next \in Nat
  BY DEF LimiterTypeOK, Object
<1> DEFINE s == slot'[c]
<1>1. /\ slot[c] = 0 /\ s # 0 /\ slot' = [slot EXCEPT ![c] = s] /\ s >= obj.next
      /\ obj'.next = s + Interval /\ calls' = calls
  BY DEF Granted
<1>h. IsFiniteSet(Holders) /\ Cardinality(Holders) \in Nat
  BY FS_CardinalityType DEF RateInv
<1>e. \A t : Earlier(t) \in SUBSET Holders /\ Cardinality(Earlier(t)) \in 0..Cardinality(Holders)
             /\ IsFiniteSet(Earlier(t))
  BY EarlierFinite DEF RateInv, Earlier
<1> DEFINE n == calls + Cardinality(Holders)
<1>2. n \in Nat
  BY <1>t, <1>h
<1>3. s \in Nat /\ s >= 1
  BY <1>1
<1> HIDE DEF n, s
<1>4. Fit(n, s)
  <2>1. CASE n = 0
    BY <1>3, <2>1, FitMore
  <2>2. CASE n # 0
    <3>1. Fit(n, obj.next)
      BY <2>2 DEF RateInv, n
    <3> QED
      BY <1>t, <1>1, <1>2, <1>3, <3>1, FitMore
  <2> QED
    BY <2>1, <2>2
<1>5. Fit(n + 1, s + Interval)
  BY <1>2, <1>3, <1>4, FitMore
<1>f. /\ \A u \in Nat : \A m \in 0..n : s <= u => Fit(m, u)
      /\ \A u \in Nat : \A m \in 0..(n + 1) : s + Interval <= u => Fit(m, u)
  <2>1. s + Interval \in Nat /\ n + 1 \in Nat
    BY <1>t, <1>2, <1>3
  <2> QED
    BY <1>2, <1>3, <1>4, <1>5, <2>1, FitMore
<1>6. Holders' = Holders \cup {c} /\ c \notin Holders
  BY <1>t, <1>1, <1>3 DEF Holders
<1>7. IsFiniteSet(Holders') /\ Cardinality(Holders') = Cardinality(Holders) + 1
  BY <1>h, <1>6, FS_AddElement
<1> DEFINE Before(t) == {d \in Holders' : slot'[d] < t}
<1>8. \A d \in Holders : slot'[d] = slot[d] /\ slot[d] < s
  BY <1>t, <1>1, <1>3 DEF Holders, SlotsBehind
<1>9. \A t \in Nat : t <= s => Before(t) = Earlier(t)
  BY <1>1, <1>3, <1>6, <1>8, <1>t DEF Earlier, Holders
<1>10. \A t : Before(t) \in SUBSET (Holders \cup {c})
  BY <1>6
<1> HIDE DEF Before
<1>11. calls' + Cardinality(Holders') # 0 => Fit(calls' + Cardinality(Holders'), obj'.next)
  <2>1. calls' + Cardinality(Holders') = n + 1
    BY <1>t, <1>h, <1>1, <1>7 DEF n
  <2> QED
    BY <1>1, <1>5, <2>1
<1>12. \A d \in Holders' : slot'[d] > now => Fit(calls + Cardinality(Before(slot'[d])), slot'[d])
  <2>1. slot'[c] > now => Fit(calls + Cardinality(Before(slot'[c])), slot'[c])
    <3>1. Before(s) = Earlier(s) /\ calls + Cardinality(Earlier(s)) \in 0..n
      BY <1>t, <1>h, <1>3, <1>9, <1>e DEF n
    <3> QED
      BY <1>3, <1>f, <3>1 DEF s
  <2>2. ASSUME NEW d \in Holders, slot[d] > now
        PROVE  Fit(calls + Cardinality(Before(slot[d])), slot[d])
    <3>1. slot[d] \in Nat /\ slot[d] <= s
      BY <1>t, <1>3, <1>8 DEF Holders
    <3>2. Before(slot[d]) = Earlier(slot[d])
      BY <1>9, <3>1
    <3> QED
      BY <2>2, <3>2 DEF RateInv
  <2>3. ASSUME NEW d \in Holders', slot'[d] > now
        PROVE  Fit(calls + Cardinality(Before(slot'[d])), slot'[d])
    <3>1. CASE d = c
      BY <2>1, <2>3, <3>1, <1>3 DEF s
    <3>2. CASE d \in Holders
      BY <2>2, <2>3, <3>2, <1>8
    <3> QED
      BY <1>6, <2>3, <3>1, <3>2
  <2> QED
    BY <2>3
<1>13. Fit(calls + Cardinality(Before(now + 1)), now + Interval)
  <2>1. CASE s > now
    <3>1. Before(now + 1) = Earlier(now + 1)
      BY <1>t, <1>3, <1>9, <2>1
    <3> QED
      BY <3>1 DEF RateInv
  <2>2. CASE s <= now
    <3>1. calls + Cardinality(Before(now + 1)) \in 0..(n + 1)
      <4>1. Cardinality(Before(now + 1)) \in 0..(Cardinality(Holders) + 1)
        BY <1>h, <1>6, <1>7, <1>10, FS_Subset, FS_CardinalityType
      <4> QED
        BY <1>t, <1>h, <4>1 DEF n
    <3>2. now + Interval \in Nat /\ s + Interval <= now + Interval
      BY <1>t, <1>3, <2>2
    <3> QED
      BY <1>f, <3>1, <3>2
  <2> QED
    BY <1>t, <1>3, <2>1, <2>2
<1> QED
  BY <1>1, <1>7, <1>11, <1>12, <1>13 DEF RateInv, Earlier, Fit, Before

LEMMA RateStep ==
  LimiterTypeOK /\ DraftsForward /\ PacingInv /\ RateInv /\ [LimiterNext]_limiterVars => RateInv'
<1> SUFFICES ASSUME LimiterTypeOK, DraftsForward, PacingInv, RateInv, [LimiterNext]_limiterVars PROVE RateInv'
  OBVIOUS
<1> USE DEF PacingInv
<1>1. ASSUME NEW c \in Callers, Step(c) \/ Fault(c) PROVE RateInv'
  <2>1. /\ now' = now /\ obj'.next \in Nat /\ HoldersWhere' /\ slot'[c] \in Nat
        /\ Granted(c) \/ Dropped(c) \/ Used(c)
    BY <1>1, SlotStep DEF RateInv
  <2> QED
    BY <2>1, RateGivenUp, RateGranted
<1>2. CASE Tick
  BY <1>2, RateTick
<1>3. CASE UNCHANGED limiterVars
  BY <1>3 DEF limiterVars, pendingVars, RateInv, HoldersWhere, Holders, Earlier, Fit
<1> QED
  BY <1>1, <1>2, <1>3 DEF LimiterNext

\* All workers together stay below the configured rate of calls, retries
\* counted (llm.py _reserve_shared_vertex_slot), for any number of callers, as
\* long as the queue of slots stays within MAX_SHARED_RATE_LIMIT_QUEUE_S.
THEOREM RateIsBounded == LimiterSpec /\ []QueueBelieved => []RateBound
<1>1. LimiterInit => PacingInv /\ RateInv
  <2> SUFFICES ASSUME LimiterInit PROVE PacingInv /\ RateInv
    OBVIOUS
  <2>1. Holders = {} /\ \A t : Earlier(t) = {}
    BY DEF LimiterInit, Holders, Earlier
  <2>2. IsFiniteSet({}) /\ Cardinality({}) = 0
    BY FS_EmptySet
  <2> QED
    BY <2>1, <2>2 DEF LimiterInit, PacingInv, DraftsSpaced, SlotsBehind, SlotsSpaced, RateInv,
         HoldersWhere, Fit
<1>2. LimiterTypeOK /\ DraftsForward /\ QueueBelieved /\ PacingInv /\ RateInv /\ [LimiterNext]_limiterVars
        => PacingInv' /\ RateInv'
  BY PacingStep, RateStep
<1>3. LimiterTypeOK /\ RateInv => RateBound
  <2> SUFFICES ASSUME LimiterTypeOK, RateInv PROVE RateBound
    OBVIOUS
  <2>1. calls \in Nat /\ Cardinality(Earlier(now + 1)) \in Nat /\ now \in Nat
    BY EarlierFinite DEF RateInv, LimiterTypeOK
  <2>2. Fit(calls, now + Interval)
    BY <2>1, FitMore DEF RateInv
  <2> QED
    BY <2>1, <2>2 DEF Fit, RateBound
<1> QED
  BY <1>1, <1>2, <1>3, Typed, PTL DEF LimiterSpec
==============================================================================
