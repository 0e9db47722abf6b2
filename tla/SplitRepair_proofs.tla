--------------------------- MODULE SplitRepair_proofs ---------------------------
(***************************************************************************)
(* What the repair of a split keeps, for books of any length, with any     *)
(* Index, any stamps and any map of the model.  First, maps stay maps: a   *)
(* pass that walks the pages is a function by recursion, so there is one   *)
(* lemma for each walk, and one for each pass.  Then, what the rows of the *)
(* Index own: where the folios put their pages, and that the five passes   *)
(* behind the last IndexedAnnexures leave these pages what they are.       *)
(***************************************************************************)
EXTENDS SplitRepair, WellFoundedInduction, FiniteSetTheorems, TLAPS

------------------------------------------------------------------------------
(***************************************************************************)
(* Pages, and walks over them                                              *)
(***************************************************************************)
LEMMA LeastNumber ==
  ASSUME NEW T \in SUBSET Nat, T # {}
  PROVE  Min(T) \in T /\ \A m \in T : Min(T) <= m
<1>1. PICK n \in T : \A m \in T : ~ (<<m, n>> \in OpToRel(<, Nat))
  BY WFMin, NatLessThanWellFounded
<1>2. \A m \in T : ~ (m < n)
  BY <1>1 DEF OpToRel
<1>3. \E x \in T : \A m \in T : x <= m
  BY <1>2
<1> QED
  BY <1>3 DEF Min

LEMMA PagesAre == PageCount \in Nat /\ PageCount > 0 /\ Pages = 1..PageCount
                  /\ Pages \in SUBSET Nat
  BY HeadingAssumption DEF Pages

LEMMA FirstPage ==
  ASSUME NEW S \in SUBSET Pages, S # {}
  PROVE  Min(S) \in S /\ Min(S) \in Pages /\ \A q \in S : Min(S) <= q
<1>1. S \in SUBSET Nat
  BY PagesAre
<1>2. Min(S) \in S /\ \A q \in S : Min(S) <= q
  BY <1>1, LeastNumber
<1> QED
  BY <1>2

LEMMA GreatestOf ==
  ASSUME NEW S \in SUBSET Nat, NEW n \in Nat, S # {}, \A x \in S : x <= n
  PROVE  Max(S) \in S /\ \A q \in S : q <= Max(S)
<1> DEFINE back == {k \in Nat : \E q \in S : k = n - q}
<1>1. back # {}
  <2>1. PICK q \in S : TRUE
    OBVIOUS
  <2>2. n - q \in back
    OBVIOUS
  <2> QED
    BY <2>2
<1>2. PICK k \in back : \A j \in back : k <= j
  BY <1>1, LeastNumber
<1>3. PICK x \in S : k = n - x
  BY <1>2
<1>4. ASSUME NEW q \in S PROVE q <= x
  <2>1. n - q \in back
    OBVIOUS
  <2> HIDE DEF back
  <2>2. n - x <= n - q /\ x \in Nat /\ q \in Nat
    BY <1>2, <1>3, <2>1
  <2> QED
    BY <2>2
<1>5. \E y \in S : \A q \in S : y >= q
  BY <1>4
<1> QED
  BY <1>5 DEF Max

LEMMA LastPage ==
  ASSUME NEW S \in SUBSET Pages, S # {}
  PROVE  Max(S) \in S /\ Max(S) \in Pages /\ \A q \in S : q <= Max(S)
<1>1. S \in SUBSET Nat /\ PageCount \in Nat /\ \A x \in S : x <= PageCount
  BY PagesAre
<1>2. Max(S) \in S /\ \A q \in S : q <= Max(S)
  BY <1>1, GreatestOf
<1> QED
  BY <1>2

LEMMA OneByOne ==
  ASSUME NEW n \in Nat, NEW T, 0 \in T, \A p \in 1..n : p - 1 \in T => p \in T
  PROVE  \A i \in 0..n : i \in T
<1> DEFINE out == {i \in 0..n : i \notin T}
<1> SUFFICES ASSUME out # {} PROVE FALSE
  OBVIOUS
<1>1. Min(out) \in out /\ \A j \in out : Min(out) <= j
  <2>1. out \in SUBSET Nat
    OBVIOUS
  <2> HIDE DEF out
  <2> QED
    BY <2>1, LeastNumber
<1> DEFINE i == Min(out)
<1> HIDE DEF i
<1>2. i \in out /\ \A j \in out : i <= j
  BY <1>1 DEF i
<1>3. i \in 1..n /\ i - 1 \in 0..n /\ i - 1 < i
  BY <1>2
<1>4. i - 1 \in T
  BY <1>2, <1>3
<1> QED
  BY <1>2, <1>3, <1>4

\* What a walk of n steps has in hand, step by step.
Walks(n, h, S, init, g) ==
  /\ h \in [0..n -> S] /\ h[0] = init
  /\ \A p \in 1..n : h[p] = g[<<h[p - 1], p>>]

LEMMA WalkExists ==
  ASSUME NEW n \in Nat, NEW S, NEW init \in S, NEW g,
         \A b \in S, p \in 1..n : g[<<b, p>>] \in S
  PROVE  \E h : Walks(n, h, S, init, g)
<1> DEFINE upTo(i, h) == Walks(i, h, S, init, g)
           T == {i \in 0..n : \E h : upTo(i, h)}
<1>1. 0 \in T
  <2> DEFINE h0 == [i \in 0..0 |-> init]
  <2>1. upTo(0, h0)
    BY DEF Walks
  <2> HIDE DEF h0
  <2>2. 0 \in 0..n /\ \E h : upTo(0, h)
    BY <2>1
  <2> HIDE DEF upTo
  <2> QED
    BY <2>2
<1>2. ASSUME NEW p \in 1..n, p - 1 \in T PROVE p \in T
  <2>0. p - 1 \in 0..n /\ p \in 0..n
    OBVIOUS
  <2>1. PICK h : upTo(p - 1, h)
    BY <1>2
  <2> DEFINE k == [i \in 0..p |-> IF i < p THEN h[i] ELSE g[<<h[p - 1], p>>]]
  <2>2. h[p - 1] \in S
    BY <2>0, <2>1 DEF Walks
  <2>3. g[<<h[p - 1], p>>] \in S
    BY <2>2
  <2>4. k \in [0..p -> S]
    <3>1. ASSUME NEW i \in 0..p PROVE k[i] \in S
      <4>1. CASE i < p
        <5>1. i \in 0..p - 1
          BY <4>1, <2>0
        <5> QED  BY <5>1, <4>1, <2>1 DEF Walks
      <4>2. CASE ~ (i < p)
        BY <4>2, <2>3
      <4> QED  BY <4>1, <4>2
    <3> QED  BY <3>1
  <2>5. k[0] = init
    BY <2>0, <2>1 DEF Walks
  <2>6. ASSUME NEW q \in 1..p PROVE k[q] = g[<<k[q - 1], q>>]
    <3>1. q - 1 \in 0..p /\ q - 1 < p /\ k[q - 1] = h[q - 1]
      BY <2>0
    <3>2. CASE q < p
      <4>1. q \in 1..p - 1 /\ k[q] = h[q]
        BY <3>2, <2>0
      <4> QED  BY <4>1, <3>1, <2>1 DEF Walks
    <3>3. CASE q = p
      <4>1. k[q] = g[<<h[p - 1], p>>]
        BY <3>3, <2>0
      <4> QED  BY <3>1, <3>3, <4>1
    <3> QED  BY <2>0, <3>2, <3>3
  <2>7. upTo(p, k)
    <3> HIDE DEF k
    <3> QED  BY <2>4, <2>5, <2>6 DEF Walks
  <2> HIDE DEF upTo, k
  <2> QED
    BY <2>0, <2>7
<1>3. n \in T
  <2> HIDE DEF T
  <2>1. \A i \in 0..n : i \in T
    BY <1>1, <1>2, OneByOne
  <2> QED
    BY <2>1
<1> QED
  BY <1>3

Start(m) == [m |-> m, on |-> {}]

LEMMA WalkStays ==
  ASSUME NEW S, NEW at, at[0] \in S, \A p \in Pages : at[p - 1] \in S => at[p] \in S
  PROVE  at[PageCount] \in S
<1> DEFINE T == {i \in 0..PageCount : at[i] \in S}
<1>1. 0 \in T
  BY PagesAre
<1>2. ASSUME NEW p \in 1..PageCount, p - 1 \in T PROVE p \in T
  BY <1>2, PagesAre
<1>3. \A i \in 0..PageCount : i \in T
  <2> HIDE DEF T
  <2> QED  BY <1>1, <1>2, OneByOne, PagesAre
<1> QED
  BY <1>3, PagesAre

------------------------------------------------------------------------------
(***************************************************************************)
(* What is known of a book                                                 *)
(***************************************************************************)
RowSet == [label : Labels, first : Nat, last : Nat]

\* What Init takes from Books, and no step changes.
BookTyped ==
  /\ book \in [Pages -> Facts] /\ llama \in Maps
  /\ index.lists \subseteq Annexures
  /\ index.rows \subseteq RowSet

LEMMA SheetFacts ==
  ASSUME BookTyped, NEW p \in Pages
  PROVE  /\ Anchor(p) \in Outer \cup AppSet \cup {None}
         /\ Stamp(p) \in Numbered \cup {None} /\ Begins(p) \in BOOLEAN
         /\ book[p].body \in Bodies /\ Folio(p) \in Nat /\ book[p].folio \in Nat
         /\ book[p].cites \in SUBSET [label : Numbered, first : Nat, last : Nat]
<1>1. book[p] \in Facts
  BY DEF BookTyped
<1> QED
  BY <1>1 DEF Facts, Anchor, Stamp, Begins, Folio

LEMMA NoneIsNoLabel == None \notin Labels /\ None \notin Numbered
<1>1. None \notin Outer
  BY DEF None, Outer, Steal, FrontParts, Representation, Main, Order
<1>2. None \notin Numbered /\ None \notin AppSet /\ None # "Annexures"
  BY HeadingAssumption DEF None
<1> QED
  BY <1>1, <1>2 DEF Labels, Annexures

LEMMA Labelled ==
  /\ Outer \subseteq Labels /\ Numbered \subseteq Annexures /\ Annexures \subseteq Labels
  /\ AppSet \subseteq Labels /\ Apps[1] \in AppSet
  /\ {Main, Order, "Index", "Cover Page", "Affidavit", "Office Report", "Listing Proforma",
      "Vakalatnama", "Memo of Appearance", "Memo of Parties", "AOR's Certificate",
      "Record of Proceedings", "Appendix"} \subseteq Labels
<1>1. Apps[1] \in AppSet
  BY HeadingAssumption DEF AppSet, ToSet
<1>2. Numbered \subseteq Annexures /\ Annexures \subseteq Labels /\ Outer \subseteq Labels
      /\ AppSet \subseteq Labels
  BY DEF Annexures, Labels
<1>3. {Main, Order, "Index", "Cover Page", "Affidavit", "Office Report", "Listing Proforma",
       "Vakalatnama", "Memo of Appearance", "Memo of Parties", "AOR's Certificate",
       "Record of Proceedings", "Appendix"} \subseteq Outer
  BY DEF Outer, Steal, Representation, Main, Order
<1> QED
  BY <1>1, <1>2, <1>3

LEMMA SheetLabels ==
  ASSUME BookTyped, NEW p \in Pages
  PROVE  /\ Anchor(p) # None => Anchor(p) \in Labels
         /\ Stamped(p) => Stamp(p) \in Numbered /\ Stamp(p) \in Annexures /\ Stamp(p) \in Labels
  BY SheetFacts, Labelled DEF Labels, Stamped

\* What a walk has in hand.
Bands == [m : Maps, on : SUBSET Labels]

LEMMA Hands ==
  ASSUME NEW b \in Bands, NEW p \in Pages, NEW l \in SUBSET Labels
  PROVE  /\ Put(b, p, l) \in Bands /\ Carry(b, p, l) \in Bands /\ Drop(b) \in Bands
         /\ [b EXCEPT !.on = l] \in Bands
  BY DEF Bands, Put, Carry, Drop, Maps

LEMMA InHand ==
  ASSUME NEW b \in Bands
  PROVE  b.m \in Maps /\ b.on \in SUBSET Labels /\ \A p \in Pages : b.m[p] \in SUBSET Labels
  BY DEF Bands, Maps

LEMMA Starts0 == \A m \in Maps : Start(m) \in Bands
  BY DEF Bands, Start

LEMMA OnPage == \A m \in Maps, p \in Pages : m[p] \in SUBSET Labels
  BY DEF Maps

LEMMA Enclosing ==
  ASSUME BookTyped, NEW p \in Pages, EnvelopeOf(p) # {}
  PROVE  Stamp(CHOOSE s \in EnvelopeOf(p) : TRUE) \in Numbered
<1> DEFINE s == CHOOSE s \in EnvelopeOf(p) : TRUE
<1>1. s \in EnvelopeOf(p)
  OBVIOUS
<1> HIDE DEF s
<1>2. s \in Pages /\ Stamped(s)
  BY <1>1 DEF EnvelopeOf, Starts
<1> QED
  BY <1>2, SheetLabels DEF s

LEMMA HandsAre ==
  ASSUME NEW b \in Bands, NEW p \in Pages, NEW l \in SUBSET Labels, NEW k \in SUBSET Labels
  PROVE  /\ [m |-> [b.m EXCEPT ![p] = l], on |-> k] \in Bands
         /\ [m |-> b.m, on |-> k] \in Bands
  BY DEF Bands, Maps

LEMMA AppChosen ==
  ASSUME NEW m \in Maps, NEW p \in Pages, AppsOn(m, p) # {}
  PROVE  AppOn(m, p) \in AppSet /\ AppOn(m, p) \in m[p]
  BY DEF AppOn, AppsOn

LEMMA AnchorWalk ==
  ASSUME NEW m, NEW S, Start(m) \in S, \A b \in S, p \in Pages : AnchorStep(b, p) \in S
  PROVE  \E c \in S : Walk(AnchorStep, m) = c.m
<1> DEFINE g == [v \in S \X Pages |-> AnchorStep(v[1], v[2])]
           Eq(f) == f = [p \in 0..PageCount |-> IF p = 0 THEN [m |-> m, on |-> {}]
                                                ELSE AnchorStep(f[p - 1], p)]
           at == CHOOSE f : Eq(f)
<1>1. Walk(AnchorStep, m) = at[PageCount].m
  BY DEF Walk
<1>2. \A b \in S, p \in Pages : g[<<b, p>>] = AnchorStep(b, p)
  OBVIOUS
<1> HIDE DEF g
<1>3. PICK h : Walks(PageCount, h, S, Start(m), g)
  BY <1>2, PagesAre, WalkExists
<1>4. Eq(h)
  <2>1. \A p \in Pages : h[p - 1] \in S
    BY <1>3, PagesAre DEF Walks
  <2>2. ASSUME NEW p \in Pages PROVE h[p] = AnchorStep(h[p - 1], p)
    <3>1. h[p] = g[<<h[p - 1], p>>]
      BY <1>3, PagesAre DEF Walks
    <3> QED  BY <3>1, <1>2, <2>1
  <2> QED
    BY <2>2, <1>3, PagesAre DEF Walks, Start
<1>5. Eq(at)
  BY <1>4
<1> HIDE DEF at
<1>6. at[0] \in S
  BY <1>5, PagesAre DEF Start
<1>7. \A p \in Pages : p \in 0..PageCount /\ p # 0
  BY PagesAre
<1>8. at[PageCount] \in S
  BY <1>5, <1>6, <1>7, WalkStays
<1> QED
  BY <1>1, <1>8

LEMMA FrontWalk ==
  ASSUME NEW m, NEW S, Start(m) \in S, \A b \in S, p \in Pages : FrontStep(b, p) \in S
  PROVE  \E c \in S : Walk(FrontStep, m) = c.m
<1> DEFINE g == [v \in S \X Pages |-> FrontStep(v[1], v[2])]
           Eq(f) == f = [p \in 0..PageCount |-> IF p = 0 THEN [m |-> m, on |-> {}]
                                                ELSE FrontStep(f[p - 1], p)]
           at == CHOOSE f : Eq(f)
<1>1. Walk(FrontStep, m) = at[PageCount].m
  BY DEF Walk
<1>2. \A b \in S, p \in Pages : g[<<b, p>>] = FrontStep(b, p)
  OBVIOUS
<1> HIDE DEF g
<1>3. PICK h : Walks(PageCount, h, S, Start(m), g)
  BY <1>2, PagesAre, WalkExists
<1>4. Eq(h)
  <2>1. \A p \in Pages : h[p - 1] \in S
    BY <1>3, PagesAre DEF Walks
  <2>2. ASSUME NEW p \in Pages PROVE h[p] = FrontStep(h[p - 1], p)
    <3>1. h[p] = g[<<h[p - 1], p>>]
      BY <1>3, PagesAre DEF Walks
    <3> QED  BY <3>1, <1>2, <2>1
  <2> QED
    BY <2>2, <1>3, PagesAre DEF Walks, Start
<1>5. Eq(at)
  BY <1>4
<1> HIDE DEF at
<1>6. at[0] \in S
  BY <1>5, PagesAre DEF Start
<1>7. \A p \in Pages : p \in 0..PageCount /\ p # 0
  BY PagesAre
<1>8. at[PageCount] \in S
  BY <1>5, <1>6, <1>7, WalkStays
<1> QED
  BY <1>1, <1>8

LEMMA ChecklistWalk ==
  ASSUME NEW m, NEW S, Start(m) \in S, \A b \in S, p \in Pages : ChecklistStep(b, p) \in S
  PROVE  \E c \in S : FalseChecklist(m) = c.m
<1> DEFINE g == [v \in S \X Pages |-> ChecklistStep(v[1], v[2])]
           Eq(f) == f = [p \in 0..PageCount |-> IF p = 0 THEN [m |-> m, on |-> {}]
                                                ELSE ChecklistStep(f[p - 1], p)]
           at == CHOOSE f : Eq(f)
<1>1. FalseChecklist(m) = at[PageCount].m
  BY DEF FalseChecklist, Walk
<1>2. \A b \in S, p \in Pages : g[<<b, p>>] = ChecklistStep(b, p)
  OBVIOUS
<1> HIDE DEF g
<1>3. PICK h : Walks(PageCount, h, S, Start(m), g)
  BY <1>2, PagesAre, WalkExists
<1>4. Eq(h)
  <2>1. \A p \in Pages : h[p - 1] \in S
    BY <1>3, PagesAre DEF Walks
  <2>2. ASSUME NEW p \in Pages PROVE h[p] = ChecklistStep(h[p - 1], p)
    <3>1. h[p] = g[<<h[p - 1], p>>]
      BY <1>3, PagesAre DEF Walks
    <3> QED  BY <3>1, <1>2, <2>1
  <2> QED
    BY <2>2, <1>3, PagesAre DEF Walks, Start
<1>5. Eq(at)
  BY <1>4
<1> HIDE DEF at
<1>6. at[0] \in S
  BY <1>5, PagesAre DEF Start
<1>7. \A p \in Pages : p \in 0..PageCount /\ p # 0
  BY PagesAre
<1>8. at[PageCount] \in S
  BY <1>5, <1>6, <1>7, WalkStays
<1> QED
  BY <1>1, <1>8

LEMMA OfficeWalk ==
  ASSUME NEW m, NEW S, Start(m) \in S, \A b \in S, p \in Pages : OfficeStep(b, p) \in S
  PROVE  \E c \in S : OfficeReports(m) = c.m
<1> DEFINE g == [v \in S \X Pages |-> OfficeStep(v[1], v[2])]
           Eq(f) == f = [p \in 0..PageCount |-> IF p = 0 THEN [m |-> m, on |-> {}]
                                                ELSE OfficeStep(f[p - 1], p)]
           at == CHOOSE f : Eq(f)
<1>1. OfficeReports(m) = at[PageCount].m
  BY DEF OfficeReports, Walk
<1>2. \A b \in S, p \in Pages : g[<<b, p>>] = OfficeStep(b, p)
  OBVIOUS
<1> HIDE DEF g
<1>3. PICK h : Walks(PageCount, h, S, Start(m), g)
  BY <1>2, PagesAre, WalkExists
<1>4. Eq(h)
  <2>1. \A p \in Pages : h[p - 1] \in S
    BY <1>3, PagesAre DEF Walks
  <2>2. ASSUME NEW p \in Pages PROVE h[p] = OfficeStep(h[p - 1], p)
    <3>1. h[p] = g[<<h[p - 1], p>>]
      BY <1>3, PagesAre DEF Walks
    <3> QED  BY <3>1, <1>2, <2>1
  <2> QED
    BY <2>2, <1>3, PagesAre DEF Walks, Start
<1>5. Eq(at)
  BY <1>4
<1> HIDE DEF at
<1>6. at[0] \in S
  BY <1>5, PagesAre DEF Start
<1>7. \A p \in Pages : p \in 0..PageCount /\ p # 0
  BY PagesAre
<1>8. at[PageCount] \in S
  BY <1>5, <1>6, <1>7, WalkStays
<1> QED
  BY <1>1, <1>8

LEMMA PartiesWalk ==
  ASSUME NEW m, NEW S, Start(m) \in S, \A b \in S, p \in Pages : PartiesStep(b, p) \in S
  PROVE  \E c \in S : MemoOfParties(m) = c.m
<1> DEFINE g == [v \in S \X Pages |-> PartiesStep(v[1], v[2])]
           Eq(f) == f = [p \in 0..PageCount |-> IF p = 0 THEN [m |-> m, on |-> {}]
                                                ELSE PartiesStep(f[p - 1], p)]
           at == CHOOSE f : Eq(f)
<1>1. MemoOfParties(m) = at[PageCount].m
  BY DEF MemoOfParties, Walk
<1>2. \A b \in S, p \in Pages : g[<<b, p>>] = PartiesStep(b, p)
  OBVIOUS
<1> HIDE DEF g
<1>3. PICK h : Walks(PageCount, h, S, Start(m), g)
  BY <1>2, PagesAre, WalkExists
<1>4. Eq(h)
  <2>1. \A p \in Pages : h[p - 1] \in S
    BY <1>3, PagesAre DEF Walks
  <2>2. ASSUME NEW p \in Pages PROVE h[p] = PartiesStep(h[p - 1], p)
    <3>1. h[p] = g[<<h[p - 1], p>>]
      BY <1>3, PagesAre DEF Walks
    <3> QED  BY <3>1, <1>2, <2>1
  <2> QED
    BY <2>2, <1>3, PagesAre DEF Walks, Start
<1>5. Eq(at)
  BY <1>4
<1> HIDE DEF at
<1>6. at[0] \in S
  BY <1>5, PagesAre DEF Start
<1>7. \A p \in Pages : p \in 0..PageCount /\ p # 0
  BY PagesAre
<1>8. at[PageCount] \in S
  BY <1>5, <1>6, <1>7, WalkStays
<1> QED
  BY <1>1, <1>8

LEMMA PrefaceWalk ==
  ASSUME NEW m, NEW S, Start(m) \in S, \A b \in S, p \in Pages : PrefaceStep(b, p) \in S
  PROVE  \E c \in S : Walk(PrefaceStep, m) = c.m
<1> DEFINE g == [v \in S \X Pages |-> PrefaceStep(v[1], v[2])]
           Eq(f) == f = [p \in 0..PageCount |-> IF p = 0 THEN [m |-> m, on |-> {}]
                                                ELSE PrefaceStep(f[p - 1], p)]
           at == CHOOSE f : Eq(f)
<1>1. Walk(PrefaceStep, m) = at[PageCount].m
  BY DEF Walk
<1>2. \A b \in S, p \in Pages : g[<<b, p>>] = PrefaceStep(b, p)
  OBVIOUS
<1> HIDE DEF g
<1>3. PICK h : Walks(PageCount, h, S, Start(m), g)
  BY <1>2, PagesAre, WalkExists
<1>4. Eq(h)
  <2>1. \A p \in Pages : h[p - 1] \in S
    BY <1>3, PagesAre DEF Walks
  <2>2. ASSUME NEW p \in Pages PROVE h[p] = PrefaceStep(h[p - 1], p)
    <3>1. h[p] = g[<<h[p - 1], p>>]
      BY <1>3, PagesAre DEF Walks
    <3> QED  BY <3>1, <1>2, <2>1
  <2> QED
    BY <2>2, <1>3, PagesAre DEF Walks, Start
<1>5. Eq(at)
  BY <1>4
<1> HIDE DEF at
<1>6. at[0] \in S
  BY <1>5, PagesAre DEF Start
<1>7. \A p \in Pages : p \in 0..PageCount /\ p # 0
  BY PagesAre
<1>8. at[PageCount] \in S
  BY <1>5, <1>6, <1>7, WalkStays
<1> QED
  BY <1>1, <1>8

LEMMA SwornWalk ==
  ASSUME NEW m, NEW S, Start(m) \in S, \A b \in S, p \in Pages : SwornStep(b, p) \in S
  PROVE  \E c \in S : Walk(SwornStep, m) = c.m
<1> DEFINE g == [v \in S \X Pages |-> SwornStep(v[1], v[2])]
           Eq(f) == f = [p \in 0..PageCount |-> IF p = 0 THEN [m |-> m, on |-> {}]
                                                ELSE SwornStep(f[p - 1], p)]
           at == CHOOSE f : Eq(f)
<1>1. Walk(SwornStep, m) = at[PageCount].m
  BY DEF Walk
<1>2. \A b \in S, p \in Pages : g[<<b, p>>] = SwornStep(b, p)
  OBVIOUS
<1> HIDE DEF g
<1>3. PICK h : Walks(PageCount, h, S, Start(m), g)
  BY <1>2, PagesAre, WalkExists
<1>4. Eq(h)
  <2>1. \A p \in Pages : h[p - 1] \in S
    BY <1>3, PagesAre DEF Walks
  <2>2. ASSUME NEW p \in Pages PROVE h[p] = SwornStep(h[p - 1], p)
    <3>1. h[p] = g[<<h[p - 1], p>>]
      BY <1>3, PagesAre DEF Walks
    <3> QED  BY <3>1, <1>2, <2>1
  <2> QED
    BY <2>2, <1>3, PagesAre DEF Walks, Start
<1>5. Eq(at)
  BY <1>4
<1> HIDE DEF at
<1>6. at[0] \in S
  BY <1>5, PagesAre DEF Start
<1>7. \A p \in Pages : p \in 0..PageCount /\ p # 0
  BY PagesAre
<1>8. at[PageCount] \in S
  BY <1>5, <1>6, <1>7, WalkStays
<1> QED
  BY <1>1, <1>8

LEMMA EarlyWalk ==
  ASSUME NEW m, NEW S, Start(m) \in S, \A b \in S, p \in Pages : EarlyStep(b, p) \in S
  PROVE  \E c \in S : EarlyRop(m) = c.m
<1> DEFINE g == [v \in S \X Pages |-> EarlyStep(v[1], v[2])]
           Eq(f) == f = [p \in 0..PageCount |-> IF p = 0 THEN [m |-> m, on |-> {}]
                                                ELSE EarlyStep(f[p - 1], p)]
           at == CHOOSE f : Eq(f)
<1>1. EarlyRop(m) = at[PageCount].m
  BY DEF EarlyRop, Walk
<1>2. \A b \in S, p \in Pages : g[<<b, p>>] = EarlyStep(b, p)
  OBVIOUS
<1> HIDE DEF g
<1>3. PICK h : Walks(PageCount, h, S, Start(m), g)
  BY <1>2, PagesAre, WalkExists
<1>4. Eq(h)
  <2>1. \A p \in Pages : h[p - 1] \in S
    BY <1>3, PagesAre DEF Walks
  <2>2. ASSUME NEW p \in Pages PROVE h[p] = EarlyStep(h[p - 1], p)
    <3>1. h[p] = g[<<h[p - 1], p>>]
      BY <1>3, PagesAre DEF Walks
    <3> QED  BY <3>1, <1>2, <2>1
  <2> QED
    BY <2>2, <1>3, PagesAre DEF Walks, Start
<1>5. Eq(at)
  BY <1>4
<1> HIDE DEF at
<1>6. at[0] \in S
  BY <1>5, PagesAre DEF Start
<1>7. \A p \in Pages : p \in 0..PageCount /\ p # 0
  BY PagesAre
<1>8. at[PageCount] \in S
  BY <1>5, <1>6, <1>7, WalkStays
<1> QED
  BY <1>1, <1>8

LEMMA ForwardWalk ==
  ASSUME NEW m, NEW S, Start(m) \in S, \A b \in S, p \in Pages : ForwardStep(b, p) \in S
  PROVE  \E c \in S : Walk(ForwardStep, m) = c.m
<1> DEFINE g == [v \in S \X Pages |-> ForwardStep(v[1], v[2])]
           Eq(f) == f = [p \in 0..PageCount |-> IF p = 0 THEN [m |-> m, on |-> {}]
                                                ELSE ForwardStep(f[p - 1], p)]
           at == CHOOSE f : Eq(f)
<1>1. Walk(ForwardStep, m) = at[PageCount].m
  BY DEF Walk
<1>2. \A b \in S, p \in Pages : g[<<b, p>>] = ForwardStep(b, p)
  OBVIOUS
<1> HIDE DEF g
<1>3. PICK h : Walks(PageCount, h, S, Start(m), g)
  BY <1>2, PagesAre, WalkExists
<1>4. Eq(h)
  <2>1. \A p \in Pages : h[p - 1] \in S
    BY <1>3, PagesAre DEF Walks
  <2>2. ASSUME NEW p \in Pages PROVE h[p] = ForwardStep(h[p - 1], p)
    <3>1. h[p] = g[<<h[p - 1], p>>]
      BY <1>3, PagesAre DEF Walks
    <3> QED  BY <3>1, <1>2, <2>1
  <2> QED
    BY <2>2, <1>3, PagesAre DEF Walks, Start
<1>5. Eq(at)
  BY <1>4
<1> HIDE DEF at
<1>6. at[0] \in S
  BY <1>5, PagesAre DEF Start
<1>7. \A p \in Pages : p \in 0..PageCount /\ p # 0
  BY PagesAre
<1>8. at[PageCount] \in S
  BY <1>5, <1>6, <1>7, WalkStays
<1> QED
  BY <1>1, <1>8

LEMMA BackwardWalk ==
  ASSUME NEW m, NEW S, Start(m) \in S, \A b \in S, p \in Pages : BackwardStep(b, PageCount + 1 - p) \in S
  PROVE  \E c \in S : Walk(LAMBDA b, i : BackwardStep(b, PageCount + 1 - i), m) = c.m
<1> DEFINE g == [v \in S \X Pages |-> BackwardStep(v[1], PageCount + 1 - v[2])]
           Eq(f) == f = [p \in 0..PageCount |-> IF p = 0 THEN [m |-> m, on |-> {}]
                                                ELSE BackwardStep(f[p - 1], PageCount + 1 - p)]
           at == CHOOSE f : Eq(f)
<1>1. Walk(LAMBDA b, i : BackwardStep(b, PageCount + 1 - i), m) = at[PageCount].m
  BY DEF Walk
<1>2. \A b \in S, p \in Pages : g[<<b, p>>] = BackwardStep(b, PageCount + 1 - p)
  OBVIOUS
<1> HIDE DEF g
<1>3. PICK h : Walks(PageCount, h, S, Start(m), g)
  BY <1>2, PagesAre, WalkExists
<1>4. Eq(h)
  <2>1. \A p \in Pages : h[p - 1] \in S
    BY <1>3, PagesAre DEF Walks
  <2>2. ASSUME NEW p \in Pages PROVE h[p] = BackwardStep(h[p - 1], PageCount + 1 - p)
    <3>1. h[p] = g[<<h[p - 1], p>>]
      BY <1>3, PagesAre DEF Walks
    <3> QED  BY <3>1, <1>2, <2>1
  <2> QED
    BY <2>2, <1>3, PagesAre DEF Walks, Start
<1>5. Eq(at)
  BY <1>4
<1> HIDE DEF at
<1>6. at[0] \in S
  BY <1>5, PagesAre DEF Start
<1>7. \A p \in Pages : p \in 0..PageCount /\ p # 0
  BY PagesAre
<1>8. at[PageCount] \in S
  BY <1>5, <1>6, <1>7, WalkStays
<1> QED
  BY <1>1, <1>8

LEMMA AppWalk ==
  ASSUME NEW m, NEW S, Start(m) \in S, \A b \in S, p \in Pages : AppStep(b, p) \in S
  PROVE  \E c \in S : FillApplications(m) = c.m
<1> DEFINE g == [v \in S \X Pages |-> AppStep(v[1], v[2])]
           Eq(f) == f = [p \in 0..PageCount |-> IF p = 0 THEN [m |-> m, on |-> {}]
                                                ELSE AppStep(f[p - 1], p)]
           at == CHOOSE f : Eq(f)
<1>1. FillApplications(m) = at[PageCount].m
  BY DEF FillApplications, Walk
<1>2. \A b \in S, p \in Pages : g[<<b, p>>] = AppStep(b, p)
  OBVIOUS
<1> HIDE DEF g
<1>3. PICK h : Walks(PageCount, h, S, Start(m), g)
  BY <1>2, PagesAre, WalkExists
<1>4. Eq(h)
  <2>1. \A p \in Pages : h[p - 1] \in S
    BY <1>3, PagesAre DEF Walks
  <2>2. ASSUME NEW p \in Pages PROVE h[p] = AppStep(h[p - 1], p)
    <3>1. h[p] = g[<<h[p - 1], p>>]
      BY <1>3, PagesAre DEF Walks
    <3> QED  BY <3>1, <1>2, <2>1
  <2> QED
    BY <2>2, <1>3, PagesAre DEF Walks, Start
<1>5. Eq(at)
  BY <1>4
<1> HIDE DEF at
<1>6. at[0] \in S
  BY <1>5, PagesAre DEF Start
<1>7. \A p \in Pages : p \in 0..PageCount /\ p # 0
  BY PagesAre
<1>8. at[PageCount] \in S
  BY <1>5, <1>6, <1>7, WalkStays
<1> QED
  BY <1>1, <1>8

LEMMA ReclassifyWalk ==
  ASSUME NEW m, NEW S, Start(m) \in S, \A b \in S, p \in Pages : ReclassifyStep(b, p) \in S
  PROVE  \E c \in S : Walk(ReclassifyStep, m) = c.m
<1> DEFINE g == [v \in S \X Pages |-> ReclassifyStep(v[1], v[2])]
           Eq(f) == f = [p \in 0..PageCount |-> IF p = 0 THEN [m |-> m, on |-> {}]
                                                ELSE ReclassifyStep(f[p - 1], p)]
           at == CHOOSE f : Eq(f)
<1>1. Walk(ReclassifyStep, m) = at[PageCount].m
  BY DEF Walk
<1>2. \A b \in S, p \in Pages : g[<<b, p>>] = ReclassifyStep(b, p)
  OBVIOUS
<1> HIDE DEF g
<1>3. PICK h : Walks(PageCount, h, S, Start(m), g)
  BY <1>2, PagesAre, WalkExists
<1>4. Eq(h)
  <2>1. \A p \in Pages : h[p - 1] \in S
    BY <1>3, PagesAre DEF Walks
  <2>2. ASSUME NEW p \in Pages PROVE h[p] = ReclassifyStep(h[p - 1], p)
    <3>1. h[p] = g[<<h[p - 1], p>>]
      BY <1>3, PagesAre DEF Walks
    <3> QED  BY <3>1, <1>2, <2>1
  <2> QED
    BY <2>2, <1>3, PagesAre DEF Walks, Start
<1>5. Eq(at)
  BY <1>4
<1> HIDE DEF at
<1>6. at[0] \in S
  BY <1>5, PagesAre DEF Start
<1>7. \A p \in Pages : p \in 0..PageCount /\ p # 0
  BY PagesAre
<1>8. at[PageCount] \in S
  BY <1>5, <1>6, <1>7, WalkStays
<1> QED
  BY <1>1, <1>8

LEMMA PartyListWalk ==
  ASSUME NEW m, NEW S, Start(m) \in S, \A b \in S, p \in Pages : PartyListStep(b, p) \in S
  PROVE  \E c \in S : KeepPartyLists(m) = c.m
<1> DEFINE g == [v \in S \X Pages |-> PartyListStep(v[1], v[2])]
           Eq(f) == f = [p \in 0..PageCount |-> IF p = 0 THEN [m |-> m, on |-> {}]
                                                ELSE PartyListStep(f[p - 1], p)]
           at == CHOOSE f : Eq(f)
<1>1. KeepPartyLists(m) = at[PageCount].m
  BY DEF KeepPartyLists, Walk
<1>2. \A b \in S, p \in Pages : g[<<b, p>>] = PartyListStep(b, p)
  OBVIOUS
<1> HIDE DEF g
<1>3. PICK h : Walks(PageCount, h, S, Start(m), g)
  BY <1>2, PagesAre, WalkExists
<1>4. Eq(h)
  <2>1. \A p \in Pages : h[p - 1] \in S
    BY <1>3, PagesAre DEF Walks
  <2>2. ASSUME NEW p \in Pages PROVE h[p] = PartyListStep(h[p - 1], p)
    <3>1. h[p] = g[<<h[p - 1], p>>]
      BY <1>3, PagesAre DEF Walks
    <3> QED  BY <3>1, <1>2, <2>1
  <2> QED
    BY <2>2, <1>3, PagesAre DEF Walks, Start
<1>5. Eq(at)
  BY <1>4
<1> HIDE DEF at
<1>6. at[0] \in S
  BY <1>5, PagesAre DEF Start
<1>7. \A p \in Pages : p \in 0..PageCount /\ p # 0
  BY PagesAre
<1>8. at[PageCount] \in S
  BY <1>5, <1>6, <1>7, WalkStays
<1> QED
  BY <1>1, <1>8

LEMMA UnverifiedWalk ==
  ASSUME NEW m, NEW S, Start(m) \in S, \A b \in S, p \in Pages : UnverifiedStep(b, p) \in S
  PROVE  \E c \in S : Unverified(m) = c.m
<1> DEFINE g == [v \in S \X Pages |-> UnverifiedStep(v[1], v[2])]
           Eq(f) == f = [p \in 0..PageCount |-> IF p = 0 THEN [m |-> m, on |-> {}]
                                                ELSE UnverifiedStep(f[p - 1], p)]
           at == CHOOSE f : Eq(f)
<1>1. Unverified(m) = at[PageCount].m
  BY DEF Unverified, Walk
<1>2. \A b \in S, p \in Pages : g[<<b, p>>] = UnverifiedStep(b, p)
  OBVIOUS
<1> HIDE DEF g
<1>3. PICK h : Walks(PageCount, h, S, Start(m), g)
  BY <1>2, PagesAre, WalkExists
<1>4. Eq(h)
  <2>1. \A p \in Pages : h[p - 1] \in S
    BY <1>3, PagesAre DEF Walks
  <2>2. ASSUME NEW p \in Pages PROVE h[p] = UnverifiedStep(h[p - 1], p)
    <3>1. h[p] = g[<<h[p - 1], p>>]
      BY <1>3, PagesAre DEF Walks
    <3> QED  BY <3>1, <1>2, <2>1
  <2> QED
    BY <2>2, <1>3, PagesAre DEF Walks, Start
<1>5. Eq(at)
  BY <1>4
<1> HIDE DEF at
<1>6. at[0] \in S
  BY <1>5, PagesAre DEF Start
<1>7. \A p \in Pages : p \in 0..PageCount /\ p # 0
  BY PagesAre
<1>8. at[PageCount] \in S
  BY <1>5, <1>6, <1>7, WalkStays
<1> QED
  BY <1>1, <1>8

LEMMA AppendixWalk ==
  ASSUME NEW m, NEW S, Start(m) \in S, \A b \in S, p \in Pages : AppendixStep(b, p) \in S
  PROVE  \E c \in S : Appendix(m) = c.m
<1> DEFINE g == [v \in S \X Pages |-> AppendixStep(v[1], v[2])]
           Eq(f) == f = [p \in 0..PageCount |-> IF p = 0 THEN [m |-> m, on |-> {}]
                                                ELSE AppendixStep(f[p - 1], p)]
           at == CHOOSE f : Eq(f)
<1>1. Appendix(m) = at[PageCount].m
  BY DEF Appendix, Walk
<1>2. \A b \in S, p \in Pages : g[<<b, p>>] = AppendixStep(b, p)
  OBVIOUS
<1> HIDE DEF g
<1>3. PICK h : Walks(PageCount, h, S, Start(m), g)
  BY <1>2, PagesAre, WalkExists
<1>4. Eq(h)
  <2>1. \A p \in Pages : h[p - 1] \in S
    BY <1>3, PagesAre DEF Walks
  <2>2. ASSUME NEW p \in Pages PROVE h[p] = AppendixStep(h[p - 1], p)
    <3>1. h[p] = g[<<h[p - 1], p>>]
      BY <1>3, PagesAre DEF Walks
    <3> QED  BY <3>1, <1>2, <2>1
  <2> QED
    BY <2>2, <1>3, PagesAre DEF Walks, Start
<1>5. Eq(at)
  BY <1>4
<1> HIDE DEF at
<1>6. at[0] \in S
  BY <1>5, PagesAre DEF Start
<1>7. \A p \in Pages : p \in 0..PageCount /\ p # 0
  BY PagesAre
<1>8. at[PageCount] \in S
  BY <1>5, <1>6, <1>7, WalkStays
<1> QED
  BY <1>1, <1>8

LEMMA AffidavitWalk ==
  ASSUME NEW m, NEW S, Start(m) \in S, \A b \in S, p \in Pages : AffidavitStep(b, p) \in S
  PROVE  \E c \in S : AffidavitBody(m) = c.m
<1> DEFINE g == [v \in S \X Pages |-> AffidavitStep(v[1], v[2])]
           Eq(f) == f = [p \in 0..PageCount |-> IF p = 0 THEN [m |-> m, on |-> {}]
                                                ELSE AffidavitStep(f[p - 1], p)]
           at == CHOOSE f : Eq(f)
<1>1. AffidavitBody(m) = at[PageCount].m
  BY DEF AffidavitBody, Walk
<1>2. \A b \in S, p \in Pages : g[<<b, p>>] = AffidavitStep(b, p)
  OBVIOUS
<1> HIDE DEF g
<1>3. PICK h : Walks(PageCount, h, S, Start(m), g)
  BY <1>2, PagesAre, WalkExists
<1>4. Eq(h)
  <2>1. \A p \in Pages : h[p - 1] \in S
    BY <1>3, PagesAre DEF Walks
  <2>2. ASSUME NEW p \in Pages PROVE h[p] = AffidavitStep(h[p - 1], p)
    <3>1. h[p] = g[<<h[p - 1], p>>]
      BY <1>3, PagesAre DEF Walks
    <3> QED  BY <3>1, <1>2, <2>1
  <2> QED
    BY <2>2, <1>3, PagesAre DEF Walks, Start
<1>5. Eq(at)
  BY <1>4
<1> HIDE DEF at
<1>6. at[0] \in S
  BY <1>5, PagesAre DEF Start
<1>7. \A p \in Pages : p \in 0..PageCount /\ p # 0
  BY PagesAre
<1>8. at[PageCount] \in S
  BY <1>5, <1>6, <1>7, WalkStays
<1> QED
  BY <1>1, <1>8

LEMMA ReclaimWalk ==
  ASSUME NEW m, NEW S, Start(m) \in S, \A b \in S, p \in Pages : ReclaimStep(b, p) \in S
  PROVE  \E c \in S : Reclaim(m) = c.m
<1> DEFINE g == [v \in S \X Pages |-> ReclaimStep(v[1], v[2])]
           Eq(f) == f = [p \in 0..PageCount |-> IF p = 0 THEN [m |-> m, on |-> {}]
                                                ELSE ReclaimStep(f[p - 1], p)]
           at == CHOOSE f : Eq(f)
<1>1. Reclaim(m) = at[PageCount].m
  BY DEF Reclaim, Walk
<1>2. \A b \in S, p \in Pages : g[<<b, p>>] = ReclaimStep(b, p)
  OBVIOUS
<1> HIDE DEF g
<1>3. PICK h : Walks(PageCount, h, S, Start(m), g)
  BY <1>2, PagesAre, WalkExists
<1>4. Eq(h)
  <2>1. \A p \in Pages : h[p - 1] \in S
    BY <1>3, PagesAre DEF Walks
  <2>2. ASSUME NEW p \in Pages PROVE h[p] = ReclaimStep(h[p - 1], p)
    <3>1. h[p] = g[<<h[p - 1], p>>]
      BY <1>3, PagesAre DEF Walks
    <3> QED  BY <3>1, <1>2, <2>1
  <2> QED
    BY <2>2, <1>3, PagesAre DEF Walks, Start
<1>5. Eq(at)
  BY <1>4
<1> HIDE DEF at
<1>6. at[0] \in S
  BY <1>5, PagesAre DEF Start
<1>7. \A p \in Pages : p \in 0..PageCount /\ p # 0
  BY PagesAre
<1>8. at[PageCount] \in S
  BY <1>5, <1>6, <1>7, WalkStays
<1> QED
  BY <1>1, <1>8

LEMMA MergeWalk ==
  ASSUME NEW m, NEW S, Start(m) \in S, \A b \in S, p \in Pages : MergeStep(b, p) \in S
  PROVE  \E c \in S : Merge(m) = c.m
<1> DEFINE g == [v \in S \X Pages |-> MergeStep(v[1], v[2])]
           Eq(f) == f = [p \in 0..PageCount |-> IF p = 0 THEN [m |-> m, on |-> {}]
                                                ELSE MergeStep(f[p - 1], p)]
           at == CHOOSE f : Eq(f)
<1>1. Merge(m) = at[PageCount].m
  BY DEF Merge, Walk
<1>2. \A b \in S, p \in Pages : g[<<b, p>>] = MergeStep(b, p)
  OBVIOUS
<1> HIDE DEF g
<1>3. PICK h : Walks(PageCount, h, S, Start(m), g)
  BY <1>2, PagesAre, WalkExists
<1>4. Eq(h)
  <2>1. \A p \in Pages : h[p - 1] \in S
    BY <1>3, PagesAre DEF Walks
  <2>2. ASSUME NEW p \in Pages PROVE h[p] = MergeStep(h[p - 1], p)
    <3>1. h[p] = g[<<h[p - 1], p>>]
      BY <1>3, PagesAre DEF Walks
    <3> QED  BY <3>1, <1>2, <2>1
  <2> QED
    BY <2>2, <1>3, PagesAre DEF Walks, Start
<1>5. Eq(at)
  BY <1>4
<1> HIDE DEF at
<1>6. at[0] \in S
  BY <1>5, PagesAre DEF Start
<1>7. \A p \in Pages : p \in 0..PageCount /\ p # 0
  BY PagesAre
<1>8. at[PageCount] \in S
  BY <1>5, <1>6, <1>7, WalkStays
<1> QED
  BY <1>1, <1>8

\* The two walks that are given more than a page.
Between(annexed, indexed, m) == Walk(LAMBDA b, p : BetweenStep(annexed, indexed, b, p), m)
Renested(rows, m) == Walk(LAMBDA b, p : RenestStep(rows, b, p), m)

LEMMA BetweenWalk ==
  ASSUME NEW m, NEW annexed, NEW indexed, NEW S, Start(m) \in S,
         \A b \in S, p \in Pages : BetweenStep(annexed, indexed, b, p) \in S
  PROVE  \E c \in S : Between(annexed, indexed, m) = c.m
<1> DEFINE g == [v \in S \X Pages |-> BetweenStep(annexed, indexed, v[1], v[2])]
           Eq(f) == f = [p \in 0..PageCount |-> IF p = 0 THEN [m |-> m, on |-> {}]
                                                ELSE BetweenStep(annexed, indexed, f[p - 1], p)]
           at == CHOOSE f : Eq(f)
<1>1. Between(annexed, indexed, m) = at[PageCount].m
  BY DEF Between, Walk
<1>2. \A b \in S, p \in Pages : g[<<b, p>>] = BetweenStep(annexed, indexed, b, p)
  OBVIOUS
<1> HIDE DEF g
<1>3. PICK h : Walks(PageCount, h, S, Start(m), g)
  BY <1>2, PagesAre, WalkExists
<1>4. Eq(h)
  <2>1. \A p \in Pages : h[p - 1] \in S
    BY <1>3, PagesAre DEF Walks
  <2>2. ASSUME NEW p \in Pages PROVE h[p] = BetweenStep(annexed, indexed, h[p - 1], p)
    <3>1. h[p] = g[<<h[p - 1], p>>]
      BY <1>3, PagesAre DEF Walks
    <3> QED  BY <3>1, <1>2, <2>1
  <2> QED
    BY <2>2, <1>3, PagesAre DEF Walks, Start
<1>5. Eq(at)
  BY <1>4
<1> HIDE DEF at
<1>6. at[0] \in S
  BY <1>5, PagesAre DEF Start
<1>7. \A p \in Pages : p \in 0..PageCount /\ p # 0
  BY PagesAre
<1>8. at[PageCount] \in S
  BY <1>5, <1>6, <1>7, WalkStays
<1> QED
  BY <1>1, <1>8

LEMMA ContinuationWalk ==
  ASSUME NEW m, NEW S, Start(m) \in S, \A b \in S, p \in Pages : ContinuationStep(b, p) \in S
  PROVE  \E c \in S : AnnexureNotApp(m) = c.m
<1> DEFINE g == [v \in S \X Pages |-> ContinuationStep(v[1], v[2])]
           Eq(f) == f = [p \in 0..PageCount |-> IF p = 0 THEN [m |-> m, on |-> {}]
                                                ELSE ContinuationStep(f[p - 1], p)]
           at == CHOOSE f : Eq(f)
<1>1. AnnexureNotApp(m) = at[PageCount].m
  BY DEF AnnexureNotApp, Walk
<1>2. \A b \in S, p \in Pages : g[<<b, p>>] = ContinuationStep(b, p)
  OBVIOUS
<1> HIDE DEF g
<1>3. PICK h : Walks(PageCount, h, S, Start(m), g)
  BY <1>2, PagesAre, WalkExists
<1>4. Eq(h)
  <2>1. \A p \in Pages : h[p - 1] \in S
    BY <1>3, PagesAre DEF Walks
  <2>2. ASSUME NEW p \in Pages PROVE h[p] = ContinuationStep(h[p - 1], p)
    <3>1. h[p] = g[<<h[p - 1], p>>]
      BY <1>3, PagesAre DEF Walks
    <3> QED  BY <3>1, <1>2, <2>1
  <2> QED
    BY <2>2, <1>3, PagesAre DEF Walks, Start
<1>5. Eq(at)
  BY <1>4
<1> HIDE DEF at
<1>6. at[0] \in S
  BY <1>5, PagesAre DEF Start
<1>7. \A p \in Pages : p \in 0..PageCount /\ p # 0
  BY PagesAre
<1>8. at[PageCount] \in S
  BY <1>5, <1>6, <1>7, WalkStays
<1> QED
  BY <1>1, <1>8

LEMMA BridgeWalk ==
  ASSUME NEW m, NEW S, Start(m) \in S, \A b \in S, p \in Pages : BridgeStep(b, p) \in S
  PROVE  \E c \in S : Walk(BridgeStep, m) = c.m
<1> DEFINE g == [v \in S \X Pages |-> BridgeStep(v[1], v[2])]
           Eq(f) == f = [p \in 0..PageCount |-> IF p = 0 THEN [m |-> m, on |-> {}]
                                                ELSE BridgeStep(f[p - 1], p)]
           at == CHOOSE f : Eq(f)
<1>1. Walk(BridgeStep, m) = at[PageCount].m
  BY DEF Walk
<1>2. \A b \in S, p \in Pages : g[<<b, p>>] = BridgeStep(b, p)
  OBVIOUS
<1> HIDE DEF g
<1>3. PICK h : Walks(PageCount, h, S, Start(m), g)
  BY <1>2, PagesAre, WalkExists
<1>4. Eq(h)
  <2>1. \A p \in Pages : h[p - 1] \in S
    BY <1>3, PagesAre DEF Walks
  <2>2. ASSUME NEW p \in Pages PROVE h[p] = BridgeStep(h[p - 1], p)
    <3>1. h[p] = g[<<h[p - 1], p>>]
      BY <1>3, PagesAre DEF Walks
    <3> QED  BY <3>1, <1>2, <2>1
  <2> QED
    BY <2>2, <1>3, PagesAre DEF Walks, Start
<1>5. Eq(at)
  BY <1>4
<1> HIDE DEF at
<1>6. at[0] \in S
  BY <1>5, PagesAre DEF Start
<1>7. \A p \in Pages : p \in 0..PageCount /\ p # 0
  BY PagesAre
<1>8. at[PageCount] \in S
  BY <1>5, <1>6, <1>7, WalkStays
<1> QED
  BY <1>1, <1>8

LEMMA RenestWalk ==
  ASSUME NEW m, NEW rows, NEW S, Start(m) \in S,
         \A b \in S, p \in Pages : RenestStep(rows, b, p) \in S
  PROVE  \E c \in S : Renested(rows, m) = c.m
<1> DEFINE g == [v \in S \X Pages |-> RenestStep(rows, v[1], v[2])]
           Eq(f) == f = [p \in 0..PageCount |-> IF p = 0 THEN [m |-> m, on |-> {}]
                                                ELSE RenestStep(rows, f[p - 1], p)]
           at == CHOOSE f : Eq(f)
<1>1. Renested(rows, m) = at[PageCount].m
  BY DEF Renested, Walk
<1>2. \A b \in S, p \in Pages : g[<<b, p>>] = RenestStep(rows, b, p)
  OBVIOUS
<1> HIDE DEF g
<1>3. PICK h : Walks(PageCount, h, S, Start(m), g)
  BY <1>2, PagesAre, WalkExists
<1>4. Eq(h)
  <2>1. \A p \in Pages : h[p - 1] \in S
    BY <1>3, PagesAre DEF Walks
  <2>2. ASSUME NEW p \in Pages PROVE h[p] = RenestStep(rows, h[p - 1], p)
    <3>1. h[p] = g[<<h[p - 1], p>>]
      BY <1>3, PagesAre DEF Walks
    <3> QED  BY <3>1, <1>2, <2>1
  <2> QED
    BY <2>2, <1>3, PagesAre DEF Walks, Start
<1>5. Eq(at)
  BY <1>4
<1> HIDE DEF at
<1>6. at[0] \in S
  BY <1>5, PagesAre DEF Start
<1>7. \A p \in Pages : p \in 0..PageCount /\ p # 0
  BY PagesAre
<1>8. at[PageCount] \in S
  BY <1>5, <1>6, <1>7, WalkStays
<1> QED
  BY <1>1, <1>8

LEMMA FalseChecklistTypes ==
  ASSUME BookTyped, NEW m \in Maps
  PROVE  FalseChecklist(m) \in Maps
<1>1. ASSUME NEW n \in Maps, NEW p \in Pages PROVE NotChecklist(n, p) \in SUBSET Labels
  <2>1. FirstExhibit \in SUBSET Labels
    BY Labelled DEF FirstExhibit
  <2>2. n[p] \in SUBSET Labels /\ {"Listing Proforma"} \in SUBSET Labels
    BY OnPage, Labelled
  <2>3. /\ Stamped(p) => {Stamp(p)} \in SUBSET Labels
        /\ Anchor(p) # None => {Anchor(p)} \in SUBSET Labels
        /\ Anchor(p) \in {"Listing Proforma", "Record of Proceedings"} =>
             {Anchor(p)} \in SUBSET Labels
    BY SheetLabels, Labelled
  <2> HIDE DEF FirstExhibit
  <2> QED
    BY <2>1, <2>2, <2>3 DEF NotChecklist
<1>2. ASSUME NEW b \in Bands, NEW p \in Pages PROVE ChecklistStep(b, p) \in Bands
  <2>1. {Anchor(p)} \ {None} \in SUBSET Labels
    BY SheetLabels
  <2>2. NotChecklist(b.m, p) \in SUBSET Labels
    BY <1>1, InHand
  <2> QED
    BY <2>1, <2>2, Hands DEF ChecklistStep
<1> QED
  BY <1>2, Starts0, InHand, ChecklistWalk

LEMMA OfficeReportsTypes ==
  ASSUME BookTyped, NEW m \in Maps
  PROVE  OfficeReports(m) \in Maps
<1>1. ASSUME NEW b \in Bands, NEW p \in Pages PROVE OfficeStep(b, p) \in Bands
  BY SheetLabels, Labelled, Hands, InHand, HandsAre DEF OfficeStep
<1> QED
  BY <1>1, Starts0, InHand, OfficeWalk

LEMMA MemoOfPartiesTypes ==
  ASSUME BookTyped, NEW m \in Maps
  PROVE  MemoOfParties(m) \in Maps
<1>1. ASSUME NEW b \in Bands, NEW p \in Pages PROVE PartiesStep(b, p) \in Bands
  BY SheetLabels, Labelled, Hands, InHand DEF PartiesStep
<1> QED
  BY <1>1, Starts0, InHand, PartiesWalk

LEMMA EarlyRopTypes ==
  ASSUME BookTyped, NEW m \in Maps
  PROVE  EarlyRop(m) \in Maps
<1>1. ASSUME NEW b \in Bands, NEW p \in Pages PROVE EarlyStep(b, p) \in Bands
  BY SheetLabels, Labelled, Hands, InHand DEF EarlyStep
<1> QED
  BY <1>1, Starts0, InHand, EarlyWalk

LEMMA FillApplicationsTypes ==
  ASSUME BookTyped, NEW m \in Maps
  PROVE  FillApplications(m) \in Maps
<1>1. ASSUME NEW b \in Bands, NEW p \in Pages PROVE AppStep(b, p) \in Bands
  BY SheetLabels, Labelled, Hands, InHand DEF AppStep
<1> QED
  BY <1>1, Starts0, InHand, AppWalk

LEMMA KeepPartyListsTypes ==
  ASSUME BookTyped, NEW m \in Maps
  PROVE  KeepPartyLists(m) \in Maps
<1>1. ASSUME NEW b \in Bands, NEW p \in Pages PROVE PartyListStep(b, p) \in Bands
  BY SheetLabels, Labelled, Hands, InHand, AppChosen DEF PartyListStep
<1> QED
  BY <1>1, Starts0, InHand, PartyListWalk

LEMMA UnverifiedTypes ==
  ASSUME BookTyped, NEW m \in Maps
  PROVE  Unverified(m) \in Maps
<1>1. ASSUME NEW b \in Bands, NEW p \in Pages PROVE UnverifiedStep(b, p) \in Bands
  BY SheetLabels, Labelled, Hands, InHand DEF UnverifiedStep
<1> QED
  BY <1>1, Starts0, InHand, UnverifiedWalk

LEMMA AffidavitBodyTypes ==
  ASSUME BookTyped, NEW m \in Maps
  PROVE  AffidavitBody(m) \in Maps
<1>1. ASSUME NEW b \in Bands, NEW p \in Pages PROVE AffidavitStep(b, p) \in Bands
  BY SheetLabels, Labelled, Hands, InHand DEF AffidavitStep
<1> QED
  BY <1>1, Starts0, InHand, AffidavitWalk

LEMMA ReclaimTypes ==
  ASSUME BookTyped, NEW m \in Maps
  PROVE  Reclaim(m) \in Maps
<1>1. ASSUME NEW b \in Bands, NEW p \in Pages PROVE ReclaimStep(b, p) \in Bands
  BY SheetLabels, Labelled, Hands, InHand, AppChosen DEF ReclaimStep
<1> QED
  BY <1>1, Starts0, InHand, ReclaimWalk

LEMMA MergeTypes ==
  ASSUME BookTyped, NEW m \in Maps
  PROVE  Merge(m) \in Maps
<1>1. ASSUME NEW b \in Bands, NEW p \in Pages PROVE MergeStep(b, p) \in Bands
  BY SheetLabels, Labelled, Hands, InHand, AppChosen DEF MergeStep
<1> QED
  BY <1>1, Starts0, InHand, MergeWalk

LEMMA AnnexureNotAppTypes ==
  ASSUME BookTyped, NEW m \in Maps
  PROVE  AnnexureNotApp(m) \in Maps
<1>1. ASSUME NEW b \in Bands, NEW p \in Pages PROVE ContinuationStep(b, p) \in Bands
  BY SheetLabels, Labelled, Hands, InHand DEF ContinuationStep
<1> QED
  BY <1>1, Starts0, InHand, ContinuationWalk

LEMMA AppendixTypes ==
  ASSUME BookTyped, NEW m \in Maps
  PROVE  Appendix(m) \in Maps
<1>1. ASSUME NEW b \in Bands, NEW p \in Pages PROVE AppendixStep(b, p) \in Bands
  <2>1. CASE p \in Enclosed
    <3> DEFINE s == Stamp(CHOOSE s \in EnvelopeOf(p) : TRUE)
    <3>1. EnvelopeOf(p) # {}
      BY <2>1 DEF Enclosed, EnvelopeOf
    <3>2. {s} \in SUBSET Labels
      BY <3>1, Enclosing, Labelled
    <3> HIDE DEF s
    <3>3. /\ [m |-> [b.m EXCEPT ![p] = {s}], on |-> {}] \in Bands
          /\ [m |-> b.m, on |-> {}] \in Bands
      BY <3>2, HandsAre
    <3> QED  BY <3>3, <2>1 DEF AppendixStep, s
  <2>2. CASE p \notin Enclosed
    BY <2>2, Labelled, Hands, InHand DEF AppendixStep
  <2> QED  BY <2>1, <2>2
<1> QED
  BY <1>1, Starts0, InHand, AppendixWalk

LEMMA OuterAnchorsTypes ==
  ASSUME BookTyped, NEW m \in Maps
  PROVE  OuterAnchors(m) \in Maps
<1>1. ASSUME NEW b \in Bands, NEW p \in Pages
      PROVE  AnchorStep(b, p) \in Bands /\ FrontStep(b, p) \in Bands
  <2>1. AnchorStep(b, p) \in Bands
    BY SheetLabels, Hands, InHand DEF AnchorStep, ToldApart
  <2>2. FrontStep(b, p) \in Bands
    <3>1. b.on \in SUBSET Labels /\ b.on \cap {"Filing Memo"} \in SUBSET Labels
      BY InHand
    <3>2. Anchor(p) # None => {Anchor(p)} \in SUBSET Labels
      BY SheetLabels
    <3>3. /\ [b EXCEPT !.on = b.on \cap {"Filing Memo"}] \in Bands
          /\ Put(b, p, b.on) \in Bands /\ Drop(b) \in Bands
          /\ Anchor(p) # None => Carry(b, p, {Anchor(p)}) \in Bands
      BY <3>1, <3>2, Hands
    <3>4. Anchor(p) \in FrontParts \cup {"Advocate's Checklist", "Filing Memo"} => Anchor(p) # None
      BY DEF FrontParts, None
    <3> HIDE DEF Bands
    <3> QED  BY <3>3, <3>4 DEF FrontStep
  <2> QED  BY <2>1, <2>2
<1>2. Walk(AnchorStep, m) \in Maps
  BY <1>1, Starts0, InHand, AnchorWalk
<1>3. \A n \in Maps : Walk(FrontStep, n) \in Maps
  BY <1>1, Starts0, InHand, FrontWalk
<1>4. \A n \in Maps : \A end, outer : JudgmentUpTo(n, end, outer) \in Maps
  BY Labelled DEF JudgmentUpTo, Maps
<1> QED
  BY <1>2, <1>3, <1>4 DEF OuterAnchors, OuterJudgment

LEMMA SplitPrefaceTypes ==
  ASSUME BookTyped, NEW m \in Maps
  PROVE  SplitPreface(m) \in Maps
<1>1. ASSUME NEW b \in Bands, NEW p \in Pages
      PROVE  PrefaceStep(b, p) \in Bands /\ SwornStep(b, p) \in Bands
  <2>1. Anchor(p) \in FrontParts => {Anchor(p)} \in SUBSET Labels
    BY SheetLabels DEF FrontParts, None
  <2>2. PrefaceStep(b, p) \in Bands
    BY <2>1, Hands, InHand DEF PrefaceStep
  <2>3. SwornStep(b, p) \in Bands
    BY Labelled, Hands DEF SwornStep
  <2> QED  BY <2>2, <2>3
<1>2. Walk(PrefaceStep, m) \in Maps
  BY <1>1, Starts0, InHand, PrefaceWalk
<1>3. \A n \in Maps : Walk(SwornStep, n) \in Maps
  BY <1>1, Starts0, InHand, SwornWalk
<1> QED
  BY <1>2, <1>3 DEF SplitPreface

LEMMA FillGapsTypes ==
  ASSUME BookTyped, NEW m \in Maps
  PROVE  FillGaps(m) \in Maps
<1>1. ASSUME NEW b \in Bands, NEW p \in Pages PROVE ForwardStep(b, p) \in Bands
  BY Hands, InHand DEF ForwardStep
<1>2. ASSUME NEW b \in Bands, NEW p \in Pages
      PROVE  BackwardStep(b, PageCount + 1 - p) \in Bands
  <2>1. ASSUME NEW q \in Pages PROVE BackwardStep(b, q) \in Bands
    <3>1. q = PageCount \/ q + 1 \in Pages
      BY PagesAre
    <3> QED  BY <3>1, Hands, InHand DEF BackwardStep
  <2>2. PageCount + 1 - p \in Pages
    BY PagesAre
  <2> QED  BY <2>1, <2>2
<1>3. Walk(ForwardStep, m) \in Maps
  BY <1>1, Starts0, InHand, ForwardWalk
<1>4. \A n \in Maps : Walk(LAMBDA b, i : BackwardStep(b, PageCount + 1 - i), n) \in Maps
  BY <1>2, Starts0, InHand, BackwardWalk
<1> QED
  BY <1>3, <1>4 DEF FillGaps

LEMMA FalseAffidavitTypes ==
  ASSUME BookTyped, NEW m \in Maps
  PROVE  FalseAffidavit(m) \in Maps
<1> DEFINE annexed == {p \in Pages : OwnAnnexure(m, p) # {}}
           indexed == {p \in Pages : \E r \in RowOf(m, Main) : Within(p, r)}
           S == {b \in Bands : \A q \in annexed : OwnAnnexure(b.m, q) # {}}
<1>1. Start(m) \in S
  BY Starts0 DEF Start
<1>2. ASSUME NEW b \in S, NEW p \in Pages PROVE BetweenStep(annexed, indexed, b, p) \in S
  <2> DEFINE prior == {q \in annexed : q < p}
             l == CHOOSE l \in OwnAnnexure(b.m, Max(prior)) : TRUE
  <2>1. CASE prior = {}
    BY <2>1 DEF BetweenStep
  <2>2. CASE prior # {}
    <3>1. Max(prior) \in annexed
      BY <2>2, LastPage
    <3>2. l \in OwnAnnexure(b.m, Max(prior))
      BY <3>1
    <3> HIDE DEF l
    <3>3. l \in Annexures /\ {l} \in SUBSET Labels
      BY <3>2, Labelled DEF OwnAnnexure
    <3>4. Put(b, p, {l}) \in Bands
      BY <3>3, Hands
    <3>5. \A q \in annexed : OwnAnnexure(Put(b, p, {l}).m, q) # {}
      <4>1. ASSUME NEW q \in annexed PROVE OwnAnnexure(Put(b, p, {l}).m, q) # {}
        <5>1. Put(b, p, {l}).m[q] = IF q = p THEN {l} ELSE b.m[q]
          BY DEF Put, Bands, Maps
        <5>2. OwnAnnexure(b.m, q) # {}
          OBVIOUS
        <5> QED  BY <5>1, <5>2, <3>3 DEF OwnAnnexure
      <4> QED  BY <4>1
    <3>6. Put(b, p, {l}) \in S
      BY <3>4, <3>5
    <3>7. BetweenStep(annexed, indexed, b, p) \in {b, Put(b, p, {l})}
      BY DEF BetweenStep, l
    <3> QED  BY <3>6, <3>7
  <2> QED  BY <2>1, <2>2
<1>3. FalseAffidavit(m) = Between(annexed, indexed, m)
  BY DEF FalseAffidavit, Between
<1>4. \A b \in S : b.m \in Maps
  BY InHand
<1> HIDE DEF annexed, indexed, S
<1>5. \E c \in S : Between(annexed, indexed, m) = c.m
  BY <1>1, <1>2, BetweenWalk
<1> QED
  BY <1>3, <1>4, <1>5

LEMMA Painted ==
  ASSUME NEW m \in Maps, NEW pages, NEW l \in Labels
  PROVE  Paint(m, pages, l) \in Maps
  BY DEF Paint, Maps

LEMMA IndexBridgeTypes ==
  ASSUME BookTyped, NEW m \in Maps
  PROVE  IndexBridge(m) \in Maps
<1>1. ASSUME NEW b \in Bands, NEW p \in Pages PROVE BridgeStep(b, p) \in Bands
  BY Labelled, Hands DEF BridgeStep
<1>2. \A n \in Maps : Walk(BridgeStep, n) \in Maps
  BY <1>1, Starts0, InHand, BridgeWalk
<1>3. \A pages : Paint(m, pages, "Index") \in Maps
  BY Painted, Labelled
<1> QED
  BY <1>2, <1>3 DEF IndexBridge

LEMMA RenestTypes ==
  ASSUME BookTyped, NEW m \in Maps
  PROVE  Renest(m) \in Maps
<1>1. ASSUME NEW b \in Bands, NEW p \in Pages PROVE RenestStep(Rows(m), b, p) \in Bands
  <2>1. \A d : UNION {OwnAnnexure(b.m, q) : q \in {p - d, p + d} \cap Pages} \in SUBSET Labels
    BY Labelled DEF OwnAnnexure
  <2>2. {r.label : r \in {s \in Rows(m) : s.label \in Annexures /\ Within(p, s)}} \in SUBSET Labels
    BY Labelled
  <2> QED  BY <2>1, <2>2, Hands, InHand DEF RenestStep
<1>2. \E c \in Bands : Renested(Rows(m), m) = c.m
  <2> DEFINE rows == Rows(m)
  <2>1. \A b \in Bands, p \in Pages : RenestStep(rows, b, p) \in Bands
    BY <1>1
  <2> HIDE DEF rows
  <2>2. \E c \in Bands : Renested(rows, m) = c.m
    BY <2>1, Starts0, RenestWalk
  <2> QED  BY <2>2 DEF rows
<1> QED
  BY <1>2, InHand DEF Renest, Renested

LEMMA Headed == ASSUME BookTyped, NEW p \in Pages PROVE Heading(p) \in SUBSET Labels
  BY SheetLabels DEF Heading

LEMMA Claimed ==
  ASSUME NEW m \in Maps, NEW reaching, NEW label,
         \A p \in Pages : \A s \in reaching[p] : label[s] \in Labels
  PROVE  Claim(m, reaching, label) \in Maps
<1>1. ASSUME NEW p \in Pages, reaching[p] # {}
      PROVE  {label[CHOOSE s \in reaching[p] : TRUE]} \in SUBSET Labels
  BY <1>1
<1> QED
  BY <1>1 DEF Claim, Maps

LEMMA CoverNotMainTypes ==
  ASSUME BookTyped, NEW m \in Maps
  PROVE  CoverNotMain(m) \in Maps
  BY Labelled DEF CoverNotMain, Maps

LEMMA MainBodyTypes ==
  ASSUME BookTyped, NEW m \in Maps
  PROVE  MainBody(m) \in Maps
  BY Labelled DEF MainBody, Maps

LEMMA AnnexedRopTypes ==
  ASSUME BookTyped, NEW m \in Maps
  PROVE  AnnexedRop(m) \in Maps
  BY Labelled DEF AnnexedRop, Maps

LEMMA BlankOrderGapTypes ==
  ASSUME BookTyped, NEW m \in Maps
  PROVE  BlankOrderGap(m) \in Maps
  BY Labelled DEF BlankOrderGap, Maps

LEMMA CollapseTypes ==
  ASSUME BookTyped, NEW m \in Maps
  PROVE  Collapse(m) \in Maps
  BY Labelled DEF Collapse, Maps

LEMMA LocalExhibitsTypes ==
  ASSUME BookTyped, NEW m \in Maps
  PROVE  LocalExhibits(m) \in Maps
  BY Labelled DEF LocalExhibits, Maps

LEMMA UnmentionedTypes ==
  ASSUME BookTyped, NEW m \in Maps
  PROVE  Unmentioned(m) \in Maps
  BY Labelled DEF Unmentioned, Maps

LEMMA KeepAppearanceTypes ==
  ASSUME BookTyped, NEW m \in Maps
  PROVE  KeepAppearance(m) \in Maps
  BY Labelled DEF KeepAppearance, Maps

LEMMA SamePageTypes ==
  ASSUME BookTyped, NEW m \in Maps
  PROVE  SamePage(m) \in Maps
  BY Labelled DEF SamePage, Maps

LEMMA PreferForm28Types ==
  ASSUME BookTyped, NEW m \in Maps
  PROVE  PreferForm28(m) \in Maps
  BY Headed DEF PreferForm28, Maps

LEMMA FrontNotMainTypes ==
  ASSUME BookTyped, NEW m \in Maps
  PROVE  FrontNotMain(m) \in Maps
<1> DEFINE peeled == [p \in Pages |-> IF Main \in m[p] /\ Anchor(p) \in FrontParts
                                     THEN {Anchor(p)} ELSE m[p]]
<1>1. \A p \in Pages : Anchor(p) \in FrontParts => Anchor(p) \in Labels
  BY SheetLabels DEF FrontParts, None
<1>2. peeled \in Maps
  BY <1>1 DEF Maps
<1> HIDE DEF peeled
<1>3. \A cleared : [p \in Pages |-> IF p \in cleared /\ Main \in peeled[p]
                                   THEN Heading(p) ELSE peeled[p]] \in Maps
  BY <1>2, Headed DEF Maps
<1> QED
  BY <1>3 DEF FrontNotMain, peeled

LEMMA ForceNestingTypes ==
  ASSUME BookTyped, NEW m \in Maps
  PROVE  ForceNesting(m) \in Maps
<1>1. ASSUME NEW p \in Pages, ~ \A s \in EnvelopeOf(p) : Withstands(m, p, Stamp(s))
      PROVE  {Stamp(CHOOSE s \in EnvelopeOf(p) : TRUE)} \in SUBSET Labels
  <2>1. EnvelopeOf(p) # {}
    BY <1>1
  <2> QED  BY <2>1, Enclosing, Labelled
<1> QED
  BY <1>1 DEF ForceNesting, Maps

LEMMA VolumeSectionsTypes ==
  ASSUME BookTyped, NEW m \in Maps
  PROVE  VolumeSections(m) \in Maps
<1>1. \A pages : Paint(m, pages, "Cover Page") \in Maps
  BY Painted, Labelled
<1>2. \A n \in Maps : \A pages : Paint(n, pages, "Index") \in Maps
  BY Painted, Labelled
<1> QED
  BY <1>1, <1>2 DEF VolumeSections

LEMMA MasterIndexTypes ==
  ASSUME BookTyped, NEW m \in Maps
  PROVE  MasterIndex(m) \in Maps
<1>1. \A pages : Paint(m, pages, "Index") \in Maps
  BY Painted, Labelled
<1> QED
  BY <1>1, IndexBridgeTypes DEF MasterIndex

LEMMA FrontJudgmentTypes ==
  ASSUME BookTyped, NEW m \in Maps
  PROVE  FrontJudgment(m) \in Maps
<1>1. \A pages : Paint(m, pages, Order) \in Maps
  BY Painted, Labelled
<1> QED
  BY <1>1 DEF FrontJudgment

LEMMA BackMatterTypes ==
  ASSUME BookTyped, NEW m \in Maps
  PROVE  BackMatter(m) \in Maps
<1>1. \A n \in Maps : \A pages : /\ Paint(n, pages, "Vakalatnama") \in Maps
                            /\ Paint(n, pages, "Memo of Appearance") \in Maps
                            /\ Paint(n, pages, "Memo of Parties") \in Maps
  BY Painted, Labelled
<1> QED
  BY <1>1 DEF BackMatter

LEMMA ListedAre ==
  ASSUME BookTyped, NEW m
  PROVE  /\ Listed(m) \subseteq Annexures
         /\ Rows(m) \subseteq index.rows /\ \A r \in Rows(m) : r.label \in Labels
  BY DEF BookTyped, Listed, Rows, RowSet

LEMMA PlaceExpectedTypes ==
  ASSUME BookTyped, NEW m \in Maps
  PROVE  PlaceExpected(m) \in Maps
<1>1. ASSUME NEW n \in Maps, NEW candidates \in SUBSET Pages, NEW pending \in SUBSET Labels
      PROVE  PlaceFrom(n, candidates, Matched(candidates, pending)) \in Maps
  <2> DEFINE starts == Matched(candidates, pending)
  <2>1. \A s \in starts : s \in Pages /\ Matches[s] \in Labels
    BY DEF Matched, Matches
  <2> DEFINE reach == [p \in Pages |-> {s \in starts :
        p \in Until(s, PageCount, LAMBDA q : PlaceEnds(n, candidates, starts, s, q))}]
  <2>2. PlaceFrom(n, candidates, starts) = Claim(n, reach, Matches)
    BY DEF PlaceFrom
  <2> HIDE DEF starts
  <2>3. \A p \in Pages : \A s \in reach[p] : Matches[s] \in Labels
    BY <2>1
  <2> HIDE DEF reach
  <2>4. Claim(n, reach, Matches) \in Maps
    BY <2>3, Claimed
  <2> QED
    BY <2>2, <2>4 DEF starts
<1>2. ASSUME NEW zone \in SUBSET Pages, NEW pending \in SUBSET Labels
      PROVE  PlaceIn(m, zone, pending) \in Maps
  <2> DEFINE cleared == [p \in Pages |->
        IF p \in zone /\ OwnAnnexure(m, p) = {}
        THEN IF \/ "Record of Proceedings" \in m[p] /\ ~Says(p, "form")
                \/ (Order \in m[p] /\ Anchor(p) # Order)
             THEN m[p] \ {"Record of Proceedings", Order} ELSE m[p]
        ELSE m[p]]
             candidates == {p \in zone :
        /\ cleared[p] \cap (OwnPapers \cup Annexures \cup {"Cover Page", "Index"}) = {}
        /\ IslandStart(p)}
  <2>1. cleared \in Maps
    BY DEF Maps
  <2>2. candidates \in SUBSET Pages
    OBVIOUS
  <2> HIDE DEF cleared, candidates
  <2>3. PlaceFrom(cleared, candidates, Matched(candidates, pending)) \in Maps
    BY <2>1, <2>2, <1>1
  <2> QED
    BY <2>3 DEF PlaceIn, cleared, candidates
<1>3. {l \in Listed(m) : \A p \in Pages : l \notin m[p]} \in SUBSET Labels
  BY ListedAre, Labelled
<1>4. \A last \in Nat : (last + 1..PageCount) \ Enclosed \in SUBSET Pages
  BY PagesAre
<1>5. Max({0} \cup {p \in Pages : m[p] \cap BeforeBack # {}}) \in Nat
  <2> DEFINE S == {0} \cup {p \in Pages : m[p] \cap BeforeBack # {}}
  <2>1. S \in SUBSET Nat /\ S # {} /\ PageCount \in Nat /\ \A x \in S : x <= PageCount
    BY PagesAre
  <2> HIDE DEF S
  <2>2. Max(S) \in S
    BY <2>1, GreatestOf
  <2> QED  BY <2>1, <2>2 DEF S
<1> QED
  BY <1>2, <1>3, <1>4, <1>5 DEF PlaceExpected

LEMMA RealignStampsTypes ==
  ASSUME BookTyped, NEW m \in Maps
  PROVE  RealignStamps(m) \in Maps
<1>1. ASSUME NEW starts, \A s \in starts : s \in Pages /\ Match(s) \in Labels
      PROVE  RealignFrom(m, starts) \in Maps
  <2>1. \A s \in starts : Matches[s] \in Labels
    BY <1>1 DEF Matches
  <2> QED
    BY <2>1, Claimed DEF RealignFrom
<1>2. \A s \in Starts : s \in Pages
  BY DEF Starts
<1>3. \A l \in Listed(m) : l \in Labels
  BY ListedAre, Labelled
<1> QED
  BY <1>1, <1>2, <1>3 DEF RealignStamps

LEMMA RealignBoundariesTypes ==
  ASSUME BookTyped, NEW m \in Maps
  PROVE  RealignBoundaries(m) \in Maps
<1>1. ASSUME NEW candidates \in SUBSET Pages
      PROVE  BoundariesFrom(m, candidates, Matched(candidates, Listed(m))) \in Maps
  <2> DEFINE starts == Matched(candidates, Listed(m))
  <2>1. \A s \in starts : s \in Pages /\ Matches[s] \in Labels
    BY ListedAre, Labelled DEF Matched, Matches
  <2> DEFINE reach == [p \in Pages |-> {s \in starts :
        /\ p \in Until(s, PageCount, LAMBDA q : (q > s /\ q \in candidates) \/ Begins(q))
        /\ OwnAnnexure(m, p) # {}}]
  <2>2. BoundariesFrom(m, candidates, starts) \in {m, Claim(m, reach, Matches)}
    BY DEF BoundariesFrom
  <2> HIDE DEF starts
  <2>3. \A p \in Pages : \A s \in reach[p] : Matches[s] \in Labels
    BY <2>1
  <2> HIDE DEF reach
  <2>4. Claim(m, reach, Matches) \in Maps
    BY <2>3, Claimed
  <2> QED
    BY <2>2, <2>4 DEF starts
<1> QED
  BY <1>1 DEF RealignBoundaries

LEMMA ForwardStampsTypes ==
  ASSUME BookTyped, NEW m \in Maps
  PROVE  ForwardStamps(m) \in Maps
<1>1. \A s \in Starts : s \in Pages /\ [p \in Pages |-> Stamp(p)][s] \in Labels
  BY SheetLabels DEF Starts
<1> QED
  BY <1>1, Claimed DEF ForwardStamps

LEMMA IndexPrintedTypes ==
  ASSUME BookTyped, NEW m \in Maps
  PROVE  IndexPrinted(m) \in Maps
<1>1. ASSUME NEW sure, \A r \in sure : r.label \in Labels
      PROVE  PrintedBy(m, sure) \in Maps
  <2>1. \A owner \in SUBSET Labels : owner # {} => {CHOOSE l \in owner : TRUE} \in SUBSET Labels
    OBVIOUS
  <2>2. \A p : {r.label : r \in {s \in sure : Within(p, s)}} \in SUBSET Labels
    BY <1>1
  <2> QED
    BY <2>1, <2>2 DEF PrintedBy, Maps
<1> QED
  BY <1>1, ListedAre DEF IndexPrinted

LEMMA ResolvedLabels == \A m : \A r \in ResolvedRows(m) : r.label \in Annexures
<1>1. \A row, pages, brackets : Resolved(row, pages, brackets).label = row.label
  BY DEF Resolved
<1>2. \A m : \A row \in AnnexureRows(m) : row.label \in Annexures
  BY DEF AnnexureRows
<1> QED
  BY <1>1, <1>2 DEF ResolvedRows

LEMMA IndexedAnnexuresTypes ==
  ASSUME BookTyped, NEW m \in Maps
  PROVE  IndexedAnnexures(m) \in Maps
<1>1. \A r \in ResolvedRows(m) : r.label \in Annexures
  BY ResolvedLabels
<1>2. \A p \in Pages : Owners(m)[p] \in SUBSET Labels
  BY <1>1, Labelled DEF Owners, OwnersAmong
<1>3. \A owners, settled : (\A p \in Pages : owners[p] \in SUBSET Labels)
                            => IndexedBy(m, owners, settled) \in Maps
  BY DEF IndexedBy, Maps
<1> QED
  BY <1>2, <1>3 DEF IndexedAnnexures

LEMMA IndexedOuterTypes ==
  ASSUME BookTyped, NEW m \in Maps
  PROVE  IndexedOuter(m) \in Maps
<1> DEFINE forms == [p \in Pages |->
        LET rows == {r \in Rows(m) : /\ r.label \in {"Office Report", "Listing Proforma"}
                                     /\ p \in OuterPages(r) /\ ~Conflicts(p, r.label)}
        IN  IF rows = {} THEN m[p] ELSE {(CHOOSE r \in rows : TRUE).label}]
<1>1. forms \in Maps
  BY Labelled DEF Maps
<1>2. \A n \in Maps : \A pages : Paint(n, pages, Order) \in Maps
  BY Painted, Labelled
<1>3. \A n \in Maps : \A front, main, length : OrderBehind(n, front, main, length) \in Maps
  BY <1>2 DEF OrderBehind
<1>4. \A n \in Maps : \A main, length : OrderBefore(n, main, length) \in Maps
  BY <1>3 DEF OrderBefore
<1>5. ASSUME NEW n \in Maps PROVE IndexedOrder(n) \in Maps
  <2>1. \A pages : [p \in Pages |->
                          IF /\ p \in pages /\ ~Conflicts(p, Order)
                             /\ \A q \in pages : q <= p => ~Form28(q)
                          THEN {Order} ELSE n[p]] \in Maps
    BY Labelled DEF Maps
  <2> QED  BY <2>1, <1>4 DEF IndexedOrder
<1>6. ASSUME NEW n \in Maps, NEW pages PROVE MainOver(n, pages) \in Maps
  BY Labelled DEF MainOver, Maps
<1>7. \A n \in Maps : IndexedMain(n) \in Maps
  BY <1>6 DEF IndexedMain
<1> HIDE DEF forms
<1> QED
  BY <1>1, <1>5, <1>7 DEF IndexedOuter, forms

LEMMA PacketsTypes ==
  ASSUME BookTyped, NEW m \in Maps
  PROVE  Packets(m) \in Maps
<1>1. \A n : PacketsBeside(m, n) \in Maps
  BY DEF PacketsBeside, Maps, BookTyped
<1> QED
  BY <1>1 DEF Packets

LEMMA CitedRangesTypes ==
  ASSUME BookTyped, NEW m \in Maps
  PROVE  CitedRanges(m) \in Maps
<1>1. \A p \in Pages : \A c \in book[p].cites : c.label \in Labels
  BY SheetFacts, Labelled
<1>2. \A p \in Pages : \A c \in Reaching(m, p) : c.label \in Labels
  BY <1>1 DEF Reaching, Citations
<1> HIDE DEF Reaching
<1> QED
  BY <1>2 DEF CitedRanges, Maps

LEMMA BracketedTypes ==
  ASSUME BookTyped, NEW m \in Maps
  PROVE  Bracketed(m) \in Maps
<1>1. ASSUME NEW p \in Pages, Brackets(m, p) # {}
      PROVE  {ModelLabel(CHOOSE s \in Brackets(m, p) : TRUE)} \in SUBSET Labels
  <2> DEFINE s == CHOOSE s \in Brackets(m, p) : TRUE
  <2>1. s \in Brackets(m, p)
    BY <1>1
  <2> HIDE DEF s
  <2>2. llama[s] \cap Numbered # {}
    BY <2>1 DEF Brackets, ModelBrackets, ModelStarts
  <2> QED  BY <2>2, Labelled DEF ModelLabel, s
<1> QED
  BY <1>1 DEF Bracketed, Maps

------------------------------------------------------------------------------
(***************************************************************************)
(* Numbers that were skipped, and numbers given again                      *)
(***************************************************************************)
LEMMA Quotient ==
  ASSUME NEW a \in Nat, NEW b \in Nat, NEW d \in Nat, d > 0, a < b * d
  PROVE  a \div d \in Nat /\ a \div d < b
<1> DEFINE q == a \div d
<1>1. q \in Nat /\ d * q <= a
  OBVIOUS
<1> HIDE DEF q
<1>2. ASSUME q >= b PROVE FALSE
  <2>1. d * b <= d * q
    BY <1>1, <1>2
  <2> QED  BY <1>1, <2>1
<1> QED
  BY <1>1, <1>2 DEF q

LEMMA Shared ==
  ASSUME NEW k \in Nat, NEW n \in Nat, NEW marks \in Nat, 1 <= k, k <= n, marks > 0
  PROVE  Share(k, n, marks) \in 0..marks - 1
<1> DEFINE base == n \div marks
           r == n % marks
           longer == r * (base + 1)
<1>1. base \in Nat /\ r \in Nat /\ r < marks /\ n = marks * base + r
  OBVIOUS
<1>2. Share(k, n, marks) = IF k <= longer THEN (k - 1) \div (base + 1)
                           ELSE r + ((k - 1 - longer) \div base)
  BY DEF Share
<1> HIDE DEF base, r
<1>3. longer \in Nat
  BY <1>1
<1>4. CASE k <= longer
  <2>1. k - 1 \in Nat /\ k - 1 < r * (base + 1) /\ base + 1 \in Nat /\ base + 1 > 0
    BY <1>4, <1>1, <1>3
  <2>2. (k - 1) \div (base + 1) \in Nat /\ (k - 1) \div (base + 1) < r
    BY <2>1, <1>1, Quotient
  <2> QED  BY <2>2, <1>1, <1>2, <1>4
<1>5. CASE ~ (k <= longer)
  <2>1. n - longer = (marks - r) * base /\ marks - r \in Nat
    BY <1>1
  <2> HIDE DEF longer
  <2>2. k - 1 - longer \in Nat /\ k - 1 - longer < n - longer
    BY <1>3, <1>5
  <2>3. base > 0
    BY <2>1, <2>2, <1>1
  <2>4. k - 1 - longer < (marks - r) * base
    BY <2>1, <2>2
  <2>5. (k - 1 - longer) \div base \in Nat /\ (k - 1 - longer) \div base < marks - r
    BY <2>1, <2>2, <2>3, <2>4, <1>1, Quotient
  <2> QED  BY <2>5, <1>1, <1>2, <1>5
<1> QED
  BY <1>4, <1>5

LEMMA OpenRange ==
  ASSUME NEW a \in Nat, NEW b \in Nat
  PROVE  /\ IsFiniteSet(a + 1..b - 1) /\ IsFiniteSet(a + 1..b)
         /\ Cardinality(a + 1..b - 1) = IF b > a + 1 THEN b - a - 1 ELSE 0
         /\ a < b => Cardinality(a + 1..b) = b - a
<1> DEFINE i == a + 1
           j == b - 1
<1>1. i \in Int /\ j \in Int /\ b \in Int
  OBVIOUS
<1>2. i = a + 1 /\ j = b - 1
  OBVIOUS
<1> HIDE DEF i, j
<1>3. /\ IsFiniteSet(i..j) /\ Cardinality(i..j) = IF i > j THEN 0 ELSE j - i + 1
      /\ IsFiniteSet(i..b) /\ Cardinality(i..b) = IF i > b THEN 0 ELSE b - i + 1
  BY <1>1, FS_Interval
<1> QED
  BY <1>2, <1>3

LEMMA SkippedNumbers ==
  ASSUME BookTyped, NEW a \in Pages, NEW b \in Pages, Stamped(a), Stamped(b),
         Skipped(a, b) # {}
  PROVE  LET low == Stamps[Stamp(a)].number
             high == Stamps[Stamp(b)].number
         IN  /\ low \in Nat /\ high \in Nat /\ IsFiniteSet(Skipped(a, b))
             /\ Cardinality(Skipped(a, b)) \in 1..high - low - 1
             /\ \A n \in low + 1..high - 1 : \E l \in Skipped(a, b) : Stamps[l].number = n
<1> DEFINE low == Stamps[Stamp(a)].number
           high == Stamps[Stamp(b)].number
           S == Skipped(a, b)
           f == [l \in S |-> Stamps[l].number]
<1>1. Stamp(a) \in Numbered /\ Stamp(b) \in Numbered
  BY SheetLabels
<1>2. \A l \in Numbered : Stamps[l] \in [series : STRING, number : Nat \ {0}]
  BY HeadingAssumption
<1>3. low \in Nat /\ high \in Nat
  BY <1>1, <1>2
<1>4. \A l \in S : /\ l \in Numbered /\ Stamps[l].series = Stamps[Stamp(a)].series
                   /\ Stamps[Stamp(b)].series = Stamps[Stamp(a)].series
                   /\ Stamps[l].number \in low + 1..high - 1
  BY DEF Skipped
<1>5. f \in Injection(S, low + 1..high - 1)
  <2>1. f \in [S -> low + 1..high - 1]
    BY <1>4
  <2>2. ASSUME NEW k \in S, NEW l \in S, f[k] = f[l] PROVE k = l
    <3>1. Stamps[k] = Stamps[l]
      BY <1>2, <1>4, <2>2
    <3> QED  BY <3>1, <1>4, HeadingAssumption
  <2> QED  BY <2>1, <2>2 DEF Injection, IsInjective
<1>6. /\ IsFiniteSet(low + 1..high - 1)
      /\ Cardinality(low + 1..high - 1) = IF high > low + 1 THEN high - low - 1 ELSE 0
  BY <1>3, OpenRange
<1>7. IsFiniteSet(S) /\ Cardinality(S) <= Cardinality(low + 1..high - 1)
  BY <1>5, <1>6, FS_Injection
<1>8. Cardinality(S) \in Nat /\ Cardinality(S) # 0
  BY <1>7, FS_CardinalityType, FS_EmptySet
<1>9. ASSUME NEW n \in low + 1..high - 1 PROVE \E l \in S : Stamps[l].number = n
  <2>1. n \in 1..Stamps[Stamp(b)].number
    BY <1>3
  <2>2. PICK k \in Numbered : Stamps[k] = [series |-> Stamps[Stamp(b)].series, number |-> n]
    BY <2>1, <1>1, HeadingAssumption
  <2>3. Stamps[k].number = n /\ Stamps[k].series = Stamps[Stamp(a)].series
    BY <2>2, <1>4
  <2>4. k \in S
    BY <2>3, <1>4 DEF Skipped
  <2> QED  BY <2>3, <2>4
<1> HIDE DEF S, low, high, f
<1>10. Cardinality(S) \in 1..high - low - 1
  BY <1>3, <1>6, <1>7, <1>8
<1> QED
  BY <1>3, <1>7, <1>9, <1>10 DEF S, low, high

LEMMA GivenNumbered ==
  ASSUME BookTyped, NEW m, NEW s \in Pages, NEW p \in Pages, NEW after \in SUBSET Pages,
         Stamped(s), \A t \in after : Stamped(t) /\ t > s,
         s < p => /\ after # {} => p < Min(after)
                  /\ \A q \in s..p : Claimable(m[q])
  PROVE  Given(m, s, after, p) \in Numbered
<1>1. Stamp(s) \in Numbered
  BY SheetLabels
<1> DEFINE b == Min(after)
           S == Skipped(s, b)
           W == Waiting(m, s, b)
           low == Stamps[Stamp(s)].number
           high == Stamps[Stamp(b)].number
           share == Share(p - s, Cardinality(W), Cardinality(S))
<1>2. ASSUME s < p, after # {}, S # {}
      PROVE  (CHOOSE l \in S : Stamps[l].number = low + 1 + share) \in Numbered
  <2>1. b \in after /\ b \in Pages /\ Stamped(b)
    BY <1>2, FirstPage
  <2>2. /\ low \in Nat /\ high \in Nat /\ Cardinality(S) \in 1..high - low - 1
        /\ \A n \in low + 1..high - 1 : \E l \in S : Stamps[l].number = n
    BY <2>1, <1>2, SkippedNumbers
  <2>3. s + 1..p \subseteq W
    <3>1. ASSUME NEW q \in s + 1..p PROVE q \in s + 1..b - 1 /\ \A r \in s..q : r \in s..p
      BY <2>1, <1>2, PagesAre
    <3> QED  BY <3>1, <1>2 DEF Waiting
  <2>4. IsFiniteSet(W)
    <3>1. W \subseteq s + 1..b - 1
      BY DEF Waiting
    <3>2. s \in Nat /\ b \in Nat
      BY <2>1, PagesAre
    <3>3. IsFiniteSet(s + 1..b - 1)
      BY <3>2, OpenRange
    <3> QED  BY <3>1, <3>3, FS_Subset
  <2>5. IsFiniteSet(s + 1..p) /\ Cardinality(s + 1..p) = p - s
    BY <1>2, PagesAre, OpenRange
  <2>6. Cardinality(W) \in Nat /\ p - s <= Cardinality(W)
    BY <2>3, <2>4, <2>5, FS_Subset, FS_CardinalityType
  <2>7. p - s \in Nat /\ 1 <= p - s /\ Cardinality(S) \in Nat /\ Cardinality(S) > 0
    BY <1>2, <2>2, PagesAre
  <2> HIDE DEF W, S, low, high
  <2>8. share \in 0..Cardinality(S) - 1
    BY <2>6, <2>7, Shared
  <2> HIDE DEF share
  <2>9. low + 1 + share \in low + 1..high - 1
    BY <2>2, <2>8
  <2>10. \E l \in S : Stamps[l].number = low + 1 + share
    BY <2>2, <2>9
  <2>11. S \subseteq Numbered
    BY DEF S, Skipped
  <2> QED  BY <2>10, <2>11
<1>3. Given(m, s, after, p) = Stamp(s)
      \/ /\ s < p /\ after # {} /\ S # {}
         /\ Given(m, s, after, p) = CHOOSE l \in S : Stamps[l].number = low + 1 + share
  BY DEF Given
<1> QED
  BY <1>1, <1>2, <1>3

LEMMA PrintedTypes ==
  ASSUME BookTyped, NEW m \in Maps
  PROVE  Printed(m) \in Maps
<1> DEFINE starts == PrintedStarts(m)
           before(p) == {s \in starts : s <= p}
           after(p) == {s \in starts : s > p}
           reached(p, s) == \A q \in (s..p) \cup (p..s) :
             Claimable(m[q]) /\ (after(p) = {} => m[q] # {})
           source(p) == IF before(p) # {} THEN Max(before(p)) ELSE Min(after(p))
<1>1. starts \in SUBSET Pages /\ \A s \in starts : Stamped(s)
  BY DEF PrintedStarts
<1> HIDE DEF starts
<1>2. ASSUME NEW p \in Pages, starts # {}, reached(p, source(p))
      PROVE  {Given(m, source(p), after(source(p)), p)} \in SUBSET Labels
  <2> DEFINE s == source(p)
  <2>1. s \in starts /\ (s < p => \A t \in starts : t <= p => t <= s)
    <3>1. CASE before(p) # {}
      BY <3>1, <1>1, LastPage
    <3>2. CASE before(p) = {}
      <4>0. PICK t \in starts : TRUE
        BY <1>2
      <4>1. after(p) # {}
        <5>1. ~ (t <= p)
          BY <3>2
        <5>2. t > p
          BY <5>1, <1>1, PagesAre
        <5> QED  BY <5>2
      <4>2. Min(after(p)) \in after(p)
        BY <4>1, <1>1, FirstPage
      <4> QED  BY <3>2, <4>2, <1>1, PagesAre
    <3> QED  BY <3>1, <3>2
  <2>2. s < p => \A q \in s..p : Claimable(m[q])
    BY <1>2
  <2> HIDE DEF s
  <2>3. s \in Pages /\ Stamped(s) /\ after(s) \in SUBSET Pages
        /\ \A t \in after(s) : Stamped(t) /\ t > s
    BY <1>1, <2>1
  <2>4. s < p /\ after(s) # {} => p < Min(after(s))
    <3>1. ASSUME s < p, after(s) # {} PROVE p < Min(after(s))
      <4>1. Min(after(s)) \in after(s) /\ Min(after(s)) \in Pages
        BY <3>1, <1>1, FirstPage
      <4> QED  BY <4>1, <3>1, <2>1, <2>3, PagesAre
    <3> QED  BY <3>1
  <2>5. Given(m, s, after(s), p) \in Numbered
    BY <2>2, <2>3, <2>4, GivenNumbered
  <2> QED  BY <2>5, Labelled DEF s
<1>3. \A p \in Pages : Printed(m)[p] \in SUBSET Labels
  <2> SUFFICES ASSUME NEW p \in Pages PROVE Printed(m)[p] \in SUBSET Labels
    OBVIOUS
  <2>1. Printed(m)[p] = m[p]
        \/ /\ starts # {} /\ reached(p, source(p))
           /\ Printed(m)[p] = {Given(m, source(p), after(source(p)), p)}
    BY DEF Printed, starts
  <2> HIDE DEF reached, source, after
  <2> QED  BY <2>1, <1>2, OnPage
<1>4. Printed(m) = [p \in Pages |-> Printed(m)[p]]
  BY DEF Printed
<1> QED
  BY <1>3, <1>4 DEF Maps

LEMMA AppCount == IsFiniteSet(AppSet) /\ Cardinality(AppSet) <= Len(Apps) /\ Len(Apps) \in Nat
                  /\ Len(Apps) > 0 /\ \A i \in 1..Len(Apps) : Apps[i] \in AppSet
<1>1. Apps \in Seq(STRING) /\ Len(Apps) \in Nat /\ Len(Apps) > 0 /\ DOMAIN Apps = 1..Len(Apps)
  BY HeadingAssumption
<1>2. AppSet = {Apps[i] : i \in 1..Len(Apps)}
  BY <1>1 DEF AppSet, ToSet
<1> DEFINE f == [i \in 1..Len(Apps) |-> Apps[i]]
<1>3. f \in Surjection(1..Len(Apps), AppSet)
  BY <1>2 DEF Surjection
<1>4. IsFiniteSet(1..Len(Apps)) /\ Cardinality(1..Len(Apps)) = Len(Apps)
  BY <1>1, FS_Interval
<1>5. IsFiniteSet(AppSet) /\ Cardinality(AppSet) <= Len(Apps)
  BY <1>3, <1>4, FS_Surjection
<1> QED
  BY <1>1, <1>2, <1>5

LEMMA PagesFinite == \A S \in SUBSET Pages : IsFiniteSet(S) /\ Cardinality(S) \in Nat
<1>1. IsFiniteSet(Pages)
  BY PagesAre, FS_Interval
<1> QED
  BY <1>1, FS_Subset, FS_CardinalityType

LEMMA SequencedTypes ==
  ASSUME NEW m \in Maps
  PROVE  Sequenced(m) \in Maps
<1> DEFINE owned == {p \in Pages : m[p] \cap AppSet # {}}
           opened(p) == {q \in owned : q <= p /\ (q = Min(owned) \/ Begins(q))}
           i(p) == Min({Cardinality(opened(p)), Len(Apps)})
<1>1. ASSUME NEW p \in owned PROVE Apps[i(p)] \in AppSet
  <2>1. Min(owned) \in opened(p)
    BY FirstPage
  <2>2. opened(p) \in SUBSET Pages /\ opened(p) # {}
    BY <2>1
  <2> DEFINE n == Cardinality(opened(p))
  <2>3. n \in Nat /\ n # 0
    BY <2>2, PagesFinite, FS_EmptySet
  <2> HIDE DEF n
  <2>4. {n, Len(Apps)} \in SUBSET Nat /\ {n, Len(Apps)} # {}
    BY <2>3, AppCount
  <2>5. Min({n, Len(Apps)}) \in {n, Len(Apps)} /\ Min({n, Len(Apps)}) <= Len(Apps)
    BY <2>4, LeastNumber
  <2>6. Min({n, Len(Apps)}) \in 1..Len(Apps)
    BY <2>3, <2>5, AppCount
  <2> QED  BY <2>6, AppCount DEF n
<1>2. \A p \in Pages : p \in owned => {Apps[i(p)]} \in SUBSET Labels
  BY <1>1, Labelled
<1>3. Sequenced(m) = m \/ Sequenced(m) = [p \in Pages |-> IF p \notin owned THEN m[p]
                                             ELSE (m[p] \ AppSet) \cup {Apps[i(p)]}]
  BY DEF Sequenced
<1> HIDE DEF i, owned
<1> QED
  BY <1>2, <1>3 DEF Maps

LEMMA RenumberTypes ==
  ASSUME BookTyped, NEW m \in Maps
  PROVE  Renumber(m) \in Maps
<1> DEFINE labels == AppsIn(m)
<1>1. ASSUME NEW l \in labels, NEW S \in SUBSET (labels \ {l})
      PROVE  Apps[1 + Cardinality(S)] \in AppSet
  <2>1. l \in AppSet /\ S \in SUBSET (AppSet \ {l})
    BY DEF AppsIn
  <2>2. IsFiniteSet(AppSet \ {l}) /\ Cardinality(AppSet \ {l}) = Cardinality(AppSet) - 1
    BY <2>1, AppCount, FS_RemoveElement
  <2>3. IsFiniteSet(S) /\ Cardinality(S) <= Cardinality(AppSet) - 1
    BY <2>1, <2>2, FS_Subset
  <2>4. Cardinality(S) \in Nat /\ Cardinality(AppSet) \in Nat
    BY <2>3, AppCount, FS_CardinalityType
  <2>5. 1 + Cardinality(S) \in 1..Len(Apps)
    BY <2>3, <2>4, AppCount
  <2> QED  BY <2>5, AppCount
<1> HIDE DEF labels
<1>2. \E rank \in [labels -> AppSet] :
        Renumber(m) = [p \in Pages |-> (m[p] \ AppSet) \cup {rank[l] : l \in AppsOn(m, p)}]
  <2> DEFINE rank == [l \in labels |-> Apps[1 + Cardinality({k \in labels \ {l} : Earlier(m, k, l)})]]
  <2>1. \A l \in labels : {k \in labels \ {l} : Earlier(m, k, l)} \in SUBSET (labels \ {l})
    OBVIOUS
  <2>2. rank \in [labels -> AppSet]
    BY <2>1, <1>1
  <2>3. \A p \in Pages : \A l \in AppsOn(m, p) : l \in labels
    BY DEF AppsOn, AppsIn, labels
  <2>4. Renumber(m) = [p \in Pages |-> (m[p] \ AppSet) \cup {rank[l] : l \in AppsOn(m, p)}]
    BY <2>3 DEF Renumber, labels
  <2> HIDE DEF rank
  <2> QED  BY <2>2, <2>4
<1>3. \A p \in Pages : AppsOn(m, p) \subseteq labels
  BY DEF AppsOn, AppsIn, labels
<1>4. PICK rank \in [labels -> AppSet] :
        Renumber(m) = [p \in Pages |-> (m[p] \ AppSet) \cup {rank[l] : l \in AppsOn(m, p)}]
  BY <1>2
<1>5. \A p \in Pages : {rank[l] : l \in AppsOn(m, p)} \subseteq AppSet
  BY <1>3
<1> QED
  BY <1>4, <1>5, Labelled DEF Maps

LEMMA ExplodeTypes ==
  ASSUME BookTyped, NEW m \in Maps
  PROVE  Explode(m) \in Maps
<1> DEFINE S == [m : Maps, on : SUBSET (Labels \X SUBSET Labels)]
<1>1. ASSUME NEW b \in S, NEW p \in Pages PROVE ReclassifyStep(b, p) \in S
  <2>1. b.m \in Maps /\ b.m[p] \in SUBSET Labels /\ b.on \in SUBSET (Labels \X SUBSET Labels)
    BY DEF Maps
  <2>2. \A n \in SUBSET Labels, l \in Labels : Retag(n, l) \in SUBSET Labels
    BY DEF Retag
  <2>3. \A l \in SUBSET Labels : Put(b, p, l) \in S
    BY DEF Put, Maps
  <2>4. Drop(b) \in S
    BY DEF Drop
  <2>5. \A l \in SUBSET Labels, on \in SUBSET (Labels \X SUBSET Labels) :
          [m |-> [b.m EXCEPT ![p] = l], on |-> on] \in S
    BY <2>1 DEF Maps
  <2> HIDE DEF S
  <2>6. CASE Stamped(p)
    <3>1. Stamp(p) \in Labels
      BY <2>6, SheetLabels
    <3>2. Retag(b.m[p], Stamp(p)) \in SUBSET Labels
          /\ {<<Stamp(p), b.m[p]>>} \in SUBSET (Labels \X SUBSET Labels)
      BY <3>1, <2>1, <2>2
    <3>3. [m |-> [b.m EXCEPT ![p] = Retag(b.m[p], Stamp(p))],
           on |-> {<<Stamp(p), b.m[p]>>}] \in S
      BY <3>2, <2>5
    <3> QED  BY <3>3, <2>4, <2>6 DEF ReclassifyStep
  <2>7. CASE ~Stamped(p)
    <3> DEFINE from == CHOOSE from \in b.on : TRUE
    <3>1. ASSUME b.on # {} PROVE Put(b, p, Retag(b.m[p], from[1])) \in S
      <4>1. from \in Labels \X SUBSET Labels
        BY <3>1, <2>1
      <4> HIDE DEF from
      <4>2. from[1] \in Labels
        BY <4>1
      <4> QED  BY <4>2, <2>1, <2>2, <2>3
    <3>2. ReclassifyStep(b, p) = Drop(b)
          \/ (b.on # {} /\ ReclassifyStep(b, p) = Put(b, p, Retag(b.m[p], from[1])))
      BY <2>7 DEF ReclassifyStep
    <3> QED  BY <3>1, <3>2, <2>4
  <2> QED  BY <2>6, <2>7
<1>2. Start(m) \in S
  BY DEF Start
<1>3. \A b \in S : b.m \in Maps
  OBVIOUS
<1> HIDE DEF S
<1>4. Walk(ReclassifyStep, m) \in Maps
  BY <1>1, <1>2, <1>3, ReclassifyWalk
<1>5. \A n \in Maps : Printed(n) \in Maps /\ Sequenced(n) \in Maps /\ Collapse(n) \in Maps
  BY PrintedTypes, SequencedTypes, CollapseTypes
<1> QED
  BY <1>4, <1>5 DEF Explode

------------------------------------------------------------------------------
(***************************************************************************)
(* The rows of the Index                                                   *)
(***************************************************************************)
ItemSet == [label : Labels, first : Nat, last : Nat, printed : SUBSET (Nat \X Nat),
          alone : BOOLEAN]
Tables == Seq(ItemSet)

LEMMA ItemRows ==
  ASSUME NEW table \in Tables
  PROVE  /\ Len(table) \in Nat /\ DOMAIN table = 1..Len(table)
         /\ \A i \in DOMAIN table : /\ RowOfItem(table[i]) \in RowSet
                                    /\ table[i].first \in Nat /\ table[i].last \in Nat
                                    /\ table[i].label \in Labels
<1>1. Len(table) \in Nat /\ DOMAIN table = 1..Len(table)
  BY DEF Tables
<1>2. \A i \in DOMAIN table : table[i] \in ItemSet
  BY <1>1 DEF Tables
<1> QED
  BY <1>1, <1>2 DEF RowOfItem, Row, RowSet, ItemSet

LEMMA UnswallowedRows ==
  ASSUME NEW table \in Tables
  PROVE  Unswallowed(table) \subseteq RowSet
<1> DEFINE after(i) == {j \in Ranged(table) : j > i}
           next(i) == IF after(i) = {} THEN {} ELSE {RowOfItem(table[Min(after(i))])}
           Eq(f) == f = [i \in 0..Len(table) |->
                           IF i = 0 THEN {}
                           ELSE IF i \notin Ranged(table) THEN f[i - 1]
                           ELSE SwallowStep(f[i - 1], RowOfItem(table[i]), next(i))]
           upTo == CHOOSE f : Eq(f)
           S == SUBSET RowSet
           g == [v \in S \X (1..Len(table)) |->
                   IF v[2] \notin Ranged(table) THEN v[1]
                   ELSE SwallowStep(v[1], RowOfItem(table[v[2]]), next(v[2]))]
<1>1. Unswallowed(table) = UNION {upTo[i] : i \in DOMAIN table}
  BY DEF Unswallowed
<1>2. ASSUME NEW i \in 1..Len(table) PROVE next(i) \in S
  <2>1. CASE after(i) # {}
    <3>1. after(i) \in SUBSET Nat
      BY ItemRows DEF Ranged
    <3>2. Min(after(i)) \in DOMAIN table
      BY <2>1, <3>1, LeastNumber DEF Ranged
    <3> QED  BY <3>2, ItemRows
  <2>2. CASE after(i) = {}
    BY <2>2
  <2> QED  BY <2>1, <2>2
<1>3. ASSUME NEW before \in S, NEW current \in RowSet, NEW following \in S
      PROVE  SwallowStep(before, current, following) \in S
  <2>1. ASSUME NEW x \in before \X following, Swallowed(x[1], current, x[2])
        PROVE  Row(current.label, x[1].last + 1, x[2].first - 1) \in RowSet
    <3>1. x[1] \in RowSet /\ x[2] \in RowSet
      OBVIOUS
    <3>2. x[1].last \in Nat /\ x[2].first \in Nat /\ x[2].first > x[1].last + 1
      BY <2>1, <3>1 DEF Swallowed, RowSet
    <3> QED  BY <3>2 DEF Row, RowSet
  <2> QED  BY <2>1 DEF SwallowStep
<1> HIDE DEF next, S
<1>4. ASSUME NEW before \in S, NEW i \in 1..Len(table) PROVE g[<<before, i>>] \in S
  <2>1. RowOfItem(table[i]) \in RowSet
    BY ItemRows
  <2>2. SwallowStep(before, RowOfItem(table[i]), next(i)) \in S
    BY <2>1, <1>2, <1>3
  <2> QED  BY <2>2
<1>5. {} \in S
  BY DEF S
<1>6. PICK h : Walks(Len(table), h, S, {}, g)
  <2> HIDE DEF g
  <2> QED  BY <1>4, <1>5, ItemRows, WalkExists
<1>7. Eq(h)
  <2>1. \A i \in 1..Len(table) : i - 1 \in 0..Len(table) /\ h[i - 1] \in S
    BY <1>6, ItemRows DEF Walks
  <2>2. \A i \in 1..Len(table) : h[i] = IF i \notin Ranged(table) THEN h[i - 1]
                          ELSE SwallowStep(h[i - 1], RowOfItem(table[i]), next(i))
    BY <1>6, <2>1 DEF Walks
  <2> QED  BY <2>2, <1>6, ItemRows DEF Walks
<1>8. Eq(upTo)
  BY <1>7
<1> HIDE DEF upTo
<1> DEFINE T == {i \in 0..Len(table) : upTo[i] \in S}
<1>9. 0 \in T
  BY <1>5, <1>8, ItemRows
<1>10. ASSUME NEW i \in 1..Len(table), i - 1 \in T PROVE i \in T
  <2>1. upTo[i] = IF i \notin Ranged(table) THEN upTo[i - 1]
                  ELSE SwallowStep(upTo[i - 1], RowOfItem(table[i]), next(i))
    <3>1. i \in 0..Len(table) /\ i # 0
      BY ItemRows
    <3> QED  BY <3>1, <1>8
  <2>2. upTo[i - 1] \in S /\ RowOfItem(table[i]) \in RowSet
    BY <1>10, ItemRows
  <2>3. SwallowStep(upTo[i - 1], RowOfItem(table[i]), next(i)) \in S
    BY <2>2, <1>2, <1>3
  <2> QED  BY <2>1, <2>2, <2>3
<1>11. \A i \in 0..Len(table) : i \in T
  <2> HIDE DEF T
  <2> QED  BY <1>9, <1>10, OneByOne, ItemRows
<1> QED
  BY <1>1, <1>11, ItemRows DEF S

LEMMA SequentialRows ==
  ASSUME NEW table \in Tables, NEW rows \in SUBSET RowSet
  PROVE  Sequential(table, rows) \subseteq RowSet /\ Petition(table, rows) \subseteq RowSet
<1>1. ASSUME NEW l \in Labels, NEW r \in RowSet, NEW s \in RowSet, r.last + 1 < s.first
      PROVE  Row(l, r.last + 1, s.first - 1) \in RowSet
  BY <1>1 DEF RowSet, Row
<1>2. Sequential(table, rows) \subseteq RowSet
  <2> SUFFICES ASSUME NEW x \in Sequential(table, rows) PROVE x \in RowSet
    OBVIOUS
  <2>1. PICK y \in Numbered \X rows \X rows :
          y[2].last + 1 < y[3].first /\ x = Row(y[1], y[2].last + 1, y[3].first - 1)
    BY DEF Sequential
  <2>2. y[1] \in Labels /\ y[2] \in RowSet /\ y[3] \in RowSet
    BY Labelled
  <2> QED  BY <2>1, <2>2, <1>1
<1>3. Petition(table, rows) \subseteq RowSet
  <2> SUFFICES ASSUME NEW x \in Petition(table, rows) PROVE x \in RowSet
    OBVIOUS
  <2>1. PICK y \in rows \X rows :
          y[1].last + 1 < y[2].first /\ x = Row(Main, y[1].last + 1, y[2].first - 1)
    BY DEF Petition
  <2>2. Main \in Labels /\ y[1] \in RowSet /\ y[2] \in RowSet
    BY Labelled
  <2> QED  BY <2>1, <2>2, <1>1
<1> QED
  BY <1>2, <1>3

LEMMA ChosenOne ==
  ASSUME NEW S, Cardinality(S) = 1
  PROVE  S # {}
  BY FS_EmptySet

LEMMA FinalRows ==
  ASSUME NEW table \in Tables, NEW rows \in SUBSET RowSet
  PROVE  Final(table, rows) \subseteq RowSet
<1>1. ASSUME NEW l \in Labels, NEW r \in RowSet, NEW next \in RowSet
      PROVE  FinalIn(table, l, r, next, Gaps(rows, r.last + 1, next.first)) \subseteq RowSet
  <2> DEFINE gaps == Gaps(rows, r.last + 1, next.first)
  <2>1. \A g \in gaps : g # {} /\ g \subseteq r.last + 1..next.first - 1
    BY DEF Gaps
  <2>2. r.last \in Nat /\ next.first \in Nat
    BY DEF RowSet
  <2> HIDE DEF gaps
  <2>3. UNION gaps \in SUBSET Nat /\ \A n \in UNION gaps : n <= next.first
    BY <2>1, <2>2
  <2>4. ASSUME Cardinality(gaps) = 1 PROVE Min(UNION gaps) \in Nat /\ Max(UNION gaps) \in Nat
    <3>1. UNION gaps # {}
      BY <2>1, <2>4, ChosenOne
    <3> QED  BY <3>1, <2>2, <2>3, LeastNumber, GreatestOf
  <2>5. FinalIn(table, l, r, next, gaps) = {}
        \/ /\ Cardinality(gaps) = 1
           /\ FinalIn(table, l, r, next, gaps) = {Row(l, Min(UNION gaps), Max(UNION gaps))}
    BY DEF FinalIn
  <2>6. Cardinality(gaps) = 1 => Row(l, Min(UNION gaps), Max(UNION gaps)) \in RowSet
    BY <2>4 DEF Row, RowSet
  <2> QED  BY <2>5, <2>6 DEF gaps
<1>2. \A x \in Final(table, rows) : \E l \in Numbered, r \in rows, next \in rows :
        x \in FinalIn(table, l, r, next, Gaps(rows, r.last + 1, next.first))
  <2> SUFFICES ASSUME NEW x \in Final(table, rows)
               PROVE  \E l \in Numbered, r \in rows, next \in rows :
                        x \in FinalIn(table, l, r, next, Gaps(rows, r.last + 1, next.first))
    OBVIOUS
  <2>1. PICK y \in Numbered \X rows :
          x \in FinalBefore(table, rows, y[1], y[2], Behind(rows, y[1], y[2]))
    BY DEF Final
  <2> DEFINE behind == Behind(rows, y[1], y[2])
             next == CHOOSE s \in behind : \A t \in behind : s.first <= t.first
  <2>2. behind # {} /\ x \in FinalIn(table, y[1], y[2], next, Gaps(rows, y[2].last + 1, next.first))
    BY <2>1 DEF FinalBefore
  <2>3. behind \in SUBSET rows
    BY DEF Behind
  <2> HIDE DEF behind
  <2>4. next \in rows
    <3>1. {s.first : s \in behind} \in SUBSET Nat /\ {s.first : s \in behind} # {}
      BY <2>2, <2>3 DEF RowSet
    <3>2. PICK n \in {s.first : s \in behind} : \A k \in {s.first : s \in behind} : n <= k
      BY <3>1, LeastNumber
    <3>3. \E s \in behind : \A t \in behind : s.first <= t.first
      BY <3>2
    <3> QED  BY <2>3, <3>3
  <2>5. y[1] \in Numbered /\ y[2] \in rows
    OBVIOUS
  <2> HIDE DEF next
  <2> QED  BY <2>2, <2>4, <2>5
<1> QED
  BY <1>1, <1>2, Labelled

LEMMA OpenedRows ==
  ASSUME NEW table \in Tables
  PROVE  Opened(table) \subseteq RowSet
<1>1. ASSUME NEW i \in DOMAIN table, NEW j \in DOMAIN table, NEW opens, table[j].first > 0,
             \A k \in i + 1..j - 1 : opens[k] \subseteq table[i].last + 1..table[j].first - 1
      PROVE  OpenedFrom(table, i, j, opens) \subseteq RowSet
  <2>1. /\ i \in Nat /\ j \in Nat /\ table[i].last \in Nat /\ table[j].first \in Nat
        /\ \A k \in i + 1..j - 1 : k \in DOMAIN table /\ table[k].label \in Labels
    <3>1. i \in 1..Len(table) /\ j \in 1..Len(table) /\ Len(table) \in Nat
      BY ItemRows
    <3>2. \A k \in i + 1..j - 1 : k \in 1..Len(table)
      BY <3>1
    <3> QED  BY <3>1, <3>2, ItemRows
  <2>2. ASSUME NEW k \in i + 1..j - 1, Cardinality(opens[k]) = 1
        PROVE  Min(opens[k]) \in Nat /\ Min(opens[k]) > 0
    <3>1. opens[k] \in SUBSET Nat /\ opens[k] # {}
      BY <1>1, <2>1, <2>2, ChosenOne
    <3>2. Min(opens[k]) \in opens[k]
      BY <3>1, LeastNumber
    <3> QED  BY <3>2, <1>1, <2>1
  <2>3. ASSUME NEW k \in i + 1..j - 1, \A n \in i + 1..j - 1 : Cardinality(opens[n]) = 1
        PROVE  Row(table[k].label, Min(opens[k]),
                   IF k + 1 = j THEN table[j].first - 1 ELSE Min(opens[k + 1]) - 1) \in RowSet
    <3>1. Min(opens[k]) \in Nat
      BY <2>2, <2>3
    <3>2. k + 1 # j => k + 1 \in i + 1..j - 1
      BY <2>1
    <3>3. k + 1 # j => Min(opens[k + 1]) \in Nat /\ Min(opens[k + 1]) > 0
      BY <3>2, <2>2, <2>3
    <3>4. (IF k + 1 = j THEN table[j].first - 1 ELSE Min(opens[k + 1]) - 1) \in Nat
      BY <3>3, <2>1, <1>1
    <3> QED  BY <3>1, <3>4, <2>1 DEF Row, RowSet
  <2> QED  BY <2>3 DEF OpenedFrom
<1>2. ASSUME NEW i \in DOMAIN table, NEW j \in DOMAIN table, NEW ends, table[j].first > 0
      PROVE  OpenedBetween(table, i, j, ends) \subseteq RowSet
  <2> DEFINE offset == (CHOOSE e \in ends : TRUE)[1] - table[i].last
             openings(k) == {f \in table[i].last + 1..table[j].first - 1 :
               LET p == f + offset IN Folio(p) = f /\ table[k].label \in {Stamp(p), Match(p)}}
             opens == [k \in i + 1..j - 1 |-> openings(k)]
  <2>1. \A k \in i + 1..j - 1 : opens[k] \subseteq table[i].last + 1..table[j].first - 1
    OBVIOUS
  <2>2. OpenedBetween(table, i, j, ends) \subseteq OpenedFrom(table, i, j, opens)
    BY DEF OpenedBetween
  <2> HIDE DEF opens
  <2> QED  BY <2>1, <2>2, <1>1, <1>2
<1>3. \A x \in Opened(table) : \E i \in DOMAIN table, j \in DOMAIN table : \E ends :
        table[j].first > 0 /\ x \in OpenedBetween(table, i, j, ends)
  <2> SUFFICES ASSUME NEW x \in Opened(table)
               PROVE  \E i \in DOMAIN table, j \in DOMAIN table : \E ends :
                        table[j].first > 0 /\ x \in OpenedBetween(table, i, j, ends)
    OBVIOUS
  <2> DEFINE ranged == {i \in DOMAIN table : table[i].first > 0}
             ends(i, j) == {e \in Pages \X Pages :
                              /\ Folio(e[1]) = table[i].last /\ Folio(e[2]) = table[j].first
                              /\ e[2] - e[1] = Folio(e[2]) - Folio(e[1])}
             gaps == {g \in ranged \X ranged :
                 /\ g[1] + 1 < g[2] /\ \A k \in g[1] + 1..g[2] - 1 : k \notin ranged
                 /\ table[g[1]].last + 1 < table[g[2]].first}
  <2>0. Opened(table) = UNION {OpenedBetween(table, g[1], g[2], ends(g[1], g[2])) : g \in gaps}
    BY DEF Opened
  <2>1. PICK g \in ranged \X ranged : \E e : x \in OpenedBetween(table, g[1], g[2], e)
    <3> HIDE DEF ends, ranged
    <3>1. PICK g \in gaps : x \in OpenedBetween(table, g[1], g[2], ends(g[1], g[2]))
      BY <2>0
    <3> QED  BY <3>1
  <2>2. g[1] \in ranged /\ g[2] \in ranged
    OBVIOUS
  <2> QED  BY <2>1, <2>2
<1> QED
  BY <1>2, <1>3

LEMMA AlignedRows ==
  ASSUME NEW table \in Tables
  PROVE  Aligned(table) \subseteq RowSet
<1> DEFINE whole == Unswallowed(table)
           sequential == whole \cup Sequential(table, whole)
           petition == sequential \cup Petition(table, sequential)
<1>1. Aligned(table) = petition \cup Final(table, petition) \cup Opened(table)
  BY DEF Aligned
<1>2. whole \subseteq RowSet
  BY UnswallowedRows
<1> HIDE DEF whole
<1>3. sequential \subseteq RowSet
  BY <1>2, SequentialRows
<1> HIDE DEF sequential
<1>4. petition \subseteq RowSet
  BY <1>3, SequentialRows
<1> HIDE DEF petition
<1> QED
  BY <1>1, <1>4, FinalRows, OpenedRows

------------------------------------------------------------------------------
(***************************************************************************)
(* Every pass makes a map out of a map                                     *)
(***************************************************************************)
HeadingPasses == {"FalseChecklist", "CoverNotMain", "OuterAnchors", "OfficeReports",
  "MemoOfParties", "SplitPreface", "FrontNotMain", "MainBody", "AnnexedRop", "EarlyRop",
  "ForceNesting", "FillGaps", "BlankOrderGap", "Explode", "PreferForm28", "Collapse",
  "FillApplications"}
Passes == IndexPasses \cup LatePasses \cup HeadingPasses

LEMMA PipelineIs ==
  /\ Len(Pipeline) = 81
  /\ \A i \in 1..81 : Pipeline[i] # "Duplicates" => Pipeline[i] \in Passes
<1>1. Len(Pipeline) = 81
  BY DEF Pipeline
<1>2. \A i \in 1..20 : Pipeline[i] # "Duplicates" => Pipeline[i] \in Passes
  BY DEF Pipeline, Passes, IndexPasses, LatePasses, HeadingPasses
<1>3. \A i \in 21..40 : Pipeline[i] # "Duplicates" => Pipeline[i] \in Passes
  BY DEF Pipeline, Passes, IndexPasses, LatePasses, HeadingPasses
<1>4. \A i \in 41..60 : Pipeline[i] # "Duplicates" => Pipeline[i] \in Passes
  BY DEF Pipeline, Passes, IndexPasses, LatePasses, HeadingPasses
<1>5. \A i \in 61..81 : Pipeline[i] # "Duplicates" => Pipeline[i] \in Passes
  BY DEF Pipeline, Passes, IndexPasses, LatePasses, HeadingPasses
<1> QED
  BY <1>1, <1>2, <1>3, <1>4, <1>5

LEMMA ApplyTypes ==
  ASSUME BookTyped, NEW m \in Maps, NEW pass \in Passes
  PROVE  Apply(pass, m) \in Maps
<1>1. CASE pass \in IndexPasses
  <2>1. Indexed(pass, m) \in Maps
    BY <1>1, IndexBridgeTypes, VolumeSectionsTypes, MasterIndexTypes, RenestTypes,
       PlaceExpectedTypes, UnmentionedTypes, IndexPrintedTypes, RealignStampsTypes,
       RealignBoundariesTypes, LocalExhibitsTypes, IndexedAnnexuresTypes,
       IndexedOuterTypes, ForwardStampsTypes DEF Indexed, IndexPasses
  <2> QED  BY <1>1, <2>1 DEF Apply
<1>2. CASE pass \in LatePasses /\ pass \notin IndexPasses
  <2>1. Late(pass, m) \in Maps
    BY <1>2, FrontJudgmentTypes, KeepPartyListsTypes, UnverifiedTypes, BackMatterTypes,
       KeepAppearanceTypes, SamePageTypes, AffidavitBodyTypes, FalseAffidavitTypes,
       ReclaimTypes, MergeTypes, AnnexureNotAppTypes, RenumberTypes, AppendixTypes,
       PacketsTypes, CitedRangesTypes, BracketedTypes DEF Late, LatePasses
  <2> QED  BY <1>2, <2>1 DEF Apply
<1>3. CASE pass \in HeadingPasses /\ pass \notin IndexPasses /\ pass \notin LatePasses
  <2>1. ByHeading(pass, m) \in Maps
    BY <1>3, FalseChecklistTypes, CoverNotMainTypes, OuterAnchorsTypes, OfficeReportsTypes,
       MemoOfPartiesTypes, SplitPrefaceTypes, FrontNotMainTypes, MainBodyTypes,
       AnnexedRopTypes, EarlyRopTypes, ForceNestingTypes, FillGapsTypes,
       BlankOrderGapTypes, ExplodeTypes, PreferForm28Types, CollapseTypes,
       FillApplicationsTypes DEF ByHeading, HeadingPasses
  <2> QED  BY <1>3, <2>1 DEF Apply
<1> QED
  BY <1>1, <1>2, <1>3 DEF Passes

LEMMA RunChosen ==
  ASSUME NEW m, NEW l, Runs(m, l) # {}
  PROVE  FirstOf(Runs(m, l)) \in Runs(m, l) /\ FirstOf(Runs(m, l)) \subseteq Pages
<1> DEFINE firsts == {Min(r) : r \in Runs(m, l)}
<1>1. ASSUME NEW r \in Runs(m, l) PROVE r \subseteq Pages /\ r # {} /\ Min(r) \in Nat
  <2>1. r # {} /\ \E i \in Pages, j \in Pages : r = i..j
    BY DEF Runs
  <2>2. r \subseteq Pages
    BY <2>1, PagesAre
  <2> QED  BY <2>1, <2>2, FirstPage, PagesAre
<1>2. firsts \in SUBSET Nat /\ firsts # {}
  BY <1>1
<1>3. Min(firsts) \in firsts /\ \A n \in firsts : Min(firsts) <= n
  BY <1>2, LeastNumber
<1>4. \E r \in Runs(m, l) : \A s \in Runs(m, l) : Min(r) <= Min(s)
  BY <1>3
<1>5. FirstOf(Runs(m, l)) \in Runs(m, l)
  <2> HIDE DEF firsts
  <2> QED  BY <1>4 DEF FirstOf
<1> QED
  BY <1>1, <1>5

LEMMA RepeatsTypes ==
  ASSUME NEW m \in Maps
  PROVE  \A d \in Repeats(m) : d.part \in Labels /\ d.kept \subseteq Pages
<1>1. ASSUME NEW l, Cardinality(Runs(m, l)) > 1 PROVE FirstOf(Runs(m, l)) \subseteq Pages
  <2>1. Runs(m, l) # {}
    BY <1>1, FS_EmptySet
  <2> QED  BY <2>1, RunChosen
<1>2. \A l \in (Outer \ {"Record of Proceedings", "Index"}) \cup AppSet
                 \cup {n \in Numbered : Series(n) = "P"} : l \in Labels
  BY Labelled
<1> DEFINE again == {k \in (Outer \ {"Record of Proceedings", "Index"}) \cup AppSet
                          \cup {n \in Numbered : Series(n) = "P"} : Cardinality(Runs(m, k)) > 1}
           kept(l) == FirstOf(Runs(m, l))
<1>3. Repeats(m) = {[part |-> l, kept |-> kept(l)] : l \in again}
  BY DEF Repeats
<1>4. \A l \in again : l \in Labels /\ kept(l) \subseteq Pages
  BY <1>1, <1>2
<1> HIDE DEF again, kept
<1> QED
  BY <1>3, <1>4

Typed == BookTyped /\ TypeOK

LEMMA InitTyped == Init => Typed
<1> SUFFICES ASSUME Init PROVE Typed
  OBVIOUS
<1>1. PICK b \in Books : /\ book = b.sheets /\ llama \in b.llama /\ map = llama /\ pc = 1
                         /\ duplicates = {} /\ audit = Unaudited
                         /\ index.lists = b.lists /\ index.rows = Aligned(b.table)
  BY DEF Init
<1>2. /\ b.sheets \in [Pages -> Facts] /\ b.llama \subseteq Maps /\ b.lists \subseteq Annexures
      /\ b.table \in Tables
  BY BooksAssumption DEF Tables, ItemSet
<1>3. index.rows \subseteq RowSet
  BY <1>1, <1>2, AlignedRows
<1>4. BookTyped
  BY <1>1, <1>2, <1>3 DEF BookTyped
<1>5. TypeOK
  <2>1. 1 \in 1..Len(Pipeline) + 2
    BY PipelineIs
  <2>2. map \in Maps
    BY <1>1, <1>2
  <2> QED  BY <1>1, <2>1, <2>2 DEF TypeOK, Unaudited
<1> QED
  BY <1>4, <1>5 DEF Typed

LEMMA NextTyped == Typed /\ [Next]_vars => Typed'
<1> SUFFICES ASSUME Typed, [Next]_vars PROVE Typed'
  OBVIOUS
<1>0. Len(Pipeline) = 81 /\ pc \in 1..83 /\ map \in Maps
  BY PipelineIs DEF Typed, TypeOK
<1>1. CASE Repair
  <2>1. Pipeline[pc] \in Passes /\ pc + 1 \in 1..83
    BY <1>0, <1>1, PipelineIs DEF Repair
  <2>2. map' \in Maps
    BY <2>1, <1>0, <1>1, ApplyTypes DEF Repair, Typed
  <2>3. BookTyped'
    BY <1>1 DEF Repair, Typed, BookTyped
  <2> QED  BY <1>0, <1>1, <2>1, <2>2, <2>3 DEF Repair, Typed, TypeOK
<1>2. CASE NoteDuplicates
  <2>1. pc + 1 \in 1..83
    BY <1>0, <1>2 DEF NoteDuplicates
  <2>2. \A d \in duplicates' : d.part \in Labels /\ d.kept \subseteq Pages
    BY <1>0, <1>2, RepeatsTypes DEF NoteDuplicates, Typed, TypeOK
  <2>3. BookTyped'
    BY <1>2 DEF NoteDuplicates, Typed, BookTyped
  <2> QED  BY <1>0, <1>2, <2>1, <2>2, <2>3 DEF NoteDuplicates, Typed, TypeOK
<1>3. CASE AuditSplit
  <2>1. pc + 1 \in 1..83
    BY <1>0, <1>3 DEF AuditSplit
  <2>2. audit'.status \in {"pending", "clear", "needs_review"}
    BY <1>3 DEF AuditSplit, Audit
  <2>3. BookTyped'
    BY <1>3 DEF AuditSplit, Typed, BookTyped
  <2> QED  BY <1>0, <1>3, <2>1, <2>2, <2>3 DEF AuditSplit, Typed, TypeOK
<1>4. CASE UNCHANGED vars
  BY <1>4 DEF vars, Typed, TypeOK, BookTyped
<1> QED
  BY <1>1, <1>2, <1>3, <1>4 DEF Next

\* Maps stay maps from pages to known labels, whatever the eighty-one passes make
\* of them: every label that a pass picks, counts out or copies exists.
THEOREM TypeCorrect == Spec => []TypeOK
<1>1. Typed => TypeOK
  BY DEF Typed
<1> QED
  BY InitTyped, NextTyped, <1>1, PTL DEF Spec

------------------------------------------------------------------------------
(***************************************************************************)
(* What the rows of the Index own                                          *)
(***************************************************************************)
\* All folios that can be read belong to one numbering.
OneNumbering == \A p, q \in Pages :
  Folio(p) # 0 /\ Folio(q) # 0 => p - Folio(p) = q - Folio(q)
Uncited == \A p \in Pages : book[p].cites = {}
\* The Index, if it gives a row, has a page with its heading.
IndexHeaded == index.rows # {} => \E p \in Pages : Says(p, "table") /\ Anchor(p) = "Index"

LEMMA OneAnnexure ==
  ASSUME NEW S \in SUBSET Annexures, Cardinality(S) = 1
  PROVE  \E l : S = {l}
<1>1. IsFiniteSet(Annexures)
  BY HeadingAssumption, FS_AddElement DEF Annexures
<1> QED
  BY <1>1, FS_Subset, FS_Singleton

LEMMA SameRows ==
  ASSUME IndexHeaded, NEW m, NEW n
  PROVE  Rows(m) = index.rows /\ Owners(m) = Owners(n)
<1>1. \A k : Rows(k) = index.rows
  BY DEF IndexHeaded, Rows, Readable
<1>2. \A k : AnnexureRows(k) = AnnexureRows(n)
  BY <1>1 DEF AnnexureRows
<1>3. \A k : ResolvedRows(k) = ResolvedRows(n)
  BY <1>1, <1>2 DEF ResolvedRows
<1> QED
  BY <1>1, <1>3 DEF Owners

LEMMA OwnersAre ==
  ASSUME NEW m, NEW p \in Pages
  PROVE  /\ Owners(m)[p] \subseteq Annexures
         /\ \A l \in Owners(m)[p] : \E row \in AnnexureRows(m) :
              /\ row.label = l
              /\ p \in Resolved(row, RowPages(row), Bracketing(Rows(m))).range
<1> DEFINE claims == {r \in ResolvedRows(m) : p \in r.range}
<1>1. Owners(m)[p] = OwnersAmong(claims)
  BY DEF Owners
<1>2. \A l \in OwnersAmong(claims) : \E r \in claims : r.label = l
  BY DEF OwnersAmong
<1>3. \A r \in ResolvedRows(m) : \E row \in AnnexureRows(m) :
        r = Resolved(row, RowPages(row), Bracketing(Rows(m)))
  BY DEF ResolvedRows
<1>4. \A row, pages, brackets : Resolved(row, pages, brackets).label = row.label
  BY DEF Resolved
<1>5. ASSUME NEW l \in Owners(m)[p]
      PROVE  \E row \in AnnexureRows(m) :
               /\ row.label = l
               /\ p \in Resolved(row, RowPages(row), Bracketing(Rows(m))).range
  <2>1. PICK r \in claims : r.label = l
    BY <1>1, <1>2
  <2>2. PICK row \in AnnexureRows(m) : r = Resolved(row, RowPages(row), Bracketing(Rows(m)))
    BY <1>3
  <2>3. row.label = l
    BY <2>1, <2>2, <1>4
  <2> QED  BY <2>1, <2>2, <2>3
<1>6. \A row \in AnnexureRows(m) : row.label \in Annexures
  BY DEF AnnexureRows
<1> QED
  BY <1>5, <1>6

LEMMA NoneFound ==
  ASSUME NEW S, Cardinality(S) # 0
  PROVE  S # {}
  BY FS_EmptySet

\* With one numbering the pages of a row read its folios, and no others.
LEMMA RowReads ==
  ASSUME BookTyped, OneNumbering, NEW rows, NEW row \in RowSet, NEW p \in Pages,
         p \in Resolved(row, RowPages(row), Bracketing(rows)).range,
         NEW q \in Pages, Folio(q) # 0
  PROVE  p - (q - Folio(q)) \in row.first..row.last
<1> DEFINE o == q - Folio(q)
           exact == {x \in Pages : Within(x, row)}
           pages == RowPages(row)
           brackets == Bracketing(rows)
           reads(S) == \A x \in S : x \in Int => x - o \in row.first..row.last
           range == row.first + o..row.last + o
<1>1. /\ row.first \in Nat /\ row.last \in Nat /\ o \in Int /\ PageCount \in Nat
      /\ \A x \in Pages : x \in Nat /\ Folio(x) \in Nat
      /\ \A x \in Pages : Folio(x) # 0 => x - Folio(x) = o
  BY PagesAre, SheetFacts DEF RowSet, OneNumbering
<1> HIDE DEF o
<1>2. \A S \in SUBSET range : reads(S)
  BY <1>1
<1>3. ASSUME NEW x, NEW from, NEW to, Support(x, from, to) > 0
      PROVE  x = o
  <2> DEFINE S == {y \in Pages : y \in from..to /\ Folio(y) # 0 /\ y - Folio(y) = x}
  <2>1. Support(x, from, to) = Cardinality(S)
    BY DEF Support
  <2> HIDE DEF S
  <2>2. S # {}
    BY <2>1, <1>3, NoneFound
  <2> QED  BY <2>2, <1>1 DEF S
<1>4. reads(exact)
  BY <1>1 DEF Within
<1>5. reads(pages)
  <2> DEFINE from == {x \in exact : Folio(x) = row.first}
             to == {x \in exact : Folio(x) = row.last}
             known == {x \in Pages : Folio(x) # 0 /\ x - Folio(x) >= 0}
             near == {y \in {x - Folio(x) : x \in known} :
                 /\ row.first + y >= 1 /\ row.last + y <= PageCount
                 /\ Support(y, 1, PageCount) >= 3}
             best == BestOffset(exact)
  <2>1. pages = IF exact = {} THEN NearPages(row, near)
                ELSE IF from # {} /\ to # {} /\ EndsFit(row, exact, Min(from), Max(to))
                     THEN Min(from)..Max(to)
                ELSE SharedPages(row, exact, best)
    BY DEF RowPages, PagesReading
  <2>2. reads(NearPages(row, near))
    <3>1. \A y \in near : y = o
      BY <1>1
    <3> HIDE DEF near
    <3>2. NearPages(row, near) = {} \/ NearPages(row, near) = range
      <4>1. CASE near # {}
        <5>1. near = {o}
          BY <3>1, <4>1
        <5> DEFINE n == [x \in near |-> Support(x, 1, PageCount)]
                   c == MostOften(near, n)
        <5>2. c = o
          <6> HIDE DEF n
          <6> QED  BY <5>1, <1>1 DEF MostOften
        <5>3. NearPages(row, near) = row.first + c..row.last + c
          BY <4>1 DEF NearPages
        <5> QED  BY <5>2, <5>3
      <4>2. CASE near = {}
        BY <4>2 DEF NearPages
      <4> QED  BY <4>1, <4>2
    <3> QED  BY <3>2, <1>2
  <2>3. from # {} /\ to # {} => reads(Min(from)..Max(to))
    <3>1. ASSUME from # {}, to # {} PROVE Min(from) = row.first + o /\ Max(to) = row.last + o
      <4>1. from \in SUBSET Pages /\ to \in SUBSET Pages
        OBVIOUS
      <4>2. /\ \A x \in from : Folio(x) # 0 /\ x = row.first + o
            /\ \A x \in to : Folio(x) # 0 /\ x = row.last + o
        BY <1>1 DEF Within
      <4> HIDE DEF from, to
      <4> QED  BY <3>1, <4>1, <4>2, FirstPage, LastPage
    <3> QED  BY <3>1, <1>2
  <2>4. reads(SharedPages(row, exact, best))
    <3> DEFINE agree == {x \in exact : x - Folio(x) = best}
    <3> HIDE DEF best
    <3>1. SharedPages(row, exact, best) = exact
          \/ /\ Cardinality(agree) >= 2
             /\ SharedPages(row, exact, best) = (row.first + best..row.last + best) \cap Pages
      BY DEF SharedPages, Agreeing
    <3>2. ASSUME Cardinality(agree) >= 2 PROVE best = o
      <4> HIDE DEF agree
      <4>1. agree # {}
        BY <3>2, FS_EmptySet
      <4> QED  BY <4>1, <1>1 DEF agree, Within
    <3> HIDE DEF exact, agree
    <3> QED  BY <3>1, <3>2, <1>2, <1>4
  <2> HIDE DEF from, to, near, best, exact
  <2> QED  BY <2>1, <2>2, <2>3, <2>4
<1>6. \A x \in brackets : x = o
  <2>1. \A x \in brackets : \E from, to : Support(x, from, to) > 0
    BY DEF Bracketing
  <2> QED  BY <2>1, <1>3
<1>7. reads(Resolved(row, pages, brackets).range)
  <2> DEFINE verified == VerifiedAt(row, pages, brackets)
             c == CHOOSE x \in brackets : TRUE
  <2>1. Resolved(row, pages, brackets).range = RangeAt(row, pages, brackets, verified)
    BY DEF Resolved
  <2>2. RangeAt(row, pages, brackets, verified) = pages
        \/ /\ Cardinality(brackets) = 1
           /\ RangeAt(row, pages, brackets, verified) = row.first + c..row.last + c
    BY DEF RangeAt
  <2>3. Cardinality(brackets) = 1 => c = o
    <3> HIDE DEF brackets
    <3>1. Cardinality(brackets) = 1 => brackets # {}
      BY ChosenOne
    <3> QED  BY <3>1, <1>6
  <2> HIDE DEF pages, brackets, verified, c
  <2> QED  BY <2>1, <2>2, <2>3, <1>2, <1>5
<1> HIDE DEF pages, brackets
<1> QED
  BY <1>7, <1>1 DEF o, pages, brackets


------------------------------------------------------------------------------
(***************************************************************************)
(* The passes behind the last IndexedAnnexures leave the rows their pages  *)
(***************************************************************************)
Holds(m) == \A p \in Pages :
  Cardinality(Owners(m)[p]) = 1 /\ ~Says(p, "table") => m[p] = Owners(m)[p]

LEMMA IndexedHold ==
  ASSUME IndexHeaded, NEW m \in Maps
  PROVE  Holds(IndexedAnnexures(m))
<1> DEFINE n == IndexedAnnexures(m)
           settled == {r.label : r \in ResolvedRows(m)}
<1>1. Owners(n) = Owners(m)
  BY SameRows
<1>2. n = IndexedBy(m, Owners(m), settled)
  BY DEF IndexedAnnexures
<1> HIDE DEF n, settled
<1>3. ASSUME NEW p \in Pages, Cardinality(Owners(m)[p]) = 1 PROVE n[p] = Owners(m)[p]
  BY <1>2, <1>3 DEF IndexedBy
<1> QED
  BY <1>1, <1>3 DEF Holds, n

LEMMA SamePageHolds ==
  ASSUME IndexHeaded, NEW m \in Maps, Holds(m)
  PROVE  Holds(SamePage(m))
<1>1. "Vakalatnama" \notin Annexures
  <2>1. "Vakalatnama" \in Outer
    BY DEF Outer, Steal, Representation
  <2>2. "Vakalatnama" \notin Numbered
    BY <2>1, HeadingAssumption
  <2> QED  BY <2>2 DEF Annexures
<1>2. Owners(SamePage(m)) = Owners(m)
  BY SameRows
<1>3. ASSUME NEW p \in Pages, Cardinality(Owners(m)[p]) = 1, ~Says(p, "table")
      PROVE  SamePage(m)[p] = Owners(m)[p]
  <2>1. m[p] = Owners(m)[p]
    BY <1>3 DEF Holds
  <2>2. m[p] \subseteq Annexures
    BY <2>1, OwnersAre
  <2> QED  BY <2>1, <2>2, <1>1 DEF SamePage
<1> QED
  BY <1>2, <1>3 DEF Holds

LEMMA PacketsHold ==
  ASSUME IndexHeaded, NEW m \in Maps, Holds(m)
  PROVE  Holds(Packets(m))
<1>2. Owners(Packets(m)) = Owners(m)
  BY SameRows
<1>3. ASSUME NEW p \in Pages, Cardinality(Owners(m)[p]) = 1, ~Says(p, "table")
      PROVE  Packets(m)[p] = Owners(m)[p]
  <2>1. m[p] = Owners(m)[p] /\ m[p] \subseteq Annexures
    BY <1>3, OwnersAre DEF Holds
  <2>2. Packets(m)[p] = m[p] \/ \E s \in Pages :
          /\ Packets(m)[p] = llama[p] /\ llama[p] = llama[s]
          /\ Cardinality(llama[s]) = 1 /\ llama[s] \subseteq Annexures
          /\ OwnAnnexure(m, p) \subseteq llama[s]
    <3> DEFINE indexed == IndexedOuter(llama)
               inside(s, q) ==
                 /\ llama[q] = llama[s] /\ indexed[q] = llama[s]
                 /\ ~Own(q) /\ Stamp(q) \in llama[s] \cup {None}
                 /\ OwnAnnexure(m, q) \subseteq llama[s]
                 /\ Says(q, IF q = s THEN "docket" ELSE "packet")
               packet(s) == Until(s, PageCount, LAMBDA q : ~inside(s, q))
               starts == {s \in Pages : /\ Cardinality(llama[s]) = 1 /\ llama[s] \subseteq Annexures
                                        /\ Lower(s) /\ Cardinality(packet(s)) >= 3}
    <3>1. Packets(m) = [x \in Pages |-> IF \E s \in starts : x \in packet(s) THEN llama[x] ELSE m[x]]
      BY DEF Packets, PacketsBeside
    <3>2. ASSUME NEW s \in Pages, p \in packet(s)
          PROVE  llama[p] = llama[s] /\ OwnAnnexure(m, p) \subseteq llama[s]
      <4>1. p \in s..PageCount /\ \A q \in s..p : inside(s, q)
        BY <3>2 DEF Until
      <4>2. p \in s..p
        BY <4>1, <3>2, PagesAre
      <4>3. inside(s, p)
        BY <4>1, <4>2
      <4> QED  BY <4>3
    <3>3. \A s \in starts : s \in Pages /\ Cardinality(llama[s]) = 1 /\ llama[s] \subseteq Annexures
      OBVIOUS
    <3> HIDE DEF packet, starts
    <3> QED  BY <3>1, <3>2, <3>3
  <2>3. OwnAnnexure(m, p) = m[p]
    BY <2>1 DEF OwnAnnexure
  <2>4. \E l : m[p] = {l}
    BY <2>1, <1>3, OneAnnexure
  <2>5. ASSUME NEW s \in Pages, Cardinality(llama[s]) = 1, llama[s] \subseteq Annexures,
               m[p] \subseteq llama[s]
        PROVE  m[p] = llama[s]
    <3>1. \E l : llama[s] = {l}
      BY <2>5, OneAnnexure
    <3> QED  BY <2>4, <2>5, <3>1
  <2> QED  BY <2>1, <2>2, <2>3, <2>5
<1> QED
  BY <1>2, <1>3 DEF Holds

\* A citation that no current row disputes reaches no page of another row.
LEMMA CitedHold ==
  ASSUME BookTyped, IndexHeaded, OneNumbering \/ Uncited, NEW m \in Maps, Holds(m)
  PROVE  Holds(CitedRanges(m))
<1>2. Owners(CitedRanges(m)) = Owners(m)
  BY SameRows
<1>3. ASSUME NEW p \in Pages, Cardinality(Owners(m)[p]) = 1, ~Says(p, "table")
      PROVE  CitedRanges(m)[p] = Owners(m)[p]
  <2> DEFINE claims == {c.label : c \in Reaching(m, p)}
  <2>1. m[p] = Owners(m)[p]
    BY <1>3 DEF Holds
  <2>2. CitedRanges(m)[p] = IF Cardinality(claims) = 1 THEN claims ELSE m[p]
    BY DEF CitedRanges
  <2>3. ASSUME NEW c \in Reaching(m, p)
        PROVE  /\ c.label \in Listed(m) /\ Undisputed(m, Citations(m), c)
               /\ c.first \in Nat /\ c.last \in Nat /\ ~Uncited
               /\ \E o \in Offsets : p \in c.first + o..c.last + o
    <3>1. c \in Citations(m)
      BY DEF Reaching
    <3>2. \E q \in Pages : c \in book[q].cites /\ c.label \in Listed(m)
      BY <3>1 DEF Citations
    <3>3. c.first \in Nat /\ c.last \in Nat /\ ~Uncited
      BY <3>2, SheetFacts DEF Uncited
    <3>4. \E o \in Offsets : p \in c.first + o..c.last + o
      BY DEF Reaching, Spans
    <3> QED  BY <3>2, <3>3, <3>4 DEF Reaching
  <2>4. ASSUME NEW c \in Reaching(m, p) PROVE c.label \in Owners(m)[p]
    <3>1. PICK k : Owners(m)[p] = {k}
      BY <1>3, OwnersAre, OneAnnexure
    <3>2. PICK row \in AnnexureRows(m) :
            /\ row.label = k
            /\ p \in Resolved(row, RowPages(row), Bracketing(Rows(m))).range
      BY <3>1, OwnersAre
    <3>3. row \in Rows(m) /\ Current(row)
      BY DEF AnnexureRows
    <3>4. row \in RowSet /\ row.first \in Nat /\ row.last \in Nat
      BY <3>3 DEF BookTyped, Rows, RowSet
    <3>5. PICK o \in Offsets : p \in c.first + o..c.last + o
      BY <2>3
    <3>6. PICK q \in Pages : Folio(q) # 0 /\ o = q - Folio(q)
      BY <3>5 DEF Offsets
    <3>7. p - o \in row.first..row.last
      BY <2>3, <3>2, <3>4, <3>6, RowReads
    <3>8. row.label = c.label \/ row.last < c.first \/ c.last < row.first
      BY <2>3, <3>3 DEF Undisputed
    <3>9. p \in Int /\ o \in Int
      BY <3>6, PagesAre, SheetFacts
    <3> QED  BY <2>3, <3>1, <3>2, <3>4, <3>5, <3>7, <3>8, <3>9
  <2>5. ASSUME Cardinality(claims) = 1 PROVE claims = Owners(m)[p]
    <3>1. claims \subseteq Annexures /\ claims \subseteq Owners(m)[p]
      BY <2>3, <2>4, ListedAre
    <3> HIDE DEF claims
    <3>2. (\E l : claims = {l}) /\ \E k : Owners(m)[p] = {k}
      BY <3>1, <2>5, <1>3, OwnersAre, OneAnnexure
    <3> QED  BY <3>1, <3>2
  <2> HIDE DEF claims
  <2> QED  BY <2>1, <2>2, <2>5
<1> QED
  BY <1>2, <1>3 DEF Holds

LEMMA MasterIndexHolds ==
  ASSUME IndexHeaded, NEW m \in Maps, Holds(m)
  PROVE  Holds(MasterIndex(m))
<1> DEFINE like(n) == \A p \in Pages : ~Says(p, "table") => n[p] = m[p]
           S == {b \in Bands : like(b.m)}
<1>1. ASSUME NEW n \in Maps, like(n), NEW pages \in SUBSET {p \in Pages : Says(p, "table")}
      PROVE  Paint(n, pages, "Index") \in Maps /\ like(Paint(n, pages, "Index"))
  <2>1. Paint(n, pages, "Index") \in Maps
    BY Labelled, Painted
  <2> QED  BY <2>1, <1>1 DEF Paint
<1>2. ASSUME NEW n \in Maps, like(n) PROVE like(Walk(BridgeStep, n))
  <2>1. Start(n) \in S
    BY <1>2, Starts0 DEF Start
  <2>2. ASSUME NEW b \in S, NEW p \in Pages PROVE BridgeStep(b, p) \in S
    <3>1. b \in Bands /\ {"Index"} \in SUBSET Labels
      BY Labelled
    <3>2. Put(b, p, {"Index"}) \in Bands
      BY <3>1, Hands
    <3>3. Says(p, "table") => like(Put(b, p, {"Index"}).m)
      BY <3>1, InHand DEF Put, Maps, Bands
    <3> QED  BY <3>2, <3>3 DEF BridgeStep
  <2>3. \E c \in S : Walk(BridgeStep, n) = c.m
    <3> HIDE DEF S
    <3> QED  BY <2>1, <2>2, BridgeWalk
  <2> QED  BY <2>3
<1>3. ASSUME NEW n \in Maps, like(n) PROVE like(IndexBridge(n))
  <2>1. \E pages \in SUBSET {p \in Pages : Says(p, "table")} :
          IndexBridge(n) = Walk(BridgeStep, Paint(n, pages, "Index"))
    <3> DEFINE forms == {p \in Pages : Form28(p)}
               front == 1..(IF forms = {} THEN PageCount ELSE Min(forms) - 1)
               seeds == {p \in front : /\ "Index" \in n[p] /\ Says(p, "table")
                                       /\ Anchor(p) = "Index"}
               tables == {p \in front : Says(p, "table") /\ Anchor(p) \in {None, "Index"}}
               reach == {p \in tables \cup seeds :
                           \E s \in seeds : (s..p) \cup (p..s) \subseteq tables \cup seeds}
    <3>1. IndexBridge(n) = Walk(BridgeStep, Paint(n, reach, "Index"))
      BY DEF IndexBridge
    <3>2. \A p \in front : p \in Pages
      BY PagesAre, FirstPage
    <3>3. reach \in SUBSET {p \in Pages : Says(p, "table")}
      BY <3>2
    <3> HIDE DEF reach
    <3> QED  BY <3>1, <3>3
  <2> QED  BY <2>1, <1>1, <1>2, <1>3
<1>4. like(m)
  OBVIOUS
<1>5. like(MasterIndex(m))
  <2>1. \E pages \in SUBSET {p \in Pages : Says(p, "table")} :
          MasterIndex(m) = IndexBridge(Paint(m, pages, "Index"))
    BY DEF MasterIndex
  <2> QED  BY <2>1, <1>1, <1>3, <1>4
<1>6. Owners(MasterIndex(m)) = Owners(m)
  BY SameRows
<1> HIDE DEF S
<1> QED
  BY <1>5, <1>6 DEF Holds

\* The last pass changes a page only to the label that brackets it.
LEMMA BracketedAre ==
  ASSUME NEW m \in Maps, NEW p \in Pages
  PROVE  Bracketed(m)[p] = m[p]
         \/ \E s \in ModelBrackets(p) : Bracketed(m)[p] = {ModelLabel(s)}
<1> DEFINE s == CHOOSE s \in Brackets(m, p) : TRUE
<1>1. Bracketed(m)[p] = IF Brackets(m, p) = {} THEN m[p] ELSE {ModelLabel(s)}
  BY DEF Bracketed
<1>2. Brackets(m, p) # {} => s \in Brackets(m, p)
  OBVIOUS
<1> HIDE DEF s
<1>3. \A x \in Brackets(m, p) : x \in ModelBrackets(p)
  BY DEF Brackets
<1> QED
  BY <1>1, <1>2, <1>3

------------------------------------------------------------------------------
(***************************************************************************)
(* No step changes what the rows own                                       *)
(***************************************************************************)
LEMMA SheetsStay ==
  ASSUME book' = book
  PROVE  /\ \A p : Folio(p)' = Folio(p) /\ Stamp(p)' = Stamp(p) /\ Anchor(p)' = Anchor(p)
         /\ \A p : Stamped(p)' = Stamped(p)
         /\ \A p, x : Says(p, x)' = Says(p, x)
         /\ \A p, row : Within(p, row)' = Within(p, row)
         /\ \A o, from, to : Support(o, from, to)' = Support(o, from, to)
<1>1. \A p : Folio(p)' = Folio(p) /\ Stamp(p)' = Stamp(p) /\ Anchor(p)' = Anchor(p)
  BY DEF Folio, Stamp, Anchor
<1>2. \A p, row : Within(p, row)' = Within(p, row)
  BY <1>1 DEF Within
<1>3. \A o, from, to : Support(o, from, to)' = Support(o, from, to)
  BY <1>1 DEF Support
<1>4. \A p : Stamped(p)' = Stamped(p)
  BY <1>1 DEF Stamped
<1>5. \A p, x : Says(p, x)' = Says(p, x)
  BY DEF Says
<1> QED
  BY <1>1, <1>2, <1>3, <1>4, <1>5

LEMMA PagesStay ==
  ASSUME book' = book
  PROVE  \A row : RowPages(row)' = RowPages(row)
<1>0. ASSUME NEW exact, NEW o PROVE Agreeing(exact, o)' = Agreeing(exact, o)
  <2>1. {p \in exact : p - Folio(p)' = o} = {p \in exact : p - Folio(p) = o}
    BY SheetsStay
  <2> QED  BY <2>1 DEF Agreeing
<1>1. \A near : \A row : NearPages(row, near)' = NearPages(row, near)
  <2>1. ASSUME NEW near PROVE [x \in near |-> Support(x, 1, PageCount)']
                               = [x \in near |-> Support(x, 1, PageCount)]
    BY SheetsStay
  <2> QED  BY <2>1 DEF NearPages
<1>2. \A exact : BestOffset(exact)' = BestOffset(exact)
  <2> SUFFICES ASSUME NEW exact PROVE BestOffset(exact)' = BestOffset(exact)
    OBVIOUS
  <2>1. {p - Folio(p)' : p \in exact} = {p - Folio(p) : p \in exact}
    BY SheetsStay
  <2> QED  BY <2>1, <1>0 DEF BestOffset
<1>3. \A row, exact, o : SharedPages(row, exact, o)' = SharedPages(row, exact, o)
  BY <1>0 DEF SharedPages
<1>4. \A row, exact, from, to : EndsFit(row, exact, from, to)' = EndsFit(row, exact, from, to)
  BY <1>0, <1>2 DEF EndsFit
<1>5. \A row, exact : PagesReading(row, exact)' = PagesReading(row, exact)
  <2> SUFFICES ASSUME NEW row, NEW exact
               PROVE  PagesReading(row, exact)' = PagesReading(row, exact)
    OBVIOUS
  <2> DEFINE from == {p \in exact : Folio(p) = row.first}
             to == {p \in exact : Folio(p) = row.last}
             known == {p \in Pages : Folio(p) # 0 /\ p - Folio(p) >= 0}
             offsets == {p - Folio(p) : p \in known}
             near == {o \in offsets :
                 /\ row.first + o >= 1 /\ row.last + o <= PageCount
                 /\ Support(o, 1, PageCount) >= 3}
  <2>1. PagesReading(row, exact) =
          IF exact = {} THEN NearPages(row, near)
          ELSE IF from # {} /\ to # {} /\ EndsFit(row, exact, Min(from), Max(to))
               THEN Min(from)..Max(to)
          ELSE SharedPages(row, exact, BestOffset(exact))
    BY DEF PagesReading
  <2>2. PagesReading(row, exact)' =
          IF exact = {} THEN NearPages(row, near)'
          ELSE IF from' # {} /\ to' # {} /\ EndsFit(row, exact, Min(from), Max(to))'
               THEN Min(from')..Max(to')
          ELSE SharedPages(row, exact, BestOffset(exact))'
    BY DEF PagesReading
  <2>3. from' = from /\ to' = to /\ known' = known
    BY SheetsStay
  <2>4. offsets' = offsets
    <3> HIDE DEF known
    <3> QED  BY <2>3, SheetsStay
  <2>5. near' = near
    <3> HIDE DEF offsets
    <3> QED  BY <2>4, SheetsStay
  <2> HIDE DEF near, from, to
  <2> QED  BY <2>1, <2>2, <2>3, <2>5, <1>1, <1>2, <1>3, <1>4
<1>6. \A row : {p \in Pages : Within(p, row)'} = {p \in Pages : Within(p, row)}
  BY SheetsStay
<1> QED
  BY <1>5, <1>6 DEF RowPages

LEMMA ClaimsStay ==
  ASSUME book' = book, index' = index
  PROVE  \A n : /\ Rows(n)' = Rows(n) /\ AnnexureRows(n)' = AnnexureRows(n)
                /\ Owners(n)' = Owners(n)
<1>1. \A n : Rows(n)' = Rows(n)
  BY SheetsStay DEF Rows, Readable
<1>2. Proven' = Proven
  <2> DEFINE once == {p \in Pages : /\ Stamped(p) /\ Folio(p) # 0
                                    /\ \A q \in Pages \ {p} : Stamp(q) # Stamp(p)}
             next(p) == {q \in once : q > p}
             chain(p, q) == /\ Series(Stamp(p)) = Series(Stamp(q))
                            /\ Number(Stamp(q)) = Number(Stamp(p)) + 1
                            /\ p - Folio(p) = q - Folio(q)
             follows(p) == next(p) # {} /\ chain(p, Min(next(p)))
             inChain(p) == follows(p) /\ (\/ follows(Min(next(p)))
                                          \/ \E r \in once : follows(r) /\ Min(next(r)) = p)
             chained == {q \in once : inChain(q)}
             found == {[label |-> Stamp(p), last |-> Folio(Min(next(p))) - 1] : p \in chained}
  <2>1. once' = once
    BY SheetsStay
  <2>2. \A p : next(p)' = next(p)
    BY <2>1
  <2>3. \A p, q : chain(p, q)' = chain(p, q)
    BY SheetsStay DEF Series, Number
  <2> HIDE DEF once, next, chain
  <2>4. \A p : follows(p)' = follows(p)
    BY <2>2, <2>3
  <2> HIDE DEF follows
  <2>5. \A p : inChain(p)' = inChain(p)
    BY <2>1, <2>2, <2>4
  <2> HIDE DEF inChain
  <2>6. chained' = chained
    BY <2>1, <2>5
  <2> HIDE DEF chained
  <2>7. found' = found
    BY <2>2, <2>6, SheetsStay
  <2> QED
    BY <2>7 DEF Proven, found, chained, inChain, follows, chain, next, once
<1>3. \A row : Current(row)' = Current(row)
  BY <1>2 DEF Current
<1>4. \A n : AnnexureRows(n)' = AnnexureRows(n)
  BY <1>1, <1>3 DEF AnnexureRows
<1>5. ASSUME NEW rows PROVE Bracketing(rows)' = Bracketing(rows)
  <2> DEFINE ann == {r \in rows : r.label \in Annexures}
             outer == rows \ ann
             opens(r, o) == r.first + o \in Pages /\ Anchor(r.first + o) = r.label
             first == Min({r.first : r \in ann})
             last == Max({r.last : r \in ann})
             meets(o) == /\ \E r \in outer : r.last < first /\ opens(r, o)
                         /\ \E r \in outer : r.first > last /\ opens(r, o)
                         /\ Support(o, first + o, last + o) > 0
  <2>1. \A r, o : opens(r, o)' = opens(r, o)
    BY SheetsStay
  <2>2. Bracketing(rows) = {o \in 0..PageCount : ann # {} /\ meets(o)}
        /\ Bracketing(rows)' = {o \in 0..PageCount : ann # {} /\ meets(o)'}
    BY DEF Bracketing
  <2> HIDE DEF ann, outer, first, last, opens
  <2>3. \A o : meets(o)' = meets(o)
    BY <2>1, SheetsStay DEF ann, outer, first, last
  <2> HIDE DEF meets
  <2> QED  BY <2>2, <2>3
<1>6. \A row, pages, brackets : VerifiedAt(row, pages, brackets)' = VerifiedAt(row, pages, brackets)
  BY SheetsStay DEF VerifiedAt
<1>7. \A row, range, brackets, verified :
        SupportedAt(row, range, brackets, verified)' = SupportedAt(row, range, brackets, verified)
  BY SheetsStay DEF SupportedAt
<1>8. \A row, pages, brackets : Resolved(row, pages, brackets)' = Resolved(row, pages, brackets)
  BY <1>6, <1>7 DEF Resolved
<1>9. \A row : RowPages(row)' = RowPages(row)
  BY PagesStay
<1>10. ASSUME NEW n PROVE Owners(n)' = Owners(n)
  <2> DEFINE resolved == {Resolved(row, RowPages(row), Bracketing(Rows(n))) : row \in AnnexureRows(n)}
  <2>1. ASSUME NEW row
        PROVE  Resolved(row, RowPages(row), Bracketing(Rows(n)))'
               = Resolved(row, RowPages(row), Bracketing(Rows(n)))
    BY <1>1, <1>5, <1>8, <1>9
  <2>2. resolved' = resolved
    BY <1>4, <2>1
  <2>3. ResolvedRows(n) = {r \in resolved : r.supported}
        /\ ResolvedRows(n)' = {r \in resolved' : r.supported}
    BY DEF ResolvedRows
  <2> HIDE DEF resolved
  <2>4. ResolvedRows(n)' = ResolvedRows(n)
    BY <2>2, <2>3
  <2> QED
    BY <2>4 DEF Owners
<1> QED
  BY <1>1, <1>4, <1>10

------------------------------------------------------------------------------
(***************************************************************************)
(* The Index holds                                                         *)
(***************************************************************************)
LEMMA LastPasses ==
  /\ Len(Pipeline) = 81 /\ Pipeline[76] = "IndexedAnnexures"
  /\ \A i \in 77..81 : Pipeline[i] # "Duplicates"
  /\ \A m : /\ Apply(Pipeline[76], m) = IndexedAnnexures(m)
            /\ Apply(Pipeline[77], m) = SamePage(m)
            /\ Apply(Pipeline[78], m) = Packets(m)
            /\ Apply(Pipeline[79], m) = CitedRanges(m)
            /\ Apply(Pipeline[80], m) = MasterIndex(m)
            /\ Apply(Pipeline[81], m) = Bracketed(m)
<1>1. /\ Pipeline[76] = "IndexedAnnexures" /\ Pipeline[77] = "SamePage"
      /\ Pipeline[78] = "Packets" /\ Pipeline[79] = "CitedRanges"
      /\ Pipeline[80] = "MasterIndex" /\ Pipeline[81] = "Bracketed"
  BY DEF Pipeline
<1>2. \A m : /\ Apply("IndexedAnnexures", m) = IndexedAnnexures(m)
             /\ Apply("MasterIndex", m) = MasterIndex(m)
  BY DEF Apply, Indexed, IndexPasses
<1>3. \A m : /\ Apply("SamePage", m) = SamePage(m) /\ Apply("Packets", m) = Packets(m)
             /\ Apply("CitedRanges", m) = CitedRanges(m) /\ Apply("Bracketed", m) = Bracketed(m)
  BY DEF Apply, Late, IndexPasses, LatePasses
<1> QED
  BY <1>1, <1>2, <1>3, PipelineIs

OneIndex == IndexHeaded /\ (OneNumbering \/ Uncited)

\* The last pass may give a page the label of a bracket.
HoldsOrBracketed(m) == \A p \in Pages :
  Cardinality(Owners(m)[p]) = 1 /\ ~Says(p, "table")
  => m[p] = Owners(m)[p] \/ \E s \in ModelBrackets(p) : m[p] = {ModelLabel(s)}

\* What the rows own they keep, from the last IndexedAnnexures on.
RowsKeep == OneIndex =>
  /\ pc \in 77..81 => Holds(map)
  /\ pc \in 82..83 => HoldsOrBracketed(map)

LEMMA BookStays == book' = book /\ index' = index => OneIndex' = OneIndex
<1> SUFFICES ASSUME book' = book, index' = index PROVE OneIndex' = OneIndex
  OBVIOUS
<1>1. OneNumbering' = OneNumbering
  BY SheetsStay DEF OneNumbering
<1>2. IndexHeaded' = IndexHeaded
  BY SheetsStay DEF IndexHeaded
<1>3. Uncited' = Uncited
  BY DEF Uncited
<1> QED
  BY <1>1, <1>2, <1>3 DEF OneIndex

LEMMA BracketsStay ==
  ASSUME book' = book, llama' = llama
  PROVE  \A p : /\ ModelBrackets(p)' = ModelBrackets(p)
                /\ \A s : ModelLabel(s)' = ModelLabel(s)
<1> DEFINE follows(s, n) == /\ Series(ModelLabel(n)) = Series(ModelLabel(s))
                            /\ Number(ModelLabel(n)) = Number(ModelLabel(s)) + 1
                            /\ n - s >= 2
           shared(s, n, o) == {q \in s..n : Folio(q) >= LeastFolio /\ q - Folio(q) = o}
           proved(s, n) == \E o \in 0..PageCount : Cardinality(shared(s, n, o)) >= 3
           brackets(p) == {s \in ModelStarts :
             /\ \E q \in ModelStarts : q > s
             /\ follows(s, NextStart(s)) /\ p \in s..NextStart(s) - 1 /\ proved(s, NextStart(s))}
<1>1. ModelStarts' = ModelStarts
  BY DEF ModelStarts, Before
<1>2. \A s : NextStart(s)' = NextStart(s) /\ ModelLabel(s)' = ModelLabel(s)
  BY <1>1 DEF NextStart, ModelLabel
<1>3. \A s, n : follows(s, n)' = follows(s, n)
  BY <1>2 DEF Series, Number
<1>4. \A s, n, o : shared(s, n, o)' = shared(s, n, o)
  BY SheetsStay
<1>5. \A p : ModelBrackets(p) = brackets(p) /\ ModelBrackets(p)' = brackets(p)'
  BY DEF ModelBrackets
<1> HIDE DEF follows, shared
<1>6. \A s, n : proved(s, n)' = proved(s, n)
  BY <1>4
<1> HIDE DEF proved
<1>7. \A p : brackets(p)' = brackets(p)
  BY <1>1, <1>2, <1>3, <1>6
<1> HIDE DEF brackets
<1> QED
  BY <1>2, <1>5, <1>7

LEMMA HoldsStay ==
  ASSUME book' = book, index' = index, llama' = llama
  PROVE  /\ Holds(map') => Holds(map)'
         /\ HoldsOrBracketed(map') => HoldsOrBracketed(map)'
<1>1. PICK n : n = map'
  OBVIOUS
<1>2. Owners(map)' = Owners(n) /\ Owners(map') = Owners(n)
  <2>1. Owners(map)' = Owners(n)'
    BY <1>1
  <2> QED  BY <2>1, <1>1, ClaimsStay
<1> QED
  BY <1>2, SheetsStay, BracketsStay DEF Holds, HoldsOrBracketed

LEMMA LastStep ==
  ASSUME Typed, OneIndex, RowsKeep, pc \in 76..81, NEW n, n = Apply(Pipeline[pc], map)
  PROVE  (pc < 81 => Holds(n)) /\ (pc = 81 => HoldsOrBracketed(n))
<1>1. BookTyped /\ map \in Maps /\ IndexHeaded /\ (OneNumbering \/ Uncited)
  BY DEF Typed, TypeOK, OneIndex
<1>2. CASE pc = 76
  BY <1>1, <1>2, LastPasses, IndexedHold
<1>3. CASE pc = 77
  BY <1>1, <1>3, LastPasses, SamePageHolds DEF RowsKeep
<1>4. CASE pc = 78
  BY <1>1, <1>4, LastPasses, PacketsHold DEF RowsKeep
<1>5. CASE pc = 79
  BY <1>1, <1>5, LastPasses, CitedHold DEF RowsKeep
<1>6. CASE pc = 80
  BY <1>1, <1>6, LastPasses, MasterIndexHolds DEF RowsKeep
<1>7. CASE pc = 81
  <2>1. n = Bracketed(map) /\ Holds(map) /\ Owners(n) = Owners(map)
    BY <1>1, <1>7, LastPasses, SameRows DEF RowsKeep
  <2>2. ASSUME NEW p \in Pages, Cardinality(Owners(n)[p]) = 1, ~Says(p, "table")
        PROVE  n[p] = Owners(n)[p]
               \/ \E s \in ModelBrackets(p) : n[p] = {ModelLabel(s)}
    <3>1. map[p] = Owners(map)[p]
      BY <2>1, <2>2 DEF Holds
    <3> QED  BY <1>1, <2>1, <3>1, BracketedAre
  <2> QED  BY <1>7, <2>2 DEF HoldsOrBracketed
<1>8. pc \in {76, 77, 78, 79, 80, 81}
  OBVIOUS
<1> QED
  BY <1>2, <1>3, <1>4, <1>5, <1>6, <1>7, <1>8

LEMMA NextKeeps == Typed /\ RowsKeep /\ [Next]_vars => RowsKeep'
<1> SUFFICES ASSUME Typed, RowsKeep, [Next]_vars PROVE RowsKeep'
  OBVIOUS
<1>0. Len(Pipeline) = 81 /\ pc \in 1..83
  BY PipelineIs DEF Typed, TypeOK
<1>1. book' = book /\ index' = index /\ llama' = llama
  BY DEF Next, Repair, NoteDuplicates, AuditSplit, vars
<1> SUFFICES ASSUME OneIndex
             PROVE  /\ pc' \in 77..81 => Holds(map)'
                    /\ pc' \in 82..83 => HoldsOrBracketed(map)'
  BY <1>1, BookStays DEF RowsKeep
<1>2. CASE Repair /\ pc \in 76..81
  <2>1. PICK n : n = map' /\ n = Apply(Pipeline[pc], map)
    BY <1>2 DEF Repair
  <2>2. (pc < 81 => Holds(n)) /\ (pc = 81 => HoldsOrBracketed(n))
    BY <1>2, <2>1, LastStep
  <2>3. (pc < 81 => Holds(map')) /\ (pc = 81 => HoldsOrBracketed(map'))
    BY <2>1, <2>2
  <2>4. pc' = pc + 1
    BY <1>2 DEF Repair
  <2> QED  BY <1>1, <1>2, <2>3, <2>4, HoldsStay
<1>3. CASE (Repair /\ pc \notin 76..81) \/ (NoteDuplicates /\ pc \notin 76..81)
  <2>1. pc' = pc + 1 /\ pc <= 81
    BY <1>0, <1>3 DEF Repair, NoteDuplicates
  <2>2. pc' \in Int /\ pc' <= 76
    BY <1>0, <1>3, <2>1
  <2> QED  BY <2>2
<1>4. CASE NoteDuplicates /\ pc \in 76..81
  <2>1. FALSE
    <3>1. Pipeline[pc] = "Duplicates"
      BY <1>4 DEF NoteDuplicates
    <3>2. pc = 76 \/ pc \in 77..81
      BY <1>4
    <3> QED  BY <3>1, <3>2, LastPasses
  <2> QED  BY <2>1
<1>5. CASE AuditSplit \/ UNCHANGED vars
  <2>1. map' = map /\ (pc' = pc \/ (pc = 82 /\ pc' = 83))
    BY <1>0, <1>5 DEF AuditSplit, vars
  <2>2. /\ pc' \in 77..81 => Holds(map')
        /\ pc' \in 82..83 => HoldsOrBracketed(map')
    BY <2>1 DEF RowsKeep
  <2> QED  BY <1>1, <2>2, HoldsStay
<1> QED
  BY <1>2, <1>3, <1>4, <1>5 DEF Next

\* A page that one row of the Index owns ends with the Annexure of that row, or
\* with the label of the model that brackets it, in every book whose
\* Index shows its heading and whose pleadings cite no range, or whose folios
\* belong to one numbering: with two numberings a citation, checked against rows by
\* folio, may reach pages of a row that it does not name.
THEOREM IndexHeld == Spec => [](OneIndex => IndexHolds)
<1>1. Init => RowsKeep
  BY DEF Init, RowsKeep
<1>2. Typed /\ RowsKeep => (OneIndex => IndexHolds)
  <2> SUFFICES ASSUME Typed, RowsKeep, OneIndex, Repaired PROVE HoldsOrBracketed(map)
    BY DEF IndexHolds, HoldsOrBracketed
  <2>1. pc \in 82..83
    BY PipelineIs DEF Typed, TypeOK, Repaired
  <2> QED  BY <2>1 DEF RowsKeep
<1> QED
  BY InitTyped, NextTyped, NextKeeps, <1>1, <1>2, PTL DEF Spec
==============================================================================
