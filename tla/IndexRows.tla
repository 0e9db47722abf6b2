-------------------------------- MODULE IndexRows --------------------------------
(***************************************************************************)
(* split_audit.aligned_index_printed_rows: from the table of the Index to  *)
(* rows with a range of folios.  An item of the table is                   *)
(*   label  the document its particulars name                              *)
(*   first, last  the folios in its page column, 0 if scanning lost them   *)
(*   printed  the ranges that still stand somewhere behind its title       *)
(*   alone  whether the serial and the title stand on lines of their own.  *)
(* Ranges that are lost are recovered only from the ranges around them, or *)
(* from openings that are found where the folios put them.                 *)
(***************************************************************************)
EXTENDS HeadingRepair

Number(l) == Stamps[l].number
Series(l) == Stamps[l].series
Folio(p) == book[p].folio
Match(p) == book[p].match

BackParts == {"Filing Memo", "Vakalatnama", "Memo of Parties", "Memo of Appearance"}
Row(label, first, last) == [label |-> label, first |-> first, last |-> last]
RowOfItem(item) == Row(item.label, item.first, item.last)
Items(table) == ToSet(table)
Ranged(table) == {i \in DOMAIN table : table[i].first > 0}
Explicit(table) == {RowOfItem(table[i]) : i \in Ranged(table)}
NextLabel(k, l) == Series(k) = Series(l) /\ Number(l) = Number(k) + 1

\* A range that lost a digit and fell into the row before it, between that row
\* and the next Annexure.
Swallowed(previous, current, following) ==
  /\ {current.label, following.label} \subseteq Numbered
  /\ NextLabel(current.label, following.label)
  /\ current.last <= previous.last /\ current.first <= previous.last
  /\ following.first > previous.last + 1

SwallowStep(before, current, after) ==
  LET recovered == {Row(current.label, x[1].last + 1, x[2].first - 1) :
                      x \in {x \in before \X after : Swallowed(x[1], current, x[2])}}
  IN  IF recovered = {} THEN {current} ELSE recovered

\* upTo[i] holds the last row with a range up to item i.
Unswallowed(table) ==
  LET after(i) == {j \in Ranged(table) : j > i}
      next(i) == IF after(i) = {} THEN {} ELSE {RowOfItem(table[Min(after(i))])}
      upTo[i \in 0..Len(table)] ==
        IF i = 0 THEN {}
        ELSE IF i \notin Ranged(table) THEN upTo[i - 1]
        ELSE SwallowStep(upTo[i - 1], RowOfItem(table[i]), next(i))
  IN  UNION {upTo[i] : i \in DOMAIN table}

\* Between the items of these two rows, only the one of label is without a range.
SoleUnresolved(table, previous, following, label) ==
  LET at(row) == {i \in DOMAIN table : RowOfItem(table[i]) = row}
      between == {i \in DOMAIN table : /\ Min(at(previous)) < i /\ i < Min(at(following))
                                       /\ RowOfItem(table[i]) \notin Explicit(table)}
  IN  /\ Cardinality(at(previous)) = 1 /\ Cardinality(at(following)) = 1
      /\ Cardinality(between) = 1 /\ \A i \in between : table[i].label = label

Named(table, label) == {item \in Items(table) : item.label = label}

\* The Annexure between its neighbours n - 1 and n + 1.
Sequential(table, rows) ==
  LET numbered == {r \in rows : r.label \in Numbered}
      lost == {l \in Numbered : Named(table, l) # {} /\ \A t \in rows : t.label # l}
      between(l, r, s) ==
        /\ NextLabel(r.label, l) /\ NextLabel(l, s.label) /\ r.last + 1 < s.first
        /\ \/ SoleUnresolved(table, r, s, l)
           \/ \E item \in Named(table, l) : <<r.last + 1, s.first - 1>> \in item.printed
  IN  {Row(x[1], x[2].last + 1, x[3].first - 1) :
         x \in {x \in lost \X numbered \X numbered : between(x[1], x[2], x[3])}}

\* The petition between the challenged judgment and the appendix.
Petition(table, rows) ==
  LET of(l) == {r \in rows : r.label = l} IN
  {Row(Main, x[1].last + 1, x[2].first - 1) : x \in {x \in of(Order) \X of("Appendix") :
       /\ of(Main) = {} /\ Named(table, Main) # {}
       /\ Cardinality(of(Order)) = 1 /\ Cardinality(of("Appendix")) = 1
       /\ x[1].last + 1 < x[2].first}}

\* The gaps from folio from to before to that no row covers.
Gaps(rows, from, to) ==
  LET covered == UNION {r.first..r.last : r \in {s \in rows : s.first \in from..to - 1}}
      free == (from..to - 1) \ covered
  IN  {g \in {i..j : i, j \in free} :
         /\ g # {} /\ g \subseteq free
         /\ \A n \in free \ g : n + 1 \notin g /\ n - 1 \notin g}

\* The last Annexure of a series, before the next one or the back matter.
FinalIn(table, l, r, next, gaps) ==
  IF /\ Cardinality(gaps) = 1
     /\ \/ SoleUnresolved(table, r, next, l)
        \/ \E item \in Named(table, l) : item.alone
  THEN {Row(l, Min(UNION gaps), Max(UNION gaps))} ELSE {}

Behind(rows, l, r) ==
  {s \in rows : \/ s.label \in Numbered /\ Series(s.label) = Series(l)
                   /\ Number(s.label) > Number(l)
                \/ s.label \in BackParts /\ s.first > r.last}
FinalBefore(table, rows, l, r, behind) ==
  LET next == CHOOSE s \in behind : \A t \in behind : s.first <= t.first
  IN  IF behind = {} THEN {}
      ELSE FinalIn(table, l, r, next, Gaps(rows, r.last + 1, next.first))

Final(table, rows) ==
  UNION {FinalBefore(table, rows, x[1], x[2], Behind(rows, x[1], x[2])) :
           x \in {x \in Numbered \X rows :
               /\ Named(table, x[1]) # {} /\ \A t \in rows : t.label # x[1]
               /\ x[2].label \in Numbered /\ NextLabel(x[2].label, x[1])}}

\* Several lost ranges in a row: the folios at both ends lie as far apart on the
\* sheets as in print, and one opening is found for each document.
OpenedFrom(table, i, j, opens) ==
  IF /\ \A k \in i + 1..j - 1 : Cardinality(opens[k]) = 1
     /\ Min(opens[i + 1]) = table[i].last + 1
     /\ \A k \in i + 2..j - 1 : Min(opens[k - 1]) < Min(opens[k])
  THEN {Row(table[k].label, Min(opens[k]),
            IF k + 1 = j THEN table[j].first - 1 ELSE Min(opens[k + 1]) - 1) : k \in i + 1..j - 1}
  ELSE {}

OpenedBetween(table, i, j, ends) ==
  LET offset == (CHOOSE e \in ends : TRUE)[1] - table[i].last
      openings(k) == {f \in table[i].last + 1..table[j].first - 1 :
        LET p == f + offset IN Folio(p) = f /\ table[k].label \in {Stamp(p), Match(p)}}
  IN  IF Cardinality(ends) # 1 THEN {}
      ELSE OpenedFrom(table, i, j, [k \in i + 1..j - 1 |-> openings(k)])

Opened(table) ==
  LET ranged == {i \in DOMAIN table : table[i].first > 0}
      gaps == {g \in ranged \X ranged :
                 /\ g[1] + 1 < g[2] /\ \A k \in g[1] + 1..g[2] - 1 : k \notin ranged
                 /\ table[g[1]].last + 1 < table[g[2]].first}
      ends(i, j) == {e \in Pages \X Pages :
                       /\ Folio(e[1]) = table[i].last /\ Folio(e[2]) = table[j].first
                       /\ e[2] - e[1] = Folio(e[2]) - Folio(e[1])}
  IN  UNION {OpenedBetween(table, g[1], g[2], ends(g[1], g[2])) : g \in gaps}

\* aligned_index_printed_rows
Aligned(table) ==
  LET whole == Unswallowed(table)
      sequential == whole \cup Sequential(table, whole)
      petition == sequential \cup Petition(table, sequential)
  IN  petition \cup Final(table, petition) \cup Opened(table)
==============================================================================
