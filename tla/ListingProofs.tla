---------------------------- MODULE ListingProofs ----------------------------
(***************************************************************************)
(* Theorems about Listing, for any tenants and databases, query            *)
(* parameters, sizes and numbers of rows.                                  *)
(***************************************************************************)
EXTENDS Listing, FiniteSetTheorems, SequenceTheorems, SumLemmas, TLAPS

-----------------------------------------------------------------------------
(* The inductive invariant.                                                 *)

\* A result in order, without repetitions.
Descending(q) ==
    \A i, j \in DOMAIN q : i < j =>
        /\ q[i].createdAt >= q[j].createdAt
        /\ q[i] # q[j]

Distinct(q) == \A i, j \in DOMAIN q : i # j => q[i] # q[j]

DistinctIds(q) == \A i, j \in DOMAIN q : i # j => q[i].id # q[j].id

\* Rows are numbered by their creation, and an order is in one database.
Stored ==
    /\ clock <= created
    /\ \A d \in Databases : \A r \in orders[d] : r.id <= created
    /\ \A r \in products : r.id <= created
    /\ \A d, e \in Databases : \A r \in orders[d], s \in orders[e] :
          r.id = s.id => d = e /\ r = s
    /\ \A r, s \in products : r.id = s.id => r = s

\* The tenants still to be read are different from those that were, so that no
\* order is read twice under one code.
Reading ==
    reader.step = "reading" =>
        /\ reader.kind = "orders"
        /\ Distinct(reader.left)
        /\ Distinct(reader.rows)
        /\ \A i \in DOMAIN reader.rows :
              \E t \in Tenants \ Range(reader.left) : reader.rows[i] \in OrdersUnder(t)
        /\ reader.undisturbed =>
              /\ Range(reader.left) \subseteq ready
              /\ Range(reader.rows) \subseteq Listed("orders")

\* What the two queries about products have returned is current as long as no
\* product comes or goes.
Fetched ==
    reader.step = "asked" =>
        /\ reader.kind = "orders" => reader.rows = <<>>
        /\ (reader.kind = "products" /\ "find" \notin reader.queries) =>
              /\ Descending(reader.rows)
              /\ DistinctIds(reader.rows)
              /\ reader.steady =>
                    \E q \in Ordered(products) :
                        reader.rows = Slice(q, (reader.page - 1) * reader.size, reader.size)
        /\ (reader.kind = "products" /\ "count" \notin reader.queries /\ reader.steady) =>
              reader.total = Cardinality(products)

\* The rows that the open request, or else the next one, takes its page from.
Covered ==
    IF reader.step = "reading"
    THEN Range(reader.rows) \cup UNION {OrdersUnder(t) : t \in Range(reader.left)}
    ELSE Listed(reader.kind)

NextPage == IF reader.step = "turn" THEN answer.page + 1 ELSE reader.page

Newer(r, rows) == {s \in rows : s.createdAt > r.createdAt}

\* A row that was there and has not been shown will still be read, and is behind
\* enough newer rows to be on the next page or after it.
Ahead ==
    (reader.step \in {"asked", "reading", "turn"} /\ reader.undisturbed /\ ~Ties) =>
        \A n \in reader.base \ reader.seen : \E r \in Covered :
            /\ r.id = n
            /\ Cardinality(Newer(r, Covered)) >= (NextPage - 1) * reader.size

ListingInv ==
    /\ TypeOK
    /\ Stored
    /\ Reading
    /\ Fetched
    /\ Ahead
    /\ PageFitsTotal
    /\ NothingSkipped

-----------------------------------------------------------------------------
(* Rows, sequences of rows and pages.                                       *)

\* The bound on rows makes every table finite.
LEMMA FiniteRows == IsFiniteSet(Row)
<1> DEFINE codes == Tenants \cup {Null}
           pairs == (1 .. MaxRows) \X (0 .. MaxRows)
           triples == pairs \X codes
           row == [p \in triples |->
                      [id |-> p[1][1], createdAt |-> p[1][2], tenantCode |-> p[2]]]
<1>1. IsFiniteSet(triples)
  <2>1. IsFiniteSet(1 .. MaxRows) /\ IsFiniteSet(0 .. MaxRows)
    BY FS_Interval, ParameterAssumption
  <2>2. IsFiniteSet(codes)
    BY FS_AddElement, ParameterAssumption
  <2>3. IsFiniteSet(pairs)
    BY <2>1, FS_Product
  <2> HIDE DEF pairs, codes
  <2>4. QED
    BY <2>2, <2>3, FS_Product
<1>2. row \in Surjection(triples, Row)
  <2>1. row \in [triples -> Row]
    <3>1. \A p \in triples : /\ p[1][1] \in 1 .. MaxRows /\ p[1][2] \in 0 .. MaxRows
                            /\ p[2] \in Tenants \cup {Null}
      OBVIOUS
    <3>2. QED
      BY <3>1 DEF Row
  <2>2. ASSUME NEW r \in Row PROVE \E p \in triples : row[p] = r
    <3>1. PICK p : p = <<<<r.id, r.createdAt>>, r.tenantCode>>
      OBVIOUS
    <3>2. p \in triples
      BY <3>1 DEF Row
    <3>3. r = [id |-> r.id, createdAt |-> r.createdAt, tenantCode |-> r.tenantCode]
      BY DEF Row
    <3>4. row[p] = r
      BY <3>1, <3>2, <3>3
    <3>5. QED
      BY <3>2, <3>4
  <2>3. QED
    BY <2>1, <2>2 DEF Surjection
<1>3. QED
  <2> HIDE DEF triples, row
  <2>1. QED
    BY <1>1, <1>2, FS_Surjection

\* Multiplying by a size keeps the order of pages.
LEMMA PagesScale ==
    ASSUME NEW a \in Int, NEW b \in Int, a <= b, NEW size \in Nat \ {0}
    PROVE  a * size <= b * size
  OBVIOUS

\* There is at least one page, the pages hold all rows, and no page but the first
\* begins after the last row.
LEMMA PagesHold ==
    ASSUME NEW total \in Nat, NEW size \in Nat \ {0}
    PROVE  /\ TotalPages(total, size) \in Nat \ {0}
           /\ total <= TotalPages(total, size) * size
           /\ \A p \in 1 .. TotalPages(total, size) : (p - 1) * size <= total
<1> DEFINE n == (total + size - 1) \div size
<1>1. n \in Nat /\ n * size <= total + size - 1 /\ total + size - 1 < n * size + size
  OBVIOUS
<1>2. total <= n * size
  BY <1>1
<1> HIDE DEF n
<1>3. TotalPages(total, size) = IF n < 1 THEN 1 ELSE n
  BY DEF n, TotalPages, AtLeast
<1>4. ASSUME NEW p \in 1 .. TotalPages(total, size) PROVE (p - 1) * size <= total
  <2>1. CASE p = 1
    BY <2>1
  <2>2. CASE p # 1
    <3>1. p \in Nat /\ p <= n
      BY <1>1, <1>3, <2>2
    <3>2. (p - 1) * size <= (n - 1) * size
      BY <1>1, <3>1, PagesScale
    <3>3. (n - 1) * size = n * size - size
      BY <1>1
    <3>4. QED
      BY <1>1, <3>1, <3>2, <3>3
  <2>3. QED
    BY <2>1, <2>2
<1>5. QED
  <2>1. CASE n < 1
    <3>1. n = 0
      BY <1>1, <2>1
    <3>2. QED
      BY <1>2, <1>3, <1>4, <3>1
  <2>2. CASE ~(n < 1)
    BY <1>1, <1>2, <1>3, <1>4, <2>2
  <2>3. QED
    BY <2>1, <2>2

\* A sorted result has every row of its table once.
LEMMA OrderedRows ==
    ASSUME NEW rows \in SUBSET Row, NEW q \in Ordered(rows)
    PROVE  /\ Cardinality(rows) \in Nat
           /\ q \in Seq(Row)
           /\ Len(q) = Cardinality(rows)
           /\ DOMAIN q = 1 .. Cardinality(rows)
           /\ Range(q) = rows
           /\ Descending(q)
<1>1. IsFiniteSet(rows) /\ Cardinality(rows) \in Nat
  BY FiniteRows, FS_Subset, FS_CardinalityType
<1>2. /\ q \in [1 .. Cardinality(rows) -> rows]
      /\ \A i, j \in 1 .. Cardinality(rows) : q[i] = q[j] => i = j
      /\ \A r \in rows : \E i \in 1 .. Cardinality(rows) : q[i] = r
      /\ \A i, j \in DOMAIN q : i < j => q[i].createdAt >= q[j].createdAt
  BY DEF Ordered, Orderings, Bijection, Injection, Surjection, IsInjective
<1>3. q \in Seq(Row) /\ Len(q) = Cardinality(rows) /\ DOMAIN q = 1 .. Cardinality(rows)
  BY <1>1, <1>2
<1>4. Range(q) = rows
  BY <1>2 DEF Range
<1>5. Descending(q)
  BY <1>1, <1>2, <1>3 DEF Descending
<1>6. QED
  BY <1>1, <1>3, <1>4, <1>5

\* What a slice holds.
LEMMA Slices ==
    ASSUME NEW q \in Seq(Row), NEW from \in Nat, NEW n \in Nat
    PROVE  /\ Slice(q, from, n) \in Seq(Row)
           /\ Len(Slice(q, from, n)) = IF from >= Len(q) THEN 0 ELSE AtMost(n, Len(q) - from)
           /\ \A i \in DOMAIN Slice(q, from, n) :
                 from + i \in DOMAIN q /\ Slice(q, from, n)[i] = q[from + i]
<1> DEFINE last == AtMost(Len(q), from + n)
<1>1. last \in Nat /\ last <= Len(q) /\ last = (IF from + n > Len(q) THEN Len(q) ELSE from + n)
  BY DEF AtMost
<1> HIDE DEF last
<1>2. Slice(q, from, n) = SubSeq(q, from + 1, last)
  BY DEF Slice, last
<1>3. SubSeq(q, from + 1, last) = [i \in 1 .. (last - from) |-> q[from + i]]
  BY <1>1
<1>4. \A i \in 1 .. (last - from) : from + i \in 1 .. Len(q) /\ q[from + i] \in Row
  BY <1>1
<1>5. SubSeq(q, from + 1, last) \in Seq(Row)
  BY <1>1, <1>4
<1>6. Len(SubSeq(q, from + 1, last)) = IF from >= last THEN 0 ELSE last - from
  BY <1>1, <1>5
<1>7. DOMAIN SubSeq(q, from + 1, last) = 1 .. (last - from)
  BY <1>3
<1>8. /\ Slice(q, from, n) \in Seq(Row)
      /\ \A i \in DOMAIN Slice(q, from, n) :
            from + i \in DOMAIN q /\ Slice(q, from, n)[i] = q[from + i]
  BY <1>2, <1>3, <1>4, <1>5, <1>7
<1>9. Len(Slice(q, from, n)) = IF from >= Len(q) THEN 0 ELSE AtMost(n, Len(q) - from)
  BY <1>1, <1>2, <1>6 DEF AtMost
<1>10. QED
  BY <1>8, <1>9

\* Sorting the rows that were collected keeps them all.
LEMMA Sorting ==
    ASSUME NEW rows \in Seq(Row), Distinct(rows), NEW q \in NewestFirst(rows)
    PROVE  /\ q \in Ordered(Range(rows))
           /\ Range(rows) \in SUBSET Row
           /\ Cardinality(Range(rows)) = Len(rows)
<1>1. PICK at \in SortedBy(rows) : q = [i \in DOMAIN rows |-> rows[at[i]]]
  BY DEF NewestFirst
<1>2. /\ at \in [DOMAIN rows -> DOMAIN rows]
      /\ \A i, j \in DOMAIN rows : at[i] = at[j] => i = j
      /\ \A k \in DOMAIN rows : \E i \in DOMAIN rows : at[i] = k
      /\ \A i, j \in DOMAIN rows : i < j =>
            \/ rows[at[i]].createdAt > rows[at[j]].createdAt
            \/ rows[at[i]].createdAt = rows[at[j]].createdAt
  BY DEF SortedBy, Bijection, Injection, Surjection, IsInjective
<1>3. DOMAIN rows = 1 .. Len(rows) /\ Len(rows) \in Nat /\ rows \in [1 .. Len(rows) -> Row]
  OBVIOUS
<1>4. Range(rows) \in SUBSET Row
  BY <1>3 DEF Range
<1>5. rows \in Bijection(1 .. Len(rows), Range(rows))
  BY <1>3 DEF Bijection, Injection, Surjection, IsInjective, Range, Distinct
<1>6. IsFiniteSet(1 .. Len(rows)) /\ Cardinality(1 .. Len(rows)) = Len(rows)
  BY <1>3, FS_Interval
<1>7. Cardinality(Range(rows)) = Len(rows)
  BY <1>5, <1>6, FS_Bijection DEF ExistsBijection
<1>8. q \in Bijection(1 .. Len(rows), Range(rows))
  <2>1. q \in [1 .. Len(rows) -> Range(rows)]
    BY <1>1, <1>2, <1>3 DEF Range
  <2>2. \A i, j \in 1 .. Len(rows) : q[i] = q[j] => i = j
    BY <1>1, <1>2, <1>3 DEF Distinct
  <2>3. \A r \in Range(rows) : \E i \in 1 .. Len(rows) : q[i] = r
    BY <1>1, <1>2, <1>3 DEF Range
  <2>4. QED
    BY <2>1, <2>2, <2>3 DEF Bijection, Injection, Surjection, IsInjective
<1>9. \A i, j \in DOMAIN q : i < j => q[i].createdAt >= q[j].createdAt
  <2>1. SUFFICES ASSUME NEW i \in DOMAIN q, NEW j \in DOMAIN q, i < j
                 PROVE  q[i].createdAt >= q[j].createdAt
    OBVIOUS
  <2>2. at[i] \in DOMAIN rows /\ at[j] \in DOMAIN rows /\ i \in DOMAIN rows /\ j \in DOMAIN rows
    BY <1>1, <1>2, <2>1
  <2>3. rows[at[i]].createdAt \in Int /\ rows[at[j]].createdAt \in Int
    <3>1. \A r \in Row : r.createdAt \in Int
      BY ParameterAssumption DEF Row
    <3>2. rows[at[i]] \in Row /\ rows[at[j]] \in Row
      BY <2>2
    <3>3. QED
      BY <3>1, <3>2
  <2>4. q[i] = rows[at[i]] /\ q[j] = rows[at[j]]
    BY <1>1, <2>2
  <2>5. \/ rows[at[i]].createdAt > rows[at[j]].createdAt
        \/ rows[at[i]].createdAt = rows[at[j]].createdAt
    BY <1>2, <2>1, <2>2
  <2>6. QED
    BY <2>3, <2>4, <2>5
<1>10. q \in Ordered(Range(rows))
  BY <1>7, <1>8, <1>9 DEF Ordered, Orderings
<1>11. QED
  BY <1>4, <1>7, <1>10

\* When all rows before a place are newer than the one there, as many rows are newer
\* as there are places before it.
LEMMA Places ==
    ASSUME NEW rows \in SUBSET Row, NEW q \in Ordered(rows), NEW k \in DOMAIN q,
           \A i \in 1 .. k - 1 : q[i].createdAt > q[k].createdAt
    PROVE  Cardinality(Newer(q[k], rows)) = k - 1
<1> DEFINE newer == Newer(q[k], rows)
           front == {q[i] : i \in 1 .. k - 1}
           places == [i \in 1 .. k - 1 |-> q[i]]
<1>1. /\ q \in Seq(Row) /\ DOMAIN q = 1 .. Cardinality(rows) /\ Cardinality(rows) \in Nat
      /\ Range(q) = rows /\ Descending(q)
  BY OrderedRows
<1>2. k \in Nat \ {0} /\ k - 1 \in Int /\ 1 .. k - 1 \subseteq DOMAIN q
  BY <1>1
<1>3. \A i \in DOMAIN q : q[i] \in Row /\ q[i] \in rows /\ q[i].createdAt \in Int
  <2>1. \A i \in DOMAIN q : q[i] \in rows
    BY <1>1 DEF Range
  <2>2. QED
    BY <2>1 DEF Row
<1>4. places \in Bijection(1 .. k - 1, front)
  <2>1. \A i, j \in 1 .. k - 1 : q[i] = q[j] => i = j
    BY <1>1, <1>2 DEF Descending
  <2>2. QED
    BY <2>1 DEF Bijection, Injection, Surjection, IsInjective
<1>5. IsFiniteSet(1 .. k - 1) /\ Cardinality(1 .. k - 1) = k - 1
  <2>1. /\ IsFiniteSet(1 .. k - 1)
        /\ Cardinality(1 .. k - 1) = IF 1 > k - 1 THEN 0 ELSE (k - 1) - 1 + 1
    <3>1. \A b \in Int : /\ IsFiniteSet(1 .. b)
                         /\ Cardinality(1 .. b) = IF 1 > b THEN 0 ELSE b - 1 + 1
      BY FS_Interval
    <3>2. QED
      BY <1>2, <3>1
  <2>2. QED
    BY <1>2, <2>1
<1>6. Cardinality(front) = k - 1
  <2> HIDE DEF places, front
  <2>1. QED
    BY <1>4, <1>5, FS_Bijection DEF ExistsBijection
<1>7. newer \subseteq front
  <2>1. SUFFICES ASSUME NEW s \in newer PROVE s \in front
    OBVIOUS
  <2>2. s \in rows /\ s.createdAt > q[k].createdAt
    BY DEF Newer
  <2>3. PICK i \in DOMAIN q : s = q[i]
    BY <1>1, <2>2 DEF Range
  <2>4. i < k
    <3>1. CASE k < i
      BY <1>1, <1>3, <2>2, <2>3, <3>1 DEF Descending
    <3>2. CASE k = i
      BY <1>3, <2>2, <2>3, <3>2
    <3>3. QED
      BY <1>1, <3>1, <3>2
  <2>5. QED
    BY <1>1, <2>3, <2>4
<1>8. front \subseteq newer
  BY <1>2, <1>3 DEF Newer
<1>9. QED
  BY <1>6, <1>7, <1>8

\* The rows of one page.
Cut(q, page, size) == Slice(q, (page - 1) * size, size)

\* How many rows a page should have.
PageLength(page, total, size) ==
    IF page > TotalPages(total, size) THEN 0 ELSE AtMost(size, total - (page - 1) * size)

\* A page is in order, and as long as it should be.
LEMMA Pages ==
    ASSUME NEW rows \in SUBSET Row, NEW q \in Ordered(rows),
           NEW page \in Nat \ {0}, NEW size \in Nat \ {0}
    PROVE  /\ Cut(q, page, size) \in Seq(Row)
           /\ Descending(Cut(q, page, size))
           /\ Range(Cut(q, page, size)) \subseteq rows
           /\ Len(Cut(q, page, size)) = PageLength(page, Cardinality(rows), size)
<1> DEFINE total == Cardinality(rows)
           pages == TotalPages(total, size)
<1>1. PICK from : from = (page - 1) * size
  OBVIOUS
<1>2. PICK data : data = Cut(q, page, size)
  OBVIOUS
<1>3. from \in Nat
  <2>1. 0 * size <= (page - 1) * size
    BY PagesScale
  <2>2. QED
    BY <1>1, <2>1
<1>4. /\ q \in Seq(Row) /\ DOMAIN q = 1 .. total /\ total \in Nat /\ Len(q) = total
      /\ Range(q) = rows /\ Descending(q)
  BY OrderedRows
<1>5. /\ pages \in Nat \ {0}
      /\ total <= pages * size
      /\ \A p \in 1 .. pages : (p - 1) * size <= total
  BY <1>4, PagesHold
<1>6. /\ data \in Seq(Row)
      /\ Len(data) = IF from >= Len(q) THEN 0 ELSE AtMost(size, Len(q) - from)
      /\ \A i \in DOMAIN data : from + i \in DOMAIN q /\ data[i] = q[from + i]
  <2>1. data = Slice(q, from, size) /\ size \in Nat
    BY <1>1, <1>2 DEF Cut
  <2>2. q \in Seq(Row)
    BY <1>4
  <2>3. /\ Slice(q, from, size) \in Seq(Row)
        /\ Len(Slice(q, from, size)) =
              IF from >= Len(q) THEN 0 ELSE AtMost(size, Len(q) - from)
        /\ \A i \in DOMAIN Slice(q, from, size) :
              from + i \in DOMAIN q /\ Slice(q, from, size)[i] = q[from + i]
    BY ONLY <1>3, <2>1, <2>2, Slices
  <2>4. QED
    BY <2>1, <2>3
<1>7. Descending(data)
  <2>1. SUFFICES ASSUME NEW i \in DOMAIN data, NEW j \in DOMAIN data, i < j
                 PROVE  data[i].createdAt >= data[j].createdAt /\ data[i] # data[j]
    BY DEF Descending
  <2>2. i \in Nat /\ j \in Nat
    BY <1>6
  <2>3. from + i \in DOMAIN q /\ from + j \in DOMAIN q /\ from + i < from + j
    BY <1>3, <1>6, <2>1, <2>2
  <2>4. QED
    BY <1>4, <1>6, <2>3 DEF Descending
<1>8. Range(data) \subseteq rows
  BY <1>4, <1>6 DEF Range
<1> HIDE DEF total, pages
<1>9. Len(data) = IF page > pages THEN 0 ELSE AtMost(size, total - from)
  <2>1. CASE page > pages
    <3>1. pages * size <= from
      BY <1>1, <1>5, <2>1, PagesScale
    <3>2. from >= total
      BY <1>3, <1>4, <1>5, <3>1
    <3>3. QED
      BY <1>4, <1>6, <2>1, <3>2
  <2>2. CASE ~(page > pages)
    <3>1. from <= total
      BY <1>1, <1>5, <2>2
    <3>2. QED
      BY <1>3, <1>4, <1>6, <2>2, <3>1 DEF AtMost
  <2>3. QED
    BY <2>1, <2>2
<1>10. QED
  BY <1>1, <1>2, <1>6, <1>7, <1>8, <1>9 DEF total, pages, PageLength

\* A row that belongs on a page or after it, and whose id is not on the page, comes
\* on a later one.  Rows of one id may be next to each other, so the first place
\* with its time of creation is looked at.
LEMMA NotOnPage ==
    ASSUME NEW rows \in SUBSET Row, NEW q \in Ordered(rows),
           NEW page \in Nat \ {0}, NEW size \in Nat \ {0},
           \A r, s \in rows : r.createdAt = s.createdAt => r.id = s.id,
           NEW row \in rows,
           \A i \in DOMAIN Cut(q, page, size) : Cut(q, page, size)[i].id # row.id,
           Cardinality(Newer(row, rows)) >= (page - 1) * size
    PROVE  /\ page < TotalPages(Cardinality(rows), size)
           /\ Cardinality(Newer(row, rows)) >= page * size
<1> DEFINE total == Cardinality(rows)
           pages == TotalPages(total, size)
<1>1. PICK from : from = (page - 1) * size
  OBVIOUS
<1>2. PICK data : data = Cut(q, page, size)
  OBVIOUS
<1>3. from \in Nat
  <2>1. 0 * size <= (page - 1) * size
    BY PagesScale
  <2>2. QED
    BY <1>1, <2>1
<1>4. /\ q \in Seq(Row) /\ DOMAIN q = 1 .. total /\ total \in Nat /\ Len(q) = total
      /\ Range(q) = rows /\ Descending(q)
  BY OrderedRows
<1>5. /\ pages \in Nat \ {0}
      /\ total <= pages * size
  BY <1>4, PagesHold
<1>6. /\ data \in Seq(Row)
      /\ Len(data) = IF from >= Len(q) THEN 0 ELSE AtMost(size, Len(q) - from)
      /\ \A i \in DOMAIN data : from + i \in DOMAIN q /\ data[i] = q[from + i]
  <2>1. data = Slice(q, from, size) /\ size \in Nat
    BY <1>1, <1>2 DEF Cut
  <2>2. q \in Seq(Row)
    BY <1>4
  <2>3. /\ Slice(q, from, size) \in Seq(Row)
        /\ Len(Slice(q, from, size)) =
              IF from >= Len(q) THEN 0 ELSE AtMost(size, Len(q) - from)
        /\ \A i \in DOMAIN Slice(q, from, size) :
              from + i \in DOMAIN q /\ Slice(q, from, size)[i] = q[from + i]
    BY ONLY <1>3, <2>1, <2>2, Slices
  <2>4. QED
    BY <2>1, <2>3
<1>7. PICK k \in 1 .. total : /\ q[k].createdAt = row.createdAt
                               /\ \A i \in 1 .. k - 1 : q[i].createdAt > q[k].createdAt
  <2> DEFINE same == {i \in DOMAIN q : q[i].createdAt = row.createdAt}
  <2>1. same \in SUBSET Nat /\ same # {}
    BY <1>4 DEF Range
  <2>2. PICK k \in same : \A m \in same : k <= m
    <3> HIDE DEF same
    <3>1. QED
      BY <2>1, LeastNumber
  <2>3. ASSUME NEW i \in 1 .. k - 1 PROVE q[i].createdAt > q[k].createdAt
    <3>1. i \in DOMAIN q /\ k \in DOMAIN q /\ i < k /\ i \notin same
      BY <1>4, <2>2
    <3>2. q[i].createdAt >= q[k].createdAt /\ q[i].createdAt # q[k].createdAt
      BY <1>4, <2>2, <3>1 DEF Descending
    <3>3. q[i].createdAt \in Int /\ q[k].createdAt \in Int
      <4>1. q[i] \in Row /\ q[k] \in Row
        BY <1>4, <3>1
      <4>2. QED
        BY <4>1 DEF Row
    <3>4. QED
      BY <3>2, <3>3
  <2>4. QED
    BY <1>4, <2>2, <2>3
<1>8. q[k].id = row.id /\ Cardinality(Newer(row, rows)) = k - 1
  <2>1. q[k] \in rows /\ k \in DOMAIN q
    BY <1>4, <1>7 DEF Range
  <2>2. Newer(row, rows) = Newer(q[k], rows)
    BY <1>7 DEF Newer
  <2>3. Cardinality(Newer(q[k], rows)) = k - 1
    BY <1>7, <2>1, Places
  <2>4. QED
    BY <1>7, <2>1, <2>2, <2>3
<1> HIDE DEF total, pages
<1>9. k - 1 >= from
  BY <1>1, <1>8
<1>10. k > from + size
  <2>1. SUFFICES ASSUME k <= from + size PROVE FALSE
    BY <1>3, <1>4, <1>7
  <2>2. from < total /\ k - from >= 1 /\ k - from <= size /\ k - from <= total - from
    BY <1>3, <1>4, <1>7, <1>9, <2>1
  <2>3. k - from \in 1 .. Len(data)
    BY <1>3, <1>4, <1>6, <1>7, <2>2 DEF AtMost
  <2>4. data[k - from] = q[from + (k - from)]
    BY <1>6, <2>3
  <2>5. from + (k - from) = k
    BY <1>3, <1>4, <1>7
  <2>6. QED
    BY <1>2, <1>6, <1>8, <2>3, <2>4, <2>5
<1>11. from + size = page * size
  BY <1>1
<1>12. page < pages
  <2>1. SUFFICES ASSUME pages <= page PROVE FALSE
    BY <1>5
  <2>2. pages * size <= page * size
    BY <1>5, <2>1, PagesScale
  <2>3. PICK a, b : a = pages * size /\ b = page * size
    OBVIOUS
  <2>4. a \in Int /\ b \in Int
    BY <1>5, <2>3
  <2>5. QED
    BY <1>3, <1>4, <1>5, <1>7, <1>10, <1>11, <2>2, <2>3, <2>4
<1>13. Cardinality(Newer(row, rows)) >= page * size
  BY <1>3, <1>4, <1>7, <1>8, <1>10, <1>11
<1>14. QED
  BY <1>12, <1>13 DEF total, pages

-----------------------------------------------------------------------------
(* What the steps have in common.                                           *)

\* The controllers make a page and a size of whatever they are sent.
LEMMA Parameters ==
    ASSUME NEW x \in RawPages, NEW y \in RawSizes
    PROVE  Page(x) \in Nat \ {0} /\ Size(y) \in 1 .. MaxSize
  BY ParameterAssumption DEF Page, Size, ParseOr, AtLeast, AtMost

\* The orders of a database as they are read under a code.
LEMMA RowsUnder ==
    ASSUME TypeOK, NEW t \in Tenants
    PROVE  /\ DbName[t] \in Databases
           /\ OrdersUnder(t) \in SUBSET Row
           /\ \A r \in OrdersUnder(t) :
                 /\ r.tenantCode = t
                 /\ \E o \in orders[DbName[t]] : /\ r = [o EXCEPT !.tenantCode = t]
                                                 /\ r.id = o.id /\ r.createdAt = o.createdAt
<1>1. DbName[t] \in Databases /\ orders[DbName[t]] \in SUBSET Row
  BY ParameterAssumption DEF TypeOK
<1>2. ASSUME NEW o \in orders[DbName[t]]
      PROVE  LET r == [o EXCEPT !.tenantCode = t] IN
             r \in Row /\ r.tenantCode = t /\ r.id = o.id /\ r.createdAt = o.createdAt
  <2>1. o \in Row
    BY <1>1
  <2>2. QED
    BY <2>1 DEF Row
<1>3. QED
  BY <1>1, <1>2 DEF OrdersUnder

\* An order that is read twice is read under two codes of its database.
LEMMA SameOrder ==
    ASSUME TypeOK, Stored, NEW s \in Tenants, NEW t \in Tenants,
           NEW x \in OrdersUnder(s), NEW y \in OrdersUnder(t), x # y
    PROVE  Apart(x, y)
<1>1. SUFFICES ASSUME x.id = y.id
               PROVE  x.tenantCode # y.tenantCode /\ DbName[x.tenantCode] = DbName[y.tenantCode]
  BY DEF Apart
<1>2. PICK o \in orders[DbName[s]] : x = [o EXCEPT !.tenantCode = s] /\ x.id = o.id
  BY RowsUnder
<1>3. PICK p \in orders[DbName[t]] : y = [p EXCEPT !.tenantCode = t] /\ y.id = p.id
  BY RowsUnder
<1>4. x.tenantCode = s /\ y.tenantCode = t /\ DbName[s] \in Databases /\ DbName[t] \in Databases
  BY RowsUnder
<1>5. DbName[s] = DbName[t] /\ o = p
  BY <1>1, <1>2, <1>3, <1>4 DEF Stored
<1>6. QED
  BY <1>2, <1>3, <1>4, <1>5

\* The lists hold rows.
LEMMA ListsHoldRows ==
    ASSUME TypeOK
    PROVE  /\ \A kind : Listed(kind) \in SUBSET Row
           /\ Covered \in SUBSET Row
<1>1. products \subseteq Row /\ ready \subseteq Tenants
  BY DEF TypeOK
<1>2. \A kind : Listed(kind) \in SUBSET Row
  BY <1>1, RowsUnder DEF Listed
<1>3. reader.rows \in Seq(Row) /\ reader.left \in Seq(Tenants)
  BY DEF TypeOK, Reader
<1>4. Range(reader.rows) \in SUBSET Row /\ Range(reader.left) \in SUBSET Tenants
  BY <1>3 DEF Range
<1>5. UNION {OrdersUnder(t) : t \in Range(reader.left)} \in SUBSET Row
  BY <1>4, RowsUnder
<1>6. QED
  BY <1>2, <1>4, <1>5 DEF Covered

\* Without ties, rows of a list that have the same time of creation have the same id.
LEMMA SameTime ==
    ASSUME TypeOK, ~Ties, NEW kind, NEW x \in Listed(kind), NEW y \in Listed(kind),
           x.createdAt = y.createdAt
    PROVE  x.id = y.id
<1> DEFINE rows == products \cup UNION {orders[d] : d \in Databases}
<1>1. ASSUME NEW r \in Listed(kind)
      PROVE  \E o \in rows : o.id = r.id /\ o.createdAt = r.createdAt
  <2>1. CASE kind # "orders"
    BY <2>1 DEF Listed
  <2>2. CASE kind = "orders"
    <3>1. PICK t \in Tenants : r \in OrdersUnder(t)
      BY <2>2 DEF Listed, TypeOK
    <3>2. DbName[t] \in Databases
          /\ \E o \in orders[DbName[t]] : r.id = o.id /\ r.createdAt = o.createdAt
      BY <3>1, RowsUnder
    <3>3. QED
      BY <3>2
  <2>3. QED
    BY <2>1, <2>2
<1>2. PICK o \in rows : o.id = x.id /\ o.createdAt = x.createdAt
  BY <1>1
<1>3. PICK p \in rows : p.id = y.id /\ p.createdAt = y.createdAt
  BY <1>1
<1>4. QED
  BY <1>2, <1>3 DEF Ties

\* The page a client is at, and the size it asked for.
LEMMA PageAndSize ==
    ASSUME TypeOK
    PROVE  /\ NextPage \in Nat \ {0}
           /\ reader.page \in Nat \ {0}
           /\ reader.size \in Nat \ {0}
<1>1. reader.page \in Nat \ {0} /\ reader.size \in 1 .. MaxSize
  BY DEF TypeOK, Reader
<1>2. answer.page \in Nat \ {0}
  BY DEF TypeOK, Answer
<1>3. reader.size \in Nat \ {0}
  BY <1>1, ParameterAssumption
<1>4. QED
  BY <1>1, <1>2, <1>3 DEF NextPage

\* A larger table has no fewer newer rows.
LEMMA MoreNewer ==
    ASSUME NEW a \in SUBSET Row, NEW b \in SUBSET Row, a \subseteq b, NEW r
    PROVE  /\ Cardinality(Newer(r, a)) \in Nat
           /\ Cardinality(Newer(r, b)) \in Nat
           /\ Cardinality(Newer(r, a)) <= Cardinality(Newer(r, b))
<1>1. PICK m, n : m = Newer(r, a) /\ n = Newer(r, b)
  OBVIOUS
<1>2. m \in SUBSET n /\ n \in SUBSET Row
  BY <1>1 DEF Newer
<1>3. IsFiniteSet(n) /\ IsFiniteSet(m)
  BY <1>2, FiniteRows, FS_Subset
<1>4. Cardinality(m) \in Nat /\ Cardinality(n) \in Nat /\ Cardinality(m) <= Cardinality(n)
  BY <1>2, <1>3, FS_Subset, FS_CardinalityType
<1>5. QED
  BY <1>1, <1>4

Paging(step) == step \in {"asked", "reading", "turn"}

\* Ahead survives a step that takes no row away from those to be read.
LEMMA StillAhead ==
    ASSUME TypeOK, TypeOK', Ahead,
           Paging(reader'.step) => Paging(reader.step),
           reader'.undisturbed => reader.undisturbed,
           ~Ties' => ~Ties,
           NextPage' = NextPage,
           reader'.size = reader.size,
           reader'.base = reader.base,
           reader'.seen = reader.seen,
           Covered \subseteq Covered'
    PROVE  Ahead'
<1>1. SUFFICES ASSUME Paging(reader'.step), reader'.undisturbed, ~Ties',
                      NEW n \in reader'.base \ reader'.seen
               PROVE  \E r \in Covered' :
                         /\ r.id = n
                         /\ Cardinality(Newer(r, Covered')) >= (NextPage' - 1) * reader'.size
  BY DEF Ahead, Paging, Newer
<1>2. PICK r \in Covered :
          r.id = n /\ Cardinality(Newer(r, Covered)) >= (NextPage - 1) * reader.size
  BY <1>1 DEF Ahead, Paging
<1>3. Covered \in SUBSET Row /\ Covered' \in SUBSET Row
  <2>1. Covered \in SUBSET Row
    BY ListsHoldRows
  <2>2. (TypeOK => Covered \in SUBSET Row)'
    BY ListsHoldRows, PTL
  <2>3. QED
    BY <2>1, <2>2
<1>4. PICK a, b : a = Covered /\ b = Covered'
  OBVIOUS
<1>5. Cardinality(Newer(r, a)) <= Cardinality(Newer(r, b))
      /\ Cardinality(Newer(r, a)) \in Nat /\ Cardinality(Newer(r, b)) \in Nat
  BY <1>3, <1>4, MoreNewer
<1>6. PICK m : m = (NextPage - 1) * reader.size
  OBVIOUS
<1>7. NextPage \in Int /\ reader.size \in Int
  BY PageAndSize
<1>8. m \in Int
  BY <1>6, <1>7
<1>9. Cardinality(Newer(r, b)) >= m
  BY <1>2, <1>4, <1>5, <1>6, <1>8
<1>10. QED
  BY <1>2, <1>4, <1>6, <1>9

\* An answer cut out of all the rows to be read passes over no row: one that is
\* not on it comes on a later page, and the last page leaves none.
LEMMA AnswerAhead ==
    ASSUME TypeOK, Ahead, Paging(reader.step), reader.step # "turn",
           reader.undisturbed => Covered \subseteq Listed(reader.kind),
           NEW q \in Ordered(Covered),
           NEW c \in Nat \ {0},
           \/ c = reader.page
           \/ c = AtMost(TotalPages(Cardinality(Covered), reader.size), reader.page),
           Answered(reader.page, Cardinality(Covered), Cut(q, c, reader.size))
    PROVE  Ahead' /\ NothingSkipped'
<1>1. PICK rows, pages, shown, data, size :
          /\ rows = Covered
          /\ pages = TotalPages(Cardinality(Covered), reader.size)
          /\ shown = AtMost(pages, reader.page)
          /\ data = Cut(q, c, reader.size)
          /\ size = reader.size
  OBVIOUS
<1>2. rows \in SUBSET Row
  BY <1>1, ListsHoldRows
<1>3. reader.page \in Nat \ {0} /\ size \in Nat \ {0}
  BY <1>1, PageAndSize
<1>4. Cardinality(rows) \in Nat
  BY <1>1, <1>2, OrderedRows
<1>5. pages \in Nat \ {0}
  BY <1>1, <1>3, <1>4, PagesHold
<1>6. c <= reader.page /\ (c < pages => c = shown)
  BY <1>1, <1>3, <1>5 DEF AtMost
<1>7. /\ answer'.page = shown
      /\ reader' = [reader EXCEPT
            !.step = IF shown = pages THEN "finished" ELSE "turn",
            !.seen = @ \cup IdsOf(Range(data)),
            !.undisturbed = @ /\ (reader.kind = "orders" \/ reader.steady)]
      /\ UNCHANGED tables
  BY <1>1 DEF Answered
<1>8. /\ reader'.step = IF shown = pages THEN "finished" ELSE "turn"
      /\ reader'.seen = reader.seen \cup IdsOf(Range(data))
      /\ reader'.undisturbed => reader.undisturbed
      /\ reader'.base = reader.base
      /\ reader'.size = size
      /\ reader'.kind = reader.kind
  BY <1>1, <1>7 DEF TypeOK, Reader
<1>9. Ties' = Ties
  BY <1>7 DEF Ties, tables
<1>10. Listed(reader.kind)' = Listed(reader.kind)
  BY <1>7, <1>8 DEF Listed, OrdersUnder, tables
<1>11. ASSUME reader'.undisturbed, ~Ties', NEW n \in reader'.base \ reader'.seen
       PROVE  /\ c < pages
              /\ \E r \in rows : r.id = n /\ Cardinality(Newer(r, rows)) >= c * size
  <2>1. PICK r \in rows :
            r.id = n /\ Cardinality(Newer(r, rows)) >= (reader.page - 1) * size
    BY <1>1, <1>8, <1>9, <1>11 DEF Ahead, Paging, NextPage
  <2>2. (c - 1) * size <= (reader.page - 1) * size
    BY <1>3, <1>6, PagesScale
  <2>3. Cardinality(Newer(r, rows)) \in Nat
    BY <1>2, MoreNewer
  <2>4. Cardinality(Newer(r, rows)) >= (c - 1) * size
    <3>1. PICK a, b : a = (c - 1) * size /\ b = (reader.page - 1) * size
      OBVIOUS
    <3>2. a \in Int /\ b \in Int
      BY <1>3, <3>1
    <3>3. QED
      BY <2>1, <2>2, <2>3, <3>1, <3>2
  <2>5. \A x, y \in rows : x.createdAt = y.createdAt => x.id = y.id
    <3>1. rows \subseteq Listed(reader.kind)
      BY <1>1, <1>8, <1>11
    <3>2. QED
      BY <1>9, <1>11, <3>1, SameTime
  <2>6. \A i \in DOMAIN Cut(q, c, size) : Cut(q, c, size)[i].id # r.id
    BY <1>1, <1>8, <1>11, <2>1 DEF IdsOf, Range
  <2>7. c < TotalPages(Cardinality(rows), size) /\ Cardinality(Newer(r, rows)) >= c * size
    <3>1. q \in Ordered(rows) /\ c \in Nat \ {0}
      BY <1>1
    <3>2. QED
      BY ONLY <1>2, <1>3, <2>4, <2>5, <2>6, <3>1, NotOnPage
  <2>8. QED
    BY <1>1, <2>1, <2>7
<1>12. NothingSkipped'
  <2>1. SUFFICES ASSUME reader'.step = "finished", reader'.undisturbed, ~Ties',
                        NEW n \in reader'.base \ reader'.seen
                 PROVE  FALSE
    BY DEF NothingSkipped
  <2>2. c < pages /\ shown = pages
    BY <1>8, <1>11, <2>1
  <2>3. QED
    BY <1>5, <1>6, <2>2
<1>13. Ahead'
  <2>1. SUFFICES ASSUME reader'.undisturbed, ~Ties',
                        NEW n \in reader'.base \ reader'.seen
                 PROVE  /\ reader'.step = "turn"
                        /\ \E r \in Covered' :
                              /\ r.id = n
                              /\ Cardinality(Newer(r, Covered')) >= (NextPage' - 1) * reader'.size
    BY DEF Ahead, Newer
  <2>2. c < pages /\ c = shown
    BY <1>6, <1>11, <2>1
  <2>3. PICK r \in rows : r.id = n /\ Cardinality(Newer(r, rows)) >= c * size
    BY <1>11, <2>1
  <2>4. reader'.step = "turn"
    BY <1>5, <1>8, <2>2
  <2>5. PICK more : more = Covered'
    OBVIOUS
  <2>6. more = Listed(reader.kind)
    BY <1>10, <2>4, <2>5 DEF Covered
  <2>7. more \in SUBSET Row /\ rows \subseteq more
    BY <1>1, <1>8, <2>1, <2>6, ListsHoldRows
  <2>8. /\ Cardinality(Newer(r, rows)) \in Nat /\ Cardinality(Newer(r, more)) \in Nat
        /\ Cardinality(Newer(r, rows)) <= Cardinality(Newer(r, more))
    BY <1>2, <2>7, MoreNewer
  <2>9. NextPage' = shown + 1
    BY <1>7, <2>4 DEF NextPage
  <2>10. (NextPage' - 1) * reader'.size = c * size
    BY <1>8, <2>2, <2>9
  <2>11. PICK m : m = c * size
    OBVIOUS
  <2>12. m \in Int
    BY <1>3, <2>11
  <2>13. Cardinality(Newer(r, more)) >= m
    BY <2>3, <2>8, <2>11, <2>12
  <2>14. QED
    BY <2>3, <2>4, <2>5, <2>7, <2>10, <2>11, <2>13
<1>14. QED
  BY <1>12, <1>13

-----------------------------------------------------------------------------
(* The invariant is inductive.                                              *)

\* Nothing has been read or answered at the start.
LEMMA InitInv == Init => ListingInv
<1> SUFFICES ASSUME Init PROVE ListingInv
  OBVIOUS
<1>1. TypeOK
  BY ParameterAssumption DEF Init, NoAnswer, TypeOK, Reader, Answer, Row
<1>2. Stored
  BY DEF Init, Stored
<1>3. Reading /\ Fetched /\ Ahead /\ PageFitsTotal /\ NothingSkipped
  BY DEF Init, Reading, Fetched, Ahead, PageFitsTotal, NothingSkipped, Replied
<1>4. QED
  BY <1>1, <1>2, <1>3 DEF ListingInv

\* A new order is later in every list, and is in no other database.
LEMMA CreateOrderInv ==
    ASSUME ListingInv, NEW t \in Tenants, NEW now \in Now, CreateOrder(t, now)
    PROVE  ListingInv'
<1> USE DEF ListingInv
<1>1. /\ created \in Nat /\ created' = created + 1 /\ created < MaxRows /\ created' \in 0 .. MaxRows
      /\ clock' \in 0 .. MaxRows /\ clock' <= created'
      /\ NewRow(now) \in Row /\ NewRow(now).id = created + 1
  BY ParameterAssumption DEF TypeOK, Stored, CreateOrder, Created, Now, NewRow, Row
<1>2. PICK new, d : new = NewRow(now) /\ d = DbName[t]
  OBVIOUS
<1>3. /\ orders \in [Databases -> SUBSET Row] /\ d \in Databases
      /\ orders' = [orders EXCEPT ![d] = orders[d] \cup {new}]
      /\ UNCHANGED <<products, ready, reader, answer, faults>>
  BY <1>2, ParameterAssumption DEF TypeOK, CreateOrder
<1>4. \A e \in Databases :
          /\ orders[e] \subseteq orders'[e]
          /\ orders'[e] \subseteq orders[e] \cup {new}
          /\ e # d => orders'[e] = orders[e]
  BY <1>3
<1>5. TypeOK'
  BY <1>1, <1>2, <1>3 DEF TypeOK
<1>6. \A e \in Databases : \A r \in orders[e] : r.id \in Int /\ r.id <= created /\ r.id # new.id
  <2>1. \A e \in Databases : \A r \in orders[e] : r.id \in Int /\ r.id <= created
    BY <1>3 DEF Stored, Row
  <2>2. QED
    BY <1>1, <1>2, <2>1
<1>7. Stored'
  <2>1. \A e \in Databases : \A r \in orders'[e] : r.id <= created'
    BY <1>1, <1>2, <1>4, <1>6
  <2>2. \A r \in products' : r.id <= created'
    <3>1. \A r \in products : r.id \in Int /\ r.id <= created
      BY DEF TypeOK, Stored, Row
    <3>2. QED
      BY <1>1, <1>3, <3>1
  <2>3. ASSUME NEW e \in Databases, NEW f \in Databases, NEW r \in orders'[e], NEW s \in orders'[f],
               r.id = s.id
        PROVE  e = f /\ r = s
    <3>1. CASE r \in orders[e] /\ s \in orders[f]
      BY <2>3, <3>1 DEF Stored
    <3>2. CASE r = new /\ r \notin orders[e] /\ s = new /\ s \notin orders[f]
      BY <1>4, <3>2
    <3>3. QED
      BY <1>4, <1>6, <2>3, <3>1, <3>2
  <2>4. \A r, s \in products' : r.id = s.id => r = s
    BY <1>3 DEF Stored
  <2>5. QED
    BY <1>1, <2>1, <2>2, <2>3, <2>4 DEF Stored
<1>8. \A s \in Tenants : OrdersUnder(s) \subseteq OrdersUnder(s)'
  <2>1. \A s \in Tenants : DbName[s] \in Databases
    BY ParameterAssumption
  <2>2. QED
    BY <1>4, <2>1 DEF OrdersUnder
<1>9. \A kind : Listed(kind) \subseteq Listed(kind)'
  BY <1>3, <1>8 DEF Listed, TypeOK
<1>10. Reading'
  <2>1. Listed("orders") \subseteq Listed("orders")'
    BY <1>9
  <2>2. reader' = reader /\ ready' = ready
    BY <1>3
  <2>3. QED
    BY <1>8, <2>1, <2>2 DEF Reading, Distinct, Range
<1>11. Fetched'
  BY <1>3 DEF Fetched, Descending, DistinctIds
<1>12. ~Ties' => ~Ties
  <2>1. UNION {orders[e] : e \in Databases} \subseteq UNION {orders'[e] : e \in Databases}
    BY <1>4
  <2>2. QED
    BY <1>3, <2>1 DEF Ties
<1>13. Covered \subseteq Covered'
  <2>1. reader.left \in Seq(Tenants)
    BY DEF TypeOK, Reader
  <2>2. Range(reader.left) \subseteq Tenants
    BY <2>1 DEF Range
  <2>3. UNION {OrdersUnder(s) : s \in Range(reader.left)}
            \subseteq UNION {OrdersUnder(s)' : s \in Range(reader.left)}
    BY <1>8, <2>2
  <2>4. CASE reader.step = "reading"
    BY <1>3, <2>3, <2>4 DEF Covered
  <2>5. CASE reader.step # "reading"
    BY <1>3, <1>9, <2>5 DEF Covered
  <2>6. QED
    BY <2>4, <2>5
<1>14. Ahead'
  <2>1. NextPage' = NextPage
    BY <1>3 DEF NextPage
  <2>2. QED
    BY <1>3, <1>5, <1>12, <1>13, <2>1, StillAhead
<1>15. PageFitsTotal' /\ NothingSkipped'
  BY <1>3, <1>12 DEF PageFitsTotal, NothingSkipped, Replied, Room, Apart
<1>16. QED
  BY <1>5, <1>7, <1>10, <1>11, <1>14, <1>15

\* A new product is later in the list; what was fetched before is not current.
LEMMA CreateProductInv ==
    ASSUME ListingInv, NEW now \in Now, CreateProduct(now)
    PROVE  ListingInv'
<1> USE DEF ListingInv
<1>1. /\ created \in Nat /\ created' = created + 1 /\ created < MaxRows /\ created' \in 0 .. MaxRows
      /\ clock' \in 0 .. MaxRows /\ clock' <= created'
      /\ NewRow(now) \in Row /\ NewRow(now).id = created + 1
  BY ParameterAssumption DEF TypeOK, Stored, CreateProduct, Created, Now, NewRow, Row
<1>2. /\ products' = products \cup {NewRow(now)}
      /\ reader' = [reader EXCEPT !.steady = FALSE]
      /\ UNCHANGED <<orders, ready, answer, faults>>
  BY DEF CreateProduct
<1>3. TypeOK'
  BY <1>1, <1>2 DEF TypeOK, Reader
<1>4. /\ reader'.step = reader.step /\ reader'.kind = reader.kind /\ reader'.page = reader.page
      /\ reader'.size = reader.size /\ reader'.left = reader.left
      /\ reader'.queries = reader.queries /\ reader'.rows = reader.rows
      /\ reader'.base = reader.base /\ reader'.seen = reader.seen
      /\ reader'.undisturbed = reader.undisturbed /\ reader'.steady = FALSE
  BY <1>2 DEF TypeOK, Reader
<1>5. Stored'
  <2>1. \A d \in Databases : \A r \in orders[d] : r.id <= created'
    <3>1. \A d \in Databases : \A r \in orders[d] : r.id \in Int /\ r.id <= created
      BY DEF TypeOK, Stored, Row
    <3>2. QED
      BY <1>1, <3>1
  <2>2. \A r \in products : r.id \in Int /\ r.id <= created
    BY DEF TypeOK, Stored, Row
  <2>3. \A r \in products : r.id <= created' /\ r.id # NewRow(now).id
    BY <1>1, <2>2
  <2>4. \A r \in products' : r.id <= created'
    BY <1>1, <1>2, <2>3
  <2>5. \A r, s \in products' : r.id = s.id => r = s
    BY <1>2, <2>3 DEF Stored
  <2>6. QED
    BY <1>1, <1>2, <2>1, <2>4, <2>5 DEF Stored
<1>6. \A kind : Listed(kind) \subseteq Listed(kind)'
  BY <1>2 DEF Listed, OrdersUnder
<1>7. Reading'
  <2>1. Listed("orders") \subseteq Listed("orders")'
    BY <1>6
  <2>2. QED
    BY <1>2, <1>4, <2>1 DEF Reading, Distinct, Range, OrdersUnder
<1>8. Fetched'
  BY <1>4 DEF Fetched, Descending, DistinctIds
<1>9. ~Ties' => ~Ties
  BY <1>2 DEF Ties
<1>10. Covered \subseteq Covered'
  BY <1>2, <1>4, <1>6 DEF Covered, OrdersUnder
<1>11. Ahead'
  <2>1. NextPage' = NextPage
    BY <1>2, <1>4 DEF NextPage
  <2>2. QED
    BY <1>3, <1>4, <1>9, <1>10, <2>1, StillAhead
<1>12. PageFitsTotal' /\ NothingSkipped'
  BY <1>2, <1>4, <1>9 DEF PageFitsTotal, NothingSkipped, Replied, Room, Apart
<1>13. QED
  BY <1>3, <1>5, <1>7, <1>8, <1>11, <1>12

\* Removing a product excuses the rows that are missed, and makes what was fetched
\* out of date.
LEMMA RemoveProductInv ==
    ASSUME ListingInv, NEW r \in products, RemoveProduct(r)
    PROVE  ListingInv'
<1> USE DEF ListingInv
<1>1. /\ products' \subseteq products
      /\ reader' = [reader EXCEPT !.undisturbed = FALSE, !.steady = FALSE]
      /\ UNCHANGED <<orders, ready, created, clock, answer, faults>>
  BY DEF RemoveProduct, Disturb
<1>2. TypeOK'
  BY <1>1 DEF TypeOK, Reader
<1>3. /\ reader'.step = reader.step /\ reader'.kind = reader.kind /\ reader'.page = reader.page
      /\ reader'.size = reader.size /\ reader'.left = reader.left
      /\ reader'.queries = reader.queries /\ reader'.rows = reader.rows
      /\ reader'.undisturbed = FALSE /\ reader'.steady = FALSE
  BY <1>1 DEF TypeOK, Reader
<1>4. Stored'
  BY <1>1 DEF Stored
<1>5. Reading'
  BY <1>1, <1>3 DEF Reading, Distinct, Range, OrdersUnder
<1>6. Fetched'
  BY <1>3 DEF Fetched, Descending, DistinctIds
<1>7. Ahead' /\ PageFitsTotal' /\ NothingSkipped'
  BY <1>1, <1>3 DEF Ahead, PageFitsTotal, NothingSkipped, Replied, Room, Apart
<1>8. QED
  BY <1>2, <1>4, <1>5, <1>6, <1>7

\* The orders of a tenant that becomes ready are added to those listed.
LEMMA TenantReadyInv ==
    ASSUME ListingInv, NEW t \in Tenants, TenantReady(t)
    PROVE  ListingInv'
<1> USE DEF ListingInv
<1>1. ready' = ready \cup {t} /\ UNCHANGED <<orders, products, created, clock, reader, answer, faults>>
  BY DEF TenantReady
<1>2. TypeOK'
  BY <1>1 DEF TypeOK
<1>3. \A kind : Listed(kind) \subseteq Listed(kind)'
  BY <1>1 DEF Listed, OrdersUnder
<1>4. Stored' /\ Fetched'
  BY <1>1 DEF Stored, Fetched, Descending, DistinctIds
<1>5. Reading'
  <2>1. Listed("orders") \subseteq Listed("orders")' /\ ready \subseteq ready'
    BY <1>1, <1>3
  <2>2. QED
    BY <1>1, <2>1 DEF Reading, Distinct, Range, OrdersUnder
<1>6. ~Ties' => ~Ties
  BY <1>1 DEF Ties
<1>7. Ahead'
  <2>1. NextPage' = NextPage
    BY <1>1 DEF NextPage
  <2>2. Covered \subseteq Covered'
    BY <1>1, <1>3 DEF Covered, OrdersUnder
  <2>3. QED
    BY <1>1, <1>2, <1>6, <2>1, <2>2, StillAhead
<1>8. PageFitsTotal' /\ NothingSkipped'
  BY <1>1, <1>6 DEF PageFitsTotal, NothingSkipped, Replied, Room, Apart
<1>9. QED
  BY <1>2, <1>4, <1>5, <1>7, <1>8

\* Removing a tenant excuses the rows that are missed.
LEMMA TenantRemovedInv ==
    ASSUME ListingInv, NEW t \in Tenants, TenantRemoved(t)
    PROVE  ListingInv'
<1> USE DEF ListingInv
<1>1. /\ ready' = ready \ {t}
      /\ reader' = [reader EXCEPT !.undisturbed = FALSE, !.steady = FALSE]
      /\ UNCHANGED <<orders, products, created, clock, answer, faults>>
  BY DEF TenantRemoved, Disturb
<1>2. TypeOK'
  BY <1>1 DEF TypeOK, Reader
<1>3. /\ reader'.step = reader.step /\ reader'.kind = reader.kind /\ reader'.page = reader.page
      /\ reader'.size = reader.size /\ reader'.left = reader.left
      /\ reader'.queries = reader.queries /\ reader'.rows = reader.rows
      /\ reader'.undisturbed = FALSE /\ reader'.steady = FALSE
  BY <1>1 DEF TypeOK, Reader
<1>4. Stored'
  BY <1>1 DEF Stored
<1>5. Reading'
  BY <1>1, <1>3 DEF Reading, Distinct, Range, OrdersUnder
<1>6. Fetched'
  BY <1>3 DEF Fetched, Descending, DistinctIds
<1>7. Ahead' /\ PageFitsTotal' /\ NothingSkipped'
  BY <1>1, <1>3 DEF Ahead, PageFitsTotal, NothingSkipped, Replied, Room, Apart
<1>8. QED
  BY <1>2, <1>4, <1>5, <1>6, <1>7

\* A client begins: no row is ahead of the first page.
LEMMA AskInv ==
    ASSUME ListingInv, NEW kind \in {"orders", "products"},
           NEW page \in RawPages, NEW size \in RawSizes, Ask(kind, page, size)
    PROVE  ListingInv'
<1> USE DEF ListingInv
<1>1. Page(page) \in Nat \ {0} /\ Size(size) \in 1 .. MaxSize
  BY Parameters
<1>2. Listed(kind) \in SUBSET Row /\ IdsOf(Listed(kind)) \in SUBSET (1 .. MaxRows)
  BY ListsHoldRows DEF IdsOf, Row
<1>3. /\ reader' = [step |-> "asked", kind |-> kind, page |-> Page(page), size |-> Size(size),
                    left |-> <<>>, queries |-> {"count", "find"}, rows |-> <<>>, total |-> 0,
                    base |-> IdsOf(Listed(kind)), seen |-> {},
                    undisturbed |-> Page(page) = 1, steady |-> TRUE]
      /\ UNCHANGED <<orders, products, ready, created, clock, answer, faults>>
  BY DEF Ask, tables
<1>4. /\ reader'.step = "asked" /\ reader'.kind = kind /\ reader'.page = Page(page)
      /\ reader'.size = Size(size) /\ reader'.queries = {"count", "find"}
      /\ reader'.rows = <<>> /\ reader'.base = IdsOf(Listed(kind)) /\ reader'.seen = {}
      /\ reader'.undisturbed = (Page(page) = 1)
  BY <1>3
<1>5. TypeOK'
  <2>1. reader' \in Reader
    BY <1>1, <1>2, <1>3 DEF Reader
  <2>2. QED
    BY <1>3, <2>1 DEF TypeOK
<1>6. Stored'
  BY <1>3 DEF Stored
<1>7. Reading' /\ Fetched' /\ PageFitsTotal' /\ NothingSkipped'
  BY <1>4 DEF Reading, Fetched, PageFitsTotal, NothingSkipped, Replied
<1>8. Ahead'
  <2>1. SUFFICES ASSUME reader'.undisturbed, NEW n \in reader'.base \ reader'.seen
                 PROVE  \E r \in Covered' :
                           /\ r.id = n
                           /\ Cardinality(Newer(r, Covered')) >= (NextPage' - 1) * reader'.size
    BY DEF Ahead, Newer
  <2>2. PICK rows : rows = Covered'
    OBVIOUS
  <2>3. rows = Listed(kind)
    BY <1>3, <1>4, <2>2 DEF Covered, Listed, OrdersUnder
  <2>4. PICK r \in rows : r.id = n
    BY <1>4, <2>1, <2>3 DEF IdsOf
  <2>5. Cardinality(Newer(r, rows)) \in Nat
    BY <1>2, <2>3, MoreNewer
  <2>6. NextPage' = 1
    BY <1>4, <2>1 DEF NextPage
  <2>7. (NextPage' - 1) * reader'.size = 0
    BY <1>1, <1>4, <2>6
  <2>8. QED
    BY <2>2, <2>4, <2>5, <2>7
<1>9. QED
  BY <1>5, <1>6, <1>7, <1>8

\* The client goes on to the page that Ahead speaks of.
LEMMA TurnPageInv ==
    ASSUME ListingInv, TurnPage
    PROVE  ListingInv'
<1> USE DEF ListingInv
<1>1. /\ reader.step = "turn"
      /\ reader' = [reader EXCEPT !.step = "asked", !.page = answer.page + 1,
                                  !.queries = {"count", "find"},
                                  !.rows = <<>>, !.steady = TRUE]
      /\ answer' = NoAnswer
      /\ UNCHANGED <<orders, products, ready, created, clock, faults>>
  BY DEF TurnPage, tables
<1>2. answer.page + 1 \in Nat \ {0}
  BY DEF TypeOK, Answer
<1>3. /\ reader'.step = "asked" /\ reader'.kind = reader.kind /\ reader'.page = answer.page + 1
      /\ reader'.size = reader.size /\ reader'.queries = {"count", "find"}
      /\ reader'.rows = <<>> /\ reader'.base = reader.base /\ reader'.seen = reader.seen
      /\ reader'.undisturbed = reader.undisturbed
  BY <1>1 DEF TypeOK, Reader
<1>4. TypeOK'
  <2>1. <<>> \in Seq(Row) /\ {"count", "find"} \in SUBSET {"count", "find"} /\ TRUE \in BOOLEAN
    OBVIOUS
  <2>2. reader' \in Reader
    BY <1>1, <1>2, <2>1 DEF TypeOK, Reader
  <2>3. NoAnswer \in Answer
    BY DEF NoAnswer, Answer, Row
  <2>4. QED
    BY <1>1, <2>2, <2>3 DEF TypeOK
<1>5. Stored'
  BY <1>1 DEF Stored
<1>6. Reading' /\ Fetched' /\ PageFitsTotal' /\ NothingSkipped'
  BY <1>3 DEF Reading, Fetched, PageFitsTotal, NothingSkipped, Replied
<1>7. Ahead'
  <2>1. NextPage' = NextPage
    BY <1>1, <1>3 DEF NextPage
  <2>2. Covered' = Covered
    BY <1>1, <1>3 DEF Covered, Listed, OrdersUnder
  <2>3. Ties' = Ties
    BY <1>1 DEF Ties
  <2>4. QED
    BY <1>1, <1>3, <1>4, <2>1, <2>2, <2>3, StillAhead DEF Paging
<1>8. QED
  BY <1>4, <1>5, <1>6, <1>7

\* The tenants to read are those that are ready, each once.
LEMMA FindTenantsInv ==
    ASSUME ListingInv, FindTenants
    PROVE  ListingInv'
<1> USE DEF ListingInv
<1>1. PICK ts \in Orderings(ready) :
          reader' = [reader EXCEPT !.step = "reading", !.left = ts]
  BY DEF FindTenants
<1>2. /\ reader.step = "asked" /\ reader.kind = "orders"
      /\ UNCHANGED <<orders, products, ready, created, clock, answer, faults>>
  BY DEF FindTenants, tables
<1>3. /\ ts \in [1 .. Cardinality(ready) -> ready]
      /\ \A i, j \in 1 .. Cardinality(ready) : ts[i] = ts[j] => i = j
      /\ \A t \in ready : \E i \in 1 .. Cardinality(ready) : ts[i] = t
  BY DEF Orderings, Bijection, Injection, Surjection, IsInjective
<1>4. ready \in SUBSET Tenants /\ IsFiniteSet(ready)
  BY ParameterAssumption, FS_Subset DEF TypeOK
<1>5. Cardinality(ready) \in Nat
  BY <1>4, FS_CardinalityType
<1>6. ts \in Seq(Tenants) /\ Distinct(ts) /\ Range(ts) = ready
  BY <1>3, <1>4, <1>5 DEF Distinct, Range
<1>7. /\ reader'.step = "reading" /\ reader'.kind = "orders" /\ reader'.page = reader.page
      /\ reader'.size = reader.size /\ reader'.left = ts /\ reader'.rows = <<>>
      /\ reader'.base = reader.base /\ reader'.seen = reader.seen
      /\ reader'.undisturbed = reader.undisturbed
  BY <1>1, <1>2 DEF TypeOK, Reader, Fetched
<1>8. TypeOK'
  BY <1>1, <1>2, <1>6 DEF TypeOK, Reader
<1>9. Stored'
  BY <1>2 DEF Stored
<1>10. Reading'
  <2>1. Distinct(reader'.rows) /\ DOMAIN reader'.rows = {} /\ Range(reader'.rows) = {}
    BY <1>7 DEF Distinct, Range
  <2>2. Distinct(reader'.left) /\ Range(reader'.left) = ready'
    BY <1>2, <1>6, <1>7
  <2>3. QED
    BY <1>7, <2>1, <2>2 DEF Reading, Distinct, Range, OrdersUnder
<1>11. Fetched' /\ PageFitsTotal' /\ NothingSkipped'
  BY <1>7 DEF Fetched, PageFitsTotal, NothingSkipped, Replied
<1>12. Ahead'
  <2>1. NextPage' = NextPage
    BY <1>2, <1>7 DEF NextPage
  <2>2. Covered' = Covered
    <3>1. Covered = UNION {OrdersUnder(t) : t \in ready}
      BY <1>2 DEF Covered, Listed, OrdersUnder
    <3>2. Covered' = Range(reader'.rows) \cup UNION {OrdersUnder(t) : t \in Range(reader'.left)}
      BY <1>2, <1>7 DEF Covered, Range, OrdersUnder
    <3>3. Range(reader'.rows) = {} /\ Range(reader'.left) = ready
      BY <1>6, <1>7 DEF Range
    <3>4. QED
      BY <1>2, <3>1, <3>2, <3>3
  <2>3. Ties' = Ties
    BY <1>2 DEF Ties
  <2>4. QED
    BY <1>2, <1>7, <1>8, <2>1, <2>2, <2>3, StillAhead DEF Paging
<1>13. QED
  BY <1>8, <1>9, <1>10, <1>11, <1>12

\* Taking the first of different tenants leaves the others.
LEMMA HeadAndTail ==
    ASSUME NEW ts \in Seq(Tenants), ts # <<>>, Distinct(ts)
    PROVE  /\ Head(ts) \in Tenants
           /\ Tail(ts) \in Seq(Tenants)
           /\ Distinct(Tail(ts))
           /\ Range(ts) = {Head(ts)} \cup Range(Tail(ts))
           /\ Head(ts) \notin Range(Tail(ts))
<1>1. Len(ts) \in Nat \ {0} /\ Head(ts) = ts[1] /\ DOMAIN ts = 1 .. Len(ts)
  OBVIOUS
<1>2. /\ Tail(ts) \in Seq(Tenants) /\ DOMAIN Tail(ts) = 1 .. Len(ts) - 1
      /\ \A i \in 1 .. Len(ts) - 1 : Tail(ts)[i] = ts[i + 1]
  BY <1>1
<1>3. Distinct(Tail(ts))
  BY <1>1, <1>2 DEF Distinct
<1>4. Head(ts) \notin Range(Tail(ts))
  BY <1>1, <1>2 DEF Distinct, Range
<1>5. Range(ts) = {Head(ts)} \cup Range(Tail(ts))
  <2>1. Range(ts) \subseteq {Head(ts)} \cup Range(Tail(ts))
    <3>1. SUFFICES ASSUME NEW i \in 1 .. Len(ts), i # 1 PROVE ts[i] \in Range(Tail(ts))
      BY <1>1 DEF Range
    <3>2. i - 1 \in 1 .. Len(ts) - 1 /\ Tail(ts)[i - 1] = ts[(i - 1) + 1] /\ (i - 1) + 1 = i
      BY <1>1, <1>2, <3>1
    <3>3. QED
      BY <1>2, <3>2 DEF Range
  <2>2. Range(Tail(ts)) \subseteq Range(ts) /\ Head(ts) \in Range(ts)
    BY <1>1, <1>2 DEF Range
  <2>3. QED
    BY <2>1, <2>2
<1>6. QED
  BY <1>1, <1>2, <1>3, <1>4, <1>5

\* Two sequences without a common element, one after the other.
LEMMA Concatenated ==
    ASSUME NEW a \in Seq(Row), NEW b \in Seq(Row), Distinct(a), Distinct(b),
           Range(a) \cap Range(b) = {}
    PROVE  /\ a \o b \in Seq(Row)
           /\ Distinct(a \o b)
           /\ Range(a \o b) = Range(a) \cup Range(b)
<1>1. /\ a \o b \in Seq(Row) /\ DOMAIN (a \o b) = 1 .. Len(a) + Len(b)
      /\ Len(a) \in Nat /\ Len(b) \in Nat
      /\ DOMAIN a = 1 .. Len(a) /\ DOMAIN b = 1 .. Len(b)
  OBVIOUS
<1>2. \A i \in 1 .. Len(a) : (a \o b)[i] = a[i]
  OBVIOUS
<1>3. \A i \in 1 .. Len(b) : (a \o b)[Len(a) + i] = b[i]
  BY <1>1
<1>4. \A i \in DOMAIN (a \o b) :
          \/ i \in DOMAIN a /\ (a \o b)[i] = a[i]
          \/ i - Len(a) \in DOMAIN b /\ (a \o b)[i] = b[i - Len(a)]
  BY <1>1, <1>2
<1>5. Range(a \o b) = Range(a) \cup Range(b)
  <2>1. Range(a \o b) \subseteq Range(a) \cup Range(b)
    BY <1>4 DEF Range
  <2>2. Range(a) \subseteq Range(a \o b)
    BY <1>1, <1>2 DEF Range
  <2>3. Range(b) \subseteq Range(a \o b)
    <3>1. SUFFICES ASSUME NEW i \in 1 .. Len(b) PROVE b[i] \in Range(a \o b)
      BY <1>1 DEF Range
    <3>2. Len(a) + i \in DOMAIN (a \o b) /\ (a \o b)[Len(a) + i] = b[i]
      BY <1>1, <1>3
    <3>3. QED
      BY <3>2 DEF Range
  <2>4. QED
    BY <2>1, <2>2, <2>3
<1>6. Distinct(a \o b)
  <2>1. SUFFICES ASSUME NEW i \in DOMAIN (a \o b), NEW j \in DOMAIN (a \o b), i # j
                 PROVE  (a \o b)[i] # (a \o b)[j]
    BY DEF Distinct
  <2>2. \A x \in DOMAIN a, y \in DOMAIN b : a[x] # b[y]
    BY DEF Range
  <2>3. i \in Int /\ j \in Int
    BY <1>1
  <2>4. i - Len(a) # j - Len(a)
    BY <1>1, <2>1, <2>3
  <2>5. CASE i \in DOMAIN a /\ (a \o b)[i] = a[i]
    BY <1>4, <2>1, <2>2, <2>5 DEF Distinct
  <2>6. CASE i - Len(a) \in DOMAIN b /\ (a \o b)[i] = b[i - Len(a)]
    BY <1>4, <2>1, <2>2, <2>4, <2>6 DEF Distinct
  <2>7. QED
    BY <1>4, <2>5, <2>6
<1>7. QED
  BY <1>1, <1>5, <1>6

\* The orders of the next tenant are added to those read.
LEMMA ReadTenantInv ==
    ASSUME ListingInv, ReadTenant
    PROVE  ListingInv'
<1> USE DEF ListingInv
<1>1. /\ reader.step = "reading" /\ reader.left # <<>>
      /\ UNCHANGED <<orders, products, ready, created, clock, answer, faults>>
  BY DEF ReadTenant, tables
<1>2. PICK q \in Ordered(OrdersUnder(Head(reader.left))) :
          reader' = [reader EXCEPT !.rows = reader.rows \o q, !.left = Tail(reader.left)]
  BY DEF ReadTenant
<1>3. PICK t, rest : t = Head(reader.left) /\ rest = Tail(reader.left)
  OBVIOUS
<1>4. reader.left \in Seq(Tenants) /\ reader.rows \in Seq(Row)
  BY DEF TypeOK, Reader
<1>5. /\ t \in Tenants /\ rest \in Seq(Tenants) /\ Distinct(rest)
      /\ Range(reader.left) = {t} \cup Range(rest) /\ t \notin Range(rest)
  <2>1. Distinct(reader.left)
    BY <1>1 DEF Reading
  <2>2. QED
    BY <1>1, <1>3, <1>4, <2>1, HeadAndTail
<1>6. OrdersUnder(t) \in SUBSET Row
  BY <1>5, RowsUnder
<1>7. q \in Seq(Row) /\ Range(q) = OrdersUnder(t) /\ Distinct(q)
  <2>1. q \in Seq(Row) /\ Range(q) = OrdersUnder(t) /\ Descending(q)
    BY <1>2, <1>3, <1>6, OrderedRows
  <2>2. QED
    BY <2>1 DEF Descending, Distinct
<1>8. Range(reader.rows) \cap Range(q) = {}
  <2>1. SUFFICES ASSUME NEW i \in DOMAIN reader.rows, reader.rows[i] \in OrdersUnder(t) PROVE FALSE
    BY <1>7 DEF Range
  <2>2. PICK s \in Tenants \ Range(reader.left) : reader.rows[i] \in OrdersUnder(s)
    BY <1>1 DEF Reading
  <2>3. s # t
    BY <1>5, <2>2
  <2>4. reader.rows[i].tenantCode = s /\ reader.rows[i].tenantCode = t
    BY <1>5, <2>1, <2>2, RowsUnder
  <2>5. QED
    BY <2>3, <2>4
<1>9. PICK all : all = reader.rows \o q
  OBVIOUS
<1>10. all \in Seq(Row) /\ Distinct(all) /\ Range(all) = Range(reader.rows) \cup OrdersUnder(t)
  <2>1. Distinct(reader.rows)
    BY <1>1 DEF Reading
  <2>2. QED
    BY <1>4, <1>7, <1>8, <1>9, <2>1, Concatenated
<1>11. /\ reader'.step = "reading" /\ reader'.kind = reader.kind /\ reader'.page = reader.page
       /\ reader'.size = reader.size /\ reader'.left = rest /\ reader'.rows = all
       /\ reader'.base = reader.base /\ reader'.seen = reader.seen
       /\ reader'.undisturbed = reader.undisturbed
  BY <1>1, <1>2, <1>3, <1>9 DEF TypeOK, Reader
<1>12. TypeOK'
  <2>1. reader' = [reader EXCEPT !.rows = all, !.left = rest]
    BY <1>2, <1>3, <1>9
  <2>2. reader' \in Reader
    BY <1>5, <1>10, <2>1 DEF TypeOK, Reader
  <2>3. QED
    BY <1>1, <2>2 DEF TypeOK
<1>13. Stored'
  BY <1>1 DEF Stored
<1>14. Reading'
  <2>1. reader.kind = "orders"
    BY <1>1 DEF Reading
  <2>2. ASSUME NEW i \in DOMAIN all
        PROVE  \E s \in Tenants \ Range(rest) : all[i] \in OrdersUnder(s)
    <3>1. all[i] \in Range(all)
      BY DEF Range
    <3>2. CASE all[i] \in OrdersUnder(t)
      BY <1>5, <3>2
    <3>3. CASE all[i] \in Range(reader.rows)
      <4>1. PICK j \in DOMAIN reader.rows : all[i] = reader.rows[j]
        BY <3>3 DEF Range
      <4>2. PICK s \in Tenants \ Range(reader.left) : reader.rows[j] \in OrdersUnder(s)
        BY <1>1 DEF Reading
      <4>3. QED
        BY <1>5, <4>1, <4>2
    <3>4. QED
      BY <1>10, <3>1, <3>2, <3>3
  <2>3. ASSUME reader.undisturbed
        PROVE  Range(rest) \subseteq ready /\ Range(all) \subseteq Listed("orders")
    <3>1. Range(reader.left) \subseteq ready /\ Range(reader.rows) \subseteq Listed("orders")
      BY <1>1, <2>3 DEF Reading
    <3>2. OrdersUnder(t) \subseteq Listed("orders")
      BY <1>5, <3>1 DEF Listed, OrdersUnder
    <3>3. QED
      BY <1>5, <1>10, <3>1, <3>2
  <2>4. Listed("orders")' = Listed("orders")
    BY <1>1 DEF Listed, OrdersUnder
  <2>5. Range(reader'.left) = Range(rest) /\ Range(reader'.rows) = Range(all)
    BY <1>11
  <2>6. Distinct(reader'.left) /\ Distinct(reader'.rows)
    BY <1>5, <1>10, <1>11
  <2>7. \A i \in DOMAIN reader'.rows :
            \E s \in Tenants \ Range(reader'.left) : reader'.rows[i] \in OrdersUnder(s)'
    BY <1>1, <1>11, <2>2 DEF OrdersUnder
  <2>8. reader'.undisturbed =>
            /\ Range(reader'.left) \subseteq ready'
            /\ Range(reader'.rows) \subseteq Listed("orders")'
    BY <1>1, <1>11, <2>3, <2>4
  <2>9. QED
    BY <1>11, <2>1, <2>6, <2>7, <2>8 DEF Reading, Distinct, Range, OrdersUnder
<1>15. Fetched' /\ PageFitsTotal' /\ NothingSkipped'
  BY <1>11 DEF Fetched, PageFitsTotal, NothingSkipped, Replied
<1>16. Ahead'
  <2>1. NextPage' = NextPage
    BY <1>1, <1>11 DEF NextPage
  <2>2. Covered' = Covered
    <3>1. Covered = Range(reader.rows) \cup UNION {OrdersUnder(s) : s \in {t} \cup Range(rest)}
      BY <1>1, <1>5 DEF Covered
    <3>2. UNION {OrdersUnder(s) : s \in {t} \cup Range(rest)}
             = OrdersUnder(t) \cup UNION {OrdersUnder(s) : s \in Range(rest)}
      OBVIOUS
    <3>3. Covered' = Range(all) \cup UNION {OrdersUnder(s) : s \in Range(rest)}
      BY <1>1, <1>11 DEF Covered, Range, OrdersUnder
    <3>4. QED
      BY <1>10, <3>1, <3>2, <3>3
  <2>3. Ties' = Ties
    BY <1>1 DEF Ties
  <2>4. QED
    BY <1>1, <1>11, <1>12, <2>1, <2>2, <2>3, StillAhead DEF Paging
<1>17. QED
  BY <1>12, <1>13, <1>14, <1>15, <1>16

\* A tenant that is passed over excuses the rows that are missed.
LEMMA ReadTenantFailsInv ==
    ASSUME ListingInv, ReadTenantFails
    PROVE  ListingInv'
<1> USE DEF ListingInv
<1>1. /\ reader.step = "reading" /\ reader.left # <<>>
      /\ faults' \in 0 .. MaxFaults
      /\ UNCHANGED <<orders, products, ready, created, clock, answer>>
  BY ParameterAssumption DEF ReadTenantFails, Fault, tables, TypeOK
<1>2. PICK rest : rest = Tail(reader.left)
  OBVIOUS
<1>3. reader' = [reader EXCEPT !.left = rest, !.undisturbed = FALSE]
  BY <1>2 DEF ReadTenantFails
<1>4. reader.left \in Seq(Tenants)
  BY DEF TypeOK, Reader
<1>5. rest \in Seq(Tenants) /\ Distinct(rest) /\ Range(rest) \subseteq Range(reader.left)
  <2>1. Distinct(reader.left)
    BY <1>1 DEF Reading
  <2>2. QED
    BY <1>1, <1>2, <1>4, <2>1, HeadAndTail
<1>6. /\ reader'.step = "reading" /\ reader'.kind = reader.kind /\ reader'.left = rest
      /\ reader'.rows = reader.rows /\ reader'.undisturbed = FALSE
  BY <1>1, <1>3 DEF TypeOK, Reader
<1>7. TypeOK'
  <2>1. reader' \in Reader
    BY <1>3, <1>5 DEF TypeOK, Reader
  <2>2. QED
    BY <1>1, <2>1 DEF TypeOK
<1>8. Stored'
  BY <1>1 DEF Stored
<1>9. Reading'
  <2>1. Distinct(reader'.left) /\ Distinct(reader'.rows)
    BY <1>1, <1>5, <1>6 DEF Reading
  <2>2. \A i \in DOMAIN reader'.rows :
            \E s \in Tenants \ Range(reader'.left) : reader'.rows[i] \in OrdersUnder(s)'
    BY <1>1, <1>5, <1>6 DEF Reading, OrdersUnder
  <2>3. reader'.kind = "orders"
    BY <1>1, <1>6 DEF Reading
  <2>4. QED
    BY <1>6, <2>1, <2>2, <2>3 DEF Reading, Distinct, Range, OrdersUnder
<1>10. Fetched' /\ Ahead' /\ PageFitsTotal' /\ NothingSkipped'
  BY <1>6 DEF Fetched, Ahead, PageFitsTotal, NothingSkipped, Replied
<1>11. QED
  BY <1>7, <1>8, <1>9, <1>10

\* What an answer leaves behind, whatever its rows are.
LEMMA Answering ==
    ASSUME ListingInv, NEW total \in Nat, NEW data \in Seq(Row),
           Answered(reader.page, total, data)
    PROVE  /\ TypeOK' /\ Stored' /\ Reading' /\ Fetched'
           /\ reader'.step \in {"turn", "finished"}
           /\ reader'.kind = reader.kind /\ reader'.page = reader.page
           /\ reader'.size = reader.size /\ reader'.steady = reader.steady
           /\ reader'.undisturbed => (reader.kind = "orders" \/ reader.steady)
           /\ answer'.data = data /\ answer'.total = total
           /\ answer'.pages = TotalPages(total, reader.size)
           /\ answer'.page = AtMost(answer'.pages, reader.page)
           /\ answer'.page \in 1 .. answer'.pages
<1> USE DEF ListingInv
<1>1. PICK pages, shown : /\ pages = TotalPages(total, reader.size)
                          /\ shown = AtMost(pages, reader.page)
  OBVIOUS
<1>2. reader.page \in Nat \ {0} /\ reader.size \in Nat \ {0}
  BY PageAndSize
<1>3. pages \in Nat \ {0}
  BY <1>1, <1>2, PagesHold
<1>4. shown \in 1 .. pages
  BY <1>1, <1>2, <1>3 DEF AtMost
<1>5. /\ answer' = [page |-> shown, total |-> total, pages |-> pages, data |-> data]
      /\ UNCHANGED <<orders, products, ready, created, clock, faults>>
  BY <1>1 DEF Answered, tables
<1>6. PICK step, seen, calm :
          /\ step = IF shown = pages THEN "finished" ELSE "turn"
          /\ seen = reader.seen \cup IdsOf(Range(data))
          /\ calm = (reader.undisturbed /\ (reader.kind = "orders" \/ reader.steady))
  OBVIOUS
<1>7. reader' = [reader EXCEPT !.step = step, !.seen = seen, !.undisturbed = calm]
  BY <1>1, <1>6 DEF Answered
<1>8. /\ step \in {"turn", "finished"}
      /\ calm \in BOOLEAN
      /\ seen \in SUBSET (1 .. MaxRows)
  <2>1. reader.seen \in SUBSET (1 .. MaxRows)
    BY DEF TypeOK, Reader
  <2>2. IdsOf(Range(data)) \in SUBSET (1 .. MaxRows)
    <3>1. \A i \in DOMAIN data : data[i] \in Row
      OBVIOUS
    <3>2. QED
      BY <3>1 DEF IdsOf, Range, Row
  <2>3. QED
    BY <1>6, <2>1, <2>2
<1>9. /\ reader'.step = step /\ reader'.kind = reader.kind /\ reader'.page = reader.page
      /\ reader'.size = reader.size /\ reader'.steady = reader.steady
      /\ reader'.undisturbed = calm
  BY <1>7 DEF TypeOK, Reader
<1>10. TypeOK'
  <2>1. reader' \in Reader
    BY <1>7, <1>8 DEF TypeOK, Reader
  <2>2. answer' \in Answer
    BY <1>3, <1>4, <1>5 DEF Answer
  <2>3. QED
    BY <1>5, <2>1, <2>2 DEF TypeOK
<1>11. Stored' /\ Reading' /\ Fetched'
  BY <1>5, <1>8, <1>9 DEF Stored, Reading, Fetched
<1>12. QED
  BY <1>1, <1>4, <1>5, <1>6, <1>8, <1>9, <1>10, <1>11

\* The page of orders is cut out of all that were read.
LEMMA AnswerOrdersInv ==
    ASSUME ListingInv, AnswerOrders
    PROVE  ListingInv'
<1> USE DEF ListingInv
<1>1. PICK c : c = AtMost(TotalPages(Len(reader.rows), reader.size), reader.page)
  OBVIOUS
<1>2. reader.step = "reading" /\ reader.left = <<>>
  BY DEF AnswerOrders
<1>3. PICK q \in NewestFirst(reader.rows) :
          Answered(reader.page, Len(reader.rows), Slice(q, (c - 1) * reader.size, reader.size))
  BY <1>1 DEF AnswerOrders
<1>4. reader.kind = "orders" /\ Distinct(reader.rows) /\ reader.rows \in Seq(Row)
  BY <1>2 DEF Reading, TypeOK, Reader
<1>5. PICK rows : rows = Range(reader.rows)
  OBVIOUS
<1>6. q \in Ordered(rows) /\ rows \in SUBSET Row /\ Cardinality(rows) = Len(reader.rows)
  BY <1>3, <1>4, <1>5, Sorting
<1>7. Covered = rows
  BY <1>2, <1>5 DEF Covered, Range
<1>8. reader.page \in Nat \ {0} /\ reader.size \in Nat \ {0} /\ Cardinality(rows) \in Nat
  BY <1>6, PageAndSize, OrderedRows
<1>9. PICK data, total, size :
          data = Cut(q, c, size) /\ total = Cardinality(rows) /\ size = reader.size
  OBVIOUS
<1>10. TotalPages(total, size) \in Nat \ {0}
  BY <1>8, <1>9, PagesHold
<1>11. c \in Nat \ {0} /\ c <= TotalPages(total, size)
  BY <1>1, <1>6, <1>8, <1>9, <1>10 DEF AtMost
<1>12. /\ data \in Seq(Row) /\ Descending(data) /\ Range(data) \subseteq rows
       /\ Len(data) = AtMost(size, total - (c - 1) * size)
  <2>1. /\ Cut(q, c, size) \in Seq(Row) /\ Descending(Cut(q, c, size))
        /\ Range(Cut(q, c, size)) \subseteq rows
        /\ Len(Cut(q, c, size)) = PageLength(c, Cardinality(rows), size)
    <3>1. size \in Nat \ {0} /\ c \in Nat \ {0}
      BY <1>8, <1>9, <1>11
    <3>2. rows \in SUBSET Row /\ q \in Ordered(rows)
      BY <1>6
    <3>3. QED
      BY ONLY <3>1, <3>2, Pages
  <2>2. QED
    BY <1>9, <1>10, <1>11, <2>1 DEF PageLength
<1>13. Answered(reader.page, total, data)
  BY <1>3, <1>6, <1>9 DEF Cut
<1>14. /\ TypeOK' /\ Stored' /\ Reading' /\ Fetched'
       /\ reader'.kind = "orders" /\ reader'.size = size
       /\ answer'.data = data /\ answer'.total = total
       /\ answer'.page = AtMost(answer'.pages, reader.page)
       /\ answer'.pages = TotalPages(total, size)
       /\ answer'.page \in 1 .. answer'.pages
  BY <1>4, <1>8, <1>9, <1>12, <1>13, Answering
<1>15. PageFitsTotal'
  <2>1. answer'.page = c
    BY <1>1, <1>6, <1>9, <1>14
  <2>2. Len(answer'.data) = Room'
    BY <1>12, <1>14, <2>1 DEF Room
  <2>3. ASSUME NEW i \in DOMAIN data, NEW j \in DOMAIN data, i < j
        PROVE  data[i].createdAt >= data[j].createdAt /\ Apart(data[i], data[j])
    <3>1. data[i].createdAt >= data[j].createdAt /\ data[i] # data[j]
      BY <1>12, <2>3 DEF Descending
    <3>2. \A k \in DOMAIN data : \E t \in Tenants : data[k] \in OrdersUnder(t)
      <4>1. \A k \in DOMAIN reader.rows : \E t \in Tenants : reader.rows[k] \in OrdersUnder(t)
        BY <1>2 DEF Reading
      <4>2. QED
        BY <1>5, <1>12, <4>1 DEF Range
    <3>3. PICK s \in Tenants : data[i] \in OrdersUnder(s)
      BY <3>2
    <3>4. PICK t \in Tenants : data[j] \in OrdersUnder(t)
      BY <3>2
    <3>5. QED
      BY <3>1, <3>3, <3>4, SameOrder
  <2>4. QED
    BY <1>14, <2>2, <2>3 DEF PageFitsTotal, Apart
<1>16. Ahead' /\ NothingSkipped'
  <2>1. reader.undisturbed => Covered \subseteq Listed(reader.kind)
    BY <1>2, <1>4, <1>5, <1>7 DEF Reading
  <2>2. q \in Ordered(Covered) /\ Paging(reader.step) /\ reader.step # "turn"
    BY <1>2, <1>6, <1>7 DEF Paging
  <2>3. c = AtMost(TotalPages(Cardinality(Covered), reader.size), reader.page)
    BY <1>1, <1>6, <1>7
  <2>4. Answered(reader.page, Cardinality(Covered), Cut(q, c, reader.size))
    BY <1>7, <1>9, <1>13
  <2>5. QED
    BY <1>11, <2>1, <2>2, <2>3, <2>4, AnswerAhead
<1>17. QED
  BY <1>14, <1>15, <1>16

\* The number of products that count returns is current.
LEMMA CountProductsInv ==
    ASSUME ListingInv, CountProducts
    PROVE  ListingInv'
<1> USE DEF ListingInv
<1>1. PICK total, queries :
          total = Cardinality(products) /\ queries = reader.queries \ {"count"}
  OBVIOUS
<1>2. /\ reader.step = "asked" /\ reader.kind = "products"
      /\ reader' = [reader EXCEPT !.total = total, !.queries = queries]
      /\ UNCHANGED <<orders, products, ready, created, clock, answer, faults>>
  BY <1>1 DEF CountProducts, tables
<1>3. total \in Nat /\ queries \in SUBSET {"count", "find"}
  <2>1. products \in SUBSET Row
    BY DEF TypeOK
  <2>2. IsFiniteSet(products)
    BY <2>1, FiniteRows, FS_Subset
  <2>3. reader.queries \in SUBSET {"count", "find"}
    BY DEF TypeOK, Reader
  <2>4. QED
    BY <1>1, <2>2, <2>3, FS_CardinalityType
<1>4. /\ reader'.step = "asked" /\ reader'.kind = "products" /\ reader'.page = reader.page
      /\ reader'.size = reader.size /\ reader'.rows = reader.rows
      /\ reader'.total = total /\ reader'.queries = queries
      /\ reader'.base = reader.base /\ reader'.seen = reader.seen
      /\ reader'.undisturbed = reader.undisturbed /\ reader'.steady = reader.steady
  BY <1>2 DEF TypeOK, Reader
<1>5. TypeOK'
  <2>1. reader' \in Reader
    BY <1>2, <1>3 DEF TypeOK, Reader
  <2>2. QED
    BY <1>2, <2>1 DEF TypeOK
<1>6. Stored' /\ Reading' /\ PageFitsTotal' /\ NothingSkipped'
  BY <1>2, <1>4 DEF Stored, Reading, PageFitsTotal, NothingSkipped, Replied
<1>7. Fetched'
  <2>1. "find" \notin reader'.queries => "find" \notin reader.queries
    BY <1>1, <1>4
  <2>2. Ordered(products)' = Ordered(products)
    BY <1>2 DEF Ordered, Orderings
  <2>3. QED
    BY <1>1, <1>2, <1>4, <2>1, <2>2 DEF Fetched, Descending, DistinctIds, Slice
<1>8. Ahead'
  <2>1. NextPage' = NextPage
    BY <1>2, <1>4 DEF NextPage
  <2>2. Covered' = Covered
    BY <1>2, <1>4 DEF Covered, Listed, OrdersUnder
  <2>3. Ties' = Ties
    BY <1>2 DEF Ties
  <2>4. QED
    BY <1>2, <1>4, <1>5, <2>1, <2>2, <2>3, StillAhead DEF Paging
<1>9. QED
  BY <1>5, <1>6, <1>7, <1>8

\* The rows that findMany returns are a page of the products there are.
LEMMA FindProductsInv ==
    ASSUME ListingInv, FindProducts
    PROVE  ListingInv'
<1> USE DEF ListingInv
<1>1. PICK q \in Ordered(products) :
          reader' = [reader EXCEPT
              !.rows = Slice(q, (reader.page - 1) * reader.size, reader.size),
              !.queries = reader.queries \ {"find"}]
  BY DEF FindProducts
<1>2. PICK rows, queries :
          rows = Cut(q, reader.page, reader.size) /\ queries = reader.queries \ {"find"}
  OBVIOUS
<1>3. /\ reader.step = "asked" /\ reader.kind = "products"
      /\ UNCHANGED <<orders, products, ready, created, clock, answer, faults>>
  BY DEF FindProducts, tables
<1>4. reader' = [reader EXCEPT !.rows = rows, !.queries = queries]
  BY <1>1, <1>2 DEF Cut
<1>5. rows \in Seq(Row) /\ Descending(rows) /\ DistinctIds(rows)
  <2>1. products \in SUBSET Row
    BY DEF TypeOK
  <2>2. rows \in Seq(Row) /\ Descending(rows) /\ Range(rows) \subseteq products
    BY <1>2, <2>1, PageAndSize, Pages
  <2>3. ASSUME NEW i \in DOMAIN rows, NEW j \in DOMAIN rows, i # j
        PROVE  rows[i].id # rows[j].id
    <3>1. rows[i] # rows[j]
      BY <2>2, <2>3 DEF Descending
    <3>2. rows[i] \in products /\ rows[j] \in products
      BY <2>2 DEF Range
    <3>3. QED
      BY <3>1, <3>2 DEF Stored
  <2>4. QED
    BY <2>2, <2>3 DEF DistinctIds
<1>6. queries \in SUBSET {"count", "find"}
  BY <1>2 DEF TypeOK, Reader
<1>7. /\ reader'.step = "asked" /\ reader'.kind = "products" /\ reader'.page = reader.page
      /\ reader'.size = reader.size /\ reader'.rows = rows
      /\ reader'.total = reader.total /\ reader'.queries = queries
      /\ reader'.base = reader.base /\ reader'.seen = reader.seen
      /\ reader'.undisturbed = reader.undisturbed /\ reader'.steady = reader.steady
  BY <1>3, <1>4 DEF TypeOK, Reader
<1>8. TypeOK'
  <2>1. reader' \in Reader
    BY <1>4, <1>5, <1>6 DEF TypeOK, Reader
  <2>2. QED
    BY <1>3, <2>1 DEF TypeOK
<1>9. Stored' /\ Reading' /\ PageFitsTotal' /\ NothingSkipped'
  BY <1>3, <1>7 DEF Stored, Reading, PageFitsTotal, NothingSkipped, Replied
<1>10. Fetched'
  <2>1. "count" \notin reader'.queries => "count" \notin reader.queries
    BY <1>2, <1>7
  <2>2. Descending(reader'.rows) /\ DistinctIds(reader'.rows)
    BY <1>5, <1>7
  <2>3. \E p \in Ordered(products)' :
            reader'.rows = Slice(p, (reader'.page - 1) * reader'.size, reader'.size)
    <3>1. Ordered(products)' = Ordered(products)
      BY <1>3 DEF Ordered, Orderings
    <3>2. reader'.rows = Slice(q, (reader'.page - 1) * reader'.size, reader'.size)
      BY <1>2, <1>7 DEF Cut
    <3>3. QED
      BY <3>1, <3>2
  <2>4. QED
    BY <1>3, <1>7, <2>1, <2>2, <2>3 DEF Fetched, Descending, DistinctIds, Slice
<1>11. Ahead'
  <2>1. NextPage' = NextPage
    BY <1>3, <1>7 DEF NextPage
  <2>2. Covered' = Covered
    BY <1>3, <1>7 DEF Covered, Listed, OrdersUnder
  <2>3. Ties' = Ties
    BY <1>3 DEF Ties
  <2>4. QED
    BY <1>3, <1>7, <1>8, <2>1, <2>2, <2>3, StillAhead DEF Paging
<1>12. QED
  BY <1>8, <1>9, <1>10, <1>11

\* The answer is put together from both queries.
LEMMA AnswerProductsInv ==
    ASSUME ListingInv, AnswerProducts
    PROVE  ListingInv'
<1> USE DEF ListingInv
<1>1. /\ reader.step = "asked" /\ reader.kind = "products" /\ reader.queries = {}
      /\ Answered(reader.page, reader.total, reader.rows)
  BY DEF AnswerProducts
<1>2. reader.total \in Nat /\ reader.rows \in Seq(Row) /\ products \in SUBSET Row
  BY DEF TypeOK, Reader
<1>3. reader.page \in Nat \ {0} /\ reader.size \in Nat \ {0}
  BY PageAndSize
<1>4. /\ TypeOK' /\ Stored' /\ Reading' /\ Fetched'
      /\ reader'.kind = "products" /\ reader'.page = reader.page
      /\ reader'.size = reader.size /\ reader'.steady = reader.steady
      /\ reader'.undisturbed => reader.steady
      /\ answer'.data = reader.rows /\ answer'.total = reader.total
      /\ answer'.pages = TotalPages(reader.total, reader.size)
      /\ answer'.page = AtMost(answer'.pages, reader.page)
      /\ answer'.page \in 1 .. answer'.pages
  BY <1>1, <1>2, Answering
<1>5. Descending(reader.rows) /\ DistinctIds(reader.rows)
  BY <1>1 DEF Fetched
<1>6. CASE reader.steady
  <2>1. PICK q \in Ordered(products) : reader.rows = Cut(q, reader.page, reader.size)
    BY <1>1, <1>6 DEF Fetched, Cut
  <2>2. reader.total = Cardinality(products)
    BY <1>1, <1>6 DEF Fetched
  <2>3. Len(reader.rows) =
            IF reader.page > answer'.pages THEN 0
            ELSE AtMost(reader.size, reader.total - (reader.page - 1) * reader.size)
    <3>1. Len(Cut(q, reader.page, reader.size))
              = PageLength(reader.page, Cardinality(products), reader.size)
      BY ONLY <1>2, <1>3, <2>1, Pages
    <3>2. QED
      BY <1>4, <2>1, <2>2, <3>1 DEF PageLength
  <2>4. PageFitsTotal'
    <3>1. reader.page <= answer'.pages => answer'.page = reader.page
      <4>1. answer'.pages \in Nat
        BY <1>2, <1>3, <1>4, PagesHold
      <4>2. QED
        BY <1>3, <1>4, <4>1 DEF AtMost
    <3>2. Len(answer'.data) = IF reader.page > answer'.pages THEN 0 ELSE Room'
      <4>1. answer'.pages \in Nat
        BY <1>2, <1>3, <1>4, PagesHold
      <4>2. CASE reader.page > answer'.pages
        BY <1>4, <2>3, <4>2
      <4>3. CASE ~(reader.page > answer'.pages)
        <5>1. answer'.page = reader.page
          BY <1>3, <3>1, <4>1, <4>3
        <5>2. QED
          BY <1>4, <2>3, <4>3, <5>1 DEF Room
      <4>4. QED
        BY <4>2, <4>3
    <3>3. QED
      BY <1>2, <1>4, <1>5, <3>2 DEF PageFitsTotal, Descending, DistinctIds, Apart
  <2>5. Ahead' /\ NothingSkipped'
    <3>1. Covered = products /\ Covered \subseteq Listed(reader.kind)
      BY <1>1 DEF Covered, Listed, OrdersUnder
    <3>2. Paging(reader.step) /\ reader.step # "turn"
      BY <1>1 DEF Paging
    <3>3. q \in Ordered(Covered)
      BY <3>1
    <3>4. Answered(reader.page, Cardinality(Covered), Cut(q, reader.page, reader.size))
      BY <1>1, <2>1, <2>2, <3>1
    <3>5. QED
      BY <1>3, <3>1, <3>2, <3>3, <3>4, AnswerAhead
  <2>6. QED
    BY <1>4, <2>4, <2>5
<1>7. CASE ~reader.steady
  <2>1. Ahead' /\ NothingSkipped'
    BY <1>4, <1>7 DEF Ahead, NothingSkipped
  <2>2. PageFitsTotal'
    BY <1>2, <1>4, <1>5, <1>7 DEF PageFitsTotal, Descending, DistinctIds, Apart
  <2>3. QED
    BY <1>4, <2>1, <2>2
<1>8. QED
  BY <1>6, <1>7

\* Every step keeps the invariant.
LEMMA StepInv == ListingInv /\ [Next]_vars => ListingInv'
<1> SUFFICES ASSUME ListingInv, [Next]_vars PROVE ListingInv'
  OBVIOUS
<1>1. ASSUME NEW t \in Tenants, NEW now \in Now, CreateOrder(t, now) PROVE ListingInv'
  BY <1>1, CreateOrderInv
<1>2. ASSUME NEW t \in Tenants, TenantReady(t) PROVE ListingInv'
  BY <1>2, TenantReadyInv
<1>3. ASSUME NEW t \in Tenants, TenantRemoved(t) PROVE ListingInv'
  BY <1>3, TenantRemovedInv
<1>4. ASSUME NEW now \in Now, CreateProduct(now) PROVE ListingInv'
  BY <1>4, CreateProductInv
<1>5. ASSUME NEW r \in products, RemoveProduct(r) PROVE ListingInv'
  BY <1>5, RemoveProductInv
<1>6. ASSUME NEW kind \in {"orders", "products"}, NEW page \in RawPages, NEW size \in RawSizes,
             Ask(kind, page, size)
      PROVE  ListingInv'
  BY <1>6, AskInv
<1>7. CASE FindTenants
  BY <1>7, FindTenantsInv
<1>8. CASE ReadTenant
  BY <1>8, ReadTenantInv
<1>9. CASE ReadTenantFails
  BY <1>9, ReadTenantFailsInv
<1>10. CASE AnswerOrders
  BY <1>10, AnswerOrdersInv
<1>11. CASE CountProducts
  BY <1>11, CountProductsInv
<1>12. CASE FindProducts
  BY <1>12, FindProductsInv
<1>13. CASE AnswerProducts
  BY <1>13, AnswerProductsInv
<1>14. CASE TurnPage
  BY <1>14, TurnPageInv
<1>15. CASE UNCHANGED vars
  <2>1. UNCHANGED <<orders, products, ready, created, clock, reader, answer, faults>>
    BY <1>15 DEF vars, tables
  <2>2. TypeOK' /\ Stored' /\ PageFitsTotal'
    BY <2>1 DEF ListingInv, TypeOK, Stored, PageFitsTotal, Replied, Room, Apart
  <2>3. Reading' /\ Fetched'
    <3>1. Listed("orders")' = Listed("orders") /\ Ordered(products)' = Ordered(products)
      BY <2>1 DEF Listed, OrdersUnder, Ordered, Orderings
    <3>2. Reading'
      BY <2>1, <3>1 DEF ListingInv, Reading, Distinct, Range, OrdersUnder
    <3>3. Fetched'
      BY <2>1, <3>1 DEF ListingInv, Fetched, Descending, DistinctIds, Slice
    <3>4. QED
      BY <3>2, <3>3
  <2>4. Covered' = Covered /\ NextPage' = NextPage /\ Ties' = Ties
    BY <2>1 DEF Covered, NextPage, Ties, Listed, OrdersUnder
  <2>5. Ahead' /\ NothingSkipped'
    BY <2>1, <2>4 DEF ListingInv, Ahead, NothingSkipped, Newer
  <2>6. QED
    BY <2>2, <2>3, <2>5 DEF ListingInv
<1>16. QED
  BY <1>1, <1>2, <1>3, <1>4, <1>5, <1>6, <1>7, <1>8, <1>9, <1>10, <1>11, <1>12,
     <1>13, <1>14, <1>15 DEF Next

-----------------------------------------------------------------------------
(* The theorems.                                                            *)

\* The invariant holds in every reachable state of the two findAll methods and
\* the client that pages through them.
THEOREM ListingInvariant == Spec => []ListingInv
  BY InitInv, StepInv, PTL DEF Spec

\* The state has its type: the page and the size a controller makes of any query
\* parameter are usable, and an answer holds rows.
THEOREM ListingTyped == Spec => []TypeOK
<1>1. ListingInv => TypeOK
  BY DEF ListingInv
<1>2. QED
  BY <1>1, ListingInvariant, PTL

\* Every answer of OrderService.findAll and ProductService.findAll is in order,
\* repeats no product, an order only under another code of its database, and is as
\* long as its own page and total say.
THEOREM PagesFit == Spec => []PageFitsTotal
<1>1. ListingInv => PageFitsTotal
  BY DEF ListingInv
<1>2. QED
  BY <1>1, ListingInvariant, PTL

\* A client that follows the pages of either findAll to the last is shown every
\* row that was there when it began, unless something excuses it.
THEOREM NoneSkipped == Spec => []NothingSkipped
<1>1. ListingInv => NothingSkipped
  BY DEF ListingInv
<1>2. QED
  BY <1>1, ListingInvariant, PTL

=============================================================================
