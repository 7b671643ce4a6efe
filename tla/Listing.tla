------------------------------ MODULE Listing -------------------------------
(***************************************************************************)
(* Reading long lists page by page.  OrderService.findAll collects the     *)
(* orders of one customer from the databases of all ready tenants, one     *)
(* after the other, sorts them and cuts out the page.  ProductService      *)
(* .findAll asks the database for the number of products and for the rows  *)
(* of the page, in two queries at once.  The controllers turn the query    *)
(* parameters into a page and a size first.                                *)
(*                                                                         *)
(* One client reads a list from some page to its end, while orders and     *)
(* products are created, products and tenants removed, and tenants become  *)
(* ready.  Rows carry the time of their creation; PostgreSQL returns rows  *)
(* of the same time, and tenants, in any order.  Codes that differ in case *)
(* name one database, which is then read once for each of them.            *)
(***************************************************************************)
EXTENDS Integers, Sequences, FiniteSets, Functions

CONSTANTS Tenants,      \* tenant codes as the users have them
          Databases,
          DbName,       \* the database a code names
          RawPages,     \* values of the query parameter page
          RawSizes,     \* values of the query parameter per_page
          NaN,          \* one that is missing or no number
          DefaultSize,  \* 10
          MaxSize,      \* 100
          MaxRows,      \* rows created altogether
          MaxFaults,
          Null

ASSUME ParameterAssumption ==
    /\ RawPages \cup RawSizes \subseteq Int \cup {NaN}
    /\ NaN \notin Int
    /\ DefaultSize \in 1 .. MaxSize
    /\ MaxSize \in Nat \ {0} /\ MaxRows \in Nat /\ MaxFaults \in Nat
    /\ IsFiniteSet(Tenants)
    /\ DbName \in [Tenants -> Databases]

VARIABLES orders,    \* the customer's orders in each database
          products,  \* the products of one tenant
          ready,     \* the tenants whose user row says isDatabaseCreated
          created,   \* rows created so far
          clock,     \* the time of the last of them
          reader,    \* the client and the request it has open
          answer,    \* the answer it holds
          faults

tables == <<orders, products, ready, created, clock>>
vars == <<tables, reader, answer, faults>>

-----------------------------------------------------------------------------
\* A row as it is answered: an order gets the code that it was read under.
Row == [id : 1 .. MaxRows, createdAt : 0 .. MaxRows, tenantCode : Tenants \cup {Null}]

\* left and queries are what the open request still has to read; base and seen, the
\* ids that were there when the client began and those it has been shown;
\* undisturbed, that nothing has happened that excuses missing one; steady, that
\* no product came or went while the request was open.
Reader ==
    [step : {"idle", "asked", "reading", "turn", "finished"},
     kind : {"orders", "products"}, page : Nat \ {0}, size : 1 .. MaxSize,
     left : Seq(Tenants), queries : SUBSET {"count", "find"},
     rows : Seq(Row), total : Nat, base : SUBSET (1 .. MaxRows), seen : SUBSET (1 .. MaxRows),
     undisturbed : BOOLEAN, steady : BOOLEAN]

Answer == [page : Nat \ {0}, total : Nat, pages : Nat \ {0}, data : Seq(Row)]

NoAnswer == [page |-> 1, total |-> 0, pages |-> 1, data |-> <<>>]

TypeOK ==
    /\ orders \in [Databases -> SUBSET Row]
    /\ products \subseteq Row
    /\ ready \subseteq Tenants
    /\ created \in 0 .. MaxRows
    /\ clock \in 0 .. MaxRows
    /\ reader \in Reader
    /\ answer \in Answer
    /\ faults \in 0 .. MaxFaults

Init ==
    /\ orders = [d \in Databases |-> {}]
    /\ products = {}
    /\ ready \in SUBSET Tenants
    /\ created = 0
    /\ clock = 0
    /\ reader = [step |-> "idle", kind |-> "orders", page |-> 1, size |-> 1,
                 left |-> <<>>, queries |-> {}, rows |-> <<>>, total |-> 0,
                 base |-> {}, seen |-> {},
                 undisturbed |-> TRUE, steady |-> TRUE]
    /\ answer = NoAnswer
    /\ faults = 0

Fault == faults < MaxFaults /\ faults' = faults + 1

-----------------------------------------------------------------------------
(* The rest of the system.                                                  *)

\* A row is created now, at a later millisecond than the last one or the same.
Now == {clock, clock + 1}

NewRow(now) == [id |-> created + 1, createdAt |-> now, tenantCode |-> Null]

Created(now) ==
    /\ created < MaxRows
    /\ created' = created + 1
    /\ clock' = now

Disturb == reader' = [reader EXCEPT !.undisturbed = FALSE, !.steady = FALSE]

CreateOrder(t, now) ==
    /\ Created(now)
    /\ orders' = [orders EXCEPT ![DbName[t]] = @ \cup {NewRow(now)}]
    /\ UNCHANGED <<products, ready, reader, answer, faults>>

CreateProduct(now) ==
    /\ Created(now)
    /\ products' = products \cup {NewRow(now)}
    /\ reader' = [reader EXCEPT !.steady = FALSE]
    /\ UNCHANGED <<orders, ready, answer, faults>>

RemoveProduct(r) ==
    /\ products' = products \ {r}
    /\ Disturb
    /\ UNCHANGED <<orders, ready, created, clock, answer, faults>>

TenantReady(t) ==
    /\ t \notin ready
    /\ ready' = ready \cup {t}
    /\ UNCHANGED <<orders, products, created, clock, reader, answer, faults>>

\* The ADMIN of the tenant is deleted; the database stays, but is not listed.
TenantRemoved(t) ==
    /\ t \in ready
    /\ ready' = ready \ {t}
    /\ Disturb
    /\ UNCHANGED <<orders, products, created, clock, answer, faults>>

-----------------------------------------------------------------------------
(* The parameters.                                                          *)

AtLeast(n, x) == IF x < n THEN n ELSE x
AtMost(n, x) == IF x > n THEN n ELSE x

\* parseInt(x) || d: a missing value, one that is no number and zero give d.
ParseOr(x, d) == IF x \in {NaN, 0} THEN d ELSE x

Page(x) == AtLeast(1, ParseOr(x, 1))

\* Mutant: zero, or a negative number, of rows per page.
SizeUnchecked(x) == AtMost(MaxSize, IF x = NaN THEN DefaultSize ELSE x)

Size(x) == AtLeast(1, AtMost(MaxSize, ParseOr(x, DefaultSize)))

\* Math.max(1, Math.ceil(total / perPage))
TotalPages(total, size) == AtLeast(1, (total + size - 1) \div size)

-----------------------------------------------------------------------------
(* The requests.                                                            *)

\* getClient(tenantCode).order.findMany, each order with the code added.
OrdersUnder(t) == {[r EXCEPT !.tenantCode = t] : r \in orders[DbName[t]]}

Listed(kind) == IF kind = "orders" THEN UNION {OrdersUnder(t) : t \in ready} ELSE products

IdsOf(rows) == {r.id : r \in rows}

Ask(kind, page, size) ==
    /\ reader.step = "idle"
    /\ reader' = [step |-> "asked", kind |-> kind, page |-> Page(page), size |-> Size(size),
                  left |-> <<>>, queries |-> {"count", "find"}, rows |-> <<>>, total |-> 0,
                  base |-> IdsOf(Listed(kind)), seen |-> {},
                  undisturbed |-> Page(page) = 1, steady |-> TRUE]
    /\ UNCHANGED <<tables, answer, faults>>

\* The client asks for the page after the one it got.
TurnPage ==
    /\ reader.step = "turn"
    /\ reader' = [reader EXCEPT !.step = "asked", !.page = answer.page + 1,
                                !.queries = {"count", "find"},
                                !.rows = <<>>, !.steady = TRUE]
    /\ answer' = NoAnswer
    /\ UNCHANGED <<tables, faults>>

\* The rows of a result in some order.
Orderings(rows) == Bijection(1 .. Cardinality(rows), rows)

\* findMany with orderBy createdAt desc: rows of one time come in any order.
Ordered(rows) ==
    {q \in Orderings(rows) :
        \A i, j \in DOMAIN q : i < j => q[i].createdAt >= q[j].createdAt}

FindTenants ==
    /\ reader.step = "asked"
    /\ reader.kind = "orders"
    /\ \E ts \in Orderings(ready) :
          reader' = [reader EXCEPT !.step = "reading", !.left = ts]
    /\ UNCHANGED <<tables, answer, faults>>

\* Mutant: only the rows of one page are taken from each tenant.
ReadTenantOnePage ==
    /\ reader.step = "reading"
    /\ reader.left # <<>>
    /\ \E q \in Ordered(OrdersUnder(Head(reader.left))) :
          reader' = [reader EXCEPT
              !.rows = @ \o SubSeq(q, 1, AtMost(Len(q), reader.size)),
              !.left = Tail(@)]
    /\ UNCHANGED <<tables, answer, faults>>

ReadTenant ==
    /\ reader.step = "reading"
    /\ reader.left # <<>>
    /\ \E q \in Ordered(OrdersUnder(Head(reader.left))) :
          reader' = [reader EXCEPT !.rows = @ \o q, !.left = Tail(@)]
    /\ UNCHANGED <<tables, answer, faults>>

\* The error of one tenant is logged, and the others are read.
ReadTenantFails ==
    /\ reader.step = "reading"
    /\ reader.left # <<>>
    /\ Fault
    /\ reader' = [reader EXCEPT !.left = Tail(@), !.undisturbed = FALSE]
    /\ UNCHANGED <<tables, answer>>

Answered(page, total, data) ==
    LET pages == TotalPages(total, reader.size)
        shown == AtMost(pages, page)
    IN
    /\ answer' = [page |-> shown, total |-> total, pages |-> pages, data |-> data]
    /\ reader' = [reader EXCEPT
          !.step = IF shown = pages THEN "finished" ELSE "turn",
          !.seen = @ \cup IdsOf(Range(data)),
          !.undisturbed = @ /\ (reader.kind = "orders" \/ reader.steady)]
    /\ UNCHANGED <<tables, faults>>

\* Array.prototype.sort puts the newest first and is stable: at says which row comes
\* where.
SortedBy(rows) ==
    {at \in Bijection(DOMAIN rows, DOMAIN rows) :
        \A i, j \in DOMAIN rows : i < j =>
            \/ rows[at[i]].createdAt > rows[at[j]].createdAt
            \/ rows[at[i]].createdAt = rows[at[j]].createdAt /\ at[i] < at[j]}

NewestFirst(rows) == {[i \in DOMAIN rows |-> rows[at[i]]] : at \in SortedBy(rows)}

\* rows.slice(from, from + n), where from counts from zero.
Slice(rows, from, n) == SubSeq(rows, from + 1, AtMost(Len(rows), from + n))

\* Mutant: the page that was asked for is cut out, not the last one there is.
AnswerOrdersUnclamped ==
    /\ reader.step = "reading"
    /\ reader.left = <<>>
    /\ \E q \in NewestFirst(reader.rows) :
          Answered(reader.page, Len(reader.rows),
                   Slice(q, (reader.page - 1) * reader.size, reader.size))

AnswerOrders ==
    LET page == AtMost(TotalPages(Len(reader.rows), reader.size), reader.page) IN
    /\ reader.step = "reading"
    /\ reader.left = <<>>
    /\ \E q \in NewestFirst(reader.rows) :
          Answered(reader.page, Len(reader.rows),
                   Slice(q, (page - 1) * reader.size, reader.size))

CountProducts ==
    /\ reader.step = "asked"
    /\ reader.kind = "products"
    /\ "count" \in reader.queries
    /\ reader' = [reader EXCEPT !.total = Cardinality(products), !.queries = @ \ {"count"}]
    /\ UNCHANGED <<tables, answer, faults>>

FindProducts ==
    /\ reader.step = "asked"
    /\ reader.kind = "products"
    /\ "find" \in reader.queries
    /\ \E q \in Ordered(products) :
          reader' = [reader EXCEPT
              !.rows = Slice(q, (reader.page - 1) * reader.size, reader.size),
              !.queries = @ \ {"find"}]
    /\ UNCHANGED <<tables, answer, faults>>

AnswerProducts ==
    /\ reader.step = "asked"
    /\ reader.kind = "products"
    /\ reader.queries = {}
    /\ Answered(reader.page, reader.total, reader.rows)

-----------------------------------------------------------------------------
Next ==
    \/ \E t \in Tenants :
          \/ \E now \in Now : CreateOrder(t, now)
          \/ TenantReady(t)
          \/ TenantRemoved(t)
    \/ \E now \in Now : CreateProduct(now)
    \/ \E r \in products : RemoveProduct(r)
    \/ \E kind \in {"orders", "products"}, page \in RawPages, size \in RawSizes :
          Ask(kind, page, size)
    \/ FindTenants \/ ReadTenant \/ ReadTenantFails \/ AnswerOrders
    \/ CountProducts \/ FindProducts \/ AnswerProducts
    \/ TurnPage

Spec == Init /\ [][Next]_vars

-----------------------------------------------------------------------------
(* What holds.                                                              *)

Replied == reader.step \in {"turn", "finished"}

\* The rows an answer has room for on the page it reports.
Room == AtMost(reader.size, answer.total - (answer.page - 1) * reader.size)

\* Two rows of a list: not the same one, or one order that was read under two codes of
\* its database.
Apart(r, s) ==
    \/ r.id # s.id
    \/ r.tenantCode # s.tenantCode /\ DbName[r.tenantCode] = DbName[s.tenantCode]

\* An answer is in order, newest first, repeats no product, an order only under
\* another spelling of its tenant's code, and is as long as its own page and total
\* say: every page but the last is full, and the last is empty only when the list
\* is.  For orders this holds of every answer, although the tenants are read at
\* different times and any page may be asked for; for products, when no product
\* came or went between the two queries, except that a page after the last is
\* answered with the number of the last and no rows.
PageFitsTotal ==
    Replied =>
        /\ \A i, j \in DOMAIN answer.data : i < j =>
              /\ answer.data[i].createdAt >= answer.data[j].createdAt
              /\ Apart(answer.data[i], answer.data[j])
        /\ answer.page \in 1 .. answer.pages
        /\ (reader.kind = "orders" \/ reader.steady) =>
              Len(answer.data) =
                  IF reader.kind = "products" /\ reader.page > answer.pages THEN 0 ELSE Room

\* Two rows that the lists could show were created in the same millisecond.
Ties ==
    LET rows == products \cup UNION {orders[d] : d \in Databases} IN
    \E r, s \in rows : r.id # s.id /\ r.createdAt = s.createdAt

\* A client that reads a list from the first page to the last is shown every row
\* that was there when it began, also when rows are created and tenants become
\* ready meanwhile, a second spelling of one too: new rows only push the others to
\* pages still to come.  Not so when rows are taken away, a tenant could not be
\* read, rows share a creation time, or a product is created between the two
\* queries.  The services are meant: an answer that CacheInterceptor gives instead
\* is as old as its entry, see ResponseCache.
NothingSkipped ==
    (reader.step = "finished" /\ reader.undisturbed /\ ~Ties) => reader.base \subseteq reader.seen

=============================================================================
