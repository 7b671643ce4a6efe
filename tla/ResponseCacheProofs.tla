------------------------- MODULE ResponseCacheProofs -------------------------
(***************************************************************************)
(* Theorems about ResponseCache, for any tenants and spellings of their    *)
(* codes, products, customers, query parameters and requests and any       *)
(* number of writes and failures.                                          *)
(***************************************************************************)
EXTENDS ResponseCache, SequenceTheorems, TLAPS

-----------------------------------------------------------------------------
(* The inductive invariant.                                                 *)

Writes == ProductWrites \cup OrderWrites

ReadKeys == {Key(c) : c \in Reads}

\* The keys decorators name: those of answers, and those that a write on a product
\* makes from its own arguments.
TargetKeys == ReadKeys \cup {KeyFor(m, w) : m \in {"findAll", "findOne"}, w \in ProductWrites}

Data == UNION {[S -> -MaxWrites .. MaxWrites] : S \in SUBSET Rows}

Entry == [data : Data, ttl : {TTL}]

Request == [step : Steps \cup {"idle", "done"}, call : Calls \cup {Null},
            answer : Data \cup {Null}, plan : Seq(Rows), stamp : 0 .. MaxWrites,
            todo : Seq(SUBSET TargetKeys)]

Shapes ==
    /\ rows \in [Rows -> -MaxWrites .. MaxWrites]
    /\ cache \in [ReadKeys -> Entry \cup {Null}]
    /\ req \in [Requests -> Request]
    /\ lapped \in BOOLEAN
    /\ writes \in 0 .. MaxWrites
    /\ faults \in 0 .. MaxFaults

\* The rows that are left to change: those of a payment differ.
PlanOwn(q) ==
    q.call.method # "paymentReceived" => \A n \in 1 .. Len(q.plan) : q.plan[n] = Changed(q.call)

\* What is known of a request by where it is.
Placed(q) ==
    /\ q.step = "idle" => q.call = Null /\ q.answer = Null
    /\ q.step \in {"idle", "lookup", "load", "fill"} => q.stamp = 0
    /\ q.step \in {"lookup", "load", "fill"} => q.call \in Reads
    /\ q.step \in {"write", "invalidate"} \/ q.stamp # 0 => q.call \in Writes
    /\ q.step = "fill" => q.answer \in Data /\ DOMAIN q.answer = Source(q.call)
    /\ q.step = "write" => PlanOwn(q)
    /\ q.step = "invalidate" => q.todo # <<>>

\* Rows that a request of the call c may be shown, when it may find displaced keys.
MayShow(c, S, displaced) ==
    /\ c.user = Null => S \subseteq ProductsOf(c.tenant)
    /\ Key(c) \notin displaced => S = Source(c)

\* An entry is made from the rows of every request with its key, except one that
\* displaces and has not been made yet.
EntriesOwn ==
    \A c \in Reads : cache[Key(c)] # Null =>
        /\ c.user = Null => DOMAIN cache[Key(c)].data \subseteq ProductsOf(c.tenant)
        /\ (Key(c) \notin Displaced /\ ~Displaces(c)) => DOMAIN cache[Key(c)].data = Source(c)

\* A write that changed one row only and has not thrown.
Marked(q) == q.stamp # 0 /\ q.call.method # "paymentReceived"

\* Rows do not go back.
RowsKeep ==
    /\ \A s \in Rows : Version(rows[s]) <= writes
    /\ \A w \in Requests :
          /\ req[w].stamp <= writes
          /\ Marked(req[w]) => Version(rows[Changed(req[w].call)]) >= req[w].stamp

\* These rows show what the request has written.
Shows(data, q) ==
    Changed(q.call) \in DOMAIN data => Version(data[Changed(q.call)]) >= q.stamp

\* What a handler reads.
Current(c) == [s \in Source(c) |-> rows[s]]

\* Without overlap there is one request at a time, no write comes between a load
\* and its fill, and an entry that a decorator names is old only while the writer
\* writes, or is deleting it.
OneAtATime == \A r, q \in InFlight : r = q

LoadedFresh ==
    \A r \in Requests : req[r].step = "fill" =>
        \A w \in Requests : Marked(req[w]) => Shows(req[r].answer, req[w])

Drops(q, k) == q.step = "invalidate" /\ \E n \in 1 .. Len(q.todo) : k \in q.todo[n]

OldIsDropped ==
    \A w \in Requests, c \in Reads :
        (Marked(req[w]) /\ Names(req[w].call, c) /\ cache[Key(c)] # Null) =>
            Shows(cache[Key(c)].data, req[w]) \/ req[w].step = "write" \/ Drops(req[w], Key(c))

Sequential == (~lapped /\ faults = 0) => OneAtATime /\ LoadedFresh /\ OldIsDropped

CacheInv ==
    /\ Shapes
    /\ \A r \in Requests : Placed(req[r])
    /\ AnswerIsOwn
    /\ EntriesOwn
    /\ RowsKeep
    /\ Sequential

-----------------------------------------------------------------------------
(* Keys and the rows behind them.                                           *)

\* The calls that read, by their method.
LEMMA ReadFacts ==
    ASSUME NEW c \in Reads
    PROVE  /\ c.method \in {"findAll", "findOne", "findAllOrders"}
           /\ c.method = "findAll" => c.tenant \in Codes /\ c.id = Null /\ c.user = Null
           /\ c.method = "findOne" => c.tenant \in Codes /\ c.id \in Ids /\ c.user = Null
           /\ c.method = "findAllOrders" => c.tenant = Null /\ c.id = Null /\ c.user \in Users
  BY DEF Reads, Call

\* The calls that write, by their method.
LEMMA WriteFacts ==
    ASSUME NEW w \in Writes
    PROVE  /\ w.tenant \in Codes
           /\ w \in ProductWrites =>
                 /\ w.method \in {"create", "update", "remove"} /\ w.id \in Ids
                 /\ w.user = Null
           /\ w \in OrderWrites =>
                 /\ w.method \in {"createOrder", "paymentReceived", "completeOrder"}
                 /\ w.user \in Users /\ w.user # Null
           /\ w \in ProductWrites \/ w \in OrderWrites
  BY CacheAssumption DEF Writes, ProductWrites, OrderWrites

\* A read is made from rows there are, and one of products from those of its tenant.
LEMMA SourceRows ==
    ASSUME NEW c \in Reads
    PROVE  /\ Source(c) \subseteq Rows
           /\ c.user = Null => Source(c) \subseteq ProductsOf(c.tenant)
<1>1. CASE c.method \in {"findAll", "findOne"}
  BY <1>1 DEF Source, Rows, ProductsOf
<1>2. CASE c.method = "findAllOrders"
  <2>1. c.user \in Users /\ c.user # Null
    BY <1>2, ReadFacts, CacheAssumption
  <2>2. Source(c) = {OrdersOf(c.user)} \cup Products
    BY <1>2 DEF Source
  <2> QED
    BY <2>1, <2>2 DEF Rows
<1> QED
  BY <1>1, <1>2, ReadFacts

\* The row a write is about, and the rows it changes.
LEMMA ChangedRow ==
    ASSUME NEW w \in Writes
    PROVE  Changed(w) \in Rows
<1>1. CASE w \in ProductWrites
  <2>1. w.user = Null /\ w.id \in Ids /\ DbName[w.tenant] \in Databases
    BY <1>1, WriteFacts, CacheAssumption
  <2> QED
    BY <2>1 DEF Changed, Rows, Products
<1>2. CASE w \in OrderWrites
  BY <1>2, WriteFacts DEF Changed, Rows
<1> QED
  BY <1>1, <1>2, WriteFacts

\* A query that displaces nothing leaves what the route or the token says.
LEMMA AssignOwn ==
    ASSUME NEW c, NEW n \in DOMAIN Own(c), ~Displaces(c)
    PROVE  Assign(Own(c), c.query)[n] = Own(c)[n]
  BY DEF Assign, Displaces

\* Two reads with one key are of one method and, if of products, of one tenant.
LEMMA KeyTenant ==
    ASSUME NEW c \in Reads, NEW d \in Reads, Key(c) = Key(d)
    PROVE  /\ c.method = d.method
           /\ c.user = Null <=> d.user = Null
           /\ c.user = Null => c.tenant = d.tenant
           /\ Args(c) = Args(d)
<1>1. c.method = d.method /\ TenantOf(c) = TenantOf(d) /\ Args(c) = Args(d)
  BY DEF Key, KeyFor
<1>2. CASE c.method \in {"findAll", "findOne"}
  <2>1. c.user = Null /\ d.user = Null /\ c.tenant # Null /\ d.tenant # Null
    BY <1>1, <1>2, ReadFacts, CacheAssumption
  <2>2. TenantOf(c) = c.tenant /\ TenantOf(d) = d.tenant
    BY <2>1 DEF TenantOf
  <2> QED
    BY <1>1, <2>1, <2>2
<1>3. CASE c.method = "findAllOrders"
  <2>1. c.user # Null /\ d.user # Null
    BY <1>1, <1>3, ReadFacts, CacheAssumption
  <2> QED
    BY <1>1, <2>1
<1> QED
  BY <1>2, <1>3, ReadFacts

\* If moreover neither query displaces anything, they are made from the same rows.
LEMMA KeySource ==
    ASSUME NEW c \in Reads, NEW d \in Reads, Key(c) = Key(d), ~Displaces(c), ~Displaces(d)
    PROVE  Source(c) = Source(d)
<1> USE DEF Source
<1>1. c.method = d.method /\ Args(c) = Args(d)
  BY KeyTenant
<1>2. CASE c.method = "findAll"
  BY <1>1, <1>2, KeyTenant, ReadFacts
<1>3. CASE c.method = "findOne"
  <2>1. c.user = Null /\ d.user = Null /\ c.tenant = d.tenant
    BY <1>1, <1>3, KeyTenant, ReadFacts
  <2>2. "id" \in DOMAIN Own(c) /\ Own(c)["id"] = c.id
    BY <1>3 DEF Own
  <2>3. "id" \in DOMAIN Own(d) /\ Own(d)["id"] = d.id
    BY <1>1, <1>3 DEF Own
  <2>4. Assign(Own(c), c.query)["id"] = c.id /\ Assign(Own(d), d.query)["id"] = d.id
    BY <2>2, <2>3, AssignOwn
  <2>5. Assign(Own(c), c.query) = Assign(Own(d), d.query)
    BY <1>1, <2>1 DEF Args
  <2> QED
    BY <1>1, <1>3, <2>1, <2>4, <2>5
<1>4. CASE c.method = "findAllOrders"
  <2>1. c.user # Null /\ d.user # Null
    BY <1>1, <1>4, ReadFacts, CacheAssumption
  <2>2. "__userId" \in DOMAIN Own(c) /\ Own(c)["__userId"] = c.user
    BY <1>4 DEF Own
  <2>3. "__userId" \in DOMAIN Own(d) /\ Own(d)["__userId"] = d.user
    BY <1>1, <1>4 DEF Own
  <2>4. /\ Assign(Own(c), c.query)["__userId"] = c.user
        /\ Assign(Own(d), d.query)["__userId"] = d.user
    BY <2>2, <2>3, AssignOwn
  <2>5. c.user = d.user
    <3>1. CASE c.query = NoQuery /\ d.query = NoQuery
      BY <1>1, <2>1, <3>1 DEF Args
    <3>2. CASE c.query # NoQuery /\ d.query # NoQuery
      <4>1. Assign(Own(c), c.query) = Assign(Own(d), d.query)
        BY <1>1, <3>2 DEF Args
      <4> QED
        BY <2>4, <4>1
    <3>3. CASE (c.query = NoQuery) # (d.query = NoQuery)
      <4>1. Args(c)[1] # Args(d)[1]
        BY <2>1, <3>3 DEF Args
      <4> QED
        BY <1>1, <4>1
    <3> QED
      BY <3>1, <3>2, <3>3
  <2> QED
    BY <1>1, <1>4, <2>5
<1> QED
  BY <1>2, <1>3, <1>4, ReadFacts

\* What a decorator is for is among what it deletes.
LEMMA NamedIsTarget ==
    ASSUME CacheInv, NEW w \in Writes, NEW c \in Reads, Names(w, c)
    PROVE  \E n \in 1 .. Len(Targets(w)) : Key(c) \in Targets(w)[n]
<1>1. CASE w.method = "createOrder"
  <2>1. /\ c.method = "findAllOrders" /\ c.user = w.user /\ c.query = NoQuery
        /\ c.tenant = Null /\ c.user \in Users /\ c.user # Null
    BY <1>1, ReadFacts, CacheAssumption DEF Names
  <2>2. Targets(w) = <<UserKeys(w.user)>>
    BY <1>1 DEF Targets
  <2>3. DOMAIN NoQuery = {}
    BY DEF NoQuery
  <2>4. TenantOf(c) = "default"
    BY <2>1, <2>3 DEF TenantOf
  <2>5. Args(c) = <<"user", w.user>>
    BY <2>1 DEF Args
  <2>6. Key(c) \in DOMAIN cache
    BY DEF CacheInv, Shapes, ReadKeys
  <2>7. /\ Key(c).tenant = "default" /\ Key(c).method = "findAllOrders"
        /\ Key(c).args = <<"user", w.user>>
    BY <2>1, <2>4, <2>5 DEF Key, KeyFor
  <2>8. Key(c) \in UserKeys(w.user)
    BY <2>6, <2>7 DEF UserKeys
  <2> QED
    BY <2>2, <2>8
<1>2. CASE w.method \in {"create", "update", "remove"}
  <2>1. /\ w.user = Null /\ w.tenant \in Codes /\ w.tenant # Null
        /\ c.tenant = w.tenant /\ c.query = w.query /\ c.user = Null
    BY <1>2, WriteFacts, ReadFacts, CacheAssumption DEF Names
  <2>2. TenantOf(c) = TenantOf(w)
    BY <2>1 DEF TenantOf
  <2>3. Args(c) = <<"object", Assign(Own(c), c.query)>> /\ Args(w) = <<"object", Assign(Own(w), w.query)>>
    BY <2>1 DEF Args
  <2>4. CASE w.method = "create"
    <3>1. c.method = "findAll" /\ Own(c) = Own(w)
      BY <1>2, <2>1, <2>4 DEF Names, Own
    <3>2. Key(c) = KeyFor("findAll", w)
      BY <2>1, <2>2, <2>3, <3>1 DEF Key, KeyFor
    <3>3. Targets(w) = <<{KeyFor("findAll", w)}>>
      BY <2>4 DEF Targets
    <3> QED
      BY <3>2, <3>3
  <2>5. CASE w.method \in {"update", "remove"}
    <3>1. c.method = "findOne" /\ c.id = w.id
      BY <1>2, <2>5 DEF Names
    <3>2. Own(c) = Own(w)
      BY <2>1, <2>5, <3>1 DEF Own
    <3>3. Key(c) = KeyFor("findOne", w)
      BY <2>1, <2>2, <2>3, <3>1, <3>2 DEF Key, KeyFor
    <3>4. Targets(w) = <<{KeyFor("findAll", w)}, {KeyFor("findOne", w)}>>
      BY <2>5 DEF Targets
    <3>5. Len(Targets(w)) = 2 /\ Key(c) \in Targets(w)[2]
      BY <3>3, <3>4
    <3> QED
      BY <3>5
  <2> QED
    BY <1>2, <2>4, <2>5
<1> QED
  BY <1>1, <1>2 DEF Names

\* One or two elements of a set make a sequence.
LEMMA ShortSeq ==
    ASSUME NEW S, NEW a \in S, NEW b \in S
    PROVE  <<a>> \in Seq(S) /\ <<a, b>> \in Seq(S)
  OBVIOUS

\* What decorators delete are sets of keys.
LEMMA TargetsType ==
    ASSUME CacheInv, NEW c \in Writes
    PROVE  Targets(c) \in Seq(SUBSET TargetKeys)
<1>1. UserKeys(c.user) \in SUBSET TargetKeys
  <2>1. DOMAIN cache = ReadKeys
    BY DEF CacheInv, Shapes
  <2> QED
    BY <2>1 DEF UserKeys, TargetKeys
<1>2. <<>> \in Seq(SUBSET TargetKeys)
  BY EmptySeq
<1>3. CASE c \in OrderWrites
  <2>1. Targets(c) = <<>> \/ Targets(c) = <<UserKeys(c.user)>>
    BY <1>3, WriteFacts DEF Targets
  <2> QED
    BY <1>1, <1>2, <2>1, ShortSeq
<1>4. CASE c \in ProductWrites
  <2> DEFINE A == {KeyFor("findAll", c)}
             B == {KeyFor("findOne", c)}
  <2>1. A \in SUBSET TargetKeys /\ B \in SUBSET TargetKeys
    BY <1>4 DEF TargetKeys
  <2>2. Targets(c) = <<A>> \/ Targets(c) = <<A, B>>
    BY <1>4, WriteFacts DEF Targets
  <2> HIDE DEF A, B
  <2> QED
    BY <2>1, <2>2, ShortSeq
<1> QED
  BY <1>3, <1>4 DEF Writes

\* What a handler changes are rows, and except in a payment the one it is about.
LEMMA PlanFacts ==
    ASSUME NEW c \in Writes, NEW plan \in Plans(c)
    PROVE  /\ plan \in Seq(Rows)
           /\ c.method # "paymentReceived" => \A n \in 1 .. Len(plan) : plan[n] = Changed(c)
<1>1. CASE c \in ProductWrites
  <2>1. plan = <<Changed(c)>>
    BY <1>1, WriteFacts DEF Plans, Changed
  <2>2. plan \in Seq(Rows)
    BY <2>1, ChangedRow, ShortSeq
  <2>3. \A n \in 1 .. Len(plan) : plan[n] = Changed(c)
    BY <2>1
  <2> QED
    BY <2>2, <2>3
<1>2. CASE c \in OrderWrites
  <2> DEFINE o == OrdersOf(c.user)
  <2>1. Changed(c) = o /\ o \in Rows
    BY <1>2, WriteFacts, ChangedRow DEF Changed
  <2> HIDE DEF o
  <2>2. CASE c.method = "createOrder"
    <3>1. PICK n \in 1 .. MaxItems : plan = [i \in 1 .. n + 1 |-> o]
      BY <2>2 DEF Plans, o
    <3>2. n + 1 \in Nat
      BY <3>1, CacheAssumption
    <3>3. plan \in Seq(Rows) /\ Len(plan) = n + 1
      BY <2>1, <3>1, <3>2
    <3> QED
      BY <2>1, <3>1, <3>3
  <2>3. CASE c.method = "paymentReceived"
    <3>1. PICK ps \in UNION {[1 .. n -> ProductsOf(c.tenant)] : n \in 1 .. MaxItems} :
             plan = Append(ps, o)
      BY <2>3 DEF Plans, o
    <3>2. PICK n \in 1 .. MaxItems : ps \in [1 .. n -> ProductsOf(c.tenant)]
      BY <3>1
    <3>3. n \in Nat /\ ProductsOf(c.tenant) \subseteq Rows
      BY <3>2, CacheAssumption DEF ProductsOf, Rows
    <3>4. ps \in Seq(Rows)
      BY <3>2, <3>3
    <3> QED
      BY <2>1, <2>3, <3>1, <3>4, AppendProperties
  <2>4. CASE c.method = "completeOrder"
    <3>1. plan = <<>>
      BY <2>4 DEF Plans
    <3> QED
      BY <3>1, EmptySeq
  <2> QED
    BY <1>2, <2>2, <2>3, <2>4, WriteFacts
<1> QED
  BY <1>1, <1>2 DEF Writes

-----------------------------------------------------------------------------
(* The steps.                                                               *)

\* Redis starts empty and no request has been made.
LEMMA InitInv == Init => CacheInv
<1> SUFFICES ASSUME Init PROVE CacheInv
  OBVIOUS
<1> DEFINE q == [step |-> "idle", call |-> Null, answer |-> Null, plan |-> <<>>, stamp |-> 0,
                 todo |-> <<>>]
<1>1. q \in Request /\ Placed(q) /\ q.stamp = 0 /\ q.answer = Null /\ q.step = "idle"
  <2>1. <<>> \in Seq(SUBSET TargetKeys) /\ <<>> \in Seq(Rows)
    BY EmptySeq
  <2>2. 0 \in 0 .. MaxWrites
    BY CacheAssumption
  <2> QED
    BY <2>1, <2>2 DEF Request, Placed
<1>2. \A r \in Requests : req[r] = q
  BY DEF Init
<1>3. /\ rows \in [Rows -> -MaxWrites .. MaxWrites]
      /\ \A s \in Rows : rows[s] \in {0, 1}
  BY CacheAssumption DEF Init
<1>4. writes = 1 /\ faults = 0 /\ lapped = FALSE
  BY DEF Init
<1>5. Shapes
  <2>1. cache \in [ReadKeys -> Entry \cup {Null}]
    BY DEF Init, ReadKeys
  <2>2. req \in [Requests -> Request]
    BY <1>1 DEF Init
  <2>3. writes \in 0 .. MaxWrites /\ faults \in 0 .. MaxFaults
    BY <1>4, CacheAssumption
  <2>4. lapped \in BOOLEAN
    BY <1>4
  <2> QED
    BY <1>3, <2>1, <2>2, <2>3, <2>4 DEF Shapes
<1>6. \A c \in Reads : cache[Key(c)] = Null
  BY DEF Init
<1> HIDE DEF q
<1>7. RowsKeep
  <2>1. \A s \in Rows : Version(rows[s]) <= writes
    BY <1>3, <1>4 DEF Version
  <2> QED
    BY <1>1, <1>2, <1>4, <2>1 DEF RowsKeep, Marked
<1>8. Sequential
  BY <1>1, <1>2, <1>6 DEF Sequential, OneAtATime, LoadedFresh, OldIsDropped, Marked, InFlight, Steps
<1>9. AnswerIsOwn
  BY <1>1, <1>2 DEF AnswerIsOwn
<1> QED
  BY <1>1, <1>2, <1>5, <1>6, <1>7, <1>8, <1>9 DEF CacheInv, EntriesOwn

\* A request that displaces has its key among the displaced.
LEMMA DisplacedHas ==
    ASSUME NEW r \in Requests, req[r].call \in Reads, Displaces(req[r].call)
    PROVE  Key(req[r].call) \in Displaced
  BY DEF Displaced

\* One request moves, and gets an answer that it may be shown.
LEMMA RequestMoves ==
    ASSUME CacheInv, NEW r \in Requests, NEW q \in Request, Placed(q),
           req' = [req EXCEPT ![r] = q], q.call = req[r].call \/ req[r].step = "idle",
           q.answer # Null => MayShow(q.call, DOMAIN q.answer, Displaced)
    PROVE  /\ req' \in [Requests -> Request]
           /\ req'[r] = q
           /\ \A x \in Requests \ {r} : req'[x] = req[x]
           /\ \A x \in Requests : Placed(req'[x])
           /\ Displaced \subseteq Displaced'
           /\ AnswerIsOwn'
<1>1. /\ req' \in [Requests -> Request] /\ req'[r] = q
      /\ \A x \in Requests \ {r} : req'[x] = req[x]
      /\ \A x \in Requests : Placed(req'[x])
  BY DEF CacheInv, Shapes
<1>2. Displaced \subseteq Displaced'
  <2> SUFFICES ASSUME NEW x \in Requests, req[x].call \in Reads, Displaces(req[x].call)
               PROVE  Key(req[x].call) \in Displaced'
    BY DEF Displaced
  <2>1. req'[x].call = req[x].call
    <3>1. req[r].step = "idle" => req[r].call \notin Reads
      BY CacheAssumption DEF CacheInv, Placed, Calls
    <3> QED
      BY <1>1, <3>1
  <2>2. req'[x].call \in Reads /\ Displaces(req'[x].call)
    BY <2>1
  <2>3. Displaced' = {Key(req'[y].call) :
                        y \in {z \in Requests : req'[z].call \in Reads /\ Displaces(req'[z].call)}}
    BY DEF Displaced
  <2> QED
    BY <2>1, <2>2, <2>3
<1>3. AnswerIsOwn'
  <2> SUFFICES ASSUME NEW x \in Requests, req'[x].answer # Null
               PROVE  MayShow(req'[x].call, DOMAIN req'[x].answer, Displaced')
    BY DEF AnswerIsOwn, MayShow
  <2>1. MayShow(req'[x].call, DOMAIN req'[x].answer, Displaced)
    <3>1. CASE x = r
      BY <1>1, <3>1
    <3>2. CASE x # r
      BY <1>1, <3>2 DEF CacheInv, AnswerIsOwn, MayShow
    <3> QED
      BY <3>1, <3>2
  <2> QED
    BY <1>2, <2>1 DEF MayShow
<1> QED
  BY <1>1, <1>2, <1>3

\* Entries that stay, or go, are those of their keys.
LEMMA EntriesKept ==
    ASSUME CacheInv, Displaced \subseteq Displaced',
           \A k \in ReadKeys : cache'[k] # Null => cache'[k] = cache[k]
    PROVE  EntriesOwn'
<1> SUFFICES ASSUME NEW c \in Reads, cache'[Key(c)] # Null
             PROVE  /\ c.user = Null => DOMAIN cache'[Key(c)].data \subseteq ProductsOf(c.tenant)
                    /\ (Key(c) \notin Displaced' /\ ~Displaces(c)) =>
                          DOMAIN cache'[Key(c)].data = Source(c)
  BY DEF EntriesOwn
<1>1. cache'[Key(c)] = cache[Key(c)] /\ cache[Key(c)] # Null
  BY DEF ReadKeys
<1> QED
  BY <1>1 DEF CacheInv, EntriesOwn

\* Rows and what requests have written stay as they are.
LEMMA StampsKept ==
    ASSUME CacheInv, UNCHANGED <<rows, writes>>,
           \A w \in Requests :
               \/ req'[w].stamp = 0
               \/ req'[w].stamp = req[w].stamp /\ req'[w].call = req[w].call
    PROVE  RowsKeep'
<1>1. writes \in Nat
  BY CacheAssumption DEF CacheInv, Shapes
<1> QED
  BY <1>1 DEF CacheInv, RowsKeep, Marked

\* The next number is given to a row, and to the request that has written it.
LEMMA RowWritten ==
    ASSUME CacheInv, NEW s \in Rows, NEW n \in {writes + 1, -(writes + 1)},
           writes < MaxWrites, writes' = writes + 1, rows' = [rows EXCEPT ![s] = n],
           \A w \in Requests :
               \/ req'[w] = req[w]
               \/ req'[w].stamp = writes + 1 /\ (Marked(req'[w]) => Changed(req'[w].call) = s)
    PROVE  /\ rows' \in [Rows -> -MaxWrites .. MaxWrites]
           /\ writes' \in 0 .. MaxWrites
           /\ RowsKeep'
<1>1. /\ rows \in [Rows -> -MaxWrites .. MaxWrites] /\ writes \in 0 .. MaxWrites
      /\ MaxWrites \in Nat
  BY CacheAssumption DEF CacheInv, Shapes
<1>2. n \in -MaxWrites .. MaxWrites /\ writes' \in 0 .. MaxWrites /\ Version(n) = writes + 1
  BY <1>1 DEF Version
<1>3. rows' \in [Rows -> -MaxWrites .. MaxWrites]
  BY <1>1, <1>2
<1>4. rows'[s] = n /\ \A x \in Rows \ {s} : rows'[x] = rows[x]
  BY <1>1
<1>5. \A x \in Rows : Version(rows'[x]) <= writes' /\ (x # s => Version(rows'[x]) = Version(rows[x]))
  <2> TAKE x \in Rows
  <2>1. Version(rows[x]) <= writes /\ Version(rows[x]) \in Int
    BY <1>1 DEF CacheInv, RowsKeep, Version
  <2> QED
    BY <1>1, <1>2, <1>4, <2>1
<1>6. ASSUME NEW w \in Requests
      PROVE  /\ req'[w].stamp <= writes'
             /\ Marked(req'[w]) => Version(rows'[Changed(req'[w].call)]) >= req'[w].stamp
  <2>1. CASE req'[w] = req[w]
    <3>1. req[w].stamp <= writes /\ req[w].stamp \in 0 .. MaxWrites
      BY DEF CacheInv, RowsKeep, Shapes, Request
    <3>2. ASSUME Marked(req[w])
          PROVE  Version(rows'[Changed(req[w].call)]) >= req[w].stamp
      <4>1. Changed(req[w].call) \in Rows
        BY <3>2, ChangedRow DEF CacheInv, Placed, Marked
      <4>2. Version(rows[Changed(req[w].call)]) >= req[w].stamp
        BY <3>2 DEF CacheInv, RowsKeep
      <4>3. CASE Changed(req[w].call) = s
        BY <1>1, <1>2, <1>4, <3>1, <4>3
      <4>4. CASE Changed(req[w].call) # s
        BY <1>5, <4>1, <4>2, <4>4
      <4> QED
        BY <4>3, <4>4
    <3> QED
      BY <1>1, <2>1, <3>1, <3>2
  <2>2. CASE req'[w].stamp = writes + 1 /\ (Marked(req'[w]) => Changed(req'[w].call) = s)
    BY <1>1, <1>2, <1>4, <2>2
  <2> QED
    BY <2>1, <2>2
<1>7. RowsKeep'
  BY <1>5, <1>6 DEF RowsKeep
<1> QED
  BY <1>2, <1>3, <1>7

\* A Redis error is counted.
LEMMA FaultCounted ==
    ASSUME CacheInv, Fault
    PROVE  faults' \in 0 .. MaxFaults /\ faults' # 0
<1>1. faults \in 0 .. MaxFaults /\ MaxFaults \in Nat
  BY CacheAssumption DEF CacheInv, Shapes
<1> QED
  BY <1>1 DEF Fault

\* Without overlap a request that goes on is the only one, and so is a first one.
LEMMA OneMoves ==
    ASSUME OneAtATime, NEW r \in Requests, \A x \in Requests \ {r} : req'[x] = req[x],
           InFlight = {} \/ r \in InFlight
    PROVE  OneAtATime' /\ \A x \in Requests \ {r} : x \notin InFlight /\ x \notin InFlight'
<1>1. \A x \in Requests \ {r} : x \notin InFlight
  BY DEF OneAtATime
<1>2. \A x \in Requests \ {r} : x \notin InFlight'
  BY <1>1 DEF InFlight
<1>3. OneAtATime'
  BY <1>2 DEF OneAtATime, InFlight
<1> QED
  BY <1>1, <1>2, <1>3

\* Steps that leave Redis and the databases alone, of requests that have written
\* nothing or throw.
LEMMA MoveStep ==
    ASSUME CacheInv, NEW r \in Requests, NEW q \in Request, Placed(q),
           req' = [req EXCEPT ![r] = q], UNCHANGED <<rows, cache, writes>>,
           q.call = req[r].call \/ req[r].step = "idle", q.stamp = 0,
           q.answer # Null => MayShow(q.call, DOMAIN q.answer, Displaced),
           lapped' \in BOOLEAN, faults' \in 0 .. MaxFaults,
           (~lapped' /\ faults' = 0) =>
               ~lapped /\ faults = 0 /\ (InFlight = {} \/ r \in InFlight),
           q.step = "fill" => q.answer = Current(q.call)
    PROVE  CacheInv'
<1>1. /\ req' \in [Requests -> Request] /\ req'[r] = q
      /\ \A x \in Requests \ {r} : req'[x] = req[x]
      /\ \A x \in Requests : Placed(req'[x])
      /\ Displaced \subseteq Displaced' /\ AnswerIsOwn'
  BY RequestMoves
<1>2. Shapes'
  BY <1>1 DEF CacheInv, Shapes
<1>3. EntriesOwn'
  BY <1>1, EntriesKept
<1>4. RowsKeep'
  BY <1>1, StampsKept
<1>5. Sequential'
  <2> SUFFICES ASSUME ~lapped', faults' = 0
               PROVE  OneAtATime' /\ LoadedFresh' /\ OldIsDropped'
    BY DEF Sequential
  <2>1. OneAtATime /\ LoadedFresh /\ OldIsDropped /\ (InFlight = {} \/ r \in InFlight)
    BY DEF CacheInv, Sequential
  <2>2. OneAtATime'
    BY <1>1, <2>1, OneMoves
  <2>3. \A w \in Requests : Marked(req'[w]) => req'[w] = req[w]
    BY <1>1 DEF Marked
  <2>4. LoadedFresh'
    <3> SUFFICES ASSUME NEW x \in Requests, req'[x].step = "fill",
                        NEW w \in Requests, Marked(req'[w])
                 PROVE  Shows(req'[x].answer, req'[w])
      BY DEF LoadedFresh
    <3>1. req'[w] = req[w] /\ Marked(req[w])
      BY <2>3
    <3>2. CASE x = r
      <4>1. req'[x].answer = Current(q.call)
        BY <1>1, <3>2
      <4>2. Version(rows[Changed(req[w].call)]) >= req[w].stamp
        BY <3>1 DEF CacheInv, RowsKeep
      <4> QED
        BY <3>1, <4>1, <4>2 DEF Shows, Current
    <3>3. CASE x # r
      BY <1>1, <2>1, <3>1, <3>3 DEF LoadedFresh
    <3> QED
      BY <3>2, <3>3
  <2>5. OldIsDropped'
    BY <2>1, <2>3 DEF OldIsDropped
  <2> QED
    BY <2>2, <2>4, <2>5
<1> QED
  BY <1>1, <1>2, <1>3, <1>4, <1>5 DEF CacheInv

\* What a handler reads is an answer, and the request's own.
LEMMA CurrentFacts ==
    ASSUME CacheInv, NEW c \in Reads
    PROVE  /\ Current(c) \in Data /\ DOMAIN Current(c) = Source(c)
           /\ MayShow(c, Source(c), Displaced)
<1>1. Source(c) \subseteq Rows /\ (c.user = Null => Source(c) \subseteq ProductsOf(c.tenant))
  BY SourceRows
<1>2. Current(c) \in [Source(c) -> -MaxWrites .. MaxWrites]
  BY <1>1 DEF Current, CacheInv, Shapes
<1> QED
  BY <1>1, <1>2 DEF Data, MayShow

\* A read: looking up, loading, and what fails.
LEMMA ReadStep ==
    ASSUME CacheInv, NEW r \in Requests,
           \/ \E c \in Reads : StartRead(r, c)
           \/ Lookup(r) \/ LookupFails(r) \/ Load(r) \/ FillFails(r)
    PROVE  CacheInv'
<1>1. /\ req \in [Requests -> Request] /\ req[r] \in Request /\ Placed(req[r])
      /\ cache \in [ReadKeys -> Entry \cup {Null}]
      /\ lapped \in BOOLEAN /\ faults \in 0 .. MaxFaults
      /\ req[r].answer # Null => MayShow(req[r].call, DOMAIN req[r].answer, Displaced)
  BY DEF CacheInv, Shapes, AnswerIsOwn, MayShow
<1>2. CASE \E c \in Reads : StartRead(r, c)
  <2> PICK c \in Reads : StartRead(r, c)
    BY <1>2
  <2> DEFINE q == [req[r] EXCEPT !.step = "lookup", !.call = c]
  <2>1. /\ req' = [req EXCEPT ![r] = q] /\ req[r].step = "idle"
        /\ lapped' = (lapped \/ InFlight # {})
        /\ UNCHANGED <<rows, cache, writes, faults>>
    BY <1>1 DEF StartRead
  <2>2. q \in Request /\ q.step = "lookup" /\ q.call = c /\ q.answer = Null /\ q.stamp = 0
    BY <1>1, <2>1 DEF Request, Steps, Calls, Placed
  <2> HIDE DEF q
  <2>3. Placed(q)
    BY <2>2 DEF Placed
  <2>4. lapped' \in BOOLEAN /\ (~lapped' => ~lapped /\ InFlight = {})
    BY <2>1
  <2> QED
    BY <1>1, <2>1, <2>2, <2>3, <2>4, MoveStep
<1>3. CASE Lookup(r)
  <2> DEFINE c == req[r].call
             hit == cache[Key(c)]
             q == [req[r] EXCEPT !.step = IF hit # Null THEN "done" ELSE "load",
                                 !.answer = IF hit # Null THEN hit.data ELSE Null]
  <2>1. /\ req' = [req EXCEPT ![r] = q] /\ req[r].step = "lookup"
        /\ UNCHANGED <<lapped, rows, cache, writes, faults>>
    BY <1>1, <1>3 DEF Lookup
  <2>2. c \in Reads /\ hit \in Entry \cup {Null} /\ req[r].stamp = 0
    BY <1>1, <2>1 DEF Placed, ReadKeys
  <2>3. hit # Null => MayShow(c, DOMAIN hit.data, Displaced) /\ hit.data \in Data
    BY <2>2, DisplacedHas DEF CacheInv, EntriesOwn, MayShow, Entry
  <2>4. /\ q \in Request /\ q.call = c /\ q.stamp = 0
        /\ hit # Null => q.step = "done" /\ q.answer = hit.data
        /\ hit = Null => q.step = "load" /\ q.answer = Null
    BY <1>1, <2>2, <2>3 DEF Request, Steps
  <2> HIDE DEF q, hit
  <2>5. Placed(q) /\ q.step # "fill"
    BY <2>2, <2>4 DEF Placed
  <2>6. r \in InFlight
    BY <2>1 DEF InFlight, Steps
  <2> QED
    BY <1>1, <2>1, <2>3, <2>4, <2>5, <2>6, MoveStep
<1>4. CASE LookupFails(r) \/ FillFails(r)
  <2> PICK to \in {"load", "done"} :
           /\ req' = [req EXCEPT ![r].step = to]
           /\ to = "load" => req[r].step = "lookup"
           /\ req[r].step \in {"lookup", "fill"}
    BY <1>4 DEF LookupFails, FillFails, Goto
  <2> DEFINE q == [req[r] EXCEPT !.step = to]
  <2>1. req' = [req EXCEPT ![r] = q] /\ UNCHANGED <<lapped, rows, cache, writes>> /\ Fault
    BY <1>1, <1>4 DEF LookupFails, FillFails
  <2>2. /\ q \in Request /\ q.step = to /\ q.call = req[r].call /\ q.answer = req[r].answer
        /\ q.stamp = req[r].stamp
    BY <1>1 DEF Request, Steps
  <2> HIDE DEF q
  <2>3. Placed(q) /\ q.stamp = 0
    BY <1>1, <2>2 DEF Placed
  <2> QED
    BY <1>1, <2>1, <2>2, <2>3, FaultCounted, MoveStep
<1>5. CASE Load(r)
  <2> DEFINE c == req[r].call
             missing == c.method = "findOne" /\ \A s \in Source(c) : rows[s] <= 0
             q == [req[r] EXCEPT !.step = IF missing THEN "done" ELSE "fill",
                                 !.answer = IF missing THEN Null ELSE Current(c)]
  <2>1. /\ req' = [req EXCEPT ![r] = q] /\ req[r].step = "load"
        /\ UNCHANGED <<lapped, rows, cache, writes, faults>>
    BY <1>1, <1>5 DEF Load, Current
  <2>2. c \in Reads /\ req[r].stamp = 0
    BY <1>1, <2>1 DEF Placed
  <2>3. /\ Current(c) \in Data /\ DOMAIN Current(c) = Source(c)
        /\ MayShow(c, Source(c), Displaced)
    BY <2>2, CurrentFacts
  <2>4. /\ q \in Request /\ q.call = c /\ q.stamp = 0
        /\ missing => q.step = "done" /\ q.answer = Null
        /\ ~missing => q.step = "fill" /\ q.answer = Current(c)
    BY <1>1, <2>2, <2>3 DEF Request, Steps
  <2> HIDE DEF q, missing
  <2>5. Placed(q) /\ (q.step = "fill" => q.answer = Current(q.call))
    BY <2>2, <2>3, <2>4 DEF Placed
  <2>6. q.answer # Null => MayShow(q.call, DOMAIN q.answer, Displaced)
    BY <2>3, <2>4
  <2>7. r \in InFlight
    BY <2>1 DEF InFlight, Steps
  <2> QED
    BY <1>1, <2>1, <2>4, <2>5, <2>6, <2>7, MoveStep
<1> QED
  BY <1>2, <1>3, <1>4, <1>5

\* A write begins, or its handler throws.
LEMMA BeginOrThrowStep ==
    ASSUME CacheInv, NEW r \in Requests, (\E c \in Writes : StartWrite(r, c)) \/ Throw(r)
    PROVE  CacheInv'
<1>1. /\ req \in [Requests -> Request] /\ req[r] \in Request /\ Placed(req[r])
      /\ lapped \in BOOLEAN /\ faults \in 0 .. MaxFaults
      /\ req[r].answer # Null => MayShow(req[r].call, DOMAIN req[r].answer, Displaced)
  BY DEF CacheInv, Shapes, AnswerIsOwn, MayShow
<1>2. CASE \E c \in Writes : StartWrite(r, c)
  <2> PICK c \in Writes : StartWrite(r, c)
    BY <1>2
  <2> PICK plan \in Plans(c) :
           req' = [req EXCEPT ![r] = [req[r] EXCEPT !.step = "write", !.call = c, !.plan = plan]]
    BY DEF StartWrite
  <2> DEFINE q == [req[r] EXCEPT !.step = "write", !.call = c, !.plan = plan]
  <2>1. /\ req' = [req EXCEPT ![r] = q] /\ req[r].step = "idle"
        /\ lapped' = (lapped \/ InFlight # {})
        /\ UNCHANGED <<rows, cache, writes, faults>>
    BY DEF StartWrite
  <2>2. /\ plan \in Seq(Rows)
        /\ c.method # "paymentReceived" => \A n \in 1 .. Len(plan) : plan[n] = Changed(c)
    BY PlanFacts
  <2>3. /\ q \in Request /\ q.step = "write" /\ q.call = c /\ q.answer = Null /\ q.stamp = 0
        /\ q.plan = plan
    BY <1>1, <2>1, <2>2 DEF Request, Steps, Calls, Placed, Writes
  <2> HIDE DEF q
  <2>4. Placed(q)
    BY <2>2, <2>3 DEF Placed, PlanOwn
  <2>5. lapped' \in BOOLEAN /\ (~lapped' => ~lapped /\ InFlight = {})
    BY <2>1
  <2> QED
    BY <1>1, <2>1, <2>3, <2>4, <2>5, MoveStep
<1>3. CASE Throw(r)
  <2> DEFINE q == [req[r] EXCEPT !.step = "done", !.stamp = 0]
  <2>1. /\ req' = [req EXCEPT ![r] = q] /\ req[r].step = "write"
        /\ UNCHANGED <<lapped, rows, cache, writes, faults>>
    BY <1>1, <1>3 DEF Throw
  <2>2. /\ q \in Request /\ q.step = "done" /\ q.call = req[r].call /\ q.answer = req[r].answer
        /\ q.stamp = 0
    <3>1. 0 \in 0 .. MaxWrites
      BY CacheAssumption
    <3> QED
      BY <1>1, <3>1 DEF Request
  <2> HIDE DEF q
  <2>3. Placed(q)
    BY <2>2 DEF Placed
  <2>4. r \in InFlight
    BY <2>1 DEF InFlight, Steps
  <2> QED
    BY <1>1, <2>1, <2>2, <2>3, <2>4, MoveStep
<1> QED
  BY <1>2, <1>3

\* The answer goes to Redis under the key of its own call.
LEMMA FillStep ==
    ASSUME CacheInv, NEW r \in Requests, Fill(r)
    PROVE  CacheInv'
<1> DEFINE c == req[r].call
           e == [data |-> req[r].answer, ttl |-> TTL]
           q == [req[r] EXCEPT !.step = "done"]
<1>1. /\ req \in [Requests -> Request] /\ req[r] \in Request /\ Placed(req[r])
      /\ cache \in [ReadKeys -> Entry \cup {Null}]
      /\ req[r].answer # Null => MayShow(c, DOMAIN req[r].answer, Displaced)
  BY DEF CacheInv, Shapes, AnswerIsOwn, MayShow
<1>2. /\ req[r].step = "fill" /\ cache' = [cache EXCEPT ![Key(c)] = e]
      /\ req' = [req EXCEPT ![r] = q]
      /\ UNCHANGED <<lapped, rows, writes, faults>>
  BY <1>1 DEF Fill, Goto
<1>3. /\ c \in Reads /\ Key(c) \in ReadKeys /\ req[r].stamp = 0
      /\ req[r].answer \in Data /\ DOMAIN req[r].answer = Source(c)
  BY <1>1, <1>2 DEF Placed, ReadKeys
<1>4. /\ q \in Request /\ q.step = "done" /\ q.call = c /\ q.answer = req[r].answer
      /\ q.stamp = 0
  BY <1>1, <1>3 DEF Request
<1>5. e \in Entry /\ e.data = req[r].answer
  BY <1>3 DEF Entry
<1>6. r \in InFlight
  BY <1>2 DEF InFlight, Steps
<1> HIDE DEF q, e
<1>7. Placed(q)
  BY <1>4 DEF Placed
<1>8. /\ req' \in [Requests -> Request] /\ req'[r] = q
      /\ \A x \in Requests \ {r} : req'[x] = req[x]
      /\ \A x \in Requests : Placed(req'[x])
      /\ Displaced \subseteq Displaced' /\ AnswerIsOwn'
  BY <1>1, <1>2, <1>4, <1>7, RequestMoves
<1>9. /\ cache' \in [ReadKeys -> Entry \cup {Null}]
      /\ cache'[Key(c)] = e
      /\ \A k \in ReadKeys : k # Key(c) => cache'[k] = cache[k]
  BY <1>1, <1>2, <1>3, <1>5
<1>10. Shapes'
  BY <1>2, <1>8, <1>9 DEF CacheInv, Shapes
<1>11. EntriesOwn'
  <2> SUFFICES ASSUME NEW d \in Reads, cache'[Key(d)] # Null
               PROVE  /\ d.user = Null => DOMAIN cache'[Key(d)].data \subseteq ProductsOf(d.tenant)
                      /\ (Key(d) \notin Displaced' /\ ~Displaces(d)) =>
                            DOMAIN cache'[Key(d)].data = Source(d)
    BY DEF EntriesOwn
  <2>1. CASE Key(d) = Key(c)
    <3>1. DOMAIN cache'[Key(d)].data = Source(c)
      BY <1>3, <1>5, <1>9, <2>1
    <3>2. d.user = Null => Source(c) \subseteq ProductsOf(d.tenant)
      <4>1. d.user = Null => c.user = Null /\ c.tenant = d.tenant
        BY <1>3, <2>1, KeyTenant
      <4> QED
        BY <1>3, <4>1, SourceRows
    <3>3. (Key(d) \notin Displaced' /\ ~Displaces(d)) => Source(c) = Source(d)
      <4> SUFFICES ASSUME Key(d) \notin Displaced', ~Displaces(d) PROVE Source(c) = Source(d)
        OBVIOUS
      <4>1. ~Displaces(c)
        BY <1>3, <1>8, <2>1, DisplacedHas
      <4> QED
        BY <1>3, <2>1, <4>1, KeySource
    <3> QED
      BY <3>1, <3>2, <3>3
  <2>2. CASE Key(d) # Key(c)
    <3>1. cache'[Key(d)] = cache[Key(d)] /\ cache[Key(d)] # Null
      BY <1>9, <2>2 DEF ReadKeys
    <3> QED
      BY <1>8, <3>1 DEF CacheInv, EntriesOwn
  <2> QED
    BY <2>1, <2>2
<1>12. RowsKeep'
  BY <1>2, <1>4, <1>8, StampsKept
<1>13. Sequential'
  <2> SUFFICES ASSUME ~lapped, faults = 0
               PROVE  OneAtATime' /\ LoadedFresh' /\ OldIsDropped'
    BY <1>2 DEF Sequential
  <2>1. OneAtATime /\ LoadedFresh /\ OldIsDropped
    BY DEF CacheInv, Sequential
  <2>2. OneAtATime'
    BY <1>6, <1>8, <2>1, OneMoves
  <2>3. \A w \in Requests : Marked(req'[w]) => req'[w] = req[w]
    BY <1>4, <1>8 DEF Marked
  <2>4. LoadedFresh'
    BY <1>4, <1>8, <2>1, <2>3 DEF LoadedFresh
  <2>5. OldIsDropped'
    <3> SUFFICES ASSUME NEW w \in Requests, NEW d \in Reads, Marked(req'[w]),
                        Names(req'[w].call, d), cache'[Key(d)] # Null
                 PROVE  \/ Shows(cache'[Key(d)].data, req'[w]) \/ req'[w].step = "write"
                        \/ Drops(req'[w], Key(d))
      BY DEF OldIsDropped
    <3>1. req'[w] = req[w] /\ Marked(req[w])
      BY <2>3
    <3>2. CASE Key(d) = Key(c)
      <4>1. Shows(req[r].answer, req[w])
        BY <1>2, <2>1, <3>1 DEF LoadedFresh
      <4> QED
        BY <1>5, <1>9, <3>1, <3>2, <4>1
    <3>3. CASE Key(d) # Key(c)
      <4>1. cache'[Key(d)] = cache[Key(d)]
        BY <1>9, <3>3 DEF ReadKeys
      <4> QED
        BY <2>1, <3>1, <4>1 DEF OldIsDropped
    <3> QED
      BY <3>2, <3>3
  <2> QED
    BY <2>2, <2>4, <2>5
<1> QED
  BY <1>8, <1>10, <1>11, <1>12, <1>13 DEF CacheInv

\* The handler changes a row: the decorator comes later.
LEMMA WriteStep ==
    ASSUME CacheInv, NEW r \in Requests, Write(r)
    PROVE  CacheInv'
<1> DEFINE c == req[r].call
           plan == req[r].plan
           s == Head(plan)
           n == IF c.method = "remove" THEN -(writes + 1) ELSE writes + 1
           q == [req[r] EXCEPT !.plan = Tail(plan), !.stamp = writes + 1]
<1>1. /\ req \in [Requests -> Request] /\ req[r] \in Request /\ Placed(req[r])
      /\ writes \in 0 .. MaxWrites
      /\ req[r].answer # Null => MayShow(c, DOMAIN req[r].answer, Displaced)
  BY DEF CacheInv, Shapes, AnswerIsOwn, MayShow
<1>2. /\ req[r].step = "write" /\ plan # <<>> /\ writes < MaxWrites
      /\ rows' = [rows EXCEPT ![s] = n]
      /\ writes' = writes + 1
      /\ req' = [req EXCEPT ![r] = q]
      /\ UNCHANGED <<lapped, cache, faults>>
  BY <1>1 DEF Write
<1>3. c \in Writes /\ PlanOwn(req[r]) /\ plan \in Seq(Rows)
  BY <1>1, <1>2 DEF Placed, Request
<1>4. /\ s \in Rows /\ Tail(plan) \in Seq(Rows) /\ s = plan[1] /\ Len(plan) \in Nat \ {0}
      /\ Len(Tail(plan)) = Len(plan) - 1
      /\ \A m \in 1 .. Len(Tail(plan)) : Tail(plan)[m] = plan[m + 1]
  BY <1>2, <1>3, HeadTailProperties, EmptySeq, LenProperties
<1>5. c.method # "paymentReceived" =>
          s = Changed(c) /\ \A m \in 1 .. Len(Tail(plan)) : Tail(plan)[m] = Changed(c)
  BY <1>3, <1>4 DEF PlanOwn
<1>6. /\ q \in Request /\ q.call = c /\ q.answer = req[r].answer /\ q.plan = Tail(plan)
      /\ q.step = "write" /\ q.stamp = writes + 1
  <2>1. writes + 1 \in 0 .. MaxWrites
    BY <1>1, <1>2, CacheAssumption
  <2> QED
    BY <1>1, <1>2, <1>4, <2>1 DEF Request
<1>7. n \in {writes + 1, -(writes + 1)}
  OBVIOUS
<1>8. r \in InFlight
  BY <1>2 DEF InFlight, Steps
<1> HIDE DEF q, s, n, plan
<1>9. Placed(q)
  BY <1>3, <1>5, <1>6 DEF Placed, PlanOwn
<1>10. /\ req' \in [Requests -> Request] /\ req'[r] = q
       /\ \A x \in Requests \ {r} : req'[x] = req[x]
       /\ \A x \in Requests : Placed(req'[x])
       /\ Displaced \subseteq Displaced' /\ AnswerIsOwn'
  BY <1>1, <1>2, <1>6, <1>9, RequestMoves
<1>11. /\ rows' \in [Rows -> -MaxWrites .. MaxWrites] /\ writes' \in 0 .. MaxWrites
       /\ RowsKeep'
  <2>1. \A w \in Requests :
            \/ req'[w] = req[w]
            \/ req'[w].stamp = writes + 1 /\ (Marked(req'[w]) => Changed(req'[w].call) = s)
    BY <1>5, <1>6, <1>10 DEF Marked
  <2> QED
    BY <1>2, <1>4, <1>7, <2>1, RowWritten
<1>12. Shapes'
  BY <1>2, <1>10, <1>11 DEF CacheInv, Shapes
<1>13. EntriesOwn'
  BY <1>2, <1>10, EntriesKept
<1>14. Sequential'
  <2> SUFFICES ASSUME ~lapped, faults = 0
               PROVE  OneAtATime' /\ LoadedFresh' /\ OldIsDropped'
    BY <1>2 DEF Sequential
  <2>1. OneAtATime /\ LoadedFresh /\ OldIsDropped
    BY DEF CacheInv, Sequential
  <2>2. OneAtATime' /\ \A x \in Requests \ {r} : x \notin InFlight /\ x \notin InFlight'
    BY <1>8, <1>10, <2>1, OneMoves
  <2>3. LoadedFresh'
    <3>1. \A x \in Requests : req'[x].step # "fill"
      BY <1>6, <1>10, <2>2 DEF InFlight, Steps
    <3> QED
      BY <3>1 DEF LoadedFresh
  <2>4. OldIsDropped'
    BY <1>2, <1>6, <1>10, <2>1 DEF OldIsDropped
  <2> QED
    BY <2>2, <2>3, <2>4
<1> QED
  BY <1>10, <1>11, <1>12, <1>13, <1>14 DEF CacheInv

\* The handler returns: what its decorator is for is now to be deleted.
LEMMA ReturnStep ==
    ASSUME CacheInv, NEW r \in Requests, Return(r)
    PROVE  CacheInv'
<1> DEFINE c == req[r].call
           todo == Targets(c)
           q == [req[r] EXCEPT !.step = IF todo = <<>> THEN "done" ELSE "invalidate",
                               !.todo = todo]
<1>1. /\ req \in [Requests -> Request] /\ req[r] \in Request /\ Placed(req[r])
      /\ req[r].answer # Null => MayShow(c, DOMAIN req[r].answer, Displaced)
  BY DEF CacheInv, Shapes, AnswerIsOwn, MayShow
<1>2. /\ req[r].step = "write" /\ req' = [req EXCEPT ![r] = q]
      /\ UNCHANGED <<lapped, rows, cache, writes, faults>>
  BY DEF Return
<1>3. c \in Writes
  BY <1>1, <1>2 DEF Placed
<1>4. todo \in Seq(SUBSET TargetKeys)
  BY <1>3, TargetsType
<1>5. /\ q \in Request /\ q.call = c /\ q.answer = req[r].answer /\ q.stamp = req[r].stamp
      /\ q.todo = todo
      /\ todo = <<>> => q.step = "done"
      /\ todo # <<>> => q.step = "invalidate"
  BY <1>1, <1>4 DEF Request, Steps
<1>6. r \in InFlight
  BY <1>2 DEF InFlight, Steps
<1> HIDE DEF q, todo
<1>7. Placed(q)
  BY <1>3, <1>5 DEF Placed
<1>8. /\ req' \in [Requests -> Request] /\ req'[r] = q
      /\ \A x \in Requests \ {r} : req'[x] = req[x]
      /\ \A x \in Requests : Placed(req'[x])
      /\ Displaced \subseteq Displaced' /\ AnswerIsOwn'
  BY <1>1, <1>2, <1>5, <1>7, RequestMoves
<1>9. Shapes'
  BY <1>2, <1>8 DEF CacheInv, Shapes
<1>10. EntriesOwn'
  BY <1>2, <1>8, EntriesKept
<1>11. RowsKeep'
  BY <1>2, <1>5, <1>8, StampsKept
<1>12. Sequential'
  <2> SUFFICES ASSUME ~lapped, faults = 0
               PROVE  OneAtATime' /\ LoadedFresh' /\ OldIsDropped'
    BY <1>2 DEF Sequential
  <2>1. OneAtATime /\ LoadedFresh /\ OldIsDropped
    BY DEF CacheInv, Sequential
  <2>2. OneAtATime' /\ \A x \in Requests \ {r} : x \notin InFlight /\ x \notin InFlight'
    BY <1>6, <1>8, <2>1, OneMoves
  <2>3. LoadedFresh'
    <3>1. \A x \in Requests : req'[x].step # "fill"
      BY <1>5, <1>8, <2>2 DEF InFlight, Steps
    <3> QED
      BY <3>1 DEF LoadedFresh
  <2>4. OldIsDropped'
    <3> SUFFICES ASSUME NEW w \in Requests, NEW d \in Reads, Marked(req'[w]),
                        Names(req'[w].call, d), cache'[Key(d)] # Null
                 PROVE  \/ Shows(cache'[Key(d)].data, req'[w]) \/ req'[w].step = "write"
                        \/ Drops(req'[w], Key(d))
      BY DEF OldIsDropped
    <3>1. CASE w = r
      <4>1. \E n \in 1 .. Len(todo) : Key(d) \in todo[n]
        BY <1>3, <1>5, <1>8, <3>1, NamedIsTarget DEF todo
      <4>2. todo # <<>>
        BY <4>1, EmptySeq
      <4> QED
        BY <1>5, <1>8, <3>1, <4>1, <4>2 DEF Drops
    <3>2. CASE w # r
      BY <1>2, <1>8, <2>1, <3>2 DEF OldIsDropped
    <3> QED
      BY <3>1, <3>2
  <2> QED
    BY <2>2, <2>3, <2>4
<1> QED
  BY <1>8, <1>9, <1>10, <1>11, <1>12 DEF CacheInv

\* A request that deletes goes on to its next target, or is done after the last.
LEMMA NextTargetMoves ==
    ASSUME CacheInv, NEW r \in Requests, req[r].step = "invalidate", NextTarget(r)
    PROVE  \E q \in Request :
              /\ Placed(q)
              /\ req' = [req EXCEPT ![r] = q]
              /\ q.call = req[r].call /\ q.stamp = req[r].stamp
              /\ q.answer # Null => MayShow(q.call, DOMAIN q.answer, Displaced)
              /\ q.step # "fill"
              /\ Len(req[r].todo) # 1 => q.step = "invalidate"
              /\ q.todo = Tail(req[r].todo)
<1> DEFINE S == SUBSET TargetKeys
           todo == req[r].todo
           q == [req[r] EXCEPT !.step = IF Len(todo) = 1 THEN "done" ELSE "invalidate",
                               !.todo = Tail(todo)]
<1>1. /\ req \in [Requests -> Request] /\ req[r] \in Request /\ Placed(req[r])
      /\ req[r].answer # Null => MayShow(req[r].call, DOMAIN req[r].answer, Displaced)
  BY DEF CacheInv, Shapes, AnswerIsOwn, MayShow
<1>2. todo \in Seq(S) /\ todo # <<>>
  BY <1>1 DEF Request, Placed
<1> HIDE DEF S
<1>3. Tail(todo) \in Seq(S) /\ (Len(todo) # 1 => Tail(todo) # <<>>)
  <2>1. Tail(todo) \in Seq(S) /\ Len(Tail(todo)) = Len(todo) - 1
    BY <1>2, HeadTailProperties
  <2>2. Len(todo) \in Nat \ {0}
    BY <1>2, EmptySeq, LenProperties
  <2>3. Len(todo) # 1 => Len(Tail(todo)) # 0
    BY <2>1, <2>2
  <2> QED
    BY <2>1, <2>3, EmptySeq
<1>4. /\ q \in Request /\ q.call = req[r].call /\ q.answer = req[r].answer
      /\ q.stamp = req[r].stamp /\ q.todo = Tail(todo)
      /\ Len(todo) = 1 => q.step = "done"
      /\ Len(todo) # 1 => q.step = "invalidate"
  BY <1>1, <1>3 DEF Request, Steps, S
<1>5. req' = [req EXCEPT ![r] = q]
  BY <1>1 DEF NextTarget
<1> HIDE DEF q, todo
<1>6. Placed(q)
  <2>1. req[r].call \in Writes
    BY <1>1 DEF Placed
  <2> QED
    BY <1>3, <1>4, <2>1 DEF Placed
<1>7. q.step # "fill"
  BY <1>4
<1> USE DEF todo
<1> QED
  BY <1>1, <1>4, <1>5, <1>6, <1>7

\* The keys of the first target are deleted: what is still to be is in the rest.
LEMMA InvalidateStep ==
    ASSUME CacheInv, NEW r \in Requests, Invalidate(r)
    PROVE  CacheInv'
<1> DEFINE todo == req[r].todo
<1>1. /\ req[r].step = "invalidate" /\ NextTarget(r)
      /\ cache' = [k \in DOMAIN cache |-> IF k \in Head(todo) THEN Null ELSE cache[k]]
      /\ UNCHANGED <<lapped, rows, writes, faults>>
  BY DEF Invalidate
<1>2. PICK q \in Request :
          /\ Placed(q)
          /\ req' = [req EXCEPT ![r] = q]
          /\ q.call = req[r].call /\ q.stamp = req[r].stamp
          /\ q.answer # Null => MayShow(q.call, DOMAIN q.answer, Displaced)
          /\ q.step # "fill"
          /\ Len(todo) # 1 => q.step = "invalidate"
          /\ q.todo = Tail(todo)
  BY <1>1, NextTargetMoves
<1>3. /\ req' \in [Requests -> Request] /\ req'[r] = q
      /\ \A x \in Requests \ {r} : req'[x] = req[x]
      /\ \A x \in Requests : Placed(req'[x])
      /\ Displaced \subseteq Displaced' /\ AnswerIsOwn'
  BY <1>2, RequestMoves
<1>4. /\ cache \in [ReadKeys -> Entry \cup {Null}]
      /\ todo \in Seq(SUBSET TargetKeys) /\ todo # <<>>
  BY <1>1 DEF CacheInv, Shapes, Request, Placed
<1>5. /\ cache' \in [ReadKeys -> Entry \cup {Null}]
      /\ \A k \in ReadKeys : cache'[k] # Null => cache'[k] = cache[k] /\ k \notin Head(todo)
  BY <1>1, <1>4
<1> HIDE DEF todo
<1>6. Shapes'
  BY <1>1, <1>3, <1>5 DEF CacheInv, Shapes
<1>7. EntriesOwn'
  BY <1>3, <1>5, EntriesKept
<1>8. RowsKeep'
  BY <1>1, <1>2, <1>3, StampsKept
<1>9. Sequential'
  <2> SUFFICES ASSUME ~lapped, faults = 0
               PROVE  OneAtATime' /\ LoadedFresh' /\ OldIsDropped'
    BY <1>1 DEF Sequential
  <2>1. OneAtATime /\ LoadedFresh /\ OldIsDropped
    BY DEF CacheInv, Sequential
  <2>2. OneAtATime' /\ \A x \in Requests \ {r} : x \notin InFlight /\ x \notin InFlight'
    <3>1. r \in InFlight
      BY <1>1 DEF InFlight, Steps
    <3> QED
      BY <1>3, <2>1, <3>1, OneMoves
  <2>3. LoadedFresh'
    <3>1. \A x \in Requests : req'[x].step # "fill"
      BY <1>2, <1>3, <2>2 DEF InFlight, Steps
    <3> QED
      BY <3>1 DEF LoadedFresh
  <2>4. OldIsDropped'
    <3> SUFFICES ASSUME NEW w \in Requests, NEW d \in Reads, Marked(req'[w]),
                        Names(req'[w].call, d), cache'[Key(d)] # Null
                 PROVE  \/ Shows(cache'[Key(d)].data, req'[w]) \/ req'[w].step = "write"
                        \/ Drops(req'[w], Key(d))
      BY DEF OldIsDropped
    <3>1. cache'[Key(d)] = cache[Key(d)] /\ cache[Key(d)] # Null /\ Key(d) \notin Head(todo)
      BY <1>5 DEF ReadKeys
    <3>2. CASE w # r
      BY <1>3, <2>1, <3>1, <3>2 DEF OldIsDropped
    <3>3. CASE w = r
      <4>1. Marked(req[r]) /\ Names(req[r].call, d)
        BY <1>2, <1>3, <3>3 DEF Marked
      <4>2. Shows(cache[Key(d)].data, req[r]) \/ Drops(req[r], Key(d))
        BY <1>1, <2>1, <3>1, <4>1 DEF OldIsDropped
      <4>3. CASE Shows(cache[Key(d)].data, req[r])
        BY <1>2, <1>3, <3>1, <3>3, <4>3 DEF Shows
      <4>4. CASE Drops(req[r], Key(d))
        <5>1. PICK n \in 1 .. Len(todo) : Key(d) \in todo[n]
          BY <4>4 DEF Drops, todo
        <5>2. /\ Head(todo) = todo[1]
              /\ Len(Tail(todo)) = Len(todo) - 1 /\ Len(todo) \in Nat
              /\ \A m \in 1 .. Len(Tail(todo)) : Tail(todo)[m] = todo[m + 1]
          BY <1>4, HeadTailProperties, LenProperties
        <5>3. n # 1
          BY <3>1, <5>1, <5>2
        <5>4. n - 1 \in 1 .. Len(Tail(todo)) /\ Tail(todo)[n - 1] = todo[n] /\ Len(todo) # 1
          BY <5>1, <5>2, <5>3
        <5> QED
          BY <1>2, <1>3, <3>3, <5>1, <5>4 DEF Drops
      <4> QED
        BY <4>2, <4>3, <4>4
    <3> QED
      BY <3>2, <3>3
  <2> QED
    BY <2>2, <2>3, <2>4
<1> QED
  BY <1>3, <1>6, <1>7, <1>8, <1>9 DEF CacheInv

\* A deletion that fails is a fault, after which entries may be stale.
LEMMA InvalidateFailsStep ==
    ASSUME CacheInv, NEW r \in Requests, InvalidateFails(r)
    PROVE  CacheInv'
<1>1. /\ req[r].step = "invalidate" /\ NextTarget(r) /\ Fault
      /\ UNCHANGED <<lapped, rows, cache, writes>>
  BY DEF InvalidateFails
<1>2. PICK q \in Request :
          /\ Placed(q)
          /\ req' = [req EXCEPT ![r] = q]
          /\ q.call = req[r].call /\ q.stamp = req[r].stamp
          /\ q.answer # Null => MayShow(q.call, DOMAIN q.answer, Displaced)
  BY <1>1, NextTargetMoves
<1>3. /\ req' \in [Requests -> Request] /\ req'[r] = q
      /\ \A x \in Requests \ {r} : req'[x] = req[x]
      /\ \A x \in Requests : Placed(req'[x])
      /\ Displaced \subseteq Displaced' /\ AnswerIsOwn'
  BY <1>2, RequestMoves
<1>4. faults' \in 0 .. MaxFaults /\ faults' # 0
  BY <1>1, FaultCounted
<1>5. Shapes'
  BY <1>1, <1>3, <1>4 DEF CacheInv, Shapes
<1>6. EntriesOwn'
  BY <1>1, <1>3, EntriesKept
<1>7. RowsKeep'
  BY <1>1, <1>2, <1>3, StampsKept
<1>8. Sequential'
  BY <1>4 DEF Sequential
<1> QED
  BY <1>3, <1>5, <1>6, <1>7, <1>8 DEF CacheInv

\* Without a step of a request, answers and keys stay as they are.
LEMMA RequestsStay ==
    ASSUME CacheInv, req' = req
    PROVE  Displaced \subseteq Displaced' /\ AnswerIsOwn'
<1>1. Displaced' = Displaced
  BY DEF Displaced
<1> QED
  BY <1>1 DEF CacheInv, AnswerIsOwn

\* The consumers give the rows of orders new numbers.
LEMMA ConsumerStep ==
    ASSUME CacheInv, NEW u \in Users, ConsumerWrites(u)
    PROVE  CacheInv'
<1>1. /\ rows' = [rows EXCEPT ![OrdersOf(u)] = writes + 1] /\ writes < MaxWrites
      /\ writes' = writes + 1
      /\ UNCHANGED <<lapped, cache, req, faults>>
  BY DEF ConsumerWrites
<1>2. OrdersOf(u) \in Rows
  BY DEF Rows
<1>3. /\ rows' \in [Rows -> -MaxWrites .. MaxWrites] /\ writes' \in 0 .. MaxWrites
      /\ RowsKeep'
  <2>1. \A w \in Requests : req'[w] = req[w]
    BY <1>1
  <2> QED
    BY <1>1, <1>2, <2>1, RowWritten
<1>4. Shapes'
  BY <1>1, <1>3 DEF CacheInv, Shapes
<1>5. AnswerIsOwn' /\ EntriesOwn'
  BY <1>1, RequestsStay, EntriesKept
<1>6. Sequential'
  BY <1>1 DEF CacheInv, Sequential, OneAtATime, LoadedFresh, OldIsDropped, InFlight
<1> QED
  BY <1>1, <1>3, <1>4, <1>5, <1>6 DEF CacheInv

\* An entry that expires is gone.
LEMMA ExpireStep ==
    ASSUME CacheInv, NEW k \in DOMAIN cache, Expire(k)
    PROVE  CacheInv'
<1>1. cache' = [cache EXCEPT ![k] = Null] /\ UNCHANGED <<lapped, rows, req, writes, faults>>
  BY DEF Expire
<1>2. cache \in [ReadKeys -> Entry \cup {Null}]
  BY DEF CacheInv, Shapes
<1>3. /\ cache' \in [ReadKeys -> Entry \cup {Null}]
      /\ \A j \in ReadKeys : cache'[j] # Null => cache'[j] = cache[j]
  BY <1>1, <1>2
<1>4. Shapes'
  BY <1>1, <1>3 DEF CacheInv, Shapes
<1>5. AnswerIsOwn' /\ EntriesOwn'
  BY <1>1, <1>3, RequestsStay, EntriesKept
<1>6. RowsKeep'
  BY <1>1, StampsKept
<1>7. Sequential'
  <2> SUFFICES ASSUME ~lapped, faults = 0
               PROVE  OneAtATime' /\ LoadedFresh' /\ OldIsDropped'
    BY <1>1 DEF Sequential
  <2>1. OneAtATime /\ LoadedFresh /\ OldIsDropped
    BY DEF CacheInv, Sequential
  <2>2. OneAtATime' /\ LoadedFresh'
    BY <1>1, <2>1 DEF OneAtATime, InFlight, LoadedFresh
  <2>3. OldIsDropped'
    <3>1. \A c \in Reads : cache'[Key(c)] # Null => cache'[Key(c)] = cache[Key(c)]
      BY <1>3 DEF ReadKeys
    <3> QED
      BY <1>1, <2>1, <3>1 DEF OldIsDropped
  <2> QED
    BY <2>2, <2>3
<1> QED
  BY <1>1, <1>4, <1>5, <1>6, <1>7 DEF CacheInv

\* Every step of a request, a consumer or Redis preserves the invariant.
LEMMA StepInv == CacheInv /\ [Next]_vars => CacheInv'
<1> SUFFICES ASSUME CacheInv, [Next]_vars PROVE CacheInv'
  OBVIOUS
<1>1. CASE \E r \in Requests :
              (\E c \in Reads : StartRead(r, c)) \/ Lookup(r) \/ LookupFails(r) \/ Load(r)
                  \/ FillFails(r)
  BY <1>1, ReadStep
<1>2. CASE \E r \in Requests :
              (\E c \in ProductWrites \cup OrderWrites : StartWrite(r, c)) \/ Throw(r)
  BY <1>2, BeginOrThrowStep DEF Writes
<1>3. CASE \E r \in Requests : Fill(r)
  BY <1>3, FillStep
<1>4. CASE \E r \in Requests : Write(r)
  BY <1>4, WriteStep
<1>5. CASE \E r \in Requests : Return(r)
  BY <1>5, ReturnStep
<1>6. CASE \E r \in Requests : Invalidate(r)
  BY <1>6, InvalidateStep
<1>7. CASE \E r \in Requests : InvalidateFails(r)
  BY <1>7, InvalidateFailsStep
<1>8. CASE \E u \in Users : ConsumerWrites(u)
  BY <1>8, ConsumerStep
<1>9. CASE \E k \in DOMAIN cache : Expire(k)
  BY <1>9, ExpireStep
<1>10. CASE UNCHANGED vars
  <2>1. UNCHANGED <<rows, cache, req, lapped, writes, faults>>
    BY <1>10 DEF vars
  <2>2. Shapes' /\ \A r \in Requests : Placed(req'[r])
    BY <2>1 DEF CacheInv, Shapes
  <2>3. AnswerIsOwn' /\ EntriesOwn' /\ RowsKeep'
    BY <2>1, RequestsStay, EntriesKept, StampsKept
  <2>4. Sequential'
    BY <2>1 DEF CacheInv, Sequential, OneAtATime, LoadedFresh, OldIsDropped, InFlight
  <2> QED
    BY <2>2, <2>3, <2>4 DEF CacheInv
<1> QED
  BY <1>1, <1>2, <1>3, <1>4, <1>5, <1>6, <1>7, <1>8, <1>9, <1>10 DEF Next

-----------------------------------------------------------------------------
(* The theorems.                                                            *)

\* CacheInv holds throughout: entries and answers have a source, rows never go back,
\* and without overlap an old entry that a decorator names is about to be deleted.
THEOREM CacheInvariant == Spec => []CacheInv
<1>1. Init => CacheInv
  BY InitInv
<1>2. CacheInv /\ [Next]_vars => CacheInv'
  BY StepInv
<1> QED
  BY <1>1, <1>2, PTL DEF Spec

\* Rows, entries and requests have their types, and an entry is made from rows that
\* there are and has a TTL (TypeOK).
THEOREM CacheTyped == Spec => []TypeOK
<1>1. CacheInv => TypeOK
  <2> SUFFICES ASSUME CacheInv PROVE TypeOK
    OBVIOUS
  <2>1. \A k \in DOMAIN cache : cache[k] # Null =>
           DOMAIN cache[k].data \subseteq Rows /\ cache[k].ttl \in Nat
    <3> SUFFICES ASSUME NEW k \in DOMAIN cache, cache[k] # Null
                 PROVE  DOMAIN cache[k].data \subseteq Rows /\ cache[k].ttl \in Nat
      OBVIOUS
    <3>1. cache[k] \in Entry
      BY DEF CacheInv, Shapes
    <3>2. cache[k].ttl = TTL /\ cache[k].data \in Data
      BY <3>1 DEF Entry
    <3> QED
      BY <3>2 DEF Data, TTL
  <2>2. \A r \in Requests :
           /\ req[r].step \in Steps \cup {"idle", "done"}
           /\ req[r].call \in Calls \cup {Null}
           /\ req[r].stamp \in 0 .. MaxWrites
    BY DEF CacheInv, Shapes, Request
  <2> QED
    BY <2>1, <2>2 DEF CacheInv, Shapes, TypeOK
<1> QED
  BY <1>1, CacheInvariant, PTL

\* Whatever overlaps, expires or fails and whatever the queries are, an answer about
\* products shows only those of the database that the path names, and an answer
\* under a key that no displacing query has used is made from the rows the request
\* itself would have read (AnswerIsOwn).
THEOREM AnswersOwn == Spec => []AnswerIsOwn
<1>1. CacheInv => AnswerIsOwn
  BY DEF CacheInv
<1> QED
  BY <1>1, CacheInvariant, PTL

\* However many requests follow one another, as long as none overlaps with another
\* and Redis answers, an entry that a decorator names does not show the row as it
\* was before the write, whatever payments, throwing handlers and queries come between
\* (NamedEntryFresh).
THEOREM NamedFresh == Spec => []NamedEntryFresh
<1>1. CacheInv => NamedEntryFresh
  <2> SUFFICES ASSUME CacheInv, ~lapped, faults = 0, InFlight = {},
                      NEW r \in Requests, req[r].stamp # 0, NEW c \in Reads,
                      Names(req[r].call, c), cache[Key(c)] # Null
               PROVE  Shows(cache[Key(c)].data, req[r])
    BY DEF NamedEntryFresh, Shows
  <2>1. req[r].step \notin {"write", "invalidate"}
    BY DEF InFlight, Steps
  <2>2. Marked(req[r])
    BY DEF Names, Marked
  <2> QED
    BY <2>1, <2>2 DEF CacheInv, Sequential, OldIsDropped, Drops
<1> QED
  BY <1>1, CacheInvariant, PTL

=============================================================================
