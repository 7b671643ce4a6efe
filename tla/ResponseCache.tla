---------------------------- MODULE ResponseCache ----------------------------
(***************************************************************************)
(* CacheInterceptor and CacheService around the cached endpoints:          *)
(* ProductController.findAll and findOne of every tenant, and a customer's *)
(* OrderController.findAll, which lists the orders of all tenants.         *)
(*                                                                         *)
(* Redis, the databases and the requests are separate, so a request is a   *)
(* sequence of steps that interleave with those of others. A row is known  *)
(* by the number of the write that produced it (negative when that removed *)
(* it, 0 before there was one), and a response by the rows it was made     *)
(* from. The interceptor's tap(async ...) is not awaited: the client has   *)
(* its answer before the cache is filled or invalidated.                   *)
(*                                                                         *)
(* Parameters are functions from their names, as in an object of           *)
(* JavaScript; that JSON also keeps their order is left out, which can     *)
(* only give requests a key in common that they do not have.               *)
(***************************************************************************)
EXTENDS Integers, Sequences

CONSTANTS Codes,        \* tenant codes as they are typed in the path
          Databases,
          DbName,       \* the database a code names
          Ids,          \* product ids
          Users,        \* customers
          Queries,      \* query parameters of a request that has some
          Requests,     \* the requests that may be made
          Existing,     \* the rows that are there at the start
          MaxItems,     \* items of an order
          MaxWrites,
          MaxFaults,
          Null

VARIABLES rows,   \* for each product and each customer's orders, the last write
          cache,  \* Redis
          req,    \* the requests
          lapped, \* whether requests have overlapped, for the properties
          writes, \* writes so far
          faults  \* Redis errors so far

vars == <<rows, cache, req, lapped, writes, faults>>

-----------------------------------------------------------------------------
Products == [database : Databases, id : Ids, user : {Null}]
ProductsOf(t) == {p \in Products : p.database = DbName[t]}
OrdersOf(u) == [database |-> Null, id |-> Null, user |-> u]
Rows == Products \cup {OrdersOf(u) : u \in Users}

NoQuery == [n \in {} |-> Null]

\* A call: the method, the parameters of its path (for create the id that the new
\* product gets), the user and the query parameters.
Call(method, tenant, id, user, query) ==
    [method |-> method, tenant |-> tenant, id |-> id, user |-> user, query |-> query]

Reads ==
    {Call("findAll", t, Null, Null, q) : t \in Codes, q \in Queries \cup {NoQuery}}
    \cup {Call("findOne", t, i, Null, q) :
              t \in Codes, i \in Ids, q \in Queries \cup {NoQuery}}
    \cup {Call("findAllOrders", Null, Null, u, q) : u \in Users, q \in Queries \cup {NoQuery}}

ProductWrites == [method : {"create", "update", "remove"}, tenant : Codes, id : Ids,
                  user : {Null}, query : Queries \cup {NoQuery}]

\* What these delete does not depend on their parameters.
OrderWrites ==
    [method : {"createOrder", "paymentReceived", "completeOrder"}, tenant : Codes,
     id : {Null}, user : Users, query : {NoQuery}]

Calls == Reads \cup ProductWrites \cup OrderWrites

ASSUME CacheAssumption ==
    /\ DbName \in [Codes -> Databases]
    /\ Existing \subseteq Rows
    /\ MaxItems \in Nat /\ MaxWrites \in Nat \ {0} /\ MaxFaults \in Nat
    /\ Null \notin Codes \cup Databases \cup Ids \cup Users \cup Calls

\* The rows a read is made from.  A customer's list shows the orders with the
\* products in them.
Source(c) ==
    CASE c.method = "findAll" -> ProductsOf(c.tenant)
      [] c.method = "findOne" -> {p \in ProductsOf(c.tenant) : p.id = c.id}
      [] OTHER -> {OrdersOf(c.user)} \cup Products

\* Object.assign({}, f, g)
Assign(f, g) ==
    [n \in DOMAIN f \cup DOMAIN g |-> IF n \in DOMAIN g THEN g[n] ELSE f[n]]

\* What the route or the token says about a call.
Own(c) ==
    CASE c.method \in {"findAll", "create"} -> [n \in {"tenantCode"} |-> c.tenant]
      [] c.method \in {"findOne", "update", "remove"} ->
            [n \in {"tenantCode", "id"} |-> IF n = "id" THEN c.id ELSE c.tenant]
      [] OTHER -> [n \in {"__userId"} |-> c.user]

\* Mutant: the user id is left out of the key of a customer's list.
ArgsWithoutUser(c) ==
    <<"object", IF c.user = Null THEN Assign(Own(c), c.query) ELSE c.query>>

\* The arguments in the key: an object in which a query parameter replaces what is
\* known under the same name; for a customer's list without query the bare user id.
Args(c) ==
    IF c.user # Null /\ c.query = NoQuery THEN <<"user", c.user>>
    ELSE <<"object", Assign(Own(c), c.query)>>

\* TenantInterceptor: the code of the path, or else that of the query.
TenantOf(c) ==
    CASE c.tenant # Null -> c.tenant
      [] c.tenant = Null /\ "tenantCode" \in DOMAIN c.query -> c.query["tenantCode"]
      [] OTHER -> "default"

\* generateCacheKey for some method with the arguments of the call.
KeyFor(method, c) == [tenant |-> TenantOf(c), method |-> method, args |-> Args(c)]

Key(c) == KeyFor(c.method, c)

TTL == 300

Steps == {"lookup", "load", "fill", "write", "invalidate"}

TypeOK ==
    /\ rows \in [Rows -> -MaxWrites .. MaxWrites]
    /\ \A k \in DOMAIN cache : cache[k] # Null =>
          DOMAIN cache[k].data \subseteq Rows /\ cache[k].ttl \in Nat
    /\ \A r \in Requests :
          /\ req[r].step \in Steps \cup {"idle", "done"}
          /\ req[r].call \in Calls \cup {Null}
          /\ req[r].stamp \in 0 .. MaxWrites
    /\ lapped \in BOOLEAN
    /\ writes \in 0 .. MaxWrites
    /\ faults \in 0 .. MaxFaults

\* The API starts with an empty cache on databases whose rows are known by the
\* number 1.
Init ==
    /\ rows = [s \in Rows |-> IF s \in Existing THEN 1 ELSE 0]
    /\ cache = [k \in {Key(c) : c \in Reads} |-> Null]
    /\ req = [r \in Requests |->
          [step |-> "idle", call |-> Null, answer |-> Null, plan |-> <<>>, stamp |-> 0,
           todo |-> <<>>]]
    /\ lapped = FALSE
    /\ writes = 1
    /\ faults = 0

Fault == faults < MaxFaults /\ faults' = faults + 1

InFlight == {r \in Requests : req[r].step \in Steps}

Goto(r, step) == req' = [req EXCEPT ![r].step = step]

-----------------------------------------------------------------------------
(* A cacheable method.                                                      *)

StartRead(r, c) ==
    /\ req[r].step = "idle"
    /\ lapped' = (lapped \/ InFlight # {})
    /\ req' = [req EXCEPT ![r] = [@ EXCEPT !.step = "lookup", !.call = c]]
    /\ UNCHANGED <<rows, cache, writes, faults>>

\* CacheService.get: a hit is the answer.
Lookup(r) ==
    LET k == Key(req[r].call) IN
    /\ req[r].step = "lookup"
    /\ req' = [req EXCEPT ![r] = [@ EXCEPT
          !.step = IF cache[k] # Null THEN "done" ELSE "load",
          !.answer = IF cache[k] # Null THEN cache[k].data ELSE Null]]
    /\ UNCHANGED <<lapped, rows, cache, writes, faults>>

\* An error of Redis counts as a miss.
LookupFails(r) ==
    /\ req[r].step = "lookup"
    /\ Goto(r, "load")
    /\ Fault
    /\ UNCHANGED <<lapped, rows, cache, writes>>

\* The handler reads the database and the client has its answer.  findOne of a
\* product that is not there throws, and nothing is cached.
Load(r) ==
    LET c == req[r].call
        missing == c.method = "findOne" /\ \A s \in Source(c) : rows[s] <= 0
    IN
    /\ req[r].step = "load"
    /\ req' = [req EXCEPT ![r] = [@ EXCEPT
          !.step = IF missing THEN "done" ELSE "fill",
          !.answer = IF missing THEN Null ELSE [s \in Source(c) |-> rows[s]]]]
    /\ UNCHANGED <<lapped, rows, cache, writes, faults>>

\* Mutant: SET instead of SETEX.
FillForEver(r) ==
    /\ req[r].step = "fill"
    /\ cache' = [cache EXCEPT ![Key(req[r].call)] = [data |-> req[r].answer, ttl |-> 0]]
    /\ Goto(r, "done")
    /\ UNCHANGED <<lapped, rows, writes, faults>>

\* Mutant: the TTL has no default.
FillNoDefault(r) ==
    /\ req[r].step = "fill"
    /\ cache' = [cache EXCEPT ![Key(req[r].call)] = [data |-> req[r].answer, ttl |-> Null]]
    /\ Goto(r, "done")
    /\ UNCHANGED <<lapped, rows, writes, faults>>

\* CacheService.set, with the answer as it was loaded.
Fill(r) ==
    /\ req[r].step = "fill"
    /\ cache' = [cache EXCEPT ![Key(req[r].call)] = [data |-> req[r].answer, ttl |-> TTL]]
    /\ Goto(r, "done")
    /\ UNCHANGED <<lapped, rows, writes, faults>>

FillFails(r) ==
    /\ req[r].step = "fill"
    /\ Goto(r, "done")
    /\ Fault
    /\ UNCHANGED <<lapped, rows, cache, writes>>

-----------------------------------------------------------------------------
(* A method that changes data, and what its decorator invalidates.          *)

\* The rows that a handler changes, call by call: an order and its items one after
\* the other, the stock of the products in an order and then its status, nothing
\* for completeOrder, which only publishes a message.
Plans(c) ==
    CASE c.method \in {"create", "update", "remove"} ->
            {<<[database |-> DbName[c.tenant], id |-> c.id, user |-> Null]>>}
      [] c.method = "createOrder" ->
            {[i \in 1 .. n + 1 |-> OrdersOf(c.user)] : n \in 1 .. MaxItems}
      [] c.method = "paymentReceived" ->
            {Append(ps, OrdersOf(c.user)) :
                ps \in UNION {[1 .. n -> ProductsOf(c.tenant)] : n \in 1 .. MaxItems}}
      [] OTHER -> {<<>>}

StartWrite(r, c) ==
    /\ req[r].step = "idle"
    /\ lapped' = (lapped \/ InFlight # {})
    /\ \E plan \in Plans(c) :
          req' = [req EXCEPT ![r] = [@ EXCEPT !.step = "write", !.call = c, !.plan = plan]]
    /\ UNCHANGED <<rows, cache, writes, faults>>

\* create makes a row that was never there; update, remove and payment need the
\* product, and payment an order.
Allowed(c, s) ==
    CASE c.method = "create" -> rows[s] = 0
      [] c.method = "createOrder" -> TRUE
      [] c.method = "paymentReceived" -> rows[s] > 0 /\ rows[OrdersOf(c.user)] > 0
      [] OTHER -> rows[s] > 0

\* The next call that changes a row.
Write(r) ==
    LET c == req[r].call
        s == Head(req[r].plan)
    IN
    /\ req[r].step = "write"
    /\ req[r].plan # <<>>
    /\ Allowed(c, s)
    /\ writes < MaxWrites
    /\ rows' = [rows EXCEPT ![s] = IF c.method = "remove" THEN -(writes + 1) ELSE writes + 1]
    /\ writes' = writes + 1
    /\ req' = [req EXCEPT ![r] = [@ EXCEPT !.plan = Tail(req[r].plan), !.stamp = writes + 1]]
    /\ UNCHANGED <<lapped, cache, faults>>

\* The handler throws, before, between or after its calls: a product or an order is
\* missing, the status is wrong, a call or the publish fails.  What was changed
\* stays, and nothing is invalidated.
Throw(r) ==
    /\ req[r].step = "write"
    /\ req' = [req EXCEPT ![r] = [@ EXCEPT !.step = "done", !.stamp = 0]]
    /\ UNCHANGED <<lapped, rows, cache, writes, faults>>

\* Mutant: remove and update invalidate the list only.
TargetsListOnly(c) ==
    CASE c.method \in {"create", "update", "remove"} -> <<{KeyFor("findAll", c)}>>
      [] OTHER -> <<>>

\* delMethodUserKeys: the keys whose arguments begin with the user id.
UserKeys(u) ==
    {k \in DOMAIN cache :
        k.tenant = "default" /\ k.method = "findAllOrders" /\ k.args = <<"user", u>>}

\* What is deleted, one call of Redis after the other.  A target named by its
\* method has the arguments of the request at hand: for update and remove the id
\* as well, which the key of a list has only from a query.  paymentReceived has no
\* decorator.
Targets(c) ==
    CASE c.method = "create" -> <<{KeyFor("findAll", c)}>>
      [] c.method \in {"update", "remove"} -> <<{KeyFor("findAll", c)}, {KeyFor("findOne", c)}>>
      [] c.method = "paymentReceived" -> <<>>
      [] OTHER -> <<UserKeys(c.user)>>

\* The handler returns.
Return(r) ==
    LET todo == Targets(req[r].call) IN
    /\ req[r].step = "write"
    /\ req[r].plan = <<>>
    /\ req' = [req EXCEPT ![r] = [@ EXCEPT
          !.step = IF todo = <<>> THEN "done" ELSE "invalidate", !.todo = todo]]
    /\ UNCHANGED <<lapped, rows, cache, writes, faults>>

NextTarget(r) ==
    req' = [req EXCEPT ![r] = [@ EXCEPT
        !.step = IF Len(req[r].todo) = 1 THEN "done" ELSE "invalidate",
        !.todo = Tail(req[r].todo)]]

\* DEL, whether the keys are present or not.
Invalidate(r) ==
    /\ req[r].step = "invalidate"
    /\ cache' = [k \in DOMAIN cache |-> IF k \in Head(req[r].todo) THEN Null ELSE cache[k]]
    /\ NextTarget(r)
    /\ UNCHANGED <<lapped, rows, writes, faults>>

InvalidateFails(r) ==
    /\ req[r].step = "invalidate"
    /\ NextTarget(r)
    /\ Fault
    /\ UNCHANGED <<lapped, rows, cache, writes>>

-----------------------------------------------------------------------------
\* The order consumers change the status of an order in their own process.
ConsumerWrites(u) ==
    /\ rows[OrdersOf(u)] > 0
    /\ writes < MaxWrites
    /\ rows' = [rows EXCEPT ![OrdersOf(u)] = writes + 1]
    /\ writes' = writes + 1
    /\ UNCHANGED <<lapped, cache, req, faults>>

\* Redis drops an entry when its time is up.
Expire(k) ==
    /\ cache[k] # Null
    /\ cache[k].ttl > 0
    /\ cache' = [cache EXCEPT ![k] = Null]
    /\ UNCHANGED <<lapped, rows, req, writes, faults>>

Next ==
    \/ \E r \in Requests :
          \/ \E c \in Reads : StartRead(r, c)
          \/ \E c \in ProductWrites \cup OrderWrites : StartWrite(r, c)
          \/ Lookup(r) \/ Load(r) \/ Fill(r)
          \/ Write(r) \/ Throw(r) \/ Return(r) \/ Invalidate(r)
          \/ LookupFails(r) \/ FillFails(r) \/ InvalidateFails(r)
    \/ \E u \in Users : ConsumerWrites(u)
    \/ \E k \in DOMAIN cache : Expire(k)

Spec == Init /\ [][Next]_vars

\* Redis keeps to the TTL: as long as entries have one, some expire.
FairSpec == Spec /\ WF_vars(\E k \in DOMAIN cache : Expire(k))

-----------------------------------------------------------------------------
(* What holds.                                                              *)

\* A query gives another value to something the route or the token says.
Displaces(c) == \E n \in DOMAIN Own(c) \cap DOMAIN c.query : c.query[n] # Own(c)[n]

\* The keys under which such a request has looked.
Displaced ==
    {Key(req[r].call) : r \in {x \in Requests : req[x].call \in Reads /\ Displaces(req[x].call)}}

\* An answer about products, from the cache as well, shows those of the database
\* that the path names and no others, whatever the query says.  And unless a
\* request whose query displaces the id of the path or the user of the token has
\* used the same key, an answer is made from the rows the request itself would
\* have read: no customer sees another's orders, no request the answer to a
\* different one.
AnswerIsOwn ==
    \A r \in Requests : req[r].answer # Null =>
        LET c == req[r].call IN
        /\ c.user = Null => DOMAIN req[r].answer \subseteq ProductsOf(c.tenant)
        /\ Key(c) \notin Displaced => DOMAIN req[r].answer = Source(c)

Stale(c) ==
    cache[Key(c)] # Null /\ cache[Key(c)].data # [s \in Source(c) |-> rows[s]]

\* A read that the decorator of a write is for: the product of an update or a
\* removal and the list of a creation, if requested with the same query as the
\* write, and the customer's list without one.
Names(w, c) ==
    \/ /\ w.method \in {"update", "remove"} /\ c.method = "findOne"
       /\ c.tenant = w.tenant /\ c.id = w.id /\ c.query = w.query
    \/ /\ w.method = "create" /\ c.method = "findAll"
       /\ c.tenant = w.tenant /\ c.query = w.query
    \/ /\ w.method = "createOrder" /\ c.method = "findAllOrders"
       /\ c.user = w.user /\ c.query = NoQuery

Changed(w) ==
    IF w.user = Null THEN [database |-> DbName[w.tenant], id |-> w.id, user |-> Null]
    ELSE OrdersOf(w.user)

Version(n) == IF n < 0 THEN -n ELSE n

\* If requests do not overlap and Redis answers, then once a write is over no entry
\* that its decorator names shows the row as it was before.  Nothing of the kind
\* holds of the other entries: the stock that paymentReceived deducts, a write
\* that throws half way, and lists or products requested with another query stay
\* in the cache until they expire.
NamedEntryFresh ==
    (~lapped /\ faults = 0 /\ InFlight = {}) =>
        \A r \in Requests : req[r].stamp # 0 =>
            \A c \in Reads :
                LET k == Key(c)
                    s == Changed(req[r].call)
                IN  (Names(req[r].call, c) /\ cache[k] # Null /\ s \in DOMAIN cache[k].data) =>
                        Version(cache[k].data[s]) >= req[r].stamp

\* Once there are no more writes, no stale entry stays, however it came about: every
\* read finds what is in the databases.
StalenessEnds == <>[](\A c \in Reads : ~Stale(c))

-----------------------------------------------------------------------------
(* What the repository says and the code does not do.                       *)

\* README: cache keys are 'invalidated on writes to keep consistency tight'.  So,
\* without overlap and errors, after writes on products that have returned no list
\* of products is stale.
ListInvalidated ==
    (/\ ~lapped /\ InFlight = {} /\ faults = 0
     /\ \A r \in Requests : req[r].call \in ProductWrites => req[r].stamp # 0) =>
        \A c \in Reads : c.method = "findAll" => ~Stale(c)

=============================================================================
