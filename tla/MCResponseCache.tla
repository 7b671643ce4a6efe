--------------------------- MODULE MCResponseCache ---------------------------
(* Tenants with databases of their own, and a query that names what the path   *)
(* and the token name already: the second product, the second customer.        *)
EXTENDS ResponseCache

CONSTANTS acme, beta, db_acme, db_beta, p1, p2, u1, u2, r1, r2

MCDbName == [t \in Codes |-> IF t = beta THEN db_beta ELSE db_acme]

MCQueries == {[n \in {"id", "__userId"} |-> IF n = "id" THEN p2 ELSE u2]}

\* Both customers have orders, and acme has the first product.
MCExisting == {OrdersOf(u) : u \in Users} \cup {p \in ProductsOf(acme) : p.id = p1}

\* Requests are alike, so the one that is made first may be called r1.
InOrder == req[r2].step # "idle" => req[r1].step # "idle"

=============================================================================
