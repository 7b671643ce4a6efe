----------------------------- MODULE MCListing ------------------------------
(* Parameters a client may send, and codes of which two name one database. *)
EXTENDS Listing, TLC

CONSTANTS missing, acme, ACME, beta, db_acme, db_beta

MCDbName == [t \in Tenants |-> IF t = beta THEN db_beta ELSE db_acme]

\* The two spellings are interchangeable.
Spellings == Permutations({acme, ACME})

\* One client reads one of the lists, and only that one has rows; it has at
\* most four, of two tenants, and two of them share a time of creation.
Bound ==
    /\ reader.step # "finished"
    /\ products = {} \/ \A d \in Databases : orders[d] = {}
    /\ Cardinality(Listed("orders")) <= 4 /\ Cardinality(ready) <= 2
    /\ created <= clock + 1

MCRawPages == {missing, -1, 2}
MCRawSizes == {missing, 0, -1, 1, 5}

=============================================================================
