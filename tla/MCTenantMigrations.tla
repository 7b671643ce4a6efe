------------------------- MODULE MCTenantMigrations -------------------------
(* The statements of prisma/tenant_migrations and what each of them needs. *)
EXTENDS TenantMigrations, TLC

MCScripts == <<
    <<"products">>,
    <<"OrderStatus", "orders", "order_items",
      "orders_userId_fkey", "order_items_orderId_fkey", "order_items_productId_fkey">>,
    <<"paymentId", "transactionId">> >>

MCRequires ==
    "products" :> {} @@
    "OrderStatus" :> {} @@
    "orders" :> {"OrderStatus"} @@
    "order_items" :> {} @@
    "orders_userId_fkey" :> {"orders", "users"} @@
    "order_items_orderId_fkey" :> {"order_items", "orders"} @@
    "order_items_productId_fkey" :> {"order_items", "products"} @@
    "paymentId" :> {"orders"} @@
    "transactionId" :> {"orders"}

Symmetry == Permutations(Tenants) \cup Permutations(Jobs)

=============================================================================
