--------------------------- MODULE OrderLifecycle ---------------------------
(***************************************************************************)
(* The life of the orders of one tenant: OrderController.create and the    *)
(* OrderService calls it makes, payment-received, complete, the two order  *)
(* consumers behind their queues, and the product catalogue the orders     *)
(* draw on.                                                                *)
(*                                                                         *)
(* No service opens a database transaction, so every Prisma call is a step *)
(* of its own: requests of several users, the consumers and the            *)
(* administrator interleave between any two calls.  A handler holds what   *)
(* it has read in local variables, kept here in its request record.        *)
(*                                                                         *)
(* A request that is refused before it writes anything leaves no trace, so *)
(* its early returns are the guards of its first action.  Failures (a      *)
(* database call that throws, the death of the API or consumer process, a  *)
(* message that never leaves the client) are bounded by MaxFaults, and the *)
(* administrator's edits by MaxUpdates.                                    *)
(***************************************************************************)
EXTENDS Integers, Sequences, FiniteSets, Functions

CONSTANTS Orders,       \* the ids of orders that may be created
          Customers,    \* the ids of customers
          Products,     \* the ids of products that may be listed
          Payments,     \* the calls of payment-received that may be accepted
          Completions,  \* the calls of complete that may be accepted
          Bodies,       \* the item lists a create request may carry
          Prices,       \* the prices, in cents, an administrator may set
          Stocks,       \* the stock levels an administrator may set
          MaxFaults,
          MaxUpdates,
          Null

Item == [product : Products, qty : Nat \ {0}]

\* CreateOrderDto and CreateProductDto / UpdateProductDto, as the
\* ValidationPipe enforces them: a non-empty list, quantities of at least one,
\* no negative price or stock.
ASSUME DtoAssumption ==
    /\ Bodies \subseteq Seq(Item) \ {<<>>}
    /\ Prices \subseteq Nat
    /\ Stocks \subseteq Nat

\* Sums are taken over the products and over the payments.
ASSUME BoundAssumption ==
    /\ MaxFaults \in Nat /\ MaxUpdates \in Nat
    /\ IsFiniteSet(Products) /\ IsFiniteSet(Payments)

ASSUME NullAssumption ==
    Null \notin Orders \cup Customers \cup Completions \cup Nat

VARIABLES orders,       \* the orders table with its order_items
          total,        \* the column orders.total
          products,     \* the products table
          create,       \* the running OrderController.create requests
          payments,     \* the running paymentReceived requests
          completions,  \* the payload of each order-completed message
          processing,   \* the order-processing queue, one message per order
          completed,    \* the order-completed queue
          faults,       \* failures so far
          updates       \* edits of the catalogue so far

requests == <<create, payments, completions>>
queues == <<processing, completed>>
bounds == <<faults, updates>>
vars == <<orders, total, products, requests, queues, bounds>>

Processing == INSTANCE WorkQueue WITH Msg <- Orders, msg <- processing
Completed == INSTANCE WorkQueue WITH Msg <- Completions, msg <- completed

-----------------------------------------------------------------------------
(* The rows and the requests.  "NONE" is the absence of a row; qty[p] = 0   *)
(* is the absence of an order_items row for p.  paymentId counts the UUIDs  *)
(* generated for the order, the last of which the column holds.             *)

Status == {"NONE", "PENDING", "WAITING_FOR_PAYMENT", "PAID", "COMPLETE"}

Quantities == [Products -> Nat]

OrderRow ==
    [status : Status, userId : Customers \cup {Null},
     qty : Quantities, price : Quantities,
     paymentId : Nat, transactionId : Completions \cup {Null}]

NoItems == [p \in Products |-> 0]

NewOrder(u) ==
    [status |-> "PENDING", userId |-> u, qty |-> NoItems, price |-> NoItems,
     paymentId |-> 0, transactionId |-> Null]

\* opening and restocked only record, for the ledger below, the stock the
\* product was created with and whether an edit has replaced it since.
ProductRow ==
    [state : {"absent", "listed", "removed"}, price : Nat, stock : Int,
     opening : Nat, restocked : BOOLEAN]

CreateSteps ==
    {"order", "product", "find", "write", "sum", "total", "enqueue"}

CreateRequest ==
    [step : CreateSteps \cup {"idle", "done", "failed"},
     body : Bodies \cup {<<>>}, at : Nat,
     price : Nat, found : Nat, qtys : Quantities, prices : Quantities]

PaymentRequest ==
    [step : {"idle", "deduct", "done", "failed"}, order : Orders \cup {Null},
     lines : Quantities, left : SUBSET Products]

TypeOK ==
    /\ orders \in [Orders -> OrderRow]
    /\ total \in [Orders -> Nat]
    /\ products \in [Products -> ProductRow]
    /\ create \in [Orders -> CreateRequest]
    /\ payments \in [Payments -> PaymentRequest]
    /\ completions \in [Completions -> Orders \cup {Null}]
    /\ Processing!TypeOK
    /\ Completed!TypeOK
    /\ faults \in 0 .. MaxFaults
    /\ updates \in 0 .. MaxUpdates

Init ==
    /\ orders = [o \in Orders |-> [NewOrder(Null) EXCEPT !.status = "NONE"]]
    /\ total = [o \in Orders |-> 0]
    /\ products = [p \in Products |->
          [state |-> "absent", price |-> 0, stock |-> 0,
           opening |-> 0, restocked |-> FALSE]]
    /\ create = [o \in Orders |->
          [step |-> "idle", body |-> <<>>, at |-> 1, price |-> 0, found |-> 0,
           qtys |-> NoItems, prices |-> NoItems]]
    /\ payments = [r \in Payments |->
          [step |-> "idle", order |-> Null, lines |-> NoItems, left |-> {}]]
    /\ completions = [c \in Completions |-> Null]
    /\ Processing!Init
    /\ Completed!Init
    /\ faults = 0
    /\ updates = 0

Fault == faults < MaxFaults /\ faults' = faults + 1 /\ UNCHANGED updates
Edit == updates < MaxUpdates /\ updates' = updates + 1 /\ UNCHANGED faults

-----------------------------------------------------------------------------
(* OrderController.create.  The request of order o works through its body   *)
(* one item at a time; each item is one call of addItemToOrder.             *)

Goto(o, step) == create' = [create EXCEPT ![o].step = step]

Current(o) == create[o].body[create[o].at]

\* Mutant: the message is published as soon as the order row exists.
CreateOrderEnqueuesFirst(o, u, body) ==
    /\ create[o].step = "idle"
    /\ orders' = [orders EXCEPT ![o] = NewOrder(u)]
    /\ total' = [total EXCEPT ![o] = 0]
    /\ create' = [create EXCEPT ![o] = [@ EXCEPT !.step = "order", !.body = body]]
    /\ Processing!Publish(o)
    /\ UNCHANGED <<products, payments, completions, completed, bounds>>

CreateOrder(o, u, body) ==
    /\ create[o].step = "idle"
    /\ orders' = [orders EXCEPT ![o] = NewOrder(u)]
    /\ total' = [total EXCEPT ![o] = 0]
    /\ create' = [create EXCEPT ![o] = [@ EXCEPT !.step = "order", !.body = body]]
    /\ UNCHANGED <<products, payments, completions, queues, bounds>>

\* The order was created by this request for this user; only its status may
\* have changed since (complete needs no more than a row).
CheckOrder(o) ==
    /\ create[o].step = "order"
    /\ Goto(o, IF orders[o].status = "PENDING" THEN "product" ELSE "failed")
    /\ UNCHANGED <<orders, total, products, payments, completions, queues, bounds>>

CheckProduct(o) ==
    LET p == products[Current(o).product]
        available == p.state = "listed" /\ p.stock >= Current(o).qty
    IN
    /\ create[o].step = "product"
    /\ create' = [create EXCEPT ![o] = [@ EXCEPT
          !.step = IF available THEN "find" ELSE "failed",
          !.price = p.price]]
    /\ UNCHANGED <<orders, total, products, payments, completions, queues, bounds>>

FindItem(o) ==
    /\ create[o].step = "find"
    /\ create' = [create EXCEPT ![o] = [@ EXCEPT
          !.step = "write", !.found = orders[o].qty[Current(o).product]]]
    /\ UNCHANGED <<orders, total, products, payments, completions, queues, bounds>>

\* Mutant: an item that was found gets the quantity of the request alone.
WriteItemReplaces(o) ==
    LET p == Current(o).product
        isNew == create[o].found = 0
        refused == isNew /\ products[p].state # "listed"
    IN
    /\ create[o].step = "write"
    /\ Goto(o, IF refused THEN "failed" ELSE "sum")
    /\ orders' =
          IF refused THEN orders
          ELSE [orders EXCEPT ![o] = [@ EXCEPT
                  !.qty[p] = Current(o).qty,
                  !.price[p] = IF isNew THEN create[o].price ELSE orders[o].price[p]]]
    /\ UNCHANGED <<total, products, payments, completions, queues, bounds>>

\* An item that was found gets the sum of the two quantities and keeps its
\* price.  A new one gets the price read earlier, and the foreign key refuses
\* it if the product has been removed since.
WriteItem(o) ==
    LET p == Current(o).product
        isNew == create[o].found = 0
        refused == isNew /\ products[p].state # "listed"
    IN
    /\ create[o].step = "write"
    /\ Goto(o, IF refused THEN "failed" ELSE "sum")
    /\ orders' =
          IF refused THEN orders
          ELSE [orders EXCEPT ![o] = [@ EXCEPT
                  !.qty[p] = create[o].found + Current(o).qty,
                  !.price[p] = IF isNew THEN create[o].price ELSE orders[o].price[p]]]
    /\ UNCHANGED <<total, products, payments, completions, queues, bounds>>

\* Mutant: the total is taken at the products' prices, not the items'.
ReadItemsAtListPrice(o) ==
    /\ create[o].step = "sum"
    /\ create' = [create EXCEPT ![o] = [@ EXCEPT
          !.step = "total", !.qtys = orders[o].qty,
          !.prices = [p \in Products |-> products[p].price]]]
    /\ UNCHANGED <<orders, total, products, payments, completions, queues, bounds>>

\* recalculateOrderTotal: read the items, then write their sum.
ReadItems(o) ==
    /\ create[o].step = "sum"
    /\ create' = [create EXCEPT ![o] = [@ EXCEPT
          !.step = "total", !.qtys = orders[o].qty, !.prices = orders[o].price]]
    /\ UNCHANGED <<orders, total, products, payments, completions, queues, bounds>>

SumOf(qty, price) == SumFunction([p \in Products |-> qty[p] * price[p]])

WriteTotal(o) ==
    /\ create[o].step = "total"
    /\ total' = [total EXCEPT ![o] = SumOf(create[o].qtys, create[o].prices)]
    /\ create' = [create EXCEPT ![o] = [@ EXCEPT
          !.step = IF create[o].at = Len(create[o].body) THEN "enqueue" ELSE "order",
          !.at = create[o].at + 1]]
    /\ UNCHANGED <<orders, products, payments, completions, queues, bounds>>

EnqueueOrderProcessing(o) ==
    /\ create[o].step = "enqueue"
    /\ Goto(o, "done")
    /\ Processing!Publish(o)
    /\ UNCHANGED <<orders, total, products, payments, completions, completed, bounds>>

\* A database call or the wait for a broker connection throws, or the process
\* dies: the request ends where it is and nothing is undone.
AbortCreate(o) ==
    /\ create[o].step \in CreateSteps
    /\ Goto(o, "failed")
    /\ Fault
    /\ UNCHANGED <<orders, total, products, payments, completions, queues>>

-----------------------------------------------------------------------------
(* OrderService.paymentReceived: the order and its items are read and       *)
(* checked once, then the stock of each item is decremented in whatever     *)
(* order the items came back, then the order is set PAID.                   *)

PaymentReceived(r, o, u) ==
    /\ payments[r].step = "idle"
    /\ orders[o].status = "WAITING_FOR_PAYMENT"
    /\ orders[o].userId = u
    /\ payments' = [payments EXCEPT ![r] =
          [step |-> "deduct", order |-> o, lines |-> orders[o].qty,
           left |-> {p \in Products : orders[o].qty[p] > 0}]]
    /\ UNCHANGED <<orders, total, products, create, completions, queues, bounds>>

\* Mutant: one unit per item, whatever its quantity.
DeductStockByOne(r, p) ==
    /\ payments[r].step = "deduct"
    /\ p \in payments[r].left
    /\ products[p].state = "listed"
    /\ products' = [products EXCEPT ![p].stock = @ - 1]
    /\ payments' = [payments EXCEPT ![r].left = @ \ {p}]
    /\ UNCHANGED <<orders, total, create, completions, queues, bounds>>

\* Mutant: the decrement waits until there is enough stock.
DeductStockWaits(r, p) ==
    /\ payments[r].step = "deduct"
    /\ p \in payments[r].left
    /\ products[p].state = "listed"
    /\ products[p].stock >= payments[r].lines[p]
    /\ products' = [products EXCEPT ![p].stock = @ - payments[r].lines[p]]
    /\ payments' = [payments EXCEPT ![r].left = @ \ {p}]
    /\ UNCHANGED <<orders, total, create, completions, queues, bounds>>

DeductStock(r, p) ==
    /\ payments[r].step = "deduct"
    /\ p \in payments[r].left
    /\ products[p].state = "listed"
    /\ products' = [products EXCEPT ![p].stock = @ - payments[r].lines[p]]
    /\ payments' = [payments EXCEPT ![r].left = @ \ {p}]
    /\ UNCHANGED <<orders, total, create, completions, queues, bounds>>

\* Mutant: the order is set PAID without waiting for the decrements.
MarkPaidEarly(r) ==
    /\ payments[r].step = "deduct"
    /\ orders' = [orders EXCEPT ![payments[r].order].status = "PAID"]
    /\ payments' = [payments EXCEPT ![r].step = "done"]
    /\ UNCHANGED <<total, products, create, completions, queues, bounds>>

MarkPaid(r) ==
    /\ payments[r].step = "deduct"
    /\ payments[r].left = {}
    /\ orders' = [orders EXCEPT ![payments[r].order].status = "PAID"]
    /\ payments' = [payments EXCEPT ![r].step = "done"]
    /\ UNCHANGED <<total, products, create, completions, queues, bounds>>

\* A call throws or the process dies: what was deducted stays deducted.
AbortPayment(r) ==
    /\ payments[r].step = "deduct"
    /\ payments' = [payments EXCEPT ![r].step = "failed"]
    /\ Fault
    /\ UNCHANGED <<orders, total, products, create, completions, queues>>

-----------------------------------------------------------------------------
(* OrderService.enqueueOrderCompleted: the row and its owner are checked,   *)
(* its status is not.                                                       *)

CompleteOrder(c, o, u) ==
    /\ completions[c] = Null
    /\ orders[o].status # "NONE"
    /\ orders[o].userId = u
    /\ completions' = [completions EXCEPT ![c] = o]
    /\ Completed!Publish(c)
    /\ UNCHANGED <<orders, total, products, create, payments, processing, bounds>>

-----------------------------------------------------------------------------
(* The consumers.  Both handlers write unconditionally.                     *)

\* Mutant: the handler throws for an order that has left PENDING.
HandlePendingOnly(o) ==
    /\ Processing!Handle(o)
    /\ orders[o].status = "PENDING"
    /\ orders' = [orders EXCEPT ![o] = [@ EXCEPT
          !.status = "WAITING_FOR_PAYMENT", !.paymentId = orders[o].paymentId + 1]]
    /\ UNCHANGED <<total, products, requests, completed, bounds>>

HandleOrderProcessing(o) ==
    /\ Processing!Handle(o)
    /\ orders' = [orders EXCEPT ![o] = [@ EXCEPT
          !.status = "WAITING_FOR_PAYMENT", !.paymentId = orders[o].paymentId + 1]]
    /\ UNCHANGED <<total, products, requests, completed, bounds>>

\* Mutant: the order's id is stored where the transaction's belongs.
HandleOrderCompletedWrongId(c) ==
    /\ Completed!Handle(c)
    /\ orders' = [orders EXCEPT ![completions[c]] = [@ EXCEPT
          !.status = "COMPLETE", !.transactionId = completions[c]]]
    /\ UNCHANGED <<total, products, requests, processing, bounds>>

HandleOrderCompleted(c) ==
    /\ Completed!Handle(c)
    /\ orders' = [orders EXCEPT ![completions[c]] = [@ EXCEPT
          !.status = "COMPLETE", !.transactionId = c]]
    /\ UNCHANGED <<total, products, requests, processing, bounds>>

\* What the broker and the consume callbacks do apart from the handlers.
ProcessingMoves(o) ==
    /\ Processing!Store(o) \/ Processing!Deliver(o) \/ Processing!Ack(o)
    /\ UNCHANGED <<orders, total, products, requests, completed, bounds>>

CompletedMoves(c) ==
    /\ Completed!Store(c) \/ Completed!Deliver(c) \/ Completed!Ack(c)
    /\ UNCHANGED <<orders, total, products, requests, processing, bounds>>

ProcessingFails(o) ==
    /\ Processing!Lose(o) \/ Processing!Nack(o)
    /\ Fault
    /\ UNCHANGED <<orders, total, products, requests, completed>>

CompletedFails(c) ==
    /\ Completed!Lose(c) \/ Completed!Nack(c)
    /\ Fault
    /\ UNCHANGED <<orders, total, products, requests, processing>>

\* One process runs every consumer on one connection.
ConsumerCrash ==
    /\ Processing!InProgress # {} \/ Completed!InProgress # {}
    /\ Processing!PutBack
    /\ Completed!PutBack
    /\ Fault
    /\ UNCHANGED <<orders, total, products, requests>>

-----------------------------------------------------------------------------
(* ProductService, for the administrator of the tenant.                     *)

CreateProduct(p, price, stock) ==
    /\ products[p].state = "absent"
    /\ products' = [products EXCEPT ![p] =
          [state |-> "listed", price |-> price, stock |-> stock,
           opening |-> stock, restocked |-> FALSE]]
    /\ UNCHANGED <<orders, total, requests, queues, bounds>>

\* Every field of UpdateProductDto is optional; Null is a field left out.
UpdateProduct(p, price, stock) ==
    /\ products[p].state = "listed"
    /\ products' = [products EXCEPT ![p] = [@ EXCEPT
          !.price = IF price = Null THEN products[p].price ELSE price,
          !.stock = IF stock = Null THEN products[p].stock ELSE stock,
          !.restocked = products[p].restocked \/ stock # Null]]
    /\ Edit
    /\ UNCHANGED <<orders, total, requests, queues>>

\* Mutant: the foreign key does not restrict the delete.
RemoveProductAnyway(p) ==
    /\ products[p].state = "listed"
    /\ products' = [products EXCEPT ![p].state = "removed"]
    /\ Edit
    /\ UNCHANGED <<orders, total, requests, queues>>

\* order_items.productId references products ON DELETE RESTRICT.
RemoveProduct(p) ==
    /\ products[p].state = "listed"
    /\ \A o \in Orders : orders[o].qty[p] = 0
    /\ products' = [products EXCEPT ![p].state = "removed"]
    /\ Edit
    /\ UNCHANGED <<orders, total, requests, queues>>

-----------------------------------------------------------------------------
\* The calls a running create or payment request still has to make.
CreateContinues(o) ==
    \/ CheckOrder(o) \/ CheckProduct(o) \/ FindItem(o) \/ WriteItem(o)
    \/ ReadItems(o) \/ WriteTotal(o) \/ EnqueueOrderProcessing(o)

PaymentContinues(r) == MarkPaid(r) \/ \E p \in Products : DeductStock(r, p)

\* What the broker and the consumers do of their own accord.
ProcessingContinues(o) == ProcessingMoves(o) \/ HandleOrderProcessing(o)
CompletedContinues(c) == CompletedMoves(c) \/ HandleOrderCompleted(c)

Next ==
    \/ \E o \in Orders :
          \/ \E u \in Customers, body \in Bodies : CreateOrder(o, u, body)
          \/ CreateContinues(o)
          \/ AbortCreate(o)
          \/ ProcessingContinues(o)
          \/ ProcessingFails(o)
    \/ \E r \in Payments :
          \/ \E o \in Orders, u \in Customers : PaymentReceived(r, o, u)
          \/ PaymentContinues(r)
          \/ AbortPayment(r)
    \/ \E c \in Completions :
          \/ \E o \in Orders, u \in Customers : CompleteOrder(c, o, u)
          \/ CompletedContinues(c)
          \/ CompletedFails(c)
    \/ ConsumerCrash
    \/ \E p \in Products :
          \/ \E price \in Prices, stock \in Stocks : CreateProduct(p, price, stock)
          \/ \E price \in Prices \cup {Null}, stock \in Stocks \cup {Null} :
                UpdateProduct(p, price, stock)
          \/ RemoveProduct(p)

Spec == Init /\ [][Next]_vars

\* A request in progress goes on as long as its calls are answered, the broker
\* delivers what it holds, and the consumers run.  Nothing makes a user send a
\* request, and MaxFaults bounds the failures.
FairSpec ==
    /\ Spec
    /\ \A o \in Orders : WF_vars(CreateContinues(o)) /\ WF_vars(ProcessingContinues(o))
    /\ \A r \in Payments : WF_vars(PaymentContinues(r))
    /\ \A c \in Completions : WF_vars(CompletedContinues(c))

-----------------------------------------------------------------------------
(* What holds.                                                              *)

Payable == {"WAITING_FOR_PAYMENT", "PAID"}

\* An order waits for payment, or is paid, only when the request that created it
\* has written all its items and its message was handled: a payment can never
\* see an order that is still being put together, although its owner can list
\* it, and ask to complete it, from the first insert on.
PayableOnlyWhenCreated ==
    \A o \in Orders : orders[o].status \in Payable =>
        create[o].step = "done" /\ orders[o].paymentId > 0

\* The items paymentReceived read before its first decrement are still the
\* items of the order at its last one, whatever ran in between.
PaymentLinesCurrent ==
    \A r \in Payments : payments[r].step = "deduct" =>
        payments[r].lines = orders[payments[r].order].qty

\* The total a customer is asked to pay is the sum over the stored items at
\* their stored prices: the read and the write of recalculateOrderTotal do not
\* straddle a change of the items, and later price edits do not leak in.
TotalMatchesItems ==
    \A o \in Orders : orders[o].status \in Payable =>
        total[o] = SumOf(orders[o].qty, orders[o].price)

\* When create publishes, the order holds exactly the quantities of the request
\* body: the find-then-write of addItemToOrder loses and doubles nothing, also
\* when the body names a product twice.
Requested(body, p) ==
    SumFunction([i \in DOMAIN body |-> IF body[i].product = p THEN body[i].qty ELSE 0])

ItemsMatchBody ==
    \A o \in Orders : create[o].step \in {"enqueue", "done"} =>
        \A p \in Products : orders[o].qty[p] = Requested(create[o].body, p)

\* No item of an order refers to a product that is gone, so no decrement of
\* paymentReceived can miss its row: the administrator's delete and the insert of
\* an item exclude each other although the check and the insert are two calls.
ItemsRefer ==
    \A o \in Orders, p \in Products :
        orders[o].qty[p] > 0 => products[p].state = "listed"

\* Unless an edit replaced it, a stock level is what the product was created with
\* less every decrement a payment made, finished or not: the relative update
\* loses no decrement of two payments at once.
Deducted(r, p) ==
    IF payments[r].step # "idle" /\ p \notin payments[r].left
    THEN payments[r].lines[p] ELSE 0

StockLedger ==
    \A p \in Products : ~products[p].restocked =>
        products[p].stock =
            products[p].opening - SumFunction([r \in Payments |-> Deducted(r, p)])

\* A paid order has had all its items deducted by a payment that ran to its end.
PaidMeansDeducted ==
    \A o \in Orders : orders[o].status = "PAID" =>
        \E r \in Payments :
            /\ payments[r].order = o
            /\ payments[r].step = "done"
            /\ payments[r].lines = orders[o].qty
            /\ payments[r].left = {}

\* Without a failure somewhere, no order goes back from PAID to waiting for
\* payment: the unconditional update of the order-processing handler meets a paid
\* order only on a second delivery.
NoUnpayWithoutFault ==
    [][\A o \in Orders :
        (orders[o].status = "PAID" /\ orders'[o].status = "WAITING_FOR_PAYMENT")
            => faults > 0]_vars

\* The order-processing queue and its consumer implement at-least-once execution
\* of the work a created order needs, where a run is the assignment of a new
\* paymentId.
PhaseOf(place) ==
    CASE place = "none"  -> "absent"
      [] place = "lost"  -> "dropped"
      [] place = "acked" -> "finished"
      [] OTHER           -> "offered"

Promise == INSTANCE AtLeastOnce WITH
    Task  <- Orders,
    phase <- [o \in Orders |-> PhaseOf(processing[o])],
    runs  <- [o \in Orders |-> orders[o].paymentId]

ProcessedAtLeastOnce == Promise!Spec

\* Every published order is eventually processed and acknowledged, or its message
\* never left the API: no number of redeliveries leaves it open for ever.
ProcessingSettles == Promise!Settles

\* A create or payment request that was started ends, whatever fails and whoever
\* else is at work: no request waits for another.
RequestsSettle ==
    /\ \A o \in Orders :
          (create[o].step \in CreateSteps) ~> (create[o].step \in {"done", "failed"})
    /\ \A r \in Payments :
          (payments[r].step = "deduct") ~> (payments[r].step \in {"done", "failed"})

-----------------------------------------------------------------------------
(* What the repository says and the code does not do.                       *)

\* paymentReceived refuses an order that 'is not waiting for payment', so that one
\* order is paid, and its stock taken, once.
PaidOnce ==
    \A r, s \in Payments :
        (r # s /\ payments[r].step = "done" /\ payments[s].step = "done")
            => payments[r].order # payments[s].order

\* README: 'when completion is requested, set COMPLETE', and no step of the
\* lifecycle leads out of COMPLETE.
CompletionSticks ==
    \A c \in Completions :
        completed[c] = "acked" => orders[completions[c]].status = "COMPLETE"

=============================================================================
