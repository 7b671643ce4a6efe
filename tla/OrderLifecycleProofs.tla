------------------------ MODULE OrderLifecycleProofs ------------------------
(***************************************************************************)
(* Theorems about OrderLifecycle, for every set of orders, customers,      *)
(* products and requests and every bound on failures and edits.            *)
(***************************************************************************)
EXTENDS OrderLifecycle, SumLemmas, TLAPS

-----------------------------------------------------------------------------
(* The inductive invariant.                                                 *)

\* While a create request has items left, at points at one of them.
WithinBody(o) ==
    /\ create[o].step = "idle" => create[o].at = 1
    /\ create[o].step \in CreateSteps \ {"enqueue"} =>
          create[o].body \in Bodies /\ create[o].at \in 1 .. Len(create[o].body)

\* A row and the request that inserts it appear together.
RowWithRequest(o) == (create[o].step = "idle") <=> (orders[o].status = "NONE")

\* The local copies a create request holds are still the stored values.
LocalsCurrent(o) ==
    /\ create[o].step = "write" => create[o].found = orders[o].qty[Current(o).product]
    /\ create[o].step = "total" =>
          create[o].qtys = orders[o].qty /\ create[o].prices = orders[o].price

TotalCurrent(o) ==
    create[o].step \in {"enqueue", "done"} =>
        total[o] = SumOf(orders[o].qty, orders[o].price)

\* A message is published by a request that has finished, and the paymentId
\* tells how far it has come.
MessageMatches(o) ==
    /\ processing[o] # "none" => create[o].step = "done"
    /\ processing[o] \in {"none", "sent", "lost"} => orders[o].paymentId = 0
    /\ processing[o] \in {"ready", "delivered"} =>
          orders[o].paymentId = 0 \/ faults > 0
    /\ processing[o] \in {"handled", "acked"} => orders[o].paymentId > 0
    /\ orders[o].status \in Payable => orders[o].paymentId > 0

\* A payment that was accepted works on a finished order and its items.
PaymentMatches(r) ==
    payments[r].step # "idle" =>
        /\ payments[r].order \in Orders
        /\ orders[payments[r].order].paymentId > 0
        /\ payments[r].lines = orders[payments[r].order].qty
        /\ payments[r].step = "done" => payments[r].left = {}

\* A completion message names an order that exists.
CompletionMatches(c) ==
    completed[c] # "none" =>
        completions[c] \in Orders /\ orders[completions[c]].status # "NONE"

InvParts ==
    /\ \A o \in Orders : WithinBody(o) /\ RowWithRequest(o)
    /\ \A o \in Orders : LocalsCurrent(o) /\ TotalCurrent(o)
    /\ \A o \in Orders : MessageMatches(o)
    /\ \A r \in Payments : PaymentMatches(r)
    /\ \A c \in Completions : CompletionMatches(c)
    /\ ItemsRefer
    /\ PaidMeansDeducted

OrderInv == TypeOK /\ InvParts

-----------------------------------------------------------------------------
(* Type correctness.                                                        *)

\* While addItemToOrder runs, the item the create loop is at is one of the body.
LEMMA CurrentType ==
    ASSUME TypeOK, NEW o \in Orders, WithinBody(o),
           create[o].step \in CreateSteps \ {"enqueue"}
    PROVE  Current(o) \in Item
  BY DtoAssumption DEF TypeOK, WithinBody, Current, CreateRequest

\* The row createOrder inserts is an order.
LEMMA NewOrderType ==
    ASSUME NEW u \in Customers \cup {Null} PROVE NewOrder(u) \in OrderRow
  BY DEF NewOrder, OrderRow, NoItems, Quantities, Status

\* Moving a create request to another of its steps leaves it a request.
LEMMA GotoType ==
    ASSUME TypeOK, NEW o \in Orders, NEW step \in CreateSteps \cup {"done", "failed"},
           Goto(o, step)
    PROVE  create' \in [Orders -> CreateRequest]
<1>1. create \in [Orders -> CreateRequest]
  BY DEF TypeOK
<1> QED
  BY <1>1 DEF Goto, CreateRequest

\* What recalculateOrderTotal writes is a natural number of cents.
LEMMA SumOfType ==
    ASSUME NEW qty \in Quantities, NEW price \in Quantities
    PROVE  SumOf(qty, price) \in Nat
<1>1. [p \in Products |-> qty[p] * price[p]] \in [Products -> Nat]
  <2>1. ASSUME NEW p \in Products PROVE qty[p] * price[p] \in Nat
    <3>1. \A m, n \in Nat : m * n \in Nat
      OBVIOUS
    <3>2. qty[p] \in Nat /\ price[p] \in Nat
      BY DEF Quantities
    <3> QED
      BY <3>1, <3>2
  <2> QED
    BY <2>1
<1> QED
  BY <1>1, SumNat, BoundAssumption DEF SumOf

\* The types hold before the first request.
LEMMA InitType == Init => TypeOK
<1> SUFFICES ASSUME Init PROVE TypeOK
  OBVIOUS
<1>1. orders \in [Orders -> OrderRow]
  <2>1. orders = [o \in Orders |-> [NewOrder(Null) EXCEPT !.status = "NONE"]]
    BY DEF Init
  <2>2. NewOrder(Null) \in OrderRow
    BY NewOrderType
  <2>3. [NewOrder(Null) EXCEPT !.status = "NONE"] \in OrderRow
    BY <2>2 DEF OrderRow, Status
  <2> QED
    BY <2>1, <2>3
<1>2. products \in [Products -> ProductRow]
  BY DEF Init, ProductRow
<1>3. create \in [Orders -> CreateRequest]
  BY DEF Init, CreateRequest, NoItems, Quantities
<1>4. payments \in [Payments -> PaymentRequest]
  BY DEF Init, PaymentRequest, NoItems, Quantities
<1>5. faults \in 0 .. MaxFaults /\ updates \in 0 .. MaxUpdates
  BY BoundAssumption DEF Init
<1>6. total \in [Orders -> Nat] /\ completions \in [Completions -> Orders \cup {Null}]
  BY DEF Init
<1>7. Processing!Init /\ Completed!Init
  BY DEF Init
<1> QED
  BY <1>1, <1>2, <1>3, <1>4, <1>5, <1>6, <1>7
  DEF TypeOK, Processing!Init, Processing!TypeOK, Processing!Places,
      Completed!Init, Completed!TypeOK, Completed!Places

\* The types hold after every step, given that a request with items left points
\* at one of them and a completion message names an order.
LEMMA NextType ==
    ASSUME TypeOK, [Next]_vars,
           \A o \in Orders : WithinBody(o),
           \A r \in Payments : PaymentMatches(r),
           \A c \in Completions : CompletionMatches(c)
    PROVE  TypeOK'
<1> USE DEF bounds, queues, requests
<1>0. /\ orders \in [Orders -> OrderRow]
      /\ products \in [Products -> ProductRow]
      /\ create \in [Orders -> CreateRequest]
      /\ payments \in [Payments -> PaymentRequest]
  BY DEF TypeOK
<1>1. ASSUME NEW o \in Orders, NEW u \in Customers, NEW body \in Bodies,
             CreateOrder(o, u, body)
      PROVE  TypeOK'
  <2>1. orders' \in [Orders -> OrderRow]
    BY <1>1, NewOrderType DEF CreateOrder, TypeOK
  <2>2. create' \in [Orders -> CreateRequest]
    <3>1. create' = [create EXCEPT ![o] = [@ EXCEPT !.step = "order", !.body = body]]
      BY <1>1 DEF CreateOrder
    <3> QED
      BY ZenonT(60), <1>1, <1>0, <3>1 DEF CreateRequest, CreateSteps
  <2> QED
    BY <1>1, <2>1, <2>2
    DEF CreateOrder, TypeOK, Processing!TypeOK, Completed!TypeOK
<1>2. ASSUME NEW o \in Orders, CheckOrder(o) PROVE TypeOK'
  <2>1. create' \in [Orders -> CreateRequest]
    BY <1>2, GotoType DEF CheckOrder, CreateSteps
  <2> QED
    BY <1>2, <2>1 DEF CheckOrder, TypeOK, Processing!TypeOK, Completed!TypeOK
<1>3. ASSUME NEW o \in Orders, CheckProduct(o) PROVE TypeOK'
  <2>1. Current(o) \in Item
    BY <1>3, CurrentType DEF CheckProduct, CreateSteps
  <2>2. products[Current(o).product].price \in Nat
    BY <2>1 DEF TypeOK, Item, ProductRow
  <2>3. create' \in [Orders -> CreateRequest]
    <3>1. PICK step \in {"find", "failed"} :
              create' = [create EXCEPT ![o] = [@ EXCEPT !.step = step,
                            !.price = products[Current(o).product].price]]
      BY <1>3 DEF CheckProduct
    <3> QED
      BY ZenonT(60), <1>0, <2>2, <3>1 DEF CreateRequest, CreateSteps
  <2> QED
    BY <1>3, <2>3 DEF CheckProduct, TypeOK, Processing!TypeOK, Completed!TypeOK
<1>4. ASSUME NEW o \in Orders, FindItem(o) PROVE TypeOK'
  <2>1. Current(o) \in Item
    BY <1>4, CurrentType DEF FindItem, CreateSteps
  <2>2. orders[o].qty[Current(o).product] \in Nat
    BY <2>1 DEF TypeOK, Item, OrderRow, Quantities
  <2>3. create' \in [Orders -> CreateRequest]
    <3>1. create' = [create EXCEPT ![o] = [@ EXCEPT !.step = "write",
                        !.found = orders[o].qty[Current(o).product]]]
      BY <1>4 DEF FindItem
    <3> QED
      BY ZenonT(60), <1>0, <2>2, <3>1 DEF CreateRequest, CreateSteps
  <2> QED
    BY <1>4, <2>3 DEF FindItem, TypeOK, Processing!TypeOK, Completed!TypeOK
<1>5. ASSUME NEW o \in Orders, WriteItem(o) PROVE TypeOK'
  <2>1. Current(o).product \in Products /\ Current(o).qty \in Nat
    BY <1>5, CurrentType DEF WriteItem, CreateSteps, Item
  <2>2. create' \in [Orders -> CreateRequest]
    BY <1>5, GotoType DEF WriteItem, CreateSteps
  <2>3. create[o].found \in Nat /\ create[o].price \in Nat
    BY DEF TypeOK, CreateRequest
  <2>4. orders' \in [Orders -> OrderRow]
    <3>1. CASE orders' = orders
      BY <1>0, <3>1
    <3>2. CASE orders' # orders
      <4> DEFINE p == Current(o).product
                 q == create[o].found + Current(o).qty
                 n == IF create[o].found = 0 THEN create[o].price ELSE orders[o].price[p]
      <4>1. orders' = [orders EXCEPT ![o] = [@ EXCEPT !.qty[p] = q, !.price[p] = n]]
        BY <1>5, <3>2 DEF WriteItem
      <4>2. p \in Products /\ q \in Nat /\ n \in Nat
        BY <1>0, <2>1, <2>3 DEF OrderRow, Quantities
      <4> HIDE DEF p, q, n
      <4> QED
        BY <1>0, <4>1, <4>2 DEF OrderRow, Quantities
    <3> QED
      BY <3>1, <3>2
  <2> QED
    BY <1>5, <2>2, <2>4 DEF WriteItem, TypeOK, Processing!TypeOK, Completed!TypeOK
<1>6. ASSUME NEW o \in Orders, ReadItems(o) PROVE TypeOK'
  <2>1. create' \in [Orders -> CreateRequest]
    <3>1. create' = [create EXCEPT ![o] = [@ EXCEPT !.step = "total",
                        !.qtys = orders[o].qty, !.prices = orders[o].price]]
      BY <1>6 DEF ReadItems
    <3>2. orders[o].qty \in Quantities /\ orders[o].price \in Quantities
      BY <1>0 DEF OrderRow
    <3> QED
      BY ZenonT(60), <1>0, <3>1, <3>2 DEF CreateRequest, CreateSteps
  <2> QED
    BY <1>6, <2>1 DEF ReadItems, TypeOK, Processing!TypeOK, Completed!TypeOK
<1>7. ASSUME NEW o \in Orders, WriteTotal(o) PROVE TypeOK'
  <2>1. create' \in [Orders -> CreateRequest]
    <3>0. create[o].at + 1 \in Nat
      BY <1>0 DEF CreateRequest
    <3> DEFINE n == create[o].at + 1
               step == IF create[o].at = Len(create[o].body) THEN "enqueue" ELSE "order"
    <3>1. create' = [create EXCEPT ![o] = [@ EXCEPT !.step = step, !.at = n]]
      BY <1>7 DEF WriteTotal
    <3>2. step \in {"enqueue", "order"} /\ n \in Nat
      BY <3>0
    <3> HIDE DEF n, step
    <3> QED
      BY ZenonT(60), <1>0, <3>1, <3>2 DEF CreateRequest, CreateSteps
  <2>2. total' \in [Orders -> Nat]
    <3>1. SumOf(create[o].qtys, create[o].prices) \in Nat
      BY <1>0, SumOfType DEF CreateRequest
    <3> QED
      BY <1>7, <3>1 DEF WriteTotal, TypeOK
  <2> QED
    BY <1>7, <2>1, <2>2 DEF WriteTotal, TypeOK, Processing!TypeOK, Completed!TypeOK
<1>8. ASSUME NEW o \in Orders, EnqueueOrderProcessing(o) PROVE TypeOK'
  <2>1. create' \in [Orders -> CreateRequest]
    BY <1>8, GotoType DEF EnqueueOrderProcessing
  <2> QED
    BY <1>8, <2>1 DEF EnqueueOrderProcessing, TypeOK, Processing!Publish,
       Processing!Move, Processing!TypeOK, Processing!Places, Completed!TypeOK
<1>9. ASSUME NEW o \in Orders, AbortCreate(o) PROVE TypeOK'
  <2>1. create' \in [Orders -> CreateRequest]
    BY <1>9, GotoType DEF AbortCreate
  <2> QED
    BY <1>9, <2>1, BoundAssumption
    DEF AbortCreate, Fault, TypeOK, Processing!TypeOK, Completed!TypeOK
<1>10. ASSUME NEW r \in Payments, NEW o \in Orders, NEW u \in Customers,
              PaymentReceived(r, o, u)
       PROVE  TypeOK'
  <2>1. payments' \in [Payments -> PaymentRequest]
    BY <1>10 DEF PaymentReceived, TypeOK, PaymentRequest, OrderRow
  <2> QED
    BY <1>10, <2>1 DEF PaymentReceived, TypeOK, Processing!TypeOK, Completed!TypeOK
<1>11. ASSUME NEW r \in Payments, NEW p \in Products, DeductStock(r, p)
       PROVE  TypeOK'
  <2>1. payments[r].lines[p] \in Nat
    BY DEF TypeOK, PaymentRequest, Quantities
  <2>2. products' \in [Products -> ProductRow]
    BY <1>11, <2>1 DEF DeductStock, TypeOK, ProductRow
  <2>3. payments' \in [Payments -> PaymentRequest]
    BY <1>11 DEF DeductStock, TypeOK, PaymentRequest
  <2> QED
    BY <1>11, <2>2, <2>3 DEF DeductStock, TypeOK, Processing!TypeOK, Completed!TypeOK
<1>12. ASSUME NEW r \in Payments, MarkPaid(r) PROVE TypeOK'
  <2>1. orders' \in [Orders -> OrderRow]
    <3>1. payments[r].order \in Orders
      BY <1>12 DEF MarkPaid, PaymentMatches
    <3>2. orders' = [orders EXCEPT ![payments[r].order].status = "PAID"]
      BY <1>12 DEF MarkPaid
    <3> QED
      BY <1>0, <3>1, <3>2 DEF OrderRow, Status
  <2>2. payments' \in [Payments -> PaymentRequest]
    BY <1>12 DEF MarkPaid, TypeOK, PaymentRequest
  <2> QED
    BY <1>12, <2>1, <2>2 DEF MarkPaid, TypeOK, Processing!TypeOK, Completed!TypeOK
<1>13. ASSUME NEW r \in Payments, AbortPayment(r) PROVE TypeOK'
  <2>1. payments' \in [Payments -> PaymentRequest]
    BY <1>13 DEF AbortPayment, TypeOK, PaymentRequest
  <2> QED
    BY <1>13, <2>1, BoundAssumption
    DEF AbortPayment, Fault, TypeOK, Processing!TypeOK, Completed!TypeOK
<1>14. ASSUME NEW c \in Completions, NEW o \in Orders, NEW u \in Customers,
              CompleteOrder(c, o, u)
       PROVE  TypeOK'
  BY <1>14 DEF CompleteOrder, TypeOK, Processing!TypeOK, Completed!Publish,
     Completed!Move, Completed!TypeOK, Completed!Places
<1>15. ASSUME NEW o \in Orders, HandleOrderProcessing(o) PROVE TypeOK'
  <2>1. orders' \in [Orders -> OrderRow]
    <3> DEFINE n == orders[o].paymentId + 1
    <3>1. orders' = [orders EXCEPT ![o] = [@ EXCEPT
              !.status = "WAITING_FOR_PAYMENT", !.paymentId = n]]
      BY <1>15 DEF HandleOrderProcessing
    <3>2. n \in Nat
      BY <1>0 DEF OrderRow
    <3> HIDE DEF n
    <3> QED
      BY <1>0, <3>1, <3>2 DEF OrderRow, Status
  <2> QED
    BY <1>15, <2>1 DEF HandleOrderProcessing, TypeOK, Processing!Handle,
       Processing!Move, Processing!TypeOK, Processing!Places, Completed!TypeOK
<1>16. ASSUME NEW c \in Completions, HandleOrderCompleted(c) PROVE TypeOK'
  <2>1. orders' \in [Orders -> OrderRow]
    <3>1. completions[c] \in Orders
      BY <1>16 DEF HandleOrderCompleted, Completed!Handle, Completed!Move,
         CompletionMatches
    <3>2. orders' = [orders EXCEPT ![completions[c]] = [@ EXCEPT
                        !.status = "COMPLETE", !.transactionId = c]]
      BY <1>16 DEF HandleOrderCompleted
    <3> QED
      BY ZenonT(60), <1>0, <3>1, <3>2 DEF OrderRow, Status
  <2> QED
    BY <1>16, <2>1 DEF HandleOrderCompleted, TypeOK, Processing!TypeOK,
       Completed!Handle, Completed!Move, Completed!TypeOK, Completed!Places
<1>17. ASSUME NEW o \in Orders, ProcessingMoves(o) PROVE TypeOK'
  BY <1>17 DEF ProcessingMoves, TypeOK, Processing!Store, Processing!Deliver,
     Processing!Ack, Processing!Move, Processing!TypeOK, Processing!Places,
     Completed!TypeOK
<1>18. ASSUME NEW c \in Completions, CompletedMoves(c) PROVE TypeOK'
  BY <1>18 DEF CompletedMoves, TypeOK, Completed!Store, Completed!Deliver,
     Completed!Ack, Completed!Move, Completed!TypeOK, Completed!Places,
     Processing!TypeOK
<1>19. ASSUME NEW o \in Orders, ProcessingFails(o) PROVE TypeOK'
  BY <1>19, BoundAssumption DEF ProcessingFails, Fault, TypeOK, Processing!Lose,
     Processing!Nack, Processing!Move, Processing!TypeOK, Processing!Places,
     Completed!TypeOK
<1>20. ASSUME NEW c \in Completions, CompletedFails(c) PROVE TypeOK'
  BY <1>20, BoundAssumption DEF CompletedFails, Fault, TypeOK, Completed!Lose,
     Completed!Nack, Completed!Move, Completed!TypeOK, Completed!Places,
     Processing!TypeOK
<1>21. ASSUME ConsumerCrash PROVE TypeOK'
  BY <1>21, BoundAssumption DEF ConsumerCrash, Fault, TypeOK,
     Processing!PutBack, Processing!TypeOK, Processing!Places,
     Completed!PutBack, Completed!TypeOK, Completed!Places
<1>22. ASSUME NEW p \in Products, NEW price \in Prices, NEW stock \in Stocks,
              CreateProduct(p, price, stock)
       PROVE  TypeOK'
  <2>1. products' \in [Products -> ProductRow]
    BY <1>22, DtoAssumption DEF CreateProduct, TypeOK, ProductRow
  <2> QED
    BY <1>22, <2>1 DEF CreateProduct, TypeOK, Processing!TypeOK, Completed!TypeOK
<1>23. ASSUME NEW p \in Products, NEW price \in Prices \cup {Null},
              NEW stock \in Stocks \cup {Null}, UpdateProduct(p, price, stock)
       PROVE  TypeOK'
  <2>1. products' \in [Products -> ProductRow]
    <3> DEFINE n == IF price = Null THEN products[p].price ELSE price
               k == IF stock = Null THEN products[p].stock ELSE stock
               b == products[p].restocked \/ stock # Null
    <3>1. products' = [products EXCEPT ![p] = [@ EXCEPT
              !.price = n, !.stock = k, !.restocked = b]]
      BY <1>23 DEF UpdateProduct
    <3>2. n \in Nat /\ k \in Int
      BY <1>0, DtoAssumption DEF ProductRow
    <3>3. b \in BOOLEAN
      OBVIOUS
    <3> HIDE DEF n, k, b
    <3> QED
      BY <1>0, <3>1, <3>2, <3>3 DEF ProductRow
  <2> QED
    BY <1>23, <2>1, BoundAssumption
    DEF UpdateProduct, Edit, TypeOK, Processing!TypeOK, Completed!TypeOK
<1>24. ASSUME NEW p \in Products, RemoveProduct(p) PROVE TypeOK'
  <2>1. products' \in [Products -> ProductRow]
    BY <1>24 DEF RemoveProduct, TypeOK, ProductRow
  <2> QED
    BY <1>24, <2>1, BoundAssumption
    DEF RemoveProduct, Edit, TypeOK, Processing!TypeOK, Completed!TypeOK
<1>25. ASSUME UNCHANGED vars PROVE TypeOK'
  BY <1>25 DEF vars, TypeOK, Processing!TypeOK, Completed!TypeOK
<1> QED
  BY <1>1, <1>2, <1>3, <1>4, <1>5, <1>6, <1>7, <1>8, <1>9, <1>10, <1>11, <1>12,
     <1>13, <1>14, <1>15, <1>16, <1>17, <1>18, <1>19, <1>20, <1>21, <1>22, <1>23,
     <1>24, <1>25
  DEF Next, CreateContinues, PaymentContinues, ProcessingContinues,
      CompletedContinues

-----------------------------------------------------------------------------
(* The rest of the invariant.                                               *)

\* The rest of the invariant holds before the first request.
LEMMA InitInv == Init => InvParts
<1> SUFFICES ASSUME Init PROVE InvParts
  OBVIOUS
<1> USE DEF Init, NewOrder, NoItems, CreateSteps, Payable
<1>1. \A o \in Orders : orders[o].status = "NONE" /\ orders[o].paymentId = 0
                        /\ orders[o].qty = NoItems
  OBVIOUS
<1>2. \A o \in Orders : WithinBody(o) /\ RowWithRequest(o)
  BY <1>1 DEF WithinBody, RowWithRequest
<1>3. \A o \in Orders : LocalsCurrent(o) /\ TotalCurrent(o)
  BY DEF LocalsCurrent, TotalCurrent
<1>4. \A o \in Orders : MessageMatches(o)
  BY <1>1 DEF MessageMatches, Processing!Init
<1>5. \A r \in Payments : PaymentMatches(r)
  BY DEF PaymentMatches
<1>6. \A c \in Completions : CompletionMatches(c)
  BY DEF CompletionMatches, Completed!Init
<1>7. ItemsRefer
  BY <1>1 DEF ItemsRefer
<1>8. PaidMeansDeducted
  BY <1>1 DEF PaidMeansDeducted
<1> QED
  BY <1>2, <1>3, <1>4, <1>5, <1>6, <1>7, <1>8 DEF InvParts

\* One step per action.  Where an action changes an order or a request, <2>0 says
\* how, field by field; the steps after it take the parts of the invariant that
\* the action can disturb one at a time, and the others together.
LEMMA NextInv ==
    ASSUME OrderInv, [Next]_vars
    PROVE  InvParts'
<1> USE DEF bounds, queues, requests, Payable, CreateSteps
<1>types.
      /\ orders \in [Orders -> OrderRow]
      /\ total \in [Orders -> Nat]
      /\ products \in [Products -> ProductRow]
      /\ create \in [Orders -> CreateRequest]
      /\ payments \in [Payments -> PaymentRequest]
      /\ completions \in [Completions -> Orders \cup {Null}]
      /\ processing \in [Orders -> Processing!Places]
      /\ completed \in [Completions -> Completed!Places]
      /\ faults \in Nat
  BY BoundAssumption DEF OrderInv, TypeOK, Processing!TypeOK, Completed!TypeOK
<1>rows. \A x \in Orders : WithinBody(x) /\ RowWithRequest(x)
  BY DEF OrderInv, InvParts
<1>locals. \A x \in Orders : LocalsCurrent(x) /\ TotalCurrent(x)
  BY DEF OrderInv, InvParts
<1>message. \A x \in Orders : MessageMatches(x)
  BY DEF OrderInv, InvParts
<1>payment. \A y \in Payments : PaymentMatches(y)
  BY DEF OrderInv, InvParts
<1>completion. \A z \in Completions : CompletionMatches(z)
  BY DEF OrderInv, InvParts
<1>refer. ItemsRefer
  BY DEF OrderInv, InvParts
<1>paid. PaidMeansDeducted
  BY DEF OrderInv, InvParts
<1>1. ASSUME NEW o \in Orders, NEW u \in Customers, NEW body \in Bodies,
             CreateOrder(o, u, body)
      PROVE  InvParts'
  <2>0. /\ \A x \in Orders : x # o => orders'[x] = orders[x]
        /\ orders'[o].status = "PENDING" /\ orders'[o].qty = NoItems
        /\ orders[o].paymentId = 0 /\ orders'[o].paymentId = 0 /\ processing[o] = "none"
        /\ \A x \in Orders : x # o => create'[x] = create[x]
        /\ create'[o].step = "order" /\ create'[o].body = body /\ create'[o].at = 1
    BY <1>1, <1>types, <1>rows, <1>message
    DEF CreateOrder, NewOrder, CreateRequest, MessageMatches, WithinBody
  <2>1. (\A x \in Orders : WithinBody(x) /\ RowWithRequest(x))'
    BY <1>1, <2>0, <1>types, <1>rows, DtoAssumption
    DEF CreateOrder, WithinBody, RowWithRequest
  <2>2. (\A x \in Orders : LocalsCurrent(x) /\ TotalCurrent(x))'
    BY <1>1, <2>0, <1>types, <1>locals
    DEF CreateOrder, LocalsCurrent, TotalCurrent, Current
  <2>3. (\A x \in Orders : MessageMatches(x))'
    BY <1>1, <2>0, <1>types, <1>message DEF CreateOrder, MessageMatches
  <2>4. (\A y \in Payments : PaymentMatches(y))'
    BY <1>1, <2>0, <1>types, <1>payment DEF CreateOrder, PaymentMatches
  <2>5. (\A z \in Completions : CompletionMatches(z))'
    BY <1>1, <2>0, <1>types, <1>completion DEF CreateOrder, CompletionMatches
  <2>6. ItemsRefer'
    BY <1>1, <2>0, <1>refer DEF CreateOrder, ItemsRefer, NoItems
  <2>7. PaidMeansDeducted'
    BY <1>1, <2>0, <1>types, <1>paid DEF CreateOrder, PaidMeansDeducted
  <2> QED
    BY <2>1, <2>2, <2>3, <2>4, <2>5, <2>6, <2>7 DEF InvParts
<1>2. ASSUME NEW o \in Orders, CheckOrder(o) PROVE InvParts'
  <2>1. /\ (\A y \in Payments : PaymentMatches(y))'
        /\ (\A z \in Completions : CompletionMatches(z))'
        /\ ItemsRefer'
        /\ PaidMeansDeducted'
    BY <1>2, <1>payment, <1>completion, <1>refer, <1>paid
    DEF CheckOrder, PaymentMatches, CompletionMatches, ItemsRefer, PaidMeansDeducted
  <2>2. (\A x \in Orders : WithinBody(x) /\ RowWithRequest(x))'
    BY <1>2, <1>types, <1>rows DEF CheckOrder, Goto, WithinBody, RowWithRequest
  <2>3. (\A x \in Orders : LocalsCurrent(x) /\ TotalCurrent(x))'
    BY <1>2, <1>types, <1>locals
    DEF CheckOrder, Goto, LocalsCurrent, TotalCurrent, Current
  <2>4. (\A x \in Orders : MessageMatches(x))'
    BY <1>2, <1>types, <1>message DEF CheckOrder, Goto, MessageMatches
  <2> QED
    BY <2>1, <2>2, <2>3, <2>4 DEF InvParts
<1>3. ASSUME NEW o \in Orders, CheckProduct(o) PROVE InvParts'
  <2>0. /\ \A x \in Orders : x # o => create'[x] = create[x]
        /\ create'[o].step \in {"find", "failed"}
        /\ create'[o].body = create[o].body /\ create'[o].at = create[o].at
        /\ UNCHANGED <<orders, total>>
    BY <1>3, <1>types DEF CheckProduct, CreateRequest
  <2>1. /\ (\A y \in Payments : PaymentMatches(y))'
        /\ (\A z \in Completions : CompletionMatches(z))'
        /\ ItemsRefer'
        /\ PaidMeansDeducted'
    BY <1>3, <1>payment, <1>completion, <1>refer, <1>paid
    DEF CheckProduct, PaymentMatches, CompletionMatches, ItemsRefer,
        PaidMeansDeducted
  <2>2. (\A x \in Orders : WithinBody(x) /\ RowWithRequest(x))'
    BY <1>3, <2>0, <1>types, <1>rows DEF CheckProduct, WithinBody, RowWithRequest
  <2>3. (\A x \in Orders : LocalsCurrent(x) /\ TotalCurrent(x))'
    BY <2>0, <1>locals DEF LocalsCurrent, TotalCurrent, Current
  <2>4. (\A x \in Orders : MessageMatches(x))'
    BY <1>3, <2>0, <1>types, <1>message DEF CheckProduct, MessageMatches
  <2> QED
    BY <2>1, <2>2, <2>3, <2>4 DEF InvParts
<1>4. ASSUME NEW o \in Orders, FindItem(o) PROVE InvParts'
  <2>0. /\ \A x \in Orders : x # o => create'[x] = create[x]
        /\ create'[o].step = "write"
        /\ create'[o].found = orders[o].qty[Current(o).product]
        /\ create'[o].body = create[o].body /\ create'[o].at = create[o].at
        /\ UNCHANGED <<orders, total>>
    BY <1>4, <1>types DEF FindItem, CreateRequest
  <2>1. /\ (\A y \in Payments : PaymentMatches(y))'
        /\ (\A z \in Completions : CompletionMatches(z))'
        /\ ItemsRefer'
        /\ PaidMeansDeducted'
    BY <1>4, <1>payment, <1>completion, <1>refer, <1>paid
    DEF FindItem, PaymentMatches, CompletionMatches, ItemsRefer, PaidMeansDeducted
  <2>2. (\A x \in Orders : WithinBody(x) /\ RowWithRequest(x))'
    BY SMTT(30), <1>4, <2>0, <1>types, <1>rows DEF FindItem, WithinBody, RowWithRequest
  <2>3. (\A x \in Orders : LocalsCurrent(x) /\ TotalCurrent(x))'
    BY ZenonT(60), <2>0, <1>locals DEF LocalsCurrent, TotalCurrent, Current
  <2>4. (\A x \in Orders : MessageMatches(x))'
    BY <1>4, <2>0, <1>types, <1>message DEF FindItem, MessageMatches
  <2> QED
    BY <2>1, <2>2, <2>3, <2>4 DEF InvParts
<1>5. ASSUME NEW o \in Orders, WriteItem(o) PROVE InvParts'
  <2>0. /\ orders[o].paymentId = 0 /\ orders[o].status \notin Payable
        /\ Current(o).product \in Products /\ Current(o).qty \in Nat \ {0}
        /\ create[o].found \in Nat /\ create[o].found = orders[o].qty[Current(o).product]
        /\ \A x \in Orders : x # o => orders'[x] = orders[x] /\ create'[x] = create[x]
        /\ orders'[o].status = orders[o].status /\ orders'[o].paymentId = orders[o].paymentId
        /\ create'[o].step \in {"failed", "sum"} /\ UNCHANGED total
        /\ create'[o].body = create[o].body /\ create'[o].at = create[o].at
        /\ \A p \in Products : orders'[o].qty[p] > 0 =>
              orders[o].qty[p] > 0 \/ products[p].state = "listed"
    <3>1. Current(o) \in Item
      BY <1>5, <1>rows, CurrentType DEF WriteItem, OrderInv
    <3>2. /\ Current(o).product \in Products /\ Current(o).qty \in Nat \ {0}
          /\ create[o].found \in Nat /\ create[o].found = orders[o].qty[Current(o).product]
      BY <1>5, <1>types, <1>locals, <3>1
      DEF WriteItem, Item, LocalsCurrent, CreateRequest
    <3>3. orders[o].paymentId = 0 /\ orders[o].status \notin Payable
      BY <1>5, <1>types, <1>message DEF WriteItem, MessageMatches, OrderRow
    <3>4. /\ \A x \in Orders : x # o => create'[x] = create[x]
          /\ create'[o].step \in {"failed", "sum"} /\ UNCHANGED total
          /\ create'[o].body = create[o].body /\ create'[o].at = create[o].at
      BY <1>5, <1>types DEF WriteItem, Goto, CreateRequest
    <3>5. CASE orders' = orders
      BY <3>2, <3>3, <3>4, <3>5
    <3>6. CASE orders' # orders
      <4> DEFINE p == Current(o).product
                 q == create[o].found + Current(o).qty
                 n == IF create[o].found = 0 THEN create[o].price ELSE orders[o].price[p]
      <4>1. orders' = [orders EXCEPT ![o] = [@ EXCEPT !.qty[p] = q, !.price[p] = n]]
        BY <1>5, <3>6 DEF WriteItem
      <4>2. products[p].state = "listed" \/ orders[o].qty[p] > 0
        BY <1>5, <3>2, <3>6 DEF WriteItem
      <4> HIDE DEF p, q, n
      <4>3. /\ \A x \in Orders : x # o => orders'[x] = orders[x]
            /\ orders'[o].status = orders[o].status /\ orders'[o].paymentId = orders[o].paymentId
            /\ \A k \in Products : k # p => orders'[o].qty[k] = orders[o].qty[k]
        BY <1>types, <4>1 DEF OrderRow, Quantities
      <4> QED
        BY <3>2, <3>3, <3>4, <4>2, <4>3 DEF p
    <3> QED
      BY <3>5, <3>6
  <2>1. (\A x \in Orders : WithinBody(x) /\ RowWithRequest(x))'
    BY SMTT(30), <1>5, <2>0, <1>types, <1>rows DEF WriteItem, WithinBody, RowWithRequest
  <2>2. (\A x \in Orders : LocalsCurrent(x) /\ TotalCurrent(x))'
    BY ZenonT(60), <2>0, <1>locals DEF LocalsCurrent, TotalCurrent, Current
  <2>3. (\A x \in Orders : MessageMatches(x))'
    BY <1>5, <2>0, <1>types, <1>message DEF WriteItem, MessageMatches
  <2>4. (\A y \in Payments : PaymentMatches(y))'
    BY <1>5, <2>0, <1>types, <1>payment DEF WriteItem, PaymentMatches
  <2>5. (\A z \in Completions : CompletionMatches(z))'
    BY <1>5, <2>0, <1>types, <1>completion DEF WriteItem, CompletionMatches
  <2>6. ItemsRefer'
    BY <1>5, <2>0, <1>types, <1>refer DEF WriteItem, ItemsRefer
  <2>7. PaidMeansDeducted'
    BY ZenonT(60), <1>5, <2>0, <1>types, <1>paid DEF WriteItem, PaidMeansDeducted
  <2> QED
    BY <2>1, <2>2, <2>3, <2>4, <2>5, <2>6, <2>7 DEF InvParts
<1>6. ASSUME NEW o \in Orders, ReadItems(o) PROVE InvParts'
  <2>1. /\ (\A y \in Payments : PaymentMatches(y))'
        /\ (\A z \in Completions : CompletionMatches(z))'
        /\ ItemsRefer'
        /\ PaidMeansDeducted'
    BY <1>6, <1>payment, <1>completion, <1>refer, <1>paid
    DEF ReadItems, PaymentMatches, CompletionMatches, ItemsRefer, PaidMeansDeducted
  <2>2. (\A x \in Orders : WithinBody(x) /\ RowWithRequest(x))'
    BY <1>6, <1>types, <1>rows DEF ReadItems, WithinBody, RowWithRequest
  <2>3. (\A x \in Orders : LocalsCurrent(x) /\ TotalCurrent(x))'
    BY <1>6, <1>types, <1>locals DEF ReadItems, LocalsCurrent, TotalCurrent, Current
  <2>4. (\A x \in Orders : MessageMatches(x))'
    BY <1>6, <1>types, <1>message DEF ReadItems, MessageMatches
  <2> QED
    BY <2>1, <2>2, <2>3, <2>4 DEF InvParts
<1>7. ASSUME NEW o \in Orders, WriteTotal(o) PROVE InvParts'
  <2>1. /\ (\A y \in Payments : PaymentMatches(y))'
        /\ (\A z \in Completions : CompletionMatches(z))'
        /\ ItemsRefer'
        /\ PaidMeansDeducted'
    BY <1>7, <1>payment, <1>completion, <1>refer, <1>paid
    DEF WriteTotal, PaymentMatches, CompletionMatches, ItemsRefer, PaidMeansDeducted
  <2>2. (\A x \in Orders : WithinBody(x) /\ RowWithRequest(x))'
    BY <1>7, <1>types, <1>rows DEF WriteTotal, WithinBody, RowWithRequest
  <2>3. (\A x \in Orders : LocalsCurrent(x) /\ TotalCurrent(x))'
    BY <1>7, <1>types, <1>locals
    DEF WriteTotal, LocalsCurrent, TotalCurrent, Current
  <2>4. (\A x \in Orders : MessageMatches(x))'
    BY <1>7, <1>types, <1>message DEF WriteTotal, MessageMatches
  <2> QED
    BY <2>1, <2>2, <2>3, <2>4 DEF InvParts
<1>8. ASSUME NEW o \in Orders, EnqueueOrderProcessing(o) PROVE InvParts'
  <2>1. /\ (\A y \in Payments : PaymentMatches(y))'
        /\ (\A z \in Completions : CompletionMatches(z))'
        /\ ItemsRefer'
        /\ PaidMeansDeducted'
    BY <1>8, <1>payment, <1>completion, <1>refer, <1>paid
    DEF EnqueueOrderProcessing, PaymentMatches, CompletionMatches, ItemsRefer,
        PaidMeansDeducted
  <2>2. (\A x \in Orders : WithinBody(x) /\ RowWithRequest(x))'
    BY <1>8, <1>types, <1>rows
    DEF EnqueueOrderProcessing, Goto, Processing!Publish, Processing!Move,
        WithinBody, RowWithRequest
  <2>3. (\A x \in Orders : LocalsCurrent(x) /\ TotalCurrent(x))'
    BY <1>8, <1>types, <1>locals
    DEF EnqueueOrderProcessing, Goto, Processing!Publish, Processing!Move,
        LocalsCurrent, TotalCurrent, Current
  <2>4. (\A x \in Orders : MessageMatches(x))'
    BY <1>8, <1>types, <1>message
    DEF EnqueueOrderProcessing, Goto, Processing!Publish, Processing!Move,
        MessageMatches
  <2> QED
    BY <2>1, <2>2, <2>3, <2>4 DEF InvParts
<1>9. ASSUME NEW o \in Orders, AbortCreate(o) PROVE InvParts'
  <2>1. /\ (\A y \in Payments : PaymentMatches(y))'
        /\ (\A z \in Completions : CompletionMatches(z))'
        /\ ItemsRefer'
        /\ PaidMeansDeducted'
    BY <1>9, <1>payment, <1>completion, <1>refer, <1>paid
    DEF AbortCreate, PaymentMatches, CompletionMatches, ItemsRefer,
        PaidMeansDeducted
  <2>2. (\A x \in Orders : WithinBody(x) /\ RowWithRequest(x))'
    BY <1>9, <1>types, <1>rows
    DEF AbortCreate, Goto, Fault, WithinBody, RowWithRequest
  <2>3. (\A x \in Orders : LocalsCurrent(x) /\ TotalCurrent(x))'
    BY <1>9, <1>types, <1>locals
    DEF AbortCreate, Goto, Fault, LocalsCurrent, TotalCurrent, Current
  <2>4. (\A x \in Orders : MessageMatches(x))'
    BY <1>9, <1>types, <1>message DEF AbortCreate, Goto, Fault, MessageMatches
  <2> QED
    BY <2>1, <2>2, <2>3, <2>4 DEF InvParts
<1>10. ASSUME NEW r \in Payments, NEW o \in Orders, NEW u \in Customers,
              PaymentReceived(r, o, u)
       PROVE  InvParts'
  <2>1. /\ (\A x \in Orders : WithinBody(x) /\ RowWithRequest(x))'
        /\ (\A x \in Orders : LocalsCurrent(x) /\ TotalCurrent(x))'
        /\ (\A x \in Orders : MessageMatches(x))'
        /\ (\A z \in Completions : CompletionMatches(z))'
        /\ ItemsRefer'
    BY <1>10, <1>rows, <1>locals, <1>message, <1>completion, <1>refer
    DEF PaymentReceived, WithinBody, RowWithRequest, LocalsCurrent, TotalCurrent,
        Current, MessageMatches, CompletionMatches, ItemsRefer
  <2>2. (\A y \in Payments : PaymentMatches(y))'
    BY <1>10, <1>types, <1>message, <1>payment
    DEF PaymentReceived, PaymentMatches, MessageMatches
  <2>3. PaidMeansDeducted'
    BY <1>10, <1>types, <1>paid DEF PaymentReceived, PaidMeansDeducted
  <2> QED
    BY <2>1, <2>2, <2>3 DEF InvParts
<1>11. ASSUME NEW r \in Payments, NEW p \in Products, DeductStock(r, p)
       PROVE  InvParts'
  <2>1. /\ (\A x \in Orders : WithinBody(x) /\ RowWithRequest(x))'
        /\ (\A x \in Orders : LocalsCurrent(x) /\ TotalCurrent(x))'
        /\ (\A x \in Orders : MessageMatches(x))'
        /\ (\A z \in Completions : CompletionMatches(z))'
    BY <1>11, <1>rows, <1>locals, <1>message, <1>completion
    DEF DeductStock, WithinBody, RowWithRequest, LocalsCurrent, TotalCurrent,
        Current, MessageMatches, CompletionMatches
  <2>2. (\A y \in Payments : PaymentMatches(y))'
    BY <1>11, <1>types, <1>payment DEF DeductStock, PaymentMatches
  <2>3. ItemsRefer'
    BY <1>11, <1>types, <1>refer DEF DeductStock, ItemsRefer
  <2>4. PaidMeansDeducted'
    BY <1>11, <1>types, <1>paid DEF DeductStock, PaidMeansDeducted
  <2> QED
    BY <2>1, <2>2, <2>3, <2>4 DEF InvParts
<1>12. ASSUME NEW r \in Payments, MarkPaid(r) PROVE InvParts'
  <2>0. /\ payments[r].order \in Orders /\ orders[payments[r].order].paymentId > 0
        /\ payments[r].lines = orders[payments[r].order].qty /\ payments[r].left = {}
        /\ create[payments[r].order].step = "done" /\ UNCHANGED <<create, total>>
        /\ \A o \in Orders : /\ orders'[o].status = IF o = payments[r].order
                                                 THEN "PAID" ELSE orders[o].status
                             /\ orders'[o].qty = orders[o].qty
                             /\ orders'[o].price = orders[o].price
                             /\ orders'[o].paymentId = orders[o].paymentId
        /\ \A s \in Payments : /\ payments'[s].step = IF s = r THEN "done" ELSE payments[s].step
                               /\ payments'[s].order = payments[s].order
                               /\ payments'[s].lines = payments[s].lines
                               /\ payments'[s].left = payments[s].left
    BY <1>12, <1>types, <1>message, <1>payment
    DEF MarkPaid, PaymentMatches, MessageMatches, OrderRow, PaymentRequest
  <2>1. (\A x \in Orders : WithinBody(x) /\ RowWithRequest(x))'
    BY <1>12, <2>0, <1>rows DEF MarkPaid, WithinBody, RowWithRequest
  <2>2. (\A x \in Orders : LocalsCurrent(x) /\ TotalCurrent(x))'
    BY <2>0, <1>locals DEF LocalsCurrent, TotalCurrent, Current
  <2>3. (\A x \in Orders : MessageMatches(x))'
    BY <1>12, <2>0, <1>types, <1>message DEF MarkPaid, MessageMatches
  <2>4. (\A y \in Payments : PaymentMatches(y))'
    BY <1>12, <2>0, <1>types, <1>payment DEF MarkPaid, PaymentMatches
  <2>5. (\A z \in Completions : CompletionMatches(z))'
    BY <1>12, <2>0, <1>types, <1>completion DEF MarkPaid, CompletionMatches
  <2>6. ItemsRefer'
    BY <1>12, <2>0, <1>types, <1>refer DEF MarkPaid, ItemsRefer
  <2>7. PaidMeansDeducted'
    BY <2>0, <1>paid DEF PaidMeansDeducted
  <2> QED
    BY <2>1, <2>2, <2>3, <2>4, <2>5, <2>6, <2>7 DEF InvParts
<1>13. ASSUME NEW r \in Payments, AbortPayment(r) PROVE InvParts'
  <2>1. /\ (\A x \in Orders : WithinBody(x) /\ RowWithRequest(x))'
        /\ (\A x \in Orders : LocalsCurrent(x) /\ TotalCurrent(x))'
        /\ (\A z \in Completions : CompletionMatches(z))'
        /\ ItemsRefer'
    BY <1>13, <1>rows, <1>locals, <1>completion, <1>refer
    DEF AbortPayment, WithinBody, RowWithRequest, LocalsCurrent, TotalCurrent,
        Current, CompletionMatches, ItemsRefer
  <2>2. (\A x \in Orders : MessageMatches(x))'
    BY <1>13, <1>types, <1>message DEF AbortPayment, Fault, MessageMatches
  <2>3. (\A y \in Payments : PaymentMatches(y))'
    BY <1>13, <1>types, <1>payment DEF AbortPayment, Fault, PaymentMatches
  <2>4. PaidMeansDeducted'
    BY <1>13, <1>types, <1>paid DEF AbortPayment, Fault, PaidMeansDeducted
  <2> QED
    BY <2>1, <2>2, <2>3, <2>4 DEF InvParts
<1>14. ASSUME NEW c \in Completions, NEW o \in Orders, NEW u \in Customers,
              CompleteOrder(c, o, u)
       PROVE  InvParts'
  <2>1. /\ (\A x \in Orders : WithinBody(x) /\ RowWithRequest(x))'
        /\ (\A x \in Orders : LocalsCurrent(x) /\ TotalCurrent(x))'
        /\ (\A x \in Orders : MessageMatches(x))'
        /\ (\A y \in Payments : PaymentMatches(y))'
        /\ ItemsRefer'
        /\ PaidMeansDeducted'
    BY <1>14, <1>rows, <1>locals, <1>message, <1>payment, <1>refer, <1>paid
    DEF CompleteOrder, WithinBody, RowWithRequest, LocalsCurrent, TotalCurrent,
        Current, MessageMatches, PaymentMatches, ItemsRefer, PaidMeansDeducted
  <2>2. (\A z \in Completions : CompletionMatches(z))'
    BY <1>14, <1>types, <1>completion
    DEF CompleteOrder, Completed!Publish, Completed!Move, CompletionMatches
  <2> QED
    BY <2>1, <2>2 DEF InvParts
<1>15. ASSUME NEW o \in Orders, HandleOrderProcessing(o) PROVE InvParts'
  <2>0. /\ orders[o].status # "NONE" /\ create[o].step = "done"
        /\ \A x \in Orders : x # o => orders'[x] = orders[x]
        /\ orders'[o].status = "WAITING_FOR_PAYMENT"
        /\ orders'[o].qty = orders[o].qty /\ orders'[o].price = orders[o].price
        /\ orders'[o].paymentId = orders[o].paymentId + 1 /\ orders[o].paymentId \in Nat
        /\ \A x \in Orders : processing'[x] = IF x = o THEN "handled" ELSE processing[x]
    BY <1>15, <1>types, <1>rows, <1>message
    DEF HandleOrderProcessing, Processing!Handle, Processing!Move, OrderRow,
        RowWithRequest, MessageMatches
  <2>1. (\A x \in Orders : WithinBody(x) /\ RowWithRequest(x))'
    BY <1>15, <2>0, <1>types, <1>rows
    DEF HandleOrderProcessing, WithinBody, RowWithRequest
  <2>2. (\A x \in Orders : LocalsCurrent(x) /\ TotalCurrent(x))'
    BY <1>15, <2>0, <1>types, <1>locals
    DEF HandleOrderProcessing, LocalsCurrent, TotalCurrent, Current
  <2>3. (\A x \in Orders : MessageMatches(x))'
    BY <1>15, <2>0, <1>types, <1>message DEF HandleOrderProcessing, MessageMatches
  <2>4. (\A y \in Payments : PaymentMatches(y))'
    BY <1>15, <2>0, <1>types, <1>payment DEF HandleOrderProcessing, PaymentMatches
  <2>5. (\A z \in Completions : CompletionMatches(z))'
    BY <1>15, <2>0, <1>types, <1>completion
    DEF HandleOrderProcessing, CompletionMatches
  <2>6. ItemsRefer'
    BY <1>15, <2>0, <1>types, <1>refer DEF HandleOrderProcessing, ItemsRefer
  <2>7. PaidMeansDeducted'
    BY <1>15, <2>0, <1>types, <1>paid DEF HandleOrderProcessing, PaidMeansDeducted
  <2> QED
    BY <2>1, <2>2, <2>3, <2>4, <2>5, <2>6, <2>7 DEF InvParts
<1>16. ASSUME NEW c \in Completions, HandleOrderCompleted(c) PROVE InvParts'
  <2>0. /\ completions[c] \in Orders /\ orders[completions[c]].status # "NONE"
        /\ \A o \in Orders : /\ orders'[o].status = IF o = completions[c]
                                                 THEN "COMPLETE" ELSE orders[o].status
                             /\ orders'[o].qty = orders[o].qty
                             /\ orders'[o].price = orders[o].price
                             /\ orders'[o].paymentId = orders[o].paymentId
        /\ UNCHANGED payments
        /\ \A x \in Completions : completed'[x] = IF x = c THEN "handled" ELSE completed[x]
    BY <1>16, <1>types, <1>completion
    DEF HandleOrderCompleted, Completed!Handle, Completed!Move, OrderRow,
        CompletionMatches
  <2>1. (\A x \in Orders : WithinBody(x) /\ RowWithRequest(x))'
    BY <1>16, <2>0, <1>types, <1>rows
    DEF HandleOrderCompleted, WithinBody, RowWithRequest
  <2>2. (\A x \in Orders : LocalsCurrent(x) /\ TotalCurrent(x))'
    BY <1>16, <2>0, <1>types, <1>locals
    DEF HandleOrderCompleted, LocalsCurrent, TotalCurrent, Current
  <2>3. (\A x \in Orders : MessageMatches(x))'
    BY <1>16, <2>0, <1>types, <1>message DEF HandleOrderCompleted, MessageMatches
  <2>4. (\A y \in Payments : PaymentMatches(y))'
    BY <1>16, <2>0, <1>types, <1>payment DEF HandleOrderCompleted, PaymentMatches
  <2>5. (\A z \in Completions : CompletionMatches(z))'
    BY <1>16, <2>0, <1>types, <1>completion
    DEF HandleOrderCompleted, CompletionMatches
  <2>6. ItemsRefer'
    BY <1>16, <2>0, <1>types, <1>refer DEF HandleOrderCompleted, ItemsRefer
  <2>7. PaidMeansDeducted'
    BY <2>0, <1>paid DEF PaidMeansDeducted
  <2> QED
    BY <2>1, <2>2, <2>3, <2>4, <2>5, <2>6, <2>7 DEF InvParts
<1>17. ASSUME NEW o \in Orders, ProcessingMoves(o) PROVE InvParts'
  <2>0. /\ \A x \in Orders : x # o => processing'[x] = processing[x]
        /\ \/ processing[o] = "sent" /\ processing'[o] = "ready"
           \/ processing[o] = "ready" /\ processing'[o] = "delivered"
           \/ processing[o] = "handled" /\ processing'[o] = "acked"
        /\ UNCHANGED <<orders, create, faults>>
    BY <1>17, <1>types
    DEF ProcessingMoves, Processing!Store, Processing!Deliver, Processing!Ack,
        Processing!Move
  <2>1. /\ (\A x \in Orders : WithinBody(x) /\ RowWithRequest(x))'
        /\ (\A x \in Orders : LocalsCurrent(x) /\ TotalCurrent(x))'
        /\ (\A y \in Payments : PaymentMatches(y))'
        /\ (\A z \in Completions : CompletionMatches(z))'
        /\ ItemsRefer'
        /\ PaidMeansDeducted'
    BY <1>17, <1>rows, <1>locals, <1>payment, <1>completion, <1>refer, <1>paid
    DEF ProcessingMoves, WithinBody, RowWithRequest, LocalsCurrent, TotalCurrent,
        Current, PaymentMatches, CompletionMatches, ItemsRefer, PaidMeansDeducted
  <2>2. (\A x \in Orders : MessageMatches(x))'
    BY <1>17, <2>0, <1>types, <1>message DEF ProcessingMoves, MessageMatches
  <2> QED
    BY <2>1, <2>2 DEF InvParts
<1>18. ASSUME NEW c \in Completions, CompletedMoves(c) PROVE InvParts'
  <2>0. /\ \A x \in Completions : completed'[x] # "none" => completed[x] # "none"
        /\ UNCHANGED <<orders, completions>>
    BY <1>18, <1>types
    DEF CompletedMoves, Completed!Store, Completed!Deliver, Completed!Ack,
        Completed!Move
  <2>1. /\ (\A x \in Orders : WithinBody(x) /\ RowWithRequest(x))'
        /\ (\A x \in Orders : LocalsCurrent(x) /\ TotalCurrent(x))'
        /\ (\A x \in Orders : MessageMatches(x))'
        /\ (\A y \in Payments : PaymentMatches(y))'
        /\ ItemsRefer'
        /\ PaidMeansDeducted'
    BY <1>18, <1>rows, <1>locals, <1>message, <1>payment, <1>refer, <1>paid
    DEF CompletedMoves, WithinBody, RowWithRequest, LocalsCurrent, TotalCurrent,
        Current, MessageMatches, PaymentMatches, ItemsRefer, PaidMeansDeducted
  <2>2. (\A z \in Completions : CompletionMatches(z))'
    BY <1>18, <2>0, <1>types, <1>completion DEF CompletedMoves, CompletionMatches
  <2> QED
    BY <2>1, <2>2 DEF InvParts
<1>19. ASSUME NEW o \in Orders, ProcessingFails(o) PROVE InvParts'
  <2>0. /\ \A x \in Orders : x # o => processing'[x] = processing[x]
        /\ \/ processing[o] = "sent" /\ processing'[o] = "lost"
           \/ processing[o] \in {"delivered", "handled"} /\ processing'[o] = "ready"
        /\ faults' = faults + 1
        /\ UNCHANGED <<orders, create>>
    BY <1>19, <1>types
    DEF ProcessingFails, Fault, Processing!Lose, Processing!Nack, Processing!Move
  <2>1. /\ (\A x \in Orders : WithinBody(x) /\ RowWithRequest(x))'
        /\ (\A x \in Orders : LocalsCurrent(x) /\ TotalCurrent(x))'
        /\ (\A y \in Payments : PaymentMatches(y))'
        /\ (\A z \in Completions : CompletionMatches(z))'
        /\ ItemsRefer'
        /\ PaidMeansDeducted'
    BY <1>19, <1>rows, <1>locals, <1>payment, <1>completion, <1>refer, <1>paid
    DEF ProcessingFails, WithinBody, RowWithRequest, LocalsCurrent, TotalCurrent,
        Current, PaymentMatches, CompletionMatches, ItemsRefer, PaidMeansDeducted
  <2>2. (\A x \in Orders : MessageMatches(x))'
    BY <1>19, <2>0, <1>types, <1>message DEF ProcessingFails, MessageMatches
  <2> QED
    BY <2>1, <2>2 DEF InvParts
<1>20. ASSUME NEW c \in Completions, CompletedFails(c) PROVE InvParts'
  <2>0. /\ \A x \in Completions : completed'[x] # "none" => completed[x] # "none"
        /\ faults' = faults + 1
        /\ UNCHANGED <<orders, create, completions, processing>>
    BY <1>20, <1>types
    DEF CompletedFails, Fault, Completed!Lose, Completed!Nack, Completed!Move
  <2>1. /\ (\A x \in Orders : WithinBody(x) /\ RowWithRequest(x))'
        /\ (\A x \in Orders : LocalsCurrent(x) /\ TotalCurrent(x))'
        /\ (\A y \in Payments : PaymentMatches(y))'
        /\ ItemsRefer'
        /\ PaidMeansDeducted'
    BY <1>20, <1>rows, <1>locals, <1>payment, <1>refer, <1>paid
    DEF CompletedFails, WithinBody, RowWithRequest, LocalsCurrent, TotalCurrent,
        Current, PaymentMatches, ItemsRefer, PaidMeansDeducted
  <2>2. (\A x \in Orders : MessageMatches(x))'
    BY <1>20, <2>0, <1>types, <1>message DEF CompletedFails, MessageMatches
  <2>3. (\A z \in Completions : CompletionMatches(z))'
    BY <1>20, <2>0, <1>types, <1>completion DEF CompletedFails, CompletionMatches
  <2> QED
    BY <2>1, <2>2, <2>3 DEF InvParts
<1>21. ASSUME ConsumerCrash PROVE InvParts'
  <2>1. /\ (\A x \in Orders : WithinBody(x) /\ RowWithRequest(x))'
        /\ (\A x \in Orders : LocalsCurrent(x) /\ TotalCurrent(x))'
        /\ (\A y \in Payments : PaymentMatches(y))'
        /\ ItemsRefer'
        /\ PaidMeansDeducted'
    BY <1>21, <1>rows, <1>locals, <1>payment, <1>refer, <1>paid
    DEF ConsumerCrash, WithinBody, RowWithRequest, LocalsCurrent, TotalCurrent,
        Current, PaymentMatches, ItemsRefer, PaidMeansDeducted
  <2>2. (\A x \in Orders : MessageMatches(x))'
    BY <1>21, <1>types, <1>message
    DEF ConsumerCrash, Processing!PutBack, Processing!InProgress, Completed!PutBack,
        Completed!InProgress, Fault, MessageMatches
  <2>3. (\A z \in Completions : CompletionMatches(z))'
    BY <1>21, <1>types, <1>completion
    DEF ConsumerCrash, Processing!PutBack, Processing!InProgress, Completed!PutBack,
        Completed!InProgress, Fault, CompletionMatches
  <2> QED
    BY <2>1, <2>2, <2>3 DEF InvParts
<1>22. ASSUME NEW p \in Products, NEW price \in Prices, NEW stock \in Stocks,
              CreateProduct(p, price, stock)
       PROVE  InvParts'
  <2>1. /\ (\A x \in Orders : WithinBody(x) /\ RowWithRequest(x))'
        /\ (\A x \in Orders : LocalsCurrent(x) /\ TotalCurrent(x))'
        /\ (\A x \in Orders : MessageMatches(x))'
        /\ (\A y \in Payments : PaymentMatches(y))'
        /\ (\A z \in Completions : CompletionMatches(z))'
        /\ PaidMeansDeducted'
    BY <1>22, <1>rows, <1>locals, <1>message, <1>payment, <1>completion, <1>paid
    DEF CreateProduct, WithinBody, RowWithRequest, LocalsCurrent, TotalCurrent,
        Current, MessageMatches, PaymentMatches, CompletionMatches,
        PaidMeansDeducted
  <2>2. ItemsRefer'
    BY <1>22, <1>types, <1>refer DEF CreateProduct, ItemsRefer
  <2> QED
    BY <2>1, <2>2 DEF InvParts
<1>23. ASSUME NEW p \in Products, NEW price \in Prices \cup {Null},
              NEW stock \in Stocks \cup {Null}, UpdateProduct(p, price, stock)
       PROVE  InvParts'
  <2>1. /\ (\A x \in Orders : WithinBody(x) /\ RowWithRequest(x))'
        /\ (\A x \in Orders : LocalsCurrent(x) /\ TotalCurrent(x))'
        /\ (\A x \in Orders : MessageMatches(x))'
        /\ (\A y \in Payments : PaymentMatches(y))'
        /\ (\A z \in Completions : CompletionMatches(z))'
        /\ PaidMeansDeducted'
    BY <1>23, <1>rows, <1>locals, <1>message, <1>payment, <1>completion, <1>paid
    DEF UpdateProduct, Edit, WithinBody, RowWithRequest, LocalsCurrent,
        TotalCurrent, Current, MessageMatches, PaymentMatches, CompletionMatches,
        PaidMeansDeducted
  <2>2. ItemsRefer'
    BY <1>23, <1>types, <1>refer DEF UpdateProduct, ItemsRefer
  <2> QED
    BY <2>1, <2>2 DEF InvParts
<1>24. ASSUME NEW p \in Products, RemoveProduct(p) PROVE InvParts'
  <2>1. /\ (\A x \in Orders : WithinBody(x) /\ RowWithRequest(x))'
        /\ (\A x \in Orders : LocalsCurrent(x) /\ TotalCurrent(x))'
        /\ (\A x \in Orders : MessageMatches(x))'
        /\ (\A y \in Payments : PaymentMatches(y))'
        /\ (\A z \in Completions : CompletionMatches(z))'
        /\ PaidMeansDeducted'
    BY <1>24, <1>rows, <1>locals, <1>message, <1>payment, <1>completion, <1>paid
    DEF RemoveProduct, Edit, WithinBody, RowWithRequest, LocalsCurrent,
        TotalCurrent, Current, MessageMatches, PaymentMatches, CompletionMatches,
        PaidMeansDeducted
  <2>2. ItemsRefer'
    BY <1>24, <1>types, <1>refer DEF RemoveProduct, ItemsRefer
  <2> QED
    BY <2>1, <2>2 DEF InvParts
<1>25. ASSUME UNCHANGED vars PROVE InvParts'
  <2>1. /\ (\A x \in Orders : WithinBody(x) /\ RowWithRequest(x))'
        /\ (\A x \in Orders : LocalsCurrent(x) /\ TotalCurrent(x))'
        /\ (\A x \in Orders : MessageMatches(x))'
        /\ (\A y \in Payments : PaymentMatches(y))'
        /\ (\A z \in Completions : CompletionMatches(z))'
        /\ ItemsRefer'
        /\ PaidMeansDeducted'
    BY <1>25, <1>rows, <1>locals, <1>message, <1>payment, <1>completion, <1>refer,
       <1>paid
    DEF vars, WithinBody, RowWithRequest, LocalsCurrent, TotalCurrent, Current,
        MessageMatches, PaymentMatches, CompletionMatches, ItemsRefer,
        PaidMeansDeducted
  <2> QED
    BY <2>1 DEF InvParts
<1> QED
  BY <1>1, <1>2, <1>3, <1>4, <1>5, <1>6, <1>7, <1>8, <1>9, <1>10, <1>11, <1>12,
     <1>13, <1>14, <1>15, <1>16, <1>17, <1>18, <1>19, <1>20, <1>21, <1>22, <1>23,
     <1>24, <1>25
  DEF Next, CreateContinues, PaymentContinues, ProcessingContinues, CompletedContinues

\* The inductive invariant holds in every reachable state.
THEOREM Invariance == Spec => []OrderInv
<1>1. Init => OrderInv
  BY InitType, InitInv DEF OrderInv
<1>2. OrderInv /\ [Next]_vars => OrderInv'
  <2> SUFFICES ASSUME OrderInv, [Next]_vars PROVE OrderInv'
    OBVIOUS
  <2>1. TypeOK'
    BY NextType DEF OrderInv, InvParts
  <2>2. InvParts'
    BY NextInv
  <2> QED
    BY <2>1, <2>2 DEF OrderInv
<1> QED
  BY <1>1, <1>2, PTL DEF Spec

-----------------------------------------------------------------------------
(* What the invariant says of the system.                                   *)

\* Every variable keeps its type: no handler writes a value of the wrong kind,
\* whatever the interleaving.
THEOREM TypeCorrect == Spec => []TypeOK
<1>1. OrderInv => TypeOK
  BY DEF OrderInv
<1> QED
  BY <1>1, Invariance, PTL

\* Only an order whose create request has finished can be paid.
THEOREM PayableCorrect == Spec => []PayableOnlyWhenCreated
<1>1. OrderInv => PayableOnlyWhenCreated
  BY DEF OrderInv, InvParts, MessageMatches, PayableOnlyWhenCreated,
     TypeOK, OrderRow
<1> QED
  BY <1>1, Invariance, PTL

\* The items a payment read stay the items of its order while it deducts them.
THEOREM LinesCorrect == Spec => []PaymentLinesCurrent
<1>1. OrderInv => PaymentLinesCurrent
  BY DEF OrderInv, InvParts, PaymentMatches, PaymentLinesCurrent
<1> QED
  BY <1>1, Invariance, PTL

\* The total of an order that can be paid is the sum over its items.
THEOREM TotalCorrect == Spec => []TotalMatchesItems
<1>1. OrderInv => TotalMatchesItems
  <2> SUFFICES ASSUME OrderInv, NEW o \in Orders, orders[o].status \in Payable
               PROVE  total[o] = SumOf(orders[o].qty, orders[o].price)
    BY DEF TotalMatchesItems
  <2>1. create[o].step = "done"
    BY DEF OrderInv, InvParts, MessageMatches, TypeOK, OrderRow
  <2> QED
    BY <2>1 DEF OrderInv, InvParts, TotalCurrent
<1> QED
  BY <1>1, Invariance, PTL

\* No item refers to a product that was removed.
THEOREM ItemsReferCorrect == Spec => []ItemsRefer
<1>1. OrderInv => ItemsRefer
  BY DEF OrderInv, InvParts
<1> QED
  BY <1>1, Invariance, PTL

\* A paid order has had all its items deducted by a payment that finished.
THEOREM PaidCorrect == Spec => []PaidMeansDeducted
<1>1. OrderInv => PaidMeansDeducted
  BY DEF OrderInv, InvParts
<1> QED
  BY <1>1, Invariance, PTL

-----------------------------------------------------------------------------
(* The items of an order, added up.  A request has written the items of its *)
(* body up to the one it is at, which is written before the total is taken. *)

Written(o) ==
    IF create[o].step \in {"sum", "total"} THEN create[o].at ELSE create[o].at - 1

\* The quantity of p in the first n items of a body.
RequestedUpTo(body, n, p) ==
    SumFunction([i \in DOMAIN body |->
        IF i <= n /\ body[i].product = p THEN body[i].qty ELSE 0])

\* Until it fails, a request has stored what the items it has written ask for, and
\* it publishes after the last one.
ItemsWritten(o) ==
    /\ create[o].step \in CreateSteps \cup {"done"} =>
          /\ create[o].body \in Bodies
          /\ \A p \in Products :
                orders[o].qty[p] = RequestedUpTo(create[o].body, Written(o), p)
    /\ create[o].step \in {"enqueue", "done"} =>
          create[o].at = Len(create[o].body) + 1

\* The items of a body are finitely many, each with a product and a quantity.
LEMMA BodyType ==
    ASSUME NEW body \in Bodies
    PROVE  /\ Len(body) \in Nat
           /\ DOMAIN body = 1 .. Len(body)
           /\ IsFiniteSet(DOMAIN body)
           /\ \A i \in DOMAIN body : body[i].product \in Products /\ body[i].qty \in Nat
<1>1. body \in Seq(Item)
  BY DtoAssumption
<1>2. Len(body) \in Nat /\ DOMAIN body = 1 .. Len(body)
  BY <1>1
<1>3. IsFiniteSet(1 .. Len(body))
  BY <1>2, FS_Interval
<1>4. \A i \in DOMAIN body : body[i] \in Item
  BY <1>1, <1>2
<1> QED
  BY <1>2, <1>3, <1>4 DEF Item

\* No items ask for nothing.
LEMMA RequestedNone ==
    ASSUME NEW body \in Bodies, NEW p
    PROVE  RequestedUpTo(body, 0, p) = 0
<1> DEFINE f == [i \in DOMAIN body |->
                    IF i <= 0 /\ body[i].product = p THEN body[i].qty ELSE 0]
<1>1. \A i \in DOMAIN body : f[i] = 0
  BY BodyType
<1>2. f \in [DOMAIN body -> Int]
  BY <1>1
<1>3. RequestedUpTo(body, 0, p) = SumFunction(f)
  BY DEF RequestedUpTo
<1> HIDE DEF f
<1> QED
  BY <1>1, <1>2, <1>3, BodyType, SumZero

\* The next item adds its quantity to its own product and nothing to the others.
LEMMA RequestedNext ==
    ASSUME NEW body \in Bodies, NEW n \in 1 .. Len(body), NEW p
    PROVE  RequestedUpTo(body, n, p) =
             RequestedUpTo(body, n - 1, p) + (IF body[n].product = p THEN body[n].qty ELSE 0)
<1> DEFINE f(m) == [i \in DOMAIN body |->
                       IF i <= m /\ body[i].product = p THEN body[i].qty ELSE 0]
<1>1. n \in DOMAIN body /\ n \in Int
  BY BodyType
<1>2. f(n) \in [DOMAIN body -> Int] /\ f(n - 1) \in [DOMAIN body -> Int]
  BY BodyType
<1>3. \A i \in DOMAIN body \ {n} : f(n)[i] = f(n - 1)[i]
  BY BodyType
<1>4. f(n)[n] = (IF body[n].product = p THEN body[n].qty ELSE 0) /\ f(n - 1)[n] = 0
  BY <1>1
<1>5. RequestedUpTo(body, n, p) = SumFunction(f(n))
      /\ RequestedUpTo(body, n - 1, p) = SumFunction(f(n - 1))
  BY DEF RequestedUpTo
<1>6. IsFiniteSet(DOMAIN body) /\ (IF body[n].product = p THEN body[n].qty ELSE 0) \in Int
  BY <1>1, BodyType
<1> HIDE DEF f
<1>7. SumFunction(f(n)) = SumFunction(f(n - 1)) + (f(n)[n] - f(n - 1)[n])
  BY <1>1, <1>2, <1>3, <1>6, SumChange
<1> QED
  BY <1>4, <1>5, <1>6, <1>7

\* All items together ask for what the body asks for.
LEMMA RequestedAll ==
    ASSUME NEW body \in Bodies, NEW p
    PROVE  RequestedUpTo(body, Len(body), p) = Requested(body, p)
<1>1. \A i \in DOMAIN body : i <= Len(body)
  BY BodyType
<1>2. [i \in DOMAIN body |->
          IF i <= Len(body) /\ body[i].product = p THEN body[i].qty ELSE 0]
      = [i \in DOMAIN body |-> IF body[i].product = p THEN body[i].qty ELSE 0]
  BY <1>1
<1> QED
  BY <1>2 DEF RequestedUpTo, Requested

\* A step that touches neither the request nor the items of x keeps its count, and
\* so does one that moves the request on without writing an item.
LEMMA ItemsFrame ==
    ASSUME NEW x \in Orders, ItemsWritten(x),
           orders'[x].qty = orders[x].qty,
           create'[x].step \in CreateSteps \cup {"done"} =>
               /\ create[x].step \in CreateSteps \cup {"done"}
               /\ create'[x].body = create[x].body
               /\ Written(x)' = Written(x),
           create'[x].step \in {"enqueue", "done"} =>
               create'[x].at = Len(create'[x].body) + 1
    PROVE  ItemsWritten(x)'
  BY DEF ItemsWritten

\* Every step keeps the count: addItemToOrder adds exactly the item it is at, and
\* nobody else writes items.
LEMMA NextItems ==
    ASSUME OrderInv, [Next]_vars, NEW x \in Orders, ItemsWritten(x)
    PROVE  ItemsWritten(x)'
<1> USE DEF bounds, queues, requests
<1>0. /\ orders \in [Orders -> OrderRow]
      /\ create \in [Orders -> CreateRequest]
      /\ WithinBody(x)
      /\ LocalsCurrent(x)
      /\ \A r \in Payments : PaymentMatches(r)
      /\ \A c \in Completions : CompletionMatches(c)
  BY DEF OrderInv, InvParts, TypeOK
<1>at. create[x].at \in Nat
  BY <1>0 DEF CreateRequest
<1>same. ASSUME create'[x] = create[x], orders'[x].qty = orders[x].qty
         PROVE  ItemsWritten(x)'
  BY <1>same DEF ItemsWritten, Written
<1>1. ASSUME NEW o \in Orders, NEW u \in Customers, NEW body \in Bodies,
             CreateOrder(o, u, body)
      PROVE  ItemsWritten(x)'
  <2>1. CASE o # x
    BY <1>0, <1>1, <2>1, <1>same DEF CreateOrder
  <2>2. CASE o = x
    <3>1. /\ create'[x].step = "order" /\ create'[x].body = body /\ create'[x].at = 1
          /\ orders'[x] = NewOrder(u)
      BY <1>0, <1>1, <2>2 DEF CreateOrder, WithinBody, CreateRequest
    <3>2. Written(x)' = 0
      BY <3>1 DEF Written
    <3>3. \A p \in Products : orders'[x].qty[p] = 0
      BY <3>1 DEF NewOrder, NoItems
    <3> QED
      BY <3>1, <3>2, <3>3, RequestedNone DEF ItemsWritten
  <2> QED
    BY <2>1, <2>2
<1>2. ASSUME NEW o \in Orders, CheckOrder(o) PROVE ItemsWritten(x)'
  <2>1. CASE o # x
    BY <1>0, <1>2, <2>1, <1>same DEF CheckOrder, Goto
  <2>2. CASE o = x
    <3>1. /\ create[x].step = "order" /\ create'[x].step \in {"product", "failed"}
          /\ create'[x].body = create[x].body /\ create'[x].at = create[x].at
          /\ orders' = orders
      BY <1>0, <1>2, <2>2 DEF CheckOrder, Goto, CreateRequest
    <3> QED
      BY <3>1, ItemsFrame DEF Written, CreateSteps
  <2> QED
    BY <2>1, <2>2
<1>3. ASSUME NEW o \in Orders, CheckProduct(o) PROVE ItemsWritten(x)'
  <2>1. CASE o # x
    BY <1>0, <1>3, <2>1, <1>same DEF CheckProduct
  <2>2. CASE o = x
    <3>1. /\ create[x].step = "product" /\ create'[x].step \in {"find", "failed"}
          /\ create'[x].body = create[x].body /\ create'[x].at = create[x].at
          /\ orders' = orders
      BY <1>0, <1>3, <2>2 DEF CheckProduct, CreateRequest
    <3> QED
      BY <3>1, ItemsFrame DEF Written, CreateSteps
  <2> QED
    BY <2>1, <2>2
<1>4. ASSUME NEW o \in Orders, FindItem(o) PROVE ItemsWritten(x)'
  <2>1. CASE o # x
    BY <1>0, <1>4, <2>1, <1>same DEF FindItem
  <2>2. CASE o = x
    <3>1. /\ create[x].step = "find" /\ create'[x].step = "write"
          /\ create'[x].body = create[x].body /\ create'[x].at = create[x].at
          /\ orders' = orders
      BY <1>0, <1>4, <2>2 DEF FindItem, CreateRequest
    <3> QED
      BY <3>1, ItemsFrame DEF Written, CreateSteps
  <2> QED
    BY <2>1, <2>2
<1>5. ASSUME NEW o \in Orders, WriteItem(o) PROVE ItemsWritten(x)'
  <2>1. CASE o # x
    BY <1>0, <1>5, <2>1, <1>same DEF WriteItem, Goto
  <2>2. CASE o = x /\ create'[x].step = "failed"
    BY <2>2 DEF ItemsWritten, CreateSteps
  <2>3. CASE o = x /\ create'[x].step # "failed"
    <3> DEFINE p == Current(x).product
               n == create[x].at
    <3>1. /\ create[x].step = "write" /\ create'[x].step = "sum"
          /\ create'[x].body = create[x].body /\ create'[x].at = create[x].at
      BY <1>0, <1>5, <2>3 DEF WriteItem, Goto, CreateRequest
    <3>2. /\ create[x].body \in Bodies /\ n \in 1 .. Len(create[x].body)
          /\ Current(x) = create[x].body[n] /\ Current(x) \in Item
          /\ create[x].found = orders[x].qty[p]
      BY <1>0, <3>1, CurrentType
      DEF WithinBody, LocalsCurrent, CreateSteps, Current, OrderInv
    <3>3. orders'[x].qty = [orders[x].qty EXCEPT ![p] = create[x].found + Current(x).qty]
      BY <1>0, <1>5, <2>3, <3>1 DEF WriteItem, Goto, OrderRow
    <3>4. Written(x)' = n /\ Written(x) = n - 1
      BY <3>1 DEF Written
    <3>5. ASSUME NEW q \in Products
          PROVE  orders'[x].qty[q] = RequestedUpTo(create[x].body, n, q)
      <4>1. orders[x].qty[q] = RequestedUpTo(create[x].body, n - 1, q)
        BY <3>1, <3>4 DEF ItemsWritten, CreateSteps
      <4>2. RequestedUpTo(create[x].body, n, q) = RequestedUpTo(create[x].body, n - 1, q)
              + (IF Current(x).product = q THEN Current(x).qty ELSE 0)
        BY <3>2, RequestedNext
      <4>3. orders[x].qty \in Quantities /\ orders[x].qty[q] \in Nat
        BY <1>0 DEF OrderRow, Quantities
      <4>4. orders'[x].qty[q] = orders[x].qty[q]
              + (IF Current(x).product = q THEN Current(x).qty ELSE 0)
        <5>1. CASE p = q
          BY <3>2, <3>3, <4>3, <5>1 DEF Quantities
        <5>2. CASE p # q
          BY <3>3, <4>3, <5>2 DEF Quantities
        <5> QED
          BY <5>1, <5>2
      <4> QED
        BY <4>1, <4>2, <4>4
    <3> QED
      BY <3>1, <3>2, <3>4, <3>5 DEF ItemsWritten
  <2> QED
    BY <2>1, <2>2, <2>3
<1>6. ASSUME NEW o \in Orders, ReadItems(o) PROVE ItemsWritten(x)'
  <2>1. CASE o # x
    BY <1>0, <1>6, <2>1, <1>same DEF ReadItems
  <2>2. CASE o = x
    <3>1. /\ create[x].step = "sum" /\ create'[x].step = "total"
          /\ create'[x].body = create[x].body /\ create'[x].at = create[x].at
          /\ orders' = orders
      BY <1>0, <1>6, <2>2 DEF ReadItems, CreateRequest
    <3> QED
      BY <3>1, ItemsFrame DEF Written, CreateSteps
  <2> QED
    BY <2>1, <2>2
<1>7. ASSUME NEW o \in Orders, WriteTotal(o) PROVE ItemsWritten(x)'
  <2>1. CASE o # x
    BY <1>0, <1>7, <2>1, <1>same DEF WriteTotal
  <2>2. CASE o = x
    <3>1. /\ create[x].step = "total"
          /\ create'[x].step =
                IF create[x].at = Len(create[x].body) THEN "enqueue" ELSE "order"
          /\ create'[x].body = create[x].body /\ create'[x].at = create[x].at + 1
          /\ orders' = orders
      BY <1>0, <1>7, <2>2 DEF WriteTotal, CreateRequest
    <3>2. Written(x)' = create[x].at /\ Written(x) = create[x].at
      BY <1>at, <3>1 DEF Written
    <3> QED
      BY <3>1, <3>2, ItemsFrame DEF CreateSteps
  <2> QED
    BY <2>1, <2>2
<1>8. ASSUME NEW o \in Orders, EnqueueOrderProcessing(o) PROVE ItemsWritten(x)'
  <2>1. CASE o # x
    BY <1>0, <1>8, <2>1, <1>same DEF EnqueueOrderProcessing, Goto
  <2>2. CASE o = x
    <3>1. /\ create[x].step = "enqueue" /\ create'[x].step = "done"
          /\ create'[x].body = create[x].body /\ create'[x].at = create[x].at
          /\ orders' = orders
      BY <1>0, <1>8, <2>2 DEF EnqueueOrderProcessing, Goto, CreateRequest
    <3>2. create[x].at = Len(create[x].body) + 1
      BY <3>1 DEF ItemsWritten
    <3> QED
      BY <3>1, <3>2, ItemsFrame DEF Written, CreateSteps
  <2> QED
    BY <2>1, <2>2
<1>9. ASSUME NEW o \in Orders, AbortCreate(o) PROVE ItemsWritten(x)'
  <2>1. CASE o # x
    BY <1>0, <1>9, <2>1, <1>same DEF AbortCreate, Goto
  <2>2. CASE o = x
    <3>1. create'[x].step = "failed"
      BY <1>0, <1>9, <2>2 DEF AbortCreate, Goto, CreateRequest
    <3> QED
      BY <3>1 DEF ItemsWritten, CreateSteps
  <2> QED
    BY <2>1, <2>2
<1>10. ASSUME NEW r \in Payments, MarkPaid(r) PROVE ItemsWritten(x)'
  <2>1. payments[r].order \in Orders
    BY <1>0, <1>10 DEF MarkPaid, PaymentMatches
  <2> QED
    BY <1>0, <1>10, <2>1, <1>same DEF MarkPaid, OrderRow
<1>11. ASSUME NEW o \in Orders, HandleOrderProcessing(o) PROVE ItemsWritten(x)'
  BY <1>0, <1>11, <1>same DEF HandleOrderProcessing, OrderRow
<1>12. ASSUME NEW c \in Completions, HandleOrderCompleted(c) PROVE ItemsWritten(x)'
  BY <1>0, <1>12, <1>same DEF HandleOrderCompleted, OrderRow
<1>13. ASSUME UNCHANGED <<orders, create>> PROVE ItemsWritten(x)'
  BY <1>13, <1>same
<1> QED
  BY <1>1, <1>2, <1>3, <1>4, <1>5, <1>6, <1>7, <1>8, <1>9, <1>10, <1>11, <1>12, <1>13
  DEF Next, vars, CreateContinues, PaymentContinues, ProcessingContinues,
      CompletedContinues, PaymentReceived, DeductStock, AbortPayment, CompleteOrder,
      ProcessingMoves, CompletedMoves, ProcessingFails, CompletedFails, ConsumerCrash,
      CreateProduct, UpdateProduct, RemoveProduct

\* When create publishes, the order holds what the body asks for, for every body: a
\* product may be named any number of times.
THEOREM ItemsCorrect == Spec => []ItemsMatchBody
<1> DEFINE Inv == \A o \in Orders : ItemsWritten(o)
<1>1. Init => Inv
  BY DEF Init, ItemsWritten, CreateSteps
<1>2. OrderInv /\ Inv /\ [Next]_vars => Inv'
  BY NextItems
<1>3. OrderInv /\ Inv => ItemsMatchBody
  <2> SUFFICES ASSUME OrderInv, Inv, NEW o \in Orders, NEW p \in Products,
                      create[o].step \in {"enqueue", "done"}
               PROVE  orders[o].qty[p] = Requested(create[o].body, p)
    BY DEF ItemsMatchBody
  <2>1. /\ create[o].body \in Bodies
        /\ orders[o].qty[p] = RequestedUpTo(create[o].body, Written(o), p)
        /\ create[o].at = Len(create[o].body) + 1
    BY DEF ItemsWritten, CreateSteps
  <2>2. Written(o) = Len(create[o].body)
    BY <2>1, BodyType DEF Written
  <2> QED
    BY <2>1, <2>2, RequestedAll
<1> HIDE DEF Inv
<1> QED
  BY <1>1, <1>2, <1>3, Invariance, PTL DEF Spec

-----------------------------------------------------------------------------
(* The stock ledger.  Each step of a payment changes the deductions of one  *)
(* product by at most one line.                                             *)

Deductions(p) == [r \in Payments |-> Deducted(r, p)]

Ledger(p) ==
    ~products[p].restocked =>
        products[p].stock = products[p].opening - SumFunction(Deductions(p))

\* What the payments have deducted of a product are natural numbers.
LEMMA DeductionsType ==
    ASSUME TypeOK, NEW p \in Products PROVE Deductions(p) \in [Payments -> Nat]
<1>1. \A r \in Payments : payments[r].lines[p] \in Nat
  BY DEF TypeOK, PaymentRequest, Quantities
<1>2. \A r \in Payments : Deducted(r, p) \in Nat
  BY <1>1 DEF Deducted
<1> QED
  BY <1>2 DEF Deductions

\* Nothing is deducted of a product before it is listed: no order has it.
LEMMA AbsentUndeducted ==
    ASSUME OrderInv, NEW p \in Products, products[p].state = "absent"
    PROVE  SumFunction(Deductions(p)) = 0
<1>1. \A r \in Payments : Deductions(p)[r] = 0
  <2> SUFFICES ASSUME NEW r \in Payments PROVE Deducted(r, p) = 0
    BY DEF Deductions
  <2>1. CASE payments[r].step = "idle"
    BY <2>1 DEF Deducted
  <2>2. CASE payments[r].step # "idle"
    <3>1. payments[r].order \in Orders /\ payments[r].lines = orders[payments[r].order].qty
      BY <2>2 DEF OrderInv, InvParts, PaymentMatches
    <3>2. ~(orders[payments[r].order].qty[p] > 0) /\ orders[payments[r].order].qty[p] \in Nat
      BY SMTT(30), <3>1 DEF OrderInv, InvParts, ItemsRefer, TypeOK, OrderRow, Quantities
    <3> QED
      BY <3>1, <3>2 DEF Deducted
  <2> QED
    BY <2>1, <2>2
<1>2. Deductions(p) \in [Payments -> Int]
  BY DeductionsType DEF OrderInv
<1> QED
  BY <1>1, <1>2, SumZero, BoundAssumption

\* Every step keeps the ledger: a decrement takes from the stock what it adds to the
\* deductions, whichever payment makes it and whatever the others do.
LEMMA NextLedger ==
    ASSUME OrderInv, OrderInv', [Next]_vars, NEW p \in Products, Ledger(p)
    PROVE  Ledger(p)'
<1> USE DEF bounds, queues, requests
<1>0. /\ products \in [Products -> ProductRow]
      /\ payments \in [Payments -> PaymentRequest]
      /\ orders \in [Orders -> OrderRow]
  BY DEF OrderInv, TypeOK
<1>type. Deductions(p) \in [Payments -> Int] /\ Deductions(p)' \in [Payments -> Int]
  <2>1. Deductions(p) \in [Payments -> Nat]
    BY DeductionsType DEF OrderInv
  <2>2. Deductions(p)' \in [Payments -> Nat]
    <3>1. payments' \in [Payments -> PaymentRequest]
      BY DEF OrderInv, TypeOK
    <3>2. \A r \in Payments : Deducted(r, p)' \in Nat
      BY <3>1 DEF Deducted, PaymentRequest, Quantities
    <3> QED
      BY <3>2 DEF Deductions
  <2> QED
    BY <2>1, <2>2
<1>same. ASSUME \A r \in Payments : Deducted(r, p)' = Deducted(r, p)
         PROVE  Deductions(p)' = Deductions(p)
  BY <1>same DEF Deductions
<1>keep. ASSUME UNCHANGED payments, products'[p].stock = products[p].stock,
                products'[p].opening = products[p].opening,
                products'[p].restocked = products[p].restocked
         PROVE  Ledger(p)'
  <2>1. Deductions(p)' = Deductions(p)
    BY <1>keep, <1>same DEF Deducted
  <2> QED
    BY <1>keep, <2>1 DEF Ledger
<1>pays. ASSUME UNCHANGED products, \A r \in Payments : Deducted(r, p)' = Deducted(r, p)
         PROVE  Ledger(p)'
  BY <1>pays, <1>same DEF Ledger
<1>1. ASSUME NEW r \in Payments, NEW o \in Orders, NEW u \in Customers,
             PaymentReceived(r, o, u)
      PROVE  Ledger(p)'
  <2>1. ASSUME NEW s \in Payments PROVE Deducted(s, p)' = Deducted(s, p)
    <3>1. CASE s # r
      BY <1>0, <1>1, <3>1 DEF PaymentReceived, Deducted
    <3>2. CASE s = r
      <4>1. orders[o].qty[p] \in Nat
        BY <1>0 DEF OrderRow, Quantities
      <4>2. /\ payments[r].step = "idle" /\ payments'[r].lines = orders[o].qty
            /\ payments'[r].left = {q \in Products : orders[o].qty[q] > 0}
        BY <1>0, <1>1 DEF PaymentReceived
      <4>3. p \in payments'[r].left \/ payments'[r].lines[p] = 0
        BY <4>1, <4>2
      <4> QED
        BY <3>2, <4>2, <4>3 DEF Deducted
    <3> QED
      BY <3>1, <3>2
  <2> QED
    BY <1>1, <2>1, <1>pays DEF PaymentReceived
<1>2. ASSUME NEW r \in Payments, NEW q \in Products, DeductStock(r, q)
      PROVE  Ledger(p)'
  <2>0. /\ payments[r].step = "deduct" /\ payments'[r].step = "deduct"
        /\ payments'[r].lines = payments[r].lines
        /\ payments'[r].left = payments[r].left \ {q} /\ q \in payments[r].left
        /\ \A s \in Payments \ {r} : payments'[s] = payments[s]
    BY <1>0, <1>2 DEF DeductStock, PaymentRequest
  <2>1. CASE q # p
    <3>1. products'[p] = products[p]
      BY <1>0, <1>2, <2>1 DEF DeductStock
    <3>2. \A s \in Payments : Deducted(s, p)' = Deducted(s, p)
      BY <2>0, <2>1 DEF Deducted
    <3>3. Deductions(p)' = Deductions(p)
      BY <3>2, <1>same
    <3> QED
      BY <3>1, <3>3 DEF Ledger
  <2>2. CASE q = p
    <3>1. /\ products'[p].stock = products[p].stock - payments[r].lines[p]
          /\ products'[p].opening = products[p].opening
          /\ products'[p].restocked = products[p].restocked
      BY <1>0, <1>2, <2>2 DEF DeductStock, ProductRow
    <3>2. /\ \A s \in Payments \ {r} : Deductions(p)'[s] = Deductions(p)[s]
          /\ Deductions(p)'[r] = payments[r].lines[p] /\ Deductions(p)[r] = 0
      BY <2>0, <2>2 DEF Deductions, Deducted
    <3>3. SumFunction(Deductions(p)') = SumFunction(Deductions(p))
              + (Deductions(p)'[r] - Deductions(p)[r])
      <4> DEFINE d == Deductions(p)
                 e == Deductions(p)'
      <4>1. d \in [Payments -> Int] /\ e \in [Payments -> Int]
            /\ \A s \in Payments \ {r} : e[s] = d[s]
        BY <1>type, <3>2
      <4> HIDE DEF d, e
      <4>2. SumFunction(e) = SumFunction(d) + (e[r] - d[r])
        BY <4>1, SumChange, BoundAssumption
      <4> QED
        BY <4>2 DEF d, e
    <3>4. /\ products[p].stock \in Int /\ products[p].opening \in Int
          /\ payments[r].lines[p] \in Int
      BY <1>0 DEF ProductRow, PaymentRequest, Quantities
    <3>5. SumFunction(Deductions(p)) \in Nat
      BY DeductionsType, SumNat, BoundAssumption DEF OrderInv
    <3> QED
      BY <3>1, <3>2, <3>3, <3>4, <3>5 DEF Ledger
  <2> QED
    BY <2>1, <2>2
<1>3. ASSUME NEW r \in Payments, MarkPaid(r) PROVE Ledger(p)'
  <2>1. \A s \in Payments : Deducted(s, p)' = Deducted(s, p)
    BY <1>0, <1>3 DEF MarkPaid, Deducted, PaymentRequest
  <2> QED
    BY <1>3, <2>1, <1>pays DEF MarkPaid
<1>4. ASSUME NEW r \in Payments, AbortPayment(r) PROVE Ledger(p)'
  <2>1. \A s \in Payments : Deducted(s, p)' = Deducted(s, p)
    BY <1>0, <1>4 DEF AbortPayment, Deducted, PaymentRequest
  <2> QED
    BY <1>4, <2>1, <1>pays DEF AbortPayment
<1>5. ASSUME NEW q \in Products, NEW price \in Prices, NEW stock \in Stocks,
             CreateProduct(q, price, stock)
      PROVE  Ledger(p)'
  <2>1. CASE q # p
    BY <1>0, <1>5, <2>1, <1>keep DEF CreateProduct
  <2>2. CASE q = p
    <3>1. products'[p].stock = stock /\ products'[p].opening = stock /\ stock \in Nat
      BY <1>0, <1>5, <2>2, DtoAssumption DEF CreateProduct
    <3>2. SumFunction(Deductions(p)) = 0
      BY <1>5, <2>2, AbsentUndeducted DEF CreateProduct
    <3>3. Deductions(p)' = Deductions(p)
      BY <1>5, <1>same DEF CreateProduct, Deducted
    <3> QED
      BY <3>1, <3>2, <3>3 DEF Ledger
  <2> QED
    BY <2>1, <2>2
<1>6. ASSUME NEW q \in Products, NEW price \in Prices \cup {Null},
             NEW stock \in Stocks \cup {Null}, UpdateProduct(q, price, stock)
      PROVE  Ledger(p)'
  <2>1. CASE q # p
    BY <1>0, <1>6, <2>1, <1>keep DEF UpdateProduct
  <2>2. CASE q = p /\ stock = Null
    BY <1>0, <1>6, <2>2, <1>keep DEF UpdateProduct, ProductRow
  <2>3. CASE q = p /\ stock # Null
    BY <1>0, <1>6, <2>3 DEF UpdateProduct, ProductRow, Ledger
  <2> QED
    BY <2>1, <2>2, <2>3
<1>7. ASSUME NEW q \in Products, RemoveProduct(q) PROVE Ledger(p)'
  BY <1>0, <1>7, <1>keep DEF RemoveProduct, ProductRow
<1>8. ASSUME UNCHANGED <<products, payments>> PROVE Ledger(p)'
  BY <1>8, <1>keep
<1> QED
  BY <1>1, <1>2, <1>3, <1>4, <1>5, <1>6, <1>7, <1>8
  DEF Next, vars, CreateContinues, PaymentContinues, ProcessingContinues,
      CompletedContinues, CreateOrder, CheckOrder, CheckProduct, FindItem, WriteItem,
      ReadItems, WriteTotal, EnqueueOrderProcessing, AbortCreate, HandleOrderProcessing,
      HandleOrderCompleted, CompleteOrder, ProcessingMoves, CompletedMoves,
      ProcessingFails, CompletedFails, ConsumerCrash

\* For any number of payments at once, the stock of a product that no edit has
\* replaced is its opening stock less all that payments have taken.
THEOREM LedgerCorrect == Spec => []StockLedger
<1> DEFINE Inv == \A p \in Products : Ledger(p)
<1>1. Init => Inv
  <2> SUFFICES ASSUME Init, NEW p \in Products PROVE Ledger(p)
    OBVIOUS
  <2>1. products[p].stock = 0 /\ products[p].opening = 0
    BY DEF Init
  <2>2. Deductions(p) = [r \in Payments |-> 0]
    BY DEF Init, Deductions, Deducted
  <2>3. SumFunction(Deductions(p)) = 0
    BY <2>2, SumZero, BoundAssumption
  <2> QED
    BY <2>1, <2>3 DEF Ledger
<1>2. OrderInv /\ OrderInv' /\ Inv /\ [Next]_vars => Inv'
  BY NextLedger
<1>3. Inv => StockLedger
  BY DEF Ledger, Deductions, StockLedger
<1> HIDE DEF Inv
<1> QED
  BY <1>1, <1>2, <1>3, Invariance, PTL DEF Spec

-----------------------------------------------------------------------------
(* The only step that takes an order to waiting for payment, and the only   *)
(* one that assigns a paymentId, is the handler of its message.             *)

\* A step is handleOrderProcessing of order x, or it leaves the paymentId of x alone
\* and does not set x to waiting for payment.
LEMMA OnlyHandlerWrites ==
    ASSUME OrderInv, [Next]_vars, NEW x \in Orders
    PROVE  \/ HandleOrderProcessing(x)
           \/ /\ orders'[x].paymentId = orders[x].paymentId
              /\ orders'[x].status = "WAITING_FOR_PAYMENT" =>
                    orders[x].status = "WAITING_FOR_PAYMENT"
<1> DEFINE Kept == /\ orders'[x].paymentId = orders[x].paymentId
                   /\ orders'[x].status = "WAITING_FOR_PAYMENT" =>
                         orders[x].status = "WAITING_FOR_PAYMENT"
<1>1. orders \in [Orders -> OrderRow]
  BY DEF OrderInv, TypeOK
<1>2. CASE UNCHANGED orders
  BY <1>2
<1>3. ASSUME NEW o \in Orders, NEW u \in Customers, NEW body \in Bodies,
             CreateOrder(o, u, body)
      PROVE  Kept
  <2>1. orders[o].paymentId = 0
    BY <1>3 DEF CreateOrder, OrderInv, InvParts, MessageMatches
  <2> QED
    BY <1>1, <1>3, <2>1 DEF CreateOrder, NewOrder
<1>4. ASSUME NEW o \in Orders, WriteItem(o) PROVE Kept
  <2>1. CASE orders' = orders
    BY <2>1
  <2>2. CASE orders' # orders
    <3> DEFINE p == Current(o).product
               q == create[o].found + Current(o).qty
               n == IF create[o].found = 0 THEN create[o].price ELSE orders[o].price[p]
    <3>1. orders' = [orders EXCEPT ![o] = [@ EXCEPT !.qty[p] = q, !.price[p] = n]]
      BY <1>4, <2>2 DEF WriteItem
    <3> HIDE DEF p, q, n
    <3> QED
      BY <1>1, <3>1 DEF OrderRow
  <2> QED
    BY <2>1, <2>2
<1>5. ASSUME NEW r \in Payments, MarkPaid(r) PROVE Kept
  BY <1>1, <1>5 DEF MarkPaid, OrderRow
<1>6. ASSUME NEW c \in Completions, HandleOrderCompleted(c) PROVE Kept
  BY <1>1, <1>6 DEF HandleOrderCompleted, OrderRow
<1>7. ASSUME NEW o \in Orders, HandleOrderProcessing(o), o # x PROVE Kept
  BY <1>1, <1>7 DEF HandleOrderProcessing
<1> QED
  BY <1>2, <1>3, <1>4, <1>5, <1>6, <1>7
  DEF Next, vars, CreateContinues, PaymentContinues, ProcessingContinues,
      CompletedContinues, CheckOrder, CheckProduct, FindItem, ReadItems,
      WriteTotal, EnqueueOrderProcessing, AbortCreate, PaymentReceived,
      DeductStock, AbortPayment, CompleteOrder, ProcessingMoves, CompletedMoves,
      ProcessingFails, CompletedFails, ConsumerCrash, CreateProduct,
      UpdateProduct, RemoveProduct

\* Until something fails, no order goes from PAID back to waiting for payment.
THEOREM UnpayCorrect == Spec => NoUnpayWithoutFault
<1> DEFINE A == \A o \in Orders :
                    (orders[o].status = "PAID"
                       /\ orders'[o].status = "WAITING_FOR_PAYMENT") => faults > 0
<1>1. OrderInv /\ [Next]_vars => [A]_vars
  <2> SUFFICES ASSUME OrderInv, [Next]_vars, NEW o \in Orders,
                      orders[o].status = "PAID",
                      orders'[o].status = "WAITING_FOR_PAYMENT"
               PROVE  faults > 0
    OBVIOUS
  <2>1. HandleOrderProcessing(o)
    BY OnlyHandlerWrites
  <2>2. processing[o] = "delivered"
    BY <2>1 DEF HandleOrderProcessing, Processing!Handle, Processing!Move
  <2>3. orders[o].paymentId > 0
    BY DEF OrderInv, InvParts, MessageMatches, Payable
  <2> QED
    BY <2>2, <2>3 DEF OrderInv, InvParts, MessageMatches
<1> QED
  BY <1>1, Invariance, PTL DEF Spec, NoUnpayWithoutFault

-----------------------------------------------------------------------------
(* The queue and its consumer implement at-least-once execution.            *)

\* The abstract state seen through the mapping.
Phase == [o \in Orders |-> PhaseOf(processing[o])]
Runs == [o \in Orders |-> orders[o].paymentId]

\* A step that changes no phase and no paymentId is a stuttering step of the
\* abstract queue.
LEMMA PhaseStutters ==
    ASSUME TypeOK, TypeOK',
           \A o \in Orders : PhaseOf(processing'[o]) = PhaseOf(processing[o]),
           \A o \in Orders : orders'[o].paymentId = orders[o].paymentId
    PROVE  UNCHANGED Promise!vars
  BY DEF Promise!vars

\* Where one order's message moves, its phase is the only one that changes.
LEMMA PhaseMoves ==
    ASSUME TypeOK, NEW o \in Orders, NEW to,
           processing' = [processing EXCEPT ![o] = to]
    PROVE  Phase' = [Phase EXCEPT ![o] = PhaseOf(to)]
  BY DEF TypeOK, Processing!TypeOK, Phase

\* Every step of a request, the broker or a consumer is, through the mapping, a
\* step of at-least-once execution or a stuttering one.
LEMMA Refines ==
    ASSUME OrderInv, [Next]_vars
    PROVE  [Promise!Next]_(Promise!vars)
<1>1. TypeOK /\ TypeOK'
  BY NextType DEF OrderInv, InvParts
<1>2. processing \in [Orders -> Processing!Places] /\ orders \in [Orders -> OrderRow]
  BY <1>1 DEF TypeOK, Processing!TypeOK
<1>3. ASSUME NEW o \in Orders, EnqueueOrderProcessing(o) PROVE Promise!Next
  <2>1. processing[o] = "none" /\ processing' = [processing EXCEPT ![o] = "sent"]
        /\ UNCHANGED orders
    BY <1>3 DEF EnqueueOrderProcessing, Processing!Publish, Processing!Move
  <2>2. /\ Phase[o] = "absent" /\ Phase' = [Phase EXCEPT ![o] = "offered"]
        /\ UNCHANGED Runs
    <3>1. PhaseOf("none") = "absent" /\ PhaseOf("sent") = "offered"
      BY DEF PhaseOf
    <3>2. Phase' = [Phase EXCEPT ![o] = PhaseOf("sent")]
      BY <1>1, <2>1, PhaseMoves
    <3> QED
      BY <2>1, <3>1, <3>2 DEF Phase, Runs
  <2>3. Promise!Offer(o)
    BY <2>2 DEF Promise!Offer, Phase, Runs
  <2> QED
    BY <2>3 DEF Promise!Next
<1>4. ASSUME NEW o \in Orders, HandleOrderProcessing(o) PROVE Promise!Next
  <2>1. processing[o] = "delivered" /\ processing' = [processing EXCEPT ![o] = "handled"]
    BY <1>4 DEF HandleOrderProcessing, Processing!Handle, Processing!Move
  <2>2. Phase[o] = "offered" /\ Phase' = Phase
    BY <1>1, <2>1, PhaseMoves DEF Phase, PhaseOf
  <2>3. \A x \in Orders : orders'[x].paymentId =
            IF x = o THEN orders[o].paymentId + 1 ELSE orders[x].paymentId
    BY <1>2, <1>4 DEF HandleOrderProcessing, OrderRow
  <2>4. Runs' = [Runs EXCEPT ![o] = Runs[o] + 1]
    BY <2>3 DEF Runs
  <2>5. Promise!Run(o)
    BY <2>2, <2>4 DEF Promise!Run, Phase, Runs
  <2> QED
    BY <2>5 DEF Promise!Next
<1>5. ASSUME NEW o \in Orders, ProcessingMoves(o)
      PROVE  [Promise!Next]_(Promise!vars)
  <2>1. UNCHANGED orders
    BY <1>5 DEF ProcessingMoves
  <2>2. CASE Processing!Ack(o)
    <3>1. processing[o] = "handled" /\ processing' = [processing EXCEPT ![o] = "acked"]
      BY <2>2 DEF Processing!Ack, Processing!Move
    <3>2. Runs[o] > 0
      BY <3>1 DEF Runs, OrderInv, InvParts, MessageMatches
    <3>3. /\ Phase[o] = "offered" /\ Phase' = [Phase EXCEPT ![o] = "finished"]
          /\ UNCHANGED Runs
      BY <1>1, <2>1, <3>1, PhaseMoves DEF Phase, PhaseOf, Runs
    <3>4. Promise!Finish(o)
      BY <3>2, <3>3 DEF Promise!Finish, Phase, Runs
    <3> QED
      BY <3>4 DEF Promise!Next
  <2>3. CASE Processing!Store(o) \/ Processing!Deliver(o)
    <3>1. \A x \in Orders : PhaseOf(processing'[x]) = PhaseOf(processing[x])
      BY <1>2, <2>3 DEF Processing!Store, Processing!Deliver, Processing!Move, PhaseOf
    <3> QED
      BY <1>1, <2>1, <3>1, PhaseStutters
  <2> QED
    BY <1>5, <2>2, <2>3 DEF ProcessingMoves
<1>6. ASSUME NEW o \in Orders, ProcessingFails(o)
      PROVE  [Promise!Next]_(Promise!vars)
  <2>1. UNCHANGED orders
    BY <1>6 DEF ProcessingFails
  <2>2. CASE Processing!Lose(o)
    <3>1. processing[o] = "sent" /\ processing' = [processing EXCEPT ![o] = "lost"]
      BY <2>2 DEF Processing!Lose, Processing!Move
    <3>2. Runs[o] = 0
      BY <3>1 DEF Runs, OrderInv, InvParts, MessageMatches
    <3>3. /\ Phase[o] = "offered" /\ Phase' = [Phase EXCEPT ![o] = "dropped"]
          /\ UNCHANGED Runs
      BY <1>1, <2>1, <3>1, PhaseMoves DEF Phase, PhaseOf, Runs
    <3>4. Promise!Drop(o)
      BY <3>2, <3>3 DEF Promise!Drop, Phase, Runs
    <3> QED
      BY <3>4 DEF Promise!Next
  <2>3. CASE Processing!Nack(o)
    <3>1. \A x \in Orders : PhaseOf(processing'[x]) = PhaseOf(processing[x])
      BY <1>2, <2>3 DEF Processing!Nack, Processing!Move, PhaseOf
    <3> QED
      BY <1>1, <2>1, <3>1, PhaseStutters
  <2> QED
    BY <1>6, <2>2, <2>3 DEF ProcessingFails
<1>7. ASSUME ConsumerCrash PROVE UNCHANGED Promise!vars
  <2>1. \A x \in Orders : PhaseOf(processing'[x]) = PhaseOf(processing[x])
    BY <1>2, <1>7 DEF ConsumerCrash, Processing!PutBack, Processing!InProgress, PhaseOf
  <2> QED
    BY <1>1, <1>7, <2>1, PhaseStutters DEF ConsumerCrash
<1>8. ASSUME UNCHANGED processing,
             \A o \in Orders : ~HandleOrderProcessing(o)
      PROVE  UNCHANGED Promise!vars
  <2>1. \A o \in Orders : orders'[o].paymentId = orders[o].paymentId
    BY <1>8, OnlyHandlerWrites
  <2> QED
    BY <1>1, <1>8, <2>1, PhaseStutters
<1>9. CASE \E o \in Orders : HandleOrderProcessing(o)
  BY SMTT(30), <1>4, <1>9
<1>10. CASE \A o \in Orders : ~HandleOrderProcessing(o)
  BY <1>3, <1>5, <1>6, <1>7, <1>8, <1>10
  DEF Next, vars, queues, CreateContinues, PaymentContinues, ProcessingContinues,
      CompletedContinues, CreateOrder, CheckOrder, CheckProduct, FindItem,
      WriteItem, ReadItems, WriteTotal, AbortCreate, PaymentReceived, DeductStock,
      MarkPaid, AbortPayment, CompleteOrder, HandleOrderCompleted, CompletedMoves,
      CompletedFails, CreateProduct, UpdateProduct, RemoveProduct
<1> QED
  BY <1>9, <1>10

\* Through the mapping, every behaviour of the order lifecycle is one that
\* at-least-once execution allows: an order is dropped only before its handler ran,
\* acknowledged only after, and not handled again once acknowledged.
THEOREM ProcessingImplements == Spec => ProcessedAtLeastOnce
<1>1. Init => Promise!Init
  BY DEF Init, NewOrder, Processing!Init, PhaseOf, Promise!Init
<1>2. OrderInv /\ [Next]_vars => [Promise!Next]_(Promise!vars)
  BY Refines
<1> QED
  BY <1>1, <1>2, Invariance, PTL DEF Spec, ProcessedAtLeastOnce, Promise!Spec

=============================================================================
