---------------------------- MODULE PurchaseOrders ----------------------------
(***************************************************************************)
(* Purchase orders and their receipt into stock, purchase-order.service.ts.*)
(*                                                                         *)
(* A status change reads the order, checks the transition, and updates the *)
(* row by its id alone. A receipt reads the order and its lines before its *)
(* transaction, validates the payload against them, then increments stock  *)
(* and lines, re-reads every line, decides the status, and commits. Other  *)
(* requests run between those steps. At the READ COMMITTED level a re-read *)
(* sees what is committed and what the transaction wrote itself; the rows  *)
(* a transaction wrote stay locked until it ends.                          *)
(***************************************************************************)
EXTENDS Integers, FiniteSetsExt

CONSTANTS
  Products, Locations,
  Orders,           \* purchase order ids
  Requests,         \* requests in flight at the same time
  Orderable,        \* quantities a line may order, 0 for no line
  Receipts,         \* quantities an entry of a receipt may name, 0 for none
  Factors,          \* conversion factors of the units of measure
  ShippingCosts

\* An order has finitely many lines, one per product.
ASSUME PurchaseAssumption ==
  /\ IsFiniteSet(Products)
  /\ Orderable \subseteq Nat
  /\ Receipts \subseteq Nat
  /\ Factors \subseteq Nat \ {0}

VARIABLES
  onHand, ledger,   \* stock, as in StockLedger
  order,            \* PurchaseOrder rows with their lines
  posted,           \* base units of an order's PURCHASE_RECEIPT movements
  request,          \* what each request in flight has read and decided
  stale,            \* history: orders written on a superseded read
  doubled           \* history: orders received by a payload naming a line twice

vars == <<onHand, ledger, order, posted, request, stale, doubled>>

Items == Products \X Locations
Stock == INSTANCE StockLedger

-----------------------------------------------------------------------------

Status == {"DRAFT", "PENDING_APPROVAL", "APPROVED", "SENT", "PARTIALLY_RECEIVED",
           "FULLY_RECEIVED", "CLOSED", "CANCELLED"}
Quantities == [Products -> Nat]

\* One line per product, and products that are stock tracked or not. The lines
\* never change; totalAmount moves with shippingCost in the same update.
OrderRow ==
  [status : Status, location : Locations, tracked : SUBSET Products,
   ordered : Quantities, factor : [Products -> Nat \ {0}],
   received : Quantities, shipping : ShippingCosts]

NoOrder == [status |-> "NONE"]

\* The row after an update of its status, its receipts or its shipping cost.
Updated(row, status, received, shipping) ==
  [status |-> status, location |-> row.location, tracked |-> row.tracked,
   ordered |-> row.ordered, factor |-> row.factor,
   received |-> received, shipping |-> shipping]

Idle == [kind |-> "idle"]
RequestState ==
  {Idle}
    \cup [kind : {"status"}, id : Orders, read : OrderRow, next : Status]
    \cup [kind : {"edit"}, id : Orders, read : OrderRow, shipping : ShippingCosts]
    \cup [kind : {"receive"}, id : Orders, read : OrderRow,
          delivered : Quantities, repeats : BOOLEAN]
    \cup [kind : {"written"}, id : Orders, read : OrderRow,
          delivered : Quantities, repeats : BOOLEAN, next : Status]

TypeOK ==
  /\ onHand \in [Items -> Nat]
  /\ ledger \in [Items -> Int]
  /\ order \in [Orders -> OrderRow \cup {NoOrder}]
  /\ posted \in [Orders -> Quantities]
  /\ request \in [Requests -> RequestState]
  /\ stale \in SUBSET Orders
  /\ doubled \in SUBSET Orders

Nothing == [p \in Products |-> 0]

Init ==
  /\ Stock!Init
  /\ order = [o \in Orders |-> NoOrder]
  /\ posted = [o \in Orders |-> Nothing]
  /\ request = [r \in Requests |-> Idle]
  /\ stale = {}
  /\ doubled = {}

-----------------------------------------------------------------------------
(* Orders and their status. *)

CreateOrder(o, location, tracked, ordered, factor, shipping) ==
  /\ order[o] = NoOrder
  /\ \E p \in Products : ordered[p] > 0
  /\ order' = [order EXCEPT ![o] =
       [status |-> "DRAFT", location |-> location, tracked |-> tracked,
        ordered |-> ordered, factor |-> factor,
        received |-> Nothing, shipping |-> shipping]]
  /\ UNCHANGED <<onHand, ledger, posted, request, stale, doubled>>

\* The transitions of submit, approve, send, cancel and close.
Transitions ==
  {<<"DRAFT", "PENDING_APPROVAL">>, <<"APPROVED", "SENT">>}
    \cup {"DRAFT", "PENDING_APPROVAL"} \X {"APPROVED"}
    \cup {"DRAFT", "PENDING_APPROVAL", "APPROVED", "SENT", "PARTIALLY_RECEIVED"}
           \X {"CANCELLED"}
    \cup {"SENT", "PARTIALLY_RECEIVED"} \X {"CLOSED"}

BeginStatus(r, o, next) ==
  /\ request[r] = Idle
  /\ <<order[o].status, next>> \in Transitions
  /\ request' = [request EXCEPT ![r] =
       [kind |-> "status", id |-> o, read |-> order[o], next |-> next]]
  /\ UNCHANGED <<onHand, ledger, order, posted, stale, doubled>>

\* History only: the order has left the status the request decided on.
NoteStale(o, superseded) ==
  stale' = IF superseded THEN stale \cup {o} ELSE stale

CommitStatus(r) ==
  LET o == request[r].id
  IN  /\ request[r].kind = "status"
      /\ order' = [order EXCEPT
           ![o] = Updated(@, request[r].next, @.received, @.shipping)]
      /\ request' = [request EXCEPT ![r] = Idle]
      /\ NoteStale(o, order[o].status # request[r].read.status)
      /\ UNCHANGED <<onHand, ledger, posted, doubled>>

\* updatePurchaseOrder: the shipping cost, and with it the total, of a draft.
\* The fields it accepts in any status take no part in the model.
Editable(row) == row.status = "DRAFT"

BeginEdit(r, o, shipping) ==
  /\ request[r] = Idle
  /\ Editable(order[o])
  /\ shipping # order[o].shipping
  /\ request' = [request EXCEPT ![r] =
       [kind |-> "edit", id |-> o, read |-> order[o], shipping |-> shipping]]
  /\ UNCHANGED <<onHand, ledger, order, posted, stale, doubled>>

CommitEdit(r) ==
  LET o == request[r].id
  IN  /\ request[r].kind = "edit"
      /\ order' = [order EXCEPT
           ![o] = Updated(@, @.status, @.received, request[r].shipping)]
      /\ request' = [request EXCEPT ![r] = Idle]
      /\ NoteStale(o, order[o].status # request[r].read.status)
      /\ UNCHANGED <<onHand, ledger, posted, doubled>>

-----------------------------------------------------------------------------
(* Receiving. *)

Receivable(row) == row.status \in {"SENT", "PARTIALLY_RECEIVED"}

\* Mutant: what has already been received is forgotten.
OrderedQuantity(row, p) == row.ordered[p]

MaxReceivable(row, p) == row.ordered[p] - row.received[p]

\* A payload may name a line more than once; twice stands for that. Each entry
\* is compared on its own with what the order read has outstanding.
BeginReceive(r, o, first, second) ==
  LET named == {p \in order[o].tracked : first[p] + second[p] > 0}
  IN  /\ request[r] = Idle
      /\ Receivable(order[o])
      /\ \A p \in named : /\ first[p] <= MaxReceivable(order[o], p)
                          /\ second[p] <= MaxReceivable(order[o], p)
      /\ named # {}
      /\ request' = [request EXCEPT ![r] =
           [kind |-> "receive", id |-> o, read |-> order[o],
            delivered |-> [p \in Products |->
                             IF p \in named THEN first[p] + second[p] ELSE 0],
            repeats |-> \E p \in named : first[p] > 0 /\ second[p] > 0]]
      /\ UNCHANGED <<onHand, ledger, order, posted, stale, doubled>>

\* The stock rows, and with them the lines, a request has written and locked.
Locked(r) ==
  IF request[r].kind = "written"
  THEN {i \in Items : i[2] = request[r].read.location /\ request[r].delivered[i[1]] > 0}
  ELSE {}

Total(quantity) == MapThenSumSet(LAMBDA p : quantity[p], Products)

\* Mutant: any receipt beyond half of the order completes it.
GenerousStatusAfter(read, received) ==
  IF Total(received) = 0 THEN read.status
  ELSE IF 2 * Total(received) >= Total(read.ordered) THEN "FULLY_RECEIVED"
  ELSE "PARTIALLY_RECEIVED"

\* The totals are over all lines together.
StatusAfter(read, received) ==
  IF Total(received) = 0 THEN read.status
  ELSE IF Total(received) >= Total(read.ordered) THEN "FULLY_RECEIVED"
  ELSE "PARTIALLY_RECEIVED"

ReceivedAfter(o, delivered) ==
  [p \in Products |-> order[o].received[p] + delivered[p]]

\* The transaction up to the re-read of the lines.
WriteReceipt(r) ==
  LET o         == request[r].id
      read      == request[r].read
      delivered == request[r].delivered
  IN  /\ request[r].kind = "receive"
      /\ \A q \in Requests : \A i \in Locked(q) :
           ~ (i[2] = read.location /\ delivered[i[1]] > 0)
      /\ request' = [request EXCEPT ![r] =
           [kind |-> "written", id |-> o, read |-> read,
            delivered |-> delivered, repeats |-> request[r].repeats,
            next |-> StatusAfter(read, ReceivedAfter(o, delivered))]]
      /\ UNCHANGED <<onHand, ledger, order, posted, stale, doubled>>

BaseUnits(quantity, factor) == quantity * factor

\* Mutant: line quantities are posted without their conversion factor.
RawUnits(row, quantity) == quantity

InBaseUnits(row, quantity) ==
  [p \in Products |-> BaseUnits(quantity[p], row.factor[p])]

\* The movement of quantity[p] of every product p at one location.
At(location, quantity) ==
  [i \in Items |-> IF i[2] = location THEN quantity[i[1]] ELSE 0]

\* The status is written only when it is not the one read before.
CommitReceipt(r) ==
  LET o         == request[r].id
      read      == request[r].read
      delivered == request[r].delivered
      base      == InBaseUnits(read, delivered)
      next      == request[r].next
  IN  /\ request[r].kind = "written"
      /\ Stock!Post(At(read.location, base))
      /\ order' = [order EXCEPT
           ![o] = Updated(@, IF next # read.status THEN next ELSE @.status,
                          ReceivedAfter(o, delivered), @.shipping)]
      /\ posted' = [posted EXCEPT ![o] = [p \in Products |-> @[p] + base[p]]]
      /\ request' = [request EXCEPT ![r] = Idle]
      /\ NoteStale(o, order[o] # read)
      /\ doubled' = IF request[r].repeats THEN doubled \cup {o} ELSE doubled

\* The request fails before it has committed anything: it leaves no trace.
Abandon(r) ==
  /\ request[r] # Idle
  /\ request' = [request EXCEPT ![r] = Idle]
  /\ UNCHANGED <<onHand, ledger, order, posted, stale, doubled>>

-----------------------------------------------------------------------------

Next ==
  \/ \E o \in Orders, location \in Locations, tracked \in SUBSET Products,
        ordered \in [Products -> Orderable], factor \in [Products -> Factors],
        shipping \in ShippingCosts :
       CreateOrder(o, location, tracked, ordered, factor, shipping)
  \/ \E r \in Requests, o \in Orders, next \in Status : BeginStatus(r, o, next)
  \/ \E r \in Requests, o \in Orders, shipping \in ShippingCosts : BeginEdit(r, o, shipping)
  \/ \E r \in Requests, o \in Orders, first, second \in [Products -> Receipts] :
       BeginReceive(r, o, first, second)
  \/ \E r \in Requests :
       CommitStatus(r) \/ CommitEdit(r) \/ WriteReceipt(r) \/ CommitReceipt(r) \/ Abandon(r)

Spec == Init /\ [][Next]_vars

-----------------------------------------------------------------------------
(* Properties. *)

\* Receipts keep the stock promise: no position goes below zero and the
\* movements posted are the changes made.
StockPromise == Stock!Spec

\* Whatever interleaves, the lines of an order and the movements that carry its
\* id agree: what was received is what was posted, in base units, and lines of
\* products that are not stock tracked never enter stock.
ReceiptsMatchMovements ==
  \A o \in Orders : order[o] # NoOrder =>
    \A p \in Products :
      /\ posted[o][p] = BaseUnits(order[o].received[p], order[o].factor[p])
      /\ p \notin order[o].tracked => posted[o][p] = 0

Fresh == Orders \ stale

\* As long as no request wrote an order on a superseded read, nothing arrives
\* for an order that was not approved and sent; and unless a payload named a
\* line twice, no line receives more than it ordered.
FreshReceiptsAreOwed ==
  \A o \in Fresh : order[o] # NoOrder =>
    /\ order[o].status \in {"DRAFT", "PENDING_APPROVAL", "APPROVED"} =>
         order[o].received = Nothing
    /\ o \notin doubled =>
         \A p \in Products : order[o].received[p] <= order[o].ordered[p]

\* Under the same conditions the receipt status of an order tells what arrived:
\* SENT nothing, PARTIALLY_RECEIVED some but not all, FULLY_RECEIVED every line,
\* although receivePurchaseOrderItems compares only totals over the lines.
StatusMatchesReceipts ==
  \A o \in Fresh \ doubled :
    /\ order[o].status = "SENT" => order[o].received = Nothing
    /\ order[o].status = "PARTIALLY_RECEIVED" =>
         order[o].received \notin {Nothing, order[o].ordered}
    /\ order[o].status = "FULLY_RECEIVED" => order[o].received = order[o].ordered

\* A closed, cancelled or fully received order is never written again by a
\* request that read it in its latest version.
SettledIsFinal ==
  [][\A o \in Orders \ stale' :
       order[o].status \in {"CLOSED", "CANCELLED", "FULLY_RECEIVED"} =>
         order'[o] = order[o]]_vars

\* Nor does the cost of an order change once it has been submitted or approved.
ApprovedCostIsFixed ==
  [][\A o \in Orders \ stale' :
       order[o].status \notin {"NONE", "DRAFT"} =>
         order'[o].shipping = order[o].shipping]_vars
=============================================================================
