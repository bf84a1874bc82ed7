-------------------------------- MODULE Sales --------------------------------
(***************************************************************************)
(* What sells, holds and takes back the stock of one location: POS         *)
(* checkout and suspended carts (pos.service.ts), orders, their status and *)
(* their cancellation (order.service.ts), customer returns                 *)
(* (return.service.ts).                                                    *)
(*                                                                         *)
(* A suspended cart reserves stock: InventoryItem.quantityAllocated. Every *)
(* sale first reads what is on hand and not allocated, and every change of *)
(* an order first reads the order; they write in a transaction later.      *)
(* Begin is the read with the checks on it, Commit the writes. suspendOrder*)
(* decides on nothing it reads, and resumeOrder locks the row it reads:    *)
(* they are one step each. Products are stock tracked; units of measure    *)
(* have a conversion factor.                                               *)
(***************************************************************************)
EXTENDS Integers, FiniteSetsExt

CONSTANTS
  Products,
  Orders,           \* order ids
  Busy,             \* bound: the orders that are sold, updated, cancelled and
                    \* returned; the other ids are only suspended and recalled
  Requests,         \* requests in flight at the same time
  Saleable,         \* quantities a line may ask for, 0 for no line
  Returnable,       \* quantities an entry of a return may name, 0 for none
  Factors,          \* conversion factors of the units of measure
  Assignable,       \* statuses clients ask for in createOrder and updateOrderById
  MaxOnHand         \* bound: no request is made that raises stock above it

Status == {"PENDING_PAYMENT", "PROCESSING", "SHIPPED", "COMPLETED", "CANCELLED",
           "RETURNED", "PARTIALLY_RETURNED", "SUSPENDED"}

\* Tables have finitely many rows.
ASSUME SalesAssumption ==
  /\ IsFiniteSet(Orders)
  /\ Busy \subseteq Orders
  /\ Saleable \subseteq Nat
  /\ Returnable \subseteq Nat
  /\ Factors \subseteq Nat \ {0}
  /\ Assignable \subseteq Status
  /\ MaxOnHand \in Nat

VARIABLES
  onHand, ledger,   \* stock at the location, as in StockLedger
  allocated,        \* InventoryItem.quantityAllocated
  stocked,          \* products that have an InventoryItem row
  order,            \* Order rows with their lines
  sold,             \* base units of an order's SALE movements
  reversed,         \* base units a cancellation of the order has put back
  returned,         \* quantity of the return items that name a line of the order
  request,          \* what each request in flight has read and decided
  stale,            \* history: orders written on a superseded read
  uncounted,        \* history: orders with a return its checks cannot count
  bypassed          \* history: products whose reservations suspendOrder and
                    \* resumeOrder did not both make, see Bypasses

vars == <<onHand, ledger, allocated, stocked, order, sold, reversed, returned,
          request, stale, uncounted, bypassed>>

Stock == INSTANCE StockLedger WITH Items <- Products

-----------------------------------------------------------------------------

Quantities == [Products -> Nat]

OrderRow == [status : Status, quantity : Quantities, factor : [Products -> Nat \ {0}]]

NoOrder == [status |-> "NONE"]
Recalled == [status |-> "DELETED"]

Row(status, quantity, factor) ==
  [status |-> status, quantity |-> quantity, factor |-> factor]

Idle == [kind |-> "idle"]
RequestState ==
  {Idle}
    \cup [kind : {"sell"}, status : Status, quantity : Quantities,
          factor : [Products -> Nat \ {0}], deducts : BOOLEAN,
          available : [Products -> Int]]
    \cup [kind : {"update"}, id : Orders, read : Status, next : Status]
    \cup [kind : {"cancel"}, id : Orders, read : Status]
    \cup [kind : {"return"}, id : Orders, read : Status, counted : Quantities,
          quantity : Quantities, restock : Quantities, linked : BOOLEAN,
          repeats : BOOLEAN]

TypeOK ==
  /\ onHand \in [Products -> Nat]
  /\ ledger \in [Products -> Int]
  /\ allocated \in [Products -> Int]
  /\ stocked \in SUBSET Products
  /\ order \in [Orders -> OrderRow \cup {NoOrder, Recalled}]
  /\ sold \in [Orders -> Quantities]
  /\ reversed \in [Orders -> Quantities]
  /\ returned \in [Orders -> Quantities]
  /\ request \in [Requests -> RequestState]
  /\ stale \in SUBSET Orders
  /\ uncounted \in SUBSET Orders
  /\ bypassed \in SUBSET Products

Nothing == [p \in Products |-> 0]

Init ==
  /\ Stock!Init
  /\ allocated = Nothing
  /\ stocked = {}
  /\ order = [o \in Orders |-> NoOrder]
  /\ sold = [o \in Orders |-> Nothing]
  /\ reversed = [o \in Orders |-> Nothing]
  /\ returned = [o \in Orders |-> Nothing]
  /\ request = [r \in Requests |-> Idle]
  /\ stale = {}
  /\ uncounted = {}
  /\ bypassed = {}

-----------------------------------------------------------------------------

BaseUnits(quantity, factor) == quantity * factor

InBaseUnits(quantity, factor) ==
  [p \in Products |-> BaseUnits(quantity[p], factor[p])]

Lines(row) == {p \in Products : row.quantity[p] > 0}

\* Stock moves by change; the first movement of a product creates its row.
\* Movements that put back more than MaxOnHand are out of bounds.
Moves(change) ==
  /\ \A p \in Products : change[p] > 0 => onHand[p] + change[p] <= MaxOnHand
  /\ Stock!Post(change)
  /\ stocked' = stocked \cup {p \in Products : change[p] # 0}

\* Goods arrive or are written off: receipts, transfers, adjustments.
Restock(p, change) ==
  /\ Moves([q \in Products |-> IF q = p THEN change ELSE 0])
  /\ UNCHANGED <<allocated, order, sold, reversed, returned, request, stale,
                 uncounted, bypassed>>

-----------------------------------------------------------------------------
(* Sales. *)

\* Mutant: what suspended carts have reserved counts as available.
AvailableToAll(p) == onHand[p]

Available(p) == onHand[p] - allocated[p]

\* The checks of a new order that asks for quantity in units of factor.
BeginSell(r, status, quantity, factor, deducts) ==
  LET base == InBaseUnits(quantity, factor)
      named == {p \in Products : quantity[p] > 0}
  IN  /\ request[r] = Idle
      /\ named # {}
      /\ \A p \in named : Available(p) >= base[p]
      /\ request' = [request EXCEPT ![r] =
           [kind |-> "sell", status |-> status, quantity |-> quantity,
            factor |-> factor, deducts |-> deducts,
            available |-> [p \in Products |-> onHand[p] - allocated[p]]]]
      /\ UNCHANGED <<onHand, ledger, allocated, stocked, order, sold, reversed,
                     returned, stale, uncounted, bypassed>>

\* processPosCheckout counts in base units and completes the order at once.
BeginCheckout(r, quantity) ==
  BeginSell(r, "COMPLETED", quantity, [p \in Products |-> 1], TRUE)

\* createOrder takes stock only for an order that starts in PROCESSING.
Deducts(status) == status = "PROCESSING"

BeginCreate(r, status, quantity, factor) ==
  BeginSell(r, status, quantity, factor, Deducts(status))

\* History only: an order becomes or stops being SUSPENDED without
\* suspendOrder or resumeOrder.
Bypasses(row, from, to) ==
  bypassed' = IF (from = "SUSPENDED") # (to = "SUSPENDED")
              THEN bypassed \cup Lines(row) ELSE bypassed

\* The order and its stock movements; short of stock, the request fails.
CommitSell(r, o) ==
  LET sale == request[r]
      row  == Row(sale.status, sale.quantity, sale.factor)
      base == IF sale.deducts THEN InBaseUnits(sale.quantity, sale.factor) ELSE Nothing
  IN  /\ sale.kind = "sell"
      /\ order[o] = NoOrder
      /\ Moves([p \in Products |-> -base[p]])
      /\ order' = [order EXCEPT ![o] = row]
      /\ sold' = [sold EXCEPT ![o] = base]
      /\ Bypasses(row, "NONE", sale.status)
      /\ request' = [request EXCEPT ![r] = Idle]
      /\ UNCHANGED <<allocated, reversed, returned, stale, uncounted>>

-----------------------------------------------------------------------------
(* Suspended carts. *)

\* updateMany reserves nothing for a product without a row, and nothing is
\* compared with what is available.
Suspend(o, quantity) ==
  LET row == Row("SUSPENDED", quantity, [p \in Products |-> 1])
  IN  /\ order[o] = NoOrder
      /\ Lines(row) # {}
      /\ order' = [order EXCEPT ![o] = row]
      /\ allocated' = [p \in Products |->
                         IF p \in stocked THEN allocated[p] + quantity[p] ELSE allocated[p]]
      /\ bypassed' = bypassed \cup (Lines(row) \ stocked)
      /\ UNCHANGED <<onHand, ledger, stocked, sold, reversed, returned, request,
                     stale, uncounted>>

\* Mutant: any order can be recalled.
RecallableAny(row) == row.status \in Status

Recallable(row) == row.status = "SUSPENDED"

\* A Return row refers to the order: a return always counts units or is uncounted.
HasReturn(o) == returned[o] # Nothing \/ o \in uncounted

\* The order is deleted, which the database refuses while a return refers to it;
\* without the row lock, or finding it taken, the request fails as well.
Resume(o) ==
  /\ Recallable(order[o])
  /\ ~ HasReturn(o)
  /\ allocated' = [p \in Products |->
                     IF p \in stocked THEN allocated[p] - order[o].quantity[p]
                     ELSE allocated[p]]
  /\ order' = [order EXCEPT ![o] = Recalled]
  /\ UNCHANGED <<onHand, ledger, stocked, sold, reversed, returned, request,
                 stale, uncounted, bypassed>>

-----------------------------------------------------------------------------
(* The status of an order, and its cancellation. *)

\* Mutant: a cancelled order can be reopened.
UpdatableCancelled(status) == status # "COMPLETED"

Updatable(status) == status \notin {"COMPLETED", "CANCELLED"}

BeginUpdate(r, o, next) ==
  /\ request[r] = Idle
  /\ order[o].status \in Status /\ Updatable(order[o].status)
  /\ request' = [request EXCEPT ![r] =
       [kind |-> "update", id |-> o, read |-> order[o].status, next |-> next]]
  /\ UNCHANGED <<onHand, ledger, allocated, stocked, order, sold, reversed,
                 returned, stale, uncounted, bypassed>>

\* History only: the order is no longer as the request read it.
NoteStale(o, superseded) ==
  stale' = IF superseded THEN stale \cup {o} ELSE stale

\* The order as an update of its status leaves it.
Becomes(o, next) ==
  /\ order[o].status \in Status
  /\ order' = [order EXCEPT ![o] = Row(next, @.quantity, @.factor)]
  /\ Bypasses(order[o], order[o].status, next)

\* The status is all that changes: no stock moves, nothing is released.
CommitUpdate(r) ==
  LET o == request[r].id
  IN  /\ request[r].kind = "update"
      /\ Becomes(o, request[r].next)
      /\ request' = [request EXCEPT ![r] = Idle]
      /\ NoteStale(o, order[o].status # request[r].read)
      /\ UNCHANGED <<onHand, ledger, allocated, stocked, sold, reversed, returned,
                     uncounted>>

\* Mutant: an order that has been completed can be cancelled.
CancellableCompleted(status) == status \notin {"SHIPPED", "CANCELLED", "RETURNED"}

Cancellable(status) == status \notin {"SHIPPED", "COMPLETED", "CANCELLED", "RETURNED"}

BeginCancel(r, o) ==
  /\ request[r] = Idle
  /\ order[o].status \in Status /\ Cancellable(order[o].status)
  /\ request' = [request EXCEPT ![r] =
       [kind |-> "cancel", id |-> o, read |-> order[o].status]]
  /\ UNCHANGED <<onHand, ledger, allocated, stocked, order, sold, reversed,
                 returned, stale, uncounted, bypassed>>

\* Every SALE movement of the order is reversed if the order was PROCESSING
\* when it was read. Bound: an order is reversed no more than twice.
CommitCancel(r) ==
  LET o    == request[r].id
      base == IF request[r].read = "PROCESSING" THEN sold[o] ELSE Nothing
  IN  /\ request[r].kind = "cancel"
      /\ \A p \in Products : reversed[o][p] <= sold[o][p]
      /\ Becomes(o, "CANCELLED")
      /\ Moves(base)
      /\ reversed' = [reversed EXCEPT ![o] = [p \in Products |-> @[p] + base[p]]]
      /\ request' = [request EXCEPT ![r] = Idle]
      /\ NoteStale(o, order[o].status # request[r].read)
      /\ UNCHANGED <<allocated, sold, returned, uncounted>>

-----------------------------------------------------------------------------
(* Returns. *)

\* Mutant: earlier returns are not taken off.
QuantityBought(o, p) == order[o].quantity[p]

MaxReturnable(o, p) == order[o].quantity[p] - returned[o][p]

Accepts(status) == status \notin {"CANCELLED", "PENDING_PAYMENT"}

\* A payload may name a product twice; each entry is compared on its own with
\* what is returnable. Entries that do not name their order line are returned
\* but never counted. Only sellable entries go back into stock, and the
\* quantity of the entry is what is posted, whatever the unit of its line.
BeginReturn(r, o, first, second, sellable, linked) ==
  LET quantity == [p \in Products |-> first[p] + second[p]]
      named    == {p \in Products : quantity[p] > 0}
  IN  /\ request[r] = Idle
      /\ order[o].status \in Status /\ Accepts(order[o].status)
      /\ named # {} /\ named \subseteq Lines(order[o])
      /\ \A p \in named : /\ first[p] <= MaxReturnable(o, p)
                          /\ second[p] <= MaxReturnable(o, p)
      /\ request' = [request EXCEPT ![r] =
           [kind |-> "return", id |-> o, read |-> order[o].status,
            counted |-> returned[o], quantity |-> quantity,
            restock |-> [p \in Products |-> IF p \in sellable THEN quantity[p] ELSE 0],
            linked |-> linked,
            repeats |-> \E p \in named : first[p] > 0 /\ second[p] > 0]]
      /\ UNCHANGED <<onHand, ledger, allocated, stocked, order, sold, reversed,
                     returned, stale, uncounted, bypassed>>

\* The order itself is not written.
CommitReturn(r) ==
  LET back == request[r]
      o    == back.id
  IN  /\ back.kind = "return"
      /\ order[o].status \in Status
      /\ Moves(back.restock)
      /\ returned' = [returned EXCEPT ![o] =
           [p \in Products |-> IF back.linked THEN @[p] + back.quantity[p] ELSE @[p]]]
      /\ request' = [request EXCEPT ![r] = Idle]
      /\ NoteStale(o, order[o].status # back.read \/ returned[o] # back.counted)
      /\ uncounted' = IF back.linked /\ ~ back.repeats THEN uncounted
                      ELSE uncounted \cup {o}
      /\ UNCHANGED <<allocated, order, sold, reversed, bypassed>>

\* The request fails before it has committed anything: it leaves no trace.
Abandon(r) ==
  /\ request[r] # Idle
  /\ request' = [request EXCEPT ![r] = Idle]
  /\ UNCHANGED <<onHand, ledger, allocated, stocked, order, sold, reversed,
                 returned, stale, uncounted, bypassed>>

-----------------------------------------------------------------------------

Next ==
  \/ \E p \in Products, change \in {-1, 1} : Restock(p, change)
  \/ \E r \in Requests, quantity \in [Products -> Saleable] : BeginCheckout(r, quantity)
  \/ \E r \in Requests, status \in Assignable, quantity \in [Products -> Saleable],
        factor \in [Products -> Factors] : BeginCreate(r, status, quantity, factor)
  \/ \E r \in Requests, o \in Busy : CommitSell(r, o)
  \/ \E o \in Orders, quantity \in [Products -> Saleable] : Suspend(o, quantity)
  \/ \E o \in Orders : Resume(o)
  \/ \E r \in Requests, o \in Busy, next \in Assignable : BeginUpdate(r, o, next)
  \/ \E r \in Requests, o \in Busy : BeginCancel(r, o)
  \/ \E r \in Requests, o \in Busy, first, second \in [Products -> Returnable],
        sellable \in SUBSET Products, linked \in BOOLEAN :
       BeginReturn(r, o, first, second, sellable, linked)
  \/ \E r \in Requests :
       CommitUpdate(r) \/ CommitCancel(r) \/ CommitReturn(r) \/ Abandon(r)

Spec == Init /\ [][Next]_vars

-----------------------------------------------------------------------------
(* Properties. *)

\* Sales, cancellations and returns keep the stock promise: two tills that sell
\* the last unit at once never take stock below zero, and the movements posted
\* are the changes made.
StockPromise == Stock!Spec

\* A sale never sells what a suspended cart has reserved, as long as nobody took
\* stock between its availability check and its commit: afterwards the
\* reservations of what it sold are still covered.
SalesLeaveReservations ==
  [][\A r \in Requests :
       /\ request[r].kind = "sell" /\ request[r].deducts
       /\ request'[r] = Idle /\ onHand' # onHand
       /\ \A p \in Products : onHand[p] - allocated[p] >= request[r].available[p]
       => \A p \in Products :
            request[r].quantity[p] > 0 => onHand'[p] >= allocated'[p]]_vars

\* Whatever interleaves, a product is allocated exactly what the suspended carts
\* hold of it: each cart reserves once and releases once, recalls included. It
\* takes that carts become and cease to be SUSPENDED through suspendOrder and
\* resumeOrder alone, and are of products that have a stock row.
ReservedWhileSuspended ==
  \A p \in Products \ bypassed :
    allocated[p] = MapThenSumSet(LAMBDA o : order[o].quantity[p],
                                 {o \in Orders : order[o].status = "SUSPENDED"})

\* As long as no request wrote an order on a superseded read, a cancellation
\* puts back all the order took or nothing, at most once, and no order whose stock
\* was put back is anything but CANCELLED.
CancelReversesOnce ==
  \A o \in Orders \ stale :
    /\ reversed[o] \in {Nothing, sold[o]}
    /\ reversed[o] # Nothing => order[o].status = "CANCELLED"

\* Under the same condition no line is returned beyond what was bought, unless a
\* payload named it twice or did not name it.
ReturnsWithinBought ==
  \A o \in Orders \ (stale \cup uncounted) : \A p \in Products :
    returned[o][p] > 0 => returned[o][p] <= order[o].quantity[p]

\* Under the same condition a COMPLETED order keeps its status for good, and a
\* CANCELLED one is neither reopened, nor restocked again, nor returned.
SettledIsFinal ==
  [][\A o \in Orders \ stale' :
       /\ order[o].status \in {"COMPLETED", "CANCELLED"} => order'[o] = order[o]
       /\ order[o].status = "CANCELLED" =>
            returned'[o] = returned[o] /\ reversed'[o] = reversed[o]]_vars
=============================================================================
