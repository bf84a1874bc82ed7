------------------------- MODULE PurchaseOrdersProofs -------------------------
(***************************************************************************)
(* Theorems about PurchaseOrders, for every set of products, locations,    *)
(* orders and concurrent requests, and any quantities and unit factors.    *)
(***************************************************************************)
EXTENDS PurchaseOrders, TLAPS

StockFacts == INSTANCE StockLedgerProofs

\* Two versions of an order with the same destination, lines and units.
SameLines(row, read) ==
  /\ row.location = read.location
  /\ row.tracked = read.tracked
  /\ row.ordered = read.ordered
  /\ row.factor = read.factor

LEMMA BaseUnitsType ==
  ASSUME NEW q \in Nat, NEW f \in Nat
  PROVE  BaseUnits(q, f) \in Nat
BY DEF BaseUnits

LEMMA BaseUnitsSum ==
  ASSUME NEW q \in Nat, NEW d \in Nat, NEW f \in Nat
  PROVE  BaseUnits(q + d, f) = BaseUnits(q, f) + BaseUnits(d, f)
BY DEF BaseUnits

LEMMA BaseUnitsOfNothing ==
  ASSUME NEW f \in Nat
  PROVE  BaseUnits(0, f) = 0
BY DEF BaseUnits

LEMMA InBaseUnitsType ==
  ASSUME NEW row \in OrderRow, NEW q \in Quantities
  PROVE  /\ InBaseUnits(row, q) \in Quantities
         /\ \A p \in Products : InBaseUnits(row, q)[p] = BaseUnits(q[p], row.factor[p])
<1>1. \A p \in Products : q[p] \in Nat /\ row.factor[p] \in Nat
  BY DEF OrderRow, Quantities
<1>2. \A p \in Products : BaseUnits(q[p], row.factor[p]) \in Nat
  BY <1>1, BaseUnitsType
<1>. QED
  BY <1>2 DEF InBaseUnits, Quantities

LEMMA AtType ==
  ASSUME NEW l \in Locations, NEW quantity \in Quantities
  PROVE  At(l, quantity) \in [Items -> Int]
BY DEF At, Items, Quantities

LEMMA NothingType == Nothing \in Quantities
BY DEF Nothing, Quantities

\* A row that exists is not the placeholder for one that does not.
LEMMA NoOrderIsNoRow == NoOrder \notin OrderRow
<1>1. \A row \in OrderRow : row.status \in Status
  BY DEF OrderRow
<1>2. NoOrder.status \notin Status
  BY DEF NoOrder, Status
<1>. QED
  BY <1>1, <1>2

LEMMA UpdatedType ==
  ASSUME NEW row \in OrderRow, NEW status \in Status,
         NEW received \in Quantities, NEW shipping \in ShippingCosts
  PROVE  /\ Updated(row, status, received, shipping) \in OrderRow
         /\ Updated(row, status, received, shipping).status = status
         /\ Updated(row, status, received, shipping).received = received
         /\ Updated(row, status, received, shipping).shipping = shipping
         /\ SameLines(Updated(row, status, received, shipping), row)
BY DEF Updated, OrderRow, SameLines

-----------------------------------------------------------------------------
(* The inductive invariant. A request in flight decided on a version of    *)
(* its order that had passed the checks; destination, lines and units are  *)
(* still those of the order, although its status and receipts may have     *)
(* moved on.                                                               *)

DecidedOn(o, read) == order[o] \in OrderRow /\ SameLines(order[o], read)

Deliverable(delivered, repeats, read) ==
  \A p \in Products :
    /\ p \notin read.tracked => delivered[p] = 0
    /\ ~ repeats /\ delivered[p] > 0 => delivered[p] <= MaxReceivable(read, p)

StatusChecked(state) ==
  DecidedOn(state.id, state.read) /\ <<state.read.status, state.next>> \in Transitions

EditChecked(state) ==
  DecidedOn(state.id, state.read) /\ Editable(state.read)

ReceiptChecked(state) ==
  /\ DecidedOn(state.id, state.read)
  /\ Receivable(state.read)
  /\ Deliverable(state.delivered, state.repeats, state.read)

RequestsChecked ==
  \A r \in Requests :
    /\ request[r].kind = "status" => StatusChecked(request[r])
    /\ request[r].kind = "edit" => EditChecked(request[r])
    /\ request[r].kind \in {"receive", "written"} => ReceiptChecked(request[r])
    /\ request[r].kind = "written" =>
         request[r].next \in {request[r].read.status, "PARTIALLY_RECEIVED", "FULLY_RECEIVED"}

UncreatedMeansUnposted ==
  \A o \in Orders : order[o] = NoOrder => posted[o] = Nothing

IInv ==
  /\ TypeOK
  /\ RequestsChecked
  /\ UncreatedMeansUnposted
  /\ ReceiptsMatchMovements
  /\ FreshReceiptsAreOwed

\* The parts of IInv that do not depend on the requests in flight.
OrdersInv == UncreatedMeansUnposted /\ ReceiptsMatchMovements /\ FreshReceiptsAreOwed

\* What is known of a request in flight, by its kind.
LEMMA RequestFacts ==
  ASSUME TypeOK, NEW r \in Requests, request[r] # Idle
  PROVE  /\ request[r].id \in Orders
         /\ request[r].read \in OrderRow
         /\ request[r].kind \in {"status", "edit", "receive", "written"}
         /\ request[r].kind \in {"status", "written"} => request[r].next \in Status
         /\ request[r].kind = "edit" => request[r].shipping \in ShippingCosts
         /\ request[r].kind \in {"receive", "written"} =>
              request[r].delivered \in Quantities /\ request[r].repeats \in BOOLEAN
<1>1. request[r] \in RequestState \ {Idle}
  BY DEF TypeOK
<1>. QED
  BY <1>1 DEF RequestState

\* A request that only begins, ends or gives up leaves the orders alone; the
\* others keep what they were known to have checked.
LEMMA RequestStep ==
  ASSUME IInv, NEW r \in Requests, NEW state \in RequestState,
         request' = [request EXCEPT ![r] = state],
         UNCHANGED <<onHand, ledger, order, posted, stale, doubled>>,
         state.kind = "status" => StatusChecked(state),
         state.kind = "edit" => EditChecked(state),
         state.kind \in {"receive", "written"} => ReceiptChecked(state),
         state.kind = "written" =>
           state.next \in {state.read.status, "PARTIALLY_RECEIVED", "FULLY_RECEIVED"}
  PROVE  IInv'
<1>1. TypeOK'
  BY DEF IInv, TypeOK
<1>2. RequestsChecked'
  <2>1. \A q \in Requests : request'[q] = IF q = r THEN state ELSE request[q]
    BY DEF IInv, TypeOK
  <2>2. order' = order
    OBVIOUS
  <2>. QED
    BY <2>1, <2>2
       DEF IInv, RequestsChecked, StatusChecked, EditChecked, ReceiptChecked, DecidedOn
<1>3. OrdersInv'
  BY DEF IInv, OrdersInv, UncreatedMeansUnposted, ReceiptsMatchMovements,
         FreshReceiptsAreOwed, Fresh
<1>. QED
  BY <1>1, <1>2, <1>3 DEF IInv, OrdersInv

\* After a commit of r on o the requests in flight are still checked, whatever
\* the order became, as long as its lines are the same.
LEMMA CommitKeepsRequests ==
  ASSUME IInv, NEW r \in Requests, NEW o \in Orders, NEW row \in OrderRow,
         order[o] \in OrderRow, SameLines(row, order[o]),
         order' = [order EXCEPT ![o] = row],
         request' = [request EXCEPT ![r] = Idle]
  PROVE  RequestsChecked'
<1>1. \A u \in Orders : \A read :
        order[u] \in OrderRow /\ SameLines(order[u], read) =>
          order'[u] \in OrderRow /\ SameLines(order'[u], read)
  BY DEF IInv, TypeOK, SameLines
<1>2. \A q \in Requests : q # r => request'[q] = request[q]
  BY DEF IInv, TypeOK
<1>3. request'[r].kind = "idle"
  BY DEF IInv, TypeOK, Idle
<1>4. ASSUME NEW q \in Requests, request[q].kind # "idle"
      PROVE  request[q].id \in Orders
  BY <1>4, RequestFacts DEF IInv, Idle
<1>. QED
  BY <1>1, <1>2, <1>3, <1>4
     DEF IInv, RequestsChecked, StatusChecked, EditChecked, ReceiptChecked, DecidedOn

-----------------------------------------------------------------------------
(* Stock. *)

LEMMA PostKeepsTypes ==
  ASSUME TypeOK, NEW change \in [Items -> Int], Stock!Post(change)
  PROVE  onHand' \in [Items -> Nat] /\ ledger' \in [Items -> Int] /\ Stock!Commit
BY DEF TypeOK, Stock!Post, Stock!Commit, Stock!Allowed, Stock!OnHandAfter, Stock!LedgerAfter

LEMMA ReceiptPosts ==
  ASSUME IInv, NEW r \in Requests, CommitReceipt(r)
  PROVE  onHand' \in [Items -> Nat] /\ ledger' \in [Items -> Int] /\ Stock!Commit
<1>. DEFINE base == InBaseUnits(request[r].read, request[r].delivered)
<1>1. request[r].read \in OrderRow /\ request[r].delivered \in Quantities
  BY RequestFacts DEF IInv, CommitReceipt, Idle
<1>2. base \in Quantities /\ request[r].read.location \in Locations
  BY <1>1, InBaseUnitsType DEF OrderRow
<1>3. At(request[r].read.location, base) \in [Items -> Int]
  BY <1>2, AtType
<1>. QED
  BY <1>3, PostKeepsTypes DEF IInv, CommitReceipt

-----------------------------------------------------------------------------
(* Each action keeps the invariant. *)

THEOREM InitIInv == Init => IInv
<1>. SUFFICES ASSUME Init PROVE IInv
  OBVIOUS
<1>1. TypeOK
  BY NothingType DEF Init, Stock!Init, TypeOK, RequestState
<1>2. RequestsChecked
  BY DEF Init, RequestsChecked, Idle
<1>3. OrdersInv
  BY DEF Init, OrdersInv, UncreatedMeansUnposted, ReceiptsMatchMovements,
            FreshReceiptsAreOwed, Fresh
<1>. QED
  BY <1>1, <1>2, <1>3 DEF IInv, OrdersInv

LEMMA CreateOrderKeepsIInv ==
  ASSUME IInv, NEW o \in Orders, NEW location \in Locations, NEW tracked \in SUBSET Products,
         NEW ordered \in [Products -> Orderable], NEW factor \in [Products -> Factors],
         NEW shipping \in ShippingCosts,
         CreateOrder(o, location, tracked, ordered, factor, shipping)
  PROVE  IInv'
<1>. DEFINE row == order'[o]
<1>1. /\ row = [status |-> "DRAFT", location |-> location, tracked |-> tracked,
                ordered |-> ordered, factor |-> factor,
                received |-> Nothing, shipping |-> shipping]
      /\ \A u \in Orders \ {o} : order'[u] = order[u]
      /\ order[o] = NoOrder
  BY DEF IInv, TypeOK, CreateOrder
<1>2. ordered \in Quantities /\ factor \in [Products -> Nat \ {0}]
  BY PurchaseAssumption DEF Quantities
<1>3. row \in OrderRow
  BY <1>1, <1>2, NothingType DEF OrderRow, Status
<1>4. TypeOK'
  BY <1>3 DEF IInv, TypeOK, CreateOrder
<1>5. RequestsChecked'
  <2>1. \A u \in Orders : order[u] \in OrderRow => order'[u] = order[u]
    BY <1>1, NoOrderIsNoRow
  <2>2. \A q \in Requests : request[q].kind # "idle" => request[q].id \in Orders
    BY RequestFacts DEF IInv, Idle
  <2>3. request' = request
    BY DEF CreateOrder
  <2>. QED
    BY <2>1, <2>2, <2>3
       DEF IInv, RequestsChecked, StatusChecked, EditChecked, ReceiptChecked, DecidedOn
<1>6. UNCHANGED <<posted, stale, doubled>> /\ posted[o] = Nothing
  BY <1>1 DEF CreateOrder, IInv, UncreatedMeansUnposted
<1>7. \A p \in Products : BaseUnits(row.received[p], row.factor[p]) = 0
                          /\ row.received[p] <= row.ordered[p]
  <2>1. \A p \in Products : row.received[p] = 0 /\ row.factor[p] \in Nat /\ row.ordered[p] \in Nat
    BY <1>1, <1>2 DEF Nothing, Quantities
  <2>. QED
    BY <2>1, BaseUnitsOfNothing
<1>. HIDE DEF row
<1>8. UncreatedMeansUnposted'
  BY <1>1, <1>3, <1>6, NoOrderIsNoRow DEF IInv, UncreatedMeansUnposted
<1>9. ReceiptsMatchMovements'
  BY <1>1, <1>6, <1>7 DEF IInv, ReceiptsMatchMovements, Nothing, row
<1>10. FreshReceiptsAreOwed'
  BY <1>1, <1>6, <1>7 DEF IInv, FreshReceiptsAreOwed, Fresh, row
<1>. QED
  BY <1>4, <1>5, <1>8, <1>9, <1>10 DEF IInv

LEMMA BeginStatusKeepsIInv ==
  ASSUME IInv, NEW r \in Requests, NEW o \in Orders, NEW next \in Status,
         BeginStatus(r, o, next)
  PROVE  IInv'
<1>. DEFINE state == [kind |-> "status", id |-> o, read |-> order[o], next |-> next]
<1>1. order[o].status # "NONE"
  BY DEF BeginStatus, Transitions
<1>2. order[o] \in OrderRow
  BY <1>1 DEF IInv, TypeOK, NoOrder
<1>3. state \in RequestState
  BY <1>2 DEF RequestState
<1>4. StatusChecked(state)
  BY <1>2 DEF BeginStatus, StatusChecked, DecidedOn, SameLines
<1>5. request' = [request EXCEPT ![r] = state]
  BY DEF BeginStatus
<1>6. state.kind = "status"
  OBVIOUS
<1>. HIDE DEF state
<1>. QED
  BY <1>3, <1>4, <1>5, <1>6, RequestStep DEF BeginStatus

LEMMA BeginEditKeepsIInv ==
  ASSUME IInv, NEW r \in Requests, NEW o \in Orders, NEW shipping \in ShippingCosts,
         BeginEdit(r, o, shipping)
  PROVE  IInv'
<1>. DEFINE state == [kind |-> "edit", id |-> o, read |-> order[o], shipping |-> shipping]
<1>1. order[o] \in OrderRow
  BY DEF BeginEdit, Editable, IInv, TypeOK, NoOrder
<1>2. state \in RequestState
  BY <1>1 DEF RequestState
<1>3. EditChecked(state)
  BY <1>1 DEF BeginEdit, EditChecked, DecidedOn, SameLines
<1>4. request' = [request EXCEPT ![r] = state]
  BY DEF BeginEdit
<1>5. state.kind = "edit"
  OBVIOUS
<1>. HIDE DEF state
<1>. QED
  BY <1>2, <1>3, <1>4, <1>5, RequestStep DEF BeginEdit

LEMMA BeginReceiveKeepsIInv ==
  ASSUME IInv, NEW r \in Requests, NEW o \in Orders,
         NEW first \in [Products -> Receipts], NEW second \in [Products -> Receipts],
         BeginReceive(r, o, first, second)
  PROVE  IInv'
<1>. DEFINE named     == {p \in order[o].tracked : first[p] + second[p] > 0}
            delivered == [p \in Products |-> IF p \in named THEN first[p] + second[p] ELSE 0]
            repeats   == \E p \in named : first[p] > 0 /\ second[p] > 0
            state     == [kind |-> "receive", id |-> o, read |-> order[o],
                          delivered |-> delivered, repeats |-> repeats]
<1>1. order[o] \in OrderRow
  BY DEF BeginReceive, Receivable, IInv, TypeOK, NoOrder
<1>2. \A p \in Products : first[p] \in Nat /\ second[p] \in Nat
  BY PurchaseAssumption
<1>3. delivered \in Quantities
  BY <1>2 DEF Quantities
<1>4. state \in RequestState
  <2>1. repeats \in BOOLEAN
    OBVIOUS
  <2>. HIDE DEF delivered, repeats
  <2>. QED
    BY <1>1, <1>3, <2>1 DEF RequestState
<1>5. Deliverable(delivered, repeats, order[o])
  <2>1. ASSUME NEW p \in Products, p \notin order[o].tracked
        PROVE  delivered[p] = 0
    BY <2>1
  <2>2. ASSUME NEW p \in Products, ~ repeats, delivered[p] > 0
        PROVE  delivered[p] <= MaxReceivable(order[o], p)
    <3>1. p \in named
      BY <2>2
    <3>2. first[p] <= MaxReceivable(order[o], p) /\ second[p] <= MaxReceivable(order[o], p)
      BY <3>1 DEF BeginReceive
    <3>3. ~ (first[p] > 0 /\ second[p] > 0)
      BY <2>2, <3>1
    <3>4. delivered[p] = first[p] + second[p]
      BY <3>1
    <3>. QED
      BY <1>2, <3>2, <3>3, <3>4
  <2>. HIDE DEF delivered, repeats
  <2>. QED
    BY <2>1, <2>2 DEF Deliverable
<1>6. ReceiptChecked(state)
  <2>. HIDE DEF delivered, repeats
  <2>. QED
    BY <1>1, <1>5 DEF BeginReceive, ReceiptChecked, DecidedOn, SameLines
<1>7. request' = [request EXCEPT ![r] = state]
  BY DEF BeginReceive
<1>8. state.kind = "receive"
  OBVIOUS
<1>. HIDE DEF state
<1>. QED
  BY <1>4, <1>6, <1>7, <1>8, RequestStep DEF BeginReceive

LEMMA StatusAfterRange ==
  ASSUME NEW read, NEW received
  PROVE  StatusAfter(read, received) \in {read.status, "PARTIALLY_RECEIVED", "FULLY_RECEIVED"}
BY DEF StatusAfter

LEMMA WriteReceiptKeepsIInv ==
  ASSUME IInv, NEW r \in Requests, WriteReceipt(r)
  PROVE  IInv'
<1>. DEFINE old   == request[r]
            next  == StatusAfter(old.read, ReceivedAfter(old.id, old.delivered))
            state == [kind |-> "written", id |-> old.id, read |-> old.read,
                      delivered |-> old.delivered, repeats |-> old.repeats, next |-> next]
<1>1. /\ old.id \in Orders /\ old.read \in OrderRow
      /\ old.delivered \in Quantities /\ old.repeats \in BOOLEAN
  BY RequestFacts DEF IInv, WriteReceipt, Idle
<1>2. next \in {old.read.status, "PARTIALLY_RECEIVED", "FULLY_RECEIVED"}
  BY StatusAfterRange
<1>3. ReceiptChecked(old)
  BY DEF IInv, RequestsChecked, WriteReceipt
<1>4. request' = [request EXCEPT ![r] = state]
  BY DEF WriteReceipt
<1>. HIDE DEF next
<1>5. next \in Status
  BY <1>1, <1>2 DEF OrderRow, Status
<1>6. state \in RequestState
  BY <1>1, <1>5 DEF RequestState
<1>7. ReceiptChecked(state)
  BY <1>3 DEF ReceiptChecked
<1>8. state.kind = "written" /\ state.next = next /\ state.read = old.read
  OBVIOUS
<1>. HIDE DEF state
<1>. QED
  BY <1>2, <1>4, <1>6, <1>7, <1>8, RequestStep DEF WriteReceipt

LEMMA AbandonKeepsIInv ==
  ASSUME IInv, NEW r \in Requests, Abandon(r)
  PROVE  IInv'
<1>1. Idle \in RequestState /\ Idle.kind = "idle"
  BY DEF Idle, RequestState
<1>. QED
  BY <1>1, RequestStep DEF Abandon

\* A commit that leaves lines and receipts alone: a new status or cost.
LEMMA RowOnlyCommit ==
  ASSUME IInv, NEW r \in Requests, NEW o \in Orders,
         NEW status \in Status, NEW shipping \in ShippingCosts, order[o] \in OrderRow,
         order' = [order EXCEPT ![o] = Updated(order[o], status, order[o].received, shipping)],
         request' = [request EXCEPT ![r] = Idle],
         UNCHANGED <<onHand, ledger, posted, doubled>>,
         stale' \in SUBSET Orders, stale \subseteq stale',
         o \notin stale' /\ status \in {"DRAFT", "PENDING_APPROVAL", "APPROVED"} =>
           order[o].status \in {"DRAFT", "PENDING_APPROVAL", "APPROVED"}
  PROVE  IInv'
<1>. DEFINE row == Updated(order[o], status, order[o].received, shipping)
<1>1. order[o].received \in Quantities
  BY DEF OrderRow
<1>2. /\ row \in OrderRow
      /\ row.status = status
      /\ row.received = order[o].received
      /\ SameLines(row, order[o])
  BY <1>1, UpdatedType
<1>. HIDE DEF row
<1>3. order' = [order EXCEPT ![o] = row]
  BY DEF row
<1>4. order'[o] = row /\ \A u \in Orders \ {o} : order'[u] = order[u]
  BY <1>3 DEF IInv, TypeOK
<1>5. TypeOK'
  BY <1>2, <1>3 DEF IInv, TypeOK, RequestState
<1>6. RequestsChecked'
  BY <1>2, <1>3, CommitKeepsRequests
<1>7. UncreatedMeansUnposted'
  BY <1>2, <1>4, NoOrderIsNoRow DEF IInv, UncreatedMeansUnposted
<1>8. ReceiptsMatchMovements'
  BY <1>2, <1>4, NoOrderIsNoRow DEF IInv, ReceiptsMatchMovements, SameLines
<1>9. FreshReceiptsAreOwed'
  BY <1>2, <1>4, NoOrderIsNoRow DEF IInv, FreshReceiptsAreOwed, Fresh, SameLines
<1>. QED
  BY <1>5, <1>6, <1>7, <1>8, <1>9 DEF IInv

LEMMA CommitStatusKeepsIInv ==
  ASSUME IInv, NEW r \in Requests, CommitStatus(r)
  PROVE  IInv'
<1>. DEFINE o == request[r].id
<1>1. /\ o \in Orders /\ request[r].next \in Status
      /\ order[o] \in OrderRow
      /\ <<request[r].read.status, request[r].next>> \in Transitions
  BY RequestFacts DEF IInv, RequestsChecked, StatusChecked, DecidedOn, CommitStatus, Idle
<1>2. order[o].shipping \in ShippingCosts
  BY <1>1 DEF OrderRow
<1>3. order' = [order EXCEPT
        ![o] = Updated(order[o], request[r].next, order[o].received, order[o].shipping)]
  BY <1>1 DEF CommitStatus, IInv, TypeOK
<1>4. stale' \in SUBSET Orders /\ stale \subseteq stale'
  BY <1>1 DEF CommitStatus, NoteStale, IInv, TypeOK
<1>5. ASSUME o \notin stale', request[r].next \in {"DRAFT", "PENDING_APPROVAL", "APPROVED"}
      PROVE  order[o].status \in {"DRAFT", "PENDING_APPROVAL", "APPROVED"}
  <2>1. order[o].status = request[r].read.status
    BY <1>1, <1>5 DEF CommitStatus, NoteStale, IInv, TypeOK
  <2>. QED
    BY <1>1, <1>5, <2>1 DEF Transitions
<1>. QED
  BY <1>1, <1>2, <1>3, <1>4, <1>5, RowOnlyCommit DEF CommitStatus

LEMMA CommitEditKeepsIInv ==
  ASSUME IInv, NEW r \in Requests, CommitEdit(r)
  PROVE  IInv'
<1>. DEFINE o == request[r].id
<1>1. o \in Orders /\ request[r].shipping \in ShippingCosts /\ order[o] \in OrderRow
  BY RequestFacts DEF IInv, RequestsChecked, EditChecked, DecidedOn, CommitEdit, Idle
<1>2. order[o].status \in Status
  BY <1>1 DEF OrderRow
<1>3. order' = [order EXCEPT
        ![o] = Updated(order[o], order[o].status, order[o].received, request[r].shipping)]
  BY <1>1 DEF CommitEdit, IInv, TypeOK
<1>4. stale' \in SUBSET Orders /\ stale \subseteq stale'
  BY <1>1 DEF CommitEdit, NoteStale, IInv, TypeOK
<1>. QED
  BY <1>1, <1>2, <1>3, <1>4, RowOnlyCommit DEF CommitEdit

LEMMA CommitReceiptKeepsIInv ==
  ASSUME IInv, NEW r \in Requests, CommitReceipt(r)
  PROVE  IInv'
<1>. DEFINE o         == request[r].id
            read      == request[r].read
            delivered == request[r].delivered
            next      == request[r].next
            base      == InBaseUnits(read, delivered)
            status    == IF next # read.status THEN next ELSE order[o].status
            received  == ReceivedAfter(o, delivered)
            row       == Updated(order[o], status, received, order[o].shipping)
            sum       == [p \in Products |-> posted[o][p] + base[p]]
<1>1. /\ o \in Orders /\ read \in OrderRow /\ next \in Status
      /\ delivered \in Quantities /\ request[r].repeats \in BOOLEAN
  BY RequestFacts DEF IInv, CommitReceipt, Idle
<1>2. /\ order[o] \in OrderRow
      /\ SameLines(order[o], read)
      /\ Receivable(read)
      /\ Deliverable(delivered, request[r].repeats, read)
      /\ next \in {read.status, "PARTIALLY_RECEIVED", "FULLY_RECEIVED"}
  BY DEF IInv, RequestsChecked, ReceiptChecked, DecidedOn, CommitReceipt
<1>3. /\ order[o].received \in Quantities /\ order[o].shipping \in ShippingCosts
      /\ order[o].status \in Status /\ order[o].factor \in [Products -> Nat \ {0}]
      /\ order[o].ordered \in Quantities /\ posted[o] \in Quantities
  BY <1>1, <1>2 DEF OrderRow, IInv, TypeOK
<1>4. /\ base \in Quantities
      /\ \A p \in Products : base[p] = BaseUnits(delivered[p], order[o].factor[p])
  BY <1>1, <1>2, InBaseUnitsType DEF SameLines
<1>5. received \in Quantities
  BY <1>1, <1>3 DEF ReceivedAfter, Quantities
<1>6. \A p \in Products : received[p] = order[o].received[p] + delivered[p]
  BY DEF ReceivedAfter
<1>7. sum \in Quantities
  BY <1>3, <1>4 DEF Quantities
<1>8. /\ order' = [order EXCEPT ![o] = row]
      /\ posted' = [posted EXCEPT ![o] = sum]
      /\ request' = [request EXCEPT ![r] = Idle]
      /\ NoteStale(o, order[o] # read)
      /\ doubled' = IF request[r].repeats THEN doubled \cup {o} ELSE doubled
  BY <1>1 DEF CommitReceipt, IInv, TypeOK
<1>9. \A p \in Products : sum[p] = posted[o][p] + base[p]
  OBVIOUS
<1>10. status \in Status
  BY <1>1, <1>3
<1>11. order[o] = read => status \notin {"DRAFT", "PENDING_APPROVAL", "APPROVED"}
  BY <1>2 DEF Receivable
<1>. HIDE DEF base, status, received, row, sum
<1>12. /\ row \in OrderRow
       /\ row.status = status
       /\ row.received = received
       /\ SameLines(row, order[o])
  BY <1>2, <1>3, <1>5, <1>10, UpdatedType DEF row
<1>13. /\ order'[o] = row /\ posted'[o] = sum
       /\ \A u \in Orders \ {o} : order'[u] = order[u] /\ posted'[u] = posted[u]
  BY <1>1, <1>8 DEF IInv, TypeOK
<1>14. stale' \in SUBSET Orders /\ stale \subseteq stale'
       /\ doubled' \in SUBSET Orders /\ doubled \subseteq doubled'
  BY <1>1, <1>8 DEF NoteStale, IInv, TypeOK
<1>15. TypeOK'
  <2>1. onHand' \in [Items -> Nat] /\ ledger' \in [Items -> Int]
    BY ReceiptPosts
  <2>2. order' \in [Orders -> OrderRow \cup {NoOrder}] /\ posted' \in [Orders -> Quantities]
    BY <1>7, <1>8, <1>12 DEF IInv, TypeOK
  <2>3. request' \in [Requests -> RequestState]
    BY <1>8 DEF IInv, TypeOK, RequestState
  <2>. QED
    BY <1>14, <2>1, <2>2, <2>3 DEF TypeOK
<1>16. RequestsChecked'
  BY <1>1, <1>2, <1>8, <1>12, CommitKeepsRequests
<1>17. UncreatedMeansUnposted'
  BY <1>12, <1>13, NoOrderIsNoRow DEF IInv, UncreatedMeansUnposted
<1>18. ReceiptsMatchMovements'
  <2>1. ASSUME NEW p \in Products
        PROVE  /\ sum[p] = BaseUnits(row.received[p], row.factor[p])
               /\ p \notin row.tracked => sum[p] = 0
    <3>1. /\ posted[o][p] = BaseUnits(order[o].received[p], order[o].factor[p])
          /\ p \notin order[o].tracked => posted[o][p] = 0
      BY <1>1, <1>2, NoOrderIsNoRow DEF IInv, ReceiptsMatchMovements
    <3>2. order[o].received[p] \in Nat /\ delivered[p] \in Nat /\ order[o].factor[p] \in Nat
      BY <1>1, <1>3 DEF Quantities
    <3>3. BaseUnits(order[o].received[p] + delivered[p], order[o].factor[p])
            = posted[o][p] + base[p]
      <4>1. BaseUnits(order[o].received[p] + delivered[p], order[o].factor[p])
              = BaseUnits(order[o].received[p], order[o].factor[p])
                + BaseUnits(delivered[p], order[o].factor[p])
        BY <3>2, BaseUnitsSum
      <4>. QED
        BY <1>4, <3>1, <4>1
    <3>4. sum[p] = BaseUnits(row.received[p], row.factor[p])
      BY <1>6, <1>9, <1>12, <3>3 DEF SameLines
    <3>5. p \notin row.tracked => base[p] = 0
      BY <1>2, <1>4, <1>12, <3>2, BaseUnitsOfNothing DEF SameLines, Deliverable
    <3>. QED
      BY <1>9, <1>12, <3>1, <3>4, <3>5 DEF SameLines
  <2>. QED
    BY <1>13, <2>1 DEF IInv, ReceiptsMatchMovements
<1>19. FreshReceiptsAreOwed'
  <2>1. ASSUME o \notin stale'
        PROVE  row.status \notin {"DRAFT", "PENDING_APPROVAL", "APPROVED"}
    BY <1>1, <1>8, <1>11, <1>12, <2>1 DEF NoteStale
  <2>2. ASSUME o \notin stale', o \notin doubled', NEW p \in Products
        PROVE  row.received[p] <= row.ordered[p]
    <3>1. order[o] = read /\ ~ request[r].repeats
      BY <1>1, <1>8, <2>2 DEF NoteStale
    <3>2. order[o].received[p] <= order[o].ordered[p]
      BY <1>1, <1>2, <1>14, <2>2, NoOrderIsNoRow DEF IInv, FreshReceiptsAreOwed, Fresh
    <3>3. delivered[p] > 0 => delivered[p] <= order[o].ordered[p] - order[o].received[p]
      BY <1>2, <3>1 DEF Deliverable, MaxReceivable
    <3>4. /\ order[o].received[p] \in Nat /\ delivered[p] \in Nat
          /\ order[o].ordered[p] \in Nat
      BY <1>1, <1>3 DEF Quantities
    <3>5. row.received[p] = order[o].received[p] + delivered[p]
      BY <1>6, <1>12
    <3>. QED
      BY <1>12, <3>2, <3>3, <3>4, <3>5 DEF SameLines
  <2>. QED
    BY <1>13, <1>14, <2>1, <2>2 DEF IInv, FreshReceiptsAreOwed, Fresh
<1>. QED
  BY <1>15, <1>16, <1>17, <1>18, <1>19 DEF IInv

THEOREM NextKeepsIInv == IInv /\ [Next]_vars => IInv'
<1>. SUFFICES ASSUME IInv, [Next]_vars PROVE IInv'
  OBVIOUS
<1>1. ASSUME NEW o \in Orders, NEW location \in Locations, NEW tracked \in SUBSET Products,
             NEW ordered \in [Products -> Orderable], NEW factor \in [Products -> Factors],
             NEW shipping \in ShippingCosts,
             CreateOrder(o, location, tracked, ordered, factor, shipping)
      PROVE  IInv'
  BY <1>1, CreateOrderKeepsIInv
<1>2. ASSUME NEW r \in Requests, NEW o \in Orders, NEW next \in Status, BeginStatus(r, o, next)
      PROVE  IInv'
  BY <1>2, BeginStatusKeepsIInv
<1>3. ASSUME NEW r \in Requests, NEW o \in Orders, NEW shipping \in ShippingCosts,
             BeginEdit(r, o, shipping)
      PROVE  IInv'
  BY <1>3, BeginEditKeepsIInv
<1>4. ASSUME NEW r \in Requests, NEW o \in Orders,
             NEW first \in [Products -> Receipts], NEW second \in [Products -> Receipts],
             BeginReceive(r, o, first, second)
      PROVE  IInv'
  BY <1>4, BeginReceiveKeepsIInv
<1>5. ASSUME NEW r \in Requests, CommitStatus(r) \/ CommitEdit(r)
      PROVE  IInv'
  BY <1>5, CommitStatusKeepsIInv, CommitEditKeepsIInv
<1>6. ASSUME NEW r \in Requests, WriteReceipt(r) \/ CommitReceipt(r) \/ Abandon(r)
      PROVE  IInv'
  BY <1>6, WriteReceiptKeepsIInv, CommitReceiptKeepsIInv, AbandonKeepsIInv
<1>7. CASE UNCHANGED vars
  BY <1>7 DEF vars, IInv, TypeOK, RequestsChecked, StatusChecked, EditChecked, ReceiptChecked,
              DecidedOn, UncreatedMeansUnposted, ReceiptsMatchMovements,
              FreshReceiptsAreOwed, Fresh
<1>. QED
  BY <1>1, <1>2, <1>3, <1>4, <1>5, <1>6, <1>7 DEF Next

-----------------------------------------------------------------------------
(* The theorems. *)

LEMMA Inductive == Spec => []IInv
BY InitIInv, NextKeepsIInv, PTL DEF Spec

\* Every variable keeps its type; in particular no stock position, and no
\* quantity received on a line, is ever negative.
THEOREM TypeCorrect == Spec => []TypeOK
BY Inductive, PTL DEF IInv

\* Lines and movements of an order agree under every interleaving of receipts,
\* edits and status changes, for any units of measure.
THEOREM ReceiptsAlwaysMatch == Spec => []ReceiptsMatchMovements
BY Inductive, PTL DEF IInv

\* Goods arrive only for orders that were sent, and no more than was ordered:
\* a superseded read or a line named twice are the only ways around it.
THEOREM FreshReceiptsAlwaysOwed == Spec => []FreshReceiptsAreOwed
BY Inductive, PTL DEF IInv

\* What a step may do to an order it does not write on a superseded read.
StatusWrite(o) ==
  \E next \in Status :
    /\ <<order[o].status, next>> \in Transitions
    /\ order'[o] = Updated(order[o], next, order[o].received, order[o].shipping)

ReceiptWrite(o) ==
  /\ Receivable(order[o])
  /\ \E status, received :
       order'[o] = Updated(order[o], status, received, order[o].shipping)

LEMMA FreshChange ==
  ASSUME IInv, Next, NEW o \in Orders, o \notin stale', order'[o] # order[o]
  PROVE  order[o] = NoOrder \/ StatusWrite(o) \/ Editable(order[o]) \/ ReceiptWrite(o)
<1>1. ASSUME NEW r \in Requests, CommitStatus(r)
      PROVE  StatusWrite(o)
  <2>1. request[r].id = o
    BY <1>1 DEF CommitStatus, IInv, TypeOK
  <2>2. order[o].status = request[r].read.status
    BY <1>1, <2>1 DEF CommitStatus, NoteStale, IInv, TypeOK
  <2>3. <<request[r].read.status, request[r].next>> \in Transitions
    BY <1>1 DEF CommitStatus, IInv, RequestsChecked, StatusChecked
  <2>4. request[r].next \in Status
    BY <1>1, RequestFacts DEF CommitStatus, IInv, Idle
  <2>5. order'[o] = Updated(order[o], request[r].next, order[o].received, order[o].shipping)
    BY <1>1, <2>1 DEF CommitStatus, IInv, TypeOK
  <2>. QED
    BY <2>2, <2>3, <2>4, <2>5 DEF StatusWrite
<1>2. ASSUME NEW r \in Requests, CommitEdit(r)
      PROVE  Editable(order[o])
  <2>1. request[r].id = o
    BY <1>2 DEF CommitEdit, IInv, TypeOK
  <2>2. order[o].status = request[r].read.status
    BY <1>2, <2>1 DEF CommitEdit, NoteStale, IInv, TypeOK
  <2>. QED
    BY <1>2, <2>2 DEF CommitEdit, IInv, RequestsChecked, EditChecked, Editable
<1>3. ASSUME NEW r \in Requests, CommitReceipt(r)
      PROVE  ReceiptWrite(o)
  <2>1. request[r].id = o
    BY <1>3 DEF CommitReceipt, IInv, TypeOK
  <2>2. order[o] = request[r].read
    BY <1>3, <2>1 DEF CommitReceipt, NoteStale, IInv, TypeOK
  <2>3. Receivable(order[o])
    BY <1>3, <2>2 DEF CommitReceipt, IInv, RequestsChecked, ReceiptChecked
  <2>4. order'[o] = Updated(order[o],
                      IF request[r].next # request[r].read.status
                      THEN request[r].next ELSE order[o].status,
                      ReceivedAfter(o, request[r].delivered), order[o].shipping)
    BY <1>3, <2>1 DEF CommitReceipt, IInv, TypeOK
  <2>. QED
    BY <2>3, <2>4 DEF ReceiptWrite
<1>4. ASSUME NEW u \in Orders, NEW location \in Locations, NEW tracked \in SUBSET Products,
             NEW ordered \in [Products -> Orderable], NEW factor \in [Products -> Factors],
             NEW shipping \in ShippingCosts,
             CreateOrder(u, location, tracked, ordered, factor, shipping)
      PROVE  order[o] = NoOrder
  BY <1>4 DEF CreateOrder, IInv, TypeOK
<1>5. \/ \E r \in Requests : CommitStatus(r) \/ CommitEdit(r) \/ CommitReceipt(r)
      \/ \E u \in Orders, location \in Locations, tracked \in SUBSET Products,
           ordered \in [Products -> Orderable], factor \in [Products -> Factors],
           shipping \in ShippingCosts :
          CreateOrder(u, location, tracked, ordered, factor, shipping)
  BY DEF Next, BeginStatus, BeginEdit, BeginReceive, WriteReceipt, Abandon
<1>. QED
  BY <1>1, <1>2, <1>3, <1>4, <1>5

\* No request that read an order in its latest version writes it once it is
\* closed, cancelled or fully received.
THEOREM SettledStaysFinal == Spec => SettledIsFinal
<1>1. IInv /\ [Next]_vars =>
        [\A o \in Orders \ stale' :
           order[o].status \in {"CLOSED", "CANCELLED", "FULLY_RECEIVED"} =>
             order'[o] = order[o]]_vars
  <2>. SUFFICES ASSUME IInv, Next, NEW o \in Orders, o \notin stale', order'[o] # order[o],
                       order[o].status \in {"CLOSED", "CANCELLED", "FULLY_RECEIVED"}
                PROVE  FALSE
    BY DEF vars
  <2>1. order[o] = NoOrder \/ StatusWrite(o) \/ Editable(order[o]) \/ ReceiptWrite(o)
    BY FreshChange
  <2>2. ~ StatusWrite(o)
    BY DEF StatusWrite, Transitions
  <2>. QED
    BY <2>1, <2>2 DEF NoOrder, Editable, ReceiptWrite, Receivable
<1>. QED
  BY <1>1, Inductive, PTL DEF Spec, SettledIsFinal

\* Nor does any such request change what an order costs after it left DRAFT.
THEOREM ApprovedCostStaysFixed == Spec => ApprovedCostIsFixed
<1>1. IInv /\ [Next]_vars =>
        [\A o \in Orders \ stale' :
           order[o].status \notin {"NONE", "DRAFT"} =>
             order'[o].shipping = order[o].shipping]_vars
  <2>. SUFFICES ASSUME IInv, Next, NEW o \in Orders, o \notin stale', order'[o] # order[o],
                       order[o].status \notin {"NONE", "DRAFT"}
                PROVE  order'[o].shipping = order[o].shipping
    BY DEF vars
  <2>1. order[o] = NoOrder \/ StatusWrite(o) \/ Editable(order[o]) \/ ReceiptWrite(o)
    BY FreshChange
  <2>2. StatusWrite(o) \/ ReceiptWrite(o)
    BY <2>1 DEF NoOrder, Editable
  <2>3. \A status, received :
          Updated(order[o], status, received, order[o].shipping).shipping = order[o].shipping
    BY DEF Updated
  <2>. QED
    BY <2>2, <2>3 DEF StatusWrite, ReceiptWrite
<1>. QED
  BY <1>1, Inductive, PTL DEF Spec, ApprovedCostIsFixed

-----------------------------------------------------------------------------
(* The status of a receipt. It is computed from lines read again before    *)
(* the commit, and compares two totals. What makes it right for an order   *)
(* no superseded read wrote: receipts only grow, so lines that are at the  *)
(* commit what they were at the first read were so in between.             *)

ReadsAreBehind ==
  \A r \in Requests : request[r].kind \in {"receive", "written"} =>
    \A p \in Products :
      request[r].read.received[p] <= order[request[r].id].received[p]

\* The status of the order a request read, after what it delivers to it.
NextOf(state) ==
  StatusAfter(state.read,
              [p \in Products |-> state.read.received[p] + state.delivered[p]])

NextStillRight ==
  \A r \in Requests :
    request[r].kind = "written" /\ order[request[r].id].received = request[r].read.received
      => request[r].next = NextOf(request[r])

ReceiptInv == ReadsAreBehind /\ NextStillRight /\ StatusMatchesReceipts

LEMMA TotalIsSum ==
  ASSUME NEW q PROVE Total(q) = StockFacts!SumOf(q, Products)
BY DEF Total, MapThenSumSet, MapThenFoldSet,
       StockFacts!SumOf, StockFacts!MapThenSumSet, StockFacts!MapThenFoldSet

\* For lines within their order the totals tell which of nothing, some and all
\* has been received.
LEMMA TotalsCompareLines ==
  ASSUME NEW received \in Quantities, NEW ordered \in Quantities,
         \A p \in Products : received[p] <= ordered[p]
  PROVE  /\ Total(received) = 0 <=> received = Nothing
         /\ Total(received) >= Total(ordered) <=> received = ordered
<1>1. StockFacts!IsFiniteSet(Products)
  BY PurchaseAssumption DEF IsFiniteSet, StockFacts!IsFiniteSet
<1>2. \A p \in Products : /\ received[p] \in Nat /\ ordered[p] \in Nat /\ Nothing[p] \in Nat
                          /\ Nothing[p] = 0 /\ Nothing[p] <= received[p]
  BY DEF Quantities, Nothing
<1>3. Total(received) \in Nat /\ Total(ordered) \in Nat /\ Total(Nothing) \in Nat
  BY <1>1, <1>2, StockFacts!SumType, TotalIsSum
<1>4. /\ Total(received) <= Total(ordered)
      /\ Total(received) = Total(ordered) <=> \A p \in Products : received[p] = ordered[p]
  BY <1>1, <1>2, StockFacts!SumMonotone, TotalIsSum
<1>5. Total(Nothing) = Total(received) <=> \A p \in Products : Nothing[p] = received[p]
  BY <1>1, <1>2, StockFacts!SumMonotone, TotalIsSum
<1>6. Total(Nothing) = 0
  BY <1>1, <1>2, StockFacts!SumOfZeros, TotalIsSum
<1>7. /\ received = ordered <=> \A p \in Products : received[p] = ordered[p]
      /\ received = Nothing <=> \A p \in Products : Nothing[p] = received[p]
  BY DEF Quantities, Nothing
<1>. QED
  BY <1>3, <1>4, <1>5, <1>6, <1>7

\* A commit of r, or none, after which no order has received less than before.
LEMMA ReceiptsGrow ==
  ASSUME IInv, ReceiptInv, NEW r \in Requests,
         request' = [request EXCEPT ![r] = Idle],
         \A o \in Orders : order[o] \in OrderRow =>
           /\ order[o].received \in Quantities /\ order'[o].received \in Quantities
           /\ \A p \in Products : order[o].received[p] <= order'[o].received[p]
  PROVE  ReadsAreBehind' /\ NextStillRight'
<1>1. \A q \in Requests : q # r => request'[q] = request[q]
  BY DEF IInv, TypeOK
<1>2. request'[r].kind = "idle"
  BY DEF IInv, TypeOK, Idle
<1>3. ASSUME NEW q \in Requests, request'[q].kind \in {"receive", "written"}
      PROVE  /\ request'[q] = request[q]
             /\ request[q].id \in Orders /\ order[request[q].id] \in OrderRow
             /\ request[q].read \in OrderRow
  BY <1>1, <1>2, <1>3, RequestFacts
     DEF IInv, RequestsChecked, ReceiptChecked, DecidedOn, Idle
<1>4. ASSUME NEW q \in Requests, request'[q].kind \in {"receive", "written"}
      PROVE  /\ \A p \in Products :
                  request[q].read.received[p] <= order'[request[q].id].received[p]
             /\ order'[request[q].id].received = request[q].read.received =>
                  order[request[q].id].received = request[q].read.received
  <2>. DEFINE o == request[q].id
  <2>1. /\ request[q].read.received \in Quantities
        /\ order[o].received \in Quantities /\ order'[o].received \in Quantities
        /\ \A p \in Products : order[o].received[p] <= order'[o].received[p]
    BY <1>3, <1>4 DEF OrderRow
  <2>2. \A p \in Products : request[q].read.received[p] <= order[o].received[p]
    BY <1>3, <1>4 DEF ReceiptInv, ReadsAreBehind
  <2>3. \A p \in Products : /\ request[q].read.received[p] \in Nat
                            /\ order[o].received[p] \in Nat /\ order'[o].received[p] \in Nat
    BY <2>1 DEF Quantities
  <2>4. ASSUME order'[o].received = request[q].read.received
        PROVE  order[o].received = request[q].read.received
    <3>1. \A p \in Products : order[o].received[p] = request[q].read.received[p]
      BY <2>1, <2>2, <2>3, <2>4
    <3>. QED
      BY <2>1, <3>1 DEF Quantities
  <2>. QED
    BY <2>1, <2>2, <2>3, <2>4
<1>5. ReadsAreBehind'
  BY <1>3, <1>4 DEF ReadsAreBehind
<1>6. NextStillRight'
  BY <1>3, <1>4 DEF ReceiptInv, NextStillRight
<1>. QED
  BY <1>5, <1>6

LEMMA CreateKeepsReceiptInv ==
  ASSUME IInv, ReceiptInv, NEW o \in Orders, NEW location \in Locations,
         NEW tracked \in SUBSET Products, NEW ordered \in [Products -> Orderable],
         NEW factor \in [Products -> Factors], NEW shipping \in ShippingCosts,
         CreateOrder(o, location, tracked, ordered, factor, shipping)
  PROVE  ReceiptInv'
<1>1. /\ order[o] = NoOrder
      /\ order'[o].status = "DRAFT"
      /\ \A u \in Orders \ {o} : order'[u] = order[u]
      /\ request' = request /\ stale' = stale /\ doubled' = doubled
  BY DEF CreateOrder, IInv, TypeOK
<1>2. \A q \in Requests : request[q].kind \in {"receive", "written"} =>
        request[q].id \in Orders \ {o}
  BY <1>1, RequestFacts, NoOrderIsNoRow
     DEF IInv, RequestsChecked, ReceiptChecked, DecidedOn, Idle
<1>3. ReadsAreBehind' /\ NextStillRight'
  BY <1>1, <1>2 DEF ReceiptInv, ReadsAreBehind, NextStillRight
<1>4. StatusMatchesReceipts'
  BY <1>1 DEF ReceiptInv, StatusMatchesReceipts, Fresh
<1>. QED
  BY <1>3, <1>4 DEF ReceiptInv

LEMMA BeginReceiveKeepsReceiptInv ==
  ASSUME IInv, ReceiptInv, NEW r \in Requests, NEW o \in Orders,
         NEW first \in [Products -> Receipts], NEW second \in [Products -> Receipts],
         BeginReceive(r, o, first, second)
  PROVE  ReceiptInv'
<1>1. /\ request'[r].kind = "receive" /\ request'[r].id = o /\ request'[r].read = order[o]
      /\ \A q \in Requests \ {r} : request'[q] = request[q]
      /\ order' = order /\ stale' = stale /\ doubled' = doubled
  BY DEF BeginReceive, IInv, TypeOK
<1>2. order[o] \in OrderRow
  BY DEF BeginReceive, Receivable, NoOrder, IInv, TypeOK
<1>3. \A p \in Products : order[o].received[p] \in Nat
  BY <1>2 DEF OrderRow, Quantities
<1>4. ReadsAreBehind'
  BY <1>1, <1>3 DEF ReceiptInv, ReadsAreBehind
<1>5. NextStillRight'
  BY <1>1 DEF ReceiptInv, NextStillRight
<1>. QED
  BY <1>1, <1>4, <1>5 DEF ReceiptInv, StatusMatchesReceipts, Fresh

LEMMA WriteReceiptKeepsReceiptInv ==
  ASSUME IInv, ReceiptInv, NEW r \in Requests, WriteReceipt(r)
  PROVE  ReceiptInv'
<1>1. /\ request[r].kind = "receive"
      /\ request'[r].kind = "written"
      /\ request'[r].id = request[r].id
      /\ request'[r].read = request[r].read
      /\ request'[r].delivered = request[r].delivered
      /\ request'[r].next = StatusAfter(request[r].read,
                              ReceivedAfter(request[r].id, request[r].delivered))
      /\ \A q \in Requests \ {r} : request'[q] = request[q]
      /\ order' = order /\ stale' = stale /\ doubled' = doubled
  BY DEF WriteReceipt, IInv, TypeOK
<1>2. ReadsAreBehind'
  BY <1>1 DEF ReceiptInv, ReadsAreBehind
<1>3. NextStillRight'
  <2>1. order[request[r].id].received = request[r].read.received =>
          ReceivedAfter(request[r].id, request[r].delivered)
            = [p \in Products |-> request[r].read.received[p] + request[r].delivered[p]]
    BY DEF ReceivedAfter
  <2>2. order[request[r].id].received = request[r].read.received =>
          request'[r].next = NextOf(request'[r])
    BY <1>1, <2>1 DEF NextOf
  <2>. QED
    BY <1>1, <2>2 DEF ReceiptInv, NextStillRight
<1>. QED
  BY <1>1, <1>2, <1>3 DEF ReceiptInv, StatusMatchesReceipts, Fresh

LEMMA CommitStatusKeepsReceiptInv ==
  ASSUME IInv, ReceiptInv, NEW r \in Requests, CommitStatus(r)
  PROVE  ReceiptInv'
<1>. DEFINE o == request[r].id
<1>1. /\ o \in Orders
      /\ order[o] \in OrderRow
      /\ <<request[r].read.status, request[r].next>> \in Transitions
  BY RequestFacts DEF IInv, RequestsChecked, StatusChecked, DecidedOn, CommitStatus, Idle
<1>2. /\ order'[o].status = request[r].next
      /\ order'[o].received = order[o].received
      /\ \A u \in Orders \ {o} : order'[u] = order[u]
      /\ request' = [request EXCEPT ![r] = Idle] /\ doubled' = doubled
      /\ \A u \in Orders : u \notin stale' => u \notin stale
      /\ o \notin stale' => order[o].status = request[r].read.status
  BY <1>1 DEF CommitStatus, Updated, NoteStale, IInv, TypeOK
<1>3. \A u \in Orders : order'[u].received = order[u].received
  BY <1>2
<1>4. \A u \in Orders : order[u] \in OrderRow =>
        /\ order[u].received \in Quantities /\ order'[u].received \in Quantities
        /\ \A p \in Products : order[u].received[p] <= order'[u].received[p]
  BY <1>3 DEF OrderRow, Quantities
<1>5. ReadsAreBehind' /\ NextStillRight'
  BY <1>2, <1>4, ReceiptsGrow
<1>6. /\ request[r].next \notin {"PARTIALLY_RECEIVED", "FULLY_RECEIVED"}
      /\ request[r].next = "SENT" => request[r].read.status = "APPROVED"
  BY <1>1 DEF Transitions
<1>7. o \notin stale' /\ request[r].next = "SENT" => order[o].received = Nothing
  BY <1>1, <1>2, <1>6, NoOrderIsNoRow DEF IInv, FreshReceiptsAreOwed, Fresh
<1>8. StatusMatchesReceipts'
  BY <1>2, <1>6, <1>7 DEF ReceiptInv, StatusMatchesReceipts, Fresh
<1>. QED
  BY <1>5, <1>8 DEF ReceiptInv

LEMMA CommitEditKeepsReceiptInv ==
  ASSUME IInv, ReceiptInv, NEW r \in Requests, CommitEdit(r)
  PROVE  ReceiptInv'
<1>. DEFINE o == request[r].id
<1>1. o \in Orders /\ order[o] \in OrderRow
  BY RequestFacts DEF IInv, RequestsChecked, EditChecked, DecidedOn, CommitEdit, Idle
<1>2. /\ order'[o].status = order[o].status
      /\ order'[o].received = order[o].received
      /\ order'[o].ordered = order[o].ordered
      /\ \A u \in Orders \ {o} : order'[u] = order[u]
      /\ request' = [request EXCEPT ![r] = Idle] /\ doubled' = doubled
      /\ \A u \in Orders : u \notin stale' => u \notin stale
  BY <1>1 DEF CommitEdit, Updated, NoteStale, IInv, TypeOK
<1>3. \A u \in Orders : order'[u].received = order[u].received
  BY <1>2
<1>4. \A u \in Orders : order[u] \in OrderRow =>
        /\ order[u].received \in Quantities /\ order'[u].received \in Quantities
        /\ \A p \in Products : order[u].received[p] <= order'[u].received[p]
  BY <1>3 DEF OrderRow, Quantities
<1>5. ReadsAreBehind' /\ NextStillRight'
  BY <1>2, <1>4, ReceiptsGrow
<1>6. StatusMatchesReceipts'
  BY <1>2 DEF ReceiptInv, StatusMatchesReceipts, Fresh
<1>. QED
  BY <1>5, <1>6 DEF ReceiptInv

LEMMA CommitReceiptKeepsReceiptInv ==
  ASSUME IInv, ReceiptInv, NEW r \in Requests, CommitReceipt(r)
  PROVE  ReceiptInv'
<1>. DEFINE o         == request[r].id
            read      == request[r].read
            delivered == request[r].delivered
            next      == request[r].next
            received  == ReceivedAfter(o, delivered)
            status    == IF next # read.status THEN next ELSE order[o].status
<1>1. /\ o \in Orders /\ delivered \in Quantities
      /\ order[o] \in OrderRow /\ Receivable(read)
  BY RequestFacts DEF IInv, RequestsChecked, ReceiptChecked, DecidedOn, CommitReceipt, Idle
<1>2. /\ order'[o].status = status
      /\ order'[o].received = received
      /\ order'[o].ordered = order[o].ordered
      /\ \A u \in Orders \ {o} : order'[u] = order[u]
      /\ request' = [request EXCEPT ![r] = Idle]
      /\ \A u \in Orders : u \notin stale' => u \notin stale
      /\ \A u \in Orders : u \notin doubled' => u \notin doubled
      /\ o \notin stale' => order[o] = read
  BY <1>1 DEF CommitReceipt, Updated, NoteStale, IInv, TypeOK
<1>3. /\ order[o].received \in Quantities /\ order[o].ordered \in Quantities
      /\ received \in Quantities
      /\ \A p \in Products : /\ order[o].received[p] \in Nat
                             /\ received[p] = order[o].received[p] + delivered[p]
                             /\ order[o].received[p] <= received[p]
  BY <1>1 DEF OrderRow, Quantities, ReceivedAfter
<1>4. \A u \in Orders : order[u] \in OrderRow =>
        /\ order[u].received \in Quantities /\ order'[u].received \in Quantities
        /\ \A p \in Products : order[u].received[p] <= order'[u].received[p]
  <2>1. ASSUME NEW u \in Orders, order[u] \in OrderRow, u # o
        PROVE  /\ order[u].received \in Quantities /\ order'[u].received \in Quantities
               /\ \A p \in Products : order[u].received[p] <= order'[u].received[p]
    BY <1>2, <2>1 DEF OrderRow, Quantities
  <2>. HIDE DEF received
  <2>. QED
    BY <1>2, <1>3, <2>1
<1>5. ReadsAreBehind' /\ NextStillRight'
  BY <1>2, <1>4, ReceiptsGrow
<1>6. ASSUME o \notin stale', o \notin doubled'
      PROVE  /\ status = "SENT" => received = Nothing
             /\ status = "PARTIALLY_RECEIVED" => received \notin {Nothing, order[o].ordered}
             /\ status = "FULLY_RECEIVED" => received = order[o].ordered
  <2>1. order[o] = read /\ o \notin stale /\ o \notin doubled
    BY <1>1, <1>2, <1>6
  <2>2. next = StatusAfter(read, received)
    <3>1. next = NextOf(request[r])
      BY <2>1 DEF ReceiptInv, NextStillRight, CommitReceipt
    <3>2. received = [p \in Products |-> read.received[p] + delivered[p]]
      BY <2>1 DEF ReceivedAfter
    <3>. QED
      BY <3>1, <3>2 DEF NextOf
  <2>3. status = next
    BY <2>1
  <2>4. FreshReceiptsAreOwed' /\ order'[o] # NoOrder
    <3>1. FreshReceiptsAreOwed'
      BY CommitReceiptKeepsIInv DEF IInv
    <3>2. order'[o].status # "NONE"
      BY <1>1, <1>2, <2>2, <2>3 DEF StatusAfter, Receivable
    <3>. QED
      BY <3>1, <3>2 DEF NoOrder
  <2>5. \A p \in Products : received[p] <= order[o].ordered[p]
    BY <1>1, <1>2, <1>6, <2>4, NoOrderIsNoRow DEF FreshReceiptsAreOwed, Fresh
  <2>. HIDE DEF status, received
  <2>6. /\ Total(received) = 0 <=> received = Nothing
        /\ Total(received) >= Total(order[o].ordered) <=> received = order[o].ordered
    BY <1>3, <2>5, TotalsCompareLines
  <2>7. CASE Total(received) = 0
    <3>1. order[o].received = Nothing
      <4>1. \A p \in Products : received[p] = 0
        BY <2>6, <2>7 DEF Nothing
      <4>2. \A p \in Products : order[o].received[p] = 0
        BY <1>1, <1>3, <4>1 DEF Quantities
      <4>. QED
        BY <1>3, <4>2 DEF Quantities, Nothing
    <3>2. read.status \in {"SENT", "PARTIALLY_RECEIVED"}
      BY <1>1 DEF Receivable
    <3>3. read.status # "PARTIALLY_RECEIVED"
      BY <1>1, <2>1, <3>1 DEF ReceiptInv, StatusMatchesReceipts, Fresh
    <3>. QED
      BY <2>1, <2>2, <2>3, <2>6, <2>7, <3>2, <3>3 DEF StatusAfter
  <2>8. CASE Total(received) # 0
    BY <2>1, <2>2, <2>3, <2>6, <2>8 DEF StatusAfter
  <2>. QED
    BY <2>7, <2>8
<1>. HIDE DEF status, received
<1>7. StatusMatchesReceipts'
  BY <1>2, <1>6 DEF ReceiptInv, StatusMatchesReceipts, Fresh
<1>. QED
  BY <1>5, <1>7 DEF ReceiptInv

LEMMA RequestOnlyKeepsReceiptInv ==
  ASSUME ReceiptInv, NEW r \in Requests,
         request'[r].kind \in {"idle", "status", "edit"},
         \A q \in Requests \ {r} : request'[q] = request[q],
         UNCHANGED <<order, stale, doubled>>
  PROVE  ReceiptInv'
BY DEF ReceiptInv, ReadsAreBehind, NextStillRight, StatusMatchesReceipts, Fresh

\* Whatever interleaves, the status of an order tells nothing, some or all of
\* its lines from each other, although receivePurchaseOrderItems compares only
\* totals, over lines other receipts may have changed since it read the order.
THEOREM StatusAlwaysMatches == Spec => []StatusMatchesReceipts
<1>1. Init => ReceiptInv
  BY DEF Init, ReceiptInv, ReadsAreBehind, NextStillRight, StatusMatchesReceipts, Fresh, Idle, NoOrder
<1>2. IInv /\ ReceiptInv /\ [Next]_vars => ReceiptInv'
  <2>. SUFFICES ASSUME IInv, ReceiptInv, [Next]_vars PROVE ReceiptInv'
    OBVIOUS
  <2>1. ASSUME NEW r \in Requests, NEW o \in Orders, NEW next \in Status, BeginStatus(r, o, next)
        PROVE  ReceiptInv'
    BY <2>1, RequestOnlyKeepsReceiptInv DEF BeginStatus, IInv, TypeOK
  <2>2. ASSUME NEW r \in Requests, NEW o \in Orders, NEW shipping \in ShippingCosts,
               BeginEdit(r, o, shipping)
        PROVE  ReceiptInv'
    BY <2>2, RequestOnlyKeepsReceiptInv DEF BeginEdit, IInv, TypeOK
  <2>3. ASSUME NEW r \in Requests, Abandon(r)
        PROVE  ReceiptInv'
    BY <2>3, RequestOnlyKeepsReceiptInv DEF Abandon, Idle, IInv, TypeOK
  <2>4. CASE UNCHANGED vars
    BY <2>4 DEF vars, ReceiptInv, ReadsAreBehind, NextStillRight,
                StatusMatchesReceipts, Fresh
  <2>. QED
    BY <2>1, <2>2, <2>3, <2>4, CreateKeepsReceiptInv, BeginReceiveKeepsReceiptInv,
       WriteReceiptKeepsReceiptInv, CommitStatusKeepsReceiptInv, CommitEditKeepsReceiptInv,
       CommitReceiptKeepsReceiptInv DEF Next
<1>. QED
  BY <1>1, <1>2, Inductive, PTL DEF Spec, ReceiptInv

-----------------------------------------------------------------------------
(* Stock. *)

\* Receipts keep the stock promise: PurchaseOrders implements StockLedger, with
\* the same onHand and ledger.
THEOREM KeepsStockPromise == Spec => StockPromise
<1>1. Init => Stock!Init
  BY DEF Init
<1>2. IInv /\ [Next]_vars => [Stock!Commit]_<<onHand, ledger>>
  BY ReceiptPosts
     DEF Next, vars, CreateOrder, BeginStatus, BeginEdit, BeginReceive,
         CommitStatus, CommitEdit, WriteReceipt, Abandon
<1>. QED
  BY <1>1, <1>2, Inductive, PTL DEF Spec, StockPromise, Stock!Spec, Stock!stockVars

\* So receiving never takes a stock position below zero nor out of balance with
\* its movements.
THEOREM ReceiptsKeepStockSafe == Spec => [](Stock!NonNegative /\ Stock!Balanced)
<1>1. StockPromise => [](Stock!NonNegative /\ Stock!Balanced)
  BY StockFacts!PromiseMeansSafe
     DEF StockPromise, StockFacts!Spec, StockFacts!Init, StockFacts!Commit,
         StockFacts!stockVars, StockFacts!NonNegative, StockFacts!Balanced,
         Stock!Spec, Stock!Init, Stock!Commit, Stock!stockVars,
         Stock!NonNegative, Stock!Balanced
<1>. QED
  BY <1>1, KeepsStockPromise
=============================================================================
