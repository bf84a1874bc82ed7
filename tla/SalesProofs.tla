----------------------------- MODULE SalesProofs -----------------------------
(***************************************************************************)
(* Theorems about Sales, for every set of products, orders and concurrent  *)
(* requests, any quantities and units. The invariant says what each        *)
(* request in flight has checked, that an order nobody has stored or that  *)
(* was recalled has no return and no reversal, and the two invariants of   *)
(* cancellations and returns.                                              *)
(***************************************************************************)
EXTENDS Sales, TLAPS

StockFacts == INSTANCE StockLedgerProofs WITH Items <- Products

\* The checks of a request, on what it read.
RequestsChecked ==
  \A r \in Requests :
    /\ request[r].kind = "sell" =>
         \A p \in Products : request[r].quantity[p] > 0 =>
           request[r].available[p] >= BaseUnits(request[r].quantity[p], request[r].factor[p])
    /\ request[r].kind = "update" => Updatable(request[r].read)
    /\ request[r].kind = "cancel" => Cancellable(request[r].read)
    /\ request[r].kind = "return" =>
         /\ Accepts(request[r].read)
         /\ order[request[r].id] # NoOrder
         /\ order[request[r].id] \in OrderRow /\ ~request[r].repeats =>
              \A p \in Products : request[r].quantity[p] > 0 =>
                request[r].counted[p] + request[r].quantity[p] <= order[request[r].id].quantity[p]

\* Nothing is put back for an order that is not there.
AbsentUntouched ==
  \A o \in Orders :
    /\ order[o] = NoOrder => reversed[o] = Nothing
    /\ order[o] \notin OrderRow => returned[o] = Nothing

IInv == TypeOK /\ RequestsChecked /\ AbsentUntouched /\ CancelReversesOnce /\ ReturnsWithinBought

-----------------------------------------------------------------------------
(* Rows, units and movements. *)

LEMMA AbsentRows ==
  /\ NoOrder \notin OrderRow /\ Recalled \notin OrderRow /\ NoOrder # Recalled
  /\ NoOrder.status \notin Status /\ Recalled.status \notin Status
  /\ \A row \in OrderRow : row.status \in Status /\ row.quantity \in Quantities
                           /\ row.factor \in [Products -> Nat \ {0}]
  BY DEF NoOrder, Recalled, OrderRow, Status

LEMMA RowType ==
  ASSUME NEW status \in Status, NEW quantity \in Quantities, NEW factor \in [Products -> Nat \ {0}]
  PROVE  /\ Row(status, quantity, factor) \in OrderRow
         /\ Row(status, quantity, factor).status = status
         /\ Row(status, quantity, factor).quantity = quantity
  BY DEF Row, OrderRow

LEMMA NothingType == Nothing \in Quantities /\ \A p \in Products : Nothing[p] = 0
  BY DEF Nothing, Quantities

LEMMA BaseUnitsType ==
  ASSUME NEW q \in Nat, NEW f \in Nat
  PROVE  BaseUnits(q, f) \in Nat
  BY DEF BaseUnits

LEMMA InBaseUnitsType ==
  ASSUME NEW quantity \in Quantities, NEW factor \in [Products -> Nat \ {0}]
  PROVE  /\ InBaseUnits(quantity, factor) \in Quantities
         /\ \A p \in Products : InBaseUnits(quantity, factor)[p] = BaseUnits(quantity[p], factor[p])
<1>1. \A p \in Products : BaseUnits(quantity[p], factor[p]) \in Nat
  BY BaseUnitsType DEF Quantities
<1> QED
  BY <1>1 DEF InBaseUnits, Quantities

LEMMA MovesFacts ==
  ASSUME TypeOK, NEW change \in [Products -> Int], Moves(change)
  PROVE  /\ onHand' \in [Products -> Nat] /\ ledger' \in [Products -> Int]
         /\ stocked' \subseteq Products
         /\ \A p \in Products : onHand'[p] = onHand[p] + change[p]
         /\ Stock!Commit
  BY DEF Moves, TypeOK, Stock!Post, Stock!Commit, Stock!Allowed, Stock!OnHandAfter, Stock!LedgerAfter

LEMMA InitFacts ==
  ASSUME Init
  PROVE  IInv
<1>1. TypeOK
  BY NothingType DEF Init, Stock!Init, TypeOK, RequestState, Quantities, Nothing
<1>2. RequestsChecked
  BY DEF Init, RequestsChecked, Idle
<1>3. AbsentUntouched /\ CancelReversesOnce
  BY DEF Init, AbsentUntouched, CancelReversesOnce
<1>4. ReturnsWithinBought
  BY NothingType DEF Init, ReturnsWithinBought
<1> QED
  BY <1>1, <1>2, <1>3, <1>4 DEF IInv

\* An order once stored stays, as a row of the same quantities or recalled.
OrdersKept ==
  \A o \in Orders : order[o] # NoOrder =>
    /\ order'[o] # NoOrder
    /\ order'[o] \in OrderRow =>
         order[o] \in OrderRow /\ order'[o].quantity = order[o].quantity

\* A request that ends leaves the checks of the others.
LEMMA ChecksKept ==
  ASSUME IInv, OrdersKept, NEW r \in Requests, request' = [request EXCEPT ![r] = Idle]
  PROVE  request' \in [Requests -> RequestState] /\ RequestsChecked'
<1>1. request' \in [Requests -> RequestState]
  BY DEF IInv, TypeOK, RequestState
<1>2. \A q \in Requests : request'[q] = IF q = r THEN Idle ELSE request[q]
  BY DEF IInv, TypeOK
<1>3. ASSUME NEW q \in Requests, request[q].kind = "return"
      PROVE  request[q].id \in Orders
  BY <1>3 DEF IInv, TypeOK, RequestState, Idle
<1>4. RequestsChecked'
  BY <1>2, <1>3 DEF IInv, RequestsChecked, OrdersKept, Idle
<1> QED
  BY <1>1, <1>4

\* The same where no request changes.
LEMMA ChecksKeptIdle ==
  ASSUME IInv, OrdersKept, UNCHANGED request
  PROVE  RequestsChecked'
<1>1. ASSUME NEW q \in Requests, request[q].kind = "return"
      PROVE  request[q].id \in Orders
  BY <1>1 DEF IInv, TypeOK, RequestState, Idle
<1> QED
  BY <1>1 DEF IInv, RequestsChecked, OrdersKept

-----------------------------------------------------------------------------
(* Requests begin and are abandoned; stock moves elsewhere. *)

LEMMA RestockKeeps ==
  ASSUME IInv, NEW p \in Products, NEW change \in {-1, 1}, Restock(p, change)
  PROVE  IInv' /\ Stock!Commit
<1> DEFINE moved == [q \in Products |-> IF q = p THEN change ELSE 0]
<1>1. moved \in [Products -> Int]
  OBVIOUS
<1>2. Moves(moved) /\ UNCHANGED <<allocated, order, sold, reversed, returned, request, stale, uncounted, bypassed>>
  BY DEF Restock
<1> HIDE DEF moved
<1>3. onHand' \in [Products -> Nat] /\ ledger' \in [Products -> Int] /\ stocked' \subseteq Products
      /\ Stock!Commit
  BY <1>1, <1>2, MovesFacts DEF IInv
<1> QED
  BY <1>2, <1>3 DEF IInv, TypeOK, RequestsChecked, AbsentUntouched, CancelReversesOnce, ReturnsWithinBought

OthersUnchanged ==
  UNCHANGED <<onHand, ledger, allocated, stocked, order, sold, reversed, returned,
              stale, uncounted, bypassed>>

\* What RequestsChecked asks of one request, for the state it begins in.
Checked(next) ==
  /\ next.kind = "sell" =>
       \A p \in Products : next.quantity[p] > 0 =>
         next.available[p] >= BaseUnits(next.quantity[p], next.factor[p])
  /\ next.kind = "update" => Updatable(next.read)
  /\ next.kind = "cancel" => Cancellable(next.read)
  /\ next.kind = "return" =>
       /\ Accepts(next.read)
       /\ order[next.id] # NoOrder
       /\ order[next.id] \in OrderRow /\ ~next.repeats =>
            \A p \in Products : next.quantity[p] > 0 =>
              next.counted[p] + next.quantity[p] <= order[next.id].quantity[p]

LEMMA RequestOnly ==
  ASSUME IInv, NEW r \in Requests, NEW next \in RequestState, Checked(next),
         request' = [request EXCEPT ![r] = next], OthersUnchanged
  PROVE  IInv'
<1>1. /\ request' \in [Requests -> RequestState]
      /\ \A q \in Requests : request'[q] = IF q = r THEN next ELSE request[q]
  BY DEF IInv, TypeOK
<1>2. RequestsChecked'
  BY <1>1 DEF IInv, RequestsChecked, Checked, OthersUnchanged
<1> QED
  BY <1>1, <1>2 DEF IInv, TypeOK, OthersUnchanged, AbsentUntouched, CancelReversesOnce, ReturnsWithinBought

LEMMA BeginSellKeeps ==
  ASSUME IInv, NEW r \in Requests, NEW status \in Status, NEW quantity \in [Products -> Saleable],
         NEW factor \in [Products -> Nat \ {0}], NEW deducts \in BOOLEAN,
         BeginSell(r, status, quantity, factor, deducts)
  PROVE  IInv'
<1> DEFINE available == [p \in Products |-> onHand[p] - allocated[p]]
           next == [kind |-> "sell", status |-> status, quantity |-> quantity,
                    factor |-> factor, deducts |-> deducts, available |-> available]
<1>1. quantity \in Quantities
  BY SalesAssumption DEF Quantities
<1>2. available \in [Products -> Int] /\ \A p \in Products : available[p] = Available(p)
  BY DEF IInv, TypeOK, Available
<1>3. \A p \in Products : quantity[p] > 0 => Available(p) >= BaseUnits(quantity[p], factor[p])
  BY <1>1, InBaseUnitsType DEF BeginSell
<1>4. request' = [request EXCEPT ![r] = next] /\ OthersUnchanged
  BY DEF BeginSell, OthersUnchanged
<1> HIDE DEF available
<1>5. next \in RequestState
  BY <1>1, <1>2 DEF RequestState
<1>6. Checked(next)
  BY <1>2, <1>3 DEF Checked
<1> HIDE DEF next
<1> QED
  BY <1>4, <1>5, <1>6, RequestOnly

LEMMA BeginUpdateKeeps ==
  ASSUME IInv, NEW r \in Requests, NEW o \in Orders, NEW status \in Assignable, BeginUpdate(r, o, status)
  PROVE  IInv'
<1> DEFINE next == [kind |-> "update", id |-> o, read |-> order[o].status, next |-> status]
<1>1. next \in RequestState
  BY SalesAssumption DEF BeginUpdate, RequestState
<1>2. Checked(next)
  BY DEF BeginUpdate, Checked
<1>3. request' = [request EXCEPT ![r] = next] /\ OthersUnchanged
  BY DEF BeginUpdate, OthersUnchanged
<1> HIDE DEF next
<1> QED
  BY <1>1, <1>2, <1>3, RequestOnly

LEMMA BeginCancelKeeps ==
  ASSUME IInv, NEW r \in Requests, NEW o \in Orders, BeginCancel(r, o)
  PROVE  IInv'
<1> DEFINE next == [kind |-> "cancel", id |-> o, read |-> order[o].status]
<1>1. next \in RequestState
  BY DEF BeginCancel, RequestState
<1>2. Checked(next)
  BY DEF BeginCancel, Checked
<1>3. request' = [request EXCEPT ![r] = next] /\ OthersUnchanged
  BY DEF BeginCancel, OthersUnchanged
<1> HIDE DEF next
<1> QED
  BY <1>1, <1>2, <1>3, RequestOnly

LEMMA BeginReturnKeeps ==
  ASSUME IInv, NEW r \in Requests, NEW o \in Orders, NEW first \in [Products -> Returnable],
         NEW second \in [Products -> Returnable], NEW sellable \in SUBSET Products,
         NEW linked \in BOOLEAN, BeginReturn(r, o, first, second, sellable, linked)
  PROVE  IInv'
<1> DEFINE quantity == [p \in Products |-> first[p] + second[p]]
           named == {p \in Products : quantity[p] > 0}
           restock == [p \in Products |-> IF p \in sellable THEN quantity[p] ELSE 0]
           repeats == \E p \in named : first[p] > 0 /\ second[p] > 0
           next == [kind |-> "return", id |-> o, read |-> order[o].status,
                    counted |-> returned[o], quantity |-> quantity, restock |-> restock,
                    linked |-> linked, repeats |-> repeats]
<1>1. \A p \in Products : first[p] \in Nat /\ second[p] \in Nat
  BY SalesAssumption
<1>2. quantity \in Quantities /\ restock \in Quantities
  BY <1>1 DEF Quantities
<1>3. order[o].status \in Status /\ Accepts(order[o].status)
      /\ \A p \in named : first[p] <= MaxReturnable(o, p) /\ second[p] <= MaxReturnable(o, p)
  BY DEF BeginReturn
<1>4. order[o] \in OrderRow
  BY <1>3, AbsentRows DEF IInv, TypeOK
<1>5. returned[o] \in Quantities /\ order[o].quantity \in Quantities
  BY <1>4, AbsentRows DEF IInv, TypeOK
<1>6. ASSUME ~repeats, NEW p \in Products, quantity[p] > 0
      PROVE  returned[o][p] + quantity[p] <= order[o].quantity[p]
  <2>1. p \in named /\ quantity[p] = first[p] + second[p] /\ ~(first[p] > 0 /\ second[p] > 0)
    BY <1>6
  <2>2. first[p] <= order[o].quantity[p] - returned[o][p] /\ second[p] <= order[o].quantity[p] - returned[o][p]
    BY <1>3, <2>1 DEF MaxReturnable
  <2> QED
    BY <1>1, <1>5, <2>1, <2>2 DEF Quantities
<1>7. request' = [request EXCEPT ![r] = next] /\ OthersUnchanged
  BY DEF BeginReturn, OthersUnchanged
<1>8. repeats \in BOOLEAN
  OBVIOUS
<1> HIDE DEF quantity, restock, repeats
<1>9. next \in RequestState
  BY <1>2, <1>3, <1>5, <1>8 DEF RequestState
<1>10. Checked(next)
  BY <1>3, <1>4, <1>6, AbsentRows DEF Checked
<1> HIDE DEF next
<1> QED
  BY <1>7, <1>9, <1>10, RequestOnly

LEMMA AbandonKeeps ==
  ASSUME IInv, NEW r \in Requests, Abandon(r)
  PROVE  IInv'
<1>1. Idle \in RequestState /\ Checked(Idle)
  BY DEF RequestState, Idle, Checked
<1> QED
  BY <1>1, RequestOnly DEF Abandon, OthersUnchanged

-----------------------------------------------------------------------------
(* Requests commit. *)

\* A sale: what it deducts is what it records as sold.
LEMMA CommitSellKeeps ==
  ASSUME IInv, NEW r \in Requests, NEW o \in Orders, CommitSell(r, o)
  PROVE  /\ IInv' /\ Stock!Commit
         /\ request[r].deducts =>
              \A p \in Products :
                onHand'[p] = onHand[p] - BaseUnits(request[r].quantity[p], request[r].factor[p])
<1> DEFINE sale == request[r]
           row == Row(sale.status, sale.quantity, sale.factor)
           base == IF sale.deducts THEN InBaseUnits(sale.quantity, sale.factor) ELSE Nothing
           change == [p \in Products |-> -base[p]]
<1>1. /\ sale.status \in Status /\ sale.quantity \in Quantities
      /\ sale.factor \in [Products -> Nat \ {0}] /\ sale.deducts \in BOOLEAN
  BY DEF CommitSell, IInv, TypeOK, RequestState, Idle
<1>2. row \in OrderRow /\ row.quantity = sale.quantity
  BY <1>1, RowType
<1>3. /\ base \in Quantities
      /\ sale.deducts => \A p \in Products : base[p] = BaseUnits(sale.quantity[p], sale.factor[p])
  BY <1>1, InBaseUnitsType, NothingType
<1>4. /\ order[o] = NoOrder /\ Moves(change)
      /\ order' = [order EXCEPT ![o] = row] /\ sold' = [sold EXCEPT ![o] = base]
      /\ Bypasses(row, "NONE", sale.status)
      /\ request' = [request EXCEPT ![r] = Idle]
      /\ UNCHANGED <<allocated, reversed, returned, stale, uncounted>>
  BY DEF CommitSell
<1>5. change \in [Products -> Int] /\ \A p \in Products : base[p] \in Nat /\ change[p] = -base[p]
  <2>1. \A p \in Products : base[p] \in Nat
    BY <1>3 DEF Quantities
  <2> HIDE DEF base
  <2> QED
    BY <2>1
<1> HIDE DEF row, base, change
<1>6. /\ onHand' \in [Products -> Nat] /\ ledger' \in [Products -> Int] /\ stocked' \subseteq Products
      /\ \A p \in Products : onHand'[p] = onHand[p] + change[p]
      /\ Stock!Commit
  BY <1>4, <1>5, MovesFacts DEF IInv
<1>7. /\ order' \in [Orders -> OrderRow \cup {NoOrder, Recalled}]
      /\ order'[o] = row /\ \A q \in Orders \ {o} : order'[q] = order[q]
  BY <1>2, <1>4 DEF IInv, TypeOK
<1>8. /\ sold' \in [Orders -> Quantities]
      /\ \A q \in Orders \ {o} : sold'[q] = sold[q]
  BY <1>3, <1>4 DEF IInv, TypeOK
<1>9. bypassed' \subseteq Products
  BY <1>4 DEF Bypasses, Lines, IInv, TypeOK
<1>10. OrdersKept
  BY <1>4, <1>7 DEF OrdersKept
<1>11. request' \in [Requests -> RequestState] /\ RequestsChecked'
  BY <1>4, <1>10, ChecksKept
<1>12. TypeOK'
  BY <1>4, <1>6, <1>7, <1>8, <1>9, <1>11 DEF IInv, TypeOK
<1>13. reversed[o] = Nothing /\ returned[o] = Nothing
  BY <1>4, AbsentRows DEF IInv, AbsentUntouched
<1>14. AbsentUntouched'
  BY <1>2, <1>4, <1>7, AbsentRows DEF IInv, AbsentUntouched
<1>15. CancelReversesOnce'
  BY <1>4, <1>7, <1>8, <1>13 DEF IInv, CancelReversesOnce
<1>16. ReturnsWithinBought'
  BY <1>4, <1>7, <1>13, NothingType DEF IInv, ReturnsWithinBought
<1>17. sale.deducts => \A p \in Products : onHand'[p] = onHand[p] - base[p]
  BY <1>5, <1>6 DEF IInv, TypeOK
<1> QED
  BY <1>3, <1>6, <1>11, <1>12, <1>14, <1>15, <1>16, <1>17 DEF IInv

LEMMA SuspendKeeps ==
  ASSUME IInv, NEW o \in Orders, NEW quantity \in [Products -> Saleable], Suspend(o, quantity)
  PROVE  IInv'
<1> DEFINE row == Row("SUSPENDED", quantity, [p \in Products |-> 1])
<1>1. quantity \in Quantities
  BY SalesAssumption DEF Quantities
<1>2. row \in OrderRow
  <2>1. [p \in Products |-> 1] \in [Products -> Nat \ {0}] /\ "SUSPENDED" \in Status
    BY DEF Status
  <2> QED
    BY <1>1, <2>1, RowType
<1>3. /\ order[o] = NoOrder /\ order' = [order EXCEPT ![o] = row]
      /\ bypassed' = bypassed \cup (Lines(row) \ stocked)
      /\ UNCHANGED <<onHand, ledger, stocked, sold, reversed, returned, request, stale, uncounted>>
  BY DEF Suspend
<1>4. allocated' \in [Products -> Int]
  BY <1>1 DEF Suspend, IInv, TypeOK, Quantities
<1> HIDE DEF row
<1>5. /\ order' \in [Orders -> OrderRow \cup {NoOrder, Recalled}]
      /\ order'[o] = row /\ \A q \in Orders \ {o} : order'[q] = order[q]
  BY <1>2, <1>3 DEF IInv, TypeOK
<1>6. TypeOK'
  BY <1>3, <1>4, <1>5 DEF IInv, TypeOK, Lines
<1>7. RequestsChecked'
  BY <1>3, <1>5, ChecksKeptIdle DEF OrdersKept
<1>8. reversed[o] = Nothing /\ returned[o] = Nothing
  BY <1>3, AbsentRows DEF IInv, AbsentUntouched
<1>9. AbsentUntouched'
  BY <1>2, <1>3, <1>5, AbsentRows DEF IInv, AbsentUntouched
<1>10. CancelReversesOnce'
  BY <1>3, <1>5, <1>8 DEF IInv, CancelReversesOnce
<1>11. ReturnsWithinBought'
  BY <1>3, <1>5, <1>8, NothingType DEF IInv, ReturnsWithinBought
<1> QED
  BY <1>6, <1>7, <1>9, <1>10, <1>11 DEF IInv

LEMMA ResumeKeeps ==
  ASSUME IInv, NEW o \in Orders, Resume(o)
  PROVE  IInv'
<1>1. /\ order[o].status = "SUSPENDED" /\ returned[o] = Nothing
      /\ order' = [order EXCEPT ![o] = Recalled]
      /\ UNCHANGED <<onHand, ledger, stocked, sold, reversed, returned, request,
                     stale, uncounted, bypassed>>
  BY DEF Resume, Recallable, HasReturn
<1>2. order[o] \in OrderRow
  BY <1>1, AbsentRows DEF IInv, TypeOK, Status
<1>3. allocated' \in [Products -> Int]
  BY <1>2, AbsentRows DEF Resume, IInv, TypeOK, Quantities
<1>4. /\ order' \in [Orders -> OrderRow \cup {NoOrder, Recalled}]
      /\ order'[o] = Recalled /\ \A q \in Orders \ {o} : order'[q] = order[q]
  BY <1>1 DEF IInv, TypeOK
<1>5. TypeOK'
  BY <1>1, <1>3, <1>4 DEF IInv, TypeOK
<1>6. RequestsChecked'
  BY <1>1, <1>4, AbsentRows, ChecksKeptIdle DEF OrdersKept
<1>7. AbsentUntouched'
  BY <1>1, <1>4, AbsentRows DEF IInv, AbsentUntouched
<1>8. CancelReversesOnce'
  BY <1>1, <1>4 DEF IInv, CancelReversesOnce
<1>9. ReturnsWithinBought'
  BY <1>1, <1>4, NothingType DEF IInv, ReturnsWithinBought
<1> QED
  BY <1>5, <1>6, <1>7, <1>8, <1>9 DEF IInv

\* What Becomes leaves of an order: its status is next, its lines are as before.
LEMMA BecomesFacts ==
  ASSUME IInv, NEW o \in Orders, NEW next \in Status, Becomes(o, next)
  PROVE  /\ order[o] \in OrderRow /\ order'[o] \in OrderRow
         /\ order'[o].status = next /\ order'[o].quantity = order[o].quantity
         /\ \A q \in Orders \ {o} : order'[q] = order[q]
         /\ order' \in [Orders -> OrderRow \cup {NoOrder, Recalled}]
         /\ bypassed' \subseteq Products
         /\ OrdersKept
<1>1. order[o] \in OrderRow
  BY AbsentRows DEF Becomes, IInv, TypeOK
<1> DEFINE row == Row(next, order[o].quantity, order[o].factor)
<1>2. row \in OrderRow /\ row.status = next /\ row.quantity = order[o].quantity
  BY <1>1, AbsentRows, RowType
<1>3. order' = [order EXCEPT ![o] = row]
  BY DEF Becomes
<1> HIDE DEF row
<1>4. /\ order' \in [Orders -> OrderRow \cup {NoOrder, Recalled}]
      /\ order'[o] = row /\ \A q \in Orders \ {o} : order'[q] = order[q]
  BY <1>2, <1>3 DEF IInv, TypeOK
<1>5. bypassed' \subseteq Products
  BY DEF Becomes, Bypasses, Lines, IInv, TypeOK
<1>6. OrdersKept
  BY <1>1, <1>2, <1>4, AbsentRows DEF OrdersKept
<1> QED
  BY <1>1, <1>2, <1>4, <1>5, <1>6

LEMMA CommitUpdateKeeps ==
  ASSUME IInv, NEW r \in Requests, CommitUpdate(r)
  PROVE  IInv'
<1> DEFINE o == request[r].id
<1>1. o \in Orders /\ request[r].next \in Status /\ Updatable(request[r].read)
  BY DEF CommitUpdate, IInv, TypeOK, RequestState, Idle, RequestsChecked
<1>2. /\ Becomes(o, request[r].next) /\ request' = [request EXCEPT ![r] = Idle]
      /\ NoteStale(o, order[o].status # request[r].read)
      /\ UNCHANGED <<onHand, ledger, allocated, stocked, sold, reversed, returned, uncounted>>
  BY DEF CommitUpdate
<1> HIDE DEF o
<1>3. /\ order[o] \in OrderRow /\ order'[o] \in OrderRow
      /\ order'[o].quantity = order[o].quantity
      /\ \A q \in Orders \ {o} : order'[q] = order[q]
      /\ order' \in [Orders -> OrderRow \cup {NoOrder, Recalled}]
      /\ bypassed' \subseteq Products /\ OrdersKept
  BY <1>1, <1>2, BecomesFacts
<1>4. /\ stale' \subseteq Orders /\ stale \subseteq stale'
      /\ o \notin stale' => order[o].status \notin {"COMPLETED", "CANCELLED"}
  BY <1>1, <1>2 DEF NoteStale, Updatable, IInv, TypeOK
<1>5. request' \in [Requests -> RequestState] /\ RequestsChecked'
  BY <1>2, <1>3, ChecksKept
<1>6. TypeOK'
  BY <1>2, <1>3, <1>4, <1>5 DEF IInv, TypeOK
<1>7. AbsentUntouched'
  BY <1>2, <1>3, AbsentRows DEF IInv, AbsentUntouched
<1>8. CancelReversesOnce'
  BY <1>2, <1>3, <1>4 DEF IInv, CancelReversesOnce
<1>9. ReturnsWithinBought'
  BY <1>2, <1>3, <1>4 DEF IInv, ReturnsWithinBought
<1> QED
  BY <1>5, <1>6, <1>7, <1>8, <1>9 DEF IInv

\* A cancellation that is not superseded finds nothing put back before it.
LEMMA CommitCancelKeeps ==
  ASSUME IInv, NEW r \in Requests, CommitCancel(r)
  PROVE  IInv' /\ Stock!Commit
<1> DEFINE o == request[r].id
           base == IF request[r].read = "PROCESSING" THEN sold[o] ELSE Nothing
           sum == [p \in Products |-> reversed[o][p] + base[p]]
<1>1. o \in Orders /\ Cancellable(request[r].read)
  BY DEF CommitCancel, IInv, TypeOK, RequestState, Idle, RequestsChecked
<1>2. base \in Quantities /\ base \in {Nothing, sold[o]} /\ reversed[o] \in Quantities
  BY <1>1, NothingType DEF IInv, TypeOK
<1>3. /\ Becomes(o, "CANCELLED") /\ Moves(base)
      /\ reversed' = [reversed EXCEPT ![o] = sum]
      /\ request' = [request EXCEPT ![r] = Idle]
      /\ NoteStale(o, order[o].status # request[r].read)
      /\ UNCHANGED <<allocated, sold, returned, uncounted>>
  BY DEF CommitCancel
<1>4. /\ order[o] \in OrderRow /\ order'[o] \in OrderRow
      /\ order'[o].status = "CANCELLED" /\ order'[o].quantity = order[o].quantity
      /\ \A q \in Orders \ {o} : order'[q] = order[q]
      /\ order' \in [Orders -> OrderRow \cup {NoOrder, Recalled}]
      /\ bypassed' \subseteq Products /\ OrdersKept
  <2>1. "CANCELLED" \in Status
    BY DEF Status
  <2> QED
    BY <1>1, <1>3, <2>1, BecomesFacts
<1> HIDE DEF base
<1>5. sum \in Quantities /\ (reversed[o] = Nothing => sum = base)
  <2>1. \A p \in Products : base[p] \in Nat /\ reversed[o][p] \in Nat
    BY <1>2 DEF Quantities
  <2>2. reversed[o] = Nothing => \A p \in Products : sum[p] = base[p]
    BY <2>1, NothingType
  <2>3. sum \in Quantities
    BY <2>1 DEF Quantities
  <2> QED
    BY <1>2, <2>2, <2>3 DEF Quantities
<1> HIDE DEF o, sum
<1>6. /\ onHand' \in [Products -> Nat] /\ ledger' \in [Products -> Int] /\ stocked' \subseteq Products
      /\ Stock!Commit
  <2>1. base \in [Products -> Int]
    BY <1>2 DEF Quantities
  <2> QED
    BY <1>3, <2>1, MovesFacts DEF IInv
<1>7. /\ reversed' \in [Orders -> Quantities] /\ reversed'[o] = sum
      /\ \A q \in Orders \ {o} : reversed'[q] = reversed[q]
  BY <1>1, <1>3, <1>5 DEF IInv, TypeOK
<1>8. /\ stale' \subseteq Orders /\ stale \subseteq stale'
      /\ o \notin stale' => order[o].status # "CANCELLED"
  BY <1>1, <1>3 DEF NoteStale, Cancellable, IInv, TypeOK
<1>9. request' \in [Requests -> RequestState] /\ RequestsChecked'
  BY <1>3, <1>4, ChecksKept
<1>10. TypeOK'
  BY <1>3, <1>4, <1>6, <1>7, <1>8, <1>9 DEF IInv, TypeOK
<1>11. AbsentUntouched'
  BY <1>3, <1>4, <1>7, AbsentRows DEF IInv, AbsentUntouched
<1>12. o \notin stale' => reversed[o] = Nothing
  BY <1>1, <1>8 DEF IInv, CancelReversesOnce
<1>13. CancelReversesOnce'
  BY <1>2, <1>3, <1>4, <1>5, <1>7, <1>8, <1>12 DEF IInv, CancelReversesOnce
<1>14. ReturnsWithinBought'
  BY <1>3, <1>4, <1>8 DEF IInv, ReturnsWithinBought
<1> QED
  BY <1>6, <1>9, <1>10, <1>11, <1>13, <1>14 DEF IInv

\* A return that is not superseded adds to what it counted.
LEMMA CommitReturnKeeps ==
  ASSUME IInv, NEW r \in Requests, CommitReturn(r)
  PROVE  IInv' /\ Stock!Commit
<1> DEFINE back == request[r]  o == request[r].id
           sum == [p \in Products |-> IF back.linked THEN returned[o][p] + back.quantity[p]
                                                     ELSE returned[o][p]]
<1>1. /\ o \in Orders /\ back.quantity \in Quantities /\ back.restock \in Quantities
      /\ back.linked \in BOOLEAN /\ back.repeats \in BOOLEAN /\ back.counted \in Quantities
  BY DEF CommitReturn, IInv, TypeOK, RequestState, Idle
<1>2. /\ order[o].status \in Status /\ Moves(back.restock)
      /\ returned' = [returned EXCEPT ![o] = sum]
      /\ request' = [request EXCEPT ![r] = Idle]
      /\ NoteStale(o, order[o].status # back.read \/ returned[o] # back.counted)
      /\ uncounted' = IF back.linked /\ ~ back.repeats THEN uncounted ELSE uncounted \cup {o}
      /\ UNCHANGED <<allocated, order, sold, reversed, bypassed>>
  BY DEF CommitReturn
<1>3. order[o] \in OrderRow /\ order[o] # NoOrder
  BY <1>1, <1>2, AbsentRows DEF IInv, TypeOK
<1>4. \A p \in Products : /\ returned[o][p] \in Nat /\ back.quantity[p] \in Nat
                          /\ order[o].quantity[p] \in Nat
  BY <1>1, <1>3, AbsentRows DEF IInv, TypeOK, Quantities
<1>5. sum \in Quantities
  BY <1>4 DEF Quantities
<1>6. ASSUME back.linked, ~back.repeats, returned[o] = back.counted, NEW p \in Products, back.quantity[p] > 0
      PROVE  sum[p] <= order[o].quantity[p]
  BY <1>3, <1>6 DEF CommitReturn, IInv, RequestsChecked
<1>7. ASSUME back.linked, NEW p \in Products, ~(back.quantity[p] > 0)
      PROVE  sum[p] = returned[o][p]
  BY <1>4, <1>7
<1> HIDE DEF sum
<1>8. /\ onHand' \in [Products -> Nat] /\ ledger' \in [Products -> Int] /\ stocked' \subseteq Products
      /\ Stock!Commit
  <2>1. back.restock \in [Products -> Int]
    BY <1>1 DEF Quantities
  <2> QED
    BY <1>2, <2>1, MovesFacts DEF IInv
<1>9. /\ returned' \in [Orders -> Quantities] /\ returned'[o] = sum
      /\ \A q \in Orders \ {o} : returned'[q] = returned[q]
  BY <1>1, <1>2, <1>5 DEF IInv, TypeOK
<1>10. /\ stale' \subseteq Orders /\ stale \subseteq stale'
       /\ o \notin stale' => returned[o] = back.counted
  BY <1>1, <1>2 DEF NoteStale, IInv, TypeOK
<1>11. OrdersKept
  BY <1>2 DEF OrdersKept
<1>12. request' \in [Requests -> RequestState] /\ RequestsChecked'
  BY <1>2, <1>11, ChecksKept
<1>13. TypeOK'
  BY <1>1, <1>2, <1>8, <1>9, <1>10, <1>12 DEF IInv, TypeOK
<1>14. AbsentUntouched'
  BY <1>2, <1>3, <1>9 DEF IInv, AbsentUntouched
<1>15. CancelReversesOnce'
  BY <1>2, <1>10 DEF IInv, CancelReversesOnce
<1>16. ReturnsWithinBought'
  <2> SUFFICES ASSUME NEW q \in Orders \ (stale' \cup uncounted'), NEW p \in Products, returned'[q][p] > 0
               PROVE  returned'[q][p] <= order[q].quantity[p]
    BY <1>2 DEF ReturnsWithinBought
  <2>1. q \notin stale /\ q \notin uncounted
    BY <1>2, <1>10
  <2>2. CASE q = o
    <3>1. back.linked /\ ~back.repeats
      BY <1>2, <2>2
    <3> QED
      BY <1>6, <1>7, <1>9, <1>10, <2>1, <2>2, <3>1 DEF IInv, ReturnsWithinBought
  <2>3. CASE q # o
    BY <1>9, <2>1, <2>3 DEF IInv, ReturnsWithinBought
  <2> QED
    BY <2>2, <2>3
<1> QED
  BY <1>8, <1>12, <1>13, <1>14, <1>15, <1>16 DEF IInv

-----------------------------------------------------------------------------
(* The theorems. *)

LEMMA StepKeeps ==
  ASSUME IInv, [Next]_vars
  PROVE  IInv'
<1>1. CASE \E p \in Products, change \in {-1, 1} : Restock(p, change)
  BY <1>1, RestockKeeps
<1>2. ASSUME NEW r \in Requests, NEW quantity \in [Products -> Saleable], BeginCheckout(r, quantity)
      PROVE  IInv'
  <2>1. [p \in Products |-> 1] \in [Products -> Nat \ {0}] /\ "COMPLETED" \in Status
    BY DEF Status
  <2> QED
    BY <1>2, <2>1, BeginSellKeeps DEF BeginCheckout
<1>3. ASSUME NEW r \in Requests, NEW status \in Assignable, NEW quantity \in [Products -> Saleable],
             NEW factor \in [Products -> Factors], BeginCreate(r, status, quantity, factor)
      PROVE  IInv'
  <2>1. factor \in [Products -> Nat \ {0}] /\ status \in Status /\ Deducts(status) \in BOOLEAN
    BY SalesAssumption DEF Deducts
  <2> QED
    BY <1>3, <2>1, BeginSellKeeps DEF BeginCreate
<1>4. Busy \subseteq Orders
  BY SalesAssumption
<1>5. CASE \E r \in Requests, o \in Busy : CommitSell(r, o)
  BY <1>4, <1>5, CommitSellKeeps
<1>6. CASE \E o \in Orders, quantity \in [Products -> Saleable] : Suspend(o, quantity)
  BY <1>6, SuspendKeeps
<1>7. CASE \E o \in Orders : Resume(o)
  BY <1>7, ResumeKeeps
<1>8. CASE \E r \in Requests, o \in Busy, next \in Assignable : BeginUpdate(r, o, next)
  BY <1>4, <1>8, BeginUpdateKeeps
<1>9. CASE \E r \in Requests, o \in Busy : BeginCancel(r, o)
  BY <1>4, <1>9, BeginCancelKeeps
<1>10. CASE \E r \in Requests, o \in Busy, first, second \in [Products -> Returnable],
               sellable \in SUBSET Products, linked \in BOOLEAN :
              BeginReturn(r, o, first, second, sellable, linked)
  BY <1>4, <1>10, BeginReturnKeeps
<1>11. CASE \E r \in Requests : CommitUpdate(r) \/ CommitCancel(r) \/ CommitReturn(r) \/ Abandon(r)
  BY <1>11, CommitUpdateKeeps, CommitCancelKeeps, CommitReturnKeeps, AbandonKeeps
<1>12. CASE UNCHANGED vars
  BY <1>12 DEF vars, IInv, TypeOK, RequestsChecked, AbsentUntouched, CancelReversesOnce, ReturnsWithinBought
<1> QED
  BY <1>1, <1>2, <1>3, <1>5, <1>6, <1>7, <1>8, <1>9, <1>10, <1>11, <1>12 DEF Next

LEMMA Inductive == Spec => []IInv
<1>1. Init => IInv
  BY InitFacts
<1>2. IInv /\ [Next]_vars => IInv'
  BY StepKeeps
<1> QED
  BY <1>1, <1>2, PTL DEF Spec

\* Stock, orders, reservations and the requests in flight have their types.
THEOREM TypeCorrect == Spec => []TypeOK
BY Inductive, PTL DEF IInv

\* A cancellation puts back all the order took or nothing, at most once, and
\* only for an order that is CANCELLED, unless a request wrote the order on a
\* superseded read.
THEOREM CancelAlwaysReversesOnce == Spec => []CancelReversesOnce
BY Inductive, PTL DEF IInv

\* No line is returned beyond what was bought, unless a request wrote the order
\* on a superseded read, or a payload named a line twice or not at all.
THEOREM ReturnsAlwaysWithinBought == Spec => []ReturnsWithinBought
BY Inductive, PTL DEF IInv

\* A request that begins or is abandoned writes no table.
NoTableWritten ==
  UNCHANGED <<onHand, ledger, allocated, stocked, order, returned, reversed, bypassed>>

\* The steps that write tables.
LEMMA WritingSteps ==
  ASSUME Next
  PROVE  \/ \E p \in Products, change \in {-1, 1} : Restock(p, change)
         \/ \E r \in Requests, o \in Orders : CommitSell(r, o)
         \/ \E o \in Orders, quantity \in [Products -> Saleable] : Suspend(o, quantity)
         \/ \E o \in Orders : Resume(o)
         \/ \E r \in Requests : CommitUpdate(r) \/ CommitCancel(r) \/ CommitReturn(r)
         \/ NoTableWritten
<1>1. ASSUME NEW r, NEW status, NEW quantity, NEW factor, NEW deducts,
             BeginSell(r, status, quantity, factor, deducts)
      PROVE  NoTableWritten
  BY <1>1 DEF BeginSell, NoTableWritten
<1>2. ASSUME NEW r, NEW quantity, BeginCheckout(r, quantity)
      PROVE  NoTableWritten
  BY <1>1, <1>2 DEF BeginCheckout
<1>3. ASSUME NEW r, NEW status, NEW quantity, NEW factor, BeginCreate(r, status, quantity, factor)
      PROVE  NoTableWritten
  BY <1>1, <1>3 DEF BeginCreate
<1>4. ASSUME NEW r, NEW o, NEW next, BeginUpdate(r, o, next) \/ BeginCancel(r, o) \/ Abandon(r)
      PROVE  NoTableWritten
  BY <1>4 DEF BeginUpdate, BeginCancel, Abandon, NoTableWritten
<1>5. ASSUME NEW r, NEW o, NEW first, NEW second, NEW sellable, NEW linked,
             BeginReturn(r, o, first, second, sellable, linked)
      PROVE  NoTableWritten
  BY <1>5 DEF BeginReturn, NoTableWritten
<1>6. Busy \subseteq Orders
  BY SalesAssumption
<1> QED
  BY <1>2, <1>3, <1>4, <1>5, <1>6 DEF Next

\* What a step may do to an order that is settled, by a request that read its
\* latest status.
LEMMA SettledStep ==
  ASSUME IInv, Next, NEW o \in Orders, o \notin stale', order[o].status \in {"COMPLETED", "CANCELLED"}
  PROVE  /\ order'[o] = order[o]
         /\ order[o].status = "CANCELLED" => returned'[o] = returned[o] /\ reversed'[o] = reversed[o]
<1>1. ASSUME NEW r \in Requests, NEW q \in Orders, CommitSell(r, q)
      PROVE  q # o /\ order'[o] = order[o] /\ UNCHANGED <<returned, reversed>>
  BY <1>1 DEF CommitSell, IInv, TypeOK, NoOrder
<1>2. ASSUME NEW q \in Orders, NEW quantity \in [Products -> Saleable], Suspend(q, quantity)
      PROVE  q # o /\ order'[o] = order[o] /\ UNCHANGED <<returned, reversed>>
  BY <1>2 DEF Suspend, IInv, TypeOK, NoOrder
<1>3. ASSUME NEW q \in Orders, Resume(q)
      PROVE  q # o /\ order'[o] = order[o] /\ UNCHANGED <<returned, reversed>>
  BY <1>3 DEF Resume, Recallable, IInv, TypeOK
<1>4. ASSUME NEW r \in Requests, CommitUpdate(r)
      PROVE  order'[o] = order[o] /\ UNCHANGED <<returned, reversed>>
  <2>1. Updatable(request[r].read)
    BY <1>4 DEF CommitUpdate, IInv, RequestsChecked
  <2>2. request[r].id # o
    BY <1>4, <2>1 DEF CommitUpdate, NoteStale, Updatable
  <2> QED
    BY <1>4, <2>2 DEF CommitUpdate, Becomes, IInv, TypeOK
<1>5. ASSUME NEW r \in Requests, CommitCancel(r)
      PROVE  order'[o] = order[o] /\ returned'[o] = returned[o] /\ reversed'[o] = reversed[o]
  <2>1. Cancellable(request[r].read)
    BY <1>5 DEF CommitCancel, IInv, RequestsChecked
  <2>2. request[r].id # o
    BY <1>5, <2>1 DEF CommitCancel, NoteStale, Cancellable
  <2> QED
    BY <1>5, <2>2 DEF CommitCancel, Becomes, IInv, TypeOK
<1>6. ASSUME NEW r \in Requests, CommitReturn(r)
      PROVE  /\ order'[o] = order[o] /\ reversed'[o] = reversed[o]
             /\ order[o].status = "CANCELLED" => returned'[o] = returned[o]
  <2>1. Accepts(request[r].read)
    BY <1>6 DEF CommitReturn, IInv, RequestsChecked
  <2>2. order[o].status = "CANCELLED" => request[r].id # o
    BY <1>6, <2>1 DEF CommitReturn, NoteStale, Accepts
  <2> QED
    BY <1>6, <2>2 DEF CommitReturn, IInv, TypeOK
<1>7. ASSUME NEW p \in Products, NEW change \in {-1, 1}, Restock(p, change)
      PROVE  UNCHANGED <<order, returned, reversed>>
  BY <1>7 DEF Restock
<1> QED
  BY <1>1, <1>2, <1>3, <1>4, <1>5, <1>6, <1>7, WritingSteps DEF NoTableWritten

\* A COMPLETED order keeps its status for good, and a CANCELLED one is neither
\* reopened, nor restocked again, nor returned, by a request that read its
\* latest status.
THEOREM SettledStaysFinal == Spec => SettledIsFinal
<1>1. IInv /\ [Next]_vars =>
        [\A o \in Orders \ stale' :
           /\ order[o].status \in {"COMPLETED", "CANCELLED"} => order'[o] = order[o]
           /\ order[o].status = "CANCELLED" =>
                returned'[o] = returned[o] /\ reversed'[o] = reversed[o]]_vars
  BY SettledStep DEF vars
<1> QED
  BY <1>1, Inductive, PTL DEF Spec, SettledIsFinal

\* A sale leaves what suspended carts have reserved of its products on hand,
\* unless stock was taken between its check and its commit.
THEOREM SalesAlwaysLeaveReservations == Spec => SalesLeaveReservations
<1>1. IInv /\ [Next]_vars =>
        [\A r \in Requests :
           /\ request[r].kind = "sell" /\ request[r].deducts
           /\ request'[r] = Idle /\ onHand' # onHand
           /\ \A p \in Products : onHand[p] - allocated[p] >= request[r].available[p]
           => \A p \in Products :
                request[r].quantity[p] > 0 => onHand'[p] >= allocated'[p]]_vars
  <2> SUFFICES ASSUME IInv, Next, NEW r \in Requests,
                      request[r].kind = "sell", request[r].deducts,
                      request'[r] = Idle, onHand' # onHand,
                      \A p \in Products : onHand[p] - allocated[p] >= request[r].available[p],
                      NEW p \in Products, request[r].quantity[p] > 0
               PROVE  onHand'[p] >= allocated'[p]
    BY DEF vars
  <2>1. request[r] # Idle
    BY DEF Idle
  <2>2. PICK o \in Orders : CommitSell(r, o)
    <3>1. ASSUME NEW q \in Requests, request' = [request EXCEPT ![q] = Idle]
          PROVE  q = r
      BY <2>1, <3>1 DEF IInv, TypeOK
    <3>2. ASSUME NEW q \in Requests, CommitCancel(q) \/ CommitReturn(q)
          PROVE  FALSE
      BY <3>1, <3>2 DEF CommitCancel, CommitReturn
    <3>3. ASSUME NEW q \in Requests, NEW o \in Orders, CommitSell(q, o)
          PROVE  CommitSell(r, o)
      BY <3>1, <3>3 DEF CommitSell
    <3>4. ASSUME NEW q \in Products, NEW change \in {-1, 1}, Restock(q, change)
          PROVE  FALSE
      BY <2>1, <3>4 DEF Restock
    <3> QED
      BY <3>2, <3>3, <3>4, WritingSteps DEF Suspend, Resume, CommitUpdate, NoTableWritten
  <2>3. onHand'[p] = onHand[p] - BaseUnits(request[r].quantity[p], request[r].factor[p])
    BY <2>2, CommitSellKeeps
  <2>4. request[r].available[p] >= BaseUnits(request[r].quantity[p], request[r].factor[p])
    BY DEF IInv, RequestsChecked
  <2>5. /\ request[r].available[p] \in Int
        /\ BaseUnits(request[r].quantity[p], request[r].factor[p]) \in Nat
    <3>1. /\ request[r].available \in [Products -> Int] /\ request[r].quantity \in [Products -> Nat]
          /\ request[r].factor \in [Products -> Nat \ {0}]
      BY <2>1 DEF IInv, TypeOK, RequestState, Quantities
    <3> QED
      BY <3>1, BaseUnitsType
  <2>6. allocated'[p] = allocated[p]
    BY <2>2 DEF CommitSell
  <2> QED
    BY <2>3, <2>4, <2>5, <2>6 DEF IInv, TypeOK
<1> QED
  BY <1>1, Inductive, PTL DEF Spec, SalesLeaveReservations

-----------------------------------------------------------------------------
(* Reservations. What the suspended carts hold of a product is written as  *)
(* a sum over all orders; a step changes it by what it does to one order.  *)

Holds(row, p) == IF row.status = "SUSPENDED" THEN row.quantity[p] ELSE 0

Held(p) == [o \in Orders |-> Holds(order[o], p)]

\* A cart reserves through the product's stock row, which is never deleted, so
\* the row that took the reservation is there to give it back.
CartsAreStocked ==
  \A o \in Orders : order[o].status = "SUSPENDED" =>
    \A p \in Products \ bypassed : order[o].quantity[p] > 0 => p \in stocked

ReservedInv ==
  /\ CartsAreStocked
  /\ \A p \in Products \ bypassed : allocated[p] = StockFacts!SumOf(Held(p), Orders)

LEMMA FiniteOrders == StockFacts!IsFiniteSet(Orders)
BY SalesAssumption DEF IsFiniteSet, StockFacts!IsFiniteSet

LEMMA SuspendedAreRows ==
  ASSUME TypeOK, NEW o \in Orders, order[o].status = "SUSPENDED"
  PROVE  order[o] \in OrderRow /\ \A p \in Products : order[o].quantity[p] \in Nat
BY AbsentRows DEF TypeOK, Status, Quantities

LEMMA HeldType ==
  ASSUME TypeOK, NEW p \in Products
  PROVE  \A o \in Orders : Held(p)[o] \in Nat
BY SuspendedAreRows DEF Held, Holds

\* The sum in ReservedWhileSuspended, over the suspended orders alone.
LEMMA HeldIsReserved ==
  ASSUME TypeOK, NEW p \in Products
  PROVE  MapThenSumSet(LAMBDA o : order[o].quantity[p],
                       {o \in Orders : order[o].status = "SUSPENDED"})
           = StockFacts!SumOf(Held(p), Orders)
<1>. DEFINE S == {o \in Orders : order[o].status = "SUSPENDED"}
            f == [o \in Orders |-> order[o].quantity[p]]
<1>1. StockFacts!IsFiniteSet(S)
  BY FiniteOrders, StockFacts!FS_Subset
<1>2. StockFacts!SumOf(f, S) = StockFacts!SumOf(Held(p), Orders)
  <2>1. \A o \in S : f[o] \in Nat
    BY SuspendedAreRows
  <2>2. \A o \in Orders : Held(p)[o] = IF o \in S THEN f[o] ELSE 0
    BY DEF Held, Holds
  <2>. HIDE DEF f
  <2>. QED
    BY FiniteOrders, <2>1, <2>2, StockFacts!SumFilter
<1>3. PICK g : StockFacts!IsSum(g, f, SUBSET S)
               /\ \A s \in SUBSET S : StockFacts!SumOf(f, s) = g[s]
  BY <1>1, StockFacts!SumGraph
<1>. DEFINE Adds(h) == h = [s \in SUBSET S |->
                             IF s = {} THEN 0
                             ELSE LET x == CHOOSE x \in s : TRUE
                                  IN  order[x].quantity[p] + h[s \ {x}]]
<1>4. \A h : Adds(h) <=> StockFacts!IsSum(h, f, SUBSET S)
  <2>1. ASSUME NEW s \in SUBSET S, s # {}
        PROVE  f[StockFacts!AnyOf(s)] = order[CHOOSE x \in s : TRUE].quantity[p]
    <3>1. StockFacts!AnyOf(s) \in Orders
      BY <2>1 DEF StockFacts!AnyOf
    <3>. QED
      BY <3>1 DEF StockFacts!AnyOf
  <2>. HIDE DEF f, S
  <2>. QED
    BY <2>1 DEF StockFacts!IsSum, StockFacts!AnyOf
<1>5. Adds(CHOOSE h : Adds(h))
  BY <1>3, <1>4
<1>6. MapThenSumSet(LAMBDA o : order[o].quantity[p], S) = (CHOOSE h : Adds(h))[S]
  <2>. HIDE DEF S
  <2>. QED
    BY DEF MapThenSumSet, MapThenFoldSet
<1>7. StockFacts!IsSum(CHOOSE h : Adds(h), f, SUBSET S)
  BY <1>4, <1>5
<1>. HIDE DEF f, Adds
<1>8. (CHOOSE h : Adds(h))[S] = StockFacts!SumOf(f, S)
  BY <1>1, <1>7, StockFacts!SumUnique
<1>. QED
  BY <1>2, <1>6, <1>8

\* A step that writes one order keeps the reservations if it moves what is
\* allocated by what that order holds more or less.
LEMMA OneOrderKeepsReserved ==
  ASSUME TypeOK, TypeOK', ReservedInv, NEW o \in Orders,
         \A q \in Orders \ {o} : order'[q] = order[q],
         stocked \subseteq stocked', bypassed \subseteq bypassed',
         \A p \in Products \ bypassed' :
           /\ allocated'[p] = allocated[p] - Holds(order[o], p) + Holds(order'[o], p)
           /\ Holds(order'[o], p) > 0 => p \in stocked'
  PROVE  ReservedInv'
<1>1. CartsAreStocked'
  BY DEF ReservedInv, CartsAreStocked, Holds
<1>2. ASSUME NEW p \in Products \ bypassed'
      PROVE  allocated'[p] = StockFacts!SumOf(Held(p)', Orders)
  <2>. DEFINE f == Held(p)
              h == Held(p)'
  <2>1. \A q \in Orders : f[q] \in Nat
    BY HeldType
  <2>2. \A q \in Orders : h[q] \in Nat
    <3>1. ASSUME NEW q \in Orders, order'[q].status = "SUSPENDED"
          PROVE  order'[q].quantity[p] \in Nat
      <4>1. order'[q] \in OrderRow
        BY <3>1, AbsentRows DEF TypeOK, Status
      <4>. QED
        BY <4>1, AbsentRows DEF Quantities
    <3>. QED
      BY <3>1 DEF Held, Holds
  <2>3. /\ f[o] = Holds(order[o], p) /\ h[o] = Holds(order'[o], p)
        /\ \A q \in Orders \ {o} : h[q] = f[q]
    BY DEF Held
  <2>. HIDE DEF f, h
  <2>4. StockFacts!SumOf(h, Orders) = StockFacts!SumOf(f, Orders) - f[o] + h[o]
    BY FiniteOrders, <2>1, <2>2, <2>3, StockFacts!SumUpdate
  <2>5. allocated[p] = StockFacts!SumOf(f, Orders)
    BY DEF ReservedInv, f
  <2>6. StockFacts!SumOf(h, Orders) = allocated'[p]
    BY <2>3, <2>4, <2>5
  <2>. QED
    BY <2>6 DEF h
<1>. QED
  BY <1>1, <1>2 DEF ReservedInv

\* A step that writes no order, and takes no product out of stock.
LEMMA NoOrderKeepsReserved ==
  ASSUME ReservedInv, UNCHANGED <<order, allocated, bypassed>>, stocked \subseteq stocked'
  PROVE  ReservedInv'
<1>1. \A p : Held(p)' = Held(p)
  BY DEF Held
<1>. QED
  BY <1>1 DEF ReservedInv, CartsAreStocked

LEMMA SuspendKeepsReserved ==
  ASSUME IInv, TypeOK', ReservedInv, NEW o \in Orders,
         NEW quantity \in [Products -> Saleable], Suspend(o, quantity)
  PROVE  ReservedInv'
<1>. DEFINE row == Row("SUSPENDED", quantity, [p \in Products |-> 1])
<1>1. \A p \in Products : quantity[p] \in Nat
  BY SalesAssumption
<1>2. /\ \A q \in Orders \ {o} : order'[q] = order[q]
      /\ order'[o] = row /\ stocked' = stocked
      /\ bypassed' = bypassed \cup (Lines(row) \ stocked)
  BY DEF Suspend, Holds, NoOrder, IInv, TypeOK
<1>3. row.status = "SUSPENDED" /\ row.quantity = quantity
  BY DEF Row
<1>. HIDE DEF row
<1>4. \A p \in Products : Holds(order[o], p) = 0 /\ Holds(order'[o], p) = quantity[p]
  BY <1>2, <1>3 DEF Suspend, Holds, NoOrder
<1>5. ASSUME NEW p \in Products \ bypassed'
      PROVE  /\ allocated'[p] = allocated[p] - Holds(order[o], p) + Holds(order'[o], p)
             /\ Holds(order'[o], p) > 0 => p \in stocked'
  <2>1. p \in stocked \/ quantity[p] = 0
    BY <1>1, <1>2, <1>3 DEF Lines
  <2>2. allocated'[p] = IF p \in stocked THEN allocated[p] + quantity[p] ELSE allocated[p]
    BY DEF Suspend
  <2>3. allocated[p] \in Int
    BY DEF IInv, TypeOK
  <2>. QED
    BY <1>1, <1>2, <1>4, <2>1, <2>2, <2>3
<1>. QED
  BY <1>2, <1>5, OneOrderKeepsReserved DEF IInv

LEMMA ResumeKeepsReserved ==
  ASSUME IInv, TypeOK', ReservedInv, NEW o \in Orders, Resume(o)
  PROVE  ReservedInv'
<1>1. /\ order[o].status = "SUSPENDED"
      /\ order'[o] = Recalled
      /\ \A q \in Orders \ {o} : order'[q] = order[q]
      /\ stocked' = stocked /\ bypassed' = bypassed
  BY DEF Resume, Recallable, IInv, TypeOK
<1>2. \A p \in Products : /\ order[o].quantity[p] \in Nat
                          /\ Holds(order[o], p) = order[o].quantity[p]
                          /\ Holds(order'[o], p) = 0
  BY <1>1, SuspendedAreRows DEF Holds, Recalled, IInv
<1>3. ASSUME NEW p \in Products \ bypassed'
      PROVE  /\ allocated'[p] = allocated[p] - Holds(order[o], p) + Holds(order'[o], p)
             /\ Holds(order'[o], p) > 0 => p \in stocked'
  <2>1. p \in stocked \/ order[o].quantity[p] = 0
    BY <1>1, <1>2 DEF ReservedInv, CartsAreStocked
  <2>2. allocated'[p] = IF p \in stocked THEN allocated[p] - order[o].quantity[p] ELSE allocated[p]
    BY DEF Resume
  <2>3. allocated[p] \in Int
    BY DEF IInv, TypeOK
  <2>. QED
    BY <1>2, <2>1, <2>2, <2>3
<1>. QED
  BY <1>1, <1>3, OneOrderKeepsReserved DEF IInv

\* A change of status is without effect on what an order holds, or its products
\* are marked as bypassed.
LEMMA BypassedOrSame ==
  ASSUME TypeOK, NEW row \in OrderRow, NEW from, NEW to, NEW p \in Products,
         Bypasses(row, from, to), p \notin bypassed'
  PROVE  (from = "SUSPENDED" <=> to = "SUSPENDED") \/ row.quantity[p] = 0
<1>1. row.quantity[p] \in Nat
  BY AbsentRows DEF Quantities
<1>. QED
  BY <1>1 DEF Bypasses, Lines

LEMMA BecomesKeepsReserved ==
  ASSUME IInv, TypeOK', ReservedInv, NEW o \in Orders, NEW next \in Status, Becomes(o, next),
         UNCHANGED allocated, stocked \subseteq stocked'
  PROVE  ReservedInv'
<1>1. /\ order[o] \in OrderRow
      /\ order'[o].status = next /\ order'[o].quantity = order[o].quantity
      /\ \A q \in Orders \ {o} : order'[q] = order[q]
  BY BecomesFacts
<1>2. bypassed \subseteq bypassed' /\ Bypasses(order[o], order[o].status, next)
  BY DEF Becomes, Bypasses
<1>3. ASSUME NEW p \in Products \ bypassed'
      PROVE  /\ allocated'[p] = allocated[p] - Holds(order[o], p) + Holds(order'[o], p)
             /\ Holds(order'[o], p) > 0 => p \in stocked'
  <2>1. (order[o].status = "SUSPENDED" <=> next = "SUSPENDED") \/ order[o].quantity[p] = 0
    BY <1>1, <1>2, BypassedOrSame DEF IInv
  <2>2. Holds(order'[o], p) = Holds(order[o], p)
    BY <1>1, <2>1 DEF Holds
  <2>3. Holds(order[o], p) > 0 => p \in stocked
    BY <1>2 DEF Holds, ReservedInv, CartsAreStocked
  <2>4. Holds(order[o], p) \in Nat /\ allocated[p] \in Int /\ allocated' = allocated
    BY SuspendedAreRows DEF Holds, IInv, TypeOK
  <2>. QED
    BY <2>2, <2>3, <2>4
<1>. QED
  BY <1>1, <1>2, <1>3, OneOrderKeepsReserved DEF IInv

LEMMA CommitSellKeepsReserved ==
  ASSUME IInv, TypeOK', ReservedInv, NEW r \in Requests, NEW o \in Orders, CommitSell(r, o)
  PROVE  ReservedInv'
<1>. DEFINE sale == request[r]
            row  == Row(sale.status, sale.quantity, sale.factor)
<1>1. /\ sale.status \in Status /\ sale.quantity \in Quantities
      /\ sale.factor \in [Products -> Nat \ {0}]
  BY DEF CommitSell, IInv, TypeOK, RequestState, Idle
<1>2. row \in OrderRow /\ row.status = sale.status
  BY <1>1, RowType
<1>3. /\ order[o] = NoOrder /\ order'[o] = row
      /\ \A q \in Orders \ {o} : order'[q] = order[q]
      /\ allocated' = allocated
      /\ stocked \subseteq stocked' /\ bypassed \subseteq bypassed'
      /\ Bypasses(row, "NONE", sale.status)
  BY DEF CommitSell, Moves, Bypasses, IInv, TypeOK
<1>. HIDE DEF row
<1>4. ASSUME NEW p \in Products \ bypassed'
      PROVE  /\ allocated'[p] = allocated[p] - Holds(order[o], p) + Holds(order'[o], p)
             /\ Holds(order'[o], p) > 0 => p \in stocked'
  <2>1. Holds(order[o], p) = 0
    BY <1>3 DEF Holds, NoOrder
  <2>2. sale.status # "SUSPENDED" \/ row.quantity[p] = 0
    BY <1>2, <1>3, BypassedOrSame DEF IInv
  <2>3. Holds(order'[o], p) = 0
    BY <1>2, <1>3, <2>2 DEF Holds
  <2>4. allocated[p] \in Int
    BY DEF IInv, TypeOK
  <2>. QED
    BY <1>3, <2>1, <2>3, <2>4
<1>. QED
  BY <1>3, <1>4, OneOrderKeepsReserved DEF IInv

\* Whatever interleaves, a product is allocated exactly what the suspended carts
\* hold of it: no cart reserves or releases twice, however many are suspended
\* and recalled, as long as nothing else makes or ends a SUSPENDED order.
THEOREM AlwaysReservedWhileSuspended == Spec => []ReservedWhileSuspended
<1>1. Init => ReservedInv
  <2>. SUFFICES ASSUME Init PROVE ReservedInv
    OBVIOUS
  <2>1. CartsAreStocked
    BY DEF Init, CartsAreStocked, NoOrder
  <2>2. ASSUME NEW p \in Products PROVE allocated[p] = StockFacts!SumOf(Held(p), Orders)
    <3>1. \A o \in Orders : Held(p)[o] = 0
      BY DEF Init, Held, Holds, NoOrder
    <3>2. StockFacts!SumOf(Held(p), Orders) = 0
      BY <3>1, FiniteOrders, StockFacts!SumOfZeros
    <3>. QED
      BY <3>2 DEF Init, Nothing
  <2>. QED
    BY <2>1, <2>2 DEF ReservedInv
<1>2. IInv /\ ReservedInv /\ [Next]_vars => ReservedInv'
  <2>. SUFFICES ASSUME IInv, ReservedInv, [Next]_vars PROVE ReservedInv'
    OBVIOUS
  <2>1. TypeOK'
    BY StepKeeps DEF IInv
  <2>2. CASE UNCHANGED <<order, allocated, bypassed, stocked>>
    BY <2>2, NoOrderKeepsReserved
  <2>3. ASSUME NEW p \in Products, NEW change \in {-1, 1}, Restock(p, change)
        PROVE  ReservedInv'
    BY <2>3, NoOrderKeepsReserved DEF Restock, Moves
  <2>4. ASSUME NEW r \in Requests, CommitReturn(r)
        PROVE  ReservedInv'
    BY <2>4, NoOrderKeepsReserved DEF CommitReturn, Moves
  <2>5. ASSUME NEW r \in Requests, CommitUpdate(r)
        PROVE  ReservedInv'
    <3>1. request[r].id \in Orders /\ request[r].next \in Status
      BY <2>5 DEF CommitUpdate, IInv, TypeOK, RequestState, Idle
    <3>. QED
      BY <2>1, <2>5, <3>1, BecomesKeepsReserved DEF CommitUpdate
  <2>6. ASSUME NEW r \in Requests, CommitCancel(r)
        PROVE  ReservedInv'
    <3>1. request[r].id \in Orders /\ "CANCELLED" \in Status
      BY <2>6 DEF CommitCancel, IInv, TypeOK, RequestState, Idle, Status
    <3>. QED
      BY <2>1, <2>6, <3>1, BecomesKeepsReserved DEF CommitCancel, Moves
  <2>. QED
    BY <2>1, <2>2, <2>3, <2>4, <2>5, <2>6, WritingSteps, SuspendKeepsReserved,
       ResumeKeepsReserved, CommitSellKeepsReserved DEF vars, NoTableWritten
<1>3. IInv /\ ReservedInv => ReservedWhileSuspended
  BY HeldIsReserved DEF IInv, ReservedInv, ReservedWhileSuspended
<1>. QED
  BY <1>1, <1>2, <1>3, Inductive, PTL DEF Spec

-----------------------------------------------------------------------------
(* Stock. *)

\* Sales, suspended carts, cancellations and returns keep the stock promise:
\* Sales implements StockLedger, with the same onHand and ledger.
THEOREM KeepsStockPromise == Spec => StockPromise
<1>1. Init => Stock!Init
  BY DEF Init
<1>2. IInv /\ [Next]_vars => [Stock!Commit]_<<onHand, ledger>>
  <2> SUFFICES ASSUME IInv, Next
               PROVE  Stock!Commit \/ UNCHANGED <<onHand, ledger>>
    BY DEF vars
  <2>1. ASSUME NEW r \in Requests, CommitCancel(r) \/ CommitReturn(r)
        PROVE  Stock!Commit
    BY <2>1, CommitCancelKeeps, CommitReturnKeeps
  <2>2. ASSUME NEW r \in Requests, NEW o \in Orders, CommitSell(r, o)
        PROVE  Stock!Commit
    BY <2>2, CommitSellKeeps
  <2>3. ASSUME NEW p \in Products, NEW change \in {-1, 1}, Restock(p, change)
        PROVE  Stock!Commit
    BY <2>3, RestockKeeps
  <2> QED
    BY <2>1, <2>2, <2>3, WritingSteps DEF Suspend, Resume, CommitUpdate, NoTableWritten
<1> QED
  BY <1>1, <1>2, Inductive, PTL DEF Spec, StockPromise, Stock!Spec, Stock!stockVars

\* So selling, cancelling and returning never take a stock position below zero
\* nor out of balance with its movements.
THEOREM SalesKeepStockSafe == Spec => [](Stock!NonNegative /\ Stock!Balanced)
<1>1. StockPromise => [](Stock!NonNegative /\ Stock!Balanced)
  BY StockFacts!PromiseMeansSafe
     DEF StockPromise, StockFacts!Spec, StockFacts!Init, StockFacts!Commit,
         StockFacts!stockVars, StockFacts!NonNegative, StockFacts!Balanced,
         Stock!Spec, Stock!Init, Stock!Commit, Stock!stockVars,
         Stock!NonNegative, Stock!Balanced
<1> QED
  BY <1>1, KeepsStockPromise
=============================================================================
