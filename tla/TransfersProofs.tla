--------------------------- MODULE TransfersProofs ---------------------------
(***************************************************************************)
(* Theorems about Transfers, for every set of products, locations,         *)
(* transfers and concurrent requests.                                      *)
(***************************************************************************)
EXTENDS Transfers, TLAPS

StockFacts == INSTANCE StockLedgerProofs

\* Two versions of a transfer with the same route, lines and units.
SameLines(row, read) ==
  /\ row.source = read.source
  /\ row.destination = read.destination
  /\ row.requested = read.requested
  /\ row.factor = read.factor

LEMMA BaseUnitsType ==
  ASSUME NEW q \in Nat, NEW f \in Nat
  PROVE  BaseUnits(q, f) \in Nat
BY DEF BaseUnits

LEMMA BaseUnitsSum ==
  ASSUME NEW q \in Nat, NEW d \in Nat, NEW f \in Nat
  PROVE  BaseUnits(q + d, f) = BaseUnits(q, f) + BaseUnits(d, f)
BY DEF BaseUnits

LEMMA InBaseUnitsType ==
  ASSUME NEW row \in TransferRow, NEW q \in Quantities
  PROVE  /\ InBaseUnits(row, q) \in Quantities
         /\ \A p \in Products : InBaseUnits(row, q)[p] = BaseUnits(q[p], row.factor[p])
<1>1. \A p \in Products : q[p] \in Nat /\ row.factor[p] \in Nat
  BY DEF TransferRow, Quantities
<1>2. \A p \in Products : BaseUnits(q[p], row.factor[p]) \in Nat
  BY <1>1, BaseUnitsType
<1>. QED
  BY <1>2 DEF InBaseUnits, Quantities

LEMMA FinalStatusType ==
  ASSUME NEW read \in TransferRow, NEW delivered, NEW received
  PROVE  FinalStatus(read, delivered, received) \in Status
BY DEF FinalStatus, Status, TransferRow

LEMMA AtType ==
  ASSUME NEW l \in Locations, NEW change \in [Products -> Int]
  PROVE  At(l, change) \in [Items -> Int]
BY DEF At, Items

LEMMA NothingType == Nothing \in Quantities
BY DEF Nothing, Quantities

\* A row that exists is not the placeholder for one that does not.
LEMMA NoTransferIsNoRow == NoTransfer \notin TransferRow
<1>1. \A row \in TransferRow : row.status \in Status
  BY DEF TransferRow
<1>2. NoTransfer.status \notin Status
  BY DEF NoTransfer, Status
<1>. QED
  BY <1>1, <1>2

-----------------------------------------------------------------------------
(* The inductive invariant. A request in flight decided on a version of    *)
(* its transfer that had passed the checks; the lines it read are still    *)
(* the lines of the transfer, although its status and its counters may     *)
(* have moved on.                                                          *)

RequestsChecked ==
  \A r \in Requests :
    /\ request[r].kind = "ship" =>
         /\ transfer[request[r].id] # NoTransfer
         /\ SameLines(transfer[request[r].id], request[r].read)
         /\ Shippable(request[r].read)
    /\ request[r].kind = "receive" =>
         /\ transfer[request[r].id] # NoTransfer
         /\ SameLines(transfer[request[r].id], request[r].read)
         /\ Receivable(request[r].read)
         /\ \A p \in Products :
              request[r].delivered[p] <= MaxReceivable(request[r].read, p)

\* Nothing is posted for a transfer before it exists, nor out of the source of
\* one that is still PENDING and was never written on a superseded read.
UnshippedMeansUnposted ==
  \A t \in Transfers :
    /\ transfer[t] = NoTransfer => postedOut[t] = Nothing /\ postedIn[t] = Nothing
    /\ t \notin stale /\ transfer[t].status = "PENDING" =>
         \A p \in Products : transfer[t].shipped[p] = 0 /\ postedOut[t][p] = 0

IInv ==
  /\ TypeOK
  /\ RequestsChecked
  /\ UnshippedMeansUnposted
  /\ LinesMatchMovements
  /\ FreshTransfersAreExact

-----------------------------------------------------------------------------
(* Stock. *)

LEMMA PostKeepsTypes ==
  ASSUME TypeOK, NEW change \in [Items -> Int], Stock!Post(change)
  PROVE  onHand' \in [Items -> Nat] /\ ledger' \in [Items -> Int] /\ Stock!Commit
BY DEF TypeOK, Stock!Post, Stock!Commit, Stock!Allowed, Stock!OnHandAfter, Stock!LedgerAfter

-----------------------------------------------------------------------------
(* Each action keeps the invariant. *)

THEOREM InitIInv == Init => IInv
<1>. SUFFICES ASSUME Init PROVE IInv
  OBVIOUS
<1>1. TypeOK
  BY NothingType DEF Init, Stock!Init, TypeOK, RequestState
<1>2. RequestsChecked
  BY DEF Init, RequestsChecked, Idle
<1>3. UnshippedMeansUnposted
  BY DEF Init, UnshippedMeansUnposted, NoTransfer
<1>4. LinesMatchMovements /\ FreshTransfersAreExact
  BY DEF Init, LinesMatchMovements, FreshTransfersAreExact
<1>. QED
  BY <1>1, <1>2, <1>3, <1>4 DEF IInv

LEMMA AdjustKeepsIInv ==
  ASSUME IInv, NEW l \in Locations, NEW change \in [Products -> Corrections], Adjust(l, change)
  PROVE  IInv'
<1>1. At(l, change) \in [Items -> Int]
  BY AtType, QuantityAssumption
<1>2. onHand' \in [Items -> Nat] /\ ledger' \in [Items -> Int]
  BY <1>1, PostKeepsTypes DEF IInv, Adjust
<1>3. TypeOK'
  BY <1>2 DEF IInv, TypeOK, Adjust
<1>. QED
  BY <1>3 DEF IInv, Adjust, RequestsChecked, UnshippedMeansUnposted,
              LinesMatchMovements, FreshTransfersAreExact

LEMMA CreateTransferKeepsIInv ==
  ASSUME IInv, NEW t \in Transfers, NEW source \in Locations, NEW destination \in Locations,
         NEW requested \in [Products -> Requestable], NEW factor \in [Products -> Factors],
         CreateTransfer(t, source, destination, requested, factor)
  PROVE  IInv'
<1>. DEFINE row == transfer'[t]
<1>1. /\ row = [status |-> "PENDING", source |-> source, destination |-> destination,
                requested |-> requested, factor |-> factor,
                shipped |-> Nothing, received |-> Nothing]
      /\ \A u \in Transfers \ {t} : transfer'[u] = transfer[u]
  BY DEF IInv, TypeOK, CreateTransfer
<1>2. requested \in Quantities /\ factor \in [Products -> Nat \ {0}]
  BY QuantityAssumption DEF Quantities
<1>3. row \in TransferRow
  BY <1>1, <1>2, NothingType DEF TransferRow, Status
<1>4. TypeOK'
  BY <1>3 DEF IInv, TypeOK, CreateTransfer
<1>5. RequestsChecked'
  BY <1>1 DEF IInv, RequestsChecked, CreateTransfer
<1>6. postedOut[t] = Nothing /\ postedIn[t] = Nothing /\ UNCHANGED <<postedOut, postedIn, stale>>
  BY DEF IInv, UnshippedMeansUnposted, CreateTransfer
<1>7. UnshippedMeansUnposted'
  BY <1>1, <1>3, <1>6, NoTransferIsNoRow DEF IInv, UnshippedMeansUnposted, Nothing
<1>8. \A p \in Products : BaseUnits(0, factor[p]) = 0
  BY <1>2 DEF BaseUnits
<1>9. LinesMatchMovements' /\ FreshTransfersAreExact'
  <2>1. \A p \in Products :
          /\ postedIn'[t][p] = BaseUnits(row.received[p], row.factor[p])
          /\ postedOut'[t][p] = BaseUnits(row.shipped[p], row.factor[p])
          /\ row.shipped[p] = 0
          /\ postedOut'[t][p] \in Nat
          /\ row.received[p] <= row.requested[p]
    BY <1>1, <1>2, <1>6, <1>8 DEF Nothing, Quantities
  <2>. QED
    BY <1>1, <1>6, <2>1 DEF IInv, LinesMatchMovements, FreshTransfersAreExact
<1>. QED
  BY <1>4, <1>5, <1>7, <1>9 DEF IInv

LEMMA BeginShipKeepsIInv ==
  ASSUME IInv, NEW r \in Requests, NEW t \in Transfers, BeginShip(r, t)
  PROVE  IInv'
<1>1. transfer[t] # NoTransfer
  BY DEF BeginShip, Shippable, NoTransfer
<1>2. transfer[t] \in TransferRow
  BY <1>1 DEF IInv, TypeOK
<1>3. request' = [request EXCEPT ![r] = [kind |-> "ship", id |-> t, read |-> transfer[t]]]
  BY DEF BeginShip
<1>4. [kind |-> "ship", id |-> t, read |-> transfer[t]] \in RequestState
  BY <1>2 DEF RequestState
<1>5. TypeOK'
  BY <1>3, <1>4 DEF IInv, TypeOK, BeginShip
<1>6. RequestsChecked'
  BY <1>1, <1>3 DEF IInv, TypeOK, RequestsChecked, SameLines, BeginShip
<1>. QED
  BY <1>5, <1>6 DEF IInv, BeginShip, UnshippedMeansUnposted,
                    LinesMatchMovements, FreshTransfersAreExact

LEMMA BeginReceiveKeepsIInv ==
  ASSUME IInv, NEW r \in Requests, NEW t \in Transfers,
         NEW delivered \in [Products -> Requestable], BeginReceive(r, t, delivered)
  PROVE  IInv'
<1>. DEFINE new == [kind |-> "receive", id |-> t, read |-> transfer[t], delivered |-> delivered]
<1>1. transfer[t] # NoTransfer
  BY DEF BeginReceive, Receivable, NoTransfer
<1>2. transfer[t] \in TransferRow
  BY <1>1 DEF IInv, TypeOK
<1>3. request' = [request EXCEPT ![r] = new]
  BY DEF BeginReceive
<1>4. new \in RequestState
  BY <1>2, QuantityAssumption DEF RequestState, Quantities
<1>5. TypeOK'
  BY <1>3, <1>4 DEF IInv, TypeOK, BeginReceive
<1>6. RequestsChecked'
  BY <1>1, <1>3 DEF IInv, TypeOK, RequestsChecked, SameLines, BeginReceive
<1>. QED
  BY <1>5, <1>6 DEF IInv, BeginReceive, UnshippedMeansUnposted,
                    LinesMatchMovements, FreshTransfersAreExact

LEMMA AbandonKeepsIInv ==
  ASSUME IInv, NEW r \in Requests, Abandon(r)
  PROVE  IInv'
<1>1. TypeOK'
  BY DEF IInv, TypeOK, Abandon, RequestState
<1>2. RequestsChecked'
  BY DEF IInv, TypeOK, RequestsChecked, Abandon, Idle
<1>. QED
  BY <1>1, <1>2 DEF IInv, Abandon, UnshippedMeansUnposted,
                    LinesMatchMovements, FreshTransfersAreExact

\* What is known of a request about to commit, whichever kind it is.
LEMMA CommitFacts ==
  ASSUME IInv, NEW r \in Requests, request[r].kind \in {"ship", "receive"}
  PROVE  /\ request[r].id \in Transfers
         /\ request[r].read \in TransferRow
         /\ request[r].kind = "receive" => request[r].delivered \in Quantities
         /\ transfer[request[r].id] \in TransferRow
         /\ SameLines(transfer[request[r].id], request[r].read)
         /\ postedOut[request[r].id] \in Quantities
         /\ postedIn[request[r].id] \in Quantities
<1>1. request[r] \in RequestState
  BY DEF IInv, TypeOK
<1>2. /\ request[r].id \in Transfers
      /\ request[r].read \in TransferRow
      /\ request[r].kind = "receive" => request[r].delivered \in Quantities
  BY <1>1 DEF RequestState, Idle
<1>. QED
  BY <1>2 DEF IInv, TypeOK, RequestsChecked

LEMMA CommitShipKeepsIInv ==
  ASSUME IInv, NEW r \in Requests, CommitShip(r)
  PROVE  IInv'
<1>. DEFINE t    == request[r].id
            read == request[r].read
            base == InBaseUnits(read, read.requested)
            row  == Updated(transfer[t], "IN_TRANSIT", read.requested, transfer[t].received)
            outs == [p \in Products |-> postedOut[t][p] + base[p]]
<1>1. /\ t \in Transfers
      /\ read \in TransferRow
      /\ transfer[t] \in TransferRow
      /\ SameLines(transfer[t], read)
      /\ postedOut[t] \in Quantities
      /\ postedIn[t] \in Quantities
  BY CommitFacts DEF CommitShip
<1>2. read.requested \in Quantities /\ read.factor \in [Products -> Nat \ {0}]
  BY <1>1 DEF TransferRow
<1>3. base \in Quantities /\ \A p \in Products : base[p] = BaseUnits(read.requested[p], read.factor[p])
  BY <1>1, <1>2, InBaseUnitsType
<1>4. onHand' \in [Items -> Nat] /\ ledger' \in [Items -> Int]
  <2>1. [p \in Products |-> -base[p]] \in [Products -> Int]
    BY <1>3 DEF Quantities
  <2>2. read.source \in Locations
    BY <1>1 DEF TransferRow
  <2>3. At(read.source, [p \in Products |-> -base[p]]) \in [Items -> Int]
    BY <2>1, <2>2, AtType
  <2>. QED
    BY <2>3, PostKeepsTypes DEF IInv, CommitShip
<1>5. /\ row \in TransferRow
      /\ row.status = "IN_TRANSIT"
      /\ row.shipped = read.requested
      /\ row.requested = transfer[t].requested
      /\ row.received = transfer[t].received
      /\ row.factor = transfer[t].factor
      /\ \A other : SameLines(transfer[t], other) => SameLines(row, other)
  <2>1. "IN_TRANSIT" \in Status /\ transfer[t].received \in Quantities
    BY <1>1 DEF Status, TransferRow
  <2>2. row = Updated(transfer[t], "IN_TRANSIT", read.requested, transfer[t].received)
    OBVIOUS
  <2>. HIDE DEF row
  <2>. QED
    BY <1>1, <1>2, <2>1, <2>2 DEF Updated, TransferRow, SameLines
<1>6. transfer' = [transfer EXCEPT ![t] = row]
  BY DEF CommitShip
<1>7. outs \in Quantities
  BY <1>1, <1>3 DEF Quantities
<1>8. postedOut' = [postedOut EXCEPT ![t] = outs] /\ UNCHANGED postedIn
  BY <1>1 DEF CommitShip, IInv, TypeOK
<1>9. request' = [request EXCEPT ![r] = Idle] /\ NoteStale(t, read)
  BY DEF CommitShip
<1>10. TypeOK'
  <2>1. transfer' \in [Transfers -> TransferRow \cup {NoTransfer}]
    BY <1>5, <1>6 DEF IInv, TypeOK
  <2>2. postedOut' \in [Transfers -> Quantities] /\ postedIn' \in [Transfers -> Quantities]
    BY <1>1, <1>7, <1>8 DEF IInv, TypeOK
  <2>3. request' \in [Requests -> RequestState] /\ stale' \in SUBSET Transfers
    BY <1>1, <1>9 DEF IInv, TypeOK, NoteStale, RequestState
  <2>. QED
    BY <1>4, <2>1, <2>2, <2>3 DEF TypeOK
<1>11. RequestsChecked'
  <2>. HIDE DEF row
  <2>1. \A u \in Transfers :
          /\ transfer[u] # NoTransfer => transfer'[u] # NoTransfer
          /\ \A other : SameLines(transfer[u], other) => SameLines(transfer'[u], other)
    BY <1>5, <1>6, NoTransferIsNoRow DEF IInv, TypeOK
  <2>2. \A q \in Requests : request'[q] = request[q] \/ request'[q].kind = "idle"
    BY <1>9 DEF IInv, TypeOK, Idle
  <2>3. \A q \in Requests : request[q].kind \in {"ship", "receive"} => request[q].id \in Transfers
    BY CommitFacts
  <2>. QED
    BY <2>1, <2>2, <2>3 DEF IInv, RequestsChecked
<1>12. UnshippedMeansUnposted'
  BY <1>1, <1>5, <1>6, <1>8, <1>9, NoTransferIsNoRow
     DEF IInv, TypeOK, UnshippedMeansUnposted, NoteStale, TransferRow
<1>13. /\ row.requested = read.requested
       /\ row.shipped = read.requested
       /\ row.factor = read.factor
       /\ row.received = transfer[t].received
  BY <1>1, <1>5 DEF SameLines
<1>14. /\ postedOut'[t] = outs
       /\ postedIn'[t] = postedIn[t]
       /\ \A u \in Transfers \ {t} : /\ transfer'[u] = transfer[u]
                                     /\ postedOut'[u] = postedOut[u]
                                     /\ postedIn'[u] = postedIn[u]
       /\ transfer'[t] = row
  BY <1>1, <1>6, <1>8 DEF IInv, TypeOK
<1>. HIDE DEF row, base
<1>15. LinesMatchMovements'
  <2>1. ASSUME NEW p \in Products
        PROVE  /\ postedIn'[t][p] = BaseUnits(row.received[p], row.factor[p])
               /\ postedOut'[t][p] >= BaseUnits(row.shipped[p], row.factor[p])
    <3>1. postedIn[t][p] = BaseUnits(transfer[t].received[p], transfer[t].factor[p])
      BY <1>1, NoTransferIsNoRow DEF IInv, LinesMatchMovements
    <3>2. base[p] = BaseUnits(row.shipped[p], row.factor[p]) /\ base[p] \in Nat
      BY <1>3, <1>13 DEF Quantities
    <3>3. postedOut[t][p] \in Nat
      BY <1>1 DEF Quantities
    <3>. QED
      BY <1>1, <1>13, <1>14, <3>1, <3>2, <3>3 DEF SameLines
  <2>. QED
    BY <1>14, <2>1 DEF IInv, LinesMatchMovements
<1>16. FreshTransfersAreExact'
  <2>1. ASSUME t \notin stale', NEW p \in Products
        PROVE  /\ postedOut'[t][p] = BaseUnits(row.shipped[p], row.factor[p])
               /\ row.received[p] <= row.requested[p]
    <3>1. transfer[t] = read /\ t \notin stale
      BY <1>1, <1>9, <2>1 DEF NoteStale, IInv, TypeOK
    <3>2. transfer[t].status = "PENDING"
      BY <3>1 DEF IInv, RequestsChecked, CommitShip, Shippable
    <3>3. postedOut[t][p] = 0
      BY <1>1, <3>1, <3>2 DEF IInv, UnshippedMeansUnposted
    <3>4. postedOut'[t][p] = base[p]
      BY <1>3, <1>14, <3>3 DEF Quantities
    <3>5. transfer[t].received[p] <= transfer[t].requested[p]
      BY <1>1, <3>1, NoTransferIsNoRow DEF IInv, FreshTransfersAreExact
    <3>. QED
      BY <1>3, <1>13, <3>1, <3>4, <3>5
  <2>2. \A u \in Transfers : u \notin stale' => u \notin stale
    BY <1>9 DEF NoteStale
  <2>. QED
    BY <1>13, <1>14, <2>1, <2>2 DEF IInv, FreshTransfersAreExact
<1>. QED
  BY <1>10, <1>11, <1>12, <1>15, <1>16 DEF IInv

LEMMA CommitReceiveKeepsIInv ==
  ASSUME IInv, NEW r \in Requests, CommitReceive(r)
  PROVE  IInv'
<1>. DEFINE t         == request[r].id
            read      == request[r].read
            delivered == request[r].delivered
            base      == InBaseUnits(read, delivered)
            received  == [p \in Products |-> transfer[t].received[p] + delivered[p]]
            final     == FinalStatus(read, delivered, received)
            status    == IF final # read.status THEN final ELSE transfer[t].status
            row       == Updated(transfer[t], status, transfer[t].shipped, received)
            ins       == [p \in Products |-> postedIn[t][p] + base[p]]
<1>1. /\ t \in Transfers
      /\ read \in TransferRow
      /\ delivered \in Quantities
      /\ transfer[t] \in TransferRow
      /\ SameLines(transfer[t], read)
      /\ postedOut[t] \in Quantities
      /\ postedIn[t] \in Quantities
  BY CommitFacts DEF CommitReceive
<1>2. base \in Quantities /\ \A p \in Products : base[p] = BaseUnits(delivered[p], read.factor[p])
  BY <1>1, InBaseUnitsType
<1>3. onHand' \in [Items -> Nat] /\ ledger' \in [Items -> Int]
  <2>1. base \in [Products -> Int] /\ read.destination \in Locations
    BY <1>1, <1>2 DEF Quantities, TransferRow
  <2>2. At(read.destination, base) \in [Items -> Int]
    BY <2>1, AtType
  <2>. QED
    BY <2>2, PostKeepsTypes DEF IInv, CommitReceive
<1>4. status \in Status /\ received \in Quantities
  BY <1>1, FinalStatusType DEF TransferRow, Quantities
<1>5. /\ row \in TransferRow
      /\ row.status = status
      /\ row.shipped = transfer[t].shipped
      /\ row.requested = transfer[t].requested
      /\ row.received = received
      /\ row.factor = transfer[t].factor
      /\ \A other : SameLines(transfer[t], other) => SameLines(row, other)
  <2>1. transfer[t].shipped \in Quantities
    BY <1>1 DEF TransferRow
  <2>. HIDE DEF row, status, received
  <2>2. row = Updated(transfer[t], status, transfer[t].shipped, received)
    BY DEF row
  <2>. QED
    BY <1>1, <1>4, <2>1, <2>2 DEF Updated, TransferRow, SameLines
<1>6. transfer' = [transfer EXCEPT ![t] = row]
  BY <1>1 DEF CommitReceive, IInv, TypeOK, TransferRow
<1>7. ins \in Quantities
  BY <1>1, <1>2 DEF Quantities
<1>8. postedIn' = [postedIn EXCEPT ![t] = ins] /\ UNCHANGED postedOut
  BY <1>1 DEF CommitReceive, IInv, TypeOK
<1>9. request' = [request EXCEPT ![r] = Idle] /\ NoteStale(t, read)
  BY DEF CommitReceive
<1>10. TypeOK'
  <2>1. transfer' \in [Transfers -> TransferRow \cup {NoTransfer}]
    BY <1>5, <1>6 DEF IInv, TypeOK
  <2>2. postedOut' \in [Transfers -> Quantities] /\ postedIn' \in [Transfers -> Quantities]
    BY <1>1, <1>7, <1>8 DEF IInv, TypeOK
  <2>3. request' \in [Requests -> RequestState] /\ stale' \in SUBSET Transfers
    BY <1>1, <1>9 DEF IInv, TypeOK, NoteStale, RequestState
  <2>. QED
    BY <1>3, <2>1, <2>2, <2>3 DEF TypeOK
<1>11. RequestsChecked'
  <2>. HIDE DEF row
  <2>1. \A u \in Transfers :
          /\ transfer[u] # NoTransfer => transfer'[u] # NoTransfer
          /\ \A other : SameLines(transfer[u], other) => SameLines(transfer'[u], other)
    BY <1>5, <1>6, NoTransferIsNoRow DEF IInv, TypeOK
  <2>2. \A q \in Requests : request'[q] = request[q] \/ request'[q].kind = "idle"
    BY <1>9 DEF IInv, TypeOK, Idle
  <2>3. \A q \in Requests : request[q].kind \in {"ship", "receive"} => request[q].id \in Transfers
    BY CommitFacts
  <2>. QED
    BY <2>1, <2>2, <2>3 DEF IInv, RequestsChecked
<1>12. /\ row.requested = transfer[t].requested
       /\ row.shipped = transfer[t].shipped
       /\ row.factor = transfer[t].factor
       /\ row.received = received
       /\ row.status = status
  BY <1>5
<1>13. /\ postedIn'[t] = ins
       /\ postedOut'[t] = postedOut[t]
       /\ \A u \in Transfers \ {t} : /\ transfer'[u] = transfer[u]
                                     /\ postedOut'[u] = postedOut[u]
                                     /\ postedIn'[u] = postedIn[u]
       /\ transfer'[t] = row
  BY <1>1, <1>6, <1>8 DEF IInv, TypeOK
<1>14. \A u \in Transfers : u \notin stale' => u \notin stale
  BY <1>9 DEF NoteStale
<1>15. /\ t \notin stale' => transfer[t] = read
       /\ transfer[t] = read /\ status = "PENDING" => transfer[t].status = "PENDING"
  BY <1>1, <1>9 DEF NoteStale, IInv, TypeOK, FinalStatus
<1>. HIDE DEF row, status, final, base
<1>16. UnshippedMeansUnposted'
  <2>1. ASSUME t \notin stale', row.status = "PENDING", NEW p \in Products
        PROVE  row.shipped[p] = 0 /\ postedOut'[t][p] = 0
    <3>1. transfer[t].status = "PENDING"
      BY <1>12, <1>15, <2>1
    <3>. QED
      BY <1>1, <1>12, <1>13, <1>14, <2>1, <3>1 DEF IInv, UnshippedMeansUnposted
  <2>2. row # NoTransfer
    BY <1>5, NoTransferIsNoRow
  <2>. QED
    BY <1>13, <1>14, <2>1, <2>2 DEF IInv, UnshippedMeansUnposted
<1>17. LinesMatchMovements'
  <2>1. ASSUME NEW p \in Products
        PROVE  /\ postedIn'[t][p] = BaseUnits(row.received[p], row.factor[p])
               /\ postedOut'[t][p] >= BaseUnits(row.shipped[p], row.factor[p])
    <3>1. /\ postedIn[t][p] = BaseUnits(transfer[t].received[p], transfer[t].factor[p])
          /\ postedOut[t][p] >= BaseUnits(transfer[t].shipped[p], transfer[t].factor[p])
      BY <1>1, NoTransferIsNoRow DEF IInv, LinesMatchMovements
    <3>2. base[p] = BaseUnits(delivered[p], transfer[t].factor[p])
      BY <1>1, <1>2 DEF SameLines
    <3>3. transfer[t].received[p] \in Nat /\ delivered[p] \in Nat /\ transfer[t].factor[p] \in Nat
      BY <1>1 DEF TransferRow, Quantities
    <3>4. received[p] = transfer[t].received[p] + delivered[p]
      OBVIOUS
    <3>. HIDE DEF received
    <3>5. BaseUnits(received[p], transfer[t].factor[p]) = postedIn[t][p] + base[p]
      <4>1. BaseUnits(transfer[t].received[p] + delivered[p], transfer[t].factor[p])
              = BaseUnits(transfer[t].received[p], transfer[t].factor[p])
                + BaseUnits(delivered[p], transfer[t].factor[p])
        BY <3>3, BaseUnitsSum
      <4>. QED
        BY <3>1, <3>2, <3>4, <4>1
    <3>. QED
      BY <1>12, <1>13, <3>1, <3>5
  <2>. QED
    BY <1>13, <2>1 DEF IInv, LinesMatchMovements
<1>18. FreshTransfersAreExact'
  <2>1. ASSUME t \notin stale', NEW p \in Products
        PROVE  row.received[p] <= row.requested[p]
    <3>1. delivered[p] <= MaxReceivable(transfer[t], p)
      BY <1>15, <2>1 DEF IInv, RequestsChecked, CommitReceive
    <3>2. transfer[t].received[p] \in Nat /\ delivered[p] \in Nat /\ transfer[t].requested[p] \in Nat
      BY <1>1 DEF TransferRow, Quantities
    <3>3. row.received[p] = transfer[t].received[p] + delivered[p]
      BY <1>12
    <3>. QED
      BY <1>12, <3>1, <3>2, <3>3 DEF MaxReceivable
  <2>2. t \notin stale => \A p \in Products :
           /\ postedOut[t][p] = BaseUnits(transfer[t].shipped[p], transfer[t].factor[p])
           /\ transfer[t].shipped[p] \in {0, transfer[t].requested[p]}
    BY <1>1, NoTransferIsNoRow DEF IInv, FreshTransfersAreExact
  <2>. QED
    BY <1>12, <1>13, <1>14, <2>1, <2>2 DEF IInv, FreshTransfersAreExact
<1>. QED
  BY <1>10, <1>11, <1>16, <1>17, <1>18 DEF IInv

THEOREM NextKeepsIInv == IInv /\ [Next]_vars => IInv'
<1>. SUFFICES ASSUME IInv, [Next]_vars PROVE IInv'
  OBVIOUS
<1>1. ASSUME NEW l \in Locations, NEW change \in [Products -> Corrections], Adjust(l, change)
      PROVE  IInv'
  BY <1>1, AdjustKeepsIInv
<1>2. ASSUME NEW t \in Transfers, NEW source \in Locations, NEW destination \in Locations,
             NEW requested \in [Products -> Requestable], NEW factor \in [Products -> Factors],
             CreateTransfer(t, source, destination, requested, factor)
      PROVE  IInv'
  BY <1>2, CreateTransferKeepsIInv
<1>3. ASSUME NEW r \in Requests, NEW t \in Transfers, BeginShip(r, t)
      PROVE  IInv'
  BY <1>3, BeginShipKeepsIInv
<1>4. ASSUME NEW r \in Requests, NEW t \in Transfers,
             NEW delivered \in [Products -> Requestable], BeginReceive(r, t, delivered)
      PROVE  IInv'
  BY <1>4, BeginReceiveKeepsIInv
<1>5. ASSUME NEW r \in Requests, CommitShip(r) \/ CommitReceive(r) \/ Abandon(r)
      PROVE  IInv'
  BY <1>5, CommitShipKeepsIInv, CommitReceiveKeepsIInv, AbandonKeepsIInv
<1>6. CASE UNCHANGED vars
  BY <1>6 DEF vars, IInv, TypeOK, RequestsChecked, UnshippedMeansUnposted,
              LinesMatchMovements, FreshTransfersAreExact
<1>. QED
  BY <1>1, <1>2, <1>3, <1>4, <1>5, <1>6 DEF Next

-----------------------------------------------------------------------------
(* The theorems. *)

LEMMA Inductive == Spec => []IInv
BY InitIInv, NextKeepsIInv, PTL DEF Spec

\* Every variable keeps its type; in particular no stock position, and no
\* quantity of a transfer line, is ever negative.
THEOREM TypeCorrect == Spec => []TypeOK
BY Inductive, PTL DEF IInv

\* Receipts recorded on the lines are the receipts posted, and nothing is
\* marked shipped that did not leave the source, under every interleaving.
THEOREM LinesAlwaysMatch == Spec => []LinesMatchMovements
BY Inductive, PTL DEF IInv

\* Without a write on a superseded read a transfer ships once and never
\* receives more than was requested: the races are the only way to do either.
THEOREM FreshAlwaysExact == Spec => []FreshTransfersAreExact
BY Inductive, PTL DEF IInv

\* shipTransfer and receiveTransfer leave a COMPLETED transfer alone unless
\* they read it before it was completed.
THEOREM CompletedStaysFinal == Spec => CompletedIsFinal
<1>1. IInv /\ [Next]_vars =>
        [\A t \in Transfers \ stale' :
           transfer[t].status = "COMPLETED" => transfer'[t] = transfer[t]]_vars
  <2>. SUFFICES ASSUME IInv, Next, NEW t \in Transfers, t \notin stale',
                       transfer[t].status = "COMPLETED"
                PROVE  transfer'[t] = transfer[t]
    BY DEF vars
  <2>1. ASSUME NEW r \in Requests, CommitShip(r), request[r].id = t
        PROVE  FALSE
    <3>1. transfer[t] = request[r].read
      BY <2>1 DEF CommitShip, NoteStale, IInv, TypeOK
    <3>. QED
      BY <2>1, <3>1 DEF IInv, RequestsChecked, CommitShip, Shippable
  <2>2. ASSUME NEW r \in Requests, CommitReceive(r), request[r].id = t
        PROVE  FALSE
    <3>1. transfer[t] = request[r].read
      BY <2>2 DEF CommitReceive, NoteStale, IInv, TypeOK
    <3>. QED
      BY <2>2, <3>1 DEF IInv, RequestsChecked, CommitReceive, Receivable
  <2>3. ASSUME NEW r \in Requests, CommitShip(r) \/ CommitReceive(r), request[r].id # t
        PROVE  transfer'[t] = transfer[t]
    BY <2>3 DEF CommitShip, CommitReceive, IInv, TypeOK
  <2>4. ASSUME NEW u \in Transfers, NEW source \in Locations, NEW destination \in Locations,
               NEW requested \in [Products -> Requestable], NEW factor \in [Products -> Factors],
               CreateTransfer(u, source, destination, requested, factor)
        PROVE  transfer'[t] = transfer[t]
    <3>1. u # t
      BY <2>4 DEF CreateTransfer, NoTransfer
    <3>. QED
      BY <2>4, <3>1 DEF CreateTransfer, IInv, TypeOK
  <2>. QED
    BY <2>1, <2>2, <2>3, <2>4 DEF Next, Adjust, BeginShip, BeginReceive, Abandon
<1>. QED
  BY <1>1, Inductive, PTL DEF Spec, CompletedIsFinal

-----------------------------------------------------------------------------
(* Completion. receiveTransfer compares two totals; that each transfer     *)
(* asks for something and that no line of it exceeds its request make the  *)
(* comparison one of every line.                                           *)

\* createTransfer refuses a transfer without a line.
AsksForSomething ==
  \A t \in Transfers : transfer[t] # NoTransfer =>
    \E p \in Products : transfer[t].requested[p] > 0

ArrivedInv == AsksForSomething /\ CompletedMeansArrived

LEMMA TotalIsSum ==
  ASSUME NEW q PROVE Total(q) = StockFacts!SumOf(q, Products)
BY DEF Total, MapThenSumSet, MapThenFoldSet,
       StockFacts!SumOf, StockFacts!MapThenSumSet, StockFacts!MapThenFoldSet

\* Totals of lines that are within their request are equal only when every
\* line is complete, and a request for something has a positive total.
LEMMA TotalsCompareLines ==
  ASSUME NEW received \in Quantities, NEW requested \in Quantities,
         \A p \in Products : received[p] <= requested[p],
         \E p \in Products : requested[p] > 0
  PROVE  (Total(received) >= Total(requested) /\ Total(requested) > 0)
           <=> received = requested
<1>1. StockFacts!IsFiniteSet(Products)
  BY QuantityAssumption DEF IsFiniteSet, StockFacts!IsFiniteSet
<1>2. \A p \in Products : received[p] \in Nat /\ requested[p] \in Nat /\ Nothing[p] = 0
  BY DEF Quantities, Nothing
<1>3. Total(received) \in Nat /\ Total(requested) \in Nat /\ Total(Nothing) \in Nat
  BY <1>1, <1>2, StockFacts!SumType, TotalIsSum
<1>4. /\ Total(received) <= Total(requested)
      /\ Total(received) = Total(requested) <=> \A p \in Products : received[p] = requested[p]
  BY <1>1, <1>2, StockFacts!SumMonotone, TotalIsSum
<1>5. /\ Total(Nothing) <= Total(requested)
      /\ Total(Nothing) = Total(requested) <=> \A p \in Products : Nothing[p] = requested[p]
  <2>1. \A p \in Products : Nothing[p] \in Nat /\ requested[p] \in Nat /\ Nothing[p] <= requested[p]
    BY <1>2
  <2>. QED
    BY <1>1, <2>1, StockFacts!SumMonotone, TotalIsSum
<1>6. Total(requested) > 0
  <2>1. Total(Nothing) # Total(requested)
    BY <1>2, <1>5
  <2>. QED
    BY <1>3, <1>5, <2>1
<1>7. received = requested <=> \A p \in Products : received[p] = requested[p]
  BY DEF Quantities
<1>. QED
  BY <1>3, <1>4, <1>6, <1>7

LEMMA ReceiveKeepsArrived ==
  ASSUME IInv, ArrivedInv, NEW r \in Requests, CommitReceive(r)
  PROVE  ArrivedInv'
<1>. DEFINE t         == request[r].id
            read      == request[r].read
            delivered == request[r].delivered
            received  == [p \in Products |-> transfer[t].received[p] + delivered[p]]
            counted   == [p \in Products |->
                            IF delivered[p] > 0 THEN received[p] ELSE read.received[p]]
            final     == FinalStatus(read, delivered, received)
            status    == IF final # read.status THEN final ELSE transfer[t].status
            row       == Updated(transfer[t], status, transfer[t].shipped, received)
<1>1. /\ t \in Transfers
      /\ read \in TransferRow
      /\ delivered \in Quantities
      /\ transfer[t] \in TransferRow
  BY CommitFacts DEF CommitReceive
<1>2. transfer' = [transfer EXCEPT ![t] = row] /\ NoteStale(t, read)
  BY <1>1 DEF CommitReceive, IInv, TypeOK, TransferRow
<1>3. /\ row.status = status
      /\ row.requested = transfer[t].requested
      /\ row.received = received
  BY DEF Updated
<1>4. /\ transfer'[t] = row
      /\ \A u \in Transfers \ {t} : transfer'[u] = transfer[u]
      /\ \A u \in Transfers : u \notin stale' => u \notin stale
      /\ t \notin stale' => transfer[t] = read
  BY <1>1, <1>2 DEF NoteStale, IInv, TypeOK
<1>5. received \in Quantities /\ read.received \in Quantities /\ read.requested \in Quantities
  BY <1>1 DEF TransferRow, Quantities
<1>6. ASSUME t \notin stale'
      PROVE  row.status = "COMPLETED" <=> row.received = row.requested
  <2>1. transfer[t] = read
    BY <1>4, <1>6
  <2>2. /\ Receivable(read)
        /\ \A p \in Products : delivered[p] <= MaxReceivable(read, p)
    BY DEF IInv, RequestsChecked, CommitReceive
  <2>3. \A p \in Products : received[p] <= read.requested[p]
    <3>1. ASSUME NEW p \in Products PROVE received[p] <= read.requested[p]
      <4>1. read.received[p] \in Nat /\ delivered[p] \in Nat /\ read.requested[p] \in Nat
        BY <1>1, <1>5 DEF Quantities
      <4>2. received[p] = read.received[p] + delivered[p]
        BY <2>1
      <4>. QED
        BY <2>2, <4>1, <4>2 DEF MaxReceivable
    <3>. QED
      BY <3>1
  <2>4. counted = received
    <3>1. ASSUME NEW p \in Products
          PROVE (IF delivered[p] > 0 THEN received[p] ELSE read.received[p]) = received[p]
      <4>1. read.received[p] \in Nat /\ delivered[p] \in Nat
        BY <1>1, <1>5 DEF Quantities
      <4>2. received[p] = read.received[p] + delivered[p]
        BY <2>1
      <4>. QED
        BY <4>1, <4>2
    <3>. QED
      BY <3>1
  <2>5. \E p \in Products : read.requested[p] > 0
    BY <1>1, <2>1, NoTransferIsNoRow DEF ArrivedInv, AsksForSomething
  <2>6. (Total(received) >= Total(read.requested) /\ Total(read.requested) > 0)
          <=> received = read.requested
    BY <1>5, <2>3, <2>5, TotalsCompareLines
  <2>7. final = "COMPLETED" <=> received = read.requested
    <3>. HIDE DEF received
    <3>1. final = IF Total(counted) >= Total(read.requested) /\ Total(read.requested) > 0
                  THEN "COMPLETED"
                  ELSE IF Total(counted) > 0 THEN "IN_TRANSIT" ELSE read.status
      BY DEF FinalStatus
    <3>2. read.status # "COMPLETED"
      BY <2>2 DEF Receivable
    <3>. HIDE DEF counted, final
    <3>. QED
      BY <2>4, <2>6, <3>1, <3>2
  <2>8. status = final
    BY <2>1
  <2>. HIDE DEF row, status, final, received
  <2>. QED
    BY <1>3, <2>1, <2>7, <2>8
<1>. HIDE DEF row
<1>7. AsksForSomething'
  <2>1. \E p \in Products : transfer[t].requested[p] > 0
    BY <1>1, NoTransferIsNoRow DEF ArrivedInv, AsksForSomething
  <2>. QED
    BY <1>3, <1>4, <2>1 DEF ArrivedInv, AsksForSomething
<1>8. CompletedMeansArrived'
  BY <1>4, <1>6 DEF ArrivedInv, CompletedMeansArrived
<1>. QED
  BY <1>7, <1>8 DEF ArrivedInv

LEMMA ShipKeepsArrived ==
  ASSUME IInv, ArrivedInv, NEW r \in Requests, CommitShip(r)
  PROVE  ArrivedInv'
<1>. DEFINE t    == request[r].id
            read == request[r].read
            row  == Updated(transfer[t], "IN_TRANSIT", read.requested, transfer[t].received)
<1>1. t \in Transfers /\ transfer[t] \in TransferRow
  BY CommitFacts DEF CommitShip
<1>2. transfer' = [transfer EXCEPT ![t] = row] /\ NoteStale(t, read)
  BY DEF CommitShip
<1>3. /\ row.status = "IN_TRANSIT"
      /\ row.requested = transfer[t].requested
      /\ row.received = transfer[t].received
  BY DEF Updated
<1>4. /\ transfer'[t] = row
      /\ \A u \in Transfers \ {t} : transfer'[u] = transfer[u]
      /\ \A u \in Transfers : u \notin stale' => u \notin stale
      /\ t \notin stale' => transfer[t] = read
  BY <1>1, <1>2 DEF NoteStale, IInv, TypeOK
<1>. HIDE DEF row
<1>5. ASSUME t \notin stale'
      PROVE  row.received # row.requested
  <2>1. transfer[t].status = "PENDING"
    BY <1>4, <1>5 DEF IInv, RequestsChecked, CommitShip, Shippable
  <2>. QED
    BY <1>1, <1>3, <1>4, <1>5, <2>1, NoTransferIsNoRow DEF ArrivedInv, CompletedMeansArrived
<1>6. AsksForSomething'
  <2>1. \E p \in Products : transfer[t].requested[p] > 0
    BY <1>1, NoTransferIsNoRow DEF ArrivedInv, AsksForSomething
  <2>. QED
    BY <1>3, <1>4, <2>1 DEF ArrivedInv, AsksForSomething
<1>7. CompletedMeansArrived'
  BY <1>3, <1>4, <1>5 DEF ArrivedInv, CompletedMeansArrived
<1>. QED
  BY <1>6, <1>7 DEF ArrivedInv

LEMMA CreateKeepsArrived ==
  ASSUME IInv, ArrivedInv, NEW t \in Transfers, NEW source \in Locations,
         NEW destination \in Locations,
         NEW requested \in [Products -> Requestable], NEW factor \in [Products -> Factors],
         CreateTransfer(t, source, destination, requested, factor)
  PROVE  ArrivedInv'
<1>1. /\ transfer'[t].status = "PENDING"
      /\ transfer'[t].requested = requested
      /\ transfer'[t].received = Nothing
      /\ \A u \in Transfers \ {t} : transfer'[u] = transfer[u]
      /\ stale' = stale
  BY DEF IInv, TypeOK, CreateTransfer
<1>2. PICK p \in Products : requested[p] > 0
  BY DEF CreateTransfer
<1>3. Nothing # requested
  BY <1>2 DEF Nothing
<1>4. AsksForSomething'
  BY <1>1, <1>2 DEF ArrivedInv, AsksForSomething
<1>5. CompletedMeansArrived'
  BY <1>1, <1>3 DEF ArrivedInv, CompletedMeansArrived
<1>. QED
  BY <1>4, <1>5 DEF ArrivedInv

\* Under every interleaving the totals receiveTransfer compares complete a
\* transfer with its last line and not before, unless a superseded read wrote it.
THEOREM CompletedAlwaysArrived == Spec => []CompletedMeansArrived
<1>1. Init => ArrivedInv
  BY DEF Init, ArrivedInv, AsksForSomething, CompletedMeansArrived
<1>2. IInv /\ ArrivedInv /\ [Next]_vars => ArrivedInv'
  <2>. SUFFICES ASSUME IInv, ArrivedInv, [Next]_vars PROVE ArrivedInv'
    OBVIOUS
  <2>1. ASSUME UNCHANGED <<transfer, stale>> PROVE ArrivedInv'
    BY <2>1 DEF ArrivedInv, AsksForSomething, CompletedMeansArrived
  <2>2. ASSUME NEW r \in Requests, CommitShip(r) \/ CommitReceive(r) \/ Abandon(r)
        PROVE  ArrivedInv'
    BY <2>1, <2>2, ShipKeepsArrived, ReceiveKeepsArrived DEF Abandon
  <2>. QED
    BY <2>1, <2>2, CreateKeepsArrived DEF Next, vars, Adjust, BeginShip, BeginReceive
<1>. QED
  BY <1>1, <1>2, Inductive, PTL DEF Spec, ArrivedInv

-----------------------------------------------------------------------------
(* Stock. *)

\* Adjustments and transfers keep the stock promise: Transfers implements
\* StockLedger, with the same onHand and ledger.
THEOREM KeepsStockPromise == Spec => StockPromise
<1>1. Init => Stock!Init
  BY DEF Init
<1>2. IInv /\ [Next]_vars => [Stock!Commit]_<<onHand, ledger>>
  <2>. SUFFICES ASSUME IInv, Next PROVE Stock!Commit \/ UNCHANGED <<onHand, ledger>>
    BY DEF vars
  <2>1. ASSUME NEW l \in Locations, NEW change \in [Products -> Corrections], Adjust(l, change)
        PROVE  Stock!Commit
    <3>1. At(l, change) \in [Items -> Int]
      BY AtType, QuantityAssumption
    <3>. QED
      BY <2>1, <3>1, PostKeepsTypes DEF IInv, Adjust
  <2>2. ASSUME NEW r \in Requests, CommitShip(r)
        PROVE  Stock!Commit
    <3>. DEFINE base == InBaseUnits(request[r].read, request[r].read.requested)
    <3>1. request[r].read \in TransferRow
      BY <2>2, CommitFacts DEF CommitShip
    <3>2. request[r].read.requested \in Quantities /\ request[r].read.source \in Locations
      BY <3>1 DEF TransferRow
    <3>3. base \in Quantities
      BY <3>1, <3>2, InBaseUnitsType
    <3>4. [p \in Products |-> -base[p]] \in [Products -> Int]
      BY <3>3 DEF Quantities
    <3>5. At(request[r].read.source, [p \in Products |-> -base[p]]) \in [Items -> Int]
      BY <3>2, <3>4, AtType
    <3>. QED
      BY <2>2, <3>5, PostKeepsTypes DEF IInv, CommitShip
  <2>3. ASSUME NEW r \in Requests, CommitReceive(r)
        PROVE  Stock!Commit
    <3>. DEFINE base == InBaseUnits(request[r].read, request[r].delivered)
    <3>1. request[r].read \in TransferRow /\ request[r].delivered \in Quantities
      BY <2>3, CommitFacts DEF CommitReceive
    <3>2. base \in [Products -> Int] /\ request[r].read.destination \in Locations
      BY <3>1, InBaseUnitsType DEF TransferRow, Quantities
    <3>3. At(request[r].read.destination, base) \in [Items -> Int]
      BY <3>2, AtType
    <3>. QED
      BY <2>3, <3>3, PostKeepsTypes DEF IInv, CommitReceive
  <2>. QED
    BY <2>1, <2>2, <2>3 DEF Next, CreateTransfer, BeginShip, BeginReceive, Abandon
<1>. QED
  BY <1>1, <1>2, Inductive, PTL DEF Spec, StockPromise, Stock!Spec, Stock!stockVars

\* So stock that only adjustments and transfers move is never negative and
\* always equals the sum of its movements.
THEOREM TransfersKeepStockSafe == Spec => [](Stock!NonNegative /\ Stock!Balanced)
<1>1. StockPromise => [](Stock!NonNegative /\ Stock!Balanced)
  BY StockFacts!PromiseMeansSafe
     DEF StockPromise, StockFacts!Spec, StockFacts!Init, StockFacts!Commit,
         StockFacts!stockVars, StockFacts!NonNegative, StockFacts!Balanced,
         Stock!Spec, Stock!Init, Stock!Commit, Stock!stockVars,
         Stock!NonNegative, Stock!Balanced
<1>. QED
  BY <1>1, KeepsStockPromise
=============================================================================
