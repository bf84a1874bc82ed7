------------------------------ MODULE Transfers ------------------------------
(***************************************************************************)
(* Stock adjustments and inter-location transfers, inventory.service.ts.   *)
(*                                                                         *)
(* shipTransfer and receiveTransfer run in a database transaction at the   *)
(* READ COMMITTED level: they read the transfer without locking it, decide *)
(* on what they read, write, and commit. A request is therefore two steps, *)
(* Begin (the read and every check on it) and Commit (the writes); other   *)
(* requests commit in between. A transaction that throws, or whose process *)
(* dies, leaves nothing behind: Abandon.                                   *)
(***************************************************************************)
EXTENDS Integers, FiniteSetsExt

CONSTANTS
  Products, Locations,
  Transfers,        \* transfer ids
  Requests,         \* ship and receive requests in flight at the same time
  Requestable,      \* quantities a line may request, in its unit of measure
  Factors,          \* conversion factors of the units of measure
  Corrections,      \* quantity changes an adjustment may ask for
  MaxOnHand         \* bound: adjustments do not raise stock above it

\* A transfer names finitely many products, each on one line.
ASSUME QuantityAssumption ==
  /\ IsFiniteSet(Products)
  /\ Requestable \subseteq Nat
  /\ Factors \subseteq Nat \ {0}
  /\ Corrections \subseteq Int
  /\ MaxOnHand \in Nat

VARIABLES
  onHand, ledger,   \* stock, as in StockLedger
  transfer,         \* InventoryTransfer rows with their lines
  postedOut,        \* base units of a transfer's TRANSFER_OUT movements
  postedIn,         \* base units of its TRANSFER_IN movements
  request,          \* what each request in flight has read and decided
  stale             \* history: transfers written on a superseded read

vars == <<onHand, ledger, transfer, postedOut, postedIn, request, stale>>

Items == Products \X Locations
Stock == INSTANCE StockLedger

-----------------------------------------------------------------------------

Status == {"PENDING", "IN_TRANSIT", "COMPLETED", "CANCELLED"}
Quantities == [Products -> Nat]

\* A line is a product with a positive requested quantity: createTransfer
\* refuses a second line for the same product.
TransferRow ==
  [status : Status, source : Locations, destination : Locations,
   requested : Quantities, factor : [Products -> Nat \ {0}],
   shipped : Quantities, received : Quantities]

NoTransfer == [status |-> "NONE"]

\* The row after an update of its status and of the progress of its lines.
Updated(row, status, shipped, received) ==
  [status |-> status, source |-> row.source, destination |-> row.destination,
   requested |-> row.requested, factor |-> row.factor,
   shipped |-> shipped, received |-> received]

Idle == [kind |-> "idle"]
RequestState ==
  {Idle}
    \cup [kind : {"ship"}, id : Transfers, read : TransferRow]
    \cup [kind : {"receive"}, id : Transfers, read : TransferRow, delivered : Quantities]

TypeOK ==
  /\ onHand \in [Items -> Nat]
  /\ ledger \in [Items -> Int]
  /\ transfer \in [Transfers -> TransferRow \cup {NoTransfer}]
  /\ postedOut \in [Transfers -> Quantities]
  /\ postedIn \in [Transfers -> Quantities]
  /\ request \in [Requests -> RequestState]
  /\ stale \in SUBSET Transfers

Nothing == [p \in Products |-> 0]

Init ==
  /\ Stock!Init
  /\ transfer = [t \in Transfers |-> NoTransfer]
  /\ postedOut = [t \in Transfers |-> Nothing]
  /\ postedIn = [t \in Transfers |-> Nothing]
  /\ request = [r \in Requests |-> Idle]
  /\ stale = {}

-----------------------------------------------------------------------------
(* Adjustments and new transfers. *)

\* The movement of quantity[p] of every product p at one location.
At(location, quantity) ==
  [i \in Items |-> IF i[2] = location THEN quantity[i[1]] ELSE 0]

\* createAdjustment: zero lines are skipped, every other one is a movement.
Adjust(l, change) ==
  /\ \A p \in Products : change[p] > 0 => onHand[<<p, l>>] + change[p] <= MaxOnHand
  /\ Stock!Post(At(l, change))
  /\ UNCHANGED <<transfer, postedOut, postedIn, request, stale>>

CreateTransfer(t, source, destination, requested, factor) ==
  /\ transfer[t] = NoTransfer
  /\ source # destination
  /\ \E p \in Products : requested[p] > 0
  /\ transfer' = [transfer EXCEPT ![t] =
       [status |-> "PENDING", source |-> source, destination |-> destination,
        requested |-> requested, factor |-> factor,
        shipped |-> Nothing, received |-> Nothing]]
  /\ UNCHANGED <<onHand, ledger, postedOut, postedIn, request, stale>>

-----------------------------------------------------------------------------
(* Shipping. *)

BaseUnits(quantity, factor) == quantity * factor

\* Mutant: line quantities are posted without their conversion factor.
RawUnits(row, quantity) == quantity

InBaseUnits(row, quantity) ==
  [p \in Products |-> BaseUnits(quantity[p], row.factor[p])]

\* Mutant: a transfer on its way, or already there, may be shipped again.
ShippableAgain(row) == row.status # "NONE"

Shippable(row) == row.status = "PENDING"

BeginShip(r, t) ==
  /\ request[r] = Idle
  /\ Shippable(transfer[t])
  /\ request' = [request EXCEPT ![r] = [kind |-> "ship", id |-> t, read |-> transfer[t]]]
  /\ UNCHANGED <<onHand, ledger, transfer, postedOut, postedIn, stale>>

\* History only: the row is no longer the one the request decided on.
NoteStale(t, read) ==
  stale' = IF transfer[t] = read THEN stale ELSE stale \cup {t}

\* A line's whole requested quantity leaves the source; short of stock, Post
\* is not enabled and the request can only be abandoned.
CommitShip(r) ==
  LET t    == request[r].id
      read == request[r].read
      base == InBaseUnits(read, read.requested)
  IN  /\ request[r].kind = "ship"
      /\ Stock!Post(At(read.source, [p \in Products |-> -base[p]]))
      /\ transfer' = [transfer EXCEPT
           ![t] = Updated(@, "IN_TRANSIT", read.requested, @.received)]
      /\ postedOut' = [postedOut EXCEPT ![t] = [p \in Products |-> @[p] + base[p]]]
      /\ UNCHANGED postedIn
      /\ request' = [request EXCEPT ![r] = Idle]
      /\ NoteStale(t, read)

-----------------------------------------------------------------------------
(* Receiving. *)

Receivable(row) == row.status \notin {"NONE", "COMPLETED", "CANCELLED"}

MaxReceivable(row, p) == row.requested[p] - row.received[p]

\* delivered[p] is 0 for a line the payload does not name. A payload may name
\* only products that are not on the transfer: they are ignored, all are 0.
BeginReceive(r, t, delivered) ==
  /\ request[r] = Idle
  /\ Receivable(transfer[t])
  /\ \A p \in Products : delivered[p] <= MaxReceivable(transfer[t], p)
  /\ request' = [request EXCEPT ![r] =
       [kind |-> "receive", id |-> t, read |-> transfer[t], delivered |-> delivered]]
  /\ UNCHANGED <<onHand, ledger, transfer, postedOut, postedIn, stale>>

Total(quantity) == MapThenSumSet(LAMBDA p : quantity[p], Products)

\* Mutant: any receipt completes the transfer.
EagerFinalStatus(read, delivered, received) ==
  IF Total(delivered) > 0 THEN "COMPLETED" ELSE read.status

\* The status receiveTransfer decides on: the lines it wrote count with their
\* value after the update, the others with the value read at the start.
FinalStatus(read, delivered, received) ==
  LET counted == [p \in Products |->
                    IF delivered[p] > 0 THEN received[p] ELSE read.received[p]]
      complete == Total(counted) >= Total(read.requested) /\ Total(read.requested) > 0
  IN  IF complete THEN "COMPLETED"
      ELSE IF Total(counted) > 0 THEN "IN_TRANSIT" ELSE read.status

CommitReceive(r) ==
  LET t         == request[r].id
      read      == request[r].read
      delivered == request[r].delivered
      base      == InBaseUnits(read, delivered)
      received  == [p \in Products |-> transfer[t].received[p] + delivered[p]]
      final     == FinalStatus(read, delivered, received)
  IN  /\ request[r].kind = "receive"
      /\ Stock!Post(At(read.destination, base))
      /\ transfer' = [transfer EXCEPT
           ![t] = Updated(@, IF final # read.status THEN final ELSE @.status,
                          @.shipped, received)]
      /\ postedIn' = [postedIn EXCEPT ![t] = [p \in Products |-> @[p] + base[p]]]
      /\ UNCHANGED postedOut
      /\ request' = [request EXCEPT ![r] = Idle]
      /\ NoteStale(t, read)

\* The transaction throws, times out or loses its connection: it rolls back.
Abandon(r) ==
  /\ request[r] # Idle
  /\ request' = [request EXCEPT ![r] = Idle]
  /\ UNCHANGED <<onHand, ledger, transfer, postedOut, postedIn, stale>>

-----------------------------------------------------------------------------

Next ==
  \/ \E l \in Locations, change \in [Products -> Corrections] : Adjust(l, change)
  \/ \E t \in Transfers, source, destination \in Locations,
        requested \in [Products -> Requestable], factor \in [Products -> Factors] :
       CreateTransfer(t, source, destination, requested, factor)
  \/ \E r \in Requests, t \in Transfers : BeginShip(r, t)
  \/ \E r \in Requests, t \in Transfers, delivered \in [Products -> Requestable] :
       BeginReceive(r, t, delivered)
  \/ \E r \in Requests : CommitShip(r) \/ CommitReceive(r) \/ Abandon(r)

Spec == Init /\ [][Next]_vars

-----------------------------------------------------------------------------
(* Properties. *)

\* Every adjustment, shipment and receipt keeps the stock promise: no position
\* goes below zero and the movements posted are the changes made.
StockPromise == Stock!Spec

\* Whatever interleaves, the lines of a transfer and the movements that carry
\* its id tell one story: receipts add up to the base units of the received
\* quantities, and nothing is marked shipped that did not leave the source.
LinesMatchMovements ==
  \A t \in Transfers : transfer[t] # NoTransfer =>
    \A p \in Products :
      /\ postedIn[t][p] = BaseUnits(transfer[t].received[p], transfer[t].factor[p])
      /\ postedOut[t][p] >= BaseUnits(transfer[t].shipped[p], transfer[t].factor[p])

\* As long as no request wrote a transfer it had read before another commit, a
\* transfer leaves the source at most once and only for what it requested, and
\* no line is received beyond what was requested.
FreshTransfersAreExact ==
  \A t \in Transfers \ stale : transfer[t] # NoTransfer =>
    \A p \in Products :
      /\ postedOut[t][p] = BaseUnits(transfer[t].shipped[p], transfer[t].factor[p])
      /\ transfer[t].shipped[p] \in {0, transfer[t].requested[p]}
      /\ transfer[t].received[p] <= transfer[t].requested[p]

\* Under the same condition a transfer is COMPLETED exactly when every line has
\* arrived: no partial receipt closes it, none that completes it leaves it open.
CompletedMeansArrived ==
  \A t \in Transfers \ stale : transfer[t] # NoTransfer =>
    (transfer[t].status = "COMPLETED" <=> transfer[t].received = transfer[t].requested)

\* A COMPLETED transfer is never written again by a request that read it in its
\* latest version: neither shipTransfer nor receiveTransfer takes it up.
CompletedIsFinal ==
  [][\A t \in Transfers \ stale' :
       transfer[t].status = "COMPLETED" => transfer'[t] = transfer[t]]_vars
=============================================================================
