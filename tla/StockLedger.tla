----------------------------- MODULE StockLedger -----------------------------
(***************************************************************************)
(* What every component that touches stock promises the rest of the system *)
(* and the helpers they keep the promise with.                             *)
(*                                                                         *)
(* A stock position (InventoryItem) is identified by a product and a       *)
(* location. InventoryTransaction rows are immutable movements; for a      *)
(* position this module keeps the sum of their quantityChange, not the     *)
(* rows. A database transaction changes both tables or, when it aborts,    *)
(* neither, so one committed transaction is one step here.                 *)
(***************************************************************************)
EXTENDS Integers

CONSTANT Items      \* the stock positions

VARIABLES
  onHand,           \* InventoryItem.quantityOnHand, 0 while there is no row
  ledger            \* sum of InventoryTransaction.quantityChange

stockVars == <<onHand, ledger>>

-----------------------------------------------------------------------------
(* The helpers _recordStockMovement and _updateInventoryItemQuantity.      *)

\* The upsert: an increment of the row as it is when the lock is granted.
OnHandAfter(quantity, change) == quantity + change

\* Mutant: the movement stores the size of the change and loses its sign.
UnsignedLedgerAfter(total, change) == IF change < 0 THEN total - change ELSE total + change

\* The movement row that goes with it.
LedgerAfter(total, change) == total + change

\* Mutant: a position may be overdrawn by one unit.
LenientAllowed(quantity) == quantity >= -1

\* The check made after the update; it throws and the transaction rolls back.
Allowed(quantity) == quantity >= 0

\* A committed transaction that moves change[i] at every position i.
Post(change) ==
  /\ \A i \in Items : Allowed(OnHandAfter(onHand[i], change[i]))
  /\ onHand' = [i \in Items |-> OnHandAfter(onHand[i], change[i])]
  /\ ledger' = [i \in Items |-> LedgerAfter(ledger[i], change[i])]

-----------------------------------------------------------------------------
(* The promise: stock starts empty, and whatever a step does to stock, it  *)
(* leaves no position negative and posts exactly what it moved.            *)

Init ==
  /\ onHand = [i \in Items |-> 0]
  /\ ledger = [i \in Items |-> 0]

Commit ==
  /\ onHand' \in [Items -> Nat]
  /\ ledger' \in [Items -> Int]
  /\ \A i \in Items : ledger'[i] - ledger[i] = onHand'[i] - onHand[i]

Spec == Init /\ [][Commit]_stockVars

\* Stock is never oversold: no position falls below zero.
NonNegative == onHand \in [Items -> Nat]

\* The movements of a position add up to what is on hand.
Balanced == /\ ledger \in [Items -> Int]
            /\ \A i \in Items : ledger[i] = onHand[i]
=============================================================================
