------------------------------- MODULE Directory -------------------------------
(***************************************************************************)
(* The master data of a tenant: locations, categories, suppliers,          *)
(* customers and customer groups, and the rows that depend on them.        *)
(*                                                                         *)
(* The five services are alike and do not touch each other's rows, so the  *)
(* model is of one of them at a time, chosen in Init. A dependant is       *)
(*   of a location  its stock (with its entries in the ledger),            *)
(*   of a category  a product in it,                                       *)
(*   of a supplier  a purchase order,                                      *)
(*   of a customer  an order,                                              *)
(*   of a group     a customer in it.                                      *)
(* A request is a Begin and a Commit where the database does not repeat    *)
(* its checks, one action where a unique index or a foreign key does.      *)
(***************************************************************************)
EXTENDS Integers

CONSTANTS
  Ids,              \* ids of rows of the kind that is modelled
  Deps,             \* ids of rows that depend on them
  Names,            \* their names; of a customer, the e-mail address
  None,             \* no name, no parent, no owner
  Keep,             \* a field that an update leaves out
  Requests          \* requests in flight at the same time

ASSUME DirectoryAssumption == None \notin Ids \cup Names /\ Keep \notin Ids \cup Names \cup {None}

VARIABLES
  kind,             \* which of the services
  row,              \* its rows
  dep,              \* the rows that depend on them
  request,          \* what each request in flight has read
  slipped,          \* history: categories whose name met no valid check
  late              \* history: dependants that no count could see

vars == <<kind, row, dep, request, slipped, late>>

-----------------------------------------------------------------------------

Row(n, p, a) == [name |-> n, parent |-> p, active |-> a]
NoRow == [state |-> "absent"]
Tied(i, open) == [owner |-> i, open |-> open]
Untied == [state |-> "absent"]
Idle == [step |-> "idle"]

RowState == {NoRow} \cup [name : Names \cup {None}, parent : Ids \cup {None}, active : BOOLEAN]
DepState == {Untied} \cup [owner : Ids \cup {None}, open : BOOLEAN]
RequestState ==
  {Idle}
    \cup [step : {"create"}, id : Ids, name : Names, parent : Ids \cup {None},
          checked : BOOLEAN, stale : BOOLEAN]
    \cup [step : {"update"}, id : Ids, name : Names \cup {Keep}, parent : Ids \cup {None, Keep},
          checked : BOOLEAN, stale : BOOLEAN]
    \cup [step : {"delete"}, id : Ids, stale : BOOLEAN]
    \cup [step : {"place"}, dep : Deps, id : Ids, stale : BOOLEAN]

TypeOK ==
  /\ kind \in {"location", "category", "supplier", "customer", "group"}
  /\ row \in [Ids -> RowState]
  /\ dep \in [Deps -> DepState]
  /\ request \in [Requests -> RequestState]
  /\ slipped \subseteq Ids
  /\ late \subseteq Deps

Rows == {i \in Ids : row[i] # NoRow}
Parents == Rows \cup {None}
Children(i) == {j \in Rows : row[j].parent = i}
DepsOf(i) == {d \in Deps : dep[d] # Untied /\ dep[d].owner = i}
OpenOf(i) == {d \in DepsOf(i) : dep[d].open}

At(r, step) == request[r].step = step
Do(r, next) == request' = [request EXCEPT ![r] = next]

\* r becomes idle, and the checks of the requests R no longer hold.
Overtake(r, R) ==
  request' = [q \in Requests |->
    IF q = r THEN Idle ELSE IF q \in R THEN [request[q] EXCEPT !.stale = TRUE] ELSE request[q]]

Writing == {q \in Requests : At(q, "create") \/ At(q, "update")}
Deleting(i) == {q \in Requests : At(q, "delete") /\ request[q].id = i}
Placing(i) == {q \in Requests : At(q, "place") /\ request[q].id = i}

Init ==
  /\ kind \in {"location", "category", "supplier", "customer", "group"}
  /\ row = [i \in Ids |-> NoRow]
  /\ dep = [d \in Deps |-> Untied]
  /\ request = [r \in Requests |-> Idle]
  /\ slipped = {}
  /\ late = {}

-----------------------------------------------------------------------------
(* Locations, suppliers, groups and customers: unique names. *)

NameTaken(n, i) == \E j \in Rows \ {i} : row[j].name = n

Write(i, new) ==
  /\ row' = [row EXCEPT ![i] = new]
  /\ UNCHANGED <<kind, dep, request, slipped, late>>

CreateLocation(i, n, p) ==
  /\ kind = "location"
  /\ i \notin Rows
  /\ ~NameTaken(n, i)
  /\ p \in Parents
  /\ Write(i, Row(n, p, TRUE))

\* Nothing but the location itself is refused as its parent.
UpdateLocation(i, n, p, a) ==
  /\ kind = "location"
  /\ i \in Rows
  /\ ~NameTaken(n, i)
  /\ p \in Parents \ {i}
  /\ Write(i, Row(n, p, a))

CreateSupplier(i, n) ==
  /\ kind = "supplier"
  /\ i \notin Rows
  /\ ~NameTaken(n, i)
  /\ Write(i, Row(n, None, TRUE))

\* isActive is one of the fields, and no order is counted.
UpdateSupplier(i, n, a) ==
  /\ kind = "supplier"
  /\ i \in Rows
  /\ ~NameTaken(n, i)
  /\ row' = [row EXCEPT ![i] = Row(n, None, a)]
  /\ late' = IF a THEN late ELSE late \cup OpenOf(i)
  /\ Overtake(None, IF a THEN {} ELSE Placing(i))
  /\ UNCHANGED <<kind, dep, slipped>>

CreateGroup(i, n) ==
  /\ kind = "group"
  /\ i \notin Rows
  /\ ~NameTaken(n, i)
  /\ Write(i, Row(n, None, TRUE))

UpdateGroup(i, n) ==
  /\ kind = "group"
  /\ i \in Rows
  /\ ~NameTaken(n, i)
  /\ Write(i, Row(n, None, TRUE))

\* A customer may have no e-mail address.
CreateCustomer(i, n) ==
  /\ kind = "customer"
  /\ i \notin Rows
  /\ n # None => ~NameTaken(n, i)
  /\ Write(i, Row(n, None, TRUE))

\* A customer joins a group, or leaves it.
UpdateCustomer(d, i) ==
  /\ kind = "group"
  /\ i \in Parents
  /\ dep' = [dep EXCEPT ![d] = IF i = None THEN Untied ELSE Tied(i, TRUE)]
  /\ late' = late \ {d}
  /\ Overtake(None, IF i = None THEN {} ELSE Deleting(i))
  /\ UNCHANGED <<kind, row, slipped>>

-----------------------------------------------------------------------------
(* Categories: names are unique under a parent, which the database ensures *)
(* only where there is a parent.                                           *)

\* Mutant: the siblings are not looked at.
SiblingIgnored(n, p, i) == FALSE

SiblingTaken(n, p, i) == \E j \in Rows \ {i} : row[j].name = n /\ row[j].parent = p

CategoryRequest(step, i, n, p, checked) ==
  [step |-> step, id |-> i, name |-> n, parent |-> p, checked |-> checked, stale |-> FALSE]

BeginCreateCategory(r, i, n, p) ==
  /\ kind = "category"
  /\ At(r, "idle")
  /\ i \notin Rows
  /\ p \in Parents
  /\ ~SiblingTaken(n, p, i)
  /\ Do(r, CategoryRequest("create", i, n, p, TRUE))
  /\ UNCHANGED <<kind, row, dep, slipped, late>>

\* The siblings are looked at only for a new name; nothing but the category
\* itself is refused as its parent.
BeginUpdateCategory(r, i, n, p) ==
  LET renamed == n # Keep /\ n # row[i].name  under == IF p = Keep THEN row[i].parent ELSE p IN
  /\ kind = "category"
  /\ At(r, "idle")
  /\ i \in Rows
  /\ renamed => ~SiblingTaken(n, under, i)
  /\ p \in (Parents \ {i}) \cup {Keep}
  /\ n # Keep \/ p # Keep
  /\ Do(r, CategoryRequest("update", i, n, p, renamed))
  /\ UNCHANGED <<kind, row, dep, slipped, late>>

\* What the unique index and the foreign key let pass.
Storable(i, n, p) == p \in Parents /\ (p = None \/ ~\E j \in Rows \ {i} : row[j].name = n /\ row[j].parent = p)

StoreCategory(r, i, n, p) ==
  /\ Storable(i, n, p)
  /\ row' = [row EXCEPT ![i] = Row(n, p, TRUE)]
  /\ slipped' = IF request[r].checked /\ ~request[r].stale THEN slipped \ {i} ELSE slipped \cup {i}
  /\ Overtake(r, Writing \cup Deleting(p))
  /\ UNCHANGED <<kind, dep, late>>

CommitCreateCategory(r) ==
  /\ At(r, "create")
  /\ request[r].id \notin Rows
  /\ StoreCategory(r, request[r].id, request[r].name, request[r].parent)

CommitUpdateCategory(r) ==
  LET q == request[r]  old == row[q.id] IN
  /\ At(r, "update")
  /\ q.id \in Rows
  /\ StoreCategory(r, q.id, IF q.name = Keep THEN old.name ELSE q.name,
                            IF q.parent = Keep THEN old.parent ELSE q.parent)

-----------------------------------------------------------------------------
(* Deletion: count what depends on the row, then delete it by id. *)

\* Mutant: open orders of a customer are not counted.
OrdersUncounted(i) == kind = "customer" \/ DepsOf(i) = {}

\* What a deletion counts: every dependant of a location, a category (its
\* children too) or a group, the open orders of a supplier or a customer.
Free(i) ==
  CASE kind = "location" -> DepsOf(i) = {}
    [] kind = "category" -> DepsOf(i) = {} /\ Children(i) = {}
    [] kind = "group" -> DepsOf(i) = {}
    [] kind \in {"supplier", "customer"} -> OpenOf(i) = {}

BeginDelete(r, i) ==
  /\ At(r, "idle")
  /\ i \in Rows
  /\ kind = "supplier" => row[i].active
  /\ Free(i)
  /\ Do(r, [step |-> "delete", id |-> i, stale |-> FALSE])
  /\ UNCHANGED <<kind, row, dep, slipped, late>>

\* The row goes; its children and dependants stay without it.
Remove(r, i) ==
  /\ row' = [j \in Ids |-> IF j = i THEN NoRow
                           ELSE IF j \in Children(i) THEN Row(row[j].name, None, row[j].active)
                           ELSE row[j]]
  /\ dep' = [d \in Deps |-> IF d \in DepsOf(i) THEN Tied(None, dep[d].open) ELSE dep[d]]
  /\ slipped' = (slipped \ {i}) \cup Children(i)
  /\ late' = IF request[r].stale THEN late \cup DepsOf(i) ELSE late
  /\ Overtake(r, Writing)

\* The ledger keeps a location that has any stock row.
DeleteLocation(r, i) ==
  /\ kind = "location"
  /\ DepsOf(i) = {}
  /\ Remove(r, i)

DeleteCategory(r, i) == kind = "category" /\ Remove(r, i)
DeleteCustomer(r, i) == kind = "customer" /\ Remove(r, i)
DeleteGroup(r, i) == kind = "group" /\ Remove(r, i)

\* A supplier is deactivated, never deleted.
DeleteSupplier(r, i) ==
  /\ kind = "supplier"
  /\ row' = [row EXCEPT ![i] = Row(@.name, @.parent, FALSE)]
  /\ late' = IF request[r].stale THEN late \cup OpenOf(i) ELSE late
  /\ Overtake(r, Placing(i))
  /\ UNCHANGED <<dep, slipped>>

CommitDelete(r) ==
  LET i == request[r].id IN
  /\ At(r, "delete")
  /\ i \in Rows
  /\ \/ DeleteLocation(r, i) \/ DeleteCategory(r, i) \/ DeleteSupplier(r, i)
     \/ DeleteCustomer(r, i) \/ DeleteGroup(r, i)
  /\ UNCHANGED kind

-----------------------------------------------------------------------------
(* Dependants come, close, open again and go in other components. *)

\* A new row finds its owner; a purchase order wants it active.
BeginPlace(r, d, i) ==
  /\ kind # "group"
  /\ At(r, "idle")
  /\ dep[d] = Untied
  /\ i \in Rows
  /\ kind = "supplier" => row[i].active
  /\ Do(r, [step |-> "place", dep |-> d, id |-> i, stale |-> FALSE])
  /\ UNCHANGED <<kind, row, dep, slipped, late>>

\* The foreign key finds it again, active or not.
CommitPlace(r) ==
  LET d == request[r].dep  i == request[r].id IN
  /\ At(r, "place")
  /\ dep[d] = Untied
  /\ i \in Rows
  /\ dep' = [dep EXCEPT ![d] = Tied(i, TRUE)]
  /\ late' = IF request[r].stale THEN late \cup {d} ELSE late \ {d}
  /\ Overtake(r, Deleting(i))
  /\ UNCHANGED <<kind, row, slipped>>

\* Orders, for which a deletion counts those that are open.
Ordered(d) == kind \in {"supplier", "customer"} /\ dep[d] # Untied

\* An order is completed, cancelled or returned, a purchase order received or
\* cancelled.
Close(d) ==
  /\ Ordered(d) /\ dep[d].open
  /\ dep' = [dep EXCEPT ![d] = Tied(@.owner, FALSE)]
  /\ UNCHANGED <<kind, row, request, slipped, late>>

\* The supplier or the customer that an open order is to have.
Standing(i) == i \in Rows /\ (kind = "supplier" => row[i].active)

\* updateOrderById refuses a new status to a completed or cancelled order only, so
\* that a returned one is worked on again; and a status decided before the order
\* was closed, of a purchase order too, is written after. Nobody looks for the
\* customer or the supplier.
Reopen(d) ==
  LET i == dep[d].owner IN
  /\ Ordered(d) /\ ~dep[d].open
  /\ dep' = [dep EXCEPT ![d] = Tied(i, TRUE)]
  /\ late' = IF Standing(i) THEN late \ {d} ELSE late \cup {d}
  /\ Overtake(None, IF i = None THEN {} ELSE Deleting(i))
  /\ UNCHANGED <<kind, row, slipped>>

\* A product leaves a category.
LeaveCategory(d) ==
  /\ kind = "category"
  /\ dep[d] # Untied
  /\ dep' = [dep EXCEPT ![d] = Untied]
  /\ UNCHANGED <<kind, row, request, slipped, late>>

\* A check that fails in the database, an error, a restart.
Abandon(r) ==
  /\ ~At(r, "idle")
  /\ Do(r, Idle)
  /\ UNCHANGED <<kind, row, dep, slipped, late>>

Next ==
  \/ \E i \in Ids, n \in Names :
       \/ CreateSupplier(i, n) \/ CreateGroup(i, n) \/ UpdateGroup(i, n)
       \/ \E p \in Ids \cup {None} : CreateLocation(i, n, p)
       \/ \E p \in Ids \cup {None}, a \in BOOLEAN : UpdateLocation(i, n, p, a)
       \/ \E a \in BOOLEAN : UpdateSupplier(i, n, a)
  \/ \E i \in Ids, n \in Names \cup {None} : CreateCustomer(i, n)
  \/ \E d \in Deps, i \in Ids \cup {None} : UpdateCustomer(d, i)
  \/ \E d \in Deps : Close(d) \/ Reopen(d) \/ LeaveCategory(d)
  \/ \E r \in Requests, i \in Ids :
       \/ \E n \in Names, p \in Ids \cup {None} : BeginCreateCategory(r, i, n, p)
       \/ \E n \in Names \cup {Keep}, p \in Ids \cup {None, Keep} : BeginUpdateCategory(r, i, n, p)
       \/ \E d \in Deps : BeginPlace(r, d, i)
       \/ BeginDelete(r, i)
  \/ \E r \in Requests :
       \/ CommitCreateCategory(r) \/ CommitUpdateCategory(r)
       \/ CommitDelete(r) \/ CommitPlace(r) \/ Abandon(r)

Spec == Init /\ [][Next]_vars

-----------------------------------------------------------------------------
(* Properties. *)

\* An open order keeps its supplier active and its customer, a product its
\* category, a customer its group and stock its location, whatever is deleted.
\* The exceptions are what was placed or opened again after the deletion had
\* counted, orders opened again when their customer had gone, and suppliers
\* deactivated by an update, which counts nothing. Stock has no exception.
OpenKeepsOwner ==
  \A d \in IF kind = "location" THEN Deps ELSE Deps \ late :
    dep[d] # Untied /\ dep[d].open => Standing(dep[d].owner)

\* Two rows with one name are categories: of different parents, or at the
\* top and one of them came there without a valid look at its siblings (a
\* move that keeps the name, a parent deleted, two requests at once).
NamesDiffer ==
  \A i, j \in Rows :
    i # j /\ row[i].name = row[j].name /\ row[i].name # None =>
      /\ kind = "category"
      /\ row[i].parent # row[j].parent \/ (row[i].parent = None /\ {i, j} \cap slipped # {})
=============================================================================
