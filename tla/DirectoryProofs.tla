---------------------------- MODULE DirectoryProofs ----------------------------
(***************************************************************************)
(* Theorems about the master data of a tenant: about Directory, for any    *)
(* ids, names, dependants and concurrent requests and each of the five     *)
(* services, and about Catalogue, for any products, categories, locations  *)
(* and scopes. The two share nothing but the module of their proofs.       *)
(***************************************************************************)
EXTENDS Directory, Catalogue, TLAPS

\* Rows and dependants that exist are not the placeholders of those that do not.
LEMMA RowExists == \A n, p, a : Row(n, p, a) # NoRow
  BY DEF Row, NoRow

LEMMA TiedExists == \A i, open : Tied(i, open) # Untied
  BY DEF Tied, Untied

\* What a request in flight is, by its step.
LEMMA RequestFacts ==
  ASSUME TypeOK, NEW q \in Requests, request[q] # Idle
  PROVE  /\ request[q].step \in {"create", "update", "delete", "place"}
         /\ request[q].id \in Ids /\ request[q].stale \in BOOLEAN
         /\ request[q].step = "place" => request[q].dep \in Deps
         /\ request[q].step = "create" =>
              request[q].name \in Names /\ request[q].parent \in Ids \cup {None}
         /\ request[q].step = "update" =>
              request[q].name \in Names \cup {Keep} /\ request[q].parent \in Ids \cup {None, Keep}
  BY DEF TypeOK, RequestState

\* What is left of the requests when r is done and those in R are overtaken.
Overtaken(R) ==
  \A q \in Requests :
    \/ request'[q] = Idle
    \/ /\ request[q] # Idle /\ request'[q] # Idle
       /\ request'[q].step = request[q].step
       /\ request'[q].id = request[q].id
       /\ q \in R => request'[q].stale
       /\ ~request'[q].stale => ~request[q].stale

LEMMA OvertakeLeaves ==
  ASSUME TypeOK, NEW r, NEW R, \A q \in R : q \in Requests /\ request[q] # Idle, Overtake(r, R)
  PROVE  /\ request' \in [Requests -> RequestState]
         /\ Overtaken(R)
<1>1. ASSUME NEW q \in Requests
      PROVE  /\ request'[q] \in RequestState
             /\ \/ request'[q] = Idle
                \/ /\ request[q] # Idle /\ request'[q] # Idle
                   /\ request'[q].step = request[q].step
                   /\ request'[q].id = request[q].id
                   /\ q \in R => request'[q].stale
                   /\ ~request'[q].stale => ~request[q].stale
  <2>1. CASE q = r
    BY <2>1 DEF Overtake, RequestState
  <2>2. CASE q # r /\ q \in R
    <3>1. request'[q] = [request[q] EXCEPT !.stale = TRUE]
      BY <2>2 DEF Overtake
    <3>2. request[q] \in RequestState \ {Idle}
      BY <2>2 DEF TypeOK
    <3>3. /\ [request[q] EXCEPT !.stale = TRUE] \in RequestState \ {Idle}
          /\ [request[q] EXCEPT !.stale = TRUE].step = request[q].step
          /\ [request[q] EXCEPT !.stale = TRUE].id = request[q].id
          /\ [request[q] EXCEPT !.stale = TRUE].stale = TRUE
      BY <3>2 DEF RequestState, Idle
    <3> QED
      BY <2>2, <3>1, <3>2, <3>3
  <2>3. CASE q # r /\ q \notin R
    BY <2>3 DEF Overtake, TypeOK
  <2> QED
    BY <2>1, <2>2, <2>3
<1>2. request' = [q \in Requests |-> request'[q]]
  BY DEF Overtake
<1> QED
  BY <1>1, <1>2 DEF Overtaken
-----------------------------------------------------------------------------

\* What a deletion counted is still so unless something was placed since.
DeletesFree ==
  \A q \in Requests, d \in Deps :
    At(q, "delete") /\ ~request[q].stale /\ dep[d] # Untied /\ dep[d].owner = request[q].id
      => ~dep[d].open

\* The supplier an order found is still active unless it was deactivated since.
PlacesActive ==
  \A q \in Requests :
    kind = "supplier" /\ At(q, "place") /\ ~request[q].stale
      => request[q].id \in Rows /\ row[request[q].id].active

\* OpenKeepsOwner, of all but the dependants that are late.
OwnersKept ==
  \A d \in Deps \ late :
    dep[d] # Untied /\ dep[d].open =>
      dep[d].owner \in Rows /\ (kind = "supplier" => row[dep[d].owner].active)

DirectoryInv == TypeOK /\ DeletesFree /\ PlacesActive /\ OwnersKept

\* Nothing is in flight at the start.
LEMMA DirectoryInitially ==
  ASSUME Init
  PROVE  DirectoryInv
  BY DEF Init, DirectoryInv, TypeOK, RowState, DepState, RequestState, DeletesFree, PlacesActive,
     OwnersKept, At, Idle

\* The request of a step that begins or ends alone: the others stay.
LEMMA DoLeaves ==
  ASSUME TypeOK, NEW r \in Requests, NEW next \in RequestState, Do(r, next)
  PROVE  /\ request' \in [Requests -> RequestState]
         /\ request'[r] = next
         /\ \A q \in Requests \ {r} : request'[q] = request[q]
  BY DEF TypeOK, Do

\* A step that leaves the dependants alone, takes no row and deactivates
\* none that an open order relies on keeps the invariant.
LEMMA RowsGrow ==
  ASSUME DirectoryInv, TypeOK',
         UNCHANGED <<kind, dep>>, late \subseteq late', Overtaken({}),
         \A i \in Rows : i \in Rows' /\ (kind = "supplier" /\ row[i].active => row'[i].active)
  PROVE  DirectoryInv'
<1> USE DEF DirectoryInv
<1>1. DeletesFree'
  BY DEF DeletesFree, Overtaken, At, Idle
<1>2. PlacesActive'
  BY DEF PlacesActive, Overtaken, At, Idle
<1>3. OwnersKept'
  BY DEF OwnersKept
<1> QED
  BY <1>1, <1>2, <1>3

-----------------------------------------------------------------------------

\* A row is created, or updated without deactivating it.
LEMMA WriteKeeps ==
  ASSUME DirectoryInv, NEW i \in Ids, NEW n \in Names \cup {None}, NEW p \in Ids \cup {None},
         NEW a \in BOOLEAN, kind = "supplier" => a, Write(i, Row(n, p, a))
  PROVE  DirectoryInv'
<1>1. Row(n, p, a) \in RowState /\ Row(n, p, a) # NoRow /\ Row(n, p, a).active = a
  BY RowExists DEF Row, RowState
<1>2. row' \in [Ids -> RowState]
  BY <1>1 DEF DirectoryInv, TypeOK, Write
<1>3. TypeOK'
  BY <1>2 DEF DirectoryInv, TypeOK, Write
<1>4. Overtaken({})
  BY DEF Write, Overtaken
<1>5. \A j \in Rows : j \in Rows' /\ (kind = "supplier" /\ row[j].active => row'[j].active)
  BY <1>1 DEF DirectoryInv, TypeOK, Write, Rows
<1> QED
  BY <1>3, <1>4, <1>5, RowsGrow DEF Write

\* A supplier is deactivated: its open orders may lose it, and the requests
\* R that found it active are overtaken.
LEMMA DeactivationKeeps ==
  ASSUME DirectoryInv, TypeOK', NEW i \in Ids, kind = "supplier", UNCHANGED <<kind, dep>>,
         late \subseteq late', Overtaken(Placing(i)), i \in Rows,
         \A j \in Rows : j \in Rows' /\ (j # i /\ row[j].active => row'[j].active),
         OpenOf(i) \subseteq late'
  PROVE  DirectoryInv'
<1> USE DEF DirectoryInv
<1>1. DeletesFree'
  BY DEF DeletesFree, Overtaken, At, Idle
<1>2. PlacesActive'
  BY DEF PlacesActive, Overtaken, Placing, At, Idle
<1>3. OwnersKept'
  BY DEF OwnersKept, OpenOf, DepsOf
<1> QED
  BY <1>1, <1>2, <1>3

\* isActive is set by an update of the supplier.
LEMMA UpdateSupplierKeeps ==
  ASSUME DirectoryInv, NEW i \in Ids, NEW n \in Names, NEW a \in BOOLEAN, UpdateSupplier(i, n, a)
  PROVE  DirectoryInv'
<1>1. Row(n, None, a) \in RowState /\ Row(n, None, a) # NoRow /\ Row(n, None, a).active = a
  BY RowExists DEF Row, RowState
<1>2. row' \in [Ids -> RowState]
  BY <1>1 DEF DirectoryInv, TypeOK, UpdateSupplier
<1> DEFINE R == IF a THEN {} ELSE Placing(i)
<1>3. request' \in [Requests -> RequestState] /\ Overtaken(R)
  <2>1. \A q \in R : q \in Requests /\ request[q] # Idle
    BY DEF Placing, At, Idle
  <2>2. Overtake(None, R)
    BY DEF UpdateSupplier
  <2> HIDE DEF R
  <2> QED
    BY <2>1, <2>2, OvertakeLeaves DEF DirectoryInv
<1>4. TypeOK'
  BY <1>2, <1>3 DEF DirectoryInv, TypeOK, UpdateSupplier, OpenOf, DepsOf
<1>5. \A j \in Rows : j \in Rows' /\ (j # i /\ row[j].active => row'[j].active)
  BY <1>1 DEF DirectoryInv, TypeOK, UpdateSupplier, Rows
<1>6. a => row'[i].active
  BY <1>1 DEF DirectoryInv, TypeOK, UpdateSupplier
<1>7. CASE a
  BY <1>3, <1>4, <1>5, <1>6, <1>7, RowsGrow DEF UpdateSupplier
<1>8. CASE ~a
  BY <1>3, <1>4, <1>5, <1>8, DeactivationKeeps DEF UpdateSupplier
<1> QED
  BY <1>7, <1>8

\* A customer joins a group, or leaves it.
LEMMA UpdateCustomerKeeps ==
  ASSUME DirectoryInv, NEW d \in Deps, NEW i \in Ids \cup {None}, UpdateCustomer(d, i)
  PROVE  DirectoryInv'
<1> DEFINE R == IF i = None THEN {} ELSE Deleting(i)
<1>1. Tied(i, TRUE) \in DepState /\ Tied(i, TRUE) # Untied
      /\ Tied(i, TRUE).owner = i /\ Tied(i, TRUE).open = TRUE
  BY TiedExists DEF Tied, DepState
<1>2. /\ dep' \in [Deps -> DepState]
      /\ dep'[d] = IF i = None THEN Untied ELSE Tied(i, TRUE)
      /\ \A e \in Deps \ {d} : dep'[e] = dep[e]
  BY <1>1 DEF DirectoryInv, TypeOK, UpdateCustomer, DepState
<1>3. request' \in [Requests -> RequestState] /\ Overtaken(R)
  <2>1. \A q \in R : q \in Requests /\ request[q] # Idle
    BY DEF Deleting, At, Idle
  <2>2. Overtake(None, R)
    BY DEF UpdateCustomer
  <2> HIDE DEF R
  <2> QED
    BY <2>1, <2>2, OvertakeLeaves DEF DirectoryInv
<1>4. TypeOK'
  BY <1>2, <1>3 DEF DirectoryInv, TypeOK, UpdateCustomer
<1>5. DeletesFree'
  <2> SUFFICES ASSUME NEW q \in Requests, NEW e \in Deps, At(q, "delete")', ~request'[q].stale,
                      dep'[e] # Untied, dep'[e].owner = request'[q].id
               PROVE  ~dep'[e].open
    BY DEF DeletesFree
  <2>1. /\ At(q, "delete") /\ ~request[q].stale /\ request'[q].id = request[q].id /\ q \notin R
    BY <1>3 DEF Overtaken, At, Idle
  <2>2. CASE e = d
    BY <1>1, <1>2, <2>1, <2>2 DEF Deleting
  <2>3. CASE e # d
    BY <1>2, <2>1, <2>3 DEF DirectoryInv, DeletesFree
  <2> QED
    BY <2>2, <2>3
<1>6. PlacesActive'
  BY DEF PlacesActive, UpdateCustomer
<1>7. OwnersKept'
  BY <1>1, <1>2 DEF DirectoryInv, OwnersKept, UpdateCustomer, Parents, Rows
<1> QED
  BY <1>4, <1>5, <1>6, <1>7 DEF DirectoryInv

-----------------------------------------------------------------------------

\* A request begins with a check that says of the rows what it relies on,
\* or is abandoned.
LEMMA DoKeeps ==
  ASSUME DirectoryInv, NEW r \in Requests, NEW next \in RequestState, Do(r, next),
         UNCHANGED <<kind, row, dep, slipped, late>>,
         next.step = "delete" => OpenOf(next.id) = {},
         next.step = "place" /\ kind = "supplier" => next.id \in Rows /\ row[next.id].active
  PROVE  DirectoryInv'
<1> USE DEF DirectoryInv
<1>1. /\ request' \in [Requests -> RequestState]
      /\ request'[r] = next
      /\ \A q \in Requests \ {r} : request'[q] = request[q]
  BY DoLeaves
<1>2. TypeOK'
  BY <1>1 DEF TypeOK
<1>3. DeletesFree'
  BY <1>1 DEF DeletesFree, At, OpenOf, DepsOf
<1>4. PlacesActive'
  BY <1>1 DEF PlacesActive, At, Rows
<1>5. OwnersKept'
  BY DEF OwnersKept, Rows
<1> QED
  BY <1>2, <1>3, <1>4, <1>5

\* The requests on categories.
LEMMA BeginCategoryKeeps ==
  ASSUME DirectoryInv, NEW r \in Requests, NEW i \in Ids,
         NEW n \in Names \cup {Keep}, NEW p \in Ids \cup {None, Keep},
         \/ n # Keep /\ p # Keep /\ BeginCreateCategory(r, i, n, p)
         \/ BeginUpdateCategory(r, i, n, p)
  PROVE  DirectoryInv'
<1>1. CASE n # Keep /\ p # Keep /\ BeginCreateCategory(r, i, n, p)
  <2> DEFINE next == CategoryRequest("create", i, n, p, TRUE)
  <2>1. Do(r, next) /\ UNCHANGED <<kind, row, dep, slipped, late>>
    BY <1>1 DEF BeginCreateCategory
  <2>2. next \in RequestState /\ next.step = "create"
    BY <1>1 DEF CategoryRequest, RequestState
  <2> HIDE DEF next
  <2> QED
    BY <2>1, <2>2, DoKeeps
<1>2. CASE BeginUpdateCategory(r, i, n, p)
  <2> DEFINE renamed == n # Keep /\ n # row[i].name
             next == CategoryRequest("update", i, n, p, renamed)
  <2>1. Do(r, next) /\ UNCHANGED <<kind, row, dep, slipped, late>>
    BY <1>2 DEF BeginUpdateCategory
  <2>2. next \in RequestState /\ next.step = "update"
    <3>1. renamed \in BOOLEAN
      OBVIOUS
    <3> HIDE DEF renamed
    <3> QED
      BY <3>1 DEF CategoryRequest, RequestState
  <2> HIDE DEF next
  <2> QED
    BY <2>1, <2>2, DoKeeps
<1> QED
  BY <1>1, <1>2

LEMMA BeginDeleteKeeps ==
  ASSUME DirectoryInv, NEW r \in Requests, NEW i \in Ids, BeginDelete(r, i)
  PROVE  DirectoryInv'
<1> DEFINE next == [step |-> "delete", id |-> i, stale |-> FALSE]
<1>1. next \in RequestState /\ next.step = "delete" /\ next.id = i
  BY DEF RequestState
<1>2. Do(r, next) /\ UNCHANGED <<kind, row, dep, slipped, late>>
  BY DEF BeginDelete
<1>3. OpenOf(i) = {}
  BY DEF BeginDelete, Free, OpenOf, DirectoryInv, TypeOK
<1> HIDE DEF next
<1> QED
  BY <1>1, <1>2, <1>3, DoKeeps

LEMMA BeginPlaceKeeps ==
  ASSUME DirectoryInv, NEW r \in Requests, NEW d \in Deps, NEW i \in Ids, BeginPlace(r, d, i)
  PROVE  DirectoryInv'
<1> DEFINE next == [step |-> "place", dep |-> d, id |-> i, stale |-> FALSE]
<1>1. next \in RequestState /\ next.step = "place" /\ next.id = i
  BY DEF RequestState
<1>2. Do(r, next) /\ UNCHANGED <<kind, row, dep, slipped, late>>
  BY DEF BeginPlace
<1>3. i \in Rows /\ (kind = "supplier" => row[i].active)
  BY DEF BeginPlace
<1> HIDE DEF next
<1> QED
  BY <1>1, <1>2, <1>3, DoKeeps

LEMMA AbandonKeeps ==
  ASSUME DirectoryInv, NEW r \in Requests, Abandon(r)
  PROVE  DirectoryInv'
<1>1. Idle \in RequestState /\ Idle.step = "idle"
  BY DEF RequestState, Idle
<1> QED
  BY <1>1, DoKeeps DEF Abandon

\* What a category request stores is a row.
LEMMA StoreKeeps ==
  ASSUME DirectoryInv, NEW r \in Requests, NEW i \in Ids,
         NEW n \in Names \cup {None}, NEW p \in Ids \cup {None},
         StoreCategory(r, i, n, p)
  PROVE  DirectoryInv'
<1>1. Row(n, p, TRUE) \in RowState /\ Row(n, p, TRUE) # NoRow /\ Row(n, p, TRUE).active
  BY RowExists DEF Row, RowState
<1>2. row' \in [Ids -> RowState]
  BY <1>1 DEF DirectoryInv, TypeOK, StoreCategory
<1> DEFINE R == Writing \cup Deleting(p)
<1>3. request' \in [Requests -> RequestState] /\ Overtaken(R)
  <2>1. \A q \in R : q \in Requests /\ request[q] # Idle
    BY DEF Writing, Deleting, At, Idle
  <2>2. Overtake(r, R)
    BY DEF StoreCategory
  <2> HIDE DEF R
  <2> QED
    BY <2>1, <2>2, OvertakeLeaves DEF DirectoryInv
<1>4. TypeOK'
  BY <1>2, <1>3 DEF DirectoryInv, TypeOK, StoreCategory
<1>5. Overtaken({})
  BY <1>3 DEF Overtaken
<1>6. \A j \in Rows : j \in Rows' /\ (kind = "supplier" /\ row[j].active => row'[j].active)
  BY <1>1 DEF DirectoryInv, TypeOK, StoreCategory, Rows
<1> QED
  BY <1>4, <1>5, <1>6, RowsGrow DEF StoreCategory

LEMMA CommitCategoryKeeps ==
  ASSUME DirectoryInv, NEW r \in Requests, CommitCreateCategory(r) \/ CommitUpdateCategory(r)
  PROVE  DirectoryInv'
<1> DEFINE q == request[r]  old == row[q.id]
           n == IF q.name = Keep THEN old.name ELSE q.name
           p == IF q.parent = Keep THEN old.parent ELSE q.parent
<1>1. CASE CommitCreateCategory(r)
  <2>1. q.id \in Ids /\ q.name \in Names /\ q.parent \in Ids \cup {None}
    BY <1>1, RequestFacts DEF CommitCreateCategory, At, Idle, DirectoryInv
  <2> QED
    BY <1>1, <2>1, StoreKeeps DEF CommitCreateCategory
<1>2. CASE CommitUpdateCategory(r)
  <2>1. q.id \in Ids /\ q.name \in Names \cup {Keep} /\ q.parent \in Ids \cup {None, Keep}
    BY <1>2, RequestFacts DEF CommitUpdateCategory, At, Idle, DirectoryInv
  <2>2. old.name \in Names \cup {None} /\ old.parent \in Ids \cup {None}
    BY <1>2, <2>1 DEF CommitUpdateCategory, Rows, DirectoryInv, TypeOK, RowState
  <2>3. n \in Names \cup {None} /\ p \in Ids \cup {None}
    BY <2>1, <2>2
  <2>4. StoreCategory(r, q.id, n, p)
    BY <1>2 DEF CommitUpdateCategory
  <2> HIDE DEF q, n, p
  <2> QED
    BY <2>1, <2>3, <2>4, StoreKeeps
<1> QED
  BY <1>1, <1>2

-----------------------------------------------------------------------------

\* A row goes: what nothing counted against it is not open.
LEMMA RemoveKeeps ==
  ASSUME DirectoryInv, NEW r \in Requests, NEW i \in Ids, At(r, "delete"), request[r].id = i,
         kind # "supplier", UNCHANGED kind, Remove(r, i)
  PROVE  DirectoryInv'
<1>1. row' \in [Ids -> RowState] /\ \A j \in Rows \ {i} : j \in Rows'
  <2>1. ASSUME NEW j \in Ids
        PROVE  row'[j] \in RowState /\ (j \in Rows \ {i} => row'[j] # NoRow)
    <3>1. CASE j = i
      BY <3>1 DEF Remove, RowState
    <3>2. CASE j # i /\ j \in Children(i)
      <4>1. row[j].name \in Names \cup {None} /\ row[j].active \in BOOLEAN
        BY <3>2 DEF Children, Rows, DirectoryInv, TypeOK, RowState
      <4>2. row'[j] = Row(row[j].name, None, row[j].active)
        BY <3>2 DEF Remove
      <4>3. Row(row[j].name, None, row[j].active) \in RowState
        BY <4>1 DEF Row, RowState
      <4> QED
        BY <4>2, <4>3, RowExists
    <3>3. CASE j # i /\ j \notin Children(i)
      BY <3>3 DEF Remove, Rows, DirectoryInv, TypeOK
    <3> QED
      BY <3>1, <3>2, <3>3
  <2>2. row' = [j \in Ids |-> row'[j]]
    BY DEF Remove
  <2> QED
    BY <2>1, <2>2 DEF Rows
<1>2. ASSUME NEW d \in Deps
      PROVE  /\ dep'[d] \in DepState
             /\ d \notin DepsOf(i) => dep'[d] = dep[d]
             /\ d \in DepsOf(i) => dep'[d].open = dep[d].open /\ dep'[d].owner = None
  <2>1. CASE d \in DepsOf(i)
    <3>1. dep[d].open \in BOOLEAN
      BY <2>1 DEF DepsOf, DirectoryInv, TypeOK, DepState
    <3>2. dep'[d] = Tied(None, dep[d].open)
      BY <2>1 DEF Remove
    <3> QED
      BY <2>1, <3>1, <3>2 DEF Tied, DepState
  <2>2. CASE d \notin DepsOf(i)
    BY <2>2 DEF Remove, DirectoryInv, TypeOK
  <2> QED
    BY <2>1, <2>2
<1>3. dep' \in [Deps -> DepState]
  BY <1>2 DEF Remove
<1>4. request' \in [Requests -> RequestState] /\ Overtaken(Writing)
  <2>1. \A q \in Writing : q \in Requests /\ request[q] # Idle
    BY DEF Writing, At, Idle
  <2> QED
    BY <2>1, OvertakeLeaves DEF Remove, DirectoryInv
<1>5. TypeOK'
  BY <1>1, <1>3, <1>4 DEF Remove, Children, DepsOf, Rows, DirectoryInv, TypeOK
<1>6. DeletesFree'
  <2> SUFFICES ASSUME NEW q \in Requests, NEW d \in Deps, At(q, "delete")', ~request'[q].stale,
                      dep'[d] # Untied, dep'[d].owner = request'[q].id
               PROVE  ~dep'[d].open
    BY DEF DeletesFree
  <2>1. At(q, "delete") /\ ~request[q].stale /\ request'[q].id = request[q].id /\ request[q].id \in Ids
    BY <1>4, RequestFacts DEF Overtaken, At, Idle, DirectoryInv
  <2>2. d \notin DepsOf(i)
    BY <1>2, <2>1, DirectoryAssumption
  <2> QED
    BY <1>2, <2>1, <2>2 DEF DirectoryInv, DeletesFree
<1>7. PlacesActive'
  BY DEF PlacesActive
<1>8. OwnersKept'
  <2> SUFFICES ASSUME NEW d \in Deps \ late', dep'[d] # Untied, dep'[d].open
               PROVE  dep'[d].owner \in Rows'
    BY DEF OwnersKept
  <2>1. d \notin late
    BY DEF Remove
  <2>2. d \notin DepsOf(i)
    <3>1. CASE request[r].stale
      BY <3>1 DEF Remove
    <3>2. CASE ~request[r].stale
      BY <1>2, <3>2 DEF DirectoryInv, DeletesFree, DepsOf
    <3> QED
      BY <3>1, <3>2
  <2>3. dep[d] # Untied /\ dep[d].open /\ dep'[d].owner = dep[d].owner
    BY <1>2, <2>2
  <2>4. dep[d].owner \in Rows
    BY <2>1, <2>3 DEF DirectoryInv, OwnersKept
  <2>5. dep[d].owner # i
    BY <2>2, <2>3 DEF DepsOf
  <2> QED
    BY <1>1, <2>3, <2>4, <2>5
<1> QED
  BY <1>5, <1>6, <1>7, <1>8 DEF DirectoryInv

LEMMA DeleteSupplierKeeps ==
  ASSUME DirectoryInv, NEW r \in Requests, NEW i \in Ids, At(r, "delete"), request[r].id = i,
         i \in Rows, UNCHANGED kind, DeleteSupplier(r, i)
  PROVE  DirectoryInv'
<1>1. row[i].name \in Names \cup {None} /\ row[i].parent \in Ids \cup {None}
  BY DEF Rows, DirectoryInv, TypeOK, RowState
<1>2. Row(row[i].name, row[i].parent, FALSE) \in RowState
  BY <1>1 DEF Row, RowState
<1>3. /\ row' \in [Ids -> RowState]
      /\ \A j \in Rows : j \in Rows' /\ (j # i /\ row[j].active => row'[j].active)
  BY <1>2, RowExists DEF DeleteSupplier, Rows, DirectoryInv, TypeOK
<1>4. request' \in [Requests -> RequestState] /\ Overtaken(Placing(i))
  <2>1. \A q \in Placing(i) : q \in Requests /\ request[q] # Idle
    BY DEF Placing, At, Idle
  <2> QED
    BY <2>1, OvertakeLeaves DEF DeleteSupplier, DirectoryInv
<1>5. late' \subseteq Deps /\ late \subseteq late'
  BY DEF DeleteSupplier, OpenOf, DepsOf, DirectoryInv, TypeOK
<1>6. TypeOK'
  BY <1>3, <1>4, <1>5 DEF DeleteSupplier, DirectoryInv, TypeOK
<1>7. OpenOf(i) \subseteq late'
  BY DEF DeleteSupplier, OpenOf, DepsOf, DirectoryInv, DeletesFree
<1> QED
  BY <1>3, <1>4, <1>5, <1>6, <1>7, DeactivationKeeps DEF DeleteSupplier

LEMMA CommitDeleteKeeps ==
  ASSUME DirectoryInv, NEW r \in Requests, CommitDelete(r)
  PROVE  DirectoryInv'
<1> DEFINE i == request[r].id
<1>1. At(r, "delete") /\ i \in Rows /\ i \in Ids /\ UNCHANGED kind
  BY DEF CommitDelete, Rows
<1>2. CASE DeleteSupplier(r, i)
  BY <1>1, <1>2, DeleteSupplierKeeps
<1>3. CASE kind # "supplier" /\ Remove(r, i)
  BY <1>1, <1>3, RemoveKeeps
<1> QED
  BY <1>2, <1>3 DEF CommitDelete, DeleteLocation, DeleteCategory, DeleteCustomer, DeleteGroup

-----------------------------------------------------------------------------

\* A dependant finds its owner and is stored with it.
LEMMA CommitPlaceKeeps ==
  ASSUME DirectoryInv, NEW r \in Requests, CommitPlace(r)
  PROVE  DirectoryInv'
<1> DEFINE d == request[r].dep  i == request[r].id
<1>1. At(r, "place") /\ d \in Deps /\ i \in Rows /\ i \in Ids
  BY RequestFacts DEF CommitPlace, At, Idle, Rows, DirectoryInv
<1>2. Tied(i, TRUE) \in DepState /\ Tied(i, TRUE).owner = i /\ Tied(i, TRUE).open
  BY <1>1 DEF Tied, DepState
<1>3. /\ dep' \in [Deps -> DepState]
      /\ dep'[d] = Tied(i, TRUE)
      /\ \A e \in Deps \ {d} : dep'[e] = dep[e]
  BY <1>1, <1>2 DEF CommitPlace, DirectoryInv, TypeOK
<1>4. request' \in [Requests -> RequestState] /\ Overtaken(Deleting(i))
  <2>1. \A q \in Deleting(i) : q \in Requests /\ request[q] # Idle
    BY DEF Deleting, At, Idle
  <2> QED
    BY <2>1, OvertakeLeaves DEF CommitPlace, DirectoryInv
<1>5. TypeOK'
  BY <1>1, <1>3, <1>4 DEF CommitPlace, DirectoryInv, TypeOK
<1>6. DeletesFree'
  <2> SUFFICES ASSUME NEW q \in Requests, NEW e \in Deps, At(q, "delete")', ~request'[q].stale,
                      dep'[e] # Untied, dep'[e].owner = request'[q].id
               PROVE  ~dep'[e].open
    BY DEF DeletesFree
  <2>1. At(q, "delete") /\ ~request[q].stale /\ request'[q].id = request[q].id /\ q \notin Deleting(i)
    BY <1>4 DEF Overtaken, At, Idle
  <2>2. CASE e = d
    BY <1>2, <1>3, <2>1, <2>2 DEF Deleting
  <2>3. CASE e # d
    BY <1>3, <2>1, <2>3 DEF DirectoryInv, DeletesFree
  <2> QED
    BY <2>2, <2>3
<1>7. PlacesActive'
  BY <1>4 DEF CommitPlace, DirectoryInv, PlacesActive, Overtaken, Rows, At, Idle
<1>8. OwnersKept'
  <2>1. ~request[r].stale /\ kind = "supplier" => row[i].active
    BY <1>1 DEF DirectoryInv, PlacesActive
  <2> SUFFICES ASSUME NEW e \in Deps \ late', dep'[e] # Untied, dep'[e].open
               PROVE  dep'[e].owner \in Rows /\ (kind = "supplier" => row[dep'[e].owner].active)
    BY DEF OwnersKept, CommitPlace, Rows
  <2>2. CASE e = d
    BY <1>1, <1>2, <1>3, <2>1, <2>2 DEF CommitPlace
  <2>3. CASE e # d
    BY <1>3, <2>3 DEF CommitPlace, DirectoryInv, OwnersKept
  <2> QED
    BY <2>2, <2>3
<1> QED
  BY <1>5, <1>6, <1>7, <1>8 DEF DirectoryInv

\* A dependant is closed, or leaves its owner: one less that is open.
LEMMA CloseKeeps ==
  ASSUME DirectoryInv, NEW d \in Deps, Close(d) \/ LeaveCategory(d)
  PROVE  DirectoryInv'
<1>1. /\ dep' \in [Deps -> DepState]
      /\ dep'[d] = Untied \/ ~dep'[d].open
      /\ \A e \in Deps \ {d} : dep'[e] = dep[e]
  <2>1. CASE Close(d)
    <3>1. dep[d].owner \in Ids \cup {None}
      BY <2>1 DEF Close, Ordered, DirectoryInv, TypeOK, DepState
    <3>2. Tied(dep[d].owner, FALSE) \in DepState /\ ~Tied(dep[d].owner, FALSE).open
      BY <3>1 DEF Tied, DepState
    <3> QED
      BY <2>1, <3>2 DEF Close, DirectoryInv, TypeOK
  <2>2. CASE LeaveCategory(d)
    BY <2>2 DEF LeaveCategory, DirectoryInv, TypeOK, DepState
  <2> QED
    BY <2>1, <2>2
<1>2. UNCHANGED <<kind, row, request, slipped, late>>
  BY DEF Close, LeaveCategory
<1>3. TypeOK'
  BY <1>1, <1>2 DEF DirectoryInv, TypeOK
<1>4. DeletesFree'
  BY <1>1, <1>2 DEF DirectoryInv, DeletesFree, At
<1>5. PlacesActive'
  BY <1>2 DEF DirectoryInv, PlacesActive, At, Rows
<1>6. OwnersKept'
  BY <1>1, <1>2 DEF DirectoryInv, OwnersKept, Rows
<1> QED
  BY <1>3, <1>4, <1>5, <1>6 DEF DirectoryInv

\* An order is opened again, whether its supplier or customer is still there or
\* not.
LEMMA ReopenKeeps ==
  ASSUME DirectoryInv, NEW d \in Deps, Reopen(d)
  PROVE  DirectoryInv'
<1> DEFINE i == dep[d].owner
           R == IF i = None THEN {} ELSE Deleting(i)
<1>1. i \in Ids \cup {None}
  BY DEF Reopen, Ordered, DirectoryInv, TypeOK, DepState
<1>2. Tied(i, TRUE) \in DepState /\ Tied(i, TRUE).owner = i /\ Tied(i, TRUE).open
  BY <1>1 DEF Tied, DepState
<1>3. /\ dep' \in [Deps -> DepState]
      /\ dep'[d] = Tied(i, TRUE)
      /\ \A e \in Deps \ {d} : dep'[e] = dep[e]
  BY <1>2 DEF Reopen, DirectoryInv, TypeOK
<1>4. request' \in [Requests -> RequestState] /\ Overtaken(R)
  <2>1. \A q \in R : q \in Requests /\ request[q] # Idle
    BY DEF Deleting, At, Idle
  <2>2. Overtake(None, R)
    BY DEF Reopen
  <2> HIDE DEF R
  <2> QED
    BY <2>1, <2>2, OvertakeLeaves DEF DirectoryInv
<1>5. UNCHANGED <<kind, row, slipped>> /\ late' \subseteq Deps
  BY DEF Reopen, DirectoryInv, TypeOK
<1>6. TypeOK'
  BY <1>3, <1>4, <1>5 DEF DirectoryInv, TypeOK
<1>7. DeletesFree'
  <2> SUFFICES ASSUME NEW q \in Requests, NEW e \in Deps, At(q, "delete")', ~request'[q].stale,
                      dep'[e] # Untied, dep'[e].owner = request'[q].id
               PROVE  ~dep'[e].open
    BY DEF DeletesFree
  <2>1. /\ At(q, "delete") /\ ~request[q].stale /\ request'[q].id = request[q].id /\ q \notin R
        /\ request[q].id \in Ids
    BY <1>4, RequestFacts DEF Overtaken, At, Idle, DirectoryInv
  <2>2. CASE e = d
    BY <1>2, <1>3, <2>1, <2>2, DirectoryAssumption DEF Deleting
  <2>3. CASE e # d
    BY <1>3, <2>1, <2>3 DEF DirectoryInv, DeletesFree
  <2> QED
    BY <2>2, <2>3
<1>8. PlacesActive'
  BY <1>4, <1>5 DEF DirectoryInv, PlacesActive, Overtaken, Rows, At, Idle
<1>9. OwnersKept'
  <2> SUFFICES ASSUME NEW e \in Deps \ late', dep'[e] # Untied, dep'[e].open
               PROVE  dep'[e].owner \in Rows /\ (kind = "supplier" => row[dep'[e].owner].active)
    BY <1>5 DEF OwnersKept, Rows
  <2>1. CASE e = d
    <3>1. Standing(i)
      BY <2>1 DEF Reopen
    <3> QED
      BY <1>2, <1>3, <2>1, <3>1 DEF Standing
  <2>2. CASE e # d
    <3>1. e \notin late
      BY <2>2 DEF Reopen
    <3> QED
      BY <1>3, <2>2, <3>1 DEF DirectoryInv, OwnersKept
  <2> QED
    BY <2>1, <2>2
<1> QED
  BY <1>6, <1>7, <1>8, <1>9 DEF DirectoryInv

LEMMA DirectoryStep ==
  ASSUME DirectoryInv, [Next]_vars
  PROVE  DirectoryInv'
<1>1. CASE \E i \in Ids, n \in Names : CreateSupplier(i, n) \/ CreateGroup(i, n) \/ UpdateGroup(i, n)
  BY <1>1, WriteKeeps DEF CreateSupplier, CreateGroup, UpdateGroup
<1>2. CASE \E i \in Ids, n \in Names, p \in Ids \cup {None} : CreateLocation(i, n, p)
  BY <1>2, WriteKeeps DEF CreateLocation
<1>3. CASE \E i \in Ids, n \in Names, p \in Ids \cup {None}, a \in BOOLEAN : UpdateLocation(i, n, p, a)
  BY <1>3, WriteKeeps DEF UpdateLocation
<1>4. CASE \E i \in Ids, n \in Names, a \in BOOLEAN : UpdateSupplier(i, n, a)
  BY <1>4, UpdateSupplierKeeps
<1>5. CASE \E i \in Ids, n \in Names \cup {None} : CreateCustomer(i, n)
  BY <1>5, WriteKeeps DEF CreateCustomer
<1>6. CASE \E d \in Deps, i \in Ids \cup {None} : UpdateCustomer(d, i)
  BY <1>6, UpdateCustomerKeeps
<1>7. CASE \E d \in Deps : Close(d) \/ LeaveCategory(d)
  BY <1>7, CloseKeeps
<1>8. CASE \E d \in Deps : Reopen(d)
  BY <1>8, ReopenKeeps
<1>9. CASE \E r \in Requests, i \in Ids, n \in Names, p \in Ids \cup {None} : BeginCreateCategory(r, i, n, p)
  <2>1. Keep \notin Names /\ Keep \notin Ids \cup {None}
    BY DirectoryAssumption
  <2> QED
    BY <1>9, <2>1, BeginCategoryKeeps
<1>10. CASE \E r \in Requests, i \in Ids, n \in Names \cup {Keep}, p \in Ids \cup {None, Keep} :
             BeginUpdateCategory(r, i, n, p)
  BY <1>10, BeginCategoryKeeps
<1>11. CASE \E r \in Requests, i \in Ids : BeginDelete(r, i) \/ \E d \in Deps : BeginPlace(r, d, i)
  BY <1>11, BeginDeleteKeeps, BeginPlaceKeeps
<1>12. CASE \E r \in Requests : CommitCreateCategory(r) \/ CommitUpdateCategory(r)
  BY <1>12, CommitCategoryKeeps
<1>13. CASE \E r \in Requests : CommitDelete(r) \/ CommitPlace(r) \/ Abandon(r)
  BY <1>13, CommitDeleteKeeps, CommitPlaceKeeps, AbandonKeeps
<1>14. CASE UNCHANGED vars
  BY <1>14 DEF vars, DirectoryInv, TypeOK, DeletesFree, PlacesActive, OwnersKept, At, Rows
<1> QED
  BY <1>1, <1>2, <1>3, <1>4, <1>5, <1>6, <1>7, <1>8, <1>9, <1>10, <1>11, <1>12, <1>13, <1>14 DEF Next

\* Of stock nothing is ever late: a location goes only while it has none, and
\* whoever stores stock at it was overtaken by nobody.
NoneLate ==
  kind = "location" =>
    late = {} /\ \A q \in Requests : At(q, "place") => ~request[q].stale

LEMMA NoneLateStep ==
  ASSUME TypeOK, NoneLate, [Next]_vars
  PROVE  NoneLate'
<1> SUFFICES ASSUME kind' = "location", kind = "location"
             PROVE  NoneLate'
  <2>1. UNCHANGED kind
    BY DEF Next, vars, Write, CreateLocation, UpdateLocation, CreateSupplier, UpdateSupplier, CreateGroup,
       UpdateGroup, CreateCustomer, UpdateCustomer, Close, Reopen, LeaveCategory, BeginCreateCategory,
       BeginUpdateCategory, BeginPlace, BeginDelete, CommitCreateCategory, CommitUpdateCategory,
       StoreCategory, CommitDelete, CommitPlace, Abandon
  <2> QED
    BY <2>1 DEF NoneLate
<1>1. CASE UNCHANGED <<late, request>>
  BY <1>1 DEF NoneLate, At
<1>2. ASSUME NEW r \in Requests, NEW next \in RequestState, Do(r, next), UNCHANGED late,
             next.step = "place" => ~next.stale
      PROVE  NoneLate'
  BY <1>2, DoLeaves DEF NoneLate, At
<1>3. ASSUME NEW r, NEW R, \A q \in R : q \in Requests /\ request[q] # Idle /\ ~At(q, "place"),
             Overtake(r, R), late' = {}
      PROVE  NoneLate'
  <2>1. ASSUME NEW q \in Requests, At(q, "place")'
        PROVE  request'[q] = request[q]
    <3>1. CASE q \in R /\ q # r
      <4>1. request'[q] = [request[q] EXCEPT !.stale = TRUE]
        BY <1>3, <3>1 DEF Overtake
      <4>2. request[q] \in RequestState \ {Idle}
        BY <1>3, <3>1 DEF TypeOK
      <4>3. [request[q] EXCEPT !.stale = TRUE].step = request[q].step
        BY <4>2 DEF RequestState, Idle
      <4> QED
        BY <1>3, <2>1, <3>1, <4>1, <4>3 DEF At
    <3>2. CASE q = r
      BY <1>3, <2>1, <3>2 DEF Overtake, At, Idle
    <3>3. CASE q \notin R /\ q # r
      BY <1>3, <3>3 DEF Overtake
    <3> QED
      BY <3>1, <3>2, <3>3
  <2> QED
    BY <1>3, <2>1 DEF NoneLate, At
<1>4. ASSUME NEW r \in Requests, NEW i \in Ids, BeginDelete(r, i)
      PROVE  NoneLate'
  <2> DEFINE next == [step |-> "delete", id |-> i, stale |-> FALSE]
  <2>1. next \in RequestState /\ next.step # "place" /\ Do(r, next) /\ UNCHANGED late
    BY <1>4 DEF BeginDelete, RequestState
  <2> HIDE DEF next
  <2> QED
    BY <1>2, <2>1
<1>5. ASSUME NEW r \in Requests, NEW i \in Ids, NEW d \in Deps, BeginPlace(r, d, i)
      PROVE  NoneLate'
  <2> DEFINE next == [step |-> "place", dep |-> d, id |-> i, stale |-> FALSE]
  <2>1. next \in RequestState /\ ~next.stale /\ Do(r, next) /\ UNCHANGED late
    BY <1>5 DEF BeginPlace, RequestState
  <2> HIDE DEF next
  <2> QED
    BY <1>2, <2>1
<1>6. ASSUME NEW r \in Requests, Abandon(r)
      PROVE  NoneLate'
  <2>1. Idle \in RequestState /\ Idle.step # "place" /\ Do(r, Idle) /\ UNCHANGED late
    BY <1>6 DEF Abandon, RequestState, Idle
  <2> QED
    BY <1>2, <2>1
<1>7. ASSUME NEW r \in Requests, CommitPlace(r)
      PROVE  NoneLate'
  <2> DEFINE R == Deleting(request[r].id)
  <2>1. \A q \in R : q \in Requests /\ request[q] # Idle /\ ~At(q, "place")
    BY DEF Deleting, At, Idle
  <2>2. Overtake(r, R) /\ late' = {}
    BY <1>7 DEF CommitPlace, NoneLate
  <2> HIDE DEF R
  <2> QED
    BY <1>3, <2>1, <2>2
<1>8. ASSUME NEW r \in Requests, CommitDelete(r)
      PROVE  NoneLate'
  <2>1. DeleteLocation(r, request[r].id)
    BY <1>8 DEF CommitDelete, DeleteCategory, DeleteSupplier, DeleteCustomer, DeleteGroup
  <2>2. \A q \in Writing : q \in Requests /\ request[q] # Idle /\ ~At(q, "place")
    BY DEF Writing, At, Idle
  <2>3. Overtake(r, Writing) /\ late' = {}
    BY <2>1 DEF DeleteLocation, Remove, NoneLate
  <2> QED
    BY <1>3, <2>2, <2>3
<1>9. ASSUME NEW i \in Ids, NEW n \in Names, NEW p \in Ids \cup {None},
             CreateLocation(i, n, p) \/ \E a \in BOOLEAN : UpdateLocation(i, n, p, a)
      PROVE  NoneLate'
  BY <1>1, <1>9 DEF CreateLocation, UpdateLocation, Write
<1>10. \A i, n, a : /\ ~CreateSupplier(i, n) /\ ~CreateGroup(i, n) /\ ~UpdateGroup(i, n)
                   /\ ~UpdateSupplier(i, n, a) /\ ~CreateCustomer(i, n)
  BY DEF CreateSupplier, CreateGroup, UpdateGroup, UpdateSupplier, CreateCustomer
<1>11. \A d, i : ~UpdateCustomer(d, i) /\ ~Close(d) /\ ~Reopen(d) /\ ~LeaveCategory(d)
  BY DEF UpdateCustomer, Close, Reopen, Ordered, LeaveCategory
<1>12. \A r, i, n, p : ~BeginCreateCategory(r, i, n, p) /\ ~BeginUpdateCategory(r, i, n, p)
  BY DEF BeginCreateCategory, BeginUpdateCategory
<1>13. ASSUME NEW r \in Requests, CommitCreateCategory(r) \/ CommitUpdateCategory(r)
       PROVE  NoneLate'
  <2>1. PICK i, n, p : StoreCategory(r, i, n, p)
    BY <1>13 DEF CommitCreateCategory, CommitUpdateCategory
  <2> DEFINE R == Writing \cup Deleting(p)
  <2>2. \A x \in R : x \in Requests /\ request[x] # Idle /\ ~At(x, "place")
    BY DEF Writing, Deleting, At, Idle
  <2>3. Overtake(r, R) /\ late' = {}
    BY <2>1 DEF StoreCategory, NoneLate
  <2> HIDE DEF R
  <2> QED
    BY <1>3, <2>2, <2>3
<1>14. CASE UNCHANGED vars
  BY <1>1, <1>14 DEF vars
<1> QED
  BY <1>4, <1>5, <1>6, <1>7, <1>8, <1>9, <1>10, <1>11, <1>12, <1>13, <1>14 DEF Next

\* The deletions that count first and delete later, with whatever comes in
\* between: an open order keeps its supplier active and its customer, a
\* product its category and a customer its group, except what was placed or
\* opened again after the count, orders opened again without their customer, and
\* suppliers that an update deactivated. Stock keeps its location always.
THEOREM OpenAlwaysKeepsOwner == Spec => []OpenKeepsOwner
<1>1. Init => DirectoryInv /\ NoneLate
  BY DirectoryInitially DEF Init, NoneLate, At, Idle
<1>2. DirectoryInv /\ NoneLate /\ [Next]_vars => (DirectoryInv /\ NoneLate)'
  BY DirectoryStep, NoneLateStep DEF DirectoryInv
<1>3. DirectoryInv /\ NoneLate => OpenKeepsOwner
  BY DEF DirectoryInv, NoneLate, OwnersKept, OpenKeepsOwner, Standing
<1> QED
  BY <1>1, <1>2, <1>3, PTL DEF Spec

\* Rows, dependants and requests in flight have their types.
THEOREM TypeCorrect == Spec => []TypeOK
<1>1. Init => DirectoryInv
  BY DirectoryInitially
<1>2. DirectoryInv /\ [Next]_vars => DirectoryInv'
  BY DirectoryStep
<1>3. DirectoryInv => TypeOK
  BY DEF DirectoryInv
<1> QED
  BY <1>1, <1>2, <1>3, PTL DEF Spec

-----------------------------------------------------------------------------
(* Names. *)

\* What a request would store: the fields it leaves out stay as they are.
NewName(q) == IF request[q].name = Keep THEN row[request[q].id].name ELSE request[q].name
NewParent(q) == IF request[q].parent = Keep THEN row[request[q].id].parent ELSE request[q].parent

\* A look at the siblings that nobody has overtaken is still right.
ChecksHold ==
  \A q \in Writing :
    /\ kind = "category"
    /\ request[q].checked /\ ~request[q].stale =>
         ~SiblingTaken(NewName(q), NewParent(q), request[q].id)

NamesInv == NamesDiffer /\ ChecksHold

\* The step leaves every request on categories as it was, or overtakes it.
WritingOvertaken ==
  \A q \in Writing' : q \in Writing /\ (request'[q] = request[q] \/ request'[q].stale)

LEMMA OvertakeOvertakes ==
  ASSUME TypeOK, NEW r, NEW R, \A q \in R : q \in Requests /\ request[q] # Idle, Overtake(r, R)
  PROVE  /\ WritingOvertaken
         /\ \A q \in R : q \in Writing' => request'[q].stale
<1>1. ASSUME NEW q \in Requests, q \in Writing'
      PROVE  /\ q \in Writing /\ (request'[q] = request[q] \/ request'[q].stale)
             /\ q \in R => request'[q].stale
  <2>1. q # r
    BY <1>1 DEF Overtake, Writing, At, Idle
  <2>2. CASE q \in R
    <3>1. request'[q] = [request[q] EXCEPT !.stale = TRUE]
      BY <2>1, <2>2 DEF Overtake
    <3>2. request[q] \in RequestState \ {Idle}
      BY <2>2 DEF TypeOK
    <3>3. /\ [request[q] EXCEPT !.stale = TRUE].stale = TRUE
          /\ [request[q] EXCEPT !.stale = TRUE].step = request[q].step
      BY <3>2 DEF RequestState, Idle
    <3> QED
      BY <1>1, <3>1, <3>3 DEF Writing, At
  <2>3. CASE q \notin R
    BY <1>1, <2>1, <2>3 DEF Overtake, Writing, At
  <2> QED
    BY <2>2, <2>3
<1>2. \A q \in R : q \in Requests
  OBVIOUS
<1> QED
  BY <1>1, <1>2 DEF WritingOvertaken, Writing

\* Rows that stay as they are stay well named.
LEMMA NamesStay ==
  ASSUME NamesInv, UNCHANGED <<kind, row, slipped>>, WritingOvertaken
  PROVE  NamesInv'
<1>1. NamesDiffer'
  BY DEF NamesInv, NamesDiffer, Rows
<1>2. ChecksHold'
  <2>1. ASSUME NEW q \in Writing', request'[q].checked, ~request'[q].stale
        PROVE  ~SiblingTaken(NewName(q), NewParent(q), request[q].id)'
    <3>1. q \in Writing /\ request'[q] = request[q]
      BY <2>1 DEF WritingOvertaken
    <3>2. ~SiblingTaken(NewName(q), NewParent(q), request[q].id)
      BY <2>1, <3>1 DEF NamesInv, ChecksHold
    <3> QED
      BY <3>1, <3>2 DEF SiblingTaken, NewName, NewParent, Rows
  <2> QED
    BY <2>1 DEF ChecksHold, NamesInv, WritingOvertaken
<1> QED
  BY <1>1, <1>2 DEF NamesInv

\* The services with a unique index: a row that is stored has a name of its
\* own, and one whose name is kept has it still.
LEMMA UniqueNamesKept ==
  ASSUME NamesInv, kind # "category", UNCHANGED kind, WritingOvertaken,
         NEW i \in Ids, \A j \in Rows' \ {i} : j \in Rows /\ row'[j].name = row[j].name,
         i \in Rows' => \/ row'[i].name = None
                        \/ i \in Rows /\ row'[i].name = row[i].name
                        \/ ~NameTaken(row'[i].name, i)
  PROVE  NamesInv'
<1>1. NamesDiffer'
  BY DEF NamesInv, NamesDiffer, NameTaken, Rows
<1>2. ChecksHold'
  BY DEF NamesInv, ChecksHold, WritingOvertaken
<1> QED
  BY <1>1, <1>2 DEF NamesInv

LEMMA WriteKeepsNames ==
  ASSUME TypeOK, NamesInv, kind # "category", NEW i \in Ids, NEW n \in Names \cup {None},
         NEW p, NEW a, n # None => ~NameTaken(n, i),
         UNCHANGED kind, row' = [row EXCEPT ![i] = Row(n, p, a)], WritingOvertaken
  PROVE  NamesInv'
<1>1. row'[i].name = n /\ \A j \in Ids \ {i} : row'[j] = row[j]
  BY DEF TypeOK, Row
<1>2. \A j \in Rows' \ {i} : j \in Rows /\ row'[j].name = row[j].name
  BY <1>1 DEF Rows
<1> QED
  BY <1>1, <1>2, UniqueNamesKept

\* What the unique index of the categories lets in differs in its parent, or
\* is at the top; there a look at the siblings that still holds rules it out.
LEMMA StoreKeepsNames ==
  ASSUME TypeOK, NamesInv, kind = "category", NEW r \in Requests, NEW i \in Ids, NEW n, NEW p,
         r \in Writing, request[r].id = i, n = NewName(r), p = NewParent(r),
         StoreCategory(r, i, n, p)
  PROVE  NamesInv'
<1> DEFINE R == Writing \cup Deleting(p)
<1>1. \A q \in Writing' : request'[q].stale
  <2>1. \A q \in R : q \in Requests /\ request[q] # Idle
    BY DEF Writing, Deleting, At, Idle
  <2>2. Overtake(r, R)
    BY DEF StoreCategory
  <2> HIDE DEF R
  <2>3. WritingOvertaken /\ \A q \in R : q \in Writing' => request'[q].stale
    BY <2>1, <2>2, OvertakeOvertakes
  <2>4. \A q \in Writing : q \in R
    BY DEF R
  <2> QED
    BY <2>3, <2>4 DEF WritingOvertaken
<1>2. ChecksHold'
  BY <1>1 DEF ChecksHold, StoreCategory
<1>3. /\ row'[i].name = n /\ row'[i].parent = p
      /\ \A j \in Ids \ {i} : row'[j] = row[j]
  BY DEF StoreCategory, TypeOK, Row
<1>4. request[r].checked /\ ~request[r].stale => ~SiblingTaken(n, p, i)
  BY DEF NamesInv, ChecksHold
<1>5. ASSUME NEW j \in Rows \ {i}, row[j].name = n
      PROVE  row[j].parent # p \/ (p = None /\ i \in slipped')
  <2>1. p # None => row[j].parent # p
    BY <1>5 DEF StoreCategory, Storable
  <2>2. request[r].checked /\ ~request[r].stale => row[j].parent # p
    BY <1>4, <1>5 DEF SiblingTaken
  <2>3. ~(request[r].checked /\ ~request[r].stale) => i \in slipped'
    BY DEF StoreCategory
  <2> QED
    BY <2>1, <2>2, <2>3
<1>6. slipped \ {i} \subseteq slipped'
  BY DEF StoreCategory
<1>7. NamesDiffer'
  <2> SUFFICES ASSUME NEW j \in Rows', NEW k \in Rows', j # k, row'[j].name = row'[k].name,
                      row'[j].name # None
               PROVE  row'[j].parent # row'[k].parent
                      \/ (row'[j].parent = None /\ {j, k} \cap slipped' # {})
    BY DEF NamesDiffer, StoreCategory
  <2>1. CASE j = i
    BY <1>3, <1>5, <2>1 DEF Rows
  <2>2. CASE k = i
    BY <1>3, <1>5, <2>2 DEF Rows
  <2>3. CASE j # i /\ k # i
    BY <1>3, <1>6, <2>3 DEF Rows, NamesInv, NamesDiffer
  <2> QED
    BY <2>1, <2>2, <2>3
<1> QED
  BY <1>2, <1>7 DEF NamesInv

LEMMA CommitCategoryKeepsNames ==
  ASSUME DirectoryInv, NamesInv, NEW r \in Requests,
         CommitCreateCategory(r) \/ CommitUpdateCategory(r)
  PROVE  NamesInv'
<1>1. r \in Writing /\ request[r].id \in Ids
  BY RequestFacts DEF CommitCreateCategory, CommitUpdateCategory, Writing, At, Idle, DirectoryInv
<1>2. StoreCategory(r, request[r].id, NewName(r), NewParent(r))
  <2>1. CASE CommitCreateCategory(r)
    <3>1. request[r].name \in Names /\ request[r].parent \in Ids \cup {None}
      BY <2>1, RequestFacts DEF CommitCreateCategory, At, Idle, DirectoryInv
    <3>2. request[r].name # Keep /\ request[r].parent # Keep
      BY <3>1, DirectoryAssumption
    <3> QED
      BY <2>1, <3>2 DEF CommitCreateCategory, NewName, NewParent
  <2>2. CASE CommitUpdateCategory(r)
    BY <2>2 DEF CommitUpdateCategory, NewName, NewParent
  <2> QED
    BY <2>1, <2>2
<1>3. kind = "category"
  BY <1>1 DEF NamesInv, ChecksHold
<1> QED
  BY <1>1, <1>2, <1>3, StoreKeepsNames DEF DirectoryInv

\* The children of a category that goes move to the top, where any of them
\* may meet a namesake: they count as slipped.
LEMMA RemoveKeepsNames ==
  ASSUME TypeOK, NamesInv, NEW r \in Requests, NEW i \in Ids, UNCHANGED kind, Remove(r, i)
  PROVE  NamesInv'
<1>1. /\ \A j \in Children(i) \ {i} : row'[j].name = row[j].name /\ row'[j].parent = None
      /\ \A j \in Ids \ (Children(i) \cup {i}) : row'[j] = row[j]
      /\ row'[i] = NoRow
  BY DEF Remove, Row, Children, Rows
<1>2. \A j \in Rows' : j # i /\ j \in Rows /\ row'[j].name = row[j].name
  BY <1>1 DEF Rows, Children
<1>3. \A q \in Writing' : request'[q].stale
  <2>1. \A q \in Writing : q \in Requests /\ request[q] # Idle
    BY DEF Writing, At, Idle
  <2>2. WritingOvertaken /\ \A q \in Writing : q \in Writing' => request'[q].stale
    BY <2>1, OvertakeOvertakes DEF Remove
  <2> QED
    BY <2>2 DEF WritingOvertaken
<1>4. ChecksHold'
  <2>1. \A q \in Writing' : q \in Writing
    <3>1. \A q \in Writing : q \in Requests /\ request[q] # Idle
      BY DEF Writing, At, Idle
    <3> QED
      BY <3>1, OvertakeOvertakes DEF Remove, WritingOvertaken
  <2> QED
    BY <1>3, <2>1 DEF ChecksHold, NamesInv
<1>5. NamesDiffer'
  <2> SUFFICES ASSUME NEW j \in Rows', NEW k \in Rows', j # k, row'[j].name = row'[k].name,
                      row'[j].name # None
               PROVE  /\ kind = "category"
                      /\ row'[j].parent # row'[k].parent
                         \/ (row'[j].parent = None /\ {j, k} \cap slipped' # {})
    BY DEF NamesDiffer
  <2>1. /\ kind = "category"
        /\ row[j].parent # row[k].parent \/ (row[j].parent = None /\ {j, k} \cap slipped # {})
    BY <1>2 DEF NamesInv, NamesDiffer
  <2>2. j \in Ids /\ k \in Ids /\ j # i /\ k # i
    BY <1>2 DEF Rows
  <2>3. slipped' = (slipped \ {i}) \cup Children(i)
    BY DEF Remove
  <2>4. CASE j \in Children(i) \/ k \in Children(i)
    BY <1>1, <2>1, <2>2, <2>3, <2>4
  <2>5. CASE j \notin Children(i) /\ k \notin Children(i)
    BY <1>1, <2>1, <2>2, <2>3, <2>5
  <2> QED
    BY <2>4, <2>5
<1> QED
  BY <1>4, <1>5 DEF NamesInv

LEMMA DeleteSupplierKeepsNames ==
  ASSUME TypeOK, NamesInv, NEW r \in Requests, NEW i \in Ids, i \in Rows, UNCHANGED kind,
         DeleteSupplier(r, i)
  PROVE  NamesInv'
<1>1. row'[i].name = row[i].name /\ \A j \in Ids \ {i} : row'[j] = row[j]
  BY DEF DeleteSupplier, TypeOK, Row
<1>2. \A j \in Rows' \ {i} : j \in Rows /\ row'[j].name = row[j].name
  BY <1>1 DEF Rows
<1>3. WritingOvertaken
  <2>1. \A q \in Placing(i) : q \in Requests /\ request[q] # Idle
    BY DEF Placing, At, Idle
  <2> QED
    BY <2>1, OvertakeOvertakes DEF DeleteSupplier
<1>4. kind # "category"
  BY DEF DeleteSupplier
<1> QED
  BY <1>1, <1>2, <1>3, <1>4, UniqueNamesKept

\* A request that begins with a look at the siblings, or without one.
LEMMA BeginKeepsNames ==
  ASSUME TypeOK, NamesInv, NEW r \in Requests, NEW next \in RequestState, Do(r, next),
         UNCHANGED <<kind, row, dep, slipped, late>>,
         next.step \in {"create", "update"} =>
           /\ kind = "category"
           /\ next.checked /\ ~next.stale =>
                ~SiblingTaken(IF next.name = Keep THEN row[next.id].name ELSE next.name,
                              IF next.parent = Keep THEN row[next.id].parent ELSE next.parent, next.id)
  PROVE  NamesInv'
<1>1. request'[r] = next /\ \A q \in Requests \ {r} : request'[q] = request[q]
  BY DoLeaves
<1>2. NamesDiffer'
  BY DEF NamesInv, NamesDiffer, Rows
<1>3. ASSUME NEW q \in Writing'
      PROVE  /\ kind = "category"
             /\ request'[q].checked /\ ~request'[q].stale =>
                  ~SiblingTaken(NewName(q), NewParent(q), request[q].id)'
  <2>1. CASE q = r
    <3>1. next.step \in {"create", "update"}
      BY <1>1, <2>1 DEF Writing, At
    <3> QED
      BY <1>1, <2>1, <3>1 DEF SiblingTaken, NewName, NewParent, Rows
  <2>2. CASE q # r
    <3>1. q \in Writing /\ request'[q] = request[q]
      BY <1>1, <2>2 DEF Writing, At
    <3>2. /\ kind = "category"
          /\ request[q].checked /\ ~request[q].stale =>
               ~SiblingTaken(NewName(q), NewParent(q), request[q].id)
      BY <3>1 DEF NamesInv, ChecksHold
    <3> QED
      BY <3>1, <3>2 DEF SiblingTaken, NewName, NewParent, Rows
  <2> QED
    BY <2>1, <2>2
<1>4. ChecksHold'
  BY <1>3 DEF ChecksHold
<1> QED
  BY <1>2, <1>4 DEF NamesInv

LEMMA BeginCategoryKeepsNames ==
  ASSUME TypeOK, NamesInv, NEW r \in Requests, NEW i \in Ids,
         NEW n \in Names \cup {Keep}, NEW p \in Ids \cup {None, Keep},
         \/ n # Keep /\ p # Keep /\ BeginCreateCategory(r, i, n, p)
         \/ BeginUpdateCategory(r, i, n, p)
  PROVE  NamesInv'
<1>1. CASE n # Keep /\ p # Keep /\ BeginCreateCategory(r, i, n, p)
  <2> DEFINE next == CategoryRequest("create", i, n, p, TRUE)
  <2>1. Do(r, next) /\ UNCHANGED <<kind, row, dep, slipped, late>>
    BY <1>1 DEF BeginCreateCategory
  <2>2. /\ next \in RequestState /\ next.name = n /\ next.parent = p /\ next.id = i
    BY <1>1 DEF CategoryRequest, RequestState
  <2>3. kind = "category" /\ ~SiblingTaken(n, p, i)
    BY <1>1 DEF BeginCreateCategory
  <2> HIDE DEF next
  <2> QED
    BY <1>1, <2>1, <2>2, <2>3, BeginKeepsNames
<1>2. CASE BeginUpdateCategory(r, i, n, p)
  <2> DEFINE renamed == n # Keep /\ n # row[i].name
             next == CategoryRequest("update", i, n, p, renamed)
             under == IF p = Keep THEN row[i].parent ELSE p
  <2>1. Do(r, next) /\ UNCHANGED <<kind, row, dep, slipped, late>>
    BY <1>2 DEF BeginUpdateCategory
  <2>2. /\ next \in RequestState /\ next.name = n /\ next.parent = p /\ next.id = i
        /\ next.checked = renamed
    <3>1. renamed \in BOOLEAN
      OBVIOUS
    <3> HIDE DEF renamed
    <3> QED
      BY <3>1 DEF CategoryRequest, RequestState
  <2>3. kind = "category" /\ (renamed => ~SiblingTaken(n, under, i))
    BY <1>2 DEF BeginUpdateCategory
  <2>4. renamed => n # Keep
    OBVIOUS
  <2> HIDE DEF next, renamed
  <2> QED
    BY <2>1, <2>2, <2>3, <2>4, BeginKeepsNames
<1> QED
  BY <1>1, <1>2

LEMMA BeginOtherKeepsNames ==
  ASSUME TypeOK, NamesInv, NEW r \in Requests,
         \/ \E i \in Ids : BeginDelete(r, i) \/ \E d \in Deps : BeginPlace(r, d, i)
         \/ Abandon(r)
  PROVE  NamesInv'
<1>1. ASSUME NEW i \in Ids, BeginDelete(r, i)
      PROVE  NamesInv'
  <2> DEFINE next == [step |-> "delete", id |-> i, stale |-> FALSE]
  <2>1. next \in RequestState /\ next.step \notin {"create", "update"}
    BY DEF RequestState
  <2>2. Do(r, next) /\ UNCHANGED <<kind, row, dep, slipped, late>>
    BY <1>1 DEF BeginDelete
  <2> HIDE DEF next
  <2> QED
    BY <2>1, <2>2, BeginKeepsNames
<1>2. ASSUME NEW i \in Ids, NEW d \in Deps, BeginPlace(r, d, i)
      PROVE  NamesInv'
  <2> DEFINE next == [step |-> "place", dep |-> d, id |-> i, stale |-> FALSE]
  <2>1. next \in RequestState /\ next.step \notin {"create", "update"}
    BY DEF RequestState
  <2>2. Do(r, next) /\ UNCHANGED <<kind, row, dep, slipped, late>>
    BY <1>2 DEF BeginPlace
  <2> HIDE DEF next
  <2> QED
    BY <2>1, <2>2, BeginKeepsNames
<1>3. CASE Abandon(r)
  <2>1. Idle \in RequestState /\ Idle.step \notin {"create", "update"}
    BY DEF RequestState, Idle
  <2> QED
    BY <1>3, <2>1, BeginKeepsNames DEF Abandon
<1> QED
  BY <1>1, <1>2, <1>3

\* Dependants come, close, open again and go; a supplier is updated.
LEMMA DependantsKeepNames ==
  ASSUME TypeOK, NamesInv,
         \/ \E d \in Deps, i \in Ids \cup {None} : UpdateCustomer(d, i)
         \/ \E d \in Deps : Close(d) \/ Reopen(d) \/ LeaveCategory(d)
         \/ \E r \in Requests : CommitPlace(r)
  PROVE  NamesInv'
<1>1. \A i : \A q \in Deleting(i) : q \in Requests /\ request[q] # Idle
  BY DEF Deleting, At, Idle
<1>2. WritingOvertaken
  <2>1. ASSUME NEW d \in Deps, NEW i \in Ids \cup {None}, UpdateCustomer(d, i)
        PROVE  WritingOvertaken
    <3> DEFINE R == IF i = None THEN {} ELSE Deleting(i)
    <3>1. \A q \in R : q \in Requests /\ request[q] # Idle
      BY <1>1
    <3>2. Overtake(None, R)
      BY <2>1 DEF UpdateCustomer
    <3> HIDE DEF R
    <3> QED
      BY <3>1, <3>2, OvertakeOvertakes
  <2>2. ASSUME NEW d \in Deps, Close(d) \/ LeaveCategory(d)
        PROVE  WritingOvertaken
    BY <2>2 DEF Close, LeaveCategory, WritingOvertaken, Writing, At
  <2>3. ASSUME NEW r \in Requests, CommitPlace(r)
        PROVE  WritingOvertaken
    BY <1>1, <2>3, OvertakeOvertakes DEF CommitPlace
  <2>4. ASSUME NEW d \in Deps, Reopen(d)
        PROVE  WritingOvertaken
    <3> DEFINE R == IF dep[d].owner = None THEN {} ELSE Deleting(dep[d].owner)
    <3>1. \A q \in R : q \in Requests /\ request[q] # Idle
      BY <1>1
    <3>2. Overtake(None, R)
      BY <2>4 DEF Reopen
    <3> HIDE DEF R
    <3> QED
      BY <3>1, <3>2, OvertakeOvertakes
  <2> QED
    BY <2>1, <2>2, <2>3, <2>4
<1>3. UNCHANGED <<kind, row, slipped>>
  BY DEF UpdateCustomer, Close, Reopen, LeaveCategory, CommitPlace
<1> QED
  BY <1>2, <1>3, NamesStay

LEMMA WritesKeepNames ==
  ASSUME TypeOK, NamesInv, NEW i \in Ids,
         \/ \E n \in Names :
              \/ CreateSupplier(i, n) \/ CreateGroup(i, n) \/ UpdateGroup(i, n)
              \/ \E p \in Ids \cup {None} : CreateLocation(i, n, p)
              \/ \E p \in Ids \cup {None}, a \in BOOLEAN : UpdateLocation(i, n, p, a)
              \/ \E a \in BOOLEAN : UpdateSupplier(i, n, a)
         \/ \E n \in Names \cup {None} : CreateCustomer(i, n)
  PROVE  NamesInv'
<1>1. ASSUME NEW n \in Names \cup {None}, NEW p, NEW a \in BOOLEAN,
             kind # "category", UNCHANGED kind, n # None => ~NameTaken(n, i),
             row' = [row EXCEPT ![i] = Row(n, p, a)],
             UNCHANGED request \/ Overtake(None, IF a THEN {} ELSE Placing(i))
      PROVE  NamesInv'
  <2> DEFINE R == IF a THEN {} ELSE Placing(i)
  <2>1. \A q \in R : q \in Requests /\ request[q] # Idle
    BY DEF Placing, At, Idle
  <2>2. UNCHANGED request \/ Overtake(None, R)
    BY <1>1
  <2> HIDE DEF R
  <2>3. WritingOvertaken
    <3>1. CASE UNCHANGED request
      BY <3>1 DEF WritingOvertaken, Writing, At
    <3> QED
      BY <2>1, <2>2, <3>1, OvertakeOvertakes
  <2> QED
    BY <1>1, <2>3, WriteKeepsNames
<1>2. ASSUME NEW n \in Names, CreateSupplier(i, n) \/ CreateGroup(i, n) \/ UpdateGroup(i, n)
      PROVE  NamesInv'
  BY <1>1, <1>2 DEF CreateSupplier, CreateGroup, UpdateGroup, Write
<1>3. ASSUME NEW n \in Names, NEW p \in Ids \cup {None}, CreateLocation(i, n, p)
      PROVE  NamesInv'
  BY <1>1, <1>3 DEF CreateLocation, Write
<1>4. ASSUME NEW n \in Names, NEW p \in Ids \cup {None}, NEW a \in BOOLEAN, UpdateLocation(i, n, p, a)
      PROVE  NamesInv'
  BY <1>1, <1>4 DEF UpdateLocation, Write
<1>5. ASSUME NEW n \in Names, NEW a \in BOOLEAN, UpdateSupplier(i, n, a)
      PROVE  NamesInv'
  BY <1>1, <1>5 DEF UpdateSupplier
<1>6. ASSUME NEW n \in Names \cup {None}, CreateCustomer(i, n)
      PROVE  NamesInv'
  BY <1>1, <1>6 DEF CreateCustomer, Write
<1> QED
  BY <1>2, <1>3, <1>4, <1>5, <1>6

LEMMA NamesStep ==
  ASSUME DirectoryInv, NamesInv, [Next]_vars
  PROVE  NamesInv'
<1>1. TypeOK
  BY DEF DirectoryInv
<1>2. CASE \/ \E i \in Ids, n \in Names :
                \/ CreateSupplier(i, n) \/ CreateGroup(i, n) \/ UpdateGroup(i, n)
                \/ \E p \in Ids \cup {None} : CreateLocation(i, n, p)
                \/ \E p \in Ids \cup {None}, a \in BOOLEAN : UpdateLocation(i, n, p, a)
                \/ \E a \in BOOLEAN : UpdateSupplier(i, n, a)
           \/ \E i \in Ids, n \in Names \cup {None} : CreateCustomer(i, n)
  BY <1>1, <1>2, WritesKeepNames
<1>3. CASE \/ \E d \in Deps, i \in Ids \cup {None} : UpdateCustomer(d, i)
           \/ \E d \in Deps : Close(d) \/ Reopen(d) \/ LeaveCategory(d)
           \/ \E r \in Requests : CommitPlace(r)
  BY <1>1, <1>3, DependantsKeepNames
<1>4. CASE \E r \in Requests, i \in Ids, n \in Names, p \in Ids \cup {None} : BeginCreateCategory(r, i, n, p)
  <2>1. Keep \notin Names /\ Keep \notin Ids \cup {None}
    BY DirectoryAssumption
  <2> QED
    BY <1>1, <1>4, <2>1, BeginCategoryKeepsNames
<1>5. CASE \E r \in Requests, i \in Ids, n \in Names \cup {Keep}, p \in Ids \cup {None, Keep} :
             BeginUpdateCategory(r, i, n, p)
  BY <1>1, <1>5, BeginCategoryKeepsNames
<1>6. CASE \E r \in Requests :
             \/ \E i \in Ids : BeginDelete(r, i) \/ \E d \in Deps : BeginPlace(r, d, i)
             \/ Abandon(r)
  BY <1>1, <1>6, BeginOtherKeepsNames
<1>7. CASE \E r \in Requests : CommitCreateCategory(r) \/ CommitUpdateCategory(r)
  BY <1>7, CommitCategoryKeepsNames
<1>8. ASSUME NEW r \in Requests, CommitDelete(r)
      PROVE  NamesInv'
  <2> DEFINE i == request[r].id
  <2>1. i \in Rows /\ i \in Ids /\ UNCHANGED kind
    BY <1>8 DEF CommitDelete, Rows
  <2>2. CASE DeleteSupplier(r, i)
    BY <1>1, <2>1, <2>2, DeleteSupplierKeepsNames
  <2>3. CASE Remove(r, i)
    BY <1>1, <2>1, <2>3, RemoveKeepsNames
  <2> QED
    BY <1>8, <2>2, <2>3 DEF CommitDelete, DeleteLocation, DeleteCategory, DeleteCustomer, DeleteGroup
<1>9. CASE UNCHANGED vars
  <2>1. WritingOvertaken
    BY <1>9 DEF vars, WritingOvertaken, Writing, At
  <2> QED
    BY <1>9, <2>1, NamesStay DEF vars
<1> QED
  BY <1>2, <1>3, <1>4, <1>5, <1>6, <1>7, <1>8, <1>9 DEF Next

\* Whatever is created, renamed, moved or deleted at the same time: two rows
\* share a name only among the categories, and there under different parents
\* or at the top, where one of them came without a valid look at its siblings.
THEOREM NamesAlwaysDiffer == Spec => []NamesDiffer
<1>1. Init => DirectoryInv /\ NamesInv
  <2>1. Init => NamesInv
    BY DEF Init, NamesInv, NamesDiffer, ChecksHold, Rows, Writing, At, Idle
  <2> QED
    BY <2>1, DirectoryInitially
<1>2. DirectoryInv /\ NamesInv /\ [Next]_vars => DirectoryInv' /\ NamesInv'
  BY DirectoryStep, NamesStep
<1>3. NamesInv => NamesDiffer
  BY DEF NamesInv
<1> QED
  BY <1>1, <1>2, <1>3, PTL DEF Spec

-----------------------------------------------------------------------------
(* Products and their cache. *)

\* What a call in flight is: a fill holds what it read, and that is current
\* unless something has overtaken it; an invalidation is of a product.
FillHolds(c) ==
  /\ c.step = "fill"
  /\ c = [step |-> "fill", key |-> c.key, reads |-> c.key, value |-> c.value, stale |-> c.stale]
  /\ c.key \in Keys /\ c.stale \in BOOLEAN
  /\ c.key \in Scopes => DOMAIN c.value.stock = c.key
  /\ ~c.stale => c.value = Current(c.key)

Invalidates(c) ==
  /\ c.step \in {"keys", "del"}
  /\ c = [step |-> c.step, product |-> c.product, found |-> c.found]
  /\ c.product \in Products /\ c.found \subseteq Scopes

CallsHold == \A q \in Calls : call[q] = NoCall \/ FillHolds(call[q]) \/ Invalidates(call[q])

\* An entry was stored by a fill, and a list shows the locations of its key.
EntriesTyped ==
  /\ \A k \in Keys : Cached(k) => entry[k] = Entry(entry[k].value)
  /\ \A S \in Scopes : Cached(S) => DOMAIN entry[S].value.stock = S

CacheTyped ==
  /\ product = [p \in Products |-> product[p]]
  /\ category = [c \in Categories |-> category[c]]
  /\ stock = [l \in Locations |-> stock[l]]
  /\ entry = [k \in Keys |-> entry[k]]
  /\ call = [q \in Calls |-> call[q]]

CacheInv == CacheTyped /\ CallsHold /\ EntriesTyped /\ CacheCurrent

\* A list is cached under the locations it shows.
LEMMA KeysOfLists == ListKeys = Scopes /\ Keys = Products \cup ListKeys
  BY DEF ListKeys, ListKey, Keys

\* A view depends on the product, its categories and the stock in scope.
LEMMA SameViews ==
  ASSUME UNCHANGED <<product, category, stock>>
  PROVE  \A k : Current(k)' = Current(k)
  BY DEF Current, View, ListView, Present

LEMMA OtherViews ==
  ASSUME NEW p \in Products, category' = category,
         \A j \in Products \ {p} : product'[j] = product[j]
  PROVE  \A k \in Products \ {p} : Current(k)' = Current(k)
<1>1. \A k \in Products \ {p} : k \in Present' <=> k \in Present
  BY DEF Present
<1>2. \A k \in Products \ {p} : View(k)' = View(k)
  BY <1>1 DEF View
<1> QED BY <1>2 DEF Current

\* An entry is not the placeholder of one that is missing.
LEMMA EntryExists == \A v : Entry(v) # NoEntry /\ Entry(v).value = v
  BY DEF Entry, NoEntry

\* The step of a call tells which kind it is.
LEMMA CallKinds ==
  ASSUME CallsHold, NEW q \in Calls
  PROVE  /\ call[q].step = "fill" => FillHolds(call[q])
         /\ call[q].step \in {"keys", "del"} => Invalidates(call[q])
<1>1. \A c : /\ c = NoCall => c.step = "idle"
             /\ FillHolds(c) => c.step = "fill"
             /\ Invalidates(c) => c.step \in {"keys", "del"}
  BY DEF NoCall, FillHolds, Invalidates
<1> QED BY <1>1 DEF CallsHold

\* An empty cache holds nothing outdated.
LEMMA CacheInitially == ASSUME CatalogueInit PROVE CacheInv
<1>1. CacheTyped
  BY DEF CatalogueInit, CacheTyped
<1>2. CallsHold
  BY DEF CatalogueInit, CallsHold
<1>3. \A k \in Keys : ~Cached(k)
  BY DEF CatalogueInit, Cached
<1>4. EntriesTyped /\ CacheCurrent
  BY <1>3 DEF EntriesTyped, CacheCurrent, Keys
<1> QED BY <1>1, <1>2, <1>4 DEF CacheInv

\* Nothing that a call holds is disturbed while the database stands still.
LEMMA CallUntouched ==
  ASSUME UNCHANGED <<product, category, stock>>, NEW q \in Calls, call'[q] = call[q]
  PROVE  /\ FillHolds(call[q]) => FillHolds(call[q])'
         /\ Invalidates(call[q]) => Invalidates(call[q])'
<1>1. FillHolds(call[q]) => FillHolds(call[q])'
  BY DEF FillHolds, Current, View, ListView, Present, Keys
<1>2. Invalidates(call[q]) => Invalidates(call[q])'
  BY DEF Invalidates
<1> QED BY <1>1, <1>2

\* A write leaves a fill that read something else, and marks the others.
LEMMA FillGoesOn ==
  ASSUME NEW q \in Calls, FillHolds(call[q]),
         call'[q] = IF CallAt(q, "fill") /\ call[q].reads \in Outdated
                    THEN [call[q] EXCEPT !.stale = TRUE] ELSE call[q]
  PROVE  FillHolds(call[q])'
<1>1. call[q].step = "fill" /\ call[q].reads = call[q].key /\ call[q].key \in Keys
  BY DEF FillHolds
<1>2. CASE call[q].reads \in Outdated
  <2>1. call'[q] = [step |-> "fill", key |-> call[q].key, reads |-> call[q].key,
                    value |-> call[q].value, stale |-> TRUE]
    BY <1>1, <1>2 DEF FillHolds, CallAt
  <2>2. call'[q].key = call[q].key /\ call'[q].value = call[q].value /\ call'[q].stale = TRUE
    BY <2>1
  <2> QED BY <2>1, <2>2 DEF FillHolds, Keys
<1>3. CASE call[q].reads \notin Outdated
  <2>1. call'[q] = call[q]
    BY <1>3
  <2>2. Current(call[q].key)' = Current(call[q].key)
    BY <1>1, <1>3, <2>1 DEF Outdated, Current, View, ListView, Present, Keys
  <2> QED BY <2>1, <2>2 DEF FillHolds, Keys
<1> QED BY <1>2, <1>3

\* A step of r that writes no row leaves what the other calls hold.
LEMMA OthersStill ==
  ASSUME CacheInv, UNCHANGED <<product, category, stock>>, NEW r \in Calls, NEW c,
         call' = [call EXCEPT ![r] = c],
         call'[r] = NoCall \/ FillHolds(call[r])' \/ Invalidates(call[r])'
  PROVE  CallsHold' /\ call' = [q \in Calls |-> call'[q]] /\ call'[r] = c
<1>1. /\ call' = [q \in Calls |-> call'[q]] /\ call'[r] = c
      /\ \A q \in Calls \ {r} : call'[q] = call[q]
  BY DEF CacheInv, CacheTyped
<1>2. ASSUME NEW q \in Calls
      PROVE  call'[q] = NoCall \/ FillHolds(call[q])' \/ Invalidates(call[q])'
  <2>1. CASE q = r
    BY <2>1
  <2>2. CASE q # r
    <3>1. call[q] = NoCall \/ FillHolds(call[q]) \/ Invalidates(call[q])
      BY DEF CacheInv, CallsHold
    <3> QED BY <1>1, <2>2, <3>1, CallUntouched
  <2> QED BY <2>1, <2>2
<1>3. CallsHold'
  BY <1>2 DEF CallsHold, NoCall
<1> QED BY <1>1, <1>3

\* What a fill has just read is current.
LEMMA BeginFillKeeps ==
  ASSUME CacheInv, NEW r \in Calls, NEW k \in Keys, BeginFill(r, k, k)
  PROVE  CacheInv'
<1> USE DEF BeginFill
<1>1. CacheTyped'
  BY DEF CacheInv, CacheTyped
<1>2. call'[r] = [step |-> "fill", key |-> k, reads |-> k, value |-> Current(k), stale |-> FALSE]
  BY DEF CacheInv, CacheTyped
<1>3. /\ call'[r].step = "fill" /\ call'[r].key = k /\ call'[r].reads = k
      /\ call'[r].value = Current(k) /\ call'[r].stale = FALSE
  BY <1>2
<1>4. UNCHANGED <<product, category, stock>>
  OBVIOUS
<1> HIDE DEF BeginFill
<1>5. Current(call[r].key)' = Current(k)
  BY <1>4, <1>3 DEF Current, View, ListView, Present
<1>6. k \in Scopes => DOMAIN Current(k).stock = k
  BY CatalogueAssumption DEF Current, ListView
<1>7. FillHolds(call[r])'
  BY <1>2, <1>3, <1>5, <1>6 DEF FillHolds, Keys
<1> USE DEF BeginFill
<1>8. CallsHold'
  BY <1>7, OthersStill
<1>9. EntriesTyped'
  BY DEF CacheInv, EntriesTyped, Cached, Keys
<1>10. \A j \in Keys : Pending(j) => Pending(j)'
  BY <1>2 DEF CacheInv, CacheTyped, Pending, CallAt
<1>11. CacheCurrent'
  BY <1>10, SameViews DEF CacheInv, CacheCurrent, Cached, Keys
<1> QED BY <1>1, <1>8, <1>9, <1>11 DEF CacheInv

\* A call that ends leaves the others as they are.
LEMMA CallEnds ==
  ASSUME CacheInv, UNCHANGED <<product, category, stock>>, NEW r \in Calls,
         call' = [call EXCEPT ![r] = NoCall]
  PROVE  CallsHold' /\ call' = [q \in Calls |-> call'[q]]
<1>1. call'[r] = NoCall
  BY DEF CacheInv, CacheTyped
<1> QED BY <1>1, OthersStill

\* A fill stores what is current, or notes that it may not be.
LEMMA FillKeeps ==
  ASSUME CacheInv, NEW r \in Calls, Fill(r)
  PROVE  CacheInv'
<1> DEFINE key == call[r].key  value == call[r].value
<1>1. /\ UNCHANGED <<product, category, stock>>
      /\ call' = [call EXCEPT ![r] = NoCall]
      /\ entry' = [entry EXCEPT ![key] = Entry(value)]
      /\ suspect' = IF call[r].stale THEN suspect \cup {key} ELSE suspect \ {key}
      /\ call[r].step = "fill"
  BY DEF Fill, CallAt
<1>2. FillHolds(call[r])
  BY <1>1, CallKinds DEF CacheInv
<1>3. /\ key \in Keys /\ (key \in Scopes => DOMAIN value.stock = key)
      /\ ~call[r].stale => value = Current(key)
  BY <1>2 DEF FillHolds
<1>4. CallsHold'
  BY <1>1, CallEnds
<1>5. CacheTyped'
  BY <1>1, CallEnds DEF CacheInv, CacheTyped
<1>6. \A k \in Keys : entry'[k] = IF k = key THEN Entry(value) ELSE entry[k]
  BY <1>1, <1>3 DEF CacheInv, CacheTyped
<1> HIDE DEF key, value
<1>7. EntriesTyped'
  BY <1>3, <1>6, EntryExists DEF CacheInv, EntriesTyped, Cached, Keys, Entry
<1>8. \A k \in Keys : Pending(k) => Pending(k)'
  BY <1>1 DEF CacheInv, CacheTyped, Pending, CallAt
<1>9. ASSUME NEW k \in Keys \ suspect', Cached(k)', ~Pending(k)'
      PROVE  entry'[k].value = Current(k)
  BY <1>1, <1>3, <1>6, <1>8, <1>9, EntryExists DEF CacheInv, CacheCurrent, Cached
<1>10. CacheCurrent'
  BY <1>1, <1>9, SameViews DEF CacheCurrent, Keys
<1> QED BY <1>4, <1>5, <1>7, <1>10 DEF CacheInv

\* An entry that is gone is not outdated.
LEMMA ExpireKeeps ==
  ASSUME CacheInv, NEW k \in Keys, Expire(k)
  PROVE  CacheInv'
<1>1. /\ UNCHANGED <<product, category, stock, call>>
      /\ entry' = [entry EXCEPT ![k] = NoEntry] /\ suspect' = suspect \ {k}
  BY DEF Expire
<1>2. CallsHold'
  BY <1>1, CallUntouched DEF CacheInv, CallsHold, NoCall
<1>3. CacheTyped' /\ \A j \in Keys : entry'[j] = IF j = k THEN NoEntry ELSE entry[j]
  BY <1>1 DEF CacheInv, CacheTyped
<1>4. EntriesTyped'
  BY <1>3 DEF CacheInv, EntriesTyped, Cached, Keys, Entry
<1>5. \A j \in Keys : Pending(j)' <=> Pending(j)
  BY <1>1 DEF Pending, CallAt
<1>6. CacheCurrent'
  BY <1>1, <1>3, <1>5, SameViews DEF CacheInv, CacheCurrent, Cached, Keys
<1> QED BY <1>2, <1>3, <1>4, <1>6 DEF CacheInv

\* Looking for the cached lists drops no key that is cached.
LEMMA FindListsKeeps ==
  ASSUME CacheInv, NEW r \in Calls, FindLists(r)
  PROVE  CacheInv'
<1>1. /\ UNCHANGED <<product, category, stock, entry, suspect>>
      /\ call' = [call EXCEPT ![r] =
           [step |-> "del", product |-> call[r].product, found |-> FoundLists(r)]]
      /\ call[r].step = "keys"
  BY DEF FindLists, CallAt
<1>2. Invalidates(call[r])
  BY <1>1, CallKinds DEF CacheInv
<1>3. call'[r] = [step |-> "del", product |-> call[r].product, found |-> FoundLists(r)]
  BY <1>1 DEF CacheInv, CacheTyped
<1>4. Invalidates(call[r])'
  BY <1>2, <1>3, KeysOfLists DEF Invalidates, FoundLists
<1>5. CallsHold' /\ CacheTyped'
  BY <1>1, <1>4, OthersStill DEF CacheInv, CacheTyped
<1>6. EntriesTyped'
  BY <1>1 DEF CacheInv, EntriesTyped, Cached, Keys
<1>7. \A k \in Keys : Cached(k) /\ Pending(k) => Pending(k)'
  BY <1>1, <1>3, KeysOfLists DEF CacheInv, CacheTyped, Pending, CallAt, FoundLists
<1>8. CacheCurrent'
  BY <1>1, <1>7, SameViews DEF CacheInv, CacheCurrent, Cached, Keys
<1> QED BY <1>5, <1>6, <1>8 DEF CacheInv

\* The invalidation ends with the entries it was pending for.
LEMMA DeleteEntriesKeeps ==
  ASSUME CacheInv, NEW r \in Calls, DeleteEntries(r)
  PROVE  CacheInv'
<1> DEFINE gone == {call[r].product} \cup call[r].found
<1>1. /\ UNCHANGED <<product, category, stock>>
      /\ entry' = [k \in Keys |-> IF k \in gone THEN NoEntry ELSE entry[k]]
      /\ suspect' = suspect \ gone
      /\ call' = [call EXCEPT ![r] = NoCall]
      /\ call[r].step = "del"
  BY DEF DeleteEntries, CallAt
<1>2. CallsHold' /\ CacheTyped'
  BY <1>1, CallEnds DEF CacheInv, CacheTyped, Keys
<1>3. \A k \in Keys : Pending(k) /\ k \notin gone => Pending(k)'
  BY <1>1 DEF CacheInv, CacheTyped, Pending, CallAt
<1> HIDE DEF gone
<1>4. EntriesTyped'
  BY <1>1 DEF CacheInv, EntriesTyped, Cached, Keys, Entry
<1>5. CacheCurrent'
  BY <1>1, <1>3, SameViews DEF CacheInv, CacheCurrent, Cached, Keys
<1> QED BY <1>2, <1>4, <1>5 DEF CacheInv

\* What a lost invalidation leaves in the cache is suspect.
LEMMA AbandonCallKeeps ==
  ASSUME CacheInv, NEW r \in Calls, AbandonCall(r)
  PROVE  CacheInv'
<1>1. /\ UNCHANGED <<product, category, stock, entry>>
      /\ call' = [call EXCEPT ![r] = NoCall]
      /\ suspect' = IF CallAt(r, "fill") THEN suspect
                    ELSE suspect \cup {k \in ListKeys \cup {call[r].product} : Cached(k)}
  BY DEF AbandonCall
<1>2. CallsHold' /\ CacheTyped'
  BY <1>1, CallEnds DEF CacheInv, CacheTyped
<1>3. EntriesTyped'
  BY <1>1 DEF CacheInv, EntriesTyped, Cached, Keys
<1>4. ASSUME NEW k \in Keys, Pending(k), Cached(k), k \notin suspect'
      PROVE  Pending(k)'
  <2>1. PICK q \in Calls : \/ CallAt(q, "keys") /\ k \in ListKeys \cup {call[q].product}
                           \/ CallAt(q, "del") /\ k \in call[q].found \cup {call[q].product}
    BY <1>4 DEF Pending
  <2>2. CASE q = r
    <3>1. Invalidates(call[r])
      BY <2>1, <2>2, CallKinds DEF CacheInv, CallAt
    <3>2. call[r].found \subseteq ListKeys
      BY <3>1, KeysOfLists DEF Invalidates
    <3> QED BY <1>1, <1>4, <2>1, <2>2, <3>2 DEF CallAt
  <2>3. CASE q # r
    <3>1. call'[q] = call[q]
      BY <1>1, <2>3 DEF CacheInv, CacheTyped
    <3> QED BY <2>1, <3>1 DEF Pending, CallAt
  <2> QED BY <2>2, <2>3
<1>5. CacheCurrent'
  BY <1>1, <1>4, SameViews DEF CacheInv, CacheCurrent, Cached, Keys
<1> QED BY <1>2, <1>3, <1>5 DEF CacheInv

\* What a write does to the other calls.
LEMMA CallGoesOn ==
  ASSUME CallsHold, NEW q \in Calls,
         call'[q] = IF CallAt(q, "fill") /\ call[q].reads \in Outdated
                    THEN [call[q] EXCEPT !.stale = TRUE] ELSE call[q]
  PROVE  /\ call'[q] = NoCall \/ FillHolds(call[q])' \/ Invalidates(call[q])'
         /\ ~CallAt(q, "fill") => call'[q] = call[q]
<1>1. CASE CallAt(q, "fill")
  BY <1>1, CallKinds, FillGoesOn DEF CallAt
<1>2. CASE ~CallAt(q, "fill")
  <2>1. call'[q] = call[q]
    BY <1>2
  <2>2. call[q] = NoCall \/ Invalidates(call[q])
    BY <1>2 DEF CallsHold, FillHolds, CallAt
  <2>3. Invalidates(call[q]) => Invalidates(call[q])'
    BY <2>1 DEF Invalidates
  <2> QED BY <2>1, <2>2, <2>3
<1> QED BY <1>1, <1>2

\* A write that is followed by an invalidation: whatever becomes outdated is
\* a list or the product, and both are waiting to be deleted.
LEMMA InvalidatingKeeps ==
  ASSUME CacheInv, NEW r \in Calls, NEW p \in Products, CallAt(r, "idle"),
         category' = category, \A j \in Products \ {p} : product'[j] = product[j],
         product' = [j \in Products |-> product'[j]], stock' = [l \in Locations |-> stock'[l]],
         UNCHANGED <<entry, suspect>>, Proceed(r, Invalidating(p))
  PROVE  CacheInv'
<1>1. /\ call' = [q \in Calls |-> call'[q]]
      /\ call'[r] = Invalidating(p)
      /\ \A q \in Calls \ {r} :
           call'[q] = IF CallAt(q, "fill") /\ call[q].reads \in Outdated
                      THEN [call[q] EXCEPT !.stale = TRUE] ELSE call[q]
  BY DEF Proceed, CallsOvertaken
<1>2. Invalidates(call[r])'
  BY <1>1 DEF Invalidates, Invalidating
<1>3. CallsHold'
  <2>1. ASSUME NEW q \in Calls
        PROVE  call'[q] = NoCall \/ FillHolds(call[q])' \/ Invalidates(call[q])'
    BY <1>1, <1>2, CallGoesOn DEF CacheInv
  <2> QED BY <2>1 DEF CallsHold, NoCall
<1>4. CacheTyped'
  BY <1>1 DEF CacheInv, CacheTyped
<1>5. EntriesTyped'
  BY DEF CacheInv, EntriesTyped, Cached, Keys
<1>6. ASSUME NEW k \in Keys, ~Pending(k)'
      PROVE  k \in Products \ {p} /\ ~Pending(k)
  <2>1. k \notin ListKeys \cup {p}
    BY <1>1, <1>6 DEF Pending, CallAt, Invalidating
  <2>2. ASSUME NEW q \in Calls, CallAt(q, "keys") \/ CallAt(q, "del")
        PROVE  q # r /\ call'[q] = call[q]
    BY <2>2, <1>1, CallGoesOn DEF CacheInv, CallAt
  <2>3. ~Pending(k)
    BY <2>2, <1>6 DEF Pending, CallAt
  <2> QED BY <2>1, <2>3, KeysOfLists
<1>7. CacheCurrent'
  BY <1>6, OtherViews DEF CacheInv, CacheCurrent, Cached, Keys
<1> QED BY <1>3, <1>4, <1>5, <1>7 DEF CacheInv

\* A change that is not followed by one: whatever becomes outdated is suspect.
LEMMA SilentlyKeeps ==
  ASSUME CacheInv, Silently,
         category' = [c \in Categories |-> category'[c]], stock' = [l \in Locations |-> stock'[l]]
  PROVE  CacheInv'
<1>1. /\ UNCHANGED <<product, entry>>
      /\ call' = [q \in Calls |-> call'[q]]
      /\ \A q \in Calls :
           call'[q] = IF CallAt(q, "fill") /\ call[q].reads \in Outdated
                      THEN [call[q] EXCEPT !.stale = TRUE] ELSE call[q]
      /\ suspect' = suspect \cup {k \in Outdated : Cached(k)}
  BY DEF Silently, CallsOvertaken
<1>2. CallsHold'
  <2>1. ASSUME NEW q \in Calls
        PROVE  call'[q] = NoCall \/ FillHolds(call[q])' \/ Invalidates(call[q])'
    BY <1>1, CallGoesOn DEF CacheInv
  <2> QED BY <2>1 DEF CallsHold, NoCall
<1>3. CacheTyped'
  BY <1>1 DEF CacheInv, CacheTyped
<1>4. EntriesTyped'
  BY <1>1 DEF CacheInv, EntriesTyped, Cached, Keys
<1>5. ASSUME NEW k \in Keys, Pending(k)
      PROVE  Pending(k)'
  <2>1. PICK q \in Calls : \/ CallAt(q, "keys") /\ k \in ListKeys \cup {call[q].product}
                           \/ CallAt(q, "del") /\ k \in call[q].found \cup {call[q].product}
    BY <1>5 DEF Pending
  <2>2. call'[q] = call[q]
    BY <2>1, <1>1, CallGoesOn DEF CacheInv, CallAt
  <2> QED BY <2>1, <2>2 DEF Pending, CallAt
<1>6. ASSUME NEW k \in Keys \ suspect', Cached(k)
      PROVE  Current(k)' = Current(k)
  BY <1>1, <1>6 DEF Outdated
<1>7. CacheCurrent'
  BY <1>1, <1>5, <1>6 DEF CacheInv, CacheCurrent, Cached, Keys
<1> QED BY <1>2, <1>3, <1>4, <1>7 DEF CacheInv

\* The invariant of the cache is inductive.
LEMMA CacheStep ==
  ASSUME CacheInv, [CatalogueNext]_catalogueVars
  PROVE  CacheInv'
<1>1. ASSUME NEW r \in Calls, NEW p \in Products, GetProductById(r, p)
      PROVE  CacheInv'
  BY <1>1, BeginFillKeeps DEF GetProductById, Keys
<1>2. ASSUME NEW r \in Calls, NEW S \in Scopes, QueryProducts(r, S)
      PROVE  CacheInv'
  BY <1>2, BeginFillKeeps DEF QueryProducts, ListKey, Keys
<1>3. ASSUME NEW r \in Calls, NEW p \in Products, DeleteProductById(r, p)
      PROVE  CacheInv'
  <2>1. /\ product' = [j \in Products |-> product'[j]] /\ stock' = [l \in Locations |-> stock'[l]]
        /\ \A j \in Products \ {p} : product'[j] = product[j]
    BY <1>3 DEF DeleteProductById, CacheInv, CacheTyped
  <2> QED BY <1>3, <2>1, InvalidatingKeeps DEF DeleteProductById
<1>4. ASSUME NEW r \in Calls, NEW p \in Products, NEW C, CreateProduct(r, p, C)
      PROVE  CacheInv'
  <2>1. /\ product' = [j \in Products |-> product'[j]] /\ stock' = [l \in Locations |-> stock'[l]]
        /\ \A j \in Products \ {p} : product'[j] = product[j]
    BY <1>4 DEF CreateProduct, CacheInv, CacheTyped
  <2> QED BY <1>4, <2>1, InvalidatingKeeps DEF CreateProduct
<1>5. ASSUME NEW r \in Calls, NEW p \in Products, NEW v, NEW C, UpdateProductById(r, p, v, C)
      PROVE  CacheInv'
  <2>1. /\ product' = [j \in Products |-> product'[j]] /\ stock' = [l \in Locations |-> stock'[l]]
        /\ \A j \in Products \ {p} : product'[j] = product[j]
    BY <1>5 DEF UpdateProductById, CacheInv, CacheTyped
  <2> QED BY <1>5, <2>1, InvalidatingKeeps DEF UpdateProductById
<1>6. ASSUME NEW r \in Calls, NEW p \in Products, NEW l \in Locations, Sell(r, p, l)
      PROVE  CacheInv'
  <2>1. /\ product' = product /\ product = [j \in Products |-> product[j]]
        /\ stock' = [m \in Locations |-> stock'[m]]
    BY <1>6 DEF Sell, CacheInv, CacheTyped
  <2> QED BY <1>6, <2>1, InvalidatingKeeps DEF Sell
<1>7. ASSUME NEW c \in Categories, NEW name, ChangeCategory(c, name)
      PROVE  CacheInv'
  <2>1. /\ category' = [d \in Categories |-> category'[d]]
        /\ stock' = [l \in Locations |-> stock'[l]]
    BY <1>7 DEF ChangeCategory, CacheInv, CacheTyped
  <2> QED BY <1>7, <2>1, SilentlyKeeps DEF ChangeCategory
<1>8. ASSUME NEW p \in Products, NEW l \in Locations, ReceiveStock(p, l)
      PROVE  CacheInv'
  <2>1. /\ category' = [d \in Categories |-> category'[d]]
        /\ stock' = [m \in Locations |-> stock'[m]]
    BY <1>8 DEF ReceiveStock, CacheInv, CacheTyped
  <2> QED BY <1>8, <2>1, SilentlyKeeps DEF ReceiveStock
<1>9. CASE UNCHANGED catalogueVars
  <2>1. /\ UNCHANGED <<product, category, stock, entry, call, suspect>>
    BY <1>9 DEF catalogueVars
  <2>2. CallsHold'
    BY <2>1, CallUntouched DEF CacheInv, CallsHold, NoCall
  <2>3. CacheTyped' /\ EntriesTyped'
    BY <2>1 DEF CacheInv, CacheTyped, EntriesTyped, Cached, Keys
  <2>4. \A k \in Keys : Pending(k)' <=> Pending(k)
    BY <2>1 DEF Pending, CallAt
  <2>5. CacheCurrent'
    BY <2>1, <2>4, SameViews DEF CacheInv, CacheCurrent, Cached, Keys
  <2> QED BY <2>2, <2>3, <2>5 DEF CacheInv
<1> QED BY <1>1, <1>2, <1>3, <1>4, <1>5, <1>6, <1>7, <1>8, <1>9,
           FillKeeps, FindListsKeeps, DeleteEntriesKeeps, AbandonCallKeeps, ExpireKeeps
        DEF CatalogueNext

\* CacheCurrent (product.service.ts invalidates what it changes): what is
\* cached is what the database says, unless a fill or a lost or missing
\* invalidation explains the difference.
THEOREM CacheAlwaysCurrent == CatalogueSpec => []CacheCurrent
<1>1. CatalogueInit => CacheInv
  BY CacheInitially
<1>2. CacheInv /\ [CatalogueNext]_catalogueVars => CacheInv'
  BY CacheStep
<1>3. CacheInv => CacheCurrent
  BY DEF CacheInv
<1> QED BY <1>1, <1>2, <1>3, PTL DEF CatalogueSpec

\* OwnScopeOnly (generateProductListCacheKey): a list is read back only by
\* those who may see the locations in it.
THEOREM OwnScopeAlways == CatalogueSpec => []OwnScopeOnly
<1>1. CatalogueInit => CacheInv
  BY CacheInitially
<1>2. CacheInv /\ [CatalogueNext]_catalogueVars => CacheInv'
  BY CacheStep
<1>3. CacheInv => OwnScopeOnly
  BY DEF CacheInv, EntriesTyped, OwnScopeOnly, ListKey
<1> QED BY <1>1, <1>2, <1>3, PTL DEF CatalogueSpec

\* The rows of the catalogue refer to rows that exist, and the bounds hold.
RowsTyped ==
  /\ \A p \in Present :
       product[p].version \in 0..MaxVersion /\ product[p].categories \subseteq Existing
  /\ category \in [Categories -> CategoryNames \cup {"none"}]
  /\ stock \in [Locations -> 0..MaxStock]
  /\ used \subseteq Present

\* Only a write of the rows can disturb them.
LEMMA RowsStep ==
  ASSUME CacheInv, RowsTyped, [CatalogueNext]_catalogueVars
  PROVE  RowsTyped'
<1> USE DEF RowsTyped, Present, Existing
<1>1. ASSUME UNCHANGED <<product, category, stock, used>> PROVE RowsTyped'
  BY <1>1
<1>2. ASSUME NEW r \in Calls, NEW p \in Products, NEW C \in SUBSET Categories, CreateProduct(r, p, C)
      PROVE  RowsTyped'
  <2>1. /\ \A j \in Products :
             product'[j] = IF j = p THEN [version |-> 0, categories |-> C] ELSE product[j]
        /\ C \subseteq Existing
        /\ UNCHANGED <<category, stock, used>>
    BY <1>2 DEF CreateProduct, CacheInv, CacheTyped
  <2>2. [version |-> 0, categories |-> C] # NoProduct /\ 0 \in 0..MaxVersion
    BY CatalogueAssumption DEF NoProduct
  <2>3. Present \subseteq Present' /\ Existing' = Existing
    BY <2>1, <2>2
  <2>4. \A j \in Present' :
          product'[j].version \in 0..MaxVersion /\ product'[j].categories \subseteq Existing
    BY <2>1, <2>2
  <2> QED BY <2>1, <2>3, <2>4
<1>3. ASSUME NEW r \in Calls, NEW p \in Products, NEW v, NEW C, UpdateProductById(r, p, v, C)
      PROVE  RowsTyped'
  BY <1>3 DEF UpdateProductById, CacheInv, CacheTyped, NoProduct
<1>4. ASSUME NEW r \in Calls, NEW p \in Products, DeleteProductById(r, p)
      PROVE  RowsTyped'
  BY <1>4 DEF DeleteProductById, CacheInv, CacheTyped
<1>5. ASSUME NEW r \in Calls, NEW p \in Products, NEW l \in Locations, Sell(r, p, l)
      PROVE  RowsTyped'
  BY <1>5, CatalogueAssumption DEF Sell
<1>6. ASSUME NEW p \in Products, NEW l \in Locations, ReceiveStock(p, l)
      PROVE  RowsTyped'
  BY <1>6, CatalogueAssumption DEF ReceiveStock, Silently
<1>7. ASSUME NEW c \in Categories, NEW name \in CategoryNames \cup {"none"}, ChangeCategory(c, name)
      PROVE  RowsTyped'
  BY <1>7 DEF ChangeCategory, Silently
<1>8. ASSUME NEW r \in Calls,
             \/ Fill(r) \/ FindLists(r) \/ DeleteEntries(r) \/ AbandonCall(r)
             \/ \E k, S : BeginFill(r, k, S)
      PROVE  RowsTyped'
  BY <1>1, <1>8 DEF Fill, FindLists, DeleteEntries, AbandonCall, BeginFill
<1>9. ASSUME NEW k \in Keys, Expire(k) PROVE RowsTyped'
  BY <1>1, <1>9 DEF Expire
<1> HIDE DEF RowsTyped, Present, Existing
<1>10. CASE CatalogueNext
  BY <1>2, <1>3, <1>4, <1>5, <1>6, <1>7, <1>8, <1>9, <1>10
     DEF CatalogueNext, GetProductById, QueryProducts
<1>11. CASE UNCHANGED catalogueVars
  BY <1>1, <1>11 DEF catalogueVars
<1> QED BY <1>10, <1>11

\* What is suspect is a key.
LEMMA SuspectStep ==
  ASSUME CacheInv, suspect \subseteq Keys, [CatalogueNext]_catalogueVars
  PROVE  suspect' \subseteq Keys
<1>1. \A q \in Calls : /\ call[q].step = "fill" => call[q].key \in Keys
                       /\ call[q].step \in {"keys", "del"} => call[q].product \in Keys
                       /\ call[q].step \in {"idle", "fill", "keys", "del"}
  <2>1. \A c : /\ c = NoCall => c.step = "idle"
               /\ FillHolds(c) => c.step = "fill" /\ c.key \in Keys
               /\ Invalidates(c) => c.step \in {"keys", "del"} /\ c.product \in Products
    BY DEF NoCall, FillHolds, Invalidates
  <2>2. Products \subseteq Keys
    BY DEF Keys
  <2> QED BY <2>1, <2>2 DEF CacheInv, CallsHold
<1>2. ASSUME NEW r \in Calls, Fill(r) \/ FindLists(r) \/ DeleteEntries(r) \/ AbandonCall(r)
      PROVE  suspect' \subseteq Keys
  BY <1>1, <1>2, KeysOfLists DEF Fill, FindLists, DeleteEntries, AbandonCall, CallAt
<1>3. ASSUME suspect' = suspect \/ Silently \/ \E k \in Keys : Expire(k)
      PROVE  suspect' \subseteq Keys
  BY <1>3 DEF Silently, Outdated, Expire
<1>4. CASE CatalogueNext
  BY <1>2, <1>3, <1>4 DEF CatalogueNext, GetProductById, QueryProducts, BeginFill, CreateProduct,
     UpdateProductById, DeleteProductById, Sell, ChangeCategory, ReceiveStock
<1> QED BY <1>3, <1>4 DEF catalogueVars

\* CatalogueTypeOK: a product's categories exist, and what orders, stock or
\* kits refer to is a product (the foreign keys, category.service.ts and
\* product.service.ts).
THEOREM CatalogueTypeCorrect == CatalogueSpec => []CatalogueTypeOK
<1> DEFINE Inv == CacheInv /\ RowsTyped /\ suspect \subseteq Keys
<1>1. CatalogueInit => Inv
  BY CacheInitially, CatalogueAssumption DEF CatalogueInit, RowsTyped, Present, Existing
<1>2. Inv /\ [CatalogueNext]_catalogueVars => Inv'
  BY CacheStep, RowsStep, SuspectStep DEF Keys
<1>3. Inv => CatalogueTypeOK
  <2>1. \A c : /\ c = NoCall => c.step = "idle"
               /\ FillHolds(c) => c.step = "fill"
               /\ Invalidates(c) => c.step \in {"keys", "del"}
    BY DEF NoCall, FillHolds, Invalidates
  <2>2. CacheInv => \A q \in Calls : call[q].step \in {"idle", "fill", "keys", "del"}
    BY <2>1 DEF CacheInv, CallsHold
  <2>3. \A v : DOMAIN Entry(v) = {"ttl", "value"}
    BY DEF Entry
  <2>4. CacheInv => \A k \in Keys : entry[k] = NoEntry \/ DOMAIN entry[k] = {"ttl", "value"}
    BY <2>3 DEF CacheInv, EntriesTyped, Cached
  <2> QED BY <2>2, <2>4 DEF RowsTyped, CatalogueTypeOK
<1> QED BY <1>1, <1>2, <1>3, PTL DEF CatalogueSpec
=============================================================================
