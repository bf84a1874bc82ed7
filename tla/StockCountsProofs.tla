-------------------------- MODULE StockCountsProofs --------------------------
(***************************************************************************)
(* Theorems about StockCounts, for every set of products, counts and       *)
(* concurrent requests and every quantity. The invariant says that a       *)
(* request in flight names a count that exists, that a sound variance is   *)
(* the present distance between shelf and books, and that the items of a   *)
(* count are as far as its status says.                                    *)
(***************************************************************************)
EXTENDS StockCounts, TLAPS

StockFacts == INSTANCE StockLedgerProofs WITH Items <- Products

\* Every request found its count in the status its operation asks for, except
\* that the items of a posting are read later than the status was.
RequestsChecked ==
  \A r \in Requests :
    /\ request[r].kind \in {"enter", "review", "post", "adjust"} => count[request[r].id] # NoCount
    /\ request[r].kind = "enter" => request[r].read \in {"PENDING", "COUNTING", "REVIEW"}
    /\ request[r].kind = "review" => request[r].read \in {"COUNTING", "REVIEW"}

\* A sound variance is what posting it would have to correct.
SoundIsDiscrepancy ==
  \A c \in Counts, p \in Products :
    <<c, p>> \in sound =>
      /\ count[c] # NoCount
      /\ c \notin stale /\ count[c].status # "COMPLETED" =>
           count[c].variance[p] = shelf[p] - onHand[p]

IInv == TypeOK /\ RequestsChecked /\ SoundIsDiscrepancy /\ StatusMatchesItems

-----------------------------------------------------------------------------
(* Rows and movements. *)

LEMMA RowExists == NoCount \notin CountRow /\ \A row \in CountRow : row.status # "NONE"
  BY DEF NoCount, CountRow, Status

LEMMA UpdatedType ==
  ASSUME NEW row \in CountRow, NEW status \in Status, NEW variance \in [Products -> Int],
         NEW item \in [Products -> ItemStatus]
  PROVE  /\ Updated(row, status, variance, item) \in CountRow
         /\ Updated(row, status, variance, item).status = status
         /\ Updated(row, status, variance, item).variance = variance
         /\ Updated(row, status, variance, item).item = item
         /\ Updated(row, status, variance, item).lines = row.lines
  BY DEF Updated, CountRow

LEMMA RowFields ==
  ASSUME NEW row \in CountRow
  PROVE  /\ row.status \in Status /\ row.lines \subseteq Products /\ row.snapshot \in [Products -> Nat]
         /\ row.variance \in [Products -> Int] /\ row.item \in [Products -> ItemStatus]
  BY DEF CountRow, Quantities

LEMMA AdjustmentsType ==
  ASSUME NEW row \in CountRow
  PROVE  /\ Adjustments(row) \in [Products -> Int]
         /\ \A p \in Products : Adjustments(row)[p] = IF p \in Approved(row) THEN row.variance[p] ELSE 0
  BY RowFields DEF Adjustments

\* A movement that is posted keeps the types and the promise.
LEMMA PostFacts ==
  ASSUME TypeOK, NEW change \in [Products -> Int], Stock!Post(change)
  PROVE  /\ onHand' \in [Products -> Nat] /\ ledger' \in [Products -> Int]
         /\ \A p \in Products : onHand'[p] = onHand[p] + change[p]
         /\ Stock!Commit
  BY DEF TypeOK, Stock!Post, Stock!Commit, Stock!Allowed, Stock!OnHandAfter, Stock!LedgerAfter

LEMMA InitFacts ==
  ASSUME Init
  PROVE  IInv
  BY RowExists DEF Init, Stock!Init, IInv, TypeOK, RequestState, Idle, RequestsChecked,
     SoundIsDiscrepancy, StatusMatchesItems, NoCount

-----------------------------------------------------------------------------
(* What happens to stock outside of counts. *)

\* Only p moves, by change.
LEMMA SingleMove ==
  ASSUME TypeOK, NEW p \in Products, NEW change \in {-1, 1},
         Stock!Post([q \in Products |-> IF q = p THEN change ELSE 0])
  PROVE  /\ onHand' \in [Products -> Nat] /\ ledger' \in [Products -> Int]
         /\ \A q \in Products : onHand'[q] = onHand[q] + (IF q = p THEN change ELSE 0)
         /\ Stock!Commit
<1> DEFINE moved == [q \in Products |-> IF q = p THEN change ELSE 0]
<1>1. moved \in [Products -> Int] /\ \A q \in Products : moved[q] = IF q = p THEN change ELSE 0
  OBVIOUS
<1> HIDE DEF moved
<1>2. Stock!Post(moved)
  BY DEF moved
<1> QED
  BY <1>1, <1>2, PostFacts

LEMMA MoveKeeps ==
  ASSUME IInv, NEW p \in Products, NEW change \in {-1, 1}, Move(p, change)
  PROVE  IInv'
<1>1. /\ onHand' \in [Products -> Nat] /\ ledger' \in [Products -> Int]
      /\ \A q \in Products : onHand'[q] = onHand[q] + (IF q = p THEN change ELSE 0)
  BY SingleMove DEF Move, IInv
<1>2. /\ shelf' \in [Products -> Nat]
      /\ \A q \in Products : shelf'[q] = shelf[q] + (IF q = p THEN change ELSE 0)
  BY CountAssumption DEF Move, IInv, TypeOK
<1>3. TypeOK'
  BY <1>1, <1>2 DEF Move, IInv, TypeOK
<1>4. SoundIsDiscrepancy'
  <2> SUFFICES ASSUME NEW c \in Counts, NEW q \in Products, <<c, q>> \in sound
               PROVE  /\ count[c] # NoCount
                      /\ c \notin stale /\ count[c].status # "COMPLETED" =>
                           count[c].variance[q] = shelf'[q] - onHand'[q]
    BY DEF SoundIsDiscrepancy, Move
  <2>1. shelf'[q] - onHand'[q] = shelf[q] - onHand[q]
    BY <1>1, <1>2 DEF IInv, TypeOK
  <2> QED
    BY <2>1 DEF IInv, SoundIsDiscrepancy
<1> QED
  BY <1>3, <1>4 DEF Move, IInv, RequestsChecked, StatusMatchesItems

LEMMA CorrectKeeps ==
  ASSUME IInv, NEW p \in Products, NEW change \in {-1, 1}, Correct(p, change)
  PROVE  IInv'
<1>1. /\ onHand' \in [Products -> Nat] /\ ledger' \in [Products -> Int]
      /\ \A q \in Products : onHand'[q] = onHand[q] + (IF q = p THEN change ELSE 0)
  BY SingleMove DEF Correct, IInv
<1>2. TypeOK'
  BY <1>1 DEF Correct, IInv, TypeOK
<1>3. SoundIsDiscrepancy'
  <2> SUFFICES ASSUME NEW c \in Counts, NEW q \in Products, <<c, q>> \in sound'
               PROVE  /\ count[c] # NoCount
                      /\ c \notin stale /\ count[c].status # "COMPLETED" =>
                           count[c].variance[q] = shelf[q] - onHand'[q]
    BY DEF SoundIsDiscrepancy, Correct
  <2>1. <<c, q>> \in sound /\ q # p
    BY DEF Correct
  <2>2. onHand'[q] = onHand[q]
    BY <1>1, <2>1 DEF IInv, TypeOK
  <2> QED
    BY <2>1, <2>2 DEF IInv, SoundIsDiscrepancy
<1> QED
  BY <1>2, <1>3 DEF Correct, IInv, RequestsChecked, StatusMatchesItems

LEMMA LoseKeeps ==
  ASSUME IInv, NEW p \in Products, Lose(p)
  PROVE  IInv'
<1>1. shelf' \in [Products -> Nat] /\ \A q \in Products \ {p} : shelf'[q] = shelf[q]
  BY DEF Lose, IInv, TypeOK
<1>2. TypeOK'
  BY <1>1 DEF Lose, IInv, TypeOK
<1>3. SoundIsDiscrepancy'
  <2> SUFFICES ASSUME NEW c \in Counts, NEW q \in Products, <<c, q>> \in sound'
               PROVE  /\ count[c] # NoCount
                      /\ c \notin stale /\ count[c].status # "COMPLETED" =>
                           count[c].variance[q] = shelf'[q] - onHand[q]
    BY DEF SoundIsDiscrepancy, Lose
  <2>1. <<c, q>> \in sound /\ q # p
    BY DEF Lose
  <2> QED
    BY <1>1, <2>1 DEF IInv, SoundIsDiscrepancy
<1> QED
  BY <1>2, <1>3 DEF Lose, IInv, RequestsChecked, StatusMatchesItems

-----------------------------------------------------------------------------
(* Requests begin and are abandoned. *)

LEMMA RequestOnly ==
  ASSUME IInv, NEW r \in Requests, NEW next \in RequestState,
         request' = [request EXCEPT ![r] = next],
         UNCHANGED <<onHand, ledger, shelf, count, stale, sound>>,
         next.kind \in {"enter", "review", "post", "adjust"} => count[next.id] # NoCount,
         next.kind = "enter" => next.read \in {"PENDING", "COUNTING", "REVIEW"},
         next.kind = "review" => next.read \in {"COUNTING", "REVIEW"}
  PROVE  IInv'
<1>1. /\ request' \in [Requests -> RequestState]
      /\ request'[r] = next
      /\ \A q \in Requests \ {r} : request'[q] = request[q]
  BY DEF IInv, TypeOK
<1>2. TypeOK'
  BY <1>1 DEF IInv, TypeOK
<1>3. RequestsChecked'
  BY <1>1 DEF IInv, RequestsChecked
<1> QED
  BY <1>2, <1>3 DEF IInv, SoundIsDiscrepancy, StatusMatchesItems

LEMMA BeginInitiateKeeps ==
  ASSUME IInv, NEW r \in Requests, NEW c \in Counts, NEW lines \in SUBSET Products,
         BeginInitiate(r, c, lines)
  PROVE  IInv'
<1> DEFINE next == [kind |-> "initiate", id |-> c, lines |-> lines, snapshot |-> onHand]
<1>1. next \in RequestState /\ next.kind = "initiate"
  BY DEF RequestState, Quantities, IInv, TypeOK
<1>2. request' = [request EXCEPT ![r] = next] /\ UNCHANGED <<onHand, ledger, shelf, count, stale, sound>>
  BY DEF BeginInitiate
<1> HIDE DEF next
<1> QED
  BY <1>1, <1>2, RequestOnly

LEMMA BeginEntryKeeps ==
  ASSUME IInv, NEW r \in Requests, NEW c \in Counts, NEW named \in SUBSET Products,
         NEW counted \in [Products -> Countable], BeginEntry(r, c, named, counted)
  PROVE  IInv'
<1> DEFINE next == [kind |-> "enter", id |-> c, read |-> count[c].status,
                    named |-> named, counted |-> counted]
<1>1. count[c].status \in {"PENDING", "COUNTING", "REVIEW"} /\ count[c] # NoCount
  BY DEF BeginEntry, Enterable, NoCount
<1>2. counted \in Quantities
  BY CountAssumption DEF Quantities
<1>3. next \in RequestState /\ next.kind = "enter" /\ next.id = c /\ next.read = count[c].status
  BY <1>1, <1>2 DEF RequestState, Status
<1>4. request' = [request EXCEPT ![r] = next] /\ UNCHANGED <<onHand, ledger, shelf, count, stale, sound>>
  BY DEF BeginEntry
<1> HIDE DEF next
<1> QED
  BY <1>1, <1>3, <1>4, RequestOnly

LEMMA BeginReviewKeeps ==
  ASSUME IInv, NEW r \in Requests, NEW c \in Counts, NEW named \in SUBSET Products,
         NEW action \in ReviewAction, BeginReview(r, c, named, action)
  PROVE  IInv'
<1> DEFINE next == [kind |-> "review", id |-> c, read |-> count[c].status,
                    named |-> named, action |-> action]
<1>1. count[c].status \in {"COUNTING", "REVIEW"} /\ count[c] # NoCount
  BY DEF BeginReview, InReview, NoCount
<1>2. next \in RequestState /\ next.kind = "review" /\ next.id = c /\ next.read = count[c].status
  BY <1>1 DEF RequestState, Status
<1>3. request' = [request EXCEPT ![r] = next] /\ UNCHANGED <<onHand, ledger, shelf, count, stale, sound>>
  BY DEF BeginReview
<1> HIDE DEF next
<1> QED
  BY <1>1, <1>2, <1>3, RequestOnly

LEMMA BeginPostKeeps ==
  ASSUME IInv, NEW r \in Requests, NEW c \in Counts, BeginPost(r, c)
  PROVE  IInv'
<1> DEFINE next == [kind |-> "post", id |-> c]
<1>1. count[c] # NoCount
  BY DEF BeginPost, Postable, NoCount
<1>2. next \in RequestState /\ next.kind = "post" /\ next.id = c
  BY DEF RequestState
<1>3. request' = [request EXCEPT ![r] = next] /\ UNCHANGED <<onHand, ledger, shelf, count, stale, sound>>
  BY DEF BeginPost
<1> HIDE DEF next
<1> QED
  BY <1>1, <1>2, <1>3, RequestOnly

LEMMA ReadItemsKeeps ==
  ASSUME IInv, NEW r \in Requests, ReadItems(r)
  PROVE  IInv'
<1> DEFINE c == request[r].id
           next == [kind |-> "adjust", id |-> c, read |-> count[c]]
<1>1. c \in Counts
  BY DEF ReadItems, IInv, TypeOK, RequestState, Idle
<1>2. count[c] # NoCount
  BY DEF ReadItems, IInv, RequestsChecked
<1>3. count[c] \in CountRow
  BY <1>1, <1>2 DEF IInv, TypeOK
<1>4. next \in RequestState /\ next.kind = "adjust" /\ next.id = c
  BY <1>1, <1>3 DEF RequestState
<1>5. request' = [request EXCEPT ![r] = next] /\ UNCHANGED <<onHand, ledger, shelf, count, stale, sound>>
  BY DEF ReadItems
<1> HIDE DEF next
<1> QED
  BY <1>2, <1>4, <1>5, RequestOnly

LEMMA AbandonKeeps ==
  ASSUME IInv, NEW r \in Requests, Abandon(r)
  PROVE  IInv'
<1>1. Idle \in RequestState /\ Idle.kind = "idle"
  BY DEF RequestState, Idle
<1> QED
  BY <1>1, RequestOnly DEF Abandon

-----------------------------------------------------------------------------
(* Requests commit. *)

\* The count a request works on is a row, and its own next state is Idle.
LEMMA CommitFacts ==
  ASSUME IInv, NEW r \in Requests, request[r].kind \in {"enter", "review", "adjust"}
  PROVE  /\ request[r].id \in Counts /\ count[request[r].id] \in CountRow
         /\ request[r].kind = "enter" =>
              /\ request[r].read \in {"PENDING", "COUNTING", "REVIEW"}
              /\ request[r].named \subseteq Products /\ request[r].counted \in [Products -> Nat]
         /\ request[r].kind = "review" =>
              /\ request[r].read \in {"COUNTING", "REVIEW"}
              /\ request[r].action \in ReviewAction
         /\ request[r].kind = "adjust" => request[r].read \in CountRow
<1>1. request[r].id \in Counts /\ count[request[r].id] \in CountRow
  BY DEF IInv, TypeOK, RequestState, Idle, RequestsChecked
<1>2. request[r].kind = "enter" =>
        request[r].named \subseteq Products /\ request[r].counted \in [Products -> Nat]
  BY DEF IInv, TypeOK, RequestState, Idle, Quantities
<1>3. request[r].kind = "review" => request[r].action \in ReviewAction
  BY DEF IInv, TypeOK, RequestState, Idle
<1>4. request[r].kind = "adjust" => request[r].read \in CountRow
  BY DEF IInv, TypeOK, RequestState, Idle
<1> QED
  BY <1>1, <1>2, <1>3, <1>4 DEF IInv, RequestsChecked

\* A commit of r that writes count c and leaves the other counts and requests.
LEMMA CountWritten ==
  ASSUME IInv, NEW r \in Requests, NEW c \in Counts, NEW row \in CountRow,
         count' = [count EXCEPT ![c] = row], request' = [request EXCEPT ![r] = Idle]
  PROVE  /\ count' \in [Counts -> CountRow \cup {NoCount}]
         /\ count'[c] = row /\ \A d \in Counts \ {c} : count'[d] = count[d]
         /\ request' \in [Requests -> RequestState]
         /\ RequestsChecked'
<1>1. /\ count' \in [Counts -> CountRow \cup {NoCount}]
      /\ count'[c] = row /\ \A d \in Counts \ {c} : count'[d] = count[d]
  BY DEF IInv, TypeOK
<1>2. request' \in [Requests -> RequestState]
  BY DEF IInv, TypeOK, RequestState
<1>3. \A d \in Counts : count[d] # NoCount => count'[d] # NoCount
  BY <1>1, RowExists
<1>4. ASSUME NEW q \in Requests, request[q].kind \in {"enter", "review", "post", "adjust"}
      PROVE  request[q].id \in Counts
  BY <1>4 DEF IInv, TypeOK, RequestState, Idle
<1>5. \A q \in Requests : request'[q] = IF q = r THEN Idle ELSE request[q]
  BY DEF IInv, TypeOK
<1>6. RequestsChecked'
  BY <1>3, <1>4, <1>5 DEF IInv, RequestsChecked, Idle
<1> QED
  BY <1>1, <1>2, <1>6

LEMMA CommitInitiateKeeps ==
  ASSUME IInv, NEW r \in Requests, CommitInitiate(r)
  PROVE  IInv'
<1> DEFINE c == request[r].id
           row == [status |-> "PENDING", lines |-> request[r].lines, snapshot |-> request[r].snapshot,
                   variance |-> [p \in Products |-> 0], item |-> [p \in Products |-> "PENDING"]]
<1>1. c \in Counts /\ request[r].lines \in SUBSET Products /\ request[r].snapshot \in Quantities
  BY DEF CommitInitiate, IInv, TypeOK, RequestState, Idle
<1>2. row \in CountRow /\ row.status = "PENDING" /\ \A p \in Products : row.item[p] = "PENDING"
  BY <1>1 DEF CountRow, Status, ItemStatus
<1>3. count' = [count EXCEPT ![c] = row] /\ request' = [request EXCEPT ![r] = Idle]
      /\ count[c] = NoCount /\ UNCHANGED <<onHand, ledger, shelf, stale, sound>>
  BY DEF CommitInitiate
<1> HIDE DEF row, c
<1>4. /\ count' \in [Counts -> CountRow \cup {NoCount}]
      /\ count'[c] = row /\ \A d \in Counts \ {c} : count'[d] = count[d]
      /\ request' \in [Requests -> RequestState]
      /\ RequestsChecked'
  BY <1>1, <1>2, <1>3, CountWritten
<1>5. TypeOK'
  BY <1>3, <1>4 DEF IInv, TypeOK
<1>6. SoundIsDiscrepancy'
  BY <1>3, <1>4 DEF IInv, SoundIsDiscrepancy
<1>7. StatusMatchesItems'
  BY <1>2, <1>3, <1>4 DEF IInv, StatusMatchesItems
<1> QED
  BY <1>4, <1>5, <1>6, <1>7 DEF IInv

\* An entry makes the variances of its items what was counted, less what the
\* books said, and starts a count that was pending.
LEMMA CommitEntryKeeps ==
  ASSUME IInv, NEW r \in Requests, CommitEntry(r)
  PROVE  IInv'
<1> DEFINE c == request[r].id  read == request[r].read
           named == request[r].named  counted == request[r].counted
           variance == [p \in Products |-> IF p \in named
                          THEN VarianceOf(counted[p], count[c].snapshot[p])
                          ELSE count[c].variance[p]]
           item == [p \in Products |-> IF p \in named THEN "COUNTED" ELSE count[c].item[p]]
           status == StatusAfterEntry(read, count[c].status)
           row == Updated(count[c], status, variance, item)
<1>1. /\ c \in Counts /\ count[c] \in CountRow
      /\ read \in {"PENDING", "COUNTING", "REVIEW"}
      /\ named \subseteq Products /\ counted \in [Products -> Nat]
  BY CommitFacts DEF CommitEntry
<1>2. /\ count[c].status \in Status /\ count[c].snapshot \in [Products -> Nat]
      /\ count[c].variance \in [Products -> Int] /\ count[c].item \in [Products -> ItemStatus]
  BY <1>1, RowFields
<1>3. status \in Status /\ variance \in [Products -> Int] /\ item \in [Products -> ItemStatus]
  BY <1>1, <1>2 DEF StatusAfterEntry, Status, ItemStatus, VarianceOf
<1>4. /\ count' = [count EXCEPT ![c] = row] /\ request' = [request EXCEPT ![r] = Idle]
      /\ NoteStale(c, count[c].status # read)
      /\ sound' = {i \in Counts \X Products :
                     IF i[1] = c /\ i[2] \in named
                     THEN counted[i[2]] = shelf[i[2]] /\ onHand[i[2]] = count[c].snapshot[i[2]]
                     ELSE i \in sound}
      /\ UNCHANGED <<onHand, ledger, shelf>>
  BY DEF CommitEntry
<1>5. /\ row \in CountRow /\ row.status = status /\ row.variance = variance /\ row.item = item
  BY <1>1, <1>3, UpdatedType
<1>6. /\ \A p \in named : variance[p] = counted[p] - count[c].snapshot[p] /\ item[p] = "COUNTED"
      /\ \A p \in Products \ named : variance[p] = count[c].variance[p] /\ item[p] = count[c].item[p]
  BY <1>1 DEF VarianceOf
<1>7. /\ read = "PENDING" => status = "COUNTING"
      /\ read # "PENDING" => status = count[c].status
  BY DEF StatusAfterEntry
<1> HIDE DEF row, variance, item, status, named, counted, c, read
<1>8. /\ count' \in [Counts -> CountRow \cup {NoCount}]
      /\ count'[c] = row /\ \A d \in Counts \ {c} : count'[d] = count[d]
      /\ request' \in [Requests -> RequestState]
      /\ RequestsChecked'
  BY <1>1, <1>4, <1>5, CountWritten
<1>9. stale' \subseteq Counts /\ stale \subseteq stale' /\ (c \notin stale' => count[c].status = read)
  BY <1>1, <1>4 DEF NoteStale, IInv, TypeOK
<1>10. TypeOK'
  BY <1>4, <1>8, <1>9 DEF IInv, TypeOK
<1>11. SoundIsDiscrepancy'
  <2> SUFFICES ASSUME NEW d \in Counts, NEW p \in Products, <<d, p>> \in sound'
               PROVE  /\ count'[d] # NoCount
                      /\ d \notin stale' /\ count'[d].status # "COMPLETED" =>
                           count'[d].variance[p] = shelf[p] - onHand[p]
    BY <1>4 DEF SoundIsDiscrepancy
  <2>1. CASE d = c /\ p \in named
    <3>1. counted[p] = shelf[p] /\ onHand[p] = count[c].snapshot[p]
      BY <1>4, <2>1
    <3> QED
      BY <1>5, <1>6, <1>8, <2>1, <3>1, RowExists
  <2>2. CASE d = c /\ p \notin named
    <3>1. <<c, p>> \in sound
      BY <1>4, <2>2
    <3>2. c \notin stale' => count[c].status # "COMPLETED"
      BY <1>1, <1>9
    <3> QED
      BY <1>1, <1>5, <1>6, <1>8, <1>9, <2>2, <3>1, <3>2, RowExists DEF IInv, SoundIsDiscrepancy
  <2>3. CASE d # c
    <3>1. <<d, p>> \in sound
      BY <1>4, <2>3
    <3> QED
      BY <1>8, <1>9, <2>3, <3>1 DEF IInv, SoundIsDiscrepancy
  <2> QED
    BY <2>1, <2>2, <2>3
<1>12. StatusMatchesItems'
  <2> SUFFICES ASSUME NEW d \in Counts \ stale', NEW p \in Products
               PROVE  /\ count'[d].status = "PENDING" => count'[d].item[p] = "PENDING"
                      /\ count'[d].status = "COUNTING" => count'[d].item[p] \in {"PENDING", "COUNTED"}
    BY DEF StatusMatchesItems
  <2>1. CASE d = c
    <3>1. count[c].status = read /\ c \notin stale
      BY <1>9, <2>1
    <3>2. status # "PENDING"
      BY <1>7, <3>1
    <3>3. status = "COUNTING" => count[c].status \in {"PENDING", "COUNTING"}
      BY <1>7, <3>1
    <3>4. status = "COUNTING" => count[c].item[p] \in {"PENDING", "COUNTED"}
      BY <1>1, <3>1, <3>3 DEF IInv, StatusMatchesItems
    <3> QED
      BY <1>5, <1>6, <1>8, <2>1, <3>2, <3>4
  <2>2. CASE d # c
    BY <1>8, <1>9, <2>2 DEF IInv, StatusMatchesItems
  <2> QED
    BY <2>1, <2>2
<1> QED
  BY <1>8, <1>10, <1>11, <1>12 DEF IInv

\* A review leaves the variances and the status it read, or starts the review.
LEMMA CommitReviewKeeps ==
  ASSUME IInv, NEW r \in Requests, CommitReview(r)
  PROVE  IInv'
<1> DEFINE c == request[r].id  read == request[r].read
           item == [p \in Products |-> IF p \in request[r].named /\ Reviewable(count[c].item[p])
                                       THEN request[r].action ELSE count[c].item[p]]
           status == IF read # "REVIEW" THEN "REVIEW" ELSE count[c].status
           row == Updated(count[c], status, count[c].variance, item)
<1>1. /\ c \in Counts /\ count[c] \in CountRow
      /\ read \in {"COUNTING", "REVIEW"} /\ request[r].action \in ReviewAction
  BY CommitFacts DEF CommitReview
<1>2. /\ count[c].status \in Status
      /\ count[c].variance \in [Products -> Int] /\ count[c].item \in [Products -> ItemStatus]
  BY <1>1, RowFields
<1>3. status \in Status /\ item \in [Products -> ItemStatus]
  BY <1>1, <1>2 DEF Status, ItemStatus, ReviewAction
<1>4. /\ count' = [count EXCEPT ![c] = row] /\ request' = [request EXCEPT ![r] = Idle]
      /\ NoteStale(c, count[c].status # read)
      /\ UNCHANGED <<onHand, ledger, shelf, sound>>
  BY DEF CommitReview
<1>5. row \in CountRow /\ row.status = status /\ row.variance = count[c].variance
  BY <1>1, <1>2, <1>3, UpdatedType
<1>6. count[c].status = read => status = "REVIEW" /\ count[c].status # "COMPLETED"
  BY <1>1
<1> HIDE DEF row, item, status, c, read
<1>7. /\ count' \in [Counts -> CountRow \cup {NoCount}]
      /\ count'[c] = row /\ \A d \in Counts \ {c} : count'[d] = count[d]
      /\ request' \in [Requests -> RequestState]
      /\ RequestsChecked'
  BY <1>1, <1>4, <1>5, CountWritten
<1>8. stale' \subseteq Counts /\ stale \subseteq stale' /\ (c \notin stale' => count[c].status = read)
  BY <1>1, <1>4 DEF NoteStale, IInv, TypeOK
<1>9. TypeOK'
  BY <1>4, <1>7, <1>8 DEF IInv, TypeOK
<1>10. SoundIsDiscrepancy'
  <2> SUFFICES ASSUME NEW d \in Counts, NEW p \in Products, <<d, p>> \in sound
               PROVE  /\ count'[d] # NoCount
                      /\ d \notin stale' /\ count'[d].status # "COMPLETED" =>
                           count'[d].variance[p] = shelf[p] - onHand[p]
    BY <1>4 DEF SoundIsDiscrepancy
  <2>1. CASE d = c
    BY <1>5, <1>6, <1>7, <1>8, <2>1, RowExists DEF IInv, SoundIsDiscrepancy
  <2>2. CASE d # c
    BY <1>7, <1>8, <2>2 DEF IInv, SoundIsDiscrepancy
  <2> QED
    BY <2>1, <2>2
<1>11. StatusMatchesItems'
  <2> SUFFICES ASSUME NEW d \in Counts \ stale', NEW p \in Products
               PROVE  /\ count'[d].status = "PENDING" => count'[d].item[p] = "PENDING"
                      /\ count'[d].status = "COUNTING" => count'[d].item[p] \in {"PENDING", "COUNTED"}
    BY DEF StatusMatchesItems
  <2>1. CASE d = c
    BY <1>5, <1>6, <1>7, <1>8, <2>1
  <2>2. CASE d # c
    BY <1>7, <1>8, <2>2 DEF IInv, StatusMatchesItems
  <2> QED
    BY <2>1, <2>2
<1> QED
  BY <1>7, <1>9, <1>10, <1>11 DEF IInv

\* What a posting does, as far as the theorems need it.
LEMMA PostingFacts ==
  ASSUME IInv, NEW r \in Requests, CommitPost(r)
  PROVE  LET c == request[r].id  read == request[r].read IN
         /\ c \in Counts /\ count[c] \in CountRow /\ read \in CountRow
         /\ count'[c] \in CountRow /\ count'[c].status = "COMPLETED"
         /\ \A d \in Counts \ {c} : count'[d] = count[d]
         /\ \A p \in Products : onHand'[p] = onHand[p] + Adjustments(read)[p]
         /\ Adjustments(read) \in [Products -> Int]
         /\ stale \subseteq stale' /\ (c \notin stale' => count[c] = read)
         /\ Stock!Commit /\ TypeOK' /\ RequestsChecked'
<1> DEFINE c == request[r].id  read == request[r].read
           change == Adjustments(read)
           row == Updated(count[c], "COMPLETED", count[c].variance, count[c].item)
<1>1. c \in Counts /\ count[c] \in CountRow /\ read \in CountRow
  BY CommitFacts DEF CommitPost
<1>2. change \in [Products -> Int]
  BY <1>1, AdjustmentsType
<1>3. row \in CountRow /\ row.status = "COMPLETED"
  BY <1>1, RowFields, UpdatedType DEF Status
<1>4. /\ Stock!Post(change)
      /\ count' = [count EXCEPT ![c] = row] /\ request' = [request EXCEPT ![r] = Idle]
      /\ NoteStale(c, count[c] # read \/ ~ Postable(read))
      /\ sound' = {i \in sound : i[1] = c \/ change[i[2]] = 0}
      /\ UNCHANGED shelf
  BY DEF CommitPost
<1> HIDE DEF row, change, c, read
<1>5. /\ onHand' \in [Products -> Nat] /\ ledger' \in [Products -> Int]
      /\ \A p \in Products : onHand'[p] = onHand[p] + change[p]
      /\ Stock!Commit
  BY <1>2, <1>4, PostFacts DEF IInv
<1>6. /\ count' \in [Counts -> CountRow \cup {NoCount}]
      /\ count'[c] = row /\ \A d \in Counts \ {c} : count'[d] = count[d]
      /\ request' \in [Requests -> RequestState]
      /\ RequestsChecked'
  BY <1>1, <1>3, <1>4, CountWritten
<1>7. stale' \subseteq Counts /\ stale \subseteq stale' /\ (c \notin stale' => count[c] = read)
  BY <1>1, <1>4 DEF NoteStale, IInv, TypeOK
<1>8. TypeOK'
  BY <1>4, <1>5, <1>6, <1>7 DEF IInv, TypeOK
<1> QED
  BY <1>1, <1>2, <1>3, <1>5, <1>6, <1>7, <1>8 DEF c, read, change

\* Posting leaves what is sound in the other counts, and completes its own.
LEMMA CommitPostKeeps ==
  ASSUME IInv, NEW r \in Requests, CommitPost(r)
  PROVE  IInv'
<1> DEFINE c == request[r].id  change == Adjustments(request[r].read)
<1>1. /\ c \in Counts /\ count'[c] \in CountRow /\ count'[c].status = "COMPLETED"
      /\ \A d \in Counts \ {c} : count'[d] = count[d]
      /\ \A p \in Products : onHand'[p] = onHand[p] + change[p]
      /\ stale \subseteq stale' /\ TypeOK' /\ RequestsChecked'
  BY PostingFacts
<1>2. sound' = {i \in sound : i[1] = c \/ change[i[2]] = 0} /\ UNCHANGED shelf
  BY DEF CommitPost
<1> HIDE DEF c, change
<1>3. SoundIsDiscrepancy'
  <2> SUFFICES ASSUME NEW d \in Counts, NEW p \in Products, <<d, p>> \in sound'
               PROVE  /\ count'[d] # NoCount
                      /\ d \notin stale' /\ count'[d].status # "COMPLETED" =>
                           count'[d].variance[p] = shelf[p] - onHand'[p]
    BY <1>2 DEF SoundIsDiscrepancy
  <2>1. <<d, p>> \in sound /\ (d = c \/ change[p] = 0)
    BY <1>2
  <2>2. CASE d = c
    BY <1>1, <2>2, RowExists
  <2>3. CASE d # c
    <3>1. onHand'[p] = onHand[p]
      BY <1>1, <2>1, <2>3 DEF IInv, TypeOK
    <3> QED
      BY <1>1, <2>1, <2>3, <3>1 DEF IInv, SoundIsDiscrepancy
  <2> QED
    BY <2>2, <2>3
<1>4. StatusMatchesItems'
  BY <1>1 DEF IInv, StatusMatchesItems
<1> QED
  BY <1>1, <1>3, <1>4 DEF IInv

-----------------------------------------------------------------------------
(* The theorems. *)

LEMMA StepKeeps ==
  ASSUME IInv, [Next]_vars
  PROVE  IInv'
<1>1. CASE \E p \in Products, change \in {-1, 1} : Move(p, change) \/ Correct(p, change)
  BY <1>1, MoveKeeps, CorrectKeeps
<1>2. CASE \E p \in Products : Lose(p)
  BY <1>2, LoseKeeps
<1>3. CASE \E r \in Requests, c \in Counts, lines \in SUBSET Products : BeginInitiate(r, c, lines)
  BY <1>3, BeginInitiateKeeps
<1>4. CASE \E r \in Requests, c \in Counts, named \in SUBSET Products,
              counted \in [Products -> Countable] : BeginEntry(r, c, named, counted)
  BY <1>4, BeginEntryKeeps
<1>5. CASE \E r \in Requests, c \in Counts, named \in SUBSET Products, action \in ReviewAction :
              BeginReview(r, c, named, action)
  BY <1>5, BeginReviewKeeps
<1>6. CASE \E r \in Requests, c \in Counts : BeginPost(r, c)
  BY <1>6, BeginPostKeeps
<1>7. CASE \E r \in Requests : CommitInitiate(r) \/ CommitEntry(r) \/ CommitReview(r)
  BY <1>7, CommitInitiateKeeps, CommitEntryKeeps, CommitReviewKeeps
<1>8. CASE \E r \in Requests : ReadItems(r) \/ CommitPost(r) \/ Abandon(r)
  BY <1>8, ReadItemsKeeps, CommitPostKeeps, AbandonKeeps
<1>9. CASE UNCHANGED vars
  BY <1>9 DEF vars, IInv, TypeOK, RequestsChecked, SoundIsDiscrepancy, StatusMatchesItems
<1> QED
  BY <1>1, <1>2, <1>3, <1>4, <1>5, <1>6, <1>7, <1>8, <1>9 DEF Next

LEMMA Inductive == Spec => []IInv
<1>1. Init => IInv
  BY InitFacts
<1>2. IInv /\ [Next]_vars => IInv'
  BY StepKeeps
<1> QED
  BY <1>1, <1>2, PTL DEF Spec

\* Stock, counts, their items and the requests in flight have their types.
THEOREM TypeCorrect == Spec => []TypeOK
BY Inductive, PTL DEF IInv

\* The status of a count tells how far its items are, unless a request wrote
\* the count on a superseded read.
THEOREM StatusAlwaysMatchesItems == Spec => []StatusMatchesItems
BY Inductive, PTL DEF IInv

\* A count that no superseded read has written is completed by a posting, and
\* by none but its own.
LEMMA CompletedByPosting ==
  ASSUME IInv, Next, NEW c \in Counts, c \notin stale',
         count[c].status # "COMPLETED", count'[c].status = "COMPLETED"
  PROVE  \E r \in Requests : CommitPost(r) /\ request[r].id = c
<1>1. ASSUME NEW r \in Requests, CommitInitiate(r)
      PROVE  FALSE
  BY <1>1 DEF CommitInitiate, IInv, TypeOK
<1>2. ASSUME NEW r \in Requests, CommitEntry(r)
      PROVE  FALSE
  <2>1. /\ request[r].id \in Counts /\ count[request[r].id] \in CountRow
        /\ request[r].read \in {"PENDING", "COUNTING", "REVIEW"}
    BY <1>2, CommitFacts DEF CommitEntry
  <2>2. \A d \in Counts : count'[d].status =
          IF d = request[r].id THEN StatusAfterEntry(request[r].read, count[d].status) ELSE count[d].status
    BY <1>2, <2>1 DEF CommitEntry, IInv, TypeOK, Updated
  <2> QED
    BY <2>2 DEF StatusAfterEntry
<1>3. ASSUME NEW r \in Requests, CommitReview(r)
      PROVE  FALSE
  <2>1. \A d \in Counts : count'[d].status =
          IF d = request[r].id
          THEN IF request[r].read # "REVIEW" THEN "REVIEW" ELSE count[d].status
          ELSE count[d].status
    BY <1>3 DEF CommitReview, IInv, TypeOK, Updated
  <2> QED
    BY <2>1
<1>4. ASSUME NEW r \in Requests, CommitPost(r)
      PROVE  request[r].id = c
  BY <1>4, PostingFacts
<1>5. UNCHANGED count => FALSE
  OBVIOUS
<1> QED
  BY <1>1, <1>2, <1>3, <1>4, <1>5
     DEF Next, Move, Correct, Lose, BeginInitiate, BeginEntry, BeginReview, BeginPost, ReadItems, Abandon

\* Completing a count moves stock by the approved variances and by nothing
\* else, unless a request wrote the count on a superseded read.
THEOREM OnlyApprovedMovesStock == Spec => OnlyApprovedIsPosted
<1>1. IInv /\ [Next]_vars =>
        [\A c \in Counts \ stale' :
           count[c].status # "COMPLETED" /\ count'[c].status = "COMPLETED" =>
             \A p \in Products :
               onHand'[p] - onHand[p] =
                 IF p \in Approved(count[c]) THEN count[c].variance[p] ELSE 0]_vars
  <2> SUFFICES ASSUME IInv, Next, NEW c \in Counts, c \notin stale',
                      count[c].status # "COMPLETED", count'[c].status = "COMPLETED",
                      NEW p \in Products
               PROVE  onHand'[p] - onHand[p] =
                        IF p \in Approved(count[c]) THEN count[c].variance[p] ELSE 0
    BY DEF vars
  <2>1. PICK r \in Requests : CommitPost(r) /\ request[r].id = c
    BY CompletedByPosting
  <2>2. /\ count[c] = request[r].read /\ count[c] \in CountRow
        /\ onHand'[p] = onHand[p] + Adjustments(request[r].read)[p]
        /\ Adjustments(request[r].read) \in [Products -> Int]
    BY <2>1, PostingFacts
  <2>3. Adjustments(count[c])[p] = IF p \in Approved(count[c]) THEN count[c].variance[p] ELSE 0
    BY <2>2, AdjustmentsType
  <2>4. onHand[p] \in Nat /\ Adjustments(count[c])[p] \in Int
    BY <2>2 DEF IInv, TypeOK
  <2>5. onHand'[p] - onHand[p] = Adjustments(count[c])[p]
    BY <2>2, <2>4
  <2> QED
    BY <2>3, <2>5
<1> QED
  BY <1>1, Inductive, PTL DEF Spec, OnlyApprovedIsPosted

\* Stock moves between counting and posting, and another count of the same
\* products may be open: posting still makes the books agree with the shelf
\* wherever the variance was sound.
THEOREM PostingAlwaysReconciles == Spec => PostingReconciles
<1>1. IInv /\ [Next]_vars =>
        [\A c \in Counts \ stale' :
           count[c].status = "REVIEW" /\ count'[c].status = "COMPLETED" =>
             \A p \in Approved(count[c]) : <<c, p>> \in sound => onHand'[p] = shelf[p]]_vars
  <2> SUFFICES ASSUME IInv, Next, NEW c \in Counts, c \notin stale',
                      count[c].status = "REVIEW", count'[c].status = "COMPLETED",
                      NEW p \in Approved(count[c]), <<c, p>> \in sound
               PROVE  onHand'[p] = shelf[p]
    BY DEF vars
  <2>1. PICK r \in Requests : CommitPost(r) /\ request[r].id = c
    BY CompletedByPosting
  <2>2. /\ count[c] = request[r].read /\ count[c] \in CountRow /\ c \notin stale
        /\ \A q \in Products : onHand'[q] = onHand[q] + Adjustments(request[r].read)[q]
    BY <2>1, PostingFacts
  <2>3. p \in Products /\ count[c].variance[p] \in Int
    BY <2>2, RowFields DEF Approved
  <2>4. onHand'[p] = onHand[p] + count[c].variance[p]
    BY <2>2, <2>3, AdjustmentsType
  <2>5. count[c].variance[p] = shelf[p] - onHand[p]
    BY <2>2, <2>3 DEF IInv, SoundIsDiscrepancy
  <2> QED
    BY <2>3, <2>4, <2>5 DEF IInv, TypeOK
<1> QED
  BY <1>1, Inductive, PTL DEF Spec, PostingReconciles

\* Counts, and all that moves stock around them, keep the stock promise:
\* StockCounts implements StockLedger, with the same onHand and ledger.
THEOREM KeepsStockPromise == Spec => StockPromise
<1>1. Init => Stock!Init
  BY DEF Init
<1>2. IInv /\ [Next]_vars => [Stock!Commit]_<<onHand, ledger>>
  <2> SUFFICES ASSUME IInv, Next
               PROVE  Stock!Commit \/ UNCHANGED <<onHand, ledger>>
    BY DEF vars
  <2>1. ASSUME NEW p \in Products, NEW change \in {-1, 1}, Move(p, change) \/ Correct(p, change)
        PROVE  Stock!Commit
    BY <2>1, SingleMove DEF Move, Correct, IInv
  <2>2. ASSUME NEW r \in Requests, CommitPost(r)
        PROVE  Stock!Commit
    BY <2>2, PostingFacts
  <2> QED
    BY <2>1, <2>2 DEF Next, Lose, BeginInitiate, BeginEntry, BeginReview, BeginPost, ReadItems, Abandon,
       CommitInitiate, CommitEntry, CommitReview
<1> QED
  BY <1>1, <1>2, Inductive, PTL DEF Spec, StockPromise, Stock!Spec, Stock!stockVars

\* So counting never takes a stock position below zero nor out of balance with
\* its movements.
THEOREM CountsKeepStockSafe == Spec => [](Stock!NonNegative /\ Stock!Balanced)
<1>1. StockPromise => [](Stock!NonNegative /\ Stock!Balanced)
  BY StockFacts!PromiseMeansSafe
     DEF StockPromise, StockFacts!Spec, StockFacts!Init, StockFacts!Commit,
         StockFacts!stockVars, StockFacts!NonNegative, StockFacts!Balanced,
         Stock!Spec, Stock!Init, Stock!Commit, Stock!stockVars,
         Stock!NonNegative, Stock!Balanced
<1> QED
  BY <1>1, KeepsStockPromise
=============================================================================
