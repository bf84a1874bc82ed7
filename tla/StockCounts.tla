----------------------------- MODULE StockCounts -----------------------------
(***************************************************************************)
(* Physical stock counts of one location, stock-count.service.ts.          *)
(*                                                                         *)
(* A count takes a snapshot of what the books say is on hand; staff enter  *)
(* what they find on the shelf; a manager approves, skips or asks for a    *)
(* recount of each variance (counted minus snapshot); posting adds the     *)
(* approved variances to the books. Stock keeps moving all the while.      *)
(*                                                                         *)
(* Every operation reads the count outside its transaction and writes it   *)
(* inside one, without looking at its status again: Begin and Commit, with *)
(* other requests in between.                                              *)
(***************************************************************************)
EXTENDS Integers

CONSTANTS
  Products,
  Counts,           \* stock count ids
  Requests,         \* requests in flight at the same time
  Countable,        \* quantities staff may enter
  MaxOnHand         \* bound: no change is made that raises stock above it

ASSUME CountAssumption ==
  /\ Countable \subseteq Nat
  /\ MaxOnHand \in Nat

VARIABLES
  onHand, ledger,   \* stock at the location, as in StockLedger
  shelf,            \* what is physically there
  count,            \* StockCount rows with their items
  request,          \* what each request in flight has read and decided
  stale,            \* history: counts written on a superseded read
  sound             \* history: items whose variance is the discrepancy between
                    \* shelf and books, see CommitEntry

vars == <<onHand, ledger, shelf, count, request, stale, sound>>

Stock == INSTANCE StockLedger WITH Items <- Products

-----------------------------------------------------------------------------

Status == {"PENDING", "COUNTING", "REVIEW", "COMPLETED"}
ItemStatus == {"PENDING", "COUNTED", "RECOUNT_REQUESTED", "APPROVED", "SKIPPED"}
ReviewAction == {"APPROVED", "RECOUNT_REQUESTED", "SKIPPED"}
Quantities == [Products -> Nat]

\* A count covers the products in lines; a PENDING item has no variance yet.
CountRow ==
  [status : Status, lines : SUBSET Products, snapshot : Quantities,
   variance : [Products -> Int], item : [Products -> ItemStatus]]

NoCount == [status |-> "NONE"]

\* The row after an update of its status and of its items.
Updated(row, status, variance, item) ==
  [status |-> status, lines |-> row.lines, snapshot |-> row.snapshot,
   variance |-> variance, item |-> item]

Idle == [kind |-> "idle"]
RequestState ==
  {Idle}
    \cup [kind : {"initiate"}, id : Counts, lines : SUBSET Products, snapshot : Quantities]
    \cup [kind : {"enter"}, id : Counts, read : Status,
          named : SUBSET Products, counted : Quantities]
    \cup [kind : {"review"}, id : Counts, read : Status,
          named : SUBSET Products, action : ReviewAction]
    \cup [kind : {"post"}, id : Counts]
    \cup [kind : {"adjust"}, id : Counts, read : CountRow]

TypeOK ==
  /\ onHand \in [Products -> Nat]
  /\ ledger \in [Products -> Int]
  /\ shelf \in [Products -> Nat]
  /\ count \in [Counts -> CountRow \cup {NoCount}]
  /\ request \in [Requests -> RequestState]
  /\ stale \in SUBSET Counts
  /\ sound \in SUBSET (Counts \X Products)

Init ==
  /\ Stock!Init
  /\ shelf = [p \in Products |-> 0]
  /\ count = [c \in Counts |-> NoCount]
  /\ request = [r \in Requests |-> Idle]
  /\ stale = {}
  /\ sound = {}

-----------------------------------------------------------------------------
(* What happens to stock outside of counts. *)

\* Goods arrive or leave and the books follow.
Move(p, change) ==
  /\ shelf[p] + change \in 0..MaxOnHand
  /\ onHand[p] + change <= MaxOnHand
  /\ Stock!Post([q \in Products |-> IF q = p THEN change ELSE 0])
  /\ shelf' = [shelf EXCEPT ![p] = @ + change]
  /\ UNCHANGED <<count, request, stale, sound>>

\* The books are corrected without anything moving: a manual adjustment.
Correct(p, change) ==
  /\ onHand[p] + change <= MaxOnHand
  /\ Stock!Post([q \in Products |-> IF q = p THEN change ELSE 0])
  /\ sound' = sound \ (Counts \X {p})
  /\ UNCHANGED <<shelf, count, request, stale>>

\* Goods disappear and nobody notices: the reason to count at all.
Lose(p) ==
  /\ shelf[p] > 0
  /\ shelf' = [shelf EXCEPT ![p] = @ - 1]
  /\ sound' = sound \ (Counts \X {p})
  /\ UNCHANGED <<onHand, ledger, count, request, stale>>

-----------------------------------------------------------------------------
(* Initiating a count. *)

\* The products of the count that have a stock row, and their quantities.
BeginInitiate(r, c, lines) ==
  /\ request[r] = Idle
  /\ lines # {}
  /\ request' = [request EXCEPT ![r] =
       [kind |-> "initiate", id |-> c, lines |-> lines, snapshot |-> onHand]]
  /\ UNCHANGED <<onHand, ledger, shelf, count, stale, sound>>

CommitInitiate(r) ==
  LET c == request[r].id
  IN  /\ request[r].kind = "initiate"
      /\ count[c] = NoCount
      /\ count' = [count EXCEPT ![c] =
           [status |-> "PENDING", lines |-> request[r].lines,
            snapshot |-> request[r].snapshot,
            variance |-> [p \in Products |-> 0],
            item |-> [p \in Products |-> "PENDING"]]]
      /\ request' = [request EXCEPT ![r] = Idle]
      /\ UNCHANGED <<onHand, ledger, shelf, stale, sound>>

-----------------------------------------------------------------------------
(* Entering counts. *)

Enterable(row) == row.status \in {"PENDING", "COUNTING", "REVIEW"}

\* counted[p] is 0 for an item the sheet does not name.
BeginEntry(r, c, named, counted) ==
  /\ request[r] = Idle
  /\ Enterable(count[c])
  /\ named # {} /\ named \subseteq count[c].lines
  /\ \A p \in Products \ named : counted[p] = 0
  /\ request' = [request EXCEPT ![r] =
       [kind |-> "enter", id |-> c, read |-> count[c].status,
        named |-> named, counted |-> counted]]
  /\ UNCHANGED <<onHand, ledger, shelf, count, stale, sound>>

\* History only: the count is no longer as the request read it.
NoteStale(c, superseded) ==
  stale' = IF superseded THEN stale \cup {c} ELSE stale

\* Mutant: an entry does not start the count.
UnstartedAfterEntry(read, status) == status

\* The header is written only if it was PENDING when it was read.
StatusAfterEntry(read, status) == IF read = "PENDING" THEN "COUNTING" ELSE status

\* Mutant: the counted quantity itself is posted.
CountedQuantity(counted, snapshot) == counted

VarianceOf(counted, snapshot) == counted - snapshot

\* Any item can be entered again, an approved one too. Its variance is sound
\* if the shelf was counted right while the books still agreed with the snapshot.
CommitEntry(r) ==
  LET c       == request[r].id
      read    == request[r].read
      named   == request[r].named
      counted == request[r].counted
  IN  /\ request[r].kind = "enter"
      /\ count' = [count EXCEPT ![c] =
           Updated(@, StatusAfterEntry(read, @.status),
                   [p \in Products |->
                      IF p \in named THEN VarianceOf(counted[p], @.snapshot[p])
                      ELSE @.variance[p]],
                   [p \in Products |-> IF p \in named THEN "COUNTED" ELSE @.item[p]])]
      /\ request' = [request EXCEPT ![r] = Idle]
      /\ NoteStale(c, count[c].status # read)
      /\ sound' = {i \in Counts \X Products :
                     IF i[1] = c /\ i[2] \in named
                     THEN /\ counted[i[2]] = shelf[i[2]]
                          /\ onHand[i[2]] = count[c].snapshot[i[2]]
                     ELSE i \in sound}
      /\ UNCHANGED <<onHand, ledger, shelf>>

-----------------------------------------------------------------------------
(* Reviewing them. *)

InReview(row) == row.status \in {"COUNTING", "REVIEW"}

BeginReview(r, c, named, action) ==
  /\ request[r] = Idle
  /\ InReview(count[c])
  /\ named # {} /\ named \subseteq count[c].lines
  /\ request' = [request EXCEPT ![r] =
       [kind |-> "review", id |-> c, read |-> count[c].status,
        named |-> named, action |-> action]]
  /\ UNCHANGED <<onHand, ledger, shelf, count, stale, sound>>

\* Only items that have been counted are reviewed; the others are skipped over.
Reviewable(status) == status \in {"COUNTED", "RECOUNT_REQUESTED"}

CommitReview(r) ==
  LET c    == request[r].id
      read == request[r].read
  IN  /\ request[r].kind = "review"
      /\ count' = [count EXCEPT ![c] =
           Updated(@, IF read # "REVIEW" THEN "REVIEW" ELSE @.status,
                   @.variance,
                   [p \in Products |->
                      IF p \in request[r].named /\ Reviewable(@.item[p])
                      THEN request[r].action ELSE @.item[p]])]
      /\ request' = [request EXCEPT ![r] = Idle]
      /\ NoteStale(c, count[c].status # read)
      /\ UNCHANGED <<onHand, ledger, shelf, sound>>

-----------------------------------------------------------------------------
(* Posting the approved variances. *)

Postable(row) == row.status = "REVIEW"

BeginPost(r, c) ==
  /\ request[r] = Idle
  /\ Postable(count[c])
  /\ request' = [request EXCEPT ![r] = [kind |-> "post", id |-> c]]
  /\ UNCHANGED <<onHand, ledger, shelf, count, stale, sound>>

\* The items are read after the status, in a query of their own.
ReadItems(r) ==
  /\ request[r].kind = "post"
  /\ request' = [request EXCEPT ![r] =
       [kind |-> "adjust", id |-> request[r].id, read |-> count[request[r].id]]]
  /\ UNCHANGED <<onHand, ledger, shelf, count, stale, sound>>

Approved(row) == {p \in row.lines : row.item[p] = "APPROVED"}

\* Mutant: every variance is posted, approved or not.
AllVariances(row) ==
  [p \in Products |-> IF p \in row.lines THEN row.variance[p] ELSE 0]

Adjustments(row) ==
  [p \in Products |-> IF p \in Approved(row) THEN row.variance[p] ELSE 0]

\* Without a variance to post the count is completed all the same.
CommitPost(r) ==
  LET c      == request[r].id
      read   == request[r].read
      change == Adjustments(read)
  IN  /\ request[r].kind = "adjust"
      /\ \A p \in Products : change[p] > 0 => onHand[p] + change[p] <= MaxOnHand
      /\ Stock!Post(change)
      /\ count' = [count EXCEPT ![c] = Updated(@, "COMPLETED", @.variance, @.item)]
      /\ request' = [request EXCEPT ![r] = Idle]
      /\ NoteStale(c, count[c] # read \/ ~ Postable(read))
      /\ sound' = {i \in sound : i[1] = c \/ change[i[2]] = 0}
      /\ UNCHANGED shelf

\* The request fails before it has committed anything: it leaves no trace.
Abandon(r) ==
  /\ request[r] # Idle
  /\ request' = [request EXCEPT ![r] = Idle]
  /\ UNCHANGED <<onHand, ledger, shelf, count, stale, sound>>

-----------------------------------------------------------------------------

Next ==
  \/ \E p \in Products, change \in {-1, 1} : Move(p, change) \/ Correct(p, change)
  \/ \E p \in Products : Lose(p)
  \/ \E r \in Requests, c \in Counts, lines \in SUBSET Products : BeginInitiate(r, c, lines)
  \/ \E r \in Requests, c \in Counts, named \in SUBSET Products,
        counted \in [Products -> Countable] : BeginEntry(r, c, named, counted)
  \/ \E r \in Requests, c \in Counts, named \in SUBSET Products, action \in ReviewAction :
       BeginReview(r, c, named, action)
  \/ \E r \in Requests, c \in Counts : BeginPost(r, c)
  \/ \E r \in Requests :
       \/ CommitInitiate(r) \/ CommitEntry(r) \/ CommitReview(r)
       \/ ReadItems(r) \/ CommitPost(r) \/ Abandon(r)

Spec == Init /\ [][Next]_vars

-----------------------------------------------------------------------------
(* Properties. *)

\* Posting a count keeps the stock promise: no position goes below zero and the
\* movements posted are the changes made.
StockPromise == Stock!Spec

\* While stock keeps moving, and with another count of the same products open,
\* posting a count makes the books agree with the shelf for every item whose
\* variance was sound when it was approved. It is the reason the service posts
\* variances and not counted quantities.
PostingReconciles ==
  [][\A c \in Counts \ stale' :
       count[c].status = "REVIEW" /\ count'[c].status = "COMPLETED" =>
         \A p \in Approved(count[c]) : <<c, p>> \in sound => onHand'[p] = shelf[p]]_vars

\* As long as no request wrote a count on a superseded read, only what a manager
\* approved moves stock: the books change by the approved variances when the
\* count is completed, and skipped or unreviewed variances change nothing.
OnlyApprovedIsPosted ==
  [][\A c \in Counts \ stale' :
       count[c].status # "COMPLETED" /\ count'[c].status = "COMPLETED" =>
         \A p \in Products :
           onHand'[p] - onHand[p] =
             IF p \in Approved(count[c]) THEN count[c].variance[p] ELSE 0]_vars

\* Under the same condition the status of a count tells how far its items are:
\* none entered while PENDING, none reviewed while COUNTING; entering a recount
\* during the review does not send the count back.
StatusMatchesItems ==
  \A c \in Counts \ stale : \A p \in Products :
    /\ count[c].status = "PENDING" => count[c].item[p] = "PENDING"
    /\ count[c].status = "COUNTING" => count[c].item[p] \in {"PENDING", "COUNTED"}
=============================================================================
