-------------------------- MODULE CashSessionsProofs --------------------------
(***************************************************************************)
(* Theorems about the sessions of tills (CashSessions), for every set of   *)
(* seats, sessions and concurrent requests and any amounts, and about the  *)
(* sessions of users (Accounts), for every set of users and of concurrent  *)
(* requests and any number of tokens, links and resets.                    *)
(***************************************************************************)
EXTENDS CashSessions, Accounts, WellFoundedInduction, TLAPS

LEMMA NothingType == Nothing \in Entries
BY DEF Nothing, Entries

LEMMA OnlyType ==
  ASSUME NEW kind, NEW amount \in Nat
  PROVE  Only(kind, amount) \in Entries
BY DEF Only, Entries

LEMMA PlusType ==
  ASSUME NEW entries \in Entries, NEW more \in Entries
  PROVE  Plus(entries, more) \in Entries
BY DEF Plus, Entries

LEMMA KindsCounted ==
  /\ "STARTING_FLOAT" \in Kinds /\ "PAY_IN" \in Kinds /\ "CASH_SALE" \in Kinds
  /\ "PAY_OUT" \in Kinds /\ "CASH_REFUND" \in Kinds
BY DEF Kinds, CashIn, CashOut

LEMMA CalculatedCashType ==
  ASSUME NEW row \in SessionRow, NEW entries \in Entries
  PROVE  CalculatedCash(row, entries) \in Int
<1>1. row.starting \in Nat
  BY DEF SessionRow
<1>2. /\ entries["PAY_IN"] \in Nat /\ entries["CASH_SALE"] \in Nat
      /\ entries["PAY_OUT"] \in Nat /\ entries["CASH_REFUND"] \in Nat
  BY KindsCounted DEF Entries
<1>. QED
  BY <1>1, <1>2 DEF CalculatedCash

LEMMA UpdatedType ==
  ASSUME NEW row \in SessionRow, NEW status \in Status, NEW calculated \in Int
  PROVE  /\ Updated(row, status, calculated) \in SessionRow
         /\ Updated(row, status, calculated).status = status
         /\ Updated(row, status, calculated).calculated = calculated
         /\ Updated(row, status, calculated).starting = row.starting
         /\ Updated(row, status, calculated).seat = row.seat
BY DEF Updated, SessionRow

-----------------------------------------------------------------------------
(* The inductive invariant. A request names a session that exists, a       *)
(* reconciliation one that has been closed, a start saw no open session of *)
(* its seat, and what a close stored is what the entries of the session    *)
(* still give, unless one came after the count.                            *)

Settled(s) == session[s].status \in {"CLOSED", "RECONCILED"}

RequestsChecked ==
  \A r \in Requests :
    /\ request[r].kind = "start" => request[r].seen = {}
    /\ request[r].kind \in {"entry", "ending", "counted", "reconcile"} =>
         session[request[r].id] \in SessionRow
    /\ request[r].kind \in {"ending", "counted"} => request[r].seen = "OPEN"
    /\ request[r].kind = "reconcile" => request[r].seen = "CLOSED" /\ Settled(request[r].id)

CountsAreCurrent ==
  \A s \in Sessions \ late :
    session[s].status \in {"CLOSED", "RECONCILED"} =>
      session[s].calculated = CalculatedCash(session[s], summary[s])

IInv ==
  /\ TypeOK
  /\ RequestsChecked
  /\ CountsAreCurrent
  /\ OneOpenSession

\* What is known of a request in flight, by its kind.
LEMMA RequestFacts ==
  ASSUME TypeOK, NEW r \in Requests, request[r] # Idle
  PROVE  /\ request[r].kind \in {"start", "entry", "ending", "counted", "reconcile"}
         /\ request[r].kind = "start" =>
              /\ request[r].seat \in Seats
              /\ request[r].starting \in Nat
         /\ request[r].kind # "start" => request[r].id \in Sessions
         /\ request[r].kind \in {"entry", "counted"} => request[r].entries \in Entries
<1>1. request[r] \in RequestState \ {Idle}
  BY DEF TypeOK
<1>. QED
  BY <1>1 DEF RequestState

\* A request that only begins, ends or gives up leaves the sessions alone.
LEMMA RequestStep ==
  ASSUME IInv, NEW r \in Requests, NEW state \in RequestState,
         request' = [request EXCEPT ![r] = state],
         UNCHANGED <<session, summary, stale, late>>,
         state.kind = "start" => state.seen = {},
         state.kind \in {"entry", "ending", "counted", "reconcile"} =>
           session[state.id] \in SessionRow,
         state.kind \in {"ending", "counted"} => state.seen = "OPEN",
         state.kind = "reconcile" => state.seen = "CLOSED" /\ Settled(state.id)
  PROVE  IInv'
<1>1. \A q \in Requests : request'[q] = IF q = r THEN state ELSE request[q]
  BY DEF IInv, TypeOK
<1>2. TypeOK'
  BY DEF IInv, TypeOK
<1>3. RequestsChecked'
  BY <1>1 DEF IInv, RequestsChecked, Settled
<1>. QED
  BY <1>2, <1>3 DEF IInv, CountsAreCurrent, OneOpenSession, Open

\* A session that is open, closed or reconciled has a row.
LEMMA StatusMeansRow ==
  ASSUME TypeOK, NEW s \in Sessions, session[s].status \in Status \/ session[s] # NoSession
  PROVE  session[s] \in SessionRow
BY DEF TypeOK, NoSession, Status

-----------------------------------------------------------------------------
(* Each action keeps the invariant. *)

THEOREM InitIInv == Init => IInv
<1>. SUFFICES ASSUME Init PROVE IInv
  OBVIOUS
<1>1. TypeOK
  BY NothingType DEF Init, TypeOK, RequestState
<1>2. RequestsChecked
  BY DEF Init, RequestsChecked, Idle
<1>3. CountsAreCurrent /\ OneOpenSession
  BY DEF Init, CountsAreCurrent, OneOpenSession, Open, NoSession
<1>. QED
  BY <1>1, <1>2, <1>3 DEF IInv

LEMMA BeginStartKeepsIInv ==
  ASSUME IInv, NEW r \in Requests, NEW seat \in Seats, NEW starting \in Amounts,
         BeginStart(r, seat, starting)
  PROVE  IInv'
<1>. DEFINE state == [kind |-> "start", seat |-> seat, starting |-> starting, seen |-> {}]
<1>1. state \in RequestState
  BY CashAssumption DEF RequestState
<1>2. request' = [request EXCEPT ![r] = state]
  BY DEF BeginStart, Startable
<1>3. state.kind = "start" /\ state.seen = {}
  OBVIOUS
<1>. HIDE DEF state
<1>. QED
  BY <1>1, <1>2, <1>3, RequestStep DEF BeginStart

LEMMA BeginCheckoutKeepsIInv ==
  ASSUME IInv, NEW r \in Requests, NEW s \in Sessions,
         NEW cash \in Amounts, NEW other \in Amounts, BeginCheckout(r, s, cash, other)
  PROVE  IInv'
<1>. DEFINE entries == Plus(Only("CASH_SALE", cash), Only("OTHER_SALE", other))
            state   == [kind |-> "entry", id |-> s, entries |-> entries]
<1>1. entries \in Entries
  <2>1. cash \in Nat /\ other \in Nat
    BY CashAssumption
  <2>. QED
    BY <2>1, OnlyType, PlusType
<1>2. request' = [request EXCEPT ![r] = state]
  BY DEF BeginCheckout
<1>. HIDE DEF entries
<1>3. state \in RequestState
  BY <1>1 DEF RequestState
<1>4. session[s] \in SessionRow
  BY StatusMeansRow DEF IInv, BeginCheckout, TakesEntries, Open, Status
<1>5. state.kind = "entry" /\ state.id = s
  OBVIOUS
<1>. HIDE DEF state
<1>. QED
  BY <1>2, <1>3, <1>4, <1>5, RequestStep DEF BeginCheckout

LEMMA BeginCashKeepsIInv ==
  ASSUME IInv, NEW r \in Requests, NEW s \in Sessions,
         NEW kind \in Kinds, NEW amount \in Amounts, BeginCash(r, s, kind, amount)
  PROVE  IInv'
<1>. DEFINE entries == Only(kind, amount)
            state   == [kind |-> "entry", id |-> s, entries |-> entries]
<1>1. entries \in Entries
  BY CashAssumption, OnlyType
<1>2. request' = [request EXCEPT ![r] = state]
  BY DEF BeginCash
<1>. HIDE DEF entries
<1>3. state \in RequestState
  BY <1>1 DEF RequestState
<1>4. session[s] \in SessionRow
  BY StatusMeansRow DEF IInv, BeginCash, Open, Status
<1>5. state.kind = "entry" /\ state.id = s
  OBVIOUS
<1>. HIDE DEF state
<1>. QED
  BY <1>2, <1>3, <1>4, <1>5, RequestStep DEF BeginCash

\* The requests that only look at a session: end, and reconciliation.
LEMMA BeginOnRowKeepsIInv ==
  ASSUME IInv, NEW r \in Requests, NEW s \in Sessions, NEW kind \in {"ending", "reconcile"},
         session[s] \in SessionRow, session[s].status = IF kind = "reconcile" THEN "CLOSED" ELSE "OPEN",
         request' = [request EXCEPT ![r] =
           [kind |-> kind, id |-> s, seen |-> session[s].status]],
         UNCHANGED <<session, summary, stale, late>>
  PROVE  IInv'
<1>. DEFINE state == [kind |-> kind, id |-> s, seen |-> session[s].status]
<1>1. state \in RequestState
  BY DEF RequestState, Status
<1>2. /\ state.kind = kind /\ state.kind \in {"ending", "reconcile"}
      /\ state.id = s /\ state.seen = session[s].status
  OBVIOUS
<1>3. request' = [request EXCEPT ![r] = state]
  OBVIOUS
<1>. HIDE DEF state
<1>. QED
  BY <1>1, <1>2, <1>3, RequestStep DEF Settled

LEMMA CountEntriesKeepsIInv ==
  ASSUME IInv, NEW r \in Requests, CountEntries(r)
  PROVE  IInv'
<1>. DEFINE s     == request[r].id
            state == [kind |-> "counted", id |-> s, seen |-> request[r].seen,
                      entries |-> summary[s]]
<1>1. s \in Sessions /\ session[s] \in SessionRow /\ request[r].seen = "OPEN"
  BY RequestFacts DEF IInv, RequestsChecked, CountEntries, Idle
<1>2. state \in RequestState
  BY <1>1 DEF RequestState, Status, IInv, TypeOK
<1>3. request' = [request EXCEPT ![r] = state]
  BY DEF CountEntries
<1>4. state.kind = "counted" /\ state.id = s /\ state.seen = request[r].seen
  OBVIOUS
<1>. HIDE DEF state
<1>. QED
  BY <1>1, <1>2, <1>3, <1>4, RequestStep DEF CountEntries

LEMMA AbandonKeepsIInv ==
  ASSUME IInv, NEW r \in Requests, Abandon(r)
  PROVE  IInv'
<1>1. Idle \in RequestState /\ Idle.kind = "idle"
  BY DEF Idle, RequestState
<1>. QED
  BY <1>1, RequestStep DEF Abandon

\* A commit that writes the row of one session, and the requests left over.
LEMMA RowWrite ==
  ASSUME IInv, NEW r \in Requests, NEW s \in Sessions, NEW row \in SessionRow,
         Settled(s) => row.status \in {"CLOSED", "RECONCILED"},
         session' = [session EXCEPT ![s] = row],
         request' = [request EXCEPT ![r] = Idle]
  PROVE  /\ session' \in [Sessions -> SessionRow \cup {NoSession}]
         /\ request' \in [Requests -> RequestState]
         /\ RequestsChecked'
         /\ session'[s] = row
         /\ \A t \in Sessions \ {s} : session'[t] = session[t]
<1>1. session'[s] = row /\ \A t \in Sessions \ {s} : session'[t] = session[t]
  BY DEF IInv, TypeOK
<1>2. request' \in [Requests -> RequestState]
  BY DEF IInv, TypeOK, RequestState
<1>3. \A q \in Requests : request'[q] = IF q = r THEN Idle ELSE request[q]
  BY DEF IInv, TypeOK
<1>4. Idle.kind = "idle"
  BY DEF Idle
<1>5. \A t \in Sessions : session[t] \in SessionRow => session'[t] \in SessionRow
  BY <1>1
<1>6. \A q \in Requests :
        request[q].kind \in {"entry", "ending", "counted", "reconcile"} => request[q].id \in Sessions
  BY RequestFacts DEF IInv, Idle
<1>7. \A t \in Sessions : Settled(t) => Settled(t)'
  BY <1>1 DEF Settled
<1>8. RequestsChecked'
  BY <1>3, <1>4, <1>5, <1>6, <1>7 DEF IInv, RequestsChecked
<1>. QED
  BY <1>1, <1>2, <1>8 DEF IInv, TypeOK

LEMMA CommitStartKeepsIInv ==
  ASSUME IInv, NEW r \in Requests, NEW s \in Sessions, CommitStart(r, s)
  PROVE  IInv'
<1>. DEFINE new == request[r]
            row == [status |-> "OPEN", seat |-> new.seat, starting |-> new.starting,
                    calculated |-> 0]
            entries == Only("STARTING_FLOAT", new.starting)
<1>1. new.seat \in Seats /\ new.starting \in Nat /\ new.seen = {}
  BY RequestFacts DEF IInv, RequestsChecked, CommitStart, Idle
<1>2. row \in SessionRow /\ row.status = "OPEN" /\ row.seat = new.seat
  BY <1>1 DEF SessionRow, Status
<1>3. entries \in Entries
  BY <1>1, OnlyType
<1>4. /\ session' = [session EXCEPT ![s] = row]
      /\ summary' = [summary EXCEPT ![s] = entries]
      /\ request' = [request EXCEPT ![r] = Idle]
      /\ session[s] = NoSession
      /\ NoteStale(s, OpenAt(new.seat) # {})
      /\ late' = late
  BY <1>1 DEF CommitStart
<1>. HIDE DEF row, entries
<1>5. /\ session' \in [Sessions -> SessionRow \cup {NoSession}]
      /\ request' \in [Requests -> RequestState]
      /\ RequestsChecked'
      /\ session'[s] = row
      /\ \A t \in Sessions \ {s} : session'[t] = session[t]
  <2>1. ~ Settled(s)
    BY <1>4 DEF Settled, NoSession
  <2>. QED
    BY <1>2, <1>4, <2>1, RowWrite
<1>6. TypeOK'
  BY <1>3, <1>4, <1>5 DEF IInv, TypeOK, NoteStale
<1>7. CountsAreCurrent'
  BY <1>2, <1>4, <1>5 DEF IInv, TypeOK, CountsAreCurrent
<1>8. OneOpenSession'
  <2>1. ASSUME s \notin stale', NEW t \in Sessions \ {s}, Open(t)', session'[t].seat = row.seat
        PROVE  FALSE
    <3>1. OpenAt(new.seat) = {}
      BY <1>4, <2>1 DEF NoteStale
    <3>2. Open(t) /\ session[t].seat = new.seat
      BY <1>2, <1>5, <2>1 DEF Open
    <3>. QED
      BY <3>1, <3>2 DEF OpenAt
  <2>2. \A t \in Sessions : t \notin stale' => t \notin stale
    BY <1>4 DEF NoteStale
  <2>. QED
    BY <1>5, <2>1, <2>2 DEF IInv, OneOpenSession, Open
<1>. QED
  BY <1>5, <1>6, <1>7, <1>8 DEF IInv

\* Entries change the summary of a session that has a row, and nothing else.
LEMMA SummaryWrite ==
  ASSUME IInv, NEW s \in Sessions, NEW more \in Entries,
         summary' = [summary EXCEPT ![s] = Plus(summary[s], more)],
         NoteLate(s, ~ Open(s)), UNCHANGED <<session, stale>>,
         session[s] \in SessionRow,
         request' \in [Requests -> RequestState],
         \A q \in Requests : request'[q] \in {request[q], Idle}
  PROVE  IInv'
<1>1. Plus(summary[s], more) \in Entries
  BY PlusType DEF IInv, TypeOK
<1>2. TypeOK'
  BY <1>1 DEF IInv, TypeOK, NoteLate
<1>3. RequestsChecked'
  BY DEF IInv, RequestsChecked, Idle, Settled
<1>4. CountsAreCurrent'
  <2>1. ASSUME NEW t \in Sessions, t \notin late', session[t].status \in {"CLOSED", "RECONCILED"}
        PROVE  t # s /\ t \notin late
    BY <2>1 DEF NoteLate, Open
  <2>2. \A t \in Sessions \ {s} : summary'[t] = summary[t]
    BY DEF IInv, TypeOK
  <2>. QED
    BY <2>1, <2>2 DEF IInv, CountsAreCurrent
<1>5. OneOpenSession'
  BY DEF IInv, OneOpenSession, Open
<1>. QED
  BY <1>2, <1>3, <1>4, <1>5 DEF IInv

LEMMA CommitEntryKeepsIInv ==
  ASSUME IInv, NEW r \in Requests, CommitEntry(r)
  PROVE  IInv'
<1>. DEFINE s    == request[r].id
            more == request[r].entries
<1>1. s \in Sessions /\ more \in Entries /\ session[s] \in SessionRow
  BY RequestFacts DEF IInv, RequestsChecked, CommitEntry, Idle
<1>2. summary' = [summary EXCEPT ![s] = Plus(summary[s], more)]
  BY <1>1 DEF CommitEntry, IInv, TypeOK
<1>3. /\ request' \in [Requests -> RequestState]
      /\ \A q \in Requests : request'[q] \in {request[q], Idle}
  BY DEF CommitEntry, IInv, TypeOK, RequestState
<1>. QED
  BY <1>1, <1>2, <1>3, SummaryWrite DEF CommitEntry

LEMMA RefundKeepsIInv ==
  ASSUME IInv, NEW s \in Sessions, NEW amount \in Amounts, Refund(s, amount)
  PROVE  IInv'
<1>. DEFINE more == Only("CASH_REFUND", amount)
<1>1. more \in Entries
  BY CashAssumption, OnlyType
<1>2. session[s] \in SessionRow
  BY StatusMeansRow DEF IInv, Refund
<1>3. summary' = [summary EXCEPT ![s] = Plus(summary[s], more)]
  BY DEF Refund, IInv, TypeOK
<1>4. /\ request' \in [Requests -> RequestState]
      /\ \A q \in Requests : request'[q] \in {request[q], Idle}
  BY DEF Refund, IInv, TypeOK
<1>. HIDE DEF more
<1>. QED
  BY <1>1, <1>2, <1>3, <1>4, SummaryWrite DEF Refund

LEMMA CommitEndKeepsIInv ==
  ASSUME IInv, NEW r \in Requests, CommitEnd(r)
  PROVE  IInv'
<1>. DEFINE s       == request[r].id
            entries == request[r].entries
            cash    == CalculatedCash(session[s], entries)
            row     == Updated(session[s], "CLOSED", cash)
<1>1. s \in Sessions /\ entries \in Entries /\ session[s] \in SessionRow
  BY RequestFacts DEF IInv, RequestsChecked, CommitEnd, Idle
<1>2. cash \in Int
  BY <1>1, CalculatedCashType
<1>3. row \in SessionRow /\ row.status = "CLOSED" /\ row.calculated = cash
      /\ row.starting = session[s].starting
  <2>1. "CLOSED" \in Status
    BY DEF Status
  <2>. HIDE DEF cash
  <2>. QED
    BY <1>1, <1>2, <2>1, UpdatedType
<1>4. /\ session' = [session EXCEPT ![s] = row]
      /\ request' = [request EXCEPT ![r] = Idle]
      /\ NoteStale(s, session[s].status # request[r].seen)
      /\ NoteLate(s, summary[s] # entries)
      /\ summary' = summary
  BY <1>1 DEF CommitEnd, IInv, TypeOK
<1>5. row.starting = session[s].starting => CalculatedCash(row, entries) = cash
  BY DEF CalculatedCash
<1>. HIDE DEF row, cash
<1>6. /\ session' \in [Sessions -> SessionRow \cup {NoSession}]
      /\ request' \in [Requests -> RequestState]
      /\ RequestsChecked'
      /\ session'[s] = row
      /\ \A t \in Sessions \ {s} : session'[t] = session[t]
  BY <1>1, <1>3, <1>4, RowWrite
<1>7. TypeOK'
  BY <1>1, <1>4, <1>6 DEF IInv, TypeOK, NoteStale, NoteLate
<1>8. CountsAreCurrent'
  <2>1. s \notin late' => summary'[s] = entries
    BY <1>1, <1>4 DEF NoteLate
  <2>2. \A t \in Sessions : t \notin late' => t \notin late
    BY <1>4 DEF NoteLate
  <2>. QED
    BY <1>3, <1>4, <1>5, <1>6, <2>1, <2>2 DEF IInv, CountsAreCurrent
<1>9. OneOpenSession'
  <2>1. \A t \in Sessions : t \notin stale' => t \notin stale
    BY <1>4 DEF NoteStale
  <2>. QED
    BY <1>3, <1>6, <2>1 DEF IInv, OneOpenSession, Open
<1>. QED
  BY <1>6, <1>7, <1>8, <1>9 DEF IInv

LEMMA CommitReconcileKeepsIInv ==
  ASSUME IInv, NEW r \in Requests, CommitReconcile(r)
  PROVE  IInv'
<1>. DEFINE s   == request[r].id
            row == Updated(session[s], "RECONCILED", session[s].calculated)
<1>1. s \in Sessions /\ session[s] \in SessionRow /\ session[s].calculated \in Int
  BY RequestFacts DEF IInv, RequestsChecked, CommitReconcile, Idle, SessionRow
<1>2. row \in SessionRow /\ row.status = "RECONCILED"
      /\ row.calculated = session[s].calculated /\ row.starting = session[s].starting
  <2>1. "RECONCILED" \in Status
    BY DEF Status
  <2>. QED
    BY <1>1, <2>1, UpdatedType
<1>3. /\ session' = [session EXCEPT ![s] = row]
      /\ request' = [request EXCEPT ![r] = Idle]
      /\ NoteStale(s, session[s].status # request[r].seen)
      /\ UNCHANGED <<summary, late>>
  BY <1>1 DEF CommitReconcile, IInv, TypeOK
<1>. HIDE DEF row
<1>4. /\ session' \in [Sessions -> SessionRow \cup {NoSession}]
      /\ request' \in [Requests -> RequestState]
      /\ RequestsChecked'
      /\ session'[s] = row
      /\ \A t \in Sessions \ {s} : session'[t] = session[t]
  BY <1>1, <1>2, <1>3, RowWrite
<1>5. TypeOK'
  BY <1>1, <1>3, <1>4 DEF IInv, TypeOK, NoteStale
<1>6. CountsAreCurrent'
  <2>1. CalculatedCash(row, summary[s]) = CalculatedCash(session[s], summary[s])
    BY <1>2 DEF CalculatedCash
  <2>2. Settled(s)
    BY RequestFacts DEF IInv, RequestsChecked, CommitReconcile, Idle
  <2>. QED
    BY <1>2, <1>3, <1>4, <2>1, <2>2 DEF IInv, CountsAreCurrent, Settled
<1>7. OneOpenSession'
  <2>1. \A t \in Sessions : t \notin stale' => t \notin stale
    BY <1>3 DEF NoteStale
  <2>. QED
    BY <1>2, <1>4, <2>1 DEF IInv, OneOpenSession, Open
<1>. QED
  BY <1>4, <1>5, <1>6, <1>7 DEF IInv

-----------------------------------------------------------------------------
(* Every step keeps the invariant. *)

THEOREM NextKeepsIInv == IInv /\ [Next]_vars => IInv'
<1>. SUFFICES ASSUME IInv, [Next]_vars PROVE IInv'
  OBVIOUS
<1>1. ASSUME NEW r \in Requests, NEW seat \in Seats, NEW starting \in Amounts,
             BeginStart(r, seat, starting)
      PROVE  IInv'
  BY <1>1, BeginStartKeepsIInv
<1>2. ASSUME NEW r \in Requests, NEW s \in Sessions, CommitStart(r, s)
      PROVE  IInv'
  BY <1>2, CommitStartKeepsIInv
<1>3. ASSUME NEW r \in Requests, NEW s \in Sessions, BeginEnd(r, s)
      PROVE  IInv'
  <2>1. session[s] \in SessionRow
    BY <1>3, StatusMeansRow DEF IInv, BeginEnd, Endable, Open, Status
  <2>. QED
    BY <1>3, <2>1, BeginOnRowKeepsIInv DEF BeginEnd, Endable, Open
<1>4. ASSUME NEW r \in Requests, NEW s \in Sessions, BeginReconcile(r, s)
      PROVE  IInv'
  <2>1. session[s] \in SessionRow
    BY <1>4, StatusMeansRow DEF IInv, BeginReconcile, Status
  <2>. QED
    BY <1>4, <2>1, BeginOnRowKeepsIInv DEF BeginReconcile
<1>5. ASSUME NEW r \in Requests, NEW s \in Sessions, NEW cash \in Amounts, NEW other \in Amounts,
             BeginCheckout(r, s, cash, other)
      PROVE  IInv'
  BY <1>5, BeginCheckoutKeepsIInv
<1>6. ASSUME NEW r \in Requests, NEW s \in Sessions, NEW kind \in Kinds, NEW amount \in Amounts,
             BeginCash(r, s, kind, amount)
      PROVE  IInv'
  BY <1>6, BeginCashKeepsIInv
<1>7. ASSUME NEW s \in Sessions, NEW amount \in Amounts, Refund(s, amount)
      PROVE  IInv'
  BY <1>7, RefundKeepsIInv
<1>8. ASSUME NEW r \in Requests, CommitEntry(r) PROVE IInv'
  BY <1>8, CommitEntryKeepsIInv
<1>9. ASSUME NEW r \in Requests, CountEntries(r) PROVE IInv'
  BY <1>9, CountEntriesKeepsIInv
<1>10. ASSUME NEW r \in Requests, CommitEnd(r) PROVE IInv'
  BY <1>10, CommitEndKeepsIInv
<1>11. ASSUME NEW r \in Requests, CommitReconcile(r) PROVE IInv'
  BY <1>11, CommitReconcileKeepsIInv
<1>12. ASSUME NEW r \in Requests, Abandon(r) PROVE IInv'
  BY <1>12, AbandonKeepsIInv
<1>13. CASE UNCHANGED vars
  BY <1>13 DEF vars, IInv, TypeOK, RequestsChecked, CountsAreCurrent, OneOpenSession, Open, Settled
<1>. QED
  BY <1>1, <1>2, <1>3, <1>4, <1>5, <1>6, <1>7, <1>8, <1>9, <1>10, <1>11, <1>12, <1>13 DEF Next

LEMMA Inductive == Spec => []IInv
BY InitIInv, NextKeepsIInv, PTL DEF Spec

-----------------------------------------------------------------------------
(* What the specification promises. *)

\* The rows of sessions, their entries and the requests in flight are always
\* well formed, whatever the orders of requests.
THEOREM TypeCorrect == Spec => []TypeOK
<1>1. IInv => TypeOK
  BY DEF IInv
<1>. QED
  BY <1>1, Inductive, PTL

\* endPosSession stores the cash that the entries put in the drawer: the
\* starting cash once, and no payment by other means.
THEOREM CloseAlwaysExpectsTheDrawer == Spec => []CloseExpectsTheDrawer
<1>1. ASSUME IInv PROVE CloseExpectsTheDrawer
  <2>. SUFFICES ASSUME NEW s \in Sessions, s \notin late, Settled(s), FloatNotedOnce(s)
                PROVE  session[s].calculated = DrawerCash(s)
    BY DEF CloseExpectsTheDrawer, Settled
  <2>1. session[s].calculated = CalculatedCash(session[s], summary[s])
    BY <1>1 DEF IInv, CountsAreCurrent, Settled
  <2>. QED
    BY <2>1 DEF CalculatedCash, FloatNotedOnce, DrawerCash
<1>. QED
  BY <1>1, Inductive, PTL

\* startPosSession leaves a seat one open session, as long as none of them was
\* started while another start was under way.
THEOREM OneSessionOpen == Spec => []OneOpenSession
<1>1. IInv => OneOpenSession
  BY DEF IInv
<1>. QED
  BY <1>1, Inductive, PTL

\* posCheckout and recordCashTransaction begin nothing on a closed session.
THEOREM ClosedTakesNoWork == Spec => ClosedTakesNoNewWork
<1>1. ASSUME IInv, [Next]_vars, NEW s \in Sessions, Settled(s)
      PROVE  InFlight(s, "entry")' \subseteq InFlight(s, "entry")
  <2>. SUFFICES ASSUME NEW q \in Requests, request'[q].kind = "entry", request'[q].id = s
                PROVE  request[q].kind = "entry" /\ request[q].id = s
    BY DEF InFlight
  <2>. ~ Open(s)
    BY <1>1 DEF Settled, Open
  <2>1. ASSUME NEW r \in Requests, NEW state, request' = [request EXCEPT ![r] = state],
               state.kind = "entry" => state.id # s
        PROVE  request[q].kind = "entry" /\ request[q].id = s
    <3>1. request'[q] = IF q = r THEN state ELSE request[q]
      BY <1>1, <2>1 DEF IInv, TypeOK
    <3>. QED
      BY <2>1, <3>1
  <2>2. ASSUME NEW r \in Requests, NEW seat \in Seats, NEW starting \in Amounts,
               BeginStart(r, seat, starting)
        PROVE  request[q].kind = "entry" /\ request[q].id = s
    BY <2>1, <2>2 DEF BeginStart
  <2>3. ASSUME NEW r \in Requests, NEW t \in Sessions,
               CommitStart(r, t) \/ BeginEnd(r, t) \/ BeginReconcile(r, t)
        PROVE  request[q].kind = "entry" /\ request[q].id = s
    BY <2>1, <2>3 DEF CommitStart, BeginEnd, BeginReconcile, Idle
  <2>4. ASSUME NEW r \in Requests, NEW t \in Sessions, NEW cash \in Amounts,
               NEW other \in Amounts, BeginCheckout(r, t, cash, other)
        PROVE  request[q].kind = "entry" /\ request[q].id = s
    BY <2>1, <2>4 DEF BeginCheckout, TakesEntries
  <2>5. ASSUME NEW r \in Requests, NEW t \in Sessions, NEW kind \in Kinds, NEW amount \in Amounts,
               BeginCash(r, t, kind, amount)
        PROVE  request[q].kind = "entry" /\ request[q].id = s
    BY <2>1, <2>5 DEF BeginCash
  <2>6. ASSUME NEW t \in Sessions, NEW amount \in Amounts, Refund(t, amount)
        PROVE  request[q].kind = "entry" /\ request[q].id = s
    BY <2>6 DEF Refund
  <2>7. ASSUME NEW r \in Requests,
               CommitEntry(r) \/ CountEntries(r) \/ CommitEnd(r) \/ CommitReconcile(r) \/ Abandon(r)
        PROVE  request[q].kind = "entry" /\ request[q].id = s
    BY <2>1, <2>7 DEF CommitEntry, CountEntries, CommitEnd, CommitReconcile, Abandon, Idle
  <2>8. CASE UNCHANGED vars
    BY <2>8 DEF vars
  <2>. QED
    BY <1>1, <2>2, <2>3, <2>4, <2>5, <2>6, <2>7, <2>8 DEF Next
<1>2. ASSUME IInv, [Next]_vars
      PROVE  \A s \in Sessions :
               session[s].status \in {"CLOSED", "RECONCILED"} =>
                 InFlight(s, "entry")' \subseteq InFlight(s, "entry")
  BY <1>1, <1>2 DEF Settled
<1>. QED
  BY <1>2, Inductive, PTL DEF Spec, ClosedTakesNoNewWork

\* endPosSession and reconcilePosSession leave the figures of a closed session
\* alone when they have read its latest status.
THEOREM ClosedFiguresStay == Spec => ClosedFiguresStand
<1>1. ASSUME IInv, [Next]_vars, NEW s \in Sessions, s \notin stale', Settled(s)
      PROVE  /\ session'[s].calculated = session[s].calculated
             /\ session[s].status = "RECONCILED" => session'[s] = session[s]
  <2>1. ASSUME NEW r \in Requests, NEW t \in Sessions, CommitStart(r, t)
        PROVE  session'[s] = session[s]
    <3>1. t # s
      BY <1>1, <2>1 DEF CommitStart, Settled, NoSession
    <3>. QED
      BY <1>1, <2>1, <3>1 DEF CommitStart, IInv, TypeOK
  <2>2. ASSUME NEW r \in Requests, CommitEnd(r)
        PROVE  session'[s] = session[s]
    <3>1. request[r].id # s
      BY <1>1, <2>2, RequestFacts
         DEF CommitEnd, NoteStale, Settled, Open, IInv, RequestsChecked, Idle
    <3>. QED
      BY <1>1, <2>2, <3>1 DEF CommitEnd, IInv, TypeOK
  <2>3. ASSUME NEW r \in Requests, CommitReconcile(r)
        PROVE  /\ session'[s].calculated = session[s].calculated
               /\ session[s].status = "RECONCILED" => session'[s] = session[s]
    <3>1. CASE request[r].id # s
      BY <1>1, <2>3, <3>1 DEF CommitReconcile, IInv, TypeOK
    <3>2. CASE request[r].id = s
      <4>1. session[s].status = "CLOSED"
        BY <1>1, <2>3, <3>2 DEF CommitReconcile, NoteStale, IInv, RequestsChecked
      <4>2. session'[s] = Updated(session[s], "RECONCILED", session[s].calculated)
        BY <1>1, <2>3, <3>2 DEF CommitReconcile, IInv, TypeOK
      <4>. QED
        BY <4>1, <4>2 DEF Updated
    <3>. QED
      BY <3>1, <3>2
  <2>4. CASE UNCHANGED session
    BY <2>4
  <2>. QED
    BY <1>1, <2>1, <2>2, <2>3, <2>4
       DEF Next, vars, BeginStart, BeginEnd, BeginReconcile, BeginCheckout, BeginCash, Refund,
           CommitEntry, CountEntries, Abandon
<1>2. ASSUME IInv, [Next]_vars
      PROVE  \A s \in Sessions \ stale' :
               /\ session[s].status \in {"CLOSED", "RECONCILED"} =>
                    session'[s].calculated = session[s].calculated
               /\ session[s].status = "RECONCILED" => session'[s] = session[s]
  BY <1>1, <1>2 DEF Settled
<1>. QED
  BY <1>2, Inductive, PTL DEF Spec, ClosedFiguresStand

-----------------------------------------------------------------------------
(* The sessions of users: rows and calls. *)

\* A non-empty set of natural numbers has a least one.
LEMMA LeastExists ==
  ASSUME NEW S \in SUBSET Nat, S # {}
  PROVE  Min(S) \in S
<1> DEFINE R == OpToRel(<, Nat)
<1>1. IsWellFoundedOn(R, Nat)
  BY NatLessThanWellFounded
<1>2. \A x, y \in Nat : y < x => <<y, x>> \in R
  BY DEF OpToRel
<1> HIDE DEF R
<1>3. PICK x \in S : \A y \in S : ~(<<y, x>> \in R)
  BY <1>1, WFMin
<1>4. ASSUME NEW y \in S PROVE x <= y
  <2>1. x \in Nat /\ y \in Nat
    OBVIOUS
  <2>2. ~(y < x)
    BY <2>1, <1>2, <1>3
  <2> QED BY <2>1, <2>2
<1> QED BY <1>4 DEF Min

\* The id of a new row was free.
LEMMA FreeId ==
  ASSUME NEW n \in Nat, NEW rows, DOMAIN rows = 1..n, NEW free, HasFree(rows, free)
  PROVE  FirstFree(rows, free) \in 1..n /\ rows[FirstFree(rows, free)] = free
<1> DEFINE S == {i \in DOMAIN rows : rows[i] = free}
<1>1. S \in SUBSET Nat /\ S # {}
  BY DEF HasFree
<1>2. Min(S) \in S
  BY <1>1, LeastExists
<1> QED BY <1>2 DEF FirstFree

LEMMA Bounds == MaxTokens \in Nat /\ MaxLinks \in Nat /\ MaxResets \in Nat
  BY AccountsAssumption

\* Rows that exist are not the placeholder of those that do not.
LEMMA AccountRows ==
  /\ \A row \in TokenRow : row # NoToken /\ row.state # "none" /\ Revoked(row) \in TokenRow
  /\ \A row \in LinkRow : row # NoLink /\ row.state # "none"
  /\ NoToken.state = "none" /\ NoLink.state = "none"
  BY DEF TokenRow, LinkRow, NoToken, NoLink, Revoked

\* What a call has in hand, by its step.
LEMMA CallFacts ==
  ASSUME AccountsTypeOK, NEW q \in Calls
  PROVE  /\ call[q] \in CallState
         /\ call[q].step \in {"idle", "store", "revoke", "owner", "logout", "clear", "create",
                              "link", "burn", "reset", "end"}
         /\ call[q].step = "idle" <=> call[q] = NoCall
         /\ call[q].step # "idle" => call[q].user \in Users
         /\ call[q].step \notin {"idle", "end"} => call[q].stale \in BOOLEAN
         /\ call[q].step \in {"store", "revoke", "owner", "logout"} =>
              call[q].password \in Nat /\ call[q].parent \in Nat
         /\ call[q].step \in {"revoke", "owner", "logout"} => call[q].parent \in Tokens
         /\ call[q].step \in {"link", "burn", "reset"} => call[q].link \in Links
<1>1. call[q] \in CallState
  BY DEF AccountsTypeOK
<1>2. Tokens \subseteq Nat
  BY Bounds DEF Tokens
<1>3. \A c \in [step : {"store"}, user : Users, password : Nat, parent : Nat, stale : BOOLEAN] :
        c.step = "store" /\ c.user \in Users /\ c.password \in Nat /\ c.parent \in Nat /\ c.stale \in BOOLEAN
  OBVIOUS
<1>4. \A c \in [step : {"revoke", "owner", "logout"}, user : Users, password : Nat,
               parent : Tokens, stale : BOOLEAN] :
        /\ c.step \in {"revoke", "owner", "logout"}
        /\ c.user \in Users /\ c.password \in Nat /\ c.parent \in Tokens /\ c.stale \in BOOLEAN
  OBVIOUS
<1>5. \A c \in [step : {"clear", "create"}, user : Users, stale : BOOLEAN] :
        c.step \in {"clear", "create"} /\ c.user \in Users /\ c.stale \in BOOLEAN
  OBVIOUS
<1>6. \A c \in [step : {"link", "burn", "reset"}, user : Users, link : Links, stale : BOOLEAN] :
        c.step \in {"link", "burn", "reset"} /\ c.user \in Users /\ c.link \in Links /\ c.stale \in BOOLEAN
  OBVIOUS
<1>7. \A c \in [step : {"end"}, user : Users] : c.step = "end" /\ c.user \in Users
  OBVIOUS
<1>8. NoCall.step = "idle"
  BY DEF NoCall
<1> QED BY <1>1, <1>2, <1>3, <1>4, <1>5, <1>6, <1>7, <1>8 DEF CallState

\* A call that goes on where it is; those in R have been overtaken.
GoesOn(q, R) ==
  /\ call'[q].step = call[q].step
  /\ call[q].step # "idle" => call'[q].user = call[q].user
  /\ call[q].step \in {"store", "revoke", "owner", "logout"} =>
       call'[q].password = call[q].password /\ call'[q].parent = call[q].parent
  /\ call[q].step \in {"link", "burn", "reset"} => call'[q].link = call[q].link
  /\ call[q].step \notin {"idle", "end"} =>
       (call'[q].stale <=> call[q].stale \/ q \in R)

Others(r, R) == \A q \in Calls \ {r} : GoesOn(q, R)

LEMMA OvertakeLeaves ==
  ASSUME AccountsTypeOK, NEW r \in Calls, NEW next \in CallState, NEW R,
         \A q \in R : q \in Calls /\ call[q].step \notin {"idle", "end"},
         Overtake(r, next, R)
  PROVE  /\ call' \in [Calls -> CallState]
         /\ call'[r] = next
         /\ Others(r, R)
<1>1. call'[r] = next
  BY DEF Overtake
<1>2. ASSUME NEW q \in Calls \ {r}
      PROVE  call'[q] \in CallState /\ GoesOn(q, R)
  <2>1. CASE q \notin R
    BY <2>1, CallFacts DEF Overtake, GoesOn
  <2>2. CASE q \in R
    <3>1. call'[q] = [call[q] EXCEPT !.stale = TRUE]
      BY <2>2 DEF Overtake
    <3>2. call[q] \in CallState /\ call[q].step \notin {"idle", "end"}
      BY <2>2, CallFacts
    <3>3. [call[q] EXCEPT !.stale = TRUE] \in CallState
      BY <3>2 DEF CallState, NoCall
    <3> QED BY <2>2, <3>1, <3>2, <3>3 DEF GoesOn, CallState, NoCall
  <2> QED BY <2>1, <2>2
<1>3. call' = [q \in Calls |-> call'[q]]
  BY DEF Overtake
<1> QED BY <1>1, <1>2, <1>3 DEF Others

LEMMA DoLeaves ==
  ASSUME AccountsTypeOK, NEW r \in Calls, NEW next \in CallState, Do(r, next)
  PROVE  /\ call' \in [Calls -> CallState]
         /\ call'[r] = next
         /\ Others(r, {})
  BY CallFacts DEF Do, AccountsTypeOK, GoesOn, Others

\* The steps that a call takes.
LEMMA SessionStates ==
  /\ \A u \in Users, pw \in Nat, old \in BOOLEAN :
       /\ Session("store", u, pw, 0, old) \in CallState
       /\ \A step \in {"revoke", "logout"}, t \in Tokens : Session(step, u, pw, t, old) \in CallState
  /\ \A step, u, pw, p, old :
       LET c == Session(step, u, pw, p, old) IN
       c.step = step /\ c.user = u /\ c.password = pw /\ c.parent = p /\ c.stale = old
<1>1. 0 \in Nat
  OBVIOUS
<1> QED BY <1>1 DEF Session, CallState

LEMMA LinkStates ==
  /\ \A u \in Users, l \in Links : WithLink("link", u, l, FALSE) \in CallState
  /\ \A u \in Users : [step |-> "clear", user |-> u, stale |-> FALSE] \in CallState
  /\ \A u \in Users : [step |-> "end", user |-> u] \in CallState
  /\ NoCall \in CallState /\ NoCall.step = "idle"
  /\ \A step, u, l, old :
       LET c == WithLink(step, u, l, old) IN
       c.step = step /\ c.user = u /\ c.link = l /\ c.stale = old
  BY DEF WithLink, CallState, NoCall

LEMMA StepsOn ==
  ASSUME AccountsTypeOK, NEW r \in Calls, NEW step,
         \/ call[r].step = "revoke" /\ step = "owner"
         \/ call[r].step = "owner" /\ step = "store"
         \/ call[r].step = "clear" /\ step = "create"
         \/ call[r].step = "link" /\ step \in {"reset", "burn"}
  PROVE  LET c == [call[r] EXCEPT !.step = step] IN
         /\ c \in CallState /\ c.step = step /\ c.user = call[r].user
         /\ call[r].step \in {"revoke", "owner"} =>
              c.password = call[r].password /\ c.parent = call[r].parent
         /\ call[r].step = "link" => c.link = call[r].link
         /\ c.stale = call[r].stale
<1>1. CASE call[r].step = "revoke"
  <2>1. call[r] \in [step : {"revoke", "owner", "logout"}, user : Users, password : Nat,
                     parent : Tokens, stale : BOOLEAN]
    BY <1>1, CallFacts DEF CallState, NoCall
  <2> QED BY <1>1, <2>1 DEF CallState
<1>2. CASE call[r].step = "owner"
  <2>1. call[r] \in [step : {"revoke", "owner", "logout"}, user : Users, password : Nat,
                     parent : Tokens, stale : BOOLEAN]
    BY <1>2, CallFacts DEF CallState, NoCall
  <2>2. Tokens \subseteq Nat
    BY Bounds DEF Tokens
  <2>3. [call[r] EXCEPT !.step = "store"]
          \in [step : {"store"}, user : Users, password : Nat, parent : Nat, stale : BOOLEAN]
    BY <2>1, <2>2
  <2> QED BY <1>2, <2>1, <2>3 DEF CallState
<1>3. CASE call[r].step = "clear"
  <2>1. call[r] \in [step : {"clear", "create"}, user : Users, stale : BOOLEAN]
    BY <1>3, CallFacts DEF CallState, NoCall
  <2> QED BY <1>3, <2>1 DEF CallState
<1>4. CASE call[r].step = "link"
  <2>1. call[r] \in [step : {"link", "burn", "reset"}, user : Users, link : Links, stale : BOOLEAN]
    BY <1>4, CallFacts DEF CallState, NoCall
  <2> QED BY <1>4, <2>1 DEF CallState
<1> QED BY <1>1, <1>2, <1>3, <1>4

-----------------------------------------------------------------------------
(* What each action does, with the types that it keeps. *)

LEMMA LoginBegins ==
  ASSUME AccountsTypeOK, NEW r \in Calls, NEW u \in Users, BeginLogin(r, u)
  PROVE  /\ AccountsTypeOK' /\ Others(r, {})
         /\ call[r].step = "idle" /\ active[u] /\ call'[r].step = "store" /\ call'[r].user = u
         /\ call'[r].password = password[u] /\ call'[r].parent = 0 /\ call'[r].stale = FALSE
         /\ UNCHANGED <<active, password, token, link, deleted>>
<1>1. Session("store", u, password[u], 0, FALSE) \in CallState
  BY SessionStates DEF AccountsTypeOK
<1>2. /\ Do(r, Session("store", u, password[u], 0, FALSE))
      /\ UNCHANGED <<active, password, token, link, deleted>>
      /\ call[r].step = "idle" /\ active[u]
  BY DEF BeginLogin, MayLogin, CallAt
<1>3. /\ call' \in [Calls -> CallState] /\ call'[r] = Session("store", u, password[u], 0, FALSE)
      /\ Others(r, {})
  BY <1>1, <1>2, DoLeaves
<1>4. AccountsTypeOK'
  BY <1>2, <1>3 DEF AccountsTypeOK
<1>5. /\ call'[r].step = "store" /\ call'[r].user = u
      /\ call'[r].password = password[u] /\ call'[r].parent = 0 /\ call'[r].stale = FALSE
  BY <1>3 DEF Session
<1> QED BY <1>2, <1>3, <1>4, <1>5

LEMMA ExchangeBegins ==
  ASSUME AccountsTypeOK, NEW r \in Calls, NEW t \in Tokens, BeginRefresh(r, t) \/ BeginLogout(r, t)
  PROVE  /\ AccountsTypeOK' /\ Others(r, {})
         /\ call[r].step = "idle" /\ Live(t) /\ token[t] \in TokenRow
         /\ call'[r].step \in {"revoke", "logout"} /\ call'[r].user = token[t].user
         /\ call'[r].password = token[t].password /\ call'[r].parent = t
         /\ call'[r].stale = token[t].stale
         /\ UNCHANGED <<active, password, token, link, deleted>>
<1>1. PICK step \in {"revoke", "logout"} :
        /\ Do(r, Session(step, token[t].user, token[t].password, t, token[t].stale))
        /\ UNCHANGED <<active, password, token, link, deleted>>
        /\ call[r].step = "idle" /\ Live(t)
  BY DEF BeginRefresh, BeginLogout, Valid, Live, CallAt
<1>2. token[t] \in TokenRow
  BY <1>1, AccountRows DEF AccountsTypeOK, Live
<1>3. Session(step, token[t].user, token[t].password, t, token[t].stale) \in CallState
  BY <1>2, SessionStates DEF TokenRow
<1>4. /\ call' \in [Calls -> CallState] /\ Others(r, {})
      /\ call'[r] = Session(step, token[t].user, token[t].password, t, token[t].stale)
  BY <1>1, <1>3, DoLeaves
<1> QED BY <1>1, <1>2, <1>4, SessionStates DEF AccountsTypeOK

\* Revoking rows that exist keeps everything but their state.
RevokedIn(S) ==
  /\ token' \in [Tokens -> TokenRow \cup {NoToken}]
  /\ \A t \in Tokens : Stored(t)' <=> Stored(t)
  /\ \A t \in Tokens : Stored(t) => /\ token'[t].user = token[t].user
                                    /\ token'[t].password = token[t].password
                                    /\ token'[t].parent = token[t].parent
                                    /\ token'[t].stale = token[t].stale
  /\ \A t \in Tokens : Live(t)' => Live(t) /\ t \notin S

LEMMA RevokingLeaves ==
  ASSUME AccountsTypeOK, NEW S \in SUBSET Tokens, \A t \in S : Stored(t),
         \/ \E p \in Tokens : S = {p} /\ token' = [token EXCEPT ![p] = Revoked(@)]
         \/ RevokeAll(S)
  PROVE  RevokedIn(S)
<1>1. /\ \A t \in Tokens : token'[t] = IF t \in S THEN Revoked(token[t]) ELSE token[t]
      /\ token' = [t \in Tokens |-> token'[t]]
  BY DEF RevokeAll, AccountsTypeOK
<1>2. \A t \in S : token[t] \in TokenRow
  BY DEF AccountsTypeOK, Stored
<1>3. \A row \in TokenRow :
        /\ Revoked(row) \in TokenRow /\ Revoked(row) # NoToken
        /\ Revoked(row).state # "live" /\ Revoked(row).user = row.user
        /\ Revoked(row).password = row.password /\ Revoked(row).parent = row.parent
        /\ Revoked(row).stale = row.stale
  BY AccountRows DEF Revoked
<1> QED BY <1>1, <1>2, <1>3 DEF RevokedIn, AccountsTypeOK, Stored, Live

\* What a call has in hand, and what a token descends from, is a row.
RowsHeld ==
  /\ \A q \in Calls :
       /\ call[q].step \in {"revoke", "owner", "logout"} => Stored(call[q].parent)
       /\ call[q].step = "store" /\ call[q].parent # 0 =>
            call[q].parent \in Tokens /\ Stored(call[q].parent)
       /\ call[q].step \in {"link", "burn", "reset"} => link[call[q].link] # NoLink
  /\ \A t \in Tokens : Stored(t) /\ token[t].parent # 0 =>
       token[t].parent \in Tokens /\ Stored(token[t].parent)

HeldInv == AccountsTypeOK /\ RowsHeld

LEMMA OldRevoked ==
  ASSUME HeldInv, NEW r \in Calls, RevokeOld(r)
  PROVE  /\ AccountsTypeOK' /\ Others(r, SameToken(r)) /\ RevokedIn({call[r].parent})
         /\ call[r].step = "revoke" /\ call'[r].step = "owner" /\ call'[r].user = call[r].user
         /\ call'[r].password = call[r].password /\ call'[r].parent = call[r].parent
         /\ call'[r].stale = call[r].stale
         /\ call[r].parent \in Tokens /\ Stored(call[r].parent)
         /\ UNCHANGED <<active, password, link, deleted>>
<1>1. /\ call[r].step = "revoke"
      /\ token' = [token EXCEPT ![call[r].parent] = Revoked(@)]
      /\ Overtake(r, [call[r] EXCEPT !.step = "owner"], SameToken(r))
      /\ UNCHANGED <<active, password, link, deleted>>
  BY DEF RevokeOld, CallAt
<1>2. call[r].parent \in Tokens /\ Stored(call[r].parent)
  BY <1>1, CallFacts DEF HeldInv, RowsHeld
<1>3. RevokedIn({call[r].parent})
  BY <1>1, <1>2, RevokingLeaves DEF HeldInv
<1>4. \A q \in SameToken(r) : q \in Calls /\ call[q].step \notin {"idle", "end"}
  BY DEF SameToken
<1> DEFINE next == [call[r] EXCEPT !.step = "owner"]
<1>5. /\ next \in CallState /\ next.step = "owner" /\ next.user = call[r].user
      /\ next.password = call[r].password /\ next.parent = call[r].parent
      /\ next.stale = call[r].stale
  BY <1>1, StepsOn DEF HeldInv
<1> HIDE DEF next
<1>6. call' \in [Calls -> CallState] /\ call'[r] = next /\ Others(r, SameToken(r))
  BY <1>1, <1>4, <1>5, OvertakeLeaves DEF HeldInv, next
<1>7. AccountsTypeOK'
  BY <1>1, <1>3, <1>6 DEF HeldInv, AccountsTypeOK, RevokedIn
<1> QED BY <1>1, <1>2, <1>3, <1>5, <1>6, <1>7

LEMMA OwnerRead ==
  ASSUME HeldInv, NEW r \in Calls, ReadOwner(r)
  PROVE  /\ AccountsTypeOK' /\ Others(r, {}) /\ call[r].step = "owner"
         /\ \/ call'[r] = NoCall
            \/ /\ call'[r].step = "store" /\ call'[r].user = call[r].user
               /\ call'[r].password = call[r].password /\ call'[r].parent = call[r].parent
               /\ call'[r].stale = call[r].stale
         /\ UNCHANGED <<active, password, token, link, deleted>>
<1>1. /\ call[r].step = "owner"
      /\ \/ Do(r, [call[r] EXCEPT !.step = "store"])
         \/ Do(r, NoCall)
      /\ UNCHANGED <<active, password, token, link, deleted>>
  BY DEF ReadOwner, CallAt
<1> DEFINE next == [call[r] EXCEPT !.step = "store"]
<1>2. /\ next \in CallState /\ next.step = "store" /\ next.user = call[r].user
      /\ next.password = call[r].password /\ next.parent = call[r].parent
      /\ next.stale = call[r].stale
  BY <1>1, StepsOn DEF HeldInv
<1> HIDE DEF next
<1>3. /\ call' \in [Calls -> CallState] /\ Others(r, {})
      /\ call'[r] = next \/ call'[r] = NoCall
  BY <1>1, <1>2, LinkStates, DoLeaves DEF HeldInv, next
<1>4. AccountsTypeOK'
  BY <1>1, <1>3 DEF HeldInv, AccountsTypeOK
<1> QED BY <1>1, <1>2, <1>3, <1>4

LEMMA TokenStored ==
  ASSUME HeldInv, NEW r \in Calls, StoreToken(r)
  PROVE  /\ AccountsTypeOK' /\ Others(r, {}) /\ call[r].step = "store" /\ call'[r] = NoCall
         /\ \E n \in Tokens :
              /\ ~Stored(n) /\ \A t \in Tokens \ {n} : token'[t] = token[t]
              /\ Stored(n)' /\ Live(n)'
              /\ token'[n].user = call[r].user /\ token'[n].password = call[r].password
              /\ token'[n].parent = call[r].parent /\ token'[n].stale = call[r].stale
         /\ UNCHANGED <<active, password, link, deleted>>
<1> DEFINE row == [state |-> "live", user |-> call[r].user, password |-> call[r].password,
                   parent |-> call[r].parent, stale |-> call[r].stale]
<1>1. /\ call[r].step = "store" /\ HasFree(token, NoToken)
      /\ token' = [token EXCEPT ![FirstFree(token, NoToken)] = row]
      /\ Do(r, NoCall)
      /\ UNCHANGED <<active, password, link, deleted>>
  BY DEF StoreToken, CallAt, Finish
<1>2. PICK n \in Tokens : n = FirstFree(token, NoToken) /\ token[n] = NoToken
  BY <1>1, FreeId, Bounds DEF HeldInv, AccountsTypeOK, Tokens
<1>3. /\ call[r].user \in Users /\ call[r].password \in Nat /\ call[r].parent \in Nat
      /\ call[r].stale \in BOOLEAN
  BY <1>1, CallFacts DEF HeldInv
<1>4. row \in TokenRow
  BY <1>3 DEF TokenRow
<1>5. /\ row.state = "live" /\ row.user = call[r].user /\ row.password = call[r].password
      /\ row.parent = call[r].parent /\ row.stale = call[r].stale
  OBVIOUS
<1> HIDE DEF row
<1>6. /\ token' \in [Tokens -> TokenRow \cup {NoToken}]
      /\ token'[n] = row /\ \A t \in Tokens \ {n} : token'[t] = token[t]
  BY <1>1, <1>2, <1>4 DEF HeldInv, AccountsTypeOK
<1>7. call' \in [Calls -> CallState] /\ Others(r, {}) /\ call'[r] = NoCall
  BY <1>1, LinkStates, DoLeaves DEF HeldInv
<1>8. AccountsTypeOK'
  BY <1>1, <1>6, <1>7 DEF HeldInv, AccountsTypeOK
<1>9. ~Stored(n) /\ Stored(n)' /\ Live(n)'
  BY <1>2, <1>4, <1>5, <1>6, AccountRows DEF Stored, Live
<1> QED BY <1>1, <1>2, <1>5, <1>6, <1>7, <1>8, <1>9

LEMMA LoggedOut ==
  ASSUME HeldInv, NEW r \in Calls, Logout(r)
  PROVE  /\ AccountsTypeOK' /\ Others(r, SameToken(r)) /\ RevokedIn({call[r].parent})
         /\ call[r].step = "logout" /\ call'[r] = NoCall
         /\ UNCHANGED <<active, password, link, deleted>>
<1>1. /\ call[r].step = "logout"
      /\ token' = [token EXCEPT ![call[r].parent] = Revoked(@)]
      /\ Overtake(r, NoCall, SameToken(r))
      /\ UNCHANGED <<active, password, link, deleted>>
  BY DEF Logout, CallAt
<1>2. call[r].parent \in Tokens /\ Stored(call[r].parent)
  BY <1>1, CallFacts DEF HeldInv, RowsHeld
<1>3. RevokedIn({call[r].parent})
  BY <1>1, <1>2, RevokingLeaves DEF HeldInv
<1>4. \A q \in SameToken(r) : q \in Calls /\ call[q].step \notin {"idle", "end"}
  BY DEF SameToken
<1>5. call' \in [Calls -> CallState] /\ call'[r] = NoCall /\ Others(r, SameToken(r))
  BY <1>1, <1>4, LinkStates, OvertakeLeaves DEF HeldInv
<1>6. AccountsTypeOK'
  BY <1>1, <1>3, <1>5 DEF HeldInv, AccountsTypeOK, RevokedIn
<1> QED BY <1>1, <1>3, <1>5, <1>6

LEMMA ForgotBegins ==
  ASSUME HeldInv, NEW r \in Calls, NEW u \in Users, BeginForgot(r, u)
  PROVE  /\ AccountsTypeOK' /\ Others(r, {}) /\ call[r].step = "idle"
         /\ call'[r].step = "clear" /\ call'[r].user = u /\ call'[r].stale = FALSE
         /\ UNCHANGED <<active, password, token, link, deleted>>
<1>1. /\ call[r].step = "idle"
      /\ Do(r, [step |-> "clear", user |-> u, stale |-> FALSE])
      /\ UNCHANGED <<active, password, token, link, deleted>>
  BY DEF BeginForgot, CallAt
<1>2. /\ call' \in [Calls -> CallState] /\ Others(r, {})
      /\ call'[r] = [step |-> "clear", user |-> u, stale |-> FALSE]
  BY <1>1, LinkStates, DoLeaves DEF HeldInv
<1>3. AccountsTypeOK'
  BY <1>1, <1>2 DEF HeldInv, AccountsTypeOK
<1>4. call'[r].step = "clear" /\ call'[r].user = u /\ call'[r].stale = FALSE
  BY <1>2
<1> QED BY <1>1, <1>2, <1>3, <1>4

\* A change of the states of links that exist.
LinksChanged ==
  /\ link' \in [Links -> LinkRow \cup {NoLink}]
  /\ \A l \in Links : /\ link'[l] # NoLink <=> link[l] # NoLink
                      /\ link[l] # NoLink => link'[l].user = link[l].user /\ link'[l].stale = link[l].stale
                      /\ link'[l].state = "unused" => link[l].state = "unused"

LEMMA LinkStateChanges ==
  ASSUME AccountsTypeOK, NEW S \in SUBSET Links, NEW state \in {"expired", "used", "deleted"},
         \A l \in S : link[l] # NoLink, link' = [l \in Links |-> link'[l]],
         \A l \in Links : link'[l] = IF l \in S THEN [link[l] EXCEPT !.state = state] ELSE link[l]
  PROVE  LinksChanged /\ \A l \in S : link'[l].state = state
<1>1. ASSUME NEW row \in LinkRow
      PROVE  /\ [row EXCEPT !.state = state] \in LinkRow
             /\ [row EXCEPT !.state = state].state = state
             /\ [row EXCEPT !.state = state].user = row.user
             /\ [row EXCEPT !.state = state].stale = row.stale
  BY DEF LinkRow
<1>2. ASSUME NEW l \in S
      PROVE  /\ link'[l] \in LinkRow /\ link'[l].state = state
             /\ link'[l].user = link[l].user /\ link'[l].stale = link[l].stale
  <2>1. link[l] \in LinkRow
    BY DEF AccountsTypeOK
  <2>2. link'[l] = [link[l] EXCEPT !.state = state]
    OBVIOUS
  <2> QED BY <1>1, <2>1, <2>2
<1>3. \A l \in Links \ S : link'[l] = link[l]
  OBVIOUS
<1>4. link' \in [Links -> LinkRow \cup {NoLink}]
  BY <1>2, <1>3 DEF AccountsTypeOK
<1> QED BY <1>2, <1>3, <1>4, AccountRows DEF LinksChanged

LEMMA LinksCleared ==
  ASSUME HeldInv, NEW r \in Calls, ClearLinks(r)
  PROVE  /\ AccountsTypeOK' /\ Others(r, {}) /\ LinksChanged
         /\ call[r].step = "clear" /\ call'[r].step = "create" /\ call'[r].user = call[r].user
         /\ call'[r].stale = call[r].stale
         /\ \A l \in Links : link'[l].state = "unused" => link[l].user # call[r].user
         /\ \A l \in Links : link[l].state = "used" <=> link'[l].state = "used"
         /\ UNCHANGED <<active, password, token, deleted>>
<1> DEFINE S == {l \in Links : link[l] # NoLink /\ l \notin KeptLinks(call[r].user)}
           next == [call[r] EXCEPT !.step = "create"]
<1>1. /\ call[r].step = "clear"
      /\ link' = [l \in Links |-> IF l \in S THEN [link[l] EXCEPT !.state = "deleted"] ELSE link[l]]
      /\ Do(r, next)
      /\ UNCHANGED <<active, password, token, deleted>>
  BY DEF ClearLinks, CallAt
<1>2. \A l \in Links :
        /\ l \in S => link[l] # NoLink /\ link[l].state \in {"unused", "expired"}
        /\ l \notin S /\ link[l].user = call[r].user => link[l].state \notin {"unused", "expired"}
  BY AccountRows DEF KeptLinks
<1>3. next \in CallState /\ next.step = "create" /\ next.user = call[r].user /\ next.stale = call[r].stale
  BY <1>1, StepsOn DEF HeldInv
<1> HIDE DEF S, next
<1>4. S \in SUBSET Links
  BY DEF S
<1>5. LinksChanged /\ \A l \in S : link'[l].state = "deleted"
  <2>1. /\ link' = [l \in Links |-> link'[l]] /\ \A l \in S : link[l] # NoLink
        /\ \A l \in Links : link'[l] = IF l \in S THEN [link[l] EXCEPT !.state = "deleted"]
                                       ELSE link[l]
    BY <1>1, <1>2, <1>4
  <2> QED BY <1>4, <2>1, LinkStateChanges DEF HeldInv
<1>6. call' \in [Calls -> CallState] /\ Others(r, {}) /\ call'[r] = next
  BY <1>1, <1>3, DoLeaves DEF HeldInv
<1>7. AccountsTypeOK'
  BY <1>1, <1>5, <1>6 DEF HeldInv, AccountsTypeOK, LinksChanged
<1>8. \A l \in Links : link'[l].state = "unused" => link[l].user # call[r].user
  BY <1>1, <1>2, <1>5
<1>9. \A l \in Links : link[l].state = "used" <=> link'[l].state = "used"
  BY <1>1, <1>2, <1>5
<1> QED BY <1>1, <1>3, <1>5, <1>6, <1>7, <1>8, <1>9

Creating(u) == {q \in Calls : CallAt(q, "create") /\ call[q].user = u}

LEMMA LinkCreated ==
  ASSUME HeldInv, NEW r \in Calls, CreateLink(r)
  PROVE  /\ AccountsTypeOK' /\ Others(r, Creating(call[r].user))
         /\ call[r].step = "create" /\ call'[r] = NoCall
         /\ \E n \in Links :
              /\ link[n] = NoLink /\ \A l \in Links \ {n} : link'[l] = link[l]
              /\ link'[n] # NoLink /\ link'[n].state = "unused"
              /\ link'[n].user = call[r].user /\ link'[n].stale = call[r].stale
         /\ UNCHANGED <<active, password, token, deleted>>
<1> DEFINE row == [state |-> "unused", user |-> call[r].user, stale |-> call[r].stale]
<1>1. /\ call[r].step = "create" /\ HasFree(link, NoLink)
      /\ link' = [link EXCEPT ![FirstFree(link, NoLink)] = row]
      /\ Overtake(r, NoCall, Creating(call[r].user))
      /\ UNCHANGED <<active, password, token, deleted>>
  BY DEF CreateLink, CallAt, Creating
<1>2. PICK n \in Links : n = FirstFree(link, NoLink) /\ link[n] = NoLink
  BY <1>1, FreeId, Bounds DEF HeldInv, AccountsTypeOK, Links
<1>3. call[r].user \in Users /\ call[r].stale \in BOOLEAN
  BY <1>1, CallFacts DEF HeldInv
<1>4. row \in LinkRow
  BY <1>3 DEF LinkRow
<1>5. row.state = "unused" /\ row.user = call[r].user /\ row.stale = call[r].stale
  OBVIOUS
<1> HIDE DEF row
<1>6. /\ link' \in [Links -> LinkRow \cup {NoLink}]
      /\ link'[n] = row /\ \A l \in Links \ {n} : link'[l] = link[l]
  BY <1>1, <1>2, <1>4 DEF HeldInv, AccountsTypeOK
<1>7. \A q \in Creating(call[r].user) : q \in Calls /\ call[q].step \notin {"idle", "end"}
  BY DEF Creating, CallAt
<1>8. call' \in [Calls -> CallState] /\ Others(r, Creating(call[r].user)) /\ call'[r] = NoCall
  BY <1>1, <1>7, LinkStates, OvertakeLeaves DEF HeldInv
<1>9. AccountsTypeOK'
  BY <1>1, <1>6, <1>8 DEF HeldInv, AccountsTypeOK
<1>10. link'[n] # NoLink
  BY <1>4, <1>6, AccountRows
<1> QED BY <1>1, <1>2, <1>5, <1>6, <1>8, <1>9, <1>10

LEMMA ResetBegins ==
  ASSUME HeldInv, NEW r \in Calls, NEW l \in Links, BeginReset(r, l)
  PROVE  /\ AccountsTypeOK' /\ Others(r, {}) /\ call[r].step = "idle"
         /\ link[l] # NoLink /\ link[l].state = "unused"
         /\ call'[r].step = "link" /\ call'[r].user = link[l].user
         /\ call'[r].link = l /\ call'[r].stale = FALSE
         /\ UNCHANGED <<active, password, token, link, deleted>>
<1>1. /\ call[r].step = "idle" /\ link[l].state = "unused"
      /\ Do(r, WithLink("link", link[l].user, l, FALSE))
      /\ UNCHANGED <<active, password, token, link, deleted>>
  BY DEF BeginReset, CallAt, Found
<1>2. link[l] # NoLink /\ link[l] \in LinkRow
  BY <1>1, AccountRows DEF HeldInv, AccountsTypeOK
<1>3. link[l].user \in Users
  BY <1>2 DEF LinkRow
<1>4. /\ call' \in [Calls -> CallState] /\ Others(r, {})
      /\ call'[r] = WithLink("link", link[l].user, l, FALSE)
  BY <1>1, <1>3, LinkStates, DoLeaves DEF HeldInv
<1>5. AccountsTypeOK'
  BY <1>1, <1>4 DEF HeldInv, AccountsTypeOK
<1>6. /\ call'[r].step = "link" /\ call'[r].user = link[l].user
      /\ call'[r].link = l /\ call'[r].stale = FALSE
  BY <1>4 DEF WithLink
<1> QED BY <1>1, <1>2, <1>4, <1>5, <1>6

LEMMA LinkOwnerRead ==
  ASSUME HeldInv, NEW r \in Calls, ReadLinkOwner(r)
  PROVE  /\ AccountsTypeOK' /\ Others(r, {}) /\ call[r].step = "link"
         /\ call'[r].step \in {"reset", "burn"} /\ call'[r].user = call[r].user
         /\ call'[r].link = call[r].link /\ call'[r].stale = call[r].stale
         /\ UNCHANGED <<active, password, token, link, deleted>>
<1>1. PICK step \in {"reset", "burn"} :
        /\ call[r].step = "link"
        /\ Do(r, [call[r] EXCEPT !.step = step])
        /\ UNCHANGED <<active, password, token, link, deleted>>
  BY DEF ReadLinkOwner, CallAt
<1> DEFINE next == [call[r] EXCEPT !.step = step]
<1>2. /\ next \in CallState /\ next.step = step /\ next.user = call[r].user
      /\ next.link = call[r].link /\ next.stale = call[r].stale
  BY <1>1, StepsOn DEF HeldInv
<1> HIDE DEF next
<1>3. call' \in [Calls -> CallState] /\ Others(r, {}) /\ call'[r] = next
  BY <1>1, <1>2, DoLeaves DEF HeldInv, next
<1>4. AccountsTypeOK'
  BY <1>1, <1>3 DEF HeldInv, AccountsTypeOK
<1> QED BY <1>1, <1>2, <1>3, <1>4

LEMMA LinkBurnt ==
  ASSUME HeldInv, NEW r \in Calls, BurnLink(r)
  PROVE  /\ AccountsTypeOK' /\ Others(r, SameLink(call[r].link)) /\ LinksChanged
         /\ call[r].step = "burn" /\ call'[r] = NoCall
         /\ \A l \in Links \ {call[r].link} : link'[l] = link[l]
         /\ UNCHANGED <<active, password, token, deleted>>
<1>1. /\ call[r].step = "burn" /\ call'[r] = NoCall
      /\ link' = [link EXCEPT ![call[r].link].state = "used"]
      /\ Overtake(r, NoCall, SameLink(call[r].link))
      /\ UNCHANGED <<active, password, token, deleted>>
  BY DEF BurnLink, CallAt, Overtake
<1>2. call[r].link \in Links /\ link[call[r].link] # NoLink
  BY <1>1, CallFacts DEF HeldInv, RowsHeld
<1>3. /\ link' = [l \in Links |-> link'[l]]
      /\ \A l \in Links : link'[l] = IF l \in {call[r].link} THEN [link[l] EXCEPT !.state = "used"]
                                     ELSE link[l]
  BY <1>1, <1>2 DEF HeldInv, AccountsTypeOK
<1>4. LinksChanged
  BY <1>2, <1>3, LinkStateChanges DEF HeldInv
<1>5. \A q \in SameLink(call[r].link) : q \in Calls /\ call[q].step \notin {"idle", "end"}
  BY DEF SameLink
<1>6. call' \in [Calls -> CallState] /\ Others(r, SameLink(call[r].link))
  BY <1>1, <1>5, LinkStates, OvertakeLeaves DEF HeldInv
<1>7. AccountsTypeOK'
  BY <1>1, <1>4, <1>6 DEF HeldInv, AccountsTypeOK, LinksChanged
<1> QED BY <1>1, <1>3, <1>4, <1>6, <1>7

LEMMA SessionsExist ==
  ASSUME NEW u
  PROVE  SessionsOf(u) \in SUBSET Tokens /\ \A t \in SessionsOf(u) : Stored(t)
  BY DEF SessionsOf, Stored

LEMMA ResetCommitted ==
  ASSUME HeldInv, NEW r \in Calls, CommitReset(r)
  PROVE  /\ AccountsTypeOK'
         /\ Others(r, OpeningSession(call[r].user) \cup SameLink(call[r].link)) /\ LinksChanged
         /\ RevokedIn(SessionsOf(call[r].user)) /\ call[r].user \in Users
         /\ call[r].step = "reset" /\ call'[r] = NoCall /\ Exists(call[r].link)
         /\ password' = [password EXCEPT ![call[r].user] = @ + 1]
         /\ \A l \in Links \ {call[r].link} : link'[l] = link[l]
         /\ UNCHANGED <<active, deleted>>
<1>1. /\ call[r].step = "reset" /\ Exists(call[r].link) /\ call'[r] = NoCall
      /\ password' = [password EXCEPT ![call[r].user] = @ + 1]
      /\ link' = [link EXCEPT ![call[r].link].state = "used"]
      /\ RevokeAll(SessionsOf(call[r].user))
      /\ Overtake(r, NoCall, OpeningSession(call[r].user) \cup SameLink(call[r].link))
      /\ UNCHANGED <<active, deleted>>
  BY DEF CommitReset, CallAt, Overtake
<1>2. call[r].link \in Links /\ link[call[r].link] # NoLink /\ call[r].user \in Users
  BY <1>1, CallFacts DEF HeldInv, RowsHeld
<1>3. /\ link' = [l \in Links |-> link'[l]]
      /\ \A l \in Links : link'[l] = IF l \in {call[r].link} THEN [link[l] EXCEPT !.state = "used"]
                                     ELSE link[l]
  BY <1>1, <1>2 DEF HeldInv, AccountsTypeOK
<1>4. LinksChanged
  BY <1>2, <1>3, LinkStateChanges DEF HeldInv
<1>5. \A q \in OpeningSession(call[r].user) \cup SameLink(call[r].link) :
        q \in Calls /\ call[q].step \notin {"idle", "end"}
  BY DEF SameLink, OpeningSession
<1>6. /\ call' \in [Calls -> CallState]
      /\ Others(r, OpeningSession(call[r].user) \cup SameLink(call[r].link))
  BY <1>1, <1>5, LinkStates, OvertakeLeaves DEF HeldInv
<1>7. RevokedIn(SessionsOf(call[r].user))
  BY <1>1, SessionsExist, RevokingLeaves DEF HeldInv
<1>8. password' \in [Users -> Nat]
  BY <1>1, <1>2 DEF HeldInv, AccountsTypeOK
<1>9. AccountsTypeOK'
  BY <1>1, <1>4, <1>6, <1>7, <1>8 DEF HeldInv, AccountsTypeOK, LinksChanged, RevokedIn
<1> QED BY <1>1, <1>2, <1>3, <1>4, <1>6, <1>7, <1>9

LEMMA ActiveSet ==
  ASSUME HeldInv, NEW u \in Users, NEW on \in BOOLEAN, SetActive(u, on)
  PROVE  AccountsTypeOK' /\ UNCHANGED <<password, token, link, call>>
  BY DEF HeldInv, AccountsTypeOK, SetActive

LEMMA UserDeleted ==
  ASSUME HeldInv, NEW r \in Calls, NEW u \in Users, DeleteUser(r, u)
  PROVE  /\ AccountsTypeOK' /\ Others(r, {}) /\ call[r].step = "idle"
         /\ call'[r].step = "end" /\ call'[r].user = u
         /\ active' = [active EXCEPT ![u] = FALSE]
         /\ UNCHANGED <<password, token, link, deleted>>
<1>1. /\ call[r].step = "idle"
      /\ active' = [active EXCEPT ![u] = FALSE]
      /\ Do(r, [step |-> "end", user |-> u])
      /\ UNCHANGED <<password, token, link, deleted>>
  BY DEF DeleteUser, CallAt
<1>2. /\ call' \in [Calls -> CallState] /\ Others(r, {})
      /\ call'[r] = [step |-> "end", user |-> u]
  BY <1>1, LinkStates, DoLeaves DEF HeldInv
<1>3. active' \in [Users -> BOOLEAN]
  BY <1>1 DEF HeldInv, AccountsTypeOK
<1>4. AccountsTypeOK'
  BY <1>1, <1>2, <1>3 DEF HeldInv, AccountsTypeOK
<1>5. call'[r] = [step |-> "end", user |-> u]
  BY <1>2
<1>6. call'[r].step = "end" /\ call'[r].user = u
  BY ONLY <1>5
<1> QED BY <1>1, <1>2, <1>4, <1>6

LEMMA SessionsEnded ==
  ASSUME HeldInv, NEW r \in Calls, EndSessions(r)
  PROVE  /\ AccountsTypeOK' /\ Others(r, OpeningSession(call[r].user))
         /\ RevokedIn(SessionsOf(call[r].user)) /\ call[r].user \in Users
         /\ call[r].step = "end" /\ call'[r] = NoCall
         /\ deleted' = IF active[call[r].user] THEN deleted ELSE deleted \cup {call[r].user}
         /\ UNCHANGED <<active, password, link>>
<1>1. /\ call[r].step = "end"
      /\ RevokeAll(SessionsOf(call[r].user))
      /\ deleted' = IF active[call[r].user] THEN deleted ELSE deleted \cup {call[r].user}
      /\ Overtake(r, NoCall, OpeningSession(call[r].user))
      /\ UNCHANGED <<active, password, link>>
  BY DEF EndSessions, CallAt
<1>2. call[r].user \in Users
  BY <1>1, CallFacts DEF HeldInv
<1>3. \A q \in OpeningSession(call[r].user) : q \in Calls /\ call[q].step \notin {"idle", "end"}
  BY DEF OpeningSession
<1>4. call' \in [Calls -> CallState] /\ Others(r, OpeningSession(call[r].user)) /\ call'[r] = NoCall
  BY <1>1, <1>3, LinkStates, OvertakeLeaves DEF HeldInv
<1>5. RevokedIn(SessionsOf(call[r].user))
  BY <1>1, SessionsExist, RevokingLeaves DEF HeldInv
<1>6. AccountsTypeOK'
  BY <1>1, <1>2, <1>4, <1>5 DEF HeldInv, AccountsTypeOK, RevokedIn
<1> QED BY <1>1, <1>2, <1>4, <1>5, <1>6

LEMMA TokenExpired ==
  ASSUME HeldInv, NEW t \in Tokens, ExpireToken(t)
  PROVE  AccountsTypeOK' /\ RevokedIn({}) /\ UNCHANGED <<active, password, link, call, deleted>>
<1>1. /\ token[t].state = "live" /\ token' = [token EXCEPT ![t].state = "expired"]
      /\ UNCHANGED <<active, password, link, call, deleted>>
  BY DEF ExpireToken
<1>2. token[t] \in TokenRow
  BY <1>1, AccountRows DEF HeldInv, AccountsTypeOK
<1> DEFINE row == [token[t] EXCEPT !.state = "expired"]
<1>3. /\ row \in TokenRow /\ row.state = "expired" /\ row.user = token[t].user
      /\ row.password = token[t].password /\ row.parent = token[t].parent
      /\ row.stale = token[t].stale
  BY <1>2 DEF TokenRow
<1>4. token' = [token EXCEPT ![t] = row]
  BY <1>1
<1> HIDE DEF row
<1>5. /\ token'[t] = row /\ \A u \in Tokens \ {t} : token'[u] = token[u]
      /\ token' \in [Tokens -> TokenRow \cup {NoToken}]
  BY <1>3, <1>4 DEF HeldInv, AccountsTypeOK
<1>6. RevokedIn({})
  BY <1>1, <1>2, <1>3, <1>5, AccountRows DEF RevokedIn, Stored, Live
<1>7. AccountsTypeOK'
  BY <1>1, <1>5 DEF HeldInv, AccountsTypeOK
<1> QED BY <1>1, <1>6, <1>7

LEMMA LinkExpired ==
  ASSUME HeldInv, NEW l \in Links, ExpireLink(l)
  PROVE  /\ AccountsTypeOK' /\ LinksChanged
         /\ \A m \in Links : link[m].state = "used" <=> link'[m].state = "used"
         /\ UNCHANGED <<active, password, token, call, deleted>>
<1>1. /\ link[l].state = "unused" /\ link' = [link EXCEPT ![l].state = "expired"]
      /\ UNCHANGED <<active, password, token, call, deleted>>
  BY DEF ExpireLink
<1>2. link[l] # NoLink
  BY <1>1, AccountRows
<1>3. /\ link' = [m \in Links |-> link'[m]]
      /\ \A m \in Links : link'[m] = IF m \in {l} THEN [link[m] EXCEPT !.state = "expired"]
                                     ELSE link[m]
  BY <1>1 DEF HeldInv, AccountsTypeOK
<1>4. LinksChanged /\ link'[l].state = "expired"
  <2>1. {l} \in SUBSET Links /\ l \in {l} /\ \A m \in {l} : link[m] # NoLink
    BY <1>2
  <2>2. LinksChanged /\ \A m \in {l} : link'[m].state = "expired"
    BY <1>3, <2>1, LinkStateChanges DEF HeldInv
  <2> QED BY <2>1, <2>2
<1>5. AccountsTypeOK'
  BY <1>1, <1>4 DEF HeldInv, AccountsTypeOK, LinksChanged
<1> QED BY <1>1, <1>3, <1>4, <1>5

LEMMA CallAbandoned ==
  ASSUME HeldInv, NEW r \in Calls, AbandonCall(r)
  PROVE  /\ AccountsTypeOK' /\ Others(r, {}) /\ call'[r] = NoCall
         /\ UNCHANGED <<active, password, token, link, deleted>>
<1>1. Do(r, NoCall) /\ UNCHANGED <<active, password, token, link, deleted>>
  BY DEF AbandonCall, Finish
<1>2. call' \in [Calls -> CallState] /\ Others(r, {}) /\ call'[r] = NoCall
  BY <1>1, LinkStates, DoLeaves DEF HeldInv
<1> QED BY <1>1, <1>2 DEF HeldInv, AccountsTypeOK

-----------------------------------------------------------------------------
(* Rows in hand stay rows. *)

LEMMA HeldFollows ==
  ASSUME HeldInv, NEW r \in Calls, NEW R, Others(r, R),
         \A t \in Tokens : token[t] # NoToken => token'[t] # NoToken,
         \A l \in Links : link[l] # NoLink => link'[l] # NoLink,
         \/ call'[r].step \in {"idle", "clear", "create", "end"}
         \/ call'[r].step \in {"revoke", "owner", "logout"} /\ token'[call'[r].parent] # NoToken
         \/ /\ call'[r].step = "store"
            /\ call'[r].parent # 0 => call'[r].parent \in Tokens /\ token'[call'[r].parent] # NoToken
         \/ call'[r].step \in {"link", "burn", "reset"} /\ link'[call'[r].link] # NoLink,
         \A t \in Tokens : token'[t] # NoToken /\ token'[t].parent # 0 =>
           token'[t].parent \in Tokens /\ token'[token'[t].parent] # NoToken
  PROVE  RowsHeld'
<1>1. ASSUME NEW q \in Calls
      PROVE  /\ call'[q].step \in {"revoke", "owner", "logout"} => token'[call'[q].parent] # NoToken
             /\ call'[q].step = "store" /\ call'[q].parent # 0 =>
                  call'[q].parent \in Tokens /\ token'[call'[q].parent] # NoToken
             /\ call'[q].step \in {"link", "burn", "reset"} => link'[call'[q].link] # NoLink
  <2>1. CASE q = r
    BY <2>1
  <2>2. CASE q # r
    <3>1. GoesOn(q, R)
      BY <2>2 DEF Others
    <3>2. /\ call[q].step \in {"revoke", "owner", "logout"} =>
               call[q].parent \in Tokens /\ token[call[q].parent] # NoToken
          /\ call[q].step = "store" /\ call[q].parent # 0 =>
               call[q].parent \in Tokens /\ token[call[q].parent] # NoToken
          /\ call[q].step \in {"link", "burn", "reset"} =>
               call[q].link \in Links /\ link[call[q].link] # NoLink
      BY CallFacts DEF HeldInv, RowsHeld, Stored
    <3> QED BY <3>1, <3>2 DEF GoesOn
  <2> QED BY <2>1, <2>2
<1> QED BY <1>1 DEF RowsHeld, Stored

\* A step that leaves the tokens alone leaves what they descend from.
LEMMA DescentStands ==
  ASSUME HeldInv, token' = token \/ \E S : RevokedIn(S)
  PROVE  /\ \A t \in Tokens : token[t] # NoToken => token'[t] # NoToken
         /\ \A t \in Tokens : token'[t] # NoToken /\ token'[t].parent # 0 =>
              token'[t].parent \in Tokens /\ token'[token'[t].parent] # NoToken
<1>1. CASE token' = token
  BY <1>1 DEF HeldInv, RowsHeld, Stored
<1>2. ASSUME NEW S, RevokedIn(S)
      PROVE  /\ \A t \in Tokens : token[t] # NoToken <=> token'[t] # NoToken
             /\ \A t \in Tokens : token[t] # NoToken => token'[t].parent = token[t].parent
  BY <1>2 DEF RevokedIn, Stored
<1>3. CASE \E S : RevokedIn(S)
  BY <1>2, <1>3 DEF HeldInv, RowsHeld, Stored
<1> QED BY <1>1, <1>3

LEMMA HeldStep ==
  ASSUME HeldInv, [AccountsNext]_accountsVars
  PROVE  HeldInv'
<1>1. ASSUME NEW r \in Calls, NEW u \in Users, BeginLogin(r, u) PROVE HeldInv'
  BY <1>1, LoginBegins, DescentStands, HeldFollows DEF HeldInv
<1>2. ASSUME NEW r \in Calls, NEW u \in Users, BeginForgot(r, u) PROVE HeldInv'
  BY <1>2, ForgotBegins, DescentStands, HeldFollows DEF HeldInv
<1>3. ASSUME NEW r \in Calls, NEW u \in Users, DeleteUser(r, u) PROVE HeldInv'
  BY <1>3, UserDeleted, DescentStands, HeldFollows DEF HeldInv
<1>4. ASSUME NEW r \in Calls, NEW t \in Tokens, BeginRefresh(r, t) \/ BeginLogout(r, t) PROVE HeldInv'
  BY <1>4, ExchangeBegins, AccountRows, DescentStands, HeldFollows DEF HeldInv
<1>5. ASSUME NEW r \in Calls, NEW l \in Links, BeginReset(r, l) PROVE HeldInv'
  <2>1. link'[call'[r].link] # NoLink /\ call'[r].step = "link"
    BY <1>5, ResetBegins
  <2> QED BY <1>5, <2>1, ResetBegins, DescentStands, HeldFollows DEF HeldInv
<1>6. ASSUME NEW r \in Calls, RevokeOld(r) PROVE HeldInv'
  <2>1. token'[call'[r].parent] # NoToken /\ call'[r].step = "owner"
    BY <1>6, OldRevoked DEF RevokedIn, Stored
  <2>2. AccountsTypeOK' /\ Others(r, SameToken(r)) /\ link' = link /\ RevokedIn({call[r].parent})
    BY <1>6, OldRevoked
  <2>3. /\ \A t \in Tokens : token[t] # NoToken => token'[t] # NoToken
        /\ \A t \in Tokens : token'[t] # NoToken /\ token'[t].parent # 0 =>
             token'[t].parent \in Tokens /\ token'[token'[t].parent] # NoToken
    BY <2>2, DescentStands
  <2>4. RowsHeld'
    BY <2>1, <2>2, <2>3, HeldFollows
  <2> QED BY <2>2, <2>4 DEF HeldInv
<1>7. ASSUME NEW r \in Calls, ReadOwner(r) PROVE HeldInv'
  <2>1. call[r].step = "owner" => call[r].parent \in Tokens /\ token[call[r].parent] # NoToken
    BY CallFacts DEF HeldInv, RowsHeld, Stored
  <2> QED BY <1>7, <2>1, OwnerRead, LinkStates, DescentStands, HeldFollows DEF HeldInv
<1>8. ASSUME NEW r \in Calls, StoreToken(r) PROVE HeldInv'
  <2>1. PICK n \in Tokens :
          /\ token[n] = NoToken /\ token'[n] # NoToken
          /\ \A t \in Tokens \ {n} : token'[t] = token[t]
          /\ token'[n].parent = call[r].parent
    BY <1>8, TokenStored DEF Stored
  <2>2. call[r].parent # 0 => call[r].parent \in Tokens /\ token[call[r].parent] # NoToken
    BY <1>8, TokenStored DEF HeldInv, RowsHeld, Stored
  <2>3. /\ \A t \in Tokens : token[t] # NoToken => token'[t] # NoToken
        /\ \A t \in Tokens : token'[t] # NoToken /\ token'[t].parent # 0 =>
             token'[t].parent \in Tokens /\ token'[token'[t].parent] # NoToken
    BY <2>1, <2>2 DEF HeldInv, RowsHeld, Stored
  <2> QED BY <1>8, <2>3, TokenStored, LinkStates, HeldFollows DEF HeldInv
<1>9. ASSUME NEW r \in Calls, Logout(r) PROVE HeldInv'
  BY <1>9, LoggedOut, LinkStates, DescentStands, HeldFollows DEF HeldInv
<1>10. ASSUME NEW r \in Calls, ClearLinks(r) PROVE HeldInv'
  BY <1>10, LinksCleared, DescentStands, HeldFollows DEF HeldInv, LinksChanged
<1>11. ASSUME NEW r \in Calls, CreateLink(r) PROVE HeldInv'
  <2>1. \A l \in Links : link[l] # NoLink => link'[l] # NoLink
    BY <1>11, LinkCreated
  <2> QED BY <1>11, <2>1, LinkCreated, LinkStates, DescentStands, HeldFollows DEF HeldInv
<1>12. ASSUME NEW r \in Calls, ReadLinkOwner(r) PROVE HeldInv'
  <2>1. call[r].step = "link" => call[r].link \in Links /\ link[call[r].link] # NoLink
    BY CallFacts DEF HeldInv, RowsHeld
  <2> QED BY <1>12, <2>1, LinkOwnerRead, DescentStands, HeldFollows DEF HeldInv
<1>13. ASSUME NEW r \in Calls, BurnLink(r) PROVE HeldInv'
  BY <1>13, LinkBurnt, LinkStates, DescentStands, HeldFollows DEF HeldInv, LinksChanged
<1>14. ASSUME NEW r \in Calls, CommitReset(r) PROVE HeldInv'
  <2>1. \A l \in Links : link[l] # NoLink => link'[l] # NoLink
    BY <1>14, ResetCommitted DEF LinksChanged
  <2>2. call'[r].step = "idle"
    BY <1>14, ResetCommitted, LinkStates
  <2> QED BY <1>14, <2>1, <2>2, ResetCommitted, DescentStands, HeldFollows DEF HeldInv
<1>15. ASSUME NEW r \in Calls, EndSessions(r) PROVE HeldInv'
  BY <1>15, SessionsEnded, LinkStates, DescentStands, HeldFollows DEF HeldInv
<1>16. ASSUME NEW r \in Calls, AbandonCall(r) PROVE HeldInv'
  BY <1>16, CallAbandoned, LinkStates, DescentStands, HeldFollows DEF HeldInv
<1>17. ASSUME NEW u \in Users, NEW on \in BOOLEAN, SetActive(u, on) PROVE HeldInv'
  BY <1>17, ActiveSet DEF HeldInv, RowsHeld, Stored
<1>18. ASSUME NEW t \in Tokens, ExpireToken(t) PROVE HeldInv'
  <2>1. /\ AccountsTypeOK' /\ UNCHANGED <<link, call>>
        /\ \A t1 \in Tokens : token[t1] # NoToken => token'[t1] # NoToken
        /\ \A t1 \in Tokens : token'[t1] # NoToken /\ token'[t1].parent # 0 =>
             token'[t1].parent \in Tokens /\ token'[token'[t1].parent] # NoToken
    BY <1>18, TokenExpired, DescentStands
  <2> QED BY <2>1, CallFacts DEF HeldInv, RowsHeld, Stored
<1>19. ASSUME NEW l \in Links, ExpireLink(l) PROVE HeldInv'
  BY <1>19, LinkExpired, CallFacts DEF HeldInv, RowsHeld, Stored, LinksChanged
<1>20. CASE UNCHANGED accountsVars
  BY <1>20 DEF accountsVars, HeldInv, AccountsTypeOK, RowsHeld, Stored
<1> QED BY <1>1, <1>2, <1>3, <1>4, <1>5, <1>6, <1>7, <1>8, <1>9, <1>10, <1>11, <1>12, <1>13,
           <1>14, <1>15, <1>16, <1>17, <1>18, <1>19, <1>20 DEF AccountsNext

-----------------------------------------------------------------------------
(* What a session is open for: the password it was opened with, and a user *)
(* who has not been deleted. Calls on their way to a token carry both.     *)

Opens(q) == call[q].step \in {"store", "revoke", "owner"}

SessionsSound ==
  /\ \A u \in deleted : u \in Users /\ ~active[u]
  /\ \A q \in Calls : Opens(q) /\ ~call[q].stale =>
       call[q].password = password[call[q].user] /\ call[q].user \notin deleted
  /\ \A t \in Tokens : Live(t) /\ ~token[t].stale =>
       token[t].password = password[token[t].user] /\ token[t].user \notin deleted

\* A user whom the step leaves alone.
Untouched(u) == password'[u] = password[u] /\ (u \in deleted' => u \in deleted)

\* The sessions of users whom the step leaves alone go on as they were.
LEMMA SoundFollows ==
  ASSUME HeldInv, SessionsSound, NEW r \in Calls, NEW R, Others(r, R),
         \A u \in deleted' : u \in Users /\ ~active'[u],
         \A q \in Calls \ {r} : Opens(q) => q \in R \/ Untouched(call[q].user),
         \/ call'[r].step \notin {"store", "revoke", "owner"} \/ call'[r].stale
         \/ call'[r].password = password'[call'[r].user] /\ call'[r].user \notin deleted',
         \A t \in Tokens : token'[t].state = "live" =>
           \/ token'[t].stale
           \/ token'[t].password = password'[token'[t].user] /\ token'[t].user \notin deleted'
           \/ /\ Live(t) /\ Untouched(token[t].user)
              /\ token'[t].user = token[t].user /\ token'[t].password = token[t].password
              /\ token'[t].stale = token[t].stale
  PROVE  SessionsSound'
<1>1. ASSUME NEW q \in Calls, call'[q].step \in {"store", "revoke", "owner"}, ~call'[q].stale
      PROVE  call'[q].password = password'[call'[q].user] /\ call'[q].user \notin deleted'
  <2>1. CASE q = r
    BY <1>1, <2>1
  <2>2. CASE q # r
    <3>1. GoesOn(q, R) /\ (Opens(q) => q \in R \/ Untouched(call[q].user))
      BY <2>2 DEF Others
    <3>2. Opens(q) /\ ~call[q].stale /\ q \notin R /\ call[q].user \in Users
      BY <1>1, <3>1, CallFacts DEF GoesOn, Opens, HeldInv
    <3>3. call'[q].user = call[q].user /\ call'[q].password = call[q].password
      BY <3>1, <3>2 DEF GoesOn, Opens
    <3> QED BY <3>1, <3>2, <3>3 DEF SessionsSound, Untouched
  <2> QED BY <2>1, <2>2
<1>2. ASSUME NEW t \in Tokens, token'[t].state = "live", ~token'[t].stale
      PROVE  token'[t].password = password'[token'[t].user] /\ token'[t].user \notin deleted'
  BY <1>2 DEF SessionsSound, Untouched
<1> QED BY <1>1, <1>2 DEF SessionsSound, Opens, Live

\* No token comes to life that was not live before, and none in S stays alive.
LEMMA TokensAge ==
  ASSUME HeldInv, NEW S, RevokedIn(S) \/ (token' = token /\ S = {})
  PROVE  \A t \in Tokens : token'[t].state = "live" =>
           /\ Live(t) /\ t \notin S
           /\ token'[t].user = token[t].user /\ token'[t].password = token[t].password
           /\ token'[t].parent = token[t].parent /\ token'[t].stale = token[t].stale
<1>1. \A t \in Tokens : Live(t) => Stored(t)
  BY AccountRows DEF Live, Stored
<1>2. CASE token' = token /\ S = {}
  BY <1>2 DEF Live
<1>3. CASE RevokedIn(S)
  BY <1>1, <1>3 DEF RevokedIn, Live
<1> QED BY <1>2, <1>3

\* The same for a step that changes neither passwords nor who is deleted.
LEMMA SoundStays ==
  ASSUME HeldInv, SessionsSound, NEW r \in Calls, NEW R, Others(r, R),
         UNCHANGED <<password, deleted>>,
         \A u \in Users : active'[u] => active[u],
         token' = token \/ \E S : RevokedIn(S),
         \/ call'[r].step \notin {"store", "revoke", "owner"}
         \/ call'[r].stale
         \/ call'[r].password = password[call'[r].user] /\ call'[r].user \notin deleted
  PROVE  SessionsSound'
<1>1. \A t \in Tokens : token'[t].state = "live" =>
        /\ Live(t) /\ token'[t].user = token[t].user /\ token'[t].password = token[t].password
        /\ token'[t].stale = token[t].stale
  BY TokensAge
<1>2. \A u \in deleted' : u \in Users /\ ~active'[u]
  BY DEF SessionsSound
<1>3. \A u : Untouched(u)
  BY DEF Untouched
<1>4. \/ call'[r].step \notin {"store", "revoke", "owner"} \/ call'[r].stale
      \/ call'[r].password = password'[call'[r].user] /\ call'[r].user \notin deleted'
  OBVIOUS
<1> QED BY <1>1, <1>2, <1>3, <1>4, SoundFollows

LEMMA SoundStep ==
  ASSUME HeldInv, SessionsSound, [AccountsNext]_accountsVars
  PROVE  SessionsSound'
<1>1. ASSUME NEW r \in Calls, NEW u \in Users, BeginLogin(r, u) PROVE SessionsSound'
  <2>1. u \notin deleted
    BY <1>1, LoginBegins DEF SessionsSound, HeldInv
  <2>2. call'[r].user = u /\ call'[r].password = password[u]
    BY <1>1, LoginBegins DEF HeldInv
  <2>3. Others(r, {}) /\ UNCHANGED <<active, password, token, deleted>>
    BY <1>1, LoginBegins DEF HeldInv
  <2>4. call'[r].password = password[call'[r].user] /\ call'[r].user \notin deleted
    BY <2>1, <2>2
  <2> QED BY <2>3, <2>4, SoundStays
<1>2. ASSUME NEW r \in Calls, NEW u \in Users, BeginForgot(r, u) PROVE SessionsSound'
  BY <1>2, ForgotBegins, SoundStays
<1>3. ASSUME NEW r \in Calls, NEW u \in Users, DeleteUser(r, u) PROVE SessionsSound'
  <2>1. \A v \in Users : active'[v] => active[v]
    BY <1>3, UserDeleted DEF HeldInv, AccountsTypeOK
  <2> QED BY <1>3, <2>1, UserDeleted, SoundStays
<1>4. ASSUME NEW r \in Calls, NEW t \in Tokens, BeginRefresh(r, t) \/ BeginLogout(r, t)
      PROVE  SessionsSound'
  <2>1. \/ call'[r].stale
        \/ call'[r].password = password[call'[r].user] /\ call'[r].user \notin deleted
    BY <1>4, ExchangeBegins DEF SessionsSound, HeldInv
  <2> QED BY <1>4, <2>1, ExchangeBegins, SoundStays DEF HeldInv
<1>5. ASSUME NEW r \in Calls, NEW l \in Links, BeginReset(r, l) PROVE SessionsSound'
  BY <1>5, ResetBegins, SoundStays
<1>6. ASSUME NEW r \in Calls, RevokeOld(r) PROVE SessionsSound'
  <2>1. \/ call'[r].stale
        \/ call'[r].password = password[call'[r].user] /\ call'[r].user \notin deleted
    BY <1>6, OldRevoked DEF SessionsSound, Opens
  <2> QED BY <1>6, <2>1, OldRevoked, SoundStays
<1>7. ASSUME NEW r \in Calls, ReadOwner(r) PROVE SessionsSound'
  <2>1. \/ call'[r].step \notin {"store", "revoke", "owner"}
        \/ call'[r].stale
        \/ call'[r].password = password[call'[r].user] /\ call'[r].user \notin deleted
    BY <1>7, OwnerRead, LinkStates DEF SessionsSound, Opens
  <2> QED BY <1>7, <2>1, OwnerRead, SoundStays
<1>8. ASSUME NEW r \in Calls, StoreToken(r) PROVE SessionsSound'
  <2>1. PICK n \in Tokens :
          /\ \A t \in Tokens \ {n} : token'[t] = token[t]
          /\ token'[n].user = call[r].user /\ token'[n].password = call[r].password
          /\ token'[n].stale = call[r].stale
    BY <1>8, TokenStored
  <2>2. \/ call[r].stale
        \/ call[r].password = password[call[r].user] /\ call[r].user \notin deleted
    BY <1>8, TokenStored DEF SessionsSound, Opens
  <2>3. ASSUME NEW t \in Tokens, token'[t].state = "live"
        PROVE  \/ token'[t].stale
               \/ token'[t].password = password[token'[t].user] /\ token'[t].user \notin deleted
               \/ /\ Live(t) /\ token'[t].user = token[t].user
                  /\ token'[t].password = token[t].password /\ token'[t].stale = token[t].stale
    BY <2>1, <2>2, <2>3 DEF Live
  <2>4. /\ Others(r, {}) /\ UNCHANGED <<active, password, deleted>>
        /\ call'[r].step \notin {"store", "revoke", "owner"}
    BY <1>8, TokenStored, LinkStates
  <2>5. \A u \in deleted' : u \in Users /\ ~active'[u]
    BY <2>4 DEF SessionsSound
  <2>6. \A v : Untouched(v)
    BY <2>4 DEF Untouched
  <2>7. \A t \in Tokens : token'[t].state = "live" =>
          \/ token'[t].stale
          \/ token'[t].password = password'[token'[t].user] /\ token'[t].user \notin deleted'
          \/ /\ Live(t) /\ Untouched(token[t].user)
             /\ token'[t].user = token[t].user /\ token'[t].password = token[t].password
             /\ token'[t].stale = token[t].stale
    BY <2>3, <2>4, <2>6
  <2> QED BY <2>4, <2>5, <2>6, <2>7, SoundFollows
<1>9. ASSUME NEW r \in Calls, Logout(r) PROVE SessionsSound'
  BY <1>9, LoggedOut, LinkStates, SoundStays
<1>10. ASSUME NEW r \in Calls, ClearLinks(r) PROVE SessionsSound'
  BY <1>10, LinksCleared, SoundStays
<1>11. ASSUME NEW r \in Calls, CreateLink(r) PROVE SessionsSound'
  BY <1>11, LinkCreated, LinkStates, SoundStays
<1>12. ASSUME NEW r \in Calls, ReadLinkOwner(r) PROVE SessionsSound'
  BY <1>12, LinkOwnerRead, SoundStays
<1>13. ASSUME NEW r \in Calls, BurnLink(r) PROVE SessionsSound'
  BY <1>13, LinkBurnt, LinkStates, SoundStays
<1>14. ASSUME NEW r \in Calls, CommitReset(r) PROVE SessionsSound'
  <2> DEFINE u == call[r].user
  <2>1. /\ Others(r, OpeningSession(u) \cup SameLink(call[r].link)) /\ RevokedIn(SessionsOf(u))
        /\ u \in Users /\ password' = [password EXCEPT ![u] = @ + 1]
        /\ UNCHANGED <<active, deleted>> /\ call'[r].step \notin {"store", "revoke", "owner"}
    BY <1>14, ResetCommitted, LinkStates
  <2>2. \A v \in Users \ {u} : password'[v] = password[v]
    BY <2>1 DEF HeldInv, AccountsTypeOK
  <2>3. ASSUME NEW q \in Calls \ {r}, Opens(q)
        PROVE  q \in OpeningSession(u) \cup SameLink(call[r].link) \/ Untouched(call[q].user)
    <3>1. call[q].user \in Users
      BY <2>3, CallFacts DEF Opens, HeldInv
    <3> QED BY <2>1, <2>2, <2>3, <3>1 DEF Opens, OpeningSession, Untouched
  <2>4. ASSUME NEW t \in Tokens, token'[t].state = "live"
        PROVE  /\ Live(t) /\ Untouched(token[t].user)
               /\ token'[t].user = token[t].user /\ token'[t].password = token[t].password
               /\ token'[t].stale = token[t].stale
    <3>1. /\ Live(t) /\ t \notin SessionsOf(u)
          /\ token'[t].user = token[t].user /\ token'[t].password = token[t].password
          /\ token'[t].stale = token[t].stale
      BY <2>1, <2>4, TokensAge
    <3>2. token[t] # NoToken /\ token[t].user \in Users
      BY <3>1, AccountRows DEF Live, HeldInv, AccountsTypeOK, TokenRow
    <3> QED BY <2>1, <2>2, <3>1, <3>2 DEF SessionsOf, Untouched
  <2>5. \A v \in deleted' : v \in Users /\ ~active'[v]
    BY <2>1 DEF SessionsSound
  <2> HIDE DEF u
  <2> QED BY <2>1, <2>3, <2>4, <2>5, SoundFollows
<1>15. ASSUME NEW r \in Calls, EndSessions(r) PROVE SessionsSound'
  <2> DEFINE u == call[r].user
  <2>1. /\ Others(r, OpeningSession(u)) /\ RevokedIn(SessionsOf(u)) /\ u \in Users
        /\ deleted' = IF active[u] THEN deleted ELSE deleted \cup {u}
        /\ UNCHANGED <<active, password>> /\ call'[r].step \notin {"store", "revoke", "owner"}
    BY <1>15, SessionsEnded, LinkStates
  <2>2. ASSUME NEW v, v # u PROVE Untouched(v)
    BY <2>1, <2>2 DEF Untouched
  <2>3. ASSUME NEW q \in Calls \ {r}, Opens(q)
        PROVE  q \in OpeningSession(u) \/ Untouched(call[q].user)
    BY <2>2, <2>3 DEF Opens, OpeningSession
  <2>4. ASSUME NEW t \in Tokens, token'[t].state = "live"
        PROVE  /\ Live(t) /\ Untouched(token[t].user)
               /\ token'[t].user = token[t].user /\ token'[t].password = token[t].password
               /\ token'[t].stale = token[t].stale
    <3>1. /\ Live(t) /\ t \notin SessionsOf(u)
          /\ token'[t].user = token[t].user /\ token'[t].password = token[t].password
          /\ token'[t].stale = token[t].stale
      BY <2>1, <2>4, TokensAge
    <3>2. token[t] # NoToken
      BY <3>1, AccountRows DEF Live
    <3> QED BY <2>2, <3>1, <3>2 DEF SessionsOf
  <2>5. \A v \in deleted' : v \in Users /\ ~active'[v]
    BY <2>1 DEF SessionsSound
  <2> HIDE DEF u
  <2> QED BY <2>1, <2>3, <2>4, <2>5, SoundFollows
<1>16. ASSUME NEW r \in Calls, AbandonCall(r) PROVE SessionsSound'
  BY <1>16, CallAbandoned, LinkStates, SoundStays
<1>17. ASSUME NEW u \in Users, NEW on \in BOOLEAN, SetActive(u, on) PROVE SessionsSound'
  BY <1>17 DEF SetActive, SessionsSound, Opens, Live, HeldInv, AccountsTypeOK
<1>18. ASSUME NEW t \in Tokens, ExpireToken(t) PROVE SessionsSound'
  <2>1. \A v \in Tokens : token'[v].state = "live" =>
          /\ Live(v) /\ token'[v].user = token[v].user /\ token'[v].password = token[v].password
          /\ token'[v].stale = token[v].stale
    BY <1>18, TokenExpired, TokensAge
  <2> QED BY <1>18, <2>1, TokenExpired DEF SessionsSound, Opens, Live
<1>19. ASSUME NEW l \in Links, ExpireLink(l) PROVE SessionsSound'
  BY <1>19, LinkExpired DEF SessionsSound, Opens, Live
<1>20. CASE UNCHANGED accountsVars
  BY <1>20 DEF accountsVars, SessionsSound, Opens, Live
<1> QED BY <1>1, <1>2, <1>3, <1>4, <1>5, <1>6, <1>7, <1>8, <1>9, <1>10, <1>11, <1>12, <1>13,
           <1>14, <1>15, <1>16, <1>17, <1>18, <1>19, <1>20 DEF AccountsNext

-----------------------------------------------------------------------------
(* Reset links: a request that has cleared the links of its user, and was  *)
(* not overtaken, finds none; one that has a link in hand, and was not     *)
(* overtaken, finds it unspent.                                            *)

LinksSound ==
  /\ OneResetLink
  /\ \A q \in Calls : call[q].step = "create" /\ ~call[q].stale =>
       \A l \in Links : link[l].state = "unused" => link[l].user # call[q].user
  /\ \A q \in Calls : call[q].step \in {"link", "burn", "reset"} /\ ~call[q].stale =>
       link[call[q].link].state # "used"

LEMMA LinksFollow ==
  ASSUME HeldInv, LinksSound, NEW r \in Calls, NEW R, Others(r, R),
         \A l \in Links : link'[l].state = "unused" =>
           \/ /\ link[l].state = "unused"
              /\ link'[l].user = link[l].user /\ link'[l].stale = link[l].stale
           \/ /\ \A q \in Calls \ {r} : call[q].step = "create" /\ call[q].user = link'[l].user => q \in R
              /\ \/ link'[l].stale
                 \/ \A m \in Links \ {l} :
                      link'[m].state = "unused" => link'[m].user # link'[l].user,
         \A q \in Calls \ {r} : call[q].step \in {"link", "burn", "reset"} =>
           \/ q \in R
           \/ link'[call[q].link].state = "used" => link[call[q].link].state = "used",
         \/ call'[r].step \notin {"create", "link", "burn", "reset"} \/ call'[r].stale
         \/ /\ call'[r].step = "create"
            /\ \A l \in Links : link'[l].state = "unused" => link'[l].user # call'[r].user
         \/ call'[r].step \in {"link", "burn", "reset"} /\ link'[call'[r].link].state # "used"
  PROVE  LinksSound'
<1>1. ASSUME NEW l \in Links, NEW m \in Links, l # m, link'[l].state = "unused",
             link'[m].state = "unused", link'[l].user = link'[m].user
      PROVE  link'[l].stale \/ link'[m].stale
  <2>1. CASE /\ link[l].state = "unused" /\ link[m].state = "unused"
             /\ link'[l].user = link[l].user /\ link'[l].stale = link[l].stale
             /\ link'[m].user = link[m].user /\ link'[m].stale = link[m].stale
    BY <1>1, <2>1 DEF LinksSound, OneResetLink
  <2> QED BY <1>1, <2>1
<1>2. ASSUME NEW q \in Calls
      PROVE  /\ call'[q].step = "create" /\ ~call'[q].stale =>
                  \A l \in Links : link'[l].state = "unused" => link'[l].user # call'[q].user
             /\ call'[q].step \in {"link", "burn", "reset"} /\ ~call'[q].stale =>
                  link'[call'[q].link].state # "used"
  <2>1. CASE q = r
    BY <2>1
  <2>2. CASE q # r
    <3>1. GoesOn(q, R)
      BY <2>2 DEF Others
    <3>2. CASE call'[q].step = "create" /\ ~call'[q].stale
      <4>1. call[q].step = "create" /\ call'[q].user = call[q].user /\ q \notin R /\ ~call[q].stale
        BY <3>1, <3>2 DEF GoesOn
      <4> QED BY <2>2, <3>2, <4>1 DEF LinksSound
    <3>3. CASE call'[q].step \in {"link", "burn", "reset"} /\ ~call'[q].stale
      <4>1. /\ call[q].step \in {"link", "burn", "reset"} /\ call'[q].link = call[q].link
            /\ q \notin R /\ ~call[q].stale
        BY <3>1, <3>3 DEF GoesOn
      <4> QED BY <2>2, <3>3, <4>1 DEF LinksSound
    <3> QED BY <3>2, <3>3
  <2> QED BY <2>1, <2>2
<1> QED BY <1>1, <1>2 DEF LinksSound, OneResetLink

\* The same for a step that creates no link and spends none.
LEMMA LinksStay ==
  ASSUME HeldInv, LinksSound, NEW r \in Calls, NEW R, Others(r, R),
         \/ link' = link
         \/ LinksChanged /\ \A l \in Links : link[l].state = "used" <=> link'[l].state = "used",
         \/ call'[r].step \notin {"create", "link", "burn", "reset"} \/ call'[r].stale
         \/ /\ call'[r].step = "create"
            /\ \A l \in Links : link'[l].state = "unused" => link'[l].user # call'[r].user
         \/ call'[r].step \in {"link", "burn", "reset"} /\ link'[call'[r].link].state # "used"
  PROVE  LinksSound'
<1>1. \A l \in Links : link'[l].state = "unused" =>
        link[l].state = "unused" /\ link'[l].user = link[l].user /\ link'[l].stale = link[l].stale
  BY AccountRows DEF LinksChanged
<1>2. ASSUME NEW q \in Calls, call[q].step \in {"link", "burn", "reset"}
      PROVE  link'[call[q].link].state = "used" => link[call[q].link].state = "used"
  <2>1. call[q].link \in Links
    BY <1>2, CallFacts DEF HeldInv
  <2> QED BY <2>1
<1> QED BY <1>1, <1>2, LinksFollow

LEMMA LinksStep ==
  ASSUME HeldInv, LinksSound, [AccountsNext]_accountsVars
  PROVE  LinksSound'
<1>1. ASSUME NEW r \in Calls, NEW u \in Users, BeginLogin(r, u) PROVE LinksSound'
  BY <1>1, LoginBegins, LinksStay DEF HeldInv
<1>2. ASSUME NEW r \in Calls, NEW u \in Users, BeginForgot(r, u) PROVE LinksSound'
  BY <1>2, ForgotBegins, LinksStay
<1>3. ASSUME NEW r \in Calls, NEW u \in Users, DeleteUser(r, u) PROVE LinksSound'
  BY <1>3, UserDeleted, LinksStay
<1>4. ASSUME NEW r \in Calls, NEW t \in Tokens, BeginRefresh(r, t) \/ BeginLogout(r, t)
      PROVE  LinksSound'
  BY <1>4, ExchangeBegins, LinksStay DEF HeldInv
<1>5. ASSUME NEW r \in Calls, NEW l \in Links, BeginReset(r, l) PROVE LinksSound'
  <2>1. call'[r].step = "link" /\ call'[r].link = l /\ link'[l].state # "used"
    BY <1>5, ResetBegins
  <2>2. Others(r, {}) /\ link' = link
    BY <1>5, ResetBegins
  <2> QED BY <2>1, <2>2, LinksStay
<1>6. ASSUME NEW r \in Calls, RevokeOld(r) PROVE LinksSound'
  BY <1>6, OldRevoked, LinksStay
<1>7. ASSUME NEW r \in Calls, ReadOwner(r) PROVE LinksSound'
  BY <1>7, OwnerRead, LinkStates, LinksStay
<1>8. ASSUME NEW r \in Calls, StoreToken(r) PROVE LinksSound'
  BY <1>8, TokenStored, LinkStates, LinksStay
<1>9. ASSUME NEW r \in Calls, Logout(r) PROVE LinksSound'
  BY <1>9, LoggedOut, LinkStates, LinksStay
<1>10. ASSUME NEW r \in Calls, ClearLinks(r) PROVE LinksSound'
  <2>1. /\ Others(r, {}) /\ LinksChanged /\ call'[r].step = "create" /\ call'[r].user = call[r].user
        /\ \A l \in Links : link'[l].state = "unused" => link[l].user # call[r].user
        /\ \A l \in Links : link[l].state = "used" <=> link'[l].state = "used"
    BY <1>10, LinksCleared
  <2>2. \A l \in Links : link'[l].state = "unused" => link'[l].user # call'[r].user
    BY <2>1, AccountRows DEF LinksChanged
  <2> QED BY <2>1, <2>2, LinksStay
<1>11. ASSUME NEW r \in Calls, CreateLink(r) PROVE LinksSound'
  <2>1. PICK n \in Links :
          /\ link[n] = NoLink /\ \A l \in Links \ {n} : link'[l] = link[l]
          /\ link'[n] # NoLink /\ link'[n].state = "unused"
          /\ link'[n].user = call[r].user /\ link'[n].stale = call[r].stale
    BY <1>11, LinkCreated
  <2>2. Others(r, Creating(call[r].user)) /\ call'[r].step = "idle" /\ call[r].step = "create"
    BY <1>11, LinkCreated, LinkStates
  <2>3. call[r].stale \/ \A m \in Links \ {n} : link'[m].state = "unused" => link'[m].user # call[r].user
    BY <2>1, <2>2 DEF LinksSound
  <2>4. \A l \in Links : link'[l].state = "unused" =>
          \/ /\ link[l].state = "unused"
             /\ link'[l].user = link[l].user /\ link'[l].stale = link[l].stale
          \/ /\ \A q \in Calls \ {r} : call[q].step = "create" /\ call[q].user = link'[l].user =>
                                         q \in Creating(call[r].user)
             /\ \/ link'[l].stale
                \/ \A m \in Links \ {l} : link'[m].state = "unused" => link'[m].user # link'[l].user
    BY <2>1, <2>3 DEF Creating, CallAt
  <2>5. ASSUME NEW q \in Calls, call[q].step \in {"link", "burn", "reset"}
        PROVE  link'[call[q].link].state = "used" => link[call[q].link].state = "used"
    <3>1. call[q].link \in Links /\ link[call[q].link] # NoLink
      BY <2>5, CallFacts DEF HeldInv, RowsHeld
    <3> QED BY <2>1, <3>1
  <2> QED BY <2>2, <2>4, <2>5, LinksFollow
<1>12. ASSUME NEW r \in Calls, ReadLinkOwner(r) PROVE LinksSound'
  <2>1. call'[r].stale \/ link'[call'[r].link].state # "used"
    BY <1>12, LinkOwnerRead DEF LinksSound
  <2> QED BY <1>12, <2>1, LinkOwnerRead, LinksStay
<1>13. ASSUME NEW r \in Calls, BurnLink(r) \/ CommitReset(r) PROVE LinksSound'
  <2>1. PICK R : /\ Others(r, R) /\ SameLink(call[r].link) \subseteq R
                 /\ LinksChanged /\ call'[r].step = "idle"
                 /\ \A l \in Links \ {call[r].link} : link'[l] = link[l]
    BY <1>13, LinkBurnt, ResetCommitted, LinkStates
  <2>2. \A l \in Links : link'[l].state = "unused" =>
          link[l].state = "unused" /\ link'[l].user = link[l].user /\ link'[l].stale = link[l].stale
    BY <2>1, AccountRows DEF LinksChanged
  <2>3. ASSUME NEW q \in Calls \ {r}, call[q].step \in {"link", "burn", "reset"}
        PROVE  q \in R \/ (link'[call[q].link].state = "used" => link[call[q].link].state = "used")
    <3>1. call[q].link \in Links
      BY <2>3, CallFacts DEF HeldInv
    <3> QED BY <2>1, <2>3, <3>1 DEF SameLink
  <2> QED BY <2>1, <2>2, <2>3, LinksFollow
<1>14. ASSUME NEW r \in Calls, EndSessions(r) PROVE LinksSound'
  BY <1>14, SessionsEnded, LinkStates, LinksStay
<1>15. ASSUME NEW r \in Calls, AbandonCall(r) PROVE LinksSound'
  BY <1>15, CallAbandoned, LinkStates, LinksStay
<1>16. ASSUME UNCHANGED call, link' = link \/ \E l \in Links : ExpireLink(l) PROVE LinksSound'
  <2>1. /\ \A m \in Links : link'[m].state = "unused" =>
             /\ link[m].state = "unused"
             /\ link'[m].user = link[m].user /\ link'[m].stale = link[m].stale
        /\ \A m \in Links : link[m].state = "used" <=> link'[m].state = "used"
    BY <1>16, LinkExpired, AccountRows DEF LinksChanged
  <2>2. \A q \in Calls : call[q].step \in {"link", "burn", "reset"} => call[q].link \in Links
    BY CallFacts DEF HeldInv
  <2> QED BY <1>16, <2>1, <2>2 DEF LinksSound, OneResetLink
<1>17. ASSUME NEW u \in Users, NEW on \in BOOLEAN, SetActive(u, on) PROVE LinksSound'
  BY <1>16, <1>17, ActiveSet
<1>18. ASSUME NEW t \in Tokens, ExpireToken(t) PROVE LinksSound'
  BY <1>16, <1>18, TokenExpired
<1>19. ASSUME NEW l \in Links, ExpireLink(l) PROVE LinksSound'
  BY <1>16, <1>19, LinkExpired
<1>20. CASE UNCHANGED accountsVars
  BY <1>16, <1>20 DEF accountsVars
<1> QED BY <1>1, <1>2, <1>3, <1>4, <1>5, <1>6, <1>7, <1>8, <1>9, <1>10, <1>11, <1>12, <1>13,
           <1>14, <1>15, <1>17, <1>18, <1>19, <1>20 DEF AccountsNext

-----------------------------------------------------------------------------
(* Rotation: the successors of a token, stored or on their way, exist only *)
(* once it is dead, and a request that is about to revoke it, and was not  *)
(* overtaken, finds none.                                                  *)

Successor(q) == call[q].step \in {"owner", "store"} /\ call[q].parent # 0

NoSuccessorOf(p) ==
  /\ \A t \in Tokens : Stored(t) => token[t].parent # p
  /\ \A c \in Calls : Successor(c) => call[c].parent # p

RotationSound ==
  /\ RotatesOnce
  /\ \A q \in Calls : Successor(q) => ~Live(call[q].parent)
  /\ \A q \in Calls : call[q].step = "revoke" /\ ~call[q].stale => NoSuccessorOf(call[q].parent)
  /\ \A t \in Tokens, c \in Calls :
       Stored(t) /\ Successor(c) /\ token[t].parent = call[c].parent => token[t].stale \/ call[c].stale
  /\ \A c, d \in Calls :
       c # d /\ Successor(c) /\ Successor(d) /\ call[c].parent = call[d].parent =>
         call[c].stale \/ call[d].stale

\* Tokens that only age.
Aging == token' = token \/ \E S : RevokedIn(S)

LEMMA AgingLeaves ==
  ASSUME HeldInv, Aging
  PROVE  /\ \A t \in Tokens : token'[t].state = "live" => token[t].state = "live"
         /\ \A t \in Tokens : token'[t] # NoToken =>
              token[t] # NoToken /\ token'[t].parent = token[t].parent /\ token'[t].stale = token[t].stale
  BY DEF Aging, RevokedIn, Stored, Live

\* A successor that is new after the step has the parent of one that went
\* before it, or the first of a token just revoked.
LEMMA RotationFollows ==
  ASSUME HeldInv, RotationSound, NEW r \in Calls, NEW R, Others(r, R), Aging,
         call'[r].step \in {"owner", "store"} /\ call'[r].parent # 0 =>
           \/ /\ Successor(r)
              /\ call'[r].parent = call[r].parent /\ call'[r].stale = call[r].stale
           \/ /\ call'[r].parent \in Tokens /\ token'[call'[r].parent].state # "live"
              /\ \A q \in Calls \ {r} :
                   call[q].step = "revoke" /\ call[q].parent = call'[r].parent => q \in R
              /\ call'[r].stale \/ NoSuccessorOf(call'[r].parent),
         call'[r].step = "revoke" /\ ~call'[r].stale => NoSuccessorOf(call'[r].parent)
  PROVE  RotationSound'
<1> DEFINE Went(q) == Successor(q) /\ call'[q].parent = call[q].parent
                        /\ (call[q].stale => call'[q].stale)
           Due(q) == call'[q].step \in {"owner", "store"} /\ call'[q].parent # 0
           Fresh == /\ token'[call'[r].parent].state # "live"
                    /\ \A q \in Calls \ {r} :
                         call[q].step = "revoke" /\ call[q].parent = call'[r].parent => q \in R
                    /\ call'[r].stale \/ NoSuccessorOf(call'[r].parent)
<1>1. ASSUME NEW q \in Calls, Due(q)
      PROVE  Went(q) \/ (q = r /\ Fresh)
  <2>1. CASE q = r
    BY <1>1, <2>1
  <2>2. CASE q # r
    <3>1. GoesOn(q, R)
      BY <2>2 DEF Others
    <3> QED BY <1>1, <3>1 DEF GoesOn, Successor
  <2> QED BY <2>1, <2>2
<1>2. /\ \A t \in Tokens : token'[t].state = "live" => token[t].state = "live"
      /\ \A t \in Tokens : token'[t] # NoToken =>
           token[t] # NoToken /\ token'[t].parent = token[t].parent /\ token'[t].stale = token[t].stale
  BY AgingLeaves
<1>3. \A q \in Calls : Due(q) => call'[q].parent \in Tokens
  <2>1. ASSUME NEW q \in Calls, Successor(q) PROVE call[q].parent \in Tokens
    BY <2>1, CallFacts DEF Successor, HeldInv, RowsHeld
  <2>2. Due(r) => call'[r].parent \in Tokens
    BY <2>1
  <2>3. ASSUME NEW q \in Calls, q # r, Due(q) PROVE call'[q].parent \in Tokens
    BY <1>1, <2>1, <2>3
  <2> QED BY <2>2, <2>3
<1>4. \A q \in Calls : Due(q) => token'[call'[q].parent].state # "live"
  <2>1. ASSUME NEW q \in Calls, Due(q), Went(q) PROVE token'[call'[q].parent].state # "live"
    BY <1>2, <1>3, <2>1 DEF RotationSound, Live
  <2> QED BY <1>1, <2>1
<1>5. ASSUME NEW q \in Calls, call'[q].step = "revoke", ~call'[q].stale
      PROVE  NoSuccessorOf(call'[q].parent)
             /\ (q = r \/ \A c \in Calls : Due(c) => call'[c].parent # call'[q].parent)
  <2>1. CASE q = r
    BY <1>5, <2>1
  <2>2. CASE q # r
    <3>1. GoesOn(q, R)
      BY <2>2 DEF Others
    <3>2. call[q].step = "revoke" /\ ~call[q].stale /\ q \notin R /\ call'[q].parent = call[q].parent
      BY <1>5, <3>1 DEF GoesOn
    <3>3. NoSuccessorOf(call[q].parent)
      BY <3>2 DEF RotationSound
    <3>4. ASSUME NEW c \in Calls, Due(c) PROVE call'[c].parent # call[q].parent
      BY <1>1, <2>2, <3>2, <3>3, <3>4 DEF NoSuccessorOf
    <3> QED BY <3>2, <3>3, <3>4
  <2> QED BY <2>1, <2>2
<1>6. ASSUME NEW q \in Calls, call'[q].step = "revoke", ~call'[q].stale
      PROVE  /\ \A t \in Tokens : token'[t] # NoToken => token'[t].parent # call'[q].parent
             /\ \A c \in Calls : Due(c) => call'[c].parent # call'[q].parent
  <2>1. \A t \in Tokens : token'[t] # NoToken => token'[t].parent # call'[q].parent
    BY <1>2, <1>5, <1>6 DEF NoSuccessorOf, Stored
  <2>2. ASSUME NEW c \in Calls, Due(c) PROVE call'[c].parent # call'[q].parent
    <3>1. CASE q # r
      BY <1>5, <1>6, <2>2, <3>1
    <3>2. CASE q = r
      <4>1. c # r
        BY <1>6, <2>2, <3>2
      <4> QED BY <1>1, <1>5, <1>6, <2>2, <4>1 DEF NoSuccessorOf
    <3> QED BY <3>1, <3>2
  <2> QED BY <2>1, <2>2
<1>7. ASSUME NEW t \in Tokens, NEW c \in Calls, token'[t] # NoToken, Due(c),
             token'[t].parent = call'[c].parent
      PROVE  token'[t].stale \/ call'[c].stale
  <2>1. CASE Went(c)
    BY <1>2, <1>7, <2>1 DEF RotationSound, Stored
  <2>2. CASE c = r /\ Fresh
    BY <1>2, <1>7, <2>2 DEF NoSuccessorOf, Stored
  <2> QED BY <1>1, <1>7, <2>1, <2>2
<1>8. ASSUME NEW c \in Calls, NEW d \in Calls, c # d, Due(c), Due(d),
             call'[c].parent = call'[d].parent
      PROVE  call'[c].stale \/ call'[d].stale
  <2>1. CASE Went(c) /\ Went(d)
    BY <1>8, <2>1 DEF RotationSound
  <2>2. CASE c = r /\ Fresh /\ Went(d)
    BY <1>8, <2>2 DEF NoSuccessorOf
  <2>3. CASE Went(c) /\ d = r /\ Fresh
    BY <1>8, <2>3 DEF NoSuccessorOf
  <2> QED BY <1>1, <1>8, <2>1, <2>2, <2>3
<1>9. ASSUME NEW t \in Tokens, NEW u \in Tokens, token'[t] # NoToken, token'[u] # NoToken,
             token'[t].parent # 0
      PROVE  /\ token'[token'[t].parent].state # "live"
             /\ t # u /\ token'[t].parent = token'[u].parent => token'[t].stale \/ token'[u].stale
  <2>1. /\ token[t] # NoToken /\ token'[t].parent = token[t].parent /\ token'[t].stale = token[t].stale
        /\ token[u] # NoToken /\ token'[u].parent = token[u].parent /\ token'[u].stale = token[u].stale
    BY <1>2, <1>9
  <2>2. token[t].parent \in Tokens
    BY <1>9, <2>1 DEF HeldInv, RowsHeld, Stored
  <2>3. token[token[t].parent].state # "live"
    BY <1>9, <2>1 DEF RotationSound, RotatesOnce, Stored, Live
  <2> QED BY <1>2, <1>9, <2>1, <2>2, <2>3 DEF RotationSound, RotatesOnce, Stored
<1> QED BY <1>4, <1>6, <1>7, <1>8, <1>9
        DEF RotationSound, RotatesOnce, NoSuccessorOf, Successor, Stored, Live

\* The same for a step after which r is on no way to a token.
LEMMA RotationStays ==
  ASSUME HeldInv, RotationSound, NEW r \in Calls, NEW R, Others(r, R), Aging,
         \/ call'[r].step \notin {"revoke", "owner", "store"}
         \/ call'[r].step = "store" /\ call'[r].parent = 0
  PROVE  RotationSound'
  BY RotationFollows

LEMMA RotationStep ==
  ASSUME HeldInv, RotationSound, [AccountsNext]_accountsVars
  PROVE  RotationSound'
<1>1. ASSUME NEW r \in Calls, NEW u \in Users, BeginLogin(r, u) PROVE RotationSound'
  <2>1. Others(r, {}) /\ token' = token /\ call'[r].step = "store" /\ call'[r].parent = 0
    BY <1>1, LoginBegins DEF HeldInv
  <2> QED BY <2>1, RotationStays DEF Aging
<1>2. ASSUME NEW r \in Calls, NEW u \in Users, BeginForgot(r, u) PROVE RotationSound'
  BY <1>2, ForgotBegins, RotationStays DEF Aging
<1>3. ASSUME NEW r \in Calls, NEW u \in Users, DeleteUser(r, u) PROVE RotationSound'
  BY <1>3, UserDeleted, RotationStays DEF Aging
<1>4. ASSUME NEW r \in Calls, NEW t \in Tokens, BeginRefresh(r, t) \/ BeginLogout(r, t)
      PROVE  RotationSound'
  <2>1. /\ Others(r, {}) /\ token' = token /\ Live(t) /\ call'[r].parent = t
        /\ call'[r].step \in {"revoke", "logout"}
    BY <1>4, ExchangeBegins DEF HeldInv
  <2>2. t # 0
    BY Bounds DEF Tokens
  <2>3. NoSuccessorOf(t)
    BY <2>1, <2>2 DEF RotationSound, RotatesOnce, NoSuccessorOf
  <2> QED BY <2>1, <2>3, RotationFollows DEF Aging
<1>5. ASSUME NEW r \in Calls, NEW l \in Links, BeginReset(r, l) PROVE RotationSound'
  BY <1>5, ResetBegins, RotationStays DEF Aging
<1>6. ASSUME NEW r \in Calls, RevokeOld(r) PROVE RotationSound'
  <2>1. /\ Others(r, SameToken(r)) /\ RevokedIn({call[r].parent}) /\ call[r].step = "revoke"
        /\ call'[r].step = "owner" /\ call'[r].parent = call[r].parent
        /\ call'[r].stale = call[r].stale /\ call[r].parent \in Tokens
    BY <1>6, OldRevoked
  <2>2. token'[call'[r].parent].state # "live"
    BY <2>1 DEF RevokedIn, Live
  <2>3. \A q \in Calls \ {r} :
          call[q].step = "revoke" /\ call[q].parent = call'[r].parent => q \in SameToken(r)
    BY <2>1 DEF SameToken
  <2>4. call'[r].stale \/ NoSuccessorOf(call'[r].parent)
    BY <2>1 DEF RotationSound
  <2> QED BY <2>1, <2>2, <2>3, <2>4, RotationFollows DEF Aging
<1>7. ASSUME NEW r \in Calls, ReadOwner(r) PROVE RotationSound'
  <2>1. /\ Others(r, {}) /\ token' = token /\ call[r].step = "owner"
        /\ \/ call'[r].step = "idle"
           \/ /\ call'[r].step = "store" /\ call'[r].parent = call[r].parent
              /\ call'[r].stale = call[r].stale
    BY <1>7, OwnerRead, LinkStates
  <2> QED BY <2>1, RotationFollows DEF Aging, Successor
<1>8. ASSUME NEW r \in Calls, StoreToken(r) PROVE RotationSound'
  <2>1. PICK n \in Tokens :
          /\ ~Stored(n) /\ \A t \in Tokens \ {n} : token'[t] = token[t]
          /\ Stored(n)' /\ token'[n].parent = call[r].parent /\ token'[n].stale = call[r].stale
    BY <1>8, TokenStored
  <2>2. Others(r, {}) /\ call[r].step = "store" /\ call'[r].step = "idle"
    BY <1>8, TokenStored, LinkStates
  <2>3. ASSUME NEW q \in Calls \ {r}
        PROVE  /\ call'[q].step = call[q].step
               /\ call[q].step \in {"owner", "store", "revoke"} =>
                    call'[q].parent = call[q].parent /\ (call'[q].stale <=> call[q].stale)
    BY <2>2 DEF Others, GoesOn
  <2>4. \A q \in Calls : call[q].step \in {"revoke", "owner"} => call[q].parent \in Tokens \ {n}
    BY <2>1, CallFacts DEF HeldInv, RowsHeld
  <2>5. \A q \in Calls : Successor(q) => call[q].parent \in Tokens \ {n}
    BY <2>1, <2>4 DEF Successor, HeldInv, RowsHeld
  <2>6. \A t \in Tokens \ {n} : token[t] # NoToken /\ token[t].parent # 0 =>
          token[t].parent \in Tokens \ {n} /\ token[token[t].parent].state # "live"
    BY <2>1 DEF HeldInv, RowsHeld, RotationSound, RotatesOnce, Stored, Live
  <2>7. \A q \in Calls : Successor(q) => token'[call[q].parent].state # "live"
    BY <2>1, <2>5 DEF RotationSound, Live
  <2>8. ASSUME NEW t \in Tokens, token'[t] # NoToken, token'[t].parent # 0
        PROVE  token'[token'[t].parent].state # "live"
    <3>1. CASE t = n
      BY <2>1, <2>2, <2>7, <2>8, <3>1 DEF Successor
    <3>2. CASE t # n
      BY <2>1, <2>6, <2>8, <3>2
    <3> QED BY <3>1, <3>2
  <2>9. ASSUME NEW t \in Tokens, NEW u \in Tokens, t # u, token'[t] # NoToken, token'[u] # NoToken,
               token'[t].parent # 0, token'[t].parent = token'[u].parent
        PROVE  token'[t].stale \/ token'[u].stale
    <3>1. CASE t # n /\ u # n
      BY <2>1, <2>9, <3>1 DEF RotationSound, RotatesOnce, Stored
    <3>2. CASE t = n
      BY <2>1, <2>2, <2>9, <3>2 DEF RotationSound, Successor, Stored
    <3>3. CASE u = n
      BY <2>1, <2>2, <2>9, <3>3 DEF RotationSound, Successor, Stored
    <3> QED BY <3>1, <3>2, <3>3
  <2>10. ASSUME NEW q \in Calls, call'[q].step = "revoke", ~call'[q].stale
         PROVE  /\ \A t \in Tokens : token'[t] # NoToken => token'[t].parent # call'[q].parent
                /\ \A c \in Calls : call'[c].step \in {"owner", "store"} /\ call'[c].parent # 0 =>
                     call'[c].parent # call'[q].parent
    <3>1. /\ q # r /\ call[q].step = "revoke" /\ ~call[q].stale /\ call'[q].parent = call[q].parent
          /\ call[q].parent # 0
      <4>1. q # r
        BY <2>2, <2>10
      <4>2. call[q].step = "revoke" /\ ~call[q].stale /\ call'[q].parent = call[q].parent
        BY <2>3, <2>10, <4>1
      <4> QED BY <2>4, <4>1, <4>2, Bounds DEF Tokens
    <3>2. NoSuccessorOf(call[q].parent)
      BY <3>1 DEF RotationSound
    <3>3. \A t \in Tokens : token'[t] # NoToken => token'[t].parent # call[q].parent
      BY <2>1, <2>2, <3>1, <3>2 DEF NoSuccessorOf, Successor, Stored
    <3>4. \A c \in Calls : call'[c].step \in {"owner", "store"} /\ call'[c].parent # 0 =>
            call'[c].parent # call[q].parent
      BY <2>2, <2>3, <3>2 DEF NoSuccessorOf, Successor
    <3> QED BY <3>1, <3>3, <3>4
  <2>11. ASSUME NEW t \in Tokens, NEW c \in Calls, token'[t] # NoToken,
                call'[c].step \in {"owner", "store"}, call'[c].parent # 0,
                token'[t].parent = call'[c].parent
         PROVE  token'[t].stale \/ call'[c].stale
    <3>1. c # r /\ Successor(c) /\ call'[c].parent = call[c].parent /\ (call'[c].stale <=> call[c].stale)
      BY <2>2, <2>3, <2>11 DEF Successor
    <3>2. CASE t # n
      BY <2>1, <2>11, <3>1, <3>2 DEF RotationSound, Stored
    <3>3. CASE t = n
      BY <2>1, <2>2, <2>11, <3>1, <3>3 DEF RotationSound, Successor
    <3> QED BY <3>2, <3>3
  <2>12. ASSUME NEW c \in Calls, NEW d \in Calls, c # d,
                call'[c].step \in {"owner", "store"}, call'[c].parent # 0,
                call'[d].step \in {"owner", "store"}, call'[d].parent # 0,
                call'[c].parent = call'[d].parent
         PROVE  call'[c].stale \/ call'[d].stale
    BY <2>2, <2>3, <2>12 DEF RotationSound, Successor
  <2>13. ASSUME NEW c \in Calls, call'[c].step \in {"owner", "store"}, call'[c].parent # 0
         PROVE  token'[call'[c].parent].state # "live"
    BY <2>2, <2>3, <2>7, <2>13 DEF Successor
  <2> QED BY <2>8, <2>9, <2>10, <2>11, <2>12, <2>13
          DEF RotationSound, RotatesOnce, NoSuccessorOf, Successor, Stored, Live
<1>9. ASSUME NEW r \in Calls, Logout(r) PROVE RotationSound'
  BY <1>9, LoggedOut, LinkStates, RotationStays DEF Aging
<1>10. ASSUME NEW r \in Calls, ClearLinks(r) PROVE RotationSound'
  BY <1>10, LinksCleared, RotationStays DEF Aging
<1>11. ASSUME NEW r \in Calls, CreateLink(r) PROVE RotationSound'
  BY <1>11, LinkCreated, LinkStates, RotationStays DEF Aging
<1>12. ASSUME NEW r \in Calls, ReadLinkOwner(r) PROVE RotationSound'
  BY <1>12, LinkOwnerRead, RotationStays DEF Aging
<1>13. ASSUME NEW r \in Calls, BurnLink(r) PROVE RotationSound'
  BY <1>13, LinkBurnt, LinkStates, RotationStays DEF Aging
<1>14. ASSUME NEW r \in Calls, CommitReset(r) PROVE RotationSound'
  BY <1>14, ResetCommitted, LinkStates, RotationStays DEF Aging
<1>15. ASSUME NEW r \in Calls, EndSessions(r) PROVE RotationSound'
  BY <1>15, SessionsEnded, LinkStates, RotationStays DEF Aging
<1>16. ASSUME NEW r \in Calls, AbandonCall(r) PROVE RotationSound'
  BY <1>16, CallAbandoned, LinkStates, RotationStays DEF Aging
<1>17. ASSUME UNCHANGED call, Aging PROVE RotationSound'
  <2>1. /\ \A t \in Tokens : token'[t].state = "live" => token[t].state = "live"
        /\ \A t \in Tokens : token'[t] # NoToken =>
             token[t] # NoToken /\ token'[t].parent = token[t].parent /\ token'[t].stale = token[t].stale
    BY <1>17, AgingLeaves
  <2>2. /\ \A q \in Calls : Successor(q) => call[q].parent \in Tokens
        /\ \A t \in Tokens : Stored(t) /\ token[t].parent # 0 => token[t].parent \in Tokens
    BY CallFacts DEF HeldInv, RowsHeld, Successor
  <2> QED BY <1>17, <2>1, <2>2 DEF RotationSound, RotatesOnce, NoSuccessorOf, Successor, Stored, Live
<1>18. ASSUME NEW u \in Users, NEW on \in BOOLEAN, SetActive(u, on) PROVE RotationSound'
  BY <1>17, <1>18, ActiveSet DEF Aging
<1>19. ASSUME NEW t \in Tokens, ExpireToken(t) PROVE RotationSound'
  BY <1>17, <1>19, TokenExpired DEF Aging
<1>20. ASSUME NEW l \in Links, ExpireLink(l) PROVE RotationSound'
  BY <1>17, <1>20, LinkExpired DEF Aging
<1>21. CASE UNCHANGED accountsVars
  BY <1>17, <1>21 DEF Aging, accountsVars
<1> QED BY <1>1, <1>2, <1>3, <1>4, <1>5, <1>6, <1>7, <1>8, <1>9, <1>10, <1>11, <1>12, <1>13,
           <1>14, <1>15, <1>16, <1>18, <1>19, <1>20, <1>21 DEF AccountsNext

-----------------------------------------------------------------------------
(* What the sessions of users promise. *)

AccountsInv == HeldInv /\ SessionsSound /\ LinksSound /\ RotationSound

LEMMA AccountsInvariant == AccountsSpec => []AccountsInv
<1>1. AccountsInit => AccountsInv
  <2> SUFFICES ASSUME AccountsInit PROVE AccountsInv
    OBVIOUS
  <2>1. /\ \A q \in Calls : call[q] = NoCall /\ call[q].step = "idle"
        /\ \A t \in Tokens : token[t] = NoToken /\ token[t].state = "none"
        /\ \A l \in Links : link[l] = NoLink /\ link[l].state = "none"
    BY AccountRows, LinkStates DEF AccountsInit
  <2>2. AccountsTypeOK
    BY LinkStates DEF AccountsInit, AccountsTypeOK
  <2>3. HeldInv
    BY <2>1, <2>2 DEF HeldInv, RowsHeld, Stored
  <2>4. SessionsSound
    BY <2>1 DEF SessionsSound, Opens, Live, AccountsInit
  <2>5. LinksSound
    BY <2>1 DEF LinksSound, OneResetLink
  <2>6. RotationSound
    BY <2>1 DEF RotationSound, RotatesOnce, Successor, Stored, Live
  <2> QED BY <2>3, <2>4, <2>5, <2>6 DEF AccountsInv
<1>2. AccountsInv /\ [AccountsNext]_accountsVars => AccountsInv'
  BY HeldStep, SoundStep, LinksStep, RotationStep DEF AccountsInv
<1> QED BY <1>1, <1>2, PTL DEF AccountsSpec

\* The state of sessions and of the requests on their way has the types the
\* module declares.
THEOREM AccountsTypeCorrect == AccountsSpec => []AccountsTypeOK
<1>1. AccountsInv => AccountsTypeOK
  BY DEF AccountsInv, HeldInv
<1> QED BY <1>1, AccountsInvariant, PTL

\* resetPassword revokes the sessions of the user in the transaction that
\* sets the password: whatever the requests in flight do, a session that goes
\* on was opened with the password that is set, or by a request overtaken.
THEOREM ResetAlwaysEndsSessions == AccountsSpec => []ResetEndsSessions
<1>1. AccountsInv => ResetEndsSessions
  BY DEF AccountsInv, SessionsSound, ResetEndsSessions
<1> QED BY <1>1, AccountsInvariant, PTL

\* deleteUserById ends the sessions after it has locked the account: no
\* session of a deleted user goes on but one of a request overtaken.
THEOREM DeletedNeverHasSession == AccountsSpec => []DeletedHasNoSession
<1>1. AccountsInv => DeletedHasNoSession
  BY DEF AccountsInv, SessionsSound, DeletedHasNoSession
<1> QED BY <1>1, AccountsInvariant, PTL

\* forgotPassword deletes the unused links before it stores one: two
\* of them work at once only when two requests overlapped.
THEOREM OneLinkWorks == AccountsSpec => []OneResetLink
<1>1. AccountsInv => OneResetLink
  BY DEF AccountsInv, LinksSound
<1> QED BY <1>1, AccountsInvariant, PTL

\* refreshAuthTokens revokes the token presented before it stores another: a
\* token with a successor is dead, and it has a second successor only through
\* a request that validated it before it was revoked.
THEOREM TokensRotateOnce == AccountsSpec => []RotatesOnce
<1>1. AccountsInv => RotatesOnce
  BY DEF AccountsInv, RotationSound
<1> QED BY <1>1, AccountsInvariant, PTL

\* The password changes only in a reset whose link is there, and one that
\* was not overtaken finds it unspent.
LEMMA SpendingStep ==
  ASSUME AccountsInv, [AccountsNext]_accountsVars, NEW r \in Calls, CallAt(r, "reset"),
         password' # password, call'[r] = NoCall, ~call[r].stale
  PROVE  link[call[r].link].state \in {"unused", "expired"}
<1>1. PICK q \in Calls : CommitReset(q)
  BY DEF AccountsNext, accountsVars, BeginLogin, BeginForgot, DeleteUser, BeginRefresh, BeginLogout,
         BeginReset, RevokeOld, ReadOwner, StoreToken, Logout, ClearLinks, CreateLink, ReadLinkOwner,
         BurnLink, EndSessions, AbandonCall, SetActive, ExpireToken, ExpireLink
<1>2. Exists(call[q].link) /\ Others(q, OpeningSession(call[q].user) \cup SameLink(call[q].link))
  BY <1>1, ResetCommitted DEF AccountsInv
<1>3. q = r
  BY <1>2, LinkStates DEF Others, GoesOn, CallAt
<1>4. call[r].link \in Links /\ link[call[r].link] # NoLink /\ link[call[r].link].state # "used"
  BY CallFacts DEF AccountsInv, HeldInv, RowsHeld, LinksSound, CallAt
<1>5. link[call[r].link] \in LinkRow
  BY <1>4 DEF AccountsInv, HeldInv, AccountsTypeOK
<1> QED BY <1>2, <1>3, <1>4, <1>5 DEF Exists, LinkRow

\* A reset link sets the password once, whatever the requests in flight do.
THEOREM LinkAlwaysSpentOnce == AccountsSpec => LinkSpentOnce
<1> DEFINE Once == \A r \in Calls :
             CallAt(r, "reset") /\ password' # password /\ call'[r] = NoCall /\ ~call[r].stale
               => link[call[r].link].state \in {"unused", "expired"}
<1>1. AccountsInv /\ [AccountsNext]_accountsVars => [Once]_accountsVars
  BY SpendingStep
<1>2. AccountsSpec => [][Once]_accountsVars
  BY <1>1, AccountsInvariant, PTL DEF AccountsSpec
<1> QED BY <1>2 DEF LinkSpentOnce
=============================================================================
