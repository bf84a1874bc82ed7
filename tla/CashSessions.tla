----------------------------- MODULE CashSessions -----------------------------
(***************************************************************************)
(* The cash sessions of the tills, pos.service.ts, and the entries that    *)
(* sales, pay-ins, pay-outs and refunds leave in them.                     *)
(*                                                                         *)
(* Nothing is locked: every request looks the session up, and writes its   *)
(* entry or its status, by id alone, in a later statement. An entry needs  *)
(* the session to exist, not to be open, at the moment it is inserted.     *)
(* A status never returns to OPEN, so the first look of a checkout at the  *)
(* session is implied by the second one and is not a step of its own.      *)
(* The cash counted at the end is an input, and the difference is computed *)
(* from it in the same update: both are left out. Stock is in Sales.       *)
(***************************************************************************)
EXTENDS Integers, FiniteSetsExt

CONSTANTS
  Seats,            \* the user, terminal and location a session is opened for
  Sessions,         \* session ids
  Requests,         \* requests in flight at the same time
  Amounts,          \* amounts of money
  MaxCash           \* bound: what the entries of all sessions add up to

ASSUME CashAssumption == Amounts \subseteq Nat /\ MaxCash \in Nat

VARIABLES
  session,          \* PosSession rows
  summary,          \* PosSessionTransaction: the total of each type of entry
  request,          \* what each request in flight has read and decided
  stale,            \* history: sessions started or written on a superseded read
  late              \* history: sessions with an entry their last count missed

vars == <<session, summary, request, stale, late>>

-----------------------------------------------------------------------------

Status == {"OPEN", "CLOSED", "RECONCILED"}

\* STARTING_FLOAT is a PAY_IN whose notes say 'Starting float'. OTHER_SALE
\* stands for every payment that is not in cash.
CashIn == {"PAY_IN", "CASH_SALE"}
CashOut == {"PAY_OUT", "CASH_REFUND"}
Kinds == CashIn \cup CashOut \cup {"STARTING_FLOAT", "OTHER_SALE"}
Entries == [Kinds -> Nat]

SessionRow == [status : Status, seat : Seats, starting : Nat, calculated : Int]
NoSession == [status |-> "NONE"]

Updated(row, status, calculated) ==
  [status |-> status, seat |-> row.seat, starting |-> row.starting, calculated |-> calculated]

Idle == [kind |-> "idle"]
RequestState ==
  {Idle}
    \cup [kind : {"start"}, seat : Seats, starting : Nat, seen : SUBSET Sessions]
    \cup [kind : {"entry"}, id : Sessions, entries : Entries]
    \cup [kind : {"ending"}, id : Sessions, seen : Status]
    \cup [kind : {"counted"}, id : Sessions, seen : Status, entries : Entries]
    \cup [kind : {"reconcile"}, id : Sessions, seen : Status]

TypeOK ==
  /\ session \in [Sessions -> SessionRow \cup {NoSession}]
  /\ summary \in [Sessions -> Entries]
  /\ request \in [Requests -> RequestState]
  /\ stale \in SUBSET Sessions
  /\ late \in SUBSET Sessions

Nothing == [k \in Kinds |-> 0]

\* An entry; its amount is positive, its type tells the direction.
Only(kind, amount) == [k \in Kinds |-> IF k = kind THEN amount ELSE 0]

Init ==
  /\ session = [s \in Sessions |-> NoSession]
  /\ summary = [s \in Sessions |-> Nothing]
  /\ request = [r \in Requests |-> Idle]
  /\ stale = {}
  /\ late = {}

-----------------------------------------------------------------------------
(* Opening. *)

Open(s) == session[s].status = "OPEN"
OpenAt(seat) == {s \in Sessions : Open(s) /\ session[s].seat = seat}

\* Mutant: a seat may hold a second session.
StartableTwice(seat) == Cardinality(OpenAt(seat)) < 2

Startable(seat) == OpenAt(seat) = {}

BeginStart(r, seat, starting) ==
  /\ request[r] = Idle
  /\ Startable(seat)
  /\ request' = [request EXCEPT ![r] =
       [kind |-> "start", seat |-> seat, starting |-> starting, seen |-> OpenAt(seat)]]
  /\ UNCHANGED <<session, summary, stale, late>>

\* History only: the session was started, or written, on a superseded read.
NoteStale(s, superseded) ==
  stale' = IF superseded THEN stale \cup {s} ELSE stale

CommitStart(r, s) ==
  LET new == request[r]
  IN  /\ new.kind = "start"
      /\ session[s] = NoSession
      /\ session' = [session EXCEPT ![s] =
           [status |-> "OPEN", seat |-> new.seat, starting |-> new.starting, calculated |-> 0]]
      /\ summary' = [summary EXCEPT ![s] = Only("STARTING_FLOAT", new.starting)]
      /\ request' = [request EXCEPT ![r] = Idle]
      /\ NoteStale(s, OpenAt(new.seat) # new.seen)
      /\ UNCHANGED late

-----------------------------------------------------------------------------
(* Entries. *)

Plus(entries, more) == [k \in Kinds |-> entries[k] + more[k]]
Sum(entries) == MapThenSumSet(LAMBDA k : entries[k], Kinds)

InFlight(s, kind) == {r \in Requests : request[r].kind = kind /\ request[r].id = s}

\* What the sessions hold and what is on its way to them stay within the bound.
WithinBound(more) ==
  Sum(more) + MapThenSumSet(LAMBDA s : Sum(summary[s]), Sessions)
    + MapThenSumSet(LAMBDA r : IF request[r].kind = "entry" THEN Sum(request[r].entries) ELSE 0,
                    Requests) <= MaxCash

TakesEntries(s) == Open(s)

\* A sale paid in cash, by other means or both. When a seat has two open
\* sessions the lookup returns either, and the request may name that one.
BeginCheckout(r, s, cash, other) ==
  LET entries == Plus(Only("CASH_SALE", cash), Only("OTHER_SALE", other))
  IN  /\ request[r] = Idle
      /\ TakesEntries(s)
      /\ cash + other > 0
      /\ WithinBound(entries)
      /\ request' = [request EXCEPT ![r] =
           [kind |-> "entry", id |-> s, entries |-> entries]]
      /\ UNCHANGED <<session, summary, stale, late>>

\* recordCashTransaction; the notes of a pay-in are free text.
BeginCash(r, s, kind, amount) ==
  /\ request[r] = Idle
  /\ kind \in {"PAY_IN", "PAY_OUT", "STARTING_FLOAT"}
  /\ amount > 0
  /\ Open(s)
  /\ WithinBound(Only(kind, amount))
  /\ request' = [request EXCEPT ![r] =
       [kind |-> "entry", id |-> s, entries |-> Only(kind, amount)]]
  /\ UNCHANGED <<session, summary, stale, late>>

\* History only: an entry reaches a session that has been counted.
NoteLate(s, missed) == late' = IF missed THEN late \cup {s} ELSE late

CommitEntry(r) ==
  LET s == request[r].id
  IN  /\ request[r].kind = "entry"
      /\ summary' = [summary EXCEPT ![s] = Plus(@, request[r].entries)]
      /\ request' = [request EXCEPT ![r] = Idle]
      /\ NoteLate(s, ~ Open(s))
      /\ UNCHANGED <<session, stale>>

\* createReturn refunds in cash into whatever session the payload names; the
\* foreign key makes sure that it exists, and nothing looks at its status.
Refund(s, amount) ==
  /\ session[s] # NoSession
  /\ amount > 0
  /\ WithinBound(Only("CASH_REFUND", amount))
  /\ summary' = [summary EXCEPT ![s] = Plus(@, Only("CASH_REFUND", amount))]
  /\ NoteLate(s, ~ Open(s))
  /\ UNCHANGED <<session, request, stale>>

-----------------------------------------------------------------------------
(* Closing. *)

\* Mutant: the starting float is counted on top of the starting cash.
CountedTwice(row, entries) ==
  row.starting + entries["STARTING_FLOAT"]
    + entries["PAY_IN"] + entries["CASH_SALE"] - entries["PAY_OUT"] - entries["CASH_REFUND"]

CalculatedCash(row, entries) ==
  row.starting
    + entries["PAY_IN"] + entries["CASH_SALE"] - entries["PAY_OUT"] - entries["CASH_REFUND"]

Endable(s) == Open(s)

BeginEnd(r, s) ==
  /\ request[r] = Idle
  /\ Endable(s)
  /\ request' = [request EXCEPT ![r] =
       [kind |-> "ending", id |-> s, seen |-> session[s].status]]
  /\ UNCHANGED <<session, summary, stale, late>>

\* The entries are read in a statement of their own.
CountEntries(r) ==
  LET s == request[r].id
  IN  /\ request[r].kind = "ending"
      /\ request' = [request EXCEPT ![r] =
           [kind |-> "counted", id |-> s, seen |-> request[r].seen, entries |-> summary[s]]]
      /\ UNCHANGED <<session, summary, stale, late>>

CommitEnd(r) ==
  LET s       == request[r].id
      entries == request[r].entries
  IN  /\ request[r].kind = "counted"
      /\ session' = [session EXCEPT
           ![s] = Updated(@, "CLOSED", CalculatedCash(@, entries))]
      /\ request' = [request EXCEPT ![r] = Idle]
      /\ NoteStale(s, session[s].status # request[r].seen)
      /\ NoteLate(s, summary[s] # entries)
      /\ UNCHANGED summary

BeginReconcile(r, s) ==
  /\ request[r] = Idle
  /\ session[s].status = "CLOSED"
  /\ request' = [request EXCEPT ![r] =
       [kind |-> "reconcile", id |-> s, seen |-> session[s].status]]
  /\ UNCHANGED <<session, summary, stale, late>>

\* The summary computed meanwhile is returned and not stored.
CommitReconcile(r) ==
  LET s == request[r].id
  IN  /\ request[r].kind = "reconcile"
      /\ session' = [session EXCEPT ![s] = Updated(@, "RECONCILED", @.calculated)]
      /\ request' = [request EXCEPT ![r] = Idle]
      /\ NoteStale(s, session[s].status # request[r].seen)
      /\ UNCHANGED <<summary, late>>

\* The request fails before it has committed anything: it leaves no trace.
Abandon(r) ==
  /\ request[r] # Idle
  /\ request' = [request EXCEPT ![r] = Idle]
  /\ UNCHANGED <<session, summary, stale, late>>

-----------------------------------------------------------------------------
(* The session report, which only reads. *)

\* getPosSessionReport: every PAY_IN counts, the one noted as the float included.
ReportedCash(s) ==
  session[s].starting + summary[s]["CASH_SALE"]
    + summary[s]["PAY_IN"] + summary[s]["STARTING_FLOAT"]
    - summary[s]["CASH_REFUND"] - summary[s]["PAY_OUT"]

-----------------------------------------------------------------------------

Next ==
  \/ \E r \in Requests, seat \in Seats, starting \in Amounts : BeginStart(r, seat, starting)
  \/ \E r \in Requests, s \in Sessions :
       CommitStart(r, s) \/ BeginEnd(r, s) \/ BeginReconcile(r, s)
  \/ \E r \in Requests, s \in Sessions, cash, other \in Amounts : BeginCheckout(r, s, cash, other)
  \/ \E r \in Requests, s \in Sessions, kind \in Kinds, amount \in Amounts :
       BeginCash(r, s, kind, amount)
  \/ \E s \in Sessions, amount \in Amounts : Refund(s, amount)
  \/ \E r \in Requests :
       \/ CommitEntry(r) \/ CountEntries(r) \/ CommitEnd(r) \/ CommitReconcile(r)
       \/ Abandon(r)

Spec == Init /\ [][Next]_vars

-----------------------------------------------------------------------------
(* Properties. *)

\* The cash that went through the drawer, from all the entries alone: the float
\* is the cash the session started with.
DrawerCash(s) ==
  summary[s]["STARTING_FLOAT"] + summary[s]["PAY_IN"] + summary[s]["CASH_SALE"]
    - summary[s]["PAY_OUT"] - summary[s]["CASH_REFUND"]

\* No pay-in but the first one has the notes that mark the starting float.
FloatNotedOnce(s) == summary[s]["STARTING_FLOAT"] = session[s].starting

\* The cash a close expects in the drawer is what the entries put there, the
\* starting cash once and no card payment, however ends, entries and the
\* reconciliation interleave, unless an entry came after the count.
CloseExpectsTheDrawer ==
  \A s \in Sessions \ late :
    session[s].status \in {"CLOSED", "RECONCILED"} /\ FloatNotedOnce(s) =>
      session[s].calculated = DrawerCash(s)

\* A seat has one open session, as long as none of its sessions was started
\* while another start was under way.
OneOpenSession ==
  \A s, t \in Sessions \ stale :
    Open(s) /\ Open(t) /\ session[s].seat = session[t].seat => s = t

\* Only requests already on their way when a session closed may still add to
\* it: no sale, pay-in or pay-out begins on a session that is not open.
ClosedTakesNoNewWork ==
  [][\A s \in Sessions :
       session[s].status \in {"CLOSED", "RECONCILED"} =>
         InFlight(s, "entry")' \subseteq InFlight(s, "entry")]_vars

\* The expected cash of a closed session is not recomputed, and a reconciled
\* session not reopened, by a request that read its latest status.
ClosedFiguresStand ==
  [][\A s \in Sessions \ stale' :
       /\ session[s].status \in {"CLOSED", "RECONCILED"} =>
            session'[s].calculated = session[s].calculated
       /\ session[s].status = "RECONCILED" => session'[s] = session[s]]_vars

\* The session report expects in the drawer what the close stored: the types of
\* the report say its pay-ins are the "Sum of PAY_IN amounts (excluding initial
\* float)", so that both count the float once, as the starting cash, unless an
\* entry came after the count. The code does not do so.
ReportMatchesClose ==
  \A s \in Sessions \ late :
    session[s].status \in {"CLOSED", "RECONCILED"} /\ FloatNotedOnce(s) =>
      ReportedCash(s) = session[s].calculated
=============================================================================
