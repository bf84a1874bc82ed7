------------------------------- MODULE Reports --------------------------------
(***************************************************************************)
(* The sales reports and the dashboard (reports.service.ts,                *)
(* reports.service.extended.ts) over the orders and refunds they read.     *)
(*                                                                         *)
(* A report is one query, except the sales summary, which reads the orders *)
(* and then the refunds, and the dashboard, whose queries run all at once  *)
(* and are answered in any order; sales, refunds and changes of status go  *)
(* on between them. Reports write nothing.                                 *)
(*                                                                         *)
(* Time runs in half days. The server's midnight is where a day begins in  *)
(* getDateRange; the chart labels days in UTC instead. What is sold comes  *)
(* from a set of sales that have all that the reports group by. The stock, *)
(* purchase order and session figures of the dashboard are left out.       *)
(***************************************************************************)
EXTENDS DateRanges

CONSTANTS
  Orders,           \* order ids
  Catalog,          \* sales that may happen: place, staff, customer, method of
                    \* payment or "none", lines, and what the order as a whole
                    \* is discounted by and ships for
  CategoriesOf,     \* the categories of each product
  Refunds,          \* ids of refund payments
  Amounts,          \* amounts refunded
  Openings,         \* days on whose evening a behaviour begins
  Horizon,          \* bound: the half days a behaviour lasts
  Offset,           \* half days that the server's clock is ahead of UTC
  Asked,            \* bound: periods the dashboard is asked for
  AskedPlaces,      \* bound: places, or Anywhere, the two are asked for
  Limit,            \* the most customers that getTopCustomers lists
  Requests          \* reports being made at the same time

\* An order has finitely many lines, no line costs less than nothing, no discount
\* or shipping is negative, and a behaviour stays where the calendar has the years
\* it is compared with. A discount may exceed what it is given on: createOrder
\* does not limit it as a checkout does.
ASSUME ReportsAssumption ==
  /\ Asked \subseteq Periods
  /\ Amounts \subseteq Nat
  /\ Horizon \in Nat /\ Offset \in {-1, 0, 1} /\ Limit \in Nat \ {0}
  /\ IsFiniteSet(Orders) /\ IsFiniteSet(Refunds)
  /\ \A sale \in Catalog :
       /\ sale.discount \in Nat /\ sale.shipping \in Nat
       /\ IsFiniteSet(sale.lines)
       /\ \A line \in sale.lines : line.total \in Nat /\ IsFiniteSet(CategoriesOf[line.product])
  /\ Openings \subseteq Nat
  /\ \A d \in Openings : d..(d + (Horizon + 1) \div 2) \subseteq Covered

VARIABLES
  opened, clock,    \* the first half day and the current one
  order,            \* Order rows with their items and payments
  refund,           \* Payment rows with a returnId
  request           \* what each report has read so far

reportsVars == <<opened, clock, order, refund, request>>

-----------------------------------------------------------------------------

Anywhere == "anywhere"
Everyone == "none"
Places == {sale.place : sale \in Catalog}
Methods == {sale.method : sale \in Catalog} \ {"none"}
None == [status |-> "NONE"]
\* PROCESSING stands for every status that no report counts and that may still
\* change, a returned order included.
Statuses == {"PROCESSING", "SHIPPED", "COMPLETED", "CANCELLED"}

Day(t) == t \div 2
Today == Day(clock)
UtcDay(t) == (t - Offset) \div 2

NoReport == [kind |-> "idle"]

\* Order.subtotal, what the lines come to, and Order.totalAmount: discount and
\* shipping are of the order, and no line has a share of them.
Subtotal(sale) == MapThenSumSet(LAMBDA line : line.total, sale.lines)
Total(o) == Subtotal(order[o].sale) - order[o].sale.discount + order[o].sale.shipping

ReportsInit ==
  /\ opened \in {2 * d + 1 : d \in Openings}
  /\ clock = opened
  /\ order = [o \in Orders |-> None]
  /\ refund = [f \in Refunds |-> None]
  /\ request = [r \in Requests |-> NoReport]

-----------------------------------------------------------------------------
(* Queries. *)

Earning == {"COMPLETED", "SHIPPED"}

\* The where clause of every sales report.
Sold(range, place) ==
  {o \in Orders :
     /\ order[o].status \in Earning
     /\ Within(range, Day(order[o].created))
     /\ place \in {Anywhere, order[o].sale.place}}

Gross(range, place) == MapThenSumSet(Total, Sold(range, place))

\* The two other sums of getSalesSummary.
TotalDiscounts(range, place) ==
  MapThenSumSet(LAMBDA o : order[o].sale.discount, Sold(range, place))
TotalShipping(range, place) ==
  MapThenSumSet(LAMBDA o : order[o].sale.shipping, Sold(range, place))

\* Refunds are not limited to a place.
Refunded(range) ==
  MapThenSumSet(LAMBDA f : refund[f].amount,
                {f \in Refunds : refund[f] # None /\ Within(range, Day(refund[f].created))})

\* Prisma's groupBy: a row for each key there is.
GroupBy(S, Key(_), Amount(_)) ==
  [k \in {Key(x) : x \in S} |-> MapThenSumSet(Amount, {x \in S : Key(x) = k})]

Sum(report) == MapThenSumSet(LAMBDA k : report[k], DOMAIN report)

SalesByLocation(range) ==
  GroupBy(Sold(range, Anywhere), LAMBDA o : order[o].sale.place, Total)

\* Mutant: orders without a user are left out.
KnownStaffOnly(range, place) ==
  GroupBy({o \in Sold(range, place) : order[o].sale.staff # Everyone},
          LAMBDA o : order[o].sale.staff, Total)

SalesByStaff(range, place) ==
  GroupBy(Sold(range, place), LAMBDA o : order[o].sale.staff, Total)

\* The limit takes those who spent most; equals in any order.
TopCustomers(range) ==
  LET spent == GroupBy({o \in Sold(range, Anywhere) : order[o].sale.customer # Everyone},
                       LAMBDA o : order[o].sale.customer, Total)
      top   == CHOOSE C \in SUBSET DOMAIN spent :
                 /\ Cardinality(C) = Min({Limit, Cardinality(DOMAIN spent)})
                 /\ \A c \in C, d \in DOMAIN spent \ C : spent[c] >= spent[d]
  IN  [c \in top |-> spent[c]]

\* The items of the orders sold.
LinesSold(range, place) ==
  UNION {{<<o, line>> : line \in order[o].sale.lines} : o \in Sold(range, place)}
LineTotal(item) == item[2].total

SalesByProduct(range, place) ==
  GroupBy(LinesSold(range, place), LAMBDA item : item[2].product, LineTotal)

\* An item counts in each category of its product.
SalesByCategory(range, place) ==
  LET items == LinesSold(range, place)
  IN  [c \in UNION {CategoriesOf[item[2].product] : item \in items} |->
        MapThenSumSet(LineTotal, {item \in items : c \in CategoriesOf[item[2].product]})]

TaxSummary(range, place) ==
  GroupBy(LinesSold(range, place), LAMBDA item : item[2].taxRate, LineTotal)

\* A bar for the UTC day on which each day of the range begins, and for every
\* other UTC day that has sales.
SalesChart(range, place) ==
  LET sold == Sold(range, place)
      bar(o) == UtcDay(order[o].created)
      bars == {UtcDay(2 * d) : d \in range.start..range.end} \cup {bar(o) : o \in sold}
  IN  [b \in bars |-> MapThenSumSet(Total, {o \in sold : bar(o) = b})]

\* What was paid with each method, and what was refunded with it; checkouts pay
\* at once and in full, orders entered by hand are not paid. A method that was
\* only refunded is not listed.
PaymentMethods(range) ==
  LET paid == {o \in Orders : /\ order[o] # None /\ order[o].sale.method # "none"
                              /\ Within(range, Day(order[o].created))}
      back == {f \in Refunds : refund[f] # None /\ Within(range, Day(refund[f].created))}
  IN  [m \in {order[o].sale.method : o \in paid} |->
        [total  |-> MapThenSumSet(Total, {o \in paid : order[o].sale.method = m}),
         refund |-> MapThenSumSet(LAMBDA f : refund[f].amount,
                                  {f \in back : refund[f].method = m})]]

-----------------------------------------------------------------------------
(* Sales, refunds and time. *)

Started(report) == report # NoReport /\ DOMAIN report.read # {}

\* History only: an order is written while a report is being made.
NoteGrown ==
  request' = [r \in Requests |->
    IF Started(request[r]) THEN [request[r] EXCEPT !.grown = TRUE] ELSE request[r]]

\* A checkout completes its order, createOrder leaves it to be fulfilled.
Sell(o, sale) ==
  /\ order[o] = None
  /\ order' = [order EXCEPT ![o] =
       [status |-> IF sale.method = "none" THEN "PROCESSING" ELSE "COMPLETED",
        sale |-> sale, created |-> clock]]
  /\ NoteGrown
  /\ UNCHANGED <<opened, clock, refund>>

\* updateOrderById and cancelOrder; the order keeps its creation date.
SetStatus(o, status) ==
  /\ order[o].status \in {"PROCESSING", "SHIPPED"}
  /\ order' = [order EXCEPT ![o].status = status]
  /\ NoteGrown
  /\ UNCHANGED <<opened, clock, refund>>

\* A return pays back what the clerk enters, by any method.
Refund(f, o, amount, method) ==
  /\ refund[f] = None
  /\ order[o].status \in Statuses \ {"CANCELLED"}
  /\ refund' = [refund EXCEPT ![f] = [amount |-> amount, method |-> method, created |-> clock]]
  /\ UNCHANGED <<opened, clock, order, request>>

Pass ==
  /\ clock < opened + Horizon
  /\ clock' = clock + 1
  /\ UNCHANGED <<opened, order, refund, request>>

-----------------------------------------------------------------------------
(* The reports that take several queries. *)

Queries(kind) ==
  IF kind = "summary" THEN {<<"gross", "current">>, <<"refunds", "current">>}
  ELSE {"gross", "refunds"} \X {"current", "previous"}

Answer(query, ranges, place) ==
  IF query[1] = "gross" THEN Gross(ranges[query[2]], place) ELSE Refunded(ranges[query[2]])

\* Mutant: the summary asks for the refunds first.
NextQueriesReversed(report) ==
  LET open == Queries(report.kind) \ DOMAIN report.read
  IN  IF report.kind = "summary"
      THEN {q \in open : q[1] = "refunds" \/ Cardinality(open) = 1} ELSE open

\* The summary awaits the orders before it asks for the refunds.
NextQueries(report) ==
  LET open == Queries(report.kind) \ DOMAIN report.read
  IN  IF report.kind = "summary"
      THEN {q \in open : q[1] = "gross" \/ Cardinality(open) = 1} ELSE open

Net(ranges, place, which) == Gross(ranges[which], place) - Refunded(ranges[which])

\* History: began, the net sales of each range when the first query was answered,
\* and grown, whether an order was written since.
Begin(r, kind, ranges, place) ==
  /\ request[r] = NoReport
  /\ request' = [request EXCEPT ![r] =
       [kind |-> kind, ranges |-> ranges, place |-> place, read |-> <<>>,
        began |-> <<>>, grown |-> FALSE]]
  /\ UNCHANGED <<opened, clock, order, refund>>

BeginSummary(r, from, to, place) ==
  Begin(r, "summary", CustomRange(from, to, Today), place)
BeginDashboard(r, period, place) ==
  Begin(r, "dashboard", DateRange(period, Today), place)

Read(r, query) ==
  LET report == request[r]
      answer == Answer(query, report.ranges, report.place)
  IN  /\ report # NoReport
      /\ query \in NextQueries(report)
      /\ request' = [request EXCEPT
           ![r].read = [q \in DOMAIN @ \cup {query} |-> IF q = query THEN answer ELSE @[q]],
           ![r].began = IF Started(report) THEN @
                        ELSE [which \in {"current", "previous"} |->
                                Net(report.ranges, report.place, which)]]
      /\ UNCHANGED <<opened, clock, order, refund>>

Complete(report) == report # NoReport /\ DOMAIN report.read = Queries(report.kind)

Deliver(r) ==
  /\ Complete(request[r])
  /\ request' = [request EXCEPT ![r] = NoReport]
  /\ UNCHANGED <<opened, clock, order, refund>>

-----------------------------------------------------------------------------

ReportsNext ==
  \/ \E o \in Orders, sale \in Catalog : Sell(o, sale)
  \/ \E o \in Orders, status \in Statuses : SetStatus(o, status)
  \/ \E f \in Refunds, o \in Orders, amount \in Amounts, method \in Methods :
       Refund(f, o, amount, method)
  \/ Pass
  \/ \E r \in Requests, from, to \in {Today - 1, Today}, place \in AskedPlaces :
       BeginSummary(r, from, to, place)
  \/ \E r \in Requests, period \in Asked, place \in AskedPlaces :
       BeginDashboard(r, period, place)
  \/ \E r \in Requests, query \in Queries("dashboard") : Read(r, query)
  \/ \E r \in Requests : Deliver(r)

ReportsSpec == ReportsInit /\ [][ReportsNext]_reportsVars

-----------------------------------------------------------------------------
(* Properties. *)

\* The clock stays where the calendar reaches; orders, refunds and reports in the
\* making have their types, and a report has answers to queries of its kind only.
ReportsTypeOK ==
  /\ opened \in {2 * d + 1 : d \in Openings} /\ clock \in opened..(opened + Horizon)
  /\ order \in [Orders -> [status : Statuses, sale : Catalog, created : Nat] \cup {None}]
  /\ refund \in [Refunds -> [amount : Amounts, method : Methods, created : Nat] \cup {None}]
  /\ request = [r \in Requests |-> request[r]]
  /\ \A r \in Requests : request[r] # NoReport =>
       \E answered \in SUBSET Queries(request[r].kind) :
         request[r] \in [kind : {"summary", "dashboard"},
                        ranges : [current : Spans, previous : Spans], place : AskedPlaces,
                        read : [answered -> Int],
                        began : {<<>>} \cup [{"current", "previous"} -> Int], grown : BOOLEAN]

\* Every report tells the same sales: the breakdowns by location, by staff and by
\* bar of the chart add up to the gross sales of the summary, although the chart
\* counts days in another time zone. Products and tax rates are of lines, which
\* have no share of discount and shipping: they come to the same, and to gross
\* sales once the summary's own discounts are taken off and its shipping is added.
\* Categories add up to the lines sold, a line once for each category it is in. No
\* list of refunded methods tells more, nor, while no order is discounted below
\* nothing, a list of customers.
BreakdownsReconcile ==
  \A from, to \in {Today - 1, Today}, place \in Places \cup {Anywhere} :
    LET range == CustomRange(from, to, Today).current
        gross == Gross(range, place)
        ofTheOrder == TotalShipping(range, place) - TotalDiscounts(range, place)
    IN  /\ Sum(SalesByStaff(range, place)) = gross
        /\ Sum(SalesChart(range, place)) = gross
        /\ Sum(SalesByProduct(range, place)) + ofTheOrder = gross
        /\ Sum(TaxSummary(range, place)) + ofTheOrder = gross
        /\ place # Anywhere =>
             gross = IF place \in DOMAIN SalesByLocation(range)
                     THEN SalesByLocation(range)[place] ELSE 0
        /\ Sum(SalesByCategory(range, place)) =
             MapThenSumSet(LAMBDA item : LineTotal(item) * Cardinality(CategoriesOf[item[2].product]),
                           LinesSold(range, place))
        /\ Sum(SalesByLocation(range)) = Gross(range, Anywhere)
        /\ (\A o \in Sold(range, Anywhere) : Total(o) >= 0) =>
             Sum(TopCustomers(range)) <= Gross(range, Anywhere)
        /\ LET listed == PaymentMethods(range)
           IN  MapThenSumSet(LAMBDA m : listed[m].refund, DOMAIN listed) <= Refunded(range)

\* A change in percent compares like with like: the two ranges never share a day;
\* rolling and whole periods are preceded at once by their like, of the same
\* length if they are runs of days; a month or a year to date by the same days of
\* the month or year before, ending with that month if it is shorter.
RangesComparable ==
  /\ \A period \in Periods :
       LET r == DateRange(period, Today)
       IN  /\ r.previous.start <= r.previous.end /\ r.previous.end < r.current.start
           /\ period \notin {"month", "year"} => r.previous.end + 1 = r.current.start
           /\ period \in {"today", "yesterday", "7d", "30d"} =>
                Days(r.previous) = Days(r.current)
           /\ period = "month" =>
                \/ Days(r.previous) = Days(r.current)
                \/ /\ Days(r.previous) < Days(r.current)
                   /\ r.previous.end = EndOfMonth(MonthOf(r.previous.start))
           /\ period = "year" => MonthOf(r.previous.end) = MonthOf(Today) - MonthsInYear
  /\ \A from, to \in {Today - 2, Today - 1, Today} :
       LET r == CustomRange(from, to, Today)
       IN  r.previous.end + 1 = r.current.start /\ Days(r.previous) = Days(r.current)

\* A report that takes several queries never tells more net sales than there were
\* when it began, whatever is sold or refunded meanwhile in the summary; in the
\* dashboard, whose queries come in any order, unless an order was written.
NetNeverOverstated ==
  \A r \in Requests :
    LET report == request[r]
    IN  Complete(report) =>
          \A which \in {query[2] : query \in Queries(report.kind)} :
            \/ report.read[<<"gross", which>>] - report.read[<<"refunds", which>>]
                 <= report.began[which]
            \/ report.kind = "dashboard" /\ report.grown
=============================================================================
