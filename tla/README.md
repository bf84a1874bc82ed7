# InvePro backend: specifications

TLA+ specifications of the InvePro backend, a multi-tenant inventory and point-of-sale server (Node.js, Express, Prisma,
PostgreSQL, Redis). The specifications are translated from the services under `src/src/modules`; the tables they keep are
those of `src/prisma/schema.prisma`. TLC checks them on small instances; TLAPS proves every safety property the runs check,
and some more, for every value of the constants.

Contents: 1 the system, 2 how it is modelled, 3 the modules, 4 what the runs check, 5 what is proved, 6 disagreements
found, 7 what is not modelled, 8 the plan, 9 how to run everything.

## 1. The system

One server process (or several behind a balancer) answers HTTP requests. All lasting state is in PostgreSQL; Redis holds a
cache of products; connected browsers and mail transporters are held in memory. There is no queue and no background worker:
the concurrency of the system is that of requests against each other, and of the work that requests start and do not wait
for (low-stock checks). Within a request every `await` lets other requests run.

| component | state it keeps | operations | what is hard | what makes it correct |
|---|---|---|---|---|
| stock ledger (`inventory.service.ts`: `_recordStockMovement`) | `InventoryItem.quantityOnHand`; immutable `InventoryTransaction` rows | one upsert and one movement row per change, called by every component that moves goods | the check for negative stock comes after the increment and relies on the caller's rollback | no position below zero; movements add up to what is on hand |
| adjustments, transfers (`inventory.service.ts`) | transfers and their lines (requested, shipped, received) | adjust, create, ship, receive | ship and receive decide on an unlocked read; units of measure | lines agree with movements; shipped once; never over-received; completed means arrived |
| purchase orders (`purchase-order.service.ts`) | orders, lines, status, cost | create, edit, submit, approve, send, cancel, close, receive | status changes write by id alone; totals stand for lines; a payload may name a line twice | receipts only on sent orders and within what is owed; status tells what arrived |
| stock counts (`stock-count.service.ts`) | count, snapshot, variance and status of each item | initiate, enter, review, post | the snapshot ages while stock moves; status and items are read apart | posting reconciles books and shelf; only approved variances are posted, once |
| sales (`pos.service.ts`, `order.service.ts`, `return.service.ts`) | orders, `quantityAllocated`, returns | checkout, create, suspend, resume, update, cancel, return | availability is read before the transaction; status written with no stock effect | no overselling; carts reserve and release once; reversed once; returned within bought |
| cash sessions (`pos.service.ts`, `return.service.ts`, session report) | sessions and their cash entries | start, sales, pay-in, pay-out, refund, end, reconcile, report | end counts in one statement and closes in another; uniqueness without a constraint; two computations of one sum | the close expects what is in the drawer; one open session per seat |
| authentication tokens, users' accounts (`auth.service.ts`, `user.service.ts`) | refresh tokens, reset links, passwords, `isActive` | login, refresh, logout, forgot and reset password, (de)activate, delete | every operation is a chain of single statements | a token is exchanged once; a reset or a deletion leaves no session behind; a link is spent once |
| roles, users, tenants (`role.service.ts`, `user.service.ts`, `tenant.service.ts`, `auth.middleware.ts`) | roles with permissions, their assignment, locations of users | create, rename, grant, revoke, delete, assign; create a tenant, replace its administrators | counted or validated before the write; join tables without a tenant | powers come from the own tenant; the administrator role stands; deletion takes nothing from anybody |
| locations, categories, suppliers, customers, customer groups | rows, names, parents | create, update, move, delete or deactivate | what hangs on a row is counted before it is deleted, and a closed order may be opened again; NULL parents escape the unique index | open documents keep their owner; names differ |
| product catalogue (`product.service.ts`) | product rows; Redis entries of products and lists | read through, write, invalidate, expire | a late fill after an invalidation; writes elsewhere that invalidate nothing | cached is current unless known why not; outdated entries end; nobody gets another's list |
| low-stock alerts, notifications, mail, tenant configuration | reorder points, notifications, configuration column, transporter cache | check, notify, de-duplicate, mail, configure, deactivate | nobody waits for a check, and some movements start none; read-merge-write of one JSON column; cached password | low stock that a check was called for is told; a mail uses a recent password |
| server-sent events and the process (`sseManager.ts`, `sse.routes.ts`, `server.ts`) | two tables of streams; shutdown flag | connect, lose, close, broadcast; start, shut down, force | streams do not end by themselves; tables must agree | a broadcast misses nobody; a shutdown ends |
| reports (`reports.service*.ts`, `date.utils.ts`) | none | dashboard, summary, breakdowns, previous period | several statements without a snapshot; month ends; two time zones; discounts and shipping of orders beside lines without them | breakdowns agree with the summary; ranges are comparable; net sales are not overstated |
| uploads, request validation, Express wiring | files | | pure I/O | (not modelled) |

**Interactions.** Every component that moves goods calls the two ledger helpers inside its own transaction; sales share
`InventoryItem` with them through `quantityAllocated`; a checkout looks its cash session up and adds an entry to it; a
refund adds one to the session its payload names; a checkout invalidates cached products and starts a low-stock check after
it has committed; an in-app notification is broadcast to the streams of the tenant. Documents refer to master data by
foreign keys. The components are specified apart, each with what it shares of the others, and composed where one drives
the other: `Alerts` extends `LiveEvents`, `Reports` extends `DateRanges`, and everything that moves stock implements
`StockLedger!Spec`.

## 2. How it is modelled

**A request is two steps (or more).** `Begin...` is the unlocked read with every check the handler makes on it; it
stores in `request[r]` (`call[q]` in `Accounts`, `AccessControl` and `Catalogue`) what was read. `Commit...` is the
transaction with all of its writes. Other requests run in between. A request that reads or writes again in the middle
has further steps (`WriteReceipt`, `ReadItems`, `CountEntries`; the chains of single statements in `Accounts`;
`FindLists` and `DeleteEntries` in `Catalogue`; the queries of `Reports`). Requests that decide on nothing they read,
lock the row they read, or whose check the database repeats (a unique index, a foreign key) are one step.

**Why a commit is one step.** PostgreSQL runs at READ COMMITTED. Row locks taken by the writes of a transaction are held to
its end, so another transaction cannot see or overwrite half of it; increments (`{ increment: n }`) work on the row as it is
when the lock is granted, which the models write as `@ + n` against the state at commit, and plain assignments as
assignments. What a transaction reads without a lock is, on the contrary, taken from the state at `Begin`. The one case
where rows locked by writes are followed by a read of other rows inside the transaction (the re-read of order lines in
`receivePurchaseOrderItems`) is modelled with its locks (`Locked`).

**Failure.** A transaction that throws, times out, or whose process dies rolls back: `Abandon`. Where a request is a chain
of statements it may end after any of them, so the partial failures of `auth.service.ts` (the old token revoked, the new one
never stored) and lost cache invalidations are behaviours. The process itself stops and starts again in `LiveEvents`: a
shutdown, its deadline, and an exit that takes streams, checks in flight and cached transporters with it and leaves the
rows.

**History variables.** `stale`, `doubled`, `uncounted`, `bypassed`, `late`, `slipped`, `misplaced`, `suspect`, `unseen`,
`deleted`, `until` never enable or disable anything. Many of the properties one wants are false of requests that
overtake each other (two receipts of the last units both pass their check). The properties say exactly what survives:
history collects what some request did on a superseded read, and the property is stated for all the rest; where
something holds for the stale ones too (lines against movements, the stock promise) it is stated without the condition.
Each mutant is found although the condition is there, so it does not hide the checks of the code. `late` of `Directory`
also marks a dependant that is opened again without its owner, and `unseen` of `Alerts` that no check has looked since
one was last called for.

**Data.** A product has one line per document: creating a document with two lines for a product is refused, because fewer
products than lines are found, and a suspended cart with two is held and released like one with their sum. Quantities are
natural numbers in the unit of the line, converted by a factor where the code converts; money is a natural number. Names,
keys and statuses are members of small sets; hashes are identities of rows; a permission is one any tenant may grant
("general") or one only the system may ("reserved"); a mail configuration is its password. Time is ticks in `Alerts`, half
days in `Reports`, and "at any moment" for the expiry of tokens, links and cache entries.

## 3. The modules

| module | models | how its state and actions correspond |
|---|---|---|
| `StockLedger` | `_recordStockMovement`, `_updateInventoryItemQuantity` | `onHand`, `ledger`; `Post(change)` is one transaction's movements; `Spec` is the abstract promise: start empty, never negative, post what you move |
| `Transfers` | adjustments and transfers | `transfer[t]` is the row with its lines; `postedOut`/`postedIn` sum the movements that carry its id |
| `PurchaseOrders` | purchase orders | `order[o]`, `posted[o]`; `Transitions` lists the status changes of five handlers |
| `StockCounts` | physical counts of a location | `count[c]`, and `shelf`, which is in no table: what is really there |
| `Sales` | checkout, carts, orders, cancellation, returns at a location | `order`, `allocated`, `stocked` (products with a stock row), `sold`, `reversed`, `returned` |
| `CashSessions` | sessions of the tills and their report | `session[s]`, and `summary[s]`, the total of its entries by type |
| `Accounts` | sessions of users | `token`, `link` are the rows, `password[u]` how often it was reset; the `step` of a `call` names its next statement |
| `AccessControl` | roles, permissions, locations of users, tenants | `role`, `assigned` (UserRole), `places` (UserLocation), `home` (User.tenantId); `EffectivePermissions`, `AllowedLocations` are the middleware |
| `Directory` | the five services of master data | `kind` says which of them; `row` its rows, `dep` the rows that depend on them, which other components place, `Close` and `Reopen` |
| `Catalogue` | products and their cache | `product`, `category`, `stock` are the database, `entry` is Redis |
| `LiveEvents` | streams and the life of the process | `clients`, `tenantClients` are the maps of `sseManager.ts`; `stream` is what TCP knows and the process may not |
| `Alerts` | from a movement to the mail, and the configuration | `Move` is a movement that starts a check, `MoveUnchecked` one that starts none; `check[k]` is a check in flight, `notes` the rows, `config` the JSON column, `transporter` the cached one |
| `DateRanges` | `getDateRange` | pure operators over a calendar given by the lengths of its months |
| `Reports` | reports over orders and refunds | `order`, `refund` are the tables, `clock` the current half day, `request[r]` what a report has read; a sale has lines, a discount and shipping costs, and its `Total` is that of `createOrder`; the breakdowns are functions from key to total |
| `MC...` | finite instances | constants for TLC and symmetry |
| `...Proofs` | theorems | section 5 |

`Transfers`, `PurchaseOrders`, `StockCounts` and `Sales` each contain `Stock == INSTANCE StockLedger` over their own stock
and are shown to implement it: `StockPromise == Stock!Spec`. The refinement mapping is the identity on `onHand` and
`ledger` and forgets everything else. `StockLedger!Commit` describes any number of positions changing at once, so no
interleaving of components can break a promise each of them keeps.

Small guards and computations have names of their own (`Shippable`, `MaxReceivable`, `Valid`, `InUse`, `ListKey`...); each
stands for a line of code one could get wrong. The operators commented "Mutant" are such wrong versions; no action uses
them. They document which slip each property would catch.

## 4. What the runs check

| run | instance | distinct states | properties |
|---|---|---|---|
| `transfers` | 2 products, 2 locations, 1 transfer, 2 requests, quantities 0..2, factors 1 and 2 | 223,428 | `LinesMatchMovements`, `FreshTransfersAreExact`, `CompletedMeansArrived` |
| `purchase_orders` | 2 products, 1 location, 1 order, 2 requests, ordered 0..2, entries 0..1 | 101,853 | `ReceiptsMatchMovements`, `FreshReceiptsAreOwed`, `StatusMatchesReceipts` |
| `stock_counts` | 1 product, 1 count, 2 requests, stock up to 2 | 421,400 | `StatusMatchesItems`, `StockPromise`, `PostingReconciles`, `OnlyApprovedIsPosted` |
| `sales` | 1 product, 2 orders or carts, 2 requests on the first, 4 statuses, returns | 2,356,380 | `CancelReversesOnce`, `ReturnsWithinBought`, `ReservedWhileSuspended`, `StockPromise`, `SettledIsFinal`, `SalesLeaveReservations` |
| `cash_sessions` | 1 seat, 2 sessions, 2 requests, amounts 0..1, total 3 | 1,727,032 | `CloseExpectsTheDrawer`, `OneOpenSession` |
| `accounts` | 1 user, 3 tokens, 2 links, 1 reset, 2 requests | 5,382,580 | `RotatesOnce`, `ResetEndsSessions`, `DeletedHasNoSession`, `OneResetLink`, `LinkSpentOnce` |
| `access_control` | 2 tenants, 2 users, 3 roles, 1 location, 2 requests | 803,208 | `PowersOfOwnTenant`, `AdminRoleStands`, `DeletionTakesNothing`, `ReplacedAdminsOnly` |
| `master_data` | 2 rows, 1 dependant, 2 names, 2 requests, each of the 5 kinds; or the catalogue: 1 product, 1 category, 1 location, 2 scopes, 2 requests | 809,478 | `OpenKeepsOwner`, `NamesDiffer`, `CacheCurrent`, `OwnScopeOnly`, `OutdatedEnds` |
| `alerts` | 1 clerk, 1 check, 1 update, 1 stream, stock 0..2, 2 ticks | 777,888 | `StreamsAgree`, `MailPasswordIsRecent`, `LowStockIsTold`, `ShutdownEnds` |
| `reports` | 2 orders, 1 refund, 1 report, 4 openings in a calendar of 3 years of 2 months | 223,492 | `BreakdownsReconcile`, `RangesComparable`, `NetNeverOverstated` |
| `alerts_repeated` | as `alerts` | until found | `NoRepeatWithinHour` (violated, section 6) |
| `session_report` | as `cash_sessions` | until found | `ReportMatchesClose` (violated, section 6) |

`MCMasterData` checks two specifications in one run: a behaviour is one of `Directory` or one of `Catalogue`, chosen at the
start; the other component stays as it was initially.

The type invariants of the modules are not part of the runs above: all of them are proved (section 5), after they were
checked with the same instances while the modules were written. `CompletedIsFinal`, `ApprovedCostIsFixed`,
`ClosedTakesNoNewWork`, `ClosedFiguresStand`, `SettledIsFinal` of purchase orders and the stock promise of transfers and
purchase orders are left to their proofs too, which cover more than a run can.

**What they show.** *Transfers:* however two requests interleave with adjustments, what a transfer's lines say was
received is what was posted in base units, nothing is marked shipped that did not leave, and a transfer written only on
its latest version leaves once, is never over-received and is COMPLETED exactly when everything is there. *Purchase
orders:* the same for receipts, plus the status that is decided from totals agrees with the lines as long as no line is
over-received. *Stock counts:* posting variances, and not counted quantities, makes books and shelf agree although stock
moved since the snapshot; an unapproved variance never moves stock; a count is not posted twice. *Sales:* two tills that
sell the last unit do not take stock below zero, a cart reserves and releases exactly once, a sale that saw the latest
availability never sells what carts hold, a cancellation puts back all or nothing and once. *Cash sessions:* what a
close stores is what the entries put in the drawer, the float once and cards never, and a till has one open session.
*Accounts:* one token has one successor, a reset or a deletion ends every session that was not in flight across it, one
reset link works and it works once. *Access control:* no path of assignment crosses tenants, every tenant keeps its one
administrator role, no role but a system role comes to hold a reserved permission, deleting a role and replacing
administrators do what they say unless overtaken. *Directory:* a row is not deleted from under what is open on it,
unless that was placed or opened again where no count could see it, and two rows of one name have an explanation.
*Catalogue:* the invalidations cover everything the product service itself changes; what escapes them is outdated for a
while and not for good. *Alerts:* a checkout, an adjustment, a shipped transfer or a new reorder point that leaves stock
low ends with a notification although nobody waits for the check and other movements start none; a mail uses a password
at most one cache lifetime old; streams are accounted for; a shutdown ends. *Reports:* locations, staff and days add up
to gross sales, products and tax rates to gross sales without the discounts and shipping of the orders, compared periods
do not overlap, and reading in several statements never overstates net sales in the summary.

**Why the bounds are enough.** The hazards are between two requests on one document: one that read before the other
committed. Two requests and one document contain them all; a third request adds another overtaking of the same kind.
Two products are needed where a status stands for several lines, two factors where conversion can be forgotten, quantities
up to 2 where a partial step must differ from a full one, two sessions, carts or rows where they compete, two tenants and
users where powers could cross, three tokens where a rotation has a child and a rival, three roles so that a tenant's two
default roles leave one more. In `Catalogue` the categories of the product stand for its own fields (`MaxVersion` is 0) and
two scopes, with and without the location, share the lists. In `Alerts` one check, one update of the configuration and one
stream at a time suffice, since checks meet only in the rows they leave; two ticks make a window and its end. In `Reports`
the calendar has years of two short months, one longer in the leap year, so that every month end, leap day and turn of the
year is a day or two away from an opening; the periods of 7 and 30 days are 2 and 3. Bounds that cut behaviour are named
constants in guards: `MaxOnHand`, `MaxCash`, `MaxTokens`, `MaxLinks`, `MaxResets`, `MaxRoles`, `MaxVersion`, `MaxStock`,
`MaxAvailable`, `MaxTick`, `Horizon`, `Busy` (the order with two requests on it), `StatusUpdates`, `Asked`, `AskedPlaces`;
an order is reversed at most twice, once more than is right.

**Deadlock.** TLC checks every passing run but `purchase_orders` for deadlock, and finds none. There the one order of the
instance ends closed, cancelled or received, and nothing is left to do.

**Fairness.** No request is assumed to be sent or to succeed: nothing retries by itself, and a person may never click again.
Three things happen by themselves and are fair: Redis expires what has a time to live (`WF(Expire)` in `Catalogue`, for
`OutdatedEnds`); a low-stock check that has begun goes on, because each of its awaits settles, with a result or an error
(`WF(CheckStep)` in `Alerts`, for `LowStockIsTold`); and the ten-second timer of a shutdown fires (`WF` of `ForceExit`, for
`ShutdownEnds`). Streams are not assumed to close, nor the process to be started again.

## 5. What is proved

Every invariant and every action property the runs check is a theorem, and so is every type invariant. The theorems hold
for any sets of products, locations, documents, users, requests, quantities, factors and dates.

**Assumptions.** The only ones are those on the constants, named in the modules that declare them (`QuantityAssumption`,
`PurchaseAssumption`, `CountAssumption`, `SalesAssumption`, `CashAssumption`, `AccountsAssumption`, `AccessAssumption`,
`DirectoryAssumption`, `CatalogueAssumption`, `AlertsAssumption`, `ConfigurationAssumption`, `CalendarAssumption`,
`ReportsAssumption`); TLC evaluates them in every run of the module. Most give a constant its type. The others:

- products, orders, refunds, the lines of an order and the categories of a product are finitely many where a total of them
  is taken (`QuantityAssumption`, `PurchaseAssumption`, `SalesAssumption`, `ReportsAssumption`), as rows of a table are;
- the words that stand for "no tenant" are no tenants (`AccessAssumption`), and no product is a scope of lists
  (`CatalogueAssumption`: the two kinds of key have different prefixes in Redis);
- the reports are asked for on days whose compared years are in the calendar (`Covered`, in `ReportsAssumption`): the
  calendar of the code has no beginning, that of a model has. A year is any number of months, a month any positive number of
  days.

| module | theorem | states |
|---|---|---|
| `StockLedgerProofs` | `PromiseMeansSafe` | whoever keeps the promise never goes negative and stays balanced |
| `TransfersProofs` | `TypeCorrect`, `LinesAlwaysMatch`, `FreshAlwaysExact`, `CompletedAlwaysArrived`, `CompletedStaysFinal` | `TypeOK`, `LinesMatchMovements`, `FreshTransfersAreExact`, `CompletedMeansArrived`, `CompletedIsFinal` |
| | `KeepsStockPromise`, `TransfersKeepStockSafe` | transfers implement the ledger, hence keep stock safe |
| `PurchaseOrdersProofs` | `TypeCorrect`, `ReceiptsAlwaysMatch`, `FreshReceiptsAlwaysOwed`, `StatusAlwaysMatches`, `SettledStaysFinal`, `ApprovedCostStaysFixed` | `TypeOK`, `ReceiptsMatchMovements`, `FreshReceiptsAreOwed`, `StatusMatchesReceipts`, `SettledIsFinal`, `ApprovedCostIsFixed` |
| | `KeepsStockPromise`, `ReceiptsKeepStockSafe` | receipts implement the ledger, hence keep stock safe |
| `StockCountsProofs` | `TypeCorrect`, `StatusAlwaysMatchesItems`, `OnlyApprovedMovesStock`, `PostingAlwaysReconciles` | `TypeOK`, `StatusMatchesItems`, `OnlyApprovedIsPosted`, `PostingReconciles` |
| | `KeepsStockPromise`, `CountsKeepStockSafe` | counts implement the ledger, hence keep stock safe |
| `SalesProofs` | `TypeCorrect`, `CancelAlwaysReversesOnce`, `ReturnsAlwaysWithinBought`, `AlwaysReservedWhileSuspended`, `SettledStaysFinal`, `SalesAlwaysLeaveReservations` | `TypeOK`, `CancelReversesOnce`, `ReturnsWithinBought`, `ReservedWhileSuspended`, `SettledIsFinal`, `SalesLeaveReservations` |
| | `KeepsStockPromise`, `SalesKeepStockSafe` | sales, cancellations and returns implement the ledger, hence keep stock safe |
| `CashSessionsProofs` | `TypeCorrect`, `CloseAlwaysExpectsTheDrawer`, `OneSessionOpen`, `ClosedTakesNoWork`, `ClosedFiguresStay` | `TypeOK`, `CloseExpectsTheDrawer`, `OneOpenSession`, `ClosedTakesNoNewWork`, `ClosedFiguresStand` |
| same, of `Accounts` | `AccountsTypeCorrect`, `TokensRotateOnce`, `ResetAlwaysEndsSessions`, `DeletedNeverHasSession`, `OneLinkWorks`, `LinkAlwaysSpentOnce` | `AccountsTypeOK`, `RotatesOnce`, `ResetEndsSessions`, `DeletedHasNoSession`, `OneResetLink`, `LinkSpentOnce` |
| `DirectoryProofs` | `TypeCorrect`, `OpenAlwaysKeepsOwner`, `NamesAlwaysDiffer` | `TypeOK`, `OpenKeepsOwner`, `NamesDiffer`, for each of the five services |
| same, of `Catalogue` | `CatalogueTypeCorrect`, `CacheAlwaysCurrent`, `OwnScopeAlways` | `CatalogueTypeOK`, `CacheCurrent`, `OwnScopeOnly` |
| `AlertsProofs` | `TypeCorrect`, `StreamsAlwaysAgree`, `MailPasswordAlwaysRecent`, `UnseenIsAlwaysPending` | `TypeOK`, `StreamsAgree`, `MailPasswordIsRecent`, whatever checks, updates and mails are under way; the safety part of `LowStockIsTold`: no check that was called for is forgotten |
| same, of `AccessControl` | `AccessTypeCorrect`, `PowersAlwaysOwn`, `AdminRoleAlwaysStands`, `DeletionNeverTakes`, `AdminsAlwaysReplaced` | `AccessTypeOK`, `PowersOfOwnTenant`, `AdminRoleStands`, `DeletionTakesNothing`, `ReplacedAdminsOnly` |
| same, of `Reports` | `ReportsTypeCorrect`, `NetNeverTooHigh`, `RangesAlwaysComparable`, `BreakdownsAlwaysReconcile` | `ReportsTypeOK`, `NetNeverOverstated`, `RangesComparable`, `BreakdownsReconcile` |

Three modules hold the proofs of more than one component; nothing relates those components there, and each theorem is about
the specification of its own.

**The argument.** None of the safety properties is inductive by itself: from an arbitrary state a request could be in flight
that decided on something that never was. The proofs have one pattern. An inductive invariant adds what is known of
requests in flight: what they read was so, and is still so unless something has overtaken them and marked them stale. Then
one lemma per action shows that the action keeps the invariant, a lemma on the next-state relation puts them together, and
the theorem follows; action properties follow from the same invariant by looking at which actions may write what. For the
refinement, a step that changes stock is a `Post`, and every `Post` of integers is a `Commit`; all other steps leave stock
alone and stutter. What has to be added differs:

- *Documents* (`IInv` in four modules). Requests carry checked versions (`RequestsChecked`), and documents nothing has
  happened to have no effects: a missing or unshipped document has no movements (`UnshippedMeansUnposted`,
  `UncreatedMeansUnposted`, `AbsentUntouched`), a closed session stores what its entries still give (`CountsAreCurrent`), a
  sound variance is the present distance between shelf and books (`SoundIsDiscrepancy`), which is why posting variances, and
  not counted quantities, survives the stock that moves between counting and posting.
- *Statuses decided from totals.* `receiveTransfer` compares the totals of a transfer. No line exceeds its request and every
  transfer asks for something (`ArrivedInv`), so equal totals are equal lines. A receipt on a purchase order reads the lines
  twice, and compares totals of the second reading. Receipts only grow (`ReadsAreBehind`); lines that are at the commit what
  they were at the first reading were so at the second (`NextStillRight`), so the status written on a fresh order is that
  of its lines.
- *Reservations* (`ReservedInv`). What is allocated of a product is the sum over all orders of what each cart holds; a step
  changes one summand and the counter by the same amount. The stock row a cart reserved through is still there when it is
  resumed (`CartsAreStocked`), else the release would go nowhere.
- *Directory* (`DirectoryInv`, `NamesInv`). A deletion that nothing overtook has no open dependant (`DeletesFree`), an
  order being placed still has an active supplier (`PlacesActive`), every open dependant that is not late has its owner
  (`OwnersKept`, by which an order may close and open again), and a look at the siblings of a category is still right
  (`ChecksHold`): whatever would break one of them marks the request stale.
- *Catalogue* (`CacheInv`). A fill in flight holds the current value or has been overtaken (`CallsHold`); an invalidation in
  flight is of a product. An entry under a list's key shows the locations of that key, since the key is made of the
  locations that were read (`EntriesTyped`).
- *Accounts* (`AccountsInv`). The rows that a chain of statements has in hand exist (`HeldInv`). A session, and a call on its
  way to one, carry the password of the user and no deleted user (`SessionsSound`). A request that has cleared the links
  finds none, one that has a link in hand finds it unspent (`LinksSound`). A token that is about to be revoked has no
  successor, neither stored nor under way, and two successors of one token are never both fresh (`RotationSound`).
- *Access control* (`AccessInv`). Rows of a role keep to their tenant and their name, and each tenant's administrator
  role is its only one, a system role, and keeps its permissions (`RolesSound`); what is assigned exists and is of the
  own tenant (`HoldersSound`); a deletion that nothing overtook has no holders, a replacement of administrators knows
  all holders of the role it removes (`CallsSound`). Each needs the others: that a deletion takes nothing from anybody
  needs the role to be what it was when it was counted.
- *Alerts.* The tables of streams are inductive with their types (`LiveInv`), every step of the alerts is a step of the
  process or leaves it alone (`StepsOfTheProcess`), and broadcasts follow from the tables. A cached transporter has a
  password that was configured when it was made (`MailInv`), whatever the configuration has become since.
- *Reports* (`ReportsInv`). The net sales a report has read so far, or would read now, are at most those of its
  beginning: refunds only grow, and the summary reads gross sales before anything else. A dashboard reads in any order,
  so for it this holds unless an order was written meanwhile (`grown`). The ranges are compared by calendar arithmetic:
  months are consecutive, a day is in one month, a month earlier is an earlier day. The breakdowns are sums over the
  same orders, or over their lines, whose totals, less discounts and plus shipping, are those of the orders (`SumAdd`),
  grouped by location, staff, day, product, tax rate or category; groups that overlap, as categories do, count a line
  once per group, and lists that are cut short or leave methods out are parts of such a sum.

**Sums and recursion.** Totals are folds over sets, defined with a `CHOOSE` of a recursive function. The library's induction
theorems take an operator as a parameter and cannot be used; instead, induction is stated over a *set* of naturals
(`NatSetInduction`, from well-foundedness) and, from it, over a set of finite sets (`SetInduction`), whose parameter is a
constant. `StockLedgerProofs` derives from these that the recursive function exists and is unique (`SumGraphExists`,
`SumUnique`), and then what sums do: `SumStep`, `SumUpdate`, `SumMonotone`, `SumAdd`, `SumPart`, `SumGroups` (summing the
sums of groups counts each element once per group) and `SumByKey` (two groupings of one set have one total). The other
proof modules take these by instance; the instance in `AlertsProofs` uses the lemmas on sums only and says nothing of
stock. `FirstDay`, the recursive function of the calendar, is shown to exist in the same way, and so is a choice of the
best customers of a report, which a `CHOOSE` would otherwise leave open.

**Only model-checked.** The liveness properties `OutdatedEnds`, `LowStockIsTold` and `ShutdownEnds`: they rest on fairness
and `ENABLED`, which the prover does not handle.

## 6. Disagreements found

Two have runs that check a statement of the code's own documentation and fail.

`alerts_repeated`: the in-app channel says it will "check if same alert was sent within last hour" and looks for the key
of the alert, while it stores that key with the user appended. The same low position is told again by every movement
that starts a check and leaves it low.

`session_report`: the starting cash of a session is in its row and, as a pay-in, in its entries. The close skips that pay-in
(pos.service.ts:171-175), and the types of the report describe `totalPayIns` as "Sum of PAY_IN amounts (excluding initial
float)" (reporting.types.ts:290) and the expected cash as "startingCash + netCashChange" (:293). `getPosSessionReport` sums
every pay-in (reports.service.extended.ts:749), so that the report of every session with a float expects the float twice.

Others were met while the models were written. They are behaviours of the models, allowed for by the conditions of the
properties:

- `receiveTransfer` accepts a transfer that is still PENDING; a partial receipt makes it IN_TRANSIT, of which the schema
  says "Items have left the source location", with nothing shipped, and no longer shippable.
- two entries of one receipt for one order line are each compared with the quantity read before the loop, although
  receiving says it will "Validate quantity doesn't exceed outstanding amount".
- a count is posted whatever the status of its items; the unresolved ones are left out.
- `updateOrderById` moves an unpaid order to PROCESSING, and no stock is taken for it, then or later.
- a pay-in whose notes say "Starting float" is taken for the float.
- deactivating a user or a tenant revokes no token (a comment in `deactivateTenantById` plans it); a tenant's status stops
  only `updateOwnTenantConfig`, and an operator's update reactivates a deactivated tenant.
- two updates of a tenant's configuration, or one and a deactivation with notes, lose one of them, since the whole column
  is written back.
- nothing calls `clearTransporterCache`: after a change of the SMTP password, mails and `sendTestEmail` use the old one
  for up to five minutes.
- `resumeOrder` and stock movements other than checkouts leave the product cache alone, as do categories.
- a category or location may be moved under its own descendant.
- refunds are not limited to the location or cashier a summary is asked for; a payment method that was only refunded
  is not listed; `getLowStock` filters after paging, and its total counts one page; the default period of the chart,
  `last_30_days`, is unknown to `getDateRange` and means today.
- `updateUserById` ignores a payload of nothing but roles or locations.
- `createTenantWithDefaults` gives the role Admin of a new tenant every permission there is (tenant.service.ts:156), the
  reserved ones included, while the seed filters them out, since "Super Admin permissions should NOT be given to tenant
  admins" (seed.ts:264), and the role service says that they "can ONLY be assigned by system/seeding, never through API"
  (role.service.ts:12). The model gives what the code gives, and `AdminRoleStands` is silent on it.
- `deleteCustomerById` counts no RETURNED order (customer.service.ts:228), and `updateOrderById` refuses to change the status
  of COMPLETED and CANCELLED orders only (order.service.ts:371): a returned order is open again after its customer is gone.
- orders that are entered (order.service.ts:250-266), held carts (pos.service.ts:1335-1348) and posted counts lower what is
  available and start no low-stock check; nobody is told until the next checkout, adjustment or shipped transfer.
- sales by product and the tax summary show line totals, which have no share of the discount and shipping of their order, so
  they do not add up to gross sales where there are any; `getSalesByProduct` takes the item discount off a line total that
  has it taken off already (pos.service.ts:912-931); and `totalDiscounts`, "Sum of Order.discountAmount +
  Sum(OrderItem.discountAmount)" (reporting.types.ts:58), sums the discounts of orders only (reports.service.ts:195).
- `createOrder` limits the discount of an order by nothing: its total may be negative. `BreakdownsReconcile` is proved for
  such orders too; a list of the best customers may then come to more than gross sales.
- two replacements of a tenant's administrators at once leave those of both.

## 7. What is not modelled

Within modelled components: lots, serial numbers and expiry dates; prices, taxes and item discounts of sales (in
`Reports` a line is its total, the discount and shipping of an order are inputs); order, return and count numbers, whose
collisions end in the failed request every model allows; payments other than their direction, method and whether they
are cash; the counted cash at the end of a session; one location in `StockCounts` and `Sales` (nothing in them relates
two locations); products that are not stock tracked in `Sales`; loyalty points and customer totals; access tokens, which
carry no state, and the password rules; contact data, addresses, a tenant's name and plan; which notifications have been
read; the SMS channel, a stub; the heartbeat of a stream; stock broadcasts after a checkout, which read stock again and
change nothing. `updateReturnStatus` cannot leave COMPLETED, the status every return is created with.

Left aside: the list reports (stock on hand, valuation, low stock, ledger, transfers, adjustments, purchases, customer
history), filtered reads of tables the other modules are about; uploads (file I/O); request validation, logging and the
Express wiring. Generated files (`coverage/`) and migrations are not code of the system.

## 8. The plan

Done: the ledger, transfers, purchase orders, counts, sales, cash sessions, accounts, access control, directory, catalogue,
live events, alerts, date ranges and reports, and proofs of all their safety properties. Left, in order:

1. An abstract specification of live sessions (who holds one, opened with which password) and a proof that `Accounts`
   implements it, as the modules of stock implement `StockLedger`.
2. `OrderNumbers`: the next number under a burst of orders, its fall-back to a timestamp, and what the string order of
   numbers does once one of them is longer or not a number.

Liveness stays with TLC.

## 9. Running

```
tlc -workers 2 -config MCTransfers.cfg MCTransfers      # every run: a cfg of PROJECT.json and its module
tlapm TransfersProofs.tla                               # every ...Proofs module
```

Most runs take less than two minutes, the longest (`access_control`, `accounts`) three to four with coverage statistics;
most proof modules take less than a minute, `AlertsProofs` and `CashSessionsProofs` one to three. `PROJECT.json` maps
each definition to the lines it models, names the mutant that breaks each property, and lists the hazards of the code
with the properties that cover them.
