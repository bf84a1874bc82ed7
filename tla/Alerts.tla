-------------------------------- MODULE Alerts --------------------------------
(***************************************************************************)
(* Low-stock alerts of one product at one location, from the stock change  *)
(* to the notifications and the mail (low-stock-check.helper.ts and        *)
(* modules/notifications), and the tenant's configuration that directs     *)
(* them (updateOwnTenantConfig, updateTenantById and deactivateTenantById  *)
(* in tenant.service.ts). A tenant on TRIAL counts as ACTIVE.              *)
(*                                                                         *)
(* Checkouts, adjustments, shipped transfers and new reorder points start  *)
(* a check that nobody waits for; the other movements of stock start none. *)
(* An error ends the channel the check is in, the end of the process ends  *)
(* the check. A configuration is one JSON column: an update reads it,      *)
(* merges its section and writes the whole. The SMS channel is a stub that *)
(* sends nothing. Which notifications have been read is not kept here, and *)
(* rows for the same user of the same tick are one.                        *)
(***************************************************************************)
EXTENDS LiveEvents, Sequences

CONSTANTS
  Users,
  Admins,           \* users with the role named Admin
  Stationed,        \* users assigned to the location
  Checks,           \* checks in flight at the same time
  Updates,          \* updates of the configuration in flight at the same time
  Changes,          \* updates of the configuration: a section and its value
  DefaultConfig,    \* the configuration to begin with
  Replacements,     \* configurations that replace the whole
  StatusUpdates,    \* bound: statuses an operator's update gives the tenant
  ReorderPoints,    \* what the reorder point is set to, 0 for none
  MaxAvailable,     \* bound: stock available
  DedupeWindow,     \* ticks that make the hour of the de-duplication
  CacheTtl,         \* ticks that make the five minutes of CACHE_TTL_MS
  MaxTick           \* bound: time

ASSUME AlertsAssumption ==
  /\ StatusUpdates \subseteq {"ACTIVE", "SUSPENDED"}
  /\ Admins \subseteq Users /\ Stationed \subseteq Users
  /\ MaxAvailable \in Nat /\ ReorderPoints \subseteq 0..MaxAvailable
  /\ DedupeWindow \in Nat /\ CacheTtl \in Nat \ {0} /\ MaxTick \in Nat

VARIABLES
  available,        \* on hand less allocated
  reorderPoint,
  unseen,           \* history: no check has looked since one was last called for
  status,           \* Tenant.status
  config,           \* Tenant.configuration
  active,           \* users that are active
  notes,            \* Notification rows of the product and location
  check,            \* what each check is about to do
  update,           \* what each update is to write, and what it has read
  now,
  transporter,      \* transporterCache of the tenant's SMTP host
  until             \* history: when each password was last the configured one

stockVars == <<available, reorderPoint, unseen>>
tenantVars == <<status, config, active>>
mailVars == <<transporter, until>>

vars == <<liveVars, stockVars, tenantVars, notes, check, update, now, mailVars>>

-----------------------------------------------------------------------------

\* What an alert type is set to on a channel.
Settings == [enabled : BOOLEAN, adminsOnly : BOOLEAN, locationFiltering : BOOLEAN]

\* The passwords of the SMTP account, 0 for no SMTP configuration.
NoSmtp == 0
Passwords ==
  {c.smtp : c \in Replacements \cup {DefaultConfig}} \cup
  {c.value : c \in {d \in Changes : d.section = "smtp"}}

Configurations ==
  [enabledChannels : SUBSET {"EMAIL"}, inApp : Settings, email : Settings, smtp : Passwords]

ASSUME ConfigurationAssumption ==
  /\ {DefaultConfig} \cup Replacements \subseteq Configurations
  /\ Changes \subseteq [section : {"enabledChannels"}, value : SUBSET {"EMAIL"}]
       \cup [section : {"inApp", "email"}, value : Settings]
       \cup [section : {"smtp"}, value : Nat]

Key == <<"low_stock">>
KeyOf(u) == Append(Key, u)

NoTransporter == [at |-> -1]
Idle == [step |-> "idle"]
At(k, step) == check[k].step = step

\* A check on its way: whether mail is an enabled channel, whom the channel that
\* has its turn is to tell, whether the in-app channel has failed, and the
\* password of the mail sent.
Checking(step, mails, to, lost, pass) ==
  [step |-> step, mails |-> mails, to |-> to, lost |-> lost, pass |-> pass]

Steps == {"check", "notify", "resolve", "create", "address", "send", "done"}

TypeOK ==
  /\ LiveTypeOK
  /\ available \in 0..MaxAvailable /\ reorderPoint \in ReorderPoints /\ unseen \in BOOLEAN
  /\ status \in {"ACTIVE", "SUSPENDED", "DEACTIVATED"}
  /\ config \in Configurations
  /\ active \subseteq Users
  /\ notes \subseteq [user : Users, dedupeKey : {KeyOf(u) : u \in Users}, at : 0..MaxTick]
  /\ check \in [Checks -> {Idle} \cup
       [step : Steps, mails : BOOLEAN, to : SUBSET Users, lost : BOOLEAN,
        pass : Passwords \cup {NoSmtp}]]
  /\ update \in [Updates -> {Idle} \cup
       [step : {"write"}, change : Changes, read : Configurations] \cup
       [step : {"deactivate"}, read : Configurations]]
  /\ now \in 0..MaxTick
  /\ transporter \in {NoTransporter} \cup [pass : Passwords, at : 0..MaxTick]
  /\ until \in [Passwords -> -1..MaxTick]

Init ==
  /\ LiveInit
  /\ available = MaxAvailable /\ reorderPoint \in ReorderPoints /\ unseen = FALSE
  /\ status = "ACTIVE"
  /\ config = DefaultConfig
  /\ active = Users
  /\ notes = {}
  /\ check = [k \in Checks |-> Idle]
  /\ update = [u \in Updates |-> Idle]
  /\ now = 0
  /\ transporter = NoTransporter
  /\ until = [p \in Passwords |-> IF p = DefaultConfig.smtp THEN 0 ELSE -1]

Proceed(k, next) == check' = [check EXCEPT ![k] = next]

-----------------------------------------------------------------------------
(* From the stock to an alert. *)

\* Nobody waits for it.
StartCheck(k) ==
  /\ At(k, "idle")
  /\ Proceed(k, Checking("check", FALSE, {}, FALSE, NoSmtp))

\* A checkout, an adjustment or the shipping of a transfer commits, and starts a
\* check.
Move(k, change) ==
  /\ server = "running"
  /\ available + change \in 0..MaxAvailable
  /\ available' = available + change
  /\ unseen' = TRUE
  /\ StartCheck(k)
  /\ UNCHANGED <<reorderPoint, tenantVars, notes, update, now, mailVars, liveVars>>

\* Every other movement checks nothing, those that leave less included: orders
\* entered and carts held allocate stock, counts post what is missing. Cancelled
\* orders, recalled carts, returns and what is received leave more.
MoveUnchecked(change) ==
  /\ server = "running"
  /\ available + change \in 0..MaxAvailable
  /\ available' = available + change
  /\ UNCHANGED <<reorderPoint, unseen, tenantVars, notes, check, update, now, mailVars, liveVars>>

\* updateInventoryItem; a reorder point that is set, not cleared, is checked at once.
SetReorderPoint(k, point) ==
  /\ server = "running"
  /\ reorderPoint' = point
  /\ IF point > 0
     THEN StartCheck(k) /\ unseen' = TRUE
     ELSE UNCHANGED <<check, unseen>>
  /\ UNCHANGED <<available, tenantVars, notes, update, now, mailVars, liveVars>>

\* Mutant: stock at the reorder point is not low yet.
BelowReorderPoint == reorderPoint > 0 /\ available < reorderPoint

IsLow == reorderPoint > 0 /\ available <= reorderPoint

CheckLowStock(k) ==
  /\ At(k, "check")
  /\ Proceed(k, IF IsLow THEN [check[k] EXCEPT !.step = "notify"] ELSE Idle)
  /\ unseen' = FALSE
  /\ UNCHANGED <<available, reorderPoint, tenantVars, notes, update, now, mailVars, liveVars>>

\* The rows have the user appended to the key, the search has not.
IsDuplicate == \E n \in notes : n.dedupeKey = Key /\ n.at >= now - DedupeWindow

AfterInApp(mails) == IF mails THEN "address" ELSE "done"

\* The channels are read first, then the in-app channel looks for a duplicate.
Notify(k) ==
  LET mails == "EMAIL" \in config.enabledChannels
      next  == IF IsDuplicate THEN AfterInApp(mails) ELSE "resolve"
  IN  /\ At(k, "notify")
      /\ Proceed(k, Checking(next, mails, {}, FALSE, NoSmtp))
      /\ UNCHANGED <<stockVars, tenantVars, notes, update, now, mailVars, liveVars>>

Eligible(settings) ==
  {u \in active :
     /\ settings.enabled
     /\ settings.adminsOnly => u \in Admins
     /\ settings.locationFiltering => u \in Admins \cup Stationed}

Resolve(k) ==
  LET to == Eligible(config.inApp)
      next == IF to = {} THEN AfterInApp(check[k].mails) ELSE "create"
  IN  /\ At(k, "resolve")
      /\ Proceed(k, [check[k] EXCEPT !.to = to, !.step = next])
      /\ UNCHANGED <<stockVars, tenantVars, notes, update, now, mailVars, liveVars>>

Note(u) == [user |-> u, dedupeKey |-> KeyOf(u), at |-> now]

\* One transaction for all, then the broadcast to the tenant's streams.
CreateNotes(k) ==
  /\ At(k, "create")
  /\ notes' = notes \cup {Note(u) : u \in check[k].to}
  /\ Proceed(k, [check[k] EXCEPT !.step = AfterInApp(check[k].mails), !.to = {}])
  /\ UNCHANGED <<stockVars, tenantVars, update, now, mailVars, liveVars>>

\* A query of the check or of the in-app channel fails: it is logged, and the
\* next channel has its turn.
FailInApp(k) ==
  /\ check[k].step \in {"check", "notify", "resolve", "create"}
  /\ Proceed(k, Checking(AfterInApp(check[k].mails), check[k].mails, {}, TRUE, NoSmtp))
  /\ unseen' = (unseen /\ ~At(k, "check"))
  /\ UNCHANGED <<available, reorderPoint, tenantVars, notes, update, now, mailVars, liveVars>>

-----------------------------------------------------------------------------
(* Mail. *)

\* The channel is skipped unless configured and somebody is to get the mail.
Address(k) ==
  /\ At(k, "address")
  /\ Proceed(k, [check[k] EXCEPT !.step =
       IF config.smtp # NoSmtp /\ Eligible(config.email) # {} THEN "send" ELSE "done"])
  /\ UNCHANGED <<stockVars, tenantVars, notes, update, now, mailVars, liveVars>>

\* Mutant: a transporter stays cached for good.
CachedForGood == transporter # NoTransporter

Cached == transporter # NoTransporter /\ now - transporter.at < CacheTtl

Transporter == IF Cached THEN transporter ELSE [pass |-> config.smtp, at |-> now]

\* The configuration is read again; a cached transporter has its own password,
\* which the mail goes out with.
SendEmail == IF config.smtp = NoSmtp THEN NoSmtp ELSE Transporter.pass

\* One mail to all; a server that does not accept it is logged.
SendMail(k, accepted) ==
  /\ At(k, "send")
  /\ transporter' = IF config.smtp = NoSmtp THEN transporter ELSE Transporter
  /\ Proceed(k, [check[k] EXCEPT !.step = "done", !.pass = IF accepted THEN SendEmail ELSE NoSmtp])
  /\ UNCHANGED <<stockVars, tenantVars, notes, update, now, until, liveVars>>

\* sendTestEmail: the connection is verified with the transporter a mail would
\* use, which stays cached; the test mail goes out with it.
VerifySmtpConnection ==
  /\ server = "running"
  /\ config.smtp # NoSmtp
  /\ transporter' = Transporter
  /\ UNCHANGED <<stockVars, tenantVars, notes, check, update, now, until, liveVars>>

\* The results are logged and the check is over.
Finish(k) ==
  /\ At(k, "done")
  /\ Proceed(k, Idle)
  /\ UNCHANGED <<stockVars, tenantVars, notes, update, now, mailVars, liveVars>>

-----------------------------------------------------------------------------
(* The configuration, the users and their notifications. *)

BeginUpdate(u, change) ==
  /\ server = "running" /\ update[u] = Idle
  /\ status = "ACTIVE"
  /\ update' = [update EXCEPT ![u] = [step |-> "write", change |-> change, read |-> config]]
  /\ UNCHANGED <<stockVars, tenantVars, notes, check, now, mailVars, liveVars>>

Merged(read, change) == [read EXCEPT ![change.section] = change.value]

\* The whole column is written, as it was read but for the section. The cached
\* transporter is left alone: nothing calls clearTransporterCache.
CommitUpdate(u) ==
  LET new == Merged(update[u].read, update[u].change)
  IN  /\ update[u].step = "write"
      /\ config' = IF new = update[u].read THEN config ELSE new
      /\ until' = [until EXCEPT ![config'.smtp] = now]
      /\ update' = [update EXCEPT ![u] = Idle]
      /\ UNCHANGED <<stockVars, status, active, notes, check, now, transporter, liveVars>>

\* An operator suspends or reactivates the tenant, a deactivated one too, or
\* replaces its configuration; what it read decides nothing.
UpdateTenantById(newStatus, new) ==
  /\ server = "running"
  /\ status' = newStatus
  /\ config' = new
  /\ until' = [until EXCEPT ![new.smtp] = now]
  /\ UNCHANGED <<stockVars, active, notes, check, update, now, transporter, liveVars>>

BeginDeactivate(u) ==
  /\ server = "running" /\ update[u] = Idle
  /\ status # "DEACTIVATED"
  /\ update' = [update EXCEPT ![u] = [step |-> "deactivate", read |-> config]]
  /\ UNCHANGED <<stockVars, tenantVars, notes, check, now, mailVars, liveVars>>

\* Notes on the reason are written with the configuration as it was read.
CommitDeactivate(u, noted) ==
  /\ update[u].step = "deactivate"
  /\ status' = "DEACTIVATED"
  /\ config' = IF noted THEN update[u].read ELSE config
  /\ until' = [until EXCEPT ![config'.smtp] = now]
  /\ update' = [update EXCEPT ![u] = Idle]
  /\ UNCHANGED <<stockVars, active, notes, check, now, transporter, liveVars>>

FailUpdate(u) ==
  /\ update[u] # Idle
  /\ update' = [update EXCEPT ![u] = Idle]
  /\ UNCHANGED <<stockVars, tenantVars, notes, check, now, mailVars, liveVars>>

\* Users come and go (user.service.ts). Bound: the administrators stay.
SetActive(u) ==
  /\ server = "running" /\ u \notin Admins
  /\ active' = IF u \in active THEN active \ {u} ELSE active \cup {u}
  /\ UNCHANGED <<stockVars, status, config, notes, check, update, now, mailVars, liveVars>>

\* A user's request deletes a notification of that user.
DeleteNotification(u) ==
  /\ server = "running"
  /\ \E n \in notes : n.user = u /\ notes' = notes \ {n}
  /\ UNCHANGED <<stockVars, tenantVars, check, update, now, mailVars, liveVars>>

Tick ==
  /\ Up /\ now < MaxTick
  /\ now' = now + 1
  /\ until' = [until EXCEPT ![config.smtp] = now + 1]
  /\ UNCHANGED <<stockVars, tenantVars, notes, check, update, transporter, liveVars>>

-----------------------------------------------------------------------------

CheckStep(k) ==
  \/ CheckLowStock(k) \/ Notify(k) \/ Resolve(k) \/ CreateNotes(k) \/ FailInApp(k)
  \/ Address(k) \/ Finish(k) \/ \E accepted \in BOOLEAN : SendMail(k, accepted)

\* Requests, checks and cached transporters die with the process.
Live(step) ==
  /\ step
  /\ IF server' = "exited"
     THEN check' = [k \in Checks |-> Idle] /\ update' = [u \in Updates |-> Idle]
          /\ transporter' = NoTransporter /\ unseen' = FALSE
     ELSE UNCHANGED <<check, update, transporter, unseen>>
  /\ UNCHANGED <<available, reorderPoint, tenantVars, notes, now, until>>

Next ==
  \/ Live(LiveNext)
  \/ \E k \in Checks :
       \/ CheckStep(k)
       \/ \E change \in {-1, 1} : Move(k, change)
       \/ \E point \in ReorderPoints : SetReorderPoint(k, point)
  \/ \E u \in Updates :
       \/ \E change \in Changes : BeginUpdate(u, change)
       \/ CommitUpdate(u) \/ FailUpdate(u) \/ BeginDeactivate(u)
       \/ \E noted \in BOOLEAN : CommitDeactivate(u, noted)
  \/ \E newStatus \in StatusUpdates, new \in Replacements \cup {config} :
       UpdateTenantById(newStatus, new)
  \/ \E change \in {-1, 1} : MoveUnchecked(change)
  \/ VerifySmtpConnection
  \/ \E u \in Users : SetActive(u) \/ DeleteNotification(u)
  \/ Tick

\* A check goes on as long as the process runs, since its awaits settle; the
\* timer of the shutdown fires.
Fairness ==
  /\ \A k \in Checks : WF_vars(CheckStep(k))
  /\ WF_vars(Live(ForceExit))

Spec == Init /\ [][Next]_vars /\ Fairness

-----------------------------------------------------------------------------
(* Properties. *)

ToldLately(u) == \E n \in notes : n.user = u /\ n.at >= now - DedupeWindow

\* Nobody waits for the check, and yet: a checkout, an adjustment, a shipped
\* transfer or a new reorder point that leaves the stock at the reorder point or
\* below ends with a notification for everyone the settings name, unless the stock
\* recovers first, the reorder point is cleared, the settings or the user change,
\* a query fails, or the process goes down. Nothing is promised of what the other
\* movements leave, by which nobody is told until the next check.
LowStockIsTold ==
  \A u \in Users :
    unseen /\ reorderPoint > 0 /\ available <= reorderPoint ~>
      \/ ToldLately(u)
      \/ available > reorderPoint \/ reorderPoint = 0
      \/ u \notin Eligible(config.inApp)
      \/ \E k \in Checks : (At(k, "done") \/ At(k, "address")) /\ check[k].lost
      \/ ~Up

\* A mail is sent with the password that is configured or, from the cache, with
\* one that was until less than five minutes ago.
MailPasswordIsRecent ==
  [][\A k \in Checks :
       At(k, "send") /\ check'[k].step = "done" /\ check'[k].pass # NoSmtp
         => now - until[check'[k].pass] < CacheTtl]_vars

\* The in-app channel says "check if same alert was sent within last hour" and
\* "Don't duplicate within last hour". It does not hold: rows are stored under the
\* key with the user appended, and looked for under the key alone.
NoRepeatWithinHour ==
  \A m, n \in notes :
    m.user = n.user /\ m.at < n.at => n.at - m.at > DedupeWindow
=============================================================================
