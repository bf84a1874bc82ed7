------------------------------ MODULE AlertsProofs ------------------------------
(***************************************************************************)
(* Proofs about the server process, about who may act in a tenant, and     *)
(* about the reports.                                                      *)
(*                                                                         *)
(* LiveEvents, as Alerts uses it: the two tables of streams agree because  *)
(* a stream is entered when it is in neither, which is what StreamsAgree   *)
(* says of one that is away; the invariant is inductive together with the  *)
(* types of the tables.  Alerts: the types, and the password a mail is     *)
(* sent with.                                                              *)
(*                                                                         *)
(* AccessControl: what a user holds, what a role is, and what a request in *)
(* flight has read, each of which needs the others (AccessInv, below).     *)
(*                                                                         *)
(* Reports: the calendar and the ranges that are compared; what a report   *)
(* in the making knows (ReportsInv, below); the breakdowns, which are      *)
(* sums over the same orders grouped in different ways.                    *)
(***************************************************************************)
EXTENDS Alerts, AccessControl, Reports, FiniteSetTheorems, WellFoundedInduction, TLAPS

\* The two tables without the broadcasts, which follow from them.
TablesAgree ==
  \A c \in Streams, l \in Locations :
    /\ c \in clients[l] <=> stream[c] # "away" /\ place[c] = l
    /\ c \in tenantClients <=> stream[c] # "away"

LiveInv == LiveTypeOK /\ TablesAgree

-----------------------------------------------------------------------------

\* A broadcast reaches the open streams of its table: tables that agree make
\* broadcasts that agree.
LEMMA BroadcastsFollow ==
  ASSUME LiveTypeOK, TablesAgree
  PROVE  StreamsAgree
  BY DEF LiveTypeOK, TablesAgree, StreamsAgree, Reached, BroadcastNotification, BroadcastToLocation

\* A process that starts knows no stream.
LEMMA LiveInitially ==
  ASSUME LiveInit
  PROVE  LiveInv
  BY DEF LiveInit, LiveInv, LiveTypeOK, TablesAgree, NoCode

\* Every step of the process keeps the tables and their types.
LEMMA LiveStep ==
  ASSUME LiveInv, [LiveNext]_liveVars
  PROVE  LiveInv'
<1> USE DEF LiveInv, LiveTypeOK, TablesAgree
<1>1. ASSUME NEW c \in Streams, NEW l \in Locations, Connect(c, l)
      PROVE  LiveInv'
  BY <1>1 DEF Connect, RegisterClient
<1>2. ASSUME NEW c \in Streams, Break(c)
      PROVE  LiveInv'
  BY <1>2 DEF Break
<1>3. ASSUME NEW c \in Streams, Closed(c)
      PROVE  LiveInv'
  BY <1>3 DEF Closed, RemoveClient
<1>4. CASE StartServer
  BY <1>4 DEF StartServer
<1>5. CASE Shutdown
  BY <1>5 DEF Shutdown
<1>6. ASSUME NEW failed \in BOOLEAN, CloseServer(failed)
      PROVE  LiveInv'
  BY <1>6 DEF CloseServer
<1>7. ASSUME NEW code \in {0, 1}, Exit(code)
      PROVE  LiveInv'
  BY <1>7 DEF Exit
<1>8. ASSUME NEW failed \in BOOLEAN, Quit(failed)
      PROVE  LiveInv'
  BY <1>7, <1>8 DEF Quit
<1>9. CASE ForceExit
  BY <1>7, <1>9 DEF ForceExit
<1>10. CASE UNCHANGED liveVars
  BY <1>10 DEF liveVars
<1> QED
  BY <1>1, <1>2, <1>3, <1>4, <1>5, <1>6, <1>8, <1>9, <1>10 DEF LiveNext

\* A step of the alerts is one of the process or leaves it alone.
LEMMA StepsOfTheProcess ==
  ASSUME [Next]_vars
  PROVE  [LiveNext]_liveVars
<1>1. ASSUME NEW k \in Checks, CheckStep(k)
      PROVE  UNCHANGED liveVars
  BY <1>1 DEF CheckStep, CheckLowStock, Notify, Resolve, CreateNotes, FailInApp, Address, Finish, SendMail
<1>2. ASSUME NEW k \in Checks, NEW change \in {-1, 1}, Move(k, change)
      PROVE  UNCHANGED liveVars
  BY <1>2 DEF Move
<1>3. ASSUME NEW k \in Checks, NEW point \in ReorderPoints, SetReorderPoint(k, point)
      PROVE  UNCHANGED liveVars
  BY <1>3 DEF SetReorderPoint
<1>4. ASSUME NEW u \in Updates, NEW change \in Changes, BeginUpdate(u, change)
      PROVE  UNCHANGED liveVars
  BY <1>4 DEF BeginUpdate
<1>5. ASSUME NEW u \in Updates,
             \/ CommitUpdate(u) \/ FailUpdate(u) \/ BeginDeactivate(u)
             \/ \E noted \in BOOLEAN : CommitDeactivate(u, noted)
      PROVE  UNCHANGED liveVars
  BY <1>5 DEF CommitUpdate, FailUpdate, BeginDeactivate, CommitDeactivate
<1>6. ASSUME NEW newStatus \in StatusUpdates, NEW new, UpdateTenantById(newStatus, new)
      PROVE  UNCHANGED liveVars
  BY <1>6 DEF UpdateTenantById
<1>7. ASSUME NEW change \in {-1, 1}, MoveUnchecked(change)
      PROVE  UNCHANGED liveVars
  BY <1>7 DEF MoveUnchecked
<1>8. CASE VerifySmtpConnection
  BY <1>8 DEF VerifySmtpConnection
<1>9. ASSUME NEW u \in Users, SetActive(u) \/ DeleteNotification(u)
      PROVE  UNCHANGED liveVars
  BY <1>9 DEF SetActive, DeleteNotification
<1>10. CASE Tick
  BY <1>10 DEF Tick
<1>11. CASE Live(LiveNext)
  BY <1>11 DEF Live
<1>12. CASE UNCHANGED vars
  BY <1>12 DEF vars
<1> QED
  BY <1>1, <1>2, <1>3, <1>4, <1>5, <1>6, <1>7, <1>8, <1>9, <1>10, <1>11, <1>12 DEF Next

-----------------------------------------------------------------------------

\* For any terminals, locations and users, and any number of checks and updates
\* at once: the stream tables of a location and of the tenant agree with each
\* other and with the connections that are open or not yet known to be lost, so
\* a broadcast misses no open stream (registerClient, removeClient and the
\* handler of the close event in sse.routes.ts).
THEOREM StreamsAlwaysAgree == Spec => []StreamsAgree
<1>1. Init => LiveInv
  BY LiveInitially DEF Init
<1>2. LiveInv /\ [Next]_vars => LiveInv'
  BY LiveStep, StepsOfTheProcess
<1>3. LiveInv => StreamsAgree
  BY BroadcastsFollow DEF LiveInv
<1> QED
  BY <1>1, <1>2, <1>3, PTL DEF Spec

-----------------------------------------------------------------------------
(* The configuration and the mail. *)

\* What a check, an update and a cached transporter may be.
CheckState == {Idle} \cup
  [step : Steps, mails : BOOLEAN, to : SUBSET Users, lost : BOOLEAN, pass : Passwords \cup {NoSmtp}]
UpdateState == {Idle} \cup
  [step : {"write"}, change : Changes, read : Configurations] \cup
  [step : {"deactivate"}, read : Configurations]
Cacheable == {NoTransporter} \cup [pass : Passwords, at : 0..MaxTick]

\* The configured password is the configured one just now, and a cached
\* transporter has a password that was so when it was made.
MailInv ==
  /\ until[config.smtp] = now
  /\ transporter # NoTransporter => transporter.at <= until[transporter.pass] /\ transporter.at <= now

AlertsInv == TypeOK /\ MailInv

\* A section that is merged leaves a configuration.
LEMMA MergedIsConfiguration ==
  ASSUME NEW read \in Configurations, NEW change \in Changes
  PROVE  Merged(read, change) \in Configurations
<1>1. CASE change.section = "enabledChannels"
  BY <1>1, ConfigurationAssumption DEF Merged, Configurations
<1>2. CASE change.section = "inApp"
  BY <1>2, ConfigurationAssumption DEF Merged, Configurations
<1>3. CASE change.section = "email"
  BY <1>3, ConfigurationAssumption DEF Merged, Configurations
<1>4. CASE change.section = "smtp"
  <2>1. change.value \in Passwords
    BY <1>4 DEF Passwords
  <2> HIDE DEF Passwords
  <2> QED
    BY <1>4, <2>1 DEF Merged, Configurations
<1> QED
  BY <1>1, <1>2, <1>3, <1>4, ConfigurationAssumption

LEMMA PasswordIsConfigured == \A c \in Configurations : c.smtp \in Passwords
  BY DEF Configurations

\* A check that is started or goes on.
LEMMA CheckingIsCheck ==
  ASSUME NEW step \in Steps, NEW mails \in BOOLEAN, NEW to \in SUBSET Users, NEW lost \in BOOLEAN,
         NEW pass \in Passwords \cup {NoSmtp}
  PROVE  Checking(step, mails, to, lost, pass) \in CheckState
  BY DEF Checking, CheckState

LEMMA CheckFacts ==
  ASSUME TypeOK, NEW k \in Checks, check[k].step \in Steps
  PROVE  /\ check[k] \in CheckState
         /\ check[k].mails \in BOOLEAN
         /\ \A step \in Steps : [check[k] EXCEPT !.step = step] \in CheckState
         /\ \A step \in Steps, to \in SUBSET Users :
              [check[k] EXCEPT !.to = to, !.step = step] \in CheckState
         /\ \A step \in Steps, to \in SUBSET Users :
              [check[k] EXCEPT !.step = step, !.to = to] \in CheckState
         /\ \A step \in Steps, pass \in Passwords \cup {NoSmtp} :
              [check[k] EXCEPT !.step = step, !.pass = pass] \in CheckState
<1>1. check[k] \in CheckState
  BY DEF TypeOK, CheckState
<1>2. "idle" \notin Steps
  BY DEF Steps
<1>3. check[k] # Idle
  BY <1>2 DEF Idle
<1> HIDE DEF Steps, Passwords
<1> QED
  BY <1>1, <1>3 DEF CheckState

LEMMA AlwaysSteps == {"check", "notify", "resolve", "create", "address", "send", "done"} = Steps
  BY DEF Steps

\* A step of a check that changes nothing else but the stock keeps the types.
LEMMA CheckKeeps ==
  ASSUME AlertsInv, LiveTypeOK', NEW k \in Checks, NEW next \in CheckState,
         Proceed(k, next) \/ UNCHANGED check,
         available' \in 0..MaxAvailable, reorderPoint' \in ReorderPoints, unseen' \in BOOLEAN,
         UNCHANGED <<tenantVars, notes, update, now, mailVars>>
  PROVE  AlertsInv'
<1>1. check' \in [Checks -> CheckState]
  BY DEF Proceed, AlertsInv, TypeOK, CheckState
<1> QED
  BY <1>1 DEF AlertsInv, TypeOK, MailInv, tenantVars, mailVars, CheckState

\* What a movement of stock or a new reorder point starts.
LEMMA StockKeeps ==
  ASSUME AlertsInv, LiveTypeOK', NEW k \in Checks,
         \/ \E change \in {-1, 1} : Move(k, change)
         \/ \E point \in ReorderPoints : SetReorderPoint(k, point)
  PROVE  AlertsInv'
<1>1. Checking("check", FALSE, {}, FALSE, NoSmtp) \in CheckState
  BY CheckingIsCheck, AlwaysSteps
<1>2. available \in 0..MaxAvailable /\ reorderPoint \in ReorderPoints /\ MaxAvailable \in Nat
      /\ unseen \in BOOLEAN
  BY AlertsAssumption DEF AlertsInv, TypeOK
<1>3. CASE \E change \in {-1, 1} : Move(k, change)
  <2>1. available' \in 0..MaxAvailable
    BY <1>3, <1>2 DEF Move
  <2> QED
    BY <1>1, <1>2, <1>3, <2>1, CheckKeeps DEF Move, StartCheck
<1>4. CASE \E point \in ReorderPoints : SetReorderPoint(k, point)
  BY <1>1, <1>2, <1>4, CheckKeeps DEF SetReorderPoint, StartCheck
<1> QED
  BY <1>3, <1>4

\* Every step of a check but those that write a notification or send a mail.
LEMMA CheckingKeeps ==
  ASSUME AlertsInv, LiveTypeOK', NEW k \in Checks,
         CheckLowStock(k) \/ Notify(k) \/ Resolve(k) \/ FailInApp(k) \/ Address(k) \/ Finish(k)
  PROVE  AlertsInv'
<1>1. available \in 0..MaxAvailable /\ reorderPoint \in ReorderPoints /\ unseen \in BOOLEAN
  BY DEF AlertsInv, TypeOK
<1>2. \A mails \in BOOLEAN : AfterInApp(mails) \in Steps
  BY AlwaysSteps DEF AfterInApp
<1>3. \A settings : Eligible(settings) \in SUBSET Users
  BY DEF Eligible, AlertsInv, TypeOK
<1>4. check[k].step \in Steps
  BY AlwaysSteps DEF CheckLowStock, Notify, Resolve, FailInApp, Address, Finish, At
<1>5. check[k].mails \in BOOLEAN
  BY <1>4, CheckFacts DEF AlertsInv
<1>6. Idle \in CheckState
  BY DEF CheckState
<1>7. CASE CheckLowStock(k)
  <2>1. [check[k] EXCEPT !.step = "notify"] \in CheckState
    BY <1>4, CheckFacts, AlwaysSteps DEF AlertsInv
  <2> DEFINE next == IF IsLow THEN [check[k] EXCEPT !.step = "notify"] ELSE Idle
  <2>2. next \in CheckState /\ Proceed(k, next)
    BY <1>6, <1>7, <2>1 DEF CheckLowStock
  <2> HIDE DEF next
  <2> QED
    BY <1>1, <1>7, <2>2, CheckKeeps DEF CheckLowStock
<1>8. CASE Notify(k)
  <2> DEFINE mails == "EMAIL" \in config.enabledChannels
             step == IF IsDuplicate THEN AfterInApp(mails) ELSE "resolve"
             next == Checking(step, mails, {}, FALSE, NoSmtp)
  <2>1. mails \in BOOLEAN
    OBVIOUS
  <2>2. step \in Steps
    BY <1>2, <2>1, AlwaysSteps
  <2>3. Proceed(k, next)
    BY <1>8 DEF Notify
  <2> HIDE DEF mails, step
  <2>4. next \in CheckState
    BY <2>1, <2>2, CheckingIsCheck
  <2> HIDE DEF next
  <2> QED
    BY <1>1, <1>8, <2>3, <2>4, CheckKeeps DEF Notify, stockVars
<1>9. CASE Resolve(k)
  <2> DEFINE to == Eligible(config.inApp)
             step == IF to = {} THEN AfterInApp(check[k].mails) ELSE "create"
             next == [check[k] EXCEPT !.to = to, !.step = step]
  <2>1. to \in SUBSET Users /\ step \in Steps
    BY <1>2, <1>3, <1>5, AlwaysSteps
  <2>2. Proceed(k, next)
    BY <1>9 DEF Resolve
  <2> HIDE DEF to, step
  <2>3. next \in CheckState
    BY <1>4, <2>1, CheckFacts DEF AlertsInv
  <2> HIDE DEF next
  <2> QED
    BY <1>1, <1>9, <2>2, <2>3, CheckKeeps DEF Resolve, stockVars
<1>10. CASE FailInApp(k)
  <2> DEFINE next == Checking(AfterInApp(check[k].mails), check[k].mails, {}, TRUE, NoSmtp)
  <2>1. next \in CheckState
    BY <1>2, <1>5, CheckingIsCheck
  <2>2. Proceed(k, next)
    BY <1>10 DEF FailInApp
  <2> HIDE DEF next
  <2>3. unseen' \in BOOLEAN
    BY <1>10 DEF FailInApp
  <2> QED
    BY <1>1, <1>10, <2>1, <2>2, <2>3, CheckKeeps DEF FailInApp
<1>11. CASE Address(k)
  <2> DEFINE step == IF config.smtp # NoSmtp /\ Eligible(config.email) # {} THEN "send" ELSE "done"
             next == [check[k] EXCEPT !.step = step]
  <2>1. step \in Steps
    BY AlwaysSteps
  <2>2. Proceed(k, next)
    BY <1>11 DEF Address
  <2> HIDE DEF step
  <2>3. next \in CheckState
    BY <1>4, <2>1, CheckFacts DEF AlertsInv
  <2> HIDE DEF next
  <2> QED
    BY <1>1, <1>11, <2>2, <2>3, CheckKeeps DEF Address, stockVars
<1>12. CASE Finish(k)
  BY <1>1, <1>6, <1>12, CheckKeeps DEF Finish, stockVars
<1> QED
  BY <1>7, <1>8, <1>9, <1>10, <1>11, <1>12

LEMMA CreateNotesKeeps ==
  ASSUME AlertsInv, LiveTypeOK', NEW k \in Checks, CreateNotes(k)
  PROVE  AlertsInv'
<1> DEFINE step == AfterInApp(check[k].mails)  next == [check[k] EXCEPT !.step = step, !.to = {}]
<1>1. check[k].step \in Steps
  BY AlwaysSteps DEF CreateNotes, At
<1>2. step \in Steps
  BY <1>1, AlwaysSteps DEF AfterInApp
<1>3. Proceed(k, next)
  BY DEF CreateNotes
<1>4. check[k].to \subseteq Users
  <2>1. check[k] \in CheckState /\ "idle" \notin Steps
    BY AlwaysSteps DEF AlertsInv, TypeOK, CheckState
  <2>2. check[k] # Idle
    BY <1>1, <2>1 DEF Idle
  <2> QED
    BY <2>1, <2>2 DEF CheckState
<1> HIDE DEF step
<1>5. next \in CheckState
  BY <1>1, <1>2, CheckFacts DEF AlertsInv
<1> HIDE DEF next
<1>6. check' \in [Checks -> CheckState]
  BY <1>3, <1>5 DEF Proceed, AlertsInv, TypeOK, CheckState
<1> DEFINE rows == [user : Users, dedupeKey : {KeyOf(u) : u \in Users}, at : 0..MaxTick]
<1>7. \A u \in Users : Note(u) \in rows
  BY DEF Note, AlertsInv, TypeOK
<1>8. notes' = notes \cup {Note(u) : u \in check[k].to}
  BY DEF CreateNotes
<1>9. notes \subseteq rows
  BY DEF AlertsInv, TypeOK
<1>10. notes' \subseteq rows
  <2> HIDE DEF rows
  <2> QED
    BY <1>4, <1>7, <1>8, <1>9
<1> QED
  BY <1>6, <1>10 DEF CreateNotes, AlertsInv, TypeOK, MailInv, tenantVars, stockVars, mailVars, CheckState

\* The transporter that a mail is sent with.
LEMMA TransporterFacts ==
  ASSUME AlertsInv
  PROVE  /\ Transporter \in Cacheable \ {NoTransporter}
         /\ Transporter.pass \in Passwords
         /\ Transporter.at \in 0..MaxTick
         /\ Transporter.at <= until[Transporter.pass] /\ Transporter.at <= now
         /\ now - until[Transporter.pass] < CacheTtl
<1>1. /\ now \in 0..MaxTick /\ MaxTick \in Nat /\ CacheTtl \in Nat \ {0}
      /\ config.smtp \in Passwords /\ until \in [Passwords -> -1..MaxTick]
      /\ transporter \in Cacheable
  BY PasswordIsConfigured, AlertsAssumption DEF AlertsInv, TypeOK, Cacheable
<1> DEFINE new == [pass |-> config.smtp, at |-> now]
<1>2. /\ new \in [pass : Passwords, at : 0..MaxTick] /\ new.pass = config.smtp /\ new.at = now
      /\ new # NoTransporter
  BY <1>1 DEF NoTransporter
<1> HIDE DEF new, Passwords
<1>3. CASE Cached
  <2>1. transporter \in [pass : Passwords, at : 0..MaxTick] /\ now - transporter.at < CacheTtl
        /\ Transporter = transporter /\ transporter # NoTransporter
    BY <1>1, <1>3 DEF Cached, Cacheable, Transporter
  <2>2. transporter.at <= until[transporter.pass] /\ transporter.at <= now
    BY <2>1 DEF AlertsInv, MailInv
  <2>3. until[transporter.pass] \in -1..MaxTick /\ transporter.at \in 0..MaxTick
        /\ transporter.pass \in Passwords
    BY <1>1, <2>1
  <2>4. now - until[transporter.pass] < CacheTtl
    BY <1>1, <2>1, <2>2, <2>3
  <2> QED
    BY <1>1, <2>1, <2>2, <2>3, <2>4
<1>4. CASE ~Cached
  <2>1. Transporter = new
    BY <1>4 DEF Transporter, new
  <2>2. until[config.smtp] = now
    BY DEF AlertsInv, MailInv
  <2> QED
    BY <1>1, <1>2, <2>1, <2>2 DEF Cacheable
<1> QED
  BY <1>3, <1>4

LEMMA SendMailKeeps ==
  ASSUME AlertsInv, LiveTypeOK', NEW k \in Checks, NEW accepted \in BOOLEAN, SendMail(k, accepted)
  PROVE  AlertsInv'
<1> DEFINE pass == IF accepted THEN SendEmail ELSE NoSmtp
           next == [check[k] EXCEPT !.step = "done", !.pass = pass]
<1>1. pass \in Passwords \cup {NoSmtp}
  BY TransporterFacts DEF SendEmail
<1>2. check[k].step \in Steps /\ "done" \in Steps
  BY AlwaysSteps DEF SendMail, At
<1>3. Proceed(k, next)
  BY DEF SendMail
<1> HIDE DEF pass
<1>4. next \in CheckState
  BY <1>1, <1>2, CheckFacts DEF AlertsInv
<1> HIDE DEF next
<1>5. check' \in [Checks -> CheckState]
  BY <1>3, <1>4 DEF Proceed, AlertsInv, TypeOK, CheckState
<1>6. /\ transporter' \in Cacheable
      /\ transporter' # NoTransporter =>
           transporter'.at <= until[transporter'.pass] /\ transporter'.at <= now
  BY TransporterFacts DEF SendMail, AlertsInv, TypeOK, MailInv, Cacheable
<1> QED
  BY <1>5, <1>6
     DEF SendMail, AlertsInv, TypeOK, MailInv, tenantVars, stockVars, CheckState, Cacheable

LEMMA VerifyKeeps ==
  ASSUME AlertsInv, LiveTypeOK', VerifySmtpConnection
  PROVE  AlertsInv'
<1>1. /\ transporter' \in Cacheable
      /\ transporter'.at <= until[transporter'.pass] /\ transporter'.at <= now
  BY TransporterFacts DEF VerifySmtpConnection
<1> QED
  BY <1>1 DEF VerifySmtpConnection, AlertsInv, TypeOK, MailInv, tenantVars, stockVars, Cacheable

\* A configuration is written, now.
LEMMA ConfigurationKeeps ==
  ASSUME AlertsInv, LiveTypeOK', config' \in Configurations,
         status' \in {"ACTIVE", "SUSPENDED", "DEACTIVATED"},
         until' = [until EXCEPT ![config'.smtp] = now], update' \in [Updates -> UpdateState],
         UNCHANGED <<stockVars, active, notes, check, now, transporter>>
  PROVE  AlertsInv'
<1>1. config'.smtp \in Passwords
  BY PasswordIsConfigured
<1>2. now \in 0..MaxTick /\ MaxTick \in Nat /\ now \in -1..MaxTick
  BY AlertsAssumption DEF AlertsInv, TypeOK
<1>3. until' \in [Passwords -> -1..MaxTick] /\ until'[config'.smtp] = now
  BY <1>1, <1>2 DEF AlertsInv, TypeOK
<1>4. transporter # NoTransporter =>
        transporter.at <= until'[transporter.pass] /\ transporter.at <= now
  BY <1>2 DEF AlertsInv, TypeOK, MailInv
<1>5. MailInv'
  BY <1>3, <1>4 DEF MailInv
<1>6. TypeOK'
  BY <1>3 DEF AlertsInv, TypeOK, stockVars, UpdateState
<1> QED
  BY <1>5, <1>6 DEF AlertsInv

\* A step that changes nothing but the updates under way.
LEMMA UpdateKeeps ==
  ASSUME AlertsInv, LiveTypeOK', update' \in [Updates -> UpdateState],
         UNCHANGED <<stockVars, tenantVars, notes, check, now, mailVars>>
  PROVE  AlertsInv'
  BY DEF AlertsInv, TypeOK, MailInv, stockVars, tenantVars, mailVars, UpdateState

LEMMA UpdatesKeep ==
  ASSUME AlertsInv, LiveTypeOK', NEW u \in Updates,
         \/ \E change \in Changes : BeginUpdate(u, change)
         \/ CommitUpdate(u) \/ FailUpdate(u) \/ BeginDeactivate(u)
         \/ \E noted \in BOOLEAN : CommitDeactivate(u, noted)
  PROVE  AlertsInv'
<1>1. update \in [Updates -> UpdateState] /\ config \in Configurations
      /\ status \in {"ACTIVE", "SUSPENDED", "DEACTIVATED"} /\ Idle \in UpdateState
  BY DEF AlertsInv, TypeOK, UpdateState
<1>2. ASSUME NEW change \in Changes, BeginUpdate(u, change)
      PROVE  AlertsInv'
  <2>1. [step |-> "write", change |-> change, read |-> config] \in UpdateState
    BY <1>1 DEF UpdateState
  <2>2. update' \in [Updates -> UpdateState]
    BY <1>1, <1>2, <2>1 DEF BeginUpdate
  <2> QED
    BY <1>2, <2>2, UpdateKeeps DEF BeginUpdate
<1>3. CASE CommitUpdate(u)
  <2>1. update[u].read \in Configurations /\ update[u].change \in Changes
    BY <1>1, <1>3 DEF CommitUpdate, UpdateState, Idle
  <2>2. config' \in Configurations
    BY <1>1, <1>3, <2>1, MergedIsConfiguration DEF CommitUpdate
  <2>3. update' \in [Updates -> UpdateState]
    BY <1>1, <1>3 DEF CommitUpdate
  <2> QED
    BY <1>1, <1>3, <2>2, <2>3, ConfigurationKeeps DEF CommitUpdate
<1>4. CASE FailUpdate(u)
  <2>1. update' \in [Updates -> UpdateState]
    BY <1>1, <1>4 DEF FailUpdate
  <2> QED
    BY <1>4, <2>1, UpdateKeeps DEF FailUpdate
<1>5. CASE BeginDeactivate(u)
  <2>1. [step |-> "deactivate", read |-> config] \in UpdateState
    BY <1>1 DEF UpdateState
  <2>2. update' \in [Updates -> UpdateState]
    BY <1>1, <1>5, <2>1 DEF BeginDeactivate
  <2> QED
    BY <1>5, <2>2, UpdateKeeps DEF BeginDeactivate
<1>6. ASSUME NEW noted \in BOOLEAN, CommitDeactivate(u, noted)
      PROVE  AlertsInv'
  <2>1. update[u].read \in Configurations
    BY <1>1, <1>6 DEF CommitDeactivate, UpdateState, Idle
  <2>2. config' \in Configurations
    BY <1>1, <1>6, <2>1 DEF CommitDeactivate
  <2>3. update' \in [Updates -> UpdateState]
    BY <1>1, <1>6 DEF CommitDeactivate
  <2> QED
    BY <1>1, <1>6, <2>2, <2>3, ConfigurationKeeps DEF CommitDeactivate
<1> QED
  BY <1>2, <1>3, <1>4, <1>5, <1>6

LEMMA OthersKeep ==
  ASSUME AlertsInv, LiveTypeOK',
         \/ \E newStatus \in StatusUpdates, new \in Replacements \cup {config} :
              UpdateTenantById(newStatus, new)
         \/ \E u \in Users : SetActive(u) \/ DeleteNotification(u)
         \/ Tick \/ Live(LiveNext) \/ UNCHANGED vars
  PROVE  AlertsInv'
<1>1. ASSUME NEW newStatus \in StatusUpdates, NEW new \in Replacements \cup {config},
             UpdateTenantById(newStatus, new)
      PROVE  AlertsInv'
  <2>1. new \in Configurations /\ newStatus \in {"ACTIVE", "SUSPENDED", "DEACTIVATED"}
    BY AlertsAssumption, ConfigurationAssumption DEF AlertsInv, TypeOK
  <2>2. update' \in [Updates -> UpdateState]
    BY <1>1 DEF UpdateTenantById, AlertsInv, TypeOK, UpdateState
  <2> QED
    BY <1>1, <2>1, <2>2, ConfigurationKeeps DEF UpdateTenantById
<1>2. ASSUME NEW u \in Users, SetActive(u) \/ DeleteNotification(u)
      PROVE  AlertsInv'
  BY <1>2 DEF SetActive, DeleteNotification, AlertsInv, TypeOK, MailInv, stockVars, tenantVars, mailVars
<1>3. CASE Tick
  <2>1. config.smtp \in Passwords /\ now \in 0..MaxTick /\ MaxTick \in Nat /\ now' = now + 1
        /\ now' \in 0..MaxTick /\ now' \in -1..MaxTick
    BY <1>3, PasswordIsConfigured, AlertsAssumption DEF Tick, AlertsInv, TypeOK
  <2>2. until' \in [Passwords -> -1..MaxTick] /\ until'[config.smtp] = now'
    BY <1>3, <2>1 DEF Tick, AlertsInv, TypeOK
  <2>3. transporter # NoTransporter =>
          transporter.at <= until'[transporter.pass] /\ transporter.at <= now'
    BY <1>3, <2>1 DEF Tick, AlertsInv, TypeOK, MailInv
  <2>4. UNCHANGED <<stockVars, tenantVars, notes, check, update, transporter>>
    BY <1>3 DEF Tick
  <2> QED
    BY <2>1, <2>2, <2>3, <2>4 DEF AlertsInv, TypeOK, MailInv, stockVars, tenantVars
<1>4. CASE Live(LiveNext)
  <2>1. /\ check' \in [Checks -> CheckState]
        /\ update' \in [Updates -> UpdateState]
        /\ transporter' \in {transporter, NoTransporter}
        /\ unseen' \in BOOLEAN
    BY <1>4 DEF Live, AlertsInv, TypeOK, CheckState, UpdateState
  <2>2. UNCHANGED <<available, reorderPoint, tenantVars, notes, now, until>>
    BY <1>4 DEF Live
  <2> QED
    BY <2>1, <2>2 DEF AlertsInv, TypeOK, MailInv, tenantVars, CheckState, UpdateState
<1>5. CASE UNCHANGED vars
  BY <1>5 DEF vars, AlertsInv, TypeOK, MailInv, stockVars, tenantVars, mailVars
<1> QED
  BY <1>1, <1>2, <1>3, <1>4, <1>5

LEMMA AlertsStep ==
  ASSUME LiveInv, AlertsInv, [Next]_vars
  PROVE  LiveInv' /\ AlertsInv'
<1>1. LiveInv' /\ LiveTypeOK'
  BY LiveStep, StepsOfTheProcess DEF LiveInv
<1>2. ASSUME NEW k \in Checks, CheckStep(k)
      PROVE  AlertsInv'
  BY <1>1, <1>2, CheckingKeeps, CreateNotesKeeps, SendMailKeeps DEF CheckStep
<1>3. ASSUME NEW k \in Checks,
             \/ \E change \in {-1, 1} : Move(k, change)
             \/ \E point \in ReorderPoints : SetReorderPoint(k, point)
      PROVE  AlertsInv'
  BY <1>1, <1>3, StockKeeps
<1>4. ASSUME NEW u \in Updates,
             \/ \E change \in Changes : BeginUpdate(u, change)
             \/ CommitUpdate(u) \/ FailUpdate(u) \/ BeginDeactivate(u)
             \/ \E noted \in BOOLEAN : CommitDeactivate(u, noted)
      PROVE  AlertsInv'
  BY <1>1, <1>4, UpdatesKeep
<1>5. ASSUME NEW change \in {-1, 1}, MoveUnchecked(change)
      PROVE  AlertsInv'
  <2>1. available' \in 0..MaxAvailable
    BY <1>5, AlertsAssumption DEF MoveUnchecked, AlertsInv, TypeOK
  <2> QED
    BY <1>1, <1>5, <2>1 DEF MoveUnchecked, AlertsInv, TypeOK, MailInv, tenantVars, mailVars
<1>6. CASE VerifySmtpConnection
  BY <1>1, <1>6, VerifyKeeps
<1>7. CASE \/ \E newStatus \in StatusUpdates, new \in Replacements \cup {config} :
                UpdateTenantById(newStatus, new)
           \/ \E u \in Users : SetActive(u) \/ DeleteNotification(u)
           \/ Tick \/ Live(LiveNext) \/ UNCHANGED vars
  BY <1>1, <1>7, OthersKeep
<1> QED
  BY <1>1, <1>2, <1>3, <1>4, <1>5, <1>6, <1>7 DEF Next

\* The process starts with the configuration of the day, and no mail sent.
LEMMA AlertsInitially ==
  ASSUME Init
  PROVE  LiveInv /\ AlertsInv
<1>1. LiveInv
  BY LiveInitially DEF Init
<1>2. DefaultConfig \in Configurations /\ DefaultConfig.smtp \in Passwords
  BY ConfigurationAssumption, PasswordIsConfigured
<1>3. 0 \in 0..MaxTick /\ 0 \in -1..MaxTick /\ -1 \in -1..MaxTick /\ MaxAvailable \in 0..MaxAvailable
  BY AlertsAssumption
<1>4. until \in [Passwords -> -1..MaxTick] /\ until[config.smtp] = now
  BY <1>2, <1>3 DEF Init
<1>5. TypeOK
  BY <1>1, <1>2, <1>3, <1>4 DEF Init, TypeOK, LiveInv
<1> QED
  BY <1>1, <1>4, <1>5 DEF Init, AlertsInv, MailInv

\* Stock, settings, notifications, checks and mail have their types, whatever
\* crosses whatever.
THEOREM TypeCorrect == Spec => []TypeOK
<1>1. Init => LiveInv /\ AlertsInv
  BY AlertsInitially
<1>2. LiveInv /\ AlertsInv /\ [Next]_vars => LiveInv' /\ AlertsInv'
  BY AlertsStep
<1>3. AlertsInv => TypeOK
  BY DEF AlertsInv
<1> QED
  BY <1>1, <1>2, <1>3, PTL DEF Spec

\* A mail that goes out carries the configured password or one that a cached
\* transporter has kept for less than the five minutes: the transporter never
\* outlives the password by more than its own time (getTransporter and
\* CACHE_TTL_MS in the email channel).
THEOREM MailPasswordAlwaysRecent == Spec => MailPasswordIsRecent
<1> DEFINE Recent == \A k \in Checks :
      At(k, "send") /\ check'[k].step = "done" /\ check'[k].pass # NoSmtp
        => now - until[check'[k].pass] < CacheTtl
<1>1. LiveInv /\ AlertsInv /\ [Next]_vars => [Recent]_vars
  <2> SUFFICES ASSUME AlertsInv, Next, NEW k \in Checks, At(k, "send"), check'[k].step = "done",
                      check'[k].pass # NoSmtp
               PROVE  now - until[check'[k].pass] < CacheTtl
    OBVIOUS
  <2>1. check'[k] # check[k]
    BY DEF At
  <2>2. \E accepted \in BOOLEAN : SendMail(k, accepted)
    <3>1. ASSUME NEW j \in Checks, CheckStep(j)
          PROVE  \E accepted \in BOOLEAN : SendMail(k, accepted)
      <4>1. j = k
        BY <2>1, <3>1 DEF CheckStep, CheckLowStock, Notify, Resolve, CreateNotes, FailInApp, Address,
           Finish, SendMail, Proceed, AlertsInv, TypeOK
      <4> QED
        BY <3>1, <4>1 DEF CheckStep, CheckLowStock, Notify, Resolve, CreateNotes, FailInApp, Address,
           Finish, At
    <3>2. ASSUME NEW j \in Checks, Proceed(j, Checking("check", FALSE, {}, FALSE, NoSmtp))
          PROVE  FALSE
      BY <2>1, <3>2 DEF Proceed, Checking, AlertsInv, TypeOK
    <3>3. ~Live(LiveNext)
      BY <2>1 DEF Live, Idle
    <3>4. ASSUME NEW j \in Checks,
                 \/ \E change \in {-1, 1} : Move(j, change)
                 \/ \E point \in ReorderPoints : SetReorderPoint(j, point)
          PROVE  FALSE
      BY <2>1, <3>2, <3>4 DEF Move, SetReorderPoint, StartCheck
    <3>5. ASSUME NEW u \in Updates,
                 \/ \E change \in Changes : BeginUpdate(u, change)
                 \/ CommitUpdate(u) \/ FailUpdate(u) \/ BeginDeactivate(u)
                 \/ \E noted \in BOOLEAN : CommitDeactivate(u, noted)
          PROVE  FALSE
      BY <2>1, <3>5 DEF BeginUpdate, CommitUpdate, FailUpdate, BeginDeactivate, CommitDeactivate
    <3>6. ~\/ \E newStatus \in StatusUpdates, new \in Replacements \cup {config} :
                UpdateTenantById(newStatus, new)
           \/ \E change \in {-1, 1} : MoveUnchecked(change)
           \/ VerifySmtpConnection
           \/ \E u \in Users : SetActive(u) \/ DeleteNotification(u)
           \/ Tick
      BY <2>1 DEF UpdateTenantById, MoveUnchecked, VerifySmtpConnection, SetActive, DeleteNotification, Tick
    <3> QED
      BY <3>1, <3>3, <3>4, <3>5, <3>6 DEF Next
  <2>3. check'[k].pass = SendEmail
    <3>1. check[k] \in CheckState \ {Idle}
      BY DEF At, Idle, AlertsInv, TypeOK, CheckState
    <3>2. PICK accepted \in BOOLEAN : SendMail(k, accepted)
      BY <2>2
    <3> DEFINE pass == IF accepted THEN SendEmail ELSE NoSmtp
    <3>3. check'[k] = [check[k] EXCEPT !.step = "done", !.pass = pass]
      BY <3>2 DEF SendMail, Proceed, AlertsInv, TypeOK
    <3> HIDE DEF pass
    <3>4. check'[k].pass = pass
      BY <3>1, <3>3 DEF CheckState
    <3> QED
      BY <3>4 DEF pass
  <2> QED
    BY <2>3, TransporterFacts DEF SendEmail
<1>2. Init => LiveInv /\ AlertsInv
  BY AlertsInitially
<1>3. LiveInv /\ AlertsInv /\ [Next]_vars => LiveInv' /\ AlertsInv'
  BY AlertsStep
<1> QED
  BY <1>1, <1>2, <1>3, PTL DEF Spec, MailPasswordIsRecent

\* A change of stock or of the reorder point that called for a check is not
\* forgotten as long as nobody has looked: a check is still on its way to look, of
\* however many. It is the part of LowStockIsTold that no fairness is needed for
\* (checkAndNotifyLowStockBatch is called after the commit and not awaited).
UnseenIsPending == unseen => \E k \in Checks : At(k, "check")

THEOREM UnseenIsAlwaysPending == Spec => []UnseenIsPending
<1>1. Init => LiveInv /\ AlertsInv /\ UnseenIsPending
  BY AlertsInitially DEF Init, UnseenIsPending
<1>2. LiveInv /\ AlertsInv /\ UnseenIsPending /\ [Next]_vars => UnseenIsPending'
  <2> SUFFICES ASSUME AlertsInv, UnseenIsPending, [Next]_vars, unseen'
               PROVE  \E k \in Checks : At(k, "check")'
    BY DEF UnseenIsPending
  <2>1. ASSUME NEW k \in Checks, NEW next, Proceed(k, next), next.step = "check"
        PROVE  At(k, "check")'
    BY <2>1 DEF Proceed, At, AlertsInv, TypeOK
  <2>2. ASSUME NEW k \in Checks, NEW next, Proceed(k, next), unseen, ~At(k, "check")
        PROVE  \E j \in Checks : At(j, "check")'
    BY <2>2 DEF UnseenIsPending, Proceed, At
  <2>3. ASSUME NEW k \in Checks, StartCheck(k)
        PROVE  At(k, "check")'
    <3>1. Checking("check", FALSE, {}, FALSE, NoSmtp).step = "check"
      BY DEF Checking
    <3> QED
      BY <2>1, <2>3, <3>1 DEF StartCheck
  <2>4. CASE UNCHANGED <<check, unseen>>
    BY <2>4 DEF UnseenIsPending, At
  <2>5. ASSUME NEW k \in Checks,
               \/ \E change \in {-1, 1} : Move(k, change)
               \/ \E point \in ReorderPoints : SetReorderPoint(k, point)
        PROVE  \E j \in Checks : At(j, "check")'
    BY <2>3, <2>4, <2>5 DEF Move, SetReorderPoint
  <2>6. ASSUME NEW k \in Checks, CheckStep(k)
        PROVE  \E j \in Checks : At(j, "check")'
    <3>1. ~CheckLowStock(k)
      BY DEF CheckLowStock
    <3>2. CASE FailInApp(k)
      BY <2>2, <3>2 DEF FailInApp
    <3>3. CASE Notify(k) \/ Resolve(k) \/ CreateNotes(k)
      BY <2>2, <3>3 DEF Notify, Resolve, CreateNotes, stockVars, At
    <3>4. CASE Address(k) \/ Finish(k) \/ \E accepted \in BOOLEAN : SendMail(k, accepted)
      BY <2>2, <3>4 DEF Address, Finish, SendMail, stockVars, At
    <3> QED
      BY <2>6, <3>1, <3>2, <3>3, <3>4 DEF CheckStep
  <2>7. CASE Live(LiveNext)
    BY <2>4, <2>7 DEF Live
  <2>8. ASSUME NEW u \in Updates,
               \/ \E change \in Changes : BeginUpdate(u, change)
               \/ CommitUpdate(u) \/ FailUpdate(u) \/ BeginDeactivate(u)
               \/ \E noted \in BOOLEAN : CommitDeactivate(u, noted)
        PROVE  UNCHANGED <<check, unseen>>
    BY <2>8 DEF BeginUpdate, CommitUpdate, FailUpdate, BeginDeactivate, CommitDeactivate, stockVars
  <2>9. CASE \/ \E newStatus \in StatusUpdates, new \in Replacements \cup {config} :
                  UpdateTenantById(newStatus, new)
             \/ \E change \in {-1, 1} : MoveUnchecked(change)
             \/ VerifySmtpConnection
             \/ \E u \in Users : SetActive(u) \/ DeleteNotification(u)
             \/ Tick \/ UNCHANGED vars
    <3>1. UNCHANGED <<check, unseen>>
      BY <2>9 DEF UpdateTenantById, MoveUnchecked, VerifySmtpConnection, SetActive, DeleteNotification,
         Tick, vars, stockVars
    <3> QED
      BY <2>4, <3>1
  <2> QED
    BY <2>4, <2>5, <2>6, <2>7, <2>8, <2>9 DEF Next
<1>3. LiveInv /\ AlertsInv /\ [Next]_vars => LiveInv' /\ AlertsInv'
  BY AlertsStep
<1> QED
  BY <1>1, <1>2, <1>3, PTL DEF Spec

-----------------------------------------------------------------------------

\* A non-empty set of natural numbers has a least one.
LEMMA LeastExists ==
  ASSUME NEW S \in SUBSET Nat, S # {}
  PROVE  Min(S) \in S
<1> DEFINE R == OpToRel(<, Nat)
<1>1. IsWellFoundedOn(R, Nat)
  BY NatLessThanWellFounded
<1>2. \A x, y \in Nat : y < x => <<y, x>> \in R
  BY DEF OpToRel
<1> HIDE DEF R
<1>3. PICK x \in S : \A y \in S : ~(<<y, x>> \in R)
  BY <1>1, WFMin
<1>4. ASSUME NEW y \in S PROVE x <= y
  <2>1. x \in Nat /\ y \in Nat
    OBVIOUS
  <2>2. ~(y < x)
    BY <2>1, <1>2, <1>3
  <2> QED BY <2>1, <2>2
<1> QED BY <1>4 DEF Min

LEMMA UnusedRoles == Unused \in SUBSET Roles /\ Unused \in SUBSET Nat /\ IsFiniteSet(Unused)
<1>1. MaxRoles \in Nat
  BY AccessAssumption
<1>2. Unused \in SUBSET Roles /\ Roles \in SUBSET Nat
  BY <1>1 DEF Unused, Roles
<1>3. IsFiniteSet(Roles)
  BY <1>1, FS_Interval DEF Roles
<1> QED BY <1>2, <1>3, FS_Subset

\* Two rows that are free give two ids.
LEMMA TwoFreeIds ==
  ASSUME Cardinality(Unused) >= 2
  PROVE  /\ Min(Unused) \in Unused
         /\ Min(Unused \ {Min(Unused)}) \in Unused
         /\ Min(Unused \ {Min(Unused)}) # Min(Unused)
<1>1. Cardinality(Unused) \in Nat
  BY UnusedRoles, FS_CardinalityType
<1>2. Unused # {}
  BY <1>1, FS_EmptySet
<1>3. Min(Unused) \in Unused
  BY <1>2, UnusedRoles, LeastExists
<1>4. Cardinality(Unused \ {Min(Unused)}) = Cardinality(Unused) - 1
  BY <1>3, UnusedRoles, FS_RemoveElement
<1>5. Unused \ {Min(Unused)} # {}
  <2>1. Cardinality({}) = 0
    BY FS_EmptySet
  <2> QED BY <1>1, <1>4, <2>1
<1>6. Unused \ {Min(Unused)} \in SUBSET Nat
  BY UnusedRoles
<1>7. Min(Unused \ {Min(Unused)}) \in Unused \ {Min(Unused)}
  BY <1>5, <1>6, LeastExists
<1> QED BY <1>3, <1>7

LEMMA RoleRows ==
  /\ \A row \in RoleRow : /\ row # NoRole /\ row.tenant \in Tenants /\ row.name \in Names
                          /\ row.system \in BOOLEAN /\ row.grants \in SUBSET Permissions
                          /\ row = Row(row.tenant, row.name, row.system, row.grants)
  /\ \A t \in Tenants, name \in Names, system \in BOOLEAN, G \in SUBSET Permissions :
       Row(t, name, system, G) \in RoleRow
  /\ \A t, name, system, G : /\ Row(t, name, system, G).tenant = t
                             /\ Row(t, name, system, G).name = name
                             /\ Row(t, name, system, G).system = system
                             /\ Row(t, name, system, G).grants = G
<1>1. \A row \in RoleRow : row.name \in {"Admin", "Staff", "TenantAdmin"} /\ NoRole.name = "none"
  BY DEF RoleRow, Names, NoRole
<1>2. \A row \in RoleRow : row # NoRole
  BY <1>1
<1> QED BY <1>2 DEF RoleRow, Row

\* The row of an administrator role.
LEMMA AdminFields ==
  ASSUME NEW t \in Tenants
  PROVE  /\ Row(t, "Admin", TRUE, Permissions) \in RoleRow
         /\ Row(t, "Admin", TRUE, Permissions).tenant = t
         /\ Row(t, "Admin", TRUE, Permissions).name = "Admin"
         /\ Row(t, "Admin", TRUE, Permissions).system = TRUE
         /\ Row(t, "Admin", TRUE, Permissions) # NoRole
<1>1. Row(t, "Admin", TRUE, Permissions) \in RoleRow
  BY DEF Row, RoleRow, Names
<1> QED BY <1>1, RoleRows DEF Row

LEMMA RoleExists ==
  ASSUME AccessTypeOK, NEW x \in Roles, Exists(x)
  PROVE  role[x] \in RoleRow
  BY DEF AccessTypeOK, Exists

\* What a call has in hand, by its step.
LEMMA CallFacts ==
  ASSUME AccessTypeOK, NEW q \in Calls
  PROVE  /\ call[q] \in CallState
         /\ call[q].step \in {"idle", "tenant", "delete", "admins"}
         /\ call[q].step # "idle" => call[q].stale \in BOOLEAN
         /\ call[q].step = "tenant" => call[q].tenant \in Tenants /\ call[q].user \in UserIds
         /\ call[q].step = "delete" => call[q].role \in Roles
         /\ call[q].step = "admins" =>
              /\ call[q].tenant \in Tenants /\ call[q].users \in SUBSET UserIds
              /\ call[q].found \in SUBSET (UserIds \X Roles)
<1>1. call[q] \in CallState
  BY DEF AccessTypeOK
<1>2. \A c \in [step : {"tenant"}, tenant : Tenants, user : UserIds, stale : BOOLEAN] :
        c.step = "tenant" /\ c.tenant \in Tenants /\ c.user \in UserIds /\ c.stale \in BOOLEAN
  OBVIOUS
<1>3. \A c \in [step : {"delete"}, role : Roles, stale : BOOLEAN] :
        c.step = "delete" /\ c.role \in Roles /\ c.stale \in BOOLEAN
  OBVIOUS
<1>4. \A c \in [step : {"admins"}, tenant : Tenants, users : SUBSET UserIds,
               found : SUBSET (UserIds \X Roles), stale : BOOLEAN] :
        /\ c.step = "admins" /\ c.tenant \in Tenants /\ c.users \in SUBSET UserIds
        /\ c.found \in SUBSET (UserIds \X Roles) /\ c.stale \in BOOLEAN
  OBVIOUS
<1>5. NoCall.step = "idle"
  BY DEF NoCall
<1> QED BY <1>1, <1>2, <1>3, <1>4, <1>5 DEF CallState

\* A call that goes on where it is; those in R have been overtaken.
GoesOn(q, R) ==
  /\ call'[q].step = call[q].step
  /\ call[q].step = "tenant" => call'[q].tenant = call[q].tenant /\ call'[q].user = call[q].user
  /\ call[q].step = "delete" => call'[q].role = call[q].role
  /\ call[q].step = "admins" => /\ call'[q].tenant = call[q].tenant /\ call'[q].users = call[q].users
                                /\ call'[q].found = call[q].found
  /\ call[q].step # "idle" => (call'[q].stale <=> call[q].stale \/ q \in R)

Going(S, R) == \A q \in S : GoesOn(q, R)

LEMMA CallsStay ==
  ASSUME AccessTypeOK, call' = call
  PROVE  call' \in [Calls -> CallState] /\ Going(Calls, {})
  BY CallFacts DEF AccessTypeOK, Going, GoesOn

LEMMA OvertakenLeaves ==
  ASSUME AccessTypeOK, NEW R, \A q \in R : q \in Calls /\ call[q].step # "idle"
  PROVE  /\ Overtaken(R) \in [Calls -> CallState]
         /\ call' = Overtaken(R) => Going(Calls, R)
         /\ \A r \in Calls : call' = [Overtaken(R) EXCEPT ![r] = NoCall] =>
              /\ call' \in [Calls -> CallState] /\ call'[r] = NoCall /\ Going(Calls \ {r}, R)
<1>1. ASSUME NEW q \in Calls
      PROVE  Overtaken(R)[q] \in CallState
  <2>1. CASE q \notin R
    BY <2>1, CallFacts DEF Overtaken
  <2>2. CASE q \in R
    <3>1. Overtaken(R)[q] = [call[q] EXCEPT !.stale = TRUE]
      BY <2>2 DEF Overtaken
    <3>2. call[q] \in CallState /\ call[q].step # "idle"
      BY <2>2, CallFacts
    <3> QED BY <3>1, <3>2 DEF CallState, NoCall
  <2> QED BY <2>1, <2>2
<1>2. ASSUME NEW q \in Calls, call'[q] = Overtaken(R)[q]
      PROVE  GoesOn(q, R)
  <2>1. CASE q \notin R
    BY <1>2, <2>1, CallFacts DEF Overtaken, GoesOn
  <2>2. CASE q \in R
    <3>1. call'[q] = [call[q] EXCEPT !.stale = TRUE]
      BY <1>2, <2>2 DEF Overtaken
    <3>2. call[q] \in CallState /\ call[q].step # "idle"
      BY <2>2, CallFacts
    <3> QED BY <2>2, <3>1, <3>2 DEF GoesOn, CallState, NoCall
  <2> QED BY <2>1, <2>2
<1>3. Overtaken(R) \in [Calls -> CallState]
  BY <1>1 DEF Overtaken
<1>4. NoCall \in CallState
  BY DEF CallState
<1> QED BY <1>2, <1>3, <1>4 DEF Going

LEMMA DoLeaves ==
  ASSUME AccessTypeOK, NEW r \in Calls, NEW next \in CallState, Do(r, next)
  PROVE  call' \in [Calls -> CallState] /\ call'[r] = next /\ Going(Calls \ {r}, {})
  BY CallFacts DEF Do, AccessTypeOK, Going, GoesOn

LEMMA CallStates ==
  /\ NoCall \in CallState /\ NoCall.step = "idle"
  /\ \A t \in Tenants, u \in UserIds :
       [step |-> "tenant", tenant |-> t, user |-> u, stale |-> FALSE] \in CallState
  /\ \A x \in Roles : [step |-> "delete", role |-> x, stale |-> FALSE] \in CallState
  /\ \A t \in Tenants, S \in SUBSET UserIds, F \in SUBSET (UserIds \X Roles) :
       [step |-> "admins", tenant |-> t, users |-> S, found |-> F, stale |-> FALSE] \in CallState
  BY DEF CallState, NoCall

-----------------------------------------------------------------------------
(* Why it works: rows of a role keep to their tenant and their name, a     *)
(* tenant without rows is new, what is assigned exists, and a request that *)
(* was not overtaken still knows what it read.                             *)

\* The administrator role as a tenant's creation leaves it.
AdminRoleKept ==
  /\ \A t \in tenant : \E x \in Roles : role[x] = Row(t, "Admin", TRUE, Permissions)
  /\ \A x \in Roles : Exists(x) /\ ~role[x].system => "reserved" \notin role[x].grants

RolesSound ==
  /\ \A x \in Roles : Exists(x) => role[x].tenant \in tenant
  /\ \A x, y \in Roles :
       Exists(x) /\ Exists(y) /\ role[x].tenant = role[y].tenant /\ role[x].name = role[y].name => x = y
  /\ AdminRoleKept

HoldersSound ==
  /\ \A u \in UserIds, x \in Roles : HasRole(u, x) => Exists(x)
  /\ PowersOfOwnTenant

CallSound(q) ==
  /\ call[q].step = "tenant" /\ ~call[q].stale => home[call[q].user] = "none"
  /\ call[q].step = "delete" =>
       /\ ~Exists(call[q].role) \/ ~role[call[q].role].system
       /\ ~call[q].stale => \A u \in UserIds : ~HasRole(u, call[q].role)
  /\ call[q].step = "admins" =>
       /\ call[q].tenant \in tenant
       /\ \A u \in call[q].users : home[u] = call[q].tenant \/ u \in misplaced
       /\ ~call[q].stale => \A u \in UserIds \ misplaced, x \in Roles :
            HasRole(u, x) /\ role[x].tenant = call[q].tenant /\ role[x].name = "Admin" =>
              <<u, x>> \in call[q].found

CallsSound == \A q \in Calls : CallSound(q)

AccessInv == AccessTypeOK /\ RolesSound /\ HoldersSound /\ CallsSound

\* Calls stay sound when a step overtakes those whose knowledge it spoils.
LEMMA CallsFollow ==
  ASSUME AccessInv, NEW S \in SUBSET Calls, NEW R, Going(S, R),
         tenant \subseteq tenant', misplaced \subseteq misplaced',
         \A q \in S : call[q].step = "tenant" /\ home[call[q].user] = "none" =>
           home'[call[q].user] = "none" \/ q \in R,
         \A q \in S : call[q].step = "delete" =>
           /\ ~Exists(call[q].role) \/ ~role[call[q].role].system =>
                role'[call[q].role] = NoRole \/ ~role'[call[q].role].system
           /\ \/ q \in R
              \/ \A u \in UserIds : <<u, call[q].role>> \in assigned' => <<u, call[q].role>> \in assigned,
         \A u \in UserIds : home[u] \in Tenants => home'[u] = home[u] \/ u \in misplaced',
         \A q \in S : call[q].step = "admins" =>
           \/ q \in R
           \/ \A u \in UserIds \ misplaced', x \in Roles :
                <<u, x>> \in assigned' /\ role'[x].tenant = call[q].tenant /\ role'[x].name = "Admin" =>
                  HasRole(u, x) /\ role[x].tenant = call[q].tenant /\ role[x].name = "Admin"
  PROVE  \A q \in S : CallSound(q)'
<1> SUFFICES ASSUME NEW q \in S PROVE CallSound(q)'
  OBVIOUS
<1>1. GoesOn(q, R) /\ CallSound(q) /\ q \in Calls
  BY DEF Going, AccessInv, CallsSound
<1>2. ASSUME call'[q].step = "tenant", ~call'[q].stale
      PROVE  home'[call'[q].user] = "none"
  BY <1>1, <1>2 DEF GoesOn, CallSound
<1>3. ASSUME call'[q].step = "delete"
      PROVE  /\ role'[call'[q].role] = NoRole \/ ~role'[call'[q].role].system
             /\ ~call'[q].stale => \A u \in UserIds : <<u, call'[q].role>> \notin assigned'
  <2>1. call[q].step = "delete" /\ call'[q].role = call[q].role /\ (call'[q].stale <=> call[q].stale \/ q \in R)
    BY <1>1, <1>3 DEF GoesOn
  <2>2. ~Exists(call[q].role) \/ ~role[call[q].role].system
    BY <1>1, <2>1 DEF CallSound
  <2>3. ~call[q].stale => \A u \in UserIds : <<u, call[q].role>> \notin assigned
    BY <1>1, <2>1 DEF CallSound, HasRole
  <2> QED BY <2>1, <2>2, <2>3
<1>4. ASSUME call'[q].step = "admins"
      PROVE  /\ call'[q].tenant \in tenant'
             /\ \A u \in call'[q].users : home'[u] = call'[q].tenant \/ u \in misplaced'
             /\ ~call'[q].stale => \A u \in UserIds \ misplaced', x \in Roles :
                  <<u, x>> \in assigned' /\ role'[x].tenant = call'[q].tenant /\ role'[x].name = "Admin" =>
                    <<u, x>> \in call'[q].found
  <2>1. /\ call[q].step = "admins" /\ call'[q].tenant = call[q].tenant /\ call'[q].users = call[q].users
        /\ call'[q].found = call[q].found /\ (call'[q].stale <=> call[q].stale \/ q \in R)
    BY <1>1, <1>4 DEF GoesOn
  <2>2. call[q].tenant \in Tenants /\ call[q].users \in SUBSET UserIds
    BY <1>1, <2>1, CallFacts DEF AccessInv
  <2>3. /\ call[q].tenant \in tenant
        /\ \A u \in call[q].users : home[u] = call[q].tenant \/ u \in misplaced
        /\ ~call[q].stale => \A u \in UserIds \ misplaced, x \in Roles :
             HasRole(u, x) /\ role[x].tenant = call[q].tenant /\ role[x].name = "Admin" =>
               <<u, x>> \in call[q].found
    BY <1>1, <2>1 DEF CallSound
  <2>4. \A u \in call[q].users : home'[u] = call[q].tenant \/ u \in misplaced'
    BY <2>2, <2>3
  <2>5. ASSUME ~call'[q].stale, NEW u \in UserIds \ misplaced', NEW x \in Roles,
               <<u, x>> \in assigned', role'[x].tenant = call[q].tenant, role'[x].name = "Admin"
        PROVE  <<u, x>> \in call[q].found
    BY <2>1, <2>3, <2>5
  <2> QED BY <2>1, <2>3, <2>4, <2>5
<1> QED BY <1>2, <1>3, <1>4 DEF CallSound, Exists, HasRole

-----------------------------------------------------------------------------
(* Steps that change users only. *)

\* u of the tenant t is given roles and locations of t, or loses some.
UserSet(t, u, R) ==
  /\ t \in Tenants /\ u \in UserIds
  /\ home' \in [UserIds -> Tenants \cup {"absent", "none"}]
  /\ home'[u] = t /\ home[u] \in {"absent", t}
  /\ \A v \in UserIds \ {u} : home'[v] = home[v]
  /\ assigned' \in SUBSET (UserIds \X Roles)
  /\ \A v \in UserIds, x \in Roles : <<v, x>> \in assigned' =>
       \/ HasRole(v, x) /\ home'[v] = home[v]
       \/ v = u /\ x \in RolesOf(t)
  /\ places' \in [UserIds -> SUBSET Sites]
  /\ \A v \in UserIds : \A l \in places'[v] :
       \/ l \in places[v] /\ home'[v] = home[v]
       \/ v = u /\ TenantOf[l] = t
  /\ call' \in [Calls -> CallState] /\ Going(Calls, R)
  /\ \A v \in UserIds, x \in Roles :
       <<v, x>> \in assigned' /\ ~HasRole(v, x) => Awaiting(x) \subseteq R
  /\ UNCHANGED <<tenant, role, misplaced>>

LEMMA UserSetKeeps ==
  ASSUME AccessInv, NEW t, NEW u, NEW R, UserSet(t, u, R)
  PROVE  AccessInv'
<1>1. AccessTypeOK'
  BY DEF AccessInv, AccessTypeOK, UserSet
<1>2. RolesSound'
  BY DEF AccessInv, RolesSound, AdminRoleKept, Exists, UserSet
<1>3. ASSUME NEW v \in UserIds, NEW x \in Roles, <<v, x>> \in assigned'
      PROVE  role[x] # NoRole /\ (v \notin misplaced => role[x].tenant = home'[v])
  <2>1. CASE HasRole(v, x) /\ home'[v] = home[v]
    BY <2>1 DEF AccessInv, HoldersSound, PowersOfOwnTenant, Exists
  <2>2. CASE v = u /\ x \in RolesOf(t)
    BY <2>2 DEF UserSet, RolesOf, Exists
  <2> QED BY <1>3, <2>1, <2>2 DEF UserSet
<1>4. ASSUME NEW v \in UserIds \ misplaced, NEW l \in places'[v]
      PROVE  l \in Sites /\ TenantOf[l] = home'[v]
  <2>1. CASE l \in places[v] /\ home'[v] = home[v]
    BY <2>1 DEF AccessInv, HoldersSound, PowersOfOwnTenant
  <2>2. CASE v = u /\ TenantOf[l] = t
    BY <1>1, <2>2 DEF UserSet, AccessTypeOK
  <2> QED BY <1>4, <2>1, <2>2 DEF UserSet
<1>5. HoldersSound'
  BY <1>3, <1>4 DEF UserSet, HoldersSound, PowersOfOwnTenant, HasRole, Exists
<1>6. /\ Going(Calls, R) /\ tenant \subseteq tenant' /\ misplaced \subseteq misplaced'
      /\ role' = role /\ misplaced' = misplaced
  BY DEF UserSet
<1>7. "absent" # "none" /\ {"absent", "none"} \cap Tenants = {}
  BY AccessAssumption
<1>8. ASSUME NEW v \in UserIds
      PROVE  /\ home[v] = "none" => home'[v] = "none"
             /\ home[v] \in Tenants => home'[v] = home[v]
  BY <1>7 DEF UserSet
<1>9. \A q \in Calls : call[q].step = "tenant" /\ home[call[q].user] = "none" => home'[call[q].user] = "none"
  BY <1>8, CallFacts DEF AccessInv
<1>10. ASSUME NEW q \in Calls, call[q].step = "delete"
       PROVE  \/ q \in R
              \/ \A v \in UserIds : <<v, call[q].role>> \in assigned' => <<v, call[q].role>> \in assigned
  <2>1. call[q].role \in Roles
    BY <1>10, CallFacts DEF AccessInv
  <2>2. q \in Awaiting(call[q].role)
    BY <1>10 DEF Awaiting, Deleting, CallAt
  <2> QED BY <2>1, <2>2 DEF UserSet, HasRole
<1>11. ASSUME NEW q \in Calls, call[q].step = "admins"
       PROVE  \/ q \in R
              \/ \A v \in UserIds \ misplaced', x \in Roles :
                   <<v, x>> \in assigned' /\ role'[x].tenant = call[q].tenant /\ role'[x].name = "Admin" =>
                     HasRole(v, x) /\ role[x].tenant = call[q].tenant /\ role[x].name = "Admin"
  <2>1. \A x \in Roles : role[x].tenant = call[q].tenant => q \in Awaiting(x)
    BY <1>11 DEF Awaiting, Replacing, CallAt
  <2> QED BY <1>6, <2>1 DEF UserSet
<1>12. CallsSound'
  <2>1. \A q \in Calls : CallSound(q)'
    BY <1>6, <1>8, <1>9, <1>10, <1>11, CallsFollow DEF Exists
  <2> QED BY <2>1 DEF CallsSound
<1> QED BY <1>1, <1>2, <1>5, <1>12 DEF AccessInv

LEMMA AwaitingCalls ==
  ASSUME NEW x, NEW q \in Awaiting(x)
  PROVE  q \in Calls /\ call[q].step # "idle"
  BY DEF Awaiting, Deleting, Replacing, CallAt

\* SetRoles for a user who is, or becomes, one of the tenant's.
LEMMA RolesSetSo ==
  ASSUME AccessInv, NEW t \in Tenants, NEW u \in UserIds, NEW R \in SUBSET RolesOf(t), SetRoles(u, R)
  PROVE  /\ assigned' \in SUBSET (UserIds \X Roles)
         /\ \A v \in UserIds, x \in Roles : <<v, x>> \in assigned' =>
              (HasRole(v, x) /\ v # u) \/ (v = u /\ x \in RolesOf(t))
         /\ \E O : /\ call' \in [Calls -> CallState] /\ Going(Calls, O)
                   /\ \A v \in UserIds, x \in Roles :
                        <<v, x>> \in assigned' /\ ~HasRole(v, x) => Awaiting(x) \subseteq O
<1> DEFINE old == {x \in Roles : HasRole(u, x)}
           changed == (old \cup R) \ (old \cap R)
           O == UNION {Awaiting(x) : x \in changed}
<1>1. assigned' = {p \in assigned : p[1] # u} \cup ({u} \X R)
  BY DEF SetRoles
<1>2. R \subseteq Roles /\ assigned \in SUBSET (UserIds \X Roles)
  BY DEF RolesOf, AccessInv, AccessTypeOK
<1>3. call' = Overtaken(O)
  BY DEF SetRoles
<1>4. \A q \in O : q \in Calls /\ call[q].step # "idle"
  BY AwaitingCalls
<1>5. ASSUME NEW v \in UserIds, NEW x \in Roles, <<v, x>> \in assigned'
      PROVE  (HasRole(v, x) /\ v # u) \/ (v = u /\ x \in R)
  BY <1>1, <1>5 DEF HasRole
<1>6. ASSUME NEW v \in UserIds, NEW x \in Roles, <<v, x>> \in assigned', ~HasRole(v, x)
      PROVE  Awaiting(x) \subseteq O
  <2>1. x \in changed
    BY <1>5, <1>6
  <2> QED BY <2>1
<1> HIDE DEF O
<1>7. call' \in [Calls -> CallState] /\ Going(Calls, O)
  BY <1>3, <1>4, OvertakenLeaves DEF AccessInv
<1>8. assigned' \in SUBSET (UserIds \X Roles)
  BY <1>1, <1>2
<1> QED BY <1>5, <1>6, <1>7, <1>8

LEMMA UserCreated ==
  ASSUME AccessInv, NEW t \in Tenants, NEW u \in UserIds, NEW R \in SUBSET Roles, NEW P \in SUBSET Sites,
         CreateUser(t, u, R, P)
  PROVE  AccessInv'
<1>1. /\ home[u] = "absent" /\ R \in SUBSET RolesOf(t) /\ P \subseteq LocationsOf(t)
      /\ home' = [home EXCEPT ![u] = t] /\ SetRoles(u, R)
      /\ places' = [places EXCEPT ![u] = P]
      /\ UNCHANGED <<tenant, role, misplaced>>
  BY DEF CreateUser, ValidRoles, ValidLocations
<1>2. PICK O : /\ assigned' \in SUBSET (UserIds \X Roles)
               /\ \A v \in UserIds, x \in Roles : <<v, x>> \in assigned' =>
                    (HasRole(v, x) /\ v # u) \/ (v = u /\ x \in RolesOf(t))
               /\ call' \in [Calls -> CallState] /\ Going(Calls, O)
               /\ \A v \in UserIds, x \in Roles :
                    <<v, x>> \in assigned' /\ ~HasRole(v, x) => Awaiting(x) \subseteq O
  BY <1>1, RolesSetSo
<1>3. /\ home' \in [UserIds -> Tenants \cup {"absent", "none"}]
      /\ home'[u] = t /\ \A v \in UserIds \ {u} : home'[v] = home[v]
      /\ places' \in [UserIds -> SUBSET Sites]
      /\ places'[u] = P /\ \A v \in UserIds \ {u} : places'[v] = places[v]
  BY <1>1 DEF AccessInv, AccessTypeOK
<1>4. \A v \in UserIds : \A l \in places'[v] :
        (l \in places[v] /\ home'[v] = home[v]) \/ (v = u /\ TenantOf[l] = t)
  BY <1>1, <1>3 DEF LocationsOf
<1>5. \A v \in UserIds, x \in Roles : <<v, x>> \in assigned' =>
        (HasRole(v, x) /\ home'[v] = home[v]) \/ (v = u /\ x \in RolesOf(t))
  BY <1>2, <1>3
<1>6. UserSet(t, u, O)
  BY <1>1, <1>2, <1>3, <1>4, <1>5 DEF UserSet
<1> QED BY <1>6, UserSetKeeps

\* Steps that leave the home of the user, and either the roles or the
\* locations, as they are.
LEMMA RolesOnly ==
  ASSUME AccessInv, NEW t \in Tenants, NEW u \in UserIds, NEW O, home[u] = t,
         UNCHANGED <<tenant, home, role, places, misplaced>>,
         assigned' \in SUBSET (UserIds \X Roles),
         \A v \in UserIds, x \in Roles : <<v, x>> \in assigned' => HasRole(v, x) \/ (v = u /\ x \in RolesOf(t)),
         call' \in [Calls -> CallState], Going(Calls, O),
         \A v \in UserIds, x \in Roles :
           <<v, x>> \in assigned' /\ ~HasRole(v, x) => Awaiting(x) \subseteq O
  PROVE  AccessInv'
<1>1. UserSet(t, u, O)
  BY DEF UserSet, AccessInv, AccessTypeOK
<1> QED BY <1>1, UserSetKeeps

LEMMA PlacesOnly ==
  ASSUME AccessInv, NEW t \in Tenants, NEW u \in UserIds, NEW P, home[u] = t,
         UNCHANGED <<tenant, home, role, assigned, call, misplaced>>,
         places' = [places EXCEPT ![u] = P], P \subseteq Sites,
         \A l \in P : l \in places[u] \/ TenantOf[l] = t
  PROVE  AccessInv'
<1>1. call' \in [Calls -> CallState] /\ Going(Calls, {})
  BY CallsStay DEF AccessInv
<1>2. /\ places' \in [UserIds -> SUBSET Sites]
      /\ places'[u] = P /\ \A v \in UserIds \ {u} : places'[v] = places[v]
  BY DEF AccessInv, AccessTypeOK
<1>3. \A v \in UserIds : \A l \in places'[v] : l \in places[v] \/ (v = u /\ TenantOf[l] = t)
  BY <1>2
<1>4. \A v \in UserIds, x \in Roles : <<v, x>> \in assigned' => HasRole(v, x)
  BY DEF HasRole
<1>5. UserSet(t, u, {})
  BY <1>1, <1>2, <1>3, <1>4 DEF UserSet, AccessInv, AccessTypeOK
<1> QED BY <1>5, UserSetKeeps

LEMMA UserStepsKeep ==
  ASSUME AccessInv, UserSteps
  PROVE  AccessInv'
<1>1. PICK t \in Tenants, u \in UserIds :
        \/ \E R \in SUBSET Roles, P \in SUBSET Sites : CreateUser(t, u, R, P)
        \/ UpdateUser(t, u)
        \/ \E x \in Roles : AssignRole(t, u, x) \/ RemoveRole(t, u, x)
        \/ \E l \in Sites : AssignLocation(t, u, l) \/ RemoveLocation(t, u, l)
  BY DEF UserSteps
<1>2. ASSUME NEW R \in SUBSET Roles, NEW P \in SUBSET Sites, CreateUser(t, u, R, P) PROVE AccessInv'
  BY <1>2, UserCreated
<1>3. ASSUME UpdateUser(t, u) PROVE AccessInv'
  <2>1. home[u] = t /\ UNCHANGED <<tenant, home, role, misplaced>>
    BY <1>3 DEF UpdateUser
  <2>2. ASSUME NEW R \in SUBSET Roles, ValidRoles(t, R), SetRoles(u, R), places' = places
        PROVE  AccessInv'
    <3>1. PICK O : /\ assigned' \in SUBSET (UserIds \X Roles)
                   /\ \A v \in UserIds, x \in Roles : <<v, x>> \in assigned' =>
                        (HasRole(v, x) /\ v # u) \/ (v = u /\ x \in RolesOf(t))
                   /\ call' \in [Calls -> CallState] /\ Going(Calls, O)
                   /\ \A v \in UserIds, x \in Roles :
                        <<v, x>> \in assigned' /\ ~HasRole(v, x) => Awaiting(x) \subseteq O
      BY <2>2, RolesSetSo DEF ValidRoles
    <3> QED BY <2>1, <2>2, <3>1, RolesOnly
  <2>3. ASSUME NEW P \in SUBSET Sites, ValidLocations(t, P), places' = [places EXCEPT ![u] = P],
               UNCHANGED <<assigned, call>>
        PROVE  AccessInv'
    <3>1. \A l \in P : TenantOf[l] = t
      BY <2>3 DEF ValidLocations, LocationsOf
    <3> QED BY <2>1, <2>3, <3>1, PlacesOnly
  <2> QED BY <1>3, <2>2, <2>3 DEF UpdateUser
<1>4. ASSUME NEW x \in Roles, AssignRole(t, u, x) PROVE AccessInv'
  <2>1. /\ home[u] = t /\ x \in RolesOf(t) /\ assigned' = assigned \cup {<<u, x>>}
        /\ call' = IF HasRole(u, x) THEN call ELSE Overtaken(Awaiting(x))
        /\ UNCHANGED <<tenant, home, role, places, misplaced>>
    BY <1>4 DEF AssignRole, ValidRoles
  <2>2. PICK O : /\ call' \in [Calls -> CallState] /\ Going(Calls, O)
                 /\ ~HasRole(u, x) => O = Awaiting(x)
    <3>1. CASE HasRole(u, x)
      BY <2>1, <3>1, CallsStay DEF AccessInv
    <3>2. CASE ~HasRole(u, x)
      <4>1. call' = Overtaken(Awaiting(x)) /\ AccessTypeOK
        BY <2>1, <3>2 DEF AccessInv
      <4>2. \A q \in Awaiting(x) : q \in Calls /\ call[q].step # "idle"
        BY AwaitingCalls
      <4>3. call' \in [Calls -> CallState] /\ Going(Calls, Awaiting(x))
        BY <4>1, <4>2, OvertakenLeaves
      <4> QED BY <4>3
    <3> QED BY <3>1, <3>2
  <2>3. assigned' \in SUBSET (UserIds \X Roles)
    BY <2>1 DEF AccessInv, AccessTypeOK
  <2>4. \A v \in UserIds, y \in Roles : <<v, y>> \in assigned' => HasRole(v, y) \/ (v = u /\ y = x)
    BY <2>1 DEF HasRole
  <2>5. \A v \in UserIds, y \in Roles : <<v, y>> \in assigned' /\ ~HasRole(v, y) => Awaiting(y) \subseteq O
    BY <2>2, <2>4
  <2>6. \A v \in UserIds, y \in Roles : <<v, y>> \in assigned' => HasRole(v, y) \/ (v = u /\ y \in RolesOf(t))
    BY <2>1, <2>4
  <2> QED BY <2>1, <2>2, <2>3, <2>5, <2>6, RolesOnly
<1>5. ASSUME NEW x \in Roles, RemoveRole(t, u, x) PROVE AccessInv'
  <2>1. /\ home[u] = t /\ assigned' = assigned \ {<<u, x>>}
        /\ call' = Overtaken(Replacing(role[x].tenant))
        /\ UNCHANGED <<tenant, home, role, places, misplaced>>
    BY <1>5 DEF RemoveRole
  <2>2. \A q \in Replacing(role[x].tenant) : q \in Calls /\ call[q].step # "idle"
    BY DEF Replacing, CallAt
  <2>3. call' \in [Calls -> CallState] /\ Going(Calls, Replacing(role[x].tenant))
    BY <2>1, <2>2, OvertakenLeaves DEF AccessInv
  <2>4. assigned' \in SUBSET (UserIds \X Roles)
    BY <2>1 DEF AccessInv, AccessTypeOK
  <2>5. \A v \in UserIds, y \in Roles : <<v, y>> \in assigned' => HasRole(v, y)
    BY <2>1 DEF HasRole
  <2> QED BY <2>1, <2>3, <2>4, <2>5, RolesOnly
<1>6. ASSUME NEW l \in Sites, AssignLocation(t, u, l) \/ RemoveLocation(t, u, l) PROVE AccessInv'
  <2>1. PICK P : /\ places' = [places EXCEPT ![u] = P]
                 /\ (P = places[u] \cup {l} /\ TenantOf[l] = t) \/ P = places[u] \ {l}
    BY <1>6 DEF AssignLocation, RemoveLocation, ValidLocations, LocationsOf
  <2>2. home[u] = t /\ UNCHANGED <<tenant, home, role, assigned, call, misplaced>>
    BY <1>6 DEF AssignLocation, RemoveLocation
  <2>3. P \subseteq Sites /\ \A m \in P : m \in places[u] \/ TenantOf[m] = t
    BY <2>1 DEF AccessInv, AccessTypeOK
  <2> QED BY <2>1, <2>2, <2>3, PlacesOnly
<1> QED BY <1>1, <1>2, <1>3, <1>4, <1>5, <1>6

-----------------------------------------------------------------------------
(* Steps that change the row of a role. *)

\* The administrator role of a tenant, and that there is one of that name.
LEMMA AdminRow ==
  ASSUME AccessInv, NEW t \in tenant
  PROVE  /\ AdminRole(t) \in Roles /\ Exists(AdminRole(t))
         /\ role[AdminRole(t)] = Row(t, "Admin", TRUE, Permissions)
         /\ role[AdminRole(t)].tenant = t /\ role[AdminRole(t)].name = "Admin"
         /\ role[AdminRole(t)].system = TRUE
         /\ \A x \in Roles : Exists(x) /\ role[x].tenant = t /\ role[x].name = "Admin" => x = AdminRole(t)
<1>1. PICK a \in Roles : role[a] = Row(t, "Admin", TRUE, Permissions)
  BY DEF AccessInv, RolesSound, AdminRoleKept
<1>2. t \in Tenants
  BY DEF AccessInv, AccessTypeOK
<1>3. role[a] \in RoleRow /\ role[a].tenant = t /\ role[a].name = "Admin"
  BY <1>1, <1>2, AdminFields
<1>4. a \in RolesOf(t)
  BY <1>3, RoleRows DEF RolesOf, Exists
<1>5. AdminRole(t) \in RolesOf(t) /\ role[AdminRole(t)].name = "Admin"
  BY <1>3, <1>4 DEF AdminRole
<1>6. \A x \in Roles : Exists(x) /\ role[x].tenant = t /\ role[x].name = "Admin" => x = a
  BY <1>3, <1>4 DEF AccessInv, RolesSound, RolesOf
<1>7. AdminRole(t) = a
  BY <1>5, <1>6 DEF RolesOf
<1> QED BY <1>1, <1>2, <1>4, <1>6, <1>7, AdminFields DEF RolesOf

\* Calls stay sound when only the row of a role changes.
LEMMA CallsKeep ==
  ASSUME AccessInv, UNCHANGED <<tenant, home, assigned, places, call, misplaced>>,
         \A q \in Calls : call[q].step = "delete" =>
           ((~Exists(call[q].role) \/ ~role[call[q].role].system) =>
              (role'[call[q].role] = NoRole \/ ~role'[call[q].role].system)),
         \A q \in Calls : call[q].step = "admins" => \A u \in UserIds, x \in Roles :
           <<u, x>> \in assigned /\ role'[x].tenant = call[q].tenant /\ role'[x].name = "Admin" =>
             role[x].tenant = call[q].tenant /\ role[x].name = "Admin"
  PROVE  CallsSound'
<1>1. Going(Calls, {})
  BY CallsStay DEF AccessInv
<1>2. \A q \in Calls : CallSound(q)'
  BY <1>1, CallsFollow DEF HasRole
<1> QED BY <1>2 DEF CallsSound

\* A role that may be changed gets another name that is free, or other
\* permissions, none of them reserved.
RoleEdited(x, name, G) ==
  /\ x \in Roles /\ name \in Names /\ G \in SUBSET Permissions
  /\ Changeable(x) /\ "reserved" \notin G
  /\ name = role[x].name \/ NameFree(role[x].tenant, name)
  /\ role' = [role EXCEPT ![x] = Row(role[x].tenant, name, role[x].system, G)]
  /\ UNCHANGED <<tenant, home, assigned, places, call, misplaced>>

LEMMA RoleEditedKeeps ==
  ASSUME AccessInv, NEW x, NEW name, NEW G, RoleEdited(x, name, G)
  PROVE  AccessInv'
<1> DEFINE row == Row(role[x].tenant, name, role[x].system, G)
<1>1. /\ x \in Roles /\ role[x] \in RoleRow /\ role[x].system = FALSE /\ Exists(x)
      /\ role[x].tenant \in tenant
  BY RoleExists, RoleRows DEF RoleEdited, Changeable, AccessInv, RolesSound
<1>2. /\ row \in RoleRow /\ row # NoRole /\ row.tenant = role[x].tenant /\ row.name = name
      /\ row.system = FALSE /\ row.grants = G
  BY <1>1, RoleRows DEF RoleEdited
<1>3. role' = [role EXCEPT ![x] = row]
  BY DEF RoleEdited
<1> HIDE DEF row
<1>4. /\ role' \in [Roles -> RoleRow \cup {NoRole}]
      /\ role'[x] = row /\ \A y \in Roles \ {x} : role'[y] = role[y]
  BY <1>1, <1>2, <1>3 DEF AccessInv, AccessTypeOK
<1>5. UNCHANGED <<tenant, home, assigned, places, call, misplaced>>
  BY DEF RoleEdited
<1>6. AccessTypeOK'
  BY <1>4, <1>5 DEF AccessInv, AccessTypeOK
<1>7. ASSUME NEW y \in Roles \ {x}, role[y] # NoRole, role[y].tenant = role[x].tenant
      PROVE  role[y].name # name
  BY <1>1, <1>7 DEF AccessInv, RolesSound, RoleEdited, NameFree, RolesOf, Exists
<1>8. \A y \in Roles : role'[y] # NoRole => role[y] # NoRole /\ role'[y].tenant = role[y].tenant
  BY <1>1, <1>2, <1>4 DEF Exists
<1>9. \A y, z \in Roles : role'[y] # NoRole /\ role'[z] # NoRole /\ role'[y].tenant = role'[z].tenant
                            /\ role'[y].name = role'[z].name => y = z
  <2> SUFFICES ASSUME NEW y \in Roles, NEW z \in Roles, role'[y] # NoRole, role'[z] # NoRole,
                      role'[y].tenant = role'[z].tenant, role'[y].name = role'[z].name, y # z
               PROVE  FALSE
    OBVIOUS
  <2>1. CASE y # x /\ z # x
    BY <1>4, <2>1 DEF AccessInv, RolesSound, Exists
  <2>2. CASE y = x
    BY <1>2, <1>4, <1>7, <2>2
  <2>3. CASE z = x
    BY <1>2, <1>4, <1>7, <2>3
  <2> QED BY <2>1, <2>2, <2>3
<1>10. ASSUME NEW t \in tenant
       PROVE  \E a \in Roles : role'[a] = Row(t, "Admin", TRUE, Permissions)
  <2>1. AdminRole(t) \in Roles /\ role[AdminRole(t)] = Row(t, "Admin", TRUE, Permissions)
    BY AdminRow
  <2>2. AdminRole(t) # x
    BY <1>1, AdminRow
  <2> QED BY <1>4, <2>1, <2>2
<1>11. \A y \in Roles : role'[y] # NoRole /\ ~role'[y].system => "reserved" \notin role'[y].grants
  BY <1>2, <1>4 DEF AccessInv, RolesSound, AdminRoleKept, Exists, RoleEdited
<1>12. RolesSound'
  BY <1>5, <1>8, <1>9, <1>10, <1>11 DEF AccessInv, RolesSound, AdminRoleKept, Exists
<1>13. HoldersSound'
  BY <1>1, <1>2, <1>4, <1>5 DEF AccessInv, HoldersSound, PowersOfOwnTenant, HasRole, Exists
<1>14. ASSUME NEW q \in Calls, call[q].step = "admins", NEW y \in Roles,
              role'[y].tenant = call[q].tenant, role'[y].name = "Admin"
       PROVE  role[y].tenant = call[q].tenant /\ role[y].name = "Admin"
  <2>1. CASE y # x
    BY <1>4, <1>14, <2>1
  <2>2. CASE y = x
    <3>1. role[x].tenant = call[q].tenant /\ name = "Admin"
      BY <1>2, <1>4, <1>14, <2>2
    <3>2. AdminRole(role[x].tenant) \in Roles /\ role[AdminRole(role[x].tenant)] # NoRole
          /\ role[AdminRole(role[x].tenant)].tenant = role[x].tenant
          /\ role[AdminRole(role[x].tenant)].name = "Admin"
      BY <1>1, AdminRow DEF Exists
    <3>3. AdminRole(role[x].tenant) = x
      BY <1>7, <3>1, <3>2
    <3> QED BY <3>1, <3>2, <3>3, <2>2
  <2> QED BY <2>1, <2>2
<1>16. ASSUME NEW q \in Calls, call[q].step = "delete",
              ~Exists(call[q].role) \/ ~role[call[q].role].system
       PROVE  role'[call[q].role] = NoRole \/ ~role'[call[q].role].system
  BY <1>2, <1>4, <1>16, CallFacts DEF AccessInv, Exists
<1>17. CallsSound'
  BY <1>5, <1>14, <1>16, CallsKeep
<1> QED BY <1>6, <1>12, <1>13, <1>17 DEF AccessInv

\* Every change of a role is of that kind.
LEMMA RoleChanges ==
  ASSUME AccessInv, NEW x \in Roles,
         \/ \E name \in Names : RenameRole(x, name)
         \/ \E p \in Permissions : AssignPermission(x, p) \/ RemovePermission(x, p)
         \/ \E G \in SUBSET Permissions : AddPermissions(x, G) \/ RemovePermissions(x, G)
  PROVE  AccessInv'
<1>1. /\ Changeable(x) /\ role[x] \in RoleRow /\ "reserved" \notin role[x].grants
      /\ role[x].name \in Names /\ role[x].grants \in SUBSET Permissions
  <2>1. Changeable(x)
    BY DEF RenameRole, AssignPermission, RemovePermission, AddPermissions, RemovePermissions
  <2> QED BY <2>1, RoleExists, RoleRows DEF Changeable, AccessInv, RolesSound, AdminRoleKept
<1>2. ASSUME NEW name \in Names, RenameRole(x, name) PROVE AccessInv'
  <2>1. RoleEdited(x, name, role[x].grants)
    BY <1>1, <1>2 DEF RenameRole, RoleEdited
  <2> QED BY <2>1, RoleEditedKeeps
<1>3. ASSUME NEW G \in SUBSET Permissions, "reserved" \notin G, Grant(x, G),
             UNCHANGED <<tenant, home, assigned, places, call, misplaced>>
      PROVE  AccessInv'
  <2>1. RoleEdited(x, role[x].name, G)
    BY <1>1, <1>3 DEF Grant, RoleEdited
  <2> QED BY <2>1, RoleEditedKeeps
<1>4. ASSUME NEW p \in Permissions, AssignPermission(x, p) \/ RemovePermission(x, p) PROVE AccessInv'
  <2>1. PICK G \in SUBSET Permissions : "reserved" \notin G /\ Grant(x, G)
    BY <1>1, <1>4 DEF AssignPermission, RemovePermission, Grantable
  <2>2. UNCHANGED <<tenant, home, assigned, places, call, misplaced>>
    BY <1>4 DEF AssignPermission, RemovePermission
  <2> QED BY <1>3, <2>1, <2>2
<1>5. ASSUME NEW H \in SUBSET Permissions, AddPermissions(x, H) \/ RemovePermissions(x, H) PROVE AccessInv'
  <2>1. PICK G \in SUBSET Permissions : "reserved" \notin G /\ Grant(x, G)
    BY <1>1, <1>5 DEF AddPermissions, RemovePermissions, Grantable
  <2>2. UNCHANGED <<tenant, home, assigned, places, call, misplaced>>
    BY <1>5 DEF AddPermissions, RemovePermissions
  <2> QED BY <1>3, <2>1, <2>2
<1> QED BY <1>2, <1>4, <1>5

\* An unused id is held by nobody and named by no request.
LEMMA UnusedFacts ==
  ASSUME AccessInv, NEW n \in Unused
  PROVE  /\ n \in Roles /\ role[n] = NoRole
         /\ \A u \in UserIds : <<u, n>> \notin assigned
         /\ \A q \in Calls : call[q].step = "delete" => call[q].role # n
<1>1. n \in Roles /\ ~Exists(n) /\ \A q \in Calls : n \notin NamedBy(q)
  BY DEF Unused
<1>2. \A u \in UserIds : ~HasRole(u, n)
  BY <1>1 DEF AccessInv, HoldersSound
<1> QED BY <1>1, <1>2 DEF Exists, HasRole, NamedBy, CallAt

LEMMA RoleCreated ==
  ASSUME AccessInv, NEW t \in Tenants, NEW name \in Names, NEW G \in SUBSET Permissions,
         CreateRole(t, name, G)
  PROVE  AccessInv'
<1>1. /\ t \in tenant /\ Unused # {} /\ NameFree(t, name) /\ "reserved" \notin G
      /\ role' = [role EXCEPT ![Min(Unused)] = Row(t, name, FALSE, G)]
      /\ UNCHANGED <<tenant, home, assigned, places, call, misplaced>>
  BY DEF CreateRole, Grantable
<1>2. PICK n \in Unused : n = Min(Unused)
  BY <1>1, UnusedRoles, LeastExists
<1>3. PICK row \in RoleRow : /\ row = Row(t, name, FALSE, G) /\ row # NoRole /\ row.tenant = t
                             /\ row.name = name /\ row.system = FALSE /\ row.grants = G
  <2>1. Row(t, name, FALSE, G) \in RoleRow
    BY DEF Row, RoleRow
  <2>2. Row(t, name, FALSE, G) # NoRole
    BY <2>1, RoleRows
  <2> QED BY <2>1, <2>2 DEF Row
<1>4. /\ role' \in [Roles -> RoleRow \cup {NoRole}]
      /\ role'[n] = row /\ \A y \in Roles \ {n} : role'[y] = role[y]
  BY <1>1, <1>2, <1>3, UnusedFacts DEF AccessInv, AccessTypeOK
<1>5. /\ n \in Roles /\ role[n] = NoRole /\ \A u \in UserIds : <<u, n>> \notin assigned
      /\ \A q \in Calls : call[q].step = "delete" => call[q].role # n
  BY UnusedFacts
<1>6. AccessTypeOK'
  BY <1>1, <1>4 DEF AccessInv, AccessTypeOK
<1>7. \A y \in Roles \ {n} : role[y] # NoRole /\ role[y].tenant = t => role[y].name # name
  BY <1>1 DEF NameFree, RolesOf, Exists
<1>8. \A y, z \in Roles : role'[y] # NoRole /\ role'[z] # NoRole /\ role'[y].tenant = role'[z].tenant
                            /\ role'[y].name = role'[z].name => y = z
  <2> SUFFICES ASSUME NEW y \in Roles, NEW z \in Roles, role'[y] # NoRole, role'[z] # NoRole,
                      role'[y].tenant = role'[z].tenant, role'[y].name = role'[z].name, y # z
               PROVE  FALSE
    OBVIOUS
  <2>1. CASE y # n /\ z # n
    BY <1>4, <2>1 DEF AccessInv, RolesSound, Exists
  <2>2. CASE y = n
    BY <1>3, <1>4, <1>7, <2>2
  <2>3. CASE z = n
    BY <1>3, <1>4, <1>7, <2>3
  <2> QED BY <2>1, <2>2, <2>3
<1>9. ASSUME NEW v \in tenant
      PROVE  \E a \in Roles : role'[a] = Row(v, "Admin", TRUE, Permissions)
  <2>1. /\ AdminRole(v) \in Roles /\ role[AdminRole(v)] = Row(v, "Admin", TRUE, Permissions)
        /\ role[AdminRole(v)] # NoRole
    BY AdminRow DEF Exists
  <2> QED BY <1>4, <1>5, <2>1
<1>10. \A y \in Roles : role'[y] # NoRole =>
         role'[y].tenant \in tenant /\ (~role'[y].system => "reserved" \notin role'[y].grants)
  BY <1>1, <1>3, <1>4 DEF AccessInv, RolesSound, AdminRoleKept, Exists
<1>11. RolesSound'
  BY <1>1, <1>8, <1>9, <1>10 DEF RolesSound, AdminRoleKept, Exists
<1>12. HoldersSound'
  <2>1. \A u \in UserIds, x \in Roles : <<u, x>> \in assigned => role'[x] = role[x]
    BY <1>4, <1>5
  <2>2. ASSUME NEW u \in UserIds, NEW x \in Roles, <<u, x>> \in assigned'
        PROVE  role'[x] # NoRole /\ (u \notin misplaced => role'[x].tenant = home[u])
    BY <1>1, <2>1, <2>2 DEF AccessInv, HoldersSound, PowersOfOwnTenant, HasRole, Exists
  <2>3. \A u \in UserIds \ misplaced : places[u] \subseteq {l \in Sites : TenantOf[l] = home[u]}
    BY DEF AccessInv, HoldersSound, PowersOfOwnTenant
  <2> QED BY <1>1, <2>2, <2>3 DEF HoldersSound, PowersOfOwnTenant, HasRole, Exists
<1>14. \A q \in Calls : call[q].step = "delete" => role'[call[q].role] = role[call[q].role]
  BY <1>4, <1>5, CallFacts DEF AccessInv
<1>15. \A u \in UserIds, x \in Roles : <<u, x>> \in assigned' => role'[x] = role[x]
  BY <1>1, <1>4, <1>5
<1>16. ASSUME NEW q \in Calls, call[q].step = "delete",
              ~Exists(call[q].role) \/ ~role[call[q].role].system
       PROVE  role'[call[q].role] = NoRole \/ ~role'[call[q].role].system
  BY <1>14, <1>16 DEF Exists
<1>17. \A u \in UserIds, x \in Roles : <<u, x>> \in assigned => role'[x] = role[x]
  BY <1>1, <1>15
<1>18. CallsSound'
  BY <1>1, <1>16, <1>17, CallsKeep
<1> QED BY <1>6, <1>11, <1>12, <1>18 DEF AccessInv

-----------------------------------------------------------------------------
(* Users without a tenant, and requests that begin or end with nothing     *)
(* written.                                                                *)

LEMMA UnassignedUserCreated ==
  ASSUME AccessInv, NEW u \in UserIds, CreateUnassignedUser(u)
  PROVE  AccessInv'
<1>1. /\ home[u] = "absent" /\ home' = [home EXCEPT ![u] = "none"]
      /\ UNCHANGED <<tenant, role, assigned, places, call, misplaced>>
  BY DEF CreateUnassignedUser
<1>2. /\ home' \in [UserIds -> Tenants \cup {"absent", "none"}]
      /\ home'[u] = "none" /\ \A v \in UserIds \ {u} : home'[v] = home[v]
  BY <1>1 DEF AccessInv, AccessTypeOK
<1>3. AccessTypeOK'
  BY <1>1, <1>2 DEF AccessInv, AccessTypeOK
<1>4. RolesSound'
  BY <1>1 DEF AccessInv, RolesSound, AdminRoleKept, Exists
<1>5. "absent" \notin Tenants
  BY AccessAssumption
<1>6. ASSUME u \notin misplaced
      PROVE  (\A x \in Roles : <<u, x>> \notin assigned) /\ places[u] = {}
  <2>1. ASSUME NEW x \in Roles, <<u, x>> \in assigned PROVE FALSE
    <3>1. role[x] # NoRole /\ role[x].tenant = "absent"
      BY <1>1, <1>6, <2>1 DEF AccessInv, HoldersSound, PowersOfOwnTenant, HasRole, Exists
    <3>2. role[x] \in RoleRow
      BY <3>1 DEF AccessInv, AccessTypeOK
    <3> QED BY <1>5, <3>1, <3>2, RoleRows
  <2>2. places[u] \subseteq {l \in Sites : TenantOf[l] = "absent"}
    BY <1>1, <1>6 DEF AccessInv, HoldersSound, PowersOfOwnTenant
  <2>3. \A l \in Sites : TenantOf[l] # "absent"
    BY <1>5, AccessAssumption
  <2> QED BY <2>1, <2>2, <2>3
<1>7. HoldersSound'
  <2>1. ASSUME NEW v \in UserIds, NEW x \in Roles, <<v, x>> \in assigned
        PROVE  role[x] # NoRole /\ (v \notin misplaced => role[x].tenant = home'[v])
    BY <1>2, <1>6, <2>1 DEF AccessInv, HoldersSound, PowersOfOwnTenant, HasRole, Exists
  <2>2. ASSUME NEW v \in UserIds \ misplaced
        PROVE  places[v] \subseteq {l \in Sites : TenantOf[l] = home'[v]}
    BY <1>2, <1>6 DEF AccessInv, HoldersSound, PowersOfOwnTenant
  <2> QED BY <1>1, <2>1, <2>2 DEF HoldersSound, PowersOfOwnTenant, HasRole, Exists
<1>8. Going(Calls, {})
  BY <1>1, CallsStay DEF AccessInv
<1>9. \A v \in UserIds : /\ home[v] = "none" => home'[v] = "none"
                         /\ home[v] \in Tenants => home'[v] = home[v]
  BY <1>1, <1>2, <1>5
<1>10. \A q \in Calls : call[q].step = "tenant" /\ home[call[q].user] = "none" => home'[call[q].user] = "none"
  BY <1>9, CallFacts DEF AccessInv
<1>11. tenant \subseteq tenant' /\ misplaced \subseteq misplaced' /\ role' = role /\ assigned' = assigned
  BY <1>1
<1>12. \A q \in Calls : CallSound(q)'
  BY <1>8, <1>9, <1>10, <1>11, CallsFollow DEF HasRole, Exists
<1> QED BY <1>3, <1>4, <1>7, <1>12 DEF AccessInv, CallsSound

\* A step that changes nothing but what one request has read.
LEMMA CallOnly ==
  ASSUME AccessInv, NEW r \in Calls, NEW next \in CallState, Do(r, next),
         UNCHANGED <<tenant, home, role, assigned, places, misplaced>>,
         CallSound(r)'
  PROVE  AccessInv'
<1>1. call' \in [Calls -> CallState] /\ Going(Calls \ {r}, {})
  BY DoLeaves DEF AccessInv
<1>2. AccessTypeOK'
  BY <1>1 DEF AccessInv, AccessTypeOK
<1>3. RolesSound' /\ HoldersSound'
  BY DEF AccessInv, RolesSound, HoldersSound, AdminRoleKept, PowersOfOwnTenant, HasRole, Exists
<1>4. Calls \ {r} \in SUBSET Calls /\ tenant \subseteq tenant' /\ misplaced \subseteq misplaced'
  OBVIOUS
<1>5. \A q \in Calls \ {r} : CallSound(q)'
  BY <1>1, <1>4, CallsFollow DEF HasRole, Exists
<1> QED BY <1>2, <1>3, <1>5 DEF AccessInv, CallsSound

LEMMA CallsBegin ==
  ASSUME AccessInv, NEW r \in Calls,
         \/ \E t \in Tenants, u \in UserIds : BeginCreateTenant(r, t, u)
         \/ \E t \in Tenants, S \in SUBSET UserIds : BeginSetAdmins(r, t, S)
         \/ \E x \in Roles : BeginDeleteRole(r, x)
         \/ AbandonCall(r)
  PROVE  AccessInv'
<1>1. ASSUME NEW t \in Tenants, NEW u \in UserIds, BeginCreateTenant(r, t, u) PROVE AccessInv'
  <2>1. PICK next \in CallState :
          next = [step |-> "tenant", tenant |-> t, user |-> u, stale |-> FALSE]
    BY CallStates
  <2>2. /\ Do(r, next) /\ home[u] = "none"
        /\ UNCHANGED <<tenant, home, role, assigned, places, misplaced>>
    BY <1>1, <2>1 DEF BeginCreateTenant
  <2>3. call'[r] = next
    BY <2>2, DoLeaves DEF AccessInv
  <2>4. call'[r].step = "tenant" /\ call'[r].user = u
    BY <2>1, <2>3
  <2>5. CallSound(r)'
    BY <2>2, <2>4 DEF CallSound
  <2> QED BY <2>2, <2>5, CallOnly
<1>2. ASSUME NEW t \in Tenants, NEW S \in SUBSET UserIds, BeginSetAdmins(r, t, S) PROVE AccessInv'
  <2>1. Replaced(t) \in SUBSET (UserIds \X Roles)
    BY DEF Replaced, AccessInv, AccessTypeOK
  <2>2. PICK next \in CallState :
          next = [step |-> "admins", tenant |-> t, users |-> S, found |-> Replaced(t), stale |-> FALSE]
    BY <2>1, CallStates
  <2>3. /\ Do(r, next) /\ t \in tenant /\ \A u \in S : home[u] = t
        /\ UNCHANGED <<tenant, home, role, assigned, places, misplaced>>
    BY <1>2, <2>2 DEF BeginSetAdmins
  <2>4. call'[r] = next
    BY <2>3, DoLeaves DEF AccessInv
  <2>5. call'[r].step = "admins" /\ call'[r].tenant = t /\ call'[r].users = S /\ call'[r].found = Replaced(t)
    BY <2>2, <2>4
  <2>6. ASSUME NEW u \in UserIds \ misplaced, NEW x \in Roles,
               <<u, x>> \in assigned, role[x].tenant = t, role[x].name = "Admin"
        PROVE  <<u, x>> \in Replaced(t)
    BY <2>6 DEF Replaced, AccessInv, HoldersSound, PowersOfOwnTenant, HasRole
  <2>7. CallSound(r)'
    BY <2>3, <2>5, <2>6 DEF CallSound, HasRole
  <2> QED BY <2>3, <2>7, CallOnly
<1>3. ASSUME NEW x \in Roles, BeginDeleteRole(r, x) PROVE AccessInv'
  <2>1. PICK next \in CallState : next = [step |-> "delete", role |-> x, stale |-> FALSE]
    BY CallStates
  <2>2. /\ Do(r, next) /\ ~role[x].system /\ \A u \in UserIds : <<u, x>> \notin assigned
        /\ UNCHANGED <<tenant, home, role, assigned, places, misplaced>>
    BY <1>3, <2>1 DEF BeginDeleteRole, Changeable, InUse, HasRole
  <2>3. call'[r] = next
    BY <2>2, DoLeaves DEF AccessInv
  <2>4. call'[r].step = "delete" /\ call'[r].role = x
    BY <2>1, <2>3
  <2>5. CallSound(r)'
    BY <2>2, <2>4 DEF CallSound, HasRole
  <2> QED BY <2>2, <2>5, CallOnly
<1>4. ASSUME AbandonCall(r) PROVE AccessInv'
  <2>1. Do(r, NoCall) /\ UNCHANGED <<tenant, home, role, assigned, places, misplaced>>
    BY <1>4 DEF AbandonCall
  <2>2. call'[r].step = "idle"
    BY <2>1, CallStates, DoLeaves DEF AccessInv
  <2>3. CallSound(r)'
    BY <2>2 DEF CallSound
  <2> QED BY <2>1, <2>3, CallStates, CallOnly
<1> QED BY <1>1, <1>2, <1>3, <1>4

-----------------------------------------------------------------------------
(* The writes of requests that checked before. *)

LEMMA TenantCreated ==
  ASSUME AccessInv, NEW r \in Calls, CommitCreateTenant(r)
  PROVE  AccessInv'
<1> DEFINE t == call[r].tenant
           u == call[r].user
           same == {q \in Calls : CallAt(q, "tenant") /\ call[q].user = u}
<1>1. PICK n \in Unused, m \in Unused :
        /\ call[r].step = "tenant" /\ t \notin tenant /\ m # n
        /\ tenant' = tenant \cup {t}
        /\ home' = [home EXCEPT ![u] = t]
        /\ role' = DefaultRoles(t, n, m)
        /\ assigned' = assigned \cup {<<u, n>>}
        /\ misplaced' = IF call[r].stale THEN misplaced \cup {u} ELSE misplaced
        /\ call' = [Overtaken(same) EXCEPT ![r] = NoCall]
        /\ places' = places
  BY TwoFreeIds DEF CommitCreateTenant, CallAt
<1>2. t \in Tenants /\ u \in UserIds
  BY <1>1, CallFacts DEF AccessInv
<1>3. /\ n \in Roles /\ role[n] = NoRole /\ \A v \in UserIds : <<v, n>> \notin assigned
      /\ m \in Roles /\ role[m] = NoRole /\ \A v \in UserIds : <<v, m>> \notin assigned
      /\ \A q \in Calls : call[q].step = "delete" => call[q].role \in Roles \ {n, m}
  BY UnusedFacts, CallFacts DEF AccessInv
<1>4. PICK admin, staff :
        /\ admin = Row(t, "Admin", TRUE, Permissions) /\ admin \in RoleRow /\ admin # NoRole
        /\ admin.tenant = t /\ admin.name = "Admin" /\ admin.system = TRUE
        /\ staff = Row(t, "Staff", FALSE, {"general"}) /\ staff \in RoleRow /\ staff # NoRole
        /\ staff.tenant = t /\ staff.name = "Staff" /\ "reserved" \notin staff.grants
  <2>1. Row(t, "Staff", FALSE, {"general"}) \in RoleRow
    BY <1>2 DEF Row, RoleRow, Names, Permissions
  <2>2. Row(t, "Staff", FALSE, {"general"}) # NoRole
    BY <2>1, RoleRows
  <2>3. LET staff == Row(t, "Staff", FALSE, {"general"}) IN
        staff.tenant = t /\ staff.name = "Staff" /\ "reserved" \notin staff.grants
    BY DEF Row
  <2> QED BY <1>2, <2>1, <2>2, <2>3, AdminFields
<1>5. /\ role' \in [Roles -> RoleRow \cup {NoRole}]
      /\ role'[n] = admin /\ role'[m] = staff
      /\ \A x \in Roles \ {n, m} : role'[x] = role[x]
  BY <1>1, <1>3, <1>4 DEF DefaultRoles, AccessInv, AccessTypeOK
<1>6. \A q \in same : q \in Calls /\ call[q].step # "idle"
  BY DEF CallAt
<1> HIDE DEF same
<1>7. call' \in [Calls -> CallState] /\ call'[r] = NoCall /\ Going(Calls \ {r}, same)
  BY <1>1, <1>6, OvertakenLeaves DEF AccessInv
<1>8. AccessTypeOK'
  BY <1>1, <1>2, <1>3, <1>5, <1>7 DEF AccessInv, AccessTypeOK
<1>9. RolesSound'
  <2>1. \A x \in Roles \ {n, m} : role[x] # NoRole => role[x].tenant \in tenant /\ role[x].tenant # t
    BY <1>1 DEF AccessInv, RolesSound, Exists
  <2>2. \A x \in Roles : role'[x] # NoRole => role'[x].tenant \in tenant'
    BY <1>1, <1>4, <1>5, <2>1
  <2>3. \A x, y \in Roles : role'[x] # NoRole /\ role'[y] # NoRole /\ role'[x].tenant = role'[y].tenant
                              /\ role'[x].name = role'[y].name => x = y
    <3> SUFFICES ASSUME NEW x \in Roles, NEW y \in Roles, role'[x] # NoRole, role'[y] # NoRole,
                        role'[x].tenant = role'[y].tenant, role'[x].name = role'[y].name, x # y
                 PROVE  FALSE
      OBVIOUS
    <3>1. CASE x \notin {n, m} /\ y \notin {n, m}
      BY <1>5, <3>1 DEF AccessInv, RolesSound, Exists
    <3>2. CASE x \in {n, m}
      BY <1>4, <1>5, <2>1, <3>2
    <3>3. CASE y \in {n, m}
      BY <1>4, <1>5, <2>1, <3>3
    <3> QED BY <3>1, <3>2, <3>3
  <2>4. ASSUME NEW v \in tenant'
        PROVE  \E a \in Roles : role'[a] = Row(v, "Admin", TRUE, Permissions)
    <3>1. CASE v = t
      BY <1>3, <1>4, <1>5, <3>1
    <3>2. CASE v \in tenant
      <4>1. /\ AdminRole(v) \in Roles /\ role[AdminRole(v)] = Row(v, "Admin", TRUE, Permissions)
            /\ role[AdminRole(v)] # NoRole
        BY <3>2, AdminRow DEF Exists
      <4> QED BY <1>3, <1>5, <4>1
    <3> QED BY <1>1, <3>1, <3>2
  <2>5. \A x \in Roles : role'[x] # NoRole /\ ~role'[x].system => "reserved" \notin role'[x].grants
    BY <1>4, <1>5 DEF AccessInv, RolesSound, AdminRoleKept, Exists
  <2> QED BY <2>2, <2>3, <2>4, <2>5 DEF RolesSound, AdminRoleKept, Exists
<1>10. "none" \notin Tenants
  BY AccessAssumption
<1>11. u \notin misplaced' => home[u] = "none"
  BY <1>1 DEF AccessInv, CallsSound, CallSound
<1>12. /\ home'[u] = t /\ \A v \in UserIds \ {u} : home'[v] = home[v]
       /\ misplaced \subseteq misplaced' /\ \A v \in UserIds \ {u} : v \in misplaced' => v \in misplaced
  BY <1>1, <1>2 DEF AccessInv, AccessTypeOK
<1>13. ASSUME u \notin misplaced'
       PROVE  (\A x \in Roles : <<u, x>> \notin assigned) /\ places[u] = {}
  <2>1. u \notin misplaced /\ home[u] = "none"
    BY <1>11, <1>12, <1>13
  <2>2. ASSUME NEW x \in Roles, <<u, x>> \in assigned PROVE FALSE
    <3>1. role[x] # NoRole /\ role[x].tenant = "none"
      BY <1>2, <2>1, <2>2 DEF AccessInv, HoldersSound, PowersOfOwnTenant, HasRole, Exists
    <3>2. role[x] \in RoleRow
      BY <3>1 DEF AccessInv, AccessTypeOK
    <3> QED BY <1>10, <3>1, <3>2, RoleRows
  <2>3. places[u] \subseteq {l \in Sites : TenantOf[l] = "none"}
    BY <1>2, <2>1 DEF AccessInv, HoldersSound, PowersOfOwnTenant
  <2>4. \A l \in Sites : TenantOf[l] # "none"
    BY <1>10, AccessAssumption
  <2> QED BY <2>2, <2>3, <2>4
<1>14. HoldersSound'
  <2>1. ASSUME NEW v \in UserIds, NEW x \in Roles, <<v, x>> \in assigned'
        PROVE  role'[x] # NoRole /\ (v \notin misplaced' => role'[x].tenant = home'[v])
    <3>1. CASE v = u /\ x = n
      BY <1>4, <1>5, <1>12, <3>1
    <3>2. CASE <<v, x>> \in assigned
      <4>1. x \notin {n, m} /\ role'[x] = role[x]
        BY <1>3, <1>5, <3>2
      <4>2. role[x] # NoRole /\ (v \notin misplaced => role[x].tenant = home[v])
        BY <3>2 DEF AccessInv, HoldersSound, PowersOfOwnTenant, HasRole, Exists
      <4> QED BY <1>12, <1>13, <3>2, <4>1, <4>2
    <3> QED BY <1>1, <2>1, <3>1, <3>2
  <2>2. ASSUME NEW v \in UserIds \ misplaced'
        PROVE  places[v] \subseteq {l \in Sites : TenantOf[l] = home'[v]}
    BY <1>12, <1>13 DEF AccessInv, HoldersSound, PowersOfOwnTenant
  <2> QED BY <1>1, <2>1, <2>2 DEF HoldersSound, PowersOfOwnTenant, HasRole, Exists
<1>15. \A q \in Calls \ {r} : call[q].step = "tenant" /\ home[call[q].user] = "none" =>
         home'[call[q].user] = "none" \/ q \in same
  BY <1>12, CallFacts DEF AccessInv, CallAt, same
<1>16. \A q \in Calls \ {r} : call[q].step = "delete" =>
         /\ ~Exists(call[q].role) \/ ~role[call[q].role].system =>
              role'[call[q].role] = NoRole \/ ~role'[call[q].role].system
         /\ \A v \in UserIds : <<v, call[q].role>> \in assigned' => <<v, call[q].role>> \in assigned
  BY <1>1, <1>3, <1>5 DEF Exists
<1>17. \A v \in UserIds : home[v] \in Tenants => home'[v] = home[v] \/ v \in misplaced'
  BY <1>10, <1>11, <1>12
<1>18. ASSUME NEW q \in Calls \ {r}, call[q].step = "admins", NEW v \in UserIds, NEW x \in Roles,
              <<v, x>> \in assigned', role'[x].tenant = call[q].tenant, role'[x].name = "Admin"
       PROVE  HasRole(v, x) /\ role[x].tenant = call[q].tenant /\ role[x].name = "Admin"
  <2>1. call[q].tenant \in tenant
    BY <1>18 DEF AccessInv, CallsSound, CallSound
  <2>2. x \notin {n, m}
    <3>1. role'[x].tenant # t
      BY <1>1, <1>18, <2>1
    <3>2. role'[n].tenant = t /\ role'[m].tenant = t
      BY <1>4, <1>5
    <3> QED BY <3>1, <3>2
  <2> QED BY <1>1, <1>5, <1>18, <2>2 DEF HasRole
<1>19. Calls \ {r} \in SUBSET Calls /\ tenant \subseteq tenant' /\ misplaced \subseteq misplaced'
  BY <1>1, <1>12
<1>20. \A q \in Calls \ {r} : CallSound(q)'
  BY <1>7, <1>15, <1>16, <1>17, <1>18, <1>19, CallsFollow
<1>21. CallSound(r)'
  BY <1>7, CallStates DEF CallSound
<1> QED BY <1>8, <1>9, <1>14, <1>20, <1>21 DEF AccessInv, CallsSound

LEMMA AdminsSet ==
  ASSUME AccessInv, NEW r \in Calls, CommitSetAdmins(r)
  PROVE  AccessInv'
<1> DEFINE t == call[r].tenant
<1>1. PICK a : a = AdminRole(t)
  OBVIOUS
<1>2. /\ call[r].step = "admins"
      /\ assigned' = (assigned \ call[r].found) \cup (call[r].users \X {a})
      /\ call' = [Overtaken(Replacing(t)) EXCEPT ![r] = NoCall]
      /\ UNCHANGED <<tenant, home, role, places, misplaced>>
  BY <1>1 DEF CommitSetAdmins, CallAt
<1>3. /\ t \in tenant /\ call[r].users \in SUBSET UserIds
      /\ \A u \in call[r].users : home[u] = t \/ u \in misplaced
  BY <1>2, CallFacts DEF AccessInv, CallsSound, CallSound
<1>4. a \in Roles /\ role[a] # NoRole /\ role[a].tenant = t /\ role[a].system = TRUE
  BY <1>1, <1>3, AdminRow DEF Exists
<1>5. \A q \in Replacing(t) : q \in Calls /\ call[q].step # "idle"
  BY DEF Replacing, CallAt
<1>6. call' \in [Calls -> CallState] /\ call'[r] = NoCall /\ Going(Calls \ {r}, Replacing(t))
  BY <1>2, <1>5, OvertakenLeaves DEF AccessInv
<1>7. assigned' \in SUBSET (UserIds \X Roles)
  BY <1>2, <1>3, <1>4 DEF AccessInv, AccessTypeOK
<1>8. AccessTypeOK'
  BY <1>2, <1>6, <1>7 DEF AccessInv, AccessTypeOK
<1>9. RolesSound'
  BY <1>2 DEF AccessInv, RolesSound, AdminRoleKept, Exists
<1>10. \A u \in UserIds, x \in Roles : <<u, x>> \in assigned' =>
         <<u, x>> \in assigned \/ (x = a /\ u \in call[r].users)
  BY <1>2
<1>11. HoldersSound'
  <2>1. ASSUME NEW u \in UserIds, NEW x \in Roles, <<u, x>> \in assigned'
        PROVE  role[x] # NoRole /\ (u \notin misplaced => role[x].tenant = home[u])
    <3>1. CASE <<u, x>> \in assigned
      BY <3>1 DEF AccessInv, HoldersSound, PowersOfOwnTenant, HasRole, Exists
    <3>2. CASE x = a /\ u \in call[r].users
      BY <1>3, <1>4, <3>2
    <3> QED BY <1>10, <2>1, <3>1, <3>2
  <2>2. \A u \in UserIds \ misplaced : places[u] \subseteq {l \in Sites : TenantOf[l] = home[u]}
    BY DEF AccessInv, HoldersSound, PowersOfOwnTenant
  <2> QED BY <1>2, <2>1, <2>2 DEF HoldersSound, PowersOfOwnTenant, HasRole, Exists
<1>12. ASSUME NEW q \in Calls \ {r}, call[q].step = "delete"
       PROVE  \A u \in UserIds : <<u, call[q].role>> \in assigned' => <<u, call[q].role>> \in assigned
  <2>1. call[q].role \in Roles /\ (role[call[q].role] = NoRole \/ ~role[call[q].role].system)
    BY <1>12, CallFacts DEF AccessInv, CallsSound, CallSound, Exists
  <2>2. call[q].role # a
    BY <1>4, <2>1
  <2> QED BY <1>10, <2>1, <2>2
<1>13. ASSUME NEW q \in Calls \ {r}, call[q].step = "admins"
       PROVE  \/ q \in Replacing(t)
              \/ \A u \in UserIds \ misplaced', x \in Roles :
                   <<u, x>> \in assigned' /\ role'[x].tenant = call[q].tenant /\ role'[x].name = "Admin" =>
                     HasRole(u, x) /\ role[x].tenant = call[q].tenant /\ role[x].name = "Admin"
  <2>1. CASE call[q].tenant = t
    BY <1>13, <2>1 DEF Replacing, CallAt
  <2>2. CASE call[q].tenant # t
    BY <1>2, <1>4, <1>10, <2>2 DEF HasRole
  <2> QED BY <2>1, <2>2
<1>14. /\ Calls \ {r} \in SUBSET Calls /\ tenant \subseteq tenant' /\ misplaced \subseteq misplaced'
       /\ home' = home /\ role' = role
  BY <1>2
<1>15. \A q \in Calls \ {r} : CallSound(q)'
  BY <1>6, <1>12, <1>13, <1>14, CallsFollow DEF Exists
<1>16. CallSound(r)'
  BY <1>6, CallStates DEF CallSound
<1> QED BY <1>8, <1>9, <1>11, <1>15, <1>16 DEF AccessInv, CallsSound

LEMMA RoleDeleted ==
  ASSUME AccessInv, NEW r \in Calls, CommitDeleteRole(r)
  PROVE  AccessInv'
<1>1. PICK x \in Roles :
        /\ x = call[r].role /\ call[r].step = "delete" /\ role[x] # NoRole /\ ~role[x].system
        /\ role' = [role EXCEPT ![x] = NoRole]
        /\ assigned' = {p \in assigned : p[2] # x}
        /\ Do(r, NoCall)
        /\ UNCHANGED <<tenant, home, places, misplaced>>
  BY CallFacts DEF CommitDeleteRole, CallAt, Exists, AccessInv, CallsSound, CallSound
<1>2. call' \in [Calls -> CallState] /\ call'[r] = NoCall /\ Going(Calls \ {r}, {})
  BY <1>1, CallStates, DoLeaves DEF AccessInv
<1>3. /\ role' \in [Roles -> RoleRow \cup {NoRole}]
      /\ role'[x] = NoRole /\ \A y \in Roles \ {x} : role'[y] = role[y]
  BY <1>1 DEF AccessInv, AccessTypeOK
<1>4. AccessTypeOK'
  BY <1>1, <1>2, <1>3 DEF AccessInv, AccessTypeOK
<1>5. RolesSound'
  <2>1. ASSUME NEW v \in tenant
        PROVE  \E a \in Roles : role'[a] = Row(v, "Admin", TRUE, Permissions)
    <3>1. /\ AdminRole(v) \in Roles /\ role[AdminRole(v)] = Row(v, "Admin", TRUE, Permissions)
          /\ AdminRole(v) # x
      BY <1>1, AdminRow
    <3> QED BY <1>3, <3>1
  <2>2. /\ \A y \in Roles : role'[y] # NoRole => role[y] # NoRole /\ role'[y] = role[y]
        /\ tenant' = tenant
    BY <1>1, <1>3
  <2> QED BY <2>1, <2>2 DEF AccessInv, RolesSound, AdminRoleKept, Exists
<1>6. \A u \in UserIds, y \in Roles : <<u, y>> \in assigned' => <<u, y>> \in assigned /\ role'[y] = role[y]
  BY <1>1, <1>3
<1>7. HoldersSound'
  <2>1. ASSUME NEW u \in UserIds, NEW y \in Roles, <<u, y>> \in assigned'
        PROVE  role'[y] # NoRole /\ (u \notin misplaced => role'[y].tenant = home[u])
    BY <1>6, <2>1 DEF AccessInv, HoldersSound, PowersOfOwnTenant, HasRole, Exists
  <2>2. \A u \in UserIds \ misplaced : places[u] \subseteq {l \in Sites : TenantOf[l] = home[u]}
    BY DEF AccessInv, HoldersSound, PowersOfOwnTenant
  <2> QED BY <1>1, <2>1, <2>2 DEF HoldersSound, PowersOfOwnTenant, HasRole, Exists
<1>8. ASSUME NEW q \in Calls \ {r}, call[q].step = "delete"
      PROVE  /\ ~Exists(call[q].role) \/ ~role[call[q].role].system =>
                  role'[call[q].role] = NoRole \/ ~role'[call[q].role].system
             /\ \A u \in UserIds : <<u, call[q].role>> \in assigned' => <<u, call[q].role>> \in assigned
  BY <1>1, <1>3, <1>8, CallFacts DEF AccessInv, Exists
<1>9. ASSUME NEW q \in Calls \ {r}, NEW u \in UserIds, NEW y \in Roles,
             <<u, y>> \in assigned', role'[y].tenant = call[q].tenant, role'[y].name = "Admin"
      PROVE  HasRole(u, y) /\ role[y].tenant = call[q].tenant /\ role[y].name = "Admin"
  BY <1>6, <1>9 DEF HasRole
<1>10. /\ Calls \ {r} \in SUBSET Calls /\ tenant \subseteq tenant' /\ misplaced \subseteq misplaced'
       /\ home' = home
  BY <1>1
<1>11. \A q \in Calls \ {r} : CallSound(q)'
  BY <1>2, <1>8, <1>9, <1>10, CallsFollow
<1>12. CallSound(r)'
  BY <1>2, CallStates DEF CallSound
<1> QED BY <1>4, <1>5, <1>7, <1>11, <1>12 DEF AccessInv, CallsSound

-----------------------------------------------------------------------------
(* What access control promises. *)

LEMMA AccessInvariant == AccessSpec => []AccessInv
<1>1. AccessInit => AccessInv
  <2> SUFFICES ASSUME AccessInit PROVE AccessInv
    OBVIOUS
  <2>1. /\ \A q \in Calls : call[q] = NoCall /\ call[q].step = "idle"
        /\ \A x \in Roles : role[x] = NoRole
        /\ assigned = {} /\ tenant = {} /\ \A u \in UserIds : places[u] = {}
    BY CallStates DEF AccessInit
  <2>2. AccessTypeOK
    BY CallStates DEF AccessInit, AccessTypeOK
  <2>3. RolesSound
    BY <2>1 DEF RolesSound, AdminRoleKept, Exists
  <2>4. HoldersSound
    BY <2>1 DEF HoldersSound, PowersOfOwnTenant, HasRole
  <2>5. CallsSound
    BY <2>1 DEF CallsSound, CallSound
  <2> QED BY <2>2, <2>3, <2>4, <2>5 DEF AccessInv
<1>2. AccessInv /\ [AccessNext]_accessVars => AccessInv'
  <2> SUFFICES ASSUME AccessInv, [AccessNext]_accessVars PROVE AccessInv'
    OBVIOUS
  <2>1. ASSUME RoleSteps PROVE AccessInv'
    BY <2>1, RoleChanges, CallsBegin DEF RoleSteps
  <2>2. CASE UNCHANGED accessVars
    BY <2>2 DEF accessVars, AccessInv, AccessTypeOK, RolesSound, HoldersSound, CallsSound, CallSound,
                AdminRoleKept, PowersOfOwnTenant, HasRole, Exists
  <2>3. ASSUME NEW r \in Calls,
               \/ CommitCreateTenant(r) \/ CommitSetAdmins(r)
               \/ CommitDeleteRole(r) \/ AbandonCall(r)
        PROVE  AccessInv'
    BY <2>3, TenantCreated, AdminsSet, RoleDeleted, CallsBegin
  <2> QED BY <2>1, <2>2, <2>3, UserStepsKeep, UnassignedUserCreated, CallsBegin, RoleCreated DEF AccessNext
<1> QED BY <1>1, <1>2, PTL DEF AccessSpec

\* The state of users, roles and requests has the types the module declares.
THEOREM AccessTypeCorrect == AccessSpec => []AccessTypeOK
<1>1. AccessInv => AccessTypeOK
  BY DEF AccessInv
<1> QED BY <1>1, AccessInvariant, PTL

\* Roles and locations are looked up in the tenant of the user wherever they
\* are assigned: nobody acts with a role, or at a location, of another
\* tenant, but a user whom two creations of tenants took.
THEOREM PowersAlwaysOwn == AccessSpec => []PowersOfOwnTenant
<1>1. AccessInv => PowersOfOwnTenant
  BY DEF AccessInv, HoldersSound
<1> QED BY <1>1, AccessInvariant, PTL

\* System roles are refused by every change: a tenant keeps its one administrator
\* role, with the permissions to run the tenant, whatever it does to its roles,
\* and no role made by a tenant holds a reserved permission.
THEOREM AdminRoleAlwaysStands == AccessSpec => []AdminRoleStands
<1>1. AccessInv => AdminRoleStands
  <2> SUFFICES ASSUME AccessInv
               PROVE  AdminRoleStands
    OBVIOUS
  <2>1. ASSUME NEW t \in tenant
        PROVE  \E x \in RolesOf(t) :
                 /\ role[x].name = "Admin" /\ role[x].system /\ "general" \in role[x].grants
                 /\ \A y \in RolesOf(t) \ {x} : role[y].name # "Admin"
    <3>1. PICK x \in Roles : role[x] = Row(t, "Admin", TRUE, Permissions)
      BY DEF AccessInv, RolesSound, AdminRoleKept
    <3>2. /\ role[x].tenant = t /\ role[x].name = "Admin" /\ role[x].system
          /\ "general" \in role[x].grants /\ Exists(x)
      BY <3>1 DEF Row, Permissions, Exists, NoRole
    <3>3. \A y \in RolesOf(t) \ {x} : role[y].name # "Admin"
      BY <3>2 DEF AccessInv, RolesSound, RolesOf
    <3> QED BY <3>2, <3>3 DEF RolesOf
  <2> QED BY <2>1 DEF AccessInv, RolesSound, AdminRoleKept, AdminRoleStands
<1> QED BY <1>1, AccessInvariant, PTL

\* A request ends by a step of its own.
LEMMA EndsItself ==
  ASSUME AccessInv, AccessNext, NEW r \in Calls, call[r].step # "idle", call'[r] = NoCall
  PROVE  CommitCreateTenant(r) \/ CommitSetAdmins(r) \/ CommitDeleteRole(r) \/ AbandonCall(r)
<1>1. ASSUME NEW S \in SUBSET Calls, NEW R, Going(S, R), r \in S PROVE FALSE
  BY <1>1, CallStates DEF Going, GoesOn
<1>2. AccessTypeOK
  BY DEF AccessInv
<1>3. ASSUME call' = call PROVE FALSE
  BY <1>1, <1>2, <1>3, CallsStay
<1>4. ASSUME NEW R, \A q \in R : q \in Calls /\ call[q].step # "idle", NEW q \in Calls, q # r,
             call' = Overtaken(R) \/ call' = [Overtaken(R) EXCEPT ![q] = NoCall]
      PROVE  FALSE
  <2>1. Going(Calls, R) \/ Going(Calls \ {q}, R)
    BY <1>2, <1>4, OvertakenLeaves
  <2> QED BY <1>1, <1>4, <2>1
<1>5. ASSUME NEW R, \A q \in R : q \in Calls /\ call[q].step # "idle", call' = Overtaken(R)
      PROVE  FALSE
  BY <1>1, <1>2, <1>5, OvertakenLeaves
<1>6. ASSUME NEW q \in Calls, NEW next \in CallState, Do(q, next), q # r PROVE FALSE
  <2>1. PICK S : S = Calls \ {q}
    OBVIOUS
  <2>2. Going(S, {})
    BY <1>2, <1>6, <2>1, DoLeaves
  <2>3. r \in S /\ S \in SUBSET Calls
    BY <1>6, <2>1
  <2> QED BY <1>1, <2>2, <2>3
<1>7. ASSUME UserSteps PROVE FALSE
  <2>1. PICK t \in Tenants, u \in UserIds :
          \/ \E R \in SUBSET Roles, P \in SUBSET Sites : CreateUser(t, u, R, P)
          \/ UpdateUser(t, u)
          \/ \E x \in Roles : AssignRole(t, u, x) \/ RemoveRole(t, u, x)
          \/ \E l \in Sites : AssignLocation(t, u, l) \/ RemoveLocation(t, u, l)
    BY <1>7 DEF UserSteps
  <2>2. ASSUME NEW R \in SUBSET Roles, ValidRoles(t, R), SetRoles(u, R) PROVE FALSE
    <3>1. PICK O : Going(Calls, O)
      BY <2>2, RolesSetSo DEF ValidRoles
    <3> QED BY <1>1, <3>1
  <2>3. ASSUME NEW x \in Roles, AssignRole(t, u, x) \/ RemoveRole(t, u, x) PROVE FALSE
    <3>1. \/ call' = call \/ call' = Overtaken(Awaiting(x)) \/ call' = Overtaken(Replacing(role[x].tenant))
      BY <2>3 DEF AssignRole, RemoveRole
    <3>2. /\ \A q \in Awaiting(x) : q \in Calls /\ call[q].step # "idle"
          /\ \A q \in Replacing(role[x].tenant) : q \in Calls /\ call[q].step # "idle"
      BY AwaitingCalls DEF Awaiting
    <3> QED BY <1>3, <1>5, <3>1, <3>2
  <2>4. ASSUME NEW l \in Sites, AssignLocation(t, u, l) \/ RemoveLocation(t, u, l) PROVE FALSE
    BY <1>3, <2>4 DEF AssignLocation, RemoveLocation
  <2> QED BY <1>3, <2>1, <2>2, <2>3, <2>4 DEF CreateUser, UpdateUser
<1>8. ASSUME RoleSteps PROVE FALSE
  <2>1. PICK x \in Roles :
          \/ \E name \in Names : RenameRole(x, name)
          \/ \E p \in Permissions : AssignPermission(x, p) \/ RemovePermission(x, p)
          \/ \E G \in SUBSET Permissions : AddPermissions(x, G) \/ RemovePermissions(x, G)
          \/ \E q \in Calls : BeginDeleteRole(q, x)
    BY <1>8 DEF RoleSteps
  <2>2. ASSUME NEW q \in Calls, BeginDeleteRole(q, x) PROVE FALSE
    BY <1>6, <2>2, CallStates DEF BeginDeleteRole, CallAt
  <2> QED BY <1>3, <2>1, <2>2
          DEF RenameRole, AssignPermission, RemovePermission, AddPermissions, RemovePermissions
<1>9. ASSUME NEW q \in Calls, NEW t \in Tenants,
             \/ \E u \in UserIds : BeginCreateTenant(q, t, u)
             \/ \E S \in SUBSET UserIds : BeginSetAdmins(q, t, S)
      PROVE  FALSE
  <2>1. call[q].step = "idle" /\ Replaced(t) \in SUBSET (UserIds \X Roles)
    BY <1>2, <1>9 DEF BeginCreateTenant, BeginSetAdmins, CallAt, Replaced, AccessTypeOK
  <2>2. PICK next \in CallState : Do(q, next)
    BY <1>9, <2>1, CallStates DEF BeginCreateTenant, BeginSetAdmins
  <2> QED BY <1>6, <2>1, <2>2
<1>10. ASSUME NEW q \in Calls, q # r,
              \/ CommitCreateTenant(q) \/ CommitSetAdmins(q)
              \/ CommitDeleteRole(q) \/ AbandonCall(q)
       PROVE  FALSE
  <2>1. ASSUME CommitCreateTenant(q) PROVE FALSE
    <3>1. PICK R : /\ R = {c \in Calls : CallAt(c, "tenant") /\ call[c].user = call[q].user}
                   /\ call' = [Overtaken(R) EXCEPT ![q] = NoCall]
      BY <2>1 DEF CommitCreateTenant
    <3>2. \A c \in R : c \in Calls /\ call[c].step # "idle"
      BY <3>1 DEF CallAt
    <3> QED BY <1>4, <1>10, <3>1, <3>2
  <2>2. ASSUME CommitSetAdmins(q) PROVE FALSE
    <3>1. PICK R : R = Replacing(call[q].tenant) /\ call' = [Overtaken(R) EXCEPT ![q] = NoCall]
      BY <2>2 DEF CommitSetAdmins
    <3>2. \A c \in R : c \in Calls /\ call[c].step # "idle"
      BY <3>1 DEF Replacing, CallAt
    <3> QED BY <1>4, <1>10, <3>1, <3>2
  <2>3. ASSUME CommitDeleteRole(q) \/ AbandonCall(q) PROVE FALSE
    BY <1>6, <1>10, <2>3, CallStates DEF CommitDeleteRole, AbandonCall
  <2> QED BY <1>10, <2>1, <2>2, <2>3
<1> QED BY <1>3, <1>7, <1>8, <1>9, <1>10 DEF AccessNext, CreateUnassignedUser, CreateRole

LEMMA DeletionStep ==
  ASSUME AccessInv, [AccessNext]_accessVars, NEW r \in Calls, CallAt(r, "delete"), role' # role,
         call'[r] = NoCall, ~call[r].stale, NEW u \in UserIds
  PROVE  /\ EffectivePermissions(u)' = EffectivePermissions(u)
         /\ AllowedLocations(u)' = AllowedLocations(u)
<1>1. CommitDeleteRole(r)
  <2>1. AccessNext
    BY DEF accessVars
  <2> QED BY <2>1, EndsItself DEF CallAt, CommitCreateTenant, CommitSetAdmins, AbandonCall
<1>2. /\ role' = [role EXCEPT ![call[r].role] = NoRole]
      /\ assigned' = {p \in assigned : p[2] # call[r].role} /\ places' = places
  BY <1>1 DEF CommitDeleteRole
<1>3. \A v \in UserIds : <<v, call[r].role>> \notin assigned
  BY DEF AccessInv, CallsSound, CallSound, CallAt, HasRole
<1>4. assigned \in SUBSET (UserIds \X Roles) /\ role \in [Roles -> RoleRow \cup {NoRole}]
  BY DEF AccessInv, AccessTypeOK
<1>5. assigned' = assigned
  BY <1>2, <1>3, <1>4
<1> DEFINE H == {y \in Roles : <<u, y>> \in assigned}
<1>6. \A y \in H : role'[y] = role[y]
  BY <1>2, <1>3, <1>4
<1>7. {y \in Roles : <<u, y>> \in assigned'} = H
  BY <1>5
<1> HIDE DEF H
<1>8. {role'[y].grants : y \in H} = {role[y].grants : y \in H}
  BY <1>6
<1>9. EffectivePermissions(u)' = UNION {role'[y].grants : y \in H}
  BY <1>7 DEF EffectivePermissions, HasRole
<1>10. EffectivePermissions(u) = UNION {role[y].grants : y \in H}
  BY DEF EffectivePermissions, HasRole, H
<1>11. AllowedLocations(u)' = AllowedLocations(u)
  BY <1>2, <1>5, <1>6 DEF AllowedLocations, HasRole, H
<1> QED BY <1>8, <1>9, <1>10, <1>11

\* A role is deleted after its users were counted, and none was found: the
\* deletion changes nobody's permissions or reach.
THEOREM DeletionNeverTakes == AccessSpec => DeletionTakesNothing
<1> DEFINE Nothing == \A r \in Calls :
             CallAt(r, "delete") /\ role' # role /\ call'[r] = NoCall /\ ~call[r].stale =>
               \A u \in UserIds : /\ EffectivePermissions(u)' = EffectivePermissions(u)
                                  /\ AllowedLocations(u)' = AllowedLocations(u)
<1>1. AccessInv /\ [AccessNext]_accessVars => [Nothing]_accessVars
  BY DeletionStep
<1>2. AccessSpec => [][Nothing]_accessVars
  BY <1>1, AccessInvariant, PTL DEF AccessSpec
<1> QED BY <1>2 DEF DeletionTakesNothing

LEMMA ReplacementStep ==
  ASSUME AccessInv, [AccessNext]_accessVars, NEW r \in Calls, CallAt(r, "admins"),
         call'[r] = NoCall, assigned' # assigned, ~call[r].stale
  PROVE  {u \in UserIds : <<u, AdminRole(call[r].tenant)>> \in assigned'} \ misplaced
           = call[r].users \ misplaced
<1>1. CommitSetAdmins(r)
  <2>1. AccessNext
    BY DEF accessVars
  <2> QED BY <2>1, EndsItself DEF CallAt, CommitCreateTenant, CommitDeleteRole, AbandonCall
<1>2. PICK a : a = AdminRole(call[r].tenant)
  OBVIOUS
<1>3. assigned' = (assigned \ call[r].found) \cup (call[r].users \X {a})
  BY <1>1, <1>2 DEF CommitSetAdmins
<1>4. /\ call[r].users \in SUBSET UserIds /\ call[r].tenant \in tenant
      /\ \A u \in UserIds \ misplaced, x \in Roles :
           <<u, x>> \in assigned /\ role[x].tenant = call[r].tenant /\ role[x].name = "Admin" =>
             <<u, x>> \in call[r].found
  BY CallFacts DEF AccessInv, CallsSound, CallSound, CallAt, HasRole
<1>5. a \in Roles /\ role[a].tenant = call[r].tenant /\ role[a].name = "Admin"
  BY <1>2, <1>4, AdminRow
<1>6. \A u \in UserIds \ misplaced : <<u, a>> \in assigned' <=> u \in call[r].users
  BY <1>3, <1>4, <1>5
<1> QED BY <1>2, <1>4, <1>6

\* setTenantAdmins leaves the role with those it names, unless somebody else
\* changed who holds it meanwhile.
THEOREM AdminsAlwaysReplaced == AccessSpec => ReplacedAdminsOnly
<1>1. AccessInv /\ [AccessNext]_accessVars =>
        [\A r \in Calls :
           CallAt(r, "admins") /\ call'[r] = NoCall /\ assigned' # assigned /\ ~call[r].stale =>
             {u \in UserIds : <<u, AdminRole(call[r].tenant)>> \in assigned'} \ misplaced
               = call[r].users \ misplaced]_accessVars
  BY ReplacementStep
<1> QED BY <1>1, AccessInvariant, PTL DEF AccessSpec, ReplacedAdminsOnly

-----------------------------------------------------------------------------
(* The reports. *)

\* The facts about sums, which say nothing of stock here.
Sums == INSTANCE StockLedgerProofs WITH Items <- Orders, onHand <- refund, ledger <- refund

-----------------------------------------------------------------------------
(* The calendar: months follow each other, and every day lies in one.      *)

LEMMA CalendarFacts ==
  /\ Len(MonthDays) \in Nat /\ MonthsInYear \in Nat \ {0}
  /\ 2 * MonthsInYear < Len(MonthDays)
  /\ \A m \in 1..Len(MonthDays) : MonthDays[m] \in Nat \ {0}
BY CalendarAssumption

\* The first days of the first n + 1 months.
Begins(g, n) ==
  g = [m \in 1..n + 1 |-> IF m = 1 THEN 0 ELSE g[m - 1] + MonthDays[m - 1]]

LEMMA FirstDaysExist == \E g : Begins(g, Len(MonthDays))
<1> DEFINE T == {n \in Nat : \E g : Begins(g, n)}
<1>1. 0 \in T
  <2>1. Begins([m \in 1..0 + 1 |-> 0], 0)
    BY DEF Begins
  <2> QED BY <2>1
<1>2. \A n \in T : n + 1 \in T
  <2> SUFFICES ASSUME NEW n \in T PROVE n + 1 \in T
    OBVIOUS
  <2>1. PICK g : Begins(g, n)
    OBVIOUS
  <2> DEFINE h == [m \in 1..(n + 1) + 1 |-> IF m = 1 THEN 0 ELSE g[m - 1] + MonthDays[m - 1]]
  <2>2. \A m \in 1..n + 1 : h[m] = g[m]
    BY <2>1 DEF Begins
  <2>3. \A m \in 1..(n + 1) + 1 : h[m] = IF m = 1 THEN 0 ELSE h[m - 1] + MonthDays[m - 1]
    <3> SUFFICES ASSUME NEW m \in 1..(n + 1) + 1, m # 1 PROVE h[m] = h[m - 1] + MonthDays[m - 1]
      OBVIOUS
    <3>1. h[m] = g[m - 1] + MonthDays[m - 1] /\ m - 1 \in 1..n + 1
      OBVIOUS
    <3> HIDE DEF h
    <3> QED BY <2>2, <3>1
  <2>4. h = [m \in 1..(n + 1) + 1 |-> h[m]]
    OBVIOUS
  <2> HIDE DEF h
  <2>5. Begins(h, n + 1)
    BY <2>3, <2>4 DEF Begins
  <2> QED BY <2>5
<1>3. T = Nat
  <2> HIDE DEF T
  <2>1. T \in SUBSET Nat
    BY DEF T
  <2> QED BY <1>1, <1>2, <2>1, Sums!NatSetInduction
<1> QED BY <1>3, CalendarFacts

LEMMA FirstDays ==
  /\ FirstDay[1] = 0
  /\ \A m \in 1..Len(MonthDays) : FirstDay[m + 1] = FirstDay[m] + MonthDays[m]
<1>1. FirstDay = CHOOSE g : Begins(g, Len(MonthDays))
  BY DEF FirstDay, Begins
<1>2. Begins(FirstDay, Len(MonthDays))
  BY <1>1, FirstDaysExist
<1>3. \A m \in 1..Len(MonthDays) + 1 :
         FirstDay[m] = IF m = 1 THEN 0 ELSE FirstDay[m - 1] + MonthDays[m - 1]
  BY <1>2 DEF Begins
<1>4. ASSUME NEW m \in 1..Len(MonthDays) PROVE FirstDay[m + 1] = FirstDay[m] + MonthDays[m]
  <2>1. m + 1 \in 1..Len(MonthDays) + 1 /\ m + 1 # 1 /\ (m + 1) - 1 = m
    BY CalendarFacts
  <2> QED BY <1>3, <2>1
<1> QED BY <1>3, <1>4, CalendarFacts

LEMMA FirstDayType == \A m \in 1..Len(MonthDays) + 1 : FirstDay[m] \in Nat
<1> DEFINE T == {n \in Nat : n + 1 \in 1..Len(MonthDays) + 1 => FirstDay[n + 1] \in Nat}
<1>1. 0 \in T
  BY FirstDays
<1>2. ASSUME NEW n \in Nat, n \in T PROVE n + 1 \in T
  <2> SUFFICES ASSUME (n + 1) + 1 \in 1..Len(MonthDays) + 1
               PROVE  FirstDay[(n + 1) + 1] \in Nat
    OBVIOUS
  <2>1. n + 1 \in 1..Len(MonthDays)
    BY CalendarFacts
  <2>2. FirstDay[n + 1] \in Nat
    BY <1>2, <2>1, CalendarFacts
  <2>3. MonthDays[n + 1] \in Nat /\ FirstDay[(n + 1) + 1] = FirstDay[n + 1] + MonthDays[n + 1]
    BY <2>1, FirstDays, CalendarFacts
  <2> QED BY <2>2, <2>3
<1>3. T = Nat
  <2> HIDE DEF T
  <2>1. T \in SUBSET Nat
    BY DEF T
  <2> QED BY <1>1, <1>2, <2>1, Sums!NatSetInduction
<1> SUFFICES ASSUME NEW m \in 1..Len(MonthDays) + 1 PROVE FirstDay[m] \in Nat
  OBVIOUS
<1> DEFINE k == m - 1
<1>4. k \in Nat /\ k + 1 = m
  BY CalendarFacts
<1> HIDE DEF k, T
<1>5. k \in T
  BY <1>3, <1>4
<1> QED BY <1>4, <1>5 DEF T

\* Later months begin later.
LEMMA FirstDayIncreases ==
  \A m, n \in 1..Len(MonthDays) + 1 : m < n => FirstDay[m] < FirstDay[n]
<1> DEFINE T == {k \in Nat : \A m \in 1..Len(MonthDays) + 1 :
                   m + k + 1 \in 1..Len(MonthDays) + 1 => FirstDay[m] < FirstDay[m + k + 1]}
<1>1. 0 \in T
  <2> SUFFICES ASSUME NEW m \in 1..Len(MonthDays) + 1, m + 0 + 1 \in 1..Len(MonthDays) + 1
               PROVE  FirstDay[m] < FirstDay[m + 0 + 1]
    OBVIOUS
  <2>1. m \in 1..Len(MonthDays) /\ m + 0 + 1 = m + 1
    BY CalendarFacts
  <2> QED BY <2>1, FirstDays, FirstDayType, CalendarFacts
<1>2. ASSUME NEW k \in Nat, k \in T PROVE k + 1 \in T
  <2> SUFFICES ASSUME NEW m \in 1..Len(MonthDays) + 1,
                      m + (k + 1) + 1 \in 1..Len(MonthDays) + 1
               PROVE  FirstDay[m] < FirstDay[m + (k + 1) + 1]
    OBVIOUS
  <2>1. m + k + 1 \in 1..Len(MonthDays) /\ m + (k + 1) + 1 = (m + k + 1) + 1
    BY CalendarFacts
  <2>2. FirstDay[m] < FirstDay[m + k + 1]
    BY <1>2, <2>1, CalendarFacts
  <2>3. /\ FirstDay[m] \in Nat
        /\ FirstDay[m + k + 1] \in Nat
        /\ MonthDays[m + k + 1] \in Nat \ {0}
        /\ FirstDay[(m + k + 1) + 1] = FirstDay[m + k + 1] + MonthDays[m + k + 1]
    BY <2>1, FirstDays, FirstDayType, CalendarFacts
  <2> QED BY <2>1, <2>2, <2>3
<1>3. T = Nat
  <2> HIDE DEF T
  <2>1. T \in SUBSET Nat
    BY DEF T
  <2> QED BY <1>1, <1>2, <2>1, Sums!NatSetInduction
<1> SUFFICES ASSUME NEW m \in 1..Len(MonthDays) + 1, NEW n \in 1..Len(MonthDays) + 1, m < n
             PROVE  FirstDay[m] < FirstDay[n]
  OBVIOUS
<1> DEFINE k == (n - m) - 1
<1>4. k \in Nat /\ m + k + 1 = n
  BY CalendarFacts
<1> HIDE DEF k, T
<1>5. k \in T
  BY <1>3, <1>4
<1> QED BY <1>4, <1>5 DEF T

\* A day of the calendar lies in a month, and in no other.
LEMMA MonthUnique ==
  ASSUME NEW d \in Int, NEW m \in 1..Len(MonthDays), FirstDay[m] <= d, d < FirstDay[m + 1]
  PROVE  MonthOf(d) = m
<1>1. ASSUME NEW n \in 1..Len(MonthDays), FirstDay[n] <= d, d < FirstDay[n + 1] PROVE n = m
  <2>1. /\ m \in 1..Len(MonthDays) + 1 /\ m + 1 \in 1..Len(MonthDays) + 1
        /\ n \in 1..Len(MonthDays) + 1 /\ n + 1 \in 1..Len(MonthDays) + 1
    BY CalendarFacts
  <2>2. /\ FirstDay[m] \in Nat /\ FirstDay[m + 1] \in Nat
        /\ FirstDay[n] \in Nat /\ FirstDay[n + 1] \in Nat
    BY <2>1, FirstDayType
  <2>3. CASE n < m
    <3>1. n + 1 = m \/ n + 1 < m
      BY <2>1, <2>3
    <3>2. FirstDay[n + 1] <= FirstDay[m]
      BY <2>1, <2>2, <3>1, FirstDayIncreases
    <3> QED BY <1>1, <2>2, <3>2
  <2>4. CASE m < n
    <3>1. m + 1 = n \/ m + 1 < n
      BY <2>1, <2>4
    <3>2. FirstDay[m + 1] <= FirstDay[n]
      BY <2>1, <2>2, <3>1, FirstDayIncreases
    <3> QED BY <1>1, <2>2, <3>2
  <2> QED BY <2>1, <2>3, <2>4
<1> QED BY <1>1 DEF MonthOf

LEMMA MonthExists ==
  ASSUME NEW d \in Nat, d < FirstDay[Len(MonthDays) + 1]
  PROVE  /\ MonthOf(d) \in 1..Len(MonthDays)
         /\ FirstDay[MonthOf(d)] <= d /\ d < FirstDay[MonthOf(d) + 1]
<1> DEFINE T == {n \in Nat : n <= Len(MonthDays) /\ d < FirstDay[n + 1] =>
                   \E m \in 1..Len(MonthDays) : FirstDay[m] <= d /\ d < FirstDay[m + 1]}
<1>1. 0 \in T
  BY FirstDays
<1>2. ASSUME NEW n \in Nat, n \in T PROVE n + 1 \in T
  <2> SUFFICES ASSUME n + 1 <= Len(MonthDays), d < FirstDay[(n + 1) + 1]
               PROVE  \E m \in 1..Len(MonthDays) : FirstDay[m] <= d /\ d < FirstDay[m + 1]
    OBVIOUS
  <2>1. n + 1 \in 1..Len(MonthDays) /\ n + 1 \in 1..Len(MonthDays) + 1
    BY CalendarFacts
  <2>2. FirstDay[n + 1] \in Nat
    BY <2>1, FirstDayType
  <2>3. CASE d < FirstDay[n + 1]
    BY <1>2, <2>1, <2>3, CalendarFacts
  <2>4. CASE ~(d < FirstDay[n + 1])
    BY <2>1, <2>2, <2>4
  <2> QED BY <2>3, <2>4
<1>3. T = Nat
  <2> HIDE DEF T
  <2>1. T \in SUBSET Nat
    BY DEF T
  <2> QED BY <1>1, <1>2, <2>1, Sums!NatSetInduction
<1>4. Len(MonthDays) \in T
  BY <1>3, CalendarFacts
<1>5. \E m \in 1..Len(MonthDays) : FirstDay[m] <= d /\ d < FirstDay[m + 1]
  BY <1>4, CalendarFacts
<1> QED BY <1>5 DEF MonthOf

LEMMA CoveredFacts ==
  ASSUME NEW d \in Covered
  PROVE  /\ d \in Nat
         /\ MonthOf(d) \in 1..Len(MonthDays) /\ 2 * MonthsInYear < MonthOf(d)
         /\ FirstDay[MonthOf(d)] <= d /\ d < FirstDay[MonthOf(d) + 1]
<1> DEFINE y == 2 * MonthsInYear + 1
           n == Len(MonthDays) + 1
<1>1. y \in 1..Len(MonthDays) + 1 /\ n \in 1..Len(MonthDays) + 1
  BY CalendarFacts
<1>2. FirstDay[y] \in Nat /\ FirstDay[n] \in Nat
  BY <1>1, FirstDayType
<1>3. d \in FirstDay[y]..(FirstDay[n] - 1)
  BY DEF Covered, EndOfMonth
<1> HIDE DEF y, n
<1>4. d \in Nat /\ d < FirstDay[n] /\ FirstDay[y] <= d
  BY <1>2, <1>3
<1>5. /\ MonthOf(d) \in 1..Len(MonthDays)
      /\ FirstDay[MonthOf(d)] <= d /\ d < FirstDay[MonthOf(d) + 1]
  BY <1>4, MonthExists DEF n
<1>6. ASSUME MonthOf(d) < y PROVE FALSE
  <2>1. MonthOf(d) + 1 \in 1..Len(MonthDays) + 1 /\ (MonthOf(d) + 1 = y \/ MonthOf(d) + 1 < y)
    BY <1>1, <1>5, <1>6, CalendarFacts
  <2>2. FirstDay[MonthOf(d) + 1] \in Nat
    BY <2>1, FirstDayType
  <2>3. FirstDay[MonthOf(d) + 1] <= FirstDay[y]
    BY <1>1, <1>2, <2>1, <2>2, FirstDayIncreases
  <2> QED BY <1>2, <1>4, <1>5, <2>2, <2>3
<1> QED BY <1>4, <1>5, <1>6, CalendarFacts DEF y

\* The year of a month begins less than a year before it, and on or after the
\* third year's beginning.
LEMMA FirstMonthFacts ==
  ASSUME NEW d \in Covered
  PROVE  /\ FirstMonth(d) \in 1..MonthOf(d)
         /\ MonthOf(d) - MonthsInYear < FirstMonth(d)
         /\ 2 * MonthsInYear < FirstMonth(d)
<1> DEFINE y == MonthsInYear
           a == MonthOf(d) - 1
           q == a \div y
<1>1. y \in Nat \ {0} /\ a \in Nat /\ 2 * y <= a
  BY CalendarFacts, CoveredFacts
<1>2. FirstMonth(d) = q * y + 1
  BY DEF FirstMonth
<1> HIDE DEF y, a
<1>3. q \in Nat /\ q * y <= a /\ a < q * y + y
  BY <1>1
<1> HIDE DEF q
<1>4. q # 0 /\ q # 1
  BY <1>1, <1>3
<1>5. PICK k \in Nat : q = k + 2
  <2>1. q - 2 \in Nat /\ q = (q - 2) + 2
    BY <1>3, <1>4
  <2> QED BY <2>1
<1>6. q * y = k * y + 2 * y
  BY <1>1, <1>5
<1>7. k * y \in Nat /\ q * y \in Nat
  BY <1>1, <1>3
<1>8. PICK p : p = q * y
  OBVIOUS
<1>9. p \in Nat /\ 2 * y <= p /\ p <= a /\ a < p + y /\ FirstMonth(d) = p + 1
  BY <1>1, <1>2, <1>3, <1>6, <1>7, <1>8
<1>10. y = MonthsInYear /\ MonthOf(d) = a + 1
  BY CoveredFacts, CalendarFacts DEF a, y
<1> QED BY <1>1, <1>9, <1>10

-----------------------------------------------------------------------------
(* Ranges of days. *)

Ranges == [current : Spans, previous : Spans]

LEMMA RollingFacts ==
  ASSUME NEW start \in Int, NEW end \in Int, start <= end, NEW r, r = Rolling(start, end)
  PROVE  /\ r \in Ranges
         /\ r.previous.start <= r.previous.end /\ r.previous.end < r.current.start
         /\ r.previous.end + 1 = r.current.start
         /\ Days(r.previous) = Days(r.current)
<1>1. r = [current |-> [start |-> start, end |-> end],
           previous |-> [start |-> start - (end - start) - 1, end |-> start - 1]]
  BY DEF Rolling, Compared, Span
<1> QED BY <1>1 DEF Ranges, Spans, Days

LEMMA WholeFacts ==
  ASSUME NEW first \in Int, NEW months \in Nat \ {0}, months < first,
         first + months <= Len(MonthDays) + 1, NEW r, r = Whole(first, months)
  PROVE  /\ r \in Ranges
         /\ r.previous.start <= r.previous.end /\ r.previous.end < r.current.start
         /\ r.previous.end + 1 = r.current.start
<1>1. /\ first \in 1..Len(MonthDays) + 1 /\ first - months \in 1..Len(MonthDays) + 1
      /\ first + months \in 1..Len(MonthDays) + 1
      /\ (first + months - 1) + 1 = first + months /\ (first - 1) + 1 = first
      /\ first - months < first
  BY CalendarFacts
<1>2. /\ FirstDay[first] \in Nat /\ FirstDay[first - months] \in Nat
      /\ FirstDay[first + months] \in Nat
      /\ FirstDay[first - months] < FirstDay[first]
  BY <1>1, FirstDayType, FirstDayIncreases
<1>3. r = [current |-> [start |-> FirstDay[first], end |-> FirstDay[first + months] - 1],
           previous |-> [start |-> FirstDay[first - months], end |-> FirstDay[first] - 1]]
  BY <1>1 DEF Whole, Compared, Span, EndOfMonth
<1> QED BY <1>2, <1>3 DEF Ranges, Spans

\* An earlier day of the same number lies in its month.
LEMMA SubMonthsFacts ==
  ASSUME NEW d \in Covered, NEW n \in Nat, n < MonthOf(d),
         NEW m, m = MonthOf(d) - n, NEW e, e = SubMonths(d, n)
  PROVE  /\ m \in 1..Len(MonthDays) /\ FirstDay[m] \in Nat /\ FirstDay[m + 1] \in Nat
         /\ e \in Nat /\ FirstDay[m] <= e /\ e <= EndOfMonth(m)
         /\ e <= FirstDay[m] + d - FirstDay[MonthOf(d)]
         /\ e # EndOfMonth(m) => e = FirstDay[m] + d - FirstDay[MonthOf(d)]
         /\ MonthOf(e) = m
<1> DEFINE a == FirstDay[m] + d - FirstDay[MonthOf(d)]
           b == EndOfMonth(m)
<1>1. /\ m \in 1..Len(MonthDays) /\ m \in 1..Len(MonthDays) + 1 /\ m + 1 \in 1..Len(MonthDays) + 1
      /\ m < m + 1 /\ MonthOf(d) \in 1..Len(MonthDays) + 1
  BY CoveredFacts, CalendarFacts
<1>2. /\ FirstDay[m] \in Nat /\ FirstDay[m + 1] \in Nat /\ FirstDay[m] < FirstDay[m + 1]
      /\ FirstDay[MonthOf(d)] \in Nat
  BY <1>1, FirstDayType, FirstDayIncreases
<1>3. a \in Nat /\ b \in Nat /\ FirstDay[m] <= a /\ FirstDay[m] <= b /\ b < FirstDay[m + 1]
  <2>1. d \in Nat /\ FirstDay[MonthOf(d)] <= d
    BY CoveredFacts
  <2>2. b = FirstDay[m + 1] - 1
    BY DEF EndOfMonth
  <2> HIDE DEF b
  <2> QED BY <1>2, <2>1, <2>2
<1>4. e = Min({a, b})
  BY DEF SubMonths
<1> HIDE DEF a, b
<1>5. e \in {a, b} /\ e <= a /\ e <= b
  <2>1. \E x \in {a, b} : \A y \in {a, b} : x <= y
    BY <1>3
  <2> QED BY <1>3, <1>4, <2>1 DEF Min
<1>6. e \in Nat /\ FirstDay[m] <= e /\ e < FirstDay[m + 1]
  BY <1>2, <1>3, <1>5
<1>7. MonthOf(e) = m
  BY <1>1, <1>6, MonthUnique
<1> QED BY <1>1, <1>2, <1>5, <1>6, <1>7 DEF a, b

LEMMA ToDateFacts ==
  ASSUME NEW d \in Covered, NEW first \in 1..MonthOf(d), NEW back \in Nat \ {0}, back < first,
         MonthOf(d) - back < first, NEW r, r = ToDate(first, back, d)
  PROVE  /\ r \in Ranges
         /\ r.previous.start <= r.previous.end /\ r.previous.end < r.current.start
         /\ r.previous.start = FirstDay[first - back] /\ r.previous.end = SubMonths(d, back)
         /\ r.current = Span(FirstDay[first], d)
<1> DEFINE m == MonthOf(d) - back
           e == SubMonths(d, back)
<1>1. /\ back < MonthOf(d) /\ MonthOf(d) \in 1..Len(MonthDays)
      /\ first \in 1..Len(MonthDays) + 1 /\ first - back \in 1..Len(MonthDays) + 1
      /\ first - back <= m /\ m + 1 <= first
      /\ m \in 1..Len(MonthDays) + 1 /\ m + 1 \in 1..Len(MonthDays) + 1
  BY CoveredFacts, CalendarFacts
<1>2. e \in Nat /\ FirstDay[m] <= e /\ e <= EndOfMonth(m)
  BY <1>1, SubMonthsFacts
<1>3. r = [current |-> [start |-> FirstDay[first], end |-> d],
           previous |-> [start |-> FirstDay[first - back], end |-> e]]
  BY DEF ToDate, Compared, Span
<1> HIDE DEF m, e
<1>4. /\ FirstDay[first] \in Nat /\ FirstDay[first - back] \in Nat
      /\ FirstDay[m] \in Nat /\ FirstDay[m + 1] \in Nat
  BY <1>1, FirstDayType
<1>5. FirstDay[first - back] <= FirstDay[m]
  <2>1. first - back = m \/ first - back < m
    BY <1>1
  <2> QED BY <1>1, <1>4, <2>1, FirstDayIncreases
<1>6. FirstDay[m + 1] <= FirstDay[first]
  <2>1. m + 1 = first \/ m + 1 < first
    BY <1>1
  <2> QED BY <1>1, <1>4, <2>1, FirstDayIncreases
<1>7. d \in Nat
  BY CoveredFacts
<1>8. FirstDay[first - back] <= e /\ e < FirstDay[first]
  BY <1>2, <1>4, <1>5, <1>6 DEF EndOfMonth
<1> QED BY <1>2, <1>3, <1>4, <1>7, <1>8 DEF Ranges, Spans, e, Span

\* Whatever the period, getDateRange returns whole days and never lets the two
\* ranges share one.
LEMMA DateRangeFacts ==
  ASSUME NEW today \in Covered, NEW period \in Periods, NEW r, r = DateRange(period, today)
  PROVE  /\ r \in Ranges
         /\ r.previous.start <= r.previous.end /\ r.previous.end < r.current.start
         /\ period \notin {"month", "year"} => r.previous.end + 1 = r.current.start
         /\ period \in {"today", "yesterday", "7d", "30d"} => Days(r.previous) = Days(r.current)
         /\ period = "month" =>
              \/ Days(r.previous) = Days(r.current)
              \/ /\ Days(r.previous) < Days(r.current)
                 /\ r.previous.end = EndOfMonth(MonthOf(r.previous.start))
         /\ period = "year" => MonthOf(r.previous.end) = MonthOf(today) - MonthsInYear
<1>1. /\ today \in Nat /\ MonthOf(today) \in 1..Len(MonthDays) /\ 2 * MonthsInYear < MonthOf(today)
      /\ ShortSpan \in Nat \ {0} /\ LongSpan \in Nat \ {0}
  BY CoveredFacts, CalendarAssumption
<1>2. CASE period = "today"
  <2>1. r = Rolling(today, today)
    BY <1>2 DEF DateRange
  <2> QED BY <1>1, <1>2, <2>1, RollingFacts
<1>3. CASE period = "yesterday"
  <2>1. r = Rolling(today - 1, today - 1)
    BY <1>3 DEF DateRange
  <2> QED BY <1>1, <1>3, <2>1, RollingFacts
<1>4. CASE period = "7d"
  <2>1. r = Rolling(today - (ShortSpan - 1), today)
    BY <1>4 DEF DateRange
  <2> QED BY <1>1, <1>4, <2>1, RollingFacts
<1>5. CASE period = "30d"
  <2>1. r = Rolling(today - (LongSpan - 1), today)
    BY <1>5 DEF DateRange
  <2> QED BY <1>1, <1>5, <2>1, RollingFacts
<1>6. CASE period = "last_month"
  <2>1. r = Whole(MonthOf(today) - 1, 1)
    BY <1>6 DEF DateRange
  <2>2. MonthOf(today) - 1 \in Int /\ 1 < MonthOf(today) - 1 /\ (MonthOf(today) - 1) + 1 <= Len(MonthDays) + 1
    BY <1>1, CalendarFacts
  <2> QED BY <1>6, <2>1, <2>2, WholeFacts
<1>7. CASE period = "last_year"
  <2>1. r = Whole(FirstMonth(today) - MonthsInYear, MonthsInYear)
    BY <1>7 DEF DateRange
  <2>2. /\ FirstMonth(today) - MonthsInYear \in Int /\ MonthsInYear < FirstMonth(today) - MonthsInYear
        /\ (FirstMonth(today) - MonthsInYear) + MonthsInYear <= Len(MonthDays) + 1
    BY <1>1, CalendarFacts, FirstMonthFacts
  <2> QED BY <1>7, <2>1, <2>2, WholeFacts, CalendarFacts
<1>8. CASE period = "month"
  <2> DEFINE m == MonthOf(today) - 1
             e == SubMonths(today, 1)
  <2>1. r = ToDate(MonthOf(today), 1, today)
    BY <1>8 DEF DateRange
  <2>2. /\ MonthOf(today) \in 1..MonthOf(today) /\ 1 < MonthOf(today)
        /\ MonthOf(today) - 1 < MonthOf(today)
    BY <1>1, CalendarFacts
  <2>3. /\ r \in Ranges
        /\ r.previous.start <= r.previous.end /\ r.previous.end < r.current.start
        /\ r.previous.start = FirstDay[m] /\ r.previous.end = e
        /\ r.current = Span(FirstDay[MonthOf(today)], today)
    BY <2>1, <2>2, ToDateFacts
  <2>4. /\ m \in 1..Len(MonthDays) /\ FirstDay[m] \in Nat /\ FirstDay[m + 1] \in Nat
        /\ e \in Nat /\ FirstDay[m] <= e /\ e <= EndOfMonth(m)
        /\ e <= FirstDay[m] + today - FirstDay[MonthOf(today)]
        /\ e # EndOfMonth(m) => e = FirstDay[m] + today - FirstDay[MonthOf(today)]
    BY <2>2, SubMonthsFacts
  <2>5. MonthOf(FirstDay[m]) = m
    <3>1. FirstDay[m] < FirstDay[m + 1]
      BY <2>4 DEF EndOfMonth
    <3> QED BY <2>4, <3>1, MonthUnique
  <2>6. /\ r.current.start = FirstDay[MonthOf(today)] /\ r.current.end = today
        /\ FirstDay[MonthOf(today)] \in Nat
    BY <1>1, <2>3, FirstDayType, CalendarFacts DEF Span
  <2>7. /\ Days(r.previous) = e - FirstDay[m] + 1
        /\ Days(r.current) = today - FirstDay[MonthOf(today)] + 1
    BY <2>3, <2>6 DEF Days
  <2> HIDE DEF m, e
  <2>8. \/ Days(r.previous) = Days(r.current)
        \/ Days(r.previous) < Days(r.current) /\ e = EndOfMonth(m)
    BY <1>1, <2>4, <2>6, <2>7
  <2> QED BY <1>8, <2>3, <2>5, <2>8
<1>9. CASE period = "year"
  <2> DEFINE first == FirstMonth(today)
  <2>1. r = ToDate(first, MonthsInYear, today)
    BY <1>9 DEF DateRange
  <2>2. /\ first \in 1..MonthOf(today) /\ MonthsInYear < first
        /\ MonthOf(today) - MonthsInYear < first /\ MonthsInYear < MonthOf(today)
        /\ MonthsInYear \in Nat \ {0}
    BY <1>1, CalendarFacts, FirstMonthFacts
  <2>3. /\ r \in Ranges
        /\ r.previous.start <= r.previous.end /\ r.previous.end < r.current.start
        /\ r.previous.end = SubMonths(today, MonthsInYear)
    BY <2>1, <2>2, ToDateFacts
  <2>4. MonthOf(SubMonths(today, MonthsInYear)) = MonthOf(today) - MonthsInYear
    BY <2>2, SubMonthsFacts
  <2> QED BY <1>9, <2>3, <2>4
<1> QED BY <1>2, <1>3, <1>4, <1>5, <1>6, <1>7, <1>8, <1>9 DEF Periods

LEMMA CustomRangeFacts ==
  ASSUME NEW today \in Covered, NEW from \in Int, NEW to \in Int, NEW r, r = CustomRange(from, to, today)
  PROVE  /\ r \in Ranges
         /\ r.previous.end + 1 = r.current.start /\ Days(r.previous) = Days(r.current)
<1>1. CASE to < from
  <2>1. r = DateRange("today", today) /\ "today" \in Periods
    BY <1>1 DEF CustomRange, Periods
  <2> QED BY <2>1, DateRangeFacts
<1>2. CASE ~(to < from)
  <2>1. r = Rolling(from, to) /\ from <= to
    BY <1>2 DEF CustomRange
  <2> QED BY <2>1, RollingFacts
<1> QED BY <1>1, <1>2

LEMMA RangesAreComparable ==
  ASSUME Today \in Covered
  PROVE  RangesComparable
<1>1. Today \in Nat
  BY CoveredFacts
<1>2. ASSUME NEW period \in Periods, NEW r, r = DateRange(period, Today)
      PROVE  /\ r.previous.start <= r.previous.end /\ r.previous.end < r.current.start
             /\ period \notin {"month", "year"} => r.previous.end + 1 = r.current.start
             /\ period \in {"today", "yesterday", "7d", "30d"} => Days(r.previous) = Days(r.current)
             /\ period = "month" =>
                  \/ Days(r.previous) = Days(r.current)
                  \/ /\ Days(r.previous) < Days(r.current)
                     /\ r.previous.end = EndOfMonth(MonthOf(r.previous.start))
             /\ period = "year" => MonthOf(r.previous.end) = MonthOf(Today) - MonthsInYear
  BY <1>2, DateRangeFacts
<1>3. ASSUME NEW from \in {Today - 2, Today - 1, Today}, NEW to \in {Today - 2, Today - 1, Today},
             NEW r, r = CustomRange(from, to, Today)
      PROVE  r.previous.end + 1 = r.current.start /\ Days(r.previous) = Days(r.current)
  <2>1. from \in Int /\ to \in Int
    BY <1>1
  <2> QED BY <1>3, <2>1, CustomRangeFacts
<1> QED BY <1>2, <1>3 DEF RangesComparable

-----------------------------------------------------------------------------
(* Sums over lines, orders and refunds.                                    *)

OrderRows == [status : Statuses, sale : Catalog, created : Nat] \cup {None}
RefundRows == [amount : Amounts, method : Methods, created : Nat] \cup {None}

LinesTotal(L) == MapThenSumSet(LAMBDA line : line.total, L)
RefundedOf(rows, S) == MapThenSumSet(LAMBDA f : rows[f].amount, S)
GrossOf(rows, S) ==
  MapThenSumSet(LAMBDA o : MapThenSumSet(LAMBDA line : line.total, rows[o].sale.lines)
                             - rows[o].sale.discount + rows[o].sale.shipping, S)
DiscountsOf(rows, S) == MapThenSumSet(LAMBDA o : rows[o].sale.discount, S)
ShippingOf(rows, S) == MapThenSumSet(LAMBDA o : rows[o].sale.shipping, S)
SaleTotal(sale) == LinesTotal(sale.lines) - sale.discount + sale.shipping

LEMMA Finite ==
  /\ Sums!IsFiniteSet(Orders) /\ Sums!IsFiniteSet(Refunds)
  /\ \A S : Sums!IsFiniteSet(S) <=> IsFiniteSet(S)
  /\ \A S : Sums!Cardinality(S) = Cardinality(S)
BY ReportsAssumption DEF IsFiniteSet, Sums!IsFiniteSet, Cardinality, Sums!Cardinality

\* Each of these sums is the sum of a function: the recursions are the same.
LEMMA LinesTotalIsSum ==
  ASSUME NEW L, Sums!IsFiniteSet(L), NEW f, \A x \in L : f[x] = x.total
  PROVE  LinesTotal(L) = Sums!SumOf(f, L)
<1> DEFINE Adds(h) == h = [s \in SUBSET L |->
                             IF s = {} THEN 0
                             ELSE LET x == CHOOSE x \in s : TRUE IN x.total + h[s \ {x}]]
<1>1. PICK g : Sums!IsSum(g, f, SUBSET L)
  BY Sums!SumGraph
<1>2. \A h : Adds(h) <=> Sums!IsSum(h, f, SUBSET L)
  <2>1. ASSUME NEW s \in SUBSET L, s # {} PROVE f[Sums!AnyOf(s)] = (CHOOSE x \in s : TRUE).total
    BY <2>1 DEF Sums!AnyOf
  <2> QED BY <2>1 DEF Sums!IsSum, Sums!AnyOf
<1>3. LinesTotal(L) = (CHOOSE h : Adds(h))[L]
  BY DEF LinesTotal, MapThenSumSet, MapThenFoldSet
<1> HIDE DEF Adds
<1>4. Adds(CHOOSE h : Adds(h))
  <2>1. \E h : Adds(h)
    BY <1>1, <1>2
  <2> QED BY <2>1
<1>5. Sums!IsSum(CHOOSE h : Adds(h), f, SUBSET L)
  BY <1>2, <1>4
<1>6. (CHOOSE h : Adds(h))[L] = Sums!SumOf(f, L)
  BY <1>5, Sums!SumUnique
<1> QED BY <1>3, <1>6

LEMMA RefundedIsSum ==
  ASSUME NEW rows, NEW S, Sums!IsFiniteSet(S), NEW f, \A x \in S : f[x] = rows[x].amount
  PROVE  RefundedOf(rows, S) = Sums!SumOf(f, S)
<1> DEFINE Adds(h) == h = [s \in SUBSET S |->
                             IF s = {} THEN 0
                             ELSE LET x == CHOOSE x \in s : TRUE IN rows[x].amount + h[s \ {x}]]
<1>1. PICK g : Sums!IsSum(g, f, SUBSET S)
  BY Sums!SumGraph
<1>2. \A h : Adds(h) <=> Sums!IsSum(h, f, SUBSET S)
  <2>1. ASSUME NEW s \in SUBSET S, s # {} PROVE f[Sums!AnyOf(s)] = rows[CHOOSE x \in s : TRUE].amount
    BY <2>1 DEF Sums!AnyOf
  <2> QED BY <2>1 DEF Sums!IsSum, Sums!AnyOf
<1>3. RefundedOf(rows, S) = (CHOOSE h : Adds(h))[S]
  BY DEF RefundedOf, MapThenSumSet, MapThenFoldSet
<1> HIDE DEF Adds
<1>4. Adds(CHOOSE h : Adds(h))
  <2>1. \E h : Adds(h)
    BY <1>1, <1>2
  <2> QED BY <2>1
<1>5. Sums!IsSum(CHOOSE h : Adds(h), f, SUBSET S)
  BY <1>2, <1>4
<1>6. (CHOOSE h : Adds(h))[S] = Sums!SumOf(f, S)
  BY <1>5, Sums!SumUnique
<1> QED BY <1>3, <1>6

LEMMA GrossIsSum ==
  ASSUME NEW rows, NEW S, Sums!IsFiniteSet(S), NEW f, \A x \in S : f[x] = SaleTotal(rows[x].sale)
  PROVE  GrossOf(rows, S) = Sums!SumOf(f, S)
<1> DEFINE Adds(h) == h = [s \in SUBSET S |->
                             IF s = {} THEN 0
                             ELSE LET x == CHOOSE x \in s : TRUE
                                  IN  SaleTotal(rows[x].sale) + h[s \ {x}]]
<1>1. PICK g : Sums!IsSum(g, f, SUBSET S)
  BY Sums!SumGraph
<1>2. \A h : Adds(h) <=> Sums!IsSum(h, f, SUBSET S)
  <2>1. ASSUME NEW s \in SUBSET S, s # {}
        PROVE  f[Sums!AnyOf(s)] = SaleTotal(rows[CHOOSE x \in s : TRUE].sale)
    BY <2>1 DEF Sums!AnyOf
  <2> QED BY <2>1 DEF Sums!IsSum, Sums!AnyOf
<1>3. GrossOf(rows, S) = (CHOOSE h : Adds(h))[S]
  BY DEF GrossOf, SaleTotal, LinesTotal, MapThenSumSet, MapThenFoldSet
<1> HIDE DEF Adds
<1>4. Adds(CHOOSE h : Adds(h))
  <2>1. \E h : Adds(h)
    BY <1>1, <1>2
  <2> QED BY <2>1
<1>5. Sums!IsSum(CHOOSE h : Adds(h), f, SUBSET S)
  BY <1>2, <1>4
<1>6. (CHOOSE h : Adds(h))[S] = Sums!SumOf(f, S)
  BY <1>5, Sums!SumUnique
<1> QED BY <1>3, <1>6

LEMMA DiscountsIsSum ==
  ASSUME NEW rows, NEW S, Sums!IsFiniteSet(S), NEW f, \A x \in S : f[x] = rows[x].sale.discount
  PROVE  DiscountsOf(rows, S) = Sums!SumOf(f, S)
<1> DEFINE Adds(h) == h = [s \in SUBSET S |->
                             IF s = {} THEN 0
                             ELSE LET x == CHOOSE x \in s : TRUE IN rows[x].sale.discount + h[s \ {x}]]
<1>1. PICK g : Sums!IsSum(g, f, SUBSET S)
  BY Sums!SumGraph
<1>2. \A h : Adds(h) <=> Sums!IsSum(h, f, SUBSET S)
  <2>1. ASSUME NEW s \in SUBSET S, s # {} PROVE f[Sums!AnyOf(s)] = rows[CHOOSE x \in s : TRUE].sale.discount
    BY <2>1 DEF Sums!AnyOf
  <2> QED BY <2>1 DEF Sums!IsSum, Sums!AnyOf
<1>3. DiscountsOf(rows, S) = (CHOOSE h : Adds(h))[S]
  BY DEF DiscountsOf, MapThenSumSet, MapThenFoldSet
<1> HIDE DEF Adds
<1>4. Adds(CHOOSE h : Adds(h))
  <2>1. \E h : Adds(h)
    BY <1>1, <1>2
  <2> QED BY <2>1
<1>5. Sums!IsSum(CHOOSE h : Adds(h), f, SUBSET S)
  BY <1>2, <1>4
<1>6. (CHOOSE h : Adds(h))[S] = Sums!SumOf(f, S)
  BY <1>5, Sums!SumUnique
<1> QED BY <1>3, <1>6

LEMMA ShippingIsSum ==
  ASSUME NEW rows, NEW S, Sums!IsFiniteSet(S), NEW f, \A x \in S : f[x] = rows[x].sale.shipping
  PROVE  ShippingOf(rows, S) = Sums!SumOf(f, S)
<1> DEFINE Adds(h) == h = [s \in SUBSET S |->
                             IF s = {} THEN 0
                             ELSE LET x == CHOOSE x \in s : TRUE IN rows[x].sale.shipping + h[s \ {x}]]
<1>1. PICK g : Sums!IsSum(g, f, SUBSET S)
  BY Sums!SumGraph
<1>2. \A h : Adds(h) <=> Sums!IsSum(h, f, SUBSET S)
  <2>1. ASSUME NEW s \in SUBSET S, s # {} PROVE f[Sums!AnyOf(s)] = rows[CHOOSE x \in s : TRUE].sale.shipping
    BY <2>1 DEF Sums!AnyOf
  <2> QED BY <2>1 DEF Sums!IsSum, Sums!AnyOf
<1>3. ShippingOf(rows, S) = (CHOOSE h : Adds(h))[S]
  BY DEF ShippingOf, MapThenSumSet, MapThenFoldSet
<1> HIDE DEF Adds
<1>4. Adds(CHOOSE h : Adds(h))
  <2>1. \E h : Adds(h)
    BY <1>1, <1>2
  <2> QED BY <2>1
<1>5. Sums!IsSum(CHOOSE h : Adds(h), f, SUBSET S)
  BY <1>2, <1>4
<1>6. (CHOOSE h : Adds(h))[S] = Sums!SumOf(f, S)
  BY <1>5, Sums!SumUnique
<1> QED BY <1>3, <1>6

\* What a sale comes to.
LEMMA SaleTotals ==
  ASSUME NEW sale \in Catalog
  PROVE  /\ Sums!IsFiniteSet(sale.lines)
         /\ LinesTotal(sale.lines) \in Nat
         /\ sale.discount \in Nat /\ sale.shipping \in Nat
         /\ SaleTotal(sale) \in Int
<1> DEFINE L == sale.lines
           f == [x \in L |-> x.total]
<1>1. Sums!IsFiniteSet(L) /\ \A x \in L : x.total \in Nat
  BY Finite, ReportsAssumption
<1>2. \A x \in L : f[x] = x.total /\ f[x] \in Nat
  BY <1>1
<1> HIDE DEF f, L
<1>3. LinesTotal(L) = Sums!SumOf(f, L)
  BY <1>1, <1>2, LinesTotalIsSum
<1>4. Sums!SumOf(f, L) \in Nat
  BY <1>1, <1>2, Sums!SumType
<1>5. sale.discount \in Nat /\ sale.shipping \in Nat
  BY ReportsAssumption
<1> QED BY <1>1, <1>3, <1>4, <1>5 DEF L, SaleTotal

\* The gross sales of orders that exist, some of which may come to less than nothing.
LEMMA GrossInt ==
  ASSUME NEW rows, NEW S \in SUBSET Orders, \A o \in S : rows[o].sale \in Catalog
  PROVE  GrossOf(rows, S) \in Int
<1> DEFINE f == [x \in S |-> SaleTotal(rows[x].sale)]
<1>1. Sums!IsFiniteSet(S)
  BY Finite, Sums!FS_Subset
<1>2. \A x \in S : f[x] = SaleTotal(rows[x].sale) /\ f[x] \in Int
  BY SaleTotals
<1> HIDE DEF f
<1>3. GrossOf(rows, S) = Sums!SumOf(f, S)
  BY <1>1, <1>2, GrossIsSum
<1>4. Sums!SumOf(f, S) \in Int
  BY <1>1, <1>2, Sums!SumInt
<1> QED BY <1>3, <1>4

LEMMA GrossNat ==
  ASSUME NEW rows, NEW S \in SUBSET Orders, \A o \in S : rows[o].sale \in Catalog,
         \A o \in S : SaleTotal(rows[o].sale) >= 0
  PROVE  GrossOf(rows, S) \in Nat
<1> DEFINE f == [x \in S |-> SaleTotal(rows[x].sale)]
<1>1. Sums!IsFiniteSet(S)
  BY Finite, Sums!FS_Subset
<1>2. \A x \in S : f[x] = SaleTotal(rows[x].sale) /\ f[x] \in Nat
  BY SaleTotals
<1> HIDE DEF f
<1>3. GrossOf(rows, S) = Sums!SumOf(f, S)
  BY <1>1, <1>2, GrossIsSum
<1>4. Sums!SumOf(f, S) \in Nat
  BY <1>1, <1>2, Sums!SumType
<1> QED BY <1>3, <1>4

\* Refunds that are added to others never lower their sum.
LEMMA RefundsGrow ==
  ASSUME NEW rows, NEW S \in SUBSET Refunds, \A f \in S : rows[f].amount \in Nat,
         NEW more, NEW M \in SUBSET Refunds, \A f \in M : more[f].amount \in Nat,
         S \subseteq M, \A f \in S : more[f] = rows[f]
  PROVE  /\ RefundedOf(rows, S) \in Nat /\ RefundedOf(more, M) \in Nat
         /\ RefundedOf(rows, S) <= RefundedOf(more, M)
<1> DEFINE f == [x \in S |-> rows[x].amount]
           g == [x \in M |-> more[x].amount]
<1>1. Sums!IsFiniteSet(S) /\ Sums!IsFiniteSet(M)
  BY Finite, Sums!FS_Subset
<1>2. /\ \A x \in S : f[x] = rows[x].amount /\ f[x] \in Nat
      /\ \A x \in M : g[x] = more[x].amount /\ g[x] \in Nat
      /\ \A x \in S : f[x] = g[x]
  OBVIOUS
<1> HIDE DEF f, g
<1>3. RefundedOf(rows, S) = Sums!SumOf(f, S) /\ RefundedOf(more, M) = Sums!SumOf(g, M)
  BY <1>1, <1>2, RefundedIsSum
<1>4. \A x \in S : f[x] \in Nat /\ g[x] \in Nat /\ f[x] <= g[x]
  BY <1>2
<1>5. Sums!SumOf(f, S) = Sums!SumOf(g, S)
  BY <1>1, <1>2, <1>4, Sums!SumMonotone
<1>6. Sums!SumOf(g, S) <= Sums!SumOf(g, M)
  BY <1>1, <1>2, Sums!SumPart
<1>7. Sums!SumOf(f, S) \in Nat /\ Sums!SumOf(g, M) \in Nat
  BY <1>1, <1>2, Sums!SumType
<1> QED BY <1>3, <1>5, <1>6, <1>7

Back(range) == {f \in Refunds : refund[f] # None /\ Within(range, Day(refund[f].created))}

\* The operators of Reports, and their next values, are such sums.
LEMMA TheSums ==
  ASSUME NEW range, NEW l
  PROVE  /\ Gross(range, l) = GrossOf(order, Sold(range, l))
         /\ Gross(range, l)' = GrossOf(order', Sold(range, l)')
         /\ TotalDiscounts(range, l) = DiscountsOf(order, Sold(range, l))
         /\ TotalShipping(range, l) = ShippingOf(order, Sold(range, l))
         /\ Refunded(range) = RefundedOf(refund, Back(range))
         /\ Refunded(range)' = RefundedOf(refund', Back(range)')
BY DEF Gross, GrossOf, Total, Subtotal, TotalDiscounts, DiscountsOf, TotalShipping, ShippingOf,
       Sold, Refunded, RefundedOf, Back, MapThenSumSet, MapThenFoldSet

LEMMA SoldExist ==
  ASSUME order \in [Orders -> OrderRows], NEW range, NEW l
  PROVE  /\ Sold(range, l) \in SUBSET Orders
         /\ \A o \in Sold(range, l) : order[o].sale \in Catalog /\ order[o].created \in Nat
         /\ Gross(range, l) \in Int
<1>1. /\ Sold(range, l) \in SUBSET Orders
      /\ \A o \in Sold(range, l) : order[o].sale \in Catalog /\ order[o].created \in Nat
  BY DEF Sold, Earning, OrderRows, None
<1>2. PICK S : S = Sold(range, l)
  OBVIOUS
<1>3. GrossOf(order, S) \in Int
  BY <1>1, <1>2, GrossInt
<1> QED BY <1>1, <1>2, <1>3, TheSums

LEMMA RefundedNat ==
  ASSUME refund \in [Refunds -> RefundRows], NEW range
  PROVE  Refunded(range) \in Nat
<1>1. PICK S : S = Back(range)
  OBVIOUS
<1>2. S \in SUBSET Refunds /\ \A f \in S : refund[f].amount \in Nat
  BY <1>1, ReportsAssumption DEF Back, RefundRows
<1>3. RefundedOf(refund, S) \in Nat
  BY <1>2, RefundsGrow
<1> QED BY <1>1, <1>3, TheSums

\* Nothing takes a refund back.
LEMMA RefundedGrows ==
  ASSUME refund \in [Refunds -> RefundRows], refund' \in [Refunds -> RefundRows],
         \A f \in Refunds : refund[f] # None => refund'[f] = refund[f], NEW range
  PROVE  Refunded(range) <= Refunded(range)'
<1>1. PICK S, M : S = Back(range) /\ M = Back(range)'
  OBVIOUS
<1>2. /\ S \in SUBSET Refunds /\ \A f \in S : refund[f].amount \in Nat
      /\ M \in SUBSET Refunds /\ \A f \in M : refund'[f].amount \in Nat
      /\ S \subseteq M /\ \A f \in S : refund'[f] = refund[f]
  BY <1>1, ReportsAssumption DEF Back, RefundRows
<1>3. PICK more : more = refund'
  OBVIOUS
<1>4. RefundedOf(refund, S) <= RefundedOf(more, M)
  BY <1>2, <1>3, RefundsGrow
<1> QED BY <1>1, <1>3, <1>4, TheSums

LEMMA GrossStays ==
  ASSUME order' = order, NEW range, NEW l
  PROVE  Gross(range, l)' = Gross(range, l)
<1>1. Sold(range, l)' = Sold(range, l)
  BY DEF Sold
<1> QED BY <1>1, TheSums

-----------------------------------------------------------------------------
(* Types, and what a report in the making knows.                           *)

Rows(D) ==
  [kind : {"summary", "dashboard"}, ranges : Ranges, place : AskedPlaces, read : [D -> Int],
   began : {<<>>} \cup [{"current", "previous"} -> Int], grown : BOOLEAN]
Report(x) == \E D \in SUBSET Queries(x.kind) : x \in Rows(D)

\* The gross sales and the refunds as a report has them or would read them now.
GrossSide(x, which) ==
  IF <<"gross", which>> \in DOMAIN x.read THEN x.read[<<"gross", which>>]
  ELSE Gross(x.ranges[which], x.place)
BackSide(x, which) ==
  IF <<"refunds", which>> \in DOMAIN x.read THEN x.read[<<"refunds", which>>]
  ELSE Refunded(x.ranges[which])
Asks(x) == {q[2] : q \in Queries(x.kind)}

\* Whatever a report has still to read, it cannot end with more net sales than
\* there were when it began: the summary has its gross sales before anything
\* else, and refunds only grow.
ReportSound(x) ==
  Started(x) =>
    /\ x.began \in [{"current", "previous"} -> Int]
    /\ x.kind = "summary" => <<"gross", "current">> \in DOMAIN x.read
    /\ \A which \in Asks(x) :
         \/ GrossSide(x, which) - BackSide(x, which) <= x.began[which]
         \/ x.kind = "dashboard" /\ x.grown

ReportsSound == \A r \in Requests : ReportSound(request[r])
ReportsInv == ReportsTypeOK /\ ReportsSound

LEMMA TypeParts ==
  ReportsTypeOK <=>
    /\ opened \in {2 * d + 1 : d \in Openings} /\ clock \in opened..(opened + Horizon)
    /\ order \in [Orders -> OrderRows] /\ refund \in [Refunds -> RefundRows]
    /\ request = [r \in Requests |-> request[r]]
    /\ \A r \in Requests : request[r] # NoReport => Report(request[r])
BY DEF ReportsTypeOK, OrderRows, RefundRows, Report, Rows, Ranges

LEMMA AskedHalves ==
  ASSUME NEW x, x.kind \in {"summary", "dashboard"}
  PROVE  /\ Queries(x.kind) \subseteq Queries("dashboard")
         /\ Queries("dashboard") = {"gross", "refunds"} \X {"current", "previous"}
         /\ Asks(x) \subseteq {"current", "previous"}
         /\ x.kind = "summary" => Asks(x) = {"current"}
         /\ \A which \in Asks(x) : <<"gross", which>> \in Queries(x.kind) /\ <<"refunds", which>> \in Queries(x.kind)
<1>1. Queries("dashboard") = {"gross", "refunds"} \X {"current", "previous"}
  BY DEF Queries
<1>2. CASE x.kind = "summary"
  BY <1>2 DEF Queries, Asks
<1>3. CASE x.kind = "dashboard"
  BY <1>3 DEF Queries, Asks
<1> QED BY <1>1, <1>2, <1>3

LEMMA Covering ==
  ASSUME opened \in {2 * d + 1 : d \in Openings}, clock \in opened..(opened + Horizon)
  PROVE  opened \in Nat /\ clock \in Nat /\ Today \in Covered
<1>1. PICK d \in Openings : opened = 2 * d + 1
  OBVIOUS
<1>2. d \in Nat /\ Horizon \in Nat /\ d..(d + (Horizon + 1) \div 2) \subseteq Covered
  BY ReportsAssumption
<1>3. clock \div 2 \in d..(d + (Horizon + 1) \div 2)
  BY <1>1, <1>2
<1> QED BY <1>1, <1>2, <1>3 DEF Today, Day

LEMMA ReportsInitially == ReportsInit => ReportsInv
<1> SUFFICES ASSUME ReportsInit PROVE ReportsInv
  OBVIOUS
<1>1. opened \in Nat
  BY ReportsAssumption DEF ReportsInit
<1>2. order \in [Orders -> OrderRows] /\ refund \in [Refunds -> RefundRows]
  BY DEF ReportsInit, OrderRows, RefundRows
<1>3. clock \in opened..(opened + Horizon)
  BY <1>1, ReportsAssumption DEF ReportsInit
<1>4. request = [r \in Requests |-> request[r]] /\ \A r \in Requests : request[r] = NoReport
  BY DEF ReportsInit
<1>5. ReportsTypeOK
  BY <1>2, <1>3, <1>4, TypeParts DEF ReportsInit
<1>6. ReportsSound
  BY <1>4 DEF ReportsSound, ReportSound, Started
<1> QED BY <1>5, <1>6 DEF ReportsInv

\* A request that takes no step and has had its answers keeps them.
LEMMA SoundStays ==
  ASSUME ReportsInv, refund' \in [Refunds -> RefundRows], NEW x, Report(x), ReportSound(x),
         NEW y, y = x \/ y = [x EXCEPT !.grown = TRUE],
         order' = order \/ ~Started(x) \/ y.grown = TRUE,
         \A f \in Refunds : refund[f] # None => refund'[f] = refund[f]
  PROVE  ReportSound(y)' /\ Report(y)
<1>1. PICK D \in SUBSET Queries(x.kind) : x \in Rows(D)
  BY DEF Report
<1>2. /\ y.kind = x.kind /\ y.ranges = x.ranges /\ y.place = x.place /\ y.read = x.read
      /\ y.began = x.began /\ y \in Rows(D) /\ x.read \in [D -> Int]
      /\ x.kind \in {"summary", "dashboard"} /\ y.grown \in BOOLEAN
      /\ x.grown => y.grown
  BY <1>1 DEF Rows
<1>3. Report(y)
  BY <1>1, <1>2 DEF Report
<1>4. /\ order \in [Orders -> OrderRows] /\ refund \in [Refunds -> RefundRows]
  BY TypeParts DEF ReportsInv
<1>5. ASSUME Started(y) PROVE ReportSound(y)'
  <2>1. Started(x)
    <3>1. x # NoReport
      BY <1>1 DEF Rows, NoReport
    <3> QED BY <1>2, <1>5, <3>1 DEF Started
  <2>2. /\ x.began \in [{"current", "previous"} -> Int]
        /\ x.kind = "summary" => <<"gross", "current">> \in DOMAIN x.read
        /\ \A which \in Asks(x) :
             \/ GrossSide(x, which) - BackSide(x, which) <= x.began[which]
             \/ x.kind = "dashboard" /\ x.grown
    BY <2>1 DEF ReportSound
  <2>3. ASSUME NEW which \in Asks(y)
        PROVE  \/ GrossSide(y, which)' - BackSide(y, which)' <= y.began[which]
               \/ y.kind = "dashboard" /\ y.grown
    <3>1. which \in Asks(x) /\ which \in {"current", "previous"}
      BY <1>2, <2>3, AskedHalves DEF Asks
    <3>2. CASE x.kind = "dashboard" /\ y.grown
      BY <1>2, <3>2
    <3>3. CASE ~(x.kind = "dashboard" /\ y.grown)
      <4>1. GrossSide(x, which) - BackSide(x, which) <= x.began[which]
        BY <1>2, <2>2, <3>1, <3>3
      <4>2. GrossSide(y, which)' = GrossSide(x, which) /\ GrossSide(x, which) \in Int
        <5>1. CASE <<"gross", which>> \in DOMAIN x.read
          BY <1>2, <5>1 DEF GrossSide
        <5>2. CASE <<"gross", which>> \notin DOMAIN x.read
          <6>1. order' = order
            BY <1>2, <2>1, <2>2, <3>1, <3>3, <5>2, AskedHalves
          <6>2. Gross(x.ranges[which], x.place)' = Gross(x.ranges[which], x.place)
            BY <6>1, GrossStays
          <6>3. Gross(x.ranges[which], x.place) \in Int
            BY <1>4, SoldExist
          <6> QED BY <1>2, <5>2, <6>2, <6>3 DEF GrossSide
        <5> QED BY <5>1, <5>2
      <4>3. BackSide(x, which) <= BackSide(y, which)' /\ BackSide(x, which) \in Int /\ BackSide(y, which)' \in Int
        <5>1. CASE <<"refunds", which>> \in DOMAIN x.read
          BY <1>2, <5>1 DEF BackSide
        <5>2. CASE <<"refunds", which>> \notin DOMAIN x.read
          <6>1. PICK range : range = x.ranges[which]
            OBVIOUS
          <6>2. Refunded(range) <= Refunded(range)' /\ Refunded(range) \in Nat /\ Refunded(range)' \in Nat
            <7>1. Refunded(range) <= Refunded(range)' /\ Refunded(range) \in Nat
              BY <1>4, RefundedGrows, RefundedNat
            <7>2. PICK M, more : M = Back(range)' /\ more = refund'
              OBVIOUS
            <7>3. M \in SUBSET Refunds /\ \A f \in M : more[f].amount \in Nat
              BY <1>4, <7>2, ReportsAssumption DEF Back, RefundRows
            <7>4. RefundedOf(more, M) \in Nat
              BY <7>3, RefundsGrow
            <7> QED BY <7>1, <7>2, <7>4, TheSums
          <6> QED BY <1>2, <5>2, <6>1, <6>2 DEF BackSide
        <5> QED BY <5>1, <5>2
      <4>4. x.began[which] \in Int /\ y.began[which] = x.began[which]
        BY <1>2, <2>2, <3>1
      <4> QED BY <4>1, <4>2, <4>3, <4>4
    <3> QED BY <3>2, <3>3
  <2>4. /\ y.began \in [{"current", "previous"} -> Int]
        /\ y.kind = "summary" => <<"gross", "current">> \in DOMAIN y.read
    BY <1>2, <2>2
  <2> QED BY <2>3, <2>4 DEF ReportSound, Asks
<1>6. ReportSound(y)' <=> (Started(y) => ReportSound(y)')
  BY DEF ReportSound, Started
<1> QED BY <1>3, <1>5, <1>6

LEMMA ReportsKept ==
  ASSUME opened' \in {2 * d + 1 : d \in Openings}, clock' \in opened'..(opened' + Horizon),
         order' \in [Orders -> OrderRows], refund' \in [Refunds -> RefundRows],
         request' = [r \in Requests |-> request'[r]],
         \A r \in Requests : \E y : /\ y = request'[r]
                                    /\ y = NoReport \/ (Report(y) /\ ReportSound(y)')
  PROVE  ReportsInv'
<1>1. ReportsTypeOK'
  BY DEF ReportsTypeOK, OrderRows, RefundRows, Report, Rows, Ranges
<1>2. ASSUME NEW r \in Requests PROVE ReportSound(request[r])'
  <2>1. PICK y : y = request'[r] /\ (y = NoReport \/ (Report(y) /\ ReportSound(y)'))
    OBVIOUS
  <2>2. ASSUME request'[r] # NoReport PROVE ReportSound(y)'
    BY <2>1, <2>2
  <2> QED BY <2>1, <2>2 DEF ReportSound, Started, GrossSide, BackSide, Asks
<1> QED BY <1>1, <1>2 DEF ReportsInv, ReportsSound

\* What is known of a request before a step.
LEMMA RequestFacts ==
  ASSUME ReportsInv, NEW r \in Requests
  PROVE  /\ request[r] = NoReport \/ Report(request[r])
         /\ ReportSound(request[r])
         /\ order \in [Orders -> OrderRows] /\ refund \in [Refunds -> RefundRows]
         /\ request = [q \in Requests |-> request[q]]
         /\ opened \in {2 * d + 1 : d \in Openings} /\ clock \in opened..(opened + Horizon)
         /\ opened \in Nat /\ clock \in Nat /\ Today \in Covered
BY TypeParts, Covering DEF ReportsInv, ReportsSound

\* A step that writes orders or refunds, or lets time pass, and no request.
LEMMA RowsKeep ==
  ASSUME ReportsInv, refund' \in [Refunds -> RefundRows],
         \A f \in Refunds : refund[f] # None => refund'[f] = refund[f],
         \/ order' = order /\ request' = request
         \/ NoteGrown,
         NEW r \in Requests
  PROVE  \E y : /\ y = request'[r]
                /\ y = NoReport \/ (Report(y) /\ ReportSound(y)')
<1>1. PICK x, y : x = request[r] /\ y = request'[r]
  OBVIOUS
<1>2. x = NoReport \/ (Report(x) /\ ReportSound(x))
  BY <1>1, RequestFacts
<1>3. CASE x = NoReport
  <2>1. y = NoReport
    BY <1>1, <1>3 DEF NoteGrown, Started
  <2> QED BY <1>1, <2>1
<1>4. CASE x # NoReport
  <2>1. PICK D \in SUBSET Queries(x.kind) : x \in Rows(D)
    BY <1>2, <1>4 DEF Report
  <2>2. /\ y = x \/ y = [x EXCEPT !.grown = TRUE]
        /\ order' = order \/ ~Started(x) \/ y.grown = TRUE
    BY <1>1, <2>1 DEF NoteGrown, Rows
  <2>3. ReportSound(y)' /\ Report(y)
    BY <1>2, <1>4, <2>2, SoundStays
  <2> QED BY <1>1, <2>3
<1> QED BY <1>3, <1>4

LEMMA SellKeeps ==
  ASSUME ReportsInv, NEW o \in Orders, NEW sale \in Catalog, Sell(o, sale)
  PROVE  ReportsInv'
<1>1. /\ order \in [Orders -> OrderRows] /\ refund \in [Refunds -> RefundRows]
      /\ opened \in {2 * d + 1 : d \in Openings} /\ clock \in opened..(opened + Horizon)
      /\ clock \in Nat
  BY TypeParts, Covering DEF ReportsInv
<1>2. order' \in [Orders -> OrderRows] /\ refund' = refund /\ opened' = opened /\ clock' = clock
  BY <1>1 DEF Sell, OrderRows, Statuses
<1>3. NoteGrown
  BY DEF Sell
<1>4. request' = [r \in Requests |-> request'[r]]
  BY <1>3 DEF NoteGrown
<1> QED BY <1>1, <1>2, <1>3, <1>4, RowsKeep, ReportsKept

LEMMA SetStatusKeeps ==
  ASSUME ReportsInv, NEW o \in Orders, NEW status1 \in Statuses, SetStatus(o, status1)
  PROVE  ReportsInv'
<1>1. /\ order \in [Orders -> OrderRows] /\ refund \in [Refunds -> RefundRows]
      /\ opened \in {2 * d + 1 : d \in Openings} /\ clock \in opened..(opened + Horizon)
      /\ clock \in Nat
  BY TypeParts, Covering DEF ReportsInv
<1>2. order' \in [Orders -> OrderRows] /\ refund' = refund /\ opened' = opened /\ clock' = clock
  BY <1>1 DEF SetStatus, OrderRows, Statuses, None
<1>3. NoteGrown
  BY DEF SetStatus
<1>4. request' = [r \in Requests |-> request'[r]]
  BY <1>3 DEF NoteGrown
<1> QED BY <1>1, <1>2, <1>3, <1>4, RowsKeep, ReportsKept

LEMMA RefundKeeps ==
  ASSUME ReportsInv, NEW f \in Refunds, NEW o \in Orders, NEW amount \in Amounts,
         NEW method \in Methods, Refund(f, o, amount, method)
  PROVE  ReportsInv'
<1>1. /\ order \in [Orders -> OrderRows] /\ refund \in [Refunds -> RefundRows]
      /\ opened \in {2 * d + 1 : d \in Openings} /\ clock \in opened..(opened + Horizon)
      /\ clock \in Nat /\ request = [r \in Requests |-> request[r]]
  BY TypeParts, Covering DEF ReportsInv
<1>2. /\ refund' \in [Refunds -> RefundRows] /\ opened' = opened /\ clock' = clock
      /\ order' = order /\ request' = request
      /\ \A g \in Refunds : refund[g] # None => refund'[g] = refund[g]
  BY <1>1 DEF Refund, RefundRows
<1> QED BY <1>1, <1>2, RowsKeep, ReportsKept

LEMMA PassKeeps ==
  ASSUME ReportsInv, Pass \/ UNCHANGED reportsVars
  PROVE  ReportsInv'
<1>1. /\ order \in [Orders -> OrderRows] /\ refund \in [Refunds -> RefundRows]
      /\ opened \in {2 * d + 1 : d \in Openings} /\ clock \in opened..(opened + Horizon)
      /\ clock \in Nat /\ opened \in Nat /\ request = [r \in Requests |-> request[r]]
  BY TypeParts, Covering DEF ReportsInv
<1>2. /\ refund' = refund /\ opened' = opened /\ clock' \in opened'..(opened' + Horizon)
      /\ order' = order /\ request' = request
  BY <1>1, ReportsAssumption DEF Pass, reportsVars
<1> QED BY <1>1, <1>2, RowsKeep, ReportsKept

\* A request that another one leaves alone.
LEMMA OtherKept ==
  ASSUME ReportsInv, order' = order, refund' = refund, NEW r \in Requests, request'[r] = request[r]
  PROVE  \E y : /\ y = request'[r]
                /\ y = NoReport \/ (Report(y) /\ ReportSound(y)')
<1>1. PICK x : x = request[r]
  OBVIOUS
<1>2. x = NoReport \/ (Report(x) /\ ReportSound(x))
  BY <1>1, RequestFacts
<1>3. refund' \in [Refunds -> RefundRows] /\ \A f \in Refunds : refund[f] # None => refund'[f] = refund[f]
  BY RequestFacts
<1>4. CASE x = NoReport
  BY <1>1, <1>4
<1>5. CASE x # NoReport
  <2>1. ReportSound(x)' /\ Report(x)
    BY <1>2, <1>3, <1>5, SoundStays
  <2> QED BY <1>1, <2>1
<1> QED BY <1>4, <1>5

\* A step of one request.
LEMMA OneRequestKeeps ==
  ASSUME ReportsInv, UNCHANGED <<opened, clock, order, refund>>, NEW r \in Requests,
         NEW y, request' = [request EXCEPT ![r] = y],
         y = NoReport \/ (Report(y) /\ ReportSound(y)')
  PROVE  ReportsInv'
<1>1. /\ order \in [Orders -> OrderRows] /\ refund \in [Refunds -> RefundRows]
      /\ opened \in {2 * d + 1 : d \in Openings} /\ clock \in opened..(opened + Horizon)
      /\ request = [q \in Requests |-> request[q]]
  BY RequestFacts
<1>2. request' = [q \in Requests |-> request'[q]] /\ request'[r] = y
  BY <1>1
<1>3. ASSUME NEW q \in Requests, q # r PROVE request'[q] = request[q]
  BY <1>1, <1>3
<1>4. ASSUME NEW q \in Requests
      PROVE  \E z : z = request'[q] /\ (z = NoReport \/ (Report(z) /\ ReportSound(z)'))
  <2>1. CASE q = r
    BY <1>2, <2>1
  <2>2. CASE q # r
    BY <1>3, <2>2, OtherKept
  <2> QED BY <2>1, <2>2
<1> QED BY <1>1, <1>2, <1>4, ReportsKept

LEMMA BeginKeeps ==
  ASSUME ReportsInv, NEW r \in Requests, NEW kind \in {"summary", "dashboard"},
         NEW ranges \in Ranges, NEW l \in AskedPlaces, Begin(r, kind, ranges, l)
  PROVE  ReportsInv'
<1> DEFINE y == [kind |-> kind, ranges |-> ranges, place |-> l, read |-> <<>>,
                 began |-> <<>>, grown |-> FALSE]
<1>1. request' = [request EXCEPT ![r] = y] /\ UNCHANGED <<opened, clock, order, refund>>
  BY DEF Begin
<1>2. <<>> \in [{} -> Int] /\ DOMAIN <<>> = {}
  OBVIOUS
<1>3. y \in Rows({})
  BY <1>2 DEF Rows
<1>4. Report(y)
  BY <1>3 DEF Report
<1>5. ReportSound(y)'
  BY <1>2 DEF ReportSound, Started
<1> HIDE DEF y
<1> QED BY <1>1, <1>4, <1>5, OneRequestKeeps

LEMMA BeginsKeep ==
  ASSUME ReportsInv, NEW r \in Requests, NEW l \in AskedPlaces,
         \/ \E from, to \in {Today - 1, Today} : BeginSummary(r, from, to, l)
         \/ \E period \in Asked : BeginDashboard(r, period, l)
  PROVE  ReportsInv'
<1>1. Today \in Covered /\ Today \in Nat
  BY RequestFacts, CoveredFacts
<1>2. ASSUME NEW from \in {Today - 1, Today}, NEW to \in {Today - 1, Today}, BeginSummary(r, from, to, l)
      PROVE  ReportsInv'
  <2>1. from \in Int /\ to \in Int
    BY <1>1
  <2>2. CustomRange(from, to, Today) \in Ranges
    BY <1>1, <2>1, CustomRangeFacts
  <2> QED BY <1>2, <2>2, BeginKeeps DEF BeginSummary
<1>3. ASSUME NEW period \in Asked, BeginDashboard(r, period, l) PROVE ReportsInv'
  <2>1. period \in Periods
    BY ReportsAssumption
  <2>2. DateRange(period, Today) \in Ranges
    BY <1>1, <2>1, DateRangeFacts
  <2> QED BY <1>3, <2>2, BeginKeeps DEF BeginDashboard
<1> QED BY <1>2, <1>3

LEMMA DeliverKeeps ==
  ASSUME ReportsInv, NEW r \in Requests, Deliver(r)
  PROVE  ReportsInv'
BY OneRequestKeeps DEF Deliver

\* The summary reads the orders first.
LEMMA SummaryReadsGrossFirst ==
  ASSUME NEW x, x.kind = "summary", DOMAIN x.read = {}, NEW query \in NextQueries(x)
  PROVE  query = <<"gross", "current">>
<1>1. Queries(x.kind) = {<<"gross", "current">>, <<"refunds", "current">>}
  BY DEF Queries
<1> DEFINE a == <<"gross", "current">>
           b == <<"refunds", "current">>
<1>2. a # b
  OBVIOUS
<1>3. Cardinality({a, b}) # 1
  <2> HIDE DEF a, b
  <2>1. IsFiniteSet({a}) /\ Cardinality({a}) = 1
    BY FS_Singleton
  <2>2. {a, b} = {a} \cup {b} /\ b \notin {a}
    BY <1>2
  <2>3. Cardinality({a} \cup {b}) = 2
    <3>1. PICK A : A = {a}
      OBVIOUS
    <3>2. Cardinality(A \cup {b}) = Cardinality(A) + 1
      BY <2>1, <2>2, <3>1, FS_AddElement
    <3> QED BY <2>1, <3>1, <3>2
  <2> QED BY <2>2, <2>3
<1>4. Queries(x.kind) \ DOMAIN x.read = {a, b}
  BY <1>1
<1> QED BY <1>3, <1>4 DEF NextQueries

LEMMA RowRead ==
  ASSUME NEW D, NEW x \in Rows(D), NEW a, NEW b
  PROVE  [x EXCEPT !.read = a, !.began = b]
           = [kind |-> x.kind, ranges |-> x.ranges, place |-> x.place, read |-> a,
              began |-> b, grown |-> x.grown]
<1>1. PICK half : half = [x EXCEPT !.read = a]
  OBVIOUS
<1>2. half = [kind |-> x.kind, ranges |-> x.ranges, place |-> x.place, read |-> a,
              began |-> x.began, grown |-> x.grown]
  BY <1>1 DEF Rows
<1>3. [half EXCEPT !.began = b]
        = [kind |-> x.kind, ranges |-> x.ranges, place |-> x.place, read |-> a,
           began |-> b, grown |-> x.grown]
  BY <1>2
<1>4. [x EXCEPT !.read = a, !.began = b] = [half EXCEPT !.began = b]
  BY <1>1
<1> QED BY <1>3, <1>4

LEMMA ReadKeeps ==
  ASSUME ReportsInv, NEW r \in Requests, NEW query \in Queries("dashboard"), Read(r, query)
  PROVE  ReportsInv'
<1>1. PICK x : x = request[r]
  OBVIOUS
<1>2. Report(x) /\ ReportSound(x) /\ x # NoReport
  BY <1>1, RequestFacts DEF Read
<1>3. PICK D \in SUBSET Queries(x.kind) : x \in Rows(D)
  BY <1>2 DEF Report
<1>4. /\ x.kind \in {"summary", "dashboard"} /\ x.ranges \in Ranges /\ x.place \in AskedPlaces
      /\ x.read \in [D -> Int] /\ DOMAIN x.read = D /\ x.grown \in BOOLEAN
      /\ x.began \in {<<>>} \cup [{"current", "previous"} -> Int]
  BY <1>3 DEF Rows
<1> DEFINE answer == Answer(query, x.ranges, x.place)
           started == [which \in {"current", "previous"} |-> Net(x.ranges, x.place, which)]
           read1 == [q \in D \cup {query} |-> IF q = query THEN answer ELSE x.read[q]]
           began1 == IF Started(x) THEN x.began ELSE started
           row1 == [kind |-> x.kind, ranges |-> x.ranges, place |-> x.place, read |-> read1,
                 began |-> began1, grown |-> x.grown]
<1>5. query \in NextQueries(x) /\ query \in Queries(x.kind) /\ UNCHANGED <<opened, clock, order, refund>>
  BY <1>1 DEF Read, NextQueries
<1>6. order \in [Orders -> OrderRows] /\ refund \in [Refunds -> RefundRows]
      /\ request = [q \in Requests |-> request[q]]
  BY RequestFacts
<1>7. /\ \A range, l : Gross(range, l) \in Int
      /\ \A range : Refunded(range) \in Nat
  BY <1>6, SoldExist, RefundedNat
<1>8. answer \in Int
  BY <1>7 DEF Answer
<1>9. started \in [{"current", "previous"} -> Int]
      /\ \A which \in {"current", "previous"} :
           started[which] = Gross(x.ranges[which], x.place) - Refunded(x.ranges[which])
  BY <1>7 DEF Net
<1>10. request' = [request EXCEPT ![r] = row1]
  <2>1. request' = [request EXCEPT ![r] = [x EXCEPT !.read = read1, !.began = began1]]
    BY <1>1, <1>4, <1>6 DEF Read
  <2>2. [x EXCEPT !.read = read1, !.began = began1] = row1
    <3> HIDE DEF read1, began1
    <3> QED BY <1>3, RowRead
  <2> QED BY <2>1, <2>2
<1>11. read1 \in [D \cup {query} -> Int]
  BY <1>4, <1>8
<1>12. began1 \in [{"current", "previous"} -> Int]
  BY <1>2, <1>9 DEF ReportSound
<1>13. Report(row1)
  <2>1. row1 \in Rows(D \cup {query})
    <3> HIDE DEF read1, began1
    <3> QED BY <1>4, <1>11, <1>12 DEF Rows
  <2>2. D \cup {query} \in SUBSET Queries(row1.kind)
    BY <1>5
  <2> QED BY <2>1, <2>2 DEF Report
<1>14. x.kind = "summary" => <<"gross", "current">> \in D \cup {query}
  <2>1. CASE Started(x)
    BY <1>2, <1>4, <2>1 DEF ReportSound
  <2>2. CASE ~Started(x)
    <3>1. DOMAIN x.read = {}
      BY <1>2, <2>2 DEF Started
    <3> QED BY <1>5, <3>1, SummaryReadsGrossFirst
  <2> QED BY <2>1, <2>2
<1>15. query \notin D
  BY <1>4, <1>5 DEF NextQueries
<1>16. PICK y : y = row1
  OBVIOUS
<1>17. /\ y.kind = x.kind /\ y.ranges = x.ranges /\ y.place = x.place /\ y.grown = x.grown
       /\ y.read = read1 /\ y.began = began1 /\ DOMAIN y.read = D \cup {query}
       /\ \A q \in D : y.read[q] = x.read[q]
       /\ y.read[query] = answer
  BY <1>15, <1>16
<1>18. \A range, l : Gross(range, l)' = Gross(range, l) /\ Refunded(range)' = Refunded(range)
  <2>1. order' = order /\ refund' = refund
    BY <1>5
  <2> SUFFICES ASSUME NEW range, NEW l
               PROVE  Gross(range, l)' = Gross(range, l) /\ Refunded(range)' = Refunded(range)
    OBVIOUS
  <2>2. Back(range)' = Back(range)
    BY <2>1 DEF Back
  <2> QED BY <2>1, <2>2, GrossStays, TheSums
<1>19. /\ \A which : query = <<"gross", which>> => answer = Gross(x.ranges[which], x.place)
       /\ \A which : query = <<"refunds", which>> => answer = Refunded(x.ranges[which])
  BY DEF Answer
<1> HIDE DEF row1, read1, began1, answer, started
<1>20. ASSUME NEW which
       PROVE  GrossSide(y, which)' = GrossSide(x, which) /\ BackSide(y, which)' = BackSide(x, which)
  <2>1. GrossSide(y, which)' = GrossSide(x, which)
    <3>1. CASE <<"gross", which>> = query
      <4>1. y.read[<<"gross", which>>] = Gross(x.ranges[which], x.place) /\ <<"gross", which>> \in DOMAIN y.read
        BY <1>17, <1>19, <3>1
      <4>2. <<"gross", which>> \notin DOMAIN x.read
        BY <1>4, <1>15, <3>1
      <4> QED BY <4>1, <4>2 DEF GrossSide
    <3>2. CASE <<"gross", which>> \in D
      BY <1>4, <1>17, <3>2 DEF GrossSide
    <3>3. CASE <<"gross", which>> # query /\ <<"gross", which>> \notin D
      BY <1>4, <1>17, <1>18, <3>3 DEF GrossSide
    <3> QED BY <3>1, <3>2, <3>3
  <2>2. BackSide(y, which)' = BackSide(x, which)
    <3>1. CASE <<"refunds", which>> = query
      <4>1. y.read[<<"refunds", which>>] = Refunded(x.ranges[which]) /\ <<"refunds", which>> \in DOMAIN y.read
        BY <1>17, <1>19, <3>1
      <4>2. <<"refunds", which>> \notin DOMAIN x.read
        BY <1>4, <1>15, <3>1
      <4> QED BY <4>1, <4>2 DEF BackSide
    <3>2. CASE <<"refunds", which>> \in D
      BY <1>4, <1>17, <3>2 DEF BackSide
    <3>3. CASE <<"refunds", which>> # query /\ <<"refunds", which>> \notin D
      BY <1>4, <1>17, <1>18, <3>3 DEF BackSide
    <3> QED BY <3>1, <3>2, <3>3
  <2> QED BY <2>1, <2>2
<1>21. ASSUME NEW which \in Asks(x)
       PROVE  \/ GrossSide(x, which) - BackSide(x, which) <= y.began[which]
              \/ x.kind = "dashboard" /\ x.grown
  <2>1. CASE Started(x)
    BY <1>2, <1>17, <2>1 DEF ReportSound, began1
  <2>2. CASE ~Started(x)
    <3>1. D = {} /\ y.began = started
      BY <1>2, <1>4, <1>17, <2>2 DEF Started, began1
    <3>2. GrossSide(x, which) = Gross(x.ranges[which], x.place) /\ BackSide(x, which) = Refunded(x.ranges[which])
      BY <1>4, <3>1 DEF GrossSide, BackSide
    <3>3. which \in {"current", "previous"}
      BY <1>4, <1>21, AskedHalves
    <3>4. started[which] = Gross(x.ranges[which], x.place) - Refunded(x.ranges[which])
      BY <1>9, <3>3
    <3>5. started[which] \in Int
      BY <1>9, <3>3
    <3> QED BY <3>1, <3>2, <3>4, <3>5
  <2> QED BY <2>1, <2>2
<1>22. ReportSound(y)'
  <2>1. ASSUME NEW which \in Asks(y)
        PROVE  \/ GrossSide(y, which)' - BackSide(y, which)' <= y.began[which]
               \/ y.kind = "dashboard" /\ y.grown
    <3>1. which \in Asks(x)
      BY <1>17, <2>1 DEF Asks
    <3> QED BY <1>17, <1>20, <1>21, <3>1
  <2> QED BY <1>12, <1>14, <1>17, <2>1 DEF ReportSound, Asks
<1> QED BY <1>5, <1>10, <1>13, <1>22, <1>16, OneRequestKeeps

LEMMA ReportsStep ==
  ASSUME ReportsInv, [ReportsNext]_reportsVars
  PROVE  ReportsInv'
<1>1. CASE UNCHANGED reportsVars
  BY <1>1, PassKeeps
<1>2. CASE ReportsNext
  <2>1. CASE \E o \in Orders, sale \in Catalog : Sell(o, sale)
    BY <2>1, SellKeeps
  <2>2. CASE \E o \in Orders, s \in Statuses : SetStatus(o, s)
    BY <2>2, SetStatusKeeps
  <2>3. CASE \E f \in Refunds, o \in Orders, amount \in Amounts, method \in Methods :
               Refund(f, o, amount, method)
    BY <2>3, RefundKeeps
  <2>4. CASE Pass
    BY <2>4, PassKeeps
  <2>5. CASE \E r \in Requests, from, to \in {Today - 1, Today}, l \in AskedPlaces :
               BeginSummary(r, from, to, l)
    BY <2>5, BeginsKeep
  <2>6. CASE \E r \in Requests, period \in Asked, l \in AskedPlaces : BeginDashboard(r, period, l)
    BY <2>6, BeginsKeep
  <2>7. CASE \E r \in Requests, query \in Queries("dashboard") : Read(r, query)
    BY <2>7, ReadKeeps
  <2>8. CASE \E r \in Requests : Deliver(r)
    BY <2>8, DeliverKeeps
  <2> QED BY <1>2, <2>1, <2>2, <2>3, <2>4, <2>5, <2>6, <2>7, <2>8 DEF ReportsNext
<1> QED BY <1>1, <1>2

LEMMA ReportsInvariant == ReportsSpec => []ReportsInv
BY ReportsInitially, ReportsStep, PTL DEF ReportsSpec

\* The rows that are reported and the reports in the making have their types.
THEOREM ReportsTypeCorrect == ReportsSpec => []ReportsTypeOK
<1>1. ReportsInv => ReportsTypeOK
  BY DEF ReportsInv
<1> QED BY <1>1, ReportsInvariant, PTL

\* The summary reads the orders before the refunds, and a refund is never taken
\* back: no report shows more net sales than there were when it began, unless it
\* is a dashboard during which an order was written.
THEOREM NetNeverTooHigh == ReportsSpec => []NetNeverOverstated
<1>1. ReportsInv => NetNeverOverstated
  <2> SUFFICES ASSUME ReportsInv, NEW r \in Requests, Complete(request[r]),
                      NEW which \in Asks(request[r])
               PROVE  \/ request[r].read[<<"gross", which>>] - request[r].read[<<"refunds", which>>]
                           <= request[r].began[which]
                      \/ request[r].kind = "dashboard" /\ request[r].grown
    BY DEF NetNeverOverstated, Asks
  <2>1. PICK x : x = request[r]
    OBVIOUS
  <2>2. x # NoReport /\ DOMAIN x.read = Queries(x.kind) /\ Report(x) /\ ReportSound(x) /\ which \in Asks(x)
    BY <2>1, RequestFacts DEF Complete
  <2>3. x.kind \in {"summary", "dashboard"}
    BY <2>2 DEF Report, Rows
  <2>4. <<"gross", which>> \in DOMAIN x.read /\ <<"refunds", which>> \in DOMAIN x.read
    BY <2>2, <2>3, AskedHalves
  <2>5. Started(x)
    BY <2>2, <2>4 DEF Started
  <2> QED BY <2>1, <2>2, <2>4, <2>5 DEF ReportSound, GrossSide, BackSide
<1> QED BY <1>1, ReportsInvariant, PTL

\* Whatever the day and the period, the two ranges that are compared are alike.
THEOREM RangesAlwaysComparable == ReportsSpec => []RangesComparable
<1>1. ReportsInv => RangesComparable
  <2> SUFFICES ASSUME ReportsInv PROVE RangesComparable
    OBVIOUS
  <2>1. Today \in Covered
    BY TypeParts, Covering DEF ReportsInv
  <2> QED BY <2>1, RangesAreComparable
<1> QED BY <1>1, ReportsInvariant, PTL

-----------------------------------------------------------------------------
(* The breakdowns.                                                         *)

\* What lines come to, once each and once for each category, and what the rows
\* of the methods of payment were refunded.
ItemsTotal(S) == MapThenSumSet(LineTotal, S)
CountedTotal(S) ==
  MapThenSumSet(LAMBDA item : LineTotal(item) * Cardinality(CategoriesOf[item[2].product]), S)
ListedRefunds(rows, S) == MapThenSumSet(LAMBDA m : rows[m].refund, S)

\* These are sums of functions as well.
LEMMA ReportIsSum ==
  ASSUME NEW R PROVE Sum(R) = Sums!SumOf(R, DOMAIN R)
BY DEF Sum, Sums!SumOf, MapThenSumSet, MapThenFoldSet, Sums!MapThenSumSet, Sums!MapThenFoldSet

LEMMA ItemsTotalIsSum ==
  ASSUME NEW S, Sums!IsFiniteSet(S), NEW f, \A x \in S : f[x] = x[2].total
  PROVE  ItemsTotal(S) = Sums!SumOf(f, S)
<1> DEFINE Adds(h) == h = [s \in SUBSET S |->
                             IF s = {} THEN 0
                             ELSE LET x == CHOOSE x \in s : TRUE IN x[2].total + h[s \ {x}]]
<1>1. PICK g : Sums!IsSum(g, f, SUBSET S)
  BY Sums!SumGraph
<1>2. \A h : Adds(h) <=> Sums!IsSum(h, f, SUBSET S)
  <2>1. ASSUME NEW s \in SUBSET S, s # {} PROVE f[Sums!AnyOf(s)] = (CHOOSE x \in s : TRUE)[2].total
    BY <2>1 DEF Sums!AnyOf
  <2> QED BY <2>1 DEF Sums!IsSum, Sums!AnyOf
<1>3. ItemsTotal(S) = (CHOOSE h : Adds(h))[S]
  BY DEF ItemsTotal, LineTotal, MapThenSumSet, MapThenFoldSet
<1> HIDE DEF Adds
<1>4. Adds(CHOOSE h : Adds(h))
  <2>1. \E h : Adds(h)
    BY <1>1, <1>2
  <2> QED BY <2>1
<1>5. Sums!IsSum(CHOOSE h : Adds(h), f, SUBSET S)
  BY <1>2, <1>4
<1>6. (CHOOSE h : Adds(h))[S] = Sums!SumOf(f, S)
  BY <1>5, Sums!SumUnique
<1> QED BY <1>3, <1>6

LEMMA CountedTotalIsSum ==
  ASSUME NEW S, Sums!IsFiniteSet(S), NEW f,
         \A x \in S : f[x] = x[2].total * Cardinality(CategoriesOf[x[2].product])
  PROVE  CountedTotal(S) = Sums!SumOf(f, S)
<1> DEFINE Adds(h) == h = [s \in SUBSET S |->
                             IF s = {} THEN 0
                             ELSE LET x == CHOOSE x \in s : TRUE
                                  IN  x[2].total * Cardinality(CategoriesOf[x[2].product]) + h[s \ {x}]]
<1>1. PICK g : Sums!IsSum(g, f, SUBSET S)
  BY Sums!SumGraph
<1>2. \A h : Adds(h) <=> Sums!IsSum(h, f, SUBSET S)
  <2>1. ASSUME NEW s \in SUBSET S, s # {}
        PROVE  f[Sums!AnyOf(s)] = (CHOOSE x \in s : TRUE)[2].total
                                    * Cardinality(CategoriesOf[(CHOOSE x \in s : TRUE)[2].product])
    <3>1. PICK y : y = CHOOSE x \in s : TRUE
      OBVIOUS
    <3>2. y \in S /\ Sums!AnyOf(s) = y
      BY <2>1, <3>1 DEF Sums!AnyOf
    <3> QED BY <3>1, <3>2
  <2> QED BY <2>1 DEF Sums!IsSum, Sums!AnyOf
<1>3. CountedTotal(S) = (CHOOSE h : Adds(h))[S]
  BY DEF CountedTotal, LineTotal, MapThenSumSet, MapThenFoldSet
<1> HIDE DEF Adds
<1>4. Adds(CHOOSE h : Adds(h))
  <2>1. \E h : Adds(h)
    BY <1>1, <1>2
  <2> QED BY <2>1
<1>5. Sums!IsSum(CHOOSE h : Adds(h), f, SUBSET S)
  BY <1>2, <1>4
<1>6. (CHOOSE h : Adds(h))[S] = Sums!SumOf(f, S)
  BY <1>5, Sums!SumUnique
<1> QED BY <1>3, <1>6

LEMMA ListedRefundsIsSum ==
  ASSUME NEW rows, NEW S, Sums!IsFiniteSet(S), NEW f, \A x \in S : f[x] = rows[x].refund
  PROVE  ListedRefunds(rows, S) = Sums!SumOf(f, S)
<1> DEFINE Adds(h) == h = [s \in SUBSET S |->
                             IF s = {} THEN 0
                             ELSE LET x == CHOOSE x \in s : TRUE IN rows[x].refund + h[s \ {x}]]
<1>1. PICK g : Sums!IsSum(g, f, SUBSET S)
  BY Sums!SumGraph
<1>2. \A h : Adds(h) <=> Sums!IsSum(h, f, SUBSET S)
  <2>1. ASSUME NEW s \in SUBSET S, s # {} PROVE f[Sums!AnyOf(s)] = rows[CHOOSE x \in s : TRUE].refund
    BY <2>1 DEF Sums!AnyOf
  <2> QED BY <2>1 DEF Sums!IsSum, Sums!AnyOf
<1>3. ListedRefunds(rows, S) = (CHOOSE h : Adds(h))[S]
  BY DEF ListedRefunds, MapThenSumSet, MapThenFoldSet
<1> HIDE DEF Adds
<1>4. Adds(CHOOSE h : Adds(h))
  <2>1. \E h : Adds(h)
    BY <1>1, <1>2
  <2> QED BY <2>1
<1>5. Sums!IsSum(CHOOSE h : Adds(h), f, SUBSET S)
  BY <1>2, <1>4
<1>6. (CHOOSE h : Adds(h))[S] = Sums!SumOf(f, S)
  BY <1>5, Sums!SumUnique
<1> QED BY <1>3, <1>6

\* Orders that are grouped by a key that each of them has.
LEMMA OrdersByKey ==
  ASSUME NEW rows, NEW S \in SUBSET Orders, \A o \in S : rows[o].sale \in Catalog,
         NEW R, Sums!IsFiniteSet(DOMAIN R), NEW key, \A o \in S : key[o] \in DOMAIN R,
         NEW group, \A k \in DOMAIN R : group[k] \in SUBSET S /\ \A o \in S : o \in group[k] <=> key[o] = k,
         \A k \in DOMAIN R : R[k] = GrossOf(rows, group[k])
  PROVE  Sum(R) = GrossOf(rows, S)
<1> DEFINE f == [o \in S |-> SaleTotal(rows[o].sale)]
<1>1. Sums!IsFiniteSet(S)
  BY Finite, Sums!FS_Subset
<1>2. \A o \in S : f[o] = SaleTotal(rows[o].sale) /\ f[o] \in Int
  BY SaleTotals
<1> HIDE DEF f
<1>3. GrossOf(rows, S) = Sums!SumOf(f, S)
  BY <1>1, <1>2, GrossIsSum
<1>4. ASSUME NEW k \in DOMAIN R PROVE R[k] = Sums!SumOf(f, group[k])
  <2>1. PICK T : T = group[k]
    OBVIOUS
  <2>2. T \in SUBSET S /\ R[k] = GrossOf(rows, T)
    BY <2>1
  <2>3. Sums!IsFiniteSet(T) /\ \A o \in T : f[o] = SaleTotal(rows[o].sale)
    BY <1>1, <1>2, <2>2, Sums!FS_Subset
  <2>4. GrossOf(rows, T) = Sums!SumOf(f, T)
    BY <2>3, GrossIsSum
  <2> QED BY <2>1, <2>2, <2>4
<1>5. \A o \in S : f[o] \in Int
  BY <1>2
<1>6. Sums!SumOf(R, DOMAIN R) = Sums!SumOf(f, S)
  BY <1>1, <1>4, <1>5, Sums!SumByKey
<1> QED BY <1>3, <1>6, ReportIsSum

\* Finitely many orders have finitely many keys.
LEMMA KeysFinite ==
  ASSUME NEW S, Sums!IsFiniteSet(S), NEW key, NEW D, \A k \in D : \E o \in S : k = key[o]
  PROVE  Sums!IsFiniteSet(D)
<1> DEFINE P == {s \in SUBSET S : \A E : (\A k \in E : \E o \in s : k = key[o]) => Sums!IsFiniteSet(E)}
<1>1. {} \in P
  <2> SUFFICES ASSUME NEW E, \A k \in E : \E o \in {} : k = key[o] PROVE Sums!IsFiniteSet(E)
    OBVIOUS
  <2>1. E = {}
    OBVIOUS
  <2> QED BY <2>1, Sums!FS_EmptySet
<1>2. \A s \in SUBSET S : s # {} /\ s \ {Sums!AnyOf(s)} \in P => s \in P
  <2> SUFFICES ASSUME NEW s \in SUBSET S, s # {}, s \ {Sums!AnyOf(s)} \in P,
                      NEW E, \A k \in E : \E o \in s : k = key[o]
               PROVE  Sums!IsFiniteSet(E)
    OBVIOUS
  <2>1. PICK y : y = Sums!AnyOf(s)
    OBVIOUS
  <2>2. \A k \in E \ {key[y]} : \E o \in s \ {y} : k = key[o]
    OBVIOUS
  <2>3. Sums!IsFiniteSet(E \ {key[y]})
    BY <2>1, <2>2
  <2>4. Sums!IsFiniteSet({key[y]} \cup (E \ {key[y]}))
    BY <2>3, Sums!FS_Singleton, Sums!FS_Union
  <2>5. E \subseteq {key[y]} \cup (E \ {key[y]})
    OBVIOUS
  <2> QED BY <2>4, <2>5, Sums!FS_Subset
<1>3. P = SUBSET S
  <2> HIDE DEF P
  <2>1. P \in SUBSET SUBSET S
    BY DEF P
  <2> QED BY <1>1, <1>2, <2>1, Sums!SetInduction
<1>4. S \in P
  BY <1>3
<1> QED BY <1>4

\* Each breakdown tells a key if an order has it, and sums those that do.
LEMMA StaffTold ==
  ASSUME NEW range, NEW l, NEW S, S = Sold(range, l)
  PROVE  /\ \A k : k \in DOMAIN SalesByStaff(range, l) <=> \E o \in S : k = order[o].sale.staff
         /\ \A k \in DOMAIN SalesByStaff(range, l) : SalesByStaff(range, l)[k] = GrossOf(order, {o \in S : order[o].sale.staff = k})
<1>1. /\ DOMAIN SalesByStaff(range, l) = {order[o].sale.staff : o \in Sold(range, l)}
      /\ \A k \in DOMAIN SalesByStaff(range, l) :
           SalesByStaff(range, l)[k] = GrossOf(order, {o \in Sold(range, l) : order[o].sale.staff = k})
  BY DEF SalesByStaff, GroupBy, GrossOf, Total, Subtotal, MapThenSumSet, MapThenFoldSet
<1> QED BY <1>1

LEMMA StaffReconcile ==
  ASSUME order \in [Orders -> OrderRows], NEW range, NEW l
  PROVE  Sum(SalesByStaff(range, l)) = Gross(range, l)
<1>1. PICK S, R : S = Sold(range, l) /\ R = SalesByStaff(range, l)
  OBVIOUS
<1>2. S \in SUBSET Orders /\ \A o \in S : order[o].sale \in Catalog
  BY <1>1, SoldExist
<1>3. /\ \A k : k \in DOMAIN R <=> \E o \in S : k = order[o].sale.staff
      /\ \A k \in DOMAIN R : R[k] = GrossOf(order, {o \in S : order[o].sale.staff = k})
  BY <1>1, StaffTold
<1>4. PICK key : key = [o \in S |-> order[o].sale.staff]
  OBVIOUS
<1>5. PICK group : group = [k \in DOMAIN R |-> {o \in S : order[o].sale.staff = k}]
  OBVIOUS
<1>6. \A o \in S : key[o] = order[o].sale.staff /\ key[o] \in DOMAIN R
  BY <1>3, <1>4
<1>7. \A k \in DOMAIN R : group[k] \in SUBSET S /\ \A o \in S : o \in group[k] <=> key[o] = k
  BY <1>5, <1>6
<1>8. \A k \in DOMAIN R : R[k] = GrossOf(order, group[k])
  BY <1>3, <1>5
<1>9. Sums!IsFiniteSet(DOMAIN R)
  <2>1. \A k \in DOMAIN R : \E o \in S : k = key[o]
    BY <1>3, <1>6
  <2>2. Sums!IsFiniteSet(S)
    BY <1>2, Finite, Sums!FS_Subset
  <2> QED BY <2>1, <2>2, KeysFinite
<1>10. Sum(R) = GrossOf(order, S)
  BY <1>2, <1>6, <1>7, <1>8, <1>9, OrdersByKey
<1> QED BY <1>1, <1>10, TheSums

LEMMA PlacesTold ==
  ASSUME NEW range, NEW S, S = Sold(range, Anywhere)
  PROVE  /\ \A k : k \in DOMAIN SalesByLocation(range) <=> \E o \in S : k = order[o].sale.place
         /\ \A k \in DOMAIN SalesByLocation(range) : SalesByLocation(range)[k] = GrossOf(order, {o \in S : order[o].sale.place = k})
<1>1. /\ DOMAIN SalesByLocation(range) = {order[o].sale.place : o \in Sold(range, Anywhere)}
      /\ \A k \in DOMAIN SalesByLocation(range) :
           SalesByLocation(range)[k] = GrossOf(order, {o \in Sold(range, Anywhere) : order[o].sale.place = k})
  BY DEF SalesByLocation, GroupBy, GrossOf, Total, Subtotal, MapThenSumSet, MapThenFoldSet
<1> QED BY <1>1

LEMMA PlacesReconcile ==
  ASSUME order \in [Orders -> OrderRows], NEW range
  PROVE  Sum(SalesByLocation(range)) = Gross(range, Anywhere)
<1>1. PICK S, R : S = Sold(range, Anywhere) /\ R = SalesByLocation(range)
  OBVIOUS
<1>2. S \in SUBSET Orders /\ \A o \in S : order[o].sale \in Catalog
  BY <1>1, SoldExist
<1>3. /\ \A k : k \in DOMAIN R <=> \E o \in S : k = order[o].sale.place
      /\ \A k \in DOMAIN R : R[k] = GrossOf(order, {o \in S : order[o].sale.place = k})
  BY <1>1, PlacesTold
<1>4. PICK key : key = [o \in S |-> order[o].sale.place]
  OBVIOUS
<1>5. PICK group : group = [k \in DOMAIN R |-> {o \in S : order[o].sale.place = k}]
  OBVIOUS
<1>6. \A o \in S : key[o] = order[o].sale.place /\ key[o] \in DOMAIN R
  BY <1>3, <1>4
<1>7. \A k \in DOMAIN R : group[k] \in SUBSET S /\ \A o \in S : o \in group[k] <=> key[o] = k
  BY <1>5, <1>6
<1>8. \A k \in DOMAIN R : R[k] = GrossOf(order, group[k])
  BY <1>3, <1>5
<1>9. Sums!IsFiniteSet(DOMAIN R)
  <2>1. \A k \in DOMAIN R : \E o \in S : k = key[o]
    BY <1>3, <1>6
  <2>2. Sums!IsFiniteSet(S)
    BY <1>2, Finite, Sums!FS_Subset
  <2> QED BY <2>1, <2>2, KeysFinite
<1>10. Sum(R) = GrossOf(order, S)
  BY <1>2, <1>6, <1>7, <1>8, <1>9, OrdersByKey
<1> QED BY <1>1, <1>10, TheSums

\* The report of one place is the row of that place in the report of all.
LEMMA PlaceTold ==
  ASSUME NEW range, NEW l, l # Anywhere
  PROVE  Gross(range, l) = IF l \in DOMAIN SalesByLocation(range)
                           THEN SalesByLocation(range)[l] ELSE 0
<1>1. PICK S, R, T : S = Sold(range, Anywhere) /\ R = SalesByLocation(range) /\ T = Sold(range, l)
  OBVIOUS
<1>2. /\ \A k : k \in DOMAIN R <=> \E o \in S : k = order[o].sale.place
      /\ \A k \in DOMAIN R : R[k] = GrossOf(order, {o \in S : order[o].sale.place = k})
  BY <1>1, PlacesTold
<1>3. T = {o \in S : order[o].sale.place = l}
  BY <1>1 DEF Sold
<1>4. CASE l \in DOMAIN R
  <2>1. Gross(range, l) = GrossOf(order, T)
    BY <1>1, TheSums
  <2>2. R[l] = GrossOf(order, T)
    BY <1>2, <1>3, <1>4
  <2> QED BY <1>1, <1>4, <2>1, <2>2
<1>5. CASE l \notin DOMAIN R
  <2>1. T = {}
    BY <1>2, <1>3, <1>5
  <2>2. Sums!IsFiniteSet({})
    BY Sums!FS_EmptySet
  <2>3. PICK f : f = [x \in {} |-> 0]
    OBVIOUS
  <2>4. GrossOf(order, {}) = Sums!SumOf(f, {})
    BY <2>2, GrossIsSum
  <2>5. GrossOf(order, {}) = 0
    BY <2>4, Sums!SumEmpty
  <2> QED BY <1>1, <1>5, <2>1, <2>5, TheSums
<1>6. l \in DOMAIN R \/ l \notin DOMAIN R
  OBVIOUS
<1> QED BY <1>4, <1>5, <1>6

\* The chart also has the bars of days without sales.
LEMMA ChartTold ==
  ASSUME NEW range, NEW l, NEW S, S = Sold(range, l)
  PROVE  /\ \A k : k \in DOMAIN SalesChart(range, l) <=>
                     \/ \E o \in S : k = UtcDay(order[o].created)
                     \/ \E d \in range.start..range.end : k = UtcDay(2 * d)
         /\ \A k \in DOMAIN SalesChart(range, l) :
              SalesChart(range, l)[k] = GrossOf(order, {o \in S : UtcDay(order[o].created) = k})
<1>1. /\ DOMAIN SalesChart(range, l)
           = {UtcDay(2 * d) : d \in range.start..range.end}
               \cup {UtcDay(order[o].created) : o \in Sold(range, l)}
      /\ \A k \in DOMAIN SalesChart(range, l) :
           SalesChart(range, l)[k]
             = GrossOf(order, {o \in Sold(range, l) : UtcDay(order[o].created) = k})
  BY DEF SalesChart, GrossOf, Total, Subtotal, MapThenSumSet, MapThenFoldSet
<1> QED BY <1>1

LEMMA ChartReconciles ==
  ASSUME order \in [Orders -> OrderRows], NEW range, range.start \in Int, range.end \in Int, NEW l
  PROVE  Sum(SalesChart(range, l)) = Gross(range, l)
<1>1. PICK S, R, day : /\ S = Sold(range, l) /\ R = SalesChart(range, l)
                       /\ day = [d \in range.start..range.end |-> UtcDay(2 * d)]
  OBVIOUS
<1>2. S \in SUBSET Orders /\ \A o \in S : order[o].sale \in Catalog
  BY <1>1, SoldExist
<1>3. /\ \A k : k \in DOMAIN R <=> \/ \E o \in S : k = UtcDay(order[o].created)
                                   \/ \E d \in range.start..range.end : k = UtcDay(2 * d)
      /\ \A k \in DOMAIN R : R[k] = GrossOf(order, {o \in S : UtcDay(order[o].created) = k})
  BY <1>1, ChartTold
<1>4. PICK key : key = [o \in S |-> UtcDay(order[o].created)]
  OBVIOUS
<1>5. PICK group : group = [k \in DOMAIN R |-> {o \in S : UtcDay(order[o].created) = k}]
  OBVIOUS
<1>6. \A o \in S : key[o] = UtcDay(order[o].created) /\ key[o] \in DOMAIN R
  BY <1>3, <1>4
<1>7. \A k \in DOMAIN R : group[k] \in SUBSET S /\ \A o \in S : o \in group[k] <=> key[o] = k
  BY <1>5, <1>6
<1>8. \A k \in DOMAIN R : R[k] = GrossOf(order, group[k])
  BY <1>3, <1>5
<1>9. Sums!IsFiniteSet(DOMAIN R)
  <2>1. PICK D, E : /\ D = {k \in DOMAIN R : \E d \in range.start..range.end : k = day[d]}
                    /\ E = {k \in DOMAIN R : \E o \in S : k = key[o]}
    OBVIOUS
  <2>2. DOMAIN R \subseteq D \cup E
    <3>1. \A d \in range.start..range.end : day[d] = UtcDay(2 * d)
      BY <1>1
    <3> QED BY <1>3, <1>6, <2>1, <3>1
  <2>3. Sums!IsFiniteSet(D)
    <3>1. \A k \in D : \E d \in range.start..range.end : k = day[d]
      BY <2>1
    <3>2. Sums!IsFiniteSet(range.start..range.end)
      BY Sums!FS_Interval
    <3> QED BY <3>1, <3>2, KeysFinite
  <2>4. Sums!IsFiniteSet(E)
    <3>1. \A k \in E : \E o \in S : k = key[o]
      BY <2>1
    <3>2. Sums!IsFiniteSet(S)
      BY <1>2, Finite, Sums!FS_Subset
    <3> QED BY <3>1, <3>2, KeysFinite
  <2> QED BY <2>2, <2>3, <2>4, Sums!FS_Union, Sums!FS_Subset
<1>10. Sum(R) = GrossOf(order, S)
  BY <1>2, <1>6, <1>7, <1>8, <1>9, OrdersByKey
<1> QED BY <1>1, <1>10, TheSums

-----------------------------------------------------------------------------
(* The lines of the orders sold.                                           *)

\* I has the lines of the orders S.
AreItems(I, rows, S) ==
  \A i : i \in I <=> \E o \in S : \E line \in rows[o].sale.lines : i = <<o, line>>

LEMMA ItemsOfOrders ==
  ASSUME NEW range, NEW l
  PROVE  AreItems(LinesSold(range, l), order, Sold(range, l))
BY DEF LinesSold, AreItems

\* What a total is made of: the lines, less the discount, and the shipping.
LEMMA GrossParts ==
  ASSUME NEW rows, NEW S \in SUBSET Orders, \A o \in S : rows[o].sale \in Catalog,
         NEW g, \A o \in S : g[o] = LinesTotal(rows[o].sale.lines)
  PROVE  Sums!SumOf(g, S) + (ShippingOf(rows, S) - DiscountsOf(rows, S)) = GrossOf(rows, S)
<1>1. Sums!IsFiniteSet(S)
  BY Finite, Sums!FS_Subset
<1>2. PICK f, d, h, t : /\ f = [o \in S |-> SaleTotal(rows[o].sale)]
                        /\ d = [o \in S |-> rows[o].sale.discount]
                        /\ h = [o \in S |-> rows[o].sale.shipping]
                        /\ t = [o \in S |-> SaleTotal(rows[o].sale) + rows[o].sale.discount]
  OBVIOUS
<1>3. ASSUME NEW o \in S
      PROVE  /\ f[o] = SaleTotal(rows[o].sale) /\ d[o] = rows[o].sale.discount
             /\ h[o] = rows[o].sale.shipping
             /\ f[o] \in Int /\ d[o] \in Int /\ h[o] \in Int /\ g[o] \in Int
             /\ t[o] = f[o] + d[o] /\ t[o] = g[o] + h[o]
  <2>1. /\ f[o] = SaleTotal(rows[o].sale) /\ d[o] = rows[o].sale.discount
        /\ h[o] = rows[o].sale.shipping /\ t[o] = SaleTotal(rows[o].sale) + rows[o].sale.discount
    BY <1>2
  <2>2. PICK sale : sale = rows[o].sale /\ sale \in Catalog
    OBVIOUS
  <2>3. /\ LinesTotal(sale.lines) \in Nat /\ sale.discount \in Nat /\ sale.shipping \in Nat
        /\ SaleTotal(sale) = LinesTotal(sale.lines) - sale.discount + sale.shipping
    BY <2>2, SaleTotals DEF SaleTotal
  <2> QED BY <2>1, <2>2, <2>3
<1>4. /\ GrossOf(rows, S) = Sums!SumOf(f, S)
      /\ DiscountsOf(rows, S) = Sums!SumOf(d, S)
      /\ ShippingOf(rows, S) = Sums!SumOf(h, S)
  BY <1>1, <1>3, GrossIsSum, DiscountsIsSum, ShippingIsSum
<1>5. Sums!SumOf(t, S) = Sums!SumOf(f, S) + Sums!SumOf(d, S)
  BY <1>1, <1>3, Sums!SumAdd
<1>6. Sums!SumOf(t, S) = Sums!SumOf(g, S) + Sums!SumOf(h, S)
  BY <1>1, <1>3, Sums!SumAdd
<1>7. /\ Sums!SumOf(f, S) \in Int /\ Sums!SumOf(d, S) \in Int
      /\ Sums!SumOf(g, S) \in Int /\ Sums!SumOf(h, S) \in Int
  BY <1>1, <1>3, Sums!SumInt
<1> QED BY <1>4, <1>5, <1>6, <1>7

\* The items of some orders are finitely many, and add up to the lines of the orders.
LEMMA ItemsSum ==
  ASSUME NEW rows, NEW S \in SUBSET Orders, \A o \in S : rows[o].sale \in Catalog,
         NEW I, AreItems(I, rows, S)
  PROVE  /\ Sums!IsFiniteSet(I)
         /\ \A i \in I : i[2].total \in Nat /\ Sums!IsFiniteSet(CategoriesOf[i[2].product])
         /\ ItemsTotal(I) + (ShippingOf(rows, S) - DiscountsOf(rows, S)) = GrossOf(rows, S)
<1>1. PICK group : group = [o \in S |-> {i \in I : i[1] = o}]
  OBVIOUS
<1>2. ASSUME NEW o \in S
      PROVE  /\ \A i : i \in group[o] <=> \E line \in rows[o].sale.lines : i = <<o, line>>
             /\ group[o] \in SUBSET I
  BY <1>1 DEF AreItems
<1>3. ASSUME NEW o \in S
      PROVE  Sums!IsFiniteSet(rows[o].sale.lines) /\ \A line \in rows[o].sale.lines : line.total \in Nat
  BY SaleTotals, ReportsAssumption
<1>4. ASSUME NEW o \in S PROVE Sums!IsFiniteSet(group[o])
  <2>1. PICK L, D : L = rows[o].sale.lines /\ D = group[o]
    OBVIOUS
  <2>2. PICK pair : pair = [line \in L |-> <<o, line>>]
    OBVIOUS
  <2>3. \A i \in D : \E line \in L : i = pair[line]
    BY <1>2, <2>1, <2>2
  <2>4. Sums!IsFiniteSet(L)
    BY <1>3, <2>1
  <2> QED BY <2>1, <2>3, <2>4, KeysFinite
<1>5. Sums!IsFiniteSet(S)
  BY Finite, Sums!FS_Subset
<1>6. Sums!IsFiniteSet(I)
  <2>1. PICK W : W = {group[o] : o \in S}
    OBVIOUS
  <2>2. Sums!IsFiniteSet(W)
    BY <1>5, <2>1, KeysFinite
  <2>3. \A T \in W : Sums!IsFiniteSet(T)
    BY <1>4, <2>1
  <2>4. I = UNION W
    BY <1>2, <2>1 DEF AreItems
  <2> QED BY <2>2, <2>3, <2>4, Sums!FS_UNION
<1>7. \A i \in I : i[2].total \in Nat /\ Sums!IsFiniteSet(CategoriesOf[i[2].product])
  <2> SUFFICES ASSUME NEW i \in I
               PROVE  i[2].total \in Nat /\ Sums!IsFiniteSet(CategoriesOf[i[2].product])
    OBVIOUS
  <2>1. PICK o \in S : \E line \in rows[o].sale.lines : i = <<o, line>>
    BY DEF AreItems
  <2>2. PICK line \in rows[o].sale.lines : i = <<o, line>>
    BY <2>1
  <2>3. line.total \in Nat /\ IsFiniteSet(CategoriesOf[line.product])
    BY ReportsAssumption
  <2> QED BY <2>2, <2>3, Finite
<1>8. PICK f : f = [i \in I |-> i[2].total]
  OBVIOUS
<1>9. \A i \in I : f[i] = i[2].total /\ f[i] \in Nat
  BY <1>7, <1>8
<1>10. PICK g : g = [o \in S |-> LinesTotal(rows[o].sale.lines)]
  OBVIOUS
<1>11. ASSUME NEW o \in S PROVE g[o] = Sums!SumOf(f, group[o])
  <2>1. PICK L, D : L = rows[o].sale.lines /\ D = group[o]
    OBVIOUS
  <2>2. PICK a : a = [line \in L |-> line.total]
    OBVIOUS
  <2>3. Sums!IsFiniteSet(L) /\ \A line \in L : a[line] = line.total /\ a[line] \in Nat
    BY <1>3, <2>1, <2>2
  <2>4. g[o] = Sums!SumOf(a, L)
    BY <1>10, <2>1, <2>3, LinesTotalIsSum
  <2>5. PICK key : key = [i \in D |-> i[2]]
    OBVIOUS
  <2>6. PICK single : single = [line \in L |-> {<<o, line>>}]
    OBVIOUS
  <2>7. \A i \in D : \E line \in L : i = <<o, line>> /\ key[i] = line
    BY <1>2, <2>1, <2>5
  <2>8. ASSUME NEW line \in L
        PROVE  /\ single[line] \in SUBSET D
               /\ \A i \in D : i \in single[line] <=> key[i] = line
               /\ a[line] = Sums!SumOf(f, single[line])
    <3>1. <<o, line>> \in D /\ <<o, line>> \in I
      BY <1>2, <2>1
    <3>2. PICK i : i = <<o, line>>
      OBVIOUS
    <3>3. single[line] = {i}
      BY <2>6, <3>2
    <3>4. \A x \in D : x \in single[line] <=> key[x] = line
      BY <2>7, <3>2, <3>3
    <3>5. f[i] = a[line] /\ f[i] \in Nat
      BY <1>9, <2>3, <3>1, <3>2
    <3>6. Sums!SumOf(f, {i}) = f[i] + Sums!SumOf(f, {i} \ {i})
      <4>1. PICK Z : Z = {i}
        OBVIOUS
      <4>2. Sums!IsFiniteSet(Z) /\ i \in Z
        BY <4>1, Sums!FS_Singleton
      <4>3. \A x \in Z : f[x] \in Int
        BY <3>5, <4>1
      <4>4. Sums!SumOf(f, Z) = f[i] + Sums!SumOf(f, Z \ {i})
        BY <4>2, <4>3, Sums!SumRemove
      <4> QED BY <4>1, <4>4
    <3>7. Sums!SumOf(f, {i} \ {i}) = 0
      <4>1. {i} \ {i} = {}
        OBVIOUS
      <4> QED BY <4>1, Sums!SumEmpty
    <3> QED BY <3>1, <3>2, <3>3, <3>4, <3>5, <3>6, <3>7
  <2>9. Sums!IsFiniteSet(D) /\ \A i \in D : f[i] \in Nat /\ key[i] \in L
    BY <1>2, <1>4, <1>9, <2>1, <2>7
  <2>10. Sums!SumOf(a, L) = Sums!SumOf(f, D)
    BY <2>3, <2>8, <2>9, Sums!SumByKey
  <2> QED BY <2>1, <2>4, <2>10
<1>12. Sums!SumOf(g, S) = Sums!SumOf(f, I)
  <2>1. PICK key : key = [i \in I |-> i[1]]
    OBVIOUS
  <2>2. \A i \in I : key[i] \in S /\ f[i] \in Nat
    BY <1>9, <2>1 DEF AreItems
  <2>3. \A o \in S : group[o] \in SUBSET I /\ \A i \in I : i \in group[o] <=> key[i] = o
    BY <1>1, <2>1
  <2> QED BY <1>5, <1>6, <1>11, <2>2, <2>3, Sums!SumByKey
<1>13. ItemsTotal(I) = Sums!SumOf(f, I)
  BY <1>6, <1>9, ItemsTotalIsSum
<1>14. Sums!SumOf(g, S) + (ShippingOf(rows, S) - DiscountsOf(rows, S)) = GrossOf(rows, S)
  <2>1. \A o \in S : g[o] = LinesTotal(rows[o].sale.lines)
    BY <1>10
  <2> QED BY <2>1, GrossParts
<1> QED BY <1>6, <1>7, <1>12, <1>13, <1>14

\* Items that are grouped by a key that each of them has.
LEMMA ItemsByKey ==
  ASSUME NEW rows, NEW S \in SUBSET Orders, \A o \in S : rows[o].sale \in Catalog,
         NEW I, AreItems(I, rows, S),
         NEW R, NEW key, \A i \in I : key[i] \in DOMAIN R,
         \A k \in DOMAIN R : \E i \in I : k = key[i],
         NEW group, \A k \in DOMAIN R : group[k] \in SUBSET I /\ \A i \in I : i \in group[k] <=> key[i] = k,
         \A k \in DOMAIN R : R[k] = ItemsTotal(group[k])
  PROVE  Sum(R) + (ShippingOf(rows, S) - DiscountsOf(rows, S)) = GrossOf(rows, S)
<1>1. PICK f : f = [i \in I |-> i[2].total]
  OBVIOUS
<1>2. /\ Sums!IsFiniteSet(I) /\ \A i \in I : i[2].total \in Nat
      /\ ItemsTotal(I) + (ShippingOf(rows, S) - DiscountsOf(rows, S)) = GrossOf(rows, S)
  BY ItemsSum
<1>3. \A i \in I : f[i] = i[2].total
  BY <1>1
<1>4. ItemsTotal(I) = Sums!SumOf(f, I)
  BY <1>2, <1>3, ItemsTotalIsSum
<1>5. ASSUME NEW k \in DOMAIN R PROVE R[k] = Sums!SumOf(f, group[k])
  <2>1. PICK T : T = group[k]
    OBVIOUS
  <2>2. T \in SUBSET I /\ R[k] = ItemsTotal(T)
    BY <2>1
  <2>3. Sums!IsFiniteSet(T) /\ \A i \in T : f[i] = i[2].total
    BY <1>2, <1>3, <2>2, Sums!FS_Subset
  <2>4. ItemsTotal(T) = Sums!SumOf(f, T)
    BY <2>3, ItemsTotalIsSum
  <2> QED BY <2>1, <2>2, <2>4
<1>6. \A i \in I : f[i] \in Nat
  BY <1>2, <1>3
<1>7. Sums!IsFiniteSet(DOMAIN R)
  BY <1>2, KeysFinite
<1>8. Sums!SumOf(R, DOMAIN R) = Sums!SumOf(f, I)
  BY <1>2, <1>5, <1>6, <1>7, Sums!SumByKey
<1> QED BY <1>2, <1>4, <1>8, ReportIsSum

LEMMA ProductsTold ==
  ASSUME NEW range, NEW l, NEW I, I = LinesSold(range, l)
  PROVE  /\ \A k : k \in DOMAIN SalesByProduct(range, l) <=> \E i \in I : k = i[2].product
         /\ \A k \in DOMAIN SalesByProduct(range, l) : SalesByProduct(range, l)[k] = ItemsTotal({i \in I : i[2].product = k})
<1>1. /\ DOMAIN SalesByProduct(range, l) = {i[2].product : i \in LinesSold(range, l)}
      /\ \A k \in DOMAIN SalesByProduct(range, l) : SalesByProduct(range, l)[k] = ItemsTotal({i \in LinesSold(range, l) : i[2].product = k})
  BY DEF SalesByProduct, GroupBy, ItemsTotal, MapThenSumSet, MapThenFoldSet
<1> QED BY <1>1

LEMMA ProductsReconcile ==
  ASSUME order \in [Orders -> OrderRows], NEW range, NEW l
  PROVE  Sum(SalesByProduct(range, l)) + (TotalShipping(range, l) - TotalDiscounts(range, l))
           = Gross(range, l)
<1>1. PICK S, I, R : S = Sold(range, l) /\ I = LinesSold(range, l) /\ R = SalesByProduct(range, l)
  OBVIOUS
<1>2. S \in SUBSET Orders /\ \A o \in S : order[o].sale \in Catalog
  BY <1>1, SoldExist
<1>3. AreItems(I, order, S)
  BY <1>1, ItemsOfOrders
<1>4. /\ \A k : k \in DOMAIN R <=> \E i \in I : k = i[2].product
      /\ \A k \in DOMAIN R : R[k] = ItemsTotal({i \in I : i[2].product = k})
  BY <1>1, ProductsTold
<1>5. PICK key : key = [i \in I |-> i[2].product]
  OBVIOUS
<1>6. PICK group : group = [k \in DOMAIN R |-> {i \in I : i[2].product = k}]
  OBVIOUS
<1>7. \A i \in I : key[i] = i[2].product /\ key[i] \in DOMAIN R
  BY <1>4, <1>5
<1>8. \A k \in DOMAIN R : group[k] \in SUBSET I /\ \A i \in I : i \in group[k] <=> key[i] = k
  BY <1>6, <1>7
<1>9. \A k \in DOMAIN R : R[k] = ItemsTotal(group[k])
  BY <1>4, <1>6
<1>10. \A k \in DOMAIN R : \E i \in I : k = key[i]
  BY <1>4, <1>7
<1>11. Sum(R) + (ShippingOf(order, S) - DiscountsOf(order, S)) = GrossOf(order, S)
  BY <1>2, <1>3, <1>7, <1>8, <1>9, <1>10, ItemsByKey
<1> QED BY <1>1, <1>11, TheSums

LEMMA TaxesTold ==
  ASSUME NEW range, NEW l, NEW I, I = LinesSold(range, l)
  PROVE  /\ \A k : k \in DOMAIN TaxSummary(range, l) <=> \E i \in I : k = i[2].taxRate
         /\ \A k \in DOMAIN TaxSummary(range, l) : TaxSummary(range, l)[k] = ItemsTotal({i \in I : i[2].taxRate = k})
<1>1. /\ DOMAIN TaxSummary(range, l) = {i[2].taxRate : i \in LinesSold(range, l)}
      /\ \A k \in DOMAIN TaxSummary(range, l) : TaxSummary(range, l)[k] = ItemsTotal({i \in LinesSold(range, l) : i[2].taxRate = k})
  BY DEF TaxSummary, GroupBy, ItemsTotal, MapThenSumSet, MapThenFoldSet
<1> QED BY <1>1

LEMMA TaxesReconcile ==
  ASSUME order \in [Orders -> OrderRows], NEW range, NEW l
  PROVE  Sum(TaxSummary(range, l)) + (TotalShipping(range, l) - TotalDiscounts(range, l))
           = Gross(range, l)
<1>1. PICK S, I, R : S = Sold(range, l) /\ I = LinesSold(range, l) /\ R = TaxSummary(range, l)
  OBVIOUS
<1>2. S \in SUBSET Orders /\ \A o \in S : order[o].sale \in Catalog
  BY <1>1, SoldExist
<1>3. AreItems(I, order, S)
  BY <1>1, ItemsOfOrders
<1>4. /\ \A k : k \in DOMAIN R <=> \E i \in I : k = i[2].taxRate
      /\ \A k \in DOMAIN R : R[k] = ItemsTotal({i \in I : i[2].taxRate = k})
  BY <1>1, TaxesTold
<1>5. PICK key : key = [i \in I |-> i[2].taxRate]
  OBVIOUS
<1>6. PICK group : group = [k \in DOMAIN R |-> {i \in I : i[2].taxRate = k}]
  OBVIOUS
<1>7. \A i \in I : key[i] = i[2].taxRate /\ key[i] \in DOMAIN R
  BY <1>4, <1>5
<1>8. \A k \in DOMAIN R : group[k] \in SUBSET I /\ \A i \in I : i \in group[k] <=> key[i] = k
  BY <1>6, <1>7
<1>9. \A k \in DOMAIN R : R[k] = ItemsTotal(group[k])
  BY <1>4, <1>6
<1>10. \A k \in DOMAIN R : \E i \in I : k = key[i]
  BY <1>4, <1>7
<1>11. Sum(R) + (ShippingOf(order, S) - DiscountsOf(order, S)) = GrossOf(order, S)
  BY <1>2, <1>3, <1>7, <1>8, <1>9, <1>10, ItemsByKey
<1> QED BY <1>1, <1>11, TheSums

LEMMA CategoriesTold ==
  ASSUME NEW range, NEW l, NEW I, I = LinesSold(range, l)
  PROVE  /\ \A c : c \in DOMAIN SalesByCategory(range, l)
                     <=> \E i \in I : c \in CategoriesOf[i[2].product]
         /\ \A c \in DOMAIN SalesByCategory(range, l) :
              SalesByCategory(range, l)[c] = ItemsTotal({i \in I : c \in CategoriesOf[i[2].product]})
<1>1. /\ DOMAIN SalesByCategory(range, l) = UNION {CategoriesOf[i[2].product] : i \in LinesSold(range, l)}
      /\ \A c \in DOMAIN SalesByCategory(range, l) :
           SalesByCategory(range, l)[c]
             = ItemsTotal({i \in LinesSold(range, l) : c \in CategoriesOf[i[2].product]})
  BY DEF SalesByCategory, ItemsTotal, MapThenSumSet, MapThenFoldSet
<1> QED BY <1>1

\* Categories overlap: an item counts as often as it has categories.
LEMMA CategoriesReconcile ==
  ASSUME order \in [Orders -> OrderRows], NEW range, NEW l
  PROVE  Sum(SalesByCategory(range, l)) = CountedTotal(LinesSold(range, l))
<1>1. PICK S, I, R : S = Sold(range, l) /\ I = LinesSold(range, l) /\ R = SalesByCategory(range, l)
  OBVIOUS
<1>2. S \in SUBSET Orders /\ \A o \in S : order[o].sale \in Catalog
  BY <1>1, SoldExist
<1>3. AreItems(I, order, S)
  BY <1>1, ItemsOfOrders
<1>4. /\ \A c : c \in DOMAIN R <=> \E i \in I : c \in CategoriesOf[i[2].product]
      /\ \A c \in DOMAIN R : R[c] = ItemsTotal({i \in I : c \in CategoriesOf[i[2].product]})
  BY <1>1, CategoriesTold
<1>5. Sums!IsFiniteSet(I) /\ \A i \in I : i[2].total \in Nat /\ Sums!IsFiniteSet(CategoriesOf[i[2].product])
  BY <1>2, <1>3, ItemsSum
<1>6. PICK f, groups : f = [i \in I |-> i[2].total] /\ groups = [i \in I |-> CategoriesOf[i[2].product]]
  OBVIOUS
<1>7. PICK group : group = [c \in DOMAIN R |-> {i \in I : c \in groups[i]}]
  OBVIOUS
<1>8. PICK h : h = [i \in I |-> i[2].total * Cardinality(CategoriesOf[i[2].product])]
  OBVIOUS
<1>9. \A i \in I : f[i] = i[2].total /\ f[i] \in Nat /\ groups[i] = CategoriesOf[i[2].product]
  BY <1>5, <1>6
<1>10. \A i \in I : groups[i] \in SUBSET DOMAIN R
  BY <1>4, <1>9
<1>11. \A c \in DOMAIN R : group[c] \in SUBSET I /\ \A i \in I : i \in group[c] <=> c \in groups[i]
  BY <1>7
<1>12. ASSUME NEW c \in DOMAIN R PROVE R[c] = Sums!SumOf(f, group[c])
  <2>1. PICK T : T = group[c]
    OBVIOUS
  <2>2. T = {i \in I : c \in CategoriesOf[i[2].product]}
    BY <1>7, <1>9, <2>1
  <2>3. R[c] = ItemsTotal(T)
    BY <1>4, <2>2
  <2>4. Sums!IsFiniteSet(T) /\ \A i \in T : f[i] = i[2].total
    BY <1>5, <1>9, <2>2, Sums!FS_Subset
  <2>5. ItemsTotal(T) = Sums!SumOf(f, T)
    BY <2>4, ItemsTotalIsSum
  <2> QED BY <2>1, <2>3, <2>5
<1>13. Sums!IsFiniteSet(DOMAIN R)
  <2>1. PICK W : W = {groups[i] : i \in I}
    OBVIOUS
  <2>2. Sums!IsFiniteSet(W)
    BY <1>5, <2>1, KeysFinite
  <2>3. \A T \in W : Sums!IsFiniteSet(T)
    BY <1>5, <1>9, <2>1
  <2>4. DOMAIN R = UNION W
    <3>1. \A c : c \in DOMAIN R <=> \E T \in W : c \in T
      BY <1>4, <1>9, <2>1
    <3> QED BY <3>1
  <2> QED BY <2>2, <2>3, <2>4, Sums!FS_UNION
<1>14. \A i \in I : h[i] = f[i] * Sums!Cardinality(groups[i])
  <2> SUFFICES ASSUME NEW i \in I PROVE h[i] = f[i] * Sums!Cardinality(groups[i])
    OBVIOUS
  <2>1. h[i] = i[2].total * Cardinality(CategoriesOf[i[2].product])
    BY <1>8
  <2>2. Sums!Cardinality(groups[i]) = Cardinality(CategoriesOf[i[2].product])
    BY <1>9, Finite
  <2> QED BY <1>9, <2>1, <2>2
<1>15. \A i \in I : f[i] \in Nat
  BY <1>9
<1>16. Sums!SumOf(R, DOMAIN R) = Sums!SumOf(h, I)
  <2>1. PICK K : K = DOMAIN R
    OBVIOUS
  <2>2. Sums!IsFiniteSet(K) /\ Sums!IsFiniteSet(I)
    BY <1>5, <1>13, <2>1
  <2>3. \A i \in I : groups[i] \in SUBSET K
    BY <1>10, <2>1
  <2>4. \A c \in K : group[c] \in SUBSET I /\ \A i \in I : i \in group[c] <=> c \in groups[i]
    BY <1>11, <2>1
  <2>5. \A c \in K : R[c] = Sums!SumOf(f, group[c])
    BY <1>12, <2>1
  <2>6. Sums!SumOf(R, K) = Sums!SumOf(h, I)
    BY <1>14, <1>15, <2>2, <2>3, <2>4, <2>5, Sums!SumGroups
  <2> QED BY <2>1, <2>6
<1>17. CountedTotal(I) = Sums!SumOf(h, I)
  <2>1. \A i \in I : h[i] = i[2].total * Cardinality(CategoriesOf[i[2].product])
    BY <1>8
  <2> QED BY <1>5, <2>1, CountedTotalIsSum
<1> QED BY <1>1, <1>16, <1>17, ReportIsSum

-----------------------------------------------------------------------------
(* The customers who spent most, and what was refunded with each method.   *)

\* Some element of a finite set has the highest value.
LEMMA MostExists ==
  ASSUME NEW S, Sums!IsFiniteSet(S), S # {}, NEW f, \A x \in S : f[x] \in Nat
  PROVE  \E m \in S : \A x \in S : f[m] >= f[x]
<1> DEFINE P == {s \in SUBSET S : s # {} => \E m \in s : \A x \in s : f[m] >= f[x]}
<1>1. {} \in P
  OBVIOUS
<1>2. \A s \in SUBSET S : s # {} /\ s \ {Sums!AnyOf(s)} \in P => s \in P
  <2> SUFFICES ASSUME NEW s \in SUBSET S, s # {}, s \ {Sums!AnyOf(s)} \in P
               PROVE  \E m \in s : \A x \in s : f[m] >= f[x]
    OBVIOUS
  <2>1. PICK y : y = Sums!AnyOf(s)
    OBVIOUS
  <2>2. y \in s
    BY <2>1 DEF Sums!AnyOf
  <2>3. CASE s \ {y} = {}
    BY <2>2, <2>3
  <2>4. CASE s \ {y} # {}
    <3>1. PICK m \in s \ {y} : \A x \in s \ {y} : f[m] >= f[x]
      BY <2>1, <2>4
    <3>2. CASE f[m] >= f[y]
      BY <2>2, <3>1, <3>2
    <3>3. CASE ~(f[m] >= f[y])
      <4>1. f[y] >= f[m] /\ f[m] \in Nat /\ f[y] \in Nat
        BY <2>2, <3>1, <3>3
      <4>2. \A x \in s \ {y} : f[x] \in Nat
        OBVIOUS
      <4>3. \A x \in s : f[y] >= f[x]
        BY <3>1, <4>1, <4>2
      <4> QED BY <2>2, <4>3
    <3> QED BY <3>2, <3>3
  <2> QED BY <2>3, <2>4
<1>3. P = SUBSET S
  <2> HIDE DEF P
  <2>1. P \in SUBSET SUBSET S
    BY DEF P
  <2> QED BY <1>1, <1>2, <2>1, Sums!SetInduction
<1>4. S \in P
  BY <1>3
<1> QED BY <1>4

\* So there are the n elements with the highest values.
LEMMA TopExists ==
  ASSUME NEW S, Sums!IsFiniteSet(S), NEW f, \A x \in S : f[x] \in Nat,
         NEW n \in Nat, n <= Sums!Cardinality(S)
  PROVE  \E C \in SUBSET S : /\ Sums!Cardinality(C) = n
                             /\ \A c \in C, d \in S \ C : f[c] >= f[d]
<1> DEFINE Tops(k) == {C \in SUBSET S : /\ Sums!Cardinality(C) = k
                                        /\ \A c \in C, d \in S \ C : f[c] >= f[d]}
           T == {k \in Nat : k <= Sums!Cardinality(S) => Tops(k) # {}}
<1>1. 0 \in T
  <2>1. {} \in Tops(0)
    BY Sums!FS_EmptySet
  <2> QED BY <2>1
<1>2. \A k \in T : k + 1 \in T
  <2> SUFFICES ASSUME NEW k \in T, k + 1 <= Sums!Cardinality(S) PROVE Tops(k + 1) # {}
    OBVIOUS
  <2>1. Sums!Cardinality(S) \in Nat /\ k \in Nat
    BY Sums!FS_CardinalityType
  <2>2. PICK C : C \in Tops(k)
    BY <2>1
  <2>3. Sums!IsFiniteSet(C) /\ C \in SUBSET S /\ Sums!IsFiniteSet(S \ C)
    BY <2>2, Sums!FS_Subset
  <2>4. S \ C # {}
    BY <2>1, <2>2, <2>3
  <2>5. PICK m \in S \ C : \A x \in S \ C : f[m] >= f[x]
    BY <2>3, <2>4, MostExists
  <2>6. Sums!Cardinality(C \cup {m}) = k + 1
    BY <2>2, <2>3, <2>5, Sums!FS_AddElement
  <2>7. \A c \in C \cup {m}, d \in S \ (C \cup {m}) : f[c] >= f[d]
    BY <2>2, <2>5
  <2>8. C \cup {m} \in Tops(k + 1)
    BY <2>3, <2>5, <2>6, <2>7
  <2> QED BY <2>8
<1>3. T = Nat
  <2> HIDE DEF T
  <2>1. T \in SUBSET Nat
    BY DEF T
  <2> QED BY <1>1, <1>2, <2>1, Sums!NatSetInduction
<1>4. n \in T
  BY <1>3
<1> QED BY <1>4

\* The orders with a customer, what each spent, and who spent most.
Known(range) == {o \in Sold(range, Anywhere) : order[o].sale.customer # Everyone}
Spent(range) == GroupBy(Known(range), LAMBDA o : order[o].sale.customer, Total)
AreTop(C, spent) ==
  /\ Cardinality(C) = Min({Limit, Cardinality(DOMAIN spent)})
  /\ \A c \in C, d \in DOMAIN spent \ C : spent[c] >= spent[d]

LEMMA SpentTold ==
  ASSUME NEW range, NEW S, S = Known(range)
  PROVE  /\ \A k : k \in DOMAIN Spent(range) <=> \E o \in S : k = order[o].sale.customer
         /\ \A k \in DOMAIN Spent(range) :
              Spent(range)[k] = GrossOf(order, {o \in S : order[o].sale.customer = k})
<1>1. /\ DOMAIN Spent(range) = {order[o].sale.customer : o \in Known(range)}
      /\ \A k \in DOMAIN Spent(range) :
           Spent(range)[k] = GrossOf(order, {o \in Known(range) : order[o].sale.customer = k})
  BY DEF Spent, GroupBy, GrossOf, Total, Subtotal, MapThenSumSet, MapThenFoldSet
<1> QED BY <1>1

LEMMA TopTold ==
  ASSUME NEW range, NEW spent, spent = Spent(range)
  PROVE  TopCustomers(range) = [c \in (CHOOSE C \in SUBSET DOMAIN spent : AreTop(C, spent)) |-> spent[c]]
BY DEF TopCustomers, Spent, Known, AreTop

\* The list of customers tells part of what was sold, and there is such a list.
LEMMA CustomersReconcile ==
  ASSUME order \in [Orders -> OrderRows], NEW range,
         \A o \in Sold(range, Anywhere) : Total(o) >= 0
  PROVE  Sum(TopCustomers(range)) <= Gross(range, Anywhere)
<1>1. PICK A, S, R : A = Sold(range, Anywhere) /\ S = Known(range) /\ R = Spent(range)
  OBVIOUS
<1>2. A \in SUBSET Orders /\ S \in SUBSET A /\ \A o \in A : order[o].sale \in Catalog
  BY <1>1, SoldExist DEF Known
<1>3. /\ \A k : k \in DOMAIN R <=> \E o \in S : k = order[o].sale.customer
      /\ \A k \in DOMAIN R : R[k] = GrossOf(order, {o \in S : order[o].sale.customer = k})
  BY <1>1, SpentTold
<1>4. PICK key : key = [o \in S |-> order[o].sale.customer]
  OBVIOUS
<1>5. PICK group : group = [k \in DOMAIN R |-> {o \in S : order[o].sale.customer = k}]
  OBVIOUS
<1>6. \A o \in S : key[o] = order[o].sale.customer /\ key[o] \in DOMAIN R
  BY <1>3, <1>4
<1>7. \A k \in DOMAIN R : group[k] \in SUBSET S /\ \A o \in S : o \in group[k] <=> key[o] = k
  BY <1>5, <1>6
<1>8. \A k \in DOMAIN R : R[k] = GrossOf(order, group[k])
  BY <1>3, <1>5
<1>9. Sums!IsFiniteSet(DOMAIN R)
  <2>1. \A k \in DOMAIN R : \E o \in S : k = key[o]
    BY <1>3, <1>6
  <2>2. Sums!IsFiniteSet(S)
    BY <1>2, Finite, Sums!FS_Subset
  <2> QED BY <2>1, <2>2, KeysFinite
<1>10. /\ S \in SUBSET Orders /\ \A o \in S : order[o].sale \in Catalog
       /\ \A o \in A : SaleTotal(order[o].sale) >= 0
  <2>1. \A o \in A : Total(o) = SaleTotal(order[o].sale)
    BY DEF Total, Subtotal, SaleTotal, LinesTotal, MapThenSumSet, MapThenFoldSet
  <2> QED BY <1>1, <1>2, <2>1
<1>11. Sum(R) = GrossOf(order, S)
  BY <1>6, <1>7, <1>8, <1>9, <1>10, OrdersByKey
<1>12. \A k \in DOMAIN R : R[k] \in Nat
  <2> SUFFICES ASSUME NEW k \in DOMAIN R PROVE R[k] \in Nat
    OBVIOUS
  <2>1. PICK T : T = group[k]
    OBVIOUS
  <2>2. /\ T \in SUBSET Orders /\ \A o \in T : order[o].sale \in Catalog
        /\ \A o \in T : SaleTotal(order[o].sale) >= 0
    BY <1>2, <1>7, <1>10, <2>1
  <2>3. GrossOf(order, T) \in Nat
    BY <2>2, GrossNat
  <2> QED BY <1>8, <2>1, <2>3
<1>13. GrossOf(order, S) <= GrossOf(order, A)
  <2>1. PICK f : f = [o \in A |-> SaleTotal(order[o].sale)]
    OBVIOUS
  <2>2. \A o \in A : f[o] = SaleTotal(order[o].sale) /\ f[o] \in Nat
    BY <1>2, <1>10, <2>1, SaleTotals
  <2>3. Sums!IsFiniteSet(A) /\ Sums!IsFiniteSet(S)
    BY <1>2, Finite, Sums!FS_Subset
  <2>4. GrossOf(order, A) = Sums!SumOf(f, A)
    BY <2>2, <2>3, GrossIsSum
  <2>5. \A o \in S : f[o] = SaleTotal(order[o].sale)
    BY <1>2, <2>2
  <2>6. GrossOf(order, S) = Sums!SumOf(f, S)
    BY <2>3, <2>5, GrossIsSum
  <2>7. \A o \in A : f[o] \in Nat
    BY <2>2
  <2>8. Sums!SumOf(f, S) <= Sums!SumOf(f, A)
    BY <1>2, <2>3, <2>7, Sums!SumPart
  <2> QED BY <2>4, <2>6, <2>8
<1>14. PICK top : top = CHOOSE C \in SUBSET DOMAIN R : AreTop(C, R)
  OBVIOUS
<1>15. top \in SUBSET DOMAIN R
  <2>1. PICK n : n = Min({Limit, Cardinality(DOMAIN R)})
    OBVIOUS
  <2>2. Sums!Cardinality(DOMAIN R) = Cardinality(DOMAIN R) /\ Sums!Cardinality(DOMAIN R) \in Nat
    BY <1>9, Finite, Sums!FS_CardinalityType
  <2>3. n \in Nat /\ n <= Sums!Cardinality(DOMAIN R)
    <3>1. PICK a, b : a = Limit /\ b = Cardinality(DOMAIN R)
      OBVIOUS
    <3>2. a \in Nat /\ b \in Nat
      BY <2>2, <3>1, ReportsAssumption
    <3>3. n \in {a, b} /\ n <= b
      <4>1. \E x \in {a, b} : \A y \in {a, b} : x <= y
        BY <3>2
      <4>2. n = CHOOSE x \in {a, b} : \A y \in {a, b} : x <= y
        BY <2>1, <3>1 DEF Min
      <4> QED BY <4>1, <4>2
    <3> QED BY <2>2, <3>1, <3>2, <3>3
  <2>4. PICK C \in SUBSET DOMAIN R : /\ Sums!Cardinality(C) = n
                                     /\ \A c \in C, d \in DOMAIN R \ C : R[c] >= R[d]
    BY <1>9, <1>12, <2>3, TopExists
  <2>5. AreTop(C, R)
    <3>1. Cardinality(C) = n
      BY <2>4, Finite
    <3> QED BY <2>1, <2>4, <3>1 DEF AreTop
  <2> QED BY <1>14, <2>5
<1>16. PICK L : L = TopCustomers(range)
  OBVIOUS
<1>17. L = [c \in top |-> R[c]]
  BY <1>1, <1>14, <1>16, TopTold
<1>18. Sum(L) <= Sum(R)
  <2>1. DOMAIN L = top /\ Sums!IsFiniteSet(top)
    BY <1>9, <1>15, <1>17, Sums!FS_Subset
  <2>2. \A c \in top : L[c] = R[c] /\ L[c] \in Nat /\ R[c] \in Nat
    BY <1>12, <1>15, <1>17
  <2>3. \A c \in top : L[c] \in Nat /\ R[c] \in Nat /\ L[c] <= R[c]
    BY <2>2
  <2>4. Sums!SumOf(L, top) <= Sums!SumOf(R, top)
    BY <2>1, <2>3, Sums!SumMonotone
  <2>5. Sums!SumOf(R, top) <= Sums!SumOf(R, DOMAIN R)
    BY <1>9, <1>12, <1>15, Sums!SumPart
  <2>6. Sums!SumOf(L, top) \in Nat /\ Sums!SumOf(R, top) \in Nat /\ Sums!SumOf(R, DOMAIN R) \in Nat
    BY <1>9, <1>12, <2>1, <2>2, Sums!SumType
  <2>7. Sum(L) = Sums!SumOf(L, top) /\ Sum(R) = Sums!SumOf(R, DOMAIN R)
    BY <2>1, ReportIsSum
  <2> QED BY <2>4, <2>5, <2>6, <2>7
<1>19. Gross(range, Anywhere) = GrossOf(order, A)
  BY <1>1, TheSums
<1>20. Sum(L) \in Int /\ GrossOf(order, S) \in Nat /\ GrossOf(order, A) \in Nat
  <2>1. GrossOf(order, S) \in Nat /\ GrossOf(order, A) \in Nat
    <3>1. \A o \in S : SaleTotal(order[o].sale) >= 0
      BY <1>2, <1>10
    <3> QED BY <1>2, <1>10, <3>1, GrossNat
  <2>2. DOMAIN L = top /\ Sums!IsFiniteSet(top) /\ \A c \in top : L[c] \in Nat
    BY <1>9, <1>12, <1>15, <1>17, Sums!FS_Subset
  <2>3. Sums!SumOf(L, top) \in Nat
    BY <2>2, Sums!SumType
  <2> QED BY <2>1, <2>2, <2>3, ReportIsSum
<1> QED BY <1>11, <1>13, <1>16, <1>18, <1>19, <1>20

\* The orders paid at the checkout.
Paid(range) ==
  {o \in Orders : /\ order[o] # None /\ order[o].sale.method # "none"
                  /\ Within(range, Day(order[o].created))}

LEMMA MethodsTold ==
  ASSUME NEW range, NEW S, S = Paid(range), NEW B, B = Back(range)
  PROVE  /\ \A m : m \in DOMAIN PaymentMethods(range) <=> \E o \in S : m = order[o].sale.method
         /\ \A m \in DOMAIN PaymentMethods(range) :
              PaymentMethods(range)[m].refund = RefundedOf(refund, {f \in B : refund[f].method = m})
<1>1. /\ DOMAIN PaymentMethods(range) = {order[o].sale.method : o \in Paid(range)}
      /\ \A m \in DOMAIN PaymentMethods(range) :
           PaymentMethods(range)[m].refund = RefundedOf(refund, {f \in Back(range) : refund[f].method = m})
  BY DEF PaymentMethods, Paid, Back, RefundedOf, MapThenSumSet, MapThenFoldSet
<1> QED BY <1>1

LEMMA RefundsReconcile ==
  ASSUME refund \in [Refunds -> RefundRows], NEW range
  PROVE  ListedRefunds(PaymentMethods(range), DOMAIN PaymentMethods(range)) <= Refunded(range)
<1>1. PICK S, B, R : S = Paid(range) /\ B = Back(range) /\ R = PaymentMethods(range)
  OBVIOUS
<1>2. /\ \A m : m \in DOMAIN R <=> \E o \in S : m = order[o].sale.method
      /\ \A m \in DOMAIN R : R[m].refund = RefundedOf(refund, {f \in B : refund[f].method = m})
  BY <1>1, MethodsTold
<1>3. B \in SUBSET Refunds /\ \A f \in B : refund[f].amount \in Nat
  BY <1>1, ReportsAssumption DEF Back, RefundRows
<1>4. Sums!IsFiniteSet(B) /\ Sums!IsFiniteSet(S)
  BY <1>1, <1>3, Finite, Sums!FS_Subset DEF Paid
<1>5. PICK a : a = [f \in B |-> refund[f].amount]
  OBVIOUS
<1>6. \A f \in B : a[f] = refund[f].amount /\ a[f] \in Nat
  BY <1>3, <1>5
<1>7. PICK U : U = {f \in B : refund[f].method \in DOMAIN R}
  OBVIOUS
<1>8. PICK key : key = [f \in U |-> refund[f].method]
  OBVIOUS
<1>9. PICK group : group = [m \in DOMAIN R |-> {f \in B : refund[f].method = m}]
  OBVIOUS
<1>10. PICK g : g = [m \in DOMAIN R |-> R[m].refund]
  OBVIOUS
<1>11. U \in SUBSET B /\ Sums!IsFiniteSet(U) /\ \A f \in U : key[f] \in DOMAIN R /\ a[f] \in Nat
  BY <1>4, <1>6, <1>7, <1>8, Sums!FS_Subset
<1>12. \A m \in DOMAIN R : group[m] \in SUBSET U /\ \A f \in U : f \in group[m] <=> key[f] = m
  BY <1>7, <1>8, <1>9
<1>13. ASSUME NEW m \in DOMAIN R PROVE g[m] = Sums!SumOf(a, group[m])
  <2>1. PICK T : T = group[m]
    OBVIOUS
  <2>2. T = {f \in B : refund[f].method = m}
    BY <1>9, <2>1
  <2>3. g[m] = RefundedOf(refund, T)
    BY <1>2, <1>10, <2>2
  <2>4. Sums!IsFiniteSet(T) /\ \A f \in T : a[f] = refund[f].amount
    BY <1>4, <1>6, <2>2, Sums!FS_Subset
  <2>5. RefundedOf(refund, T) = Sums!SumOf(a, T)
    BY <2>4, RefundedIsSum
  <2> QED BY <2>1, <2>3, <2>5
<1>14. Sums!IsFiniteSet(DOMAIN R)
  <2>1. PICK method : method = [o \in S |-> order[o].sale.method]
    OBVIOUS
  <2>2. \A m \in DOMAIN R : \E o \in S : m = method[o]
    BY <1>2, <2>1
  <2> QED BY <1>4, <2>2, KeysFinite
<1>15. Sums!SumOf(g, DOMAIN R) = Sums!SumOf(a, U)
  BY <1>11, <1>12, <1>13, <1>14, Sums!SumByKey
<1>16. ListedRefunds(R, DOMAIN R) = Sums!SumOf(g, DOMAIN R)
  BY <1>10, <1>14, ListedRefundsIsSum
<1>17. \A f \in B : a[f] \in Nat
  BY <1>6
<1>18. Sums!SumOf(a, U) <= Sums!SumOf(a, B)
  BY <1>4, <1>11, <1>17, Sums!SumPart
<1>19. Refunded(range) = Sums!SumOf(a, B)
  <2>1. Refunded(range) = RefundedOf(refund, B)
    BY <1>1, TheSums
  <2>2. RefundedOf(refund, B) = Sums!SumOf(a, B)
    BY <1>4, <1>6, RefundedIsSum
  <2> QED BY <2>1, <2>2
<1> QED BY <1>1, <1>15, <1>16, <1>18, <1>19

\* What BreakdownsReconcile says of one range and one place.
Reconciled(range, l) ==
  /\ Sum(SalesByStaff(range, l)) = Gross(range, l)
  /\ Sum(SalesChart(range, l)) = Gross(range, l)
  /\ Sum(SalesByProduct(range, l)) + (TotalShipping(range, l) - TotalDiscounts(range, l))
       = Gross(range, l)
  /\ Sum(TaxSummary(range, l)) + (TotalShipping(range, l) - TotalDiscounts(range, l))
       = Gross(range, l)
  /\ l # Anywhere => Gross(range, l) = IF l \in DOMAIN SalesByLocation(range)
                                       THEN SalesByLocation(range)[l] ELSE 0
  /\ Sum(SalesByCategory(range, l)) = CountedTotal(LinesSold(range, l))
  /\ Sum(SalesByLocation(range)) = Gross(range, Anywhere)
  /\ (\A o \in Sold(range, Anywhere) : Total(o) >= 0) =>
       Sum(TopCustomers(range)) <= Gross(range, Anywhere)
  /\ ListedRefunds(PaymentMethods(range), DOMAIN PaymentMethods(range)) <= Refunded(range)

LEMMA ReconciledMeans ==
  BreakdownsReconcile <=>
    \A from, to \in {Today - 1, Today}, l \in Places \cup {Anywhere} :
      Reconciled(CustomRange(from, to, Today).current, l)
BY DEF BreakdownsReconcile, Reconciled, CountedTotal, ListedRefunds

\* Every report tells the same sales, whatever was sold, with whatever discount
\* and shipping, and wherever the day of the server and that of the chart begin.
THEOREM BreakdownsAlwaysReconcile == ReportsSpec => []BreakdownsReconcile
<1>1. ReportsInv => BreakdownsReconcile
  <2> SUFFICES ASSUME ReportsInv, NEW from \in {Today - 1, Today}, NEW to \in {Today - 1, Today},
                      NEW l \in Places \cup {Anywhere}
               PROVE  Reconciled(CustomRange(from, to, Today).current, l)
    BY ReconciledMeans
  <2>1. order \in [Orders -> OrderRows] /\ refund \in [Refunds -> RefundRows] /\ Today \in Covered
    BY TypeParts, Covering DEF ReportsInv
  <2>2. from \in Int /\ to \in Int /\ Today \in Nat
    BY <2>1, CoveredFacts
  <2>3. PICK range : range = CustomRange(from, to, Today).current
    OBVIOUS
  <2>4. range.start \in Int /\ range.end \in Int
    <3>1. CustomRange(from, to, Today) \in Ranges
      BY <2>1, <2>2, CustomRangeFacts
    <3> QED BY <2>3, <3>1 DEF Ranges, Spans
  <2>5. Reconciled(range, l)
    BY <2>1, <2>4, StaffReconcile, ChartReconciles, ProductsReconcile, TaxesReconcile, PlaceTold,
       CategoriesReconcile, PlacesReconcile, CustomersReconcile, RefundsReconcile DEF Reconciled
  <2> QED BY <2>3, <2>5
<1> QED BY <1>1, ReportsInvariant, PTL
=============================================================================
