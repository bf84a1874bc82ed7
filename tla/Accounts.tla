------------------------------- MODULE Accounts -------------------------------
(***************************************************************************)
(* The sessions of users: passwords, refresh tokens and password reset     *)
(* links, auth.service.ts, and the deactivation of users, user.service.ts. *)
(*                                                                         *)
(* Every request is a chain of single statements; only the last step of a  *)
(* password reset is a transaction. The state between two statements is    *)
(* what the request has read: the step of a request names the statement it *)
(* performs next. A request may end between any two of them (an error, a   *)
(* restart). Hashes, cookies and access tokens are left out: a token is    *)
(* its row, presented by the client who was given it. A token and a link   *)
(* expire at any time. Roles and locations of users are in AccessControl.  *)
(***************************************************************************)
EXTENDS Integers, FiniteSetsExt

CONSTANTS
  Users,            \* user ids
  MaxTokens,        \* bound: refresh tokens stored
  MaxLinks,         \* bound: reset links stored
  MaxResets,        \* bound: password resets of one user
  Calls             \* requests in flight at the same time

ASSUME AccountsAssumption == {MaxTokens, MaxLinks, MaxResets} \subseteq Nat

Tokens == 1..MaxTokens
Links == 1..MaxLinks

VARIABLES
  active,           \* User.isActive
  password,         \* User.passwordHash: how often it was reset
  token,            \* RefreshToken rows
  link,             \* PasswordResetToken rows
  call,             \* what each request in flight has read
  deleted           \* history: users whose deletion ran to its end

accountsVars == <<active, password, token, link, call, deleted>>

-----------------------------------------------------------------------------

\* What a token vouches for: the password its session was opened with, the
\* token it was exchanged for (0: none), and whether a request overtaken by
\* another one stored it or one of those it descends from.
TokenRow == [state : {"live", "expired", "revoked"}, user : Users,
             password : Nat, parent : Nat, stale : BOOLEAN]
NoToken == [state |-> "none"]

LinkRow == [state : {"unused", "expired", "used", "deleted"}, user : Users, stale : BOOLEAN]
NoLink == [state |-> "none"]

NoCall == [step |-> "idle"]
CallState ==
  {NoCall}
    \cup [step : {"store"}, user : Users, password : Nat, parent : Nat, stale : BOOLEAN]
    \cup [step : {"revoke", "owner", "logout"}, user : Users, password : Nat,
          parent : Tokens, stale : BOOLEAN]
    \cup [step : {"clear", "create"}, user : Users, stale : BOOLEAN]
    \cup [step : {"link", "burn", "reset"}, user : Users, link : Links, stale : BOOLEAN]
    \cup [step : {"end"}, user : Users]

AccountsTypeOK ==
  /\ active \in [Users -> BOOLEAN]
  /\ password \in [Users -> Nat]
  /\ token \in [Tokens -> TokenRow \cup {NoToken}]
  /\ link \in [Links -> LinkRow \cup {NoLink}]
  /\ call \in [Calls -> CallState]
  /\ deleted \in SUBSET Users

Revoked(row) ==
  [state |-> "revoked", user |-> row.user, password |-> row.password,
   parent |-> row.parent, stale |-> row.stale]

Session(step, user, pw, parent, stale) ==
  [step |-> step, user |-> user, password |-> pw, parent |-> parent, stale |-> stale]

WithLink(step, user, l, stale) == [step |-> step, user |-> user, link |-> l, stale |-> stale]

CallAt(r, step) == call[r].step = step

Do(r, next) == call' = [call EXCEPT ![r] = next]

Finish(r) == Do(r, NoCall)

\* r goes on to next, and every other request in R has been overtaken.
Overtake(r, next, R) ==
  call' = [q \in Calls |->
             IF q = r THEN next
             ELSE IF q \in R THEN [call[q] EXCEPT !.stale = TRUE]
             ELSE call[q]]

\* The first id that was never used.
FirstFree(rows, free) == Min({i \in DOMAIN rows : rows[i] = free})
HasFree(rows, free) == \E i \in DOMAIN rows : rows[i] = free

AccountsInit ==
  /\ active = [u \in Users |-> TRUE]
  /\ password = [u \in Users |-> 0]
  /\ token = [t \in Tokens |-> NoToken]
  /\ link = [l \in Links |-> NoLink]
  /\ call = [r \in Calls |-> NoCall]
  /\ deleted = {}

-----------------------------------------------------------------------------
(* Login, rotation and logout. *)

\* Mutant: the account need not be active.
MayLoginAnyway(u) == TRUE

MayLogin(u) == active[u]

\* The user exists, the password is the current one, the account is active.
BeginLogin(r, u) ==
  /\ CallAt(r, "idle")
  /\ MayLogin(u)
  /\ Do(r, Session("store", u, password[u], 0, FALSE))
  /\ UNCHANGED <<active, password, token, link, deleted>>

\* Mutant: a revoked token passes.
ValidOnceIssued(t) == token[t].state \in {"live", "revoked"}

\* findAndValidateRefreshToken: known, not revoked, not expired.
Valid(t) == token[t].state = "live"

BeginRefresh(r, t) ==
  /\ CallAt(r, "idle")
  /\ Valid(t)
  /\ Do(r, Session("revoke", token[t].user, token[t].password, t, token[t].stale))
  /\ UNCHANGED <<active, password, token, link, deleted>>

BeginLogout(r, t) ==
  /\ CallAt(r, "idle")
  /\ Valid(t)
  /\ Do(r, Session("logout", token[t].user, token[t].password, t, token[t].stale))
  /\ UNCHANGED <<active, password, token, link, deleted>>

\* Requests that validated the token r is about to revoke.
SameToken(r) ==
  {q \in Calls \ {r} : call[q].step \in {"revoke", "logout"}
                         /\ call[q].parent = call[r].parent}

\* The token presented is revoked before anything else happens.
RevokeOld(r) ==
  /\ CallAt(r, "revoke")
  /\ token' = [token EXCEPT ![call[r].parent] = Revoked(@)]
  /\ Overtake(r, [call[r] EXCEPT !.step = "owner"], SameToken(r))
  /\ UNCHANGED <<active, password, link, deleted>>

\* The user behind the token is read again.
ReadOwner(r) ==
  /\ CallAt(r, "owner")
  /\ Do(r, IF active[call[r].user] THEN [call[r] EXCEPT !.step = "store"] ELSE NoCall)
  /\ UNCHANGED <<active, password, token, link, deleted>>

\* generateAndStoreRefreshToken: the row of the new session.
StoreToken(r) ==
  /\ CallAt(r, "store")
  /\ HasFree(token, NoToken)
  /\ token' = [token EXCEPT ![FirstFree(token, NoToken)] =
                 [state |-> "live", user |-> call[r].user, password |-> call[r].password,
                  parent |-> call[r].parent, stale |-> call[r].stale]]
  /\ Finish(r)
  /\ UNCHANGED <<active, password, link, deleted>>

Logout(r) ==
  /\ CallAt(r, "logout")
  /\ token' = [token EXCEPT ![call[r].parent] = Revoked(@)]
  /\ Overtake(r, NoCall, SameToken(r))
  /\ UNCHANGED <<active, password, link, deleted>>

-----------------------------------------------------------------------------
(* Forgotten passwords. *)

BeginForgot(r, u) ==
  /\ CallAt(r, "idle")
  /\ active[u]
  /\ Do(r, [step |-> "clear", user |-> u, stale |-> FALSE])
  /\ UNCHANGED <<active, password, token, link, deleted>>

\* Mutant: the links sent before are left in place.
KeptWhenCleared(u) == {l \in Links : link[l] # NoLink}

\* deleteMany removes the links of the user that were never used, expired
\* ones included.
KeptLinks(u) ==
  {l \in Links : link[l] # NoLink /\ ~(link[l].user = u /\ link[l].state \in {"unused", "expired"})}

ClearLinks(r) ==
  /\ CallAt(r, "clear")
  /\ link' = [l \in Links |-> IF link[l] = NoLink \/ l \in KeptLinks(call[r].user)
                              THEN link[l] ELSE [link[l] EXCEPT !.state = "deleted"]]
  /\ Do(r, [call[r] EXCEPT !.step = "create"])
  /\ UNCHANGED <<active, password, token, deleted>>

\* The link is stored, then sent; another request that has cleared the links
\* before this one stores a second.
CreateLink(r) ==
  /\ CallAt(r, "create")
  /\ HasFree(link, NoLink)
  /\ link' = [link EXCEPT ![FirstFree(link, NoLink)] =
                [state |-> "unused", user |-> call[r].user, stale |-> call[r].stale]]
  /\ Overtake(r, NoCall, {q \in Calls : CallAt(q, "create") /\ call[q].user = call[r].user})
  /\ UNCHANGED <<active, password, token, deleted>>

\* Mutant: a link that was used is found as well.
FoundAgain(l) == link[l].state \in {"unused", "used"}

\* The link presented is among the unused, unexpired ones.
Found(l) == link[l].state = "unused"

BeginReset(r, l) ==
  /\ CallAt(r, "idle")
  /\ Found(l)
  /\ Do(r, WithLink("link", link[l].user, l, FALSE))
  /\ UNCHANGED <<active, password, token, link, deleted>>

\* The link of an inactive user is marked used and sets nothing.
ReadLinkOwner(r) ==
  /\ CallAt(r, "link")
  /\ Do(r, [call[r] EXCEPT !.step = IF active[call[r].user] THEN "reset" ELSE "burn"])
  /\ UNCHANGED <<active, password, token, link, deleted>>

\* Updates by id fail on a link that is gone.
Exists(l) == link[l].state # "deleted"

\* Requests that have the link l in hand.
SameLink(l) == {q \in Calls : call[q].step \in {"link", "burn", "reset"} /\ call[q].link = l}

BurnLink(r) ==
  LET l == call[r].link IN
  /\ CallAt(r, "burn")
  /\ Exists(l)
  /\ link' = [link EXCEPT ![l].state = "used"]
  /\ Overtake(r, NoCall, SameLink(l))
  /\ UNCHANGED <<active, password, token, deleted>>

\* Mutant: the sessions of the user go on.
SessionsKept(u) == {}

\* updateMany: the tokens of the user that were not revoked before.
SessionsOf(u) == {t \in Tokens : token[t] # NoToken /\ token[t].user = u}

RevokeAll(S) == token' = [t \in Tokens |-> IF t \in S THEN Revoked(token[t]) ELSE token[t]]

\* Requests that will store a token for u.
OpeningSession(u) ==
  {q \in Calls : call[q].step \in {"store", "revoke", "owner"} /\ call[q].user = u}

\* One transaction: the password, the link, the sessions.
CommitReset(r) ==
  LET u == call[r].user IN
  /\ CallAt(r, "reset")
  /\ Exists(call[r].link)
  /\ password[u] < MaxResets
  /\ password' = [password EXCEPT ![u] = @ + 1]
  /\ link' = [link EXCEPT ![call[r].link].state = "used"]
  /\ RevokeAll(SessionsOf(u))
  /\ Overtake(r, NoCall, OpeningSession(u) \cup SameLink(call[r].link))
  /\ UNCHANGED <<active, deleted>>

-----------------------------------------------------------------------------
(* Deactivation of users. *)

\* updateUserById switches isActive and leaves the tokens alone.
SetActive(u, on) ==
  /\ active' = [active EXCEPT ![u] = on]
  /\ deleted' = IF on THEN deleted \ {u} ELSE deleted
  /\ UNCHANGED <<password, token, link, call>>

\* deleteUserById: the account first, then its sessions. A user who is
\* inactive already is left alone, sessions included.
DeleteUser(r, u) ==
  /\ CallAt(r, "idle")
  /\ active[u]
  /\ active' = [active EXCEPT ![u] = FALSE]
  /\ Do(r, [step |-> "end", user |-> u])
  /\ UNCHANGED <<password, token, link, deleted>>

EndSessions(r) ==
  /\ CallAt(r, "end")
  /\ RevokeAll(SessionsOf(call[r].user))
  /\ deleted' = IF active[call[r].user] THEN deleted ELSE deleted \cup {call[r].user}
  /\ Overtake(r, NoCall, OpeningSession(call[r].user))
  /\ UNCHANGED <<active, password, link>>

-----------------------------------------------------------------------------
(* Time, failures. *)

ExpireToken(t) ==
  /\ token[t].state = "live"
  /\ token' = [token EXCEPT ![t].state = "expired"]
  /\ UNCHANGED <<active, password, link, call, deleted>>

ExpireLink(l) ==
  /\ link[l].state = "unused"
  /\ link' = [link EXCEPT ![l].state = "expired"]
  /\ UNCHANGED <<active, password, token, call, deleted>>

\* An error, or a restart of the server, between two statements.
AbandonCall(r) ==
  /\ ~CallAt(r, "idle")
  /\ Finish(r)
  /\ UNCHANGED <<active, password, token, link, deleted>>

AccountsNext ==
  \/ \E r \in Calls, u \in Users : BeginLogin(r, u) \/ BeginForgot(r, u) \/ DeleteUser(r, u)
  \/ \E r \in Calls, t \in Tokens : BeginRefresh(r, t) \/ BeginLogout(r, t)
  \/ \E r \in Calls, l \in Links : BeginReset(r, l)
  \/ \E r \in Calls :
       \/ RevokeOld(r) \/ ReadOwner(r) \/ StoreToken(r) \/ Logout(r)
       \/ ClearLinks(r) \/ CreateLink(r)
       \/ ReadLinkOwner(r) \/ BurnLink(r) \/ CommitReset(r)
       \/ EndSessions(r) \/ AbandonCall(r)
  \/ \E u \in Users, on \in BOOLEAN : SetActive(u, on)
  \/ \E t \in Tokens : ExpireToken(t)
  \/ \E l \in Links : ExpireLink(l)

AccountsSpec == AccountsInit /\ [][AccountsNext]_accountsVars

-----------------------------------------------------------------------------
(* Properties. *)

Live(t) == token[t].state = "live"
Stored(t) == token[t] # NoToken

\* A refresh token is exchanged for one successor and is never valid again,
\* even when the exchange fails half way; a second successor belongs to a
\* request that validated the token before the first one revoked it.
RotatesOnce ==
  \A t, u \in Tokens :
    Stored(t) /\ Stored(u) /\ token[t].parent # 0 =>
      /\ ~Live(token[t].parent)
      /\ t # u /\ token[t].parent = token[u].parent => token[t].stale \/ token[u].stale

\* After a password reset no session opened with the old password goes on,
\* however often its token was rotated, unless a login or an exchange of it
\* was in flight during the reset.
ResetEndsSessions ==
  \A t \in Tokens : Live(t) => token[t].password = password[token[t].user] \/ token[t].stale

\* A user who has been deleted has no session left, unless it comes from a
\* login or an exchange that the deletion overtook.
DeletedHasNoSession ==
  \A t \in Tokens : Live(t) /\ token[t].user \in deleted => token[t].stale

\* A user has one reset link that works, unless two requests for one
\* overlapped.
OneResetLink ==
  \A l, m \in Links :
    l # m /\ link[l].state = "unused" /\ link[m].state = "unused" /\ link[l].user = link[m].user
      => link[l].stale \/ link[m].stale

\* A reset link sets the password once: a request that finds it used was
\* overtaken by the one that used it, and no link serves after it was
\* replaced by a later one.
LinkSpentOnce ==
  [][\A r \in Calls :
       CallAt(r, "reset") /\ password' # password /\ call'[r] = NoCall /\ ~call[r].stale
         => link[call[r].link].state \in {"unused", "expired"}]_accountsVars
=============================================================================
