----------------------------- MODULE AccessControl -----------------------------
(***************************************************************************)
(* Tenants, their users, roles and permissions: role.service.ts,           *)
(* user.service.ts, tenant.service.ts, and what auth.middleware.ts makes   *)
(* of them for each request.                                               *)
(*                                                                         *)
(* A request that checks in one statement and writes in a later one is a   *)
(* Begin and a Commit; one whose checks the database repeats when it       *)
(* writes (a unique name, a foreign key), or whose checks can never become *)
(* false (a role keeps its tenant and its system flag), is one action.     *)
(* A user id stands for the e-mail address, which is unique. Nothing is    *)
(* cached: every request loads its user's roles again. Passwords, tokens   *)
(* and isActive are in Accounts, the tenant's configuration in Alerts.     *)
(***************************************************************************)
EXTENDS Integers, FiniteSetsExt

CONSTANTS
  Tenants,          \* tenant names
  UserIds,          \* user ids
  Sites,            \* location ids
  TenantOf,         \* the tenant of each location
  MaxRoles,         \* bound: role rows ever created
  Calls             \* requests in flight at the same time

ASSUME AccessAssumption ==
  /\ MaxRoles \in Nat
  /\ TenantOf \in [Sites -> Tenants]
  /\ {"absent", "none"} \cap Tenants = {}

Roles == 1..MaxRoles

VARIABLES
  tenant,           \* tenants that exist
  home,             \* User.tenantId; "absent" is a user not created yet
  role,             \* Role rows with their permissions
  assigned,         \* UserRole: pairs of user and role
  places,           \* UserLocation, for each user
  call,             \* what each request in flight has read
  misplaced         \* history: users whom two creations of tenants took

accessVars == <<tenant, home, role, assigned, places, call, misplaced>>

-----------------------------------------------------------------------------

\* "reserved" stands for the permissions of system administrators,
\* "TenantAdmin" for the role name Tenant Admin.
Permissions == {"general", "reserved"}
Names == {"Admin", "Staff", "TenantAdmin"}

RoleRow == [tenant : Tenants, name : Names, system : BOOLEAN, grants : SUBSET Permissions]
NoRole == [name |-> "none"]

Row(t, name, system, grants) == [tenant |-> t, name |-> name, system |-> system, grants |-> grants]

NoCall == [step |-> "idle"]
CallState ==
  {NoCall}
    \cup [step : {"tenant"}, tenant : Tenants, user : UserIds, stale : BOOLEAN]
    \cup [step : {"delete"}, role : Roles, stale : BOOLEAN]
    \cup [step : {"admins"}, tenant : Tenants, users : SUBSET UserIds,
          found : SUBSET (UserIds \X Roles), stale : BOOLEAN]

AccessTypeOK ==
  /\ tenant \in SUBSET Tenants
  /\ home \in [UserIds -> Tenants \cup {"absent", "none"}]
  /\ role \in [Roles -> RoleRow \cup {NoRole}]
  /\ assigned \in SUBSET (UserIds \X Roles)
  /\ places \in [UserIds -> SUBSET Sites]
  /\ call \in [Calls -> CallState]
  /\ misplaced \in SUBSET UserIds

CallAt(r, step) == call[r].step = step
Do(r, next) == call' = [call EXCEPT ![r] = next]

\* The requests in R have been overtaken.
Overtaken(R) == [q \in Calls |-> IF q \in R THEN [call[q] EXCEPT !.stale = TRUE] ELSE call[q]]

Exists(x) == role[x] # NoRole
RolesOf(t) == {x \in Roles : Exists(x) /\ role[x].tenant = t}
LocationsOf(t) == {l \in Sites : TenantOf[l] = t}

\* Ids are never used again; here, not while a request in flight names them.
NamedBy(q) ==
  IF CallAt(q, "delete") THEN {call[q].role}
  ELSE IF CallAt(q, "admins") THEN {p[2] : p \in call[q].found} ELSE {}
Unused == {x \in Roles : ~Exists(x)} \ UNION {NamedBy(q) : q \in Calls}

\* Requests for which a new or lost assignment comes too late: deletions of
\* the role that counted its users, replacements of administrators.
Deleting(x) == {q \in Calls : CallAt(q, "delete") /\ call[q].role = x}
Replacing(t) == {q \in Calls : CallAt(q, "admins") /\ call[q].tenant = t}
Awaiting(x) == Deleting(x) \cup Replacing(role[x].tenant)

AccessInit ==
  /\ tenant = {}
  /\ home = [u \in UserIds |-> "absent"]
  /\ role = [x \in Roles |-> NoRole]
  /\ assigned = {}
  /\ places = [u \in UserIds |-> {}]
  /\ call = [r \in Calls |-> NoCall]
  /\ misplaced = {}

-----------------------------------------------------------------------------
(* What the middleware makes of a user. *)

HasRole(u, x) == <<u, x>> \in assigned

\* The permissions of all roles of the user together.
EffectivePermissions(u) == UNION {role[x].grants : x \in {y \in Roles : HasRole(u, y)}}

\* Some names make their holder an administrator, who reaches every location.
AllowedLocations(u) ==
  IF \E x \in Roles : HasRole(u, x) /\ role[x].name \in {"Admin", "TenantAdmin"}
  THEN Sites ELSE places[u]

-----------------------------------------------------------------------------
(* Tenants. *)

CreateUnassignedUser(u) ==
  /\ home[u] = "absent"
  /\ home' = [home EXCEPT ![u] = "none"]
  /\ UNCHANGED <<tenant, role, assigned, places, call, misplaced>>

\* The name is free, the user is nobody's.
BeginCreateTenant(r, t, u) ==
  /\ CallAt(r, "idle")
  /\ t \notin tenant
  /\ home[u] = "none"
  /\ Do(r, [step |-> "tenant", tenant |-> t, user |-> u, stale |-> FALSE])
  /\ UNCHANGED <<tenant, home, role, assigned, places, misplaced>>

\* The default roles: the administrator with every permission, the reserved ones
\* too, which the role service refuses to everybody and the seed to tenants; the
\* others (Manager and Staff are alike) with a fixed list.
DefaultRoles(t, admin, staff) ==
  [role EXCEPT ![admin] = Row(t, "Admin", TRUE, Permissions),
               ![staff] = Row(t, "Staff", FALSE, {"general"})]

\* One transaction; the user is taken by id, whatever became of them.
CommitCreateTenant(r) ==
  LET t == call[r].tenant  u == call[r].user
      admin == Min(Unused)  staff == Min(Unused \ {admin})
      same == {q \in Calls : CallAt(q, "tenant") /\ call[q].user = u}
  IN
  /\ CallAt(r, "tenant")
  /\ t \notin tenant
  /\ Cardinality(Unused) >= 2
  /\ tenant' = tenant \cup {t}
  /\ home' = [home EXCEPT ![u] = t]
  /\ role' = DefaultRoles(t, admin, staff)
  /\ assigned' = assigned \cup {<<u, admin>>}
  /\ misplaced' = IF call[r].stale THEN misplaced \cup {u} ELSE misplaced
  /\ call' = [Overtaken(same) EXCEPT ![r] = NoCall]
  /\ UNCHANGED places

\* Mutant: the administrators so far keep the role.
NoneReplaced(t) == {}

\* The assignments of the role Admin that the deleteMany of a replacement
\* finds.
Replaced(t) == {p \in assigned : /\ role[p[2]].tenant = t /\ role[p[2]].name = "Admin"
                                 /\ home[p[1]] = t}

\* setTenantAdmins, until its deleteMany has seen the rows to delete.
BeginSetAdmins(r, t, S) ==
  /\ CallAt(r, "idle")
  /\ t \in tenant
  /\ Cardinality(S) \in 1..2
  /\ \A u \in S : home[u] = t
  /\ Do(r, [step |-> "admins", tenant |-> t, users |-> S, found |-> Replaced(t), stale |-> FALSE])
  /\ UNCHANGED <<tenant, home, role, assigned, places, misplaced>>

AdminRole(t) == CHOOSE x \in RolesOf(t) : role[x].name = "Admin"

\* The same transaction, when it commits; it deletes no assignment that
\* appeared meanwhile.
CommitSetAdmins(r) ==
  LET t == call[r].tenant  new == call[r].users \X {AdminRole(t)} IN
  /\ CallAt(r, "admins")
  /\ assigned' = (assigned \ call[r].found) \cup new
  /\ call' = [Overtaken(Replacing(t)) EXCEPT ![r] = NoCall]
  /\ UNCHANGED <<tenant, home, role, places, misplaced>>

-----------------------------------------------------------------------------
(* Users of a tenant. *)

\* Mutant: the roles asked for need not be the tenant's.
ValidAnywhere(t, R) == \A x \in R : Exists(x)

\* The roles, and the locations, found among the tenant's.
ValidRoles(t, R) == R \subseteq RolesOf(t)
ValidLocations(t, P) == P \subseteq LocationsOf(t)

\* The roles of u become R, and requests in flight that counted on the old
\* ones are overtaken.
SetRoles(u, R) ==
  LET old == {x \in Roles : HasRole(u, x)} IN
  /\ assigned' = {p \in assigned : p[1] # u} \cup ({u} \X R)
  /\ call' = Overtaken(UNION {Awaiting(x) : x \in (old \cup R) \ (old \cap R)})

CreateUser(t, u, R, P) ==
  /\ t \in tenant
  /\ home[u] = "absent"
  /\ ValidRoles(t, R) /\ ValidLocations(t, P)
  /\ home' = [home EXCEPT ![u] = t]
  /\ SetRoles(u, R)
  /\ places' = [places EXCEPT ![u] = P]
  /\ UNCHANGED <<tenant, role, misplaced>>

\* updateUserById with roles or locations (both are one and then the other)
\* next to the fields it is for; without any of those it changes nothing.
UpdateUser(t, u) ==
  /\ home[u] = t
  /\ \/ /\ \E R \in SUBSET Roles : ValidRoles(t, R) /\ SetRoles(u, R)
        /\ UNCHANGED places
     \/ /\ \E P \in SUBSET Sites :
             ValidLocations(t, P) /\ places' = [places EXCEPT ![u] = P]
        /\ UNCHANGED <<assigned, call>>
  /\ UNCHANGED <<tenant, home, role, misplaced>>

AssignRole(t, u, x) ==
  /\ home[u] = t
  /\ ValidRoles(t, {x})
  /\ assigned' = assigned \cup {<<u, x>>}
  /\ call' = IF HasRole(u, x) THEN call ELSE Overtaken(Awaiting(x))
  /\ UNCHANGED <<tenant, home, role, places, misplaced>>

\* The user is looked up in the tenant, the role by id alone.
RemoveRole(t, u, x) ==
  /\ home[u] = t
  /\ HasRole(u, x)
  /\ assigned' = assigned \ {<<u, x>>}
  /\ call' = Overtaken(Replacing(role[x].tenant))
  /\ UNCHANGED <<tenant, home, role, places, misplaced>>

AssignLocation(t, u, l) ==
  /\ home[u] = t
  /\ ValidLocations(t, {l})
  /\ places' = [places EXCEPT ![u] = @ \cup {l}]
  /\ UNCHANGED <<tenant, home, role, assigned, call, misplaced>>

RemoveLocation(t, u, l) ==
  /\ home[u] = t
  /\ places' = [places EXCEPT ![u] = @ \ {l}]
  /\ UNCHANGED <<tenant, home, role, assigned, call, misplaced>>

-----------------------------------------------------------------------------
(* Roles of a tenant. *)

\* validateNoSuperAdminPermissions.
Grantable(G) == "reserved" \notin G

NameFree(t, name) == \A x \in RolesOf(t) : role[x].name # name

CreateRole(t, name, G) ==
  /\ t \in tenant
  /\ Unused # {}
  /\ NameFree(t, name)
  /\ Grantable(G)
  /\ role' = [role EXCEPT ![Min(Unused)] = Row(t, name, FALSE, G)]
  /\ UNCHANGED <<tenant, home, assigned, places, call, misplaced>>

\* Mutant: system roles are like any other.
ChangeableAny(x) == Exists(x)

\* Every change of a role refuses system roles.
Changeable(x) == Exists(x) /\ ~role[x].system

RenameRole(x, name) ==
  /\ Changeable(x)
  /\ role[x].name # name => NameFree(role[x].tenant, name)
  /\ role' = [role EXCEPT ![x] = Row(@.tenant, name, @.system, @.grants)]
  /\ UNCHANGED <<tenant, home, assigned, places, call, misplaced>>

Grant(x, G) == role' = [role EXCEPT ![x] = Row(@.tenant, @.name, @.system, G)]

AssignPermission(x, p) ==
  /\ Changeable(x)
  /\ Grantable({p})
  /\ Grant(x, role[x].grants \cup {p})
  /\ UNCHANGED <<tenant, home, assigned, places, call, misplaced>>

AddPermissions(x, G) ==
  /\ G # {}
  /\ Changeable(x)
  /\ Grantable(G)
  /\ Grant(x, role[x].grants \cup G)
  /\ UNCHANGED <<tenant, home, assigned, places, call, misplaced>>

RemovePermission(x, p) ==
  /\ Changeable(x)
  /\ Grant(x, role[x].grants \ {p})
  /\ UNCHANGED <<tenant, home, assigned, places, call, misplaced>>

RemovePermissions(x, G) ==
  /\ G # {}
  /\ Changeable(x)
  /\ Grant(x, role[x].grants \ G)
  /\ UNCHANGED <<tenant, home, assigned, places, call, misplaced>>

\* Mutant: the assignments are not counted.
NeverInUse(x) == FALSE

InUse(x) == \E u \in UserIds : HasRole(u, x)

BeginDeleteRole(r, x) ==
  /\ CallAt(r, "idle")
  /\ Changeable(x)
  /\ ~InUse(x)
  /\ Do(r, [step |-> "delete", role |-> x, stale |-> FALSE])
  /\ UNCHANGED <<tenant, home, role, assigned, places, misplaced>>

\* By id; assignments that appeared after the count go with the role.
CommitDeleteRole(r) ==
  LET x == call[r].role IN
  /\ CallAt(r, "delete")
  /\ Exists(x)
  /\ role' = [role EXCEPT ![x] = NoRole]
  /\ assigned' = {p \in assigned : p[2] # x}
  /\ Do(r, NoCall)
  /\ UNCHANGED <<tenant, home, places, misplaced>>

-----------------------------------------------------------------------------

\* A check that fails in the database, an error, a restart.
AbandonCall(r) ==
  /\ ~CallAt(r, "idle")
  /\ Do(r, NoCall)
  /\ UNCHANGED <<tenant, home, role, assigned, places, misplaced>>

UserSteps ==
  \E t \in Tenants, u \in UserIds :
    \/ \E R \in SUBSET Roles, P \in SUBSET Sites : CreateUser(t, u, R, P)
    \/ UpdateUser(t, u)
    \/ \E x \in Roles : AssignRole(t, u, x) \/ RemoveRole(t, u, x)
    \/ \E l \in Sites : AssignLocation(t, u, l) \/ RemoveLocation(t, u, l)

RoleSteps ==
  \E x \in Roles :
    \/ \E name \in Names : RenameRole(x, name)
    \/ \E p \in Permissions : AssignPermission(x, p) \/ RemovePermission(x, p)
    \/ \E G \in SUBSET Permissions : AddPermissions(x, G) \/ RemovePermissions(x, G)
    \/ \E r \in Calls : BeginDeleteRole(r, x)

AccessNext ==
  \/ \E u \in UserIds : CreateUnassignedUser(u)
  \/ \E r \in Calls, t \in Tenants, u \in UserIds : BeginCreateTenant(r, t, u)
  \/ \E r \in Calls, t \in Tenants, S \in SUBSET UserIds : BeginSetAdmins(r, t, S)
  \/ \E t \in Tenants, name \in Names, G \in SUBSET Permissions : CreateRole(t, name, G)
  \/ UserSteps
  \/ RoleSteps
  \/ \E r \in Calls :
       \/ CommitCreateTenant(r) \/ CommitSetAdmins(r)
       \/ CommitDeleteRole(r) \/ AbandonCall(r)

AccessSpec == AccessInit /\ [][AccessNext]_accessVars

-----------------------------------------------------------------------------
(* Properties. *)

\* What a user may do and where comes from the roles and locations of the
\* user's own tenant, through every way to assign them; only a user whom two
\* creations of tenants took at the same time keeps a role of another one.
PowersOfOwnTenant ==
  \A u \in UserIds \ misplaced :
    /\ \A x \in Roles : HasRole(u, x) => Exists(x) /\ role[x].tenant = home[u]
    /\ places[u] \subseteq {l \in Sites : TenantOf[l] = home[u]}

\* Every tenant keeps its one administrator role, with the permissions to run the
\* tenant, whatever is renamed, deleted, granted or taken away; no role that is
\* not a system role comes to hold a reserved permission. (Whether Admin should
\* hold the reserved ones, which its creation gives it, is not said here.)
AdminRoleStands ==
  /\ \A t \in tenant : \E x \in RolesOf(t) :
       /\ role[x].name = "Admin" /\ role[x].system /\ "general" \in role[x].grants
       /\ \A y \in RolesOf(t) \ {x} : role[y].name # "Admin"
  /\ \A x \in Roles : Exists(x) /\ ~role[x].system => "reserved" \notin role[x].grants

\* Deleting a role takes nothing from anybody, neither permissions nor
\* reach, unless the role was assigned after its users were counted.
DeletionTakesNothing ==
  [][\A r \in Calls :
       CallAt(r, "delete") /\ role' # role /\ call'[r] = NoCall /\ ~call[r].stale =>
         \A u \in UserIds : /\ EffectivePermissions(u)' = EffectivePermissions(u)
                            /\ AllowedLocations(u)' = AllowedLocations(u)]_accessVars

\* After a replacement of administrators the role Admin is held by those it
\* names and nobody else, unless another request changed who holds it while
\* the replacement was running; users whom two tenants took keep it.
ReplacedAdminsOnly ==
  [][\A r \in Calls :
       CallAt(r, "admins") /\ call'[r] = NoCall /\ assigned' # assigned /\ ~call[r].stale =>
         {u \in UserIds : <<u, AdminRole(call[r].tenant)>> \in assigned'} \ misplaced
           = call[r].users \ misplaced]_accessVars
=============================================================================
