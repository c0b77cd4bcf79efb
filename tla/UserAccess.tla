----------------------------- MODULE UserAccess -----------------------------
(***************************************************************************)
(* Users, their access scopes, invites and sessions, when                  *)
(* AUTH_RUNTIME_MODE is canonical: server/auth-user-management.ts,         *)
(* server/auth-runtime.ts, server/auth-bootstrap.ts, server/auth-session.ts*)
(* and the handlers of server/routes.ts that call them.                    *)
(*                                                                         *)
(* A request admitted with a session keeps the access its user had then    *)
(* ("ctx").  It takes the locks of its transaction one at a time, checks   *)
(* what it read under them, and commits; PostgreSQL breaks a circle of     *)
(* requests that wait for each other, and a connection may be lost.        *)
(***************************************************************************)
EXTENDS Integers, FiniteSets

CONSTANTS
    Users,        \* user ids, the free ones included
    Browsers,     \* clients: each has one request under way at most
    Barbers,
    Locations,
    Emails,
    Invites,      \* ids of user_invites rows
    None,
    BarberEmail,  \* the email of each barber
    Grants,       \* accesses a request may give
    Installations,\* tables the run starts from
    Ops,          \* requests that arrive
    MaxRequests   \* bound: requests in all

Places == {"global"} \cup Locations
Capabilities == {"users.manage", "access.manage", "agenda.view_own"}
GlobalOnly == {"users.manage"}
Presets == {"none", "administrator", "professional"}

Scope == [preset: Presets, caps: SUBSET Capabilities]
NoScope == [preset |-> "none", caps |-> {}]
Access == [Places -> Scope]
NoAccess == [place \in Places |-> NoScope]

\* canonicalAccessScopeInputSchema: what a body may ask for.
ValidInput(access) ==
    \A l \in Locations : /\ access[l].preset # "administrator"
                         /\ access[l].caps \cap GlobalOnly = {}

ASSUME AccessAssumption ==
    /\ "global" \notin Locations
    /\ Invites \subseteq Nat
    /\ None \notin Users \cup Barbers \cup Emails \cup Invites
    /\ Emails # {} /\ BarberEmail \in [Barbers -> Emails]
    /\ \A grant \in Grants : grant \in Access /\ ValidInput(grant)
    /\ MaxRequests \in Nat

VARIABLES
    users,    \* tables users and user_access_scopes
    links,    \* barbers.user_id
    invites,  \* table user_invites
    legacy,   \* table barber_invites: what is left of the time before the cutover
    cookies,  \* the session store: the identity in each browser's session
    req,      \* what each request under way holds in memory
    begun,
    wasReset  \* history: a professional's password was reset

vars == <<users, links, invites, legacy, cookies, req, begun, wasReset>>
tables == <<users, links, invites, legacy, wasReset>>

-----------------------------------------------------------------------------
\* pw: the version under which the password was set, 0 when there is none.
User == [status: {"none", "invited", "active", "disabled"}, version: Nat, pw: Nat,
         email: Emails \cup {None}, access: Access]
Absent == [status |-> "none", version |-> 0, pw |-> 0, email |-> None, access |-> NoAccess]
Invite == [user: Users \cup {None}, state: {"none", "open", "expired", "accepted", "revoked"}]
Identity == [user: Users \cup {None}, version: Nat, pw: Nat]
Nobody == [user |-> None, version |-> 0, pw |-> 0]

Steps == {"idle", "read", "lock", "decide", "commit", "compare", "cookie", "clear", "invalidate"}
AllOps == {"bootstrap", "login", "logout", "create", "identity", "status", "professional",
           "access", "invite", "revoke_invites", "accept", "revoke_sessions", "password",
           "invite_professional", "reset", "accept_legacy"}

Inserting == {"bootstrap", "create", "invite_professional"}

Lock == ({"user"} \X Users) \cup ({"barber"} \X Barbers) \cup ({"login"} \X Emails)
        \cup ({"invite"} \X Invites) \cup ({"legacy"} \X Barbers)
        \cup {<<"advisory", "administrators">>, <<"advisory", "bootstrap">>}

\* user, barber, invite, email, place, status, grant: the request's parameters.
\* identity: who the session will be; seen: a row read before its lock was taken.
Idle == [op |-> "logout", at |-> "idle", actor |-> None, ctx |-> NoAccess, user |-> None,
         barber |-> None, invite |-> None, email |-> None, place |-> "global",
         status |-> "none", grant |-> NoAccess, identity |-> Nobody, seen |-> None, held |-> {}]

At(c, step) == req[c].at = step
GoTo(c, step) == req' = [req EXCEPT ![c].at = step]
End(c) == req' = [req EXCEPT ![c] = Idle]

\* resolvePresetCapabilities and resolveEffectiveAccess
PresetCapabilities(preset) ==
    CASE preset = "administrator" -> Capabilities
      [] preset = "professional" -> {"agenda.view_own"}
      [] OTHER -> {}
Granted(access, place) == PresetCapabilities(access[place].preset) \cup access[place].caps
HasCapability(access, cap) == cap \in Granted(access, "global")
HasCapabilityAt(access, cap, place) == HasCapability(access, cap) \/ cap \in Granted(access, place)
IsGlobalAdministrator(access) == access["global"].preset = "administrator"

\* assertGrantCeiling
CeilingOfCapabilities(ctx, access) ==
    \A place \in Places : access[place] # NoScope =>
        /\ HasCapabilityAt(ctx, "access.manage", place)
        /\ \A cap \in access[place].caps : HasCapabilityAt(ctx, cap, place)
UnderCeiling(ctx, access) ==
    \A place \in Places : access[place] # NoScope =>
        /\ HasCapabilityAt(ctx, "access.manage", place)
        /\ place = "global" /\ IsGlobalAdministrator(access) => IsGlobalAdministrator(ctx)
        /\ \A cap \in Granted(access, place) : HasCapabilityAt(ctx, cap, place)

ActiveAdministrators(table) ==
    {u \in Users : table[u].status = "active" /\ IsGlobalAdministrator(table[u].access)}
\* assertGlobalAdministratorRemains
AdministratorOfAnyStatusRemains(table) ==
    \E u \in Users : table[u].status # "none" /\ IsGlobalAdministrator(table[u].access)
AdministratorRemains(table) == ActiveAdministrators(table) # {}

Bump(row) == [row EXCEPT !.version = @ + 1]
OpenOf(u) == {i \in Invites : invites[i].user = u /\ invites[i].state \in {"open", "expired"}}
BarbersOf(u) == {b \in Barbers : links[b] = u}
LinkOf(u) == IF BarbersOf(u) = {} THEN None ELSE CHOOSE b \in Barbers : links[b] = u
EmailTaken(email, except) == \E u \in Users \ {except} : users[u].email = email
Linkable(u, b) == links[b] \in {u, None} /\ BarbersOf(u) \subseteq {b}

\* validateCanonicalSession
Valid(c) == /\ cookies[c].user # None
            /\ users[cookies[c].user].status = "active"
            /\ users[cookies[c].user].version = cookies[c].version

\* What a run starts from: the tables as their types, foreign keys and checks admit them
\* (0015_auth_users_foundation.sql), sessions whose user had the session's version or has
\* moved on, invites as this program leaves them, and an administrator once there is a user.
ReferencesHold(table, owners, list) ==
    /\ \A b \in Barbers : owners[b] # None => table[owners[b]].status # "none"
    /\ \A i \in Invites : list[i].state # "none" =>
         list[i].user \in Users /\ table[list[i].user].status # "none"
IsOfItsUser(identity, table) == identity.user # None =>
    LET row == table[identity.user]
    IN  /\ row.status # "none" /\ identity.version <= row.version
        /\ identity.version = row.version => identity.pw = row.pw
ActiveUsersHavePasswords(table) == \A u \in Users : table[u].status = "active" => table[u].pw # 0
InvitesOpenOnce(list) == \A i, j \in Invites :
    list[i].state = "open" /\ list[j].state = "open" /\ list[i].user = list[j].user => i = j
InvitesAreAwaited(list, table, old) == \A i \in Invites : list[i].state = "open" =>
    table[list[i].user].status = "invited" \/ \E b \in Barbers : old[b] = "used"
Installed(start) ==
    /\ start.users \in [Users -> User] /\ start.links \in [Barbers -> Users \cup {None}]
    /\ start.invites \in [Invites -> Invite]
    /\ start.legacy \in [Barbers -> {"none", "open", "used"}]
    /\ start.cookies \in [Browsers -> Identity]
    /\ ReferencesHold(start.users, start.links, start.invites)
    /\ \A c \in Browsers : IsOfItsUser(start.cookies[c], start.users)
    /\ ActiveUsersHavePasswords(start.users)
    /\ InvitesOpenOnce(start.invites)
    /\ InvitesAreAwaited(start.invites, start.users, start.legacy)
    /\ (\E u \in Users : start.users[u].status # "none") => AdministratorRemains(start.users)
ASSUME InstallationAssumption == \A start \in Installations : Installed(start)

-----------------------------------------------------------------------------
(***************************************************************************)
(* Admission.                                                              *)
(***************************************************************************)
\* Room: a bound, a free user id for each request under way that may insert one.
Room == Cardinality({u \in Users : users[u].status = "none"})
        > Cardinality({c \in Browsers : req[c].op \in Inserting})
Begin(c, request) ==
    /\ request.op \in Ops
    /\ request.op \in Inserting => Room
    /\ begun' = begun + 1
    /\ req' = [req EXCEPT ![c] = request]
    /\ UNCHANGED <<tables, cookies>>

\* A request of the user the session stands for, with the access it has now.
As(c, op) == [Idle EXCEPT !.op = op, !.at = "lock", !.actor = cookies[c].user,
                          !.ctx = users[cookies[c].user].access]
Manager(c) == Valid(c) /\ HasCapability(users[cookies[c].user].access, "users.manage")

AdmitManagement(c) ==
    /\ Manager(c)
    /\ \/ \E u \in Users : users[u].status # "none" /\
            \/ \E op \in {"invite", "revoke_invites", "revoke_sessions"} :
                 Begin(c, [As(c, op) EXCEPT !.user = u])
            \/ \E e \in Emails : Begin(c, [As(c, "identity") EXCEPT !.user = u, !.email = e])
            \/ \E s \in {"active", "disabled"} :
                 Begin(c, [As(c, "status") EXCEPT !.user = u, !.status = s])
            \/ \E b \in Barbers \cup {None} :
                 Begin(c, [As(c, "professional") EXCEPT !.at = "read", !.user = u, !.barber = b])
       \/ \E g \in Grants \ {NoAccess}, e \in Emails, b \in Barbers \cup {None} :
            LET request == [As(c, "create") EXCEPT !.grant = g, !.email = e, !.barber = b]
            IN  UnderCeiling(request.ctx, g) /\ Begin(c, request)
       \/ \E b \in Barbers :
            \/ Begin(c, [As(c, "reset") EXCEPT !.at = "read", !.barber = b])
            \/ \E l \in Locations :
                 LET g == [NoAccess EXCEPT ![l].preset = "professional"]
                 IN  /\ UnderCeiling(users[cookies[c].user].access, g)
                     /\ Begin(c, [As(c, "invite_professional") EXCEPT !.barber = b, !.grant = g])

\* replaceCanonicalUserAccess before its transaction; place is "global" for replace_all.
AdmitReplaceAccess(c) ==
    /\ Valid(c)
    /\ \E u \in Users, place \in Places, g \in Grants :
        LET request == [As(c, "access") EXCEPT !.user = u, !.place = place, !.grant = g]
        IN  /\ users[u].status # "none"
            /\ place # "global" => \A other \in Places \ {place} : g[other] = NoScope
            /\ HasCapabilityAt(request.ctx, "access.manage", place)
            /\ UnderCeiling(request.ctx, g)
            /\ Begin(c, request)

AdmitPassword(c) ==
    Valid(c) /\ Begin(c, [As(c, "password") EXCEPT !.user = cookies[c].user])

\* Requests that need no session.  A login reads the row its password is compared with.
AdmitPublic(c) ==
    \/ Begin(c, [Idle EXCEPT !.op = "bootstrap", !.at = "lock"])
    \/ \E i \in Invites : invites[i].state # "none"
         /\ Begin(c, [Idle EXCEPT !.op = "accept", !.at = "lock", !.invite = i, !.user = invites[i].user])
    \/ \E b \in Barbers : legacy[b] = "open"
         /\ Begin(c, [Idle EXCEPT !.op = "accept_legacy", !.at = "read", !.barber = b])
    \/ \E u \in Users : users[u].status = "active"
         /\ Begin(c, [Idle EXCEPT !.op = "login", !.at = "compare", !.user = u,
                      !.identity = [user |-> u, version |-> users[u].version, pw |-> users[u].pw]])

\* destroyAuthenticatedSession; an identity that is no longer valid is cleared too.
Logout(c) == /\ At(c, "idle") /\ cookies[c] # Nobody /\ ("logout" \in Ops \/ ~Valid(c))
             /\ cookies' = [cookies EXCEPT ![c] = Nobody]
             /\ UNCHANGED <<tables, req, begun>>

-----------------------------------------------------------------------------
(***************************************************************************)
(* Locks: the rows and advisory locks of each transaction, in its order.   *)
(***************************************************************************)
\* createInvite and the revocation update every open invite of the user.
InviteLocks(u) == {"invite"} \X OpenOf(u)

\* Statement by statement the locks it takes, those of one statement in any order.
LockOrder(r) ==
    CASE r.op = "bootstrap" -> <<{<<"advisory", "bootstrap">>}>>
      [] r.op = "create" -> <<{<<"login", r.email>>}, {"barber"} \X ({r.barber} \ {None})>>
      [] r.op = "identity" -> <<{<<"user", r.user>>},
                                {"login"} \X ({r.email} \ {users[r.user].email})>>
      [] r.op \in {"status", "access"} ->
           <<{<<"advisory", "administrators">>}, {<<"user", r.user>>}>>
      [] r.op = "professional" -> <<{<<"user", r.user>>},
             {"barber"} \X (IF r.barber = None THEN BarbersOf(r.user) ELSE {r.barber})>>
      [] r.op \in {"invite", "revoke_invites"} -> <<{<<"user", r.user>>}, InviteLocks(r.user)>>
      [] r.op = "accept" -> <<{<<"invite", r.invite>>}, {<<"user", r.user>>}>>
      [] r.op = "invite_professional" ->
           IF links[r.barber] = None
           THEN <<{<<"barber", r.barber>>}, {<<"login", BarberEmail[r.barber]>>}>>
           ELSE <<{<<"barber", r.barber>>}, {<<"user", links[r.barber]>>}, InviteLocks(links[r.barber])>>
      [] r.op = "accept_legacy" -> <<{<<"legacy", r.barber>>}, {<<"user", r.user>>}>>
      [] OTHER -> <<{<<"user", r.user>>}>>

\* The statements that still wait, and the locks the first of them has yet to get.
Waiting(c) == {i \in DOMAIN LockOrder(req[c]) : ~(LockOrder(req[c])[i] \subseteq req[c].held)}
Missing(c) == UNION {LockOrder(req[c])[i] \ req[c].held :
                        i \in {i \in Waiting(c) : \A j \in Waiting(c) : i <= j}}
Holders(lock) == {d \in Browsers : lock \in req[d].held}

TakeLock(c) ==
    /\ At(c, "lock")
    /\ \E lock \in Missing(c) :
         Holders(lock) = {} /\ req' = [req EXCEPT ![c].held = @ \cup {lock}]
    /\ UNCHANGED <<tables, cookies, begun>>

AllLocked(c) ==
    /\ At(c, "lock") /\ Waiting(c) = {}
    /\ GoTo(c, "decide")
    /\ UNCHANGED <<tables, cookies, begun>>

WaitsFor(c) == {d \in Browsers : At(c, "lock") /\ Missing(c) \cap req[d].held # {}}
Deadlocked(c) == \E S \in SUBSET Browsers :
    c \in S /\ \A d \in S : WaitsFor(d) \cap S # {}

\* PostgreSQL's detector; a lost connection, or the server's end: what is not committed is gone.
BreakDeadlock(c) == Deadlocked(c) /\ End(c) /\ UNCHANGED <<tables, cookies, begun>>
Fail(c) == ~At(c, "idle") /\ End(c) /\ UNCHANGED <<tables, cookies, begun>>

\* What a statement reads in its snapshot, before it waits for the row it locks.
ReadSnapshot(c) ==
    /\ At(c, "read")
    /\ LET r == req[c] IN
        \/ /\ r.op = "professional"
           /\ req' = [req EXCEPT ![c].seen = LinkOf(r.user), ![c].at = "lock"]
        \/ /\ r.op = "reset"
           /\ req' = [req EXCEPT ![c] = IF links[r.barber] = None THEN Idle
                                        ELSE [r EXCEPT !.user = links[r.barber], !.at = "lock"]]
        \/ /\ r.op = "accept_legacy"
           /\ Holders(<<"legacy", r.barber>>) = {}
           /\ req' = [req EXCEPT ![c] =
                IF legacy[r.barber] # "open" \/ links[r.barber] = None THEN Idle
                ELSE [r EXCEPT !.user = links[r.barber], !.at = "lock",
                               !.held = {<<"legacy", r.barber>>}]]
    /\ UNCHANGED <<tables, cookies, begun>>

-----------------------------------------------------------------------------
(***************************************************************************)
(* What each transaction makes of its user's row, and when it refuses.     *)
(***************************************************************************)
ReplaceScopes(access, r) ==
    IF r.place = "global" THEN r.grant ELSE [access EXCEPT ![r.place] = r.grant[r.place]]

SilentlyReplaced(row, r) == [row EXCEPT !.access = ReplaceScopes(@, r)]
WithAccessReplaced(row, r) == Bump([row EXCEPT !.access = ReplaceScopes(@, r)])

RowAfter(r) ==
    LET row == users[r.user] IN
    CASE r.op = "identity" ->
           IF r.email = row.email THEN row ELSE Bump([row EXCEPT !.email = r.email])
      [] r.op = "status" ->
           IF r.status = row.status THEN row ELSE Bump([row EXCEPT !.status = r.status])
      [] r.op = "professional" -> IF r.seen = r.barber THEN row ELSE Bump(row)
      [] r.op = "access" -> WithAccessReplaced(row, r)
      [] r.op \in {"accept", "accept_legacy"} ->
           Bump([row EXCEPT !.status = "active", !.pw = row.version + 1])
      [] r.op = "password" -> Bump([row EXCEPT !.pw = row.version + 1])
      [] r.op = "reset" -> Bump([row EXCEPT !.status = "invited", !.pw = 0])
      [] r.op = "revoke_sessions" -> Bump(row)
      [] OTHER -> row
UsersAfter(r) == [users EXCEPT ![r.user] = RowAfter(r)]

\* The new row of createCanonicalInvitedUser and of the professional's first invite.
NewUser(r) == [status |-> "invited", version |-> 1, pw |-> 0, access |-> r.grant,
               email |-> IF r.op = "create" THEN r.email ELSE BarberEmail[r.barber]]
Creates(r) == r.op = "create" \/ (r.op = "invite_professional" /\ links[r.barber] = None)

\* bootstrapCanonicalAdministrator: SELECT 1 FROM users.
NoActiveUsers == \A u \in Users : users[u].status # "active"
NoUsers == \A u \in Users : users[u].status = "none"

Accepted(r) ==
    LET row == users[r.user] IN
    CASE r.op = "bootstrap" -> NoUsers
      [] Creates(r) -> /\ ~EmailTaken(NewUser(r).email, None)
                       /\ r.barber # None => links[r.barber] = None
      [] r.op = "identity" -> r.email # row.email => ~EmailTaken(r.email, r.user)
      [] r.op = "status" ->
           /\ row.status # "invited"
           /\ ~(r.user = r.actor /\ r.status = "disabled")
           /\ r.status = "active" => row.pw # 0
           /\ AdministratorRemains(UsersAfter(r))
      [] r.op = "professional" -> r.barber # None => Linkable(r.user, r.barber)
      [] r.op = "access" ->
           /\ r.user = r.actor => HasCapabilityAt(RowAfter(r).access, "access.manage", r.place)
           /\ AdministratorRemains(UsersAfter(r))
      [] r.op = "invite" -> row.status = "invited"
      [] r.op = "invite_professional" /\ ~Creates(r) ->
           LET linked == users[links[r.barber]]
           IN  linked.status = "invited" /\ linked.access # NoAccess
      [] r.op = "accept" -> invites[r.invite].state = "open" /\ row.status = "invited"
      [] r.op = "password" -> row.pw # 0 /\ row.status = "active"
      [] OTHER -> TRUE

Decide(c) ==
    /\ At(c, "decide")
    /\ IF Accepted(req[c]) THEN GoTo(c, "commit") ELSE End(c)
    /\ UNCHANGED <<tables, cookies, begun>>

-----------------------------------------------------------------------------
(***************************************************************************)
(* Commits.                                                                *)
(***************************************************************************)
Revoke(table, u) == [i \in Invites |-> IF i \in OpenOf(u) THEN [table[i] EXCEPT !.state = "revoked"]
                                       ELSE table[i]]
CreateSecondInvite(u) == \E i \in Invites :
    /\ invites[i].state = "none"
    /\ \A j \in Invites : invites[j].state = "none" => i <= j
    /\ invites' = [invites EXCEPT ![i] = [user |-> u, state |-> "open"]]
\* createInvite: an id that was never used (serial); a run with none left stops here.
CreateInvite(u) == \E i \in Invites :
    /\ invites[i].state = "none"
    /\ \A j \in Invites : invites[j].state = "none" => i <= j
    /\ invites' = [Revoke(invites, u) EXCEPT ![i] = [user |-> u, state |-> "open"]]

CommitBootstrap(c) == \E u \in Users :
    /\ req[c].op = "bootstrap" /\ users[u].status = "none"
    /\ LET row == [status |-> "active", version |-> 1, pw |-> 1, email |-> CHOOSE e \in Emails : TRUE,
                   access |-> [NoAccess EXCEPT !["global"].preset = "administrator"]]
       IN  users' = [users EXCEPT ![u] = row]
    /\ req' = [req EXCEPT ![c] = [Idle EXCEPT !.at = "cookie",
                   !.identity = [user |-> u, version |-> 1, pw |-> 1]]]
    /\ UNCHANGED <<links, invites, legacy>>

CommitNewUser(c) == \E u \in Users :
    /\ Creates(req[c]) /\ users[u].status = "none"
    /\ users' = [users EXCEPT ![u] = NewUser(req[c])]
    /\ links' = IF req[c].barber = None THEN links ELSE [links EXCEPT ![req[c].barber] = u]
    /\ CreateInvite(u)
    /\ End(c) /\ UNCHANGED legacy

CommitInvite(c) ==
    /\ req[c].op \in {"invite", "invite_professional"} /\ ~Creates(req[c])
    /\ CreateInvite(IF req[c].op = "invite" THEN req[c].user ELSE links[req[c].barber])
    /\ End(c) /\ UNCHANGED <<users, links, legacy>>

CommitRevokeInvites(c) ==
    /\ req[c].op = "revoke_invites"
    /\ invites' = Revoke(invites, req[c].user)
    /\ End(c) /\ UNCHANGED <<users, links, legacy>>

CommitProfessional(c) ==
    /\ req[c].op = "professional"
    /\ links' = [b \in Barbers |-> IF b = req[c].barber THEN req[c].user
                                   ELSE IF links[b] = req[c].user THEN None ELSE links[b]]
    /\ users' = UsersAfter(req[c])
    /\ End(c) /\ UNCHANGED <<invites, legacy>>

\* updateCanonicalUserIdentity, setCanonicalUserStatus, replaceCanonicalUserAccess
CommitRow(c) ==
    /\ req[c].op \in {"identity", "status", "access"}
    /\ users' = UsersAfter(req[c])
    /\ End(c) /\ UNCHANGED <<links, invites, legacy>>

\* The session is written, or cleared, after the transaction.
NewIdentity(r) == [user |-> r.user, version |-> RowAfter(r).version, pw |-> RowAfter(r).pw]
CommitAccept(c) ==
    LET r == req[c] IN
    /\ r.op = "accept"
    /\ users' = UsersAfter(r)
    /\ invites' = [Revoke(invites, r.user) EXCEPT ![r.invite].state = "accepted"]
    /\ req' = [req EXCEPT ![c] = [Idle EXCEPT !.at = "cookie", !.identity = NewIdentity(r)]]
    /\ UNCHANGED <<links, legacy>>

CommitAcceptLegacy(c) ==
    LET r == req[c] IN
    /\ r.op = "accept_legacy"
    /\ users' = UsersAfter(r)
    /\ legacy' = [legacy EXCEPT ![r.barber] = "used"]
    /\ req' = [req EXCEPT ![c] = [Idle EXCEPT !.at = "cookie", !.identity = NewIdentity(r)]]
    /\ UNCHANGED <<links, invites>>

CommitRevokeSessions(c) ==
    /\ req[c].op \in {"revoke_sessions", "password"}
    /\ users' = UsersAfter(req[c])
    /\ IF req[c].user = req[c].actor
       THEN req' = [req EXCEPT ![c] = [Idle EXCEPT !.at = "clear"]] ELSE End(c)
    /\ UNCHANGED <<links, invites, legacy>>

\* resetCanonicalPasswordForProfessional: one statement; the legacy invites follow.
CommitReset(c) ==
    /\ req[c].op = "reset"
    /\ users' = UsersAfter(req[c])
    /\ req' = [req EXCEPT ![c] = [Idle EXCEPT !.at = "invalidate", !.barber = req[c].barber]]
    /\ wasReset' = TRUE
    /\ UNCHANGED <<links, invites, legacy>>

Commit(c) ==
    /\ At(c, "commit")
    /\ \/ CommitBootstrap(c) \/ CommitNewUser(c) \/ CommitInvite(c) \/ CommitRevokeInvites(c)
       \/ CommitProfessional(c) \/ CommitRow(c) \/ CommitAccept(c) \/ CommitAcceptLegacy(c)
       \/ CommitRevokeSessions(c) \/ CommitReset(c)
    /\ req[c].op # "reset" => wasReset' = wasReset
    /\ UNCHANGED <<cookies, begun>>

\* invalidateBarberInvites waits for a request that has claimed the invite.
InvalidateLegacy(c) ==
    /\ At(c, "invalidate") /\ Holders(<<"legacy", req[c].barber>>) = {}
    /\ legacy' = [legacy EXCEPT ![req[c].barber] = IF @ = "open" THEN "used" ELSE @]
    /\ End(c) /\ UNCHANGED <<users, links, invites, cookies, begun, wasReset>>

AuthenticateAnyVersion(c) ==
    /\ At(c, "compare") /\ Holders(<<"user", req[c].user>>) = {}
    /\ IF users[req[c].user].status = "active"
       THEN req' = [req EXCEPT ![c].at = "cookie", ![c].identity.version = users[req[c].user].version]
       ELSE End(c)
    /\ UNCHANGED <<tables, cookies, begun>>
\* authenticateCanonicalUser after bcrypt.compare: the conditional UPDATE.
Authenticate(c) ==
    /\ At(c, "compare") /\ Holders(<<"user", req[c].user>>) = {}
    /\ LET row == users[req[c].user] IN
       IF row.status = "active" /\ row.version = req[c].identity.version
       THEN GoTo(c, "cookie") ELSE End(c)
    /\ UNCHANGED <<tables, cookies, begun>>

\* establishCanonicalSession and clearAuthenticatedSessionIdentity
EstablishSession(c) ==
    /\ At(c, "cookie")
    /\ cookies' = [cookies EXCEPT ![c] = req[c].identity]
    /\ End(c) /\ UNCHANGED <<tables, begun>>
ClearSession(c) ==
    /\ At(c, "clear")
    /\ cookies' = [cookies EXCEPT ![c] = Nobody]
    /\ End(c) /\ UNCHANGED <<tables, begun>>

Expire(i) ==
    /\ invites[i].state = "open"
    /\ \A c \in Browsers : <<"invite", i>> \notin req[c].held
    /\ invites' = [invites EXCEPT ![i].state = "expired"]
    /\ UNCHANGED <<users, links, legacy, cookies, req, begun, wasReset>>

-----------------------------------------------------------------------------
Init ==
    /\ \E start \in Installations :
        /\ users = start.users /\ links = start.links /\ invites = start.invites
        /\ legacy = start.legacy /\ cookies = start.cookies
    /\ req = [c \in Browsers |-> Idle]
    /\ begun = 0
    /\ wasReset = FALSE

Admit(c) ==
    /\ At(c, "idle") /\ begun < MaxRequests
    /\ AdmitManagement(c) \/ AdmitReplaceAccess(c) \/ AdmitPassword(c) \/ AdmitPublic(c)
Work(c) == \/ AllLocked(c) \/ BreakDeadlock(c) \/ ReadSnapshot(c) \/ Decide(c) \/ Commit(c)
           \/ InvalidateLegacy(c) \/ Authenticate(c) \/ EstablishSession(c) \/ ClearSession(c)
Next == \/ \E c \in Browsers : Admit(c) \/ Logout(c) \/ TakeLock(c) \/ Work(c) \/ Fail(c)
        \/ \E i \in Invites : Expire(i)

Spec == Init /\ [][Next]_vars

-----------------------------------------------------------------------------
\* users_password_state_check, and a session of an active user knows its password:
\* whoever logged in with a password that has been changed since is logged out, even
\* when the change was committed while the login was comparing it.
LiveSessionsKnowThePassword ==
    /\ ActiveUsersHavePasswords(users)
    /\ \A c \in Browsers : Valid(c) => cookies[c].pw = users[cookies[c].user].pw

\* "A instalacao tem de manter pelo menos um administrador global ativo": once there
\* is a user, some user is an active global administrator. TLC refutes this by itself:
\* the reset of a professional's password counts no one, see README.md.
OneAdministratorRemains ==
    (\E u \in Users : users[u].status # "none") => ActiveAdministrators(users) # {}

\* Nothing but the reset of a professional's password, which counts no one, leads to an
\* installation without an administrator: not two administrators who disable or demote
\* each other at the same time, nor one who demotes the last other one.
OnlyAResetTakesTheLastAdministrator == ~wasReset => OneAdministratorRemains

\* A session that is valid before and after a step speaks for the same rights: whatever
\* changes the status, the email, the password or the access of a user ends the sessions
\* it has at that moment.
SessionsEndWithTheirRights ==
    [][\A c \in Browsers : Valid(c) /\ Valid(c)' /\ cookies'[c] = cookies[c]
         => users'[cookies[c].user] = users[cookies[c].user]]_vars

\* An invite that can still be accepted belongs to a user who waits for it, and is the
\* only one: a replaced, revoked or accepted invite opens nothing.  The invites of the
\* time before the cutover are the exception: accepting one leaves the others open.
OneOpenInvite == InvitesOpenOnce(invites) /\ InvitesAreAwaited(invites, users, legacy)

\* A capability that nobody had where it is granted comes from nowhere.  One request, of
\* all that try to set up a new installation, makes its first user; after that what
\* anyone is given at a place the actor of the request had there (or everywhere) when
\* the request was admitted, and only a global administrator makes global administrators.
RightsAreHandedDown ==
    [][users' # users => \A u \in Users, place \in Places :
         Granted(users'[u].access, place) \subseteq Granted(users[u].access, place)
         \/ \A v \in Users : users[v].status = "none"
         \/ \E c \in Browsers :
              /\ At(c, "commit")
              /\ \A cap \in Granted(users'[u].access, place) \ Granted(users[u].access, place) :
                    HasCapabilityAt(req[c].ctx, cap, place)
              /\ IsGlobalAdministrator(users'[u].access) => IsGlobalAdministrator(req[c].ctx)
                                                          \/ IsGlobalAdministrator(users[u].access)]_vars
=============================================================================
